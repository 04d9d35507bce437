---------------------------- MODULE MemoryEdits ----------------------------
(***************************************************************************)
(* Editing one memory with `kagura update-memory`.  An edit is one call of *)
(* update_memory, except that a partial edit of the details (details_patch)*)
(* is newer than some servers:                                             *)
(*   - a server that refuses it wrote nothing, and the command reads the   *)
(*     memory, merges the patch itself and sends the whole details, with   *)
(*     every other part of the edit, in a second call;                     *)
(*   - a server that ignores it has applied the rest already.  The command *)
(*     makes sure that the server is that old, then sends the merged       *)
(*     details alone and says which parts the server did not know.         *)
(* Several editors work at once, a reply may be lost, and the server may   *)
(* be upgraded between two calls.                                          *)
(***************************************************************************)
EXTENDS FiniteSets, Naturals

CONSTANTS Editors,       \* processes running the command
          Keys,          \* keys of the memory's details
          Edits,         \* the edits an editor may ask for
          MaxUpgrades    \* bound on server upgrades

Nobody == "nobody"       \* the value of a part that no editor wrote
Absent == "absent"       \* a key that the details lack

(* The parts of an edit besides the details: arguments of update_memory.   *)
Parts == {"summary", "dismiss", "add_tags", "expected_version"}
PatchOps == {"keep", "set", "remove"}

ASSUME EditsAssumption ==
  /\ Edits \subseteq [patch : [Keys -> PatchOps], parts : SUBSET Parts]
  /\ MaxUpgrades \in Nat
  /\ Nobody \notin Editors /\ Absent \notin Editors

(* What servers of five generations know.  Before 0.82.0 an argument that  *)
(* is not declared is ignored, later it is refused; the dismissal of a     *)
(* supersede candidate came with 0.65.0, expected_version and the version  *)
(* in the reply with 0.113.0, the patch with 0.140.0.                      *)
Drops == 0
Ignores == 1
Refuses == 2
Versions == 3
Patches == 4
Generations == Drops .. Patches
Known(g) == {"summary", "details"}
              \cup (IF g >= Ignores THEN {"dismiss"} ELSE {})
              \cup (IF g >= Versions THEN {"expected_version"} ELSE {})
              \cup (IF g >= Patches THEN {"details_patch", "add_tags"} ELSE {})

VARIABLES
  generation,   \* the server's
  upgrades,
  memory,       \* who wrote each part of the memory, and its version
  editor,       \* per process: the command's control state and its locals
  applied,      \* history: the parts of the edit that the server applied
  seen,         \* history: the version the edit stands on, its own writes included
  blind         \* history: a write of the edit came after another's

editVars == <<generation, upgrades, memory, editor, applied, seen, blind>>

Details == [Keys -> Editors \cup {Nobody, Absent}]
Idle == [pc |-> "idle", edit |-> [patch |-> [k \in Keys |-> "keep"], parts |-> {}], base |-> 1,
         current |-> [k \in Keys |-> Nobody], dropped |-> {}, began |-> Drops]
Begun == {"single", "patch", "probe", "read", "merge", "readLate", "mergeLate"}
Ended == {"ok", "refused", "conflict", "unconfirmed", "unread", "partial", "lost"}

EditTypeOK ==
  /\ generation \in Generations
  /\ upgrades \in 0 .. MaxUpgrades
  /\ memory \in [details : Details, summary : Editors \cup {Nobody}, tags : SUBSET Editors, version : Nat]
  /\ editor \in [Editors -> [pc : {"idle"} \cup Begun \cup Ended,
                             edit : [patch : [Keys -> PatchOps], parts : SUBSET Parts],
                             base : Nat, current : Details, dropped : SUBSET Parts,
                             began : Generations]]   \* history: the server's when it began
  /\ applied \in [Editors -> SUBSET (Parts \cup {"details"})]
  /\ seen \in [Editors -> Nat]
  /\ blind \in [Editors -> BOOLEAN]

EditInit ==
  /\ generation \in Generations
  /\ upgrades = 0
  /\ memory = [details |-> [k \in Keys |-> Nobody], summary |-> Nobody, tags |-> {}, version |-> 1]
  /\ editor = [e \in Editors |-> Idle]
  /\ applied = [e \in Editors |-> {}]
  /\ seen = [e \in Editors |-> 1]
  /\ blind = [e \in Editors |-> FALSE]

Patched(e) == \E k \in Keys : editor[e].edit.patch[k] # "keep"
Parted(e) == editor[e].edit.parts
Goto(e, pc) == editor' = [editor EXCEPT ![e].pc = pc]

---------------------------------------------------------------------------
(* The server's update_memory.                                             *)

(* `current` with the patch of e merged in: null removes a key.            *)
_apply_details_patch(current, e) ==
  [k \in Keys |-> CASE editor[e].edit.patch[k] = "set" -> e
                    [] editor[e].edit.patch[k] = "remove" -> Absent
                    [] OTHER -> current[k]]

(* The details after a call of e with the arguments `args`: replaced by    *)
(* what e merged, or patched by the server.                                *)
Edited(e, args) ==
  CASE "details" \in args -> _apply_details_patch(editor[e].current, e)
    [] "details_patch" \in args -> _apply_details_patch(memory.details, e)
    [] OTHER -> memory.details

Unknown(args) == args \ Known(generation)

(* The call is refused as a whole for an argument the server lacks.        *)
Refused(args) == generation >= Refuses /\ Unknown(args) # {}

Conflicts(e, args) == /\ "expected_version" \in args \cap Known(generation)
                      /\ memory.version # editor[e].base

Write(e, args) ==
  LET took == args \cap Known(generation)
      new == memory.version + (IF took \subseteq {"expected_version"} THEN 0 ELSE 1) IN
  /\ memory' = [details |-> Edited(e, took),
                summary |-> IF "summary" \in took THEN e ELSE memory.summary,
                tags    |-> IF "add_tags" \in took THEN memory.tags \cup {e} ELSE memory.tags,
                version |-> new]
  /\ applied' = [applied EXCEPT ![e] =
                   @ \cup (took \cap Parts) \cup (IF took \cap {"details", "details_patch"} # {} THEN {"details"} ELSE {})]
  /\ seen' = [seen EXCEPT ![e] = new]
  /\ blind' = [blind EXCEPT ![e] = @ \/ (memory.version # seen[e] /\ new # memory.version)]

(* Mutant: every reply is taken for that of a server that knows the patch. *)
RepliedAlways == TRUE

(* What the reply makes of the command, when the call was applied.  Only a *)
(* server of 0.113.0 or later says the version.                            *)
Replied == generation >= Versions

(* One call of update_memory by e: refused, conflicting, or applied; the   *)
(* command goes on at `refused` when the server lacks the patch alone, and *)
(* at `done` when it applied the call.  A lost call or reply is an error.  *)
Call(e, args, refused, done) ==
  /\ \/ /\ Refused(args)
        /\ Goto(e, IF Unknown(args) = {"details_patch"} THEN refused ELSE "refused")
        /\ UNCHANGED <<memory, applied, seen, blind>>
     \/ /\ ~Refused(args) /\ Conflicts(e, args)
        /\ Goto(e, "conflict")
        /\ UNCHANGED <<memory, applied, seen, blind>>
     \/ /\ ~Refused(args) /\ ~Conflicts(e, args)
        /\ Write(e, args)
        /\ Goto(e, done) \/ Goto(e, "lost")
     \/ /\ Goto(e, "lost")
        /\ UNCHANGED <<memory, applied, seen, blind>>
  /\ UNCHANGED <<generation, upgrades>>

---------------------------------------------------------------------------
(* The command.                                                            *)

(* The editor saw the memory at its version, and asks for an edit.         *)
Begin(e, edit) ==
  /\ editor[e].pc = "idle"
  /\ editor' = [editor EXCEPT ![e] =
       [Idle EXCEPT !.pc = IF \E k \in Keys : edit.patch[k] # "keep" THEN "patch" ELSE "single",
                    !.edit = edit, !.base = memory.version, !.began = generation]]
  /\ seen' = [seen EXCEPT ![e] = memory.version]
  /\ UNCHANGED <<generation, upgrades, memory, applied, blind>>

(* Without a patch the edit is one call.                                   *)
SingleCall(e) ==
  /\ editor[e].pc = "single"
  /\ Call(e, Parted(e), "refused", "ok")

(* One call with the patch.  Refused for the patch alone: read and merge.  *)
(* Applied, but without a version in the reply: is the server that old?    *)
PatchCall(e) ==
  /\ editor[e].pc = "patch"
  /\ Call(e, Parted(e) \cup {"details_patch"}, "read", IF Replied THEN "ok" ELSE "probe")

(* get_server_info; a failure, or a server that refuses what it does not   *)
(* know, leaves the edit unconfirmed and nothing more is written.          *)
Probe(e) ==
  /\ editor[e].pc = "probe"
  /\ \/ generation < Refuses /\ Goto(e, "readLate")
     \/ generation >= Refuses /\ Goto(e, "unconfirmed")
     \/ Goto(e, "unconfirmed")
  /\ UNCHANGED <<generation, upgrades, memory, applied, seen, blind>>

(* reference(); a reply that is bounded, or none, ends the command.        *)
Read(e) ==
  /\ editor[e].pc \in {"read", "readLate"}
  /\ \/ editor' = [editor EXCEPT ![e].pc = IF @ = "read" THEN "merge" ELSE "mergeLate",
                                 ![e].current = memory.details]
     \/ Goto(e, "unread")
  /\ UNCHANGED <<generation, upgrades, memory, applied, seen, blind>>

(* Mutant: the second call forgets the version that guards the edit.       *)
MergedCallUnguarded(e) ==
  /\ editor[e].pc = "merge"
  /\ Call(e, (Parted(e) \ {"expected_version"}) \cup {"details"}, "refused", "ok")

(* After a refusal nothing was written: the second call repeats the edit.  *)
MergedCall(e) ==
  /\ editor[e].pc = "merge"
  /\ Call(e, Parted(e) \cup {"details"}, "refused", "ok")

(* The parts the command names: what a server before 0.82.0 cannot have    *)
(* understood, but for the dismissal, which is not on its list.            *)
Dropped(e) == Parted(e) \ {"summary", "dismiss"}

(* After an ignored patch the other parts were applied: only the details   *)
(* are sent, and what the server ignored is named.                         *)
LateCall(e) ==
  /\ editor[e].pc = "mergeLate"
  /\ \/ /\ Write(e, {"details"})
        /\ \/ editor' = [editor EXCEPT ![e].pc = IF Dropped(e) = {} THEN "ok" ELSE "partial",
                                       ![e].dropped = Dropped(e)]
           \/ Goto(e, "lost")
     \/ Goto(e, "lost") /\ UNCHANGED <<memory, applied, seen, blind>>
  /\ UNCHANGED <<generation, upgrades>>

(* The server is upgraded while the editors work.                          *)
Upgrade ==
  /\ upgrades < MaxUpgrades /\ generation < Patches
  /\ generation' \in (generation + 1) .. Patches
  /\ upgrades' = upgrades + 1
  /\ UNCHANGED <<memory, editor, applied, seen, blind>>

EditNext ==
  \/ Upgrade
  \/ \E e \in Editors :
       \/ \E edit \in Edits : Begin(e, edit)
       \/ SingleCall(e) \/ PatchCall(e) \/ Probe(e) \/ Read(e) \/ MergedCall(e) \/ LateCall(e)

EditSpec == EditInit /\ [][EditNext]_editVars

---------------------------------------------------------------------------
(* Correctness.                                                            *)

(* Servers before 0.65.0 drop the dismissal silently, and so does the      *)
(* command, as its help says (cli.py:1282-1287).                           *)
Unsaid(e) == IF editor[e].began = Drops THEN {"dismiss"} ELSE {}

Fully(e) == Parted(e) \cup (IF Patched(e) THEN {"details"} ELSE {})

(* Success means that every part of the edit was applied, over two calls   *)
(* or in one, and that an edit guarded by expected_version was applied to  *)
(* the very memory the user saw: whatever the server's generation, and     *)
(* when it is upgraded in the middle of the command.  Only an edit without *)
(* a patch, sent to a server that ignores what it does not know, is not    *)
(* looked into.                                                            *)
OkMeansApplied ==
  \A e \in Editors : editor[e].pc = "ok" /\ (Patched(e) \/ editor[e].began >= Refuses) =>
    /\ Fully(e) \ ({"expected_version"} \cup Unsaid(e)) \subseteq applied[e]
    /\ "expected_version" \in Parted(e) => "expected_version" \in applied[e] /\ ~blind[e]

(* A refusal or a conflict means that nothing of the edit was written, and *)
(* an edit that ends in part names exactly what was not applied, that      *)
(* dismissal excepted.                                                     *)
ErrorsSayWhatHappened ==
  \A e \in Editors :
    /\ editor[e].pc \in {"refused", "conflict"} => applied[e] = {}
    /\ editor[e].pc = "partial" => editor[e].dropped = Fully(e) \ (applied[e] \cup Unsaid(e))

(* How a command ends tells what became of the edit.                       *)
EditsTellTruth == OkMeansApplied /\ ErrorsSayWhatHappened

(* A key that the patch does not name keeps its value, except when the     *)
(* command merged the patch itself and nothing guarded its write: another  *)
(* editor's key may then be overwritten by the older value that was read.  *)
OthersKeysKept ==
  [][\A k \in Keys : memory'.details[k] # memory.details[k] =>
       \E e \in Editors :
         \/ editor[e].edit.patch[k] # "keep" /\ editor'[e] # editor[e]
         \/ editor[e].pc = "mergeLate"
         \/ editor[e].pc = "merge" /\ "expected_version" \notin Parted(e)]_editVars
============================================================================
