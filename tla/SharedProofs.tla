---------------------------- MODULE SharedProofs ----------------------------
(***************************************************************************)
(* Proofs about what members share through the server: one memory that     *)
(* several of them edit (MemoryEdits) and one secret that they grant,      *)
(* revoke and rotate (Secrets), for every number of members, terminals,    *)
(* commands, keys and upgrades of the server.                              *)
(***************************************************************************)
EXTENDS MemoryEdits, Secrets, TLAPS

USE SecretsAssumption, EditsAssumption DEF SecretsAssumption, EditsAssumption

-----------------------------------------------------------------------------
(* Secrets: its inductive invariant.                                       *)

\* Every key that a command kept, fetched or may still keep was named.
AllNamed ==
  /\ secret.snapshot \subseteq named
  /\ \A t \in Terminals : terminal[t].sv.snapshot \subseteq named

\* A key is registered after it is in the keychain, which keeps it.
RegistersOwn == \A t \in Terminals : terminal[t].pc = "register" => has_key(t)

\* What a terminal holds.
Locals == [pc : {"idle", "enroll", "store", "register", "put", "grant", "rotate"}, to : SUBSET Terminals,
           sv : Fetched, list : SUBSET Terminals, asked : BOOLEAN]

SecretInv == SecretTypeOK /\ NoStranger /\ AllNamed /\ RegistersOwn

\* An idle terminal holds nothing.
LEMMA QuietType == Quiet \in Locals /\ Quiet.sv.snapshot = {} /\ Quiet.pc = "idle"
BY DEF Quiet, Locals, Nothing, Fetched

\* The invariant survives a step that changes one terminal and, of what is
\* shared, at most the keychain and the registry.
LEMMA KeyStep ==
  ASSUME SecretInv, NEW t \in Terminals, NEW r \in Locals,
         terminal' = [terminal EXCEPT ![t] = r], r.sv.snapshot \subseteq named,
         keychain' \in [Members -> Terminals \cup {NoKey}],
         registry' \in [Terminals -> KeyStatus],
         commands' \in 0 .. MaxCommands,
         \A m \in Members : keychain[m] # NoKey => keychain'[m] # NoKey,
         r.pc = "register" => keychain'[OwnerOf[t]] # NoKey,
         UNCHANGED <<secret, grants, named>>
  PROVE SecretInv'
<1>1. SecretTypeOK /\ AllNamed /\ RegistersOwn /\ NoStranger BY DEF SecretInv
<1>2. terminal \in [Terminals -> Locals] BY <1>1 DEF SecretTypeOK, Locals
<1>3. terminal' \in [Terminals -> Locals] BY <1>2
<1>4. SecretTypeOK' BY <1>1, <1>3 DEF SecretTypeOK, Locals
<1>5. AllNamed' BY <1>1, <1>2 DEF AllNamed
<1>6. RegistersOwn'
  <2>1. SUFFICES ASSUME NEW u \in Terminals, terminal'[u].pc = "register"
                 PROVE keychain'[OwnerOf[u]] # NoKey
    BY DEF RegistersOwn, has_key, MyKey
  <2>2. OwnerOf[u] \in Members OBVIOUS
  <2>3. CASE u = t BY <2>1, <2>3, <1>2
  <2>4. CASE u # t BY <2>1, <2>2, <2>4, <1>1, <1>2 DEF RegistersOwn, has_key, MyKey
  <2>. QED BY <2>3, <2>4
<1>7. NoStranger' BY <1>1 DEF NoStranger
<1>. QED BY <1>4, <1>5, <1>6, <1>7 DEF SecretInv

\* The invariant survives a step of a command that keeps, of the recipients,
\* some that were named, and lets no others fetch the secret.
LEMMA ShareStep ==
  ASSUME SecretInv, terminal' \in [Terminals -> Locals],
         \A t \in Terminals : /\ terminal'[t].sv.snapshot = {} \/ terminal'[t].sv = terminal[t].sv
                              /\ terminal'[t].pc = "register" => terminal[t].pc = "register",
         secret' \in Fetched, commands' \in 0 .. MaxCommands,
         named \subseteq named', named' \subseteq Terminals,
         secret'.snapshot \subseteq named', grants' \subseteq secret'.snapshot,
         UNCHANGED <<keychain, registry>>
  PROVE SecretInv'
<1>1. SecretTypeOK /\ AllNamed /\ RegistersOwn BY DEF SecretInv
<1>2. secret'.snapshot \subseteq Terminals BY DEF Fetched
<1>3. SecretTypeOK' BY <1>1, <1>2 DEF SecretTypeOK, Locals
<1>4. AllNamed' BY <1>1 DEF AllNamed
<1>5. RegistersOwn' BY <1>1 DEF RegistersOwn, has_key, MyKey
<1>6. NoStranger' BY DEF NoStranger
<1>. QED BY <1>3, <1>4, <1>5, <1>6 DEF SecretInv

\* A command begins and counts.
LEMMA CommandCount ==
  ASSUME SecretTypeOK, commands < MaxCommands, commands' = commands + 1
  PROVE commands' \in 0 .. MaxCommands
BY DEF SecretTypeOK

\* The invariant survives the commands about keys, and what a command reads.
LEMMA KeyCommands ==
  ASSUME SecretInv, NEW t \in Terminals,
         \/ keygen(t) \/ enroll(t) \/ store_identity(t) \/ register_pubkey(t)
         \/ rotate(t) \/ fetch_secret(t) \/ list_pubkeys(t)
         \/ (\E k \in Listed : grant(t, k)) \/ (\E to \in SUBSET Listed : put(t, to))
  PROVE SecretInv'
<1>0. SecretTypeOK /\ AllNamed /\ RegistersOwn /\ OwnerOf[t] \in Members BY DEF SecretInv
<1>1. terminal \in [Terminals -> Locals] BY <1>0 DEF SecretTypeOK, Locals
<1>2. terminal[t] \in Locals /\ Quiet \in Locals BY <1>1, QuietType
<1>3. ASSUME NEW pc \in {"enroll", "register", "put", "grant", "rotate"}, NEW to \in SUBSET Terminals,
             Starting(t, pc, to), UNCHANGED <<keychain, registry, secret, grants, named>>,
             pc = "register" => has_key(t)
      PROVE SecretInv'
  <2> DEFINE r == [Quiet EXCEPT !.pc = pc, !.to = to]
  <2>1. r \in Locals /\ r.sv.snapshot = {} /\ r.pc = pc BY QuietType DEF Locals, Quiet, Nothing, Fetched
  <2>2. terminal' = [terminal EXCEPT ![t] = r] /\ commands' \in 0 .. MaxCommands
    BY <1>0, <1>3, CommandCount DEF Starting
  <2> HIDE DEF r
  <2>3. r.pc = "register" => keychain'[OwnerOf[t]] # NoKey BY <1>3, <2>1 DEF has_key, MyKey
  <2>. QED BY <1>0, <1>3, <2>1, <2>2, <2>3, KeyStep DEF SecretTypeOK
<1>4. Listed \subseteq Terminals BY DEF Listed
<1>5. CASE keygen(t) BY <1>3, <1>5 DEF keygen
<1>6. CASE rotate(t) BY <1>3, <1>6 DEF rotate
<1>7. CASE \E k \in Listed : grant(t, k) BY <1>3, <1>4, <1>7 DEF grant
<1>8. CASE \E to \in SUBSET Listed : put(t, to) BY <1>3, <1>4, <1>8 DEF put
<1>9. ASSUME NEW r \in Locals, terminal' = [terminal EXCEPT ![t] = r], r.sv.snapshot \subseteq named,
             r.pc = "register" => keychain'[OwnerOf[t]] # NoKey,
             UNCHANGED <<keychain, registry, secret, grants, commands, named>>
      PROVE SecretInv'
  BY <1>0, <1>9, KeyStep DEF SecretTypeOK
<1>10. CASE enroll(t)
  <2>1. CASE terminal' = [terminal EXCEPT ![t] = Quiet] BY <1>9, <1>10, <2>1, QuietType DEF enroll
  <2>2. CASE terminal' = [terminal EXCEPT ![t].pc = "store"]
    <3> DEFINE r == [terminal[t] EXCEPT !.pc = "store"]
    <3>1. r \in Locals /\ r.sv = terminal[t].sv /\ r.pc = "store" BY <1>2 DEF Locals
    <3>2. terminal' = [terminal EXCEPT ![t] = r] BY <2>2
    <3> HIDE DEF r
    <3>. QED BY <1>0, <1>9, <1>10, <3>1, <3>2 DEF enroll, AllNamed
  <2>. QED BY <1>10, <2>1, <2>2 DEF enroll, Finish
<1>11. CASE store_identity(t)
  <2>1. keychain' = [keychain EXCEPT ![OwnerOf[t]] = t] BY <1>11 DEF store_identity
  <2>2. keychain' \in [Members -> Terminals \cup {NoKey}] BY <1>0, <2>1 DEF SecretTypeOK
  <2>3. /\ \A m \in Members : keychain[m] # NoKey => keychain'[m] # NoKey
        /\ keychain'[OwnerOf[t]] # NoKey
    BY <1>0, <2>1 DEF SecretTypeOK
  <2>4. UNCHANGED <<registry, secret, grants, commands, named>> BY <1>11 DEF store_identity
  <2>5. CASE terminal' = [terminal EXCEPT ![t] = Quiet]
    BY <1>0, <2>2, <2>3, <2>4, <2>5, KeyStep, QuietType DEF SecretTypeOK
  <2>6. CASE terminal' = [terminal EXCEPT ![t].pc = "register"]
    <3> DEFINE r == [terminal[t] EXCEPT !.pc = "register"]
    <3>1. r \in Locals /\ r.sv = terminal[t].sv BY <1>2 DEF Locals
    <3>2. terminal' = [terminal EXCEPT ![t] = r] BY <2>6
    <3> HIDE DEF r
    <3>. QED BY <1>0, <2>2, <2>3, <2>4, <3>1, <3>2, KeyStep DEF SecretTypeOK, AllNamed
  <2>. QED BY <1>11, <2>5, <2>6 DEF store_identity, Finish
<1>12. CASE register_pubkey(t)
  <2>1. terminal' = [terminal EXCEPT ![t] = Quiet] BY <1>12 DEF register_pubkey, Finish
  <2>2. registry' \in [Terminals -> KeyStatus]
    BY <1>0, <1>12 DEF register_pubkey, SecretTypeOK, KeyStatus
  <2>. QED BY <1>0, <1>12, <2>1, <2>2, KeyStep, QuietType DEF register_pubkey, SecretTypeOK
<1>13. CASE fetch_secret(t)
  <2>1. CASE terminal' = [terminal EXCEPT ![t] = Quiet] BY <1>9, <1>13, <2>1, QuietType DEF fetch_secret
  <2>2. CASE terminal' = [terminal EXCEPT ![t].sv = secret]
    <3> DEFINE r == [terminal[t] EXCEPT !.sv = secret]
    <3>1. r \in Locals /\ r.sv = secret /\ r.pc = terminal[t].pc
      BY <1>0, <1>2 DEF Locals, SecretTypeOK
    <3>2. terminal' = [terminal EXCEPT ![t] = r] BY <2>2
    <3> HIDE DEF r
    <3>. QED BY <1>0, <1>9, <1>13, <3>1, <3>2 DEF fetch_secret, AllNamed
  <2>. QED BY <1>13, <2>1, <2>2 DEF fetch_secret, Finish
<1>14. CASE list_pubkeys(t)
  <2> DEFINE r == [terminal[t] EXCEPT !.list = Active, !.asked = TRUE]
  <2>1. Active \subseteq Terminals BY DEF Active
  <2>2. r \in Locals /\ r.sv = terminal[t].sv /\ r.pc = terminal[t].pc BY <1>2, <2>1 DEF Locals
  <2>3. terminal' = [terminal EXCEPT ![t] = r] BY <1>14 DEF list_pubkeys
  <2> HIDE DEF r
  <2>. QED BY <1>0, <1>9, <1>14, <2>2, <2>3 DEF list_pubkeys, AllNamed
<1>. QED BY <1>5, <1>6, <1>7, <1>8, <1>10, <1>11, <1>12, <1>13, <1>14

\* The invariant survives the steps that store a version, let a key fetch it
\* no more, delete it, or decide about a key.
LEMMA ShareCommands ==
  ASSUME SecretInv, NEW t \in Terminals,
         \/ put_secret_for_recipients(t) \/ delete_secret(t)
         \/ \E k \in Listed : approve_pubkey(t, k) \/ revoke_pubkey(t, k) \/ revoke_grant(t, k)
  PROVE SecretInv'
<1>0. SecretTypeOK /\ AllNamed /\ RegistersOwn /\ NoStranger BY DEF SecretInv
<1>1. terminal \in [Terminals -> Locals] BY <1>0 DEF SecretTypeOK, Locals
<1>2. secret \in Fetched /\ secret.snapshot \subseteq Terminals /\ grants \subseteq Terminals
      /\ named \subseteq Terminals /\ commands \in 0 .. MaxCommands
  BY <1>0 DEF SecretTypeOK, Fetched
<1>3. CASE put_secret_for_recipients(t)
  <2>1. /\ terminal' = [terminal EXCEPT ![t] = Quiet] /\ commands' = commands
        /\ UNCHANGED <<keychain, registry>>
    BY <1>3 DEF put_secret_for_recipients, Finish
  <2>2. /\ terminal' \in [Terminals -> Locals]
        /\ \A u \in Terminals : /\ terminal'[u].sv.snapshot = {} \/ terminal'[u].sv = terminal[u].sv
                                /\ terminal'[u].pc = "register" => terminal[u].pc = "register"
    BY <1>1, <2>1, QuietType
  <2>3. CASE Acceptable(t) /\ Recipients(t) \subseteq Active
    <3>1. Active \subseteq Terminals BY DEF Active
    <3>2. terminal[t] \in Locals /\ terminal[t].to \subseteq Terminals BY <1>1 DEF Locals
    <3>3. /\ terminal[t].pc \in {"put", "grant", "rotate"}
          /\ secret' = [version |-> secret.version + 1,
                        value |-> IF terminal[t].pc = "grant" THEN terminal[t].sv.value ELSE secret.version + 1,
                        snapshot |-> Recipients(t)]
          /\ grants' = Recipients(t)
          /\ named' = named \cup (IF terminal[t].pc = "put" THEN Recipients(t) ELSE terminal[t].to)
      BY <1>3, <2>3 DEF put_secret_for_recipients, Ready
    <3>4. Recipients(t) \subseteq named'
      <4>1. CASE terminal[t].pc = "put" BY <3>3, <4>1
      <4>2. CASE terminal[t].pc # "put"
        <5>1. Recipients(t) \subseteq terminal[t].sv.snapshot \cup terminal[t].to
          BY <3>3, <4>2 DEF Recipients, Remaining
        <5>. QED BY <5>1, <3>3, <4>2, <1>0 DEF AllNamed
      <4>. QED BY <4>1, <4>2
    <3>5. secret' \in Fetched /\ secret'.snapshot = Recipients(t)
      BY <1>2, <2>3, <3>1, <3>2, <3>3 DEF Fetched, Locals
    <3>6. named' \subseteq Terminals BY <1>2, <2>3, <3>1, <3>2, <3>3
    <3>. QED BY <1>2, <2>1, <2>2, <3>3, <3>4, <3>5, <3>6, ShareStep
  <2>4. CASE ~(Acceptable(t) /\ Recipients(t) \subseteq Active)
    <3>1. UNCHANGED <<secret, grants, named>> BY <1>3, <2>4 DEF put_secret_for_recipients
    <3>. QED BY <1>0, <1>2, <2>1, <2>2, <3>1, ShareStep DEF AllNamed, NoStranger
  <2>. QED BY <2>3, <2>4
<1>4. CASE delete_secret(t)
  <2>1. /\ secret'.snapshot = {} /\ secret' \in Fetched /\ grants' = {}
        /\ terminal' = terminal /\ commands' \in 0 .. MaxCommands
        /\ UNCHANGED <<keychain, registry, named>>
    BY <1>0, <1>2, <1>4, CommandCount DEF delete_secret, Simple, Nothing, Fetched
  <2>. QED BY <1>0, <1>1, <1>2, <2>1, ShareStep DEF AllNamed
<1>5. ASSUME NEW k \in Listed, revoke_grant(t, k) PROVE SecretInv'
  <2>1. /\ secret'.snapshot = secret.snapshot \ {k} /\ secret' \in Fetched /\ grants' = grants \ {k}
        /\ terminal' = terminal /\ commands' \in 0 .. MaxCommands
        /\ UNCHANGED <<keychain, registry, named>>
    BY <1>0, <1>2, <1>5, CommandCount DEF revoke_grant, Simple, Fetched
  <2>. QED BY <1>0, <1>1, <1>2, <2>1, ShareStep DEF AllNamed, NoStranger
<1>6. ASSUME NEW k \in Listed, approve_pubkey(t, k) \/ revoke_pubkey(t, k) PROVE SecretInv'
  <2>1. /\ registry' \in [Terminals -> KeyStatus] /\ terminal' = terminal
        /\ commands' \in 0 .. MaxCommands
        /\ UNCHANGED <<keychain, secret, grants, named>>
    BY <1>0, <1>6, CommandCount DEF approve_pubkey, revoke_pubkey, Simple, SecretTypeOK, KeyStatus
  <2>2. SecretTypeOK' BY <1>0, <2>1 DEF SecretTypeOK
  <2>. QED BY <1>0, <2>1, <2>2 DEF SecretInv, AllNamed, NoStranger, RegistersOwn, has_key, MyKey
<1>. QED BY <1>3, <1>4, <1>5, <1>6

\* Nothing was named, kept or fetched in the initial state.
LEMMA SecretInitHolds == ASSUME SecretInit PROVE SecretInv
<1>1. terminal = [t \in Terminals |-> Quiet] /\ Quiet \in Locals /\ Quiet.sv.snapshot = {} /\ Quiet.pc = "idle"
  BY QuietType DEF SecretInit
<1>2. ASSUME NEW m \in Members
      PROVE (IF \E t \in Enrolled : OwnerOf[t] = m THEN CHOOSE t \in Enrolled : OwnerOf[t] = m ELSE NoKey)
              \in Terminals \cup {NoKey}
  <2>1. CASE \E t \in Enrolled : OwnerOf[t] = m
    <3>1. (CHOOSE t \in Enrolled : OwnerOf[t] = m) \in Enrolled BY <2>1
    <3>. QED BY <2>1, <3>1
  <2>. QED BY <2>1
<1>3. keychain \in [Members -> Terminals \cup {NoKey}] BY <1>2 DEF SecretInit
<1>4. secret \in Fetched /\ secret.snapshot = {} /\ grants = {} /\ named = {} /\ commands = 0
  BY DEF SecretInit, Nothing, Fetched
<1>5. SecretTypeOK BY <1>1, <1>3, <1>4 DEF SecretInit, SecretTypeOK, KeyStatus, Locals
<1>. QED BY <1>1, <1>4, <1>5 DEF SecretInv, NoStranger, AllNamed, RegistersOwn

\* SecretInv is inductive.
LEMMA SecretNextHolds == ASSUME SecretInv, [SecretNext]_secretVars PROVE SecretInv'
<1>1. CASE UNCHANGED secretVars
  BY <1>1 DEF secretVars, SecretInv, SecretTypeOK, NoStranger, AllNamed, RegistersOwn, has_key, MyKey
<1>2. CASE SecretNext BY <1>2, KeyCommands, ShareCommands DEF SecretNext
<1>. QED BY <1>1, <1>2

\* No step but the storing of a version makes one, and each terminal moves
\* alone.
LEMMA OneWriter ==
  ASSUME SecretInv, SecretNext, secret'.version # secret.version
  PROVE \E u \in Terminals : put_secret_for_recipients(u) /\ \A t \in Terminals \ {u} : terminal'[t] = terminal[t]
<1>0. SecretTypeOK BY DEF SecretInv
<1>1. PICK u \in Terminals :
        \/ keygen(u) \/ enroll(u) \/ store_identity(u) \/ register_pubkey(u)
        \/ rotate(u) \/ delete_secret(u) \/ fetch_secret(u) \/ list_pubkeys(u) \/ put_secret_for_recipients(u)
        \/ \E k \in Listed : approve_pubkey(u, k) \/ revoke_pubkey(u, k) \/ grant(u, k) \/ revoke_grant(u, k)
        \/ \E to \in SUBSET Listed : put(u, to)
  BY DEF SecretNext
<1>2. ~delete_secret(u) BY <1>0 DEF delete_secret, Nothing, SecretTypeOK, Fetched
<1>3. \A k : ~revoke_grant(u, k) BY <1>0 DEF revoke_grant, SecretTypeOK, Fetched
<1>4. put_secret_for_recipients(u)
  BY <1>1, <1>2, <1>3 DEF keygen, enroll, store_identity, register_pubkey, rotate, fetch_secret,
     list_pubkeys, approve_pubkey, revoke_pubkey, grant, put
<1>. QED BY <1>0, <1>4 DEF put_secret_for_recipients, Finish, SecretTypeOK

\* SecretInv holds in every state the members and the server can reach.
THEOREM SecretInductive == SecretSpec => []SecretInv
<1>. QED BY SecretInitHolds, SecretNextHolds, PTL DEF SecretSpec

\* Nobody can fetch the secret whose key no command named for it, and every
\* key that can is a recipient of its ciphertext (secrets/client.py:207).
THEOREM NoStrangers == SecretSpec => []NoStranger
<1>1. SecretInv => NoStranger BY DEF SecretInv
<1>. QED BY <1>1, SecretInductive, PTL

\* A grant or a rotation stored on top of the version it had read takes no
\* active recipient and no value away, and adds at most the key it names.
THEOREM NothingLost == SecretSpec => NothingLostInOrder
<1> DEFINE Kept ==
      \A t \in Terminals :
        LET old == terminal[t] IN
          (old.pc \in {"grant", "rotate"} /\ secret'.version # secret.version /\ terminal'[t] # old
             /\ old.sv = secret) =>
            /\ secret.snapshot \cap Active \cap old.list \subseteq secret'.snapshot
            /\ secret'.snapshot \subseteq secret.snapshot \cup old.to
            /\ old.pc = "grant" => secret'.value = secret.value
<1>1. SecretInv /\ [SecretNext]_secretVars => [Kept]_secretVars
  <2>1. SUFFICES ASSUME SecretInv, SecretNext, NEW t \in Terminals,
                        terminal[t].pc \in {"grant", "rotate"}, secret'.version # secret.version,
                        terminal'[t] # terminal[t], terminal[t].sv = secret
                 PROVE /\ secret.snapshot \cap Active \cap terminal[t].list \subseteq secret'.snapshot
                       /\ secret'.snapshot \subseteq secret.snapshot \cup terminal[t].to
                       /\ terminal[t].pc = "grant" => secret'.value = secret.value
    OBVIOUS
  <2>2. put_secret_for_recipients(t) BY <2>1, OneWriter
  <2>3. /\ secret'.snapshot = Recipients(t)
        /\ terminal[t].pc = "grant" => secret'.value = secret.value
    BY <2>1, <2>2 DEF put_secret_for_recipients
  <2>4. Recipients(t) = (secret.snapshot \cap terminal[t].list)
                          \cup (IF terminal[t].pc = "grant" THEN terminal[t].to ELSE {})
    BY <2>1 DEF Recipients, Remaining
  <2>. QED BY <2>3, <2>4
<1>. QED BY <1>1, SecretInductive, PTL DEF SecretSpec, NothingLostInOrder

-----------------------------------------------------------------------------
(* MemoryEdits: its inductive invariant.                                   *)

\* An edit meets no server older than the one it began with, and only one
\* that refuses what it does not know makes the command merge at once.
GenerationFits(e) ==
  /\ editor[e].pc # "idle" => generation >= editor[e].began
  /\ editor[e].pc \in {"read", "merge"} => generation >= Refuses
  /\ editor[e].pc \in {"patch", "probe", "read", "merge", "readLate", "mergeLate"} => Patched(e)
  /\ editor[e].pc = "single" => ~Patched(e)

\* Until a call is applied nothing of the edit is; a late merge follows one
\* that applied what the oldest servers know.
AppliedFits(e) ==
  /\ editor[e].pc \in {"idle", "single", "patch", "read", "merge"} => applied[e] = {} /\ ~blind[e]
  /\ editor[e].pc \in {"single", "patch", "read", "merge"} => seen[e] = editor[e].base
  /\ editor[e].pc \in {"probe", "readLate", "mergeLate"} =>
       /\ Parted(e) \cap ({"summary", "dismiss"} \ Unsaid(e)) \subseteq applied[e]
       /\ applied[e] \subseteq Parted(e) \cap {"summary", "dismiss"}

\* What a command read is the memory as long as the version is the one its
\* user saw; versions do not decrease.
CurrentUnlessNewer(e) ==
  /\ editor[e].base <= memory.version
  /\ editor[e].pc = "merge" /\ editor[e].base = memory.version => editor[e].current = memory.details

\* EditsTellTruth, of one editor.
TellsTruth(e) ==
  /\ editor[e].pc = "ok" /\ (Patched(e) \/ editor[e].began >= Refuses) =>
       /\ Fully(e) \ ({"expected_version"} \cup Unsaid(e)) \subseteq applied[e]
       /\ "expected_version" \in Parted(e) => "expected_version" \in applied[e] /\ ~blind[e]
  /\ editor[e].pc \in {"refused", "conflict"} => applied[e] = {}
  /\ editor[e].pc = "partial" => editor[e].dropped = Fully(e) \ (applied[e] \cup Unsaid(e))

EditorSound(e) == GenerationFits(e) /\ AppliedFits(e) /\ CurrentUnlessNewer(e) /\ TellsTruth(e)

EditInv == EditTypeOK /\ \A e \in Editors : EditorSound(e)

\* What an editor holds.
EditorType == [pc : {"idle"} \cup Begun \cup Ended, edit : [patch : [Keys -> PatchOps], parts : SUBSET Parts],
               base : Nat, current : Details, dropped : SUBSET Parts, began : Generations]

\* The arguments an old server ignores and a newer one refuses.
LEMMA KnownParts ==
  /\ generation \in Generations /\ generation < Refuses =>
       Known(generation) = {"summary", "details"} \cup (IF generation = Drops THEN {} ELSE {"dismiss"})
  /\ generation \in Generations => (generation < Versions => "details_patch" \notin Known(generation))
BY DEF Known, Drops, Ignores, Refuses, Versions, Patches, Generations

\* A refusing server that does not refuse a call takes all of it.
LEMMA TakesAll ==
  ASSUME NEW args, generation >= Refuses, ~Refused(args)
  PROVE args \cap Known(generation) = args
BY DEF Refused, Unknown

\* What a call that is applied leaves of the memory, and what it adds to what
\* is known of the edit.
LEMMA WriteStep ==
  ASSUME EditTypeOK, NEW e \in Editors, NEW args, Write(e, args)
  PROVE LET took == args \cap Known(generation) IN
        /\ memory' \in [details : Details, summary : Editors \cup {Nobody}, tags : SUBSET Editors, version : Nat]
        /\ memory'.version >= memory.version
        /\ memory'.details = Edited(e, took)
        /\ "details" \notin took /\ "details_patch" \notin took => memory'.details = memory.details
        /\ memory'.version = memory.version => memory'.details = memory.details
        /\ applied' \in [Editors -> SUBSET (Parts \cup {"details"})]
        /\ applied'[e] = applied[e] \cup (took \cap Parts)
                           \cup (IF took \cap {"details", "details_patch"} # {} THEN {"details"} ELSE {})
        /\ seen' \in [Editors -> Nat] /\ blind' \in [Editors -> BOOLEAN]
        /\ memory.version = seen[e] => blind'[e] = blind[e]
        /\ \A d \in Editors \ {e} : applied'[d] = applied[d] /\ seen'[d] = seen[d] /\ blind'[d] = blind[d]
<1> DEFINE took == args \cap Known(generation)
           new == memory.version + (IF took \subseteq {"expected_version"} THEN 0 ELSE 1)
           added == (took \cap Parts) \cup (IF took \cap {"details", "details_patch"} # {} THEN {"details"} ELSE {})
<1>1. /\ memory.version \in Nat /\ memory.details \in Details /\ memory.tags \subseteq Editors
      /\ memory.summary \in Editors \cup {Nobody}
      /\ applied \in [Editors -> SUBSET (Parts \cup {"details"})]
      /\ seen \in [Editors -> Nat] /\ blind \in [Editors -> BOOLEAN]
      /\ editor[e].current \in Details
  BY DEF EditTypeOK
<1>2. new \in Nat /\ new >= memory.version BY <1>1
<1>3. Edited(e, took) \in Details
  BY <1>1 DEF Edited, _apply_details_patch, Details
<1>4. took \subseteq {"expected_version"} => Edited(e, took) = memory.details BY DEF Edited
<1>5. /\ memory' = [details |-> Edited(e, took),
                    summary |-> IF "summary" \in took THEN e ELSE memory.summary,
                    tags    |-> IF "add_tags" \in took THEN memory.tags \cup {e} ELSE memory.tags,
                    version |-> new]
      /\ applied' = [applied EXCEPT ![e] = applied[e] \cup (took \cap Parts)
             \cup (IF took \cap {"details", "details_patch"} # {} THEN {"details"} ELSE {})]
      /\ seen' = [seen EXCEPT ![e] = new]
      /\ blind' = [blind EXCEPT ![e] = blind[e] \/ (memory.version # seen[e] /\ new # memory.version)]
  BY DEF Write
<1>6. new = memory.version => took \subseteq {"expected_version"} BY <1>1
<1>7. added \subseteq Parts \cup {"details"} OBVIOUS
<1> HIDE DEF took, new
<1>8. memory' \in [details : Details, summary : Editors \cup {Nobody}, tags : SUBSET Editors, version : Nat]
  BY <1>1, <1>2, <1>3, <1>5
<1>9. /\ memory'.version >= memory.version /\ memory'.details = Edited(e, took)
      /\ memory'.version = memory.version => memory'.details = memory.details
      /\ "details" \notin took /\ "details_patch" \notin took => memory'.details = memory.details
  BY <1>1, <1>2, <1>4, <1>5, <1>6 DEF Edited
<1>10. /\ applied' \in [Editors -> SUBSET (Parts \cup {"details"})]
       /\ applied'[e] = applied[e] \cup (took \cap Parts)
             \cup (IF took \cap {"details", "details_patch"} # {} THEN {"details"} ELSE {})
  BY <1>1, <1>5, <1>7
<1>11. /\ seen' \in [Editors -> Nat] /\ blind' \in [Editors -> BOOLEAN]
       /\ memory.version = seen[e] => blind'[e] = blind[e]
  BY <1>1, <1>2, <1>5
<1>12. \A d \in Editors \ {e} : applied'[d] = applied[d] /\ seen'[d] = seen[d] /\ blind'[d] = blind[d]
  BY <1>1, <1>5
<1>. QED BY <1>8, <1>9, <1>10, <1>11, <1>12 DEF took

\* The invariant survives a step of one editor, whose call the others notice
\* only by the memory and its version.
LEMMA EditorStep ==
  ASSUME EditInv, NEW e \in Editors, NEW r \in EditorType, editor' = [editor EXCEPT ![e] = r],
         UNCHANGED <<generation, upgrades>>,
         memory' \in [details : Details, summary : Editors \cup {Nobody}, tags : SUBSET Editors, version : Nat],
         memory'.version >= memory.version,
         memory'.version = memory.version => memory'.details = memory.details,
         applied' \in [Editors -> SUBSET (Parts \cup {"details"})],
         seen' \in [Editors -> Nat], blind' \in [Editors -> BOOLEAN],
         \A d \in Editors \ {e} : applied'[d] = applied[d] /\ seen'[d] = seen[d] /\ blind'[d] = blind[d],
         EditorSound(e)'
  PROVE EditInv'
<1>1. EditTypeOK /\ editor \in [Editors -> EditorType] BY DEF EditInv, EditTypeOK, EditorType
<1>2. EditTypeOK' BY <1>1 DEF EditTypeOK, EditorType
<1>3. ASSUME NEW d \in Editors PROVE EditorSound(d)'
  <2>1. CASE d = e BY <2>1
  <2>2. CASE d # e
    <3>1. editor'[d] = editor[d] /\ applied'[d] = applied[d] /\ seen'[d] = seen[d] /\ blind'[d] = blind[d]
      BY <2>2, <1>1
    <3>2. editor[d].base \in Nat /\ memory.version \in Nat /\ memory'.version \in Nat
      BY <1>1, <1>2 DEF EditTypeOK
    <3>3. EditorSound(d) BY DEF EditInv
    <3>4. CurrentUnlessNewer(d)' BY <3>1, <3>2, <3>3 DEF EditorSound, CurrentUnlessNewer
    <3>5. (GenerationFits(d) /\ AppliedFits(d) /\ TellsTruth(d))'
      BY <3>1, <3>3 DEF EditorSound, GenerationFits, AppliedFits, TellsTruth, Patched, Parted, Fully, Unsaid
    <3>. QED BY <3>4, <3>5 DEF EditorSound
  <2>. QED BY <2>1, <2>2
<1>. QED BY <1>2, <1>3 DEF EditInv

\* The command goes on at pc, and writes nothing.
LEMMA GotoStep ==
  ASSUME EditInv, NEW e \in Editors, NEW pc \in {"idle"} \cup Begun \cup Ended,
         editor' = [editor EXCEPT ![e] = [editor[e] EXCEPT !.pc = pc]],
         UNCHANGED <<generation, upgrades, memory, applied, seen, blind>>
  PROVE /\ editor'[e].pc = pc /\ editor'[e].edit = editor[e].edit /\ editor'[e].base = editor[e].base
        /\ editor'[e].began = editor[e].began /\ editor'[e].dropped = editor[e].dropped
        /\ editor'[e].current = editor[e].current
        /\ EditorSound(e)' => EditInv'
<1>1. editor \in [Editors -> EditorType] /\ EditTypeOK BY DEF EditInv, EditTypeOK, EditorType
<1> DEFINE r == [editor[e] EXCEPT !.pc = pc]
<1>2. /\ r \in EditorType /\ r.pc = pc /\ r.edit = editor[e].edit /\ r.base = editor[e].base
      /\ r.began = editor[e].began /\ r.dropped = editor[e].dropped /\ r.current = editor[e].current
  BY <1>1 DEF EditorType
<1>3. editor' = [editor EXCEPT ![e] = r] OBVIOUS
<1> HIDE DEF r
<1>4. editor'[e] = r BY <1>1, <1>3
<1>5. /\ memory' \in [details : Details, summary : Editors \cup {Nobody}, tags : SUBSET Editors, version : Nat]
      /\ memory'.version >= memory.version /\ memory' = memory
      /\ applied' \in [Editors -> SUBSET (Parts \cup {"details"})] /\ applied' = applied
      /\ seen' \in [Editors -> Nat] /\ blind' \in [Editors -> BOOLEAN] /\ seen' = seen /\ blind' = blind
  BY <1>1 DEF EditTypeOK
<1>6. EditorSound(e)' => EditInv' BY <1>2, <1>3, <1>5, EditorStep
<1>. QED BY <1>2, <1>4, <1>6

\* The command goes on at pc after a call that was applied.
LEMMA WrittenStep ==
  ASSUME EditInv, NEW e \in Editors, NEW args, Write(e, args), NEW pc \in Begun \cup Ended,
         NEW dropped \in SUBSET Parts,
         editor' = [editor EXCEPT ![e] = [editor[e] EXCEPT !.pc = pc, !.dropped = dropped]],
         UNCHANGED <<generation, upgrades>>
  PROVE /\ editor'[e].pc = pc /\ editor'[e].edit = editor[e].edit /\ editor'[e].base = editor[e].base
        /\ editor'[e].began = editor[e].began /\ editor'[e].dropped = dropped
        /\ GenerationFits(e)' /\ AppliedFits(e)' /\ TellsTruth(e)' /\ pc # "merge" => EditInv'
<1>1. editor \in [Editors -> EditorType] /\ EditTypeOK BY DEF EditInv, EditTypeOK, EditorType
<1> DEFINE r == [editor[e] EXCEPT !.pc = pc, !.dropped = dropped]
<1>2. /\ r \in EditorType /\ r.pc = pc /\ r.edit = editor[e].edit /\ r.base = editor[e].base
      /\ r.began = editor[e].began /\ r.dropped = dropped
  BY <1>1 DEF EditorType
<1>3. editor' = [editor EXCEPT ![e] = r] OBVIOUS
<1> HIDE DEF r
<1>4. editor'[e] = r BY <1>1, <1>3
<1>5. /\ memory' \in [details : Details, summary : Editors \cup {Nobody}, tags : SUBSET Editors, version : Nat]
      /\ memory'.version >= memory.version
      /\ memory'.version = memory.version => memory'.details = memory.details
      /\ applied' \in [Editors -> SUBSET (Parts \cup {"details"})]
      /\ seen' \in [Editors -> Nat] /\ blind' \in [Editors -> BOOLEAN]
      /\ \A d \in Editors \ {e} : applied'[d] = applied[d] /\ seen'[d] = seen[d] /\ blind'[d] = blind[d]
  BY <1>1, WriteStep
<1>6. pc # "merge" => CurrentUnlessNewer(e)'
  <2>1. editor[e].base <= memory.version BY DEF EditInv, EditorSound, CurrentUnlessNewer
  <2>2. editor[e].base \in Nat /\ memory.version \in Nat /\ memory'.version \in Nat
    BY <1>1, <1>5 DEF EditTypeOK
  <2>. QED BY <1>2, <1>4, <1>5, <2>1, <2>2 DEF CurrentUnlessNewer
<1>7. EditorSound(e)' => EditInv' BY <1>1, <1>2, <1>3, <1>5, EditorStep
<1>. QED BY <1>2, <1>4, <1>6, <1>7 DEF EditorSound

\* The invariant survives one call of update_memory with every part of the
\* edit, whatever the server makes of it.
LEMMA CallStep ==
  ASSUME EditInv, NEW e \in Editors, NEW details \in {{}, {"details"}, {"details_patch"}},
         NEW refused \in {"read", "refused"}, NEW done \in {"ok", "probe"},
         Call(e, Parted(e) \cup details, refused, done),
         editor[e].pc \in {"single", "patch", "merge"},
         details = {} <=> ~Patched(e),
         details = {"details"} => editor[e].pc = "merge",
         details = {"details_patch"} => editor[e].pc = "patch",
         refused = "read" => Patched(e),
         done = "probe" => details = {"details_patch"} /\ generation < Versions,
         done = "ok" /\ details = {"details_patch"} => generation >= Versions
  PROVE EditInv'
<1> DEFINE args == Parted(e) \cup details
<1>0. /\ EditTypeOK /\ EditorSound(e) /\ generation \in 0 .. 4 /\ editor[e].base \in Nat
      /\ Parted(e) \subseteq Parts
  BY DEF EditInv, EditTypeOK, Generations, Drops, Patches, Parted
<1>1. /\ applied[e] = {} /\ ~blind[e] /\ seen[e] = editor[e].base
      /\ editor[e].began \in 0 .. 4 /\ generation >= editor[e].began
      /\ editor[e].pc = "merge" => generation >= Refuses
      /\ editor[e].base <= memory.version
  BY <1>0 DEF EditorSound, GenerationFits, AppliedFits, CurrentUnlessNewer, EditTypeOK, Generations, Drops, Patches
<1>2. UNCHANGED <<generation, upgrades>> BY DEF Call
<1>3. ASSUME NEW pc \in {"read", "refused", "conflict", "lost"}, Goto(e, pc),
             UNCHANGED <<memory, applied, seen, blind>>,
             pc = "read" => Patched(e) /\ generation >= Refuses
      PROVE EditInv'
  <2>1. pc \in Begun \cup Ended /\ editor' = [editor EXCEPT ![e] = [editor[e] EXCEPT !.pc = pc]]
    BY <1>3 DEF Goto, Begun, Ended
  <2>2. /\ editor'[e].pc = pc /\ editor'[e].edit = editor[e].edit /\ editor'[e].base = editor[e].base
        /\ editor'[e].began = editor[e].began
        /\ EditorSound(e)' => EditInv'
    BY <1>2, <1>3, <2>1, GotoStep
  <2>3. GenerationFits(e)'
    BY <1>1, <1>2, <1>3, <2>2, <1>0 DEF EditorSound, GenerationFits, Patched, Parted
  <2>4. (AppliedFits(e) /\ CurrentUnlessNewer(e) /\ TellsTruth(e))'
    BY <1>1, <1>3, <2>2 DEF AppliedFits, CurrentUnlessNewer, TellsTruth
  <2>. QED BY <2>2, <2>3, <2>4 DEF EditorSound
<1>4. ASSUME ~Refused(args), ~Conflicts(e, args), Write(e, args), NEW pc \in {done, "lost"}, Goto(e, pc)
      PROVE EditInv'
  <2>1. editor' = [editor EXCEPT ![e] = [editor[e] EXCEPT !.pc = pc, !.dropped = editor[e].dropped]]
    BY <1>0, <1>4 DEF Goto, EditTypeOK
  <2>2. pc \in Begun \cup Ended /\ pc # "merge" /\ editor[e].dropped \in SUBSET Parts
    BY <1>0 DEF Begun, Ended, EditTypeOK
  <2>3. /\ editor'[e].pc = pc /\ editor'[e].edit = editor[e].edit /\ editor'[e].base = editor[e].base
        /\ editor'[e].began = editor[e].began
        /\ GenerationFits(e)' /\ AppliedFits(e)' /\ TellsTruth(e)' => EditInv'
    <3> HIDE DEF args
    <3>. QED BY <1>2, <1>4, <2>1, <2>2, WrittenStep
  <2>4. /\ applied'[e] = ((args \cap Known(generation)) \cap Parts)
              \cup (IF (args \cap Known(generation)) \cap {"details", "details_patch"} # {} THEN {"details"} ELSE {})
        /\ memory.version = seen[e] => ~blind'[e]
    <3> HIDE DEF args
    <3>1. /\ applied'[e] = applied[e] \cup ((args \cap Known(generation)) \cap Parts)
              \cup (IF (args \cap Known(generation)) \cap {"details", "details_patch"} # {} THEN {"details"} ELSE {})
          /\ memory.version = seen[e] => blind'[e] = blind[e]
      BY <1>0, <1>4, WriteStep
    <3>. QED BY <3>1, <1>1
  <2>5. GenerationFits(e)'
    BY <1>0, <1>1, <1>2, <2>3 DEF EditorSound, GenerationFits, Patched, Parted
  <2>6. pc = "probe" => generation < Refuses
    <3>1. ASSUME pc = "probe", generation >= Refuses PROVE FALSE
      <4>1. "details_patch" \in args /\ generation < Versions BY <3>1
      <4>2. "details_patch" \notin Known(generation) BY <4>1, <1>0, KnownParts DEF Generations, Drops, Patches
      <4>. QED BY <4>1, <4>2, <3>1, <1>4, TakesAll
    <3>. QED BY <3>1, <1>0 DEF Refuses
  <2>7. AppliedFits(e)'
    <3>1. SUFFICES ASSUME pc = "probe"
                   PROVE /\ Parted(e) \cap ({"summary", "dismiss"} \ Unsaid(e)) \subseteq applied'[e]
                         /\ applied'[e] \subseteq Parted(e) \cap {"summary", "dismiss"}
      BY <2>3 DEF AppliedFits, Parted, Unsaid
    <3>2. Known(generation) = {"summary", "details"} \cup (IF generation = Drops THEN {} ELSE {"dismiss"})
      BY <1>0, <2>6, <3>1, KnownParts DEF Generations, Drops, Patches
    <3>3. generation = Drops => "dismiss" \in Unsaid(e) BY <1>0, <1>1 DEF Unsaid, Drops
    <3>4. details = {"details_patch"} BY <3>1
    <3>5. applied'[e] = Parted(e) \cap Known(generation)
      <4>1. "details_patch" \notin Known(generation) BY <3>2
      <4>. QED BY <1>0, <2>4, <3>2, <3>4, <4>1 DEF Parts
    <3>. QED BY <1>0, <3>2, <3>3, <3>5 DEF Parts
  <2>8. TellsTruth(e)'
    <3>1. SUFFICES ASSUME pc = "ok", Patched(e) \/ editor[e].began >= Refuses
                   PROVE /\ Fully(e) \ ({"expected_version"} \cup Unsaid(e)) \subseteq applied'[e]
                         /\ "expected_version" \in Parted(e) => "expected_version" \in applied'[e] /\ ~blind'[e]
      BY <2>3 DEF TellsTruth, Fully, Patched, Parted, Unsaid
    <3>2. generation >= Refuses BY <3>1, <1>0, <1>1 DEF Refuses, Versions
    <3>3. args \cap Known(generation) = args BY <3>2, <1>4, TakesAll
    <3>4. applied'[e] = Fully(e)
      BY <1>0, <2>4, <3>3 DEF Fully, Parts
    <3>5. "expected_version" \in Parted(e) => memory.version = seen[e]
      BY <1>1, <1>4, <3>3 DEF Conflicts
    <3>. QED BY <2>4, <3>4, <3>5 DEF Fully
  <2>. QED BY <2>3, <2>5, <2>7, <2>8
<1>5. CASE Refused(args) /\ Goto(e, IF Unknown(args) = {"details_patch"} THEN refused ELSE "refused")
             /\ UNCHANGED <<memory, applied, seen, blind>>
  <2>1. generation >= Refuses BY <1>5 DEF Refused
  <2>. QED BY <1>3, <1>5, <2>1
<1>6. CASE Conflicts(e, args) /\ Goto(e, "conflict") /\ UNCHANGED <<memory, applied, seen, blind>>
  BY <1>3, <1>6
<1>7. CASE Goto(e, "lost") /\ UNCHANGED <<memory, applied, seen, blind>> BY <1>3, <1>7
<1>8. CASE ~Refused(args) /\ ~Conflicts(e, args) /\ Write(e, args) /\ (Goto(e, done) \/ Goto(e, "lost"))
  BY <1>4, <1>8
<1>. QED BY <1>5, <1>6, <1>7, <1>8 DEF Call

\* The invariant survives the calls of a command that says no more than its
\* edit.
LEMMA CallsStep ==
  ASSUME EditInv, NEW e \in Editors, SingleCall(e) \/ PatchCall(e) \/ MergedCall(e)
  PROVE EditInv'
<1>0. EditorSound(e) /\ generation \in 0 .. 4
  BY DEF EditInv, EditTypeOK, Generations, Drops, Patches
<1>1. CASE SingleCall(e)
  <2>1. ~Patched(e) /\ editor[e].pc = "single" BY <1>0, <1>1 DEF SingleCall, EditorSound, GenerationFits
  <2>2. Call(e, Parted(e) \cup {}, "refused", "ok")
    <3>1. Parted(e) \cup {} = Parted(e) OBVIOUS
    <3>. QED BY <1>1, <3>1 DEF SingleCall
  <2>. QED BY <2>1, <2>2, CallStep
<1>2. CASE PatchCall(e)
  <2>1. Patched(e) /\ editor[e].pc = "patch" BY <1>0, <1>2 DEF PatchCall, EditorSound, GenerationFits
  <2>2. CASE generation >= Versions
    BY <1>2, <2>1, <2>2, CallStep DEF PatchCall, Replied
  <2>3. CASE ~(generation >= Versions)
    <3>1. generation < Versions BY <1>0, <2>3 DEF Versions
    <3>. QED BY <1>2, <2>1, <2>3, <3>1, CallStep DEF PatchCall, Replied
  <2>. QED BY <2>2, <2>3
<1>3. CASE MergedCall(e)
  <2>1. Patched(e) /\ editor[e].pc = "merge" BY <1>0, <1>3 DEF MergedCall, EditorSound, GenerationFits
  <2>. QED BY <1>3, <2>1, CallStep DEF MergedCall
<1>. QED BY <1>1, <1>2, <1>3

\* The invariant survives the beginning of a command.
LEMMA BeginStep == ASSUME EditInv, NEW e \in Editors, NEW edit \in Edits, Begin(e, edit) PROVE EditInv'
<1>0. EditTypeOK /\ EditorSound(e) /\ generation \in 0 .. 4 /\ memory.version \in Nat
      /\ editor \in [Editors -> EditorType] /\ memory.details \in Details
  BY DEF EditInv, EditTypeOK, EditorType, Generations, Drops, Patches
<1> DEFINE patched == \E k \in Keys : edit.patch[k] # "keep"
           r == [Idle EXCEPT !.pc = IF patched THEN "patch" ELSE "single",
                    !.edit = edit, !.base = memory.version, !.began = generation]
<1>1. /\ editor[e].pc = "idle" /\ editor' = [editor EXCEPT ![e] = r]
      /\ seen' = [seen EXCEPT ![e] = memory.version]
      /\ UNCHANGED <<generation, upgrades, memory, applied, blind>>
  BY DEF Begin
<1>2. edit \in [patch : [Keys -> PatchOps], parts : SUBSET Parts] OBVIOUS
<1>3. [k \in Keys |-> Nobody] \in Details BY DEF Details
<1>4. /\ r \in EditorType /\ r.edit = edit /\ r.base = memory.version
      /\ r.pc = (IF patched THEN "patch" ELSE "single")
      /\ r.began = generation
  BY <1>0, <1>2, <1>3 DEF Idle, EditorType, Begun, EditTypeOK
<1> HIDE DEF r
<1>5. /\ editor'[e] = r /\ seen' \in [Editors -> Nat] /\ seen'[e] = memory.version
      /\ \A d \in Editors \ {e} : seen'[d] = seen[d]
  BY <1>0, <1>1 DEF EditTypeOK
<1>6. GenerationFits(e)'
  <2>1. Patched(e)' <=> patched BY <1>4, <1>5 DEF Patched
  <2>2. generation' >= editor'[e].began BY <1>0, <1>1, <1>4, <1>5
  <2>3. editor'[e].pc = IF patched THEN "patch" ELSE "single" BY <1>4, <1>5
  <2> HIDE DEF patched
  <2>. QED BY <2>1, <2>2, <2>3 DEF GenerationFits
<1>7. AppliedFits(e)' BY <1>0, <1>1, <1>4, <1>5 DEF EditorSound, AppliedFits
<1>8. CurrentUnlessNewer(e)' BY <1>0, <1>1, <1>4, <1>5 DEF CurrentUnlessNewer
<1>9. TellsTruth(e)' BY <1>4, <1>5 DEF TellsTruth
<1>10. EditorSound(e)' BY <1>6, <1>7, <1>8, <1>9 DEF EditorSound
<1>11. /\ memory' = memory /\ applied' = applied /\ blind' = blind
       /\ memory'.version >= memory.version
       /\ memory' \in [details : Details, summary : Editors \cup {Nobody}, tags : SUBSET Editors, version : Nat]
       /\ applied' \in [Editors -> SUBSET (Parts \cup {"details"})] /\ blind' \in [Editors -> BOOLEAN]
       /\ UNCHANGED <<generation, upgrades>>
  BY <1>0, <1>1 DEF EditTypeOK
<1>. QED BY <1>1, <1>4, <1>5, <1>10, <1>11, EditorStep

\* The invariant survives what a command asks the server without writing.
LEMMA AsksStep == ASSUME EditInv, NEW e \in Editors, Probe(e) \/ Read(e) PROVE EditInv'
<1>0. EditTypeOK /\ EditorSound(e) /\ generation \in 0 .. 4 /\ memory.version \in Nat
      /\ editor \in [Editors -> EditorType] /\ memory.details \in Details
  BY DEF EditInv, EditTypeOK, EditorType, Generations, Drops, Patches
<1>1. UNCHANGED <<generation, upgrades, memory, applied, seen, blind>> BY DEF Probe, Read
<1>2. CASE Goto(e, "unconfirmed") \/ Goto(e, "unread")
  <2>1. PICK pc \in {"unconfirmed", "unread"} :
          editor' = [editor EXCEPT ![e] = [editor[e] EXCEPT !.pc = pc]]
    BY <1>2 DEF Goto
  <2>2. pc \in Ended BY DEF Ended
  <2>3. /\ editor'[e].pc = pc /\ editor'[e].base = editor[e].base /\ editor'[e].began = editor[e].began
        /\ EditorSound(e)' => EditInv'
    BY <1>1, <2>1, <2>2, GotoStep
  <2>4. editor[e].pc # "idle" BY DEF Probe, Read
  <2>. QED BY <1>0, <1>1, <2>3, <2>4
       DEF EditorSound, GenerationFits, AppliedFits, CurrentUnlessNewer, TellsTruth
<1>3. CASE Probe(e) /\ Goto(e, "readLate")
  <2>1. editor' = [editor EXCEPT ![e] = [editor[e] EXCEPT !.pc = "readLate"]] /\ editor[e].pc = "probe"
    BY <1>3 DEF Probe, Goto
  <2>2. "readLate" \in Begun BY DEF Begun
  <2>3. /\ editor'[e].pc = "readLate" /\ editor'[e].base = editor[e].base /\ editor'[e].began = editor[e].began
        /\ editor'[e].edit = editor[e].edit /\ EditorSound(e)' => EditInv'
    BY <1>1, <2>1, <2>2, GotoStep
  <2>. QED BY <1>0, <1>1, <2>1, <2>3
       DEF EditorSound, GenerationFits, AppliedFits, CurrentUnlessNewer, TellsTruth, Patched, Parted,
           Unsaid
<1>4. CASE /\ Read(e)
           /\ editor' = [editor EXCEPT ![e].pc = IF @ = "read" THEN "merge" ELSE "mergeLate",
                                       ![e].current = memory.details]
  <2> DEFINE pc == IF editor[e].pc = "read" THEN "merge" ELSE "mergeLate"
             r == [editor[e] EXCEPT !.pc = pc, !.current = memory.details]
  <2>1. /\ r \in EditorType /\ r.pc = pc /\ r.current = memory.details /\ r.edit = editor[e].edit
        /\ r.base = editor[e].base /\ r.began = editor[e].began
    <3>1. pc \in Begun BY DEF Begun
    <3> HIDE DEF pc
    <3>. QED BY <1>0, <3>1 DEF EditorType
  <2>2. editor' = [editor EXCEPT ![e] = r] BY <1>0, <1>4 DEF EditorType
  <2>3. editor[e].pc \in {"read", "readLate"} BY <1>4 DEF Read
  <2> HIDE DEF r
  <2>4. editor'[e] = r BY <1>0, <2>2
  <2>5. GenerationFits(e)'
    BY <1>0, <1>1, <2>1, <2>3, <2>4 DEF EditorSound, GenerationFits, Patched
  <2>6. AppliedFits(e)' BY <1>0, <1>1, <2>1, <2>3, <2>4 DEF EditorSound, AppliedFits, Parted, Unsaid
  <2>7. CurrentUnlessNewer(e)' BY <1>0, <1>1, <2>1, <2>4 DEF EditorSound, CurrentUnlessNewer
  <2>8. TellsTruth(e)' BY <2>1, <2>4 DEF TellsTruth
  <2>9. EditorSound(e)' BY <2>5, <2>6, <2>7, <2>8 DEF EditorSound
  <2>10. /\ memory' = memory /\ applied' = applied /\ seen' = seen /\ blind' = blind
         /\ memory'.version >= memory.version
    BY <1>0, <1>1
  <2>. QED BY <1>0, <1>1, <2>1, <2>2, <2>9, <2>10, EditorStep DEF EditTypeOK
<1>. QED BY <1>2, <1>3, <1>4 DEF Probe, Read

\* The invariant survives the late call, which sends the details alone.
LEMMA LateStep == ASSUME EditInv, NEW e \in Editors, LateCall(e) PROVE EditInv'
<1>0. EditTypeOK /\ EditorSound(e) /\ generation \in 0 .. 4 /\ editor[e].dropped \in SUBSET Parts
      /\ editor \in [Editors -> EditorType] /\ Parted(e) \subseteq Parts
  BY DEF EditInv, EditTypeOK, EditorType, Generations, Drops, Patches, Parted
<1>1. /\ editor[e].pc = "mergeLate" /\ UNCHANGED <<generation, upgrades>>
      /\ Patched(e) /\ generation >= editor[e].began
      /\ Parted(e) \cap ({"summary", "dismiss"} \ Unsaid(e)) \subseteq applied[e]
      /\ applied[e] \subseteq Parted(e) \cap {"summary", "dismiss"}
  BY <1>0 DEF LateCall, EditorSound, GenerationFits, AppliedFits
<1>2. CASE Goto(e, "lost") /\ UNCHANGED <<memory, applied, seen, blind>>
  <2>1. editor' = [editor EXCEPT ![e] = [editor[e] EXCEPT !.pc = "lost"]] /\ "lost" \in Ended
    BY <1>2 DEF Goto, Ended
  <2>2. /\ editor'[e].pc = "lost" /\ editor'[e].base = editor[e].base /\ editor'[e].began = editor[e].began
        /\ EditorSound(e)' => EditInv'
    BY <1>1, <1>2, <2>1, GotoStep
  <2>. QED BY <1>0, <1>1, <1>2, <2>2
       DEF EditorSound, GenerationFits, AppliedFits, CurrentUnlessNewer, TellsTruth
<1>3. ASSUME Write(e, {"details"}), NEW pc \in {"ok", "partial", "lost"}, NEW dropped \in SUBSET Parts,
             editor' = [editor EXCEPT ![e] = [editor[e] EXCEPT !.pc = pc, !.dropped = dropped]],
             pc = "ok" => Dropped(e) = {},
             pc = "partial" => dropped = Dropped(e)
      PROVE EditInv'
  <2>1. pc \in Begun \cup Ended /\ pc # "merge" BY DEF Ended
  <2>2. /\ editor'[e].pc = pc /\ editor'[e].edit = editor[e].edit
        /\ editor'[e].began = editor[e].began /\ editor'[e].dropped = dropped
        /\ GenerationFits(e)' /\ AppliedFits(e)' /\ TellsTruth(e)' => EditInv'
    <3> DEFINE args == {"details"}
    <3>1. Write(e, args) BY <1>3
    <3>2. editor' = [editor EXCEPT ![e] = [editor[e] EXCEPT !.pc = pc, !.dropped = dropped]]
      BY <1>3
    <3>3. UNCHANGED <<generation, upgrades>> BY <1>1
    <3> HIDE DEF args
    <3>4. dropped \in SUBSET Parts /\ pc \in Begun \cup Ended BY <2>1
    <3>. QED BY <2>1, <3>1, <3>2, <3>3, <3>4, WrittenStep, ZenonT(60)
  <2>3. "details" \in Known(generation) BY DEF Known
  <2>4. applied'[e] = applied[e] \cup {"details"}
    <3> DEFINE args == {"details"}
               took == args \cap Known(generation)
    <3>1. took = {"details"} BY <2>3
    <3>2. Write(e, args) BY <1>3
    <3> HIDE DEF args
    <3>3. applied'[e] = applied[e] \cup (took \cap Parts)
                          \cup (IF took \cap {"details", "details_patch"} # {} THEN {"details"} ELSE {})
      BY <1>0, <3>2, WriteStep
    <3>. QED BY <1>1, <3>1, <3>3 DEF Parts
  <2>5. GenerationFits(e)' /\ AppliedFits(e)' BY <1>1, <2>2 DEF GenerationFits, AppliedFits
  <2>6. TellsTruth(e)'
    <3>1. Fully(e) = Parted(e) \cup {"details"} /\ Fully(e)' = Fully(e) /\ Parted(e)' = Parted(e)
          /\ Unsaid(e)' = Unsaid(e) /\ Unsaid(e) \subseteq {"dismiss"}
      BY <1>1, <2>2 DEF Fully, Patched, Parted, Unsaid
    <3>2. CASE pc = "ok"
      BY <1>0, <1>1, <1>3, <2>2, <2>4, <3>1, <3>2 DEF TellsTruth, Dropped, Parts
    <3>3. CASE pc = "partial"
      BY <1>0, <1>1, <1>3, <2>2, <2>4, <3>1, <3>3 DEF TellsTruth, Dropped, Parts
    <3>4. CASE pc = "lost" BY <2>2, <3>4 DEF TellsTruth
    <3>. QED BY <3>2, <3>3, <3>4
  <2>. QED BY <2>2, <2>5, <2>6
<1>4. Dropped(e) \in SUBSET Parts BY <1>0 DEF Dropped
<1>5. CASE /\ Write(e, {"details"})
           /\ editor' = [editor EXCEPT ![e].pc = IF Dropped(e) = {} THEN "ok" ELSE "partial",
                                       ![e].dropped = Dropped(e)]
  <2> DEFINE pc == IF Dropped(e) = {} THEN "ok" ELSE "partial"
             dropped == Dropped(e)
  <2>1. /\ pc \in {"ok", "partial", "lost"} /\ dropped \in SUBSET Parts
        /\ pc = "ok" => Dropped(e) = {}
        /\ pc = "partial" => dropped = Dropped(e)
    BY <1>4
  <2>2. editor' = [editor EXCEPT ![e] = [editor[e] EXCEPT !.pc = pc, !.dropped = dropped]]
    BY <1>0, <1>5 DEF EditorType
  <2> HIDE DEF pc, dropped
  <2>. QED BY <1>3, <1>5, <2>1, <2>2
<1>6. CASE Write(e, {"details"}) /\ Goto(e, "lost")
  <2>1. editor' = [editor EXCEPT ![e] = [editor[e] EXCEPT !.pc = "lost", !.dropped = editor[e].dropped]]
    BY <1>0, <1>6 DEF Goto, EditorType
  <2>. QED BY <1>0, <1>3, <1>6, <2>1
<1>. QED BY <1>2, <1>5, <1>6 DEF LateCall

\* No edit was begun in the initial state.
LEMMA EditInitHolds == ASSUME EditInit PROVE EditInv
<1>1. Idle \in EditorType /\ Idle.pc = "idle" /\ Idle.base = 1
  BY DEF Idle, EditorType, Details, PatchOps, Generations, Drops, Patches
<1>2. editor = [e \in Editors |-> Idle] /\ memory.version = 1 BY DEF EditInit
<1>3. memory \in [details : Details, summary : Editors \cup {Nobody}, tags : SUBSET Editors, version : Nat]
  BY DEF EditInit, Details
<1>4. EditTypeOK BY <1>1, <1>2, <1>3 DEF EditInit, EditTypeOK, EditorType
<1>. QED BY <1>1, <1>2, <1>4
     DEF EditInit, EditInv, EditorSound, GenerationFits, AppliedFits, CurrentUnlessNewer, TellsTruth

\* EditInv is inductive.
LEMMA EditNextHolds == ASSUME EditInv, [EditNext]_editVars PROVE EditInv'
<1>0. EditTypeOK BY DEF EditInv
<1>1. CASE UNCHANGED editVars
  BY <1>1 DEF editVars, EditInv, EditTypeOK, EditorSound, GenerationFits, AppliedFits, CurrentUnlessNewer,
     TellsTruth, Patched, Parted, Fully, Unsaid
<1>2. CASE Upgrade
  <2>1. /\ generation' \in Generations /\ generation' >= generation /\ upgrades' \in 0 .. MaxUpgrades
        /\ UNCHANGED <<memory, editor, applied, seen, blind>>
    BY <1>0, <1>2 DEF Upgrade, EditTypeOK, Generations, Drops, Patches
  <2>2. EditTypeOK' BY <1>0, <2>1 DEF EditTypeOK
  <2>3. ASSUME NEW e \in Editors PROVE EditorSound(e)'
    <3>1. generation \in 0 .. 4 /\ generation' \in 0 .. 4
      BY <1>0, <2>1 DEF EditTypeOK, Generations, Drops, Patches
    <3>2. EditorSound(e) BY DEF EditInv
    <3>3. editor[e].began \in 0 .. 4 BY <1>0 DEF EditTypeOK, Generations, Drops, Patches
    <3>4. GenerationFits(e)' BY <2>1, <3>1, <3>2, <3>3 DEF EditorSound, GenerationFits, Patched, Refuses
    <3>. QED BY <2>1, <3>2, <3>4
         DEF EditorSound, AppliedFits, CurrentUnlessNewer, TellsTruth, Patched, Parted, Fully, Unsaid
  <2>. QED BY <2>2, <2>3 DEF EditInv
<1>. QED BY <1>1, <1>2, BeginStep, CallsStep, AsksStep, LateStep DEF EditNext

\* A call that is applied writes the details key by key: those of the patch,
\* or all of them, read before and guarded by the version.
LEMMA KeysWritten ==
  ASSUME EditInv, NEW e \in Editors, NEW details \in {{}, {"details"}, {"details_patch"}},
         ~Conflicts(e, Parted(e) \cup details), ~Refused(Parted(e) \cup details),
         Write(e, Parted(e) \cup details),
         details = {"details"} => editor[e].pc = "merge" /\ "expected_version" \in Parted(e),
         NEW k \in Keys, memory'.details[k] # memory.details[k]
  PROVE editor[e].edit.patch[k] # "keep"
<1> DEFINE took == (Parted(e) \cup details) \cap Known(generation)
<1>0. EditTypeOK /\ EditorSound(e) /\ generation \in Generations /\ editor[e].base \in Nat
      /\ Parted(e) \subseteq Parts /\ memory.version \in Nat
  BY DEF EditInv, EditTypeOK, Parted
<1>1. memory'.details = Edited(e, took) BY <1>0, WriteStep
<1>2. "details" \in took => details = {"details"} BY <1>0 DEF Parts
<1>3. "details" \in took => editor[e].current = memory.details
  <2>1. SUFFICES ASSUME "details" \in took PROVE editor[e].current = memory.details
    OBVIOUS
  <2>2. editor[e].pc = "merge" /\ "expected_version" \in Parted(e) BY <1>2, <2>1
  <2>3. generation >= Refuses BY <1>0, <2>2 DEF EditorSound, GenerationFits
  <2>4. "expected_version" \in took
    <3> HIDE DEF took
    <3>1. took = Parted(e) \cup details BY <2>3, TakesAll DEF took
    <3>. QED BY <2>2, <3>1
  <2>5. memory.version = editor[e].base BY <2>4 DEF Conflicts
  <2>. QED BY <1>0, <2>2, <2>5 DEF EditorSound, CurrentUnlessNewer
<1>. QED BY <1>1, <1>3 DEF Edited, _apply_details_patch

\* EditInv holds in every state the editors and the server can reach.
THEOREM EditInductive == EditSpec => []EditInv
<1>. QED BY EditInitHolds, EditNextHolds, PTL DEF EditSpec

\* How a command ends tells what became of the edit: success means that all
\* of it was applied, a refusal that nothing was, whatever the server's
\* generation and whenever it is upgraded (cli.py, update_memory).
THEOREM EndsTellTruth == EditSpec => []EditsTellTruth
<1>1. EditInv => EditsTellTruth
  BY DEF EditInv, EditorSound, TellsTruth, EditsTellTruth, OkMeansApplied, ErrorsSayWhatHappened
<1>. QED BY <1>1, EditInductive, PTL

\* A key that the patch does not name keeps its value, unless the command
\* merged the patch itself and nothing guarded its write.
THEOREM OtherKeysKept == EditSpec => OthersKeysKept
<1> DEFINE Kept ==
      \A k \in Keys : memory'.details[k] # memory.details[k] =>
        \E e \in Editors :
          \/ editor[e].edit.patch[k] # "keep" /\ editor'[e] # editor[e]
          \/ editor[e].pc = "mergeLate"
          \/ editor[e].pc = "merge" /\ "expected_version" \notin Parted(e)
<1>1. EditInv /\ [EditNext]_editVars => [Kept]_editVars
  <2>1. SUFFICES ASSUME EditInv, EditNext, NEW k \in Keys, memory'.details[k] # memory.details[k]
                 PROVE \E e \in Editors :
                         \/ editor[e].edit.patch[k] # "keep" /\ editor'[e] # editor[e]
                         \/ editor[e].pc = "mergeLate"
                         \/ editor[e].pc = "merge" /\ "expected_version" \notin Parted(e)
    OBVIOUS
  <2>2. EditTypeOK /\ editor \in [Editors -> EditorType] BY <2>1 DEF EditInv, EditTypeOK, EditorType
  <2>3. PICK e \in Editors : SingleCall(e) \/ PatchCall(e) \/ MergedCall(e) \/ LateCall(e)
    BY <2>1 DEF EditNext, Upgrade, Begin, Probe, Read
  <2>4. CASE LateCall(e) BY <2>4 DEF LateCall
  <2>5. CASE MergedCall(e) /\ "expected_version" \notin Parted(e) BY <2>5 DEF MergedCall
  <2>6. CASE SingleCall(e) \/ PatchCall(e) \/ (MergedCall(e) /\ "expected_version" \in Parted(e))
    <3>1. PICK details \in {{}, {"details"}, {"details_patch"}}, refused \in {"read", "refused"}, done \in {"ok", "probe"} :
            /\ Call(e, Parted(e) \cup details, refused, done)
            /\ details = {"details"} => editor[e].pc = "merge" /\ "expected_version" \in Parted(e)
      <4>1. Parted(e) \cup {} = Parted(e) OBVIOUS
      <4>2. CASE SingleCall(e) BY <4>1, <4>2 DEF SingleCall
      <4>3. CASE PatchCall(e) BY <4>3 DEF PatchCall
      <4>4. CASE MergedCall(e) /\ "expected_version" \in Parted(e) BY <4>4 DEF MergedCall
      <4>. QED BY <2>6, <4>2, <4>3, <4>4
    <3>2. /\ ~Refused(Parted(e) \cup details) /\ ~Conflicts(e, Parted(e) \cup details)
          /\ Write(e, Parted(e) \cup details) /\ (Goto(e, done) \/ Goto(e, "lost"))
      BY <2>1, <3>1 DEF Call
    <3>3. editor[e].edit.patch[k] # "keep" BY <2>1, <3>1, <3>2, KeysWritten
    <3>4. editor'[e].pc \in {"ok", "probe", "lost"} BY <2>2, <3>1, <3>2 DEF Goto, EditorType
    <3>5. editor[e].pc \in {"single", "patch", "merge"} BY <2>6 DEF SingleCall, PatchCall, MergedCall
    <3>. QED BY <3>3, <3>4, <3>5
  <2>. QED BY <2>3, <2>4, <2>5, <2>6
<1>. QED BY <1>1, EditInductive, PTL DEF EditSpec, OthersKeysKept
=============================================================================
