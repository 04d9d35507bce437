----------------------------- MODULE HarnessSetup -----------------------------
(***************************************************************************)
(* `kagura setup codex|hermes|openclaw`: the entry is written by the       *)
(* harness's own command, which may fail, run out of time, or (Hermes)     *)
(* end well without having saved what was asked; then the guardrails of a  *)
(* context go into a file the harness loads (AGENTS.md), between two       *)
(* marker lines.  The command is run again with other flags.               *)
(***************************************************************************)
EXTENDS Naturals

CONSTANTS Orders,      \* the flags a command is given
          MaxRuns      \* bound on the number of commands

Harnesses == {"codex", "hermes", "openclaw"}
Forms == {"stdio", "key", "oauth"}

ASSUME HarnessAssumption ==
  /\ Orders # {}
  /\ Orders \subseteq [form : Forms, profile : BOOLEAN, force : BOOLEAN, terminal : BOOLEAN, dry : BOOLEAN,
                       export : {"unset", "default", "named"}, context : BOOLEAN]
  /\ MaxRuns \in Nat

(* An entry of the harness's: the form, what Hermes makes of an oauth or   *)
(* key entry it cannot set up ("bare": the URL and nothing else), or       *)
(* something else; Hermes may save it disabled.                            *)
Entry == [form : Forms \cup {"bare", "otherUrl", "otherCommand"}, enabled : BOOLEAN]
NoEntry == [form |-> "none", enabled |-> FALSE]
Shapes == [stdio |-> "stdio", key |-> "URL", oauth |-> "URL", bare |-> "URL",
           otherUrl |-> "URL", otherCommand |-> "stdio", none |-> "none"]

VARIABLES
  host,     \* the harness, whether its program is there and can show an entry, whether the plugin's hooks are on
  held,     \* the entry it has under the name
  doc,      \* the exported file: absent, without a block, with one, or with half of one
  order,    \* the command: its flags, control state, choices and how it ended
  prior,    \* history: `held` and `doc` when the command began
  runs      \* commands so far

harnessVars == <<host, held, doc, order, prior, runs>>

HarnessTypeOK ==
  /\ held \in Entry \cup {NoEntry}
  /\ doc \in {"absent", "plain", "block", "half"}
  /\ order.flags \in Orders

Fresh(flags) == [flags |-> flags, pc |-> "idle", found |-> "none", export |-> FALSE,
                 printed |-> FALSE, unread |-> FALSE, said |-> {}]

HarnessInit ==
  /\ host \in [kind : Harnesses, cli : BOOLEAN, reads : BOOLEAN, hooks : BOOLEAN]
  /\ host.kind # "codex" => ~ host.hooks
  /\ host.kind # "hermes" => host.reads
  /\ held \in {NoEntry, [form |-> "otherUrl", enabled |-> TRUE], [form |-> "bare", enabled |-> TRUE]}
  /\ doc \in {"absent", "plain"}
  /\ order = Fresh(CHOOSE flags \in Orders : TRUE)
  /\ prior = [held |-> held, doc |-> doc]
  /\ runs = 0

Pc(pc) == order.pc = pc
Flags == order.flags
reads_instructions == host.kind = "codex"
Asking == Flags.terminal /\ ~ Flags.dry

Finish(said) == order' = [order EXCEPT !.pc = "over", !.said = order.said \cup said]
Go(pc) == order' = [order EXCEPT !.pc = pc]

start ==
  /\ order.pc \in {"idle", "over"} /\ runs < MaxRuns
  /\ runs' = runs + 1
  /\ prior' = [held |-> held, doc |-> doc]
  /\ \E flags \in Orders : order' = [Fresh(flags) EXCEPT !.pc = "check"]
  /\ UNCHANGED <<host, held, doc>>

---------------------------------------------------------------------------
(* Before anything is run.                                                 *)

(* What the flags alone rule out, a profile that is not there or on        *)
(* another server, no kagura-mcp, and a server --oauth cannot use.         *)
_check_flags ==
  /\ Pc("check")
  /\ \/ Finish({})
     \/ /\ Flags.form = "stdio" => Flags.profile
        /\ Flags.export # "unset" => Flags.terminal \/ Flags.context
        /\ Go("detect")
  /\ UNCHANGED <<host, held, doc, prior, runs>>

(* Codex's file is read, and one that cannot be read ends the command; the *)
(* others are asked, and no answer counts as no entry.                     *)
detect ==
  /\ Pc("detect")
  /\ \E seen \in {held.form, "none"} :
       /\ seen = "none" => held = NoEntry \/ host.kind # "codex"
       /\ seen # "none" => host.cli \/ host.kind = "codex"
       /\ IF seen # "none" /\ ~ Flags.force /\ ~ Flags.dry THEN Finish({"nothing"})
          ELSE order' = [order EXCEPT !.pc = "hooks", !.found = seen]
  /\ UNCHANGED <<host, held, doc, prior, runs>>

(* The plugin's hooks need a URL entry with a bearer: before an entry that *)
(* is none, a person may stop.                                             *)
_codex_hook_warning ==
  /\ Pc("hooks")
  /\ \/ Go("export")
     \/ host.hooks /\ Flags.form # "key" /\ Asking /\ (order.found = "none" \/ Flags.force) /\ Finish({"nothing"})
  /\ UNCHANGED <<host, held, doc, prior, runs>>

(* The profile is verified; then the export is chosen by its flag, or      *)
(* offered for a harness that does not read instructions, its context      *)
(* resolved and its credential found, which must be on the entry's server. *)
_export_auth ==
  /\ Pc("export")
  /\ \/ ~ Flags.dry /\ Finish({})    \* profile, context or connection
     \/ \E export \in BOOLEAN :
          /\ export = (Flags.export # "unset")
             \/ (Flags.export = "unset" /\ ~ reads_instructions /\ Asking /\ (Flags.profile \/ Flags.context))
          /\ IF export /\ ~ Flags.context /\ ~ Flags.profile /\ ~ Flags.dry
             THEN Finish({})         \* setup cannot list contexts
             ELSE \/ order' = [order EXCEPT !.pc = "run", !.export = export]
                  \/ export /\ Finish({"nothing"})
  /\ UNCHANGED <<host, held, doc, prior, runs>>

---------------------------------------------------------------------------
(* The entry.                                                              *)

interactive_add == host.kind = "hermes" \/ (host.kind = "codex" /\ Flags.form = "oauth")

(* The block is printed when the program is missing, or needs a terminal   *)
(* that is not there.                                                      *)
_print_reason == ~ host.cli \/ (interactive_add /\ ~ Flags.terminal)

Asked == [form |-> Flags.form, enabled |-> TRUE]

(* What the harness's program may have done when it ends well: Hermes also *)
(* when its prompts were declined or its checks failed.                    *)
MayHold ==
  {Asked} \cup IF host.kind # "hermes" THEN {}
  ELSE {held, [Asked EXCEPT !.enabled = FALSE]}
       \cup (IF Flags.form = "stdio" THEN {} ELSE [form : {"bare"}, enabled : BOOLEAN])

_run_or_fail ==
  /\ Pc("run")
  /\ \/ Flags.dry /\ Finish({}) /\ UNCHANGED held
     \/ /\ ~ Flags.dry /\ _print_reason
        /\ order' = [order EXCEPT !.pc = "write", !.printed = TRUE]
        /\ UNCHANGED held
     \/ /\ ~ Flags.dry /\ ~ _print_reason
        /\ \/ held' \in MayHold /\ Go("verify")
           \/ held' \in {held} \cup MayHold /\ Finish({})     \* it failed, or its time ran out
  /\ UNCHANGED <<host, doc, prior, runs>>

(* Mutant: the entry read back counts whatever its form.                   *)
IsAny(entry) == TRUE
(* The entry read back is the one asked for, signed in or not.             *)
is_(entry) ==
  IF Flags.form = "stdio" THEN entry.form = "stdio"
  ELSE entry.form \in {"bare", Flags.form}

Settled(said) == order' = [order EXCEPT !.pc = "write", !.said = {"done"} \cup said]

(* Hermes ends well whatever became of the entry: it is read back, or else *)
(* looked up in a list that knows only its shape.  The others are believed. *)
not_saved ==
  /\ Pc("verify")
  /\ \/ host.kind # "hermes" /\ Settled({})
     \/ /\ host.kind = "hermes" /\ host.reads
        /\ CASE held = NoEntry \/ ~ is_(held) -> Finish({"unsaved"})
             [] held # NoEntry /\ is_(held) /\ Flags.form = "oauth" /\ held.form # "oauth" -> Finish({})
             [] held # NoEntry /\ is_(held) /\ (Flags.form = "oauth" => held.form = "oauth") ->
                  IF ~ held.enabled THEN Finish({})
                  ELSE Settled(IF held.form = "bare" THEN {"noHeader"} ELSE {})
     \/ /\ host.kind = "hermes"      \* the entry cannot be read
        /\ \E seen \in {Shapes[held.form], "none"} :
             IF seen # Shapes[Flags.form]
             THEN order' = [order EXCEPT !.pc = "over", !.said = {"unsaved"}, !.unread = TRUE]
             ELSE order' = [order EXCEPT !.pc = IF Flags.form = "oauth" THEN "over" ELSE "write",
                              !.said = IF Flags.form = "oauth" THEN {} ELSE {"done"}, !.unread = TRUE]
  /\ UNCHANGED <<host, held, doc, prior, runs>>

---------------------------------------------------------------------------
(* The export.                                                             *)

(* The block between the markers is replaced, added or taken out; a file   *)
(* with half a block is refused.  An existing file is replaced by a        *)
(* finished copy; a new one is written where it is.                        *)
write_guardrail_block(block) ==
  \/ doc = "half" /\ UNCHANGED doc /\ Finish({"unchanged"})
  \/ /\ doc # "half"
     /\ doc' = IF block THEN "block" ELSE IF doc = "absent" THEN doc ELSE "plain"
     /\ Finish({IF block THEN "wrote" ELSE "none"})
  \/ UNCHANGED doc /\ Finish({"unchanged"})
  \/ doc = "absent" /\ block /\ doc' = "half" /\ Finish({"unchanged"})    \* the disk is full

_write_export ==
  /\ Pc("write")
  /\ \/ ~ order.export /\ Finish({}) /\ UNCHANGED doc
     \/ order.export /\ Finish({"unchanged"}) /\ UNCHANGED doc    \* the fetch failed, or 404
     \/ order.export /\ \E block \in BOOLEAN : write_guardrail_block(block)
  /\ UNCHANGED <<host, held, prior, runs>>

HarnessEnded == order.pc \in {"idle", "over"} /\ runs = MaxRuns /\ UNCHANGED harnessVars

HarnessNext ==
  \/ start \/ _check_flags \/ detect \/ _codex_hook_warning \/ _export_auth \/ _run_or_fail
  \/ not_saved \/ _write_export \/ HarnessEnded
HarnessSpec == HarnessInit /\ [][HarnessNext]_harnessVars

---------------------------------------------------------------------------
(* "Done: <harness> wrote <name>" only when the harness has the entry that *)
(* was asked for and connects to it; an entry without its key is named.    *)
(* Of a Hermes that cannot show an entry only its shape is known.          *)
DoneIsSaved ==
  "done" \in order.said =>
    IF order.unread THEN Shapes[held.form] = Shapes[Flags.form]
    ELSE held = Asked \/ ("noHeader" \in order.said /\ held = [form |-> "bare", enabled |-> TRUE])

(* "Nothing was written" and "nothing was saved": the entry is as it was   *)
(* (a Hermes that can show nothing is believed to hold nothing).           *)
NothingIsNothing ==
  /\ "nothing" \in order.said => held = prior.held /\ doc = prior.doc
  /\ "unsaved" \in order.said /\ ~ order.unread => held = prior.held /\ doc = prior.doc

(* A file that was there is never left with half a block, and keeps what   *)
(* it had when the export says so; nothing is exported for an entry that   *)
(* setup knows was not saved.                                              *)
ExportAsSaid ==
  /\ prior.doc # "absent" => (doc = "half" => prior.doc = "half")
  /\ "unchanged" \in order.said => doc = prior.doc \/ prior.doc = "absent"
  /\ doc # prior.doc => order.printed \/ "done" \in order.said
  /\ Flags.dry => held = prior.held /\ doc = prior.doc

(* What setup says of the harness's entry and of the exported file is true *)
(* (not_saved, _write_export, write_guardrail_block).                      *)
DoneMeansSaved == DoneIsSaved /\ NothingIsNothing /\ ExportAsSaid
===============================================================================
