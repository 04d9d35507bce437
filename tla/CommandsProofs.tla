--------------------------- MODULE CommandsProofs ---------------------------
(***************************************************************************)
(* Proofs about the commands of the program, for every row, every choice   *)
(* of flags and every mix of credential sources: a setup's last words are  *)
(* true of the files (HarnessInv, SetupInv), a credential goes home and is *)
(* the one that was asked for (AuthInv), and the way a call ends tells     *)
(* what happened on the server (CallInv).                                  *)
(***************************************************************************)
EXTENDS Calls, AuthResolution, ClaudeSetup, HarnessSetup, TLAPS

USE SetupAssumption DEF SetupAssumption
USE HarnessAssumption DEF HarnessAssumption
USE AuthAssumption DEF AuthAssumption

-----------------------------------------------------------------------------
\* The setup of codex, hermes and openclaw.

EntryForms == Forms \cup {"bare", "otherUrl", "otherCommand", "none"}
Unwritten == {"idle", "check", "detect", "hooks", "export", "run"}
Pcs == Unwritten \cup {"verify", "write", "over"}
Words == {"nothing", "unsaved", "done", "noHeader", "unchanged", "wrote", "none"}
OrderState ==
  [flags : Orders, pc : Pcs, found : EntryForms, export : BOOLEAN, printed : BOOLEAN, unread : BOOLEAN,
   said : SUBSET Words]

HarnessTypes ==
  /\ held \in Entry \cup {NoEntry} /\ prior.held \in Entry \cup {NoEntry}
  /\ doc \in {"absent", "plain", "block", "half"} /\ prior.doc \in {"absent", "plain", "block", "half"}
  /\ order \in OrderState

\* What the program of the harness may have made of the entry it had.
MayHoldOf(had) ==
  {Asked} \cup IF host.kind # "hermes" THEN {}
  ELSE {had, [Asked EXCEPT !.enabled = FALSE]}
       \cup (IF Flags.form = "stdio" THEN {} ELSE [form : {"bare"}, enabled : BOOLEAN])

\* Nothing is written before the harness's program runs, nothing is exported
\* before its entry is read back, and a dry run gets no further than that.
Progressing ==
  /\ order.pc \in Unwritten =>
       /\ order.said = {} /\ ~order.printed /\ ~order.unread
       /\ held = prior.held /\ doc = prior.doc
  /\ order.pc = "verify" =>
       /\ order.said = {} /\ ~order.printed /\ ~order.unread
       /\ held \in MayHoldOf(prior.held) /\ doc = prior.doc
       /\ ~Flags.dry
  /\ order.pc = "write" =>
       /\ order.said \subseteq {"done", "noHeader"} /\ ~Flags.dry
       /\ order.printed \/ "done" \in order.said
       /\ doc = prior.doc

HarnessInv == HarnessTypes /\ Progressing /\ DoneMeansSaved

\* Two entries of one form, both enabled or not, are one.
LEMMA SameEntry ==
  ASSUME NEW e \in Entry \cup {NoEntry}, NEW f, e.form = f, NEW b, e.enabled = b
  PROVE e = [form |-> f, enabled |-> b]
BY DEF Entry, NoEntry

\* What the types say of the parts of a harness setup.
LEMMA HarnessFacts ==
  ASSUME HarnessTypes
  PROVE /\ order.flags \in Orders /\ order.pc \in Pcs
        /\ order.found \in EntryForms
        /\ order.export \in BOOLEAN /\ order.printed \in BOOLEAN /\ order.unread \in BOOLEAN
        /\ order.said \in SUBSET Words
        /\ Flags.form \in Forms /\ Flags.dry \in BOOLEAN
        /\ held.form \in EntryForms /\ held.enabled \in BOOLEAN
        /\ Flags = order.flags
<1>1. /\ order.flags \in Orders /\ order.pc \in Pcs
      /\ order.found \in EntryForms
      /\ order.export \in BOOLEAN /\ order.printed \in BOOLEAN /\ order.unread \in BOOLEAN
      /\ order.said \in SUBSET Words
  BY DEF HarnessTypes, OrderState
<1>2. Flags.form \in Forms /\ Flags.dry \in BOOLEAN BY <1>1 DEF Flags
<1>3. held.form \in EntryForms /\ held.enabled \in BOOLEAN
  <2>1. CASE held = NoEntry BY <2>1 DEF NoEntry, EntryForms
  <2>2. CASE held \in Entry BY <2>2 DEF Entry, EntryForms
  <2>. QED BY <2>1, <2>2 DEF HarnessTypes
<1>. QED BY <1>1, <1>2, <1>3 DEF Flags

\* The command goes on, or ends: what becomes of its fields.
OrderBecomes(step, said, printed, unread) ==
  /\ order' \in OrderState /\ order'.flags = order.flags
  /\ order'.pc = step /\ order'.said = said /\ order'.printed = printed /\ order'.unread = unread

\* The forms in which a harness setup moves on, with the fields they leave.
LEMMA OrderSteps ==
  ASSUME order \in OrderState
  PROVE /\ \A step \in Pcs : Go(step) => OrderBecomes(step, order.said, order.printed, order.unread)
        /\ \A said, all \in SUBSET Words :
             Finish(said) /\ all = order.said \cup said => OrderBecomes("over", all, order.printed, order.unread)
        /\ \A said, all \in SUBSET Words :
             Settled(said) /\ all = {"done"} \cup said => OrderBecomes("write", all, order.printed, order.unread)
        /\ \A step \in Pcs, said \in SUBSET Words :
             order' = [order EXCEPT !.pc = step, !.said = said, !.unread = TRUE] =>
               OrderBecomes(step, said, order.printed, TRUE)
        /\ \A found \in EntryForms :
             order' = [order EXCEPT !.pc = "hooks", !.found = found] =>
               OrderBecomes("hooks", order.said, order.printed, order.unread)
        /\ \A export \in BOOLEAN :
             order' = [order EXCEPT !.pc = "run", !.export = export] =>
               OrderBecomes("run", order.said, order.printed, order.unread)
<1>0. order.said \in SUBSET Words BY DEF OrderState
<1>1. ASSUME NEW step \in Pcs, Go(step) PROVE OrderBecomes(step, order.said, order.printed, order.unread)
  BY <1>1 DEF Go, OrderBecomes, OrderState
<1>2. ASSUME NEW said \in SUBSET Words, NEW step \in Pcs, order' = [order EXCEPT !.pc = step, !.said = said]
      PROVE OrderBecomes(step, said, order.printed, order.unread)
  BY <1>2 DEF OrderBecomes, OrderState
<1>3. ASSUME NEW said \in SUBSET Words, NEW all \in SUBSET Words, Finish(said), all = order.said \cup said
      PROVE OrderBecomes("over", all, order.printed, order.unread)
  <2>1. order' = [order EXCEPT !.pc = "over", !.said = all] BY <1>3 DEF Finish
  <2>. QED BY <1>2, <2>1 DEF Pcs
<1>4. ASSUME NEW said \in SUBSET Words, NEW all \in SUBSET Words, Settled(said), all = {"done"} \cup said
      PROVE OrderBecomes("write", all, order.printed, order.unread)
  <2>1. order' = [order EXCEPT !.pc = "write", !.said = all] BY <1>4 DEF Settled
  <2>. QED BY <1>2, <2>1 DEF Pcs
<1>5. ASSUME NEW step \in Pcs, NEW said \in SUBSET Words,
             order' = [order EXCEPT !.pc = step, !.said = said, !.unread = TRUE]
      PROVE OrderBecomes(step, said, order.printed, TRUE)
  BY <1>5 DEF OrderBecomes, OrderState
<1>6. ASSUME NEW found \in EntryForms, order' = [order EXCEPT !.pc = "hooks", !.found = found]
      PROVE OrderBecomes("hooks", order.said, order.printed, order.unread)
  BY <1>6 DEF OrderBecomes, OrderState, Pcs, Unwritten
<1>7. ASSUME NEW export \in BOOLEAN, order' = [order EXCEPT !.pc = "run", !.export = export]
      PROVE OrderBecomes("run", order.said, order.printed, order.unread)
  BY <1>7 DEF OrderBecomes, OrderState, Pcs, Unwritten
<1>. QED BY <1>1, <1>3, <1>4, <1>5, <1>6, <1>7

\* The parts of DoneMeansSaved of a command that says nothing yet.
LEMMA Silent ==
  ASSUME HarnessTypes, doc = prior.doc, "done" \notin order.said, "noHeader" \notin order.said,
         "nothing" \in order.said => held = prior.held,
         "unsaved" \in order.said => order.unread \/ held = prior.held,
         Flags.dry => held = prior.held
  PROVE DoneMeansSaved
BY DEF DoneMeansSaved, DoneIsSaved, NothingIsNothing, ExportAsSaid

\* A step before the program runs: only the order changes.
LEMMA UnwrittenStep ==
  ASSUME HarnessInv, order.pc \in Unwritten, UNCHANGED <<host, held, doc, prior, runs>>,
         NEW step \in Unwritten \cup {"over"}, NEW said, OrderBecomes(step, said, order.printed, order.unread),
         said \in {{}, {"nothing"}}, step # "over" => said = {}
  PROVE HarnessInv'
<1>1. /\ HarnessTypes /\ held = prior.held /\ doc = prior.doc
      /\ ~order.printed /\ ~order.unread /\ order.printed \in BOOLEAN /\ order.unread \in BOOLEAN
  BY HarnessFacts DEF HarnessInv, Progressing
<1>2. /\ order' \in OrderState
      /\ order'.pc = step /\ order'.said = said /\ ~order'.printed /\ ~order'.unread
  BY <1>1 DEF OrderBecomes
<1>3. HarnessTypes' BY <1>1, <1>2 DEF HarnessTypes
<1>4. Progressing' BY <1>1, <1>2 DEF Progressing, Unwritten
<1>5. DoneMeansSaved'
  BY <1>1, <1>2 DEF DoneMeansSaved, DoneIsSaved, NothingIsNothing, ExportAsSaid
<1>. QED BY <1>3, <1>4, <1>5 DEF HarnessInv

\* The ways on, and out, before the program runs.
LEMMA UnwrittenSteps ==
  ASSUME HarnessInv, order.pc \in Unwritten, UNCHANGED <<host, held, doc, prior, runs>>,
         \/ \E step \in Unwritten : Go(step)
         \/ Finish({}) \/ Finish({"nothing"})
         \/ \E found \in EntryForms : order' = [order EXCEPT !.pc = "hooks", !.found = found]
         \/ \E export \in BOOLEAN : order' = [order EXCEPT !.pc = "run", !.export = export]
  PROVE HarnessInv'
<1>1. order \in OrderState /\ order.said = {} BY DEF HarnessInv, HarnessTypes, Progressing
<1>2. \A said : order.said \cup said = said BY <1>1
<1>3. {} \in SUBSET Words /\ {"nothing"} \in SUBSET Words BY DEF Words
<1>4. CASE \E step \in Unwritten : Go(step)
  <2>1. PICK step \in Unwritten : Go(step) BY <1>4
  <2>2. OrderBecomes(step, {}, order.printed, order.unread) BY <1>1, <2>1, OrderSteps DEF Pcs
  <2>. QED BY <2>2, UnwrittenStep
<1>5. ASSUME NEW said \in {{}, {"nothing"}}, Finish(said) PROVE HarnessInv'
  <2>1. OrderBecomes("over", said, order.printed, order.unread) BY <1>1, <1>2, <1>3, <1>5, OrderSteps
  <2>. QED BY <1>5, <2>1, UnwrittenStep
<1>6. CASE \E found \in EntryForms : order' = [order EXCEPT !.pc = "hooks", !.found = found]
  <2>1. OrderBecomes("hooks", {}, order.printed, order.unread) BY <1>1, <1>6, OrderSteps
  <2>2. "hooks" \in Unwritten BY DEF Unwritten
  <2>. QED BY <2>1, <2>2, UnwrittenStep
<1>7. CASE \E export \in BOOLEAN : order' = [order EXCEPT !.pc = "run", !.export = export]
  <2>1. OrderBecomes("run", {}, order.printed, order.unread) BY <1>1, <1>7, OrderSteps
  <2>2. "run" \in Unwritten BY DEF Unwritten
  <2>. QED BY <2>1, <2>2, UnwrittenStep
<1>. QED BY <1>4, <1>5, <1>6, <1>7

\* The program of the harness ran, or was not needed: the held entry may change.
LEMMA RunStep ==
  ASSUME HarnessInv, _run_or_fail PROVE HarnessInv'
<1>1. order.pc = "run" /\ HarnessTypes /\ order \in OrderState BY DEF _run_or_fail, Pc, HarnessInv, HarnessTypes
<1>2. /\ order.said = {} /\ ~order.printed /\ ~order.unread
      /\ held = prior.held /\ doc = prior.doc
  BY <1>1 DEF HarnessInv, Progressing, Unwritten
<1>3. order.flags \in Orders /\ Flags.form \in Forms BY <1>1, HarnessFacts
<1>4. CASE Flags.dry /\ Finish({}) /\ UNCHANGED held
  BY <1>1, <1>4, UnwrittenSteps DEF _run_or_fail, Unwritten
<1>5. CASE /\ ~Flags.dry /\ _print_reason
           /\ order' = [order EXCEPT !.pc = "write", !.printed = TRUE]
           /\ UNCHANGED held
  <2>1. /\ order' \in OrderState /\ order'.pc = "write" /\ order'.said = {} /\ order'.printed
        /\ order'.flags = order.flags
    BY <1>1, <1>2, <1>5 DEF OrderState, Pcs
  <2>2. HarnessTypes' BY <1>1, <1>5, <2>1 DEF HarnessTypes, _run_or_fail
  <2>3. Progressing' BY <1>2, <1>5, <2>1 DEF Progressing, Unwritten, _run_or_fail, Flags
  <2>4. DoneMeansSaved'
    BY <1>2, <1>5, <2>1 DEF DoneMeansSaved, DoneIsSaved, NothingIsNothing, ExportAsSaid, _run_or_fail
  <2>. QED BY <2>2, <2>3, <2>4 DEF HarnessInv
<1>6. CASE /\ ~Flags.dry /\ held' \in {held} \cup MayHold
           /\ \/ held' \in MayHold /\ Go("verify")
              \/ Finish({})
  <2>1. /\ order' \in OrderState /\ order'.pc \in {"verify", "over"} /\ order'.said = {}
        /\ ~order'.printed /\ ~order'.unread /\ order'.flags = order.flags
        /\ order'.pc = "verify" => held' \in MayHold
    <3>1. CASE held' \in MayHold /\ Go("verify")
      <4>1. OrderBecomes("verify", order.said, order.printed, order.unread)
        BY <1>1, <3>1, OrderSteps DEF Pcs
      <4>. QED BY <1>2, <3>1, <4>1 DEF OrderBecomes
    <3>2. CASE Finish({})
      <4>1. OrderBecomes("over", {}, order.printed, order.unread)
        BY <1>1, <1>2, <3>2, OrderSteps DEF Words
      <4>. QED BY <1>2, <4>1 DEF OrderBecomes
    <3>. QED BY <1>6, <3>1, <3>2
  <2>2. MayHold = MayHoldOf(prior.held) /\ MayHoldOf(prior.held)' = MayHoldOf(prior.held)
    BY <1>2, <2>1 DEF MayHold, MayHoldOf, Asked, Flags, _run_or_fail
  <2>3. MayHold \subseteq Entry \cup {NoEntry}
    <3>1. Asked \in Entry /\ [Asked EXCEPT !.enabled = FALSE] \in Entry BY <1>3 DEF Asked, Entry
    <3>2. [form : {"bare"}, enabled : BOOLEAN] \subseteq Entry BY DEF Entry
    <3>. QED BY <3>1, <3>2, <1>1 DEF MayHold, HarnessTypes
  <2>4. HarnessTypes' BY <1>1, <1>6, <2>1, <2>3 DEF HarnessTypes, _run_or_fail
  <2>5. Progressing' BY <1>1, <1>2, <1>6, <2>1, <2>2 DEF Progressing, Unwritten, _run_or_fail, Flags
  <2>6. DoneMeansSaved'
    BY <1>2, <1>6, <2>1 DEF DoneMeansSaved, DoneIsSaved, NothingIsNothing, ExportAsSaid, _run_or_fail, Flags
  <2>. QED BY <2>4, <2>5, <2>6 DEF HarnessInv
<1>. QED BY <1>4, <1>5, <1>6 DEF _run_or_fail

\* Every entry the harness's program leaves when it ends well is the one asked
\* for, or the one it had; so one that is neither was not touched.
LEMMA LeftAlone ==
  ASSUME HarnessTypes, held \in MayHoldOf(prior.held), held = NoEntry \/ ~is_(held)
  PROVE held = prior.held
<1>1. Flags.form \in Forms BY HarnessFacts
<1>2. CASE held \in {Asked, [Asked EXCEPT !.enabled = FALSE]}
  <2>1. held.form = Flags.form BY <1>2 DEF Asked
  <2>. QED BY <1>1, <2>1 DEF is_, NoEntry, Forms
<1>3. CASE Flags.form # "stdio" /\ held \in [form : {"bare"}, enabled : BOOLEAN]
  BY <1>3 DEF is_, NoEntry
<1>. QED BY <1>2, <1>3 DEF MayHoldOf

\* What the entry read back is.
LEMMA ReadBack ==
  ASSUME HarnessTypes, held # NoEntry, is_(held), Flags.form = "oauth" => held.form = "oauth", held.enabled
  PROVE held = Asked \/ (held.form = "bare" /\ held = [form |-> "bare", enabled |-> TRUE])
<1>1. held.form \in {Flags.form, "bare"} /\ held.enabled = TRUE
  <2>1. held.form \in {Flags.form, "bare"} BY DEF is_
  <2>2. held.enabled = TRUE BY HarnessFacts
  <2>. QED BY <2>1, <2>2
<1>2. \A f : held.form = f => held = [form |-> f, enabled |-> TRUE] BY <1>1, SameEntry DEF HarnessTypes
<1>. QED BY <1>1, <1>2 DEF Asked

\* The command closes, or goes on to the export: what it says is checked once.
LEMMA ClosingStep ==
  ASSUME HarnessInv, order.pc = "verify", UNCHANGED <<host, held, doc, prior, runs>>,
         NEW step \in {"write", "over"}, NEW unread \in BOOLEAN,
         NEW said \in {{}, {"done"}, {"done", "noHeader"}, {"unsaved"}},
         OrderBecomes(step, said, order.printed, unread),
         step = "write" => "done" \in said,
         "unsaved" \in said => unread \/ held = prior.held,
         "done" \in said =>
           IF unread THEN Shapes[held.form] = Shapes[Flags.form]
           ELSE held = Asked \/ ("noHeader" \in said /\ held = [form |-> "bare", enabled |-> TRUE])
  PROVE HarnessInv'
<1>1. /\ HarnessTypes /\ order.said = {} /\ ~order.printed /\ ~order.unread
      /\ doc = prior.doc /\ ~Flags.dry
  BY DEF HarnessInv, Progressing, Unwritten
<1>2. /\ order' \in OrderState /\ order'.flags = order.flags /\ ~order'.printed
      /\ order'.pc = step /\ order'.said = said /\ order'.unread = unread
  BY <1>1 DEF OrderBecomes
<1>3. held' = held /\ Asked' = Asked /\ Flags' = Flags /\ prior' = prior /\ doc' = doc
  BY <1>2 DEF Asked, Flags
<1>4. HarnessTypes' BY <1>1, <1>2, <1>3 DEF HarnessTypes
<1>5. Progressing' BY <1>1, <1>2, <1>3 DEF Progressing, Unwritten
<1>6. DoneMeansSaved'
  <2>1. DoneIsSaved' BY <1>2, <1>3 DEF DoneIsSaved
  <2>2. NothingIsNothing' BY <1>1, <1>2, <1>3 DEF NothingIsNothing
  <2>3. ExportAsSaid' BY <1>1, <1>2, <1>3 DEF ExportAsSaid
  <2>. QED BY <2>1, <2>2, <2>3 DEF DoneMeansSaved
<1>. QED BY <1>4, <1>5, <1>6 DEF HarnessInv

\* The entry is settled or the command ends.
LEMMA SavedStep ==
  ASSUME HarnessInv, not_saved PROVE HarnessInv'
<1>1. /\ order.pc = "verify" /\ HarnessTypes /\ order \in OrderState
      /\ UNCHANGED <<host, held, doc, prior, runs>>
  BY DEF not_saved, Pc, HarnessInv, HarnessTypes
<1>2. /\ order.said = {} /\ ~order.unread /\ order.unread \in BOOLEAN /\ held \in MayHoldOf(prior.held)
  BY <1>1, HarnessFacts DEF HarnessInv, Progressing, Unwritten
<1>3. /\ {} \in SUBSET Words /\ {"noHeader"} \in SUBSET Words /\ {"unsaved"} \in SUBSET Words
      /\ {"done"} \in SUBSET Words /\ {"done", "noHeader"} \in SUBSET Words /\ "over" \in Pcs /\ "write" \in Pcs
      /\ {"done"} \cup {} = {"done"} /\ {"done"} \cup {"noHeader"} = {"done", "noHeader"}
      /\ \A said : order.said \cup said = said
  BY <1>2 DEF Words, Pcs
<1>4. ASSUME Finish({}) PROVE HarnessInv'
  <2>1. OrderBecomes("over", {}, order.printed, order.unread) BY <1>1, <1>2, <1>3, <1>4, OrderSteps
  <2>. QED BY <1>1, <1>2, <2>1, ClosingStep
<1>5. CASE host.kind # "hermes" /\ Settled({})
  <2>1. held = Asked BY <1>2, <1>5 DEF MayHoldOf
  <2>2. OrderBecomes("write", {"done"}, order.printed, order.unread) BY <1>1, <1>2, <1>3, <1>5, OrderSteps
  <2>. QED BY <1>1, <1>2, <2>1, <2>2, ClosingStep
<1>6. CASE (held = NoEntry \/ ~is_(held)) /\ Finish({"unsaved"})
  <2>1. held = prior.held BY <1>1, <1>2, <1>6, LeftAlone
  <2>2. OrderBecomes("over", {"unsaved"}, order.printed, order.unread) BY <1>1, <1>2, <1>3, <1>6, OrderSteps
  <2>. QED BY <1>1, <1>2, <2>1, <2>2, ClosingStep
<1>7. CASE /\ held # NoEntry /\ is_(held) /\ (Flags.form = "oauth" => held.form = "oauth") /\ held.enabled
           /\ Settled(IF held.form = "bare" THEN {"noHeader"} ELSE {})
  <2>1. held = Asked \/ (held.form = "bare" /\ held = [form |-> "bare", enabled |-> TRUE])
    BY <1>1, <1>7, ReadBack
  <2>2. CASE held.form = "bare"
    <3>1. OrderBecomes("write", {"done", "noHeader"}, order.printed, order.unread)
      BY <1>1, <1>2, <1>3, <1>7, <2>2, OrderSteps
    <3>. QED BY <1>1, <1>2, <2>1, <3>1, ClosingStep
  <2>3. CASE held.form # "bare"
    <3>1. OrderBecomes("write", {"done"}, order.printed, order.unread)
      BY <1>1, <1>2, <1>3, <1>7, <2>3, OrderSteps
    <3>. QED BY <1>1, <1>2, <2>1, <2>3, <3>1, ClosingStep
  <2>. QED BY <2>2, <2>3
<1>8. CASE order' = [order EXCEPT !.pc = "over", !.said = {"unsaved"}, !.unread = TRUE]
  <2>1. OrderBecomes("over", {"unsaved"}, order.printed, TRUE) BY <1>1, <1>3, <1>8, OrderSteps
  <2>. QED BY <1>1, <2>1, ClosingStep
<1>9. CASE order' = [order EXCEPT !.pc = "over", !.said = {}, !.unread = TRUE]
  <2>1. OrderBecomes("over", {}, order.printed, TRUE) BY <1>1, <1>3, <1>9, OrderSteps
  <2>. QED BY <1>1, <2>1, ClosingStep
<1>10. CASE /\ \E seen \in {Shapes[held.form], "none"} : seen = Shapes[Flags.form]
            /\ order' = [order EXCEPT !.pc = "write", !.said = {"done"}, !.unread = TRUE]
  <2>1. Shapes[Flags.form] # "none"
    <3>1. Flags.form \in {"stdio", "key", "oauth"} BY <1>1, HarnessFacts DEF Forms
    <3>. QED BY <3>1 DEF Shapes
  <2>2. Shapes[held.form] = Shapes[Flags.form] BY <1>10, <2>1
  <2>3. OrderBecomes("write", {"done"}, order.printed, TRUE) BY <1>1, <1>3, <1>10, OrderSteps
  <2>. QED BY <1>1, <2>2, <2>3, ClosingStep
<1>11. ASSUME NEW seen \in {Shapes[held.form], "none"},
              IF seen # Shapes[Flags.form]
              THEN order' = [order EXCEPT !.pc = "over", !.said = {"unsaved"}, !.unread = TRUE]
              ELSE order' = [order EXCEPT !.pc = IF Flags.form = "oauth" THEN "over" ELSE "write",
                               !.said = IF Flags.form = "oauth" THEN {} ELSE {"done"}, !.unread = TRUE]
       PROVE HarnessInv'
  <2>1. CASE seen # Shapes[Flags.form] BY <1>8, <1>11, <2>1
  <2>2. CASE seen = Shapes[Flags.form] /\ Flags.form = "oauth" BY <1>9, <1>11, <2>2
  <2>3. CASE seen = Shapes[Flags.form] /\ Flags.form # "oauth" BY <1>10, <1>11, <2>3
  <2>. QED BY <2>1, <2>2, <2>3
<1>. QED BY <1>4, <1>5, <1>6, <1>7, <1>11 DEF not_saved

\* The export: the document changes only after the entry is known or printed.
LEMMA ExportStep ==
  ASSUME HarnessInv, _write_export PROVE HarnessInv'
<1>1. /\ order.pc = "write" /\ HarnessTypes /\ order \in OrderState /\ DoneIsSaved
      /\ UNCHANGED <<host, held, prior, runs>>
  BY DEF _write_export, Pc, HarnessInv, HarnessTypes, DoneMeansSaved
<1>2. /\ order.said \subseteq {"done", "noHeader"} /\ ~Flags.dry
      /\ order.printed \/ "done" \in order.said
      /\ doc = prior.doc
  BY <1>1 DEF HarnessInv, Progressing, Unwritten
<1>3. \E more \in SUBSET {"unchanged", "wrote", "none"} :
        /\ Finish(more)
        /\ \/ doc' = doc
           \/ "unchanged" \notin more /\ doc # "half" /\ doc' \in {"block", "absent", "plain"}
           \/ doc = "absent" /\ doc' = "half"
  <2>1. CASE ~order.export /\ Finish({}) /\ UNCHANGED doc BY <2>1
  <2>2. CASE order.export /\ Finish({"unchanged"}) /\ UNCHANGED doc BY <2>2
  <2>3. CASE \E block \in BOOLEAN : write_guardrail_block(block)
    <3>1. PICK block \in BOOLEAN : write_guardrail_block(block) BY <2>3
    <3>2. CASE doc = "half" /\ UNCHANGED doc /\ Finish({"unchanged"}) BY <3>2
    <3>3. CASE UNCHANGED doc /\ Finish({"unchanged"}) BY <3>3
    <3>4. CASE doc = "absent" /\ block /\ doc' = "half" /\ Finish({"unchanged"}) BY <3>4
    <3>5. CASE /\ doc # "half"
               /\ doc' = IF block THEN "block" ELSE IF doc = "absent" THEN doc ELSE "plain"
               /\ Finish({IF block THEN "wrote" ELSE "none"})
      <4>1. /\ {IF block THEN "wrote" ELSE "none"} \in SUBSET {"unchanged", "wrote", "none"}
            /\ "unchanged" \notin {IF block THEN "wrote" ELSE "none"}
            /\ doc' \in {"block", "absent", "plain"}
        BY <3>5
      <4>. QED BY <3>5, <4>1
    <3>. QED BY <3>1, <3>2, <3>3, <3>4, <3>5 DEF write_guardrail_block
  <2>. QED BY <2>1, <2>2, <2>3 DEF _write_export
<1>4. PICK more \in SUBSET {"unchanged", "wrote", "none"} :
        /\ Finish(more)
        /\ \/ doc' = doc
           \/ "unchanged" \notin more /\ doc # "half" /\ doc' \in {"block", "absent", "plain"}
           \/ doc = "absent" /\ doc' = "half"
  BY <1>3
<1>5. /\ order' \in OrderState /\ order'.pc = "over" /\ order'.said = order.said \cup more
      /\ order'.printed = order.printed /\ order'.unread = order.unread /\ order'.flags = order.flags
  <2>1. more \in SUBSET Words /\ order.said \cup more \in SUBSET Words BY <1>2 DEF Words
  <2>. HIDE DEF Words
  <2>2. OrderBecomes("over", order.said \cup more, order.printed, order.unread)
    BY <1>1, <1>4, <2>1, OrderSteps
  <2>. QED BY <2>2 DEF OrderBecomes
<1>6. HarnessTypes' BY <1>1, <1>4, <1>5 DEF HarnessTypes
<1>7. Progressing' BY <1>5 DEF Progressing, Unwritten
<1>8. DoneMeansSaved'
  <2>1. DoneIsSaved'
    <3>1. held' = held /\ Asked' = Asked /\ Flags' = Flags BY <1>1, <1>5 DEF Asked, Flags
    <3>2. ("done" \in order'.said <=> "done" \in order.said)
          /\ ("noHeader" \in order'.said <=> "noHeader" \in order.said)
      BY <1>4, <1>5
    <3>. QED BY <1>1, <1>5, <3>1, <3>2 DEF DoneIsSaved
  <2>2. NothingIsNothing' BY <1>2, <1>4, <1>5 DEF NothingIsNothing
  <2>3. ExportAsSaid' BY <1>1, <1>2, <1>4, <1>5 DEF ExportAsSaid, Flags, HarnessTypes
  <2>. QED BY <2>1, <2>2, <2>3 DEF DoneMeansSaved
<1>. QED BY <1>6, <1>7, <1>8 DEF HarnessInv

\* The inductive invariant of the three setups.
THEOREM HarnessInductive == HarnessSpec => []HarnessInv
<1>1. HarnessInit => HarnessInv
  <2> SUFFICES ASSUME HarnessInit PROVE HarnessInv OBVIOUS
  <2>1. \E flags \in Orders : order = Fresh(flags) BY DEF HarnessInit
  <2>2. /\ order \in OrderState /\ order.pc = "idle" /\ order.said = {}
        /\ ~order.printed /\ ~order.unread
    BY <2>1 DEF Fresh, OrderState, Pcs, Unwritten, EntryForms
  <2>3. /\ held \in Entry \cup {NoEntry} /\ doc \in {"absent", "plain", "block", "half"}
        /\ prior.held = held /\ prior.doc = doc
    <3>1. [form |-> "otherUrl", enabled |-> TRUE] \in Entry /\ [form |-> "bare", enabled |-> TRUE] \in Entry
      BY DEF Entry
    <3>2. prior.held = held /\ prior.doc = doc BY DEF HarnessInit
    <3>3. held \in Entry \cup {NoEntry} BY <3>1 DEF HarnessInit
    <3>. QED BY <3>2, <3>3 DEF HarnessInit
  <2>. HIDE DEF HarnessInit
  <2>4. HarnessTypes BY <2>2, <2>3 DEF HarnessTypes
  <2>5. Progressing BY <2>2, <2>3 DEF Progressing, Unwritten
  <2>6. DoneMeansSaved BY <2>2, <2>3 DEF DoneMeansSaved, DoneIsSaved, NothingIsNothing, ExportAsSaid
  <2>. QED BY <2>4, <2>5, <2>6 DEF HarnessInv
<1>2. HarnessInv /\ [HarnessNext]_harnessVars => HarnessInv'
  <2> SUFFICES ASSUME HarnessInv, [HarnessNext]_harnessVars PROVE HarnessInv' OBVIOUS
  <2>0. HarnessTypes /\ order \in OrderState /\ order.found \in EntryForms /\ order.export \in BOOLEAN
        /\ held.form \in EntryForms
    BY HarnessFacts DEF HarnessInv, HarnessTypes
  <2>1. CASE start
    <3>1. PICK flags \in Orders : order' = [Fresh(flags) EXCEPT !.pc = "check"] BY <2>1 DEF start
    <3>2. /\ order' \in OrderState /\ order'.pc = "check" /\ order'.said = {}
          /\ ~order'.printed /\ ~order'.unread
      BY <3>1 DEF Fresh, OrderState, Pcs, Unwritten, EntryForms
    <3>3. held' = held /\ doc' = doc /\ prior'.held = held /\ prior'.doc = doc BY <2>1 DEF start
    <3>4. HarnessTypes' BY <2>0, <3>2, <3>3 DEF HarnessTypes
    <3>5. Progressing' BY <3>2, <3>3 DEF Progressing, Unwritten
    <3>6. DoneMeansSaved' BY <3>2, <3>3 DEF DoneMeansSaved, DoneIsSaved, NothingIsNothing, ExportAsSaid
    <3>. QED BY <3>4, <3>5, <3>6 DEF HarnessInv
  <2>2. CASE _check_flags BY <2>2, UnwrittenSteps DEF _check_flags, Pc, Unwritten
  <2>3. CASE detect
    <3>1. held.form \in EntryForms /\ "none" \in EntryForms BY <2>0 DEF EntryForms
    <3>. QED BY <2>3, <3>1, UnwrittenSteps DEF detect, Pc, Unwritten
  <2>4. CASE _codex_hook_warning BY <2>4, UnwrittenSteps DEF _codex_hook_warning, Pc, Unwritten
  <2>5. CASE _export_auth BY <2>5, UnwrittenSteps DEF _export_auth, Pc, Unwritten
  <2>6. CASE _run_or_fail BY <2>6, RunStep
  <2>7. CASE not_saved BY <2>7, SavedStep
  <2>8. CASE _write_export BY <2>8, ExportStep
  <2>9. CASE UNCHANGED harnessVars
    BY <2>9 DEF harnessVars, HarnessInv, HarnessTypes, Progressing, DoneMeansSaved, DoneIsSaved,
                NothingIsNothing, ExportAsSaid, MayHoldOf, Asked, Flags
  <2>. QED BY <2>1, <2>2, <2>3, <2>4, <2>5, <2>6, <2>7, <2>8, <2>9 DEF HarnessNext, HarnessEnded
<1>. QED BY <1>1, <1>2, PTL DEF HarnessSpec

\* "Done: <harness> wrote <name>" means that the harness holds the entry that
\* was asked for, and every other closing line is as true (not_saved,
\* _write_export, write_guardrail_block).
THEOREM DoneIsTrue == HarnessSpec => []DoneMeansSaved
<1>1. HarnessInv => DoneMeansSaved BY DEF HarnessInv
<1>. QED BY <1>1, HarnessInductive, PTL

-----------------------------------------------------------------------------
\* The setup of Claude Code.

SomeEntry == {"none", "other", "keyed", "reference", "stdio"}
Planning == {"plan", "verify", "context", "extras", "config", "entry"}
Written == {"hooks", "removeHooks", "skills", "complete"}
SettingPcs == Planning \cup Written \cup {"idle", "add", "restore", "failed"}
SettingState ==
  [ask : Asks, pc : SettingPcs,
   hideOk : BOOLEAN, replaces : SomeEntry, unchanged : BOOLEAN, context : Contexts \cup {Absent},
   on : SUBSET (Hooks \cup Skills), kept : SUBSET (Hooks \cup Skills),
   said : {"", "nothing", "gone"}, cut : BOOLEAN]

SetupTypes ==
  /\ entries \in [Places -> SomeEntry] /\ before.entries \in [Places -> SomeEntry]
  /\ installed \in [Parts -> Contexts \cup {Absent, "users"}]
  /\ setting \in SettingState

\* Only the asked place is written, and not before the config is; what is to
\* be put back is what was there.
EntrySound ==
  /\ \A spot \in Places \ {Given.scope} : entries[spot] = before.entries[spot]
  /\ setting.pc \in Planning => entries[Given.scope] = before.entries[Given.scope]
  /\ setting.pc \in Planning \ {"entry"} => installed = before.installed
  /\ setting.pc = "plan" => ~setting.unchanged
  /\ setting.pc \in Planning \ {"plan"} /\ Given.scope = "user" =>
       IF setting.unchanged THEN entries["user"] = Wanted(Given) ELSE setting.replaces = entries["user"]
  /\ setting.pc \in {"add", "restore"} => Given.scope = "user" /\ setting.replaces = before.entries["user"]
  /\ setting.pc = "add" => entries["user"] = Absent
  /\ setting.pc = "restore" => setting.replaces # Absent /\ entries["user"] \in {Wanted(Given), Absent}
  /\ setting.pc \in Written => entries[Given.scope] = Wanted(Given)

\* No stronger place has an entry, unless a person said that is fine.
NotHidden ==
  setting.pc \notin {"idle", "plan", "failed"} => setting.hideOk \/ Hiding(Given.scope) = {}

\* The parts are written, or taken out, one group after the other.
PartsSound ==
  /\ setting.on \cap Skills \in {{}, Skills}
  /\ setting.pc \in (Planning \ {"plan", "verify", "context"}) \cup Written \cup {"add", "restore"} =>
       setting.context \in Contexts
  /\ setting.pc \in Written \cup {"add", "restore", "entry"} => installed["config"] = setting.context
  /\ setting.pc \in Written \ {"hooks"} => \A p \in setting.on \cap Hooks : installed[p] = setting.context
  /\ setting.pc \notin {"skills", "complete", "failed"} => setting.kept = {}
  /\ setting.pc = "skills" => setting.kept \subseteq Hooks \ setting.on
  /\ setting.pc \in {"skills", "complete"} =>
       \A p \in Hooks \ setting.on : installed[p] \in Contexts <=> p \in setting.kept
  /\ setting.pc = "complete" =>
       /\ \A p \in setting.on \cap Skills : installed[p] = setting.context
       /\ \A p \in Skills \ setting.on : installed[p] \in Contexts <=> p \in setting.kept

\* Nothing is said of a failure before there is one.
Unsaid == setting.pc # "failed" => setting.said = "" /\ ~setting.cut

SetupInv == SetupTypes /\ EntrySound /\ NotHidden /\ PartsSound /\ Unsaid /\ OldEntryAccounted

\* What the types say of the parts of the state.
LEMMA SetupFacts ==
  ASSUME SetupTypes
  PROVE /\ Given = setting.ask /\ setting.ask \in Asks /\ Given.scope \in {"project", "user"}
        /\ Given.scope \in Places /\ Wanted(Given) \in SomeEntry \ {Absent}
        /\ setting.hideOk \in BOOLEAN /\ setting.unchanged \in BOOLEAN /\ setting.replaces \in SomeEntry
        /\ setting.context \in Contexts \cup {Absent}
        /\ setting.on \subseteq Hooks \cup Skills /\ setting.kept \subseteq Hooks \cup Skills
<1>1. setting.ask \in Asks /\ Given = setting.ask BY DEF SetupTypes, SettingState, Given
<1>2. Given.scope \in {"project", "user"} /\ Given.oauth \in BOOLEAN BY <1>1
<1>3. Given.scope \in Places BY <1>2 DEF Places, Scopes
<1>4. Wanted(Given) \in SomeEntry \ {Absent} BY DEF Wanted, SomeEntry, Absent
<1>5. /\ setting.hideOk \in BOOLEAN /\ setting.unchanged \in BOOLEAN /\ setting.replaces \in SomeEntry
      /\ setting.context \in Contexts \cup {Absent}
      /\ setting.on \subseteq Hooks \cup Skills /\ setting.kept \subseteq Hooks \cup Skills
  BY DEF SetupTypes, SettingState
<1>. QED BY <1>1, <1>2, <1>3, <1>4, <1>5

\* The command goes on, or stops: its other fields are as they were.
SettingGoes(step) ==
  /\ setting' \in SettingState /\ setting'.pc = step /\ setting'.ask = setting.ask
  /\ setting'.hideOk = setting.hideOk /\ setting'.replaces = setting.replaces
  /\ setting'.unchanged = setting.unchanged /\ setting'.on = setting.on
  /\ setting'.context = setting.context

\* The forms in which a Claude Code setup moves on, with the fields they leave.
LEMMA SettingSteps ==
  ASSUME setting \in SettingState
  PROVE /\ \A step \in SettingPcs : setting' = [setting EXCEPT !.pc = step] =>
             /\ SettingGoes(step) /\ setting'.kept = setting.kept
             /\ setting'.said = setting.said /\ setting'.cut = setting.cut
        /\ \A said \in {"", "nothing", "gone"} : Stop(said) =>
             SettingGoes("failed") /\ setting'.said = said /\ setting'.cut = setting.cut
        /\ CutOff => SettingGoes("failed") /\ setting'.said = setting.said /\ setting'.cut
        /\ \A step \in SettingPcs : \A kept \in SUBSET (Hooks \cup Skills) :
             setting' = [setting EXCEPT !.pc = step, !.kept = kept] =>
               /\ SettingGoes(step) /\ setting'.kept = kept
               /\ setting'.said = setting.said /\ setting'.cut = setting.cut
<1>1. ASSUME NEW step \in SettingPcs, setting' = [setting EXCEPT !.pc = step]
      PROVE /\ SettingGoes(step) /\ setting'.kept = setting.kept
            /\ setting'.said = setting.said /\ setting'.cut = setting.cut
  BY <1>1 DEF SettingGoes, SettingState
<1>2. ASSUME NEW said \in {"", "nothing", "gone"}, Stop(said)
      PROVE SettingGoes("failed") /\ setting'.said = said /\ setting'.cut = setting.cut
  BY <1>2 DEF SettingGoes, SettingState, SettingPcs, Stop
<1>3. CutOff => SettingGoes("failed") /\ setting'.said = setting.said /\ setting'.cut
  BY DEF SettingGoes, SettingState, SettingPcs, CutOff
<1>4. ASSUME NEW step \in SettingPcs, NEW kept \in SUBSET (Hooks \cup Skills),
             setting' = [setting EXCEPT !.pc = step, !.kept = kept]
      PROVE /\ SettingGoes(step) /\ setting'.kept = kept
            /\ setting'.said = setting.said /\ setting'.cut = setting.cut
  BY <1>4 DEF SettingGoes, SettingState
<1>. QED BY <1>1, <1>2, <1>3, <1>4

\* While nothing is written, every place is as it was.
LEMMA AsBefore ==
  ASSUME SetupInv, setting.pc \in Planning
  PROVE entries = before.entries
<1>1. \A spot \in Places : entries[spot] = before.entries[spot] BY DEF SetupInv, EntrySound
<1>2. entries \in [Places -> SomeEntry] /\ before.entries \in [Places -> SomeEntry]
  BY DEF SetupInv, SetupTypes
<1>. QED BY <1>1, <1>2

\* What speaks for a stronger scope does not depend on the asked place.
LEMMA StrongerApart ==
  ASSUME NEW at \in [Places -> SomeEntry], NEW then \in [Places -> SomeEntry],
         NEW scope \in {"project", "user"},
         \A spot \in Places \ {scope} : then[spot] = at[spot]
  PROVE find_kagura_mcp_entries(then) \cap Stronger(scope) = find_kagura_mcp_entries(at) \cap Stronger(scope)
<1>1. CASE scope = "project"
  <2>1. then["local"] = at["local"] BY <1>1 DEF Places, Scopes
  <2>. QED BY <1>1, <2>1 DEF find_kagura_mcp_entries, Stronger, Speaks, _closest_mcp_json
<1>2. CASE scope = "user"
  <2>1. then["local"] = at["local"] /\ then["project"] = at["project"] /\ then["parent"] = at["parent"]
    BY <1>2 DEF Places, Scopes
  <2>. QED BY <1>2, <2>1 DEF find_kagura_mcp_entries, Stronger, Speaks, _closest_mcp_json
<1>. QED BY <1>1, <1>2

\* An entry that no stronger place hides is the one Claude Code uses.
LEMMA StrongestWins ==
  ASSUME NEW at \in [Places -> SomeEntry], NEW scope \in {"project", "user"},
         at[scope] # Absent, find_kagura_mcp_entries(at) \cap Stronger(scope) = {}
  PROVE InForce(at) = at[scope]
<1>. DEFINE found == find_kagura_mcp_entries(at)
<1>1. Speaks(at, scope) = scope BY DEF Speaks, _closest_mcp_json
<1>2. scope \in found /\ found \subseteq Scopes
  BY <1>1 DEF find_kagura_mcp_entries, Scopes
<1>3. found \cap Stronger(scope) = {} OBVIOUS
<1>. HIDE DEF found
<1>4. ASSUME NEW s \in found, found \cap Stronger(s) = {} PROVE s = scope
  BY <1>2, <1>3, <1>4 DEF Stronger, Scopes
<1>5. (CHOOSE s \in found : found \cap Stronger(s) = {}) = scope BY <1>2, <1>3, <1>4
<1>. QED BY <1>1, <1>2, <1>5 DEF InForce, found

\* The command stops: the asked place holds what it held, what was asked for,
\* or is reported gone.
LEMMA StopStep ==
  ASSUME SetupInv, NEW said \in {"", "nothing", "gone"}, Stop(said), setting.pc # "idle",
         UNCHANGED <<before, machine, setups>>,
         entries' \in [Places -> SomeEntry], installed' \in [Parts -> Contexts \cup {Absent, "users"}],
         \A spot \in Places \ {Given.scope} : entries'[spot] = before.entries[spot],
         \/ entries'[Given.scope] \in {before.entries[Given.scope], Wanted(Given)}
         \/ entries'[Given.scope] = Absent /\ said = "gone",
         said = "nothing" => entries' = before.entries /\ installed' = before.installed
  PROVE SetupInv'
<1>1. /\ SettingGoes("failed") /\ setting'.said = said
  BY SettingSteps DEF SetupInv, SetupTypes
<1>2. Given' = Given /\ before' = before BY <1>1 DEF SettingGoes, Given
<1>3. SetupTypes' BY <1>1, <1>2 DEF SetupInv, SetupTypes, SettingGoes
<1>4. EntrySound' BY <1>1, <1>2 DEF EntrySound, SettingGoes, Planning, Written
<1>5. NotHidden' BY <1>1 DEF NotHidden, SettingGoes
<1>6. PartsSound' BY <1>1 DEF SetupInv, PartsSound, SettingGoes, Planning, Written
<1>7. Unsaid' BY <1>1 DEF Unsaid, SettingGoes
<1>8. OldEntryAccounted' BY <1>1, <1>2 DEF OldEntryAccounted, SettingGoes, Wanted
<1>. QED BY <1>3, <1>4, <1>5, <1>6, <1>7, <1>8 DEF SetupInv

\* The command ends in the middle of its step on the entry: the asked place
\* holds what it held, what was asked for, or nothing.
LEMMA CutStep ==
  ASSUME SetupInv, CutOff, setting.pc = "entry", UNCHANGED <<installed, before, machine, setups>>,
         entries' \in [Places -> SomeEntry],
         \A spot \in Places \ {Given.scope} : entries'[spot] = entries[spot],
         entries'[Given.scope] \in {before.entries[Given.scope], Wanted(Given), Absent}
  PROVE SetupInv'
<1>1. SettingGoes("failed") /\ setting'.said = setting.said /\ setting'.cut
  BY SettingSteps DEF SetupInv, SetupTypes
<1>2. Given' = Given /\ before' = before BY <1>1 DEF SettingGoes, Given
<1>3. setting.said = "" /\ \A spot \in Places \ {Given.scope} : entries'[spot] = before.entries[spot]
  BY DEF SetupInv, Unsaid, EntrySound
<1>4. SetupTypes' BY <1>1, <1>2 DEF SetupInv, SetupTypes, SettingGoes
<1>5. EntrySound' BY <1>1, <1>2, <1>3 DEF EntrySound, SettingGoes, Planning, Written
<1>6. NotHidden' BY <1>1 DEF NotHidden, SettingGoes
<1>7. PartsSound' BY <1>1 DEF SetupInv, PartsSound, SettingGoes, Planning, Written
<1>8. Unsaid' BY <1>1 DEF Unsaid, SettingGoes
<1>9. OldEntryAccounted' BY <1>1, <1>2, <1>3 DEF OldEntryAccounted, SettingGoes, Wanted
<1>. QED BY <1>4, <1>5, <1>6, <1>7, <1>8, <1>9 DEF SetupInv

\* A planning step that stops leaves every entry as it was.
LEMMA PlanStops ==
  ASSUME SetupInv, setting.pc \in Planning, NEW said \in {"", "nothing"}, Stop(said),
         UNCHANGED <<entries, before, machine, setups>>,
         installed' \in [Parts -> Contexts \cup {Absent, "users"}],
         said = "nothing" => setting.pc # "entry" /\ UNCHANGED installed
  PROVE SetupInv'
<1>1. entries = before.entries BY AsBefore
<1>2. setting.pc # "idle" BY DEF Planning
<1>3. Given.scope \in Places /\ entries \in [Places -> SomeEntry] BY SetupFacts DEF SetupInv, SetupTypes
<1>4. said = "nothing" => installed' = before.installed BY DEF SetupInv, EntrySound
<1>5. \A spot \in Places \ {Given.scope} : entries'[spot] = before.entries[spot] BY <1>1
<1>. QED BY <1>1, <1>2, <1>3, <1>4, <1>5, StopStep

\* A planning step that goes on only makes choices.
LEMMA PlanGoes ==
  ASSUME SetupInv, setting.pc \in {"plan", "verify", "context", "extras"}, UNCHANGED Files,
         setting' \in SettingState, setting'.ask = setting.ask,
         setting'.pc \in {"verify", "context", "extras", "config"},
         setting'.said = setting.said, setting'.cut = setting.cut, setting'.kept = setting.kept,
         setting'.hideOk \/ Hiding(Given.scope) = {},
         Given.scope = "user" =>
           IF setting'.unchanged THEN entries["user"] = Wanted(Given) ELSE setting'.replaces = entries["user"],
         setting'.on \cap Skills \in {{}, Skills},
         setting'.pc \in {"extras", "config"} => setting'.context \in Contexts
  PROVE SetupInv'
<1>1. /\ SetupTypes /\ EntrySound /\ PartsSound /\ Unsaid BY DEF SetupInv
<1>2. Given' = Given /\ UNCHANGED Files BY DEF Given
<1>3. /\ setting.kept = {} /\ setting.said = "" /\ ~setting.cut BY <1>1 DEF PartsSound, Unsaid
<1>4. SetupTypes' BY <1>1, <1>2 DEF SetupTypes, Files
<1>5. EntrySound'
  BY <1>1, <1>2 DEF EntrySound, Planning, Written, Files, Wanted
<1>6. NotHidden' BY <1>2 DEF NotHidden, Hiding, Files
<1>7. PartsSound' BY <1>1, <1>2, <1>3 DEF PartsSound, Planning, Written
<1>8. Unsaid' /\ OldEntryAccounted' BY <1>3 DEF Unsaid, OldEntryAccounted, Reached
<1>. QED BY <1>4, <1>5, <1>6, <1>7, <1>8 DEF SetupInv

\* The start of `kagura setup claude` preserves the invariant.
LEMMA BeginStep ==
  ASSUME SetupInv, begin PROVE SetupInv'
<1>1. PICK ask \in Asks : setting' = [Idle(ask) EXCEPT !.pc = "plan"] BY DEF begin
<1>2. /\ setting' \in SettingState /\ setting'.pc = "plan" /\ setting'.on = {} /\ setting'.kept = {}
      /\ setting'.said = "" /\ ~setting'.cut
      /\ ~setting'.unchanged
  BY <1>1 DEF Idle, SettingState, SettingPcs, Planning, Contexts, Absent, SomeEntry
<1>3. /\ entries' = entries /\ installed' = installed
      /\ before'.entries = entries /\ before'.installed = installed
  BY DEF begin
<1>4. SetupTypes' BY <1>2, <1>3 DEF SetupInv, SetupTypes
<1>5. EntrySound' BY <1>2, <1>3 DEF EntrySound, Planning, Written
<1>6. NotHidden' /\ Unsaid' /\ OldEntryAccounted' BY <1>2 DEF NotHidden, Unsaid, OldEntryAccounted, Reached
<1>7. PartsSound' BY <1>2 DEF PartsSound, Planning, Written
<1>. QED BY <1>4, <1>5, <1>6, <1>7 DEF SetupInv

\* The plan for the entry preserves the invariant.
LEMMA PlanStep ==
  ASSUME SetupInv, _plan_mcp_entry PROVE SetupInv'
<1>1. /\ setting.pc = "plan" /\ UNCHANGED Files /\ SetupTypes /\ setting \in SettingState
      /\ installed \in [Parts -> Contexts \cup {Absent, "users"}]
  BY DEF _plan_mcp_entry, Reached, SetupInv, SetupTypes
<1>2. CASE Stop("nothing") BY <1>1, <1>2, PlanStops DEF Planning, Files
<1>. DEFINE plan == [setting EXCEPT !.pc = "verify", !.hideOk = Hiding(Given.scope) # {}]
<1>3. /\ plan \in SettingState /\ plan.ask = setting.ask /\ plan.pc = "verify"
      /\ plan.said = setting.said /\ plan.cut = setting.cut /\ plan.kept = setting.kept
      /\ plan.hideOk \/ Hiding(Given.scope) = {}
      /\ plan.on = setting.on
  BY <1>1 DEF SettingState, SettingPcs, Planning
<1>4. setting.on \cap Skills \in {{}, Skills} /\ Given.scope \in {"project", "user"}
  BY <1>1, SetupFacts DEF SetupInv, PartsSound
<1>5. ~setting.unchanged /\ entries[Given.scope] \in SomeEntry
  BY <1>1, <1>4 DEF SetupInv, EntrySound, SetupTypes, Places, Scopes
<1>. HIDE DEF plan
<1>6. CASE Given.scope = "project" /\ setting' = plan
  BY <1>1, <1>3, <1>4, <1>6, PlanGoes
<1>7. CASE Given.scope = "user" /\ entries["user"] = Wanted(Given) /\ setting' = [plan EXCEPT !.unchanged = TRUE]
  <2>1. /\ setting' \in SettingState /\ setting'.ask = setting.ask /\ setting'.pc = "verify"
        /\ setting'.said = setting.said /\ setting'.cut = setting.cut /\ setting'.kept = setting.kept
        /\ setting'.hideOk = plan.hideOk /\ setting'.on = setting.on /\ setting'.unchanged
    BY <1>3, <1>7 DEF SettingState
  <2>. QED BY <1>1, <1>3, <1>4, <1>7, <2>1, PlanGoes
<1>8. CASE Given.scope = "user" /\ setting' = [plan EXCEPT !.replaces = entries["user"]]
  <2>1. /\ setting' \in SettingState /\ setting'.ask = setting.ask /\ setting'.pc = "verify"
        /\ setting'.said = setting.said /\ setting'.cut = setting.cut /\ setting'.kept = setting.kept
        /\ setting'.hideOk = plan.hideOk /\ setting'.on = setting.on
        /\ setting'.replaces = entries["user"] /\ setting'.unchanged = plan.unchanged
    BY <1>3, <1>5, <1>8 DEF SettingState
  <2>2. ~plan.unchanged BY <1>1, <1>5 DEF plan, SettingState
  <2>. QED BY <1>1, <1>3, <1>4, <1>8, <2>1, <2>2, PlanGoes
<1>. QED BY <1>2, <1>6, <1>7, <1>8 DEF _plan_mcp_entry, plan

\* The three choices before the first file is written.
LEMMA ChoiceStep ==
  ASSUME SetupInv, _test_connection \/ _select_or_create_context \/ _resolve_extras
  PROVE SetupInv'
<1>1. /\ setting.pc \in {"verify", "context", "extras"} /\ UNCHANGED Files
      /\ SetupTypes /\ setting \in SettingState /\ installed \in [Parts -> Contexts \cup {Absent, "users"}]
  BY DEF _test_connection, _select_or_create_context, _resolve_extras, Reached, SetupInv, SetupTypes
<1>2. /\ setting.on \cap Skills \in {{}, Skills}
      /\ setting.hideOk \/ Hiding(Given.scope) = {}
      /\ Given.scope = "user" =>
           IF setting.unchanged THEN entries["user"] = Wanted(Given) ELSE setting.replaces = entries["user"]
      /\ setting.pc = "extras" => setting.context \in Contexts
  BY <1>1 DEF SetupInv, PartsSound, NotHidden, EntrySound, Planning
<1>3. CASE Stop("") BY <1>1, <1>3, PlanStops DEF Planning, Files
<1>4. CASE setting.pc = "verify" /\ setting' = [setting EXCEPT !.pc = "context"]
  <2>1. /\ SettingGoes("context") /\ setting'.kept = setting.kept
        /\ setting'.said = setting.said /\ setting'.cut = setting.cut
    BY <1>1, <1>4, SettingSteps DEF SettingPcs, Planning
  <2>. QED BY <1>1, <1>2, <1>4, <2>1, PlanGoes DEF SettingGoes
<1>5. CASE setting.pc = "context" /\ \E context \in Contexts :
             setting' = [setting EXCEPT !.pc = "extras", !.context = context]
  <2>1. PICK context \in Contexts : setting' = [setting EXCEPT !.pc = "extras", !.context = context] BY <1>5
  <2>2. /\ setting' \in SettingState /\ setting'.ask = setting.ask /\ setting'.pc = "extras"
        /\ setting'.said = setting.said /\ setting'.cut = setting.cut /\ setting'.kept = setting.kept
        /\ setting'.hideOk = setting.hideOk /\ setting'.on = setting.on
        /\ setting'.replaces = setting.replaces /\ setting'.unchanged = setting.unchanged
        /\ setting'.context = context
    BY <1>1, <2>1 DEF SettingState, SettingPcs, Planning
  <2>. QED BY <1>1, <1>2, <1>5, <2>2, PlanGoes
<1>6. CASE setting.pc = "extras" /\ _resolve_extras
  <2>1. PICK on \in SUBSET (Hooks \cup Skills) :
          on \cap Skills \in {{}, Skills} /\ setting' = [setting EXCEPT !.pc = "config", !.on = on]
    <3>1. PICK session \in BOOLEAN, commands \in BOOLEAN : setting' = [setting EXCEPT !.pc = "config",
            !.on = (IF session THEN {"session"} ELSE {}) \cup (IF Given.sync THEN {"sync"} ELSE {})
                   \cup (IF commands THEN Skills ELSE {})]
      BY <1>6 DEF _resolve_extras
    <3>. DEFINE on == (IF session THEN {"session"} ELSE {}) \cup (IF Given.sync THEN {"sync"} ELSE {})
                   \cup (IF commands THEN Skills ELSE {})
    <3>2. on \in SUBSET (Hooks \cup Skills) BY DEF Hooks
    <3>3. on \cap Skills \in {{}, Skills} BY DEF Skills
    <3>. QED BY <3>1, <3>2, <3>3
  <2>2. /\ setting' \in SettingState /\ setting'.ask = setting.ask /\ setting'.pc = "config"
        /\ setting'.said = setting.said /\ setting'.cut = setting.cut /\ setting'.kept = setting.kept
        /\ setting'.hideOk = setting.hideOk /\ setting'.on = on
        /\ setting'.replaces = setting.replaces /\ setting'.unchanged = setting.unchanged
        /\ setting'.context = setting.context
    BY <1>1, <2>1 DEF SettingState, SettingPcs, Planning
  <2>. QED BY <1>1, <1>2, <1>6, <2>1, <2>2, PlanGoes
<1>. QED
  BY <1>3, <1>4, <1>5, <1>6 DEF _test_connection, _select_or_create_context, _resolve_extras, Reached

\* What a file's parts become, written, taken out or lost.
LEMMA Rewritten ==
  ASSUME SetupTypes, setting.context \in Contexts, NEW parts,
         NEW left \in [Parts -> Contexts \cup {Absent, "users"}]
  PROVE /\ With(parts) \in [Parts -> Contexts \cup {Absent, "users"}]
        /\ Without(parts, left) \in [Parts -> Contexts \cup {Absent, "users"}]
BY DEF SetupTypes, With, Without

\* A write that fails ends the command.
LEMMA WriteFails ==
  ASSUME SetupTypes, setting.context \in Contexts, NEW parts,
         NEW left \in [Parts -> Contexts \cup {Absent, "users"}],
         NEW whole \in [Parts -> Contexts \cup {Absent, "users"}],
         _write_json(parts, left, whole)
  PROVE Stop("") /\ installed' \in [Parts -> Contexts \cup {Absent, "users"}]
<1>1. Without(parts, left) \in [Parts -> Contexts \cup {Absent, "users"}] BY Rewritten
<1>. QED BY <1>1 DEF _write_json

\* The writes: the config first.
LEMMA ConfigStep ==
  ASSUME SetupInv, _write_kagura_config PROVE SetupInv'
<1>1. /\ setting.pc = "config" /\ UNCHANGED <<entries, before, machine, setups>>
      /\ SetupTypes /\ setting \in SettingState /\ setting.context \in Contexts
      /\ installed \in [Parts -> Contexts \cup {Absent, "users"}]
  BY DEF _write_kagura_config, Reached, SetupInv, SetupTypes, PartsSound, Planning
<1>2. CASE _write_json({"config"}, installed, With({"config"}))
  <2>1. Stop("") /\ installed' \in [Parts -> Contexts \cup {Absent, "users"}]
    BY <1>1, <1>2, Rewritten, WriteFails
  <2>. QED BY <1>1, <2>1, PlanStops DEF Planning
<1>3. CASE Install({"config"}) /\ setting' = [setting EXCEPT !.pc = "entry"]
  <2>1. /\ SettingGoes("entry") /\ setting'.kept = setting.kept
        /\ setting'.said = setting.said /\ setting'.cut = setting.cut
    BY <1>1, <1>3, SettingSteps DEF SettingPcs, Planning
  <2>2. Given' = Given BY <2>1 DEF SettingGoes, Given
  <2>3. setting.context \in Contexts BY <1>1 DEF SetupInv, PartsSound, Planning
  <2>4. /\ installed' \in [Parts -> Contexts \cup {Absent, "users"}]
        /\ installed'["config"] = setting.context
    BY <1>1, <1>3, <2>3 DEF Install, With, Parts, SetupTypes
  <2>5. SetupTypes' BY <1>1, <2>1, <2>4 DEF SetupTypes, SettingGoes
  <2>6. EntrySound' BY <1>1, <2>1, <2>2 DEF SetupInv, EntrySound, SettingGoes, Planning, Written
  <2>7. NotHidden' BY <1>1, <2>1, <2>2 DEF SetupInv, NotHidden, SettingGoes, Hiding
  <2>8. PartsSound' BY <1>1, <2>1, <2>3, <2>4 DEF SetupInv, PartsSound, SettingGoes, Planning, Written
  <2>9. Unsaid' /\ OldEntryAccounted' BY <1>1, <2>1 DEF SetupInv, Unsaid, OldEntryAccounted, Reached, SettingGoes
  <2>. QED BY <2>5, <2>6, <2>7, <2>8, <2>9 DEF SetupInv
<1>. QED BY <1>2, <1>3 DEF _write_kagura_config

\* The entry is written, taken out or put back: only the asked place changes.
LEMMA EntryGoes ==
  ASSUME SetupInv, setting.pc \in {"entry", "add"}, UNCHANGED <<installed, before, machine, setups>>,
         NEW step \in {"add", "restore", "hooks"}, setting' = [setting EXCEPT !.pc = step],
         entries' \in [Places -> SomeEntry],
         \A spot \in Places \ {Given.scope} : entries'[spot] = entries[spot],
         step # "hooks" => Given.scope = "user" /\ setting.replaces = before.entries["user"],
         step = "add" => entries'["user"] = Absent,
         step = "restore" => setting.replaces # Absent /\ entries'["user"] \in {Wanted(Given), Absent},
         step = "hooks" => entries'[Given.scope] = Wanted(Given)
  PROVE SetupInv'
<1>1. /\ SetupTypes /\ EntrySound /\ PartsSound /\ setting \in SettingState BY DEF SetupInv, SetupTypes
<1>2. /\ SettingGoes(step) /\ setting'.kept = setting.kept
      /\ setting'.said = setting.said /\ setting'.cut = setting.cut
  BY <1>1, SettingSteps DEF SettingPcs, Planning, Written
<1>3. Given' = Given /\ Given.scope \in {"project", "user"} BY <1>1, <1>2, SetupFacts DEF SettingGoes, Given
<1>4. SetupTypes' BY <1>1, <1>2 DEF SetupTypes, SettingGoes
<1>5. EntrySound' BY <1>1, <1>2, <1>3 DEF EntrySound, SettingGoes, Planning, Written, Wanted
<1>6. NotHidden'
  <2>1. setting.hideOk \/ Hiding(Given.scope) = {} BY DEF SetupInv, NotHidden
  <2>2. Hiding(Given.scope)' = Hiding(Given.scope)
    BY <1>1, <1>3, StrongerApart DEF Hiding, SetupTypes
  <2>. QED BY <1>2, <2>1, <2>2 DEF NotHidden, SettingGoes
<1>7. PartsSound' BY <1>1, <1>2 DEF PartsSound, SettingGoes, Planning, Written
<1>8. Unsaid' /\ OldEntryAccounted' BY <1>2 DEF SetupInv, Unsaid, OldEntryAccounted, Reached, SettingGoes
<1>. QED BY <1>4, <1>5, <1>6, <1>7, <1>8 DEF SetupInv

\* One place is written.
LEMMA Entered ==
  ASSUME entries \in [Places -> SomeEntry], NEW spot \in Places, NEW entry \in SomeEntry, Enter(spot, entry)
  PROVE /\ entries' \in [Places -> SomeEntry] /\ entries'[spot] = entry
        /\ \A other \in Places \ {spot} : entries'[other] = entries[other]
BY DEF Enter

\* One call of the claude program, whatever setup hears of it.
LEMMA Called ==
  ASSUME entries \in [Places -> SomeEntry], NEW can, NEW entry \in SomeEntry, NEW heard,
         run_claude(can, entry, heard)
  PROVE /\ entries' \in [Places -> SomeEntry]
        /\ \A other \in Places \ {"user"} : entries'[other] = entries[other]
        /\ entries'["user"] \in {entry, entries["user"]}
        /\ heard = "ok" => entries'["user"] = entry
        /\ heard = "failed" => entries' = entries
<1>1. "user" \in Places BY DEF Places, Scopes
<1>2. CASE Enter("user", entry) /\ heard \in {"ok", "cut"} BY <1>1, <1>2, Entered
<1>3. CASE UNCHANGED entries /\ heard \in {"failed", "cut"} BY <1>3
<1>. QED BY <1>2, <1>3 DEF run_claude

\* Writing the project's entry preserves the invariant.
LEMMA ProjectEntryStep ==
  ASSUME SetupInv, _write_project_mcp_entry PROVE SetupInv'
<1>1. /\ setting.pc = "entry" /\ Given.scope = "project" /\ UNCHANGED <<installed, before, machine, setups>>
      /\ SetupTypes /\ entries \in [Places -> SomeEntry] /\ Wanted(Given) \in SomeEntry /\ "project" \in Places
  BY SetupFacts DEF _write_project_mcp_entry, Reached, SetupInv, SetupTypes, Places, Scopes
<1>2. CASE Stop("") /\ UNCHANGED entries
  <2>1. installed' \in [Parts -> Contexts \cup {Absent, "users"}] BY <1>1 DEF SetupTypes
  <2>. QED BY <1>1, <1>2, <2>1, PlanStops DEF Planning
<1>3. CASE Enter("project", Wanted(Given)) /\ setting' = [setting EXCEPT !.pc = "hooks"]
  BY <1>1, <1>3, Entered, EntryGoes
<1>4. CASE CutOff /\ \E left \in {Absent, Wanted(Given)} : Enter("project", left)
  <2>1. PICK left \in {Absent, Wanted(Given)} : Enter("project", left) BY <1>4
  <2>2. left \in SomeEntry BY <1>1 DEF SomeEntry, Absent
  <2>. QED BY <1>1, <1>4, <2>1, <2>2, Entered, CutStep
<1>. QED BY <1>2, <1>3, <1>4 DEF _write_project_mcp_entry

\* Replacing the user's entry preserves the invariant.
LEMMA UserEntryStep ==
  ASSUME SetupInv, _write_mcp_entry PROVE SetupInv'
<1>1. /\ setting.pc = "entry" /\ Given.scope = "user" /\ UNCHANGED <<installed, before, machine, setups>>
      /\ SetupTypes /\ entries \in [Places -> SomeEntry] /\ setting \in SettingState
      /\ "user" \in Places /\ Absent \in SomeEntry
  BY DEF _write_mcp_entry, Reached, SetupInv, SetupTypes, Places, Scopes, Absent, SomeEntry
<1>2. /\ entries = before.entries
      /\ IF setting.unchanged THEN entries["user"] = Wanted(Given) ELSE setting.replaces = entries["user"]
  BY <1>1, AsBefore DEF SetupInv, EntrySound, Planning
<1>3. CASE setting.unchanged /\ setting' = [setting EXCEPT !.pc = "hooks"] /\ UNCHANGED entries
  BY <1>1, <1>2, <1>3, EntryGoes
<1>4. CASE /\ ~setting.unchanged /\ setting.replaces = Absent
           /\ setting' = [setting EXCEPT !.pc = "add"] /\ UNCHANGED entries
  BY <1>1, <1>2, <1>4, EntryGoes
<1>5. CASE /\ ~setting.unchanged /\ setting.replaces # Absent
           /\ \E heard \in Heard :
                /\ run_claude(TRUE, Absent, heard)
                /\ CASE heard = "ok" -> setting' = [setting EXCEPT !.pc = "add"]
                     [] heard = "failed" -> Stop("")
                     [] heard = "cut" -> CutOff
  <2>1. PICK heard \in Heard :
          /\ run_claude(TRUE, Absent, heard)
          /\ heard = "ok" => setting' = [setting EXCEPT !.pc = "add"]
          /\ heard = "failed" => Stop("")
          /\ heard = "cut" => CutOff
    BY <1>5
  <2>2. /\ entries' \in [Places -> SomeEntry]
        /\ \A other \in Places \ {"user"} : entries'[other] = entries[other]
        /\ entries'["user"] \in {Absent, entries["user"]}
        /\ heard = "ok" => entries'["user"] = Absent
        /\ heard = "failed" => entries' = entries
    BY <1>1, <2>1, Called
  <2>3. CASE heard = "ok" BY <1>1, <1>2, <1>5, <2>1, <2>2, <2>3, EntryGoes
  <2>4. CASE heard = "failed"
    <3>1. installed' \in [Parts -> Contexts \cup {Absent, "users"}] BY <1>1 DEF SetupTypes
    <3>. QED BY <1>1, <2>1, <2>2, <2>4, <3>1, PlanStops DEF Planning
  <2>5. CASE heard = "cut" BY <1>1, <1>2, <2>1, <2>2, <2>5, CutStep
  <2>. QED BY <2>3, <2>4, <2>5 DEF Heard
<1>. QED BY <1>3, <1>4, <1>5 DEF _write_mcp_entry

\* A call that adds the user's entry; one with a key in it is not made.
LEMMA Adding ==
  ASSUME entries \in [Places -> SomeEntry], NEW entry \in SomeEntry, NEW heard, _add_user_entry(entry, heard)
  PROVE /\ entries' \in [Places -> SomeEntry]
        /\ \A other \in Places \ {"user"} : entries'[other] = entries[other]
        /\ entries'["user"] \in {entry, entries["user"]}
        /\ heard = "ok" => entries'["user"] = entry
<1>1. CASE entry = "keyed" BY <1>1 DEF _add_user_entry
<1>2. CASE entry # "keyed"
  <2>1. run_claude(entries["user"] = Absent, entry, heard) BY <1>2 DEF _add_user_entry
  <2>. QED BY <2>1, Called
<1>. QED BY <1>1, <1>2

\* Adding the user's entry preserves the invariant.
LEMMA AddStep ==
  ASSUME SetupInv, Add PROVE SetupInv'
<1>1. /\ setting.pc = "add" /\ UNCHANGED <<installed, before, machine, setups>>
      /\ SetupTypes /\ entries \in [Places -> SomeEntry] /\ Wanted(Given) \in SomeEntry
      /\ installed \in [Parts -> Contexts \cup {Absent, "users"}]
  BY SetupFacts DEF Add, Reached, SetupInv, SetupTypes
<1>2. /\ Given.scope = "user" /\ setting.replaces = before.entries["user"] /\ entries["user"] = Absent
      /\ \A spot \in Places \ {Given.scope} : entries[spot] = before.entries[spot]
  BY <1>1 DEF SetupInv, EntrySound
<1>3. PICK heard \in Heard :
        /\ _add_user_entry(Wanted(Given), heard)
        /\ IF heard = "ok" THEN setting' = [setting EXCEPT !.pc = "hooks"]
           ELSE IF setting.replaces = Absent THEN Stop("")
           ELSE setting' = [setting EXCEPT !.pc = "restore"]
  BY DEF Add
<1>4. /\ entries' \in [Places -> SomeEntry]
      /\ \A other \in Places \ {"user"} : entries'[other] = entries[other]
      /\ entries'["user"] \in {Wanted(Given), Absent}
      /\ heard = "ok" => entries'["user"] = Wanted(Given)
  BY <1>1, <1>2, <1>3, Adding
<1>5. CASE heard = "ok" BY <1>1, <1>2, <1>3, <1>4, <1>5, EntryGoes
<1>6. CASE heard # "ok" /\ setting.replaces = Absent BY <1>1, <1>2, <1>3, <1>4, <1>6, StopStep
<1>7. CASE heard # "ok" /\ setting.replaces # Absent BY <1>1, <1>2, <1>3, <1>4, <1>7, EntryGoes
<1>. QED BY <1>5, <1>6, <1>7

\* Putting the old entry back preserves the invariant.
LEMMA RestoreStep ==
  ASSUME SetupInv, _restore_user_entry PROVE SetupInv'
<1>1. /\ setting.pc = "restore" /\ UNCHANGED <<installed, before, machine, setups>>
      /\ SetupTypes /\ entries \in [Places -> SomeEntry] /\ setting.replaces \in SomeEntry
      /\ installed \in [Parts -> Contexts \cup {Absent, "users"}]
  BY SetupFacts DEF _restore_user_entry, Reached, SetupInv, SetupTypes
<1>2. /\ Given.scope = "user" /\ setting.replaces = before.entries["user"]
      /\ \A spot \in Places \ {Given.scope} : entries[spot] = before.entries[spot]
  BY <1>1 DEF SetupInv, EntrySound
<1>3. PICK heard \in Heard : _add_user_entry(setting.replaces, heard) /\ Stop(IF heard = "ok" THEN "" ELSE "gone")
  BY DEF _restore_user_entry
<1>4. /\ entries' \in [Places -> SomeEntry]
      /\ \A other \in Places \ {"user"} : entries'[other] = entries[other]
      /\ entries'["user"] \in {setting.replaces, Wanted(Given), Absent}
      /\ heard = "ok" => entries'["user"] = setting.replaces
  <2>1. entries["user"] \in {Wanted(Given), Absent} BY <1>1 DEF SetupInv, EntrySound
  <2>. QED BY <1>1, <1>3, <2>1, Adding
<1>. QED BY <1>1, <1>2, <1>3, <1>4, StopStep

\* The entry is in its place: the steps that follow write, and take out, parts.
LEMMA WrittenGoes ==
  ASSUME SetupInv, setting.pc \in {"hooks", "removeHooks", "skills"},
         UNCHANGED <<entries, before, machine, setups>>,
         NEW step \in {"removeHooks", "skills", "complete"},
         SettingGoes(step), setting'.said = setting.said, setting'.cut = setting.cut,
         installed' \in [Parts -> Contexts \cup {Absent, "users"}], PartsSound'
  PROVE SetupInv'
<1>1. SetupTypes /\ EntrySound /\ NotHidden /\ Unsaid BY DEF SetupInv
<1>2. Given' = Given BY DEF SettingGoes, Given
<1>3. SetupTypes' BY <1>1 DEF SetupTypes, SettingGoes
<1>4. EntrySound' BY <1>1, <1>2 DEF EntrySound, SettingGoes, Planning, Written, Wanted
<1>5. NotHidden' BY <1>1, <1>2 DEF NotHidden, SettingGoes, Hiding
<1>6. Unsaid' /\ OldEntryAccounted' BY <1>1 DEF Unsaid, OldEntryAccounted, Reached, SettingGoes
<1>. QED BY <1>3, <1>4, <1>5, <1>6 DEF SetupInv

\* A later step that stops: the entry is the one asked for.
LEMMA WrittenStops ==
  ASSUME SetupInv, setting.pc \in {"hooks", "removeHooks", "skills"},
         UNCHANGED <<entries, before, machine, setups>>, Stop(""),
         installed' \in [Parts -> Contexts \cup {Absent, "users"}]
  PROVE SetupInv'
<1>1. /\ entries \in [Places -> SomeEntry] /\ entries[Given.scope] = Wanted(Given)
      /\ \A spot \in Places \ {Given.scope} : entries[spot] = before.entries[spot]
  BY DEF SetupInv, SetupTypes, EntrySound, Written
<1>. QED BY <1>1, StopStep

\* What is installed with the context of the command.
LEMMA Installed ==
  ASSUME SetupTypes, setting.context \in Contexts, NEW parts, Install(parts)
  PROVE /\ installed' \in [Parts -> Contexts \cup {Absent, "users"}]
        /\ \A p \in Parts : installed'[p] = IF p \in parts THEN setting.context ELSE installed[p]
BY DEF Install, With, SetupTypes

\* Installing the hooks preserves the invariant.
LEMMA HooksStep ==
  ASSUME SetupInv, _install_hooks PROVE SetupInv'
<1>1. /\ setting.pc = "hooks" /\ UNCHANGED <<entries, before, machine, setups>>
      /\ SetupTypes /\ setting \in SettingState /\ PartsSound
      /\ installed \in [Parts -> Contexts \cup {Absent, "users"}]
  BY DEF _install_hooks, Reached, SetupInv, SetupTypes
<1>2. setting.context \in Contexts /\ installed["config"] = setting.context /\ setting.kept = {}
  BY <1>1 DEF PartsSound, Written, Planning
<1>3. CASE _write_json(Hooks, installed, With(setting.on \cap Hooks))
  <2>1. Stop("") /\ installed' \in [Parts -> Contexts \cup {Absent, "users"}]
    BY <1>1, <1>2, <1>3, Rewritten, WriteFails
  <2>. QED BY <1>1, <2>1, WrittenStops
<1>4. CASE Install(setting.on \cap Hooks) /\ setting' = [setting EXCEPT !.pc = "removeHooks"]
  <2>1. /\ SettingGoes("removeHooks") /\ setting'.kept = setting.kept
        /\ setting'.said = setting.said /\ setting'.cut = setting.cut
    BY <1>1, <1>4, SettingSteps DEF SettingPcs, Written
  <2>2. /\ installed' \in [Parts -> Contexts \cup {Absent, "users"}]
        /\ \A p \in Parts : installed'[p] = IF p \in setting.on \cap Hooks THEN setting.context ELSE installed[p]
    BY <1>1, <1>2, <1>4, Installed
  <2>3. installed'["config"] = setting.context /\ \A p \in setting.on \cap Hooks : installed'[p] = setting.context
    BY <1>2, <2>2 DEF Parts, Hooks
  <2>4. PartsSound' BY <1>1, <1>2, <2>1, <2>3 DEF PartsSound, SettingGoes, Planning, Written
  <2>. QED BY <1>1, <2>1, <2>2, <2>4, WrittenGoes
<1>. QED BY <1>3, <1>4 DEF _install_hooks

\* What is off is removed, or kept and listed.
LEMMA Removed ==
  ASSUME SetupTypes, NEW parts \in {Hooks, Skills}, NEW next \in SettingPcs, Remove(parts, next),
         setting.kept \subseteq (Hooks \cup Skills) \ parts
  PROVE /\ SettingGoes(next) /\ setting'.said = setting.said /\ setting'.cut = setting.cut
        /\ installed' \in [Parts -> Contexts \cup {Absent, "users"}]
        /\ \A p \in Parts \ (parts \ setting.on) : installed'[p] = installed[p]
        /\ \A p \in parts \ setting.on : installed'[p] \in Contexts <=> p \in setting'.kept
        /\ \A p \in (Hooks \cup Skills) \ parts : p \in setting'.kept <=> p \in setting.kept
        /\ setting'.kept \subseteq setting.kept \cup (parts \ setting.on)
<1>. DEFINE off == Off(parts)
<1>1. /\ setting \in SettingState /\ installed \in [Parts -> Contexts \cup {Absent, "users"}]
      /\ parts \subseteq Hooks \cup Skills /\ Hooks \cup Skills \subseteq Parts
  BY DEF SetupTypes, Parts
<1>2. Absent \notin Contexts /\ off = {p \in parts \ setting.on : installed[p] \in Contexts}
  BY DEF Absent, Contexts, Off
<1>. HIDE DEF off
<1>3. CASE /\ installed' = Without(off, installed)
           /\ setting' = [setting EXCEPT !.pc = next]
  <2>1. /\ SettingGoes(next) /\ setting'.kept = setting.kept
        /\ setting'.said = setting.said /\ setting'.cut = setting.cut
    BY <1>1, <1>3, SettingSteps
  <2>2. installed' \in [Parts -> Contexts \cup {Absent, "users"}] BY <1>1, <1>3 DEF Without
  <2>3. \A p \in Parts : installed'[p] = IF p \in off THEN Absent ELSE installed[p] BY <1>3 DEF Without
  <2>. QED BY <1>1, <1>2, <2>1, <2>2, <2>3
<1>4. CASE setting' = [setting EXCEPT !.pc = next, !.kept = setting.kept \cup off] /\ UNCHANGED installed
  <2>. DEFINE kept == setting.kept \cup off
  <2>1. kept \in SUBSET (Hooks \cup Skills) BY <1>1, <1>2
  <2>2. /\ SettingGoes(next) /\ setting'.kept = kept
        /\ setting'.said = setting.said /\ setting'.cut = setting.cut
    <3>. HIDE DEF kept
    <3>1. setting' = [setting EXCEPT !.pc = next, !.kept = kept] BY <1>4 DEF kept
    <3>. QED BY <1>1, <2>1, <3>1, SettingSteps
  <2>. QED BY <1>1, <1>2, <1>4, <2>2
<1>. QED BY <1>3, <1>4 DEF Remove, off

\* Removing the disabled hooks preserves the invariant.
LEMMA RemoveHooksStep ==
  ASSUME SetupInv, _remove_disabled_hooks PROVE SetupInv'
<1>1. /\ setting.pc = "removeHooks" /\ UNCHANGED <<entries, before, machine, setups>>
      /\ SetupTypes /\ setting \in SettingState /\ PartsSound
      /\ installed \in [Parts -> Contexts \cup {Absent, "users"}]
  BY DEF _remove_disabled_hooks, Reached, SetupInv, SetupTypes
<1>2. /\ setting.context \in Contexts /\ installed["config"] = setting.context /\ setting.kept = {}
      /\ \A p \in setting.on \cap Hooks : installed[p] = setting.context
  BY <1>1 DEF PartsSound, Written, Planning
<1>3. CASE _write_json(Hooks, installed, Without(Off(Hooks), installed))
  <2>1. Stop("") /\ installed' \in [Parts -> Contexts \cup {Absent, "users"}]
    BY <1>1, <1>2, <1>3, Rewritten, WriteFails
  <2>. QED BY <1>1, <2>1, WrittenStops
<1>4. CASE Remove(Hooks, "skills")
  <2>1. "skills" \in SettingPcs /\ setting.kept \subseteq (Hooks \cup Skills) \ Hooks
    BY <1>2 DEF SettingPcs, Written
  <2>2. /\ SettingGoes("skills") /\ setting'.said = setting.said /\ setting'.cut = setting.cut
        /\ installed' \in [Parts -> Contexts \cup {Absent, "users"}]
        /\ \A p \in Parts \ (Hooks \ setting.on) : installed'[p] = installed[p]
        /\ \A p \in Hooks \ setting.on : installed'[p] \in Contexts <=> p \in setting'.kept
        /\ setting'.kept \subseteq setting.kept \cup (Hooks \ setting.on)
    BY <1>1, <1>4, <2>1, Removed
  <2>3. /\ installed'["config"] = setting.context
        /\ \A p \in setting.on \cap Hooks : installed'[p] = setting.context
    BY <1>2, <2>2 DEF Parts, Hooks
  <2>4. PartsSound' BY <1>1, <1>2, <2>2, <2>3 DEF PartsSound, SettingGoes, Planning, Written
  <2>. QED BY <1>1, <2>2, <2>4, WrittenGoes
<1>. QED BY <1>3, <1>4 DEF _remove_disabled_hooks

\* Installing or removing the command files preserves the invariant.
LEMMA SkillsStep ==
  ASSUME SetupInv, _install_skills \/ _remove_sdk_skills PROVE SetupInv'
<1>1. /\ setting.pc = "skills" /\ UNCHANGED <<entries, before, machine, setups>>
      /\ SetupTypes /\ setting \in SettingState /\ PartsSound
      /\ installed \in [Parts -> Contexts \cup {Absent, "users"}]
  BY DEF _install_skills, _remove_sdk_skills, Reached, SetupInv, SetupTypes
<1>2. /\ setting.context \in Contexts /\ installed["config"] = setting.context
      /\ \A p \in setting.on \cap Hooks : installed[p] = setting.context
      /\ setting.kept \subseteq Hooks \ setting.on
      /\ \A p \in Hooks \ setting.on : installed[p] \in Contexts <=> p \in setting.kept
      /\ setting.on \cap Skills \in {{}, Skills}
  BY <1>1 DEF PartsSound, Written, Planning
<1>3. /\ Hooks \cap Skills = {} /\ "config" \notin Hooks \cup Skills /\ "config" \in Parts
      /\ Hooks \cup Skills \subseteq Parts
  BY DEF Hooks, Skills, Parts
<1>4. ASSUME Stop(""), installed' \in [Parts -> Contexts \cup {Absent, "users"}] PROVE SetupInv'
  BY <1>1, <1>4, WrittenStops
<1>5. CASE _install_skills
  <2>1. \A done : Install(done) => installed' \in [Parts -> Contexts \cup {Absent, "users"}]
    BY <1>1, <1>2, Installed
  <2>2. CASE Install(Skills) /\ setting' = [setting EXCEPT !.pc = "complete"]
    <3>1. /\ SettingGoes("complete") /\ setting'.kept = setting.kept
          /\ setting'.said = setting.said /\ setting'.cut = setting.cut
      BY <1>1, <2>2, SettingSteps DEF SettingPcs, Written
    <3>2. \A p \in Parts : installed'[p] = IF p \in Skills THEN setting.context ELSE installed[p]
      BY <1>1, <1>2, <2>2, Installed
    <3>3. /\ installed'["config"] = setting.context
          /\ \A p \in setting.on \cap Hooks : installed'[p] = setting.context
          /\ \A p \in Hooks \ setting.on : installed'[p] \in Contexts <=> p \in setting.kept
          /\ \A p \in setting.on \cap Skills : installed'[p] = setting.context
          /\ Skills \ setting.on = {}
      <4>1. Skills \ setting.on = {} BY <1>5 DEF _install_skills
      <4>2. \A p \in Hooks \cup {"config"} : installed'[p] = installed[p] BY <1>3, <3>2
      <4>3. \A p \in Skills : installed'[p] = setting.context BY <1>3, <3>2
      <4>. QED BY <1>2, <4>1, <4>2, <4>3
    <3>4. PartsSound' BY <1>2, <3>1, <3>3 DEF PartsSound, SettingGoes, Planning, Written
    <3>. QED BY <1>1, <2>1, <2>2, <3>1, <3>4, WrittenGoes
  <2>3. CASE _write_json({"recall"}, installed, With({"recall"}))
    <3>1. Stop("") /\ installed' \in [Parts -> Contexts \cup {Absent, "users"}]
      BY <1>1, <1>2, <2>3, Rewritten, WriteFails
    <3>. QED BY <1>4, <3>1
  <2>4. CASE _write_json({"remember"}, With({"recall"}), With(Skills))
    <3>1. /\ With({"recall"}) \in [Parts -> Contexts \cup {Absent, "users"}]
          /\ With(Skills) \in [Parts -> Contexts \cup {Absent, "users"}]
      BY <1>1, <1>2, Rewritten
    <3>2. Stop("") /\ installed' \in [Parts -> Contexts \cup {Absent, "users"}]
      BY <1>1, <1>2, <2>4, <3>1, WriteFails
    <3>. QED BY <1>4, <3>2
  <2>. QED BY <1>5, <2>2, <2>3, <2>4 DEF _install_skills
<1>6. CASE _remove_sdk_skills
  <2>1. CASE Remove(Skills, "complete")
    <3>1. "complete" \in SettingPcs /\ setting.kept \subseteq (Hooks \cup Skills) \ Skills
      BY <1>2, <1>3 DEF SettingPcs, Written
    <3>2. /\ SettingGoes("complete") /\ setting'.said = setting.said /\ setting'.cut = setting.cut
          /\ installed' \in [Parts -> Contexts \cup {Absent, "users"}]
          /\ \A p \in Parts \ (Skills \ setting.on) : installed'[p] = installed[p]
          /\ \A p \in Skills \ setting.on : installed'[p] \in Contexts <=> p \in setting'.kept
          /\ \A p \in (Hooks \cup Skills) \ Skills : p \in setting'.kept <=> p \in setting.kept
      BY <1>1, <2>1, <3>1, Removed
    <3>3. setting.on \cap Skills = {} BY <1>2, <1>6 DEF _remove_sdk_skills
    <3>4. /\ installed'["config"] = setting.context
          /\ \A p \in setting.on \cap Hooks : installed'[p] = setting.context
          /\ \A p \in Hooks \ setting.on : installed'[p] \in Contexts <=> p \in setting'.kept
      BY <1>2, <1>3, <3>2
    <3>5. PartsSound' BY <1>2, <3>2, <3>3, <3>4 DEF PartsSound, SettingGoes, Planning, Written
    <3>. QED BY <1>1, <3>2, <3>5, WrittenGoes
  <2>2. CASE installed' = [installed EXCEPT !["recall"] = IF @ \in Contexts THEN Absent ELSE @] /\ Stop("")
    <3>1. installed' \in [Parts -> Contexts \cup {Absent, "users"}] BY <1>1, <2>2 DEF Parts, Skills
    <3>. QED BY <1>4, <2>2, <3>1
  <2>3. CASE UNCHANGED installed /\ Stop("") BY <1>1, <1>4, <2>3
  <2>. QED BY <1>6, <2>1, <2>2, <2>3 DEF _remove_sdk_skills
<1>. QED BY <1>5, <1>6

\* The inductive invariant of the setup of Claude Code.
THEOREM SetupInductive == SetupSpec => []SetupInv
<1>1. SetupInit => SetupInv
  <2> SUFFICES ASSUME SetupInit PROVE SetupInv OBVIOUS
  <2>1. PICK ask \in Asks : setting = Idle(ask) BY DEF SetupInit
  <2>2. /\ setting \in SettingState /\ setting.pc = "idle" /\ setting.on = {} /\ setting.kept = {}
        /\ setting.said = "" /\ ~setting.cut
    BY <2>1 DEF Idle, SettingState, SettingPcs, Contexts, Absent, SomeEntry
  <2>3. /\ entries \in [Places -> SomeEntry] /\ before.entries = entries
        /\ installed \in [Parts -> Contexts \cup {Absent, "users"}]
    BY DEF SetupInit, SomeEntry
  <2>. HIDE DEF SetupInit
  <2>4. SetupTypes BY <2>2, <2>3 DEF SetupTypes
  <2>5. EntrySound BY <2>2, <2>3 DEF EntrySound, Planning, Written
  <2>6. NotHidden /\ Unsaid /\ OldEntryAccounted BY <2>2 DEF NotHidden, Unsaid, OldEntryAccounted, Reached
  <2>7. PartsSound BY <2>2 DEF PartsSound, Planning, Written
  <2>. QED BY <2>4, <2>5, <2>6, <2>7 DEF SetupInv
<1>2. SetupInv /\ [SetupNext]_setupVars => SetupInv'
  <2> SUFFICES ASSUME SetupInv, [SetupNext]_setupVars PROVE SetupInv' OBVIOUS
  <2>1. CASE begin BY <2>1, BeginStep
  <2>2. CASE _plan_mcp_entry BY <2>2, PlanStep
  <2>3. CASE _test_connection \/ _select_or_create_context \/ _resolve_extras BY <2>3, ChoiceStep
  <2>4. CASE _write_kagura_config BY <2>4, ConfigStep
  <2>5. CASE _write_project_mcp_entry BY <2>5, ProjectEntryStep
  <2>6. CASE _write_mcp_entry BY <2>6, UserEntryStep
  <2>7. CASE Add BY <2>7, AddStep
  <2>8. CASE _restore_user_entry BY <2>8, RestoreStep
  <2>9. CASE _install_hooks BY <2>9, HooksStep
  <2>10. CASE _remove_disabled_hooks BY <2>10, RemoveHooksStep
  <2>11. CASE _install_skills \/ _remove_sdk_skills BY <2>11, SkillsStep
  <2>12. CASE UNCHANGED setupVars
    <3>1. UNCHANGED <<entries, installed, setting, before>> /\ Given' = Given BY <2>12 DEF setupVars, Given
    <3>2. SetupTypes' BY <3>1 DEF SetupInv, SetupTypes
    <3>3. EntrySound' BY <3>1 DEF SetupInv, EntrySound, Wanted
    <3>4. NotHidden' BY <3>1 DEF SetupInv, NotHidden, Hiding
    <3>5. PartsSound' BY <3>1 DEF SetupInv, PartsSound
    <3>6. Unsaid' /\ OldEntryAccounted' BY <3>1 DEF SetupInv, Unsaid, OldEntryAccounted, Reached, Wanted
    <3>. QED BY <3>2, <3>3, <3>4, <3>5, <3>6 DEF SetupInv
  <2>. QED
    BY <2>1, <2>2, <2>3, <2>4, <2>5, <2>6, <2>7, <2>8, <2>9, <2>10, <2>11, <2>12 DEF SetupNext, SetupEnded
<1>. QED BY <1>1, <1>2, PTL DEF SetupSpec

\* "Setup complete" is true of every file, and a setup that fails loses no
\* entry without a word (_write_mcp_entry, _restore_user_entry, _apply_extras).
THEOREM SetupIsTrue == SetupSpec => []SetupTellsTruth
<1>1. SetupInv => SetupTellsTruth
  <2> SUFFICES ASSUME SetupInv, Reached("complete") PROVE CompleteIsTrue
    BY DEF SetupTellsTruth, CompleteIsTrue, SetupInv
  <2>1. /\ SetupTypes /\ setting.pc = "complete" /\ setting.on \subseteq Hooks \cup Skills
        /\ entries \in [Places -> SomeEntry]
        /\ Given.scope \in {"project", "user"} /\ Wanted(Given) # Absent
    BY SetupFacts DEF SetupInv, SetupTypes, Reached
  <2>2. entries[Given.scope] = Wanted(Given) BY <2>1 DEF SetupInv, EntrySound, Written
  <2>3. setting.hideOk \/ InForce(entries) = Wanted(Given)
    <3>1. setting.hideOk \/ Hiding(Given.scope) = {} BY <2>1 DEF SetupInv, NotHidden
    <3>. QED BY <2>1, <2>2, <3>1, StrongestWins DEF Hiding
  <2>4. /\ \A p \in setting.on \cup {"config"} : installed[p] = setting.context
        /\ \A p \in (Hooks \cup Skills) \ setting.on : installed[p] \in Contexts <=> p \in setting.kept
    BY <2>1 DEF SetupInv, PartsSound, Written
  <2>. QED BY <2>2, <2>3, <2>4 DEF CompleteIsTrue
<1>. QED BY <1>1, SetupInductive, PTL

-----------------------------------------------------------------------------
\* The choice of the credential.

Sources == {"env", "dotfile"} \cup Profiles
Servers == {"env", "dotfile", Default} \cup Profiles
Credential == [cred : Sources, url : Servers]

AuthTypes ==
  /\ env \in [key : BOOLEAN, url : {None, "env"}, profile : Profiles \cup {None, Blank}, strict : BOOLEAN]
  /\ dotfile \in [there : BOOLEAN, key : BOOLEAN, url : {None, "dotfile"}, context : BOOLEAN]
  /\ dotfile.there \/ (dotfile.key = FALSE /\ dotfile.url = None /\ dotfile.context = FALSE)
  /\ creds \in [profiles : SUBSET Profiles, default : Profiles \cup {None}]
  /\ task \in [lane : Lanes, profile : Profiles \cup {None}, target : BOOLEAN]
  /\ task.lane = "mcp" => task.profile # None
  /\ pc \in {"find", "ambiguous", "place", "work", "done", "failed"}
  /\ state \in Profiles \cup {None} /\ used \in Seq(Credential) /\ edits \in Nat

\* The source that is used while the credentials file is not edited.
Resolution ==
  IF task.lane = "mcp" THEN [cred |-> task.profile, url |-> task.profile]
  ELSE IF Explicit.key # None THEN [cred |-> Explicit.key, url |-> Or(Explicit.url, Default)]
  ELSE IF env.key THEN [cred |-> "env", url |-> Or(Explicit.url, Or(env.url, Default))]
  ELSE IF Fallback(Named) \in creds.profiles
       THEN [cred |-> Fallback(Named), url |-> Or(Explicit.url, Fallback(Named))]
  ELSE [cred |-> Config.key, url |-> Or(Explicit.url, Or(Config.url, Default))]

\* The credentials the task may hold: on their own server, and the one it named.
Rightful ==
  {u \in Credential :
    /\ task.lane # "client" =>
         /\ u.url = Home(u.cred)
         /\ Requested => u.cred \in (IF task.lane = "mcp" THEN {task.profile} ELSE {Named, "env"})
    /\ edits = 0 =>
         /\ u = Resolution
         /\ Named = None /\ Cardinality(creds.profiles) >= 2 /\ u.cred \in Profiles =>
              u.cred \in warned /\ ~env.strict}

\* While the ambiguity is checked, the profile is the default one, unless the
\* file was edited.
Checking ==
  pc = "ambiguous" =>
    /\ task.lane # "mcp" /\ Explicit.key = None /\ ~env.key /\ Named = None /\ state \in Profiles
    /\ edits = 0 => state = creds.default /\ state \in creds.profiles

\* The workspace is that of the first credential.
Placed ==
  /\ pc \in {"place", "work"} => used # <<>>
  /\ place # None => used # <<>>
  /\ place \notin {None, "given"} => place = used[1].cred

AuthInv == AuthTypes /\ (\A i \in DOMAIN used : used[i] \in Rightful) /\ Checking /\ Placed

\* The sources and their servers.
LEMMA AuthFacts ==
  ASSUME AuthTypes
  PROVE /\ env.key \in BOOLEAN /\ env.strict \in BOOLEAN /\ env.url \in {None, "env"}
        /\ dotfile.url \in {None, "dotfile"} /\ task.lane \in Lanes
        /\ creds.profiles \subseteq Profiles /\ creds.default \in Profiles \cup {None}
        /\ Explicit.key \in {None, "env", "dotfile"} /\ Explicit.url \in {None, "env", "dotfile", Default}
        /\ task.lane # "client" => Explicit.key = None /\ Explicit.url = None
        /\ Config.key \in {None, "env", "dotfile"} /\ Config.url \in {None, "env", "dotfile", Default}
        /\ Config.key = "env" => env.key
        /\ Config.key = "dotfile" => Config.url = dotfile.url
        /\ Named \in Profiles \cup {None, Blank} /\ Fallback(Named) \in Profiles \cup {None}
        /\ Requested <=> Named \in Profiles
        /\ Requested => Fallback(Named) = Named
        /\ ~Requested => Fallback(Named) = creds.default
        /\ task.lane = "mcp" => Named = task.profile /\ task.profile \in Profiles
        /\ None \notin Profiles
<1>1. /\ env.key \in BOOLEAN /\ env.strict \in BOOLEAN /\ env.url \in {None, "env"}
      /\ env.profile \in Profiles \cup {None, Blank}
      /\ dotfile.url \in {None, "dotfile"} /\ task.lane \in Lanes /\ task.profile \in Profiles \cup {None}
      /\ creds.profiles \subseteq Profiles /\ creds.default \in Profiles \cup {None}
  BY DEF AuthTypes
<1>2. /\ Config.key \in {None, "env", "dotfile"} /\ Config.url \in {None, "env", "dotfile", Default}
      /\ Config.key = "env" => env.key
      /\ Config.key = "dotfile" => Config.url = dotfile.url
  BY <1>1 DEF Config, Or, None, Default
<1>3. /\ Explicit.key \in {None, "env", "dotfile"} /\ Explicit.url \in {None, "env", "dotfile", Default}
      /\ task.lane # "client" => Explicit.key = None /\ Explicit.url = None
  BY <1>2 DEF Explicit
<1>4. /\ Named \in Profiles \cup {None, Blank} /\ None \notin Profiles
      /\ Requested <=> Named \in Profiles
  <2>1. Named \in Profiles \cup {None, Blank} BY <1>1 DEF Named, Or
  <2>2. None \notin Profiles /\ Blank \notin Profiles OBVIOUS
  <2>. QED BY <2>1, <2>2 DEF Requested
<1>5. /\ Fallback(Named) \in Profiles \cup {None}
      /\ Requested => Fallback(Named) = Named
      /\ ~Requested => Fallback(Named) = creds.default
  BY <1>1, <1>4 DEF Fallback, Requested
<1>6. task.lane = "mcp" => Named = task.profile /\ task.profile \in Profiles
  BY <1>1 DEF Named, Or, AuthTypes
<1>. QED BY <1>1, <1>2, <1>3, <1>4, <1>5, <1>6

\* A sequence with one credential more.
LEMMA OneMore ==
  ASSUME NEW s \in Seq(Credential), NEW u \in Credential
  PROVE /\ Append(s, u) \in Seq(Credential) /\ Append(s, u) # <<>>
        /\ \A i \in DOMAIN Append(s, u) : (i \in DOMAIN s /\ Append(s, u)[i] = s[i]) \/ Append(s, u)[i] = u
        /\ s # <<>> => Append(s, u)[1] = s[1]
<1>1. Append(s, u) \in Seq(Credential) /\ Len(Append(s, u)) = Len(s) + 1 /\ Len(s) \in Nat OBVIOUS
<1>2. Append(s, u) # <<>> BY <1>1
<1>3. \A i \in DOMAIN Append(s, u) : (i \in DOMAIN s /\ Append(s, u)[i] = s[i]) \/ Append(s, u)[i] = u OBVIOUS
<1>4. s # <<>> => Append(s, u)[1] = s[1] OBVIOUS
<1>. QED BY <1>1, <1>2, <1>3, <1>4

\* What is rightful does not change while nothing is edited, and a warning
\* that was given stays given.
LEMMA StillRightful ==
  ASSUME UNCHANGED <<fixed, creds>>, edits' = edits, warned \subseteq warned'
  PROVE Rightful \subseteq Rightful'
<1>1. UNCHANGED <<env, dotfile, creds, bound, task>> BY DEF fixed
<1>2. Named' = Named /\ (Requested' <=> Requested) /\ Resolution' = Resolution
  BY <1>1 DEF Named, Requested, Resolution, Explicit, Config, Fallback, Or
<1>. QED BY <1>1, <1>2 DEF Rightful, Home, Or

\* A credential is resolved.
LEMMA ResolvedStep ==
  ASSUME AuthInv, UNCHANGED <<fixed, creds, place, edits>>, warned \subseteq warned',
         NEW u \in Credential, used' = Append(used, u), u \in Rightful',
         pc' \in {"place", "done"}, state' \in Profiles \cup {None}
  PROVE AuthInv'
<1>1. AuthTypes /\ used \in Seq(Credential) BY DEF AuthInv, AuthTypes
<1>2. /\ used' \in Seq(Credential) /\ used' # <<>>
      /\ \A i \in DOMAIN used' : (i \in DOMAIN used /\ used'[i] = used[i]) \/ used'[i] = u
      /\ used # <<>> => used'[1] = used[1]
  BY <1>1, OneMore
<1>3. AuthTypes' BY <1>1, <1>2 DEF AuthTypes, fixed
<1>4. \A i \in DOMAIN used' : used'[i] \in Rightful'
  BY <1>2, StillRightful DEF AuthInv
<1>5. Checking' BY DEF Checking
<1>6. Placed' BY <1>2 DEF AuthInv, Placed
<1>. QED BY <1>3, <1>4, <1>5, <1>6 DEF AuthInv

\* Nothing is resolved: the task goes on, or fails.
LEMMA UnresolvedStep ==
  ASSUME AuthInv, UNCHANGED <<fixed, creds, used, edits>>, warned \subseteq warned',
         pc' \in {"find", "ambiguous", "place", "work", "done", "failed"}, state' \in Profiles \cup {None},
         Checking', pc' \in {"place", "work"} => used # <<>>,
         place' # None => used # <<>>, place' \notin {None, "given"} => place' = used[1].cred
  PROVE AuthInv'
<1>1. AuthTypes' BY DEF AuthInv, AuthTypes, fixed
<1>2. \A i \in DOMAIN used' : used'[i] \in Rightful' BY StillRightful DEF AuthInv
<1>3. Placed' BY DEF Placed
<1>. QED BY <1>1, <1>2, <1>3 DEF AuthInv

\* The credential a task resolves is the one its sources call for.
LEMMA ArgumentStep ==
  ASSUME AuthInv, FromArgument \/ FromEnvironment PROVE AuthInv'
<1>1. /\ AuthTypes /\ pc = "find" /\ task.lane # "mcp" /\ UNCHANGED <<fixed, creds, state, place, warned, edits>>
      /\ pc' \in {"place", "done"} /\ state \in Profiles \cup {None}
  BY DEF FromArgument, FromEnvironment, AuthInv, AuthTypes, Resolved
<1>2. UNCHANGED <<env, dotfile, creds, task>> BY <1>1 DEF fixed
<1>3. /\ Named' = Named /\ (Requested' <=> Requested) /\ Resolution' = Resolution
  BY <1>2 DEF Named, Requested, Resolution, Explicit, Config, Fallback, Or
<1>4. CASE FromArgument
  <2>. DEFINE u == [cred |-> Explicit.key, url |-> Or(Explicit.url, Default)]
  <2>1. Explicit.key # None /\ used' = Append(used, u) BY <1>4 DEF FromArgument, Uses
  <2>2. u \in Credential /\ u = Resolution /\ u.cred \notin Profiles /\ task.lane = "client"
    BY <1>1, <2>1, AuthFacts DEF Credential, Sources, Servers, Or, Resolution
  <2>. HIDE DEF u
  <2>3. u \in Rightful' BY <1>2, <1>3, <2>2 DEF Rightful, Home, Or
  <2>. QED BY <1>1, <2>1, <2>2, <2>3, ResolvedStep
<1>5. CASE FromEnvironment
  <2>. DEFINE u == [cred |-> "env", url |-> Or(Explicit.url, Or(env.url, Default))]
  <2>1. Explicit.key = None /\ env.key /\ used' = Append(used, u) BY <1>5 DEF FromEnvironment, Uses
  <2>2. u \in Credential /\ u = Resolution /\ u.cred = "env" /\ u.cred \notin Profiles
    BY <1>1, <2>1, AuthFacts DEF Credential, Sources, Servers, Or, Resolution
  <2>3. task.lane # "client" => u.url = Home("env")
    BY <1>1, AuthFacts DEF Home, Or
  <2>. HIDE DEF u
  <2>4. u \in Rightful' BY <1>1, <1>2, <1>3, <2>2, <2>3 DEF Rightful, Home, Or
  <2>. QED BY <1>1, <2>1, <2>2, <2>4, ResolvedStep
<1>. QED BY <1>4, <1>5

\* Choosing a profile preserves the invariant: it is the resolution, or the file was edited.
LEMMA ProfileStep ==
  ASSUME AuthInv, FromProfile PROVE AuthInv'
<1>1. /\ AuthTypes /\ pc = "find" /\ task.lane # "mcp" /\ Explicit.key = None /\ ~env.key
      /\ Fallback(Named) \in creds.profiles
      /\ UNCHANGED <<fixed, creds, place, warned, edits>>
      /\ state \in Profiles \cup {None}
  BY DEF FromProfile, AuthInv, AuthTypes
<1>2. UNCHANGED <<env, dotfile, creds, task>> BY <1>1 DEF fixed
<1>3. /\ Named' = Named /\ (Requested' <=> Requested) /\ Resolution' = Resolution /\ Explicit' = Explicit
  BY <1>2 DEF Named, Requested, Resolution, Explicit, Config, Fallback, Or
<1>4. CASE Named = None
  <2>1. pc' = "ambiguous" /\ state' = creds.default /\ UNCHANGED used BY <1>4 DEF FromProfile
  <2>2. creds.default \in creds.profiles /\ creds.default \in Profiles BY <1>1, <1>4, AuthFacts
  <2>3. Checking' BY <1>1, <1>2, <1>3, <1>4, <2>1, <2>2 DEF Checking
  <2>. QED BY <1>1, <2>1, <2>2, <2>3, UnresolvedStep DEF AuthInv, Placed
<1>5. CASE Named # None
  <2>. DEFINE u == [cred |-> Fallback(Named), url |-> Or(Explicit.url, Fallback(Named))]
  <2>1. used' = Append(used, u) /\ pc' \in {"place", "done"} /\ state' = state
    BY <1>5 DEF FromProfile, Oauth, Uses, Resolved
  <2>2. /\ u \in Credential /\ u = Resolution /\ u.cred = Fallback(Named) /\ Fallback(Named) \in Profiles
        /\ Requested => u.cred = Named
    BY <1>1, <1>5, AuthFacts DEF Credential, Sources, Servers, Or, Resolution
  <2>3. task.lane # "client" => u.url = Home(u.cred)
    BY <1>1, <2>2, AuthFacts DEF Home, Or
  <2>. HIDE DEF u
  <2>4. u \in Rightful' BY <1>1, <1>2, <1>3, <1>5, <2>2, <2>3 DEF Rightful, Home, Or
  <2>. QED BY <1>1, <2>1, <2>2, <2>4, ResolvedStep
<1>. QED BY <1>4, <1>5

\* The check for several profiles preserves the invariant.
LEMMA AmbiguousStep ==
  ASSUME AuthInv, CheckAmbiguity PROVE AuthInv'
<1>1. /\ AuthTypes /\ pc = "ambiguous" /\ UNCHANGED <<fixed, creds, place, edits>>
      /\ task.lane # "mcp" /\ Explicit.key = None /\ ~env.key /\ Named = None /\ state \in Profiles
      /\ edits = 0 => state = creds.default /\ state \in creds.profiles
  BY DEF CheckAmbiguity, AuthInv, Checking
<1>2. UNCHANGED <<env, dotfile, creds, task>> BY <1>1 DEF fixed
<1>3. /\ Named' = Named /\ (Requested' <=> Requested) /\ Resolution' = Resolution
  BY <1>2 DEF Named, Requested, Resolution, Explicit, Config, Fallback, Or
<1>4. CASE Fails /\ UNCHANGED warned
  <2>1. Checking' BY <1>4 DEF Fails, Checking
  <2>. QED BY <1>1, <1>4, <2>1, UnresolvedStep DEF Fails, AuthInv, Placed
<1>5. CASE ~(Cardinality(creds.profiles) >= 2 /\ env.strict)
  <2>. DEFINE u == [cred |-> state, url |-> Or(Explicit.url, state)]
  <2>1. /\ used' = Append(used, u) /\ pc' \in {"place", "done"} /\ state' = None
        /\ warned \subseteq warned'
        /\ Cardinality(creds.profiles) >= 2 => state \in warned' /\ ~env.strict
    BY <1>5 DEF CheckAmbiguity, Oauth, Uses, Resolved
  <2>2. u \in Credential /\ u.cred = state /\ (edits = 0 => u = Resolution)
    BY <1>1, AuthFacts DEF Credential, Sources, Servers, Or, Resolution
  <2>3. task.lane # "client" => u.url = Home(state)
    BY <1>1, AuthFacts DEF Home, Or
  <2>. HIDE DEF u
  <2>4. ~Requested BY <1>1 DEF Requested
  <2>5. u \in Rightful' BY <1>1, <1>2, <1>3, <2>1, <2>2, <2>3, <2>4 DEF Rightful, Home, Or
  <2>. QED BY <1>1, <2>1, <2>2, <2>5, ResolvedStep
<1>. QED BY <1>4, <1>5 DEF CheckAmbiguity

\* Falling back to the configuration preserves the invariant.
LEMMA ConfigurationStep ==
  ASSUME AuthInv, FromConfig PROVE AuthInv'
<1>1. /\ AuthTypes /\ pc = "find" /\ task.lane # "mcp" /\ Explicit.key = None /\ ~env.key
      /\ Fallback(Named) \notin creds.profiles
      /\ UNCHANGED <<fixed, creds, place, warned, edits>>
      /\ state \in Profiles \cup {None}
  BY DEF FromConfig, AuthInv, AuthTypes
<1>2. UNCHANGED <<env, dotfile, creds, task>> BY <1>1 DEF fixed
<1>3. /\ Named' = Named /\ (Requested' <=> Requested) /\ Resolution' = Resolution
  BY <1>2 DEF Named, Requested, Resolution, Explicit, Config, Fallback, Or
<1>4. CASE Fails
  <2>1. Checking' BY <1>4 DEF Fails, Checking
  <2>. QED BY <1>1, <1>4, <2>1, UnresolvedStep DEF Fails, AuthInv, Placed
<1>5. CASE ~Fails /\ FromConfig
  <2>. DEFINE u == [cred |-> Config.key, url |-> Or(Explicit.url, Or(Config.url, Default))]
  <2>1. ~Requested /\ Config.key # None /\ used' = Append(used, u) /\ pc' \in {"place", "done"} /\ state' = state
    BY <1>5 DEF FromConfig, Uses, Resolved
  <2>2. u \in Credential /\ u = Resolution /\ u.cred = "dotfile" /\ u.cred \notin Profiles
    BY <1>1, <2>1, AuthFacts DEF Credential, Sources, Servers, Or, Resolution
  <2>3. task.lane # "client" => u.url = Home("dotfile")
    BY <1>1, <2>2, AuthFacts DEF Home, Or
  <2>. HIDE DEF u
  <2>4. u \in Rightful' BY <1>1, <1>2, <1>3, <2>1, <2>2, <2>3 DEF Rightful, Home, Or
  <2>. QED BY <1>1, <2>1, <2>2, <2>4, ResolvedStep
<1>. QED BY <1>4, <1>5

\* The credential of an MCP entry preserves the invariant.
LEMMA McpEntryStep ==
  ASSUME AuthInv, ForMcpEntry PROVE AuthInv'
<1>1. /\ AuthTypes /\ pc = "find" /\ task.lane = "mcp" /\ UNCHANGED <<fixed, creds, place, warned, edits>>
      /\ state \in Profiles \cup {None}
  BY DEF ForMcpEntry, AuthInv, AuthTypes
<1>2. UNCHANGED <<env, dotfile, creds, task>> BY <1>1 DEF fixed
<1>3. /\ Named' = Named /\ (Requested' <=> Requested) /\ Resolution' = Resolution
  BY <1>2 DEF Named, Requested, Resolution, Explicit, Config, Fallback, Or
<1>4. CASE Fails
  <2>1. Checking' BY <1>4 DEF Fails, Checking
  <2>. QED BY <1>1, <1>4, <2>1, UnresolvedStep DEF Fails, AuthInv, Placed
<1>5. CASE ~Fails
  <2>. DEFINE u == [cred |-> task.profile, url |-> task.profile]
  <2>1. used' = Append(used, u) /\ pc' \in {"place", "done"} /\ state' = state
    BY <1>5 DEF ForMcpEntry, Uses, Resolved
  <2>2. u \in Credential /\ u = Resolution /\ u.cred = task.profile /\ u.url = Home(u.cred) /\ Named # None
    BY <1>1, AuthFacts DEF Credential, Sources, Servers, Resolution, Home
  <2>. HIDE DEF u
  <2>3. u \in Rightful' BY <1>1, <1>2, <1>3, <2>2 DEF Rightful, Home, Or
  <2>. QED BY <1>1, <2>1, <2>2, <2>3, ResolvedStep
<1>. QED BY <1>4, <1>5

\* The choice of the workspace, and an upload's second client, preserve the invariant.
LEMMA PlaceStep ==
  ASSUME AuthInv, Place \/ Upload PROVE AuthInv'
<1>1. AuthTypes /\ UNCHANGED <<fixed, creds, state, used, warned, edits>> /\ state \in Profiles \cup {None}
      /\ used # <<>>
  BY DEF Place, Upload, AuthInv, AuthTypes, Placed
<1>2. CASE Place
  <2>1. pc' \in {"failed", "work", "done"} /\ place' \in {None, "given", used[1].cred}
    BY <1>2 DEF Place, WorkspaceOf
  <2>2. Checking' BY <2>1 DEF Checking
  <2>. QED BY <1>1, <2>1, <2>2, UnresolvedStep
<1>3. CASE Upload
  <2>1. pc' = "find" /\ place' = place BY <1>3 DEF Upload
  <2>2. Checking' BY <2>1 DEF Checking
  <2>. QED BY <1>1, <2>1, <2>2, UnresolvedStep DEF AuthInv, Placed
<1>. QED BY <1>2, <1>3

\* Another process edits the file: what was resolved stays what it was.
LEMMA EditingStep ==
  ASSUME AuthInv, Edit PROVE AuthInv'
<1>1. /\ AuthTypes /\ UNCHANGED <<fixed, pc, state, used, place, warned>> /\ edits' = edits + 1
      /\ edits' \in Nat /\ edits' # 0
  BY DEF Edit, AuthInv, AuthTypes
<1>2. creds' \in [profiles : SUBSET Profiles, default : Profiles \cup {None}]
  <2>1. PICK p \in Profiles :
         \/ p \in creds.profiles /\ p # creds.default /\ creds' = [creds EXCEPT !.default = p]
         \/ p \notin creds.profiles
              /\ creds' = [profiles |-> creds.profiles \cup {p}, default |-> Or(creds.default, p)]
         \/ p \in creds.profiles /\
              \E d \in (IF p # creds.default THEN {creds.default}
                        ELSE IF creds.profiles \ {p} = {} THEN {None} ELSE creds.profiles \ {p}) :
                creds' = [profiles |-> creds.profiles \ {p}, default |-> d]
    BY DEF Edit
  <2>2. creds \in [profiles : SUBSET Profiles, default : Profiles \cup {None}] /\ creds.profiles \subseteq Profiles
        /\ creds.default \in Profiles \cup {None}
    BY <1>1 DEF AuthTypes
  <2>3. CASE p \in creds.profiles /\ p # creds.default /\ creds' = [creds EXCEPT !.default = p] BY <2>2, <2>3
  <2>4. CASE p \notin creds.profiles
             /\ creds' = [profiles |-> creds.profiles \cup {p}, default |-> Or(creds.default, p)]
    <3>1. creds.profiles \cup {p} \in SUBSET Profiles /\ Or(creds.default, p) \in Profiles \cup {None}
      BY <2>2 DEF Or
    <3>. QED BY <2>4, <3>1
  <2>5. CASE \E d \in Profiles \cup {None} : creds' = [profiles |-> creds.profiles \ {p}, default |-> d]
    <3>1. creds.profiles \ {p} \in SUBSET Profiles BY <2>2
    <3>. QED BY <2>5, <3>1
  <2>. QED BY <2>1, <2>2, <2>3, <2>4, <2>5
<1>3. UNCHANGED <<env, dotfile, task>> BY <1>1 DEF fixed
<1>4. Named' = Named /\ (Requested' <=> Requested) /\ Explicit' = Explicit
  BY <1>3 DEF Named, Requested, Explicit, Config, Or
<1>5. AuthTypes' BY <1>1, <1>2, <1>3 DEF AuthTypes
<1>6. \A i \in DOMAIN used' : used'[i] \in Rightful'
  BY <1>1, <1>3, <1>4 DEF AuthInv, Rightful, Home, Or
<1>7. Checking' BY <1>1, <1>3, <1>4 DEF AuthInv, Checking
<1>8. Placed' BY <1>1 DEF AuthInv, Placed
<1>. QED BY <1>5, <1>6, <1>7, <1>8 DEF AuthInv

\* The inductive invariant of the resolution.
THEOREM AuthInductive == AuthSpec => []AuthInv
<1>1. AuthInit => AuthInv
  <2> SUFFICES ASSUME AuthInit PROVE AuthInv OBVIOUS
  <2>1. used = <<>> /\ pc = "find" /\ place = None /\ state = None /\ edits = 0 BY DEF AuthInit
  <2>2. creds \in [profiles : SUBSET Profiles, default : Profiles \cup {None}]
    <3>1. PICK s \in SUBSET Profiles : \E d \in (IF s = {} THEN {None} ELSE s) : creds = [profiles |-> s, default |-> d]
      BY DEF AuthInit
    <3>. QED BY <3>1
  <2>3. /\ env \in [key : BOOLEAN, url : {None, "env"}, profile : Profiles \cup {None, Blank}, strict : BOOLEAN]
        /\ dotfile \in [there : BOOLEAN, key : BOOLEAN, url : {None, "dotfile"}, context : BOOLEAN]
        /\ dotfile.there \/ (dotfile.key = FALSE /\ dotfile.url = None /\ dotfile.context = FALSE)
        /\ task \in [lane : Lanes, profile : Profiles \cup {None}, target : BOOLEAN]
        /\ task.lane = "mcp" => task.profile # None
    BY DEF AuthInit
  <2>. HIDE DEF AuthInit
  <2>4. AuthTypes BY <2>1, <2>2, <2>3 DEF AuthTypes
  <2>5. DOMAIN used = {} BY <2>1
  <2>. QED BY <2>1, <2>4, <2>5 DEF AuthInv, Checking, Placed
<1>2. AuthInv /\ [AuthNext]_authVars => AuthInv'
  <2> SUFFICES ASSUME AuthInv, [AuthNext]_authVars PROVE AuthInv' OBVIOUS
  <2>1. CASE FromArgument \/ FromEnvironment BY <2>1, ArgumentStep
  <2>2. CASE FromProfile BY <2>2, ProfileStep
  <2>3. CASE CheckAmbiguity BY <2>3, AmbiguousStep
  <2>4. CASE FromConfig BY <2>4, ConfigurationStep
  <2>5. CASE ForMcpEntry BY <2>5, McpEntryStep
  <2>6. CASE Place \/ Upload BY <2>6, PlaceStep
  <2>7. CASE Edit BY <2>7, EditingStep
  <2>8. CASE UNCHANGED authVars
    <3>1. UNCHANGED <<fixed, creds, state, used, warned, edits, place, pc, env, task, dotfile>>
      BY <2>8 DEF authVars, fixed
    <3>2. Checking' BY <3>1 DEF AuthInv, Checking, Explicit, Named, Config, Or
    <3>. QED BY <3>1, <3>2, UnresolvedStep DEF AuthInv, AuthTypes, Placed
  <2>. QED BY <2>1, <2>2, <2>3, <2>4, <2>5, <2>6, <2>7, <2>8 DEF AuthNext, AuthEnded
<1>. QED BY <1>1, <1>2, PTL DEF AuthSpec

\* A credential is sent only to the server of its own source, for any set of
\* profiles and any edits of the file meanwhile (_resolve_auth).
THEOREM KeysStayHome == AuthSpec => []SentHome
<1>1. AuthInv => SentHome BY DEF AuthInv, SentHome, Rightful
<1>. QED BY <1>1, AuthInductive, PTL

\* One command is one identity: its workspace is that of its credential, and
\* an upload and the memory of it have one author unless the file was edited
\* in between.
THEOREM TasksAreOne == AuthSpec => []OneIdentity
<1>1. AuthInv => OneIdentity
  <2> SUFFICES ASSUME AuthInv PROVE OneIdentity OBVIOUS
  <2>1. WorkspaceOfCredential BY DEF AuthInv, Placed, WorkspaceOfCredential
  <2>2. ASSUME Len(used) = 2, edits = 0 PROVE used[1] = used[2]
    <3>1. 1 \in DOMAIN used /\ 2 \in DOMAIN used BY <2>2 DEF AuthInv, AuthTypes
    <3>. QED BY <2>2, <3>1 DEF AuthInv, Rightful
  <2>. QED BY <2>1, <2>2 DEF OneIdentity, SameUploader
<1>. QED BY <1>1, AuthInductive, PTL

\* The profile that was asked for is the one used, and one nobody asked for is
\* announced when there are several, unless KAGURA_PROFILE is set and empty
\* (_resolve_auth, _check_profile_ambiguity).
THEOREM ProfilesAreNamed == AuthSpec => []NoSilentProfile
<1>1. AuthInv => NoSilentProfile
  BY DEF AuthInv, NoSilentProfile, ProfileNeverReplaced, NoSilentGuess, Rightful
<1>. QED BY <1>1, AuthInductive, PTL

-----------------------------------------------------------------------------
\* The course of one call.

Before == {"parse", "resolve", "read", "ask", "check"}

\* Before the answer nothing was carried out; an answer says whether it was;
\* what is on the wire is what the row and the input make it; and an end is
\* that of the answer.
CallInv ==
  /\ cmd \in Rows /\ given \in [DOMAIN cmd.opts -> Value]
  /\ phase \in Before \cup {"sent", "answered", "end"} /\ reply \in Replies /\ applied \in {0, 1}
  /\ reply \in {"ok", "unreadable", "partial"} => applied = 1
  /\ reply \in Refusals \cup {"unknown", "none"} => applied = 0
  /\ phase \in Before \cup {"sent"} => reply \in {"none", "unknown"}
  /\ phase # "end" => raised = "none"
  /\ phase \in {"sent", "answered"} \/ raised = "ok" => wire = Wire(cmd.method)
  /\ phase = "end" =>
       /\ raised = "ok" <=> reply = "ok" \/ (reply = "missing" /\ cmd.method = get_resource_schema)
       /\ raised \in {"UsageError", "Abort", "ValueError"} => reply \in {"none", "unknown"}
       /\ reply \in Refusals /\ raised # "ok" => raised = Raised(cmd.method.lane, reply)

\* What is on the wire depends on the call and what was left out.
LEMMA SameWire ==
  ASSUME UNCHANGED <<cmd, given, dropped>>
  PROVE Wire(cmd.method)' = Wire(cmd.method)
BY DEF Wire, Sent, Arg, Fed, Beaten, Unridden

\* The error of a refusal names its cause, on every lane.
LEMMA RefusalNamed ==
  ASSUME NEW lane \in {"tool", "get", "tags", "rest", "secret"}, NEW r \in Refusals
  PROVE /\ Raised(lane, r) \notin {"ok", "UsageError", "Abort", "ValueError"}
        /\ Raised(lane, r) = "KaguraAuthError" <=> r \in {"unauthorized", "scope"}
        /\ Raised(lane, r) = "KaguraNotFoundError" => r = "missing"
        /\ r \in {"throttled", "unavailable"} /\ lane # "secret" =>
             Raised(lane, r) \in {"KaguraRateLimitError", "KaguraQuotaError", "KaguraServiceUnavailableError"}
<1>1. DOMAIN GateError = {"feature", "quota", "capacity"} /\ \A g \in DOMAIN GateError : GateError[g] \in
        {"KaguraFeatureNotAvailableError", "KaguraQuotaError", "KaguraCapacityLockedError"}
  BY DEF GateError
<1>2. CASE lane = "tool" BY <1>1, <1>2 DEF Raised, RaisedByTool, Refusals
<1>3. CASE lane \in {"get", "tags"} BY <1>3 DEF Raised, RaisedByGet, Refusals
<1>4. CASE lane \in {"rest", "secret"} BY <1>1, <1>4 DEF Raised, RaisedByRest, Refusals
<1>. QED BY <1>2, <1>3, <1>4

\* Two other ends raise what a refusal would.
LEMMA OtherRaised ==
  ASSUME NEW lane \in {"tool", "get", "tags", "rest", "secret"}
  PROVE Raised(lane, "other") \notin {"ok", "UsageError", "Abort", "ValueError"}
BY RefusalNamed DEF Refusals

\* Every input gives each option a value.
LEMMA InputsAreValues ==
  ASSUME NEW c, NEW g \in Inputs(c) PROVE g \in [DOMAIN c.opts -> Value]
<1>. DEFINE Basis == [o \in DOMAIN c.opts |-> IF o \in c.need THEN "good" ELSE "unset"]
            Extras == UNION {kSubset(n, DOMAIN c.opts) : n \in 0 .. MaxExtra}
            Chosen(e, v) == [o \in DOMAIN c.opts |-> IF o \in e THEN v[o] ELSE Basis[o]]
            Offers(e) == {w \in [e -> Value] : \A o \in e : w[o] \in ClassesOf(c, o)}
<1>1. g \in UNION {{Chosen(e, v) : v \in Offers(e)} : e \in Extras} BY DEF Inputs
<1>. HIDE DEF Extras, Chosen, Offers
<1>2. PICK e \in Extras : g \in {Chosen(e, v) : v \in Offers(e)} BY <1>1
<1>3. PICK v \in Offers(e) : g = Chosen(e, v) BY <1>2
<1>4. v \in [e -> Value] BY <1>3 DEF Offers
<1>5. \A o \in DOMAIN c.opts : (IF o \in e THEN v[o] ELSE Basis[o]) \in Value BY <1>4 DEF Value
<1>. QED BY <1>3, <1>5 DEF Chosen

\* The call ends before there is an answer to it, or goes on to the next phase.
LEMMA UnansweredStep ==
  ASSUME CallInv, phase \in Before, UNCHANGED <<cmd, given, dropped, applied, reply>>,
         \/ phase' \in Before /\ UNCHANGED raised
         \/ \E how : how # "ok" /\ End(how)
         \/ phase' = "sent" /\ wire' = Wire(cmd.method) /\ UNCHANGED raised
  PROVE CallInv'
<1>1. /\ reply \in {"none", "unknown"} /\ raised = "none" /\ applied = 0 BY DEF CallInv, Before
<1>2. Wire(cmd.method)' = Wire(cmd.method) BY SameWire
<1>3. CASE phase' \in Before /\ UNCHANGED raised
  BY <1>1, <1>3 DEF CallInv, Before
<1>4. CASE \E how : how # "ok" /\ End(how)
  BY <1>1, <1>4 DEF CallInv, Before, End, Refusals
<1>5. CASE phase' = "sent" /\ wire' = Wire(cmd.method) /\ UNCHANGED raised
  BY <1>1, <1>2, <1>5 DEF CallInv, Before
<1>. QED BY <1>3, <1>4, <1>5

\* The inductive invariant of a call.
THEOREM CallInductive == CallSpec => []CallInv
<1>1. CallInit => CallInv
  BY InputsAreValues DEF CallInit, CallInv, Before, Replies, Refusals
<1>2. CallInv /\ [CallNext]_callVars => CallInv'
  <2> SUFFICES ASSUME CallInv, [CallNext]_callVars PROVE CallInv' OBVIOUS
  <2>0. cmd.method.lane \in {"tool", "get", "tags", "rest", "secret"} BY RowsAssumption DEF CallInv
  <2>1. CASE Parse
    BY <2>1, UnansweredStep DEF Parse, Before
  <2>2. CASE Resolve
    BY <2>2, UnansweredStep DEF Resolve, Before
  <2>3. CASE ReadFirst
    <3>1. \A r \in Refusals : Raised("tool", r) # "ok" BY RefusalNamed
    <3>. QED BY <2>3, <3>1, UnansweredStep DEF ReadFirst, Before
  <2>4. CASE Ask
    BY <2>4, UnansweredStep DEF Ask, Before
  <2>5. CASE Send
    BY <2>5, UnansweredStep DEF Send, Before
  <2>6. CASE Serve
    <3>1. /\ phase = "sent" /\ phase' = "answered" /\ UNCHANGED <<cmd, given, dropped, wire, raised>>
          /\ reply \in {"none", "unknown"} /\ applied = 0 /\ wire = Wire(cmd.method) /\ raised = "none"
      BY <2>6 DEF Serve, CallInv
    <3>2. Wire(cmd.method)' = Wire(cmd.method) BY <3>1, SameWire
    <3>3. \/ applied' = 1 /\ reply' \in {"ok", "unreadable", "lost", "partial"}
          \/ applied' = 0 /\ reply' \in Refusals \cup {"unknown", "lost"}
      BY <2>6, <3>1 DEF Serve
    <3>. QED BY <3>1, <3>2, <3>3 DEF CallInv, Before, Refusals, Replies
  <2>7. CASE Retry
    <3>1. /\ phase = "answered" /\ phase' = "check" /\ reply = "unknown"
          /\ UNCHANGED <<cmd, given, wire, applied, reply, raised>> /\ raised = "none"
      BY <2>7 DEF Retry, CallInv
    <3>. QED BY <3>1 DEF CallInv, Before
  <2>8. CASE Report
    <3>1. /\ phase = "answered" /\ phase' = "end" /\ UNCHANGED <<cmd, given, dropped, wire, applied, reply>>
          /\ wire = Wire(cmd.method)
      BY <2>8 DEF Report, End, CallInv
    <3>2. Wire(cmd.method)' = Wire(cmd.method) BY <3>1, SameWire
    <3>3. \/ reply = "ok" /\ raised' = "ok"
          \/ reply \in {"unreadable", "lost", "partial", "unknown"}
               /\ raised' \notin {"ok", "UsageError", "Abort", "ValueError"}
          \/ reply = "missing" /\ cmd.method = get_resource_schema /\ raised' = "ok"
          \/ /\ reply \in Refusals /\ (cmd.method = get_resource_schema => reply # "missing")
             /\ raised' = Raised(cmd.method.lane, reply)
      BY <2>0, <2>8, OtherRaised DEF Report, End
    <3>4. reply \in Refusals => Raised(cmd.method.lane, reply) \notin {"ok", "UsageError", "Abort", "ValueError"}
      BY <2>0, RefusalNamed
    <3>. QED BY <3>1, <3>2, <3>3, <3>4 DEF CallInv, Before, Refusals
  <2>9. CASE UNCHANGED callVars
    <3>1. UNCHANGED <<cmd, given, dropped, phase, wire, applied, reply, raised>> BY <2>9 DEF callVars
    <3>2. Wire(cmd.method)' = Wire(cmd.method) BY <3>1, SameWire
    <3>. QED BY <3>1, <3>2 DEF CallInv
  <2>. QED BY <2>1, <2>2, <2>3, <2>4, <2>5, <2>6, <2>7, <2>8, <2>9 DEF CallNext, CallEnded
<1>. QED BY <1>1, <1>2, PTL DEF CallSpec

\* The end of a call tells what happened on the server (Serve, Retry, Report).
THEOREM CallEndsTrue == CallSpec => []EndTellsTruth
<1>1. CallInv => EndTellsTruth
  <2> SUFFICES ASSUME CallInv PROVE EndTellsTruth OBVIOUS
  <2>1. cmd.method = get_resource_schema => ~Writes
    BY DEF Writes, get_resource_schema, Rest, Request
  <2>. QED BY <2>1 DEF EndTellsTruth, CallInv, Replies, Refusals
<1>. QED BY <1>1, CallInductive, PTL

\* The error a caller gets names its cause, on every lane and for every row
\* (_raise_for_tool_error, _raise_for_status and the clients' own mappings).
THEOREM CausesAreNamed == CallSpec => []CauseIsNamed
<1>1. CallInv => CauseIsNamed
  <2> SUFFICES ASSUME CallInv, phase = "end", reply \in Refusals
      PROVE /\ raised = "KaguraAuthError" <=> reply \in {"unauthorized", "scope"}
            /\ raised = "KaguraNotFoundError" => reply = "missing"
            /\ reply \in {"throttled", "unavailable"} /\ cmd.method.lane # "secret" =>
                 raised \in {"KaguraRateLimitError", "KaguraQuotaError", "KaguraServiceUnavailableError"}
    BY DEF CauseIsNamed
  <2>1. cmd.method.lane \in {"tool", "get", "tags", "rest", "secret"} BY RowsAssumption DEF CallInv
  <2>2. CASE raised = "ok"
    <3>1. reply = "missing" BY <2>2 DEF CallInv, Refusals
    <3>. QED BY <2>2, <3>1
  <2>3. CASE raised # "ok"
    <3>1. raised = Raised(cmd.method.lane, reply) BY <2>3 DEF CallInv
    <3>. QED BY <2>1, <3>1, RefusalNamed
  <2>. QED BY <2>2, <2>3
<1>. QED BY <1>1, CallInductive, PTL
===============================================================================
