---------------------------- MODULE IngestProofs ----------------------------
(***************************************************************************)
(* Proofs about ingesting a document, the upload of its original and the   *)
(* bulk import of events, for every number of uploads, sections, rows and  *)
(* requests at a time: how each ends is what its events, records and       *)
(* counts say.                                                             *)
(***************************************************************************)
EXTENDS Ingest, ResourceImport, FiniteSetTheorems, TLAPS

USE UploadAssumption DEF UploadAssumption
USE IngestAssumption DEF IngestAssumption
USE ImportAssumption DEF ImportAssumption

-----------------------------------------------------------------------------
\* Uploading a file.

Attempt == [pc : {"idle", "done", "failed"} \cup Running, flags : Flags,
            remember : BOOLEAN, logged : BOOLEAN, deduped : BOOLEAN, tries : 0 .. MaxTries]
Terminals == Seq([kind : {"success", "error"}, flags : Flags])
Reached == {"nothing", "reserved", "stored", "complete"}

\* Where an attempt is tells how far the server took it, and its flags.
Progress(p, m) ==
  /\ p.pc = "idle" => ~p.logged
  /\ p.pc \in {"prepare", "reserve"} => p.flags = NoFlags /\ m = "nothing"
  /\ p.pc = "put" => ~p.flags.uploaded /\ ~p.flags.confirm_started /\ ~p.flags.confirmed /\ m = "reserved"
  /\ p.pc = "confirm" => ~p.flags.confirm_started /\ ~p.flags.confirmed /\ m = "stored"

\* FlagsAreTrue and OneUploadEvent of one attempt.
TrueFlags(p, m, entry) ==
  /\ p.pc = "failed" /\ ~p.flags.confirm_started => m # "complete"
  /\ p.pc = "failed" /\ p.flags.uploaded /\ ~p.flags.confirmed => m \in {"stored", "complete"}
  /\ p.flags.confirmed \/ p.pc = "done" \/ p.pc = "remember" => entry = "complete"
OneEvent(p, e) ==
  p.logged =>
    /\ p.pc \in Running => e = <<>>
    /\ p.pc = "done" => Len(e) = 1 /\ e[1].kind = "success"
    /\ p.pc = "failed" => Len(e) = 1 /\ e[1].kind = "error"

Sound(p, e, m, entry) == Progress(p, m) /\ TrueFlags(p, m, entry) /\ OneEvent(p, e)

UploadInv == /\ UploadTypeOK
             /\ \A u \in Uploads : Sound(upload[u], events[u], mine[u], file.entry)

\* A stream grows, and the first of its events.
LEMMA StreamGrows ==
  ASSUME NEW S, NEW s \in Seq(S), NEW x \in S
  PROVE /\ Append(s, x) \in Seq(S)
        /\ s = <<>> => Len(Append(s, x)) = 1 /\ Append(s, x)[1] = x
<1>1. Append(s, x) \in Seq(S) OBVIOUS
<1>2. ASSUME s = <<>> PROVE Len(Append(s, x)) = 1 /\ Append(s, x)[1] = x
  <2>1. Len(s) = 0 BY <1>2
  <2>. QED BY <2>1
<1>. QED BY <1>1, <1>2

\* A complete entry stays.
KeptEntry == file.entry = "complete" => file'.entry = "complete"

\* One attempt changes, and the entry does not go back.
LEMMA AttemptChanged ==
  ASSUME UploadInv, NEW u \in Uploads,
         NEW p \in Attempt, NEW e \in Terminals, NEW m \in Reached,
         upload' = [upload EXCEPT ![u] = p],
         events' = [events EXCEPT ![u] = e],
         mine' = [mine EXCEPT ![u] = m],
         file' \in [entry : {"none", "pending", "complete"}, object : BOOLEAN, memories : Nat],
         KeptEntry, Sound(p, e, m, file'.entry)
  PROVE UploadInv' /\ KeptEntry
<1>1. /\ upload \in [Uploads -> Attempt] /\ events \in [Uploads -> Terminals] /\ mine \in [Uploads -> Reached]
  BY DEF UploadInv, UploadTypeOK, Attempt, Terminals, Reached
<1>2. /\ upload'[u] = p /\ events'[u] = e /\ mine'[u] = m
      /\ upload' \in [Uploads -> Attempt] /\ events' \in [Uploads -> Terminals]
      /\ mine' \in [Uploads -> Reached]
      /\ \A v \in Uploads \ {u} : upload'[v] = upload[v] /\ events'[v] = events[v] /\ mine'[v] = mine[v]
  BY <1>1
<1>3. UploadTypeOK' BY <1>2 DEF UploadTypeOK, Attempt, Terminals, Reached
<1>4. ASSUME NEW v \in Uploads PROVE Sound(upload'[v], events'[v], mine'[v], file'.entry)
  <2>1. CASE v = u BY <1>2, <2>1
  <2>2. CASE v # u
    <3>1. Sound(upload[v], events[v], mine[v], file.entry) BY DEF UploadInv
    <3>2. Sound(upload[v], events[v], mine[v], file'.entry)
      BY <3>1 DEF Sound, TrueFlags, KeptEntry
    <3>. QED BY <1>2, <2>2, <3>2
  <2>. QED BY <2>1, <2>2
<1>. QED BY <1>3, <1>4 DEF UploadInv

\* What is known of the attempt that takes a step.
LEMMA AttemptFacts ==
  ASSUME UploadInv, NEW u \in Uploads
  PROVE /\ upload[u] \in Attempt /\ upload[u].pc \in {"idle", "done", "failed"} \cup Running
        /\ upload[u].flags \in Flags
        /\ upload[u].remember \in BOOLEAN /\ upload[u].logged \in BOOLEAN
        /\ upload[u].tries \in 0 .. MaxTries
        /\ events[u] \in Terminals /\ mine[u] \in Reached
        /\ Sound(upload[u], events[u], mine[u], file.entry)
        /\ file.entry \in {"none", "pending", "complete"}
        /\ file.object \in BOOLEAN /\ file.memories \in Nat
        /\ mine = [mine EXCEPT ![u] = mine[u]]
        /\ events = [events EXCEPT ![u] = events[u]]
<1>1. /\ upload \in [Uploads -> Attempt] /\ events \in [Uploads -> Terminals] /\ mine \in [Uploads -> Reached]
      /\ file \in [entry : {"none", "pending", "complete"}, object : BOOLEAN, memories : Nat]
  BY DEF UploadInv, UploadTypeOK, Attempt, Terminals, Reached
<1>2. upload[u] \in Attempt BY <1>1
<1>3. /\ upload[u].pc \in {"idle", "done", "failed"} \cup Running
      /\ upload[u].flags \in Flags
      /\ upload[u].remember \in BOOLEAN /\ upload[u].logged \in BOOLEAN
      /\ upload[u].tries \in 0 .. MaxTries
  BY <1>2 DEF Attempt
<1>. QED BY <1>1, <1>2, <1>3 DEF UploadInv

\* The attempt fails, with one event that carries its flags.
LEMMA FailStep ==
  ASSUME UploadInv, NEW u \in Uploads, upload[u].pc \in Running,
         NEW flags \in Flags, NEW m \in Reached, Fail(u, flags),
         mine' = [mine EXCEPT ![u] = m],
         file' \in [entry : {"none", "pending", "complete"}, object : BOOLEAN, memories : Nat],
         KeptEntry,
         ~flags.confirm_started => m # "complete",
         flags.uploaded /\ ~flags.confirmed => m \in {"stored", "complete"},
         flags.confirmed => file'.entry = "complete"
  PROVE UploadInv' /\ KeptEntry
<1> DEFINE p == [upload[u] EXCEPT !.pc = "failed", !.flags = flags]
           e == IF upload[u].logged THEN Append(events[u], [kind |-> "error", flags |-> flags]) ELSE events[u]
<1>1. /\ upload[u] \in Attempt /\ events[u] \in Terminals
      /\ Sound(upload[u], events[u], mine[u], file.entry)
  BY AttemptFacts
<1>2. upload' = [upload EXCEPT ![u] = p] BY DEF Fail
<1>3. events' = [events EXCEPT ![u] = e] BY DEF Fail, Terminal
<1>4. p \in Attempt /\ p.pc = "failed" /\ p.flags = flags /\ p.logged = upload[u].logged
  BY <1>1 DEF Attempt
<1> DEFINE x == [kind |-> "error", flags |-> flags]
<1>11. x \in [kind : {"success", "error"}, flags : Flags] /\ x.kind = "error" OBVIOUS
<1>12. e = IF upload[u].logged THEN Append(events[u], x) ELSE events[u] OBVIOUS
<1> HIDE DEF x, e
<1>5. e \in Terminals BY <1>1, <1>11, <1>12, StreamGrows DEF Terminals
<1>6. upload[u].logged => Len(e) = 1 /\ e[1].kind = "error"
  <2>1. SUFFICES ASSUME upload[u].logged PROVE Len(e) = 1 /\ e[1].kind = "error" OBVIOUS
  <2>2. events[u] = <<>> /\ e = Append(events[u], x) BY <1>1, <1>12, <2>1 DEF Sound, OneEvent
  <2>. QED BY <1>1, <1>11, <2>2, StreamGrows DEF Terminals
<1> HIDE DEF p, e
<1>7. "failed" \notin Running BY DEF Running
<1>8. Progress(p, m) BY <1>4 DEF Progress
<1>9. TrueFlags(p, m, file'.entry) BY <1>4 DEF TrueFlags
<1>10. OneEvent(p, e) BY <1>4, <1>6, <1>7 DEF OneEvent
<1>. QED BY <1>2, <1>3, <1>4, <1>5, <1>8, <1>9, <1>10, AttemptChanged DEF Sound

\* The attempt goes on.
LEMMA AdvanceStep ==
  ASSUME UploadInv, NEW u \in Uploads, upload[u].pc \in Running,
         NEW pc \in Running \ {"remember"}, NEW flags \in Flags, NEW m \in Reached, Advance(u, pc, flags),
         mine' = [mine EXCEPT ![u] = m],
         file' \in [entry : {"none", "pending", "complete"}, object : BOOLEAN, memories : Nat],
         KeptEntry, ~flags.confirmed, ~flags.confirm_started,
         pc \in {"prepare", "reserve"} => flags = NoFlags /\ m = "nothing",
         pc = "put" => ~flags.uploaded /\ m = "reserved",
         pc = "confirm" => m = "stored"
  PROVE UploadInv' /\ KeptEntry
<1> DEFINE p == [upload[u] EXCEPT !.pc = pc, !.flags = flags]
           e == events[u]
<1>1. /\ upload[u] \in Attempt /\ e \in Terminals
      /\ Sound(upload[u], e, mine[u], file.entry)
      /\ events = [events EXCEPT ![u] = e]
  BY AttemptFacts
<1>2. upload' = [upload EXCEPT ![u] = p] /\ events' = [events EXCEPT ![u] = e] BY <1>1 DEF Advance
<1>3. p \in Attempt /\ p.pc = pc /\ p.flags = flags /\ p.logged = upload[u].logged
  BY <1>1 DEF Attempt
<1>4. upload[u].logged => e = <<>> BY <1>1 DEF Sound, OneEvent
<1> HIDE DEF p, e
<1>5. pc \in {"prepare", "reserve", "put", "confirm"} BY DEF Running
<1>6. Progress(p, m) BY <1>3, <1>5 DEF Progress
<1>7. TrueFlags(p, m, file'.entry) BY <1>3, <1>5 DEF TrueFlags
<1>8. OneEvent(p, e) BY <1>3, <1>4, <1>5 DEF OneEvent
<1>. QED BY <1>1, <1>2, <1>3, <1>6, <1>7, <1>8, AttemptChanged DEF Sound

\* The file is there: the attempt is done, or its memory is written next.
LEMMA SucceedStep ==
  ASSUME UploadInv, NEW u \in Uploads, upload[u].pc \in Running,
         NEW flags \in Flags, NEW m \in Reached, NEW deduped \in BOOLEAN, Succeed(u, flags, deduped),
         mine' = [mine EXCEPT ![u] = m],
         file' \in [entry : {"none", "pending", "complete"}, object : BOOLEAN, memories : Nat],
         file'.entry = "complete"
  PROVE UploadInv' /\ KeptEntry
<1> DEFINE pc == IF upload[u].remember THEN "remember" ELSE "done"
           p == [upload[u] EXCEPT !.pc = pc, !.flags = flags, !.deduped = deduped]
           e == IF upload[u].remember \/ ~upload[u].logged THEN events[u]
                ELSE Append(events[u], [kind |-> "success", flags |-> flags])
<1>1. /\ upload[u] \in Attempt /\ events[u] \in Terminals
      /\ upload[u].remember \in BOOLEAN /\ upload[u].logged \in BOOLEAN
      /\ Sound(upload[u], events[u], mine[u], file.entry)
      /\ events = [events EXCEPT ![u] = events[u]]
  BY AttemptFacts
<1>2. upload' = [upload EXCEPT ![u] = p] BY DEF Succeed
<1>3. events' = [events EXCEPT ![u] = e] BY <1>1 DEF Succeed, Terminal
<1>4. pc \in {"remember", "done"} /\ pc \in {"idle", "done", "failed"} \cup Running BY DEF Running
<1>5. p \in Attempt /\ p.pc = pc /\ p.flags = flags /\ p.logged = upload[u].logged
  <2> HIDE DEF pc
  <2>. QED BY <1>1, <1>4 DEF Attempt
<1> DEFINE x == [kind |-> "success", flags |-> flags]
<1>12. x \in [kind : {"success", "error"}, flags : Flags] /\ x.kind = "success" OBVIOUS
<1>13. e = IF upload[u].remember \/ ~upload[u].logged THEN events[u] ELSE Append(events[u], x) OBVIOUS
<1> HIDE DEF x, e
<1>6. e \in Terminals BY <1>1, <1>12, <1>13, StreamGrows DEF Terminals
<1>7. upload[u].logged =>
        IF upload[u].remember THEN e = <<>> ELSE Len(e) = 1 /\ e[1].kind = "success"
  <2>1. SUFFICES ASSUME upload[u].logged
                 PROVE IF upload[u].remember THEN e = <<>> ELSE Len(e) = 1 /\ e[1].kind = "success"
    OBVIOUS
  <2>2. events[u] = <<>> BY <1>1, <2>1 DEF Sound, OneEvent
  <2>3. CASE upload[u].remember BY <1>13, <2>2, <2>3
  <2>4. CASE ~upload[u].remember
    <3>1. e = Append(events[u], x) BY <1>13, <2>1, <2>4
    <3>. QED BY <1>1, <1>12, <2>2, <2>4, <3>1, StreamGrows DEF Terminals
  <2>. QED BY <2>3, <2>4
<1>8. upload[u].remember <=> pc = "remember" OBVIOUS
<1> HIDE DEF p, e, pc
<1>9. Progress(p, m) BY <1>4, <1>5 DEF Progress
<1>10. TrueFlags(p, m, file'.entry) BY <1>4, <1>5 DEF TrueFlags
<1>11. OneEvent(p, e)
  <2>1. "done" \notin Running BY DEF Running
  <2>. QED BY <1>4, <1>5, <1>7, <1>8, <2>1 DEF OneEvent
<1>. QED BY <1>2, <1>3, <1>5, <1>6, <1>9, <1>10, <1>11, AttemptChanged DEF Sound, KeptEntry

\* The flags an attempt has set.
LEMMA FlagSets ==
  ASSUME NEW f \in Flags
  PROVE /\ NoFlags \in Flags /\ ~NoFlags.uploaded /\ ~NoFlags.confirm_started /\ ~NoFlags.confirmed
        /\ [NoFlags EXCEPT !.reserved = TRUE] \in Flags
        /\ ~[NoFlags EXCEPT !.reserved = TRUE].uploaded
        /\ ~[NoFlags EXCEPT !.reserved = TRUE].confirm_started
        /\ ~[NoFlags EXCEPT !.reserved = TRUE].confirmed
        /\ [f EXCEPT !.uploaded = TRUE] \in Flags
        /\ [f EXCEPT !.uploaded = TRUE].confirm_started = f.confirm_started
        /\ [f EXCEPT !.uploaded = TRUE].confirmed = f.confirmed
        /\ [f EXCEPT !.confirm_started = TRUE] \in Flags
        /\ [f EXCEPT !.confirm_started = TRUE].confirm_started
        /\ [f EXCEPT !.confirm_started = TRUE].confirmed = f.confirmed
        /\ [f EXCEPT !.confirm_started = TRUE].uploaded = f.uploaded
        /\ [[f EXCEPT !.confirm_started = TRUE] EXCEPT !.confirmed = TRUE] \in Flags
BY DEF Flags, NoFlags

\* An attempt at the entry takes one step of its own.
LEMMA OwnStep ==
  ASSUME UploadInv, NEW u \in Uploads, UploadStep(u)
  PROVE UploadInv' /\ KeptEntry
<1> DEFINE f == upload[u].flags
           File == [entry : {"none", "pending", "complete"}, object : BOOLEAN, memories : Nat]
<1>1. /\ f \in Flags /\ mine[u] \in Reached
      /\ mine = [mine EXCEPT ![u] = mine[u]]
      /\ Sound(upload[u], events[u], mine[u], file.entry)
      /\ file.entry \in {"none", "pending", "complete"}
  BY AttemptFacts
<1>2. Progress(upload[u], mine[u]) /\ TrueFlags(upload[u], mine[u], file.entry) BY <1>1 DEF Sound
<1>3. file \in File BY DEF UploadInv, UploadTypeOK
<1>4. {"reserved", "stored", "complete"} \subseteq Reached BY DEF Reached
<1> HIDE DEF f
<1>5. CASE _prepare_source(u)
  <2>1. upload[u].pc = "prepare" /\ UNCHANGED <<file, mine>> BY <1>5 DEF _prepare_source, At
  <2>2. mine[u] = "nothing" /\ upload[u].pc \in Running /\ "reserve" \in Running \ {"remember"}
    BY <1>2, <2>1 DEF Progress, Running
  <2>3. mine' = [mine EXCEPT ![u] = mine[u]] /\ file' \in File /\ KeptEntry
    BY <1>1, <1>3, <2>1 DEF KeptEntry
  <2>4. /\ NoFlags \in Flags /\ ~NoFlags.uploaded /\ ~NoFlags.confirm_started /\ ~NoFlags.confirmed
    BY <1>1, FlagSets
  <2>5. CASE Advance(u, "reserve", NoFlags) BY <1>1, <2>2, <2>3, <2>4, <2>5, AdvanceStep
  <2>6. CASE Fail(u, NoFlags) BY <1>1, <2>2, <2>3, <2>4, <2>6, FailStep
  <2>. QED BY <1>5, <2>5, <2>6 DEF _prepare_source
<1>6. CASE Reserve(u)
  <2>1. upload[u].pc = "reserve" BY <1>6 DEF Reserve, At
  <2>2. mine[u] = "nothing" /\ upload[u].pc \in Running /\ "put" \in Running \ {"remember"}
    BY <1>2, <2>1 DEF Progress, Running
  <2>4. /\ NoFlags \in Flags /\ ~NoFlags.uploaded /\ ~NoFlags.confirm_started /\ ~NoFlags.confirmed
    BY <1>1, FlagSets
  <2>5. CASE /\ file.entry = "none"
             /\ file' = [file EXCEPT !.entry = "pending"]
             /\ mine' = [mine EXCEPT ![u] = "reserved"]
             /\ Advance(u, "put", [NoFlags EXCEPT !.reserved = TRUE]) \/ Fail(u, NoFlags)
    <3>1. file' \in File /\ KeptEntry BY <1>3, <2>5 DEF KeptEntry
    <3> DEFINE g == [NoFlags EXCEPT !.reserved = TRUE]
    <3>2. g \in Flags /\ ~g.uploaded /\ ~g.confirm_started /\ ~g.confirmed BY <1>1, FlagSets
    <3> HIDE DEF g
    <3>3. CASE Advance(u, "put", g) BY <1>4, <2>2, <2>5, <3>1, <3>2, <3>3, AdvanceStep
    <3>4. CASE Fail(u, NoFlags) BY <1>4, <2>2, <2>4, <2>5, <3>1, <3>4, FailStep
    <3>. QED BY <2>5, <3>3, <3>4 DEF g
  <2>6. CASE /\ file.entry = "complete"
             /\ Succeed(u, NoFlags, TRUE) \/ Fail(u, NoFlags)
             /\ UNCHANGED <<file, mine>>
    <3>1. mine' = [mine EXCEPT ![u] = mine[u]] /\ file' \in File /\ KeptEntry /\ file'.entry = "complete"
      BY <1>1, <1>3, <2>6 DEF KeptEntry
    <3>2. CASE Succeed(u, NoFlags, TRUE) BY <1>1, <2>2, <2>4, <3>1, <3>2, SucceedStep
    <3>3. CASE Fail(u, NoFlags) BY <1>1, <2>2, <2>4, <3>1, <3>3, FailStep
    <3>. QED BY <2>6, <3>2, <3>3
  <2>7. CASE Fail(u, NoFlags) /\ UNCHANGED <<file, mine>>
    <3>1. mine' = [mine EXCEPT ![u] = mine[u]] /\ file' \in File /\ KeptEntry
      BY <1>1, <1>3, <2>7 DEF KeptEntry
    <3>. QED BY <1>1, <2>2, <2>4, <2>7, <3>1, FailStep
  <2>. QED BY <1>6, <2>5, <2>6, <2>7 DEF Reserve
<1>7. CASE _put_to_object_store(u)
  <2>1. upload[u].pc = "put" BY <1>7 DEF _put_to_object_store, At
  <2>2. /\ ~f.uploaded /\ ~f.confirm_started /\ ~f.confirmed /\ mine[u] = "reserved"
        /\ upload[u].pc \in Running /\ "confirm" \in Running \ {"remember"}
    BY <1>2, <2>1 DEF Progress, Running, f
  <2>3. CASE /\ file' = [file EXCEPT !.object = TRUE]
             /\ mine' = [mine EXCEPT ![u] = "stored"]
             /\ Advance(u, "confirm", [f EXCEPT !.uploaded = TRUE]) \/ Fail(u, f)
    <3>1. file' \in File /\ KeptEntry BY <1>3, <2>3 DEF KeptEntry
    <3> DEFINE g == [f EXCEPT !.uploaded = TRUE]
    <3>2. g \in Flags /\ ~g.confirm_started /\ ~g.confirmed BY <1>1, <2>2, FlagSets
    <3> HIDE DEF g
    <3>3. CASE Advance(u, "confirm", g) BY <1>4, <2>2, <2>3, <3>1, <3>2, <3>3, AdvanceStep
    <3>4. CASE Fail(u, f) BY <1>1, <1>4, <2>2, <2>3, <3>1, <3>4, FailStep
    <3>. QED BY <2>3, <3>3, <3>4 DEF g
  <2>4. CASE Fail(u, f) /\ UNCHANGED <<file, mine>>
    <3>1. mine' = [mine EXCEPT ![u] = mine[u]] /\ file' \in File /\ KeptEntry
      BY <1>1, <1>3, <2>4 DEF KeptEntry
    <3>. QED BY <1>1, <2>2, <2>4, <3>1, FailStep
  <2>. QED BY <1>7, <2>3, <2>4 DEF _put_to_object_store, f
<1>8. CASE Confirm(u)
  <2> DEFINE sent == [f EXCEPT !.confirm_started = TRUE]
             all == [sent EXCEPT !.confirmed = TRUE]
  <2>1. upload[u].pc = "confirm" BY <1>8 DEF Confirm, At
  <2>2. ~f.confirmed /\ mine[u] = "stored" /\ upload[u].pc \in Running
    BY <1>2, <2>1 DEF Progress, Running, f
  <2>3. sent \in Flags /\ sent.confirm_started /\ ~sent.confirmed /\ all \in Flags
    BY <1>1, <2>2, FlagSets
  <2>4. \/ /\ file.entry = "pending"
           /\ file' = [file EXCEPT !.entry = "complete"]
           /\ mine' = [mine EXCEPT ![u] = "complete"]
           /\ Succeed(u, all, FALSE) \/ Fail(u, sent)
        \/ Fail(u, sent) /\ UNCHANGED <<file, mine>>
    BY <1>8 DEF Confirm, f
  <2> HIDE DEF all, sent
  <2>5. CASE /\ file.entry = "pending"
             /\ file' = [file EXCEPT !.entry = "complete"]
             /\ mine' = [mine EXCEPT ![u] = "complete"]
             /\ Succeed(u, all, FALSE) \/ Fail(u, sent)
    <3>1. file' \in File /\ KeptEntry /\ file'.entry = "complete" BY <1>3, <2>5 DEF KeptEntry
    <3>2. CASE Succeed(u, all, FALSE) BY <1>4, <2>2, <2>3, <2>5, <3>1, <3>2, SucceedStep
    <3>3. CASE Fail(u, sent) BY <1>4, <2>2, <2>3, <2>5, <3>1, <3>3, FailStep
    <3>. QED BY <2>5, <3>2, <3>3
  <2>6. CASE Fail(u, sent) /\ UNCHANGED <<file, mine>>
    <3>1. mine' = [mine EXCEPT ![u] = mine[u]] /\ file' \in File /\ KeptEntry
      BY <1>1, <1>3, <2>6 DEF KeptEntry
    <3>. QED BY <1>1, <2>2, <2>3, <2>6, <3>1, FailStep
  <2>. QED BY <2>4, <2>5, <2>6
<1>9. CASE CancelUpload(u)
  <2>1. /\ upload[u].pc \in {"prepare", "reserve", "put", "confirm"}
        /\ Fail(u, f) /\ UNCHANGED <<file, mine>>
    BY <1>9 DEF CancelUpload, f
  <2>2. mine' = [mine EXCEPT ![u] = mine[u]] /\ file' \in File /\ KeptEntry
    BY <1>1, <1>3, <2>1 DEF KeptEntry
  <2>3. /\ upload[u].pc \in Running
        /\ mine[u] # "complete" /\ ~f.confirmed /\ (f.uploaded => mine[u] = "stored")
    <3>1. upload[u].pc \in Running BY <2>1 DEF Running
    <3>2. CASE upload[u].pc \in {"prepare", "reserve"}
      <4>1. f = NoFlags /\ mine[u] = "nothing" BY <1>2, <3>2 DEF Progress, f
      <4>2. ~f.confirmed /\ ~f.uploaded BY <1>1, <4>1, FlagSets
      <4>. QED BY <3>1, <4>1, <4>2
    <3>3. CASE upload[u].pc \in {"put", "confirm"}
      BY <1>2, <3>1, <3>3 DEF Progress, f
    <3>. QED BY <2>1, <3>2, <3>3
  <2>. QED BY <1>1, <2>1, <2>2, <2>3, FailStep
<1>10. CASE _remember_file_object(u)
  <2> DEFINE all == [g \in DOMAIN NoFlags |-> TRUE]
  <2>1. upload[u].pc = "remember" /\ upload[u].pc \in Running /\ file.entry = "complete"
    BY <1>2, <1>10 DEF _remember_file_object, At, TrueFlags, Running
  <2>2. all \in Flags /\ all.confirm_started /\ all.confirmed
    <3>1. DOMAIN NoFlags = {"reserved", "uploaded", "confirm_started", "confirmed"} BY DEF NoFlags
    <3>2. all = [g \in {"reserved", "uploaded", "confirm_started", "confirmed"} |-> TRUE] BY <3>1
    <3>3. /\ all.reserved = TRUE /\ all.uploaded = TRUE
          /\ all.confirm_started = TRUE /\ all.confirmed = TRUE
      BY <3>2
    <3> DEFINE r == [reserved |-> TRUE, uploaded |-> TRUE, confirm_started |-> TRUE, confirmed |-> TRUE]
    <3>4. DOMAIN r = {"reserved", "uploaded", "confirm_started", "confirmed"}
          /\ \A g \in DOMAIN r : r[g] = TRUE
      OBVIOUS
    <3>5. r \in Flags BY DEF Flags
    <3>6. r = [g \in DOMAIN r |-> r[g]] OBVIOUS
    <3> HIDE DEF r, all
    <3>7. all = r BY <3>2, <3>4, <3>6
    <3>. QED BY <3>3, <3>5, <3>7
  <2>3. /\ UNCHANGED mine
        /\ \/ /\ file' = [file EXCEPT !.memories = 1]
              /\ \/ /\ upload' = [upload EXCEPT ![u].pc = "done"]
                    /\ Terminal(u, "success", upload[u].flags)
                 \/ Fail(u, all)
           \/ Fail(u, all) /\ UNCHANGED file
    BY <1>10 DEF _remember_file_object
  <2> HIDE DEF all
  <2>4. mine' = [mine EXCEPT ![u] = mine[u]] /\ file' \in File /\ KeptEntry /\ file'.entry = "complete"
    BY <1>1, <1>3, <2>1, <2>3 DEF KeptEntry
  <2>5. CASE Fail(u, all) BY <1>1, <2>1, <2>2, <2>4, <2>5, FailStep
  <2>6. CASE upload' = [upload EXCEPT ![u].pc = "done"] /\ Terminal(u, "success", upload[u].flags)
    <3> DEFINE p == [upload[u] EXCEPT !.pc = "done"]
               x == [kind |-> "success", flags |-> upload[u].flags]
               e == IF upload[u].logged THEN Append(events[u], x) ELSE events[u]
    <3>1. /\ upload[u] \in Attempt /\ events[u] \in Terminals /\ upload[u].flags \in Flags
          /\ (upload[u].logged => events[u] = <<>>)
      BY <2>1, AttemptFacts DEF Sound, OneEvent
    <3>2. upload' = [upload EXCEPT ![u] = p] /\ events' = [events EXCEPT ![u] = e]
      BY <2>6 DEF Terminal
    <3>3. /\ p \in Attempt /\ p.pc = "done" /\ p.flags = upload[u].flags /\ p.logged = upload[u].logged
          /\ x \in [kind : {"success", "error"}, flags : Flags] /\ x.kind = "success"
      BY <3>1 DEF Attempt
    <3>4. e = IF upload[u].logged THEN Append(events[u], x) ELSE events[u] OBVIOUS
    <3> HIDE DEF p, x, e
    <3>8. Append(events[u], x) \in Terminals BY <3>1, <3>3, StreamGrows DEF Terminals
    <3>9. e \in Terminals BY <3>1, <3>4, <3>8
    <3>10. upload[u].logged => Len(e) = 1 /\ e[1] = x
      BY <3>1, <3>3, <3>4, StreamGrows DEF Terminals
    <3>5. e \in Terminals /\ (upload[u].logged => Len(e) = 1 /\ e[1].kind = "success")
      BY <3>3, <3>9, <3>10
    <3>6. Progress(p, mine[u]) /\ TrueFlags(p, mine[u], file'.entry) BY <2>4, <3>3 DEF Progress, TrueFlags
    <3>7. OneEvent(p, e) BY <3>3, <3>5 DEF OneEvent, Running
    <3>. QED BY <1>1, <2>4, <3>2, <3>3, <3>5, <3>6, <3>7, AttemptChanged DEF Sound
  <2>. QED BY <2>3, <2>5, <2>6
<1>. QED BY <1>5, <1>6, <1>7, <1>8, <1>9, <1>10 DEF UploadStep

\* A first attempt, or another one.
LEMMA StartStep ==
  ASSUME UploadInv, NEW u \in Uploads, NEW r \in BOOLEAN, NEW l \in BOOLEAN, StartUpload(u, r, l)
  PROVE UploadInv' /\ KeptEntry
<1> DEFINE p == [pc |-> "prepare", flags |-> NoFlags, remember |-> r,
                 logged |-> l, deduped |-> FALSE, tries |-> upload[u].tries + 1]
<1>1. /\ upload[u].tries \in 0 .. MaxTries /\ upload[u].tries < MaxTries
      /\ upload' = [upload EXCEPT ![u] = p]
      /\ events' = [events EXCEPT ![u] = <<>>]
      /\ mine' = [mine EXCEPT ![u] = "nothing"]
      /\ file' = file
  BY AttemptFacts DEF StartUpload
<1>2. NoFlags \in Flags /\ ~NoFlags.confirmed BY DEF NoFlags, Flags
<1>3. p \in Attempt /\ p.pc = "prepare" /\ p.flags = NoFlags
  BY <1>1, <1>2 DEF Attempt, Running
<1> HIDE DEF p
<1>4. <<>> \in Terminals /\ "nothing" \in Reached BY DEF Terminals, Reached
<1>5. Progress(p, "nothing") /\ TrueFlags(p, "nothing", file'.entry) /\ OneEvent(p, <<>>)
  BY <1>2, <1>3 DEF Progress, TrueFlags, OneEvent
<1>6. file' \in [entry : {"none", "pending", "complete"}, object : BOOLEAN, memories : Nat] /\ KeptEntry
  BY <1>1 DEF UploadInv, UploadTypeOK, KeptEntry
<1>. QED BY <1>1, <1>3, <1>4, <1>5, <1>6, AttemptChanged DEF Sound

\* The server drops an entry.
LEMMA ExpireStep ==
  ASSUME UploadInv, Expire
  PROVE UploadInv' /\ KeptEntry
<1>1. /\ file.entry = "pending" /\ UNCHANGED <<upload, events, mine>>
      /\ file' = [file EXCEPT !.entry = "none", !.object = FALSE]
  BY DEF Expire
<1>2. UploadTypeOK' BY <1>1 DEF UploadInv, UploadTypeOK
<1>3. ASSUME NEW u \in Uploads PROVE Sound(upload[u], events[u], mine[u], file'.entry)
  BY <1>1 DEF UploadInv, Sound, TrueFlags
<1>. QED BY <1>1, <1>2, <1>3 DEF UploadInv, KeptEntry

\* Whatever is done to the uploads: the invariant holds on, and a complete
\* entry stays.
LEMMA UploadsKept ==
  ASSUME UploadInv,
         \/ UNCHANGED uploadVars
         \/ \E u \in Uploads : UploadStep(u)
         \/ \E u \in Uploads, r, l \in BOOLEAN : StartUpload(u, r, l)
         \/ Expire
  PROVE UploadInv' /\ KeptEntry
<1>1. CASE UNCHANGED uploadVars
  BY <1>1 DEF uploadVars, UploadInv, UploadTypeOK, KeptEntry
<1>. QED BY <1>1, OwnStep, StartStep, ExpireStep

\* The invariant of the uploads holds initially.
LEMMA UploadStart == UploadInit => UploadInv
<1> SUFFICES ASSUME UploadInit PROVE UploadInv OBVIOUS
<1>1. NoFlags \in Flags /\ ~NoFlags.confirmed BY DEF NoFlags, Flags
<1>2. UploadTypeOK BY <1>1 DEF UploadInit, UploadTypeOK
<1>3. ASSUME NEW u \in Uploads PROVE Sound(upload[u], events[u], mine[u], file.entry)
  BY <1>1 DEF UploadInit, Sound, Progress, TrueFlags, OneEvent, Running
<1>. QED BY <1>2, <1>3 DEF UploadInv

\* FlagsAreTrue and OneUploadEvent are what Sound says of every attempt.
LEMMA UploadPromises == UploadInv => FlagsAreTrue /\ OneUploadEvent
BY DEF UploadInv, Sound, TrueFlags, OneEvent, FlagsAreTrue, OneUploadEvent, At

-----------------------------------------------------------------------------
\* Ingesting a document.

IngestState == [pc : Phases, fetched : BOOLEAN, archiving : BOOLEAN, stamped : BOOLEAN, overview : BOOLEAN,
                stop : BOOLEAN, dry : BOOLEAN, exit : {"none", "0", "1"}]
Early == {"start", "fetch", "extract"}
Middle == {"summarize", "overview", "collect", "remember"}
Ended == {"returned", "raised", "exited"}
Settled == {"blank", "written", "unwritten", "refused"}

\* What the ingest has and has not done where it is.
Course(g, kept) ==
  /\ g.pc \in Early \cup Middle => ~g.overview /\ kept = {}
  /\ g.pc \in Early => ~g.archiving
  /\ g.pc \in Middle \cup {"start", "sections"} => ~g.dry
  /\ g.pc = "sections" => g.overview
  /\ g.dry => kept = {} /\ ~g.overview /\ ~g.archiving
  /\ g.exit = "none" <=> g.pc # "exited"

\* The stream: nothing before the end, and then what the end was.
Closed(g, told) ==
  /\ g.pc \notin Ended \/ g.dry => told = <<>>
  /\ ~g.dry /\ g.pc = "returned" => told = IF g.overview THEN <<"success">> ELSE <<"error">>
  /\ ~g.dry /\ g.pc = "raised" => told = IF g.fetched THEN <<"error">> ELSE <<>>
  /\ ~g.dry /\ g.exit = "0" => told = <<"success">>
  /\ ~g.dry /\ g.exit = "1" => told \in {<<>>, <<"error">>}

\* The archived file is in the overview or its failure among the records.
Archived(g, records, entry) ==
  /\ g.stamped => entry = "complete"
  /\ g.pc \notin {"remember", "sections"} \cup Ended => ~g.stamped /\ <<"archive", None>> \notin records
  /\ g.pc \in {"remember", "sections", "returned"} /\ g.archiving =>
       (g.stamped <=> <<"archive", None>> \notin records)

\* The records of a section are what became of it.
RecordsOf(s) == {r \in errors : r[2] = s}
Recorded(s) ==
  /\ section[s] \in {"todo", "summing", "summed", "sending", "written"} => RecordsOf(s) = {}
  /\ section[s] = "blank" => RecordsOf(s) = {<<"summarize", s>>}
  /\ section[s] \in {"unwritten", "refused"} => RecordsOf(s) = {<<"remember", s>>}
  /\ section[s] = "written" => s \in stored

\* Where a section can be.
Placed(g, at, told) ==
  /\ g.pc \in Early => at = "todo"
  /\ g.pc = "summarize" => at \in {"todo", "summing", "summed", "blank"}
  /\ g.pc \in {"overview", "collect", "remember"} => at \in {"summed", "blank"}
  /\ g.pc = "sections" => at \notin {"todo", "summing"}
  /\ told = <<"success">> => at \in Settled

\* The requests under way and the refused ones are no more than run at once.
Sent == {s \in Sections : section[s] \in {"sending", "refused"}}
Bounded == /\ Cardinality(Sent) <= Concurrency
           /\ ~ingest.stop => \A s \in Sections : section[s] # "refused"

IngestInv == /\ IngestTypeOK
             /\ Course(ingest, stored)
             /\ Closed(ingest, stream)
             /\ Archived(ingest, errors, file.entry)
             /\ \A s \in Sections : Recorded(s) /\ Placed(ingest, section[s], stream)
             /\ Bounded

\* The ingestor moves on, perhaps with a record that names no section.
LEMMA MoveStep ==
  ASSUME IngestInv, NEW g \in IngestState, ingest' = g, g.stop = ingest.stop,
         UNCHANGED <<section, stored>>, full' \in BOOLEAN,
         stream' \in Seq({"success", "error"}),
         \/ errors' = errors
         \/ \E st \in {"fetch", "extract", "summarize", "archive", "remember"} :
              errors' = errors \cup {<<st, None>>},
         Course(g, stored), Closed(g, stream'), Archived(g, errors', file'.entry),
         \A s \in Sections : Placed(g, section[s], stream')
  PROVE IngestInv'
<1>1. IngestTypeOK' BY DEF IngestInv, IngestTypeOK, IngestState
<1>2. ASSUME NEW s \in Sections PROVE Recorded(s)'
  <2>1. RecordsOf(s)' = RecordsOf(s)
    <3>1. ASSUME NEW st, errors' = errors \cup {<<st, None>>} PROVE RecordsOf(s)' = RecordsOf(s)
      <4>1. <<st, None>>[2] # s OBVIOUS
      <4>. QED BY <3>1, <4>1 DEF RecordsOf
    <3>. QED BY <3>1 DEF RecordsOf
  <2>. QED BY <2>1 DEF IngestInv, Recorded
<1>3. Bounded' BY DEF IngestInv, Bounded, Sent
<1>. QED BY <1>1, <1>2, <1>3 DEF IngestInv

\* A section changes, and perhaps the memory or the record it leaves.
LEMMA SectionStep ==
  ASSUME IngestInv, NEW s \in Sections, NEW at \in SectionPc,
         section' = [section EXCEPT ![s] = at],
         NEW g \in IngestState, ingest' = g, g = [ingest EXCEPT !.stop = g.stop],
         ingest.stop => g.stop,
         ingest.pc \in {"summarize", "sections"}, ~ingest.dry,
         section[s] \notin Settled,
         UNCHANGED <<full, stream>>, KeptEntry,
         stored' = stored \/ (ingest.pc = "sections" /\ stored' = stored \cup {s}),
         at = "written" => s \in stored',
         \/ at \in {"todo", "summing", "summed", "sending", "written"} /\ errors' = errors
         \/ at = "blank" /\ errors' = errors \cup {<<"summarize", s>>}
         \/ at \in {"unwritten", "refused"} /\ errors' = errors \cup {<<"remember", s>>},
         Placed(g, at, stream),
         Cardinality(Sent') <= Concurrency,
         at = "refused" => g.stop
  PROVE IngestInv'
<1> USE DEF IngestInv
<1>1. /\ section \in [Sections -> SectionPc] /\ ingest \in IngestState
      /\ stored \subseteq Sections
      /\ errors \subseteq {"fetch", "extract", "summarize", "archive", "remember"} \X (Sections \cup {None})
      /\ stream \in Seq({"success", "error"})
  BY DEF IngestTypeOK, IngestState
<1>2. /\ section' \in [Sections -> SectionPc] /\ section'[s] = at
      /\ \A d \in Sections \ {s} : section'[d] = section[d]
  BY <1>1
<1>3. /\ g.pc = ingest.pc /\ g.fetched = ingest.fetched /\ g.archiving = ingest.archiving
      /\ g.stamped = ingest.stamped /\ g.overview = ingest.overview /\ g.dry = ingest.dry
      /\ g.exit = ingest.exit
  <2> DEFINE x == g.stop
  <2>1. g = [ingest EXCEPT !.stop = x] OBVIOUS
  <2> HIDE DEF x
  <2>. QED BY <1>1, <2>1 DEF IngestState
<1>4. IngestTypeOK' BY <1>1, <1>2 DEF IngestTypeOK, IngestState
<1>5. Course(g, stored')
  <2>1. g.pc \in {"summarize", "sections"} /\ ~g.dry BY <1>3
  <2>2. Course(ingest, stored) OBVIOUS
  <2>. QED BY <1>3, <2>1, <2>2 DEF Course, Early, Middle
<1>6. Closed(g, stream') BY <1>3 DEF Closed
<1>7. Archived(g, errors', file'.entry)
  <2>1. <<"archive", None>> \in errors' <=> <<"archive", None>> \in errors
    <3>1. <<"archive", None>> # <<"summarize", s>> /\ <<"archive", None>> # <<"remember", s>> OBVIOUS
    <3>. QED BY <3>1
  <2>2. Archived(ingest, errors, file.entry) OBVIOUS
  <2>. QED BY <1>3, <2>1, <2>2 DEF Archived, KeptEntry
<1>8. ASSUME NEW d \in Sections PROVE Recorded(d)' /\ Placed(g, section'[d], stream')
  <2>0. Recorded(d) /\ Placed(ingest, section[d], stream) OBVIOUS
  <2>1. CASE d = s
    <3>1. RecordsOf(s) = {}
      <4>1. section[s] \in SectionPc BY <1>1
      <4>. QED BY <2>0, <2>1, <4>1 DEF Recorded, Settled, SectionPc
    <3>2. ASSUME errors' = errors PROVE RecordsOf(s)' = {} BY <3>1, <3>2 DEF RecordsOf
    <3>3. ASSUME NEW st, errors' = errors \cup {<<st, s>>} PROVE RecordsOf(s)' = {<<st, s>>}
      BY <3>1, <3>3 DEF RecordsOf
    <3>. QED BY <1>2, <2>1, <3>2, <3>3 DEF Recorded
  <2>2. CASE d # s
    <3>1. RecordsOf(d)' = RecordsOf(d)
      <4>1. ASSUME NEW st, errors' = errors \cup {<<st, s>>} PROVE RecordsOf(d)' = RecordsOf(d)
        <5>1. <<st, s>>[2] # d BY <2>2
        <5>. QED BY <4>1, <5>1 DEF RecordsOf
      <4>2. ASSUME errors' = errors PROVE RecordsOf(d)' = RecordsOf(d) BY <4>2 DEF RecordsOf
      <4>. QED BY <4>1, <4>2
    <3>2. Recorded(d)' BY <1>2, <2>0, <2>2, <3>1 DEF Recorded
    <3>3. Placed(g, section'[d], stream') BY <1>2, <1>3, <2>0, <2>2 DEF Placed
    <3>. QED BY <3>2, <3>3
  <2>. QED BY <2>1, <2>2
<1>9. Bounded' BY <1>2 DEF Bounded
<1>. QED BY <1>4, <1>5, <1>6, <1>7, <1>8, <1>9

\* The ingestor's fields.
LEMMA IngestFacts ==
  ASSUME IngestInv
  PROVE /\ ingest \in IngestState /\ ingest.pc \in Phases
        /\ ingest.fetched \in BOOLEAN /\ ingest.archiving \in BOOLEAN /\ ingest.stamped \in BOOLEAN
        /\ ingest.overview \in BOOLEAN /\ ingest.stop \in BOOLEAN /\ ingest.dry \in BOOLEAN
        /\ ingest.exit \in {"none", "0", "1"}
        /\ section \in [Sections -> SectionPc] /\ full \in BOOLEAN
        /\ stream \in Seq({"success", "error"})
        /\ Course(ingest, stored) /\ Closed(ingest, stream) /\ Archived(ingest, errors, file.entry)
        /\ \A s \in Sections : Placed(ingest, section[s], stream)
BY DEF IngestInv, IngestTypeOK, IngestState

\* It moves to another phase.
LEMMA PhaseFields ==
  ASSUME IngestInv, NEW pc \in Phases
  PROVE LET g == [ingest EXCEPT !.pc = pc] IN
        /\ g \in IngestState /\ g.pc = pc
        /\ g.fetched = ingest.fetched /\ g.archiving = ingest.archiving /\ g.stamped = ingest.stamped
        /\ g.overview = ingest.overview /\ g.stop = ingest.stop /\ g.dry = ingest.dry
        /\ g.exit = ingest.exit
BY DEF IngestInv, IngestTypeOK, IngestState

\* It returns its result, and closes the stream.
LEMMA ReturnStep ==
  ASSUME IngestInv, ingest.pc \in {"fetch", "extract", "remember", "sections"}, Return,
         UNCHANGED <<section, stored, full, uploadVars>>,
         \/ errors' = errors
         \/ \E st \in {"fetch", "extract", "summarize", "remember"} : errors' = errors \cup {<<st, None>>},
         ingest.pc = "sections" => \A s \in Sections : section[s] \in Settled
  PROVE IngestInv'
<1> DEFINE g == [ingest EXCEPT !.pc = "returned"]
           kind == IF ingest.overview THEN "success" ELSE "error"
<1>1. /\ g \in IngestState /\ g.pc = "returned"
      /\ g.archiving = ingest.archiving /\ g.stamped = ingest.stamped
      /\ g.overview = ingest.overview /\ g.stop = ingest.stop /\ g.dry = ingest.dry
      /\ g.exit = ingest.exit
  BY PhaseFields DEF Phases
<1>2. ingest' = g /\ stream' = IF ingest.dry THEN stream ELSE Append(stream, kind)
  BY DEF Return, Close
<1>3. /\ Course(ingest, stored) /\ Closed(ingest, stream) /\ Archived(ingest, errors, file.entry)
      /\ full \in BOOLEAN /\ file' = file /\ kind \in {"success", "error"}
      /\ ingest.overview \in BOOLEAN /\ ingest.dry \in BOOLEAN
  BY IngestFacts DEF uploadVars
<1>4. stream = <<>> BY <1>3 DEF Closed, Ended
<1>5. stream' = IF ingest.dry THEN <<>> ELSE IF ingest.overview THEN <<"success">> ELSE <<"error">>
  BY <1>2, <1>3, <1>4
<1>6. stream' \in Seq({"success", "error"})
  <2>1. /\ <<>> \in Seq({"success", "error"})
        /\ <<"success">> \in Seq({"success", "error"}) /\ <<"error">> \in Seq({"success", "error"})
    OBVIOUS
  <2>2. stream' \in {<<>>, <<"success">>, <<"error">>} BY <1>5, Zenon
  <2>. QED BY <2>1, <2>2
<1> HIDE DEF g, kind
<1>7. Course(g, stored) BY <1>1, <1>3 DEF Course, Early, Middle
<1>8. Closed(g, stream')
  <2>1. g.exit = "none" BY <1>1, <1>3 DEF Course
  <2>. QED BY <1>1, <1>3, <1>5, <2>1 DEF Closed, Ended
<1>9. Archived(g, errors', file'.entry)
  <2>1. <<"archive", None>> \in errors' <=> <<"archive", None>> \in errors OBVIOUS
  <2>2. g.archiving => ingest.pc \in {"remember", "sections"} BY <1>1, <1>3 DEF Course, Early
  <2>. QED BY <1>1, <1>3, <2>1, <2>2 DEF Archived, Ended
<1>10. ASSUME NEW s \in Sections PROVE Placed(g, section[s], stream')
  <2>1. stream' = <<"success">> => ingest.overview
    <3>1. <<>> # <<"success">> /\ <<"error">> # <<"success">> OBVIOUS
    <3>. QED BY <1>5, <3>1
  <2>2. ingest.overview => ingest.pc = "sections" BY <1>3 DEF Course, Early, Middle
  <2>. QED BY <1>1, <2>1, <2>2 DEF Placed, Early
<1>. QED BY <1>1, <1>2, <1>3, <1>6, <1>7, <1>8, <1>9, <1>10, MoveStep

\* An error nothing expects, or Ctrl-C.
LEMMA RaiseStep ==
  ASSUME IngestInv, IngestRaises
  PROVE IngestInv'
<1> DEFINE g == [ingest EXCEPT !.pc = "raised"]
<1>1. /\ g \in IngestState /\ g.pc = "raised"
      /\ g.fetched = ingest.fetched /\ g.archiving = ingest.archiving /\ g.stamped = ingest.stamped
      /\ g.overview = ingest.overview /\ g.stop = ingest.stop /\ g.dry = ingest.dry
      /\ g.exit = ingest.exit
  BY PhaseFields DEF Phases
<1>2. /\ ingest' = g /\ UNCHANGED <<section, errors, stored, full, uploadVars>>
      /\ stream' = IF ingest.dry \/ ~ingest.fetched THEN stream ELSE Append(stream, "error")
      /\ ingest.pc \notin Ended
  BY IngestFacts DEF IngestRaises, Raise, Close, Enter, Phases, Ended
<1>3. /\ Course(ingest, stored) /\ Closed(ingest, stream) /\ Archived(ingest, errors, file.entry)
      /\ full \in BOOLEAN /\ file' = file
      /\ ingest.fetched \in BOOLEAN /\ ingest.dry \in BOOLEAN
  BY <1>2, IngestFacts DEF uploadVars
<1>4. stream = <<>> BY <1>2, <1>3 DEF Closed
<1>5. stream' = IF ingest.dry \/ ~ingest.fetched THEN <<>> ELSE <<"error">> BY <1>2, <1>3, <1>4
<1>6. stream' \in Seq({"success", "error"})
  <2>1. <<>> \in Seq({"success", "error"}) /\ <<"error">> \in Seq({"success", "error"}) OBVIOUS
  <2>2. stream' = <<>> \/ stream' = <<"error">> BY <1>5, Zenon
  <2>. QED BY <2>1, <2>2
<1> HIDE DEF g
<1>7. Course(g, stored)
  <2>1. ingest.exit = "none" BY <1>2, <1>3 DEF Course, Ended
  <2>. QED BY <1>1, <1>3, <2>1 DEF Course, Early, Middle
<1>8. Closed(g, stream')
  <2>1. g.exit = "none" BY <1>1, <1>2, <1>3 DEF Course, Ended
  <2>. QED BY <1>1, <1>3, <1>5, <2>1 DEF Closed, Ended
<1>9. Archived(g, errors', file'.entry) BY <1>1, <1>2, <1>3 DEF Archived, Ended
<1>10. ASSUME NEW s \in Sections PROVE Placed(g, section[s], stream')
  <2>1. <<>> # <<"success">> /\ <<"error">> # <<"success">> OBVIOUS
  <2>2. stream' # <<"success">> BY <1>5, <2>1
  <2>. QED BY <1>1, <2>2 DEF Placed, Early
<1>. QED BY <1>1, <1>2, <1>3, <1>6, <1>7, <1>8, <1>9, <1>10, MoveStep

\* It enters the next phase, without writing an event.
LEMMA EnterStep ==
  ASSUME IngestInv, NEW g \in IngestState, ingest' = g, ingest.pc \notin Ended,
         g.pc \in Phases \ Ended, g.pc # "start",
         g.stop = ingest.stop, g.exit = ingest.exit, g.dry = ingest.dry,
         UNCHANGED <<section, stored, full, stream>>,
         \/ errors' = errors
         \/ \E st \in {"fetch", "extract", "summarize", "archive", "remember"} :
              errors' = errors \cup {<<st, None>>},
         Archived(g, errors', file'.entry), Course(g, stored),
         \A s \in Sections : Placed(g, section[s], stream)
  PROVE IngestInv'
<1>1. Closed(ingest, stream) /\ Course(ingest, stored) /\ full \in BOOLEAN /\ stream \in Seq({"success", "error"})
  BY IngestFacts
<1>2. stream = <<>> /\ ingest.exit = "none" BY <1>1 DEF Closed, Course, Ended
<1>3. Closed(g, stream) BY <1>2 DEF Closed, Ended
<1>. QED BY <1>1, <1>3, MoveStep

\* The phases, one action at a time.
LEMMA BeginStep ==
  ASSUME UploadInv, IngestInv, ingest_file
  PROVE IngestInv'
<1>1. /\ ingest.pc = "start" /\ UNCHANGED <<section, errors, stored, full, stream>> /\ file' = file
  BY DEF ingest_file, In, uploadVars
<1>2. /\ Course(ingest, stored) /\ Archived(ingest, errors, file.entry) /\ Closed(ingest, stream)
      /\ full \in BOOLEAN /\ stream \in Seq({"success", "error"})
      /\ \A s \in Sections : Placed(ingest, section[s], stream)
      /\ ingest \in IngestState
  BY IngestFacts
<1>3. /\ ~ingest.overview /\ stored = {} /\ ~ingest.archiving /\ ~ingest.dry /\ ingest.exit = "none"
      /\ ~ingest.stamped /\ <<"archive", None>> \notin errors /\ stream = <<>>
  BY <1>1, <1>2 DEF Course, Archived, Closed, Early, Ended
<1>4. ASSUME NEW dry \in BOOLEAN, ingest' = [ingest EXCEPT !.pc = "fetch", !.dry = dry] PROVE IngestInv'
  <2> DEFINE g == [ingest EXCEPT !.pc = "fetch", !.dry = dry]
  <2>1. /\ g \in IngestState /\ g.pc = "fetch" /\ g.archiving = ingest.archiving
        /\ g.stamped = ingest.stamped /\ g.overview = ingest.overview /\ g.stop = ingest.stop
        /\ g.exit = ingest.exit
    BY <1>2 DEF IngestState, Phases
  <2> HIDE DEF g
  <2>2. ingest' = g BY <1>4 DEF g
  <2>3. Course(g, stored) BY <1>3, <2>1 DEF Course, Early, Middle
  <2>4. Archived(g, errors', file'.entry) BY <1>1, <1>3, <2>1 DEF Archived, Ended
  <2>5. Closed(g, stream') BY <1>1, <1>3, <2>1 DEF Closed, Ended
  <2>6. ASSUME NEW s \in Sections PROVE Placed(g, section[s], stream')
    BY <1>1, <1>2, <2>1 DEF Placed, Early
  <2>. QED BY <1>1, <1>2, <2>1, <2>2, <2>3, <2>4, <2>5, <2>6, MoveStep
<1>5. ASSUME ingest' = [ingest EXCEPT !.pc = "exited", !.exit = "1"] PROVE IngestInv'
  <2> DEFINE g == [ingest EXCEPT !.pc = "exited", !.exit = "1"]
  <2>1. /\ g \in IngestState /\ g.pc = "exited" /\ g.archiving = ingest.archiving
        /\ g.stamped = ingest.stamped /\ g.overview = ingest.overview /\ g.stop = ingest.stop
        /\ g.exit = "1" /\ g.dry = ingest.dry
    BY <1>2 DEF IngestState, Phases
  <2> HIDE DEF g
  <2>2. ingest' = g BY <1>5 DEF g
  <2>3. Course(g, stored) BY <1>3, <2>1 DEF Course, Early, Middle
  <2>4. Archived(g, errors', file'.entry) BY <1>1, <1>3, <2>1 DEF Archived, Ended
  <2>5. Closed(g, stream') BY <1>1, <1>3, <2>1 DEF Closed, Ended
  <2>6. ASSUME NEW s \in Sections PROVE Placed(g, section[s], stream')
    BY <1>1, <1>2, <2>1 DEF Placed, Early
  <2>. QED BY <1>1, <1>2, <2>1, <2>2, <2>3, <2>4, <2>5, <2>6, MoveStep
<1>. QED BY <1>4, <1>5 DEF ingest_file

\* Fetching the source preserves the invariant.
LEMMA FetchStep ==
  ASSUME UploadInv, IngestInv, _fetch
  PROVE IngestInv'
<1>1. /\ ingest.pc = "fetch" /\ UNCHANGED <<section, stored, full, uploadVars>> /\ file' = file
  BY DEF _fetch, In, uploadVars
<1>2. CASE ingest' = [ingest EXCEPT !.pc = "extract", !.fetched = TRUE] /\ UNCHANGED <<errors, stream>>
  <2> DEFINE g == [ingest EXCEPT !.pc = "extract", !.fetched = TRUE]
  <2>0. /\ Course(ingest, stored) /\ Archived(ingest, errors, file.entry)
        /\ \A s \in Sections : Placed(ingest, section[s], stream)
        /\ ingest \in IngestState
    BY IngestFacts
  <2>1. /\ g \in IngestState /\ g.pc = "extract" /\ g.archiving = ingest.archiving
        /\ g.stamped = ingest.stamped /\ g.overview = ingest.overview /\ g.stop = ingest.stop
        /\ g.exit = ingest.exit /\ g.dry = ingest.dry
    BY <2>0 DEF IngestState, Phases
  <2> HIDE DEF g
  <2>2. ingest' = g BY <1>2 DEF g
  <2>3. Course(g, stored) BY <1>1, <2>0, <2>1 DEF Course, Early, Middle
  <2>4. Archived(g, errors', file'.entry) BY <1>1, <1>2, <2>0, <2>1 DEF Archived, Ended
  <2>5. ASSUME NEW s \in Sections PROVE Placed(g, section[s], stream)
    BY <1>1, <2>0, <2>1 DEF Placed, Early
  <2>. QED BY <1>1, <1>2, <2>1, <2>2, <2>3, <2>4, <2>5, EnterStep DEF Phases, Ended
<1>3. CASE Record("fetch", None) /\ Return BY <1>1, <1>3, ReturnStep DEF Record
<1>. QED BY <1>2, <1>3 DEF _fetch

\* The extraction, with or without a dry run.
LEMMA ExtractStep ==
  ASSUME UploadInv, IngestInv, estimate_cost \/ _transcribe_or_extract_and_chunk
  PROVE IngestInv'
<1>1. ingest.pc = "extract" /\ UNCHANGED <<section, stored, full>>
  BY DEF estimate_cost, _transcribe_or_extract_and_chunk, In
<1>2. /\ Course(ingest, stored) /\ Archived(ingest, errors, file.entry)
      /\ \A s \in Sections : Placed(ingest, section[s], stream)
      /\ ingest \in IngestState
  BY IngestFacts
<1>3. CASE /\ UNCHANGED errors \/ Record("extract", None)
           /\ Return /\ UNCHANGED uploadVars
  BY <1>1, <1>3, ReturnStep DEF Record
<1>4. ASSUME ~ingest.dry, UNCHANGED <<errors, stream>>, KeptEntry,
             NEW archiving \in BOOLEAN,
             ingest' = [ingest EXCEPT !.pc = "summarize", !.archiving = archiving]
      PROVE IngestInv'
  <2> DEFINE g == [ingest EXCEPT !.pc = "summarize", !.archiving = archiving]
  <2>1. /\ g \in IngestState /\ g.pc = "summarize"
        /\ g.stamped = ingest.stamped /\ g.overview = ingest.overview /\ g.stop = ingest.stop
        /\ g.exit = ingest.exit /\ g.dry = ingest.dry
    BY <1>2 DEF IngestState, Phases
  <2> HIDE DEF g
  <2>2. ingest' = g BY <1>4 DEF g
  <2>3. Course(g, stored) BY <1>1, <1>2, <1>4, <2>1 DEF Course, Early, Middle
  <2>4. Archived(g, errors', file'.entry) BY <1>1, <1>2, <1>4, <2>1 DEF Archived, Ended
  <2>5. ASSUME NEW s \in Sections PROVE Placed(g, section[s], stream)
    BY <1>1, <1>2, <2>1 DEF Placed, Early
  <2>. QED BY <1>1, <1>4, <2>1, <2>2, <2>3, <2>4, <2>5, EnterStep DEF Phases, Ended
<1>5. CASE estimate_cost BY <1>3, <1>5 DEF estimate_cost
<1>6. CASE _transcribe_or_extract_and_chunk
  <2>1. ~ingest.dry BY <1>6 DEF _transcribe_or_extract_and_chunk
  <2>2. CASE /\ ingest' = [ingest EXCEPT !.pc = "summarize", !.archiving = TRUE]
             /\ StartUpload(Archive, FALSE, FALSE)
             /\ UNCHANGED <<errors, stream>>
    <3>1. KeptEntry BY <2>2, StartStep
    <3>. QED BY <1>4, <2>1, <2>2, <3>1
  <2>3. CASE Enter("summarize") /\ UNCHANGED <<errors, stream, uploadVars>>
    <3>1. KeptEntry BY <2>3 DEF KeptEntry, uploadVars
    <3> DEFINE a == ingest.archiving
    <3>2. a \in BOOLEAN BY IngestFacts
    <3>3. ingest' = [ingest EXCEPT !.pc = "summarize", !.archiving = a]
      BY <1>2, <2>3 DEF Enter, IngestState
    <3> HIDE DEF a
    <3>. QED BY <1>4, <2>1, <2>3, <3>1, <3>2, <3>3
  <2>4. CASE Record("extract", None) /\ Return /\ UNCHANGED uploadVars BY <1>3, <2>4
  <2>. QED BY <1>6, <2>2, <2>3, <2>4 DEF _transcribe_or_extract_and_chunk
<1>. QED BY <1>5, <1>6

\* The summaries are complete, and the overview has its own.
LEMMA SummariesStep ==
  ASSUME UploadInv, IngestInv, _summarize_sections \/ SummarizeOverview
  PROVE IngestInv'
<1>1. /\ ingest.pc \in {"summarize", "overview"} /\ UNCHANGED <<section, stored, full, stream, uploadVars>>
      /\ file' = file
      /\ errors' = errors \/ errors' = errors \cup {<<"summarize", None>>}
  BY DEF _summarize_sections, SummarizeOverview, In, uploadVars, Record
<1>2. /\ Course(ingest, stored) /\ Archived(ingest, errors, file.entry)
      /\ \A s \in Sections : Placed(ingest, section[s], stream)
      /\ ingest \in IngestState
  BY IngestFacts
<1>3. PICK pc \in {"overview", "collect"} :
        /\ ingest' = [ingest EXCEPT !.pc = pc]
        /\ \A s \in Sections : section[s] \in {"summed", "blank"}
  <2>1. CASE _summarize_sections BY <2>1 DEF _summarize_sections, Enter
  <2>2. CASE SummarizeOverview
    <3>1. \A s \in Sections : section[s] \in {"summed", "blank"}
      BY <1>2, <2>2 DEF SummarizeOverview, In, Placed
    <3>. QED BY <2>2, <3>1 DEF SummarizeOverview, Enter
  <2>. QED BY <2>1, <2>2
<1> DEFINE g == [ingest EXCEPT !.pc = pc]
<1>4. /\ g \in IngestState /\ g.pc = pc /\ g.archiving = ingest.archiving
      /\ g.stamped = ingest.stamped /\ g.overview = ingest.overview /\ g.stop = ingest.stop
      /\ g.exit = ingest.exit /\ g.dry = ingest.dry
  BY PhaseFields DEF Phases
<1> HIDE DEF g
<1>5. ingest' = g BY <1>3 DEF g
<1>6. Course(g, stored) BY <1>1, <1>2, <1>4 DEF Course, Early, Middle
<1>7. Archived(g, errors', file'.entry)
  <2>1. <<"archive", None>> \in errors' <=> <<"archive", None>> \in errors BY <1>1
  <2>. QED BY <1>1, <1>2, <1>4, <2>1 DEF Archived, Ended
<1>8. ASSUME NEW s \in Sections PROVE Placed(g, section[s], stream)
  BY <1>1, <1>2, <1>3, <1>4 DEF Placed, Early
<1>. QED BY <1>1, <1>4, <1>5, <1>6, <1>7, <1>8, EnterStep DEF Phases, Ended

\* The archive is awaited.
LEMMA CollectStep ==
  ASSUME UploadInv, IngestInv, _archive_original
  PROVE IngestInv'
<1>1. ingest.pc = "collect" /\ UNCHANGED <<section, stored, full, stream, uploadVars>> /\ file' = file
  BY DEF _archive_original, In, uploadVars
<1>2. /\ Course(ingest, stored) /\ Archived(ingest, errors, file.entry)
      /\ \A s \in Sections : Placed(ingest, section[s], stream)
      /\ ingest \in IngestState
  BY IngestFacts
<1>3. ~ingest.stamped /\ <<"archive", None>> \notin errors BY <1>1, <1>2 DEF Archived, Ended
<1>4. PICK stamped \in BOOLEAN :
        /\ ingest' = [ingest EXCEPT !.pc = "remember", !.stamped = stamped]
        /\ stamped => At(Archive, "done")
        /\ errors' = errors \/ errors' = errors \cup {<<"archive", None>>}
        /\ ingest.archiving => (stamped <=> <<"archive", None>> \notin errors')
  <2>1. CASE ~ingest.archiving /\ Enter("remember") /\ UNCHANGED errors
    <3>1. ingest' = [ingest EXCEPT !.pc = "remember", !.stamped = FALSE]
      BY <1>2, <1>3, <2>1 DEF Enter, IngestState
    <3>. QED BY <2>1, <3>1
  <2>2. CASE /\ ingest.archiving /\ At(Archive, "done")
             /\ ingest' = [ingest EXCEPT !.pc = "remember", !.stamped = TRUE]
             /\ UNCHANGED errors
    BY <1>3, <2>2
  <2>3. CASE /\ ingest.archiving /\ At(Archive, "failed")
             /\ Enter("remember") /\ Record("archive", None)
    <3>1. ingest' = [ingest EXCEPT !.pc = "remember", !.stamped = FALSE]
      BY <1>2, <1>3, <2>3 DEF Enter, IngestState
    <3>. QED BY <2>3, <3>1 DEF Record
  <2>. QED BY <2>1, <2>2, <2>3 DEF _archive_original
<1> DEFINE g == [ingest EXCEPT !.pc = "remember", !.stamped = stamped]
<1>5. /\ g \in IngestState /\ g.pc = "remember" /\ g.archiving = ingest.archiving
      /\ g.stamped = stamped /\ g.overview = ingest.overview /\ g.stop = ingest.stop
      /\ g.exit = ingest.exit /\ g.dry = ingest.dry
  BY <1>2 DEF IngestState, Phases
<1> HIDE DEF g
<1>6. ingest' = g BY <1>4 DEF g
<1>7. Course(g, stored) BY <1>1, <1>2, <1>5 DEF Course, Early, Middle
<1>8. Archived(g, errors', file'.entry)
  <2>1. stamped => file.entry = "complete" BY <1>4 DEF At, UploadInv, Sound, TrueFlags
  <2>. QED BY <1>1, <1>4, <1>5, <2>1 DEF Archived, Ended
<1>9. ASSUME NEW s \in Sections PROVE Placed(g, section[s], stream)
  BY <1>1, <1>2, <1>5 DEF Placed, Early
<1>. QED BY <1>1, <1>4, <1>5, <1>6, <1>7, <1>8, <1>9, EnterStep DEF Phases, Ended

\* The overview is written, or ends the ingest.
LEMMA OverviewStep ==
  ASSUME UploadInv, IngestInv, _write_overview
  PROVE IngestInv'
<1>1. ingest.pc = "remember" /\ UNCHANGED <<section, stored, full, uploadVars>> /\ file' = file
  BY DEF _write_overview, In, uploadVars
<1>2. CASE Record("remember", None) /\ Return BY <1>1, <1>2, ReturnStep DEF Record
<1>3. CASE ingest' = [ingest EXCEPT !.pc = "sections", !.overview = TRUE] /\ UNCHANGED <<errors, stream>>
  <2>0. /\ Course(ingest, stored) /\ Archived(ingest, errors, file.entry)
        /\ \A s \in Sections : Placed(ingest, section[s], stream)
        /\ ingest \in IngestState
    BY IngestFacts
  <2> DEFINE g == [ingest EXCEPT !.pc = "sections", !.overview = TRUE]
  <2>1. /\ g \in IngestState /\ g.pc = "sections" /\ g.archiving = ingest.archiving
        /\ g.stamped = ingest.stamped /\ g.overview /\ g.stop = ingest.stop
        /\ g.exit = ingest.exit /\ g.dry = ingest.dry
    BY <2>0 DEF IngestState, Phases
  <2> HIDE DEF g
  <2>2. ingest' = g BY <1>3 DEF g
  <2>3. Course(g, stored) BY <1>1, <2>0, <2>1 DEF Course, Early, Middle
  <2>4. Archived(g, errors', file'.entry) BY <1>1, <1>3, <2>0, <2>1 DEF Archived, Ended
  <2>5. ASSUME NEW s \in Sections PROVE Placed(g, section[s], stream)
    BY <1>1, <2>0, <2>1 DEF Placed, Early
  <2>. QED BY <1>1, <1>3, <2>1, <2>2, <2>3, <2>4, <2>5, EnterStep DEF Phases, Ended
<1>. QED BY <1>2, <1>3 DEF _write_overview

\* All sections are answered for.
LEMMA SectionsDone ==
  ASSUME UploadInv, IngestInv, _write_sections
  PROVE IngestInv'
<1>1. /\ ingest.pc = "sections" /\ Return /\ UNCHANGED <<section, errors, stored, full, uploadVars>>
      /\ \A s \in Sections : section[s] \notin {"summed", "sending"}
  BY DEF _write_sections, In
<1>2. ASSUME NEW s \in Sections PROVE section[s] \in Settled
  <2>1. section[s] \in SectionPc /\ section[s] \notin {"todo", "summing"}
    BY <1>1, IngestFacts DEF Placed
  <2>. QED BY <1>1, <2>1 DEF SectionPc, Settled
<1>. QED BY <1>1, <1>2, ReturnStep

\* The command ends.
LEMMA ExitStep ==
  ASSUME UploadInv, IngestInv, IngestExits
  PROVE IngestInv'
<1>1. /\ ingest.pc \in {"returned", "raised"}
      /\ UNCHANGED <<section, errors, stored, full, stream, uploadVars>> /\ file' = file
  BY DEF IngestExits, uploadVars
<1>2. /\ Course(ingest, stored) /\ Archived(ingest, errors, file.entry) /\ Closed(ingest, stream)
      /\ full \in BOOLEAN /\ stream \in Seq({"success", "error"})
      /\ \A s \in Sections : Placed(ingest, section[s], stream)
      /\ ingest \in IngestState /\ ingest.overview \in BOOLEAN /\ ingest.dry \in BOOLEAN
  BY IngestFacts
<1> DEFINE code == IF In("returned") /\ (ingest.dry \/ ingest.overview) THEN "0" ELSE "1"
           g == [ingest EXCEPT !.pc = "exited", !.exit = code]
<1>3. code \in {"0", "1"} /\ (code = "0" <=> ingest.pc = "returned" /\ (ingest.dry \/ ingest.overview))
  BY <1>2 DEF In
<1>4. ingest' = g BY DEF IngestExits
<1> HIDE DEF code
<1>5. /\ g \in IngestState /\ g.pc = "exited" /\ g.archiving = ingest.archiving
      /\ g.stamped = ingest.stamped /\ g.overview = ingest.overview /\ g.stop = ingest.stop
      /\ g.exit = code /\ g.dry = ingest.dry
  BY <1>2, <1>3 DEF IngestState, Phases
<1> HIDE DEF g
<1>6. Course(g, stored) BY <1>1, <1>2, <1>3, <1>5 DEF Course, Early, Middle
<1>7. Archived(g, errors', file'.entry) BY <1>1, <1>2, <1>5 DEF Archived, Ended
<1>8. Closed(g, stream')
  <2>1. CASE ingest.dry BY <1>1, <1>2, <1>5, <2>1 DEF Closed, Ended
  <2>2. CASE ~ingest.dry
    <3>1. code = "0" => stream = <<"success">> BY <1>2, <1>3, <2>2 DEF Closed
    <3>2. code = "1" => stream \in {<<>>, <<"error">>} BY <1>1, <1>2, <1>3, <2>2 DEF Closed
    <3>. QED BY <1>1, <1>3, <1>5, <2>2, <3>1, <3>2 DEF Closed, Ended
  <2>. QED BY <1>2, <2>1, <2>2
<1>9. ASSUME NEW s \in Sections PROVE Placed(g, section[s], stream')
  BY <1>1, <1>2, <1>5 DEF Placed, Early
<1>. QED BY <1>1, <1>2, <1>4, <1>5, <1>6, <1>7, <1>8, <1>9, MoveStep

\* The requests of the sections.

\* One section more, or one less, is under way.
LEMMA SentBounds ==
  ASSUME IngestInv, NEW s \in Sections, NEW at \in SectionPc,
         section' = [section EXCEPT ![s] = at],
         \/ section[s] \notin {"sending", "refused"} /\ at = "sending" /\
            ~ingest.stop /\ Cardinality(Inflight("sending")) < Concurrency
         \/ section[s] = "sending"
         \/ at \notin {"sending", "refused"}
  PROVE Cardinality(Sent') <= Concurrency
<1>1. /\ section \in [Sections -> SectionPc]
      /\ Cardinality(Sent) <= Concurrency
      /\ ~ingest.stop => \A d \in Sections : section[d] # "refused"
  BY DEF IngestInv, IngestTypeOK, Bounded
<1>2. IsFiniteSet(Sent) /\ Sent \subseteq Sections
  <2>1. Sent \in SUBSET Sections BY DEF Sent
  <2>. QED BY <2>1, FS_Subset
<1>3. /\ section'[s] = at
      /\ \A d \in Sections \ {s} : section'[d] = section[d]
  BY <1>1
<1>4. CASE section[s] \notin {"sending", "refused"} /\ at = "sending" /\
           ~ingest.stop /\ Cardinality(Inflight("sending")) < Concurrency
  <2>1. Inflight("sending") = Sent BY <1>1, <1>4 DEF Inflight, Sent
  <2>2. Sent' = Sent \cup {s} BY <1>3, <1>4 DEF Sent
  <2>3. s \notin Sent BY <1>4 DEF Sent
  <2>4. Cardinality(Sent') = Cardinality(Sent) + 1 BY <1>2, <2>2, <2>3, FS_AddElement
  <2>5. Cardinality(Sent) \in Nat BY <1>2, FS_CardinalityType
  <2>. QED BY <1>4, <2>1, <2>4, <2>5
<1>5. CASE section[s] = "sending" \/ at \notin {"sending", "refused"}
  <2>1. Sent' \in SUBSET Sent BY <1>3, <1>5 DEF Sent
  <2>2. /\ Cardinality(Sent') <= Cardinality(Sent)
        /\ Cardinality(Sent) \in Nat /\ Cardinality(Sent') \in Nat
    BY <1>2, <2>1, FS_Subset, FS_CardinalityType
  <2>. QED BY <1>1, <2>2
<1>. QED BY <1>4, <1>5

\* A summary is asked for, or answered.
LEMMA SummaryStep ==
  ASSUME UploadInv, IngestInv, NEW s \in Sections, SummarizeSection(s) \/ SectionSummarized(s)
  PROVE IngestInv'
<1>1. /\ ingest.pc = "summarize" /\ UNCHANGED <<ingest, stored, full, stream, uploadVars>>
      /\ section[s] \in {"todo", "summing"}
  BY DEF SummarizeSection, SectionSummarized, In
<1>2. PICK at \in {"summing", "summed", "blank"} :
        /\ section' = [section EXCEPT ![s] = at]
        /\ IF at = "blank" THEN errors' = errors \cup {<<"summarize", s>>} ELSE errors' = errors
  <2>1. CASE SummarizeSection(s) BY <2>1 DEF SummarizeSection
  <2>2. CASE SectionSummarized(s) BY <2>2 DEF SectionSummarized, Record
  <2>. QED BY <2>1, <2>2
<1>3. at \in SectionPc /\ section[s] \notin Settled BY <1>1 DEF SectionPc, Settled
<1>4. Cardinality(Sent') <= Concurrency BY <1>2, <1>3, SentBounds
<1>5. /\ ingest \in IngestState /\ ~ingest.dry /\ Course(ingest, stored) /\ Closed(ingest, stream)
      /\ ingest.stop \in BOOLEAN
  BY <1>1, IngestFacts DEF Course, Middle
<1>6. Placed(ingest, at, stream)
  <2>1. stream = <<>> BY <1>1, <1>5 DEF Closed, Ended
  <2>2. <<>> # <<"success">> OBVIOUS
  <2>. QED BY <1>1, <2>1, <2>2 DEF Placed, Early
<1>7. ingest = [ingest EXCEPT !.stop = ingest.stop] BY <1>5 DEF IngestState
<1>8. KeptEntry BY <1>1 DEF KeptEntry, uploadVars
<1>. QED BY <1>1, <1>2, <1>3, <1>4, <1>5, <1>6, <1>7, <1>8, SectionStep

\* A section is sent, or not because an earlier one was refused.
LEMMA SendStep ==
  ASSUME UploadInv, IngestInv, NEW s \in Sections, SendSection(s)
  PROVE IngestInv'
<1>1. /\ ingest.pc = "sections" /\ UNCHANGED <<ingest, stored, full, stream, uploadVars>>
      /\ section[s] = "summed" /\ Cardinality(Inflight("sending")) < Concurrency
  BY DEF SendSection, In
<1>2. PICK at \in {"unwritten", "sending"} :
        /\ section' = [section EXCEPT ![s] = at]
        /\ at = "sending" <=> ~ingest.stop
        /\ IF at = "unwritten" THEN errors' = errors \cup {<<"remember", s>>} ELSE errors' = errors
  BY DEF SendSection, Record
<1>3. at \in SectionPc /\ section[s] \notin Settled BY <1>1 DEF SectionPc, Settled
<1>4. Cardinality(Sent') <= Concurrency BY <1>1, <1>2, <1>3, SentBounds
<1>5. /\ ingest \in IngestState /\ ~ingest.dry /\ Course(ingest, stored) /\ Closed(ingest, stream)
      /\ ingest.stop \in BOOLEAN
  BY <1>1, IngestFacts DEF Course
<1>6. Placed(ingest, at, stream)
  <2>1. stream = <<>> BY <1>1, <1>5 DEF Closed, Ended
  <2>2. <<>> # <<"success">> OBVIOUS
  <2>. QED BY <1>1, <2>1, <2>2 DEF Placed, Early
<1>7. ingest = [ingest EXCEPT !.stop = ingest.stop] BY <1>5 DEF IngestState
<1>8. KeptEntry BY <1>1 DEF KeptEntry, uploadVars
<1>. QED BY <1>1, <1>2, <1>3, <1>4, <1>5, <1>6, <1>7, <1>8, SectionStep

\* The answer to a section.
LEMMA WriteStep ==
  ASSUME UploadInv, IngestInv, NEW s \in Sections, write_one(s)
  PROVE IngestInv'
<1>1. /\ ingest.pc = "sections" /\ UNCHANGED <<full, stream, uploadVars>>
      /\ section[s] = "sending"
  BY DEF write_one, In
<1>2. /\ ingest \in IngestState /\ ~ingest.dry /\ Course(ingest, stored) /\ Closed(ingest, stream)
      /\ ingest.stop \in BOOLEAN
  BY <1>1, IngestFacts DEF Course
<1>3. ingest = [ingest EXCEPT !.stop = ingest.stop] BY <1>2 DEF IngestState
<1>4. PICK at \in {"written", "unwritten", "refused"}, stop \in BOOLEAN :
        /\ section' = [section EXCEPT ![s] = at]
        /\ ingest' = [ingest EXCEPT !.stop = stop]
        /\ ingest.stop => stop
        /\ at = "refused" => stop
        /\ stored' = stored \/ stored' = stored \cup {s}
        /\ at = "written" => stored' = stored \cup {s}
        /\ IF at = "written" THEN errors' = errors ELSE errors' = errors \cup {<<"remember", s>>}
  <2>1. CASE /\ ~full
             /\ stored' = stored \cup {s}
             /\ \/ section' = [section EXCEPT ![s] = "written"] /\ UNCHANGED errors
                \/ section' = [section EXCEPT ![s] = "unwritten"] /\ Record("remember", s)
             /\ UNCHANGED ingest
    <3>1. ingest' = [ingest EXCEPT !.stop = ingest.stop] BY <1>3, <2>1
    <3>. QED BY <1>2, <2>1, <3>1 DEF Record
  <2>2. CASE /\ section' = [section EXCEPT ![s] = "refused"]
             /\ Record("remember", s)
             /\ ingest' = [ingest EXCEPT !.stop = TRUE]
             /\ UNCHANGED stored
    BY <2>2 DEF Record
  <2>3. CASE /\ section' = [section EXCEPT ![s] = "unwritten"] /\ Record("remember", s)
             /\ UNCHANGED <<ingest, stored>>
    <3>1. ingest' = [ingest EXCEPT !.stop = ingest.stop] BY <1>3, <2>3
    <3>. QED BY <1>2, <2>3, <3>1 DEF Record
  <2>. QED BY <2>1, <2>2, <2>3 DEF write_one
<1> DEFINE g == [ingest EXCEPT !.stop = stop]
<1>5. g \in IngestState /\ g.stop = stop /\ g.pc = ingest.pc BY <1>2 DEF IngestState
<1>6. g = [ingest EXCEPT !.stop = g.stop] BY <1>2, <1>5 DEF IngestState
<1> HIDE DEF g
<1>7. ingest' = g BY <1>4 DEF g
<1>8. at \in SectionPc /\ section[s] \notin Settled BY <1>1 DEF SectionPc, Settled
<1>9. Cardinality(Sent') <= Concurrency BY <1>1, <1>4, <1>8, SentBounds
<1>10. Placed(g, at, stream)
  <2>1. stream = <<>> BY <1>1, <1>2 DEF Closed, Ended
  <2>2. <<>> # <<"success">> OBVIOUS
  <2>. QED BY <1>1, <1>5, <2>1, <2>2 DEF Placed, Early
<1>11. KeptEntry BY <1>1 DEF KeptEntry, uploadVars
<1>12. \/ at \in {"todo", "summing", "summed", "sending", "written"} /\ errors' = errors
       \/ at = "blank" /\ errors' = errors \cup {<<"summarize", s>>}
       \/ at \in {"unwritten", "refused"} /\ errors' = errors \cup {<<"remember", s>>}
  BY <1>4
<1>13. /\ stored' = stored \/ (ingest.pc = "sections" /\ stored' = stored \cup {s})
       /\ at = "written" => s \in stored'
       /\ ingest.stop => g.stop
       /\ at = "refused" => g.stop
       /\ section' = [section EXCEPT ![s] = at]
  BY <1>1, <1>4, <1>5
<1>. QED BY <1>1, <1>2, <1>5, <1>6, <1>7, <1>8, <1>9, <1>10, <1>11, <1>12, <1>13, SectionStep

\* Only the uploads change, or the workspace fills up.
LEMMA ElsewhereStep ==
  ASSUME UploadInv, IngestInv, KeptEntry, UNCHANGED <<ingest, section, errors, stored, stream>>,
         full' \in BOOLEAN
  PROVE IngestInv'
<1>1. Archived(ingest, errors, file'.entry) BY DEF IngestInv, Archived, KeptEntry
<1>. QED BY <1>1 DEF IngestInv, IngestTypeOK, Bounded, Sent, Recorded, RecordsOf

\* The invariant of the ingestor holds initially.
LEMMA IngestStart == IngestInit => IngestInv
<1> SUFFICES ASSUME IngestInit PROVE IngestInv OBVIOUS
<1> USE DEF IngestInit
<1>1. IngestTypeOK
  <2>1. ingest \in IngestState BY DEF IngestState, Phases
  <2>2. section \in [Sections -> SectionPc] BY DEF SectionPc
  <2>3. stream \in Seq({"success", "error"}) OBVIOUS
  <2>4. errors = {} /\ stored = {} /\ full \in BOOLEAN OBVIOUS
  <2> HIDE DEF IngestInit
  <2>. QED BY <2>1, <2>2, <2>3, <2>4 DEF IngestTypeOK, IngestState
<1>2. Course(ingest, stored) BY DEF Course, Early, Middle
<1>3. Closed(ingest, stream) BY DEF Closed, Ended
<1>4. Archived(ingest, errors, file.entry) BY DEF Archived, Ended
<1>5. ASSUME NEW s \in Sections PROVE Recorded(s) /\ Placed(ingest, section[s], stream)
  <2>1. <<>> # <<"success">> OBVIOUS
  <2>. QED BY <2>1 DEF Recorded, RecordsOf, Placed, Early
<1>6. Bounded
  <2>1. Sent = {} BY DEF Sent
  <2>. QED BY <2>1, FS_EmptySet DEF Bounded
<1>. QED BY <1>1, <1>2, <1>3, <1>4, <1>5, <1>6 DEF IngestInv

\* The uploads and the ingest keep their invariants in every state that an
\* ingest reaches.
THEOREM IngestInductive == IngestSpec => [](UploadInv /\ IngestInv)
<1>1. IngestInit /\ UploadInit => UploadInv /\ IngestInv BY IngestStart, UploadStart
<1>2. UploadInv /\ IngestInv /\ [IngestNext]_allIngestVars => UploadInv' /\ IngestInv'
  <2> SUFFICES ASSUME UploadInv, IngestInv, [IngestNext]_allIngestVars PROVE UploadInv' /\ IngestInv'
    OBVIOUS
  <2>1. UploadInv' /\ KeptEntry
    <3>1. CASE OtherUpload
      <4>1. CASE Expire BY <4>1, UploadsKept
      <4>2. ASSUME NEW u \in Uploads, UploadStep(u) PROVE UploadInv' /\ KeptEntry BY <4>2, OwnStep
      <4>3. ASSUME NEW u \in Uploads, NEW r \in BOOLEAN, StartUpload(u, r, TRUE)
            PROVE UploadInv' /\ KeptEntry
        BY <4>3, StartStep
      <4>. QED BY <3>1, <4>1, <4>2, <4>3 DEF OtherUpload
    <3>2. CASE ArchiveStep BY <3>2, OwnStep DEF ArchiveStep
    <3>3. CASE _transcribe_or_extract_and_chunk
      <4>1. CASE UNCHANGED uploadVars BY <4>1, UploadsKept
      <4>2. CASE StartUpload(Archive, FALSE, FALSE) BY <4>2, StartStep
      <4>. QED BY <3>3, <4>1, <4>2 DEF _transcribe_or_extract_and_chunk
    <3>4. CASE \/ ingest_file \/ IngestExits \/ _fetch \/ estimate_cost \/ _summarize_sections
               \/ SummarizeOverview \/ _archive_original \/ _write_overview \/ _write_sections
               \/ IngestRaises \/ Fill
      <4>1. UNCHANGED uploadVars
        BY <3>4 DEF ingest_file, IngestExits, _fetch, estimate_cost, _summarize_sections,
             SummarizeOverview, _archive_original, _write_overview, _write_sections, IngestRaises, Fill
      <4>. QED BY <4>1, UploadsKept
    <3>5. ASSUME NEW s \in Sections,
                 SummarizeSection(s) \/ SectionSummarized(s) \/ SendSection(s) \/ write_one(s)
          PROVE UploadInv' /\ KeptEntry
      <4>1. UNCHANGED uploadVars
        BY <3>5 DEF SummarizeSection, SectionSummarized, SendSection, write_one
      <4>. QED BY <4>1, UploadsKept
    <3>6. CASE UNCHANGED allIngestVars BY <3>6, UploadsKept DEF allIngestVars
    <3>. QED BY <3>1, <3>2, <3>3, <3>4, <3>5, <3>6 DEF IngestNext
  <2>2. full \in BOOLEAN BY IngestFacts
  <2>3. CASE ingest_file BY <2>1, <2>3, BeginStep
  <2>4. CASE IngestExits BY <2>1, <2>4, ExitStep
  <2>5. CASE _fetch BY <2>1, <2>5, FetchStep
  <2>6. CASE estimate_cost \/ _transcribe_or_extract_and_chunk BY <2>1, <2>6, ExtractStep
  <2>7. CASE _summarize_sections \/ SummarizeOverview BY <2>1, <2>7, SummariesStep
  <2>8. CASE ArchiveStep \/ OtherUpload \/ UNCHANGED allIngestVars
    <3>1. UNCHANGED ingestVars BY <2>8 DEF ArchiveStep, OtherUpload, allIngestVars
    <3>. QED BY <2>1, <2>2, <3>1, ElsewhereStep DEF ingestVars
  <2>9. CASE Fill BY <2>1, <2>9, ElsewhereStep DEF Fill
  <2>10. CASE _archive_original BY <2>1, <2>10, CollectStep
  <2>11. CASE _write_overview BY <2>1, <2>11, OverviewStep
  <2>12. CASE _write_sections BY <2>1, <2>12, SectionsDone
  <2>13. CASE IngestRaises BY <2>1, <2>13, RaiseStep
  <2>14. ASSUME NEW s \in Sections,
                SummarizeSection(s) \/ SectionSummarized(s) \/ SendSection(s) \/ write_one(s)
         PROVE IngestInv'
    BY <2>14, SummaryStep, SendStep, WriteStep
  <2>. QED BY <2>1, <2>3, <2>4, <2>5, <2>6, <2>7, <2>8, <2>9, <2>10, <2>11, <2>12, <2>13, <2>14
           DEF IngestNext
<1>. QED BY <1>1, <1>2, PTL DEF IngestSpec

\* However an upload ends, the flags of its error say what the server did with
\* it, so its reader knows what is safe to redo.
THEOREM UploadFlagsTrue == IngestSpec => []FlagsAreTrue
BY IngestInductive, UploadPromises, PTL

\* Each upload and each ingest closes its stream with one event, whose kind is
\* how it ended and what the command exits with.
THEOREM StreamsEndOnce == IngestSpec => []OneTerminalEvent
<1>1. UploadInv /\ IngestInv => OneTerminalEvent
  <2> SUFFICES ASSUME UploadInv, IngestInv PROVE OneIngestEvent
    BY UploadPromises DEF OneTerminalEvent
  <2>1. /\ Course(ingest, stored) /\ Closed(ingest, stream) /\ ingest.dry \in BOOLEAN
        /\ ingest.overview \in BOOLEAN /\ ingest.fetched \in BOOLEAN /\ ingest.pc \in Phases
    BY IngestFacts
  <2>2. CASE ingest.dry BY <2>1, <2>2 DEF OneIngestEvent, Course, Closed
  <2>3. CASE ~ingest.dry
    <3>1. Len(<<"success">>) = 1 /\ Len(<<"error">>) = 1 OBVIOUS
    <3>2. In("returned") \/ (In("raised") /\ ingest.fetched) => Len(stream) = 1
      BY <2>1, <2>3, <3>1 DEF Closed, In
    <3>. QED BY <2>1, <2>3, <3>2 DEF OneIngestEvent, Closed, Ended
  <2>. QED BY <2>1, <2>2, <2>3
<1>. QED BY <1>1, IngestInductive, PTL

\* No section is lost: each is stored and reported, or has one record that
\* names it; and a full workspace is asked no more often than requests run at
\* once.
THEOREM NoSectionLost == IngestSpec => []SectionsAccounted
<1>1. UploadInv /\ IngestInv => SectionsAccounted
  <2> SUFFICES ASSUME IngestInv PROVE SectionsAccounted OBVIOUS
  <2>1. ASSUME stream = <<"success">>, NEW s \in Sections
        PROVE IF section[s] = "written" THEN s \in stored /\ RecordsOf(s) = {}
              ELSE Cardinality(RecordsOf(s)) = 1
    <3>1. section[s] \in Settled BY <2>1 DEF IngestInv, Placed
    <3>2. Recorded(s) BY DEF IngestInv
    <3>. QED BY <3>1, <3>2, FS_Singleton DEF Recorded, Settled
  <2>2. EverySectionAccounted BY <2>1 DEF EverySectionAccounted, RecordsOf
  <2>3. RefusalsBounded
    <3>1. Sent \in SUBSET Sections /\ Inflight("refused") \in SUBSET Sent BY DEF Sent, Inflight
    <3>2. IsFiniteSet(Sent) BY <3>1, FS_Subset
    <3>3. /\ Cardinality(Inflight("refused")) <= Cardinality(Sent)
          /\ IsFiniteSet(Inflight("refused"))
      BY <3>1, <3>2, FS_Subset
    <3>4. Cardinality(Sent) \in Nat /\ Cardinality(Inflight("refused")) \in Nat
      BY <3>2, <3>3, FS_CardinalityType
    <3>. QED BY <3>3, <3>4 DEF IngestInv, Bounded, RefusalsBounded
  <2>. QED BY <2>2, <2>3 DEF SectionsAccounted
<1>. QED BY <1>1, IngestInductive, PTL

\* The file an overview points to exists, and an archive that was started is in
\* the overview or among the records.
THEOREM ArchiveInOverview == IngestSpec => []ArchiveAccounted
<1>1. IngestInv => ArchiveAccounted
  BY IngestFacts DEF ArchiveAccounted, Archived, In
<1>. QED BY <1>1, IngestInductive, PTL

-----------------------------------------------------------------------------
\* Importing events.

\* Until the import ends its counters are the server's: every row before the
\* next batch was either taken or rejected.
Counted ==
  import.pc \in {"read", "batches"} =>
    /\ importStream = <<>>
    /\ created \cup rejected = 1 .. (import.next - 1)
    /\ import.created = Cardinality(created) /\ import.failed = Cardinality(rejected)
    /\ import.created + import.failed = import.next - 1

ImportInv == ImportTypeOK /\ Counted /\ ImportCounts

\* The rows of a batch.
LEMMA BatchRows ==
  ASSUME ImportTypeOK
  PROVE /\ IsFiniteSet(Batch) /\ Cardinality(Batch) \in Nat /\ Cardinality(Batch) <= BatchSize
        /\ Batch = import.next .. (import.next + Cardinality(Batch) - 1)
        /\ import.next + Cardinality(Batch) \in 1 .. Rows + 1
        /\ Batch \subseteq 1 .. Rows
<1> DEFINE n == import.next
           b == IF n + BatchSize - 1 <= Rows THEN n + BatchSize - 1 ELSE Rows
<1>1. n \in 1 .. Rows + 1 /\ n \in Nat /\ Rows \in Nat BY DEF ImportTypeOK
<1>2. b \in Int /\ n - 1 <= b /\ b <= Rows /\ b <= n + BatchSize - 1 BY <1>1
<1>3. Batch = n .. b BY <1>1 DEF Batch
<1> HIDE DEF n, b
<1>4. IsFiniteSet(n .. b) /\ Cardinality(n .. b) = IF n > b THEN 0 ELSE b - n + 1
  BY <1>1, <1>2, FS_Interval
<1>5. Cardinality(n .. b) = b - n + 1 BY <1>1, <1>2, <1>4
<1>6. /\ n + Cardinality(n .. b) - 1 = b /\ n + Cardinality(n .. b) \in 1 .. Rows + 1
      /\ Cardinality(n .. b) \in Nat /\ Cardinality(n .. b) <= BatchSize
  BY <1>1, <1>2, <1>5
<1>7. n .. b \subseteq 1 .. Rows BY <1>1, <1>2
<1>8. /\ IsFiniteSet(Batch) /\ Cardinality(Batch) \in Nat /\ Cardinality(Batch) <= BatchSize
      /\ Batch = n .. (n + Cardinality(Batch) - 1)
      /\ n + Cardinality(Batch) \in 1 .. Rows + 1
      /\ Batch \subseteq 1 .. Rows
  BY <1>3, <1>4, <1>6, <1>7
<1>. QED BY <1>8 DEF n

\* Rows the server takes, or rejects, are counted once.
LEMMA RowsAdded ==
  ASSUME NEW A, IsFiniteSet(A), NEW B, IsFiniteSet(B), A \cap B = {}
  PROVE /\ IsFiniteSet(A \cup B)
        /\ Cardinality(A \cup B) = Cardinality(A) + Cardinality(B)
        /\ Cardinality(A) \in Nat /\ Cardinality(B) \in Nat
<1>1. Cardinality(A) \in Nat /\ Cardinality(B) \in Nat BY FS_CardinalityType
<1>2. IsFiniteSet(A \cup B) /\ Cardinality(A \cup B) = Cardinality(A) + Cardinality(B) - Cardinality(A \cap B)
  BY FS_Union
<1>3. Cardinality(A \cap B) = 0 BY FS_EmptySet
<1>. QED BY <1>1, <1>2, <1>3

\* One terminal event, with the counters as they are.
LEMMA EndingStep ==
  ASSUME ImportTypeOK, importStream = <<>>, NEW pc \in {"done", "failed"}, NEW kind \in {"success", "error"},
         Ending(pc, kind)
  PROVE LET last == importStream'[Len(importStream')] IN
        /\ Len(importStream') = 1
        /\ importStream' \in Seq([kind : {"success", "error"}, created : Nat, failed : Nat])
        /\ last.created = import.created /\ last.failed = import.failed
        /\ import'.pc = pc /\ import' \in [pc : {"read", "batches", "done", "failed"}, next : 1 .. Rows + 1,
                                           created : Nat, failed : Nat]
<1> DEFINE x == [kind |-> kind, created |-> import.created, failed |-> import.failed]
           S == [kind : {"success", "error"}, created : Nat, failed : Nat]
<1>1. x \in S /\ x.created = import.created /\ x.failed = import.failed BY DEF ImportTypeOK
<1>2. importStream \in Seq(S) BY DEF ImportTypeOK
<1>3. importStream' = Append(importStream, x) BY DEF Ending
<1>4. /\ import'.pc = pc
      /\ import' \in [pc : {"read", "batches", "done", "failed"}, next : 1 .. Rows + 1,
                      created : Nat, failed : Nat]
  BY DEF Ending, ImportTypeOK
<1> HIDE DEF x, S
<1>5. importStream' \in Seq(S) /\ Len(importStream') = 1 /\ importStream'[1] = x
  BY <1>1, <1>2, <1>3, StreamGrows
<1>. QED BY <1>1, <1>4, <1>5 DEF S

\* What is known while batches are sent.
LEMMA BatchFacts ==
  ASSUME ImportInv, import.pc \in {"read", "batches"}
  PROVE /\ IsFiniteSet(created) /\ IsFiniteSet(rejected) /\ IsFiniteSet(Batch)
        /\ created \cap Batch = {} /\ rejected \cap Batch = {}
        /\ import.next \in 1 .. Rows + 1
        /\ importStream = <<>>
        /\ created \cup rejected = 1 .. (import.next - 1)
        /\ import.created = Cardinality(created) /\ import.failed = Cardinality(rejected)
        /\ import.created \in Nat /\ import.failed \in Nat
        /\ import.created + import.failed = import.next - 1
<1>1. ImportTypeOK /\ Counted BY DEF ImportInv
<1>2. import.next \in 1 .. Rows + 1 /\ created \cup rejected = 1 .. (import.next - 1)
  BY <1>1 DEF ImportTypeOK, Counted
<1>3. IsFiniteSet(1 .. (import.next - 1)) BY <1>2, FS_Interval
<1>4. created \in SUBSET (1 .. (import.next - 1)) /\ rejected \in SUBSET (1 .. (import.next - 1)) BY <1>2
<1>5. IsFiniteSet(created) /\ IsFiniteSet(rejected) BY <1>3, <1>4, FS_Subset
<1>6. (1 .. (import.next - 1)) \cap Batch = {} BY <1>2 DEF Batch
<1>7. import.created \in Nat /\ import.failed \in Nat BY <1>1 DEF ImportTypeOK
<1>. QED BY <1>1, <1>2, <1>4, <1>5, <1>6, <1>7, BatchRows DEF Counted

\* A batch is answered, or cut off.
LEMMA BatchStep ==
  ASSUME ImportInv, ingest_events
  PROVE ImportInv'
<1> DEFINE n == import.next
           k == Cardinality(Batch)
<1>0. ImportTypeOK /\ import.pc = "batches" BY DEF ImportInv, ingest_events
<1>1. /\ IsFiniteSet(created) /\ IsFiniteSet(rejected) /\ IsFiniteSet(Batch)
      /\ created \cap Batch = {} /\ rejected \cap Batch = {}
      /\ n \in 1 .. Rows + 1
      /\ importStream = <<>>
      /\ created \cup rejected = 1 .. (n - 1)
      /\ import.created = Cardinality(created) /\ import.failed = Cardinality(rejected)
      /\ import.created \in Nat /\ import.failed \in Nat
      /\ import.created + import.failed = n - 1
  BY <1>0, BatchFacts
<1>2. /\ k \in Nat /\ k <= BatchSize /\ Batch = n .. (n + k - 1) /\ n + k \in 1 .. Rows + 1
      /\ Batch \subseteq 1 .. Rows
  BY <1>0, BatchRows
<1> HIDE DEF n, k
<1>3. ASSUME NEW took \in SUBSET Batch,
             created' = created \cup took, rejected' = rejected \cup (Batch \ took)
      PROVE /\ created' \subseteq 1 .. Rows /\ rejected' \subseteq 1 .. Rows
            /\ created' \cup rejected' = 1 .. (n + k - 1)
            /\ Cardinality(created') = Cardinality(created) + Cardinality(took)
            /\ Cardinality(rejected') = Cardinality(rejected) + Cardinality(Batch \ took)
            /\ Cardinality(took) + Cardinality(Batch \ took) = k
            /\ Cardinality(took) \in Nat /\ Cardinality(Batch \ took) \in Nat
            /\ Cardinality(created' \cup rejected') = n + k - 1
  <2>1. IsFiniteSet(took) /\ IsFiniteSet(Batch \ took)
    <3>1. Batch \ took \in SUBSET Batch OBVIOUS
    <3>. QED BY <1>1, <3>1, FS_Subset
  <2>2. created \cap took = {} /\ rejected \cap (Batch \ took) = {} /\ took \cap (Batch \ took) = {}
    BY <1>1
  <2>3. took \cup (Batch \ took) = Batch OBVIOUS
  <2>4. Cardinality(created') = Cardinality(created) + Cardinality(took)
    BY <1>1, <1>3, <2>1, <2>2, RowsAdded
  <2>5. Cardinality(rejected') = Cardinality(rejected) + Cardinality(Batch \ took)
    BY <1>1, <1>3, <2>1, <2>2, RowsAdded
  <2>6. /\ Cardinality(took) + Cardinality(Batch \ took) = k
        /\ Cardinality(took) \in Nat /\ Cardinality(Batch \ took) \in Nat
    BY <2>1, <2>2, <2>3, RowsAdded DEF k
  <2>7. created' \cup rejected' = (created \cup rejected) \cup Batch BY <1>3, <2>3
  <2>8. (1 .. (n - 1)) \cup (n .. (n + k - 1)) = 1 .. (n + k - 1) BY <1>1, <1>2
  <2>9. created' \cup rejected' = 1 .. (n + k - 1) BY <1>1, <1>2, <2>7, <2>8
  <2>10. created' \subseteq 1 .. Rows /\ rejected' \subseteq 1 .. Rows
    BY <1>0, <1>2, <1>3 DEF ImportTypeOK
  <2>11. Cardinality(1 .. (n + k - 1)) = n + k - 1
    <3>1. /\ n + k - 1 \in Int /\ 1 \in Int
          /\ IF 1 > n + k - 1 THEN n + k - 1 = 0 ELSE n + k - 1 - 1 + 1 = n + k - 1
      BY <1>1, <1>2
    <3>2. Cardinality(1 .. (n + k - 1)) = IF 1 > n + k - 1 THEN 0 ELSE n + k - 1 - 1 + 1
      BY <3>1, FS_Interval
    <3>. QED BY <3>1, <3>2
  <2>. QED BY <2>4, <2>5, <2>6, <2>9, <2>10, <2>11
<1>4. ASSUME NEW took \in SUBSET Batch,
             created' = created \cup took, rejected' = rejected \cup (Batch \ took),
             import' = [import EXCEPT !.next = @ + Cardinality(Batch), !.created = @ + Cardinality(took),
                                      !.failed = @ + Cardinality(Batch \ took)],
             UNCHANGED importStream
      PROVE ImportInv'
  <2> DEFINE t == Cardinality(took)
             r == Cardinality(Batch \ took)
  <2>1. t \in Nat /\ r \in Nat /\ t + r = k
    BY <1>3, <1>4
  <2>2. /\ import'.pc = "batches" /\ import'.next = n + k
        /\ import'.created = import.created + t /\ import'.failed = import.failed + r
    BY <1>0, <1>4 DEF ImportTypeOK, n, k
  <2>3. import' \in [pc : {"read", "batches", "done", "failed"}, next : 1 .. Rows + 1, created : Nat, failed : Nat]
    <3>1. import.created + t \in Nat /\ import.failed + r \in Nat BY <1>1, <2>1
    <3>2. import' = [import EXCEPT !.next = n + k, !.created = import.created + t, !.failed = import.failed + r]
      BY <1>0, <1>4 DEF n, k, ImportTypeOK
    <3> HIDE DEF t, r
    <3>. QED BY <1>0, <1>2, <3>1, <3>2 DEF ImportTypeOK
  <2>4. /\ created' \subseteq 1 .. Rows /\ rejected' \subseteq 1 .. Rows
        /\ created' \cup rejected' = 1 .. (n + k - 1)
        /\ Cardinality(created') = Cardinality(created) + t
        /\ Cardinality(rejected') = Cardinality(rejected) + r
    BY <1>3, <1>4
  <2> HIDE DEF t, r
  <2>5. ImportTypeOK' BY <1>0, <1>4, <2>3, <2>4 DEF ImportTypeOK
  <2>6. Counted'
    <3>1. import.created + t + (import.failed + r) = n + k - 1 BY <1>1, <1>2, <2>1
    <3>2. /\ importStream' = <<>>
          /\ import'.created = Cardinality(created') /\ import'.failed = Cardinality(rejected')
      BY <1>1, <1>4, <2>2, <2>4
    <3>3. import'.next - 1 = n + k - 1 BY <1>1, <1>2, <2>2
    <3>4. created' \cup rejected' = 1 .. (import'.next - 1) BY <2>4, <3>3
    <3>5. import'.created + import'.failed = import'.next - 1 BY <2>2, <3>1, <3>3
    <3>. QED BY <3>2, <3>4, <3>5 DEF Counted
  <2>7. ImportCounts'
    <3>1. importStream' = <<>> /\ Len(<<>>) <= 1 BY <1>1, <1>4
    <3>. QED BY <2>2, <3>1 DEF ImportCounts
  <2>. QED BY <2>5, <2>6, <2>7 DEF ImportInv
<1>5. ASSUME Ending("failed", "error"),
             created' \subseteq 1 .. Rows, rejected' \subseteq 1 .. Rows,
             Cardinality(created) <= Cardinality(created'),
             Cardinality(created' \cup rejected') <= n - 1 + BatchSize,
             created' \cup rejected' \subseteq 1 .. (n - 1 + BatchSize)
      PROVE ImportInv'
  <2>1. LET last == importStream'[Len(importStream')] IN
        /\ Len(importStream') = 1
        /\ importStream' \in Seq([kind : {"success", "error"}, created : Nat, failed : Nat])
        /\ last.created = import.created /\ last.failed = import.failed
        /\ import'.pc = "failed" /\ import' \in [pc : {"read", "batches", "done", "failed"}, next : 1 .. Rows + 1,
                                           created : Nat, failed : Nat]
    BY <1>0, <1>1, <1>5, EndingStep
  <2>2. ImportTypeOK' BY <1>5, <2>1 DEF ImportTypeOK
  <2>3. Counted' BY <2>1 DEF Counted
  <2>4. ImportCounts' BY <1>1, <1>5, <2>1 DEF ImportCounts
  <2>. QED BY <2>2, <2>3, <2>4 DEF ImportInv
<1>6. ASSUME NEW took \in SUBSET Batch,
             created' = created \cup took, rejected' = rejected \cup (Batch \ took),
             Ending("failed", "error")
      PROVE ImportInv'
  <2>1. /\ created' \subseteq 1 .. Rows /\ rejected' \subseteq 1 .. Rows
        /\ created' \cup rejected' = 1 .. (n + k - 1)
        /\ Cardinality(created') = Cardinality(created) + Cardinality(took)
        /\ Cardinality(took) \in Nat
        /\ Cardinality(created' \cup rejected') = n + k - 1
    BY <1>3, <1>6
  <2>2. Cardinality(created) \in Nat BY <1>1, FS_CardinalityType
  <2>3. Cardinality(created) <= Cardinality(created') BY <2>1, <2>2
  <2>4. n + k - 1 <= n - 1 + BatchSize /\ 1 .. (n + k - 1) \subseteq 1 .. (n - 1 + BatchSize)
    BY <1>1, <1>2
  <2>. QED BY <1>5, <1>6, <2>1, <2>3, <2>4
<1>7. ASSUME Ending("failed", "error"), UNCHANGED <<created, rejected>> PROVE ImportInv'
  <2>1. Cardinality(created) \in Nat BY <1>1, FS_CardinalityType
  <2>2. Cardinality(1 .. (n - 1)) = n - 1
    <3>1. Cardinality(1 .. (n - 1)) = IF 1 > n - 1 THEN 0 ELSE n - 1 - 1 + 1 BY <1>1, FS_Interval
    <3>. QED BY <1>1, <3>1
  <2>5. Cardinality(created \cup rejected) = n - 1 BY <1>1, <2>2
  <2>6. n - 1 <= n - 1 + BatchSize BY <1>1
  <2>3. Cardinality(created \cup rejected) <= n - 1 + BatchSize BY <2>5, <2>6
  <2>4. created \cup rejected \subseteq 1 .. (n - 1 + BatchSize) BY <1>1
  <2>. QED BY <1>0, <1>5, <1>7, <2>1, <2>3, <2>4 DEF ImportTypeOK
<1>. QED BY <1>4, <1>6, <1>7 DEF ingest_events

\* The last batch was answered.
LEMMA CompleteStep ==
  ASSUME ImportInv, ImportComplete
  PROVE ImportInv'
<1>1. /\ ImportTypeOK /\ import.pc = "batches" /\ import.next > Rows /\ Ending("done", "success")
      /\ UNCHANGED <<created, rejected>>
  BY DEF ImportInv, ImportComplete
<1>2. /\ import.next \in 1 .. Rows + 1 /\ importStream = <<>>
      /\ created \cup rejected = 1 .. (import.next - 1)
      /\ import.created = Cardinality(created) /\ import.failed = Cardinality(rejected)
      /\ import.created \in Nat /\ import.failed \in Nat
      /\ import.created + import.failed = import.next - 1
  BY <1>1, BatchFacts
<1>3. LET last == importStream'[Len(importStream')] IN
        /\ Len(importStream') = 1
        /\ importStream' \in Seq([kind : {"success", "error"}, created : Nat, failed : Nat])
        /\ last.created = import.created /\ last.failed = import.failed
        /\ import'.pc = "done" /\ import' \in [pc : {"read", "batches", "done", "failed"}, next : 1 .. Rows + 1,
                                           created : Nat, failed : Nat]
  BY <1>1, <1>2, EndingStep
<1>4. ImportTypeOK' BY <1>1, <1>3 DEF ImportTypeOK
<1>5. Counted' BY <1>3 DEF Counted
<1>6. import.created + import.failed = Rows /\ Rows \in Nat BY <1>1, <1>2
<1>7. Cardinality(created \cup rejected) = Rows /\ created \cup rejected = 1 .. Rows
  <2>1. import.next - 1 = Rows BY <1>1, <1>2
  <2>2. Cardinality(1 .. Rows) = Rows
    <3>1. Cardinality(1 .. Rows) = IF 1 > Rows THEN 0 ELSE Rows - 1 + 1 BY FS_Interval
    <3>. QED BY <3>1
  <2>. QED BY <1>2, <2>1, <2>2
<1>8. Rows <= Rows + BatchSize /\ 1 .. Rows \subseteq 1 .. (Rows + BatchSize) OBVIOUS
<1>9. ImportCounts' BY <1>1, <1>2, <1>3, <1>6, <1>7, <1>8 DEF ImportCounts
<1>. QED BY <1>4, <1>5, <1>9 DEF ImportInv

\* ImportInv holds in every state an import reaches.
THEOREM ImportInductive == ImportSpec => []ImportInv
<1>1. ImportInit => ImportInv
  <2> SUFFICES ASSUME ImportInit PROVE ImportInv OBVIOUS
  <2>1. ImportTypeOK BY DEF ImportInit, ImportTypeOK
  <2>2. Counted
    <3>1. 1 .. (1 - 1) = {} OBVIOUS
    <3>. QED BY <3>1, FS_EmptySet DEF ImportInit, Counted
  <2>3. ImportCounts BY DEF ImportInit, ImportCounts
  <2>. QED BY <2>1, <2>2, <2>3 DEF ImportInv
<1>2. ImportInv /\ [ImportNext]_importVars => ImportInv'
  <2>1. SUFFICES ASSUME ImportInv, [ImportNext]_importVars PROVE ImportInv' OBVIOUS
  <2>2. CASE resource_import
    <3>1. PICK pc \in {"batches", "failed"} : import' = [import EXCEPT !.pc = pc]
      BY <2>2 DEF resource_import
    <3>2. import.pc = "read" /\ UNCHANGED <<created, rejected, importStream>> /\ importStream = <<>>
      BY <2>1, <2>2, BatchFacts DEF resource_import
    <3>3. /\ import' \in [pc : {"read", "batches", "done", "failed"}, next : 1 .. Rows + 1,
                         created : Nat, failed : Nat]
          /\ import'.pc = pc /\ import'.next = import.next
          /\ import'.created = import.created /\ import'.failed = import.failed
      BY <2>1, <3>1 DEF ImportInv, ImportTypeOK
    <3>4. ImportTypeOK' BY <2>1, <3>2, <3>3 DEF ImportInv, ImportTypeOK
    <3>5. Counted' BY <2>1, <3>2, <3>3 DEF ImportInv, Counted
    <3>6. ImportCounts' BY <3>2, <3>3 DEF ImportCounts
    <3>. QED BY <3>4, <3>5, <3>6 DEF ImportInv
  <2>3. CASE ingest_events BY <2>1, <2>3, BatchStep
  <2>4. CASE ImportComplete BY <2>1, <2>4, CompleteStep
  <2>5. CASE UNCHANGED importVars
    BY <2>1, <2>5 DEF importVars, ImportInv, ImportTypeOK, Counted, ImportCounts
  <2>. QED BY <2>1, <2>2, <2>3, <2>4, <2>5 DEF ImportNext
<1>. QED BY <1>1, <1>2, PTL DEF ImportSpec

\* The counts an import ends with are the server's, but for the batch that was
\* cut off, and no row behind that batch was sent.
THEOREM CountsAreTheServers == ImportSpec => []ImportCounts
<1>1. ImportInv => ImportCounts BY DEF ImportInv
<1>. QED BY <1>1, ImportInductive, PTL
=============================================================================
