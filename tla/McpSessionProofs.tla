-------------------------- MODULE McpSessionProofs --------------------------
(***************************************************************************)
(* Proofs about McpSession, for every set of calls: IInv is inductive, so  *)
(* no live session is orphaned and no retry names a refused session, and   *)
(* the client implements AtMostOnce.                                       *)
(*                                                                         *)
(* A step is one of four moves of a call, each with a lemma: it posts      *)
(* (PostStep), takes the lock (OpenStep), waits for it (QueueStep) or ends *)
(* (EndStep); or it is a step of the server.                               *)
(***************************************************************************)
EXTENDS McpSession, SequenceTheorems, TLAPS

USE McpSessionAssumption DEF McpSessionAssumption

\* The first waiter leaves the queue.
LEMMA TailQueue ==
  ASSUME NEW q \in Seq(Calls), q # <<>>, NoRepeats(q)
  PROVE /\ Tail(q) \in Seq(Calls)
        /\ NoRepeats(Tail(q))
        /\ Head(q) \in Calls /\ InQueue(q, Head(q))
        /\ \A d : InQueue(Tail(q), d) <=> InQueue(q, d) /\ d # Head(q)
<1>1. /\ Tail(q) \in Seq(Calls) /\ Len(q) \in Nat \ {0}
      /\ Len(Tail(q)) = Len(q) - 1
      /\ DOMAIN q = 1 .. Len(q) /\ DOMAIN Tail(q) = 1 .. (Len(q) - 1)
      /\ \A i \in 1 .. (Len(q) - 1) : Tail(q)[i] = q[i + 1]
      /\ Head(q) = q[1] /\ Head(q) \in Calls
  OBVIOUS
<1>2. NoRepeats(Tail(q)) BY <1>1 DEF NoRepeats
<1>3. ASSUME NEW d PROVE InQueue(Tail(q), d) <=> InQueue(q, d) /\ d # Head(q)
  <2>1. ASSUME NEW i \in 1 .. (Len(q) - 1), Tail(q)[i] = d
        PROVE InQueue(q, d) /\ d # Head(q)
    <3>1. i + 1 \in DOMAIN q /\ q[i + 1] = d /\ i + 1 # 1 /\ 1 \in DOMAIN q BY <1>1, <2>1
    <3>. QED BY <3>1, <1>1 DEF InQueue, NoRepeats
  <2>2. ASSUME NEW i \in 1 .. Len(q), q[i] = d, d # Head(q)
        PROVE InQueue(Tail(q), d)
    <3>1. i - 1 \in 1 .. (Len(q) - 1) /\ Tail(q)[i - 1] = d BY <1>1, <2>2
    <3>. QED BY <3>1, <1>1 DEF InQueue
  <2>. QED BY <1>1, <2>1, <2>2 DEF InQueue
<1>4. InQueue(q, Head(q)) BY <1>1 DEF InQueue
<1>. QED BY <1>1, <1>2, <1>3, <1>4

\* A call joins the queue.
LEMMA AppendQueue ==
  ASSUME NEW q \in Seq(Calls), NoRepeats(q), NEW c \in Calls, ~InQueue(q, c)
  PROVE /\ Append(q, c) \in Seq(Calls)
        /\ NoRepeats(Append(q, c))
        /\ \A d : InQueue(Append(q, c), d) <=> InQueue(q, d) \/ d = c
<1>1. /\ Append(q, c) \in Seq(Calls) /\ Len(q) \in Nat
      /\ DOMAIN q = 1 .. Len(q) /\ DOMAIN Append(q, c) = 1 .. (Len(q) + 1)
      /\ \A i \in 1 .. Len(q) : Append(q, c)[i] = q[i]
      /\ Append(q, c)[Len(q) + 1] = c
  OBVIOUS
<1>2. NoRepeats(Append(q, c)) BY <1>1 DEF NoRepeats, InQueue
<1>3. ASSUME NEW d PROVE InQueue(Append(q, c), d) <=> InQueue(q, d) \/ d = c
  BY <1>1 DEF InQueue
<1>. QED BY <1>1, <1>2, <1>3

\* A cancelled call leaves the queue.
LEMMA RemoveQueue ==
  ASSUME NEW q \in Seq(Calls), NoRepeats(q), NEW k \in DOMAIN q
  PROVE /\ RemoveAt(q, k) \in Seq(Calls)
        /\ NoRepeats(RemoveAt(q, k))
        /\ \A d : InQueue(RemoveAt(q, k), d) <=> InQueue(q, d) /\ d # q[k]
<1> DEFINE a == SubSeq(q, 1, k - 1)
           b == SubSeq(q, k + 1, Len(q))
           r == a \o b
<1>1. /\ Len(q) \in Nat /\ DOMAIN q = 1 .. Len(q) /\ k \in 1 .. Len(q) OBVIOUS
<1>2. /\ a \in Seq(Calls) /\ Len(a) = k - 1
      /\ \A i \in 1 .. (k - 1) : a[i] = q[i]
  BY <1>1
<1>3. /\ b \in Seq(Calls) /\ Len(b) = Len(q) - k
      /\ \A i \in 1 .. (Len(q) - k) : b[i] = q[k + i]
  BY <1>1
<1>0. RemoveAt(q, k) = r BY DEF RemoveAt
<1> HIDE DEF a, b
<1>4. /\ r \in Seq(Calls) /\ DOMAIN r = 1 .. (Len(q) - 1)
      /\ \A i \in 1 .. (Len(q) - 1) : r[i] = IF i < k THEN q[i] ELSE q[i + 1]
  <2>1. r \in Seq(Calls) /\ Len(r) = Len(q) - 1
    <3>1. r \in Seq(Calls) /\ Len(r) = Len(a) + Len(b)
      BY <1>2, <1>3, ConcatProperties
    <3>. QED BY <3>1, <1>1, <1>2, <1>3
  <2>2. ASSUME NEW i \in 1 .. (Len(q) - 1)
        PROVE r[i] = IF i < k THEN q[i] ELSE q[i + 1]
    <3>1. r[i] = IF i <= Len(a) THEN a[i] ELSE b[i - Len(a)]
      BY <1>1, <1>2, <1>3, ConcatProperties
    <3>2. CASE i < k BY <3>1, <3>2, <1>1, <1>2
    <3>3. CASE ~(i < k)
      <4>1. i - Len(a) \in 1 .. (Len(q) - k) /\ k + (i - Len(a)) = i + 1
        BY <3>3, <1>1, <1>2
      <4>. QED BY <4>1, <3>1, <3>3, <1>1, <1>2, <1>3
    <3>. QED BY <3>2, <3>3
  <2>. QED BY <2>1, <2>2, <1>1
<1> HIDE DEF r
<1>5. NoRepeats(r)
  <2>1. ASSUME NEW i \in 1 .. (Len(q) - 1), NEW j \in 1 .. (Len(q) - 1), r[i] = r[j]
        PROVE i = j
    <3>1. \A x, y \in 1 .. Len(q) : q[x] = q[y] => x = y BY <1>1 DEF NoRepeats
    <3>2. /\ i \in 1 .. Len(q) /\ j \in 1 .. Len(q)
          /\ i + 1 \in 1 .. Len(q) /\ j + 1 \in 1 .. Len(q) BY <1>1
    <3>3. /\ r[i] = IF i < k THEN q[i] ELSE q[i + 1]
          /\ r[j] = IF j < k THEN q[j] ELSE q[j + 1] BY <1>4
    <3>. QED BY <3>1, <3>2, <3>3, <2>1, <1>1
  <2>. QED BY <2>1, <1>4 DEF NoRepeats
<1>6. ASSUME NEW d PROVE InQueue(r, d) <=> InQueue(q, d) /\ d # q[k]
  <2>1. ASSUME NEW i \in 1 .. (Len(q) - 1), r[i] = d
        PROVE InQueue(q, d) /\ d # q[k]
    <3>1. \E j \in 1 .. Len(q) : q[j] = d /\ j # k BY <1>1, <1>4, <2>1
    <3>. QED BY <3>1, <1>1 DEF InQueue, NoRepeats
  <2>2. ASSUME NEW i \in 1 .. Len(q), q[i] = d, d # q[k]
        PROVE InQueue(r, d)
    <3>1. CASE i < k BY <3>1, <1>1, <1>4, <2>2 DEF InQueue
    <3>2. CASE i > k
      <4>1. i - 1 \in 1 .. (Len(q) - 1) /\ r[i - 1] = d BY <3>2, <1>1, <1>4, <2>2
      <4>. QED BY <4>1, <1>4 DEF InQueue
    <3>. QED BY <3>1, <3>2, <2>2, <1>1
  <2>. QED BY <1>1, <1>4, <2>1, <2>2 DEF InQueue
<1>. QED BY <1>0, <1>4, <1>5, <1>6

\* What the type invariant says of one call and of the sessions.
LEMMA Types ==
  ASSUME TypeOK
  PROVE /\ session \in Nat /\ minted \in Nat /\ None \in Nat
        /\ \A s \in live : s \in Nat /\ 1 <= s /\ s <= minted
        /\ \A d \in Calls : /\ wire[d].kind \in Kinds /\ wire[d].sid \in Nat
                            /\ refused[d] \in Nat /\ runs[d] \in Nat
BY DEF TypeOK, Message, None

\* The same of the next state.
LEMMA TypesNext ==
  ASSUME TypeOK'
  PROVE /\ session' \in Nat /\ minted' \in Nat
        /\ \A s \in live' : s \in Nat /\ 1 <= s /\ s <= minted'
        /\ \A d \in Calls : /\ wire'[d].kind \in Kinds /\ wire'[d].sid \in Nat
                            /\ refused'[d] \in Nat /\ runs'[d] \in Nat
BY DEF TypeOK, Message, None

\* A step of call c leaves the other calls alone.
Others(c) == \A d \in Calls \ {c} :
  /\ pc'[d] = pc[d] /\ wire'[d] = wire[d] /\ refused'[d] = refused[d]
  /\ outcome'[d] = outcome[d] /\ runs'[d] = runs[d]

\* A call leaves with its first request, or with its second after the first
\* was refused and the refused session, if still in use, forgotten.
Entering(c) ==
  \/ /\ refused'[c] = refused[c]
     /\ pc[c] \in {"idle", "queued"}
     /\ session' = session
  \/ /\ refused[c] = None /\ refused'[c] = wire[c].sid
     /\ pc[c] = "posting" /\ wire[c].kind = "expired"
     /\ session' = (IF session = wire[c].sid THEN None ELSE session)

\* The call whose initialize is answered takes the session it opened.
Opening(c) ==
  /\ refused'[c] = refused[c]
  /\ pc[c] = "opening" /\ wire[c].kind = "opened"
  /\ session = None /\ session' = wire[c].sid

\* The invariants survive when a call posts its request.
LEMMA PostStep ==
  ASSUME IInv, TypeOK', SingleFlight', Queued', NEW c \in Calls, Others(c),
         Entering(c) \/ Opening(c),
         pc'[c] = "posting", wire'[c].kind = "post", wire'[c].sid = session',
         session' # None, outcome'[c] = "pending", runs'[c] = runs[c],
         wire[c].kind \notin {"result", "error"},
         UNCHANGED <<minted, live>>
  PROVE IInv'
<1>0. TypeOK BY DEF IInv
<1>1. NoOrphan'
  <2>1. CASE Entering(c)
    BY <2>1, <1>0, Types
    DEF IInv, NoOrphan, RefusedAreGone, WireFits, Others, Entering, None
  <2>2. CASE Opening(c)
    BY <2>2, <1>0, Types DEF IInv, NoOrphan, Others, Opening, None
  <2>. QED BY <2>1, <2>2
<1>2. FreshRetry'
  BY <1>0, Types, TypesNext DEF IInv, FreshRetry, RefusedAreGone, SessionsMinted, Others, Entering, Opening, None
<1>3. Honest' BY DEF IInv, Honest, RunsMatchWire, Others
<1>4. WireFits' BY DEF IInv, WireFits, Others, AnswerKinds
<1>5. RefusedAreGone'
  <2>1. \A d \in Calls \ {c} : pc[d] # "opening"
    BY DEF IInv, SingleFlight, Entering, Opening
  <2>2. \A d \in Calls : wire'[d].kind = "expired" => wire'[d].sid \notin live'
    BY DEF IInv, RefusedAreGone, Others
  <2>3. \A d \in Calls : refused'[d] # None => session' # refused'[d]
    BY DEF IInv, RefusedAreGone, Others, Entering, Opening
  <2>. QED BY <2>1, <2>2, <2>3 DEF RefusedAreGone, Others
<1>6. RunsMatchWire' BY DEF IInv, RunsMatchWire, Others
<1>7. SessionsMinted' BY <1>0, Types, TypesNext DEF IInv, SessionsMinted, RefusedAreGone, Others, Entering, Opening, None
<1>. QED BY <1>1, <1>2, <1>3, <1>4, <1>5, <1>6, <1>7 DEF IInv

\* The invariants survive when a call takes the lock and sends initialize.
LEMMA OpenStep ==
  ASSUME IInv, TypeOK', SingleFlight', Queued', NEW c \in Calls, Others(c),
         Entering(c), lock = NoCall,
         pc'[c] = "opening", wire'[c].kind = "initialize", wire'[c].sid = None,
         session' = None, outcome'[c] = "pending", runs'[c] = runs[c],
         wire[c].kind \notin {"result", "error"},
         UNCHANGED <<minted, live>>
  PROVE IInv'
<1>0. TypeOK BY DEF IInv
<1>9. \A d \in Calls : pc[d] # "opening" BY DEF IInv, SingleFlight
<1>1. NoOrphan'
  BY <1>0, <1>9, Types
  DEF IInv, NoOrphan, RefusedAreGone, WireFits, Others, Entering, None
<1>2. FreshRetry' BY DEF IInv, FreshRetry, Others
<1>3. Honest' BY DEF IInv, Honest, RunsMatchWire, Others
<1>4. WireFits' BY DEF IInv, WireFits, Others, AnswerKinds
<1>5. RefusedAreGone'
  <2>1. \A d \in Calls : wire'[d].kind = "expired" => wire'[d].sid \notin live'
    BY DEF IInv, RefusedAreGone, Others
  <2>. QED BY <2>1, <1>9 DEF RefusedAreGone, Others, AnswerKinds
<1>6. RunsMatchWire' BY DEF IInv, RunsMatchWire, Others
<1>7. SessionsMinted'
  BY <1>0, Types, TypesNext DEF IInv, SessionsMinted, Others, Entering, None
<1>. QED BY <1>1, <1>2, <1>3, <1>4, <1>5, <1>6, <1>7 DEF IInv

\* The invariants survive when a call starts to wait for the lock.
LEMMA QueueStep ==
  ASSUME IInv, TypeOK', SingleFlight', Queued', NEW c \in Calls, Others(c),
         Entering(c),
         pc'[c] = "queued", wire'[c] = wire[c], session' = None,
         wire[c].kind \in {"idle", "expired"},
         outcome'[c] = "pending", runs'[c] = runs[c],
         UNCHANGED <<minted, live>>
  PROVE IInv'
<1>0. TypeOK BY DEF IInv
<1>1. NoOrphan'
  BY <1>0, Types DEF IInv, NoOrphan, RefusedAreGone, WireFits, Others, Entering, None
<1>2. FreshRetry' BY DEF IInv, FreshRetry, Others
<1>3. Honest' BY DEF IInv, Honest, RunsMatchWire, Others
<1>4. WireFits' BY DEF IInv, WireFits, Others, AnswerKinds
<1>5. RefusedAreGone'
  <2>1. \A d \in Calls : wire'[d].kind = "expired" => wire'[d].sid \notin live'
    BY DEF IInv, RefusedAreGone, Others
  <2>2. \A d, e \in Calls : pc'[d] = "opening" /\ wire'[d].kind = "opened" =>
          /\ wire'[d].sid \in 1 .. minted'
          /\ refused'[e] # wire'[d].sid
          /\ wire'[e].kind = "post" \/ wire'[e].kind \in AnswerKinds \ {"opened"} =>
               wire'[e].sid # wire'[d].sid
    BY DEF IInv, RefusedAreGone, Others, Entering, AnswerKinds, WireFits, None
  <2>. QED BY <2>1, <2>2, <1>0, Types DEF RefusedAreGone, None
<1>6. RunsMatchWire' BY DEF IInv, RunsMatchWire, Others
<1>7. SessionsMinted'
  BY <1>0, Types, TypesNext DEF IInv, SessionsMinted, Others, Entering, None
<1>. QED BY <1>1, <1>2, <1>3, <1>4, <1>5, <1>6, <1>7 DEF IInv

\* The invariants survive when a call ends.
LEMMA EndStep ==
  ASSUME IInv, TypeOK', SingleFlight', Queued', NEW c \in Calls, Others(c),
         pc'[c] = "done", wire'[c] = wire[c], refused'[c] = refused[c],
         outcome'[c] # "none",
         outcome'[c] = "refused" => wire[c].kind \in {"expired", "no_method"},
         outcome'[c] = "result" => wire[c].kind = "result",
         runs'[c] = runs[c], UNCHANGED <<session, minted, live>>
  PROVE IInv'
<1>1. NoOrphan' BY DEF IInv, NoOrphan, Others
<1>2. FreshRetry' BY DEF IInv, FreshRetry, Others
<1>3. Honest' BY DEF IInv, Honest, RunsMatchWire, Others
<1>4. WireFits' BY DEF IInv, WireFits, Others
<1>5. RefusedAreGone' BY DEF IInv, RefusedAreGone, Others
<1>6. RunsMatchWire' BY DEF IInv, RunsMatchWire, Others
<1>7. SessionsMinted' BY DEF IInv, SessionsMinted, Others
<1>. QED BY <1>1, <1>2, <1>3, <1>4, <1>5, <1>6, <1>7 DEF IInv

\* The invariants survive when the server answers an initialize.
LEMMA ServeInitializeStep ==
  ASSUME IInv, NEW c \in Calls, ServeInitialize(c)
  PROVE IInv'
<1>0. TypeOK BY DEF IInv
<1>1. /\ UNCHANGED <<session, lock, queue, pc, refused, outcome, runs>>
      /\ wire[c].kind = "initialize"
      /\ \A d \in Calls \ {c} : wire'[d] = wire[d]
      /\ \/ /\ minted' = minted + 1 /\ live' = live \cup {minted'}
            /\ wire'[c].kind = "opened" /\ wire'[c].sid = minted'
         \/ /\ UNCHANGED <<minted, live>>
            /\ wire'[c].kind = "rejected" /\ wire'[c].sid = None
  BY <1>0 DEF ServeInitialize, client, TypeOK, Ans
<1>2. TypeOK'
  <2>1. wire' \in [Calls -> Message]
    <3>1. \A k \in Kinds, s \in Nat : Ans(k, s) \in Message BY DEF Ans, Message
    <3>2. {"opened", "rejected"} \subseteq Kinds BY DEF Kinds, AnswerKinds
    <3>3. minted + 1 \in Nat BY <1>0 DEF TypeOK
    <3>4. PICK m \in Message : wire' = [wire EXCEPT ![c] = m]
      BY <3>1, <3>2, <3>3, Types, <1>0 DEF ServeInitialize
    <3>. QED BY <3>4, <1>0 DEF TypeOK
  <2>2. minted' \in Nat BY <1>0, <1>1, Types
  <2>3. ASSUME NEW s \in live' PROVE s \in 1 .. minted'
    BY <1>0, <1>1, Types
  <2>. QED BY <2>1, <2>2, <2>3, <1>0, <1>1 DEF TypeOK
<1>3. SingleFlight' /\ Queued' BY <1>1 DEF IInv, SingleFlight, Queued
<1>4. NoOrphan' BY <1>1 DEF IInv, NoOrphan
<1>5. FreshRetry'
  BY <1>0, <1>1, Types DEF IInv, FreshRetry, WireFits, AnswerKinds
<1>6. Honest' BY <1>1 DEF IInv, Honest
<1>7. WireFits' BY <1>1 DEF IInv, WireFits, AnswerKinds
<1>8. RefusedAreGone'
  <2>1. \A d \in Calls : wire'[d].kind = "expired" => wire'[d].sid \notin live'
    BY <1>0, <1>1, Types DEF IInv, RefusedAreGone, SessionsMinted
  <2>2. \A d \in Calls : refused'[d] # None => session' # refused'[d]
    BY <1>1 DEF IInv, RefusedAreGone
  <2>3. \A d, e \in Calls : pc'[d] = "opening" /\ wire'[d].kind = "opened" =>
          /\ wire'[d].sid \in 1 .. minted'
          /\ refused'[e] # wire'[d].sid
          /\ wire'[e].kind = "post" \/ wire'[e].kind \in AnswerKinds \ {"opened"} =>
               wire'[e].sid # wire'[d].sid
    <3>1. SUFFICES ASSUME NEW d \in Calls, NEW e \in Calls,
                          pc'[d] = "opening", wire'[d].kind = "opened"
                   PROVE /\ wire'[d].sid \in 1 .. minted'
                         /\ refused'[e] # wire'[d].sid
                         /\ wire'[e].kind = "post" \/ wire'[e].kind \in AnswerKinds \ {"opened"} =>
                              wire'[e].sid # wire'[d].sid
      OBVIOUS
    <3>2. CASE d = c
      BY <3>1, <3>2, <1>0, <1>1, Types DEF IInv, SessionsMinted, None
    <3>3. CASE d # c
      BY <3>1, <3>3, <1>0, <1>1, Types
      DEF IInv, RefusedAreGone, None
    <3>. QED BY <3>2, <3>3
  <2>. QED BY <2>1, <2>2, <2>3 DEF RefusedAreGone
<1>9. RunsMatchWire' BY <1>1 DEF IInv, RunsMatchWire
<1>10. SessionsMinted'
  BY <1>0, <1>1, Types DEF IInv, SessionsMinted, None
<1>. QED BY <1>2, <1>3, <1>4, <1>5, <1>6, <1>7, <1>8, <1>9, <1>10 DEF IInv

\* The invariants survive when the server answers a request.
LEMMA ServePostStep ==
  ASSUME IInv, NEW c \in Calls, ServePost(c)
  PROVE IInv'
<1>0. TypeOK BY DEF IInv
<1>1. /\ UNCHANGED <<session, lock, queue, pc, refused, outcome, minted, live>>
      /\ wire[c].kind = "post" /\ wire'[c].sid = wire[c].sid
      /\ \A d \in Calls \ {c} : wire'[d] = wire[d] /\ runs'[d] = runs[d]
      /\ \/ wire'[c].kind \in {"result", "error"} /\ runs'[c] = runs[c] + 1
         \/ /\ wire'[c].kind \in {"expired", "no_method", "rejected"}
            /\ wire'[c].kind = "expired" => wire[c].sid \notin live
            /\ runs'[c] = runs[c]
  BY <1>0 DEF ServePost, client, TypeOK, Ans
<1>2. TypeOK'
  <2>1. wire' \in [Calls -> Message]
    <3>1. \A k \in Kinds, s \in Nat : Ans(k, s) \in Message BY DEF Ans, Message
    <3>2. {"result", "error", "expired", "no_method", "rejected"} \subseteq Kinds
      BY DEF Kinds, AnswerKinds
    <3>3. PICK m \in Message : wire' = [wire EXCEPT ![c] = m]
      BY <3>1, <3>2, <1>0, Types DEF ServePost
    <3>. QED BY <3>3, <1>0 DEF TypeOK
  <2>2. runs' \in [Calls -> Nat]
    <3>1. runs[c] + 1 \in Nat BY <1>0, Types
    <3>2. runs' = runs \/ runs' = [runs EXCEPT ![c] = runs[c] + 1] BY DEF ServePost
    <3>. QED BY <3>1, <3>2, <1>0 DEF TypeOK
  <2>. QED BY <2>1, <2>2, <1>0, <1>1 DEF TypeOK
<1>3. SingleFlight' /\ Queued' BY <1>1 DEF IInv, SingleFlight, Queued
<1>4. NoOrphan' BY <1>1 DEF IInv, NoOrphan
<1>5. FreshRetry' BY <1>1 DEF IInv, FreshRetry
<1>11. runs[c] = 0 BY <1>1 DEF IInv, RunsMatchWire
<1>6. Honest'
  BY <1>1, <1>11 DEF IInv, Honest, WireFits
<1>7. WireFits' BY <1>1 DEF IInv, WireFits, AnswerKinds
<1>8. RefusedAreGone' BY <1>1 DEF IInv, RefusedAreGone, AnswerKinds
<1>9. RunsMatchWire' BY <1>1, <1>11 DEF IInv, RunsMatchWire
<1>10. SessionsMinted' BY <1>1 DEF IInv, SessionsMinted
<1>. QED BY <1>2, <1>3, <1>4, <1>5, <1>6, <1>7, <1>8, <1>9, <1>10 DEF IInv

\* The invariants survive when the server ends a session.
LEMMA DropStep ==
  ASSUME IInv, NEW s \in live, Drop(s)
  PROVE IInv'
<1>1. /\ UNCHANGED <<session, lock, queue, pc, refused, outcome, wire, minted, runs>>
      /\ live' \subseteq live
  BY DEF Drop, client
<1>2. TypeOK' BY <1>1 DEF IInv, TypeOK
<1>3. SingleFlight' /\ Queued' BY <1>1 DEF IInv, SingleFlight, Queued
<1>4. NoOrphan' BY <1>1 DEF IInv, NoOrphan
<1>5. FreshRetry' BY <1>1 DEF IInv, FreshRetry
<1>6. Honest' /\ WireFits' BY <1>1 DEF IInv, Honest, WireFits
<1>8. RefusedAreGone' BY <1>1 DEF IInv, RefusedAreGone
<1>9. RunsMatchWire' BY <1>1 DEF IInv, RunsMatchWire
<1>10. SessionsMinted' BY <1>1 DEF IInv, SessionsMinted
<1>. QED BY <1>2, <1>3, <1>4, <1>5, <1>6, <1>8, <1>9, <1>10 DEF IInv

\* A call that sends, or ends, leaves control and wire well typed.
LEMMA SendType ==
  ASSUME TypeOK, NEW c \in Calls, NEW l \in PC, NEW m \in Message, Send(c, l, m)
  PROVE /\ pc' \in [Calls -> PC] /\ wire' \in [Calls -> Message]
        /\ pc'[c] = l /\ wire'[c] = m
        /\ \A d \in Calls \ {c} : pc'[d] = pc[d] /\ wire'[d] = wire[d]
BY DEF TypeOK, Send

\* What a POST of the request does to pc and wire.
LEMMA PostType ==
  ASSUME TypeOK, NEW c \in Calls, NEW s \in Nat, Post(c, s)
  PROVE /\ pc' \in [Calls -> PC] /\ wire' \in [Calls -> Message]
        /\ pc'[c] = "posting" /\ wire'[c].kind = "post" /\ wire'[c].sid = s
        /\ \A d \in Calls \ {c} : pc'[d] = pc[d] /\ wire'[d] = wire[d]
<1>1. "posting" \in PC BY DEF PC
<1>2. PostReq(s) \in Message BY DEF PostReq, Message, Kinds
<1>3. PostReq(s).kind = "post" /\ PostReq(s).sid = s BY DEF PostReq
<1>. QED BY <1>1, <1>2, <1>3, SendType DEF Post

\* What a POST of initialize does to pc and wire.
LEMMA OpenType ==
  ASSUME TypeOK, NEW c \in Calls, Send(c, "opening", InitReq)
  PROVE /\ pc' \in [Calls -> PC] /\ wire' \in [Calls -> Message]
        /\ pc'[c] = "opening" /\ wire'[c].kind = "initialize" /\ wire'[c].sid = None
        /\ \A d \in Calls \ {c} : pc'[d] = pc[d] /\ wire'[d] = wire[d]
<1>1. "opening" \in PC BY DEF PC
<1>2. InitReq \in Message BY DEF InitReq, Message, Kinds, None
<1>3. InitReq.kind = "initialize" /\ InitReq.sid = None BY DEF InitReq
<1>. QED BY <1>1, <1>2, <1>3, SendType

\* What the end of a call does to pc and outcome.
LEMMA EndType ==
  ASSUME TypeOK, NEW c \in Calls, NEW o \in {"result", "refused", "unknown"}, End(c, o)
  PROVE /\ pc' \in [Calls -> PC]
        /\ outcome' \in [Calls -> {"none", "pending", "result", "refused", "unknown"}]
        /\ pc'[c] = "done" /\ outcome'[c] = o
        /\ \A d \in Calls \ {c} : pc'[d] = pc[d] /\ outcome'[d] = outcome[d]
BY DEF TypeOK, End, PC

\* _initialize_session and what follows keep the invariants, for a first
\* request and for a retry.
LEMMA EnsureSessionStep ==
  ASSUME IInv, NEW c \in Calls, NEW s \in Nat, EnsureSession(c, s),
         pc[c] \in {"idle", "posting"}, wire[c].kind \in {"idle", "expired"},
         Entering(c),
         s # None => s # refused'[c],
         \A d \in Calls \ {c} : refused'[d] = refused[d] /\ outcome'[d] = outcome[d],
         refused' \in [Calls -> Nat],
         outcome' \in [Calls -> {"none", "pending", "result", "refused", "unknown"}],
         outcome'[c] = "pending", UNCHANGED server
  PROVE IInv'
<1>0. TypeOK /\ Queued /\ SingleFlight /\ session' = s
  BY DEF IInv, EnsureSession
<1>1. runs' = runs /\ minted' = minted /\ live' = live BY DEF server
<1>2. lock # c /\ ~InQueue(queue, c) BY <1>0 DEF SingleFlight, Queued
<1>3. CASE s # None
  <2>1. Post(c, s) /\ UNCHANGED <<lock, queue>> BY <1>3 DEF EnsureSession
  <2>2. TypeOK' BY <2>1, <1>0, <1>1, PostType DEF TypeOK
  <2>3. session = s BY <1>3, <1>0 DEF Entering
  <2>4. SingleFlight' BY <2>1, <2>3, <1>0, <1>2, PostType DEF SingleFlight
  <2>5. Queued' BY <2>1, <1>0, <1>2, PostType DEF Queued
  <2>6. Others(c) BY <2>1, <1>0, <1>1, PostType DEF Others
  <2>. QED BY <2>1, <2>2, <2>4, <2>5, <2>6, <1>0, <1>1, <1>3, PostType, PostStep
<1>4. CASE s = None /\ lock = NoCall /\ queue = <<>>
  <2>1. /\ Send(c, "opening", InitReq) /\ lock' = c /\ UNCHANGED queue
    BY <1>4 DEF EnsureSession
  <2>2. TypeOK' BY <2>1, <1>0, <1>1, OpenType DEF TypeOK
  <2>4. SingleFlight' BY <2>1, <1>0, <1>4, OpenType DEF SingleFlight
  <2>5. Queued' BY <2>1, <1>0, <1>2, OpenType DEF Queued
  <2>6. Others(c) BY <2>1, <1>0, <1>1, OpenType DEF Others
  <2>. QED BY <2>1, <2>2, <2>4, <2>5, <2>6, <1>0, <1>1, <1>4, OpenType, OpenStep
<1>5. CASE s = None /\ (lock # NoCall \/ queue # <<>>)
  <2>1. /\ queue' = Append(queue, c) /\ pc' = [pc EXCEPT ![c] = "queued"]
        /\ UNCHANGED <<lock, wire>>
    BY <1>5 DEF EnsureSession
  <2>2. /\ pc' \in [Calls -> PC] /\ pc'[c] = "queued"
        /\ \A d \in Calls \ {c} : pc'[d] = pc[d]
    BY <2>1, <1>0 DEF TypeOK, PC
  <2>3. queue \in Seq(Calls) /\ NoRepeats(queue) BY <1>0 DEF TypeOK, Queued
  <2>4. /\ queue' \in Seq(Calls) /\ NoRepeats(queue')
        /\ \A d : InQueue(queue', d) <=> InQueue(queue, d) \/ d = c
    BY <2>1, <2>3, <1>2, AppendQueue
  <2>5. TypeOK' BY <2>1, <2>2, <2>4, <1>0, <1>1 DEF TypeOK
  <2>6. SingleFlight' BY <2>1, <2>2, <1>0, <1>2, <1>5 DEF SingleFlight
  <2>7. Queued' BY <2>2, <2>4, <1>0 DEF Queued
  <2>8. Others(c) BY <2>1, <2>2, <1>1 DEF Others
  <2>. QED BY <2>1, <2>2, <2>5, <2>6, <2>7, <2>8, <1>0, <1>1, <1>5, QueueStep
<1>. QED BY <1>3, <1>4, <1>5

\* The invariants survive the first request of a call.
LEMMA StartStep == ASSUME IInv, NEW c \in Calls, Start(c) PROVE IInv'
<1>0. TypeOK /\ WireFits BY DEF IInv
<1>1. /\ pc[c] = "idle" /\ EnsureSession(c, session)
      /\ outcome' = [outcome EXCEPT ![c] = "pending"]
      /\ refused' = refused /\ UNCHANGED server
  BY DEF Start
<1>2. /\ outcome' \in [Calls -> {"none", "pending", "result", "refused", "unknown"}]
      /\ outcome'[c] = "pending"
      /\ \A d \in Calls \ {c} : outcome'[d] = outcome[d]
  BY <1>0, <1>1 DEF TypeOK
<1>3. wire[c].kind = "idle" /\ refused[c] = None BY <1>0, <1>1 DEF WireFits
<1>4. Entering(c) BY <1>1 DEF Entering, EnsureSession
<1>5. session \in Nat /\ refused' \in [Calls -> Nat] BY <1>0, <1>1 DEF TypeOK
<1>. QED BY <1>1, <1>2, <1>3, <1>4, <1>5, EnsureSessionStep

\* The invariants survive the retry of a refused call.
LEMMA RetryStep == ASSUME IInv, NEW c \in Calls, Retry(c) PROVE IInv'
<1>0. TypeOK /\ WireFits BY DEF IInv
<1>1. /\ pc[c] = "posting" /\ wire[c].kind = "expired" /\ refused[c] = None
      /\ refused' = [refused EXCEPT ![c] = wire[c].sid]
      /\ EnsureSession(c, Forget(wire[c].sid))
      /\ outcome' = outcome /\ UNCHANGED server
  BY DEF Retry, SessionExpired
<1>2. /\ refused' \in [Calls -> Nat] /\ refused'[c] = wire[c].sid
      /\ \A d \in Calls \ {c} : refused'[d] = refused[d]
  BY <1>0, <1>1, Types DEF TypeOK
<1>3. outcome[c] = "pending" BY <1>1 DEF IInv, WireFits
<1>4. /\ Forget(wire[c].sid) \in Nat
      /\ Forget(wire[c].sid) # None => Forget(wire[c].sid) # wire[c].sid
  BY <1>0, Types DEF Forget
<1>5. Entering(c) BY <1>1, <1>2 DEF Entering, EnsureSession, Forget
<1>. QED BY <1>0, <1>1, <1>2, <1>3, <1>4, <1>5, EnsureSessionStep DEF TypeOK

\* The invariants survive when a waiter gets the lock.
LEMMA GrantedStep == ASSUME IInv, NEW c \in Calls, Granted(c) PROVE IInv'
<1>0. TypeOK /\ Queued /\ SingleFlight /\ WireFits BY DEF IInv
<1>1. /\ queue # <<>> /\ Head(queue) = c /\ lock = NoCall
      /\ queue' = Tail(queue)
      /\ UNCHANGED <<session, refused, outcome>> /\ UNCHANGED server
  BY DEF Granted
<1>2. queue \in Seq(Calls) /\ NoRepeats(queue) BY <1>0 DEF TypeOK, Queued
<1>3. /\ queue' \in Seq(Calls) /\ NoRepeats(queue') /\ InQueue(queue, c)
      /\ \A d : InQueue(queue', d) <=> InQueue(queue, d) /\ d # c
  BY <1>1, <1>2, TailQueue
<1>4. pc[c] = "queued" BY <1>0, <1>3 DEF Queued
<1>5. /\ wire[c].kind \in {"idle", "expired"} /\ outcome[c] = "pending"
  BY <1>0, <1>4 DEF WireFits
<1>6. runs' = runs /\ minted' = minted /\ live' = live BY <1>1 DEF server
<1>7. Entering(c) BY <1>1, <1>4 DEF Entering
<1>8. CASE session # None /\ Post(c, session) /\ UNCHANGED lock
  <2>1. session \in Nat BY <1>0, Types
  <2>2. TypeOK' BY <2>1, <1>0, <1>1, <1>3, <1>6, <1>8, PostType DEF TypeOK
  <2>3. SingleFlight' BY <2>1, <1>0, <1>1, <1>8, PostType DEF SingleFlight
  <2>4. Queued' BY <2>1, <1>0, <1>3, <1>8, PostType DEF Queued
  <2>5. Others(c) BY <2>1, <1>0, <1>1, <1>6, <1>8, PostType DEF Others
  <2>. QED BY <2>1, <2>2, <2>3, <2>4, <2>5, <1>0, <1>1, <1>5, <1>6, <1>7, <1>8, PostType, PostStep
<1>9. CASE session = None /\ lock' = c /\ Send(c, "opening", InitReq)
  <2>2. TypeOK' BY <1>0, <1>1, <1>3, <1>6, <1>9, OpenType DEF TypeOK
  <2>3. SingleFlight' BY <1>0, <1>1, <1>9, OpenType DEF SingleFlight
  <2>4. Queued' BY <1>0, <1>3, <1>9, OpenType DEF Queued
  <2>5. Others(c) BY <1>0, <1>1, <1>6, <1>9, OpenType DEF Others
  <2>. QED BY <2>2, <2>3, <2>4, <2>5, <1>0, <1>1, <1>5, <1>6, <1>7, <1>9, OpenType, OpenStep
<1>. QED BY <1>8, <1>9 DEF Granted

\* The invariants survive when a call reads the session it opened.
LEMMA OpenedStep == ASSUME IInv, NEW c \in Calls, Opened(c) PROVE IInv'
<1>0. TypeOK /\ Queued /\ SingleFlight /\ WireFits /\ RefusedAreGone BY DEF IInv
<1>1. /\ pc[c] = "opening" /\ wire[c].kind = "opened"
      /\ session' = wire[c].sid /\ lock' = NoCall
      /\ Post(c, wire[c].sid)
      /\ UNCHANGED <<queue, refused, outcome>> /\ UNCHANGED server
  BY DEF Opened
<1>2. runs' = runs /\ minted' = minted /\ live' = live BY <1>1 DEF server
<1>3. wire[c].sid \in Nat /\ wire[c].sid # None
  BY <1>0, <1>1, Types DEF RefusedAreGone, None
<1>4. lock = c /\ session = None BY <1>0, <1>1 DEF SingleFlight
<1>5. outcome[c] = "pending" BY <1>0, <1>1 DEF WireFits
<1>6. Opening(c) BY <1>1, <1>4 DEF Opening
<1>7. TypeOK' BY <1>0, <1>1, <1>2, <1>3, PostType DEF TypeOK
<1>8. SingleFlight' BY <1>0, <1>1, <1>3, <1>4, PostType DEF SingleFlight
<1>9. Queued' BY <1>0, <1>1, <1>3, PostType DEF Queued
<1>10. Others(c) BY <1>0, <1>1, <1>2, <1>3, PostType DEF Others
<1>. QED BY <1>0, <1>1, <1>2, <1>3, <1>5, <1>6, <1>7, <1>8, <1>9, <1>10, PostType, PostStep

\* The steps that end a call: OpenFails, Answered, Lost and CancelQueued.
LEMMA EndsStep ==
  ASSUME IInv, NEW c \in Calls,
         OpenFails(c) \/ Answered(c) \/ Lost(c) \/ CancelQueued(c)
  PROVE IInv'
<1>0. TypeOK /\ Queued /\ SingleFlight /\ WireFits BY DEF IInv
<1>1. UNCHANGED <<session, refused, wire, minted, live, runs>>
  BY DEF OpenFails, Answered, Lost, CancelQueued, server
<1>2. PICK o \in {"result", "refused", "unknown"} :
        /\ End(c, o)
        /\ o = "result" => wire[c].kind = "result"
        /\ o = "refused" => wire[c].kind \in {"expired", "no_method"}
  <2>1. CASE Answered(c)
    <3>1. OutcomeOf(wire[c].kind) \in {"result", "refused", "unknown"} BY DEF OutcomeOf
    <3>. QED BY <2>1, <3>1 DEF Answered, OutcomeOf
  <2>2. CASE OpenFails(c) \/ Lost(c) \/ CancelQueued(c)
    BY <2>2 DEF OpenFails, Lost, CancelQueued
  <2>. QED BY <2>1, <2>2
<1>3. /\ pc[c] \in {"opening", "posting", "queued"}
      /\ lock' = IF lock = c THEN NoCall ELSE lock
  BY <1>0 DEF OpenFails, Answered, Lost, CancelQueued, SingleFlight
<1>4. /\ queue' \in Seq(Calls) /\ NoRepeats(queue')
      /\ \A d : InQueue(queue', d) <=> InQueue(queue, d) /\ d # c
  <2>0. queue \in Seq(Calls) /\ NoRepeats(queue) BY <1>0 DEF TypeOK, Queued
  <2>1. CASE CancelQueued(c)
    BY <2>0, <2>1, RemoveQueue DEF CancelQueued
  <2>2. CASE OpenFails(c) \/ Answered(c) \/ Lost(c)
    <3>1. queue' = queue /\ pc[c] # "queued" BY <2>2 DEF OpenFails, Answered, Lost
    <3>2. ~InQueue(queue, c) BY <3>1, <1>0 DEF Queued
    <3>. QED BY <2>0, <3>1, <3>2
  <2>. QED BY <2>1, <2>2
<1>5. TypeOK' BY <1>0, <1>1, <1>2, <1>3, <1>4, EndType DEF TypeOK
<1>6. SingleFlight' BY <1>0, <1>1, <1>2, <1>3, EndType DEF SingleFlight
<1>7. Queued' BY <1>0, <1>2, <1>4, EndType DEF Queued
<1>8. Others(c) BY <1>0, <1>1, <1>2, EndType DEF Others
<1>. QED BY <1>0, <1>1, <1>2, <1>5, <1>6, <1>7, <1>8, EndType, EndStep

\* The initial state satisfies the invariant.
LEMMA InitHolds == ASSUME Init PROVE IInv
<1>1. TypeOK
  <2>1. Idle \in Message BY DEF Idle, Message, Kinds, None
  <2>. QED BY <2>1 DEF Init, TypeOK, None, PC
<1>2. \A c \in Calls : wire[c].kind = "idle" /\ wire[c].sid = None BY DEF Init, Idle
<1>3. SingleFlight /\ NoOrphan /\ FreshRetry BY DEF Init, SingleFlight, NoOrphan, FreshRetry
<1>4. Honest /\ RunsMatchWire BY <1>2 DEF Init, Honest, RunsMatchWire
<1>5. Queued BY DEF Init, Queued, InQueue, NoRepeats
<1>6. WireFits /\ RefusedAreGone /\ SessionsMinted
  BY <1>2 DEF Init, WireFits, RefusedAreGone, SessionsMinted, None
<1>. QED BY <1>1, <1>3, <1>4, <1>5, <1>6 DEF IInv

\* IInv is inductive.
LEMMA NextHolds == ASSUME IInv, [Next]_vars PROVE IInv'
<1>1. CASE UNCHANGED vars
  BY <1>1 DEF vars, IInv, TypeOK, SingleFlight, NoOrphan, FreshRetry, Honest,
     Queued, WireFits, RefusedAreGone, RunsMatchWire, SessionsMinted
<1>2. ASSUME NEW c \in Calls, Start(c) PROVE IInv' BY <1>2, StartStep
<1>3. ASSUME NEW c \in Calls, Granted(c) PROVE IInv' BY <1>3, GrantedStep
<1>4. ASSUME NEW c \in Calls, Opened(c) PROVE IInv' BY <1>4, OpenedStep
<1>5. ASSUME NEW c \in Calls, Retry(c) PROVE IInv' BY <1>5, RetryStep
<1>6. ASSUME NEW c \in Calls, OpenFails(c) \/ Answered(c) \/ Lost(c) \/ CancelQueued(c)
      PROVE IInv'
  BY <1>6, EndsStep
<1>7. ASSUME NEW c \in Calls, ServeInitialize(c) PROVE IInv' BY <1>7, ServeInitializeStep
<1>8. ASSUME NEW c \in Calls, ServePost(c) PROVE IInv' BY <1>8, ServePostStep
<1>9. ASSUME NEW s \in live, Drop(s) PROVE IInv' BY <1>9, DropStep
<1>. QED BY <1>1, <1>2, <1>3, <1>4, <1>5, <1>6, <1>7, <1>8, <1>9 DEF Next, Step

\* Every step of the client and the server is a step of the promise, or none
\* of its business.
LEMMA StepImplements ==
  ASSUME IInv, [Next]_vars
  PROVE [Promise!Next]_<<runs, outcome>>
<1>0. TypeOK /\ WireFits /\ RunsMatchWire BY DEF IInv
<1>1. CASE UNCHANGED vars BY <1>1 DEF vars
<1>2. ASSUME NEW c \in Calls, Start(c) PROVE Promise!Invoke(c)
  BY <1>0, <1>2 DEF Start, server, WireFits, Promise!Invoke
<1>3. ASSUME NEW c \in Calls, Granted(c) \/ Opened(c) \/ Retry(c) \/ ServeInitialize(c)
      PROVE UNCHANGED <<runs, outcome>>
  BY <1>3 DEF Granted, Opened, Retry, ServeInitialize, server, client
<1>4. ASSUME NEW c \in Calls,
             OpenFails(c) \/ Answered(c) \/ Lost(c) \/ CancelQueued(c)
      PROVE Promise!Return(c)
  <2>1. runs' = runs BY <1>4 DEF OpenFails, Answered, Lost, CancelQueued, server
  <2>2. outcome[c] = "pending"
    BY <1>0, <1>4 DEF WireFits, OpenFails, Answered, Lost, CancelQueued
  <2>3. CASE OpenFails(c) \/ Lost(c) \/ CancelQueued(c)
    BY <2>1, <2>2, <2>3 DEF OpenFails, Lost, CancelQueued, End, Promise!Return
  <2>4. CASE Answered(c)
    <3>1. wire[c].kind = "result" => runs[c] = 1 BY <1>0 DEF RunsMatchWire
    <3>2. wire[c].kind \in {"expired", "no_method"} => runs[c] = 0
      BY <1>0 DEF RunsMatchWire
    <3>3. outcome' = [outcome EXCEPT ![c] = OutcomeOf(wire[c].kind)]
      BY <2>4 DEF Answered, End
    <3>. QED BY <2>1, <2>2, <3>1, <3>2, <3>3 DEF OutcomeOf, Promise!Return
  <2>. QED BY <1>4, <2>3, <2>4
<1>5. ASSUME NEW c \in Calls, ServePost(c)
      PROVE Promise!Run(c) \/ UNCHANGED <<runs, outcome>>
  <2>1. wire[c].kind = "post" /\ outcome' = outcome BY <1>5 DEF ServePost, client
  <2>2. runs[c] = 0 BY <2>1, <1>0 DEF RunsMatchWire
  <2>3. outcome[c] \in {"pending", "unknown"} BY <2>1, <1>0 DEF WireFits, TypeOK
  <2>4. runs' = runs \/ runs' = [runs EXCEPT ![c] = 1]
    <3>1. runs' = runs \/ runs' = [runs EXCEPT ![c] = runs[c] + 1] BY <1>5 DEF ServePost
    <3>. QED BY <3>1, <2>2
  <2>. QED BY <2>1, <2>2, <2>3, <2>4 DEF Promise!Run
<1>6. ASSUME NEW s \in live, Drop(s) PROVE UNCHANGED <<runs, outcome>>
  BY <1>6 DEF Drop, client
<1>. QED BY <1>1, <1>2, <1>3, <1>4, <1>5, <1>6 DEF Next, Step, Promise!Next

\* IInv holds in every state the client and the server can reach.
THEOREM Inductive == Spec => []IInv
<1>. QED BY InitHolds, NextHolds, PTL DEF Spec

\* The client never leaves a live session behind, except where an initialize
\* was given up: concurrent calls share one (client.py:427-429,529-531).
THEOREM NoOrphans == Spec => []NoOrphan
<1>1. IInv => NoOrphan BY DEF IInv
<1>. QED BY <1>1, Inductive, PTL

\* The retry after a 404 never names the session that was refused.
THEOREM FreshRetries == Spec => []FreshRetry
<1>1. IInv => FreshRetry BY DEF IInv
<1>. QED BY <1>1, Inductive, PTL

\* The server runs a call at most once, and the caller is not told that it
\* was refused, or given a result, when it was not so (client.py:507-513).
THEOREM Refinement == Spec => ImplementsAtMostOnce
<1>1. Init => Promise!Init BY DEF Init, Promise!Init
<1>2. IInv /\ [Next]_vars => [Promise!Next]_<<runs, outcome>> BY StepImplements
<1>. QED BY <1>1, <1>2, Inductive, PTL DEF Spec, Promise!Spec, ImplementsAtMostOnce
=============================================================================
