--------------------------- MODULE McpProxyProofs ---------------------------
(***************************************************************************)
(* Proofs about McpProxy, for every set of messages and every number of    *)
(* sessions the upstream ends: IInv is inductive, so every message is      *)
(* answered as JSON-RPC wants it, the handshake the client made is the one *)
(* in force, and the proxy implements AtMostOnce.                          *)
(*                                                                         *)
(* A step of the proxy ends the message (EndStep), posts for it once more  *)
(* (the steps Reopen, Replayed and Announced), or repeats the POST; the    *)
(* upstream's steps share what AcceptSessions and AcceptRuns say.          *)
(***************************************************************************)
EXTENDS McpProxy, SequenceTheorems, TLAPS

USE McpProxyAssumption DEF McpProxyAssumption, Messages, Calls, Succeeded

\* A POST, or its answer.
PostType(n) ==
  [kind : {"idle", "post"} \cup AnswerKinds, use : Uses, msg : Messages \cup {NoMsg},
   sid : 0 .. n, old : 0 .. n, header : 0 .. n]

\* One message is forwarded at a time, and every POST is for it: itself, the
\* replay of the remembered initialize or its announcement.  An initialize
\* goes out once.
Forwarding ==
  /\ \A m \in Messages : outcome[m] = "pending" <=> m = cur
  /\ cur = NoMsg <=> wire.kind = "idle"
  /\ wire.kind = "idle" => wire = NoPost
  /\ wire.kind # "idle" => wire.msg = CASE wire.use = "replay" -> cached
                                        [] wire.use = "announce" -> NoMsg
                                        [] OTHER -> cur
  /\ wire.use = "replay" => cached # NoMsg
  /\ wire.use # "first" => cur \in Calls

\* The session kept was opened by the remembered initialize; or, after a replay
\* that failed, by none.
Restored == SameHandshake /\ InForce

\* What the sessions a POST names have to do with each other.  Only an answer
\* that opened a session names one.
Sessions ==
  /\ wire.header # None =>
       /\ wire.kind \in Succeeded
       /\ opener[wire.header] = (IF wire.msg \in Inits THEN wire.msg ELSE NoMsg)
       /\ wire.header # wire.old
  /\ wire.kind \in Succeeded /\ (wire.msg \in Inits \/ wire.sid = None) => wire.header # None
  /\ wire.sid # None /\ wire.msg \notin Inits => wire.header = None
  /\ wire.use = "first" /\ wire.msg \in Inits => wire.sid = None
  /\ wire.use = "first" /\ wire.msg \in Calls => wire.sid = session
  /\ wire.use = "announce" =>
       /\ wire.sid # None /\ session = wire.sid
       /\ wire.sid # wire.old /\ opener[wire.sid] = cached
  /\ wire.use = "again" =>
       /\ wire.sid # wire.old
       /\ cached # NoMsg => wire.sid # None /\ opener[wire.sid] = cached

\* What the upstream answers once it has run a message.
Dispatched == Succeeded \cup {"error"}

\* A call ran once the POST under way was dispatched, and not before; one
\* given up has at most one POST left, which was not.
RunsMatch ==
  /\ \A c \in Calls : outcome[c] = "none" => runs[c] = 0
  /\ cur \in Calls =>
       runs[cur] = IF wire.use \in {"first", "again"} /\ wire.kind \in Dispatched THEN 1 ELSE 0
  /\ \A p \in late : p.msg \in Calls => outcome[p.msg] = "unknown" /\ runs[p.msg] = 0
  /\ \A p, q \in late : p.msg = q.msg /\ p.msg \in Calls => p = q

IInv == /\ TypeOK
        /\ late \subseteq PostType(Len(opener))
        /\ Forwarding
        /\ OneReply
        /\ Restored
        /\ Sessions
        /\ RunsMatch

USE DEF Dispatched
-----------------------------------------------------------------------------
\* What the type invariant says of the POST under way and of the sessions.
LEMMA Types ==
  ASSUME TypeOK
  PROVE /\ Len(opener) \in Nat /\ opener \in Seq(Inits \cup {NoMsg})
        /\ session \in 0 .. Len(opener)
        /\ wire.sid \in 0 .. Len(opener) /\ wire.old \in 0 .. Len(opener)
        /\ wire.header \in 0 .. Len(opener)
        /\ wire.kind \in {"idle", "post"} \cup AnswerKinds
        /\ wire.use \in Uses /\ wire.msg \in Messages \cup {NoMsg}
        /\ cur \in Messages \cup {NoMsg} /\ cached \in Inits \cup {NoMsg}
        /\ lapsed \in BOOLEAN
<1>1. Len(opener) \in Nat BY DEF TypeOK
<1>. QED BY <1>1 DEF TypeOK

\* A POST is as well typed among more sessions.
LEMMA WiderPost ==
  ASSUME NEW n \in Nat, NEW k \in Nat, n <= k
  PROVE PostType(n) \subseteq PostType(k)
<1>1. 0 .. n \subseteq 0 .. k OBVIOUS
<1>. QED BY <1>1 DEF PostType

\* A message is forwarded, so nothing else is pending.
LEMMA Busy ==
  ASSUME IInv, wire.kind # "idle"
  PROVE cur \in Messages /\ outcome[cur] = "pending"
        /\ \A m \in Messages \ {cur} : outcome[m] # "pending"
BY DEF IInv, Forwarding, TypeOK

\* The invariant survives when the message ends, whatever the proxy keeps of
\* the session, as long as it was opened by the initialize it remembers.
LEMMA EndStep ==
  ASSUME IInv, wire.kind # "idle",
         NEW o \in {"result", "silent", "refused", "unknown"}, Reply(o), lapsed' \in BOOLEAN,
         o \in {"result", "silent"} /\ cur \in Calls => runs[cur] = 1,
         session' \in 0 .. Len(opener), cached' \in Inits \cup {NoMsg},
         session' # None => opener[session'] \in {cached', NoMsg},
         cached' # NoMsg /\ ~lapsed' => session' # None /\ opener[session'] = cached',
         \/ late' = late
         \/ wire.kind = "post" /\ o = "unknown" /\ late' = late \cup {wire},
         UNCHANGED upstream
  PROVE IInv'
<1>0. TypeOK /\ Forwarding /\ OneReply BY DEF IInv
<1>1. /\ cur \in Messages /\ outcome[cur] = "pending"
      /\ cur' = NoMsg /\ wire' = NoPost /\ refreshed' = FALSE
      /\ UNCHANGED <<opener, live, runs>>
      /\ outcome' = [outcome EXCEPT ![cur] = o]
      /\ replies' = [replies EXCEPT ![cur] = IF Writes(o) THEN @ + 1 ELSE @]
  BY Busy DEF Reply, upstream
<1>2. NoPost \in PostType(Len(opener)) BY <1>0, Types DEF NoPost, PostType, Uses, None
<1>3. TypeOK'
  <2>1. outcome' \in [Messages -> {"none", "pending", "result", "silent", "refused", "unknown"}]
    BY <1>0, <1>1 DEF TypeOK
  <2>2. replies' \in [Messages -> Nat] BY <1>0, <1>1 DEF TypeOK
  <2>. QED BY <1>0, <1>1, <1>2, <2>1, <2>2 DEF TypeOK, PostType
<1>4. late' \subseteq PostType(Len(opener'))
  <2>1. wire \in PostType(Len(opener)) BY <1>0 DEF TypeOK, PostType
  <2>. QED BY <1>1, <2>1 DEF IInv
<1>5. Forwarding' BY <1>0, <1>1 DEF Forwarding, NoPost, TypeOK
<1>6. OneReply'
  <2>1. SUFFICES ASSUME NEW m \in Messages
                 PROVE /\ replies'[m] = Due(m)'
                       /\ m \in Calls /\ outcome'[m] \in {"result", "silent"} => runs'[m] = 1
    BY DEF OneReply
  <2>2. CASE m = cur
    <3>1. replies[m] = 0 BY <2>2, <1>0, <1>1 DEF OneReply, Due
    <3>2. outcome'[m] = o /\ replies'[m] = IF Writes(o) THEN 1 ELSE 0
      BY <2>2, <3>1, <1>0, <1>1 DEF TypeOK
    <3>3. Due(m)' = IF Writes(o) THEN 1 ELSE 0
      BY <2>2, <3>2, <1>1 DEF Due, Writes
    <3>. QED BY <2>2, <3>2, <3>3, <1>1
  <2>3. CASE m # cur
    <3>1. outcome'[m] = outcome[m] /\ replies'[m] = replies[m]
      BY <2>3, <1>0, <1>1 DEF TypeOK
    <3>. QED BY <3>1, <1>0, <1>1 DEF OneReply, Due
  <2>. QED BY <2>2, <2>3
<1>7. Restored' BY <1>1 DEF Restored, SameHandshake, InForce, None
<1>8. Sessions' BY <1>1 DEF Sessions, NoPost, None
<1>9. RunsMatch'
  <2>1. \A c \in Calls : outcome'[c] = "none" => runs'[c] = 0
    BY <1>0, <1>1 DEF IInv, RunsMatch, TypeOK, Messages
  <2>2. \A p \in late : p.msg # cur \/ p.msg \notin Calls
    BY <1>1 DEF IInv, RunsMatch, Messages
  <2>3. ASSUME NEW p \in late, p.msg \in Calls
        PROVE outcome'[p.msg] = "unknown" /\ runs'[p.msg] = 0
    BY <2>2, <2>3, <1>0, <1>1 DEF IInv, RunsMatch, TypeOK, Messages
  <2>4. wire.msg \in Calls => wire.msg = cur
    BY <1>0 DEF Forwarding, TypeOK
  <2>5. wire.kind = "post" /\ cur \in Calls => runs[cur] = 0
    BY DEF IInv, RunsMatch
  <2>6. \A p \in late' : p.msg \in Calls => outcome'[p.msg] = "unknown" /\ runs'[p.msg] = 0
    <3>1. CASE late' = late BY <3>1, <2>3
    <3>2. CASE wire.kind = "post" /\ o = "unknown" /\ late' = late \cup {wire}
      <4>1. wire.msg \in Calls => outcome'[wire.msg] = "unknown" /\ runs'[wire.msg] = 0
        BY <3>2, <2>4, <2>5, <1>0, <1>1 DEF TypeOK
      <4>. QED BY <4>1, <3>2, <2>3
    <3>. QED BY <3>1, <3>2
  <2>7. \A p, q \in late' : p.msg = q.msg /\ p.msg \in Calls => p = q
    BY <2>2, <2>4 DEF IInv, RunsMatch
  <2>. QED BY <2>1, <2>6, <2>7, <1>1 DEF RunsMatch
<1>. QED BY <1>3, <1>4, <1>5, <1>6, <1>7, <1>8, <1>9 DEF IInv

\* The invariant survives when the proxy posts once more for the message, in
\* a session that fits the reason.
LEMMA RepostStep ==
  ASSUME IInv, wire.kind # "idle", cur \in Calls, runs[cur] = 0,
         NEW u \in {"replay", "announce", "again"}, NEW m, NEW s \in 0 .. Len(opener),
         NEW old \in 0 .. Len(opener), Post(u, m, s, old),
         UNCHANGED <<cached, cur, outcome, replies, late, upstream>>,
         session' \in 0 .. Len(opener),
         session' # None => opener[session'] \in {cached, NoMsg}, lapsed' \in BOOLEAN,
         cached # NoMsg /\ ~lapsed' /\ u # "replay" => session' # None /\ opener[session'] = cached,
         u = "replay" => m = cached /\ cached # NoMsg,
         u = "announce" => /\ m = NoMsg /\ s # None /\ session' = s
                           /\ s # old /\ opener[s] = cached,
         u = "again" => /\ m = cur /\ s # old
                        /\ cached # NoMsg => s # None /\ opener[s] = cached
  PROVE IInv'
<1>0. TypeOK /\ Forwarding BY DEF IInv
<1>1. /\ wire'.kind = "post" /\ wire'.use = u /\ wire'.msg = m /\ wire'.sid = s
      /\ wire'.old = old /\ wire'.header = None /\ refreshed' = FALSE
      /\ UNCHANGED <<opener, live, runs>>
  BY DEF Post, upstream
<1>2. m \in Messages \cup {NoMsg} BY <1>0 DEF TypeOK
<1>3. wire' \in PostType(Len(opener))
  BY <1>0, <1>2, Types DEF Post, PostType, Uses, None
<1>4. TypeOK' BY <1>0, <1>1, <1>3 DEF TypeOK, PostType
<1>5. late' \subseteq PostType(Len(opener')) BY <1>1 DEF IInv
<1>6. Forwarding' BY <1>0, <1>1 DEF Forwarding
<1>7. OneReply' BY <1>1 DEF IInv, OneReply, Due
<1>8. Restored' BY <1>1 DEF Restored, SameHandshake, InForce
<1>9. Sessions' BY <1>1 DEF Sessions
<1>10. RunsMatch' BY <1>1 DEF IInv, RunsMatch
<1>. QED BY <1>4, <1>5, <1>6, <1>7, <1>8, <1>9, <1>10 DEF IInv

\* What an accepted POST does to the sessions: those there were keep their
\* initialize, and a new one has that of the POST.
LEMMA AcceptSessions ==
  ASSUME TypeOK, NEW p \in PostType(Len(opener)), Accept(p)
  PROVE /\ opener' \in Seq(Inits \cup {NoMsg})
        /\ Len(opener') \in Nat /\ Len(opener) <= Len(opener')
        /\ \A i \in 1 .. Len(opener) : opener'[i] = opener[i]
        /\ live' \subseteq 1 .. Len(opener')
        /\ Opens(p) => /\ Len(opener') = Len(opener) + 1
                       /\ opener'[Len(opener')] = (IF p.msg \in Inits THEN p.msg ELSE NoMsg)
<1>0. opener \in Seq(Inits \cup {NoMsg}) /\ Len(opener) \in Nat /\ live \subseteq 1 .. Len(opener)
  BY DEF TypeOK
<1>1. CASE Opens(p)
  <2> DEFINE x == IF p.msg \in Inits THEN p.msg ELSE NoMsg
  <2>1. x \in Inits \cup {NoMsg} OBVIOUS
  <2>2. opener' = Append(opener, x) /\ live' = live \cup {Len(opener')} BY <1>1 DEF Accept
  <2> HIDE DEF x
  <2>3. /\ opener' \in Seq(Inits \cup {NoMsg}) /\ Len(opener') = Len(opener) + 1
        /\ \A i \in 1 .. Len(opener) : opener'[i] = opener[i]
        /\ opener'[Len(opener) + 1] = x
    BY <2>1, <2>2, <1>0
  <2>4. live' \subseteq 1 .. Len(opener')
    <3>1. ASSUME NEW l \in live' PROVE l \in 1 .. Len(opener')
      <4>1. CASE l \in live BY <4>1, <1>0, <2>3
      <4>2. CASE l = Len(opener') BY <4>2, <1>0, <2>3
      <4>. QED BY <3>1, <4>1, <4>2, <2>2
    <3>. QED BY <3>1
  <2>. QED BY <2>3, <2>4, <1>0 DEF x
<1>2. CASE ~Opens(p)
  <2>1. opener' = opener /\ live' = live BY <1>2 DEF Accept
  <2>. QED BY <1>0, <1>2, <2>1
<1>. QED BY <1>1, <1>2

\* The invariant's parts about the proxy survive while the upstream's sessions
\* only grow and the proxy does not move.
LEMMA Grown ==
  ASSUME IInv, UNCHANGED <<proxy, late>>, wire'.use = wire.use,
         \A c \in Calls : outcome[c] \in {"result", "silent"} => runs'[c] = runs[c],
         opener' \in Seq(Inits \cup {NoMsg}), Len(opener') \in Nat, Len(opener) <= Len(opener'),
         \A i \in 1 .. Len(opener) : opener'[i] = opener[i]
  PROVE /\ session' \in 0 .. Len(opener')
        /\ wire \in PostType(Len(opener')) /\ late \subseteq PostType(Len(opener'))
        /\ OneReply' /\ Restored'
<1>0. TypeOK BY DEF IInv
<1>1. PostType(Len(opener)) \subseteq PostType(Len(opener')) BY <1>0, Types, WiderPost
<1>2. wire \in PostType(Len(opener)) BY <1>0 DEF TypeOK, PostType
<1>3. late \subseteq PostType(Len(opener)) BY DEF IInv
<1>4. session' = session /\ session \in 0 .. Len(opener) BY <1>0, Types DEF proxy
<1>5. OneReply' BY DEF IInv, OneReply, Due, proxy
<1>6. Restored'
  <2>1. session # None => opener'[session] = opener[session] BY <1>4 DEF None
  <2>. QED BY <1>4, <2>1 DEF IInv, Restored, SameHandshake, InForce, proxy
<1>. QED BY <1>0, <1>1, <1>2, <1>3, <1>4, <1>5, <1>6, Types

\* The invariant survives when the proxy reads a message.
LEMMA ReadStep == ASSUME IInv, NEW m \in Messages, Read(m) PROVE IInv'
<1>0. TypeOK /\ Forwarding BY DEF IInv
<1>1. /\ cur = NoMsg /\ outcome[m] = "none" /\ cur' = m
      /\ outcome' = [outcome EXCEPT ![m] = "pending"]
      /\ wire'.kind = "post" /\ wire'.use = "first" /\ wire'.msg = m
      /\ wire'.sid = SessionFor(m) /\ wire'.old = None /\ wire'.header = None
      /\ UNCHANGED <<session, cached, replies, late, lapsed, opener, live, runs>>
      /\ refreshed' = FALSE
  BY DEF Read, Post, upstream
<1>2. SessionFor(m) \in 0 .. Len(opener) BY <1>0, Types DEF SessionFor, None
<1>3. TypeOK'
  <2>1. wire' \in PostType(Len(opener))
    BY <1>0, <1>2, Types DEF Read, Post, PostType, Uses, None
  <2>. QED BY <1>0, <1>1, <2>1 DEF TypeOK, PostType
<1>4. Forwarding' BY <1>0, <1>1 DEF Forwarding, TypeOK
<1>5. late' \subseteq PostType(Len(opener')) BY <1>1 DEF IInv
<1>6. OneReply'
  <2>1. \A x \in Messages : x # m => outcome'[x] = outcome[x] BY <1>0, <1>1 DEF TypeOK
  <2>2. outcome'[m] = "pending" BY <1>0, <1>1 DEF TypeOK
  <2>3. SUFFICES ASSUME NEW x \in Messages
                 PROVE /\ replies'[x] = Due(x)'
                       /\ x \in Calls /\ outcome'[x] \in {"result", "silent"} => runs'[x] = 1
    BY DEF OneReply
  <2>4. CASE x = m BY <2>2, <2>4, <1>1 DEF IInv, OneReply, Due
  <2>5. CASE x # m BY <2>1, <2>5, <1>1 DEF IInv, OneReply, Due
  <2>. QED BY <2>4, <2>5
<1>7. Restored'
  <2>1. wire.use # "replay" BY <1>0, <1>1 DEF Forwarding, NoPost
  <2>. QED BY <1>1, <2>1 DEF IInv, Restored, SameHandshake, InForce
<1>8. Sessions' BY <1>1 DEF Sessions, SessionFor
<1>9. RunsMatch' BY <1>0, <1>1 DEF IInv, RunsMatch, TypeOK
<1>. QED BY <1>3, <1>4, <1>5, <1>6, <1>7, <1>8, <1>9 DEF IInv

\* The invariant survives a refresh, and the end of a message whose refresh
\* failed.
LEMMA RefreshStep == ASSUME IInv, Refresh PROVE IInv'
<1>0. TypeOK /\ Forwarding BY DEF IInv
<1>1. CASE Reply("unknown")
  <2>1. /\ session' = session /\ cached' = cached /\ late' = late /\ UNCHANGED upstream
        /\ wire.kind = "unauthorized" /\ lapsed' = (lapsed \/ wire.use = "replay")
    BY <1>0, <1>1, Busy DEF Refresh, Lapse, Reply, NoPost, AnswerKinds
  <2>2. Restored BY DEF IInv
  <2>. QED BY <1>0, <1>1, <2>1, <2>2, Types, EndStep DEF Restored, SameHandshake, InForce, TypeOK
<1>2. CASE ~Reply("unknown")
  <2>1. /\ wire' = [wire EXCEPT !.kind = "post"] /\ wire.kind = "unauthorized" /\ refreshed' = TRUE
        /\ UNCHANGED <<session, cached, cur, outcome, replies, late, lapsed, opener, live, runs>>
    BY <1>2 DEF Refresh, upstream
  <2>2. /\ wire'.kind = "post" /\ wire'.use = wire.use /\ wire'.msg = wire.msg
        /\ wire'.sid = wire.sid /\ wire'.old = wire.old /\ wire'.header = wire.header
    BY <1>0, <2>1 DEF TypeOK
  <2>3. TypeOK' BY <1>0, <2>1 DEF TypeOK
  <2>4. late' \subseteq PostType(Len(opener')) BY <2>1 DEF IInv
  <2>5. Forwarding' BY <1>0, <2>1, <2>2 DEF Forwarding
  <2>6. OneReply' /\ Restored'
    BY <2>1, <2>2 DEF IInv, OneReply, Due, Restored, SameHandshake, InForce
  <2>7. Sessions' BY <2>1, <2>2 DEF IInv, Sessions
  <2>8. RunsMatch' BY <2>1, <2>2 DEF IInv, RunsMatch
  <2>. QED BY <2>3, <2>4, <2>5, <2>6, <2>7, <2>8 DEF IInv
<1>. QED BY <1>1, <1>2

\* The invariant survives when the answer to a message, to its retry or to a
\* replay ends it, or the transport does.
LEMMA EndsStep == ASSUME IInv, Finish \/ ReplayFails \/ Lost PROVE IInv'
<1>0. TypeOK /\ Forwarding /\ Sessions /\ Restored BY DEF IInv
<1>1. CASE Finish
  <2>1. /\ wire.kind # "idle" /\ wire.use \in {"first", "again"}
        /\ wire.msg = cur /\ session' = Captured /\ cached' = Remembered
        /\ Reply(OutcomeOf(wire.kind)) /\ late' = late /\ UNCHANGED upstream
        /\ lapsed' = (lapsed /\ ~(cur \in Inits /\ wire.kind \in Succeeded))
    BY <1>0, <1>1 DEF Finish, Answered, AnswerKinds, Forwarding
  <2>2. /\ OutcomeOf(wire.kind) \in {"result", "silent", "refused", "unknown"}
        /\ OutcomeOf(wire.kind) \in {"result", "silent"} => wire.kind \in Dispatched
    BY DEF OutcomeOf
  <2>5. OutcomeOf(wire.kind) \in {"result", "silent"} /\ cur \in Calls => runs[cur] = 1
    BY <2>1, <2>2 DEF IInv, RunsMatch
  <2>6. cached' # NoMsg /\ ~lapsed' => session' # None /\ opener[session'] = cached'
    <3>1. CASE cur \in Inits /\ wire.kind \in Succeeded
      BY <3>1, <1>0, <2>1 DEF Captured, Remembered, Sessions
    <3>2. CASE ~(cur \in Inits /\ wire.kind \in Succeeded)
      <4>1. cached' = cached /\ lapsed' = lapsed BY <3>2, <2>1, <1>0 DEF Remembered, TypeOK
      <4>2. ASSUME cached # NoMsg, ~lapsed PROVE session' # None /\ opener[session'] = cached
        <5>1. session # None /\ opener[session] = cached
          BY <4>2, <1>0, <2>1 DEF Restored, InForce
        <5>2. wire.header = None
          <6>1. cur \in Messages /\ wire.msg = cur BY <2>1, Busy
          <6>2. CASE cur \in Inits BY <6>1, <6>2, <1>0, <3>2 DEF Sessions
          <6>3. CASE cur \in Calls
            <7>1. wire.sid # None
              BY <6>1, <6>3, <1>0, <2>1, <4>2, <5>1 DEF Sessions
            <7>. QED BY <6>1, <6>3, <7>1, <1>0 DEF Sessions
          <6>. QED BY <6>1, <6>2, <6>3
        <5>. QED BY <5>1, <5>2, <2>1 DEF Captured
      <4>. QED BY <4>1, <4>2
    <3>. QED BY <3>1, <3>2
  <2>3. session' \in 0 .. Len(opener) /\ cached' \in Inits \cup {NoMsg}
    BY <1>0, <2>1, Types DEF Captured, Remembered
  <2>4. session' # None => opener[session'] \in {cached', NoMsg}
    BY <1>0, <2>1, Busy DEF Captured, Remembered, Sessions, Restored, SameHandshake, Forwarding
  <2>7. lapsed' \in BOOLEAN BY <2>1
  <2>. QED BY <2>1, <2>2, <2>3, <2>4, <2>5, <2>6, <2>7, EndStep
<1>2. CASE ReplayFails
  BY <1>0, <1>2, Types, EndStep
  DEF ReplayFails, Answered, AnswerKinds, Restored, SameHandshake, InForce, Lapse
<1>3. CASE Lost
  <2>1. wire.kind # "idle" BY <1>0, <1>3 DEF Lost, Forwarding
  <2>2. late' = late \/ (wire.kind = "post" /\ late' = late \cup {wire}) BY <1>3 DEF Lost
  <2>3. /\ Reply("unknown") /\ session' = session /\ cached' = cached /\ UNCHANGED upstream
        /\ lapsed' = (lapsed \/ wire.use = "replay")
    BY <1>3 DEF Lost, Lapse
  <2>. QED BY <1>0, <2>1, <2>2, <2>3, Types, EndStep DEF Restored, SameHandshake, InForce
<1>. QED BY <1>1, <1>2, <1>3

\* The invariant survives when the proxy forgets a session, replays the
\* initialize, announces it, and posts the message again.
LEMMA ReopensStep == ASSUME IInv, Reopen \/ Replayed \/ Announced PROVE IInv'
<1>0. TypeOK /\ Forwarding /\ Sessions /\ Restored /\ RunsMatch BY DEF IInv
<1>1. wire.kind # "idle" /\ cur \in Messages
  BY Busy DEF Reopen, Replayed, Announced, Answered, AnswerKinds
<1>2. None \in 0 .. Len(opener) BY <1>0, Types DEF None
<1>3. CASE Reopen
  <2>1. wire.msg = cur /\ cur \in Calls /\ runs[cur] = 0 /\ wire.sid # None
    BY <1>0, <1>1, <1>3 DEF Reopen, Answered, SessionExpired, Forwarding, Sessions, RunsMatch
  <2>4. lapsed' \in BOOLEAN BY <1>0, <1>3, Types DEF Reopen
  <2>2. CASE cached = NoMsg
    BY <1>0, <1>1, <1>2, <1>3, <2>1, <2>2, <2>4, Types, RepostStep DEF Reopen
  <2>3. CASE cached # NoMsg
    BY <1>0, <1>1, <1>2, <1>3, <2>1, <2>3, <2>4, Types, RepostStep DEF Reopen
  <2>. QED BY <2>2, <2>3
<1>4. CASE Replayed
  <2>1. /\ wire.kind \in Succeeded /\ wire.use = "replay" /\ wire.msg = cached /\ cached \in Inits
        /\ cur \in Calls /\ runs[cur] = 0
    BY <1>0, <1>1, <1>4, Types DEF Replayed, Answered, Forwarding, RunsMatch
  <2>2. /\ wire.header # None /\ wire.header # wire.old /\ opener[wire.header] = cached
        /\ session' = wire.header
    BY <1>0, <1>4, <2>1 DEF Sessions, Replayed, Captured
  <2>3. Post("announce", NoMsg, wire.header, wire.old) BY <1>4, <2>2 DEF Replayed
  <2>. QED BY <1>0, <1>1, <1>4, <2>1, <2>2, <2>3, Types, RepostStep DEF Replayed
<1>5. CASE Announced
  <2>1. /\ wire.use = "announce" /\ wire.msg = NoMsg /\ cur \in Calls /\ runs[cur] = 0
    BY <1>0, <1>1, <1>5 DEF Announced, Answered, Forwarding, RunsMatch
  <2>2. /\ wire.sid # None /\ wire.header = None /\ session = wire.sid
        /\ wire.sid # wire.old /\ opener[wire.sid] = cached
    BY <1>0, <2>1 DEF Sessions
  <2>3. /\ session' = wire.sid /\ Post("again", cur, wire.sid, wire.old)
        /\ lapsed' \in BOOLEAN
    BY <1>0, <1>5, <2>2, Types DEF Announced, Captured
  <2>. QED BY <1>0, <1>1, <1>5, <2>1, <2>2, <2>3, Types, RepostStep DEF Announced
<1>. QED BY <1>3, <1>4, <1>5

\* The invariant survives the answer to the POST under way.
LEMMA ServeStep == ASSUME IInv, Serve PROVE IInv'
<1>0. TypeOK /\ Forwarding /\ Sessions /\ RunsMatch BY DEF IInv
<1>1. /\ wire.kind = "post" /\ wire.header = None
      /\ UNCHANGED <<session, cached, cur, outcome, replies, refreshed, late, lapsed>>
  BY <1>0 DEF Serve, proxy, Sessions, Succeeded
<1>2. /\ cur \in Messages /\ outcome[cur] = "pending"
      /\ \A m \in Messages \ {cur} : outcome[m] # "pending"
  BY <1>1, Busy
<1>3. wire \in PostType(Len(opener)) BY <1>0 DEF TypeOK, PostType
<1>4. PICK k \in AnswerKinds, h \in {None, Len(opener')} :
        /\ Answer(k, h)
        /\ \/ Accept(wire) /\ k \in Succeeded /\ h = (IF Opens(wire) THEN Len(opener') ELSE None)
           \/ Accept(wire) /\ k = "error" /\ h = None /\ ~Opens(wire)
           \/ UNCHANGED upstream /\ k \notin Dispatched /\ h = None
  BY DEF Serve, AnswerKinds
<1>5. /\ wire'.kind = k /\ wire'.header = h /\ wire'.use = wire.use
      /\ wire'.msg = wire.msg /\ wire'.sid = wire.sid /\ wire'.old = wire.old
  BY <1>3, <1>4 DEF Answer, PostType
<1>6. /\ opener' \in Seq(Inits \cup {NoMsg})
      /\ Len(opener') \in Nat /\ Len(opener) <= Len(opener')
      /\ \A i \in 1 .. Len(opener) : opener'[i] = opener[i]
      /\ live' \subseteq 1 .. Len(opener')
  <2>1. CASE Accept(wire) BY <2>1, <1>0, <1>3, AcceptSessions
  <2>2. CASE UNCHANGED upstream BY <2>2, <1>0 DEF TypeOK, upstream
  <2>. QED BY <2>1, <2>2, <1>4
<1>7. /\ session' \in 0 .. Len(opener')
      /\ wire \in PostType(Len(opener')) /\ late \subseteq PostType(Len(opener'))
      /\ OneReply' /\ Restored'
  <2>1. wire.msg \in Calls => wire.msg = cur BY <1>0, <1>1 DEF Forwarding, TypeOK
  <2>2. runs' = runs \/ (wire.msg \in Calls /\ runs' = [runs EXCEPT ![wire.msg] = @ + 1])
    BY <1>4 DEF Accept, upstream
  <2>3. \A c \in Calls : outcome[c] \in {"result", "silent"} => runs'[c] = runs[c]
    BY <1>0, <1>2, <2>1, <2>2 DEF TypeOK
  <2>. QED BY <1>1, <1>5, <1>6, <2>3, Grown DEF proxy
<1>8. /\ runs' \in [Calls -> Nat]
      /\ k \in Dispatched => runs' = IF wire.msg \in Calls THEN [runs EXCEPT ![wire.msg] = @ + 1] ELSE runs
      /\ k \notin Dispatched => runs' = runs
  <2>1. CASE Accept(wire)
    <3>1. runs' = IF wire.msg \in Calls THEN [runs EXCEPT ![wire.msg] = @ + 1] ELSE runs
      BY <2>1 DEF Accept
    <3>2. runs' \in [Calls -> Nat] BY <3>1, <1>0 DEF TypeOK
    <3>3. k \notin Dispatched => runs' = runs BY <1>4 DEF upstream
    <3>. QED BY <3>1, <3>2, <3>3
  <2>2. CASE ~Accept(wire)
    <3>1. k \notin Dispatched /\ runs' = runs BY <1>4, <2>2 DEF upstream
    <3>. QED BY <3>1, <1>0 DEF TypeOK
  <2>. QED BY <2>1, <2>2
<1>9. TypeOK'
  <2>1. wire' \in PostType(Len(opener'))
    <3>1. h \in 0 .. Len(opener') BY <1>4, <1>6 DEF None
    <3>. QED BY <3>1, <1>4, <1>7 DEF Answer, PostType
  <2>. QED BY <2>1, <1>0, <1>1, <1>6, <1>7, <1>8 DEF TypeOK, PostType
<1>10. Forwarding' BY <1>0, <1>1, <1>4, <1>5 DEF Forwarding, AnswerKinds
<1>11. Sessions'
  <2>1. wire.old \in 0 .. Len(opener) /\ wire.sid \in 0 .. Len(opener) BY <1>0, Types
  <2>2. h # None =>
          /\ k \in Succeeded /\ Opens(wire) /\ h = Len(opener) + 1
          /\ opener'[h] = (IF wire.msg \in Inits THEN wire.msg ELSE NoMsg)
    BY <1>0, <1>3, <1>4, AcceptSessions
  <2>3. k \in Succeeded /\ Opens(wire) => h # None
    <3>1. k \in Succeeded /\ Opens(wire) => h = Len(opener') /\ Len(opener') = Len(opener) + 1
      BY <1>0, <1>3, <1>4, AcceptSessions
    <3>. QED BY <3>1, <1>0, Types DEF None
  <2>4. wire.sid # None => opener'[wire.sid] = opener[wire.sid] BY <1>6, <2>1 DEF None
  <2>5. h # wire.old \/ h = None BY <2>1, <2>2
  <2>. QED BY <1>0, <1>1, <1>5, <2>2, <2>3, <2>4, <2>5 DEF Sessions, Opens
<1>12. RunsMatch'
  <2>1. wire.msg \in Calls => wire.msg = cur BY <1>0, <1>1 DEF Forwarding, TypeOK
  <2>2. \A c \in Calls \ {cur} : runs'[c] = runs[c] BY <1>0, <1>8, <2>1 DEF TypeOK
  <2>3. cur \in Calls => runs'[cur] = IF wire'.use \in {"first", "again"} /\ wire'.kind \in Dispatched THEN 1 ELSE 0
    <3>1. ASSUME cur \in Calls, wire.use \in {"first", "again"}
          PROVE runs'[cur] = IF k \in Dispatched THEN 1 ELSE 0
      <4>1. wire.msg = cur /\ runs[cur] = 0 BY <3>1, <1>0, <1>1 DEF Forwarding, RunsMatch
      <4>. QED BY <3>1, <4>1, <1>0, <1>8 DEF TypeOK
    <3>2. ASSUME cur \in Calls, wire.use \notin {"first", "again"} PROVE runs'[cur] = 0
      <4>1. wire.msg \notin Calls /\ runs[cur] = 0
        BY <3>2, <1>0, <1>1, Types DEF Forwarding, RunsMatch, Uses
      <4>. QED BY <4>1, <1>8
    <3>. QED BY <3>1, <3>2, <1>5
  <2>4. \A p \in late : p.msg # cur \/ p.msg \notin Calls BY <1>0, <1>2 DEF RunsMatch
  <2>5. \A c \in Calls : outcome[c] = "none" => c # cur BY <1>2
  <2>. QED BY <1>0, <1>1, <2>2, <2>3, <2>4, <2>5 DEF RunsMatch
<1>. QED BY <1>1, <1>7, <1>9, <1>10, <1>11, <1>12 DEF IInv

\* The invariant survives a POST that arrives after it was given up.
LEMMA ServeLateStep == ASSUME IInv, ServeLate PROVE IInv'
<1>0. TypeOK /\ Forwarding /\ Sessions /\ RunsMatch BY DEF IInv
<1>1. PICK p \in late : Accept(p) /\ late' = late \ {p} BY DEF ServeLate
<1>2. UNCHANGED <<session, cached, cur, outcome, replies, refreshed, lapsed, wire>>
  BY DEF ServeLate, proxy
<1>3. p \in PostType(Len(opener)) BY <1>1 DEF IInv
<1>4. /\ opener' \in Seq(Inits \cup {NoMsg})
      /\ Len(opener') \in Nat /\ Len(opener) <= Len(opener')
      /\ \A i \in 1 .. Len(opener) : opener'[i] = opener[i]
      /\ live' \subseteq 1 .. Len(opener')
  BY <1>0, <1>1, <1>3, AcceptSessions
<1>5. PostType(Len(opener)) \subseteq PostType(Len(opener')) BY <1>0, <1>4, Types, WiderPost
<1>6. session \in 0 .. Len(opener') BY <1>0, <1>4, Types
<1>7. runs' = IF p.msg \in Calls THEN [runs EXCEPT ![p.msg] = @ + 1] ELSE runs
  BY <1>1 DEF Accept
<1>8. TypeOK'
  <2>1. wire \in PostType(Len(opener')) BY <1>0, <1>5 DEF TypeOK, PostType
  <2>2. runs' \in [Calls -> Nat] BY <1>0, <1>7 DEF TypeOK
  <2>. QED BY <2>1, <2>2, <1>0, <1>2, <1>4, <1>6 DEF TypeOK, PostType
<1>9. late' \subseteq PostType(Len(opener')) BY <1>1, <1>5 DEF IInv
<1>10. Forwarding' BY <1>0, <1>2 DEF Forwarding
<1>11. OneReply'
  <2>1. \A c \in Calls : outcome[c] \in {"result", "silent"} => runs'[c] = runs[c]
    BY <1>0, <1>1, <1>7 DEF RunsMatch, TypeOK
  <2>. QED BY <1>2, <2>1 DEF IInv, OneReply, Due
<1>12. Restored'
  <2>1. session # None => opener'[session] = opener[session] BY <1>0, <1>4, Types DEF None
  <2>. QED BY <1>2, <2>1 DEF IInv, Restored, SameHandshake, InForce
<1>13. Sessions'
  <2>1. /\ wire.sid # None => opener'[wire.sid] = opener[wire.sid]
        /\ wire.header # None => opener'[wire.header] = opener[wire.header]
    BY <1>0, <1>4, Types DEF None
  <2>. QED BY <1>0, <1>2, <2>1 DEF Sessions
<1>14. RunsMatch'
  <2>1. p.msg \in Calls => outcome[p.msg] = "unknown" /\ p.msg # cur
    BY <1>0, <1>1 DEF RunsMatch, Forwarding
  <2>2. \A c \in Calls : c # p.msg => runs'[c] = runs[c] BY <1>0, <1>7 DEF TypeOK
  <2>3. \A q \in late' : q \in late /\ (q.msg \in Calls => q.msg # p.msg)
    BY <1>0, <1>1 DEF RunsMatch
  <2>. QED BY <1>0, <1>2, <2>1, <2>2, <2>3 DEF RunsMatch
<1>. QED BY <1>8, <1>9, <1>10, <1>11, <1>12, <1>13, <1>14 DEF IInv

\* The initial state satisfies the invariant.
LEMMA InitHolds == ASSUME Init PROVE IInv
<1>1. NoPost \in PostType(0) BY DEF NoPost, PostType, Uses, None
<1>2. Len(opener) = 0 /\ opener \in Seq(Inits \cup {NoMsg}) BY DEF Init
<1>3. wire \in PostType(Len(opener)) /\ session \in 0 .. Len(opener)
  BY <1>1, <1>2 DEF Init, None
<1>4. TypeOK /\ late \subseteq PostType(Len(opener))
  BY <1>2, <1>3 DEF Init, TypeOK, PostType
<1>5. Forwarding /\ OneReply /\ Restored /\ Sessions /\ RunsMatch
  BY DEF Init, Forwarding, OneReply, Due, Restored, SameHandshake, InForce, Sessions, RunsMatch, NoPost, None
<1>. QED BY <1>4, <1>5 DEF IInv

\* IInv is inductive.
LEMMA NextHolds == ASSUME IInv, [Next]_vars PROVE IInv'
<1>1. CASE UNCHANGED vars
  BY <1>1 DEF vars, IInv, TypeOK, Forwarding, OneReply, Due, Restored, SameHandshake, InForce, Sessions, RunsMatch
<1>2. ASSUME NEW m \in Messages, Read(m) PROVE IInv' BY <1>2, ReadStep
<1>3. CASE Step BY <1>3, RefreshStep, EndsStep, ReopensStep DEF Step
<1>4. CASE Serve BY <1>4, ServeStep
<1>5. CASE ServeLate BY <1>5, ServeLateStep
<1>6. CASE Drop
  <2>1. live' \subseteq live /\ UNCHANGED <<session, cached, cur, outcome, replies, refreshed, lapsed, wire, opener, late, runs>>
    BY <1>6 DEF Drop, proxy
  <2>. QED BY <2>1 DEF IInv, TypeOK, Forwarding, OneReply, Due, Restored, SameHandshake, InForce, Sessions, RunsMatch
<1>. QED BY <1>1, <1>2, <1>3, <1>4, <1>5, <1>6 DEF Next

\* Every step of the proxy and the upstream is a step of the promise, or none
\* of its business.
LEMMA StepImplements ==
  ASSUME IInv, [Next]_vars
  PROVE [Promise!Next]_<<runs, [m \in Calls |-> Known(m)]>>
<1> DEFINE told == [m \in Calls |-> Known(m)]
<1>0. TypeOK /\ Forwarding /\ RunsMatch BY DEF IInv
<1>9. ASSUME NEW c \in Calls, Promise!Invoke(c) \/ Promise!Run(c) \/ Promise!Return(c)
      PROVE Promise!Next
  BY <1>9 DEF Promise!Next
<1>1. CASE UNCHANGED vars BY <1>1 DEF vars, Known
<1>2. ASSUME NEW m \in Messages, Read(m)
      PROVE UNCHANGED <<runs, told>> \/ (m \in Calls /\ Promise!Invoke(m))
  <2>1. outcome' = [outcome EXCEPT ![m] = "pending"] /\ outcome[m] = "none" /\ runs' = runs
    BY <1>2 DEF Read, upstream
  <2>2. CASE m \in Calls BY <2>1, <2>2, <1>0 DEF TypeOK, Known, Promise!Invoke
  <2>3. CASE m \notin Calls BY <2>1, <2>3, <1>0 DEF TypeOK, Known
  <2>. QED BY <2>2, <2>3
<1>3. ASSUME NEW o \in {"result", "silent", "refused", "unknown"}, Reply(o), wire.kind # "idle", runs' = runs,
             o = "result" /\ cur \in Calls => runs[cur] = 1,
             o = "refused" /\ cur \in Calls => runs[cur] = 0
      PROVE [Promise!Next]_<<runs, told>>
  <2>1. outcome' = [outcome EXCEPT ![cur] = o] /\ cur \in Messages /\ outcome[cur] = "pending"
    BY <1>3, Busy DEF Reply
  <2>2. CASE cur \in Calls
    <3>1. PICK c \in Calls : c = cur BY <2>2
    <3>2. Promise!Return(c) BY <2>1, <3>1, <1>0, <1>3 DEF TypeOK, Known, Promise!Return
    <3>. QED BY <3>2, <1>9
  <2>3. CASE cur \notin Calls BY <2>1, <2>3, <1>0, <1>3 DEF TypeOK, Known
  <2>. QED BY <2>2, <2>3
<1>4. CASE Step
  <2>1. CASE Finish
    <3>1. /\ wire.kind \in AnswerKinds /\ wire.use \in {"first", "again"}
          /\ Reply(OutcomeOf(wire.kind)) /\ runs' = runs
      BY <2>1 DEF Finish, Answered, upstream
    <3>2. cur \in Calls => runs[cur] = IF wire.kind \in Dispatched THEN 1 ELSE 0
      BY <1>0, <3>1 DEF RunsMatch
    <3>3. /\ OutcomeOf(wire.kind) \in {"result", "silent", "refused", "unknown"}
          /\ OutcomeOf(wire.kind) = "result" => wire.kind \in Dispatched
          /\ OutcomeOf(wire.kind) = "refused" => wire.kind \notin Dispatched
      BY DEF OutcomeOf
    <3>4. wire.kind # "idle" BY <3>1 DEF AnswerKinds
    <3>. QED BY <3>1, <3>2, <3>3, <3>4, <1>3
  <2>2. CASE ReplayFails \/ Lost \/ (Refresh /\ Reply("unknown"))
    <3>1. Reply("unknown") /\ wire.kind # "idle" /\ runs' = runs
      BY <1>0, <2>2 DEF ReplayFails, Lost, Refresh, Answered, AnswerKinds, Forwarding, upstream
    <3>. QED BY <3>1, <1>3
  <2>3. CASE Reopen \/ Replayed \/ Announced \/ (Refresh /\ ~Reply("unknown"))
    BY <2>3 DEF Reopen, Replayed, Announced, Refresh, Known, upstream
  <2>. QED BY <1>4, <2>1, <2>2, <2>3 DEF Step
<1>5. ASSUME NEW p, Accept(p), outcome' = outcome,
             p.msg \in Calls => runs[p.msg] = 0 /\ outcome[p.msg] \in {"pending", "unknown"}
      PROVE UNCHANGED <<runs, told>> \/ (p.msg \in Calls /\ Promise!Run(p.msg))
  <2>1. CASE p.msg \in Calls
    <3>1. runs' = [runs EXCEPT ![p.msg] = runs[p.msg] + 1] BY <1>5, <2>1 DEF Accept
    <3>2. runs' = [runs EXCEPT ![p.msg] = 1]
      <4>1. runs[p.msg] + 1 = 1 BY <1>5, <2>1
      <4>. QED BY <3>1, <4>1
    <3>4. told' = told BY <1>5 DEF Known
    <3>3. told[p.msg] = outcome[p.msg] BY <1>5, <2>1 DEF Known
    <3>. QED BY <1>5, <2>1, <3>2, <3>3, <3>4 DEF Promise!Run
  <2>2. CASE p.msg \notin Calls BY <1>5, <2>2 DEF Accept, Known
  <2>. QED BY <2>1, <2>2
<1>6. CASE Serve
  <2>1. outcome' = outcome /\ wire.kind = "post" /\ (Accept(wire) \/ runs' = runs)
    BY <1>6 DEF Serve, proxy, upstream
  <2>2. wire.msg \in Calls => wire.msg = cur BY <1>0, <2>1 DEF Forwarding, TypeOK
  <2>3. wire.msg \in Calls => runs[wire.msg] = 0 /\ outcome[wire.msg] = "pending"
    BY <1>0, <2>1, <2>2 DEF RunsMatch, Forwarding
  <2>4. CASE Accept(wire)
    <3>1. UNCHANGED <<runs, told>> \/ (wire.msg \in Calls /\ Promise!Run(wire.msg))
      BY <2>1, <2>3, <2>4, <1>5
    <3>. QED BY <3>1, <1>9
  <2>5. CASE runs' = runs BY <2>1, <2>5 DEF Known
  <2>. QED BY <2>1, <2>4, <2>5
<1>7. CASE ServeLate
  <2>1. PICK p \in late : Accept(p) BY <1>7 DEF ServeLate
  <2>2. outcome' = outcome BY <1>7 DEF ServeLate, proxy
  <2>. QED BY <2>1, <2>2, <1>0, <1>5, <1>9 DEF RunsMatch
<1>8. CASE Drop BY <1>8 DEF Drop, proxy, Known
<1>. QED BY <1>1, <1>2, <1>4, <1>6, <1>7, <1>8, <1>9 DEF Next

\* IInv holds in every state the proxy and the upstream can reach.
THEOREM Inductive == Spec => []IInv
<1>. QED BY InitHolds, NextHolds, PTL DEF Spec

\* A message has at most one line, and only when forward is done with it: a
\* request unless the upstream ran it and sent no body, a notification only if
\* it ran and the upstream sent one (mcp_proxy.py:213,220-222,228-229).
THEOREM EachAnsweredOnce == Spec => []OneReply
<1>1. IInv => OneReply BY DEF IInv
<1>. QED BY <1>1, Inductive, PTL

\* Unless the last replay failed, the session kept is one that the remembered
\* initialize opened, and a message refused in a dropped session waits for
\* such a session: what the client negotiated is in force
\* (mcp_proxy.py:126-134,145-152).
THEOREM HandshakeRestored == Spec => []HandshakeKept
<1>1. IInv => HandshakeKept
  BY DEF IInv, HandshakeKept, RetryInReplayed, Restored, Sessions
<1>. QED BY <1>1, Inductive, PTL

\* The upstream runs a tool call at most once, and the client is not told
\* that it was refused, or given a result, when it was not so, however often
\* the proxy refreshes, reopens and replays.
THEOREM Refinement == Spec => ImplementsAtMostOnce
<1>1. Init => Promise!Init BY DEF Init, Known, Promise!Init
<1>2. IInv /\ [Next]_vars => [Promise!Next]_<<runs, [m \in Calls |-> Known(m)]>> BY StepImplements
<1>. QED BY <1>1, <1>2, Inductive, PTL DEF Spec, Promise!Spec, ImplementsAtMostOnce
=============================================================================
