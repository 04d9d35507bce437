----------------------------- MODULE McpSession -----------------------------
(***************************************************************************)
(* The MCP session of one KaguraClient (client.py) and the calls that      *)
(* share it.  Each call is an asyncio task: it makes sure there is a       *)
(* session (_initialize_session, single-flight under self._session_lock),  *)
(* posts its request in that session (_post_in_session) and, when the      *)
(* server answers that it no longer holds the session, forgets it, makes   *)
(* sure of a new one and posts once more.  Tasks interleave where they     *)
(* await: at the lock and at each POST.                                    *)
(*                                                                         *)
(* The server is memory-cloud's MCP endpoint, as client.py and _http.py    *)
(* describe it.  It may end a session at any time; a session it cleaned up *)
(* but re-adopts on the next request is one that never ended.              *)
(***************************************************************************)
EXTENDS Integers, Sequences, FiniteSets, SequencesExt

CONSTANTS Calls,    \* the requests made through the client
          NoCall,   \* the session lock is free
          MaxEnded  \* bound on the sessions the server ends

ASSUME McpSessionAssumption == NoCall \notin Calls /\ MaxEnded \in Nat

VARIABLES
  session,   \* self._session_id: None, or a session of the server
  lock,      \* the call that holds self._session_lock
  queue,     \* the calls that wait for it, first come first served
  pc,        \* where each call is
  refused,   \* the session in which its first POST was refused
  outcome,   \* what its caller was given
  wire,      \* the POST of each call: the request, then its answer
  minted,    \* sessions the server has opened, 1 .. minted
  live,      \* those it still holds
  runs       \* how often the server dispatched the request of each call

vars == <<session, lock, queue, pc, refused, outcome, wire, minted, live, runs>>

None == 0

Idle    == [kind |-> "idle", sid |-> None]
InitReq == [kind |-> "initialize", sid |-> None]
PostReq(s) == [kind |-> "post", sid |-> s]
Ans(k, s)  == [kind |-> k, sid |-> s]

\* "opened": initialize succeeded.  "result", "error": the request was
\* dispatched.  "expired": 404, the session is gone.  "no_method": the 404 of
\* the stateless path.  "rejected": any other refusal before dispatch.
AnswerKinds == {"opened", "result", "error", "expired", "no_method", "rejected"}
Kinds == {"idle", "initialize", "post"} \cup AnswerKinds
PC == {"idle", "queued", "opening", "posting", "done"}

Message == [kind : Kinds, sid : Nat]

Init == /\ session = None
        /\ lock = NoCall
        /\ queue = <<>>
        /\ pc = [c \in Calls |-> "idle"]
        /\ refused = [c \in Calls |-> None]
        /\ outcome = [c \in Calls |-> "none"]
        /\ wire = [c \in Calls |-> Idle]
        /\ minted = 0
        /\ live = {}
        /\ runs = [c \in Calls |-> 0]

server == <<minted, live, runs>>

Send(c, l, m) == /\ pc' = [pc EXCEPT ![c] = l]
                 /\ wire' = [wire EXCEPT ![c] = m]

Post(c, s) == Send(c, "posting", PostReq(s))

End(c, o) == /\ pc' = [pc EXCEPT ![c] = "done"]
             /\ outcome' = [outcome EXCEPT ![c] = o]

\* _initialize_session when self._session_id is s, and the POST that follows
\* it: at once, or through the lock.  asyncio.Lock lets nobody overtake.
EnsureSession(c, s) ==
  /\ session' = s
  /\ \/ /\ s # None
        /\ Post(c, s)
        /\ UNCHANGED <<lock, queue>>
     \/ /\ s = None /\ lock = NoCall /\ queue = <<>>
        /\ lock' = c
        /\ Send(c, "opening", InitReq)
        /\ UNCHANGED queue
     \/ /\ s = None /\ (lock # NoCall \/ queue # <<>>)
        /\ queue' = Append(queue, c)
        /\ pc' = [pc EXCEPT ![c] = "queued"]
        /\ UNCHANGED <<lock, wire>>

\* A task calls _make_jsonrpc_request.
Start(c) == /\ pc[c] = "idle"
            /\ EnsureSession(c, session)
            /\ outcome' = [outcome EXCEPT ![c] = "pending"]
            /\ UNCHANGED <<refused, server>>

\* The first waiter gets the lock.  If a session was opened while it waited
\* it leaves the lock and posts, otherwise it opens one.
Granted(c) ==
  /\ queue # <<>> /\ Head(queue) = c /\ lock = NoCall
  /\ queue' = Tail(queue)
  /\ \/ session # None /\ Post(c, session) /\ UNCHANGED lock
     \/ session = None /\ lock' = c /\ Send(c, "opening", InitReq)
  /\ UNCHANGED <<session, refused, outcome, server>>

\* The answer to initialize names the session; the lock is released and the
\* request posted in it.
Opened(c) == /\ pc[c] = "opening" /\ wire[c].kind = "opened"
             /\ session' = wire[c].sid
             /\ lock' = NoCall
             /\ Post(c, wire[c].sid)
             /\ UNCHANGED <<queue, refused, outcome, server>>

\* Mutant: the failed handshake leaves the lock taken.
OpenFailsKeepsLock(c) ==
  /\ pc[c] = "opening" /\ wire[c].kind = "rejected"
  /\ End(c, "unknown")
  /\ UNCHANGED <<session, lock, queue, refused, wire, server>>

\* initialize failed: an error status, or an answer without a session id.
OpenFails(c) == /\ pc[c] = "opening" /\ wire[c].kind = "rejected"
                /\ lock' = NoCall
                /\ End(c, "unknown")
                /\ UNCHANGED <<session, queue, refused, wire, server>>

\* Mutant: any error answer counts as an expired session.
SessionExpiredAnyError(m) == m.kind \in {"expired", "error", "rejected"}

\* mcp_session_expired: a 404 to a request that named a session, unless it is
\* the stateless Method-not-found.
SessionExpired(m) == m.kind = "expired"

\* Mutant: the session is forgotten even if it is a newer one.
ForgetAny(s) == None

\* The session is forgotten only while it is still the stale one s.
Forget(s) == IF session = s THEN None ELSE session

\* The first POST was refused for its session: once more, in a new one.
Retry(c) ==
  /\ pc[c] = "posting" /\ SessionExpired(wire[c]) /\ refused[c] = None
  /\ refused' = [refused EXCEPT ![c] = wire[c].sid]
  /\ EnsureSession(c, Forget(wire[c].sid))
  /\ UNCHANGED <<outcome, server>>

\* What the caller gets for an answer that is not retried.
OutcomeOf(k) == CASE k = "result" -> "result"
                  [] k \in {"expired", "no_method"} -> "refused"
                  [] OTHER -> "unknown"

Answered(c) ==
  /\ pc[c] = "posting" /\ wire[c].kind \in AnswerKinds
  /\ SessionExpired(wire[c]) => refused[c] # None
  /\ End(c, OutcomeOf(wire[c].kind))
  /\ UNCHANGED <<session, lock, queue, refused, wire, server>>

\* A connection error, the httpx timeout or a cancellation ends a POST.  The
\* request may still reach the server; nobody reads its answer.
Lost(c) == /\ pc[c] \in {"opening", "posting"}
           /\ End(c, "unknown")
           /\ lock' = IF lock = c THEN NoCall ELSE lock
           /\ UNCHANGED <<session, queue, refused, wire, server>>

\* The caller cancels the task while it waits for the lock.
CancelQueued(c) == /\ pc[c] = "queued"
                   /\ \E i \in DOMAIN queue : /\ queue[i] = c
                                             /\ queue' = RemoveAt(queue, i)
                   /\ End(c, "unknown")
                   /\ UNCHANGED <<session, lock, refused, wire, server>>

client == <<session, lock, queue, pc, refused, outcome>>

\* The server answers initialize, with a new session or with an error.
ServeInitialize(c) ==
  /\ wire[c].kind = "initialize"
  /\ \/ /\ minted' = minted + 1
        /\ live' = live \cup {minted'}
        /\ wire' = [wire EXCEPT ![c] = Ans("opened", minted')]
     \/ /\ wire' = [wire EXCEPT ![c] = Ans("rejected", None)]
        /\ UNCHANGED <<minted, live>>
  /\ UNCHANGED <<client, runs>>

\* The server refuses the request before dispatch, or dispatches it.
ServePost(c) ==
  /\ wire[c].kind = "post"
  /\ \/ /\ wire[c].sid \in live
        /\ runs' = [runs EXCEPT ![c] = @ + 1]
        /\ \E k \in {"result", "error"} :
             wire' = [wire EXCEPT ![c] = Ans(k, wire[c].sid)]
     \/ /\ wire[c].sid \notin live
        /\ wire' = [wire EXCEPT ![c] = Ans("expired", wire[c].sid)]
        /\ UNCHANGED runs
     \/ /\ \E k \in {"no_method", "rejected"} :
             wire' = [wire EXCEPT ![c] = Ans(k, wire[c].sid)]
        /\ UNCHANGED runs
  /\ UNCHANGED <<client, minted, live>>

\* The server ends a session: DELETE, a restart, an idle hour.
Drop(s) == /\ s \in live
           /\ Cardinality((1 .. minted) \ live) < MaxEnded
           /\ live' = live \ {s}
           /\ UNCHANGED <<client, wire, minted, runs>>

Step(c) == \/ Granted(c) \/ Opened(c) \/ OpenFails(c)
           \/ Retry(c) \/ Answered(c) \/ Lost(c)

Next == \/ \E c \in Calls : \/ Start(c) \/ Step(c) \/ CancelQueued(c)
                            \/ ServeInitialize(c) \/ ServePost(c)
        \/ \E s \in live : Drop(s)

Spec == Init /\ [][Next]_vars

\* The event loop runs what is ready, and httpx ends each POST by an answer or
\* by its timeout.  Nothing obliges the server to answer or a caller to call.
FairSpec == Spec /\ \A c \in Calls : WF_vars(Step(c))
-----------------------------------------------------------------------------
TypeOK ==
  /\ session \in Nat
  /\ lock \in Calls \cup {NoCall}
  /\ queue \in Seq(Calls)
  /\ pc \in [Calls -> PC]
  /\ refused \in [Calls -> Nat]
  /\ outcome \in [Calls -> {"none", "pending", "result", "refused", "unknown"}]
  /\ wire \in [Calls -> Message]
  /\ minted \in Nat
  /\ live \subseteq 1 .. minted
  /\ runs \in [Calls -> Nat]

\* Only the holder of the lock opens a session, and only while there is none.
SingleFlight == /\ \A c \in Calls : pc[c] = "opening" <=> lock = c
                /\ lock # NoCall => session = None

\* Every session the server holds is the one the client uses, or its
\* initialize is still under way, or the call that asked for it was given up:
\* concurrent calls never leave a session behind (client.py:427-429,529-531).
NoOrphan ==
  \A s \in live : \/ session = s
                  \/ \E c \in Calls : wire[c].kind = "opened" /\ wire[c].sid = s

\* The one retry never names the session that was refused, even when other
\* calls were refused, and opened a session, in the meantime.
FreshRetry ==
  \A c \in Calls : pc[c] = "posting" => wire[c].sid \in (1 .. minted) \ {refused[c]}

\* A call that the server told its caller it refused was not run, and one
\* whose result the caller has was: part of what AtMostOnce asks for.
Honest == \A c \in Calls : /\ outcome[c] = "refused" => runs[c] = 0
                           /\ outcome[c] = "result" => runs[c] = 1
                           /\ runs[c] <= 1

InQueue(q, c) == \E i \in DOMAIN q : q[i] = c
NoRepeats(q)  == \A i, j \in DOMAIN q : q[i] = q[j] => i = j

\* Calls wait for the lock in the order they came, each once.
Queued == /\ \A c \in Calls : pc[c] = "queued" <=> InQueue(queue, c)
          /\ NoRepeats(queue)

\* What travels for a call, by where the call is.  A call that gave up may
\* have anything on the wire.
WireFits ==
  \A c \in Calls :
    /\ pc[c] = "idle" => wire[c].kind = "idle" /\ refused[c] = None
    /\ pc[c] = "queued" => wire[c].kind \in {"idle", "expired"}
    /\ pc[c] = "opening" => wire[c].kind \in {"initialize", "opened", "rejected"}
    /\ pc[c] = "posting" => wire[c].kind \in ({"post"} \cup AnswerKinds) \ {"opened"}
    /\ pc[c] = "idle" <=> outcome[c] = "none"
    /\ pc[c] \in {"queued", "opening", "posting"} => outcome[c] = "pending"
    /\ outcome[c] = "refused" => wire[c].kind \in {"expired", "no_method"}
    /\ outcome[c] = "result" => wire[c].kind = "result"

\* A session that was refused is gone, and is not the client's session; one
\* whose initialize is not yet read has not been used.
RefusedAreGone ==
  /\ \A c \in Calls : wire[c].kind = "expired" => wire[c].sid \notin live
  /\ \A c \in Calls : refused[c] # None => session # refused[c]
  /\ \A c, d \in Calls : pc[c] = "opening" /\ wire[c].kind = "opened" =>
       /\ wire[c].sid \in 1 .. minted
       /\ refused[d] # wire[c].sid
       /\ wire[d].kind = "post" \/ wire[d].kind \in AnswerKinds \ {"opened"} =>
            wire[d].sid # wire[c].sid

\* Before its request is dispatched a call has run not at all, after it once.
RunsMatchWire ==
  \A c \in Calls : runs[c] = IF wire[c].kind \in {"result", "error"} THEN 1 ELSE 0

\* Sessions the client knows of were opened by the server.
SessionsMinted == /\ session <= minted
                  /\ \A c \in Calls : wire[c].sid <= minted /\ refused[c] <= minted

\* The inductive invariant.
IInv == /\ TypeOK /\ SingleFlight /\ NoOrphan /\ FreshRetry /\ Honest
        /\ Queued /\ WireFits /\ RefusedAreGone /\ RunsMatchWire /\ SessionsMinted

\* Every call ends, whatever other calls and the server do: nobody waits for
\* ever for a lock whose holder failed.
CallsEnd == \A c \in Calls : pc[c] # "idle" ~> pc[c] = "done"

Promise == INSTANCE AtMostOnce

\* The one retry after an expired session does not run a tool call twice.
ImplementsAtMostOnce == Promise!Spec
=============================================================================
