------------------------------ MODULE McpProxy ------------------------------
(***************************************************************************)
(* kagura-mcp (mcp_proxy.py): a bridge that reads one JSON-RPC message at  *)
(* a time from its client, forwards it to the upstream MCP endpoint and    *)
(* writes the answer back.  It keeps the upstream session: when the        *)
(* upstream says it no longer holds it, the proxy replays the client's     *)
(* last accepted initialize, announces notifications/initialized and       *)
(* forwards the message once more.  Each POST may be answered 401, which   *)
(* forces a token refresh and one more POST, or fail in transport.         *)
(***************************************************************************)
EXTENDS Integers, Sequences, FiniteSets

CONSTANTS Inits,     \* the client's initialize requests
          Requests,  \* its other requests
          Notes,     \* its notifications: no id, so no answer
          NoMsg,     \* no message
          MaxEnded   \* bound on the sessions the upstream ends

ASSUME McpProxyAssumption ==
  /\ NoMsg \notin Inits \cup Requests \cup Notes
  /\ Inits \cap (Requests \cup Notes) = {} /\ Requests \cap Notes = {}
  /\ MaxEnded \in Nat

Calls    == Requests \cup Notes
Messages == Inits \cup Calls

VARIABLES
  session,    \* _session_id: None or an upstream session
  cached,     \* _initialize: the last initialize the upstream accepted
  cur,        \* the message being forwarded
  refreshed,  \* the POST under way was already answered 401 once
  wire,       \* the POST under way, then its answer
  outcome,    \* what the client knows of each message
  replies,    \* lines written back for each message
  opener,     \* the initialize that opened each upstream session, if any
  live,       \* sessions the upstream still holds
  late,       \* POSTs the proxy gave up that the upstream may still get
  lapsed,     \* history: the last replay of initialize failed
  runs        \* how often the upstream dispatched each call

vars == <<session, cached, cur, refreshed, wire, outcome, replies,
          opener, live, late, lapsed, runs>>

None == 0

\* Why a message is posted: itself, "first" and "again"; or in its way, the
\* "replay" of initialize and the "announce"ment that follows it.
Uses == {"first", "replay", "announce", "again"}

\* A 2xx with a body, a 202 or one without a body, and one whose body is no
\* JSON.
Succeeded == {"ok", "empty", "garbled"}

\* "error" and those: dispatched.  "expired": 404, the session is gone.
\* "no_method": the stateless 404.  "unauthorized": 401.  "rejected": any
\* other refusal before dispatch.
AnswerKinds == Succeeded \cup {"error", "expired", "no_method", "unauthorized", "rejected"}

NoPost == [kind |-> "idle", use |-> "first", msg |-> NoMsg,
           sid |-> None, old |-> None, header |-> None]

Init == /\ session = None
        /\ cached = NoMsg
        /\ cur = NoMsg
        /\ refreshed = FALSE
        /\ wire = NoPost
        /\ outcome = [m \in Messages |-> "none"]
        /\ replies = [m \in Messages |-> 0]
        /\ opener = <<>>
        /\ live = {}
        /\ late = {}
        /\ lapsed = FALSE
        /\ runs = [m \in Calls |-> 0]

upstream == <<opener, live, runs>>

\* _post_with_retry starts: one POST of m in session s, not refreshed yet.
\* The session old was refused before, for the message itself.
Post(u, m, s, old) ==
  /\ wire' = [kind |-> "post", use |-> u, msg |-> m, sid |-> s, old |-> old, header |-> None]
  /\ refreshed' = FALSE

\* Mutant: an error is reported even for a notification.
ReplyAlways(o) == /\ outcome' = [outcome EXCEPT ![cur] = o]
                  /\ replies' = [replies EXCEPT ![cur] = @ + 1]
                  /\ cur' = NoMsg
                  /\ wire' = NoPost
                  /\ refreshed' = FALSE

\* The body of a 2xx is written back, also for a notification; any other end
\* is an error line, but for a notification.  Without a body there is no line.
Writes(o) == o = "result" \/ (o # "silent" /\ cur \notin Notes)

\* forward has ended with o: its line, if there is one, is written and the
\* loop goes on to the next message.
Reply(o) == /\ outcome' = [outcome EXCEPT ![cur] = o]
            /\ replies' = [replies EXCEPT ![cur] = IF Writes(o) THEN @ + 1 ELSE @]
            /\ cur' = NoMsg
            /\ wire' = NoPost
            /\ refreshed' = FALSE

\* A replay that ends the message leaves the client without its handshake.
Lapse == lapsed' = (lapsed \/ wire.use = "replay")

\* initialize opens a new session and names none.
SessionFor(m) == IF m \in Inits THEN None ELSE session

\* serve reads the next line and forward posts it.
Read(m) == /\ cur = NoMsg /\ outcome[m] = "none"
           /\ cur' = m
           /\ outcome' = [outcome EXCEPT ![m] = "pending"]
           /\ Post("first", m, SessionFor(m), None)
           /\ UNCHANGED <<session, cached, replies, late, lapsed, upstream>>

\* Mutant: every 401 is answered with a refresh.
RefreshAlways ==
  /\ wire.kind = "unauthorized"
  /\ refreshed' = TRUE
  /\ wire' = [wire EXCEPT !.kind = "post"]
  /\ UNCHANGED <<cur, outcome, replies, session, cached, late, lapsed, upstream>>

\* The first 401 forces a refresh; it succeeds and the POST is repeated, or
\* it fails and the message with it.
Refresh ==
  /\ wire.kind = "unauthorized" /\ ~refreshed
  /\ \/ /\ refreshed' = TRUE
        /\ wire' = [wire EXCEPT !.kind = "post"]
        /\ UNCHANGED <<cur, outcome, replies, lapsed>>
     \/ Reply("unknown") /\ Lapse
  /\ UNCHANGED <<session, cached, late, upstream>>

\* The POST for u has its answer.
Answered(u) == /\ wire.use = u /\ wire.kind \in AnswerKinds
               /\ wire.kind = "unauthorized" => refreshed

\* The session after a POST: the one the answer names, or still the old one.
Captured == IF wire.header # None THEN wire.header ELSE session

\* Mutant: an error status after dispatch counts as an expired session.
SessionExpiredAnyError == wire.kind \in {"expired", "error"} /\ wire.sid # None

SessionExpired == wire.kind = "expired" /\ wire.sid # None

\* What the client learns from an answer forwarded or reported to it.
OutcomeOf(k) == CASE k = "ok" -> "result"
                  [] k = "empty" -> "silent"
                  [] k \in {"expired", "no_method", "unauthorized"} -> "refused"
                  [] OTHER -> "unknown"

\* Mutant: a failed initialize is remembered as well.
RememberedAny == IF cur \in Inits THEN cur ELSE cached

\* An initialize the upstream accepted is remembered.
Remembered == IF cur \in Inits /\ wire.kind \in Succeeded THEN cur ELSE cached

\* The answer to the message itself ends it; so does any to the retry.
Finish == /\ (Answered("first") /\ ~SessionExpired) \/ Answered("again")
          /\ session' = Captured
          /\ cached' = Remembered
          /\ Reply(OutcomeOf(wire.kind))
          /\ lapsed' = (lapsed /\ ~(cur \in Inits /\ wire.kind \in Succeeded))
          /\ UNCHANGED <<late, upstream>>

\* Mutant: the old session is kept for the retry.
ReopenKeepsSession ==
  /\ Answered("first") /\ SessionExpired
  /\ Post("again", cur, session, wire.sid)
  /\ UNCHANGED <<session, cached, cur, outcome, replies, late, lapsed, upstream>>

\* The session is gone: forget it and replay initialize, if there was one;
\* else try the message without a session.
Reopen == /\ Answered("first") /\ SessionExpired
          /\ session' = None
          /\ \/ cached = NoMsg /\ Post("again", cur, None, wire.sid)
             \/ cached # NoMsg /\ Post("replay", cached, None, wire.sid)
          /\ UNCHANGED <<cached, cur, outcome, replies, late, lapsed, upstream>>

\* The replay was accepted: announce it in the new session.
Replayed == /\ Answered("replay") /\ wire.kind \in Succeeded
            /\ session' = Captured
            /\ Post("announce", NoMsg, session', wire.old)
            /\ lapsed' = FALSE
            /\ UNCHANGED <<cached, cur, outcome, replies, late, upstream>>

\* The replay failed: the proxy reports it as the message's error.
ReplayFails == /\ Answered("replay") /\ wire.kind \notin Succeeded
               /\ Reply("unknown") /\ Lapse
               /\ UNCHANGED <<session, cached, late, upstream>>

\* Whatever the announcement was answered, the message goes out again.
Announced == /\ Answered("announce")
             /\ session' = Captured
             /\ Post("again", cur, session', wire.old)
             /\ UNCHANGED <<cached, cur, outcome, replies, late, lapsed, upstream>>

\* A POST fails in transport or by the time-out; the exception becomes the
\* message's error.  The upstream may still get the POST.
Lost == /\ wire # NoPost
        /\ Reply("unknown") /\ Lapse
        /\ late' = IF wire.kind = "post" THEN late \cup {wire} ELSE late
        /\ UNCHANGED <<session, cached, upstream>>

proxy == <<session, cached, cur, outcome, replies, refreshed, lapsed>>

Opens(p) == p.msg \in Inits \/ p.sid = None

\* The upstream accepts POST p.  An initialize opens a session; so does any
\* message that names none.
Accept(p) ==
  /\ p.sid = None \/ p.sid \in live
  /\ \/ /\ Opens(p)
        /\ opener' = Append(opener, IF p.msg \in Inits THEN p.msg ELSE NoMsg)
        /\ live' = live \cup {Len(opener')}
     \/ ~Opens(p) /\ UNCHANGED <<opener, live>>
  /\ runs' = IF p.msg \in Calls THEN [runs EXCEPT ![p.msg] = @ + 1] ELSE runs

Answer(k, h) == wire' = [wire EXCEPT !.kind = k, !.header = h]

\* The upstream answers the POST under way.
Serve ==
  /\ wire.kind = "post"
  /\ \/ /\ Accept(wire)
        /\ \E k \in Succeeded : Answer(k, IF Opens(wire) THEN Len(opener') ELSE None)
     \/ Accept(wire) /\ ~Opens(wire) /\ Answer("error", None)
     \/ /\ wire.sid \notin live \cup {None} /\ Answer("expired", None)
        /\ UNCHANGED upstream
     \/ /\ \E k \in {"no_method", "unauthorized", "rejected"} : Answer(k, None)
        /\ UNCHANGED upstream
  /\ UNCHANGED <<proxy, late>>

\* A POST the proxy gave up reaches the upstream after all.
ServeLate == \E p \in late : /\ Accept(p)
                             /\ late' = late \ {p}
                             /\ UNCHANGED <<proxy, wire>>

\* The upstream ends a session.
Drop == /\ Len(opener) - Cardinality(live) < MaxEnded
        /\ \E s \in live : live' = live \ {s}
        /\ UNCHANGED <<proxy, wire, opener, late, runs>>

Step == \/ Refresh \/ Finish \/ Reopen \/ Replayed \/ ReplayFails
        \/ Announced \/ Lost

Next == \/ \E m \in Messages : Read(m)
        \/ Step \/ Serve \/ ServeLate \/ Drop

Spec == Init /\ [][Next]_vars

\* Every POST ends, by an answer or by the 60 s time-out, and the loop goes
\* on.  Nothing obliges the upstream to answer or the client to write.
FairSpec == Spec /\ WF_vars(Step)
-----------------------------------------------------------------------------
TypeOK ==
  /\ session \in 0 .. Len(opener)
  /\ cached \in Inits \cup {NoMsg}
  /\ cur \in Messages \cup {NoMsg}
  /\ refreshed \in BOOLEAN
  /\ wire \in [kind : {"idle", "post"} \cup AnswerKinds, use : Uses,
               msg : Messages \cup {NoMsg},
               sid : 0 .. Len(opener), old : 0 .. Len(opener),
               header : 0 .. Len(opener)]
  /\ outcome \in [Messages -> {"none", "pending", "result", "silent", "refused", "unknown"}]
  /\ replies \in [Messages -> Nat]
  /\ opener \in Seq(Inits \cup {NoMsg})
  /\ live \subseteq 1 .. Len(opener)
  /\ lapsed \in BOOLEAN
  /\ runs \in [Calls -> Nat]

\* The lines that are due for m once forward is done with it.
Due(m) == IF \/ outcome[m] = "result"
             \/ outcome[m] \in {"refused", "unknown"} /\ m \notin Notes
          THEN 1 ELSE 0

\* A message has at most one line, and none before forward is done with it.
\* A request has one unless the upstream itself ran it and sent no body, and a
\* notification none unless the upstream ran it and sent one
\* (mcp_proxy.py:213,220-222,228-229): no line comes from a replay, from an
\* announcement, or from an answer before the retry.
OneReply ==
  \A m \in Messages :
    /\ replies[m] = Due(m)
    /\ m \in Calls /\ outcome[m] \in {"result", "silent"} => runs[m] = 1

\* The session kept is the one of the client's handshake, also after it was
\* dropped and while the message waits for it, unless a replay failed: then
\* messages go out without a session until one is replayed or made anew.
InForce == cached # NoMsg /\ ~lapsed /\ wire.use # "replay" =>
             session # None /\ opener[session] = cached

\* In any case it is one that the remembered initialize opened, or nobody.
SameHandshake == session # None => opener[session] \in {cached, NoMsg}

\* The message is never posted again in the session that was refused, and
\* after a replay it goes out in a session the replay opened, also when the
\* announcement in between failed or its session was dropped.
RetryInReplayed ==
  wire.use = "again" =>
    /\ wire.sid # wire.old
    /\ wire.kind = "post" /\ cached # NoMsg =>
         wire.sid # None /\ opener[wire.sid] = cached

\* The handshake the client made last is the one in force, and after a session
\* was dropped the message waits until it is made again; a replay that failed
\* is the only exception (mcp_proxy.py:139-143).
HandshakeKept == InForce /\ SameHandshake /\ RetryInReplayed

\* Every request the proxy reads is answered, even if the upstream never
\* answers, rejects every token or ends every session; unless its own answer
\* is one without a body, of which the proxy writes nothing.
RequestsAnswered ==
  \A m \in Inits \cup Requests :
    outcome[m] = "pending" ~> replies[m] = 1 \/ outcome[m] = "silent"

\* Without a line the client cannot know what became of a call.
Known(m) == IF outcome[m] = "silent" THEN "unknown" ELSE outcome[m]

Promise == INSTANCE AtMostOnce WITH outcome <- [m \in Calls |-> Known(m)]

\* Replays and refreshes never run a tool call twice.
ImplementsAtMostOnce == Promise!Spec
=============================================================================
