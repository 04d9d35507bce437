------------------------------- MODULE Calls -------------------------------
(***************************************************************************)
(* One call, from the command line or from a program, of any method of the *)
(* clients: what is parsed, asked, checked, sent, answered, sent again and *)
(* reported.  The rows of ClientMethods, RestMethods and Commands say what *)
(* is particular to a method or a command; this module is the course they  *)
(* all take.                                                               *)
(*                                                                         *)
(* The server may be older than the SDK and refuse an argument it does not *)
(* know; an answer may be lost, or be one the SDK cannot read.             *)
(***************************************************************************)
EXTENDS Commands, FiniteSetsExt

CONSTANTS Rows,     \* the commands and methods that are called
          MaxExtra  \* options given beyond the required ones

(* A library call: every argument of the method, passed on as it is.       *)
Arguments(m) == m.always \cup m.ifSet \cup m.ifTrue \cup {r[1] : r \in m.rides} \cup m.ignored
Direct(m) == Command(m, "none", m.always, As(Arguments(m)))

(* Every option feeds an argument of the method, on one of the five lanes. *)
ASSUME RowsAssumption ==
  \A c \in Rows : /\ c.method.lane \in {"tool", "get", "tags", "rest", "secret"}
                  /\ \A o \in DOMAIN c.opts : c.opts[o][1] \in Arguments(c.method)

VARIABLES
  cmd,      \* the row
  given,    \* option -> Value: what the caller gave
  phase,    \* where the call is
  dropped,  \* options left out of a second request and named in a note
  wire,     \* the arguments on the last request that was sent
  applied,  \* how often the server carried the request out
  reply,    \* what the server's answer was
  raised    \* how the call ended: "ok", or what was raised
callVars == <<cmd, given, phase, dropped, wire, applied, reply, raised>>

Refusals == {"unauthorized", "scope", "forbidden", "missing", "conflict", "feature", "quota",
             "capacity", "throttled", "unavailable", "other"}
Replies == Refusals \cup {"none", "ok", "unknown", "partial", "unreadable", "lost"}
Errors == {"UsageError", "Abort", "KaguraAuthError", "ValueError", "KaguraError", "KaguraConnectionError",
           "KaguraServiceUnavailableError", "KaguraNotFoundError", "KaguraVersionConflictError",
           "KaguraRateLimitError", "KaguraQuotaError", "KaguraFeatureNotAvailableError",
           "KaguraCapacityLockedError", "KaguraPartialRollbackError", "KaguraResponseError"}

---------------------------------------------------------------------------
(* What an option becomes, and what a method makes of it.                  *)

Convert(how, v) ==
  CASE how = "parsed" /\ v = "blank" -> "unset"
    [] how = "flag" /\ v = "unset" -> "blank"
    [] how = "empty" /\ v = "good" -> "blank"
    [] OTHER -> v

(* The value an argument gets: several options may feed one argument.      *)
Fed(a) == {Convert(cmd.opts[o][2], given[o]) : o \in {p \in DOMAIN given \ dropped : cmd.opts[p][1] = a}}
Arg(a) == CHOOSE v \in Value : v \in Fed(a) \cup {"unset"} /\ (v = "bad" \/ "bad" \notin Fed(a))
                               /\ (v # "blank" \/ "good" \notin Fed(a))
                               /\ (v # "unset" \/ Fed(a) \subseteq {"unset"})

Counted(o) == IF cmd.opts[o][2] = "as" THEN given[o] # "unset"
              ELSE given[o] # "unset" /\ Convert(cmd.opts[o][2], given[o]) # "unset" /\ given[o] # "blank"

(* The parser's own rules, before anything else happens.                   *)
UsageOK ==
  /\ \A o \in cmd.nonblank : given[o] # "blank"
  /\ cmd.atLeast # {} => \E o \in cmd.atLeast : Counted(o)
  /\ \A pair \in cmd.apart : ~ ((\E o \in pair[1] : Counted(o)) /\ (\E o \in pair[2] : Counted(o)))

Sent(m, a) == IF a \in m.ifTrue THEN Arg(a) \in {"good", "bad"} ELSE Arg(a) # "unset"
Counts(m, a) == IF a \in m.truthy THEN Arg(a) \in {"good", "bad"} ELSE Sent(m, a)

(* The method's own rules, before anything is sent.                        *)
ChecksOK(m) ==
  /\ \A a \in m.checked : Arg(a) # "bad"
  /\ \A s \in m.oneOf : Cardinality({a \in s : Counts(m, a)}) = 1
  /\ \A s \in m.anyOf : \E a \in s : Counts(m, a) \/ a = cmd.context
  /\ \A pair \in m.clash : ~ ((\E a \in pair[1] : Counts(m, a)) /\ (\E a \in pair[2] : Counts(m, a)))

Beaten(m, a) == \E pair \in m.beats : pair[2] = a /\ Sent(m, pair[1])
Unridden(m, a) == \E pair \in m.rides : pair[1] = a /\ ~ Sent(m, pair[2])

(* The arguments of the request.                                           *)
Wire(m) == {a \in m.always \cup m.ifSet \cup m.ifTrue \cup {r[1] : r \in m.rides} :
              /\ a \in m.always \/ Sent(m, a) \/ (\E r \in m.rides : r[1] = a)
              /\ ~ Beaten(m, a) /\ ~ Unridden(m, a)}

---------------------------------------------------------------------------
(* The errors that a refusal is raised as, lane by lane.                   *)

GateError == [feature |-> "KaguraFeatureNotAvailableError", quota |-> "KaguraQuotaError",
              capacity |-> "KaguraCapacityLockedError"]

(* Mutant: the get lane looks at the status alone.                         *)
RaisedByStatus(lane, r) ==
  CASE r = "unauthorized" -> "KaguraAuthError"
    [] r = "throttled" -> "KaguraRateLimitError"
    [] OTHER -> "KaguraConnectionError"

RaisedByTool(r) ==
  CASE r \in {"unauthorized", "scope"} -> "KaguraAuthError"
    [] r = "unavailable" -> "KaguraServiceUnavailableError"
    [] r = "throttled" -> "KaguraRateLimitError"
    [] r = "missing" -> "KaguraNotFoundError"
    [] r = "conflict" -> "KaguraVersionConflictError"
    [] r \in DOMAIN GateError -> GateError[r]
    [] OTHER -> "KaguraError"

(* KaguraClient's GETs; list_tags gives a 404 its tool's error.            *)
RaisedByGet(lane, r) ==
  CASE r \in {"unauthorized", "scope"} -> "KaguraAuthError"
    [] r = "unavailable" -> "KaguraServiceUnavailableError"
    [] r = "throttled" -> "KaguraRateLimitError"
    [] r = "missing" /\ lane = "tags" -> "KaguraNotFoundError"
    [] OTHER -> "KaguraConnectionError"

(* The REST clients; SecretClient's 429 is an error like any other.        *)
RaisedByRest(lane, r) ==
  CASE r \in {"unauthorized", "scope"} -> "KaguraAuthError"
    [] r = "unavailable" -> "KaguraServiceUnavailableError"
    [] r = "throttled" /\ lane = "rest" -> "KaguraQuotaError"
    [] r = "missing" -> "KaguraNotFoundError"
    [] r = "conflict" -> "KaguraVersionConflictError"
    [] r \in DOMAIN GateError -> GateError[r]
    [] OTHER -> "KaguraConnectionError"

Raised(lane, r) == IF lane = "tool" THEN RaisedByTool(r)
                   ELSE IF lane \in {"get", "tags"} THEN RaisedByGet(lane, r)
                   ELSE RaisedByRest(lane, r)

---------------------------------------------------------------------------
(* What a caller may give: the required options, and up to MaxExtra more.  *)
(* A value a check looks at is good or bad, any other good or blank.       *)

ClassesOf(c, o) ==
  IF c.opts[o][2] \in {"flag", "switch", "empty"} THEN {"good"}
  ELSE {"good"} \cup (IF c.opts[o][1] \in c.method.checked THEN {"bad"} ELSE {"blank"})
                \cup (IF c.opts[o][2] \in {"parsed", "text"} THEN {"blank"} ELSE {})

Inputs(c) ==
  LET Basis == [o \in DOMAIN c.opts |-> IF o \in c.need THEN "good" ELSE "unset"]
      Extras == UNION {kSubset(n, DOMAIN c.opts) : n \in 0 .. MaxExtra}
  IN  UNION {{[o \in DOMAIN c.opts |-> IF o \in e THEN v[o] ELSE Basis[o]] :
                v \in {w \in [e -> Value] : \A o \in e : w[o] \in ClassesOf(c, o)}} : e \in Extras}

CallInit ==
  /\ cmd \in Rows /\ given \in Inputs(cmd)
  /\ phase = "parse" /\ dropped = {} /\ wire = {} /\ applied = 0 /\ reply = "none" /\ raised = "none"

End(how) == phase' = "end" /\ raised' = how

(* The parser refuses, or goes on: a command that asks first asks now.     *)
Parse ==
  /\ phase = "parse"
  /\ IF UsageOK THEN phase' = (IF cmd.confirm = "first" THEN "ask" ELSE "resolve") /\ UNCHANGED raised
     ELSE End("UsageError")
  /\ UNCHANGED <<cmd, given, dropped, wire, applied, reply>>

(* The configuration is read: the context or workspace, then the credential*)
Resolve ==
  /\ phase = "resolve"
  /\ \/ /\ phase' = CASE cmd.confirm = "resolved" -> "ask"
                      [] cmd.confirm = "read" \/ cmd.method.first # {} -> "read"
                      [] OTHER -> "check"
        /\ UNCHANGED raised
     \/ End("KaguraAuthError")
     \/ cmd.context # "none" /\ End("UsageError")
  /\ UNCHANGED <<cmd, given, dropped, wire, applied, reply>>

(* What is read before: a report to ask about, the quota of contexts.  It  *)
(* may be refused, or lost, and that ends the call.  The question may also *)
(* be skipped with --yes.                                                  *)
ReadFirst ==
  /\ phase = "read"
  /\ \/ phase' = (IF cmd.confirm = "read" THEN "ask" ELSE "check") /\ UNCHANGED raised
     \/ \E r \in Refusals : End(Raised("tool", r))
     \/ End("KaguraConnectionError")
     \/ End("KaguraResponseError")
     \/ cmd.method.first # {} /\ End("KaguraQuotaError")
  /\ UNCHANGED <<cmd, given, dropped, wire, applied, reply>>

Ask ==
  /\ phase = "ask"
  /\ \/ phase' = (IF cmd.confirm = "first" THEN "resolve" ELSE "check") /\ UNCHANGED raised
     \/ End("Abort")
  /\ UNCHANGED <<cmd, given, dropped, wire, applied, reply>>

Send ==
  /\ phase = "check"
  /\ IF ChecksOK(cmd.method) THEN phase' = "sent" /\ wire' = Wire(cmd.method) /\ UNCHANGED raised
     ELSE End("ValueError") /\ UNCHANGED wire
  /\ UNCHANGED <<cmd, given, dropped, applied, reply>>

---------------------------------------------------------------------------
(* The server.                                                             *)

Writes == cmd.method.effect # "read"

Serve ==
  /\ phase = "sent"
  /\ \/ applied' = applied + 1 /\ reply' \in {"ok", "unreadable", "lost"}
     \/ applied' = applied + 1 /\ cmd.method.partial /\ reply' = "partial"
     \/ applied' = applied /\ reply' \in Refusals \cup {"unknown", "lost"}
  /\ phase' = "answered" /\ UNCHANGED <<cmd, given, dropped, wire, raised>>

(* The options that a refusal for an unknown argument may be about: those  *)
(* that were sent, all of them or the ones the server names.               *)
Refusable == {o \in cmd.retries \ dropped : Convert(cmd.opts[o][2], given[o]) # "unset"}

(* Mutant: an answer that never came is asked for once more.               *)
RetryLost ==
  /\ phase = "answered" /\ reply \in {"unknown", "lost"} /\ dropped = {}
  /\ phase' = "check"
  /\ UNCHANGED <<cmd, given, dropped, wire, applied, reply, raised>>

(* Sent again without them: the server refused the first request whole.    *)
Retry ==
  /\ phase = "answered" /\ reply = "unknown" /\ dropped = {}
  /\ \E named \in SUBSET Refusable \ {{}} : dropped' = named
  /\ phase' = "check"
  /\ UNCHANGED <<cmd, given, wire, applied, reply, raised>>

(* The end of a call whose answer calls for no second request; a schema    *)
(* that does not exist is an answer.                                       *)
Report ==
  /\ phase = "answered"
  /\ \/ reply = "ok" /\ End("ok")
     \/ reply = "unreadable" /\ End("KaguraResponseError")
     \/ reply = "lost" /\ End("KaguraConnectionError")
     \/ reply = "partial" /\ End("KaguraPartialRollbackError")
     \/ reply = "unknown" /\ End(Raised(cmd.method.lane, "other"))
     \/ reply = "missing" /\ cmd.method = get_resource_schema /\ End("ok")
     \/ reply \in Refusals /\ (cmd.method = get_resource_schema => reply # "missing")
                           /\ End(Raised(cmd.method.lane, reply))
  /\ UNCHANGED <<cmd, given, dropped, wire, applied, reply>>

CallEnded == phase = "end" /\ UNCHANGED callVars

CallNext == Parse \/ Resolve \/ ReadFirst \/ Ask \/ Send \/ Serve \/ Retry \/ Report \/ CallEnded
CallSpec == CallInit /\ [][CallNext]_callVars
---------------------------------------------------------------------------
CallTypeOK ==
  /\ cmd \in Rows /\ given \in [DOMAIN cmd.opts -> Value]
  /\ phase \in {"parse", "resolve", "read", "ask", "check", "sent", "answered", "end"}
  /\ dropped \subseteq cmd.retries /\ applied \in 0 .. 2
  /\ wire \subseteq Arguments(cmd.method) /\ reply \in Replies /\ raised \in Errors \cup {"none", "ok"}

(* The way a call ends tells what happened on the server: a success means  *)
(* that it was carried out exactly once, a refusal by the parser, by the   *)
(* user or by a check that nothing was, and any other error that nothing   *)
(* was unless the answer was lost, unreadable or itself said so.           *)
EndTellsTruth ==
  /\ Writes => applied <= 1
  /\ phase = "end" =>
       /\ raised = "ok" /\ Writes => applied = 1
       /\ raised \in {"UsageError", "Abort", "ValueError"} => applied = 0
       /\ raised # "ok" /\ applied > 0 => reply \in {"lost", "unreadable", "partial"}

(* What a caller decides on from the error alone: to sign in again exactly *)
(* when that helps, to wait and try again when the server is busy, and to  *)
(* take a thing for missing only when the server said so.  A busy server's *)
(* answer to a secret is documented as a plain error.                      *)
CauseIsNamed ==
  phase = "end" /\ reply \in Refusals =>
    /\ raised = "KaguraAuthError" <=> reply \in {"unauthorized", "scope"}
    /\ raised = "KaguraNotFoundError" => reply = "missing"
    /\ reply \in {"throttled", "unavailable"} /\ cmd.method.lane # "secret" =>
         raised \in {"KaguraRateLimitError", "KaguraQuotaError", "KaguraServiceUnavailableError"}
=============================================================================
