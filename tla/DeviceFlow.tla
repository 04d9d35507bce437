----------------------------- MODULE DeviceFlow -----------------------------
(***************************************************************************)
(* `kagura auth login`: a device code is asked for, the person is told     *)
(* where to approve it (with an invite: where to sign up first), and the   *)
(* token endpoint is polled until the code is approved, denied or expired. *)
(* Every reply may change how long the next poll has to wait.  One unit of *)
(* time is a second.                                                       *)
(***************************************************************************)
EXTENDS Naturals, FiniteSetsExt

CONSTANTS Lifetime,      \* expires_in of the device code
          Interval,      \* the interval the server asks for, 5 when it does not
          RetryAfters,   \* values of Retry-After
          MaxLatency     \* bound on the time a request takes

ASSUME DeviceAssumption ==
  /\ Lifetime \in Nat \ {0} /\ Interval \in Nat \ {0}
  /\ RetryAfters \subseteq Nat /\ MaxLatency \in Nat

_SLOW_DOWN_INCREMENT_SEC == 5

VARIABLES
  now,
  grant,    \* the server's: the code's state, when it expires, and whether it takes invites
  flow,     \* the command's control state and its locals
  asked,    \* history: when the last reply came, and the pause it asked for
  late      \* history: polls sent when the lifetime was over, counted to 2

deviceVars == <<now, grant, flow, asked, late>>

Over == {"token", "denied", "expired", "error", "otherServer"}

DeviceTypeOK ==
  /\ now \in Nat
  /\ grant \in [code : {"none", "pending", "approved", "denied"}, expires : Nat,
                interval : Nat, invites : {"off", "old", "new"}]
  /\ flow \in [pc : {"idle", "prompt", "check", "sleep", "post"} \cup Over, interval : Nat, expires : Nat,
               wait : Nat, from : Nat, invite : {"none", "token", "link", "elsewhere"},
               prompt : {"device", "hand_off", "two_step", "disabled"}]
  /\ asked \in [at : Nat, gap : Nat]
  /\ late \in Nat

DeviceInit ==
  /\ now = 0
  /\ grant \in [code : {"none"}, expires : {0}, interval : {Interval}, invites : {"off", "old", "new"}]
  /\ flow \in [pc : {"idle"}, interval : {Interval}, expires : {0}, wait : {0}, from : {0},
               invite : {"none", "token", "link", "elsewhere"}, prompt : {"device"}]
  /\ asked = [at |-> 0, gap |-> 0]
  /\ late = 0

DeviceAt(pc) == flow.pc = pc

---------------------------------------------------------------------------
(* The code and the prompt.                                                *)

(* The lifetime is counted from the reply, so a little past the server's.  *)
authorize_device ==
  /\ DeviceAt("idle")
  /\ \/ /\ grant' = [grant EXCEPT !.code = "pending", !.expires = now + Lifetime]
        /\ \E latency \in 0 .. MaxLatency :
             /\ now' = now + latency
             /\ flow' = [flow EXCEPT !.pc = "prompt", !.expires = now + latency + Lifetime]
     \/ /\ flow' = [flow EXCEPT !.pc = "error"]   \* refused, rate limited, unreachable, unreadable
        /\ UNCHANGED <<now, grant>>
  /\ UNCHANGED <<asked, late>>

(* Mutant: a probe that fails reads as a server without invites.           *)
InviteSupportStrict(info) ==
  CASE info = "new" -> "hand_off" [] info = "old" -> "two_step" [] OTHER -> "disabled"

(* From /system/info: what the server's release and its flag say, or       *)
(* nothing when the probe fails.                                           *)
invite_support(info) ==
  CASE info = "off" -> "disabled" [] info = "new" -> "hand_off" [] OTHER -> "two_step"

(* A link for another server ends the login.  One link for both steps      *)
(* needs a place for /join that keeps return_to.                           *)
_print_invite_prompt ==
  /\ DeviceAt("prompt")
  /\ \/ flow.invite = "none" /\ flow' = [flow EXCEPT !.pc = "check"]
     \/ flow.invite = "elsewhere" /\ flow' = [flow EXCEPT !.pc = "otherServer"]
     \/ /\ flow.invite \in {"token", "link"}
        /\ \E info \in {grant.invites, "unread"}, placed \in BOOLEAN :
             LET way == invite_support(info) IN
             flow' = [flow EXCEPT !.pc = "check", !.prompt = IF way = "hand_off" /\ ~placed THEN "two_step" ELSE way]
  /\ UNCHANGED <<now, grant, asked, late>>

(* The person, in the browser.                                             *)
Decide ==
  /\ grant.code = "pending" /\ now < grant.expires
  /\ \E code \in {"approved", "denied"} : grant' = [grant EXCEPT !.code = code]
  /\ UNCHANGED <<now, flow, asked, late>>

---------------------------------------------------------------------------
(* The polling loop.                                                       *)

(* The expiry is looked at before the pause, not after it.                 *)
CheckExpiry ==
  /\ DeviceAt("check")
  /\ flow' = IF now >= flow.expires THEN [flow EXCEPT !.pc = "expired"]
             ELSE [flow EXCEPT !.pc = "sleep", !.from = now]
  /\ UNCHANGED <<now, grant, asked, late>>

Post ==
  /\ DeviceAt("sleep") /\ now >= flow.from + flow.wait
  /\ flow' = [flow EXCEPT !.pc = "post", !.from = now]
  /\ late' = IF now >= flow.expires THEN Min({late + 1, 2}) ELSE late
  /\ UNCHANGED <<now, grant, asked>>

(* Time passes while the command sleeps and while a request is under way.  *)
DeviceTick ==
  /\ \/ DeviceAt("sleep") /\ now < flow.from + flow.wait
     \/ DeviceAt("post") /\ now < flow.from + MaxLatency
  /\ now' = now + 1
  /\ UNCHANGED <<grant, flow, asked, late>>

(* Mutant: Retry-After replaces the interval.                              *)
PauseHeaderOnly(retryAfter, interval) ==
  LET left == IF flow.expires > now THEN flow.expires - now ELSE 0 IN
  Min({IF retryAfter = 0 THEN interval ELSE retryAfter, left})

(* The pause before the next poll: never shorter than the interval, which  *)
(* each slow_down lengthens for good, nor than Retry-After, but not past   *)
(* the end of the code's lifetime.  No header counts as 0.                 *)
Pause(retryAfter, interval) ==
  LET left == IF flow.expires > now THEN flow.expires - now ELSE 0 IN
  Min({Max({retryAfter, interval}), left})

PollAgain(interval, wait) ==
  flow' = [flow EXCEPT !.pc = "check", !.interval = interval, !.wait = wait]

Asks(gap) == asked' = [at |-> now, gap |-> gap]

(* Mutant: a slow_down stretches one pause.                                *)
SlowDownOnce ==
  /\ DeviceAt("post") /\ grant.code = "pending" /\ now < grant.expires
  /\ grant' = [grant EXCEPT !.interval = @ + _SLOW_DOWN_INCREMENT_SEC]
  /\ Asks(grant'.interval)
  /\ PollAgain(flow.interval, flow.interval + _SLOW_DOWN_INCREMENT_SEC)
  /\ UNCHANGED <<now, late>>

(* The code is undecided.                                                  *)
AuthorizationPending ==
  /\ DeviceAt("post") /\ grant.code = "pending" /\ now < grant.expires
  /\ PollAgain(flow.interval, flow.interval)
  /\ Asks(grant.interval)
  /\ UNCHANGED <<now, grant, late>>

SlowDown ==
  /\ DeviceAt("post") /\ grant.code = "pending" /\ now < grant.expires
  /\ grant' = [grant EXCEPT !.interval = @ + _SLOW_DOWN_INCREMENT_SEC]
  /\ Asks(grant'.interval)
  /\ LET longer == flow.interval + _SLOW_DOWN_INCREMENT_SEC IN PollAgain(longer, longer)
  /\ UNCHANGED <<now, late>>

(* Mutant: an outage is waited out without looking at the clock again.     *)
UnavailableForever ==
  /\ DeviceAt("post")
  /\ \E retryAfter \in RetryAfters \cup {0} :
       flow' = [flow EXCEPT !.pc = "sleep", !.from = now, !.wait = Pause(retryAfter, flow.interval)]
  /\ UNCHANGED <<now, grant, asked, late>>

(* The server cannot say, whatever has become of the code.                 *)
TemporarilyUnavailable ==
  /\ DeviceAt("post")
  /\ \E retryAfter \in RetryAfters \cup {0} :
       /\ PollAgain(flow.interval, Pause(retryAfter, flow.interval))
       /\ Asks(Max({grant.interval, retryAfter}))
  /\ UNCHANGED <<now, grant, late>>

(* The answers that end the polling.  A lost request or reply ends it too. *)
PollEnded ==
  /\ DeviceAt("post")
  /\ \E pc \in {"token", "denied", "expired", "error"} :
       /\ pc = "token" => grant.code = "approved"
       /\ pc = "denied" => grant.code = "denied"
       /\ pc = "expired" => now >= grant.expires
       /\ flow' = [flow EXCEPT !.pc = pc]
  /\ UNCHANGED <<now, grant, asked, late>>

PollStep == CheckExpiry \/ Post \/ DeviceTick \/ AuthorizationPending \/ SlowDown \/ TemporarilyUnavailable \/ PollEnded

DeviceNext == authorize_device \/ _print_invite_prompt \/ Decide \/ PollStep

DeviceFairness == WF_deviceVars(PollStep)
DeviceSpec == DeviceInit /\ [][DeviceNext]_deviceVars /\ DeviceFairness

---------------------------------------------------------------------------
(* Correctness.                                                            *)

(* No poll comes sooner than the last reply asked for, counting every      *)
(* slow_down so far as the server counts them; only the last poll, at the  *)
(* end of the code's lifetime, may cut a pause short, and there is at most *)
(* one.                                                                    *)
PollsSpaced ==
  /\ late <= 1
  /\ DeviceAt("post") => flow.from >= asked.at + asked.gap \/ flow.from >= flow.expires

(* Whatever the probe says or fails to say, a person whose invite the      *)
(* server takes is told to use it before the approval, in one link only if *)
(* the server carries them on to the approval from there.                  *)
InviteKept ==
  flow.invite \in {"token", "link"} /\ flow.pc \in {"check", "sleep", "post"} =>
    /\ flow.prompt \in {"device", "disabled"} => grant.invites = "off"
    /\ flow.prompt = "hand_off" => grant.invites = "new"

(* The login ends, even when the server is never able to say what became   *)
(* of the code.                                                            *)
PollEnds == DeviceAt("check") ~> flow.pc \in Over
============================================================================
