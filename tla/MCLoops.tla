------------------------------ MODULE MCLoops ------------------------------
(* The two loops that the server's answers drive, the pages of a listing   *)
(* and the polls of a login: two systems that do not touch each other,     *)
(* checked one at a time.                                                  *)
EXTENDS CursorPaging, DeviceFlow

VARIABLE part
MCVars == <<part, vars, deviceVars>>

(* While logins are checked, the walk is one over no rows that has ended.  *)
NoWalk == /\ faulty = FALSE /\ list = <<>> /\ fresh = {} /\ present = {} /\ moved = {} /\ shrunk = FALSE
          /\ mode = "collect" /\ pc = "complete" /\ cursor = 0 /\ seen = {} /\ pages = 1
          /\ got = [r \in Rows |-> 0]
MCInit ==
  /\ DeviceInit
  /\ \/ part = "pages" /\ Init /\ grant.invites = "off" /\ flow.invite = "none"
     \/ part = "login" /\ NoWalk
MCNext ==
  /\ UNCHANGED part
  /\ \/ part = "pages" /\ Next /\ UNCHANGED deviceVars
     \/ part = "login" /\ DeviceNext /\ UNCHANGED vars
MCSpec == MCInit /\ [][MCNext]_MCVars /\ WF_vars(Fetch) /\ DeviceFairness
============================================================================
