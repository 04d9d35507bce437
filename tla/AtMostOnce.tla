----------------------------- MODULE AtMostOnce -----------------------------
(***************************************************************************)
(* What a call through an MCP session promises its caller, however many    *)
(* requests it takes: the server runs the call at most once, it ran if the *)
(* caller was given its result, and it neither ran nor ever will if the    *)
(* caller was told that the server refused it.  After a transport error or *)
(* an error answer the caller cannot know, and a call that was given up    *)
(* may still run.  McpSession and McpProxy implement this specification.   *)
(***************************************************************************)
EXTENDS Naturals

CONSTANT Calls

VARIABLES runs,     \* how often the server ran each call
          outcome   \* what the caller knows of it

Outcomes == {"none", "pending", "result", "refused", "unknown"}

Init == /\ runs = [c \in Calls |-> 0]
        /\ outcome = [c \in Calls |-> "none"]

Invoke(c) == /\ outcome[c] = "none"
             /\ outcome' = [outcome EXCEPT ![c] = "pending"]
             /\ UNCHANGED runs

\* The server runs the call, perhaps after its caller stopped waiting.
Run(c) == /\ outcome[c] \in {"pending", "unknown"}
          /\ runs[c] = 0
          /\ runs' = [runs EXCEPT ![c] = 1]
          /\ UNCHANGED outcome

Return(c) == /\ outcome[c] = "pending"
             /\ \/ runs[c] = 1 /\ outcome' = [outcome EXCEPT ![c] = "result"]
                \/ runs[c] = 0 /\ outcome' = [outcome EXCEPT ![c] = "refused"]
                \/ outcome' = [outcome EXCEPT ![c] = "unknown"]
             /\ UNCHANGED runs

Next == \E c \in Calls : Invoke(c) \/ Run(c) \/ Return(c)

Spec == Init /\ [][Next]_<<runs, outcome>>
=============================================================================
