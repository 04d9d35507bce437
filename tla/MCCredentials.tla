--------------------------- MODULE MCCredentials ----------------------------
(* Instances of Credentials for TLC.                                       *)
EXTENDS Credentials, TLC

CONSTANTS p1, p2, t1, t2, t3, k1, k2, A, B

\* Two requests of process p1, or one each of two processes.
TwoTasks   == t1 :> p1 @@ t3 :> p2
OneTask    == t1 :> p1
NoTasks == [t \in {} |-> p1]
PairOfTasks == t1 :> p1 @@ t2 :> p1

BothOnA == p1 :> A @@ p2 :> A
OneOnA  == p1 :> A
OneOnB  == p1 :> B

\* The commands differ in nothing but their names.
Commuting == Permutations(Cli)
=============================================================================
