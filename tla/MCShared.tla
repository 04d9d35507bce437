------------------------------ MODULE MCShared ------------------------------
(* What members share through the server, the editing of one memory and    *)
(* one secret: two systems that do not touch each other, checked one at a  *)
(* time.                                                                   *)
EXTENDS MemoryEdits, Secrets, TLC

(* A patch names at most one key; without one, some other part is edited.  *)
(* Of the parts, what old and new servers know is combined, and the guard. *)
MCParts == {{}, {"summary"}, {"dismiss"}, {"add_tags"}, {"expected_version"},
            {"summary", "add_tags"}, {"dismiss", "add_tags"},
            {"summary", "add_tags", "expected_version"}}
MCEdits == {r \in [patch : [Keys -> PatchOps], parts : MCParts] :
              /\ Cardinality({k \in Keys : r.patch[k] # "keep"}) <= 1
              /\ (\A k \in Keys : r.patch[k] = "keep") => r.parts \ {"expected_version"} # {}}
MCSymmetry == Permutations(Editors) \cup Permutations(Keys)

(* Two terminals of one member, one of another.                            *)
MCOwnerOf == [t \in Terminals |-> IF t \in {"t2", "t3"} THEN "bob" ELSE "alice"]

VARIABLE part
MCVars == <<part, editVars, secretVars>>
MCInit == part \in {"memory", "secret"} /\ EditInit /\ SecretInit
MCNext ==
  /\ UNCHANGED part
  /\ \/ part = "memory" /\ EditNext /\ UNCHANGED secretVars
     \/ part = "secret" /\ SecretNext /\ UNCHANGED editVars
MCSpec == MCInit /\ [][MCNext]_MCVars
============================================================================
