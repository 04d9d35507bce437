--------------------------- MODULE ResourceImport ---------------------------
(***************************************************************************)
(* `kagura resource import`: the rows of a file become events that are     *)
(* sent in batches, one request after the other.  A batch may be created   *)
(* in part, fail, or be lost with its reply; the import stops there, says  *)
(* how many events were created so far, and ends its stream in exactly one *)
(* terminal event although every batch is an operation of the client.      *)
(***************************************************************************)
EXTENDS FiniteSets, Naturals, Sequences

CONSTANTS Rows,          \* number of rows in the file, numbered from 1
          BatchSize      \* rows sent in one request

ASSUME ImportAssumption == Rows \in Nat \ {0} /\ BatchSize \in Nat \ {0}

VARIABLES
  import,        \* the command's control state and its counters
  created,       \* the rows whose event the server holds
  rejected,      \* the rows that the server answered it would not take
  importStream   \* terminal events, with what they say

importVars == <<import, created, rejected, importStream>>

ImportTypeOK ==
  /\ import \in [pc : {"read", "batches", "done", "failed"}, next : 1 .. Rows + 1, created : Nat, failed : Nat]
  /\ created \subseteq 1 .. Rows /\ rejected \subseteq 1 .. Rows
  /\ importStream \in Seq([kind : {"success", "error"}, created : Nat, failed : Nat])

ImportInit ==
  /\ import = [pc |-> "read", next |-> 1, created |-> 0, failed |-> 0]
  /\ created = {} /\ rejected = {}
  /\ importStream = <<>>

Ending(pc, kind) ==
  /\ import' = [import EXCEPT !.pc = pc]
  /\ importStream' = Append(importStream, [kind |-> kind, created |-> import.created, failed |-> import.failed])

(* The file is parsed and every row checked before anything is sent: an    *)
(* unreadable file or a bad row ends the command without an event.         *)
resource_import ==
  /\ import.pc = "read"
  /\ \E pc \in {"batches", "failed"} : import' = [import EXCEPT !.pc = pc]
  /\ UNCHANGED <<created, rejected, importStream>>

Batch == {row \in 1 .. Rows : row >= import.next /\ row < import.next + BatchSize}

(* Mutant: the batch is counted when it is sent.                           *)
IngestEventsCountedEarly ==
  /\ import.pc = "batches" /\ import.next <= Rows
  /\ import' = [import EXCEPT !.next = @ + Cardinality(Batch), !.created = @ + Cardinality(Batch)]
  /\ \E took \in SUBSET Batch :
       created' = created \cup took /\ rejected' = rejected \cup (Batch \ took)
  /\ UNCHANGED importStream

(* ingest_events: one request, without a logger of its own.  The server    *)
(* takes some rows and rejects the others; the reply may be lost.          *)
ingest_events ==
  /\ import.pc = "batches" /\ import.next <= Rows
  /\ \/ \E took \in SUBSET Batch :
          /\ created' = created \cup took
          /\ rejected' = rejected \cup (Batch \ took)
          /\ \/ /\ import' = [import EXCEPT !.next = @ + Cardinality(Batch), !.created = @ + Cardinality(took),
                                            !.failed = @ + Cardinality(Batch \ took)]
                /\ UNCHANGED importStream
             \/ Ending("failed", "error")
     \/ /\ Ending("failed", "error")
        /\ UNCHANGED <<created, rejected>>

ImportComplete ==
  /\ import.pc = "batches" /\ import.next > Rows
  /\ Ending("done", "success")
  /\ UNCHANGED <<created, rejected>>

ImportNext == resource_import \/ ingest_events \/ ImportComplete

ImportSpec == ImportInit /\ [][ImportNext]_importVars

(* The counts an import ends with are the server's: all of them after a    *)
(* success, and after an error all but those of the batch that was cut     *)
(* off; rows behind that batch were not sent, so resuming there loses none.*)
ImportCounts ==
  LET last == importStream[Len(importStream)] IN
  /\ Len(importStream) <= 1
  /\ import.pc = "done" => /\ last.created = Cardinality(created) /\ last.failed = Cardinality(rejected)
                           /\ last.created + last.failed = Rows
  /\ importStream # <<>> =>
       /\ last.created <= Cardinality(created)
       /\ Cardinality(created \cup rejected) <= last.created + last.failed + BatchSize
       /\ created \cup rejected \subseteq 1 .. (last.created + last.failed + BatchSize)
============================================================================
