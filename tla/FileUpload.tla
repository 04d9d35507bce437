---------------------------- MODULE FileUpload ----------------------------
(***************************************************************************)
(* FilesClient.upload: reserve an entry, put the bytes into the object     *)
(* store under a presigned URL, confirm; and `kagura files upload`, which  *)
(* may write a linked memory afterwards.  Each request may fail, be lost   *)
(* before or after the server took it, or be cut off by a cancellation.    *)
(* The stream of verbose events ends in exactly one success or error, and  *)
(* the error carries four flags by which its reader decides what to redo.  *)
(***************************************************************************)
EXTENDS Naturals, Sequences

CONSTANTS Uploads,      \* attempts to upload the one file of the model
          MaxTries      \* bound on the attempts of one upload

ASSUME UploadAssumption == MaxTries \in Nat

VARIABLES
  file,       \* the server's entry for the content, and its stored object
  upload,     \* per upload: the control state and the locals of the method
  events,     \* per upload: the terminal events written since it began
  mine        \* history: how far the server took this very attempt

uploadVars == <<file, upload, events, mine>>

Flags == [reserved : BOOLEAN, uploaded : BOOLEAN, confirm_started : BOOLEAN, confirmed : BOOLEAN]
NoFlags == [reserved |-> FALSE, uploaded |-> FALSE, confirm_started |-> FALSE, confirmed |-> FALSE]
Running == {"prepare", "reserve", "put", "confirm", "remember"}

UploadTypeOK ==
  /\ file \in [entry : {"none", "pending", "complete"}, object : BOOLEAN, memories : Nat]
  /\ upload \in [Uploads -> [pc : {"idle", "done", "failed"} \cup Running, flags : Flags,
                             remember : BOOLEAN, logged : BOOLEAN, deduped : BOOLEAN, tries : 0 .. MaxTries]]
  /\ events \in [Uploads -> Seq([kind : {"success", "error"}, flags : Flags])]
  /\ mine \in [Uploads -> {"nothing", "reserved", "stored", "complete"}]

UploadInit ==
  /\ file = [entry |-> "none", object |-> FALSE, memories |-> 0]
  /\ upload = [u \in Uploads |-> [pc |-> "idle", flags |-> NoFlags, remember |-> FALSE,
                                  logged |-> FALSE, deduped |-> FALSE, tries |-> 0]]
  /\ events = [u \in Uploads |-> <<>>]
  /\ mine = [u \in Uploads |-> "nothing"]

---------------------------------------------------------------------------
(* How an attempt goes on and ends.                                        *)

At(u, pc) == upload[u].pc = pc
Terminal(u, kind, flags) ==
  events' = [events EXCEPT ![u] = IF upload[u].logged THEN Append(@, [kind |-> kind, flags |-> flags]) ELSE @]

Advance(u, pc, flags) ==
  /\ upload' = [upload EXCEPT ![u].pc = pc, ![u].flags = flags]
  /\ UNCHANGED events

(* except BaseException: the error event says how far the attempt came.    *)
Fail(u, flags) ==
  /\ upload' = [upload EXCEPT ![u].pc = "failed", ![u].flags = flags]
  /\ Terminal(u, "error", flags)

(* Mutant: the success is not held until the memory is written.            *)
SucceedAtOnce(u, flags, deduped) ==
  /\ upload' = [upload EXCEPT ![u].pc = IF upload[u].remember THEN "remember" ELSE "done",
                              ![u].flags = flags, ![u].deduped = deduped]
  /\ Terminal(u, "success", flags)

(* The upload's own success event; `files upload --remember` holds it      *)
(* (_HeldSuccessLogger) until the linked memory is written.                *)
Succeed(u, flags, deduped) ==
  /\ upload' = [upload EXCEPT ![u].pc = IF upload[u].remember THEN "remember" ELSE "done",
                              ![u].flags = flags, ![u].deduped = deduped]
  /\ IF upload[u].remember THEN UNCHANGED events ELSE Terminal(u, "success", flags)

---------------------------------------------------------------------------
(* The upload.                                                             *)

(* A first attempt, or another one after a failure.                        *)
StartUpload(u, remember, logged) ==
  /\ upload[u].pc \in {"idle", "failed"} /\ upload[u].tries < MaxTries
  /\ upload' = [upload EXCEPT ![u] = [pc |-> "prepare", flags |-> NoFlags, remember |-> remember,
                                      logged |-> logged, deduped |-> FALSE, tries |-> @.tries + 1]]
  /\ events' = [events EXCEPT ![u] = <<>>]
  /\ mine' = [mine EXCEPT ![u] = "nothing"]
  /\ UNCHANGED file

(* The context id, the source and its type are checked inside the try.     *)
_prepare_source(u) ==
  /\ At(u, "prepare")
  /\ Advance(u, "reserve", NoFlags) \/ Fail(u, NoFlags)
  /\ UNCHANGED <<file, mine>>

(* The 409 for content that is there carries the file only when its upload *)
(* completed; an entry still pending makes the attempt fail.               *)
Reserve(u) ==
  /\ At(u, "reserve")
  /\ \/ /\ file.entry = "none"
        /\ file' = [file EXCEPT !.entry = "pending"]
        /\ mine' = [mine EXCEPT ![u] = "reserved"]
        /\ Advance(u, "put", [NoFlags EXCEPT !.reserved = TRUE]) \/ Fail(u, NoFlags)
     \/ /\ file.entry = "complete"
        /\ Succeed(u, NoFlags, TRUE) \/ Fail(u, NoFlags)
        /\ UNCHANGED <<file, mine>>
     \/ /\ Fail(u, NoFlags)
        /\ UNCHANGED <<file, mine>>

(* The put may be refused (400: the bytes are not the reserved ones) or    *)
(* time out after the store took it.                                       *)
_put_to_object_store(u) ==
  /\ At(u, "put")
  /\ \/ /\ file' = [file EXCEPT !.object = TRUE]
        /\ mine' = [mine EXCEPT ![u] = "stored"]
        /\ Advance(u, "confirm", [upload[u].flags EXCEPT !.uploaded = TRUE]) \/ Fail(u, upload[u].flags)
     \/ /\ Fail(u, upload[u].flags)
        /\ UNCHANGED <<file, mine>>

(* Mutant: confirm_started is set when the reply has come.                 *)
ConfirmMarkedLate(u) ==
  LET flags == upload[u].flags IN
  /\ At(u, "confirm")
  /\ \/ /\ file.object /\ file.entry = "pending"
        /\ file' = [file EXCEPT !.entry = "complete"]
        /\ mine' = [mine EXCEPT ![u] = "complete"]
        /\ Succeed(u, [flags EXCEPT !.confirm_started = TRUE, !.confirmed = TRUE], FALSE) \/ Fail(u, flags)
     \/ /\ Fail(u, flags)
        /\ UNCHANGED <<file, mine>>

(* confirm_started is set before the request leaves, confirmed after the   *)
(* reply is read as a file: between the two nobody knows.                  *)
Confirm(u) ==
  LET sent == [upload[u].flags EXCEPT !.confirm_started = TRUE] IN
  /\ At(u, "confirm")
  /\ \/ /\ file.object /\ file.entry = "pending"
        /\ file' = [file EXCEPT !.entry = "complete"]
        /\ mine' = [mine EXCEPT ![u] = "complete"]
        /\ Succeed(u, [sent EXCEPT !.confirmed = TRUE], FALSE) \/ Fail(u, sent)
     \/ /\ Fail(u, sent)
        /\ UNCHANGED <<file, mine>>

(* Ctrl-C, or the cancellation of the task, before the confirm request.    *)
CancelUpload(u) ==
  /\ upload[u].pc \in {"prepare", "reserve", "put", "confirm"}
  /\ Fail(u, upload[u].flags)
  /\ UNCHANGED <<file, mine>>

(* The linked memory: written, refused, or unknown; only now the held      *)
(* success is released, and a failure is the one terminal event.           *)
_remember_file_object(u) ==
  LET all == [f \in DOMAIN NoFlags |-> TRUE] IN
  /\ At(u, "remember")
  /\ \/ /\ file' = [file EXCEPT !.memories = 1]
        /\ \/ /\ upload' = [upload EXCEPT ![u].pc = "done"]
              /\ Terminal(u, "success", upload[u].flags)
           \/ Fail(u, all)
     \/ Fail(u, all) /\ UNCHANGED file
  /\ UNCHANGED mine

(* The server drops an entry that nobody confirmed in time.                *)
Expire ==
  /\ file.entry = "pending" /\ \A u \in Uploads : upload[u].pc \notin {"put", "confirm"}
  /\ file' = [file EXCEPT !.entry = "none", !.object = FALSE]
  /\ UNCHANGED <<upload, events, mine>>

UploadStep(u) ==
  \/ _prepare_source(u) \/ Reserve(u) \/ _put_to_object_store(u) \/ Confirm(u)
  \/ CancelUpload(u) \/ _remember_file_object(u)

---------------------------------------------------------------------------
(* Correctness.                                                            *)

(* While an attempt runs no terminal event has been written, and when it   *)
(* has ended exactly one has, whose kind is how it ended: also when the    *)
(* memory that should follow the upload fails, and when it is cut off.     *)
OneUploadEvent ==
  \A u \in Uploads : upload[u].logged =>
    /\ upload[u].pc \in Running => events[u] = <<>>
    /\ upload[u].pc = "done" => Len(events[u]) = 1 /\ events[u][1].kind = "success"
    /\ upload[u].pc = "failed" => Len(events[u]) = 1 /\ events[u][1].kind = "error"

(* What the flags of the error let its reader conclude: before             *)
(* confirm_started the server did not complete this attempt, so it is safe *)
(* to redo; `uploaded` means that the bytes are stored, and `confirmed`    *)
(* that the file exists.  A success means that the file exists.            *)
FlagsAreTrue ==
  \A u \in Uploads : LET f == upload[u].flags IN
    /\ At(u, "failed") /\ ~f.confirm_started => mine[u] # "complete"
    /\ At(u, "failed") /\ f.uploaded /\ ~f.confirmed => mine[u] \in {"stored", "complete"}
    /\ f.confirmed \/ At(u, "done") \/ At(u, "remember") => file.entry = "complete"
============================================================================
