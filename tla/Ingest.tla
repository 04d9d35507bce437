------------------------------- MODULE Ingest -------------------------------
(***************************************************************************)
(* FileIngestor.ingest: a document is fetched, cut into sections, each     *)
(* section summarized, an overview memory written and then one memory per  *)
(* section; the original is archived by a task of its own (FileUpload)     *)
(* while the sections are summarized.  Summaries and section writes run at *)
(* most Concurrency at a time.  Failures are collected as records, and a   *)
(* refusal that would repeat (quota, rate, capacity) stops the sections    *)
(* that have not been sent.                                                *)
(***************************************************************************)
EXTENDS FileUpload, FiniteSets

CONSTANTS Sections, Concurrency,
          Archive              \* the upload that archives the original

None == "none"

ASSUME IngestAssumption ==
  /\ Concurrency \in Nat \ {0}
  /\ Archive \in Uploads
  /\ IsFiniteSet(Sections) /\ None \notin Sections

VARIABLES
  ingest,      \* control state of the ingestor and its locals
  section,     \* per section: where it is
  errors,      \* the IngestErrorRecords: <<step, section>>
  stored,      \* the sections that the server holds a memory of
  full,        \* the server refuses writes (quota, rate limit or capacity)
  stream       \* the terminal events of the ingest

ingestVars == <<ingest, section, errors, stored, full, stream>>
allIngestVars == <<uploadVars, ingestVars>>

SectionPc == {"todo", "summing", "summed", "blank", "sending", "written", "unwritten", "refused"}
Phases == {"start", "fetch", "extract", "summarize", "overview", "collect", "remember", "sections",
           "returned", "raised", "exited"}

IngestTypeOK ==
  /\ ingest \in [pc : Phases, fetched : BOOLEAN, archiving : BOOLEAN, stamped : BOOLEAN, overview : BOOLEAN,
                 stop : BOOLEAN, dry : BOOLEAN, exit : {"none", "0", "1"}]
  /\ section \in [Sections -> SectionPc]
  /\ errors \subseteq {"fetch", "extract", "summarize", "archive", "remember"} \X (Sections \cup {None})
  /\ stored \subseteq Sections
  /\ full \in BOOLEAN
  /\ stream \in Seq({"success", "error"})

IngestInit ==
  /\ ingest = [pc |-> "start", fetched |-> FALSE, archiving |-> FALSE, stamped |-> FALSE, overview |-> FALSE,
               stop |-> FALSE, dry |-> FALSE, exit |-> "none"]
  /\ section = [s \in Sections |-> "todo"]
  /\ errors = {}
  /\ stored = {}
  /\ full = FALSE
  /\ stream = <<>>

In(pc) == ingest.pc = pc
Enter(pc) == ingest' = [ingest EXCEPT !.pc = pc]
Inflight(pc) == {s \in Sections : section[s] = pc}
Record(step, s) == errors' = errors \cup {<<step, s>>}

(* One terminal event closes the stream: success only with an overview.    *)
(* A dry run (estimate_cost) has no stream.                                *)
Close(pc, kind) ==
  /\ ingest' = [ingest EXCEPT !.pc = pc]
  /\ stream' = IF ingest.dry THEN stream ELSE Append(stream, kind)
Return == Close("returned", IF ingest.overview THEN "success" ELSE "error")
Raise == Close("raised", "error")

---------------------------------------------------------------------------
(* Up to the summaries.                                                    *)

(* The command: an ingest needs an API key and a context, a dry run does   *)
(* not.  Bad tags are refused before any event is written.                 *)
ingest_file ==
  /\ In("start")
  /\ \/ \E dry \in BOOLEAN : ingest' = [ingest EXCEPT !.pc = "fetch", !.dry = dry]
     \/ ingest' = [ingest EXCEPT !.pc = "exited", !.exit = "1"]
  /\ UNCHANGED <<section, errors, stored, full, stream, uploadVars>>

(* A failed fetch is a result with one record, not an exception.           *)
_fetch ==
  /\ In("fetch")
  /\ \/ /\ ingest' = [ingest EXCEPT !.pc = "extract", !.fetched = TRUE]
        /\ UNCHANGED <<errors, stream>>
     \/ Record("fetch", None) /\ Return
  /\ UNCHANGED <<section, stored, full, uploadVars>>

(* A dry run ends with the estimate, or with what could not be extracted.  *)
estimate_cost ==
  /\ In("extract") /\ ingest.dry
  /\ UNCHANGED errors \/ Record("extract", None)
  /\ Return
  /\ UNCHANGED <<section, stored, full, uploadVars>>

(* After the extraction the archive task is started, if there is a files   *)
(* client; its upload writes no events.                                    *)
_transcribe_or_extract_and_chunk ==
  /\ In("extract") /\ ~ingest.dry
  /\ \/ /\ ingest' = [ingest EXCEPT !.pc = "summarize", !.archiving = TRUE]
        /\ StartUpload(Archive, FALSE, FALSE)
        /\ UNCHANGED <<errors, stream>>
     \/ /\ Enter("summarize")
        /\ UNCHANGED <<errors, stream, uploadVars>>
     \/ /\ Record("extract", None) /\ Return
        /\ UNCHANGED uploadVars
  /\ UNCHANGED <<section, stored, full>>

(* One summary: asked for inside the semaphore, answered or failed.        *)
SummarizeSection(s) ==
  /\ In("summarize") /\ section[s] = "todo" /\ Cardinality(Inflight("summing")) < Concurrency
  /\ section' = [section EXCEPT ![s] = "summing"]
  /\ UNCHANGED <<ingest, errors, stored, full, stream, uploadVars>>

SectionSummarized(s) ==
  /\ In("summarize") /\ section[s] = "summing"
  /\ \/ section' = [section EXCEPT ![s] = "summed"] /\ UNCHANGED errors
     \/ section' = [section EXCEPT ![s] = "blank"] /\ Record("summarize", s)
  /\ UNCHANGED <<ingest, stored, full, stream, uploadVars>>

_summarize_sections ==
  /\ In("summarize") /\ \A s \in Sections : section[s] \in {"summed", "blank"}
  /\ Enter("overview")
  /\ UNCHANGED <<section, errors, stored, full, stream, uploadVars>>

(* Without its summary the overview falls back on the title.               *)
SummarizeOverview ==
  /\ In("overview")
  /\ Enter("collect")
  /\ UNCHANGED errors \/ Record("summarize", None)
  /\ UNCHANGED <<section, stored, full, stream, uploadVars>>

---------------------------------------------------------------------------
(* The archive and the memories.                                           *)

(* The archive task goes on by itself, also when the ingest has raised.    *)
ArchiveStep ==
  /\ ingest.archiving
  /\ UploadStep(Archive)
  /\ UNCHANGED ingestVars

(* Mutant: the overview is written without waiting for the archive.        *)
ArchiveNotAwaited ==
  /\ In("collect")
  /\ ingest' = [ingest EXCEPT !.pc = "remember", !.stamped = ingest.archiving /\ ~At(Archive, "failed")]
  /\ UNCHANGED <<section, errors, stored, full, stream, uploadVars>>

(* await archive_task: its file id goes into the overview, its failure     *)
(* into the records.                                                       *)
_archive_original ==
  /\ In("collect")
  /\ \/ /\ ~ingest.archiving
        /\ Enter("remember") /\ UNCHANGED errors
     \/ /\ ingest.archiving /\ At(Archive, "done")
        /\ ingest' = [ingest EXCEPT !.pc = "remember", !.stamped = TRUE]
        /\ UNCHANGED errors
     \/ /\ ingest.archiving /\ At(Archive, "failed")
        /\ Enter("remember") /\ Record("archive", None)
  /\ UNCHANGED <<section, stored, full, stream, uploadVars>>

(* No overview, no sections.                                               *)
_write_overview ==
  /\ In("remember")
  /\ \/ /\ ~full
        /\ ingest' = [ingest EXCEPT !.pc = "sections", !.overview = TRUE]
        /\ UNCHANGED <<errors, stream>>
     \/ Record("remember", None) /\ Return
  /\ UNCHANGED <<section, stored, full, uploadVars>>

(* Mutant: a section that is not sent leaves no record.                    *)
SendSectionUnrecorded(s) ==
  /\ In("sections") /\ section[s] = "summed" /\ Cardinality(Inflight("sending")) < Concurrency
  /\ section' = [section EXCEPT ![s] = IF ingest.stop THEN "unwritten" ELSE "sending"]
  /\ UNCHANGED <<ingest, errors, stored, full, stream, uploadVars>>

(* Inside the semaphore: a section is sent unless an earlier one met a     *)
(* refusal that would repeat; then it is recorded as not written.          *)
SendSection(s) ==
  /\ In("sections") /\ section[s] = "summed" /\ Cardinality(Inflight("sending")) < Concurrency
  /\ IF ingest.stop
       THEN section' = [section EXCEPT ![s] = "unwritten"] /\ Record("remember", s)
       ELSE section' = [section EXCEPT ![s] = "sending"] /\ UNCHANGED errors
  /\ UNCHANGED <<ingest, stored, full, stream, uploadVars>>

(* The answer: a memory id; an error, with or without the memory written;  *)
(* or a refusal, which the sections not yet sent will meet too.            *)
write_one(s) ==
  /\ In("sections") /\ section[s] = "sending"
  /\ \/ /\ ~full
        /\ stored' = stored \cup {s}
        /\ \/ section' = [section EXCEPT ![s] = "written"] /\ UNCHANGED errors
           \/ section' = [section EXCEPT ![s] = "unwritten"] /\ Record("remember", s)
        /\ UNCHANGED ingest
     \/ /\ full
        /\ section' = [section EXCEPT ![s] = "refused"]
        /\ Record("remember", s)
        /\ ingest' = [ingest EXCEPT !.stop = TRUE]
        /\ UNCHANGED stored
     \/ /\ section' = [section EXCEPT ![s] = "unwritten"] /\ Record("remember", s)
        /\ UNCHANGED <<ingest, stored>>
  /\ UNCHANGED <<full, stream, uploadVars>>

_write_sections ==
  /\ In("sections") /\ \A s \in Sections : section[s] \notin {"summed", "sending"}
  /\ Return
  /\ UNCHANGED <<section, errors, stored, full, uploadVars>>

(* Ctrl-C, or an error that no step expects (a provider's): raised after a *)
(* terminal event, with the archive task left to itself.  While the source *)
(* is fetched only a failed fetch is caught, and nothing closes the stream.*)
IngestRaises ==
  /\ ingest.pc \in Phases \ {"start", "returned", "raised", "exited"}
  /\ IF ingest.fetched THEN Raise ELSE Enter("raised") /\ UNCHANGED stream
  /\ UNCHANGED <<section, errors, stored, full, uploadVars>>

(* The command closes its clients and ends; the tasks that are left are    *)
(* cancelled before the process is gone.                                   *)
IngestExits ==
  /\ ingest.pc \in {"returned", "raised"}
  /\ ingest.archiving => upload[Archive].pc \notin Running
  /\ ingest' = [ingest EXCEPT !.pc = "exited",
                              !.exit = IF In("returned") /\ (ingest.dry \/ ingest.overview) THEN "0" ELSE "1"]
  /\ UNCHANGED <<section, errors, stored, full, stream, uploadVars>>

(* The workspace reaches its limit.                                        *)
Fill ==
  /\ ~full /\ full' = TRUE
  /\ UNCHANGED <<ingest, section, errors, stored, stream, uploadVars>>

(* The same file uploaded by the command at the same time.                 *)
OtherUpload ==
  /\ \/ \E u \in Uploads \ {Archive} :
          UploadStep(u) \/ \E remember \in BOOLEAN : StartUpload(u, remember, TRUE)
     \/ Expire
  /\ UNCHANGED ingestVars

IngestNext ==
  \/ ingest_file \/ IngestExits \/ _fetch \/ estimate_cost \/ _transcribe_or_extract_and_chunk \/ _summarize_sections
  \/ SummarizeOverview \/ ArchiveStep \/ _archive_original \/ _write_overview \/ _write_sections
  \/ \E s \in Sections : SummarizeSection(s) \/ SectionSummarized(s) \/ SendSection(s) \/ write_one(s)
  \/ IngestRaises \/ Fill \/ OtherUpload

IngestSpec == IngestInit /\ UploadInit /\ [][IngestNext]_allIngestVars

---------------------------------------------------------------------------
(* Correctness.                                                            *)

(* When the ingest returns with an overview, every section is either among *)
(* the memories it reports, and stored, or has one record that names it:   *)
(* never both, never neither, whatever failed or was refused before.       *)
EverySectionAccounted ==
  ingest.pc \in {"returned", "exited"} /\ stream = <<"success">> =>
    \A s \in Sections :
      LET records == {r \in errors : r[2] = s} IN
      IF section[s] = "written" THEN s \in stored /\ records = {} ELSE Cardinality(records) = 1

(* A full workspace costs at most as many refused requests as run at once: *)
(* after the first refusal nothing else is sent.                           *)
RefusalsBounded == Cardinality(Inflight("refused")) <= Concurrency

(* No section is lost and none is sent in vain.                            *)
SectionsAccounted == EverySectionAccounted /\ RefusalsBounded

(* The archived file that a result's overview points to exists, and an     *)
(* archive that was started is in the overview or among the records.       *)
ArchiveAccounted ==
  /\ ingest.stamped => file.entry = "complete"
  /\ In("returned") /\ ingest.archiving => ingest.stamped # (<<"archive", None>> \in errors)

(* Each stream ends in one terminal event, however its operation ends once *)
(* the source is there: the ingest's says success exactly when the command *)
(* exits with 0.  A dry run writes no event, no memory and no file.        *)
OneIngestEvent ==
  IF ingest.dry
    THEN stream = <<>> /\ stored = {} /\ ~ingest.overview /\ ~ingest.archiving
    ELSE /\ In("returned") \/ (In("raised") /\ ingest.fetched) => Len(stream) = 1
         /\ ingest.pc \notin {"returned", "raised", "exited"} => stream = <<>>
         /\ ingest.exit = "0" => stream = <<"success">>
         /\ ingest.exit = "1" => stream \in {<<>>, <<"error">>}
OneTerminalEvent == OneUploadEvent /\ OneIngestEvent

(* The contract of ingest(): the stream is closed by one terminal event    *)
(* "even when an unhandled exception escapes the body".                    *)
StreamAlwaysCloses == In("raised") /\ ~ingest.dry => Len(stream) = 1
============================================================================
