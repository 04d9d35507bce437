----------------------------- MODULE MCIngest -----------------------------
EXTENDS Ingest, ResourceImport, TLC

MCSymmetry == Permutations(Sections)

(* The ingest and the import are separate commands: one of them runs.      *)
VARIABLE command
MCVars == <<command, allIngestVars, importVars>>
MCInit == command \in {"ingest", "import"} /\ IngestInit /\ UploadInit /\ ImportInit
MCNext ==
  /\ UNCHANGED command
  /\ \/ command = "ingest" /\ IngestNext /\ UNCHANGED importVars
     \/ command = "import" /\ ImportNext /\ UNCHANGED allIngestVars
MCSpec == MCInit /\ [][MCNext]_MCVars
============================================================================
