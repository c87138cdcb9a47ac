----------------------------- MODULE RunArtifacts -----------------------------
(***************************************************************************)
(* The artifacts of a run (artifacts.py): one directory per ticket, one    *)
(* file after the other, each replaced atomically.  A ticket that is run   *)
(* again writes over what is there, and a run may end between two files.   *)
(***************************************************************************)
EXTENDS Integers, Sequences

CONSTANT Ids  \* ticket identifiers

VARIABLES
  disk,     \* for each ticket and file, the run whose content it has; 0 where there is none
  progress  \* how many of its files the run has written

artifactVars == <<disk, progress>>

\* In the order they are written.
BaseFiles ==
  <<"interaction_summary", "customer_response", "troubleshooting_article", "sources",
    "operational_sources", "audit_log", "agent_trace">>

Names == {BaseFiles[i] : i \in DOMAIN BaseFiles} \cup {"escalation"}

FilesOf(status) == IF status = "escalated" THEN Append(BaseFiles, "escalation") ELSE BaseFiles

ArtifactsInit ==
  /\ disk = [id \in Ids |-> [name \in Names |-> 0]]
  /\ progress = 0

\* Mutation: a file that cannot be written is skipped.
WriteOrSkip(id, run, status) ==
  /\ progress < Len(FilesOf(status))
  /\ disk' \in {disk, [disk EXCEPT ![id][FilesOf(status)[progress + 1]] = run]}
  /\ progress' = progress + 1

WriteFile(id, run, status) ==
  /\ progress < Len(FilesOf(status))
  /\ disk' = [disk EXCEPT ![id][FilesOf(status)[progress + 1]] = run]
  /\ progress' = progress + 1

\* Mutation: escalation.json is not waited for.
AllBaseWritten(status) == progress = Len(BaseFiles)

AllWritten(status) == progress = Len(FilesOf(status))

\* The directory holds a whole record of that run.
Whole(id, run, status) == \A i \in DOMAIN FilesOf(status) : disk[id][FilesOf(status)[i]] = run
=============================================================================
