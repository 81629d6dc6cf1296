--------------------------- MODULE StorageChecker ---------------------------
(***************************************************************************)
(* scripts/check_storage_consistency.sh --fix-orphans beside the server of *)
(* FileStore.  The script reads the database and the directory, and acts   *)
(* on what it read; it shares no lock with the server.                     *)
(***************************************************************************)
EXTENDS FileStore

CONSTANT Online  \* TRUE: the script runs while requests are being handled

VARIABLES
    cpc,         \* where the script is
    referenced,  \* DB_REFERENCED of the last snapshot
    listed       \* DISK_FILES of the last snapshot

checkerVars == <<cpc, referenced, listed>>
allVars == <<vars, checkerVars>>

\* A plausible slip: a file in the recycle bin does not count as a reference.
ReferencedActive == {files[f].phys : f \in {g \in DOMAIN files : ~files[g].deleted}}

\* physical_files JOIN files, and the rows whose ref_count is wrong.
Referenced == {files[f].phys : f \in DOMAIN files}
RefMismatch ==
    \E p \in DOMAIN physical :
        physical[p].ref_count # Cardinality({f \in DOMAIN files : files[f].phys = p})

CheckerInit == Init /\ cpc = "off" /\ referenced = {} /\ listed = {}

StartCheck ==
    /\ cpc \in {"off", "report"}
    /\ Online \/ \A s \in Sessions : At(s, "idle")
    /\ cpc' = "query"
    /\ UNCHANGED <<vars, referenced, listed>>

\* The script ends, and its variables with it.
Exit(p) == cpc' = p /\ referenced' = {} /\ listed' = {}

\* The queries of snapshot, as one step (only DB_REFERENCED decides what is
\* removed); a wrong ref_count makes the script refuse.
QueryDatabase ==
    /\ cpc \in {"query", "query_again"}
    /\ IF RefMismatch THEN Exit("off")
       ELSE /\ cpc' = IF cpc = "query" THEN "list" ELSE "list_again"
            /\ referenced' = Referenced
            /\ UNCHANGED listed
    /\ UNCHANGED vars

\* The find of snapshot; so does a referenced file that is missing on disk.
ListDisk ==
    /\ cpc \in {"list", "list_again"}
    /\ IF ~(referenced \subseteq disk) THEN Exit("off")
       ELSE /\ cpc' = IF cpc = "list" THEN "stale" ELSE "remove"
            /\ listed' = disk
            /\ UNCHANGED referenced
    /\ UNCHANGED vars

\* delete_stale_physical_rows.
DeleteStaleRows ==
    /\ cpc = "stale"
    /\ physical' = [p \in {q \in DOMAIN physical : physical[q].ref_count > 0 \/ q \in Referenced}
                      |-> physical[p]]
    /\ cpc' = "query_again"
    /\ UNCHANGED <<files, folders, disk, sess, uploads, history, referenced, listed>>

\* delete_unreferenced_disk_files, one rm -f at a time.
RemoveOrphan ==
    /\ cpc = "remove"
    /\ \E p \in listed \ referenced : disk' = disk \ {p} /\ listed' = listed \ {p}
    /\ UNCHANGED <<database, sess, uploads, history, cpc, referenced>>

\* A plausible slip: the report does not wait for the removal.
ReportEarly ==
    /\ cpc = "remove"
    /\ Exit("report")
    /\ UNCHANGED vars

\* The last snapshot, which is only reported.
Report ==
    /\ cpc = "remove"
    /\ listed \subseteq referenced
    /\ Exit("report")
    /\ UNCHANGED vars

\* What a step of the server does to the script: it does not meet it unless Online.
Serve ==
    /\ Online \/ cpc \in {"off", "report"}
    /\ cpc' = IF cpc = "report" THEN "off" ELSE cpc
    /\ UNCHANGED <<referenced, listed>>

ServerStep == Serve /\ Next

CheckerNext == ServerStep \/ StartCheck \/ QueryDatabase \/ ListDisk
               \/ DeleteStaleRows \/ RemoveOrphan \/ Report

CheckerSpec == CheckerInit /\ [][CheckerNext]_allVars
-----------------------------------------------------------------------------
\* When the script reports success, nothing but referenced contents is left on
\* disk, whatever failed commits and crashes had left there.
CleanAfterFix == cpc = "report" => disk = Referenced

\* scripts/check_storage_consistency.sh: --fix-orphans deletes disk files with
\* no files reference, so no file loses its content to the script.
OnlyOrphansRemoved == \A f \in DOMAIN files : files[f].phys \in disk \cup lost
=============================================================================
