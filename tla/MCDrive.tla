------------------------------ MODULE MCDrive -------------------------------
(***************************************************************************)
(* Instances for TLC of the drive: the transactions of the storage with    *)
(* the consistency script (FileStore, StorageChecker), and the requests    *)
(* that the router hands on to it (Router, Api).  FileStore follows the    *)
(* rows and contents, Api the shares, downloads and operation logs, so a   *)
(* behaviour is one of the storage or one of the requests, as part says.   *)
(***************************************************************************)
EXTENDS Api, StorageChecker, TLC

CONSTANTS owner, other, small, large

OwnerOf == [f \in Files |-> owner]

\* One content of one byte and one of two.
ContentSize == [c \in Contents |-> IF c = large THEN 2 ELSE 1]

VARIABLE part

ASSUME ApiAssumption /\ Online \in BOOLEAN

everything == <<apiVars, allVars, part>>

DriveInit == ApiInit /\ CheckerInit /\ part \in {"storage", "requests"}

Storage == part = "storage" /\ UNCHANGED <<apiVars, part>>
Served == Storage /\ Serve
Requested == part = "requests" /\ UNCHANGED <<allVars, part>>

StorageNext ==
    \/ \E s \in Sessions :
        \/ InspectUpload(s) /\ Served
        \/ FindPhysical(s) /\ Served
        \/ InsertPhysical(s) /\ Served
        \/ WriteContent(s) /\ Served
        \/ InsertFile(s) /\ Served
        \/ InsertFileFails(s) /\ Served
        \/ CommitUpload(s) /\ Served
        \/ CommitUploadFails(s) /\ Served
        \/ UpdateSoftDelete(s) /\ Served
        \/ UpdateVisibility(s) /\ Served
        \/ RestoreFolder(s) /\ Served
        \/ RestoreName(s) /\ Served
        \/ UpdateRestore(s) /\ Served
        \/ LockFile(s) /\ Served
        \/ DeleteRows(s) /\ Served
        \/ CommitDelete(s) /\ Served
        \/ Unlink(s) /\ Served
        \/ UnlinkFails(s) /\ Served
        \/ CheckFolderName(s) /\ Served
        \/ InsertFolder(s) /\ Served
        \/ CheckChildFolders(s) /\ Served
        \/ CheckChildFiles(s) /\ Served
        \/ UpdateDeleteFolder(s) /\ Served
        \/ Fail(s) /\ Served
        \/ \E u \in Users :
            \/ \E c \in Contents, d \in {Root} \cup DOMAIN folders, n \in Names, pub \in PublicFlags :
                  Upload(s, u, c, d, n, pub) /\ Served
            \/ \E f \in DOMAIN files : SoftDelete(s, u, f) /\ Served
            \/ \E f \in DOMAIN files : Restore(s, u, f) /\ Served
            \/ \E f \in DOMAIN files : HardDelete(s, u, f) /\ Served
            \/ \E f \in DOMAIN files, pub \in PublicFlags : Visibility(s, u, f, pub) /\ Served
            \/ EmptyTrash(s, u) /\ Served
            \/ \E d \in {Root} \cup DOMAIN folders : DeleteFolder(s, u, d) /\ Served
            \/ \E d \in {Root} \cup DOMAIN folders, n \in Names : CreateFolder(s, u, d, n) /\ Served
    \/ Crash /\ Served
    \/ LoseContent /\ Served
    \/ StartCheck /\ Storage
    \/ QueryDatabase /\ Storage
    \/ ListDisk /\ Storage
    \/ DeleteStaleRows /\ Storage
    \/ RemoveOrphan /\ Storage
    \/ Report /\ Storage

RequestsNext ==
    \/ \E w \in Workers, u \in ApiUsers, f \in Files :
        \/ remove(w, u, f) /\ Requested
        \/ restore(w, u, f) /\ Requested
        \/ remove_permanently(w, u, f) /\ Requested
        \/ \E public \in BOOLEAN : update_visibility(w, u, f, public) /\ Requested
        \/ private_file_download(w, u, f) /\ Requested
        \/ \E max \in Limits : share_create(w, u, f, max) /\ Requested
    \/ \E w \in Workers :
        \/ \E u \in ApiUsers : operation_remove(w, u) /\ Requested
        \/ \E u \in ApiUsers : operation_clear(w, u) /\ Requested
        \/ \E f \in Files : public_file_download(w, f) /\ Requested
        \/ \E t \in Shares : insert_file_share(w, t) /\ Requested
        \/ \E t \in Shares : share_download(w, t) /\ Requested
        \/ update_file(w) /\ Requested
        \/ remove_file(w) /\ Requested
        \/ write_operation_log(w) /\ Requested
        \/ fetch_created_share(w) /\ Requested
        \/ increment_file_share_download_count(w) /\ Requested
        \/ open_managed_file(w) /\ Requested
        \/ answer_not_found(w) /\ Requested
    \/ \E t \in Shares : Expire(t) /\ Requested

DriveNext == StorageNext \/ RequestsNext

DriveSpec == DriveInit /\ [][DriveNext]_everything

\* Sessions, workers and tokens are only compared; the parts use the same ones.
Symmetry == Permutations(Workers) \cup Permutations(Shares)
=============================================================================
