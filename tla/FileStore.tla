----------------------------- MODULE FileStore ------------------------------
(***************************************************************************)
(* The drive of service/files and repo/mysql/file_repository: logical      *)
(* files, deduplicated physical files, folders and the recycle bin in      *)
(* MySQL, contents on disk.                                                *)
(*                                                                         *)
(* A session is a worker thread that executes one handler on its database  *)
(* connection.  A statement is one step, and so is a transaction's COMMIT, *)
(* which makes its writes visible.  The plain SELECTs of one transaction   *)
(* read the same snapshot and are one step.  The locks of a transaction    *)
(* follow from its control point; only the row locks the code asks for     *)
(* (FOR UPDATE, written rows, unique keys) are modelled, so every          *)
(* interleaving InnoDB allows is included.  What an id names never         *)
(* changes: the n-th upload uses n as its file id, its physical id and its *)
(* path on disk (AUTO_INCREMENT and a random stored_name).                 *)
(***************************************************************************)
EXTENDS Naturals, Sequences, FiniteSets, FiniteSetsExt

CONSTANTS
    Sessions,    \* worker threads
    Users,
    Contents,    \* what may be uploaded, told apart by its SHA-256
    Size,        \* the size of each content
    Names,       \* names of files and folders
    None,
    MaxFile,     \* max_single_file_bytes; 0 is no limit
    Quota,       \* max_total_bytes; 0 is no limit
    MaxUploads,  \* bound: uploads that start
    MaxFolders,  \* bound: folders that are created
    Handlers,    \* the handlers that are called
    DiskLoss     \* TRUE: a content may be lost on disk

AllHandlers == {"upload", "soft_delete", "restore", "visibility", "hard_delete", "empty_trash",
                "create_folder", "delete_folder"}

ASSUME StoreAssumption ==
    /\ Size \in [Contents -> Nat]
    /\ MaxFile \in Nat /\ Quota \in Nat /\ MaxUploads \in Nat /\ MaxFolders \in Nat
    /\ Handlers \subseteq AllHandlers
    /\ DiskLoss \in BOOLEAN
    /\ None \notin Users \cup Contents \cup Names

VARIABLES
    files,      \* file id -> row of files
    physical,   \* physical id -> row of physical_files
    folders,    \* folder id -> row of folders
    disk,       \* stored names that exist under uploads/
    sess,       \* what each session does
    uploads,    \* uploads started so far
    abandoned,  \* stored names that a failed COMMIT, unlink or a crash left behind
    lost        \* stored names that disappeared from the disk by themselves

database == <<files, physical, folders>>
history == <<abandoned, lost>>
vars == <<database, disk, sess, uploads, history>>

FolderIds == 1..MaxFolders
Root == 0

Idle == [pc |-> "idle", user |-> None, content |-> None, folder |-> Root, name |-> None,
         file |-> 0, phys |-> 0, created |-> FALSE, last |-> FALSE, public |-> FALSE, todo |-> <<>>]

Empty == [x \in {} |-> None]
Put(f, k, v) == [x \in DOMAIN f \cup {k} |-> IF x = k THEN v ELSE f[x]]
Drop(f, k) == [x \in DOMAIN f \ {k} |-> f[x]]

Init ==
    /\ files = Empty /\ physical = Empty /\ folders = Empty
    /\ disk = {}
    /\ sess = [s \in Sessions |-> Idle]
    /\ uploads = 0
    /\ abandoned = {} /\ lost = {}
-----------------------------------------------------------------------------
(***************************************************************************)
(* Queries                                                                 *)
(***************************************************************************)

\* SUM(file_size) over the files of u, those in the recycle bin included.
fetch_user_storage_usage(u) ==
    MapThenSumSet(LAMBDA f : Size[files[f].content], {f \in DOMAIN files : files[f].owner = u})

\* Is the request small enough, and does it fit into what remains?
evaluate_upload_quota(bytes, used) ==
    /\ MaxFile = 0 \/ bytes <= MaxFile
    /\ Quota = 0 \/ bytes <= (IF used < Quota THEN Quota - used ELSE 0)

folder_exists(u, d) ==
    d = Root \/ (d \in DOMAIN folders /\ folders[d].owner = u /\ ~folders[d].deleted)

original_name_exists(u, d, n, ignore) ==
    \E f \in DOMAIN files \ {ignore} :
        files[f].owner = u /\ files[f].folder = d /\ files[f].name = n /\ ~files[f].deleted

\* The requested name, or a variant of it that is free; the last variant is
\* used even when it is taken.
ensure_unique_owned_filename(u, n, d, ignore) ==
    LET free == {m \in Names : ~original_name_exists(u, d, m, ignore)}
    IN  IF n \in free \/ free = {} THEN {n} ELSE free

physical_of(c) == {p \in DOMAIN physical : physical[p].content = c}

\* Locks: the user row, the entry of a content in uq_physical_sha256 and the
\* file row.
UploadPCs ==
    {"inspect", "find", "insert_physical", "repair", "materialize", "insert_file", "commit"}
DeletePCs == {"delete_rows", "commit_delete"}
UserLocked(u) == \E s \in Sessions : sess[s].user = u /\ sess[s].pc \in UploadPCs \cup DeletePCs
ContentLocked(c) ==
    \E s \in Sessions :
        /\ sess[s].content = c
        /\ sess[s].pc \in {"repair", "materialize", "insert_file", "commit"} \cup DeletePCs
\* A plausible slip: the file row is read without FOR UPDATE.
FileNeverLocked(f) == FALSE

FileLocked(f) == \E s \in Sessions : sess[s].file = f /\ sess[s].pc \in DeletePCs

\* An upload that has inserted its row but not committed holds its entry in
\* uq_files_active_name.
NameLocked(u, d, n) ==
    \E s \in Sessions :
        sess[s].pc = "commit" /\ sess[s].user = u /\ sess[s].folder = d /\ sess[s].name = n

Move(s, r) == sess' = [sess EXCEPT ![s] = r]
Goto(s, p) == Move(s, [sess[s] EXCEPT !.pc = p])
Return(s) == Move(s, Idle)
Call(s, h) == sess[s].pc = "idle" /\ h \in Handlers
At(s, p) == sess[s].pc = p
ReadOnly == UNCHANGED <<database, disk, uploads, history>>
-----------------------------------------------------------------------------
(***************************************************************************)
(* create_uploaded_file                                                    *)
(***************************************************************************)

\* A plausible slip: the user row is read without FOR UPDATE.
UploadWithoutLock(s, u, c, d, n, pub) ==
    /\ Call(s, "upload")
    /\ uploads < MaxUploads
    /\ uploads' = uploads + 1
    /\ Move(s, [Idle EXCEPT !.pc = "inspect", !.user = u, !.content = c, !.folder = d,
                            !.name = n, !.file = uploads + 1, !.public = pub])
    /\ UNCHANGED <<database, disk, history>>

\* START TRANSACTION and lock_user_for_update.
Upload(s, u, c, d, n, pub) ==
    /\ Call(s, "upload")
    /\ uploads < MaxUploads
    /\ ~UserLocked(u)
    /\ uploads' = uploads + 1
    /\ Move(s, [Idle EXCEPT !.pc = "inspect", !.user = u, !.content = c, !.folder = d,
                            !.name = n, !.file = uploads + 1, !.public = pub])
    /\ UNCHANGED <<database, disk, history>>

\* The plain SELECTs: used bytes, folder, name.
InspectUpload(s) ==
    LET r == sess[s]
        allowed == /\ evaluate_upload_quota(Size[r.content], fetch_user_storage_usage(r.user))
                   /\ folder_exists(r.user, r.folder)
    IN  /\ At(s, "inspect")
        /\ IF allowed
           THEN \E n \in ensure_unique_owned_filename(r.user, r.name, r.folder, 0) :
                    Move(s, [r EXCEPT !.pc = "find", !.name = n])
           ELSE Return(s)
        /\ ReadOnly

\* The content is known: use its physical file, write the content again when
\* it is missing on disk.
UsePhysical(s) ==
    \E p \in physical_of(sess[s].content) :
        Move(s, [sess[s] EXCEPT !.pc = IF p \in disk THEN "insert_file" ELSE "repair", !.phys = p])

\* fetch_physical_file_by_sha256_for_update.
FindPhysical(s) ==
    /\ At(s, "find")
    /\ ~ContentLocked(sess[s].content)
    /\ IF physical_of(sess[s].content) # {} THEN UsePhysical(s) ELSE Goto(s, "insert_physical")
    /\ ReadOnly

\* insert_physical_file; another upload may have inserted the content since it
\* was looked up (error 1062), whose row is then used.
InsertPhysical(s) ==
    /\ At(s, "insert_physical")
    /\ ~ContentLocked(sess[s].content)
    /\ IF physical_of(sess[s].content) # {} THEN UsePhysical(s)
       ELSE Move(s, [sess[s] EXCEPT !.pc = "materialize", !.phys = sess[s].file, !.created = TRUE])
    /\ ReadOnly

\* A content is moved or written to its place under uploads/.
WriteContent(s) ==
    /\ sess[s].pc \in {"materialize", "repair"}
    /\ disk' = disk \cup {sess[s].phys}
    /\ lost' = lost \ {sess[s].phys}
    /\ Goto(s, "insert_file")
    /\ UNCHANGED <<database, uploads, abandoned>>

\* insert_file takes the entry of the name in uq_files_active_name.
InsertFile(s) ==
    /\ At(s, "insert_file")
    /\ ~original_name_exists(sess[s].user, sess[s].folder, sess[s].name, 0)
    /\ Goto(s, "commit")
    /\ ReadOnly

\* The name was taken in the meantime, the statement failed, or the failpoint
\* TWS_TEST_FAIL_UPLOAD_BEFORE_COMMIT is set: remove a new content, roll back.
InsertFileFails(s) ==
    /\ At(s, "insert_file")
    /\ disk' = IF sess[s].created THEN disk \ {sess[s].phys} ELSE disk
    /\ Return(s)
    /\ UNCHANGED <<database, uploads, history>>

\* COMMIT; the trigger has counted the new reference.
CommitUpload(s) ==
    LET r == sess[s]
        refs == IF r.created THEN 0 ELSE physical[r.phys].ref_count
    IN  /\ At(s, "commit")
        /\ files' = Put(files, r.file, [owner |-> r.user, folder |-> r.folder, name |-> r.name,
                                        phys |-> r.phys, content |-> r.content,
                                        public |-> r.public, deleted |-> FALSE])
        /\ physical' = Put(physical, r.phys, [content |-> r.content, ref_count |-> refs + 1])
        /\ Return(s)
        /\ UNCHANGED <<folders, disk, uploads, history>>

\* COMMIT fails: roll back, but a new content stays on disk.
CommitUploadFails(s) ==
    /\ At(s, "commit")
    /\ abandoned' = IF sess[s].created THEN abandoned \cup {sess[s].phys} ELSE abandoned
    /\ Return(s)
    /\ UNCHANGED <<database, disk, uploads, lost>>
-----------------------------------------------------------------------------
(***************************************************************************)
(* The recycle bin                                                         *)
(***************************************************************************)

\* load_owned_file_record.
Owned(u, f, deleted) == f \in DOMAIN files /\ files[f].owner = u /\ files[f].deleted = deleted

SoftDelete(s, u, f) ==
    /\ Call(s, "soft_delete")
    /\ Owned(u, f, FALSE)
    /\ Move(s, [Idle EXCEPT !.pc = "soft_delete", !.user = u, !.file = f])
    /\ ReadOnly

\* UPDATE ... WHERE id AND deleted_at IS NULL; no row is success, too.
UpdateSoftDelete(s) ==
    LET f == sess[s].file
    IN  /\ At(s, "soft_delete")
        /\ ~FileLocked(f)
        /\ files' = IF f \in DOMAIN files /\ ~files[f].deleted
                    THEN [files EXCEPT ![f].deleted = TRUE, ![f].public = FALSE]
                    ELSE files
        /\ Return(s)
        /\ UNCHANGED <<physical, folders, disk, uploads, history>>

Visibility(s, u, f, pub) ==
    /\ Call(s, "visibility")
    /\ Owned(u, f, FALSE)
    /\ Move(s, [Idle EXCEPT !.pc = "visibility", !.user = u, !.file = f, !.public = pub])
    /\ ReadOnly

UpdateVisibility(s) ==
    LET f == sess[s].file
    IN  /\ At(s, "visibility")
        /\ ~FileLocked(f)
        /\ files' = IF f \in DOMAIN files THEN [files EXCEPT ![f].public = sess[s].public]
                    ELSE files
        /\ Return(s)
        /\ UNCHANGED <<physical, folders, disk, uploads, history>>

\* restore_file loads the record ...
Restore(s, u, f) ==
    /\ Call(s, "restore")
    /\ Owned(u, f, TRUE)
    /\ Move(s, [Idle EXCEPT !.pc = "restore_folder", !.user = u, !.file = f,
                            !.folder = files[f].folder, !.name = files[f].name])
    /\ ReadOnly

\* ... falls back to the root when the folder is gone ...
RestoreFolder(s) ==
    LET r == sess[s]
    IN  /\ At(s, "restore_folder")
        /\ Move(s, [r EXCEPT !.pc = "restore_name",
                             !.folder = IF folder_exists(r.user, r.folder) THEN @ ELSE Root])
        /\ ReadOnly

\* ... looks for a free name ...
RestoreName(s) ==
    LET r == sess[s]
    IN  /\ At(s, "restore_name")
        /\ \E n \in ensure_unique_owned_filename(r.user, r.name, r.folder, r.file) :
              Move(s, [r EXCEPT !.pc = "restore", !.name = n])
        /\ ReadOnly

\* ... and updates the row, if it is still in the recycle bin and the name
\* still free.
UpdateRestore(s) ==
    LET r == sess[s]
    IN  /\ At(s, "restore")
        /\ ~FileLocked(r.file)
        /\ ~NameLocked(r.user, r.folder, r.name)
        /\ files' = IF /\ Owned(r.user, r.file, TRUE)
                       /\ ~original_name_exists(r.user, r.folder, r.name, r.file)
                    THEN [files EXCEPT ![r.file] = [@ EXCEPT !.deleted = FALSE, !.public = FALSE,
                                                            !.folder = r.folder, !.name = r.name]]
                    ELSE files
        /\ Return(s)
        /\ UNCHANGED <<physical, folders, disk, uploads, history>>

\* hard_delete_file is called with one file, empty_trash with all the files
\* that are in the recycle bin now, and deletes them one by one.
HardDelete(s, u, f) ==
    /\ Call(s, "hard_delete")
    /\ Move(s, [Idle EXCEPT !.pc = "lock_file", !.user = u, !.todo = <<f>>])
    /\ ReadOnly

EmptyTrash(s, u) ==
    LET trash == {f \in DOMAIN files : Owned(u, f, TRUE)}
        latest_first == CHOOSE q \in [1..Cardinality(trash) -> trash] :
                            \A i, j \in DOMAIN q : i < j => q[i] > q[j]
    IN  /\ Call(s, "empty_trash")
        /\ trash # {}
        /\ Move(s, [Idle EXCEPT !.pc = "lock_file", !.user = u, !.todo = latest_first])
        /\ ReadOnly

\* fetch_file_record_for_update locks the file, its owner and its physical
\* file, and validate_hard_delete_candidate looks at the record.
LockFile(s) ==
    LET r == sess[s]
        f == Head(r.todo)
    IN  /\ At(s, "lock_file")
        /\ f \in DOMAIN files =>
              ~FileLocked(f) /\ ~UserLocked(files[f].owner) /\ ~ContentLocked(files[f].content)
        /\ IF Owned(r.user, f, TRUE)
           THEN Move(s, [r EXCEPT !.pc = "delete_rows", !.file = f, !.phys = files[f].phys,
                                  !.content = files[f].content])
           ELSE Return(s)
        /\ ReadOnly

\* A plausible slip: the physical file goes with the first of its files.
DeleteRowsUnchecked(s) ==
    /\ At(s, "delete_rows")
    /\ Move(s, [sess[s] EXCEPT !.pc = "commit_delete", !.last = TRUE])
    /\ ReadOnly

\* A plausible slip: ref_count is looked at as it was before the trigger.
DeleteRowsBeforeTrigger(s) ==
    /\ At(s, "delete_rows")
    /\ Move(s, [sess[s] EXCEPT !.pc = "commit_delete",
                               !.last = physical[sess[s].phys].ref_count = 0])
    /\ ReadOnly

\* hard_delete_file, its trigger and delete_physical_file_if_unreferenced.
DeleteRows(s) ==
    LET r == sess[s]
        unreferenced == /\ physical[r.phys].ref_count <= 1
                        /\ \A f \in DOMAIN files \ {r.file} : files[f].phys # r.phys
    IN  /\ At(s, "delete_rows")
        /\ Move(s, [r EXCEPT !.pc = "commit_delete", !.last = unreferenced])
        /\ ReadOnly

CommitDelete(s) ==
    LET r == sess[s]
    IN  /\ At(s, "commit_delete")
        /\ files' = Drop(files, r.file)
        /\ physical' = IF r.last THEN Drop(physical, r.phys)
                       ELSE [physical EXCEPT ![r.phys].ref_count = IF @ > 0 THEN @ - 1 ELSE 0]
        /\ Goto(s, "unlink")
        /\ UNCHANGED <<folders, disk, uploads, history>>

\* empty_trash goes on with the next file.
NextFile(s) ==
    LET r == sess[s]
    IN  IF Len(r.todo) = 1 THEN Return(s)
        ELSE Move(s, [Idle EXCEPT !.pc = "lock_file", !.user = r.user, !.todo = Tail(r.todo)])

\* The content is removed after the COMMIT; nobody looks at the result.
Unlink(s) ==
    /\ At(s, "unlink")
    /\ disk' = IF sess[s].last THEN disk \ {sess[s].phys} ELSE disk
    /\ NextFile(s)
    /\ UNCHANGED <<database, uploads, history>>

UnlinkFails(s) ==
    /\ At(s, "unlink")
    /\ sess[s].last
    /\ abandoned' = abandoned \cup {sess[s].phys}
    /\ NextFile(s)
    /\ UNCHANGED <<database, disk, uploads, lost>>
-----------------------------------------------------------------------------
(***************************************************************************)
(* Folders                                                                 *)
(***************************************************************************)

folder_name_exists(u, d, n) ==
    \E x \in DOMAIN folders :
        folders[x].owner = u /\ folders[x].parent = d /\ folders[x].name = n /\ ~folders[x].deleted

CreateFolder(s, u, d, n) ==
    /\ Call(s, "create_folder")
    /\ folder_exists(u, d)
    /\ Move(s, [Idle EXCEPT !.pc = "folder_name", !.user = u, !.folder = d, !.name = n])
    /\ ReadOnly

CheckFolderName(s) ==
    LET r == sess[s]
    IN  /\ At(s, "folder_name")
        /\ IF folder_name_exists(r.user, r.folder, r.name) THEN Return(s)
           ELSE Goto(s, "insert_folder")
        /\ ReadOnly

\* insert_folder; a duplicate is refused by uq_folders_active_name.
InsertFolder(s) ==
    LET r == sess[s]
        id == Cardinality(DOMAIN folders) + 1
    IN  /\ At(s, "insert_folder")
        /\ id \in FolderIds
        /\ folders' = IF folder_name_exists(r.user, r.folder, r.name) THEN folders
                      ELSE Put(folders, id, [owner |-> r.user, parent |-> r.folder, name |-> r.name,
                                             deleted |-> FALSE])
        /\ Return(s)
        /\ UNCHANGED <<files, physical, disk, uploads, history>>

\* delete_empty_folder finds the folder ...
DeleteFolder(s, u, d) ==
    /\ Call(s, "delete_folder")
    /\ d # Root /\ folder_exists(u, d)
    /\ Move(s, [Idle EXCEPT !.pc = "child_folders", !.user = u, !.folder = d])
    /\ ReadOnly

\* ... looks for active folders in it ...
CheckChildFolders(s) ==
    LET r == sess[s]
        children == {x \in DOMAIN folders : folders[x].parent = r.folder /\ ~folders[x].deleted}
    IN  /\ At(s, "child_folders")
        /\ IF children # {} THEN Return(s) ELSE Goto(s, "child_files")
        /\ ReadOnly

\* ... then for active files ...
CheckChildFiles(s) ==
    LET r == sess[s]
        children == {f \in DOMAIN files : files[f].folder = r.folder /\ ~files[f].deleted}
    IN  /\ At(s, "child_files")
        /\ IF children # {} THEN Return(s) ELSE Goto(s, "delete_folder")
        /\ ReadOnly

\* ... and marks it deleted.
UpdateDeleteFolder(s) ==
    LET d == sess[s].folder
    IN  /\ At(s, "delete_folder")
        /\ folders' = [folders EXCEPT ![d].deleted = TRUE]
        /\ Return(s)
        /\ UNCHANGED <<files, physical, disk, uploads, history>>
-----------------------------------------------------------------------------
\* A statement fails (lost connection, deadlock victim, lock wait timeout) or a
\* content cannot be written: the handler returns, a transaction is rolled back.
Fail(s) ==
    /\ sess[s].pc \notin {"idle", "insert_file", "commit", "unlink"}
    /\ Return(s)
    /\ ReadOnly

\* The server process dies; InnoDB rolls the open transactions back.
Crash ==
    LET written == {s \in Sessions : sess[s].created /\ sess[s].phys \in disk}
        unlinking == {s \in Sessions : At(s, "unlink") /\ sess[s].last}
    IN  /\ \E s \in Sessions : ~At(s, "idle")
        /\ abandoned' = abandoned \cup {sess[s].phys : s \in written \cup unlinking}
        /\ sess' = [s \in Sessions |-> Idle]
        /\ UNCHANGED <<database, disk, uploads, lost>>

LoseContent ==
    /\ DiskLoss
    /\ \E p \in disk \cap DOMAIN physical :
          /\ disk' = disk \ {p}
          /\ lost' = lost \cup {p}
    /\ UNCHANGED <<database, sess, uploads, abandoned>>

\* No request is being handled.
Quiet == (\A s \in Sessions : At(s, "idle")) /\ UNCHANGED vars

\* is_public matters only where update_file_visibility is called, too.
PublicFlags == IF "visibility" \in Handlers THEN BOOLEAN ELSE {FALSE}

Request(s, u) ==
    \/ \E c \in Contents, d \in {Root} \cup DOMAIN folders, n \in Names, pub \in PublicFlags :
          Upload(s, u, c, d, n, pub)
    \/ \E f \in DOMAIN files :
          \/ SoftDelete(s, u, f) \/ Restore(s, u, f) \/ HardDelete(s, u, f)
          \/ \E pub \in PublicFlags : Visibility(s, u, f, pub)
    \/ EmptyTrash(s, u)
    \/ \E d \in {Root} \cup DOMAIN folders :
          DeleteFolder(s, u, d) \/ \E n \in Names : CreateFolder(s, u, d, n)

Step(s) ==
    \/ InspectUpload(s) \/ FindPhysical(s) \/ InsertPhysical(s) \/ WriteContent(s)
    \/ InsertFile(s) \/ InsertFileFails(s) \/ CommitUpload(s) \/ CommitUploadFails(s)
    \/ UpdateSoftDelete(s) \/ UpdateVisibility(s)
    \/ RestoreFolder(s) \/ RestoreName(s) \/ UpdateRestore(s)
    \/ LockFile(s) \/ DeleteRows(s) \/ CommitDelete(s) \/ Unlink(s) \/ UnlinkFails(s)
    \/ CheckFolderName(s) \/ InsertFolder(s)
    \/ CheckChildFolders(s) \/ CheckChildFiles(s) \/ UpdateDeleteFolder(s)

Next ==
    \/ \E s \in Sessions : Step(s) \/ Fail(s) \/ \E u \in Users : Request(s, u)
    \/ Crash
    \/ LoseContent
    \/ Quiet

Spec == Init /\ [][Next]_vars
-----------------------------------------------------------------------------
\* Every file that a user can see or restore has its content: a content is on
\* disk before the COMMIT that refers to it, and is unlinked only after the
\* COMMIT that drops its last reference, whoever uploads it again meanwhile.
ContentAvailable ==
    \A f \in DOMAIN files :
        /\ files[f].phys \in DOMAIN physical
        /\ physical[files[f].phys].content = files[f].content
        /\ files[f].phys \in disk \cup lost

\* The triggers keep ref_count equal to the number of files, and a physical
\* file without files is never committed.
RefCountExact ==
    \A p \in DOMAIN physical :
        /\ physical[p].ref_count = Cardinality({f \in DOMAIN files : files[f].phys = p})
        /\ physical[p].ref_count > 0

\* Concurrent uploads of a user cannot exceed the quota together: each computes
\* the used bytes under the lock of the user row.
QuotaRespected ==
    Quota > 0 => \A u \in Users : fetch_user_storage_usage(u) <= Quota

\* A file is deleted for good only while it is in the recycle bin, also when
\* its owner restores it at the same time.
DeletedFromTrashOnly ==
    [][\A f \in DOMAIN files : f \notin DOMAIN files' => files[f].deleted]_vars

\* An active file is in the root or in a folder that is not deleted
\* (docs/file-module.md: only empty folders are deleted).
ActiveInLiveFolder ==
    \A f \in DOMAIN files :
        ~files[f].deleted /\ files[f].folder # Root => ~folders[files[f].folder].deleted
=============================================================================
