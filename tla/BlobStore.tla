------------------------------ MODULE BlobStore ------------------------------
(***************************************************************************)
(* Uploads over the content-addressed blob store of services/storage.py.   *)
(* An upload stores its bytes under their hash and then commits a source   *)
(* row that names the blob (upload_source); uploads of the same bytes race *)
(* for one file.  The bytes are written to a temporary file, which is hard *)
(* linked to the destination if nothing is there, and then removed.        *)
(***************************************************************************)
CONSTANTS
    Uploads, Contents,
    Faulty,         \* the uploads whose own file operations or commit may raise
    MayCrash        \* an upload may end between two steps

ASSUME BlobFaultAssumption == Faulty \subseteq Uploads /\ MayCrash \in BOOLEAN

VARIABLES
    content,    \* the bytes of each upload
    blob,       \* the file at the path of each content's hash
    temp,       \* the temporary file of each upload
    pc,         \* where an upload is in upload_source
    rows,       \* uploads whose source row is committed
    fetched     \* what process_source last read for an upload

vars == <<content, blob, temp, pc, rows, fetched>>

FileStates == {"absent", "partial", "whole"}
Over == {"created", "rejected", "error", "littered", "crashed"}
Locations == {"checking", "looking", "writing", "linking", "removing", "verifying",
              "committing"} \cup Over

BlobTypeOK ==
    /\ content \in [Uploads -> Contents]
    /\ blob \in [Contents -> FileStates]
    /\ temp \in [Uploads -> FileStates]
    /\ pc \in [Uploads -> Locations]
    /\ rows \in SUBSET Uploads
    /\ fetched \in [Uploads -> {"nothing", "bytes", "missing", "corrupt"}]

Init ==
    /\ content \in [Uploads -> Contents]
    /\ blob = [c \in Contents |-> "absent"]
    /\ temp = [u \in Uploads |-> "absent"]
    /\ pc = [u \in Uploads |-> "checking"]
    /\ rows = {}
    /\ fetched = [u \in Uploads |-> "nothing"]

file(u) == blob[content[u]]
Goto(u, location) == pc' = [pc EXCEPT ![u] = location]

\* The study, the size and the names are checked before anything is stored.
CheckUpload(u) ==
    /\ pc[u] = "checking"
    /\ Goto(u, "looking") \/ Goto(u, "rejected")
    /\ UNCHANGED <<content, blob, temp, rows, fetched>>

\* mkdir and destination.exists()
LookUp(u) ==
    /\ pc[u] = "looking"
    /\ \/ Goto(u, IF file(u) = "absent" THEN "writing" ELSE "verifying")
       \/ u \in Faulty /\ Goto(u, "error")
    /\ UNCHANGED <<content, blob, temp, rows, fetched>>

\* Mutant of WriteTemp: the link may come before the bytes.
WriteTempEarly(u) ==
    /\ pc[u] = "writing"
    /\ temp' = [temp EXCEPT ![u] = "partial"]
    /\ Goto(u, "linking")
    /\ UNCHANGED <<content, blob, rows, fetched>>

\* write_bytes creates the file and then fills it.
WriteTemp(u) ==
    /\ pc[u] = "writing"
    /\ \/ temp[u] = "absent" /\ temp' = [temp EXCEPT ![u] = "partial"] /\ UNCHANGED pc
       \/ temp[u] = "partial" /\ temp' = [temp EXCEPT ![u] = "whole"] /\ Goto(u, "linking")
    /\ UNCHANGED <<content, blob, rows, fetched>>

\* Mutant of WriteFails: no clean-up.
WriteFailsDirty(u) ==
    /\ u \in Faulty
    /\ pc[u] = "writing"
    /\ Goto(u, "error")
    /\ UNCHANGED <<content, blob, temp, rows, fetched>>

\* The write raises, or the link for another reason than an existing file:
\* the finally clause removes what is there, unless that raises too.
WriteFails(u) ==
    /\ u \in Faulty
    /\ pc[u] \in {"writing", "linking"}
    /\ \/ temp' = [temp EXCEPT ![u] = "absent"] /\ Goto(u, "error")
       \/ temp[u] # "absent" /\ UNCHANGED temp /\ Goto(u, "littered")
    /\ UNCHANGED <<content, blob, rows, fetched>>

\* Mutant of Link: FileExistsError is not suppressed.
LinkRaises(u) ==
    /\ pc[u] = "linking"
    /\ IF file(u) = "absent"
       THEN blob' = [blob EXCEPT ![content[u]] = temp[u]] /\ Goto(u, "removing")
       ELSE Goto(u, "error") /\ UNCHANGED blob
    /\ UNCHANGED <<content, temp, rows, fetched>>

\* Mutant of Link: the loser of the race waits for the file to go away.
LinkWaits(u) ==
    /\ pc[u] = "linking"
    /\ file(u) = "absent"
    /\ blob' = [blob EXCEPT ![content[u]] = temp[u]]
    /\ Goto(u, "removing")
    /\ UNCHANGED <<content, temp, rows, fetched>>

\* os.link fails with FileExistsError, suppressed, if another upload won.
Link(u) ==
    /\ pc[u] = "linking"
    /\ blob' = IF file(u) = "absent" THEN [blob EXCEPT ![content[u]] = temp[u]] ELSE blob
    /\ Goto(u, "removing")
    /\ UNCHANGED <<content, temp, rows, fetched>>

\* Mutant of RemoveTemp: the destination is unlinked.
RemoveDestination(u) ==
    /\ pc[u] = "removing"
    /\ blob' = [blob EXCEPT ![content[u]] = "absent"]
    /\ Goto(u, "verifying")
    /\ UNCHANGED <<content, temp, rows, fetched>>

\* The unlink of the finally clause after a link, which may raise itself.
RemoveTemp(u) ==
    /\ pc[u] = "removing"
    /\ \/ temp' = [temp EXCEPT ![u] = "absent"] /\ Goto(u, "verifying")
       \/ u \in Faulty /\ UNCHANGED temp /\ Goto(u, "littered")
    /\ UNCHANGED <<content, blob, rows, fetched>>

\* Both branches of put end by reading the destination and checking its hash.
VerifyBlob(u) ==
    /\ pc[u] = "verifying"
    /\ \/ Goto(u, IF file(u) = "whole" THEN "committing" ELSE "error")
       \/ u \in Faulty /\ Goto(u, "error")
    /\ UNCHANGED <<content, blob, temp, rows, fetched>>

CommitSource(u) ==
    /\ pc[u] = "committing"
    /\ \/ rows' = rows \cup {u} /\ Goto(u, "created")
       \/ u \in Faulty /\ Goto(u, "error") /\ UNCHANGED rows
    /\ UNCHANGED <<content, blob, temp, fetched>>

\* Mutant of Fetch: the hash is not checked.
FetchUnchecked(u) ==
    /\ u \in rows
    /\ fetched' = [fetched EXCEPT ![u] = file(u)]
    /\ UNCHANGED <<content, blob, temp, pc, rows>>

\* get, as process_source calls it for a committed source.
Fetch(u) ==
    /\ u \in rows
    /\ fetched' = [fetched EXCEPT ![u] = CASE file(u) = "absent" -> "missing"
                                           [] file(u) = "whole" -> "bytes"
                                           [] OTHER -> "corrupt"]
    /\ UNCHANGED <<content, blob, temp, pc, rows>>

CrashUpload(u) ==
    /\ MayCrash
    /\ pc[u] \notin Over
    /\ Goto(u, "crashed")
    /\ UNCHANGED <<content, blob, temp, rows, fetched>>

Upload(u) ==
    \/ CheckUpload(u) \/ LookUp(u) \/ WriteTemp(u) \/ Link(u) \/ RemoveTemp(u)
    \/ VerifyBlob(u) \/ CommitSource(u)

\* Every upload is over.
Quiet ==
    /\ \A u \in Uploads : pc[u] \in Over
    /\ UNCHANGED vars

Next ==
    \/ \E u \in Uploads : Upload(u) \/ WriteFails(u) \/ Fetch(u) \/ CrashUpload(u)
    \/ Quiet

Spec == Init /\ [][Next]_vars

\* An upload's thread goes on until its request is over.
FairSpec == Spec /\ \A u \in Uploads : WF_vars(Upload(u))

-----------------------------------------------------------------------------
(* Properties. *)

\* Nobody ever finds a partial file at a blob's path, though several uploads
\* write the same content and any of them may die while writing.
BlobsAreWhole == \A c \in Contents : blob[c] # "partial"

\* A committed source row names a blob that can be read: the bytes are stored
\* before the row, and no upload that fails or loses the race removes them.
SourcesHaveBytes ==
    \A u \in Uploads :
        /\ u \in rows => file(u) = "whole"
        /\ fetched[u] \in {"nothing", "bytes"}

\* Blob writes are idempotent: an upload whose own operations work is never
\* an error because others upload the same bytes, fail at it, or die.
PutsAreIdempotent == \A u \in Uploads \ Faulty : pc[u] \notin {"error", "littered"}

\* An upload that is past the store, or failed in it, leaves no temporary file,
\* unless the removal itself raised.
TempFilesRemoved ==
    \A u \in Uploads : pc[u] \in {"verifying", "committing", "created", "error"} => temp[u] = "absent"

\* Every upload is answered, whatever others do with the same file.
UploadsEnd == \A u \in Uploads : <>(pc[u] \in Over)
=============================================================================
