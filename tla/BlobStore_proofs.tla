--------------------------- MODULE BlobStore_proofs ---------------------------
(* Proofs about BlobStore, for any number of uploads and contents. *)
EXTENDS BlobStore, TLAPS

\* A temporary file is linked only when it is complete, so the destination
\* appears complete, and nothing ever writes to it again: from the link or a
\* successful look-up on, the upload's file is whole.  Its temporary file lives
\* only while it is written, linked and removed.
Inv ==
    /\ BlobTypeOK
    /\ BlobsAreWhole
    /\ TempFilesRemoved
    /\ \A u \in Uploads :
         /\ pc[u] = "linking" => temp[u] = "whole"
         /\ pc[u] \in {"removing", "verifying", "committing", "created"} => file(u) = "whole"
         /\ u \in rows => file(u) = "whole"
         /\ pc[u] \in {"checking", "looking"} => temp[u] = "absent"
         /\ fetched[u] \in {"nothing", "bytes"}
         /\ u \notin Faulty => pc[u] \notin {"error", "littered"}

LEMMA InvInit == Init => Inv
BY DEF Init, Inv, BlobTypeOK, BlobsAreWhole, TempFilesRemoved, FileStates, Locations, Over

\* Each step of an upload keeps the invariant.
LEMMA InvStep == ASSUME Inv, [Next]_vars PROVE Inv'
<1>. USE DEF Inv, BlobTypeOK, BlobsAreWhole, TempFilesRemoved, FileStates, Locations, Over, file, Goto
<1>1. ASSUME NEW u \in Uploads, CheckUpload(u) PROVE Inv'
  BY <1>1 DEF CheckUpload
<1>2. ASSUME NEW u \in Uploads, LookUp(u) PROVE Inv'
  BY <1>2 DEF LookUp
<1>3. ASSUME NEW u \in Uploads, WriteTemp(u) PROVE Inv'
  BY <1>3 DEF WriteTemp
<1>4. ASSUME NEW u \in Uploads, WriteFails(u) PROVE Inv'
  BY <1>4 DEF WriteFails
<1>5. ASSUME NEW u \in Uploads, Link(u) PROVE Inv'
  BY <1>5 DEF Link
<1>6. ASSUME NEW u \in Uploads, RemoveTemp(u) PROVE Inv'
  BY <1>6 DEF RemoveTemp
<1>7. ASSUME NEW u \in Uploads, VerifyBlob(u) PROVE Inv'
  BY <1>7 DEF VerifyBlob
<1>8. ASSUME NEW u \in Uploads, CommitSource(u) PROVE Inv'
  BY <1>8 DEF CommitSource
<1>9. ASSUME NEW u \in Uploads, Fetch(u) PROVE Inv'
  BY <1>9 DEF Fetch
<1>10. ASSUME NEW u \in Uploads, CrashUpload(u) PROVE Inv'
  BY <1>10 DEF CrashUpload
<1>11. CASE UNCHANGED vars
  BY <1>11 DEF vars
<1>. QED
  BY <1>1, <1>2, <1>3, <1>4, <1>5, <1>6, <1>7, <1>8, <1>9, <1>10, <1>11
     DEF Next, Upload, Quiet

LEMMA Invariance == Spec => []Inv
BY InvInit, InvStep, PTL DEF Spec

\* Files, rows and every upload's location stay in their types.
THEOREM BlobTypes == Spec => []BlobTypeOK
<1>1. Inv => BlobTypeOK
  BY DEF Inv
<1>. QED
  BY <1>1, Invariance, PTL

\* No upload that got past the store, or failed in it, leaves a temporary file
\* unless the removal raised.
THEOREM NoTempFiles == Spec => []TempFilesRemoved
<1>1. Inv => TempFilesRemoved
  BY DEF Inv
<1>. QED
  BY <1>1, Invariance, PTL

\* No partial file is ever visible at a blob's path.
THEOREM WholeBlobs == Spec => []BlobsAreWhole
<1>1. Inv => BlobsAreWhole
  BY DEF Inv
<1>. QED
  BY <1>1, Invariance, PTL

\* The bytes of every committed source can be read, at any later time.
THEOREM BytesOfSources == Spec => []SourcesHaveBytes
<1>1. Inv => SourcesHaveBytes
  BY DEF Inv, SourcesHaveBytes
<1>. QED
  BY <1>1, Invariance, PTL

\* Concurrent puts of one content never make each other fail.
THEOREM IdempotentPuts == Spec => []PutsAreIdempotent
<1>1. Inv => PutsAreIdempotent
  BY DEF Inv, PutsAreIdempotent
<1>. QED
  BY <1>1, Invariance, PTL

=============================================================================
