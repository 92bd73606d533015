---------------------- MODULE ExclusiveBlobStore_proofs ----------------------
(* Proofs about ExclusiveBlobStore, for any number of calls and any faults. *)
EXTENDS ExclusiveBlobStore, TLAPS

\* A call that writes or cleans up has the only file, partial until it is
\* written; a partial file has somebody to blame; and only a call that raised
\* can have taken a file away from one that returned.
Inv ==
    /\ ExclusiveTypeOK
    /\ OneOwner
    /\ \A w \in Writers :
         /\ pc[w] = "writing" => target = "partial"
         /\ pc[w] = "removing" => target # "absent"
    /\ target = "partial" => \E w \in Writers : pc[w] \in {"writing", "removing", "littered", "crashed"}
    /\ (\E w \in Writers : pc[w] = "stored") /\ (\A w \in Writers : pc[w] # "error")
         => target = "whole"

LEMMA InvInit == Init => Inv
BY DEF Init, Inv, ExclusiveTypeOK, OneOwner, Locations, Over

\* Each step of a call keeps the invariant.
LEMMA InvStep == ASSUME Inv, [Next]_vars PROVE Inv'
<1>. USE DEF Inv, ExclusiveTypeOK, OneOwner, Locations, Over, Goto
<1>1. ASSUME NEW w \in Writers, Open(w) PROVE Inv'
  BY <1>1 DEF Open
<1>2. ASSUME NEW w \in Writers, Write(w) PROVE Inv'
  BY <1>2 DEF Write
<1>3. ASSUME NEW w \in Writers, WriteRaises(w) PROVE Inv'
  BY <1>3 DEF WriteRaises
<1>4. ASSUME NEW w \in Writers, Remove(w) PROVE Inv'
  BY <1>4 DEF Remove
<1>5. ASSUME NEW w \in Writers, Compare(w) PROVE Inv'
  BY <1>5 DEF Compare
<1>6. ASSUME NEW w \in Writers, Kill(w) PROVE Inv'
  BY <1>6 DEF Kill
<1>7. CASE UNCHANGED vars
  BY <1>7 DEF vars
<1>. QED
  BY <1>1, <1>2, <1>3, <1>4, <1>5, <1>6, <1>7 DEF Next, Quiet

LEMMA Invariance == Spec => []Inv
BY InvInit, InvStep, PTL DEF Spec

\* The file and every call's location stay in their types.
THEOREM ExclusiveTypes == Spec => []ExclusiveTypeOK
<1>1. Inv => ExclusiveTypeOK
  BY DEF Inv
<1>. QED
  BY <1>1, Invariance, PTL

\* No two calls write or remove the file at a time.
THEOREM SingleOwner == Spec => []OneOwner
<1>1. Inv => OneOwner
  BY DEF Inv
<1>. QED
  BY <1>1, Invariance, PTL

\* Calls that raise and can clean up leave no partial file behind.
THEOREM NothingLeftBehind == Spec => []CleanedUp
<1>1. Inv => CleanedUp
  BY DEF Inv, ExclusiveTypeOK, CleanedUp, contains
<1>. QED
  BY <1>1, Invariance, PTL

\* A stored reference can be read unless a call raised.
THEOREM StoredReferences == Spec => []StoredIsReadable
<1>1. Inv => StoredIsReadable
  BY DEF Inv, StoredIsReadable
<1>. QED
  BY <1>1, Invariance, PTL

=============================================================================
