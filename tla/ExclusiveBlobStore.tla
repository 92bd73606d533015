-------------------------- MODULE ExclusiveBlobStore --------------------------
(***************************************************************************)
(* The blob store of the ingestion package (ingestion/blob_store.py) for   *)
(* one digest: put_bytes creates the target exclusively and writes into it *)
(* in place, and a second writer compares with whatever it finds there.    *)
(***************************************************************************)
CONSTANTS
    Writers,
    WriteMayFail,   \* a write may raise, KeyboardInterrupt included
    MayCrash        \* a writer may be killed

ASSUME ExclusiveFaultAssumption == WriteMayFail \in BOOLEAN /\ MayCrash \in BOOLEAN

VARIABLES
    target,     \* the file at the digest's path
    pc          \* where each put_bytes call is

vars == <<target, pc>>

Over == {"stored", "refused", "error", "littered", "crashed"}
Locations == {"opening", "writing", "comparing", "removing"} \cup Over

ExclusiveTypeOK ==
    /\ target \in {"absent", "partial", "whole"}
    /\ pc \in [Writers -> Locations]

Init ==
    /\ target = "absent"
    /\ pc = [w \in Writers |-> "opening"]

Goto(w, location) == pc' = [pc EXCEPT ![w] = location]

\* Mutant of Open: O_EXCL is missing and the file is truncated.
OpenShared(w) ==
    /\ pc[w] = "opening"
    /\ target' = "partial"
    /\ Goto(w, "writing")

\* os.open with O_CREAT | O_EXCL.
Open(w) ==
    /\ pc[w] = "opening"
    /\ \/ target = "absent" /\ target' = "partial" /\ Goto(w, "writing")
       \/ target # "absent" /\ Goto(w, "comparing") /\ UNCHANGED target

Write(w) ==
    /\ pc[w] = "writing"
    /\ target' = "whole"
    /\ Goto(w, "stored")

\* The write, or the fsync after it, raises.
WriteRaises(w) ==
    /\ WriteMayFail
    /\ pc[w] = "writing"
    /\ target' \in {"partial", "whole"}
    /\ Goto(w, "removing")

\* Mutant of Remove: the exception passes without a clean-up.
RemoveNothing(w) ==
    /\ pc[w] = "removing"
    /\ Goto(w, "error")
    /\ UNCHANGED target

\* except BaseException: unlink, which may raise as well, and raise.
Remove(w) ==
    /\ pc[w] = "removing"
    /\ \/ target' = "absent" /\ Goto(w, "error")
       \/ WriteMayFail /\ UNCHANGED target /\ Goto(w, "littered")

\* Mutant of Compare: the existing bytes are not hashed.
CompareNothing(w) ==
    /\ pc[w] = "comparing"
    /\ Goto(w, "stored")
    /\ UNCHANGED target

\* Mutant of Compare: a missing file goes unhandled.
CompareUnhandled(w) ==
    /\ pc[w] = "comparing"
    /\ Goto(w, IF target = "whole" THEN "stored" ELSE target)
    /\ UNCHANGED target

\* After FileExistsError: read the file (it may be gone) and check its hash.
Compare(w) ==
    /\ pc[w] = "comparing"
    /\ Goto(w, CASE target = "whole" -> "stored"
                 [] target = "absent" -> "error"
                 [] OTHER -> "refused")
    /\ UNCHANGED target

Kill(w) ==
    /\ MayCrash
    /\ pc[w] \in {"writing", "removing", "comparing"}
    /\ Goto(w, "crashed")
    /\ UNCHANGED target

\* Every call is over.
Quiet ==
    /\ \A w \in Writers : pc[w] \in Over
    /\ UNCHANGED vars

Next ==
    \/ \E w \in Writers : Open(w) \/ Write(w) \/ WriteRaises(w) \/ Remove(w) \/ Compare(w) \/ Kill(w)
    \/ Quiet

Spec == Init /\ [][Next]_vars

\* The method contains: is there a file?
contains == target # "absent"

-----------------------------------------------------------------------------
(* Properties. *)

\* Exclusive creation gives the file one owner: no two calls write or remove
\* it at a time, though calls that fail remove it and others start over.
OneOwner ==
    \A v, w \in Writers :
        pc[v] \in {"writing", "removing"} /\ pc[w] \in {"writing", "removing"} => v = w

\* A write that raises leaves nothing behind: when no call is writing, cleaning
\* up, killed or unable to clean up, a file that contains finds is whole.
CleanedUp ==
    (\A w \in Writers : pc[w] \notin {"writing", "removing", "littered", "crashed"}) =>
        (contains => target = "whole")

\* Once a call has returned a reference the blob can be read, whatever the
\* other calls do, killed ones included, unless one of them raised.
StoredIsReadable ==
    ( /\ \E w \in Writers : pc[w] = "stored"
      /\ \A w \in Writers : pc[w] \notin {"removing", "error"} )
    => target = "whole"
=============================================================================
