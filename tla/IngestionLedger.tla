--------------------------- MODULE IngestionLedger ---------------------------
(***************************************************************************)
(* What source processing promises to its clients, without requests,       *)
(* sessions or runs: a ledger that ingests each key (a source under a      *)
(* profile) at most once.  A key is free, busy, or published; a failure    *)
(* frees it again and leaves nothing; publication is one step that is      *)
(* never undone, and its evidence quotes segments of the source exactly.   *)
(***************************************************************************)
CONSTANTS Sources, Profiles, Segments

Keys == Sources \X Profiles

VARIABLES
    state,      \* each key: "free", "busy" or "published"
    segments,   \* the segments of each source, fixed once there are any
    published   \* the evidence published for each key

vars == <<state, segments, published>>

Init ==
    /\ state = [k \in Keys |-> "free"]
    /\ segments = [s \in Sources |-> {}]
    /\ published = [k \in Keys |-> {}]

Begin(k) ==
    /\ state[k] = "free"
    /\ state' = [state EXCEPT ![k] = "busy"]
    /\ UNCHANGED <<segments, published>>

Abandon(k) ==
    /\ state[k] = "busy"
    /\ state' = [state EXCEPT ![k] = "free"]
    /\ UNCHANGED <<segments, published>>

\* The published units quote segments of the source exactly.
Publish(k) ==
    /\ state[k] = "busy"
    /\ state' = [state EXCEPT ![k] = "published"]
    /\ \E rows \in SUBSET Segments :
         /\ segments[k[1]] \in {{}, rows}
         /\ segments' = [segments EXCEPT ![k[1]] = rows]
         /\ \E units \in SUBSET [segment : rows, quote : {"exact"}] :
              published' = [published EXCEPT ![k] = units]

Next == \E k \in Keys : Begin(k) \/ Abandon(k) \/ Publish(k)

Spec == Init /\ [][Next]_vars
=============================================================================
