-------------------------- MODULE LedgerRefinement --------------------------
(* Source processing implements the ingestion ledger: the mapping. *)
EXTENDS SourceProcessing

\* A key is what its active run says, and free without one.
LedgerState ==
    [k \in Keys |->
        IF Active(k) = {} THEN "free"
        ELSE IF \E r \in Active(k) : runStatus[r] = "SUCCEEDED" THEN "published" ELSE "busy"]

\* The evidence of a key is that of all its runs.
LedgerEvidence == [k \in Keys |-> UNION {evidence[r] : r \in {q \in Requests : key[q] = k}}]

Ledger == INSTANCE IngestionLedger WITH state <- LedgerState, published <- LedgerEvidence

\* Runs, locks, rollbacks and crashes implement a ledger in which a key is
\* published once, atomically, and failures leave nothing.
ImplementsLedger == Ledger!Spec
=============================================================================
