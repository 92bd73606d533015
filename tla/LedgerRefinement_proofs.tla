------------------------ MODULE LedgerRefinement_proofs ------------------------
(* Source processing implements the ingestion ledger, for every value of the *)
(* constants, as long as the database raises no error.                       *)
EXTENDS LedgerRefinement, SourceProcessing_proofs

LedgerInv == SegmentInv /\ FailClosedInv

LEMMA LedgerInvInit == Init => LedgerInv
BY SegmentInit, FailClosedInit DEF LedgerInv

LEMMA LedgerInvStep == ASSUME ~DbMayFail, LedgerInv, [Next]_vars PROVE LedgerInv'
BY SegmentStep, FailClosedStep DEF LedgerInv

\* The state and the evidence the mapping gives one key.
StateOf(k) ==
    IF Active(k) = {} THEN "free"
    ELSE IF \E r \in Active(k) : runStatus[r] = "SUCCEEDED" THEN "published" ELSE "busy"

EvidenceOf(k) == UNION {evidence[r] : r \in {q \in Requests : key[q] = k}}

LEMMA LedgerInit == Init => Ledger!Init
BY DEF Init, Ledger!Init, Ledger!Keys, LedgerState, LedgerEvidence, Active, Keys

\* A key with an active run is in the state of that run alone.
LEMMA StateOfActive ==
    ASSUME LedgerInv, NEW r \in Requests, runStatus[r] \in {"RUNNING", "SUCCEEDED"}
    PROVE  StateOf(key[r]) = IF runStatus[r] = "SUCCEEDED" THEN "published" ELSE "busy"
<1>1. key[r] \in Keys /\ r \in Active(key[r])
  BY DEF LedgerInv, SegmentInv, TypeInv, TypeOK, Active
<1>2. \A q \in Active(key[r]) : q = r
  BY <1>1 DEF LedgerInv, FailClosedInv, ActiveInv, OneActiveRunPerKey
<1>. QED
  BY <1>1, <1>2 DEF StateOf

\* A step that touches no run of a key leaves the key's state and evidence.
LEMMA OtherKeys ==
    ASSUME NEW k \in Keys, UNCHANGED key,
           \A q \in Requests : key[q] = k => UNCHANGED <<runStatus[q], evidence[q]>>
    PROVE  StateOf(k)' = StateOf(k) /\ EvidenceOf(k)' = EvidenceOf(k)
<1>1. Active(k)' = Active(k) /\ \A q \in Active(k) : runStatus'[q] = runStatus[q]
  BY DEF Active
<1>2. EvidenceOf(k)' = EvidenceOf(k)
  BY DEF EvidenceOf
<1>. QED
  BY <1>1, <1>2 DEF StateOf

\* Steps that leave the runs and the segments alone are stutters of the ledger.
LEMMA LedgerStutter ==
    ASSUME UNCHANGED <<key, runStatus, evidence, segments>>
    PROVE  UNCHANGED Ledger!vars
<1>1. \A k \in Keys : Active(k)' = Active(k)
  BY DEF Active
<1>. QED
  BY <1>1 DEF Ledger!vars, LedgerState, LedgerEvidence

\* How the mapped functions change when one key does.
LEMMA LedgerUpdate ==
    ASSUME NEW k \in Keys, \A j \in Keys \ {k} :
             StateOf(j)' = StateOf(j) /\ EvidenceOf(j)' = EvidenceOf(j)
    PROVE  /\ LedgerState' = [LedgerState EXCEPT ![k] = StateOf(k)']
           /\ LedgerEvidence' = [LedgerEvidence EXCEPT ![k] = EvidenceOf(k)']
<1>1. LedgerState = [j \in Keys |-> StateOf(j)] /\ LedgerState' = [j \in Keys |-> StateOf(j)']
  BY DEF LedgerState, StateOf
<1>2. LedgerEvidence = [j \in Keys |-> EvidenceOf(j)]
      /\ LedgerEvidence' = [j \in Keys |-> EvidenceOf(j)']
  BY DEF LedgerEvidence, EvidenceOf
<1>. QED
  BY <1>1, <1>2

\* The commit that creates a run is Begin, marking it FAILED is Abandon, and
\* the publishing commit is Publish with the parser's rows.
LEMMA LedgerStep ==
    ASSUME ~DbMayFail, LedgerInv, [Next]_vars
    PROVE  [Ledger!Next]_(Ledger!vars)
<1>. USE DEF LedgerInv, SegmentInv, FailClosedInv, ActiveInv, TypeInv, TypeOK
<1>1. UNCHANGED key /\ LedgerInv'
  BY KeyIsFixed, LedgerInvStep
<1>2. Ledger!Keys = Keys
  BY DEF Ledger!Keys, Keys
<1>3. \A k \in Keys : LedgerState[k] = StateOf(k) /\ LedgerEvidence[k] = EvidenceOf(k)
  BY DEF LedgerState, StateOf, LedgerEvidence, EvidenceOf
<1>. \A r \in Requests : key[r] \in Keys
  OBVIOUS
<1>4. ASSUME NEW s \in Sources, UploadSource(s) PROVE UNCHANGED Ledger!vars
  BY <1>4, LedgerStutter DEF UploadSource
<1>5. ASSUME NEW r \in Requests, StartRun(r) PROVE Ledger!Begin(key[r])
  <2>0. PICK k \in Keys : k = key[r]
    OBVIOUS
  <2>1. runStatus' = [runStatus EXCEPT ![r] = "RUNNING"] /\ UNCHANGED <<segments, evidence>>
    BY <2>0, <1>5 DEF StartRun
  <2>2. StateOf(k) = "free"
    BY <2>0, <1>5 DEF StartRun, StateOf
  <2>3. StateOf(k)' = "busy"
    <3>1. Active(k)' = {r}
      BY <2>0, <1>1, <1>5, <2>1 DEF StartRun, Active
    <3>. QED
      BY <2>0, <2>1, <3>1 DEF StateOf
  <2>4. EvidenceOf(k)' = EvidenceOf(k)
    BY <2>0, <1>1, <2>1 DEF EvidenceOf
  <2>5. \A j \in Keys \ {k} : StateOf(j)' = StateOf(j) /\ EvidenceOf(j)' = EvidenceOf(j)
    BY <2>0, <1>1, <2>1, OtherKeys
  <2>6. /\ LedgerState' = [LedgerState EXCEPT ![k] = "busy"]
        /\ LedgerEvidence' = [LedgerEvidence EXCEPT ![k] = EvidenceOf(k)]
    BY <2>0, <2>3, <2>4, <2>5, LedgerUpdate
  <2>7. LedgerEvidence' = LedgerEvidence
    BY <2>0, <1>3, <2>6 DEF LedgerEvidence
  <2>. QED
    BY <2>0, <1>3, <2>1, <2>2, <2>6, <2>7 DEF Ledger!Begin
<1>6. ASSUME NEW r \in Requests, MarkRunFailed(r) PROVE Ledger!Abandon(key[r])
  <2>0. PICK k \in Keys : k = key[r]
    OBVIOUS
  <2>1. runStatus' = [runStatus EXCEPT ![r] = "FAILED"] /\ UNCHANGED <<segments, evidence>>
    BY <2>0, <1>6 DEF MarkRunFailed
  <2>2. runStatus[r] = "RUNNING"
    BY <2>0, <1>6 DEF MarkRunFailed, RunFollowsPc, InExcept
  <2>3. StateOf(k) = "busy"
    BY <2>0, <2>2, StateOfActive
  <2>4. \A q \in Active(k) : q = r
    BY <2>0, <2>2 DEF OneActiveRunPerKey, Active
  <2>5. StateOf(k)' = "free"
    BY <2>0, <1>1, <2>1, <2>4 DEF StateOf, Active
  <2>6. EvidenceOf(k)' = EvidenceOf(k)
    BY <2>0, <1>1, <2>1 DEF EvidenceOf
  <2>7. \A j \in Keys \ {k} : StateOf(j)' = StateOf(j) /\ EvidenceOf(j)' = EvidenceOf(j)
    BY <2>0, <1>1, <2>1, OtherKeys
  <2>8. /\ LedgerState' = [LedgerState EXCEPT ![k] = "free"]
        /\ LedgerEvidence' = [LedgerEvidence EXCEPT ![k] = EvidenceOf(k)]
    BY <2>0, <2>5, <2>6, <2>7, LedgerUpdate
  <2>9. LedgerEvidence' = LedgerEvidence
    BY <2>0, <1>3, <2>8 DEF LedgerEvidence
  <2>. QED
    BY <2>0, <1>3, <2>1, <2>3, <2>8, <2>9 DEF Ledger!Abandon
<1>7. ASSUME NEW r \in Requests, CommitRun(r) PROVE Ledger!Publish(key[r])
  <2>0. PICK k \in Keys : k = key[r]
    OBVIOUS
  <2>1. /\ runStatus' = [runStatus EXCEPT ![r] = "SUCCEEDED"]
        /\ evidence' = [evidence EXCEPT ![r] = extraction[r].drafts]
    BY <2>0, <1>7 DEF CommitRun
  <2>2. runStatus[r] = "RUNNING"
    BY <2>0, <1>7 DEF CommitRun, RunFollowsPc, InTry
  <2>3. StateOf(k) = "busy"
    BY <2>0, <2>2, StateOfActive
  <2>4. StateOf(k)' = "published"
    <3>1. Active(k)' = {r}
      BY <2>0, <1>1, <2>1, <2>2 DEF OneActiveRunPerKey, Active
    <3>. QED
      BY <2>0, <2>1, <3>1 DEF StateOf
  <2>5. EvidenceOf(k)' = extraction[r].drafts
    <3>1. \A q \in Requests \ {r} : key[q] = k => evidence[q] = {}
      BY <2>0, <2>2 DEF FailClosed, OneActiveRunPerKey, Active
    <3>2. \A q \in Requests : key[q] = k => evidence'[q] \in {{}, extraction[r].drafts}
      BY <2>0, <2>1, <3>1
    <3>3. evidence'[r] = extraction[r].drafts
      BY <2>0, <2>1
    <3>4. EvidenceOf(k)' = UNION {evidence'[q] : q \in {p \in Requests : key[p] = k}}
      BY <2>0, <1>1 DEF EvidenceOf
    <3>5. ASSUME NEW d \in EvidenceOf(k)' PROVE d \in extraction[r].drafts
      <4>1. PICK q \in Requests : key[q] = k /\ d \in evidence'[q]
        BY <3>4
      <4>. QED
        BY <2>0, <3>2, <4>1
    <3>6. \A d \in extraction[r].drafts : d \in EvidenceOf(k)'
      BY <2>0, <3>3, <3>4
    <3>. QED
      BY <2>0, <3>5, <3>6
  <2>6. \A j \in Keys \ {k} : StateOf(j)' = StateOf(j) /\ EvidenceOf(j)' = EvidenceOf(j)
    BY <2>0, <1>1, <2>1, OtherKeys
  <2>7. /\ segments' = [segments EXCEPT ![src(r)] = parsed(r)]
        /\ segments[src(r)] \in {{}, parsed(r)}
    BY <2>0, <1>7, CommitSegments
  <2>8. parsed(r) \in SUBSET Segments /\ extraction[r].drafts \in SUBSET Drafts
    BY <2>0, <1>7, ParsedType DEF CommitRun, GraphReturned, Publishing, ExtractionResults
  <2>9. \A d \in extraction[r].drafts : d.segment \in parsed(r) /\ d.quote = "exact"
    BY <2>0, <1>7 DEF CommitRun, GraphReturned, Publishing, CitationsHold
  <2>10. /\ LedgerState' = [LedgerState EXCEPT ![k] = "published"]
         /\ LedgerEvidence' = [LedgerEvidence EXCEPT ![k] = extraction[r].drafts]
    BY <2>0, <2>4, <2>5, <2>6, LedgerUpdate
  <2>11. LedgerState[k] = "busy"
    BY <2>0, <1>3, <2>3
  <2>12. extraction[r].drafts \in SUBSET [segment : parsed(r), quote : {"exact"}]
    BY <2>8, <2>9 DEF Drafts
  <2>. QED
    BY <2>0, <1>2, <2>7, <2>8, <2>10, <2>11, <2>12 DEF Ledger!Publish, src
<1>8. ASSUME UNCHANGED database PROVE UNCHANGED Ledger!vars
  BY <1>1, <1>8, LedgerStutter DEF database
<1>9. \A r \in Requests : key[r] \in Ledger!Keys
  BY <1>2
<1>. QED
  BY <1>4, <1>5, <1>6, <1>7, <1>8, <1>9, DatabaseSteps DEF Ledger!Next

\* Concurrent requests, locks, rollbacks and crashes refine the ledger: each
\* key is ingested at most once, in one step, and failures leave nothing.
THEOREM ProcessingRefinesLedger == ASSUME ~DbMayFail PROVE Spec => ImplementsLedger
<1>1. LedgerInv /\ [Next]_vars => LedgerInv' /\ [Ledger!Next]_(Ledger!vars)
  BY LedgerInvStep, LedgerStep
<1>. QED
  BY <1>1, LedgerInit, LedgerInvInit, PTL DEF Spec, ImplementsLedger, Ledger!Spec

=============================================================================
