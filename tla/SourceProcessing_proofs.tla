----------------------- MODULE SourceProcessing_proofs -----------------------
(* Proofs about SourceProcessing, for every value of its constants. *)
EXTENDS SourceProcessing, TLAPS

-----------------------------------------------------------------------------
(* Type correctness. *)

\* A parser outcome that is not a refusal is a set of segments.
LEMMA ParsedType ==
    ASSUME TypeOK, NEW r \in Requests, parsed(r) # Unparseable
    PROVE  parsed(r) \in SUBSET Segments
BY ParseAssumption DEF TypeOK, parsed, Keys

\* Answering a request keeps the types of what Reply assigns.
LEMMA ReplyType ==
    ASSUME TypeOK, NEW r \in Requests, NEW kind \in Answers,
           NEW run \in Requests \cup {NoRun}, Reply(r, kind, run)
    PROVE  /\ pc' \in [Requests -> Locations]
           /\ answer' \in [Requests -> [kind : Answers, run : Requests \cup {NoRun}]]
BY DEF TypeOK, Reply, Goto, Locations

\* So does answering from the active run of a key.
LEMMA ReplyActiveType ==
    ASSUME TypeOK, NEW r \in Requests,
           \E q \in Active(key[r]) :
             Reply(r, IF runStatus[q] = "SUCCEEDED" THEN "succeeded" ELSE "conflict", q)
    PROVE  /\ pc' \in [Requests -> Locations]
           /\ answer' \in [Requests -> [kind : Answers, run : Requests \cup {NoRun}]]
<1>1. PICK q \in Active(key[r]) :
        Reply(r, IF runStatus[q] = "SUCCEEDED" THEN "succeeded" ELSE "conflict", q)
  OBVIOUS
<1>2. q \in Requests \cup {NoRun}
  BY DEF Active
<1>3. (IF runStatus[q] = "SUCCEEDED" THEN "succeeded" ELSE "conflict") \in Answers
  BY DEF Answers
<1>. QED
  BY <1>1, <1>2, <1>3, ReplyType

\* The steps up to the commit that creates the run keep the types.
LEMMA TypeStart ==
    ASSUME TypeOK, NEW r \in Requests,
           LoadSource(r) \/ CheckActive(r) \/ StartRun(r) \/ StartCompetes(r)
             \/ RereadCompeting(r) \/ StartFails(r)
    PROVE  TypeOK'
<1>. USE DEF database, session
<1>1. CASE LoadSource(r)
  <2>1. CASE sourceStatus[src(r)] = "ABSENT"
    <3>1. Reply(r, "not_found", NoRun) /\ UNCHANGED <<database, key, session>>
      BY <1>1, <2>1 DEF LoadSource
    <3>. QED
      BY <3>1, ReplyType DEF TypeOK, Answers
  <2>2. CASE sourceStatus[src(r)] # "ABSENT"
    BY <1>1, <2>2 DEF LoadSource, Goto, TypeOK, Locations, src, Keys
  <2>. QED
    BY <2>1, <2>2
<1>2. CASE CheckActive(r)
  BY <1>2, ReplyActiveType DEF CheckActive, Goto, TypeOK, Locations
<1>3. CASE StartRun(r)
  <2>1. src(r) \in Sources
    BY DEF src, Keys, TypeOK
  <2>. QED
    BY <1>3, <2>1 DEF StartRun, Goto, TypeOK, RunStatus, StepStatus, SourceStatus,
                      Locations, InTry
<1>4. CASE StartCompetes(r)
  BY <1>4 DEF StartCompetes, Goto, TypeOK, Locations
<1>5. CASE RereadCompeting(r)
  BY <1>5, ReplyType, ReplyActiveType DEF RereadCompeting, TypeOK, Answers
<1>6. CASE StartFails(r)
  BY <1>6, ReplyType DEF StartFails, TypeOK, Answers
<1>. QED
  BY <1>1, <1>2, <1>3, <1>4, <1>5, <1>6

\* The steps of the ingestion graph keep the types.
LEMMA TypeGraph ==
    ASSUME TypeOK, NEW r \in Requests, ReadAndParse(r) \/ Extract(r) \/ Verify(r)
    PROVE  TypeOK'
<1>. USE DEF database, Goto, Raise
<1>1. ReadAndParse(r) \/ Extract(r) \/ Verify(r) => stage' \in [Requests -> Stages]
  BY DEF ReadAndParse, Extract, Verify, TypeOK, Stages
<1>2. ReadAndParse(r) \/ Extract(r) \/ Verify(r) => pc' \in [Requests -> Locations]
  BY DEF ReadAndParse, Extract, Verify, TypeOK, Locations, InTry, InExcept
<1>3. ReadAndParse(r) \/ Extract(r) \/ Verify(r) => raised' \in [Requests -> Exceptions]
  BY DEF ReadAndParse, Extract, Verify, TypeOK, Exceptions
<1>4. ReadAndParse(r) \/ Extract(r) \/ Verify(r) => extraction' \in [Requests -> ExtractionResults]
  BY ExtractionAssumption DEF ReadAndParse, Extract, Verify, TypeOK
<1>. QED
  BY <1>1, <1>2, <1>3, <1>4 DEF ReadAndParse, Extract, Verify, TypeOK

\* The steps that publish a result keep the types; the rows a flush stages are
\* segments because the parser did not refuse.
LEMMA TypePublish ==
    ASSUME TypeOK, NEW r \in Requests,
           pc[r] = "flushing" => parsed(r) # Unparseable,
           QuerySegments(r) \/ FlushSegments(r) \/ PersistEvidence(r) \/ CommitRun(r)
             \/ ReportRun(r) \/ PublishFails(r)
    PROVE  TypeOK'
<1>. USE DEF TypeOK, database, session, Goto, Raise, Locations, InTry, InExcept, Exceptions
<1>1. CASE QuerySegments(r)
  BY <1>1 DEF QuerySegments
<1>2. CASE FlushSegments(r)
  <2>1. parsed(r) \in SUBSET Segments
    BY <1>2, ParsedType DEF FlushSegments
  <2>2. staged' \in [Requests -> SUBSET Segments]
    BY <1>2, <2>1 DEF FlushSegments
  <2>3. pc' \in [Requests -> Locations] /\ raised' \in [Requests -> Exceptions]
    BY <1>2 DEF FlushSegments
  <2>. QED
    BY <1>2, <2>2, <2>3 DEF FlushSegments
<1>3. CASE PersistEvidence(r)
  BY <1>3 DEF PersistEvidence
<1>4. CASE CommitRun(r)
  <2>1. src(r) \in Sources /\ segments[src(r)] \cup staged[r] \in SUBSET Segments
    BY DEF src, Keys
  <2>2. extraction[r].drafts \in SUBSET Drafts
    BY DEF ExtractionResults
  <2>. QED
    BY <1>4, <2>1, <2>2 DEF CommitRun, RunStatus, StepStatus, SourceStatus
<1>5. CASE ReportRun(r)
  BY <1>5, ReplyType DEF ReportRun, Answers
<1>6. CASE PublishFails(r)
  BY <1>6 DEF PublishFails
<1>. QED
  BY <1>1, <1>2, <1>3, <1>4, <1>5, <1>6

\* The except clause and a crash keep the types.
LEMMA TypeExcept ==
    ASSUME TypeOK, NEW r \in Requests,
           Rollback(r) \/ ReloadSource(r) \/ MarkRunFailed(r) \/ MarkFails(r) \/ Crash(r)
    PROVE  TypeOK'
<1>. USE DEF TypeOK, database, session
<1>1. CASE Rollback(r)
  BY <1>1 DEF Rollback, Goto, Locations, InExcept
<1>2. CASE ReloadSource(r)
  BY <1>2 DEF ReloadSource, Goto, Locations, InExcept, src, Keys
<1>3. CASE MarkRunFailed(r)
  <2>1. src(r) \in Sources
    BY DEF src, Keys
  <2>2. UNCHANGED <<segments, evidence, key, session>> /\ Reply(r, "failed", r)
    BY <1>3 DEF MarkRunFailed
  <2>3. runStatus' \in [Requests -> RunStatus] /\ stepStatus' \in [Requests -> [Ordinals -> StepStatus]]
    BY <1>3 DEF MarkRunFailed, RunStatus, StepStatus
  <2>4. sourceStatus' \in [Sources -> SourceStatus]
    BY <1>3, <2>1 DEF MarkRunFailed, SourceStatus
  <2>. QED
    BY <2>2, <2>3, <2>4, ReplyType DEF Answers
<1>4. CASE MarkFails(r)
  BY <1>4, ReplyType DEF MarkFails, Answers
<1>5. CASE Crash(r)
  BY <1>5 DEF Crash, Goto, Locations
<1>. QED
  BY <1>1, <1>2, <1>3, <1>4, <1>5

\* A request that publishes has parsed its source, and its citations hold.
Publishing == {"persisting", "flushing", "citing", "committing"}

GraphReturned ==
    \A r \in Requests :
        pc[r] \in Publishing =>
            parsed(r) # Unparseable /\ parsed(r) # {} /\ CitationsHold(r)

ParserReturned ==
    \A r \in Requests :
        pc[r] \in {"extracting", "verifying"} \cup Publishing => parsed(r) # Unparseable

TypeInv == TypeOK /\ ParserReturned

\* Initially no request has moved.
LEMMA TypeInit == Init => TypeInv
BY DEF Init, TypeInv, TypeOK, ParserReturned, SourceStatus, RunStatus, StepStatus, Locations,
       Stages, ExtractionResults, NoExtraction, Exceptions, NoAnswer, Answers, Publishing

\* A request only goes on from reading when its source was parsed.
LEMMA ParserStep ==
    ASSUME TypeInv, [Next]_vars
    PROVE  ParserReturned'
<1>. USE DEF TypeInv, TypeOK, ParserReturned, Publishing, parsed, Goto, Reply, Raise
<1>1. ASSUME NEW s \in Sources, UploadSource(s) PROVE ParserReturned'
  BY <1>1 DEF UploadSource
<1>2. ASSUME NEW r \in Requests, Step(r) PROVE ParserReturned'
  <2>1. CASE LoadSource(r)
    BY <2>1 DEF LoadSource
  <2>2. CASE CheckActive(r)
    BY <2>2 DEF CheckActive
  <2>3. CASE StartRun(r)
    BY <2>3 DEF StartRun
  <2>4. CASE StartCompetes(r)
    BY <2>4 DEF StartCompetes
  <2>5. CASE RereadCompeting(r)
    BY <2>5 DEF RereadCompeting
  <2>6. CASE ReadAndParse(r)
    BY <2>6 DEF ReadAndParse
  <2>7. CASE Extract(r)
    BY <2>7 DEF Extract
  <2>8. CASE Verify(r)
    BY <2>8 DEF Verify
  <2>9. CASE QuerySegments(r)
    BY <2>9 DEF QuerySegments
  <2>10. CASE FlushSegments(r)
    BY <2>10 DEF FlushSegments
  <2>11. CASE PersistEvidence(r)
    BY <2>11 DEF PersistEvidence
  <2>12. CASE CommitRun(r)
    BY <2>12 DEF CommitRun
  <2>13. CASE ReportRun(r)
    BY <2>13 DEF ReportRun
  <2>14. CASE Rollback(r)
    BY <2>14 DEF Rollback
  <2>15. CASE ReloadSource(r)
    BY <2>15 DEF ReloadSource
  <2>16. CASE MarkRunFailed(r)
    BY <2>16 DEF MarkRunFailed
  <2>. QED
    BY <1>2, <2>1, <2>2, <2>3, <2>4, <2>5, <2>6, <2>7, <2>8, <2>9, <2>10, <2>11, <2>12,
       <2>13, <2>14, <2>15, <2>16 DEF Step
<1>3. ASSUME NEW r \in Requests, Fault(r) PROVE ParserReturned'
  BY <1>3 DEF Fault, StartFails, PublishFails, MarkFails, Crash
<1>4. CASE UNCHANGED vars
  BY <1>4 DEF vars
<1>. QED
  BY <1>1, <1>2, <1>3, <1>4 DEF Next, AllDone

\* Every step keeps the types.
LEMMA TypeStep ==
    ASSUME TypeInv, [Next]_vars
    PROVE  TypeInv'
<1>1. ASSUME NEW s \in Sources, UploadSource(s) PROVE TypeOK'
  BY <1>1 DEF UploadSource, TypeInv, TypeOK, SourceStatus, session
<1>2. ASSUME NEW r \in Requests, Step(r) \/ Fault(r) PROVE TypeOK'
  <2>1. pc[r] = "flushing" => parsed(r) # Unparseable
    BY DEF TypeInv, ParserReturned, Publishing
  <2>. QED
    BY <1>2, <2>1, TypeStart, TypeGraph, TypePublish, TypeExcept DEF TypeInv, Step, Fault
<1>3. ASSUME UNCHANGED vars PROVE TypeOK'
  BY <1>3 DEF vars, database, session, TypeInv, TypeOK
<1>. QED
  BY <1>1, <1>2, <1>3, ParserStep DEF Next, AllDone, TypeInv

\* Type correctness of the rows and sessions of process_source.
THEOREM TypeCorrect == Spec => []TypeOK
<1>1. Spec => []TypeInv
  BY TypeInit, TypeStep, PTL DEF Spec
<1>. QED
  BY <1>1, PTL DEF TypeInv

-----------------------------------------------------------------------------
(* The run of a request follows its place in process_source. *)

BeforeRun == {"received", "checking", "starting", "competing"}

\* The last two conjuncts: only an answered request has an answer, and rows
\* stay uncommitted only between the flush and the commit or rollback.
RunFollowsPc ==
    \A r \in Requests :
        /\ pc[r] \in BeforeRun => runStatus[r] = "NONE"
        /\ pc[r] \in InTry \ {"reporting"} => runStatus[r] = "RUNNING"
        /\ pc[r] = "reporting" => runStatus[r] = "SUCCEEDED"
        /\ pc[r] \in InExcept /\ ~DbMayFail => runStatus[r] = "RUNNING"
        /\ answer[r].kind # "none" => pc[r] = "answered"
        /\ staged[r] # {} => pc[r] \in {"citing", "committing", "raised"}

LEMMA RunFollowsPcInit == Init => RunFollowsPc
BY DEF Init, RunFollowsPc, BeforeRun, InTry, InExcept, NoAnswer

\* Every step keeps a run in step with its request.
LEMMA RunFollowsPcStep ==
    ASSUME TypeOK, RunFollowsPc, [Next]_vars
    PROVE  RunFollowsPc'
<1>. USE DEF TypeOK, RunFollowsPc, BeforeRun, InTry, InExcept, Goto, Reply, Raise,
             database, session
<1>1. ASSUME NEW s \in Sources, UploadSource(s) PROVE RunFollowsPc'
  BY <1>1 DEF UploadSource
<1>2. ASSUME NEW r \in Requests, Step(r) PROVE RunFollowsPc'
  <2>1. CASE LoadSource(r)
    BY <2>1 DEF LoadSource
  <2>2. CASE CheckActive(r)
    BY <2>2 DEF CheckActive
  <2>3. CASE StartRun(r)
    BY <2>3 DEF StartRun
  <2>4. CASE StartCompetes(r)
    BY <2>4 DEF StartCompetes
  <2>5. CASE RereadCompeting(r)
    BY <2>5 DEF RereadCompeting
  <2>6. CASE ReadAndParse(r)
    BY <2>6 DEF ReadAndParse
  <2>7. CASE Extract(r)
    BY <2>7 DEF Extract
  <2>8. CASE Verify(r)
    BY <2>8 DEF Verify
  <2>9. CASE QuerySegments(r)
    BY <2>9 DEF QuerySegments
  <2>10. CASE FlushSegments(r)
    BY <2>10 DEF FlushSegments
  <2>11. CASE PersistEvidence(r)
    BY <2>11 DEF PersistEvidence
  <2>12. CASE CommitRun(r)
    BY <2>12 DEF CommitRun
  <2>13. CASE ReportRun(r)
    BY <2>13 DEF ReportRun
  <2>14. CASE Rollback(r)
    BY <2>14 DEF Rollback
  <2>15. CASE ReloadSource(r)
    BY <2>15 DEF ReloadSource
  <2>16. CASE MarkRunFailed(r)
    BY <2>16 DEF MarkRunFailed
  <2>. QED
    BY <1>2, <2>1, <2>2, <2>3, <2>4, <2>5, <2>6, <2>7, <2>8, <2>9, <2>10, <2>11, <2>12,
       <2>13, <2>14, <2>15, <2>16 DEF Step
<1>3. ASSUME NEW r \in Requests, Fault(r) PROVE RunFollowsPc'
  <2>1. CASE StartFails(r)
    BY <2>1 DEF StartFails
  <2>2. CASE PublishFails(r)
    BY <2>2 DEF PublishFails
  <2>3. CASE MarkFails(r)
    BY <2>3 DEF MarkFails
  <2>4. CASE Crash(r)
    BY <2>4 DEF Crash
  <2>. QED
    BY <1>3, <2>1, <2>2, <2>3, <2>4 DEF Fault
<1>4. ASSUME UNCHANGED vars PROVE RunFollowsPc'
  BY <1>4 DEF vars
<1>. QED
  BY <1>1, <1>2, <1>3, <1>4 DEF Next, AllDone

\* Only four actions write the database.
LEMMA DatabaseSteps ==
    ASSUME [Next]_vars
    PROVE  \/ \E s \in Sources : UploadSource(s)
           \/ \E r \in Requests : StartRun(r) \/ CommitRun(r) \/ MarkRunFailed(r)
           \/ UNCHANGED database
<1>1. ASSUME NEW r \in Requests, Step(r) \/ Fault(r),
             ~(StartRun(r) \/ CommitRun(r) \/ MarkRunFailed(r))
      PROVE  UNCHANGED database
  BY <1>1 DEF Step, Fault, LoadSource, CheckActive, StartCompetes, RereadCompeting, StartFails,
     ReadAndParse, Extract, Verify, QuerySegments, FlushSegments, PersistEvidence, ReportRun,
     PublishFails, Rollback, ReloadSource, MarkFails, Crash
<1>. QED
  BY <1>1 DEF Next, AllDone, vars

\* No step changes what a request is about.
LEMMA KeyIsFixed == ASSUME [Next]_vars PROVE UNCHANGED key
<1>1. ASSUME NEW r \in Requests, Step(r) \/ Fault(r) PROVE UNCHANGED key
  BY <1>1 DEF Step, Fault, LoadSource, CheckActive, StartRun, StartCompetes, RereadCompeting,
     StartFails, ReadAndParse, Extract, Verify, QuerySegments, FlushSegments, PersistEvidence,
     CommitRun, ReportRun, PublishFails, Rollback, ReloadSource, MarkRunFailed, MarkFails, Crash
<1>. QED
  BY <1>1 DEF Next, AllDone, vars, UploadSource

-----------------------------------------------------------------------------
(* At most one active run per key, whatever fails. *)

ActiveInv == TypeInv /\ RunFollowsPc /\ OneActiveRunPerKey

LEMMA ActiveInit == Init => ActiveInv
BY TypeInit, RunFollowsPcInit DEF ActiveInv, OneActiveRunPerKey, Active, Init

\* A run becomes active only where its key has none; it becomes SUCCEEDED
\* only from RUNNING.
LEMMA ActiveStep ==
    ASSUME ActiveInv, [Next]_vars
    PROVE  ActiveInv'
<1>. USE DEF ActiveInv, TypeInv, TypeOK, OneActiveRunPerKey, Active
<1>1. UNCHANGED key
  BY KeyIsFixed
<1>2. ASSUME NEW s \in Sources, UploadSource(s) PROVE OneActiveRunPerKey'
  BY <1>2 DEF UploadSource
<1>3. ASSUME NEW r \in Requests, StartRun(r) PROVE OneActiveRunPerKey'
  BY <1>1, <1>3 DEF StartRun
<1>4. ASSUME NEW r \in Requests, CommitRun(r) PROVE OneActiveRunPerKey'
  <2>1. runStatus[r] = "RUNNING"
    BY <1>4 DEF CommitRun, RunFollowsPc, InTry
  <2>. QED
    BY <1>1, <1>4, <2>1 DEF CommitRun
<1>5. ASSUME NEW r \in Requests, MarkRunFailed(r) PROVE OneActiveRunPerKey'
  BY <1>1, <1>5 DEF MarkRunFailed
<1>6. ASSUME UNCHANGED database PROVE OneActiveRunPerKey'
  BY <1>1, <1>6 DEF database
<1>7. OneActiveRunPerKey'
  BY <1>2, <1>3, <1>4, <1>5, <1>6, DatabaseSteps
<1>. QED
  BY <1>7, TypeStep, RunFollowsPcStep

\* The partial unique index at work: however requests interleave and whatever
\* fails, a key never has two runs that are RUNNING or SUCCEEDED.
THEOREM OneActiveRun == Spec => []OneActiveRunPerKey
<1>1. Spec => []ActiveInv
  BY ActiveInit, ActiveStep, PTL DEF Spec
<1>. QED
  BY <1>1, PTL DEF ActiveInv

-----------------------------------------------------------------------------
(* Without database errors: fail closed, once per key, final. *)

FailClosedInv == ActiveInv /\ FailClosed

LEMMA FailClosedInit == Init => FailClosedInv
BY ActiveInit DEF FailClosedInv, FailClosed, Init

\* A run that is marked FAILED was RUNNING, so it has no evidence to lose.
LEMMA FailClosedStep ==
    ASSUME ~DbMayFail, FailClosedInv, [Next]_vars
    PROVE  FailClosedInv'
<1>. USE DEF FailClosedInv, ActiveInv, TypeInv, TypeOK, FailClosed
<1>1. ASSUME NEW s \in Sources, UploadSource(s) PROVE FailClosed'
  BY <1>1 DEF UploadSource
<1>2. ASSUME NEW r \in Requests, StartRun(r) PROVE FailClosed'
  BY <1>2 DEF StartRun, RunFollowsPc, BeforeRun
<1>3. ASSUME NEW r \in Requests, CommitRun(r) PROVE FailClosed'
  BY <1>3 DEF CommitRun
<1>4. ASSUME NEW r \in Requests, MarkRunFailed(r) PROVE FailClosed'
  <2>1. runStatus[r] = "RUNNING"
    BY <1>4 DEF MarkRunFailed, RunFollowsPc, InExcept
  <2>. QED
    BY <1>4, <2>1 DEF MarkRunFailed
<1>5. ASSUME UNCHANGED database PROVE FailClosed'
  BY <1>5 DEF database
<1>6. FailClosed'
  BY <1>1, <1>2, <1>3, <1>4, <1>5, DatabaseSteps
<1>. QED
  BY <1>6, ActiveStep

\* Only SUCCEEDED runs have evidence: a rollback, a crash or a lost race
\* leaves no evidence row behind.
THEOREM ProcessingFailsClosed == ASSUME ~DbMayFail PROVE Spec => []FailClosed
<1>1. FailClosedInv /\ [Next]_vars => FailClosedInv'
  BY FailClosedStep
<1>2. Spec => []FailClosedInv
  BY FailClosedInit, <1>1, PTL DEF Spec
<1>. QED
  BY <1>2, PTL DEF FailClosedInv

\* Two runs of one key never both publish evidence.
THEOREM EvidenceOnce == ASSUME ~DbMayFail PROVE Spec => []EvidenceOncePerKey
<1>1. FailClosedInv => EvidenceOncePerKey
  BY DEF FailClosedInv, ActiveInv, TypeInv, TypeOK, FailClosed, OneActiveRunPerKey, Active,
         EvidenceOncePerKey
<1>2. FailClosedInv /\ [Next]_vars => FailClosedInv'
  BY FailClosedStep
<1>. QED
  BY <1>1, <1>2, FailClosedInit, PTL DEF Spec

LEMMA FinishedRunsKept ==
    ASSUME ~DbMayFail, ActiveInv, [Next]_vars
    PROVE  \A r \in Requests :
             runStatus[r] \in {"SUCCEEDED", "FAILED"} =>
               UNCHANGED <<runStatus[r], stepStatus[r], evidence[r]>>
<1>. DEFINE Kept == \A r \in Requests :
                      runStatus[r] \in {"SUCCEEDED", "FAILED"} =>
                        UNCHANGED <<runStatus[r], stepStatus[r], evidence[r]>>
<1>. USE DEF ActiveInv, TypeInv, TypeOK, RunFollowsPc
<1>1. ASSUME NEW s \in Sources, UploadSource(s) PROVE Kept
  BY <1>1 DEF UploadSource
<1>2. ASSUME NEW r \in Requests, StartRun(r) PROVE Kept
  BY <1>2 DEF StartRun, BeforeRun
<1>3. ASSUME NEW r \in Requests, CommitRun(r) PROVE Kept
  BY <1>3 DEF CommitRun, InTry
<1>4. ASSUME NEW r \in Requests, MarkRunFailed(r) PROVE Kept
  BY <1>4 DEF MarkRunFailed, InExcept
<1>5. ASSUME UNCHANGED database PROVE Kept
  BY <1>5 DEF database
<1>. QED
  BY <1>1, <1>2, <1>3, <1>4, <1>5, DatabaseSteps

\* A run that is SUCCEEDED or FAILED keeps its status, steps and evidence.
THEOREM FinalRuns == ASSUME ~DbMayFail PROVE Spec => FinishedRunsAreFinal
<1>1. ActiveInv /\ [Next]_vars =>
        \A r \in Requests :
          runStatus[r] \in {"SUCCEEDED", "FAILED"} =>
            UNCHANGED <<runStatus[r], stepStatus[r], evidence[r]>>
  BY FinishedRunsKept
<1>. QED
  BY <1>1, ActiveInit, ActiveStep, PTL DEF Spec, FinishedRunsAreFinal

\* Answers: a reply names a run in the state it reports, and that state is final.
AnswerInv == ActiveInv /\ AnswersHold

LEMMA AnswerInit == Init => AnswerInv
BY ActiveInit DEF AnswerInv, AnswersHold, Init, NoAnswer

\* Answering from the active run of a key tells the truth about it.
LEMMA ActiveReplyHolds ==
    ASSUME AnswerInv, NEW r \in Requests, UNCHANGED <<database, key>>,
           \E q \in Active(key[r]) :
             Reply(r, IF runStatus[q] = "SUCCEEDED" THEN "succeeded" ELSE "conflict", q)
    PROVE  AnswersHold'
BY DEF AnswerInv, ActiveInv, TypeInv, TypeOK, AnswersHold, Active, Reply, database

LEMMA AnswerStep ==
    ASSUME ~DbMayFail, AnswerInv, [Next]_vars
    PROVE  AnswerInv'
<1>. USE DEF AnswerInv, ActiveInv, TypeInv, TypeOK, AnswersHold, Reply, session
<1>1. UNCHANGED key
  BY KeyIsFixed
<1>2. UNCHANGED answer => AnswersHold'
  BY <1>1, FinishedRunsKept
<1>3. ASSUME NEW s \in Sources, UploadSource(s) PROVE AnswersHold'
  BY <1>2, <1>3 DEF UploadSource
<1>4. ASSUME NEW r \in Requests, Step(r) PROVE AnswersHold'
  <2>1. CASE LoadSource(r)
    BY <1>1, <2>1 DEF LoadSource, database
  <2>2. CASE CheckActive(r)
    BY <1>2, <2>2, ActiveReplyHolds DEF CheckActive
  <2>3. CASE RereadCompeting(r)
    <3>1. CASE Reply(r, "conflict", NoRun)
      BY <1>1, <2>3, <3>1 DEF RereadCompeting, database
    <3>. QED
      BY <2>3, <3>1, ActiveReplyHolds DEF RereadCompeting
  <2>4. CASE ReportRun(r)
    <3>1. runStatus[r] = "SUCCEEDED"
      BY <2>4 DEF ReportRun, RunFollowsPc
    <3>. QED
      BY <1>1, <2>4, <3>1 DEF ReportRun, database
  <2>5. CASE MarkRunFailed(r)
    <3>1. \A q \in Requests : answer[q].kind = "succeeded" => answer[q].run # r
      BY <2>5 DEF MarkRunFailed, RunFollowsPc, InExcept
    <3>. QED
      BY <1>1, <2>5, <3>1 DEF MarkRunFailed
  <2>6. CASE UNCHANGED answer
    BY <1>2, <2>6
  <2>. QED
    BY <1>4, <2>1, <2>2, <2>3, <2>4, <2>5, <2>6 DEF Step, StartRun, StartCompetes,
       ReadAndParse, Extract, Verify, QuerySegments, FlushSegments, PersistEvidence, CommitRun,
       Rollback, ReloadSource
<1>5. ASSUME NEW r \in Requests, Fault(r) PROVE AnswersHold'
  BY <1>2, <1>5 DEF Fault, StartFails, PublishFails, MarkFails, Crash
<1>6. ASSUME UNCHANGED vars PROVE AnswersHold'
  BY <1>2, <1>6 DEF vars
<1>7. AnswersHold'
  BY <1>3, <1>4, <1>5, <1>6 DEF Next, AllDone
<1>. QED
  BY <1>7, ActiveStep

\* What a client was told of a run is true and remains so.
THEOREM AnswersRemainTrue == ASSUME ~DbMayFail PROVE Spec => []AnswersHold
<1>1. AnswerInv /\ [Next]_vars => AnswerInv'
  BY AnswerStep
<1>2. Spec => []AnswerInv
  BY AnswerInit, <1>1, PTL DEF Spec
<1>. QED
  BY <1>2, PTL DEF AnswerInv

-----------------------------------------------------------------------------
(* Segments, whatever fails. *)

\* Uncommitted rows are the parser's, exist for one request of a source at a
\* time, and only while the source has none committed; a request that cites
\* segments has them staged or found them committed.
SegmentsInPlace ==
    \A r \in Requests :
        /\ staged[r] # {} => staged[r] = parsed(r) /\ segments[src(r)] = {}
        /\ pc[r] \in {"citing", "committing"} => parsed(r) \in {staged[r], segments[src(r)]}
        /\ \A q \in Requests : q # r /\ src(q) = src(r) => staged[q] = {} \/ staged[r] = {}

SegmentInv ==
    TypeInv /\ RunFollowsPc /\ GraphReturned /\ SegmentsInPlace /\ CitationsResolve

LEMMA SegmentInit == Init => SegmentInv
BY TypeInit, RunFollowsPcInit DEF SegmentInv, GraphReturned, SegmentsInPlace, CitationsResolve,
   Publishing, Init

\* The verifier lets a request publish only with good citations and some
\* segments; no later step of its transaction changes them.
LEMMA GraphStep ==
    ASSUME TypeInv, GraphReturned, [Next]_vars
    PROVE  GraphReturned'
<1>. USE DEF TypeInv, TypeOK, ParserReturned, GraphReturned, Publishing, parsed, CitationsHold,
             Goto, Reply, Raise, database, session
<1>1. ASSUME NEW s \in Sources, UploadSource(s) PROVE GraphReturned'
  BY <1>1 DEF UploadSource
<1>2. ASSUME NEW r \in Requests, Step(r) PROVE GraphReturned'
  <2>1. CASE LoadSource(r)
    BY <2>1 DEF LoadSource
  <2>2. CASE CheckActive(r)
    BY <2>2 DEF CheckActive
  <2>3. CASE StartRun(r)
    BY <2>3 DEF StartRun
  <2>4. CASE StartCompetes(r)
    BY <2>4 DEF StartCompetes
  <2>5. CASE RereadCompeting(r)
    BY <2>5 DEF RereadCompeting
  <2>6. CASE ReadAndParse(r)
    BY <2>6 DEF ReadAndParse
  <2>7. CASE Extract(r)
    BY <2>7 DEF Extract
  <2>8. CASE Verify(r)
    BY <2>8 DEF Verify
  <2>9. CASE QuerySegments(r)
    BY <2>9 DEF QuerySegments
  <2>10. CASE FlushSegments(r)
    BY <2>10 DEF FlushSegments
  <2>11. CASE PersistEvidence(r)
    BY <2>11 DEF PersistEvidence
  <2>12. CASE CommitRun(r)
    BY <2>12 DEF CommitRun
  <2>13. CASE ReportRun(r)
    BY <2>13 DEF ReportRun
  <2>14. CASE Rollback(r)
    BY <2>14 DEF Rollback
  <2>15. CASE ReloadSource(r)
    BY <2>15 DEF ReloadSource
  <2>16. CASE MarkRunFailed(r)
    BY <2>16 DEF MarkRunFailed
  <2>. QED
    BY <1>2, <2>1, <2>2, <2>3, <2>4, <2>5, <2>6, <2>7, <2>8, <2>9, <2>10, <2>11, <2>12,
       <2>13, <2>14, <2>15, <2>16 DEF Step
<1>3. ASSUME NEW r \in Requests, Fault(r) PROVE GraphReturned'
  BY <1>3 DEF Fault, StartFails, PublishFails, MarkFails, Crash
<1>4. ASSUME UNCHANGED vars PROVE GraphReturned'
  BY <1>4 DEF vars
<1>. QED
  BY <1>1, <1>2, <1>3, <1>4 DEF Next, AllDone

\* What the publishing commit does to the segments of its source: it gives
\* them the parser's rows, if they had none, and leaves them alone otherwise.
LEMMA CommitSegments ==
    ASSUME SegmentInv, NEW r \in Requests, CommitRun(r)
    PROVE  /\ segments' = [segments EXCEPT ![src(r)] = parsed(r)]
           /\ segments[src(r)] \in {{}, parsed(r)}
           /\ segments[src(r)] = {} => staged[r] = parsed(r)
<1>1. parsed(r) # {} /\ parsed(r) \in {staged[r], segments[src(r)]}
  BY DEF CommitRun, SegmentInv, GraphReturned, SegmentsInPlace, Publishing
<1>2. staged[r] # {} => staged[r] = parsed(r) /\ segments[src(r)] = {}
  BY DEF SegmentInv, SegmentsInPlace
<1>3. segments[src(r)] \cup staged[r] = parsed(r)
  BY <1>1, <1>2
<1>. QED
  BY <1>1, <1>2, <1>3 DEF CommitRun

\* A flush succeeds only where no row is staged or committed; a commit turns
\* the staged rows of its request into the rows of the source.
LEMMA SegmentsInPlaceStep ==
    ASSUME SegmentInv, [Next]_vars
    PROVE  SegmentsInPlace'
<1>. USE DEF SegmentInv, TypeInv, TypeOK, SegmentsInPlace, parsed, src, Goto, Reply, Raise,
             database, session
<1>. \A q \in Requests : key[q][1] \in Sources
  BY DEF Keys
<1>1. ASSUME NEW s \in Sources, UploadSource(s) PROVE SegmentsInPlace'
  BY <1>1 DEF UploadSource
<1>2. ASSUME NEW r \in Requests, Step(r) PROVE SegmentsInPlace'
  <2>1. CASE LoadSource(r)
    BY <2>1 DEF LoadSource
  <2>2. CASE CheckActive(r)
    BY <2>2 DEF CheckActive
  <2>3. CASE StartRun(r)
    BY <2>3 DEF StartRun
  <2>4. CASE StartCompetes(r)
    BY <2>4 DEF StartCompetes
  <2>5. CASE RereadCompeting(r)
    BY <2>5 DEF RereadCompeting
  <2>6. CASE ReadAndParse(r)
    BY <2>6 DEF ReadAndParse
  <2>7. CASE Extract(r)
    BY <2>7 DEF Extract
  <2>8. CASE Verify(r)
    BY <2>8 DEF Verify
  <2>9. CASE QuerySegments(r)
    BY <2>9 DEF QuerySegments
  <2>10. CASE FlushSegments(r)
    <3>1. CASE segments[src(r)] # {}
      <4>1. UNCHANGED <<segments, key, staged>> /\ pc' = [pc EXCEPT ![r] = "raised"]
        BY <2>10, <3>1 DEF FlushSegments
      <4>. QED
        BY <4>1
    <3>2. CASE segments[src(r)] = {}
      <4>1. /\ UNCHANGED <<segments, key>>
            /\ staged' = [staged EXCEPT ![r] = parsed(r)]
            /\ pc' = [pc EXCEPT ![r] = "citing"]
        BY <2>10, <3>2 DEF FlushSegments
      <4>2. \A q \in Requests : q # r /\ src(q) = src(r) => staged[q] = {}
        BY <2>10 DEF FlushSegments, LockedByOther
      <4>3. ASSUME NEW q \in Requests
            PROVE  /\ staged'[q] # {} => staged'[q] = parsed(q) /\ segments[src(q)] = {}
                   /\ pc'[q] \in {"citing", "committing"} => parsed(q) \in {staged'[q], segments[src(q)]}
        BY <3>2, <4>1
      <4>4. \A q, p \in Requests : p # q /\ src(p) = src(q) => staged'[p] = {} \/ staged'[q] = {}
        BY <4>1, <4>2
      <4>. QED
        BY <4>1, <4>3, <4>4
    <3>. QED
      BY <3>1, <3>2
  <2>11. CASE PersistEvidence(r)
    BY <2>11 DEF PersistEvidence
  <2>12. CASE CommitRun(r)
    <3>1. /\ segments' = [segments EXCEPT ![src(r)] = parsed(r)]
          /\ segments[src(r)] \in {{}, parsed(r)}
          /\ segments[src(r)] = {} => staged[r] = parsed(r)
      BY <2>12, CommitSegments
    <3>2. parsed(r) # {}
      BY <2>12 DEF CommitRun, GraphReturned, Publishing
    <3>3. /\ staged' = [staged EXCEPT ![r] = {}]
          /\ pc' = [pc EXCEPT ![r] = "reporting"]
          /\ UNCHANGED key
      BY <2>12 DEF CommitRun
    <3>4. ASSUME NEW q \in Requests \ {r}, src(q) = src(r), segments[src(r)] = {}
          PROVE  staged[q] = {} /\ pc[q] \notin {"citing", "committing"}
      <4>1. staged[q] = {}
        BY <3>1, <3>2, <3>4
      <4>2. pc[q] \in {"citing", "committing"} => parsed(q) # {}
        BY DEF GraphReturned, Publishing
      <4>3. pc[q] \in {"citing", "committing"} => parsed(q) \in {staged[q], segments[src(q)]}
        OBVIOUS
      <4>. QED
        BY <3>4, <4>1, <4>2, <4>3
    <3>5. ASSUME NEW q \in Requests
          PROVE  /\ staged'[q] # {} => staged'[q] = parsed(q) /\ segments'[src(q)] = {}
                 /\ pc'[q] \in {"citing", "committing"} => parsed(q) \in {staged'[q], segments'[src(q)]}
      <4>1. CASE q = r
        BY <3>3, <4>1
      <4>2. CASE q # r /\ src(q) = src(r)
        BY <3>1, <3>3, <3>4, <4>2
      <4>3. CASE src(q) # src(r)
        BY <3>1, <3>3, <4>3
      <4>. QED
        BY <4>1, <4>2, <4>3
    <3>6. \A q, p \in Requests : p # q /\ src(p) = src(q) => staged'[p] = {} \/ staged'[q] = {}
      BY <3>3
    <3>. QED
      BY <3>3, <3>5, <3>6
  <2>13. CASE ReportRun(r)
    BY <2>13 DEF ReportRun
  <2>14. CASE Rollback(r)
    BY <2>14 DEF Rollback
  <2>15. CASE ReloadSource(r)
    BY <2>15 DEF ReloadSource
  <2>16. CASE MarkRunFailed(r)
    BY <2>16 DEF MarkRunFailed
  <2>. QED
    BY <1>2, <2>1, <2>2, <2>3, <2>4, <2>5, <2>6, <2>7, <2>8, <2>9, <2>10, <2>11, <2>12,
       <2>13, <2>14, <2>15, <2>16 DEF Step
<1>3. ASSUME NEW r \in Requests, Fault(r) PROVE SegmentsInPlace'
  <2>1. CASE StartFails(r)
    BY <2>1 DEF StartFails
  <2>2. CASE PublishFails(r)
    BY <2>2 DEF PublishFails
  <2>3. CASE MarkFails(r)
    BY <2>3 DEF MarkFails
  <2>4. CASE Crash(r)
    BY <2>4 DEF Crash
  <2>. QED
    BY <1>3, <2>1, <2>2, <2>3, <2>4 DEF Fault
<1>4. ASSUME UNCHANGED vars PROVE SegmentsInPlace'
  BY <1>4 DEF vars
<1>. QED
  BY <1>1, <1>2, <1>3, <1>4 DEF Next, AllDone

\* Published evidence quotes the rows its commit leaves in place.
LEMMA CitationsStep ==
    ASSUME SegmentInv, [Next]_vars
    PROVE  CitationsResolve'
<1>. USE DEF SegmentInv, TypeInv, TypeOK, CitationsResolve, src
<1>1. UNCHANGED key
  BY KeyIsFixed
<1>2. ASSUME NEW s \in Sources, UploadSource(s) PROVE CitationsResolve'
  BY <1>2 DEF UploadSource
<1>3. ASSUME NEW r \in Requests, StartRun(r) PROVE CitationsResolve'
  BY <1>3 DEF StartRun
<1>4. ASSUME NEW r \in Requests, CommitRun(r) PROVE CitationsResolve'
  <2>1. /\ segments' = [segments EXCEPT ![src(r)] = parsed(r)]
        /\ segments[src(r)] \in {{}, parsed(r)}
    BY <1>4, CommitSegments
  <2>2. evidence' = [evidence EXCEPT ![r] = extraction[r].drafts]
    BY <1>4 DEF CommitRun
  <2>3. \A d \in extraction[r].drafts : d.segment \in parsed(r) /\ d.quote = "exact"
    BY <1>4 DEF CommitRun, GraphReturned, Publishing, CitationsHold
  <2>4. src(r) \in Sources
    BY DEF Keys
  <2>5. \A d \in evidence'[r] : d.segment \in segments'[src(r)] /\ d.quote = "exact"
    BY <2>1, <2>2, <2>3, <2>4
  <2>6. ASSUME NEW q \in Requests \ {r}
        PROVE  \A d \in evidence'[q] : d.segment \in segments'[src(q)] /\ d.quote = "exact"
    <3>1. segments[src(q)] \subseteq segments'[src(q)]
      BY <2>1, <2>4 DEF Keys
    <3>. QED
      BY <2>2, <3>1
  <2>. QED
    BY <1>1, <2>5, <2>6
<1>5. ASSUME NEW r \in Requests, MarkRunFailed(r) PROVE CitationsResolve'
  BY <1>5 DEF MarkRunFailed
<1>6. ASSUME UNCHANGED database PROVE CitationsResolve'
  BY <1>1, <1>6 DEF database
<1>. QED
  BY <1>2, <1>3, <1>4, <1>5, <1>6, DatabaseSteps

LEMMA SegmentStep == ASSUME SegmentInv, [Next]_vars PROVE SegmentInv'
BY TypeStep, RunFollowsPcStep, GraphStep, SegmentsInPlaceStep, CitationsStep
   DEF SegmentInv, TypeInv

\* Every evidence row quotes exactly a committed segment row of its source,
\* whatever the parser, the extractor, the database and the process do.
THEOREM CitationsAlwaysResolve == Spec => []CitationsResolve
<1>1. Spec => []SegmentInv
  BY SegmentInit, SegmentStep, PTL DEF Spec
<1>. QED
  BY <1>1, PTL DEF SegmentInv

\* Only a commit writes segments, and it leaves those a source has alone.
LEMMA SegmentsKept ==
    ASSUME SegmentInv, [Next]_vars
    PROVE  \A s \in Sources : segments[s] # {} => segments'[s] = segments[s]
<1>1. ASSUME NEW r \in Requests, CommitRun(r), NEW s \in Sources, segments[s] # {}
      PROVE  segments'[s] = segments[s]
  BY <1>1, CommitSegments DEF SegmentInv, TypeInv, TypeOK
<1>. QED
  BY <1>1, DatabaseSteps DEF UploadSource, StartRun, MarkRunFailed, database

\* The segments of a source never change once it has some.
THEOREM ImmutableSegments == Spec => SegmentsAreImmutable
<1>. DEFINE Kept == \A s \in Sources : segments[s] # {} => segments'[s] = segments[s]
<1>1. SegmentInv /\ [Next]_vars => Kept
  BY SegmentsKept
<1>. QED
  BY <1>1, SegmentInit, SegmentStep, PTL DEF Spec, SegmentsAreImmutable

-----------------------------------------------------------------------------
(* The status of a source, without database errors. *)

\* The run that backs PROCESSING is not one that read FAILED before marking
\* itself failed: such a run would end without writing the status.
StatusInPlace ==
    \A s \in Sources :
        /\ sourceStatus[s] = "PROCESSING" =>
             \E r \in Requests : /\ src(r) = s /\ runStatus[r] = "RUNNING"
                                 /\ ~(pc[r] = "marking" /\ loaded[r] = "FAILED")
        /\ sourceStatus[s] = "PROCESSED" =>
             \E r \in Requests : src(r) = s /\ runStatus[r] = "SUCCEEDED"
        /\ sourceStatus[s] = "FAILED" =>
             \E r \in Requests : src(r) = s /\ runStatus[r] = "FAILED"

StatusInv == ActiveInv /\ StatusInPlace /\ ProcessedStands

LEMMA StatusInit == Init => StatusInv
BY ActiveInit DEF StatusInv, StatusInPlace, ProcessedStands, Init

\* A status is overwritten by the run that ends, or kept by one that found the
\* same value; either way some run backs it.
LEMMA StatusInPlaceStep ==
    ASSUME ~DbMayFail, StatusInv, [Next]_vars
    PROVE  StatusInPlace'
<1>. USE DEF StatusInv, ActiveInv, TypeInv, TypeOK, StatusInPlace, src, Goto, Reply, Raise, session
<1>. \A q \in Requests : key[q][1] \in Sources
  BY DEF Keys
<1>1. UNCHANGED key
  BY KeyIsFixed
<1>2. \A q \in Requests : runStatus[q] \in {"SUCCEEDED", "FAILED"} => runStatus'[q] = runStatus[q]
  BY FinishedRunsKept
<1>3. ASSUME UNCHANGED database,
             \A q \in Requests : pc'[q] = "marking" /\ loaded'[q] = "FAILED" /\ runStatus[q] = "RUNNING"
                                   => \/ pc[q] = "marking" /\ loaded[q] = "FAILED"
                                      \/ sourceStatus[src(q)] = "FAILED"
      PROVE  StatusInPlace'
  BY <1>1, <1>3 DEF database
<1>4. ASSUME NEW s \in Sources, UploadSource(s) PROVE StatusInPlace'
  BY <1>4 DEF UploadSource
<1>5. ASSUME NEW r \in Requests, Step(r) PROVE StatusInPlace'
  <2>1. CASE StartRun(r)
    BY <1>1, <1>2, <2>1 DEF StartRun, RunFollowsPc, BeforeRun
  <2>2. CASE CommitRun(r)
    <3>1. /\ runStatus' = [runStatus EXCEPT ![r] = "SUCCEEDED"]
          /\ sourceStatus' = [sourceStatus EXCEPT ![src(r)] = "PROCESSED"]
          /\ pc' = [pc EXCEPT ![r] = "reporting"] /\ UNCHANGED <<key, loaded>>
      BY <2>2 DEF CommitRun
    <3>2. ASSUME NEW s \in Sources, s # src(r)
          PROVE  /\ sourceStatus'[s] = sourceStatus[s]
                 /\ \A q \in Requests : src(q) = s => q # r
      BY <3>1, <3>2
    <3>. QED
      BY <1>2, <3>1, <3>2
  <2>3. CASE MarkRunFailed(r)
    <3>1. runStatus' = [runStatus EXCEPT ![r] = "FAILED"] /\ pc' = [pc EXCEPT ![r] = "answered"]
          /\ UNCHANGED <<key, loaded>>
      BY <2>3 DEF MarkRunFailed
    <3>2. CASE loaded[r] = "FAILED"
      <4>1. sourceStatus' = sourceStatus /\ pc[r] = "marking"
        BY <2>3, <3>2 DEF MarkRunFailed
      <4>. QED
        BY <1>2, <3>1, <3>2, <4>1
    <3>3. CASE loaded[r] # "FAILED"
      <4>1. sourceStatus' = [sourceStatus EXCEPT ![src(r)] = "FAILED"]
        BY <2>3, <3>3 DEF MarkRunFailed
      <4>. QED
        BY <1>2, <3>1, <4>1
    <3>. QED
      BY <3>2, <3>3
  <2>4. CASE LoadSource(r) \/ ReloadSource(r)
    BY <1>3, <2>4 DEF LoadSource, ReloadSource
  <2>5. CASE CheckActive(r) \/ StartCompetes(r) \/ RereadCompeting(r)
    BY <1>3, <2>5 DEF CheckActive, StartCompetes, RereadCompeting
  <2>6. CASE ReadAndParse(r) \/ Extract(r) \/ Verify(r)
    BY <1>3, <2>6 DEF ReadAndParse, Extract, Verify
  <2>7. CASE QuerySegments(r) \/ FlushSegments(r) \/ PersistEvidence(r) \/ ReportRun(r) \/ Rollback(r)
    BY <1>3, <2>7 DEF QuerySegments, FlushSegments, PersistEvidence, ReportRun, Rollback
  <2>. QED
    BY <1>5, <2>1, <2>2, <2>3, <2>4, <2>5, <2>6, <2>7 DEF Step
<1>6. ASSUME NEW r \in Requests, Fault(r) PROVE StatusInPlace'
  BY <1>3, <1>6 DEF Fault, StartFails, PublishFails, MarkFails, Crash
<1>7. ASSUME UNCHANGED vars PROVE StatusInPlace'
  BY <1>3, <1>7 DEF vars
<1>. QED
  BY <1>4, <1>5, <1>6, <1>7 DEF Next, AllDone

\* While all requests of a source share one key, its SUCCEEDED run is the only
\* active one, so nobody is left who could write the status again.
LEMMA ProcessedStandsStep ==
    ASSUME ~DbMayFail, StatusInv, [Next]_vars
    PROVE  ProcessedStands'
<1>. USE DEF StatusInv, ActiveInv, TypeInv, TypeOK, ProcessedStands, OneActiveRunPerKey, Active, src
<1>. \A q \in Requests : key[q][1] \in Sources
  BY DEF Keys
<1>1. UNCHANGED key
  BY KeyIsFixed
<1>2. ASSUME NEW s \in Sources, UploadSource(s) PROVE ProcessedStands'
  BY <1>2 DEF UploadSource
<1>3. ASSUME NEW r \in Requests, StartRun(r) PROVE ProcessedStands'
  BY <1>1, <1>3 DEF StartRun
<1>4. ASSUME NEW r \in Requests, CommitRun(r) PROVE ProcessedStands'
  BY <1>1, <1>4 DEF CommitRun
<1>5. ASSUME NEW r \in Requests, MarkRunFailed(r) PROVE ProcessedStands'
  <2>1. runStatus[r] = "RUNNING"
    BY <1>5 DEF MarkRunFailed, RunFollowsPc, InExcept
  <2>2. runStatus' = [runStatus EXCEPT ![r] = "FAILED"]
    BY <1>5 DEF MarkRunFailed
  <2>3. \A s \in Sources : s # src(r) => sourceStatus'[s] = sourceStatus[s]
    BY <1>5 DEF MarkRunFailed
  <2>4. ASSUME NEW q \in Requests, runStatus[q] = "SUCCEEDED", src(q) = src(r)
        PROVE  key[q] # key[r]
    BY <2>1, <2>4
  <2>. QED
    BY <1>1, <2>2, <2>3, <2>4
<1>6. ASSUME UNCHANGED database PROVE ProcessedStands'
  BY <1>1, <1>6 DEF database
<1>. QED
  BY <1>2, <1>3, <1>4, <1>5, <1>6, DatabaseSteps

LEMMA StatusStep == ASSUME ~DbMayFail, StatusInv, [Next]_vars PROVE StatusInv'
BY ActiveStep, StatusInPlaceStep, ProcessedStandsStep DEF StatusInv

\* The status of a source always has a run that justifies it.
THEOREM StatusIsBacked == ASSUME ~DbMayFail PROVE Spec => []SourceStatusBacked
<1>1. StatusInv => SourceStatusBacked
  BY DEF StatusInv, StatusInPlace, SourceStatusBacked
<1>2. StatusInv /\ [Next]_vars => StatusInv'
  BY StatusStep
<1>. QED
  BY <1>1, <1>2, StatusInit, PTL DEF Spec

\* Under one profile, PROCESSED is never lost once a run has SUCCEEDED.
THEOREM ProcessedIsKept == ASSUME ~DbMayFail PROVE Spec => []ProcessedStands
<1>1. StatusInv /\ [Next]_vars => StatusInv'
  BY StatusStep
<1>2. Spec => []StatusInv
  BY StatusInit, <1>1, PTL DEF Spec
<1>. QED
  BY <1>2, PTL DEF StatusInv

-----------------------------------------------------------------------------
(* Identical requests are served. *)

\* Whoever is told of a conflict met a run of its key, and a request that has
\* a run is never told of one.
ServedInPlace ==
    \A r \in Requests :
        /\ runStatus[r] # "NONE" => answer[r].kind # "conflict"
        /\ pc[r] = "competing" \/ answer[r].kind = "conflict" =>
             \E q \in Requests : key[q] = key[r] /\ runStatus[q] # "NONE"

ServedInv == TypeInv /\ RunFollowsPc /\ ServedInPlace

LEMMA ServedInit == Init => ServedInv
BY TypeInit, RunFollowsPcInit DEF ServedInv, ServedInPlace, Init, NoAnswer

\* Runs are never deleted.
LEMMA RunsStay ==
    ASSUME TypeOK, [Next]_vars
    PROVE  \A q \in Requests : runStatus[q] # "NONE" => runStatus'[q] # "NONE"
<1>. USE DEF TypeOK
<1>1. ASSUME NEW s \in Sources, UploadSource(s) PROVE UNCHANGED runStatus
  BY <1>1 DEF UploadSource
<1>2. ASSUME NEW r \in Requests, StartRun(r) \/ CommitRun(r) \/ MarkRunFailed(r)
      PROVE  \A q \in Requests : runStatus[q] # "NONE" => runStatus'[q] # "NONE"
  BY <1>2 DEF StartRun, CommitRun, MarkRunFailed
<1>. QED
  BY <1>1, <1>2, DatabaseSteps DEF database

\* An answer keeps the invariant if it turns away only a request that has no
\* run and whose key has one.
LEMMA ServedReply ==
    ASSUME TypeOK, ServedInPlace, NEW r \in Requests, NEW kind, NEW run, Reply(r, kind, run),
           UNCHANGED <<runStatus, key>>,
           kind = "conflict" =>
             /\ runStatus[r] = "NONE"
             /\ \E q \in Requests : key[q] = key[r] /\ runStatus[q] # "NONE"
    PROVE  ServedInPlace'
<1>1. /\ pc'[r] = "answered"
      /\ answer'[r].kind = kind
      /\ \A q \in Requests \ {r} : pc'[q] = pc[q] /\ answer'[q] = answer[q]
  BY DEF Reply, Goto, TypeOK
<1>. QED
  BY <1>1 DEF ServedInPlace

\* A request is turned away only in the two places that found an active run.
LEMMA ServedStep ==
    ASSUME ServedInv, [Next]_vars
    PROVE  ServedInv'
<1>. USE DEF ServedInv, TypeInv, TypeOK, ServedInPlace, Goto, Reply, Raise, database, session
<1>1. UNCHANGED key
  BY KeyIsFixed
<1>2. \A q \in Requests : runStatus[q] # "NONE" => runStatus'[q] # "NONE"
  BY RunsStay
<1>3. ASSUME NEW r \in Requests, NEW q \in Active(key[r])
      PROVE  q \in Requests /\ key[q] = key[r] /\ runStatus[q] # "NONE"
  BY DEF Active
<1>4. ASSUME NEW s \in Sources, UploadSource(s) PROVE ServedInPlace'
  BY <1>1, <1>4 DEF UploadSource
<1>5. ASSUME NEW r \in Requests, CheckActive(r) \/ StartCompetes(r) \/ RereadCompeting(r)
      PROVE  ServedInPlace'
  <2>1. runStatus[r] = "NONE"
    BY <1>5 DEF CheckActive, StartCompetes, RereadCompeting, RunFollowsPc, BeforeRun
  <2>2. CASE CheckActive(r)
    <3>1. CASE Goto(r, "starting") /\ UNCHANGED answer
      BY <2>1, <2>2, <3>1 DEF CheckActive
    <3>2. ASSUME NEW q \in Active(key[r]),
                 Reply(r, IF runStatus[q] = "SUCCEEDED" THEN "succeeded" ELSE "conflict", q)
          PROVE  ServedInPlace'
      BY <1>3, <2>1, <2>2, <3>2, ServedReply DEF CheckActive
    <3>. QED
      BY <2>2, <3>1, <3>2 DEF CheckActive
  <2>3. CASE StartCompetes(r)
    BY <1>1, <1>3, <2>1, <2>3 DEF StartCompetes
  <2>4. CASE RereadCompeting(r)
    <3>1. CASE Reply(r, "conflict", NoRun)
      BY <2>1, <2>4, <3>1, ServedReply DEF RereadCompeting
    <3>2. ASSUME NEW q \in Active(key[r]),
                 Reply(r, IF runStatus[q] = "SUCCEEDED" THEN "succeeded" ELSE "conflict", q)
          PROVE  ServedInPlace'
      BY <1>3, <2>1, <2>4, <3>2, ServedReply DEF RereadCompeting
    <3>. QED
      BY <2>4, <3>1, <3>2 DEF RereadCompeting
  <2>. QED
    BY <1>5, <2>2, <2>3, <2>4
<1>6. ASSUME NEW r \in Requests, LoadSource(r) \/ StartRun(r) \/ StartFails(r)
      PROVE  ServedInPlace'
  <2>1. answer[r].kind = "none"
    BY <1>6 DEF LoadSource, StartRun, StartFails, RunFollowsPc
  <2>2. CASE LoadSource(r)
    <3>1. CASE Reply(r, "not_found", NoRun)
      BY <2>2, <3>1, ServedReply DEF LoadSource
    <3>2. CASE Goto(r, "checking") /\ UNCHANGED answer
      BY <2>2, <3>2 DEF LoadSource
    <3>. QED
      BY <2>2, <3>1, <3>2 DEF LoadSource
  <2>3. CASE StartRun(r)
    BY <1>1, <1>2, <2>1, <2>3 DEF StartRun
  <2>4. CASE StartFails(r)
    BY <1>1, <2>1, <2>4 DEF StartFails
  <2>. QED
    BY <1>6, <2>2, <2>3, <2>4
<1>7. ASSUME NEW r \in Requests, ReadAndParse(r) \/ Extract(r) \/ Verify(r) PROVE ServedInPlace'
  BY <1>1, <1>7 DEF ReadAndParse, Extract, Verify
<1>8. ASSUME NEW r \in Requests,
             QuerySegments(r) \/ FlushSegments(r) \/ PersistEvidence(r) \/ Rollback(r)
               \/ ReloadSource(r) \/ PublishFails(r) \/ Crash(r)
      PROVE  ServedInPlace'
  BY <1>1, <1>8 DEF QuerySegments, FlushSegments, PersistEvidence, Rollback, ReloadSource,
                    PublishFails, Crash
<1>9. ASSUME NEW r \in Requests, ReportRun(r) \/ MarkFails(r) PROVE ServedInPlace'
  <2>1. CASE ReportRun(r)
    BY <2>1, ServedReply DEF ReportRun
  <2>2. CASE MarkFails(r)
    BY <2>2, ServedReply DEF MarkFails
  <2>. QED
    BY <1>9, <2>1, <2>2
<1>10. ASSUME NEW r \in Requests, CommitRun(r) PROVE ServedInPlace'
  <2>1. answer[r].kind = "none"
    BY <1>10 DEF CommitRun, RunFollowsPc
  <2>. QED
    BY <1>1, <1>2, <1>10, <2>1 DEF CommitRun
<1>11. ASSUME NEW r \in Requests, MarkRunFailed(r) PROVE ServedInPlace'
  BY <1>1, <1>2, <1>11 DEF MarkRunFailed
<1>12. ASSUME UNCHANGED vars PROVE ServedInPlace'
  BY <1>12 DEF vars
<1>13. ServedInPlace'
  BY <1>4, <1>5, <1>6, <1>7, <1>8, <1>9, <1>10, <1>11, <1>12 DEF Next, Step, Fault, AllDone
<1>. QED
  BY <1>13, TypeStep, RunFollowsPcStep

\* Of all requests of one key at least one is not turned away, whatever fails.
THEOREM SomebodyIsServed == Spec => []SomeRequestIsServed
<1>1. ServedInv => SomeRequestIsServed
  <2>. SUFFICES ASSUME ServedInPlace, NEW r \in Requests
                PROVE  \E q \in Requests : key[q] = key[r] /\ answer[q].kind # "conflict"
    BY DEF ServedInv, SomeRequestIsServed
  <2>. QED
    BY DEF ServedInPlace
<1>. QED
  BY <1>1, ServedInit, ServedStep, PTL DEF Spec

-----------------------------------------------------------------------------
(* The steps of a run, whatever fails. *)

\* The segments a source has stored are not what the request parsed.
Drifted(r) == segments[src(r)] \notin {{}, parsed(r)}

\* The steps of a run are final once its request has left the graph.
LeftTheGraph == {"reporting", "answered", "crashed"} \cup InExcept

\* How far the graph of a request is; which exceptions it raised there.
StageReached(r) ==
    /\ pc[r] \in BeforeRun \cup {"reading"} => stage[r] = 0
    /\ pc[r] = "extracting" => stage[r] = 1
    /\ pc[r] = "verifying" => stage[r] = 2
    /\ pc[r] \in Publishing \cup {"reporting"} => stage[r] = 3
    /\ pc[r] \in InExcept /\ raised[r] = "model" => stage[r] = 1
    /\ pc[r] \in InExcept /\ raised[r] = "invalid_source" =>
         stage[r] = 0 \/ parsed(r) = {} \/ Drifted(r)
    /\ \A o \in Ordinals :
         stepStatus[r][o] \in {"SUCCEEDED", "FAILED"} => pc[r] \in LeftTheGraph

StagesReached == \A r \in Requests : StageReached(r)

StepsInv == SegmentInv /\ StagesReached /\ EarlyFailuresAreLocated

LEMMA StepsInit == Init => StepsInv
BY SegmentInit DEF StepsInv, StagesReached, StageReached, EarlyFailuresAreLocated, Init, BeforeRun, Publishing,
   InExcept, Ordinals

\* A parser that yields other segments than the stored ones always will.
LEMMA DriftStays ==
    ASSUME SegmentInv, [Next]_vars
    PROVE  /\ UNCHANGED key
           /\ \A r \in Requests : parsed(r)' = parsed(r) /\ (Drifted(r) => Drifted(r)')
<1>1. UNCHANGED key
  BY KeyIsFixed
<1>2. \A r \in Requests : src(r) \in Sources
  BY DEF SegmentInv, TypeInv, TypeOK, src, Keys
<1>. QED
  BY <1>1, <1>2, SegmentsKept DEF Drifted, parsed, src

\* The step of another request, or of none, leaves it so.
LEMMA StageReachedStays ==
    ASSUME SegmentInv, [Next]_vars, NEW r \in Requests, StageReached(r),
           UNCHANGED <<pc[r], stage[r], raised[r], stepStatus[r]>>
    PROVE  StageReached(r)'
<1>1. parsed(r)' = parsed(r) /\ (Drifted(r) => Drifted(r)')
  BY DriftStays
<1>. QED
  BY <1>1 DEF StageReached

\* A model error comes from the second node; a source is refused by the first
\* node, for having no segments, or for other segments than it has stored.
LEMMA StagesStep ==
    ASSUME SegmentInv, StagesReached, [Next]_vars
    PROVE  StagesReached'
<1>. USE DEF SegmentInv, TypeInv, TypeOK, BeforeRun, Publishing, InExcept,
             LeftTheGraph, Goto, Reply, Raise, database, session
<1>1. \A r \in Requests : StageReached(r) /\ parsed(r)' = parsed(r) /\ (Drifted(r) => Drifted(r)')
  BY DriftStays DEF StagesReached
<1>2. ASSUME NEW r \in Requests, Step(r) PROVE StageReached(r)'
  <2>1. CASE LoadSource(r)
    BY <1>1, <2>1 DEF LoadSource, StageReached
  <2>2. CASE CheckActive(r)
    BY <1>1, <2>2 DEF CheckActive, StageReached
  <2>3. CASE StartRun(r)
    BY <1>1, <2>3 DEF StartRun, StageReached
  <2>4. CASE StartCompetes(r)
    BY <1>1, <2>4 DEF StartCompetes, StageReached
  <2>5. CASE RereadCompeting(r)
    BY <1>1, <2>5 DEF RereadCompeting, StageReached
  <2>6. CASE ReadAndParse(r)
    BY <1>1, <2>6 DEF ReadAndParse, StageReached
  <2>7. CASE Extract(r)
    BY <1>1, <2>7 DEF Extract, StageReached
  <2>8. CASE Verify(r)
    BY <1>1, <2>8 DEF Verify, StageReached
  <2>9. CASE QuerySegments(r)
    BY <1>1, <2>9 DEF QuerySegments, StageReached, Drifted
  <2>10. CASE FlushSegments(r)
    BY <1>1, <2>10 DEF FlushSegments, StageReached
  <2>11. CASE PersistEvidence(r)
    BY <1>1, <2>11 DEF PersistEvidence, StageReached
  <2>12. CASE CommitRun(r)
    BY <1>1, <2>12 DEF CommitRun, StageReached
  <2>13. CASE ReportRun(r)
    BY <1>1, <2>13 DEF ReportRun, StageReached
  <2>14. CASE Rollback(r)
    BY <1>1, <2>14 DEF Rollback, StageReached
  <2>15. CASE ReloadSource(r)
    BY <1>1, <2>15 DEF ReloadSource, StageReached
  <2>16. CASE MarkRunFailed(r)
    BY <1>1, <2>16 DEF MarkRunFailed, StageReached
  <2>. QED
    BY <1>2, <2>1, <2>2, <2>3, <2>4, <2>5, <2>6, <2>7, <2>8,
       <2>9, <2>10, <2>11, <2>12, <2>13, <2>14, <2>15, <2>16 DEF Step
<1>3. ASSUME NEW r \in Requests, Fault(r) PROVE StageReached(r)'
  <2>1. CASE StartFails(r)
    BY <1>1, <2>1 DEF StartFails, StageReached
  <2>2. CASE PublishFails(r)
    BY <1>1, <2>2 DEF PublishFails, StageReached
  <2>3. CASE MarkFails(r)
    BY <1>1, <2>3 DEF MarkFails, StageReached
  <2>4. CASE Crash(r)
    BY <1>1, <2>4 DEF Crash, StageReached
  <2>. QED
    BY <1>3, <2>1, <2>2, <2>3, <2>4 DEF Fault
<1>4. ASSUME NEW r \in Requests, Step(r) \/ Fault(r), NEW q \in Requests \ {r}
      PROVE  StageReached(q)'
  <2>1. UNCHANGED <<pc[q], stage[q], raised[q], stepStatus[q]>>
    BY <1>4 DEF Step, Fault, LoadSource, CheckActive, StartRun, StartCompetes, RereadCompeting,
       StartFails, ReadAndParse, Extract, Verify, QuerySegments, FlushSegments, PersistEvidence,
       CommitRun, ReportRun, PublishFails, Rollback, ReloadSource, MarkRunFailed, MarkFails, Crash
  <2>. QED
    BY <1>1, <2>1, StageReachedStays
<1>5. ASSUME NEW s \in Sources, UploadSource(s), NEW q \in Requests PROVE StageReached(q)'
  BY <1>1, <1>5, StageReachedStays DEF UploadSource
<1>6. ASSUME UNCHANGED vars, NEW q \in Requests PROVE StageReached(q)'
  BY <1>1, <1>6, StageReachedStays DEF vars
<1>. QED
  BY <1>2, <1>3, <1>4, <1>5, <1>6 DEF Next, AllDone, StagesReached

\* A graph that was left does not go on.
LEMMA StageStays ==
    ASSUME TypeOK, [Next]_vars, NEW r \in Requests, pc[r] \in LeftTheGraph
    PROVE  stage'[r] = stage[r]
<1>. USE DEF TypeOK, LeftTheGraph, InExcept, database, session
<1>1. ASSUME NEW q \in Requests, ReadAndParse(q) \/ Extract(q) \/ Verify(q)
      PROVE  stage'[r] = stage[r]
  <2>1. q # r /\ (UNCHANGED stage \/ \E n \in 0..3 : stage' = [stage EXCEPT ![q] = n])
    BY <1>1 DEF ReadAndParse, Extract, Verify
  <2>. QED
    BY <2>1
<1>2. ASSUME NEW q \in Requests, Step(q) \/ Fault(q),
             ~(ReadAndParse(q) \/ Extract(q) \/ Verify(q))
      PROVE  UNCHANGED stage
  BY <1>2 DEF Step, Fault, LoadSource, CheckActive, StartRun, StartCompetes,
     RereadCompeting, StartFails, QuerySegments, FlushSegments, PersistEvidence, CommitRun,
     ReportRun, PublishFails, Rollback, ReloadSource, MarkRunFailed, MarkFails, Crash
<1>. QED
  BY <1>1, <1>2 DEF Next, UploadSource, AllDone, vars

\* What EarlyFailuresAreLocated says of one run.
Located(r) ==
    stepStatus[r][2] # "FAILED" =>
        /\ \A o \in Ordinals : stepStatus[r][o] = "SUCCEEDED" => stage[r] > o
        /\ stepStatus[r][1] = "FAILED" => stage[r] = 1
        /\ stepStatus[r][0] = "FAILED" => stage[r] = 0 \/ parsed(r) = {} \/ Drifted(r)

\* A run whose steps nobody writes stays as good as it was.
LEMMA LocatedStays ==
    ASSUME StepsInv, [Next]_vars, NEW r \in Requests, Located(r), stepStatus'[r] = stepStatus[r]
    PROVE  Located(r)'
<1>1. parsed(r)' = parsed(r) /\ (Drifted(r) => Drifted(r)')
  BY DriftStays DEF StepsInv
<1>2. \A o \in Ordinals : stepStatus[r][o] \in {"SUCCEEDED", "FAILED"} => stage'[r] = stage[r]
  BY StageStays DEF StepsInv, StagesReached, StageReached, SegmentInv, TypeInv
<1>. QED
  BY <1>1, <1>2 DEF Located, Ordinals

\* Only the commit of a result and the mark of a failure record that steps ended.
LEMMA StepsStep ==
    ASSUME StepsInv, [Next]_vars
    PROVE  StepsInv'
<1>. USE DEF StepsInv, SegmentInv, TypeInv, TypeOK, Ordinals
<1>1. \A q \in Requests : Located(q)
  BY DEF EarlyFailuresAreLocated, Located, Drifted
<1>2. ASSUME NEW r \in Requests, StartRun(r), NEW q \in Requests PROVE Located(q)'
  BY <1>1, <1>2, LocatedStays DEF StartRun, Located
<1>3. ASSUME NEW r \in Requests, CommitRun(r), NEW q \in Requests PROVE Located(q)'
  <2>1. stepStatus' = [stepStatus EXCEPT ![r] = [o \in Ordinals |-> "SUCCEEDED"]]
        /\ UNCHANGED stage
    BY <1>3 DEF CommitRun
  <2>2. stage[r] = 3
    BY <1>3 DEF CommitRun, StagesReached, StageReached, Publishing
  <2>3. CASE q = r
    BY <2>1, <2>2, <2>3 DEF Located
  <2>4. CASE q # r
    BY <1>1, <2>1, <2>4, LocatedStays
  <2>. QED
    BY <2>3, <2>4
<1>4. ASSUME NEW r \in Requests, MarkRunFailed(r), NEW q \in Requests PROVE Located(q)'
  <2>. DEFINE failed == FailedOrdinal(raised[r])
  <2>1. /\ stepStatus' = [stepStatus EXCEPT ![r] =
                            [o \in Ordinals |-> IF o < failed THEN "SUCCEEDED"
                                                ELSE IF o = failed THEN "FAILED" ELSE "SKIPPED"]]
        /\ UNCHANGED stage
        /\ pc[r] \in InExcept
    BY <1>4 DEF MarkRunFailed, InExcept, session
  <2>2. parsed(r)' = parsed(r) /\ (Drifted(r) => Drifted(r)')
    BY DriftStays
  <2>3. \/ failed = 0 /\ raised[r] = "invalid_source"
        \/ failed = 1 /\ raised[r] = "model"
        \/ failed = 2
    BY DEF FailedOrdinal
  <2>4. \/ failed = 0 /\ (stage[r] = 0 \/ parsed(r) = {} \/ Drifted(r))
        \/ failed = 1 /\ stage[r] = 1
        \/ failed = 2
    BY <2>1, <2>3 DEF StagesReached, StageReached
  <2>. HIDE DEF failed
  <2>5. CASE q = r
    BY <2>1, <2>2, <2>4, <2>5 DEF Located
  <2>6. CASE q # r
    BY <1>1, <2>1, <2>6, LocatedStays
  <2>. QED
    BY <2>5, <2>6
<1>5. ASSUME UNCHANGED stepStatus, NEW q \in Requests PROVE Located(q)'
  BY <1>1, <1>5, LocatedStays
<1>6. \A q \in Requests : Located(q)'
  BY <1>2, <1>3, <1>4, <1>5, DatabaseSteps DEF UploadSource, database
<1>7. EarlyFailuresAreLocated'
  BY <1>6 DEF EarlyFailuresAreLocated, Located, Drifted
<1>. QED
  BY <1>7, SegmentStep, StagesStep

\* Whatever raises, the steps of a run say where it failed, unless they say
\* that it failed at verify_citations.
THEOREM EarlyFailuresLocated == Spec => []EarlyFailuresAreLocated
<1>1. StepsInv /\ [Next]_vars => StepsInv'
  BY StepsStep
<1>2. StepsInv => EarlyFailuresAreLocated
  BY DEF StepsInv
<1>. QED
  BY <1>1, <1>2, StepsInit, PTL DEF Spec

=============================================================================
