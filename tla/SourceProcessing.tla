--------------------------- MODULE SourceProcessing ---------------------------
(***************************************************************************)
(* The life of a source in DiscoveryService (services/discovery.py): it is *)
(* uploaded, and then processed by requests that run concurrently, each in *)
(* a database session of its own (api/dependencies.py, READ COMMITTED).    *)
(*                                                                         *)
(* A request loads the source, looks for an active run of its key, commits *)
(* a RUNNING run, executes the ingestion graph outside any transaction,    *)
(* and then commits segments, evidence, run and source status together.    *)
(* An exception rolls back and marks the run FAILED in one more commit.    *)
(*                                                                         *)
(* A key is a source and an ingestion profile: input_hash is the hash of   *)
(* the source's only revision and the profile of the serving process.  A   *)
(* request creates at most one run, so a run bears its request's name.     *)
(***************************************************************************)
EXTENDS Naturals

CONSTANTS
    Sources, Profiles, Segments,
    Requests,       \* the process_source calls of a behaviour (a bound for TLC)
    NoRun,          \* the run of an answer that names none
    Unparseable,    \* the parser's outcome when it raises
    Parse,          \* what the parser makes of a source under a profile
    Extractions,    \* the results an extractor may return
    DbMayFail,      \* statements and commits may raise (a lost connection)
    MayCrash        \* a request may end between two steps (process death)

Keys == Sources \X Profiles
Drafts == [segment : Segments, quote : {"exact", "altered"}]
ExtractionResults == [drafts : SUBSET Drafts, duplicated : BOOLEAN]

ASSUME RunAssumption == NoRun \notin Requests
ASSUME ParseAssumption == Parse \in [Keys -> (SUBSET Segments) \cup {Unparseable}]
ASSUME ExtractionAssumption == Extractions \subseteq ExtractionResults
ASSUME FaultAssumption ==
    DbMayFail \in BOOLEAN /\ MayCrash \in BOOLEAN

VARIABLES
    sourceStatus,   \* sources.status, "ABSENT" before the row exists
    segments,       \* the committed segment rows of each source
    runStatus,      \* runs.status, "NONE" before the row exists
    stepStatus,     \* run_steps.status by ordinal
    evidence,       \* the evidence rows committed by each run
    key,            \* the source and profile a request is about
    pc,             \* where a request is in process_source
    loaded,         \* the Source.status its session holds
    stage,          \* how far its ingestion graph has come
    extraction,     \* the extraction its graph produced
    staged,         \* segment rows it flushed and has not committed
    raised,         \* the exception it is handling
    answer          \* what the client was told

database == <<sourceStatus, segments, runStatus, stepStatus, evidence>>
session  == <<loaded, stage, extraction, staged, raised>>
vars == <<database, key, pc, session, answer>>

SourceStatus == {"ABSENT", "UPLOADED", "PROCESSING", "PROCESSED", "FAILED"}
RunStatus  == {"NONE", "RUNNING", "SUCCEEDED", "FAILED"}
StepStatus == {"NONE", "PENDING", "RUNNING", "SUCCEEDED", "FAILED", "SKIPPED"}
Ordinals == 0..2            \* parse_source, extract_evidence, verify_citations
Stages   == 0..3            \* how many of these nodes have returned
Exceptions == {"none", "invalid_source", "model", "citation", "other"}
Answers == {"none", "not_found", "conflict", "succeeded", "failed", "error"}

\* Requests in the try block, and those in its except clause.
InTry == {"reading", "extracting", "verifying", "persisting", "flushing",
          "citing", "committing", "reporting"}
InExcept == {"raised", "reloading", "marking"}
Locations == {"received", "checking", "starting", "competing",
              "answered", "crashed"} \cup InTry \cup InExcept

NoExtraction == [drafts |-> {}, duplicated |-> FALSE]
NoAnswer == [kind |-> "none", run |-> NoRun]

src(r) == key[r][1]
parsed(r) == Parse[key[r]]

Init ==
    /\ sourceStatus = [s \in Sources |-> "ABSENT"]
    /\ segments = [s \in Sources |-> {}]
    /\ runStatus = [r \in Requests |-> "NONE"]
    /\ stepStatus = [r \in Requests |-> [o \in Ordinals |-> "NONE"]]
    /\ evidence = [r \in Requests |-> {}]
    /\ key \in [Requests -> Keys]
    /\ pc = [r \in Requests |-> "received"]
    /\ loaded = [r \in Requests |-> "ABSENT"]
    /\ stage = [r \in Requests |-> 0]
    /\ extraction = [r \in Requests |-> NoExtraction]
    /\ staged = [r \in Requests |-> {}]
    /\ raised = [r \in Requests |-> "none"]
    /\ answer = [r \in Requests |-> NoAnswer]

-----------------------------------------------------------------------------
(* Helpers: moving a request on, answering it, raising in its try block. *)

Goto(r, location) == pc' = [pc EXCEPT ![r] = location]

Reply(r, kind, run) ==
    /\ Goto(r, "answered")
    /\ answer' = [answer EXCEPT ![r] = [kind |-> kind, run |-> run]]

Raise(r, exception) ==
    /\ Goto(r, "raised")
    /\ raised' = [raised EXCEPT ![r] = exception]

\* Mutant of Active: a SUCCEEDED run does not block a new one.
ActiveRunning(k) == {r \in Requests : key[r] = k /\ runStatus[r] = "RUNNING"}

\* _active_run: the run of this key the partial unique index lets exist.
Active(k) == {r \in Requests : key[r] = k /\ runStatus[r] \in {"RUNNING", "SUCCEEDED"}}

\* Mutant of CitationsHold: the quote is not compared with the replayed text.
CitationsNotReplayed(r) ==
    /\ ~extraction[r].duplicated
    /\ \A d \in extraction[r].drafts : d.segment \in parsed(r)

\* The citation verifier and both of the checks on its report: every draft
\* replays exactly from a parsed segment, and no two drafts share an id.
CitationsHold(r) ==
    /\ ~extraction[r].duplicated
    /\ \A d \in extraction[r].drafts : d.segment \in parsed(r) /\ d.quote = "exact"

\* Segment rows of this source another open transaction has inserted.
LockedByOther(r) == \E q \in Requests \ {r} : src(q) = src(r) /\ staged[q] # {}

\* Mutant of FailedOrdinal: what is not listed is put down to the extractor.
FailedOrdinalUnlisted(exception) ==
    CASE exception = "invalid_source" -> 0
      [] exception = "citation" -> 2
      [] OTHER -> 1

\* _failed_step_for, and its default: "other" is every exception it does not list.
FailedOrdinal(exception) ==
    CASE exception = "invalid_source" -> 0
      [] exception = "model" -> 1
      [] OTHER -> 2

-----------------------------------------------------------------------------
(* Uploading: the bytes are stored before the rows are committed. *)

UploadSource(s) ==
    /\ sourceStatus[s] = "ABSENT"
    /\ sourceStatus' = [sourceStatus EXCEPT ![s] = "UPLOADED"]
    /\ UNCHANGED <<segments, runStatus, stepStatus, evidence, key, pc, session, answer>>

-----------------------------------------------------------------------------
(* Starting a run. *)

LoadSource(r) ==
    /\ pc[r] = "received"
    /\ IF sourceStatus[src(r)] = "ABSENT"
       THEN Reply(r, "not_found", NoRun) /\ UNCHANGED loaded
       ELSE /\ loaded' = [loaded EXCEPT ![r] = sourceStatus[src(r)]]
            /\ Goto(r, "checking")
            /\ UNCHANGED answer
    /\ UNCHANGED <<database, key, stage, extraction, staged, raised>>

\* Mutant of CheckActive: an active run is returned without a look at its status.
CheckActiveAny(r) ==
    /\ pc[r] = "checking"
    /\ \/ /\ Active(key[r]) = {}
          /\ Goto(r, "starting")
          /\ UNCHANGED answer
       \/ \E q \in Active(key[r]) : Reply(r, "succeeded", q)
    /\ UNCHANGED <<database, key, session>>

CheckActive(r) ==
    /\ pc[r] = "checking"
    /\ \/ /\ Active(key[r]) = {}
          /\ Goto(r, "starting")
          /\ UNCHANGED answer
       \/ \E q \in Active(key[r]) :
            Reply(r, IF runStatus[q] = "SUCCEEDED" THEN "succeeded" ELSE "conflict", q)
    /\ UNCHANGED <<database, key, session>>

\* Mutant of StartRun: no partial unique index.
StartRunUnchecked(r) ==
    /\ pc[r] = "starting"
    /\ runStatus' = [runStatus EXCEPT ![r] = "RUNNING"]
    /\ stepStatus' = [stepStatus EXCEPT ![r] =
                        [o \in Ordinals |-> IF o = 0 THEN "RUNNING" ELSE "PENDING"]]
    /\ sourceStatus' = [sourceStatus EXCEPT ![src(r)] = "PROCESSING"]
    /\ loaded' = [loaded EXCEPT ![r] = "PROCESSING"]
    /\ Goto(r, "reading")
    /\ UNCHANGED <<segments, evidence, key, stage, extraction, staged, raised, answer>>

\* Mutant of StartRun: the run keeps the column default QUEUED.
StartRunQueued(r) ==
    /\ pc[r] = "starting"
    /\ Active(key[r]) = {}
    /\ runStatus' = [runStatus EXCEPT ![r] = "QUEUED"]
    /\ sourceStatus' = [sourceStatus EXCEPT ![src(r)] = "PROCESSING"]
    /\ Goto(r, "reading")
    /\ UNCHANGED <<segments, stepStatus, evidence, key, session, answer>>

\* The commit that inserts the run.  SQLAlchemy writes the source row only if
\* the status the session loaded differs from PROCESSING.
StartRun(r) ==
    /\ pc[r] = "starting"
    /\ Active(key[r]) = {}
    /\ runStatus' = [runStatus EXCEPT ![r] = "RUNNING"]
    /\ stepStatus' = [stepStatus EXCEPT ![r] =
                        [o \in Ordinals |-> IF o = 0 THEN "RUNNING" ELSE "PENDING"]]
    /\ sourceStatus' = IF loaded[r] = "PROCESSING" THEN sourceStatus
                       ELSE [sourceStatus EXCEPT ![src(r)] = "PROCESSING"]
    /\ loaded' = [loaded EXCEPT ![r] = "PROCESSING"]
    /\ Goto(r, "reading")
    /\ UNCHANGED <<segments, evidence, key, stage, extraction, staged, raised, answer>>

\* The partial unique index refuses the run: IntegrityError, rollback.
StartCompetes(r) ==
    /\ pc[r] = "starting"
    /\ Active(key[r]) # {}
    /\ Goto(r, "competing")
    /\ UNCHANGED <<database, key, session, answer>>

RereadCompeting(r) ==
    /\ pc[r] = "competing"
    /\ \/ Active(key[r]) = {} /\ Reply(r, "conflict", NoRun)
       \/ \E q \in Active(key[r]) :
            Reply(r, IF runStatus[q] = "SUCCEEDED" THEN "succeeded" ELSE "conflict", q)
    /\ UNCHANGED <<database, key, session>>

\* Any other database error up to here leaves nothing behind.
StartFails(r) ==
    /\ DbMayFail
    /\ pc[r] \in {"received", "checking", "starting", "competing"}
    /\ Reply(r, "error", NoRun)
    /\ UNCHANGED <<database, key, session>>

-----------------------------------------------------------------------------
(* The ingestion graph: parse -> extract -> verify, on in-memory artifacts. *)
(* Each node may raise an exception that _failed_step_for does not list.   *)

\* "other": the blob cannot be read, or a page of an open PDF.
ReadAndParse(r) ==
    /\ pc[r] = "reading"
    /\ \/ /\ parsed(r) # Unparseable
          /\ stage' = [stage EXCEPT ![r] = 1]
          /\ Goto(r, "extracting")
          /\ UNCHANGED raised
       \/ /\ parsed(r) = Unparseable
          /\ Raise(r, "invalid_source")
          /\ UNCHANGED stage
       \/ /\ Raise(r, "other")
          /\ UNCHANGED stage
    /\ UNCHANGED <<database, key, loaded, extraction, staged, answer>>

\* "other": no client can be made, or the result or its usage breaks its schema.
Extract(r) ==
    /\ pc[r] = "extracting"
    /\ \/ \E result \in Extractions :
            /\ extraction' = [extraction EXCEPT ![r] = result]
            /\ stage' = [stage EXCEPT ![r] = 2]
            /\ Goto(r, "verifying")
            /\ UNCHANGED raised
       \/ /\ Raise(r, "model") \/ Raise(r, "other")
          /\ UNCHANGED <<extraction, stage>>
    /\ UNCHANGED <<database, key, loaded, staged, answer>>

\* The node returns a report either way; the runner then fails closed on it,
\* and process_source refuses a source without segments.  "other": the blob is
\* read and the source parsed once more.
Verify(r) ==
    /\ pc[r] = "verifying"
    /\ \/ /\ stage' = [stage EXCEPT ![r] = 3]
          /\ \/ CitationsHold(r) /\ parsed(r) # {} /\ Goto(r, "persisting") /\ UNCHANGED raised
             \/ CitationsHold(r) /\ parsed(r) = {} /\ Raise(r, "invalid_source")
             \/ ~CitationsHold(r) /\ Raise(r, "citation")
       \/ Raise(r, "other") /\ UNCHANGED stage
    /\ UNCHANGED <<database, key, loaded, extraction, staged, answer>>

-----------------------------------------------------------------------------
(* The transaction that publishes the result. *)

QuerySegments(r) ==
    /\ pc[r] = "persisting"
    /\ LET existing == segments[src(r)]
       IN  \/ existing = {} /\ Goto(r, "flushing") /\ UNCHANGED raised
           \/ existing = parsed(r) /\ Goto(r, "citing") /\ UNCHANGED raised
           \/ existing \notin {{}, parsed(r)} /\ Raise(r, "invalid_source")
    /\ UNCHANGED <<database, key, loaded, stage, extraction, staged, answer>>

\* Mutant of FlushSegments: no unique constraint on (revision, ordinal).
FlushSegmentsUnchecked(r) ==
    /\ pc[r] = "flushing"
    /\ staged' = [staged EXCEPT ![r] = parsed(r)]
    /\ Goto(r, "citing")
    /\ UNCHANGED <<database, key, loaded, stage, extraction, raised, answer>>

\* INSERT waits for an open transaction that holds the same ordinals, and
\* violates uq_segments_revision_ordinal once such rows are committed.
FlushSegments(r) ==
    /\ pc[r] = "flushing"
    /\ ~LockedByOther(r)
    /\ \/ /\ segments[src(r)] = {}
          /\ staged' = [staged EXCEPT ![r] = parsed(r)]
          /\ Goto(r, "citing")
          /\ UNCHANGED raised
       \/ /\ segments[src(r)] # {}
          /\ Raise(r, "other")
          /\ UNCHANGED staged
    /\ UNCHANGED <<database, key, loaded, stage, extraction, answer>>

\* Mutant of PersistEvidence: the rows are committed as they are added.
PersistEvidenceEarly(r) ==
    /\ pc[r] = "citing"
    /\ evidence' = [evidence EXCEPT ![r] = extraction[r].drafts]
    /\ Goto(r, "committing")
    /\ UNCHANGED <<sourceStatus, segments, runStatus, stepStatus, key, session, answer>>

PersistEvidence(r) ==
    /\ pc[r] = "citing"
    /\ IF CitationsHold(r) THEN Goto(r, "committing") /\ UNCHANGED raised
                           ELSE Raise(r, "citation")
    /\ UNCHANGED <<database, key, loaded, stage, extraction, staged, answer>>

\* Mutant of CommitRun: the transaction is left open.
CommitRunOpen(r) ==
    /\ pc[r] = "committing"
    /\ segments' = [segments EXCEPT ![src(r)] = @ \cup staged[r]]
    /\ runStatus' = [runStatus EXCEPT ![r] = "SUCCEEDED"]
    /\ Goto(r, "reporting")
    /\ UNCHANGED <<sourceStatus, stepStatus, evidence, key, session, answer>>

CommitRun(r) ==
    /\ pc[r] = "committing"
    /\ segments' = [segments EXCEPT ![src(r)] = @ \cup staged[r]]
    /\ staged' = [staged EXCEPT ![r] = {}]
    /\ evidence' = [evidence EXCEPT ![r] = extraction[r].drafts]
    /\ runStatus' = [runStatus EXCEPT ![r] = "SUCCEEDED"]
    /\ stepStatus' = [stepStatus EXCEPT ![r] = [o \in Ordinals |-> "SUCCEEDED"]]
    /\ sourceStatus' = [sourceStatus EXCEPT ![src(r)] = "PROCESSED"]
    /\ Goto(r, "reporting")
    /\ UNCHANGED <<key, loaded, stage, extraction, raised, answer>>

\* _load_run after the commit, still inside the try block.
ReportRun(r) ==
    /\ pc[r] = "reporting"
    /\ Reply(r, "succeeded", r)
    /\ UNCHANGED <<database, key, session>>

\* A database error in the publishing transaction, or in the read after it.
PublishFails(r) ==
    /\ DbMayFail
    /\ pc[r] \in {"persisting", "flushing", "committing", "reporting"}
    /\ Raise(r, "other")
    /\ UNCHANGED <<database, key, loaded, stage, extraction, staged, answer>>

-----------------------------------------------------------------------------
(* The except clause, and the end of a request that never gets there. *)

Rollback(r) ==
    /\ pc[r] = "raised"
    /\ staged' = [staged EXCEPT ![r] = {}]
    /\ Goto(r, "reloading")
    /\ UNCHANGED <<database, key, loaded, stage, extraction, raised, answer>>

\* _load_run reads the run and its steps, which only r writes, and session.get the
\* source, in statements of a new transaction: here it is the committed status at
\* any moment after the rollback, which others may change before the mark.
ReloadSource(r) ==
    /\ pc[r] = "reloading"
    /\ loaded' = [loaded EXCEPT ![r] = sourceStatus[src(r)]]
    /\ Goto(r, "marking")
    /\ UNCHANGED <<database, key, stage, extraction, staged, raised, answer>>

\* Mutant of MarkRunFailed: every run of the source is marked, not this one.
MarkSourceFailed(r) ==
    /\ pc[r] = "marking"
    /\ runStatus' = [q \in Requests |-> IF src(q) = src(r) /\ runStatus[q] # "NONE"
                                        THEN "FAILED" ELSE runStatus[q]]
    /\ sourceStatus' = [sourceStatus EXCEPT ![src(r)] = "FAILED"]
    /\ Reply(r, "failed", r)
    /\ UNCHANGED <<segments, stepStatus, evidence, key, session>>

\* Mutant of MarkRunFailed: the source keeps its status.
MarkRunOnly(r) ==
    /\ pc[r] = "marking"
    /\ runStatus' = [runStatus EXCEPT ![r] = "FAILED"]
    /\ Reply(r, "failed", r)
    /\ UNCHANGED <<sourceStatus, segments, stepStatus, evidence, key, session>>

\* Mutant of MarkRunFailed: the failure is reported as a conflict.
MarkRunConflicting(r) ==
    /\ pc[r] = "marking"
    /\ runStatus' = [runStatus EXCEPT ![r] = "FAILED"]
    /\ sourceStatus' = [sourceStatus EXCEPT ![src(r)] = "FAILED"]
    /\ Reply(r, "conflict", r)
    /\ UNCHANGED <<segments, stepStatus, evidence, key, session>>

\* Mutant of MarkRunFailed: the changes are never committed.
MarkNothing(r) ==
    /\ pc[r] = "marking"
    /\ Reply(r, "failed", r)
    /\ UNCHANGED <<database, key, session>>

MarkRunFailed(r) ==
    LET failed == FailedOrdinal(raised[r])
    IN  /\ pc[r] = "marking"
        /\ runStatus' = [runStatus EXCEPT ![r] = "FAILED"]
        /\ stepStatus' = [stepStatus EXCEPT ![r] =
                            [o \in Ordinals |-> IF o < failed THEN "SUCCEEDED"
                                                ELSE IF o = failed THEN "FAILED" ELSE "SKIPPED"]]
        /\ sourceStatus' = IF loaded[r] = "FAILED" THEN sourceStatus
                           ELSE [sourceStatus EXCEPT ![src(r)] = "FAILED"]
        /\ Reply(r, "failed", r)
        /\ UNCHANGED <<segments, evidence, key, session>>

MarkFails(r) ==
    /\ DbMayFail
    /\ pc[r] \in {"reloading", "marking"}
    /\ Reply(r, "error", NoRun)
    /\ UNCHANGED <<database, key, session>>

\* The process dies, or a BaseException passes both except clauses; the
\* database aborts the open transaction.
Crash(r) ==
    /\ MayCrash
    /\ pc[r] \notin {"received", "answered", "crashed"}
    /\ staged' = [staged EXCEPT ![r] = {}]
    /\ Goto(r, "crashed")
    /\ UNCHANGED <<database, key, loaded, stage, extraction, raised, answer>>

-----------------------------------------------------------------------------
Step(r) ==
    \/ LoadSource(r) \/ CheckActive(r) \/ StartRun(r) \/ StartCompetes(r)
    \/ RereadCompeting(r) \/ ReadAndParse(r) \/ Extract(r) \/ Verify(r)
    \/ QuerySegments(r) \/ FlushSegments(r) \/ PersistEvidence(r) \/ CommitRun(r)
    \/ ReportRun(r) \/ Rollback(r) \/ ReloadSource(r) \/ MarkRunFailed(r)

Fault(r) == StartFails(r) \/ PublishFails(r) \/ MarkFails(r) \/ Crash(r)

AllDone ==
    /\ \A s \in Sources : sourceStatus[s] # "ABSENT"
    /\ \A r \in Requests : pc[r] \in {"answered", "crashed"}
    /\ UNCHANGED vars

Next ==
    \/ \E s \in Sources : UploadSource(s)
    \/ \E r \in Requests : Step(r) \/ Fault(r)
    \/ AllDone

Spec == Init /\ [][Next]_vars

\* Every request thread is scheduled until it is done: the handlers are sync
\* endpoints in a thread pool, and the model call is bounded by its client.
FairSpec == Spec /\ \A r \in Requests : WF_vars(Step(r))

-----------------------------------------------------------------------------
(* Properties. *)

\* The rows and the sessions have their types (db/models.py, domain/enums.py).
TypeOK ==
    /\ sourceStatus \in [Sources -> SourceStatus]
    /\ segments \in [Sources -> SUBSET Segments]
    /\ runStatus \in [Requests -> RunStatus]
    /\ stepStatus \in [Requests -> [Ordinals -> StepStatus]]
    /\ evidence \in [Requests -> SUBSET Drafts]
    /\ key \in [Requests -> Keys]
    /\ pc \in [Requests -> Locations]
    /\ loaded \in [Requests -> SourceStatus]
    /\ stage \in [Requests -> Stages]
    /\ extraction \in [Requests -> ExtractionResults]
    /\ staged \in [Requests -> SUBSET Segments]
    /\ raised \in [Requests -> Exceptions]
    /\ answer \in [Requests -> [kind : Answers, run : Requests \cup {NoRun}]]

\* However requests interleave, a source is ingested at most once under one
\* profile: two runs of a key never both publish evidence.
EvidenceOncePerKey ==
    \A q, r \in Requests :
        key[q] = key[r] /\ evidence[q] # {} /\ evidence[r] # {} => q = r

\* Processing fails closed: only a SUCCEEDED run has evidence rows, so a
\* rollback, a crash or a lost race leaves none behind.
FailClosed == \A r \in Requests : evidence[r] # {} => runStatus[r] = "SUCCEEDED"

\* Every evidence row quotes exactly a committed segment row of its source,
\* whichever run created that row.
CitationsResolve ==
    \A r \in Requests : \A d \in evidence[r] :
        d.segment \in segments[src(r)] /\ d.quote = "exact"

\* A source's status has a run that justifies it: PROCESSING a RUNNING one,
\* PROCESSED a SUCCEEDED one and FAILED a FAILED one, though it is written by
\* many sessions and from values they read earlier.
SourceStatusBacked ==
    \A s \in Sources :
        LET Has(status) == \E r \in Requests : src(r) = s /\ runStatus[r] = status
        IN  /\ sourceStatus[s] = "PROCESSING" => Has("RUNNING")
            /\ sourceStatus[s] = "PROCESSED" => Has("SUCCEEDED")
            /\ sourceStatus[s] = "FAILED" => Has("FAILED")

\* While only one profile is used, a source with a SUCCEEDED run is PROCESSED
\* for good: no late failure of an earlier run overwrites it.
ProcessedStands ==
    \A s \in Sources :
        ( /\ \A q, r \in Requests : src(q) = s /\ src(r) = s => key[q] = key[r]
          /\ \E r \in Requests : src(r) = s /\ runStatus[r] = "SUCCEEDED" )
        => sourceStatus[s] = "PROCESSED"

\* What clients were told remains true: the run of a 200 answer is SUCCEEDED
\* and of the client's own key, the run of a processing error is FAILED.
AnswersHold ==
    \A r \in Requests :
        /\ answer[r].kind = "succeeded" =>
             /\ answer[r].run \in Requests
             /\ runStatus[answer[r].run] = "SUCCEEDED"
             /\ key[answer[r].run] = key[r]
        /\ answer[r].kind = "failed" => runStatus[r] = "FAILED"

\* The steps of a run can be believed unless they put its failure on
\* verify_citations, the default of _failed_step_for: a SUCCEEDED step returned,
\* a FAILED extract_evidence did not return but parse_source did, and a FAILED
\* parse_source did not, or its result was refused: it is empty, or other than
\* the segments a run has stored, which it will always be.
EarlyFailuresAreLocated ==
    \A r \in Requests : stepStatus[r][2] # "FAILED" =>
        /\ \A o \in Ordinals : stepStatus[r][o] = "SUCCEEDED" => stage[r] > o
        /\ stepStatus[r][1] = "FAILED" => stage[r] = 1
        /\ stepStatus[r][0] = "FAILED" =>
             stage[r] = 0 \/ parsed(r) = {} \/ segments[src(r)] \notin {{}, parsed(r)}

\* What the record claims of every run (completed_before_failure of
\* _mark_run_failed): a step recorded SUCCEEDED returned.
SucceededStepsRan ==
    \A r \in Requests, o \in Ordinals :
        stepStatus[r][o] = "SUCCEEDED" => stage[r] > o

\* A run that is over keeps its status, its steps and its evidence.
FinishedRunsAreFinal ==
    [][\A r \in Requests :
         runStatus[r] \in {"SUCCEEDED", "FAILED"} =>
           UNCHANGED <<runStatus[r], stepStatus[r], evidence[r]>>]_vars

\* Segment rows are immutable: once a source has some, no run adds, drops or
\* replaces any, whatever its parser yields.
SegmentsAreImmutable ==
    [][\A s \in Sources : segments[s] # {} => segments'[s] = segments[s]]_vars

\* The partial unique index at work, whatever fails: of the runs of one key at
\* most one is RUNNING or SUCCEEDED.
OneActiveRunPerKey == \A k \in Keys : \A q, r \in Active(k) : q = r

\* Identical requests never all turn each other away: one of them is not
\* answered 409.
SomeRequestIsServed ==
    \A k \in Keys :
        LET Asking == {r \in Requests : key[r] = k}
        IN  Asking # {} => \E r \in Asking : answer[r].kind # "conflict"

\* Every request that arrives is answered unless it dies, in particular one
\* that waits in its INSERT for another's transaction, which may die too.
RequestsAreAnswered ==
    \A r \in Requests : pc[r] = "checking" ~> pc[r] \in {"answered", "crashed"}

\* A run that started finishes, or the request that executes it dies.
RunsFinish ==
    \A r \in Requests : runStatus[r] = "RUNNING" ~> runStatus[r] # "RUNNING" \/ pc[r] = "crashed"

\* Even if its process dies a run is taken up or closed at some time, so its
\* key can be processed again.
RunsAreRecovered == \A r \in Requests : runStatus[r] = "RUNNING" ~> runStatus[r] # "RUNNING"

=============================================================================
