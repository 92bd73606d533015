------------------------------ MODULE SeedScript ------------------------------
(***************************************************************************)
(* scripts/seed-helphub.ps1, run again and again against the HTTP API, and *)
(* what the API commits for it.                                            *)
(*                                                                         *)
(* A start of the script reads its state file, finds or creates the study, *)
(* uploads and processes two fixtures, and saves the state after each step *)
(* that the API has answered.  It may end at any point: killed, or with an *)
(* exception when a call fails or takes more than 60 seconds.  The API     *)
(* goes on with a call whose client is gone, unless it stops as well.      *)
(*                                                                         *)
(* Calls that only read are answered at once.  process_source is taken to  *)
(* its three commits here: the run, its result, its failure;               *)
(* SourceProcessing has the rest.  The reader of ReadQueries goes through  *)
(* the lists meanwhile.                                                    *)
(***************************************************************************)
EXTENDS ReadQueries

CONSTANTS
    Fixtures,       \* the number of fixture files, taken in order
    StudiesLimit,   \* the studies the script asks for when it looks for its own
    FailedAfter,    \* the steps a run that fails may have done (a subset for TLC)
    Bounds          \* what a behaviour may have (for TLC): starts of the script, stops of the
                    \* API, studies of other clients, and whether somebody reads the lists

Title == "HelpHub Support Workflow Discovery"

ASSUME SeedAssumption ==
    /\ Fixtures \in Nat \ {0} /\ StudiesLimit \in Nat \ {0}
    /\ FailedAfter \subseteq 0 .. (Steps - 1)
    /\ Bounds \subseteq [starts : Nat, stops : Nat, others : Nat, reads : BOOLEAN]

VARIABLES
    file,           \* what the state file says
    state,          \* $State
    force,          \* -ForceNew
    pc,             \* where the script is
    after,          \* where it goes on after Save-SeedState
    fixture,        \* the fixture it is at
    calls,          \* the calls being served, each by the start that made it
    starts,
    stops,          \* stops of the API
    lost,           \* uploads of a fixture whose answer never reached the file
    ready,          \* the study last reported ready, and how it came to be
    bounds          \* the bounds of this behaviour

script == <<file, state, force, pc, after, fixture>>
vars == <<tables, reader, script, calls, starts, stops, lost, ready, bounds>>

FixtureIds == 1 .. Fixtures

\* $State: the study (0: $null), the source of each fixture (0: none) and the fixtures
\* processed.  A file that is missing, damaged or of another API says nothing either.
NewState(study) == [study |-> study, source |-> [f \in FixtureIds |-> 0], processed |-> {}]
Nothing == NewState(0)

Init ==
    /\ studies = << >> /\ sources = << >> /\ runs = << >> /\ evidence = << >>
    /\ ReadInit
    /\ file = Nothing /\ state = Nothing /\ force = FALSE
    /\ pc = "off" /\ after = "off" /\ fixture = 1
    /\ calls = {}
    /\ starts = 0 /\ stops = 0
    /\ lost = [f \in FixtureIds |-> 0]
    /\ ready = [study |-> 0, how |-> "never"]
    /\ bounds \in Bounds

Unserved == UNCHANGED <<tables, reader, calls, starts, stops, lost>>

-----------------------------------------------------------------------------
(* The script. *)

Waiting == pc \in {"creating", "uploading", "processing"}

\* The process has ended.
Gone == pc' = "off" /\ state' = Nothing /\ force' = FALSE /\ after' = "off" /\ fixture' = 1

\* An exception, Ctrl-C or the end of the process: what is not in the file is lost,
\* and a file that is being written may be left damaged.
Die ==
    /\ pc # "off"
    /\ Gone
    /\ file' \in IF pc = "saving" THEN {file, Nothing} ELSE {file}
    /\ lost' = IF pc = "uploading" \/ (pc = "saving" /\ after = "process")
               THEN [lost EXCEPT ![fixture] = @ + 1] ELSE lost
    /\ calls' = {call \in calls : call.phase \in {"sent", "running"}}
    /\ UNCHANGED <<tables, reader, starts, stops, ready>>

Start(forced) ==
    /\ pc = "off" /\ starts < bounds.starts
    /\ starts' = starts + 1
    /\ force' = forced
    /\ state' = IF forced THEN Nothing ELSE file
    /\ pc' = IF state' # Nothing THEN "resume" ELSE IF forced THEN "create" ELSE "discover"
    /\ UNCHANGED <<tables, reader, calls, stops, lost, file, after, fixture, ready>>

\* The study of the file answers, or the call fails and the state is dropped.
Resume ==
    /\ pc = "resume"
    /\ \/ pc' = "fixtures" /\ UNCHANGED state
       \/ pc' = "discover" /\ state' = Nothing
    /\ UNCHANGED <<file, force, after, fixture, ready>> /\ Unserved

SourcesOf(study)  == {row \in ToSet(sources) : row.study = study}
EvidenceOf(study) == {row \in ToSet(evidence) : row.study = study}

\* The newest study of the script's title, if it is among the newest ones.
Found ==
    LET own == {i \in DOMAIN studies : studies[i].title = Title /\ i + StudiesLimit > Len(studies)}
    IN  {studies[i].id : i \in {i \in own : \A j \in own : j <= i}}

Adopt(study) ==
    /\ state' = NewState(study) /\ pc' = "saving" /\ after' = "fixtures"
    /\ UNCHANGED <<force, fixture, ready>>

CreateNext == pc' = "create" /\ UNCHANGED <<state, force, after, fixture, ready>>

\* Mutant of Discover: a study that has sources is taken over like an empty one.
DiscoverAny ==
    /\ pc = "discover"
    /\ \/ Found = {} /\ CreateNext
       \/ \E study \in Found : Adopt(study)
    /\ UNCHANGED file /\ Unserved

Discover ==
    /\ pc = "discover"
    /\ \/ Found = {} /\ CreateNext
       \/ \E study \in Found :
            IF Cardinality(SourcesOf(study)) >= Fixtures /\ EvidenceOf(study) # {}
            THEN Gone /\ ready' = [study |-> study, how |-> "found"]
            ELSE IF SourcesOf(study) # {} THEN Gone /\ UNCHANGED ready
            ELSE Adopt(study)
    /\ UNCHANGED file /\ Unserved

Send(at, op) ==
    /\ calls' = calls \cup {[by |-> starts, op |-> op, phase |-> "sent", answer |-> 0, run |-> 0,
                             fixture |-> fixture, source |-> state.source[fixture], study |-> state.study,
                             title |-> IF force THEN "forced" ELSE Title]}
    /\ pc' = at
    /\ UNCHANGED <<tables, reader, starts, stops, lost, file, state, force, after, fixture, ready>>

CreateStudy == pc = "create" /\ Send("creating", "create")

Upload ==
    /\ pc = "fixtures" /\ fixture <= Fixtures /\ state.source[fixture] = 0
    /\ Send("uploading", "upload")

Process ==
    /\ \/ pc = "fixtures" /\ fixture <= Fixtures /\ state.source[fixture] # 0
       \/ pc = "process"
    /\ fixture \notin state.processed
    /\ Send("processing", "process")

SkipFixture ==
    /\ pc = "fixtures" /\ fixture <= Fixtures
    /\ state.source[fixture] # 0 /\ fixture \in state.processed
    /\ fixture' = fixture + 1
    /\ UNCHANGED <<file, state, force, pc, after, ready>> /\ Unserved

\* The answer the script waits for; what it tells goes into the state, and that to the file.
Answered(call, at, next) ==
    /\ pc = at /\ call.by = starts
    /\ calls' = calls \ {call}
    /\ pc' = "saving" /\ after' = next
    /\ UNCHANGED <<tables, reader, starts, stops, lost, file, force, fixture, ready>>

StudyCreated(call) ==
    /\ Answered(call, "creating", "fixtures") /\ call.phase = "done"
    /\ state' = NewState(call.answer)

Uploaded(call) ==
    /\ Answered(call, "uploading", "process") /\ call.phase = "done"
    /\ state' = [state EXCEPT !.source[fixture] = call.answer]

\* Mutant of Processed: a run that is still going on counts as well.
ProcessedAnyhow(call) ==
    /\ Answered(call, "processing", "fixtures") /\ call.phase \in {"done", "conflict"}
    /\ state' = [state EXCEPT !.processed = @ \cup {fixture}]

Processed(call) ==
    /\ Answered(call, "processing", "fixtures") /\ call.phase = "done"
    /\ state' = [state EXCEPT !.processed = @ \cup {fixture}]

Save ==
    /\ pc = "saving"
    /\ file' = state
    /\ pc' = after
    /\ UNCHANGED <<state, force, after, fixture, ready>> /\ Unserved

Summarize ==
    /\ pc = "fixtures" /\ fixture > Fixtures
    /\ ready' = [study |-> state.study, how |-> "seeded"]
    /\ Gone
    /\ UNCHANGED file /\ Unserved

Script ==
    \/ Resume \/ Discover \/ CreateStudy \/ Upload \/ Process \/ SkipFixture
    \/ \E call \in calls : StudyCreated(call) \/ Uploaded(call) \/ Processed(call)
    \/ Save \/ Summarize

-----------------------------------------------------------------------------
(* The API. *)

\* The answer reaches the script if it still waits.
Reply(call, phase, answer) ==
    calls' = (calls \ {call}) \cup
        (IF call.by = starts /\ Waiting
         THEN {[call EXCEPT !.phase = phase, !.answer = answer]} ELSE {})

Elsewhere == UNCHANGED <<reader, script, starts, stops, lost, ready>>

ServeCreate(call) ==
    /\ call.op = "create" /\ call.phase = "sent"
    /\ studies' \in Insertions(studies, [id |-> NewId(studies), title |-> call.title])
    /\ Reply(call, "done", NewId(studies))
    /\ UNCHANGED <<sources, runs, evidence>> /\ Elsewhere

ServeUpload(call) ==
    /\ call.op = "upload" /\ call.phase = "sent"
    /\ sources' \in Insertions(sources, [id |-> NewId(sources), study |-> call.study,
                                         fixture |-> call.fixture, status |-> "UPLOADED"])
    /\ Reply(call, "done", NewId(sources))
    /\ UNCHANGED <<studies, runs, evidence>> /\ Elsewhere

RunsOf(source, status) == {run \in ToSet(runs) : run.source = source /\ run.status = status}

\* A run that succeeded is the answer, one that goes on is a conflict; else one begins.
ServeProcess(call) ==
    /\ call.op = "process" /\ call.phase = "sent"
    /\ LET source == RowOf(sources, call.source)
       IN  IF RunsOf(source.id, "SUCCEEDED") # {}
           THEN Reply(call, "done", 0) /\ UNCHANGED tables
           ELSE IF RunsOf(source.id, "RUNNING") # {}
           THEN Reply(call, "conflict", 0) /\ UNCHANGED tables
           ELSE /\ runs' \in Insertions(runs, [id |-> NewId(runs), study |-> source.study,
                        source |-> source.id, status |-> "RUNNING", steps |-> 0])
                /\ sources' = Updated(sources, source.id, [source EXCEPT !.status = "PROCESSING"])
                /\ calls' = (calls \ {call}) \cup {[call EXCEPT !.phase = "running", !.run = NewId(runs)]}
                /\ UNCHANGED <<studies, evidence>>
    /\ Elsewhere

Publish(call) ==
    /\ call.phase = "running"
    /\ LET source == RowOf(sources, call.source)
           run    == RowOf(runs, call.run)
       IN  /\ runs' = Updated(runs, run.id, [run EXCEPT !.status = "SUCCEEDED", !.steps = Steps])
           /\ sources' = Updated(sources, source.id, [source EXCEPT !.status = "PROCESSED"])
           /\ evidence' \in Insertions(evidence, [id |-> NewId(evidence), study |-> source.study,
                                                  source |-> source.id])
           /\ Reply(call, "done", 0)
    /\ UNCHANGED studies /\ Elsewhere

\* Any step may fail; those before it are marked as done.
FailRun(call) ==
    /\ call.phase = "running"
    /\ LET source == RowOf(sources, call.source)
           run    == RowOf(runs, call.run)
       IN  \E done \in FailedAfter :
            /\ runs' = Updated(runs, run.id, [run EXCEPT !.status = "FAILED", !.steps = done])
            /\ sources' = Updated(sources, source.id, [source EXCEPT !.status = "FAILED"])
    /\ Reply(call, "error", 0)
    /\ UNCHANGED <<studies, evidence>> /\ Elsewhere

\* The API stops and starts again: what it was serving is gone.
ApiStops ==
    /\ stops < bounds.stops /\ calls # {}
    /\ stops' = stops + 1
    /\ calls' = {[call EXCEPT !.phase = "error"] : call \in {c \in calls : c.by = starts /\ Waiting}}
    /\ UNCHANGED <<tables, reader, script, starts, lost, ready>>

OtherStudy ==
    /\ Cardinality({row \in ToSet(studies) : row.title = "other"}) < bounds.others
    /\ studies' \in Insertions(studies, [id |-> NewId(studies), title |-> "other"])
    /\ UNCHANGED <<sources, runs, evidence, calls>> /\ Elsewhere

Api ==
    \/ \E call \in calls : \/ ServeCreate(call) \/ ServeUpload(call) \/ ServeProcess(call)
                           \/ Publish(call) \/ FailRun(call)
    \/ ApiStops \/ OtherStudy

Reading == bounds.reads /\ Read /\ UNCHANGED <<tables, script, calls, starts, stops, lost, ready>>

Next ==
    /\ \/ Script \/ Die \/ Api \/ Reading
       \/ \E forced \in BOOLEAN : Start(forced)
    /\ UNCHANGED bounds

Spec == Init /\ [][Next]_vars

-----------------------------------------------------------------------------
(* Properties. *)

\* However often the script is started and however it ends, a study of its has a
\* fixture more than once only if an upload of that fixture was cut off: its answer
\* never got into the state file.  A damaged file is no reason to upload again.
\* Starts come one after another here: two at a time would each upload what the
\* other has not recorded yet.
DuplicatesAreInterruptions ==
    \A study \in Ids(studies), f \in FixtureIds :
        Cardinality({row \in SourcesOf(study) : row.fixture = f}) <= 1 + lost[f]

\* When the script reports a study it has seeded as ready, every fixture of it has
\* been processed and its evidence is there.
ReadyMeansProcessed ==
    ready.how = "seeded" =>
        \A f \in FixtureIds : \E row \in SourcesOf(ready.study) :
            /\ row.fixture = f /\ row.status = "PROCESSED"
            /\ \E e \in EvidenceOf(ready.study) : e.source = row.id
=============================================================================
