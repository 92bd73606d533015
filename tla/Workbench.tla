------------------------------ MODULE Workbench ------------------------------
(***************************************************************************)
(* The React state of the web workbench                                    *)
(* (apps/web/components/discovery-workbench.tsx) and its requests to the   *)
(* API, which are answered in any order, fail or time out.                 *)
(*                                                                         *)
(* A step is a handler or the code between two awaits: JavaScript runs it  *)
(* to its end, and React renders before the next event.  What a handler    *)
(* read before an await (the mode, the selected study) it keeps.           *)
(*                                                                         *)
(* A load takes a number from its counter (evidenceRequestRef,             *)
(* contextRequestRef, studyDataRequestRef), and its answer counts if the   *)
(* counter still shows that number.  A pending request therefore carries   *)
(* `current', which every increment of its counter clears; requests that   *)
(* are equal in everything are one element.                                *)
(***************************************************************************)
EXTENDS Naturals, Sequences, FiniteSets

CONSTANTS
    Studies,        \* the studies the API may have
    DemoStudies,    \* the built-in sample studies
    DemoStudy,      \* the one shown first, the only one with evidence
    Evidence,       \* the evidence items of the API
    DemoItem,       \* the sample evidence
    StudyOf,        \* the study of an evidence item
    EvidenceLists,  \* the lists the API may return for a study
    Uploads,        \* the files that may be under way at a time (a bound for TLC)
    MaxPending,     \* the user waits while as many loads are pending (a bound for TLC)
    None            \* the empty id, the null value, and a slot without a file

ASSUME StudyAssumption ==
    DemoStudy \in DemoStudies /\ DemoStudies \cap Studies = {} /\ None \notin Studies \cup DemoStudies
ASSUME EvidenceAssumption ==
    /\ StudyOf \in [Evidence -> Studies]
    /\ None \notin Evidence \cup {DemoItem} /\ DemoItem \notin Evidence
    /\ EvidenceLists \in [Studies -> SUBSET Seq(Evidence)]
    /\ \A s \in Studies : \A list \in EvidenceLists[s] :
         \A i \in 1..Len(list) : StudyOf[list[i]] = s

VARIABLES
    existing,           \* the studies in the database, newest first
    mode,               \* "loading" while getStudies is pending
    asked,              \* how many there were when the pending getStudies was sent
    studies,
    selectedStudyId,
    liveEvidence,       \* its items and the study they were loaded for
    selectedEvidenceId,
    evidenceLoading, evidenceError, evidenceRequests,
    liveContext, contextError,      \* the items they are about
    contextLoading, contextRequests,
    liveSources, liveRuns,          \* the studies their entries are of
    studyDataLoading, sourcesError, runsError, studyDataRequests,
    creatingStudy,
    uploads,            \* the study and the pending call of each file
    stray               \* history: the loads last asked for another study than the selected

evidenceView == <<liveEvidence, selectedEvidenceId, evidenceLoading, evidenceError, evidenceRequests>>
contextView  == <<liveContext, contextError, contextLoading, contextRequests>>
sourcesView  == <<liveSources, liveRuns, studyDataLoading, sourcesError, runsError, studyDataRequests>>
connection   == <<mode, asked, studies, selectedStudyId>>
vars == <<existing, connection, evidenceView, contextView, sourcesView, creatingStudy, uploads, stray>>

InDatabase == {existing[i] : i \in DOMAIN existing}
Requests(subjects) == [about : subjects, current : BOOLEAN]
NoEvidence == [of |-> None, items |-> << >>]

Init ==
    /\ existing = << >> /\ asked = 0
    /\ mode = "loading" /\ studies = {} /\ selectedStudyId = None
    /\ liveEvidence = NoEvidence /\ selectedEvidenceId = None
    /\ evidenceLoading = FALSE /\ evidenceError = FALSE /\ evidenceRequests = {}
    /\ liveContext = None /\ contextError = None
    /\ contextLoading = FALSE /\ contextRequests = {}
    /\ liveSources = {} /\ liveRuns = {}
    /\ studyDataLoading = FALSE /\ sourcesError = FALSE /\ runsError = FALSE
    /\ studyDataRequests = {}
    /\ creatingStudy = FALSE
    /\ uploads = [u \in Uploads |-> None]
    /\ stray = {}

-----------------------------------------------------------------------------
(* What is rendered. *)

shownEvidence ==
    IF mode # "demo" THEN liveEvidence.items
    ELSE IF selectedStudyId = DemoStudy THEN <<DemoItem>> ELSE << >>
Shown == {shownEvidence[i] : i \in 1..Len(shownEvidence)}

\* activeEvidenceId
Active ==
    IF selectedEvidenceId \in Shown THEN selectedEvidenceId
    ELSE IF shownEvidence = << >> THEN None ELSE Head(shownEvidence)

StudyShown == mode = "live" /\ selectedStudyId # None

Pending ==
    Cardinality(evidenceRequests) + Cardinality(contextRequests) + Cardinality(studyDataRequests)

-----------------------------------------------------------------------------
(* Parts of handlers. *)

\* Incrementing a counter, and taking a number from it for a new request.
Superseded(requests) == {[r EXCEPT !.current = FALSE] : r \in requests}
Issued(requests, x) == Superseded(requests) \cup {[about |-> x, current |-> TRUE]}

StrayAfter(kinds, study, selected) ==
    IF study = selected THEN stray \ kinds ELSE stray \cup kinds

LoadContext(item) ==
    /\ contextRequests' = Issued(contextRequests, item)
    /\ contextLoading' = TRUE
    /\ contextError' = None /\ liveContext' = None

LoadEvidence(study) ==
    /\ evidenceRequests' = Issued(evidenceRequests, study)
    /\ evidenceLoading' = TRUE
    /\ evidenceError' = FALSE

LoadStudyData(study) ==
    /\ studyDataRequests' = Issued(studyDataRequests, study)
    /\ studyDataLoading' = TRUE
    /\ sourcesError' = FALSE /\ runsError' = FALSE

\* selectStudy in a handler that was created under mode m.
Select(study, m) ==
    /\ selectedStudyId' = study
    /\ selectedEvidenceId' = None
    /\ IF m # "live"
       THEN UNCHANGED <<liveEvidence, evidenceLoading, evidenceError, evidenceRequests,
                        contextView, sourcesView, stray>>
       ELSE /\ contextRequests' = Superseded(contextRequests)
            /\ liveContext' = None /\ contextLoading' = FALSE
            /\ liveEvidence' = NoEvidence
            /\ liveSources' = {} /\ liveRuns' = {}
            /\ LoadEvidence(study) /\ LoadStudyData(study)
            /\ stray' = {}
            /\ UNCHANGED contextError

-----------------------------------------------------------------------------
(* Connecting. *)

Connect ==
    /\ mode # "loading"
    /\ mode' = "loading" /\ asked' = Len(existing)
    /\ UNCHANGED <<existing, studies, selectedStudyId, evidenceView, contextView, sourcesView,
                   creatingStudy, uploads, stray>>

\* Mutant of ConnectAnswered: what was selected stays selected.
ConnectAnsweredKeeping ==
    /\ mode = "loading"
    /\ mode' = "live" /\ asked' = 0
    /\ liveSources' = {} /\ liveRuns' = {}
    /\ \E n \in 1..(Len(existing) - asked + 1) :
         /\ studies' = {existing[i] : i \in n..Len(existing)}
         /\ \/ /\ n > Len(existing)
               /\ selectedStudyId' = None
               /\ UNCHANGED <<evidenceLoading, evidenceError, evidenceRequests, studyDataLoading,
                              sourcesError, runsError, studyDataRequests>>
            \/ /\ n <= Len(existing)
               /\ selectedStudyId' = IF selectedStudyId = None THEN existing[n] ELSE selectedStudyId
               /\ LoadEvidence(existing[n]) /\ LoadStudyData(existing[n])
    /\ UNCHANGED <<existing, liveEvidence, selectedEvidenceId, contextView, creatingStudy, uploads,
                   stray>>

\* getStudies answers with the studies of some moment since it was sent, newest
\* first; the first one is selected.
ConnectAnswered ==
    /\ mode = "loading"
    /\ mode' = "live" /\ asked' = 0
    /\ liveSources' = {} /\ liveRuns' = {}
    /\ \E n \in 1..(Len(existing) - asked + 1) :
         /\ studies' = {existing[i] : i \in n..Len(existing)}
         /\ \/ /\ n > Len(existing)
               /\ selectedStudyId' = None
               /\ UNCHANGED <<evidenceLoading, evidenceError, evidenceRequests, studyDataLoading,
                              sourcesError, runsError, studyDataRequests, stray>>
            \/ /\ n <= Len(existing)
               /\ selectedStudyId' = existing[n]
               /\ LoadEvidence(existing[n]) /\ LoadStudyData(existing[n])
               /\ stray' = {}
    /\ UNCHANGED <<existing, liveEvidence, selectedEvidenceId, contextView, creatingStudy, uploads>>

ConnectFails ==
    /\ mode = "loading"
    /\ mode' = "demo" /\ asked' = 0
    /\ evidenceRequests' = Superseded(evidenceRequests)
    /\ contextRequests' = Superseded(contextRequests)
    /\ studies' = DemoStudies /\ selectedStudyId' = DemoStudy
    /\ selectedEvidenceId' = None
    /\ liveRuns' = {}
    /\ UNCHANGED <<existing, liveEvidence, evidenceLoading, evidenceError,
                   liveContext, contextError, contextLoading, liveSources, studyDataLoading,
                   sourcesError, runsError, studyDataRequests, creatingStudy, uploads, stray>>

\* Another client of the API, or a createStudy whose answer was lost.
StudyAppears ==
    /\ \E s \in Studies \ InDatabase : existing' = <<s>> \o existing
    /\ UNCHANGED <<connection, evidenceView, contextView, sourcesView, creatingStudy, uploads, stray>>

-----------------------------------------------------------------------------
(* The user's events. *)

SelectStudy ==
    /\ mode # "loading"
    /\ \E s \in studies : Select(s, mode)
    /\ UNCHANGED <<existing, mode, asked, studies, creatingStudy, uploads>>

SelectEvidence ==
    /\ mode # "loading"
    /\ \E item \in Shown :
         /\ selectedEvidenceId' = item
         /\ IF mode = "live" THEN LoadContext(item) ELSE UNCHANGED contextView
    /\ UNCHANGED <<existing, connection, liveEvidence, evidenceLoading, evidenceError,
                   evidenceRequests, sourcesView, creatingStudy, uploads, stray>>

ReloadContext ==
    /\ mode = "live" /\ Active # None
    /\ LoadContext(Active)
    /\ UNCHANGED <<existing, connection, evidenceView, sourcesView, creatingStudy, uploads, stray>>

RefreshEvidence ==
    /\ StudyShown
    /\ LoadEvidence(selectedStudyId)
    /\ stray' = stray \ {"evidence"}
    /\ UNCHANGED <<existing, connection, liveEvidence, selectedEvidenceId, contextView, sourcesView,
                   creatingStudy, uploads>>

RefreshStudyData ==
    /\ StudyShown
    /\ LoadStudyData(selectedStudyId)
    /\ stray' = stray \ {"sources"}
    /\ UNCHANGED <<existing, connection, evidenceView, contextView, liveSources, liveRuns,
                   creatingStudy, uploads>>

\* The retry beside the runs asks for the study of the evidence on display.
RetryRuns ==
    /\ mode = "live" /\ Active # None
    /\ runsError /\ ~studyDataLoading
    /\ LoadStudyData(StudyOf[Active])
    /\ stray' = StrayAfter({"sources"}, StudyOf[Active], selectedStudyId)
    /\ UNCHANGED <<existing, connection, evidenceView, contextView, liveSources, liveRuns,
                   creatingStudy, uploads>>

CreateStudy ==
    /\ mode = "live" /\ ~creatingStudy
    /\ creatingStudy' = TRUE
    /\ UNCHANGED <<existing, connection, evidenceView, contextView, sourcesView, uploads, stray>>

\* The handler was created in live mode, whatever the mode is by now.
CreateStudyAnswered ==
    /\ creatingStudy
    /\ \E s \in Studies \ InDatabase :
         /\ existing' = <<s>> \o existing
         /\ studies' = studies \cup {s}
         /\ Select(s, "live")
    /\ creatingStudy' = FALSE
    /\ UNCHANGED <<mode, asked, uploads>>

CreateStudyFails ==
    /\ creatingStudy
    /\ creatingStudy' = FALSE
    /\ UNCHANGED <<existing, connection, evidenceView, contextView, sourcesView, uploads, stray>>

-----------------------------------------------------------------------------
(* handleFile: its rows of the source list are those of its study. *)

\* Mutant: without the test of selectedStudy.
StartUploadAnyway(u) ==
    /\ mode = "live"
    /\ uploads[u] = None
    /\ uploads' = [uploads EXCEPT ![u] = [study |-> selectedStudyId, call |-> "uploadSource"]]
    /\ liveSources' = liveSources \cup {selectedStudyId}
    /\ UNCHANGED <<existing, connection, evidenceView, contextView, liveRuns, studyDataLoading,
                   sourcesError, runsError, studyDataRequests, creatingStudy, stray>>

StartUpload(u) ==
    /\ StudyShown
    /\ uploads[u] = None
    /\ uploads' = [uploads EXCEPT ![u] = [study |-> selectedStudyId, call |-> "uploadSource"]]
    /\ liveSources' = liveSources \cup {selectedStudyId}
    /\ UNCHANGED <<existing, connection, evidenceView, contextView, liveRuns, studyDataLoading,
                   sourcesError, runsError, studyDataRequests, creatingStudy, stray>>

UploadAnswered(u) ==
    /\ uploads[u] # None /\ uploads[u].call = "uploadSource"
    /\ uploads' = [uploads EXCEPT ![u].call = "processSource"]
    /\ UNCHANGED <<existing, connection, evidenceView, contextView, sourcesView, creatingStudy, stray>>

ProcessAnswered(u) ==
    /\ uploads[u] # None /\ uploads[u].call = "processSource"
    /\ liveRuns' = liveRuns \cup {uploads[u].study}
    /\ LoadEvidence(uploads[u].study) /\ LoadStudyData(uploads[u].study)
    /\ stray' = StrayAfter({"evidence", "sources"}, uploads[u].study, selectedStudyId)
    /\ uploads' = [uploads EXCEPT ![u] = None]
    /\ UNCHANGED <<existing, connection, liveEvidence, selectedEvidenceId, contextView, liveSources,
                   creatingStudy>>

\* Either call fails: only the sources and runs are loaded again.
UploadFails(u) ==
    /\ uploads[u] # None
    /\ LoadStudyData(uploads[u].study)
    /\ stray' = StrayAfter({"sources"}, uploads[u].study, selectedStudyId)
    /\ uploads' = [uploads EXCEPT ![u] = None]
    /\ UNCHANGED <<existing, connection, evidenceView, contextView, liveSources, liveRuns, creatingStudy>>

-----------------------------------------------------------------------------
(* Answers to loads.  One that is no longer current changes nothing, and   *)
(* neither does its failure: the two are one step.                         *)

ShowEvidence(study) ==
    /\ \E items \in EvidenceLists[study] :
         /\ liveEvidence' = [of |-> study, items |-> items]
         /\ \/ /\ items # << >>
               /\ selectedEvidenceId' = Head(items)
               /\ LoadContext(Head(items))
            \/ /\ items = << >>
               /\ selectedEvidenceId' = None
               /\ contextRequests' = Superseded(contextRequests)
               /\ liveContext' = None /\ contextLoading' = FALSE
               /\ UNCHANGED contextError
    /\ evidenceLoading' = FALSE

\* Mutant: without the check of evidenceRequestRef.
EvidenceAnsweredLate(r) ==
    /\ evidenceRequests' = evidenceRequests \ {r}
    /\ ShowEvidence(r.about)
    /\ UNCHANGED <<existing, connection, evidenceError, sourcesView, creatingStudy, uploads, stray>>

EvidenceAnswered(r) ==
    /\ evidenceRequests' = evidenceRequests \ {r}
    /\ IF r.current
       THEN ShowEvidence(r.about)
       ELSE UNCHANGED <<liveEvidence, selectedEvidenceId, evidenceLoading, contextView>>
    /\ UNCHANGED <<existing, connection, evidenceError, sourcesView, creatingStudy, uploads, stray>>

\* Mutant: without the finally clause.
EvidenceFailsLoading(r) ==
    /\ r.current
    /\ evidenceRequests' = evidenceRequests \ {r}
    /\ liveEvidence' = NoEvidence /\ selectedEvidenceId' = None
    /\ liveContext' = None
    /\ evidenceError' = TRUE
    /\ UNCHANGED <<existing, connection, evidenceLoading, contextError, contextLoading,
                   contextRequests, sourcesView, creatingStudy, uploads, stray>>

EvidenceFails(r) ==
    /\ r.current
    /\ evidenceRequests' = evidenceRequests \ {r}
    /\ liveEvidence' = NoEvidence /\ selectedEvidenceId' = None
    /\ liveContext' = None
    /\ evidenceError' = TRUE /\ evidenceLoading' = FALSE
    /\ UNCHANGED <<existing, connection, contextError, contextLoading, contextRequests, sourcesView,
                   creatingStudy, uploads, stray>>

\* Mutant: without the checks of contextRequestRef.
ContextEndsLate(r, context, error) ==
    /\ contextRequests' = contextRequests \ {r}
    /\ liveContext' = context /\ contextError' = error
    /\ contextLoading' = FALSE
    /\ UNCHANGED <<existing, connection, evidenceView, sourcesView, creatingStudy, uploads, stray>>

\* A context of another revision than the item's is a failure.
ContextEnds(r, context, error) ==
    /\ contextRequests' = contextRequests \ {r}
    /\ IF r.current
       THEN /\ liveContext' = context /\ contextError' = error
            /\ contextLoading' = FALSE
       ELSE UNCHANGED <<liveContext, contextError, contextLoading>>
    /\ UNCHANGED <<existing, connection, evidenceView, sourcesView, creatingStudy, uploads, stray>>

ContextAnswered(r) == ContextEnds(r, r.about, contextError)
ContextFails(r) == ContextEnds(r, liveContext, r.about)

\* The two calls settle together; each may have failed.
ShowStudyData(study) ==
    /\ \E sourcesFail, runsFail \in BOOLEAN :
         /\ liveSources' = IF sourcesFail THEN {} ELSE {study}
         /\ sourcesError' = (sourcesError \/ sourcesFail)
         /\ liveRuns' = IF runsFail THEN {} ELSE {study}
         /\ runsError' = (runsError \/ runsFail)
    /\ studyDataLoading' = FALSE

\* Mutant: without the check of studyDataRequestRef.
StudyDataSettledLate(r) ==
    /\ studyDataRequests' = studyDataRequests \ {r}
    /\ ShowStudyData(r.about)
    /\ UNCHANGED <<existing, connection, evidenceView, contextView, creatingStudy, uploads, stray>>

StudyDataSettled(r) ==
    /\ studyDataRequests' = studyDataRequests \ {r}
    /\ IF r.current
       THEN ShowStudyData(r.about)
       ELSE UNCHANGED <<liveSources, liveRuns, sourcesError, runsError, studyDataLoading>>
    /\ UNCHANGED <<existing, connection, evidenceView, contextView, creatingStudy, uploads, stray>>

UserEvent ==
    \/ Connect \/ SelectStudy \/ SelectEvidence \/ ReloadContext
    \/ RefreshEvidence \/ RefreshStudyData \/ RetryRuns \/ CreateStudy
    \/ \E u \in Uploads : StartUpload(u)

Next ==
    \/ Pending < MaxPending /\ UserEvent
    \/ ConnectAnswered \/ ConnectFails \/ StudyAppears
    \/ CreateStudyAnswered \/ CreateStudyFails
    \/ \E u \in Uploads : UploadAnswered(u) \/ ProcessAnswered(u) \/ UploadFails(u)
    \/ \E r \in evidenceRequests : EvidenceAnswered(r) \/ EvidenceFails(r)
    \/ \E r \in contextRequests : ContextAnswered(r) \/ ContextFails(r)
    \/ \E r \in studyDataRequests : StudyDataSettled(r)

Spec == Init /\ [][Next]_vars

-----------------------------------------------------------------------------
(* Properties. *)

WorkbenchTypeOK ==
    /\ existing \in Seq(Studies) /\ asked \in 0..Len(existing)
    /\ mode \in {"loading", "live", "demo"}
    /\ studies \subseteq Studies \cup DemoStudies
    /\ selectedStudyId \in Studies \cup DemoStudies \cup {None}
    /\ liveEvidence \in [of : Studies \cup {None}, items : Seq(Evidence)]
    /\ selectedEvidenceId \in Evidence \cup {DemoItem, None}
    /\ liveContext \in Evidence \cup {None} /\ contextError \in Evidence \cup {None}
    /\ liveSources \subseteq Studies /\ liveRuns \subseteq Studies
    /\ evidenceRequests \subseteq Requests(Studies)
    /\ contextRequests \subseteq Requests(Evidence)
    /\ studyDataRequests \subseteq Requests(Studies)
    /\ {evidenceLoading, evidenceError, contextLoading, studyDataLoading,
        sourcesError, runsError, creatingStudy} \subseteq BOOLEAN
    /\ uploads \in [Uploads -> [study : Studies, call : {"uploadSource", "processSource"}] \cup {None}]
    /\ stray \subseteq {"evidence", "sources"}

\* The evidence list is that of the selected study once it is not loading, or
\* an error with nothing beside it: an answer that comes late, after another
\* study, a refresh or a reconnect, never shows (the check of
\* evidenceRequestRef in loadLiveEvidence, the resets in selectStudy).  A load
\* asked for another study is excepted: see OnlySelectionIsShown.
EvidenceOfSelection ==
    StudyShown /\ ~evidenceLoading /\ "evidence" \notin stray =>
        \/ ~evidenceError /\ liveEvidence.of = selectedStudyId
        \/ evidenceError /\ liveEvidence.items = << >>

\* The same of the sources and runs, which load together and fail apart
\* (loadLiveStudyData), beside the entries that uploads put in.
SourcesOfSelection ==
    StudyShown /\ ~studyDataLoading /\ "sources" \notin stray =>
        /\ sourcesError \/ liveSources = {selectedStudyId}
        /\ liveSources \cup liveRuns \subseteq {selectedStudyId}
        /\ runsError \/ liveRuns = {selectedStudyId}

\* Beside an item stands its own source passage, or the failure to get its
\* own, never those of an item clicked before, of a former list, or nothing
\* (loadContext, and every place that clears what it set).
ContextOfActive ==
    StudyShown /\ ~evidenceLoading /\ ~contextLoading /\ Active # None =>
        \/ contextError = None /\ liveContext = Active
        \/ contextError = Active

\* A spinner on display stands for a request whose answer will remove it: no
\* handler increments a counter and leaves the flag of the request it disowns.
SpinnersAreBacked ==
    StudyShown =>
        /\ evidenceLoading => \E r \in evidenceRequests : r.current
        /\ studyDataLoading => \E r \in studyDataRequests : r.current
        /\ contextLoading /\ ~evidenceLoading /\ Active # None =>
             \E r \in contextRequests : r.current

\* Connected, the selection is one of the listed studies of the API, and there is
\* one if there are any, whichever of connect, createStudy and selectStudy is
\* answered last: the samples of an outage never stay in the list or selected.
\* That what is selected is listed is what every handler relies on that looks it
\* up (selectedStudy).
SelectionIsListed ==
    mode = "live" =>
        /\ studies \subseteq InDatabase
        /\ selectedStudyId \in studies \cup {None}
        /\ studies # {} => selectedStudyId # None

\* What the interface says of its Sources ("{count} in this study",
\* apps/web/lib/i18n.ts 70), and of the evidence that is loaded beside them:
\* whatever else is under way, nothing of another study is listed under the
\* selected one.
OnlySelectionIsShown ==
    StudyShown =>
        /\ ~studyDataLoading => liveSources \subseteq {selectedStudyId}
        /\ ~evidenceLoading =>
             \A i \in 1..Len(liveEvidence.items) : StudyOf[liveEvidence.items[i]] = selectedStudyId
=============================================================================
