--------------------------- MODULE Workbench_proofs ---------------------------
(***************************************************************************)
(* What the workbench shows belongs to its selection, for any studies,     *)
(* evidence, answers and number of pending loads.                          *)
(***************************************************************************)
EXTENDS Workbench, TLAPS

Current(r) == r.current
AtMostOne(requests) == \A p, q \in requests : Current(p) /\ Current(q) => p = q

-----------------------------------------------------------------------------
(* Counters. *)

\* Incrementing a counter leaves no current request.
LEMMA SupersededNone ==
    ASSUME NEW S, NEW R, R \subseteq Requests(S)
    PROVE  /\ Superseded(R) \subseteq Requests(S)
           /\ \A q \in Superseded(R) : ~Current(q)
  BY DEF Superseded, Requests, Current

\* A request just sent is the only current one of its kind.
LEMMA IssuedOne ==
    ASSUME NEW S, NEW R, R \subseteq Requests(S), NEW x \in S
    PROVE  /\ Issued(R, x) \subseteq Requests(S)
           /\ \E q \in Issued(R, x) : Current(q)
           /\ \A q \in Issued(R, x) : Current(q) => q = [about |-> x, current |-> TRUE]
  <1>1. \A q \in Superseded(R) : q \in Requests(S) /\ ~Current(q)
    BY SupersededNone
  <1>2. [about |-> x, current |-> TRUE] \in Requests(S) /\ Current([about |-> x, current |-> TRUE])
    BY DEF Requests, Current
  <1> QED BY <1>1, <1>2 DEF Issued

-----------------------------------------------------------------------------
(* Types. *)

TypeInv ==
    /\ WorkbenchTypeOK
    /\ mode = "live" => studies \subseteq Studies /\ selectedStudyId \in studies \cup {None}

\* Connected, the item on display is one of the API's.
LEMMA ActiveIsEvidence ==
    ASSUME TypeInv, mode # "demo"
    PROVE  /\ Shown \subseteq Evidence
           /\ Active # None => Active \in Shown
  <1>1. shownEvidence = liveEvidence.items /\ liveEvidence.items \in Seq(Evidence)
    BY DEF shownEvidence, TypeInv, WorkbenchTypeOK
  <1>2. shownEvidence # << >> => Head(shownEvidence) \in Shown
    <2>1. shownEvidence # << >> => 1 \in 1..Len(shownEvidence) /\ Head(shownEvidence) = shownEvidence[1]
      BY <1>1
    <2> QED BY <2>1 DEF Shown
  <1>3. Shown \subseteq Evidence
    BY <1>1 DEF Shown
  <1> QED BY <1>2, <1>3 DEF Active

LEMMA NoEvidenceTyped ==
    NoEvidence \in [of : Studies \cup {None}, items : Seq(Evidence)] /\ NoEvidence.items = << >>
  <1>1. << >> \in Seq(Evidence)
    OBVIOUS
  <1> QED BY <1>1 DEF NoEvidence

LEMMA TypeInit == Init => TypeInv
  <1> SUFFICES ASSUME Init PROVE TypeInv
    OBVIOUS
  <1>1. liveEvidence \in [of : Studies \cup {None}, items : Seq(Evidence)]
    BY NoEvidenceTyped DEF Init
  <1>2. uploads \in [Uploads -> [study : Studies, call : {"uploadSource", "processSource"}] \cup {None}]
    BY DEF Init
  <1>3. existing \in Seq(Studies) /\ asked \in 0..Len(existing)
    <2>1. existing = << >> /\ asked = 0
      BY DEF Init
    <2> QED BY <2>1
  <1> QED BY <1>1, <1>2, <1>3 DEF Init, TypeInv, WorkbenchTypeOK

\* The studies in the database are studies; a new one comes before the others.
LEMMA DatabaseGrows ==
    ASSUME TypeInv
    PROVE  /\ InDatabase \subseteq Studies
           /\ \A s \in Studies : existing' = <<s>> \o existing =>
                /\ existing' \in Seq(Studies) /\ Len(existing') = Len(existing) + 1
                /\ InDatabase' = InDatabase \cup {s}
  <1>1. existing \in Seq(Studies)
    BY DEF TypeInv, WorkbenchTypeOK
  <1>2. InDatabase \subseteq Studies
    BY <1>1 DEF InDatabase
  <1>3. ASSUME NEW s \in Studies, existing' = <<s>> \o existing
        PROVE  /\ existing' \in Seq(Studies) /\ Len(existing') = Len(existing) + 1
               /\ InDatabase' = InDatabase \cup {s}
    <2>1. existing' \in Seq(Studies) /\ Len(existing') = Len(existing) + 1
      BY <1>1, <1>3
    <2>2. existing'[1] = s /\ \A i \in 1..Len(existing) : existing'[i + 1] = existing[i]
      BY <1>1, <1>3
    <2>3. ASSUME NEW i \in DOMAIN existing' PROVE existing'[i] \in InDatabase \cup {s}
      <3>1. i = 1 \/ (i - 1 \in 1..Len(existing) /\ i = (i - 1) + 1)
        BY <2>1
      <3> QED BY <1>1, <2>2, <3>1 DEF InDatabase
    <2>4. ASSUME NEW i \in DOMAIN existing PROVE existing[i] \in InDatabase'
      <3>1. i \in 1..Len(existing) /\ i + 1 \in DOMAIN existing'
        BY <1>1, <2>1
      <3> QED BY <2>2, <3>1 DEF InDatabase
    <2>5. s \in InDatabase'
      BY <2>1, <2>2 DEF InDatabase
    <2> QED BY <2>1, <2>3, <2>4, <2>5 DEF InDatabase
  <1> QED BY <1>2, <1>3

\* An answered connect lists some of the studies, and loads and selects one of
\* these if there are any.
LEMMA ConnectLists ==
    ASSUME TypeInv, ConnectAnswered
    PROVE  \E items \in SUBSET InDatabase :
             /\ studies' = items
             /\ \/ /\ items = {} /\ selectedStudyId' = None
                   /\ UNCHANGED <<evidenceLoading, evidenceError, evidenceRequests, studyDataLoading,
                                  sourcesError, runsError, studyDataRequests, stray>>
                \/ \E first \in items :
                     /\ selectedStudyId' = first
                     /\ LoadEvidence(first) /\ LoadStudyData(first)
                     /\ stray' = {}
  <1>1. existing \in Seq(Studies) /\ Len(existing) \in Nat
    BY DEF TypeInv, WorkbenchTypeOK
  <1>2. asked \in 0..Len(existing)
    BY DEF TypeInv, WorkbenchTypeOK
  <1>3. PICK n \in 1..(Len(existing) - asked + 1) :
          /\ studies' = {existing[i] : i \in n..Len(existing)}
          /\ \/ /\ n > Len(existing)
                /\ selectedStudyId' = None
                /\ UNCHANGED <<evidenceLoading, evidenceError, evidenceRequests, studyDataLoading,
                               sourcesError, runsError, studyDataRequests, stray>>
             \/ /\ n <= Len(existing)
                /\ selectedStudyId' = existing[n]
                /\ LoadEvidence(existing[n]) /\ LoadStudyData(existing[n])
                /\ stray' = {}
    BY DEF ConnectAnswered
  <1>4. n..Len(existing) \subseteq DOMAIN existing
    BY <1>1, <1>2, <1>3
  <1>5. {existing[i] : i \in n..Len(existing)} \in SUBSET InDatabase
    BY <1>4 DEF InDatabase
  <1>6. n > Len(existing) => {existing[i] : i \in n..Len(existing)} = {}
    BY <1>1, <1>2
  <1>7. n <= Len(existing) => existing[n] \in {existing[i] : i \in n..Len(existing)}
    <2>1. n <= Len(existing) => n \in n..Len(existing)
      BY <1>1, <1>2
    <2> QED BY <2>1
  <1> QED BY <1>3, <1>5, <1>6, <1>7

\* selectStudy keeps the types, whichever mode its handler knew.
LEMMA SelectTypes ==
    ASSUME TypeInv, NEW s \in Studies \cup DemoStudies, NEW m, m = "live" => s \in Studies, Select(s, m)
    PROVE  /\ selectedStudyId' = s /\ selectedEvidenceId' = None
           /\ liveEvidence' \in [of : Studies \cup {None}, items : Seq(Evidence)]
           /\ liveContext' \in Evidence \cup {None} /\ contextError' \in Evidence \cup {None}
           /\ liveSources' \subseteq Studies /\ liveRuns' \subseteq Studies
           /\ evidenceRequests' \subseteq Requests(Studies)
           /\ contextRequests' \subseteq Requests(Evidence)
           /\ studyDataRequests' \subseteq Requests(Studies)
           /\ {evidenceLoading', evidenceError', contextLoading', studyDataLoading',
               sourcesError', runsError'} \subseteq BOOLEAN
           /\ stray' \subseteq {"evidence", "sources"}
  <1> USE DEF TypeInv, WorkbenchTypeOK
  <1>1. CASE m # "live"
    BY <1>1 DEF Select, contextView, sourcesView
  <1>2. CASE m = "live"
    <2>1. Issued(evidenceRequests, s) \subseteq Requests(Studies)
      BY <1>2, IssuedOne
    <2>2. Issued(studyDataRequests, s) \subseteq Requests(Studies)
      BY <1>2, IssuedOne
    <2>3. Superseded(contextRequests) \subseteq Requests(Evidence)
      BY SupersededNone
    <2> QED BY <1>2, <2>1, <2>2, <2>3, NoEvidenceTyped DEF Select, LoadEvidence, LoadStudyData
  <1> QED BY <1>1, <1>2

LEMMA TypeStep == TypeInv /\ [Next]_vars => TypeInv'
  <1> SUFFICES ASSUME TypeInv, [Next]_vars PROVE TypeInv'
    OBVIOUS
  <1> USE DEF TypeInv, WorkbenchTypeOK
  <1>1. CASE Connect
    BY <1>1 DEF Connect, evidenceView, contextView, sourcesView
  <1>2. CASE ConnectAnswered
    <2>0. InDatabase \subseteq Studies
      BY DatabaseGrows
    <2>1. PICK items \in SUBSET Studies :
            /\ studies' = items
            /\ \/ /\ selectedStudyId' = None
                  /\ UNCHANGED <<evidenceLoading, evidenceError, evidenceRequests, studyDataLoading,
                                 sourcesError, runsError, studyDataRequests, stray>>
               \/ \E first \in items :
                    /\ selectedStudyId' = first
                    /\ LoadEvidence(first) /\ LoadStudyData(first)
                    /\ stray' = {}
      BY <1>2, <2>0, ConnectLists
    <2>2. \A first \in items : /\ Issued(evidenceRequests, first) \subseteq Requests(Studies)
                               /\ Issued(studyDataRequests, first) \subseteq Requests(Studies)
      BY <2>1, IssuedOne
    <2>3. existing' = existing /\ asked' \in 0..Len(existing)
      BY <1>2 DEF ConnectAnswered
    <2> QED BY <1>2, <2>1, <2>2, <2>3 DEF ConnectAnswered, LoadEvidence, LoadStudyData, contextView
  <1>3. CASE ConnectFails
    BY <1>3, SupersededNone, StudyAssumption DEF ConnectFails
  <1>4. CASE StudyAppears
    <2>1. existing' \in Seq(Studies) /\ Len(existing') = Len(existing) + 1
      BY <1>4, DatabaseGrows DEF StudyAppears
    <2> QED BY <1>4, <2>1 DEF StudyAppears, connection, evidenceView, contextView, sourcesView
  <1>5. CASE SelectStudy
    <2>1. PICK s \in studies : Select(s, mode)
      BY <1>5 DEF SelectStudy
    <2>2. s \in Studies \cup DemoStudies /\ (mode = "live" => s \in Studies)
      BY <2>1, StudyAssumption
    <2> QED BY <1>5, <2>1, <2>2, SelectTypes DEF SelectStudy
  <1>6. CASE SelectEvidence
    <2>1. PICK item \in Shown :
            /\ selectedEvidenceId' = item
            /\ IF mode = "live" THEN LoadContext(item) ELSE UNCHANGED contextView
      BY <1>6 DEF SelectEvidence
    <2>2. mode = "demo" => Shown \subseteq {DemoItem}
      BY DEF Shown, shownEvidence
    <2>3. item \in Evidence \cup {DemoItem} /\ (mode = "live" => item \in Evidence)
      BY <2>1, <2>2, ActiveIsEvidence
    <2>4. mode = "live" => Issued(contextRequests, item) \subseteq Requests(Evidence)
      BY <2>3, IssuedOne
    <2> QED BY <1>6, <2>1, <2>3, <2>4 DEF SelectEvidence, LoadContext, connection, sourcesView, contextView
  <1>7. CASE ReloadContext
    <2>1. Active \in Evidence
      BY <1>7, ActiveIsEvidence DEF ReloadContext
    <2>2. Issued(contextRequests, Active) \subseteq Requests(Evidence)
      BY <2>1, IssuedOne
    <2> QED BY <1>7, <2>2 DEF ReloadContext, LoadContext, connection, evidenceView, sourcesView
  <1>8. CASE RefreshEvidence
    <2>1. Issued(evidenceRequests, selectedStudyId) \subseteq Requests(Studies)
      BY <1>8, IssuedOne DEF RefreshEvidence, StudyShown
    <2> QED BY <1>8, <2>1 DEF RefreshEvidence, LoadEvidence, connection, contextView, sourcesView
  <1>9. CASE RefreshStudyData
    <2>1. Issued(studyDataRequests, selectedStudyId) \subseteq Requests(Studies)
      BY <1>9, IssuedOne DEF RefreshStudyData, StudyShown
    <2> QED BY <1>9, <2>1 DEF RefreshStudyData, LoadStudyData, connection, evidenceView, contextView
  <1>10. CASE RetryRuns
    <2>1. StudyOf[Active] \in Studies
      BY <1>10, ActiveIsEvidence, EvidenceAssumption DEF RetryRuns
    <2>2. Issued(studyDataRequests, StudyOf[Active]) \subseteq Requests(Studies)
      BY <2>1, IssuedOne
    <2> QED BY <1>10, <2>2 DEF RetryRuns, LoadStudyData, StrayAfter, connection, evidenceView, contextView
  <1>11. CASE CreateStudy
    BY <1>11 DEF CreateStudy, connection, evidenceView, contextView, sourcesView
  <1>12. CASE CreateStudyAnswered
    <2>1. PICK s \in Studies \ InDatabase :
            existing' = <<s>> \o existing /\ studies' = studies \cup {s} /\ Select(s, "live")
      BY <1>12 DEF CreateStudyAnswered
    <2>2. selectedStudyId' = s /\ s \in studies' /\ (studies \subseteq Studies => studies' \subseteq Studies)
      BY <2>1 DEF Select
    <2>3. mode' = "live" => studies' \subseteq Studies /\ selectedStudyId' \in studies'
      BY <1>12, <2>2 DEF CreateStudyAnswered
    <2>4. /\ liveEvidence' \in [of : Studies \cup {None}, items : Seq(Evidence)]
          /\ liveContext' \in Evidence \cup {None} /\ contextError' \in Evidence \cup {None}
          /\ liveSources' \subseteq Studies /\ liveRuns' \subseteq Studies
          /\ evidenceRequests' \subseteq Requests(Studies)
          /\ contextRequests' \subseteq Requests(Evidence)
          /\ studyDataRequests' \subseteq Requests(Studies)
          /\ {evidenceLoading', evidenceError', contextLoading', studyDataLoading',
              sourcesError', runsError'} \subseteq BOOLEAN
          /\ stray' \subseteq {"evidence", "sources"}
      BY <2>1, SelectTypes
    <2>5. selectedEvidenceId' = None
      BY <2>1 DEF Select
    <2>6. /\ existing' \in Seq(Studies) /\ Len(existing') = Len(existing) + 1
          /\ studies' \subseteq Studies \cup DemoStudies
      BY <2>1, DatabaseGrows
    <2>7. asked' \in 0..Len(existing')
      BY <1>12, <2>6 DEF CreateStudyAnswered
    <2>8. selectedStudyId' \in Studies /\ mode' = mode /\ creatingStudy' = FALSE /\ uploads' = uploads
      BY <1>12, <2>1, <2>2 DEF CreateStudyAnswered
    <2> QED BY <2>2, <2>3, <2>4, <2>5, <2>6, <2>7, <2>8
  <1>13. CASE CreateStudyFails
    BY <1>13 DEF CreateStudyFails, connection, evidenceView, contextView, sourcesView
  <1>14. ASSUME NEW u \in Uploads, StartUpload(u) PROVE TypeInv'
    BY <1>14 DEF StartUpload, StudyShown, connection, evidenceView, contextView
  <1>15. ASSUME NEW u \in Uploads, UploadAnswered(u) PROVE TypeInv'
    BY <1>15 DEF UploadAnswered, connection, evidenceView, contextView, sourcesView
  <1>16. ASSUME NEW u \in Uploads, ProcessAnswered(u) PROVE TypeInv'
    <2>1. uploads[u].study \in Studies
      BY <1>16 DEF ProcessAnswered
    <2>2. /\ Issued(evidenceRequests, uploads[u].study) \subseteq Requests(Studies)
          /\ Issued(studyDataRequests, uploads[u].study) \subseteq Requests(Studies)
      BY <2>1, IssuedOne
    <2> QED BY <1>16, <2>1, <2>2
            DEF ProcessAnswered, LoadEvidence, LoadStudyData, StrayAfter, connection, contextView
  <1>17. ASSUME NEW u \in Uploads, UploadFails(u) PROVE TypeInv'
    <2>1. uploads[u].study \in Studies
      BY <1>17 DEF UploadFails
    <2>2. Issued(studyDataRequests, uploads[u].study) \subseteq Requests(Studies)
      BY <2>1, IssuedOne
    <2> QED BY <1>17, <2>2 DEF UploadFails, LoadStudyData, StrayAfter, connection, evidenceView, contextView
  <1>18. ASSUME NEW r \in evidenceRequests, EvidenceAnswered(r) PROVE TypeInv'
    <2>1. CASE r.current
      <3>1. PICK items \in EvidenceLists[r.about] :
              /\ liveEvidence' = [of |-> r.about, items |-> items]
              /\ \/ /\ items # << >>
                    /\ selectedEvidenceId' = Head(items)
                    /\ LoadContext(Head(items))
                 \/ /\ items = << >>
                    /\ selectedEvidenceId' = None
                    /\ contextRequests' = Superseded(contextRequests)
                    /\ liveContext' = None /\ contextLoading' = FALSE
                    /\ UNCHANGED contextError
        BY <1>18, <2>1 DEF EvidenceAnswered, ShowEvidence
      <3>2. r.about \in Studies /\ items \in Seq(Evidence)
        BY EvidenceAssumption DEF Requests
      <3>3. items # << >> => Head(items) \in Evidence
        BY <3>2
      <3>4. items # << >> => Issued(contextRequests, Head(items)) \subseteq Requests(Evidence)
        BY <3>3, IssuedOne
      <3>5. Superseded(contextRequests) \subseteq Requests(Evidence)
        BY SupersededNone
      <3> QED BY <1>18, <2>1, <3>1, <3>2, <3>3, <3>4, <3>5
              DEF EvidenceAnswered, ShowEvidence, LoadContext, connection, sourcesView
    <2>2. CASE ~r.current
      BY <1>18, <2>2 DEF EvidenceAnswered, connection, sourcesView, contextView
    <2> QED BY <2>1, <2>2
  <1>19. ASSUME NEW r \in evidenceRequests, EvidenceFails(r) PROVE TypeInv'
    BY <1>19, NoEvidenceTyped DEF EvidenceFails, connection, sourcesView
  <1>20. ASSUME NEW r \in contextRequests, ContextAnswered(r) \/ ContextFails(r) PROVE TypeInv'
    <2>1. r.about \in Evidence
      BY DEF Requests
    <2> QED BY <1>20, <2>1 DEF ContextAnswered, ContextFails, ContextEnds, connection, evidenceView, sourcesView
  <1>21. ASSUME NEW r \in studyDataRequests, StudyDataSettled(r) PROVE TypeInv'
    <2>1. r.about \in Studies
      BY DEF Requests
    <2> QED BY <1>21, <2>1 DEF StudyDataSettled, ShowStudyData, connection, evidenceView, contextView
  <1>22. CASE UNCHANGED vars
    BY <1>22 DEF vars, connection, evidenceView, contextView, sourcesView
  <1> QED BY <1>1, <1>2, <1>3, <1>4, <1>5, <1>6, <1>7, <1>8, <1>9, <1>10, <1>11, <1>12, <1>13, <1>14,
             <1>15, <1>16, <1>17, <1>18, <1>19, <1>20, <1>21, <1>22 DEF Next, UserEvent

-----------------------------------------------------------------------------
(* The evidence list. *)

\* The current load and the flags belong together, and unless the load went
\* astray both are about the selected study.
EvidenceInv ==
    /\ AtMostOne(evidenceRequests)
    /\ \A r \in evidenceRequests : Current(r) => evidenceLoading /\ ~evidenceError
    /\ evidenceError => liveEvidence.items = << >>
    /\ StudyShown /\ evidenceLoading => \E r \in evidenceRequests : Current(r)
    /\ StudyShown /\ "evidence" \notin stray =>
         /\ \A r \in evidenceRequests : Current(r) => r.about = selectedStudyId
         /\ evidenceLoading \/ evidenceError \/ liveEvidence.of = selectedStudyId

\* Asking for the evidence of a study makes it the one that counts.
LEMMA LoadEvidenceKeeps ==
    ASSUME TypeInv, EvidenceInv, NEW s \in Studies, LoadEvidence(s),
           liveEvidence' \in {liveEvidence, NoEvidence},
           s = selectedStudyId' \/ "evidence" \in stray'
    PROVE  EvidenceInv'
  <1>0. evidenceRequests \subseteq Requests(Studies)
    BY DEF TypeInv, WorkbenchTypeOK
  <1>1. /\ \E q \in evidenceRequests' : Current(q)
        /\ \A q \in evidenceRequests' : Current(q) => q = [about |-> s, current |-> TRUE]
    BY <1>0, IssuedOne DEF LoadEvidence
  <1>2. evidenceLoading' /\ ~evidenceError'
    BY DEF LoadEvidence
  <1>3. \A q \in evidenceRequests' : Current(q) => q.about = s
    BY <1>1
  <1>4. AtMostOne(evidenceRequests')
    BY <1>1 DEF AtMostOne
  <1> QED BY <1>1, <1>2, <1>3, <1>4 DEF EvidenceInv

LEMMA EvidenceFrame ==
    ASSUME EvidenceInv, UNCHANGED <<mode, selectedStudyId, liveEvidence, evidenceLoading,
                                    evidenceError, evidenceRequests>>,
           "evidence" \in stray => "evidence" \in stray'
    PROVE  EvidenceInv'
  BY DEF EvidenceInv, AtMostOne, StudyShown

LEMMA EvidenceStep == TypeInv /\ EvidenceInv /\ [Next]_vars => EvidenceInv'
  <1> SUFFICES ASSUME TypeInv, EvidenceInv, [Next]_vars PROVE EvidenceInv'
    OBVIOUS
  <1>1. CASE Connect
    BY <1>1 DEF Connect, evidenceView, EvidenceInv, AtMostOne, StudyShown
  <1>2. CASE ConnectAnswered
    <2>1. PICK items \in SUBSET InDatabase :
            \/ /\ selectedStudyId' = None
               /\ UNCHANGED <<evidenceLoading, evidenceError, evidenceRequests>>
            \/ \E first \in items : selectedStudyId' = first /\ LoadEvidence(first)
      BY <1>2, ConnectLists
    <2>2. CASE selectedStudyId' = None /\ UNCHANGED <<evidenceLoading, evidenceError, evidenceRequests>>
      BY <1>2, <2>2 DEF ConnectAnswered, EvidenceInv, AtMostOne, StudyShown
    <2>3. ASSUME NEW first \in items, selectedStudyId' = first /\ LoadEvidence(first) PROVE EvidenceInv'
      <3>1. first \in Studies
        BY DatabaseGrows
      <3> QED BY <1>2, <2>3, <3>1, LoadEvidenceKeeps DEF ConnectAnswered
    <2> QED BY <2>1, <2>2, <2>3
  <1>3. CASE ConnectFails
    <2>1. \A q \in evidenceRequests' : ~Current(q)
      BY <1>3, SupersededNone DEF ConnectFails, TypeInv, WorkbenchTypeOK
    <2> QED BY <1>3, <2>1 DEF ConnectFails, EvidenceInv, AtMostOne, StudyShown
  <1>4. ASSUME NEW s \in Studies \cup DemoStudies, NEW m, m = "live" => s \in Studies,
               m # "live" => mode # "live", mode' = mode, Select(s, m)
        PROVE  EvidenceInv'
    <2>1. CASE m = "live"
      BY <1>4, <2>1, LoadEvidenceKeeps DEF Select
    <2>2. CASE m # "live"
      BY <1>4, <2>2 DEF Select, EvidenceInv, AtMostOne, StudyShown
    <2> QED BY <2>1, <2>2
  <1>5. CASE SelectStudy
    <2>1. PICK s \in studies : Select(s, mode)
      BY <1>5 DEF SelectStudy
    <2>2. s \in Studies \cup DemoStudies /\ (mode = "live" => s \in Studies)
      BY <2>1, StudyAssumption DEF TypeInv, WorkbenchTypeOK
    <2> QED BY <1>4, <1>5, <2>1, <2>2 DEF SelectStudy
  <1>6. CASE CreateStudyAnswered
    <2>1. PICK s \in Studies : Select(s, "live")
      BY <1>6 DEF CreateStudyAnswered
    <2> QED BY <1>4, <1>6, <2>1 DEF CreateStudyAnswered
  <1>7. CASE RefreshEvidence
    <2>1. selectedStudyId \in Studies
      BY <1>7 DEF RefreshEvidence, StudyShown, TypeInv
    <2> QED BY <1>7, <2>1, LoadEvidenceKeeps DEF RefreshEvidence, connection
  <1>8. ASSUME NEW u \in Uploads, ProcessAnswered(u) PROVE EvidenceInv'
    <2>1. uploads[u].study \in Studies
      BY <1>8 DEF ProcessAnswered, TypeInv, WorkbenchTypeOK
    <2>2. uploads[u].study = selectedStudyId' \/ "evidence" \in stray'
      BY <1>8 DEF ProcessAnswered, StrayAfter, connection
    <2> QED BY <1>8, <2>1, <2>2, LoadEvidenceKeeps DEF ProcessAnswered
  <1>9. ASSUME NEW r \in evidenceRequests, EvidenceAnswered(r) PROVE EvidenceInv'
    <2>1. CASE Current(r)
      <3>1. /\ liveEvidence'.of = r.about
            /\ evidenceLoading' = FALSE /\ evidenceError' = evidenceError
            /\ evidenceRequests' = evidenceRequests \ {r}
            /\ UNCHANGED <<mode, selectedStudyId, stray>>
        BY <1>9, <2>1 DEF EvidenceAnswered, ShowEvidence, Current, connection
      <3>2. \A q \in evidenceRequests' : ~Current(q)
        BY <2>1, <3>1 DEF EvidenceInv, AtMostOne
      <3> QED BY <2>1, <3>1, <3>2 DEF EvidenceInv, AtMostOne, StudyShown
    <2>2. CASE ~Current(r)
      BY <1>9, <2>2 DEF EvidenceAnswered, Current, connection, EvidenceInv, AtMostOne, StudyShown
    <2> QED BY <2>1, <2>2
  <1>10. ASSUME NEW r \in evidenceRequests, EvidenceFails(r) PROVE EvidenceInv'
    <2>1. \A q \in evidenceRequests' : ~Current(q)
      BY <1>10 DEF EvidenceFails, EvidenceInv, AtMostOne, Current
    <2> QED BY <1>10, <2>1, NoEvidenceTyped DEF EvidenceFails, EvidenceInv, AtMostOne
  <1>11. CASE RetryRuns \/ RefreshStudyData \/ \E u \in Uploads : UploadFails(u)
    <2>1. UNCHANGED <<mode, selectedStudyId, evidenceView>> /\ ("evidence" \in stray => "evidence" \in stray')
      BY <1>11 DEF RetryRuns, RefreshStudyData, UploadFails, StrayAfter, connection
    <2> QED BY <2>1, EvidenceFrame DEF evidenceView
  <1>12. CASE SelectEvidence \/ ReloadContext
    BY <1>12, EvidenceFrame DEF SelectEvidence, ReloadContext, connection, evidenceView
  <1>13. CASE StudyAppears \/ CreateStudy \/ CreateStudyFails
    BY <1>13, EvidenceFrame DEF StudyAppears, CreateStudy, CreateStudyFails, connection, evidenceView
  <1>14. CASE \E u \in Uploads : StartUpload(u) \/ UploadAnswered(u)
    BY <1>14, EvidenceFrame DEF StartUpload, UploadAnswered, connection, evidenceView
  <1>15. ASSUME NEW r \in contextRequests, ContextAnswered(r) \/ ContextFails(r) PROVE EvidenceInv'
    BY <1>15, EvidenceFrame DEF ContextAnswered, ContextFails, ContextEnds, connection, evidenceView
  <1>16. ASSUME NEW r \in studyDataRequests, StudyDataSettled(r) PROVE EvidenceInv'
    BY <1>16, EvidenceFrame DEF StudyDataSettled, connection, evidenceView
  <1>17. CASE UNCHANGED vars
    BY <1>17, EvidenceFrame DEF vars, connection, evidenceView
  <1> QED BY <1>1, <1>2, <1>3, <1>5, <1>6, <1>7, <1>8, <1>9, <1>10, <1>11, <1>12, <1>13, <1>14,
             <1>15, <1>16, <1>17 DEF Next, UserEvent

-----------------------------------------------------------------------------
(* The sources and runs. *)

DataInv ==
    /\ AtMostOne(studyDataRequests)
    /\ \A r \in studyDataRequests : Current(r) => studyDataLoading /\ ~sourcesError /\ ~runsError
    /\ StudyShown /\ studyDataLoading => \E r \in studyDataRequests : Current(r)
    /\ StudyShown /\ "sources" \notin stray =>
         /\ \A r \in studyDataRequests : Current(r) => r.about = selectedStudyId
         /\ ~studyDataLoading => /\ sourcesError \/ liveSources = {selectedStudyId}
                                 /\ liveSources \cup liveRuns \subseteq {selectedStudyId}
                                 /\ runsError \/ liveRuns = {selectedStudyId}

LEMMA LoadStudyDataKeeps ==
    ASSUME TypeInv, NEW s \in Studies, LoadStudyData(s),
           s = selectedStudyId' \/ "sources" \in stray'
    PROVE  DataInv'
  <1>0. studyDataRequests \subseteq Requests(Studies)
    BY DEF TypeInv, WorkbenchTypeOK
  <1>1. /\ \E q \in studyDataRequests' : Current(q)
        /\ \A q \in studyDataRequests' : Current(q) => q = [about |-> s, current |-> TRUE]
    BY <1>0, IssuedOne DEF LoadStudyData
  <1>2. studyDataLoading' /\ ~sourcesError' /\ ~runsError'
    BY DEF LoadStudyData
  <1>3. \A q \in studyDataRequests' : Current(q) => q.about = s
    BY <1>1
  <1>4. AtMostOne(studyDataRequests')
    BY <1>1 DEF AtMostOne
  <1> QED BY <1>1, <1>2, <1>3, <1>4 DEF DataInv

LEMMA DataFrame ==
    ASSUME DataInv, UNCHANGED <<mode, selectedStudyId, sourcesView>>,
           "sources" \in stray => "sources" \in stray'
    PROVE  DataInv'
  BY DEF DataInv, AtMostOne, StudyShown, sourcesView

LEMMA DataStep == TypeInv /\ DataInv /\ [Next]_vars => DataInv'
  <1> SUFFICES ASSUME TypeInv, DataInv, [Next]_vars PROVE DataInv'
    OBVIOUS
  <1>1. CASE Connect
    BY <1>1 DEF Connect, sourcesView, DataInv, AtMostOne, StudyShown
  <1>2. CASE ConnectAnswered
    <2>1. PICK items \in SUBSET InDatabase :
            \/ /\ selectedStudyId' = None
               /\ UNCHANGED <<studyDataLoading, sourcesError, runsError, studyDataRequests>>
            \/ \E first \in items : selectedStudyId' = first /\ LoadStudyData(first)
      BY <1>2, ConnectLists
    <2>2. CASE /\ selectedStudyId' = None
               /\ UNCHANGED <<studyDataLoading, sourcesError, runsError, studyDataRequests>>
      BY <2>2 DEF DataInv, AtMostOne, StudyShown
    <2>3. ASSUME NEW first \in items, selectedStudyId' = first /\ LoadStudyData(first) PROVE DataInv'
      <3>1. first \in Studies
        BY DatabaseGrows
      <3> QED BY <2>3, <3>1, LoadStudyDataKeeps
    <2> QED BY <2>1, <2>2, <2>3
  <1>3. CASE ConnectFails
    BY <1>3 DEF ConnectFails, DataInv, AtMostOne, StudyShown
  <1>4. ASSUME NEW s \in Studies \cup DemoStudies, NEW m, m = "live" => s \in Studies,
               m # "live" => mode # "live", mode' = mode, Select(s, m)
        PROVE  DataInv'
    <2>1. CASE m = "live"
      BY <1>4, <2>1, LoadStudyDataKeeps DEF Select
    <2>2. CASE m # "live"
      BY <1>4, <2>2 DEF Select, sourcesView, DataInv, AtMostOne, StudyShown
    <2> QED BY <2>1, <2>2
  <1>5. CASE SelectStudy
    <2>1. PICK s \in studies : Select(s, mode)
      BY <1>5 DEF SelectStudy
    <2>2. s \in Studies \cup DemoStudies /\ (mode = "live" => s \in Studies)
      BY <2>1, StudyAssumption DEF TypeInv, WorkbenchTypeOK
    <2> QED BY <1>4, <1>5, <2>1, <2>2 DEF SelectStudy
  <1>6. CASE CreateStudyAnswered
    <2>1. PICK s \in Studies : Select(s, "live")
      BY <1>6 DEF CreateStudyAnswered
    <2> QED BY <1>4, <1>6, <2>1 DEF CreateStudyAnswered
  <1>7. CASE RefreshStudyData
    <2>1. selectedStudyId \in Studies
      BY <1>7 DEF RefreshStudyData, StudyShown, TypeInv
    <2> QED BY <1>7, <2>1, LoadStudyDataKeeps DEF RefreshStudyData, connection
  <1>8. CASE RetryRuns
    <2>1. StudyOf[Active] \in Studies
      BY <1>8, ActiveIsEvidence, EvidenceAssumption DEF RetryRuns
    <2>2. StudyOf[Active] = selectedStudyId' \/ "sources" \in stray'
      BY <1>8 DEF RetryRuns, StrayAfter, connection
    <2> QED BY <1>8, <2>1, <2>2, LoadStudyDataKeeps DEF RetryRuns
  <1>9. ASSUME NEW u \in Uploads, StartUpload(u) PROVE DataInv'
    BY <1>9 DEF StartUpload, connection, DataInv, AtMostOne, StudyShown
  <1>10. ASSUME NEW u \in Uploads, ProcessAnswered(u) \/ UploadFails(u) PROVE DataInv'
    <2>1. uploads[u].study \in Studies
      BY <1>10 DEF ProcessAnswered, UploadFails, TypeInv, WorkbenchTypeOK
    <2>2. uploads[u].study = selectedStudyId' \/ "sources" \in stray'
      BY <1>10 DEF ProcessAnswered, UploadFails, StrayAfter, connection
    <2> QED BY <1>10, <2>1, <2>2, LoadStudyDataKeeps DEF ProcessAnswered, UploadFails
  <1>11. ASSUME NEW r \in studyDataRequests, StudyDataSettled(r) PROVE DataInv'
    <2>1. studyDataRequests' = studyDataRequests \ {r} /\ UNCHANGED <<mode, selectedStudyId, stray>>
      BY <1>11 DEF StudyDataSettled, connection
    <2>2. CASE Current(r)
      <3>1. PICK sourcesFail, runsFail \in BOOLEAN :
              /\ liveSources' = IF sourcesFail THEN {} ELSE {r.about}
              /\ sourcesError' = (sourcesError \/ sourcesFail)
              /\ liveRuns' = IF runsFail THEN {} ELSE {r.about}
              /\ runsError' = (runsError \/ runsFail)
              /\ studyDataLoading' = FALSE
        BY <1>11, <2>2 DEF StudyDataSettled, ShowStudyData, Current
      <3>2. \A q \in studyDataRequests' : ~Current(q)
        BY <2>1, <2>2 DEF DataInv, AtMostOne
      <3>3. StudyShown' /\ "sources" \notin stray' => r.about = selectedStudyId'
        BY <2>1, <2>2 DEF DataInv, StudyShown
      <3>4. StudyShown' /\ "sources" \notin stray' =>
              /\ sourcesError' \/ liveSources' = {selectedStudyId'}
              /\ liveSources' \cup liveRuns' \subseteq {selectedStudyId'}
              /\ runsError' \/ liveRuns' = {selectedStudyId'}
        BY <3>1, <3>3
      <3> QED BY <3>1, <3>2, <3>4 DEF DataInv, AtMostOne
    <2>3. CASE ~Current(r)
      BY <1>11, <2>1, <2>3 DEF StudyDataSettled, Current, DataInv, AtMostOne, StudyShown
    <2> QED BY <2>2, <2>3
  <1>12. CASE RefreshEvidence \/ SelectEvidence \/ ReloadContext
    BY <1>12, DataFrame DEF RefreshEvidence, SelectEvidence, ReloadContext, connection
  <1>13. CASE StudyAppears \/ CreateStudy \/ CreateStudyFails
    BY <1>13, DataFrame DEF StudyAppears, CreateStudy, CreateStudyFails, connection
  <1>14. ASSUME NEW u \in Uploads, UploadAnswered(u) PROVE DataInv'
    BY <1>14, DataFrame DEF UploadAnswered, connection
  <1>15. ASSUME NEW r \in evidenceRequests, EvidenceAnswered(r) \/ EvidenceFails(r) PROVE DataInv'
    BY <1>15, DataFrame DEF EvidenceAnswered, EvidenceFails, connection
  <1>16. ASSUME NEW r \in contextRequests, ContextAnswered(r) \/ ContextFails(r) PROVE DataInv'
    BY <1>16, DataFrame DEF ContextAnswered, ContextFails, ContextEnds, connection
  <1>17. CASE UNCHANGED vars
    BY <1>17, DataFrame DEF vars, connection
  <1> QED BY <1>1, <1>2, <1>3, <1>5, <1>6, <1>7, <1>8, <1>9, <1>10, <1>11, <1>12, <1>13, <1>14,
             <1>15, <1>16, <1>17 DEF Next, UserEvent

-----------------------------------------------------------------------------
(* The source passage. *)

\* While the evidence list stands, the context request that counts is about the
\* item on display; once it is answered, so is what it left.
ContextInv ==
    /\ AtMostOne(contextRequests)
    /\ \A r \in contextRequests : Current(r) => contextLoading /\ contextError = None /\ liveContext = None
    /\ StudyShown /\ ~evidenceLoading /\ Active # None =>
         /\ contextLoading => \E r \in contextRequests : Current(r)
         /\ \A r \in contextRequests : Current(r) => r.about = Active
         /\ \/ contextLoading
            \/ contextError = None /\ liveContext = Active
            \/ contextError = Active

LEMMA LoadContextKeeps ==
    ASSUME TypeInv, NEW item \in Evidence, LoadContext(item), item = Active' \/ ~StudyShown'
    PROVE  ContextInv'
  <1>1. /\ \E q \in contextRequests' : Current(q)
        /\ \A q \in contextRequests' : Current(q) => q = [about |-> item, current |-> TRUE]
    BY IssuedOne DEF LoadContext, TypeInv, WorkbenchTypeOK
  <1>2. contextLoading' /\ contextError' = None /\ liveContext' = None
    BY DEF LoadContext
  <1>3. \A q \in contextRequests' : Current(q) => q.about = item
    BY <1>1
  <1>4. AtMostOne(contextRequests')
    BY <1>1 DEF AtMostOne
  <1> QED BY <1>1, <1>2, <1>3, <1>4 DEF ContextInv

\* Clearing the context is safe while nothing is shown that could need it.
LEMMA ContextCleared ==
    ASSUME TypeInv, contextRequests' = Superseded(contextRequests),
           ~StudyShown' \/ evidenceLoading' \/ Active' = None
    PROVE  ContextInv'
  <1>1. \A q \in contextRequests' : ~Current(q)
    BY SupersededNone DEF TypeInv, WorkbenchTypeOK
  <1> QED BY <1>1 DEF ContextInv, AtMostOne

\* So is leaving it alone.
LEMMA ContextHidden ==
    ASSUME ContextInv, UNCHANGED contextView, ~StudyShown' \/ evidenceLoading' \/ Active' = None
    PROVE  ContextInv'
  BY DEF ContextInv, AtMostOne, contextView

LEMMA ContextFrame ==
    ASSUME ContextInv, UNCHANGED <<mode, selectedStudyId, evidenceView, contextView>>
    PROVE  ContextInv'
  <1>1. Active' = Active /\ StudyShown' = StudyShown
    BY DEF Active, Shown, shownEvidence, StudyShown, evidenceView
  <1> QED BY <1>1 DEF ContextInv, AtMostOne, contextView, evidenceView

LEMMA ContextStep == TypeInv /\ ContextInv /\ [Next]_vars => ContextInv'
  <1> SUFFICES ASSUME TypeInv, ContextInv, [Next]_vars PROVE ContextInv'
    OBVIOUS
  <1>1. CASE Connect
    BY <1>1, ContextHidden DEF Connect, StudyShown
  <1>2. CASE ConnectAnswered
    <2>1. selectedStudyId' = None \/ evidenceLoading'
      BY <1>2 DEF ConnectAnswered, LoadEvidence
    <2> QED BY <1>2, <2>1, ContextHidden DEF ConnectAnswered, StudyShown
  <1>3. CASE ConnectFails
    <2>1. contextRequests' = Superseded(contextRequests) /\ mode' = "demo"
      BY <1>3 DEF ConnectFails
    <2> QED BY <2>1, ContextCleared DEF StudyShown
  <1>4. ASSUME NEW s, NEW m, m # "live" => mode # "live", mode' = mode, Select(s, m)
        PROVE  ContextInv'
    <2>1. CASE m = "live"
      BY <1>4, <2>1, ContextCleared DEF Select, LoadEvidence
    <2>2. CASE m # "live"
      BY <1>4, <2>2, ContextHidden DEF Select, StudyShown
    <2> QED BY <2>1, <2>2
  <1>5. CASE SelectStudy
    BY <1>4, <1>5 DEF SelectStudy
  <1>6. CASE CreateStudyAnswered
    BY <1>4, <1>6 DEF CreateStudyAnswered
  <1>7. CASE SelectEvidence
    <2>1. PICK item \in Shown :
            /\ selectedEvidenceId' = item
            /\ IF mode = "live" THEN LoadContext(item) ELSE UNCHANGED contextView
      BY <1>7 DEF SelectEvidence
    <2>2. CASE mode = "live"
      <3>1. item \in Evidence
        BY <2>1, <2>2, ActiveIsEvidence
      <3>2. Active' = item
        BY <1>7, <2>1, <2>2 DEF SelectEvidence, Active, Shown, shownEvidence, connection
      <3> QED BY <2>1, <2>2, <3>1, <3>2, LoadContextKeeps
    <2>3. CASE mode # "live"
      BY <1>7, <2>1, <2>3, ContextHidden DEF SelectEvidence, StudyShown, connection
    <2> QED BY <2>2, <2>3
  <1>8. CASE ReloadContext
    <2>1. Active \in Evidence
      BY <1>8, ActiveIsEvidence DEF ReloadContext
    <2>2. Active' = Active
      BY <1>8 DEF ReloadContext, Active, Shown, shownEvidence, connection, evidenceView
    <2> QED BY <1>8, <2>1, <2>2, LoadContextKeeps DEF ReloadContext
  <1>9. CASE RefreshEvidence \/ \E u \in Uploads : ProcessAnswered(u)
    BY <1>9, ContextHidden DEF RefreshEvidence, ProcessAnswered, LoadEvidence
  <1>10. ASSUME NEW r \in evidenceRequests, EvidenceAnswered(r) PROVE ContextInv'
    <2>1. CASE r.current
      <3>1. PICK items \in EvidenceLists[r.about] :
              /\ liveEvidence' = [of |-> r.about, items |-> items]
              /\ \/ /\ items # << >>
                    /\ selectedEvidenceId' = Head(items)
                    /\ LoadContext(Head(items))
                 \/ /\ items = << >>
                    /\ contextRequests' = Superseded(contextRequests)
        BY <1>10, <2>1 DEF EvidenceAnswered, ShowEvidence
      <3>2. items \in Seq(Evidence)
        BY EvidenceAssumption DEF Requests, TypeInv, WorkbenchTypeOK
      <3>3. StudyShown' => shownEvidence' = items
        BY <3>1 DEF shownEvidence, StudyShown
      <3>4. CASE items # << >>
        <4>1. Head(items) \in Evidence /\ 1 \in 1..Len(items) /\ Head(items) = items[1]
          BY <3>2, <3>4
        <4>2. StudyShown' => Head(items) \in Shown'
          BY <3>3, <4>1 DEF Shown
        <4>3. StudyShown' => Active' = Head(items)
          BY <3>1, <3>4, <4>2 DEF Active
        <4> QED BY <3>1, <3>4, <4>1, <4>3, LoadContextKeeps
      <3>5. CASE items = << >>
        <4>1. StudyShown' => Shown' = {} /\ Active' = None
          BY <3>3, <3>5 DEF Shown, Active
        <4> QED BY <3>1, <3>5, <4>1, ContextCleared
      <3> QED BY <3>4, <3>5
    <2>2. CASE ~r.current
      <3>1. UNCHANGED <<mode, selectedStudyId, liveEvidence, selectedEvidenceId, evidenceLoading, contextView>>
        BY <1>10, <2>2 DEF EvidenceAnswered, connection
      <3>2. Active' = Active /\ StudyShown' = StudyShown
        BY <3>1 DEF Active, Shown, shownEvidence, StudyShown
      <3> QED BY <3>1, <3>2 DEF ContextInv, AtMostOne, contextView
    <2> QED BY <2>1, <2>2
  <1>11. ASSUME NEW r \in evidenceRequests, EvidenceFails(r) PROVE ContextInv'
    <2>1. UNCHANGED <<mode, selectedStudyId, contextError, contextLoading, contextRequests>> /\ liveContext' = None
      BY <1>11 DEF EvidenceFails, connection
    <2>2. StudyShown' => shownEvidence' = << >>
      BY <1>11, NoEvidenceTyped DEF EvidenceFails, shownEvidence, StudyShown
    <2>3. StudyShown' => Shown' = {} /\ Active' = None
      BY <2>2 DEF Shown, Active
    <2> QED BY <2>1, <2>3 DEF ContextInv, AtMostOne
  <1>12. ASSUME NEW r \in contextRequests, ContextAnswered(r) \/ ContextFails(r) PROVE ContextInv'
    <2>1. /\ contextRequests' = contextRequests \ {r}
          /\ UNCHANGED <<mode, selectedStudyId, evidenceView>>
      BY <1>12 DEF ContextAnswered, ContextFails, ContextEnds, connection
    <2>2. Active' = Active /\ StudyShown' = StudyShown /\ evidenceLoading' = evidenceLoading
      BY <2>1 DEF Active, Shown, shownEvidence, StudyShown, evidenceView
    <2>3. CASE Current(r)
      <3>1. \A q \in contextRequests' : ~Current(q)
        BY <2>1, <2>3 DEF ContextInv, AtMostOne
      <3>2. contextError = None /\ liveContext = None
        BY <2>3 DEF ContextInv
      <3>3. \/ liveContext' = r.about /\ contextError' = None
            \/ contextError' = r.about
        BY <1>12, <2>3, <3>2 DEF ContextAnswered, ContextFails, ContextEnds, Current
      <3>4. contextLoading' = FALSE
        BY <1>12, <2>3 DEF ContextAnswered, ContextFails, ContextEnds, Current
      <3> QED BY <2>2, <2>3, <3>1, <3>3, <3>4 DEF ContextInv, AtMostOne
    <2>4. CASE ~Current(r)
      <3>1. UNCHANGED <<liveContext, contextError, contextLoading>>
        BY <1>12, <2>4 DEF ContextAnswered, ContextFails, ContextEnds, Current
      <3> QED BY <2>1, <2>2, <2>4, <3>1 DEF ContextInv, AtMostOne
    <2> QED BY <2>3, <2>4
  <1>13. CASE RefreshStudyData \/ RetryRuns \/ \E u \in Uploads : UploadFails(u)
    BY <1>13, ContextFrame DEF RefreshStudyData, RetryRuns, UploadFails, connection
  <1>14. CASE StudyAppears \/ CreateStudy \/ CreateStudyFails
    BY <1>14, ContextFrame DEF StudyAppears, CreateStudy, CreateStudyFails, connection
  <1>15. CASE \E u \in Uploads : StartUpload(u) \/ UploadAnswered(u)
    BY <1>15, ContextFrame DEF StartUpload, UploadAnswered, connection
  <1>16. ASSUME NEW r \in studyDataRequests, StudyDataSettled(r) PROVE ContextInv'
    BY <1>16, ContextFrame DEF StudyDataSettled, connection
  <1>17. CASE UNCHANGED vars
    BY <1>17, ContextFrame DEF vars, connection
  <1> QED BY <1>1, <1>2, <1>3, <1>5, <1>6, <1>7, <1>8, <1>9, <1>10, <1>11, <1>12, <1>13, <1>14,
             <1>15, <1>16, <1>17 DEF Next, UserEvent

-----------------------------------------------------------------------------
(* The list of studies and the selection. *)

\* Every way out of another mode resets both; createStudy adds to both.
LEMMA ListedStep == TypeInv /\ SelectionIsListed /\ [Next]_vars => SelectionIsListed'
  <1> SUFFICES ASSUME TypeInv, SelectionIsListed, [Next]_vars PROVE SelectionIsListed'
    OBVIOUS
  <1> USE DEF SelectionIsListed
  <1>1. ASSUME mode' = mode, studies' = studies, selectedStudyId' = selectedStudyId,
               InDatabase \subseteq InDatabase'
        PROVE  SelectionIsListed'
    BY <1>1
  <1>2. CASE existing' = existing /\ UNCHANGED connection
    BY <1>1, <1>2 DEF InDatabase, connection
  <1>3. CASE Connect
    BY <1>3 DEF Connect
  <1>4. CASE ConnectAnswered
    <2>1. PICK items \in SUBSET InDatabase :
            /\ studies' = items
            /\ \/ items = {} /\ selectedStudyId' = None
               \/ \E first \in items : selectedStudyId' = first
      BY <1>4, ConnectLists
    <2>2. InDatabase' = InDatabase
      BY <1>4 DEF ConnectAnswered, InDatabase
    <2>3. None \notin items
      BY DatabaseGrows, StudyAssumption
    <2> QED BY <2>1, <2>2, <2>3
  <1>5. CASE ConnectFails
    BY <1>5 DEF ConnectFails
  <1>6. CASE StudyAppears
    <2>1. InDatabase \subseteq InDatabase'
      BY <1>6, DatabaseGrows DEF StudyAppears
    <2> QED BY <1>1, <1>6, <2>1 DEF StudyAppears, connection
  <1>7. CASE SelectStudy
    <2>1. PICK s \in studies : selectedStudyId' = s
      BY <1>7 DEF SelectStudy, Select
    <2>2. mode' = mode /\ studies' = studies /\ InDatabase' = InDatabase
      BY <1>7 DEF SelectStudy, InDatabase
    <2>3. s # None
      BY StudyAssumption DEF TypeInv, WorkbenchTypeOK
    <2> QED BY <2>1, <2>2, <2>3
  <1>8. CASE CreateStudyAnswered
    <2>1. PICK s \in Studies \ InDatabase :
            existing' = <<s>> \o existing /\ studies' = studies \cup {s} /\ Select(s, "live")
      BY <1>8 DEF CreateStudyAnswered
    <2>2. selectedStudyId' = s /\ mode' = mode /\ InDatabase' = InDatabase \cup {s} /\ s # None
      BY <1>8, <2>1, DatabaseGrows, StudyAssumption DEF CreateStudyAnswered, Select
    <2> QED BY <2>1, <2>2
  <1>9. ASSUME ~( \/ Connect \/ ConnectAnswered \/ ConnectFails \/ StudyAppears \/ SelectStudy
                  \/ CreateStudyAnswered )
        PROVE  existing' = existing /\ UNCHANGED connection
    BY <1>9 DEF Next, UserEvent, SelectEvidence, ReloadContext, RefreshEvidence, RefreshStudyData,
       RetryRuns, CreateStudy, StartUpload, CreateStudyFails, UploadAnswered, ProcessAnswered,
       UploadFails, EvidenceAnswered, EvidenceFails, ContextAnswered, ContextFails, ContextEnds,
       StudyDataSettled, vars
  <1> QED BY <1>2, <1>3, <1>4, <1>5, <1>6, <1>7, <1>8, <1>9

-----------------------------------------------------------------------------
(* Theorems. *)

WorkbenchInv == TypeInv /\ EvidenceInv /\ DataInv /\ ContextInv /\ SelectionIsListed

LEMMA InvHolds == Spec => []WorkbenchInv
  <1>1. Init => WorkbenchInv
    <2> SUFFICES ASSUME Init PROVE WorkbenchInv
      OBVIOUS
    <2>1. EvidenceInv /\ DataInv /\ ContextInv /\ SelectionIsListed
      BY NoEvidenceTyped DEF Init, SelectionIsListed, EvidenceInv, DataInv, ContextInv, AtMostOne, StudyShown
    <2> QED BY <2>1, TypeInit DEF WorkbenchInv
  <1>2. WorkbenchInv /\ [Next]_vars => WorkbenchInv'
    BY TypeStep, EvidenceStep, DataStep, ContextStep, ListedStep DEF WorkbenchInv
  <1> QED BY <1>1, <1>2, PTL DEF Spec

\* The state of the workbench keeps its types.
THEOREM WorkbenchTypes == Spec => []WorkbenchTypeOK
  <1>1. WorkbenchInv => WorkbenchTypeOK
    BY DEF WorkbenchInv, TypeInv
  <1> QED BY <1>1, InvHolds, PTL

\* The evidence list is that of the selection (loadLiveEvidence, selectStudy,
\* connect), however many loads overlap.
THEOREM EvidenceShownIsSelected == Spec => []EvidenceOfSelection
  <1>1. WorkbenchInv => EvidenceOfSelection
    BY DEF WorkbenchInv, EvidenceInv, EvidenceOfSelection, TypeInv, WorkbenchTypeOK
  <1> QED BY <1>1, InvHolds, PTL

\* The source and run lists are those of the selection (loadLiveStudyData).
THEOREM SourcesShownAreSelected == Spec => []SourcesOfSelection
  <1>1. WorkbenchInv => SourcesOfSelection
    <2> SUFFICES ASSUME DataInv, StudyShown, ~studyDataLoading, "sources" \notin stray
                 PROVE  /\ sourcesError \/ liveSources = {selectedStudyId}
                        /\ liveSources \cup liveRuns \subseteq {selectedStudyId}
                        /\ runsError \/ liveRuns = {selectedStudyId}
      BY DEF WorkbenchInv, SourcesOfSelection
    <2> QED BY DEF DataInv
  <1> QED BY <1>1, InvHolds, PTL

\* The source passage beside an item is that item's (loadContext).
THEOREM ContextShownIsActive == Spec => []ContextOfActive
  <1>1. WorkbenchInv => ContextOfActive
    BY DEF WorkbenchInv, ContextInv, ContextOfActive
  <1> QED BY <1>1, InvHolds, PTL

\* No spinner is left without a request that ends it (the counters and the
\* loading flags of all three loads).
THEOREM SpinnersEnd == Spec => []SpinnersAreBacked
  <1>1. WorkbenchInv => SpinnersAreBacked
    BY DEF WorkbenchInv, EvidenceInv, DataInv, ContextInv, SpinnersAreBacked, Current
  <1> QED BY <1>1, InvHolds, PTL

\* Connected, the selection is one of the listed studies of the API, in whatever
\* order connect, createStudy and selectStudy come to their ends.
THEOREM SelectionListed == Spec => []SelectionIsListed
  <1>1. WorkbenchInv => SelectionIsListed
    BY DEF WorkbenchInv
  <1> QED BY <1>1, InvHolds, PTL
=============================================================================
