------------------------------ MODULE Extraction ------------------------------
(***************************************************************************)
(* What is proposed as evidence of a document's segments: by the           *)
(* deterministic demo (ingestion/extractors.py), which quotes the segments *)
(* itself, and by a model (agent_harness/openai_responses.py), whose       *)
(* proposals are bound to the segments one by one.                         *)
(*                                                                         *)
(* A configuration is one of                                               *)
(*   [mode |-> "demo", library, maxEvidence, maxQuoteChars]                *)
(*   [mode |-> "openai", library, maxSegments, maxCharsPerSegment,         *)
(*    maxTotalChars]                                                       *)
(* where library is the version of PyMuPDF the process runs with.          *)
(***************************************************************************)
EXTENDS Citations

Least(S) == CHOOSE m \in S : \A n \in S : m <= n

SentenceEnds == {"."}
DemoObservation == "synthetic"

\* The identity leaves out where in the segment the quote is.
Draft(segment, quote, start, observation, method) ==
    [id |-> [segment |-> segment.id, quote |-> quote, observation |-> observation,
             method |-> method],
     segment |-> segment.id, quote |-> quote, observation |-> observation,
     locator |-> NarrowLocator(segment, quote, start)]

-----------------------------------------------------------------------------
(* The demo extractor. *)

\* As much of a segment as fits, cut at the end of a sentence if there is one.
SelectQuote(text, maxQuoteChars) ==
    LET window == Slice(text, 0, maxQuoteChars)
        ends == {k + 1 : k \in {k \in Offsets(window) :
                    /\ At(window, k) \in SentenceEnds
                    /\ k + 1 < Len(window) => At(window, k + 1) \in Space}}
    IN  IF Len(text) <= maxQuoteChars THEN text
        ELSE IF ends # {} THEN Slice(window, 0, CHOOSE e \in ends : \A f \in ends : f <= e)
        ELSE Slice(window, 0, Least({e \in 0 .. Len(window) :
                \A k \in e .. (Len(window) - 1) : At(window, k) \in Space}))

DemoDrafts(segments, config) ==
    [i \in 1 .. Least({Cardinality(segments), config.maxEvidence}) |->
        LET segment == SegmentAt(segments, i - 1)
        IN  Draft(segment, SelectQuote(segment.text, config.maxQuoteChars), 0,
                  DemoObservation, "demo")]

-----------------------------------------------------------------------------
(* The context shown to a model. *)

\* Mutant of Consumed: a segment is cut at its own limit only.
ConsumedUncut(segments, config) ==
    LET consumed[n \in 0 .. Cardinality(segments)] ==
            IF n = 0 THEN 0
            ELSE consumed[n - 1] + Least({Len(SegmentAt(segments, n - 1).text),
                                          config.maxCharsPerSegment})
    IN  consumed

\* How much of the budget the first segments have used.
Consumed(segments, config) ==
    LET consumed[n \in 0 .. Cardinality(segments)] ==
            IF n = 0 THEN 0
            ELSE consumed[n - 1] + Least({Len(SegmentAt(segments, n - 1).text),
                                          config.maxCharsPerSegment,
                                          config.maxTotalChars - consumed[n - 1]})
    IN  consumed

ContextPayload(segments, config) ==
    LET consumed == Consumed(segments, config)
        included == {s \in segments : /\ s.ordinal < config.maxSegments
                                      /\ consumed[s.ordinal] < config.maxTotalChars}
        Visible(s) == Slice(s.text, 0, consumed[s.ordinal + 1] - consumed[s.ordinal])
    IN  [segments |-> {[segment |-> s.id, text |-> Visible(s),
                        truncated |-> Len(Visible(s)) < Len(s.text)] : s \in included},
         omitted  |-> Cardinality(segments) - Cardinality(included)]

-----------------------------------------------------------------------------
(* Binding a proposal of the model: its segment is looked up among all the *)
(* segments, those left out of the context included.                       *)

Named(proposal, segments) == {s \in segments : s.id = proposal.segment}

Binds(proposal, segments) ==
    \E s \in Named(proposal, segments) : IsExactSpan(s, proposal.quote, proposal.start)

BoundDraft(proposal, segments) ==
    Draft(CHOOSE s \in Named(proposal, segments) : TRUE,
          proposal.quote, proposal.start, proposal.observation, "openai")

-----------------------------------------------------------------------------
(* CitationVerifier.verify, and the check of the runner. *)

CitationCheck(draft, segments, document, library) ==
    LET named      == {s \in segments : s.id = draft.segment}
        replayed   == ReplayLocator(draft.locator, document, library)
        sourceHash == document = draft.locator.source
        replays    == /\ replayed # {}
                      /\ \E s \in named : s.locator.source = draft.locator.source
        exact      == replays /\ draft.quote \in replayed
    IN  [draft |-> draft.id, verified |-> sourceHash /\ exact, replayable |-> replays]

\* Mutant of CitationsAccepted: the draft ids are not counted.
CitationsAcceptedTwice(drafts, checks) == \A i \in DOMAIN checks : checks[i].verified

CitationsAccepted(drafts, checks) ==
    LET ids == [i \in DOMAIN drafts |-> drafts[i].id]
    IN  /\ IsInjective(ids)
        /\ [i \in DOMAIN checks |-> checks[i].draft] = ids
        /\ \A i \in DOMAIN checks : checks[i].verified
=============================================================================
