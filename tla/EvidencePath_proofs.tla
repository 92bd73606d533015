-------------------------- MODULE EvidencePath_proofs --------------------------
(* Proofs about EvidencePath, for all documents, configurations and answers. *)
EXTENDS EvidencePath, Extraction_proofs

-----------------------------------------------------------------------------
(* Type correctness. *)

\* A run returns only from a document that parsed.
LEMMA PathTypeInit == Init => PathTypeOK
BY RunsAssumption DEF Init, PathTypeOK

LEMMA PathTypeStep == ASSUME PathTypeOK, [Next]_vars PROVE PathTypeOK'
<1>. USE DEF PathTypeOK, Unserved, Unstored, Fail, result
<1>1. CASE Parse
  BY <1>1 DEF Parse
<1>2. CASE ExtractDemo
  BY <1>2 DEF ExtractDemo
<1>3. CASE AskModel
  BY <1>3 DEF AskModel
<1>4. CASE ModelFails
  BY <1>4 DEF ModelFails
<1>5. ASSUME NEW proposal \in Proposals, Bind(proposal) PROVE PathTypeOK'
  BY <1>5 DEF Bind
<1>6. CASE AnswerEnds
  BY <1>6 DEF AnswerEnds
<1>7. CASE Verify
  BY <1>7 DEF Verify
<1>8. CASE Check
  BY <1>8 DEF Check
<1>9. CASE Persist
  BY <1>9 DEF Persist
<1>10. ASSUME NEW c \in Configurations, Rerun(c) PROVE PathTypeOK'
  BY <1>10, RunsAssumption DEF Rerun, Begin
<1>11. ASSUME NEW row \in evidence, ReadContext(row) PROVE PathTypeOK'
  BY <1>11 DEF ReadContext
<1>12. ASSUME NEW case \in Cases[document], NEW control \in Controls, Evaluate(case, control)
       PROVE  PathTypeOK'
  BY <1>12 DEF Evaluate
<1>13. CASE UNCHANGED vars
  BY <1>13 DEF vars
<1>. QED
  BY <1>1, <1>2, <1>3, <1>4, <1>5, <1>6, <1>7, <1>8, <1>9, <1>10, <1>11, <1>12, <1>13 DEF Next

\* The path keeps its types: in particular a run fails for one reason, and a
\* source has segment rows just when a run of it has succeeded.
THEOREM PathTypes == Spec => []PathTypeOK
BY PathTypeInit, PathTypeStep, PTL DEF Spec

-----------------------------------------------------------------------------
(* What a model's answer can be refused for. *)

LEMMA SegmentsAreTexts ==
    ASSUME NEW C, TextsAre(C), NEW d \in Documents, NEW c \in Configurations, Parses(d),
           NEW segments, segments = SegmentsOf(d, c.library)
    PROVE  \A s \in segments : s.text \in Seq(C)
<1>1. Readable(d, c.library, C) /\ Marks \subseteq C
  BY DEF TextsAre
<1>. QED
  BY <1>1, SegmentTexts

LEMMA SegmentsSaySomething ==
    ASSUME NEW C, TextsAre(C), NEW d \in Documents, NEW c \in Configurations, Parses(d),
           NEW segments, segments = SegmentsOf(d, c.library)
    PROVE  \A s \in segments : s.text # << >>
<1>1. Readable(d, c.library, C) /\ Marks \subseteq C
  BY DEF TextsAre
<1>. QED
  BY <1>1, SegmentTexts

\* Only answers of two claims with one identity are refused as a whole.
RefusedOnlyForDuplicates ==
    config.mode = "openai" /\ error = "citation" =>
        ~IsInjective([i \in DOMAIN drafts |-> drafts[i].id])

\* Until a run fails its drafts are bound to the segments of the document, and
\* a bound draft passes the verifier.
PathInv ==
    /\ PathTypeOK
    /\ RefusedOnlyForDuplicates
    /\ stage \notin {"parse", "failed"} =>
         /\ Parses(document) /\ parsed = SegmentsOf(document, config.library)
    /\ stage \in {"parse", "extract"} => drafts = << >>
    /\ config.mode = "openai" => \E S : drafts \in Seq(S)
    /\ config.mode = "openai" /\ stage \in {"bind", "verify", "check"} =>
         \A i \in DOMAIN drafts :
            CitationCheck(drafts[i], parsed, document, config.library).verified
    /\ stage = "check" =>
         checks = [i \in DOMAIN drafts |-> CitationCheck(drafts[i], parsed, document, config.library)]

LEMMA PathInvInit == Init => PathInv
BY PathTypeInit DEF Init, PathInv, RefusedOnlyForDuplicates

\* A piece of a segment is a text like it.
LEMMA ProposalsAreTexts ==
    ASSUME NEW C, TextsAre(C), PathInv, stage = "bind", NEW proposal \in Proposals
    PROVE  proposal.quote \in Seq(C) /\ proposal.start \in Nat
<1>1. /\ document \in Documents /\ config \in Configurations
      /\ Parses(document) /\ parsed = SegmentsOf(document, config.library)
  BY DEF PathInv, PathTypeOK
<1>2. \A s \in parsed : s.text \in Seq(C)
  BY <1>1, SegmentsAreTexts
<1>3. \A s \in parsed : \A quote \in Pieces(s) : quote \in Seq(C)
  BY <1>2 DEF Pieces, Slice, Offsets
<1>4. <<"invented">> \in Seq(C)
  BY DEF TextsAre
<1>5. \A s \in parsed : \A start \in Offsets(s.text) : start \in Nat
  BY <1>2 DEF Offsets
<1>6. /\ proposal.quote \in {<<"invented">>} \cup UNION {Pieces(s) : s \in parsed}
      /\ proposal.start \in {0} \cup UNION {Offsets(s.text) : s \in parsed}
  BY DEF Proposals
<1>7. proposal.quote \in Seq(C)
  <2>1. CASE proposal.quote = <<"invented">>
    BY <1>4, <2>1
  <2>2. CASE \E s \in parsed : proposal.quote \in Pieces(s)
    BY <1>3, <2>2
  <2>3. proposal.quote \in {<<"invented">>} \/ \E s \in parsed : proposal.quote \in Pieces(s)
    BY <1>6, Zenon
  <2>. QED
    BY <2>1, <2>2, <2>3
<1>8. proposal.start \in Nat
  <2>1. proposal.start = 0 \/ \E s \in parsed : proposal.start \in Offsets(s.text)
    BY <1>6, Zenon
  <2>. QED
    BY <1>5, <2>1
<1>. QED
  BY <1>7, <1>8

LEMMA PathInvStep ==
    ASSUME NEW C, TextsAre(C), PathInv, [Next]_vars
    PROVE  PathInv'
<1>. USE DEF PathInv, RefusedOnlyForDuplicates, Unserved, Unstored, Fail, result
<1>0. PathTypeOK'
  BY PathTypeStep
<1>1. CASE Parse
  BY <1>0, <1>1 DEF Parse, PathTypeOK
<1>2. CASE ExtractDemo
  <2>1. config.mode # "openai"
    BY <1>2 DEF ExtractDemo
  <2>. QED
    BY <1>0, <1>2, <2>1 DEF ExtractDemo
<1>3. CASE AskModel
  BY <1>0, <1>3 DEF AskModel
<1>4. CASE ModelFails
  BY <1>0, <1>4 DEF ModelFails
<1>5. ASSUME NEW proposal \in Proposals, Bind(proposal) PROVE PathInv'
  <2>1. /\ document \in Documents /\ config \in Configurations
        /\ Parses(document) /\ parsed = SegmentsOf(document, config.library)
    BY <1>5 DEF Bind, PathTypeOK
  <2>2. proposal.quote \in Seq(C) /\ proposal.start \in Nat
    BY <1>5, ProposalsAreTexts DEF Bind
  <2>3. CASE Binds(proposal, parsed)
    <3>. DEFINE draft == BoundDraft(proposal, parsed)
    <3>1. CitationCheck(draft, parsed, document, config.library).verified
      BY <2>1, <2>2, <2>3, BoundDraftsVerified DEF TextsAre
    <3>2. drafts' = Append(drafts, draft) /\ UNCHANGED <<stage, error, parsed, document, config>>
      BY <1>5, <2>3 DEF Bind
    <3>. HIDE DEF draft
    <3>3. ASSUME config.mode = "openai"
          PROVE  /\ \E S : drafts' \in Seq(S)
                 /\ \A i \in DOMAIN drafts' :
                      CitationCheck(drafts'[i], parsed, document, config.library).verified
      <4>1. PICK S : drafts \in Seq(S)
        BY <3>3
      <4>2. drafts' \in Seq(S \cup {draft})
        BY <3>2, <4>1
      <4>3. /\ DOMAIN drafts' = 1 .. (Len(drafts) + 1)
            /\ \A i \in 1 .. Len(drafts) : drafts'[i] = drafts[i]
            /\ drafts'[Len(drafts) + 1] = draft
        BY <3>2, <4>1
      <4>4. DOMAIN drafts = 1 .. Len(drafts) /\ Len(drafts) \in Nat
        BY <4>1
      <4>5. stage = "bind"
        BY <1>5 DEF Bind
      <4>. QED
        BY <3>1, <3>3, <4>2, <4>3, <4>4, <4>5
    <3>4. stage = "bind"
      BY <1>5 DEF Bind
    <3>. QED
      BY <1>0, <3>2, <3>3, <3>4 DEF PathTypeOK
  <2>4. CASE ~Binds(proposal, parsed)
    BY <1>0, <1>5, <2>4 DEF Bind
  <2>. QED
    BY <2>3, <2>4
<1>6. CASE AnswerEnds
  BY <1>0, <1>6 DEF AnswerEnds
<1>7. CASE Verify
  BY <1>0, <1>7 DEF Verify
<1>8. CASE Check
  <2>1. CASE CitationsAccepted(drafts, checks)
    BY <1>0, <1>8, <2>1 DEF Check, PathTypeOK
  <2>2. ASSUME ~CitationsAccepted(drafts, checks), config.mode = "openai"
        PROVE  ~IsInjective([i \in DOMAIN drafts |-> drafts[i].id])
    <3>1. checks = [i \in DOMAIN drafts |-> CitationCheck(drafts[i], parsed, document, config.library)]
      BY <1>8 DEF Check
    <3>2. \A i \in DOMAIN drafts : checks[i].verified /\ checks[i].draft = drafts[i].id
      BY <1>8, <2>2, <3>1 DEF Check, CitationCheck
    <3>3. [i \in DOMAIN checks |-> checks[i].draft] = [i \in DOMAIN drafts |-> drafts[i].id]
      BY <3>1, <3>2
    <3>. QED
      BY <2>2, <3>1, <3>2, <3>3 DEF CitationsAccepted
  <2>3. CASE ~CitationsAccepted(drafts, checks)
    BY <1>0, <1>8, <2>2, <2>3 DEF Check
  <2>. QED
    BY <2>1, <2>3
<1>9. CASE Persist
  BY <1>0, <1>9 DEF Persist
<1>10. ASSUME NEW c \in Configurations, Rerun(c) PROVE PathInv'
  BY <1>0, <1>10 DEF Rerun, Begin
<1>11. ASSUME NEW row \in evidence, ReadContext(row) PROVE PathInv'
  BY <1>0, <1>11 DEF ReadContext
<1>12. ASSUME NEW case \in Cases[document], NEW control \in Controls, Evaluate(case, control) PROVE PathInv'
  BY <1>0, <1>12 DEF Evaluate
<1>13. CASE UNCHANGED vars
  BY <1>0, <1>13 DEF vars
<1>. QED
  BY <1>1, <1>2, <1>3, <1>4, <1>5, <1>6, <1>7, <1>8, <1>9, <1>10, <1>11, <1>12, <1>13 DEF Next

\* A model's answer whose claims could all be bound is refused as a whole only
\* if two of them have one identity: same segment, quote and observation.
THEOREM OnlyDuplicatesRefused ==
    ASSUME NEW C, TextsAre(C)
    PROVE  Spec => []RefusedOnlyForDuplicates
<1>1. PathInv /\ [Next]_vars => PathInv'
  BY PathInvStep
<1>2. PathInv => RefusedOnlyForDuplicates
  BY DEF PathInv
<1>. QED
  BY <1>1, <1>2, PathInvInit, PTL DEF Spec

-----------------------------------------------------------------------------
(* What is published. *)

\* The kind of a locator tells its parser.
LEMMA ClaimBinds ==
    ASSUME NEW C, Readable(document, config.library, C),
           \A s \in SegmentsOf(document, config.library) : s.text \in Seq(C),
           NEW proposal, proposal.quote \in Seq(C), proposal.quote # << >>, proposal.start \in Nat
    PROVE  ClaimHolds(proposal) <=> Binds(proposal, SegmentsOf(document, config.library))
<1>. DEFINE segments == SegmentsOf(document, config.library)
            Holds(s) ==
                IF s.locator.kind = "text"
                THEN /\ proposal.start + Len(proposal.quote) <= s.locator.end - s.locator.start
                     /\ \A k \in 1 .. Len(proposal.quote) :
                           proposal.quote[k] = document.text[s.locator.start + proposal.start + k]
                ELSE \A k \in 1 .. Len(proposal.quote) :
                        /\ proposal.start + k <= Len(s.text)
                        /\ proposal.quote[k] = s.text[proposal.start + k]
<1>0. PICK quote \in Seq(C), i \in Nat, n \in Nat :
        quote = proposal.quote /\ i = proposal.start /\ n = Len(quote) /\ n > 0
  OBVIOUS
<1>1. ASSUME NEW s \in segments
      PROVE  IsExactSpan(s, quote, i)
               <=> /\ i + n <= Len(s.text)
                   /\ \A k \in 1 .. n : quote[k] = s.text[i + k]
  <2>1. PICK text \in Seq(C) : text = s.text
    OBVIOUS
  <2>2. quote # << >>
    BY <1>0
  <2>3. Slice(text, i, i + Len(quote)) = quote
          <=> /\ i + Len(quote) <= Len(text)
              /\ \A k \in 1 .. Len(quote) : quote[k] = text[i + k]
    BY <2>2, ExactQuote
  <2>4. IsExactSpan(s, quote, i) <=> Slice(text, i, i + Len(quote)) = quote
    BY <2>1 DEF IsExactSpan
  <2>. QED
    BY <1>0, <2>1, <2>3, <2>4
<1>2. ASSUME NEW s \in segments PROVE IsExactSpan(s, quote, i) <=> Holds(s)
  <2>1. CASE segments = TextSegments(document)
    <3>. DEFINE from == s.locator.start
                to   == s.locator.end
    <3>0. document.text \in Seq(C)
      BY DEF Readable
    <3>1. /\ from \in Nat /\ to \in Nat /\ from < to /\ to <= Len(document.text)
          /\ s.text = Slice(document.text, from, to)
          /\ s.locator = Locator(document, "text", s.id, << >>, from, to, s.text)
      BY <2>1, <3>0, TextSegmentShape
    <3>2. s.locator.kind = "text"
      BY <3>1 DEF Locator
    <3>. HIDE DEF from, to
    <3>3. PICK m \in Nat : to = from + m
      <4>1. to - from \in Nat /\ to = from + (to - from)
        BY <3>1
      <4>. QED
        BY <4>1
    <3>4. Len(s.text) = m /\ \A k \in 1 .. m : s.text[k] = document.text[from + k]
      <4>1. PICK text \in Seq(C) : text = document.text
        BY <3>0
      <4>2. s.text = Slice(text, from, from + m) /\ from + m <= Len(text) /\ from \in Nat
        BY <3>1, <3>3, <4>1
      <4>3. /\ Len(Slice(text, from, from + m)) = m
            /\ \A k \in 1 .. m : Slice(text, from, from + m)[k] = text[from + k]
        BY <4>2, SliceInside
      <4>. QED
        BY <4>1, <4>2, <4>3
    <3>5. ASSUME i + n <= m
          PROVE  \A k \in 1 .. n : s.text[i + k] = document.text[from + i + k]
      <4>. SUFFICES ASSUME NEW k \in 1 .. n PROVE s.text[i + k] = document.text[from + i + k]
        OBVIOUS
      <4>1. i + k \in 1 .. m /\ from + (i + k) = from + i + k
        BY <3>1, <3>5
      <4>. QED
        BY <3>4, <4>1
    <3>6. to - from = m
      BY <3>1, <3>3
    <3>7. Holds(s) <=> /\ i + n <= to - from
                       /\ \A k \in 1 .. n : quote[k] = document.text[from + i + k]
      BY <1>0, <3>2 DEF from, to
    <3>. QED
      BY <1>1, <3>4, <3>5, <3>6, <3>7
  <2>2. CASE segments \in {CsvSegments(document), PdfSegments(document, config.library)}
    <3>1. s.locator.kind # "text"
      <4>1. CASE s \in CsvSegments(document)
        <5>1. s.locator = Locator(document, "csv", s.id,
                  [columns |-> Headers(document), cells |-> s.id[1]], 0, Len(s.text), s.text)
          BY <4>1, CsvSegmentShape
        <5>2. s.locator.kind = "csv"
          BY <5>1, LocatorFields
        <5>. QED
          BY <5>2
      <4>2. CASE s \in PdfSegments(document, config.library)
        <5>1. PICK k \in DOMAIN document.pages[config.library] : \E span :
                s.locator = Locator(document, "pdf", <<k>>,
                    [number |-> k, page |-> document.pages[config.library][k]], span.start, span.end, s.text)
          BY <4>2, PdfSegmentShape
        <5>2. PICK span :
                s.locator = Locator(document, "pdf", <<k>>,
                    [number |-> k, page |-> document.pages[config.library][k]], span.start, span.end, s.text)
          BY <5>1
        <5>3. s.locator.kind = "pdf"
          BY <5>2, LocatorFields
        <5>. QED
          BY <5>3
      <4>. QED
        BY <2>2, <4>1, <4>2
    <3>2. Holds(s) <=> \A k \in 1 .. n : i + k <= Len(s.text) /\ quote[k] = s.text[i + k]
      BY <1>0, <3>1
    <3>3. Len(s.text) \in Nat
      OBVIOUS
    <3>4. (\A k \in 1 .. n : i + k <= Len(s.text)) <=> i + n <= Len(s.text)
      <4>1. n \in 1 .. n
        BY <1>0
      <4>. QED
        BY <3>3, <4>1
    <3>. QED
      BY <1>1, <3>2, <3>4
  <2>. QED
    BY <2>1, <2>2, ThreeParsers DEF Readable
<1>. HIDE DEF Holds
<1>3. ClaimHolds(proposal) <=> \E s \in segments : s.id = proposal.segment /\ Holds(s)
  BY DEF ClaimHolds, Holds
<1>4. Binds(proposal, segments)
        <=> \E s \in segments : s.id = proposal.segment /\ IsExactSpan(s, quote, i)
  BY <1>0 DEF Binds, Named
<1>. QED
  BY <1>2, <1>3, <1>4

\* A proposal that its draft is bound to.
Bound(proposal, draft) ==
    /\ Binds(proposal, SegmentsOf(document, config.library))
    /\ draft = BoundDraft(proposal, SegmentsOf(document, config.library))

\* The answer of a model so far: what it claims, and a draft for each claim until one is refused.
AnswerInv(C) ==
    /\ config.mode # "openai" => proposals = << >>
    /\ stage \in {"parse", "extract"} => proposals = << >>
    /\ stage = "bind" => config.mode = "openai"
    /\ proposals # << >> => Parses(document)
    /\ \E S : proposals \in Seq(S)
    /\ \A i \in DOMAIN proposals :
         proposals[i].quote \in Seq(C) /\ proposals[i].quote # << >> /\ proposals[i].start \in Nat
    /\ config.mode = "openai" /\ error # "proposal" =>
         DOMAIN drafts = DOMAIN proposals /\ \A i \in DOMAIN proposals : Bound(proposals[i], drafts[i])
    /\ error = "proposal" =>
         \E i \in DOMAIN proposals : ~Binds(proposals[i], SegmentsOf(document, config.library))

LEMMA AnswerInvInit == ASSUME NEW C, Init PROVE AnswerInv(C)
<1>1. << >> \in Seq({})
  OBVIOUS
<1>. QED
  BY <1>1 DEF Init, AnswerInv

\* No piece of a segment is empty, and a model quotes something.
LEMMA ProposalsSaySomething ==
    ASSUME NEW C, TextsAre(C), PathInv, stage = "bind", NEW proposal \in Proposals
    PROVE  proposal.quote # << >>
<1>1. /\ document \in Documents /\ config \in Configurations
      /\ Parses(document) /\ parsed = SegmentsOf(document, config.library)
  BY DEF PathInv, PathTypeOK
<1>2. \A s \in parsed : s.text \in Seq(C)
  BY <1>1, SegmentsAreTexts
<1>3. ASSUME NEW s \in parsed, NEW quote \in Pieces(s) PROVE quote # << >>
  <2>1. PICK text \in Seq(C) : text = s.text
    BY <1>2
  <2>2. PICK k \in Offsets(text), n \in {1, 2} : quote = Slice(text, k, k + n)
    BY <1>3, <2>1 DEF Pieces
  <2>3. k \in Nat /\ k < Len(text) /\ Len(text) \in Nat
    BY DEF Offsets
  <2>4. CASE k + n <= Len(text)
    <3>1. Len(quote) = n
      BY <2>2, <2>3, <2>4, SliceInside
    <3>. QED
      BY <3>1
  <2>5. CASE k + n > Len(text)
    <3>1. quote = SubSeq(text, k + 1, Len(text))
      BY <2>2, <2>3, <2>5 DEF Slice
    <3>2. Len(quote) = Len(text) - k
      BY <2>3, <3>1
    <3>. QED
      BY <2>3, <3>2
  <2>. QED
    BY <2>3, <2>4, <2>5
<1>4. proposal.quote \in {<<"invented">>} \cup UNION {Pieces(s) : s \in parsed}
  BY DEF Proposals
<1>5. proposal.quote = <<"invented">> \/ \E s \in parsed : proposal.quote \in Pieces(s)
  BY <1>4, Zenon
<1>6. <<"invented">> # << >>
  OBVIOUS
<1>. QED
  BY <1>3, <1>5, <1>6

LEMMA AnswerBinds ==
    ASSUME NEW C, TextsAre(C), PathInv, AnswerInv(C), NEW proposal \in Proposals, Bind(proposal)
    PROVE  AnswerInv(C)'
<1>1. /\ stage = "bind" /\ error = "none" /\ config.mode = "openai" /\ Parses(document)
      /\ parsed = SegmentsOf(document, config.library)
      /\ UNCHANGED <<document, config>>
  BY DEF Bind, AnswerInv, PathInv, PathTypeOK, Unserved
<1>2. /\ proposal.quote \in Seq(C) /\ proposal.quote # << >> /\ proposal.start \in Nat
  BY <1>1, ProposalsAreTexts, ProposalsSaySomething
<1>3. PICK S : proposals \in Seq(S)
  BY DEF AnswerInv
<1>4. PICK n \in Nat : n = Len(proposals) /\ DOMAIN proposals = 1 .. n
  BY <1>3
<1>5. proposals' = Append(proposals, proposal)
  BY DEF Bind
<1>6. /\ proposals' \in Seq(S \cup {proposal})
      /\ DOMAIN proposals' = 1 .. (n + 1)
      /\ \A i \in 1 .. n : proposals'[i] = proposals[i]
      /\ proposals'[n + 1] = proposal
  BY <1>3, <1>4, <1>5
<1>7. \A i \in DOMAIN proposals' :
        proposals'[i].quote \in Seq(C) /\ proposals'[i].quote # << >> /\ proposals'[i].start \in Nat
  <2>. SUFFICES ASSUME NEW i \in 1 .. (n + 1)
                PROVE  proposals'[i].quote \in Seq(C) /\ proposals'[i].quote # << >> /\ proposals'[i].start \in Nat
    BY <1>6
  <2>1. CASE i = n + 1
    BY <1>2, <1>6, <2>1
  <2>2. CASE i \in 1 .. n
    BY <1>4, <1>6, <2>2 DEF AnswerInv
  <2>. QED
    BY <2>1, <2>2
<1>8. CASE Binds(proposal, parsed)
  <2>1. drafts' = Append(drafts, BoundDraft(proposal, parsed)) /\ UNCHANGED <<stage, error>>
    BY <1>8 DEF Bind
  <2>2. DOMAIN drafts = 1 .. n /\ \A i \in 1 .. n : Bound(proposals[i], drafts[i])
    BY <1>1, <1>4 DEF AnswerInv
  <2>3. PICK T : drafts \in Seq(T)
    BY <1>1 DEF PathInv
  <2>4. Len(drafts) = n
    BY <1>4, <2>2, <2>3
  <2>5. PICK draft : draft = BoundDraft(proposal, parsed)
    OBVIOUS
  <2>6. /\ DOMAIN drafts' = 1 .. (n + 1)
        /\ \A i \in 1 .. n : drafts'[i] = drafts[i]
        /\ drafts'[n + 1] = draft
    BY <2>1, <2>3, <2>4, <2>5
  <2>7. \A p, d : Bound(p, d) <=> Bound(p, d)'
    BY <1>1 DEF Bound
  <2>8. Bound(proposal, draft)
    BY <1>1, <1>8, <2>5 DEF Bound
  <2>9. \A i \in 1 .. (n + 1) : Bound(proposals[i], drafts[i])'
    <3>. SUFFICES ASSUME NEW i \in 1 .. (n + 1) PROVE Bound(proposals[i], drafts[i])'
      OBVIOUS
    <3>1. CASE i = n + 1
      BY <1>6, <2>6, <2>8, <3>1, <1>1 DEF Bound
    <3>2. CASE i \in 1 .. n
      BY <1>1, <1>6, <2>2, <2>6, <3>2 DEF Bound
    <3>. QED
      BY <3>1, <3>2
  <2>. QED
    BY <1>1, <1>6, <1>7, <2>1, <2>6, <2>9 DEF AnswerInv
<1>9. CASE ~Binds(proposal, parsed)
  <2>1. stage' = "failed" /\ error' = "proposal"
    BY <1>9 DEF Bind, Fail
  <2>2. n + 1 \in DOMAIN proposals' /\ ~Binds(proposals'[n + 1], SegmentsOf(document', config'.library))
    BY <1>1, <1>6, <1>9
  <2>. QED
    BY <1>1, <1>6, <1>7, <2>1, <2>2 DEF AnswerInv
<1>. QED
  BY <1>8, <1>9

\* Only a proposal, another run and the extractors disturb what is known of an answer.
LEMMA AnswerKept ==
    ASSUME NEW C, PathInv, AnswerInv(C), UNCHANGED <<document, config, proposals>>,
           UNCHANGED drafts \/ config.mode # "openai",
           error' = "proposal" => error = "proposal",
           error = "proposal" => error' = "proposal",
           stage' = "bind" => config.mode = "openai",
           stage' \in {"parse", "extract"} => stage \in {"parse", "extract"}
    PROVE  AnswerInv(C)'
BY DEF AnswerInv, Bound

LEMMA AnswerStep ==
    ASSUME NEW C, TextsAre(C), PathInv, AnswerInv(C), [Next]_vars
    PROVE  AnswerInv(C)'
<1>. USE DEF Unserved, Unstored, Fail, result
<1>0. stage = "failed" <=> error # "none"
  BY DEF PathInv, PathTypeOK
<1>1. CASE Parse
  BY <1>0, <1>1, AnswerKept DEF Parse
<1>2. CASE ExtractDemo
  BY <1>0, <1>2, AnswerKept DEF ExtractDemo
<1>3. CASE AskModel
  BY <1>0, <1>3, AnswerKept DEF AskModel
<1>4. CASE ModelFails
  BY <1>0, <1>4, AnswerKept DEF ModelFails
<1>5. ASSUME NEW proposal \in Proposals, Bind(proposal) PROVE AnswerInv(C)'
  BY <1>5, AnswerBinds
<1>6. CASE AnswerEnds
  BY <1>0, <1>6, AnswerKept DEF AnswerEnds
<1>7. CASE Verify
  BY <1>0, <1>7, AnswerKept DEF Verify
<1>8. CASE Check
  BY <1>0, <1>8, AnswerKept DEF Check
<1>9. CASE Persist
  BY <1>0, <1>9, AnswerKept DEF Persist
<1>10. ASSUME NEW c \in Configurations, Rerun(c) PROVE AnswerInv(C)'
  <2>1. proposals' = << >> /\ drafts' = << >> /\ error' = "none" /\ stage' = "parse"
    BY <1>10 DEF Rerun, Begin
  <2>2. << >> \in Seq({})
    OBVIOUS
  <2>. QED
    BY <2>1, <2>2 DEF AnswerInv
<1>11. ASSUME NEW row \in evidence, ReadContext(row) PROVE AnswerInv(C)'
  BY <1>0, <1>11, AnswerKept DEF ReadContext
<1>12. ASSUME NEW case \in Cases[document], NEW control \in Controls, Evaluate(case, control) PROVE AnswerInv(C)'
  BY <1>0, <1>12, AnswerKept DEF Evaluate
<1>13. CASE UNCHANGED vars
  BY <1>0, <1>13, AnswerKept DEF vars, AnswerInv
<1>. QED
  BY <1>1, <1>2, <1>3, <1>4, <1>5, <1>6, <1>7, <1>8, <1>9, <1>10, <1>11, <1>12, <1>13 DEF Next

\* No two drafts of a run that returned have one identity, and the demo's are
\* what it makes of the segments.
IdentitiesInv ==
    /\ stage \in {"returned", "published"} \/ error \in {"empty", "drift"} =>
         \A i, j \in DOMAIN drafts : drafts[i].id = drafts[j].id => i = j
    /\ error = "citation" => config.mode = "openai"
    /\ config.mode = "demo" /\ stage \in {"verify", "check", "returned", "published"} =>
         drafts = DemoDrafts(parsed, config)

\* How many drafts the demo makes.
DemoCount ==
    IF Cardinality(parsed) < config.maxEvidence THEN Cardinality(parsed) ELSE config.maxEvidence

LEMMA DemoRun ==
    ASSUME NEW C, TextsAre(C), PathInv, config.mode = "demo", stage \notin {"parse", "failed"},
           drafts = DemoDrafts(parsed, config)
    PROVE  /\ DemoCount \in Nat /\ DOMAIN drafts = 1 .. DemoCount
           /\ \A i, j \in DOMAIN drafts : drafts[i].id = drafts[j].id => i = j
           /\ \A i \in DOMAIN drafts : CitationCheck(drafts[i], parsed, document, config.library).verified
           /\ \A i \in DOMAIN drafts :
                drafts[i].id = [segment |-> drafts[i].segment, quote |-> drafts[i].quote,
                                observation |-> drafts[i].observation, method |-> "demo"]
<1>1. /\ document \in Documents /\ config \in Configurations
      /\ Parses(document) /\ parsed = SegmentsOf(document, config.library)
  BY DEF PathInv, PathTypeOK
<1>2. config.maxEvidence \in Nat /\ config.maxQuoteChars \in Nat
  BY <1>1, ConfigurationsAssumption
<1>3. Readable(document, config.library, C) /\ \A s \in parsed : s.text \in Seq(C)
  BY <1>1, SegmentsAreTexts DEF TextsAre
<1>4. PICK n, ds : n = DemoCount /\ ds = drafts
  OBVIOUS
<1>5. n = (IF Cardinality(parsed) < config.maxEvidence THEN Cardinality(parsed) ELSE config.maxEvidence)
      /\ ds = DemoDrafts(parsed, config)
  BY <1>4 DEF DemoCount
<1>6. /\ n \in Nat /\ DOMAIN ds = 1 .. n
      /\ \A i, j \in 1 .. n : ds[i].id = ds[j].id => i = j
  BY <1>1, <1>2, <1>3, <1>5, DemoDraftsSound
<1>7. \A i \in 1 .. n : CitationCheck(ds[i], parsed, document, config.library).verified
  BY <1>1, <1>2, <1>3, <1>5, DemoDraftsSound
<1>8. \A i \in 1 .. n : ds[i].id = [segment |-> ds[i].segment, quote |-> ds[i].quote,
                                    observation |-> ds[i].observation, method |-> "demo"]
  BY <1>1, <1>2, <1>3, <1>5, DemoDraftsSound
<1>. QED
  BY <1>4, <1>6, <1>7, <1>8

\* What the runner accepts has no identity twice, and it accepts the demo's own.
LEMMA CheckIdentities ==
    ASSUME NEW C, TextsAre(C), PathInv, IdentitiesInv, Check
    PROVE  IdentitiesInv'
<1>1. /\ stage = "check" /\ config \in Configurations /\ error = "none"
      /\ checks = [i \in DOMAIN drafts |-> CitationCheck(drafts[i], parsed, document, config.library)]
      /\ UNCHANGED <<document, config, parsed, drafts>>
  BY DEF Check, PathInv, PathTypeOK, Unserved, result
<1>2. CASE CitationsAccepted(drafts, checks)
  <2>1. \A i, j \in DOMAIN drafts : drafts[i].id = drafts[j].id => i = j
    <3>1. PICK ids : ids = [i \in DOMAIN drafts |-> drafts[i].id]
      OBVIOUS
    <3>2. IsInjective(ids)
      BY <1>2, <3>1 DEF CitationsAccepted
    <3>. QED
      BY <3>1, <3>2 DEF IsInjective
  <2>2. stage' = "returned" /\ error' = "none"
    BY <1>1, <1>2 DEF Check
  <2>. QED
    BY <1>1, <2>1, <2>2 DEF IdentitiesInv
<1>3. CASE ~CitationsAccepted(drafts, checks)
  <2>1. config.mode # "demo"
    <3>. SUFFICES ASSUME config.mode = "demo" PROVE FALSE
      OBVIOUS
    <3>1. drafts = DemoDrafts(parsed, config)
      BY <1>1 DEF IdentitiesInv
    <3>2. /\ \A i, j \in DOMAIN drafts : drafts[i].id = drafts[j].id => i = j
          /\ \A i \in DOMAIN drafts : CitationCheck(drafts[i], parsed, document, config.library).verified
      BY <1>1, <3>1, DemoRun
    <3>3. IsInjective([i \in DOMAIN drafts |-> drafts[i].id])
      BY <3>2 DEF IsInjective
    <3>4. \A i \in DOMAIN drafts : checks[i].verified /\ checks[i].draft = drafts[i].id
      BY <1>1, <3>2 DEF CitationCheck
    <3>5. DOMAIN checks = DOMAIN drafts
      BY <1>1
    <3>6. [i \in DOMAIN checks |-> checks[i].draft] = [i \in DOMAIN drafts |-> drafts[i].id]
      BY <3>4, <3>5
    <3>. QED
      BY <1>3, <3>3, <3>4, <3>5, <3>6 DEF CitationsAccepted
  <2>2. config.mode = "openai"
    BY <1>1, <2>1, ConfigurationsAssumption
  <2>3. stage' = "failed" /\ error' = "citation"
    BY <1>3 DEF Check, Fail
  <2>. QED
    BY <1>1, <2>2, <2>3 DEF IdentitiesInv
<1>. QED
  BY <1>2, <1>3

LEMMA IdentitiesStep ==
    ASSUME NEW C, TextsAre(C), PathInv, AnswerInv(C), IdentitiesInv, [Next]_vars
    PROVE  IdentitiesInv'
<1>. USE DEF Unserved, Unstored, Fail, result, IdentitiesInv
<1>0. (stage = "failed" <=> error # "none") /\ (stage = "bind" => config.mode = "openai")
  BY DEF PathInv, PathTypeOK, AnswerInv
<1>1. CASE Parse
  BY <1>0, <1>1 DEF Parse
<1>2. CASE ExtractDemo
  BY <1>0, <1>2 DEF ExtractDemo
<1>3. CASE AskModel
  BY <1>0, <1>3 DEF AskModel
<1>4. CASE ModelFails
  BY <1>0, <1>4 DEF ModelFails
<1>5. ASSUME NEW proposal \in Proposals, Bind(proposal) PROVE IdentitiesInv'
  BY <1>0, <1>5 DEF Bind
<1>6. CASE AnswerEnds
  BY <1>0, <1>6 DEF AnswerEnds
<1>7. CASE Verify
  BY <1>0, <1>7 DEF Verify
<1>8. CASE Check
  BY <1>8, CheckIdentities
<1>9. CASE Persist
  BY <1>0, <1>9 DEF Persist
<1>10. ASSUME NEW c \in Configurations, Rerun(c) PROVE IdentitiesInv'
  BY <1>10 DEF Rerun, Begin
<1>11. ASSUME NEW row \in evidence, ReadContext(row) PROVE IdentitiesInv'
  BY <1>0, <1>11 DEF ReadContext
<1>12. ASSUME NEW case \in Cases[document], NEW control \in Controls, Evaluate(case, control) PROVE IdentitiesInv'
  BY <1>0, <1>12 DEF Evaluate
<1>13. CASE UNCHANGED vars
  BY <1>0, <1>13 DEF vars
<1>. QED
  BY <1>1, <1>2, <1>3, <1>4, <1>5, <1>6, <1>7, <1>8, <1>9, <1>10, <1>11, <1>12, <1>13 DEF Next

\* The evidence of the current run is that of its drafts, once it is published.
RowsInv ==
    /\ \A row \in evidence :
         row.run \in Nat /\ row.run <= runs /\ (stage # "published" => row.run < runs)
    /\ stage = "published" =>
         {row \in evidence : row.run = runs} = {EvidenceRow(drafts[i]) : i \in DOMAIN drafts}

LEMMA RowsStep ==
    ASSUME PathInv, RowsInv, [Next]_vars
    PROVE  RowsInv'
<1>. USE DEF Unserved, Unstored, Fail, result, RowsInv
<1>0. runs \in Nat
  BY RunsAssumption DEF PathInv, PathTypeOK
<1>1. CASE Parse
  BY <1>1 DEF Parse
<1>2. CASE ExtractDemo
  BY <1>2 DEF ExtractDemo
<1>3. CASE AskModel
  BY <1>3 DEF AskModel
<1>4. CASE ModelFails
  BY <1>4 DEF ModelFails
<1>5. ASSUME NEW proposal \in Proposals, Bind(proposal) PROVE RowsInv'
  BY <1>5 DEF Bind
<1>6. CASE AnswerEnds
  BY <1>6 DEF AnswerEnds
<1>7. CASE Verify
  BY <1>7 DEF Verify
<1>8. CASE Check
  BY <1>8 DEF Check
<1>9. CASE Persist
  <2>1. CASE stage' = "failed"
    BY <1>9, <2>1 DEF Persist
  <2>2. CASE stage' # "failed"
    <3>1. /\ stage = "returned" /\ stage' = "published" /\ UNCHANGED <<runs, drafts>>
          /\ evidence' = evidence \cup {EvidenceRow(drafts[i]) : i \in DOMAIN drafts}
      BY <1>9, <2>2 DEF Persist
    <3>2. \A row \in evidence : row.run \in Nat /\ row.run < runs
      BY <3>1
    <3>3. \A i \in DOMAIN drafts : EvidenceRow(drafts[i]).run = runs
      BY DEF EvidenceRow
    <3>4. \A i \in DOMAIN drafts : EvidenceRow(drafts[i]) = EvidenceRow(drafts[i])'
      BY <3>1 DEF EvidenceRow
    <3>5. {row \in evidence' : row.run = runs} = {EvidenceRow(drafts[i]) : i \in DOMAIN drafts}
      BY <1>0, <3>1, <3>2, <3>3
    <3>. QED
      BY <1>0, <3>1, <3>2, <3>3, <3>4, <3>5
  <2>. QED
    BY <2>1, <2>2
<1>10. ASSUME NEW c \in Configurations, Rerun(c) PROVE RowsInv'
  BY <1>0, <1>10 DEF Rerun, Begin
<1>11. ASSUME NEW row \in evidence, ReadContext(row) PROVE RowsInv'
  <2>1. UNCHANGED <<evidence, runs, drafts, stage>>
    BY <1>11 DEF ReadContext
  <2>2. \A i \in DOMAIN drafts : EvidenceRow(drafts[i]) = EvidenceRow(drafts[i])'
    BY <2>1 DEF EvidenceRow
  <2>. QED
    BY <2>1, <2>2
<1>12. ASSUME NEW case \in Cases[document], NEW control \in Controls, Evaluate(case, control) PROVE RowsInv'
  BY <1>12 DEF Evaluate
<1>13. CASE UNCHANGED vars
  <2>1. UNCHANGED <<evidence, runs, drafts, stage>>
    BY <1>13 DEF vars
  <2>2. \A i \in DOMAIN drafts : EvidenceRow(drafts[i]) = EvidenceRow(drafts[i])'
    BY <2>1 DEF EvidenceRow
  <2>. QED
    BY <2>1, <2>2
<1>. QED
  BY <1>1, <1>2, <1>3, <1>4, <1>5, <1>6, <1>7, <1>8, <1>9, <1>10, <1>11, <1>12, <1>13 DEF Next

\* What two claims have in common when they are one.
SameClaim(p, q) == p.segment = q.segment /\ p.quote = q.quote /\ p.observation = q.observation

\* The drafts of a model's answer are one exactly when their claims are.
LEMMA BoundIdentities ==
    ASSUME NEW p, NEW q, NEW d, NEW e, Bound(p, d), Bound(q, e)
    PROVE  /\ d.id = e.id <=> SameClaim(p, q)
           /\ d.id = [segment |-> d.segment, quote |-> d.quote, observation |-> d.observation,
                      method |-> "openai"]
<1>1. /\ d.id = [segment |-> p.segment, quote |-> p.quote, observation |-> p.observation, method |-> "openai"]
      /\ d.segment = p.segment /\ d.quote = p.quote /\ d.observation = p.observation
  BY BoundDraftFields DEF Bound
<1>2. e.id = [segment |-> q.segment, quote |-> q.quote, observation |-> q.observation, method |-> "openai"]
  BY BoundDraftFields DEF Bound
<1>3. d.id = e.id <=> SameClaim(p, q)
  BY <1>1, <1>2, IdentityParts DEF SameClaim
<1>. QED
  BY <1>1, <1>3

\* Drafts without a repeated identity are as many rows.
LEMMA RowsCounted ==
    ASSUME NEW n \in Nat, NEW method, DOMAIN drafts = 1 .. n,
           \A i, j \in DOMAIN drafts : drafts[i].id = drafts[j].id => i = j,
           \A i \in DOMAIN drafts :
                drafts[i].id = [segment |-> drafts[i].segment, quote |-> drafts[i].quote,
                                observation |-> drafts[i].observation, method |-> method]
    PROVE  Cardinality({EvidenceRow(drafts[i]) : i \in DOMAIN drafts}) = n
<1>. DEFINE S == {EvidenceRow(drafts[i]) : i \in 1 .. n}
            f == [i \in 1 .. n |-> EvidenceRow(drafts[i])]
<1>1. f \in [1 .. n -> S] /\ \A x \in S : \E i \in 1 .. n : f[i] = x
  OBVIOUS
<1>2. ASSUME NEW i \in 1 .. n, NEW j \in 1 .. n, f[i] = f[j] PROVE i = j
  <2>1. PICK d, e : d = drafts[i] /\ e = drafts[j]
    OBVIOUS
  <2>2. EvidenceRow(d) = EvidenceRow(e)
    BY <1>2, <2>1
  <2>3. \A x : /\ EvidenceRow(x).segment = x.segment /\ EvidenceRow(x).quote = x.quote
               /\ EvidenceRow(x).observation = x.observation
    BY DEF EvidenceRow
  <2>4. d.segment = e.segment /\ d.quote = e.quote /\ d.observation = e.observation
    BY <2>2, <2>3
  <2>5. d.id = e.id
    BY <2>1, <2>4
  <2>. QED
    BY <2>1, <2>5
<1>. HIDE DEF S, f
<1>3. Cardinality(S) = n
  BY <1>1, <1>2, ListCounts
<1>. QED
  BY <1>3 DEF S

LEMMA SoundFromInv ==
    ASSUME NEW C, TextsAre(C), PathInv, AnswerInv(C), IdentitiesInv, RowsInv
    PROVE  PublishedExactlyWhenSound
<1>. DEFINE Holds == \A p \in ToSet(proposals) : ClaimHolds(p)
            Apart == \A i, j \in DOMAIN proposals : i # j =>
                        <<proposals[i].segment, proposals[i].quote, proposals[i].observation>>
                        # <<proposals[j].segment, proposals[j].quote, proposals[j].observation>>
            segments == SegmentsOf(document, config.library)
<1>0. /\ document \in Documents /\ config \in Configurations
      /\ stage = "failed" <=> error # "none"
      /\ config.mode \in {"demo", "openai"}
  BY ConfigurationsAssumption DEF PathInv, PathTypeOK
<1>1. ASSUME NEW i \in DOMAIN proposals PROVE ClaimHolds(proposals[i]) <=> Binds(proposals[i], segments)
  <2>1. proposals # << >>
    OBVIOUS
  <2>2. Readable(document, config.library, C) /\ \A s \in segments : s.text \in Seq(C)
    BY <1>0, <2>1, SegmentsAreTexts DEF AnswerInv, TextsAre
  <2>3. PICK proposal : proposal = proposals[i]
    OBVIOUS
  <2>4. proposal.quote \in Seq(C) /\ proposal.quote # << >> /\ proposal.start \in Nat
    BY <2>3 DEF AnswerInv
  <2>5. ClaimHolds(proposal) <=> Binds(proposal, segments)
    BY <2>2, <2>4, ClaimBinds
  <2>. QED
    BY <2>3, <2>5
<1>2. Holds <=> \A i \in DOMAIN proposals : Binds(proposals[i], segments)
  BY <1>1 DEF ToSet
<1>3. Apart <=> \A i, j \in DOMAIN proposals : i # j => ~SameClaim(proposals[i], proposals[j])
  <2>1. \A a, b, c, x, y, z : <<a, b, c>> = <<x, y, z>> <=> a = x /\ b = y /\ c = z
    OBVIOUS
  <2>. QED
    BY <2>1 DEF SameClaim
<1>4. ASSUME config.mode = "openai", error # "proposal"
      PROVE  /\ DOMAIN drafts = DOMAIN proposals /\ Holds
             /\ Apart <=> \A i, j \in DOMAIN drafts : drafts[i].id = drafts[j].id => i = j
             /\ \A i \in DOMAIN drafts :
                  drafts[i].id = [segment |-> drafts[i].segment, quote |-> drafts[i].quote,
                                  observation |-> drafts[i].observation, method |-> "openai"]
  <2>1. DOMAIN drafts = DOMAIN proposals /\ \A i \in DOMAIN proposals : Bound(proposals[i], drafts[i])
    BY <1>4 DEF AnswerInv
  <2>2. Holds
    BY <1>2, <2>1 DEF Bound
  <2>3. \A i, j \in DOMAIN drafts : drafts[i].id = drafts[j].id <=> SameClaim(proposals[i], proposals[j])
    BY <2>1, BoundIdentities
  <2>4. \A i \in DOMAIN drafts :
          drafts[i].id = [segment |-> drafts[i].segment, quote |-> drafts[i].quote,
                          observation |-> drafts[i].observation, method |-> "openai"]
    BY <2>1, BoundIdentities
  <2>. HIDE DEF Holds, Apart
  <2>. QED
    BY <1>3, <2>1, <2>2, <2>3, <2>4
<1>. HIDE DEF Holds, Apart
<1>5. ASSUME stage \in {"returned", "published"} \/ error \in {"empty", "drift"}
      PROVE  Holds /\ Apart
  <2>1. error # "proposal"
    BY <1>0, <1>5
  <2>2. \A i, j \in DOMAIN drafts : drafts[i].id = drafts[j].id => i = j
    BY <1>5 DEF IdentitiesInv
  <2>3. CASE config.mode = "openai"
    BY <1>4, <2>1, <2>2, <2>3
  <2>4. CASE config.mode # "openai"
    <3>1. proposals = << >>
      BY <2>4 DEF AnswerInv
    <3>2. DOMAIN proposals = {}
      BY <3>1
    <3>. QED
      BY <1>2, <1>3, <3>2
  <2>. QED
    BY <2>3, <2>4
<1>6. ASSUME error \in {"proposal", "citation"} PROVE ~(Holds /\ Apart)
  <2>1. CASE error = "proposal"
    BY <1>2, <2>1 DEF AnswerInv
  <2>2. CASE error = "citation"
    <3>1. config.mode = "openai"
      BY <2>2 DEF IdentitiesInv
    <3>2. ~IsInjective([i \in DOMAIN drafts |-> drafts[i].id])
      BY <2>2, <3>1 DEF PathInv, RefusedOnlyForDuplicates
    <3>3. ~ \A i, j \in DOMAIN drafts : drafts[i].id = drafts[j].id => i = j
      BY <3>2 DEF IsInjective
    <3>. QED
      BY <1>4, <2>2, <3>1, <3>3
  <2>. QED
    BY <1>6, <2>1, <2>2
<1>7. ASSUME stage = "published"
      PROVE  Cardinality({row \in evidence : row.run = runs}) =
                  IF config.mode = "openai" THEN Len(proposals) ELSE DemoCount
  <2>1. {row \in evidence : row.run = runs} = {EvidenceRow(drafts[i]) : i \in DOMAIN drafts}
    BY <1>7 DEF RowsInv
  <2>2. \A i, j \in DOMAIN drafts : drafts[i].id = drafts[j].id => i = j
    BY <1>7 DEF IdentitiesInv
  <2>3. CASE config.mode = "openai"
    <3>1. PICK S : proposals \in Seq(S)
      BY DEF AnswerInv
    <3>2. PICK n \in Nat : n = Len(proposals) /\ DOMAIN proposals = 1 .. n
      BY <3>1
    <3>3. error # "proposal"
      BY <1>0, <1>7
    <3>4. DOMAIN drafts = 1 .. n
      BY <1>4, <2>3, <3>2, <3>3
    <3>5. \A i \in DOMAIN drafts :
            drafts[i].id = [segment |-> drafts[i].segment, quote |-> drafts[i].quote,
                            observation |-> drafts[i].observation, method |-> "openai"]
      BY <1>4, <2>3, <3>3
    <3>6. Cardinality({EvidenceRow(drafts[i]) : i \in DOMAIN drafts}) = n
      BY <2>2, <3>4, <3>5, RowsCounted
    <3>. QED
      BY <2>1, <2>3, <3>2, <3>6
  <2>4. CASE config.mode = "demo"
    <3>1. drafts = DemoDrafts(parsed, config)
      BY <1>7, <2>4 DEF IdentitiesInv
    <3>2. DemoCount \in Nat /\ DOMAIN drafts = 1 .. DemoCount
      BY <1>7, <2>4, <3>1, DemoRun
    <3>3. \A i \in DOMAIN drafts :
            drafts[i].id = [segment |-> drafts[i].segment, quote |-> drafts[i].quote,
                            observation |-> drafts[i].observation, method |-> "demo"]
      BY <1>7, <2>4, <3>1, DemoRun
    <3>4. Cardinality({EvidenceRow(drafts[i]) : i \in DOMAIN drafts}) = DemoCount
      BY <2>2, <3>2, <3>3, RowsCounted
    <3>. QED
      BY <2>1, <2>4, <3>4
  <2>. QED
    BY <1>0, <2>3, <2>4
<1>. QED
  BY <1>5, <1>6, <1>7 DEF PublishedExactlyWhenSound, Holds, Apart, DemoCount

\* What is published of a model's answer is all of it or nothing, and all of it
\* exactly when each claim is in the source and no two are one; the demo
\* publishes a draft for each segment its limit admits.
THEOREM SoundAnswersPublished ==
    ASSUME NEW C, TextsAre(C)
    PROVE  Spec => []PublishedExactlyWhenSound
<1>. DEFINE Inv == PathInv /\ AnswerInv(C) /\ IdentitiesInv /\ RowsInv
<1>1. Init => Inv
  <2>. SUFFICES ASSUME Init PROVE Inv
    OBVIOUS
  <2>1. PathInv /\ AnswerInv(C)
    BY PathInvInit, AnswerInvInit
  <2>2. IdentitiesInv /\ RowsInv
    BY DEF Init, IdentitiesInv, RowsInv
  <2>. QED
    BY <2>1, <2>2
<1>2. Inv /\ [Next]_vars => Inv'
  <2>. SUFFICES ASSUME Inv, [Next]_vars PROVE Inv'
    OBVIOUS
  <2>. QED
    BY PathInvStep, AnswerStep, IdentitiesStep, RowsStep
<1>3. Inv => PublishedExactlyWhenSound
  BY SoundFromInv
<1>. QED
  BY <1>1, <1>2, <1>3, PTL DEF Spec

-----------------------------------------------------------------------------
(* What the segments are of a source. *)

\* A blank line is a separator or part of one, and a separator has one.
LEMMA BlankLineInGap ==
    ASSUME NEW C, NEW text \in Seq(C), NEW i \in Nat, NEW j \in Nat, j <= Len(text), BlankLineIn(text, i, j)
    PROVE  \E gap \in Separators(text) : i < gap.end /\ gap.start < j
<1>1. PICK k \in LineBreaks(text, i, j), m \in LineBreaks(text, i, j) :
        /\ k < m
        /\ \A l \in k .. m : \/ At(text, l) \in {"nl"} \cup Blanks
                             \/ At(text, l) = "cr" /\ At(text, l + 1) = "nl"
  BY DEF BlankLineIn
<1>2. /\ k \in Offsets(text) /\ m \in Offsets(text) /\ i <= k /\ m < j
      /\ k \in Nat /\ m \in Nat /\ m < Len(text) /\ At(text, k) = "nl" /\ At(text, m) = "nl"
  BY <1>1 DEF LineBreaks, Offsets
<1>3. \A l \in k .. m : InGap(text, l)
  <2>. SUFFICES ASSUME NEW l \in k .. m PROVE InGap(text, l)
    OBVIOUS
  <2>1. CASE l = m
    BY <1>2, <2>1 DEF InGap
  <2>2. CASE l < m
    BY <1>1, <1>2, <2>2 DEF InGap
  <2>. QED
    BY <1>2, <2>1, <2>2
<1>4. PICK gap \in Separators(text) : gap.start <= k /\ m < gap.end
  BY <1>1, <1>2, <1>3, BreaksInGap
<1>5. gap.start \in Nat /\ gap.end \in Nat
  BY GapShape
<1>. QED
  BY <1>1, <1>2, <1>4, <1>5

LEMMA GapHasBlankLine ==
    ASSUME NEW C, NEW text \in Seq(C), NEW i \in Nat, NEW j \in Nat,
           NEW gap \in Separators(text), i <= gap.start, gap.end <= j
    PROVE  BlankLineIn(text, i, j)
<1>1. /\ gap.start \in Nat /\ gap.end \in Nat /\ gap.end <= Len(text)
      /\ \A l \in gap.start .. (gap.end - 1) : InGap(text, l)
  BY GapShape
<1>2. PICK a \in Breaks(text, gap.start, gap.end), b \in Breaks(text, gap.start, gap.end) : a < b
  BY GapBreaks
<1>3. a \in gap.start .. (gap.end - 1) /\ b \in gap.start .. (gap.end - 1)
      /\ At(text, a) = "nl" /\ At(text, b) = "nl"
  BY <1>2 DEF Breaks
<1>4. a \in LineBreaks(text, i, j) /\ b \in LineBreaks(text, i, j)
  BY <1>1, <1>3 DEF LineBreaks
<1>5. \A l \in a .. b : InGap(text, l)
  BY <1>1, <1>3
<1>6. \A l \in a .. b : \/ At(text, l) \in {"nl"} \cup Blanks
                        \/ At(text, l) = "cr" /\ At(text, l + 1) = "nl"
  BY <1>5 DEF InGap
<1>. QED
  BY <1>2, <1>4, <1>6 DEF BlankLineIn

\* The segments of a text are what blank lines leave of it.
LEMMA TextIsCovered ==
    ASSUME NEW C, NEW d, d.text \in Seq(C), NEW segments, segments = TextSegments(d)
    PROVE  /\ \A s, t \in segments : s.ordinal + 1 = t.ordinal =>
                /\ s.locator.end < t.locator.start
                /\ BlankLineIn(d.text, s.locator.end, t.locator.start)
           /\ \A k \in Offsets(d.text) : At(d.text, k) \notin Space =>
                \E s \in segments : k \in s.locator.start .. (s.locator.end - 1)
           /\ \A s \in segments : ~BlankLineIn(d.text, s.locator.start, s.locator.end)
<1>1. PICK text \in Seq(C) : text = d.text
  OBVIOUS
<1>2. \A s \in segments : \E span \in TextSpans(text) : s.locator.start = span.start /\ s.locator.end = span.end
  BY <1>1, TextLocators
<1>3. \A span \in TextSpans(text) : \E s \in segments : s.locator.start = span.start /\ s.locator.end = span.end
  BY <1>1, TextLocators
<1>4. \A s \in segments : /\ s.locator.start \in Nat /\ s.locator.end \in Nat
                          /\ s.locator.start < s.locator.end /\ s.locator.end <= Len(text)
  BY <1>1, TextSegmentShape
<1>5. ASSUME NEW s \in segments, NEW t \in segments, s.ordinal + 1 = t.ordinal
      PROVE  s.locator.end < t.locator.start /\ BlankLineIn(text, s.locator.end, t.locator.start)
  <2>1. s.ordinal \in Nat /\ t.ordinal \in Nat
    <3>1. Numbered(segments, SpansStart(text), [k \in SpansStart(text) |-> TextAt(d, k)])
      BY <1>1, TextNumbered
    <3>2. /\ Cardinality(segments) \in Nat
          /\ {x.ordinal : x \in segments} = 0 .. (Cardinality(segments) - 1)
      BY <3>1, NumberedSegments
    <3>3. \A x \in segments : x.ordinal \in 0 .. (Cardinality(segments) - 1)
      BY <3>2
    <3>. QED
      BY <3>2, <3>3
  <2>2. s.ordinal < t.ordinal
    BY <1>5, <2>1
  <2>3. s.locator.start < t.locator.start
    BY <2>2, TextInOrder
  <2>4. PICK x \in TextSpans(text) : s.locator.start = x.start /\ s.locator.end = x.end
    BY <1>2
  <2>5. PICK y \in TextSpans(text) : t.locator.start = y.start /\ t.locator.end = y.end
    BY <1>2
  <2>6. PICK gap \in Separators(text) : x.end <= gap.start /\ gap.end <= y.start
    BY <2>3, <2>4, <2>5, GapBetween
  <2>7. gap.start \in Nat /\ gap.end \in Nat /\ gap.start < gap.end
    BY GapShape
  <2>8. x.end \in Nat /\ y.start \in Nat
    BY <1>4, <2>4, <2>5
  <2>9. BlankLineIn(text, x.end, y.start)
    BY <2>6, <2>8, GapHasBlankLine
  <2>. QED
    BY <2>4, <2>5, <2>6, <2>7, <2>8, <2>9
<1>6. ASSUME NEW k \in Offsets(text), At(text, k) \notin Space
      PROVE  \E s \in segments : k \in s.locator.start .. (s.locator.end - 1)
  <2>1. PICK span \in TextSpans(text) : span.start <= k /\ k < span.end
    BY <1>6, TextCovered
  <2>2. PICK s \in segments : s.locator.start = span.start /\ s.locator.end = span.end
    BY <1>3
  <2>3. k \in Nat /\ s.locator.start \in Nat /\ s.locator.end \in Nat
    BY <1>4 DEF Offsets
  <2>. QED
    BY <2>1, <2>2, <2>3
<1>7. ASSUME NEW s \in segments PROVE ~BlankLineIn(text, s.locator.start, s.locator.end)
  <2>1. PICK span \in TextSpans(text) : s.locator.start = span.start /\ s.locator.end = span.end
    BY <1>2
  <2>2. /\ span.start \in Nat /\ span.end \in Nat /\ span.end <= Len(text)
    BY <1>4, <2>1
  <2>3. ASSUME BlankLineIn(text, span.start, span.end) PROVE FALSE
    <3>1. PICK gap \in Separators(text) : span.start < gap.end /\ gap.start < span.end
      BY <2>2, <2>3, BlankLineInGap
    <3>2. gap.end <= span.start \/ span.end <= gap.start
      BY SpanHasNoGap
    <3>3. gap.start \in Nat /\ gap.end \in Nat
      BY GapShape
    <3>. QED
      BY <2>2, <3>1, <3>2, <3>3
  <2>. QED
    BY <2>1, <2>3
<1>. QED
  BY <1>1, <1>5, <1>6, <1>7

\* A row that is not blank says something.
LEMMA RowsSay ==
    ASSUME NEW C, NEW row, row.cells \in Seq(Seq(C))
    PROVE  RowSays(row) <=> ~IsBlank(row)
<1>1. \A i \in DOMAIN row.cells : Strip(row.cells[i]) # << >> <=> Says(row.cells[i])
  BY StripsToNothing DEF Says
<1>. QED
  BY <1>1 DEF RowSays, IsBlank, ToSet

\* The rows that say something are those the parser makes segments of.
LEMMA RowsThatSay ==
    ASSUME NEW C, NEW d, d.rows \in Seq([ok : BOOLEAN, cells : Seq(Seq(C))])
    PROVE  DataRows(d) = {k \in 2 .. Len(d.rows) : RowSays(d.rows[k])}
<1>1. ASSUME NEW k \in 2 .. Len(d.rows) PROVE RowSays(d.rows[k]) <=> k \in DataRows(d)
  <2>1. PICK R : R = [ok : BOOLEAN, cells : Seq(Seq(C))]
    OBVIOUS
  <2>2. PICK rows \in Seq(R) : rows = d.rows
    BY <2>1
  <2>3. k \in 1 .. Len(rows)
    BY <2>2
  <2>4. rows[k] \in R
    BY <2>3
  <2>5. PICK row \in [ok : BOOLEAN, cells : Seq(Seq(C))] : row = d.rows[k]
    BY <2>1, <2>2, <2>4
  <2>6. row.cells \in Seq(Seq(C))
    OBVIOUS
  <2>7. RowSays(row) <=> ~IsBlank(row)
    BY <2>6, RowsSay
  <2>. QED
    BY <2>5, <2>7 DEF DataRows
<1>. QED
  BY <1>1 DEF DataRows

\* Each row of a table that says something is a segment, in its place.
LEMMA TableIsCovered ==
    ASSUME NEW C, NEW d, d.rows \in Seq([ok : BOOLEAN, cells : Seq(Seq(C))]),
           NEW k \in 2 .. Len(d.rows), RowSays(d.rows[k])
    PROVE  \E s \in CsvSegments(d) :
              /\ s.locator.unit.cells = d.rows[k].cells
              /\ s.ordinal = Cardinality({m \in 2 .. (k - 1) : RowSays(d.rows[m])})
<1>1. \A m \in 2 .. Len(d.rows) : RowSays(d.rows[m]) <=> m \in DataRows(d)
  BY RowsThatSay
<1>2. k \in DataRows(d)
  BY <1>1
<1>3. {m \in 2 .. (k - 1) : RowSays(d.rows[m])} = {m \in DataRows(d) : m < k}
  BY <1>1 DEF DataRows
<1>4. CsvAt(d, k) \in CsvSegments(d)
  BY <1>2 DEF CsvAt, CsvSegments
<1>5. /\ CsvAt(d, k).locator.unit = [columns |-> Headers(d), cells |-> d.rows[k].cells]
      /\ CsvAt(d, k).ordinal = Cardinality({m \in DataRows(d) : m < k})
  BY DEF CsvAt, Segment, Locator
<1>6. CsvAt(d, k).locator.unit.cells = d.rows[k].cells
  BY <1>5
<1>. QED
  BY <1>3, <1>4, <1>5, <1>6

PageCovered(segments, k, page) ==
    \E s \in segments, i, j \in 0 .. Len(page) :
        /\ s.id = <<k>> /\ s.text = Slice(page, i, j)
        /\ \A l \in Offsets(page) : At(page, l) \notin Space => l \in i .. (j - 1)

\* Each page that says something is a segment, with all it says.
LEMMA PrintIsCovered ==
    ASSUME NEW C, NEW d, NEW library, d.pages[library] \in Seq(Seq(C)),
           NEW k \in DOMAIN d.pages[library], NEW page, page = d.pages[library][k], Says(page)
    PROVE  PageCovered(PdfSegments(d, library), k, page)
<1>1. page \in Seq(C) /\ Len(page) \in Nat
  OBVIOUS
<1>2. TrimmedSpan(page, 0, Len(page)) # {}
  BY <1>1, StripsToNothing DEF Says
<1>3. k \in Printed(d, library)
  BY <1>2 DEF Printed
<1>4. PdfAt(d, library, k) \in PdfSegments(d, library)
  BY <1>3, PdfNumbered DEF Numbered
<1>5. PICK span : span = PageSpan(page)
  OBVIOUS
<1>6. span \in TrimmedSpan(page, 0, Len(page))
  BY <1>2, <1>5 DEF PageSpan
<1>7. /\ span.start \in Nat /\ span.end \in Nat /\ span.start < span.end /\ span.end <= Len(page)
  BY <1>1, <1>6, SpansInside
<1>8. \A l \in Offsets(page) : At(page, l) \notin Space => span.start <= l /\ l < span.end
  BY <1>6 DEF TrimmedSpan, Offsets
<1>9. PdfAt(d, library, k).id = <<k>> /\ PdfAt(d, library, k).text = Slice(page, span.start, span.end)
  BY <1>5 DEF PdfAt, Segment
<1>10. \A l \in Offsets(page) : At(page, l) \notin Space => l \in span.start .. (span.end - 1)
  BY <1>1, <1>7, <1>8 DEF Offsets
<1>11. span.start \in 0 .. Len(page) /\ span.end \in 0 .. Len(page)
  BY <1>1, <1>7
<1>. QED
  BY <1>4, <1>9, <1>10, <1>11 DEF PageCovered

LEMMA CoverFromInv ==
    ASSUME NEW C, TextsAre(C), PathInv
    PROVE  SegmentsCoverSource
<1>. SUFFICES ASSUME stage = "extract" PROVE SegmentsCoverSource
  BY DEF SegmentsCoverSource
<1>1. /\ document \in Documents /\ config \in Configurations
      /\ Parses(document) /\ parsed = SegmentsOf(document, config.library)
  BY DEF PathInv, PathTypeOK
<1>2. Readable(document, config.library, C) /\ \A s \in parsed : s.text \in Seq(C)
  BY <1>1, SegmentsAreTexts DEF TextsAre
<1>3. /\ document.text \in Seq(C) /\ document.rows \in Seq([ok : BOOLEAN, cells : Seq(Seq(C))])
      /\ document.pages[config.library] \in Seq(Seq(C))
  BY <1>2 DEF Readable
<1>4. {s.ordinal : s \in parsed} = 0 .. (Cardinality(parsed) - 1)
  BY <1>1, <1>2, SegmentsNumbered
<1>5. \A s, t \in parsed : s.id = t.id => s = t
  BY <1>1, <1>2, IdsDistinct
<1>6. \A s \in parsed : ReplayLocator(s.locator, document, config.library) = {s.text}
  <2>. SUFFICES ASSUME NEW s \in parsed
                PROVE  ReplayLocator(s.locator, document, config.library) = {s.text}
    OBVIOUS
  <2>1. s \in SegmentsOf(document, config.library) /\ s.text \in Seq(C)
    BY <1>1, <1>2
  <2>. QED
    BY <1>2, <2>1, WholeReplays
<1>7. ASSUME ParserFor(document) = "text"
      PROVE  /\ \A s, t \in parsed : s.ordinal + 1 = t.ordinal =>
                    /\ s.locator.end < t.locator.start
                    /\ BlankLineIn(document.text, s.locator.end, t.locator.start)
             /\ \A k \in Offsets(document.text) : At(document.text, k) \notin Space =>
                    \E s \in parsed : k \in s.locator.start .. (s.locator.end - 1)
             /\ \A s \in parsed : ~BlankLineIn(document.text, s.locator.start, s.locator.end)
  <2>1. parsed = TextSegments(document)
    BY <1>1, <1>7 DEF SegmentsOf
  <2>. QED
    BY <1>3, <2>1, TextIsCovered
<1>8. ASSUME ParserFor(document) = "csv", NEW k \in 2 .. Len(document.rows), RowSays(document.rows[k])
      PROVE  \E s \in parsed :
                /\ s.locator.unit.cells = document.rows[k].cells
                /\ s.ordinal = Cardinality({m \in 2 .. (k - 1) : RowSays(document.rows[m])})
  <2>1. parsed = CsvSegments(document)
    BY <1>1, <1>8 DEF SegmentsOf
  <2>. QED
    BY <1>3, <1>8, <2>1, TableIsCovered
<1>9. ASSUME ParserFor(document) = "pdf", NEW k \in DOMAIN document.pages[config.library],
             NEW page, page = document.pages[config.library][k], Says(page)
      PROVE  \E s \in parsed, i, j \in 0 .. Len(page) :
                /\ s.id = <<k>> /\ s.text = Slice(page, i, j)
                /\ \A l \in Offsets(page) : At(page, l) \notin Space => l \in i .. (j - 1)
  <2>1. parsed = PdfSegments(document, config.library)
    BY <1>1, <1>9 DEF SegmentsOf
  <2>2. PICK d, library : d = document /\ library = config.library
    OBVIOUS
  <2>3. /\ d.pages[library] \in Seq(Seq(C)) /\ k \in DOMAIN d.pages[library]
        /\ page = d.pages[library][k] /\ Says(page)
    BY <1>3, <1>9, <2>2
  <2>4. PageCovered(PdfSegments(d, library), k, page)
    BY <2>3, PrintIsCovered
  <2>. QED
    BY <2>1, <2>2, <2>4 DEF PageCovered
<1>10. ParserFor(document) = "pdf" =>
          \A k \in DOMAIN document.pages[config.library] :
             LET page == document.pages[config.library][k]
             IN  Says(page) => \E s \in parsed, i, j \in 0 .. Len(page) :
                    /\ s.id = <<k>> /\ s.text = Slice(page, i, j)
                    /\ \A l \in Offsets(page) : At(page, l) \notin Space => l \in i .. (j - 1)
  BY <1>9
<1>. QED
  BY <1>4, <1>5, <1>6, <1>7, <1>8, <1>10, Zenon DEF SegmentsCoverSource

\* The segments a parser makes partition what the source says, and lead back to it.
THEOREM SegmentsArePartition ==
    ASSUME NEW C, TextsAre(C)
    PROVE  Spec => []SegmentsCoverSource
<1>1. PathInv /\ [Next]_vars => PathInv'
  BY PathInvStep
<1>2. PathInv => SegmentsCoverSource
  BY CoverFromInv
<1>. QED
  BY <1>1, <1>2, PathInvInit, PTL DEF Spec

-----------------------------------------------------------------------------
(* What a model is shown. *)

\* What the model was shown is what the payload of the document's segments is.
ContextInv ==
    context # NoContext =>
        /\ config.mode = "openai" /\ Parses(document)
        /\ parsed = SegmentsOf(document, config.library)
        /\ context = ContextPayload(parsed, config)

LEMMA ContextStep == ASSUME PathInv, ContextInv, [Next]_vars PROVE ContextInv'
<1>. USE DEF ContextInv, Unserved, Unstored, Fail, result
<1>1. CASE Parse
  BY <1>1 DEF Parse, PathInv
<1>2. CASE ExtractDemo
  BY <1>2 DEF ExtractDemo
<1>3. CASE AskModel
  BY <1>3 DEF AskModel, PathInv
<1>4. CASE ModelFails
  BY <1>4 DEF ModelFails
<1>5. ASSUME NEW proposal \in Proposals, Bind(proposal) PROVE ContextInv'
  BY <1>5 DEF Bind
<1>6. CASE AnswerEnds
  BY <1>6 DEF AnswerEnds
<1>7. CASE Verify
  BY <1>7 DEF Verify
<1>8. CASE Check
  BY <1>8 DEF Check
<1>9. CASE Persist
  BY <1>9 DEF Persist
<1>10. ASSUME NEW c \in Configurations, Rerun(c) PROVE ContextInv'
  BY <1>10 DEF Rerun, Begin
<1>11. ASSUME NEW row \in evidence, ReadContext(row) PROVE ContextInv'
  BY <1>11 DEF ReadContext
<1>12. ASSUME NEW case \in Cases[document], NEW control \in Controls, Evaluate(case, control) PROVE ContextInv'
  BY <1>12 DEF Evaluate
<1>13. CASE UNCHANGED vars
  BY <1>13 DEF vars
<1>. QED
  BY <1>1, <1>2, <1>3, <1>4, <1>5, <1>6, <1>7, <1>8, <1>9, <1>10, <1>11, <1>12, <1>13 DEF Next

LEMMA BudgetFromInv ==
    ASSUME NEW C, TextsAre(C), PathInv, ContextInv
    PROVE  ContextBudgetKept
<1>. SUFFICES ASSUME context # NoContext PROVE ContextBudgetKept
  BY DEF ContextBudgetKept
<1>1. /\ document \in Documents /\ config \in Configurations /\ Parses(document)
      /\ parsed = SegmentsOf(document, config.library)
      /\ config.mode = "openai" /\ context = ContextPayload(parsed, config)
  BY DEF PathInv, PathTypeOK, ContextInv
<1>2. /\ config.maxSegments \in Nat /\ config.maxCharsPerSegment \in Nat \ {0}
      /\ config.maxTotalChars \in Nat
  <2>1. {config.maxSegments, config.maxCharsPerSegment, config.maxTotalChars} \subseteq Nat \ {0}
    BY <1>1, ConfigurationsAssumption
  <2>. QED
    BY <2>1
<1>3. Readable(document, config.library, C)
  BY <1>1 DEF TextsAre
<1>4. PICK N \in Nat : N = Cardinality(parsed)
  BY <1>1, <1>3, SegmentsNumbered
<1>5. Listed(parsed, N)
  <2>1. /\ {s.ordinal : s \in parsed} = 0 .. (N - 1)
        /\ \A s, t \in parsed : s.ordinal = t.ordinal => s = t
    BY <1>1, <1>3, <1>4, SegmentsNumbered
  <2>. QED
    BY <2>1, SegmentsListed
<1>6. Texts(parsed, N, C)
  <2>1. \A s \in parsed : s.text \in Seq(C)
    BY <1>1, SegmentsAreTexts
  <2>2. \A s \in parsed : s.text # << >>
    BY <1>1, SegmentsSaySomething
  <2>3. \A o \in 0 .. (N - 1) : SegmentAt(parsed, o) \in parsed
    BY <1>5 DEF Listed
  <2>. QED
    BY <1>5, <2>1, <2>2, <2>3, Zenon DEF Texts
<1>7. \A s, t \in parsed : s.id = t.id => s = t
  BY <1>1, <1>3, IdsDistinct
<1>8. WithinBudget(parsed, config, context)
  BY <1>1, <1>2, <1>4, <1>6, <1>7, BudgetKept
<1>. QED
  BY <1>8 DEF WithinBudget, ContextBudgetKept

\* A model is shown the beginning of the document within its three limits, all
\* of it unless a limit is used up, and is told how many segments it was not shown.
THEOREM BudgetIsKept ==
    ASSUME NEW C, TextsAre(C)
    PROVE  Spec => []ContextBudgetKept
<1>1. Init => ContextInv
  BY DEF Init, ContextInv
<1>2. PathInv /\ [Next]_vars => PathInv'
  BY PathInvStep
<1>3. PathInv /\ ContextInv /\ [Next]_vars => ContextInv'
  BY ContextStep
<1>4. PathInv /\ ContextInv => ContextBudgetKept
  BY BudgetFromInv
<1>. QED
  BY <1>1, <1>2, <1>3, <1>4, PathInvInit, PTL DEF Spec

-----------------------------------------------------------------------------
(* What a text says, its white space left out. *)

Inks(text) == [k \in DOMAIN text |-> IF text[k] \in Space THEN << >> ELSE <<text[k]>>]

LEMMA InksType ==
    ASSUME NEW C, NEW text \in Seq(C)
    PROVE  Inks(text) \in Seq(Seq(C)) /\ Len(Inks(text)) = Len(text) /\ Ink(text) = FlattenSeq(Inks(text))
<1>1. PICK n \in Nat : n = Len(text) /\ DOMAIN text = 1 .. n
  OBVIOUS
<1>2. ASSUME NEW k \in 1 .. n PROVE (IF text[k] \in Space THEN << >> ELSE <<text[k]>>) \in Seq(C)
  <2>1. text[k] \in C
    BY <1>1
  <2>2. <<text[k]>> \in Seq(C) /\ << >> \in Seq(C)
    BY <2>1
  <2>. QED
    BY <2>2
<1>3. PICK V : V = Seq(C)
  OBVIOUS
<1>. DEFINE part(k) == IF text[k] \in Space THEN << >> ELSE <<text[k]>>
<1>4. Inks(text) = [k \in 1 .. n |-> part(k)] /\ \A k \in 1 .. n : part(k) \in V
  BY <1>1, <1>2, <1>3 DEF Inks
<1>. HIDE DEF part
<1>5. Inks(text) \in Seq(V) /\ Len(Inks(text)) = n
  BY <1>4
<1>6. Ink(text) = FlattenSeq(Inks(text))
  BY DEF Ink, Inks
<1>. QED
  BY <1>1, <1>3, <1>5, <1>6

LEMMA InkType ==
    ASSUME NEW C, NEW text \in Seq(C)
    PROVE  Ink(text) \in Seq(C)
BY InksType, FlattenType

\* Of two texts joined, each says what it says alone.
LEMMA InkJoin ==
    ASSUME NEW C, NEW a \in Seq(C), NEW b \in Seq(C)
    PROVE  Ink(a \o b) = Ink(a) \o Ink(b)
<1>1. PICK m \in Nat, n \in Nat : m = Len(a) /\ n = Len(b)
  OBVIOUS
<1>2. PICK ab \in Seq(C) : ab = a \o b /\ Len(ab) = m + n
  BY <1>1, JoinType
<1>3. \A k \in 1 .. m : ab[k] = a[k]
  BY <1>1, <1>2
<1>4. \A k \in 1 .. n : ab[m + k] = b[k]
  BY <1>1, <1>2
<1>5. PICK V : V = Seq(C)
  OBVIOUS
<1>a. PICK x \in Seq(V) : x = Inks(a) /\ Len(x) = m
  BY <1>1, <1>5, InksType
<1>b. PICK y \in Seq(V) : y = Inks(b) /\ Len(y) = n
  BY <1>1, <1>5, InksType
<1>c. PICK z \in Seq(V) : z = Inks(ab) /\ Len(z) = m + n
  BY <1>2, <1>5, InksType
<1>6. /\ x = Inks(a) /\ y = Inks(b) /\ z = Inks(ab)
      /\ Len(x) = m /\ Len(y) = n /\ Len(z) = m + n
  BY <1>a, <1>b, <1>c
<1>7. PICK xy \in Seq(V) : xy = x \o y /\ Len(xy) = Len(x) + Len(y)
  BY JoinType, Zenon
<1>8. /\ \A k \in 1 .. m : x[k] = IF a[k] \in Space THEN << >> ELSE <<a[k]>>
      /\ \A k \in 1 .. n : y[k] = IF b[k] \in Space THEN << >> ELSE <<b[k]>>
      /\ \A k \in 1 .. (m + n) : z[k] = IF ab[k] \in Space THEN << >> ELSE <<ab[k]>>
  BY <1>1, <1>2, <1>6 DEF Inks
<1>9. ASSUME NEW k \in 1 .. (m + n) PROVE z[k] = xy[k]
  <2>1. CASE k <= m
    <3>1. k \in 1 .. m
      BY <2>1
    <3>2. xy[k] = x[k]
      BY <1>6, <1>7, <3>1
    <3>3. ab[k] = a[k]
      BY <1>3, <3>1
    <3>. QED
      BY <1>8, <3>1, <3>2, <3>3, Zenon
  <2>2. CASE ~(k <= m)
    <3>1. PICK r \in 1 .. n : k = m + r
      <4>1. k - m \in 1 .. n /\ k = m + (k - m)
        BY <2>2
      <4>. QED
        BY <4>1
    <3>2. xy[k] = y[r]
      <4>1. (x \o y)[Len(x) + r] = y[r]
        BY <1>6, <3>1, JoinAt
      <4>. QED
        BY <1>6, <1>7, <3>1, <4>1
    <3>3. ab[k] = b[r]
      BY <1>4, <3>1
    <3>. QED
      BY <1>8, <3>1, <3>2, <3>3, Zenon
  <2>. QED
    BY <2>1, <2>2
<1>10. z = xy
  <2>1. Len(xy) = m + n
    BY <1>6, <1>7
  <2>. QED
    BY <1>6, <1>9, <2>1
<1>11. Ink(ab) = FlattenSeq(z) /\ Ink(a) = FlattenSeq(x) /\ Ink(b) = FlattenSeq(y)
  BY <1>2, <1>6, InksType
<1>12. FlattenSeq(x \o y) = FlattenSeq(x) \o FlattenSeq(y)
  BY <1>5, <1>6, FlattenJoin
<1>. QED
  BY <1>2, <1>7, <1>10, <1>11, <1>12

\* White space says nothing.
LEMMA InkOfSpace ==
    ASSUME NEW C, NEW text \in Seq(C), \A k \in 1 .. Len(text) : text[k] \in Space
    PROVE  Ink(text) = << >>
<1>1. PICK n \in Nat : n = Len(text)
  OBVIOUS
<1>2. PICK V : V = Seq(C)
  OBVIOUS
<1>3. PICK x \in Seq(V) : x = Inks(text) /\ Len(x) = n
  BY <1>1, <1>2, InksType
<1>4. PICK none \in V : none = << >>
  <2>1. << >> \in Seq(C)
    OBVIOUS
  <2>. QED
    BY <1>2, <2>1, Zenon
<1>5. \A k \in 1 .. n : x[k] = none
  BY <1>1, <1>3, <1>4 DEF Inks
<1>. DEFINE c == [k \in 0 .. n |-> none]
<1>6. none \o none = none
  BY <1>4
<1>7. Accumulates(c, x, C)
  <2>1. c \in [0 .. Len(x) -> Seq(C)]
    BY <1>2, <1>3
  <2>2. c[0] = << >>
    BY <1>4
  <2>3. \A k \in 1 .. Len(x) : c[k] = none /\ c[k - 1] = none /\ x[k] = none
    BY <1>3, <1>5
  <2>. HIDE DEF c
  <2>. QED
    BY <1>6, <2>1, <2>2, <2>3 DEF Accumulates
<1>8. FlattenSeq(x) = c[Len(x)]
  <2>1. x \in Seq(Seq(C))
    BY <1>2
  <2>. HIDE DEF c
  <2>. QED
    BY <1>7, <2>1, FlattenIs
<1>9. c[Len(x)] = none
  BY <1>3
<1>10. Ink(text) = FlattenSeq(x)
  BY <1>3, InksType
<1>. QED
  BY <1>4, <1>8, <1>9, <1>10

LEMMA SameInk ==
    ASSUME NEW C, NEW a \in Seq(C), NEW b \in Seq(C), NEW x \in Seq(C), NEW y \in Seq(C),
           Ink(a) = Ink(x), Ink(b) = Ink(y)
    PROVE  Ink(a \o b) = Ink(x \o y)
<1>1. Ink(a \o b) = Ink(a) \o Ink(b)
  BY InkJoin
<1>2. Ink(x \o y) = Ink(x) \o Ink(y)
  BY InkJoin
<1>. QED
  BY <1>1, <1>2

\* A blank line between two parts says nothing.
LEMMA JoinedInk ==
    ASSUME NEW C, Space \subseteq C, NEW a \in Seq(C), NEW b \in Seq(C)
    PROVE  Joined(a, b) \in Seq(C) /\ Ink(Joined(a, b)) = Ink(a \o b)
<1>1. PICK none \in Seq(C), line \in Seq(C) :
        none = << >> /\ line = <<"nl", "nl">> /\ Len(line) = 2 /\ line[1] = "nl" /\ line[2] = "nl"
  <2>1. PICK nl \in C : nl = "nl"
    BY DEF Space
  <2>2. <<nl, nl>> \in Seq(C) /\ Len(<<nl, nl>>) = 2 /\ <<nl, nl>>[1] = nl /\ <<nl, nl>>[2] = nl
    BY <2>1
  <2>3. << >> \in Seq(C)
    OBVIOUS
  <2>. QED
    BY <2>1, <2>2, <2>3
<1>2. Ink(none) = Ink(line)
  <2>1. \A k \in 1 .. Len(line) : line[k] \in Space
    BY <1>1 DEF Space
  <2>2. \A k \in 1 .. Len(none) : none[k] \in Space
    BY <1>1
  <2>3. Ink(line) = << >>
    BY <2>1, InkOfSpace
  <2>4. Ink(none) = << >>
    BY <2>2, InkOfSpace
  <2>. QED
    BY <2>3, <2>4
<1>3. PICK between \in Seq(C) : between = (IF << >> \in {a, b} THEN none ELSE line) /\ Ink(between) = Ink(none)
  BY <1>2
<1>4. Joined(a, b) = (a \o between) \o b
  BY <1>1, <1>3 DEF Joined
<1>5. PICK left \in Seq(C) : left = a \o between
  BY JoinType
<1>6. a \o none = a
  BY <1>1
<1>7. Ink(left) = Ink(a)
  <2>1. Ink(a \o between) = Ink(a \o none)
    BY <1>3, SameInk
  <2>. QED
    BY <1>5, <1>6, <2>1
<1>8. Ink(left \o b) = Ink(a \o b) /\ left \o b \in Seq(C)
  BY <1>7, SameInk, JoinType
<1>. QED
  BY <1>4, <1>5, <1>8

-----------------------------------------------------------------------------
(* What a reader is shown. *)

\* A draft, or a row of evidence, that quotes its segment where it says it does.
Cites(draft, segments, C) ==
    \E s \in segments, start \in Nat :
        /\ draft.segment = s.id /\ draft.quote \in Seq(C)
        /\ start + Len(draft.quote) <= Len(s.text) /\ IsExactSpan(s, draft.quote, start)
        /\ draft.locator = NarrowLocator(s, draft.quote, start)

LEMMA DraftCites ==
    ASSUME NEW C, NEW segments, NEW s \in segments, NEW quote \in Seq(C), NEW start \in Nat,
           start + Len(quote) <= Len(s.text), IsExactSpan(s, quote, start), NEW observation, NEW method,
           NEW draft, draft = Draft(s, quote, start, observation, method)
    PROVE  Cites(draft, segments, C)
<1>1. draft.segment = s.id /\ draft.quote = quote /\ draft.locator = NarrowLocator(s, quote, start)
  BY DEF Draft
<1>. QED
  BY <1>1 DEF Cites

\* A claim that is bound is cited from where it is.
LEMMA BoundCites ==
    ASSUME NEW d, NEW library, NEW C, Readable(d, library, C),
           NEW segments, segments = SegmentsOf(d, library), \A s \in segments : s.text \in Seq(C),
           NEW proposal, proposal.quote \in Seq(C), proposal.quote # << >>, proposal.start \in Nat,
           Binds(proposal, segments)
    PROVE  Cites(BoundDraft(proposal, segments), segments, C)
<1>. DEFINE chosen == CHOOSE s \in Named(proposal, segments) : TRUE
<1>1. PICK s \in segments : s.id = proposal.segment /\ IsExactSpan(s, proposal.quote, proposal.start)
  BY DEF Binds, Named
<1>2. chosen \in segments /\ chosen.id = proposal.segment
  BY <1>1 DEF Named
<1>3. BoundDraft(proposal, segments)
        = Draft(chosen, proposal.quote, proposal.start, proposal.observation, "openai")
  BY DEF BoundDraft
<1>. HIDE DEF chosen
<1>4. chosen = s
  BY <1>1, <1>2, IdsDistinct
<1>5. PICK text \in Seq(C), quote \in Seq(C), start \in Nat :
        text = s.text /\ quote = proposal.quote /\ start = proposal.start /\ quote # << >>
  BY <1>1
<1>6. Slice(text, start, start + Len(quote)) = quote
  BY <1>1, <1>5 DEF IsExactSpan
<1>7. start + Len(quote) <= Len(text)
  BY <1>5, <1>6, ExactSlice
<1>8. PICK draft : draft = Draft(s, quote, start, proposal.observation, "openai")
  OBVIOUS
<1>9. Cites(draft, segments, C)
  BY <1>1, <1>5, <1>7, <1>8, DraftCites
<1>. QED
  BY <1>3, <1>4, <1>5, <1>8, <1>9

\* The demo cites the beginnings of the first segments.
LEMMA DemoCites ==
    ASSUME NEW d, NEW library, NEW C, Readable(d, library, C),
           NEW segments, segments = SegmentsOf(d, library), \A s \in segments : s.text \in Seq(C),
           NEW c, c.maxEvidence \in Nat, c.maxQuoteChars \in Nat,
           NEW i \in DOMAIN DemoDrafts(segments, c)
    PROVE  Cites(DemoDrafts(segments, c)[i], segments, C)
<1>1. PICK N \in Nat : N = Cardinality(segments)
  BY SegmentsNumbered
<1>2. Listed(segments, N)
  <2>1. /\ {s.ordinal : s \in segments} = 0 .. (N - 1)
        /\ \A s, t \in segments : s.ordinal = t.ordinal => s = t
    BY <1>1, SegmentsNumbered
  <2>. QED
    BY <2>1, SegmentsListed
<1>3. PICK n \in Nat : n = Least({N, c.maxEvidence}) /\ n <= N
  BY LeastOfTwo
<1>4. DemoDrafts(segments, c) = [j \in 1 .. n |->
        Draft(SegmentAt(segments, j - 1), SelectQuote(SegmentAt(segments, j - 1).text, c.maxQuoteChars), 0,
              DemoObservation, "demo")]
  BY <1>1, <1>3 DEF DemoDrafts
<1>5. i \in 1 .. n /\ i - 1 \in 0 .. (N - 1)
  BY <1>3, <1>4
<1>6. PICK s \in segments : s = SegmentAt(segments, i - 1)
  BY <1>2, <1>5 DEF Listed
<1>7. PICK text \in Seq(C), most \in Nat : text = s.text /\ most = c.maxQuoteChars
  OBVIOUS
<1>8. PICK draft : draft = DemoDrafts(segments, c)[i]
  OBVIOUS
<1>9. draft = Draft(s, SelectQuote(text, most), 0, DemoObservation, "demo")
  BY <1>4, <1>5, <1>6, <1>7, <1>8
<1>10. PICK e \in 0 .. Len(text) : SelectQuote(text, most) = Slice(text, 0, e)
  BY QuoteIsPrefix
<1>11. PICK zero \in Nat : zero = 0
  OBVIOUS
<1>12. e \in Nat /\ zero + e <= Len(text) /\ zero + e = e
  BY <1>11
<1>13. PICK quote \in Seq(C) : quote = Slice(text, zero, zero + e) /\ Len(quote) = e
  BY <1>12, SliceInside
<1>14. IsExactSpan(s, quote, zero)
  BY <1>7, <1>13 DEF IsExactSpan
<1>15. draft = Draft(s, quote, zero, DemoObservation, "demo")
  BY <1>9, <1>10, <1>11, <1>12, <1>13
<1>16. Cites(draft, segments, C)
  BY <1>7, <1>12, <1>13, <1>14, <1>15, DraftCites
<1>. QED
  BY <1>8, <1>16

DraftsCite(C) ==
    stage \notin {"parse", "failed"} => \A i \in DOMAIN drafts : Cites(drafts[i], parsed, C)

LEMMA DraftsCiteStep ==
    ASSUME NEW C, TextsAre(C), PathInv, AnswerInv(C), DraftsCite(C), [Next]_vars
    PROVE  DraftsCite(C)'
<1>. USE DEF DraftsCite, Unserved, Unstored, Fail, result
<1>1. CASE Parse
  <2>1. drafts = << >>
    BY <1>1 DEF Parse, PathInv
  <2>. QED
    BY <1>1, <2>1 DEF Parse
<1>2. CASE ExtractDemo
  <2>1. /\ document \in Documents /\ config \in Configurations /\ Parses(document)
        /\ parsed = SegmentsOf(document, config.library) /\ config.mode = "demo"
    BY <1>2 DEF ExtractDemo, PathInv, PathTypeOK
  <2>2. config.maxEvidence \in Nat /\ config.maxQuoteChars \in Nat
    BY <2>1, ConfigurationsAssumption
  <2>3. Readable(document, config.library, C) /\ \A s \in parsed : s.text \in Seq(C)
    BY <2>1, SegmentsAreTexts DEF TextsAre
  <2>4. \A i \in DOMAIN DemoDrafts(parsed, config) : Cites(DemoDrafts(parsed, config)[i], parsed, C)
    BY <2>1, <2>2, <2>3, DemoCites
  <2>5. drafts' = DemoDrafts(parsed, config) /\ parsed' = parsed
    BY <1>2 DEF ExtractDemo
  <2>. QED
    BY <2>4, <2>5
<1>3. CASE AskModel
  BY <1>3 DEF AskModel
<1>4. CASE ModelFails
  BY <1>4 DEF ModelFails
<1>5. ASSUME NEW proposal \in Proposals, Bind(proposal) PROVE DraftsCite(C)'
  <2>1. CASE Binds(proposal, parsed)
    <3>1. /\ stage = "bind" /\ config.mode = "openai" /\ document \in Documents /\ config \in Configurations
          /\ Parses(document) /\ parsed = SegmentsOf(document, config.library)
      BY <1>5 DEF Bind, AnswerInv, PathInv, PathTypeOK
    <3>2. Readable(document, config.library, C) /\ \A s \in parsed : s.text \in Seq(C)
      BY <3>1, SegmentsAreTexts DEF TextsAre
    <3>3. proposal.quote \in Seq(C) /\ proposal.quote # << >> /\ proposal.start \in Nat
      BY <3>1, ProposalsAreTexts, ProposalsSaySomething
    <3>4. PICK draft : draft = BoundDraft(proposal, parsed)
      OBVIOUS
    <3>5. Cites(draft, parsed, C)
      BY <2>1, <3>1, <3>2, <3>3, <3>4, BoundCites
    <3>6. PICK S : drafts \in Seq(S)
      BY <3>1 DEF PathInv
    <3>7. drafts' = Append(drafts, draft) /\ UNCHANGED <<stage, parsed>>
      BY <1>5, <2>1, <3>4 DEF Bind
    <3>8. \A i \in DOMAIN drafts' : drafts'[i] = draft \/ (i \in DOMAIN drafts /\ drafts'[i] = drafts[i])
      BY <3>6, <3>7
    <3>. QED
      BY <3>1, <3>5, <3>7, <3>8
  <2>2. CASE ~Binds(proposal, parsed)
    BY <1>5, <2>2 DEF Bind
  <2>. QED
    BY <2>1, <2>2
<1>6. CASE AnswerEnds
  BY <1>6 DEF AnswerEnds
<1>7. CASE Verify
  BY <1>7 DEF Verify
<1>8. CASE Check
  BY <1>8 DEF Check
<1>9. CASE Persist
  BY <1>9 DEF Persist
<1>10. ASSUME NEW c \in Configurations, Rerun(c) PROVE DraftsCite(C)'
  BY <1>10 DEF Rerun, Begin
<1>11. ASSUME NEW row \in evidence, ReadContext(row) PROVE DraftsCite(C)'
  BY <1>11 DEF ReadContext
<1>12. ASSUME NEW case \in Cases[document], NEW control \in Controls, Evaluate(case, control) PROVE DraftsCite(C)'
  BY <1>12 DEF Evaluate
<1>13. CASE UNCHANGED vars
  BY <1>13 DEF vars
<1>. QED
  BY <1>1, <1>2, <1>3, <1>4, <1>5, <1>6, <1>7, <1>8, <1>9, <1>10, <1>11, <1>12, <1>13 DEF Next

\* The rows of evidence cite the stored segments, which are the document's under
\* one of the configurations, and what was served is the context of one of them.
ReaderInv(C) ==
    /\ stored # {} => Parses(document) /\ \E c \in Configurations : stored = SegmentsOf(document, c.library)
    /\ \A row \in evidence : row.content = ContentPayload(row) /\ Cites(row, stored, C)
    /\ view # Nothing => stage \in {"published", "failed"} /\ \E row \in evidence : view = EvidenceContext(row)

LEMMA ReaderKept ==
    ASSUME NEW C, ReaderInv(C), UNCHANGED <<document, stored, evidence>>,
           view' # Nothing => stage' \in {"published", "failed"} /\ \E row \in evidence : view' = EvidenceContext(row)
    PROVE  ReaderInv(C)'
<1>1. \A row : EvidenceContext(row)' = EvidenceContext(row)
  BY DEF EvidenceContext
<1>. QED
  BY <1>1 DEF ReaderInv

LEMMA ReaderPersists ==
    ASSUME NEW C, PathInv, DraftsCite(C), ReaderInv(C), Persist, stage' = "published"
    PROVE  ReaderInv(C)'
<1>1. /\ stage = "returned" /\ Parses(document) /\ config \in Configurations
      /\ parsed = SegmentsOf(document, config.library) /\ stored \in {{}, parsed}
      /\ stored' = parsed /\ UNCHANGED <<document, view>>
      /\ evidence' = evidence \cup {EvidenceRow(drafts[i]) : i \in DOMAIN drafts}
  BY DEF Persist, Fail, Unserved, PathInv, PathTypeOK
<1>2. view = Nothing
  BY <1>1 DEF ReaderInv
<1>3. ASSUME NEW row \in evidence PROVE row.content = ContentPayload(row) /\ Cites(row, parsed, C)
  BY <1>1 DEF ReaderInv, Cites
<1>4. ASSUME NEW i \in DOMAIN drafts, NEW row, row = EvidenceRow(drafts[i])
      PROVE  row.content = ContentPayload(row) /\ Cites(row, parsed, C)
  <2>1. PICK draft : draft = drafts[i]
    OBVIOUS
  <2>2. Cites(draft, parsed, C)
    BY <1>1, <2>1 DEF DraftsCite
  <2>3. /\ row.segment = draft.segment /\ row.quote = draft.quote /\ row.locator = draft.locator
        /\ row.observation = draft.observation /\ row.content = ContentPayload(draft)
    BY <1>4, <2>1 DEF EvidenceRow
  <2>4. Cites(row, parsed, C)
    BY <2>2, <2>3 DEF Cites
  <2>. QED
    BY <2>3, <2>4 DEF ContentPayload
<1>5. \A row \in evidence' : row.content = ContentPayload(row) /\ Cites(row, parsed, C)
  BY <1>1, <1>3, <1>4
<1>. QED
  BY <1>1, <1>2, <1>5 DEF ReaderInv

LEMMA ReaderStep ==
    ASSUME NEW C, PathInv, DraftsCite(C), ReaderInv(C), [Next]_vars
    PROVE  ReaderInv(C)'
<1>. USE DEF Unserved, Unstored, Fail, result
<1>0. view # Nothing => stage \in {"published", "failed"} /\ \E row \in evidence : view = EvidenceContext(row)
  BY DEF ReaderInv
<1>1. CASE Parse
  BY <1>0, <1>1, ReaderKept DEF Parse
<1>2. CASE ExtractDemo
  BY <1>0, <1>2, ReaderKept DEF ExtractDemo
<1>3. CASE AskModel
  BY <1>0, <1>3, ReaderKept DEF AskModel
<1>4. CASE ModelFails
  BY <1>0, <1>4, ReaderKept DEF ModelFails
<1>5. ASSUME NEW proposal \in Proposals, Bind(proposal) PROVE ReaderInv(C)'
  BY <1>0, <1>5, ReaderKept DEF Bind
<1>6. CASE AnswerEnds
  BY <1>0, <1>6, ReaderKept DEF AnswerEnds
<1>7. CASE Verify
  BY <1>0, <1>7, ReaderKept DEF Verify
<1>8. CASE Check
  BY <1>0, <1>8, ReaderKept DEF Check
<1>9. CASE Persist
  <2>1. CASE stage' = "published"
    BY <1>9, <2>1, ReaderPersists
  <2>2. CASE stage' # "published"
    BY <1>0, <1>9, <2>2, ReaderKept DEF Persist
  <2>. QED
    BY <2>1, <2>2
<1>10. ASSUME NEW c \in Configurations, Rerun(c) PROVE ReaderInv(C)'
  BY <1>0, <1>10, ReaderKept DEF Rerun, Begin
<1>11. ASSUME NEW row \in evidence, ReadContext(row) PROVE ReaderInv(C)'
  BY <1>0, <1>11, ReaderKept DEF ReadContext
<1>12. ASSUME NEW case \in Cases[document], NEW control \in Controls, Evaluate(case, control) PROVE ReaderInv(C)'
  BY <1>0, <1>12, ReaderKept DEF Evaluate
<1>13. CASE UNCHANGED vars
  BY <1>0, <1>13, ReaderKept DEF vars
<1>. QED
  BY <1>1, <1>2, <1>3, <1>4, <1>5, <1>6, <1>7, <1>8, <1>9, <1>10, <1>11, <1>12, <1>13 DEF Next

\* Segments that are told apart by their ordinals, their texts of characters of C.
Ordered(segments, C) ==
    /\ \A u \in segments : u.ordinal \in Nat /\ u.text \in Seq(C)
    /\ \A u, v \in segments : u.ordinal = v.ordinal => u = v

LEMMA TextOfSegment ==
    ASSUME NEW C, NEW segments, Ordered(segments, C), NEW o
    PROVE  /\ TextOf(segments, o) \in Seq(C)
           /\ \A p \in segments : p.ordinal = o => TextOf(segments, o) = p.text
           /\ (\A p \in segments : p.ordinal # o) => TextOf(segments, o) = << >>
<1>1. CASE \E p \in segments : p.ordinal = o
  <2>1. PICK p \in segments : p.ordinal = o
    BY <1>1
  <2>2. SegmentAt(segments, o) \in segments /\ SegmentAt(segments, o).ordinal = o
    BY <1>1 DEF SegmentAt
  <2>3. SegmentAt(segments, o) = p
    BY <2>1, <2>2 DEF Ordered
  <2>4. TextOf(segments, o) = p.text
    BY <1>1, <2>3 DEF TextOf
  <2>. QED
    BY <2>1, <2>4 DEF Ordered
<1>2. CASE \A p \in segments : p.ordinal # o
  <2>1. TextOf(segments, o) = << >>
    BY <1>2 DEF TextOf
  <2>. QED
    BY <1>2, <2>1
<1>. QED
  BY <1>1, <1>2

\* From a segment of a text to the end of the one before it: white space.
LEMMA Gap ==
    ASSUME NEW d, NEW C, d.text \in Seq(C), Ordered(TextSegments(d), C),
           NEW p \in TextSegments(d), NEW s \in TextSegments(d), s.ordinal = p.ordinal + 1
    PROVE  /\ p.locator.end \in Nat /\ s.locator.start \in Nat
           /\ p.locator.end <= s.locator.start /\ s.locator.start <= Len(d.text)
           /\ Slice(d.text, p.locator.end, s.locator.start) \in Seq(C)
           /\ Ink(Slice(d.text, p.locator.end, s.locator.start)) = << >>
<1>1. PICK text \in Seq(C) : text = d.text
  OBVIOUS
<1>2. PICK i \in Nat, j \in Nat : i = p.locator.end /\ j = s.locator.start
  BY TextSegmentShape
<1>3. i <= j
  <2>1. p.ordinal < s.ordinal
    BY DEF Ordered
  <2>. QED
    BY <1>2, <2>1, TextDisjoint
<1>4. j < Len(text)
  <2>1. s.locator.start < s.locator.end /\ s.locator.end <= Len(d.text) /\ s.locator.end \in Nat
    BY TextSegmentShape
  <2>. QED
    BY <1>1, <1>2, <2>1
<1>5. PICK n \in Nat : j = i + n
  <2>1. j - i \in Nat /\ j = i + (j - i)
    BY <1>3
  <2>. QED
    BY <2>1
<1>6. PICK gap \in Seq(C) : gap = Slice(text, i, j) /\ Len(gap) = n /\ \A l \in 1 .. n : gap[l] = text[i + l]
  <2>1. i + n <= Len(text)
    BY <1>4, <1>5
  <2>2. /\ Slice(text, i, i + n) \in Seq(C) /\ Len(Slice(text, i, i + n)) = n
        /\ \A l \in 1 .. n : Slice(text, i, i + n)[l] = text[i + l]
    BY <2>1, SliceInside
  <2>. QED
    BY <1>5, <2>2
<1>7. ASSUME NEW l \in 1 .. n PROVE gap[l] \in Space
  <2>1. PICK k \in Nat : k = i + l - 1 /\ k + 1 = i + l
    <3>1. i + l - 1 \in Nat /\ (i + l - 1) + 1 = i + l
      OBVIOUS
    <3>. QED
      BY <3>1
  <2>2. k \in i .. (j - 1) /\ k \in Offsets(text)
    BY <1>4, <1>5, <2>1 DEF Offsets
  <2>3. /\ \A u \in TextSegments(d) : u.ordinal \in Nat
        /\ \A u, v \in TextSegments(d) : u.ordinal = v.ordinal => u = v
    BY DEF Ordered
  <2>4. At(text, k) \in Space
    BY <1>1, <1>2, <2>2, <2>3, BetweenNeighbours
  <2>. QED
    BY <1>6, <2>1, <2>4 DEF At
<1>8. Ink(gap) = << >>
  BY <1>6, <1>7, InkOfSpace
<1>. QED
  BY <1>1, <1>2, <1>3, <1>4, <1>6, <1>8

\* The text between the segment before and this one says what that one does, and
\* so on the other side.
LEMMA BeforeAndAfter ==
    ASSUME NEW d, NEW C, d.text \in Seq(C), Ordered(TextSegments(d), C),
           NEW p \in TextSegments(d), NEW s \in TextSegments(d), s.ordinal = p.ordinal + 1
    PROVE  /\ Slice(d.text, p.locator.start, s.locator.start) \in Seq(C)
           /\ Ink(Slice(d.text, p.locator.start, s.locator.start)) = Ink(p.text)
           /\ Slice(d.text, p.locator.end, s.locator.end) \in Seq(C)
           /\ Ink(Slice(d.text, p.locator.end, s.locator.end)) = Ink(s.text)
<1>1. PICK text \in Seq(C) : text = d.text
  OBVIOUS
<1>2. PICK a \in Nat, b \in Nat, x \in Nat, y \in Nat :
        /\ a = p.locator.start /\ b = p.locator.end /\ x = s.locator.start /\ y = s.locator.end
        /\ a < b /\ x < y /\ y <= Len(text)
        /\ p.text = Slice(text, a, b) /\ s.text = Slice(text, x, y)
  <2>1. /\ p.locator.start \in Nat /\ p.locator.end \in Nat /\ p.locator.start < p.locator.end
        /\ p.text = Slice(d.text, p.locator.start, p.locator.end)
    BY TextSegmentShape
  <2>2. /\ s.locator.start \in Nat /\ s.locator.end \in Nat /\ s.locator.start < s.locator.end
        /\ s.locator.end <= Len(d.text) /\ s.text = Slice(d.text, s.locator.start, s.locator.end)
    BY TextSegmentShape
  <2>. QED
    BY <1>1, <2>1, <2>2
<1>3. b <= x /\ x <= Len(text) /\ Slice(text, b, x) \in Seq(C) /\ Ink(Slice(text, b, x)) = << >>
  BY <1>1, <1>2, Gap
<1>4. PICK gap \in Seq(C), first \in Seq(C), second \in Seq(C), none \in Seq(C) :
        /\ gap = Slice(text, b, x) /\ first = p.text /\ second = s.text
        /\ none = << >> /\ Ink(gap) = << >> /\ Ink(none) = << >>
  <2>1. << >> \in Seq(C)
    OBVIOUS
  <2>2. \A none \in Seq(C) : none = << >> => Ink(none) = << >>
    <3>. SUFFICES ASSUME NEW none \in Seq(C), none = << >> PROVE Ink(none) = << >>
      OBVIOUS
    <3>1. \A k \in 1 .. Len(none) : none[k] \in Space
      OBVIOUS
    <3>. QED
      BY <3>1, InkOfSpace
  <2>3. p.text \in Seq(C) /\ s.text \in Seq(C)
    BY DEF Ordered
  <2>. QED
    BY <1>3, <2>1, <2>2, <2>3
<1>5. Slice(text, a, x) = first \o gap
  <2>1. a <= b /\ b <= x /\ x <= Len(text)
    BY <1>2, <1>3
  <2>2. Slice(text, a, x) = Slice(text, a, b) \o Slice(text, b, x)
    BY <2>1, SliceSplit
  <2>. QED
    BY <1>2, <1>4, <2>2
<1>6. Slice(text, b, y) = gap \o second
  <2>1. b <= x /\ x <= y /\ y <= Len(text)
    BY <1>2, <1>3
  <2>2. Slice(text, b, y) = Slice(text, b, x) \o Slice(text, x, y)
    BY <2>1, SliceSplit
  <2>. QED
    BY <1>2, <1>4, <2>2
<1>7. first \o gap \in Seq(C) /\ gap \o second \in Seq(C)
  BY JoinType
<1>8. Ink(first \o gap) = Ink(first)
  <2>1. Ink(first \o gap) = Ink(first \o none)
    <3>1. Ink(gap) = Ink(none)
      BY <1>4, Zenon
    <3>2. /\ Ink(first \o gap) = Ink(first) \o Ink(gap)
          /\ Ink(first \o none) = Ink(first) \o Ink(none)
      BY InkJoin, Zenon
    <3>. QED
      BY <3>1, <3>2, Zenon
  <2>2. first \o none = first
    BY <1>4, JoinNothing
  <2>. QED
    BY <2>1, <2>2
<1>9. Ink(gap \o second) = Ink(second)
  <2>1. Ink(gap \o second) = Ink(none \o second)
    <3>1. Ink(gap) = Ink(none)
      BY <1>4, Zenon
    <3>2. /\ Ink(gap \o second) = Ink(gap) \o Ink(second)
          /\ Ink(none \o second) = Ink(none) \o Ink(second)
      BY InkJoin, Zenon
    <3>. QED
      BY <3>1, <3>2, Zenon
  <2>2. none \o second = second
    BY <1>4, JoinNothing
  <2>. QED
    BY <2>1, <2>2
<1>10. /\ Slice(text, a, x) \in Seq(C) /\ Ink(Slice(text, a, x)) = Ink(p.text)
       /\ Slice(text, b, y) \in Seq(C) /\ Ink(Slice(text, b, y)) = Ink(s.text)
  BY <1>4, <1>5, <1>6, <1>7, <1>8, <1>9
<1>. QED
  BY <1>1, <1>2, <1>10

\* Five parts joined: how they are grouped makes no difference.
Regroups(a, l, q, r, b) == ((a \o l) \o q) \o (r \o b) = (a \o ((l \o q) \o r)) \o b

LEMMA Regrouped ==
    ASSUME NEW S, NEW a \in Seq(S), NEW l \in Seq(S), NEW q \in Seq(S), NEW r \in Seq(S), NEW b \in Seq(S)
    PROVE  Regroups(a, l, q, r, b)
<1>1. PICK lq \in Seq(S) : lq = l \o q
  BY JoinType
<1>2. PICK alq \in Seq(S) : alq = a \o lq
  BY JoinType
<1>3. Associates(a, l, q) /\ Associates(alq, r, b) /\ Associates(a, lq, r)
  BY JoinAssociative, Zenon
<1>4. /\ (a \o l) \o q = a \o (l \o q) /\ (alq \o r) \o b = alq \o (r \o b)
      /\ (a \o lq) \o r = a \o (lq \o r)
  BY <1>3 DEF Associates
<1>5. ((a \o l) \o q) \o (r \o b) = (a \o ((l \o q) \o r)) \o b
  BY <1>1, <1>2, <1>4, Zenon
<1>. QED
  BY <1>5, Zenon DEF Regroups

\* What a segment is shown between, its own words cut in three and joined again.
ShowsInk(a, left, quote, right, b, text) ==
    Ink((Joined(a, left) \o quote) \o Joined(right, b)) = Ink((a \o text) \o b)

LEMMA ShownInk ==
    ASSUME NEW C, Space \subseteq C, NEW a \in Seq(C), NEW left \in Seq(C), NEW quote \in Seq(C),
           NEW right \in Seq(C), NEW b \in Seq(C), NEW text \in Seq(C), text = (left \o quote) \o right
    PROVE  ShowsInk(a, left, quote, right, b, text)
<1>1. PICK ia \in Seq(C), il \in Seq(C), iq \in Seq(C), ir \in Seq(C), ib \in Seq(C) :
        /\ ia = Ink(a) /\ il = Ink(left) /\ iq = Ink(quote) /\ ir = Ink(right) /\ ib = Ink(b)
  BY InkType, Zenon
<1>2. PICK before \in Seq(C) : before = Joined(a, left) /\ Ink(before) = ia \o il
  <2>1. Joined(a, left) \in Seq(C) /\ Ink(Joined(a, left)) = Ink(a \o left)
    BY JoinedInk, Zenon
  <2>2. Ink(a \o left) = Ink(a) \o Ink(left)
    BY InkJoin, Zenon
  <2>. QED
    BY <1>1, <2>1, <2>2, Zenon
<1>3. PICK after \in Seq(C) : after = Joined(right, b) /\ Ink(after) = ir \o ib
  <2>1. Joined(right, b) \in Seq(C) /\ Ink(Joined(right, b)) = Ink(right \o b)
    BY JoinedInk, Zenon
  <2>2. Ink(right \o b) = Ink(right) \o Ink(b)
    BY InkJoin, Zenon
  <2>. QED
    BY <1>1, <2>1, <2>2, Zenon
<1>4. PICK head \in Seq(C) : head = before \o quote /\ Ink(head) = (ia \o il) \o iq
  <2>1. before \o quote \in Seq(C)
    BY JoinType, Zenon
  <2>2. Ink(before \o quote) = Ink(before) \o Ink(quote)
    BY InkJoin, Zenon
  <2>. QED
    BY <1>1, <1>2, <2>1, <2>2, Zenon
<1>5. Ink(head \o after) = ((ia \o il) \o iq) \o (ir \o ib)
  <2>1. Ink(head \o after) = Ink(head) \o Ink(after)
    BY InkJoin, Zenon
  <2>. QED
    BY <1>3, <1>4, <2>1, Zenon
<1>6. PICK start \in Seq(C) : start = left \o quote /\ Ink(start) = il \o iq
  <2>1. left \o quote \in Seq(C)
    BY JoinType, Zenon
  <2>2. Ink(left \o quote) = Ink(left) \o Ink(quote)
    BY InkJoin, Zenon
  <2>. QED
    BY <1>1, <2>1, <2>2, Zenon
<1>7. Ink(text) = (il \o iq) \o ir
  <2>1. text = start \o right
    BY <1>6, Zenon
  <2>2. Ink(start \o right) = Ink(start) \o Ink(right)
    BY InkJoin, Zenon
  <2>. QED
    BY <1>1, <1>6, <2>1, <2>2, Zenon
<1>8. PICK most \in Seq(C) : most = a \o text /\ Ink(most) = ia \o ((il \o iq) \o ir)
  <2>1. a \o text \in Seq(C)
    BY JoinType, Zenon
  <2>2. Ink(a \o text) = Ink(a) \o Ink(text)
    BY InkJoin, Zenon
  <2>. QED
    BY <1>1, <1>7, <2>1, <2>2, Zenon
<1>9. Ink(most \o b) = (ia \o ((il \o iq) \o ir)) \o ib
  <2>1. Ink(most \o b) = Ink(most) \o Ink(b)
    BY InkJoin, Zenon
  <2>. QED
    BY <1>1, <1>8, <2>1, Zenon
<1>10. ((ia \o il) \o iq) \o (ir \o ib) = (ia \o ((il \o iq) \o ir)) \o ib
  <2>1. Regroups(ia, il, iq, ir, ib)
    BY Regrouped, Zenon
  <2>. QED
    BY <2>1, Zenon DEF Regroups
<1>. QED
  BY <1>2, <1>3, <1>4, <1>5, <1>8, <1>9, <1>10, Zenon DEF ShowsInk

\* The segments shown with one are those in the places next to it.
Near(segments, s) == {t \in segments : t.ordinal \in (s.ordinal - 1) .. (s.ordinal + 1)}

LEMMA Neighbours ==
    ASSUME NEW C, NEW segments, Ordered(segments, C), NEW s \in segments
    PROVE  /\ Ordered(Near(segments, s), C) /\ s \in Near(segments, s) /\ Near(segments, s) \subseteq segments
           /\ Near(segments, s) = {t \in segments : t.ordinal - s.ordinal \in {-1, 0, 1}}
           /\ TextOf(Near(segments, s), s.ordinal - 1) = TextOf(segments, s.ordinal - 1)
           /\ TextOf(Near(segments, s), s.ordinal + 1) = TextOf(segments, s.ordinal + 1)
           /\ TextOf(segments, s.ordinal - 1) \in Seq(C) /\ TextOf(segments, s.ordinal + 1) \in Seq(C)
<1>1. PICK near : near = Near(segments, s)
  OBVIOUS
<1>2. PICK o \in Nat : o = s.ordinal
  BY DEF Ordered
<1>3. \A t \in segments : t \in near <=> t.ordinal \in (o - 1) .. (o + 1)
  BY <1>1, <1>2 DEF Near
<1>4. near \subseteq segments
  BY <1>1 DEF Near
<1>5. Ordered(near, C)
  BY <1>4 DEF Ordered
<1>6. s \in near
  BY <1>2, <1>3
<1>7. \A t \in segments : t.ordinal \in (o - 1) .. (o + 1) <=> t.ordinal - o \in {-1, 0, 1}
  <2>1. \A t \in segments : t.ordinal \in Nat
    BY DEF Ordered
  <2>. QED
    BY <2>1
<1>8. near = {t \in segments : t.ordinal - o \in {-1, 0, 1}}
  BY <1>3, <1>4, <1>7
<1>9. ASSUME NEW place, place \in (o - 1) .. (o + 1)
      PROVE  TextOf(near, place) = TextOf(segments, place)
  <2>1. CASE \E p \in segments : p.ordinal = place
    <3>1. PICK p \in segments : p.ordinal = place
      BY <2>1
    <3>2. p \in near
      BY <1>3, <1>9, <3>1
    <3>3. TextOf(near, place) = p.text
      BY <1>5, <3>1, <3>2, TextOfSegment
    <3>4. TextOf(segments, place) = p.text
      BY <3>1, TextOfSegment
    <3>. QED
      BY <3>3, <3>4
  <2>2. CASE \A p \in segments : p.ordinal # place
    <3>1. \A p \in near : p.ordinal # place
      BY <1>4, <2>2
    <3>2. TextOf(near, place) = << >>
      BY <1>5, <3>1, TextOfSegment
    <3>3. TextOf(segments, place) = << >>
      BY <2>2, TextOfSegment
    <3>. QED
      BY <3>2, <3>3
  <2>. QED
    BY <2>1, <2>2
<1>10. o - 1 \in (o - 1) .. (o + 1) /\ o + 1 \in (o - 1) .. (o + 1)
  OBVIOUS
<1>11. TextOf(segments, o - 1) \in Seq(C) /\ TextOf(segments, o + 1) \in Seq(C)
  BY TextOfSegment
<1>. QED
  BY <1>1, <1>2, <1>4, <1>5, <1>6, <1>8, <1>9, <1>10, <1>11

\* The context of a row, by the segment it cites.
LEMMA ServedContext ==
    ASSUME NEW C, NEW library, Readable(document, library, C),
           stored = SegmentsOf(document, library), Ordered(stored, C),
           NEW s \in stored, NEW row, NEW start \in Nat, NEW stop \in Nat, NEW size \in Nat,
           row.segment = s.id, row.quote \in Seq(C), stop = start + Len(row.quote),
           size = Len(s.text), stop <= size,
           IsExactSpan(s, row.quote, start), row.locator = NarrowLocator(s, row.quote, start),
           row.content = ContentPayload(row), NEW served, served = EvidenceContext(row)
    PROVE  /\ served.row = row /\ served.highlight = row.quote
           /\ served.segments = Near(stored, s)
           /\ served.evidenceHashMatches /\ served.quoteMatchesSegment
           /\ served.before = Joined(TextOf(stored, s.ordinal - 1), Slice(s.text, 0, start))
           /\ served.after = Joined(Slice(s.text, stop, size), TextOf(stored, s.ordinal + 1))
<1>. DEFINE chosen == CHOOSE t \in stored : t.id = row.segment
<1>1. chosen \in stored /\ chosen.id = s.id
  OBVIOUS
<1>. HIDE DEF chosen
<1>2. chosen = s
  BY <1>1, IdsDistinct
<1>3. PICK quote \in Seq(C), n \in Nat : quote = row.quote /\ n = Len(quote)
  OBVIOUS
<1>4. PICK locator : locator = row.locator
  OBVIOUS
<1>5. locator = NarrowLocator(s, quote, start)
  BY <1>3, <1>4
<1>6. s \in SegmentsOf(document, library)
  OBVIOUS
<1>7. /\ locator.start - Base(s) = start /\ locator.end - Base(s) = start + Len(quote)
      /\ locator.segment = s.id /\ locator.source = document /\ locator.quote = quote
  <2>1. PICK d : d = document
    OBVIOUS
  <2>2. Readable(d, library, C) /\ s \in SegmentsOf(d, library)
    BY <1>6, <2>1
  <2>3. Locates(locator, d, s, quote, start)
    BY <1>5, <2>2, NarrowFields, Zenon
  <2>. QED
    BY <2>1, <2>3 DEF Locates
<1>8. PICK span : span = RelativeSpan(s, row)
  OBVIOUS
<1>9. span.start = start /\ span.end = stop
  <2>1. span = [start |-> locator.start - Base(s), end |-> locator.end - Base(s)]
    BY <1>4, <1>8 DEF RelativeSpan, Base
  <2>2. span.start = locator.start - Base(s) /\ span.end = locator.end - Base(s)
    BY <2>1
  <2>. QED
    BY <1>3, <1>7, <2>2
<1>10. 0 <= span.start /\ span.start <= span.end /\ span.end <= Len(s.text)
  <2>1. start <= stop
    BY <1>3
  <2>. QED
    BY <1>9, <2>1
<1>11. Slice(s.text, span.start, span.end) = row.quote
  BY <1>9 DEF IsExactSpan
<1>12. served =
        [row |-> row,
         before    |-> Joined(TextOf(stored, s.ordinal - 1), Slice(s.text, 0, span.start)),
         highlight |-> row.quote,
         after     |-> Joined(Slice(s.text, span.end, Len(s.text)), TextOf(stored, s.ordinal + 1)),
         segments  |-> {t \in stored : t.ordinal \in (s.ordinal - 1) .. (s.ordinal + 1)},
         evidenceHashMatches |-> row.content = ContentPayload(row),
         quoteMatchesSegment |->
            /\ 0 <= span.start /\ span.start <= span.end /\ span.end <= Len(s.text)
            /\ Slice(s.text, span.start, span.end) = row.quote
            /\ row.locator.segment = s.id
            /\ row.locator.source = document
            /\ row.locator.quote = row.quote]
  <2>1. (CHOOSE t \in stored : t.id = row.segment) = s
    BY <1>2 DEF chosen
  <2>. QED
    BY <1>8, <1>10, <2>1 DEF EvidenceContext
<1>13. /\ served.row = row /\ served.highlight = row.quote
       /\ served.segments = {t \in stored : t.ordinal \in (s.ordinal - 1) .. (s.ordinal + 1)}
       /\ served.before = Joined(TextOf(stored, s.ordinal - 1), Slice(s.text, 0, span.start))
       /\ served.after = Joined(Slice(s.text, span.end, Len(s.text)), TextOf(stored, s.ordinal + 1))
  BY <1>12
<1>14. /\ served.evidenceHashMatches = (row.content = ContentPayload(row))
       /\ served.quoteMatchesSegment =
            (/\ 0 <= span.start /\ span.start <= span.end /\ span.end <= Len(s.text)
             /\ Slice(s.text, span.start, span.end) = row.quote
             /\ row.locator.segment = s.id
             /\ row.locator.source = document
             /\ row.locator.quote = row.quote)
  BY <1>12
<1>15. served.evidenceHashMatches /\ served.quoteMatchesSegment
  BY <1>3, <1>4, <1>7, <1>10, <1>11, <1>14
<1>. QED
  BY <1>9, <1>13, <1>15 DEF Near

\* What a text says from the first of the segments next to one up to it.
LEMMA TextBefore ==
    ASSUME NEW d, NEW C, d.text \in Seq(C), NEW segments, segments = TextSegments(d), Ordered(segments, C),
           NEW s \in segments
    PROVE  \E p \in Near(segments, s) :
              /\ \A u \in Near(segments, s) : p.locator.start <= u.locator.start
              /\ Slice(d.text, p.locator.start, s.locator.start) \in Seq(C)
              /\ Ink(Slice(d.text, p.locator.start, s.locator.start)) = Ink(TextOf(segments, s.ordinal - 1))
<1>1. PICK near : near = Near(segments, s)
  OBVIOUS
<1>2. s \in near /\ near \subseteq segments
  BY <1>1, Neighbours
<1>3. \A u \in segments : u.ordinal \in Nat /\ u.locator.start \in Nat
  BY TextSegmentShape DEF Ordered
<1>4. \A u \in near : u.ordinal >= s.ordinal - 1
  <2>1. \A u \in near : u.ordinal \in (s.ordinal - 1) .. (s.ordinal + 1)
    BY <1>1 DEF Near
  <2>. QED
    BY <1>2, <1>3, <2>1
<1>5. \A u, v \in segments : u.ordinal < v.ordinal => u.locator.start <= v.locator.start
  BY <1>3, TextInOrder
<1>6. \A u, v \in segments : u.ordinal = v.ordinal => u = v
  BY DEF Ordered
<1>7. CASE \E p \in segments : p.ordinal = s.ordinal - 1
  <2>1. PICK p \in segments : p.ordinal = s.ordinal - 1
    BY <1>7
  <2>2. s.ordinal = p.ordinal + 1
    BY <1>3, <2>1
  <2>3. p \in near
    BY <1>1, <1>3, <2>1 DEF Near
  <2>4. \A u \in near : p.locator.start <= u.locator.start
    BY <1>2, <1>3, <1>4, <1>5, <1>6, <2>1
  <2>5. TextOf(segments, s.ordinal - 1) = p.text
    BY <2>1, TextOfSegment
  <2>6. /\ Slice(d.text, p.locator.start, s.locator.start) \in Seq(C)
        /\ Ink(Slice(d.text, p.locator.start, s.locator.start)) = Ink(p.text)
    BY <2>2, BeforeAndAfter
  <2>. QED
    BY <1>1, <2>3, <2>4, <2>5, <2>6
<1>8. CASE \A p \in segments : p.ordinal # s.ordinal - 1
  <2>1. \A u \in near : s.locator.start <= u.locator.start
    <3>1. \A u \in near : u.ordinal >= s.ordinal
      BY <1>2, <1>3, <1>4, <1>8
    <3>. QED
      BY <1>2, <1>3, <1>5, <1>6, <3>1
  <2>2. TextOf(segments, s.ordinal - 1) = << >>
    BY <1>8, TextOfSegment
  <2>3. Slice(d.text, s.locator.start, s.locator.start) = << >>
    <3>1. PICK i \in Nat : i = s.locator.start
      BY <1>3
    <3>2. i < Len(d.text)
      <4>1. s.locator.end \in Nat /\ s.locator.start < s.locator.end /\ s.locator.end <= Len(d.text)
        BY TextSegmentShape
      <4>. QED
        BY <3>1, <4>1
    <3>. QED
      BY <3>1, <3>2 DEF Slice
  <2>4. << >> \in Seq(C)
    OBVIOUS
  <2>. QED
    BY <1>1, <1>2, <2>1, <2>2, <2>3, <2>4
<1>. QED
  BY <1>7, <1>8

\* And from its end to that of the last of them.
LEMMA TextAfter ==
    ASSUME NEW d, NEW C, d.text \in Seq(C), NEW segments, segments = TextSegments(d), Ordered(segments, C),
           NEW s \in segments
    PROVE  \E q \in Near(segments, s) :
              /\ \A u \in Near(segments, s) : u.locator.end <= q.locator.end
              /\ Slice(d.text, s.locator.end, q.locator.end) \in Seq(C)
              /\ Ink(Slice(d.text, s.locator.end, q.locator.end)) = Ink(TextOf(segments, s.ordinal + 1))
<1>1. PICK near : near = Near(segments, s)
  OBVIOUS
<1>2. s \in near /\ near \subseteq segments
  BY <1>1, Neighbours
<1>3. \A u \in segments :
        u.ordinal \in Nat /\ u.locator.start \in Nat /\ u.locator.end \in Nat /\ u.locator.start < u.locator.end
  BY TextSegmentShape DEF Ordered
<1>4. \A u \in near : u.ordinal <= s.ordinal + 1
  <2>1. \A u \in near : u.ordinal \in (s.ordinal - 1) .. (s.ordinal + 1)
    BY <1>1 DEF Near
  <2>. QED
    BY <1>2, <1>3, <2>1
<1>5. \A u, v \in segments : u.ordinal < v.ordinal => u.locator.end <= v.locator.end
  <2>1. \A u, v \in segments : u.ordinal < v.ordinal => u.locator.end <= v.locator.start
    BY TextDisjoint
  <2>. QED
    BY <1>3, <2>1
<1>6. \A u, v \in segments : u.ordinal = v.ordinal => u = v
  BY DEF Ordered
<1>7. CASE \E q \in segments : q.ordinal = s.ordinal + 1
  <2>1. PICK q \in segments : q.ordinal = s.ordinal + 1
    BY <1>7
  <2>2. q \in near
    BY <1>1, <1>3, <2>1 DEF Near
  <2>3. \A u \in near : u.locator.end <= q.locator.end
    BY <1>2, <1>3, <1>4, <1>5, <1>6, <2>1
  <2>4. TextOf(segments, s.ordinal + 1) = q.text
    BY <2>1, TextOfSegment
  <2>5. /\ Slice(d.text, s.locator.end, q.locator.end) \in Seq(C)
        /\ Ink(Slice(d.text, s.locator.end, q.locator.end)) = Ink(q.text)
    BY <2>1, BeforeAndAfter
  <2>. QED
    BY <1>1, <2>2, <2>3, <2>4, <2>5
<1>8. CASE \A q \in segments : q.ordinal # s.ordinal + 1
  <2>1. \A u \in near : u.locator.end <= s.locator.end
    <3>1. \A u \in near : u.ordinal <= s.ordinal
      BY <1>2, <1>3, <1>4, <1>8
    <3>. QED
      BY <1>2, <1>3, <1>5, <1>6, <3>1
  <2>2. TextOf(segments, s.ordinal + 1) = << >>
    BY <1>8, TextOfSegment
  <2>3. Slice(d.text, s.locator.end, s.locator.end) = << >>
    <3>1. PICK i \in Nat : i = s.locator.end
      BY <1>3
    <3>2. i <= Len(d.text)
      BY <3>1, TextSegmentShape
    <3>. QED
      BY <3>1, <3>2 DEF Slice
  <2>4. << >> \in Seq(C)
    OBVIOUS
  <2>. QED
    BY <1>1, <1>2, <2>1, <2>2, <2>3, <2>4
<1>. QED
  BY <1>7, <1>8

\* A segment of a text, between those next to it, says what the text does from
\* the first of them to the last.
LEMMA TextShown ==
    ASSUME NEW d, NEW C, d.text \in Seq(C), NEW segments, segments = TextSegments(d), Ordered(segments, C),
           NEW s \in segments, NEW near, near = Near(segments, s),
           NEW a \in Seq(C), a = TextOf(segments, s.ordinal - 1),
           NEW b \in Seq(C), b = TextOf(segments, s.ordinal + 1)
    PROVE  \E p, q \in near :
              /\ \A u \in near : p.locator.start <= u.locator.start /\ u.locator.end <= q.locator.end
              /\ Ink(Slice(d.text, p.locator.start, q.locator.end)) = Ink((a \o s.text) \o b)
<1>1. PICK text \in Seq(C) : text = d.text
  OBVIOUS
<1>2. PICK p \in near :
        /\ \A u \in near : p.locator.start <= u.locator.start
        /\ Slice(text, p.locator.start, s.locator.start) \in Seq(C)
        /\ Ink(Slice(text, p.locator.start, s.locator.start)) = Ink(a)
  BY <1>1, TextBefore
<1>3. PICK q \in near :
        /\ \A u \in near : u.locator.end <= q.locator.end
        /\ Slice(text, s.locator.end, q.locator.end) \in Seq(C)
        /\ Ink(Slice(text, s.locator.end, q.locator.end)) = Ink(b)
  BY <1>1, TextAfter
<1>4. s \in near /\ near \subseteq segments
  BY Neighbours
<1>5. PICK i \in Nat, x \in Nat, y \in Nat, j \in Nat :
        /\ i = p.locator.start /\ x = s.locator.start /\ y = s.locator.end /\ j = q.locator.end
        /\ i <= x /\ x <= y /\ y <= j /\ j <= Len(text) /\ s.text = Slice(text, x, y)
  <2>1. /\ p.locator.start \in Nat /\ s.locator.start \in Nat /\ s.locator.end \in Nat
        /\ s.locator.start < s.locator.end /\ s.text = Slice(text, s.locator.start, s.locator.end)
        /\ q.locator.end \in Nat /\ q.locator.end <= Len(text)
    BY <1>1, <1>4, TextSegmentShape
  <2>2. p.locator.start <= s.locator.start /\ s.locator.end <= q.locator.end
    BY <1>2, <1>3, <1>4
  <2>. QED
    BY <2>1, <2>2
<1>6. PICK before \in Seq(C), own \in Seq(C), after \in Seq(C) :
        /\ before = Slice(text, i, x) /\ own = Slice(text, x, y) /\ after = Slice(text, y, j)
        /\ Ink(before) = Ink(a) /\ Ink(after) = Ink(b) /\ s.text = own
  <2>1. s.text \in Seq(C)
    BY DEF Ordered
  <2>. QED
    BY <1>2, <1>3, <1>5, <2>1
<1>7. Slice(text, i, j) = (before \o own) \o after
  <2>1. i <= x /\ x <= y /\ i <= y /\ y <= j /\ y <= Len(text) /\ j <= Len(text)
    BY <1>5
  <2>2. Slice(text, i, y) = Slice(text, i, x) \o Slice(text, x, y)
    BY <2>1, SliceSplit
  <2>3. Slice(text, i, j) = Slice(text, i, y) \o Slice(text, y, j)
    BY <2>1, SliceSplit
  <2>. QED
    BY <1>6, <2>2, <2>3, Zenon
<1>8. PICK head \in Seq(C), most \in Seq(C) : head = before \o own /\ most = a \o own
  BY JoinType, Zenon
<1>9. Ink(head) = Ink(most)
  <2>1. Ink(before \o own) = Ink(before) \o Ink(own)
    BY InkJoin, Zenon
  <2>2. Ink(a \o own) = Ink(a) \o Ink(own)
    BY InkJoin, Zenon
  <2>. QED
    BY <1>6, <1>8, <2>1, <2>2, Zenon
<1>10. Ink(head \o after) = Ink(most \o b)
  <2>1. Ink(head \o after) = Ink(head) \o Ink(after)
    BY InkJoin, Zenon
  <2>2. Ink(most \o b) = Ink(most) \o Ink(b)
    BY InkJoin, Zenon
  <2>. QED
    BY <1>6, <1>9, <2>1, <2>2, Zenon
<1>11. Ink(Slice(text, i, j)) = Ink((a \o s.text) \o b)
  BY <1>6, <1>7, <1>8, <1>10, Zenon
<1>. QED
  BY <1>1, <1>2, <1>3, <1>5, <1>11

LEMMA ContextFromInv ==
    ASSUME NEW C, TextsAre(C), Space \subseteq C, PathInv, ReaderInv(C)
    PROVE  ContextReplaysQuote
<1>. SUFFICES ASSUME view # Nothing PROVE ContextReplaysQuote
  BY DEF ContextReplaysQuote
<1>1. PICK row \in evidence : view = EvidenceContext(row)
  BY DEF ReaderInv
<1>2. row.content = ContentPayload(row) /\ Cites(row, stored, C)
  BY DEF ReaderInv
<1>3. PICK s \in stored, start \in Nat :
        /\ row.segment = s.id /\ row.quote \in Seq(C)
        /\ start + Len(row.quote) <= Len(s.text) /\ IsExactSpan(s, row.quote, start)
        /\ row.locator = NarrowLocator(s, row.quote, start)
  BY <1>2 DEF Cites
<1>4. PICK c \in Configurations : stored = SegmentsOf(document, c.library)
  BY DEF ReaderInv
<1>5. document \in Documents /\ Parses(document)
  BY DEF ReaderInv, PathInv, PathTypeOK
<1>6. PICK library : library = c.library
  OBVIOUS
<1>7. Readable(document, library, C) /\ stored = SegmentsOf(document, library)
  BY <1>4, <1>5, <1>6 DEF TextsAre
<1>8. Ordered(stored, C)
  <2>1. \A t \in stored : t.text \in Seq(C)
    BY <1>4, <1>5, SegmentsAreTexts
  <2>2. /\ {t.ordinal : t \in stored} = 0 .. (Cardinality(stored) - 1)
        /\ \A t, u \in stored : t.ordinal = u.ordinal => t = u
    BY <1>7, SegmentsNumbered
  <2>3. \A t \in stored : t.ordinal \in Nat
    BY <2>2
  <2>. QED
    BY <2>1, <2>2, <2>3 DEF Ordered
<1>9. PICK text \in Seq(C), quote \in Seq(C), n \in Nat, size \in Nat :
        text = s.text /\ quote = row.quote /\ n = Len(quote) /\ size = Len(text)
  BY <1>3, <1>8 DEF Ordered
<1>10. PICK stop \in Nat : stop = start + n /\ start <= stop /\ stop <= size
  <2>1. start + n \in Nat /\ start <= start + n
    OBVIOUS
  <2>. QED
    BY <1>3, <1>9, <2>1
<1>11. PICK a \in Seq(C), b \in Seq(C) : a = TextOf(stored, s.ordinal - 1) /\ b = TextOf(stored, s.ordinal + 1)
  BY <1>8, TextOfSegment
<1>12. /\ view.row = row /\ view.highlight = quote /\ view.segments = Near(stored, s)
       /\ view.evidenceHashMatches /\ view.quoteMatchesSegment
       /\ view.before = Joined(a, Slice(text, 0, start)) /\ view.after = Joined(Slice(text, stop, size), b)
  BY <1>1, <1>2, <1>3, <1>7, <1>8, <1>9, <1>10, <1>11, ServedContext
<1>13. PICK left \in Seq(C), right \in Seq(C) :
         /\ left = Slice(text, 0, start) /\ right = Slice(text, stop, size)
         /\ text = (left \o quote) \o right
  <2>1. PICK zero \in Nat : zero = 0 /\ zero <= start /\ zero <= stop /\ stop <= size /\ size <= Len(text)
    BY <1>9, <1>10
  <2>a. zero <= start /\ start <= stop /\ stop <= Len(text)
    BY <1>9, <1>10, <2>1
  <2>2. Slice(text, start, stop) = quote
    BY <1>3, <1>9, <1>10 DEF IsExactSpan
  <2>3. /\ Slice(text, zero, start) \in Seq(C)
        /\ Slice(text, zero, stop) = Slice(text, zero, start) \o Slice(text, start, stop)
    BY <2>a, SliceSplit
  <2>4. /\ Slice(text, stop, size) \in Seq(C)
        /\ Slice(text, zero, size) = Slice(text, zero, stop) \o Slice(text, stop, size)
    BY <2>1, SliceSplit
  <2>5. Slice(text, zero, size) = text
    BY <1>9, <2>1 DEF Slice
  <2>. QED
    BY <2>1, <2>2, <2>3, <2>4, <2>5
<1>14. Ink((view.before \o view.highlight) \o view.after) = Ink((a \o text) \o b)
  <2>1. text = (left \o quote) \o right
    BY <1>13
  <2>2. ShowsInk(a, left, quote, right, b, text)
    BY <2>1, ShownInk, Zenon
  <2>. QED
    BY <1>12, <1>13, <2>2, Zenon DEF ShowsInk
<1>15. /\ s \in view.segments /\ view.segments = {t \in stored : t.ordinal - s.ordinal \in {-1, 0, 1}}
       /\ TextOf(view.segments, s.ordinal - 1) = a /\ TextOf(view.segments, s.ordinal + 1) = b
  BY <1>8, <1>11, <1>12, Neighbours
<1>16. \E t \in view.segments :
          /\ t.id = view.row.segment
          /\ Ink((view.before \o view.highlight) \o view.after)
               = Ink((TextOf(view.segments, t.ordinal - 1) \o t.text) \o TextOf(view.segments, t.ordinal + 1))
          /\ view.segments = {u \in stored : u.ordinal - t.ordinal \in {-1, 0, 1}}
  BY <1>3, <1>9, <1>12, <1>14, <1>15, Zenon
<1>17. ASSUME ParserFor(document) = "text"
       PROVE  /\ Slice(document.text, view.row.locator.start, view.row.locator.end) = view.highlight
              /\ \E i \in {t.locator.start : t \in view.segments}, j \in {t.locator.end : t \in view.segments} :
                   /\ \A k \in {t.locator.start : t \in view.segments} : i <= k
                   /\ \A k \in {t.locator.end : t \in view.segments} : k <= j
                   /\ Ink((view.before \o view.highlight) \o view.after) = Ink(Slice(document.text, i, j))
  <2>1. stored = TextSegments(document) /\ document.text \in Seq(C)
    BY <1>7, <1>17 DEF SegmentsOf, Readable
  <2>2. Slice(document.text, row.locator.start, row.locator.end) = quote
    <3>1. PICK whole \in Seq(C) : whole = document.text
      BY <2>1
    <3>2. PICK from \in Nat, to \in Nat :
            /\ from = s.locator.start /\ to = s.locator.end /\ from < to /\ to <= Len(whole)
            /\ text = Slice(whole, from, to) /\ s.locator.kind = "text"
      <4>1. PICK d : d = document /\ d.text \in Seq(C) /\ s \in TextSegments(d)
        BY <2>1
      <4>2. /\ s.locator.start \in Nat /\ s.locator.end \in Nat /\ s.locator.start < s.locator.end
            /\ s.locator.end <= Len(d.text) /\ s.text = Slice(d.text, s.locator.start, s.locator.end)
            /\ s.locator = Locator(d, "text", s.id, << >>, s.locator.start, s.locator.end, s.text)
        BY <4>1, TextSegmentShape
      <4>3. s.locator.kind = "text"
        BY <4>2, LocatorFields
      <4>. QED
        BY <1>9, <3>1, <4>1, <4>2, <4>3
    <3>3. PICK m \in Nat : to = from + m
      <4>1. to - from \in Nat /\ to = from + (to - from)
        BY <3>2
      <4>. QED
        BY <4>1
    <3>4. Slice(text, start, start + Len(quote)) = quote
      BY <1>3, <1>9 DEF IsExactSpan
    <3>5. Slice(whole, from + start, from + start + Len(quote)) = quote
      BY <3>2, <3>3, <3>4, SliceOfSlice
    <3>6. PICK locator : locator = row.locator /\ locator = NarrowLocator(s, quote, start)
      BY <1>3, <1>9
    <3>7. PICK d : d = document /\ Readable(d, library, C) /\ s \in SegmentsOf(d, library)
      BY <1>7
    <3>8. Locates(locator, d, s, quote, start)
      BY <3>6, <3>7, NarrowFields, Zenon
    <3>a. locator.start = Base(s) + start /\ locator.end = Base(s) + start + Len(quote)
      BY <3>8 DEF Locates
    <3>9. Base(s) = from
      BY <3>2 DEF Base
    <3>. QED
      BY <3>1, <3>5, <3>6, <3>a, <3>9
  <2>3. PICK near : near = view.segments
    OBVIOUS
  <2>4. PICK p \in near, q \in near :
          /\ \A u \in near : p.locator.start <= u.locator.start /\ u.locator.end <= q.locator.end
          /\ Ink(Slice(document.text, p.locator.start, q.locator.end)) = Ink((a \o s.text) \o b)
    BY <1>8, <1>11, <1>12, <2>1, <2>3, TextShown
  <2>5. Ink((view.before \o view.highlight) \o view.after)
          = Ink(Slice(document.text, p.locator.start, q.locator.end))
    BY <1>9, <1>14, <2>4, Zenon
  <2>6. /\ p.locator.start \in {t.locator.start : t \in near} /\ q.locator.end \in {t.locator.end : t \in near}
        /\ \A k \in {t.locator.start : t \in near} : p.locator.start <= k
        /\ \A k \in {t.locator.end : t \in near} : k <= q.locator.end
    BY <2>4
  <2>. QED
    BY <1>12, <2>2, <2>3, <2>5, <2>6
<1>. QED
  BY <1>12, <1>16, <1>17, Zenon DEF ContextReplaysQuote

\* The texts may be taken to have more characters, white space among them.
LEMMA WiderTexts ==
    ASSUME NEW C, TextsAre(C), NEW D, D = C \cup Space
    PROVE  TextsAre(D) /\ Space \subseteq D
<1>1. C \subseteq D /\ Space \subseteq D
  OBVIOUS
<1>2. ASSUME NEW d, NEW library, Readable(d, library, C) PROVE Readable(d, library, D)
  <2>1. PICK T, W : T = Seq(C) /\ W = Seq(D)
    OBVIOUS
  <2>2. T \subseteq W
    BY <1>1, <2>1
  <2>3. Seq(T) \subseteq Seq(W)
    BY <2>2
  <2>4. PICK G, H : G = [ok : BOOLEAN, cells : Seq(T)] /\ H = [ok : BOOLEAN, cells : Seq(W)]
    OBVIOUS
  <2>5. G \subseteq H
    BY <2>3, <2>4
  <2>6. Seq(G) \subseteq Seq(H)
    BY <2>5
  <2>7. Parses(d) /\ d.text \in T /\ d.rows \in Seq(G) /\ d.pages[library] \in Seq(T)
    BY <1>2, <2>1, <2>4 DEF Readable
  <2>8. Parses(d) /\ d.text \in W /\ d.rows \in Seq(H) /\ d.pages[library] \in Seq(W)
    BY <2>2, <2>3, <2>6, <2>7
  <2>. QED
    BY <2>1, <2>4, <2>8 DEF Readable
<1>3. {"invented"} \cup Marks \subseteq D
  BY <1>1 DEF TextsAre
<1>4. \A d \in Documents, c \in Configurations : Parses(d) => Readable(d, c.library, D)
  BY <1>2 DEF TextsAre
<1>. QED
  BY <1>1, <1>3, <1>4 DEF TextsAre

\* What a reader is served of an evidence item replays its quote between the
\* segments next to its own, with nothing lost, repeated or moved.
THEOREM ContextsReplay ==
    ASSUME NEW C, TextsAre(C)
    PROVE  Spec => []ContextReplaysQuote
<1>1. PICK D : D = C \cup Space
  OBVIOUS
<1>2. TextsAre(D) /\ Space \subseteq D
  BY <1>1, WiderTexts
<1>. DEFINE Inv == PathInv /\ AnswerInv(D) /\ DraftsCite(D) /\ ReaderInv(D)
<1>3. Init => Inv
  <2>1. Init => PathInv /\ AnswerInv(D)
    BY PathInvInit, AnswerInvInit
  <2>2. Init => DraftsCite(D) /\ ReaderInv(D)
    BY DEF Init, DraftsCite, ReaderInv
  <2>. QED
    BY <2>1, <2>2
<1>4. Inv /\ [Next]_vars => Inv'
  <2>. SUFFICES ASSUME Inv, [Next]_vars PROVE Inv'
    OBVIOUS
  <2>1. PathInv'
    BY PathInvStep
  <2>2. AnswerInv(D)'
    BY <1>2, AnswerStep
  <2>3. DraftsCite(D)'
    BY <1>2, DraftsCiteStep
  <2>4. ReaderInv(D)'
    BY ReaderStep
  <2>. QED
    BY <2>1, <2>2, <2>3, <2>4
<1>5. Inv => ContextReplaysQuote
  BY <1>2, ContextFromInv
<1>. HIDE DEF Inv
<1>. QED
  BY <1>3, <1>4, <1>5, PTL DEF Spec

-----------------------------------------------------------------------------
(* What a case of the evaluation says of its source. *)

\* RowCells and TicketRows of a document.
Cells(d, k, column) == {d.rows[k].cells[i] : i \in {i \in DOMAIN Headers(d) : Headers(d)[i] = column}}
RowsOn(d, tickets) ==
    {k \in 2 .. Len(d.rows) : /\ ParserFor(d) = "csv" /\ RowSays(d.rows[k])
                              /\ Cells(d, k, TicketColumn) \cap tickets # {}}

RowUnit(d, k) == [columns |-> Headers(d), cells |-> d.rows[k].cells]

LEMMA CellsOfUnit ==
    ASSUME NEW d, NEW k, NEW column
    PROVE  CellOf(RowUnit(d, k), column) = Cells(d, k, column)
<1>1. PICK unit : unit = RowUnit(d, k)
  OBVIOUS
<1>2. unit.columns = Headers(d) /\ unit.cells = d.rows[k].cells
  BY <1>1 DEF RowUnit
<1>3. CellOf(unit, column) = Cells(d, k, column)
  BY <1>2 DEF CellOf, Cells
<1>. QED
  BY <1>1, <1>3

\* No two columns of a table have one name.
LEMMA OneCell ==
    ASSUME NEW d, CsvParses(d), NEW k \in 2 .. Len(d.rows), NEW column
    PROVE  /\ \A x, y \in Cells(d, k, column) : x = y
           /\ column \in ToSet(Headers(d)) => \E c : Cells(d, k, column) = {c}
<1>1. IsInjective(Headers(d))
  <2>1. d.rows # << >>
    OBVIOUS
  <2>. QED
    BY <2>1 DEF CsvParses, HeaderAccepted
<1>2. PICK headers : headers = Headers(d)
  OBVIOUS
<1>3. \A i, j \in DOMAIN headers : headers[i] = headers[j] => i = j
  BY <1>1, <1>2 DEF IsInjective
<1>4. Cells(d, k, column) = {d.rows[k].cells[i] : i \in {i \in DOMAIN headers : headers[i] = column}}
  BY <1>2 DEF Cells
<1>5. ASSUME NEW x \in Cells(d, k, column), NEW y \in Cells(d, k, column) PROVE x = y
  BY <1>3, <1>4
<1>6. ASSUME column \in ToSet(headers) PROVE \E c : Cells(d, k, column) = {c}
  <2>1. PICK i \in DOMAIN headers : headers[i] = column
    BY <1>6 DEF ToSet
  <2>2. d.rows[k].cells[i] \in Cells(d, k, column)
    BY <1>4, <2>1
  <2>. QED
    BY <1>5, <2>2
<1>. QED
  BY <1>2, <1>5, <1>6

\* A quote of a row has the row's columns and cells in its locator.
LEMMA TableDraft ==
    ASSUME NEW d, NEW k, NEW x, NEW quote, NEW s, s = CsvAt(d, k), x = NarrowLocator(s, quote, 0)
    PROVE  x.kind = "csv" /\ x.unit = RowUnit(d, k)
<1>1. \E id, to, text : s.locator = Locator(d, "csv", id, RowUnit(d, k), 0, to, text)
  BY DEF CsvAt, Segment, RowUnit
<1>2. PICK id, to, text : s.locator = Locator(d, "csv", id, RowUnit(d, k), 0, to, text)
  BY <1>1
<1>3. x = Locator(d, "csv", id, RowUnit(d, k), Base(s) + 0, Base(s) + 0 + Len(quote), quote)
  BY <1>2, NarrowedSegment
<1>. QED
  BY <1>3, LocatorFields

\* A quote of a text or a page has not.
LEMMA OtherDraft ==
    ASSUME NEW d, NEW library, NEW C, Readable(d, library, C), ParserFor(d) # "csv",
           NEW s \in SegmentsOf(d, library), NEW x, NEW quote, x = NarrowLocator(s, quote, 0)
    PROVE  x.kind # "csv"
<1>0. Parses(d) /\ d.text \in Seq(C)
  BY DEF Readable
<1>1. \E kind, id, unit, from, to, text :
         kind # "csv" /\ s.locator = Locator(d, kind, id, unit, from, to, text)
  <2>1. CASE s \in TextSegments(d)
    <3>1. s.locator = Locator(d, "text", s.id, << >>, s.locator.start, s.locator.end, s.text)
      BY <1>0, <2>1, TextSegmentShape
    <3>2. "text" # "csv"
      OBVIOUS
    <3>. QED
      BY <3>1, <3>2, Zenon
  <2>2. CASE s \in PdfSegments(d, library)
    <3>1. PICK k \in DOMAIN d.pages[library] :
            \E span \in TrimmedSpan(d.pages[library][k], 0, Len(d.pages[library][k])) :
               s.locator = Locator(d, "pdf", <<k>>, [number |-> k, page |-> d.pages[library][k]],
                                   span.start, span.end, s.text)
      BY <2>2, PdfSegmentShape
    <3>2. PICK span : s.locator = Locator(d, "pdf", <<k>>, [number |-> k, page |-> d.pages[library][k]],
                                          span.start, span.end, s.text)
      BY <3>1
    <3>3. "pdf" # "csv"
      OBVIOUS
    <3>. QED
      BY <3>2, <3>3, Zenon
  <2>. QED
    BY <1>0, <2>1, <2>2, ThreeParsers
<1>2. PICK kind, id, unit, from, to, text :
         kind # "csv" /\ s.locator = Locator(d, kind, id, unit, from, to, text)
  BY <1>1
<1>3. x = Locator(d, kind, id, unit, Base(s) + 0, Base(s) + 0 + Len(quote), quote)
  BY <1>2, NarrowedSegment
<1>. QED
  BY <1>2, <1>3, LocatorFields

\* The drafts quote segments; they quote each; they quote none twice.
Quoted(S, segments, most) == \A x \in S : \E s \in segments : Quotes(x, s, most)
AllQuoted(S, segments, most) == \A s \in segments : \E x \in S : Quotes(x, s, most)
OneQuoteEach(S) == \A x, y \in S : x.segment = y.segment => x = y

\* Each draft of a table is of a row of its own.
RowMap(S, d, r) ==
    /\ r \in [S -> DataRows(d)] /\ \A x, y \in S : r[x] = r[y] => x = y
    /\ \A x \in S : x.locator.kind = "csv" /\ x.locator.unit = RowUnit(d, r[x])

LEMMA DraftRows ==
    ASSUME NEW d, NEW library, NEW C, Readable(d, library, C), ParserFor(d) = "csv",
           NEW segments, segments = SegmentsOf(d, library), NEW S, NEW most,
           Quoted(S, segments, most), OneQuoteEach(S)
    PROVE  \E r : RowMap(S, d, r) /\ (AllQuoted(S, segments, most) => Onto(r, S, DataRows(d)))
<1>. USE DEF Quoted, AllQuoted, OneQuoteEach
<1>1. segments = CsvSegments(d)
  BY DEF SegmentsOf
<1>2. PICK K : K = DataRows(d)
  OBVIOUS
<1>3. PICK at : at = [k \in K |-> CsvAt(d, k)]
  OBVIOUS
<1>4. Numbered(segments, K, at)
  <2>1. PICK T : d.rows \in Seq(T)
    BY DEF Readable
  <2>2. Numbered(CsvSegments(d), DataRows(d), [k \in DataRows(d) |-> CsvAt(d, k)])
    BY <2>1, CsvNumbered
  <2>. QED
    BY <1>1, <1>2, <1>3, <2>2
<1>5. /\ \A s \in segments : \E k \in K : CsvAt(d, k) = s
      /\ \A k \in K : CsvAt(d, k) \in segments /\ CsvAt(d, k).ordinal = Below(K, k)
      /\ K \subseteq Nat /\ IsFiniteSet(K)
  BY <1>3, <1>4 DEF Numbered
<1>6. \A j, k \in K : Below(K, j) = Below(K, k) => j = k
  BY <1>5, BelowRange
<1>. DEFINE r == [x \in S |-> CHOOSE k \in K : Quotes(x, CsvAt(d, k), most)]
<1>7. ASSUME NEW x \in S PROVE r[x] \in K /\ Quotes(x, CsvAt(d, r[x]), most)
  <2>1. PICK s \in segments : Quotes(x, s, most)
    OBVIOUS
  <2>2. \E k \in K : Quotes(x, CsvAt(d, k), most)
    BY <1>5, <2>1
  <2>. QED
    BY <2>2
<1>8. r = [x \in S |-> r[x]]
  OBVIOUS
<1>. HIDE DEF r
<1>9. r \in [S -> DataRows(d)]
  BY <1>2, <1>7, <1>8
<1>10. ASSUME NEW x \in S, NEW y \in S, r[x] = r[y] PROVE x = y
  <2>1. x.segment = CsvAt(d, r[x]).id /\ y.segment = CsvAt(d, r[y]).id
    BY <1>7 DEF Quotes
  <2>. QED
    BY <1>10, <2>1
<1>11. ASSUME NEW x \in S PROVE x.locator.kind = "csv" /\ x.locator.unit = RowUnit(d, r[x])
  <2>1. PICK k, s, locator : k = r[x] /\ s = CsvAt(d, k) /\ locator = x.locator
    OBVIOUS
  <2>2. locator = NarrowLocator(s, x.quote, 0)
    BY <1>7, <2>1 DEF Quotes
  <2>3. locator.kind = "csv" /\ locator.unit = RowUnit(d, k)
    BY <2>1, <2>2, TableDraft
  <2>. QED
    BY <2>1, <2>3
<1>12. ASSUME \A s \in segments : \E x \in S : Quotes(x, s, most), NEW k \in K PROVE \E x \in S : r[x] = k
  <2>1. PICK t \in segments : t = CsvAt(d, k) /\ t.ordinal = Below(K, k)
    BY <1>5
  <2>2. PICK x \in S : Quotes(x, t, most)
    BY <1>12
  <2>3. PICK j \in K : j = r[x] /\ Quotes(x, CsvAt(d, j), most)
    BY <1>7
  <2>4. PICK s \in segments : s = CsvAt(d, j) /\ s.ordinal = Below(K, j)
    BY <1>5
  <2>5. s.id = t.id
    BY <2>2, <2>3, <2>4 DEF Quotes
  <2>6. s = t
    BY <2>5, IdsDistinct
  <2>7. j = k
    BY <1>6, <2>1, <2>4, <2>6
  <2>. QED
    BY <2>3, <2>7
<1>13. RowMap(S, d, r)
  BY <1>9, <1>10, <1>11 DEF RowMap
<1>14. (\A s \in segments : \E x \in S : Quotes(x, s, most)) => Onto(r, S, DataRows(d))
  BY <1>2, <1>12 DEF Onto
<1>. QED
  BY <1>13, <1>14

\* At most one row is at most one.
LEMMA AtMostOne ==
    ASSUME NEW S, IsFiniteSet(S), Cardinality(S) <= 1, NEW x \in S, NEW y \in S
    PROVE  x = y
<1>1. Cardinality(S) \in Nat /\ Cardinality(S) # 0
  BY FS_CardinalityType, FS_EmptySet
<1>2. Cardinality(S) = 1
  BY <1>1
<1>3. \E z : S = {z}
  BY <1>2, FS_Singleton
<1>. QED
  BY <1>3

\* The tickets of a group are found just when each is a row the demo quotes, and
\* are then of as many accounts as the rows have.
Matched(S, r, rows) == {x \in S : r[x] \in rows}
AccountsOf(d, r, M) == {Cells(d, r[x], AccountColumn) : x \in M}
OneRowEach(d, tickets) == \A t \in tickets : Cardinality(RowsOn(d, {t})) <= 1
AllFound(d, tickets) == \A t \in tickets : RowsOn(d, {t}) # {}

Judges(d, S, r, tickets, rows, M, A) ==
    /\ Cardinality(M) = Cardinality(tickets) =>
         /\ AllFound(d, tickets)
         /\ Cardinality(UNION {Cells(d, k, AccountColumn) : k \in rows}) = Cardinality(A)
    /\ Onto(r, S, DataRows(d)) /\ AllFound(d, tickets) => Cardinality(M) = Cardinality(tickets)

LEMMA GroupJudged ==
    ASSUME NEW d, NEW C, d.rows \in Seq([ok : BOOLEAN, cells : Seq(Seq(C))]),
           CsvParses(d), ParserFor(d) = "csv", NEW S, NEW r, RowMap(S, d, r),
           NEW tickets, IsFiniteSet(tickets), NEW rows, rows = RowsOn(d, tickets),
           NEW M, M = Matched(S, r, rows), NEW A, A = AccountsOf(d, r, M), OneRowEach(d, tickets),
           rows # {} => AccountColumn \in ToSet(Headers(d))
    PROVE  Judges(d, S, r, tickets, rows, M, A)
<1>. USE DEF Judges, Matched, AccountsOf, OneRowEach, AllFound
<1>1. rows \subseteq DataRows(d) /\ rows \subseteq 2 .. Len(d.rows)
  BY RowsThatSay DEF RowsOn
<1>. DEFINE p == [x \in M |-> r[x]]
            g == [k \in rows |-> CHOOSE t \in tickets : t \in Cells(d, k, TicketColumn)]
<1>2. \A x \in M : p[x] = r[x] /\ x \in S
  OBVIOUS
<1>3. p \in [M -> rows]
  OBVIOUS
<1>4. \A x, y \in M : p[x] = p[y] => x = y
  BY <1>2 DEF RowMap
<1>5. ASSUME NEW k \in rows PROVE g[k] \in tickets /\ g[k] \in Cells(d, k, TicketColumn)
  <2>1. Cells(d, k, TicketColumn) \cap tickets # {}
    BY DEF RowsOn
  <2>2. \E t \in tickets : t \in Cells(d, k, TicketColumn)
    BY <2>1
  <2>. QED
    BY <2>2
<1>6. g = [k \in rows |-> g[k]]
  OBVIOUS
<1>. HIDE DEF p, g
<1>7. g \in [rows -> tickets]
  BY <1>5, <1>6
<1>8. ASSUME NEW k, NEW t PROVE k \in RowsOn(d, {t}) /\ t \in tickets <=> k \in rows /\ t \in tickets /\ t \in Cells(d, k, TicketColumn)
  BY DEF RowsOn
<1>9. ASSUME NEW t PROVE IsFiniteSet(RowsOn(d, {t}))
  <2>1. IsFiniteSet(2 .. Len(d.rows))
    <3>1. 2 \in Int /\ Len(d.rows) \in Int
      OBVIOUS
    <3>. QED
      BY <3>1, FS_Interval
  <2>2. RowsOn(d, {t}) \subseteq 2 .. Len(d.rows)
    BY DEF RowsOn
  <2>. QED
    BY <2>1, <2>2, FS_Subset
<1>10. ASSUME NEW j \in rows, NEW k \in rows, g[j] = g[k] PROVE j = k
  <2>1. PICK t \in tickets : t = g[j] /\ t \in Cells(d, j, TicketColumn) /\ t \in Cells(d, k, TicketColumn)
    BY <1>5, <1>10
  <2>2. j \in RowsOn(d, {t}) /\ k \in RowsOn(d, {t})
    BY <1>8, <2>1
  <2>3. IsFiniteSet(RowsOn(d, {t})) /\ Cardinality(RowsOn(d, {t})) <= 1
    BY <1>9
  <2>. QED
    BY <2>2, <2>3, AtMostOne
<1>11. IsFiniteSet(M) /\ (Cardinality(M) = Cardinality(tickets) <=> Onto(p, M, rows) /\ Onto(g, rows, tickets))
  <2>1. OneToOne(p, M) /\ OneToOne(g, rows)
    BY <1>4, <1>10 DEF OneToOne
  <2>2. PICK P \in [M -> rows], G \in [rows -> tickets] : P = p /\ G = g
    BY <1>3, <1>7
  <2>3. OneToOne(P, M) /\ OneToOne(G, rows)
    BY <2>1, <2>2
  <2>4. IsFiniteSet(M) /\ (Cardinality(M) = Cardinality(tickets) <=> Onto(P, M, rows) /\ Onto(G, rows, tickets))
    BY <2>3, GroupCounted, Zenon
  <2>. QED
    BY <2>2, <2>4
<1>12. Onto(g, rows, tickets) <=> \A t \in tickets : RowsOn(d, {t}) # {}
  <2>1. ASSUME Onto(g, rows, tickets), NEW t \in tickets PROVE RowsOn(d, {t}) # {}
    <3>1. PICK k \in rows : g[k] = t
      BY <2>1 DEF Onto
    <3>2. t \in Cells(d, k, TicketColumn)
      BY <1>5, <3>1
    <3>3. k \in RowsOn(d, {t})
      BY <1>8, <3>2
    <3>. QED
      BY <3>3
  <2>2. ASSUME \A t \in tickets : RowsOn(d, {t}) # {}, NEW t \in tickets PROVE \E k \in rows : g[k] = t
    <3>1. PICK k : k \in RowsOn(d, {t})
      BY <2>2
    <3>2. k \in rows /\ t \in Cells(d, k, TicketColumn)
      BY <1>8, <3>1
    <3>3. g[k] \in Cells(d, k, TicketColumn) /\ k \in 2 .. Len(d.rows)
      BY <1>1, <1>5, <3>2
    <3>4. g[k] = t
      BY <3>2, <3>3, OneCell
    <3>. QED
      BY <3>2, <3>4
  <2>. QED
    BY <2>1, <2>2 DEF Onto
<1>13. ASSUME Onto(p, M, rows) PROVE Cardinality(UNION {Cells(d, k, AccountColumn) : k \in rows}) = Cardinality(A)
  <2>1. A = {Cells(d, k, AccountColumn) : k \in rows}
    <3>1. \A x \in M : r[x] \in rows
      OBVIOUS
    <3>2. \A k \in rows : \E x \in M : r[x] = k
      BY <1>2, <1>13 DEF Onto
    <3>. QED
      BY <3>1, <3>2
  <2>2. \A a \in A : \E c : a = {c}
    <3>1. \A k \in rows : \E c : Cells(d, k, AccountColumn) = {c}
      BY <1>1, OneCell
    <3>. QED
      BY <2>1, <3>1
  <2>3. IsFiniteSet(A)
    <3>. DEFINE f == [x \in M |-> Cells(d, r[x], AccountColumn)]
    <3>1. f \in [M -> A] /\ Onto(f, M, A)
      BY DEF Onto
    <3>. HIDE DEF f
    <3>. QED
      BY <1>11, <3>1, ImageFinite
  <2>4. Cardinality(UNION A) = Cardinality(A)
    BY <2>2, <2>3, SingletonsCounted
  <2>. QED
    BY <2>1, <2>4
<1>14. Onto(r, S, DataRows(d)) => Onto(p, M, rows)
  <2>. SUFFICES ASSUME Onto(r, S, DataRows(d)), NEW k \in rows PROVE \E x \in M : p[x] = k
    BY DEF Onto
  <2>1. PICK x \in S : r[x] = k
    BY <1>1 DEF Onto
  <2>. QED
    BY <1>2, <2>1
<1>. QED
  BY <1>11, <1>12, <1>13, <1>14

\* What the runner accepted is verified.
LEMMA AcceptedAreVerified ==
    ASSUME NEW ds, NEW cs, CitationsAccepted(ds, cs)
    PROVE  VerifiedDrafts(ds, cs) = ToSet(ds)
<1>1. /\ [i \in DOMAIN cs |-> cs[i].draft] = [i \in DOMAIN ds |-> ds[i].id]
      /\ \A i \in DOMAIN cs : cs[i].verified
  BY DEF CitationsAccepted
<1>2. DOMAIN cs = DOMAIN ds
  BY <1>1
<1>3. \A i \in DOMAIN ds : cs[i].draft = ds[i].id
  BY <1>1, <1>2
<1>4. \A i \in DOMAIN ds : \E j \in DOMAIN cs : cs[j].draft = ds[i].id /\ cs[j].verified
  BY <1>1, <1>2, <1>3
<1>. QED
  BY <1>4 DEF VerifiedDrafts, ToSet

\* What a quote has its segment has.
LEMMA QuoteOccurs ==
    ASSUME NEW C, NEW text \in Seq(C), NEW n \in Nat, NEW needle \in Seq(C),
           Occurs(needle, SelectQuote(text, n))
    PROVE  Occurs(needle, text)
<1>1. PICK e \in 0 .. Len(text) : SelectQuote(text, n) = Slice(text, 0, e)
  BY QuoteIsPrefix
<1>2. PICK zero \in Nat : zero = 0
  OBVIOUS
<1>3. e \in Nat /\ zero + e <= Len(text) /\ zero + e = e
  BY <1>2
<1>4. PICK quote \in Seq(C) : quote = Slice(text, zero, zero + e) /\ Len(quote) = e
  BY <1>3, SliceInside
<1>5. PICK i \in Nat, size \in Nat :
        /\ size = Len(needle) /\ i <= Len(text)
        /\ Slice(quote, i, i + size) = needle
  BY <1>1, <1>2, <1>3, <1>4 DEF Occurs
<1>6. \A whole \in Seq(C), from \in Nat, length \in Nat : from + length <= Len(whole) =>
        \E part \in Seq(C) : /\ part = Slice(whole, from, from + length) /\ Len(part) = length
                             /\ \A l \in 1 .. length : part[l] = whole[from + l]
  <2>1. ASSUME NEW whole \in Seq(C), NEW from \in Nat, NEW length \in Nat, from + length <= Len(whole)
        PROVE  \E part \in Seq(C) : /\ part = Slice(whole, from, from + length) /\ Len(part) = length
                                    /\ \A l \in 1 .. length : part[l] = whole[from + l]
    BY <2>1, SliceNamed
  <2>. QED
    BY <2>1, Zenon
<1>7. CASE needle = << >>
  BY <1>5, <1>7 DEF Occurs, Slice
<1>8. CASE needle # << >>
  <2>1. i + size <= Len(quote)
    BY <1>5, <1>8, ExactSlice
  <2>2. i + size <= Len(text)
    BY <1>3, <1>4, <2>1
  <2>3. PICK part \in Seq(C) : /\ part = Slice(quote, i, i + size) /\ Len(part) = size
                              /\ \A l \in 1 .. size : part[l] = quote[i + l]
    BY <1>6, <2>1, Zenon
  <2>4. PICK whole \in Seq(C) : /\ whole = Slice(text, i, i + size) /\ Len(whole) = size
                               /\ \A l \in 1 .. size : whole[l] = text[i + l]
    BY <1>6, <2>2, Zenon
  <2>5. \A l \in 1 .. e : quote[l] = text[l]
    <3>1. \A l \in 1 .. e : Slice(text, zero, zero + e)[l] = text[zero + l]
      BY <1>3, SliceInside
    <3>2. \A l \in 1 .. e : zero + l = l
      BY <1>2
    <3>. QED
      BY <1>4, <3>1, <3>2
  <2>6. \A l \in 1 .. size : i + l \in 1 .. e
    BY <1>4, <2>1
  <2>7. part = whole
    <3>1. \A l \in 1 .. size : part[l] = whole[l]
      BY <2>3, <2>4, <2>5, <2>6
    <3>. QED
      BY <2>3, <2>4, <3>1
  <2>8. Slice(text, i, i + size) = needle /\ i \in 0 .. Len(text)
    BY <1>5, <2>3, <2>4, <2>7
  <2>. QED
    BY <1>5, <2>8 DEF Occurs
<1>. QED
  BY <1>7, <1>8

\* A text is quoted only if a segment has it, and if one has that is quoted whole.
LEMMA QuoteJudged ==
    ASSUME NEW C, NEW segments, \A s \in segments : s.text \in Seq(C), NEW most \in Nat,
           NEW S, Quoted(S, segments, most), NEW needle \in Seq(C)
    PROVE  /\ QuotedIn(needle, S) => \E s \in segments : Occurs(needle, s.text)
           /\ /\ \A s \in segments : most >= Len(s.text)
              /\ AllQuoted(S, segments, most)
              /\ \E s \in segments : Occurs(needle, s.text)
              => QuotedIn(needle, S)
<1>. USE DEF Quoted, AllQuoted
<1>1. ASSUME NEW x \in S, Occurs(needle, x.quote) PROVE \E s \in segments : Occurs(needle, s.text)
  <2>1. PICK s \in segments : Quotes(x, s, most)
    OBVIOUS
  <2>2. PICK text \in Seq(C) : text = s.text
    OBVIOUS
  <2>3. Occurs(needle, SelectQuote(text, most))
    BY <1>1, <2>1, <2>2 DEF Quotes
  <2>4. Occurs(needle, text)
    BY <2>3, QuoteOccurs
  <2>. QED
    BY <2>2, <2>4
<1>2. ASSUME NEW s \in segments, most >= Len(s.text), NEW x \in S, Quotes(x, s, most)
      PROVE  x.quote = s.text
  BY <1>2 DEF Quotes, SelectQuote
<1>. QED
  BY <1>1, <1>2 DEF QuotedIn

\* The drafts of a group of tickets are those of the rows about them.
Finds(S, d, r, tickets) ==
    /\ RowsOf(tickets, S) = {x \in S : r[x] \in RowsOn(d, tickets)}
    /\ \A x \in S : x.locator.unit.columns = Headers(d)
    /\ \A x \in S : CellOf(x.locator.unit, AccountColumn) = Cells(d, r[x], AccountColumn)

LEMMA RowsFound ==
    ASSUME NEW d, NEW S, NEW r, RowMap(S, d, r), ParserFor(d) = "csv",
           NEW C, d.rows \in Seq([ok : BOOLEAN, cells : Seq(Seq(C))]), NEW tickets
    PROVE  Finds(S, d, r, tickets)
<1>1. ASSUME NEW x \in S
      PROVE  /\ x.locator.kind = "csv" /\ x.locator.unit = RowUnit(d, r[x]) /\ r[x] \in DataRows(d)
  BY DEF RowMap
<1>2. \A x \in S : CellOf(x.locator.unit, TicketColumn) = Cells(d, r[x], TicketColumn)
  BY <1>1, CellsOfUnit
<1>3. \A x \in S : r[x] \in 2 .. Len(d.rows) /\ RowSays(d.rows[r[x]])
  BY <1>1, RowsThatSay
<1>4. ASSUME NEW x \in S PROVE x \in RowsOf(tickets, S) <=> r[x] \in RowsOn(d, tickets)
  <2>1. x \in RowsOf(tickets, S) <=> \E t \in tickets : t \in Cells(d, r[x], TicketColumn)
    BY <1>1, <1>2 DEF RowsOf
  <2>2. r[x] \in RowsOn(d, tickets) <=> Cells(d, r[x], TicketColumn) \cap tickets # {}
    BY <1>3 DEF RowsOn
  <2>. QED
    BY <2>1, <2>2
<1>5. RowsOf(tickets, S) \subseteq S
  BY DEF RowsOf
<1>6. ASSUME NEW x \in S PROVE x.locator.unit.columns = Headers(d)
  <2>1. PICK unit : unit = x.locator.unit /\ unit = RowUnit(d, r[x])
    BY <1>1
  <2>2. unit.columns = Headers(d)
    BY <2>1 DEF RowUnit
  <2>. QED
    BY <2>1, <2>2
<1>7. \A x \in S : CellOf(x.locator.unit, AccountColumn) = Cells(d, r[x], AccountColumn)
  BY <1>1, CellsOfUnit
<1>8. RowsOf(tickets, S) = {x \in S : r[x] \in RowsOn(d, tickets)}
  <2>1. PICK found, on : found = RowsOf(tickets, S) /\ on = RowsOn(d, tickets)
    OBVIOUS
  <2>2. \A x \in S : x \in found <=> r[x] \in on
    BY <1>4, <2>1
  <2>3. found \subseteq S
    BY <1>5, <2>1
  <2>4. found = {x \in S : r[x] \in on}
    BY <2>2, <2>3, Zenon
  <2>. QED
    BY <2>1, <2>4
<1>. QED
  BY <1>6, <1>7, <1>8 DEF Finds

\* A row case passes only on a row of the ticket, and on every one the demo quotes.
LEMMA RowJudged ==
    ASSUME NEW d, NEW S, NEW r, RowMap(S, d, r), ParserFor(d) = "csv",
           NEW C, d.rows \in Seq([ok : BOOLEAN, cells : Seq(Seq(C))]), NEW case
    PROVE  /\ RowCasePasses(case, S) =>
                RowsOn(d, {case.ticket}) # {} /\ case.columns \subseteq ToSet(Headers(d))
           /\ /\ Onto(r, S, DataRows(d))
              /\ RowsOn(d, {case.ticket}) # {} /\ case.columns \subseteq ToSet(Headers(d))
              => RowCasePasses(case, S)
<1>1. PICK ticket : ticket = {case.ticket}
  OBVIOUS
<1>a. Finds(S, d, r, ticket)
  BY RowsFound
<1>2. /\ RowsOf(ticket, S) = {x \in S : r[x] \in RowsOn(d, ticket)}
      /\ \A x \in S : x.locator.unit.columns = Headers(d)
  BY <1>a DEF Finds
<1>3. RowCasePasses(case, S) <=>
        /\ \E x \in S : r[x] \in RowsOn(d, ticket)
        /\ \A x \in S : r[x] \in RowsOn(d, ticket) => case.columns \subseteq ToSet(Headers(d))
  BY <1>1, <1>2 DEF RowCasePasses
<1>4. RowsOn(d, ticket) \subseteq DataRows(d)
  BY RowsThatSay DEF RowsOn
<1>5. Onto(r, S, DataRows(d)) => \A k \in RowsOn(d, ticket) : \E x \in S : r[x] = k
  BY <1>4 DEF Onto
<1>. QED
  BY <1>1, <1>3, <1>5

\* A row that is quoted whole is read back.
LEMMA WholeRowsAreReadable ==
    ASSUME NEW d, NEW library, NEW C, Readable(d, library, C), NEW segments, segments = SegmentsOf(d, library),
           NEW most, \A s \in segments : most >= Len(s.text),
           NEW S, Quoted(S, segments, most)
    PROVE  RowsReadable(S)
<1>. USE DEF Quoted
<1>1. SUFFICES ASSUME NEW x \in S, x.locator.kind = "csv"
               PROVE  x.quote = RenderedRow(x.locator.unit.columns, x.locator.unit.cells)
  BY DEF RowsReadable
<1>a. PICK s \in segments : Quotes(x, s, most)
  OBVIOUS
<1>2. PICK locator, quote : Quotes(x, s, most) /\ locator = x.locator /\ quote = x.quote
  BY <1>a
<1>3. locator = NarrowLocator(s, quote, 0) /\ locator.kind = "csv" /\ quote = s.text
  BY <1>1, <1>2 DEF Quotes, SelectQuote
<1>4. ParserFor(d) = "csv"
  BY <1>2, <1>3, OtherDraft
<1>5. segments = CsvSegments(d)
  BY <1>4 DEF SegmentsOf
<1>6. PICK k \in DataRows(d) : s = CsvAt(d, k)
  <2>1. PICK T : d.rows \in Seq(T)
    BY DEF Readable
  <2>2. Numbered(CsvSegments(d), DataRows(d), [k \in DataRows(d) |-> CsvAt(d, k)])
    BY <2>1, CsvNumbered
  <2>. QED
    BY <1>5, <2>2 DEF Numbered
<1>7. locator.unit = RowUnit(d, k)
  BY <1>3, <1>6, TableDraft
<1>8. s.text = RenderedRow(Headers(d), d.rows[k].cells)
  BY <1>6 DEF CsvAt, Segment
<1>. QED
  BY <1>2, <1>3, <1>7, <1>8 DEF RowUnit

\* A verdict is of what the demo returned and the runner accepted.
VerdictInv ==
    /\ stage = "returned" => CitationsAccepted(drafts, checks)
    /\ verdict # Nothing =>
         /\ stage = "returned" /\ config.mode = "demo"
         /\ \E case \in Cases[document], control \in Controls :
               verdict = [case |-> case, control |-> control,
                          status |-> Verdict(case, drafts, checks, control)]

LEMMA VerdictStep ==
    ASSUME VerdictInv, [Next]_vars
    PROVE  VerdictInv'
<1>. USE DEF Unserved, Unstored, Fail, result, VerdictInv
<1>1. CASE Parse
  BY <1>1 DEF Parse
<1>2. CASE ExtractDemo
  BY <1>2 DEF ExtractDemo
<1>3. CASE AskModel
  BY <1>3 DEF AskModel
<1>4. CASE ModelFails
  BY <1>4 DEF ModelFails
<1>5. ASSUME NEW proposal \in Proposals, Bind(proposal) PROVE VerdictInv'
  BY <1>5 DEF Bind
<1>6. CASE AnswerEnds
  BY <1>6 DEF AnswerEnds
<1>7. CASE Verify
  BY <1>7 DEF Verify
<1>8. CASE Check
  BY <1>8 DEF Check
<1>9. CASE Persist
  BY <1>9 DEF Persist
<1>10. ASSUME NEW c \in Configurations, Rerun(c) PROVE VerdictInv'
  BY <1>10 DEF Rerun, Begin
<1>11. ASSUME NEW row \in evidence, ReadContext(row) PROVE VerdictInv'
  BY <1>11 DEF ReadContext
<1>12. ASSUME NEW case \in Cases[document], NEW control \in Controls, Evaluate(case, control)
       PROVE  VerdictInv'
  BY <1>12 DEF Evaluate
<1>13. CASE UNCHANGED vars
  BY <1>13 DEF vars
<1>. QED
  BY <1>1, <1>2, <1>3, <1>4, <1>5, <1>6, <1>7, <1>8, <1>9, <1>10, <1>11, <1>12, <1>13 DEF Next

\* What a case of each kind asks of a source, of which S is what the demo quotes.
Whole(segments, c) ==
    c.maxEvidence >= Cardinality(segments) /\ \A s \in segments : c.maxQuoteChars >= Len(s.text)

Asked(d, segments, case, control) ==
    CASE case.kind = "quote" -> \E s \in segments : Occurs(case.text, s.text)
      [] case.kind = "injection" ->
           /\ \E s \in segments : Occurs(case.text, s.text)
           /\ \A text \in ToSet(control) : ~Occurs(case.text, text)
      [] case.kind = "row" -> RowsOn(d, {case.ticket}) # {} /\ case.columns \subseteq ToSet(Headers(d))
      [] case.kind = "group" ->
           /\ \A ticket \in case.tickets : RowsOn(d, {ticket}) # {}
           /\ Cardinality(UNION {Cells(d, k, AccountColumn) : k \in RowsOn(d, case.tickets)}) = case.accounts
      [] OTHER -> FALSE

Plain(d, case) ==
    case.kind = "group" =>
        /\ \A ticket \in case.tickets : Cardinality(RowsOn(d, {ticket})) <= 1
        /\ RowsOn(d, case.tickets) # {} => AccountColumn \in ToSet(Headers(d))

\* A group case judged: it passes only if the table has the group, and passes if
\* it has and the demo left nothing out.
LEMMA GroupCaseJudged ==
    ASSUME NEW d, NEW C, d.rows \in Seq([ok : BOOLEAN, cells : Seq(Seq(C))]),
           CsvParses(d), ParserFor(d) = "csv", NEW S, NEW r, RowMap(S, d, r),
           NEW segments, NEW case, NEW control, IsFiniteSet(case.tickets), case.kind = "group", Plain(d, case)
    PROVE  /\ GroupCasePasses(case, S) => Asked(d, segments, case, control)
           /\ Onto(r, S, DataRows(d)) /\ Asked(d, segments, case, control) => GroupCasePasses(case, S)
<1>1. PICK tickets : tickets = case.tickets /\ IsFiniteSet(tickets)
  OBVIOUS
<1>2. PICK rows : rows = RowsOn(d, tickets)
  OBVIOUS
<1>3. PICK M, A : M = Matched(S, r, rows) /\ A = AccountsOf(d, r, M)
  OBVIOUS
<1>4. OneRowEach(d, tickets) /\ (rows # {} => AccountColumn \in ToSet(Headers(d)))
  BY <1>1, <1>2 DEF Plain, OneRowEach
<1>5. Judges(d, S, r, tickets, rows, M, A)
  <2>1. IsFiniteSet(tickets) /\ rows = RowsOn(d, tickets) /\ OneRowEach(d, tickets)
    BY <1>1, <1>2, <1>4
  <2>. QED
    BY <1>3, <1>4, <2>1, GroupJudged, Zenon
<1>6. Finds(S, d, r, tickets)
  BY RowsFound
<1>7. RowsOf(tickets, S) = M
  BY <1>2, <1>3, <1>6, Zenon DEF Finds, Matched
<1>8. {CellOf(x.locator.unit, AccountColumn) : x \in M} = A
  <2>1. \A x \in M : CellOf(x.locator.unit, AccountColumn) = Cells(d, r[x], AccountColumn)
    BY <1>3, <1>6 DEF Finds, Matched
  <2>. QED
    BY <1>3, <2>1 DEF AccountsOf
<1>9. GroupCasePasses(case, S) <=>
        Cardinality(M) = Cardinality(tickets) /\ Cardinality(A) = case.accounts
  <2>1. {CellOf(x.locator.unit, AccountColumn) : x \in RowsOf(case.tickets, S)} = A
    BY <1>1, <1>7, <1>8
  <2>2. Cardinality(RowsOf(case.tickets, S)) = Cardinality(M)
    BY <1>1, <1>7
  <2>. QED
    BY <1>1, <2>1, <2>2 DEF GroupCasePasses
<1>10. Asked(d, segments, case, control) <=>
         /\ AllFound(d, tickets)
         /\ Cardinality(UNION {Cells(d, k, AccountColumn) : k \in rows}) = case.accounts
  BY <1>1, <1>2 DEF Asked, AllFound
<1>. QED
  BY <1>5, <1>9, <1>10, Zenon DEF Judges

\* The drafts of a document that is no table are about no ticket.
LEMMA NoRowsFound ==
    ASSUME NEW d, NEW library, NEW C, Readable(d, library, C), ParserFor(d) # "csv",
           NEW segments, segments = SegmentsOf(d, library), NEW most,
           NEW S, Quoted(S, segments, most), NEW tickets
    PROVE  RowsOf(tickets, S) = {} /\ RowsOn(d, tickets) = {}
<1>. USE DEF Quoted
<1>1. ASSUME NEW x \in S PROVE x.locator.kind # "csv"
  <2>1. PICK s \in segments : Quotes(x, s, most)
    OBVIOUS
  <2>2. PICK locator, quote : locator = x.locator /\ quote = x.quote
    OBVIOUS
  <2>3. locator = NarrowLocator(s, quote, 0)
    BY <2>1, <2>2 DEF Quotes
  <2>4. locator.kind # "csv"
    BY <2>3, OtherDraft
  <2>. QED
    BY <2>2, <2>4
<1>2. RowsOf(tickets, S) = {}
  BY <1>1 DEF RowsOf
<1>3. RowsOn(d, tickets) = {}
  BY DEF RowsOn
<1>. QED
  BY <1>2, <1>3

\* A case about rows, judged on a document of any kind.
LEMMA RowCaseJudged ==
    ASSUME NEW d, NEW library, NEW C, Readable(d, library, C),
           NEW segments, segments = SegmentsOf(d, library), NEW c,
           NEW most, most = c.maxQuoteChars, NEW S, Quoted(S, segments, most), OneQuoteEach(S),
           c.maxEvidence >= Cardinality(segments) => AllQuoted(S, segments, most),
           NEW case, NEW control, case.kind \in {"row", "group"}, case.kind = "group" => IsFiniteSet(case.tickets),
           Plain(d, case), NEW passes,
           case.kind = "row" => passes = RowCasePasses(case, S),
           case.kind = "group" => passes = GroupCasePasses(case, S)
    PROVE  /\ passes => Asked(d, segments, case, control)
           /\ Whole(segments, c) /\ Asked(d, segments, case, control) => passes
<1>0. d.rows \in Seq([ok : BOOLEAN, cells : Seq(Seq(C))])
  BY DEF Readable
<1>1. CASE ParserFor(d) = "csv"
  <2>1. CsvParses(d)
    BY <1>1 DEF Readable, Parses
  <2>3. PICK r : RowMap(S, d, r) /\ (AllQuoted(S, segments, most) => Onto(r, S, DataRows(d)))
    BY <1>1, DraftRows
  <2>4. Whole(segments, c) => Onto(r, S, DataRows(d))
    BY <2>3 DEF Whole
  <2>5. CASE case.kind = "row"
    <3>1. /\ RowCasePasses(case, S) =>
               RowsOn(d, {case.ticket}) # {} /\ case.columns \subseteq ToSet(Headers(d))
          /\ /\ Onto(r, S, DataRows(d))
             /\ RowsOn(d, {case.ticket}) # {} /\ case.columns \subseteq ToSet(Headers(d))
             => RowCasePasses(case, S)
      BY <1>0, <1>1, <2>3, RowJudged, Zenon
    <3>2. Asked(d, segments, case, control) <=>
            RowsOn(d, {case.ticket}) # {} /\ case.columns \subseteq ToSet(Headers(d))
      BY <2>5 DEF Asked
    <3>. QED
      BY <2>4, <2>5, <3>1, <3>2, Zenon
  <2>6. CASE case.kind = "group"
    <3>1. /\ GroupCasePasses(case, S) => Asked(d, segments, case, control)
          /\ Onto(r, S, DataRows(d)) /\ Asked(d, segments, case, control) => GroupCasePasses(case, S)
      BY <1>0, <1>1, <2>1, <2>3, <2>6, GroupCaseJudged, Zenon
    <3>. QED
      BY <2>4, <2>6, <3>1, Zenon
  <2>. QED
    BY <2>5, <2>6
<1>2. CASE ParserFor(d) # "csv"
  <2>1. ASSUME NEW tickets PROVE RowsOf(tickets, S) = {} /\ RowsOn(d, tickets) = {}
    BY <1>2, NoRowsFound
  <2>2. CASE case.kind = "row"
    <3>1. ~RowCasePasses(case, S)
      BY <2>1 DEF RowCasePasses
    <3>2. ~Asked(d, segments, case, control)
      BY <2>1, <2>2 DEF Asked
    <3>. QED
      BY <2>2, <3>1, <3>2
  <2>3. CASE case.kind = "group"
    <3>1. PICK tickets : tickets = case.tickets /\ IsFiniteSet(tickets)
      BY <2>3
    <3>2. GroupCasePasses(case, S) <=> Cardinality({}) = Cardinality(tickets) /\ Cardinality({}) = case.accounts
      <4>1. RowsOf(case.tickets, S) = {}
        BY <2>1
      <4>2. {CellOf(x.locator.unit, AccountColumn) : x \in RowsOf(case.tickets, S)} = {}
        BY <4>1
      <4>. QED
        BY <3>1, <4>1, <4>2 DEF GroupCasePasses
    <3>3. Asked(d, segments, case, control) <=> tickets = {} /\ Cardinality({}) = case.accounts
      <4>1. RowsOn(d, case.tickets) = {}
        BY <2>1
      <4>2. UNION {Cells(d, k, AccountColumn) : k \in RowsOn(d, case.tickets)} = {}
        BY <4>1
      <4>3. (\A t \in tickets : RowsOn(d, {t}) # {}) <=> tickets = {}
        BY <2>1
      <4>. QED
        BY <2>3, <3>1, <4>2, <4>3 DEF Asked
    <3>4. Cardinality({}) = Cardinality(tickets) <=> tickets = {}
      BY <3>1, FS_EmptySet
    <3>. QED
      BY <2>3, <3>2, <3>3, <3>4
  <2>. QED
    BY <2>2, <2>3
<1>. QED
  BY <1>1, <1>2

\* The verdict on a case, of the drafts S that were verified.
Judgement(case, S, control) ==
    CASE case.kind = "quote" -> IF QuotedIn(case.text, S) THEN "passed" ELSE "failed"
      [] case.kind = "injection" -> IF InjectionCasePasses(case, S, control) THEN "passed" ELSE "failed"
      [] case.kind = "row" -> IF ~RowsReadable(S) THEN "raised"
                              ELSE IF RowCasePasses(case, S) THEN "passed" ELSE "failed"
      [] case.kind = "group" -> IF ~RowsReadable(S) THEN "raised"
                                ELSE IF GroupCasePasses(case, S) THEN "passed" ELSE "failed"
      [] OTHER -> "skipped"

LEMMA CaseJudged ==
    ASSUME NEW d, NEW library, NEW C, Readable(d, library, C),
           NEW segments, segments = SegmentsOf(d, library), \A s \in segments : s.text \in Seq(C),
           NEW c, NEW most \in Nat, most = c.maxQuoteChars, NEW S, Quoted(S, segments, most), OneQuoteEach(S),
           c.maxEvidence >= Cardinality(segments) => AllQuoted(S, segments, most),
           NEW case, case.kind \in {"quote", "injection"} => case.text \in Seq(C),
           case.kind = "group" => IsFiniteSet(case.tickets),
           NEW control, NEW status, status = Judgement(case, S, control)
    PROVE  /\ status = "passed" /\ Plain(d, case) => Asked(d, segments, case, control)
           /\ status = "failed" /\ Plain(d, case) /\ Whole(segments, c) => ~Asked(d, segments, case, control)
           /\ status = "raised" => ~Whole(segments, c)
<1>1. CASE case.kind \in {"quote", "injection"}
  <2>0. PICK kept : kept = \A text \in ToSet(control) : ~Occurs(case.text, text)
    OBVIOUS
  <2>1. status = IF QuotedIn(case.text, S) /\ (case.kind = "injection" => kept) THEN "passed" ELSE "failed"
    BY <1>1, <2>0 DEF Judgement, InjectionCasePasses
  <2>2. PICK needle \in Seq(C) : needle = case.text
    BY <1>1
  <2>3. /\ QuotedIn(needle, S) => \E s \in segments : Occurs(needle, s.text)
        /\ /\ \A s \in segments : most >= Len(s.text)
           /\ AllQuoted(S, segments, most)
           /\ \E s \in segments : Occurs(needle, s.text)
           => QuotedIn(needle, S)
    BY QuoteJudged
  <2>4. Asked(d, segments, case, control) <=>
          (\E s \in segments : Occurs(needle, s.text)) /\ (case.kind = "injection" => kept)
    BY <1>1, <2>0, <2>2 DEF Asked
  <2>. QED
    BY <2>1, <2>2, <2>3, <2>4 DEF Whole
<1>2. CASE case.kind \in {"row", "group"}
  <2>1. Whole(segments, c) => RowsReadable(S)
    BY WholeRowsAreReadable DEF Whole
  <2>2. PICK passes : passes = IF case.kind = "row" THEN RowCasePasses(case, S) ELSE GroupCasePasses(case, S)
    OBVIOUS
  <2>3. /\ case.kind = "row" => passes = RowCasePasses(case, S)
        /\ case.kind = "group" => passes = GroupCasePasses(case, S)
    BY <2>2
  <2>4. ASSUME Plain(d, case)
        PROVE  /\ passes => Asked(d, segments, case, control)
               /\ Whole(segments, c) /\ Asked(d, segments, case, control) => passes
    BY <1>2, <2>3, <2>4, RowCaseJudged
  <2>5. status = IF ~RowsReadable(S) THEN "raised" ELSE IF passes THEN "passed" ELSE "failed"
    BY <1>2, <2>3 DEF Judgement
  <2>. QED
    BY <2>1, <2>4, <2>5
<1>3. CASE case.kind \notin {"quote", "injection", "row", "group"}
  <2>1. status = "skipped"
    BY <1>3 DEF Judgement
  <2>. QED
    BY <2>1
<1>. QED
  BY <1>1, <1>2, <1>3

LEMMA EvaluationFromInv ==
    ASSUME NEW C, TextsAre(C), CasesAre(C), PathInv, IdentitiesInv, VerdictInv
    PROVE  EvaluationHonest
<1>. SUFFICES ASSUME verdict # Nothing PROVE EvaluationHonest
  BY DEF EvaluationHonest
<1>1. /\ stage = "returned" /\ config.mode = "demo" /\ CitationsAccepted(drafts, checks)
      /\ drafts = DemoDrafts(parsed, config)
  BY DEF VerdictInv, IdentitiesInv
<1>2. /\ document \in Documents /\ config \in Configurations
      /\ Parses(document) /\ parsed = SegmentsOf(document, config.library)
  BY <1>1 DEF PathInv, PathTypeOK
<1>3. config.maxEvidence \in Nat /\ config.maxQuoteChars \in Nat
  BY <1>1, <1>2, ConfigurationsAssumption
<1>4. PICK d, library, c, segments : d = document /\ library = config.library /\ c = config /\ segments = parsed
  OBVIOUS
<1>5. Readable(d, library, C) /\ segments = SegmentsOf(d, library) /\ \A s \in segments : s.text \in Seq(C)
  BY <1>2, <1>4, SegmentsAreTexts DEF TextsAre
<1>6. PICK most \in Nat : most = c.maxQuoteChars /\ c.maxEvidence \in Nat
  BY <1>3, <1>4
<1>7. PICK ds, S : ds = drafts /\ ds = DemoDrafts(segments, c) /\ S = ToSet(ds)
  BY <1>1, <1>4
<1>8. Quoted(S, segments, most) /\ OneQuoteEach(S)
      /\ (c.maxEvidence >= Cardinality(segments) => AllQuoted(S, segments, most))
  BY <1>5, <1>6, <1>7, DemoShape DEF Quoted, OneQuoteEach, AllQuoted
<1>9. PICK case \in Cases[document], control \in Controls :
        verdict = [case |-> case, control |-> control, status |-> Verdict(case, drafts, checks, control)]
  BY DEF VerdictInv
<1>10. /\ case.kind \in {"quote", "injection"} => case.text \in Seq(C)
       /\ case.kind = "group" => IsFiniteSet(case.tickets)
  BY <1>2 DEF CasesAre
<1>11. VerifiedDrafts(drafts, checks) = S /\ ToSet(drafts) = S
  BY <1>1, <1>6, <1>7, AcceptedAreVerified
<1>12. Verdict(case, drafts, checks, control) = Judgement(case, S, control)
  BY <1>11 DEF Verdict, Judgement
<1>13. PICK status : /\ status = Judgement(case, S, control)
                     /\ verdict.case = case /\ verdict.control = control /\ verdict.status = status
  BY <1>9, <1>12
<1>14. /\ status = "passed" /\ Plain(d, case) => Asked(d, segments, case, control)
       /\ status = "failed" /\ Plain(d, case) /\ Whole(segments, c) => ~Asked(d, segments, case, control)
       /\ status = "raised" => ~Whole(segments, c)
  BY <1>5, <1>6, <1>8, <1>10, <1>13, CaseJudged
<1>15. PICK said, plain, whole :
         said = Asked(d, segments, case, control) /\ plain = Plain(d, case) /\ whole = Whole(segments, c)
  OBVIOUS
<1>16. /\ status = "passed" /\ plain => said
       /\ status = "failed" /\ plain /\ whole => ~said
       /\ status = "raised" => ~whole
  BY <1>14, <1>15
<1>17. \A tickets : TicketRows(tickets) = RowsOn(d, tickets)
  BY <1>4 DEF TicketRows, RowCells, RowsOn, Cells
<1>18. \A k : RowCells(k, AccountColumn) = Cells(d, k, AccountColumn)
  BY <1>4 DEF RowCells, Cells
<1>19. whole = (config.maxEvidence >= Cardinality(parsed) /\ \A s \in parsed : config.maxQuoteChars >= Len(s.text))
  BY <1>4, <1>15 DEF Whole
<1>20. plain = (case.kind = "group" =>
                  /\ \A ticket \in case.tickets : Cardinality(TicketRows({ticket})) <= 1
                  /\ TicketRows(case.tickets) # {} => AccountColumn \in ToSet(Headers(document)))
  BY <1>4, <1>15, <1>17 DEF Plain
<1>21. UNION {RowCells(k, AccountColumn) : k \in TicketRows(case.tickets)}
         = UNION {Cells(d, k, AccountColumn) : k \in RowsOn(d, case.tickets)}
  BY <1>17, <1>18
<1>22. said = CASE case.kind = "quote" -> \E s \in parsed : Occurs(case.text, s.text)
                [] case.kind = "injection" ->
                      /\ \E s \in parsed : Occurs(case.text, s.text)
                      /\ \A text \in ToSet(verdict.control) : ~Occurs(case.text, text)
                [] case.kind = "row" -> TicketRows({case.ticket}) # {}
                                        /\ case.columns \subseteq ToSet(Headers(document))
                [] case.kind = "group" ->
                      /\ \A ticket \in case.tickets : TicketRows({ticket}) # {}
                      /\ Cardinality(UNION {RowCells(k, AccountColumn) : k \in TicketRows(case.tickets)})
                           = case.accounts
                [] OTHER -> FALSE
  BY <1>4, <1>13, <1>15, <1>17, <1>21 DEF Asked
<1>. QED
  BY <1>13, <1>16, <1>19, <1>20, <1>22 DEF EvaluationHonest

\* A case of the evaluation passes only if the source says what it asks for, and
\* when the demo's limits leave nothing out it fails only if it does not.
THEOREM EvaluationIsHonest ==
    ASSUME NEW C, TextsAre(C), CasesAre(C)
    PROVE  Spec => []EvaluationHonest
<1>. DEFINE Inv == PathInv /\ AnswerInv(C) /\ IdentitiesInv /\ VerdictInv
<1>1. Init => Inv
  <2>. SUFFICES ASSUME Init PROVE Inv
    OBVIOUS
  <2>1. PathInv /\ AnswerInv(C)
    BY PathInvInit, AnswerInvInit
  <2>2. IdentitiesInv /\ VerdictInv
    BY DEF Init, IdentitiesInv, VerdictInv
  <2>. QED
    BY <2>1, <2>2
<1>2. Inv /\ [Next]_vars => Inv'
  <2>. SUFFICES ASSUME Inv, [Next]_vars PROVE Inv'
    OBVIOUS
  <2>. QED
    BY PathInvStep, AnswerStep, IdentitiesStep, VerdictStep
<1>3. Inv => EvaluationHonest
  BY EvaluationFromInv
<1>. QED
  BY <1>1, <1>2, <1>3, PTL DEF Spec

=============================================================================
