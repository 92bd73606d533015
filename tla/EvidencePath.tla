----------------------------- MODULE EvidencePath -----------------------------
(***************************************************************************)
(* From the bytes of a source to the passage a reader is shown: parse,     *)
(* extract, verify and check (ingestion_graph.py, ingestion_runner.py),    *)
(* persist (services/discovery.py), and read an evidence item back in its  *)
(* context (api/routes.py).                                                *)
(*                                                                         *)
(* One source revision is followed through its runs, one after the other,  *)
(* each under the configuration of the process that serves it.  How the    *)
(* runs of concurrent requests interleave is SourceProcessing's subject;   *)
(* this module has the contents that one leaves out.                       *)
(***************************************************************************)
EXTENDS Evaluation

CONSTANTS
    Documents,
    Configurations,     \* extractor and library of a serving process
    Observations,       \* what a model may say of a quote
    EvidenceLimit,      \* evidence of a document, proposals included (a bound for TLC)
    MaxRuns,            \* runs of the source (a bound for TLC)
    Cases,              \* the evaluation cases about a document
    Controls            \* the graph state and the profile as an evaluation may see them

ASSUME RunsAssumption == MaxRuns \in Nat \ {0}

\* The bounds the extractors' configurations are refused without.
ASSUME ConfigurationsAssumption ==
    \A c \in Configurations :
        \/ c.mode = "demo" /\ c.maxEvidence \in Nat /\ c.maxQuoteChars \in Nat \ {0}
        \/ c.mode = "openai" /\ {c.maxSegments, c.maxCharsPerSegment, c.maxTotalChars} \subseteq Nat \ {0}

VARIABLES
    document,
    config,         \* the configuration of the current run
    runs,           \* the runs begun
    succeeded,      \* the configurations a run succeeded under
    stage,          \* how far the current run has come
    error,          \* why it failed, "none" otherwise
    parsed,         \* its segments
    context,        \* what the model was shown
    proposals,      \* what the model answered so far
    drafts,         \* the drafts bound
    checks,         \* the verifier's checks
    stored,         \* the rows of table segments
    evidence,       \* the rows of evidence_units and evidence_revisions
    view,           \* the last evidence context served
    verdict         \* the last evaluation case judged

result == <<parsed, context, proposals, drafts, checks>>
vars == <<document, config, runs, succeeded, stage, error, result, stored, evidence, view, verdict>>

NoContext == [segments |-> {}, omitted |-> 0]
Nothing   == << >>

Begin ==
    /\ stage' = "parse"
    /\ error' = "none"
    /\ parsed' = {} /\ context' = NoContext
    /\ proposals' = << >> /\ drafts' = << >> /\ checks' = << >>

Init ==
    /\ document \in Documents
    /\ config \in Configurations
    /\ runs = 1
    /\ succeeded = {}
    /\ stage = "parse"
    /\ error = "none"
    /\ parsed = {} /\ context = NoContext
    /\ proposals = << >> /\ drafts = << >> /\ checks = << >>
    /\ stored = {} /\ evidence = {}
    /\ view = Nothing
    /\ verdict = Nothing

\* Only what is served changes.
Unserved == UNCHANGED <<document, config, runs, view, verdict>>
Unstored == UNCHANGED <<stored, evidence, succeeded>>

Fail(reason) == stage' = "failed" /\ error' = reason

-----------------------------------------------------------------------------
(* The ingestion graph. *)

\* A page that cannot be read raises an error of the library, not a ParseError.
Parse ==
    /\ stage = "parse"
    /\ IF Parses(document)
       THEN stage' = "extract" /\ parsed' = SegmentsOf(document, config.library) /\ UNCHANGED error
       ELSE /\ Fail(IF ParserFor(document) = "pdf" /\ document.opens THEN "page" ELSE "parse")
            /\ UNCHANGED parsed
    /\ UNCHANGED <<context, proposals, drafts, checks>>
    /\ Unserved /\ Unstored

ExtractDemo ==
    /\ stage = "extract" /\ config.mode = "demo"
    /\ drafts' = DemoDrafts(parsed, config)
    /\ stage' = "verify"
    /\ UNCHANGED <<error, parsed, context, proposals, checks>>
    /\ Unserved /\ Unstored

AskModel ==
    /\ stage = "extract" /\ config.mode = "openai"
    /\ context' = ContextPayload(parsed, config)
    /\ stage' = "bind"
    /\ UNCHANGED <<error, parsed, proposals, drafts, checks>>
    /\ Unserved /\ Unstored

\* The provider fails, or its answer is no structured output.
ModelFails ==
    /\ stage = "bind" /\ proposals = << >>
    /\ Fail("provider")
    /\ UNCHANGED result
    /\ Unserved /\ Unstored

\* A model may name any segment or none, and quote anything: a piece of some
\* segment, at the right place or not, or a text the segment does not have.
Pieces(segment) == {Slice(segment.text, k, k + n) : k \in Offsets(segment.text), n \in {1, 2}}

Proposals ==
    [segment : {s.id : s \in parsed} \cup {<< >>},
     quote   : {<<"invented">>} \cup UNION {Pieces(s) : s \in parsed},
     start   : {0} \cup UNION {Offsets(s.text) : s \in parsed},
     observation : Observations]

Bind(proposal) ==
    /\ stage = "bind" /\ Cardinality(evidence) + Len(proposals) < EvidenceLimit[document]
    /\ proposals' = Append(proposals, proposal)
    /\ IF Binds(proposal, parsed)
       THEN drafts' = Append(drafts, BoundDraft(proposal, parsed)) /\ UNCHANGED <<stage, error>>
       ELSE Fail("proposal") /\ UNCHANGED drafts
    /\ UNCHANGED <<parsed, context, checks>>
    /\ Unserved /\ Unstored

AnswerEnds ==
    /\ stage = "bind"
    /\ stage' = "verify"
    /\ UNCHANGED <<error, result>>
    /\ Unserved /\ Unstored

Verify ==
    /\ stage = "verify"
    /\ checks' = [i \in DOMAIN drafts |-> CitationCheck(drafts[i], parsed, document, config.library)]
    /\ stage' = "check"
    /\ UNCHANGED <<error, parsed, context, proposals, drafts>>
    /\ Unserved /\ Unstored

\* The runner returns what it verified, or raises CitationIntegrityFailure.
Check ==
    /\ stage = "check"
    /\ IF CitationsAccepted(drafts, checks)
       THEN stage' = "returned" /\ UNCHANGED error
       ELSE Fail("citation")
    /\ UNCHANGED result
    /\ Unserved /\ Unstored

-----------------------------------------------------------------------------
(* Persisting and reading back. *)

\* The hash of a revision covers the quote, what is said of it, and the locator.
ContentPayload(row) == <<row.quote, row.observation, row.locator>>

EvidenceRow(draft) ==
    [run |-> runs, segment |-> draft.segment, quote |-> draft.quote,
     observation |-> draft.observation, locator |-> draft.locator,
     content |-> ContentPayload(draft)]

\* Mutant of Persist: the segments are not added to the session.
PersistUnflushed ==
    /\ stage = "returned" /\ verdict = Nothing
    /\ IF parsed = {} THEN Fail("empty") /\ Unstored
       ELSE /\ stage' = "published" /\ UNCHANGED <<error, stored>>
            /\ succeeded' = succeeded \cup {config}
            /\ evidence' = evidence \cup {EvidenceRow(drafts[i]) : i \in DOMAIN drafts}
    /\ UNCHANGED result
    /\ Unserved

\* A later run reuses the segments of an earlier one, or fails if they drifted.
\* What the evaluation got from the runner is not persisted.
Persist ==
    /\ stage = "returned" /\ verdict = Nothing
    /\ IF parsed = {} THEN Fail("empty") /\ Unstored
       ELSE IF stored \notin {{}, parsed} THEN Fail("drift") /\ Unstored
       ELSE /\ stage' = "published" /\ UNCHANGED error
            /\ succeeded' = succeeded \cup {config}
            /\ stored' = parsed
            /\ evidence' = evidence \cup {EvidenceRow(drafts[i]) : i \in DOMAIN drafts}
    /\ UNCHANGED result
    /\ Unserved

\* The source is processed again.  A request finds the run that succeeded
\* under its configuration, and begins none.
Rerun(c) ==
    /\ stage \in {"published", "failed"} /\ view = Nothing
    /\ runs < MaxRuns /\ c \notin succeeded
    /\ runs' = runs + 1
    /\ config' = c
    /\ Begin
    /\ UNCHANGED <<document, view, verdict>> /\ Unstored

\* Two parts of a context, with a blank line between them if both say something.
Joined(first, second) ==
    first \o (IF << >> \in {first, second} THEN << >> ELSE <<"nl", "nl">>) \o second

\* The text of the segment in a place, empty if there is none.
TextOf(segments, o) ==
    IF \E s \in segments : s.ordinal = o THEN SegmentAt(segments, o).text ELSE << >>

\* Mutant of RelativeSpan: the offset of the segment is not subtracted.
AbsoluteSpan(segment, row) == [start |-> row.locator.start, end |-> row.locator.end]

\* Where a quote is in its segment, as the two locators have it.
RelativeSpan(segment, row) ==
    LET base == IF segment.locator.kind = "csv" THEN 0 ELSE segment.locator.start
    IN  [start |-> row.locator.start - base, end |-> row.locator.end - base]

EvidenceContext(row) ==
    LET segment == CHOOSE s \in stored : s.id = row.segment
        span    == RelativeSpan(segment, row)
        valid   == 0 <= span.start /\ span.start <= span.end /\ span.end <= Len(segment.text)
        left    == IF valid THEN Slice(segment.text, 0, span.start) ELSE << >>
        right   == IF valid THEN Slice(segment.text, span.end, Len(segment.text)) ELSE << >>
    IN  [row |-> row,
         before    |-> Joined(TextOf(stored, segment.ordinal - 1), left),
         highlight |-> row.quote,
         after     |-> Joined(right, TextOf(stored, segment.ordinal + 1)),
         segments  |-> {s \in stored : s.ordinal \in (segment.ordinal - 1) .. (segment.ordinal + 1)},
         evidenceHashMatches |-> row.content = ContentPayload(row),
         quoteMatchesSegment |->
            /\ valid /\ Slice(segment.text, span.start, span.end) = row.quote
            /\ row.locator.segment = segment.id
            /\ row.locator.source = document
            /\ row.locator.quote = row.quote]

ReadContext(row) ==
    /\ stage \in {"published", "failed"} /\ view = Nothing
    /\ view' = EvidenceContext(row)
    /\ UNCHANGED <<document, config, runs, stage, error, result, verdict>> /\ Unstored

\* The evaluation judges what the demo returned, and stores nothing.
Evaluate(case, control) ==
    /\ stage = "returned" /\ config.mode = "demo" /\ verdict = Nothing
    /\ verdict' = [case |-> case, control |-> control,
                   status |-> Verdict(case, drafts, checks, control)]
    /\ UNCHANGED <<document, config, runs, stage, error, result, view>> /\ Unstored

Next ==
    \/ Parse \/ ExtractDemo \/ AskModel \/ ModelFails \/ AnswerEnds \/ Verify \/ Check \/ Persist
    \/ \E proposal \in Proposals : Bind(proposal)
    \/ \E c \in Configurations : Rerun(c)
    \/ \E row \in evidence : ReadContext(row)
    \/ \E case \in Cases[document], control \in Controls : Evaluate(case, control)

Spec == Init /\ [][Next]_vars

-----------------------------------------------------------------------------
(* Properties. *)

PathTypeOK ==
    /\ document \in Documents /\ config \in Configurations
    /\ runs \in 1 .. MaxRuns /\ succeeded \subseteq Configurations
    /\ stage \in {"parse", "extract", "bind", "verify", "check", "returned", "published", "failed"}
    /\ error \in {"none", "parse", "page", "provider", "proposal", "citation", "empty", "drift"}
    /\ stage = "failed" <=> error # "none"
    /\ parsed # {} => Parses(document)
    /\ stored # {} <=> succeeded # {}

Ink(text) == FlattenSeq([k \in DOMAIN text |-> IF text[k] \in Space THEN << >> ELSE <<text[k]>>])

LineBreaks(text, i, j) == {k \in i .. (j - 1) : At(text, k) = "nl"}

\* Two line breaks with nothing but white space between; a carriage return is
\* white space here only as the first half of a line break.
BlankLineIn(text, i, j) ==
    \E k, m \in LineBreaks(text, i, j) : k < m /\ \A l \in k .. m :
        \/ At(text, l) \in {"nl"} \cup Blanks
        \/ At(text, l) = "cr" /\ At(text, l + 1) = "nl"

Says(text) == \E k \in Offsets(text) : At(text, k) \notin Space
RowSays(row) == \E cell \in ToSet(row.cells) : Says(cell)

\* The segments are a partition of what a source says, and lead back to it: in
\* order, numbered from 0 without a gap, each with a locator that replays to its
\* text and an id of its own; a block of text has no blank line in it and one
\* before the next, a row that says something is one segment, and so is a page,
\* whose segment has all of it but the white space around it.
SegmentsCoverSource ==
    stage = "extract" =>
        /\ {s.ordinal : s \in parsed} = 0 .. (Cardinality(parsed) - 1)
        /\ \A s, t \in parsed : s.id = t.id => s = t
        /\ \A s \in parsed : ReplayLocator(s.locator, document, config.library) = {s.text}
        /\ ParserFor(document) = "text" =>
              /\ \A s, t \in parsed : s.ordinal + 1 = t.ordinal =>
                    /\ s.locator.end < t.locator.start
                    /\ BlankLineIn(document.text, s.locator.end, t.locator.start)
              /\ \A k \in Offsets(document.text) : At(document.text, k) \notin Space =>
                    \E s \in parsed : k \in s.locator.start .. (s.locator.end - 1)
              /\ \A s \in parsed : ~BlankLineIn(document.text, s.locator.start, s.locator.end)
        /\ ParserFor(document) = "csv" =>
              \A k \in 2 .. Len(document.rows) : RowSays(document.rows[k]) =>
                 \E s \in parsed :
                    /\ s.locator.unit.cells = document.rows[k].cells
                    /\ s.ordinal = Cardinality({m \in 2 .. (k - 1) : RowSays(document.rows[m])})
        /\ ParserFor(document) = "pdf" =>
              \A k \in DOMAIN document.pages[config.library] :
                 LET page == document.pages[config.library][k]
                 IN  Says(page) => \E s \in parsed, i, j \in 0 .. Len(page) :
                        /\ s.id = <<k>> /\ s.text = Slice(page, i, j)
                        /\ \A l \in Offsets(page) : At(page, l) \notin Space => l \in i .. (j - 1)

\* A reader shown an evidence item sees its quote between what precedes and what
\* follows it in the source: nothing is lost, repeated or moved, whichever run
\* published it and whatever happened to the runs after it.
ContextReplaysQuote ==
    view # Nothing =>
        LET shown  == view.before \o view.highlight \o view.after
            starts == {s.locator.start : s \in view.segments}
            ends   == {s.locator.end : s \in view.segments}
        IN  /\ view.evidenceHashMatches /\ view.quoteMatchesSegment
            /\ \E s \in view.segments :
                  /\ s.id = view.row.segment
                  /\ Ink(shown) = Ink(TextOf(view.segments, s.ordinal - 1) \o s.text
                                       \o TextOf(view.segments, s.ordinal + 1))
                  /\ view.segments = {t \in stored : t.ordinal - s.ordinal \in {-1, 0, 1}}
            /\ ParserFor(document) = "text" =>
                  /\ Slice(document.text, view.row.locator.start, view.row.locator.end) = view.highlight
                  /\ \E i \in starts, j \in ends :
                        /\ \A k \in starts : i <= k
                        /\ \A k \in ends : k <= j
                        /\ Ink(shown) = Ink(Slice(document.text, i, j))

\* What a proposal claims is so in the source itself.
ClaimHolds(proposal) ==
    \E s \in SegmentsOf(document, config.library) :
        /\ s.id = proposal.segment
        /\ IF s.locator.kind = "text"
           THEN /\ proposal.start + Len(proposal.quote) <= s.locator.end - s.locator.start
                /\ \A k \in 1 .. Len(proposal.quote) :
                      proposal.quote[k] = document.text[s.locator.start + proposal.start + k]
           ELSE \A k \in 1 .. Len(proposal.quote) :
                   /\ proposal.start + k <= Len(s.text)
                   /\ proposal.quote[k] = s.text[proposal.start + k]

\* An answer of the model is taken as a whole or not at all: it is published if
\* and only if each claim holds and no two of them quote the same words of a
\* segment with the same observation (the same words at another place count as
\* the same).  The demo's own quotes are never refused.
PublishedExactlyWhenSound ==
    LET claims == ToSet(proposals)
        Sound  == /\ \A p \in claims : ClaimHolds(p)
                  /\ \A i, j \in DOMAIN proposals : i # j =>
                        <<proposals[i].segment, proposals[i].quote, proposals[i].observation>>
                        # <<proposals[j].segment, proposals[j].quote, proposals[j].observation>>
    IN  /\ stage \in {"returned", "published"} \/ error \in {"empty", "drift"} => Sound
        /\ error \in {"proposal", "citation"} => ~Sound
        /\ stage = "published" =>
              Cardinality({row \in evidence : row.run = runs}) =
                  IF config.mode = "openai" THEN Len(proposals)
                  ELSE IF Cardinality(parsed) < config.maxEvidence THEN Cardinality(parsed)
                  ELSE config.maxEvidence

\* The model is shown the beginning of the document within its three limits, all
\* of it unless a limit is used up, and is told how many segments it was not shown.
ContextBudgetKept ==
    context # NoContext =>
        LET shown  == context.segments
            Source(v) == CHOOSE s \in parsed : s.id = v.segment
            used   == Cardinality(UNION {{<<v.segment, k>> : k \in DOMAIN v.text} : v \in shown})
            full   == used = config.maxTotalChars
        IN  /\ used <= config.maxTotalChars
            /\ Cardinality(shown) <= config.maxSegments
            /\ \A v \in shown :
                  /\ v.text # << >> /\ Len(v.text) <= config.maxCharsPerSegment
                  /\ IsPrefix(v.text, Source(v).text)
                  /\ v.truncated <=> v.text # Source(v).text
                  /\ v.truncated => Len(v.text) = config.maxCharsPerSegment \/ full
            /\ {Source(v).ordinal : v \in shown} = 0 .. (Cardinality(shown) - 1)
            /\ context.omitted = Cardinality(parsed) - Cardinality(shown)
            /\ context.omitted > 0 => Cardinality(shown) = config.maxSegments \/ full

\* The cells of a row in a column, and the rows of a table, of those that say
\* something, that are about one of the tickets.
RowCells(k, column) ==
    {document.rows[k].cells[i] : i \in {i \in DOMAIN Headers(document) : Headers(document)[i] = column}}

TicketRows(tickets) ==
    {k \in 2 .. Len(document.rows) : /\ ParserFor(document) = "csv" /\ RowSays(document.rows[k])
                                     /\ RowCells(k, TicketColumn) \cap tickets # {}}

\* A case passes only if the source says what the case asks for: the quote is in
\* it, the ticket's row is in it with these columns, all the tickets of the group
\* are in it, of as many accounts; an injected text, moreover, only if neither the
\* graph state nor the profile has it.  When the extractor's limits leave nothing
\* out it fails only if that is not so.  A missing ticket goes unnoticed, and a
\* group that is there fails, only if one of its tickets has two rows, which may
\* stand for a missing one, or the table has no column of accounts.
EvaluationHonest ==
    verdict # Nothing =>
        LET case   == verdict.case
            whole  == /\ config.maxEvidence >= Cardinality(parsed)
                      /\ \A s \in parsed : config.maxQuoteChars >= Len(s.text)
            said   ==
                CASE case.kind = "quote" -> \E s \in parsed : Occurs(case.text, s.text)
                  [] case.kind = "injection" ->
                        /\ \E s \in parsed : Occurs(case.text, s.text)
                        /\ \A text \in ToSet(verdict.control) : ~Occurs(case.text, text)
                  [] case.kind = "row" -> TicketRows({case.ticket}) # {}
                                          /\ case.columns \subseteq ToSet(Headers(document))
                  [] case.kind = "group" ->
                        /\ \A ticket \in case.tickets : TicketRows({ticket}) # {}
                        /\ Cardinality(UNION {RowCells(k, AccountColumn) : k \in TicketRows(case.tickets)})
                             = case.accounts
                  [] OTHER -> FALSE
            plain  == case.kind = "group" =>
                        /\ \A ticket \in case.tickets : Cardinality(TicketRows({ticket})) <= 1
                        /\ TicketRows(case.tickets) # {} => AccountColumn \in ToSet(Headers(document))
        IN  /\ verdict.status = "passed" /\ plain => said
            /\ verdict.status = "failed" /\ plain /\ whole => ~said
            /\ verdict.status = "raised" => ~whole

-----------------------------------------------------------------------------
(* What the theorems suppose of the constants. *)

\* The documents' texts are sequences of characters, and C has these, the marks
\* rows are rendered with, and what a model may invent.
TextsAre(C) ==
    /\ {"invented"} \cup Marks \subseteq C
    /\ \A d \in Documents, c \in Configurations : Parses(d) => Readable(d, c.library, C)

\* A case's text is one, and a group is finite.
CasesAre(C) ==
    \A d \in Documents : \A case \in Cases[d] :
        /\ case.kind \in {"quote", "injection"} => case.text \in Seq(C)
        /\ case.kind = "group" => IsFiniteSet(case.tickets)
=============================================================================
