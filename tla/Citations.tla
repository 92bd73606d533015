------------------------------- MODULE Citations -------------------------------
(***************************************************************************)
(* ingestion/parsers.py: a document is cut into segments, a quote narrows  *)
(* the locator of its segment, and a locator is replayed against the       *)
(* document it was made from.                                              *)
(*                                                                         *)
(* A text is a sequence of characters, and an offset counts them from 0,   *)
(* as in the program.  A document holds what each parser sees in its       *)
(* bytes: the text of a UTF-8 decoder, the rows of csv.reader, the page    *)
(* texts of PyMuPDF, which may differ between versions of that library.    *)
(* The readers themselves are not modelled.  SHA-256 hashes are compared   *)
(* and never inverted, so the hash of a thing is the thing.                *)
(*                                                                         *)
(* The parser's tuple of segments is a set here, each segment bearing its  *)
(* position, counted from 0 as in the table segments.                      *)
(***************************************************************************)
EXTENDS Integers, FiniteSets, SequencesExt

Blanks == {"sp"}
Space  == Blanks \cup {"nl", "cr", "ff"}

\* text[i:j], for offsets that are not negative.
Slice(text, i, j) == SubSeq(text, i + 1, IF j < Len(text) THEN j ELSE Len(text))

At(text, k) == text[k + 1]
Offsets(text) == 0 .. (Len(text) - 1)
Occurs(quote, text) == \E k \in 0 .. Len(text) : Slice(text, k, k + Len(quote)) = quote

\* text[i:j] without the white space around it: its span, if it has one.
TrimmedSpan(text, i, j) ==
    LET ink == {k \in i .. (j - 1) : At(text, k) \notin Space}
    IN  {span \in [start : ink, end : {k + 1 : k \in ink}] :
            \A k \in ink : span.start <= k /\ k < span.end}

Strip(text) ==
    LET spans == TrimmedSpan(text, 0, Len(text))
        span  == CHOOSE s \in spans : TRUE
    IN  IF spans = {} THEN << >> ELSE Slice(text, span.start, span.end)

-----------------------------------------------------------------------------
(* Segments and locators. *)

Locator(document, kind, id, unit, start, end, quote) ==
    [kind |-> kind, segment |-> id, source |-> document, unit |-> unit,
     start |-> start, end |-> end, quote |-> quote]

\* A segment is born with the locator of its whole text.
Segment(document, kind, id, ordinal, unit, start, end, text) ==
    [id |-> id, ordinal |-> ordinal, text |-> text,
     locator |-> Locator(document, kind, id, unit, start, end, text)]

SegmentAt(segments, ordinal) == CHOOSE segment \in segments : segment.ordinal = ordinal

-----------------------------------------------------------------------------
(* Text and Markdown: blocks between blank lines. *)

\* Mutant of InGap: the pattern has \n for \r?\n.
InGapUnix(text, k) == At(text, k) \in Blanks \cup {"nl"}

InGap(text, k) ==
    \/ At(text, k) \in Blanks \cup {"nl"}
    \/ At(text, k) = "cr" /\ k + 1 < Len(text) /\ At(text, k + 1) = "nl"

\* The matches of (?:\r?\n[ \t]*){2,}, leftmost and longest.
Separators(text) ==
    {gap \in [start : Offsets(text), end : 1 .. Len(text)] :
        /\ gap.start < gap.end
        /\ \A k \in gap.start .. (gap.end - 1) : InGap(text, k)
        /\ At(text, gap.start) \notin Blanks
        /\ Cardinality({k \in gap.start .. (gap.end - 1) : At(text, k) = "nl"}) >= 2
        /\ gap.end < Len(text) => ~InGap(text, gap.end)
        /\ \A k \in 0 .. (gap.start - 1) :
              (\A m \in k .. gap.start : InGap(text, m)) => At(text, k) \in Blanks}

\* The stretches between two matches, before the first and after the last.
Stretches(text) ==
    LET gaps == Separators(text)
    IN  {stretch \in [start : {0} \cup {gap.end : gap \in gaps},
                      end   : {Len(text)} \cup {gap.start : gap \in gaps}] :
            /\ stretch.start <= stretch.end
            /\ \A gap \in gaps : gap.start < stretch.start \/ gap.start >= stretch.end}

TextSpans(text) ==
    UNION {TrimmedSpan(text, stretch.start, stretch.end) : stretch \in Stretches(text)}

TextSegments(document) ==
    LET spans == TextSpans(document.text)
    IN  {Segment(document, "text", <<span.start, span.end>>,
                 Cardinality({s \in spans : s.start < span.start}), << >>, span.start, span.end,
                 Slice(document.text, span.start, span.end)) : span \in spans}

-----------------------------------------------------------------------------
(* CSV: one segment for each row that is not blank.  A row is what the     *)
(* reader yields, or an error it raises.                                   *)

Headers(document) == [i \in DOMAIN document.rows[1].cells |-> Strip(document.rows[1].cells[i])]

IsBlank(row) == \A i \in DOMAIN row.cells : Strip(row.cells[i]) = << >>
DataRows(document) == {k \in 2 .. Len(document.rows) : ~IsBlank(document.rows[k])}

HeaderAccepted(document) ==
    /\ document.rows[1].ok
    /\ Headers(document) # << >>
    /\ \A i \in DOMAIN Headers(document) : Headers(document)[i] # << >>
    /\ IsInjective(Headers(document))

CsvParses(document) ==
    /\ document.decodes
    /\ document.rows # << >> =>
        /\ HeaderAccepted(document)
        /\ \A k \in 2 .. Len(document.rows) : document.rows[k].ok
        /\ \A k \in DataRows(document) :
              Len(document.rows[k].cells) = Len(Headers(document))

\* The JSON object of a row, its keys in column order; quotes and escapes left out.
RenderedRow(headers, cells) ==
    <<"{">> \o FlattenSeq([i \in DOMAIN headers |->
        (IF i = 1 THEN << >> ELSE <<",">>) \o headers[i] \o <<":">> \o cells[i]]) \o <<"}">>

\* Equal rows have one row hash, and are told apart by their number in the id.
CsvSegments(document) ==
    {LET cells    == document.rows[k].cells
         before   == {m \in DataRows(document) : m < k}
         twins    == {m \in before : document.rows[m].cells = cells}
         rendered == RenderedRow(Headers(document), cells)
     IN  Segment(document, "csv", <<cells, Cardinality(twins)>>, Cardinality(before),
                 [columns |-> Headers(document), cells |-> cells], 0, Len(rendered), rendered) :
     k \in DataRows(document)}

-----------------------------------------------------------------------------
(* PDF: one segment for each page that is not blank. *)

PdfSegments(document, library) ==
    LET pages == document.pages[library]
        Printed == {k \in DOMAIN pages : TrimmedSpan(pages[k], 0, Len(pages[k])) # {}}
    IN  UNION {{Segment(document, "pdf", <<k>>, Cardinality({m \in Printed : m < k}),
                        [number |-> k, page |-> pages[k]], span.start, span.end,
                        Slice(pages[k], span.start, span.end)) :
                span \in TrimmedSpan(pages[k], 0, Len(pages[k]))} : k \in Printed}

-----------------------------------------------------------------------------
(* Which parser reads a document: its media type, a pair, or its suffix decides. *)

ParserFor(document) ==
    LET media  == document.media
        suffix == document.suffix
    IN  IF media = <<"application", "pdf">> \/ suffix = ".pdf" THEN "pdf"
        ELSE IF media \in {"text", "application"} \X {"csv"} \/ suffix = ".csv" THEN "csv"
        ELSE IF media[1] = "text" \/ suffix \in {".md", ".markdown", ".txt", ""} THEN "text"
        ELSE "unsupported"

\* A PDF that opens may have a page whose text cannot be had, an encrypted one say.
Parses(document) ==
    \/ ParserFor(document) = "text" /\ document.decodes
    \/ ParserFor(document) = "csv" /\ CsvParses(document)
    \/ ParserFor(document) = "pdf" /\ document.opens /\ document.pagesRead

\* The segments of a document that parses.
SegmentsOf(document, library) ==
    CASE ParserFor(document) = "text" -> TextSegments(document)
      [] ParserFor(document) = "csv"  -> CsvSegments(document)
      [] ParserFor(document) = "pdf"  -> PdfSegments(document, library)

\* A document that parses, whose text, cells and pages are sequences of characters.
Readable(document, library, C) ==
    /\ Parses(document)
    /\ document.text \in Seq(C)
    /\ document.rows \in Seq([ok : BOOLEAN, cells : Seq(Seq(C))])
    /\ document.pages[library] \in Seq(Seq(C))

\* The characters a row is rendered with.
Marks == {"{", "}", ",", ":"}

-----------------------------------------------------------------------------
(* Narrowing and replaying. *)

\* A claim that is not an exact span of its segment is refused.
IsExactSpan(segment, quote, start) ==
    Slice(segment.text, start, start + Len(quote)) = quote

NarrowLocator(segment, quote, start) ==
    LET base == IF segment.locator.kind = "csv" THEN 0 ELSE segment.locator.start
    IN  [segment.locator EXCEPT !.start = base + start,
                                !.end   = base + start + Len(quote),
                                !.quote = quote]

\* The texts a locator replays to: one, or none when replay_locator raises.
ReplayLocator(locator, document, library) ==
    LET matches == {s \in SegmentsOf(document, library) : s.id = locator.segment}
        quotes ==
            IF locator.kind = "text"
            THEN {Slice(document.text, locator.start, locator.end)}
            ELSE {LET base == IF locator.kind = "csv" THEN 0 ELSE s.locator.start
                  IN  Slice(s.text, locator.start - base, locator.end - base) :
                  s \in {s \in matches : s.locator.unit = locator.unit}}
    IN  {quote \in quotes : document = locator.source /\ quote = locator.quote}
=============================================================================
