--------------------------- MODULE Extraction_proofs ---------------------------
(* Proofs about Citations and Extraction, for every document: what a locator *)
(* that was narrowed to a quote replays to.                                  *)
EXTENDS Extraction, WellFoundedInduction, FiniteSetTheorems, TLAPS

-----------------------------------------------------------------------------
(* Slices. *)

\* A slice that lies in the text is as long as its offsets say.
LEMMA SliceInside ==
    ASSUME NEW C, NEW text \in Seq(C), NEW p \in Nat, NEW n \in Nat, p + n <= Len(text)
    PROVE  /\ Slice(text, p, p + n) \in Seq(C)
           /\ Len(Slice(text, p, p + n)) = n
           /\ \A k \in 1 .. n : Slice(text, p, p + n)[k] = text[p + k]
<1>1. Slice(text, p, p + n) = SubSeq(text, p + 1, p + n)
  BY DEF Slice
<1>. QED
  BY <1>1

\* Only a slice that lies in the text is as long as its offsets say.
LEMMA ExactSlice ==
    ASSUME NEW C, NEW text \in Seq(C), NEW i \in Nat, NEW quote \in Seq(C),
           Slice(text, i, i + Len(quote)) = quote
    PROVE  quote = << >> \/ i + Len(quote) <= Len(text)
<1>. SUFFICES ASSUME i + Len(quote) > Len(text), Len(quote) # 0 PROVE FALSE
  BY DEF Slice
<1>1. quote = SubSeq(text, i + 1, Len(text))
  BY DEF Slice
<1>2. CASE i + 1 > Len(text)
  BY <1>1, <1>2
<1>3. CASE i + 1 <= Len(text)
  <2>1. Len(quote) = Len(text) - i
    BY <1>1, <1>3
  <2>. QED
    BY <2>1
<1>. QED
  BY <1>2, <1>3

\* A slice of a slice is a slice of the text.
LEMMA SliceOfSlice ==
    ASSUME NEW C, NEW text \in Seq(C), NEW a \in Nat, NEW m \in Nat, a + m <= Len(text),
           NEW inner, inner = Slice(text, a, a + m),
           NEW i \in Nat, NEW quote \in Seq(C), Slice(inner, i, i + Len(quote)) = quote
    PROVE  Slice(text, a + i, a + i + Len(quote)) = quote
<1>1. inner \in Seq(C) /\ Len(inner) = m /\ \A k \in 1 .. m : inner[k] = text[a + k]
  BY SliceInside
<1>2. quote = << >> \/ i + Len(quote) <= m
  BY <1>1, ExactSlice
<1>3. CASE quote = << >>
  BY <1>3 DEF Slice
<1>4. CASE quote # << >>
  <2>1. i + Len(quote) <= m /\ a + i \in Nat /\ a + i + Len(quote) <= Len(text) /\ Len(quote) \in Nat
    BY <1>2, <1>4
  <2>2. \A k \in 1 .. Len(quote) : quote[k] = inner[i + k]
    <3>1. ASSUME NEW n \in Nat, n = Len(quote)
          PROVE  \A k \in 1 .. n : Slice(inner, i, i + n)[k] = inner[i + k]
      <4>1. i + n <= Len(inner)
        BY <1>1, <2>1, <3>1
      <4>. QED
        BY <1>1, <4>1, SliceInside
    <3>. QED
      BY <2>1, <3>1
  <2>3. \A k \in 1 .. Len(quote) : i + k \in 1 .. m /\ a + (i + k) = a + i + k
    BY <2>1
  <2>4. \A k \in 1 .. Len(quote) : quote[k] = text[a + i + k]
    BY <1>1, <2>2, <2>3
  <2>5. /\ Slice(text, a + i, a + i + Len(quote)) \in Seq(C)
        /\ Len(Slice(text, a + i, a + i + Len(quote))) = Len(quote)
        /\ \A k \in 1 .. Len(quote) : Slice(text, a + i, a + i + Len(quote))[k] = text[a + i + k]
    BY <2>1, SliceInside
  <2>. QED
    BY <2>4, <2>5
<1>. QED
  BY <1>3, <1>4

-----------------------------------------------------------------------------
(* Segments. *)

\* Equal tuples have equal parts.
LEMMA Tuples ==
    /\ \A a, b : <<a>> = <<b>> => a = b
    /\ \A a, b, c, d : <<a, b>> = <<c, d>> => a = c /\ b = d
OBVIOUS

\* A locator with other offsets and another quote.
Moved(locator, from, to, words) ==
    [locator EXCEPT !.start = from, !.end = to, !.quote = words]

LEMMA NarrowedLocator ==
    ASSUME NEW document, NEW kind, NEW id, NEW unit, NEW start, NEW end, NEW quote,
           NEW from, NEW to, NEW words,
           NEW locator, locator = Locator(document, kind, id, unit, start, end, quote)
    PROVE  Moved(locator, from, to, words) = Locator(document, kind, id, unit, from, to, words)
<1>1. Moved(locator, from, to, words)
        = [[[locator EXCEPT !.start = from] EXCEPT !.end = to] EXCEPT !.quote = words]
  BY DEF Moved
<1>2. [locator EXCEPT !.start = from] = Locator(document, kind, id, unit, from, end, quote)
  BY DEF Locator
<1>3. [Locator(document, kind, id, unit, from, end, quote) EXCEPT !.end = to]
        = Locator(document, kind, id, unit, from, to, quote)
  BY DEF Locator
<1>4. [Locator(document, kind, id, unit, from, to, quote) EXCEPT !.quote = words]
        = Locator(document, kind, id, unit, from, to, words)
  BY DEF Locator
<1>. QED
  BY <1>1, <1>2, <1>3, <1>4

\* The offset of a segment's text in what its offsets count.
Base(segment) == IF segment.locator.kind = "csv" THEN 0 ELSE segment.locator.start

LEMMA NarrowedSegment ==
    ASSUME NEW document, NEW kind, NEW id, NEW unit, NEW start, NEW end, NEW text,
           NEW segment, segment.locator = Locator(document, kind, id, unit, start, end, text),
           NEW quote, NEW i
    PROVE  NarrowLocator(segment, quote, i)
             = Locator(document, kind, id, unit, Base(segment) + i, Base(segment) + i + Len(quote), quote)
<1>1. NarrowLocator(segment, quote, i)
        = Moved(segment.locator, Base(segment) + i, Base(segment) + i + Len(quote), quote)
  BY DEF NarrowLocator, Base, Moved
<1>. QED
  BY <1>1, NarrowedLocator

LEMMA LocatorFields ==
    ASSUME NEW document, NEW kind, NEW id, NEW unit, NEW start, NEW end, NEW quote,
           NEW locator, locator = Locator(document, kind, id, unit, start, end, quote)
    PROVE  /\ locator.kind = kind /\ locator.segment = id /\ locator.source = document
           /\ locator.unit = unit /\ locator.start = start /\ locator.end = end
           /\ locator.quote = quote
BY DEF Locator

\* The trimmed span of a stretch lies in it, and there is at most one.
LEMMA SpansInside ==
    ASSUME NEW text, NEW i \in Nat, NEW j \in Nat, NEW span \in TrimmedSpan(text, i, j)
    PROVE  /\ span.start \in Nat /\ span.end \in Nat
           /\ i <= span.start /\ span.start < span.end /\ span.end <= j
           /\ span = [start |-> span.start, end |-> span.end]
BY DEF TrimmedSpan

LEMMA OneSpan ==
    ASSUME NEW text, NEW i \in Nat, NEW j \in Nat,
           NEW s \in TrimmedSpan(text, i, j), NEW t \in TrimmedSpan(text, i, j)
    PROVE  s = t
<1>1. s.start <= t.start /\ t.start <= s.start
  BY DEF TrimmedSpan
<1>2. s.end <= t.end /\ t.end <= s.end
  BY DEF TrimmedSpan
<1>3. s.start \in Nat /\ t.start \in Nat /\ s.end \in Nat /\ t.end \in Nat
  BY SpansInside
<1>. QED
  BY <1>1, <1>2, <1>3, SpansInside

\* A text segment is the slice of the text between its own offsets.
LEMMA TextSegmentShape ==
    ASSUME NEW document, NEW C, document.text \in Seq(C),
           NEW segment \in TextSegments(document)
    PROVE  LET start == segment.locator.start
               end   == segment.locator.end
           IN  /\ start \in Nat /\ end \in Nat /\ start < end /\ end <= Len(document.text)
               /\ segment.text = Slice(document.text, start, end)
               /\ segment.id = <<start, end>>
               /\ segment.locator = Locator(document, "text", segment.id, << >>, start, end, segment.text)
<1>1. PICK span \in TextSpans(document.text) :
        segment = Segment(document, "text", <<span.start, span.end>>,
                 Cardinality({s \in TextSpans(document.text) : s.start < span.start}), << >>,
                 span.start, span.end, Slice(document.text, span.start, span.end))
  BY DEF TextSegments
<1>2. PICK stretch \in Stretches(document.text) :
        span \in TrimmedSpan(document.text, stretch.start, stretch.end)
  BY <1>1 DEF TextSpans
<1>3. stretch.start \in Nat /\ stretch.end \in Nat /\ stretch.end <= Len(document.text)
  <2>1. \A gap \in Separators(document.text) :
          gap.start \in Nat /\ gap.end \in Nat /\ gap.start <= Len(document.text)
    BY DEF Separators, Offsets
  <2>2. /\ stretch.start \in {0} \cup {gap.end : gap \in Separators(document.text)}
        /\ stretch.end \in {Len(document.text)} \cup {gap.start : gap \in Separators(document.text)}
    BY DEF Stretches
  <2>. QED
    BY <2>1, <2>2
<1>4. span.start \in Nat /\ span.end \in Nat /\ span.start < span.end /\ span.end <= stretch.end
  BY <1>2, <1>3, SpansInside
<1>5. /\ segment.locator = Locator(document, "text", <<span.start, span.end>>, << >>,
                                   span.start, span.end, segment.text)
      /\ segment.id = <<span.start, span.end>>
      /\ segment.text = Slice(document.text, span.start, span.end)
  BY <1>1 DEF Segment
<1>6. segment.locator.start = span.start /\ segment.locator.end = span.end
  BY <1>5 DEF Locator
<1>. QED
  BY <1>3, <1>4, <1>5, <1>6

\* A row's segment depends on its cells and the headers.
LEMMA CsvSegmentShape ==
    ASSUME NEW document, NEW segment \in CsvSegments(document)
    PROVE  /\ segment.id[1] = segment.locator.unit.cells
           /\ segment.text = RenderedRow(Headers(document), segment.id[1])
           /\ segment.locator = Locator(document, "csv", segment.id,
                [columns |-> Headers(document), cells |-> segment.id[1]], 0,
                Len(segment.text), segment.text)
<1>1. PICK k \in DataRows(document) : \E n, ordinal :
        segment = Segment(document, "csv", <<document.rows[k].cells, n>>, ordinal,
                   [columns |-> Headers(document), cells |-> document.rows[k].cells], 0,
                   Len(RenderedRow(Headers(document), document.rows[k].cells)),
                   RenderedRow(Headers(document), document.rows[k].cells))
  BY DEF CsvSegments
<1>. QED
  BY <1>1 DEF Segment, Locator

\* A page's segment is its only trimmed span.
LEMMA PdfSegmentShape ==
    ASSUME NEW document, NEW library, NEW segment \in PdfSegments(document, library)
    PROVE  \E k \in DOMAIN document.pages[library] :
             LET page == document.pages[library][k]
             IN  \E span \in TrimmedSpan(page, 0, Len(page)) :
                   /\ segment.id = <<k>>
                   /\ segment.text = Slice(page, span.start, span.end)
                   /\ segment.locator = Locator(document, "pdf", <<k>>, [number |-> k, page |-> page],
                                                span.start, span.end, segment.text)
<1>1. PICK k \in DOMAIN document.pages[library] :
        \E span \in TrimmedSpan(document.pages[library][k], 0, Len(document.pages[library][k])) :
        \E ordinal :
        segment = Segment(document, "pdf", <<k>>, ordinal,
                          [number |-> k, page |-> document.pages[library][k]], span.start, span.end,
                          Slice(document.pages[library][k], span.start, span.end))
  BY Zenon DEF PdfSegments
<1>2. PICK span \in TrimmedSpan(document.pages[library][k], 0, Len(document.pages[library][k])) :
        \E ordinal :
        segment = Segment(document, "pdf", <<k>>, ordinal,
                          [number |-> k, page |-> document.pages[library][k]], span.start, span.end,
                          Slice(document.pages[library][k], span.start, span.end))
  BY <1>1
<1>3. segment.id = <<k>> /\ segment.text = Slice(document.pages[library][k], span.start, span.end)
  BY <1>2 DEF Segment
<1>4. segment.locator = Locator(document, "pdf", <<k>>,
          [number |-> k, page |-> document.pages[library][k]], span.start, span.end, segment.text)
  BY <1>2 DEF Segment
<1>. QED
  BY <1>3, <1>4

\* A document that parses has the segments of one of the three parsers.
LEMMA ThreeParsers ==
    ASSUME NEW document, NEW library, Parses(document)
    PROVE  \/ ParserFor(document) = "text" /\ SegmentsOf(document, library) = TextSegments(document)
           \/ ParserFor(document) = "csv" /\ SegmentsOf(document, library) = CsvSegments(document)
           \/ ParserFor(document) = "pdf" /\ SegmentsOf(document, library) = PdfSegments(document, library)
<1>1. ParserFor(document) \in {"text", "csv", "pdf"}
  BY DEF Parses
<1>. QED
  BY <1>1 DEF SegmentsOf

\* What a segment is called determines what it says and where: equal rows have
\* equal hashes and are numbered, and a page has one span.
LEMMA IdsDetermine ==
    ASSUME NEW document, NEW library, NEW C, Readable(document, library, C),
           NEW s \in SegmentsOf(document, library), NEW t \in SegmentsOf(document, library),
           s.id = t.id
    PROVE  s.text = t.text /\ s.locator = t.locator
<1>. USE DEF Readable
<1>1. CASE SegmentsOf(document, library) = TextSegments(document)
  <2>1. s.id = <<s.locator.start, s.locator.end>> /\ t.id = <<t.locator.start, t.locator.end>>
    BY <1>1, TextSegmentShape
  <2>2. s.locator.start = t.locator.start /\ s.locator.end = t.locator.end
    <3>1. <<s.locator.start, s.locator.end>> = <<t.locator.start, t.locator.end>>
      BY <2>1
    <3>. QED
      BY <3>1, Tuples
  <2>. QED
    BY <1>1, <2>2, TextSegmentShape
<1>2. CASE SegmentsOf(document, library) = CsvSegments(document)
  <2>1. s.text = t.text
    BY <1>2, CsvSegmentShape
  <2>. QED
    BY <1>2, <2>1, CsvSegmentShape
<1>3. CASE SegmentsOf(document, library) = PdfSegments(document, library)
  <2>. DEFINE page(k) == document.pages[library][k]
              Shape(segment, k, span) ==
                   /\ segment.id = <<k>>
                   /\ segment.text = Slice(page(k), span.start, span.end)
                   /\ segment.locator = Locator(document, "pdf", <<k>>, [number |-> k, page |-> page(k)],
                                                span.start, span.end, segment.text)
  <2>. HIDE DEF Readable
  <2>1. PICK k \in DOMAIN document.pages[library] :
          \E span \in TrimmedSpan(page(k), 0, Len(page(k))) : Shape(s, k, span)
    BY <1>3, PdfSegmentShape
  <2>2. PICK m \in DOMAIN document.pages[library] :
          \E span \in TrimmedSpan(page(m), 0, Len(page(m))) : Shape(t, m, span)
    BY <1>3, PdfSegmentShape
  <2>3. k = m
    <3>1. <<k>> = <<m>>
      BY <2>1, <2>2
    <3>. QED
      BY <3>1, Tuples
  <2>4. Len(page(k)) \in Nat
    BY DEF Readable
  <2>5. \A x, y \in TrimmedSpan(page(k), 0, Len(page(k))) : x = y
    BY <2>4, OneSpan
  <2>6. PICK x \in TrimmedSpan(page(k), 0, Len(page(k))) : Shape(s, k, x)
    BY <2>1
  <2>7. Shape(t, k, x)
    BY <2>2, <2>3, <2>5
  <2>. QED
    BY <2>6, <2>7
<1>. QED
  BY <1>1, <1>2, <1>3, ThreeParsers

-----------------------------------------------------------------------------
(* Quotes. *)

\* An exact quote of a segment leads back to itself: whatever the document and
\* wherever in the segment it is, the narrowed locator replays to the quote.
THEOREM QuotesReplay ==
    ASSUME NEW document, NEW library, NEW C, Readable(document, library, C),
           NEW segment \in SegmentsOf(document, library),
           NEW quote \in Seq(C), NEW start \in Nat, IsExactSpan(segment, quote, start)
    PROVE  ReplayLocator(NarrowLocator(segment, quote, start), document, library) = {quote}
<1>. DEFINE narrow == NarrowLocator(segment, quote, start)
<1>1. Slice(segment.text, start, start + Len(quote)) = quote
  BY DEF IsExactSpan
<1>2. ASSUME NEW kind, NEW id, NEW unit, NEW from, NEW to, NEW text,
             segment.locator = Locator(document, kind, id, unit, from, to, text)
      PROVE  narrow = Locator(document, kind, id, unit, Base(segment) + start,
                              Base(segment) + start + Len(quote), quote)
  BY <1>2, NarrowedSegment
<1>3. CASE ParserFor(document) = "text" /\ SegmentsOf(document, library) = TextSegments(document)
  <2>. DEFINE from == segment.locator.start
              to   == segment.locator.end
  <2>1. /\ from \in Nat /\ to \in Nat /\ from < to /\ to <= Len(document.text)
        /\ segment.text = Slice(document.text, from, to)
        /\ segment.locator = Locator(document, "text", segment.id, << >>, from, to, segment.text)
    BY <1>3, TextSegmentShape DEF Readable
  <2>2. Base(segment) = from
    BY <2>1 DEF Locator, Base
  <2>3. to - from \in Nat /\ from + (to - from) = to
    BY <2>1
  <2>4. Slice(document.text, from + start, from + start + Len(quote)) = quote
    BY <1>1, <2>1, <2>3, SliceOfSlice DEF Readable
  <2>5. /\ narrow.kind = "text" /\ narrow.source = document /\ narrow.quote = quote
        /\ narrow.start = from + start /\ narrow.end = from + start + Len(quote)
    BY <1>2, <2>1, <2>2, LocatorFields
  <2>. QED
    BY <2>4, <2>5 DEF ReplayLocator
<1>4. CASE /\ ParserFor(document) # "text"
           /\ SegmentsOf(document, library) \in {CsvSegments(document), PdfSegments(document, library)}
  <2>1. /\ Base(segment) \in Nat
        /\ \E kind \in {"csv", "pdf"} : \E unit, from, to :
             segment.locator = Locator(document, kind, segment.id, unit, from, to, segment.text)
    <3>1. CASE segment \in CsvSegments(document)
      <4>1. segment.locator = Locator(document, "csv", segment.id,
                [columns |-> Headers(document), cells |-> segment.id[1]], 0,
                Len(segment.text), segment.text)
        BY <3>1, CsvSegmentShape
      <4>2. segment.locator.kind = "csv"
        BY <4>1, LocatorFields
      <4>. QED
        BY <4>1, <4>2 DEF Base
    <3>2. CASE segment \in PdfSegments(document, library)
      <4>1. PICK k \in DOMAIN document.pages[library] :
              LET page == document.pages[library][k]
              IN  \E span \in TrimmedSpan(page, 0, Len(page)) :
                    /\ segment.id = <<k>>
                    /\ segment.text = Slice(page, span.start, span.end)
                    /\ segment.locator = Locator(document, "pdf", <<k>>, [number |-> k, page |-> page],
                                                span.start, span.end, segment.text)
        BY <3>2, PdfSegmentShape
      <4>2. PICK span \in TrimmedSpan(document.pages[library][k], 0, Len(document.pages[library][k])) :
              segment.locator = Locator(document, "pdf", segment.id,
                                  [number |-> k, page |-> document.pages[library][k]],
                                  span.start, span.end, segment.text)
        BY <4>1
      <4>3. span.start \in Nat
        BY SpansInside DEF Readable
      <4>. QED
        BY <4>2, <4>3, LocatorFields DEF Base
    <3>. QED
      BY <1>4, <3>1, <3>2
  <2>2. /\ narrow.kind # "text" /\ narrow.kind = segment.locator.kind /\ narrow.source = document /\ narrow.quote = quote
        /\ narrow.segment = segment.id /\ narrow.unit = segment.locator.unit
        /\ narrow.start = Base(segment) + start /\ narrow.end = Base(segment) + start + Len(quote)
    BY <1>2, <2>1, LocatorFields
  <2>3. ASSUME NEW s \in SegmentsOf(document, library), s.id = segment.id
        PROVE  /\ s.locator.unit = segment.locator.unit /\ s.locator.kind = narrow.kind
               /\ Slice(s.text, narrow.start - Base(s), narrow.end - Base(s)) = quote
    <3>1. s.text = segment.text /\ s.locator = segment.locator
      BY <2>3, IdsDetermine
    <3>2. narrow.start - Base(segment) = start /\ narrow.end - Base(segment) = start + Len(quote)
      BY <2>1, <2>2
    <3>. QED
      BY <1>1, <2>2, <3>1, <3>2 DEF Base
  <2>. HIDE DEF narrow
  <2>4. \A q : q \in ReplayLocator(narrow, document, library) <=>
                 /\ document = narrow.source /\ q = narrow.quote
                 /\ \E s \in SegmentsOf(document, library) :
                      /\ s.id = narrow.segment /\ s.locator.unit = narrow.unit
                      /\ q = Slice(s.text, narrow.start - Base(s), narrow.end - Base(s))
    <3>1. ReplayLocator(narrow, document, library) =
            {q \in {LET base == IF narrow.kind = "csv" THEN 0 ELSE s.locator.start
                    IN  Slice(s.text, narrow.start - base, narrow.end - base) :
                      s \in {s \in {s \in SegmentsOf(document, library) : s.id = narrow.segment} :
                               s.locator.unit = narrow.unit}} :
               document = narrow.source /\ q = narrow.quote}
      BY <2>2, Zenon DEF ReplayLocator
    <3>. QED
      BY <2>2, <2>3, <3>1 DEF Base
  <2>5. \A q : q \in ReplayLocator(narrow, document, library) <=> q = quote
    BY <2>2, <2>3, <2>4
  <2>6. ReplayLocator(narrow, document, library) = {quote}
    BY <2>5
  <2>. QED
    BY <2>6 DEF narrow
<1>. QED
  BY <1>3, <1>4, ThreeParsers DEF Readable

-----------------------------------------------------------------------------
(* Drafts. *)

\* A draft that quotes its segment exactly passes the citation verifier.
LEMMA ExactDraftVerified ==
    ASSUME NEW document, NEW library, NEW C, Readable(document, library, C),
           NEW segment \in SegmentsOf(document, library),
           NEW quote \in Seq(C), NEW start \in Nat, IsExactSpan(segment, quote, start),
           NEW observation, NEW method
    PROVE  CitationCheck(Draft(segment, quote, start, observation, method),
                         SegmentsOf(document, library), document, library).verified
<1>. DEFINE draft == Draft(segment, quote, start, observation, method)
            narrow == NarrowLocator(segment, quote, start)
<1>1. draft.segment = segment.id /\ draft.quote = quote /\ draft.locator = narrow
  BY DEF Draft
<1>2. ReplayLocator(narrow, document, library) = {quote}
  BY QuotesReplay
<1>3. segment.locator.source = document /\ narrow.source = document
  <2>1. \E kind, id, unit : \E from, to, text :
          segment.locator = Locator(document, kind, id, unit, from, to, text)
    <3>1. CASE segment \in TextSegments(document)
      BY <3>1, TextSegmentShape DEF Readable
    <3>2. CASE segment \in CsvSegments(document)
      BY <3>2, CsvSegmentShape
    <3>3. CASE segment \in PdfSegments(document, library)
      <4>1. PICK k \in DOMAIN document.pages[library] : \E span :
              segment.locator = Locator(document, "pdf", <<k>>,
                  [number |-> k, page |-> document.pages[library][k]], span.start, span.end, segment.text)
        BY <3>3, PdfSegmentShape
      <4>2. PICK span :
              segment.locator = Locator(document, "pdf", <<k>>,
                  [number |-> k, page |-> document.pages[library][k]], span.start, span.end, segment.text)
        BY <4>1
      <4>. QED
        BY <4>2
    <3>. QED
      BY <3>1, <3>2, <3>3, ThreeParsers DEF Readable
  <2>2. PICK kind, id, unit : \E from, to, text :
          segment.locator = Locator(document, kind, id, unit, from, to, text)
    BY <2>1
  <2>3. PICK from, to, text : segment.locator = Locator(document, kind, id, unit, from, to, text)
    BY <2>2
  <2>4. narrow = Locator(document, kind, id, unit, Base(segment) + start,
                         Base(segment) + start + Len(quote), quote)
    BY <2>3, NarrowedSegment
  <2>. QED
    BY <2>3, <2>4, LocatorFields
<1>. HIDE DEF draft, narrow
<1>. QED
  BY <1>1, <1>2, <1>3 DEF CitationCheck, draft

\* A claim of the model that was bound to a segment is never refused later on:
\* the verifier and the check that wrote it agree on every document.
THEOREM BoundDraftsVerified ==
    ASSUME NEW document, NEW library, NEW C, Readable(document, library, C),
           NEW proposal, proposal.quote \in Seq(C), proposal.start \in Nat,
           Binds(proposal, SegmentsOf(document, library))
    PROVE  CitationCheck(BoundDraft(proposal, SegmentsOf(document, library)),
                         SegmentsOf(document, library), document, library).verified
<1>. DEFINE segments == SegmentsOf(document, library)
            chosen == CHOOSE s \in Named(proposal, segments) : TRUE
<1>1. PICK s \in segments : s.id = proposal.segment /\ IsExactSpan(s, proposal.quote, proposal.start)
  BY DEF Binds, Named
<1>2. chosen \in segments /\ chosen.id = proposal.segment
  BY <1>1 DEF Named
<1>3. chosen.text = s.text
  BY <1>1, <1>2, IdsDetermine
<1>4. IsExactSpan(chosen, proposal.quote, proposal.start)
  BY <1>1, <1>3 DEF IsExactSpan
<1>5. BoundDraft(proposal, segments)
        = Draft(chosen, proposal.quote, proposal.start, proposal.observation, "openai")
  BY DEF BoundDraft
<1>. HIDE DEF segments, chosen
<1>6. CitationCheck(Draft(chosen, proposal.quote, proposal.start, proposal.observation, "openai"),
                    SegmentsOf(document, library), document, library).verified
  BY <1>2, <1>4, ExactDraftVerified DEF segments
<1>. QED
  BY <1>5, <1>6 DEF segments

-----------------------------------------------------------------------------
(* The demo. *)

\* A set of offsets has a least and, below a bound, a greatest one.
LEMMA LeastOffset ==
    ASSUME NEW S, S \subseteq Nat, S # {}
    PROVE  \E m \in S : \A n \in S : m <= n
<1>1. PICK m \in S : \A n \in S : ~ (<<n, m>> \in OpToRel(<, Nat))
  BY NatLessThanWellFounded, WFMin
<1>2. \A n \in S : ~ (n < m)
  BY <1>1 DEF OpToRel
<1>. QED
  BY <1>2

LEMMA GreatestOffset ==
    ASSUME NEW top \in Nat, NEW S, S \subseteq 0 .. top, S # {}
    PROVE  \E m \in S : \A n \in S : n <= m
<1>. DEFINE T == {top - n : n \in S}
<1>1. T \subseteq Nat /\ T # {}
  <2>1. \A n \in S : top - n \in Nat
    OBVIOUS
  <2>. QED
    BY <2>1
<1>2. PICK m \in T : \A n \in T : m <= n
  BY <1>1, LeastOffset
<1>. QED
  BY <1>2

\* What the demo quotes is a beginning of its segment.
LEMMA QuoteIsPrefix ==
    ASSUME NEW C, NEW text \in Seq(C), NEW n \in Nat
    PROVE  \E e \in 0 .. Len(text) : SelectQuote(text, n) = Slice(text, 0, e)
<1>. DEFINE window == Slice(text, 0, n)
            ends == {k + 1 : k \in {k \in Offsets(window) :
                       /\ At(window, k) \in SentenceEnds
                       /\ k + 1 < Len(window) => At(window, k + 1) \in Space}}
            cuts == {e \in 0 .. Len(window) : \A k \in e .. (Len(window) - 1) : At(window, k) \in Space}
<1>1. CASE Len(text) <= n
  <2>1. SelectQuote(text, n) = text
    BY <1>1 DEF SelectQuote
  <2>2. Slice(text, 0, Len(text)) = text
    BY DEF Slice
  <2>. QED
    BY <2>1, <2>2
<1>2. CASE Len(text) > n
  <2>1. window \in Seq(C) /\ Len(window) = n /\ n < Len(text)
    BY <1>2, SliceInside
  <2>2. ASSUME NEW e \in 0 .. n PROVE Slice(window, 0, e) = Slice(text, 0, e)
    BY <2>1 DEF Slice
  <2>3. ends \subseteq 0 .. n
    BY <2>1 DEF Offsets
  <2>4. n \in cuts /\ cuts \subseteq 0 .. n
    BY <2>1
  <2>. HIDE DEF window, ends, cuts
  <2>5. CASE ends # {}
    <3>1. (CHOOSE e \in ends : \A f \in ends : f <= e) \in 0 .. n
      BY <2>3, <2>5, GreatestOffset
    <3>2. SelectQuote(text, n) = Slice(window, 0, CHOOSE e \in ends : \A f \in ends : f <= e)
      BY <1>2, <2>5 DEF SelectQuote, window, ends
    <3>3. (CHOOSE e \in ends : \A f \in ends : f <= e) \in 0 .. Len(text)
      BY <2>1, <3>1
    <3>. QED
      BY <2>2, <3>1, <3>2, <3>3
  <2>6. CASE ends = {}
    <3>1. Least(cuts) \in cuts
      <4>1. cuts \subseteq Nat /\ cuts # {}
        BY <2>4
      <4>2. \E m \in cuts : \A f \in cuts : m <= f
        BY <4>1, LeastOffset
      <4>. QED
        BY <4>2 DEF Least
    <3>2. SelectQuote(text, n) = Slice(window, 0, Least(cuts))
      BY <1>2, <2>6 DEF SelectQuote, window, ends, cuts
    <3>3. ASSUME NEW m \in cuts PROVE m \in 0 .. n /\ m \in 0 .. Len(text)
      <4>1. m \in 0 .. n /\ Len(text) \in Nat /\ n < Len(text)
        BY <2>1, <2>4
      <4>. QED
        BY <4>1
    <3>. QED
      BY <2>2, <3>1, <3>2, <3>3
  <2>. QED
    BY <2>5, <2>6
<1>. QED
  BY <1>1, <1>2

\* The demo's own quotes are never refused, at whatever length they are cut.
THEOREM DemoQuotesVerified ==
    ASSUME NEW document, NEW library, NEW C, Readable(document, library, C),
           NEW segment \in SegmentsOf(document, library), segment.text \in Seq(C),
           NEW maxQuoteChars \in Nat, NEW observation, NEW method
    PROVE  CitationCheck(Draft(segment, SelectQuote(segment.text, maxQuoteChars), 0, observation, method),
                         SegmentsOf(document, library), document, library).verified
<1>. DEFINE quote == SelectQuote(segment.text, maxQuoteChars)
<1>1. PICK e \in 0 .. Len(segment.text) : quote = Slice(segment.text, 0, e)
  BY QuoteIsPrefix
<1>2. quote \in Seq(C) /\ Len(quote) = e
  BY <1>1, SliceInside
<1>3. IsExactSpan(segment, quote, 0)
  BY <1>1, <1>2 DEF IsExactSpan
<1>. QED
  BY <1>2, <1>3, ExactDraftVerified

-----------------------------------------------------------------------------
(* Numbering. *)

\* How many elements of a set of numbers are below one.
Below(K, k) == Cardinality({m \in K : m < k})

LEMMA BelowType ==
    ASSUME NEW K, K \subseteq Nat, IsFiniteSet(K), NEW k \in Nat
    PROVE  /\ IsFiniteSet({m \in K : m < k}) /\ Below(K, k) \in Nat
           /\ k \in K => Below(K, k) < Cardinality(K)
           /\ \A n \in Nat : n < k /\ n \in K => Below(K, n) < Below(K, k)
<1>1. \A n \in Nat : IsFiniteSet({m \in K : m < n}) /\ Below(K, n) \in Nat
  BY FS_Subset, FS_CardinalityType DEF Below
<1>2. Cardinality(K) \in Nat
  BY FS_CardinalityType
<1>3. ASSUME k \in K PROVE Below(K, k) < Cardinality(K)
  <2>1. IsFiniteSet(K \ {k}) /\ Cardinality(K \ {k}) = Cardinality(K) - 1
    BY <1>3, FS_RemoveElement
  <2>2. {m \in K : m < k} \subseteq K \ {k}
    OBVIOUS
  <2>3. Below(K, k) <= Cardinality(K) - 1
    BY <2>1, <2>2, FS_Subset DEF Below
  <2>4. Below(K, k) \in Nat
    BY <1>1
  <2>. QED
    BY <1>2, <2>3, <2>4
<1>4. ASSUME NEW n \in Nat, n < k, n \in K PROVE Below(K, n) < Below(K, k)
  <2>1. n \notin {m \in K : m < n}
    OBVIOUS
  <2>2. /\ IsFiniteSet({m \in K : m < n} \cup {n})
        /\ Cardinality({m \in K : m < n} \cup {n}) = Below(K, n) + 1
    BY <1>1, <2>1, FS_AddElement DEF Below
  <2>3. {m \in K : m < n} \cup {n} \subseteq {m \in K : m < k}
    <3>1. ASSUME NEW m \in K, m < n PROVE m < k
      <4>1. m \in Nat
        OBVIOUS
      <4>. QED
        BY <1>4, <3>1, <4>1
    <3>. QED
      BY <1>4, <3>1
  <2>4. Below(K, n) + 1 <= Below(K, k)
    BY <1>1, <2>2, <2>3, FS_Subset DEF Below
  <2>5. Below(K, n) \in Nat /\ Below(K, k) \in Nat
    BY <1>1
  <2>. QED
    BY <2>4, <2>5
<1>. QED
  BY <1>1, <1>3, <1>4

\* The elements of a finite set of numbers are numbered from 0 without a gap.
LEMMA BelowRange ==
    ASSUME NEW K, K \subseteq Nat, IsFiniteSet(K)
    PROVE  /\ {Below(K, k) : k \in K} = 0 .. (Cardinality(K) - 1)
           /\ \A j, k \in K : Below(K, j) = Below(K, k) => j = k
<1>. DEFINE n    == Cardinality(K)
            rank == [k \in K |-> Below(K, k)]
<1>1. n \in Nat /\ \A k \in K : Below(K, k) \in Nat /\ Below(K, k) < n
  BY BelowType, FS_CardinalityType
<1>2. \A j, k \in K : Below(K, j) = Below(K, k) => j = k
  <2>. SUFFICES ASSUME NEW j \in K, NEW k \in K, j # k PROVE Below(K, j) # Below(K, k)
    OBVIOUS
  <2>1. j < k => Below(K, j) < Below(K, k)
    BY BelowType
  <2>2. k < j => Below(K, k) < Below(K, j)
    BY BelowType
  <2>3. j < k \/ k < j
    OBVIOUS
  <2>. QED
    BY <1>1, <2>1, <2>2, <2>3
<1>3. IsFiniteSet(0 .. (n - 1)) /\ Cardinality(0 .. (n - 1)) = n
  <2>. HIDE DEF n
  <2>1. n - 1 \in Int /\ 0 \in Int
    BY <1>1
  <2>2. /\ IsFiniteSet(0 .. (n - 1))
        /\ Cardinality(0 .. (n - 1)) = IF 0 > n - 1 THEN 0 ELSE (n - 1) - 0 + 1
    BY <2>1, FS_Interval
  <2>. QED
    BY <1>1, <2>2
<1>4. rank \in Injection(K, 0 .. (n - 1))
  <2>1. \A k \in K : Below(K, k) \in 0 .. (n - 1)
    <3>. HIDE DEF n
    <3>. QED
      BY <1>1
  <2>2. rank \in [K -> 0 .. (n - 1)]
    BY <2>1
  <2>3. \A j, k \in K : rank[j] = rank[k] => j = k
    BY <1>2
  <2>. QED
    BY <2>2, <2>3 DEF Injection, IsInjective
<1>5. rank \in Surjection(K, 0 .. (n - 1))
  <2>1. Cardinality(K) = Cardinality(0 .. (n - 1))
    BY <1>3
  <2>. HIDE DEF rank, n
  <2>. QED
    BY <1>3, <1>4, <2>1, FS_Injection
<1>6. {Below(K, k) : k \in K} = 0 .. (n - 1)
  <2>1. \A x \in 0 .. (n - 1) : \E k \in K : rank[k] = x
    BY <1>5 DEF Surjection
  <2>2. \A k \in K : rank[k] \in 0 .. (n - 1)
    BY <1>4 DEF Injection
  <2>. QED
    BY <2>1, <2>2
<1>. QED
  BY <1>2, <1>6

\* Segments numbered in the order of places they have in the document.
Numbered(segments, K, at) ==
    /\ K \subseteq Nat /\ IsFiniteSet(K)
    /\ at \in [K -> segments] /\ \A s \in segments : \E k \in K : at[k] = s
    /\ \A k \in K : at[k].ordinal = Below(K, k)

LEMMA NumberedSegments ==
    ASSUME NEW segments, NEW K, NEW at, Numbered(segments, K, at)
    PROVE  /\ IsFiniteSet(segments) /\ Cardinality(segments) \in Nat
           /\ {s.ordinal : s \in segments} = 0 .. (Cardinality(segments) - 1)
           /\ \A s, t \in segments : s.ordinal = t.ordinal => s = t
           /\ \A j, k \in K : at[j].ordinal < at[k].ordinal => j < k
<1>1. K \subseteq Nat /\ IsFiniteSet(K) /\ at \in [K -> segments]
  BY DEF Numbered
<1>2. \A j, k \in K : at[j].ordinal = at[k].ordinal => j = k
  BY <1>1, BelowRange DEF Numbered
<1>3. at \in Surjection(K, segments)
  BY DEF Numbered, Surjection
<1>4. at \in Injection(K, segments)
  BY <1>1, <1>2 DEF Injection, IsInjective
<1>5. IsFiniteSet(segments) /\ Cardinality(segments) = Cardinality(K) /\ Cardinality(segments) \in Nat
  BY <1>1, <1>3, <1>4, FS_Surjection, FS_CardinalityType
<1>6. {s.ordinal : s \in segments} = {Below(K, k) : k \in K}
  BY DEF Numbered
<1>7. {Below(K, k) : k \in K} = 0 .. (Cardinality(K) - 1)
  BY <1>1, BelowRange
<1>8. \A s, t \in segments : s.ordinal = t.ordinal => s = t
  BY <1>2 DEF Numbered
<1>9. ASSUME NEW j \in K, NEW k \in K, at[j].ordinal < at[k].ordinal PROVE j < k
  <2>1. k < j => Below(K, k) < Below(K, j)
    BY <1>1, BelowType
  <2>2. Below(K, j) < Below(K, k) /\ Below(K, j) \in Nat /\ Below(K, k) \in Nat
    BY <1>1, <1>9, BelowType DEF Numbered
  <2>3. j \in Nat /\ k \in Nat /\ j # k
    BY <1>1, <2>2
  <2>. QED
    BY <2>1, <2>2, <2>3
<1>. QED
  BY <1>5, <1>6, <1>7, <1>8, <1>9

\* The separators of a text lie in it, and stretch as far as they can.
LEMMA GapShape ==
    ASSUME NEW C, NEW text \in Seq(C), NEW gap \in Separators(text)
    PROVE  /\ gap.start \in Nat /\ gap.end \in Nat /\ gap.start < gap.end /\ gap.end <= Len(text)
           /\ \A k \in gap.start .. (gap.end - 1) : InGap(text, k)
           /\ gap.end < Len(text) => ~InGap(text, gap.end)
BY DEF Separators, Offsets

LEMMA StretchShape ==
    ASSUME NEW C, NEW text \in Seq(C), NEW s \in Stretches(text)
    PROVE  /\ s.start \in Nat /\ s.end \in Nat /\ s.start <= s.end /\ s.end <= Len(text)
           /\ s.start = 0 \/ \E gap \in Separators(text) : s.start = gap.end
           /\ s.end = Len(text) \/ \E gap \in Separators(text) : s.end = gap.start
           /\ \A gap \in Separators(text) : gap.start < s.start \/ gap.start >= s.end
           /\ s = [start |-> s.start, end |-> s.end]
<1>1. /\ s \in [start : {0} \cup {gap.end : gap \in Separators(text)},
                end   : {Len(text)} \cup {gap.start : gap \in Separators(text)}]
      /\ s.start <= s.end
      /\ \A gap \in Separators(text) : gap.start < s.start \/ gap.start >= s.end
  BY DEF Stretches
<1>2. s.start = 0 \/ \E gap \in Separators(text) : s.start = gap.end
  BY <1>1
<1>3. s.end = Len(text) \/ \E gap \in Separators(text) : s.end = gap.start
  BY <1>1
<1>4. s.start \in Nat /\ s.end \in Nat /\ s.end <= Len(text)
  BY <1>2, <1>3, GapShape
<1>. QED
  BY <1>1, <1>2, <1>3, <1>4

\* A place in a text is of one stretch.
LEMMA StretchStarts ==
    ASSUME NEW C, NEW text \in Seq(C), NEW s \in Stretches(text), NEW t \in Stretches(text), NEW k \in Nat,
           s.start <= k, k < s.end, t.start <= k, k < t.end
    PROVE  ~(s.start < t.start)
<1>. SUFFICES ASSUME s.start < t.start PROVE FALSE
  OBVIOUS
<1>1. s.start \in Nat /\ s.end \in Nat /\ t.start \in Nat /\ t.end \in Nat
  BY StretchShape
<1>2. PICK gap \in Separators(text) : t.start = gap.end
  BY <1>1, StretchShape
<1>3. /\ gap.start \in Nat /\ gap.end \in Nat /\ gap.start < gap.end /\ gap.end <= Len(text)
      /\ \A m \in gap.start .. (gap.end - 1) : InGap(text, m)
  BY GapShape
<1>4. gap.start < s.start
  <2>1. gap.start < s.start \/ gap.start >= s.end
    BY StretchShape
  <2>. QED
    BY <1>1, <1>2, <1>3, <2>1
<1>5. PICK other \in Separators(text) : s.start = other.end
  BY <1>1, <1>3, <1>4, StretchShape
<1>6. s.start < Len(text) => ~InGap(text, s.start)
  BY <1>5, GapShape
<1>7. s.start \in gap.start .. (gap.end - 1) /\ s.start < Len(text)
  BY <1>1, <1>2, <1>3, <1>4
<1>. QED
  BY <1>3, <1>6, <1>7

LEMMA OneStretch ==
    ASSUME NEW C, NEW text \in Seq(C), NEW s \in Stretches(text), NEW t \in Stretches(text), NEW k \in Nat,
           s.start <= k, k < s.end, t.start <= k, k < t.end
    PROVE  s = t
<1>1. s.start \in Nat /\ s.end \in Nat /\ t.start \in Nat /\ t.end \in Nat /\ Len(text) \in Nat
  BY StretchShape
<1>2. s.start = t.start
  <2>1. ~(s.start < t.start)
    BY StretchStarts
  <2>2. ~(t.start < s.start)
    BY StretchStarts
  <2>. QED
    BY <1>1, <2>1, <2>2
<1>3. ASSUME NEW x \in Stretches(text), NEW y \in Stretches(text), x.start = y.start, x.end < y.end,
             x.start <= k, k < x.end
      PROVE  FALSE
  <2>1. x.start \in Nat /\ x.end \in Nat /\ y.end \in Nat /\ y.end <= Len(text)
    BY StretchShape
  <2>2. PICK gap \in Separators(text) : x.end = gap.start
    BY <1>1, <1>3, <2>1, StretchShape
  <2>3. gap.start < y.start \/ gap.start >= y.end
    BY StretchShape
  <2>. QED
    BY <1>3, <2>1, <2>2, <2>3
<1>4. s.end = t.end
  BY <1>1, <1>2, <1>3
<1>. QED
  BY <1>2, <1>4, StretchShape

\* Spans of a text that begin at one place are one.
LEMMA SpanStarts ==
    ASSUME NEW C, NEW text \in Seq(C), NEW s \in TextSpans(text), NEW t \in TextSpans(text), s.start = t.start
    PROVE  s = t
<1>1. PICK x \in Stretches(text) : s \in TrimmedSpan(text, x.start, x.end)
  BY DEF TextSpans
<1>2. PICK y \in Stretches(text) : t \in TrimmedSpan(text, y.start, y.end)
  BY DEF TextSpans
<1>3. x.start \in Nat /\ x.end \in Nat /\ y.start \in Nat /\ y.end \in Nat
  BY StretchShape
<1>4. /\ s.start \in Nat /\ s.end \in Nat /\ x.start <= s.start /\ s.start < s.end /\ s.end <= x.end
  BY <1>1, <1>3, SpansInside
<1>5. /\ t.start \in Nat /\ t.end \in Nat /\ y.start <= t.start /\ t.start < t.end /\ t.end <= y.end
  BY <1>2, <1>3, SpansInside
<1>6. PICK k \in Nat : k = s.start
  BY <1>4
<1>7. x.start <= k /\ k < x.end /\ y.start <= k /\ k < y.end
  BY <1>3, <1>4, <1>5, <1>6
<1>8. x = y
  BY <1>7, OneStretch
<1>. QED
  BY <1>1, <1>2, <1>3, <1>8, OneSpan

SpanAt(text, k) == CHOOSE span \in TextSpans(text) : span.start = k
SpansStart(text) == {span.start : span \in TextSpans(text)}

\* The segment that begins at a place of a text, of a table, of a print.
TextAt(document, k) ==
    Segment(document, "text", <<SpanAt(document.text, k).start, SpanAt(document.text, k).end>>,
            Cardinality({s \in TextSpans(document.text) : s.start < SpanAt(document.text, k).start}), << >>,
            SpanAt(document.text, k).start, SpanAt(document.text, k).end,
            Slice(document.text, SpanAt(document.text, k).start, SpanAt(document.text, k).end))

LEMMA SpanOf ==
    ASSUME NEW C, NEW text \in Seq(C)
    PROVE  /\ \A span \in TextSpans(text) : SpanAt(text, span.start) = span
           /\ \A k \in SpansStart(text) : SpanAt(text, k) \in TextSpans(text) /\ SpanAt(text, k).start = k
           /\ SpansStart(text) \subseteq Nat /\ IsFiniteSet(SpansStart(text))
<1>1. \A k \in SpansStart(text) : SpanAt(text, k) \in TextSpans(text) /\ SpanAt(text, k).start = k
  BY DEF SpanAt, SpansStart
<1>2. \A span \in TextSpans(text) : SpanAt(text, span.start) = span
  <2>. SUFFICES ASSUME NEW span \in TextSpans(text) PROVE SpanAt(text, span.start) = span
    OBVIOUS
  <2>1. /\ SpanAt(text, span.start) \in TextSpans(text)
        /\ SpanAt(text, span.start).start = span.start
    BY DEF SpanAt
  <2>. QED
    BY <2>1, SpanStarts
<1>3. SpansStart(text) \subseteq 0 .. Len(text)
  <2>. SUFFICES ASSUME NEW span \in TextSpans(text) PROVE span.start \in 0 .. Len(text)
    BY DEF SpansStart
  <2>1. PICK x \in Stretches(text) : span \in TrimmedSpan(text, x.start, x.end)
    BY DEF TextSpans
  <2>2. x.start \in Nat /\ x.end \in Nat /\ x.end <= Len(text) /\ Len(text) \in Nat
    BY StretchShape
  <2>3. span.start \in Nat /\ span.end \in Nat /\ span.start < span.end /\ span.end <= x.end
    BY <2>1, <2>2, SpansInside
  <2>. QED
    BY <2>2, <2>3
<1>4. IsFiniteSet(0 .. Len(text))
  BY FS_Interval
<1>5. IsFiniteSet(SpansStart(text)) /\ SpansStart(text) \subseteq Nat
  <2>1. IsFiniteSet(SpansStart(text))
    BY <1>3, <1>4, FS_Subset
  <2>. QED
    BY <1>3, <2>1
<1>. QED
  BY <1>1, <1>2, <1>5

LEMMA TextNumbered ==
    ASSUME NEW document, NEW C, document.text \in Seq(C)
    PROVE  /\ Numbered(TextSegments(document), SpansStart(document.text),
                       [k \in SpansStart(document.text) |-> TextAt(document, k)])
           /\ \A k \in SpansStart(document.text) :
                TextAt(document, k).id = <<k, SpanAt(document.text, k).end>>
<1>. DEFINE text == document.text
            K    == SpansStart(text)
            at   == [k \in K |-> TextAt(document, k)]
<1>1. /\ \A span \in TextSpans(text) : SpanAt(text, span.start) = span /\ span.start \in K
      /\ \A k \in K : SpanAt(text, k) \in TextSpans(text) /\ SpanAt(text, k).start = k
      /\ K \subseteq Nat /\ IsFiniteSet(K)
  BY SpanOf DEF SpansStart
<1>2. \A k \in K : TextAt(document, k) \in TextSegments(document)
  BY <1>1 DEF TextAt, TextSegments
<1>3. \A s \in TextSegments(document) : \E k \in K : TextAt(document, k) = s
  <2>. SUFFICES ASSUME NEW s \in TextSegments(document) PROVE \E k \in K : TextAt(document, k) = s
    OBVIOUS
  <2>1. PICK span \in TextSpans(text) :
          s = Segment(document, "text", <<span.start, span.end>>,
                 Cardinality({x \in TextSpans(text) : x.start < span.start}), << >>,
                 span.start, span.end, Slice(text, span.start, span.end))
    BY DEF TextSegments
  <2>2. SpanAt(text, span.start) = span /\ span.start \in K
    BY <1>1
  <2>. QED
    BY <2>1, <2>2 DEF TextAt
<1>4. ASSUME NEW k \in K PROVE /\ TextAt(document, k).ordinal = Below(K, k)
                               /\ TextAt(document, k).id = <<k, SpanAt(text, k).end>>
  <2>. DEFINE low   == {m \in K : m < k}
              spans == {s \in TextSpans(text) : s.start < k}
              of    == [m \in low |-> SpanAt(text, m)]
  <2>1. TextAt(document, k).ordinal = Cardinality(spans) /\ TextAt(document, k).id = <<k, SpanAt(text, k).end>>
    BY <1>1 DEF TextAt, Segment
  <2>2. \A m \in low : of[m] \in spans /\ of[m].start = m
    BY <1>1
  <2>3. \A s \in spans : \E m \in low : of[m] = s
    BY <1>1
  <2>4. of \in [low -> spans]
    BY <2>2
  <2>5. IsFiniteSet(low)
    BY <1>1, FS_Subset
  <2>. HIDE DEF of, low, spans
  <2>6. of \in Surjection(low, spans)
    BY <2>3, <2>4 DEF Surjection
  <2>7. of \in Injection(low, spans)
    BY <2>2, <2>4 DEF Injection, IsInjective
  <2>8. Cardinality(spans) = Cardinality(low)
    BY <2>5, <2>6, <2>7, FS_Surjection
  <2>. QED
    BY <2>1, <2>8 DEF low, Below
<1>5. at \in [K -> TextSegments(document)]
  BY <1>2
<1>6. \A s \in TextSegments(document) : \E k \in K : at[k] = s
  BY <1>3
<1>7. \A k \in K : at[k].ordinal = Below(K, k)
  BY <1>4
<1>. HIDE DEF at, K
<1>8. Numbered(TextSegments(document), K, at)
  BY <1>1, <1>5, <1>6, <1>7 DEF Numbered
<1>. QED
  BY <1>4, <1>8 DEF at, K

CsvAt(document, k) ==
    Segment(document, "csv",
            <<document.rows[k].cells,
              Cardinality({m \in {m \in DataRows(document) : m < k} :
                              document.rows[m].cells = document.rows[k].cells})>>,
            Cardinality({m \in DataRows(document) : m < k}),
            [columns |-> Headers(document), cells |-> document.rows[k].cells], 0,
            Len(RenderedRow(Headers(document), document.rows[k].cells)),
            RenderedRow(Headers(document), document.rows[k].cells))

LEMMA CsvNumbered ==
    ASSUME NEW document, NEW S, document.rows \in Seq(S)
    PROVE  Numbered(CsvSegments(document), DataRows(document),
                    [k \in DataRows(document) |-> CsvAt(document, k)])
<1>. DEFINE K  == DataRows(document)
            at == [k \in K |-> CsvAt(document, k)]
<1>1. K \subseteq 2 .. Len(document.rows) /\ Len(document.rows) \in Nat
  BY DEF DataRows
<1>2. IsFiniteSet(2 .. Len(document.rows))
  <2>1. 2 \in Int /\ Len(document.rows) \in Int
    BY <1>1
  <2>. QED
    BY <2>1, FS_Interval
<1>3. K \subseteq Nat /\ IsFiniteSet(K)
  <2>1. IsFiniteSet(K)
    BY <1>1, <1>2, FS_Subset
  <2>. QED
    BY <1>1, <2>1
<1>4. CsvSegments(document) = {CsvAt(document, k) : k \in K}
  BY DEF CsvSegments, CsvAt
<1>5. \A k \in K : CsvAt(document, k).ordinal = Below(K, k)
  BY DEF CsvAt, Segment, Below
<1>6. at \in [K -> CsvSegments(document)] /\ \A s \in CsvSegments(document) : \E k \in K : at[k] = s
  BY <1>4
<1>7. \A k \in K : at[k].ordinal = Below(K, k)
  BY <1>5
<1>. HIDE DEF at, K
<1>. QED
  BY <1>3, <1>6, <1>7 DEF Numbered, at, K

Printed(document, library) ==
    {k \in DOMAIN document.pages[library] :
        TrimmedSpan(document.pages[library][k], 0, Len(document.pages[library][k])) # {}}

PageSpan(page) == CHOOSE span \in TrimmedSpan(page, 0, Len(page)) : TRUE

PdfAt(document, library, k) ==
    Segment(document, "pdf", <<k>>, Cardinality({m \in Printed(document, library) : m < k}),
            [number |-> k, page |-> document.pages[library][k]],
            PageSpan(document.pages[library][k]).start, PageSpan(document.pages[library][k]).end,
            Slice(document.pages[library][k], PageSpan(document.pages[library][k]).start,
                  PageSpan(document.pages[library][k]).end))

LEMMA PdfNumbered ==
    ASSUME NEW document, NEW library, NEW C, document.pages[library] \in Seq(Seq(C))
    PROVE  Numbered(PdfSegments(document, library), Printed(document, library),
                    [k \in Printed(document, library) |-> PdfAt(document, library, k)])
<1>. DEFINE pages == document.pages[library]
            K     == Printed(document, library)
            at    == [k \in K |-> PdfAt(document, library, k)]
            Seg(k, span) ==
                Segment(document, "pdf", <<k>>, Cardinality({m \in K : m < k}),
                        [number |-> k, page |-> pages[k]], span.start, span.end,
                        Slice(pages[k], span.start, span.end))
<1>1. K \subseteq 1 .. Len(pages) /\ Len(pages) \in Nat
  BY DEF Printed
<1>2. K \subseteq Nat /\ IsFiniteSet(K)
  <2>1. IsFiniteSet(1 .. Len(pages))
    BY <1>1, FS_Interval
  <2>2. IsFiniteSet(K)
    BY <1>1, <2>1, FS_Subset
  <2>. QED
    BY <1>1, <2>2
<1>3. PdfSegments(document, library) =
        UNION {{Seg(k, span) : span \in TrimmedSpan(pages[k], 0, Len(pages[k]))} : k \in K}
  BY DEF PdfSegments, Printed
<1>4. ASSUME NEW k \in K
      PROVE  /\ PageSpan(pages[k]) \in TrimmedSpan(pages[k], 0, Len(pages[k]))
             /\ \A span \in TrimmedSpan(pages[k], 0, Len(pages[k])) : span = PageSpan(pages[k])
             /\ PdfAt(document, library, k) = Seg(k, PageSpan(pages[k]))
  <2>1. PageSpan(pages[k]) \in TrimmedSpan(pages[k], 0, Len(pages[k]))
    BY DEF PageSpan, Printed
  <2>2. Len(pages[k]) \in Nat
    BY <1>1
  <2>3. \A span \in TrimmedSpan(pages[k], 0, Len(pages[k])) : span = PageSpan(pages[k])
    BY <2>1, <2>2, OneSpan
  <2>. QED
    BY <2>1, <2>3 DEF PdfAt
<1>. HIDE DEF Seg, pages
<1>5. \A k \in K : PdfAt(document, library, k) \in PdfSegments(document, library)
  <2>. SUFFICES ASSUME NEW k \in K PROVE PdfAt(document, library, k) \in PdfSegments(document, library)
    OBVIOUS
  <2>1. PdfAt(document, library, k) \in {Seg(k, span) : span \in TrimmedSpan(pages[k], 0, Len(pages[k]))}
    BY <1>4
  <2>2. PICK X : X = {Seg(k, span) : span \in TrimmedSpan(pages[k], 0, Len(pages[k]))}
    OBVIOUS
  <2>3. X \in {{Seg(m, span) : span \in TrimmedSpan(pages[m], 0, Len(pages[m]))} : m \in K}
    BY <2>2
  <2>4. PdfAt(document, library, k)
          \in UNION {{Seg(m, span) : span \in TrimmedSpan(pages[m], 0, Len(pages[m]))} : m \in K}
    BY <2>1, <2>2, <2>3, Zenon
  <2>. QED
    BY <1>3, <2>4, Zenon
<1>6. \A s \in PdfSegments(document, library) : \E k \in K : PdfAt(document, library, k) = s
  <2>. SUFFICES ASSUME NEW s \in PdfSegments(document, library) PROVE \E k \in K : PdfAt(document, library, k) = s
    OBVIOUS
  <2>1. PICK k \in K : s \in {Seg(k, span) : span \in TrimmedSpan(pages[k], 0, Len(pages[k]))}
    BY <1>3, Zenon
  <2>. QED
    BY <1>4, <2>1
<1>7. \A k \in K : PdfAt(document, library, k).ordinal = Below(K, k)
  BY DEF PdfAt, Segment, Below
<1>8. at \in [K -> PdfSegments(document, library)] /\ \A s \in PdfSegments(document, library) : \E k \in K : at[k] = s
  BY <1>5, <1>6
<1>9. \A k \in K : at[k].ordinal = Below(K, k)
  BY <1>7
<1>. HIDE DEF at, K
<1>. QED
  BY <1>2, <1>8, <1>9 DEF Numbered, at, K

LEMMA PdfSegmentAt ==
    ASSUME NEW document, NEW library, NEW C, document.pages[library] \in Seq(Seq(C)),
           NEW s \in PdfSegments(document, library)
    PROVE  \E k \in Printed(document, library) : s = PdfAt(document, library, k)
BY PdfNumbered DEF Numbered

\* The segments of a document are finitely many, numbered from 0 without a gap.
LEMMA SegmentsNumbered ==
    ASSUME NEW document, NEW library, NEW C, Readable(document, library, C),
           NEW segments, segments = SegmentsOf(document, library)
    PROVE  /\ IsFiniteSet(segments) /\ Cardinality(segments) \in Nat
           /\ {s.ordinal : s \in segments} = 0 .. (Cardinality(segments) - 1)
           /\ \A s, t \in segments : s.ordinal = t.ordinal => s = t
<1>1. PICK K, at : Numbered(segments, K, at)
  <2>1. CASE segments = TextSegments(document)
    BY <2>1, TextNumbered DEF Readable
  <2>2. CASE segments = CsvSegments(document)
    BY <2>2, CsvNumbered DEF Readable
  <2>3. CASE segments = PdfSegments(document, library)
    BY <2>3, PdfNumbered DEF Readable
  <2>. QED
    BY <2>1, <2>2, <2>3, ThreeParsers DEF Readable
<1>. QED
  BY <1>1, NumberedSegments

\* No two segments of a document have one id: equal rows are told apart.
LEMMA IdsDistinct ==
    ASSUME NEW document, NEW library, NEW C, Readable(document, library, C),
           NEW s \in SegmentsOf(document, library), NEW t \in SegmentsOf(document, library), s.id = t.id
    PROVE  s = t
<1>0. /\ document.text \in Seq(C) /\ document.rows \in Seq([ok : BOOLEAN, cells : Seq(Seq(C))])
      /\ document.pages[library] \in Seq(Seq(C))
  BY DEF Readable
<1>1. CASE SegmentsOf(document, library) = TextSegments(document)
  <2>1. PICK j \in SpansStart(document.text) : s = TextAt(document, j)
    BY <1>0, <1>1, TextNumbered DEF Numbered
  <2>2. PICK k \in SpansStart(document.text) : t = TextAt(document, k)
    BY <1>0, <1>1, TextNumbered DEF Numbered
  <2>3. <<j, SpanAt(document.text, j).end>> = <<k, SpanAt(document.text, k).end>>
    BY <1>0, <2>1, <2>2, TextNumbered
  <2>4. j = k
    BY <2>3, Tuples
  <2>. QED
    BY <2>1, <2>2, <2>4
<1>2. CASE SegmentsOf(document, library) = CsvSegments(document)
  <2>. DEFINE K        == DataRows(document)
              twins(k) == {m \in K : document.rows[m].cells = document.rows[k].cells}
  <2>0. K \subseteq Nat /\ IsFiniteSet(K)
    BY <1>0, CsvNumbered DEF Numbered
  <2>1. PICK j \in K : s = CsvAt(document, j)
    BY <1>0, <1>2, CsvNumbered DEF Numbered
  <2>2. PICK k \in K : t = CsvAt(document, k)
    BY <1>0, <1>2, CsvNumbered DEF Numbered
  <2>3. \A m \in K : CsvAt(document, m).id = <<document.rows[m].cells, Below(twins(m), m)>>
    <3>. SUFFICES ASSUME NEW m \in K
                  PROVE  CsvAt(document, m).id = <<document.rows[m].cells, Below(twins(m), m)>>
      OBVIOUS
    <3>1. {n \in {n \in K : n < m} : document.rows[n].cells = document.rows[m].cells}
            = {n \in twins(m) : n < m}
      OBVIOUS
    <3>2. CsvAt(document, m).id
            = <<document.rows[m].cells,
                Cardinality({n \in {n \in K : n < m} : document.rows[n].cells = document.rows[m].cells})>>
      BY DEF CsvAt, Segment
    <3>. QED
      BY <3>1, <3>2 DEF Below
  <2>4. <<document.rows[j].cells, Below(twins(j), j)>> = <<document.rows[k].cells, Below(twins(k), k)>>
    BY <2>1, <2>2, <2>3
  <2>5. document.rows[j].cells = document.rows[k].cells /\ Below(twins(j), j) = Below(twins(k), k)
    BY <2>4, Tuples
  <2>6. twins(j) = twins(k) /\ j \in twins(j) /\ k \in twins(j)
    BY <2>5
  <2>7. twins(j) \subseteq Nat /\ IsFiniteSet(twins(j))
    BY <2>0, FS_Subset
  <2>. HIDE DEF twins
  <2>8. j = k
    BY <2>5, <2>6, <2>7, BelowRange
  <2>. QED
    BY <2>1, <2>2, <2>8
<1>3. CASE SegmentsOf(document, library) = PdfSegments(document, library)
  <2>1. PICK j \in Printed(document, library) : s = PdfAt(document, library, j)
    BY <1>0, <1>3, PdfSegmentAt
  <2>2. PICK k \in Printed(document, library) : t = PdfAt(document, library, k)
    BY <1>0, <1>3, PdfSegmentAt
  <2>3. <<j>> = <<k>>
    BY <2>1, <2>2 DEF PdfAt, Segment
  <2>4. j = k
    BY <2>3, Tuples
  <2>. QED
    BY <2>1, <2>2, <2>4
<1>. QED
  BY <1>1, <1>2, <1>3, ThreeParsers DEF Readable

\* The locator a segment is born with replays to its text.
LEMMA WholeReplays ==
    ASSUME NEW document, NEW library, NEW C, Readable(document, library, C),
           NEW segment \in SegmentsOf(document, library), segment.text \in Seq(C)
    PROVE  ReplayLocator(segment.locator, document, library) = {segment.text}
<1>. DEFINE text == segment.text
<1>0. /\ document.text \in Seq(C) /\ document.pages[library] \in Seq(Seq(C)) /\ Len(text) \in Nat
  BY DEF Readable
<1>1. Slice(text, 0, 0 + Len(text)) = text
  BY DEF Slice
<1>2. ReplayLocator(NarrowLocator(segment, text, 0), document, library) = {text}
  BY <1>1, QuotesReplay DEF IsExactSpan
<1>3. ASSUME NEW kind, NEW id, NEW unit, NEW start, NEW end,
             segment.locator = Locator(document, kind, id, unit, start, end, text),
             start \in Nat, end = start + Len(text), kind = "csv" => start = 0
      PROVE  NarrowLocator(segment, text, 0) = segment.locator
  <2>1. segment.locator.kind = kind /\ segment.locator.start = start
    BY <1>3, LocatorFields
  <2>2. Base(segment) = start
    BY <1>3, <2>1 DEF Base
  <2>3. NarrowLocator(segment, text, 0)
          = Locator(document, kind, id, unit, Base(segment) + 0, Base(segment) + 0 + Len(text), text)
    BY <1>3, NarrowedSegment
  <2>4. Base(segment) + 0 = start /\ Base(segment) + 0 + Len(text) = end
    BY <1>0, <1>3, <2>2
  <2>. QED
    BY <1>3, <2>3, <2>4
<1>4. CASE segment \in TextSegments(document)
  <2>. DEFINE from == segment.locator.start
              to   == segment.locator.end
  <2>1. /\ from \in Nat /\ to \in Nat /\ from < to /\ to <= Len(document.text)
        /\ text = Slice(document.text, from, to)
        /\ segment.locator = Locator(document, "text", segment.id, << >>, from, to, text)
    BY <1>0, <1>4, TextSegmentShape
  <2>2. PICK n \in Nat : to = from + n
    <3>1. to - from \in Nat /\ to = from + (to - from)
      BY <2>1
    <3>. QED
      BY <3>1
  <2>3. Len(text) = n
    BY <1>0, <2>1, <2>2, SliceInside
  <2>4. PICK kind, unit : kind = "text" /\ unit = << >>
    OBVIOUS
  <2>. HIDE DEF from, to, text
  <2>5. segment.locator = Locator(document, kind, segment.id, unit, from, to, text) /\ kind # "csv"
    BY <2>1, <2>4
  <2>6. NarrowLocator(segment, text, 0) = segment.locator
    <3>1. from \in Nat /\ to = from + Len(text)
      BY <2>1, <2>2, <2>3
    <3>. QED
      BY <1>3, <2>5, <3>1
  <2>. QED
    BY <1>2, <2>6 DEF text
<1>5. CASE segment \in CsvSegments(document)
  <2>1. segment.locator = Locator(document, "csv", segment.id,
                [columns |-> Headers(document), cells |-> segment.id[1]], 0, Len(text), text)
    BY <1>5, CsvSegmentShape
  <2>2. Len(text) = 0 + Len(text)
    BY <1>0
  <2>. HIDE DEF text
  <2>. QED
    BY <1>2, <1>3, <2>1, <2>2 DEF text
<1>6. CASE segment \in PdfSegments(document, library)
  <2>a. PICK k \in DOMAIN document.pages[library] :
          \E span \in TrimmedSpan(document.pages[library][k], 0, Len(document.pages[library][k])) :
               /\ segment.id = <<k>>
               /\ text = Slice(document.pages[library][k], span.start, span.end)
               /\ segment.locator = Locator(document, "pdf", <<k>>,
                                            [number |-> k, page |-> document.pages[library][k]],
                                            span.start, span.end, text)
    BY <1>6, PdfSegmentShape
  <2>b. document.pages[library][k] \in Seq(C)
    BY <1>0
  <2>1. PICK page \in Seq(C) : page = document.pages[library][k]
    BY <2>b
  <2>2. PICK span \in TrimmedSpan(page, 0, Len(page)) :
               /\ text = Slice(page, span.start, span.end)
               /\ segment.locator = Locator(document, "pdf", <<k>>, [number |-> k, page |-> page],
                                            span.start, span.end, text)
    BY <2>a, <2>1
  <2>3. /\ span.start \in Nat /\ span.end \in Nat /\ span.start < span.end /\ span.end <= Len(page)
    BY SpansInside
  <2>4. PICK n \in Nat : span.end = span.start + n
    <3>1. span.end - span.start \in Nat /\ span.end = span.start + (span.end - span.start)
      BY <2>3
    <3>. QED
      BY <3>1
  <2>5. Len(text) = n
    BY <2>2, <2>3, <2>4, SliceInside
  <2>. HIDE DEF text
  <2>. QED
    BY <1>2, <1>3, <2>2, <2>3, <2>4, <2>5 DEF text
<1>. QED
  BY <1>4, <1>5, <1>6, ThreeParsers DEF Readable

-----------------------------------------------------------------------------
(* Claims. *)

\* A quote that says something is exact where each of its characters is.
LEMMA ExactQuote ==
    ASSUME NEW C, NEW text \in Seq(C), NEW i \in Nat, NEW quote \in Seq(C), quote # << >>
    PROVE  Slice(text, i, i + Len(quote)) = quote
             <=> /\ i + Len(quote) <= Len(text)
                 /\ \A k \in 1 .. Len(quote) : quote[k] = text[i + k]
<1>1. PICK n \in Nat : n = Len(quote)
  OBVIOUS
<1>2. ASSUME Slice(text, i, i + n) = quote PROVE i + n <= Len(text)
  BY <1>1, <1>2, ExactSlice
<1>3. ASSUME i + n <= Len(text)
      PROVE  /\ Slice(text, i, i + n) \in Seq(C) /\ Len(Slice(text, i, i + n)) = n
             /\ \A k \in 1 .. n : Slice(text, i, i + n)[k] = text[i + k]
  BY <1>3, SliceInside
<1>4. ASSUME Slice(text, i, i + n) = quote PROVE \A k \in 1 .. n : quote[k] = text[i + k]
  BY <1>2, <1>3, <1>4
<1>5. ASSUME i + n <= Len(text), \A k \in 1 .. n : quote[k] = text[i + k]
      PROVE  Slice(text, i, i + n) = quote
  <2>1. PICK slice \in Seq(C) : slice = Slice(text, i, i + n) /\ Len(slice) = n
                                /\ \A k \in 1 .. n : slice[k] = text[i + k]
    BY <1>3, <1>5
  <2>2. \A k \in 1 .. n : slice[k] = quote[k]
    BY <1>5, <2>1
  <2>. QED
    BY <1>1, <2>1, <2>2
<1>. QED
  BY <1>1, <1>2, <1>4, <1>5

\* The identity of a draft.
LEMMA DraftFields ==
    ASSUME NEW segment, NEW quote, NEW start, NEW observation, NEW method,
           NEW draft, draft = Draft(segment, quote, start, observation, method)
    PROVE  /\ draft.id = [segment |-> segment.id, quote |-> quote, observation |-> observation,
                          method |-> method]
           /\ draft.segment = segment.id /\ draft.quote = quote /\ draft.observation = observation
           /\ draft.locator = NarrowLocator(segment, quote, start)
BY DEF Draft

LEMMA IdentityParts ==
    ASSUME NEW a, NEW b, NEW c, NEW d, NEW x, NEW y, NEW z, NEW w
    PROVE  [segment |-> a, quote |-> b, observation |-> c, method |-> d]
             = [segment |-> x, quote |-> y, observation |-> z, method |-> w]
           <=> a = x /\ b = y /\ c = z /\ d = w
<1>. DEFINE left  == [segment |-> a, quote |-> b, observation |-> c, method |-> d]
            right == [segment |-> x, quote |-> y, observation |-> z, method |-> w]
<1>1. /\ left.segment = a /\ left.quote = b /\ left.observation = c /\ left.method = d
      /\ right.segment = x /\ right.quote = y /\ right.observation = z /\ right.method = w
  OBVIOUS
<1>. HIDE DEF left, right
<1>2. left = right => a = x /\ b = y /\ c = z /\ d = w
  BY <1>1
<1>3. a = x /\ b = y /\ c = z /\ d = w => left = right
  BY DEF left, right
<1>. QED
  BY <1>2, <1>3 DEF left, right

\* A bound draft has the words of its proposal.
LEMMA BoundDraftFields ==
    ASSUME NEW proposal, NEW segments, Binds(proposal, segments),
           NEW draft, draft = BoundDraft(proposal, segments)
    PROVE  /\ draft.id = [segment |-> proposal.segment, quote |-> proposal.quote,
                          observation |-> proposal.observation, method |-> "openai"]
           /\ draft.segment = proposal.segment /\ draft.quote = proposal.quote
           /\ draft.observation = proposal.observation
<1>. DEFINE chosen == CHOOSE s \in Named(proposal, segments) : TRUE
<1>1. chosen \in segments /\ chosen.id = proposal.segment
  BY DEF Binds, Named
<1>2. draft = Draft(chosen, proposal.quote, proposal.start, proposal.observation, "openai")
  BY DEF BoundDraft
<1>. HIDE DEF chosen
<1>3. draft.id = [segment |-> chosen.id, quote |-> proposal.quote,
                  observation |-> proposal.observation, method |-> "openai"]
  BY <1>2, DraftFields
<1>4. draft.segment = chosen.id /\ draft.quote = proposal.quote /\ draft.observation = proposal.observation
  <2>1. PICK segment, quote, start, observation :
          /\ segment = chosen /\ quote = proposal.quote
          /\ start = proposal.start /\ observation = proposal.observation
    OBVIOUS
  <2>2. draft = Draft(segment, quote, start, observation, "openai")
    BY <1>2, <2>1
  <2>3. draft.segment = segment.id /\ draft.quote = quote /\ draft.observation = observation
    BY <2>2 DEF Draft
  <2>. QED
    BY <2>1, <2>3
<1>. QED
  BY <1>1, <1>3, <1>4

LEMMA LeastOfTwo ==
    ASSUME NEW a \in Nat, NEW b \in Nat
    PROVE  Least({a, b}) = IF a < b THEN a ELSE b
<1>1. Least({a, b}) \in {a, b} /\ \A n \in {a, b} : Least({a, b}) <= n
  <2>1. \E m \in {a, b} : \A n \in {a, b} : m <= n
    OBVIOUS
  <2>. QED
    BY <2>1 DEF Least
<1>. QED
  BY <1>1

\* What is listed without repetition is counted by its list.
LEMMA ListCounts ==
    ASSUME NEW n \in Nat, NEW S, NEW f \in [1 .. n -> S],
           \A x \in S : \E i \in 1 .. n : f[i] = x,
           \A i, j \in 1 .. n : f[i] = f[j] => i = j
    PROVE  IsFiniteSet(S) /\ Cardinality(S) = n
<1>1. f \in Surjection(1 .. n, S) /\ f \in Injection(1 .. n, S)
  BY DEF Surjection, Injection, IsInjective
<1>2. IsFiniteSet(1 .. n) /\ Cardinality(1 .. n) = IF 1 > n THEN 0 ELSE n - 1 + 1
  <2>1. 1 \in Int /\ n \in Int
    OBVIOUS
  <2>. QED
    BY <2>1, FS_Interval
<1>3. Cardinality(1 .. n) = n
  BY <1>2
<1>. QED
  BY <1>1, <1>2, <1>3, FS_Surjection

\* The demo's drafts cite a segment each, as many of them as the limit allows.
LEMMA DemoDraftsSound ==
    ASSUME NEW document, NEW library, NEW C, Readable(document, library, C),
           NEW segments, segments = SegmentsOf(document, library),
           \A s \in segments : s.text \in Seq(C),
           NEW config, config.maxEvidence \in Nat, config.maxQuoteChars \in Nat,
           NEW n, n = (IF Cardinality(segments) < config.maxEvidence THEN Cardinality(segments)
                       ELSE config.maxEvidence),
           NEW drafts, drafts = DemoDrafts(segments, config)
    PROVE  /\ n \in Nat /\ DOMAIN drafts = 1 .. n
           /\ \A i, j \in 1 .. n : drafts[i].id = drafts[j].id => i = j
           /\ \A i \in 1 .. n : CitationCheck(drafts[i], segments, document, library).verified
           /\ \A i \in 1 .. n : drafts[i].id = [segment |-> drafts[i].segment, quote |-> drafts[i].quote,
                                                observation |-> drafts[i].observation, method |-> "demo"]
<1>. DEFINE at(i)    == SegmentAt(segments, i - 1)
            quote(i) == SelectQuote(at(i).text, config.maxQuoteChars)
<1>1. /\ IsFiniteSet(segments) /\ Cardinality(segments) \in Nat
      /\ {s.ordinal : s \in segments} = 0 .. (Cardinality(segments) - 1)
      /\ \A s, t \in segments : s.ordinal = t.ordinal => s = t
  BY SegmentsNumbered
<1>2. n \in Nat /\ n <= Cardinality(segments) /\ n = Least({Cardinality(segments), config.maxEvidence})
  BY <1>1, LeastOfTwo
<1>3. ASSUME NEW i \in 1 .. n PROVE at(i) \in segments /\ at(i).ordinal = i - 1
  <2>0. PICK m \in Nat : m = Cardinality(segments)
    BY <1>1
  <2>1. i - 1 \in {s.ordinal : s \in segments}
    <3>1. i - 1 \in 0 .. (m - 1)
      BY <1>2, <2>0
    <3>. QED
      BY <1>1, <2>0, <3>1
  <2>2. \E s \in segments : s.ordinal = i - 1
    BY <2>1
  <2>. QED
    BY <2>2 DEF SegmentAt
<1>4. drafts = [i \in 1 .. n |-> Draft(at(i), quote(i), 0, DemoObservation, "demo")]
  BY <1>2 DEF DemoDrafts
<1>. HIDE DEF at, quote
<1>5. ASSUME NEW i \in 1 .. n
      PROVE  /\ drafts[i] = Draft(at(i), quote(i), 0, DemoObservation, "demo")
             /\ drafts[i].id = [segment |-> at(i).id, quote |-> quote(i), observation |-> DemoObservation,
                                method |-> "demo"]
             /\ drafts[i].segment = at(i).id /\ drafts[i].quote = quote(i)
             /\ drafts[i].observation = DemoObservation
             /\ drafts[i].id.segment = at(i).id
  <2>1. drafts[i] = Draft(at(i), quote(i), 0, DemoObservation, "demo")
    BY <1>4
  <2>2. PICK draft : draft = drafts[i]
    OBVIOUS
  <2>3. PICK id : id = draft.id
    OBVIOUS
  <2>4. id = [segment |-> at(i).id, quote |-> quote(i), observation |-> DemoObservation,
              method |-> "demo"]
    BY <2>1, <2>2, <2>3, DraftFields
  <2>5. id.segment = at(i).id
    BY <2>4
  <2>. QED
    BY <2>1, <2>2, <2>3, <2>5, DraftFields
<1>6. ASSUME NEW i \in 1 .. n, NEW j \in 1 .. n, drafts[i].id = drafts[j].id PROVE i = j
  <2>0. drafts[i].id.segment = at(i).id /\ drafts[j].id.segment = at(j).id
    BY <1>5
  <2>1. at(i).id = at(j).id
    BY <1>6, <2>0
  <2>2. at(i) \in segments /\ at(j) \in segments /\ at(i).ordinal = i - 1 /\ at(j).ordinal = j - 1
    BY <1>3
  <2>3. at(i) = at(j)
    BY <2>1, <2>2, IdsDistinct
  <2>. QED
    BY <2>2, <2>3
<1>7. ASSUME NEW i \in 1 .. n PROVE CitationCheck(drafts[i], segments, document, library).verified
  <2>1. PICK segment \in segments : segment = at(i)
    BY <1>3
  <2>2. drafts[i] = Draft(segment, SelectQuote(segment.text, config.maxQuoteChars), 0, DemoObservation, "demo")
    BY <1>5, <2>1 DEF quote
  <2>. QED
    BY <2>2, DemoQuotesVerified
<1>8. \A i \in 1 .. n : drafts[i].id = [segment |-> drafts[i].segment, quote |-> drafts[i].quote,
                                        observation |-> drafts[i].observation, method |-> "demo"]
  BY <1>5
<1>9. DOMAIN drafts = 1 .. n
  BY <1>4
<1>. QED
  BY <1>2, <1>6, <1>7, <1>8, <1>9

-----------------------------------------------------------------------------
(* Where the segments of a text are. *)

\* What is said in a stretch is in its trimmed span.
LEMMA InkInSpan ==
    ASSUME NEW text, NEW i \in Nat, NEW j \in Nat, NEW k \in i .. (j - 1), At(text, k) \notin Space
    PROVE  \E span \in TrimmedSpan(text, i, j) :
              \A l \in i .. (j - 1) : At(text, l) \notin Space => span.start <= l /\ l < span.end
<1>. DEFINE ink == {l \in i .. (j - 1) : At(text, l) \notin Space}
<1>1. k \in ink /\ ink \subseteq Nat /\ ink \subseteq 0 .. j
  OBVIOUS
<1>2. PICK a \in ink : \A l \in ink : a <= l
  BY <1>1, LeastOffset
<1>3. PICK b \in ink : \A l \in ink : l <= b
  BY <1>1, GreatestOffset
<1>4. PICK span : span = [start |-> a, end |-> b + 1]
  OBVIOUS
<1>5. \A l \in ink : span.start <= l /\ l < span.end
  BY <1>1, <1>2, <1>3, <1>4
<1>6. span \in [start : ink, end : {l + 1 : l \in ink}]
  BY <1>2, <1>3, <1>4
<1>7. span \in TrimmedSpan(text, i, j)
  BY <1>5, <1>6 DEF TrimmedSpan
<1>. QED
  BY <1>5, <1>7

\* Two members of a set are two.
LEMMA TwoOf ==
    ASSUME NEW S, IsFiniteSet(S), S \subseteq Nat
    PROVE  Cardinality(S) >= 2 <=> \E a, b \in S : a < b
<1>1. Cardinality(S) \in Nat
  BY FS_CardinalityType
<1>2. ASSUME NEW a \in S, NEW b \in S, a < b PROVE Cardinality(S) >= 2
  <2>1. IsFiniteSet(S \ {a}) /\ Cardinality(S \ {a}) = Cardinality(S) - 1
    BY FS_RemoveElement
  <2>2. b \in S \ {a} /\ a \in Nat
    BY <1>2
  <2>3. Cardinality(S \ {a}) # 0
    BY <2>1, <2>2, FS_EmptySet
  <2>4. Cardinality(S \ {a}) \in Nat
    BY <2>1, FS_CardinalityType
  <2>. QED
    BY <1>1, <2>1, <2>3, <2>4
<1>3. ASSUME Cardinality(S) >= 2 PROVE \E a, b \in S : a < b
  <2>1. S # {}
    BY <1>1, <1>3, FS_EmptySet
  <2>2. PICK a \in S : TRUE
    BY <2>1
  <2>3. IsFiniteSet(S \ {a}) /\ Cardinality(S \ {a}) = Cardinality(S) - 1
    BY FS_RemoveElement
  <2>4. S \ {a} # {}
    BY <1>1, <1>3, <2>3, FS_EmptySet
  <2>5. PICK b \in S : b # a
    BY <2>4
  <2>6. a < b \/ b < a
    BY <2>5
  <2>. QED
    BY <2>6
<1>. QED
  BY <1>2, <1>3

\* A line break is white space of a separator; what is said is not.
LEMMA GapIsSpace ==
    ASSUME NEW text, NEW k, InGap(text, k)
    PROVE  At(text, k) \in Space
BY DEF InGap, Space

Breaks(text, i, j) == {k \in i .. (j - 1) : At(text, k) = "nl"}

LEMMA BreaksOf ==
    ASSUME NEW text, NEW i \in Nat, NEW j \in Nat
    PROVE  /\ IsFiniteSet(Breaks(text, i, j)) /\ Breaks(text, i, j) \subseteq Nat
           /\ Cardinality(Breaks(text, i, j)) >= 2 <=> \E a, b \in Breaks(text, i, j) : a < b
<1>1. IsFiniteSet(i .. (j - 1))
  <2>1. i \in Int /\ j - 1 \in Int
    OBVIOUS
  <2>. QED
    BY <2>1, FS_Interval
<1>2. IsFiniteSet(Breaks(text, i, j)) /\ Breaks(text, i, j) \subseteq Nat
  BY <1>1, FS_Subset DEF Breaks
<1>. QED
  BY <1>2, TwoOf

\* There are two line breaks in a separator.
LEMMA GapBreaks ==
    ASSUME NEW C, NEW text \in Seq(C), NEW gap \in Separators(text)
    PROVE  \E a, b \in Breaks(text, gap.start, gap.end) : a < b
<1>1. gap.start \in Nat /\ gap.end \in Nat
  BY GapShape
<1>2. Cardinality(Breaks(text, gap.start, gap.end)) >= 2
  BY DEF Separators, Breaks
<1>. QED
  BY <1>1, <1>2, BreaksOf

\* Two line breaks with nothing but the white space of separators between are in one.
LEMMA BreaksInGap ==
    ASSUME NEW C, NEW text \in Seq(C), NEW k \in Offsets(text), NEW m \in Offsets(text), k < m,
           At(text, k) = "nl", At(text, m) = "nl", \A l \in k .. m : InGap(text, l)
    PROVE  \E gap \in Separators(text) : gap.start <= k /\ m < gap.end
<1>0. k \in Nat /\ m \in Nat /\ Len(text) \in Nat /\ m < Len(text)
  BY DEF Offsets
<1>. DEFINE low  == {p \in 0 .. k : \A l \in p .. k : InGap(text, l)}
            high == {e \in Nat : m < e /\ e <= Len(text) /\ (e < Len(text) => ~InGap(text, e))}
<1>1. PICK p \in low : \A q \in low : p <= q
  <2>1. k \in low /\ low \subseteq Nat
    BY <1>0
  <2>. QED
    BY <2>1, LeastOffset
<1>. DEFINE firm == {q \in p .. k : At(text, q) \notin Blanks}
<1>2. PICK a \in firm : \A q \in firm : a <= q
  <2>1. k \in firm /\ firm \subseteq Nat
    BY <1>0, <1>1 DEF Blanks
  <2>. HIDE DEF firm
  <2>. QED
    BY <2>1, LeastOffset
<1>3. PICK e \in high : \A f \in high : e <= f
  <2>1. Len(text) \in high /\ high \subseteq Nat
    BY <1>0
  <2>. HIDE DEF high
  <2>. QED
    BY <2>1, LeastOffset
<1>4. /\ a \in Nat /\ p <= a /\ a <= k /\ p \in Nat /\ At(text, a) \notin Blanks
      /\ e \in Nat /\ m < e /\ e <= Len(text) /\ (e < Len(text) => ~InGap(text, e))
  BY <1>0, <1>1, <1>2, <1>3
<1>5. \A l \in m .. (e - 1) : InGap(text, l)
  <2>. SUFFICES ASSUME NEW l \in m .. (e - 1), ~InGap(text, l) PROVE FALSE
    OBVIOUS
  <2>1. l # m
    BY <1>0
  <2>2. l \in high
    BY <1>0, <1>4, <2>1
  <2>. QED
    BY <1>3, <1>4, <2>2
<1>6. \A l \in a .. (e - 1) : InGap(text, l)
  <2>. SUFFICES ASSUME NEW l \in a .. (e - 1) PROVE InGap(text, l)
    OBVIOUS
  <2>1. l \in p .. k \/ l \in k .. m \/ l \in m .. (e - 1)
    BY <1>0, <1>4
  <2>. QED
    BY <1>1, <1>5, <2>1
<1>7. \A q \in 0 .. (a - 1) : (\A l \in q .. a : InGap(text, l)) => At(text, q) \in Blanks
  <2>. SUFFICES ASSUME NEW q \in 0 .. (a - 1), \A l \in q .. a : InGap(text, l)
                PROVE  At(text, q) \in Blanks
    OBVIOUS
  <2>1. \A l \in q .. k : InGap(text, l)
    <3>. SUFFICES ASSUME NEW l \in q .. k PROVE InGap(text, l)
      OBVIOUS
    <3>1. l \in q .. a \/ l \in p .. k
      BY <1>0, <1>4
    <3>. QED
      BY <1>1, <3>1
  <2>2. q \in low
    BY <1>0, <1>4, <2>1
  <2>3. p <= q /\ q < a
    BY <1>1, <1>4, <2>2
  <2>4. q \in p .. k
    BY <1>0, <1>4, <2>3
  <2>5. q \notin firm
    BY <1>2, <1>4, <2>3
  <2>. QED
    BY <2>4, <2>5
<1>8. PICK gap : gap = [start |-> a, end |-> e]
  OBVIOUS
<1>9. gap.start = a /\ gap.end = e /\ gap \in [start : Offsets(text), end : 1 .. Len(text)]
  BY <1>0, <1>4, <1>8 DEF Offsets
<1>10. Cardinality({l \in a .. (e - 1) : At(text, l) = "nl"}) >= 2
  <2>1. k \in Breaks(text, a, e) /\ m \in Breaks(text, a, e)
    BY <1>0, <1>4 DEF Breaks
  <2>2. Cardinality(Breaks(text, a, e)) >= 2
    BY <1>4, <2>1, BreaksOf
  <2>. QED
    BY <2>2 DEF Breaks
<1>11. gap \in Separators(text)
  <2>1. a < e
    BY <1>0, <1>4
  <2>. HIDE DEF low, high, firm
  <2>. QED
    BY <1>4, <1>6, <1>7, <1>9, <1>10, <2>1 DEF Separators
<1>. QED
  BY <1>4, <1>9, <1>11

\* What is said in a text is in one of its spans.
LEMMA TextCovered ==
    ASSUME NEW C, NEW text \in Seq(C), NEW k \in Offsets(text), At(text, k) \notin Space
    PROVE  \E span \in TextSpans(text) : span.start <= k /\ k < span.end
<1>. DEFINE gaps == Separators(text)
            E    == {n \in {0} \cup {gap.end : gap \in gaps} : n <= k}
            B    == {n \in {Len(text)} \cup {gap.start : gap \in gaps} : n > k}
<1>0. k \in Nat /\ Len(text) \in Nat /\ k < Len(text)
  BY DEF Offsets
<1>1. \A gap \in gaps : gap.start \in Nat /\ gap.end \in Nat /\ gap.start < gap.end
  BY GapShape
<1>2. E \subseteq 0 .. k /\ 0 \in E /\ B \subseteq Nat /\ Len(text) \in B
  BY <1>0, <1>1
<1>. HIDE DEF E, B
<1>3. PICK a \in E : \A n \in E : n <= a
  BY <1>0, <1>2, GreatestOffset
<1>4. PICK b \in B : \A n \in B : b <= n
  BY <1>2, LeastOffset
<1>5. a \in Nat /\ b \in Nat /\ a <= k /\ k < b
  BY <1>0, <1>2, <1>3, <1>4 DEF B
<1>6. ASSUME NEW gap \in gaps PROVE gap.start < a \/ gap.start >= b
  <2>0. gap.start \in Nat /\ gap.end \in Nat /\ gap.start < gap.end
    BY <1>1
  <2>1. CASE gap.start > k
    <3>1. gap.start \in B
      BY <2>1 DEF B
    <3>. QED
      BY <1>4, <1>5, <2>0, <3>1
  <2>2. CASE gap.start <= k
    <3>1. gap.end <= k
      <4>. SUFFICES ASSUME gap.end > k PROVE FALSE
        BY <1>0, <2>0
      <4>1. k \in gap.start .. (gap.end - 1)
        BY <1>0, <2>0, <2>2
      <4>2. InGap(text, k)
        BY <4>1, GapShape
      <4>. QED
        BY <4>2, GapIsSpace
    <3>2. gap.end \in E
      BY <3>1 DEF E
    <3>. QED
      BY <1>3, <1>5, <2>0, <3>2
  <2>. QED
    BY <1>0, <2>0, <2>1, <2>2
<1>7. PICK stretch : stretch = [start |-> a, end |-> b]
  OBVIOUS
<1>8. stretch \in Stretches(text)
  <2>1. a \in {0} \cup {gap.end : gap \in gaps} /\ b \in {Len(text)} \cup {gap.start : gap \in gaps}
    BY <1>3, <1>4 DEF E, B
  <2>2. a <= b
    BY <1>0, <1>5
  <2>. QED
    BY <1>6, <1>7, <2>1, <2>2 DEF Stretches
<1>9. stretch.start = a /\ stretch.end = b
  BY <1>7
<1>10. k \in a .. (b - 1)
  BY <1>0, <1>5
<1>11. PICK span \in TrimmedSpan(text, a, b) : span.start <= k /\ k < span.end
  BY <1>5, <1>10, InkInSpan
<1>12. span \in TextSpans(text)
  BY <1>8, <1>9, <1>11 DEF TextSpans
<1>. QED
  BY <1>11, <1>12

\* A separator that begins before a stretch ends before it.
LEMMA GapBefore ==
    ASSUME NEW C, NEW text \in Seq(C), NEW x \in Stretches(text), NEW gap \in Separators(text),
           gap.start < x.start, x.start < Len(text)
    PROVE  gap.end <= x.start
<1>1. x.start \in Nat /\ gap.start \in Nat /\ gap.end \in Nat
  BY StretchShape, GapShape
<1>2. PICK other \in Separators(text) : x.start = other.end
  BY <1>1, StretchShape
<1>3. ~InGap(text, x.start)
  BY <1>2, GapShape
<1>4. ~(x.start \in gap.start .. (gap.end - 1))
  BY <1>3, GapShape
<1>. QED
  BY <1>1, <1>4

\* No separator begins in a span, and none reaches into it.
LEMMA SpanHasNoGap ==
    ASSUME NEW C, NEW text \in Seq(C), NEW span \in TextSpans(text), NEW gap \in Separators(text)
    PROVE  gap.end <= span.start \/ span.end <= gap.start
<1>1. PICK x \in Stretches(text) : span \in TrimmedSpan(text, x.start, x.end)
  BY DEF TextSpans
<1>2. /\ x.start \in Nat /\ x.end \in Nat /\ x.end <= Len(text) /\ Len(text) \in Nat
      /\ gap.start < x.start \/ gap.start >= x.end
  BY StretchShape
<1>3. /\ span.start \in Nat /\ span.end \in Nat
      /\ x.start <= span.start /\ span.start < span.end /\ span.end <= x.end
  BY <1>1, <1>2, SpansInside
<1>4. gap.start \in Nat /\ gap.end \in Nat
  BY GapShape
<1>5. CASE gap.start < x.start
  BY <1>2, <1>3, <1>4, <1>5, GapBefore
<1>6. CASE gap.start >= x.end
  BY <1>2, <1>3, <1>4, <1>6
<1>. QED
  BY <1>2, <1>5, <1>6

\* Between two spans there is a separator.
LEMMA GapBetween ==
    ASSUME NEW C, NEW text \in Seq(C), NEW s \in TextSpans(text), NEW t \in TextSpans(text),
           s.start < t.start
    PROVE  \E gap \in Separators(text) : s.end <= gap.start /\ gap.end <= t.start
<1>1. PICK x \in Stretches(text) : s \in TrimmedSpan(text, x.start, x.end)
  BY DEF TextSpans
<1>2. PICK y \in Stretches(text) : t \in TrimmedSpan(text, y.start, y.end)
  BY DEF TextSpans
<1>3. /\ x.start \in Nat /\ x.end \in Nat /\ y.start \in Nat /\ y.end \in Nat
      /\ x.end <= Len(text) /\ y.end <= Len(text) /\ Len(text) \in Nat
  BY StretchShape
<1>4. /\ s.start \in Nat /\ s.end \in Nat /\ x.start <= s.start /\ s.start < s.end /\ s.end <= x.end
  BY <1>1, <1>3, SpansInside
<1>5. /\ t.start \in Nat /\ t.end \in Nat /\ y.start <= t.start /\ t.start < t.end /\ t.end <= y.end
  BY <1>2, <1>3, SpansInside
<1>6. y.start > s.start
  <2>. SUFFICES ASSUME y.start <= s.start PROVE FALSE
    BY <1>3, <1>4
  <2>1. PICK k \in Nat : k = s.start
    BY <1>4
  <2>2. x.start <= k /\ k < x.end /\ y.start <= k /\ k < y.end
    BY <1>3, <1>4, <1>5, <2>1
  <2>3. x = y
    BY <2>2, OneStretch
  <2>4. s = t
    BY <1>1, <1>2, <1>3, <2>3, OneSpan
  <2>. QED
    BY <1>4, <2>4
<1>7. PICK gap \in Separators(text) : y.start = gap.end
  BY <1>3, <1>4, <1>6, StretchShape
<1>8. gap.end <= s.start \/ s.end <= gap.start
  BY SpanHasNoGap
<1>. QED
  BY <1>3, <1>4, <1>5, <1>6, <1>7, <1>8

\* The segments of a text lie where its spans do.
LEMMA TextLocators ==
    ASSUME NEW document
    PROVE  /\ \A s \in TextSegments(document) : \E span \in TextSpans(document.text) :
                s.locator.start = span.start /\ s.locator.end = span.end
           /\ \A span \in TextSpans(document.text) : \E s \in TextSegments(document) :
                s.locator.start = span.start /\ s.locator.end = span.end
<1>. DEFINE of(span) ==
              Segment(document, "text", <<span.start, span.end>>,
                 Cardinality({s \in TextSpans(document.text) : s.start < span.start}), << >>, span.start,
                 span.end, Slice(document.text, span.start, span.end))
<1>1. TextSegments(document) = {of(span) : span \in TextSpans(document.text)}
  BY DEF TextSegments
<1>2. \A span : of(span).locator.start = span.start /\ of(span).locator.end = span.end
  BY DEF Segment, Locator
<1>. HIDE DEF of
<1>. QED
  BY <1>1, <1>2

\* They are numbered in the order they begin in.
LEMMA TextInOrder ==
    ASSUME NEW document, NEW C, document.text \in Seq(C),
           NEW s \in TextSegments(document), NEW t \in TextSegments(document), s.ordinal < t.ordinal
    PROVE  s.locator.start < t.locator.start
<1>. DEFINE K  == SpansStart(document.text)
            at == [k \in K |-> TextAt(document, k)]
<1>1. Numbered(TextSegments(document), K, at)
  BY TextNumbered
<1>2. PICK j \in K, k \in K : at[j] = s /\ at[k] = t
  BY <1>1 DEF Numbered
<1>3. j < k
  <2>1. \A a, b \in K : at[a].ordinal < at[b].ordinal => a < b
    BY <1>1, NumberedSegments
  <2>. HIDE DEF at, K
  <2>. QED
    BY <1>2, <2>1
<1>4. s = TextAt(document, j) /\ t = TextAt(document, k)
  BY <1>2
<1>5. \A x : TextAt(document, x).locator.start = SpanAt(document.text, x).start
  BY DEF TextAt, Segment, Locator
<1>6. SpanAt(document.text, j).start = j /\ SpanAt(document.text, k).start = k
  BY SpanOf
<1>. QED
  BY <1>3, <1>4, <1>5, <1>6

-----------------------------------------------------------------------------
(* Which cells and pages say something. *)

\* Only what is white space throughout strips to nothing.
LEMMA StripsToNothing ==
    ASSUME NEW C, NEW text \in Seq(C)
    PROVE  /\ Strip(text) = << >> <=> \A k \in Offsets(text) : At(text, k) \in Space
           /\ TrimmedSpan(text, 0, Len(text)) = {} <=> \A k \in Offsets(text) : At(text, k) \in Space
<1>. DEFINE spans == TrimmedSpan(text, 0, Len(text))
            span  == CHOOSE s \in spans : TRUE
<1>0. Len(text) \in Nat /\ Offsets(text) = 0 .. (Len(text) - 1)
  BY DEF Offsets
<1>1. CASE \E k \in Offsets(text) : At(text, k) \notin Space
  <2>1. spans # {}
    BY <1>0, <1>1, InkInSpan
  <2>2. span \in spans
    BY <2>1
  <2>3. /\ span.start \in Nat /\ span.end \in Nat /\ span.start < span.end /\ span.end <= Len(text)
    BY <1>0, <2>2, SpansInside
  <2>4. Strip(text) = Slice(text, span.start, span.end)
    BY <2>1 DEF Strip
  <2>. HIDE DEF span, spans
  <2>5. PICK a \in Nat, n \in Nat : a = span.start /\ a + n = span.end /\ n > 0
    <3>1. span.end - span.start \in Nat /\ span.start + (span.end - span.start) = span.end
      BY <2>3
    <3>. QED
      BY <2>3, <3>1
  <2>6. Len(Slice(text, a, a + n)) = n
    BY <2>3, <2>5, SliceInside
  <2>7. Strip(text) # << >>
    BY <2>4, <2>5, <2>6
  <2>. QED
    BY <1>1, <2>1, <2>7 DEF spans
<1>2. CASE \A k \in Offsets(text) : At(text, k) \in Space
  <2>1. spans = {}
    BY <1>0, <1>2 DEF TrimmedSpan
  <2>2. Strip(text) = << >>
    BY <2>1 DEF Strip
  <2>. QED
    BY <1>2, <2>1, <2>2
<1>. QED
  BY <1>1, <1>2

-----------------------------------------------------------------------------
(* The context shown to a model. *)

\* A function can be defined step by step up to any number.
StepByStep(f, m, V, base, step) ==
    /\ f \in [0 .. m -> V] /\ f[0] = base
    /\ \A n \in 1 .. m : f[n] = step[<<n, f[n - 1]>>]

LEMMA RecursionExists ==
    ASSUME NEW M \in Nat, NEW V, NEW base \in V, NEW step \in [(1 .. M) \X V -> V]
    PROVE  \E f : StepByStep(f, M, V, base, step)
<1>. DEFINE missing == {m \in 0 .. M : ~ \E f : StepByStep(f, m, V, base, step)}
<1>. SUFFICES ASSUME missing # {} PROVE FALSE
  BY DEF StepByStep
<1>1. PICK m \in missing : \A n \in missing : m <= n
  <2>1. missing \subseteq Nat
    OBVIOUS
  <2>. HIDE DEF missing
  <2>. QED
    BY <2>1, LeastOffset
<1>2. CASE m = 0
  <2>1. PICK f : f = [n \in 0 .. m |-> base]
    OBVIOUS
  <2>2. StepByStep(f, m, V, base, step)
    BY <1>2, <2>1 DEF StepByStep
  <2>. QED
    BY <2>2
<1>3. CASE m # 0
  <2>1. m - 1 \in 0 .. M /\ m \in 1 .. M
    BY <1>3
  <2>2. PICK f : StepByStep(f, m - 1, V, base, step)
    BY <1>1, <2>1
  <2>3. f \in [0 .. (m - 1) -> V] /\ f[0] = base /\ \A n \in 1 .. (m - 1) : f[n] = step[<<n, f[n - 1]>>]
    BY <2>2 DEF StepByStep
  <2>4. f[m - 1] \in V /\ <<m, f[m - 1]>> \in (1 .. M) \X V
    BY <2>1, <2>3
  <2>5. PICK g : g = [n \in 0 .. m |-> IF n = m THEN step[<<m, f[m - 1]>>] ELSE f[n]]
    OBVIOUS
  <2>6. /\ g \in [0 .. m -> V] /\ g[0] = base /\ g[m] = step[<<m, f[m - 1]>>]
        /\ \A n \in 0 .. (m - 1) : g[n] = f[n]
    <3>1. step[<<m, f[m - 1]>>] \in V
      BY <2>4
    <3>. QED
      BY <2>1, <2>3, <2>5, <3>1
  <2>7. \A n \in 1 .. m : g[n] = step[<<n, g[n - 1]>>]
    <3>. SUFFICES ASSUME NEW n \in 1 .. m PROVE g[n] = step[<<n, g[n - 1]>>]
      OBVIOUS
    <3>1. g[n - 1] = f[n - 1]
      BY <2>1, <2>6
    <3>2. CASE n = m
      BY <2>6, <3>1, <3>2
    <3>3. CASE n # m
      BY <2>1, <2>3, <2>6, <3>1, <3>3
    <3>. QED
      BY <3>2, <3>3
  <2>8. StepByStep(g, m, V, base, step)
    BY <2>6, <2>7 DEF StepByStep
  <2>. QED
    BY <2>8
<1>. QED
  BY <1>2, <1>3

LEMMA LeastOfThree ==
    ASSUME NEW a \in Nat, NEW b \in Nat, NEW c \in Nat
    PROVE  /\ Least({a, b, c}) \in {a, b, c}
           /\ Least({a, b, c}) <= a /\ Least({a, b, c}) <= b /\ Least({a, b, c}) <= c
<1>1. \E m \in {a, b, c} : \A n \in {a, b, c} : m <= n
  OBVIOUS
<1>2. Least({a, b, c}) \in {a, b, c} /\ \A n \in {a, b, c} : Least({a, b, c}) <= n
  BY <1>1 DEF Least
<1>. QED
  BY <1>2

\* How much of each text is shown, at most each of them and all in all.
Spent(c, N, length, each, all) ==
    /\ c \in [0 .. N -> 0 .. all] /\ c[0] = 0
    /\ \A n \in 1 .. N : c[n] = c[n - 1] + Least({length[n - 1], each, all - c[n - 1]})

LEMMA SpentExists ==
    ASSUME NEW N \in Nat, NEW each \in Nat, NEW all \in Nat, NEW length \in [0 .. (N - 1) -> Nat]
    PROVE  \E c : Spent(c, N, length, each, all)
<1>. DEFINE V == 0 .. all
            cut(n, u) == Least({length[n - 1], each, all - u})
            step == [x \in (1 .. N) \X V |-> x[2] + cut(x[1], x[2])]
<1>1. ASSUME NEW n \in 1 .. N, NEW u \in V PROVE u + cut(n, u) \in V
  <2>1. length[n - 1] \in Nat /\ all - u \in Nat
    BY <1>1
  <2>2. cut(n, u) \in {length[n - 1], each, all - u} /\ cut(n, u) <= all - u
    BY <2>1, LeastOfThree
  <2>3. cut(n, u) \in Nat
    BY <2>1, <2>2
  <2>. HIDE DEF cut
  <2>. QED
    BY <2>2, <2>3
<1>2. 0 \in V
  OBVIOUS
<1>3. step \in [(1 .. N) \X V -> V] /\ \A n \in 1 .. N, u \in V : step[<<n, u>>] = u + cut(n, u)
  <2>. HIDE DEF cut, V
  <2>. QED
    BY <1>1
<1>. HIDE DEF step, V
<1>4. PICK c : StepByStep(c, N, V, 0, step)
  BY <1>2, <1>3, RecursionExists
<1>5. c \in [0 .. N -> V] /\ c[0] = 0 /\ \A n \in 1 .. N : c[n] = step[<<n, c[n - 1]>>]
  BY <1>4 DEF StepByStep
<1>6. \A n \in 1 .. N : c[n] = c[n - 1] + cut(n, c[n - 1])
  <2>. SUFFICES ASSUME NEW n \in 1 .. N PROVE c[n] = c[n - 1] + cut(n, c[n - 1])
    OBVIOUS
  <2>1. c[n - 1] \in V
    BY <1>5
  <2>. HIDE DEF cut
  <2>. QED
    BY <1>3, <1>5, <2>1
<1>. QED
  BY <1>5, <1>6 DEF Spent, V

\* What has been spent only grows.
LEMMA SpentGrows ==
    ASSUME NEW N \in Nat, NEW each \in Nat, NEW all \in Nat, NEW length \in [0 .. (N - 1) -> Nat],
           NEW c, Spent(c, N, length, each, all)
    PROVE  /\ \A n \in 0 .. N : c[n] \in Nat /\ c[n] <= all
           /\ \A n \in 0 .. (N - 1) :
                /\ c[n + 1] - c[n] \in Nat /\ c[n + 1] - c[n] \in {length[n], each, all - c[n]}
                /\ c[n + 1] - c[n] <= length[n] /\ c[n + 1] - c[n] <= each /\ c[n] <= c[n + 1]
           /\ \A m, n \in 0 .. N : m <= n => c[m] <= c[n]
<1>1. \A n \in 0 .. N : c[n] \in 0 .. all
  BY DEF Spent
<1>2. \A n \in 0 .. N : c[n] \in Nat /\ c[n] <= all /\ all - c[n] \in Nat
  BY <1>1
<1>3. ASSUME NEW n \in 0 .. (N - 1)
      PROVE  /\ c[n + 1] - c[n] \in Nat /\ c[n + 1] - c[n] \in {length[n], each, all - c[n]}
             /\ c[n + 1] - c[n] <= length[n] /\ c[n + 1] - c[n] <= each /\ c[n] <= c[n + 1]
  <2>1. n + 1 \in 1 .. N /\ (n + 1) - 1 = n /\ n \in 0 .. N /\ n + 1 \in 0 .. N
    OBVIOUS
  <2>2. c[n + 1] = c[n] + Least({length[n], each, all - c[n]})
    BY <2>1 DEF Spent
  <2>3. PICK a \in Nat, b \in Nat : a = length[n] /\ b = all - c[n]
    BY <1>2, <2>1
  <2>4. PICK l : l = Least({a, each, b})
    OBVIOUS
  <2>5. l \in {a, each, b} /\ l <= a /\ l <= each
    BY <2>4, LeastOfThree
  <2>6. c[n] \in Nat /\ c[n + 1] = c[n] + l
    BY <1>2, <2>1, <2>2, <2>3, <2>4
  <2>. QED
    BY <2>3, <2>5, <2>6
<1>4. ASSUME NEW m \in 0 .. N PROVE \A n \in m .. N : c[m] <= c[n]
  <2>. DEFINE less == {n \in m .. N : ~(c[m] <= c[n])}
  <2>. SUFFICES ASSUME less # {} PROVE FALSE
    OBVIOUS
  <2>1. PICK n \in less : \A x \in less : n <= x
    <3>1. less \subseteq Nat
      OBVIOUS
    <3>. HIDE DEF less
    <3>. QED
      BY <3>1, LeastOffset
  <2>2. n \in m .. N /\ n # m
    BY <1>2, <2>1
  <2>3. n - 1 \in m .. N /\ n - 1 \in 0 .. (N - 1) /\ n - 1 \notin less /\ (n - 1) + 1 = n
    BY <2>1, <2>2
  <2>4. c[m] <= c[n - 1] /\ c[n - 1] <= c[n]
    BY <1>3, <2>3
  <2>5. c[m] \in Nat /\ c[n - 1] \in Nat /\ c[n] \in Nat
    BY <1>2, <2>2, <2>3
  <2>. QED
    BY <2>1, <2>4, <2>5
<1>. QED
  BY <1>2, <1>3, <1>4

\* The lengths of the texts of segments, in their order.
Lengths(segments) == [o \in 0 .. (Cardinality(segments) - 1) |-> Len(SegmentAt(segments, o).text)]

LEMMA ConsumedIsSpent ==
    ASSUME NEW segments, NEW N \in Nat, N = Cardinality(segments),
           Lengths(segments) \in [0 .. (N - 1) -> Nat],
           NEW config, NEW each \in Nat, NEW all \in Nat,
           each = config.maxCharsPerSegment, all = config.maxTotalChars
    PROVE  Spent(Consumed(segments, config), N, Lengths(segments), each, all)
<1>. DEFINE length == Lengths(segments)
            Unrolled(f) == [n \in 0 .. N |->
                IF n = 0 THEN 0
                ELSE f[n - 1] + Least({Len(SegmentAt(segments, n - 1).text), each, all - f[n - 1]})]
            d == Consumed(segments, config)
<1>1. PICK c : Spent(c, N, length, each, all)
  BY SpentExists
<1>2. \A n \in 1 .. N : length[n - 1] = Len(SegmentAt(segments, n - 1).text)
  BY DEF Lengths
<1>3. c = Unrolled(c)
  <2>1. c \in [0 .. N -> 0 .. all] /\ c[0] = 0
    BY <1>1 DEF Spent
  <2>2. \A n \in 1 .. N : c[n] = c[n - 1] + Least({Len(SegmentAt(segments, n - 1).text), each, all - c[n - 1]})
    BY <1>1, <1>2 DEF Spent
  <2>3. \A n \in 0 .. N : c[n] = Unrolled(c)[n]
    BY <2>1, <2>2
  <2>. QED
    BY <2>1, <2>3
<1>4. d = CHOOSE f : f = Unrolled(f)
  BY DEF Consumed
<1>. HIDE DEF d
<1>5. d = Unrolled(d)
  <2>. HIDE DEF Unrolled
  <2>. QED
    BY <1>3, <1>4
<1>6. d = c
  <2>. DEFINE wrong == {n \in 0 .. N : d[n] # c[n]}
  <2>0. c \in [0 .. N -> 0 .. all] /\ DOMAIN d = 0 .. N
    BY <1>1, <1>5 DEF Spent
  <2>1. wrong = {}
    <3>. SUFFICES ASSUME wrong # {} PROVE FALSE
      OBVIOUS
    <3>1. PICK n \in wrong : \A x \in wrong : n <= x
      <4>1. wrong \subseteq Nat
        OBVIOUS
      <4>. HIDE DEF wrong
      <4>. QED
        BY <4>1, LeastOffset
    <3>2. n # 0
      <4>1. d[0] = 0 /\ c[0] = 0
        BY <1>3, <1>5
      <4>. QED
        BY <3>1, <4>1
    <3>3. n \in 0 .. N /\ n - 1 \in 0 .. N /\ n - 1 \notin wrong
      BY <3>1, <3>2
    <3>4. d[n - 1] = c[n - 1]
      BY <3>3
    <3>5. d[n] = Unrolled(d)[n] /\ c[n] = Unrolled(c)[n]
      BY <1>3, <1>5
    <3>6. d[n] = c[n]
      BY <3>2, <3>3, <3>4, <3>5
    <3>. QED
      BY <3>1, <3>6
  <2>2. \A n \in 0 .. N : d[n] = c[n]
    BY <2>1
  <2>3. d = [n \in 0 .. N |-> d[n]]
    BY <1>5, <2>0
  <2>. QED
    BY <2>0, <2>2, <2>3
<1>. QED
  BY <1>1, <1>6 DEF d

\* The characters of texts, each in its place.
Characters(views) == UNION {{<<v.segment, k>> : k \in DOMAIN v.text} : v \in views}

\* Counts that only grow, up to a limit.
Growing(c, N, all) ==
    /\ \A n \in 0 .. N : c[n] \in Nat /\ c[n] <= all
    /\ \A i, j \in 0 .. N : i <= j => c[i] <= c[j]

\* Views of different segments, each as long as what was spent on it.
TakeUp(V, c, m) ==
    /\ \A o \in 0 .. (m - 1) : DOMAIN V[o].text = 1 .. (c[o + 1] - c[o])
    /\ \A i, j \in 0 .. (m - 1) : V[i].segment = V[j].segment => i = j

\* Texts that take up c[o + 1] - c[o] each have c[m] characters in all.
LEMMA CharactersCounted ==
    ASSUME NEW m \in Nat, NEW c, c[0] = 0, NEW all, Growing(c, m, all), NEW V, TakeUp(V, c, m)
    PROVE  Cardinality(Characters({V[o] : o \in 0 .. (m - 1)})) = c[m]
<1>. USE DEF Growing, TakeUp
<1>. DEFINE S       == Characters({V[o] : o \in 0 .. (m - 1)})
            In(p, o) == c[o] < p /\ p <= c[o + 1]
            at(p)   == CHOOSE o \in 0 .. (m - 1) : In(p, o)
            f       == [p \in 1 .. c[m] |-> <<V[at(p)].segment, p - c[at(p)]>>]
<1>1. \A x : x \in S <=> \E o \in 0 .. (m - 1) : \E k \in 1 .. (c[o + 1] - c[o]) : x = <<V[o].segment, k>>
  <2>. DEFINE of(v) == {<<v.segment, k>> : k \in DOMAIN v.text}
              views == {V[o] : o \in 0 .. (m - 1)}
  <2>1. S = UNION {of(v) : v \in views}
    BY DEF Characters
  <2>2. \A o \in 0 .. (m - 1) : \A x :
          x \in of(V[o]) <=> \E k \in 1 .. (c[o + 1] - c[o]) : x = <<V[o].segment, k>>
    OBVIOUS
  <2>3. \A v : v \in views <=> \E o \in 0 .. (m - 1) : v = V[o]
    OBVIOUS
  <2>. HIDE DEF of, views
  <2>4. \A x : x \in S <=> \E v \in views : x \in of(v)
    <3>. HIDE DEF S
    <3>. QED
      BY <2>1, Zenon
  <2>. HIDE DEF S
  <2>. SUFFICES ASSUME NEW x
                PROVE  x \in S <=> \E o \in 0 .. (m - 1) : \E k \in 1 .. (c[o + 1] - c[o]) :
                                      x = <<V[o].segment, k>>
    OBVIOUS
  <2>5. x \in S <=> \E o \in 0 .. (m - 1) : x \in of(V[o])
    BY <2>3, <2>4, Zenon
  <2>. QED
    BY <2>2, <2>5, Zenon
<1>2. \A o \in 0 .. (m - 1) : o \in 0 .. m /\ o + 1 \in 0 .. m /\ c[o] \in Nat /\ c[o + 1] \in Nat
  OBVIOUS
<1>3. c[m] \in Nat
  OBVIOUS
<1>4. ASSUME NEW p \in 1 .. c[m] PROVE at(p) \in 0 .. (m - 1) /\ In(p, at(p))
  <2>. DEFINE reach == {n \in 0 .. m : p <= c[n]}
  <2>1. PICK n \in reach : \A x \in reach : n <= x
    <3>1. m \in reach /\ reach \subseteq Nat
      BY <1>3
    <3>. HIDE DEF reach
    <3>. QED
      BY <3>1, LeastOffset
  <2>2. n # 0
    BY <1>3, <2>1
  <2>3. n - 1 \in 0 .. m /\ n - 1 \in 0 .. (m - 1) /\ n - 1 \notin reach /\ (n - 1) + 1 = n
    BY <2>1, <2>2
  <2>4. c[n - 1] < p /\ p <= c[n]
    BY <1>2, <1>3, <2>1, <2>3
  <2>5. \E o \in 0 .. (m - 1) : In(p, o)
    BY <2>3, <2>4
  <2>. HIDE DEF In
  <2>. QED
    BY <2>5
<1>5. ASSUME NEW p \in Nat, NEW o \in 0 .. (m - 1), NEW q \in 0 .. (m - 1), In(p, o), In(p, q)
      PROVE  ~(o < q)
  <2>. SUFFICES ASSUME o < q PROVE FALSE
    OBVIOUS
  <2>1. o + 1 \in 0 .. m /\ q \in 0 .. m /\ o + 1 <= q
    OBVIOUS
  <2>2. c[o + 1] <= c[q]
    BY <2>1
  <2>3. c[o + 1] \in Nat /\ c[q] \in Nat
    BY <1>2
  <2>. QED
    BY <1>5, <2>2, <2>3
<1>6. ASSUME NEW p \in Nat, NEW o \in 0 .. (m - 1), NEW q \in 0 .. (m - 1), In(p, o), In(p, q)
      PROVE  o = q
  <2>1. ~(o < q) /\ ~(q < o)
    BY <1>5, <1>6
  <2>. QED
    BY <2>1
<1>. HIDE DEF at, S
<1>7. f \in [1 .. c[m] -> S]
  <2>. SUFFICES ASSUME NEW p \in 1 .. c[m] PROVE <<V[at(p)].segment, p - c[at(p)]>> \in S
    OBVIOUS
  <2>1. PICK o \in 0 .. (m - 1) : o = at(p) /\ c[o] < p /\ p <= c[o + 1]
    BY <1>4
  <2>2. p - c[o] \in 1 .. (c[o + 1] - c[o])
    BY <1>2, <1>3, <2>1
  <2>. QED
    BY <1>1, <2>1, <2>2
<1>8. \A x \in S : \E p \in 1 .. c[m] : f[p] = x
  <2>. SUFFICES ASSUME NEW x \in S PROVE \E p \in 1 .. c[m] : f[p] = x
    OBVIOUS
  <2>1. PICK o \in 0 .. (m - 1) : \E k \in 1 .. (c[o + 1] - c[o]) : x = <<V[o].segment, k>>
    BY <1>1
  <2>2. PICK k \in 1 .. (c[o + 1] - c[o]) : x = <<V[o].segment, k>>
    BY <2>1
  <2>3. c[o] \in Nat /\ c[o + 1] \in Nat /\ c[o + 1] <= c[m]
    <3>1. o + 1 \in 0 .. m /\ m \in 0 .. m /\ o + 1 <= m
      OBVIOUS
    <3>2. c[o + 1] <= c[m]
      BY <3>1
    <3>. QED
      BY <1>2, <3>2
  <2>4. PICK p \in Nat : p = c[o] + k
    BY <2>3
  <2>5. p \in 1 .. c[m] /\ In(p, o) /\ p - c[o] = k
    BY <1>3, <2>3, <2>4
  <2>6. at(p) = o
    BY <1>4, <1>6, <2>5
  <2>. QED
    BY <2>2, <2>5, <2>6
<1>9. ASSUME NEW p \in 1 .. c[m], NEW q \in 1 .. c[m], f[p] = f[q] PROVE p = q
  <2>1. PICK i \in 0 .. (m - 1), j \in 0 .. (m - 1) : i = at(p) /\ j = at(q)
    BY <1>4
  <2>2. <<V[i].segment, p - c[i]>> = <<V[j].segment, q - c[j]>>
    BY <1>9, <2>1
  <2>3. V[i].segment = V[j].segment /\ p - c[i] = q - c[j]
    BY <2>2, Tuples
  <2>4. i = j
    BY <2>3
  <2>5. c[i] \in Nat
    BY <1>2
  <2>. QED
    BY <2>3, <2>4, <2>5
<1>10. PICK n \in Nat : n = c[m]
  BY <1>3
<1>. HIDE DEF f
<1>11. Cardinality(S) = n
  BY <1>7, <1>8, <1>9, <1>10, ListCounts
<1>. QED
  BY <1>10, <1>11 DEF S

\* What a model sees of the segment of an ordinal.
Visible(segments, c, o) == Slice(SegmentAt(segments, o).text, 0, c[o + 1] - c[o])
View(segments, c, o) ==
    [segment   |-> SegmentAt(segments, o).id,
     text      |-> Visible(segments, c, o),
     truncated |-> Len(Visible(segments, c, o)) < Len(SegmentAt(segments, o).text)]

\* Segments are listed by their ordinals.
Listed(segments, N) ==
    /\ \A o \in 0 .. (N - 1) : SegmentAt(segments, o) \in segments /\ SegmentAt(segments, o).ordinal = o
    /\ \A s \in segments : s.ordinal \in 0 .. (N - 1) /\ s = SegmentAt(segments, s.ordinal)

LEMMA SegmentsListed ==
    ASSUME NEW segments, NEW N \in Nat, {s.ordinal : s \in segments} = 0 .. (N - 1),
           \A s, t \in segments : s.ordinal = t.ordinal => s = t
    PROVE  Listed(segments, N)
<1>1. ASSUME NEW o \in 0 .. (N - 1) PROVE SegmentAt(segments, o) \in segments /\ SegmentAt(segments, o).ordinal = o
  <2>1. \E s \in segments : s.ordinal = o
    <3>1. o \in {s.ordinal : s \in segments}
      OBVIOUS
    <3>. QED
      BY <3>1
  <2>. QED
    BY <2>1 DEF SegmentAt
<1>2. \A s \in segments : s.ordinal \in 0 .. (N - 1)
  OBVIOUS
<1>. QED
  BY <1>1, <1>2 DEF Listed

\* The segments shown are the first ones: as many as the limit on their number
\* and the budget allow.
InBudget(segments, most, all, c) == {s \in segments : s.ordinal < most /\ c[s.ordinal] < all}
First(segments, N, most, all, c, included, m) ==
    /\ included = {SegmentAt(segments, o) : o \in 0 .. (m - 1)}
    /\ m <= most /\ Cardinality(included) = m
    /\ m < N => m = most \/ c[m] = all
    /\ \A o \in 0 .. (m - 1) : c[o] < all

LEMMA FirstShown ==
    ASSUME NEW segments, NEW N \in Nat, Listed(segments, N), NEW most \in Nat, NEW all \in Nat,
           NEW c, Growing(c, N, all), NEW included, included = InBudget(segments, most, all, c)
    PROVE  \E m \in 0 .. N : First(segments, N, most, all, c, included, m)
<1>. USE DEF Growing, InBudget, First
<1>. DEFINE stop == {o \in 0 .. N : o = N \/ ~(o < most /\ c[o] < all)}
<1>1. PICK m \in stop : \A o \in stop : m <= o
  <2>1. N \in stop /\ stop \subseteq Nat
    OBVIOUS
  <2>. HIDE DEF stop
  <2>. QED
    BY <2>1, LeastOffset
<1>2. m \in 0 .. N /\ m \in Nat /\ (m = N \/ ~(m < most /\ c[m] < all))
  BY <1>1
<1>3. \A o \in 0 .. (m - 1) : o \in 0 .. N /\ o < most /\ c[o] < all
  BY <1>1, <1>2
<1>4. m <= most
  <2>. SUFFICES ASSUME m > most PROVE FALSE
    BY <1>2
  <2>1. most \in stop
    BY <1>2
  <2>. QED
    BY <1>1, <1>2, <2>1
<1>5. m < N => m = most \/ c[m] = all
  BY <1>2, <1>4
<1>6. included = {SegmentAt(segments, o) : o \in 0 .. (m - 1)}
  <2>1. ASSUME NEW o \in 0 .. (m - 1) PROVE SegmentAt(segments, o) \in included
    <3>1. o \in 0 .. (N - 1)
      BY <1>2
    <3>. QED
      BY <1>3, <3>1 DEF Listed
  <2>2. ASSUME NEW s \in included PROVE \E o \in 0 .. (m - 1) : s = SegmentAt(segments, o)
    <3>1. PICK o \in 0 .. (N - 1) : o = s.ordinal /\ s = SegmentAt(segments, o)
      BY DEF Listed
    <3>2. o < most /\ c[o] < all
      BY <3>1
    <3>3. o < m
      <4>. SUFFICES ASSUME o >= m PROVE FALSE
        BY <1>2
      <4>1. m < N
        BY <1>2
      <4>2. c[m] <= c[o] /\ c[m] \in Nat /\ c[o] \in Nat /\ c[m] <= all
        BY <1>2, <4>1
      <4>. QED
        BY <1>2, <3>2, <4>1, <4>2
    <3>. QED
      BY <1>2, <3>1, <3>3
  <2>. QED
    BY <2>1, <2>2
<1>7. Cardinality(included) = m
  <2>. DEFINE f == [i \in 1 .. m |-> SegmentAt(segments, i - 1)]
  <2>1. \A i \in 1 .. m : i - 1 \in 0 .. (m - 1) /\ i - 1 \in 0 .. (N - 1)
    BY <1>2
  <2>2. f \in [1 .. m -> included]
    BY <1>6, <2>1
  <2>3. \A s \in included : \E i \in 1 .. m : f[i] = s
    <3>. SUFFICES ASSUME NEW s \in included PROVE \E i \in 1 .. m : f[i] = s
      OBVIOUS
    <3>1. PICK o \in 0 .. (m - 1) : s = SegmentAt(segments, o)
      BY <1>6
    <3>2. o + 1 \in 1 .. m /\ (o + 1) - 1 = o
      BY <1>2
    <3>. QED
      BY <3>1, <3>2
  <2>4. \A i, j \in 1 .. m : f[i] = f[j] => i = j
    <3>1. \A i \in 1 .. m : f[i].ordinal = i - 1
      BY <2>1 DEF Listed
    <3>. QED
      BY <3>1
  <2>. HIDE DEF f
  <2>. QED
    BY <1>2, <2>2, <2>3, <2>4, ListCounts
<1>. QED
  BY <1>2, <1>3, <1>4, <1>5, <1>6, <1>7

-----------------------------------------------------------------------------
(* Texts joined. *)

\* What sequences amount to one after the other, up to each of them.
Accumulates(c, seqs, S) ==
    /\ c \in [0 .. Len(seqs) -> Seq(S)] /\ c[0] = << >>
    /\ \A n \in 1 .. Len(seqs) : c[n] = c[n - 1] \o seqs[n]

LEMMA AccumulationExists ==
    ASSUME NEW S, NEW seqs \in Seq(Seq(S))
    PROVE  \E c : Accumulates(c, seqs, S)
<1>. DEFINE n    == Len(seqs)
            V    == Seq(S)
            step == [x \in (1 .. n) \X V |-> x[2] \o seqs[x[1]]]
<1>1. n \in Nat /\ \A i \in 1 .. n : seqs[i] \in V
  OBVIOUS
<1>2. \A i \in 1 .. n, u \in V : u \o seqs[i] \in V
  BY <1>1
<1>3. << >> \in V
  OBVIOUS
<1>. HIDE DEF n, V
<1>4. step \in [(1 .. n) \X V -> V] /\ \A i \in 1 .. n, u \in V : step[<<i, u>>] = u \o seqs[i]
  BY <1>2
<1>. HIDE DEF step
<1>5. PICK none : none = << >>
  OBVIOUS
<1>6. none \in V
  BY <1>3, <1>5
<1>7. PICK c : StepByStep(c, n, V, none, step)
  BY <1>1, <1>4, <1>6, RecursionExists
<1>8. c \in [0 .. n -> V] /\ c[0] = none /\ \A i \in 1 .. n : c[i] = step[<<i, c[i - 1]>>]
  BY <1>7 DEF StepByStep
<1>9. ASSUME NEW i \in 1 .. n PROVE c[i] = c[i - 1] \o seqs[i]
  <2>1. c[i - 1] \in V
    BY <1>1, <1>8
  <2>. QED
    BY <1>4, <1>8, <2>1
<1>10. Accumulates(c, seqs, S)
  BY <1>5, <1>8, <1>9 DEF Accumulates, n, V
<1>. QED
  BY <1>10

\* Joining sequences gives the last of these.
LEMMA FlattenIs ==
    ASSUME NEW S, NEW seqs \in Seq(Seq(S)), NEW c, Accumulates(c, seqs, S)
    PROVE  FlattenSeq(seqs) = c[Len(seqs)] /\ FlattenSeq(seqs) \in Seq(S)
<1>. DEFINE n    == Len(seqs)
            Unrolled(f) == [i \in 1 .. n |-> IF i = 1 THEN seqs[i] ELSE f[i - 1] \o seqs[i]]
            d    == CHOOSE f : f = Unrolled(f)
            g    == [i \in 1 .. n |-> c[i]]
<1>0. /\ n \in Nat /\ \A i \in 1 .. n : seqs[i] \in Seq(S)
      /\ c \in [0 .. n -> Seq(S)] /\ c[0] = << >> /\ \A i \in 1 .. n : c[i] = c[i - 1] \o seqs[i]
  <2>1. n \in Nat /\ \A i \in 1 .. n : seqs[i] \in Seq(S)
    OBVIOUS
  <2>. QED
    BY <2>1 DEF Accumulates
<1>1. CASE n = 0
  <2>1. FlattenSeq(seqs) = seqs /\ seqs = << >>
    BY <1>1 DEF FlattenSeq
  <2>. QED
    BY <1>0, <1>1, <2>1
<1>2. CASE n # 0
  <2>1. FlattenSeq(seqs) = d[n]
    BY <1>2 DEF FlattenSeq
  <2>2. g = Unrolled(g)
    <3>1. \A i \in 1 .. n : g[i] = IF i = 1 THEN seqs[i] ELSE g[i - 1] \o seqs[i]
      <4>. SUFFICES ASSUME NEW i \in 1 .. n PROVE g[i] = IF i = 1 THEN seqs[i] ELSE g[i - 1] \o seqs[i]
        OBVIOUS
      <4>1. CASE i = 1
        <5>1. c[1] = << >> \o seqs[1]
          <6>1. 1 \in 1 .. n /\ 1 - 1 = 0
            BY <1>0, <1>2
          <6>. QED
            BY <1>0, <6>1
        <5>2. seqs[1] \in Seq(S)
          BY <1>0, <4>1
        <5>3. << >> \o seqs[1] = seqs[1]
          BY <5>2
        <5>. QED
          BY <4>1, <5>1, <5>3
      <4>2. CASE i # 1
        <5>1. i - 1 \in 1 .. n
          BY <1>0, <4>2
        <5>. QED
          BY <1>0, <4>2, <5>1
      <4>. QED
        BY <4>1, <4>2
    <3>. QED
      BY <3>1
  <2>3. d = Unrolled(d)
    <3>. HIDE DEF Unrolled, g
    <3>. QED
      BY <2>2
  <2>. HIDE DEF d, g
  <2>4. \A i \in 1 .. n : d[i] = c[i]
    <3>. DEFINE wrong == {i \in 1 .. n : d[i] # c[i]}
    <3>. SUFFICES ASSUME wrong # {} PROVE FALSE
      OBVIOUS
    <3>1. PICK i \in wrong : \A x \in wrong : i <= x
      <4>1. wrong \subseteq Nat
        OBVIOUS
      <4>. HIDE DEF wrong
      <4>. QED
        BY <4>1, LeastOffset
    <3>2. i \in 1 .. n /\ i \in Nat
      BY <1>0, <3>1
    <3>3. g[i] = c[i] /\ d[i] = (IF i = 1 THEN seqs[i] ELSE d[i - 1] \o seqs[i])
          /\ g[i] = (IF i = 1 THEN seqs[i] ELSE g[i - 1] \o seqs[i])
      <4>1. g[i] = c[i]
        BY <3>2 DEF g
      <4>2. d[i] = Unrolled(d)[i] /\ g[i] = Unrolled(g)[i]
        BY <2>2, <2>3
      <4>3. \A f : Unrolled(f)[i] = (IF i = 1 THEN seqs[i] ELSE f[i - 1] \o seqs[i])
        BY <3>2
      <4>. QED
        BY <4>1, <4>2, <4>3
    <3>4. i # 1 => i - 1 \in 1 .. n /\ i - 1 \notin wrong
      <4>1. n \in Nat
        BY <1>0
      <4>2. i # 1 => i - 1 \in 1 .. n /\ ~(i <= i - 1)
        BY <3>2, <4>1
      <4>3. i - 1 \notin wrong \/ i <= i - 1
        BY <3>1
      <4>. QED
        BY <4>2, <4>3
    <3>5. i # 1 => d[i - 1] = c[i - 1] /\ g[i - 1] = c[i - 1]
      BY <3>4 DEF g
    <3>6. d[i] = c[i]
      BY <3>3, <3>5
    <3>. QED
      BY <3>1, <3>6
  <2>5. n \in 1 .. n /\ n \in 0 .. n
    BY <1>0, <1>2
  <2>. QED
    BY <1>0, <2>1, <2>4, <2>5
<1>. QED
  BY <1>0, <1>1, <1>2

\* What the parts of a text are made of, the text is.
LEMMA FlattenType ==
    ASSUME NEW S, NEW seqs \in Seq(Seq(S))
    PROVE  FlattenSeq(seqs) \in Seq(S)
BY AccumulationExists, FlattenIs

LEMMA StripType ==
    ASSUME NEW C, NEW text \in Seq(C)
    PROVE  Strip(text) \in Seq(C)
<1>. DEFINE spans == TrimmedSpan(text, 0, Len(text))
            span  == CHOOSE s \in spans : TRUE
<1>1. CASE spans = {}
  <2>1. Strip(text) = << >>
    BY <1>1 DEF Strip
  <2>. QED
    BY <2>1
<1>2. CASE spans # {}
  <2>1. span \in spans
    BY <1>2
  <2>2. span.start \in Nat /\ span.end \in Nat /\ span.start < span.end /\ span.end <= Len(text)
    BY <2>1, SpansInside
  <2>3. Strip(text) = Slice(text, span.start, span.end)
    BY <1>2 DEF Strip
  <2>4. PICK a \in Nat, n \in Nat : a = span.start /\ a + n = span.end
    <3>1. span.end - span.start \in Nat /\ span.start + (span.end - span.start) = span.end
      BY <2>2
    <3>. QED
      BY <2>2, <3>1
  <2>. HIDE DEF span
  <2>5. Slice(text, a, a + n) \in Seq(C)
    BY <2>2, <2>4, SliceInside
  <2>. QED
    BY <2>3, <2>4, <2>5
<1>. QED
  BY <1>1, <1>2

LEMMA OneMark ==
    ASSUME NEW C, Marks \subseteq C, NEW mark \in Marks
    PROVE  <<mark>> \in Seq(C) /\ Len(<<mark>>) = 1
OBVIOUS

LEMMA JoinType ==
    ASSUME NEW C, NEW a \in Seq(C), NEW b \in Seq(C)
    PROVE  a \o b \in Seq(C) /\ Len(a \o b) = Len(a) + Len(b)
OBVIOUS

LEMMA RenderedType ==
    ASSUME NEW C, Marks \subseteq C, NEW headers \in Seq(Seq(C)), NEW cells \in Seq(Seq(C)),
           Len(cells) = Len(headers)
    PROVE  RenderedRow(headers, cells) \in Seq(C) /\ RenderedRow(headers, cells) # << >>
<1>. DEFINE part(i) == (IF i = 1 THEN << >> ELSE <<",">>) \o headers[i] \o <<":">> \o cells[i]
            parts   == [i \in DOMAIN headers |-> part(i)]
<1>1. ASSUME NEW i \in 1 .. Len(headers) PROVE part(i) \in Seq(C)
  <2>1. headers[i] \in Seq(C) /\ cells[i] \in Seq(C)
    BY <1>1
  <2>2. PICK comma \in Seq(C), colon \in Seq(C) : comma = <<",">> /\ colon = <<":">>
    <3>1. "," \in Marks /\ ":" \in Marks
      BY DEF Marks
    <3>2. <<",">> \in Seq(C)
      BY <3>1, OneMark, Zenon
    <3>3. <<":">> \in Seq(C)
      BY <3>1, OneMark, Zenon
    <3>. QED
      BY <3>2, <3>3, Zenon
  <2>3. PICK x \in Seq(C) : x = IF i = 1 THEN << >> ELSE comma
    <3>1. << >> \in Seq(C)
      OBVIOUS
    <3>. QED
      BY <3>1
  <2>4. x \o headers[i] \in Seq(C)
    BY <2>1, JoinType, Zenon
  <2>5. x \o headers[i] \o colon \in Seq(C)
    BY <2>4, JoinType, Zenon
  <2>6. x \o headers[i] \o colon \o cells[i] \in Seq(C)
    BY <2>1, <2>5, JoinType, Zenon
  <2>. QED
    BY <2>2, <2>3, <2>6
<1>. HIDE DEF part
<1>2. parts \in Seq(Seq(C))
  <2>1. DOMAIN headers = 1 .. Len(headers) /\ Len(headers) \in Nat
    OBVIOUS
  <2>. QED
    BY <1>1, <2>1
<1>. HIDE DEF parts
<1>3. PICK row \in Seq(C) : row = FlattenSeq(parts)
  BY <1>2, FlattenType
<1>4. PICK left \in Seq(C), right \in Seq(C) :
        left = <<"{">> /\ right = <<"}">> /\ Len(left) = 1 /\ Len(right) = 1
  <2>1. "{" \in Marks /\ "}" \in Marks
    BY DEF Marks
  <2>2. <<"{">> \in Seq(C) /\ Len(<<"{">>) = 1
    BY <2>1, OneMark, Zenon
  <2>3. <<"}">> \in Seq(C) /\ Len(<<"}">>) = 1
    BY <2>1, OneMark, Zenon
  <2>. QED
    BY <2>2, <2>3, Zenon
<1>5. RenderedRow(headers, cells) = left \o row \o right
  BY <1>3, <1>4 DEF RenderedRow, parts, part
<1>6. PICK opened \in Seq(C) : opened = left \o row /\ Len(opened) = Len(left) + Len(row)
  BY JoinType, Zenon
<1>7. opened \o right \in Seq(C) /\ Len(opened \o right) = Len(opened) + Len(right)
  BY JoinType, Zenon
<1>8. PICK whole \in Seq(C) : whole = RenderedRow(headers, cells) /\ Len(whole) = Len(opened) + 1
  BY <1>4, <1>5, <1>6, <1>7, Zenon
<1>9. Len(opened) \in Nat /\ Len(whole) > 0
  BY <1>8
<1>10. whole # << >>
  BY <1>9
<1>. QED
  BY <1>8, <1>10

\* A segment is a text like its document's, and says something.
LEMMA SegmentTexts ==
    ASSUME NEW document, NEW library, NEW C, Readable(document, library, C), Marks \subseteq C,
           NEW s \in SegmentsOf(document, library)
    PROVE  s.text \in Seq(C) /\ s.text # << >>
<1>0. /\ document.text \in Seq(C) /\ document.rows \in Seq([ok : BOOLEAN, cells : Seq(Seq(C))])
      /\ document.pages[library] \in Seq(Seq(C)) /\ Parses(document)
  BY DEF Readable
<1>1. ASSUME NEW text \in Seq(C), NEW from \in Nat, NEW to \in Nat, from < to, to <= Len(text)
      PROVE  Slice(text, from, to) \in Seq(C) /\ Slice(text, from, to) # << >>
  <2>1. PICK n \in Nat : to = from + n /\ n > 0
    <3>1. to - from \in Nat /\ to = from + (to - from)
      BY <1>1
    <3>. QED
      BY <1>1, <3>1
  <2>2. Slice(text, from, from + n) \in Seq(C) /\ Len(Slice(text, from, from + n)) = n
    BY <1>1, <2>1, SliceInside
  <2>. QED
    BY <2>1, <2>2
<1>2. CASE s \in TextSegments(document)
  <2>1. PICK from, to : /\ from \in Nat /\ to \in Nat /\ from < to /\ to <= Len(document.text)
                        /\ s.text = Slice(document.text, from, to)
    <3>1. PICK from, to : from = s.locator.start /\ to = s.locator.end
      OBVIOUS
    <3>2. /\ from \in Nat /\ to \in Nat /\ from < to /\ to <= Len(document.text)
          /\ s.text = Slice(document.text, from, to)
      BY <1>0, <1>2, <3>1, TextSegmentShape
    <3>. QED
      BY <3>2
  <2>2. PICK text \in Seq(C) : text = document.text
    BY <1>0
  <2>. QED
    BY <1>1, <2>1, <2>2
<1>3. CASE s \in PdfSegments(document, library)
  <2>1. PICK k \in DOMAIN document.pages[library] :
          \E span \in TrimmedSpan(document.pages[library][k], 0, Len(document.pages[library][k])) :
               /\ s.id = <<k>>
               /\ s.text = Slice(document.pages[library][k], span.start, span.end)
               /\ s.locator = Locator(document, "pdf", <<k>>,
                                      [number |-> k, page |-> document.pages[library][k]],
                                      span.start, span.end, s.text)
    BY <1>3, PdfSegmentShape
  <2>2. PICK page \in Seq(C) : page = document.pages[library][k]
    BY <1>0
  <2>3. PICK span \in TrimmedSpan(page, 0, Len(page)) : s.text = Slice(page, span.start, span.end)
    BY <2>1, <2>2
  <2>4. span.start \in Nat /\ span.end \in Nat /\ span.start < span.end /\ span.end <= Len(page)
    BY SpansInside
  <2>. QED
    BY <1>1, <2>3, <2>4
<1>4. CASE SegmentsOf(document, library) = CsvSegments(document) /\ ParserFor(document) = "csv"
  <2>a. PICK R : R = [ok : BOOLEAN, cells : Seq(Seq(C))]
    OBVIOUS
  <2>b. PICK rows \in Seq(R) : rows = document.rows
    BY <1>0, <2>a
  <2>1. PICK k \in DataRows(document) : s = CsvAt(document, k)
    BY <1>0, <1>4, CsvNumbered DEF Numbered
  <2>2. s.text = RenderedRow(Headers(document), document.rows[k].cells)
    BY <2>1 DEF CsvAt, Segment
  <2>3. k \in 1 .. Len(rows) /\ 1 \in 1 .. Len(rows) /\ rows # << >>
    BY <2>b DEF DataRows
  <2>4. rows[k] \in R /\ rows[1] \in R
    BY <2>3
  <2>5. PICK cells \in Seq(Seq(C)), names \in Seq(Seq(C)) :
          cells = document.rows[k].cells /\ names = document.rows[1].cells
    BY <2>a, <2>b, <2>4
  <2>6. CsvParses(document)
    BY <1>0, <1>4 DEF Parses
  <2>7. PICK headers : headers = Headers(document)
    OBVIOUS
  <2>8. Len(cells) = Len(headers)
    BY <2>b, <2>1, <2>3, <2>5, <2>6, <2>7 DEF CsvParses
  <2>9. headers = [i \in DOMAIN names |-> Strip(names[i])]
    BY <2>5, <2>7 DEF Headers
  <2>10. headers \in Seq(Seq(C))
    <3>1. DOMAIN names = 1 .. Len(names) /\ Len(names) \in Nat
      OBVIOUS
    <3>2. \A i \in 1 .. Len(names) : Strip(names[i]) \in Seq(C)
      BY StripType
    <3>. QED
      BY <2>9, <3>1, <3>2
  <2>11. RenderedRow(headers, cells) \in Seq(C) /\ RenderedRow(headers, cells) # << >>
    BY <2>8, <2>10, RenderedType
  <2>. QED
    BY <2>2, <2>5, <2>7, <2>11
<1>. QED
  BY <1>0, <1>2, <1>3, <1>4, ThreeParsers

-----------------------------------------------------------------------------
(* What a model is shown. *)

\* The texts of segments are listed, and say something.
Texts(segments, N, C) ==
    /\ Listed(segments, N)
    /\ \A o \in 0 .. (N - 1) : SegmentAt(segments, o).text \in Seq(C) /\ SegmentAt(segments, o).text # << >>

LEMMA LengthsType ==
    ASSUME NEW C, NEW segments, NEW N \in Nat, N = Cardinality(segments), Texts(segments, N, C)
    PROVE  /\ Lengths(segments) \in [0 .. (N - 1) -> Nat]
           /\ \A o \in 0 .. (N - 1) : Lengths(segments)[o] > 0
<1>1. ASSUME NEW o \in 0 .. (N - 1)
      PROVE  Len(SegmentAt(segments, o).text) \in Nat /\ Len(SegmentAt(segments, o).text) > 0
  <2>1. PICK text \in Seq(C) : text = SegmentAt(segments, o).text /\ text # << >>
    BY DEF Texts
  <2>2. Len(text) \in Nat /\ Len(text) > 0
    BY <2>1
  <2>. QED
    BY <2>1, <2>2
<1>. QED
  BY <1>1 DEF Lengths

\* The payload has the first segments, as much of each as the budget allows.
Shows(segments, config, N, c, m) ==
    /\ ContextPayload(segments, config).segments = {View(segments, c, o) : o \in 0 .. (m - 1)}
    /\ ContextPayload(segments, config).omitted = N - m
    /\ Spent(c, N, Lengths(segments), config.maxCharsPerSegment, config.maxTotalChars)
    /\ m <= config.maxSegments
    /\ m < N => m = config.maxSegments \/ c[m] = config.maxTotalChars
    /\ \A o \in 0 .. (m - 1) : c[o] < config.maxTotalChars

LEMMA PayloadShows ==
    ASSUME NEW C, NEW segments, NEW N \in Nat, N = Cardinality(segments), Texts(segments, N, C),
           NEW config, config.maxSegments \in Nat, config.maxCharsPerSegment \in Nat,
           config.maxTotalChars \in Nat
    PROVE  \E m \in 0 .. N : \E c : Shows(segments, config, N, c, m)
<1>. DEFINE included == {s \in segments : /\ s.ordinal < config.maxSegments
                                         /\ Consumed(segments, config)[s.ordinal] < config.maxTotalChars}
            Seen(s)  == Slice(s.text, 0, Consumed(segments, config)[s.ordinal + 1]
                                         - Consumed(segments, config)[s.ordinal])
            seen(s)  == [segment |-> s.id, text |-> Seen(s), truncated |-> Len(Seen(s)) < Len(s.text)]
<1>1. PICK most \in Nat, each \in Nat, all \in Nat :
        most = config.maxSegments /\ each = config.maxCharsPerSegment /\ all = config.maxTotalChars
  OBVIOUS
<1>2. PICK c : c = Consumed(segments, config)
  OBVIOUS
<1>3. Lengths(segments) \in [0 .. (N - 1) -> Nat]
  BY LengthsType
<1>4. Spent(c, N, Lengths(segments), each, all)
  BY <1>1, <1>2, <1>3, ConsumedIsSpent
<1>5. /\ \A n \in 0 .. N : c[n] \in Nat /\ c[n] <= all
      /\ \A i, j \in 0 .. N : i <= j => c[i] <= c[j]
  <2>1. PICK length \in [0 .. (N - 1) -> Nat] : length = Lengths(segments)
    BY <1>3
  <2>. QED
    BY <1>4, <2>1, SpentGrows
<1>7. Listed(segments, N)
  BY DEF Texts
<1>8. PICK chosen : chosen = included
  OBVIOUS
<1>6. chosen = InBudget(segments, most, all, c)
  BY <1>1, <1>2, <1>8 DEF InBudget
<1>9. PICK m \in 0 .. N :
         /\ chosen = {SegmentAt(segments, o) : o \in 0 .. (m - 1)}
         /\ m <= most /\ Cardinality(chosen) = m
         /\ m < N => m = most \/ c[m] = all
         /\ \A o \in 0 .. (m - 1) : c[o] < all
  <2>1. Growing(c, N, all)
    BY <1>5 DEF Growing
  <2>2. PICK m \in 0 .. N : First(segments, N, most, all, c, chosen, m)
    BY <1>6, <1>7, <2>1, FirstShown
  <2>. QED
    BY <2>2 DEF First
<1>10. ContextPayload(segments, config) =
         [segments |-> {seen(s) : s \in included}, omitted |-> Cardinality(segments) - Cardinality(included)]
  BY DEF ContextPayload
<1>11. \A o \in 0 .. (m - 1) : seen(SegmentAt(segments, o)) = View(segments, c, o)
  <2>. SUFFICES ASSUME NEW o \in 0 .. (m - 1)
                PROVE  seen(SegmentAt(segments, o)) = View(segments, c, o)
    OBVIOUS
  <2>1. o \in 0 .. (N - 1)
    BY <1>9
  <2>2. SegmentAt(segments, o).ordinal = o
    BY <1>7, <2>1 DEF Listed
  <2>. QED
    BY <1>2, <2>2 DEF View, Visible
<1>12. {seen(s) : s \in included} = {View(segments, c, o) : o \in 0 .. (m - 1)}
  <2>. HIDE DEF included, seen
  <2>. QED
    BY <1>8, <1>9, <1>11
<1>. HIDE DEF included, seen
<1>13. Shows(segments, config, N, c, m)
  <2>1. /\ ContextPayload(segments, config).segments = {seen(s) : s \in included}
        /\ ContextPayload(segments, config).omitted = Cardinality(segments) - Cardinality(included)
    BY <1>10
  <2>2. ContextPayload(segments, config).segments = {View(segments, c, o) : o \in 0 .. (m - 1)}
    BY <1>12, <2>1, Zenon
  <2>3. ContextPayload(segments, config).omitted = N - m
    BY <1>8, <1>9, <2>1
  <2>4. Spent(c, N, Lengths(segments), config.maxCharsPerSegment, config.maxTotalChars)
    BY <1>1, <1>4, Zenon
  <2>5. /\ m <= config.maxSegments
        /\ m < N => m = config.maxSegments \/ c[m] = config.maxTotalChars
        /\ \A o \in 0 .. (m - 1) : c[o] < config.maxTotalChars
    BY <1>1, <1>9
  <2>. QED
    BY <2>2, <2>3, <2>4, <2>5, Zenon DEF Shows
<1>. QED
  BY <1>13

\* A view of a segment: it is a beginning of its text, not empty, cut at a limit.
Beginning(view, s, n, each, ends, C) ==
    /\ view.segment = s.id /\ view.text \in Seq(C) /\ Len(view.text) = n
    /\ view.text # << >> /\ n <= each
    /\ IsPrefix(view.text, s.text)
    /\ view.truncated <=> view.text # s.text
    /\ view.truncated => n = each \/ ends

LEMMA ViewIs ==
    ASSUME NEW C, NEW segments, NEW N \in Nat, N = Cardinality(segments), Texts(segments, N, C),
           NEW each \in Nat \ {0}, NEW all \in Nat, NEW c, Spent(c, N, Lengths(segments), each, all),
           NEW o \in 0 .. (N - 1), c[o] < all
    PROVE  Beginning(View(segments, c, o), SegmentAt(segments, o), c[o + 1] - c[o], each, c[o + 1] = all, C)
<1>1. PICK text \in Seq(C) : text = SegmentAt(segments, o).text /\ text # << >>
  BY DEF Texts
<1>2. PICK length \in [0 .. (N - 1) -> Nat] : length = Lengths(segments) /\ length[o] > 0
  BY LengthsType
<1>3. length[o] = Len(text)
  BY <1>1, <1>2 DEF Lengths
<1>4. PICK n \in Nat : n = c[o + 1] - c[o]
  BY <1>2, SpentGrows
<1>5. n \in {length[o], each, all - c[o]} /\ n <= length[o] /\ n <= each /\ c[o] \in Nat /\ c[o + 1] \in Nat
  <2>1. o \in 0 .. N /\ o + 1 \in 0 .. N
    OBVIOUS
  <2>. QED
    BY <1>2, <1>4, <2>1, SpentGrows
<1>6. n > 0
  BY <1>2, <1>5
<1>7. PICK shown \in Seq(C) : /\ shown = Slice(text, 0, n) /\ Len(shown) = n
                              /\ \A k \in 1 .. n : shown[k] = text[k]
  <2>1. 0 + n = n /\ n <= Len(text) /\ \A k \in 1 .. n : 0 + k = k
    BY <1>3, <1>5
  <2>2. /\ Slice(text, 0, 0 + n) \in Seq(C) /\ Len(Slice(text, 0, 0 + n)) = n
        /\ \A k \in 1 .. n : Slice(text, 0, 0 + n)[k] = text[0 + k]
    <3>1. PICK p \in Nat : p = 0
      OBVIOUS
    <3>2. p + n <= Len(text)
      BY <2>1, <3>1
    <3>. QED
      BY <3>1, <3>2, SliceInside
  <2>. QED
    BY <2>1, <2>2
<1>8. shown = text <=> n = Len(text)
  BY <1>7
<1>9. IsPrefix(shown, text)
  <2>1. Len(shown) <= Len(text)
    BY <1>3, <1>5, <1>7
  <2>2. SubSeq(shown, 1, Len(shown)) = SubSeq(text, 1, Len(shown))
    BY <1>7, <2>1
  <2>. QED
    BY <2>1, <2>2 DEF IsPrefix
<1>10. PICK view : view = View(segments, c, o)
  OBVIOUS
<1>11. /\ view.segment = SegmentAt(segments, o).id /\ view.text = shown
       /\ view.truncated <=> n < Len(text)
  BY <1>1, <1>4, <1>7, <1>10 DEF View, Visible
<1>12. view.truncated <=> view.text # text
  BY <1>3, <1>5, <1>8, <1>11
<1>13. view.truncated => n = each \/ c[o + 1] = all
  BY <1>3, <1>4, <1>5, <1>11
<1>14. shown # << >>
  BY <1>6, <1>7
<1>. QED
  BY <1>1, <1>4, <1>5, <1>7, <1>9, <1>10, <1>11, <1>12, <1>13, <1>14 DEF Beginning

\* What is shown keeps to the three limits, and is all there is unless a limit
\* is used up.
WithinBudget(segments, config, context) ==
    LET shown  == context.segments
        Source(v) == CHOOSE s \in segments : s.id = v.segment
        used   == Cardinality(UNION {{<<v.segment, k>> : k \in DOMAIN v.text} : v \in shown})
        full   == used = config.maxTotalChars
    IN  /\ used <= config.maxTotalChars
        /\ Cardinality(shown) <= config.maxSegments
        /\ \A v \in shown :
              /\ v.text # << >> /\ Len(v.text) <= config.maxCharsPerSegment
              /\ IsPrefix(v.text, Source(v).text)
              /\ v.truncated <=> v.text # Source(v).text
              /\ v.truncated => Len(v.text) = config.maxCharsPerSegment \/ full
        /\ {Source(v).ordinal : v \in shown} = 0 .. (Cardinality(shown) - 1)
        /\ context.omitted = Cardinality(segments) - Cardinality(shown)
        /\ context.omitted > 0 => Cardinality(shown) = config.maxSegments \/ full

LEMMA BudgetKept ==
    ASSUME NEW C, NEW segments, NEW N \in Nat, N = Cardinality(segments), Texts(segments, N, C),
           \A s, t \in segments : s.id = t.id => s = t,
           NEW config, config.maxSegments \in Nat, config.maxCharsPerSegment \in Nat \ {0},
           config.maxTotalChars \in Nat, NEW context, context = ContextPayload(segments, config)
    PROVE  WithinBudget(segments, config, context)
<1>. DEFINE Source(v) == CHOOSE s \in segments : s.id = v.segment
            shown == context.segments
            used  == Cardinality(Characters(shown))
<1>1. PICK each \in Nat \ {0}, all \in Nat : each = config.maxCharsPerSegment /\ all = config.maxTotalChars
  OBVIOUS
<1>2. PICK m \in 0 .. N : \E c : Shows(segments, config, N, c, m)
  <2>1. config.maxCharsPerSegment \in Nat
    OBVIOUS
  <2>. QED
    BY <2>1, PayloadShows
<1>3. PICK c : Shows(segments, config, N, c, m)
  BY <1>2
<1>4. /\ shown = {View(segments, c, o) : o \in 0 .. (m - 1)}
      /\ context.omitted = N - m
  BY <1>3, Zenon DEF Shows
<1>5. /\ Spent(c, N, Lengths(segments), each, all)
      /\ m <= config.maxSegments
      /\ m < N => m = config.maxSegments \/ c[m] = all
      /\ \A o \in 0 .. (m - 1) : c[o] < all
  BY <1>1, <1>3 DEF Shows
<1>6. m \in Nat /\ \A o \in 0 .. (m - 1) : o \in 0 .. (N - 1)
  OBVIOUS
<1>7. /\ \A n \in 0 .. m : c[n] \in Nat /\ c[n] <= all
      /\ \A i, j \in 0 .. m : i <= j => c[i] <= c[j]
  <2>1. PICK length \in [0 .. (N - 1) -> Nat] : length = Lengths(segments)
    BY LengthsType
  <2>2. /\ \A n \in 0 .. N : c[n] \in Nat /\ c[n] <= all
        /\ \A i, j \in 0 .. N : i <= j => c[i] <= c[j]
    BY <1>5, <2>1, SpentGrows
  <2>3. \A n \in 0 .. m : n \in 0 .. N
    OBVIOUS
  <2>. QED
    BY <2>2, <2>3
<1>8. PICK V : V = [o \in 0 .. (m - 1) |-> View(segments, c, o)]
  OBVIOUS
<1>9. ASSUME NEW o \in 0 .. (m - 1)
      PROVE  Beginning(V[o], SegmentAt(segments, o), c[o + 1] - c[o], each, c[o + 1] = all, C)
  <2>1. o \in 0 .. (N - 1) /\ c[o] < all /\ V[o] = View(segments, c, o)
    BY <1>5, <1>6, <1>8
  <2>. QED
    BY <1>5, <2>1, ViewIs
<1>10. shown = {V[o] : o \in 0 .. (m - 1)}
  BY <1>4, <1>8
<1>11. Listed(segments, N)
  BY DEF Texts
<1>12. ASSUME NEW o \in 0 .. (m - 1) PROVE Source(V[o]) = SegmentAt(segments, o)
  <2>1. V[o].segment = SegmentAt(segments, o).id
    BY <1>9 DEF Beginning
  <2>2. SegmentAt(segments, o) \in segments
    BY <1>6, <1>11 DEF Listed
  <2>. QED
    BY <2>1, <2>2
<1>13. \A i, j \in 0 .. (m - 1) : V[i].segment = V[j].segment => i = j
  <2>. SUFFICES ASSUME NEW i \in 0 .. (m - 1), NEW j \in 0 .. (m - 1), V[i].segment = V[j].segment
                PROVE  i = j
    OBVIOUS
  <2>1. SegmentAt(segments, i).id = SegmentAt(segments, j).id
    BY <1>9 DEF Beginning
  <2>2. /\ SegmentAt(segments, i) \in segments /\ SegmentAt(segments, i).ordinal = i
        /\ SegmentAt(segments, j) \in segments /\ SegmentAt(segments, j).ordinal = j
    BY <1>6, <1>11 DEF Listed
  <2>3. SegmentAt(segments, i) = SegmentAt(segments, j)
    BY <2>1, <2>2
  <2>. QED
    BY <2>2, <2>3
<1>. HIDE DEF Source, shown
<1>14. used = c[m]
  <2>1. c[0] = 0
    BY <1>5 DEF Spent
  <2>2. \A o \in 0 .. (m - 1) : DOMAIN V[o].text = 1 .. (c[o + 1] - c[o])
    BY <1>9 DEF Beginning
  <2>3. TakeUp(V, c, m)
    BY <1>13, <2>2 DEF TakeUp
  <2>4. Growing(c, m, all)
    BY <1>7 DEF Growing
  <2>5. Cardinality(Characters({V[o] : o \in 0 .. (m - 1)})) = c[m]
    BY <1>6, <2>1, <2>3, <2>4, CharactersCounted
  <2>. QED
    BY <1>10, <2>5
<1>15. Cardinality(shown) = m
  <2>. DEFINE f == [i \in 1 .. m |-> V[i - 1]]
  <2>1. \A i \in 1 .. m : i - 1 \in 0 .. (m - 1)
    BY <1>6
  <2>2. f \in [1 .. m -> shown]
    BY <1>10, <2>1
  <2>3. \A v \in shown : \E i \in 1 .. m : f[i] = v
    <3>. SUFFICES ASSUME NEW v \in shown PROVE \E i \in 1 .. m : f[i] = v
      OBVIOUS
    <3>1. PICK o \in 0 .. (m - 1) : v = V[o]
      BY <1>10
    <3>2. o + 1 \in 1 .. m /\ (o + 1) - 1 = o
      BY <1>6
    <3>. QED
      BY <3>1, <3>2
  <2>4. \A i, j \in 1 .. m : f[i] = f[j] => i = j
    <3>. SUFFICES ASSUME NEW i \in 1 .. m, NEW j \in 1 .. m, f[i] = f[j] PROVE i = j
      OBVIOUS
    <3>1. i - 1 \in 0 .. (m - 1) /\ j - 1 \in 0 .. (m - 1) /\ V[i - 1] = V[j - 1]
      BY <2>1
    <3>2. i - 1 = j - 1
      BY <1>13, <3>1
    <3>. QED
      BY <1>6, <3>2
  <2>. HIDE DEF f
  <2>. QED
    BY <1>6, <2>2, <2>3, <2>4, ListCounts
<1>16. ASSUME NEW v \in shown
       PROVE  /\ v.text # << >> /\ Len(v.text) <= config.maxCharsPerSegment
              /\ IsPrefix(v.text, Source(v).text)
              /\ v.truncated <=> v.text # Source(v).text
              /\ v.truncated => Len(v.text) = config.maxCharsPerSegment \/ used = config.maxTotalChars
  <2>1. PICK o \in 0 .. (m - 1) : v = V[o]
    BY <1>10
  <2>2. Beginning(v, Source(v), c[o + 1] - c[o], each, c[o + 1] = all, C)
    BY <1>9, <1>12, <2>1
  <2>3. c[o + 1] = all => c[m] = all
    <3>1. o + 1 \in 0 .. m /\ m \in 0 .. m /\ o + 1 <= m
      BY <1>6
    <3>2. c[o + 1] <= c[m] /\ c[m] <= all /\ c[m] \in Nat
      BY <1>7, <3>1
    <3>. QED
      BY <3>2
  <2>. HIDE DEF used
  <2>4. Len(v.text) = c[o + 1] - c[o]
    BY <2>2, Zenon DEF Beginning
  <2>5. c[o + 1] - c[o] <= each
    BY <2>2, Zenon DEF Beginning
  <2>6. v.truncated => c[o + 1] - c[o] = each \/ c[o + 1] = all
    BY <2>2, Zenon DEF Beginning
  <2>7. v.text # << >> /\ IsPrefix(v.text, Source(v).text) /\ (v.truncated <=> v.text # Source(v).text)
    BY <2>2, Zenon DEF Beginning
  <2>8. v.truncated => Len(v.text) = config.maxCharsPerSegment \/ used = config.maxTotalChars
    BY <1>1, <1>14, <2>3, <2>4, <2>6, Zenon
  <2>9. Len(v.text) <= config.maxCharsPerSegment
    BY <1>1, <2>4, <2>5, Zenon
  <2>. QED
    BY <2>7, <2>8, <2>9, Zenon
<1>17. {Source(v).ordinal : v \in shown} = 0 .. (m - 1)
  <2>1. \A o \in 0 .. (m - 1) : Source(V[o]).ordinal = o
    BY <1>6, <1>11, <1>12 DEF Listed
  <2>. QED
    BY <1>10, <2>1
<1>18. c[m] <= all
  BY <1>6, <1>7
<1>19. context.omitted > 0 => m = config.maxSegments \/ used = config.maxTotalChars
  <2>. HIDE DEF used
  <2>. QED
    BY <1>1, <1>4, <1>5, <1>6, <1>14
<1>. HIDE DEF used
<1>20. /\ used <= config.maxTotalChars /\ Cardinality(shown) <= config.maxSegments
       /\ {Source(v).ordinal : v \in shown} = 0 .. (Cardinality(shown) - 1)
       /\ context.omitted = Cardinality(segments) - Cardinality(shown)
       /\ context.omitted > 0 => Cardinality(shown) = config.maxSegments \/ used = config.maxTotalChars
  BY <1>1, <1>4, <1>5, <1>14, <1>15, <1>17, <1>18, <1>19
<1>. QED
  BY <1>16, <1>20, Zenon DEF WithinBudget, Characters, used, shown, Source

-----------------------------------------------------------------------------
(* Joining what is joined. *)

LEMMA JoinAt ==
    ASSUME NEW S, NEW a \in Seq(S), NEW b \in Seq(S)
    PROVE  /\ \A k \in 1 .. Len(a) : (a \o b)[k] = a[k]
           /\ \A k \in 1 .. Len(b) : (a \o b)[Len(a) + k] = b[k]
OBVIOUS

Associates(a, b, c) == (a \o b) \o c = a \o (b \o c)

LEMMA JoinAssociative ==
    ASSUME NEW S, NEW a \in Seq(S), NEW b \in Seq(S), NEW c \in Seq(S)
    PROVE  Associates(a, b, c)
BY DEF Associates

LEMMA JoinNothing ==
    ASSUME NEW S, NEW a \in Seq(S)
    PROVE  a \o << >> = a /\ << >> \o a = a
OBVIOUS

\* A sequence of sequences cut in two: what its parts amount to, joined.
LEMMA FlattenJoin ==
    ASSUME NEW S, NEW a \in Seq(Seq(S)), NEW b \in Seq(Seq(S))
    PROVE  FlattenSeq(a \o b) = FlattenSeq(a) \o FlattenSeq(b)
<1>1. PICK x : Accumulates(x, a, S)
  BY AccumulationExists
<1>2. PICK y : Accumulates(y, b, S)
  BY AccumulationExists
<1>3. PICK m \in Nat, n \in Nat : m = Len(a) /\ n = Len(b)
  OBVIOUS
<1>4. PICK V : V = Seq(S)
  OBVIOUS
<1>5. PICK ab \in Seq(V) : ab = a \o b /\ Len(ab) = m + n
                           /\ (\A i \in 1 .. m : ab[i] = a[i]) /\ \A i \in 1 .. n : ab[m + i] = b[i]
  <2>1. PICK ab : ab = a \o b
    OBVIOUS
  <2>2. a \in Seq(V) /\ b \in Seq(V)
    BY <1>4
  <2>3. ab \in Seq(V) /\ Len(ab) = m + n
    BY <1>3, <2>1, <2>2, JoinType
  <2>4. \A i \in 1 .. m : ab[i] = a[i]
    BY <1>3, <2>1, <2>2
  <2>5. \A i \in 1 .. n : ab[m + i] = b[i]
    BY <1>3, <2>1, <2>2
  <2>. QED
    BY <2>1, <2>3, <2>4, <2>5
<1>6. /\ x \in [0 .. m -> V] /\ x[0] = << >> /\ \A i \in 1 .. m : x[i] = x[i - 1] \o a[i]
      /\ y \in [0 .. n -> V] /\ y[0] = << >> /\ \A i \in 1 .. n : y[i] = y[i - 1] \o b[i]
  BY <1>1, <1>2, <1>3, <1>4 DEF Accumulates
<1>7. PICK top \in V : top = x[m]
  BY <1>6
<1>. DEFINE z == [i \in 0 .. (m + n) |-> IF i <= m THEN x[i] ELSE top \o y[i - m]]
<1>8. \A i \in 0 .. m : z[i] = x[i]
  OBVIOUS
<1>9. ASSUME NEW i \in 0 .. n PROVE z[m + i] = top \o y[i]
  <2>1. CASE i = 0
    <3>1. z[m + i] = top
      BY <1>7, <2>1
    <3>2. top \o << >> = top
      BY <1>4, <1>7, JoinNothing
    <3>. QED
      BY <1>6, <2>1, <3>1, <3>2
  <2>2. CASE i # 0
    <3>1. m + i \in 0 .. (m + n) /\ ~(m + i <= m) /\ (m + i) - m = i
      BY <2>2
    <3>. QED
      BY <3>1
  <2>. QED
    BY <2>1, <2>2
<1>10. z \in [0 .. (m + n) -> V]
  <2>. SUFFICES ASSUME NEW i \in 0 .. (m + n) PROVE (IF i <= m THEN x[i] ELSE top \o y[i - m]) \in V
    OBVIOUS
  <2>1. CASE i <= m
    BY <1>6, <2>1
  <2>2. CASE ~(i <= m)
    <3>1. i - m \in 0 .. n
      BY <2>2
    <3>2. y[i - m] \in V
      BY <1>6, <3>1
    <3>3. top \o y[i - m] \in V
      BY <1>4, <3>2, JoinType
    <3>. QED
      BY <2>2, <3>3
  <2>. QED
    BY <2>1, <2>2
<1>. HIDE DEF z
<1>11. ASSUME NEW i \in 1 .. (m + n) PROVE z[i] = z[i - 1] \o ab[i]
  <2>1. CASE i <= m
    <3>1. i \in 1 .. m /\ i \in 0 .. m /\ i - 1 \in 0 .. m
      BY <2>1
    <3>2. x[i] = x[i - 1] \o a[i] /\ z[i] = x[i] /\ z[i - 1] = x[i - 1] /\ ab[i] = a[i]
      BY <1>5, <1>6, <1>8, <3>1
    <3>. QED
      BY <3>2
  <2>2. CASE ~(i <= m)
    <3>1. PICK k \in 1 .. n : i = m + k
      <4>1. i - m \in 1 .. n /\ i = m + (i - m)
        BY <2>2
      <4>. QED
        BY <4>1
    <3>2. k \in 0 .. n /\ k - 1 \in 0 .. n /\ i - 1 = m + (k - 1)
      BY <3>1
    <3>3. z[i] = top \o y[k] /\ z[i - 1] = top \o y[k - 1] /\ ab[i] = b[k]
      BY <1>5, <1>9, <3>1, <3>2
    <3>4. y[k] = y[k - 1] \o b[k] /\ y[k - 1] \in V /\ b[k] \in V
      <4>1. y[k - 1] \in V
        BY <1>6, <3>2
      <4>2. b[k] \in V
        BY <1>3, <1>4
      <4>. QED
        BY <1>6, <4>1, <4>2
    <3>5. top \o (y[k - 1] \o b[k]) = (top \o y[k - 1]) \o b[k]
      <4>1. PICK p \in Seq(S), q \in Seq(S), r \in Seq(S) : p = top /\ q = y[k - 1] /\ r = b[k]
        BY <1>4, <1>7, <3>4
      <4>2. (p \o q) \o r = p \o (q \o r)
        BY JoinAssociative DEF Associates
      <4>. QED
        BY <4>1, <4>2, Zenon
    <3>. QED
      BY <3>3, <3>4, <3>5
  <2>. QED
    BY <2>1, <2>2
<1>12. z[0] = << >> /\ z[m + n] = top \o y[n]
  BY <1>6, <1>8, <1>9
<1>13. Accumulates(z, ab, S)
  BY <1>4, <1>5, <1>10, <1>11, <1>12 DEF Accumulates
<1>14. FlattenSeq(ab) = z[m + n]
  <2>1. ab \in Seq(Seq(S))
    BY <1>4, <1>5
  <2>2. FlattenSeq(ab) = z[Len(ab)]
    BY <1>13, <2>1, FlattenIs
  <2>. QED
    BY <1>5, <2>2
<1>15. FlattenSeq(a) = top /\ FlattenSeq(b) = y[n]
  BY <1>1, <1>2, <1>3, <1>7, FlattenIs
<1>. QED
  BY <1>5, <1>12, <1>14, <1>15

LEMMA SliceNamed ==
    ASSUME NEW C, NEW text \in Seq(C), NEW p \in Nat, NEW n \in Nat, p + n <= Len(text)
    PROVE  \E slice \in Seq(C) : /\ slice = Slice(text, p, p + n) /\ Len(slice) = n
                                 /\ \A l \in 1 .. n : slice[l] = text[p + l]
<1>1. PICK slice : slice = Slice(text, p, p + n)
  OBVIOUS
<1>2. slice \in Seq(C) /\ Len(slice) = n /\ \A l \in 1 .. n : slice[l] = text[p + l]
  BY <1>1, SliceInside, Zenon
<1>. QED
  BY <1>1, <1>2, Zenon

\* A text cut in two, joined.
LEMMA SliceSplit ==
    ASSUME NEW C, NEW text \in Seq(C), NEW i \in Nat, NEW j \in Nat, NEW k \in Nat,
           i <= j, j <= k, k <= Len(text)
    PROVE  /\ Slice(text, i, j) \in Seq(C) /\ Slice(text, j, k) \in Seq(C)
           /\ Slice(text, i, k) = Slice(text, i, j) \o Slice(text, j, k)
<1>1. PICK m \in Nat, n \in Nat, w \in Nat : j = i + m /\ k = j + n /\ k = i + w /\ w = m + n
  <2>1. j - i \in Nat /\ k - j \in Nat /\ j = i + (j - i) /\ k = j + (k - j)
    OBVIOUS
  <2>. QED
    BY <2>1
<1>2. i + m <= Len(text) /\ j + n <= Len(text) /\ i + w <= Len(text)
  BY <1>1
<1>3. \A from, length \in Nat : from + length <= Len(text) =>
        \E slice \in Seq(C) : /\ slice = Slice(text, from, from + length) /\ Len(slice) = length
                              /\ \A l \in 1 .. length : slice[l] = text[from + l]
  <2>1. ASSUME NEW from \in Nat, NEW length \in Nat, from + length <= Len(text)
        PROVE  \E slice \in Seq(C) : /\ slice = Slice(text, from, from + length) /\ Len(slice) = length
                                     /\ \A l \in 1 .. length : slice[l] = text[from + l]
    BY <2>1, SliceNamed
  <2>. QED
    BY <2>1, Zenon
<1>4. PICK a \in Seq(C) : a = Slice(text, i, i + m) /\ Len(a) = m /\ \A l \in 1 .. m : a[l] = text[i + l]
  BY <1>2, <1>3, Zenon
<1>5. PICK b \in Seq(C) : b = Slice(text, j, j + n) /\ Len(b) = n /\ \A l \in 1 .. n : b[l] = text[j + l]
  BY <1>2, <1>3, Zenon
<1>6. PICK c \in Seq(C) : c = Slice(text, i, i + w) /\ Len(c) = w /\ \A l \in 1 .. w : c[l] = text[i + l]
  BY <1>2, <1>3, Zenon
<1>7. PICK ab \in Seq(C) : ab = a \o b /\ Len(ab) = Len(a) + Len(b)
  BY JoinType, Zenon
<1>8. ASSUME NEW l \in 1 .. w PROVE c[l] = ab[l]
  <2>1. CASE l <= m
    <3>1. l \in 1 .. m
      BY <2>1
    <3>2. ab[l] = a[l]
      BY <1>4, <1>7, <3>1
    <3>. QED
      BY <1>4, <1>6, <3>1, <3>2
  <2>2. CASE ~(l <= m)
    <3>1. PICK r \in 1 .. n : l = m + r
      <4>1. l - m \in 1 .. n /\ l = m + (l - m)
        BY <1>1, <2>2
      <4>. QED
        BY <4>1
    <3>2. ab[m + r] = b[r]
      BY <1>4, <1>5, <1>7, <3>1
    <3>3. i + l = j + r
      BY <1>1, <3>1
    <3>. QED
      BY <1>5, <1>6, <3>1, <3>2, <3>3
  <2>. QED
    BY <2>1, <2>2
<1>9. c = ab
  <2>1. Len(c) = w /\ Len(ab) = w
    BY <1>1, <1>4, <1>5, <1>6, <1>7
  <2>. QED
    BY <1>8, <2>1
<1>. QED
  BY <1>1, <1>4, <1>5, <1>6, <1>7, <1>9

-----------------------------------------------------------------------------
(* Where a quote is in its segment. *)

LEMMA LocatorOf ==
    ASSUME NEW document, NEW library, NEW C, Readable(document, library, C),
           NEW s \in SegmentsOf(document, library)
    PROVE  /\ Base(s) \in Nat
           /\ \E kind, unit : \E from, to :
                s.locator = Locator(document, kind, s.id, unit, from, to, s.text)
<1>0. /\ document.text \in Seq(C) /\ document.pages[library] \in Seq(Seq(C)) /\ Parses(document)
  BY DEF Readable
<1>1. CASE s \in TextSegments(document)
  <2>1. PICK from \in Nat, to \in Nat : s.locator = Locator(document, "text", s.id, << >>, from, to, s.text)
    BY <1>0, <1>1, TextSegmentShape
  <2>2. s.locator.kind = "text" /\ s.locator.start = from
    BY <2>1, LocatorFields
  <2>. QED
    BY <2>1, <2>2 DEF Base
<1>2. CASE s \in CsvSegments(document)
  <2>1. s.locator = Locator(document, "csv", s.id,
                [columns |-> Headers(document), cells |-> s.id[1]], 0, Len(s.text), s.text)
    BY <1>2, CsvSegmentShape
  <2>2. s.locator.kind = "csv"
    BY <2>1, LocatorFields
  <2>. QED
    BY <2>1, <2>2 DEF Base
<1>3. CASE s \in PdfSegments(document, library)
  <2>1. PICK k \in DOMAIN document.pages[library] :
          \E span \in TrimmedSpan(document.pages[library][k], 0, Len(document.pages[library][k])) :
               /\ s.id = <<k>>
               /\ s.locator = Locator(document, "pdf", <<k>>,
                                      [number |-> k, page |-> document.pages[library][k]],
                                      span.start, span.end, s.text)
    BY <1>3, PdfSegmentShape
  <2>2. PICK page \in Seq(C) : page = document.pages[library][k]
    BY <1>0
  <2>3. PICK span \in TrimmedSpan(page, 0, Len(page)) :
               s.locator = Locator(document, "pdf", s.id, [number |-> k, page |-> page],
                                   span.start, span.end, s.text)
    BY <2>1, <2>2
  <2>4. span.start \in Nat
    BY SpansInside
  <2>5. s.locator.kind = "pdf" /\ s.locator.start = span.start
    BY <2>3, LocatorFields
  <2>. QED
    BY <2>3, <2>4, <2>5 DEF Base
<1>. QED
  BY <1>0, <1>1, <1>2, <1>3, ThreeParsers

\* The locator of a quote says where in its segment it is.
Locates(narrow, document, s, quote, start) ==
    /\ narrow.start = Base(s) + start /\ narrow.end = Base(s) + start + Len(quote)
    /\ narrow.start - Base(s) = start /\ narrow.end - Base(s) = start + Len(quote)
    /\ narrow.segment = s.id /\ narrow.source = document /\ narrow.quote = quote

LEMMA NarrowFields ==
    ASSUME NEW document, NEW library, NEW C, Readable(document, library, C),
           NEW s \in SegmentsOf(document, library), NEW quote \in Seq(C), NEW start \in Nat,
           NEW narrow, narrow = NarrowLocator(s, quote, start)
    PROVE  Locates(narrow, document, s, quote, start)
<1>1. PICK kind, unit : \E from, to : s.locator = Locator(document, kind, s.id, unit, from, to, s.text)
  BY LocatorOf
<1>2. PICK from, to : s.locator = Locator(document, kind, s.id, unit, from, to, s.text)
  BY <1>1
<1>3. narrow = Locator(document, kind, s.id, unit, Base(s) + start, Base(s) + start + Len(quote), quote)
  BY <1>2, NarrowedSegment
<1>4. PICK base \in Nat, n \in Nat : base = Base(s) /\ n = Len(quote)
  BY LocatorOf
<1>5. /\ narrow.start = base + start /\ narrow.end = base + start + n
      /\ narrow.segment = s.id /\ narrow.source = document /\ narrow.quote = quote
  BY <1>3, <1>4, LocatorFields
<1>6. (base + start) - base = start /\ (base + start + n) - base = start + n
  OBVIOUS
<1>. QED
  BY <1>4, <1>5, <1>6 DEF Locates

\* A segment of a text ends where a later one has not begun.
LEMMA TextDisjoint ==
    ASSUME NEW document, NEW C, document.text \in Seq(C),
           NEW s \in TextSegments(document), NEW t \in TextSegments(document), s.ordinal < t.ordinal
    PROVE  s.locator.end <= t.locator.start
<1>1. PICK text \in Seq(C) : text = document.text
  OBVIOUS
<1>2. PICK x \in TextSpans(text) : s.locator.start = x.start /\ s.locator.end = x.end
  BY <1>1, TextLocators
<1>3. PICK y \in TextSpans(text) : t.locator.start = y.start /\ t.locator.end = y.end
  BY <1>1, TextLocators
<1>4. x.start < y.start
  BY <1>2, <1>3, TextInOrder
<1>5. PICK gap \in Separators(text) : x.end <= gap.start /\ gap.end <= y.start
  BY <1>4, GapBetween
<1>6. gap.start \in Nat /\ gap.end \in Nat /\ gap.start < gap.end
  BY GapShape
<1>7. /\ s.locator.end \in Nat /\ t.locator.start \in Nat
  BY TextSegmentShape
<1>. QED
  BY <1>2, <1>3, <1>5, <1>6, <1>7

\* Neighbours in a text: what is between them says nothing.
LEMMA BetweenNeighbours ==
    ASSUME NEW document, NEW C, document.text \in Seq(C),
           NEW s \in TextSegments(document), NEW t \in TextSegments(document),
           s.ordinal \in Nat, t.ordinal = s.ordinal + 1,
           NEW k \in s.locator.end .. (t.locator.start - 1), k \in Offsets(document.text),
           \A u \in TextSegments(document) : u.ordinal \in Nat,
           \A u, v \in TextSegments(document) : u.ordinal = v.ordinal => u = v
    PROVE  At(document.text, k) \in Space
<1>. SUFFICES ASSUME At(document.text, k) \notin Space PROVE FALSE
  OBVIOUS
<1>1. PICK span \in TextSpans(document.text) : span.start <= k /\ k < span.end
  BY TextCovered
<1>2. PICK u \in TextSegments(document) : u.locator.start = span.start /\ u.locator.end = span.end
  BY TextLocators
<1>3. /\ s.locator.start \in Nat /\ s.locator.end \in Nat /\ s.locator.start < s.locator.end
      /\ t.locator.start \in Nat /\ u.locator.start \in Nat /\ u.locator.end \in Nat
  BY TextSegmentShape
<1>4. u.locator.start < t.locator.start /\ ~(t.ordinal < u.ordinal) /\ u # t
  <2>1. u.locator.start < t.locator.start
    BY <1>1, <1>2, <1>3
  <2>2. t.ordinal < u.ordinal => t.locator.start < u.locator.start
    BY TextInOrder
  <2>. QED
    BY <1>3, <2>1, <2>2
<1>5. u.ordinal <= s.ordinal
  <2>1. u.ordinal # t.ordinal /\ u.ordinal \in Nat
    BY <1>4
  <2>. QED
    BY <1>4, <2>1
<1>6. u # s
  BY <1>1, <1>2, <1>3
<1>7. u.ordinal < s.ordinal
  BY <1>5, <1>6
<1>8. u.locator.end <= s.locator.start
  BY <1>7, TextDisjoint
<1>. QED
  BY <1>1, <1>2, <1>3, <1>8

-----------------------------------------------------------------------------
(* Counting by pairing. *)

\* One to one from M to the rows and from the rows to the tickets: as many in M
\* as tickets just when no row and no ticket is left out.
Onto(f, S, T) == \A y \in T : \E x \in S : f[x] = y

OneToOne(f, S) == \A x, y \in S : f[x] = f[y] => x = y

LEMMA GroupCounted ==
    ASSUME NEW M, NEW rows, NEW tickets, IsFiniteSet(tickets),
           NEW r \in [M -> rows], OneToOne(r, M), NEW g \in [rows -> tickets], OneToOne(g, rows)
    PROVE  /\ IsFiniteSet(M)
           /\ Cardinality(M) = Cardinality(tickets) <=> Onto(r, M, rows) /\ Onto(g, rows, tickets)
<1>. DEFINE h == [x \in M |-> g[r[x]]]
<1>1. h \in [M -> tickets]
  OBVIOUS
<1>2. \A x, y \in M : h[x] = h[y] => x = y
  BY DEF OneToOne
<1>3. h \in Injection(M, tickets)
  BY <1>1, <1>2 DEF Injection, IsInjective
<1>4. IsFiniteSet(M) /\ (Cardinality(M) = Cardinality(tickets) <=> h \in Surjection(M, tickets))
  BY <1>3, FS_Injection
<1>5. h \in Surjection(M, tickets) <=> Onto(h, M, tickets)
  BY <1>1 DEF Surjection, Onto
<1>6. \A x \in M : h[x] = g[r[x]] /\ r[x] \in rows
  OBVIOUS
<1>. HIDE DEF h
<1>7. ASSUME Onto(h, M, tickets) PROVE Onto(r, M, rows) /\ Onto(g, rows, tickets)
  <2>1. ASSUME NEW k \in rows PROVE \E x \in M : r[x] = k
    <3>1. g[k] \in tickets
      OBVIOUS
    <3>2. PICK x \in M : h[x] = g[k]
      BY <1>7, <3>1 DEF Onto
    <3>. QED
      BY <1>6, <3>2 DEF OneToOne
  <2>2. ASSUME NEW t \in tickets PROVE \E k \in rows : g[k] = t
    <3>1. PICK x \in M : h[x] = t
      BY <1>7 DEF Onto
    <3>. QED
      BY <1>6, <3>1
  <2>. QED
    BY <2>1, <2>2 DEF Onto
<1>8. ASSUME Onto(r, M, rows), Onto(g, rows, tickets) PROVE Onto(h, M, tickets)
  BY <1>6, <1>8 DEF Onto
<1>. QED
  BY <1>4, <1>5, <1>7, <1>8

\* As many elements as sets of one element.
LEMMA SingletonsCounted ==
    ASSUME NEW A, IsFiniteSet(A), \A a \in A : \E c : a = {c}
    PROVE  Cardinality(UNION A) = Cardinality(A)
<1>. DEFINE U == UNION A
            f == [c \in U |-> {c}]
<1>1. ASSUME NEW c \in U PROVE {c} \in A
  <2>1. PICK a \in A : c \in a
    OBVIOUS
  <2>2. a = {c}
    BY <2>1
  <2>. QED
    BY <2>2
<1>2. f \in [U -> A]
  BY <1>1
<1>3. \A c \in U : f[c] = {c}
  OBVIOUS
<1>4. ASSUME NEW a \in A PROVE \E c \in U : f[c] = a
  <2>1. PICK c : a = {c}
    OBVIOUS
  <2>2. c \in U
    BY <2>1
  <2>. QED
    BY <1>3, <2>1, <2>2
<1>5. \A c, e : {c} = {e} => c = e
  OBVIOUS
<1>. HIDE DEF f, U
<1>6. f \in Injection(U, A)
  BY <1>2, <1>3, <1>5 DEF Injection, IsInjective
<1>7. f \in Surjection(U, A)
  BY <1>2, <1>4 DEF Surjection
<1>8. Cardinality(U) = Cardinality(A)
  BY <1>6, <1>7, FS_Injection
<1>. QED
  BY <1>8 DEF U

\* The image of a finite set.
LEMMA ImageFinite ==
    ASSUME NEW M, IsFiniteSet(M), NEW A, NEW f \in [M -> A], Onto(f, M, A)
    PROVE  IsFiniteSet(A)
<1>1. f \in Surjection(M, A)
  BY DEF Surjection, Onto
<1>. QED
  BY <1>1, FS_Surjection

-----------------------------------------------------------------------------
(* The demo's drafts, as a set. *)

\* A draft the demo makes of a segment.
Quotes(draft, s, most) ==
    /\ draft.segment = s.id /\ draft.quote = SelectQuote(s.text, most)
    /\ draft.locator = NarrowLocator(s, draft.quote, 0)

\* No more than one draft of a segment, and one of each if the limit allows.
LEMMA DemoShape ==
    ASSUME NEW d, NEW library, NEW C, Readable(d, library, C), NEW segments, segments = SegmentsOf(d, library),
           NEW config, config.maxEvidence \in Nat, NEW drafts, drafts = DemoDrafts(segments, config)
    PROVE  /\ IsFiniteSet(ToSet(drafts))
           /\ \A x \in ToSet(drafts) : \E s \in segments : Quotes(x, s, config.maxQuoteChars)
           /\ \A x, y \in ToSet(drafts) : x.segment = y.segment => x = y
           /\ config.maxEvidence >= Cardinality(segments) =>
                \A s \in segments : \E x \in ToSet(drafts) : Quotes(x, s, config.maxQuoteChars)
<1>1. PICK N \in Nat : N = Cardinality(segments)
  BY SegmentsNumbered
<1>2. Listed(segments, N)
  <2>1. /\ {s.ordinal : s \in segments} = 0 .. (N - 1)
        /\ \A s, t \in segments : s.ordinal = t.ordinal => s = t
    BY <1>1, SegmentsNumbered
  <2>. QED
    BY <2>1, SegmentsListed
<1>3. PICK n \in Nat : n = Least({N, config.maxEvidence}) /\ n <= N /\ (config.maxEvidence >= N => n = N)
  BY LeastOfTwo
<1>. DEFINE at(i) == SegmentAt(segments, i - 1)
            of(i) == Draft(at(i), SelectQuote(at(i).text, config.maxQuoteChars), 0, DemoObservation, "demo")
<1>4. drafts = [i \in 1 .. n |-> of(i)]
  BY <1>1, <1>3 DEF DemoDrafts
<1>5. \A i \in 1 .. n : at(i) \in segments /\ at(i).ordinal = i - 1
  <2>1. \A i \in 1 .. n : i - 1 \in 0 .. (N - 1)
    BY <1>3
  <2>. QED
    BY <1>2, <2>1 DEF Listed
<1>6. ASSUME NEW i \in 1 .. n PROVE Quotes(of(i), at(i), config.maxQuoteChars)
  BY DEF Draft, Quotes
<1>. HIDE DEF of, at
<1>7. ToSet(drafts) = {of(i) : i \in 1 .. n}
  BY <1>4 DEF ToSet
<1>8. IsFiniteSet(ToSet(drafts))
  <2>1. IsFiniteSet(1 .. n)
    <3>1. 1 \in Int /\ n \in Int
      OBVIOUS
    <3>. QED
      BY <3>1, FS_Interval
  <2>2. drafts \in [1 .. n -> ToSet(drafts)] /\ Onto(drafts, 1 .. n, ToSet(drafts))
    BY <1>4, <1>7 DEF Onto
  <2>. QED
    BY <2>1, <2>2, ImageFinite
<1>9. \A x \in ToSet(drafts) : \E s \in segments : Quotes(x, s, config.maxQuoteChars)
  BY <1>5, <1>6, <1>7
<1>10. ASSUME NEW i \in 1 .. n, NEW j \in 1 .. n, of(i).segment = of(j).segment PROVE i = j
  <2>1. PICK s \in segments : s = at(i) /\ s.ordinal = i - 1
    BY <1>5
  <2>2. PICK t \in segments : t = at(j) /\ t.ordinal = j - 1
    BY <1>5
  <2>3. s.id = t.id
    BY <1>6, <1>10, <2>1, <2>2 DEF Quotes
  <2>4. s = t
    BY <2>3, IdsDistinct
  <2>. QED
    BY <2>1, <2>2, <2>4
<1>11. \A x, y \in ToSet(drafts) : x.segment = y.segment => x = y
  BY <1>7, <1>10
<1>12. ASSUME config.maxEvidence >= Cardinality(segments), NEW s \in segments
       PROVE  \E x \in ToSet(drafts) : Quotes(x, s, config.maxQuoteChars)
  <2>1. n = N
    BY <1>1, <1>3, <1>12
  <2>2. PICK i \in 1 .. n : i - 1 = s.ordinal
    <3>1. s.ordinal \in 0 .. (N - 1)
      BY <1>2 DEF Listed
    <3>2. s.ordinal + 1 \in 1 .. n /\ (s.ordinal + 1) - 1 = s.ordinal
      BY <2>1, <3>1
    <3>. QED
      BY <3>2
  <2>3. at(i) = s
    <3>1. s = SegmentAt(segments, s.ordinal)
      BY <1>2 DEF Listed
    <3>. QED
      BY <2>2, <3>1 DEF at
  <2>. QED
    BY <1>6, <1>7, <2>3
<1>. QED
  BY <1>8, <1>9, <1>11, <1>12

=============================================================================
