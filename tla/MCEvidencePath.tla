---------------------------- MODULE MCEvidencePath ----------------------------
(* Documents, configurations and evaluation cases of a small instance. *)
EXTENDS EvidencePath

CONSTANTS MaxLength

Characters == {"a", "sp", "nl", "cr"}

PlainText == [media |-> <<"text", "plain">>, suffix |-> ".txt", decodes |-> TRUE,
             opens |-> FALSE, pagesRead |-> TRUE, text |-> << >>, rows |-> << >>, pages |-> [v \in {1, 2} |-> << >>]]

TextDocument(text) == [PlainText EXCEPT !.text = text]

\* Every text of up to MaxLength characters.
ShortTexts == {TextDocument(text) : text \in BoundedSeq(Characters, MaxLength)}

\* Blank lines of every make, sentences, a repeated quote, three blocks.
LongTexts == {TextDocument(text) : text \in {
    <<"a", "b", "nl", "nl", "b", "a">>,
    <<"a", "nl", "sp", "cr", "nl", "b">>,
    <<"a", "cr", "nl", "cr", "nl", "sp", "b", "nl", "a">>,
    <<"a", "nl", "ff", "nl", "b">>,
    <<"a", "nl", "cr", "sp", "nl", "b">>,
    <<"a", "sp", "a", "nl", "nl", "nl", "a">>,
    <<"nl", "nl", "a", ".", "sp", "b", "b">>,
    <<"a", ".", "b", "nl", "nl", "a", ".", "nl", "nl", "sp", "nl", "b">>}}

Row(cells) == [ok |-> TRUE, cells |-> cells]
BrokenRow  == [ok |-> FALSE, cells |-> << >>]

Head2 == Row(<< <<"t">>, <<"sp", "u">> >>)
R11 == Row(<< <<"1">>, <<"1">> >>)
R12 == Row(<< <<"1">>, <<"2">> >>)
R22 == Row(<< <<"2">>, <<"2">> >>)
R32 == Row(<< <<"3">>, <<"2">> >>)
Blank2 == Row(<< <<"sp">>, << >> >>)
Spaced == Row(<< <<"3">>, <<"sp">> >>)

Table(rows) == [PlainText EXCEPT !.media = <<"text", "csv">>, !.suffix = ".csv", !.rows = rows]

Tables == {Table(rows) : rows \in {
    << >>, <<Head2>>, <<BrokenRow>>, <<Row(<< >>), R11>>,
    <<Row(<< <<"t">>, <<"t", "sp">> >>), R11>>, <<Row(<< <<"t">>, <<"sp">> >>), R11>>,
    <<Head2, R11, R11>>, <<Head2, R11, Blank2, R22>>, <<Head2, R22, R11, R22>>,
    <<Head2, R11, R12>>, <<Head2, Row(<< >>), R22, R32>>, <<Head2, R11, Spaced>>,
    <<Head2, R11, Row(<< <<"2">> >>)>>, <<Head2, R22, BrokenRow>>,
    <<Row(<< <<"t">> >>), Row(<< <<"1">> >>), Row(<< <<"2">> >>)>>}}

Printed(first, second) ==
    [PlainText EXCEPT !.media = <<"application", "pdf">>, !.suffix = ".pdf", !.opens = TRUE,
                     !.pages = [v \in {1, 2} |-> IF v = 1 THEN first ELSE second]]

\* Pages, some blank, some read otherwise by the second version of the library.
Prints == {
    Printed(<< <<"sp", "a", "b", "nl">>, <<"nl">>, <<"a">> >>, << <<"sp", "a", "b", "nl">>, <<"nl">>, <<"a">> >>),
    Printed(<< <<"a", "a">> >>, << <<"a", "a", "nl">> >>),
    Printed(<< <<"a", "b">> >>, << <<"b", "a">> >>),
    Printed(<< <<"nl">> >>, << <<"a">> >>)}

\* What the name of a file and its media type say of it may be at odds.
Misnamed == {
    [PlainText EXCEPT !.suffix = ".csv", !.rows = <<Head2, R11>>],
    [PlainText EXCEPT !.text = <<"a">>, !.rows = <<Head2, R11>>],
    [PlainText EXCEPT !.suffix = ".pdf"],
    [PlainText EXCEPT !.suffix = ".pdf", !.opens = TRUE, !.pagesRead = FALSE],
    [PlainText EXCEPT !.media = <<"text", "html">>, !.suffix = ".bin", !.text = <<"a">>],
    [PlainText EXCEPT !.media = <<"application", "octet-stream">>, !.suffix = ".bin"],
    [PlainText EXCEPT !.decodes = FALSE],
    [PlainText EXCEPT !.media = <<"application", "octet-stream">>, !.suffix = ".markdown", !.text = <<"a">>]}

MCDocuments == ShortTexts \cup LongTexts \cup Tables \cup Prints \cup Misnamed

Demo(library, most, chars) ==
    [mode |-> "demo", library |-> library, maxEvidence |-> most, maxQuoteChars |-> chars]
Model(library, most, chars, total) ==
    [mode |-> "openai", library |-> library, maxSegments |-> most,
     maxCharsPerSegment |-> chars, maxTotalChars |-> total]

MCConfigurations == {Demo(1, 1, 3), Demo(2, 9, 20), Model(1, 2, 2, 3), Model(2, 2, 9, 20)}

\* Answers of two proposals about pages and the shorter texts chosen by hand.
MCEvidenceLimit == [d \in MCDocuments |->
    IF d \in Prints \/ (d \in LongTexts /\ Len(d.text) <= 6) THEN 2 ELSE 1]

QuoteCases == {[kind |-> kind, text |-> text] : kind \in {"quote", "injection"},
               text \in {<<"a">>, <<"a", "b">>, <<"b", "b">>}}
TableCases ==
    {[kind |-> "row", ticket |-> ticket, columns |-> columns] :
        ticket \in {<<"1">>, <<"3">>, <<"sp">>}, columns \in {{}, {<<"t">>, <<"u">>}, {<<"v">>}}}
    \cup {[kind |-> "group", tickets |-> tickets, accounts |-> n] :
        tickets \in {{<<"1">>}, {<<"1">>, <<"2">>}, {<<"1">>, <<"3">>}}, n \in 1..2}

MCCases == [d \in MCDocuments |->
    IF d \in Tables \cup Misnamed THEN TableCases
    ELSE IF d \in LongTexts \cup Prints THEN QuoteCases \cup {[kind |-> "unknown"]} ELSE {}]

\* The state of the graph and the profile: an injected text is in neither, or in one.
MCControls == {<< <<"{">>, <<"}">> >>, << <<"{", "a">>, <<"}">> >>, << <<"{">>, <<"b", "b">> >>}

\* The instance has what the theorems suppose.
ASSUME TextsAssumption ==
    LET C == Characters \cup Space \cup Marks \cup {"b", ".", "t", "u", "1", "2", "3", "invented"}
    IN  TextsAre(C) /\ CasesAre(C)
=============================================================================
