------------------------------ MODULE ReadQueries ------------------------------
(***************************************************************************)
(* The list endpoints of the API (services/discovery.py, api/routes.py)    *)
(* over tables that other requests fill meanwhile.  Each list is two or    *)
(* three statements of one READ COMMITTED transaction: the total and the   *)
(* rows of a page, and the steps of the runs in it.  No row is ever        *)
(* deleted.                                                                *)
(*                                                                         *)
(* A table is the sequence of its rows by created_at, oldest first, and is *)
(* listed newest first.  created_at is now() of Postgres, the start of the *)
(* transaction that writes the row: rows may be committed in another       *)
(* order, so a new row can have older and newer neighbours.                *)
(*                                                                         *)
(* The reader is any client that goes through a list page by page, by      *)
(* offset, until a page is not full, or for evidence also until it has as  *)
(* many rows as the total says.                                            *)
(***************************************************************************)
EXTENDS Integers, FiniteSets, SequencesExt

CONSTANTS
    PageLimit,      \* rows of a page
    Lists,          \* the lists the reader goes through
    Overtaken       \* the rows that may overtake a row between its created_at and its commit (a bound for TLC)

Steps == 3          \* parse, extract, verify

ASSUME PageAssumption == PageLimit \in Nat \ {0} /\ Overtaken \in Nat
ASSUME ListsAssumption == Lists \subseteq {"sources", "runs", "evidence"}

VARIABLES
    studies,        \* [id, title]
    sources,        \* [id, study, fixture, status]
    runs,           \* [id, study, source, status, steps succeeded]
    evidence,       \* [id, study, source]
    reader          \* the reader's list, and the page it is on

tables == <<studies, sources, runs, evidence>>

Insertions(rows, row) ==
    {InsertAt(rows, Len(rows) + 1 - k, row) : k \in {k \in 0 .. Overtaken : k <= Len(rows)}}

NewId(rows) == Len(rows) + 1
Ids(rows) == {rows[i].id : i \in DOMAIN rows}
Updated(rows, id, row) == [i \in DOMAIN rows |-> IF rows[i].id = id THEN row ELSE rows[i]]
RowOf(rows, id) == CHOOSE row \in ToSet(rows) : row.id = id

\* Where the rows of a study are, and how many of its rows are listed before one.
OfStudy(rows, study) == {i \in DOMAIN rows : rows[i].study = study}
Newer(rows, study, i) == {j \in OfStudy(rows, study) : j > i}

\* .order_by(created_at.desc()).limit(limit).offset(offset)
Page(rows, study, offset) ==
    {rows[i] : i \in {i \in OfStudy(rows, study) :
        Cardinality(Newer(rows, study, i)) \in offset .. (offset + PageLimit - 1)}}

Table(list) == CASE list = "sources" -> sources [] list = "runs" -> runs [] list = "evidence" -> evidence

-----------------------------------------------------------------------------
(* How far a source is, as its response says. *)

LatestRun(source) ==
    LET own == {i \in DOMAIN runs : runs[i].source = source}
    IN  {runs[i] : i \in {i \in own : \A j \in own : j <= i}}

\* Mutant of RunProgress: without the bound of 99.
RunProgressUnbounded(run, steps) ==
    IF run.status = "SUCCEEDED" THEN 100 ELSE (steps * 100) \div Steps

RunProgress(run, steps) ==
    IF run.status = "SUCCEEDED" THEN 100
    ELSE LET share == (steps * 100) \div Steps IN IF share < 99 THEN share ELSE 99

\* status and progress of a source, from the row read and the steps read after it.
SourceProgress(item) ==
    CASE item.source.status = "UPLOADED"  -> 0
      [] item.source.status = "PROCESSED" -> 100
      [] OTHER -> IF item.run = {} THEN 0
                  ELSE LET run == CHOOSE r \in item.run : TRUE
                       IN  RunProgress(run, RowOf(runs, run.id).steps)

-----------------------------------------------------------------------------
(* The reader. *)

Idle == [phase |-> "idle"]

ReadInit == reader = Idle

StartReading(list, study) ==
    /\ reader = Idle
    /\ reader' = [phase |-> "rows", list |-> list, study |-> study, offset |-> 0, total |-> 0,
                  items |-> {}, progress |-> << >>,
                  owed |-> {Table(list)[i].id : i \in OfStudy(Table(list), study)}]

\* A source is read with its latest run, in one statement.  The total of sources and
\* of runs is read before them; this reader has no use for it.
ReadRows ==
    /\ reader.phase = "rows"
    /\ LET page == Page(Table(reader.list), reader.study, reader.offset)
       IN  reader' = [reader EXCEPT
            !.items = IF reader.list = "sources"
                      THEN {[id |-> row.id, source |-> row, run |-> LatestRun(row.id)] : row \in page}
                      ELSE {[id |-> row.id] : row \in page},
            !.phase = IF reader.list = "evidence" THEN "total" ELSE "steps"]

ReadTotal ==
    /\ reader.phase = "total"
    /\ reader' = [reader EXCEPT !.total = Cardinality(OfStudy(evidence, reader.study)), !.phase = "answered"]

ReadSteps ==
    /\ reader.phase = "steps"
    /\ reader' = [reader EXCEPT
            !.progress = IF reader.list = "sources"
                         THEN [item \in reader.items |-> SourceProgress(item)]
                         ELSE << >>,
            !.phase = "answered"]

\* The client asks for the next page, or has come to the end.
TurnPage ==
    /\ reader.phase = "answered"
    /\ LET read == reader.offset + Cardinality(reader.items)
           owed == reader.owed \ {item.id : item \in reader.items}
           last == \/ Cardinality(reader.items) < PageLimit
                   \/ reader.list = "evidence" /\ read >= reader.total
       IN  reader' = IF last THEN [phase |-> "done", owed |-> owed]
                     ELSE [reader EXCEPT !.owed = owed, !.offset = read, !.phase = "rows",
                                         !.items = {}, !.progress = << >>, !.total = 0]

Read ==
    \/ \E list \in Lists, study \in Ids(studies) : StartReading(list, study)
    \/ ReadTotal \/ ReadRows \/ ReadSteps \/ TurnPage

-----------------------------------------------------------------------------
(* Properties. *)

\* Whatever is committed between two statements or two pages, a client that goes
\* through a list has seen, at its end, every row there was when it began; a page
\* of evidence never has more rows than its total; and a source is shown as
\* complete only if its evidence has been committed.
ListsAreHonest ==
    /\ reader.phase = "done" => reader.owed = {}
    /\ reader.phase = "answered" /\ reader.list = "evidence" /\ reader.items # {} =>
            reader.offset + Cardinality(reader.items) <= reader.total
    /\ reader.phase = "answered" /\ reader.list = "sources" =>
            \A item \in reader.items : reader.progress[item] = 100 =>
                /\ item.source.status = "PROCESSED"
                /\ \E row \in ToSet(evidence) : row.source = item.id
=============================================================================
