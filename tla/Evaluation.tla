------------------------------ MODULE Evaluation ------------------------------
(***************************************************************************)
(* evaluation/source_to_evidence.py: the cases of a dataset, judged on the *)
(* verified drafts the ingestion runner returned for their source.         *)
(*                                                                         *)
(* A case asks for a quote ("quote", "injection"), for the row of a ticket *)
(* and some columns ("row"), or for a group of tickets of a number of      *)
(* accounts ("group").  An injection case must be quoted and must be       *)
(* found neither in the state of the graph nor in the profile of the       *)
(* runner, both written as JSON: these two texts are the control.          *)
(***************************************************************************)
EXTENDS Extraction

TicketColumn  == <<"t">>
AccountColumn == <<"u">>

VerifiedDrafts(drafts, checks) ==
    {drafts[i] : i \in {i \in DOMAIN drafts : \E j \in DOMAIN checks :
                            checks[j].draft = drafts[i].id /\ checks[j].verified}}

QuotedIn(expected, drafts) == \E draft \in drafts : Occurs(expected, draft.quote)

\* json.loads of a quote gives the row back if the quote is the whole row, and raises otherwise.
RowsReadable(drafts) ==
    \A draft \in drafts : draft.locator.kind = "csv" =>
        draft.quote = RenderedRow(draft.locator.unit.columns, draft.locator.unit.cells)

\* row.get(column): the cell, in a set that is empty when the row has no such column.
CellOf(unit, column) == {unit.cells[i] : i \in {i \in DOMAIN unit.columns : unit.columns[i] = column}}

RowsOf(tickets, drafts) ==
    {draft \in drafts : draft.locator.kind = "csv"
                        /\ \E ticket \in tickets : ticket \in CellOf(draft.locator.unit, TicketColumn)}

\* The code looks at the columns of the first match: all rows of a table have the same.
RowCasePasses(case, drafts) ==
    LET matches == RowsOf({case.ticket}, drafts)
    IN  /\ matches # {}
        /\ \A draft \in matches : case.columns \subseteq ToSet(draft.locator.unit.columns)

\* Mutant of GroupCasePasses: the rows found are not counted.
GroupCaseCounted(case, drafts) ==
    Cardinality({CellOf(draft.locator.unit, AccountColumn) : draft \in RowsOf(case.tickets, drafts)})
        = case.accounts

GroupCasePasses(case, drafts) ==
    LET matched  == RowsOf(case.tickets, drafts)
        accounts == {CellOf(draft.locator.unit, AccountColumn) : draft \in matched}
    IN  /\ Cardinality(matched) = Cardinality(case.tickets)
        /\ Cardinality(accounts) = case.accounts

\* Mutant of InjectionCasePasses: the profile is not looked into.
InjectionCaseUnprofiled(case, drafts, control) ==
    QuotedIn(case.text, drafts) /\ ~Occurs(case.text, control[1])

InjectionCasePasses(case, drafts, control) ==
    QuotedIn(case.text, drafts) /\ \A text \in ToSet(control) : ~Occurs(case.text, text)

\* A run of the evaluation ends with an exception when a row case meets a cut row.
Verdict(case, drafts, checks, control) ==
    LET verified == VerifiedDrafts(drafts, checks)
        Judged(passes) == IF passes THEN "passed" ELSE "failed"
    IN  CASE case.kind = "quote"     -> Judged(QuotedIn(case.text, verified))
          [] case.kind = "injection" -> Judged(InjectionCasePasses(case, ToSet(drafts), control))
          [] case.kind = "row"       -> IF RowsReadable(verified) THEN Judged(RowCasePasses(case, verified)) ELSE "raised"
          [] case.kind = "group"     -> IF RowsReadable(verified) THEN Judged(GroupCasePasses(case, verified)) ELSE "raised"
          [] OTHER                   -> "skipped"
=============================================================================
