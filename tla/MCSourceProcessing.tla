------------------------- MODULE MCSourceProcessing -------------------------
(* Small instances of SourceProcessing for TLC. *)
EXTENDS LedgerRefinement, TLC

CONSTANTS s1, p1, p2, p3, a, b

\* Profiles that agree.
MCParseStable == [k \in Keys |-> {a}]

\* Profiles that drift: p2 finds another segment.
MCParseDrift == [k \in Keys |-> IF k[2] = p1 THEN {a} ELSE {a, b}]

\* Profiles of which p2 drifts and p3 cannot parse the source.
MCParseFails ==
    [k \in Keys |-> CASE k[2] = p1 -> {a}
                      [] k[2] = p2 -> {a, b}
                      [] OTHER     -> Unparseable]

draft(segment, quote) == [segment |-> segment, quote |-> quote]

\* A good result, one without proposals, a forged quote, an unknown segment,
\* and a duplicated draft.
MCExtractions ==
    {[drafts |-> {draft(a, "exact")}, duplicated |-> FALSE],
     [drafts |-> {}, duplicated |-> FALSE],
     [drafts |-> {draft(a, "altered")}, duplicated |-> FALSE],
     [drafts |-> {draft(b, "exact")}, duplicated |-> FALSE],
     [drafts |-> {draft(a, "exact")}, duplicated |-> TRUE]}

\* Good results only, where the interleaving is what matters.
MCGoodExtractions == {[drafts |-> {draft(a, "exact")}, duplicated |-> FALSE]}

RequestSymmetry == Permutations(Requests)
=============================================================================
