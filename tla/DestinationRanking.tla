------------------------- MODULE DestinationRanking -------------------------
(***************************************************************************)
(* The order of the destination lists: the pure ranking of the domain      *)
(* (destination_ranking.py), and the ranking that the repository computes  *)
(* in SQL.  The database pages with the second, and the first says what    *)
(* the pages should contain.                                               *)
(***************************************************************************)
EXTENDS CatalogueMigrations, Integers

CONSTANT Facts   \* what each destination is: country, budget tier, styles, interests and
                 \* ranks, slug standing for the slug's place in the alphabet

\* Ranks are numbers, and so is the alphabet; a slug names one destination.
ASSUME FactsAssumption ==
    /\ IsFiniteSet(Seeded \union Imported)
    /\ \A d \in Seeded \union Imported :
          /\ Facts[d].editorial \in Nat /\ Facts[d].popular \in Nat /\ Facts[d].featured \in Nat
          /\ Facts[d].slug \in Nat /\ Facts[d].budget \in 0 .. 3
          /\ IsFiniteSet(Facts[d].styles) /\ IsFiniteSet(Facts[d].interests)
    /\ \A d, e \in Seeded \union Imported : Facts[d].slug = Facts[e].slug => d = e

NoRank == 0      \* a popular or featured rank that is NULL

\* Rows are sort keys with the entry behind them, Before the order of the keys.
Entry(row) == row[4]
KeyOf(row) == <<row[1], row[2], row[3]>>
Follows(row, key) == \E i \in 1 .. 3 : row[i] > key[i] /\ \A j \in 1 .. i - 1 : row[j] = key[j]
Ordered(rows) ==
    [i \in 1 .. Cardinality(rows) |->
        CHOOSE row \in rows : Cardinality({other \in rows : Follows(row, other)}) = i - 1]
Entries(rows) == [i \in DOMAIN rows |-> Entry(rows[i])]

\* personalization_ready
Ready(p) == p.styles # {} /\ p.interests # {} /\ p.budget # NoBudget /\ p.pace # "none"

-----------------------------------------------------------------------------
\* The domain.
BudgetPoints(distance) == CASE distance = 0 -> 20 [] distance = 1 -> 10 [] distance = 2 -> 4 [] OTHER -> 0

Abs(n) == IF n < 0 THEN -n ELSE n

PreferenceScore(d, p) ==
    30 * Cardinality(p.styles \intersect Facts[d].styles)
      + 12 * Cardinality(p.interests \intersect Facts[d].interests)
      + IF p.budget = NoBudget THEN 0 ELSE BudgetPoints(Abs(p.budget - Facts[d].budget))

MatchesScope(d, scope, home) ==
    \/ scope = "both"
    \/ home # "none" /\ ((scope = "local") <=> (Facts[d].country = home))

RankSuggested(catalogue, p, scope) ==
    IF ~Ready(p) THEN <<>>
    ELSE LET scored == {<<-PreferenceScore(d, p), Facts[d].editorial, Facts[d].slug, d>> :
                           d \in {x \in catalogue : MatchesScope(x, scope, p.home)}}
         IN Entries(Ordered({row \in scored : row[1] < 0}))

RankBy(catalogue, rank(_)) ==
    Entries(Ordered({<<rank(d), Facts[d].editorial, Facts[d].slug, d>> :
                        d \in {x \in catalogue : rank(x) # NoRank}}))
RankPopular(catalogue) == RankBy(catalogue, LAMBDA d : Facts[d].popular)
RankFeatured(catalogue) == RankBy(catalogue, LAMBDA d : Facts[d].featured)
-----------------------------------------------------------------------------
\* The repository: the case over the stored tier counts from the selected one.
BudgetCase(selected) ==
    [tier \in 0 .. 3 |-> IF tier = selected THEN 20
                         ELSE IF tier + 1 = selected \/ tier = selected + 1 THEN 10
                         ELSE IF tier + 2 = selected \/ tier = selected + 2 THEN 4 ELSE 0]

SqlScore(d, p) ==
    30 * Cardinality({s \in Facts[d].styles : s \in p.styles})
      + 12 * Cardinality({i \in Facts[d].interests : i \in p.interests})
      + IF p.budget = NoBudget THEN 0 ELSE BudgetCase(p.budget)[Facts[d].budget]

SqlRank(d, collection, p) ==
    CASE collection = "suggested" -> -SqlScore(d, p)
      [] collection = "popular" -> Facts[d].popular
      [] collection = "featured" -> Facts[d].featured

InCollection(d, collection, scope, p) ==
    CASE collection = "suggested" ->
            /\ Ready(p)
            /\ scope # "both" => /\ p.home # "none"
                                 /\ (Facts[d].country = p.home) = (scope = "local")
            /\ SqlScore(d, p) > 0
      [] collection = "popular" -> Facts[d].popular # NoRank
      [] collection = "featured" -> Facts[d].featured # NoRank

HasCover(d, x) == Covers(d, x) # {}
Published(d) == d.destinations \ d.hidden
Cards(d) == {x \in Published(d) : HasCover(d, x)}

\* list_ranked without its limit: the rows with their seek keys.
Ranked(d, collection, scope, p) ==
    {<<SqlRank(x, collection, p), Facts[x].editorial, Facts[x].slug, x>> :
        x \in {y \in Cards(d) : InCollection(y, collection, scope, p)}}
=============================================================================
