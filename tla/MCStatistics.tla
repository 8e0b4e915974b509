---------------------------- MODULE MCStatistics ----------------------------
(***************************************************************************)
(* Instances of Statistics for TLC: two connections from two countries,    *)
(* and rollup tables that are as wide as a few ticks of the clock.         *)
(***************************************************************************)
EXTENDS Statistics

CONSTANTS c1, c2

TwoConns == {c1, c2}
OwnCountries == [c \in Conns |-> c]

\* TIERS in small: the second table has a span as long as its retention, as in TIERS.
SmallTiers ==
    << [width |-> 1, maxSpan |-> 2, retention |-> 3],
       [width |-> 2, maxSpan |-> 5, retention |-> 5],
       [width |-> 4, maxSpan |-> NoLimit, retention |-> NoLimit] >>

SomeTimes == {0, 2, 5, 7, 8}
=============================================================================
