--------------------------- MODULE MCFeedExecution ---------------------------
(* Small instances of the feed executor. *)
EXTENDS FeedExecution, TLC

CONSTANTS s1, s2,   \* two series
          a, b      \* two published values

TwoMembers == {1, 2}
OneSeriesEach == [m \in TwoMembers |-> IF m = 1 THEN s1 ELSE s2]
\* A primary and a backup source of one series in one feed.
SharedSeries == [m \in TwoMembers |-> s1]
AllAttempts == Runs \X TwoMembers
OneActive == {{1}}
AnyActive == {TwoMembers, {2}, {}}

Plain(p, v) == [period |-> p, value |-> v, vintage |-> NoVintage]
Dated(p, v, d) == [period |-> p, value |-> v, vintage |-> d]
Data(rows) == [kind |-> "data", rows |-> rows]
Refused == [kind |-> "refused", rows |-> <<>>]
Raises == [kind |-> "raises", rows |-> <<>>]

\* Few outcomes, for three runs: a value, its revision with a second period.
SerialOutcomes == {Data(<<Plain(1, a)>>), Data(<<Plain(1, b), Plain(2, a)>>)}
\* Payloads that lock the same rows in the same and in opposite orders.
LiveOutcomes == {Data(<<Plain(1, a), Plain(2, a)>>), Data(<<Plain(2, b), Plain(1, b)>>),
                 Refused, Raises}
\* Outcomes of every kind, a key proposed twice and a vintage of the provider's
\* own among them.
MixedOutcomes ==
  {Data(<<Plain(1, a)>>), Data(<<Dated(1, b, 1)>>), Data(<<Plain(1, b), Plain(1, a)>>),
   Refused, Raises}

RunSymmetry == Permutations(Runs)
==============================================================================
