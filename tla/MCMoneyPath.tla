---------------------------- MODULE MCMoneyPath ----------------------------
(***************************************************************************)
(* Instances of MoneyPath for TLC: every small vector of net balances, and *)
(* every small expense of a group of one to three members.  Exact shares   *)
(* may be zero or negative, as the schema allows; percentages may be       *)
(* negative too and are numbers around which rounding, floats and the      *)
(* tolerance of 0.01 matter.                                               *)
(***************************************************************************)
EXTENDS MoneyPath

CONSTANTS N, MaxNet

MCUsers == 1 .. N
MCNets  == [MCUsers -> -MaxNet .. MaxNet]

People      == 1 .. 3
Rosters     == {SubSeq(<<1, 2, 3>>, 1, n) : n \in People}
Totals      == {1, 2, 10, 101, 9999, 10000}
Amounts     == -1 .. 4
Percentages == {-24999, -570, -1, 0, 1, 10, 570, 24999, 25000, 33333, 33334, 50000,
                66667, 75010, 99430, 99990, 99999, 100000}

\* What Python's floats say of these numbers.
MCShortProducts == {<<10000, 570>>, <<10000, -570>>}
MCPassingLists  == {<<1, 10, 99999>>, <<10, 1, 99999>>, <<10, 10, 99990>>,
                    <<10, 33333, 66667>>, <<33333, 10, 66667>>,
                    <<10, 50000, 50000>>, <<50000, 10, 50000>>}

Body(type, payer, total, given) ==
  [type |-> type, payer |-> payer, total |-> total, given |-> given]

ExactGivens ==
  UNION { { [i \in 1 .. n |-> [user |-> u[i], amount |-> a[i]]] :
              u \in [1 .. n -> People], a \in [1 .. n -> Amounts] } :
          n \in 0 .. 2 }

PercentageGivens ==
  { g \in UNION { { [i \in 1 .. n |-> [user |-> i, pct |-> p[i]]] :
                      p \in [1 .. n -> Percentages] } :
                  n \in 0 .. 3 } :
      SplitAccepted(Body("PERCENTAGE", 1, 1, g)) }

\* Only an equal split depends on the roster.
MCExpenses ==
  { x \in [roster : Rosters,
           body : { Body("EQUAL", p, t, << >>) : p \in People, t \in Totals }]
          \cup [roster : {<<1, 2, 3>>},
                body : { Body("EXACT", p, t, g) :
                           p \in People, t \in 1 .. 4, g \in ExactGivens }
                       \cup { Body("PERCENTAGE", p, t, g) :
                                p \in People, t \in Totals, g \in PercentageGivens }] :
      SplitAccepted(x.body) /\ x.body.payer \in Range(x.roster) }
=============================================================================
