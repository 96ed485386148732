--------------------------- MODULE MCExpenseIntake --------------------------
(***************************************************************************)
(* Instances of ExpenseIntake for TLC.  Ann and Bob are in the group, Cem  *)
(* may join while requests run, so that Cem's own expense is refused       *)
(* before and booked after, and an equal split depends on when it is       *)
(* computed.  The exact split has a share for Cem, who need not be a       *)
(* member, and a negative one for the payer: the code accepts both, since  *)
(* it checks the payer's membership only and posts the others' shares      *)
(* only.  The percentages do not add up to a hundred: that body is always  *)
(* refused.                                                                *)
(***************************************************************************)
EXTENDS ExpenseIntake, TLC

Body(payer, type, total, given) ==
  [group |-> "trip", payer |-> payer, type |-> type,
   total |-> total, given |-> given]

Dinner == Body("ann", "EQUAL", 7, << >>)
Taxi   == Body("cem", "EQUAL", 4, << >>)
Hotel  == Body("bob", "EXACT", 3, << [user |-> "cem", amount |-> 4],
                                     [user |-> "bob", amount |-> -1] >>)
Museum == Body("bob", "PERCENTAGE", 5, << [user |-> "ann", pct |-> 40000],
                                          [user |-> "bob", pct |-> 50000] >>)

MCBodies  == {Dinner, Taxi, Hotel, Museum}
FewBodies == {Dinner, Taxi}
TaxiOnly  == {Taxi}  \* refused before Cem joined
MCUsers   == {"ann", "bob", "cem"}
MCMembers == [g \in {"trip"} |-> <<"ann", "bob">>]
RequestSymmetry == Permutations(Requests)
=============================================================================
