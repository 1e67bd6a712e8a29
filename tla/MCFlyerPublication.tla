------------------------- MODULE MCFlyerPublication -------------------------
(* Instances of FlyerPublication for TLC.                                  *)
EXTENDS FlyerPublication, TLC

CONSTANTS m1, m2, o1, o2

(* A constraint: two derived flyers have ever existed, and, once a day has  *)
(* passed and the cleanup finds something to do, one, of unedited offers.   *)
FewFlyers ==
  LET made == Cardinality({d \in Derived : derived[d].state # "none"})
  IN /\ made <= 2
     /\ today > 0 => made <= 1 /\ \A o \in Offers : offer[o].version = 0

Symmetry == Permutations(Markets) \cup Permutations(Offers)
=============================================================================
