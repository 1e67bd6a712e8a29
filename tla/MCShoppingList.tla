---------------------------- MODULE MCShoppingList ----------------------------
(* Instances of ShoppingList for TLC.                                      *)
EXTENDS ShoppingList, TLC

CONSTANTS alice, bob, i1, i2

Symmetry == Permutations(Users) \cup Permutations(Items)
=============================================================================
