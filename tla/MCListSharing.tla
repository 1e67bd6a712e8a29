---------------------------- MODULE MCListSharing ----------------------------
(* Instances of ListSharing for TLC.                                        *)
EXTENDS ListSharing, Naturals, TLC

CONSTANTS anna, bruno, i1, i2

(* At most so many users and invites are left by requests that ended half- *)
(* way: two, so that one such request meets another.                       *)
MaxHalfway == 2
FewHalfway == Cardinality(halfway) <= MaxHalfway

Symmetry == Permutations(Users) \cup Permutations(Invites)
=============================================================================
