------------------------ MODULE MCNotificationQueue ------------------------
(* Instances of NotificationQueue for TLC: one flyer, two recipients.      *)
EXTENDS NotificationQueue, TLC

CONSTANTS alice, bob, w1, w2

(* No start date; a flyer of tomorrow; a flyer that ends before MaxNow.    *)
MCWindows == {[from |-> NoDate, to |-> 1], [from |-> 1, to |-> 2]}
OneWindow == {[from |-> 1, to |-> 2]}

Symmetry == Permutations(Users) \cup Permutations(Workers)
=============================================================================
