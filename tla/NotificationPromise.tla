------------------------- MODULE NotificationPromise -------------------------
(***************************************************************************)
(* What the notification queue promises for every recipient of a published *)
(* flyer, without jobs, workers, attempts or claims: an inbox row is stored *)
(* at most once and before the push, a push is sent at most once, and when  *)
(* the notification is closed nothing is stored or sent any more.          *)
(***************************************************************************)
CONSTANT Recipients   \* pairs of a flyer and a user

VARIABLES
  stored,   \* recipients whose inbox has the row
  pushed,   \* recipients that were sent the push
  closed    \* recipients whose notification is over

Init == stored = {} /\ pushed = {} /\ closed = {}

Store(r) ==
  /\ r \notin stored \cup pushed \cup closed
  /\ stored' = stored \cup {r}
  /\ UNCHANGED <<pushed, closed>>

Push(r) ==
  /\ r \notin pushed \cup closed
  /\ pushed' = pushed \cup {r}
  /\ UNCHANGED <<stored, closed>>

Close(r) ==
  /\ r \notin closed
  /\ closed' = closed \cup {r}
  /\ UNCHANGED <<stored, pushed>>

(* The owner of the inbox deletes the row.                                 *)
Discard(r) ==
  /\ r \in stored
  /\ stored' = stored \ {r}
  /\ UNCHANGED <<pushed, closed>>

Next == \E r \in Recipients : Store(r) \/ Push(r) \/ Close(r) \/ Discard(r)

Spec == Init /\ [][Next]_<<stored, pushed, closed>>
=============================================================================
