----------------------------- MODULE ShoppingList -----------------------------
(***************************************************************************)
(* The items of one shared shopping list and the purchase history of its   *)
(* members: the item handlers of api/routers/lists.py, purchase and undo   *)
(* of api/routers/purchases.py, and the nightly                            *)
(* services/purchased_items_cleanup.py.                                    *)
(*                                                                         *)
(* The items are one JSON column, shopping_lists.items: a handler rewrites *)
(* it as a whole or has one statement patch the items in place             *)
(* (_direct_rpc_call).  With DB_DSN set no handler awaits, so one request  *)
(* at a time is under way; the cleanup is a thread of its own, and any     *)
(* call may be the last one of its request.  An action is one writing call *)
(* with the reads that come before it.  Names, quantities, units and       *)
(* categories of the items are left out.                                   *)
(***************************************************************************)
EXTENDS Integers, FiniteSets

CONSTANTS
  Users,    \* members of the list
  Nobody,   \* checked_by or purchased_by is null: any value not in Users
  Items,    \* ids that add_item can draw
  Offers,   \* offers that an item can be pinned to
  NoOffer,  \* pinned_offer_id is null: any value not in Offers
  MaxRows,  \* bound: history rows of a user for an item
  MaxDay,   \* bound: the last Rome day
  Failures  \* a request or a cleanup may end at any call

ASSUME ListAssumption ==
  /\ Nobody \notin Users
  /\ NoOffer \notin Offers
  /\ MaxRows \in Nat \ {0}
  /\ MaxDay \in Nat
  /\ Failures \in BOOLEAN

VARIABLES
  today,   \* the Rome day
  current, \* offers whose validity includes today
  list,    \* shopping_lists.items by id
  added,   \* ids that were drawn
  rows,    \* purchase_history: rows by item and user
  request, \* the request under way
  sweep,   \* what the running cleanup still has to save
  excused, \* history: items bought twice, undone by another, or half-way
  overwritten \* history: items that a cleanup has written an old state of

vars == <<today, current, list, added, rows, request, sweep, excused, overwritten>>
clock == <<today, current>>

Day == 0 .. MaxDay
NoDay == -1
NoRow == [checked |-> Nobody, buyer |-> Nobody, day |-> NoDay, offer |-> NoOffer,
          there |-> FALSE]
Fresh(o) == [NoRow EXCEPT !.there = TRUE, !.offer = o]
Empty == [i \in Items |-> NoRow]

There(i) == list[i].there
Bought(row) == row.buyer # Nobody

(* A patch has some fields of an item: item || p_patch in the statements.  *)
NoPatch == [there |-> TRUE]
Patched(row, patch) ==
  [f \in DOMAIN row |-> IF f \in DOMAIN patch THEN patch[f] ELSE row[f]]
Checked(u) == [checked |-> u]
Pinned(o) == [offer |-> o]

(* Mutant of PurchasePatch: purchased_at is not set.                       *)
PurchasePatchUndated(u) == [buyer |-> u, day |-> NoDay]
PurchasePatch(u) == [buyer |-> u, day |-> IF u = Nobody THEN NoDay ELSE today]

Idle == [step |-> "idle", user |-> Nobody, items |-> {}, patch |-> NoPatch, kept |-> Empty]
AtRest == request = Idle
NoSweep == [running |-> FALSE, kept |-> Empty]
Finish == request' = Idle
Ask(step, u, S, patch) ==
  request' = [Idle EXCEPT !.step = step, !.user = u, !.items = S, !.patch = patch]

Init ==
  /\ today = 0
  /\ current = Offers
  /\ list = Empty
  /\ added = {}
  /\ rows = [i \in Items |-> [u \in Users |-> 0]]
  /\ request = Idle
  /\ sweep = NoSweep
  /\ excused = {}
  /\ overwritten = {}

-----------------------------------------------------------------------------
(* The handlers of lists.py.                                               *)

(* append_list_item: an item that is not purchased and has the same offer  *)
(* is given the quantity; otherwise the item is appended.                  *)
Appended(i, o) ==
  IF o # NoOffer /\ \E j \in Items : There(j) /\ list[j].offer = o /\ ~Bought(list[j])
  THEN list
  ELSE [list EXCEPT ![i] = Fresh(o)]

AddItem(i) ==
  /\ AtRest
  /\ i \notin added
  /\ added' = added \cup {i}
  /\ \E o \in Offers \cup {NoOffer} : list' = Appended(i, o)
  /\ UNCHANGED <<clock, rows, request, sweep, excused, overwritten>>

ResetList ==
  /\ AtRest
  /\ list' = Empty
  /\ UNCHANGED <<clock, added, rows, request, sweep, excused, overwritten>>

(* remove_purchased_items reads the items and writes back the others.      *)
ReadPurchased ==
  /\ AtRest
  /\ \E i \in Items : Bought(list[i])
  /\ request' = [Idle EXCEPT !.step = "save",
                   !.kept = [i \in Items |-> IF Bought(list[i]) THEN NoRow ELSE list[i]]]
  /\ UNCHANGED <<clock, list, added, rows, sweep, excused, overwritten>>

SaveRemaining ==
  /\ request.step = "save"
  /\ list' = request.kept
  /\ Finish
  /\ UNCHANGED <<clock, added, rows, sweep, excused, overwritten>>

(* remove_item: 409 for a purchased item.  (An item that has purchased_by  *)
(* without being purchased does not exist, so its history stays.)          *)
RemoveItem(i) ==
  /\ AtRest
  /\ There(i)
  /\ ~Bought(list[i])
  /\ Ask("remove", Nobody, {i}, NoPatch)
  /\ UNCHANGED <<clock, list, added, rows, sweep, excused, overwritten>>

RemoveListItem ==
  /\ request.step = "remove"
  /\ list' = [i \in Items |-> IF i \in request.items THEN NoRow ELSE list[i]]
  /\ Finish
  /\ UNCHANGED <<clock, added, rows, sweep, excused, overwritten>>

(* toggle_item, set_item_checked and patch_item read the item, then patch. *)
ToggleItem(u, i) ==
  /\ AtRest
  /\ There(i)
  /\ Ask("update", u, {i}, Checked(IF list[i].checked = Nobody THEN u ELSE Nobody))
  /\ UNCHANGED <<clock, list, added, rows, sweep, excused, overwritten>>

SetItemChecked(u, i) ==
  /\ AtRest
  /\ There(i)
  /\ \E by \in {u, Nobody} : Ask("update", u, {i}, Checked(by))
  /\ UNCHANGED <<clock, list, added, rows, sweep, excused, overwritten>>

PatchItem(u, i) ==
  /\ AtRest
  /\ There(i)
  /\ \E o \in Offers : Ask("update", u, {i}, Pinned(o))
  /\ UNCHANGED <<clock, list, added, rows, sweep, excused, overwritten>>

(* clear_stale_offers: one patch per item whose offer has expired and is   *)
(* not hidden from the viewer.                                             *)
ClearStaleOffers(u) ==
  /\ AtRest
  /\ \E hidden \in SUBSET Offers :
       LET stale == {i \in Items : There(i) /\ list[i].offer \in Offers \ (current \cup hidden)}
       IN stale # {} /\ Ask("clear", u, stale, Pinned(NoOffer))
  /\ UNCHANGED <<clock, list, added, rows, sweep, excused, overwritten>>

-----------------------------------------------------------------------------
(* purchases.py                                                            *)

(* purchase_item: the history row, then the patch of the item, which is    *)
(* not asked whether it is purchased already.                              *)
PurchaseItem(u, i) ==
  /\ AtRest
  /\ There(i)
  /\ rows[i][u] < MaxRows
  /\ rows' = [rows EXCEPT ![i][u] = @ + 1]
  /\ Ask("purchase", u, {i}, PurchasePatch(u))
  /\ excused' = IF Bought(list[i]) THEN excused \cup {i} ELSE excused
  /\ UNCHANGED <<clock, list, added, sweep, overwritten>>

UndoneByAnother(u, i) ==
  IF list[i].buyer \notin {u, Nobody} THEN excused \cup {i} ELSE excused

(* Mutants of UndoPurchase: the history row goes first; it never goes; an  *)
(* item that is not in the list is accepted.                               *)
UndoRowFirst(u, i) ==
  /\ AtRest
  /\ There(i)
  /\ rows' = [rows EXCEPT ![i][u] = 0]
  /\ Ask("undo", u, {i}, PurchasePatch(Nobody))
  /\ excused' = UndoneByAnother(u, i)
  /\ UNCHANGED <<clock, list, added, sweep, overwritten>>
UndoKeepsRow(u, i) ==
  /\ AtRest
  /\ There(i)
  /\ Ask("update", u, {i}, PurchasePatch(Nobody))
  /\ excused' = UndoneByAnother(u, i)
  /\ UNCHANGED <<clock, list, added, rows, sweep, overwritten>>
UndoAnything(u, i) ==
  /\ AtRest
  /\ Ask("undo", u, {i}, PurchasePatch(Nobody))
  /\ excused' = UndoneByAnother(u, i)
  /\ UNCHANGED <<clock, list, added, rows, sweep, overwritten>>

(* undo_purchase: the patch of the item, then the rows of the user.        *)
UndoPurchase(u, i) ==
  /\ AtRest
  /\ There(i)
  /\ Ask("undo", u, {i}, PurchasePatch(Nobody))
  /\ excused' = UndoneByAnother(u, i)
  /\ UNCHANGED <<clock, list, added, rows, sweep, overwritten>>

DeleteHistory ==
  /\ request.step = "forget"
  /\ rows' = [i \in Items |-> IF i \in request.items
                              THEN [rows[i] EXCEPT ![request.user] = 0] ELSE rows[i]]
  /\ Finish
  /\ UNCHANGED <<clock, list, added, sweep, excused, overwritten>>

-----------------------------------------------------------------------------
(* update_list_item: an item that is gone is not missed; but the items of  *)
(* an empty list aggregate to NULL, which the column refuses.              *)
UpdateListItem(i) ==
  /\ request.step \in {"update", "purchase", "undo", "clear"}
  /\ i \in request.items
  /\ list' = IF There(i) THEN [list EXCEPT ![i] = Patched(@, request.patch)] ELSE list
  /\ request' = IF list = Empty \/ (request.step # "undo" /\ request.items = {i}) THEN Idle
                ELSE IF request.step = "undo" THEN [request EXCEPT !.step = "forget"]
                ELSE [request EXCEPT !.items = @ \ {i}]
  /\ UNCHANGED <<clock, added, rows, sweep, excused, overwritten>>

(* A call raises, or the process dies, between two calls of the request.   *)
RequestDies ==
  /\ Failures
  /\ ~AtRest
  /\ Finish
  /\ excused' = IF request.step \in {"purchase", "forget"}
                THEN excused \cup request.items ELSE excused
  /\ UNCHANGED <<clock, list, added, rows, sweep, overwritten>>

-----------------------------------------------------------------------------
(* PurchasedItemsCleanupService.run: _load_lists, then _save_items when    *)
(* something was purchased on an earlier day.                              *)

Old(row) == Bought(row) /\ row.day < today

LoadLists ==
  /\ ~sweep.running
  /\ \E i \in Items : Old(list[i])
  /\ sweep' = [running |-> TRUE,
               kept |-> [i \in Items |-> IF Old(list[i]) THEN NoRow ELSE list[i]]]
  /\ UNCHANGED <<clock, list, added, rows, request, excused, overwritten>>

(* The items that changed since they were loaded, and an old one that is   *)
(* removed while its undo is under way: the cleanup should leave them be.  *)
WrittenOver ==
  {i \in Items : /\ list[i] # sweep.kept[i]
                 /\ \/ ~(Old(list[i]) /\ sweep.kept[i] = NoRow)
                    \/ request.step = "undo" /\ i \in request.items}

SaveItems ==
  /\ sweep.running
  /\ list' = sweep.kept
  /\ sweep' = NoSweep
  /\ overwritten' = overwritten \cup WrittenOver
  /\ UNCHANGED <<clock, added, rows, request, excused>>

SweepDies ==
  /\ Failures
  /\ sweep.running
  /\ sweep' = NoSweep
  /\ UNCHANGED <<clock, list, added, rows, request, excused, overwritten>>

NextDay ==
  /\ today < MaxDay
  /\ today' = today + 1
  /\ \E expired \in SUBSET current : current' = current \ expired
  /\ UNCHANGED <<list, added, rows, request, sweep, excused, overwritten>>

RequestStep ==
  \/ ResetList \/ ReadPurchased \/ SaveRemaining \/ RemoveListItem
  \/ DeleteHistory \/ RequestDies
  \/ \E i \in Items : AddItem(i) \/ RemoveItem(i) \/ UpdateListItem(i)
  \/ \E u \in Users : ClearStaleOffers(u)
  \/ \E u \in Users, i \in Items : \/ ToggleItem(u, i) \/ SetItemChecked(u, i)
                                   \/ PatchItem(u, i) \/ PurchaseItem(u, i)
                                   \/ UndoPurchase(u, i)

Next == RequestStep \/ LoadLists \/ SaveItems \/ SweepDies \/ NextDay

Spec == Init /\ [][Next]_vars

-----------------------------------------------------------------------------
(* The types of the variables; who bought an item has a day.               *)
Row == {row \in [checked : Users \cup {Nobody}, buyer : Users \cup {Nobody},
                 day : Day \cup {NoDay}, offer : Offers \cup {NoOffer}, there : BOOLEAN] :
          Bought(row) <=> row.day # NoDay}
Patch == {NoPatch} \cup [checked : Users \cup {Nobody}] \cup [offer : Offers \cup {NoOffer}]
           \cup [buyer : Users \cup {Nobody}, day : Day \cup {NoDay}]
Step == {"idle", "save", "remove", "update", "purchase", "clear", "undo", "forget"}
TypeOK ==
  /\ today \in Day
  /\ current \subseteq Offers
  /\ list \in [Items -> Row]
  /\ added \subseteq Items
  /\ rows \in [Items -> [Users -> 0 .. MaxRows]]
  /\ request \in [step : Step, user : Users \cup {Nobody}, items : SUBSET Items,
                  patch : Patch, kept : [Items -> Row]]
  /\ sweep \in [running : BOOLEAN, kept : [Items -> Row]]
  /\ excused \subseteq Items
  /\ overwritten \subseteq Items

(* Whatever ends half-way, an item that is shown as bought by a member is  *)
(* in the purchase history of that member: purchase_item writes the row    *)
(* before the item, undo_purchase the item before the row.  Excused here   *)
(* and below are the items of which a cleanup has written back a state     *)
(* from before the request: it may bring back the buyer of an item undone. *)
PurchasedHasRow ==
  \A i \in Items \ overwritten : There(i) /\ Bought(list[i]) => rows[i][list[i].buyer] > 0

(* When no request is under way an item of the list stands once in the     *)
(* history of its buyer and in no other, or nowhere when it is not bought. *)
(* Excused are items bought twice, undone by somebody else than the buyer, *)
(* or whose purchase or undo has ended half-way.                           *)
SpendingMatchesList ==
  AtRest => \A i \in Items \ (excused \cup overwritten), u \in Users :
    There(i) => rows[i][u] = IF list[i].buyer = u THEN 1 ELSE 0

(* docs/jobs.md:8, "without touching purchase history": what leaves the    *)
(* list, by the cleanup or by a member, stays in the history.              *)
HistoryKept ==
  [][\A i \in Items \ overwritten, u \in Users :
       rows'[i][u] < rows[i][u] => There(i)]_vars

(* docs/jobs.md:8, "removes purchased list items from previous Rome days": *)
(* the cleanup changes nothing else.                                       *)
CleanupRemovesOnlyOld ==
  [][SaveItems => \A i \in Items :
       list'[i] = list[i] \/ (Old(list[i]) /\ list'[i] = NoRow)]_vars
=============================================================================
