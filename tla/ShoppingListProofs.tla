-------------------------- MODULE ShoppingListProofs --------------------------
(***************************************************************************)
(* Theorems about ShoppingList, for any number of members, items and       *)
(* offers.                                                                 *)
(*                                                                         *)
(* The cleanup runs beside the requests.  List and history agree but for   *)
(* the items of which it has written back a state from before a request    *)
(* (overwritten), whatever it does to them and they to the others.         *)
(***************************************************************************)
EXTENDS ShoppingList, TLAPS

Maybe == Users \cup {Nobody}
Request == [step : Step, user : Maybe, items : SUBSET Items, patch : Patch,
            kept : [Items -> Row]]

(* A request patches what its handler may patch.                           *)
PatchFits ==
  /\ request.step = "update" => request.patch \in [checked : Maybe] \cup [offer : Offers]
  /\ request.step = "clear" => request.patch = [offer |-> NoOffer]
  /\ request.step = "purchase" =>
       /\ request.user \in Users
       /\ \E d \in Day : request.patch = [buyer |-> request.user, day |-> d]
  /\ request.step = "undo" =>
       request.user \in Users /\ request.patch = [buyer |-> Nobody, day |-> NoDay]
  /\ request.step = "forget" => request.user \in Users

USE ListAssumption DEF AtRest, There, Bought, Finish, clock

-----------------------------------------------------------------------------
(* Facts about rows and patches.                                           *)
LEMMA DaysAreNotNoDay == NoDay \notin Day
BY DEF NoDay, Day

LEMMA NoRowTyped == NoRow \in Row /\ NoRow.buyer = Nobody /\ NoRow.there = FALSE
BY DEF NoRow, Row

LEMMA FreshTyped ==
  ASSUME NEW o \in Offers \cup {NoOffer}
  PROVE  Fresh(o) \in Row /\ Fresh(o).buyer = Nobody /\ Fresh(o).there
BY DEF Fresh, NoRow, Row

LEMMA EmptyTyped == Empty \in [Items -> Row]
BY NoRowTyped DEF Empty

LEMMA IdleTyped ==
  /\ Idle \in Request /\ Idle.step = "idle" /\ Idle.items = {} /\ Idle.user = Nobody
  /\ Idle.kept = Empty /\ Idle.patch = NoPatch
BY EmptyTyped DEF Idle, Request, Step, Patch, Maybe

(* A patch changes its fields and no other.                                *)
LEMMA PatchedChecked ==
  ASSUME NEW row \in Row, NEW by \in Maybe
  PROVE  /\ Patched(row, [checked |-> by]) \in Row
         /\ Patched(row, [checked |-> by]).buyer = row.buyer
         /\ Patched(row, [checked |-> by]).there = row.there
<1>1. Patched(row, [checked |-> by]) = [row EXCEPT !.checked = by]
  BY DEF Patched, Row
<1>2. QED
  BY <1>1 DEF Row, Maybe

LEMMA PatchedOffer ==
  ASSUME NEW row \in Row, NEW o \in Offers \cup {NoOffer}
  PROVE  /\ Patched(row, [offer |-> o]) \in Row
         /\ Patched(row, [offer |-> o]).buyer = row.buyer
         /\ Patched(row, [offer |-> o]).there = row.there
<1>1. Patched(row, [offer |-> o]) = [row EXCEPT !.offer = o]
  BY DEF Patched, Row
<1>2. QED
  BY <1>1 DEF Row

LEMMA PatchedBuyer ==
  ASSUME NEW row \in Row, NEW b \in Maybe, NEW d \in Day \cup {NoDay},
         b = Nobody <=> d = NoDay
  PROVE  /\ Patched(row, [buyer |-> b, day |-> d]) \in Row
         /\ Patched(row, [buyer |-> b, day |-> d]).buyer = b
         /\ Patched(row, [buyer |-> b, day |-> d]).there = row.there
<1>1. Patched(row, [buyer |-> b, day |-> d]) =
        [checked |-> row.checked, buyer |-> b, day |-> d, offer |-> row.offer,
         there |-> row.there]
  BY DEF Patched, Row
<1>2. QED
  BY <1>1 DEF Row, Maybe

(* What UpdateListItem makes of an item: it keeps its place, and its buyer *)
(* unless it is purchased or undone.                                       *)
LEMMA UpdatedRow ==
  ASSUME PatchFits, NEW row \in Row,
         request.step \in {"update", "purchase", "undo", "clear"}
  PROVE  /\ Patched(row, request.patch) \in Row
         /\ Patched(row, request.patch).there = row.there
         /\ Patched(row, request.patch).buyer =
              IF request.step = "purchase" THEN request.user
              ELSE IF request.step = "undo" THEN Nobody ELSE row.buyer
<1>1. CASE request.step = "update"
  <2>1. CASE request.patch \in [checked : Maybe]
    <3>1. PICK by \in Maybe : request.patch = [checked |-> by]
      BY <2>1
    <3>2. QED
      BY <1>1, <3>1, PatchedChecked
  <2>2. CASE request.patch \in [offer : Offers]
    <3>1. PICK o \in Offers : request.patch = [offer |-> o]
      BY <2>2
    <3>2. QED
      BY <1>1, <3>1, PatchedOffer
  <2>3. QED
    BY <1>1, <2>1, <2>2 DEF PatchFits
<1>2. CASE request.step = "clear"
  BY <1>2, PatchedOffer DEF PatchFits
<1>3. CASE request.step = "purchase"
  <2>1. PICK d \in Day : request.patch = [buyer |-> request.user, day |-> d]
    BY <1>3 DEF PatchFits
  <2>2. request.user \in Maybe /\ request.user # Nobody /\ d # NoDay
    BY <1>3, DaysAreNotNoDay DEF PatchFits, Maybe
  <2>3. QED
    BY <1>3, <2>1, <2>2, PatchedBuyer
<1>4. CASE request.step = "undo"
  BY <1>4, PatchedBuyer DEF PatchFits, Maybe
<1>5. QED
  BY <1>1, <1>2, <1>3, <1>4

-----------------------------------------------------------------------------
(* Types: a handler asks for a step with a patch of its kind.              *)
ListInv == TypeOK /\ PatchFits

LEMMA AskTyped ==
  ASSUME NEW step \in Step, NEW u \in Maybe, NEW S \in SUBSET Items, NEW patch \in Patch,
         Ask(step, u, S, patch)
  PROVE  /\ request' \in Request
         /\ request'.step = step /\ request'.user = u /\ request'.items = S
         /\ request'.patch = patch
BY IdleTyped DEF Request, Ask

LEMMA PatchesTyped ==
  /\ NoPatch \in Patch
  /\ \A by \in Maybe : [checked |-> by] \in Patch
  /\ \A o \in Offers \cup {NoOffer} : [offer |-> o] \in Patch
  /\ \A b \in Maybe, d \in Day \cup {NoDay} : [buyer |-> b, day |-> d] \in Patch
BY DEF Patch, NoPatch, Maybe

(* Handlers that ask for a step and write nothing else but history rows.   *)
LEMMA AskingStep ==
  ASSUME ListInv, NEW i \in Items, NEW u \in Users,
         \/ ToggleItem(u, i) \/ SetItemChecked(u, i) \/ PatchItem(u, i)
         \/ ClearStaleOffers(u) \/ PurchaseItem(u, i) \/ UndoPurchase(u, i)
  PROVE  request' \in Request /\ PatchFits'
<1> USE DEF ListInv
<1>1. u \in Maybe /\ Nobody \in Maybe /\ {i} \subseteq Items
  BY DEF Maybe
<1>2. CASE ToggleItem(u, i) \/ SetItemChecked(u, i)
  <2>1. PICK by \in Maybe : Ask("update", u, {i}, [checked |-> by])
    BY <1>1, <1>2 DEF ToggleItem, SetItemChecked, Checked
  <2>2. QED
    BY <1>1, <2>1, AskTyped, PatchesTyped DEF PatchFits, Step
<1>3. CASE PatchItem(u, i)
  <2>1. PICK o \in Offers : Ask("update", u, {i}, [offer |-> o])
    BY <1>3 DEF PatchItem, Pinned
  <2>2. QED
    BY <1>1, <2>1, AskTyped, PatchesTyped DEF PatchFits, Step
<1>4. CASE ClearStaleOffers(u)
  <2>1. PICK S \in SUBSET Items : Ask("clear", u, S, [offer |-> NoOffer])
    BY <1>4 DEF ClearStaleOffers, Pinned
  <2>2. QED
    BY <1>1, <2>1, AskTyped, PatchesTyped DEF PatchFits, Step
<1>5. CASE PurchaseItem(u, i)
  <2>1. today \in Day /\ u # Nobody
    BY DEF TypeOK
  <2>2. Ask("purchase", u, {i}, [buyer |-> u, day |-> today])
    BY <1>5, <2>1 DEF PurchaseItem, PurchasePatch
  <2>3. QED
    BY <1>1, <2>1, <2>2, AskTyped, PatchesTyped DEF PatchFits, Step
<1>6. CASE UndoPurchase(u, i)
  <2>1. Ask("undo", u, {i}, [buyer |-> Nobody, day |-> NoDay])
    BY <1>6 DEF UndoPurchase, PurchasePatch
  <2>2. QED
    BY <1>1, <2>1, AskTyped, PatchesTyped DEF PatchFits, Step
<1>7. QED
  BY <1>2, <1>3, <1>4, <1>5, <1>6

LEMMA AskingTypes ==
  ASSUME ListInv, NEW i \in Items, NEW u \in Users,
         \/ ToggleItem(u, i) \/ SetItemChecked(u, i) \/ PatchItem(u, i)
         \/ ClearStaleOffers(u) \/ PurchaseItem(u, i) \/ UndoPurchase(u, i)
  PROVE  ListInv'
<1>1. request' \in Request /\ PatchFits'
  BY AskingStep
<1>2. UNCHANGED <<clock, list, added, sweep, overwritten>>
      /\ excused' \subseteq excused \cup {i}
  BY DEF ToggleItem, SetItemChecked, PatchItem, ClearStaleOffers, PurchaseItem,
         UndoPurchase, UndoneByAnother
<1>3. rows' = rows \/ (rows[i][u] < MaxRows /\ rows' = [rows EXCEPT ![i][u] = rows[i][u] + 1])
  BY DEF ToggleItem, SetItemChecked, PatchItem, ClearStaleOffers, PurchaseItem,
         UndoPurchase
<1>4. rows' \in [Items -> [Users -> 0 .. MaxRows]]
  <2>1. CASE rows' = rows
    BY <2>1 DEF ListInv, TypeOK
  <2>2. CASE rows[i][u] < MaxRows /\ rows' = [rows EXCEPT ![i][u] = rows[i][u] + 1]
    <3>1. rows[i] \in [Users -> 0 .. MaxRows] /\ rows[i][u] + 1 \in 0 .. MaxRows
      BY <2>2 DEF ListInv, TypeOK
    <3>2. rows' = [rows EXCEPT ![i] = [rows[i] EXCEPT ![u] = rows[i][u] + 1]]
      BY <2>2
    <3>3. [rows[i] EXCEPT ![u] = rows[i][u] + 1] \in [Users -> 0 .. MaxRows]
      BY <3>1
    <3>4. QED
      BY <3>2, <3>3 DEF ListInv, TypeOK
  <2>3. QED
    BY <1>3, <2>1, <2>2
<1>5. QED
  BY <1>1, <1>2, <1>4 DEF ListInv, TypeOK, Request, Maybe

LEMMA RemoveTypes ==
  ASSUME ListInv, NEW i \in Items, RemoveItem(i)
  PROVE  ListInv'
<1>1. Ask("remove", Nobody, {i}, NoPatch)
  BY DEF RemoveItem
<1>2. request' \in Request /\ PatchFits'
  BY <1>1, AskTyped, PatchesTyped DEF PatchFits, Step, Maybe
<1>3. QED
  BY <1>2 DEF RemoveItem, ListInv, TypeOK, Request, Maybe

(* Handlers that end, or go on to another call of theirs.                  *)
LEMMA UpdateTypes ==
  ASSUME ListInv, NEW i \in Items, UpdateListItem(i)
  PROVE  ListInv'
<1> USE DEF ListInv
<1>1. request.step \in {"update", "purchase", "undo", "clear"} /\ request \in Request
  BY DEF UpdateListItem, TypeOK, Request, Maybe
<1>2. list[i] \in Row
  BY DEF TypeOK
<1>3. list' \in [Items -> Row]
  <2>1. Patched(list[i], request.patch) \in Row
    BY <1>1, <1>2, UpdatedRow
  <2>2. QED
    BY <2>1 DEF UpdateListItem, TypeOK
<1>4. \/ request' = Idle
      \/ request' = [request EXCEPT !.step = "forget"] /\ request.step = "undo"
      \/ request' = [request EXCEPT !.items = request.items \ {i}]
  BY DEF UpdateListItem
<1>5. request' \in Request /\ PatchFits'
  <2>1. CASE request' = Idle
    BY <2>1, IdleTyped DEF PatchFits
  <2>2. CASE request' = [request EXCEPT !.step = "forget"] /\ request.step = "undo"
    BY <1>1, <2>2 DEF PatchFits, Request, Step
  <2>3. CASE request' = [request EXCEPT !.items = request.items \ {i}]
    <3>1. request' \in Request /\ request'.step = request.step
          /\ request'.user = request.user /\ request'.patch = request.patch
      BY <1>1, <2>3 DEF Request
    <3>2. QED
      BY <3>1 DEF PatchFits
  <2>4. QED
    BY <1>4, <2>1, <2>2, <2>3
<1>6. UNCHANGED <<clock, added, rows, sweep, excused, overwritten>>
  BY DEF UpdateListItem
<1>7. QED
  BY <1>3, <1>5, <1>6 DEF TypeOK, Request, Maybe

LEMMA WholeListTypes ==
  ASSUME ListInv, \/ ResetList \/ ReadPurchased \/ SaveRemaining \/ RemoveListItem
                  \/ \E i \in Items : AddItem(i)
  PROVE  ListInv'
<1> USE DEF ListInv
<1>1. list' \in [Items -> Row]
  <2>1. CASE ResetList \/ RemoveListItem
    BY <2>1, EmptyTyped, NoRowTyped DEF ResetList, RemoveListItem, TypeOK
  <2>2. CASE ReadPurchased \/ SaveRemaining
    BY <2>2 DEF ReadPurchased, SaveRemaining, TypeOK
  <2>3. CASE \E i \in Items : AddItem(i)
    BY <2>3, FreshTyped DEF AddItem, Appended, TypeOK
  <2>4. QED
    BY <2>1, <2>2, <2>3
<1>2. request' \in Request /\ PatchFits'
  <2>1. CASE ReadPurchased
    <3>1. [i \in Items |-> IF list[i].buyer # Nobody THEN NoRow ELSE list[i]] \in [Items -> Row]
      BY NoRowTyped DEF TypeOK
    <3>2. QED
      BY <2>1, <3>1, IdleTyped DEF ReadPurchased, PatchFits, Request, Step
  <2>2. CASE ~ReadPurchased
    <3>1. request' = Idle \/ request' = request
      BY <2>2 DEF ResetList, SaveRemaining, RemoveListItem, AddItem
    <3>2. request \in Request
      BY DEF TypeOK, Request, Maybe
    <3>3. QED
      BY <3>1, <3>2, IdleTyped DEF PatchFits
  <2>3. QED
    BY <2>1, <2>2
<1>3. UNCHANGED <<clock, rows, sweep, excused, overwritten>> /\ added' \subseteq Items
  BY DEF ResetList, ReadPurchased, SaveRemaining, RemoveListItem, AddItem, TypeOK
<1>4. QED
  BY <1>1, <1>2, <1>3 DEF TypeOK, Request, Maybe

LEMMA EndingTypes ==
  ASSUME ListInv, DeleteHistory \/ RequestDies
  PROVE  ListInv'
<1> USE DEF ListInv
<1>1. rows' \in [Items -> [Users -> 0 .. MaxRows]]
  <2>1. CASE DeleteHistory
    <3>1. 0 \in 0 .. MaxRows /\ \A i \in Items : rows[i] \in [Users -> 0 .. MaxRows]
      BY DEF TypeOK
    <3>2. \A i \in Items : [rows[i] EXCEPT ![request.user] = 0] \in [Users -> 0 .. MaxRows]
      BY <3>1
    <3>3. QED
      BY <2>1, <3>2 DEF DeleteHistory, TypeOK
  <2>2. CASE RequestDies
    BY <2>2 DEF RequestDies, TypeOK
  <2>3. QED
    BY <2>1, <2>2
<1>2. request' = Idle /\ UNCHANGED <<clock, list, added, sweep, overwritten>>
      /\ excused' \subseteq excused \cup request.items
  BY DEF DeleteHistory, RequestDies
<1>3. PatchFits'
  BY <1>2, IdleTyped DEF PatchFits
<1>4. request' \in Request /\ excused' \subseteq Items
  BY <1>2, IdleTyped DEF TypeOK
<1>5. QED
  BY <1>1, <1>2, <1>3, <1>4 DEF TypeOK, Request, Maybe

LEMMA SweepTypes ==
  ASSUME ListInv, LoadLists \/ SaveItems \/ SweepDies \/ NextDay
  PROVE  ListInv'
<1> USE DEF ListInv
<1>1. UNCHANGED <<added, rows, request, excused>>
  BY DEF LoadLists, SaveItems, SweepDies, NextDay
<1>2. PatchFits'
  BY <1>1 DEF PatchFits
<1>3. list' \in [Items -> Row]
  BY DEF LoadLists, SaveItems, SweepDies, NextDay, TypeOK
<1>4. sweep' \in [running : BOOLEAN, kept : [Items -> Row]]
  <2>1. CASE LoadLists
    <3>1. [i \in Items |-> IF Old(list[i]) THEN NoRow ELSE list[i]] \in [Items -> Row]
      BY NoRowTyped DEF TypeOK
    <3>2. QED
      BY <2>1, <3>1 DEF LoadLists
  <2>2. CASE SaveItems \/ SweepDies \/ NextDay
    <3>1. NoSweep \in [running : BOOLEAN, kept : [Items -> Row]]
      BY EmptyTyped DEF NoSweep
    <3>2. sweep' = NoSweep \/ sweep' = sweep
      BY <2>2 DEF SaveItems, SweepDies, NextDay
    <3>3. QED
      BY <3>1, <3>2 DEF TypeOK
  <2>3. QED
    BY <2>1, <2>2
<1>5. today' \in Day /\ current' \subseteq Offers
  BY DEF LoadLists, SaveItems, SweepDies, NextDay, TypeOK, Day
<1>6. overwritten' \subseteq Items
  BY DEF LoadLists, SaveItems, SweepDies, NextDay, TypeOK, WrittenOver
<1>7. QED
  BY <1>1, <1>2, <1>3, <1>4, <1>5, <1>6 DEF TypeOK

LEMMA ListInitial == Init => ListInv
<1>1. SUFFICES ASSUME Init PROVE ListInv
  OBVIOUS
<1>2. PatchFits
  BY <1>1, IdleTyped DEF Init, PatchFits
<1>3. today \in Day /\ rows \in [Items -> [Users -> 0 .. MaxRows]]
  BY <1>1 DEF Init, Day
<1>4. request \in Request /\ list \in [Items -> Row]
      /\ sweep \in [running : BOOLEAN, kept : [Items -> Row]]
  BY <1>1, IdleTyped, EmptyTyped DEF Init, NoSweep
<1>5. QED
  BY <1>1, <1>2, <1>3, <1>4 DEF Init, ListInv, TypeOK, Request, Maybe

LEMMA ListStep == ListInv /\ [Next]_vars => ListInv'
<1>1. SUFFICES ASSUME ListInv, [Next]_vars PROVE ListInv'
  OBVIOUS
<1>2. CASE UNCHANGED vars
  BY <1>1, <1>2 DEF vars, ListInv, TypeOK, PatchFits
<1>3. CASE \E u \in Users : ClearStaleOffers(u)
  <2>1. \E i \in Items : TRUE
    BY <1>3 DEF ClearStaleOffers
  <2>2. QED
    BY <1>1, <1>3, <2>1, AskingTypes
<1>4. CASE \E u \in Users, i \in Items : \/ ToggleItem(u, i) \/ SetItemChecked(u, i)
                                         \/ PatchItem(u, i) \/ PurchaseItem(u, i)
                                         \/ UndoPurchase(u, i)
  BY <1>1, <1>4, AskingTypes
<1>5. CASE \E i \in Items : RemoveItem(i)
  BY <1>1, <1>5, RemoveTypes
<1>6. CASE \E i \in Items : UpdateListItem(i)
  BY <1>1, <1>6, UpdateTypes
<1>7. CASE \/ ResetList \/ ReadPurchased \/ SaveRemaining \/ RemoveListItem
           \/ \E i \in Items : AddItem(i)
  BY <1>1, <1>7, WholeListTypes
<1>8. CASE DeleteHistory \/ RequestDies
  BY <1>1, <1>8, EndingTypes
<1>9. CASE LoadLists \/ SaveItems \/ SweepDies \/ NextDay
  BY <1>1, <1>9, SweepTypes
<1>10. QED
  BY <1>1, <1>2, <1>3, <1>4, <1>5, <1>6, <1>7, <1>8, <1>9 DEF Next, RequestStep

(* lists.py, purchases.py and purchased_items_cleanup.py keep the types;   *)
(* in particular who has bought an item has a day, also after any patch.   *)
THEOREM ListTypes == Spec => []TypeOK
<1>1. ListInv => TypeOK
  BY DEF ListInv
<1>2. QED
  BY ListInitial, ListStep, <1>1, PTL DEF Spec

-----------------------------------------------------------------------------
(* List and history, while a cleanup runs beside the requests.             *)

(* The items that remove_purchased_items writes back are still true: those *)
(* that the cleanup has removed meanwhile were bought, and are not kept.   *)
CopiesHold ==
  request.step = "save" =>
    \A i \in Items \ overwritten :
      /\ request.kept[i] \in {NoRow, list[i]}
      /\ Bought(list[i]) => request.kept[i] = NoRow

(* An id that was never drawn has no item, in any copy, and no history.    *)
FreshIds ==
  \A i \in Items \ added :
    /\ ~There(i) /\ ~sweep.kept[i].there /\ ~request.kept[i].there
    /\ \A u \in Users : rows[i][u] = 0

(* A purchase and an undo concern one item, which is in the list, unless   *)
(* the cleanup has removed it from under them.                             *)
ItemIsThere ==
  request.step \in {"purchase", "undo", "forget"} =>
    \E i \in Items :
      /\ request.items = {i}
      /\ There(i) \/ i \in overwritten \/ (request.step = "purchase" /\ i \in excused)

Matches(i) == There(i) => \A u \in Users : rows[i][u] = IF list[i].buyer = u THEN 1 ELSE 0

(* Between the history row and the item, the row is there and the buyer is *)
(* not; between the item and the rows of an undo, the buyer is gone and    *)
(* nobody else has a row.                                                  *)
HalfPurchased(i) ==
  /\ rows[i][request.user] > 0
  /\ i \notin excused \cup overwritten =>
       /\ ~Bought(list[i])
       /\ \A u \in Users : rows[i][u] = IF u = request.user THEN 1 ELSE 0
HalfUndone(i) ==
  i \notin overwritten =>
    /\ ~Bought(list[i])
    /\ i \notin excused => \A u \in Users \ {request.user} : rows[i][u] = 0

HalfWay ==
  \A i \in request.items :
    /\ request.step = "purchase" => HalfPurchased(i)
    /\ request.step = "undo" /\ i \notin excused \cup overwritten =>
         list[i].buyer \in {request.user, Nobody}
    /\ request.step = "forget" => HalfUndone(i)

OthersMatch ==
  \A i \in Items \ (excused \cup overwritten) :
    (request.step \in {"purchase", "forget"} => i \notin request.items) => Matches(i)

HistoryInv ==
  CopiesHold /\ FreshIds /\ ItemIsThere /\ HalfWay /\ PurchasedHasRow /\ OthersMatch

(* One step of HistoryKept.                                                *)
KeepsHistory ==
  \A i \in Items \ overwritten, u \in Users : rows'[i][u] < rows[i][u] => There(i)

(* The copies of the requests that hold none are empty.                    *)
LEMMA EmptyCopies == \A i \in Items : ~Idle.kept[i].there /\ ~NoSweep.kept[i].there
BY IdleTyped, NoRowTyped DEF Empty, NoSweep

(* A step that at most takes items from the list, or asks for a step which *)
(* is not about the history.                                               *)
LEMMA LeavingStep ==
  ASSUME ListInv, ListInv', HistoryInv, FreshIds',
         \A i \in Items \ overwritten : list'[i] \in {NoRow, list[i]},
         UNCHANGED <<rows, overwritten>>, excused \subseteq excused',
         request'.step \in {"idle", "save", "remove", "update", "clear"},
         request.step \in {"purchase", "forget"} => request.items \subseteq excused',
         CopiesHold'
  PROVE  HistoryInv' /\ KeepsHistory
<1> USE DEF HistoryInv
<1>1. PurchasedHasRow'
  BY NoRowTyped DEF PurchasedHasRow
<1>2. ItemIsThere' /\ HalfWay'
  BY DEF ItemIsThere, HalfWay
<1>3. OthersMatch'
  BY NoRowTyped DEF OthersMatch, Matches
<1>4. KeepsHistory
  BY DEF KeepsHistory, ListInv, TypeOK
<1>5. QED
  BY <1>1, <1>2, <1>3, <1>4

LEMMA QuietRequests ==
  ASSUME ListInv, ListInv', HistoryInv,
         \/ \E u \in Users, i \in Items :
              ToggleItem(u, i) \/ SetItemChecked(u, i) \/ PatchItem(u, i)
         \/ \E u \in Users : ClearStaleOffers(u)
         \/ \E i \in Items : RemoveItem(i)
         \/ ResetList \/ ReadPurchased \/ SaveRemaining \/ RemoveListItem \/ RequestDies
  PROVE  HistoryInv' /\ KeepsHistory
<1> USE DEF HistoryInv, ListInv
<1>1. UNCHANGED <<added, rows, sweep, overwritten>> /\ excused \subseteq excused'
  BY DEF RemoveItem, ToggleItem, SetItemChecked, PatchItem, ClearStaleOffers,
         ResetList, ReadPurchased, SaveRemaining, RemoveListItem, RequestDies
<1>2. request.step \in {"purchase", "forget"} => request.items \subseteq excused'
  BY IdleTyped DEF RemoveItem, ToggleItem, SetItemChecked, PatchItem, ClearStaleOffers,
         ResetList, ReadPurchased, SaveRemaining, RemoveListItem, RequestDies
<1>3. CASE ReadPurchased
  <2>1. /\ list' = list /\ request'.step = "save"
        /\ \A i \in Items : request'.kept[i] = IF Bought(list[i]) THEN NoRow ELSE list[i]
    BY <1>3, IdleTyped DEF ReadPurchased, Idle
  <2>2. CopiesHold'
    BY <1>1, <2>1 DEF CopiesHold
  <2>3. FreshIds'
    BY <1>1, <2>1, NoRowTyped DEF FreshIds
  <2>4. QED
    BY <1>1, <1>2, <2>1, <2>2, <2>3, LeavingStep
<1>4. CASE ~ReadPurchased
  <2>1. request'.step \in {"idle", "remove", "update", "clear"}
    BY <1>4, IdleTyped DEF RemoveItem, ToggleItem, SetItemChecked, PatchItem, ClearStaleOffers,
         ResetList, SaveRemaining, RemoveListItem, RequestDies, Ask, Idle
  <2>2. request'.kept \in {request.kept, Idle.kept}
    BY <1>4 DEF RemoveItem, ToggleItem, SetItemChecked, PatchItem, ClearStaleOffers,
         ResetList, SaveRemaining, RemoveListItem, RequestDies, Ask, Idle
  <2>3. \A j \in Items : list'[j] \in {NoRow, list[j], request.kept[j]}
    <3>1. CASE SaveRemaining
      BY <3>1 DEF SaveRemaining
    <3>2. CASE ResetList \/ RemoveListItem
      BY <3>2 DEF ResetList, RemoveListItem, Empty
    <3>3. CASE ~SaveRemaining /\ ~ResetList /\ ~RemoveListItem
      BY <1>4, <3>3 DEF RemoveItem, ToggleItem, SetItemChecked, PatchItem, ClearStaleOffers,
         RequestDies
    <3>4. QED
      BY <3>1, <3>2, <3>3
  <2>4. \A j \in Items \ overwritten : list'[j] \in {NoRow, list[j]}
    <3>1. CASE SaveRemaining
      BY <3>1 DEF SaveRemaining, CopiesHold
    <3>2. CASE ResetList \/ RemoveListItem
      BY <3>2 DEF ResetList, RemoveListItem, Empty
    <3>3. CASE ~SaveRemaining /\ ~ResetList /\ ~RemoveListItem
      BY <1>4, <3>3 DEF RemoveItem, ToggleItem, SetItemChecked, PatchItem, ClearStaleOffers,
         RequestDies
    <3>4. QED
      BY <3>1, <3>2, <3>3
  <2>5. FreshIds'
    BY <1>1, <2>2, <2>3, NoRowTyped, EmptyCopies DEF FreshIds
  <2>6. CopiesHold'
    BY <2>1 DEF CopiesHold
  <2>7. QED
    BY <1>1, <1>2, <2>1, <2>4, <2>5, <2>6, LeavingStep
<1>5. QED
  BY <1>3, <1>4

(* A cleanup that has loaded the list, or ends, leaves list and history.   *)
LEMMA SweepSteps ==
  ASSUME ListInv, ListInv', HistoryInv, LoadLists \/ SweepDies
  PROVE  HistoryInv' /\ KeepsHistory
<1> USE DEF HistoryInv
<1>1. UNCHANGED <<list, added, rows, request, excused, overwritten>>
  BY DEF LoadLists, SweepDies
<1>2. \A i \in Items : sweep'.kept[i].there => There(i)
  BY NoRowTyped, EmptyCopies DEF LoadLists, SweepDies
<1>3. FreshIds'
  BY <1>1, <1>2 DEF FreshIds
<1>4. CopiesHold' /\ ItemIsThere' /\ HalfWay' /\ PurchasedHasRow' /\ OthersMatch'
  BY <1>1 DEF CopiesHold, ItemIsThere, HalfWay, HalfPurchased, HalfUndone, PurchasedHasRow,
              OthersMatch, Matches
<1>5. KeepsHistory
  BY <1>1 DEF KeepsHistory, ListInv, TypeOK
<1>6. QED
  BY <1>3, <1>4, <1>5

(* A cleanup writes the list back.  An item it does not write over was     *)
(* left alone or, bought, taken from the list; no undo waits for it then,  *)
(* and no purchase but one of an item bought twice.                        *)
LEMMA SaveItemsStep ==
  ASSUME ListInv, ListInv', HistoryInv, SaveItems
  PROVE  HistoryInv' /\ KeepsHistory
<1> USE DEF HistoryInv
<1>1. /\ UNCHANGED <<added, rows, request, excused>> /\ list' = sweep.kept
      /\ overwritten' = overwritten \cup WrittenOver /\ sweep' = NoSweep
  BY DEF SaveItems
<1>2. \A i \in Items \ overwritten' :
        \/ list'[i] = list[i]
        \/ /\ Bought(list[i]) /\ list'[i] = NoRow
           /\ ~(request.step = "undo" /\ i \in request.items)
  BY <1>1 DEF WrittenOver, Old
<1>3. \A i \in Items \ overwritten' : i \notin overwritten
  BY <1>1
<1>4. FreshIds'
  BY <1>1, EmptyCopies DEF FreshIds
<1>5. CopiesHold'
  BY <1>1, <1>2, <1>3, NoRowTyped DEF CopiesHold
<1>6. PurchasedHasRow'
  BY <1>1, <1>2, <1>3, NoRowTyped DEF PurchasedHasRow
<1>7. OthersMatch'
  BY <1>1, <1>2, <1>3, NoRowTyped DEF OthersMatch, Matches
<1>8. HalfWay'
  <2>1. ASSUME NEW i \in request.items, i \in Items, request.step = "purchase"
        PROVE  HalfPurchased(i)'
    BY <1>1, <1>2, <1>3, <2>1, NoRowTyped DEF HalfWay, HalfPurchased
  <2>2. ASSUME NEW i \in request.items, i \in Items, request.step = "forget"
        PROVE  HalfUndone(i)'
    BY <1>1, <1>2, <1>3, <2>2, NoRowTyped DEF HalfWay, HalfUndone
  <2>3. ASSUME NEW i \in request.items, i \in Items, request.step = "undo",
               i \notin excused' \cup overwritten'
        PROVE  list'[i].buyer \in {request.user, Nobody}
    BY <1>1, <1>2, <1>3, <2>3, NoRowTyped DEF HalfWay
  <2>4. request.items \subseteq Items
    BY DEF ListInv, TypeOK
  <2>5. QED
    BY <1>1, <2>1, <2>2, <2>3, <2>4 DEF HalfWay
<1>9. ItemIsThere'
  <2>1. SUFFICES ASSUME request.step \in {"purchase", "undo", "forget"}
                 PROVE  \E i \in Items :
                          /\ request.items = {i}
                          /\ \/ list'[i].there \/ i \in overwritten'
                             \/ request.step = "purchase" /\ i \in excused
    BY <1>1 DEF ItemIsThere
  <2>2. PICK i \in Items :
          /\ request.items = {i}
          /\ There(i) \/ i \in overwritten \/ (request.step = "purchase" /\ i \in excused)
    BY <2>1 DEF ItemIsThere
  <2>3. ASSUME i \notin overwritten', list'[i] # list[i]
        PROVE  request.step = "purchase" /\ i \in excused
    <3>1. Bought(list[i]) /\ request.step # "undo" /\ i \notin overwritten
      BY <1>2, <1>3, <2>2, <2>3
    <3>2. request.step # "forget"
      BY <2>2, <3>1 DEF HalfWay, HalfUndone
    <3>3. request.step = "purchase"
      BY <2>1, <3>1, <3>2
    <3>4. QED
      BY <2>2, <3>1, <3>3 DEF HalfWay, HalfPurchased
  <2>4. QED
    BY <1>1, <2>2, <2>3
<1>10. KeepsHistory
  BY <1>1 DEF KeepsHistory, ListInv, TypeOK
<1>11. QED
  BY <1>4, <1>5, <1>6, <1>7, <1>8, <1>9, <1>10

LEMMA NextDayStep ==
  ASSUME ListInv, HistoryInv, NextDay \/ UNCHANGED vars
  PROVE  HistoryInv' /\ KeepsHistory
<1>1. UNCHANGED <<list, added, rows, request, sweep, excused, overwritten>>
  BY DEF NextDay, vars
<1>2. QED
  BY <1>1 DEF HistoryInv, KeepsHistory, CopiesHold, FreshIds, ItemIsThere, HalfWay,
              HalfPurchased, HalfUndone, PurchasedHasRow, OthersMatch, Matches, ListInv, TypeOK

(* A new item has no history, and is not bought.                           *)
LEMMA AddItemStep ==
  ASSUME ListInv, ListInv', HistoryInv, NEW i \in Items, AddItem(i)
  PROVE  HistoryInv' /\ KeepsHistory
<1> USE DEF HistoryInv, AddItem
<1>1. PICK o \in Offers \cup {NoOffer} : list' = Appended(i, o)
  OBVIOUS
<1>2. Fresh(o).buyer = Nobody /\ Fresh(o).there
  BY FreshTyped
<1>3. list' = list \/ list' = [list EXCEPT ![i] = Fresh(o)]
  BY <1>1 DEF Appended
<1>4. \A j \in Items \ {i} : list'[j] = list[j]
  BY <1>3 DEF ListInv, TypeOK
<1>5. list'[i] = list[i] \/ list'[i] = Fresh(o)
  BY <1>3 DEF ListInv, TypeOK
<1>6. request.step = "idle" /\ UNCHANGED <<rows, request, sweep, excused, overwritten>>
      /\ added' = added \cup {i}
  BY IdleTyped
<1>7. \A u \in Users : rows[i][u] = 0
  BY DEF FreshIds
<1>8. CopiesHold' /\ FreshIds' /\ ItemIsThere'
  BY <1>4, <1>6 DEF CopiesHold, FreshIds, ItemIsThere
<1>9. HalfWay' /\ PurchasedHasRow' /\ OthersMatch'
  <2>1. HalfWay'
    BY <1>6 DEF HalfWay
  <2>2. PurchasedHasRow'
    BY <1>2, <1>4, <1>5, <1>6 DEF PurchasedHasRow
  <2>3. \A j \in Items : Matches(j) => Matches(j)'
    BY <1>2, <1>4, <1>5, <1>6, <1>7 DEF Matches
  <2>4. QED
    BY <1>6, <2>1, <2>2, <2>3 DEF OthersMatch
<1>10. KeepsHistory
  BY <1>6 DEF KeepsHistory, ListInv, TypeOK
<1>11. QED
  BY <1>8, <1>9, <1>10

(* purchase_item: the history row comes first.                             *)
LEMMA PurchaseStep ==
  ASSUME ListInv, ListInv', HistoryInv, NEW i \in Items, NEW u \in Users,
         PurchaseItem(u, i)
  PROVE  HistoryInv' /\ KeepsHistory
<1> USE DEF HistoryInv
<1>1. /\ request.step = "idle" /\ There(i)
      /\ UNCHANGED <<list, added, sweep, overwritten>>
      /\ excused' = IF Bought(list[i]) THEN excused \cup {i} ELSE excused
  BY IdleTyped DEF PurchaseItem
<1>2. /\ request'.step = "purchase" /\ request'.user = u /\ request'.items = {i}
      /\ request'.kept = Idle.kept
  BY IdleTyped DEF PurchaseItem, Ask, Idle
<1>3. /\ rows'[i][u] = rows[i][u] + 1
      /\ \A v \in Users \ {u} : rows'[i][v] = rows[i][v]
      /\ \A j \in Items \ {i} : rows'[j] = rows[j]
  BY DEF PurchaseItem, ListInv, TypeOK
<1>4. \A j \in Items, v \in Users : rows[j][v] \in Nat
  BY DEF ListInv, TypeOK
<1>5. CopiesHold' /\ FreshIds' /\ ItemIsThere'
  <2>1. i \in added
    BY <1>1 DEF FreshIds
  <2>2. QED
    BY <1>1, <1>2, <1>3, <2>1, EmptyCopies DEF CopiesHold, FreshIds, ItemIsThere
<1>6. HalfPurchased(i)'
  <2>1. rows'[i][u] > 0
    BY <1>3, <1>4
  <2>2. ASSUME i \notin excused' \cup overwritten'
        PROVE  /\ ~Bought(list[i])
               /\ \A v \in Users : rows'[i][v] = IF v = u THEN 1 ELSE 0
    <3>1. ~Bought(list[i]) /\ i \notin excused \cup overwritten
      BY <1>1, <2>2
    <3>2. \A v \in Users : rows[i][v] = 0
      BY <1>1, <3>1 DEF OthersMatch, Matches
    <3>3. QED
      BY <1>3, <3>1, <3>2
  <2>3. QED
    BY <1>1, <1>2, <2>1, <2>2 DEF HalfPurchased
<1>7. HalfWay'
  BY <1>2, <1>6 DEF HalfWay
<1>8. PurchasedHasRow'
  <2>1. \A j \in Items, v \in Users : rows[j][v] > 0 => rows'[j][v] > 0
    BY <1>3, <1>4
  <2>2. \A j \in Items : Bought(list[j]) => list[j].buyer \in Users
    BY DEF ListInv, TypeOK, Row
  <2>3. QED
    BY <1>1, <2>1, <2>2 DEF PurchasedHasRow
<1>9. OthersMatch'
  BY <1>1, <1>2, <1>3 DEF OthersMatch, Matches
<1>10. KeepsHistory
  BY <1>3, <1>4 DEF KeepsHistory
<1>11. QED
  BY <1>5, <1>7, <1>8, <1>9, <1>10

(* undo_purchase asks first for the item.                                  *)
LEMMA UndoStep ==
  ASSUME ListInv, ListInv', HistoryInv, NEW i \in Items, NEW u \in Users,
         UndoPurchase(u, i)
  PROVE  HistoryInv' /\ KeepsHistory
<1> USE DEF HistoryInv
<1>1. /\ request.step = "idle" /\ There(i)
      /\ UNCHANGED <<list, added, rows, sweep, overwritten>>
      /\ excused' = IF list[i].buyer \notin {u, Nobody} THEN excused \cup {i} ELSE excused
  BY IdleTyped DEF UndoPurchase, UndoneByAnother
<1>2. /\ request'.step = "undo" /\ request'.user = u /\ request'.items = {i}
      /\ request'.kept = Idle.kept
  BY IdleTyped DEF UndoPurchase, Ask, Idle
<1>3. CopiesHold' /\ FreshIds' /\ ItemIsThere'
  BY <1>1, <1>2, EmptyCopies DEF CopiesHold, FreshIds, ItemIsThere
<1>4. HalfWay' /\ PurchasedHasRow' /\ OthersMatch'
  BY <1>1, <1>2 DEF HalfWay, PurchasedHasRow, OthersMatch, Matches
<1>5. KeepsHistory
  BY <1>1 DEF KeepsHistory, ListInv, TypeOK
<1>6. QED
  BY <1>3, <1>4, <1>5

(* The patch of an item completes a purchase, or takes the buyer from it.  *)
LEMMA UpdateStep ==
  ASSUME ListInv, ListInv', HistoryInv, NEW i \in Items, UpdateListItem(i)
  PROVE  HistoryInv' /\ KeepsHistory
<1> USE DEF HistoryInv
<1> DEFINE step == request.step
<1>1. /\ step \in {"update", "purchase", "undo", "clear"} /\ i \in request.items
      /\ UNCHANGED <<added, rows, sweep, excused, overwritten>>
  BY DEF UpdateListItem
<1>2. request'.step # "save" /\ request'.kept \in {request.kept, Idle.kept}
  BY <1>1, IdleTyped DEF UpdateListItem, ListInv, TypeOK
<1>3. /\ list'[i].there = list[i].there
      /\ There(i) => list'[i].buyer = IF step = "purchase" THEN request.user
                                      ELSE IF step = "undo" THEN Nobody ELSE list[i].buyer
      /\ ~There(i) => list'[i] = list[i]
      /\ \A j \in Items \ {i} : list'[j] = list[j]
  <2>1. list[i] \in Row
    BY DEF ListInv, TypeOK
  <2>2. CASE There(i)
    <3>1. list' = [list EXCEPT ![i] = Patched(list[i], request.patch)]
      BY <2>2 DEF UpdateListItem
    <3>2. QED
      BY <1>1, <2>1, <2>2, <3>1, UpdatedRow DEF ListInv, TypeOK
  <2>3. CASE ~There(i)
    BY <2>3 DEF UpdateListItem
  <2>4. QED
    BY <2>2, <2>3
<1>4. There(i) => list # Empty
  BY NoRowTyped DEF Empty
<1>5. KeepsHistory
  BY <1>1 DEF KeepsHistory, ListInv, TypeOK
<1>6. FreshIds' /\ CopiesHold'
  BY <1>1, <1>2, <1>3, EmptyCopies DEF FreshIds, CopiesHold
<1>7. CASE step = "purchase"
  <2>1. request.items = {i} /\ HalfPurchased(i) /\ request.user \in Users
        /\ (i \notin excused \cup overwritten => There(i))
    BY <1>1, <1>7 DEF ItemIsThere, HalfWay, ListInv, PatchFits
  <2>2. request'.step = "idle" /\ request'.items = {}
    BY <1>7, <2>1, IdleTyped DEF UpdateListItem
  <2>3. ItemIsThere' /\ HalfWay'
    BY <2>2 DEF ItemIsThere, HalfWay
  <2>4. PurchasedHasRow'
    BY <1>1, <1>3, <1>7, <2>1 DEF PurchasedHasRow, HalfPurchased
  <2>5. OthersMatch'
    BY <1>1, <1>3, <1>7, <2>1 DEF OthersMatch, Matches, HalfPurchased
  <2>6. QED
    BY <1>5, <1>6, <2>3, <2>4, <2>5
<1>8. CASE step = "undo"
  <2>1. /\ request.items = {i} /\ request.user \in Users
        /\ i \notin overwritten => There(i)
        /\ i \notin excused \cup overwritten =>
             list[i].buyer \in {request.user, Nobody} /\ Matches(i)
    BY <1>1, <1>8 DEF ItemIsThere, HalfWay, OthersMatch, ListInv, PatchFits
  <2>2. \/ request'.step = "idle" /\ request'.items = {} /\ i \in overwritten
        \/ /\ request'.step = "forget" /\ request'.items = {i}
           /\ request'.user = request.user
    BY <1>4, <1>8, <2>1, IdleTyped DEF UpdateListItem, ListInv, TypeOK
  <2>3. i \notin overwritten => list'[i].buyer = Nobody
    BY <1>3, <1>8, <2>1
  <2>4. request'.step = "forget" => HalfUndone(i)'
    BY <1>1, <2>1, <2>2, <2>3 DEF HalfUndone, Matches
  <2>5. ItemIsThere' /\ HalfWay'
    BY <1>1, <1>3, <2>1, <2>2, <2>4 DEF ItemIsThere, HalfWay
  <2>6. PurchasedHasRow'
    BY <1>1, <1>3, <2>3 DEF PurchasedHasRow
  <2>7. OthersMatch'
    BY <1>1, <1>3, <1>8, <2>1, <2>2 DEF OthersMatch, Matches
  <2>8. QED
    BY <1>5, <1>6, <2>5, <2>6, <2>7
<1>9. CASE step \in {"update", "clear"}
  <2>1. request'.step \in {"idle", "update", "clear"}
    BY <1>9, IdleTyped DEF UpdateListItem, ListInv, TypeOK
  <2>2. \A j \in Items : list'[j].buyer = list[j].buyer /\ list'[j].there = list[j].there
    BY <1>3, <1>9
  <2>3. ItemIsThere' /\ HalfWay'
    BY <2>1 DEF ItemIsThere, HalfWay
  <2>4. PurchasedHasRow' /\ OthersMatch'
    BY <1>1, <1>9, <2>2 DEF PurchasedHasRow, OthersMatch, Matches
  <2>5. QED
    BY <1>5, <1>6, <2>3, <2>4
<1>10. QED
  BY <1>1, <1>7, <1>8, <1>9

(* The rows of an undo go when the buyer is gone.                          *)
LEMMA DeleteHistoryStep ==
  ASSUME ListInv, ListInv', HistoryInv, DeleteHistory
  PROVE  HistoryInv' /\ KeepsHistory
<1> USE DEF HistoryInv
<1>1. request.step = "forget" /\ request' = Idle
      /\ UNCHANGED <<list, added, sweep, excused, overwritten>>
  BY DEF DeleteHistory
<1>2. PICK i \in Items : request.items = {i} /\ HalfUndone(i)
                        /\ (i \notin overwritten => There(i))
  BY <1>1 DEF ItemIsThere, HalfWay
<1>3. request.user \in Users
  BY <1>1 DEF ListInv, PatchFits
<1>4. /\ \A j \in Items \ {i} : rows'[j] = rows[j]
      /\ \A u \in Users : rows'[i][u] = IF u = request.user THEN 0 ELSE rows[i][u]
  <2>1. rows[i] \in [Users -> 0 .. MaxRows]
    BY DEF ListInv, TypeOK
  <2>2. rows' = [j \in Items |-> IF j = i THEN [rows[i] EXCEPT ![request.user] = 0] ELSE rows[j]]
    BY <1>2 DEF DeleteHistory
  <2>3. QED
    BY <1>3, <2>1, <2>2
<1>5. request'.step = "idle" /\ request'.items = {}
  BY <1>1, IdleTyped
<1>6. CopiesHold' /\ ItemIsThere' /\ HalfWay'
  BY <1>1, <1>5 DEF CopiesHold, ItemIsThere, HalfWay
<1>7. FreshIds'
  BY <1>1, <1>3, <1>4, EmptyCopies DEF FreshIds
<1>8. PurchasedHasRow'
  BY <1>1, <1>2, <1>4 DEF PurchasedHasRow, HalfUndone
<1>9. OthersMatch'
  BY <1>1, <1>2, <1>4 DEF OthersMatch, Matches, HalfUndone
<1>10. KeepsHistory
  <2>1. \A j \in Items, u \in Users : rows[j][u] \in Nat
    BY DEF ListInv, TypeOK
  <2>2. QED
    BY <1>2, <1>4, <2>1 DEF KeepsHistory
<1>11. QED
  BY <1>6, <1>7, <1>8, <1>9, <1>10

-----------------------------------------------------------------------------
LEMMA HistoryInitial == Init => HistoryInv
<1>1. SUFFICES ASSUME Init PROVE HistoryInv
  OBVIOUS
<1>2. \A i \in Items : ~There(i) /\ ~Bought(list[i]) /\ \A u \in Users : rows[i][u] = 0
  BY <1>1, NoRowTyped DEF Init, Empty
<1>3. request.step = "idle" /\ request.items = {} /\ request = Idle /\ sweep = NoSweep
  BY <1>1, IdleTyped DEF Init
<1>4. QED
  BY <1>2, <1>3, EmptyCopies DEF HistoryInv, CopiesHold, FreshIds, ItemIsThere, HalfWay, PurchasedHasRow,
                    OthersMatch, Matches

LEMMA HistoryStep ==
  ASSUME ListInv, ListInv', HistoryInv, [Next]_vars
  PROVE  HistoryInv' /\ [KeepsHistory]_vars
<1>1. CASE NextDay \/ UNCHANGED vars
  BY <1>1, NextDayStep
<1>2. CASE LoadLists \/ SaveItems \/ SweepDies
  BY <1>2, SweepSteps, SaveItemsStep
<1>3. CASE RequestStep
  <2>1. CASE \E i \in Items : AddItem(i) \/ RemoveItem(i) \/ UpdateListItem(i)
    BY <1>3, <2>1, AddItemStep, UpdateStep, QuietRequests
  <2>2. CASE \E u \in Users, i \in Items :
               \/ ToggleItem(u, i) \/ SetItemChecked(u, i) \/ PatchItem(u, i)
               \/ PurchaseItem(u, i) \/ UndoPurchase(u, i)
    BY <1>3, <2>2, PurchaseStep, UndoStep, QuietRequests
  <2>3. CASE DeleteHistory
    BY <1>3, <2>3, DeleteHistoryStep
  <2>4. CASE \E u \in Users : ClearStaleOffers(u)
    BY <1>3, <2>4, QuietRequests
  <2>5. CASE ResetList \/ ReadPurchased \/ SaveRemaining \/ RemoveListItem \/ RequestDies
    BY <1>3, <2>5, QuietRequests
  <2>6. QED
    BY <1>3, <2>1, <2>2, <2>3, <2>4, <2>5 DEF RequestStep
<1>4. QED
  BY <1>1, <1>2, <1>3 DEF Next

LEMMA HistoryInvariant == Spec => [](ListInv /\ HistoryInv)
<1>1. ListInv /\ HistoryInv /\ [Next]_vars => ListInv' /\ HistoryInv'
  BY ListStep, HistoryStep
<1>2. QED
  BY ListInitial, HistoryInitial, <1>1, PTL DEF Spec

(* purchases.py: wherever a purchase or an undo ends, an item that is      *)
(* shown as bought by a member is in the history of that member, unless    *)
(* a cleanup has written back an earlier state of the item.                *)
THEOREM BoughtItemsHaveRows == Spec => []PurchasedHasRow
<1>1. HistoryInv => PurchasedHasRow
  BY DEF HistoryInv
<1>2. QED
  BY HistoryInvariant, <1>1, PTL

(* purchases.py: between the requests the history says of an item what the *)
(* list says, unless it was bought twice, undone by another or half-way,   *)
(* or written over by a cleanup.                                           *)
THEOREM SpendingMatches == Spec => []SpendingMatchesList
<1>1. HistoryInv => SpendingMatchesList
  BY IdleTyped DEF HistoryInv, OthersMatch, Matches, SpendingMatchesList, AtRest
<1>2. QED
  BY HistoryInvariant, <1>1, PTL

(* lists.py and purchased_items_cleanup.py: whatever takes an item off the *)
(* list, its history stays; only an undo of an item in the list deletes,   *)
(* or one whose item a cleanup has taken or written over meanwhile.        *)
THEOREM HistoryIsKept == Spec => HistoryKept
<1>1. ListInv /\ HistoryInv /\ [Next]_vars
        => ListInv' /\ HistoryInv' /\ [KeepsHistory]_vars
  BY ListStep, HistoryStep
<1>2. QED
  BY ListInitial, HistoryInitial, <1>1, PTL DEF Spec, HistoryKept, KeepsHistory
=============================================================================
