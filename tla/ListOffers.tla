------------------------------ MODULE ListOffers ------------------------------
(***************************************************************************)
(* The offers that a shopping list is pinned to, as its members see them:  *)
(* services/list_offer_visibility.py, services/deal_freshness.py,          *)
(* services/location.py and their callers in api/routers/lists.py.         *)
(*                                                                         *)
(* An item keeps the id of its offer.  When a member opens the list,       *)
(* offers outside the member's area are hidden and offers that are gone or *)
(* not current are left out; the freshness report classifies the same      *)
(* items by queries of its own; clear_stale_offers removes what the report *)
(* calls expired or unavailable, one item a call.  Requests do not         *)
(* overlap; the cleanup of flyers and midnight come at any time.  Prices   *)
(* are left out: a current offer is fresh, whatever its price was.         *)
(***************************************************************************)
CONSTANTS
  Pins,     \* items of the list
  Deals,    \* published offers
  NoDeal,   \* pinned_offer_id is null: any value outside Deals
  StoreOf,  \* offer -> its supermarket
  Viewers   \* members of the list

Stores == {StoreOf[d] : d \in Deals}

ASSUME DealAssumption ==
  NoDeal \notin Deals /\ DOMAIN StoreOf = Deals

VARIABLES
  deal,      \* the rows of the offers
  pin,       \* item -> pinned_offer_id
  nearby,    \* member -> supermarkets of the area, or all without a Comune
  clearing,  \* clear_stale_offers under way
  dawned     \* history: offers that became current during it

dealVars == <<deal, pin, nearby, clearing, dawned>>

NotClearing == [by |-> "nobody", todo |-> {}]
Everywhere == [located |-> FALSE, stores |-> {}]

DealsInit ==
  /\ deal = [d \in Deals |-> [row |-> FALSE, window |-> "future"]]
  /\ pin = [i \in Pins |-> NoDeal]
  /\ nearby = [v \in Viewers |-> Everywhere]
  /\ clearing = NotClearing
  /\ dawned = {}

NoRequestRuns == clearing = NotClearing
IsPinned(i) == pin[i] # NoDeal
IsCurrent(d) == deal[d].row /\ deal[d].window = "now"

-----------------------------------------------------------------------------
(* What a member sees.                                                     *)

(* hidden_offer_ids_for_viewer: an offer without a row is not hidden.      *)
HiddenFor(v) ==
  {d \in Deals : nearby[v].located /\ deal[d].row /\ StoreOf[d] \notin nearby[v].stores}

(* Mutant of StaleFor: only rows that exist can be stale.                  *)
StaleRows(v) == {d \in Deals \ HiddenFor(v) : deal[d].row /\ deal[d].window # "now"}

(* _stale_offer_ids_for_viewer *)
StaleFor(v) == {d \in Deals \ HiddenFor(v) : ~IsCurrent(d)}

(* _project_list_items_for_viewer: the items shown with their offer.       *)
ShownWithOffer(v) ==
  {i \in Pins : IsPinned(i) /\ pin[i] \notin HiddenFor(v) \cup StaleFor(v)}

(* classify_deal_freshness, of the rows that were fetched.                 *)
Classify(i, fetched) ==
  IF pin[i] \notin fetched THEN "unavailable"
  ELSE IF deal[pin[i]].window # "now" THEN "expired"
  ELSE "fresh"

(* get_deal_freshness: rows of hidden offers are not fetched.              *)
Fetched(v) == {d \in Deals \ HiddenFor(v) : deal[d].row}
Freshness(v, i) == Classify(i, Fetched(v))

(* Mutant of ToClear: hidden offers count as unavailable.                  *)
ToClearAll(v) ==
  {i \in Pins : IsPinned(i) /\ Freshness(v, i) \in {"expired", "unavailable"}}

ToClear(v) ==
  {i \in Pins : /\ IsPinned(i)
                /\ Freshness(v, i) \in {"expired", "unavailable"}
                /\ pin[i] \notin HiddenFor(v)}

-----------------------------------------------------------------------------
(* add_item and patch_item: _selected_offer_patch asks for a row, not for  *)
(* its dates.  add_item keeps the id also when there is no row.            *)
PinOffer(i, d) ==
  /\ NoRequestRuns
  /\ deal[d].row \/ pin[i] = NoDeal
  /\ pin' = [pin EXCEPT ![i] = d]
  /\ UNCHANGED <<deal, nearby, clearing, dawned>>

(* clear_stale_offers: what it reads ...                                   *)
ReadStale(v) ==
  /\ NoRequestRuns
  /\ ToClear(v) # {}
  /\ clearing' = [by |-> v, todo |-> ToClear(v)]
  /\ dawned' = {}
  /\ UNCHANGED <<deal, pin, nearby>>

(* ... and the patch of each item.                                         *)
ClearItem(i) ==
  /\ i \in clearing.todo
  /\ pin' = [pin EXCEPT ![i] = NoDeal]
  /\ clearing' = IF clearing.todo = {i} THEN NotClearing
                 ELSE [clearing EXCEPT !.todo = @ \ {i}]
  /\ UNCHANGED <<deal, nearby, dawned>>

ClearingDies ==
  /\ ~NoRequestRuns
  /\ clearing' = NotClearing
  /\ UNCHANGED <<deal, pin, nearby, dawned>>

(* The profile: a Comune and a radius, or none.                            *)
Move(v) ==
  /\ NoRequestRuns
  /\ \E located \in BOOLEAN, stores \in SUBSET Stores :
       nearby' = [nearby EXCEPT ![v] = IF located THEN [located |-> TRUE, stores |-> stores]
                                       ELSE Everywhere]
  /\ UNCHANGED <<deal, pin, clearing, dawned>>

-----------------------------------------------------------------------------
(* The publication writes, edits, moves and removes offers.                *)
ChangeOffer(d) ==
  /\ NoRequestRuns
  /\ \E w \in {"past", "now", "future"} :
       deal' = [deal EXCEPT ![d] = [row |-> TRUE, window |-> w]]
  /\ UNCHANGED <<pin, nearby, clearing, dawned>>

(* delete_flyer, and the cleanup for offers that have ended.               *)
RemoveOffer(d) ==
  /\ deal[d].row
  /\ NoRequestRuns \/ deal[d].window = "past"
  /\ deal' = [deal EXCEPT ![d].row = FALSE]
  /\ UNCHANGED <<pin, nearby, clearing, dawned>>

Midnight(d) ==
  /\ deal[d].row
  /\ deal[d].window # "past"
  /\ deal' = [deal EXCEPT ![d].window = IF @ = "future" THEN "now" ELSE "past"]
  /\ dawned' = IF deal[d].window = "future" THEN dawned \cup {d} ELSE dawned
  /\ UNCHANGED <<pin, nearby, clearing>>

DealsNext ==
  \/ \E i \in Pins : ClearItem(i) \/ \E d \in Deals : PinOffer(i, d)
  \/ \E v \in Viewers : ReadStale(v) \/ Move(v)
  \/ ClearingDies
  \/ \E d \in Deals : ChangeOffer(d) \/ RemoveOffer(d) \/ Midnight(d)

DealsSpec == DealsInit /\ [][DealsNext]_dealVars

-----------------------------------------------------------------------------
(* docs/flows.md:15, "proietta offerte scadute o eliminate come voce       *)
(* manuale": a member sees an item with its offer exactly when the report  *)
(* of the same moment, made by other queries, calls it fresh.              *)
ViewMatchesFreshness ==
  \A v \in Viewers, i \in Pins :
    IsPinned(i) => (i \in ShownWithOffer(v) <=> Freshness(v, i) = "fresh")

(* clear_stale_offers "for expired or unavailable items" (lists.py:1583):  *)
(* an item loses its offer only when nobody may see it any more; an offer  *)
(* that others see, or that another area hides, stays pinned.  An offer    *)
(* that became current after the read is excused.                          *)
ClearsOnlyStale ==
  [][\A i \in Pins :
       IsPinned(i) /\ pin'[i] = NoDeal
       => pin[i] \in dawned \/ ~IsCurrent(pin[i])]_dealVars
=============================================================================
