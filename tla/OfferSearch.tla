------------------------------ MODULE OfferSearch ------------------------------
(***************************************************************************)
(* The public search for offers: api/routers/offers.py with                *)
(* _nearby_supermarkets.py, offer_visibility.py and the database function  *)
(* visible_supermarkets_for_municipality.                                  *)
(*                                                                         *)
(* A client asks for one page after the other.  With a Comune the API      *)
(* loads the current offers of the supermarkets around it, as many as      *)
(* PostgREST returns of a query without a range, keeps one of the clones   *)
(* of a flyer's offer, sorts and cuts the page out of the rest; without    *)
(* one the database sorts by name and cuts the page.  Each page is a       *)
(* request of its own: between two of them days pass, and flyers and the   *)
(* caller's area change.                                                   *)
(*                                                                         *)
(* Ids, names and days are numbers: the order of a sort is theirs, and     *)
(* names have one order in the database and in Python.  The filters by     *)
(* text and category choose the catalogue.                                 *)
(***************************************************************************)
EXTENDS Naturals, Sequences, FiniteSets, SequencesExt

CONSTANTS
  OfferIds,   \* confirmed offers of kind published_target
  Shops,      \* supermarkets
  Catalogs,   \* what the offers may be: sets of functions from OfferIds
  Areas,      \* the Comuni and radii of callers: distances of the shops inside
  PageSize,   \* limit
  RowLimit,   \* max_rows of PostgREST
  LastDay,    \* bound: days that pass
  Infinite    \* float("inf"): a number above all distances

NoSource == 0
Always == 0
CatalogRow == [shop : Shops, source : Nat, name : Nat, from : Nat, to : Nat]

ASSUME SearchAssumption ==
  /\ IsFiniteSet(OfferIds) /\ OfferIds \subseteq Nat /\ Shops \subseteq Nat
  /\ \A c \in Catalogs : c \in [OfferIds -> CatalogRow]
  /\ \A a \in Areas : DOMAIN a \subseteq Shops
                      /\ \A s \in DOMAIN a : a[s] \in 0 .. Infinite - 1
  /\ PageSize \in Nat \ {0} /\ RowLimit \in Nat /\ PageSize <= RowLimit
  /\ LastDay \in Nat /\ Infinite \in Nat

VARIABLES
  catalog,   \* offer -> its row
  date,     \* the date in Rome
  search,    \* the search under way
  shown,     \* the offers on the pages so far, in their order
  moved      \* history: a day has passed, or the offers or the area have
             \* changed, since the search was opened

searchVars == <<catalog, date, search, shown, moved>>

(* A search: whether the caller has a Comune, the distances of the shops   *)
(* of the area, the shops asked for, and the offset of the next page.      *)
Closed == [step |-> "closed", located |-> FALSE, distance |-> <<>>,
           shops |-> {}, offset |-> 0]

SearchInit ==
  /\ catalog = [o \in OfferIds |-> [shop |-> 0, source |-> NoSource, name |-> 0,
                                    from |-> Always, to |-> Always]]
  /\ date = 1
  /\ search = Closed
  /\ shown = <<>>
  /\ moved = FALSE

-----------------------------------------------------------------------------
(* apply_current_offer_window *)
InWindow(o) ==
  /\ catalog[o].from = Always \/ catalog[o].from <= date
  /\ catalog[o].to = Always \/ catalog[o].to >= date

(* _filter_public_offers; no supermarket_ids asks for every shop.  With a  *)
(* Comune only the shops of the area count.                                *)
Matching ==
  {o \in OfferIds :
     /\ InWindow(o)
     /\ search.shops = {} \/ catalog[o].shop \in search.shops
     /\ search.located => catalog[o].shop \in DOMAIN search.distance}

(* _offer_group_key *)
SameGroup(o, p) ==
  \/ o = p
  \/ /\ catalog[o].source # NoSource
     /\ catalog[o].source = catalog[p].source

(* _offer_distance_sort_key: the distance (a distance of 0 is falsy and    *)
(* counts as float("inf")), the supermarket, the offer.                    *)
SortDistance(o) ==
  LET d == search.distance[catalog[o].shop] IN IF d = 0 THEN Infinite ELSE d

Nearer(o, p) ==
  \/ SortDistance(o) < SortDistance(p)
  \/ /\ SortDistance(o) = SortDistance(p)
     /\ \/ catalog[o].shop < catalog[p].shop
        \/ (catalog[o].shop = catalog[p].shop /\ o < p)

(* The sort by name and id.                                                *)
NameThenId(o, p) ==
  \/ catalog[o].name < catalog[p].name
  \/ (catalog[o].name = catalog[p].name /\ o < p)

(* The database orders by name alone: offers of one name come in any order *)
(* and in another one at the next request.                                 *)
ByName(o, p) == catalog[o].name <= catalog[p].name

(* What a query loads.  With a Comune it is ordered by name and has no     *)
(* range, and PostgREST returns the first RowLimit rows: offers of one     *)
(* name at the limit come in any order.  Without one the count is exact,   *)
(* and a range is never longer than RowLimit.                              *)
Loads ==
  IF search.located
  THEN {S \in SUBSET Matching :
          /\ Cardinality(S) = Min({Cardinality(Matching), RowLimit})
          /\ \A o \in S, p \in Matching \ S : ByName(o, p)}
  ELSE {Matching}

(* Mutant of Representatives: every clone stays.                           *)
AllClones(data) == data

(* _deduplicate_nearby_offers *)
Representatives(data) ==
  {o \in data : \A p \in data \ {o} : SameGroup(o, p) => Nearer(o, p)}

Before(o, p) == IF search.located THEN NameThenId(o, p) ELSE ByName(o, p)
Listed(data) == IF search.located THEN Representatives(data) ELSE data
Results ==
  UNION {{seq \in SetToSeqs(Listed(data)) :
            \A i, j \in 1 .. Len(seq) : i < j => Before(seq[i], seq[j])} : data \in Loads}

(* [offset : offset + limit], range(offset, offset + limit - 1): nothing   *)
(* when the offset has come to lie behind the end.                         *)
Cut(seq) ==
  SubSeq(seq, search.offset + 1, Min({search.offset + PageSize, Len(seq)}))

-----------------------------------------------------------------------------
(* list_public_offers and discover_public_offers, the first page: a member *)
(* or a guest with a Comune, or a member without one.                      *)
OpenSearch(c, located, a, shops) ==
  /\ search.step = "closed"
  /\ catalog' = c
  /\ search' = [step |-> "open", located |-> located, distance |-> a,
                shops |-> shops, offset |-> 0]
  /\ shown' = <<>>
  /\ moved' = FALSE
  /\ UNCHANGED date

(* No supermarket in the area: an empty page, before any query.            *)
NothingAround ==
  /\ search.step = "open"
  /\ search.located /\ DOMAIN search.distance = {}
  /\ search' = [search EXCEPT !.step = "done"]
  /\ UNCHANGED <<catalog, date, shown, moved>>

(* _public_offers_response: one page, and nextPage.                        *)
FetchPage ==
  /\ search.step = "open"
  /\ search.located => DOMAIN search.distance # {}
  /\ \E seq \in Results :
       /\ shown' = shown \o Cut(seq)
       /\ search' = IF search.offset + PageSize < Len(seq)
                    THEN [search EXCEPT !.offset = @ + PageSize]
                    ELSE [search EXCEPT !.step = "done"]
  /\ UNCHANGED <<catalog, date, moved>>

DayPasses ==
  /\ date < LastDay
  /\ date' = date + 1
  /\ moved' = (search # Closed)
  /\ UNCHANGED <<catalog, search, shown>>

(* Between two pages flyers are published, edited, deleted or swept ...    *)
OffersChange(c) ==
  /\ search.step = "open"
  /\ catalog' = c
  /\ moved' = TRUE
  /\ UNCHANGED <<date, search, shown>>

(* ... and the caller's Comune and radius, which every page reads again.   *)
AreaChanges(a) ==
  /\ search.step = "open" /\ search.located
  /\ search' = [search EXCEPT !.distance = a]
  /\ moved' = TRUE
  /\ UNCHANGED <<catalog, date, shown>>

SearchNext ==
  \/ \E c \in Catalogs, a \in Areas, shops \in SUBSET Shops :
       OpenSearch(c, TRUE, a, shops)
  \/ \E c \in Catalogs, shops \in SUBSET Shops : OpenSearch(c, FALSE, <<>>, shops)
  \/ \E c \in Catalogs : OffersChange(c)
  \/ \E a \in Areas : AreaChanges(a)
  \/ NothingAround \/ FetchPage \/ DayPasses

SearchSpec == SearchInit /\ [][SearchNext]_searchVars

-----------------------------------------------------------------------------
(* README.md:21, "mantiene una sequenza stabile per la paginazione": the   *)
(* pages of a search show each offer that the queries load once, one of    *)
(* all clones of a flyer's offer when the caller has a Comune, and omit    *)
(* none: while day, offers and area stay as they are, and the queries load *)
(* the same each time.  With a Comune that needs offers of different names *)
(* at the row limit, and the offers behind it are on no page; without one  *)
(* no two offers may have the same name.                                   *)
SameEachTime ==
  IF search.located THEN \A S, T \in Loads : S = T
  ELSE \A o, p \in Matching : o = p \/ catalog[o].name # catalog[p].name
PagesCoverSearch ==
  search.step = "done" /\ ~moved /\ SameEachTime =>
    /\ \A i, j \in 1 .. Len(shown) :
         /\ i < j => catalog[shown[i]].name <= catalog[shown[j]].name
         /\ i # j => shown[i] # shown[j]
         /\ i # j /\ search.located => ~SameGroup(shown[i], shown[j])
    /\ \A o \in UNION Loads : \E i \in 1 .. Len(shown) :
         IF search.located THEN SameGroup(o, shown[i]) ELSE o = shown[i]

(* README.md:21, "GET /offers restituisce una sola copia, associata alla   *)
(* sede più vicina": no clone of an offer on a page is nearer.             *)
NearestTarget ==
  search.located /\ ~moved =>
    \A i \in 1 .. Len(shown), o \in Matching :
      SameGroup(o, shown[i]) =>
        search.distance[catalog[shown[i]].shop] <= search.distance[catalog[o].shop]
=============================================================================
