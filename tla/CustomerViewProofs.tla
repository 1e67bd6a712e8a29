------------------------- MODULE CustomerViewProofs -------------------------
(***************************************************************************)
(* Theorems about what customers see: of a shopping list (ListEvents, for  *)
(* any number of lists and changes, and ListOffers, for any number of      *)
(* items, offers and members) and of the public offers (OfferSearch, for   *)
(* any catalogue, area and size of a page).                                *)
(***************************************************************************)
EXTENDS ListOffers, ListEvents, OfferSearch, SequenceTheorems, FiniteSetTheorems,
        WellFoundedInduction, TLAPS

-----------------------------------------------------------------------------
(* ListEvents: a client that was not told to load the list again, and has  *)
(* an old version of it, will be: the change is not published yet, or its  *)
(* hint is on the way.                                                     *)

(* The types of the variables.                                             *)
EventsTyped ==
  /\ version \in [Lists -> Nat] /\ unsent \in [Lists -> Nat]
  /\ stream \in {"closed", "listening", "open"}
  /\ socket \in Seq(Lists) /\ notifies \in Seq(Lists)
  /\ loaded \in Nat
  /\ outdated \in BOOLEAN /\ silent \in BOOLEAN

(* A hint of the list that the connection has, read or not.                *)
OnTheWay == Followed \in ToSet(notifies \o socket)

Hinted == outdated \/ silent \/ unsent[Followed] > 0 \/ OnTheWay
EventsInv == EventsTyped /\ (stream = "open" /\ loaded # version[Followed] => Hinted)

(* What sequences of hints contain.                                        *)
LEMMA ConcatContains ==
  ASSUME NEW S, NEW s \in Seq(S), NEW t \in Seq(S), NEW x
  PROVE  x \in ToSet(s \o t) <=> x \in ToSet(s) \/ x \in ToSet(t)
<1>1. /\ Len(s) \in Nat /\ Len(t) \in Nat /\ s \o t \in Seq(S)
      /\ DOMAIN s = 1 .. Len(s) /\ DOMAIN t = 1 .. Len(t)
      /\ DOMAIN (s \o t) = 1 .. (Len(s) + Len(t))
      /\ \A i \in 1 .. (Len(s) + Len(t)) :
           (s \o t)[i] = IF i <= Len(s) THEN s[i] ELSE t[i - Len(s)]
  BY ConcatProperties
<1>2. ASSUME x \in ToSet(s) PROVE x \in ToSet(s \o t)
  <2>1. PICK i \in 1 .. Len(s) : x = s[i]
    BY <1>1, <1>2 DEF ToSet
  <2>2. i \in 1 .. (Len(s) + Len(t)) /\ (s \o t)[i] = x
    BY <1>1, <2>1
  <2>3. QED
    BY <1>1, <2>2 DEF ToSet
<1>3. ASSUME x \in ToSet(t) PROVE x \in ToSet(s \o t)
  <2>1. PICK i \in 1 .. Len(t) : x = t[i]
    BY <1>1, <1>3 DEF ToSet
  <2>2. i + Len(s) \in 1 .. (Len(s) + Len(t)) /\ (s \o t)[i + Len(s)] = x
    BY <1>1, <2>1
  <2>3. QED
    BY <1>1, <2>2 DEF ToSet
<1>4. ASSUME x \in ToSet(s \o t) PROVE x \in ToSet(s) \/ x \in ToSet(t)
  <2>1. PICK i \in 1 .. (Len(s) + Len(t)) : x = (s \o t)[i]
    BY <1>1, <1>4 DEF ToSet
  <2>2. CASE i <= Len(s)
    BY <1>1, <2>1, <2>2 DEF ToSet
  <2>3. CASE ~(i <= Len(s))
    <3>1. i - Len(s) \in 1 .. Len(t) /\ x = t[i - Len(s)]
      BY <1>1, <2>1, <2>3
    <3>2. QED
      BY <1>1, <3>1 DEF ToSet
  <2>4. QED
    BY <2>2, <2>3
<1>5. QED
  BY <1>2, <1>3, <1>4

LEMMA AppendContains ==
  ASSUME NEW S, NEW s \in Seq(S), NEW y \in S, NEW x
  PROVE  x \in ToSet(Append(s, y)) <=> x \in ToSet(s) \/ x = y
<1>1. Append(s, y) = s \o <<y>> /\ <<y>> \in Seq(S)
  OBVIOUS
<1>2. x \in ToSet(<<y>>) <=> x = y
  BY DEF ToSet
<1>3. QED
  BY <1>1, <1>2, ConcatContains

LEMMA HeadOrTail ==
  ASSUME NEW S, NEW s \in Seq(S), s # <<>>, NEW x \in ToSet(s)
  PROVE  x = Head(s) \/ x \in ToSet(Tail(s))
<1>1. PICK i \in 1 .. Len(s) : x = s[i]
  BY DEF ToSet
<1>2. CASE i = 1
  BY <1>1, <1>2
<1>3. CASE i # 1
  <2>1. i - 1 \in 1 .. Len(Tail(s)) /\ Tail(s)[i - 1] = x
    BY <1>1, <1>3, HeadTailProperties
  <2>2. DOMAIN Tail(s) = 1 .. Len(Tail(s))
    BY HeadTailProperties
  <2>3. QED
    BY <2>1, <2>2 DEF ToSet
<1>4. QED
  BY <1>2, <1>3

LEMMA EventsStep == EventsInv /\ [EventsNext]_eventVars => EventsInv'
<1> SUFFICES ASSUME EventsInv, [EventsNext]_eventVars
             PROVE  EventsInv'
  OBVIOUS
<1> USE EventsAssumption DEF EventsInv, EventsTyped, Hinted
<1>1. ASSUME NEW l \in Lists, WriteList(l) PROVE EventsInv'
  <2>1. /\ version' \in [Lists -> Nat] /\ unsent' \in [Lists -> Nat]
        /\ unsent'[Followed] = IF l = Followed THEN unsent[Followed] + 1 ELSE unsent[Followed]
        /\ l # Followed => version'[Followed] = version[Followed]
    BY <1>1 DEF WriteList
  <2>2. OnTheWay' <=> OnTheWay
    BY <1>1 DEF WriteList, OnTheWay
  <2>3. QED
    BY <1>1, <2>1, <2>2 DEF WriteList, lists, client
<1>2. ASSUME NEW l \in Lists, PublishEvent(l) PROVE EventsInv'
  <2>1. unsent' \in [Lists -> Nat] /\ (l # Followed => unsent'[Followed] = unsent[Followed])
    BY <1>2 DEF PublishEvent
  <2>2. /\ Append(socket, l) \in Seq(Lists)
        /\ socket' = Append(socket, l) \/ socket' = socket
        /\ stream = "open" => socket' = Append(socket, l)
    BY <1>2, AppendProperties DEF PublishEvent
  <2>3. ASSUME stream = "open" PROVE OnTheWay' <=> OnTheWay \/ l = Followed
    <3>1. socket' = Append(socket, l) /\ notifies' = notifies
      BY <1>2, <2>2, <2>3 DEF PublishEvent
    <3>2. Followed \in ToSet(Append(socket, l)) <=> Followed \in ToSet(socket) \/ Followed = l
      BY AppendContains
    <3>3. /\ OnTheWay <=> Followed \in ToSet(notifies) \/ Followed \in ToSet(socket)
          /\ Followed \in ToSet(notifies \o Append(socket, l))
             <=> Followed \in ToSet(notifies) \/ Followed \in ToSet(Append(socket, l))
      BY <2>2, ConcatContains DEF OnTheWay
    <3>4. QED
      BY <3>1, <3>2, <3>3 DEF OnTheWay
  <2>4. QED
    BY <1>2, <2>1, <2>2, <2>3 DEF PublishEvent, lists, client
<1>3. ASSUME NEW l \in Lists, PublisherDies(l) PROVE EventsInv'
  <2>1. unsent' \in [Lists -> Nat] /\ (l # Followed => unsent'[Followed] = unsent[Followed])
    BY <1>3 DEF PublisherDies
  <2>2. OnTheWay' <=> OnTheWay
    BY <1>3 DEF PublisherDies, OnTheWay
  <2>3. QED
    BY <1>3, <2>1, <2>2 DEF PublisherDies, lists, client
<1>4. CASE WaitForEvent
  <2>1. /\ notifies \o socket \in Seq(Lists) /\ notifies \o socket # <<>>
        /\ notifies' = Tail(notifies \o socket) /\ socket' = <<>>
        /\ outdated' = (outdated \/ Head(notifies \o socket) = Followed)
        /\ UNCHANGED <<version, unsent, stream, loaded, silent>>
    BY <1>4, ConcatEqualIffEmpty DEF WaitForEvent, lists
  <2>2. notifies' \in Seq(Lists) /\ socket' \in Seq(Lists)
    BY <2>1, HeadTailProperties
  <2>3. notifies' \o socket' = notifies'
    BY <2>1, <2>2, ConcatEmptySeq
  <2>4. OnTheWay => OnTheWay' \/ outdated'
    BY <2>1, <2>3, HeadOrTail DEF OnTheWay
  <2>5. QED
    BY <2>1, <2>2, <2>4
<1>5. CASE Listen \/ Connected
  BY <1>5 DEF Listen, Connected, lists, client
<1>6. CASE Disconnect
  <2>1. <<>> \in Seq(Lists)
    OBVIOUS
  <2>2. QED
    BY <1>6, <2>1 DEF Disconnect, lists, client
<1>7. CASE Load
  BY <1>7 DEF Load, lists
<1>8. CASE UNCHANGED eventVars
  BY <1>8 DEF eventVars, OnTheWay
<1>9. QED
  BY <1>1, <1>2, <1>3, <1>4, <1>5, <1>6, <1>7, <1>8 DEF EventsNext

(* However changes, hints, reads of the connection and reconnections of    *)
(* list_sync.py interleave, an open stream never leaves its client with an *)
(* old list and nothing to tell it.                                        *)
THEOREM ClientsFollowTheList == EventsSpec => []FollowsTheList
<1>1. EventsInit => EventsInv
  <2>1. <<>> \in Seq(Lists) /\ [l \in Lists |-> 0] \in [Lists -> Nat]
    OBVIOUS
  <2>2. EventsInit => EventsTyped
    <3>1. EventsInit => loaded \in Nat /\ stream \in {"closed", "listening", "open"}
      BY DEF EventsInit
    <3>2. EventsInit => outdated \in BOOLEAN /\ silent \in BOOLEAN
      BY DEF EventsInit
    <3>3. EventsInit => /\ version \in [Lists -> Nat] /\ unsent \in [Lists -> Nat]
                        /\ socket \in Seq(Lists) /\ notifies \in Seq(Lists)
      BY <2>1, Zenon DEF EventsInit
    <3>4. QED
      BY <3>1, <3>2, <3>3 DEF EventsTyped
  <2>3. EventsInit => stream # "open"
    BY DEF EventsInit
  <2>4. QED
    BY <2>2, <2>3 DEF EventsInv
<1>2. EventsInv => FollowsTheList
  BY DEF EventsInv, Hinted, OnTheWay, FollowsTheList
<1>3. QED
  BY <1>1, <1>2, EventsStep, PTL DEF EventsSpec

-----------------------------------------------------------------------------
(* ListOffers: the view and the report agree in every state of the right   *)
(* types.  That clear_stale_offers takes no current offer from an item     *)
(* rests on what it has read still being true when it writes               *)
(* (StaleIsStillStale).                                                    *)

DealRow == [row : BOOLEAN, window : {"past", "now", "future"}]
Area == [located : BOOLEAN, stores : SUBSET Stores]

(* The types of the variables.                                             *)
DealsTyped ==
  /\ deal \in [Deals -> DealRow]
  /\ pin \in [Pins -> Deals \cup {NoDeal}]
  /\ nearby \in [Viewers -> Area]
  /\ clearing \in [by : Viewers \cup {"nobody"}, todo : SUBSET Pins]
  /\ dawned \subseteq Deals

(* An item that is still to be cleared has an offer that was stale when it *)
(* was read, and that is stale still unless a day has begun for it.        *)
StaleIsStillStale ==
  \A i \in clearing.todo : IsPinned(i) => pin[i] \in dawned \/ ~IsCurrent(pin[i])

DealsInv == DealsTyped /\ StaleIsStillStale

USE DealAssumption DEF NotClearing, Everywhere, NoRequestRuns, IsPinned, IsCurrent

(* One step of ClearsOnlyStale.                                            *)
ClearsStale ==
  \A i \in Pins :
    IsPinned(i) /\ pin'[i] = NoDeal => pin[i] \in dawned \/ ~IsCurrent(pin[i])

-----------------------------------------------------------------------------
(* What the report calls expired or unavailable, and is not merely hidden, *)
(* is no current offer.                                                    *)
LEMMA ReportedIsStale ==
  ASSUME DealsTyped, NEW v \in Viewers, NEW i \in ToClear(v)
  PROVE  ~IsCurrent(pin[i])
<1>1. pin[i] \in Deals \ HiddenFor(v)
  BY DEF ToClear, DealsTyped
<1>2. CASE pin[i] \notin Fetched(v)
  BY <1>1, <1>2 DEF Fetched
<1>3. CASE pin[i] \in Fetched(v)
  BY <1>3 DEF ToClear, Freshness, Classify
<1>4. QED
  BY <1>2, <1>3

(* The list as it is shown agrees with the report: both hide and fetch by  *)
(* the same area, one by what is current and one by what is not.           *)
LEMMA TypesGiveView == DealsTyped => ViewMatchesFreshness
<1>1. SUFFICES ASSUME DealsTyped, NEW v \in Viewers, NEW i \in Pins, IsPinned(i)
               PROVE  i \in ShownWithOffer(v) <=> Freshness(v, i) = "fresh"
  BY DEF ViewMatchesFreshness
<1>2. pin[i] \in Deals
  BY <1>1 DEF DealsTyped
<1>3. i \in ShownWithOffer(v) <=> pin[i] \notin HiddenFor(v) /\ IsCurrent(pin[i])
  BY <1>1, <1>2 DEF ShownWithOffer, StaleFor
<1>4. Freshness(v, i) = "fresh" <=> pin[i] \notin HiddenFor(v) /\ IsCurrent(pin[i])
  BY <1>1, <1>2 DEF Freshness, Classify, Fetched
<1>5. QED
  BY <1>3, <1>4

-----------------------------------------------------------------------------
(* clear_stale_offers reads what is stale ...                              *)
LEMMA ReadStaleStep ==
  ASSUME DealsInv, NEW v \in Viewers, ReadStale(v)
  PROVE  DealsInv' /\ ClearsStale
<1> USE DEF DealsInv, ReadStale
<1>1. ToClear(v) \subseteq Pins
  BY DEF ToClear
<1>2. DealsTyped'
  BY <1>1 DEF DealsTyped
<1>3. StaleIsStillStale'
  BY ReportedIsStale DEF StaleIsStillStale
<1>4. ClearsStale
  BY DEF ClearsStale
<1>5. QED
  BY <1>2, <1>3, <1>4

(* ... and clears one item, which is in its todo.                          *)
LEMMA ClearItemStep ==
  ASSUME DealsInv, NEW i \in Pins, ClearItem(i)
  PROVE  DealsInv' /\ ClearsStale
<1> USE DEF DealsInv, ClearItem
<1>1. clearing'.todo = clearing.todo \ {i}
      /\ clearing' \in [by : Viewers \cup {"nobody"}, todo : SUBSET Pins]
  <2>1. CASE clearing.todo = {i}
    BY <2>1
  <2>2. CASE clearing.todo # {i}
    BY <2>2 DEF DealsTyped
  <2>3. QED
    BY <2>1, <2>2
<1>2. DealsTyped'
  BY <1>1 DEF DealsTyped
<1>3. StaleIsStillStale'
  BY <1>1 DEF DealsTyped, StaleIsStillStale
<1>4. ClearsStale
  BY DEF DealsTyped, StaleIsStillStale, ClearsStale
<1>5. QED
  BY <1>2, <1>3, <1>4

(* Offers come and go while a request clears; one that becomes current is  *)
(* noted.                                                                  *)
LEMMA OfferStep ==
  ASSUME DealsInv, NEW d \in Deals, ChangeOffer(d) \/ RemoveOffer(d) \/ Midnight(d)
  PROVE  DealsInv' /\ ClearsStale
<1> USE DEF DealsInv
<1>1. ClearsStale
  BY DEF ChangeOffer, RemoveOffer, Midnight, ClearsStale
<1>2. CASE ChangeOffer(d)
  BY <1>1, <1>2 DEF ChangeOffer, DealsTyped, DealRow, StaleIsStillStale
<1>3. CASE RemoveOffer(d)
  <2> USE <1>3 DEF RemoveOffer
  <2>1. [deal[d] EXCEPT !.row = FALSE] \in DealRow
    BY DEF DealsTyped, DealRow
  <2>2. DealsTyped'
    BY <2>1 DEF DealsTyped
  <2>3. StaleIsStillStale'
    BY DEF DealsTyped, DealRow, StaleIsStillStale
  <2>4. QED
    BY <1>1, <2>2, <2>3
<1>4. CASE Midnight(d)
  <2> USE <1>4 DEF Midnight
  <2>1. [deal[d] EXCEPT !.window = IF @ = "future" THEN "now" ELSE "past"] \in DealRow
    BY DEF DealsTyped, DealRow
  <2>2. DealsTyped'
    BY <2>1 DEF DealsTyped
  <2>3. StaleIsStillStale'
    BY DEF DealsTyped, DealRow, StaleIsStillStale
  <2>4. QED
    BY <1>1, <2>2, <2>3
<1>5. QED
  BY <1>2, <1>3, <1>4

(* The other steps clear nothing, and end or await the request.            *)
LEMMA MemberStep ==
  ASSUME DealsInv,
         \/ ClearingDies
         \/ \E v \in Viewers : Move(v)
         \/ \E i \in Pins, d \in Deals : PinOffer(i, d)
  PROVE  DealsInv' /\ ClearsStale
<1> USE DEF DealsInv
<1>1. CASE ClearingDies
  BY <1>1 DEF ClearingDies, DealsTyped, StaleIsStillStale, ClearsStale
<1>2. CASE \E v \in Viewers : Move(v)
  BY <1>2 DEF Move, DealsTyped, Area, StaleIsStillStale, ClearsStale
<1>3. CASE \E i \in Pins, d \in Deals : PinOffer(i, d)
  BY <1>3 DEF PinOffer, DealsTyped, StaleIsStillStale, ClearsStale
<1>4. QED
  BY <1>1, <1>2, <1>3

-----------------------------------------------------------------------------
LEMMA DealsInitial == DealsInit => DealsInv
BY DEF DealsInit, DealsInv, DealsTyped, DealRow, Area, StaleIsStillStale

LEMMA DealsStep == DealsInv /\ [DealsNext]_dealVars => DealsInv' /\ [ClearsStale]_dealVars
<1>1. CASE UNCHANGED dealVars
  BY <1>1 DEF dealVars, DealsInv, DealsTyped, StaleIsStillStale
<1>2. CASE DealsNext
  BY <1>2, ReadStaleStep, ClearItemStep, OfferStep, MemberStep DEF DealsNext
<1>3. QED
  BY <1>1, <1>2

(* list_offer_visibility.py and deal_freshness.py: what a member sees with *)
(* its offer is what the report of the same moment calls fresh.            *)
THEOREM ViewAgreesWithReport == DealsSpec => []ViewMatchesFreshness
<1>1. DealsInv => ViewMatchesFreshness
  BY TypesGiveView DEF DealsInv
<1>2. DealsInv /\ [DealsNext]_dealVars => DealsInv'
  BY DealsStep
<1>3. QED
  BY DealsInitial, <1>1, <1>2, PTL DEF DealsSpec

(* lists.py: whatever the publication, the cleanup and the calendar do     *)
(* between its calls, clear_stale_offers takes no offer that is current,   *)
(* unless it has become so after the read.                                 *)
THEOREM OnlyStaleIsCleared == DealsSpec => ClearsOnlyStale
<1>1. DealsInv /\ [DealsNext]_dealVars => DealsInv' /\ [ClearsStale]_dealVars
  BY DealsStep
<1>2. QED
  BY DealsInitial, <1>1, PTL DEF DealsSpec, ClearsOnlyStale, ClearsStale

-----------------------------------------------------------------------------
(* OfferSearch.  On one day all pages are cut out of the same sequence,    *)
(* because the sort leaves no choice, and what was shown is a prefix of    *)
(* it.                                                                     *)

(* A set of natural numbers has a least one.                               *)
LEMMA NatLeast ==
  ASSUME NEW T \in SUBSET Nat, T # {}
  PROVE  \E x \in T : \A y \in T : x <= y
<1> DEFINE R == OpToRel(<, Nat)
<1>1. IsWellFoundedOn(R, Nat)
  BY NatLessThanWellFounded
<1>2. PICK x \in T : \A y \in T : <<y, x>> \notin R
  <2> HIDE DEF R
  <2>1. QED
    BY <1>1, WFMin
<1>3. \A y \in T : ~(y < x)
  BY <1>2 DEF OpToRel
<1>4. QED
  <2> HIDE DEF R
  <2>1. QED
    BY <1>3

(* An order of a finite set lists every element once.                      *)
LEMMA OrderCovers ==
  ASSUME NEW S, IsFiniteSet(S), NEW s \in SetToSeqs(S)
  PROVE  /\ s \in Seq(S) /\ Len(s) = Cardinality(S) /\ Len(s) \in Nat
         /\ \A i, j \in 1 .. Len(s) : i # j => s[i] # s[j]
         /\ \A x \in S : \E i \in 1 .. Len(s) : s[i] = x
<1> DEFINE n == Cardinality(S)
           T == {s[i] : i \in 1 .. n}
<1>1. n \in Nat /\ s \in [1 .. n -> S] /\ \A i, j \in 1 .. n : i # j => s[i] # s[j]
  BY FS_CardinalityType DEF SetToSeqs
<1>2. s \in Seq(S) /\ Len(s) = n
  BY <1>1
<1>3. T \subseteq S /\ s \in Bijection(1 .. n, T)
  BY <1>1 DEF Bijection, Injection, Surjection, IsInjective
<1>4. IsFiniteSet(1 .. n) /\ Cardinality(1 .. n) = n
  BY <1>1, FS_Interval
<1>5. Cardinality(T) = n
  <2> HIDE DEF n, T
  <2>1. ExistsBijection(1 .. n, T)
    BY <1>3 DEF ExistsBijection
  <2>2. QED
    BY <1>4, <2>1, FS_Bijection
<1>6. T = S
  BY <1>3, <1>5, FS_Subset
<1>7. QED
  BY <1>1, <1>2, <1>6

(* Two orders of a finite set by the same asymmetric relation are equal.   *)
LEMMA OneOrder ==
  ASSUME NEW S, IsFiniteSet(S), NEW s \in SetToSeqs(S), NEW t \in SetToSeqs(S), NEW R,
         \A x, y \in S : <<x, y>> \in R => <<y, x>> \notin R,
         \A i, j \in 1 .. Len(s) : i < j => <<s[i], s[j]>> \in R,
         \A i, j \in 1 .. Len(t) : i < j => <<t[i], t[j]>> \in R
  PROVE  s = t
<1> DEFINE n == Cardinality(S)
           D == {i \in 1 .. n : s[i] # t[i]}
<1>1. /\ n \in Nat /\ Len(s) = n /\ Len(t) = n /\ s \in Seq(S) /\ t \in Seq(S)
      /\ \A i, j \in 1 .. n : i # j => s[i] # s[j] /\ t[i] # t[j]
      /\ \A x \in S : (\E i \in 1 .. n : s[i] = x) /\ (\E i \in 1 .. n : t[i] = x)
  <2>1. /\ s \in Seq(S) /\ Len(s) = n /\ n \in Nat
        /\ \A i, j \in 1 .. n : i # j => s[i] # s[j]
        /\ \A x \in S : \E i \in 1 .. n : s[i] = x
    BY OrderCovers
  <2>2. /\ t \in Seq(S) /\ Len(t) = n
        /\ \A i, j \in 1 .. n : i # j => t[i] # t[j]
        /\ \A x \in S : \E i \in 1 .. n : t[i] = x
    BY OrderCovers
  <2> HIDE DEF n
  <2>3. QED
    BY <2>1, <2>2
<1> HIDE DEF n
<1>2. ASSUME D # {} PROVE FALSE
  <2>1. D \in SUBSET Nat
    BY <1>1
  <2>2. PICK i \in D : \A j \in D : i <= j
    <3> HIDE DEF D
    <3>1. QED
      BY <1>2, <2>1, NatLeast
  <2>3. /\ i \in 1 .. n /\ s[i] \in S /\ t[i] \in S /\ s[i] # t[i]
        /\ \A m \in 1 .. n : m < i => s[m] = t[m]
    BY <1>1, <2>2
  <2>4. PICK j \in 1 .. n : t[j] = s[i]
    BY <1>1, <2>3
  <2>5. PICK k \in 1 .. n : s[k] = t[i]
    BY <1>1, <2>3
  <2>6. i < j /\ i < k
    <3>1. i # j /\ i # k /\ ~(j < i) /\ ~(k < i)
      BY <1>1, <2>3, <2>4, <2>5
    <3>2. QED
      BY <1>1, <2>3, <3>1
  <2>7. <<t[i], s[i]>> \in R /\ <<s[i], t[i]>> \in R
    BY <1>1, <2>3, <2>4, <2>5, <2>6
  <2>8. QED
    BY <2>3, <2>7
<1>3. QED
  BY <1>1, <1>2, SeqEqual

(* The next page continues the pages so far.                               *)
LEMMA PageContinues ==
  ASSUME NEW S, NEW seq \in Seq(S), NEW a \in 0 .. Len(seq), NEW b \in a .. Len(seq)
  PROVE  SubSeq(seq, 1, a) \o SubSeq(seq, a + 1, b) = SubSeq(seq, 1, b)
<1>1. Len(seq) \in Nat /\ a \in Nat /\ b \in Nat
  OBVIOUS
<1>2. /\ SubSeq(seq, 1, a) \in Seq(S) /\ Len(SubSeq(seq, 1, a)) = a
      /\ SubSeq(seq, 1, b) \in Seq(S) /\ Len(SubSeq(seq, 1, b)) = b
      /\ SubSeq(seq, a + 1, b) \in Seq(S) /\ Len(SubSeq(seq, a + 1, b)) = b - a
      /\ \A i \in 1 .. a : SubSeq(seq, 1, a)[i] = seq[i]
      /\ \A i \in 1 .. b : SubSeq(seq, 1, b)[i] = seq[i]
      /\ \A i \in 1 .. b - a : SubSeq(seq, a + 1, b)[i] = seq[a + i]
  <2>1. \A i \in 1 .. b : seq[i] \in S
    BY <1>1
  <2>2. ASSUME NEW n \in 0 .. b
        PROVE  /\ SubSeq(seq, 1, n) \in Seq(S) /\ Len(SubSeq(seq, 1, n)) = n
               /\ \A i \in 1 .. n : SubSeq(seq, 1, n)[i] = seq[i]
    <3>1. n \in Int /\ 1 \in Int /\ \A i \in 1 .. n : seq[i] \in S
      BY <1>1, <2>1
    <3>2. /\ SubSeq(seq, 1, n) \in Seq(S)
          /\ Len(SubSeq(seq, 1, n)) = IF 1 <= n THEN n - 1 + 1 ELSE 0
          /\ \A i \in 1 .. n - 1 + 1 : SubSeq(seq, 1, n)[i] = seq[1 + i - 1]
      BY <3>1, SubSeqProperties
    <3>3. n - 1 + 1 = n /\ (~(1 <= n) => n = 0) /\ \A i \in 1 .. n : 1 + i - 1 = i
      BY <1>1
    <3>4. QED
      BY <3>2, <3>3
  <2>3. a + 1 \in Int /\ b \in Int /\ \A i \in a + 1 .. b : seq[i] \in S
    BY <1>1, <2>1
  <2>4. /\ SubSeq(seq, a + 1, b) \in Seq(S)
        /\ Len(SubSeq(seq, a + 1, b)) = IF a + 1 <= b THEN b - (a + 1) + 1 ELSE 0
        /\ \A i \in 1 .. b - (a + 1) + 1 : SubSeq(seq, a + 1, b)[i] = seq[a + 1 + i - 1]
    BY <2>3, SubSeqProperties
  <2>5. /\ b - (a + 1) + 1 = b - a /\ (~(a + 1 <= b) => b - a = 0)
        /\ \A i \in 1 .. b - a : a + 1 + i - 1 = a + i
    BY <1>1
  <2>6. a \in 0 .. b /\ b \in 0 .. b
    BY <1>1
  <2>7. QED
    BY <2>2, <2>4, <2>5, <2>6
<1> DEFINE u == SubSeq(seq, 1, a)
           v == SubSeq(seq, a + 1, b)
           w == SubSeq(seq, 1, b)
<1>3. /\ u \o v \in Seq(S) /\ Len(u \o v) = b
      /\ \A i \in 1 .. b : (u \o v)[i] = IF i <= a THEN u[i] ELSE v[i - a]
  <2> HIDE DEF u, v, w
  <2>1. u \in Seq(S) /\ v \in Seq(S) /\ Len(u) = a /\ Len(v) = b - a
    BY <1>2 DEF u, v
  <2>2. Len(u) + Len(v) = b /\ u \o v \in Seq(S) /\ Len(u \o v) = Len(u) + Len(v)
    <3>1. a + (b - a) = b
      BY <1>1
    <3>2. QED
      BY <2>1, <3>1, ConcatProperties
  <2>3. \A i \in 1 .. Len(u) + Len(v) :
          (u \o v)[i] = IF i <= Len(u) THEN u[i] ELSE v[i - Len(u)]
    BY <2>1, ConcatProperties
  <2>4. QED
    BY <2>1, <2>2, <2>3
<1>4. ASSUME NEW i \in 1 .. b
      PROVE  (u \o v)[i] = w[i]
  <2>1. w[i] = seq[i]
    BY <1>2
  <2>2. (u \o v)[i] = IF i <= a THEN u[i] ELSE v[i - a]
    <3> HIDE DEF u, v, w
    <3>1. QED
      BY <1>3
  <2>3. CASE i <= a
    <3>1. i \in 1 .. a
      BY <1>1, <2>3
    <3>2. u[i] = seq[i]
      BY <1>2, <3>1
    <3>3. QED
      <4> HIDE DEF u, v, w
      <4>1. QED
        BY <2>1, <2>2, <2>3, <3>2
  <2>4. CASE ~(i <= a)
    <3>1. i - a \in 1 .. b - a /\ a + (i - a) = i
      BY <1>1, <2>4
    <3>2. v[i - a] = seq[a + (i - a)]
      BY <1>2, <3>1
    <3>3. QED
      <4> HIDE DEF u, v, w
      <4>1. QED
        BY <2>1, <2>2, <2>4, <3>1, <3>2
  <2>5. QED
    BY <2>3, <2>4
<1>5. QED
  <2> HIDE DEF u, v, w
  <2>1. w \in Seq(S) /\ Len(w) = b
    BY <1>2 DEF w
  <2>2. u \o v = w
    BY <1>1, <1>3, <1>4, <2>1, SeqEqual
  <2>3. QED
    BY <2>2 DEF u, v, w

LEMMA LesserOf ==
  ASSUME NEW a \in Nat, NEW b \in Nat
  PROVE  Min({a, b}) = IF a <= b THEN a ELSE b
BY DEF Min

(* The types of the variables.                                             *)
SearchTyped ==
  /\ search.step # "closed" => catalog \in [OfferIds -> CatalogRow]
  /\ search \in [step : {"closed", "open", "done"}, located : BOOLEAN,
                 distance : Areas \cup {<<>>}, shops : SUBSET Shops, offset : Nat]
  /\ search.located => search.distance \in Areas
  /\ shown \in Seq(OfferIds)

SearchInv ==
  /\ SearchTyped
  /\ search.step = "open" =>
       /\ search.offset = 0 => shown = <<>>
       /\ search.located /\ DOMAIN search.distance = {} /\ ~moved => search.offset = 0
  /\ search.step = "open" /\ ~moved /\ SameEachTime =>
       \A seq \in Results :
         search.offset <= Len(seq) /\ shown = SubSeq(seq, 1, search.offset)
  /\ search.step = "done" /\ ~moved /\ SameEachTime =>
       shown \in Results \/ (shown = <<>> /\ Matching = {})

(* What is loaded and listed: finitely many offers of the catalogue.       *)
LEMMA LoadedSets ==
  ASSUME NEW data \in Loads
  PROVE  /\ data \subseteq Matching /\ Matching \subseteq OfferIds
         /\ Listed(data) \subseteq data /\ IsFiniteSet(Listed(data))
         /\ ~search.located => data = Matching /\ Listed(data) = Matching
         /\ search.located => Listed(data) = Representatives(data)
<1>1. data \subseteq Matching /\ (~search.located => data = Matching)
  BY DEF Loads
<1>2. /\ Matching \subseteq OfferIds /\ Listed(data) \subseteq data
      /\ ~search.located => Listed(data) = data
      /\ search.located => Listed(data) = Representatives(data)
  BY DEF Matching, Listed, Representatives
<1>3. IsFiniteSet(Listed(data))
  <2>1. Listed(data) \subseteq OfferIds
    BY <1>1, <1>2
  <2>2. QED
    BY <2>1, SearchAssumption, FS_Subset
<1>4. QED
  BY <1>1, <1>2, <1>3

LEMMA ResultsListed ==
  ASSUME NEW seq \in Results
  PROVE  /\ \E data \in Loads : seq \in SetToSeqs(Listed(data))
         /\ \A i, j \in 1 .. Len(seq) :
              i < j => IF search.located THEN NameThenId(seq[i], seq[j])
                       ELSE ByName(seq[i], seq[j])
         /\ seq \in Seq(OfferIds) /\ Len(seq) \in Nat
<1>1. PICK data \in Loads :
        /\ seq \in SetToSeqs(Listed(data))
        /\ \A i, j \in 1 .. Len(seq) : i < j => Before(seq[i], seq[j])
  BY DEF Results
<1>2. \A i, j \in 1 .. Len(seq) :
        i < j => IF search.located THEN NameThenId(seq[i], seq[j])
                 ELSE ByName(seq[i], seq[j])
  BY <1>1 DEF Before
<1>3. seq \in Seq(OfferIds) /\ Len(seq) \in Nat
  <2> DEFINE S == Listed(data)
  <2>1. IsFiniteSet(S) /\ S \subseteq OfferIds
    BY LoadedSets
  <2>2. seq \in Seq(S) /\ Len(seq) \in Nat
    <3> HIDE DEF S
    <3>1. seq \in SetToSeqs(S)
      BY <1>1 DEF S
    <3>2. QED
      BY <2>1, <3>1, OrderCovers
  <2>3. QED
    <3> HIDE DEF S
    <3>1. QED
      BY <2>1, <2>2
<1>4. QED
  BY <1>1, <1>2, <1>3

(* The queries load the same each time, and the sort leaves no choice.     *)
LEMMA OneResult ==
  ASSUME SearchTyped, search.step # "closed", SameEachTime,
         NEW s \in Results, NEW t \in Results
  PROVE  s = t
<1>1. PICK data \in Loads : s \in SetToSeqs(Listed(data))
  BY ResultsListed
<1>2. t \in SetToSeqs(Listed(data))
  <2>1. PICK again \in Loads : t \in SetToSeqs(Listed(again))
    BY ResultsListed
  <2>2. again = data
    <3>1. CASE search.located
      BY <3>1 DEF SameEachTime
    <3>2. CASE ~search.located
      BY <3>2, LoadedSets
    <3>3. QED
      BY <3>1, <3>2
  <2>3. QED
    BY <2>1, <2>2
<1> DEFINE S == Listed(data)
           R == {e \in S \X S : IF search.located THEN NameThenId(e[1], e[2])
                               ELSE ByName(e[1], e[2]) /\ e[1] # e[2]}
<1>3. /\ IsFiniteSet(S) /\ S \subseteq OfferIds /\ (~search.located => S = Matching)
      /\ s \in SetToSeqs(S) /\ t \in SetToSeqs(S)
  BY <1>1, <1>2, LoadedSets
<1>4. \A o \in S : o \in Nat /\ catalog[o].name \in Nat
  BY <1>3, SearchAssumption DEF SearchTyped, CatalogRow
<1>5. ASSUME NEW x \in S, NEW y \in S, <<x, y>> \in R, <<y, x>> \in R
      PROVE  FALSE
  <2>1. CASE search.located
    BY <1>4, <1>5, <2>1 DEF NameThenId
  <2>2. CASE ~search.located
    <3>1. x # y /\ catalog[x].name = catalog[y].name
      BY <1>4, <1>5, <2>2 DEF ByName
    <3>2. QED
      BY <1>3, <2>2, <3>1 DEF SameEachTime
  <2>3. QED
    BY <2>1, <2>2
<1>6. ASSUME NEW seq \in Results, seq \in SetToSeqs(S)
      PROVE  \A i, j \in 1 .. Len(seq) : i < j => <<seq[i], seq[j]>> \in R
  <2>1. /\ seq \in Seq(S) /\ Len(seq) \in Nat
        /\ \A i, j \in 1 .. Len(seq) : i # j => seq[i] # seq[j]
    <3> HIDE DEF S
    <3>1. QED
      BY <1>3, <1>6, OrderCovers
  <2>2. \A i \in 1 .. Len(seq) : seq[i] \in S
    <3> HIDE DEF S
    <3>1. QED
      BY <2>1
  <2>3. ASSUME NEW i \in 1 .. Len(seq), NEW j \in 1 .. Len(seq), i < j
        PROVE  <<seq[i], seq[j]>> \in R
    <3>1. seq[i] \in S /\ seq[j] \in S /\ seq[i] # seq[j]
      BY <2>1, <2>2, <2>3
    <3>2. IF search.located THEN NameThenId(seq[i], seq[j]) ELSE ByName(seq[i], seq[j])
      BY <2>3, ResultsListed
    <3> HIDE DEF S
    <3>3. QED
      BY <3>1, <3>2
  <2>4. QED
    BY <2>3
<1>7. QED
  <2>1. \A x, y \in S : <<x, y>> \in R => <<y, x>> \notin R
    BY <1>5
  <2>2. /\ \A i, j \in 1 .. Len(s) : i < j => <<s[i], s[j]>> \in R
        /\ \A i, j \in 1 .. Len(t) : i < j => <<t[i], t[j]>> \in R
    BY <1>3, <1>6
  <2> HIDE DEF S, R
  <2>3. QED
    BY <1>3, <2>1, <2>2, OneOrder

(* A set of offers of the area has a nearest one.                          *)
LEMMA NearestExists ==
  ASSUME SearchTyped, search.step # "closed", search.located,
         NEW G \in SUBSET Matching, G # {}
  PROVE  \E o \in G : \A p \in G \ {o} : Nearer(o, p)
<1>1. \A o \in G : o \in Nat /\ catalog[o].shop \in Nat /\ SortDistance(o) \in Nat
  <2>1. ASSUME NEW o \in G
        PROVE  o \in Nat /\ catalog[o].shop \in Nat /\ SortDistance(o) \in Nat
    <3>1. /\ o \in OfferIds /\ catalog[o].shop \in DOMAIN search.distance
          /\ search.distance \in Areas /\ catalog[o] \in CatalogRow
      BY DEF Matching, SearchTyped
    <3>2. search.distance[catalog[o].shop] \in 0 .. Infinite - 1
      BY <3>1, SearchAssumption
    <3>3. o \in Nat /\ catalog[o].shop \in Nat
      BY <3>1, SearchAssumption DEF CatalogRow
    <3>4. SortDistance(o) \in Nat
      BY <3>2, SearchAssumption DEF SortDistance
    <3>5. QED
      BY <3>3, <3>4
  <2>2. QED
    BY <2>1
<1>2. PICK d \in {SortDistance(o) : o \in G} : \A p \in G : d <= SortDistance(p)
  <2> DEFINE T == {SortDistance(o) : o \in G}
  <2>1. T \in SUBSET Nat /\ T # {}
    BY <1>1
  <2>2. \E x \in T : \A y \in T : x <= y
    <3> HIDE DEF T
    <3>1. QED
      BY <2>1, NatLeast
  <2>3. QED
    BY <2>2
<1> DEFINE near == {o \in G : SortDistance(o) = d}
<1>3. PICK s \in {catalog[o].shop : o \in near} : \A p \in near : s <= catalog[p].shop
  <2> DEFINE T == {catalog[o].shop : o \in near}
  <2>1. T \in SUBSET Nat /\ T # {}
    BY <1>1
  <2>2. \E x \in T : \A y \in T : x <= y
    <3> HIDE DEF T
    <3>1. QED
      BY <2>1, NatLeast
  <2>3. QED
    BY <2>2
<1> DEFINE there == {o \in near : catalog[o].shop = s}
<1>4. PICK o \in there : \A p \in there : o <= p
  <2>1. there \in SUBSET Nat /\ there # {}
    BY <1>1
  <2>2. QED
    BY <2>1, NatLeast
<1>5. o \in G /\ SortDistance(o) = d /\ catalog[o].shop = s
  OBVIOUS
<1>6. ASSUME NEW p \in G, p # o
      PROVE  Nearer(o, p)
  <2>1. d <= SortDistance(p)
    BY <1>2
  <2>2. SortDistance(p) = d => s <= catalog[p].shop
    BY <1>3
  <2>3. SortDistance(p) = d /\ catalog[p].shop = s => o <= p
    BY <1>4
  <2>4. /\ o \in Nat /\ p \in Nat /\ SortDistance(p) \in Nat /\ d \in Nat
        /\ catalog[p].shop \in Nat /\ s \in Nat
    BY <1>1, <1>5
  <2>5. QED
    BY <1>5, <1>6, <2>1, <2>2, <2>3, <2>4 DEF Nearer
<1>7. QED
  BY <1>5, <1>6

(* Every offer that is loaded has a representative, and no two of them are *)
(* clones of one offer.                                                    *)
LEMMA RepresentativesSuffice ==
  ASSUME SearchTyped, search.step # "closed", search.located, NEW data \in Loads
  PROVE  /\ \A o \in data : \E p \in Representatives(data) : SameGroup(o, p)
         /\ \A o, p \in Representatives(data) : o # p => ~SameGroup(o, p)
<1>1. ASSUME NEW o \in data
      PROVE  \E p \in Representatives(data) : SameGroup(o, p)
  <2> DEFINE G == {p \in data : SameGroup(o, p)}
  <2>1. G \in SUBSET Matching /\ o \in G
    BY LoadedSets DEF SameGroup
  <2>2. PICK p \in G : \A q \in G \ {p} : Nearer(p, q)
    <3> HIDE DEF G
    <3>1. QED
      BY <2>1, NearestExists
  <2>3. \A q \in data : SameGroup(p, q) => q \in G
    BY <2>2 DEF SameGroup
  <2>4. p \in Representatives(data)
    BY <2>2, <2>3 DEF Representatives
  <2>5. QED
    BY <2>2, <2>4
<1>2. ASSUME NEW o \in Representatives(data), NEW p \in Representatives(data),
             o # p, SameGroup(o, p)
      PROVE  FALSE
  <2>1. o \in data /\ p \in data /\ SameGroup(p, o)
    BY <1>2 DEF Representatives, SameGroup
  <2>2. Nearer(o, p) /\ Nearer(p, o)
    BY <1>2, <2>1 DEF Representatives
  <2>3. /\ o \in OfferIds /\ p \in OfferIds
        /\ catalog[o].shop \in DOMAIN search.distance
        /\ catalog[p].shop \in DOMAIN search.distance
        /\ search.distance \in Areas /\ catalog[o] \in CatalogRow /\ catalog[p] \in CatalogRow
    BY <2>1, LoadedSets DEF Matching, SearchTyped
  <2>4. /\ search.distance[catalog[o].shop] \in 0 .. Infinite - 1
        /\ search.distance[catalog[p].shop] \in 0 .. Infinite - 1
    BY <2>3, SearchAssumption
  <2>5. SortDistance(o) \in Nat /\ SortDistance(p) \in Nat
    BY <2>4, SearchAssumption DEF SortDistance
  <2>6. /\ o \in Nat /\ p \in Nat
        /\ catalog[o].shop \in Nat /\ catalog[p].shop \in Nat
    BY <2>3, SearchAssumption DEF CatalogRow
  <2>7. QED
    BY <2>2, <2>5, <2>6 DEF Nearer
<1>3. QED
  BY <1>1, <1>2

(* The pages of a search that is done cover it.                            *)
LEMMA PagesCover == SearchInv => PagesCoverSearch
<1> SUFFICES ASSUME SearchInv, search.step = "done", ~moved, SameEachTime
             PROVE  /\ \A i, j \in 1 .. Len(shown) :
                         /\ i < j => catalog[shown[i]].name <= catalog[shown[j]].name
                         /\ i # j => shown[i] # shown[j]
                         /\ i # j /\ search.located => ~SameGroup(shown[i], shown[j])
                    /\ \A o \in UNION Loads : \E i \in 1 .. Len(shown) :
                         IF search.located THEN SameGroup(o, shown[i]) ELSE o = shown[i]
  BY DEF PagesCoverSearch
<1>1. SearchTyped
  BY DEF SearchInv
<1>2. CASE shown = <<>> /\ Matching = {}
  <2>1. UNION Loads = {}
    BY <1>2, LoadedSets
  <2>2. QED
    BY <1>2, <2>1
<1>3. CASE shown \in Results
  <2>0. PICK data \in Loads : shown \in SetToSeqs(Listed(data))
    BY <1>3, ResultsListed
  <2> DEFINE S == Listed(data)
  <2>1. shown \in SetToSeqs(S) /\ IsFiniteSet(S) /\ S \subseteq Matching /\ S \subseteq OfferIds
    BY <2>0, LoadedSets
  <2>2. /\ \A i, j \in 1 .. Len(shown) : i # j => shown[i] # shown[j]
        /\ \A o \in S : \E i \in 1 .. Len(shown) : shown[i] = o
        /\ \A i \in 1 .. Len(shown) : shown[i] \in S
    <3> HIDE DEF S
    <3>1. shown \in Seq(S)
      BY <2>1, OrderCovers
    <3>2. QED
      BY <2>1, <3>1, OrderCovers
  <2>3. ASSUME NEW i \in 1 .. Len(shown), NEW j \in 1 .. Len(shown), i < j
        PROVE  catalog[shown[i]].name <= catalog[shown[j]].name
    <3>1. IF search.located THEN NameThenId(shown[i], shown[j]) ELSE ByName(shown[i], shown[j])
      BY <1>3, <2>3, ResultsListed
    <3>2. shown[i] \in OfferIds /\ shown[j] \in OfferIds
      BY <2>1, <2>2
    <3>3. catalog[shown[i]].name \in Nat /\ catalog[shown[j]].name \in Nat
      BY <1>1, <3>2 DEF SearchTyped, CatalogRow
    <3>4. QED
      BY <3>1, <3>3 DEF NameThenId, ByName
  <2>4. ASSUME search.located
        PROVE  /\ \A i, j \in 1 .. Len(shown) : i # j => ~SameGroup(shown[i], shown[j])
               /\ \A o \in UNION Loads : \E i \in 1 .. Len(shown) : SameGroup(o, shown[i])
    <3>1. S = Representatives(data)
      BY <2>4, LoadedSets
    <3>2. /\ \A o \in data : \E p \in Representatives(data) : SameGroup(o, p)
          /\ \A o, p \in Representatives(data) : o # p => ~SameGroup(o, p)
      BY <1>1, <2>4, RepresentativesSuffice
    <3>3. UNION Loads = data
      BY <2>4 DEF SameEachTime
    <3> HIDE DEF S
    <3>4. QED
      BY <2>2, <3>1, <3>2, <3>3
  <2>5. ASSUME ~search.located
        PROVE  \A o \in UNION Loads : \E i \in 1 .. Len(shown) : o = shown[i]
    <3>1. S = Matching /\ UNION Loads = Matching
      BY <2>5, LoadedSets
    <3> HIDE DEF S
    <3>2. QED
      BY <2>2, <3>1
  <2> HIDE DEF S
  <2>6. QED
    BY <2>2, <2>3, <2>4, <2>5
<1>4. QED
  BY <1>2, <1>3 DEF SearchInv

LEMMA FetchPageStep == SearchInv /\ FetchPage => SearchInv'
<1> SUFFICES ASSUME SearchInv, FetchPage
             PROVE  SearchInv'
  OBVIOUS
<1>1. /\ SearchTyped /\ search.step = "open" /\ search.offset \in Nat
      /\ PageSize \in Nat \ {0} /\ catalog' = catalog /\ moved' = moved /\ date' = date
      /\ search.located => DOMAIN search.distance # {}
  BY SearchAssumption DEF SearchInv, SearchTyped, FetchPage
<1>2. PICK seq \in Results :
        /\ shown' = shown \o Cut(seq)
        /\ search' = IF search.offset + PageSize < Len(seq)
                     THEN [search EXCEPT !.offset = @ + PageSize]
                     ELSE [search EXCEPT !.step = "done"]
  BY DEF FetchPage
<1>3. seq \in Seq(OfferIds) /\ Len(seq) \in Nat
  BY ResultsListed
<1>4. /\ search'.located = search.located /\ search'.distance = search.distance
      /\ search'.shops = search.shops
      /\ IF search.offset + PageSize < Len(seq)
         THEN search'.step = "open" /\ search'.offset = search.offset + PageSize
         ELSE search'.step = "done" /\ search'.offset = search.offset
  BY <1>1, <1>2 DEF SearchTyped
<1>5. Results' = Results /\ SameEachTime' = SameEachTime
  BY <1>1, <1>4 DEF Results, Loads, Listed, Before, Representatives, SameEachTime, Matching,
                    InWindow, Nearer, SortDistance, SameGroup, NameThenId, ByName
<1>6. SearchTyped'
  <2>1. Cut(seq) \in Seq(OfferIds)
    <3> DEFINE from == search.offset + 1
               to == Min({search.offset + PageSize, Len(seq)})
    <3>1. from \in Nat \ {0} /\ search.offset + PageSize \in Nat
      BY <1>1
    <3>2. to = IF search.offset + PageSize <= Len(seq) THEN search.offset + PageSize
               ELSE Len(seq)
      BY <1>3, <3>1, LesserOf
    <3>3. to \in Nat /\ to <= Len(seq)
      <4> HIDE DEF to
      <4>1. QED
        BY <1>3, <3>1, <3>2
    <3>4. Cut(seq) = SubSeq(seq, from, to)
      BY DEF Cut
    <3> HIDE DEF from, to
    <3>5. \A i \in from .. to : seq[i] \in OfferIds
      BY <1>3, <3>1, <3>3
    <3>6. SubSeq(seq, from, to) \in Seq(OfferIds)
      BY <3>1, <3>3, <3>5, SubSeqProperties
    <3>7. QED
      BY <3>4, <3>6
  <2>2. shown' \in Seq(OfferIds)
    BY <1>1, <1>2, <2>1, ConcatProperties DEF SearchTyped
  <2>3. search' \in [step : {"closed", "open", "done"}, located : BOOLEAN,
                     distance : Areas \cup {<<>>}, shops : SUBSET Shops, offset : Nat]
    <3>1. search.offset + PageSize \in Nat
      BY <1>1
    <3>2. [search EXCEPT !.offset = @ + PageSize]
            \in [step : {"closed", "open", "done"}, located : BOOLEAN,
                distance : Areas \cup {<<>>}, shops : SUBSET Shops, offset : Nat]
      BY <1>1, <3>1 DEF SearchTyped
    <3>3. [search EXCEPT !.step = "done"]
            \in [step : {"closed", "open", "done"}, located : BOOLEAN,
                distance : Areas \cup {<<>>}, shops : SUBSET Shops, offset : Nat]
      BY <1>1 DEF SearchTyped
    <3>4. QED
      BY <1>2, <3>2, <3>3
  <2>4. QED
    BY <1>1, <1>4, <2>2, <2>3 DEF SearchTyped
<1>7. ASSUME ~moved, SameEachTime
      PROVE  shown' = SubSeq(seq, 1, Min({search.offset + PageSize, Len(seq)}))
  <2>1. search.offset <= Len(seq) /\ shown = SubSeq(seq, 1, search.offset)
    BY <1>1, <1>2, <1>7 DEF SearchInv
  <2>2. Min({search.offset + PageSize, Len(seq)}) \in search.offset .. Len(seq)
    <3>1. search.offset + PageSize \in Nat /\ search.offset <= search.offset + PageSize
      BY <1>1
    <3>2. Min({search.offset + PageSize, Len(seq)})
            = IF search.offset + PageSize <= Len(seq) THEN search.offset + PageSize ELSE Len(seq)
      BY <1>3, <3>1, LesserOf
    <3>3. QED
      BY <1>1, <1>3, <2>1, <3>1, <3>2
  <2>3. search.offset \in 0 .. Len(seq)
    BY <1>1, <1>3, <2>1
  <2>4. QED
    BY <1>2, <1>3, <2>1, <2>2, <2>3, PageContinues DEF Cut
<1>8. CASE search.offset + PageSize < Len(seq)
  <2>1. Min({search.offset + PageSize, Len(seq)}) = search.offset + PageSize
    BY <1>1, <1>3, <1>8, LesserOf
  <2>2. ASSUME ~moved, SameEachTime, NEW other \in Results
        PROVE  search'.offset <= Len(other) /\ shown' = SubSeq(other, 1, search'.offset)
    <3>1. other = seq
      BY <1>1, <2>2, OneResult
    <3>2. search'.offset = search.offset + PageSize
      BY <1>4, <1>8
    <3>3. shown' = SubSeq(seq, 1, search.offset + PageSize)
      BY <1>7, <2>1, <2>2
    <3>4. search.offset + PageSize <= Len(seq)
      BY <1>1, <1>3, <1>8
    <3>5. QED
      BY <3>1, <3>2, <3>3, <3>4
  <2>3. search'.step = "open" /\ search'.offset # 0
    BY <1>1, <1>4, <1>8
  <2>4. QED
    BY <1>1, <1>4, <1>5, <1>6, <2>2, <2>3 DEF SearchInv
<1>9. CASE ~(search.offset + PageSize < Len(seq))
  <2>1. Min({search.offset + PageSize, Len(seq)}) = Len(seq)
    BY <1>1, <1>3, <1>9, LesserOf
  <2>2. SubSeq(seq, 1, Len(seq)) = seq
    BY <1>3
  <2>3. ~moved /\ SameEachTime => shown' \in Results
    BY <1>2, <1>7, <2>1, <2>2
  <2>4. search'.step = "done"
    BY <1>4, <1>9
  <2>5. QED
    BY <1>1, <1>5, <1>6, <2>3, <2>4 DEF SearchInv
<1>10. QED
  BY <1>8, <1>9

(* Before the first page nothing is shown.                                 *)
LEMMA NoPageYet == \A seq \in Results : 0 <= Len(seq) /\ SubSeq(seq, 1, 0) = <<>>
<1> SUFFICES ASSUME NEW seq \in Results
             PROVE  0 <= Len(seq) /\ SubSeq(seq, 1, 0) = <<>>
  OBVIOUS
<1>1. seq \in Seq(OfferIds) /\ Len(seq) \in Nat
  BY ResultsListed
<1>2. QED
  BY <1>1

LEMMA NoPageNext == (\A seq \in Results : 0 <= Len(seq) /\ SubSeq(seq, 1, 0) = <<>>)'
BY NoPageYet, PTL

LEMMA SearchStep == SearchInv /\ [SearchNext]_searchVars => SearchInv'
<1> SUFFICES ASSUME SearchInv, [SearchNext]_searchVars
             PROVE  SearchInv'
  OBVIOUS
<1>1. ASSUME NEW c \in Catalogs, NEW located \in BOOLEAN, NEW a \in Areas \cup {<<>>},
             located => a \in Areas, NEW shops \in SUBSET Shops,
             OpenSearch(c, located, a, shops)
      PROVE  SearchInv'
  <2>1. /\ search'.step = "open" /\ search'.offset = 0 /\ shown' = <<>> /\ catalog' = c
        /\ search'.located = located /\ search'.distance = a
    BY <1>1 DEF OpenSearch
  <2>2. c \in [OfferIds -> CatalogRow]
    BY SearchAssumption
  <2>3. SearchTyped'
    BY <1>1, <2>1, <2>2 DEF SearchTyped, OpenSearch
  <2>4. \A seq \in Results' : 0 <= Len(seq) /\ SubSeq(seq, 1, 0) = <<>>
    BY NoPageNext
  <2>5. QED
    BY <2>1, <2>3, <2>4 DEF SearchInv
<1>2. CASE NothingAround
  <2>1. /\ search.step = "open" /\ search.located /\ DOMAIN search.distance = {}
        /\ ~moved => shown = <<>>
        /\ shown' = shown /\ catalog' = catalog /\ date' = date /\ moved' = moved
        /\ search' = [search EXCEPT !.step = "done"] /\ SearchTyped
    BY <1>2 DEF NothingAround, SearchInv
  <2>2. /\ search'.step = "done" /\ search'.located /\ DOMAIN search'.distance = {}
        /\ search'.distance = search.distance
    BY <2>1 DEF SearchTyped
  <2>3. SearchTyped'
    BY <2>1, <2>2 DEF SearchTyped
  <2>4. Matching' = {}
    BY <2>2 DEF Matching
  <2>5. QED
    BY <2>1, <2>2, <2>3, <2>4 DEF SearchInv
<1>3. CASE FetchPage
  BY <1>3, FetchPageStep
<1>4. CASE DayPasses
  <2>1. /\ search' = search /\ shown' = shown /\ catalog' = catalog
        /\ search.step # "closed" => moved'
    <3>1. search.step # "closed" => search # Closed
      BY DEF Closed
    <3>2. QED
      BY <1>4, <3>1, Zenon DEF DayPasses
  <2>2. QED
    BY <2>1 DEF SearchInv, SearchTyped
<1>5. ASSUME NEW c \in Catalogs, OffersChange(c)
      PROVE  SearchInv'
  <2>1. search' = search /\ shown' = shown /\ catalog' = c /\ moved'
    BY <1>5, Zenon DEF OffersChange
  <2>2. c \in [OfferIds -> CatalogRow]
    BY SearchAssumption
  <2>3. QED
    BY <2>1, <2>2 DEF SearchInv, SearchTyped
<1>6. ASSUME NEW a \in Areas, AreaChanges(a)
      PROVE  SearchInv'
  <2>1. /\ search' = [search EXCEPT !.distance = a] /\ shown' = shown /\ catalog' = catalog
        /\ moved' /\ search.step = "open" /\ SearchTyped
    BY <1>6, Zenon DEF AreaChanges, SearchInv
  <2>2. /\ search'.step = search.step /\ search'.offset = search.offset
        /\ search'.distance = a
    BY <2>1 DEF SearchTyped
  <2>3. SearchTyped'
    BY <2>1 DEF SearchTyped
  <2>4. QED
    BY <2>1, <2>2, <2>3 DEF SearchInv
<1>7. CASE UNCHANGED searchVars
  <2>1. /\ search' = search /\ shown' = shown /\ catalog' = catalog /\ moved' = moved
        /\ Results' = Results /\ SameEachTime' = SameEachTime /\ Matching' = Matching
    BY <1>7 DEF searchVars, Results, Loads, Listed, Before, Representatives, SameEachTime,
                Matching, InWindow, Nearer, SortDistance, SameGroup, NameThenId, ByName
  <2>2. QED
    BY <2>1 DEF SearchInv, SearchTyped
<1>8. QED
  BY <1>1, <1>2, <1>3, <1>4, <1>5, <1>6, <1>7 DEF SearchNext

(* README.md:21: whatever the catalogue, the distances, the size of a page *)
(* and the row limit, the pages of a search whose offers, area and day did *)
(* not change show every offer that the queries load once, one of all      *)
(* clones: with a Comune the offers before the row limit, where that does  *)
(* not part offers of one name; without one all, where all names differ.   *)
THEOREM SearchPagesCover == SearchSpec => []PagesCoverSearch
<1>1. SearchInit => SearchInv
  <2> SUFFICES ASSUME SearchInit
               PROVE  SearchInv
    OBVIOUS
  <2>1. /\ search.step = "closed" /\ search.located = FALSE
        /\ search \in [step : {"closed", "open", "done"}, located : BOOLEAN,
                       distance : Areas \cup {<<>>}, shops : SUBSET Shops, offset : Nat]
    BY DEF SearchInit, Closed
  <2>2. shown \in Seq(OfferIds)
    BY DEF SearchInit
  <2>3. QED
    BY <2>1, <2>2 DEF SearchInv, SearchTyped
<1>2. QED
  BY <1>1, SearchStep, PagesCover, PTL DEF SearchSpec
=============================================================================
