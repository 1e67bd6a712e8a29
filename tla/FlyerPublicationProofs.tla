------------------------ MODULE FlyerPublicationProofs ------------------------
(***************************************************************************)
(* Theorems about FlyerPublication, for any number of supermarkets, offers *)
(* and days, with every fault and the cleanup beside the requests.         *)
(***************************************************************************)
EXTENDS FlyerPublication, TLAPS

-----------------------------------------------------------------------------
(* Types.                                                                  *)

LEMMA NoOfferTyped ==
  /\ NoOffer \in OfferRow /\ NoOffers \in [Offers -> OfferRow]
  /\ \A o \in Offers : NoOffers[o] = NoOffer
BY DEF OfferRow, NoOffers

LEMMA NoCloneTyped ==
  /\ NoClone \in CloneRow /\ NoClones \in [Offers -> CloneRow]
  /\ \A o \in Offers : NoClones[o] = NoClone
BY DEF CloneRow, NoClones

LEMMA IdleTyped ==
  /\ Idle \in Request
  /\ Idle.step = "idle" /\ Idle.notify = FALSE /\ Idle.offers = NoOffers
  /\ Idle.todo = {} /\ Idle.flyers = {} /\ Idle.current = {} /\ Idle.edited = {}
  /\ Idle.missing = {}
BY NoOfferTyped DEF Idle, Request, Step

LEMMA MarketOf == \A d \in Derived : d[1] \in Markets
BY DEF Derived

DayRow == [state : {"none", "public", "deleted"}, to : Day]

(* The types of the rows and of the request are separate.                  *)
TablesTyped ==
  /\ today \in Day
  /\ source \in [live : BOOLEAN, to : Day]
  /\ target \subseteq Markets
  /\ offer \in [Offers -> OfferRow]
  /\ derived \in [Derived -> DayRow]
  /\ clone \in [Derived -> [Offers -> CloneRow]]
  /\ jobs \subseteq Derived /\ swept \subseteq Derived
  /\ sweep \subseteq Derived \cup {SourceId}

LEMMA TypeParts == TypeOK <=> TablesTyped /\ request \in Request
BY DEF TypeOK, TablesTyped, DayRow

LEMMA OfferRows ==
  ASSUME NEW row \in OfferRow
  PROVE  /\ row.kind \in {"none", "draft", "master"}
         /\ row.version \in Version /\ row.to \in Day
         /\ row = NoOffer \/ row \in [kind : {"draft", "master"}, version : Version, to : Day]
         /\ row = NoOffer <=> row.kind = "none"
<1>1. 0 \in Day /\ 0 \in Version
  BY PublicationAssumption DEF Day, Version
<1>2. QED
  BY <1>1 DEF OfferRow, NoOffer

(* Actions on offers.                                                      *)
LEMMA OfferTypes ==
  ASSUME TypeOK, NEW o \in Offers,
         \/ CreateDraft(o) \/ UpdateOfferFields(o) \/ UpdateProductFields(o)
         \/ DeleteClones(o) \/ DeleteOffer(o)
  PROVE  TypeOK'
<1>0. 0 \in Day /\ 0 \in Version /\ TablesTyped /\ request \in Request
  BY PublicationAssumption, TypeParts DEF Day, Version
<1>1. offer' \in [Offers -> OfferRow]
  <2>1. CASE CreateDraft(o)
    BY <1>0, <2>1 DEF CreateDraft, TablesTyped, OfferRow
  <2>2. ASSUME offer[o] # NoOffer, offer[o].version < MaxEdits PROVE Written(o) \in [Offers -> OfferRow]
    <3>1. offer[o].version + 1 \in Version
      BY <1>0, <2>2, OfferRows, PublicationAssumption DEF TablesTyped, Version
    <3>2. QED
      BY <1>0, <2>2, <3>1, OfferRows DEF Written, TablesTyped, OfferRow
  <2>3. CASE UpdateOfferFields(o) \/ UpdateProductFields(o)
    BY <1>0, <2>2, <2>3 DEF UpdateOfferFields, UpdateProductFields, TablesTyped
  <2>4. CASE DeleteClones(o) \/ DeleteOffer(o)
    BY <1>0, <2>4, NoOfferTyped DEF DeleteClones, DeleteOffer, TablesTyped
  <2>5. QED
    BY <2>1, <2>3, <2>4
<1>2. clone' \in [Derived -> [Offers -> CloneRow]]
  BY <1>0, NoCloneTyped DEF CreateDraft, UpdateOfferFields, UpdateProductFields,
     DeleteClones, DeleteOffer, TablesTyped, WithoutClonesOf
<1>3. request' \in Request
  <2>1. CASE CreateDraft(o)
    BY <1>0, <2>1 DEF CreateDraft
  <2>2. CASE UpdateOfferFields(o) \/ DeleteClones(o)
    <3>1. PICK step \in {"product", "delete"} :
            request' = [Idle EXCEPT !.step = step, !.edited = {o}]
      BY <2>2 DEF UpdateOfferFields, DeleteClones
    <3>2. QED
      BY <3>1, IdleTyped DEF Request, Step
  <2>6. CASE DeleteOffer(o)
    BY <2>6, IdleTyped DEF DeleteOffer, Finish
  <2>3. ASSUME NEW row \in OfferRow, Reread(o, row) PROVE request' \in Request
    BY <1>0, <2>3, IdleTyped, NoOfferTyped DEF Reread, Request, Step, Public
  <2>4. CASE UpdateProductFields(o)
    <3>1. offer[o] \in OfferRow /\ offer'[o] \in OfferRow
      BY <1>0, <1>1 DEF TablesTyped
    <3>2. QED
      BY <2>3, <2>4, <3>1, IdleTyped DEF UpdateProductFields, Finish
  <2>5. QED
    BY <2>1, <2>2, <2>4, <2>6
<1>4. UNCHANGED <<today, source, target, derived, jobs, swept, sweep>>
  BY DEF CreateDraft, UpdateOfferFields, UpdateProductFields, DeleteClones, DeleteOffer,
     others, calendar
<1>5. QED
  BY <1>0, <1>1, <1>2, <1>3, <1>4 DEF TypeOK, TablesTyped, DayRow

(* confirm_offers.                                                         *)
LEMMA ConfirmTypes ==
  ASSUME TypeOK,
         \/ ConfirmOffers \/ ConfirmDrafts \/ EnqueueFlyerPublished \/ TargetsPublished
         \/ \E m \in Markets : UpdateTargetFlyer(m) \/ InsertTargetFlyer(m)
  PROVE  TypeOK'
<1>0. 0 \in Day /\ 0 \in Version /\ TablesTyped /\ request \in Request
  BY PublicationAssumption, TypeParts DEF Day, Version
<1>1. CASE ConfirmOffers
  <2>1. PICK n \in BOOLEAN : request' = [Idle EXCEPT !.step = "confirm", !.notify = n]
    BY <1>1 DEF ConfirmOffers
  <2>2. request' \in Request
    BY <2>1, IdleTyped DEF Request, Step
  <2>3. QED
    BY <1>0, <1>1, <2>2 DEF ConfirmOffers, rows, others, calendar, TypeOK, TablesTyped, DayRow
<1>2. CASE ConfirmDrafts
  <2>1. offer' \in [Offers -> OfferRow]
    <3>1. \A o \in Offers : offer[o].kind = "draft" => [offer[o] EXCEPT !.kind = "master"] \in OfferRow
      <4>1. TAKE o \in Offers
      <4>2. HAVE offer[o].kind = "draft"
      <4>3. offer[o] \in [kind : {"draft", "master"}, version : Version, to : Day]
        BY <1>0, <4>2 DEF TablesTyped, OfferRow, NoOffer
      <4>4. QED
        BY <4>3 DEF OfferRow
    <3>2. QED
      BY <1>0, <1>2, <3>1 DEF ConfirmDrafts, TablesTyped
  <2>2. ReadMasters(offer') \in [Offers -> OfferRow]
    BY <2>1, NoOfferTyped DEF ReadMasters
  <2>3. request' \in Request
    <3>1. request' = Idle \/ request' = [request EXCEPT !.step = "targets", !.todo = target,
                                          !.offers = ReadMasters(offer')]
      BY <1>2 DEF ConfirmDrafts
    <3>2. QED
      BY <1>0, <2>2, <3>1, IdleTyped DEF Request, Step, TablesTyped
  <2>4. QED
    BY <1>0, <1>2, <2>1, <2>3 DEF ConfirmDrafts, others, calendar, TypeOK, TablesTyped, DayRow
<1>3. CASE EnqueueFlyerPublished \/ TargetsPublished
  <2>1. request' \in Request
    <3>1. CASE EnqueueFlyerPublished
      BY <1>0, <3>1 DEF EnqueueFlyerPublished, Request, Step
    <3>2. CASE TargetsPublished
      BY <1>0, <3>2 DEF TargetsPublished, Request, Step, Public
    <3>3. QED
      BY <1>3, <3>1, <3>2
  <2>2. jobs' \subseteq Derived
    BY <1>0, <1>3 DEF EnqueueFlyerPublished, TargetsPublished, Request, TablesTyped
  <2>3. QED
    BY <1>0, <1>3, <2>1, <2>2 DEF EnqueueFlyerPublished, TargetsPublished, rows, others, calendar,
       TypeOK, TablesTyped, DayRow
<1>4. ASSUME NEW m \in Markets, UpdateTargetFlyer(m) \/ InsertTargetFlyer(m)
      PROVE  TypeOK'
  <2>1. derived' \in [Derived -> DayRow]
    <3>1. PICK d \in Derived, row \in DayRow : derived' = [derived EXCEPT ![d] = row]
      <4>1. CASE UpdateTargetFlyer(m)
        <5>1. PICK d \in PublicIn(m) : derived' = [derived EXCEPT ![d].to = source.to]
          BY <4>1 DEF UpdateTargetFlyer
        <5>2. d \in Derived
          BY DEF PublicIn, Public
        <5>3. [derived[d] EXCEPT !.to = source.to] \in DayRow
          BY <1>0, <5>2 DEF TablesTyped, DayRow
        <5>4. QED
          BY <5>1, <5>2, <5>3
      <4>2. CASE InsertTargetFlyer(m)
        BY <1>0, <4>2 DEF InsertTargetFlyer, TablesTyped, DayRow
      <4>3. QED
        BY <1>4, <4>1, <4>2
    <3>2. QED
      BY <1>0, <3>1 DEF TablesTyped
  <2>2. CASE UpdateTargetFlyer(m)
    <3>1. request' \in Request
      BY <1>0, <2>2 DEF UpdateTargetFlyer, Request
    <3>2. QED
      BY <1>0, <2>1, <2>2, <3>1 DEF UpdateTargetFlyer, others, calendar, TypeOK, TablesTyped, DayRow
  <2>3. CASE InsertTargetFlyer(m)
    <3>1. PICK d \in Derived, step \in {"enqueue", "targets"} :
            request' = [request EXCEPT !.todo = @ \ {m}, !.step = step, !.current = {d}]
      BY <2>3 DEF InsertTargetFlyer
    <3>2. request' \in Request
      BY <1>0, <3>1 DEF Request, Step
    <3>3. QED
      BY <1>0, <2>1, <2>3, <3>2 DEF InsertTargetFlyer, others, calendar, TypeOK, TablesTyped, DayRow
  <2>4. QED
    BY <1>4, <2>2, <2>3
<1>5. QED
  BY <1>1, <1>2, <1>3, <1>4

(* _sync_published_clones_for_source_offers.                               *)
LEMMA CopyTyped ==
  ASSUME request \in Request, NEW o \in Offers
  PROVE  CloneOf(o) \in CloneRow
<1>1. request.offers[o] \in OfferRow
  BY DEF Request
<1>2. QED
  BY <1>1, OfferRows DEF CloneOf, CloneRow

LEMMA CloneTypes ==
  ASSUME TypeOK, UpsertClones \/ InsertMissing \/ ForeignKeyRaises \/ DeleteStaleClones
  PROVE  TypeOK'
<1>0. TablesTyped /\ request \in Request
  BY TypeParts
<1>1. clone' \in [Derived -> [Offers -> CloneRow]]
  <2>1. \A o \in Offers : CloneOf(o) \in CloneRow
    BY <1>0, CopyTyped
  <2>2. CASE UpsertClones
    BY <1>0, <2>1, <2>2 DEF UpsertClones, TablesTyped
  <2>3. CASE InsertMissing
    BY <1>0, <2>1, <2>3 DEF InsertMissing, TablesTyped
  <2>4. CASE ForeignKeyRaises \/ DeleteStaleClones
    BY <1>0, <2>4, NoCloneTyped DEF ForeignKeyRaises, DeleteStaleClones, rows, TablesTyped
  <2>5. QED
    BY <2>2, <2>3, <2>4
<1>2. request' \in Request
  <2>1. CASE UpsertClones
    <3>1. \E missing \in SUBSET (Derived \X Offers) :
            request' = [request EXCEPT !.step = "missing", !.missing = missing]
      BY <1>0, <2>1 DEF UpsertClones, Sent, Request
    <3>2. QED
      BY <1>0, <3>1 DEF Request, Step
  <2>2. QED
    BY <2>1, IdleTyped DEF InsertMissing, ForeignKeyRaises, DeleteStaleClones, Finish
<1>3. QED
  BY <1>0, <1>1, <1>2 DEF UpsertClones, InsertMissing, ForeignKeyRaises, DeleteStaleClones,
     rows, others, calendar, TypeOK, TablesTyped, DayRow

(* update_flyer_targets.                                                   *)
LEMMA TargetTypes ==
  ASSUME TypeOK,
         \/ \E accepted \in SUBSET Markets \ {{}} : DeleteTargets(accepted)
         \/ InsertTargets \/ DeleteRemovedClones \/ DeleteRemovedFlyers
  PROVE  TypeOK'
<1>0. 0 \in Day /\ TablesTyped /\ request \in Request
  BY PublicationAssumption, TypeParts DEF Day
<1>1. ASSUME NEW accepted \in SUBSET Markets, DeleteTargets(accepted) PROVE TypeOK'
  <2>1. request' \in Request
    BY <1>1, IdleTyped DEF DeleteTargets, Request, Step
  <2>2. QED
    BY <1>0, <1>1, <2>1 DEF DeleteTargets, others, calendar, TypeOK, TablesTyped, DayRow
<1>2. CASE InsertTargets
  <2>1. ReadMasters(offer) \in [Offers -> OfferRow]
    BY <1>0, NoOfferTyped DEF ReadMasters, TablesTyped
  <2>2. request' = Idle \/ request' = [request EXCEPT !.step = "unpublish", !.notify = TRUE,
                                        !.offers = ReadMasters(offer)]
    BY <1>2 DEF InsertTargets
  <2>3. request' \in Request
    BY <1>0, <2>1, <2>2, IdleTyped DEF Request, Step
  <2>4. target' \subseteq Markets
    BY <1>0, <1>2 DEF InsertTargets, Request
  <2>5. QED
    BY <1>0, <1>2, <2>3, <2>4 DEF InsertTargets, others, calendar, TypeOK, TablesTyped, DayRow
<1>3. CASE DeleteRemovedClones \/ DeleteRemovedFlyers
  <2>1. clone' \in [Derived -> [Offers -> CloneRow]]
    BY <1>0, <1>3, NoCloneTyped DEF DeleteRemovedClones, DeleteRemovedFlyers, TablesTyped
  <2>2. derived' \in [Derived -> DayRow]
    BY <1>0, <1>3 DEF DeleteRemovedClones, DeleteRemovedFlyers, TablesTyped, DayRow, Gone
  <2>3. request' \in Request
    BY <1>0, <1>3 DEF DeleteRemovedClones, DeleteRemovedFlyers, Ask, Request, Step
  <2>4. QED
    BY <1>0, <1>3, <2>1, <2>2, <2>3 DEF DeleteRemovedClones, DeleteRemovedFlyers, others, calendar,
       TypeOK, TablesTyped, DayRow
<1>4. QED
  BY <1>1, <1>2, <1>3

(* _sync_flyer_validity.                                                   *)
LEMMA DateTypes ==
  ASSUME TypeOK,
         \/ \E to \in Day : UpdateValidity(to)
         \/ UpdateOfferDates
         \/ \E d \in Derived : UpdateDerivedDates(d) \/ UpdateCloneDates(d)
  PROVE  TypeOK'
<1>0. TablesTyped /\ request \in Request
  BY TypeParts
<1>1. ASSUME NEW to \in Day, UpdateValidity(to) PROVE TypeOK'
  <2>1. request' \in Request /\ source' \in [live : BOOLEAN, to : Day]
    BY <1>0, <1>1 DEF UpdateValidity, Ask, Request, Step, TablesTyped
  <2>2. QED
    BY <1>0, <1>1, <2>1 DEF UpdateValidity, others, calendar, TypeOK, TablesTyped, DayRow
<1>2. CASE UpdateOfferDates
  <2>1. \A o \in Offers : offer[o] # NoOffer => [offer[o] EXCEPT !.to = source.to] \in OfferRow
    BY <1>0, OfferRows DEF TablesTyped, OfferRow
  <2>2. offer' \in [Offers -> OfferRow]
    BY <1>2, <2>1, NoOfferTyped DEF UpdateOfferDates
  <2>3. request' \in Request
    BY <1>0, <1>2, IdleTyped DEF UpdateOfferDates, Request, Step, Public
  <2>4. QED
    BY <1>0, <1>2, <2>2, <2>3 DEF UpdateOfferDates, others, calendar, TypeOK, TablesTyped, DayRow
<1>3. ASSUME NEW d \in Derived, UpdateDerivedDates(d) PROVE TypeOK'
  <2>1. derived' \in [Derived -> DayRow]
    BY <1>0, <1>3 DEF UpdateDerivedDates, TablesTyped, DayRow
  <2>2. request' \in Request
    BY <1>0, <1>3 DEF UpdateDerivedDates, Request, Step
  <2>3. QED
    BY <1>0, <1>3, <2>1, <2>2 DEF UpdateDerivedDates, others, calendar, TypeOK, TablesTyped, DayRow
<1>4. ASSUME NEW d \in Derived, UpdateCloneDates(d) PROVE TypeOK'
  <2>1. \A o \in Offers : clone[d][o] # NoClone => [clone[d][o] EXCEPT !.to = source.to] \in CloneRow
    BY <1>0 DEF TablesTyped, CloneRow
  <2>2. clone' \in [Derived -> [Offers -> CloneRow]]
    BY <1>0, <1>4, <2>1, NoCloneTyped DEF UpdateCloneDates, TablesTyped
  <2>3. request' \in Request
    BY <1>0, <1>4, IdleTyped DEF UpdateCloneDates, Request, Step
  <2>4. QED
    BY <1>0, <1>4, <2>2, <2>3 DEF UpdateCloneDates, others, calendar, TypeOK, TablesTyped, DayRow
<1>5. QED
  BY <1>1, <1>2, <1>3, <1>4

(* Deletions, interruptions and the cleanup.                               *)
LEMMA EndingTypes ==
  ASSUME TypeOK, DeleteSource \/ RequestDies \/ \E d \in Derived : DeleteDerived(d)
  PROVE  TypeOK'
<1>0. 0 \in Day /\ TablesTyped /\ request \in Request
  BY PublicationAssumption, TypeParts DEF Day
<1>1. derived' \in [Derived -> DayRow]
  <2>1. Gone \in DayRow
    BY <1>0 DEF Gone, DayRow
  <2>2. CASE DeleteSource
    BY <1>0, <2>1, <2>2 DEF DeleteSource, TablesTyped
  <2>3. CASE RequestDies \/ \E d \in Derived : DeleteDerived(d)
    BY <1>0, <2>1, <2>3 DEF RequestDies, DeleteDerived, rows, TablesTyped
  <2>4. QED
    BY <2>2, <2>3
<1>2. clone' \in [Derived -> [Offers -> CloneRow]]
  BY <1>0, NoCloneTyped DEF DeleteSource, RequestDies, DeleteDerived, rows, TablesTyped
<1>3. source' \in [live : BOOLEAN, to : Day]
  BY <1>0 DEF DeleteSource, RequestDies, DeleteDerived, rows, TablesTyped
<1>4. request' \in Request
  BY <1>0, IdleTyped DEF DeleteSource, RequestDies, DeleteDerived, Finish
<1>5. QED
  BY <1>0, <1>1, <1>2, <1>3, <1>4, NoOfferTyped DEF DeleteSource, RequestDies, DeleteDerived, rows,
     others, calendar, TypeOK, TablesTyped, DayRow

LEMMA CleanupTypes ==
  ASSUME TypeOK, SelectExpired \/ Sweep \/ SweepStops \/ NextDay \/ UNCHANGED vars
  PROVE  TypeOK'
<1>0. TablesTyped /\ request \in Request
  BY TypeParts
<1>1. CASE SelectExpired \/ SweepStops
  BY <1>0, <1>1 DEF SelectExpired, SweepStops, Expired, Public, rows, TypeOK, TablesTyped, DayRow
<1>2. CASE Sweep
  <2>1. clone' \in [Derived -> [Offers -> CloneRow]]
    BY <1>0, <1>2, NoCloneTyped DEF Sweep, SweepSource, SweepDerived, TablesTyped
  <2>2. QED
    BY <1>0, <1>2, <2>1, NoOfferTyped DEF Sweep, SweepSource, SweepDerived, TypeOK, TablesTyped, DayRow
<1>3. CASE NextDay
  BY <1>0, <1>3, PublicationAssumption DEF NextDay, rows, Day, TypeOK, TablesTyped, DayRow
<1>4. CASE UNCHANGED vars
  BY <1>4 DEF vars, TypeOK
<1>5. QED
  BY <1>1, <1>2, <1>3, <1>4

LEMMA TypeStep == TypeOK /\ [Next]_vars => TypeOK'
<1>1. SUFFICES ASSUME TypeOK, [Next]_vars PROVE TypeOK'
  OBVIOUS
<1>2. CASE SelectExpired \/ Sweep \/ SweepStops \/ NextDay \/ UNCHANGED vars
  BY <1>1, <1>2, CleanupTypes
<1>3. CASE RequestStep
  BY <1>1, <1>3, OfferTypes, ConfirmTypes, CloneTypes, TargetTypes, DateTypes, EndingTypes
     DEF RequestStep
<1>4. QED
  BY <1>1, <1>2, <1>3 DEF Next

LEMMA InitTyped == Init => TypeOK
<1>1. SUFFICES ASSUME Init PROVE TypeOK
  OBVIOUS
<1>2. 0 \in Day
  BY PublicationAssumption DEF Day
<1>3. QED
  BY <1>1, <1>2, NoOfferTyped, NoCloneTyped, IdleTyped DEF Init, TypeOK

(* flyers.py and flyer_cleanup.py keep the types, whatever dies or races.  *)
THEOREM TypeCorrect == Spec => []TypeOK
BY InitTyped, TypeStep, PTL DEF Spec

-----------------------------------------------------------------------------
(* The inductive invariant.                                                *)

Publishing == request.step \in {"targets", "enqueue"}
Withdrawing == request.step \in {"unpublish", "remove"}
Replacing == request.step = "replace" \/ Withdrawing
Cloning == request.step \in {"clones", "missing"}
Dating == request.step \in {"flyerDates", "cloneDates"}

(* What a request remembers fits its step: which flyers it still visits,   *)
(* and which one it is visiting; the targets it publishes are in the table. *)
RequestFits ==
  /\ request.step = "idle" => request = Idle
  /\ request.step \in {"enqueue", "unpublish", "remove"} => request.notify
  /\ request.notify => request.step = "confirm" \/ Withdrawing \/ Publishing \/ Cloning
  /\ Publishing \/ Replacing \/ Cloning \/ request.todo = {}
  /\ Publishing => request.todo \subseteq target
  /\ Withdrawing => request.todo = target
  /\ request.step = "replace" => target = {}
  /\ Cloning => request.flyers = Public
  /\ Dating => request.flyers \subseteq Public
  /\ Cloning \/ Dating \/ request.flyers = {}
  /\ request.current \subseteq Public
  /\ Publishing \/ Cloning \/ Dating \/ request.current = {}
  /\ request.step \in {"enqueue", "cloneDates"} => \E d \in Public : request.current = {d}
  /\ request.step \in {"product", "delete"} => \E o \in Offers : request.edited = {o}
  /\ request.step \in {"product", "delete"} \/ request.edited = {}
  /\ request.step = "missing" \/ request.missing = {}
  /\ request.missing \subseteq request.flyers \X Sent

(* The offers that a request clones are those of the table, unless the     *)
(* cleanup has deleted all of them; a publication clones every one.        *)
SentAreMasters ==
  /\ \A o \in Sent : request.offers[o].kind = "master"
  /\ Withdrawing \/ Publishing \/ Cloning \/ Sent = {}
  /\ offer = NoOffers \/ \A o \in Sent : offer[o] = request.offers[o]
  /\ Withdrawing \/ Publishing => Masters \subseteq Sent
  /\ request.step = "clones" /\ Sent = {} => Masters = {}

(* Once something is confirmed or published, every target has its derived  *)
(* flyer, or the request under way gives it one; without a request that    *)
(* announces them no derived flyer is made.                                *)
HasFlyer(m) == \E d \in Public : d[1] = m
Covered == \A m \in target : HasFlyer(m)
TargetsCovered ==
  /\ Publishing => \A m \in target \ request.todo : HasFlyer(m)
  /\ (Masters # {} \/ Public # {}) /\ ~Replacing /\ ~Publishing
       /\ ("copies" \notin torn \/ "job" \notin torn) => Covered
  /\ "job" \notin torn /\ Publishing /\ ~request.notify => Covered

NoneBeside == "extra" \notin torn /\ ~Replacing => \A d \in Public : d[1] \in target

(* Every derived flyer has its job, or is the one about to get it.         *)
Announced ==
  "job" \notin torn =>
    \A d \in Public : d \in jobs \/ (request.step = "enqueue" /\ d \in request.current)

(* The dates of the derived flyers of the targets, less those that the     *)
(* request under way has still to write.                                   *)
Dated(d) == derived[d].to = source.to
DatesFollow ==
  /\ Publishing => \A d \in Public : d[1] \in target \ request.todo => Dated(d)
  /\ "copies" \notin torn /\ Dating =>
       \A d \in Public \ request.flyers : d[1] \in target => Dated(d)
  /\ "copies" \notin torn /\ ~Publishing /\ ~Replacing /\ ~Dating /\ request.step # "dates" =>
       \A d \in Public : d[1] \in target => Dated(d)

(* The clones, less those that the request under way has still to write.   *)
(* Clones that wait for their dates have the rest of their offer already.  *)
Copy(o) == [version |-> offer[o].version, to |-> offer[o].to]
Shown(o) == \A d \in Public \ swept : clone[d][o] = Copy(o)
Redated(d) == d \notin request.flyers /\ (request.step = "cloneDates" => d \notin request.current)
ClonesMirror ==
  /\ "copies" \notin torn /\ ~Publishing /\ ~Replacing /\ ~Cloning /\ ~Dating =>
       \A o \in Masters \ request.edited : Shown(o)
  /\ "copies" \notin torn /\ Cloning => \A o \in Masters \ Sent : Shown(o)
  /\ request.step = "missing" =>
       \A o \in Masters \cap Sent, d \in Public \ swept :
         <<d, o>> \in request.missing \/ clone[d][o] = Copy(o)
  /\ Dating => \A o \in Masters : offer[o].to = source.to
  /\ "copies" \notin torn /\ Dating =>
       \A o \in Masters, d \in Public \ swept :
         /\ clone[d][o].version = offer[o].version
         /\ Redated(d) => clone[d][o].to = source.to

PublicationInv ==
  /\ RequestFits /\ SentAreMasters
  /\ ClonesAreConfirmed /\ OneFlyerPerMarket
  /\ TargetsCovered /\ NoneBeside /\ Announced
  /\ DatesFollow /\ ClonesMirror

LEMMA RestingRequest ==
  ASSUME AtRest
  PROVE  /\ request.step = "idle" /\ ~request.notify /\ Sent = {}
         /\ request.todo = {} /\ request.flyers = {} /\ request.current = {}
         /\ request.edited = {} /\ request.missing = {}
BY IdleTyped, NoOfferTyped DEF AtRest, Sent

(* A request that ends leaves nothing to do.                               *)
LEMMA FinishedRequest ==
  ASSUME Finish
  PROVE  /\ AtRest' /\ RequestFits' /\ SentAreMasters'
         /\ request'.step = "idle" /\ request'.edited = {} /\ request'.current = {}
<1>1. /\ request'.step = "idle" /\ ~request'.notify /\ Sent' = {}
      /\ request'.todo = {} /\ request'.flyers = {} /\ request'.current = {}
      /\ request'.edited = {} /\ request'.missing = {}
  BY IdleTyped, NoOfferTyped DEF Finish, Sent
<1>2. QED
  BY <1>1 DEF Finish, AtRest, RequestFits, SentAreMasters, Publishing, Withdrawing, Replacing,
     Cloning, Dating

(* A request that only has its offer in mind.                              *)
LEMMA FreshRequest ==
  ASSUME NEW step \in {"product", "delete"}, NEW o \in Offers,
         request' = [Idle EXCEPT !.step = step, !.edited = {o}]
  PROVE  /\ RequestFits' /\ SentAreMasters'
         /\ request'.step = step /\ request'.edited = {o} /\ request'.current = {}
<1>1. /\ request'.step = step /\ ~request'.notify /\ Sent' = {}
      /\ request'.todo = {} /\ request'.flyers = {} /\ request'.current = {}
      /\ request'.edited = {o} /\ request'.missing = {}
  BY IdleTyped, NoOfferTyped DEF Sent, Idle
<1>2. QED
  BY <1>1 DEF RequestFits, SentAreMasters, Publishing, Withdrawing, Replacing, Cloning, Dating

(* A step that leaves the targets, the derived flyers and the jobs alone   *)
(* and publishes nothing.                                                  *)
LEMMA QuietStep ==
  ASSUME TargetsCovered, NoneBeside, Announced,
         UNCHANGED <<target, jobs>>, Public' = Public, torn \subseteq torn',
         Masters' # {} => Masters # {},
         ~Replacing, ~Publishing, ~Replacing', ~Publishing'
  PROVE  TargetsCovered' /\ NoneBeside' /\ Announced'
<1>1. Covered => Covered'
  BY DEF Covered, HasFlyer
<1>2. TargetsCovered'
  BY <1>1 DEF TargetsCovered
<1>3. NoneBeside' /\ Announced'
  BY DEF NoneBeside, Announced, Publishing
<1>4. QED
  BY <1>2, <1>3

(* create_draft_offer                                                      *)
LEMMA CreateDraftStep ==
  ASSUME TypeOK, PublicationInv, NEW o \in Offers, CreateDraft(o)
  PROVE  PublicationInv'
<1> USE DEF PublicationInv
<1>1. /\ AtRest /\ offer[o] = NoOffer /\ request' = request
      /\ UNCHANGED <<source, target, derived, clone, jobs, swept, torn>>
  BY DEF CreateDraft, others, calendar
<1>2. Masters' = Masters /\ Public' = Public /\ \A p \in Masters : offer'[p] = offer[p]
  BY DEF CreateDraft, Masters, Public, TypeOK, NoOffer
<1>3. RequestFits'
  BY <1>1, <1>2 DEF RequestFits, Publishing, Withdrawing, Replacing, Cloning, Dating, Sent
<1>4. SentAreMasters'
  BY <1>1, <1>2, RestingRequest DEF SentAreMasters, Publishing, Withdrawing, Cloning, Sent
<1>5. ClonesAreConfirmed' /\ OneFlyerPerMarket'
  BY <1>1, <1>2 DEF ClonesAreConfirmed, OneFlyerPerMarket, Masters
<1>6. TargetsCovered' /\ NoneBeside' /\ Announced' /\ DatesFollow'
  BY <1>1, <1>2 DEF TargetsCovered, NoneBeside, Announced, DatesFollow, Covered, HasFlyer, Dated,
     Publishing, Withdrawing, Replacing, Dating
<1>7. ClonesMirror'
  BY <1>1, <1>2, RestingRequest DEF ClonesMirror, Shown, Copy, Publishing, Withdrawing, Replacing,
     Cloning, Dating
<1>8. QED
  BY <1>3, <1>4, <1>5, <1>6, <1>7

(* update_draft_offer                                                      *)
LEMMA EditedOffer ==
  ASSUME TypeOK, NEW o \in Offers,
         offer' = offer \/ (offer[o] # NoOffer /\ offer' = Written(o))
  PROVE  /\ Masters' = Masters
         /\ \A p \in Offers : offer'[p].kind = offer[p].kind
         /\ \A p \in Offers \ {o} : offer'[p] = offer[p]
<1>1. \A p \in Offers : offer'[p].kind = offer[p].kind
  BY DEF Written, TypeOK, OfferRow, NoOffer
<1>2. \A p \in Offers \ {o} : offer'[p] = offer[p]
  BY DEF Written, TypeOK
<1>3. QED
  BY <1>1, <1>2 DEF Masters

LEMMA UpdateOfferFieldsStep ==
  ASSUME TypeOK, PublicationInv, NEW o \in Offers, UpdateOfferFields(o)
  PROVE  PublicationInv'
<1> USE DEF PublicationInv
<1>1. /\ AtRest /\ request' = [Idle EXCEPT !.step = "product", !.edited = {o}]
      /\ UNCHANGED <<source, target, derived, clone, jobs, swept, torn>>
      /\ offer' = offer \/ (offer[o] # NoOffer /\ offer' = Written(o))
  BY DEF UpdateOfferFields, others, calendar
<1>2. /\ RequestFits' /\ SentAreMasters'
      /\ request'.step = "product" /\ request'.edited = {o} /\ request.step = "idle"
      /\ request.edited = {}
  BY <1>1, FreshRequest, RestingRequest
<1>3. Public' = Public /\ Masters' = Masters
  BY <1>1, EditedOffer DEF Public
<1>4. ClonesAreConfirmed' /\ OneFlyerPerMarket'
  BY <1>1, <1>3, EditedOffer DEF ClonesAreConfirmed, OneFlyerPerMarket
<1>5. TargetsCovered' /\ NoneBeside' /\ Announced'
  BY <1>1, <1>2, <1>3, QuietStep DEF Publishing, Withdrawing, Replacing
<1>6. DatesFollow'
  BY <1>1, <1>2, <1>3 DEF DatesFollow, Dated, Publishing, Withdrawing, Replacing, Dating
<1>7. ClonesMirror'
  <2>1. "copies" \notin torn => \A p \in Masters \ {o} : Shown(p)'
    <3>1. SUFFICES ASSUME "copies" \notin torn, NEW p \in Masters \ {o} PROVE Shown(p)'
      OBVIOUS
    <3>2. offer'[p] = offer[p] /\ Shown(p)
      BY <1>1, <1>2, <3>1, EditedOffer DEF ClonesMirror, Publishing, Withdrawing, Replacing, Cloning,
         Dating, Masters
    <3>3. QED
      BY <1>1, <1>3, <3>2 DEF Shown, Copy
  <2>2. QED
    BY <1>1, <1>2, <1>3, <2>1 DEF ClonesMirror, Publishing, Withdrawing, Replacing, Cloning, Dating
<1>8. QED
  BY <1>2, <1>4, <1>5, <1>6, <1>7

LEMMA UpdateProductFieldsStep ==
  ASSUME TypeOK, PublicationInv, NEW o \in Offers, UpdateProductFields(o)
  PROVE  PublicationInv'
<1> USE DEF PublicationInv
<1>1. /\ request.step = "product" /\ request.edited = {o}
      /\ UNCHANGED <<source, target, derived, clone, jobs, swept>>
      /\ offer' = offer \/ (offer[o] # NoOffer /\ offer' = Written(o))
      /\ torn' = torn \cup {x \in {"copies"} : request' = Idle /\ offer[o].kind = "master"}
  BY DEF UpdateProductFields, calendar, RequestFits
<1>2. ~request.notify /\ request.todo = {} /\ request.current = {} /\ request.missing = {}
  BY <1>1 DEF RequestFits, Publishing, Withdrawing, Replacing, Cloning, Dating
<1>3. Public' = Public /\ Masters' = Masters /\ torn \subseteq torn'
  BY <1>1, EditedOffer DEF Public
<1>4. ClonesAreConfirmed' /\ OneFlyerPerMarket'
  BY <1>1, <1>3, EditedOffer DEF ClonesAreConfirmed, OneFlyerPerMarket
<1>5. \A p \in Masters \ {o} : "copies" \notin torn => Shown(p)'
  <2>1. SUFFICES ASSUME "copies" \notin torn, NEW p \in Masters \ {o} PROVE Shown(p)'
    OBVIOUS
  <2>2. offer'[p] = offer[p] /\ Shown(p)
    BY <1>1, <2>1, EditedOffer DEF ClonesMirror, Publishing, Withdrawing, Replacing, Cloning,
       Dating, Masters
  <2>3. QED
    BY <1>1, <1>3, <2>2 DEF Shown, Copy
<1>6. CASE request' = Idle
  <2>1. /\ RequestFits' /\ SentAreMasters' /\ request'.step = "idle" /\ request'.edited = {}
    BY <1>6, FinishedRequest DEF Finish
  <2>2. TargetsCovered' /\ NoneBeside' /\ Announced'
    BY <1>1, <1>3, <2>1, QuietStep DEF Publishing, Withdrawing, Replacing
  <2>3. DatesFollow'
    BY <1>1, <1>3, <2>1 DEF DatesFollow, Dated, Publishing, Withdrawing, Replacing, Dating
  <2>4. "copies" \notin torn' => o \notin Masters /\ "copies" \notin torn
    BY <1>1, <1>6 DEF Masters
  <2>5. ClonesMirror'
    BY <1>3, <1>5, <2>1, <2>4 DEF ClonesMirror, Publishing, Withdrawing, Replacing, Cloning, Dating
  <2>6. QED
    BY <1>4, <2>1, <2>2, <2>3, <2>5
<1>7. CASE request' # Idle
  <2>1. /\ offer'[o].kind = "master"
        /\ request' = [request EXCEPT !.step = "clones", !.edited = {}, !.flyers = Public,
                         !.offers = [NoOffers EXCEPT ![o] = offer'[o]]]
    BY <1>1, <1>7 DEF UpdateProductFields, Reread, Finish
  <2>2. /\ request'.step = "clones" /\ ~request'.notify /\ request'.todo = {}
        /\ request'.flyers = Public /\ request'.current = {} /\ request'.edited = {}
        /\ request'.missing = {} /\ request'.offers = [NoOffers EXCEPT ![o] = offer'[o]]
    BY <1>2, <2>1 DEF TypeOK, Request
  <2>3. Sent' = {o} /\ request'.offers[o] = offer'[o]
    BY <2>1, <2>2, NoOfferTyped DEF Sent, NoOffer
  <2>4. RequestFits'
    BY <1>3, <2>2, IdleTyped DEF RequestFits, Publishing, Withdrawing, Replacing, Cloning, Dating
  <2>5. SentAreMasters'
    BY <2>1, <2>2, <2>3 DEF SentAreMasters, Publishing, Withdrawing, Cloning
  <2>6. TargetsCovered' /\ NoneBeside' /\ Announced'
    BY <1>1, <1>3, <2>2, QuietStep DEF Publishing, Withdrawing, Replacing
  <2>7. DatesFollow'
    BY <1>1, <1>3, <2>2 DEF DatesFollow, Dated, Publishing, Withdrawing, Replacing, Dating
  <2>8. ClonesMirror'
    BY <1>3, <1>5, <2>2, <2>3 DEF ClonesMirror, Publishing, Withdrawing, Replacing, Cloning, Dating
  <2>9. QED
    BY <1>4, <2>4, <2>5, <2>6, <2>7, <2>8
<1>8. QED
  BY <1>6, <1>7

(* delete_draft_offer                                                      *)
LEMMA ClonesWithout ==
  ASSUME TypeOK, NEW o \in Offers
  PROVE  \A d \in Derived, p \in Offers :
           WithoutClonesOf(o)[d][p] = IF p = o THEN NoClone ELSE clone[d][p]
BY DEF WithoutClonesOf, TypeOK

LEMMA DeleteClonesStep ==
  ASSUME TypeOK, PublicationInv, NEW o \in Offers, DeleteClones(o)
  PROVE  PublicationInv'
<1> USE DEF PublicationInv
<1>1. /\ AtRest /\ request' = [Idle EXCEPT !.step = "delete", !.edited = {o}]
      /\ UNCHANGED <<source, target, offer, derived, jobs, swept, torn>>
      /\ clone' = clone \/ clone' = WithoutClonesOf(o)
  BY DEF DeleteClones, others, calendar
<1>2. /\ RequestFits' /\ SentAreMasters'
      /\ request'.step = "delete" /\ request'.edited = {o} /\ request.step = "idle"
      /\ request.edited = {}
  BY <1>1, FreshRequest, RestingRequest
<1>3. Public' = Public /\ Masters' = Masters
  BY <1>1 DEF Public, Masters
<1>4. ClonesAreConfirmed' /\ OneFlyerPerMarket'
  BY <1>1, <1>3, ClonesWithout DEF ClonesAreConfirmed, OneFlyerPerMarket
<1>5. TargetsCovered' /\ NoneBeside' /\ Announced'
  BY <1>1, <1>2, <1>3, QuietStep DEF Publishing, Withdrawing, Replacing
<1>6. DatesFollow'
  BY <1>1, <1>2, <1>3 DEF DatesFollow, Dated, Publishing, Withdrawing, Replacing, Dating
<1>7. ClonesMirror'
  <2>1. "copies" \notin torn => \A p \in Masters \ {o} : Shown(p)'
    <3>1. SUFFICES ASSUME "copies" \notin torn, NEW p \in Masters \ {o} PROVE Shown(p)'
      OBVIOUS
    <3>2. Shown(p)
      BY <1>1, <1>2, <3>1 DEF ClonesMirror, Publishing, Withdrawing, Replacing, Cloning, Dating
    <3>3. \A d \in Derived : clone'[d][p] = clone[d][p]
      BY <1>1, <3>1, ClonesWithout DEF Masters
    <3>4. QED
      BY <1>1, <1>3, <3>2, <3>3 DEF Shown, Copy, Public
  <2>2. QED
    BY <1>1, <1>2, <1>3, <2>1 DEF ClonesMirror, Publishing, Withdrawing, Replacing, Cloning, Dating
<1>8. QED
  BY <1>2, <1>4, <1>5, <1>6, <1>7

LEMMA DeleteOfferStep ==
  ASSUME TypeOK, PublicationInv, NEW o \in Offers, DeleteOffer(o)
  PROVE  PublicationInv'
<1> USE DEF PublicationInv
<1>1. /\ request.step = "delete" /\ request.edited = {o} /\ Finish
      /\ UNCHANGED <<source, target, derived, jobs, swept, torn>>
      /\ clone' = WithoutClonesOf(o) /\ offer' = [offer EXCEPT ![o] = NoOffer]
  BY DEF DeleteOffer, others, calendar, RequestFits
<1>2. RequestFits' /\ SentAreMasters' /\ request'.step = "idle" /\ request'.edited = {}
  BY <1>1, FinishedRequest
<1>3. /\ Public' = Public /\ Masters' = Masters \ {o}
      /\ \A p \in Offers \ {o} : offer'[p] = offer[p]
  BY <1>1 DEF Public, Masters, TypeOK, NoOffer
<1>4. ClonesAreConfirmed' /\ OneFlyerPerMarket'
  BY <1>1, <1>3, ClonesWithout DEF ClonesAreConfirmed, OneFlyerPerMarket
<1>5. TargetsCovered' /\ NoneBeside' /\ Announced'
  BY <1>1, <1>2, <1>3, QuietStep DEF Publishing, Withdrawing, Replacing
<1>6. DatesFollow'
  BY <1>1, <1>2, <1>3 DEF DatesFollow, Dated, Publishing, Withdrawing, Replacing, Dating
<1>7. ClonesMirror'
  <2>1. "copies" \notin torn => \A p \in Masters \ {o} : Shown(p)'
    <3>1. SUFFICES ASSUME "copies" \notin torn, NEW p \in Masters \ {o} PROVE Shown(p)'
      OBVIOUS
    <3>2. Shown(p) /\ offer'[p] = offer[p]
      BY <1>1, <1>3, <3>1 DEF ClonesMirror, Publishing, Withdrawing, Replacing, Cloning, Dating, Masters
    <3>3. \A d \in Derived : clone'[d][p] = clone[d][p]
      BY <1>1, <3>1, ClonesWithout DEF Masters
    <3>4. QED
      BY <1>1, <1>3, <3>2, <3>3 DEF Shown, Copy, Public
  <2>2. QED
    BY <1>1, <1>2, <1>3, <2>1 DEF ClonesMirror, Publishing, Withdrawing, Replacing, Cloning, Dating
<1>8. QED
  BY <1>2, <1>4, <1>5, <1>6, <1>7

(* confirm_offers                                                          *)
LEMMA ConfirmOffersStep ==
  ASSUME TypeOK, PublicationInv, ConfirmOffers
  PROVE  PublicationInv'
<1> USE DEF PublicationInv
<1>1. /\ AtRest /\ UNCHANGED <<source, target, offer, derived, clone, jobs, swept, torn>>
      /\ \E n \in BOOLEAN : request' = [Idle EXCEPT !.step = "confirm", !.notify = n]
  BY DEF ConfirmOffers, rows, others, calendar
<1>2. /\ request'.step = "confirm" /\ Sent' = {}
      /\ request'.todo = {} /\ request'.flyers = {} /\ request'.current = {}
      /\ request'.edited = {} /\ request'.missing = {}
      /\ request.step = "idle" /\ request.edited = {}
  BY <1>1, RestingRequest, NoOfferTyped DEF Idle, Sent
<1>3. Public' = Public /\ Masters' = Masters
  BY <1>1 DEF Public, Masters
<1>4. RequestFits' /\ SentAreMasters'
  BY <1>2 DEF RequestFits, SentAreMasters, Publishing, Withdrawing, Replacing, Cloning, Dating
<1>5. ClonesAreConfirmed' /\ OneFlyerPerMarket'
  BY <1>1, <1>3 DEF ClonesAreConfirmed, OneFlyerPerMarket
<1>6. TargetsCovered' /\ NoneBeside' /\ Announced'
  BY <1>1, <1>2, <1>3, QuietStep DEF Publishing, Withdrawing, Replacing
<1>7. DatesFollow'
  BY <1>1, <1>2, <1>3 DEF DatesFollow, Dated, Publishing, Withdrawing, Replacing, Dating
<1>8. ClonesMirror'
  BY <1>1, <1>2, <1>3 DEF ClonesMirror, Shown, Copy, Publishing, Withdrawing, Replacing, Cloning, Dating
<1>9. QED
  BY <1>4, <1>5, <1>6, <1>7, <1>8

LEMMA MastersRead ==
  \A o \in Offers : ReadMasters(offer)[o] = IF o \in Masters THEN offer[o] ELSE NoOffer
BY DEF ReadMasters, Masters

LEMMA ConfirmDraftsStep ==
  ASSUME TypeOK, PublicationInv, ConfirmDrafts
  PROVE  PublicationInv'
<1> USE DEF PublicationInv
<1>1. /\ request.step = "confirm"
      /\ UNCHANGED <<source, target, derived, clone, jobs, swept, torn>>
      /\ ~request.notify => offer' = offer
  BY DEF ConfirmDrafts, others, calendar
<1>2. /\ request.todo = {} /\ request.flyers = {} /\ request.current = {}
      /\ request.edited = {} /\ request.missing = {} /\ Sent = {}
  BY <1>1 DEF RequestFits, SentAreMasters, Publishing, Withdrawing, Replacing, Cloning, Dating
<1>3. Public' = Public /\ Masters \subseteq Masters'
  BY <1>1 DEF ConfirmDrafts, Public, Masters, TypeOK
<1>4. ClonesAreConfirmed' /\ OneFlyerPerMarket'
  BY <1>1, <1>3 DEF ClonesAreConfirmed, OneFlyerPerMarket, Masters
<1>5. NoneBeside' /\ Announced'
  BY <1>1, <1>3 DEF NoneBeside, Announced, Publishing, Withdrawing, Replacing
<1>6. \A o \in Offers :
        ReadMasters(offer)'[o] = IF o \in Masters' THEN offer'[o] ELSE NoOffer
  BY MastersRead DEF ReadMasters, Masters
<1>7. CASE ReadMasters(offer)' = NoOffers
  <2>1. Finish /\ Masters' = {}
    BY <1>6, <1>7, NoOfferTyped DEF ConfirmDrafts, Finish, ReadMasters, Masters, NoOffer
  <2>2. RequestFits' /\ SentAreMasters' /\ request'.step = "idle" /\ request'.edited = {}
    BY <2>1, FinishedRequest
  <2>3. TargetsCovered'
    BY <1>1, <1>3, <2>1, <2>2 DEF TargetsCovered, Covered, HasFlyer, Publishing, Withdrawing, Replacing
  <2>4. DatesFollow'
    BY <1>1, <1>3, <2>2 DEF DatesFollow, Dated, Publishing, Withdrawing, Replacing, Dating
  <2>5. ClonesMirror'
    BY <2>1, <2>2 DEF ClonesMirror, Cloning, Dating
  <2>6. QED
    BY <1>4, <1>5, <2>2, <2>3, <2>4, <2>5
<1>8. CASE ReadMasters(offer)' # NoOffers
  <2>1. /\ request'.step = "targets" /\ request'.notify = request.notify
        /\ request'.todo = target /\ request'.flyers = {} /\ request'.current = {}
        /\ request'.edited = {} /\ request'.missing = {}
        /\ request'.offers = ReadMasters(offer)'
    BY <1>2, <1>8 DEF ConfirmDrafts, TypeOK, Request, ReadMasters
  <2>2. Sent' = Masters' /\ \A o \in Sent' : request'.offers[o] = offer'[o]
    BY <1>6, <2>1 DEF Sent, Masters, NoOffer
  <2>3. RequestFits'
    BY <1>1, <2>1 DEF RequestFits, Publishing, Withdrawing, Replacing, Cloning, Dating
  <2>4. SentAreMasters'
    BY <2>1, <2>2 DEF SentAreMasters, Publishing, Withdrawing, Cloning, Masters
  <2>5. TargetsCovered'
    <3>1. CASE request.notify
      BY <1>1, <2>1, <3>1 DEF TargetsCovered, Publishing
    <3>2. CASE ~request.notify
      <4>1. Masters' # {} /\ Masters' = Masters
        BY <1>1, <1>6, <1>8, <3>2, NoOfferTyped DEF Masters, ReadMasters, NoOffers
      <4>2. "job" \notin torn => Covered
        BY <1>1, <4>1 DEF TargetsCovered, Publishing, Withdrawing, Replacing
      <4>3. QED
        BY <1>1, <1>3, <2>1, <4>2 DEF TargetsCovered, Covered, HasFlyer, Publishing
    <3>3. QED
      BY <3>1, <3>2
  <2>6. DatesFollow'
    BY <1>1, <2>1 DEF DatesFollow, Publishing, Dating
  <2>7. ClonesMirror'
    BY <2>1 DEF ClonesMirror, Publishing, Cloning, Dating
  <2>8. QED
    BY <1>4, <1>5, <2>3, <2>4, <2>5, <2>6, <2>7
<1>9. QED
  BY <1>7, <1>8

(* One target, of a request that publishes.                                *)
LEMMA PublishingRequest ==
  ASSUME RequestFits, Publishing
  PROVE  /\ request.todo \subseteq target /\ request.flyers = {}
         /\ request.edited = {} /\ request.missing = {}
         /\ ~Replacing /\ ~Cloning /\ ~Dating
BY DEF RequestFits, Publishing, Withdrawing, Replacing, Cloning, Dating

LEMMA UpdateTargetFlyerStep ==
  ASSUME TypeOK, PublicationInv, NEW m \in Markets, UpdateTargetFlyer(m)
  PROVE  PublicationInv'
<1> USE DEF PublicationInv
<1>1. /\ request.step = "targets" /\ m \in request.todo
      /\ UNCHANGED <<source, target, offer, clone, jobs, swept, torn>>
      /\ request' = [request EXCEPT !.todo = @ \ {m}]
  BY DEF UpdateTargetFlyer, others, calendar
<1>2. PICK d \in PublicIn(m) : derived' = [derived EXCEPT ![d].to = source.to]
  BY DEF UpdateTargetFlyer
<1>3. /\ request'.step = "targets" /\ request'.todo = request.todo \ {m}
      /\ request'.notify = request.notify /\ request'.flyers = request.flyers
      /\ request'.current = request.current /\ request'.edited = request.edited
      /\ request'.missing = request.missing /\ request'.offers = request.offers
  BY <1>1 DEF TypeOK, Request
<1>4. d \in Public /\ d[1] = m /\ d \in Derived
  BY DEF PublicIn, Public
<1>5. \A e \in Derived : /\ derived'[e].state = derived[e].state
                         /\ derived'[e].to = IF e = d THEN source.to ELSE derived[e].to
  BY <1>2, <1>4 DEF TypeOK
<1>6. Public' = Public /\ Masters' = Masters /\ Sent' = Sent
  BY <1>1, <1>3, <1>5 DEF Public, Masters, Sent
<1>7. RequestFits'
  BY <1>1, <1>3, <1>6, PublishingRequest DEF RequestFits, Publishing, Withdrawing, Replacing, Cloning, Dating
<1>8. SentAreMasters'
  BY <1>1, <1>3, <1>6 DEF SentAreMasters, Publishing, Withdrawing, Cloning
<1>9. ClonesAreConfirmed' /\ OneFlyerPerMarket'
  BY <1>1, <1>6 DEF ClonesAreConfirmed, OneFlyerPerMarket
<1>10. TargetsCovered'
  BY <1>1, <1>3, <1>4, <1>6 DEF TargetsCovered, Covered, HasFlyer, Publishing
<1>11. NoneBeside' /\ Announced'
  BY <1>1, <1>3, <1>6 DEF NoneBeside, Announced, Publishing, Withdrawing, Replacing
<1>12. DatesFollow'
  <2>1. \A e \in Public : e[1] \in target \ request'.todo => Dated(e)'
    BY <1>1, <1>3, <1>4, <1>5 DEF DatesFollow, Dated, Publishing, OneFlyerPerMarket, Public
  <2>2. QED
    BY <1>1, <1>3, <1>6, <2>1 DEF DatesFollow, Publishing, Dating
<1>13. ClonesMirror'
  BY <1>3 DEF ClonesMirror, Publishing, Cloning, Dating
<1>14. QED
  BY <1>7, <1>8, <1>9, <1>10, <1>11, <1>12, <1>13

LEMMA InsertTargetFlyerStep ==
  ASSUME TypeOK, PublicationInv, NEW m \in Markets, InsertTargetFlyer(m)
  PROVE  PublicationInv'
<1> USE DEF PublicationInv
<1>1. /\ request.step = "targets" /\ m \in request.todo /\ PublicIn(m) = {}
      /\ UNCHANGED <<source, target, offer, clone, jobs, swept, torn>>
  BY DEF InsertTargetFlyer, others, calendar
<1>2. PICK d \in Derived :
        /\ d[1] = m /\ derived[d].state = "none"
        /\ derived' = [derived EXCEPT ![d] = [state |-> "public", to |-> source.to]]
        /\ request' = [request EXCEPT !.todo = @ \ {m},
                         !.step = IF request.notify THEN "enqueue" ELSE "targets",
                         !.current = {d}]
  BY DEF InsertTargetFlyer
<1>3. /\ request'.step = (IF request.notify THEN "enqueue" ELSE "targets")
      /\ request'.todo = request.todo \ {m}
      /\ request'.notify = request.notify /\ request'.flyers = request.flyers
      /\ request'.current = {d} /\ request'.edited = request.edited
      /\ request'.missing = request.missing /\ request'.offers = request.offers
  BY <1>2 DEF TypeOK, Request
<1>4. /\ \A e \in Derived \ {d} : derived'[e] = derived[e]
      /\ derived'[d].state = "public" /\ derived'[d].to = source.to
  BY <1>2 DEF TypeOK
<1>5. Public' = Public \cup {d} /\ Masters' = Masters /\ Sent' = Sent
  BY <1>1, <1>3, <1>4 DEF Public, Masters, Sent
<1>6. \A e \in Public : e[1] # m /\ e # d
  BY <1>1, <1>2 DEF PublicIn, Public
<1>7. RequestFits'
  BY <1>1, <1>3, <1>5, PublishingRequest DEF RequestFits, Publishing, Withdrawing, Replacing, Cloning, Dating
<1>8. SentAreMasters'
  BY <1>1, <1>3, <1>5 DEF SentAreMasters, Publishing, Withdrawing, Cloning
<1>9. ClonesAreConfirmed' /\ OneFlyerPerMarket'
  BY <1>1, <1>2, <1>5, <1>6 DEF ClonesAreConfirmed, OneFlyerPerMarket
<1>10. TargetsCovered'
  BY <1>1, <1>2, <1>3, <1>5 DEF TargetsCovered, Covered, HasFlyer, Publishing
<1>11. NoneBeside'
  BY <1>1, <1>2, <1>3, <1>5, PublishingRequest DEF NoneBeside, Publishing, Withdrawing, Replacing
<1>12. Announced'
  <2>1. CASE request.notify
    BY <1>1, <1>3, <1>5, <2>1 DEF Announced
  <2>2. CASE ~request.notify
    <3>1. "job" \notin torn => HasFlyer(m)
      BY <1>1, <2>2, PublishingRequest DEF TargetsCovered, Covered, Publishing
    <3>2. "job" \in torn'
      BY <1>1, <1>6, <3>1 DEF HasFlyer
    <3>3. QED
      BY <3>2 DEF Announced
  <2>3. QED
    BY <2>1, <2>2
<1>13. DatesFollow'
  <2>1. \A e \in Public' : e[1] \in target \ request'.todo => Dated(e)'
    BY <1>1, <1>3, <1>4, <1>5, <1>6 DEF DatesFollow, Dated, Publishing, Public
  <2>2. QED
    BY <1>1, <1>3, <2>1 DEF DatesFollow, Publishing, Dating
<1>14. ClonesMirror'
  BY <1>3 DEF ClonesMirror, Publishing, Cloning, Dating
<1>15. QED
  BY <1>7, <1>8, <1>9, <1>10, <1>11, <1>12, <1>13, <1>14

LEMMA EnqueueFlyerPublishedStep ==
  ASSUME TypeOK, PublicationInv, EnqueueFlyerPublished
  PROVE  PublicationInv'
<1> USE DEF PublicationInv
<1>1. /\ request.step = "enqueue" /\ jobs' = jobs \cup request.current
      /\ UNCHANGED <<source, target, offer, derived, clone, swept, torn>>
      /\ request' = [request EXCEPT !.step = "targets", !.current = {}]
  BY DEF EnqueueFlyerPublished, rows, others, calendar
<1>2. /\ request'.step = "targets" /\ request'.todo = request.todo
      /\ request'.notify = request.notify /\ request'.flyers = request.flyers
      /\ request'.current = {} /\ request'.edited = request.edited
      /\ request'.missing = request.missing /\ request'.offers = request.offers
  BY <1>1 DEF TypeOK, Request
<1>3. Public' = Public /\ Masters' = Masters /\ Sent' = Sent
  BY <1>1, <1>2 DEF Public, Masters, Sent
<1>4. RequestFits'
  BY <1>1, <1>2, <1>3, PublishingRequest DEF RequestFits, Publishing, Withdrawing, Replacing, Cloning, Dating
<1>5. SentAreMasters'
  BY <1>1, <1>2, <1>3 DEF SentAreMasters, Publishing, Withdrawing, Cloning
<1>6. ClonesAreConfirmed' /\ OneFlyerPerMarket'
  BY <1>1, <1>3 DEF ClonesAreConfirmed, OneFlyerPerMarket
<1>7. TargetsCovered'
  BY <1>1, <1>2, <1>3 DEF TargetsCovered, Covered, HasFlyer, Publishing
<1>8. NoneBeside' /\ Announced'
  BY <1>1, <1>2, <1>3 DEF NoneBeside, Announced, Publishing, Withdrawing, Replacing
<1>9. DatesFollow' /\ ClonesMirror'
  BY <1>1, <1>2, <1>3 DEF DatesFollow, ClonesMirror, Dated, Publishing, Cloning, Dating
<1>10. QED
  BY <1>4, <1>5, <1>6, <1>7, <1>8, <1>9

LEMMA TargetsPublishedStep ==
  ASSUME TypeOK, PublicationInv, TargetsPublished
  PROVE  PublicationInv'
<1> USE DEF PublicationInv
<1>1. /\ request.step = "targets" /\ request.todo = {} /\ torn' = torn \ {"copies"}
      /\ UNCHANGED <<source, target, offer, derived, clone, jobs, swept>>
      /\ request' = [request EXCEPT !.step = "clones", !.flyers = Public]
  BY DEF TargetsPublished, rows, calendar
<1>2. /\ request'.step = "clones" /\ request'.todo = {}
      /\ request'.notify = request.notify /\ request'.flyers = Public
      /\ request'.current = request.current /\ request'.edited = request.edited
      /\ request'.missing = request.missing /\ request'.offers = request.offers
  BY <1>1 DEF TypeOK, Request
<1>3. Public' = Public /\ Masters' = Masters /\ Sent' = Sent
  BY <1>1, <1>2 DEF Public, Masters, Sent
<1>4. RequestFits'
  BY <1>1, <1>2, <1>3, PublishingRequest DEF RequestFits, Publishing, Withdrawing, Replacing, Cloning, Dating
<1>5. SentAreMasters' /\ Masters \subseteq Sent
  BY <1>1, <1>2, <1>3 DEF SentAreMasters, Publishing, Withdrawing, Cloning
<1>6. ClonesAreConfirmed' /\ OneFlyerPerMarket'
  BY <1>1, <1>3 DEF ClonesAreConfirmed, OneFlyerPerMarket
<1>7. TargetsCovered'
  BY <1>1, <1>2, <1>3 DEF TargetsCovered, Covered, HasFlyer, Publishing, Withdrawing, Replacing
<1>8. NoneBeside' /\ Announced'
  BY <1>1, <1>2, <1>3 DEF NoneBeside, Announced, Publishing, Withdrawing, Replacing
<1>9. DatesFollow' /\ ClonesMirror'
  BY <1>1, <1>2, <1>3, <1>5 DEF DatesFollow, ClonesMirror, Dated, Publishing, Withdrawing, Replacing,
     Cloning, Dating
<1>10. QED
  BY <1>4, <1>5, <1>6, <1>7, <1>8, <1>9

(* The existing clones.                                                    *)
LEMMA UpsertClonesStep ==
  ASSUME TypeOK, PublicationInv, UpsertClones
  PROVE  PublicationInv'
<1> USE DEF PublicationInv
<1>1. UNCHANGED <<source, target, offer, derived, jobs, swept, torn>> /\ request.step = "clones"
  BY DEF UpsertClones, others, calendar
<1>2. /\ request'.step = "missing" /\ request'.offers = request.offers
      /\ request'.notify = request.notify /\ request'.todo = request.todo
      /\ request'.flyers = request.flyers /\ request'.current = request.current
      /\ request'.edited = request.edited
      /\ request'.missing = {x \in request.flyers \X Sent : clone[x[1]][x[2]] = NoClone}
  BY DEF UpsertClones, TypeOK, Request
<1>3. Masters' = Masters /\ Public' = Public /\ Sent' = Sent /\ request.flyers = Public
  BY <1>1, <1>2 DEF Masters, Public, Sent, RequestFits, Cloning
<1>4. \A d \in Derived, o \in Offers :
        clone'[d][o] = IF d \in Public /\ o \in Sent /\ clone[d][o] # NoClone
                       THEN CloneOf(o) ELSE clone[d][o]
  BY <1>3 DEF UpsertClones
<1>5. \A o \in Sent : CloneOf(o) = Copy(o) /\ Copy(o)' = Copy(o) /\ o \in Masters
  <2>1. \A o \in Sent : offer[o] = request.offers[o]
    BY NoOfferTyped DEF UpsertClones, SentAreMasters, Sent
  <2>2. QED
    BY <1>1, <2>1 DEF SentAreMasters, CloneOf, Copy, Sent, Masters
<1>6. RequestFits'
  BY <1>1, <1>2, <1>3 DEF RequestFits, Publishing, Withdrawing, Replacing, Cloning, Dating
<1>7. SentAreMasters'
  BY <1>1, <1>2, <1>3 DEF SentAreMasters, Publishing, Withdrawing, Cloning
<1>8. ClonesAreConfirmed' /\ OneFlyerPerMarket'
  BY <1>1, <1>3, <1>4 DEF ClonesAreConfirmed, OneFlyerPerMarket
<1>9. TargetsCovered' /\ NoneBeside' /\ Announced' /\ DatesFollow'
  BY <1>1, <1>2, <1>3 DEF TargetsCovered, NoneBeside, Announced, DatesFollow, Covered, HasFlyer, Dated,
     Publishing, Withdrawing, Replacing, Dating
<1>10. ClonesMirror'
  <2>1. "copies" \notin torn => \A o \in Masters \ Sent : Shown(o)'
    <3>1. SUFFICES ASSUME "copies" \notin torn, NEW o \in Masters \ Sent, NEW d \in Public \ swept
                   PROVE  clone'[d][o] = Copy(o)'
      BY <1>1, <1>3 DEF Shown
    <3>2. clone[d][o] = Copy(o)
      BY <1>1, <3>1 DEF ClonesMirror, Shown, Cloning
    <3>3. QED
      BY <1>1, <1>4, <3>2 DEF Copy, Masters, Public
  <2>2. \A o \in Masters \cap Sent, d \in Public \ swept :
          <<d, o>> \in request'.missing \/ clone'[d][o] = Copy(o)'
    BY <1>1, <1>2, <1>3, <1>4, <1>5 DEF Masters, Public
  <2>3. QED
    BY <1>1, <1>2, <1>3, <2>1, <2>2 DEF ClonesMirror, Publishing, Withdrawing, Replacing, Cloning, Dating
<1>11. QED
  BY <1>6, <1>7, <1>8, <1>9, <1>10

(* A step that ends a request and may change its clones.                   *)
LEMMA CloningRequest ==
  ASSUME RequestFits, Cloning
  PROVE  /\ request.flyers = Public /\ request.edited = {}
         /\ ~Replacing /\ ~Publishing /\ ~Dating
BY DEF RequestFits, Publishing, Withdrawing, Replacing, Cloning, Dating

LEMMA EndedCloning ==
  ASSUME TypeOK, PublicationInv, Cloning, Finish,
         UNCHANGED <<source, target, offer, derived, jobs, swept, torn>>
  PROVE  /\ RequestFits' /\ SentAreMasters' /\ OneFlyerPerMarket'
         /\ TargetsCovered' /\ NoneBeside' /\ Announced' /\ DatesFollow'
         /\ request'.step = "idle" /\ request'.edited = {}
         /\ Public' = Public /\ Masters' = Masters
<1> USE DEF PublicationInv
<1>1. RequestFits' /\ SentAreMasters' /\ request'.step = "idle" /\ request'.edited = {}
  BY FinishedRequest
<1>2. Public' = Public /\ Masters' = Masters
  BY DEF Public, Masters
<1>3. ~Replacing /\ ~Publishing /\ ~Dating /\ request.step # "dates"
  BY CloningRequest DEF Cloning
<1>4. TargetsCovered' /\ NoneBeside' /\ Announced'
  BY <1>1, <1>2, <1>3, QuietStep DEF Publishing, Withdrawing, Replacing
<1>5. DatesFollow'
  BY <1>1, <1>2, <1>3 DEF DatesFollow, Dated, Publishing, Withdrawing, Replacing, Dating
<1>6. QED
  BY <1>1, <1>2, <1>4, <1>5 DEF OneFlyerPerMarket

LEMMA InsertMissingStep ==
  ASSUME TypeOK, PublicationInv, InsertMissing
  PROVE  PublicationInv'
<1> USE DEF PublicationInv
<1>1. /\ request.step = "missing" /\ Finish
      /\ UNCHANGED <<source, target, offer, derived, jobs, swept, torn>>
      /\ \A d \in Derived, o \in Offers :
           clone'[d][o] = IF <<d, o>> \in request.missing THEN CloneOf(o) ELSE clone[d][o]
  BY DEF InsertMissing, others, calendar
<1>2. /\ RequestFits' /\ SentAreMasters' /\ OneFlyerPerMarket'
      /\ TargetsCovered' /\ NoneBeside' /\ Announced' /\ DatesFollow'
      /\ request'.step = "idle" /\ request'.edited = {}
      /\ Public' = Public /\ Masters' = Masters
  BY <1>1, EndedCloning DEF Cloning
<1>3. request.missing \subseteq Public \X Sent
  BY <1>1 DEF RequestFits, Cloning
<1>4. ASSUME NEW o \in Sent, offer[o] # NoOffer
      PROVE  o \in Masters /\ CloneOf(o) = Copy(o)
  <2>1. offer[o] = request.offers[o]
    BY <1>4, NoOfferTyped DEF SentAreMasters, Sent
  <2>2. QED
    BY <2>1 DEF SentAreMasters, CloneOf, Copy, Sent, Masters
<1>5. ClonesAreConfirmed'
  <2>1. SUFFICES ASSUME NEW d \in Derived, NEW o \in Offers, clone'[d][o] # NoClone
                 PROVE  offer[o].kind = "master" /\ d \in Public
    BY <1>1, <1>2 DEF ClonesAreConfirmed
  <2>2. CASE <<d, o>> \in request.missing
    <3>1. d \in Public /\ o \in Sent
      BY <1>3, <2>2
    <3>2. offer[o] # NoOffer
      BY <2>2, <3>1 DEF InsertMissing
    <3>3. QED
      BY <1>4, <3>1, <3>2 DEF Masters
  <2>3. CASE <<d, o>> \notin request.missing
    BY <1>1, <2>1, <2>3 DEF ClonesAreConfirmed
  <2>4. QED
    BY <2>2, <2>3
<1>6. ClonesMirror'
  <2>1. SUFFICES ASSUME "copies" \notin torn, NEW o \in Masters, NEW d \in Public \ swept
                 PROVE  clone'[d][o] = Copy(o)
    BY <1>1, <1>2 DEF ClonesMirror, Shown, Copy, Cloning, Dating
  <2>2. d \in Derived /\ o \in Offers /\ offer[o] # NoOffer
    BY DEF Public, Masters, NoOffer
  <2>3. CASE <<d, o>> \in request.missing
    <3>1. o \in Sent
      BY <1>3, <2>3
    <3>2. QED
      BY <1>1, <1>4, <2>2, <2>3, <3>1
  <2>4. CASE <<d, o>> \notin request.missing
    <3>1. clone[d][o] = Copy(o)
      BY <1>1, <2>1, <2>4 DEF ClonesMirror, Shown, Cloning
    <3>2. QED
      BY <1>1, <2>2, <2>4, <3>1
  <2>5. QED
    BY <2>3, <2>4
<1>7. QED
  BY <1>2, <1>5, <1>6

LEMMA ForeignKeyRaisesStep ==
  ASSUME TypeOK, PublicationInv, ForeignKeyRaises
  PROVE  PublicationInv'
<1> USE DEF PublicationInv
<1>1. /\ Cloning /\ Finish
      /\ UNCHANGED <<source, target, offer, derived, clone, jobs, swept, torn>>
  BY DEF ForeignKeyRaises, rows, others, calendar, Cloning
<1>2. /\ RequestFits' /\ SentAreMasters' /\ OneFlyerPerMarket'
      /\ TargetsCovered' /\ NoneBeside' /\ Announced' /\ DatesFollow'
      /\ request'.step = "idle" /\ request'.edited = {}
      /\ Public' = Public /\ Masters' = Masters
  BY <1>1, EndedCloning
<1>3. Masters = {}
  <2>1. offer = NoOffers
    BY DEF ForeignKeyRaises, SentAreMasters, Sent
  <2>2. QED
    BY <2>1, NoOfferTyped DEF Masters, NoOffer
<1>4. ClonesAreConfirmed'
  BY <1>1, <1>2 DEF ClonesAreConfirmed
<1>5. ClonesMirror'
  BY <1>2, <1>3 DEF ClonesMirror, Dating, Cloning
<1>6. QED
  BY <1>2, <1>4, <1>5

LEMMA DeleteStaleClonesStep ==
  ASSUME TypeOK, PublicationInv, DeleteStaleClones
  PROVE  PublicationInv'
<1> USE DEF PublicationInv
<1>1. /\ request.step = "clones" /\ Finish /\ Sent = {}
      /\ UNCHANGED <<source, target, offer, derived, jobs, swept, torn>>
      /\ \A d \in Derived : clone'[d] = NoClones \/ clone'[d] = clone[d]
  BY DEF DeleteStaleClones, others, calendar
<1>2. /\ RequestFits' /\ SentAreMasters' /\ OneFlyerPerMarket'
      /\ TargetsCovered' /\ NoneBeside' /\ Announced' /\ DatesFollow'
      /\ request'.step = "idle" /\ request'.edited = {}
      /\ Public' = Public /\ Masters' = Masters
  BY <1>1, EndedCloning DEF Cloning
<1>3. Masters = {}
  BY <1>1 DEF SentAreMasters
<1>4. ClonesAreConfirmed'
  BY <1>1, <1>2, NoCloneTyped DEF ClonesAreConfirmed
<1>5. ClonesMirror'
  BY <1>2, <1>3 DEF ClonesMirror, Dating, Cloning
<1>6. QED
  BY <1>2, <1>4, <1>5

(* update_flyer_targets                                                    *)
LEMMA DeleteTargetsStep ==
  ASSUME TypeOK, PublicationInv, NEW accepted \in SUBSET Markets, DeleteTargets(accepted)
  PROVE  PublicationInv'
<1> USE DEF PublicationInv
<1>1. /\ AtRest /\ target' = {}
      /\ UNCHANGED <<source, offer, derived, clone, jobs, swept, torn>>
      /\ request' = [Idle EXCEPT !.step = "replace", !.todo = accepted]
  BY DEF DeleteTargets, others, calendar
<1>2. /\ request'.step = "replace" /\ Sent' = {} /\ ~request'.notify
      /\ request'.flyers = {} /\ request'.current = {}
      /\ request'.edited = {} /\ request'.missing = {} /\ request.step = "idle"
  BY <1>1, RestingRequest, NoOfferTyped DEF Idle, Sent
<1>3. Public' = Public /\ Masters' = Masters
  BY <1>1 DEF Public, Masters
<1>4. RequestFits' /\ SentAreMasters'
  BY <1>1, <1>2 DEF RequestFits, SentAreMasters, Publishing, Withdrawing, Replacing, Cloning, Dating
<1>5. ClonesAreConfirmed' /\ OneFlyerPerMarket'
  BY <1>1, <1>3 DEF ClonesAreConfirmed, OneFlyerPerMarket
<1>6. TargetsCovered' /\ NoneBeside' /\ Announced'
  BY <1>1, <1>2, <1>3 DEF TargetsCovered, NoneBeside, Announced, Publishing, Replacing
<1>7. DatesFollow' /\ ClonesMirror'
  BY <1>1, <1>2 DEF DatesFollow, ClonesMirror, Publishing, Replacing, Cloning, Dating
<1>8. QED
  BY <1>4, <1>5, <1>6, <1>7

LEMMA InsertTargetsStep ==
  ASSUME TypeOK, PublicationInv, InsertTargets
  PROVE  PublicationInv'
<1> USE DEF PublicationInv
<1>1. /\ request.step = "replace" /\ target' = request.todo
      /\ UNCHANGED <<source, offer, derived, clone, jobs, swept, torn>>
  BY DEF InsertTargets, others, calendar
<1>2. /\ request.flyers = {} /\ request.current = {} /\ request.edited = {} /\ request.missing = {}
  BY <1>1 DEF RequestFits, Publishing, Cloning, Dating
<1>3. Public' = Public /\ Masters' = Masters
  BY <1>1 DEF Public, Masters
<1>4. ClonesAreConfirmed' /\ OneFlyerPerMarket'
  BY <1>1, <1>3 DEF ClonesAreConfirmed, OneFlyerPerMarket
<1>5. CASE Masters = {} /\ Public = {}
  <2>1. /\ RequestFits' /\ SentAreMasters' /\ request'.step = "idle"
    BY <1>5, FinishedRequest DEF InsertTargets, Finish
  <2>2. TargetsCovered' /\ NoneBeside' /\ Announced' /\ DatesFollow' /\ ClonesMirror'
    BY <1>3, <1>5, <2>1 DEF TargetsCovered, NoneBeside, Announced, DatesFollow, ClonesMirror,
       Publishing, Withdrawing, Replacing, Cloning, Dating
  <2>3. QED
    BY <1>4, <2>1, <2>2
<1>6. CASE Masters # {} \/ Public # {}
  <2>1. /\ request'.step = "unpublish" /\ request'.todo = request.todo /\ request'.notify
        /\ request'.flyers = {} /\ request'.current = {}
        /\ request'.edited = {} /\ request'.missing = {}
        /\ request'.offers = ReadMasters(offer)
    BY <1>2, <1>6 DEF InsertTargets, TypeOK, Request
  <2>2. Sent' = Masters /\ \A o \in Sent' : request'.offers[o] = offer[o]
    BY <2>1, MastersRead DEF Sent, Masters, NoOffer
  <2>3. RequestFits'
    BY <1>1, <2>1 DEF RequestFits, Publishing, Withdrawing, Replacing, Cloning, Dating
  <2>4. SentAreMasters'
    BY <1>1, <1>3, <2>1, <2>2 DEF SentAreMasters, Publishing, Withdrawing, Cloning, Masters
  <2>5. TargetsCovered' /\ NoneBeside' /\ Announced'
    BY <1>1, <1>3, <2>1 DEF TargetsCovered, NoneBeside, Announced, Publishing, Withdrawing, Replacing
  <2>6. DatesFollow' /\ ClonesMirror'
    BY <2>1 DEF DatesFollow, ClonesMirror, Publishing, Withdrawing, Replacing, Cloning, Dating
  <2>7. QED
    BY <1>4, <2>3, <2>4, <2>5, <2>6
<1>7. QED
  BY <1>5, <1>6

LEMMA WithdrawingRequest ==
  ASSUME RequestFits, Withdrawing
  PROVE  /\ request.flyers = {} /\ request.current = {} /\ request.edited = {}
         /\ request.missing = {} /\ request.todo = target /\ request.notify
BY DEF RequestFits, Publishing, Withdrawing, Cloning, Dating

LEMMA DeleteRemovedClonesStep ==
  ASSUME TypeOK, PublicationInv, DeleteRemovedClones
  PROVE  PublicationInv'
<1> USE DEF PublicationInv
<1>1. /\ request.step = "unpublish"
      /\ \A d \in Derived : clone'[d] = NoClones \/ clone'[d] = clone[d]
      /\ request' = [request EXCEPT !.step = "remove"]
      /\ UNCHANGED <<source, target, offer, derived, jobs, swept, torn>>
  BY DEF DeleteRemovedClones, Ask, others, calendar
<1>2. /\ request'.step = "remove" /\ request'.todo = request.todo
      /\ request'.notify = request.notify /\ request'.flyers = request.flyers
      /\ request'.current = request.current /\ request'.edited = request.edited
      /\ request'.missing = request.missing /\ request'.offers = request.offers
  BY <1>1 DEF TypeOK, Request
<1>3. Public' = Public /\ Masters' = Masters /\ Sent' = Sent
  BY <1>1, <1>2 DEF Public, Masters, Sent
<1>4. RequestFits'
  BY <1>1, <1>2, WithdrawingRequest DEF RequestFits, Publishing, Withdrawing, Replacing, Cloning, Dating
<1>5. SentAreMasters'
  BY <1>1, <1>2, <1>3 DEF SentAreMasters, Publishing, Withdrawing, Cloning
<1>6. ClonesAreConfirmed' /\ OneFlyerPerMarket'
  BY <1>1, <1>3, NoCloneTyped DEF ClonesAreConfirmed, OneFlyerPerMarket
<1>7. TargetsCovered' /\ NoneBeside' /\ Announced'
  BY <1>1, <1>2, <1>3 DEF TargetsCovered, NoneBeside, Announced, Publishing, Withdrawing, Replacing
<1>8. DatesFollow' /\ ClonesMirror'
  BY <1>2 DEF DatesFollow, ClonesMirror, Publishing, Withdrawing, Replacing, Cloning, Dating
<1>9. QED
  BY <1>4, <1>5, <1>6, <1>7, <1>8

LEMMA DeleteRemovedFlyersStep ==
  ASSUME TypeOK, PublicationInv, DeleteRemovedFlyers
  PROVE  PublicationInv'
<1> USE DEF PublicationInv
<1>1. /\ request.step = "remove" /\ torn' = torn \ {"extra"}
      /\ request' = [request EXCEPT !.step = "targets"]
      /\ UNCHANGED <<source, target, offer, jobs, swept>>
      /\ \A d \in Derived : /\ derived'[d] = IF d \in Removed THEN Gone ELSE derived[d]
                            /\ clone'[d] = IF d \in Removed THEN NoClones ELSE clone[d]
  BY DEF DeleteRemovedFlyers, Ask, calendar
<1>2. /\ request'.step = "targets" /\ request'.todo = request.todo
      /\ request'.notify = request.notify /\ request'.flyers = request.flyers
      /\ request'.current = request.current /\ request'.edited = request.edited
      /\ request'.missing = request.missing /\ request'.offers = request.offers
  BY <1>1 DEF TypeOK, Request
<1>3. Public' = Public \ Removed /\ Masters' = Masters /\ Sent' = Sent
  BY <1>1, <1>2 DEF Public, Masters, Sent, Gone
<1>4. RequestFits'
  BY <1>1, <1>2, WithdrawingRequest DEF RequestFits, Publishing, Withdrawing, Replacing, Cloning, Dating
<1>5. SentAreMasters'
  BY <1>1, <1>2, <1>3 DEF SentAreMasters, Publishing, Withdrawing, Cloning
<1>6. ClonesAreConfirmed' /\ OneFlyerPerMarket'
  BY <1>1, <1>3, NoCloneTyped DEF ClonesAreConfirmed, OneFlyerPerMarket
<1>7. TargetsCovered'
  BY <1>1, <1>2, WithdrawingRequest DEF TargetsCovered, Publishing, Withdrawing
<1>8. NoneBeside'
  BY <1>1, <1>2, <1>3, WithdrawingRequest DEF NoneBeside, Removed, Withdrawing
<1>9. Announced'
  BY <1>1, <1>2, <1>3 DEF Announced
<1>10. DatesFollow' /\ ClonesMirror'
  BY <1>1, <1>2, WithdrawingRequest DEF DatesFollow, ClonesMirror, Publishing, Withdrawing, Cloning, Dating
<1>11. QED
  BY <1>4, <1>5, <1>6, <1>7, <1>8, <1>9, <1>10

(* _sync_flyer_validity                                                    *)
LEMMA UpdateValidityStep ==
  ASSUME TypeOK, PublicationInv, NEW to \in Day, UpdateValidity(to)
  PROVE  PublicationInv'
<1> USE DEF PublicationInv
<1>1. /\ AtRest /\ request' = [request EXCEPT !.step = "dates"]
      /\ UNCHANGED <<target, offer, derived, clone, jobs, swept, torn>>
  BY DEF UpdateValidity, Ask, others, calendar
<1>2. /\ request'.step = "dates" /\ Sent' = {} /\ ~request'.notify /\ request'.todo = {}
      /\ request'.flyers = {} /\ request'.current = {}
      /\ request'.edited = {} /\ request'.missing = {}
      /\ request.step = "idle" /\ request.edited = {}
  BY <1>1, RestingRequest DEF Sent, TypeOK, Request
<1>3. Public' = Public /\ Masters' = Masters
  BY <1>1 DEF Public, Masters
<1>4. RequestFits' /\ SentAreMasters'
  BY <1>1, <1>2 DEF RequestFits, SentAreMasters, Publishing, Withdrawing, Replacing, Cloning, Dating
<1>5. ClonesAreConfirmed' /\ OneFlyerPerMarket'
  BY <1>1, <1>3 DEF ClonesAreConfirmed, OneFlyerPerMarket
<1>6. TargetsCovered' /\ NoneBeside' /\ Announced'
  BY <1>1, <1>2, <1>3, QuietStep DEF Publishing, Withdrawing, Replacing
<1>7. DatesFollow'
  BY <1>2 DEF DatesFollow, Publishing, Dating
<1>8. ClonesMirror'
  BY <1>1, <1>2, <1>3 DEF ClonesMirror, Shown, Copy, Publishing, Withdrawing, Replacing, Cloning, Dating
<1>9. QED
  BY <1>4, <1>5, <1>6, <1>7, <1>8

LEMMA UpdateOfferDatesStep ==
  ASSUME TypeOK, PublicationInv, UpdateOfferDates
  PROVE  PublicationInv'
<1> USE DEF PublicationInv
<1>1. /\ request.step = "dates"
      /\ UNCHANGED <<source, target, derived, clone, jobs, swept, torn>>
      /\ \A o \in Offers : offer'[o] = IF offer[o] = NoOffer THEN NoOffer
                                       ELSE [offer[o] EXCEPT !.to = source.to]
  BY DEF UpdateOfferDates, others, calendar
<1>2. /\ request.todo = {} /\ request.flyers = {} /\ request.current = {} /\ ~request.notify
      /\ request.edited = {} /\ request.missing = {} /\ Sent = {}
  BY <1>1 DEF RequestFits, SentAreMasters, Publishing, Withdrawing, Replacing, Cloning, Dating
<1>3. \A o \in Offers : /\ offer'[o].kind = offer[o].kind
                        /\ o \in Masters => /\ offer'[o].version = offer[o].version
                                            /\ offer'[o].to = source.to
  <2>1. TAKE o \in Offers
  <2>2. offer[o] \in OfferRow
    BY DEF TypeOK
  <2>3. CASE offer[o] = NoOffer
    <3>1. offer'[o] = offer[o]
      BY <1>1, <2>3
    <3>2. o \notin Masters
      BY <2>3 DEF Masters, NoOffer
    <3>3. QED
      BY <3>1, <3>2
  <2>4. CASE offer[o] # NoOffer
    BY <1>1, <2>2, <2>4 DEF OfferRow
  <2>5. QED
    BY <2>3, <2>4
<1>4. Public' = Public /\ Masters' = Masters
  BY <1>1, <1>3 DEF Public, Masters
<1>5. ClonesAreConfirmed' /\ OneFlyerPerMarket'
  BY <1>1, <1>3, <1>4 DEF ClonesAreConfirmed, OneFlyerPerMarket
<1>6. CASE Public = {}
  <2>1. RequestFits' /\ SentAreMasters' /\ request'.step = "idle"
    BY <1>6, FinishedRequest DEF UpdateOfferDates, Finish
  <2>2. TargetsCovered' /\ NoneBeside' /\ Announced'
    BY <1>1, <1>4, <2>1, QuietStep DEF Publishing, Withdrawing, Replacing
  <2>3. DatesFollow' /\ ClonesMirror'
    BY <1>4, <1>6, <2>1 DEF DatesFollow, ClonesMirror, Shown, Publishing, Cloning, Dating
  <2>4. QED
    BY <1>5, <2>1, <2>2, <2>3
<1>7. CASE Public # {}
  <2>1. /\ request'.step = "flyerDates" /\ request'.flyers = Public
        /\ request'.todo = {} /\ request'.current = {} /\ ~request'.notify
        /\ request'.edited = {} /\ request'.missing = {} /\ request'.offers = request.offers
    BY <1>2, <1>7 DEF UpdateOfferDates, TypeOK, Request
  <2>2. Sent' = {}
    BY <1>2, <2>1 DEF Sent
  <2>3. RequestFits' /\ SentAreMasters'
    BY <1>4, <2>1, <2>2 DEF RequestFits, SentAreMasters, Publishing, Withdrawing, Replacing, Cloning, Dating
  <2>4. TargetsCovered' /\ NoneBeside' /\ Announced'
    BY <1>1, <1>4, <2>1, QuietStep DEF Publishing, Withdrawing, Replacing
  <2>5. DatesFollow'
    BY <1>4, <2>1 DEF DatesFollow, Publishing, Dating
  <2>6. ClonesMirror'
    <3>1. "copies" \notin torn => \A o \in Masters : Shown(o)
      BY <1>1, <1>2 DEF ClonesMirror, Publishing, Withdrawing, Replacing, Cloning, Dating
    <3>2. "copies" \notin torn => \A o \in Masters, d \in Public \ swept :
            clone[d][o].version = offer'[o].version
      <4>1. SUFFICES ASSUME "copies" \notin torn, NEW o \in Masters, NEW d \in Public \ swept
                     PROVE  clone[d][o].version = offer'[o].version
        OBVIOUS
      <4>2. clone[d][o] = [version |-> offer[o].version, to |-> offer[o].to]
        BY <3>1, <4>1 DEF Shown, Copy
      <4>3. QED
        BY <1>3, <4>2 DEF Masters
    <3>3. QED
      BY <1>1, <1>3, <1>4, <2>1, <3>2 DEF ClonesMirror, Redated, Publishing, Cloning, Dating, Masters
  <2>7. QED
    BY <1>5, <2>3, <2>4, <2>5, <2>6
<1>8. QED
  BY <1>6, <1>7

LEMMA DatingRequest ==
  ASSUME RequestFits, Dating
  PROVE  /\ request.todo = {} /\ request.edited = {} /\ request.missing = {} /\ ~request.notify
         /\ request.flyers \subseteq Public
         /\ ~Replacing /\ ~Publishing /\ ~Cloning
BY DEF RequestFits, Publishing, Withdrawing, Replacing, Cloning, Dating

LEMMA UpdateDerivedDatesStep ==
  ASSUME TypeOK, PublicationInv, NEW d \in Derived, UpdateDerivedDates(d)
  PROVE  PublicationInv'
<1> USE DEF PublicationInv
<1>1. /\ request.step = "flyerDates" /\ d \in request.flyers
      /\ derived' = [derived EXCEPT ![d].to = source.to]
      /\ UNCHANGED <<source, target, offer, clone, jobs, swept, torn>>
      /\ request' = [request EXCEPT !.step = "cloneDates", !.flyers = @ \ {d}, !.current = {d}]
  BY DEF UpdateDerivedDates, others, calendar
<1>2. /\ request'.step = "cloneDates" /\ request'.flyers = request.flyers \ {d}
      /\ request'.current = {d} /\ request'.todo = request.todo
      /\ request'.notify = request.notify /\ request'.edited = request.edited
      /\ request'.missing = request.missing /\ request'.offers = request.offers
  BY <1>1 DEF TypeOK, Request
<1>3. \A e \in Derived : /\ derived'[e].state = derived[e].state
                         /\ derived'[e].to = IF e = d THEN source.to ELSE derived[e].to
  BY <1>1 DEF TypeOK
<1>4. Public' = Public /\ Masters' = Masters /\ Sent' = Sent
  BY <1>1, <1>2, <1>3 DEF Public, Masters, Sent
<1>5. d \in Public
  BY <1>1, DatingRequest DEF Dating
<1>6. RequestFits' /\ SentAreMasters'
  BY <1>1, <1>2, <1>4, <1>5, DatingRequest DEF RequestFits, SentAreMasters, Publishing, Withdrawing,
     Replacing, Cloning, Dating
<1>7. ClonesAreConfirmed' /\ OneFlyerPerMarket'
  BY <1>1, <1>4 DEF ClonesAreConfirmed, OneFlyerPerMarket
<1>8. TargetsCovered' /\ NoneBeside' /\ Announced'
  BY <1>1, <1>2, <1>4, QuietStep DEF Publishing, Withdrawing, Replacing
<1>9. DatesFollow'
  <2>1. "copies" \notin torn =>
          \A e \in Public \ request'.flyers : e[1] \in target => Dated(e)'
    BY <1>1, <1>2, <1>3 DEF DatesFollow, Dated, Dating, Public
  <2>2. QED
    BY <1>1, <1>2, <1>4, <2>1 DEF DatesFollow, Publishing, Dating
<1>10. ClonesMirror'
  <2>1. \A e \in Public : Redated(e)' => Redated(e)
    BY <1>1, <1>2 DEF Redated
  <2>2. QED
    BY <1>1, <1>2, <1>4, <2>1 DEF ClonesMirror, Publishing, Cloning, Dating
<1>11. QED
  BY <1>6, <1>7, <1>8, <1>9, <1>10

LEMMA UpdateCloneDatesStep ==
  ASSUME TypeOK, PublicationInv, NEW d \in Derived, UpdateCloneDates(d)
  PROVE  PublicationInv'
<1> USE DEF PublicationInv
<1>1. /\ request.step = "cloneDates" /\ request.current = {d}
      /\ UNCHANGED <<source, target, offer, derived, jobs, swept, torn>>
  BY DEF UpdateCloneDates, others, calendar, RequestFits
<1>2. /\ \A e \in Derived \ {d} : clone'[e] = clone[e]
      /\ \A o \in Offers : clone'[d][o] = IF clone[d][o] = NoClone THEN NoClone
                                          ELSE [clone[d][o] EXCEPT !.to = source.to]
  BY DEF UpdateCloneDates, TypeOK
<1>3. /\ \A e \in Derived, o \in Offers : clone'[e][o] # NoClone => clone[e][o] # NoClone
      /\ \A e \in Derived, o \in Offers :
           clone[e][o] # NoClone =>
             /\ clone'[e][o].version = clone[e][o].version
             /\ clone'[e][o].to = IF e = d THEN source.to ELSE clone[e][o].to
             /\ clone'[e][o] = [version |-> clone'[e][o].version, to |-> clone'[e][o].to]
  <2>1. SUFFICES ASSUME NEW e \in Derived, NEW o \in Offers
                 PROVE  /\ clone'[e][o] # NoClone => clone[e][o] # NoClone
                        /\ clone[e][o] # NoClone =>
                            /\ clone'[e][o].version = clone[e][o].version
                            /\ clone'[e][o].to = IF e = d THEN source.to ELSE clone[e][o].to
                            /\ clone'[e][o] = [version |-> clone'[e][o].version, to |-> clone'[e][o].to]
    OBVIOUS
  <2>2. clone[e][o] \in CloneRow
    BY DEF TypeOK
  <2>3. CASE clone[e][o] = NoClone
    BY <1>2, <2>3
  <2>4. CASE clone[e][o] # NoClone
    <3>1. clone[e][o] \in [version : Version, to : Day]
      BY <2>2, <2>4 DEF CloneRow
    <3>2. clone'[e][o] = IF e = d THEN [clone[e][o] EXCEPT !.to = source.to] ELSE clone[e][o]
      BY <1>2, <2>4
    <3>3. QED
      BY <2>4, <3>1, <3>2
  <2>5. QED
    BY <2>3, <2>4
<1>4. \A e \in Derived, o \in Masters :
        clone[e][o].version = offer[o].version => clone[e][o] # NoClone
  BY OfferRows, PublicationAssumption DEF NoClone, Version, Masters, TypeOK
<1>5. ASSUME "copies" \notin torn, NEW o \in Masters, NEW e \in Public \ swept
      PROVE  /\ offer[o].to = source.to
             /\ clone'[e][o].version = offer[o].version
             /\ e \notin request.flyers => clone'[e][o].to = source.to
             /\ clone'[e][o] = [version |-> clone'[e][o].version, to |-> clone'[e][o].to]
  <2>1. /\ offer[o].to = source.to /\ clone[e][o].version = offer[o].version
        /\ Redated(e) => clone[e][o].to = source.to
    BY <1>1, <1>5 DEF ClonesMirror, Dating
  <2>2. clone[e][o] # NoClone
    BY <1>4, <2>1 DEF Public
  <2>3. e \notin request.flyers => e = d \/ Redated(e)
    BY <1>1 DEF Redated
  <2>4. QED
    BY <1>3, <2>1, <2>2, <2>3 DEF Public, Masters
<1>6. Public' = Public /\ Masters' = Masters
  BY <1>1 DEF Public, Masters
<1>7. ClonesAreConfirmed' /\ OneFlyerPerMarket'
  BY <1>1, <1>3, <1>6 DEF ClonesAreConfirmed, OneFlyerPerMarket
<1>8. CASE request.flyers = {}
  <2>1. RequestFits' /\ SentAreMasters' /\ request'.step = "idle" /\ request'.edited = {}
    BY <1>8, FinishedRequest DEF UpdateCloneDates, Finish
  <2>2. TargetsCovered' /\ NoneBeside' /\ Announced'
    BY <1>1, <1>6, <2>1, QuietStep DEF Publishing, Withdrawing, Replacing
  <2>3. DatesFollow'
    BY <1>1, <1>6, <1>8, <2>1 DEF DatesFollow, Dated, Publishing, Dating
  <2>4. "copies" \notin torn => \A o \in Masters : Shown(o)'
    <3>1. SUFFICES ASSUME "copies" \notin torn, NEW o \in Masters, NEW e \in Public \ swept
                   PROVE  clone'[e][o] = Copy(o)'
      BY <1>1, <1>6 DEF Shown
    <3>2. /\ clone'[e][o] = [version |-> clone'[e][o].version, to |-> clone'[e][o].to]
          /\ clone'[e][o].version = offer[o].version /\ clone'[e][o].to = offer[o].to
      BY <1>5, <1>8, <3>1
    <3>3. QED
      BY <1>1, <3>2 DEF Copy
  <2>5. ClonesMirror'
    BY <1>1, <1>6, <2>1, <2>4 DEF ClonesMirror, Publishing, Cloning, Dating
  <2>6. QED
    BY <1>7, <2>1, <2>2, <2>3, <2>5
<1>9. CASE request.flyers # {}
  <2>1. /\ request'.step = "flyerDates" /\ request'.flyers = request.flyers
        /\ request'.current = {} /\ request'.todo = request.todo
        /\ request'.notify = request.notify /\ request'.edited = request.edited
        /\ request'.missing = request.missing /\ request'.offers = request.offers
    BY <1>9 DEF UpdateCloneDates, TypeOK, Request
  <2>2. Sent' = Sent
    BY <2>1 DEF Sent
  <2>3. RequestFits' /\ SentAreMasters'
    BY <1>1, <1>6, <2>1, <2>2, DatingRequest DEF RequestFits, SentAreMasters, Publishing, Withdrawing,
       Replacing, Cloning, Dating
  <2>4. TargetsCovered' /\ NoneBeside' /\ Announced'
    BY <1>1, <1>6, <2>1, QuietStep DEF Publishing, Withdrawing, Replacing
  <2>5. DatesFollow'
    BY <1>1, <1>6, <2>1 DEF DatesFollow, Dated, Publishing, Dating
  <2>6. \A o \in Masters : offer[o].to = source.to
    BY <1>1 DEF ClonesMirror, Dating
  <2>7. ClonesMirror'
    BY <1>1, <1>5, <1>6, <2>1, <2>6 DEF ClonesMirror, Redated, Publishing, Cloning, Dating
  <2>8. QED
    BY <1>7, <2>3, <2>4, <2>5, <2>7
<1>10. QED
  BY <1>8, <1>9

(* delete_flyer                                                            *)
LEMMA DeleteSourceStep ==
  ASSUME TypeOK, PublicationInv, DeleteSource
  PROVE  PublicationInv'
<1> USE DEF PublicationInv
<1>1. AtRest /\ target' = {} /\ UNCHANGED <<jobs, request, swept, torn>>
  BY DEF DeleteSource, others, calendar
<1>2. Public' = {} /\ Masters' = {} /\ Sent' = {}
  BY <1>1, NoOfferTyped, RestingRequest DEF DeleteSource, Public, Masters, Sent, Gone, NoOffer
<1>3. RequestFits' /\ SentAreMasters'
  BY <1>1, <1>2, RestingRequest DEF RequestFits, SentAreMasters, Publishing, Withdrawing, Replacing,
     Cloning, Dating, AtRest
<1>4. ClonesAreConfirmed' /\ OneFlyerPerMarket'
  BY <1>2, NoCloneTyped DEF ClonesAreConfirmed, OneFlyerPerMarket, DeleteSource
<1>5. TargetsCovered' /\ NoneBeside' /\ Announced'
  BY <1>1, <1>2 DEF TargetsCovered, NoneBeside, Announced, Covered
<1>6. DatesFollow' /\ ClonesMirror'
  BY <1>2 DEF DatesFollow, ClonesMirror
<1>7. QED
  BY <1>3, <1>4, <1>5, <1>6

LEMMA DeleteDerivedStep ==
  ASSUME TypeOK, PublicationInv, NEW d \in Derived, DeleteDerived(d)
  PROVE  PublicationInv'
<1> USE DEF PublicationInv
<1>1. /\ AtRest /\ torn' = torn \cup {"copies", "job"}
      /\ \A e \in Derived : /\ derived'[e] = IF e = d THEN Gone ELSE derived[e]
                            /\ clone'[e] = IF e = d THEN NoClones ELSE clone[e]
      /\ UNCHANGED <<source, target, offer, jobs, request, swept>>
  BY DEF DeleteDerived, calendar, TypeOK
<1>2. Public' = Public \ {d} /\ Masters' = Masters /\ Sent' = Sent
  BY <1>1 DEF Public, Masters, Sent, Gone
<1>3. RequestFits' /\ SentAreMasters'
  BY <1>1, <1>2, RestingRequest DEF RequestFits, SentAreMasters, Publishing, Withdrawing, Replacing,
     Cloning, Dating
<1>4. ClonesAreConfirmed' /\ OneFlyerPerMarket'
  BY <1>1, <1>2, NoCloneTyped DEF ClonesAreConfirmed, OneFlyerPerMarket
<1>5. TargetsCovered' /\ NoneBeside' /\ Announced'
  BY <1>1, <1>2, RestingRequest DEF TargetsCovered, NoneBeside, Announced, Publishing, Replacing, Withdrawing
<1>6. DatesFollow' /\ ClonesMirror'
  BY <1>1, RestingRequest DEF DatesFollow, ClonesMirror, Publishing, Dating
<1>7. QED
  BY <1>3, <1>4, <1>5, <1>6

(* The request raises, or the process dies.                                *)
LEMMA RequestDiesStep ==
  ASSUME TypeOK, PublicationInv, RequestDies
  PROVE  PublicationInv'
<1> USE DEF PublicationInv
<1>1. /\ Finish /\ torn \subseteq torn' /\ "copies" \in torn'
      /\ UNCHANGED <<source, target, offer, derived, clone, jobs, swept>>
      /\ Replacing => "extra" \in torn'
      /\ request.notify /\ (Publishing \/ Withdrawing) => "job" \in torn'
  BY DEF RequestDies, rows, calendar, Replacing, Publishing, Withdrawing
<1>2. RequestFits' /\ SentAreMasters' /\ request'.step = "idle"
  BY <1>1, FinishedRequest
<1>3. Public' = Public /\ Masters' = Masters
  BY <1>1 DEF Public, Masters
<1>4. ClonesAreConfirmed' /\ OneFlyerPerMarket'
  BY <1>1, <1>3 DEF ClonesAreConfirmed, OneFlyerPerMarket
<1>5. TargetsCovered'
  <2>1. (Masters # {} \/ Public # {}) /\ "job" \notin torn' => Covered
    <3>1. CASE Replacing
      BY <1>1, <3>1 DEF RequestFits, Replacing, Withdrawing, Covered
    <3>2. CASE Publishing
      BY <1>1, <3>2 DEF TargetsCovered
    <3>3. CASE ~Replacing /\ ~Publishing
      BY <1>1, <3>3 DEF TargetsCovered
    <3>4. QED
      BY <3>1, <3>2, <3>3
  <2>2. Covered' <=> Covered
    BY <1>1, <1>3 DEF Covered, HasFlyer
  <2>3. QED
    BY <1>1, <1>2, <1>3, <2>1, <2>2 DEF TargetsCovered, Publishing
<1>6. NoneBeside'
  BY <1>1, <1>2, <1>3 DEF NoneBeside
<1>7. Announced'
  BY <1>1, <1>2, <1>3 DEF Announced, RequestFits, Publishing
<1>8. DatesFollow' /\ ClonesMirror'
  BY <1>1, <1>2 DEF DatesFollow, ClonesMirror, Publishing, Cloning, Dating
<1>9. QED
  BY <1>2, <1>4, <1>5, <1>6, <1>7, <1>8

(* The cleanup deletes clones, in the middle of any request.               *)
LEMMA SweepSourceStep ==
  ASSUME TypeOK, PublicationInv, SweepSource
  PROVE  PublicationInv'
<1> USE DEF PublicationInv
<1>1. /\ offer' = NoOffers /\ UNCHANGED <<source, target, derived, jobs, request, swept, torn>>
      /\ \A d \in Derived, o \in Offers : clone'[d][o] = NoClone
  BY NoCloneTyped DEF SweepSource
<1>2. Masters' = {} /\ Public' = Public /\ Sent' = Sent
  BY <1>1, NoOfferTyped DEF Masters, Public, Sent, NoOffer
<1>3. RequestFits'
  BY <1>1, <1>2 DEF RequestFits, Publishing, Withdrawing, Replacing, Cloning, Dating
<1>4. SentAreMasters'
  BY <1>1, <1>2 DEF SentAreMasters, Publishing, Withdrawing, Cloning
<1>5. ClonesAreConfirmed' /\ OneFlyerPerMarket'
  BY <1>1, <1>2 DEF ClonesAreConfirmed, OneFlyerPerMarket
<1>6. TargetsCovered' /\ NoneBeside' /\ Announced'
  BY <1>1, <1>2 DEF TargetsCovered, NoneBeside, Announced, Covered, HasFlyer, Publishing, Withdrawing,
     Replacing
<1>7. DatesFollow'
  BY <1>1, <1>2 DEF DatesFollow, Dated, Publishing, Withdrawing, Replacing, Dating
<1>8. ClonesMirror'
  BY <1>2 DEF ClonesMirror
<1>9. QED
  BY <1>3, <1>4, <1>5, <1>6, <1>7, <1>8

LEMMA SweepDerivedStep ==
  ASSUME TypeOK, PublicationInv, NEW d \in Derived, SweepDerived(d)
  PROVE  PublicationInv'
<1> USE DEF PublicationInv
<1>1. /\ swept' = swept \cup {d}
      /\ UNCHANGED <<source, target, offer, derived, jobs, request, torn>>
      /\ \A o \in Offers : clone'[d][o] = NoClone
      /\ \A e \in Derived \ {d} : clone'[e] = clone[e]
  BY NoCloneTyped DEF SweepDerived, TypeOK
<1>2. Masters' = Masters /\ Public' = Public /\ Sent' = Sent
  BY <1>1 DEF Masters, Public, Sent
<1>3. RequestFits'
  BY <1>1, <1>2 DEF RequestFits, Publishing, Withdrawing, Replacing, Cloning, Dating
<1>4. SentAreMasters'
  BY <1>1, <1>2 DEF SentAreMasters, Publishing, Withdrawing, Cloning
<1>5. ClonesAreConfirmed' /\ OneFlyerPerMarket'
  BY <1>1, <1>2 DEF ClonesAreConfirmed, OneFlyerPerMarket
<1>6. TargetsCovered' /\ NoneBeside' /\ Announced'
  BY <1>1, <1>2 DEF TargetsCovered, NoneBeside, Announced, Covered, HasFlyer, Publishing, Withdrawing,
     Replacing
<1>7. DatesFollow'
  BY <1>1, <1>2 DEF DatesFollow, Dated, Publishing, Withdrawing, Replacing, Dating
<1>8. ClonesMirror'
  <2>1. \A e \in Public' \ swept' : e \in Public \ swept /\ clone'[e] = clone[e]
    BY <1>1, <1>2 DEF Public
  <2>2. \A o \in Masters : Shown(o) => Shown(o)'
    BY <1>1, <2>1 DEF Shown, Copy
  <2>3. QED
    BY <1>1, <1>2, <2>1, <2>2 DEF ClonesMirror, Copy, Redated, Publishing, Withdrawing, Replacing,
       Cloning, Dating
<1>9. QED
  BY <1>3, <1>4, <1>5, <1>6, <1>7, <1>8

LEMMA RowsKeptStep ==
  ASSUME PublicationInv, SelectExpired \/ SweepStops \/ NextDay \/ UNCHANGED vars
  PROVE  PublicationInv'
<1>1. UNCHANGED <<source, target, offer, derived, clone, jobs, request, swept, torn>>
  BY DEF SelectExpired, SweepStops, NextDay, vars, rows
<1>2. QED
  BY <1>1 DEF PublicationInv, RequestFits, SentAreMasters, ClonesAreConfirmed, OneFlyerPerMarket,
     TargetsCovered, NoneBeside, Announced, DatesFollow, ClonesMirror, Covered, HasFlyer, Dated,
     Copy, Shown, Redated, Publishing, Withdrawing, Replacing, Cloning, Dating, Masters, Public, Sent

LEMMA PublicationInvStep == TypeOK /\ PublicationInv /\ [Next]_vars => PublicationInv'
<1>1. SUFFICES ASSUME TypeOK, PublicationInv, [Next]_vars PROVE PublicationInv'
  OBVIOUS
<1>2. CASE SelectExpired \/ SweepStops \/ NextDay \/ UNCHANGED vars
  BY <1>1, <1>2, RowsKeptStep
<1>3. CASE Sweep
  BY <1>1, <1>3, SweepSourceStep, SweepDerivedStep DEF Sweep
<1>4. CASE \E o \in Offers : \/ CreateDraft(o) \/ UpdateOfferFields(o)
                             \/ UpdateProductFields(o) \/ DeleteClones(o) \/ DeleteOffer(o)
  BY <1>1, <1>4, CreateDraftStep, UpdateOfferFieldsStep, UpdateProductFieldsStep, DeleteClonesStep,
     DeleteOfferStep
<1>5. CASE \/ ConfirmOffers \/ ConfirmDrafts \/ EnqueueFlyerPublished \/ TargetsPublished
           \/ \E m \in Markets : UpdateTargetFlyer(m) \/ InsertTargetFlyer(m)
  BY <1>1, <1>5, ConfirmOffersStep, ConfirmDraftsStep, EnqueueFlyerPublishedStep,
     TargetsPublishedStep, UpdateTargetFlyerStep, InsertTargetFlyerStep
<1>6. CASE UpsertClones \/ InsertMissing \/ ForeignKeyRaises \/ DeleteStaleClones
  BY <1>1, <1>6, UpsertClonesStep, InsertMissingStep, ForeignKeyRaisesStep, DeleteStaleClonesStep
<1>7. CASE \/ \E accepted \in SUBSET Markets \ {{}} : DeleteTargets(accepted)
           \/ InsertTargets \/ DeleteRemovedClones \/ DeleteRemovedFlyers
  BY <1>1, <1>7, DeleteTargetsStep, InsertTargetsStep, DeleteRemovedClonesStep, DeleteRemovedFlyersStep
<1>8. CASE (\E to \in Day : UpdateValidity(to)) \/ UpdateOfferDates
  BY <1>1, <1>8, UpdateValidityStep, UpdateOfferDatesStep
<1>9. CASE \E d \in Derived : UpdateDerivedDates(d) \/ UpdateCloneDates(d) \/ DeleteDerived(d)
  BY <1>1, <1>9, UpdateDerivedDatesStep, UpdateCloneDatesStep, DeleteDerivedStep
<1>10. CASE DeleteSource \/ RequestDies
  BY <1>1, <1>10, DeleteSourceStep, RequestDiesStep
<1>11. QED
  BY <1>1, <1>2, <1>3, <1>4, <1>5, <1>6, <1>7, <1>8, <1>9, <1>10 DEF Next, RequestStep

LEMMA InitPublishes == Init => PublicationInv
<1>1. SUFFICES ASSUME Init PROVE PublicationInv
  OBVIOUS
<1>2. Public = {} /\ Masters = {}
  BY <1>1, NoOfferTyped DEF Init, Public, Masters, NoOffer
<1>3. RequestFits /\ SentAreMasters
  BY <1>1, RestingRequest DEF Init, AtRest, RequestFits, SentAreMasters, Publishing, Withdrawing,
     Replacing, Cloning, Dating
<1>4. \A d \in Derived, o \in Offers : clone[d][o] = NoClone
  BY <1>1, NoCloneTyped DEF Init
<1>5. QED
  BY <1>1, <1>2, <1>3, <1>4, RestingRequest DEF Init, AtRest, PublicationInv, ClonesAreConfirmed,
     OneFlyerPerMarket, TargetsCovered, NoneBeside, Announced, DatesFollow, ClonesMirror, Covered,
     Publishing, Replacing, Withdrawing, Cloning, Dating

(* Whatever requests, faults and cleanups follow each other, what a        *)
(* request of flyers.py remembers fits the rows, and the derived flyers    *)
(* follow the source flyer up to what that request has still to do.        *)
THEOREM PublicationInvariant == Spec => []PublicationInv
BY InitTyped, InitPublishes, TypeStep, PublicationInvStep, PTL DEF Spec

(* What customers can see was confirmed, and its flyer is published.       *)
THEOREM CustomersSeeConfirmed == Spec => []ClonesAreConfirmed
<1>1. PublicationInv => ClonesAreConfirmed
  BY DEF PublicationInv
<1>2. QED
  BY <1>1, PublicationInvariant, PTL

(* confirm_offers never makes a second derived flyer for a supermarket.    *)
THEOREM MarketsHaveOneFlyer == Spec => []OneFlyerPerMarket
<1>1. PublicationInv => OneFlyerPerMarket
  BY DEF PublicationInv
<1>2. QED
  BY <1>1, PublicationInvariant, PTL

(* Between requests a derived flyer without a job goes back to a fault, or *)
(* to the deletion of a derived flyer on its own.                          *)
THEOREM FlyersAreAnnounced == Spec => []JobsFollowFlyers
<1>1. PublicationInv => JobsFollowFlyers
  BY RestingRequest DEF PublicationInv, Announced, JobsFollowFlyers
<1>2. QED
  BY <1>1, PublicationInvariant, PTL

(* Between requests the derived flyers of a published source flyer are     *)
(* those of its targets, unless a fault is still unrepaired.               *)
THEOREM FlyersFollowTargets == Spec => []FollowsTargets
<1>1. PublicationInv => FollowsTargets
  <2>1. SUFFICES ASSUME PublicationInv, AtRest, Public # {}
                 PROVE  /\ "copies" \notin torn => target \subseteq {d[1] : d \in Public}
                        /\ "extra" \notin torn => {d[1] : d \in Public} \subseteq target
    BY DEF FollowsTargets
  <2>2. ~Replacing /\ ~Publishing
    BY <2>1, RestingRequest DEF Replacing, Withdrawing, Publishing
  <2>3. "copies" \notin torn => Covered
    BY <2>1, <2>2 DEF PublicationInv, TargetsCovered
  <2>4. "extra" \notin torn => \A d \in Public : d[1] \in target
    BY <2>1, <2>2 DEF PublicationInv, NoneBeside
  <2>5. QED
    BY <2>3, <2>4 DEF Covered, HasFlyer
<1>2. QED
  BY <1>1, PublicationInvariant, PTL

(* Between requests the derived flyers of the targets have the dates of    *)
(* the source flyer, unless a fault is still unrepaired.                   *)
THEOREM FlyersFollowDates == Spec => []FollowsDates
<1>1. PublicationInv => FollowsDates
  BY RestingRequest DEF PublicationInv, DatesFollow, FollowsDates, Dated, Publishing, Replacing,
     Withdrawing, Dating
<1>2. QED
  BY <1>1, PublicationInvariant, PTL

(* Between requests every derived flyer that no cleanup has emptied shows  *)
(* the confirmed offers with their current fields and dates and nothing    *)
(* else, unless a fault came after the last confirmation.                  *)
THEOREM FlyersMirrorMasters == Spec => []MirrorsMasters
<1>1. PublicationInv => MirrorsMasters
  <2>1. SUFFICES ASSUME PublicationInv, AtRest, "copies" \notin torn,
                        NEW d \in Public \ swept, NEW o \in Offers
                 PROVE  clone[d][o] = IF o \in Masters
                                      THEN [version |-> offer[o].version, to |-> offer[o].to]
                                      ELSE NoClone
    BY DEF MirrorsMasters
  <2>2. d \in Derived
    BY DEF Public
  <2>3. CASE o \in Masters
    BY <2>1, <2>3, RestingRequest DEF PublicationInv, ClonesMirror, Shown, Copy, Publishing, Replacing,
       Withdrawing, Cloning, Dating
  <2>4. CASE o \notin Masters
    BY <2>1, <2>2, <2>4 DEF PublicationInv, ClonesAreConfirmed, Masters
  <2>5. QED
    BY <2>3, <2>4
<1>2. QED
  BY <1>1, PublicationInvariant, PTL
=============================================================================
