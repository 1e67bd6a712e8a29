--------------------------- MODULE FlyerPublication ---------------------------
(***************************************************************************)
(* Publication of one source flyer: api/routers/flyers.py with the nightly *)
(* services/flyer_cleanup.py.                                              *)
(*                                                                         *)
(* A source flyer has target supermarkets and offers (drafts until they    *)
(* are confirmed).  Confirming publishes one derived flyer per target, with *)
(* a clone of every confirmed offer; later edits, date changes and changes *)
(* of the targets are carried over to the derived flyers.                  *)
(*                                                                         *)
(* The request handlers are coroutines that never await: in the one uvicorn *)
(* process of render.yaml at most one of them is under way.  They do        *)
(* interleave with the thread of the cleanup, and any of their database     *)
(* calls may be the last one.  An action is one writing call with the reads *)
(* that follow it, so that what a request has read may be stale when it     *)
(* writes again.                                                            *)
(***************************************************************************)
EXTENDS Integers, FiniteSets

CONSTANTS
  Markets,        \* supermarkets
  Offers,         \* ids of offers of the source flyer
  SourceFlyer,    \* names the source flyer: any value outside Markets
  Copies,         \* bound: derived flyers that one market can ever get
  MaxEdits,       \* bound: edits of one offer
  MaxDay,         \* bound: the last day
  PartialNames,   \* a client may send only one of name and brand
  DeletesTargets, \* a manager may send the id of a derived flyer to DELETE
  SweepsInThread, \* the nightly cleanup runs beside the requests
  Crashes         \* a request or a cleanup may end at any call

ASSUME PublicationAssumption ==
  /\ SourceFlyer \notin Markets
  /\ Copies \in Nat \ {0}
  /\ MaxEdits \in Nat
  /\ MaxDay \in Nat
  /\ {PartialNames, DeletesTargets, SweepsInThread, Crashes} \subseteq BOOLEAN

VARIABLES
  today,      \* the current date
  source,     \* the source flyer: exists, and its valid_to
  target,     \* flyer_targets of the source flyer
  offer,      \* rows of offers that belong to the source flyer
  derived,    \* rows of flyers with flyer_kind published_target
  clone,      \* rows of offers that belong to a derived flyer
  jobs,       \* derived flyers with a flyer_published job
  request,    \* the request under way
  sweep,      \* the flyers that a running cleanup still has to sweep
  swept,      \* history: derived flyers whose clones a cleanup deleted
  torn        \* history: what a fault broke and no later request repaired

vars == <<today, source, target, offer, derived, clone, jobs,
          request, sweep, swept, torn>>
rows == <<source, target, offer, derived, clone>>
calendar == <<today, sweep, swept>>
others == <<calendar, torn>>

Day == 0 .. MaxDay
Version == 0 .. MaxEdits
Derived == Markets \X (1 .. Copies)

NoOffer == [kind |-> "none", version |-> 0, to |-> 0]
OfferRow == [kind : {"draft", "master"}, version : Version, to : Day] \cup {NoOffer}
NoClone == [version |-> -1, to |-> -1]
NoClones == [o \in Offers |-> NoClone]
CloneRow == [version : Version, to : Day] \cup {NoClone}

Gone == [state |-> "deleted", to |-> 0]

Masters == {o \in Offers : offer[o].kind = "master"}
Public == {d \in Derived : derived[d].state = "public"}
PublicIn(m) == {d \in Public : d[1] = m}
(* The bound Copies: a market in which a derived flyer can be found or made. *)
Room(m) == \E n \in 1 .. Copies : derived[<<m, n>>].state # "deleted"

(* What a request under way has read, and what it still has to do: markets *)
(* and derived flyers it has to visit, the one it is visiting, the offer it *)
(* edits, the source offers to clone and the clones that do not exist.     *)
NoOffers == [o \in Offers |-> NoOffer]
Idle == [step |-> "idle", notify |-> FALSE, todo |-> {}, flyers |-> {}, current |-> {},
         edited |-> {}, offers |-> NoOffers, missing |-> {}]
AtRest == request = Idle

Ask(step) == request' = [request EXCEPT !.step = step]
Finish == request' = Idle

Init ==
  /\ today = 0
  /\ \E to \in Day : source = [live |-> TRUE, to |-> to]
  /\ target = {}
  /\ offer = NoOffers
  /\ derived = [d \in Derived |-> [state |-> "none", to |-> 0]]
  /\ clone = [d \in Derived |-> NoClones]
  /\ jobs = {}
  /\ request = Idle
  /\ sweep = {}
  /\ swept = {}
  /\ torn = {}

-----------------------------------------------------------------------------
(* Offers of the source flyer.                                             *)

(* create_draft_offer: the dates of the payload, or those of the flyer.    *)
CreateDraft(o) ==
  /\ AtRest
  /\ source.live
  /\ offer[o] = NoOffer
  /\ \E to \in Day : offer' = [offer EXCEPT ![o] = [kind |-> "draft", version |-> 0, to |-> to]]
  /\ UNCHANGED <<source, target, derived, clone, jobs, request, others>>

Written(o) == [offer EXCEPT ![o].version = @ + 1]

(* update_draft_offer, the fields of the offer itself.                     *)
UpdateOfferFields(o) ==
  /\ AtRest
  /\ source.live
  /\ offer[o] # NoOffer
  /\ \/ offer' = offer
     \/ offer[o].version < MaxEdits /\ offer' = Written(o)
  /\ request' = [Idle EXCEPT !.step = "product", !.edited = {o}]
  /\ UNCHANGED <<source, target, derived, clone, jobs, others>>

Reread(o, row) ==
  request' = IF row.kind = "master" /\ Public # {}
             THEN [request EXCEPT !.step = "clones", !.edited = {}, !.flyers = Public,
                                  !.offers = [NoOffers EXCEPT ![o] = row]]
             ELSE Idle

(* update_draft_offer, the fields of the product, and the row read back.   *)
(* With only one of name and brand the update names draft_product_key, a   *)
(* column that 20260724000000_offer_only_reset.sql drops, and raises; so   *)
(* does reading back a row that the cleanup has deleted.                   *)
UpdateProductFields(o) ==
  /\ request.step = "product"
  /\ o \in request.edited
  /\ \/ offer' = offer /\ Reread(o, offer[o])
     \/ /\ offer[o] # NoOffer
        /\ offer[o].version < MaxEdits
        /\ offer' = Written(o)
        /\ Reread(o, offer'[o])
     \/ PartialNames /\ offer' = offer /\ Finish
  /\ torn' = torn \cup {x \in {"copies"} : request' = Idle /\ offer[o].kind = "master"}
  /\ UNCHANGED <<source, target, derived, clone, jobs, calendar>>

WithoutClonesOf(o) == [d \in Derived |-> [clone[d] EXCEPT ![o] = NoClone]]

(* delete_draft_offer: the clones of a confirmed offer, then the offer,    *)
(* whose deletion cascades over source_offer_id.                           *)
DeleteClones(o) ==
  /\ AtRest
  /\ source.live
  /\ offer[o] # NoOffer
  /\ clone' = IF offer[o].kind = "master" THEN WithoutClonesOf(o) ELSE clone
  /\ request' = [Idle EXCEPT !.step = "delete", !.edited = {o}]
  /\ UNCHANGED <<source, target, offer, derived, jobs, others>>

DeleteOffer(o) ==
  /\ request.step = "delete"
  /\ o \in request.edited
  /\ offer' = [offer EXCEPT ![o] = NoOffer]
  /\ clone' = WithoutClonesOf(o)
  /\ Finish
  /\ UNCHANGED <<source, target, derived, jobs, others>>

-----------------------------------------------------------------------------
(* confirm_offers                                                          *)

ConfirmOffers ==
  /\ AtRest
  /\ source.live
  /\ target # {}
  /\ \A m \in target : Room(m)
  /\ request' = [Idle EXCEPT !.step = "confirm",
                   !.notify = \E o \in Offers : offer[o].kind = "draft"]
  /\ UNCHANGED <<rows, jobs, others>>

(* Mutant of ReadMasters: is_confirmed is not asked for.                   *)
ReadAllOffers(rows_) == rows_

(* _source_master_offers: what later calls of the request clone.           *)
ReadMasters(rows_) ==
  [o \in Offers |-> IF rows_[o].kind = "master" THEN rows_[o] ELSE NoOffer]

(* Mutant of ConfirmDrafts: the drafts are counted after the update.       *)
ConfirmDraftsThenCount ==
  /\ request.step = "confirm"
  /\ offer' = [o \in Offers |-> IF offer[o].kind = "draft"
                                 THEN [offer[o] EXCEPT !.kind = "master"] ELSE offer[o]]
  /\ request' = IF ReadMasters(offer') = NoOffers THEN Idle
                ELSE [request EXCEPT !.step = "targets", !.todo = target, !.notify = FALSE,
                                     !.offers = ReadMasters(offer')]
  /\ UNCHANGED <<source, target, derived, clone, jobs, others>>

ConfirmDrafts ==
  /\ request.step = "confirm"
  /\ offer' = IF request.notify
              THEN [o \in Offers |-> IF offer[o].kind = "draft"
                                     THEN [offer[o] EXCEPT !.kind = "master"]
                                     ELSE offer[o]]
              ELSE offer
  /\ request' = IF ReadMasters(offer') = NoOffers THEN Idle
                ELSE [request EXCEPT !.step = "targets", !.todo = target,
                                     !.offers = ReadMasters(offer')]
  /\ UNCHANGED <<source, target, derived, clone, jobs, others>>

(* One target: the row of its derived flyer is updated, or inserted.       *)
UpdateTargetFlyer(m) ==
  /\ request.step = "targets"
  /\ m \in request.todo
  /\ PublicIn(m) # {}
  /\ \E d \in PublicIn(m) : derived' = [derived EXCEPT ![d].to = source.to]
  /\ request' = [request EXCEPT !.todo = @ \ {m}]
  /\ UNCHANGED <<source, target, offer, clone, jobs, others>>

(* Mutant of InsertTargetFlyer: the existing derived flyer is not looked up. *)
InsertAnotherTargetFlyer(m) ==
  /\ request.step = "targets"
  /\ m \in request.todo
  /\ \E d \in Derived :
       /\ d[1] = m
       /\ derived[d].state = "none"
       /\ derived' = [derived EXCEPT ![d] = [state |-> "public", to |-> source.to]]
       /\ request' = [request EXCEPT !.todo = @ \ {m},
                        !.step = IF request.notify THEN "enqueue" ELSE "targets",
                        !.current = {d}]
  /\ UNCHANGED <<source, target, offer, clone, jobs, others>>

InsertTargetFlyer(m) ==
  /\ request.step = "targets"
  /\ m \in request.todo
  /\ PublicIn(m) = {}
  /\ \E d \in Derived :
       /\ d[1] = m
       /\ derived[d].state = "none"
       /\ derived' = [derived EXCEPT ![d] = [state |-> "public", to |-> source.to]]
       /\ request' = [request EXCEPT !.todo = @ \ {m},
                        !.step = IF request.notify THEN "enqueue" ELSE "targets",
                        !.current = {d}]
  /\ UNCHANGED <<source, target, offer, clone, jobs, others>>

(* Mutant of EnqueueFlyerPublished: the job is keyed by supermarket.       *)
EnqueueMarket ==
  /\ request.step = "enqueue"
  /\ jobs' = jobs \cup {d[1] : d \in request.current}
  /\ request' = [request EXCEPT !.step = "targets", !.current = {}]
  /\ UNCHANGED <<rows, others>>

EnqueueFlyerPublished ==
  /\ request.step = "enqueue"
  /\ jobs' = jobs \cup request.current
  /\ request' = [request EXCEPT !.step = "targets", !.current = {}]
  /\ UNCHANGED <<rows, others>>

(* _published_target_flyers is read again when every target has its row.   *)
TargetsPublished ==
  /\ request.step = "targets"
  /\ request.todo = {}
  /\ request' = [request EXCEPT !.step = "clones", !.flyers = Public]
  /\ torn' = torn \ {"copies"}
  /\ UNCHANGED <<rows, jobs, calendar>>

-----------------------------------------------------------------------------
(* _sync_published_clones_for_source_offers                                *)

Sent == {o \in Offers : request.offers[o] # NoOffer}
CloneOf(o) == [version |-> request.offers[o].version, to |-> request.offers[o].to]

(* Mutant of UpsertClones: the existing rows are read and left alone.      *)
KeepClones ==
  /\ request.step = "clones"
  /\ Sent # {}
  /\ \A o \in Sent : offer[o] # NoOffer
  /\ clone' = clone
  /\ request' = [request EXCEPT !.step = "missing", !.missing =
       {x \in request.flyers \X Sent : clone[x[1]][x[2]] = NoClone}]
  /\ UNCHANGED <<source, target, offer, derived, jobs, others>>

(* Existing clones get the fields of their source offer in one upsert.  A  *)
(* clone whose source offer is gone violates the foreign key.              *)
UpsertClones ==
  /\ request.step = "clones"
  /\ Sent # {}
  /\ \A o \in Sent : offer[o] # NoOffer
  /\ clone' = [d \in Derived |-> [o \in Offers |->
       IF d \in request.flyers /\ o \in Sent /\ clone[d][o] # NoClone
       THEN CloneOf(o) ELSE clone[d][o]]]
  /\ request' = [request EXCEPT !.step = "missing", !.missing =
       {x \in request.flyers \X Sent : clone[x[1]][x[2]] = NoClone}]
  /\ UNCHANGED <<source, target, offer, derived, jobs, others>>

InsertMissing ==
  /\ request.step = "missing"
  /\ request.missing # {} => \A o \in Sent : offer[o] # NoOffer
  /\ clone' = [d \in Derived |-> [o \in Offers |->
       IF <<d, o>> \in request.missing THEN CloneOf(o) ELSE clone[d][o]]]
  /\ Finish
  /\ UNCHANGED <<source, target, offer, derived, jobs, others>>

ForeignKeyRaises ==
  /\ request.step \in {"clones", "missing"}
  /\ \E o \in Sent : offer[o] = NoOffer
  /\ Finish
  /\ UNCHANGED <<rows, jobs, others>>

(* Without confirmed offers every clone of the derived flyers is stale.    *)
DeleteStaleClones ==
  /\ request.step = "clones"
  /\ Sent = {}
  /\ clone' = [d \in Derived |-> IF d \in request.flyers
                                 THEN NoClones ELSE clone[d]]
  /\ Finish
  /\ UNCHANGED <<source, target, offer, derived, jobs, others>>

-----------------------------------------------------------------------------
(* update_flyer_targets: _replace_flyer_targets deletes every row and      *)
(* inserts the accepted ones, then the derived flyers follow.              *)

DeleteTargets(accepted) ==
  /\ AtRest
  /\ source.live
  /\ \A m \in accepted : Room(m)
  /\ target' = {}
  /\ request' = [Idle EXCEPT !.step = "replace", !.todo = accepted]
  /\ UNCHANGED <<source, offer, derived, clone, jobs, others>>

InsertTargets ==
  /\ request.step = "replace"
  /\ target' = request.todo
  /\ request' = IF Masters # {} \/ Public # {}
                THEN [request EXCEPT !.step = "unpublish", !.notify = TRUE,
                        !.offers = ReadMasters(offer)]
                ELSE Idle
  /\ UNCHANGED <<source, offer, derived, clone, jobs, others>>

(* Mutant of Removed: a target that is dropped keeps its derived flyer.    *)
RemovedNever == {}
Removed == {d \in Public : d[1] \notin request.todo}

(* _delete_removed_published_targets                                       *)
DeleteRemovedClones ==
  /\ request.step = "unpublish"
  /\ clone' = [d \in Derived |-> IF d \in Removed
                                 THEN NoClones ELSE clone[d]]
  /\ Ask("remove")
  /\ UNCHANGED <<source, target, offer, derived, jobs, others>>

DeleteRemovedFlyers ==
  /\ request.step = "remove"
  /\ derived' = [d \in Derived |-> IF d \in Removed
                   THEN Gone ELSE derived[d]]
  /\ clone' = [d \in Derived |-> IF d \in Removed THEN NoClones ELSE clone[d]]
  /\ Ask("targets")
  /\ torn' = torn \ {"extra"}
  /\ UNCHANGED <<source, target, offer, jobs, calendar>>

-----------------------------------------------------------------------------
(* _sync_flyer_validity: the source row, its offers, and per derived       *)
(* flyer its row and its clones.                                           *)

UpdateValidity(to) ==
  /\ AtRest
  /\ source.live
  /\ source' = [source EXCEPT !.to = to]
  /\ Ask("dates")
  /\ UNCHANGED <<target, offer, derived, clone, jobs, others>>

UpdateOfferDates ==
  /\ request.step = "dates"
  /\ offer' = [o \in Offers |-> IF offer[o] = NoOffer THEN NoOffer
                                ELSE [offer[o] EXCEPT !.to = source.to]]
  /\ request' = IF Public = {} THEN Idle
                ELSE [request EXCEPT !.step = "flyerDates", !.flyers = Public]
  /\ UNCHANGED <<source, target, derived, clone, jobs, others>>

(* Mutant of UpdateDerivedDates: only the clones get the new dates.        *)
KeepDerivedDates(d) ==
  /\ request.step = "flyerDates"
  /\ d \in request.flyers
  /\ request' = [request EXCEPT !.step = "cloneDates", !.flyers = @ \ {d}, !.current = {d}]
  /\ UNCHANGED <<rows, jobs, others>>

UpdateDerivedDates(d) ==
  /\ request.step = "flyerDates"
  /\ d \in request.flyers
  /\ derived' = [derived EXCEPT ![d].to = source.to]
  /\ request' = [request EXCEPT !.step = "cloneDates", !.flyers = @ \ {d}, !.current = {d}]
  /\ UNCHANGED <<source, target, offer, clone, jobs, others>>

UpdateCloneDates(d) ==
  /\ request.step = "cloneDates"
  /\ d \in request.current
  /\ clone' = [clone EXCEPT ![d] = [o \in Offers |->
       IF clone[d][o] = NoClone THEN NoClone ELSE [clone[d][o] EXCEPT !.to = source.to]]]
  /\ request' = IF request.flyers = {} THEN Idle
                ELSE [request EXCEPT !.step = "flyerDates", !.current = {}]
  /\ UNCHANGED <<source, target, offer, derived, jobs, others>>

-----------------------------------------------------------------------------
(* delete_flyer cascades from the source flyer to everything.              *)
DeleteSource ==
  /\ AtRest
  /\ source.live
  /\ source' = [source EXCEPT !.live = FALSE]
  /\ target' = {}
  /\ offer' = NoOffers
  /\ derived' = [d \in Derived |-> IF d \in Public
                   THEN Gone ELSE derived[d]]
  /\ clone' = [d \in Derived |-> NoClones]
  /\ UNCHANGED <<jobs, request, others>>

(* delete_flyer selects no flyer_kind, so that _source_flyer_required lets *)
(* a derived flyer pass.                                                   *)
DeleteDerived(d) ==
  /\ DeletesTargets
  /\ AtRest
  /\ d \in Public
  /\ derived' = [derived EXCEPT ![d] = Gone]
  /\ clone' = [clone EXCEPT ![d] = NoClones]
  /\ torn' = torn \cup {"copies", "job"}
  /\ UNCHANGED <<source, target, offer, jobs, request, calendar>>

(* The request raises, or the process dies, after any of its calls.        *)
RequestDies ==
  /\ Crashes
  /\ ~AtRest
  /\ Finish
  /\ torn' = torn \cup {"copies"}
       \cup {x \in {"extra"} : request.step \in {"replace", "unpublish", "remove"}}
       \cup {x \in {"job"} : request.notify /\ request.step \in {"targets", "enqueue", "unpublish", "remove"}}
  /\ UNCHANGED <<rows, jobs, calendar>>

-----------------------------------------------------------------------------
(* FlyerCleanupService.run selects the expired flyers once and deletes the *)
(* offers of one after the other.                                          *)

SourceId == <<SourceFlyer, 0>>
Expired == {d \in Public : derived[d].to < today}
             \cup {s \in {SourceId} : source.live /\ source.to < today}

SelectExpired ==
  /\ sweep = {}
  /\ SweepsInThread \/ AtRest
  /\ sweep' = Expired
  /\ UNCHANGED <<today, rows, jobs, request, swept, torn>>

SweepSource ==
  /\ SourceId \in sweep
  /\ offer' = NoOffers
  /\ clone' = [d \in Derived |-> NoClones]
  /\ sweep' = sweep \ {SourceId}
  /\ UNCHANGED <<today, source, target, derived, jobs, request, swept, torn>>

SweepDerived(d) ==
  /\ d \in sweep
  /\ clone' = [clone EXCEPT ![d] = NoClones]
  /\ swept' = swept \cup {d}
  /\ sweep' = sweep \ {d}
  /\ UNCHANGED <<today, source, target, offer, derived, jobs, request, torn>>

(* A deletion that fails is logged and its flyer passed over; a restart    *)
(* ends the whole cleanup.                                                 *)
SweepStops ==
  /\ Crashes
  /\ sweep # {}
  /\ \/ sweep' = {}
     \/ \E x \in sweep : sweep' = sweep \ {x}
  /\ UNCHANGED <<today, rows, jobs, request, swept, torn>>

Sweep == SweepSource \/ \E d \in Derived : SweepDerived(d)

NextDay ==
  /\ today < MaxDay
  /\ today' = today + 1
  /\ UNCHANGED <<rows, jobs, request, sweep, swept, torn>>

(* A cleanup that does not run beside the requests keeps them waiting.     *)
Serve == SweepsInThread \/ sweep = {}

RequestStep ==
  \/ \E o \in Offers : \/ CreateDraft(o) \/ UpdateOfferFields(o)
                       \/ UpdateProductFields(o) \/ DeleteClones(o) \/ DeleteOffer(o)
  \/ ConfirmOffers \/ ConfirmDrafts \/ EnqueueFlyerPublished \/ TargetsPublished
  \/ \E m \in Markets : UpdateTargetFlyer(m) \/ InsertTargetFlyer(m)
  \/ UpsertClones \/ InsertMissing \/ ForeignKeyRaises \/ DeleteStaleClones
  \/ \E accepted \in SUBSET Markets \ {{}} : DeleteTargets(accepted)
  \/ InsertTargets \/ DeleteRemovedClones \/ DeleteRemovedFlyers
  \/ \E to \in Day : UpdateValidity(to)
  \/ UpdateOfferDates
  \/ \E d \in Derived : UpdateDerivedDates(d) \/ UpdateCloneDates(d) \/ DeleteDerived(d)
  \/ DeleteSource \/ RequestDies

Next ==
  \/ Serve /\ RequestStep
  \/ SelectExpired \/ Sweep \/ SweepStops
  \/ NextDay

Spec == Init /\ [][Next]_vars

-----------------------------------------------------------------------------
(* The types of the variables.                                             *)
Step == {"idle", "product", "delete", "confirm", "targets", "enqueue", "clones",
         "missing", "replace", "unpublish", "remove", "dates", "flyerDates", "cloneDates"}
Request == [step : Step, notify : BOOLEAN, todo : SUBSET Markets,
            flyers : SUBSET Derived, current : SUBSET Derived, edited : SUBSET Offers,
            offers : [Offers -> OfferRow], missing : SUBSET (Derived \X Offers)]
TypeOK ==
  /\ today \in Day
  /\ source \in [live : BOOLEAN, to : Day]
  /\ target \subseteq Markets
  /\ offer \in [Offers -> OfferRow]
  /\ derived \in [Derived -> [state : {"none", "public", "deleted"}, to : Day]]
  /\ clone \in [Derived -> [Offers -> CloneRow]]
  /\ jobs \subseteq Derived /\ swept \subseteq Derived
  /\ request \in Request
  /\ sweep \subseteq Derived \cup {SourceId}

(* Whatever dies or races, what customers can see at a supermarket was     *)
(* confirmed by a manager and belongs to a flyer that is still published.  *)
ClonesAreConfirmed ==
  \A d \in Derived, o \in Offers : clone[d][o] # NoClone =>
    offer[o].kind = "master" /\ d \in Public

(* Whatever dies or races, a supermarket has at most one derived flyer of  *)
(* the source flyer: confirming again after a failure reuses its row.      *)
OneFlyerPerMarket == \A d, e \in Public : d[1] = e[1] => d = e

(* A fault may leave the copies behind the original ("copies"), derived    *)
(* flyers outside the targets ("extra") and flyers without a job ("job").  *)
(* The next confirmation repairs the first and the next change of the      *)
(* targets the second, wherever in a request the fault came.               *)

(* When no request is under way every derived flyer shows the confirmed    *)
(* offers of the source flyer with their current fields and dates, however *)
(* confirmations, edits, deletions, date changes and changes of the        *)
(* targets follow each other, unless a fault came after the last           *)
(* confirmation.  Only a cleanup may leave it with fewer.                  *)
MirrorsMasters ==
  AtRest /\ "copies" \notin torn =>
    \A d \in Public \ swept, o \in Offers :
      clone[d][o] = IF o \in Masters
                    THEN [version |-> offer[o].version, to |-> offer[o].to]
                    ELSE NoClone

(* The same for the dates of the derived flyers of the targets.            *)
FollowsDates ==
  AtRest /\ "copies" \notin torn =>
    \A d \in Public : d[1] \in target => derived[d].to = source.to

(* When no request is under way a published source flyer has a derived     *)
(* flyer in each of its targets and nowhere else, unless a fault has left  *)
(* one out, or a target that was taken away.                               *)
FollowsTargets ==
  AtRest /\ Public # {} =>
    /\ "copies" \notin torn => target \subseteq {d[1] : d \in Public}
    /\ "extra" \notin torn => {d[1] : d \in Public} \subseteq target

(* When no request is under way every derived flyer has its job, unless a  *)
(* request that publishes has ended between its targets and the last job,  *)
(* or a derived flyer was deleted on its own: what is published in their   *)
(* place is not announced.                                                 *)
JobsFollowFlyers == AtRest /\ "job" \notin torn => Public \subseteq jobs

(* docs/api.md:69, "La conferma di un volantino accoda un job idempotente  *)
(* flyer_published": when no request is under way every derived flyer has  *)
(* its job.                                                                *)
EveryPublicationEnqueued == AtRest => Public \subseteq jobs
=============================================================================
