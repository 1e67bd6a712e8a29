# GiroSpesa backend: a TLA+ model

This directory holds TLA+ specifications of the GiroSpesa backend (FastAPI over
Supabase Postgres), the TLC configurations that model-check them on small
instances, and theorems about them that TLAPS checks for every value of their
constants. Paths such as `services/notification_jobs.py` are relative to the
source tree; `PROJECT.json` maps every definition to the lines it models.

Contents: 1 the system, 2 the modules and the code, 3 the runs, 4 fairness,
5 proofs, 6 where code and documents disagree, 7 what is not modelled, 8 plan.

## 1. The system

One uvicorn process (`render.yaml`) serves the API. Nearly all its handlers are
`async def` functions that talk to Postgres through blocking calls, so with
`DB_DSN` set (as `docs/deploy-production.md` requires) a handler never awaits: a
request runs from its first call to its last without another request in
between. What does interleave with a request is work on other threads: the
extraction of a flyer (a FastAPI background task), the drains of the
notification queue, and two nightly cleanups. Every database call commits on its
own. There is no transaction around a handler, so a request that raises, or the
death of the process, leaves its first calls done and its last ones not.

| component | state | operations | talks to |
| --- | --- | --- | --- |
| notification queue, `services/notification_jobs.py` | `notification_jobs` | enqueue, reschedule, claim (one SQL statement, or select and update over REST), run, mark done / failed / dead, fan out to recipients | called by publication; calls delivery |
| delivery, `services/push_notify.py` | `app_notifications`, push subscriptions | look for an existing row, insert or refresh it, push | called by the queue and by the list handlers |
| inbox, `api/routers/notifications.py` | `app_notifications` | list, mark read, delete | shares rows with delivery and with the invites |
| flyer review and publication, `api/routers/flyers.py` | `flyers`, `flyer_targets`, `offers` | drafts, edit, confirm, targets, validity, delete | enqueues jobs; starts extraction |
| upload and previews, `api/routers/flyers.py`, `services/flyer_preview.py` | stored files, `flyers.file_hash`, `preview_path` | sign, store, complete, render, remove | shares `flyers` and `flyer_targets` with publication |
| flyer cleanup, `services/flyer_cleanup.py` | `offers` | delete the offers of expired flyers, every night | races with publication |
| answers of the provider, `services/extraction/providers/`, `normalizer.py`, `services/product_format.py` | `offers` | chunks, sparse pages, formats, variants, de-duplication | called by extraction |
| extraction, `services/extraction/service.py` | `flyers.status`, `extraction_metadata`, `offers` | fetch, chunks, persist, checkpoint, finish, handle errors | the Gemini provider; reads what publication writes |
| startup recovery, `services/extraction_startup_recovery.py` | `flyers.status` | put interrupted flyers in error, resume those with a checkpoint | starts extraction |
| list items, `api/routers/lists.py` | `shopping_lists.items`, a JSON column | add, patch, check, pin, remove, reset, remove purchased | shares the column with purchases and the cleanup |
| purchases, `api/routers/purchases.py` | `purchase_history`, `shopping_lists.items` | purchase, undo, summaries | |
| purchased items cleanup | `shopping_lists.items` | every night take out what was bought on an earlier day | races with the two above |
| list sharing, `api/routers/lists.py`, `services/repositories/lists_repository.py` | `list_members`, `list_invites`, `user_profiles.active_list_id` | invite, accept, decline, revoke, leave, remove, select | inbox |
| accounts, `api/routers/users.py` and the trigger `handle_new_user` | `auth.users` and what cascades from it | sign up, delete | sharing, inbox |
| list events, `services/list_sync.py` | LISTEN connections | publish, wait, stream | after every write of a list |
| offers of a list, `services/list_offer_visibility.py`, `services/deal_freshness.py` | pins of `shopping_lists.items` | project, report, clear stale | reads what publication and cleanup write |
| search, `api/routers/offers.py` | none | page by page, with or without a Comune | reads `offers` |
| push devices, `api/routers/push.py`, `services/push_notify.py` | `push_subscriptions` | subscribe, unsubscribe, sign out, remove devices that are gone | delivery |
| schedulers, `main.py` | none | drain each minute, cleanups each night, recovery at start | all of the above |
| edges | none | authentication, contact form, supermarkets, municipalities, analytics, PDF and image tools, administration scripts | |

What is hard, and what makes each component correct:

- **Queue.** Drains overlap (the scheduler's, a cron request, a second instance
  during a deploy), workers die, jobs are retried after they have delivered, and
  managers move a flyer while its job waits. Correct means that one worker at
  most executes a job, nobody is told twice or too early, settled jobs stay
  settled, and no job is forgotten.
- **Publication.** One source flyer is copied into a derived flyer per
  supermarket, and every confirmed offer into a clone per derived flyer, by long
  rows of separate calls that later requests repeat in part. Correct means that
  the copies agree with the original at rest, that nothing unconfirmed is ever
  shown, and that no supermarket gets the flyer twice, also after a request that
  ended half-way.
- **Upload.** An upload is a file, a row, its targets and a preview, written one
  after the other, and a client whose answer is lost completes it again. Correct
  means that no supermarket gets the same file twice and that every row has its
  file.
- **Extraction.** A run of many minutes keeps its progress in two places, the
  offers it has stored and the checkpoint that says so, while the process may
  restart, the provider may fail, and a manager may start another run. Correct
  means that a flyer that is done has the offers of every chunk, that a resumed
  run skips nothing, and that a run always ends in `done` or `error`.
- **Shopping list and purchases.** What is bought is written in the list and in
  the history, by two calls; members, undo and a nightly cleanup work on the same
  JSON column. Correct means that list and history agree, and that what leaves
  the list stays in the history.
- **Sharing.** Memberships, invites, the selected list and the inbox are four
  tables that each answer must bring into line. Correct means that nobody is
  shown a list of others, that an invite admits once, and that the inbox tells
  the truth about the invites.

- **Answers of the provider.** Chunks overlap in their products, sparse pages are
  asked for twice, runs repeat chunks, and units and spaces come in many
  spellings. Correct means that nothing found is lost and nothing stored twice.
- **List events.** A hint is published after the write, on one channel for all
  lists. Correct means that a client that loads when it is told to has the list.
- **Offers of a list.** Three different queries judge the same pins, for members in
  different areas, while offers expire. Correct means that they agree, and that
  nobody's current offer is cleared.
- **Search.** Each page is a request that loads, sorts, chooses copies and cuts again,
  while flyers and the caller's area change, and PostgREST returns a thousand rows
  at most. Correct means that the pages together show every offer that is loaded once,
  and the nearest copy.
- **Push devices.** A device changes accounts while senders with old rows run.
  Correct means that a device has one owner and a working one keeps its row.

## 2. Modules and code

| module | models | composed with |
| --- | --- | --- |
| `NotificationPromise` | the promise of the queue to a recipient, without jobs | refined by `NotificationQueue` |
| `NotificationQueue` | queue, delivery, the publishing requests as the queue sees them | |
| `FlyerPublication` | requests of flyer review, clones, targets, flyer cleanup | |
| `Extraction` | runs, provider, trigger, recovery, changes of the validity | |
| `FlyerUpload` | uploads, files, previews, targets and deletion of several source flyers | moves in `MCParts` |
| `ChunkOffers` | from the pages of a PDF to draft offers | moves in `MCParts` |
| `ShoppingList` | items, purchases, purchased items cleanup | moves in `MCParts` |
| `ListOffers` | the offers a list is pinned to, for each member | moves in `MCParts` |
| `ListEvents` | hints, a stream and its client | moves in `MCParts` |
| `OfferSearch` | the public search, page by page | moves in `MCParts` |
| `PushDevices` | subscriptions of devices, and the sender | moves in `MCParts` |
| `ListSharing` | accounts, members, invites, selection, inbox of invites | |
| `FlyerPublicationProofs`, `ListSharingProofs`, `ShoppingListProofs`, `FlyerUploadProofs`, `PushDevicesProofs` | theorems | extend their component |
| `NotificationQueueProofs` | theorems about the queue, and its refinement of `NotificationPromise` | extends `NotificationQueue` |
| `ExtractionProofs` | theorems about runs and about the rows they write | extends `Extraction`, `ChunkOffers` |
| `CustomerViewProofs` | theorems about what customers see | extends `ListEvents`, `ListOffers`, `OfferSearch` |
| `MCNotificationQueue`, `MCFlyerPublication`, `MCExtraction`, `MCShoppingList`, `MCListSharing`, `MCOfferSearch`, `MCChunkOffers` | symmetry sets, constraints and small inputs for TLC | extend their component, or give it inputs |
| `MCParts` | one instance of the seven parts above that share no variable | extends them |

**The grain of a step** is the same in every module: one action is one call that
writes, together with the reads around it. A handler that writes once is one
action; a handler of several calls keeps what it still has to do in a variable
(`request`, `publisher`, `task`, `run`) and takes an action per call. Between two
of them other threads move, and `RequestDies`, `Crash`, `Fail` or `Restart` may
end it. No other request comes between the calls of a handler, because handlers
do not await.

**NotificationQueue.** `job` is the table by idempotency key: `<<f, Parent>>` for
`flyer-published:{flyer}` and `<<f, u>>` for `flyer-published:{flyer}:{user}`.
`pass[w]` is how far a call of `run_pending` is (parents, then recipients) and
`task[w][k]` what it does with job `k`, including the attempts in the dictionary
it holds, which may be older than the row. `ClaimSql` is `_CLAIM_SQL`;
`SelectJobs` and `MarkProcessing` are `_claim_jobs_via_supabase`. The pool of
threads is `PoolSize`: recipients run concurrently, parents one by one.
`PersistNotification` contains the insert that fails and is only logged;
`MarkRaises` the pool thread whose last update raises. Time is a clock of ticks
with days and a ten o'clock; `NotifyAt` is `_flyer_notification_available_at`. A
crash of a request between the flyer's row and its job is `RequestDies`. `late` notes a
flyer whose dates have changed, until its parent job is rescheduled while no job of it
has begun.

**FlyerPublication.** One source flyer; `offer` its offers (drafts, or masters
once confirmed), `derived` the published flyers of each market, `clone` the
offers of those. Titles, prices and products of an offer are one `version`
number that an edit increases, and its dates the last day; a clone carries the
version and date it was made from, so that a forgotten clone shows. `request` is
the one handler under way with what it has read: the sets it iterates over and
the rows it will clone. `torn` says what a fault has broken and no request has
repaired since. `sweep` is the running cleanup with the flyers it has
selected. Deleting a flyer cascades over its rows as the migrations say, and an
insert for a deleted derived flyer violates its foreign key
(`ForeignKeyRaises`).

**Extraction.** One flyer; `meta` is the part of `extraction_metadata` that code
reads back, `offers` the stored drafts, `run` every run with what it holds in
memory. An error goes through `HandleError` (which reads the metadata again) and
`Settle` (which writes `done` or `error`). `StartChunk` and `StoredBefore` are
`_resume_state`, `ErrorMeta` is `_error_metadata`, `Finalizes` is
`_should_finalize_after_error`. `Age` is the passing of
`PROCESSING_RESUME_STALE_AFTER`, also while a run waits for the provider: a request may
then start a second run, which `overtaken` notes. The provider is an external part: chunk `k`
answers one of `Answers[k]`, or fails.

**ShoppingList.** `list` is the JSON column by item id, `rows` counts the rows of
`purchase_history` by item and user. A patch is a record of some fields of an
item, as the statements merge it. `update_list_item` refuses an empty list (its
aggregate is NULL), and both cleanups save what they had loaded. The nightly one is a
thread: `LoadLists` and `SaveItems` are steps of their own, with any requests in
between. `overwritten` notes the items that changed in between.

**ListSharing.** A list is named by its owner, because the trigger gives each
account one and no handler makes another for an account that has one. `late` is
the expiry of an invite, which nobody writes until the invite is answered.
Account deletion applies the cascades of the foreign keys and the
`ON DELETE SET NULL` of `active_list_id`.

**FlyerUpload.** `object` is the storage by path, a content stands for its hash,
and `uploading` is the request under way with the supermarkets that it has read.
`Conflicts` is `_duplicate_target_conflicts`. A source flyer and its derived ones
are named by pairs, so that one path serves them all, as in the code. Drafts,
clones and jobs are those of `FlyerPublication`; here a publication is the rows it
inserts.

**ChunkOffers.** A format has a kind, the set of fields it gives, how its unit is
spelled, and one amount in place of its numbers; `IsValid` and `FormatKey` are
`product_format.py` on these. A name is a sequence of words that may be spaced
badly. `Expand` makes products of variants; `PersistProducts` is
`_persist_products` with the keys of the rows already stored.

**ListOffers.** The window of an offer is `past`, `now` or `future` and moves with
`Midnight`. The three judgements, `ShownWithOffer`, `Freshness` and `StaleFor`, follow three
functions of the code, with a query each.

**ListEvents.** A hint names a list. `socket` holds what Postgres has sent,
`notifies` what the last poll has read and not handed out yet.

**OfferSearch.** Offers are small numbers with a shop, a source, a name and two
dates; `search` is the client with the offset of its next page. The query of an area
has no range (`offers.py:153`), so that PostgREST returns its first `RowLimit` rows
(`max_rows`, `supabase/config.toml:18`, 1000 there): `Loads` has the sets of rows
that it may return when names at the limit are equal. Where the database sorts by a
column with ties, `Results` has every order that agrees with it. Between two pages
`OffersChange` puts any other catalogue in the place of the offers, and `AreaChanges` another area
in that of the caller's, which every page reads again. Names are numbers, in one order: that
the collation of the database and Python's `casefold` may order two spellings
differently is left out.

**PushDevices.** `subscriptions` is a set of pairs; `sender` holds the devices it has
loaded and those it has found gone. Writing a row is a step after the removal of
other owners, as in the two handlers.

**MCParts** lets TLC check seven modules in one run: a behaviour belongs to one part
while the others rest in their initial states. The parts share no state in these
modules, so that nothing is lost: what a behaviour of all of them shows of one part
is a behaviour of that part alone.

**History variables** (`swept`, `torn`, `saved`, `excused`, `used`, `reused`, `told`,
`halfway`, `again`, `deleting`, `silent`, `silenced`, `dawned`, `moved`, `first`,
`replaced`, `asked`, `late`, `overtaken`, `recounted`, `overwritten`) record what happened
for a property; no guard reads them.

## 3. The runs

`direct`, `fair` and `crash` use `MCNotificationQueue`; `publication` and `unannounced`
`MCFlyerPublication`; `resume`, `outcome` and `overtaken` `MCExtraction`; `sharing`
`MCListSharing`; `parts` `MCParts`; `cleanup_race` `MCShoppingList`; `nearest`
`MCOfferSearch`. `crash`, `unannounced`, `overtaken`, `cleanup_race` and `nearest` are
expected to find a violation (section 6).

| run | instance | distinct states | shows |
| --- | --- | --- | --- |
| `direct` | 1 flyer, 1 user, 2 workers, 2 attempts, days of 2 ticks, clock to 4, faults and crashes | 611,120 | Two overlapping drains that claim by `_CLAIM_SQL`, while managers change dates: `ClaimExclusive`, `NoDuplicateDelivery`, `NothingBeforeTen`, `SettledForever`; the strengthening `QueueInv` of the proofs; `PromiseKept`, the refinement of `NotificationPromise` |
| `fair` | the same with the REST claim, faults, no crash, no change of dates, clock to 3 | 94,784 | `EveryJobIsServed`: although two drains may take one job from a stale read, no job stays waiting or running |
| `publication` | 2 markets, 1 offer, 2 flyers per market, 1 edit, 2 days, every fault switched on | 666,712 | In every state `ClonesAreConfirmed` and `OneFlyerPerMarket`; at rest, once the request that repairs a fault has run, `MirrorsMasters`, `FollowsDates`, `FollowsTargets`, `JobsFollowFlyers` |
| `resume` | 3 chunks, 5 runs, any call may fail or outlast the staleness threshold, restarts, 1 change of dates | 29,247 | Up to the first request that overtakes a run: `CountsOffers`, `DoneUnlessOvertaken`, `ResumesAfterCheckpoint` |
| `outcome` | 2 chunks, 3 runs that may overlap, answers with invalid and empty results, slow providers, restarts | 414,163 | `DoneIsComplete`, `OneLiveRun`, `ExtractionInv`, and `Settles` |
| `sharing` | 2 accounts that come and go, 2 invites, requests end half-way | 743,984 | `ShownListIsMine`, `ActiveIsMine`, `InviteJoinsOnce`, `InboxFollowsInvites`, `SettledInvitesStay`, and the strengthening `SharingInv` of the proofs |
| `parts` | seven parts in turn, below | 724,441 | eleven invariants and two action properties, below |

The parts of `parts`:

| part | instance | properties |
| --- | --- | --- |
| `ShoppingList` | 2 members, 2 items, 1 offer, 2 days, requests end half-way, the nightly cleanup beside them | `PurchasedHasRow`, `SpendingMatchesList`, `HistoryKept` |
| `ListEvents` | 2 lists, 3 changes of each | `FollowsTheList` |
| `ListOffers` | 2 pins, 2 offers in 2 supermarkets, 2 members | `ViewMatchesFreshness`, `ClearsOnlyStale` |
| `FlyerUpload` | 2 paths, 2 contents (one of them too large), 2 supermarkets, 2 source flyers | `OneSourcePerTarget`, `FilesAreKept` |
| `ChunkOffers` | 3 pages in chunks of 2, 4 products, answers of up to 3, 2 runs | `OneRowPerProduct`, `NothingFoundIsLost` |
| `OfferSearch` | 4 offers, 2 of which may be clones, 2 supermarkets, pages of 2, 3 rows a query, 2 days, 5 areas, any change between pages | `PagesCoverSearch` |
| `PushDevices` | 2 accounts, 2 devices | `OneOwnerPerDevice`, `LiveDevicesKeepRows` |

The types of the components are theorems, or conjuncts of the invariants that are
(section 5).

**Why these bounds are enough.** *Queue:* what can go wrong between claims needs
two workers and one job; a parent and a child job exist for one flyer and one
user, and two attempts give one retry and one death. The clock reaches past the
validity of every window, and two windows (from the start, or from the second day) are
what a change of dates needs. The run `fair` takes the REST path because
`RefreshNotification` can only be reached there: by `UntoldUntilInsert` a job
that is executed under `_CLAIM_SQL` has delivered nothing. *Publication:* two
markets are needed to see a set of targets change in part; `Copies` is 2 because a
market that loses its derived flyer and becomes a target again gets a second row.
The constraint `FewFlyers` keeps to two derived flyers, and to one of unedited
offers once a day has passed. Offers of one flyer do not influence each other in
the handlers, which is why one is enough. *Extraction:* three chunks have a
first, a middle and a last one, and five runs allow four interruptions; the constraint
`NotOvertaken` ends `resume` where its properties excuse what comes (`outcome` goes on,
to three runs at once). *Shopping:*
two members are needed for undo by somebody else, two items for the empty-list
case and for saving what was read about the other item; `FewExcused` keeps to one
item about which list and history may disagree, and `PlainSweeps` ticks nothing off
while a cleanup runs, since what is bought does not depend on it. *Sharing:* two invites
of the same pair are needed to see a removed member come back; a third account
adds states and no new kind of step, since every handler concerns one list and
one other user. `MaxHalfway`, a constraint, bounds the users and invites that
interrupted requests have left behind: with two, one such request meets another.
*Upload:* two source flyers with one file and two supermarkets show a conflict in
part; `FewFiles` allows two derived flyers, previews and deletions together.
*Chunks:* the second chunk is shorter than the first; a sparse page, the same
product in two spellings, a product with variants and one whose format cannot be
read fit into one answer; the second run repeats a chunk with another answer.
*Search:* four offers make two pages, or three with one that starts or ends on the
day in between; three rows a query cut off the fourth, with equal or other names at
the limit; areas have no supermarket, one at distance 0, or two, ordered
either way or equal. `NotMoved` follows no search beyond the first change that its property
excuses. *Events:* three changes leave hints in the socket, in
`notifies` and unsent at once. *Devices, offers of a list:* two of each exchange
their places.

**What the properties excuse.** `publication` runs with every switch on (requests
end half-way, an edit names only one of name and brand, so that its second call
names the dropped column `draft_product_key` and raises, a derived flyer is
deleted by `DELETE /flyers/{id}`, the cleanup runs beside the requests). A fault is
noted in `torn` until the request that repairs it: the next confirmation for the
clones, the next change of targets for superfluous derived flyers. A missing job is
never repaired: `unannounced` is about that. `MirrorsMasters` excuses also flyers
that a cleanup has emptied.

`NothingBeforeTen` excuses flyers whose dates change after a job has begun (`late`):
a parent that was claimed, or recipients that have their jobs, are not rescheduled.

A provider call may take 8 minutes (`gemini.py:29`) while processing counts as stale
after 5 (`flyers.py:51`), so that requests may overtake a live run.
Both runs of the extraction contain this. `ExtractionInv`, `DoneIsComplete` and
`Settles` hold whatever overlaps. `OneLiveRun`, `DoneUnlessOvertaken`,
`ResumesAfterCheckpoint` and `CountsOffers` speak of a flyer until a request overtakes one of
its runs, and say that nothing else (no failure, restart or recovery, whatever their
order) brings a second run; `overtaken` shows what comes
afterwards. `CountsOffers` is checked for answers in which every product belongs
to one chunk, because `_persist_products` counts again what it finds again, and it
excuses `recounted` flyers: a run that ends after the checkpoint of its last chunk,
before the flyer is done, leaves no next chunk, and `_resume_state` starts over at the
first chunk with the count of all of them (`service.py:365`), so that every
product is counted twice. No document promises otherwise, but `products_count` is
then wrong.

The purchased items cleanup is a thread beside the requests, in `parts` as in the code.
What it writes back may undo a purchase or bring back an item that was bought:
the three properties of `ShoppingList` excuse the items in `overwritten`, those that
changed between its two calls, and an old one that it removes while its undo is under way;
`cleanup_race` shows such a case. All other items,
before, during and after a cleanup, must agree with the history. `SpendingMatchesList`
excuses also items bought twice, undone by another member or half-way, and
`ActiveIsMine`, `InviteJoinsOnce` and `InboxFollowsInvites` what a request that
ended half-way was about: after one of these the program really is in such a
state.

`FilesAreKept` excuses a path completed twice, whose second completion is refused and
removes the file of the first, and the path of a flyer whose
deletion has begun. `FollowsTheList` excuses hints that wait in
the connection and requests that ended before their hint: it says that a client that
is behind has been told or has a hint on its way, not that a hint which waits in
`connection.notifies` is handed out. `LiveDevicesKeepRows`
excuses the other devices of a user who signs out on one, since that removes them
all. `OneRowPerProduct` is about formats that can be read.

`PagesCoverSearch` is about the offers that the queries load: with a Comune those behind
the row limit are on no page, however many pages are asked for, and nothing
tells the client that there are more. It is about searches during which neither day nor
offers nor area change, because an offset counts in the results of an earlier request, and
whose queries load the same each time (`SameEachTime`): offers of one name may not
stand on both sides of the row limit, and without a Comune all names must differ,
because the database sorts by name alone.

`CHECK_DEADLOCK FALSE` is set for the extraction runs (no run left to start), for
`sharing` (all accounts deleted), and for `parts` and `nearest` (a search or the last
run of an extraction is over): there the system may stop. Elsewhere deadlock is
checked.

The bounds that are not of the system are `MaxNow`, `Copies`, `MaxEdits`, `MaxDay`,
`MaxRuns`, `MaxDates`, `MaxRows`, `MaxChanges`, `MaxSources`, `MaxFound`, `MaxAgain`,
`MaxTries` and `LastDay`, each in a guard of the action that would exceed it and
declared as a bound, and the constraints `FewFlyers`, `FewHalfway`, `FewFiles`,
`FewExcused`, `PlainSweeps`, `NotMoved` and `NotOvertaken` of the MC modules.
(`RowLimit` is a setting of PostgREST, `MaxAttempts` a column.)

## 4. Fairness

`NotificationQueue!FairSpec` assumes that the clock ticks, that the scheduler
starts a pass (it does so each minute, `main.py`) and that a pass and its tasks
go on. There is no fairness for requests, faults, crashes or the owner of an
inbox. A fault may come every time: the number of attempts is what ends it.
`Extraction!FairSpec` assumes only that a thread goes on while the process
lives; `Restart` is unfair and bounded by `MaxRuns`. Both are weak fairness of
steps which stay enabled until they are taken, as for a thread that is never
blocked for ever. `Settles` is checked with failing providers and restarts and
without failing database calls: when the write of the outcome itself fails, the
flyer stays in `processing` until the next start.

## 5. Proofs

The eight proof modules are checked to the last leaf without facts taken on trust,
from the named assumptions of the components (`QueueAssumption`,
`PublicationAssumption`, `ExtractionAssumption`, `ChunkAssumption`,
`SharingAssumption`, `ListAssumption`, `UploadAssumption`, `DealAssumption`,
`EventsAssumption`, `SearchAssumption`, `DevicesAssumption`), which TLC evaluates on
every run. Every safety property that a passing run checks is also a theorem. None
assumes that calls are quick, that nothing fails or that a cleanup waits. Three kinds of
hypothesis remain and are named below: the path of the claim (`DirectPostgres`, for the
queue), that a flyer is a PDF, and how a provider answers (`OneChunkEach`, for
`CountsOffers`).

*Type correctness* (`TypeCorrect` of four components, `ListTypes`, and conjuncts of
`UploadInv`, `DealsInv`, `EventsInv`, `SearchInv`, `LostInv` and `DevicesInv`): for
every number of flyers, markets, users, workers, attempts, chunks, runs, accounts,
invites, items, files and devices, and for every setting of the switches.

*The claiming protocol.* `ClaimExclusive`, `NoDuplicateDelivery` and
`FailedIsRetryable` are not inductive. That a retry does not push again depends on
where a job may fail: the code has no step after a delivery that raises and is
retried, because the insert swallows its failure and the push is not retried.
The strengthening `QueueInv` says this: the holder of a job knows its attempts
(`HoldersKnowTheJob`); a job that waits, or is executed but not past its insert,
has delivered nothing (`UntoldUntilInsert`); attempts are zero until a claim
(`AttemptsMatchStatus`). `QueueInvariant` proves it inductive for the path of
`_CLAIM_SQL` (`DirectPostgres`, an assumption of the theorems), with one lemma
per action. From it follow `ClaimsAreExclusive`, `DeliveredAtMostOnce`,
`FailedJobsAreRetryable` and the action property `SettledJobsStay`. On the REST
path the first two do not hold, since two drains can take the same job.

*Ten o'clock.* That a worker holds a job before its hour would be harmless if
something else kept it from delivering, so `NothingBeforeTen` is not inductive.
`HourInv` says that a job exists only for a published flyer, that it has come to its
hour unless it is a parent that waits for it, and that work on it or a delivery of it
means the same (`OnTime`), where a flyer in `late` counts as come to its hour. A reschedule
takes a flyer out of `late` only when its parent waits, nobody has read it and no
recipient has a job: then `RescheduledOnTime` finds the new hour in the row and
nothing else to hold back. `NobodyHearsBeforeTen` holds on both paths of the claim,
with every fault and every change of dates.

*Publication.* `MirrorsMasters`, `FollowsDates`, `FollowsTargets` and
`JobsFollowFlyers` speak of states at rest after rows of calls that may end anywhere,
while the cleanup deletes beside them. `PublicationInv` says for every step of every
request what is already right and what the request still owes. `RequestFits` relates
the step to the sets the handler iterates over. `SentAreMasters`: the rows it clones
are those of the table, unless the cleanup has emptied it, because no other request
runs. `TargetsCovered`, `NoneBeside` and `Announced` count a target whose turn has
not come, or a flyer whose job is about to be queued, with those that have theirs.
`DatesFollow` and `ClonesMirror` leave out the derived flyers that a change of dates or
a cloning has not reached. Each speaks only while the fault it would not survive is
not in `torn`, and must become true again where a handler takes the fault out of it:
there the proof shows that a confirmation after a torn one repairs every
clone, and that a missing job is the one fault that stays. `PublicationInvariant`
has a lemma per action, with every fault allowed; the six properties of
`publication` follow from it at rest.

*Checkpoints.* `DoneIsComplete` needs to know what each copy of the metadata
promises. `ExtractionInv` says that every checkpoint, in the row or in the memory
of any run, counts only chunks whose offers are stored (`Covered`), and that a
run has stored everything before its chunk (`RunCovered`). Since chunks once
stored stay stored, an outdated checkpoint is still true: so the invariant holds
for runs that overlap, fail anywhere or are killed, and `DoneMeansComplete` needs
none of the assumptions about staleness that `OneLiveRun` rests on.

*One run at a time.* `SoloInv` says that the flyer is in `processing` while a run lives,
except between the write of its outcome and its end (`Solo`, `Late`) or while a resumed
run is queued; that a checkpoint names the chunk after the last one completed
(`Contiguous`); and that a live run asks for the chunk after the one in the row. It
holds until a request overtakes a run: `ApartInv == overtaken \/ SoloInv` is inductive
without any assumption on providers or requests, since every other way to a second
run (an error, a kill, the recovery, a request in the wrong moment) is excluded by the
state of the flyer. `FlyersHaveOneRun`, `RunsGoOnAfterCheckpoint` and, for PDFs,
`DoneFlyersStay` follow, restarts and failures included. An image has no checkpoint,
by which `_should_finalize_after_error` could tell that it is complete.

*The count.* `CountInv` adds that every checkpoint and every run has counted exactly
the products of the chunks before it (`Counted`, `Counts`), and that metadata of all
chunks names no next one. It holds until a run is overtaken or begins at the first chunk
with products counted; a kill, the recovery and a resumed run preserve it. `DoneFlyersCountOffers`
follows. Its hypothesis is that a chunk is answered with the same products each time, which no
other chunk has (`OneChunkEach`); section 3 says what that excludes.

*Rows.* The key of a row is that of its product however it is spelled, and no
two rows have one key (`KeysAreUnique`): so `ProductsHaveOneRow`. `NothingIsLost`
follows a product of the first answer from step to step. `LostInv` says that until
the rows are written it is among the products of the chunk, unless its page was
replaced (`KeepsFirst`), and that a run is on the chunk after the checkpoint, whose
earlier pages have all been asked for; `ChunksCover` that the chunks leave out no
page, for any sizes. That expansion, filter, de-duplication and insertion each
keep the name and brand of a product with a name and a price are the lemmas `CandidateMembers`,
`NormalizedMembers`, `DeduplicatedMembers` and `InsertedMembers`. They rest on
`FlattenMembers`, what the flattening of a sequence of sequences contains.
As the induction theorems of the library take operators, it is proved by the least
number for which it would fail, which exists because `<` is well-founded
(`LeastOf`).

*The refinement.* `QueueKeepsPromise` proves that the queue implements
`NotificationPromise` on the path of `_CLAIM_SQL`. The mapping takes inbox rows,
pushes and ended jobs of recipients to `stored`, `pushed` and `closed`. Claims,
retries, crashes and the fan-out are stutters; `QueueInv` gives the guards of
`Store`, `Push` and `Close` in the states in which a worker delivers or ends.

*Sharing.* The four invariants of `ListSharing` speak of states at rest, or of what
a reader computes, and none is inductive. `SharingInv` adds what holds between
the calls of a request: who owns what (`OwnersOwn`, which is why a removal never
takes an owner's own list), what a request has found and still relies on
(`RequestKnows`: the invite it accepts is still pending), and for each property
the request that is about to repair it (`SelectedIsMine`, `UsedIsSettled`,
`InboxIsRevised`). The types alone are not inductive either, since the foreign keys in
`TypeOK` depend on `RequestKnows`; `IInv` is their conjunction, with one lemma per
action. It yields `NobodyIsShownListsOfOthers`, `SelectedListsAreMine`,
`InvitesAdmitOnce`, `InboxTellsTheTruth` and `SettledInvitesAreKept`.

*List and history.* `ListTypes` needs one fact that is not a type, that the patch under
way fits its step (`PatchFits`): a purchase must set buyer and day together. `HistoryInv`
says for each half of a purchase or an undo what the other half still owes (`HalfWay`),
that every other item agrees with its history (`OthersMatch`), that what a request
or a cleanup will write back is what the list says, or the item is one that the
cleanup will write over (`CopiesHold`), and that an id never drawn has no history
(`FreshIds`). The cleanup reads and writes between any two calls of a request:
`SaveItemsStep` shows that it leaves every item outside `overwritten` as the history has it, or
takes it off the list. `BoughtItemsHaveRows`, `SpendingMatches` and `HistoryIsKept` follow
from `Spec`, without hypotheses.

*Uploads.* That no supermarket has one file from two source flyers depends on what the
request under way has found free and will write: `HoldsApart` counts its supermarkets
(`RequestHasFlyer` names its flyer) with those that are targets or published, and
`DeadHoldNothing` says that a deleted row left none behind. `NoDuplicateTargets` and
`FilesStay` hold wherever requests end.

*Offers of a list.* `ViewAgreesWithReport` follows from the types alone, for every
state. `OnlyStaleIsCleared` needs `StaleIsStillStale`: what `clear_stale_offers` has read
stays stale until it writes, because windows only move forward and requests wait,
except for an offer that dawns meanwhile.

*List events.* `EventsInv` says why a client with an old version will know: it has
been told, or the change is not published yet, or a hint is in the socket or in
`notifies` (`OnTheWay`), or its request ended before the hint. `ClientsFollowTheList`
follows for any number of lists and changes.

*Search.* `SearchInv` says that, while nothing has moved, the pages shown so far are the
first `offset` results of every order that the sort allows, of every set of rows that the
query may load. For this `Results` must have one element: with a Comune the sort by name and
id is total on the one set that `SameEachTime` leaves, and without one
`SameEachTime` makes the sort by name total. Two sequences of the same set in one
strict order are equal (proved by the least place where they differ). The offers of a set
that is loaded have a representative among the copies, the least by distance,
supermarket and id. `SearchPagesCover` then holds for every catalogue, area, page size and
row limit.

*Devices.* The row of a device is written by the second call of a request, and deleted
by a thread that pushed long before. `ClaimIsFree` says that between the two calls
nobody has a row for the device, and `StaleIsGone` that what a sender will delete is
gone for good. `DevicesHaveOneOwner` and `WorkingDevicesKeepRows` follow.

*Only model-checked:* liveness (`EveryJobIsServed`, `Settles`), as fairness and
ENABLED are beyond the prover. What the hypotheses leave out is false of the code or not
decided: exclusive claims over REST, and `DoneUnlessOvertaken` for images, have
counterexamples.
What fails in section 6 is shown by TLC alone. The modules have no
recursive operators; the flattening of sequences and the sorts of the community
modules are reached by the inductions described above.

## 6. Where code and documents disagree

Found while modelling, each with a run that shows it:

- `crash`: a worker that dies after its claim leaves the job in `processing`,
  from which nothing claims (`notification_jobs.py:268`). The module calls the
  jobs durable, and `docs/jobs.md:9` has them retried until `dead`.
- `unannounced`: the job is queued only by the call that inserts the derived
  flyer, after the insert. When the request ends in between, confirming again
  finds the flyer and queues nothing (`flyers.py:1961`, `docs/api.md:69`).
- `overtaken`: processing counts as stale after 5 minutes, and one provider call
  may take 8. Two runs then share the flyer, and the failure of one puts a flyer
  that is done in `error` (`service.py:963`).
- `cleanup_race`: the purchased items cleanup saves the items as it had loaded
  them, so what a member changed in between is undone (`docs/jobs.md:8`).
- `nearest`: `offer.get("distance_km") or float("inf")` takes a distance of 0, that of
  a supermarket in the caller's own Comune, for an unknown one, so that the copy of
  a farther supermarket is shown (`offers.py:55`, `README.md:21` of the repository).

Behaviour worth knowing that is in the models without a run of its own:

- The insert into the inbox may fail and is only logged, while `docs/jobs.md:21` has it
  always written.
- A flyer moved to later dates after its parent job was claimed is never announced:
  no job of it is rescheduled any more, the jobs find it not eligible and end
  (`docs/jobs.md:9` has jobs not yet delivered rescheduled).
- Undo by a member who is not the buyer leaves the row of the buyer.
- An acceptance that ends between the member row and the status leaves an invite
  that admits again.
- A running extraction stores the dates it read at its start.
- With a Comune the search shows nothing behind the first `max_rows` rows of its query,
  which are counted before copies are dropped (`offers.py:153`), and has no page after
  them.
- Of a flyer whose parent job has failed after creating some recipient jobs, or is claimed,
  a move to later dates does not hold back those recipients: they hear before ten o'clock
  of the new first day, or never.
- An upload completed twice loses its file: the second completion is refused because of the
  flyer of the first, and removes the file they share (`flyers.py:1375`).
- An image that is done goes to `error` when its notification raises, or the answer to
  the update that makes it done is lost.
- A run that is killed between its last checkpoint and the end of the extraction is
  followed by one that starts at the first chunk, and `products_count` is doubled.
- Of several hints that one poll reads, the first is handed out; the others wait in
  `connection.notifies` until the socket is readable again, while `docs/flows.md:94`
  has members see the list in real time.
- Signing out on one device deletes the rows of all devices of the user.
- Within a chunk, products of one name and brand are merged whatever their format;
  across chunks they are kept apart. A format label that cannot be read fails the
  whole chunk.
- Without a Comune the search sorts by name alone, so that offers of equal names may
  come twice or not at all over the pages.

Seen beside the models: `docs/api.md:57` has clear-stale-offers make manual items, but
the item keeps its source "offer"; flyers are compared with the UTC date
(`flyers.py:217`, `flyers.py:1147`, `flyers.py:1200`) and offers with the date of Rome.

## 7. Not modelled

- The REST path of the list handlers (development without `DB_DSN`), where they
  await between reading and writing. The REST path of the queue is modelled.
- Names, quantities, units and categories of items, and the merge of quantities
  beyond the fact that the item is not added again.
- Listings and filters by text and category, which read only; the access rules of
  managers; prices that changed.
- Image and PDF tools, the text of prompts, the call to the provider; web-push and FCM
  transports. Flyers that are images have no chunks.
- Row-level security: the backend connects as the service role.
- Contact requests, supermarkets and municipalities: a handler validates and writes
  one row or reads some; nothing another component reads is changed by steps.
- Authentication, configuration, connection pool, logging, analytics: they keep
  no state that a modelled handler reads. A pool without connections is a call
  that fails.
- Administration scripts: run by hand, once.
- Two instances of the process at once, except for the queue, whose workers may
  belong to different processes.

`PROJECT.json` lists every component with its status, and the hazards with the
property that covers each, or why none does.

## 8. Plan

Built so far: the queue, publication and extraction, lists, purchases and sharing, and
then upload, the answers of the provider, list events, the offers of lists, search and
devices; then the proofs, which now state every safety property of the runs. Next:

1. **ExtractionPromise**: what a manager is promised by an extraction (pending,
   in progress, done with all chunks, or error with a point to go on from), with
   `Extraction` as its implementation until a run is overtaken.
2. **Publication and extraction composed**: drafts arrive from a run while the
   manager confirms and moves the dates.
3. A statement of what a cleanup may delete, for requests that move the dates
   beside it, and of what is owed to the recipients of a flyer that moves after its
   jobs were claimed.
