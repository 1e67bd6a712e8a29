------------------------------ MODULE Extraction ------------------------------
(***************************************************************************)
(* Extraction of the offers of one flyer:                                  *)
(* services/extraction/service.py with its Gemini provider, the request    *)
(* that starts it (trigger_extraction) and the recovery of interrupted     *)
(* extractions at startup.                                                 *)
(*                                                                         *)
(* A run extracts a PDF chunk by chunk, stores the offers of every chunk   *)
(* as drafts and then a checkpoint in flyers.extraction_metadata; after an *)
(* error or a restart a later run goes on from the checkpoint.  An image   *)
(* is one payload without checkpoints.  Runs are threads: an action is one *)
(* call to the database or to the provider, so that runs, requests and     *)
(* restarts come in between, and any call may fail.                        *)
(***************************************************************************)
EXTENDS Integers, FiniteSets

CONSTANTS
  Pdf,          \* the flyer is a PDF, otherwise an image
  Chunks,       \* number of chunks of the file
  Products,     \* what the provider can find, by offer_key and format_key
  Valid,        \* the products that have a price after normalisation
  Answers,      \* chunk -> the sets of products the provider may answer
  MaxRuns,      \* bound: runs that can be started
  MaxDates,     \* bound: changes of the validity of the flyer
  Failures,     \* calls to the database or the storage may fail
  Restarts,     \* the process may restart
  SlowProvider, \* a chunk may take longer than PROCESSING_RESUME_STALE_AFTER
  EagerRequests \* a request may come before the resumed runs have started

ASSUME ExtractionAssumption ==
  /\ {Pdf, Failures, Restarts, SlowProvider, EagerRequests} \subseteq BOOLEAN
  /\ Chunks \in Nat \ {0}
  /\ ~Pdf => Chunks = 1
  /\ MaxRuns \in Nat /\ MaxDates \in Nat
  /\ IsFiniteSet(Products)
  /\ Valid \subseteq Products
  /\ Answers \in [1 .. Chunks -> SUBSET SUBSET Products]

VARIABLES
  status,   \* flyers.status
  meta,     \* flyers.extraction_metadata
  count,    \* flyers.products_count
  stale,    \* flyers.updated_at is PROCESSING_RESUME_STALE_AFTER ago
  dates,    \* validity of the flyer: how often it was changed
  offers,   \* rows of offers: product -> validity it was stored with
  editing,  \* a change of the validity has not reached the offers yet
  run,      \* the runs and what they hold in memory
  saved,    \* history: the chunks whose answer a run has stored
  overtaken, \* history: a request has started a run beside another one
  recounted \* history: a run has begun at the first chunk with products counted

vars == <<status, meta, count, stale, dates, offers, editing, run, saved,
          overtaken, recounted>>
flyer == <<status, meta, count, stale>>
history == <<overtaken, recounted>>
rest == <<dates, editing, history>>

Chunk == 1 .. Chunks
Runs == 1 .. MaxRuns
NoRow == -1

(* The keys of extraction_metadata that the code reads back: the stage,    *)
(* last_completed_chunk, next_chunk_index (0 is null or absent),           *)
(* partial_products_count, products_found and resume_available.            *)
NoMeta == [stage |-> "none", last |-> 0, next |-> 0, partial |-> 0, found |-> 0,
           resume |-> FALSE]

(* A run: its next call, the chunk it is at, runtime.products_saved_count, *)
(* the number of products the provider has returned to it, the answer not  *)
(* stored yet, the chunk of a PdfChunkExtractionError (0: another error),  *)
(* and the validity and the metadata it has read.                          *)
Unused == [at |-> "unused", chunk |-> 0, stored |-> 0, raw |-> 0, answer |-> {},
           failed |-> 0, dates |-> 0, meta |-> NoMeta]
Ended == [Unused EXCEPT !.at = "ended"]
Live(r) == run[r].at \notin {"unused", "ended"}

Init ==
  /\ status = "pending"
  /\ meta = NoMeta
  /\ count = 0
  /\ stale = FALSE
  /\ dates = 0
  /\ offers = [p \in Valid |-> NoRow]
  /\ editing = FALSE
  /\ run = [r \in Runs |-> Unused]
  /\ saved = {}
  /\ overtaken = FALSE
  /\ recounted = FALSE

-----------------------------------------------------------------------------
(* Who starts a run.                                                       *)

Fresh(r) == run[r] = Unused /\ \A q \in Runs : run[q] = Unused => r <= q
Schedule(r, at) == run' = [run EXCEPT ![r] = [Unused EXCEPT !.at = at]]
Move(r, at) == run' = [run EXCEPT ![r].at = at]
Resumable == meta.last > 0 /\ meta.next > 0
ResumeQueued == \E r \in Runs : run[r].at = "resume"

(* Mutant of StaleProcessing: updated_at is not looked at.                 *)
AnyProcessing == status = "processing" /\ Resumable

(* _can_resume_stale_processing                                            *)
StaleProcessing == status = "processing" /\ Resumable /\ stale

(* The two ways to a second run: a request finds the flyer stale although  *)
(* its run is alive, which waits for the provider, or in error although a  *)
(* resumed run is queued.                                                  *)
Overtakes == \E q \in Runs : Live(q) /\ (stale \/ run[q].at = "resume")

(* trigger_extraction *)
Trigger(r) ==
  /\ Fresh(r)
  /\ ~editing
  /\ EagerRequests \/ ~ResumeQueued
  /\ status \in {"pending", "error"} \/ StaleProcessing
  /\ status' = "processing"
  /\ stale' = FALSE
  /\ Schedule(r, "fetch")
  /\ overtaken' = (overtaken \/ Overtakes)
  /\ UNCHANGED <<meta, count, offers, saved, dates, editing, recounted>>

(* The process restarts: every thread is gone, and lifespan runs the       *)
(* startup recovery and queues the resumed runs before it serves.          *)
Restart ==
  /\ Restarts
  /\ editing' = FALSE
  /\ LET killed == [r \in Runs |-> IF Live(r) THEN Ended ELSE run[r]]
     IN IF status = "processing"
        THEN /\ status' = "error"
             /\ meta' = [meta EXCEPT !.resume = Resumable,
                                      !.stage = IF @ = "none" THEN "empty" ELSE @]
             /\ stale' = FALSE
             /\ IF Resumable
                THEN \E r \in Runs : Fresh(r) /\ run' = [killed EXCEPT ![r].at = "resume"]
                ELSE run' = killed
        ELSE run' = killed /\ UNCHANGED <<status, meta, stale>>
  /\ UNCHANGED <<count, dates, offers, saved, history>>

(* _resume_processing_flyer, which does not look at the status again.      *)
StartResume(r) ==
  /\ run[r].at = "resume"
  /\ status' = "processing"
  /\ stale' = FALSE
  /\ Move(r, "fetch")
  /\ UNCHANGED <<meta, count, offers, saved, rest>>

-----------------------------------------------------------------------------
(* A run.                                                                  *)

(* _fetch_flyer *)
Fetch(r) ==
  /\ run[r].at = "fetch"
  /\ run' = [run EXCEPT ![r] = [@ EXCEPT !.at = "begin", !.meta = meta, !.dates = dates]]
  /\ UNCHANGED <<flyer, offers, saved, rest>>

(* Mutants of StartChunk and StoredBefore: metadata is not carried over.   *)
FirstChunk(m) == 1
NothingBefore(m) == 0

(* _resume_state: the first chunk of a run, and the products that earlier  *)
(* runs have stored (partial_products_count or products_found).            *)
StartChunk(m) ==
  IF Pdf /\ m.next \in Chunk /\ (m.resume \/ m.last > 0) THEN m.next ELSE 1
StoredBefore(m) == IF m.partial > 0 THEN m.partial ELSE m.found

AtLeast(n, k) == IF n >= k THEN n ELSE k

(* _extracting_metadata after the first k chunks.                          *)
Extracting(k, stored, raw) ==
  [stage |-> "extracting", last |-> k, next |-> IF k < Chunks THEN k + 1 ELSE 0,
   partial |-> stored, found |-> AtLeast(stored, raw), resume |-> FALSE]

WriteMeta(m) == meta' = m /\ stale' = FALSE /\ UNCHANGED <<status, count>>

(* _run_pipeline until the provider is called.                             *)
Begin(r) ==
  /\ run[r].at = "begin"
  /\ LET start == StartChunk(run[r].meta)
         stored == StoredBefore(run[r].meta)
     IN /\ WriteMeta(Extracting(start - 1, stored, 0))
        /\ run' = [run EXCEPT ![r] = [@ EXCEPT !.at = IF Pdf THEN "open" ELSE "ask",
                     !.chunk = start, !.stored = stored, !.meta = NoMeta]]
        /\ recounted' = (recounted \/ (start = 1 /\ stored > 0))
  /\ UNCHANGED <<offers, saved, dates, editing, overtaken>>

(* Mutant of OpenChunk: the chunk counts as completed when it is opened.   *)
OpenAsCompleted(r) ==
  /\ run[r].at = "open"
  /\ WriteMeta(Extracting(run[r].chunk, run[r].stored, run[r].raw))
  /\ Move(r, "ask")
  /\ UNCHANGED <<offers, saved, rest>>

(* _extract_pdf_chunks: the progress that opens a chunk.                   *)
OpenChunk(r) ==
  /\ run[r].at = "open"
  /\ WriteMeta(Extracting(run[r].chunk - 1, run[r].stored, run[r].raw))
  /\ Move(r, "ask")
  /\ UNCHANGED <<offers, saved, rest>>

(* The provider answers, after up to MAX_RETRIES attempts.                 *)
Answer(r) ==
  /\ run[r].at = "ask"
  /\ \E a \in Answers[run[r].chunk] :
       run' = [run EXCEPT ![r] = [@ EXCEPT !.at = "persist", !.answer = a]]
  /\ UNCHANGED <<flyer, offers, saved, rest>>

(* Every attempt has failed, or an empty answer came after a failed one:   *)
(* an error for a chunk, no products for an image.                         *)
ProviderFails(r) ==
  /\ run[r].at = "ask"
  /\ run' = [run EXCEPT ![r] =
       IF Pdf THEN [@ EXCEPT !.at = "failed", !.failed = run[r].chunk]
       ELSE [@ EXCEPT !.at = "persist", !.answer = {}]]
  /\ UNCHANGED <<flyer, offers, saved, rest>>

(* _persist_products: drafts that exist are ignored, and yet counted.      *)
Persist(r) ==
  /\ run[r].at = "persist"
  /\ LET rows == run[r].answer \cap Valid
     IN /\ offers' = [p \in Valid |->
                       IF p \in rows /\ offers[p] = NoRow THEN run[r].dates ELSE offers[p]]
        /\ run' = [run EXCEPT ![r] = [@ EXCEPT
                     !.stored = run[r].stored + Cardinality(rows),
                     !.at = IF Pdf THEN "checkpoint" ELSE "saving",
                     !.raw = IF Pdf THEN run[r].raw ELSE Cardinality(run[r].answer)]]
        /\ saved' = IF Pdf \/ rows # {} THEN saved \cup {run[r].chunk} ELSE saved
  /\ UNCHANGED <<flyer, rest>>

(* _checkpoint_persisted_chunk *)
Checkpoint(r) ==
  /\ run[r].at = "checkpoint"
  /\ WriteMeta(Extracting(run[r].chunk, run[r].stored, 0))
  /\ Move(r, "report")
  /\ UNCHANGED <<offers, saved, rest>>

(* _extract_pdf_chunks: the progress that closes a chunk.                  *)
CloseChunk(r) ==
  /\ run[r].at = "report"
  /\ LET raw == run[r].raw + Cardinality(run[r].answer)
     IN /\ WriteMeta(Extracting(run[r].chunk, run[r].stored, raw))
        /\ run' = [run EXCEPT ![r] = [@ EXCEPT !.raw = raw, !.answer = {},
                     !.chunk = IF run[r].chunk < Chunks THEN run[r].chunk + 1
                                ELSE run[r].chunk,
                     !.at = IF run[r].chunk < Chunks THEN "open" ELSE "saving"]]
  /\ UNCHANGED <<offers, saved, rest>>

AllChunks == IF Pdf THEN Chunks ELSE 0
Summary(stage, stored) ==
  [NoMeta EXCEPT !.stage = stage, !.last = AllChunks, !.partial = stored,
                 !.found = IF stage = "saving" THEN stored ELSE 0]

(* Mutant of Saving: an extraction without products goes on.               *)
SaveAnything(r) ==
  /\ run[r].at = "saving"
  /\ WriteMeta(Summary("saving", run[r].stored))
  /\ Move(r, "finish")
  /\ UNCHANGED <<offers, saved, rest>>

(* The stage "saving", and the errors "No products extracted from flyer"   *)
(* and "No valid products after normalization".                            *)
Saving(r) ==
  /\ run[r].at = "saving"
  /\ WriteMeta(Summary("saving", run[r].stored))
  /\ Move(r, IF run[r].raw = 0 \/ run[r].stored = 0 THEN "failed" ELSE "finish")
  /\ UNCHANGED <<offers, saved, rest>>

Finish(r) ==
  /\ run[r].at = "finish"
  /\ status' = "done"
  /\ count' = run[r].stored
  /\ meta' = Summary("done", run[r].stored)
  /\ stale' = FALSE
  /\ Move(r, "notify")
  /\ UNCHANGED <<offers, saved, rest>>

(* notify_extraction_complete *)
Notify(r) ==
  /\ run[r].at = "notify"
  /\ run' = [run EXCEPT ![r] = Ended]
  /\ UNCHANGED <<flyer, offers, saved, rest>>

-----------------------------------------------------------------------------
(* Errors.                                                                 *)

(* A call of the pipeline raises; it may have taken effect, which is the   *)
(* failure at the next call.                                               *)
Fail(r) ==
  /\ Failures
  /\ run[r].at \in {"begin", "open", "ask", "persist", "checkpoint", "report",
                    "saving", "finish", "notify"}
  /\ Move(r, "failed")
  /\ UNCHANGED <<flyer, offers, saved, rest>>

(* Mutant of ErrorMeta: the next run skips the chunk that failed.          *)
SkipFailed(m, failed) ==
  IF failed > 0 THEN [m EXCEPT !.resume = TRUE, !.next = failed + 1] ELSE m

(* _error_metadata, with _should_resume_after_error.                       *)
ErrorMeta(m, failed) ==
  IF m.stage = "none" THEN m
  ELSE IF failed > 0
  THEN [m EXCEPT !.resume = TRUE, !.next = failed, !.partial = StoredBefore(m)]
  ELSE IF Pdf /\ m.last > 0 /\ m.next \in Chunk
  THEN [m EXCEPT !.resume = TRUE, !.partial = StoredBefore(m)]
  ELSE m

(* _handle_error reads the metadata ...                                    *)
HandleError(r) ==
  /\ run[r].at = "failed"
  /\ run' = [run EXCEPT ![r] = [Unused EXCEPT !.at = "settle",
                !.meta = ErrorMeta(meta, run[r].failed)]]
  /\ UNCHANGED <<flyer, offers, saved, rest>>

(* Mutant of Finalizes: only the stage is looked at, for PDFs as well.     *)
FinalizesSaving(m) == StoredBefore(m) >= 1 /\ m.stage = "saving"

(* _should_finalize_after_error *)
Finalizes(m) ==
  /\ StoredBefore(m) >= 1
  /\ IF Pdf THEN m.last >= Chunks ELSE m.stage = "saving"

(* Mutant of Settle: an error is left to the recovery at startup.          *)
SettleDone(r) ==
  /\ run[r].at = "settle"
  /\ status' = IF Finalizes(run[r].meta) THEN "done" ELSE status
  /\ run' = [run EXCEPT ![r] = Ended]
  /\ UNCHANGED <<meta, count, stale, offers, saved, rest>>

(* ... and writes the outcome.                                             *)
Settle(r) ==
  /\ run[r].at = "settle"
  /\ LET m == run[r].meta
     IN IF Finalizes(m)
        THEN /\ status' = "done"
             /\ count' = StoredBefore(m)
             /\ meta' = [m EXCEPT !.resume = FALSE]
        ELSE /\ status' = "error"
             /\ meta' = IF m.stage = "none" THEN meta ELSE m
             /\ count' = count
  /\ stale' = FALSE
  /\ run' = [run EXCEPT ![r] = Ended]
  /\ UNCHANGED <<offers, saved, rest>>

(* Calls whose failure nobody handles: those before the try of run, and    *)
(* those of _handle_error itself.                                          *)
Die(r) ==
  /\ Failures
  /\ run[r].at \in {"resume", "fetch", "failed", "settle"}
  /\ run' = [run EXCEPT ![r] = Ended]
  /\ UNCHANGED <<flyer, offers, saved, rest>>

-----------------------------------------------------------------------------
(* The rest of the program.                                                *)

(* update_flyer_validity: the flyer, then its offers.                      *)
ChangeFlyerDates ==
  /\ ~editing
  /\ dates < MaxDates
  /\ dates' = dates + 1
  /\ editing' = TRUE
  /\ stale' = FALSE
  /\ UNCHANGED <<status, meta, count, offers, run, saved, history>>

ChangeOfferDates ==
  /\ editing
  /\ offers' = [p \in Valid |-> IF offers[p] = NoRow THEN NoRow ELSE dates]
  /\ editing' = FALSE
  /\ UNCHANGED <<flyer, dates, run, saved, history>>

(* PROCESSING_RESUME_STALE_AFTER passes without an update of the flyer.    *)
Age ==
  /\ status = "processing"
  /\ SlowProvider \/ \A r \in Runs : ~Live(r)
  /\ stale' = TRUE
  /\ UNCHANGED <<status, meta, count, offers, run, saved, rest>>

RunStep(r) ==
  \/ StartResume(r) \/ Fetch(r) \/ Begin(r) \/ OpenChunk(r) \/ Answer(r)
  \/ ProviderFails(r) \/ Persist(r) \/ Checkpoint(r) \/ CloseChunk(r)
  \/ Saving(r) \/ Finish(r) \/ Notify(r) \/ HandleError(r) \/ Settle(r)

Next ==
  \/ \E r \in Runs : Trigger(r) \/ RunStep(r) \/ Fail(r) \/ Die(r)
  \/ Restart \/ ChangeFlyerDates \/ ChangeOfferDates \/ Age

Spec == Init /\ [][Next]_vars

(* A thread goes on as long as the process lives.                          *)
FairSpec == Spec /\ \A r \in Runs : WF_vars(RunStep(r))

-----------------------------------------------------------------------------
(* The types of the variables.                                             *)
Meta == [stage : {"none", "empty", "extracting", "saving", "done"}, last : 0 .. Chunks,
         next : 0 .. Chunks, partial : Nat, found : Nat, resume : BOOLEAN]
Place == {"unused", "resume", "fetch", "begin", "open", "ask", "persist", "checkpoint",
          "report", "saving", "finish", "notify", "failed", "settle", "ended"}
Run == [at : Place, chunk : 0 .. Chunks, stored : Nat, raw : Nat, answer : SUBSET Products,
        failed : 0 .. Chunks, dates : 0 .. MaxDates, meta : Meta]
TypeOK ==
  /\ status \in {"pending", "processing", "done", "error"}
  /\ meta \in Meta
  /\ count \in Nat
  /\ stale \in BOOLEAN
  /\ dates \in 0 .. MaxDates
  /\ offers \in [Valid -> {NoRow} \cup 0 .. MaxDates]
  /\ editing \in BOOLEAN
  /\ run \in [Runs -> Run]
  /\ saved \subseteq Chunk
  /\ overtaken \in BOOLEAN
  /\ recounted \in BOOLEAN

(* However many runs, failures and restarts there are: the offers of every *)
(* chunk are stored when the flyer is done.                                *)
DoneIsComplete == status = "done" => (IF Pdf THEN saved = Chunk ELSE saved # {})

(* What a checkpoint promises: the chunks before the one it resumes at and *)
(* those it counts as completed are stored.  Every copy of the metadata    *)
(* and every run keeps to it.                                              *)
Covered(m) ==
  /\ 1 .. m.last \subseteq saved
  /\ 1 .. m.next - 1 \subseteq saved
  /\ ~Pdf /\ StoredBefore(m) > 0 => saved # {}
OnChunk == {"open", "ask", "persist", "checkpoint", "report"}
RunCovered(r) ==
  /\ Covered(run[r].meta)
  /\ 1 .. run[r].chunk - 1 \subseteq saved
  /\ 1 .. run[r].failed - 1 \subseteq saved
  /\ run[r].at \in OnChunk => run[r].chunk > 0
  /\ run[r].at \in {"open", "checkpoint", "report"} => Pdf
  /\ run[r].at \in {"checkpoint", "report"} => run[r].chunk \in saved
  /\ Pdf /\ run[r].at \in {"saving", "finish", "notify"} => saved = Chunk
  /\ ~Pdf /\ run[r].stored > 0 => saved # {}
  /\ run[r].at = "finish" => run[r].stored > 0
ExtractionInv ==
  /\ Covered(meta)
  /\ \A r \in Runs : RunCovered(r)
  /\ DoneIsComplete

(* products_count is the number of offers that were stored, for products   *)
(* that are found whenever their chunk is asked for, and in one chunk:     *)
(* _persist_products counts again what it finds again, and a run resumed   *)
(* after the insert counts what the provider answers this time.  Excused   *)
(* are a flyer whose runs have overlapped, where both have counted, and    *)
(* one whose run has ended after its last checkpoint: the next one begins  *)
(* at the first chunk and adds to the count.                               *)
CountsOffers ==
  status = "done" /\ ~overtaken /\ ~recounted =>
    count = Cardinality({p \in Valid : offers[p] # NoRow})

(* trigger_extraction answers 409 while a flyer is processed: unless a     *)
(* request overtakes a run that waits for the provider or in the queue, a  *)
(* flyer has one run at a time, through errors, restarts and recovery.     *)
OneLiveRun == ~overtaken => \A r, q \in Runs : Live(r) /\ Live(q) => r = q

(* tests/test_extraction_service.py:269, "late failure after completed PDF *)
(* keeps flyer done": a flyer that is done stays so ...                    *)
DoneStays == [][status = "done" => status' = "done"]_vars

(* ... unless its run was overtaken, however many calls fail afterwards.   *)
DoneUnlessOvertaken == [][status = "done" /\ ~overtaken => status' = "done"]_vars

(* docs/api.md:46: after an error a new request continues "dal chunk       *)
(* successivo": a run that finds some chunks checkpointed starts at the    *)
(* one after them.  (When all are, _resume_state starts at the first; and  *)
(* of two runs that overlap one writes over the metadata of the other.)    *)
ResumesAfterCheckpoint ==
  [][\A r \in Runs :
       Begin(r) /\ run[r].meta.last < Chunks /\ ~overtaken =>
         run'[r].chunk = run[r].meta.last + 1]_vars

(* While calls succeed, an extraction ends with its outcome in the flyer,  *)
(* however often the provider fails and the process restarts.              *)
Settles == status = "processing" ~> status \in {"done", "error"}
=============================================================================
