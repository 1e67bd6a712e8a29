--------------------------- MODULE ExtractionProofs ---------------------------
(***************************************************************************)
(* Proofs about Extraction, for any number of chunks and runs and whatever *)
(* fails, restarts or overlaps, and about ChunkOffers, for any answers of  *)
(* the provider.                                                           *)
(***************************************************************************)
EXTENDS Extraction, ChunkOffers, FiniteSetTheorems, WellFoundedInduction, TLAPS

IInv == TypeOK /\ ExtractionInv

(* The number of products in an answer is a natural number.                *)
LEMMA AnswerCount ==
  ASSUME NEW A \in SUBSET Products
  PROVE  Cardinality(A) \in Nat /\ Cardinality(A \cap Valid) \in Nat
BY ExtractionAssumption, FS_Subset, FS_CardinalityType

(* The operators on the metadata stay within its type.                     *)
LEMMA MetaTypes ==
  /\ NoMeta \in Meta
  /\ \A m \in Meta : StoredBefore(m) \in Nat /\ StartChunk(m) \in Chunk
  /\ \A k \in 0 .. Chunks, n \in Nat, raw \in Nat : Extracting(k, n, raw) \in Meta
  /\ \A stage \in {"saving", "done"}, n \in Nat : Summary(stage, n) \in Meta
  /\ \A m \in Meta, failed \in 0 .. Chunks : ErrorMeta(m, failed) \in Meta
<1>1. NoMeta \in Meta
  BY ExtractionAssumption DEF NoMeta, Meta
<1>2. ASSUME NEW m \in Meta
      PROVE  StoredBefore(m) \in Nat /\ StartChunk(m) \in Chunk
  BY ExtractionAssumption DEF Meta, StoredBefore, StartChunk, Chunk
<1>3. ASSUME NEW k \in 0 .. Chunks, NEW n \in Nat, NEW raw \in Nat
      PROVE  Extracting(k, n, raw) \in Meta
  BY ExtractionAssumption DEF Meta, Extracting, AtLeast
<1>4. ASSUME NEW stage \in {"saving", "done"}, NEW n \in Nat
      PROVE  Summary(stage, n) \in Meta
  <2>1. AllChunks \in 0 .. Chunks
    BY ExtractionAssumption DEF AllChunks
  <2>2. (IF stage = "saving" THEN n ELSE 0) \in Nat
    OBVIOUS
  <2>3. QED
    BY <1>1, <2>1, <2>2 DEF Meta, Summary
<1>5. ASSUME NEW m \in Meta, NEW failed \in 0 .. Chunks
      PROVE  ErrorMeta(m, failed) \in Meta
  <2>1. StoredBefore(m) \in Nat
    BY <1>2
  <2>2. [m EXCEPT !.resume = TRUE, !.next = failed, !.partial = StoredBefore(m)] \in Meta
    BY <2>1 DEF Meta
  <2>3. [m EXCEPT !.resume = TRUE, !.partial = StoredBefore(m)] \in Meta
    BY <2>1 DEF Meta
  <2>4. QED
    BY <2>2, <2>3 DEF ErrorMeta
<1>6. QED
  BY <1>1, <1>2, <1>3, <1>4, <1>5

(* What the operators on the metadata promise.                             *)
LEMMA MetaCovered ==
  ASSUME TypeOK
  PROVE  /\ Covered(NoMeta)
         /\ \A k \in 0 .. Chunks, n \in Nat, raw \in Nat :
              1 .. k \subseteq saved /\ (Pdf \/ (raw = 0 /\ (n > 0 => saved # {})))
                => Covered(Extracting(k, n, raw))
         /\ \A stage \in {"saving", "done"}, n \in Nat :
              (IF Pdf THEN saved = Chunk ELSE n > 0 => saved # {})
                => Covered(Summary(stage, n))
         /\ \A m \in Meta, failed \in 0 .. Chunks :
              Covered(m) /\ 1 .. failed - 1 \subseteq saved => Covered(ErrorMeta(m, failed))
<1>1. Covered(NoMeta)
  BY DEF Covered, NoMeta, StoredBefore
<1>2. ASSUME NEW k \in 0 .. Chunks, NEW n \in Nat, NEW raw \in Nat,
             1 .. k \subseteq saved, Pdf \/ (raw = 0 /\ (n > 0 => saved # {}))
      PROVE  Covered(Extracting(k, n, raw))
  BY <1>2, ExtractionAssumption DEF Covered, Extracting, StoredBefore, AtLeast
<1>3. ASSUME NEW stage \in {"saving", "done"}, NEW n \in Nat,
             IF Pdf THEN saved = Chunk ELSE n > 0 => saved # {}
      PROVE  Covered(Summary(stage, n))
  BY <1>3, ExtractionAssumption DEF Covered, Summary, NoMeta, AllChunks, StoredBefore, Chunk
<1>4. ASSUME NEW m \in Meta, NEW failed \in 0 .. Chunks,
             Covered(m), 1 .. failed - 1 \subseteq saved
      PROVE  Covered(ErrorMeta(m, failed))
  BY <1>4, ExtractionAssumption DEF Covered, ErrorMeta, StoredBefore, Meta
<1>5. QED
  BY <1>1, <1>2, <1>3, <1>4

LEMMA RunTypes == Unused \in Run /\ Ended \in Run
<1>1. NoMeta \in Meta /\ 0 \in 0 .. Chunks /\ 0 \in 0 .. MaxDates
  BY ExtractionAssumption, MetaTypes
<1>2. Unused \in Run
  BY <1>1 DEF Unused, Run, Place
<1>3. QED
  BY <1>2 DEF Ended, Run, Place

(* The next call of a run changes, and nothing else in it.                 *)
LEMMA MoveType ==
  ASSUME TypeOK, NEW r \in Runs, NEW at \in Place, Move(r, at)
  PROVE  run' \in [Runs -> Run]
BY DEF TypeOK, Move, Run

LEMMA WriteMetaType ==
  ASSUME TypeOK, NEW m \in Meta, WriteMeta(m)
  PROVE  /\ status' \in {"pending", "processing", "done", "error"}
         /\ meta' \in Meta /\ count' \in Nat /\ stale' \in BOOLEAN
BY DEF TypeOK, WriteMeta

-----------------------------------------------------------------------------
(* Type correctness of every step, one lemma per group of actions.         *)

LEMMA StartType ==
  ASSUME TypeOK, NEW r \in Runs,
         Trigger(r) \/ StartResume(r) \/ Fetch(r)
  PROVE  TypeOK'
<1>1. CASE Trigger(r)
  <2>1. [Unused EXCEPT !.at = "fetch"] \in Run
    BY RunTypes DEF Run, Place
  <2>2. run' \in [Runs -> Run]
    BY <1>1, <2>1 DEF Trigger, Schedule, TypeOK
  <2>3. QED
    BY <1>1, <2>2 DEF Trigger, TypeOK, rest, history
<1>2. CASE StartResume(r)
  <2>1. run' \in [Runs -> Run]
    BY <1>2, MoveType DEF StartResume, Place
  <2>2. QED
    BY <1>2, <2>1 DEF StartResume, TypeOK, rest, history
<1>3. CASE Fetch(r)
  <2>1. [run[r] EXCEPT !.at = "begin", !.meta = meta, !.dates = dates] \in Run
    BY DEF TypeOK, Run, Place
  <2>2. run' \in [Runs -> Run]
    BY <1>3, <2>1 DEF Fetch, TypeOK
  <2>3. QED
    BY <1>3, <2>2 DEF Fetch, TypeOK, flyer, rest, history
<1>4. QED
  BY <1>1, <1>2, <1>3

LEMMA PipelineType ==
  ASSUME TypeOK, ExtractionInv, NEW r \in Runs,
         \/ Begin(r) \/ OpenChunk(r) \/ Answer(r) \/ ProviderFails(r) \/ Persist(r)
         \/ Checkpoint(r) \/ CloseChunk(r) \/ Saving(r) \/ Finish(r) \/ Notify(r)
  PROVE  TypeOK'
<1>1. /\ run[r] \in Run /\ run[r].meta \in Meta /\ run[r].chunk \in 0 .. Chunks
      /\ run[r].stored \in Nat /\ run[r].raw \in Nat /\ run[r].answer \subseteq Products
      /\ run[r].at \in OnChunk => run[r].chunk \in Chunk
  BY DEF TypeOK, Run, ExtractionInv, RunCovered, Chunk
<1>2. /\ Cardinality(run[r].answer) \in Nat
      /\ Cardinality(run[r].answer \cap Valid) \in Nat
  BY <1>1, AnswerCount
<1>3. CASE Begin(r)
  <2> DEFINE start == StartChunk(run[r].meta)
             stored == StoredBefore(run[r].meta)
  <2>1. start \in Chunk /\ stored \in Nat
    BY <1>1, MetaTypes
  <2>2. start - 1 \in 0 .. Chunks /\ start \in 0 .. Chunks
    BY <2>1, ExtractionAssumption DEF Chunk
  <2>3. Extracting(start - 1, stored, 0) \in Meta
    BY <2>1, <2>2, MetaTypes
  <2>4. [run[r] EXCEPT !.at = IF Pdf THEN "open" ELSE "ask", !.chunk = start,
                       !.stored = stored, !.meta = NoMeta] \in Run
    <3>1. (IF Pdf THEN "open" ELSE "ask") \in Place
      BY DEF Place
    <3>2. QED
      BY <1>1, <2>1, <2>2, <3>1, MetaTypes DEF Run
  <2>5. run' \in [Runs -> Run]
    BY <1>3, <2>4 DEF Begin, TypeOK
  <2>6. QED
    BY <1>3, <2>3, <2>5, WriteMetaType DEF Begin, TypeOK, rest, history
<1>4. CASE OpenChunk(r)
  <2>1. run[r].chunk - 1 \in 0 .. Chunks
    BY <1>1, <1>4, ExtractionAssumption DEF OpenChunk, OnChunk, Chunk
  <2>2. Extracting(run[r].chunk - 1, run[r].stored, run[r].raw) \in Meta
    BY <1>1, <2>1, MetaTypes
  <2>3. run' \in [Runs -> Run]
    BY <1>4, MoveType DEF OpenChunk, Place
  <2>4. QED
    BY <1>4, <2>2, <2>3, WriteMetaType DEF OpenChunk, TypeOK, rest, history
<1>5. CASE Answer(r)
  <2>1. PICK a \in Answers[run[r].chunk] :
          run' = [run EXCEPT ![r] = [@ EXCEPT !.at = "persist", !.answer = a]]
    BY <1>5 DEF Answer
  <2>2. a \subseteq Products
    BY <1>1, <1>5, ExtractionAssumption DEF Answer, OnChunk, Chunk
  <2>3. [run[r] EXCEPT !.at = "persist", !.answer = a] \in Run
    BY <1>1, <2>2 DEF Run, Place
  <2>4. run' \in [Runs -> Run]
    BY <2>1, <2>3 DEF TypeOK
  <2>5. QED
    BY <1>5, <2>4 DEF Answer, TypeOK, flyer, rest, history
<1>6. CASE ProviderFails(r)
  <2>1. /\ [run[r] EXCEPT !.at = "failed", !.failed = run[r].chunk] \in Run
        /\ [run[r] EXCEPT !.at = "persist", !.answer = {}] \in Run
    BY <1>1 DEF Run, Place
  <2>2. run' \in [Runs -> Run]
    BY <1>6, <2>1 DEF ProviderFails, TypeOK
  <2>3. QED
    BY <1>6, <2>2 DEF ProviderFails, TypeOK, flyer, rest, history
<1>7. CASE Persist(r)
  <2> DEFINE rows == run[r].answer \cap Valid
             next == IF Pdf THEN "checkpoint" ELSE "saving"
             found == IF Pdf THEN run[r].raw ELSE Cardinality(run[r].answer)
  <2>1. next \in Place /\ found \in Nat /\ run[r].stored + Cardinality(rows) \in Nat
    BY <1>1, <1>2 DEF Place
  <2>2. [run[r] EXCEPT !.stored = run[r].stored + Cardinality(rows), !.at = next, !.raw = found] \in Run
    <3> HIDE DEF rows, next, found
    <3>1. QED
      BY <1>1, <2>1 DEF Run
  <2>3. run' = [run EXCEPT ![r] =
          [run[r] EXCEPT !.stored = run[r].stored + Cardinality(rows), !.at = next, !.raw = found]]
    BY <1>7 DEF Persist
  <2>4. run' \in [Runs -> Run]
    <3> HIDE DEF rows, next, found
    <3>1. QED
      BY <2>2, <2>3 DEF TypeOK
  <2>5. run[r].dates \in 0 .. MaxDates
    BY <1>1 DEF Run
  <2>6. offers' \in [Valid -> {NoRow} \cup 0 .. MaxDates]
    BY <1>7, <2>5 DEF Persist, TypeOK
  <2>7. saved' \subseteq Chunk
    BY <1>1, <1>7 DEF Persist, TypeOK, OnChunk
  <2>8. QED
    BY <1>7, <2>4, <2>6, <2>7 DEF Persist, TypeOK, flyer, rest, history
<1>8. CASE Checkpoint(r)
  <2>1. Extracting(run[r].chunk, run[r].stored, 0) \in Meta
    BY <1>1, MetaTypes
  <2>2. run' \in [Runs -> Run]
    BY <1>8, MoveType DEF Checkpoint, Place
  <2>3. QED
    BY <1>8, <2>1, <2>2, WriteMetaType DEF Checkpoint, TypeOK, rest, history
<1>9. CASE CloseChunk(r)
  <2> DEFINE raw == run[r].raw + Cardinality(run[r].answer)
             next == IF run[r].chunk < Chunks THEN "open" ELSE "saving"
             after == IF run[r].chunk < Chunks THEN run[r].chunk + 1 ELSE run[r].chunk
  <2>1. raw \in Nat /\ next \in Place /\ after \in 0 .. Chunks
    BY <1>1, <1>2, ExtractionAssumption DEF Place
  <2>2. Extracting(run[r].chunk, run[r].stored, raw) \in Meta
    BY <1>1, <2>1, MetaTypes
  <2>3. [run[r] EXCEPT !.raw = raw, !.answer = {}, !.chunk = after, !.at = next] \in Run
    <3> HIDE DEF raw, next, after
    <3>1. QED
      BY <1>1, <2>1 DEF Run
  <2>4. run' = [run EXCEPT ![r] =
          [run[r] EXCEPT !.raw = raw, !.answer = {}, !.chunk = after, !.at = next]]
    BY <1>9 DEF CloseChunk
  <2>5. run' \in [Runs -> Run]
    <3> HIDE DEF raw, next, after
    <3>1. QED
      BY <2>3, <2>4 DEF TypeOK
  <2>6. QED
    BY <1>9, <2>2, <2>5, WriteMetaType DEF CloseChunk, TypeOK, rest, history
<1>10. CASE Saving(r)
  <2>1. Summary("saving", run[r].stored) \in Meta
    BY <1>1, MetaTypes
  <2>2. (IF run[r].raw = 0 \/ run[r].stored = 0 THEN "failed" ELSE "finish") \in Place
    BY DEF Place
  <2>3. run' \in [Runs -> Run]
    BY <1>10, <2>2, MoveType DEF Saving
  <2>4. QED
    BY <1>10, <2>1, <2>3, WriteMetaType DEF Saving, TypeOK, rest, history
<1>11. CASE Finish(r)
  <2>1. Summary("done", run[r].stored) \in Meta
    BY <1>1, MetaTypes
  <2>2. run' \in [Runs -> Run]
    BY <1>11, MoveType DEF Finish, Place
  <2>3. QED
    BY <1>1, <1>11, <2>1, <2>2 DEF Finish, TypeOK, rest, history
<1>12. CASE Notify(r)
  BY <1>12, RunTypes DEF Notify, TypeOK, flyer, rest, history
<1>13. QED
  BY <1>3, <1>4, <1>5, <1>6, <1>7, <1>8, <1>9, <1>10, <1>11, <1>12

LEMMA ErrorType ==
  ASSUME TypeOK, NEW r \in Runs, HandleError(r) \/ Settle(r) \/ Fail(r) \/ Die(r)
  PROVE  TypeOK'
<1>1. run[r] \in Run /\ run[r].meta \in Meta /\ run[r].failed \in 0 .. Chunks
  BY DEF TypeOK, Run
<1>2. CASE HandleError(r)
  <2>1. ErrorMeta(meta, run[r].failed) \in Meta
    BY <1>1, MetaTypes DEF TypeOK
  <2>2. [Unused EXCEPT !.at = "settle", !.meta = ErrorMeta(meta, run[r].failed)] \in Run
    BY <2>1, RunTypes DEF Run, Place
  <2>3. run' \in [Runs -> Run]
    BY <1>2, <2>2 DEF HandleError, TypeOK
  <2>4. QED
    BY <1>2, <2>3 DEF HandleError, TypeOK, flyer, rest, history
<1>3. CASE Settle(r)
  <2>1. StoredBefore(run[r].meta) \in Nat
    BY <1>1, MetaTypes
  <2>2. [run[r].meta EXCEPT !.resume = FALSE] \in Meta
    BY <1>1 DEF Meta
  <2>3. meta' \in Meta /\ count' \in Nat /\ status' \in {"done", "error"}
    BY <1>1, <1>3, <2>1, <2>2 DEF Settle, TypeOK
  <2>4. run' \in [Runs -> Run]
    BY <1>3, RunTypes DEF Settle, TypeOK
  <2>5. QED
    BY <1>3, <2>3, <2>4 DEF Settle, TypeOK, rest, history
<1>4. CASE Fail(r)
  <2>1. run' \in [Runs -> Run]
    BY <1>4, MoveType DEF Fail, Place
  <2>2. QED
    BY <1>4, <2>1 DEF Fail, TypeOK, flyer, rest, history
<1>5. CASE Die(r)
  BY <1>5, RunTypes DEF Die, TypeOK, flyer, rest, history
<1>6. QED
  BY <1>2, <1>3, <1>4, <1>5

LEMMA RestartType == TypeOK /\ Restart => TypeOK'
<1> SUFFICES ASSUME TypeOK, Restart
             PROVE  TypeOK'
  OBVIOUS
<1> DEFINE killed == [r \in Runs |-> IF Live(r) THEN Ended ELSE run[r]]
<1>1. killed \in [Runs -> Run]
  BY RunTypes DEF TypeOK
<1>2. ASSUME NEW r \in Runs
      PROVE  [killed EXCEPT ![r].at = "resume"] \in [Runs -> Run]
  <2> HIDE DEF killed
  <2>1. [killed[r] EXCEPT !.at = "resume"] \in Run
    BY <1>1 DEF Run, Place
  <2>2. QED
    BY <1>1, <2>1
<1>3. run' \in [Runs -> Run]
  <2>1. run' = killed \/ \E r \in Runs : run' = [killed EXCEPT ![r].at = "resume"]
    BY Zenon DEF Restart
  <2> HIDE DEF killed
  <2>2. QED
    BY <1>1, <1>2, <2>1
<1>4. [meta EXCEPT !.resume = Resumable,
                   !.stage = IF @ = "none" THEN "empty" ELSE @] \in Meta
  BY DEF TypeOK, Meta, Resumable
<1>5. meta' \in Meta /\ status' \in {"pending", "processing", "done", "error"}
      /\ stale' \in BOOLEAN
  BY <1>4 DEF Restart, TypeOK
<1>6. QED
  BY <1>3, <1>5 DEF Restart, TypeOK, history

LEMMA OtherType == TypeOK /\ (ChangeFlyerDates \/ ChangeOfferDates \/ Age) => TypeOK'
<1> SUFFICES ASSUME TypeOK
             PROVE  ChangeFlyerDates \/ ChangeOfferDates \/ Age => TypeOK'
  OBVIOUS
<1>1. ASSUME ChangeFlyerDates
      PROVE  TypeOK'
  <2>1. dates' \in 0 .. MaxDates
    BY <1>1, ExtractionAssumption DEF ChangeFlyerDates, TypeOK
  <2>2. QED
    BY <1>1, <2>1 DEF ChangeFlyerDates, TypeOK, history
<1>2. ASSUME ChangeOfferDates
      PROVE  TypeOK'
  BY <1>2 DEF ChangeOfferDates, TypeOK, flyer, history
<1>3. ASSUME Age
      PROVE  TypeOK'
  BY <1>3 DEF Age, TypeOK, rest, history
<1>4. QED
  BY <1>1, <1>2, <1>3

LEMMA TypeStep == IInv /\ [Next]_vars => TypeOK'
<1> SUFFICES ASSUME IInv, [Next]_vars
             PROVE  TypeOK'
  OBVIOUS
<1>1. ASSUME NEW r \in Runs, Trigger(r) \/ RunStep(r) \/ Fail(r) \/ Die(r)
      PROVE  TypeOK'
  BY <1>1, StartType, PipelineType, ErrorType DEF IInv, RunStep
<1>2. CASE Restart \/ ChangeFlyerDates \/ ChangeOfferDates \/ Age
  BY <1>2, RestartType, OtherType DEF IInv
<1>3. CASE UNCHANGED vars
  BY <1>3 DEF vars, IInv, TypeOK
<1>4. QED
  BY <1>1, <1>2, <1>3 DEF Next

-----------------------------------------------------------------------------
(* The invariant.                                                          *)

(* Chunks are never lost again: what metadata and runs promise stays true. *)
LEMMA CoveredStays ==
  ASSUME saved \subseteq saved', NEW m, Covered(m)
  PROVE  Covered(m)'
BY DEF Covered

LEMMA RunCoveredStays ==
  ASSUME TypeOK, TypeOK', saved \subseteq saved', NEW q \in Runs, RunCovered(q),
         run'[q] = run[q]
  PROVE  RunCovered(q)'
<1>1. Covered(run[q].meta)'
  BY CoveredStays DEF RunCovered
<1>2. saved = Chunk => saved' = Chunk
  BY DEF TypeOK
<1>3. QED
  BY <1>1, <1>2 DEF RunCovered

LEMMA DoneStaysComplete ==
  ASSUME TypeOK, TypeOK', saved \subseteq saved', DoneIsComplete,
         status' \in {status, "processing", "error"}
  PROVE  DoneIsComplete'
<1>1. saved = Chunk => saved' = Chunk
  BY DEF TypeOK
<1>2. QED
  BY <1>1 DEF DoneIsComplete

(* A step of one run: the invariant follows from what the step does to the *)
(* metadata, to the run and to a flyer that is done.                       *)
LEMMA StepOfRun ==
  ASSUME IInv, TypeOK', saved \subseteq saved', NEW r \in Runs, NEW x,
         run' = [run EXCEPT ![r] = x],
         Covered(meta)', RunCovered(r)', DoneIsComplete'
  PROVE  ExtractionInv'
<1>1. ASSUME NEW q \in Runs
      PROVE  RunCovered(q)'
  <2>1. CASE q = r
    BY <2>1
  <2>2. CASE q # r
    <3>1. run'[q] = run[q]
      BY <2>2 DEF IInv, TypeOK
    <3>2. QED
      BY <3>1, RunCoveredStays DEF IInv, ExtractionInv
  <2>3. QED
    BY <2>1, <2>2
<1>2. QED
  BY <1>1 DEF ExtractionInv

(* A run that has just been scheduled, resumed or ended.                   *)
LEMMA IdleRunCovered ==
  ASSUME TypeOK, NEW r \in Runs, NEW at \in {"unused", "fetch", "resume", "ended"},
         run'[r] = [Unused EXCEPT !.at = at]
  PROVE  RunCovered(r)'
<1>1. /\ run'[r].meta = NoMeta /\ run'[r].chunk = 0 /\ run'[r].failed = 0
      /\ run'[r].stored = 0 /\ run'[r].at = at
  BY DEF Unused
<1>2. Covered(run[r].meta)'
  BY <1>1 DEF Covered, NoMeta, StoredBefore
<1>3. QED
  BY <1>1, <1>2 DEF RunCovered, OnChunk

(* The steps that start a run.                                            *)
LEMMA StartInv ==
  ASSUME IInv, TypeOK', NEW r \in Runs, Trigger(r) \/ StartResume(r) \/ Fetch(r)
  PROVE  ExtractionInv'
<1>1. /\ saved' = saved /\ Covered(meta) /\ RunCovered(r) /\ DoneIsComplete
      /\ run \in [Runs -> Run]
  BY DEF Trigger, StartResume, Fetch, IInv, TypeOK, ExtractionInv
<1>2. meta' = meta /\ status' \in {status, "processing"}
  BY DEF Trigger, StartResume, Fetch, flyer
<1>3. Covered(meta)'
  BY <1>1, <1>2 DEF Covered
<1>4. DoneIsComplete'
  BY <1>1, <1>2, DoneStaysComplete DEF IInv
<1>5. CASE Trigger(r)
  <2>1. run' = [run EXCEPT ![r] = [Unused EXCEPT !.at = "fetch"]]
    BY <1>5 DEF Trigger, Schedule
  <2>2. RunCovered(r)'
    BY <1>1, <2>1, IdleRunCovered DEF IInv
  <2>3. QED
    BY <1>1, <1>3, <1>4, <2>1, <2>2, StepOfRun
<1>6. CASE StartResume(r)
  <2>1. run' = [run EXCEPT ![r] = [run[r] EXCEPT !.at = "fetch"]]
    BY <1>6 DEF StartResume, Move
  <2>2. /\ run'[r].meta = run[r].meta /\ run'[r].chunk = run[r].chunk
        /\ run'[r].failed = run[r].failed /\ run'[r].stored = run[r].stored
        /\ run'[r].at = "fetch"
    BY <1>1, <2>1 DEF Run
  <2>3. RunCovered(r)'
    BY <1>1, <2>2 DEF RunCovered, Covered, OnChunk
  <2>4. QED
    BY <1>1, <1>3, <1>4, <2>1, <2>3, StepOfRun
<1>7. CASE Fetch(r)
  <2>1. run' = [run EXCEPT ![r] = [run[r] EXCEPT !.at = "begin", !.meta = meta,
                                                 !.dates = dates]]
    BY <1>7 DEF Fetch
  <2>2. /\ run'[r].meta = meta /\ run'[r].chunk = run[r].chunk
        /\ run'[r].failed = run[r].failed /\ run'[r].stored = run[r].stored
        /\ run'[r].at = "begin"
    BY <1>1, <2>1 DEF Run
  <2>3. RunCovered(r)'
    BY <1>1, <2>2 DEF RunCovered, Covered, OnChunk
  <2>4. QED
    BY <1>1, <1>3, <1>4, <2>1, <2>3, StepOfRun
<1>8. QED
  BY <1>5, <1>6, <1>7

(* The steps that write a checkpoint.                                      *)
LEMMA BeginInv ==
  ASSUME IInv, TypeOK', NEW r \in Runs, Begin(r)
  PROVE  ExtractionInv'
<1> DEFINE start == StartChunk(run[r].meta)
           stored == StoredBefore(run[r].meta)
           at == IF Pdf THEN "open" ELSE "ask"
<1>1. /\ run[r] \in Run /\ run[r].meta \in Meta /\ RunCovered(r) /\ DoneIsComplete
      /\ saved' = saved /\ status' = status
  BY DEF IInv, TypeOK, Run, ExtractionInv, Begin, WriteMeta
<1>2. start \in Chunk /\ stored \in Nat
  BY <1>1, MetaTypes
<1>3. 1 .. start - 1 \subseteq saved
  BY <1>1 DEF RunCovered, Covered, StartChunk
<1>4. ~Pdf /\ stored > 0 => saved # {}
  BY <1>1 DEF RunCovered, Covered
<1>5. Covered(meta)'
  <2>1. start - 1 \in 0 .. Chunks
    BY <1>2, ExtractionAssumption DEF Chunk
  <2>2. Covered(Extracting(start - 1, stored, 0))
    BY <1>2, <1>3, <1>4, <2>1, MetaCovered DEF IInv
  <2>3. meta' = Extracting(start - 1, stored, 0)
    BY DEF Begin, WriteMeta
  <2>4. QED
    BY <1>1, <2>2, <2>3 DEF Covered
<1>6. run' = [run EXCEPT ![r] = [run[r] EXCEPT !.at = at, !.chunk = start,
                                   !.stored = stored, !.meta = NoMeta]]
  BY DEF Begin
<1>7. /\ run'[r].meta = NoMeta /\ run'[r].chunk = start /\ run'[r].at = at
      /\ run'[r].failed = run[r].failed /\ run'[r].stored = stored
  <2> HIDE DEF start, stored, at
  <2>1. QED
    BY <1>1, <1>6 DEF Run, IInv, TypeOK
<1>8. RunCovered(r)'
  <2>1. Covered(run[r].meta)'
    BY <1>1, <1>7, MetaCovered DEF IInv, Covered
  <2>2. start > 0
    BY <1>2 DEF Chunk
  <2>3. (at = "open" /\ Pdf) \/ at = "ask"
    OBVIOUS
  <2> HIDE DEF start, stored, at
  <2>4. QED
    BY <1>1, <1>3, <1>4, <1>7, <2>1, <2>2, <2>3 DEF RunCovered, OnChunk
<1>9. DoneIsComplete'
  BY <1>1, DoneStaysComplete DEF IInv
<1>10. QED
  <2> HIDE DEF start, stored, at
  <2>1. QED
    BY <1>1, <1>5, <1>6, <1>8, <1>9, StepOfRun

LEMMA ChunkInv ==
  ASSUME IInv, TypeOK', NEW r \in Runs,
         OpenChunk(r) \/ Checkpoint(r) \/ CloseChunk(r)
  PROVE  ExtractionInv'
<1>1. /\ run[r] \in Run /\ run[r].meta \in Meta /\ run[r].chunk \in Chunk
      /\ run[r].stored \in Nat /\ run[r].raw \in Nat /\ run[r].answer \subseteq Products
      /\ RunCovered(r) /\ DoneIsComplete /\ saved \subseteq Chunk
      /\ run \in [Runs -> Run]
  <2>1. /\ RunCovered(r) /\ DoneIsComplete /\ saved \subseteq Chunk
        /\ run \in [Runs -> Run]
    BY DEF IInv, TypeOK, ExtractionInv
  <2>2. run[r].at \in OnChunk
    BY DEF OnChunk, OpenChunk, Checkpoint, CloseChunk
  <2>3. run[r] \in Run
    BY <2>1
  <2>4. /\ run[r].meta \in Meta /\ run[r].chunk \in 0 .. Chunks
        /\ run[r].stored \in Nat /\ run[r].raw \in Nat /\ run[r].answer \subseteq Products
    BY <2>3 DEF Run
  <2>5. run[r].chunk > 0
    BY <2>1, <2>2 DEF RunCovered
  <2>6. run[r].chunk \in Chunk
    BY <2>4, <2>5, ExtractionAssumption DEF Chunk
  <2>7. QED
    BY <2>1, <2>3, <2>4, <2>6
<1>2. saved' = saved /\ status' = status /\ Pdf
  BY <1>1 DEF OpenChunk, Checkpoint, CloseChunk, WriteMeta, RunCovered
<1>3. DoneIsComplete'
  BY <1>1, <1>2, DoneStaysComplete DEF IInv
<1>4. run[r].chunk \in 0 .. Chunks /\ run[r].chunk - 1 \in 0 .. Chunks
  BY <1>1, ExtractionAssumption DEF Chunk
<1>5. CASE OpenChunk(r)
  <2>1. 1 .. run[r].chunk - 1 \subseteq saved
    BY <1>1 DEF RunCovered
  <2>2. Covered(Extracting(run[r].chunk - 1, run[r].stored, run[r].raw))
    BY <1>1, <1>2, <1>4, <2>1, MetaCovered DEF IInv
  <2>3. Covered(meta)'
    BY <1>2, <1>5, <2>2 DEF OpenChunk, WriteMeta, Covered
  <2>4. run' = [run EXCEPT ![r] = [run[r] EXCEPT !.at = "ask"]]
    BY <1>5 DEF OpenChunk, Move
  <2>5. /\ run'[r].meta = run[r].meta /\ run'[r].chunk = run[r].chunk
        /\ run'[r].failed = run[r].failed /\ run'[r].stored = run[r].stored
        /\ run'[r].at = "ask"
    BY <1>1, <2>4 DEF Run
  <2>6. RunCovered(r)'
    BY <1>1, <1>2, <1>5, <2>5 DEF RunCovered, Covered, OnChunk, OpenChunk
  <2>7. QED
    BY <1>2, <1>3, <2>3, <2>4, <2>6, StepOfRun
<1>6. CASE Checkpoint(r) \/ CloseChunk(r)
  <2>1. run[r].at \in {"checkpoint", "report"} /\ run[r].chunk \in saved
    BY <1>1, <1>6 DEF Checkpoint, CloseChunk, RunCovered
  <2>2. 1 .. run[r].chunk \subseteq saved
    BY <1>1, <2>1 DEF RunCovered, Chunk
  <2>3. CASE Checkpoint(r)
    <3>1. Covered(Extracting(run[r].chunk, run[r].stored, 0))
      BY <1>1, <1>2, <1>4, <2>2, MetaCovered DEF IInv
    <3>2. Covered(meta)'
      BY <1>2, <2>3, <3>1 DEF Checkpoint, WriteMeta, Covered
    <3>3. run' = [run EXCEPT ![r] = [run[r] EXCEPT !.at = "report"]]
      BY <2>3 DEF Checkpoint, Move
    <3>4. /\ run'[r].meta = run[r].meta /\ run'[r].chunk = run[r].chunk
          /\ run'[r].failed = run[r].failed /\ run'[r].stored = run[r].stored
          /\ run'[r].at = "report"
      BY <1>1, <3>3 DEF Run
    <3>5. RunCovered(r)'
      BY <1>1, <1>2, <2>1, <3>4 DEF RunCovered, Covered, OnChunk
    <3>6. QED
      BY <1>2, <1>3, <3>2, <3>3, <3>5, StepOfRun
  <2>4. CASE CloseChunk(r)
    <3> DEFINE raw == run[r].raw + Cardinality(run[r].answer)
               next == IF run[r].chunk < Chunks THEN "open" ELSE "saving"
               after == IF run[r].chunk < Chunks THEN run[r].chunk + 1 ELSE run[r].chunk
    <3>1. raw \in Nat
      <4>1. Cardinality(run[r].answer) \in Nat
        BY <1>1, AnswerCount
      <4>2. QED
        BY <1>1, <4>1
    <3>2. meta' = Extracting(run[r].chunk, run[r].stored, raw)
      BY <2>4 DEF CloseChunk, WriteMeta
    <3>3. Covered(Extracting(run[r].chunk, run[r].stored, raw))
      BY <1>1, <1>2, <1>4, <2>2, <3>1, MetaCovered DEF IInv
    <3>4. Covered(meta)'
      BY <1>2, <3>2, <3>3 DEF Covered
    <3>5. run' = [run EXCEPT ![r] =
            [run[r] EXCEPT !.raw = raw, !.answer = {}, !.chunk = after, !.at = next]]
      BY <2>4 DEF CloseChunk
    <3>6. /\ run'[r].meta = run[r].meta /\ run'[r].chunk = after
          /\ run'[r].failed = run[r].failed /\ run'[r].stored = run[r].stored
          /\ run'[r].at = next
      <4> HIDE DEF raw, next, after
      <4>1. QED
        BY <1>1, <3>5 DEF Run
    <3>7. 1 .. after - 1 \subseteq saved /\ after > 0
      BY <1>1, <2>2, ExtractionAssumption DEF Chunk
    <3>8. next = "open" \/ (next = "saving" /\ saved = Chunk)
      <4>1. CASE run[r].chunk < Chunks
        BY <4>1
      <4>2. CASE ~(run[r].chunk < Chunks)
        <5>1. run[r].chunk = Chunks
          BY <1>1, <4>2, ExtractionAssumption DEF Chunk
        <5>2. QED
          BY <1>1, <2>2, <4>2, <5>1 DEF Chunk
      <4>3. QED
        BY <4>1, <4>2
    <3>9. RunCovered(r)'
      <4> HIDE DEF raw, next, after
      <4>1. QED
        BY <1>1, <1>2, <3>6, <3>7, <3>8 DEF RunCovered, Covered, OnChunk
    <3>10. QED
      <4> HIDE DEF raw, next, after
      <4>1. QED
        BY <1>2, <1>3, <3>4, <3>5, <3>9, StepOfRun
  <2>5. QED
    BY <1>6, <2>3, <2>4
<1>7. QED
  BY <1>5, <1>6

(* The steps that ask the provider and store its answer.                   *)
LEMMA AnswerInv ==
  ASSUME IInv, TypeOK', NEW r \in Runs, Answer(r) \/ ProviderFails(r)
  PROVE  ExtractionInv'
<1>1. /\ run[r] \in Run /\ run \in [Runs -> Run] /\ RunCovered(r) /\ DoneIsComplete
      /\ Covered(meta) /\ run[r].at = "ask" /\ saved' = saved /\ meta' = meta
      /\ status' = status
  BY DEF IInv, TypeOK, ExtractionInv, Answer, ProviderFails, flyer
<1>2. DoneIsComplete' /\ Covered(meta)'
  BY <1>1, DoneStaysComplete DEF IInv, Covered
<1>3. PICK failed, a, at :
        /\ run' = [run EXCEPT ![r] = [run[r] EXCEPT !.at = at, !.answer = a,
                                                    !.failed = failed]]
        /\ \/ at = "persist" /\ failed = run[r].failed
           \/ Pdf /\ at = "failed" /\ failed = run[r].chunk
  <2>1. CASE Answer(r)
    <3>1. PICK a \in Answers[run[r].chunk] :
            run' = [run EXCEPT ![r] = [run[r] EXCEPT !.at = "persist", !.answer = a]]
      BY <2>1 DEF Answer
    <3>2. [run[r] EXCEPT !.at = "persist", !.answer = a]
            = [run[r] EXCEPT !.at = "persist", !.answer = a, !.failed = run[r].failed]
      BY <1>1 DEF Run
    <3>3. QED
      BY <3>1, <3>2
  <2>2. CASE ProviderFails(r) /\ Pdf
    <3>1. run' = [run EXCEPT ![r] = [run[r] EXCEPT !.at = "failed", !.failed = run[r].chunk]]
      BY <2>2 DEF ProviderFails
    <3>2. [run[r] EXCEPT !.at = "failed", !.failed = run[r].chunk]
            = [run[r] EXCEPT !.at = "failed", !.answer = run[r].answer,
                             !.failed = run[r].chunk]
      BY <1>1 DEF Run
    <3>3. QED
      BY <2>2, <3>1, <3>2
  <2>3. CASE ProviderFails(r) /\ ~Pdf
    <3>1. run' = [run EXCEPT ![r] = [run[r] EXCEPT !.at = "persist", !.answer = {}]]
      BY <2>3 DEF ProviderFails
    <3>2. [run[r] EXCEPT !.at = "persist", !.answer = {}]
            = [run[r] EXCEPT !.at = "persist", !.answer = {}, !.failed = run[r].failed]
      BY <1>1 DEF Run
    <3>3. QED
      BY <3>1, <3>2
  <2>4. QED
    BY <2>1, <2>2, <2>3
<1>4. /\ run'[r].meta = run[r].meta /\ run'[r].chunk = run[r].chunk
      /\ run'[r].failed = failed /\ run'[r].stored = run[r].stored /\ run'[r].at = at
  BY <1>1, <1>3 DEF Run
<1>5. RunCovered(r)'
  <2>1. run[r].chunk > 0 /\ 1 .. failed - 1 \subseteq saved
    BY <1>1, <1>3 DEF RunCovered, OnChunk
  <2>2. QED
    BY <1>1, <1>3, <1>4, <2>1 DEF RunCovered, Covered, OnChunk
<1>6. QED
  BY <1>1, <1>2, <1>3, <1>5, StepOfRun

LEMMA PersistInv ==
  ASSUME IInv, TypeOK', NEW r \in Runs, Persist(r)
  PROVE  ExtractionInv'
<1> DEFINE rows == run[r].answer \cap Valid
           at == IF Pdf THEN "checkpoint" ELSE "saving"
           stored == run[r].stored + Cardinality(rows)
           raw == IF Pdf THEN run[r].raw ELSE Cardinality(run[r].answer)
<1>1. /\ run[r] \in Run /\ run \in [Runs -> Run] /\ RunCovered(r) /\ DoneIsComplete
      /\ Covered(meta) /\ run[r].at = "persist" /\ meta' = meta /\ status' = status
      /\ run[r].stored \in Nat /\ rows \subseteq Products /\ saved \subseteq saved'
  BY ExtractionAssumption DEF IInv, TypeOK, Run, ExtractionInv, Persist, flyer
<1>2. DoneIsComplete' /\ Covered(meta)'
  BY <1>1, DoneStaysComplete, CoveredStays DEF IInv, Covered
<1>3. run' = [run EXCEPT ![r] = [run[r] EXCEPT !.stored = stored, !.at = at, !.raw = raw]]
  BY DEF Persist
<1>4. /\ run'[r].meta = run[r].meta /\ run'[r].chunk = run[r].chunk
      /\ run'[r].failed = run[r].failed /\ run'[r].stored = stored /\ run'[r].at = at
  <2> HIDE DEF rows, at, stored, raw
  <2>1. QED
    BY <1>1, <1>3 DEF Run
<1>5. Pdf => at = "checkpoint" /\ run[r].chunk \in saved'
  BY DEF Persist
<1>6. ~Pdf => at = "saving" /\ (stored > 0 => saved' # {})
  <2>1. CASE rows = {}
    <3>1. stored = run[r].stored
      BY <1>1, <2>1, FS_EmptySet
    <3>2. QED
      BY <1>1, <3>1 DEF RunCovered
  <2>2. CASE rows # {}
    BY <2>2 DEF Persist
  <2>3. QED
    BY <2>1, <2>2
<1>7. RunCovered(r)'
  <2>1. Covered(run[r].meta)' /\ run[r].chunk > 0
    BY <1>1, <1>4 DEF RunCovered, OnChunk, Covered
  <2> HIDE DEF rows, at, stored, raw
  <2>2. QED
    BY <1>1, <1>4, <1>5, <1>6, <2>1 DEF RunCovered, Covered, OnChunk
<1>8. QED
  <2> HIDE DEF rows, at, stored, raw
  <2>1. QED
    BY <1>1, <1>2, <1>3, <1>7, StepOfRun

(* The end of an extraction.                                               *)
LEMMA EndInv ==
  ASSUME IInv, TypeOK', NEW r \in Runs, Saving(r) \/ Finish(r) \/ Notify(r)
  PROVE  ExtractionInv'
<1>1. /\ run[r] \in Run /\ run \in [Runs -> Run] /\ RunCovered(r) /\ DoneIsComplete
      /\ Covered(meta) /\ saved' = saved /\ run[r].stored \in Nat
      /\ run[r].at \in {"saving", "finish", "notify"}
  BY DEF IInv, TypeOK, Run, ExtractionInv, Saving, Finish, Notify, WriteMeta
<1>2. IF Pdf THEN saved = Chunk ELSE run[r].stored > 0 => saved # {}
  BY <1>1 DEF RunCovered
<1>3. CASE Saving(r)
  <2> DEFINE at == IF run[r].raw = 0 \/ run[r].stored = 0 THEN "failed" ELSE "finish"
  <2>1. Covered(Summary("saving", run[r].stored))
    BY <1>1, <1>2, MetaCovered DEF IInv
  <2>2. Covered(meta)' /\ status' = status
    BY <1>1, <1>3, <2>1 DEF Saving, WriteMeta, Covered
  <2>3. DoneIsComplete'
    BY <1>1, <2>2, DoneStaysComplete DEF IInv
  <2>4. run' = [run EXCEPT ![r] = [run[r] EXCEPT !.at = at]]
    BY <1>3 DEF Saving, Move
  <2>5. /\ run'[r].meta = run[r].meta /\ run'[r].chunk = run[r].chunk
        /\ run'[r].failed = run[r].failed /\ run'[r].stored = run[r].stored
        /\ run'[r].at = at
    <3> HIDE DEF at
    <3>1. QED
      BY <1>1, <2>4 DEF Run
  <2>6. at = "failed" \/ (at = "finish" /\ run[r].stored > 0)
    BY <1>1
  <2>7. RunCovered(r)'
    <3> HIDE DEF at
    <3>1. QED
      BY <1>1, <1>2, <2>5, <2>6 DEF RunCovered, Covered, OnChunk
  <2>8. QED
    <3> HIDE DEF at
    <3>1. QED
      BY <1>1, <2>2, <2>3, <2>4, <2>7, StepOfRun
<1>4. CASE Finish(r)
  <2>1. Covered(Summary("done", run[r].stored))
    BY <1>1, <1>2, MetaCovered DEF IInv
  <2>2. Covered(meta)'
    BY <1>1, <1>4, <2>1 DEF Finish, Covered
  <2>3. DoneIsComplete'
    BY <1>1, <1>2, <1>4 DEF Finish, DoneIsComplete, RunCovered
  <2>4. run' = [run EXCEPT ![r] = [run[r] EXCEPT !.at = "notify"]]
    BY <1>4 DEF Finish, Move
  <2>5. /\ run'[r].meta = run[r].meta /\ run'[r].chunk = run[r].chunk
        /\ run'[r].failed = run[r].failed /\ run'[r].stored = run[r].stored
        /\ run'[r].at = "notify"
    BY <1>1, <2>4 DEF Run
  <2>6. RunCovered(r)'
    BY <1>1, <1>2, <2>5 DEF RunCovered, Covered, OnChunk
  <2>7. QED
    BY <1>1, <2>2, <2>3, <2>4, <2>6, StepOfRun
<1>5. CASE Notify(r)
  <2>1. Covered(meta)' /\ DoneIsComplete'
    BY <1>1, <1>5, DoneStaysComplete DEF IInv, Notify, flyer, Covered
  <2>2. run' = [run EXCEPT ![r] = Ended]
    BY <1>5 DEF Notify
  <2>3. RunCovered(r)'
    BY <1>1, <2>2, IdleRunCovered DEF IInv, Ended
  <2>4. QED
    BY <1>1, <2>1, <2>2, <2>3, StepOfRun
<1>6. QED
  BY <1>3, <1>4, <1>5

(* Errors, and what _handle_error makes of them.                           *)
LEMMA ErrorInv ==
  ASSUME IInv, TypeOK', NEW r \in Runs, Fail(r) \/ Die(r) \/ HandleError(r) \/ Settle(r)
  PROVE  ExtractionInv'
<1>1. /\ run[r] \in Run /\ run \in [Runs -> Run] /\ RunCovered(r) /\ DoneIsComplete
      /\ Covered(meta) /\ saved' = saved /\ meta \in Meta
      /\ run[r].failed \in 0 .. Chunks /\ run[r].meta \in Meta
  BY DEF IInv, TypeOK, Run, ExtractionInv, Fail, Die, HandleError, Settle
<1>2. CASE Fail(r)
  <2>1. Covered(meta)' /\ DoneIsComplete'
    BY <1>1, <1>2, DoneStaysComplete DEF IInv, Fail, flyer, Covered
  <2>2. run' = [run EXCEPT ![r] = [run[r] EXCEPT !.at = "failed"]]
    BY <1>2 DEF Fail, Move
  <2>3. /\ run'[r].meta = run[r].meta /\ run'[r].chunk = run[r].chunk
        /\ run'[r].failed = run[r].failed /\ run'[r].stored = run[r].stored
        /\ run'[r].at = "failed"
    BY <1>1, <2>2 DEF Run
  <2>4. RunCovered(r)'
    BY <1>1, <2>3 DEF RunCovered, Covered, OnChunk
  <2>5. QED
    BY <1>1, <2>1, <2>2, <2>4, StepOfRun
<1>3. CASE Die(r)
  <2>1. Covered(meta)' /\ DoneIsComplete'
    BY <1>1, <1>3, DoneStaysComplete DEF IInv, Die, flyer, Covered
  <2>2. run' = [run EXCEPT ![r] = Ended]
    BY <1>3 DEF Die
  <2>3. RunCovered(r)'
    BY <1>1, <2>2, IdleRunCovered DEF IInv, Ended
  <2>4. QED
    BY <1>1, <2>1, <2>2, <2>3, StepOfRun
<1>4. CASE HandleError(r)
  <2> DEFINE m == ErrorMeta(meta, run[r].failed)
  <2>1. Covered(m)
    BY <1>1, MetaCovered DEF IInv, RunCovered
  <2>2. Covered(meta)' /\ DoneIsComplete'
    BY <1>1, <1>4, DoneStaysComplete DEF IInv, HandleError, flyer, Covered
  <2>3. run' = [run EXCEPT ![r] = [Unused EXCEPT !.at = "settle", !.meta = m]]
    BY <1>4 DEF HandleError
  <2>4. /\ run'[r].meta = m /\ run'[r].chunk = 0 /\ run'[r].failed = 0
        /\ run'[r].stored = 0 /\ run'[r].at = "settle"
    <3> HIDE DEF m
    <3>1. QED
      BY <1>1, <2>3 DEF Unused
  <2>5. RunCovered(r)'
    <3> HIDE DEF m
    <3>1. QED
      BY <1>1, <2>1, <2>4 DEF RunCovered, Covered, OnChunk
  <2>6. QED
    <3> HIDE DEF m
    <3>1. QED
      BY <1>1, <2>2, <2>3, <2>5, StepOfRun
<1>5. CASE Settle(r)
  <2> DEFINE m == run[r].meta
  <2>1. Covered(m) /\ m \in Meta
    BY <1>1 DEF RunCovered
  <2>2. Finalizes(m) => IF Pdf THEN saved = Chunk ELSE saved # {}
    <3>1. CASE Pdf /\ Finalizes(m)
      <4>1. m.last \in 0 .. Chunks /\ saved \subseteq Chunk /\ Chunks \in Nat
        BY <2>1, ExtractionAssumption DEF Meta, IInv, TypeOK
      <4>2. m.last >= Chunks
        BY <3>1 DEF Finalizes
      <4>3. m.last = Chunks
        BY <4>1, <4>2
      <4>4. Chunk \subseteq saved
        BY <2>1, <4>3 DEF Covered, Chunk
      <4>5. QED
        BY <3>1, <4>1, <4>4
    <3>2. CASE ~Pdf /\ Finalizes(m)
      <4>1. StoredBefore(m) \in Nat
        BY <2>1, MetaTypes
      <4>2. QED
        BY <2>1, <3>2, <4>1 DEF Finalizes, Covered
    <3>3. QED
      BY <3>1, <3>2
  <2>3. Covered([m EXCEPT !.resume = FALSE])
    BY <2>1 DEF Covered, StoredBefore, Meta
  <2>4. Covered(meta)'
    <3>1. Covered(meta')
      BY <1>1, <1>5, <2>1, <2>3 DEF Settle
    <3>2. QED
      BY <1>1, <3>1 DEF Covered
  <2>5. DoneIsComplete'
    BY <1>1, <1>5, <2>2 DEF Settle, DoneIsComplete
  <2>6. run' = [run EXCEPT ![r] = Ended]
    BY <1>5 DEF Settle
  <2>7. RunCovered(r)'
    BY <1>1, <2>6, IdleRunCovered DEF IInv, Ended
  <2>8. QED
    BY <1>1, <2>4, <2>5, <2>6, <2>7, StepOfRun
<1>6. QED
  BY <1>2, <1>3, <1>4, <1>5

LEMMA RestartInv ==
  ASSUME IInv, TypeOK', Restart
  PROVE  ExtractionInv'
<1> DEFINE killed == [r \in Runs |-> IF Live(r) THEN Ended ELSE run[r]]
<1>1. /\ run \in [Runs -> Run] /\ DoneIsComplete /\ Covered(meta) /\ saved' = saved
      /\ meta \in Meta /\ \A r \in Runs : RunCovered(r)
  BY DEF IInv, TypeOK, ExtractionInv, Restart
<1>2. status' \in {status, "error"}
  BY DEF Restart
<1>3. DoneIsComplete'
  BY <1>1, <1>2, DoneStaysComplete DEF IInv
<1>4. Covered(meta)'
  <2>1. /\ meta'.last = meta.last /\ meta'.next = meta.next
        /\ meta'.partial = meta.partial /\ meta'.found = meta.found
    BY <1>1 DEF Restart, Meta
  <2>2. QED
    BY <1>1, <2>1 DEF Covered, StoredBefore
<1>5. ASSUME NEW r \in Runs
      PROVE  RunCovered(r)'
  <2>1. \/ run'[r] = run[r]
        \/ run'[r] = [Unused EXCEPT !.at = "ended"]
        \/ run'[r] = [Unused EXCEPT !.at = "resume"]
    <3>1. killed[r] \in {run[r], [Unused EXCEPT !.at = "ended"]}
      BY DEF Ended
    <3>2. CASE run' = killed
      BY <3>1, <3>2
    <3>3. CASE \E q \in Runs : Fresh(q) /\ run' = [killed EXCEPT ![q].at = "resume"]
      <4>1. PICK q \in Runs : Fresh(q) /\ run' = [killed EXCEPT ![q].at = "resume"]
        BY <3>3
      <4>2. killed[q] = Unused
        BY <4>1 DEF Fresh, Live, Unused
      <4>3. CASE r = q
        BY <4>1, <4>2, <4>3
      <4>4. CASE r # q
        BY <3>1, <4>1, <4>4
      <4>5. QED
        BY <4>3, <4>4
    <3>4. QED
      BY <3>2, <3>3 DEF Restart
  <2>2. QED
    BY <1>1, <2>1, RunCoveredStays, IdleRunCovered DEF IInv
<1>6. QED
  BY <1>3, <1>4, <1>5 DEF ExtractionInv

LEMMA OtherInv ==
  ASSUME IInv, TypeOK', ChangeFlyerDates \/ ChangeOfferDates \/ Age \/ UNCHANGED vars
  PROVE  ExtractionInv'
<1>1. saved' = saved /\ run' = run /\ meta' = meta /\ status' = status
  BY DEF ChangeFlyerDates, ChangeOfferDates, Age, flyer, vars
<1>2. QED
  BY <1>1 DEF IInv, ExtractionInv, RunCovered, Covered, DoneIsComplete

LEMMA InvStep == IInv /\ [Next]_vars => IInv'
<1> SUFFICES ASSUME IInv, [Next]_vars
             PROVE  IInv'
  OBVIOUS
<1>1. TypeOK'
  BY TypeStep
<1>2. ASSUME NEW r \in Runs, Trigger(r) \/ RunStep(r) \/ Fail(r) \/ Die(r)
      PROVE  ExtractionInv'
  <2>1. CASE Trigger(r) \/ StartResume(r) \/ Fetch(r)
    BY <1>1, <2>1, StartInv
  <2>2. CASE Begin(r) \/ OpenChunk(r) \/ Checkpoint(r) \/ CloseChunk(r)
    BY <1>1, <2>2, BeginInv, ChunkInv
  <2>3. CASE Answer(r) \/ ProviderFails(r) \/ Persist(r)
    BY <1>1, <2>3, AnswerInv, PersistInv
  <2>4. CASE Saving(r) \/ Finish(r) \/ Notify(r)
    BY <1>1, <2>4, EndInv
  <2>5. CASE Fail(r) \/ Die(r) \/ HandleError(r) \/ Settle(r)
    BY <1>1, <2>5, ErrorInv
  <2>6. QED
    BY <1>2, <2>1, <2>2, <2>3, <2>4, <2>5 DEF RunStep
<1>3. ASSUME Restart
      PROVE  ExtractionInv'
  BY <1>1, <1>3, RestartInv
<1>4. ASSUME ChangeFlyerDates \/ ChangeOfferDates \/ Age \/ UNCHANGED vars
      PROVE  ExtractionInv'
  BY <1>1, <1>4, OtherInv
<1>5. ExtractionInv'
  BY <1>2, <1>3, <1>4 DEF Next
<1>6. QED
  BY <1>1, <1>5 DEF IInv

LEMMA InvInit == Init => IInv
<1> SUFFICES ASSUME Init
             PROVE  IInv
  OBVIOUS
<1>1. NoMeta \in Meta /\ Covered(NoMeta)
  BY MetaTypes DEF Covered, NoMeta, StoredBefore
<1>2. TypeOK
  <2>1. run \in [Runs -> Run]
    BY RunTypes DEF Init
  <2>2. offers \in [Valid -> {NoRow} \cup 0 .. MaxDates]
    BY DEF Init
  <2>3. dates \in 0 .. MaxDates /\ count \in Nat
    BY ExtractionAssumption DEF Init
  <2>4. meta \in Meta /\ saved \subseteq Chunk
    BY <1>1 DEF Init
  <2>5. QED
    BY <2>1, <2>2, <2>3, <2>4 DEF Init, TypeOK
<1>3. ASSUME NEW r \in Runs
      PROVE  RunCovered(r)
  <2>1. /\ run[r].meta = NoMeta /\ run[r].chunk = 0 /\ run[r].failed = 0
        /\ run[r].stored = 0 /\ run[r].at = "unused"
    BY DEF Init, Unused
  <2>2. QED
    BY <1>1, <2>1 DEF RunCovered, OnChunk
<1>4. QED
  BY <1>1, <1>2, <1>3 DEF IInv, ExtractionInv, DoneIsComplete, Init

-----------------------------------------------------------------------------
(* The variables keep their types: no checkpoint points behind the file,   *)
(* no counter of service.py becomes negative.                              *)
THEOREM TypeCorrect == Spec => []TypeOK
<1>1. IInv => TypeOK
  BY DEF IInv
<1>2. QED
  BY <1>1, InvInit, InvStep, PTL DEF Spec

(* Every checkpoint, in the database or in the memory of a run, covers     *)
(* chunks whose offers _persist_products has stored.                       *)
THEOREM CheckpointsHold == Spec => []ExtractionInv
<1>1. IInv => ExtractionInv
  BY DEF IInv
<1>2. QED
  BY <1>1, InvInit, InvStep, PTL DEF Spec

(* A flyer is "done" only when the offers of all its chunks are stored,    *)
(* with any number of chunks, overlapping runs, failed calls and restarts. *)
THEOREM DoneMeansComplete == Spec => []DoneIsComplete
<1>1. IInv => DoneIsComplete
  BY DEF IInv, ExtractionInv
<1>2. QED
  BY <1>1, InvInit, InvStep, PTL DEF Spec

-----------------------------------------------------------------------------
(* One run at a time.  Until a request overtakes a run, the guard of       *)
(* trigger_extraction and the recovery at startup keep runs apart, and     *)
(* then nobody else writes the metadata that a run relies on.              *)

(* The chunk to go on with is the one after the last completed one.        *)
Contiguous(m) == m.last < Chunks => m.next = m.last + 1 \/ (m.last = 0 /\ m.next = 0)

(* Where a run may still be when the flyer is done.                        *)
Late == {"notify", "failed", "settle"}

(* What the flyer says while a run is alive, and what the run knows about  *)
(* the metadata: the chunk it asks for or failed at is the next one, and   *)
(* an error after the end of an extraction leaves the flyer done.          *)
Solo(r) ==
  /\ Live(r) => \/ status = "processing"
                \/ status = "error" /\ run[r].at = "resume"
                \/ status = "done" /\ run[r].at \in Late
  /\ Contiguous(run[r].meta)
  /\ Pdf /\ run[r].at = "ask" => meta.last = run[r].chunk - 1
  /\ run[r].failed > 0 => /\ Pdf /\ run[r].at = "failed"
                          /\ meta.last = run[r].failed - 1
  /\ Pdf /\ status = "done" /\ run[r].at = "settle" => Finalizes(run[r].meta)

OnlyRun == \A r, q \in Runs : Live(r) /\ Live(q) => r = q
SoloInv ==
  /\ OnlyRun
  /\ Contiguous(meta)
  /\ Pdf /\ status = "done" => Finalizes(meta)
  /\ \A r \in Runs : Solo(r)
ApartInv == overtaken \/ SoloInv

(* The operators on the metadata keep it contiguous.                       *)
LEMMA MetaContiguous ==
  /\ Contiguous(NoMeta)
  /\ \A k \in 0 .. Chunks : \A n, raw : Contiguous(Extracting(k, n, raw))
  /\ \A stage, n : Contiguous(Summary(stage, n))
  /\ \A m \in Meta : \A failed \in {0, m.last + 1} :
       Contiguous(m) => Contiguous(ErrorMeta(m, failed))
<1>1. Contiguous(NoMeta)
  BY DEF Contiguous, NoMeta
<1>2. ASSUME NEW k \in 0 .. Chunks, NEW n, NEW raw
      PROVE  Contiguous(Extracting(k, n, raw))
  BY ExtractionAssumption DEF Contiguous, Extracting
<1>3. ASSUME NEW stage, NEW n
      PROVE  Contiguous(Summary(stage, n))
  <2>1. Summary(stage, n).last = AllChunks /\ Summary(stage, n).next = 0
    BY DEF Summary, NoMeta
  <2>2. QED
    BY <2>1, ExtractionAssumption DEF Contiguous, AllChunks
<1>4. ASSUME NEW m \in Meta, NEW failed \in {0, m.last + 1}, Contiguous(m)
      PROVE  Contiguous(ErrorMeta(m, failed))
  <2>1. m.last \in Nat /\ m.next \in Nat
    BY ExtractionAssumption DEF Meta
  <2>2. /\ ErrorMeta(m, failed).last = m.last
        /\ ErrorMeta(m, failed).next \in {m.next, m.last + 1}
    BY <2>1 DEF ErrorMeta, Meta
  <2>3. QED
    BY <1>4, <2>1, <2>2 DEF Contiguous
<1>5. QED
  BY <1>1, <1>2, <1>3, <1>4

(* An error leaves the metadata of a finished extraction finished.         *)
LEMMA StillFinalizes ==
  ASSUME Pdf, NEW m \in Meta, Finalizes(m), NEW failed \in 0 .. Chunks
  PROVE  Finalizes(ErrorMeta(m, failed))
<1>1. StoredBefore(m) \in Nat /\ StoredBefore(m) >= 1 /\ m.last >= Chunks
  BY MetaTypes DEF Finalizes
<1>2. ErrorMeta(m, failed).last = m.last
  BY DEF ErrorMeta, Meta
<1>3. StoredBefore(ErrorMeta(m, failed)) = StoredBefore(m)
  BY <1>1 DEF ErrorMeta, Meta, StoredBefore
<1>4. QED
  BY <1>1, <1>2, <1>3 DEF Finalizes

(* A step of the only live run: the others rest.                           *)
LEMMA SoloStep ==
  ASSUME TypeOK, SoloInv, NEW r \in Runs, Live(r), NEW x,
         run' = [run EXCEPT ![r] = x],
         Contiguous(meta'), Pdf /\ status' = "done" => Finalizes(meta'), Solo(r)'
  PROVE  SoloInv'
<1>1. ASSUME NEW q \in Runs, q # r
      PROVE  ~Live(q)' /\ Solo(q)'
  <2>1. run'[q] = run[q] /\ ~Live(q) /\ Solo(q)
    BY <1>1 DEF TypeOK, SoloInv, OnlyRun
  <2>2. run[q].failed \in Nat /\ ~(run[q].failed > 0)
    BY <2>1, ExtractionAssumption DEF Solo, Live, TypeOK, Run
  <2>3. QED
    BY <2>1, <2>2 DEF Solo, Live
<1>2. (Pdf /\ status = "done" => Finalizes(meta))' /\ Contiguous(meta)'
  BY DEF Finalizes, Contiguous, StoredBefore
<1>3. OnlyRun'
  BY <1>1 DEF OnlyRun
<1>4. QED
  BY <1>1, <1>2, <1>3 DEF SoloInv

(* The same for a step after which the flyer is still being processed.     *)
LEMMA WorkingStep ==
  ASSUME TypeOK, SoloInv, NEW r \in Runs, Live(r), NEW x,
         run' = [run EXCEPT ![r] = x],
         status' = "processing", Contiguous(meta'), Contiguous(x.meta),
         Pdf /\ x.at = "ask" => meta'.last = x.chunk - 1,
         \/ x.failed = 0
         \/ Pdf /\ x.at = "failed" /\ meta'.last = x.failed - 1
  PROVE  SoloInv'
<1>1. run'[r] = x
  BY DEF TypeOK
<1>2. Solo(r)'
  BY <1>1 DEF Solo, Contiguous
<1>3. QED
  BY <1>2, SoloStep

(* A request that overtakes no run finds none alive.                       *)
LEMMA TriggerSolo ==
  ASSUME TypeOK, SoloInv, NEW r \in Runs, Trigger(r), ~overtaken'
  PROVE  SoloInv'
<1>1. /\ run' = [run EXCEPT ![r] = [Unused EXCEPT !.at = "fetch"]]
      /\ status' = "processing" /\ meta' = meta
      /\ \A q \in Runs : Live(q) => ~stale /\ run[q].at # "resume"
      /\ status \in {"pending", "error"} \/ stale
  BY DEF Trigger, Schedule, Overtakes, StaleProcessing
<1>2. \A q \in Runs : ~Live(q)
  BY <1>1 DEF SoloInv, Solo
<1>3. ASSUME NEW q \in Runs, q # r
      PROVE  ~Live(q)' /\ Solo(q)'
  <2>1. run'[q] = run[q] /\ Solo(q)
    BY <1>1, <1>3 DEF TypeOK, SoloInv
  <2>2. run[q].failed \in Nat /\ ~(run[q].failed > 0)
    BY <1>2, <2>1, ExtractionAssumption DEF Solo, Live, TypeOK, Run
  <2>3. QED
    BY <1>1, <1>2, <2>1, <2>2 DEF Solo, Live
<1>4. Solo(r)'
  <2>1. /\ run'[r].meta = NoMeta /\ run'[r].failed = 0 /\ run'[r].at = "fetch"
    BY <1>1 DEF TypeOK, Unused
  <2>2. QED
    BY <1>1, <2>1, MetaContiguous DEF Solo, Contiguous
<1>5. QED
  BY <1>1, <1>3, <1>4 DEF SoloInv, OnlyRun, Contiguous

LEMMA StartSolo ==
  ASSUME TypeOK, SoloInv, NEW r \in Runs, StartResume(r) \/ Fetch(r)
  PROVE  SoloInv'
<1>1. /\ run[r] \in Run /\ Live(r) /\ Solo(r) /\ Contiguous(meta) /\ meta' = meta
      /\ run[r].failed \in Nat
  <2>1. Solo(r) /\ Contiguous(meta)
    BY DEF SoloInv
  <2>2. run[r] \in Run /\ run[r].failed \in Nat
    BY ExtractionAssumption DEF TypeOK, Run
  <2>3. Live(r) /\ meta' = meta
    BY DEF StartResume, Fetch, Live, flyer
  <2>4. QED
    BY <2>1, <2>2, <2>3
<1>2. run[r].failed = 0
  BY <1>1 DEF Solo, StartResume, Fetch
<1>3. CASE StartResume(r)
  <2>1. run' = [run EXCEPT ![r] = [run[r] EXCEPT !.at = "fetch"]]
    BY <1>3 DEF StartResume, Move
  <2>2. status' = "processing"
    BY <1>3 DEF StartResume
  <2>3. /\ [run[r] EXCEPT !.at = "fetch"].meta = run[r].meta
        /\ [run[r] EXCEPT !.at = "fetch"].failed = 0
        /\ [run[r] EXCEPT !.at = "fetch"].at = "fetch"
    BY <1>1, <1>2 DEF Run
  <2>4. QED
    BY <1>1, <2>1, <2>2, <2>3, WorkingStep DEF Solo
<1>4. CASE Fetch(r)
  <2> DEFINE x == [run[r] EXCEPT !.at = "begin", !.meta = meta, !.dates = dates]
  <2>1. run' = [run EXCEPT ![r] = x]
    BY <1>4 DEF Fetch
  <2>2. status' = "processing"
    BY <1>1, <1>4 DEF Fetch, Solo, Late, flyer
  <2>3. x.meta = meta /\ x.failed = 0 /\ x.at = "begin"
    BY <1>1, <1>2 DEF Run
  <2>4. QED
    <3> HIDE DEF x
    <3>1. QED
      BY <1>1, <2>1, <2>2, <2>3, WorkingStep
<1>5. QED
  BY <1>3, <1>4

(* The steps of the pipeline, until the flyer is done.                     *)
LEMMA PipelineSolo ==
  ASSUME IInv, SoloInv, NEW r \in Runs,
         \/ Begin(r) \/ OpenChunk(r) \/ Answer(r) \/ ProviderFails(r) \/ Persist(r)
         \/ Checkpoint(r) \/ CloseChunk(r) \/ Saving(r)
  PROVE  SoloInv'
<1>1. /\ run[r] \in Run /\ run[r].meta \in Meta /\ run[r].failed \in Nat
      /\ run[r].chunk \in 0 .. Chunks /\ TypeOK /\ RunCovered(r) /\ Solo(r)
      /\ Contiguous(meta)
  BY ExtractionAssumption DEF IInv, TypeOK, Run, ExtractionInv, SoloInv
<1>2. /\ run[r].at \in OnChunk \cup {"begin", "saving"}
      /\ status' = status
  BY DEF Begin, OpenChunk, Answer, ProviderFails, Persist, Checkpoint, CloseChunk, Saving,
         WriteMeta, flyer, OnChunk
<1>3. /\ Live(r) /\ status' = "processing" /\ run[r].failed = 0
      /\ Contiguous(run[r].meta)
  BY <1>1, <1>2 DEF Live, Solo, Late, OnChunk
<1>4. /\ run[r].at \in OnChunk => run[r].chunk \in Chunk
      /\ run[r].at = "open" => run[r].chunk - 1 \in 0 .. Chunks
  BY <1>1, ExtractionAssumption DEF RunCovered, OnChunk, Chunk
<1>5. CASE Begin(r)
  <2> DEFINE start == StartChunk(run[r].meta)
             stored == StoredBefore(run[r].meta)
             x == [run[r] EXCEPT !.at = IF Pdf THEN "open" ELSE "ask", !.chunk = start,
                                 !.stored = stored, !.meta = NoMeta]
  <2>1. start - 1 \in 0 .. Chunks
    <3>1. start \in Chunk
      BY <1>1, MetaTypes
    <3>2. QED
      BY <3>1, ExtractionAssumption DEF Chunk
  <2>2. Contiguous(meta')
    BY <1>5, <2>1, MetaContiguous DEF Begin, WriteMeta
  <2>3. run' = [run EXCEPT ![r] = x]
    BY <1>5 DEF Begin
  <2>4. x.meta = NoMeta /\ x.failed = 0 /\ (Pdf => x.at = "open")
    BY <1>1, <1>3 DEF Run
  <2>5. QED
    <3> HIDE DEF x
    <3>1. QED
      BY <1>1, <1>2, <1>3, <2>2, <2>3, <2>4, MetaContiguous, WorkingStep
<1>6. CASE OpenChunk(r)
  <2> DEFINE x == [run[r] EXCEPT !.at = "ask"]
  <2>1. meta' = Extracting(run[r].chunk - 1, run[r].stored, run[r].raw)
    BY <1>6 DEF OpenChunk, WriteMeta
  <2>2. Contiguous(meta') /\ meta'.last = run[r].chunk - 1
    BY <1>4, <1>6, <2>1, MetaContiguous DEF OpenChunk, Extracting
  <2>3. run' = [run EXCEPT ![r] = x]
    BY <1>6 DEF OpenChunk, Move
  <2>4. x.meta = run[r].meta /\ x.failed = 0 /\ x.chunk = run[r].chunk
    BY <1>1, <1>3 DEF Run
  <2>5. QED
    <3> HIDE DEF x
    <3>1. QED
      BY <1>1, <1>2, <1>3, <2>2, <2>3, <2>4, WorkingStep
<1>7. CASE Answer(r)
  <2>1. PICK a \in Answers[run[r].chunk] :
          run' = [run EXCEPT ![r] = [run[r] EXCEPT !.at = "persist", !.answer = a]]
    BY <1>7 DEF Answer
  <2>2. /\ [run[r] EXCEPT !.at = "persist", !.answer = a].meta = run[r].meta
        /\ [run[r] EXCEPT !.at = "persist", !.answer = a].failed = 0
        /\ [run[r] EXCEPT !.at = "persist", !.answer = a].at = "persist"
    BY <1>1, <1>3 DEF Run
  <2>3. meta' = meta
    BY <1>7 DEF Answer, flyer
  <2>4. QED
    BY <1>1, <1>2, <1>3, <2>1, <2>2, <2>3, WorkingStep
<1>8. CASE ProviderFails(r)
  <2> DEFINE x == IF Pdf THEN [run[r] EXCEPT !.at = "failed", !.failed = run[r].chunk]
                  ELSE [run[r] EXCEPT !.at = "persist", !.answer = {}]
  <2>1. run' = [run EXCEPT ![r] = x]
    BY <1>8 DEF ProviderFails
  <2>2. /\ x.meta = run[r].meta
        /\ Pdf => x.at = "failed" /\ x.failed = run[r].chunk
        /\ ~Pdf => x.at = "persist" /\ x.failed = 0
    BY <1>1, <1>3 DEF Run
  <2>3. meta' = meta /\ (Pdf => meta'.last = run[r].chunk - 1)
    BY <1>1, <1>8 DEF ProviderFails, flyer, Solo
  <2>4. QED
    <3> HIDE DEF x
    <3>1. QED
      BY <1>1, <1>2, <1>3, <2>1, <2>2, <2>3, WorkingStep
<1>9. CASE Persist(r)
  <2> DEFINE rows == run[r].answer \cap Valid
             next == IF Pdf THEN "checkpoint" ELSE "saving"
             found == IF Pdf THEN run[r].raw ELSE Cardinality(run[r].answer)
             x == [run[r] EXCEPT !.stored = run[r].stored + Cardinality(rows),
                                 !.at = next, !.raw = found]
  <2>1. run' = [run EXCEPT ![r] = x]
    BY <1>9 DEF Persist
  <2>2. x.meta = run[r].meta /\ x.failed = 0 /\ x.at = next
    <3> HIDE DEF rows, next, found
    <3>1. QED
      BY <1>1, <1>3 DEF Run
  <2>3. meta' = meta /\ x.at # "ask"
    BY <1>9, <2>2 DEF Persist, flyer
  <2>4. QED
    <3> HIDE DEF x
    <3>1. QED
      BY <1>1, <1>2, <1>3, <2>1, <2>2, <2>3, WorkingStep
<1>10. CASE Checkpoint(r)
  <2> DEFINE x == [run[r] EXCEPT !.at = "report"]
  <2>1. Contiguous(meta')
    BY <1>1, <1>10, MetaContiguous DEF Checkpoint, WriteMeta
  <2>2. run' = [run EXCEPT ![r] = x]
    BY <1>10 DEF Checkpoint, Move
  <2>3. x.meta = run[r].meta /\ x.failed = 0 /\ x.at = "report"
    BY <1>1, <1>3 DEF Run
  <2>4. QED
    <3> HIDE DEF x
    <3>1. QED
      BY <1>1, <1>2, <1>3, <2>1, <2>2, <2>3, WorkingStep
<1>11. CASE CloseChunk(r)
  <2> DEFINE raw == run[r].raw + Cardinality(run[r].answer)
             next == IF run[r].chunk < Chunks THEN "open" ELSE "saving"
             after == IF run[r].chunk < Chunks THEN run[r].chunk + 1 ELSE run[r].chunk
             x == [run[r] EXCEPT !.raw = raw, !.answer = {}, !.chunk = after, !.at = next]
  <2>1. Contiguous(meta')
    BY <1>1, <1>11, MetaContiguous DEF CloseChunk, WriteMeta
  <2>2. run' = [run EXCEPT ![r] = x]
    BY <1>11 DEF CloseChunk
  <2>3. x.meta = run[r].meta /\ x.failed = 0 /\ x.at = next
    <3> HIDE DEF raw, next, after
    <3>1. QED
      BY <1>1, <1>3 DEF Run
  <2>4. next # "ask"
    OBVIOUS
  <2>5. QED
    <3> HIDE DEF x, next
    <3>1. QED
      BY <1>1, <1>2, <1>3, <2>1, <2>2, <2>3, <2>4, WorkingStep
<1>12. CASE Saving(r)
  <2> DEFINE next == IF run[r].raw = 0 \/ run[r].stored = 0 THEN "failed" ELSE "finish"
             x == [run[r] EXCEPT !.at = next]
  <2>1. Contiguous(meta')
    BY <1>12, MetaContiguous DEF Saving, WriteMeta
  <2>2. run' = [run EXCEPT ![r] = x]
    BY <1>12 DEF Saving, Move
  <2>3. x.meta = run[r].meta /\ x.failed = 0 /\ x.at = next
    <3> HIDE DEF next
    <3>1. QED
      BY <1>1, <1>3 DEF Run
  <2>4. next # "ask"
    OBVIOUS
  <2>5. QED
    <3> HIDE DEF x, next
    <3>1. QED
      BY <1>1, <1>2, <1>3, <2>1, <2>2, <2>3, <2>4, WorkingStep
<1>13. QED
  BY <1>5, <1>6, <1>7, <1>8, <1>9, <1>10, <1>11, <1>12

(* The end of an extraction: the metadata of a PDF that is done says so.   *)
LEMMA EndSolo ==
  ASSUME IInv, TypeOK', SoloInv, NEW r \in Runs, Finish(r) \/ Notify(r)
  PROVE  SoloInv'
<1>1. /\ run[r] \in Run /\ run[r].failed \in Nat /\ run[r].stored \in Nat /\ TypeOK
      /\ RunCovered(r) /\ Solo(r) /\ Contiguous(meta)
      /\ Pdf /\ status = "done" => Finalizes(meta)
  BY ExtractionAssumption DEF IInv, TypeOK, Run, ExtractionInv, SoloInv
<1>2. Live(r) /\ run[r].at \in {"finish", "notify"}
  BY DEF Finish, Notify, Live
<1>3. run[r].failed = 0 /\ Contiguous(run[r].meta)
  BY <1>1, <1>2 DEF Solo
<1>4. CASE Finish(r)
  <2> DEFINE x == [run[r] EXCEPT !.at = "notify"]
  <2>1. run' = [run EXCEPT ![r] = x] /\ status' = "done"
    BY <1>4 DEF Finish, Move
  <2>2. meta' = Summary("done", run[r].stored) /\ run[r].stored > 0
    BY <1>1, <1>4 DEF Finish, RunCovered
  <2>3. Pdf => Finalizes(meta')
    <3>1. meta'.partial = run[r].stored /\ meta'.last = AllChunks
      BY <2>2 DEF Summary, NoMeta
    <3>2. QED
      BY <1>1, <2>2, <3>1, ExtractionAssumption DEF Finalizes, StoredBefore, AllChunks
  <2>4. run'[r].meta = run[r].meta /\ run'[r].failed = 0 /\ run'[r].at = "notify"
    BY <1>1, <1>3, <2>1 DEF Run, TypeOK
  <2>5. Solo(r)'
    BY <1>3, <2>1, <2>4 DEF Solo, Late, Contiguous
  <2>6. Contiguous(meta')
    BY <2>2, MetaContiguous
  <2>7. QED
    <3> HIDE DEF x
    <3>1. QED
      BY <1>1, <1>2, <2>1, <2>3, <2>5, <2>6, SoloStep
<1>5. CASE Notify(r)
  <2>1. run' = [run EXCEPT ![r] = Ended] /\ meta' = meta /\ status' = status
    BY <1>5 DEF Notify, flyer
  <2>2. run'[r].meta = NoMeta /\ run'[r].failed = 0 /\ run'[r].at = "ended"
    BY <2>1 DEF TypeOK, IInv, Ended, Unused
  <2>3. Solo(r)'
    BY <2>2, MetaContiguous DEF Solo, Live, Contiguous
  <2>4. QED
    BY <1>1, <1>2, <2>1, <2>3, SoloStep
<1>6. QED
  BY <1>4, <1>5

(* Errors: they leave a PDF that is done as it is.                         *)
LEMMA ErrorSolo ==
  ASSUME IInv, TypeOK', SoloInv, NEW r \in Runs,
         Fail(r) \/ Die(r) \/ HandleError(r) \/ Settle(r)
  PROVE  SoloInv'
<1>1. /\ run[r] \in Run /\ run[r].failed \in 0 .. Chunks /\ run[r].meta \in Meta
      /\ meta \in Meta /\ run \in [Runs -> Run]
      /\ TypeOK /\ Solo(r) /\ Contiguous(meta) /\ Contiguous(run[r].meta)
      /\ Pdf /\ status = "done" => Finalizes(meta)
  BY DEF IInv, TypeOK, Run, SoloInv, Solo
<1>2. Live(r)
  BY DEF Fail, Die, HandleError, Settle, Live
<1>3. ASSUME run' = [run EXCEPT ![r] = Ended]
      PROVE  Solo(r)'
  <2>1. run'[r].meta = NoMeta /\ run'[r].failed = 0 /\ run'[r].at = "ended"
    BY <1>1, <1>3 DEF Ended, Unused
  <2>2. QED
    BY <2>1, MetaContiguous DEF Solo, Live, Contiguous
<1>4. CASE Fail(r)
  <2>1. /\ run' = [run EXCEPT ![r] = [run[r] EXCEPT !.at = "failed"]]
        /\ run[r].at \notin {"resume", "failed", "settle"}
        /\ meta' = meta /\ status' = status
    BY <1>4 DEF Fail, Move, flyer
  <2>2. run[r].failed = 0 /\ status \in {"processing", "done"}
    BY <1>1, <1>2, <2>1, ExtractionAssumption DEF Solo
  <2>3. /\ run'[r].meta = run[r].meta /\ run'[r].failed = 0
        /\ run'[r].at = "failed"
    BY <1>1, <2>1, <2>2 DEF Run
  <2>4. Solo(r)'
    BY <1>1, <2>1, <2>2, <2>3 DEF Solo, Late, Contiguous
  <2>5. QED
    BY <1>1, <1>2, <2>1, <2>4, SoloStep
<1>5. CASE Die(r)
  <2>1. run' = [run EXCEPT ![r] = Ended] /\ meta' = meta /\ status' = status
    BY <1>5 DEF Die, flyer
  <2>2. QED
    BY <1>1, <1>2, <1>3, <2>1, SoloStep
<1>6. CASE HandleError(r)
  <2> DEFINE m == ErrorMeta(meta, run[r].failed)
  <2>1. /\ run' = [run EXCEPT ![r] = [Unused EXCEPT !.at = "settle", !.meta = m]]
        /\ meta' = meta /\ status' = status /\ run[r].at = "failed"
    BY <1>6 DEF HandleError, flyer
  <2>2. run[r].failed \in {0, meta.last + 1} /\ status \in {"processing", "done"}
    <3>1. meta.last \in Nat /\ run[r].failed \in Nat
      BY <1>1, ExtractionAssumption DEF Meta
    <3>2. QED
      BY <1>1, <1>2, <2>1, <3>1 DEF Solo
  <2>3. Contiguous(m) /\ (Pdf /\ status = "done" => Finalizes(m))
    BY <1>1, <2>2, MetaContiguous, StillFinalizes
  <2>4. run'[r].meta = m /\ run'[r].failed = 0 /\ run'[r].at = "settle"
    <3> HIDE DEF m
    <3>1. QED
      BY <1>1, <2>1 DEF Unused
  <2>5. Solo(r)'
    <3> HIDE DEF m
    <3>1. Contiguous(run[r].meta)' /\ (Pdf /\ status = "done" => Finalizes(run[r].meta))'
      BY <2>1, <2>3, <2>4 DEF Contiguous, Finalizes, StoredBefore
    <3>2. QED
      BY <2>1, <2>2, <2>4, <3>1 DEF Solo, Late
  <2>6. QED
    <3> HIDE DEF m
    <3>1. QED
      BY <1>1, <1>2, <2>1, <2>5, SoloStep
<1>7. CASE Settle(r)
  <2> DEFINE m == run[r].meta
  <2>1. run' = [run EXCEPT ![r] = Ended] /\ run[r].at = "settle"
    BY <1>7 DEF Settle
  <2>2. /\ Contiguous([m EXCEPT !.resume = FALSE])
        /\ Finalizes(m) => Finalizes([m EXCEPT !.resume = FALSE])
    BY <1>1 DEF Contiguous, Finalizes, StoredBefore, Meta
  <2>3. Contiguous(meta') /\ (status' = "done" => Finalizes(meta'))
    BY <1>1, <1>7, <2>2 DEF Settle
  <2>4. QED
    BY <1>1, <1>2, <1>3, <2>1, <2>3, SoloStep
<1>8. QED
  BY <1>4, <1>5, <1>6, <1>7

(* A restart kills the run, and schedules at most one.                     *)
LEMMA RestartSolo ==
  ASSUME IInv, TypeOK', SoloInv, Restart
  PROVE  SoloInv'
<1> DEFINE killed == [r \in Runs |-> IF Live(r) THEN Ended ELSE run[r]]
<1>1. /\ meta \in Meta /\ run \in [Runs -> Run] /\ Contiguous(meta)
      /\ Pdf /\ status = "done" => Finalizes(meta)
      /\ \A r \in Runs : Solo(r)
  BY DEF IInv, TypeOK, SoloInv
<1>2. meta'.last = meta.last /\ meta'.next = meta.next
  BY <1>1 DEF Restart, Meta
<1>3. Contiguous(meta)'
  BY <1>1, <1>2 DEF Contiguous
<1>4. ~(status = "processing") => status' = status /\ meta' = meta /\ run' = killed
  BY DEF Restart
<1>5. status = "processing" => status' = "error"
  BY DEF Restart
<1>6. (Pdf /\ status = "done" => Finalizes(meta))'
  BY <1>1, <1>4, <1>5 DEF Finalizes, StoredBefore
<1>7. ASSUME NEW r \in Runs
      PROVE  /\ killed[r].at \in {"unused", "ended"}
             /\ killed[r].failed = 0 /\ Contiguous(killed[r].meta)
  <2>1. CASE Live(r)
    BY <2>1, MetaContiguous DEF Ended, Unused
  <2>2. CASE ~Live(r)
    <3>1. run[r].failed \in 0 .. Chunks
      BY <1>1 DEF Run
    <3>2. QED
      BY <1>1, <2>2, <3>1, ExtractionAssumption DEF Solo, Live
  <2>3. QED
    BY <2>1, <2>2
<1>8. CASE run' = killed
  <2>1. \A r \in Runs : /\ run'[r].at \in {"unused", "ended"}
                        /\ run'[r].failed = 0 /\ Contiguous(run'[r].meta)
    BY <1>7, <1>8
  <2>2. \A r \in Runs : ~Live(r)' /\ Solo(r)'
    BY <2>1 DEF Live, Solo, Contiguous
  <2>3. QED
    BY <1>3, <1>6, <2>2 DEF SoloInv, OnlyRun
<1>9. CASE /\ status = "processing"
           /\ \E r \in Runs : Fresh(r) /\ run' = [killed EXCEPT ![r].at = "resume"]
  <2>1. PICK r \in Runs : Fresh(r) /\ run' = [killed EXCEPT ![r].at = "resume"]
    BY <1>9
  <2>2. killed[r] = Unused
    BY <2>1 DEF Fresh, Live, Unused
  <2>3. run'[r] = [Unused EXCEPT !.at = "resume"]
    BY <2>1, <2>2
  <2>4. run'[r].meta = NoMeta /\ run'[r].failed = 0 /\ run'[r].at = "resume"
    BY <2>3 DEF Unused
  <2>5. Solo(r)'
    BY <1>5, <1>9, <2>4, MetaContiguous DEF Solo, Contiguous
  <2>6. ASSUME NEW q \in Runs, q # r
        PROVE  ~Live(q)' /\ Solo(q)'
    <3>1. run'[q] = killed[q]
      BY <2>1, <2>6
    <3>2. /\ run'[q].at \in {"unused", "ended"}
          /\ run'[q].failed = 0 /\ Contiguous(run'[q].meta)
      BY <1>7, <3>1
    <3>3. QED
      BY <3>2 DEF Live, Solo, Contiguous
  <2>7. QED
    BY <1>3, <1>6, <2>5, <2>6 DEF SoloInv, OnlyRun
<1>10. QED
  BY <1>8, <1>9 DEF Restart

LEMMA OtherSolo ==
  ASSUME SoloInv, ChangeFlyerDates \/ ChangeOfferDates \/ Age \/ UNCHANGED vars
  PROVE  SoloInv'
<1>1. run' = run /\ meta' = meta /\ status' = status
  BY DEF ChangeFlyerDates, ChangeOfferDates, Age, flyer, vars
<1>2. \A r \in Runs : Solo(r)' /\ (Live(r)' <=> Live(r))
  BY <1>1 DEF Solo, Live, Contiguous, Finalizes, StoredBefore, SoloInv
<1>3. QED
  BY <1>1, <1>2 DEF SoloInv, OnlyRun, Contiguous, Finalizes, StoredBefore

LEMMA SoloKept ==
  ASSUME IInv, IInv', SoloInv, [Next]_vars, ~overtaken'
  PROVE  SoloInv'
<1>1. TypeOK /\ TypeOK'
  BY DEF IInv
<1>2. ASSUME NEW r \in Runs, Trigger(r) \/ RunStep(r) \/ Fail(r) \/ Die(r)
      PROVE  SoloInv'
  BY <1>1, <1>2, TriggerSolo, StartSolo, PipelineSolo, EndSolo, ErrorSolo DEF RunStep
<1>3. CASE Restart
  BY <1>1, <1>3, RestartSolo
<1>4. CASE ChangeFlyerDates \/ ChangeOfferDates \/ Age \/ UNCHANGED vars
  BY <1>4, OtherSolo
<1>5. QED
  BY <1>2, <1>3, <1>4 DEF Next

(* No step takes back that a run was overtaken.                            *)
LEMMA HistoryGrows ==
  ASSUME TypeOK, [Next]_vars
  PROVE  (overtaken => overtaken') /\ (recounted => recounted')
<1>1. ASSUME NEW r \in Runs, Trigger(r) \/ Begin(r)
      PROVE  (overtaken => overtaken') /\ (recounted => recounted')
  <2>1. CASE Trigger(r)
    <3>1. overtaken' = (overtaken \/ Overtakes) /\ recounted' = recounted
      BY <2>1 DEF Trigger
    <3>2. QED
      BY <3>1, Zenon
  <2>2. CASE Begin(r)
    <3>1. /\ overtaken' = overtaken
          /\ recounted' = (recounted \/ (StartChunk(run[r].meta) = 1
                                          /\ StoredBefore(run[r].meta) > 0))
      BY <2>2 DEF Begin
    <3>2. QED
      BY <3>1, Zenon
  <2>3. QED
    BY <1>1, <2>1, <2>2
<1>2. ASSUME NEW r \in Runs, RunStep(r) \/ Fail(r) \/ Die(r), ~Begin(r)
      PROVE  UNCHANGED history
  BY <1>2 DEF RunStep, StartResume, Fetch, OpenChunk, Answer, ProviderFails, Persist,
              Checkpoint, CloseChunk, Saving, Finish, Notify, Fail, HandleError, Settle, Die,
              rest
<1>3. CASE Restart \/ ChangeFlyerDates \/ ChangeOfferDates \/ Age \/ UNCHANGED vars
  BY <1>3 DEF Restart, ChangeFlyerDates, ChangeOfferDates, Age, vars, rest, history
<1>4. QED
  BY <1>1, <1>2, <1>3 DEF Next, history

LEMMA SoloInit == Init => SoloInv
<1> SUFFICES ASSUME Init
             PROVE  SoloInv
  OBVIOUS
<1>1. \A r \in Runs : run[r].at = "unused" /\ run[r].failed = 0 /\ run[r].meta = NoMeta
  BY DEF Init, Unused
<1>2. Contiguous(meta) /\ status = "pending"
  BY MetaContiguous DEF Init
<1>3. \A r \in Runs : ~Live(r) /\ Solo(r)
  BY <1>1, <1>2, MetaContiguous DEF Live, Solo
<1>4. QED
  BY <1>2, <1>3 DEF SoloInv, OnlyRun

LEMMA ApartStep == IInv /\ ApartInv /\ [Next]_vars => (IInv /\ ApartInv)'
<1> SUFFICES ASSUME IInv, ApartInv, [Next]_vars
             PROVE  IInv' /\ ApartInv'
  OBVIOUS
<1>1. IInv'
  BY InvStep
<1>2. ~overtaken' => SoloInv /\ SoloInv'
  BY <1>1, HistoryGrows, SoloKept DEF ApartInv, IInv
<1>3. QED
  BY <1>1, <1>2 DEF ApartInv

LEMMA ApartInvariant == Spec => [](IInv /\ ApartInv)
<1>1. Init => IInv /\ ApartInv
  BY InvInit, SoloInit DEF ApartInv
<1>2. QED
  BY <1>1, ApartStep, PTL DEF Spec

(* Only one run of a flyer is alive, through errors, kills and recoveries, *)
(* until a request overtakes a run that waits for the provider or in the   *)
(* queue: trigger_extraction answers 409 while the flyer is processed, and *)
(* the recovery at startup finds no other run.                             *)
THEOREM FlyersHaveOneRun == Spec => []OneLiveRun
<1>1. ApartInv => OneLiveRun
  BY DEF ApartInv, SoloInv, OnlyRun, OneLiveRun
<1>2. QED
  BY <1>1, ApartInvariant, PTL

(* A PDF whose run was not overtaken stays done, also when a call fails    *)
(* after the end of the pipeline: _handle_error finds the metadata of an   *)
(* extraction that has ended.                                              *)
THEOREM DoneFlyersStay ==
  ASSUME Pdf
  PROVE  Spec => DoneUnlessOvertaken
<1>1. IInv /\ ApartInv /\ [Next]_vars
        => [status = "done" /\ ~overtaken => status' = "done"]_vars
  <2> SUFFICES ASSUME IInv, SoloInv, [Next]_vars, status = "done"
               PROVE  status' = "done"
    BY DEF ApartInv
  <2>1. ASSUME NEW r \in Runs, RunStep(r) \/ Fail(r) \/ Die(r)
        PROVE  status' = "done"
    <3>1. run[r].at \in Late \cup {"unused", "ended"} /\ Solo(r)
      BY DEF SoloInv, Solo, Live
    <3>2. CASE Settle(r)
      BY <3>1, <3>2 DEF Settle, Solo
    <3>3. CASE Notify(r) \/ HandleError(r) \/ Fail(r) \/ Die(r)
      BY <3>3 DEF Notify, HandleError, Fail, Die, flyer
    <3>4. QED
      BY <2>1, <3>1, <3>2, <3>3
         DEF RunStep, Late, StartResume, Fetch, Begin, OpenChunk, Answer, ProviderFails,
             Persist, Checkpoint, CloseChunk, Saving, Finish
  <2>2. \A r \in Runs : ~Trigger(r)
    BY DEF Trigger, StaleProcessing
  <2>3. CASE Restart \/ ChangeFlyerDates \/ ChangeOfferDates \/ Age \/ UNCHANGED vars
    BY <2>3 DEF Restart, ChangeFlyerDates, ChangeOfferDates, Age, flyer, vars
  <2>4. QED
    BY <2>1, <2>2, <2>3 DEF Next
<1>2. QED
  BY <1>1, ApartInvariant, PTL DEF Spec, DoneUnlessOvertaken

(* A run that no other overlaps goes on with the chunk after the last one  *)
(* that was completed: _resume_state neither repeats nor skips one while   *)
(* some are left, whatever has failed or was killed before.                *)
THEOREM RunsGoOnAfterCheckpoint == Spec => ResumesAfterCheckpoint
<1>1. ASSUME IInv, ApartInv, [Next]_vars, NEW r \in Runs, Begin(r),
             run[r].meta.last < Chunks, ~overtaken
      PROVE  run'[r].chunk = run[r].meta.last + 1
  <2>1. /\ run[r] \in Run /\ run[r].meta \in Meta /\ run \in [Runs -> Run]
        /\ Contiguous(run[r].meta)
    BY <1>1 DEF IInv, TypeOK, Run, ApartInv, SoloInv, Solo
  <2>2. run'[r].chunk = StartChunk(run[r].meta)
    <3> DEFINE start == StartChunk(run[r].meta)
               stored == StoredBefore(run[r].meta)
               x == [run[r] EXCEPT !.at = IF Pdf THEN "open" ELSE "ask", !.chunk = start,
                                   !.stored = stored, !.meta = NoMeta]
    <3>1. run' = [run EXCEPT ![r] = x]
      BY <1>1 DEF Begin
    <3>2. x.chunk = start
      BY <2>1 DEF Run
    <3>3. QED
      BY <2>1, <3>1, <3>2
  <2>3. run[r].meta.last \in Nat /\ Chunks \in Nat /\ (~Pdf => Chunks = 1)
    BY <2>1, ExtractionAssumption DEF Meta
  <2>4. run[r].meta.next = run[r].meta.last + 1 \/ (run[r].meta.last = 0 /\ run[r].meta.next = 0)
    BY <1>1, <2>1 DEF Contiguous
  <2>5. StartChunk(run[r].meta) = run[r].meta.last + 1
    BY <1>1, <2>3, <2>4 DEF StartChunk, Chunk
  <2>6. QED
    BY <2>2, <2>5
<1>2. IInv /\ ApartInv /\ [Next]_vars =>
        [\A r \in Runs :
           Begin(r) /\ run[r].meta.last < Chunks /\ ~overtaken =>
             run'[r].chunk = run[r].meta.last + 1]_vars
  BY <1>1
<1>3. QED
  BY <1>2, ApartInvariant, PTL DEF Spec, ResumesAfterCheckpoint

-----------------------------------------------------------------------------
(* The count of products.  A chunk is answered with the same products each *)
(* time, which no other chunk has, and with a valid one if with any.       *)
RowsOf(k) == UNION {a \cap Valid : a \in Answers[k]}
UpTo(k) == UNION {RowsOf(i) : i \in 1 .. k}
Total(k) == Cardinality(UpTo(k))
OneChunkEach ==
  /\ \A k \in Chunk : \A a \in Answers[k] : /\ a \cap Valid = RowsOf(k)
                                            /\ RowsOf(k) = {} => a = {}
  /\ \A k, i \in Chunk : k # i => RowsOf(k) \cap RowsOf(i) = {}

(* Metadata and runs count the products of the chunks they have completed, *)
(* until a run begins at the first chunk with products counted.            *)
Counted(m) == StoredBefore(m) = Total(m.last) /\ (m.last = Chunks => m.next = 0)

Counts(r) ==
  /\ Counted(run[r].meta)
  /\ run[r].at \in {"resume", "fetch", "begin"} => run[r].raw = 0
  /\ run[r].at \in {"open", "ask", "persist"} => run[r].stored = Total(run[r].chunk - 1)
  /\ run[r].at \in {"checkpoint", "report"} =>
       run[r].stored = Total(run[r].chunk) /\ (run[r].stored = 0 => run[r].answer = {})
  /\ run[r].at \in OnChunk /\ run[r].stored = 0 => run[r].raw = 0
  /\ run[r].at = "persist" => run[r].answer \in Answers[run[r].chunk]
  /\ run[r].at \in {"saving", "finish"} => run[r].stored = Total(Chunks)
  /\ run[r].at = "settle" => run[r].meta.last = meta.last

CountInv ==
  /\ {p \in Valid : offers[p] # NoRow} = UNION {RowsOf(k) : k \in saved}
  /\ Counted(meta)
  /\ status = "done" => count = Total(Chunks)
  /\ \A r \in Runs : Counts(r)

LEMMA Totals ==
  /\ \A k \in 0 .. Chunks : Total(k) \in Nat
  /\ Total(0) = 0
  /\ OneChunkEach => \A k \in Chunk : Total(k) = Total(k - 1) + Cardinality(RowsOf(k))
<1>1. \A k \in 0 .. Chunks : IsFiniteSet(UpTo(k))
  <2>1. \A k \in 0 .. Chunks : UpTo(k) \subseteq Products
    BY ExtractionAssumption DEF UpTo, RowsOf
  <2>2. QED
    BY <2>1, ExtractionAssumption, FS_Subset
<1>2. Total(0) = 0
  <2>1. UpTo(0) = {}
    BY DEF UpTo
  <2>2. QED
    BY <2>1, FS_EmptySet DEF Total
<1>3. ASSUME OneChunkEach, NEW k \in Chunk
      PROVE  Total(k) = Total(k - 1) + Cardinality(RowsOf(k))
  <2>1. k - 1 \in 0 .. Chunks /\ k \in 0 .. Chunks /\ 1 .. k = (1 .. k - 1) \cup {k}
    BY ExtractionAssumption DEF Chunk
  <2>2. UpTo(k) = UpTo(k - 1) \cup RowsOf(k)
    BY <2>1 DEF UpTo
  <2>3. \A i \in 1 .. k - 1 : RowsOf(i) \cap RowsOf(k) = {}
    BY <1>3, ExtractionAssumption DEF OneChunkEach, Chunk
  <2>4. UpTo(k - 1) \cap RowsOf(k) = {}
    BY <2>3 DEF UpTo
  <2>5. IsFiniteSet(RowsOf(k)) /\ IsFiniteSet(UpTo(k - 1))
    BY <1>1, <2>1, <2>2, FS_Subset
  <2>6. Cardinality(UpTo(k - 1) \cap RowsOf(k)) = 0
    BY <2>4, FS_EmptySet
  <2>7. Cardinality(UpTo(k - 1)) \in Nat /\ Cardinality(RowsOf(k)) \in Nat
    BY <2>5, FS_CardinalityType
  <2>8. Cardinality(UpTo(k - 1) \cup RowsOf(k)) =
          Cardinality(UpTo(k - 1)) + Cardinality(RowsOf(k)) - Cardinality(UpTo(k - 1) \cap RowsOf(k))
    BY <2>5, FS_Union
  <2>9. QED
    BY <2>2, <2>6, <2>7, <2>8 DEF Total
<1>4. QED
  BY <1>1, <1>2, <1>3, FS_CardinalityType DEF Total

(* What the operators on the metadata count.                               *)
LEMMA MetaCounted ==
  /\ Counted(NoMeta)
  /\ \A k \in 0 .. Chunks, n, raw \in Nat :
       n = Total(k) /\ (n = 0 => raw = 0) => Counted(Extracting(k, n, raw))
  /\ Pdf => \A stage : Counted(Summary(stage, Total(Chunks)))
  /\ \A m \in Meta : \A failed \in {0, m.last + 1} \cap (0 .. Chunks) :
       Counted(m) => /\ Counted(ErrorMeta(m, failed))
                     /\ ErrorMeta(m, failed).last = m.last
<1>1. Counted(NoMeta)
  BY Totals, ExtractionAssumption DEF Counted, NoMeta, StoredBefore
<1>2. ASSUME NEW k \in 0 .. Chunks, NEW n \in Nat, NEW raw \in Nat,
             n = Total(k), n = 0 => raw = 0
      PROVE  Counted(Extracting(k, n, raw))
  BY <1>2, ExtractionAssumption DEF Counted, StoredBefore, Extracting, AtLeast
<1>3. ASSUME Pdf, NEW stage
      PROVE  Counted(Summary(stage, Total(Chunks)))
  <2> DEFINE m == Summary(stage, Total(Chunks))
  <2>1. /\ m.last = Chunks /\ m.next = 0 /\ m.partial = Total(Chunks)
        /\ m.found \in {0, Total(Chunks)}
    BY <1>3 DEF Summary, NoMeta, AllChunks
  <2>2. Total(Chunks) \in Nat
    BY Totals, ExtractionAssumption
  <2>3. QED
    <3>1. Counted(m)
      <4> HIDE DEF m
      <4>1. QED
        BY <2>1, <2>2 DEF Counted, StoredBefore
    <3>2. QED
      BY <3>1
<1>4. ASSUME NEW m \in Meta, NEW failed \in {0, m.last + 1} \cap (0 .. Chunks), Counted(m)
      PROVE  /\ Counted(ErrorMeta(m, failed))
             /\ ErrorMeta(m, failed).last = m.last
  <2>1. /\ ErrorMeta(m, failed).last = m.last
        /\ m.last \in 0 .. Chunks /\ m.next \in 0 .. Chunks
    BY DEF ErrorMeta, Meta
  <2>2. StoredBefore(ErrorMeta(m, failed)) = StoredBefore(m)
    BY DEF ErrorMeta, Meta, StoredBefore
  <2>3. m.last = Chunks => ErrorMeta(m, failed).next = 0
    BY <1>4, <2>1, ExtractionAssumption DEF ErrorMeta, Counted, Meta
  <2>4. QED
    BY <1>4, <2>1, <2>2, <2>3 DEF Counted
<1>5. QED
  BY <1>1, <1>2, <1>3, <1>4

(* A step of the only live run.                                            *)
LEMMA CountStep ==
  ASSUME TypeOK, SoloInv, CountInv, NEW r \in Runs, Live(r), NEW x,
         run' = [run EXCEPT ![r] = x], Counts(r)', Counted(meta'),
         {p \in Valid : offers'[p] # NoRow} = UNION {RowsOf(k) : k \in saved'},
         status' = "done" => count' = Total(Chunks)
  PROVE  CountInv'
<1>1. ASSUME NEW q \in Runs, q # r
      PROVE  Counts(q)'
  <2>1. run'[q] = run[q] /\ ~Live(q) /\ Counts(q)
    BY <1>1 DEF TypeOK, SoloInv, OnlyRun, CountInv
  <2>2. Counted(run'[q].meta)
    BY <2>1 DEF Counts
  <2>3. run'[q].at \in {"unused", "ended"}
    BY <2>1 DEF Live
  <2>4. QED
    BY <2>2, <2>3 DEF Counts, OnChunk, Counted, StoredBefore
<1>2. QED
  BY <1>1 DEF CountInv, Counted, StoredBefore

LEMMA TriggerCounts ==
  ASSUME TypeOK, CountInv, NEW r \in Runs, Trigger(r)
  PROVE  CountInv'
<1>1. /\ run' = [run EXCEPT ![r] = [Unused EXCEPT !.at = "fetch"]]
      /\ status' = "processing" /\ meta' = meta /\ offers' = offers /\ saved' = saved
  BY DEF Trigger, Schedule
<1>2. run'[r].meta = NoMeta /\ run'[r].at = "fetch" /\ run'[r].raw = 0
  BY <1>1 DEF TypeOK, Unused
<1>3. Counts(r)'
  <2>1. Counted(run'[r].meta)
    BY <1>2, MetaCounted
  <2>2. QED
    BY <1>1, <1>2, <2>1 DEF Counts, Counted, StoredBefore, OnChunk
<1>4. ASSUME NEW q \in Runs, q # r
      PROVE  Counts(q)'
  <2>1. run'[q] = run[q] /\ Counts(q)
    BY <1>1, <1>4 DEF TypeOK, CountInv
  <2>2. QED
    BY <1>1, <2>1 DEF Counts, Counted, StoredBefore
<1>5. QED
  BY <1>1, <1>3, <1>4 DEF CountInv, Counted, StoredBefore

LEMMA PipelineCounts ==
  ASSUME Pdf, OneChunkEach, IInv, SoloInv, CountInv, ~recounted', NEW r \in Runs,
         \/ StartResume(r) \/ Fetch(r) \/ Begin(r) \/ OpenChunk(r) \/ Answer(r)
         \/ ProviderFails(r) \/ Persist(r) \/ Checkpoint(r) \/ CloseChunk(r) \/ Saving(r)
  PROVE  CountInv'
<1>1. /\ run[r] \in Run /\ run[r].meta \in Meta /\ run[r].failed \in Nat
      /\ run[r].stored \in Nat /\ run[r].raw \in Nat /\ run[r].answer \in SUBSET Products
      /\ run[r].chunk \in 0 .. Chunks /\ TypeOK /\ RunCovered(r) /\ Solo(r)
      /\ meta \in Meta /\ run \in [Runs -> Run]
      /\ Counts(r) /\ Counted(meta) /\ Chunks \in Nat \ {0}
  BY ExtractionAssumption DEF IInv, TypeOK, Run, ExtractionInv, SoloInv, CountInv
<1>2. /\ run[r].at \in OnChunk => run[r].chunk \in Chunk /\ run[r].chunk - 1 \in 0 .. Chunks
      /\ Counted(run[r].meta) /\ Total(Chunks) \in Nat
  BY <1>1, ExtractionAssumption, Totals DEF RunCovered, OnChunk, Chunk, Counts
<1>3. /\ run[r].at \in OnChunk \cup {"resume", "fetch", "begin", "saving"}
      /\ status' = IF run[r].at = "resume" THEN "processing" ELSE status
      /\ ~Persist(r) => offers' = offers /\ saved' = saved
  BY <1>1 DEF StartResume, Fetch, Begin, OpenChunk, Answer, ProviderFails, Persist, Checkpoint,
         CloseChunk, Saving, WriteMeta, flyer, OnChunk
<1>4. Live(r) /\ status' = "processing"
  BY <1>1, <1>3 DEF Live, Solo, Late, OnChunk, Counts
<1>5. ASSUME NEW x, run' = [run EXCEPT ![r] = x], Counts(r)', Counted(meta'),
             {p \in Valid : offers'[p] # NoRow} = UNION {RowsOf(k) : k \in saved'}
      PROVE  CountInv'
  BY <1>1, <1>4, <1>5, CountStep
<1>6. ASSUME ~Persist(r)
      PROVE  {p \in Valid : offers'[p] # NoRow} = UNION {RowsOf(k) : k \in saved'}
  BY <1>3, <1>6 DEF CountInv
<1>7. CASE StartResume(r)
  <2> DEFINE x == [run[r] EXCEPT !.at = "fetch"]
  <2>1. run' = [run EXCEPT ![r] = x] /\ meta' = meta /\ ~Persist(r) /\ run[r].at = "resume"
    BY <1>7 DEF StartResume, Move, Persist
  <2>2. x.at = "fetch" /\ x.meta = run[r].meta /\ x.raw = run[r].raw /\ run'[r] = x
    BY <1>1, <2>1 DEF Run
  <2>3. Counts(r)'
    <3> HIDE DEF x
    <3>1. QED
      BY <1>1, <2>1, <2>2 DEF Counts, Counted, StoredBefore, OnChunk
  <2>4. Counted(meta')
    BY <1>1, <2>1
  <2>5. QED
    <3> HIDE DEF x
    <3>1. QED
      BY <1>5, <1>6, <2>1, <2>3, <2>4
<1>8. CASE Fetch(r)
  <2> DEFINE x == [run[r] EXCEPT !.at = "begin", !.meta = meta, !.dates = dates]
  <2>1. run' = [run EXCEPT ![r] = x] /\ meta' = meta /\ ~Persist(r) /\ run[r].at = "fetch"
    BY <1>8 DEF Fetch, flyer, Persist
  <2>2. x.at = "begin" /\ x.meta = meta /\ x.raw = run[r].raw
    BY <1>1 DEF Run
  <2>3. run'[r] = x
    BY <1>1, <2>1
  <2>4. Counts(r)'
    <3> HIDE DEF x
    <3>1. QED
      BY <1>1, <2>1, <2>2, <2>3 DEF Counts, Counted, StoredBefore, OnChunk
  <2>5. Counted(meta')
    BY <1>1, <2>1
  <2>6. QED
    <3> HIDE DEF x
    <3>1. QED
      BY <1>5, <1>6, <2>1, <2>4, <2>5
<1>9. CASE Begin(r)
  <2> DEFINE start == StartChunk(run[r].meta)
             stored == StoredBefore(run[r].meta)
             x == [run[r] EXCEPT !.at = IF Pdf THEN "open" ELSE "ask", !.chunk = start,
                                 !.stored = stored, !.meta = NoMeta]
  <2>1. /\ run' = [run EXCEPT ![r] = x] /\ meta' = Extracting(start - 1, stored, 0)
        /\ ~Persist(r) /\ run[r].at = "begin" /\ ~(start = 1 /\ stored > 0)
    BY <1>9 DEF Begin, WriteMeta, Persist
  <2>2. start \in Chunk /\ start - 1 \in 0 .. Chunks /\ stored \in Nat
    <3>1. start \in Chunk /\ stored \in Nat
      BY <1>1, MetaTypes
    <3>2. QED
      BY <3>1, ExtractionAssumption DEF Chunk
  <2>3. stored = Total(start - 1)
    <3>1. /\ stored = Total(run[r].meta.last)
          /\ run[r].meta.last = Chunks => run[r].meta.next = 0
          /\ run[r].meta.last \in 0 .. Chunks /\ Contiguous(run[r].meta)
      BY <1>1, <1>2, <2>1 DEF Counts, Counted, Meta, Solo
    <3>2. CASE run[r].meta.last = Chunks
      <4>1. start = 1
        BY <3>1, <3>2, ExtractionAssumption DEF StartChunk, Chunk
      <4>2. stored = 0
        BY <2>1, <2>2, <4>1
      <4>3. QED
        BY <4>1, <4>2, Totals
    <3>3. CASE run[r].meta.last < Chunks
      <4>1. start = run[r].meta.last + 1
        BY <1>1, <3>1, <3>3 DEF StartChunk, Chunk, Contiguous
      <4>2. QED
        BY <3>1, <4>1
    <3>4. QED
      BY <1>1, <3>1, <3>2, <3>3
  <2>4. Counted(meta')
    <3> HIDE DEF start, stored
    <3>1. QED
      BY <2>1, <2>2, <2>3, MetaCounted
  <2>5. x.at = "open" /\ x.chunk = start /\ x.stored = stored /\ x.meta = NoMeta
    <3> HIDE DEF start, stored
    <3>1. QED
      BY <1>1 DEF Run
  <2>6. x.raw = 0
    <3> HIDE DEF start, stored
    <3>1. QED
      BY <1>1, <2>1 DEF Run, Counts
  <2>7. run'[r] = x
    BY <1>1, <2>1
  <2>8. Counts(r)'
    <3> HIDE DEF x, start, stored
    <3>1. QED
      BY <2>3, <2>5, <2>6, <2>7, MetaCounted DEF Counts, Counted, StoredBefore
  <2>9. QED
    <3> HIDE DEF x
    <3>1. QED
      BY <1>5, <1>6, <2>1, <2>4, <2>8
<1>10. CASE OpenChunk(r)
  <2> DEFINE x == [run[r] EXCEPT !.at = "ask"]
  <2>1. /\ run' = [run EXCEPT ![r] = x] /\ run[r].at = "open" /\ ~Persist(r)
        /\ meta' = Extracting(run[r].chunk - 1, run[r].stored, run[r].raw)
    BY <1>10 DEF OpenChunk, Move, WriteMeta, Persist
  <2>2. Counted(meta')
    <3>1. /\ run[r].stored = Total(run[r].chunk - 1) /\ (run[r].stored = 0 => run[r].raw = 0)
          /\ run[r].chunk - 1 \in 0 .. Chunks
      BY <1>1, <1>2, <2>1 DEF Counts, OnChunk
    <3>2. QED
      BY <1>1, <2>1, <3>1, MetaCounted
  <2>3. /\ x.at = "ask" /\ x.chunk = run[r].chunk /\ x.stored = run[r].stored
        /\ x.meta = run[r].meta /\ x.raw = run[r].raw /\ run'[r] = x
    BY <1>1, <2>1 DEF Run
  <2>4. Counts(r)'
    <3> HIDE DEF x
    <3>1. QED
      BY <1>1, <2>1, <2>3 DEF Counts, Counted, StoredBefore, OnChunk
  <2>5. QED
    <3> HIDE DEF x
    <3>1. QED
      BY <1>5, <1>6, <2>1, <2>2, <2>4
<1>11. CASE Answer(r)
  <2>1. PICK a \in Answers[run[r].chunk] :
          run' = [run EXCEPT ![r] = [run[r] EXCEPT !.at = "persist", !.answer = a]]
    BY <1>11 DEF Answer
  <2> DEFINE x == [run[r] EXCEPT !.at = "persist", !.answer = a]
  <2>2. meta' = meta /\ run[r].at = "ask" /\ ~Persist(r)
    BY <1>11 DEF Answer, flyer, Persist
  <2>3. /\ x.at = "persist" /\ x.chunk = run[r].chunk /\ x.stored = run[r].stored
        /\ x.meta = run[r].meta /\ x.raw = run[r].raw /\ run'[r] = x /\ x.answer = a
    BY <1>1, <2>1 DEF Run
  <2>4. Counts(r)'
    <3> HIDE DEF x
    <3>1. QED
      BY <1>1, <2>2, <2>3 DEF Counts, Counted, StoredBefore, OnChunk
  <2>5. run' = [run EXCEPT ![r] = x] /\ Counted(meta')
    BY <1>1, <2>1, <2>2
  <2>6. QED
    <3> HIDE DEF x
    <3>1. QED
      BY <1>5, <1>6, <2>2, <2>4, <2>5
<1>12. CASE ProviderFails(r)
  <2> DEFINE x == [run[r] EXCEPT !.at = "failed", !.failed = run[r].chunk]
  <2>1. run' = [run EXCEPT ![r] = x] /\ meta' = meta /\ ~Persist(r)
    BY <1>12 DEF ProviderFails, flyer, Persist
  <2>2. x.at = "failed" /\ x.meta = run[r].meta /\ run'[r] = x
    BY <1>1, <2>1 DEF Run
  <2>3. Counts(r)'
    <3> HIDE DEF x
    <3>1. QED
      BY <1>1, <2>1, <2>2 DEF Counts, Counted, StoredBefore, OnChunk
  <2>4. Counted(meta')
    BY <1>1, <2>1
  <2>5. QED
    <3> HIDE DEF x
    <3>1. QED
      BY <1>5, <1>6, <2>1, <2>3, <2>4
<1>13. CASE Persist(r)
  <2> DEFINE rows == run[r].answer \cap Valid
             x == [run[r] EXCEPT !.stored = run[r].stored + Cardinality(rows),
                                 !.at = "checkpoint", !.raw = run[r].raw]
  <2>1. /\ run' = [run EXCEPT ![r] = x] /\ meta' = meta /\ run[r].at = "persist"
        /\ saved' = saved \cup {run[r].chunk}
        /\ offers' = [p \in Valid |-> IF p \in rows /\ offers[p] = NoRow THEN run[r].dates
                                      ELSE offers[p]]
    BY <1>13 DEF Persist, flyer
  <2>2. /\ run[r].chunk \in Chunk /\ run[r].answer \in Answers[run[r].chunk]
        /\ run[r].stored = Total(run[r].chunk - 1)
        /\ run[r].stored = 0 => run[r].raw = 0
    BY <1>1, <1>2, <2>1 DEF Counts, OnChunk
  <2>3. rows = RowsOf(run[r].chunk) /\ (rows = {} => run[r].answer = {})
    BY <2>2 DEF OneChunkEach
  <2>4. {p \in Valid : offers'[p] # NoRow} = UNION {RowsOf(k) : k \in saved'}
    <3>1. run[r].dates # NoRow
      BY <1>1, ExtractionAssumption DEF Run, NoRow
    <3>2. {p \in Valid : offers'[p] # NoRow} = {p \in Valid : offers[p] # NoRow} \cup rows
      BY <2>1, <3>1
    <3>3. {p \in Valid : offers[p] # NoRow} = UNION {RowsOf(k) : k \in saved}
      BY DEF CountInv
    <3>4. QED
      <4> HIDE DEF rows
      <4>1. QED
        BY <2>1, <2>3, <3>2, <3>3
  <2>5. Cardinality(rows) \in Nat /\ (Cardinality(rows) = 0 => rows = {})
    <3>1. IsFiniteSet(rows)
      BY <1>1, ExtractionAssumption, FS_Subset
    <3>2. QED
      BY <3>1, FS_CardinalityType, FS_EmptySet
  <2>6. Total(run[r].chunk) = run[r].stored + Cardinality(rows)
    BY <2>2, <2>3, Totals
  <2>7. /\ x.at = "checkpoint" /\ x.chunk = run[r].chunk /\ x.raw = run[r].raw
        /\ x.stored = run[r].stored + Cardinality(rows)
        /\ x.meta = run[r].meta /\ x.answer = run[r].answer /\ run'[r] = x
    <3> HIDE DEF rows
    <3>1. QED
      BY <1>1, <2>1 DEF Run
  <2>8. x.stored = 0 => x.raw = 0 /\ x.answer = {}
    <3> HIDE DEF rows, x
    <3>1. QED
      BY <1>1, <2>2, <2>3, <2>5, <2>7
  <2>9. Counts(r)'
    <3> HIDE DEF rows, x
    <3>1. QED
      BY <1>2, <2>6, <2>7, <2>8 DEF Counts, Counted, StoredBefore, OnChunk
  <2>10. Counted(meta')
    BY <1>1, <2>1
  <2>11. QED
    <3> HIDE DEF x, rows
    <3>1. QED
      BY <1>5, <2>1, <2>4, <2>9, <2>10
<1>14. CASE Checkpoint(r)
  <2> DEFINE x == [run[r] EXCEPT !.at = "report"]
  <2>1. /\ run' = [run EXCEPT ![r] = x] /\ run[r].at = "checkpoint" /\ ~Persist(r)
        /\ meta' = Extracting(run[r].chunk, run[r].stored, 0)
    BY <1>14 DEF Checkpoint, Move, WriteMeta, Persist
  <2>2. Counted(meta')
    <3>1. run[r].stored = Total(run[r].chunk)
      BY <1>1, <2>1 DEF Counts
    <3>2. QED
      BY <1>1, <2>1, <3>1, MetaCounted
  <2>3. /\ x.at = "report" /\ x.chunk = run[r].chunk /\ x.stored = run[r].stored
        /\ x.meta = run[r].meta /\ x.raw = run[r].raw /\ run'[r] = x
        /\ x.answer = run[r].answer
    BY <1>1, <2>1 DEF Run
  <2>4. Counts(r)'
    <3> HIDE DEF x
    <3>1. QED
      BY <1>1, <2>1, <2>3 DEF Counts, Counted, StoredBefore, OnChunk
  <2>5. QED
    <3> HIDE DEF x
    <3>1. QED
      BY <1>5, <1>6, <2>1, <2>2, <2>4
<1>15. CASE CloseChunk(r)
  <2> DEFINE raw == run[r].raw + Cardinality(run[r].answer)
             next == IF run[r].chunk < Chunks THEN "open" ELSE "saving"
             after == IF run[r].chunk < Chunks THEN run[r].chunk + 1 ELSE run[r].chunk
             x == [run[r] EXCEPT !.raw = raw, !.answer = {}, !.chunk = after, !.at = next]
  <2>1. /\ run' = [run EXCEPT ![r] = x] /\ run[r].at = "report" /\ ~Persist(r)
        /\ meta' = Extracting(run[r].chunk, run[r].stored, raw)
    BY <1>15 DEF CloseChunk, WriteMeta, Persist
  <2>2. /\ run[r].chunk \in Chunk /\ run[r].stored = Total(run[r].chunk)
        /\ run[r].stored = 0 => run[r].raw = 0 /\ run[r].answer = {}
    BY <1>1, <1>2, <2>1 DEF Counts, OnChunk
  <2>3. raw \in Nat /\ (run[r].stored = 0 => raw = 0)
    <3>1. Cardinality(run[r].answer) \in Nat
      BY <1>1, AnswerCount
    <3>2. run[r].answer = {} => Cardinality(run[r].answer) = 0
      BY FS_EmptySet
    <3>3. QED
      BY <1>1, <2>2, <3>1, <3>2
  <2>4. Counted(meta')
    <3> HIDE DEF raw
    <3>1. QED
      BY <1>1, <2>1, <2>2, <2>3, MetaCounted
  <2>5. /\ x.at = next /\ x.chunk = after /\ x.stored = run[r].stored
        /\ x.meta = run[r].meta /\ x.raw = raw /\ run'[r] = x
    <3> HIDE DEF raw, next, after
    <3>1. QED
      BY <1>1, <2>1 DEF Run
  <2>6. /\ next \in {"open", "saving"}
        /\ next = "open" => Total(after - 1) = Total(run[r].chunk)
        /\ next = "saving" => run[r].chunk = Chunks
    BY <1>1, <2>2, ExtractionAssumption DEF Chunk
  <2>7. Counts(r)'
    <3> HIDE DEF x, raw, next, after
    <3>1. QED
      BY <1>2, <2>2, <2>3, <2>5, <2>6 DEF Counts, Counted, StoredBefore, OnChunk
  <2>8. QED
    <3> HIDE DEF x, raw
    <3>1. QED
      BY <1>5, <1>6, <2>1, <2>4, <2>7
<1>16. CASE Saving(r)
  <2> DEFINE next == IF run[r].raw = 0 \/ run[r].stored = 0 THEN "failed" ELSE "finish"
             x == [run[r] EXCEPT !.at = next]
  <2>1. /\ run' = [run EXCEPT ![r] = x] /\ run[r].at = "saving" /\ ~Persist(r)
        /\ meta' = Summary("saving", run[r].stored) /\ next \in {"failed", "finish"}
    BY <1>16 DEF Saving, Move, WriteMeta, Persist
  <2>2. run[r].stored = Total(Chunks)
    BY <1>1, <2>1 DEF Counts
  <2>3. Counted(meta')
    BY <2>1, <2>2, MetaCounted
  <2>4. /\ x.at = next /\ x.stored = run[r].stored /\ x.meta = run[r].meta /\ run'[r] = x
    <3> HIDE DEF next
    <3>1. QED
      BY <1>1, <2>1 DEF Run
  <2>5. Counts(r)'
    <3> HIDE DEF x, next
    <3>1. QED
      BY <1>2, <2>1, <2>2, <2>4 DEF Counts, Counted, StoredBefore, OnChunk
  <2>6. QED
    <3> HIDE DEF x
    <3>1. QED
      BY <1>5, <1>6, <2>1, <2>3, <2>5
<1>17. QED
  BY <1>7, <1>8, <1>9, <1>10, <1>11, <1>12, <1>13, <1>14, <1>15, <1>16

(* The ends of a run: the count is that of the metadata.                   *)
LEMMA EndCounts ==
  ASSUME Pdf, IInv, SoloInv, CountInv, NEW r \in Runs,
         \/ Finish(r) \/ Notify(r) \/ Fail(r) \/ Die(r) \/ HandleError(r) \/ Settle(r)
  PROVE  CountInv'
<1>1. /\ run[r] \in Run /\ run[r].meta \in Meta /\ run[r].failed \in 0 .. Chunks
      /\ TypeOK /\ Solo(r) /\ meta \in Meta /\ run \in [Runs -> Run]
      /\ Counts(r) /\ Counted(meta) /\ Chunks \in Nat \ {0}
  BY ExtractionAssumption DEF IInv, TypeOK, Run, SoloInv, CountInv
<1>2. Live(r) /\ offers' = offers /\ saved' = saved
  BY DEF Finish, Notify, Fail, Die, HandleError, Settle, Live
<1>3. {p \in Valid : offers'[p] # NoRow} = UNION {RowsOf(k) : k \in saved'}
  BY <1>2 DEF CountInv
<1>4. ASSUME run' = [run EXCEPT ![r] = Ended]
      PROVE  Counts(r)'
  <2>1. run'[r].meta = NoMeta /\ run'[r].at = "ended"
    BY <1>1, <1>4 DEF Ended, Unused
  <2>2. Counted(run'[r].meta)
    BY <2>1, MetaCounted
  <2>3. QED
    BY <2>1, <2>2 DEF Counts, Counted, StoredBefore, OnChunk
<1>5. CASE Finish(r)
  <2> DEFINE x == [run[r] EXCEPT !.at = "notify"]
  <2>1. /\ run' = [run EXCEPT ![r] = x] /\ run[r].at = "finish" /\ status' = "done"
        /\ meta' = Summary("done", run[r].stored) /\ count' = run[r].stored
    BY <1>5 DEF Finish, Move
  <2>2. run[r].stored = Total(Chunks)
    BY <1>1, <2>1 DEF Counts
  <2>3. Counted(meta')
    BY <2>1, <2>2, MetaCounted
  <2>4. x.at = "notify" /\ x.meta = run[r].meta /\ run'[r] = x
    BY <1>1, <2>1 DEF Run
  <2>5. Counts(r)'
    <3> HIDE DEF x
    <3>1. QED
      BY <1>1, <2>4 DEF Counts, Counted, StoredBefore, OnChunk
  <2>6. QED
    <3> HIDE DEF x
    <3>1. QED
      BY <1>1, <1>2, <1>3, <2>1, <2>2, <2>3, <2>5, CountStep
<1>6. CASE Notify(r) \/ Die(r)
  <2>1. /\ run' = [run EXCEPT ![r] = Ended]
        /\ meta' = meta /\ status' = status /\ count' = count
    BY <1>6 DEF Notify, Die, flyer
  <2>2. QED
    BY <1>1, <1>2, <1>3, <1>4, <2>1, CountStep DEF CountInv
<1>7. CASE Fail(r)
  <2> DEFINE x == [run[r] EXCEPT !.at = "failed"]
  <2>1. /\ run' = [run EXCEPT ![r] = x]
        /\ meta' = meta /\ status' = status /\ count' = count
    BY <1>7 DEF Fail, Move, flyer
  <2>2. x.at = "failed" /\ x.meta = run[r].meta /\ run'[r] = x
    BY <1>1, <2>1 DEF Run
  <2>3. Counts(r)'
    <3> HIDE DEF x
    <3>1. QED
      BY <1>1, <2>2 DEF Counts, Counted, StoredBefore, OnChunk
  <2>4. QED
    <3> HIDE DEF x
    <3>1. QED
      BY <1>1, <1>2, <1>3, <2>1, <2>3, CountStep DEF CountInv
<1>8. CASE HandleError(r)
  <2> DEFINE m == ErrorMeta(meta, run[r].failed)
             x == [Unused EXCEPT !.at = "settle", !.meta = m]
  <2>1. /\ run' = [run EXCEPT ![r] = x] /\ run[r].at = "failed"
        /\ meta' = meta /\ status' = status /\ count' = count
    BY <1>8 DEF HandleError, flyer
  <2>2. run[r].failed \in {0, meta.last + 1} \cap (0 .. Chunks)
    <3>1. meta.last \in Nat /\ run[r].failed \in Nat
      BY <1>1, ExtractionAssumption DEF Meta
    <3>2. QED
      BY <1>1, <3>1 DEF Solo
  <2>3. Counted(m) /\ m.last = meta.last
    BY <1>1, <2>2, MetaCounted
  <2>4. x.at = "settle" /\ x.meta = m /\ run'[r] = x
    <3> HIDE DEF m
    <3>1. QED
      BY <1>1, <2>1 DEF Unused
  <2>5. Counts(r)'
    <3> HIDE DEF x, m
    <3>1. QED
      BY <2>1, <2>3, <2>4 DEF Counts, Counted, StoredBefore, OnChunk
  <2>6. QED
    <3> HIDE DEF x
    <3>1. QED
      BY <1>1, <1>2, <1>3, <2>1, <2>5, CountStep DEF CountInv
<1>9. CASE Settle(r)
  <2> DEFINE m == run[r].meta
  <2>1. run' = [run EXCEPT ![r] = Ended] /\ run[r].at = "settle"
    BY <1>9 DEF Settle
  <2>2. m.last = meta.last /\ Counted(m) /\ StoredBefore(m) \in Nat /\ m.last \in 0 .. Chunks
    BY <1>1, <2>1, MetaTypes DEF Counts, Meta
  <2>3. CASE Finalizes(m)
    <3>1. /\ status' = "done" /\ count' = StoredBefore(m)
          /\ meta' = [m EXCEPT !.resume = FALSE]
      BY <1>9, <2>3 DEF Settle
    <3>2. m.last = Chunks /\ count' = Total(Chunks)
      BY <1>1, <2>2, <2>3, <3>1 DEF Finalizes, Counted
    <3>3. Counted(meta')
      BY <1>1, <2>2, <3>1 DEF Counted, StoredBefore, Meta
    <3>4. QED
      BY <1>1, <1>2, <1>3, <1>4, <2>1, <3>1, <3>2, <3>3, CountStep
  <2>4. CASE ~Finalizes(m)
    <3>1. status' = "error" /\ meta' \in {meta, m}
      BY <1>9, <2>4 DEF Settle
    <3>2. Counted(meta') /\ meta'.last = m.last
      BY <1>1, <2>2, <3>1
    <3>3. QED
      BY <1>1, <1>2, <1>3, <1>4, <2>1, <3>1, <3>2, CountStep
  <2>5. QED
    BY <2>3, <2>4
<1>10. QED
  BY <1>5, <1>6, <1>7, <1>8, <1>9

LEMMA OtherCounts ==
  ASSUME TypeOK, CountInv,
         ChangeFlyerDates \/ ChangeOfferDates \/ Age \/ UNCHANGED vars
  PROVE  CountInv'
<1>1. run' = run /\ meta' = meta /\ status' = status /\ count' = count /\ saved' = saved
  BY DEF ChangeFlyerDates, ChangeOfferDates, Age, flyer, vars
<1>2. {p \in Valid : offers'[p] # NoRow} = {p \in Valid : offers[p] # NoRow}
  <2>1. dates # NoRow
    BY ExtractionAssumption DEF TypeOK, NoRow
  <2>2. CASE ChangeOfferDates
    BY <2>1, <2>2 DEF ChangeOfferDates
  <2>3. CASE ChangeFlyerDates \/ Age \/ UNCHANGED vars
    BY <2>3 DEF ChangeFlyerDates, Age, vars
  <2>4. QED
    BY <2>2, <2>3
<1>3. \A r \in Runs : Counts(r)'
  BY <1>1 DEF CountInv, Counts, Counted, StoredBefore
<1>4. QED
  BY <1>1, <1>2, <1>3 DEF CountInv, Counted, StoredBefore

(* The runs that a restart kills have counted; the one it queues has not.  *)
LEMMA RestartCounts ==
  ASSUME TypeOK, CountInv, Restart
  PROVE  CountInv'
<1> DEFINE killed == [r \in Runs |-> IF Live(r) THEN Ended ELSE run[r]]
<1>1. /\ meta \in Meta /\ run \in [Runs -> Run] /\ Counted(meta)
      /\ count' = count /\ offers' = offers /\ saved' = saved
  BY DEF TypeOK, CountInv, Restart
<1>2. /\ meta'.last = meta.last /\ meta'.next = meta.next
      /\ meta'.partial = meta.partial /\ meta'.found = meta.found
  BY <1>1 DEF Restart, Meta
<1>3. Counted(meta)'
  BY <1>1, <1>2 DEF Counted, StoredBefore
<1>4. status' = "done" => status = "done"
  BY DEF Restart
<1>5. \A r \in Runs : killed[r].at \in {"unused", "ended"} /\ Counted(killed[r].meta)
  <2>1. \A r \in Runs : Counted(run[r].meta)
    BY DEF CountInv, Counts
  <2>2. QED
    BY <1>1, <2>1, MetaCounted DEF Live, Ended, Unused
<1>6. \A r \in Runs : Counts(r)'
  <2>1. CASE run' = killed
    <3>1. \A r \in Runs : run'[r].at \in {"unused", "ended"} /\ Counted(run'[r].meta)
      BY <1>5, <2>1
    <3>2. QED
      BY <3>1 DEF Counts, Counted, StoredBefore, OnChunk
  <2>2. CASE \E r \in Runs : Fresh(r) /\ run' = [killed EXCEPT ![r].at = "resume"]
    <3>1. PICK r \in Runs : Fresh(r) /\ run' = [killed EXCEPT ![r].at = "resume"]
      BY <2>2
    <3>2. killed[r] = Unused
      BY <3>1 DEF Fresh, Live, Unused
    <3>3. run'[r].at = "resume" /\ run'[r].raw = 0 /\ run'[r].meta = NoMeta
      BY <3>1, <3>2 DEF Unused
    <3>4. Counts(r)'
      BY <3>3, MetaCounted DEF Counts, Counted, StoredBefore, OnChunk
    <3>5. ASSUME NEW q \in Runs, q # r
          PROVE  Counts(q)'
      <4>1. run'[q].at \in {"unused", "ended"} /\ Counted(run'[q].meta)
        BY <1>5, <3>1, <3>5
      <4>2. QED
        BY <4>1 DEF Counts, Counted, StoredBefore, OnChunk
    <3>6. QED
      BY <3>4, <3>5
  <2>3. QED
    BY <2>1, <2>2 DEF Restart
<1>7. QED
  BY <1>1, <1>3, <1>4, <1>6 DEF CountInv, Counted, StoredBefore

LEMMA CountKept ==
  ASSUME Pdf, OneChunkEach, IInv, SoloInv, CountInv, ~recounted', [Next]_vars
  PROVE  CountInv'
<1>1. TypeOK
  BY DEF IInv
<1>2. ASSUME NEW r \in Runs, Trigger(r) \/ RunStep(r) \/ Fail(r) \/ Die(r)
      PROVE  CountInv'
  BY <1>1, <1>2, TriggerCounts, PipelineCounts, EndCounts DEF RunStep
<1>3. CASE ChangeFlyerDates \/ ChangeOfferDates \/ Age \/ UNCHANGED vars
  BY <1>1, <1>3, OtherCounts
<1>4. CASE Restart
  BY <1>1, <1>4, RestartCounts
<1>5. QED
  BY <1>2, <1>3, <1>4 DEF Next

LEMMA CountInit == Init => CountInv
<1> SUFFICES ASSUME Init
             PROVE  CountInv
  OBVIOUS
<1>1. {p \in Valid : offers[p] # NoRow} = {} /\ saved = {}
  BY DEF Init
<1>2. \A r \in Runs : run[r].at = "unused" /\ run[r].meta = NoMeta
  BY DEF Init, Unused
<1>3. Counted(NoMeta) /\ meta = NoMeta /\ status = "pending"
  BY MetaCounted DEF Init
<1>4. \A r \in Runs : Counts(r)
  BY <1>2, <1>3 DEF Counts, OnChunk
<1>5. QED
  BY <1>1, <1>3, <1>4 DEF CountInv

(* products_count is the number of offers of a PDF that is done, through   *)
(* errors, kills and recoveries, when its chunks are answered alike each   *)
(* time: unless a run was overtaken, or one has begun at the first chunk   *)
(* with products counted, because the run before it was killed, or failed  *)
(* to settle its error, after the last chunk.                              *)
THEOREM DoneFlyersCountOffers ==
  ASSUME Pdf, OneChunkEach
  PROVE  Spec => []CountsOffers
<1> DEFINE Excused == overtaken \/ recounted \/ CountInv
<1>1. Init => Excused
  BY CountInit
<1>2. IInv /\ ApartInv /\ Excused /\ [Next]_vars => Excused'
  <2> SUFFICES ASSUME IInv, ApartInv, Excused, [Next]_vars, ~overtaken', ~recounted'
               PROVE  CountInv'
    OBVIOUS
  <2>1. ~overtaken /\ ~recounted
    BY HistoryGrows DEF IInv
  <2>2. QED
    BY <2>1, CountKept DEF ApartInv
<1>3. IInv /\ Excused => CountsOffers
  <2> SUFFICES ASSUME IInv, CountInv, status = "done"
               PROVE  count = Cardinality({p \in Valid : offers[p] # NoRow})
    BY DEF CountsOffers
  <2>1. saved = Chunk
    BY DEF IInv, ExtractionInv, DoneIsComplete
  <2>2. {p \in Valid : offers[p] # NoRow} = UpTo(Chunks)
    BY <2>1 DEF CountInv, UpTo, Chunk
  <2>3. QED
    BY <2>2 DEF CountInv, Total
<1>4. QED
  BY <1>1, <1>2, <1>3, ApartInvariant, PTL DEF Spec

-----------------------------------------------------------------------------
(* ChunkOffers.  No two rows of a flyer have the same key, and the key of  *)
(* a row is that of its product, however the provider has written it.      *)
KeysAreUnique == \A p, q \in written : RowKey(p) = RowKey(q) => p = q

LEMMA ChunkStep == KeysAreUnique /\ [ChunkNext]_chunkVars => KeysAreUnique'
<1> SUFFICES ASSUME KeysAreUnique, [ChunkNext]_chunkVars
             PROVE  KeysAreUnique'
  OBVIOUS
<1>1. CASE PersistProducts
  <2> DEFINE new == Inserted(Normalized(products))
  <2>1. written' = written \cup new
    BY <1>1 DEF PersistProducts
  <2>2. ASSUME NEW p \in new, NEW q \in new, RowKey(p) = RowKey(q)
        PROVE  p = q
    BY <2>2 DEF Inserted
  <2>3. ASSUME NEW p \in new, NEW q \in written
        PROVE  RowKey(p) # RowKey(q)
    BY DEF Inserted
  <2>4. QED
    <3> HIDE DEF new
    <3>1. QED
      BY <2>1, <2>2, <2>3 DEF KeysAreUnique
<1>2. CASE StartRun \/ AskChunk \/ AskPage \/ CheckpointChunk \/ RunEnds \/ UNCHANGED chunkVars
  <2>1. written' = written
    BY <1>2 DEF StartRun, AskChunk, AskPage, CheckpointChunk, RunEnds, chunkVars
  <2>2. QED
    BY <2>1 DEF KeysAreUnique
<1>3. QED
  BY <1>1, <1>2 DEF ChunkNext

(* A product with a valid format has one row in the flyer, whichever way   *)
(* the answers of several chunks and runs spell and space it.              *)
THEOREM ProductsHaveOneRow == ChunkSpec => []OneRowPerProduct
<1>1. ChunkInit => KeysAreUnique
  BY DEF ChunkInit, KeysAreUnique
<1>2. KeysAreUnique => OneRowPerProduct
  <2>1. ASSUME NEW p, NEW q, SameProduct(p, q)
        PROVE  RowKey(p) = RowKey(q)
    BY <2>1 DEF SameProduct, RowKey, OfferKey, FormatKey
  <2>2. QED
    BY <2>1 DEF KeysAreUnique, OneRowPerProduct
<1>3. QED
  BY <1>1, <1>2, ChunkStep, PTL DEF ChunkSpec

-----------------------------------------------------------------------------
(* Sequences.  Induction is by the least number for which a fact fails.    *)

LEMMA LeastOf ==
  ASSUME NEW T \in SUBSET Nat, T # {}
  PROVE  \E x \in T : \A y \in T : x <= y
<1> DEFINE R == OpToRel(<, Nat)
<1>1. IsWellFoundedOn(R, Nat)
  BY NatLessThanWellFounded
<1>2. PICK x \in T : \A y \in T : <<y, x>> \notin R
  <2> HIDE DEF R
  <2>1. QED
    BY <1>1, WFMin
<1>3. \A y \in T : ~(y < x)
  BY <1>2 DEF OpToRel
<1>4. QED
  <2> HIDE DEF R
  <2>1. QED
    BY <1>3

LEMMA JoinedMembers ==
  ASSUME NEW S, NEW s \in Seq(S), NEW t \in Seq(S)
  PROVE  s \o t \in Seq(S) /\ ToSet(s \o t) = ToSet(s) \cup ToSet(t)
<1>1. /\ Len(s) \in Nat /\ Len(t) \in Nat /\ s \o t \in Seq(S)
      /\ Len(s \o t) = Len(s) + Len(t)
      /\ \A i \in 1 .. Len(s) + Len(t) :
           (s \o t)[i] = IF i <= Len(s) THEN s[i] ELSE t[i - Len(s)]
  OBVIOUS
<1>2. /\ DOMAIN s = 1 .. Len(s) /\ DOMAIN t = 1 .. Len(t)
      /\ DOMAIN (s \o t) = 1 .. Len(s) + Len(t)
  BY <1>1
<1>3. ASSUME NEW x \in ToSet(s) \cup ToSet(t)
      PROVE  x \in ToSet(s \o t)
  <2>1. CASE x \in ToSet(s)
    <3>1. PICK i \in 1 .. Len(s) : s[i] = x
      BY <1>2, <2>1 DEF ToSet
    <3>2. i \in 1 .. Len(s) + Len(t) /\ (s \o t)[i] = x
      BY <1>1, <3>1
    <3>3. QED
      BY <1>2, <3>2 DEF ToSet
  <2>2. CASE x \in ToSet(t)
    <3>1. PICK i \in 1 .. Len(t) : t[i] = x
      BY <1>2, <2>2 DEF ToSet
    <3>2. i + Len(s) \in 1 .. Len(s) + Len(t) /\ (s \o t)[i + Len(s)] = x
      BY <1>1, <3>1
    <3>3. QED
      BY <1>2, <3>2 DEF ToSet
  <2>3. QED
    BY <1>3, <2>1, <2>2
<1>4. ASSUME NEW x \in ToSet(s \o t)
      PROVE  x \in ToSet(s) \cup ToSet(t)
  <2>1. PICK i \in 1 .. Len(s) + Len(t) : (s \o t)[i] = x
    BY <1>2, <1>4 DEF ToSet
  <2>2. CASE i <= Len(s)
    BY <1>1, <1>2, <2>1, <2>2 DEF ToSet
  <2>3. CASE ~(i <= Len(s))
    <3>1. i - Len(s) \in 1 .. Len(t) /\ t[i - Len(s)] = x
      BY <1>1, <2>1, <2>3
    <3>2. QED
      BY <1>2, <3>1 DEF ToSet
  <2>4. QED
    BY <2>2, <2>3
<1>5. QED
  BY <1>1, <1>3, <1>4

(* FlattenSeq is defined by a recursive function: that there is one, and   *)
(* what it returns.                                                        *)
LEMMA FlattenMembers ==
  ASSUME NEW S, NEW ss \in Seq(Seq(S))
  PROVE  /\ FlattenSeq(ss) \in Seq(S)
         /\ ToSet(FlattenSeq(ss)) = UNION {ToSet(ss[i]) : i \in 1 .. Len(ss)}
<1> DEFINE N == Len(ss)
           Solves(f, n) == f = [i \in 1 .. n |-> IF i = 1 THEN ss[i] ELSE f[i - 1] \o ss[i]]
<1>1. N \in Nat /\ \A i \in 1 .. N : ss[i] \in Seq(S)
  OBVIOUS
<1>2. CASE N = 0
  <2>1. FlattenSeq(ss) = ss /\ ss = <<>>
    BY <1>2 DEF FlattenSeq
  <2>2. QED
    BY <2>1 DEF ToSet
<1>3. CASE N # 0
  <2>1. ASSUME NEW n \in 1 .. N, \A m \in 1 .. N : m < n => \E f : Solves(f, m)
        PROVE  \E f : Solves(f, n)
    <3>1. CASE n = 1
      <4>1. Solves([i \in 1 .. n |-> ss[1]], n)
        BY <3>1
      <4>2. QED
        <5> HIDE DEF Solves
        <5>1. QED
          BY <4>1
    <3>2. CASE n # 1
      <4>1. n - 1 \in 1 .. N /\ n - 1 < n
        BY <1>1, <3>2
      <4>2. PICK f : Solves(f, n - 1)
        <5> HIDE DEF Solves
        <5>1. QED
          BY <2>1, <4>1
      <4> DEFINE g == [i \in 1 .. n |-> IF i = n THEN f[n - 1] \o ss[n] ELSE f[i]]
      <4>3. \A i \in 1 .. n - 1 : f[i] = IF i = 1 THEN ss[i] ELSE f[i - 1] \o ss[i]
        BY <4>2
      <4>4. \A i \in 1 .. n : g[i] = IF i = 1 THEN ss[i] ELSE g[i - 1] \o ss[i]
        BY <3>2, <4>3
      <4>5. Solves(g, n)
        <5>1. g = [i \in 1 .. n |-> g[i]]
          OBVIOUS
        <5>2. QED
          <6> HIDE DEF g
          <6>1. QED
            BY <4>4, <5>1
      <4>6. QED
        <5> HIDE DEF Solves, g
        <5>1. QED
          BY <4>5
    <3>3. QED
      BY <3>1, <3>2
  <2>2. \A n \in 1 .. N : \E f : Solves(f, n)
    <3> HIDE DEF Solves
    <3> DEFINE Bad == {n \in 1 .. N : ~ \E f : Solves(f, n)}
    <3>1. SUFFICES ASSUME Bad # {}
                   PROVE  FALSE
      OBVIOUS
    <3>2. PICK n \in Bad : \A m \in Bad : n <= m
      <4>1. Bad \in SUBSET Nat
        OBVIOUS
      <4>2. QED
        <5> HIDE DEF Bad
        <5>1. QED
          BY <3>1, <4>1, LeastOf
    <3>3. \A m \in 1 .. N : m < n => \E f : Solves(f, m)
      BY <3>2
    <3>4. QED
      BY <2>1, <3>2, <3>3
  <2> DEFINE F == CHOOSE f : Solves(f, N)
  <2>3. Solves(F, N)
    <3>1. N \in 1 .. N
      BY <1>1, <1>3
    <3>2. QED
      <4> HIDE DEF Solves
      <4>1. QED
        BY <2>2, <3>1
  <2>4. FlattenSeq(ss) = F[N]
    BY <1>3 DEF FlattenSeq
  <2>5. \A n \in 1 .. N : F[n] = IF n = 1 THEN ss[n] ELSE F[n - 1] \o ss[n]
    <3> HIDE DEF F
    <3>1. QED
      BY <2>3
  <2> HIDE DEF F, Solves
  <2> DEFINE Upto(n) == UNION {ToSet(ss[i]) : i \in 1 .. n}
             Good(n) == F[n] \in Seq(S) /\ ToSet(F[n]) = Upto(n)
  <2>6. ASSUME NEW n \in 1 .. N, \A m \in 1 .. N : m < n => Good(m)
        PROVE  Good(n)
    <3>1. CASE n = 1
      BY <1>1, <2>5, <3>1
    <3>2. CASE n # 1
      <4>1. n - 1 \in 1 .. N /\ n - 1 < n /\ 1 .. n = (1 .. n - 1) \cup {n}
        BY <1>1, <3>2
      <4>2. F[n - 1] \in Seq(S) /\ ToSet(F[n - 1]) = Upto(n - 1)
        BY <2>6, <4>1
      <4>3. F[n] = F[n - 1] \o ss[n] /\ ss[n] \in Seq(S)
        BY <1>1, <2>5, <3>2
      <4>4. F[n] \in Seq(S) /\ ToSet(F[n]) = ToSet(F[n - 1]) \cup ToSet(ss[n])
        BY <4>2, <4>3, JoinedMembers
      <4>5. Upto(n) = Upto(n - 1) \cup ToSet(ss[n])
        BY <4>1
      <4>6. QED
        BY <4>2, <4>4, <4>5
    <3>3. QED
      BY <3>1, <3>2
  <2>7. \A n \in 1 .. N : Good(n)
    <3> HIDE DEF Good
    <3> DEFINE Bad == {n \in 1 .. N : ~Good(n)}
    <3>1. SUFFICES ASSUME Bad # {}
                   PROVE  FALSE
      OBVIOUS
    <3>2. PICK n \in Bad : \A m \in Bad : n <= m
      <4>1. Bad \in SUBSET Nat
        OBVIOUS
      <4>2. QED
        <5> HIDE DEF Bad
        <5>1. QED
          BY <3>1, <4>1, LeastOf
    <3>3. \A m \in 1 .. N : m < n => Good(m)
      BY <3>2
    <3>4. QED
      BY <2>6, <3>2, <3>3
  <2>8. N \in 1 .. N
    BY <1>1, <1>3
  <2>9. F[N] \in Seq(S) /\ ToSet(F[N]) = Upto(N)
    BY <2>7, <2>8
  <2>10. QED
    BY <2>4, <2>9
<1>4. QED
  BY <1>2, <1>3

LEMMA KeptMembers ==
  ASSUME NEW S, NEW s \in Seq(S), NEW I
  PROVE  /\ Kept(s, I) \in Seq(S)
         /\ ToSet(Kept(s, I)) = {s[i] : i \in (1 .. Len(s)) \cap I}
<1> DEFINE parts == [i \in 1 .. Len(s) |-> IF i \in I THEN <<s[i]>> ELSE <<>>]
<1>1. /\ Len(s) \in Nat
      /\ \A i \in 1 .. Len(s) : s[i] \in S
  OBVIOUS
<1>2. parts \in Seq(Seq(S)) /\ Len(parts) = Len(s)
  BY <1>1
<1>3. \A i \in 1 .. Len(s) : ToSet(parts[i]) = IF i \in I THEN {s[i]} ELSE {}
  BY DEF ToSet
<1>4. UNION {ToSet(parts[i]) : i \in 1 .. Len(s)} = {s[i] : i \in (1 .. Len(s)) \cap I}
  <2> HIDE DEF parts
  <2>1. QED
    BY <1>3
<1>5. Kept(s, I) = FlattenSeq(parts)
  BY DEF Kept
<1>6. /\ FlattenSeq(parts) \in Seq(S)
      /\ ToSet(FlattenSeq(parts)) = UNION {ToSet(parts[i]) : i \in 1 .. Len(parts)}
  <2> HIDE DEF parts
  <2>1. QED
    BY <1>2, FlattenMembers
<1>7. QED
  <2> HIDE DEF parts
  <2>1. QED
    BY <1>2, <1>4, <1>5, <1>6

LEMMA VariantRow ==
  ASSUME NEW p \in FoundRow, NEW v \in [name : STRING, format : Payload]
  PROVE  VariantOf(p, v) \in FoundRow
<1>1. /\ p.name \in Seq(STRING) /\ Append(p.name, v.name) \in Seq(STRING)
      /\ v.format \in Payload
  BY DEF FoundRow
<1> DEFINE name == IF \E i \in 1 .. Len(p.name) : p.name[i] = v.name THEN p.name
                   ELSE Append(p.name, v.name)
<1>2. name \in Seq(STRING)
  BY <1>1
<1>3. VariantOf(p, v) = [p EXCEPT !.name = name, !.format = v.format, !.variants = <<>>]
  BY DEF VariantOf
<1>4. <<>> \in Seq([name : STRING, format : Payload])
  OBVIOUS
<1>5. QED
  <2> HIDE DEF name
  <2>1. QED
    BY <1>1, <1>2, <1>3, <1>4 DEF FoundRow

LEMMA ExpandRows ==
  ASSUME NEW p \in FoundRow
  PROVE  Expand(p) \in Seq(FoundRow)
<1>1. /\ p.variants \in Seq([name : STRING, format : Payload])
      /\ Len(p.variants) \in Nat
      /\ \A i \in 1 .. Len(p.variants) : p.variants[i] \in [name : STRING, format : Payload]
  <2>1. p.variants \in Seq([name : STRING, format : Payload])
    BY DEF FoundRow
  <2> DEFINE V == [name : STRING, format : Payload]
  <2> HIDE DEF V
  <2>2. \A vs \in Seq(V) : Len(vs) \in Nat /\ \A i \in 1 .. Len(vs) : vs[i] \in V
    OBVIOUS
  <2>3. QED
    BY <2>1, <2>2 DEF V
<1>2. \A i \in 1 .. Len(p.variants) : VariantOf(p, p.variants[i]) \in FoundRow
  BY <1>1, VariantRow
<1>3. QED
  BY <1>1, <1>2 DEF Expand

LEMMA CandidateMembers ==
  ASSUME NEW s \in Seq(FoundRow)
  PROVE  /\ Candidates(s) \in Seq(FoundRow)
         /\ \A i \in 1 .. Len(s) : \A j \in 1 .. Len(Expand(s[i])) :
              Expand(s[i])[j] \in ToSet(Candidates(s))
<1> DEFINE parts == [i \in 1 .. Len(s) |-> Expand(s[i])]
<1>1. Len(s) \in Nat /\ \A i \in 1 .. Len(s) : s[i] \in FoundRow
  OBVIOUS
<1>2. \A i \in 1 .. Len(s) : Expand(s[i]) \in Seq(FoundRow)
  BY <1>1, ExpandRows
<1>3. /\ parts \in Seq(Seq(FoundRow)) /\ Len(parts) = Len(s)
      /\ \A i \in 1 .. Len(s) : parts[i] = Expand(s[i])
  BY <1>1, <1>2
<1>4. Candidates(s) = FlattenSeq(parts)
  BY DEF Candidates
<1>5. /\ FlattenSeq(parts) \in Seq(FoundRow)
      /\ ToSet(FlattenSeq(parts)) = UNION {ToSet(parts[i]) : i \in 1 .. Len(parts)}
  <2> HIDE DEF parts
  <2>1. QED
    BY <1>3, FlattenMembers
<1>6. ASSUME NEW i \in 1 .. Len(s), NEW j \in 1 .. Len(Expand(s[i]))
      PROVE  Expand(s[i])[j] \in ToSet(parts[i])
  <2>1. Expand(s[i]) \in Seq(FoundRow) /\ parts[i] = Expand(s[i])
    BY <1>2
  <2>2. DOMAIN Expand(s[i]) = 1 .. Len(Expand(s[i]))
    BY <2>1
  <2>3. QED
    <3> HIDE DEF parts
    <3>1. QED
      BY <2>1, <2>2 DEF ToSet
<1>7. QED
  <2> HIDE DEF parts
  <2>1. QED
    BY <1>3, <1>4, <1>5, <1>6

(* What is taken for a repetition has the name and the brand of what is    *)
(* kept.                                                                   *)
LEMMA DeduplicatedMembers ==
  ASSUME NEW s \in Seq(FoundRow), NEW p \in ToSet(s)
  PROVE  /\ Deduplicated(s) \in Seq(FoundRow)
         /\ \E q \in ToSet(Deduplicated(s)) : q.name = p.name /\ q.brand = p.brand
<1> DEFINE I == {i \in 1 .. Len(s) :
                   \A j \in 1 .. i - 1 : DedupeKey(s[j]) # DedupeKey(s[i])}
           T == {i \in 1 .. Len(s) : DedupeKey(s[i]) = DedupeKey(p)}
<1>1. Len(s) \in Nat /\ DOMAIN s = 1 .. Len(s)
  OBVIOUS
<1>2. T # {} /\ T \in SUBSET Nat
  BY <1>1 DEF ToSet
<1>3. PICK i \in T : \A j \in T : i <= j
  <2> HIDE DEF T
  <2>1. QED
    BY <1>2, LeastOf
<1>4. i \in (1 .. Len(s)) \cap I
  BY <1>1, <1>3
<1>5. s[i].name = p.name /\ s[i].brand = p.brand
  BY <1>3 DEF DedupeKey
<1>6. Deduplicated(s) = Kept(s, I)
  BY DEF Deduplicated
<1>7. /\ Kept(s, I) \in Seq(FoundRow)
      /\ ToSet(Kept(s, I)) = {s[k] : k \in (1 .. Len(s)) \cap I}
  <2> HIDE DEF I
  <2>1. QED
    BY KeptMembers
<1>8. QED
  <2> HIDE DEF I, T
  <2>1. QED
    BY <1>4, <1>5, <1>6, <1>7

LEMMA NormalizedMembers ==
  ASSUME NEW s \in Seq(FoundRow), NEW p \in ToSet(Candidates(s)), IsOffer(p)
  PROVE  /\ Normalized(s) \in Seq(FoundRow)
         /\ \E q \in ToSet(Normalized(s)) : q.name = p.name /\ q.brand = p.brand
<1> DEFINE c == Candidates(s)
           I == {i \in 1 .. Len(c) : IsOffer(c[i])}
<1>1. c \in Seq(FoundRow) /\ Len(c) \in Nat /\ DOMAIN c = 1 .. Len(c)
  <2>1. c \in Seq(FoundRow)
    BY CandidateMembers
  <2>2. QED
    <3> HIDE DEF c
    <3>1. QED
      BY <2>1
<1> HIDE DEF c
<1>2. PICK i \in 1 .. Len(c) : c[i] = p
  <2>1. p \in ToSet(c)
    BY DEF c
  <2>2. QED
    BY <1>1, <2>1 DEF ToSet
<1>3. i \in (1 .. Len(c)) \cap I
  BY <1>2
<1>4. Offered(c) = Kept(c, I)
  BY DEF Offered
<1>5. /\ Kept(c, I) \in Seq(FoundRow)
      /\ ToSet(Kept(c, I)) = {c[k] : k \in (1 .. Len(c)) \cap I}
  <2> HIDE DEF I
  <2>1. QED
    BY <1>1, KeptMembers
<1>6. Offered(c) \in Seq(FoundRow) /\ p \in ToSet(Offered(c))
  <2> HIDE DEF I
  <2>1. QED
    BY <1>2, <1>3, <1>4, <1>5
<1>7. Normalized(s) = Deduplicated(Offered(c))
  BY DEF Normalized, c
<1>8. QED
  BY <1>6, <1>7, DeduplicatedMembers

(* What is not inserted has its name and brand in a row of the flyer.      *)
LEMMA InsertedMembers ==
  ASSUME NEW s \in Seq(FoundRow), NEW q \in ToSet(s)
  PROVE  \E r \in written \cup Inserted(s) : r.name = q.name /\ r.brand = q.brand
<1> DEFINE T == {i \in 1 .. Len(s) : RowKey(s[i]) = RowKey(q)}
<1>1. Len(s) \in Nat /\ DOMAIN s = 1 .. Len(s)
  OBVIOUS
<1>2. T # {} /\ T \in SUBSET Nat
  BY <1>1 DEF ToSet
<1>3. Min(T) \in T
  <2>1. \E i \in T : \A j \in T : i <= j
    <3> HIDE DEF T
    <3>1. QED
      BY <1>2, LeastOf
  <2>2. QED
    <3> HIDE DEF T
    <3>1. QED
      BY <2>1 DEF Min
<1> DEFINE r == s[Min(T)]
<1>4. r \in ToSet(s) /\ RowKey(r) = RowKey(q)
  <2>1. Min(T) \in 1 .. Len(s) /\ RowKey(s[Min(T)]) = RowKey(q)
    BY <1>3
  <2>2. QED
    <3> HIDE DEF T
    <3>1. QED
      BY <1>1, <2>1 DEF ToSet
<1>5. r = FirstWith(RowKey(q), s)
  BY DEF FirstWith
<1> HIDE DEF r, T
<1>6. r.name = q.name /\ r.brand = q.brand
  BY <1>4 DEF RowKey, OfferKey
<1>7. CASE \E w \in written : RowKey(w) = RowKey(r)
  <2>1. PICK w \in written : RowKey(w) = RowKey(r)
    BY <1>7
  <2>2. w.name = r.name /\ w.brand = r.brand
    BY <2>1 DEF RowKey, OfferKey
  <2>3. QED
    BY <1>6, <2>2
<1>8. CASE \A w \in written : RowKey(w) # RowKey(r)
  <2>1. r = FirstWith(RowKey(r), s)
    BY <1>4, <1>5
  <2>2. r \in Inserted(s)
    BY <1>4, <1>8, <2>1 DEF Inserted
  <2>3. QED
    BY <1>6, <2>2
<1>9. QED
  BY <1>7, <1>8
-----------------------------------------------------------------------------
(* The pages of the chunks.                                                *)
LEMMA PagesFit ==
  ASSUME NEW k \in Nat \ {0}
  PROVE  EndPage(k) \in Nat /\ PagesOf(k) \subseteq 1 .. PageCount
<1>1. PageCount \in Nat \ {0} /\ ChunkSize \in Nat \ {0}
  BY ChunkAssumption
<1>2. StartPage(k) \in Nat \ {0} /\ k * ChunkSize \in Nat
  BY <1>1 DEF StartPage
<1>3. EndPage(k) \in Nat /\ EndPage(k) <= PageCount
  BY <1>1, <1>2 DEF EndPage, Min
<1>4. QED
  BY <1>1, <1>2, <1>3 DEF PagesOf

LEMMA ChunksCover ==
  ASSUME NEW n \in 1 .. PageCount
  PROVE  \E k \in 1 .. ChunksTotal : n \in PagesOf(k)
<1>1. PageCount \in Nat \ {0} /\ ChunkSize \in Nat \ {0}
  BY ChunkAssumption
<1> DEFINE T == {k \in Nat : n <= k * ChunkSize}
<1>2. ChunksTotal \in Nat /\ PageCount <= ChunksTotal * ChunkSize
  BY <1>1 DEF ChunksTotal
<1>3. ChunksTotal \in T
  BY <1>1, <1>2
<1>4. PICK k \in T : \A j \in T : k <= j
  <2> HIDE DEF T
  <2>1. T \in SUBSET Nat
    BY DEF T
  <2>2. QED
    BY <1>3, <2>1, LeastOf
<1>5. k \in Nat /\ k <= ChunksTotal /\ n <= k * ChunkSize
  BY <1>3, <1>4
<1>6. k # 0
  BY <1>1, <1>5
<1>7. k - 1 \in Nat /\ ~(n <= (k - 1) * ChunkSize)
  BY <1>4, <1>5, <1>6
<1>8. (k - 1) * ChunkSize \in Nat /\ k * ChunkSize \in Nat
  BY <1>1, <1>5, <1>7
<1>9. StartPage(k) <= n
  BY <1>7, <1>8 DEF StartPage
<1>10. n <= EndPage(k) /\ EndPage(k) \in Nat
  BY <1>1, <1>5, <1>8 DEF EndPage, Min
<1>11. QED
  BY <1>1, <1>2, <1>5, <1>6, <1>8, <1>9, <1>10 DEF PagesOf, StartPage

-----------------------------------------------------------------------------
(* A product of the first answer is among the products of the chunk or on  *)
(* a page that was replaced, until the rows are written; a run that is on  *)
(* a chunk is on the one after the checkpoint, so that the pages before it *)
(* have all been asked for.                                                *)
HasRow(p) == \E r \in written : r.name = p.name /\ r.brand = p.brand
KeepsFirst ==
  \A i \in 1 .. Len(first) : first[i].page \in replaced \/ first[i] \in ToSet(products)
WritesFirst ==
  \A i \in 1 .. Len(first) :
    first[i].page \in replaced \/
    \A j \in 1 .. Len(Expand(first[i])) :
      IsOffer(Expand(first[i])[j]) => HasRow(Expand(first[i])[j])
LostInv ==
  /\ products \in Seq(FoundRow) /\ first \in Seq(FoundRow) /\ sparse \subseteq Nat
  /\ phase \in {"idle", "ask", "recover", "checkpoint"}
  /\ checkpoint \in Nat \ {0}
  /\ phase # "idle" => chunk = checkpoint
  /\ asked \subseteq 1 .. PageCount
  /\ \A k \in 1 .. checkpoint - 1 : PagesOf(k) \subseteq asked
  /\ phase \in {"recover", "checkpoint"} => PagesOf(chunk) \subseteq asked
  /\ phase = "recover" => KeepsFirst
  /\ phase = "checkpoint" => WritesFirst

LEMMA AbsoluteRows ==
  ASSUME NEW n \in Nat, NEW answer \in AnswersUpTo(n), NEW start \in Nat, NEW end \in Nat
  PROVE  Absolute(answer, start, end) \in Seq(FoundRow)
<1>1. PICK m \in Nat : answer \in [1 .. m -> Found]
  BY DEF AnswersUpTo
<1>2. Len(answer) = m /\ \A i \in 1 .. m : answer[i] \in FoundRow
  BY <1>1, ChunkAssumption
<1> DEFINE Row(i) == [answer[i] EXCEPT !.page = IF @ \in 1 .. end - start + 1 THEN start + @ - 1
                                                ELSE NoPage]
<1>3. ASSUME NEW i \in 1 .. m
      PROVE  Row(i) \in FoundRow
  <2> DEFINE at == IF answer[i].page \in 1 .. end - start + 1 THEN start + answer[i].page - 1
                   ELSE NoPage
  <2>1. answer[i] \in FoundRow /\ answer[i].page \in Nat
    BY <1>2 DEF FoundRow
  <2>2. at \in Nat
    BY <2>1 DEF NoPage
  <2>3. Row(i) = [answer[i] EXCEPT !.page = at]
    OBVIOUS
  <2>4. QED
    <3> HIDE DEF at, Row
    <3>1. QED
      BY <2>1, <2>2, <2>3 DEF FoundRow
<1>4. Absolute(answer, start, end) = [i \in 1 .. m |-> Row(i)]
  BY <1>2 DEF Absolute
<1>5. QED
  <2> HIDE DEF Row
  <2>1. QED
    BY <1>3, <1>4

LEMMA FirstIsWritten ==
  ASSUME LostInv, PersistProducts
  PROVE  WritesFirst'
<1>1. /\ products \in Seq(FoundRow) /\ first \in Seq(FoundRow) /\ KeepsFirst
      /\ written' = written \cup Inserted(Normalized(products))
      /\ first' = first /\ replaced' = replaced
  BY DEF LostInv, PersistProducts
<1>2. ASSUME NEW i \in 1 .. Len(first), first[i].page \notin replaced,
             NEW j \in 1 .. Len(Expand(first[i])), IsOffer(Expand(first[i])[j])
      PROVE  \E r \in written' : /\ r.name = Expand(first[i])[j].name
                                 /\ r.brand = Expand(first[i])[j].brand
  <2>1. first[i] \in ToSet(products)
    BY <1>1, <1>2 DEF KeepsFirst
  <2>2. PICK k \in 1 .. Len(products) : products[k] = first[i]
    <3>1. DOMAIN products = 1 .. Len(products)
      BY <1>1
    <3>2. QED
      BY <2>1, <3>1 DEF ToSet
  <2>3. Expand(first[i])[j] \in ToSet(Candidates(products))
    BY <1>1, <2>2, CandidateMembers
  <2>4. /\ Normalized(products) \in Seq(FoundRow)
        /\ \E q \in ToSet(Normalized(products)) :
             q.name = Expand(first[i])[j].name /\ q.brand = Expand(first[i])[j].brand
    BY <1>1, <1>2, <2>3, NormalizedMembers
  <2>5. PICK q \in ToSet(Normalized(products)) :
               q.name = Expand(first[i])[j].name /\ q.brand = Expand(first[i])[j].brand
    BY <2>4
  <2>6. \E r \in written \cup Inserted(Normalized(products)) :
          r.name = q.name /\ r.brand = q.brand
    BY <2>4, InsertedMembers
  <2>7. QED
    BY <1>1, <2>5, <2>6
<1>3. ASSUME NEW i \in 1 .. Len(first')
      PROVE  \/ first'[i].page \in replaced'
             \/ \A j \in 1 .. Len(Expand(first'[i])) :
                  IsOffer(Expand(first'[i])[j]) =>
                    \E r \in written' : /\ r.name = Expand(first'[i])[j].name
                                        /\ r.brand = Expand(first'[i])[j].brand
  BY <1>1, <1>2
<1>4. QED
  BY <1>1, <1>3 DEF WritesFirst, HasRow

LEMMA FirstIsKept ==
  ASSUME LostInv, AskPage
  PROVE  /\ products' \in Seq(FoundRow) /\ sparse' \subseteq Nat
         /\ KeepsFirst'
<1> DEFINE page == Min(sparse)
<1>1. /\ products \in Seq(FoundRow) /\ first \in Seq(FoundRow) /\ sparse \subseteq Nat
      /\ sparse # {} /\ KeepsFirst
      /\ sparse' = sparse \ {page} /\ first' = first
  BY DEF LostInv, AskPage
<1>2. page \in Nat
  <2>1. \E x \in sparse : \A y \in sparse : x <= y
    BY <1>1, LeastOf
  <2>2. QED
    BY <1>1, <2>1 DEF Min
<1>3. CASE UNCHANGED <<products, replaced>>
  BY <1>1, <1>3 DEF KeepsFirst
<1>4. CASE ~UNCHANGED <<products, replaced>>
  <2>1. PICK answer \in AnswersUpTo(MaxAgain) :
          /\ products' = ReplacePage(products, page, Absolute(answer, page, page))
          /\ replaced' = replaced \cup {page}
    BY <1>4 DEF AskPage
  <2> DEFINE again == Absolute(answer, page, page)
             others == Kept(products, OffPage(products, page))
  <2>2. again \in Seq(FoundRow)
    <3>1. MaxAgain \in Nat
      BY ChunkAssumption
    <3>2. QED
      <4> HIDE DEF page
      <4>1. QED
        BY <1>2, <3>1, AbsoluteRows
  <2>3. /\ others \in Seq(FoundRow)
        /\ ToSet(others) = {products[k] : k \in (1 .. Len(products)) \cap OffPage(products, page)}
    BY <1>1, KeptMembers
  <2>4. products' = others \o again
    BY <2>1 DEF ReplacePage
  <2> HIDE DEF again, others, page
  <2>5. products' \in Seq(FoundRow) /\ ToSet(products') = ToSet(others) \cup ToSet(again)
    BY <2>2, <2>3, <2>4, JoinedMembers
  <2>6. ASSUME NEW i \in 1 .. Len(first)
        PROVE  first[i].page \in replaced' \/ first[i] \in ToSet(products')
    <3>1. CASE first[i].page \in replaced \/ first[i].page = page
      BY <2>1, <3>1
    <3>2. CASE first[i].page \notin replaced /\ first[i].page # page
      <4>1. DOMAIN products = 1 .. Len(products)
        BY <1>1
      <4>2. PICK k \in 1 .. Len(products) : products[k] = first[i]
        BY <1>1, <3>2, <4>1 DEF KeepsFirst, ToSet
      <4>3. k \in (1 .. Len(products)) \cap OffPage(products, page)
        BY <3>2, <4>2 DEF OffPage
      <4>4. QED
        BY <2>3, <2>5, <4>2, <4>3
    <3>3. QED
      BY <3>1, <3>2
  <2>7. QED
    BY <1>1, <2>5, <2>6 DEF KeepsFirst
<1>5. QED
  BY <1>3, <1>4

LEMMA LostStep == LostInv /\ [ChunkNext]_chunkVars => LostInv'
<1> SUFFICES ASSUME LostInv, [ChunkNext]_chunkVars
             PROVE  LostInv'
  OBVIOUS
<1> USE DEF LostInv
<1>1. CASE StartRun
  BY <1>1 DEF StartRun
<1>2. CASE AskChunk
  <2>1. PICK answer \in AnswersUpTo(MaxFound) :
               products' = Absolute(answer, StartPage(chunk), EndPage(chunk))
    BY <1>2 DEF AskChunk
  <2>2. /\ chunk = checkpoint /\ chunk \in Nat \ {0}
        /\ PageCount \in Nat \ {0} /\ ChunkSize \in Nat \ {0} /\ MaxFound \in Nat
    BY <1>2, ChunkAssumption DEF AskChunk
  <2>3. StartPage(chunk) \in Nat /\ EndPage(chunk) \in Nat
    <3>1. chunk * ChunkSize \in Nat /\ (chunk - 1) * ChunkSize \in Nat
      BY <2>2
    <3>2. StartPage(chunk) \in Nat
      BY <3>1 DEF StartPage
    <3>3. QED
      BY <2>2, <3>2, PagesFit
  <2>4. products' \in Seq(FoundRow)
    BY <2>1, <2>2, <2>3, AbsoluteRows
  <2>5. PagesOf(chunk) \subseteq 1 .. PageCount
    BY <2>2, PagesFit
  <2>6. sparse' \subseteq Nat
    BY <1>2, <2>5 DEF AskChunk, SparsePages
  <2>7. KeepsFirst'
    <3>1. first' = products'
      BY <1>2 DEF AskChunk
    <3>2. \A i \in 1 .. Len(first') : first'[i] \in ToSet(products')
      BY <2>4, <3>1 DEF ToSet
    <3>3. QED
      BY <3>2 DEF KeepsFirst
  <2>8. /\ first' \in Seq(FoundRow)
        /\ asked' \subseteq 1 .. PageCount /\ asked \subseteq asked'
        /\ PagesOf(chunk') \subseteq asked'
    BY <1>2, <2>4, <2>5 DEF AskChunk, PagesOf, StartPage, EndPage
  <2>9. phase' = "recover" /\ checkpoint' = checkpoint /\ chunk' = chunk
    BY <1>2 DEF AskChunk
  <2>10. \A k \in 1 .. checkpoint' - 1 : PagesOf(k)' \subseteq asked'
    BY <2>8, <2>9 DEF PagesOf, StartPage, EndPage
  <2>11. QED
    BY <2>2, <2>4, <2>6, <2>7, <2>8, <2>9, <2>10
<1>3. CASE AskPage
  <2>1. products' \in Seq(FoundRow) /\ sparse' \subseteq Nat /\ KeepsFirst'
    BY <1>3, FirstIsKept
  <2>2. phase' = phase /\ phase = "recover" /\ UNCHANGED <<chunk, checkpoint, first, asked>>
    BY <1>3 DEF AskPage
  <2>3. QED
    BY <2>1, <2>2 DEF PagesOf, StartPage, EndPage
<1>4. CASE PersistProducts
  <2>1. WritesFirst'
    BY <1>4, FirstIsWritten
  <2>2. /\ phase' = "checkpoint" /\ phase = "recover"
        /\ UNCHANGED <<chunk, products, sparse, checkpoint, first, asked>>
    BY <1>4 DEF PersistProducts
  <2>3. QED
    BY <2>1, <2>2 DEF PagesOf, StartPage, EndPage
<1>5. CASE CheckpointChunk
  <2>1. /\ products' = <<>> /\ first' = <<>> /\ sparse' = {}
        /\ phase = "checkpoint" /\ phase' \in {"idle", "ask"}
        /\ checkpoint' = checkpoint + 1 /\ asked' = asked
        /\ phase' # "idle" => chunk' = checkpoint'
    BY <1>5 DEF CheckpointChunk, Forget
  <2>2. \A k \in 1 .. checkpoint' - 1 : PagesOf(k) \subseteq asked'
    <3>1. ASSUME NEW k \in 1 .. checkpoint' - 1
          PROVE  PagesOf(k) \subseteq asked'
      <4>1. k \in 1 .. checkpoint - 1 \/ k = chunk
        BY <2>1
      <4>2. QED
        BY <2>1, <4>1
    <3>2. QED
      BY <3>1
  <2>3. products' \in Seq(FoundRow) /\ first' \in Seq(FoundRow)
    BY <2>1
  <2>4. QED
    BY <2>1, <2>2, <2>3 DEF PagesOf, StartPage, EndPage
<1>6. CASE RunEnds
  <2>1. products' \in Seq(FoundRow) /\ first' \in Seq(FoundRow)
    BY <1>6 DEF RunEnds, Forget
  <2>2. QED
    BY <1>6, <2>1 DEF RunEnds, Forget, PagesOf, StartPage, EndPage
<1>7. CASE UNCHANGED chunkVars
  <2>1. UNCHANGED <<chunk, phase, products, sparse, written, checkpoint, first, replaced, asked>>
    BY <1>7 DEF chunkVars
  <2>2. (KeepsFirst' <=> KeepsFirst) /\ (WritesFirst' <=> WritesFirst)
    BY <2>1 DEF KeepsFirst, WritesFirst, HasRow
  <2>3. QED
    BY <2>1, <2>2 DEF PagesOf, StartPage, EndPage
<1>8. QED
  BY <1>1, <1>2, <1>3, <1>4, <1>5, <1>6, <1>7 DEF ChunkNext

(* Whatever the provider answers: before a chunk is checkpointed, every    *)
(* product of the first answer that has a name and a price has a row,      *)
(* unless its page was replaced by a longer list; a flyer whose chunks are *)
(* all checkpointed has had every page asked for.                          *)
THEOREM NothingIsLost == ChunkSpec => []NothingFoundIsLost
<1>1. ChunkInit => LostInv
  <2> SUFFICES ASSUME ChunkInit
               PROVE  LostInv
    OBVIOUS
  <2>1. products \in Seq(FoundRow) /\ first \in Seq(FoundRow)
    BY DEF ChunkInit
  <2>2. QED
    BY <2>1 DEF ChunkInit, LostInv
<1>2. LostInv => NothingFoundIsLost
  <2> SUFFICES ASSUME LostInv
               PROVE  NothingFoundIsLost
    OBVIOUS
  <2>1. ASSUME checkpoint > ChunksTotal
        PROVE  asked = 1 .. PageCount
    <3>1. ASSUME NEW n \in 1 .. PageCount
          PROVE  n \in asked
      <4>1. PICK k \in 1 .. ChunksTotal : n \in PagesOf(k)
        BY ChunksCover
      <4>2. ChunksTotal \in Nat
        BY ChunkAssumption DEF ChunksTotal
      <4>3. k \in 1 .. checkpoint - 1
        BY <2>1, <4>2 DEF LostInv
      <4>4. QED
        BY <4>1, <4>3 DEF LostInv
    <3>2. QED
      BY <3>1 DEF LostInv
  <2>2. phase = "checkpoint" => WritesFirst
    BY DEF LostInv
  <2>3. QED
    BY <2>1, <2>2 DEF NothingFoundIsLost, WritesFirst, HasRow
<1>3. QED
  BY <1>1, <1>2, LostStep, PTL DEF ChunkSpec

=============================================================================
