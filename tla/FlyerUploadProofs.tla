--------------------------- MODULE FlyerUploadProofs ---------------------------
(***************************************************************************)
(* Theorems about FlyerUpload, for any number of paths, supermarkets and   *)
(* source flyers.                                                          *)
(*                                                                         *)
(* A supermarket may be held by a source flyer in three ways: as a target, *)
(* by a derived flyer, or because the request under way has found no       *)
(* conflict for it and will write it.  HoldsApart, that two source flyers  *)
(* with one file hold nothing in common, is inductive; the property about  *)
(* targets and derived flyers alone is not.                                *)
(***************************************************************************)
EXTENDS FlyerUpload, TLAPS

(* The steps of a request, and those that go on to write supermarkets.     *)
Writing == {"targets", "replace", "unpublish", "publish"}
Rows == Writing \cup {"render", "record", "delete"}
Request == [step : {"idle"} \cup Rows, flyer : Flyers \cup {NoPreview}, todo : SUBSET Branches]

HasDerived(f) == {m \in Branches : <<f, m>> \in derived}
Coming(f) == IF uploading.step \in Writing /\ The = f THEN uploading.todo ELSE {}
Holds(f) == targets[f] \cup HasDerived(f) \cup Coming(f)

SameFile(f, g) == f # g /\ IsLive(f) /\ IsLive(g) /\ source[f].hash = source[g].hash

HoldsApart == \A f, g \in Sources : SameFile(f, g) => Holds(f) \cap Holds(g) = {}

(* A source flyer that is deleted, or not there yet, has no other rows.    *)
DeadHoldNothing ==
  \A f \in Sources : ~IsLive(f) => targets[f] = {} /\ HasDerived(f) = {}

(* A request is about a flyer whose source flyer lives; one that records a *)
(* preview has stored it.                                                  *)
RequestHasFlyer ==
  /\ uploading.step \in Rows =>
       uploading.flyer \in Flyers /\ The \in Sources /\ IsLive(The)
  /\ uploading.step = "record" => uploading.flyer \in previews

(* A file went with a second completion or a deletion, or is there.        *)
FileAccounted ==
  \A f \in Sources :
    IsLive(f) /\ object[source[f].path] = "removed" => source[f].path \in again \cup deleting

PreviewStored == \A x \in Flyers : preview[x] # NoPreview => preview[x] \in previews

UploadInv ==
  /\ UploadTypeOK
  /\ HoldsApart /\ DeadHoldNothing /\ RequestHasFlyer
  /\ FileAccounted /\ PreviewStored

USE UploadAssumption
    DEF Waiting, NoRequest, Answered, Call, The, files, tables, past, Writing, Rows,
        SameFile, Missing, Request

-----------------------------------------------------------------------------
(* Types that several steps need.                                          *)
LEMMA SourcesAreNumbers == Sources \subseteq Nat \ {0}
BY DEF Sources

LEMMA OriginalTyped ==
  ASSUME NEW f \in Sources
  PROVE  Original(f) \in Flyers /\ Original(f)[1] = f
BY DEF Original, Flyers

LEMMA LivePath ==
  ASSUME UploadTypeOK, NEW f \in Sources, IsLive(f)
  PROVE  source[f].path \in Paths /\ source[f].hash \in Contents
BY DEF UploadTypeOK, SourceRow, NoFlyer, IsLive

LEMMA LiveFlyerPath ==
  ASSUME UploadInv, NEW x \in LiveFlyers
  PROVE  x \in Flyers /\ x[1] \in Sources /\ IsLive(x[1]) /\ File(x) \in Paths
<1>1. x \in Flyers /\ x[1] \in Sources /\ x = <<x[1], x[2]>>
  BY DEF LiveFlyers, Flyers
<1>2. CASE x[2] = Source
  BY <1>1, <1>2, LivePath DEF UploadInv, LiveFlyers, File
<1>3. CASE x[2] # Source
  <2>1. x \in derived /\ x[2] \in Branches
    BY <1>1, <1>3 DEF LiveFlyers, Flyers
  <2>2. x[2] \in HasDerived(x[1])
    BY <1>1, <2>1 DEF HasDerived
  <2>3. IsLive(x[1])
    BY <1>1, <2>2 DEF UploadInv, DeadHoldNothing
  <2>4. QED
    BY <1>1, <2>3, LivePath DEF UploadInv, File
<1>4. QED
  BY <1>2, <1>3

(* Without a conflict, nobody else holds what remains of the ids.          *)
LEMMA NoConflict ==
  ASSUME NEW hash, NEW ids \in SUBSET Branches, NEW own \in Sources \cup {0},
         Waiting, NEW g \in Sources \ {own}, IsLive(g), source[g].hash = hash
  PROVE  (ids \ Conflicts(hash, ids, own)) \cap Holds(g) = {}
<1>1. Coming(g) = {}
  BY DEF Coming
<1>2. Holds(g) = targets[g] \cup HasDerived(g)
  BY <1>1 DEF Holds
<1>3. QED
  BY <1>2 DEF Conflicts, HasDerived

(* Nothing is held in common as long as nobody comes to hold more, and     *)
(* files and lives of source flyers stay.                                  *)
LEMMA HoldsLess ==
  ASSUME HoldsApart, \A f \in Sources : Holds(f)' \subseteq Holds(f),
         \A f, g \in Sources : SameFile(f, g)' => SameFile(f, g)
  PROVE  HoldsApart'
BY DEF HoldsApart

-----------------------------------------------------------------------------
(* A file is stored, or removed by a refused or a deleting request: no     *)
(* table changes.                                                          *)
LEMMA RemovedTyped ==
  ASSUME UploadTypeOK, NEW p \in Paths, RemoveFile(p)
  PROVE  /\ object' \in [Paths -> Contents \cup {"never", "removed"}]
         /\ \A q \in Paths : object'[q] = "removed" => object[q] = "removed" \/ q = p
BY DEF UploadTypeOK, RemoveFile

LEMMA FileStep ==
  ASSUME UploadInv, NEW p \in Paths,
         StoreFile(p) \/ \E ids \in SUBSET Branches \ {{}} : CompleteRefused(p, ids)
  PROVE  UploadInv'
<1> USE DEF UploadInv
<1>1. UNCHANGED <<previews, tables, uploading, deleting>>
      /\ again \subseteq again' /\ again' \subseteq again \cup {p}
  BY DEF StoreFile, CompleteRefused, RemoveFile, NoteAgain
<1>2. object' \in [Paths -> Contents \cup {"never", "removed"}]
  <2>1. CASE StoreFile(p)
    BY <2>1 DEF StoreFile, UploadTypeOK
  <2>2. CASE \E ids \in SUBSET Branches \ {{}} : CompleteRefused(p, ids)
    BY <2>2, RemovedTyped DEF CompleteRefused
  <2>3. QED
    BY <2>1, <2>2
<1>3. UploadTypeOK'
  BY <1>1, <1>2 DEF UploadTypeOK, SourceRow
<1>4. FileAccounted'
  <2>1. SUFFICES ASSUME NEW f \in Sources, IsLive(f), object'[source[f].path] = "removed"
                 PROVE  source[f].path \in again' \cup deleting
    BY <1>1 DEF FileAccounted, IsLive
  <2>2. source[f].path \in Paths
    BY <2>1, LivePath
  <2>3. CASE object[source[f].path] = "removed"
    BY <1>1, <2>1, <2>3 DEF FileAccounted
  <2>4. CASE object[source[f].path] # "removed"
    <3>1. source[f].path = p /\ \E ids \in SUBSET Branches \ {{}} : CompleteRefused(p, ids)
      <4>1. CASE StoreFile(p)
        BY <2>1, <2>2, <2>4, <4>1 DEF StoreFile, UploadTypeOK
      <4>2. CASE \E ids \in SUBSET Branches \ {{}} : CompleteRefused(p, ids)
        BY <2>1, <2>2, <2>4, <4>2, RemovedTyped DEF CompleteRefused
      <4>3. QED
        BY <4>1, <4>2
    <3>2. QED
      BY <2>1, <3>1 DEF CompleteRefused, NoteAgain
  <2>5. QED
    BY <2>3, <2>4
<1>5. HoldsApart' /\ DeadHoldNothing' /\ RequestHasFlyer' /\ PreviewStored'
  BY <1>1 DEF HoldsApart, DeadHoldNothing, RequestHasFlyer, PreviewStored, Holds, HasDerived,
              Coming, IsLive
<1>6. QED
  BY <1>3, <1>4, <1>5

(* The row of an upload: a new source flyer holds what it will be given,   *)
(* which no other with the same file holds.                                *)
LEMMA InsertSourceStep ==
  ASSUME UploadInv, NEW p \in Paths, NEW ids \in SUBSET Branches \ {{}}, InsertSource(p, ids)
  PROVE  UploadInv'
<1> USE DEF UploadInv, InsertSource
<1> DEFINE todo == ids \ Conflicts(object[p], ids, 0)
           row == [state |-> "live", path |-> p, hash |-> object[p]]
<1>1. PICK f \in Sources :
        /\ source[f] = NoFlyer
        /\ source' = [source EXCEPT ![f] = row]
        /\ uploading' = [step |-> "targets", flyer |-> Original(f), todo |-> todo]
  OBVIOUS
<1>2. ~IsLive(f) /\ targets[f] = {} /\ HasDerived(f) = {}
  BY <1>1 DEF IsLive, NoFlyer, DeadHoldNothing
<1>3. row \in SourceRow
  BY DEF SourceRow
<1>4. source'[f] = row /\ \A g \in Sources \ {f} : source'[g] = source[g]
  BY <1>1 DEF UploadTypeOK
<1>5. UNCHANGED <<files, targets, derived, preview, deleting>> /\ again \subseteq again'
      /\ again' \subseteq again \cup {p}
  BY DEF NoteAgain
<1>6. Original(f) \in Flyers /\ Original(f)[1] = f
  BY OriginalTyped
<1>7. UploadTypeOK'
  BY <1>1, <1>3, <1>5, <1>6 DEF UploadTypeOK
<1>8. HoldsApart'
  <2>1. Holds(f)' = todo
    BY <1>1, <1>2, <1>5, <1>6 DEF Holds, HasDerived, Coming
  <2>2. \A g \in Sources \ {f} : Holds(g)' = Holds(g)
    BY <1>1, <1>5, <1>6 DEF Holds, HasDerived, Coming
  <2>3. \A g \in Sources \ {f} : SameFile(f, g)' => todo \cap Holds(g) = {}
    <3>1. SUFFICES ASSUME NEW g \in Sources \ {f}, SameFile(f, g)'
                   PROVE  todo \cap Holds(g) = {}
      OBVIOUS
    <3>2. IsLive(g) /\ source[g].hash = object[p]
      BY <1>4, <3>1 DEF IsLive
    <3>3. g # 0
      BY SourcesAreNumbers
    <3>4. QED
      BY <3>2, <3>3, NoConflict
  <2>4. \A g, h \in Sources \ {f} : SameFile(g, h)' => SameFile(g, h)
    BY <1>4 DEF IsLive
  <2>5. SUFFICES ASSUME NEW g \in Sources, NEW h \in Sources, SameFile(g, h)'
                 PROVE  Holds(g)' \cap Holds(h)' = {}
    BY DEF HoldsApart
  <2>6. SameFile(h, g)' /\ g # h
    BY <2>5
  <2>7. QED
    BY <2>1, <2>2, <2>3, <2>4, <2>5, <2>6 DEF HoldsApart
<1>9. DeadHoldNothing' /\ RequestHasFlyer'
  BY <1>1, <1>4, <1>5, <1>6 DEF DeadHoldNothing, RequestHasFlyer, IsLive, HasDerived
<1>10. FileAccounted' /\ PreviewStored'
  <2>1. object[p] # "removed"
    OBVIOUS
  <2>2. FileAccounted'
    BY <1>4, <1>5, <2>1 DEF FileAccounted, IsLive
  <2>3. PreviewStored'
    BY <1>5 DEF PreviewStored
  <2>4. QED
    BY <2>2, <2>3
<1>11. QED
  BY <1>7, <1>8, <1>9, <1>10

(* What the upload writes next, and the previews: a request gives what it  *)
(* holds already.                                                          *)
LEMMA InsertTargetsStep ==
  ASSUME UploadInv, InsertFlyerTargets
  PROVE  UploadInv'
<1> USE DEF UploadInv, InsertFlyerTargets
<1>1. uploading.flyer \in Flyers /\ The \in Sources /\ IsLive(The)
  BY DEF RequestHasFlyer
<1>2. UploadTypeOK'
  BY DEF UploadTypeOK
<1>3. HoldsApart'
  BY <1>1, HoldsLess DEF UploadTypeOK, Holds, HasDerived, Coming, IsLive
<1>4. DeadHoldNothing' /\ RequestHasFlyer'
  BY <1>1 DEF UploadTypeOK, DeadHoldNothing, RequestHasFlyer, IsLive, HasDerived
<1>5. FileAccounted' /\ PreviewStored'
  BY DEF FileAccounted, PreviewStored, IsLive
<1>6. QED
  BY <1>2, <1>3, <1>4, <1>5

LEMMA PreviewStep ==
  ASSUME UploadInv,
         StorePreview \/ RecordPreview \/ RequestRaises \/ \E x \in Flyers : EnsurePreview(x)
  PROVE  UploadInv'
<1> USE DEF UploadInv
<1>1. UNCHANGED <<object, source, targets, derived, past>>
  BY DEF StorePreview, RecordPreview, RequestRaises, EnsurePreview
<1>2. \/ uploading' = NoRequest
      \/ /\ uploading.step = "render"
         /\ uploading' = [uploading EXCEPT !.step = "record"]
         /\ uploading.flyer \in previews'
      \/ \E x \in LiveFlyers : uploading' = [NoRequest EXCEPT !.step = "render", !.flyer = x]
  BY DEF StorePreview, RecordPreview, RequestRaises, EnsurePreview
<1>3. /\ previews' = previews \/ (previews' = previews \cup {uploading.flyer}
                                 /\ uploading.step = "render")
      /\ preview' = preview \/ (preview' = [preview EXCEPT ![uploading.flyer] = uploading.flyer]
                               /\ uploading.step = "record")
  BY DEF StorePreview, RecordPreview, RequestRaises, EnsurePreview
<1>4. RequestHasFlyer' /\ uploading'.step \notin Writing
      /\ uploading' \in Request
  <2>1. CASE uploading' = NoRequest
    BY <2>1 DEF RequestHasFlyer
  <2>2. CASE /\ uploading.step = "render"
             /\ uploading' = [uploading EXCEPT !.step = "record"]
             /\ uploading.flyer \in previews'
    BY <1>1, <2>2 DEF RequestHasFlyer, UploadTypeOK, IsLive
  <2>3. CASE \E x \in LiveFlyers :
               uploading' = [NoRequest EXCEPT !.step = "render", !.flyer = x]
    BY <1>1, <2>3, LiveFlyerPath DEF RequestHasFlyer, IsLive
  <2>4. QED
    BY <1>2, <2>1, <2>2, <2>3
<1>5. previews' \subseteq Flyers /\ preview' \in [Flyers -> Flyers \cup {NoPreview}]
  BY <1>3 DEF RequestHasFlyer, UploadTypeOK
<1>6. UploadTypeOK'
  BY <1>1, <1>4, <1>5 DEF UploadTypeOK
<1>7. HoldsApart' /\ DeadHoldNothing'
  <2>1. \A f \in Sources : Holds(f)' \subseteq Holds(f)
    BY <1>1, <1>4 DEF Holds, HasDerived, Coming
  <2>2. \A f, g \in Sources : SameFile(f, g)' => SameFile(f, g)
    BY <1>1 DEF IsLive
  <2>3. QED
    BY <1>1, <2>1, <2>2, HoldsLess DEF IsLive, DeadHoldNothing, HasDerived
<1>8. FileAccounted'
  BY <1>1 DEF FileAccounted, IsLive
<1>9. PreviewStored'
  BY <1>3 DEF PreviewStored, RequestHasFlyer, UploadTypeOK
<1>10. QED
  BY <1>4, <1>6, <1>7, <1>8, <1>9

-----------------------------------------------------------------------------
(* Publication and change of the targets: what is held stays held, until   *)
(* it is dropped, and new targets are those without a conflict.            *)
LEMMA PublishStep ==
  ASSUME UploadInv, NEW f \in Sources, Publish(f)
  PROVE  UploadInv'
<1> USE DEF UploadInv, Publish
<1>1. Original(f) \in Flyers /\ Original(f)[1] = f
  BY OriginalTyped
<1>2. UploadTypeOK'
  BY <1>1 DEF UploadTypeOK
<1>3. HoldsApart'
  <2>1. \A g \in Sources : Holds(g)' \subseteq Holds(g)
    BY <1>1 DEF Holds, HasDerived, Coming
  <2>2. QED
    BY <2>1, HoldsLess DEF IsLive
<1>4. DeadHoldNothing' /\ RequestHasFlyer'
  BY <1>1 DEF DeadHoldNothing, RequestHasFlyer, IsLive, HasDerived
<1>5. FileAccounted' /\ PreviewStored'
  BY DEF FileAccounted, PreviewStored, IsLive
<1>6. QED
  BY <1>2, <1>3, <1>4, <1>5

LEMMA InsertDerivedStep ==
  ASSUME UploadInv, NEW m \in Branches, InsertDerived(m)
  PROVE  UploadInv'
<1> USE DEF UploadInv, InsertDerived
<1>1. The \in Sources /\ IsLive(The) /\ uploading.flyer \in Flyers
  BY DEF RequestHasFlyer
<1>2. Original(The) \in Flyers /\ <<The, m>> \in Flyers /\ <<The, m>> \in Sources \X Branches
  BY <1>1, OriginalTyped DEF Flyers
<1>3. /\ uploading' \in Request
      /\ \/ uploading' = NoRequest
         \/ /\ uploading'.flyer = uploading.flyer /\ uploading'.step = uploading.step
            /\ uploading'.todo \subseteq uploading.todo
  <2>1. CASE uploading.todo = {m}
    BY <2>1
  <2>2. CASE uploading.todo # {m}
    <3>1. uploading' = [uploading EXCEPT !.todo = uploading.todo \ {m}]
      BY <2>2
    <3>2. uploading'.flyer = uploading.flyer /\ uploading'.step = uploading.step
          /\ uploading'.todo = uploading.todo \ {m}
      BY <3>1 DEF UploadTypeOK
    <3>3. uploading' \in Request
      BY <3>1 DEF UploadTypeOK
    <3>4. QED
      BY <3>2, <3>3
  <2>3. QED
    BY <2>1, <2>2
<1>4. UploadTypeOK'
  BY <1>2, <1>3 DEF UploadTypeOK
<1>5. HoldsApart'
  <2>1. \A f \in Sources : Coming(f)' \subseteq Coming(f)
    BY <1>3 DEF Coming
  <2>2. \A f \in Sources : HasDerived(f)' \subseteq HasDerived(f) \cup Coming(f)
    BY DEF HasDerived, Coming
  <2>3. \A f \in Sources : Holds(f)' \subseteq Holds(f)
    BY <2>1, <2>2 DEF Holds
  <2>4. QED
    BY <2>3, HoldsLess DEF IsLive
<1>6. DeadHoldNothing' /\ RequestHasFlyer'
  BY <1>1, <1>3 DEF DeadHoldNothing, RequestHasFlyer, IsLive, HasDerived
<1>7. FileAccounted'
  BY DEF FileAccounted, IsLive
<1>8. PreviewStored'
  BY <1>2 DEF PreviewStored, UploadTypeOK
<1>9. QED
  BY <1>4, <1>5, <1>6, <1>7, <1>8

LEMMA ClearTargetsStep ==
  ASSUME UploadInv, NEW f \in Sources, NEW ids \in SUBSET Branches \ {{}}, ClearTargets(f, ids)
  PROVE  UploadInv'
<1> USE DEF UploadInv, ClearTargets
<1> DEFINE todo == ids \ Conflicts(source[f].hash, ids, f)
<1>1. Original(f) \in Flyers /\ Original(f)[1] = f
  BY OriginalTyped
<1>2. uploading' = [step |-> "replace", flyer |-> Original(f), todo |-> todo]
      /\ todo \subseteq Branches
  OBVIOUS
<1>3. UploadTypeOK'
  BY <1>1, <1>2 DEF UploadTypeOK
<1>4. HoldsApart'
  <2>1. Holds(f)' \subseteq HasDerived(f) \cup todo
    BY <1>1, <1>2 DEF Holds, HasDerived, Coming, UploadTypeOK
  <2>2. \A g \in Sources \ {f} : Holds(g)' = Holds(g)
    BY <1>1, <1>2 DEF Holds, HasDerived, Coming, UploadTypeOK
  <2>3. \A g \in Sources \ {f} : SameFile(f, g) => todo \cap Holds(g) = {}
    BY NoConflict
  <2>4. HasDerived(f) \subseteq Holds(f)
    BY DEF Holds
  <2>5. \A g, h \in Sources : SameFile(g, h)' => SameFile(g, h) /\ SameFile(h, g)
    BY DEF IsLive
  <2>6. SUFFICES ASSUME NEW g \in Sources, NEW h \in Sources, SameFile(g, h)'
                 PROVE  Holds(g)' \cap Holds(h)' = {}
    BY DEF HoldsApart
  <2>7. SameFile(g, h) /\ SameFile(h, g) /\ Holds(g) \cap Holds(h) = {}
    BY <2>5, <2>6 DEF HoldsApart
  <2>8. CASE g = f
    BY <2>1, <2>2, <2>3, <2>4, <2>7, <2>8
  <2>9. CASE h = f
    BY <2>1, <2>2, <2>3, <2>4, <2>7, <2>9
  <2>10. QED
    BY <2>2, <2>7, <2>8, <2>9
<1>5. DeadHoldNothing' /\ RequestHasFlyer'
  BY <1>1, <1>2 DEF DeadHoldNothing, RequestHasFlyer, IsLive, HasDerived, UploadTypeOK
<1>6. FileAccounted' /\ PreviewStored'
  BY DEF FileAccounted, PreviewStored, IsLive
<1>7. QED
  BY <1>3, <1>4, <1>5, <1>6

LEMMA ReplaceTargetsStep ==
  ASSUME UploadInv, ReplaceTargets
  PROVE  UploadInv'
<1> USE DEF UploadInv, ReplaceTargets
<1>1. The \in Sources /\ IsLive(The) /\ uploading.flyer \in Flyers
      /\ uploading.todo \subseteq Branches
  BY DEF RequestHasFlyer, UploadTypeOK
<1>2. /\ uploading' \in Request
      /\ \/ uploading' = NoRequest
         \/ /\ uploading'.flyer = uploading.flyer /\ uploading'.step = "unpublish"
            /\ uploading'.todo = uploading.todo
  <2>1. CASE uploading' = NoRequest
    BY <2>1
  <2>2. CASE uploading' = [uploading EXCEPT !.step = "unpublish"]
    BY <2>2 DEF UploadTypeOK
  <2>3. QED
    BY <2>1, <2>2
<1>3. UploadTypeOK'
  BY <1>1, <1>2 DEF UploadTypeOK
<1>4. HoldsApart'
  <2>1. \A f \in Sources : targets'[f] \subseteq targets[f] \cup Coming(f)
    BY DEF UploadTypeOK, Coming
  <2>2. \A f \in Sources : Coming(f)' \subseteq Coming(f)
    BY <1>2 DEF Coming
  <2>3. \A f \in Sources : Holds(f)' \subseteq Holds(f)
    BY <2>1, <2>2 DEF Holds, HasDerived
  <2>4. QED
    BY <2>3, HoldsLess DEF IsLive
<1>5. DeadHoldNothing' /\ RequestHasFlyer'
  BY <1>1, <1>2 DEF DeadHoldNothing, RequestHasFlyer, IsLive, HasDerived, UploadTypeOK
<1>6. FileAccounted' /\ PreviewStored'
  BY DEF FileAccounted, PreviewStored, IsLive
<1>7. QED
  BY <1>3, <1>4, <1>5, <1>6

LEMMA DeleteDroppedStep ==
  ASSUME UploadInv, DeleteDropped
  PROVE  UploadInv'
<1> USE DEF UploadInv, DeleteDropped
<1>1. The \in Sources /\ IsLive(The) /\ uploading.flyer \in Flyers
  BY DEF RequestHasFlyer
<1>2. /\ uploading' \in Request
      /\ uploading'.flyer = uploading.flyer /\ uploading'.step = "publish"
      /\ uploading'.todo = uploading.todo
  BY DEF UploadTypeOK
<1>3. derived' \subseteq derived
      /\ preview' \in [Flyers -> Flyers \cup {NoPreview}]
      /\ \A x \in Flyers : preview'[x] \in {preview[x], NoPreview}
  BY DEF UploadTypeOK
<1>4. UploadTypeOK'
  BY <1>2, <1>3 DEF UploadTypeOK
<1>5. HoldsApart'
  <2>1. \A f \in Sources : Coming(f)' \subseteq Coming(f)
    BY <1>2 DEF Coming
  <2>2. \A f \in Sources : Holds(f)' \subseteq Holds(f)
    BY <1>3, <2>1 DEF Holds, HasDerived
  <2>3. QED
    BY <2>2, HoldsLess DEF IsLive
<1>6. DeadHoldNothing' /\ RequestHasFlyer'
  BY <1>1, <1>2, <1>3 DEF DeadHoldNothing, RequestHasFlyer, IsLive, HasDerived
<1>7. FileAccounted' /\ PreviewStored'
  BY <1>3 DEF FileAccounted, PreviewStored, IsLive
<1>8. QED
  BY <1>4, <1>5, <1>6, <1>7

-----------------------------------------------------------------------------
(* A deletion accounts for the file that it may have removed.              *)
LEMMA DeleteFileStep ==
  ASSUME UploadInv, NEW x \in Flyers, DeleteFile(x)
  PROVE  UploadInv'
<1> USE DEF UploadInv, DeleteFile
<1>1. x[1] \in Sources /\ IsLive(x[1]) /\ File(x) \in Paths
  BY LiveFlyerPath
<1>2. object' \in [Paths -> Contents \cup {"never", "removed"}]
      /\ \A q \in Paths : object'[q] = "removed" => object[q] = "removed" \/ q = File(x)
  BY <1>1, RemovedTyped
<1>3. UNCHANGED <<previews, tables, again>> /\ deleting' = deleting \cup {File(x)}
  BY DEF RemoveFile
<1>4. uploading' = [step |-> "delete", flyer |-> x, todo |-> {}]
  OBVIOUS
<1>5. UploadTypeOK'
  BY <1>1, <1>2, <1>3, <1>4 DEF UploadTypeOK
<1>6. HoldsApart'
  <2>1. \A f \in Sources : Holds(f)' \subseteq Holds(f)
    BY <1>3, <1>4 DEF Holds, HasDerived, Coming
  <2>2. QED
    BY <1>3, <2>1, HoldsLess DEF IsLive
<1>7. DeadHoldNothing' /\ RequestHasFlyer' /\ PreviewStored'
  BY <1>1, <1>3, <1>4 DEF DeadHoldNothing, RequestHasFlyer, PreviewStored, IsLive, HasDerived
<1>8. FileAccounted'
  <2>1. SUFFICES ASSUME NEW f \in Sources, IsLive(f), object'[source[f].path] = "removed"
                 PROVE  source[f].path \in again \cup deleting'
    BY <1>3 DEF FileAccounted, IsLive
  <2>2. source[f].path \in Paths
    BY <2>1, LivePath
  <2>3. QED
    BY <1>2, <1>3, <2>1, <2>2 DEF FileAccounted
<1>9. QED
  BY <1>5, <1>6, <1>7, <1>8

(* The rows that refer to a source flyer go with it.                       *)
LEMMA DeleteRowStep ==
  ASSUME UploadInv, DeleteRow
  PROVE  UploadInv'
<1> USE DEF UploadInv
<1>1. The \in Sources /\ IsLive(The)
  BY DEF RequestHasFlyer, DeleteRow
<1>2. /\ derived' \subseteq derived
      /\ preview' \in [Flyers -> Flyers \cup {NoPreview}]
      /\ \A x \in Flyers : preview'[x] \in {preview[x], NoPreview}
      /\ uploading' = NoRequest
      /\ UNCHANGED <<files, past>>
  BY DEF UploadTypeOK, DeleteRow
<1>3. \/ UNCHANGED <<source, targets>>
      \/ /\ source' = [source EXCEPT ![The].state = "deleted"]
         /\ targets' = [targets EXCEPT ![The] = {}]
         /\ derived' = {x \in derived : x[1] # The}
  BY DEF DeleteRow
<1>4. /\ source' \in [Sources -> SourceRow]
      /\ \A f \in Sources : IsLive(f)' => source'[f] = source[f]
      /\ \A f \in Sources : ~IsLive(f)' =>
           ~IsLive(f) \/ (targets'[f] = {} /\ HasDerived(f)' = {})
  <2>1. CASE UNCHANGED <<source, targets>>
    BY <2>1 DEF UploadTypeOK, IsLive
  <2>2. CASE /\ source' = [source EXCEPT ![The].state = "deleted"]
             /\ targets' = [targets EXCEPT ![The] = {}]
             /\ derived' = {x \in derived : x[1] # The}
    <3>1. PICK t \in Sources : t = The /\ IsLive(t)
      BY <1>1
    <3>2. [source[t] EXCEPT !.state = "deleted"] \in SourceRow
      BY <3>1 DEF UploadTypeOK, SourceRow, NoFlyer, IsLive
    <3>3. /\ source' \in [Sources -> SourceRow]
          /\ \A f \in Sources \ {t} : source'[f] = source[f] /\ targets'[f] = targets[f]
          /\ targets'[t] = {} /\ source'[t].state = "deleted"
      <4>1. source' = [source EXCEPT ![t] = [source[t] EXCEPT !.state = "deleted"]]
        BY <2>2, <3>1
      <4>2. targets' = [targets EXCEPT ![t] = {}]
        BY <2>2, <3>1
      <4>3. [source[t] EXCEPT !.state = "deleted"].state = "deleted"
        BY <3>1 DEF UploadTypeOK, SourceRow, NoFlyer, IsLive
      <4>4. QED
        BY <3>2, <4>1, <4>2, <4>3 DEF UploadTypeOK
    <3>4. HasDerived(t)' = {}
      BY <2>2, <3>1 DEF HasDerived
    <3>5. ~IsLive(t)' /\ \A f \in Sources \ {t} : IsLive(f)' <=> IsLive(f)
      BY <3>3 DEF IsLive
    <3>6. \A f \in Sources : IsLive(f)' => source'[f] = source[f]
      BY <3>3, <3>5
    <3>7. ASSUME NEW f \in Sources, ~IsLive(f)'
          PROVE  ~IsLive(f) \/ (targets'[f] = {} /\ HasDerived(f)' = {})
      <4>1. CASE f = t
        BY <3>3, <3>4, <4>1 DEF HasDerived
      <4>2. CASE f # t
        BY <3>5, <3>7, <4>2
      <4>3. QED
        BY <4>1, <4>2
    <3>8. QED
      BY <3>3, <3>6, <3>7
  <2>3. QED
    BY <1>3, <2>1, <2>2
<1>5. \A f \in Sources : targets'[f] \in {targets[f], {}} /\ HasDerived(f)' \subseteq HasDerived(f)
  BY <1>2, <1>3 DEF HasDerived, UploadTypeOK
<1>6. targets' \in [Sources -> SUBSET Branches]
  BY <1>3 DEF UploadTypeOK
<1>7. UploadTypeOK'
  BY <1>2, <1>4, <1>6 DEF UploadTypeOK
<1>8. HoldsApart'
  <2>1. \A f \in Sources : Holds(f)' \subseteq Holds(f)
    BY <1>2, <1>5 DEF Holds, Coming
  <2>2. \A f, g \in Sources : SameFile(f, g)' => SameFile(f, g)
    BY <1>4 DEF IsLive
  <2>3. QED
    BY <2>1, <2>2, HoldsLess
<1>9. DeadHoldNothing' /\ RequestHasFlyer'
  BY <1>2, <1>4, <1>5 DEF DeadHoldNothing, RequestHasFlyer
<1>10. FileAccounted' /\ PreviewStored'
  BY <1>2, <1>4 DEF FileAccounted, PreviewStored, IsLive
<1>11. QED
  BY <1>7, <1>8, <1>9, <1>10

-----------------------------------------------------------------------------
LEMMA UploadInitial == UploadInit => UploadInv
<1>1. SUFFICES ASSUME UploadInit PROVE UploadInv
  OBVIOUS
<1>2. UploadTypeOK
  BY <1>1 DEF UploadInit, UploadTypeOK, SourceRow
<1>3. \A f \in Sources : ~IsLive(f)
  BY <1>1 DEF UploadInit, IsLive, NoFlyer
<1>4. QED
  BY <1>1, <1>2, <1>3 DEF UploadInit, UploadInv, HoldsApart, DeadHoldNothing, RequestHasFlyer,
                          FileAccounted, PreviewStored, HasDerived

LEMMA UploadStep == UploadInv /\ [UploadNext]_uploadVars => UploadInv'
<1>1. SUFFICES ASSUME UploadInv, [UploadNext]_uploadVars PROVE UploadInv'
  OBVIOUS
<1>2. CASE UNCHANGED uploadVars
  BY <1>1, <1>2 DEF uploadVars, UploadInv, UploadTypeOK, HoldsApart, DeadHoldNothing,
                    RequestHasFlyer, FileAccounted, PreviewStored, Holds, HasDerived, Coming, IsLive
<1>3. CASE UploadNext
  BY <1>1, <1>3, FileStep, InsertSourceStep, InsertTargetsStep, PreviewStep, PublishStep,
     InsertDerivedStep, ClearTargetsStep, ReplaceTargetsStep, DeleteDroppedStep,
     DeleteFileStep, DeleteRowStep DEF UploadNext
<1>4. QED
  BY <1>1, <1>2, <1>3

(* flyers.py: uploads, changes of targets, publications and deletions keep *)
(* the strengthened invariant wherever they end.                           *)
THEOREM UploadInvariant == UploadSpec => []UploadInv
BY UploadInitial, UploadStep, PTL DEF UploadSpec

(* _duplicate_target_conflicts: no two source flyers with one file have a  *)
(* supermarket between them, also after requests that ended half-way.      *)
THEOREM NoDuplicateTargets == UploadSpec => []OneSourcePerTarget
<1>1. UploadInv => OneSourcePerTarget
  BY DEF UploadInv, HoldsApart, OneSourcePerTarget, Holds, HasDerived
<1>2. QED
  BY <1>1, UploadInvariant, PTL

(* _remove_flyer_object and _ensure_flyer_preview: a file goes only with a *)
(* second completion or a deletion, and every preview shown is stored.     *)
THEOREM FilesStay == UploadSpec => []FilesAreKept
<1>1. UploadInv => FilesAreKept
  <2>1. SUFFICES ASSUME UploadInv, NEW x \in LiveFlyers
                 PROVE  /\ object[File(x)] = "removed" => File(x) \in again \cup deleting
                        /\ preview[x] # NoPreview => preview[x] \in previews
    BY DEF FilesAreKept
  <2>2. x \in Flyers /\ x[1] \in Sources /\ IsLive(x[1])
    BY <2>1, LiveFlyerPath
  <2>3. QED
    BY <2>1, <2>2 DEF UploadInv, FileAccounted, PreviewStored, File
<1>2. QED
  BY <1>1, UploadInvariant, PTL
=============================================================================
