------------------------------ MODULE FlyerUpload ------------------------------
(***************************************************************************)
(* Upload of flyers, their files and their previews: api/routers/flyers.py. *)
(*                                                                         *)
(* A client asks for a signed upload of a new storage path, puts the file  *)
(* there, and completes the upload: the file is checked, a source flyer is *)
(* inserted for the supermarkets that do not have the same file yet, and a *)
(* preview is rendered.  The derived flyers of a publication share file    *)
(* and preview with their source flyer, and deleting a flyer removes its   *)
(* file.  The answer to a client may be lost, so that it completes again.  *)
(*                                                                         *)
(* An action is one writing call to the database or the storage with the   *)
(* reads before it; a request may end after any of them.                   *)
(***************************************************************************)
EXTENDS Naturals, FiniteSets

CONSTANTS
  Paths,       \* storage paths: one for each signed upload
  Contents,    \* what files contain, named by their SHA-256
  Mismatched,  \* contents that are not of the declared type
  TooLarge,    \* contents of more than MAX_FILE_SIZE
  Branches,    \* supermarkets
  Source,      \* names a source flyer: any value outside Branches
  MaxSources   \* bound: source flyers that can be inserted

ASSUME UploadAssumption ==
  /\ Source \notin Branches
  /\ Contents \cap {"never", "removed"} = {}
  /\ Mismatched \subseteq Contents /\ TooLarge \subseteq Contents
  /\ MaxSources \in Nat

VARIABLES
  object,    \* storage: path -> content, or why there is no file
  previews,  \* storage: the flyers with an object previews/{flyer_id}.webp
  source,    \* source flyers: path and hash of the file
  targets,   \* flyer_targets: source flyer -> supermarkets
  derived,   \* derived flyers, by source flyer and supermarket
  preview,   \* preview_path: flyer -> the flyer that the path names
  uploading, \* the request under way
  again,     \* history: paths completed again after they had a flyer
  deleting   \* history: paths of flyers whose deletion has begun

files == <<object, previews>>
tables == <<source, targets, derived, preview>>
past == <<again, deleting>>
uploadVars == <<files, tables, uploading, past>>

Sources == 1 .. MaxSources
Flyers == Sources \X (Branches \cup {Source})
Original(f) == <<f, Source>>

Missing == {"never", "removed"}
NoFlyer == [state |-> "unused", path |-> "none", hash |-> "none"]
SourceRow == [state : {"live", "deleted"}, path : Paths, hash : Contents] \cup {NoFlyer}
NoPreview == <<0, Source>>

IsLive(f) == source[f].state = "live"
LiveFlyers == {x \in Flyers : IF x[2] = Source THEN IsLive(x[1]) ELSE x \in derived}
File(x) == source[x[1]].path

(* A request: its next call, its flyer, and supermarkets it has read.      *)
NoRequest == [step |-> "idle", flyer |-> NoPreview, todo |-> {}]
Waiting == uploading = NoRequest
Call(step) == uploading' = [uploading EXCEPT !.step = step]
Answered == uploading' = NoRequest
The == uploading.flyer[1]

UploadInit ==
  /\ object = [p \in Paths |-> "never"]
  /\ previews = {}
  /\ source = [f \in Sources |-> NoFlyer]
  /\ targets = [f \in Sources |-> {}]
  /\ derived = {}
  /\ preview = [x \in Flyers |-> NoPreview]
  /\ uploading = NoRequest
  /\ again = {}
  /\ deleting = {}

-----------------------------------------------------------------------------
(* create_flyer_upload_url makes a new path; the client stores the file.   *)
StoreFile(p) ==
  /\ object[p] = "never"
  /\ \E c \in Contents : object' = [object EXCEPT ![p] = c]
  /\ UNCHANGED <<previews, tables, uploading, past>>

(* _remove_flyer_object ignores its own failure.                           *)
RemoveFile(p) ==
  /\ object' \in {object, [object EXCEPT ![p] = IF @ = "never" THEN @ ELSE "removed"]}
  /\ UNCHANGED previews

(* Mutant of Conflicts: only what is published counts.                     *)
PublishedConflicts(hash, ids, own) ==
  {m \in ids : \E f \in Sources \ {own} : <<f, m>> \in derived /\ source[f].hash = hash}

(* _duplicate_target_conflicts *)
Conflicts(hash, ids, own) ==
  {m \in ids : \E f \in Sources \ {own} :
     /\ IsLive(f)
     /\ source[f].hash = hash
     /\ m \in targets[f] \/ <<f, m>> \in derived}

NoteAgain(p) ==
  /\ again' = again \cup {q \in {p} : \E f \in Sources : IsLive(f) /\ source[f].path = p}
  /\ UNCHANGED deleting

(* complete_flyer_upload: the file is too large, or every supermarket has  *)
(* it already.  A file of the wrong type is left where it is.              *)
CompleteRefused(p, ids) ==
  /\ Waiting
  /\ object[p] \in Contents
  /\ \/ object[p] \in TooLarge
     \/ object[p] \notin Mismatched /\ Conflicts(object[p], ids, 0) = ids
  /\ RemoveFile(p)
  /\ NoteAgain(p)
  /\ UNCHANGED <<tables, uploading>>

(* complete_flyer_upload: the row of the source flyer ...                  *)
InsertSource(p, ids) ==
  /\ Waiting
  /\ object[p] \in Contents \ (TooLarge \cup Mismatched)
  /\ Conflicts(object[p], ids, 0) # ids
  /\ \E f \in Sources :
       /\ source[f] = NoFlyer
       /\ \A g \in 1 .. f - 1 : source[g] # NoFlyer
       /\ source' = [source EXCEPT ![f] = [state |-> "live", path |-> p, hash |-> object[p]]]
       /\ uploading' = [step |-> "targets", flyer |-> Original(f),
                        todo |-> ids \ Conflicts(object[p], ids, 0)]
  /\ NoteAgain(p)
  /\ UNCHANGED <<files, targets, derived, preview>>

(* ... its targets ...                                                     *)
InsertFlyerTargets ==
  /\ uploading.step = "targets"
  /\ targets' = [targets EXCEPT ![The] = uploading.todo]
  /\ Call("render")
  /\ UNCHANGED <<files, source, derived, preview, past>>

(* ... and the preview, unless the file cannot be rendered.  The preview   *)
(* handlers make a missing preview of any flyer in the same way.           *)
StorePreview ==
  /\ uploading.step = "render"
  /\ \/ previews' = previews \cup {uploading.flyer} /\ Call("record")
     \/ previews' = previews /\ Answered
  /\ UNCHANGED <<object, tables, past>>

RecordPreview ==
  /\ uploading.step = "record"
  /\ preview' = [preview EXCEPT ![uploading.flyer] = uploading.flyer]
  /\ Answered
  /\ UNCHANGED <<files, source, targets, derived, past>>

(* _ensure_flyer_preview *)
EnsurePreview(x) ==
  /\ Waiting
  /\ x \in LiveFlyers
  /\ preview[x] = NoPreview
  /\ object[File(x)] \in Contents
  /\ uploading' = [NoRequest EXCEPT !.step = "render", !.flyer = x]
  /\ UNCHANGED <<files, tables, past>>

(* Mutant of RequestRaises: the file is removed after any error.           *)
RemoveAfterAnyError ==
  /\ uploading.step \in {"targets", "render", "record"}
  /\ object' = [object EXCEPT ![File(uploading.flyer)] = "removed"]
  /\ Answered
  /\ UNCHANGED <<previews, tables, past>>

(* A call raises, or the process dies: what was written stays.             *)
RequestRaises ==
  /\ ~Waiting
  /\ Answered
  /\ UNCHANGED <<files, tables, past>>

-----------------------------------------------------------------------------
(* confirm_offers as far as it makes derived flyers, one after the other.  *)
Publish(f) ==
  /\ Waiting
  /\ IsLive(f)
  /\ targets[f] # {}
  /\ uploading' = [step |-> "publish", flyer |-> Original(f), todo |-> targets[f]]
  /\ UNCHANGED <<files, tables, past>>

InsertDerived(m) ==
  /\ uploading.step = "publish"
  /\ m \in uploading.todo
  /\ derived' = derived \cup {<<The, m>>}
  /\ preview' = IF <<The, m>> \in derived THEN preview
                ELSE [preview EXCEPT ![<<The, m>>] = preview[Original(The)]]
  /\ uploading' = IF uploading.todo = {m} THEN NoRequest
                  ELSE [uploading EXCEPT !.todo = @ \ {m}]
  /\ UNCHANGED <<files, source, targets, past>>

(* update_flyer_targets *)
ClearTargets(f, ids) ==
  /\ Waiting
  /\ IsLive(f)
  /\ Conflicts(source[f].hash, ids, f) # ids
  /\ targets' = [targets EXCEPT ![f] = {}]
  /\ uploading' = [step |-> "replace", flyer |-> Original(f),
                   todo |-> ids \ Conflicts(source[f].hash, ids, f)]
  /\ UNCHANGED <<files, source, derived, preview, past>>

ReplaceTargets ==
  /\ uploading.step = "replace"
  /\ targets' = [targets EXCEPT ![The] = uploading.todo]
  /\ \/ Call("unpublish")
     \/ (\A m \in Branches : <<The, m>> \notin derived) /\ Answered
  /\ UNCHANGED <<files, source, derived, preview, past>>

DeleteDropped ==
  /\ uploading.step = "unpublish"
  /\ derived' = {x \in derived : x[1] = The => x[2] \in uploading.todo}
  /\ preview' = [x \in Flyers |-> IF x \in derived \ derived' THEN NoPreview ELSE preview[x]]
  /\ Call("publish")
  /\ UNCHANGED <<files, source, targets, past>>

-----------------------------------------------------------------------------
(* Mutant of DeleteFile: preview_path is selected and removed as well.     *)
DeleteFileAndPreview(x) ==
  /\ Waiting
  /\ x \in LiveFlyers
  /\ object' = [object EXCEPT ![File(x)] = IF @ = "never" THEN @ ELSE "removed"]
  /\ previews' = previews \ {preview[x]}
  /\ deleting' = deleting \cup {File(x)}
  /\ uploading' = [NoRequest EXCEPT !.step = "delete", !.flyer = x]
  /\ UNCHANGED <<tables, again>>

(* delete_flyer of a source or a derived flyer: first its file (it selects *)
(* no preview_path, so that the preview stays) ...                         *)
DeleteFile(x) ==
  /\ Waiting
  /\ x \in LiveFlyers
  /\ RemoveFile(File(x))
  /\ deleting' = deleting \cup {File(x)}
  /\ uploading' = [NoRequest EXCEPT !.step = "delete", !.flyer = x]
  /\ UNCHANGED <<tables, again>>

(* ... then its row, with the rows that refer to a source flyer.           *)
DeleteRow ==
  /\ uploading.step = "delete"
  /\ IF uploading.flyer = Original(The)
     THEN /\ source' = [source EXCEPT ![The].state = "deleted"]
          /\ targets' = [targets EXCEPT ![The] = {}]
          /\ derived' = {x \in derived : x[1] # The}
     ELSE derived' = derived \ {uploading.flyer} /\ UNCHANGED <<source, targets>>
  /\ preview' = [x \in Flyers |-> IF x = uploading.flyer \/ uploading.flyer = Original(x[1])
                                  THEN NoPreview ELSE preview[x]]
  /\ Answered
  /\ UNCHANGED <<files, past>>

UploadNext ==
  \/ \E p \in Paths : \/ StoreFile(p)
                      \/ \E ids \in SUBSET Branches \ {{}} :
                           CompleteRefused(p, ids) \/ InsertSource(p, ids)
  \/ InsertFlyerTargets \/ StorePreview \/ RecordPreview \/ RequestRaises
  \/ \E f \in Sources : \/ Publish(f)
                        \/ \E ids \in SUBSET Branches \ {{}} : ClearTargets(f, ids)
  \/ \E m \in Branches : InsertDerived(m)
  \/ ReplaceTargets \/ DeleteDropped \/ DeleteRow
  \/ \E x \in Flyers : EnsurePreview(x) \/ DeleteFile(x)

UploadSpec == UploadInit /\ [][UploadNext]_uploadVars

-----------------------------------------------------------------------------
(* The types of the variables.                                             *)
UploadTypeOK ==
  /\ object \in [Paths -> Contents \cup Missing]
  /\ previews \subseteq Flyers
  /\ source \in [Sources -> SourceRow]
  /\ targets \in [Sources -> SUBSET Branches]
  /\ derived \subseteq Sources \X Branches
  /\ preview \in [Flyers -> Flyers \cup {NoPreview}]
  /\ uploading \in [step : {"idle", "targets", "render", "record", "publish", "replace",
                            "unpublish", "delete"},
                    flyer : Flyers \cup {NoPreview}, todo : SUBSET Branches]
  /\ again \subseteq Paths /\ deleting \subseteq Paths

(* tests/test_flyers_router.py:9, "Duplicate hash+supermarket returns 409": *)
(* however uploads, changes of the targets, publications and deletions     *)
(* follow each other and wherever they end, a supermarket is a target of,  *)
(* or has the published flyer of, at most one source flyer with the same   *)
(* file.                                                                   *)
OneSourcePerTarget ==
  \A f, g \in Sources, m \in Branches :
    /\ IsLive(f) /\ IsLive(g) /\ f # g
    /\ source[f].hash = source[g].hash
    /\ m \in targets[f]
    => m \notin targets[g] /\ <<g, m>> \notin derived

(* Every flyer has its file, unless its upload was completed a second time *)
(* or a flyer with the same file was deleted; and it has the preview that  *)
(* its row names, though derived flyers show the preview of another row.   *)
FilesAreKept ==
  \A x \in LiveFlyers :
    /\ object[File(x)] = "removed" => File(x) \in again \cup deleting
    /\ preview[x] # NoPreview => preview[x] \in previews
=============================================================================
