------------------------------- MODULE MCParts -------------------------------
(* One instance for TLC of the parts that share no state: every behaviour  *)
(* is one of ShoppingList, ListEvents, ListOffers, FlyerUpload,            *)
(* ChunkOffers, OfferSearch or PushDevices, while the other parts rest in  *)
(* their initial states.                                                   *)
EXTENDS ShoppingList, ListEvents, ListOffers, FlyerUpload, ChunkOffers,
        OfferSearch, PushDevices, MCChunkOffers, MCOfferSearch

CONSTANTS alice, bob, i1, i2, d1, d2, f1, f2, b1, b2, e1, e2

VARIABLE part  \* the part that moves

partsVars == <<part, vars, eventVars, dealVars, uploadVars,
               chunkVars, searchVars, deviceVars>>

PartsInit ==
  /\ part \in {"shopping", "events", "offers", "upload", "chunks", "search", "devices"}
  /\ Init /\ EventsInit /\ DealsInit /\ UploadInit /\ ChunkInit /\ SearchInit
  /\ DevicesInit

PartsNext ==
  /\ UNCHANGED part
  /\ \/ part = "shopping" /\ Next
        /\ UNCHANGED <<eventVars, dealVars, uploadVars, chunkVars, searchVars, deviceVars>>
     \/ part = "events" /\ EventsNext
        /\ UNCHANGED <<vars, dealVars, uploadVars, chunkVars, searchVars, deviceVars>>
     \/ part = "offers" /\ DealsNext
        /\ UNCHANGED <<vars, eventVars, uploadVars, chunkVars, searchVars, deviceVars>>
     \/ part = "upload" /\ UploadNext
        /\ UNCHANGED <<vars, eventVars, dealVars, chunkVars, searchVars, deviceVars>>
     \/ part = "chunks" /\ ChunkNext
        /\ UNCHANGED <<vars, eventVars, dealVars, uploadVars, searchVars, deviceVars>>
     \/ part = "search" /\ SearchNext
        /\ UNCHANGED <<vars, eventVars, dealVars, uploadVars, chunkVars, deviceVars>>
     \/ part = "devices" /\ DevicesNext
        /\ UNCHANGED <<vars, eventVars, dealVars, uploadVars, chunkVars, searchVars>>

PartsSpec == PartsInit /\ [][PartsNext]_partsVars

-----------------------------------------------------------------------------
(* Where the supermarkets of the list's offers are.                        *)
DealStores == (d1 :> 1) @@ (d2 :> 2)

(* Bound of FlyerUpload: derived flyers, previews and deletions together.  *)
FewFiles == Cardinality(derived) + Cardinality(previews) + Cardinality(deleting) <= 2

(* Bound of ShoppingList: items about which list and history may disagree. *)
FewExcused == Cardinality(excused \cup overwritten) <= 1

(* Bound of ShoppingList: nothing is ticked off while a cleanup runs; what *)
(* is bought does not depend on it.                                        *)
PlainSweeps == sweep.running => \A i \in Items : list[i].checked = Nobody

(* Bound of OfferSearch: a search is not followed after a change that its  *)
(* property excuses.                                                       *)
NotMoved == ~moved

Symmetry == Permutations(Users) \cup Permutations(Items)
=============================================================================
