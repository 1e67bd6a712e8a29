---------------------------- MODULE MCOfferSearch ----------------------------
(* The catalogues and areas of the search.  Offers 1 and 2 are clones of   *)
(* one offer for two shops or offers of their own, offer 3 starts on the   *)
(* second day and offer 4 may end on the first; a distance of 0 is that of *)
(* the caller's Comune.                                                    *)
EXTENDS OfferSearch, TLC

CatalogOf(shop, clones, names, end) ==
  [o \in 1 .. 4 |-> [shop |-> shop[o], source |-> IF clones /\ o <= 2 THEN 9 ELSE 0,
                     name |-> IF o > 2 THEN names[o] ELSE IF clones THEN 2 ELSE o,
                     from |-> IF o = 3 THEN 2 ELSE 0, to |-> IF o = 4 THEN end ELSE 0]]

SearchCatalogs ==
  {CatalogOf(<<1, 2, s, 2>>, c, n, end) :
     s \in 1 .. 2, c \in BOOLEAN, n \in [3 .. 4 -> 1 .. 3], end \in {0, 1}}

SearchAreas ==
  {<<>>, 2 :> 0, (1 :> 0) @@ (2 :> 3), (1 :> 5) @@ (2 :> 3), (1 :> 3) @@ (2 :> 3)}
=============================================================================
