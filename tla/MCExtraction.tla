----------------------------- MODULE MCExtraction -----------------------------
(* Instances of Extraction for TLC.                                        *)
EXTENDS Extraction

CONSTANTS p1, p2, p3

(* Every chunk has a product of its own, found whenever it is asked for.   *)
Distinct == <<{{p1}}, {{p2}}, {{p3}}>>
(* The second chunk may be found empty.                                    *)
TwoDistinct == <<{{p1}}, {{}, {p2}}>>
(* Nothing at all, a product, and one without a price.                     *)
Mixed == <<{{}, {p1}}, {{p3}}>>

(* Bound: what properties that excuse overtaken runs need not explore.     *)
NotOvertaken == ~overtaken
=============================================================================
