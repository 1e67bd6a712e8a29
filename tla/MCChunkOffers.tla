---------------------------- MODULE MCChunkOffers ----------------------------
(* What the provider may list: cola of one litre, spelled and spaced in    *)
(* two ways; cola of another brand in two variants, on no page of the      *)
(* first chunk; a product whose format cannot be read.                     *)
EXTENDS Naturals

Litres(n, spelled) ==
  [kind |-> "confezione_singola", has |-> {"weight", "unit"}, spelled |-> spelled,
   amount |-> n, readable |-> TRUE]
Product(name, spaced, brand, price, format, page) ==
  [name |-> name, spaced |-> spaced, brand |-> brand, price |-> price,
   format |-> format, variants |-> <<>>, page |-> page]

FoundProducts == {
  Product(<<"cola">>, FALSE, "x", "number", Litres(1, "canonical"), 1),
  Product(<<"cola">>, TRUE, "x", "text", Litres(1, "alias"), 2),
  [Product(<<"cola">>, FALSE, "y", "number", Litres(1, "unknown"), 3) EXCEPT
     !.variants = <<[name |-> "cola", format |-> Litres(2, "alias")],
                    [name |-> "zero", format |-> Litres(1, "alias")]>>],
  Product(<<"set">>, FALSE, "y", "none",
          [Litres(1, "canonical") EXCEPT !.kind = "multipack_eterogeneo",
             !.has = {"components"}, !.readable = FALSE], 2)}
=============================================================================
