------------------------------ MODULE ChunkOffers ------------------------------
(***************************************************************************)
(* From the pages of a flyer to the rows of its draft offers:              *)
(* extraction/providers/gemini.py and pdf_utils.py, extraction/            *)
(* normalizer.py, services/product_format.py and _persist_products of      *)
(* extraction/service.py.                                                  *)
(*                                                                         *)
(* The PDF is cut into chunks of pages.  The provider lists the products   *)
(* of a chunk; pages with far fewer products than their neighbours are     *)
(* asked for once more.  The products are expanded by the variants of      *)
(* their format, those without name or price are dropped, names and        *)
(* formats are brought into one form, and rows that the flyer does not     *)
(* have are inserted.  A run may end anywhere; the next one goes on with   *)
(* the first chunk that was not checkpointed, and may get other answers.   *)
(***************************************************************************)
EXTENDS Naturals, Sequences, FiniteSets, SequencesExt

CONSTANTS
  PageCount,    \* pages of the PDF
  ChunkSize,    \* chunk_size_pages
  MinSiblings,  \* LOW_COVERAGE_MIN_SIBLING_PRODUCTS
  MaxSparse,    \* LOW_COVERAGE_MAX_PRODUCTS
  Found,        \* products as the provider may list them, with relative pages
  MaxFound,     \* bound: products in an answer for a chunk
  MaxAgain,     \* bound: products in an answer for a single page
  MaxTries      \* bound: runs

Kinds == {"sfuso", "confezione_singola", "multipack_omogeneo", "n_pezzi_peso_totale",
          "multipack_pezzi", "n_lavaggi", "multipack_eterogeneo", "peso_range", "rotoli"}
Fields == {"unit", "quantity", "weight", "pieces", "total", "washes", "components",
           "min", "max", "rolls", "other"}

(* A format as the provider gives it: the kind (or that it is plain text), *)
(* the fields it has ("other" are fields nobody asked for), how the unit   *)
(* is spelled, a value for all numbers, and whether these are numbers and  *)
(* components have a nome.                                                 *)
Payload == [kind : Kinds \cup {"unknown", "none", "text"}, has : SUBSET Fields,
            spelled : {"canonical", "alias", "unknown"}, amount : Nat, readable : BOOLEAN]

(* A product: a name of words that may be badly spaced, the page counted   *)
(* from the first one of the question, and the variants of its format.     *)
FoundRow == [name : Seq(STRING), spaced : BOOLEAN, brand : STRING,
             price : {"number", "text", "none"}, format : Payload,
             variants : Seq([name : STRING, format : Payload]), page : Nat]

ASSUME ChunkAssumption ==
  /\ {PageCount, ChunkSize, MinSiblings} \subseteq Nat \ {0}
  /\ {MaxSparse, MaxFound, MaxAgain, MaxTries} \subseteq Nat
  /\ Found \subseteq FoundRow
  /\ \A p \in Found : p.format.kind = "text" => ~p.format.readable

VARIABLES
  chunk,      \* chunk under way, 0 when no run is
  phase,      \* what the run does with it
  products,   \* products of the chunk, with absolute pages
  sparse,     \* pages still to be asked for once more
  written,    \* rows of the flyer's offers
  checkpoint, \* next_chunk_index
  tries,      \* runs so far
  first,      \* history: the first answer for the chunk
  replaced,   \* history: pages whose products were replaced
  asked       \* history: pages that the provider was asked for

chunkVars == <<chunk, phase, products, sparse, written, checkpoint, tries, first,
               replaced, asked>>

NoPage == 0

-----------------------------------------------------------------------------
(* Formats: services/product_format.py.                                    *)

Required ==
  [k \in Kinds |->
     CASE k = "sfuso" -> {"unit"}
       [] k = "multipack_omogeneo" -> {"quantity", "weight", "unit"}
       [] k = "n_pezzi_peso_totale" -> {"pieces", "total", "unit"}
       [] k = "multipack_pezzi" -> {"quantity", "pieces", "total", "unit"}
       [] k = "n_lavaggi" -> {"washes", "total", "unit"}
       [] k = "multipack_eterogeneo" -> {"components"}
       [] k = "peso_range" -> {"min", "max", "unit"}
       [] OTHER -> {}]

(* _normalize_enum: an unknown unit counts as none.                        *)
Given(f) == IF f.spelled = "unknown" THEN f.has \ {"unit"} ELSE f.has

(* ProductFormat.model_validate *)
IsValid(f) ==
  /\ f.kind \in Kinds \cup {"none"}
  /\ "other" \notin f.has /\ f.readable
  /\ f.kind # "none" => Required[f.kind] \subseteq Given(f)
  /\ f.kind = "confezione_singola" => ("weight" \in Given(f) <=> "unit" \in Given(f))

(* Mutant of FormatKey: the format is taken as it comes.                   *)
RawKey(f) == <<f.kind, f.has, f.spelled, f.amount>>

(* _format_key_from_compact: of the normalised format, or of what is left  *)
(* of an invalid one.                                                      *)
FormatKey(f) ==
  IF IsValid(f) THEN <<f.kind, Given(f), "canonical", f.amount>>
  ELSE <<f.kind, f.has \ {"other"}, f.spelled, f.amount>>

(* build_extraction_format_bundle raises for plain text, and the label of  *)
(* an invalid format on numbers that are none and components without nome. *)
BundleRaises(f) ==
  /\ ~f.readable
  /\ CASE f.kind = "text" -> TRUE
       [] f.kind \in {"none", "unknown", "sfuso"} -> FALSE
       [] f.kind = "confezione_singola" -> {"weight", "unit"} \subseteq f.has \/ "pieces" \in f.has
       [] OTHER -> f.has \ {"unit", "other"} # {}

(* explode_format_variants: one product for each variant, named by it      *)
(* unless the name says it already.                                        *)
VariantOf(p, v) ==
  [p EXCEPT !.name = IF \E i \in 1 .. Len(@) : @[i] = v.name THEN @ ELSE Append(@, v.name),
            !.format = v.format, !.variants = <<>>]
Expand(p) ==
  IF p.variants = <<>> THEN <<p>>
  ELSE [i \in 1 .. Len(p.variants) |-> VariantOf(p, p.variants[i])]

-----------------------------------------------------------------------------
(* normalizer.py and service.py.                                           *)

(* The elements at some positions, in their order.                         *)
Kept(seq, positions) ==
  FlattenSeq([i \in 1 .. Len(seq) |-> IF i \in positions THEN <<seq[i]>> ELSE <<>>])

(* normalize_price: a positive number or a text with one.                  *)
IsPriced(p) == p.price \in {"number", "text"}
IsOffer(p) == p.name # <<>> /\ IsPriced(p)

(* deduplicate_products, first occurrence: name as it is spaced, brand.    *)
DedupeKey(p) == <<p.name, p.spaced, p.brand>>
Deduplicated(seq) ==
  Kept(seq, {i \in 1 .. Len(seq) :
               \A j \in 1 .. i - 1 : DedupeKey(seq[j]) # DedupeKey(seq[i])})

(* Mutant of OfferKey: the brand is left out.                              *)
NameKey(p) == <<p.name, "any">>

(* _offer_key collapses the spaces.                                        *)
OfferKey(p) == <<p.name, p.brand>>
RowKey(p) == <<OfferKey(p), FormatKey(p.format)>>

(* Mutant of Inserted: rows are inserted as they come.                     *)
InsertedAll(seq) == ToSet(seq)

(* _deduplicate_offer_rows, and the upsert that leaves the rows with the   *)
(* same flyer_id, offer_key and format_key as they are.                    *)
FirstWith(key, seq) == seq[Min({i \in 1 .. Len(seq) : RowKey(seq[i]) = key})]
Inserted(seq) ==
  {p \in ToSet(seq) : /\ p = FirstWith(RowKey(p), seq)
                      /\ \A r \in written : RowKey(r) # RowKey(p)}

Candidates(seq) == FlattenSeq([i \in 1 .. Len(seq) |-> Expand(seq[i])])
Offered(seq) == Kept(seq, {i \in 1 .. Len(seq) : IsOffer(seq[i])})
Normalized(seq) == Deduplicated(Offered(Candidates(seq)))

ExpansionRaises(seq) ==
  \/ \E i \in 1 .. Len(seq) : BundleRaises(seq[i].format)
  \/ \E i \in 1 .. Len(Candidates(seq)) : BundleRaises(Candidates(seq)[i].format)

-----------------------------------------------------------------------------
(* Pages and chunks: gemini.py and pdf_utils.py.                           *)

ChunksTotal == (PageCount + ChunkSize - 1) \div ChunkSize
StartPage(k) == (k - 1) * ChunkSize + 1
EndPage(k) == Min({k * ChunkSize, PageCount})
PagesOf(k) == StartPage(k) .. EndPage(k)

(* _absolute_chunk_pages: a page outside the chunk is no page.             *)
Absolute(seq, start, end) ==
  [i \in 1 .. Len(seq) |->
     [seq[i] EXCEPT !.page = IF @ \in 1 .. end - start + 1 THEN start + @ - 1 ELSE NoPage]]

OnPage(seq, page) == {i \in 1 .. Len(seq) : seq[i].page = page}
OffPage(seq, page) == {i \in 1 .. Len(seq) : seq[i].page # page}

(* _sparse_pages: products without a page count as one more page.          *)
SparsePages(seq, k) ==
  IF /\ StartPage(k) # EndPage(k)
     /\ \E page \in PagesOf(k) \cup {NoPage} : Cardinality(OnPage(seq, page)) >= MinSiblings
  THEN {page \in PagesOf(k) : Cardinality(OnPage(seq, page)) <= MaxSparse}
  ELSE {}

(* Mutant of ReplacePage: products without a page make room, too.          *)
ReplacePageOnly(seq, page, recovered) == Kept(seq, OnPage(seq, page)) \o recovered

(* _replace_page_if_more_complete *)
ReplacePage(seq, page, recovered) == Kept(seq, OffPage(seq, page)) \o recovered

AnswersUpTo(n) == UNION {[1 .. m -> Found] : m \in 0 .. n}

ChunkInit ==
  /\ chunk = 0 /\ phase = "idle"
  /\ products = <<>> /\ sparse = {}
  /\ written = {}
  /\ checkpoint = 1
  /\ tries = 0
  /\ first = <<>> /\ replaced = {} /\ asked = {}

Forget == products' = <<>> /\ sparse' = {} /\ first' = <<>> /\ replaced' = {}

(* A run begins at the checkpoint.                                         *)
StartRun ==
  /\ phase = "idle"
  /\ tries < MaxTries
  /\ checkpoint <= ChunksTotal
  /\ chunk' = checkpoint /\ phase' = "ask"
  /\ tries' = tries + 1
  /\ UNCHANGED <<products, sparse, written, checkpoint, first, replaced, asked>>

(* _extract_pdf_chunk: an answer, perhaps after failed attempts.  (When    *)
(* all attempts fail, or some do and the answer is empty, the run ends.)   *)
AskChunk ==
  /\ phase = "ask"
  /\ \E answer \in AnswersUpTo(MaxFound) :
       /\ products' = Absolute(answer, StartPage(chunk), EndPage(chunk))
       /\ first' = products'
       /\ sparse' = SparsePages(products', chunk)
  /\ phase' = "recover"
  /\ asked' = asked \cup PagesOf(chunk)
  /\ UNCHANGED <<chunk, written, checkpoint, tries, replaced>>

(* _recover_sparse_pages, page by page; a failed attempt lists nothing.    *)
AskPage ==
  /\ phase = "recover"
  /\ sparse # {}
  /\ LET page == Min(sparse)
     IN /\ sparse' = sparse \ {page}
        /\ \E answer \in AnswersUpTo(MaxAgain) :
             IF Len(answer) > Cardinality(OnPage(products, page))
             THEN /\ products' = ReplacePage(products, page, Absolute(answer, page, page))
                  /\ replaced' = replaced \cup {page}
             ELSE UNCHANGED <<products, replaced>>
  /\ UNCHANGED <<chunk, phase, written, checkpoint, tries, first, asked>>

(* _persist_products *)
PersistProducts ==
  /\ phase = "recover" /\ sparse = {}
  /\ ~ExpansionRaises(products)
  /\ written' = written \cup Inserted(Normalized(products))
  /\ phase' = "checkpoint"
  /\ UNCHANGED <<chunk, products, sparse, checkpoint, tries, first, replaced, asked>>

(* _checkpoint_persisted_chunk *)
CheckpointChunk ==
  /\ phase = "checkpoint"
  /\ checkpoint' = chunk + 1
  /\ IF chunk = ChunksTotal THEN chunk' = 0 /\ phase' = "idle"
     ELSE chunk' = chunk + 1 /\ phase' = "ask"
  /\ Forget
  /\ UNCHANGED <<written, tries, asked>>

(* A call raises (so do the expansion and PdfChunkExtractionError), or the *)
(* process dies.                                                           *)
RunEnds ==
  /\ phase # "idle"
  /\ chunk' = 0 /\ phase' = "idle"
  /\ Forget
  /\ UNCHANGED <<written, checkpoint, tries, asked>>

ChunkNext ==
  StartRun \/ AskChunk \/ AskPage \/ PersistProducts \/ CheckpointChunk \/ RunEnds

ChunkSpec == ChunkInit /\ [][ChunkNext]_chunkVars

-----------------------------------------------------------------------------
(* docs/api.md:46, "senza duplicare le offerte", as far as the provider    *)
(* lists the same product: however it is spaced, whichever unit it names,  *)
(* in one answer or in those of several chunks and runs, a product with a  *)
(* valid format has one row.                                               *)
SameProduct(p, q) ==
  /\ p.name = q.name /\ p.brand = q.brand
  /\ IsValid(p.format) /\ IsValid(q.format)
  /\ p.format.kind = q.format.kind /\ p.format.amount = q.format.amount
  /\ Given(p.format) = Given(q.format)
OneRowPerProduct == \A p, q \in written : SameProduct(p, q) => p = q

(* Before a chunk is checkpointed, what was found in it is in the flyer:   *)
(* every product of the first answer that has a name and a price, also in  *)
(* each of its variants, unless its page was asked for again and listed    *)
(* with more products; every page has been asked for.                      *)
NothingFoundIsLost ==
  /\ phase = "checkpoint" =>
       \A i \in 1 .. Len(first) :
         first[i].page \in replaced \/
         \A j \in 1 .. Len(Expand(first[i])) :
           LET p == Expand(first[i])[j]
           IN IsOffer(p) => \E r \in written : r.name = p.name /\ r.brand = p.brand
  /\ checkpoint > ChunksTotal => asked = 1 .. PageCount
=============================================================================
