------------------------------- MODULE KvPages -------------------------------
(***************************************************************************)
(* src/src/context/tqkv/mod.rs and src/src/context/tqattn/mod.rs: how the  *)
(* keys and values of a page of tokens are quantized, packed, written and  *)
(* read back, and how pages are chosen for a query.                        *)
(*                                                                         *)
(* Numbers are integers; a scale is the rational max / clamp and a decoded *)
(* number a pair <<numerator, denominator>>.  The rounding of scales and   *)
(* summaries to half precision is left out.  A byte of a payload is an     *)
(* integer of 0..255; a scale or a bound of the summary is one element.    *)
(***************************************************************************)
EXTENDS Integers, Sequences, FiniteSets, SequencesExt

CONSTANTS
  KvHeads, HeadDim,
  ValueGroup,   \* dimensions that share a value scale
  PageTokens

ASSUME KvPagesAssumption ==
  /\ {KvHeads, HeadDim, ValueGroup, PageTokens} \subseteq Nat \ {0}
  /\ HeadDim % ValueGroup = 0
  /\ (KvHeads * HeadDim) % 2 = 0

KvWidth     == KvHeads * HeadDim
ValueGroups == HeadDim \div ValueGroup
Precisions  == {"q8", "q4"}
EncodingId  == [q8 |-> 1, q4 |-> 2]
ClampAbs    == [q8 |-> 127, q4 |-> 7]

PackedBytes(precision, n) == IF precision = "q8" THEN n ELSE (n + 1) \div 2

(* The position of a number in [token][kv_head][dim], from 0.              *)
SlotAt(token, head, dim) == (token * KvHeads + head) * HeadDim + dim

Abs(n) == IF n < 0 THEN -n ELSE n
Largest(S) == CHOOSE x \in S : \A y \in S : y <= x
Smallest(S) == CHOOSE x \in S : \A y \in S : x <= y

(* f32::round: to the nearest integer, halves away from zero.              *)
RoundDiv(n, d) ==
  LET q == (2 * Abs(n) + d) \div (2 * d) IN IF n < 0 THEN -q ELSE q

Clamped(n, c) == IF n > c THEN c ELSE IF n < -c THEN -c ELSE n

(* max / clamp, or 1 where every number is zero.                           *)
Scale(max, clamp) == IF max > 0 THEN <<max, clamp>> ELSE <<1, 1>>
Quantize(n, scale, clamp) == Clamped(RoundDiv(n * scale[2], scale[1]), clamp)
Decoded(code, scale) == <<code * scale[1], scale[2]>>
-----------------------------------------------------------------------------
(* Two's complement: a code as a byte; as half a byte, the first one low.  *)
PackCodes(codes, precision) ==
  IF precision = "q8" THEN [i \in DOMAIN codes |-> codes[i] % 256]
  ELSE [b \in 1..PackedBytes("q4", Len(codes)) |->
          (codes[2 * b - 1] % 16) +
          16 * (IF 2 * b <= Len(codes) THEN codes[2 * b] % 16 ELSE 0)]

Signed(n, half) == IF n >= half THEN n - 2 * half ELSE n

(* unpack_codes of one code.                                               *)
UnpackCode(bytes, index, precision) ==
  IF precision = "q8" THEN Signed(bytes[index + 1], 128)
  ELSE LET byte == bytes[(index \div 2) + 1] IN
       Signed(IF index % 2 = 0 THEN byte % 16 ELSE byte \div 16, 8)
-----------------------------------------------------------------------------
(* SealedPage::seal of sequences of tokens, each of KvWidth numbers.       *)
(* A key scale covers a dimension over the whole page, a value scale a     *)
(* group of one token's dimensions.                                        *)
(* Mutant: the scale of the page's first token only.                       *)
KeyScalesOfFirst(keys, clamp) ==
  [s \in 1..KvWidth |-> Scale(Abs(keys[1][s]), clamp)]

KeyScales(keys, clamp) ==
  [s \in 1..KvWidth |-> Scale(Largest({Abs(keys[t][s]) : t \in DOMAIN keys}), clamp)]

ValueScales(values, clamp) ==
  [g \in 1..Len(values) * KvHeads * ValueGroups |->
     LET token == ((g - 1) \div (KvHeads * ValueGroups)) + 1
         first == ((g - 1) % (KvHeads * ValueGroups)) * ValueGroup
     IN  Scale(Largest({Abs(values[token][first + d]) : d \in 1..ValueGroup}), clamp)]

ContentHash(page) ==
  <<page.keyBytes, page.valueBytes, page.keyScales, page.valueScales, page.keyMin, page.keyMax>>

Seal(id, layer, start, keys, values, precision) ==
  LET c == ClampAbs[precision]
      n == Len(keys)
      ks == KeyScales(keys, c)
      vs == ValueScales(values, c)
      keyCodes == [i \in 1..n * KvWidth |->
        Quantize(keys[((i - 1) \div KvWidth) + 1][((i - 1) % KvWidth) + 1],
                 ks[((i - 1) % KvWidth) + 1], c)]
      valueCodes == [i \in 1..n * KvWidth |->
        Quantize(values[((i - 1) \div KvWidth) + 1][((i - 1) % KvWidth) + 1],
                 vs[((i - 1) \div ValueGroup) + 1], c)]
      page == [keyBytes |-> PackCodes(keyCodes, precision),
               valueBytes |-> PackCodes(valueCodes, precision),
               keyScales |-> ks, valueScales |-> vs,
               keyMin |-> [s \in 1..KvWidth |-> Smallest({keys[t][s] : t \in 1..n})],
               keyMax |-> [s \in 1..KvWidth |-> Largest({keys[t][s] : t \in 1..n})]]
  IN  [page |-> page, precision |-> precision,
       header |-> [id |-> id, layer |-> layer, start |-> start, count |-> n,
                   encoding |-> EncodingId[precision],
                   keyLen |-> Len(page.keyBytes), valueLen |-> Len(page.valueBytes),
                   hash |-> ContentHash(page)]]

TokenCount(p) == p.header.count
ContentId(p)  == p.header.hash

(* decode_key and decode_value of one token of a page, of one head.        *)
DecodeKey(p, token, head) ==
  [d \in 1..HeadDim |->
     Decoded(UnpackCode(p.page.keyBytes, SlotAt(token, head, d - 1), p.precision),
             p.page.keyScales[head * HeadDim + d])]

DecodeValue(p, token, head) ==
  [d \in 1..HeadDim |->
     Decoded(UnpackCode(p.page.valueBytes, SlotAt(token, head, d - 1), p.precision),
             p.page.valueScales[(token * KvHeads + head) * ValueGroups
                                + ((d - 1) \div ValueGroup) + 1])]
-----------------------------------------------------------------------------
(* to_bytes: the header, then every part in the order of its offsets.      *)
ToBytes(p) ==
  [header |-> p.header,
   body |-> p.page.keyBytes \o p.page.valueBytes \o p.page.keyScales
            \o p.page.valueScales \o p.page.keyMin \o p.page.keyMax]

NoPage == [page |-> <<>>, precision |-> "none", header |-> <<>>]

(* from_bytes: the parts by the header's lengths and token count; a body   *)
(* that is too short is refused, one that is too long is not, and the      *)
(* content hash is not looked at.                                          *)
PrecisionOf(encoding) ==
  CASE encoding = EncodingId.q8 -> "q8" [] encoding = EncodingId.q4 -> "q4" [] OTHER -> "none"

FromBytes(blob) ==
  LET h == blob.header
      b == blob.body
      scales == h.keyLen + h.valueLen
      search == scales + KvWidth + h.count * KvHeads * ValueGroups
  IN  IF PrecisionOf(h.encoding) = "none" \/ Len(b) < search + 2 * KvWidth THEN NoPage
      ELSE [header |-> h, precision |-> PrecisionOf(h.encoding),
            page |-> [keyBytes |-> SubSeq(b, 1, h.keyLen),
                      valueBytes |-> SubSeq(b, h.keyLen + 1, scales),
                      keyScales |-> SubSeq(b, scales + 1, scales + KvWidth),
                      valueScales |-> SubSeq(b, scales + KvWidth + 1, search),
                      keyMin |-> SubSeq(b, search + 1, search + KvWidth),
                      keyMax |-> SubSeq(b, search + KvWidth + 1, search + 2 * KvWidth)]]

(* A page of PageTokens tokens as seal makes it and from_bytes gives it    *)
(* back: parts of the lengths that the offsets of its bytes go by.         *)
IsSealed(p) ==
  /\ p.precision \in Precisions /\ p.header.encoding = EncodingId[p.precision]
  /\ TokenCount(p) = PageTokens /\ ContentId(p) = ContentHash(p.page)
  /\ p.header.keyLen = Len(p.page.keyBytes) /\ p.header.valueLen = Len(p.page.valueBytes)
  /\ \A bytes \in {p.page.keyBytes, p.page.valueBytes} :
       bytes \in Seq(0..255) /\ Len(bytes) = PackedBytes(p.precision, PageTokens * KvWidth)
  /\ \A scales \in {p.page.keyScales, p.page.valueScales} : scales \in Seq(Nat \X Nat)
  /\ Len(p.page.keyScales) = KvWidth
  /\ Len(p.page.valueScales) = PageTokens * KvHeads * ValueGroups
  /\ \A bounds \in {p.page.keyMin, p.page.keyMax} :
       bounds \in Seq(Int) /\ Len(bounds) = KvWidth
-----------------------------------------------------------------------------
(* page_bound for one query head and the KV head it maps to: what the      *)
(* best key the summary allows would score.                                *)
SumTo(n, f) == FoldLeftDomain(LAMBDA acc, i : acc + f[i], 0, [i \in 1..n |-> i])

(* Mutant: the largest key also where the query is negative.               *)
PageBoundOfMax(query, head, page) ==
  SumTo(HeadDim, [d \in 1..HeadDim |-> query[d] * page.keyMax[head * HeadDim + d]])

PageBound(query, head, page) ==
  SumTo(HeadDim, [d \in 1..HeadDim |->
    query[d] * (IF query[d] >= 0 THEN page.keyMax[head * HeadDim + d]
                ELSE page.keyMin[head * HeadDim + d])])

(* The optimistic score of a page: over all query heads.                   *)
BestBound(queries, page) ==
  Largest({PageBound(queries[q], (q - 1) \div (Len(queries) \div KvHeads), page) :
             q \in DOMAIN queries})

(* select_pages: pages by index from 1.  `always` are the recent window    *)
(* and the protected pages; the others are taken in order of their bound   *)
(* (stably), as many as the budget, and one more while a trigger fires.    *)
Ranked(candidates, bound) ==
  SetToSortSeq(candidates, LAMBDA i, j : bound[i] > bound[j] \/ (bound[i] = bound[j] /\ i < j))

TokensIn(pages, chosen) ==
  FoldLeft(LAMBDA acc, i : acc + TokenCount(pages[i]), 0, SetToSeq(chosen))

Chosen(pages, always, scored, bound, config) ==
  LET first == IF config.budget < Len(scored) THEN config.budget ELSE Len(scored)
      Taken(budget) == always \cup {scored[i] : i \in 1..budget}
      Triggered(budget) ==
        /\ budget < Len(scored)
        /\ \/ budget > 0 /\ bound[scored[budget]] - bound[scored[budget + 1]] < config.margin
           \/ TokensIn(pages, Taken(budget)) < config.minTokens
      final == CHOOSE b \in first..Len(scored) :
                 ~Triggered(b) /\ \A c \in first..(b - 1) : Triggered(c)
  IN  [selected |-> Taken(final), expanded |-> final > first,
       tokens |-> TokensIn(pages, Taken(final))]

Select(pages, queries, config, protected) ==
  LET total  == Len(pages)
      recent == IF config.recent > total THEN 1 ELSE total - config.recent + 1
      always == (recent..total) \cup (protected \cap 1..total)
      bound  == [i \in 1..total |-> BestBound(queries, pages[i].page)]
  IN  Chosen(pages, always, Ranked(1..total \ always, bound), bound, config)
=============================================================================
