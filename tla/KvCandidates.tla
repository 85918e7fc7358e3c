----------------------------- MODULE KvCandidates -----------------------------
(***************************************************************************)
(* src/src/context/tqkv/candidates.rs: the five encodings of a page that   *)
(* are measured beside the cache's two.  Keys and values are as in         *)
(* KvPages; a decoded number is a pair <<numerator, denominator>>, and the *)
(* rounding of f32 and of half-precision scales is left out.  A rotation   *)
(* turns the pair k of dimensions by k quarter turns for each position.    *)
(***************************************************************************)
EXTENDS KvPages, TLC

Column(keys, slot) == {Abs(keys[t][slot]) : t \in DOMAIN keys}
(* (The concatenation makes TLC compute a sequence once, not at every use.)*)
Vector(n, F(_)) == [i \in 1..n |-> F(i)] \o <<>>
Tabulate(keys, F(_, _)) ==
  Vector(Len(keys) * KvWidth, LAMBDA i : F(((i - 1) \div KvWidth) + 1, ((i - 1) % KvWidth) + 1))
-----------------------------------------------------------------------------
(* pack_bits and pack_unsigned_bits: codes of `bits` bits, lowest first.   *)
BitOf(n, b) == (n \div 2^b) % 2
PackBits(codes, bits) ==
  LET total  == Len(codes) * bits
      bit(p) == IF p < total THEN BitOf(codes[(p \div bits) + 1] % 2^bits, p % bits) ELSE 0
  IN  Vector((total + 7) \div 8, LAMBDA byte :
        FoldLeft(LAMBDA n, b : n + bit(8 * (byte - 1) + b) * 2^b, 0, [b \in 1..8 |-> b - 1]))

(* unpack_unsigned_bits                                                    *)
UnpackUnsigned(bytes, offset, count, bits) ==
  LET bit(p) == BitOf(bytes[(p \div 8) + 1], p % 8)
  IN  Vector(count, LAMBDA i :
        FoldLeft(LAMBDA n, b : n + bit((offset + i - 1) * bits + b) * 2^b, 0,
                 [b \in 1..bits |-> b - 1]))

(* unpack_bits: the code's highest bit is its sign.                        *)
UnpackBits(bytes, offset, count, bits) ==
  LET codes == UnpackUnsigned(bytes, offset, count, bits)
  IN  Vector(count, LAMBDA i : Signed(codes[i], 2^(bits - 1)))
-----------------------------------------------------------------------------
(* A page whose keys have one scale per dimension.                         *)
Symmetric(keys, scales, clamp, bits) ==
  [codes |-> PackBits(Tabulate(keys, LAMBDA t, s : Quantize(keys[t][s], scales[s], clamp)), bits),
   scales |-> scales]

SymmetricOf(page, token, head, bits) ==
  LET codes == UnpackBits(page.codes, SlotAt(token, head, 0), HeadDim, bits)
  IN  [d \in 1..HeadDim |-> Decoded(codes[d], page.scales[head * HeadDim + d])]

(* Q3Symmetric                                                             *)
Q3Encode(keys) == Symmetric(keys, KeyScales(keys, 3), 3, 3)
Q3Decode(page, token, head) == SymmetricOf(page, token, head, 3)

(* Q2Asymmetric: a least number and a step for each group of dimensions.   *)
GroupOf(values, g) ==
  LET token == ((g - 1) \div (KvHeads * ValueGroups)) + 1
      first == ((g - 1) % (KvHeads * ValueGroups)) * ValueGroup
  IN  {values[token][first + d] : d \in 1..ValueGroup}

Q2Encode(values) ==
  LET groups == 1..Len(values) * KvHeads * ValueGroups
      mins   == [g \in groups |-> Smallest(GroupOf(values, g))]
      scales == [g \in groups |-> Scale(Largest(GroupOf(values, g)) - mins[g], 3)]
      group(t, s) == ((SlotAt(t - 1, 0, s - 1)) \div ValueGroup) + 1
      code(t, s)  == LET g == group(t, s)
                     IN  RoundDiv((values[t][s] - mins[g]) * scales[g][2], scales[g][1])
  IN  [codes |-> PackBits(Tabulate(values, code), 2), mins |-> mins, scales |-> scales]

Q2Decode(page, token, head) ==
  LET codes == UnpackUnsigned(page.codes, SlotAt(token, head, 0), HeadDim, 2)
      group(d) == (token * KvHeads + head) * ValueGroups + ((d - 1) \div ValueGroup) + 1
  IN  [d \in 1..HeadDim |->
         LET scale == page.scales[group(d)]
         IN  <<codes[d] * scale[1] + page.mins[group(d)] * scale[2], scale[2]>>]
-----------------------------------------------------------------------------
(* hadamard_inplace, times the root of HeadDim: butterflies of width 1, 2, *)
(* 4 ... on a power of two.                                                *)
Butterfly(v, width) ==
  Vector(Len(v), LAMBDA i : IF ((i - 1) \div width) % 2 = 0 THEN v[i] + v[i + width]
                            ELSE v[i - width] - v[i])
Hadamard(v) ==
  LET pass[k \in 0..HeadDim] ==
        IF k = 0 THEN v ELSE Butterfly(pass[k - 1], 2^(k - 1))
      last == CHOOSE k \in 0..HeadDim : 2^k = Len(v)
  IN  pass[last]

Flip(v, signs) == [i \in DOMAIN v |-> v[i] * signs[i]]
RotateForward(v, signs) == Hadamard(Flip(v, signs))
RotateInverse(v, signs) == Flip(Hadamard(v), signs)

(* RotatedQ4: the numbers of a page rotated head by head.                  *)
Rotated(key, signs) ==
  LET head(h) == RotateForward(SubSeq(key, h * HeadDim + 1, (h + 1) * HeadDim), signs)
  IN  FlattenSeq([h \in 1..KvHeads |-> head(h - 1)])

RotatedEncode(keys, signs) ==
  LET rotated == Vector(Len(keys), LAMBDA t : Rotated(keys[t], signs))
  IN  Symmetric(rotated, KeyScales(rotated, 7), 7, 4)

(* The two factors of 1 / sqrt(HeadDim) meet in the denominator.           *)
RotatedDecode(page, signs, token, head) ==
  LET codes == UnpackBits(page.codes, SlotAt(token, head, 0), HeadDim, 4)
      back  == RotateInverse([d \in 1..HeadDim |->
                 codes[d] * page.scales[head * HeadDim + d][1]], signs)
  IN  [d \in 1..HeadDim |-> <<back[d], 7 * HeadDim>>]
-----------------------------------------------------------------------------
(* OutlierQ4: the step is made for all but the two largest numbers of a    *)
(* dimension; a number that is a quarter beyond is kept as it is.          *)
BulkMax(keys, slot) ==
  LET sorted == SortSeq([t \in DOMAIN keys |-> Abs(keys[t][slot])], LAMBDA a, b : a < b)
      n      == Len(keys)
      floor  == (n * 99) \div 100
      last   == IF n < 2 THEN 0 ELSE n - 2
  IN  sorted[(IF floor < last THEN floor ELSE last) + 1]

IsOutlier(n, scale) == 4 * Abs(n) * scale[2] > 5 * 7 * scale[1]

OutlierEncode(keys, one) ==
  LET scales == Vector(KvWidth, LAMBDA s :
                  IF BulkMax(keys, s) > 0 THEN <<BulkMax(keys, s), 7>> ELSE <<one, 1>>)
  IN  Symmetric(keys, scales, 7, 4) @@
      [outliers |->
         {<<t - 1, s, keys[t][s]>> :
            <<t, s>> \in {x \in (DOMAIN keys) \X (1..KvWidth) : IsOutlier(keys[x[1]][x[2]], scales[x[2]])}}]

OutlierDecode(page, token, head) ==
  LET plain == SymmetricOf(page, token, head, 4)
      exact(d) == {o \in page.outliers : o[1] = token /\ o[2] = head * HeadDim + d}
  IN  [d \in 1..HeadDim |-> IF exact(d) = {} THEN plain[d]
                            ELSE <<(CHOOSE o \in exact(d) : TRUE)[3], 1>>]
-----------------------------------------------------------------------------
(* apply_partial_rope in quarter turns: pairs are half the rotary          *)
(* dimensions apart, the rest stays.                                       *)
Turn(pair, quarters) ==
  CASE quarters % 4 = 0 -> pair
    [] quarters % 4 = 1 -> <<-pair[2], pair[1]>>
    [] quarters % 4 = 2 -> <<-pair[1], -pair[2]>>
    [] quarters % 4 = 3 -> <<pair[2], -pair[1]>>

PartialRope(v, rotary, position) ==
  LET half == rotary \div 2
  IN  [d \in DOMAIN v |->
         IF d <= half THEN Turn(<<v[d], v[d + half]>>, d * position)[1]
         ELSE IF d <= rotary THEN Turn(<<v[d - half], v[d]>>, (d - half) * position)[2]
         ELSE v[d]]

(* PreRopeQ4: positions are kept, the rotation is of the decoded numbers.  *)
PreRopeEncode(keys, positions) ==
  Symmetric(keys, KeyScales(keys, 7), 7, 4) @@ [positions |-> positions]

PreRopeDecode(page, rotary, token, head) ==
  LET codes == UnpackBits(page.codes, SlotAt(token, head, 0), HeadDim, 4)
      scale(d) == page.scales[head * HeadDim + d]
      numerators == [d \in 1..HeadDim |-> codes[d] * (IF scale(d)[2] = 7 THEN scale(d)[1] ELSE 7)]
  IN  [d \in 1..HeadDim |-> <<PartialRope(numerators, rotary, page.positions[token + 1])[d], 7>>]
-----------------------------------------------------------------------------
(* |decoded - exact| <= numerator / denominator of the bound               *)
Within(decoded, exact, bound) ==
  Abs(decoded[1] - exact * decoded[2]) * bound[2] <= bound[1] * decoded[2]

(* What is packed at any width comes back from any place in it, and the    *)
(* bytes of four-bit codes are those of the cache's own packing, as        *)
(* candidates.rs:455-456 says (candidates.rs:453-533).                     *)
PackingAgrees(codes, bits) ==
  \A offset \in 0..Len(codes), count \in 0..Len(codes) :
    offset + count <= Len(codes) =>
      LET part == SubSeq(codes, offset + 1, offset + count) IN
      /\ UnpackBits(PackBits(codes, bits), offset, count, bits) = part
      /\ UnpackUnsigned(PackBits(codes, bits), offset, count, bits)
           = [i \in DOMAIN part |-> part[i] % 2^bits]
      /\ bits = 4 => PackBits(codes, 4) = PackCodes(codes, "q4")

(* No encoding is further off than its steps say: half a step of a number, *)
(* the mean half step of a rotated head's, a step and three quarters where *)
(* an outlier is clipped; and two numbers of a dimension reach the one its *)
(* bulk step is made for, so that one outlier alone never does             *)
(* (candidates.rs:31-450).                                                 *)
ErrorsAreBounded(keys, signs, rotary, positions, one) ==
  LET q3Page == Q3Encode(keys)
      q2Page == Q2Encode(keys)
      rotatedPage == RotatedEncode(keys, signs)
      outlierPage == OutlierEncode(keys, one)
      preRopePage == PreRopeEncode(keys, positions)
      max(s)  == Largest(Column(keys, s))
      rotated == Vector(Len(keys), LAMBDA u : Rotated(keys[u], signs))
  IN  \A t \in DOMAIN keys, h \in 0..KvHeads - 1 :
        LET key    == SubSeq(keys[t], h * HeadDim + 1, (h + 1) * HeadDim)
            turned == PartialRope(key, rotary, positions[t])
            spread == FoldLeft(LAMBDA n, d : n + Largest(Column(rotated, h * HeadDim + d)), 0,
                               [d \in 1..HeadDim |-> d])
            q3 == Q3Decode(q3Page, t - 1, h)
            q2 == Q2Decode(q2Page, t - 1, h)
            rq == RotatedDecode(rotatedPage, signs, t - 1, h)
            oq == OutlierDecode(outlierPage, t - 1, h)
            pq == PreRopeDecode(preRopePage, rotary, t - 1, h)
        IN  \A d \in 1..HeadDim :
              LET slot    == h * HeadDim + d
                  bulk    == BulkMax(keys, slot)
                  group   == {key[e] : e \in {e \in 1..HeadDim :
                                (e - 1) \div ValueGroup = (d - 1) \div ValueGroup}}
                  half    == rotary \div 2
                  partner == IF d > rotary THEN slot ELSE IF d <= half THEN slot + half ELSE slot - half
              IN  /\ Within(q3[d], key[d], <<max(slot), 6>>)
                  /\ Within(q2[d], key[d], <<Largest(group) - Smallest(group), 6>>)
                  /\ Within(rq[d], key[d], <<spread, 14 * HeadDim>>)
                  /\ Within(oq[d], key[d], IF bulk > 0 THEN <<bulk, 4>> ELSE <<7 * one, 4>>)
                  /\ Within(pq[d], turned[d], <<Largest({max(slot), max(partner)}), 14>>)
                  /\ Len(keys) >= 2 =>
                       Cardinality({u \in DOMAIN keys : Abs(keys[u][slot]) >= bulk}) >= 2
=============================================================================
