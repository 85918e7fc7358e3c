---------------------------- MODULE Quantization ----------------------------
(***************************************************************************)
(* The quantized blocks of the weights and every routine that reads them:  *)
(* format/quant/dequant.rs, its independent twin in validate.rs, the dot   *)
(* products of model/qwen36/weights.rs, their NEON forms in simd/mod.rs    *)
(* and the GPU's decoder in backend/metal/kernels.rs.                      *)
(*                                                                         *)
(* Bytes are integers; the two half-precision factors d and dmin of a      *)
(* block stay symbolic: the value d * a - dmin * b is the pair <<a, b>>,   *)
(* so that the sums are exact.  Rounding in the f32 sums is left out.      *)
(***************************************************************************)
EXTENDS Integers, Sequences, SequencesExt, FiniteSetsExt

Low(b)    == b % 16
High(b)   == b \div 16
Bits(b, at, n) == (b \div 2^at) % 2^n
Signed(b) == IF b >= 128 THEN b - 256 ELSE b      \* u8 as i8
Wrap16(n) == ((n + 32768) % 65536) - 32768        \* an i16 lane
RECURSIVE TotalOf(_, _, _)
TotalOf(s, first, last) ==
  IF first > last THEN 0 ELSE IF first = last THEN s[first]
  ELSE LET middle == (first + last) \div 2 IN TotalOf(s, first, middle) + TotalOf(s, middle + 1, last)
Total(s) == TotalOf(s, 1, Len(s))
Part(s, first, n) == SubSeq(s, first + 1, first + n)
Each(n, F(_)) == [i \in 1..n |-> F(i - 1)]
Join(n, F(_)) == FoldLeft(LAMBDA a, k : a \o F(k - 1), <<>>, Each(n, LAMBDA k : k + 1))
-----------------------------------------------------------------------------
(* Half precision.  A number is <<sign, m, e>>: m * 2^e with m odd, or     *)
(* m = 0; "inf" and "nan" are named.                                       *)
RECURSIVE Normal(_, _, _)
Normal(sign, m, e) ==
  IF m = 0 THEN <<sign, 0, 0>> ELSE IF m % 2 = 1 THEN <<sign, m, e>> ELSE Normal(sign, m \div 2, e + 1)
Special(sign, name) == <<sign, name>>

(* What the 32 bits sign, exponent, mantissa of an f32 stand for.          *)
SingleValue(sign, exponent, mantissa) ==
  IF exponent = 255 THEN Special(sign, IF mantissa = 0 THEN "inf" ELSE "nan")
  ELSE IF exponent = 0 THEN Normal(sign, mantissa, -149)
  ELSE Normal(sign, mantissa + 2^23, exponent - 150)

(* f16_to_f32: the f32 is put together from its bits.                      *)
RECURSIVE Renormalized(_, _)
Renormalized(m, e) == IF m >= 1024 THEN <<m - 1024, 127 - 15 - e>> ELSE Renormalized(2 * m, e + 1)
F16ToF32(bits) ==
  LET sign == Bits(bits, 15, 1)
      exp  == Bits(bits, 10, 5)
      frac == Bits(bits, 0, 10)
  IN  IF exp = 0 /\ frac = 0 THEN <<sign, 0, 0>>
      ELSE IF exp = 0 THEN LET r == Renormalized(frac, -1) IN <<sign, r[2], r[1] * 2^13>>
      ELSE IF exp = 31 THEN <<sign, 255, frac * 2^13>>
      ELSE <<sign, exp + 127 - 15, frac * 2^13>>

(* f16_to_f32 of simd/mod.rs.                                              *)
RECURSIVE SimdRenormalized(_, _)
SimdRenormalized(m, e) == IF m >= 1024 THEN <<m % 1024, e>> ELSE SimdRenormalized(2 * m, e - 1)
SimdF16ToF32(bits) ==
  LET sign == Bits(bits, 15, 1)
      exp  == Bits(bits, 10, 5)
      frac == Bits(bits, 0, 10)
  IN  CASE exp = 0 /\ frac = 0 -> <<sign, 0, 0>>
        [] exp = 0 /\ frac # 0 ->
             LET r == SimdRenormalized(frac, 127 - 15 + 1) IN <<sign, r[2], r[1] * 2^13>>
        [] exp = 31 -> <<sign, 255, frac * 2^13>>
        [] OTHER -> <<sign, exp + 127 - 15, frac * 2^13>>

(* f16_to_f32_independent: the same number by arithmetic.                  *)
F16Value(bits) ==
  LET sign == IF bits >= 2^15 THEN 1 ELSE 0
      exp  == Bits(bits, 10, 5)
      frac == bits % 1024
  IN  IF exp = 31 THEN Special(sign, IF frac = 0 THEN "inf" ELSE "nan")
      ELSE IF exp = 0 THEN Normal(sign, frac, -10 - 14)
      ELSE Normal(sign, 1024 + frac, exp - 15 - 10)

(* f32_to_f16: to the nearest, ties to even.                               *)
RoundedShift(n, shift) ==
  LET down == n \div 2^shift
      rest == n % 2^shift
      half == 2^(shift - 1)
  IN  IF rest > half \/ (rest = half /\ down % 2 = 1) THEN down + 1 ELSE down
F32ToF16(sign, exponent, mantissa) ==
  LET half == exponent - 127 + 15
      s    == sign * 2^15
      up   == RoundedShift(mantissa, 13)
      e    == IF up = 1024 THEN half + 1 ELSE half
  IN  IF exponent = 255 THEN s + (IF mantissa = 0 THEN 31744 ELSE 32256 + ((mantissa \div 2^13) % 512))
      ELSE IF half >= 31 THEN s + 31744
      ELSE IF half < -10 THEN s
      ELSE IF half <= 0 THEN s + RoundedShift(mantissa + 2^23, 14 - half)
      ELSE IF e >= 31 THEN s + 31744
      ELSE s + e * 1024 + (up % 1024)

(* Every half is the same number to its three readers, and comes back from *)
(* single precision as it went.                                            *)
HalfAgrees(bits) ==
  LET f == F16ToF32(bits)
      value == SingleValue(f[1], f[2], f[3])
  IN  /\ SimdF16ToF32(bits) = f
      /\ F16Value(bits) = value
      /\ Len(value) = 3 \/ value[2] = "inf" => F32ToF16(f[1], f[2], f[3]) = bits
-----------------------------------------------------------------------------
(* block_q4_0 and block_q8_0: values over d.                               *)
DequantizeQ40(qs) ==
  Each(16, LAMBDA j : <<Low(qs[j + 1]) - 8, 0>>) \o Each(16, LAMBDA j : <<High(qs[j + 1]) - 8, 0>>)
IndependentQ40(qs) ==
  Each(32, LAMBDA i : LET byte == qs[(i % 16) + 1] IN
                      <<(IF i < 16 THEN byte % 16 ELSE byte \div 16) - 8, 0>>)
DequantizeQ80(qs) == Each(32, LAMBDA j : <<Signed(qs[j + 1]), 0>>)

(* get_scale_min_k4: the six-bit scale and minimum of sub-block j.         *)
ScaleMin(j, packed) ==
  LET at(k) == packed[k + 1] IN
  IF j < 4 THEN <<at(j) % 64, at(j + 4) % 64>>
  ELSE <<Low(at(j + 4)) + 16 * (at(j - 4) \div 64), High(at(j + 4)) + 16 * (at(j) \div 64)>>

Scaled(sm, nibble) == <<sm[1] * nibble, sm[2]>>

(* dequantize_q4_k: pairs of sub-blocks share 32 bytes.                    *)
DequantizeQ4K(block) ==
  Join(4, LAMBDA k :
    LET bytes == Part(block.qs, 32 * k, 32)
        first == ScaleMin(2 * k, block.scales)
        second == ScaleMin(2 * k + 1, block.scales)
    IN  [l \in 1..32 |-> Scaled(first, Low(bytes[l]))]
        \o [l \in 1..32 |-> Scaled(second, High(bytes[l]))])

(* dequantize_q4_k_independent: sub-block by sub-block.                    *)
IndependentQ4K(block) ==
  Join(8, LAMBDA j :
    LET bytes == Part(block.qs, (j \div 2) * 32, 32) IN
    [l \in 1..32 |->
       Scaled(ScaleMin(j, block.scales), IF j % 2 = 0 THEN Low(bytes[l]) ELSE High(bytes[l]))])

(* tqf_q4k_gemv_staged16: thread `tid` decodes element `tid`.              *)
(* Mutant: the nibble the comment above the kernel names.                  *)
StagedElementByComment(block, tid) ==
  LET nibble == Bits(block.qs[(tid \div 2) + 1], (tid % 2) * 4, 4) IN
  Scaled(ScaleMin(tid \div 32, block.scales), nibble)
StagedElement(block, tid) ==
  LET p == tid \div 32
      nibble == Bits(block.qs[((p \div 2) * 32) + (tid % 32) + 1], 4 * (p % 2), 4)
  IN  Scaled(ScaleMin(p, block.scales), nibble)

(* dequantize_q6_k: two halves of four interleaved groups.                 *)
Q6(low, high, at) == low + 16 * Bits(high, at, 2) - 32
Unpacked6(block) ==
  Join(2, LAMBDA half :
    LET ql == Part(block.ql, half * 64, 64)
        qh == Part(block.qh, half * 32, 32)
    IN  [i \in 1..32 |-> Q6(Low(ql[i]), qh[i], 0)] \o [i \in 1..32 |-> Q6(Low(ql[i + 32]), qh[i], 2)]
        \o [i \in 1..32 |-> Q6(High(ql[i]), qh[i], 4)] \o [i \in 1..32 |-> Q6(High(ql[i + 32]), qh[i], 6)])
DequantizeQ6K(block) ==
  LET values == Unpacked6(block)
      ScaleOf(i) == (8 * (i \div 128)) + 2 * ((i % 128) \div 32) + ((i % 32) \div 16)
  IN  Each(256, LAMBDA i : <<Signed(block.scales[ScaleOf(i) + 1]) * values[i + 1], 0>>)
-----------------------------------------------------------------------------
(* Activations: quantized once per chunk.  RoundTies is round_ties_even,   *)
(* RoundAway is round.                                                     *)
Abs(n) == IF n < 0 THEN -n ELSE n
RoundTies(n, d) ==   \* n / d to the nearest integer
  LET a == Abs(n) \div Abs(d)
      r == 2 * (Abs(n) % Abs(d))
      up == IF r > Abs(d) \/ (r = Abs(d) /\ a % 2 = 1) THEN a + 1 ELSE a
  IN  IF (n < 0) = (d < 0) THEN up ELSE -up
RoundAway(n, d) ==
  LET up == (2 * Abs(n) + Abs(d)) \div (2 * Abs(d)) IN IF (n < 0) = (d < 0) THEN up ELSE -up
AtMost(n, bound) == IF n > bound THEN bound ELSE n

(* The first value of the largest magnitude.                               *)
Extreme(values) ==
  LET largest == Max({Abs(values[i]) : i \in DOMAIN values})
  IN  values[CHOOSE i \in DOMAIN values : /\ Abs(values[i]) = largest
                                          /\ \A k \in 1..(i - 1) : Abs(values[k]) # largest]

(* quantize_q8_k: that value becomes -127.                                 *)
QuantizeQ8K(values) ==
  LET extreme == Extreme(values)
      q == IF extreme = 0 THEN [i \in DOMAIN values |-> 0]
           ELSE [i \in DOMAIN values |-> AtMost(RoundTies(-127 * values[i], extreme), 127)]
  IN  [values |-> q, sums |-> Each(16, LAMBDA k : Total(Part(q, 16 * k, 16)))]

QuantizeQ80(values) ==
  LET maximum == Abs(Extreme(values)) IN
  [i \in DOMAIN values |-> IF maximum = 0 THEN 0 ELSE RoundAway(127 * values[i], maximum)]
-----------------------------------------------------------------------------
(* Dot products.  q4_k_dot_pre: eight lanes at stride 8 and the minima     *)
(* times the sums of sixteen.                                              *)
Minima(block, act) ==
  Total(Each(8, LAMBDA j :
    ScaleMin(j, block.scales)[2] * (act.sums[2 * j + 1] + act.sums[2 * j + 2])))

ScalarQ4KLanes(block, act) ==
  LET unpacked == Join(4, LAMBDA k : LET bytes == Part(block.qs, 32 * k, 32) IN
                     [l \in 1..32 |-> Low(bytes[l])] \o [l \in 1..32 |-> High(bytes[l])])
      term(j, index) == ScaleMin(j, block.scales)[1] * act.values[index + 1] * unpacked[index + 1]
  IN  Each(8, LAMBDA lane : Total(Each(32, LAMBDA k :
        LET j == k \div 4 IN term(j, (j * 32) + (k % 4) * 8 + lane))))

(* q6_k_dot_pre.                                                           *)
ScalarQ6KLanes(block, act) ==
  LET unpacked == Unpacked6(block) IN
  Each(8, LAMBDA lane : Total(Each(32, LAMBDA k :
    LET index == ((k \div 2) * 16) + (k % 2) * 8 + lane IN
    Signed(block.scales[(k \div 2) + 1]) * act.values[index + 1] * unpacked[index + 1])))

(* q8_0_dot_pre.                                                           *)
ScalarQ80Dot(qs, act) == Total([i \in 1..32 |-> Signed(qs[i]) * act[i]])
-----------------------------------------------------------------------------
(* NEON: eight lanes of 16 bits, pairs widened to four of 32.              *)
Trn1(a, b) == [i \in 1..8 |-> IF i % 2 = 1 THEN a[i] ELSE b[i - 1]]
Trn2(a, b) == [i \in 1..8 |-> IF i % 2 = 1 THEN a[i + 1] ELSE b[i]]
Mul16(a, b) == [i \in 1..8 |-> Wrap16(a[i] * b[i])]
Add16(a, b) == [i \in 1..8 |-> Wrap16(a[i] + b[i])]
Paddl(a) == [i \in 1..4 |-> a[2 * i - 1] + a[2 * i]]
AddScaled(acc, a, scale) == [i \in 1..4 |-> acc[i] + a[i] * scale]
Interleaved(even, odd) == [i \in 1..8 |-> IF i % 2 = 1 THEN even[(i + 1) \div 2] ELSE odd[i \div 2]]
Lanes(s, k) == Part(s, 8 * k, 8)

NeonQ4KLanes(block, act) ==
  LET sums == FoldLeft(LAMBDA acc, j :
        LET bytes == Part(block.qs, (j \div 2) * 32, 32)
            q4 == [i \in 1..32 |-> IF j % 2 = 1 THEN High(bytes[i]) ELSE Low(bytes[i])]
            q8 == Part(act.values, j * 32, 32)
            even == Add16(Mul16(Trn1(Lanes(q8, 0), Lanes(q8, 1)), Trn1(Lanes(q4, 0), Lanes(q4, 1))),
                          Mul16(Trn1(Lanes(q8, 2), Lanes(q8, 3)), Trn1(Lanes(q4, 2), Lanes(q4, 3))))
            odd  == Add16(Mul16(Trn2(Lanes(q8, 0), Lanes(q8, 1)), Trn2(Lanes(q4, 0), Lanes(q4, 1))),
                          Mul16(Trn2(Lanes(q8, 2), Lanes(q8, 3)), Trn2(Lanes(q4, 2), Lanes(q4, 3))))
            scale == ScaleMin(j, block.scales)[1]
        IN  <<AddScaled(acc[1], Paddl(even), scale), AddScaled(acc[2], Paddl(odd), scale)>>,
        <<<<0, 0, 0, 0>>, <<0, 0, 0, 0>>>>, <<0, 1, 2, 3, 4, 5, 6, 7>>)
  IN  Interleaved(sums[1], sums[2])

NeonQ6KLanes(block, act) ==
  LET sums == FoldLeft(LAMBDA acc, group :
        LET g    == group % 8
            low  == Part(block.ql, ((group \div 8) * 64) + (g % 4) * 16, 16)
            high == Part(block.qh, ((group \div 8) * 32) + (g % 2) * 16, 16)
            q6   == [i \in 1..16 |-> Q6(IF g < 4 THEN Low(low[i]) ELSE High(low[i]),
                                        high[i], (g \div 2) * 2)]
            q8   == Part(act.values, group * 16, 16)
            even == Mul16(Trn1(Lanes(q8, 0), Lanes(q8, 1)), Trn1(Lanes(q6, 0), Lanes(q6, 1)))
            odd  == Mul16(Trn2(Lanes(q8, 0), Lanes(q8, 1)), Trn2(Lanes(q6, 0), Lanes(q6, 1)))
            scale == Signed(block.scales[group + 1])
        IN  <<AddScaled(acc[1], Paddl(even), scale), AddScaled(acc[2], Paddl(odd), scale)>>,
        <<<<0, 0, 0, 0>>, <<0, 0, 0, 0>>>>, Each(16, LAMBDA k : k))
  IN  Interleaved(sums[1], sums[2])

NeonQ80Dot(qs, act) ==
  LET w == [i \in 1..32 |-> Signed(qs[i])]
      product(k) == Mul16(Lanes(act, k), Lanes(w, k))
  IN  Total(Paddl(Add16(product(0), product(1)))) + Total(Paddl(Add16(product(2), product(3))))
-----------------------------------------------------------------------------
(* What the decoded weights times the activation add up to.                *)
Dot(decoded, act) == <<Total([i \in DOMAIN act |-> decoded[i][1] * act[i]]),
                       Total([i \in DOMAIN act |-> decoded[i][2] * act[i]])>>

(* Every reader of a block agrees, to the last bit, on what it says and on *)
(* its product with an activation, in lanes of any width.                  *)
Q4KAgrees(block, input) ==
  LET act == QuantizeQ8K(input)
      decoded == DequantizeQ4K(block)
  IN  /\ IndependentQ4K(block) = decoded
      /\ Each(256, LAMBDA i : StagedElement(block, i)) = decoded
      /\ NeonQ4KLanes(block, act) = ScalarQ4KLanes(block, act)
      /\ <<Total(ScalarQ4KLanes(block, act)), Minima(block, act)>> = Dot(decoded, act.values)
Q6KAgrees(block, input) ==
  LET act == QuantizeQ8K(input) IN
  /\ NeonQ6KLanes(block, act) = ScalarQ6KLanes(block, act)
  /\ <<Total(ScalarQ6KLanes(block, act)), 0>> = Dot(DequantizeQ6K(block), act.values)
Q80Agrees(qs, input) ==
  LET act == QuantizeQ80(input) IN
  /\ NeonQ80Dot(qs, act) = ScalarQ80Dot(qs, act)
  /\ <<ScalarQ80Dot(qs, act), 0>> = Dot(DequantizeQ80(qs), act)
Q40Agrees(qs) == DequantizeQ40(qs) = IndependentQ40(qs)

(* The activation an integer stands for is the nearest one.                *)
ActivationIsNearest(input, q) ==
  LET extreme == Extreme(input) IN
  \A i \in DOMAIN input :
    /\ Abs(q[i]) <= 127
    /\ 2 * Abs(127 * Abs(input[i]) - Abs(q[i] * extreme)) <= Abs(extreme)
=============================================================================
