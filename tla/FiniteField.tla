----------------------------- MODULE FiniteField -----------------------------
(***************************************************************************)
(* The numbers the layers of the model are checked over: the integers      *)
(* modulo a prime.  Sums and products are exact, so that two ways to       *)
(* compute a layer agree there exactly when they are the same polynomial   *)
(* of their inputs (up to the chance of a root); the rounding of f32 is    *)
(* left out.  The transcendental functions of the code, which no property  *)
(* looks into, are fixed arbitrary curves; a rotation is a power of an     *)
(* element of the unit circle, so that rotations add up.                   *)
(***************************************************************************)
EXTENDS Integers, Sequences, SequencesExt

P == 251

Sum(s) ==
  LET upTo[i \in 0..Len(s)] == IF i = 0 THEN 0 ELSE (upTo[i - 1] + s[i]) % P IN upTo[Len(s)]
Times(a, b)    == (a * b) % P
Minus(a, b)    == (a + P - b) % P
Dot(a, b)      == Sum([i \in 1..Len(a) |-> a[i] * b[i]])
Inverses       == [a \in 1..P - 1 |-> CHOOSE b \in 1..P - 1 : Times(a, b) = 1]
Over(a, b)     == IF b = 0 THEN 0 ELSE Times(a, Inverses[b])

Exp(x)         == (((x * x) % P) * x + 2 * x + 5) % P
Sigmoid(x)     == (11 * x * x + 3 * x + 17) % P
Silu(x)        == Times(x, Sigmoid(x))                \* x / (1 + exp(-x))
Softplus(x)    == (5 * x * x + 29 * x + 2) % P
InverseNorm(x) == (13 * x * x + x + 101) % P          \* 1 / max(sqrt(x), eps)
InverseRms(x)  == (19 * x * x + 7 * x + 43) % P       \* 1 / sqrt(x + eps)

(* A vector, element by element.  (The concatenation makes TLC compute it  *)
(* once, not at every use.)                                                *)
Vector(elements) == elements \o <<>>

(* The n-th slice of length dim of a flat vector, from 0.                  *)
Slice(s, n, dim) == SubSeq(s, n * dim + 1, (n + 1) * dim)

(* cos and sin of `times` times the angle of dimension `index`.            *)
Unit(index) ==    \* a rational point of the circle
  LET t == index + 2
      d == (1 + t * t) % P
  IN  <<Over(Minus(1, (t * t) % P), d), Over((2 * t) % P, d)>>
Turned(a, b) == <<Minus(Times(a[1], b[1]), Times(a[2], b[2])),
                  (Times(a[1], b[2]) + Times(a[2], b[1])) % P>>
Rotation(index, times) ==
  LET turn[n \in 0..times] == IF n = 0 THEN <<1, 0>> ELSE Turned(turn[n - 1], Unit(index))
  IN  turn[times]
=============================================================================
