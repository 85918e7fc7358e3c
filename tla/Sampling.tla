------------------------------ MODULE Sampling ------------------------------
(***************************************************************************)
(* src/src/sampling/mod.rs and top_logit_candidates of runtime/decode.rs:  *)
(* which token of a vector of logits a request gets.                       *)
(*                                                                         *)
(* A value is an integer, NotANumber or Infinite.  The exponential is      *)
(* Base ^ (value / temperature), zero below Underflow.  A probability is a *)
(* mass over the total.  Fractions are pairs <<numerator, denominator>>.   *)
(* The random number is draw / Draws; the order top_k leaves ties in is    *)
(* any, so a sample is a set of tokens.                                    *)
(***************************************************************************)
EXTENDS Integers, Sequences, FiniteSets, SequencesExt, FiniteSetsExt

CONSTANTS Draws, Underflow

NotANumber == 1000001
Infinite   == 1000000

TokensOf(logits) == 0..Len(logits) - 1
Cand(token, value) == [token |-> token, value |-> value]
-----------------------------------------------------------------------------
(* top_logit_candidates: a logit goes before the first it exceeds.         *)
Exceeds(a, b) == a # NotANumber /\ a > b
Lowest == Cand(0, -Infinite)
TopLogits(logits) ==
  LET insert(top, c) ==
        LET after == {i \in 1..4 : Exceeds(c.value, top[i].value)}
        IN  IF after = {} THEN top ELSE SubSeq(InsertAt(top, Min(after), c), 1, 4)
  IN  FoldLeft(insert, <<Lowest, Lowest, Lowest, Lowest>>,
               [i \in DOMAIN logits |-> Cand(i - 1, logits[i])])

(* compare_desc: descending, and NaN after everything.                     *)
CompareDesc(a, b) == a # NotANumber /\ (b = NotANumber \/ a > b)
-----------------------------------------------------------------------------
(* apply_penalties: a repeated logit moves down whatever its sign; a       *)
(* penalty of zero makes a positive one infinite.                          *)
Repeated(value, repeat) ==
  IF value > 0 THEN IF repeat[1] = 0 THEN Infinite ELSE (value * repeat[2]) \div repeat[1]
  ELSE (value * repeat[1]) \div repeat[2]

ApplyPenalties(candidates, history, params) ==
  LET window == Min({params.repeatLastN, Len(history)})
      recent == SubSeq(history, Len(history) - window + 1, Len(history))
      count(t) == Cardinality({i \in DOMAIN recent : recent[i] = t})
      penal(c) ==
        IF count(c.token) = 0 \/ c.value = NotANumber THEN c
        ELSE LET v == IF params.repeat = <<1, 1>> THEN c.value ELSE Repeated(c.value, params.repeat)
             IN  IF v = Infinite THEN Cand(c.token, v)
                 ELSE Cand(c.token, v - (params.frequency * count(c.token) + params.presence))
  IN  {penal(c) : c \in candidates}

(* The sets the k best candidates may be; 0 is no top_k.                   *)
ApplyTopK(candidates, k) ==
  IF k = 0 \/ k >= Cardinality(candidates) THEN {candidates}
  ELSE {best \in kSubset(k, candidates) :
          \A c \in best, o \in candidates \ best : ~CompareDesc(o.value, c.value)}

Power(temperature, distance) == distance \div temperature     \* of Base = 2

MassOf(value, max, temperature) ==
  IF value = NotANumber \/ value = Infinite THEN NotANumber
  ELSE IF max = Infinite \/ Power(temperature, max - value) > Underflow THEN 0
  ELSE 2 ^ (Underflow - Power(temperature, max - value))

TotalOf(list) ==
  IF \E i \in DOMAIN list : list[i].value = NotANumber THEN NotANumber
  ELSE FoldLeft(LAMBDA n, c : n + c.value, 0, list)

Softmax(candidates, temperature) ==
  LET max == Max({-Infinite} \cup ({c.value : c \in candidates} \ {NotANumber}))
  IN  SetToSortSeq({Cand(c.token, MassOf(c.value, max, temperature)) : c \in candidates},
        LAMBDA a, b : \/ CompareDesc(a.value, b.value)
                      \/ a.value = b.value /\ a.token < b.token)

(* What one is on the scale of the masses: they are left as they are when  *)
(* their total is not a number.                                            *)
One(list) == IF TotalOf(list) \in {NotANumber, 0} THEN 2 ^ Underflow ELSE TotalOf(list)

Sum(list, n) == TotalOf(SubSeq(list, 1, n))
Prefix(list, n) == SubSeq(list, 1, IF n > 1 THEN n ELSE 1)

ApplyTopP(list, topP, one) ==
  LET reached == {n \in DOMAIN list : /\ Sum(list, n) # NotANumber
                                      /\ Sum(list, n) * topP[2] >= topP[1] * one}
  IN  IF topP[1] >= topP[2] \/ reached = {} THEN list ELSE Prefix(list, Min(reached))

ApplyMinP(list, minP) ==
  LET below == {n \in DOMAIN list : \/ NotANumber \in {list[n].value, list[1].value}
                                    \/ list[n].value * minP[2] < minP[1] * list[1].value}
  IN  IF minP[1] = 0 \/ below = {} THEN list ELSE Prefix(list, Min(below) - 1)

Draw(list, draw) ==
  LET total == TotalOf(list)
      hit   == {n \in DOMAIN list : Sum(list, n) * Draws >= draw * total}
  IN  IF total \in {NotANumber, 0} THEN list[1].token ELSE list[Min(hit)].token

Candidates(logits) == {Cand(t, logits[t + 1]) : t \in TokensOf(logits)}

(* The distributions the filters may leave, and a sample from them.        *)
Filtered(logits, history, params) ==
  {LET all == Softmax(kept, params.temperature)
   IN  ApplyMinP(ApplyTopP(all, params.topP, One(all)), params.minP) :
     kept \in ApplyTopK(ApplyPenalties(Candidates(logits), history, params), params.topK)}

Sample(logits, history, params, draw) == {Draw(list, draw) : list \in Filtered(logits, history, params)}

(* Sampler::select: greedy takes what the decoder computed.                *)
Selected(logits, history, params, draw) ==
  IF params.temperature = 0 THEN {TopLogits(logits)[1].token}
  ELSE Sample(logits, history, params, draw)
-----------------------------------------------------------------------------
Sane(logits) == {t \in TokensOf(logits) : logits[t + 1] # NotANumber}

(* Without penalties a token that is not a number is never chosen while    *)
(* another is there; where no min_p cuts it off, a vector with one falls   *)
(* back to a most likely token; greedy is the first of the largest.        *)
(* (sampling/mod.rs:226-266, decode.rs:48-64)                              *)
NanNeverWins(logits, params) ==
  LET sane == Sane(logits)
      best == Max({logits[t + 1] : t \in sane})
      no   == [params EXCEPT !.repeat = <<1, 1>>, !.frequency = 0, !.presence = 0, !.topK = 0]
  IN  sane # {} =>
        /\ Selected(logits, <<>>, [no EXCEPT !.temperature = 0], 0)
             = {Min({t \in sane : logits[t + 1] = best})}
        /\ \A draw \in 0..Draws - 1 : \A t \in Selected(logits, <<>>, no, draw) :
             /\ t \in sane
             /\ sane # TokensOf(logits) /\ params.minP[1] = 0 => logits[t + 1] = best

(* On numbers, with penalties of at least one: what is left is the least   *)
(* prefix that reaches top_p, less what min_p refuses, of a most likely    *)
(* set of k; each of it is drawn as often as its share of the mass, to one *)
(* draw; and no token is likelier for being the one repeated.              *)
(* (sampling/mod.rs:84-248)                                                *)
DrawsFollowMasses(logits, history, params) ==
  LET lists == Filtered(logits, history, params)
      fair(list) ==
        LET total == TotalOf(list)
            count(n) == Cardinality({r \in 0..Draws - 1 : Draw(list, r) = list[n].token})
        IN  \A n \in DOMAIN list : /\ count(n) * total <= list[n].value * Draws + total
                                   /\ list[n].value * Draws <= count(n) * total + total
      unfiltered(h) ==
        Filtered(logits, h, [params EXCEPT !.topP = <<1, 1>>, !.minP = <<0, 1>>, !.topK = 0])
      mass(list, t) == list[CHOOSE i \in DOMAIN list : list[i].token = t].value
  IN  Sane(logits) = TokensOf(logits) /\ params.temperature > 0 =>
        /\ \A list \in lists :
             LET kept  == ApplyTopK(ApplyPenalties(Candidates(logits), history, params), params.topK)
                 whole == Softmax(CHOOSE k \in kept : TRUE, params.temperature)
                 n     == Len(list)
             IN  /\ n >= 1 /\ fair(list)
                 /\ params.topK > 0 => n <= params.topK
                 /\ n > 1 /\ params.topP # <<1, 1>> =>
                      Sum(list, n - 1) * params.topP[2] < params.topP[1] * TotalOf(whole)
                 /\ \A i \in 1..n : list[i].value * params.minP[2] >= params.minP[1] * list[1].value
                 /\ n < Len(whole) =>
                      \/ Sum(list, n) * params.topP[2] >= params.topP[1] * TotalOf(whole)
                      \/ whole[n + 1].value * params.minP[2] < params.minP[1] * whole[1].value
        /\ \A t \in TokensOf(logits), before \in unfiltered(<<>>), after \in unfiltered(history) :
             ToSet(history) = {t} =>
               mass(after, t) * TotalOf(before) <= mass(before, t) * TotalOf(after)

SamplingIsSound(logits, history, params) ==
  NanNeverWins(logits, params) /\ DrawsFollowMasses(logits, history, params)
=============================================================================
