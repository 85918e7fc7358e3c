--------------------------------- MODULE Moe ---------------------------------
(***************************************************************************)
(* src/src/experts/mod.rs and the experts of model/qwen36/weights.rs: the  *)
(* router's exact top-k, and the three forms of the mixture of experts,    *)
(* the all-Q4_K oracle, the resident one over the checkpoint's three       *)
(* planes, and the streaming one over superextents, token by token or a    *)
(* chunk at a time.  The residency of experts is in ExpertCache; here a    *)
(* planned expert is there.                                                *)
(*                                                                         *)
(* A logit is an integer, an infinite or undefined one is NotFinite.  A    *)
(* probability is a power of two over its sum, and zero below Underflow:   *)
(* exp is strictly monotone only above it.                                 *)
(***************************************************************************)
EXTENDS FiniteField

CONSTANTS NumExperts, TopK, Hidden, ExpertWidth, Underflow

ShapeError == <<>>
NotFinite  == 1000000

Mass(logit, max) == IF max - logit > Underflow THEN 0 ELSE 2^(Underflow + logit - max)
-----------------------------------------------------------------------------
(* RouterResult::from_logits.  Expert ids are 0..NumExperts-1; a weight is *)
(* its mass over the selected mass.                                        *)
Ahead(masses, a, b) == masses[a + 1] > masses[b + 1] \/ (masses[a + 1] = masses[b + 1] /\ a < b)

ValidRoute(ids, masses) ==
  /\ IsInjective(ids) /\ ToSet(ids) \subseteq 0..NumExperts - 1
  /\ \A i \in DOMAIN masses : masses[i] >= 0
  /\ \E i \in DOMAIN masses : masses[i] > 0      \* they sum to one

FromLogits(logits) ==
  LET max    == CHOOSE m \in ToSet(logits) : \A l \in ToSet(logits) : l <= m
      masses == Vector([i \in 1..Len(logits) |-> Mass(logits[i], max)])
      ranked == SortSeq(Vector([i \in 1..NumExperts |-> i - 1]), LAMBDA a, b : Ahead(masses, a, b))
      ids    == SubSeq(ranked, 1, TopK)
      chosen == Vector([i \in 1..TopK |-> masses[ids[i] + 1]])
  IN  IF Len(logits) # NumExperts \/ NotFinite \in ToSet(logits) \/ ~ValidRoute(ids, chosen)
      THEN ShapeError
      ELSE [ids |-> ids, masses |-> chosen]

Share(route, i) == Over(route.masses[i] % P, Sum(route.masses))

(* What the router selects: no expert that is left out is likelier than a  *)
(* selected one, ties go to the smaller id, and the order is descending.   *)
RouteIsTop(logits) ==
  LET r == FromLogits(logits)
      max == CHOOSE m \in ToSet(logits) : \A l \in ToSet(logits) : l <= m
      mass(e) == Mass(logits[e + 1], max)
      before(a, b) == mass(a) > mass(b) \/ (mass(a) = mass(b) /\ a < b)
  IN  IF NotFinite \in ToSet(logits) THEN r = ShapeError
      ELSE /\ \A i \in 1..TopK - 1 : before(r.ids[i], r.ids[i + 1])
           /\ \A e \in (0..NumExperts - 1) \ ToSet(r.ids) : before(r.ids[TopK], e)
           /\ \A i \in 1..TopK : mass(r.ids[i]) > 0 =>
                \A e \in (0..NumExperts - 1) \ ToSet(r.ids) : logits[e + 1] <= logits[r.ids[i] + 1]
           /\ Sum([i \in 1..TopK |-> Share(r, i)]) = 1
-----------------------------------------------------------------------------
Matvec(weight, x, rows, cols) == Vector([r \in 1..rows |-> Dot(Slice(weight, r - 1, cols), x)])
SiluMul(gate, up) == Vector([i \in 1..Len(gate) |-> Times(Silu(gate[i]), up[i])])
Scaled(x, scale)  == Vector([i \in 1..Len(x) |-> Times(x[i], scale)])
AddScaled(x, y, scale) == Vector([i \in 1..Len(x) |-> (x[i] + y[i] * scale) % P])

Plane == ExpertWidth * Hidden          \* elements of a gate, an up or a down

(* ResidentExpert: three matrices of their own.                            *)
ExpertFits(e) == Len(e.gate) = Plane /\ Len(e.up) = Plane /\ Len(e.down) = Plane
ResidentExpertForward(e, input) ==
  Matvec(e.down, SiluMul(Matvec(e.gate, input, ExpertWidth, Hidden),
                         Matvec(e.up, input, ExpertWidth, Hidden)), Hidden, ExpertWidth)

(* ResidentMoe::validate and forward.                                      *)
ResidentMoeFits(m) ==
  /\ Len(m.router) = NumExperts * Hidden /\ Len(m.inputGate) = Hidden
  /\ ExpertFits(m.shared) /\ Len(m.routed) = NumExperts
  /\ \A e \in ToSet(m.routed) : ExpertFits(e)

ResidentMoeForward(m, input) ==
  LET route  == FromLogits(Matvec(m.router, input, NumExperts, Hidden))
      shared == Scaled(ResidentExpertForward(m.shared, input), Sigmoid(Dot(m.inputGate, input)))
      term(i) == ResidentExpertForward(m.routed[route.ids[i] + 1], input)
  IN  IF Len(input) # Hidden \/ ~ResidentMoeFits(m) \/ route = ShapeError THEN ShapeError
      ELSE FoldLeft(LAMBDA out, i : AddScaled(out, term(i), Share(route, i)), shared,
                    Vector([i \in 1..TopK |-> i]))

(* The shared expert, scaled by its own gate.                              *)
SharedForward(m, input) ==
  Scaled(Matvec(m.shared.down,
                SiluMul(Matvec(m.shared.gate, input, ExpertWidth, Hidden),
                        Matvec(m.shared.up, input, ExpertWidth, Hidden)), Hidden, ExpertWidth),
         Sigmoid(Dot(m.inputGate, input)))

(* matvec_expert: the plane of one expert of a tensor {cols, rows, expert}.*)
MatvecExpert(tensor, expert, input, rows, cols) ==
  IF expert >= NumExperts THEN ShapeError
  ELSE Matvec(Slice(tensor, expert, rows * cols), input, rows, cols)

(* Qwen36ResidentMoe::forward.                                             *)
PlanesForward(m, planes, input) ==
  LET route == FromLogits(Matvec(m.router, input, NumExperts, Hidden))
      routed(e) == MatvecExpert(planes.down, e,
                     SiluMul(MatvecExpert(planes.gate, e, input, ExpertWidth, Hidden),
                             MatvecExpert(planes.up, e, input, ExpertWidth, Hidden)),
                     Hidden, ExpertWidth)
  IN  IF Len(input) # Hidden \/ route = ShapeError THEN ShapeError
      ELSE FoldLeft(LAMBDA out, i : AddScaled(out, routed(route.ids[i]), Share(route, i)),
                    SharedForward(m, input), Vector([i \in 1..TopK |-> i]))
-----------------------------------------------------------------------------
(* A superextent holds gate, up and down one after the other.              *)
PayloadParts(bytes) == <<Slice(bytes, 0, Plane), Slice(bytes, 1, Plane), Slice(bytes, 2, Plane)>>

(* LoadedQwen36Expert::forward.                                            *)
ExpertForward(bytes, input) ==
  LET part == PayloadParts(bytes) IN
  Matvec(part[3], SiluMul(Matvec(part[1], input, ExpertWidth, Hidden),
                          Matvec(part[2], input, ExpertWidth, Hidden)), Hidden, ExpertWidth)

(* Qwen36StreamingMoe::forward_with_observer.                              *)
StreamingForward(m, extents, input) ==
  LET route == FromLogits(Matvec(m.router, input, NumExperts, Hidden))
  IN  IF Len(input) # Hidden \/ route = ShapeError THEN ShapeError
      ELSE FoldLeft(LAMBDA out, i :
                      AddScaled(out, ExpertForward(extents[route.ids[i] + 1], input), Share(route, i)),
                    SharedForward(m, input), Vector([i \in 1..TopK |-> i]))

(* forward_batch: every row is routed, the union of the experts is         *)
(* fetched once, in the order they are first met, and each row mixes its   *)
(* own route out of the union.                                             *)
Distinct(routes) ==
  FoldLeft(LAMBDA seen, e : IF e \in ToSet(seen) THEN seen ELSE Append(seen, e), <<>>,
           FlattenSeq(Vector([r \in 1..Len(routes) |-> routes[r].ids])))

BatchForward(m, extents, inputs) ==
  LET routes == Vector([r \in 1..Len(inputs) |->
                  FromLogits(Matvec(m.router, inputs[r], NumExperts, Hidden))])
      union  == Distinct(routes)
      staged == Vector([n \in 1..Len(union) |-> extents[union[n] + 1]])
      planned(e) == staged[CHOOSE n \in DOMAIN union : union[n] = e]
  IN  IF \E r \in DOMAIN inputs : Len(inputs[r]) # Hidden \/ routes[r] = ShapeError THEN ShapeError
      ELSE Vector([r \in 1..Len(inputs) |->
             FoldLeft(LAMBDA out, i :
                        AddScaled(out, ExpertForward(planned(routes[r].ids[i]), inputs[r]),
                                  Share(routes[r], i)),
                      SharedForward(m, inputs[r]), Vector([i \in 1..TopK |-> i]))])

(* All forms agree on every row, whichever rows are in a chunk with it.    *)
(* `routed` are the experts; the planes and the superextents are the two   *)
(* layouts of the same weights (experts/mod.rs:1345-1632, weights.rs:412,  *)
(* 563).                                                                   *)
MoeAgrees(m, inputs) ==
  LET plane(Of(_)) == FlattenSeq(Vector([e \in 1..NumExperts |-> Of(m.routed[e])]))
      planes  == [gate |-> plane(LAMBDA e : e.gate), up |-> plane(LAMBDA e : e.up),
                  down |-> plane(LAMBDA e : e.down)]
      extents == Vector([e \in 1..NumExperts |-> (m.routed[e].gate \o m.routed[e].up) \o m.routed[e].down])
      alone   == Vector([r \in 1..Len(inputs) |-> ResidentMoeForward(m, inputs[r])])
  IN  /\ \A r \in DOMAIN inputs : alone[r] # ShapeError
      /\ alone = Vector([r \in 1..Len(inputs) |-> PlanesForward(m, planes, inputs[r])])
      /\ alone = Vector([r \in 1..Len(inputs) |-> StreamingForward(m, extents, inputs[r])])
      /\ alone = BatchForward(m, extents, inputs)
=============================================================================
