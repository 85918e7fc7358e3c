------------------------------- MODULE Searches -------------------------------
(***************************************************************************)
(* A search over one index: the router that reads a query's intents and    *)
(* the budget it is given (retrieval/hybrid.rs, context_budget.rs), the    *)
(* BM25 lane (retrieval/lexical.rs), and the fusion of the lanes; and a    *)
(* search over vectors: the flat reference, the compact encodings measured *)
(* against it, and the partitions that scan less of the store              *)
(* (retrieval/flat.rs, tqvec.rs, adaptive.rs).                             *)
(*                                                                         *)
(* A query is its raw tokens `text` and what the router looks at: the      *)
(* number of words, the question words among them, and its `marks`.        *)
(* Confidences are thousandths.  BM25's logarithm is the table Idf, also   *)
(* in thousandths, and a score is fixed point; a fused score is exact, a   *)
(* number of parts of the product of all k + rank.                         *)
(*                                                                         *)
(* A vector is a sequence of integers and stands for its direction: what   *)
(* the code normalizes is compared as a cosine, by squares, which is exact *)
(* in integers.  The vectors that are added up have one norm, as unit      *)
(* vectors have.  A decoded number is a pair <<n, d>>, d > 0.  The rounding*)
(* of f32 and of half-precision scales is left out.                        *)
(***************************************************************************)
EXTENDS Integers, TqiIndex

CONSTANTS
  Idf,        \* Idf[n][df], n documents of which df hold the term
  RrfK,       \* k of the fusion
  NameOrder,  \* the paths in the order of their names
  GroupSize,  \* dimensions of a vector that share a scale
  CoarseDim   \* dimensions of the coarse key

Marks == {"identifier", "colons", "paren", "slash", "extension", "error"}

(* The queries there are: an identifier is one word without a slash or a   *)
(* parenthesis, and what has no words has nothing.  Only a query that is   *)
(* one raw token and nothing else can be a key of the exact lane.          *)
Bare(query) == query.marks \ {"error"} = {"identifier"} /\ Len(query.text) = 1
Possible(query) ==
  /\ query.questions <= query.words
  /\ "identifier" \in query.marks => query.words = 1 /\ {"slash", "paren"} \cap query.marks = {}
  /\ query.words = 0 => query.marks = {} /\ query.text = <<>>

Larger(a, b)  == IF a < b THEN b ELSE a
Smaller(a, b) == IF a < b THEN a ELSE b
Most(S) == FoldSet(Larger, 0, S)
-----------------------------------------------------------------------------
(* classify_query, one signal each; 0 is an intent that did not fire.      *)
SymbolConfidence(query) ==
  IF {"identifier", "colons", "paren"} \cap query.marks = {} THEN 0
  ELSE IF "colons" \in query.marks THEN 900 ELSE 600

PathConfidence(query) ==
  IF "slash" \in query.marks /\ ("extension" \in query.marks \/ query.words = 1) THEN 900 ELSE 0

ErrorConfidence(query) == IF "error" \in query.marks THEN 700 ELSE 0

QuestionConfidence(query) ==
  IF query.words >= 4 /\ (query.questions > 0 \/ query.words >= 6)
  THEN Smaller(500 + 100 * query.questions, 950) ELSE 0

ClassifyQuery(query) ==
  LET fired == [symbol |-> SymbolConfidence(query), path |-> PathConfidence(query),
                error |-> ErrorConfidence(query), question |-> QuestionConfidence(query)]
      several == Cardinality({i \in DOMAIN fired : fired[i] > 0}) > 1
  IN  fired @@ [mixed |-> IF several THEN Most({fired[i] : i \in DOMAIN fired}) \div 2 ELSE 0]

ShouldUseSemanticLane(intents) ==
  intents.question > 0 /\ intents.question >= Larger(intents.symbol, intents.path)

(* estimate_budget                                                         *)
Narrow   == [use |-> TRUE, tokens |-> 400, candidates |-> 5]
Moderate(candidates) == [use |-> TRUE, tokens |-> 1500, candidates |-> candidates]
Broad    == [use |-> TRUE, tokens |-> 6000, candidates |-> 16]
Nothing  == [use |-> FALSE, tokens |-> 0, candidates |-> 0]

EstimateBudget(intents) ==
  CASE \A i \in DOMAIN intents : intents[i] = 0 -> Nothing
    [] Larger(intents.symbol, intents.path) > 0 /\ intents.question = 0 /\ intents.mixed = 0 -> Narrow
    [] intents.mixed > 0     -> Moderate(12)
    [] intents.question >= 700 -> Broad
    [] intents.question > 0  -> Moderate(16)
    [] OTHER                 -> Moderate(8)
-----------------------------------------------------------------------------
(* search_with_params: k1 = 1.2 and b = 0.75.                              *)
TokensInAll(index) == FoldFunction(LAMBDA c, n : c.tokens + n, 0, index.chunks)

TermScore(index, term, chunk, tf) ==
  LET n   == Len(index.chunks)
      all == Larger(TokensInAll(index), n)     \* avg_doc_len.max(1.0)
  IN  (Idf[n][Len(index.postings[term])] * 22 * tf * all * 10)
        \div (10 * tf * all + 3 * all + 9 * index.chunks[chunk].tokens * n)

ChunkScore(index, query, chunk) ==
  FoldLeft(LAMBDA score, term :
             IF term \notin DOMAIN index.postings THEN score
             ELSE LET posting == SelectSeq(index.postings[term], LAMBDA p : p[1] = chunk)
                  IN  IF posting = <<>> THEN score
                      ELSE score + TermScore(index, term, chunk, posting[1][2]),
           0, Tokenize(query))

(* The rankings a search may return: the scores come out of a HashMap, so  *)
(* chunks of one score are in any order, and truncate takes the first k.   *)
LexicalLanes(index, query, k) ==
  LET found == {c \in DOMAIN index.chunks : index.chunks[c].path \in Ranked(index, query)}
      score == [c \in found |-> ChunkScore(index, query, c)]
      order == {s \in SetToSeqs(found) : \A i \in 1..Len(s) - 1 : score[s[i]] >= score[s[i + 1]]}
  IN  {[i \in 1..Smaller(k, Len(s)) |-> index.chunks[s[i]].path] : s \in order}

ExactLane(index, raw) ==
  IF raw \in DOMAIN index.exact
  THEN [i \in DOMAIN index.exact[raw] |-> index.chunks[index.exact[raw][i]].path] ELSE <<>>
-----------------------------------------------------------------------------
(* fuse_rrf.  A lane is [lane, hits]; its hits are distinct.               *)
Weight(lane) == IF lane = "exact" THEN 2 ELSE 1
RankIn(hits, id) == CHOOSE i \in DOMAIN hits : hits[i] = id
Holding(lanes, id) == {i \in DOMAIN lanes : id \in ToSet(lanes[i].hits)}
Whole(lanes) ==
  LET depth == Most({Len(lanes[i].hits) : i \in DOMAIN lanes})
  IN  FoldLeft(LAMBDA n, r : n * (RrfK + r), 1, [r \in 1..depth |-> r])

RrfScore(lanes, id) ==
  FoldSet(LAMBDA i, n : n + (Weight(lanes[i].lane) * Whole(lanes))
                              \div (RrfK + RankIn(lanes[i].hits, id)), 0, Holding(lanes, id))
BestRank(lanes, id) ==
  LET ranks == {RankIn(lanes[i].hits, id) : i \in Holding(lanes, id)}
  IN  CHOOSE r \in ranks : \A s \in ranks : r <= s
IsExactHit(lanes, id) == \E i \in Holding(lanes, id) : lanes[i].lane = "exact"

Candidate(lanes, id) ==
  [id |-> id, exact |-> IsExactHit(lanes, id), score |-> RrfScore(lanes, id),
   best |-> BestRank(lanes, id)]


GoesBefore(a, b) ==
  \/ a.exact /\ ~b.exact
  \/ /\ a.exact = b.exact
     /\ \/ a.score > b.score
        \/ a.score = b.score /\ a.best < b.best
        \/ a.score = b.score /\ a.best = b.best /\ RankIn(NameOrder, a.id) < RankIn(NameOrder, b.id)

FuseRrf(lanes) ==
  LET ids == UNION {ToSet(lanes[i].hits) : i \in DOMAIN lanes}
  IN  SetToSortSeq({Candidate(lanes, id) : id \in ids}, GoesBefore)

(* run_hybrid_query's lanes; `semantic` is the store's ranking, <<>> when  *)
(* there is no store or no embedding of the query.                         *)
LanesOf(index, query, lexical, semantic, k) ==
  <<[lane |-> "exact", hits |-> IF Bare(query) THEN ExactLane(index, query.text[1]) ELSE <<>>],
    [lane |-> "lexical", hits |-> lexical]>>
  \o IF semantic # <<>> /\ ShouldUseSemanticLane(ClassifyQuery(query))
     THEN <<[lane |-> "semantic", hits |-> SubSeq(semantic, 1, Smaller(k, Len(semantic)))]>> ELSE <<>>

(* tqf_search of mcp/tools.rs shows the first `limit`, k_per_lane as well. *)
Shown(lanes, limit) ==
  LET fused == FuseRrf(lanes) IN [i \in 1..Smaller(limit, Len(fused)) |-> fused[i].id]
-----------------------------------------------------------------------------
(* Another question word never makes the router give up the semantic lane  *)
(* or the budget shrink, and whenever the lane runs there is room for what *)
(* it finds (hybrid.rs:75-153, context_budget.rs:30-105).                  *)
QuestionsWiden(query) ==
  LET intents == ClassifyQuery(query)
      asked   == ClassifyQuery([query EXCEPT !.words = @ + 1, !.questions = @ + 1])
  IN  /\ ShouldUseSemanticLane(intents) => ShouldUseSemanticLane(asked)
      /\ query.words >= 4 => EstimateBudget(intents).tokens <= EstimateBudget(asked).tokens
      /\ ShouldUseSemanticLane(intents) => EstimateBudget(intents).tokens >= 1500
      /\ query.marks \cap {"identifier", "colons", "paren"} # {} => EstimateBudget(intents).use

(* Each hit of a lane is fused once, exact hits are first, a candidate     *)
(* that is ahead of another one in every lane of that one is ahead of it,  *)
(* and the order of the lanes does not matter (hybrid.rs:155-235).         *)
FusionIsFair(lanes) ==
  LET fused == FuseRrf(lanes)
      ahead(a, b) == \A i \in Holding(lanes, b) :
        a \in ToSet(lanes[i].hits) /\ RankIn(lanes[i].hits, a) < RankIn(lanes[i].hits, b)
  IN  /\ {fused[i].id : i \in DOMAIN fused} = UNION {ToSet(lanes[i].hits) : i \in DOMAIN lanes}
      /\ Cardinality({fused[i].id : i \in DOMAIN fused}) = Len(fused)
      /\ \A i, j \in DOMAIN fused : i < j =>
           /\ fused[j].exact => fused[i].exact
           /\ fused[i].exact = fused[j].exact => ~ahead(fused[j].id, fused[i].id)
      /\ FuseRrf(Reverse(lanes)) = fused

(* Whatever order ties come in: a search of the index that was persisted   *)
(* and loaded is the search of the index, the identifier that is asked for *)
(* comes with a file that has it, and tqf_search, which has no semantic    *)
(* lane, loses no hit when it is asked for more (lexical.rs:214-344,       *)
(* hybrid.rs:237-304, mcp/tools.rs:163-183).                               *)
AnswersGrow(docs, query, limit) ==
  LET index  == BuildLexical(docs)
      out    == ExportLexical(index)
      loaded == FromParts(out.postings, out.exact, out.lengths, out.paths)
      shown(full, k) ==
        Shown(LanesOf(index, query, SubSeq(full, 1, Smaller(k, Len(full))), <<>>, k), k)
  IN  /\ LexicalLanes(index, query.text, limit) = LexicalLanes(loaded, query.text, limit)
      /\ \A full \in LexicalLanes(index, query.text, Len(docs)) :
           /\ ToSet(shown(full, limit)) \subseteq ToSet(shown(full, limit + 1))
           /\ Bare(query) /\ ExactLookup(index, query.text[1]) # {} =>
                shown(full, limit)[1] \in ExactLookup(loaded, query.text[1])

(* For a query of one term: of two files of one length the one that names  *)
(* it more often is not behind, of two that name it as often the longer    *)
(* one is not ahead, and a rarer term weighs more (lexical.rs:297-331).    *)
RanksByRelevance(docs) ==
  LET index == BuildLexical(docs)
  IN  \A term \in DOMAIN index.postings : \A i, j \in DOMAIN index.postings[term] :
        LET a == index.postings[term][i]
            b == index.postings[term][j]
            score(p) == TermScore(index, term, p[1], p[2])
            tokens(p) == index.chunks[p[1]].tokens
        IN  /\ score(a) > 0
            /\ tokens(a) = tokens(b) /\ a[2] > b[2] => score(a) > score(b)
            /\ tokens(a) < tokens(b) /\ a[2] = b[2] => score(a) >= score(b)
            /\ \A other \in DOMAIN index.postings :
                 Len(index.postings[other]) > Len(index.postings[term]) =>
                   TermScore(index, other, a[1], a[2]) < score(a)

SearchIsSound(docs, query, limit) ==
  /\ QuestionsWiden(query)
  /\ AnswersGrow(docs, query, limit)
  /\ RanksByRelevance(docs)
-----------------------------------------------------------------------------
Magnitude(n) == IF n < 0 THEN -n ELSE n
Total(s)     == FoldLeft(LAMBDA n, x : n + x, 0, s)
Each(n, F(_)) == [i \in 1..n |-> F(i)] \o <<>>
DotOf(a, b)  == Total([i \in DOMAIN a |-> a[i] * b[i]])
Greatest(S)  == CHOOSE x \in S : \A y \in S : y <= x
Rounded(n, d) ==       \* f32::round of n / d
  LET q == (2 * Magnitude(n) + d) \div (2 * d) IN IF n < 0 THEN -q ELSE q

(* dot / norm of two candidates for one query, larger first.               *)
(* l2_normalize leaves a zero vector as it is.                             *)
SignedSquare(n) == n * Magnitude(n)
SquaredNorm(v) == IF DotOf(v, v) = 0 THEN 1 ELSE DotOf(v, v)
Closer(query, a, b) ==
  SignedSquare(DotOf(query, a)) * SquaredNorm(b) > SignedSquare(DotOf(query, b)) * SquaredNorm(a)

(* A stable sort of 1..n by `Better`, and its first k.                     *)
TopBy(n, Better(_, _), k) ==
  LET order == SetToSortSeq(1..n, LAMBDA i, j : Better(i, j) \/ (~Better(j, i) /\ i < j))
  IN  SubSeq(order, 1, IF k < n THEN k ELSE n)
-----------------------------------------------------------------------------
(* quantize_int8_linear                                                    *)
QuantizeInt8(v) ==
  LET max == Greatest({0} \cup {Magnitude(v[i]) : i \in DOMAIN v})
  IN  IF max = 0 THEN [codes |-> [i \in DOMAIN v |-> 0], scale |-> <<1, 1>>]
      ELSE [codes |-> Each(Len(v), LAMBDA i : Rounded(v[i] * 127, max)), scale |-> <<max, 127>>]

Int8Dot(a, b) ==
  <<DotOf(a.codes, b.codes) * a.scale[1] * b.scale[1], a.scale[2] * b.scale[2]>>

SignBits(v) == [i \in DOMAIN v |-> IF v[i] >= 0 THEN 1 ELSE 0]

SearchFp32(records, query, k) ==
  TopBy(Len(records), LAMBDA i, j : Closer(query, records[i], records[j]), k)

-----------------------------------------------------------------------------
(* pack_bits: an accumulator that gives off its lowest byte when full.     *)
PackStream(values, bits) ==
  LET push(s, v) ==
        LET acc  == s.acc + v * 2^s.held
            held == s.held + bits
        IN  IF held >= 8 THEN [out |-> Append(s.out, acc % 256), acc |-> acc \div 256, held |-> held - 8]
            ELSE [out |-> s.out, acc |-> acc, held |-> held]
      end == FoldLeft(push, [out |-> <<>>, acc |-> 0, held |-> 0], values)
  IN  IF end.held > 0 THEN Append(end.out, end.acc % 256) ELSE end.out

TakeByte(s, bytes) ==
  [s EXCEPT !.acc = @ + bytes[s.next] * 2^s.held, !.held = @ + 8, !.next = @ + 1]

UnpackStream(bytes, bits, count) ==
  LET pull(s, i) ==
        LET filled == IF s.held < bits THEN TakeByte(s, bytes) ELSE s
        IN  [filled EXCEPT !.out = Append(@, filled.acc % 2^bits), !.acc = @ \div 2^bits,
                           !.held = @ - bits]
  IN  FoldLeft(pull, [out |-> <<>>, acc |-> 0, held |-> 0, next |-> 1], [i \in 1..count |-> i]).out

(* GroupedQuant                                                            *)
MaxLevel(bits) == 2^(bits - 1) - 1
GroupMax(v, i) ==
  LET first == ((i - 1) \div GroupSize) * GroupSize
  IN  Greatest({Magnitude(v[first + d]) : d \in {e \in 1..GroupSize : first + e <= Len(v)}})

GroupScale(v, i, bits) ==
  IF GroupMax(v, i) = 0 THEN <<1, 1>> ELSE <<GroupMax(v, i), MaxLevel(bits)>>

EncodeGrouped(v, bits) ==
  LET scale == Each(Len(v), LAMBDA i : GroupScale(v, i, bits))
      code(i) == Rounded(v[i] * scale[i][2], scale[i][1]) + MaxLevel(bits)
  IN  [coarse |-> SignBits(SubSeq(v, 1, CoarseDim)), packed |-> PackStream(Each(Len(v), code), bits),
       scale |-> scale, bits |-> bits]

DecodeGrouped(g) ==
  LET codes == UnpackStream(g.packed, g.bits, Len(g.scale))
  IN  Each(Len(g.scale), LAMBDA i :
        <<(codes[i] - MaxLevel(g.bits)) * g.scale[i][1], g.scale[i][2]>>)

(* fwht_inplace times the root of the length, a power of two.              *)
Fwht(v) ==
  LET pass[k \in 0..Len(v)] ==
        IF k = 0 THEN v
        ELSE LET w == 2^(k - 1)
             IN  Each(Len(v), LAMBDA i : IF ((i - 1) \div w) % 2 = 0 THEN pass[k - 1][i] + pass[k - 1][i + w]
                                         ELSE pass[k - 1][i - w] - pass[k - 1][i])
  IN  pass[CHOOSE k \in 0..Len(v) : 2^k = Len(v)]

(* rotate                                                                  *)
RotateVector(v, signs) == Fwht(Each(Len(v), LAMBDA i : v[i] * signs[i]))

(* TqVecF, in units of 1 / Len(v): the mean magnitude with the sign, and   *)
(* what it leaves over.                                                    *)
Reconstruction(v) ==
  LET mean == Total([i \in DOMAIN v |-> Magnitude(v[i])])
  IN  Each(Len(v), LAMBDA i : IF v[i] >= 0 THEN mean ELSE -mean)

EncodeResidual(v) ==
  LET base == Reconstruction(v)
  IN  [base |-> SignBits(v), magnitude |-> Magnitude(base[1]),
       residual |-> QuantizeInt8(Each(Len(v), LAMBDA i : v[i] * Len(v) - base[i]))]

(* full_score's reconstruction of one side.                                *)
DecodeResidual(f) ==
  [i \in DOMAIN f.base |->
     LET scale == f.residual.scale
         base  == IF f.base[i] = 1 THEN f.magnitude ELSE -f.magnitude
     IN  <<base * scale[2] + f.residual.codes[i] * scale[1], scale[2] * Len(f.base)>>]
-----------------------------------------------------------------------------
(* SemanticPartitionIndex: `chosen` are the indices the seed picks.        *)
Nearest(v, centroids) ==
  CHOOSE c \in DOMAIN centroids :
    /\ \A o \in DOMAIN centroids : ~Closer(v, centroids[o], centroids[c])
    /\ \A o \in 1..c - 1 : Closer(v, centroids[c], centroids[o])

Assigned(vectors, centroids) == Each(Len(vectors), LAMBDA i : Nearest(vectors[i], centroids))

SumOf(vectors, members) ==
  [d \in DOMAIN vectors[1] |-> Total([i \in DOMAIN members |-> vectors[members[i]][d]])]
MembersOf(assignment, c) == SelectSeq([i \in DOMAIN assignment |-> i], LAMBDA i : assignment[i] = c)

Recentred(vectors, centroids, assignment) ==
  Each(Len(centroids), LAMBDA c :
    IF MembersOf(assignment, c) = <<>> THEN centroids[c]
    ELSE SumOf(vectors, MembersOf(assignment, c)))

BuildPartitions(vectors, chosen, iterations) ==
  LET pass[n \in 0..iterations] ==
        IF n = 0 THEN [centroids |-> [c \in DOMAIN chosen |-> vectors[chosen[c]]],
                       assignment |-> [i \in DOMAIN vectors |-> 1]]
        ELSE LET a == Assigned(vectors, pass[n - 1].centroids)
             IN  [centroids |-> Recentred(vectors, pass[n - 1].centroids, a), assignment |-> a]
      end == pass[iterations]
  IN  [c \in DOMAIN chosen |-> [centroid |-> end.centroids[c],
                                members |-> MembersOf(end.assignment, c)]]

(* search: what the nprobe closest partitions hold, best first.            *)
SearchPartitions(partitions, query, vectors, nprobe, k) ==
  LET order == TopBy(Len(partitions), LAMBDA i, j :
                 Closer(query, partitions[i].centroid, partitions[j].centroid),
                 IF nprobe > 1 THEN nprobe ELSE 1)
      seen  == FlattenSeq([i \in DOMAIN order |-> partitions[order[i]].members])
      best  == TopBy(Len(seen), LAMBDA i, j : Closer(query, vectors[seen[i]], vectors[seen[j]]), k)
  IN  [hits |-> [i \in DOMAIN best |-> seen[best[i]]], scanned |-> Len(seen)]

-----------------------------------------------------------------------------
(* Every encoding decodes to within half a step of what it was made from;  *)
(* the stream of codes comes back for any width and length; a rotation     *)
(* keeps every inner product, and the scaled product of two INT8 vectors   *)
(* is off by no more than their steps allow (tqvec.rs:28-391, flat.rs:58-80). *)
EncodingsAreClose(v, w, signs) ==
  LET int8 == QuantizeInt8(v)
      within(pair, exact, step) ==     \* |pair - exact| <= step / 2
        2 * Magnitude(pair[1] - exact * pair[2]) * step[2] <= step[1] * pair[2]
      residual == EncodeResidual(v)
      other    == QuantizeInt8(w)
      close(dot) ==
        LET mv == int8.scale[1]
            mw == other.scale[1]
        IN  4 * Magnitude(dot[1] - DotOf(v, w) * dot[2])
              <= Total([i \in DOMAIN v |-> 254 * Magnitude(v[i]) * mw + 254 * Magnitude(w[i]) * mv + mv * mw])
  IN  /\ int8.scale[2] = 127 /\ other.scale[2] = 127 => close(Int8Dot(int8, other))
      /\ \A i \in DOMAIN v : within(<<int8.codes[i] * int8.scale[1], int8.scale[2]>>, v[i], int8.scale)
      /\ \A bits \in {4, 5} :
           LET g == EncodeGrouped(v, bits)
               r == EncodeGrouped(RotateVector(v, signs), bits)
           IN  /\ \A i \in DOMAIN v : within(DecodeGrouped(g)[i], v[i], g.scale[i])
               /\ \A i \in DOMAIN v : within(DecodeGrouped(r)[i], RotateVector(v, signs)[i], r.scale[i])
               /\ \A n \in 0..Len(v) :
                    LET codes == [i \in 1..n |-> v[i] % 2^bits]
                    IN  UnpackStream(PackStream(codes, bits), bits, n) = codes
      /\ DotOf(RotateVector(v, signs), RotateVector(w, signs)) = Len(v) * DotOf(v, w)
      /\ \A i \in DOMAIN v :
           within(DecodeResidual(residual)[i], v[i],
                  <<residual.residual.scale[1], residual.residual.scale[2] * Len(v)>>)

(* Probing fewer partitions never scores worse than it must: each vector   *)
(* is in one partition, all partitions are a flat search, the hits are the *)
(* best of what was scanned, and a larger probe loses none of the right    *)
(* ones (adaptive.rs:54-146, flat.rs:120-175).                             *)
PartitionsAreASearch(vectors, chosen, iterations, query, k) ==
  LET partitions == BuildPartitions(vectors, chosen, iterations)
      n          == Len(partitions)
      truth      == SearchFp32(vectors, query, k)
      probe(p)   == SearchPartitions(partitions, query, vectors, p, k)
      tied(i, j) == ~Closer(query, vectors[i], vectors[j]) /\ ~Closer(query, vectors[j], vectors[i])
  IN  /\ \A i \in DOMAIN vectors :
           Cardinality({c \in 1..n : i \in ToSet(partitions[c].members)}) = 1
      /\ probe(n).scanned = Len(vectors) /\ Len(probe(n).hits) = Len(truth)
      /\ \A i \in DOMAIN truth : tied(truth[i], probe(n).hits[i])
      /\ \A p \in 1..n :
           /\ \A i, j \in DOMAIN probe(p).hits :
                i < j => ~Closer(query, vectors[probe(p).hits[j]], vectors[probe(p).hits[i]])
           /\ p < n => /\ probe(p).scanned <= probe(p + 1).scanned
                       /\ \A i \in DOMAIN probe(p).hits :
                            ~Closer(query, vectors[probe(p).hits[i]], vectors[probe(p + 1).hits[i]])
      /\ iterations = 1 => \A c, o \in 1..n : \A i \in ToSet(partitions[c].members) :
           ~Closer(vectors[i], vectors[chosen[o]], vectors[chosen[c]])
=============================================================================
