------------------------------- MODULE Session -------------------------------
(***************************************************************************)
(* src/src/model/qwen36/runtime.rs, Qwen36BoundedReferenceRuntime: a       *)
(* decode session, its snapshots and their restoration, over the KV caches *)
(* of attention.rs and tqkv/mod.rs and the states of gdn.rs.               *)
(*                                                                         *)
(* A session feeds one token at a time through the layers in order.  What  *)
(* a layer computes is left out, what it remembers is not: a gated-delta   *)
(* layer its convolution tail and its recurrence (the tokens it has        *)
(* absorbed, in order), a full-attention layer the keys, rotated to their  *)
(* position, and the values.  Snapshots survive the process; the next one  *)
(* may be configured with another cache and another capacity.              *)
(***************************************************************************)
EXTENDS KvPages

CONSTANTS
  LayerKinds,   \* a sequence over {"gdn", "full"}
  ConvTaps,     \* GDN_CONV_WIDTH - 1
  Texts,        \* what sessions are fed: sequences of tokens (bound)
  KeyOf,        \* KeyOf[token][position]: the rotated key, KvWidth numbers
  ValueOf,      \* ValueOf[token]: the value
  Backends,     \* TQF_TQKV_ENABLED and TQF_TQKV_PRECISION: "bf16", "q8", "q4"
  Capacities,   \* max_context
  MaxSnapshots, \* snapshots in the store (bound)
  MaxRestarts   \* (bound)

ASSUME SessionAssumption ==
  /\ LayerKinds \in Seq({"gdn", "full"})
  /\ Backends \subseteq {"bf16"} \cup Precisions
  /\ Capacities \subseteq Nat \ {0}
  /\ {ConvTaps, MaxSnapshots, MaxRestarts} \subseteq Nat

ASSUME SessionNumbers ==
  \A text \in Texts :
    /\ text \in Seq(ToSet(text))
    /\ \A i \in 1..Len(text) :
         /\ KeyOf[text[i]][i - 1] \in [1..KvHeads * HeadDim -> Int]
         /\ ValueOf[text[i]] \in [1..KvHeads * HeadDim -> Int]

LayerIds   == DOMAIN LayerKinds
Tokens     == UNION {ToSet(text) : text \in Texts}
AttentionLayers == {l \in LayerIds : LayerKinds[l] = "full"}
GdnLayers  == LayerIds \ AttentionLayers

VARIABLES
  backend, capacity,
  kv,           \* per full-attention layer: sealed pages, tail, next page id
  position,     \* per full-attention layer
  conv, rec,    \* per gated-delta layer: the last ConvTaps tokens; all tokens
  nextIndex,
  snapshots,    \* the prefix store: a manifest per token sequence ...
  pageFiles,        \* ... and page files by content id
  history,      \* tokens decoded since the session was empty
  clean,        \* no decode of this session failed half-way (ghost)
  result,       \* what the last operation returned, if it was a restore
  restarts

session == <<kv, position, conv, rec, nextIndex>>
store   == <<snapshots, pageFiles>>
config  == <<backend, capacity>>
sessionVars    == <<session, store, config, history, clean, result, restarts>>

EmptyCache == [sealed |-> <<>>, tail |-> <<>>, nextId |-> 0]
Padding    == [i \in 1..ConvTaps |-> 0]

TailLen(c)   == Len(c.tail)
CacheLen(c)  ==
  LET held[i \in 0..Len(c.sealed)] == IF i = 0 THEN 0 ELSE held[i - 1] + TokenCount(c.sealed[i])
  IN  held[Len(c.sealed)] + TailLen(c)

EmptySession ==
  /\ kv' = [l \in AttentionLayers |-> EmptyCache]
  /\ position' = [l \in AttentionLayers |-> 0]
  /\ conv' = [l \in GdnLayers |-> Padding] /\ rec' = [l \in GdnLayers |-> <<>>]
  /\ nextIndex' = 0 /\ history' = <<>> /\ clean' = TRUE

SessionInit ==
  /\ backend \in Backends /\ capacity \in Capacities
  /\ kv = [l \in AttentionLayers |-> EmptyCache]
  /\ position = [l \in AttentionLayers |-> 0]
  /\ conv = [l \in GdnLayers |-> Padding] /\ rec = [l \in GdnLayers |-> <<>>]
  /\ nextIndex = 0 /\ history = <<>> /\ clean = TRUE
  /\ snapshots = <<>> /\ pageFiles = <<>>
  /\ result = "none" /\ restarts = 0
-----------------------------------------------------------------------------
(* TqkvPagedCache::push, and seal_tail when the tail is a page; the BF16   *)
(* cache only grows.                                                       *)
SealTail(c, layer, precision) ==
  [sealed |-> Append(c.sealed,
                     Seal(c.nextId, layer, CacheLen(c) - TailLen(c),
                          [i \in DOMAIN c.tail |-> c.tail[i].key],
                          [i \in DOMAIN c.tail |-> c.tail[i].value], precision)),
   tail |-> <<>>, nextId |-> c.nextId + 1]

Push(c, layer, key, value) ==
  LET grown == [c EXCEPT !.tail = Append(@, [key |-> key, value |-> value])]
  IN  IF backend # "bf16" /\ TailLen(grown) = PageTokens
      THEN SealTail(grown, layer, backend) ELSE grown

(* ConvTailState::step: the window slides by one token.                    *)
Slide(window, token) == Tail(Append(window, token))

(* decode_step, up to where it fails: in front of a layer, between a       *)
(* gated-delta layer's convolution and its recurrence, after the last      *)
(* layer, or not at all.  A full KV cache fails its layer.  A caller ends  *)
(* with the first error; the next one begins with reset_session or         *)
(* restores.                                                               *)
Stages == {"before", "convolved", "done"}
Beyond == Len(LayerKinds) + 1
Limit  == Smallest({l \in AttentionLayers : CacheLen(kv[l]) = capacity} \cup {Beyond})

Decode(token, layer, stage) ==
  /\ clean /\ layer <= Limit
  /\ \E text \in Texts : IsPrefix(Append(history, token), text)
  /\ stage = "done" => layer = Beyond
  /\ stage = "convolved" => layer \in GdnLayers
  /\ kv' = [l \in AttentionLayers |->
       IF l < layer THEN Push(kv[l], l, KeyOf[token][position[l]], ValueOf[token]) ELSE kv[l]]
  /\ position' = [l \in AttentionLayers |-> position[l] + (IF l < layer THEN 1 ELSE 0)]
  /\ conv' = [l \in GdnLayers |->
       IF l < layer \/ (l = layer /\ stage = "convolved") THEN Slide(conv[l], token) ELSE conv[l]]
  /\ rec' = [l \in GdnLayers |-> IF l < layer THEN Append(rec[l], token) ELSE rec[l]]
  /\ IF stage = "done"
     THEN nextIndex' = nextIndex + 1 /\ history' = Append(history, token) /\ result' = "none"
     ELSE UNCHANGED <<nextIndex, history>> /\ result' = "none"
  /\ clean' = (stage = "done" \/ (layer = 1 /\ stage = "before"))
  /\ UNCHANGED <<store, config, restarts>>

(* reset_session.                                                          *)
Reset ==
  /\ EmptySession
  /\ result' = "none"
  /\ UNCHANGED <<store, config, restarts>>

(* The process ends; another one opens the runtime and finds the store.    *)
Restart(b, c) ==
  /\ restarts < MaxRestarts
  /\ restarts' = restarts + 1
  /\ backend' = b /\ capacity' = c
  /\ EmptySession
  /\ result' = "none"
  /\ UNCHANGED store
-----------------------------------------------------------------------------
(* snapshot_session: a BF16 layer has nothing to capture, a gated-delta    *)
(* layer always has.  A page file is written once for its content id, with *)
(* the header of the page that came first.                                 *)
Capture ==
  [count |-> Len(history),
   full |-> IF backend = "bf16" THEN <<>>
            ELSE [l \in AttentionLayers |->
                    [ids |-> [i \in DOMAIN kv[l].sealed |-> ContentId(kv[l].sealed[i])],
                     tail |-> kv[l].tail, position |-> position[l]]],
   gdn |-> [l \in GdnLayers |-> [conv |-> conv[l], rec |-> rec[l]]]]

PagesHeld == UNION {ToSet(kv[l].sealed) : l \in AttentionLayers}
FirstWith(id) ==
  LET l == Smallest({m \in AttentionLayers : \E p \in ToSet(kv[m].sealed) : ContentId(p) = id})
      i == Smallest({j \in DOMAIN kv[l].sealed : ContentId(kv[l].sealed[j]) = id})
  IN  kv[l].sealed[i]

Snapshot ==
  /\ clean /\ history # <<>>
  /\ history \in DOMAIN snapshots \/ Cardinality(DOMAIN snapshots) < MaxSnapshots
  /\ snapshots' = [h \in DOMAIN snapshots \cup {history} |->
                     IF h = history THEN Capture ELSE snapshots[h]]
  /\ LET new == IF backend = "bf16" THEN {}
                ELSE {ContentId(p) : p \in PagesHeld} \ DOMAIN pageFiles
     IN  pageFiles' = [id \in DOMAIN pageFiles \cup new |->
                     IF id \in new THEN ToBytes(FirstWith(id)) ELSE pageFiles[id]]
  /\ result' = "none"
  /\ UNCHANGED <<session, config, history, clean, restarts>>

(* restore_session.  Reading the snapshot comes first and may fail; then   *)
(* the full-attention layers, where a BF16 layer is an error; then the     *)
(* gated-delta layers; then the decode index.  The capacity is not looked  *)
(* at, and a layer the snapshot does not hold keeps what it has.           *)
RestoreMiss(tokens) ==
  /\ tokens \notin DOMAIN snapshots
  /\ result' = "miss"
  /\ UNCHANGED <<session, store, config, history, clean, restarts>>

RestoreUnreadable(tokens) ==
  /\ tokens \in DOMAIN snapshots
  /\ result' = "unrestored"
  /\ UNCHANGED <<session, store, config, history, clean, restarts>>

(* TqkvPagedCache::restore of what a snapshot holds of a layer.            *)
Reopened(full) ==
  [sealed |-> [i \in DOMAIN full.ids |-> FromBytes(pageFiles[full.ids[i]])],
   tail |-> full.tail, nextId |-> Len(full.ids)]

(* Mutant: the gated-delta layers go first.                                *)
RestoreGdnFirst(tokens) ==
  /\ tokens \in DOMAIN snapshots
  /\ LET s == snapshots[tokens] IN
     /\ conv' = [l \in GdnLayers |-> s.gdn[l].conv] /\ rec' = [l \in GdnLayers |-> s.gdn[l].rec]
     /\ IF backend = "bf16" /\ s.full # <<>>
        THEN result' = "unrestored" /\ UNCHANGED <<kv, position, nextIndex, history, clean>>
        ELSE /\ kv' = [l \in AttentionLayers |->
                  IF l \in DOMAIN s.full THEN Reopened(s.full[l]) ELSE kv[l]]
             /\ position' = [l \in AttentionLayers |->
                  IF l \in DOMAIN s.full THEN s.full[l].position ELSE position[l]]
             /\ nextIndex' = s.count
             /\ history' = tokens /\ clean' = (s.full # <<>>)
             /\ result' = "hit"
  /\ UNCHANGED <<store, config, restarts>>

RestoreHit(tokens) ==
  /\ tokens \in DOMAIN snapshots
  /\ LET s == snapshots[tokens] IN
     IF backend = "bf16" /\ s.full # <<>>
     THEN result' = "unrestored" /\ UNCHANGED <<session, history, clean>>
     ELSE /\ kv' = [l \in AttentionLayers |->
               IF l \in DOMAIN s.full THEN Reopened(s.full[l]) ELSE kv[l]]
          /\ position' = [l \in AttentionLayers |->
               IF l \in DOMAIN s.full THEN s.full[l].position ELSE position[l]]
          /\ conv' = [l \in GdnLayers |-> s.gdn[l].conv]
          /\ rec' = [l \in GdnLayers |-> s.gdn[l].rec]
          /\ nextIndex' = s.count
          /\ history' = tokens /\ clean' = (s.full # <<>>)
          /\ result' = "hit"
  /\ UNCHANGED <<store, config, restarts>>

SessionNext ==
  \/ \E token \in Tokens, layer \in 1..Beyond, stage \in Stages : Decode(token, layer, stage)
  \/ Reset
  \/ \E b \in Backends, c \in Capacities : Restart(b, c)
  \/ Snapshot
  \/ \E tokens \in DOMAIN snapshots \cup {<<>>} :
       RestoreMiss(tokens) \/ RestoreUnreadable(tokens) \/ RestoreHit(tokens)

SessionSpec == SessionInit /\ [][SessionNext]_sessionVars
-----------------------------------------------------------------------------
(* key() and value() of a cache, by token from 0: a sealed page by         *)
(* division, or the tail.  Numbers as <<numerator, denominator>>.          *)
Exact(vector, head) == [d \in 1..HeadDim |-> <<vector[head * HeadDim + d], 1>>]

KeyAt(c, token, head) ==
  LET inPages == CacheLen(c) - TailLen(c)
  IN  IF token < inPages
      THEN DecodeKey(c.sealed[(token \div PageTokens) + 1], token % PageTokens, head)
      ELSE Exact(c.tail[token - inPages + 1].key, head)

ValueAt(c, token, head) ==
  LET inPages == CacheLen(c) - TailLen(c)
  IN  IF token < inPages
      THEN DecodeValue(c.sealed[(token \div PageTokens) + 1], token % PageTokens, head)
      ELSE Exact(c.tail[token - inPages + 1].value, head)

(* A number that was read is within half a quantization step of n, where   *)
(* max is the largest number the scale can have served.  A session may     *)
(* have been sealed under both precisions: the step is the coarser one's.  *)
Near(read, n, max) == 2 * ClampAbs.q4 * Abs(read[1] - n * read[2]) <= max * read[2]

MaxKey(tokens, slot) ==
  Largest({Abs(KeyOf[tokens[i]][i - 1][slot]) : i \in DOMAIN tokens})
MaxValue(token) == Largest({Abs(ValueOf[token][slot]) : slot \in 1..KvWidth})

(* One head of the token at `at`, as it is read.                           *)
IsNear(keys, values, tokens, at, head) ==
  \A d \in 1..HeadDim :
    LET slot == head * HeadDim + d
    IN  /\ Near(keys[d], KeyOf[tokens[at]][at - 1][slot], MaxKey(tokens, slot))
        /\ Near(values[d], ValueOf[tokens[at]][slot], MaxValue(tokens[at]))

Remembers(layer) ==
  LET c == kv[layer] IN
  /\ CacheLen(c) = Len(history) /\ position[layer] = Len(history)
  /\ \A i \in DOMAIN history, head \in 0..(KvHeads - 1) :
       IsNear(KeyAt(c, i - 1, head), ValueAt(c, i - 1, head), history, i, head)

(* The last ConvTaps tokens, behind zeros if there are not as many.        *)
Window(tokens) ==
  [i \in 1..ConvTaps |->
     IF Len(tokens) + i <= ConvTaps THEN 0 ELSE tokens[Len(tokens) - ConvTaps + i]]

ReadyFor ==
  /\ nextIndex = Len(history)
  /\ \A l \in AttentionLayers : Remembers(l)
  /\ \A l \in GdnLayers : rec[l] = history /\ conv[l] = Window(history)

(* A session is its tokens: as long as no decode has failed half-way,      *)
(* however often the session was stored, the process restarted, and the    *)
(* snapshot restored under another precision or capacity, every layer      *)
(* holds the history at its positions: the recurrent states exactly, every *)
(* key and value within half a quantization step of what was computed      *)
(* (attention.rs:431-454, tqkv/mod.rs:816-894).                            *)
SessionIsItsTokens == clean => ReadyFor

(* What of this does not depend on how pages are encoded: the recurrent    *)
(* states, the positions, the decode index (gdn.rs, runtime.rs:620-716).   *)
StatesAreTheHistory ==
  clean =>
    /\ nextIndex = Len(history)
    /\ \A l \in AttentionLayers : position[l] = Len(history)
    /\ \A l \in GdnLayers : rec[l] = history /\ conv[l] = Window(history)

(* Its inductive invariant: the snapshots in the store are as sound as the *)
(* session that is stored or restored.                                     *)
StatesIInv ==
  /\ history \in Seq(Tokens)
  /\ position \in [AttentionLayers -> Nat]
  /\ DOMAIN rec = GdnLayers /\ DOMAIN conv = GdnLayers
  /\ StatesAreTheHistory
  /\ \A tokens \in DOMAIN snapshots :
       LET s == snapshots[tokens] IN
       /\ tokens \in Seq(Tokens) /\ s.count = Len(tokens)
       /\ s.full = <<>> \/ \A l \in AttentionLayers :
                              l \in DOMAIN s.full /\ s.full[l].position = Len(tokens)
       /\ \A l \in GdnLayers : s.gdn[l].rec = tokens /\ s.gdn[l].conv = Window(tokens)

(* The inductive invariant of what depends on it: every page of a session, *)
(* and every page a snapshot refers to, was sealed from a page of the      *)
(* tokens at its place, and a page file is what its content id names.      *)
PageKeeps(p, tokens, base) ==
  \A t \in 1..PageTokens, head \in 0..(KvHeads - 1) :
    IsNear(DecodeKey(p, t - 1, head), DecodeValue(p, t - 1, head), tokens, base + t, head)

Row(tokens, at) == [key |-> KeyOf[tokens[at]][at - 1], value |-> ValueOf[tokens[at]]]

CacheHolds(c, tokens) ==
  LET inPages == Len(c.sealed) * PageTokens IN
  /\ c \in [sealed : Seq(ToSet(c.sealed)), tail : Seq(ToSet(c.tail)), nextId : Nat]
  /\ inPages + Len(c.tail) = Len(tokens)
  /\ \A i \in 1..Len(c.sealed) :
       IsSealed(c.sealed[i]) /\ PageKeeps(c.sealed[i], tokens, (i - 1) * PageTokens)
  /\ \A i \in 1..Len(c.tail) : c.tail[i] = Row(tokens, inPages + i)

HasNumbers(tokens) ==
  \A i \in 1..Len(tokens) :
    KeyOf[tokens[i]][i - 1] \in [1..KvWidth -> Int] /\ ValueOf[tokens[i]] \in [1..KvWidth -> Int]

SessionHolds ==
  /\ backend \in Backends /\ HasNumbers(history)
  /\ clean => \A l \in AttentionLayers :
       CacheHolds(kv[l], history) /\ (backend # "bf16" => TailLen(kv[l]) < PageTokens)

FilesAreTheirIds ==
  \A id \in DOMAIN pageFiles :
    IsSealed(FromBytes(pageFiles[id])) /\ ContentId(FromBytes(pageFiles[id])) = id

SnapshotsHold ==
  \A tokens \in DOMAIN snapshots : LET s == snapshots[tokens] IN
    /\ HasNumbers(tokens)
    /\ s.full # <<>> => \A l \in AttentionLayers :
         /\ ToSet(s.full[l].ids) \subseteq DOMAIN pageFiles
         /\ CacheHolds(Reopened(s.full[l]), tokens) /\ Len(s.full[l].tail) < PageTokens

PagesIInv == SessionHolds /\ FilesAreTheirIds /\ SnapshotsHold

(* A restoration that does not succeed leaves the session alone            *)
(* (runtime.rs:681-716), although it writes layer after layer.             *)
FailedRestoreChangesNothing ==
  [][result' \in {"miss", "unrestored"} => UNCHANGED <<session, history>>]_sessionVars

(* "Returns `true` (and leaves `decode_index` at the snapshot's token      *)
(* count, ready to continue from there) on a hit" (runtime.rs:677-680).    *)
RestoredIsReady == result = "hit" => ReadyFor
=============================================================================
