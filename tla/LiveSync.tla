------------------------------- MODULE LiveSync -------------------------------
(***************************************************************************)
(* Incremental live sync (retrieval/sync.rs): the OS watcher that pushes   *)
(* raw paths into a bounded sink from a thread of its own, the debounce    *)
(* queue, the full correctness walk, and the engine that commits the       *)
(* lexical lane at once and the semantic lane in portions.  The parts are  *)
(* the code's; the loop that joins them is its caller's: drain the sink    *)
(* into the queue, walk when a path is ready or the sink overflowed, apply *)
(* the walk, embed a portion with the texts of the walk applied last.      *)
(*                                                                         *)
(* A vector is the text it was computed from.  Ages replace instants: a    *)
(* queued path is ready when its age reaches Window.  The generation       *)
(* counter, which nothing reads, is left out.  Bound: MaxEdits.            *)
(***************************************************************************)
EXTENDS TqiIndex

CONSTANTS Texts, FirstTree, Capacity, Window, Budget, MaxEdits

ASSUME LiveAssumption == FirstTree \in [AllPaths -> Texts \cup {Absent}]

VARIABLES
  tree, edits,  \* the files and how often they were edited
  reported,     \* paths of events the OS has not delivered yet
  sink,         \* BoundedEventSink.buffer
  overflowed,   \* BoundedEventSink.overflowed
  queue,        \* DebouncedEventQueue.pending: path -> age
  due,          \* the caller decided to walk
  walk,         \* <<>> or <<plan>>: walked and not applied yet
  table,        \* FileTable.entries: path -> hash
  lexical,      \* the index over the live files
  pending,      \* semantic_pending
  vectors,      \* semantic_vectors
  texts         \* the texts of the walk applied last

watcher == <<reported, sink, overflowed, queue, due, walk>>
engine  == <<table, lexical, pending, vectors, texts>>
liveVars    == <<tree, edits, watcher, engine>>

Nothing == [p \in {} |-> <<>>]

LiveInit ==
  /\ tree = FirstTree /\ edits = 0
  /\ reported = {} /\ sink = <<>> /\ overflowed = FALSE /\ queue = Nothing
  /\ due = TRUE /\ walk = <<>>      \* the first walk needs no event
  /\ table = Nothing /\ lexical = BuildLexical(<<>>)
  /\ pending = {} /\ vectors = Nothing /\ texts = Nothing

-----------------------------------------------------------------------------
Edit(path, text) ==
  /\ edits < MaxEdits /\ tree[path] # text
  /\ tree' = [tree EXCEPT ![path] = text]
  /\ edits' = edits + 1
  /\ reported' = reported \cup {path}
  /\ UNCHANGED <<sink, overflowed, queue, due, walk, engine>>

(* LiveWatcher's callback, BoundedEventSink::push: a full sink drops the   *)
(* path and remembers that it did.                                         *)
Push(path) ==
  /\ path \in reported /\ reported' = reported \ {path}
  /\ IF Len(sink) >= Capacity
     THEN overflowed' = TRUE /\ UNCHANGED sink
     ELSE sink' = Append(sink, path) /\ UNCHANGED overflowed
  /\ UNCHANGED <<tree, edits, queue, due, walk, engine>>

(* BoundedEventSink::drain and DebouncedEventQueue::record: a path that is *)
(* queued already starts its window again.                                 *)
Collect ==
  /\ sink # <<>> /\ sink' = <<>>
  /\ queue' = [p \in ToSet(sink) \cup DOMAIN queue |->
                 IF p \in ToSet(sink) THEN 0 ELSE queue[p]]
  /\ UNCHANGED <<tree, edits, reported, overflowed, due, walk, engine>>

Tick ==
  /\ \E p \in DOMAIN queue : queue[p] < Window
  /\ queue' = [p \in DOMAIN queue |-> IF queue[p] < Window THEN queue[p] + 1 ELSE Window]
  /\ UNCHANGED <<tree, edits, reported, sink, overflowed, due, walk, engine>>

(* DebouncedEventQueue::drain_ready, each path once; an overflowed sink is *)
(* never trusted again and calls for a walk whatever is queued.            *)
DrainReady ==
  LET ready == {p \in DOMAIN queue : queue[p] >= Window}
  IN /\ ~due /\ (ready # {} \/ overflowed)
     /\ queue' = [p \in DOMAIN queue \ ready |-> queue[p]]
     /\ due' = TRUE
     /\ UNCHANGED <<tree, edits, reported, sink, overflowed, walk, engine>>

(* full_correctness_walk against the engine's table.                       *)
Walk ==
  /\ due /\ walk = <<>>
  /\ due' = FALSE
  /\ walk' = <<FullCorrectnessWalk(tree, table)>>
  /\ UNCHANGED <<tree, edits, reported, sink, overflowed, queue, engine>>

(* Mutant of ApplyStructuralLexical: a changed file keeps its old vector   *)
(* and does not wait for a new one.                                        *)
ApplyStructuralLexicalStale ==
  LET plan == walk[1]
      fresh == plan.new \cup plan.changed
  IN /\ walk # <<>> /\ walk' = <<>>
     /\ lexical' = BuildLexical(Documents(plan))
     /\ table' = [p \in (DOMAIN table \cup fresh) \ plan.deleted |->
                    IF p \in fresh THEN [hash |-> plan.contents[p]] ELSE table[p]]
     /\ pending' = (pending \cup plan.new) \ plan.deleted
     /\ vectors' = [p \in DOMAIN vectors \ plan.deleted |-> vectors[p]]
     /\ texts' = plan.contents
     /\ UNCHANGED <<tree, edits, reported, sink, overflowed, queue, due>>

(* SyncEngine::apply_structural_lexical: the lexical lane over every live  *)
(* file, the records of what is new or changed, which wait for their       *)
(* vectors and keep the old ones meanwhile; what is gone leaves all of it. *)
ApplyStructuralLexical ==
  LET plan == walk[1]
      fresh == plan.new \cup plan.changed
  IN /\ walk # <<>> /\ walk' = <<>>
     /\ lexical' = BuildLexical(Documents(plan))
     /\ table' = [p \in (DOMAIN table \cup fresh) \ plan.deleted |->
                    IF p \in fresh THEN [hash |-> plan.contents[p]] ELSE table[p]]
     /\ pending' = (pending \cup fresh) \ plan.deleted
     /\ vectors' = [p \in DOMAIN vectors \ plan.deleted |-> vectors[p]]
     /\ texts' = plan.contents
     /\ UNCHANGED <<tree, edits, reported, sink, overflowed, queue, due>>

(* SyncEngine::process_pending_semantic: at most Budget paths, in no       *)
(* particular order; a failing embedding ends it after those before it.    *)
(* A path whose text the caller does not have is given up.                 *)
ProcessPendingSemantic(done) ==
  LET known == done \cap DOMAIN texts
  IN /\ done # {} /\ done \subseteq pending /\ Cardinality(done) <= Budget
     /\ pending' = pending \ done
     /\ vectors' = [p \in known \cup DOMAIN vectors |->
                      IF p \in known THEN texts[p] ELSE vectors[p]]
     /\ UNCHANGED <<tree, edits, watcher, table, lexical, texts>>

LiveNext ==
  \/ \E path \in AllPaths, text \in Texts \cup {Absent} : Edit(path, text)
  \/ \E path \in AllPaths : Push(path)
  \/ Collect \/ Tick \/ DrainReady \/ Walk \/ ApplyStructuralLexical
  \/ \E done \in SUBSET AllPaths : ProcessPendingSemantic(done)

LiveSpec == LiveInit /\ [][LiveNext]_liveVars

-----------------------------------------------------------------------------
(* What the table will hold once the walk in hand is applied.              *)
Recorded(p) ==
  IF walk # <<>> /\ p \in DOMAIN walk[1].contents THEN walk[1].contents[p]
  ELSE IF walk # <<>> /\ p \in walk[1].deleted THEN Absent
  ELSE IF p \in DOMAIN table THEN table[p].hash ELSE Absent

(* "Watcher events are hints": a file that differs from what the engine    *)
(* knows is announced somewhere: by an event under way, in the sink or in  *)
(* the queue, by a walk that is due, or by the overflow that lost it       *)
(* (BoundedEventSink::push, DebouncedEventQueue, full_correctness_walk).   *)
EditIsSeenOrAnnounced ==
  \A p \in AllPaths :
    \/ tree[p] = Recorded(p)
    \/ p \in reported \/ p \in ToSet(sink) \/ p \in DOMAIN queue
    \/ due \/ overflowed

(* Search stays usable and no lane forgets a file: the lexical lane holds  *)
(* exactly the recorded texts, and every recorded file waits for a vector  *)
(* or has the one of its text (apply_structural_lexical,                   *)
(* process_pending_semantic).                                              *)
LanesAgree ==
  /\ {lexical.chunks[i].path : i \in DOMAIN lexical.chunks} = DOMAIN table
  /\ \A p \in DOMAIN table, raw \in Tokens :
       p \in ExactLookup(lexical, raw) <=> raw \in ToSet(table[p].hash)
  /\ DOMAIN vectors \subseteq DOMAIN table
  /\ \A p \in DOMAIN table :
       p \in pending \/ (p \in DOMAIN vectors /\ vectors[p] = table[p].hash)

(* The live engine: no edit goes unnoticed, and the lanes hold the same    *)
(* files (retrieval/sync.rs).                                              *)
WatchIsSound == EditIsSeenOrAnnounced /\ LanesAgree

(* The inductive invariant: the walk in hand is one of some earlier tree   *)
(* against the table of now, and every text of the last one is recorded.   *)
WalkIsCurrent ==
  walk # <<>> =>
    \E found \in [AllPaths -> Texts \cup {Absent}] : walk = <<FullCorrectnessWalk(found, table)>>

TextsAreRecorded ==
  /\ DOMAIN texts = DOMAIN table
  /\ \A p \in DOMAIN table : texts[p] = table[p].hash

LiveIInv ==
  /\ tree \in [AllPaths -> Texts \cup {Absent}] /\ sink \in Seq(AllPaths)
  /\ DOMAIN table \subseteq AllPaths /\ pending \subseteq DOMAIN table
  /\ WalkIsCurrent /\ TextsAreRecorded /\ WatchIsSound
=============================================================================
