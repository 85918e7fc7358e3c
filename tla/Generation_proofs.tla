-------------------------- MODULE Generation_proofs --------------------------
(***************************************************************************)
(* The generation slot, the isolation of sessions and the two channels,    *)
(* for any set of requests, any token budget and any channel capacity; and *)
(* what one stream shows its client, for any vocabulary, stop sequences,   *)
(* maxima and requests.                                                    *)
(*                                                                         *)
(* The client's theorem goes along the pump.  While a stream is open, each *)
(* protocol's client has read the text and the calls of what was said, and *)
(* the Anthropic one stands where the BlockWriter does (ClientsFollow); an *)
(* event, an end or a failure then adds the same to both.  The recursive   *)
(* functions of the model are met by an XInSteps lemma each: the function  *)
(* is any one that takes its steps.                                        *)
(*                                                                         *)
(* The decoder's theorem goes along the text it was fed (DecoderFollows).  *)
(* While it thinks, what it has shown and what it keeps are that text, and *)
(* in the answer the parser, so many calls along, is left with just what   *)
(* the decoder has shown since its last call and what it keeps (Speaks).   *)
(* No mark can still begin in what is shown, because the longest tail that *)
(* may become one is held back (Passed, ReleasedHasPassed).                *)
(***************************************************************************)
EXTENDS Generation, Streaming, Lemmas

USE GenerationAssumption

LEMMA InitInv == Init => IInv
<1> SUFFICES ASSUME Init PROVE IInv
  OBVIOUS
<1> USE DEF Init
<1>1. Shape
  BY DEF Shape, PumpStates
<1>2. QueueIsSound
  <2>1. <<>> \in Seq(Requests) /\ DOMAIN <<>> = {}
    OBVIOUS
  <2>2. ToSet(<<>>) = {} /\ IsInjective(<<>>)
    BY <2>1 DEF ToSet, IsInjective
  <2> QED BY <2>1, <2>2 DEF QueueIsSound
<1>3. SlotAccounted /\ SessionIsolated
  BY DEF SlotAccounted, SessionIsolated, Decoding
<1>4. OrphansAreCancelled /\ NothingLost
  BY DEF OrphansAreCancelled, NothingLost, Running
<1>5. PartsAgree
  BY DEF PartsAgree, Parts, Running, EventsOpen
<1> QED BY <1>1, <1>2, <1>3, <1>4, <1>5 DEF IInv, SlotIsSound, TypeOK

(* One request's step leaves every other request where it stands.          *)
Act(r) == Serve(r) \/ Decode(r) \/ Pump(r) \/ Client(r)

Kept(s) ==
  /\ client'[s] = client[s] /\ (s \in streams' <=> s \in streams)
  /\ s \in cancelled => s \in cancelled'
  /\ task'[s] = task[s] /\ worker'[s] = worker[s] /\ tokens'[s] = tokens[s]
  /\ events'[s] = events[s] /\ pump'[s] = pump[s] /\ body'[s] = body[s]
  /\ emitted'[s] = emitted[s] /\ received'[s] = received[s]

LEMMA OthersKept ==
  ASSUME Shape, NEW r \in Requests, Act(r), NEW s \in Requests, s # r
  PROVE  Kept(s)
<1> USE DEF Shape, Kept, peer, slot, model, wires
<1>1. CASE Serve(r)
  BY <1>1 DEF Serve, Acquire, GiveUp, RejectPrompt, SpawnWorker, FinishTask, Answer
<1>2. CASE Decode(r)
  BY <1>2 DEF Decode, LockRuntime, Prefill, TakeToken, Emit, Step, EmitTail, Return, SendEvent, Leave
<1>3. CASE Pump(r)
  BY <1>3 DEF Pump, PumpStart, PumpReceive, PumpDrained, PumpSend, PumpFinish, PumpAbandon
<1>4. CASE Client(r)
  <2>1. ASSUME NEW stream \in BOOLEAN, Arrive(r, stream) PROVE Kept(s)
    <3>1. CASE stream
      BY <2>1, <3>1 DEF Arrive
    <3>2. CASE ~stream
      BY <2>1, <3>2 DEF Arrive
    <3> QED BY <3>1, <3>2
  <2>2. CASE ClientRead(r)
    BY <2>2 DEF ClientRead
  <2>3. CASE ClientEnd(r)
    BY <2>3 DEF ClientEnd
  <2>4. CASE Disconnect(r)
    BY <2>4 DEF Disconnect
  <2> QED BY <1>4, <2>1, <2>2, <2>3, <2>4 DEF Client
<1> QED BY <1>1, <1>2, <1>3, <1>4 DEF Act

LEMMA ShapeKept ==
  ASSUME Shape, NEW r \in Requests, Act(r)
  PROVE  Shape'
<1> USE DEF Shape, peer, slot, model, wires, PumpStates
<1>1. CASE Serve(r)
  BY <1>1 DEF Serve, Acquire, GiveUp, RejectPrompt, SpawnWorker, FinishTask, Answer
<1>2. CASE Decode(r)
  <2>1. CASE LockRuntime(r)
    BY <2>1 DEF LockRuntime, Leave
  <2>2. CASE Prefill(r)
    BY <2>2 DEF Prefill, Leave
  <2>3. CASE TakeToken(r)
    BY <2>3 DEF TakeToken, Leave, Ends
  <2>4. CASE Step(r)
    BY <2>4 DEF Step, Leave, Ends
  <2>5. CASE Return(r)
    BY <2>5 DEF Return, Leave
  <2>6. ASSUME NEW state, NEW then \in {"step", "leaving"}, SendEvent(r, state, then)
        PROVE  Shape'
    <3>1. CASE r \in streams /\ EventsOpen(r)
      <4>1. events[r] + 1 \in 0..ChannelCap /\ emitted[r] + 1 \in Nat
        BY <2>6, <3>1 DEF SendEvent
      <4> QED BY <2>6, <3>1, <4>1 DEF SendEvent
    <3>2. CASE ~(r \in streams /\ EventsOpen(r))
      BY <2>6, <3>2 DEF SendEvent
    <3> QED BY <3>1, <3>2
  <2> QED BY <1>2, <2>1, <2>2, <2>3, <2>4, <2>5, <2>6 DEF Decode, Emit, EmitTail
<1>3. CASE Pump(r)
  <2>1. CASE PumpStart(r)
    BY <2>1 DEF PumpStart
  <2>2. CASE PumpReceive(r)
    <3>1. events[r] - 1 \in 0..ChannelCap
      BY <2>2 DEF PumpReceive
    <3> QED BY <2>2, <3>1 DEF PumpReceive
  <2>3. CASE PumpDrained(r)
    BY <2>3 DEF PumpDrained
  <2>4. CASE PumpSend(r)
    BY <2>4 DEF PumpSend
  <2>5. CASE PumpFinish(r)
    BY <2>5 DEF PumpFinish
  <2>6. CASE PumpAbandon(r)
    BY <2>6 DEF PumpAbandon
  <2> QED BY <1>3, <2>1, <2>2, <2>3, <2>4, <2>5, <2>6 DEF Pump
<1>4. CASE Client(r)
  <2>1. ASSUME NEW stream \in BOOLEAN, Arrive(r, stream) PROVE Shape'
    BY Zenon, <2>1 DEF Arrive
  <2>2. CASE ClientRead(r)
    <3>1. body[r] - 1 \in 0..ChannelCap /\ received[r] + 1 \in Nat
      BY <2>2 DEF ClientRead
    <3> QED BY <2>2, <3>1 DEF ClientRead
  <2>3. CASE ClientEnd(r)
    BY <2>3 DEF ClientEnd
  <2>4. CASE Disconnect(r)
    BY <2>4 DEF Disconnect
  <2> QED BY <1>4, <2>1, <2>2, <2>3, <2>4 DEF Client
<1> QED BY <1>1, <1>2, <1>3, <1>4 DEF Act

LEMMA QueueKept ==
  ASSUME TypeOK, PartsAgree, NEW r \in Requests, Act(r)
  PROVE  QueueIsSound'
<1>0. DOMAIN task = Requests
  BY DEF TypeOK, Shape, peer
<1>1. queue \in Seq(Requests) /\ IsInjective(queue)
      /\ ToSet(queue) = {s \in Requests : task[s] = "queued"}
  BY DEF TypeOK, QueueIsSound
<1>2. r \in ToSet(queue) <=> task[r] = "queued"
  BY <1>1
<1>3. CASE queue' = Append(queue, r) /\ task' = [task EXCEPT ![r] = "queued"] /\ task[r] = "none"
  <2>1. r \notin ToSet(queue)
    BY <1>2, <1>3
  <2>2. /\ queue' \in Seq(Requests) /\ IsInjective(queue')
        /\ ToSet(queue') = ToSet(queue) \union {r}
    BY <1>1, <1>3, <2>1, AppendKeepsInjective
  <2>3. \A s \in Requests : task'[s] = "queued" <=> task[s] = "queued" \/ s = r
    BY <1>0, <1>3
  <2> QED BY <1>1, <2>2, <2>3 DEF QueueIsSound
<1>4. CASE UNCHANGED queue /\ (task'[r] = "queued" <=> task[r] = "queued")
           /\ \A s \in Requests : s # r => task'[s] = task[s]
  <2>1. \A s \in Requests : task'[s] = "queued" <=> task[s] = "queued"
    BY <1>4
  <2> QED BY <1>1, <1>4, <2>1 DEF QueueIsSound
<1> USE DEF TypeOK, Shape, peer, slot, model, wires
<1>5. CASE /\ LeaveQueue(r)
           /\ \E next \in {"done", "dropped"} : task' = [task EXCEPT ![r] = next]
  <2>1. \A s \in Requests : task'[s] = "queued" <=> task[s] = "queued" /\ s # r
    BY <1>5
  <2>2. ASSUME NEW i \in DOMAIN queue, queue[i] = r, queue' = RemoveAt(queue, i)
        PROVE  QueueIsSound'
    <3>1. /\ queue' \in Seq(Requests) /\ IsInjective(queue')
          /\ ToSet(queue') = ToSet(queue) \ {r}
      BY <1>1, <2>2, RemoveKeepsInjective
    <3> QED BY <1>1, <2>1, <3>1 DEF QueueIsSound
  <2>3. CASE r \notin ToSet(queue) /\ UNCHANGED queue
    BY <1>1, <2>1, <2>3 DEF QueueIsSound
  <2> QED BY <1>5, <2>2, <2>3 DEF LeaveQueue
<1>6. CASE Serve(r)
  <2>1. CASE Acquire(r)
    <3>1. queue # <<>>
      BY <1>1, <1>2, <2>1 DEF Acquire, ToSet
    <3>2. /\ queue' \in Seq(Requests) /\ IsInjective(queue')
          /\ ToSet(queue') = ToSet(queue) \ {r}
      BY <1>1, <2>1, <3>1, TailKeepsInjective DEF Acquire
    <3>3. task' = [task EXCEPT ![r] = "admitted"]
      BY <2>1 DEF Acquire
    <3> QED BY <1>1, <3>2, <3>3 DEF QueueIsSound
  <2>2. CASE GiveUp(r)
    BY <1>5, <2>2 DEF GiveUp
  <2>3. CASE RejectPrompt(r) \/ SpawnWorker(r) \/ FinishTask(r) \/ Answer(r)
    BY <1>4, <2>3 DEF RejectPrompt, SpawnWorker, FinishTask, Answer
  <2> QED BY <1>6, <2>1, <2>2, <2>3 DEF Serve
<1>7. CASE Decode(r)
  <2>1. UNCHANGED slot
    BY <1>7 DEF Decode, LockRuntime, Prefill, TakeToken, Emit, Step, EmitTail, Return, SendEvent
  <2> QED BY <1>4, <2>1
<1>8. CASE Pump(r)
  <2>1. CASE PumpStart(r)
    <3>1. task[r] = "none"
      BY <2>1 DEF PumpStart, PartsAgree, Parts
    <3> QED BY <1>3, <1>4, <2>1, <3>1 DEF PumpStart
  <2>2. CASE ~PumpStart(r)
    <3>1. UNCHANGED slot
      BY <1>8, <2>2 DEF Pump, PumpReceive, PumpDrained, PumpSend, PumpFinish, PumpAbandon
    <3> QED BY <1>4, <3>1
  <2> QED BY <2>1, <2>2
<1>9. CASE Client(r)
  <2>1. ASSUME NEW stream \in BOOLEAN, Arrive(r, stream) PROVE QueueIsSound'
    <3>1. task[r] = "none"
      BY <2>1 DEF Arrive, PartsAgree, Parts
    <3> QED BY <1>3, <1>4, <2>1, <3>1 DEF Arrive
  <2>2. CASE ClientRead(r) \/ ClientEnd(r)
    BY <1>4, <2>2 DEF ClientRead, ClientEnd
  <2>3. CASE Disconnect(r)
    <3>1. CASE r \in streams \/ task[r] = "done"
      <4>1. r \notin streams => r \notin ToSet(queue)
        BY <1>2, <3>1
      <4>2. r \notin streams => UNCHANGED queue
        BY <2>3, <4>1 DEF Disconnect, LeaveQueue, ToSet
      <4>3. \A s \in Requests : task'[s] = task[s]
        BY <2>3, <3>1 DEF Disconnect
      <4>4. UNCHANGED queue
        BY <2>3, <4>2 DEF Disconnect
      <4> QED BY <1>4, <4>3, <4>4
    <3>2. CASE ~(r \in streams \/ task[r] = "done")
      BY <1>5, <2>3, <3>2 DEF Disconnect
    <3> QED BY <3>1, <3>2
  <2> QED BY <1>9, <2>1, <2>2, <2>3 DEF Client
<1> QED BY <1>6, <1>7, <1>8, <1>9 DEF Act

(* What a step makes of the relation between one request's parts.          *)
LEMMA PartsKept ==
  ASSUME IInv, NEW r \in Requests, Act(r)
  PROVE  PartsAgree'
<1>1. Shape /\ PartsAgree /\ SlotAccounted
  BY DEF IInv, SlotIsSound, TypeOK
<1>2. SUFFICES Parts(r)'
  <2>1. ASSUME NEW s \in Requests, s # r PROVE Parts(s)'
    BY <1>1, <2>1, OthersKept DEF PartsAgree, Parts, Kept, Running, EventsOpen
  <2> QED BY <2>1 DEF PartsAgree
<1> USE DEF Shape, Parts, Running, EventsOpen, peer, slot, model, wires
<1>3. Parts(r)
  BY <1>1 DEF PartsAgree
<1>4. CASE Serve(r)
  <2>1. CASE Acquire(r)
    BY <1>1, <1>3, <2>1 DEF Acquire
  <2>2. CASE GiveUp(r)
    BY <1>1, <1>3, <2>2 DEF GiveUp
  <2>3. CASE RejectPrompt(r)
    BY <1>1, <1>3, <2>3 DEF RejectPrompt
  <2>4. CASE SpawnWorker(r)
    BY <1>1, <1>3, <2>4 DEF SpawnWorker
  <2>5. CASE FinishTask(r)
    BY <1>1, <1>3, <2>5 DEF FinishTask
  <2>6. CASE Answer(r)
    BY <1>1, <1>3, <2>6 DEF Answer
  <2> QED BY <1>4, <2>1, <2>2, <2>3, <2>4, <2>5, <2>6 DEF Serve
<1>5. CASE Decode(r)
  <2>1. worker[r] # "none" /\ UNCHANGED <<peer, cancelled, slot, pump, body>>
    BY <1>5 DEF Decode, LockRuntime, Prefill, TakeToken, Emit, Step, EmitTail, Return, SendEvent
  <2>2. \/ UNCHANGED <<events, emitted>>
        \/ EventsOpen(r) /\ emitted' = [emitted EXCEPT ![r] = @ + 1]
    BY <1>5 DEF Decode, LockRuntime, Prefill, TakeToken, Emit, Step, EmitTail, Return, SendEvent
  <2>3. Running(r)
    BY <1>5 DEF Decode, LockRuntime, Prefill, TakeToken, Emit, Step, EmitTail, Return, SendEvent
  <2> QED BY <1>3, <2>1, <2>2, <2>3
<1>6. CASE Pump(r)
  <2>1. CASE PumpStart(r)
    BY <1>1, <1>3, <2>1 DEF PumpStart, BodyOpen
  <2>2. CASE PumpReceive(r)
    BY <1>1, <1>3, <2>2 DEF PumpReceive
  <2>3. CASE PumpDrained(r)
    BY <1>1, <1>3, <2>3 DEF PumpDrained
  <2>4. CASE PumpSend(r)
    BY <1>1, <1>3, <2>4 DEF PumpSend, BodyOpen
  <2>5. CASE PumpFinish(r)
    BY <1>1, <1>3, <2>5 DEF PumpFinish, BodyOpen
  <2>6. CASE PumpAbandon(r)
    BY <1>1, <1>3, <2>6 DEF PumpAbandon, BodyOpen
  <2> QED BY <1>6, <2>1, <2>2, <2>3, <2>4, <2>5, <2>6 DEF Pump
<1>7. CASE Client(r)
  <2>1. ASSUME NEW stream \in BOOLEAN, Arrive(r, stream) PROVE Parts(r)'
    BY <1>1, <1>3, <2>1 DEF Arrive
  <2>2. CASE ClientRead(r)
    BY <1>1, <1>3, <2>2 DEF ClientRead
  <2>3. CASE ClientEnd(r)
    BY <1>1, <1>3, <2>3 DEF ClientEnd
  <2>4. CASE Disconnect(r)
    BY <1>1, <1>3, <2>4 DEF Disconnect
  <2> QED BY <1>7, <2>1, <2>2, <2>3, <2>4 DEF Client
<1> QED BY <1>4, <1>5, <1>6, <1>7 DEF Act

(* The permit: its holder's task is between acquire and return, and only   *)
(* that one.                                                               *)
LEMMA SlotKept ==
  ASSUME IInv, NEW r \in Requests, Act(r)
  PROVE  SlotAccounted'
<1>1. Shape /\ Parts(r) /\ SlotAccounted
  BY DEF IInv, SlotIsSound, TypeOK, PartsAgree
<1>2. \A s \in Requests : s # r => task'[s] = task[s]
  BY <1>1, OthersKept DEF Kept
<1> USE DEF Shape, SlotAccounted, peer, slot, model, wires
<1>3. CASE Serve(r)
  BY <1>1, <1>3 DEF Serve, Acquire, GiveUp, RejectPrompt, SpawnWorker, FinishTask, Answer
<1>4. CASE Decode(r)
  BY <1>1, <1>4 DEF Decode, LockRuntime, Prefill, TakeToken, Emit, Step, EmitTail, Return, SendEvent
<1>5. CASE Pump(r)
  <2>1. UNCHANGED permit /\ (task'[r] = task[r] \/ (task[r] = "none" /\ task'[r] = "queued"))
    BY <1>1, <1>5 DEF Parts, Pump, PumpStart, PumpReceive, PumpDrained, PumpSend, PumpFinish, PumpAbandon
  <2> QED BY <1>1, <1>2, <2>1
<1>6. CASE Client(r)
  <2>1. ASSUME NEW stream \in BOOLEAN, Arrive(r, stream) PROVE SlotAccounted'
    <3>1. UNCHANGED permit /\ task[r] = "none" /\ task'[r] \in {"none", "queued"}
      BY <1>1, <2>1 DEF Parts, Arrive
    <3> QED BY <1>1, <1>2, <3>1
  <2>2. CASE ClientRead(r) \/ ClientEnd(r)
    BY <1>1, <2>2 DEF ClientRead, ClientEnd
  <2>3. CASE Disconnect(r)
    BY <1>1, <1>2, <2>3 DEF Disconnect
  <2> QED BY <1>6, <2>1, <2>2, <2>3 DEF Client
<1> QED BY <1>3, <1>4, <1>5, <1>6 DEF Act

(* The model's session state: whoever decodes has the mutex, took it with  *)
(* an empty session and filled it with its own prompt.                     *)
LEMMA SessionKept ==
  ASSUME IInv, NEW r \in Requests, Act(r)
  PROVE  SessionIsolated'
<1>1. Shape /\ SessionIsolated
  BY DEF IInv, SlotIsSound, TypeOK
<1>2. \A s \in Requests : s # r => worker'[s] = worker[s]
  BY <1>1, OthersKept DEF Kept
<1> USE DEF Shape, SessionIsolated, Decoding, peer, slot, model, wires
<1>3. CASE UNCHANGED model
  BY <1>1, <1>3
<1>4. CASE SpawnWorker(r)
  BY <1>1, <1>2, <1>4 DEF SpawnWorker
<1>5. CASE Decode(r)
  <2>1. CASE LockRuntime(r)
    BY <1>1, <1>2, <2>1 DEF LockRuntime, Leave
  <2>2. CASE Prefill(r)
    <3>1. runtime = r /\ context' = {r} /\ \A s \in Requests : s # r => runtime # s
      BY <1>1, <2>2 DEF Prefill
    <3>2. CASE worker'[r] = "token" /\ runtime' = r
      BY <1>1, <1>2, <3>1, <3>2
    <3>3. CASE Leave(r)
      BY <1>1, <1>2, <3>1, <3>3 DEF Leave
    <3> QED BY <1>1, <2>2, <3>1, <3>2, <3>3 DEF Prefill
  <2>3. CASE Decoding(r) /\ context' = context \union {r}
             /\ (Leave(r) \/ (UNCHANGED runtime /\ Decoding(r)'))
    <3>1. runtime = r /\ context' = {r} /\ \A s \in Requests : s # r => runtime # s
      BY <1>1, <2>3
    <3>2. CASE Leave(r)
      BY <1>1, <1>2, <3>1, <3>2 DEF Leave
    <3>3. CASE UNCHANGED runtime /\ Decoding(r)'
      BY <1>1, <1>2, <3>1, <3>3
    <3> QED BY <2>3, <3>2, <3>3
  <2>4. Decoding(r) => context = {r}
    BY <1>1
  <2>5. CASE TakeToken(r)
    BY <1>1, <2>3, <2>4, <2>5 DEF TakeToken, Ends
  <2>6. CASE Step(r)
    BY <1>1, <2>3, <2>6 DEF Step, Ends
  <2>7. CASE Emit(r) \/ EmitTail(r)
    BY <1>1, <2>3, <2>4, <2>7 DEF Emit, EmitTail, SendEvent
  <2>8. CASE Return(r)
    BY <1>1, <2>3, <2>4, <2>8 DEF Return
  <2> QED BY <1>5, <2>1, <2>2, <2>5, <2>6, <2>7, <2>8 DEF Decode
<1>6. CASE (Serve(r) /\ ~SpawnWorker(r)) \/ Pump(r) \/ Client(r)
  <2>1. UNCHANGED model
    BY <1>6 DEF Serve, Acquire, GiveUp, RejectPrompt, FinishTask, Answer,
                Pump, PumpStart, PumpReceive, PumpDrained, PumpSend, PumpFinish, PumpAbandon,
                Client, Arrive, ClientRead, ClientEnd, Disconnect
  <2> QED BY <1>3, <2>1
<1> QED BY <1>4, <1>5, <1>6 DEF Act

(* A worker without its permit: its request's handler was dropped, which   *)
(* cancelled the session and cannot happen to a stream.                    *)
LEMMA OrphansKept ==
  ASSUME SlotAccounted', PartsAgree', Shape'
  PROVE  OrphansAreCancelled'
BY DEF SlotAccounted, PartsAgree, Parts, Shape, OrphansAreCancelled, Running

(* One stream's events: each step of the decode loop, of the pump and of   *)
(* the client moves one of them along.                                     *)
Lossless(r) ==
  /\ client[r] = "connected" =>
       emitted[r] + (IF pump[r] = "ended" THEN 1 ELSE 0)
         = events[r] + (IF pump[r] = "sending" THEN 1 ELSE 0) + body[r] + received[r]
  /\ client[r] = "served" => received[r] = emitted[r] + 1 /\ ~Running(r)

LEMMA EventsKept ==
  ASSUME IInv, NEW r \in Requests, Act(r)
  PROVE  NothingLost'
<1>1. Shape /\ Parts(r) /\ PartsAgree' /\ \A s \in streams : Lossless(s)
  BY PartsKept DEF IInv, SlotIsSound, TypeOK, PartsAgree, NothingLost, Lossless
<1>2. Shape' /\ Parts(r)'
  BY <1>1, ShapeKept DEF PartsAgree
<1>3. SUFFICES ASSUME r \in streams' PROVE Lossless(r)'
  <2>1. ASSUME NEW s \in Requests, s # r, s \in streams' PROVE Lossless(s)'
    BY <1>1, <2>1, OthersKept DEF Lossless, Kept, Running
  <2> QED BY <1>2, <2>1 DEF NothingLost, Lossless, Shape
<1>4. r \in streams => Lossless(r)
  BY <1>1
<1>5. /\ emitted[r] \in Nat /\ events[r] \in Nat /\ body[r] \in Nat /\ received[r] \in Nat
  BY <1>1 DEF Shape
<1> USE DEF Shape, Lossless, Parts, EventsOpen, peer, slot, model, wires
<1>6. CASE Serve(r)
  <2>1. /\ UNCHANGED <<streams, received, wires>>
        /\ client'[r] = client[r]
        /\ client[r] = "served" => UNCHANGED worker
    BY <1>1, <1>3, <1>6 DEF Serve, Acquire, GiveUp, RejectPrompt, SpawnWorker, FinishTask, Answer
  <2> QED BY <1>1, <1>3, <1>4, <2>1 DEF Running
<1>7. CASE Decode(r)
  <2>1. Running(r) /\ UNCHANGED <<peer, pump, body>>
    BY <1>7 DEF Decode, LockRuntime, Prefill, TakeToken, Emit, Step, EmitTail, Return, SendEvent, Running
  <2>2. CASE UNCHANGED <<events, emitted>>
    BY <1>3, <1>4, <2>1, <2>2
  <2>3. CASE EventsOpen(r) /\ events' = [events EXCEPT ![r] = @ + 1]
             /\ emitted' = [emitted EXCEPT ![r] = @ + 1]
    BY <1>1, <1>3, <1>4, <1>5, <2>1, <2>3
  <2>4. UNCHANGED <<events, emitted>>
        \/ (EventsOpen(r) /\ events' = [events EXCEPT ![r] = @ + 1]
            /\ emitted' = [emitted EXCEPT ![r] = @ + 1])
    BY <1>7 DEF Decode, LockRuntime, Prefill, TakeToken, Emit, Step, EmitTail, Return, SendEvent
  <2> QED BY <2>2, <2>3, <2>4
<1>8. CASE Pump(r)
  <2>1. UNCHANGED <<peer, worker, emitted>>
    BY <1>8 DEF Pump, PumpStart, PumpReceive, PumpDrained, PumpSend, PumpFinish, PumpAbandon
  <2>2. r \in streams /\ UNCHANGED Running(r)
    BY <1>3, <2>1 DEF Running
  <2>3. CASE PumpStart(r)
    BY <1>1, <1>4, <2>1, <2>2, <2>3 DEF PumpStart, BodyOpen
  <2>4. CASE PumpReceive(r)
    BY <1>1, <1>4, <1>5, <2>1, <2>2, <2>4 DEF PumpReceive
  <2>5. CASE PumpDrained(r)
    BY <1>1, <1>4, <2>1, <2>2, <2>5 DEF PumpDrained
  <2>6. CASE PumpSend(r)
    BY <1>1, <1>4, <1>5, <2>1, <2>2, <2>6 DEF PumpSend
  <2>7. CASE PumpFinish(r)
    BY <1>1, <1>4, <1>5, <2>1, <2>2, <2>7 DEF PumpFinish, BodyOpen
  <2>8. CASE PumpAbandon(r)
    BY <1>1, <1>4, <2>1, <2>2, <2>8 DEF PumpAbandon, BodyOpen
  <2> QED BY <1>8, <2>3, <2>4, <2>5, <2>6, <2>7, <2>8 DEF Pump
<1>9. CASE Client(r)
  <2>1. UNCHANGED <<worker, emitted>>
    BY <1>9 DEF Client, Arrive, ClientRead, ClientEnd, Disconnect
  <2>2. ASSUME NEW stream \in BOOLEAN, Arrive(r, stream) PROVE Lossless(r)'
    <3>1. client[r] = "none" /\ stream
      BY <1>1, <1>3, <2>2 DEF Arrive
    <3>2. client'[r] = "connected" /\ pump'[r] = "preamble" /\ UNCHANGED <<emitted, events, body, received>>
      BY <1>1, <2>2, <3>1 DEF Arrive
    <3>3. emitted[r] = 0 /\ events[r] = 0 /\ body[r] = 0 /\ received[r] = 0
      BY <1>1, <3>1
    <3> QED BY <3>2, <3>3
  <2>3. CASE ClientRead(r)
    <3>1. /\ client'[r] = "connected" /\ client[r] = "connected" /\ r \in streams
          /\ body'[r] = body[r] - 1 /\ received'[r] = received[r] + 1
          /\ UNCHANGED <<emitted, events, pump>>
      BY <1>1, <1>3, <2>1, <2>3 DEF ClientRead
    <3> QED BY <1>4, <1>5, <3>1
  <2>4. CASE ClientEnd(r)
    <3>1. ~Running(r) /\ r \in streams
      BY <1>1, <1>3, <2>4 DEF ClientEnd
    <3>2. received[r] = emitted[r] + 1
      BY <1>1, <1>4, <1>5, <2>4, <3>1 DEF ClientEnd
    <3> QED BY <1>1, <2>1, <2>4, <3>1, <3>2 DEF ClientEnd, Running
  <2>5. CASE Disconnect(r)
    BY <1>1, <2>5 DEF Disconnect
  <2> QED BY <1>9, <2>2, <2>3, <2>4, <2>5 DEF Client
<1> QED BY <1>6, <1>7, <1>8, <1>9 DEF Act

LEMMA StepInv == IInv /\ [Next]_vars => IInv'
<1>1. ASSUME IInv, NEW r \in Requests, Act(r) PROVE IInv'
  <2>1. Shape' /\ QueueIsSound'
    BY <1>1, ShapeKept, QueueKept DEF IInv, SlotIsSound, TypeOK
  <2>2. SlotAccounted' /\ SessionIsolated' /\ PartsAgree' /\ NothingLost'
    BY <1>1, SlotKept, SessionKept, PartsKept, EventsKept
  <2>3. OrphansAreCancelled'
    BY <2>1, <2>2, OrphansKept
  <2> QED BY <2>1, <2>2, <2>3 DEF IInv, SlotIsSound, TypeOK
<1>2. ASSUME IInv, UNCHANGED vars PROVE IInv'
  BY <1>2 DEF IInv, SlotIsSound, TypeOK, Shape, QueueIsSound, SlotAccounted, SessionIsolated,
              OrphansAreCancelled, NothingLost, PartsAgree, Parts, Running, Decoding, EventsOpen,
              vars
<1> QED BY <1>1, <1>2 DEF Next, Act

(* Every reachable state keeps the invariant.                              *)
THEOREM Invariance == Spec => []IInv
<1> QED BY InitInv, StepInv, PTL DEF Spec

(* The permit is neither lost nor handed out twice, and a generation never *)
(* sees another one's session (session.rs:70-130, generation.rs), for any  *)
(* number of requests.                                                     *)
THEOREM SlotSoundness == Spec => []SlotIsSound
<1>1. IInv => SlotIsSound
  BY DEF IInv
<1> QED BY <1>1, Invariance, PTL

(* A worker that outlives its permit belongs to a cancelled request that   *)
(* does not stream (stub.rs:88-91).                                        *)
THEOREM OrphanCancellation == Spec => []OrphansAreCancelled
<1>1. IInv => OrphansAreCancelled
  BY DEF IInv
<1> QED BY <1>1, Invariance, PTL

(* No event is lost between decode loop, pump and body, whatever the       *)
(* channels' capacity (generation.rs, sse.rs).                             *)
THEOREM EventConservation == Spec => []NothingLost
<1>1. IInv => NothingLost
  BY DEF IInv
<1> QED BY <1>1, Invariance, PTL

HIDE GenerationAssumption

-----------------------------------------------------------------------------
(* The prompt: what is in the turns of a Render (tokenizer/chat.rs)        *)
(* while its messages are taken one by one.                                *)

(* The turns of a prompt while its messages are rendered.                  *)
Contents(turns) == [i \in 1..Len(turns) |-> turns[i].content]
UpTo(k)         == [i \in 1..k |-> i]
PromptTurns(R)  == [role : R \union {"system", "user"}, content : Seq(Nat)]

LEMMA ContentsAppend ==
  ASSUME NEW R, NEW t \in Seq(PromptTurns(R)), NEW x \in PromptTurns(R)
  PROVE  /\ Contents(t) \in Seq(Seq(Nat))
         /\ Contents(Append(t, x)) = Append(Contents(t), x.content)
<1> DEFINE n == Len(t)
           u == Append(t, x)
<1>1. /\ n \in Nat /\ Len(u) = n + 1 /\ n + 1 \in Nat /\ u \in Seq(PromptTurns(R))
      /\ \A i \in 1..n : u[i] = t[i]
      /\ u[n + 1] = x
      /\ \A i \in 1..n : t[i] \in PromptTurns(R)
  BY LenProperties, AppendProperties
<1> HIDE DEF n, u
<1>2. /\ \A i \in 1..n : t[i].content \in Seq(Nat)
      /\ x.content \in Seq(Nat)
  BY <1>1 DEF PromptTurns
<1>3. /\ Contents(t) \in Seq(Seq(Nat)) /\ Len(Contents(t)) = n
      /\ \A i \in 1..n : Contents(t)[i] = t[i].content
  <2>1. Contents(t) = [i \in 1..n |-> t[i].content]
    BY DEF Contents, n
  <2> DEFINE c == Contents(t)
             S == Seq(Nat)
  <2>2. c = [i \in 1..n |-> c[i]] /\ DOMAIN c = 1..n /\ \A i \in 1..n : c[i] = t[i].content
    <3> HIDE DEF c
    <3> QED BY <2>1 DEF c
  <2>3. \A i \in 1..n : c[i] \in S
    BY <1>2, <2>2
  <2> HIDE DEF c, S
  <2>4. c \in Seq(S) /\ Len(c) = n
    BY <1>1, <2>2, <2>3, FunctionIsSequenceOf
  <2> QED BY <2>2, <2>4 DEF c, S
<1>4. Contents(u) \in Seq(Seq(Nat)) /\ Len(Contents(u)) = n + 1
      /\ \A i \in 1..(n + 1) : Contents(u)[i] = u[i].content
  <2>1. Contents(u) = [i \in 1..(n + 1) |-> u[i].content]
    BY <1>1 DEF Contents
  <2> DEFINE c == Contents(u)
             S == Seq(Nat)
             m == n + 1
  <2>2. c = [i \in 1..m |-> c[i]] /\ DOMAIN c = 1..m /\ \A i \in 1..m : c[i] = u[i].content
    <3> HIDE DEF c
    <3> QED BY <2>1 DEF c
  <2>3. \A i \in 1..m : c[i] \in S
    <3>1. \A i \in 1..m : i \in 1..n \/ i = n + 1
      BY <1>1
    <3> QED BY <1>1, <1>2, <2>2, <3>1
  <2>4. m \in Nat
    BY <1>1
  <2> HIDE DEF c, S, m
  <2>5. c \in Seq(S) /\ Len(c) = m
    BY <2>2, <2>3, <2>4, FunctionIsSequenceOf
  <2> QED BY <2>2, <2>5 DEF c, S, m
<1> DEFINE v == Append(Contents(t), x.content)
<1>5. /\ v \in Seq(Seq(Nat)) /\ Len(v) = n + 1 /\ \A i \in 1..n : v[i] = t[i].content
      /\ v[n + 1] = x.content
  BY <1>2, <1>3, AppendProperties
<1>6. Contents(u) = v
  <2> HIDE DEF v
  <2>1. \A i \in 1..(n + 1) : i \in 1..n \/ i = n + 1
    BY <1>1
  <2>2. \A i \in 1..(n + 1) : Contents(u)[i] = v[i]
    BY <1>1, <1>4, <1>5, <2>1
  <2>3. Len(Contents(u)) = Len(v) /\ \A i \in 1..Len(Contents(u)) : Contents(u)[i] = v[i]
    BY <1>4, <1>5, <2>2
  <2> QED BY <1>4, <1>5, <2>3, SeqEqual
<1> QED BY <1>3, <1>6 DEF u

LEMMA UpToFacts ==
  ASSUME NEW k \in Nat
  PROVE  /\ UpTo(0) = <<>> /\ UpTo(k) \in Seq(Nat)
         /\ UpTo(k) \o <<k + 1>> = UpTo(k + 1)
<1>1. UpTo(0) = <<>>
  BY DEF UpTo
<1>2. ASSUME NEW n \in Nat PROVE UpTo(n) \in Seq(Nat) /\ Len(UpTo(n)) = n /\ \A i \in 1..n : UpTo(n)[i] = i
  <2> DEFINE f == UpTo(n)
  <2>1. DOMAIN f = 1..n /\ f = [i \in 1..n |-> f[i]] /\ \A i \in 1..n : f[i] = i /\ f[i] \in Nat
    BY DEF UpTo
  <2> HIDE DEF f
  <2>2. f \in Seq(Nat) /\ Len(f) = n
    BY <2>1, FunctionIsSequenceOf
  <2> QED BY <2>1, <2>2 DEF f
<1>3. k + 1 \in Nat /\ <<k + 1>> \in Seq(Nat) /\ Len(<<k + 1>>) = 1 /\ <<k + 1>>[1] = k + 1
  OBVIOUS
<1> DEFINE a == UpTo(k) \o <<k + 1>>
           b == UpTo(k + 1)
           one == <<k + 1>>
<1>4. a \in Seq(Nat) /\ Len(a) = k + 1 /\ \A i \in 1..(k + 1) : a[i] = i
  <2>1. UpTo(k) \in Seq(Nat) /\ Len(UpTo(k)) = k /\ \A i \in 1..k : UpTo(k)[i] = i
    BY <1>2
  <2>2. one \in Seq(Nat) /\ Len(one) = 1 /\ one[1] = k + 1
    BY <1>3
  <2>3. a = UpTo(k) \o one
    OBVIOUS
  <2> HIDE DEF one, a
  <2>4. /\ a \in Seq(Nat) /\ Len(a) = k + 1
        /\ \A i \in 1..(k + 1) : a[i] = IF i <= k THEN UpTo(k)[i] ELSE one[i - k]
    <3> DEFINE u == UpTo(k)
    <3>1. u \in Seq(Nat) /\ Len(u) = k /\ a = u \o one
      BY <2>1, <2>3
    <3> HIDE DEF u
    <3>2. /\ u \o one \in Seq(Nat) /\ Len(u \o one) = Len(u) + Len(one)
          /\ \A i \in 1..(Len(u) + Len(one)) : (u \o one)[i] = IF i <= Len(u) THEN u[i] ELSE one[i - Len(u)]
      BY <2>2, <3>1, ConcatProperties
    <3>3. Len(u) + Len(one) = k + 1
      BY <2>2, <3>1
    <3> QED BY <3>1, <3>2, <3>3 DEF u
  <2>5. ASSUME NEW i \in 1..(k + 1) PROVE a[i] = i
    <3>1. i <= k => i \in 1..k
      OBVIOUS
    <3>2. ~(i <= k) => i = k + 1 /\ i - k = 1
      OBVIOUS
    <3> QED BY <2>1, <2>2, <2>4, <3>1, <3>2
  <2> QED BY <2>4, <2>5
<1>5. b \in Seq(Nat) /\ Len(b) = k + 1 /\ \A i \in 1..(k + 1) : b[i] = i
  BY <1>2, <1>3
<1>6. a = b
  <2> HIDE DEF a, b
  <2>1. Len(a) = Len(b) /\ \A i \in 1..Len(a) : a[i] = b[i]
    BY <1>4, <1>5
  <2> QED BY <1>4, <1>5, <2>1, SeqEqual
<1> QED BY <1>1, <1>2, <1>6

(* What holds of a prompt's turns once k messages are rendered.            *)
StartsSystem(messages)         == messages # <<>> /\ messages[1] = "system"
PromptHead(messages, tools)    ==
  IF ~tools THEN <<>>
  ELSE <<Turn("system", IF StartsSystem(messages) THEN <<0, 1>> ELSE <<0>>)>>
FirstRendered(messages, tools) == IF tools /\ StartsSystem(messages) THEN 2 ELSE 1
Preface(tools)                 == IF tools THEN <<0>> ELSE <<>>

InPlace(R, t, tools, k) ==
  /\ t \in Seq(PromptTurns(R))
  /\ FlattenSeq(Contents(t)) = Preface(tools) \o UpTo(k)
Opens(t, messages, tools, k) ==
  /\ k = 0 => t = PromptHead(messages, tools)
  /\ tools => t # <<>> /\ t[1].role = "system"
Closes(t, messages, k) ==
  k > 0 => /\ t # <<>> /\ Last(Last(t).content) = k
           /\ messages[k] = "tool" => Last(t).role = "user"
SystemInFront(t, messages) == \A i \in 2..Len(t) : t[i].role = "system" => ~SystemFirst(messages)
ResultsTogether(t, messages) ==
  \A i \in 1..(Len(t) - 1) : ~(HoldsResults(t[i], messages) /\ HoldsResults(t[i + 1], messages))

SoFar(R, t, messages, tools, k) ==
  /\ InPlace(R, t, tools, k) /\ Opens(t, messages, tools, k) /\ Closes(t, messages, k)
  /\ SystemInFront(t, messages) /\ ResultsTogether(t, messages)

LEMMA AppendedTurn ==
  ASSUME NEW R, NEW t \in Seq(PromptTurns(R)), NEW x \in PromptTurns(R), NEW messages,
         NEW tools \in BOOLEAN
  PROVE  LET u == Append(t, x) IN
         /\ u \in Seq(PromptTurns(R)) /\ u # <<>> /\ Last(u) = x
         /\ tools /\ t # <<>> /\ t[1].role = "system" => u[1].role = "system"
         /\ SystemInFront(t, messages) /\ (t # <<>> /\ x.role = "system" => ~SystemFirst(messages))
              => SystemInFront(u, messages)
         /\ ResultsTogether(t, messages)
              /\ (t # <<>> => ~(HoldsResults(Last(t), messages) /\ HoldsResults(x, messages)))
              => ResultsTogether(u, messages)
<1> DEFINE n == Len(t)
           u == Append(t, x)
<1>1. /\ u \in Seq(PromptTurns(R)) /\ n \in Nat /\ Len(u) = n + 1 /\ u # <<>>
      /\ \A i \in 1..n : u[i] = t[i]
      /\ u[n + 1] = x
      /\ t # <<>> => n \in 1..n
      /\ t = <<>> => n = 0
  BY AppendProperties, LenProperties, EmptySeq
<1> HIDE DEF n, u
<1>2. Last(u) = x
  BY <1>1 DEF Last
<1>3. ASSUME t # <<>>, t[1].role = "system" PROVE u[1].role = "system"
  <2>1. 1 \in 1..n
    BY <1>1, <1>3
  <2> QED BY <1>1, <1>3, <2>1
<1>4. ASSUME SystemInFront(t, messages), t # <<>> /\ x.role = "system" => ~SystemFirst(messages)
      PROVE  SystemInFront(u, messages)
  <2> SUFFICES ASSUME NEW i \in 2..(n + 1), u[i].role = "system" PROVE ~SystemFirst(messages)
    BY <1>1 DEF SystemInFront
  <2>1. CASE i = n + 1
    BY <1>1, <1>4, <2>1
  <2>2. CASE i # n + 1
    <3>1. i \in 2..n /\ i \in 1..n
      BY <1>1, <2>2
    <3>2. t[i].role = "system"
      BY <1>1, <3>1
    <3> QED BY <1>4, <3>1, <3>2 DEF SystemInFront, n
  <2> QED BY <2>1, <2>2
<1>5. ASSUME ResultsTogether(t, messages),
             t # <<>> => ~(HoldsResults(Last(t), messages) /\ HoldsResults(x, messages))
      PROVE  ResultsTogether(u, messages)
  <2> SUFFICES ASSUME NEW i \in 1..n
               PROVE  ~(HoldsResults(u[i], messages) /\ HoldsResults(u[i + 1], messages))
    <3>1. Len(u) - 1 = n
      BY <1>1
    <3> QED BY <3>1 DEF ResultsTogether
  <2>1. CASE i = n
    <3>1. u[i] = Last(t) /\ u[i + 1] = x /\ t # <<>>
      BY <1>1, <2>1 DEF Last, n
    <3> QED BY <1>5, <3>1
  <2>2. CASE i # n
    <3>1. i \in 1..(n - 1) /\ i + 1 \in 1..n
      BY <1>1, <2>2
    <3>2. u[i] = t[i] /\ u[i + 1] = t[i + 1]
      BY <1>1, <3>1
    <3> QED BY <1>5, <3>1, <3>2 DEF ResultsTogether, n
  <2> QED BY <2>1, <2>2
<1> QED BY <1>1, <1>2, <1>3, <1>4, <1>5 DEF u

LEMMA RenderedMessage ==
  ASSUME NEW R, NEW messages \in Seq(R), NEW tools \in BOOLEAN, NEW k \in 1..Len(messages),
         k >= FirstRendered(messages, tools), NEW t, SoFar(R, t, messages, tools, k - 1)
  PROVE  SoFar(R, RenderMessage(t, messages, k), messages, tools, k)
<1> DEFINE n == Len(messages)
<1>1. /\ n \in Nat /\ k \in Nat \ {0} /\ k - 1 \in Nat /\ (k - 1) + 1 = k
      /\ t \in Seq(PromptTurns(R)) /\ messages[k] \in R
      /\ <<k>> \in Seq(Nat) /\ Len(<<k>>) = 1 /\ <<k>>[1] = k /\ <<k>> # <<>>
      /\ k > 0 /\ k # 0
  <2>1. n \in Nat /\ messages[k] \in R
    BY LenProperties
  <2> QED BY <2>1 DEF SoFar, InPlace
<1> HIDE DEF n
<1>2. /\ Last(<<k>>) = k
      /\ Preface(tools) \in Seq(Nat)
      /\ UpTo(k - 1) \in Seq(Nat) /\ UpTo(k - 1) \o <<k>> = UpTo(k)
      /\ FlattenSeq(Contents(t)) \in Seq(Nat)
  <2>1. UpTo(k - 1) \in Seq(Nat) /\ UpTo(k - 1) \o <<k>> = UpTo(k)
    <3>1. UpTo(k - 1) \in Seq(Nat) /\ UpTo(k - 1) \o <<(k - 1) + 1>> = UpTo((k - 1) + 1)
      BY <1>1, UpToFacts
    <3> QED BY <1>1, <3>1
  <2>2. Preface(tools) \in Seq(Nat)
    BY DEF Preface
  <2>3. FlattenSeq(Contents(t)) = Preface(tools) \o UpTo(k - 1)
    BY DEF SoFar, InPlace
  <2>4. Preface(tools) \o UpTo(k - 1) \in Seq(Nat)
    BY <2>1, <2>2, ConcatProperties
  <2> QED BY <1>1, <2>1, <2>2, <2>3, <2>4 DEF Last
<1>3. FlattenSeq(Contents(t)) \o <<k>> = Preface(tools) \o UpTo(k)
  <2>1. FlattenSeq(Contents(t)) = Preface(tools) \o UpTo(k - 1)
    BY DEF SoFar, InPlace
  <2>2. (Preface(tools) \o UpTo(k - 1)) \o <<k>> = Preface(tools) \o (UpTo(k - 1) \o <<k>>)
    <3> DEFINE a == Preface(tools)
               b == UpTo(k - 1)
               one == <<k>>
               V == Nat
    <3>1. a \in Seq(V) /\ b \in Seq(V) /\ one \in Seq(V)
      BY <1>1, <1>2
    <3> HIDE DEF a, b, one, V
    <3>2. (a \o b) \o one = a \o (b \o one)
      BY ONLY <3>1, ConcatAssociative
    <3> QED BY <3>2 DEF a, b, one
  <2> QED BY <1>2, <2>1, <2>2
<1>4. ASSUME messages[k] = "tool", k > 1, messages[k - 1] = "tool"
      PROVE  SoFar(R, RenderMessage(t, messages, k), messages, tools, k)
  <2> DEFINE F == Front(t)
             L == Last(t)
             c == L.content \o <<k>>
             x == Turn("user", c)
             u == Append(F, x)
  <2>1. RenderMessage(t, messages, k) = u
    BY <1>4 DEF RenderMessage
  <2>2. t # <<>> /\ Last(L.content) = k - 1 /\ L.role = "user"
    <3>1. k - 1 > 0
      BY <1>1, <1>4
    <3> QED BY <1>4, <3>1 DEF SoFar, Closes
  <2>3. /\ F \in Seq(PromptTurns(R)) /\ L \in PromptTurns(R) /\ t = Append(F, L)
        /\ Len(F) = Len(t) - 1 /\ \A i \in 1..(Len(t) - 1) : F[i] = t[i]
    BY <1>1, <2>2, FrontAndLast
  <2>4. L.content \in Seq(Nat)
    BY <2>3 DEF PromptTurns
  <2>5. c \in Seq(Nat) /\ Last(c) = k
    <3> DEFINE one == <<k>>
    <3>1. one \in Seq(Nat) /\ Len(one) = 1 /\ one[1] = k
      BY <1>1
    <3> HIDE DEF one
    <3>2. /\ L.content \o one \in Seq(Nat) /\ Len(L.content \o one) = Len(L.content) + Len(one)
          /\ \A i \in 1..(Len(L.content) + Len(one)) :
               (L.content \o one)[i] = IF i <= Len(L.content) THEN L.content[i] ELSE one[i - Len(L.content)]
      BY <2>4, <3>1, ConcatProperties
    <3>3. Len(L.content) \in Nat
      BY <2>4, LenProperties
    <3> DEFINE m == Len(L.content)
    <3> HIDE DEF L, m
    <3>4. m + Len(one) \in 1..(m + Len(one)) /\ ~(m + Len(one) <= m) /\ m + Len(one) - m = 1
      BY <3>1, <3>3 DEF m
    <3>5. (L.content \o one)[m + Len(one)] = k
      BY <3>1, <3>2, <3>4 DEF m
    <3> QED BY <3>2, <3>5 DEF one, Last, m
  <2>6. x \in PromptTurns(R) /\ x.content = c /\ x.role = "user"
    BY <2>5 DEF PromptTurns, Turn
  <2> HIDE DEF F, L, c, x
  <2>7. InPlace(R, u, tools, k)
    <3>1. Contents(u) = Append(Contents(F), c) /\ Contents(t) = Append(Contents(F), L.content)
          /\ Contents(F) \in Seq(Seq(Nat))
      BY <2>3, <2>6, ContentsAppend
    <3>2. /\ FlattenSeq(Contents(u)) = FlattenSeq(Contents(F)) \o c
          /\ FlattenSeq(Contents(t)) = FlattenSeq(Contents(F)) \o L.content
          /\ FlattenSeq(Contents(F)) \in Seq(Nat)
      BY <2>4, <2>5, <3>1, FlattenAppend
    <3>3. FlattenSeq(Contents(F)) \o (L.content \o <<k>>) = (FlattenSeq(Contents(F)) \o L.content) \o <<k>>
      <4> DEFINE a == FlattenSeq(Contents(F))
                 b == L.content
                 one == <<k>>
                 V == Nat
      <4>1. a \in Seq(V) /\ b \in Seq(V) /\ one \in Seq(V)
        BY <1>1, <2>4, <3>2
      <4> HIDE DEF a, b, one, V
      <4>2. (a \o b) \o one = a \o (b \o one)
        BY ONLY <4>1, ConcatAssociative
      <4> QED BY <4>2 DEF a, b, one
    <3>4. u \in Seq(PromptTurns(R))
      BY <2>3, <2>6, AppendProperties
    <3> QED BY <1>3, <3>2, <3>3, <3>4 DEF InPlace, c
  <2>8. HoldsResults(L, messages)
    BY <1>4, <2>2 DEF HoldsResults, L
  <2>9. SystemInFront(F, messages) /\ ResultsTogether(F, messages)
    <3>1. SystemInFront(t, messages) /\ ResultsTogether(t, messages)
      BY DEF SoFar
    <3>2. Len(F) \in Nat /\ Len(t) = Len(F) + 1
      <4>1. Len(F) \in Nat /\ Len(t) \in Nat
        BY <1>1, <2>3, LenProperties
      <4> QED BY <2>3, <4>1
    <3> DEFINE m == Len(F)
    <3>3. m \in Nat /\ Len(t) = m + 1 /\ \A i \in 1..m : F[i] = t[i]
      <4>1. Len(t) - 1 = m
        BY <2>3
      <4> QED BY <2>3, <3>2, <4>1
    <3> HIDE DEF m
    <3>4. \A i \in 2..m : i \in 1..m /\ i \in 2..(m + 1)
      BY <3>3
    <3>5. \A i \in 1..(m - 1) : i \in 1..m /\ i + 1 \in 1..m /\ i \in 1..((m + 1) - 1)
      BY <3>3
    <3>6. SystemInFront(F, messages)
      BY <3>1, <3>3, <3>4 DEF SystemInFront, m
    <3>7. ResultsTogether(F, messages)
      <4> SUFFICES ASSUME NEW i \in 1..(m - 1)
                   PROVE  ~(HoldsResults(F[i], messages) /\ HoldsResults(F[i + 1], messages))
        BY DEF ResultsTogether, m
      <4>1. F[i] = t[i] /\ F[i + 1] = t[i + 1] /\ i \in 1..(Len(t) - 1)
        BY <3>3, <3>5
      <4> QED BY <3>1, <4>1 DEF ResultsTogether
    <3> QED BY <3>6, <3>7
  <2>10. F # <<>> => ~HoldsResults(Last(F), messages)
    <3> SUFFICES ASSUME F # <<>> PROVE ~HoldsResults(Last(F), messages)
      OBVIOUS
    <3> DEFINE m == Len(F)
    <3>1. m \in Nat \ {0} /\ Len(t) = m + 1
      <4>1. Len(F) \in Nat \ {0} /\ Len(t) \in Nat
        BY <1>1, <2>3, LenProperties, EmptySeq
      <4> QED BY <2>3, <4>1
    <3>2. m \in 1..(Len(t) - 1) /\ Last(F) = F[m] /\ F[m] = t[m] /\ t[m + 1] = L
      <4>1. m \in 1..(Len(t) - 1)
        BY <3>1
      <4> QED BY <2>3, <3>1, <4>1 DEF Last, L
    <3>3. ~(HoldsResults(t[m], messages) /\ HoldsResults(t[m + 1], messages))
      BY <3>2 DEF SoFar, ResultsTogether
    <3> QED BY <2>8, <3>2, <3>3
  <2>11. tools => F # <<>> /\ F[1].role = "system"
    <3> SUFFICES ASSUME tools PROVE F # <<>> /\ F[1].role = "system"
      OBVIOUS
    <3>1. t[1].role = "system"
      BY DEF SoFar, Opens
    <3>2. Len(t) \in Nat \ {0} /\ L = t[Len(t)]
      BY <1>1, <2>2, EmptySeq DEF L, Last
    <3>3. Len(t) # 1
      BY <2>2, <3>1, <3>2
    <3>4. 1 \in 1..(Len(t) - 1) /\ Len(F) # 0
      BY <2>3, <3>2, <3>3
    <3>5. F # <<>>
      <4>1. Len(<<>>) = 0
        OBVIOUS
      <4> QED BY <3>4, <4>1
    <3> QED BY <2>3, <3>1, <3>4, <3>5
  <2>12. /\ u # <<>> /\ Last(u) = x
         /\ tools => u[1].role = "system"
         /\ SystemInFront(u, messages) /\ ResultsTogether(u, messages)
    BY <2>3, <2>6, <2>9, <2>10, <2>11, AppendedTurn
  <2>13. Opens(u, messages, tools, k) /\ Closes(u, messages, k)
    BY <1>1, <2>5, <2>6, <2>12 DEF Opens, Closes
  <2> QED BY <2>1, <2>7, <2>12, <2>13 DEF SoFar
<1>5. ASSUME NEW rho \in R \union {"user"},
             RenderMessage(t, messages, k) = Append(t, Turn(rho, <<k>>)),
             messages[k] = "tool" => rho = "user" /\ (k > 1 => messages[k - 1] # "tool"),
             messages[k] # "tool" => rho = messages[k]
      PROVE  SoFar(R, RenderMessage(t, messages, k), messages, tools, k)
  <2> DEFINE x == Turn(rho, <<k>>)
             u == Append(t, x)
  <2>1. x \in PromptTurns(R) /\ x.content = <<k>> /\ x.role = rho
    BY <1>1 DEF PromptTurns, Turn
  <2> HIDE DEF x
  <2>2. InPlace(R, u, tools, k)
    <3>1. Contents(u) = Append(Contents(t), <<k>>) /\ Contents(t) \in Seq(Seq(Nat))
      BY <1>1, <2>1, ContentsAppend
    <3>2. FlattenSeq(Contents(u)) = FlattenSeq(Contents(t)) \o <<k>>
      BY <1>1, <3>1, FlattenAppend
    <3>3. u \in Seq(PromptTurns(R))
      BY <1>1, <2>1, AppendProperties
    <3> QED BY <1>3, <3>2, <3>3 DEF InPlace
  <2>3. t # <<>> /\ rho = "system" => ~SystemFirst(messages)
    <3> SUFFICES ASSUME t # <<>>, rho = "system" PROVE ~SystemFirst(messages)
      OBVIOUS
    <3>1. messages[k] = "system"
      BY <1>5
    <3>2. CASE k > 1
      <4>1. k \in 2..Len(messages)
        BY <3>2
      <4> QED BY <3>1, <4>1 DEF SystemFirst
    <3>3. CASE ~(k > 1)
      <4>1. k = 1
        BY <1>1, <3>3
      <4>2. StartsSystem(messages)
        <5>1. messages # <<>>
          <6>1. Len(<<>>) = 0
            OBVIOUS
          <6> QED BY <1>1, <4>1, <6>1
        <5> QED BY <3>1, <4>1, <5>1 DEF StartsSystem
      <4>3. ~tools
        BY <4>1, <4>2 DEF FirstRendered
      <4>4. t = <<>>
        <5>1. t = PromptHead(messages, tools)
          BY <4>1 DEF SoFar, Opens
        <5> QED BY <4>3, <5>1 DEF PromptHead
      <4> QED BY <4>4
    <3> QED BY <3>2, <3>3
  <2>4. t # <<>> => ~(HoldsResults(Last(t), messages) /\ HoldsResults(x, messages))
    <3> SUFFICES ASSUME t # <<>>, HoldsResults(Last(t), messages), HoldsResults(x, messages) PROVE FALSE
      OBVIOUS
    <3>1. messages[k] = "tool"
      BY <1>2, <2>1 DEF HoldsResults
    <3>2. CASE k > 1
      <4>1. Last(Last(t).content) = k - 1
        <5>1. k - 1 > 0
          BY <1>1, <3>2
        <5> QED BY <5>1 DEF SoFar, Closes
      <4> QED BY <1>5, <3>1, <3>2, <4>1 DEF HoldsResults
    <3>3. CASE ~(k > 1)
      <4>1. t = PromptHead(messages, tools)
        <5>1. k - 1 = 0
          BY <1>1, <3>3
        <5> QED BY <5>1 DEF SoFar, Opens
      <4>2. Last(t).role = "system"
        BY <4>1 DEF PromptHead, Turn, Last
      <4> QED BY <4>2 DEF HoldsResults
    <3> QED BY <3>2, <3>3
  <2>5. tools => t # <<>> /\ t[1].role = "system"
    BY DEF SoFar, Opens
  <2>6. SystemInFront(t, messages) /\ ResultsTogether(t, messages)
    BY DEF SoFar
  <2>7. /\ u # <<>> /\ Last(u) = x
        /\ tools => u[1].role = "system"
        /\ SystemInFront(u, messages) /\ ResultsTogether(u, messages)
    BY <1>1, <2>1, <2>3, <2>4, <2>5, <2>6, AppendedTurn
  <2>8. Opens(u, messages, tools, k) /\ Closes(u, messages, k)
    BY <1>1, <1>2, <1>5, <2>1, <2>7 DEF Opens, Closes
  <2> QED BY <1>5, <2>2, <2>7, <2>8 DEF SoFar, x
<1>6. CASE messages[k] = "tool" /\ ~(k > 1 /\ messages[k - 1] = "tool")
  <2>1. RenderMessage(t, messages, k) = Append(t, Turn("user", <<k>>))
    BY <1>6 DEF RenderMessage
  <2> QED BY <1>5, <1>6, <2>1
<1>7. CASE messages[k] # "tool"
  <2>1. RenderMessage(t, messages, k) = Append(t, Turn(messages[k], <<k>>))
    BY <1>7 DEF RenderMessage
  <2> QED BY <1>1, <1>5, <1>7, <2>1
<1> QED BY <1>4, <1>6, <1>7

LEMMA PromptBegins ==
  ASSUME NEW R, NEW messages \in Seq(R), NEW tools \in BOOLEAN
  PROVE  LET first == FirstRendered(messages, tools)
             head  == PromptHead(messages, tools)
         IN /\ first - 1 \in 0..Len(messages) /\ first \in {1, 2}
            /\ head \in Seq(PromptTurns(R))
            /\ SoFar(R, head, messages, tools, first - 1)
<1> DEFINE first == FirstRendered(messages, tools)
           head  == PromptHead(messages, tools)
<1>1. Len(messages) \in Nat /\ (StartsSystem(messages) => Len(messages) >= 1)
  BY EmptySeq, LenProperties DEF StartsSystem
<1>2. first \in {1, 2} /\ first - 1 \in 0..Len(messages) /\ (first = 2 <=> tools /\ StartsSystem(messages))
  BY <1>1 DEF FirstRendered
<1>3. <<>> \in Seq(PromptTurns(R)) /\ Contents(<<>>) = <<>> /\ <<>> \in Seq(Seq(Nat))
  <2>1. Len(<<>>) = 0 /\ 1..0 = {}
    OBVIOUS
  <2>2. Contents(<<>>) = [i \in {} |-> <<>>[i].content]
    BY <2>1 DEF Contents
  <2>3. [i \in {} |-> <<>>[i].content] = <<>>
    OBVIOUS
  <2>4. <<>> \in Seq(PromptTurns(R)) /\ <<>> \in Seq(Seq(Nat))
    BY EmptySeq
  <2> QED BY ONLY <2>2, <2>3, <2>4
<1>4. FlattenSeq(<<>>) = <<>>
  BY <1>3, EmptySeq, FlattenAppend
<1>5. CASE ~tools
  <2>1. first - 1 = 0 /\ head = <<>> /\ Preface(tools) = <<>>
    BY <1>2, <1>5 DEF PromptHead, Preface
  <2>2. UpTo(0) = <<>> /\ <<>> \o <<>> = <<>>
    <3>1. <<>> \in Seq(Nat) /\ 0 \in Nat
      OBVIOUS
    <3> QED BY <3>1, UpToFacts, ConcatEmptySeq
  <2>3. InPlace(R, <<>>, tools, 0)
    BY <1>3, <1>4, <2>1, <2>2 DEF InPlace
  <2>4. Opens(<<>>, messages, tools, 0) /\ Closes(<<>>, messages, 0)
    BY <1>5, <2>1 DEF Opens, Closes
  <2>5. SystemInFront(<<>>, messages) /\ ResultsTogether(<<>>, messages)
    <3>1. Len(<<>>) = 0 /\ 2..0 = {} /\ 1..(0 - 1) = {}
      OBVIOUS
    <3> QED BY <3>1 DEF SystemInFront, ResultsTogether
  <2> QED BY <1>2, <1>3, <2>1, <2>3, <2>4, <2>5 DEF SoFar
<1>6. CASE tools
  <2> DEFINE c == IF StartsSystem(messages) THEN <<0, 1>> ELSE <<0>>
             x == Turn("system", c)
  <2>1. head = <<x>> /\ Preface(tools) = <<0>>
    BY <1>6 DEF PromptHead, Preface
  <2>2. c \in Seq(Nat) /\ x \in PromptTurns(R) /\ x.content = c /\ x.role = "system"
    BY DEF Turn, PromptTurns
  <2>3. c = Preface(tools) \o UpTo(first - 1)
    <3>1. CASE StartsSystem(messages)
      <4>1. c = <<0, 1>> /\ first - 1 = 1
        <5>1. first = 2 /\ c = <<0, 1>>
          BY <1>2, <1>6, <3>1
        <5> QED BY ONLY <5>1
      <4>2. UpTo(1) = <<1>>
        <5>1. 0 \in Nat /\ 0 + 1 = 1 /\ <<>> \o <<1>> = <<1>>
          OBVIOUS
        <5>2. UpTo(0) = <<>> /\ UpTo(0) \o <<0 + 1>> = UpTo(0 + 1)
          BY <5>1, UpToFacts
        <5> QED BY <5>1, <5>2
      <4>3. <<0>> \o <<1>> = <<0, 1>>
        <5>1. <<0>> \in Seq(Nat) /\ 1 \in Nat
          OBVIOUS
        <5>2. Append(<<0>>, 1) = <<0, 1>>
          <6> DEFINE a == <<0>>
                     b == <<0, 1>>
          <6>1. /\ a \in Seq(Nat) /\ Len(a) = 1 /\ a[1] = 0 /\ b \in Seq(Nat)
                /\ Len(b) = 2 /\ b[1] = 0 /\ b[2] = 1
            OBVIOUS
          <6> HIDE DEF a, b
          <6>2. /\ Append(a, 1) \in Seq(Nat) /\ Len(Append(a, 1)) = Len(a) + 1
                /\ \A i \in 1..Len(a) : Append(a, 1)[i] = a[i]
                /\ Append(a, 1)[Len(a) + 1] = 1
            <7>1. a \in Seq(Nat) /\ 1 \in Nat
              BY <6>1
            <7> QED BY ONLY <7>1, AppendProperties
          <6>3. Len(Append(a, 1)) = Len(b) /\ \A i \in 1..Len(Append(a, 1)) : Append(a, 1)[i] = b[i]
            <7>1. 1 \in 1..1 /\ \A i \in 1..(1 + 1) : i = 1 \/ i = 1 + 1
              OBVIOUS
            <7>2. 1 + 1 = 2
              OBVIOUS
            <7> QED BY <6>1, <6>2, <7>1, <7>2
          <6>4. Append(a, 1) = b
            BY <6>1, <6>2, <6>3, SeqEqual
          <6> QED BY <6>4 DEF a, b
        <5>3. Append(<<0>>, 1) = <<0>> \o <<1>>
          BY <5>1, AppendIsConcat
        <5> QED BY <5>2, <5>3
      <4> QED BY <2>1, <4>1, <4>2, <4>3
    <3>2. CASE ~StartsSystem(messages)
      <4>1. c = <<0>> /\ first - 1 = 0
        BY <1>2, <3>2
      <4>2. UpTo(0) = <<>> /\ <<0>> \o <<>> = <<0>>
        <5>1. <<0>> \in Seq(Nat) /\ 0 \in Nat
          OBVIOUS
        <5> QED BY <5>1, UpToFacts, ConcatEmptySeq
      <4> QED BY <2>1, <4>1, <4>2
    <3> QED BY <3>1, <3>2
  <2>4. StartsSystem(messages) => Last(c) = 1
    BY DEF Last
  <2> HIDE DEF c, x
  <2>5. <<x>> = Append(<<>>, x) /\ Append(<<>>, c) = <<c>> /\ <<>> \o c = c
    BY <2>2, ConcatEmptySeq
  <2>6. Contents(<<x>>) = <<c>>
    BY <1>3, <2>2, <2>5, ContentsAppend
  <2>7. FlattenSeq(<<c>>) = c
    BY <1>3, <1>4, <2>2, <2>5, FlattenAppend
  <2>8. /\ <<x>> \in Seq(PromptTurns(R)) /\ <<x>> # <<>>
        /\ Last(<<x>>) = x /\ <<x>>[1] = x /\ Len(<<x>>) = 1
    BY <2>2 DEF Last
  <2>9. InPlace(R, head, tools, first - 1)
    BY <2>1, <2>3, <2>6, <2>7, <2>8 DEF InPlace
  <2>10. Opens(head, messages, tools, first - 1)
    BY <2>1, <2>2, <2>8 DEF Opens
  <2>11. Closes(head, messages, first - 1)
    <3> SUFFICES ASSUME first - 1 > 0
                 PROVE  /\ head # <<>> /\ Last(Last(head).content) = first - 1
                        /\ messages[first - 1] = "tool" => Last(head).role = "user"
      BY DEF Closes
    <3>1. first = 2 /\ first - 1 = 1 /\ StartsSystem(messages)
      BY <1>2
    <3>2. messages[1] = "system"
      BY <3>1 DEF StartsSystem
    <3> QED BY <2>1, <2>2, <2>4, <2>8, <3>1, <3>2
  <2>12. SystemInFront(head, messages) /\ ResultsTogether(head, messages)
    <3>1. 2..1 = {} /\ 1..(1 - 1) = {}
      OBVIOUS
    <3> QED BY <2>1, <2>8, <3>1 DEF SystemInFront, ResultsTogether
  <2> QED BY <1>2, <2>1, <2>8, <2>9, <2>10, <2>11, <2>12 DEF SoFar
<1> QED BY <1>5, <1>6

(* Render's turns are those of any function that takes its steps.          *)
RendersBy(f, messages, tools) ==
  \A k \in 0..Len(messages) :
    f[k] = IF k < FirstRendered(messages, tools) THEN PromptHead(messages, tools)
           ELSE RenderMessage(f[k - 1], messages, k)

LEMMA RenderedInSteps ==
  ASSUME NEW R, NEW messages \in Seq(R), NEW tools \in BOOLEAN, NEW f,
         f = [k \in 0..Len(messages) |-> f[k]], RendersBy(f, messages, tools)
  PROVE  Render(messages, tools) = Append(f[Len(messages)], Turn("assistant", <<>>))
<1> DEFINE n == Len(messages)
           first == FirstRendered(messages, tools)
           head == PromptHead(messages, tools)
           Solves(g) == g = [k \in 0..n |-> IF k < first THEN head ELSE RenderMessage(g[k - 1], messages, k)]
           g == CHOOSE h : Solves(h)
<1>1. n \in Nat /\ first \in {1, 2}
  BY LenProperties, PromptBegins
<1>2. Solves(f)
  <2>1. \A k \in 0..n : f[k] = IF k < first THEN head ELSE RenderMessage(f[k - 1], messages, k)
    BY DEF RendersBy
  <2> DEFINE value(k) == IF k < first THEN head ELSE RenderMessage(f[k - 1], messages, k)
  <2>2. f = [k \in 0..n |-> value(k)]
    <3> HIDE DEF value, n
    <3>1. \A k \in 0..n : f[k] = value(k)
      BY <2>1 DEF value
    <3>2. f = [k \in 0..n |-> f[k]]
      BY DEF n
    <3> QED BY <3>1, <3>2
  <2> QED BY ONLY <2>2
<1>3. Solves(g)
  <2> HIDE DEF Solves
  <2> QED BY <1>2
<1>4. Render(messages, tools) = Append(g[n], Turn("assistant", <<>>))
  BY DEF Render, PromptHead, FirstRendered, StartsSystem
<1> HIDE DEF g, n, first, head
<1>5. \A k \in 0..n : g[k] = IF k < first THEN head ELSE RenderMessage(g[k - 1], messages, k)
  BY <1>3
<1>6. \A k \in 0..n : f[k] = IF k < first THEN head ELSE RenderMessage(f[k - 1], messages, k)
  BY DEF RendersBy, n, first, head
<1> HIDE DEF Solves
<1>7. f[n] = g[n]
  <2>1. f[0] = g[0]
    <3>1. 0 \in 0..n /\ 0 < first
      BY <1>1
    <3> QED BY <1>5, <1>6, <3>1
  <2>2. ASSUME NEW k \in 1..n, f[k - 1] = g[k - 1] PROVE f[k] = g[k]
    <3>1. k \in 0..n
      BY <1>1
    <3> QED BY <1>5, <1>6, <2>2, <3>1
  <2> QED BY <1>1, <2>1, <2>2, SameSteps
<1> QED BY <1>4, <1>7 DEF n

LEMMA PromptTurnsSoFar ==
  ASSUME NEW R, NEW messages \in Seq(R), NEW tools \in BOOLEAN
  PROVE  \E t : /\ SoFar(R, t, messages, tools, Len(messages))
                /\ Render(messages, tools) = Append(t, Turn("assistant", <<>>))
<1> DEFINE n == Len(messages)
           first == FirstRendered(messages, tools)
           head == PromptHead(messages, tools)
           V == Seq(PromptTurns(R))
           merges(v, i) == messages[i] = "tool" /\ i > 1 /\ messages[i - 1] = "tool"
           step == [i \in 1..n |-> [v \in V |->
                      IF i < first THEN head
                      ELSE IF v = <<>> /\ merges(v, i) THEN <<>> ELSE RenderMessage(v, messages, i)]]
<1>1. /\ n \in Nat /\ first \in {1, 2} /\ first - 1 \in 0..n /\ head \in V
      /\ SoFar(R, head, messages, tools, first - 1)
      /\ \A i \in 1..n : messages[i] \in R
  BY LenProperties, PromptBegins
<1>2. ASSUME NEW i \in 1..n, NEW v \in V
      PROVE  /\ step[i][v] \in V
             /\ step[i][v] = IF i < first THEN head
                             ELSE IF v = <<>> /\ merges(v, i) THEN <<>> ELSE RenderMessage(v, messages, i)
  <2>1. i \in Nat /\ <<i>> \in Seq(Nat) /\ messages[i] \in R
    <3>1. i \in Nat
      BY <1>1
    <3> QED BY <1>1, <3>1
  <2>2. <<>> \in V
    OBVIOUS
  <2>3. RenderMessage(v, messages, i) \in V \/ (v = <<>> /\ merges(v, i))
    <3>1. CASE merges(v, i) /\ v # <<>>
      <4>1. RenderMessage(v, messages, i) = Append(Front(v), Turn("user", Last(v).content \o <<i>>))
        BY <3>1 DEF RenderMessage
      <4>2. Front(v) \in Seq(PromptTurns(R)) /\ Last(v) \in PromptTurns(R)
        BY <3>1, FrontAndLast
      <4>3. Last(v).content \o <<i>> \in Seq(Nat)
        <5>1. Last(v).content \in Seq(Nat)
          BY <4>2 DEF PromptTurns
        <5> QED BY <2>1, <5>1, ConcatProperties
      <4> DEFINE x == Turn("user", Last(v).content \o <<i>>)
      <4>4. x \in PromptTurns(R)
        BY <4>3 DEF PromptTurns, Turn
      <4> HIDE DEF x
      <4>5. Append(Front(v), x) \in Seq(PromptTurns(R))
        BY <4>2, <4>4, AppendProperties
      <4> QED BY <4>1, <4>5 DEF x
    <3>2. CASE ~merges(v, i)
      <4>1. \E rho \in R \union {"user"} : RenderMessage(v, messages, i) = Append(v, Turn(rho, <<i>>))
        BY <2>1, <3>2 DEF RenderMessage
      <4>2. PICK rho \in R \union {"user"} : RenderMessage(v, messages, i) = Append(v, Turn(rho, <<i>>))
        BY <4>1
      <4> DEFINE x == Turn(rho, <<i>>)
      <4>3. x \in PromptTurns(R)
        BY <2>1 DEF PromptTurns, Turn
      <4> HIDE DEF x
      <4>4. Append(v, x) \in Seq(PromptTurns(R))
        BY <4>3, AppendProperties
      <4> QED BY <4>2, <4>4 DEF x
    <3> QED BY <3>1, <3>2
  <2> HIDE DEF V, merges, first, head, n
  <2> QED BY <1>1, <2>2, <2>3
<1> HIDE DEF step
<1>3. PICK f : Repeats(f, n, V, head, step)
  <2> HIDE DEF V, n, head, first
  <2> QED BY <1>1, <1>2, Iterates
<1> HIDE DEF n, first, head
<1>4. /\ f \in [0..n -> V] /\ f[0] = head
      /\ \A i \in 1..n : /\ f[i - 1] \in V /\ f[i] \in V
                         /\ f[i] = IF i < first THEN head
                                   ELSE IF f[i - 1] = <<>> /\ merges(f[i - 1], i) THEN <<>>
                                   ELSE RenderMessage(f[i - 1], messages, i)
  <2>1. \A i \in 1..n : i \in 0..n /\ i - 1 \in 0..n
    BY <1>1
  <2> HIDE DEF V, merges
  <2> QED BY <1>2, <1>3, <2>1 DEF Repeats
<1>5. ASSUME NEW k \in 1..n, k >= first, SoFar(R, f[k - 1], messages, tools, k - 1)
      PROVE  /\ f[k] = RenderMessage(f[k - 1], messages, k)
             /\ SoFar(R, f[k], messages, tools, k)
  <2>1. ~(k < first)
    BY <1>1, <1>5
  <2>2. ~(f[k - 1] = <<>> /\ merges(f[k - 1], k))
    <3>1. k > 1 => k - 1 > 0
      BY <1>1
    <3> QED BY <1>5, <3>1 DEF SoFar, Closes
  <2>3. f[k] = RenderMessage(f[k - 1], messages, k)
    <3> HIDE DEF V, merges
    <3> QED BY <1>4, <2>1, <2>2
  <2>4. SoFar(R, RenderMessage(f[k - 1], messages, k), messages, tools, k)
    BY <1>5, RenderedMessage DEF n, first
  <2> QED BY <2>3, <2>4
<1> DEFINE S == {k \in 0..n : k >= first - 1 => SoFar(R, f[k], messages, tools, k)}
<1>6. 0 \in S
  <2>1. 0 \in 0..n /\ (0 >= first - 1 => first - 1 = 0)
    BY <1>1
  <2> QED BY <1>1, <1>4, <2>1
<1>7. ASSUME NEW k \in 0..(n - 1), k \in S PROVE k + 1 \in S
  <2> SUFFICES ASSUME k + 1 >= first - 1 PROVE SoFar(R, f[k + 1], messages, tools, k + 1)
    BY <1>1
  <2>1. k + 1 \in 1..n /\ (k + 1) - 1 = k
    BY <1>1
  <2>2. CASE k >= first - 1
    <3>1. k + 1 >= first /\ SoFar(R, f[(k + 1) - 1], messages, tools, (k + 1) - 1)
      BY <1>1, <1>7, <2>1, <2>2
    <3> HIDE DEF S
    <3> QED BY <1>5, <2>1, <3>1
  <2>3. CASE ~(k >= first - 1)
    <3>1. k + 1 = first - 1 /\ k + 1 < first
      BY <1>1, <2>3
    <3> HIDE DEF V
    <3>2. f[k + 1] = head
      BY <1>4, <2>1, <3>1
    <3> QED BY <1>1, <3>1, <3>2
  <2> QED BY <2>2, <2>3
<1>8. 0..n \subseteq S
  <2> HIDE DEF S
  <2> QED BY <1>1, <1>6, <1>7, ClimbingTo
<1>9. RendersBy(f, messages, tools)
  <2> SUFFICES ASSUME NEW k \in 0..n
               PROVE  f[k] = IF k < first THEN head ELSE RenderMessage(f[k - 1], messages, k)
    BY DEF RendersBy, n, first, head
  <2>1. CASE k = 0
    <3>1. k < first
      BY <1>1, <2>1
    <3> QED BY <1>4, <2>1, <3>1
  <2>2. CASE k # 0 /\ k < first
    <3>1. k \in 1..n
      BY <1>1, <2>2
    <3> HIDE DEF V
    <3> QED BY <1>4, <2>2, <3>1
  <2>3. CASE ~(k < first)
    <3>1. k \in 1..n /\ k >= first /\ k - 1 \in 0..n /\ k - 1 >= first - 1
      BY <1>1, <2>3
    <3>2. SoFar(R, f[k - 1], messages, tools, k - 1)
      BY <1>8, <3>1
    <3> HIDE DEF S
    <3> QED BY <1>5, <2>3, <3>1, <3>2
  <2> QED BY <2>1, <2>2, <2>3
<1>10. f = [k \in 0..Len(messages) |-> f[k]]
  BY <1>4 DEF n
<1>11. Render(messages, tools) = Append(f[n], Turn("assistant", <<>>))
  BY <1>9, <1>10, RenderedInSteps DEF n
<1>12. SoFar(R, f[n], messages, tools, n)
  <2>1. n \in 0..n /\ n >= first - 1
    BY <1>1
  <2> QED BY <1>8, <2>1
<1> QED BY <1>11, <1>12 DEF n

(* What PromptKeepsMessages says of a prompt.                              *)
PromptIsWhole(messages, tools) ==
  LET turns == Render(messages, tools)
  IN /\ FlattenSeq([i \in 1..Len(turns) |-> turns[i].content])
          = (IF tools THEN <<0>> ELSE <<>>) \o [i \in 1..Len(messages) |-> i]
     /\ \A i \in 1..(Len(turns) - 1) :
          ~(HoldsResults(turns[i], messages) /\ HoldsResults(turns[i + 1], messages))
     /\ Last(turns) = Turn("assistant", <<>>)
     /\ tools => turns[1].role = "system"
     /\ \A i \in 1..Len(turns) : turns[i].role = "system" /\ i > 1 => ~SystemFirst(messages)

LEMMA PromptsAreWhole ==
  ASSUME NEW R, NEW messages \in Seq(R), NEW tools \in BOOLEAN
  PROVE  PromptIsWhole(messages, tools)
<1> DEFINE Q == R \union {"assistant"}
           n == Len(messages)
           x == Turn("assistant", <<>>)
           u == Render(messages, tools)
<1>1. messages \in Seq(Q)
  BY SeqMonotonic
<1>2. PICK t : SoFar(Q, t, messages, tools, n) /\ u = Append(t, x)
  <2> HIDE DEF Q
  <2> QED BY <1>1, PromptTurnsSoFar
<1>3. x \in PromptTurns(Q) /\ x.content = <<>> /\ x.role = "assistant" /\ t \in Seq(PromptTurns(Q))
  BY <1>2 DEF Turn, PromptTurns, SoFar, InPlace
<1> HIDE DEF Q, x, u
<1>4. /\ u # <<>> /\ Last(u) = x /\ u \in Seq(PromptTurns(Q))
      /\ tools => u[1].role = "system"
      /\ SystemInFront(u, messages) /\ ResultsTogether(u, messages)
  <2>1. /\ SystemInFront(t, messages) /\ ResultsTogether(t, messages)
        /\ (tools => t # <<>> /\ t[1].role = "system")
    BY <1>2 DEF SoFar, Opens
  <2>2. ~HoldsResults(x, messages)
    BY <1>3 DEF HoldsResults
  <2> QED BY <1>2, <1>3, <2>1, <2>2, AppendedTurn
<1>5. FlattenSeq(Contents(u)) = Preface(tools) \o UpTo(n)
  <2>1. /\ Contents(u) = Append(Contents(t), <<>>) /\ Contents(t) \in Seq(Seq(Nat))
        /\ <<>> \in Seq(Nat)
    BY <1>2, <1>3, ContentsAppend
  <2>2. /\ FlattenSeq(Contents(u)) = FlattenSeq(Contents(t)) \o <<>>
        /\ FlattenSeq(Contents(t)) \in Seq(Nat)
    BY <2>1, FlattenAppend
  <2>3. FlattenSeq(Contents(t)) \o <<>> = FlattenSeq(Contents(t))
    BY <2>2, ConcatEmptySeq
  <2> QED BY <1>2, <2>2, <2>3 DEF SoFar, InPlace
<1>6. \A i \in 1..Len(u) : u[i].role = "system" /\ i > 1 => ~SystemFirst(messages)
  <2>1. \A i \in 1..Len(u) : i > 1 => i \in 2..Len(u)
    OBVIOUS
  <2> QED BY <1>4, <2>1 DEF SystemInFront
<1> QED BY <1>4, <1>5, <1>6 DEF PromptIsWhole, Contents, Preface, UpTo, ResultsTogether, u, x, n

-----------------------------------------------------------------------------
(* The frames, and what a client makes of them (Adapters.Read).            *)

(* The frames a client can make something of.                              *)
FrameTypes ==
  {"role", "delta", "finish", "error", "[DONE]", "response.created", "response.output_text.done",
   "response.completed", "message_start", "content_block_start", "content_block_delta",
   "content_block_stop", "message_delta", "message_stop", "line", "done"}
Frames ==
  {f \in [type : FrameTypes, index : Nat, kind : {"none", "text", "reasoning", "tool"} \union Reasons,
          text : Texts \union Seq(Texts)] :
     /\ f.kind \in {"text", "tool"} => f.text \in Texts
     /\ f.type = "done" => f.text \in Seq(Texts) /\ f.kind # "tool"
     /\ f.type = "content_block_start" => f.kind \in {"text", "reasoning", "tool"}
     /\ f.type \in {"finish", "response.completed", "message_delta", "done"} => f.kind \in Reasons}

LEMMA ReadIsTyped ==
  ASSUME NEW p \in Protocols, NEW c \in Readers, NEW f \in Frames
  PROVE  Read(p, c, f) \in Readers
<1> DEFINE r == Read(p, c, f)
<1>0. c \in [over : BOOLEAN, open : {"none", "text", "reasoning", "tool"}, index : Nat, started : BOOLEAN,
            text : Texts, tools : Seq(Texts), reason : Reasons, fits : BOOLEAN]
  BY DEF Readers
<1>1. /\ r.text = (IF f.kind = "text" THEN c.text \o f.text ELSE c.text)
      /\ r.tools = (CASE f.kind = "tool" /\ f.text # <<>> -> Append(c.tools, f.text)
                      [] f.type = "done" -> f.text
                      [] OTHER -> c.tools)
      /\ r.index = (IF f.type = "content_block_stop" THEN c.index + 1 ELSE c.index)
      /\ r.open = (CASE f.type = "content_block_start" -> f.kind
                     [] f.type = "content_block_stop" -> "none"
                     [] OTHER -> c.open)
      /\ r.reason = (IF f.type \in {"finish", "response.completed", "message_delta", "done"} THEN f.kind
                     ELSE c.reason)
      /\ r = [over |-> r.over, open |-> r.open, index |-> r.index, started |-> r.started,
              text |-> r.text, tools |-> r.tools, reason |-> r.reason, fits |-> r.fits]
      /\ r.over \in BOOLEAN /\ r.fits \in BOOLEAN /\ r.started \in BOOLEAN
  <2> DEFINE fits == c.fits /\ Fits(p, c, f)
             over == c.over \/ f.type \in Terminal(p)
             text == IF f.kind = "text" THEN c.text \o f.text ELSE c.text
             tools == CASE f.kind = "tool" /\ f.text # <<>> -> Append(c.tools, f.text)
                        [] f.type = "done" -> f.text
                        [] OTHER -> c.tools
             index == IF f.type = "content_block_stop" THEN c.index + 1 ELSE c.index
             open == CASE f.type = "content_block_start" -> f.kind
                       [] f.type = "content_block_stop" -> "none"
                       [] OTHER -> c.open
             reason == IF f.type \in {"finish", "response.completed", "message_delta", "done"} THEN f.kind
                       ELSE c.reason
  <2>1. r = [c EXCEPT !.fits = fits, !.over = over, !.started = TRUE, !.open = open, !.index = index,
                      !.text = text, !.tools = tools, !.reason = reason]
    BY DEF Read
  <2>2. fits \in BOOLEAN /\ over \in BOOLEAN
    OBVIOUS
  <2> HIDE DEF r, fits, over, text, tools, index, open, reason
  <2>3. r = [over |-> over, open |-> open, index |-> index, started |-> TRUE,
             text |-> text, tools |-> tools, reason |-> reason, fits |-> fits]
    BY <1>0, <2>1
  <2>4. /\ r.text = text /\ r.tools = tools /\ r.index = index /\ r.open = open /\ r.reason = reason
        /\ r = [over |-> r.over, open |-> r.open, index |-> r.index, started |-> r.started,
                text |-> r.text, tools |-> r.tools, reason |-> r.reason, fits |-> r.fits]
        /\ r.over \in BOOLEAN /\ r.fits \in BOOLEAN /\ r.started \in BOOLEAN
    BY <2>2, <2>3
  <2> QED BY <2>4 DEF text, tools, index, open, reason
<1>2. /\ c.text \in Texts /\ c.tools \in Seq(Texts) /\ c.index \in Nat /\ c.reason \in Reasons
      /\ c.open \in {"none", "text", "reasoning", "tool"}
  BY DEF Readers
<1>3. /\ f.kind \in {"text", "tool"} => f.text \in Texts
      /\ f.type = "done" => f.text \in Seq(Texts) /\ f.kind # "tool"
      /\ f.type = "content_block_start" => f.kind \in {"text", "reasoning", "tool"}
      /\ f.type \in {"finish", "response.completed", "message_delta", "done"} => f.kind \in Reasons
  BY DEF Frames
<1> HIDE DEF r
<1>4. r.text \in Texts
  <2>1. f.kind = "text" => c.text \o f.text \in Texts
    BY <1>2, <1>3, ConcatProperties DEF Texts
  <2> QED BY <1>1, <1>2, <2>1
<1>5. r.tools \in Seq(Texts)
  <2>1. f.kind = "tool" => Append(c.tools, f.text) \in Seq(Texts)
    BY <1>2, <1>3, AppendProperties
  <2> QED BY <1>1, <1>2, <1>3, <2>1
<1>6. r.index \in Nat /\ r.open \in {"none", "text", "reasoning", "tool"} /\ r.reason \in Reasons
  BY <1>1, <1>2, <1>3
<1> QED BY <1>1, <1>4, <1>5, <1>6 DEF Readers, r

(* A client that reads one frame after another.                            *)
ReadsBy(f, p, c, frames) ==
  /\ f[0] = c
  /\ \A k \in 1..Len(frames) : f[k] = Read(p, f[k - 1], frames[k])

LEMMA ReadInSteps ==
  ASSUME NEW p, NEW c, NEW frames \in Seq(Frames), NEW f,
         f = [k \in 0..Len(frames) |-> f[k]], ReadsBy(f, p, c, frames)
  PROVE  ReadAll(p, c, frames) = f[Len(frames)]
<1> DEFINE n == Len(frames)
           value(h, k) == IF k = 0 THEN c ELSE Read(p, h[k - 1], frames[k])
           Solves(h) == h = [k \in 0..n |-> IF k = 0 THEN c ELSE Read(p, h[k - 1], frames[k])]
           g == CHOOSE h : Solves(h)
<1>1. n \in Nat /\ \A k \in 0..n : k # 0 => k \in 1..n
  BY LenProperties
<1>2. Solves(f)
  <2> HIDE DEF n
  <2>1. \A k \in 0..n : f[k] = value(f, k)
    BY <1>1 DEF ReadsBy, n
  <2>2. f = [k \in 0..n |-> value(f, k)]
    <3> HIDE DEF value
    <3>1. f = [k \in 0..n |-> f[k]]
      BY DEF n
    <3> QED BY <2>1, <3>1
  <2> QED BY ONLY <2>2
<1>3. Solves(g)
  <2> HIDE DEF Solves
  <2> QED BY <1>2
<1>4. ReadAll(p, c, frames) = g[n]
  BY DEF ReadAll
<1> HIDE DEF g, n
<1>5. /\ g[0] = c /\ f[0] = c
      /\ \A k \in 1..n : g[k] = Read(p, g[k - 1], frames[k]) /\ f[k] = Read(p, f[k - 1], frames[k])
  <2>1. 0 \in 0..n /\ \A k \in 1..n : k \in 0..n /\ k # 0
    BY <1>1
  <2> QED BY <1>3, <2>1 DEF ReadsBy, n
<1> HIDE DEF Solves
<1>6. f[n] = g[n]
  <2>1. \A k \in 1..n : f[k - 1] = g[k - 1] => f[k] = g[k]
    BY <1>5
  <2>2. f[0] = g[0]
    BY <1>5
  <2> QED BY <1>1, <2>1, <2>2, SameSteps
<1> QED BY <1>4, <1>6 DEF n

LEMMA ReadAppend ==
  ASSUME NEW p \in Protocols, NEW c \in Readers, NEW s \in Seq(Frames), NEW e \in Frames
  PROVE  /\ ReadAll(p, c, <<>>) = c
         /\ ReadAll(p, c, s) \in Readers
         /\ ReadAll(p, c, Append(s, e)) = Read(p, ReadAll(p, c, s), e)
<1> DEFINE n == Len(s)
           t == Append(s, e)
           step == [i \in 1..(n + 1) |-> [v \in Readers |-> Read(p, v, t[i])]]
<1>1. /\ n \in Nat /\ t \in Seq(Frames) /\ Len(t) = n + 1 /\ n + 1 \in Nat /\ n + 1 \in 1..(n + 1)
      /\ \A i \in 1..n : t[i] = s[i]
      /\ t[n + 1] = e /\ (n + 1) - 1 = n /\ n \in 0..(n + 1)
      /\ \A i \in 1..(n + 1) : i - 1 \in 0..(n + 1)
      /\ \A i \in 0..n : i \in 0..(n + 1)
      /\ \A i \in 1..n : i \in 1..(n + 1) /\ i - 1 \in 0..n /\ i \in 0..n
      /\ n \in 0..n /\ 0 \in 0..n
  BY LenProperties, AppendProperties
<1> HIDE DEF t
<1>2. \A i \in 1..(n + 1), v \in Readers : step[i][v] = Read(p, v, t[i]) /\ step[i][v] \in Readers
  <2> SUFFICES ASSUME NEW i \in 1..(n + 1), NEW v \in Readers PROVE Read(p, v, t[i]) \in Readers
    OBVIOUS
  <2>1. t[i] \in Frames
    <3> HIDE DEF n
    <3> QED BY <1>1, ElementOfSeq
  <2> QED BY <2>1, ReadIsTyped
<1> HIDE DEF step, n
<1>3. PICK f : Repeats(f, n + 1, Readers, c, step)
  BY <1>1, <1>2, Iterates
<1>4. /\ f \in [0..(n + 1) -> Readers] /\ f[0] = c
      /\ \A i \in 1..(n + 1) : f[i] = Read(p, f[i - 1], t[i])
  BY <1>1, <1>2, <1>3 DEF Repeats
<1>5. ReadAll(p, c, t) = f[n + 1]
  <2>1. ReadsBy(f, p, c, t)
    BY <1>1, <1>4 DEF ReadsBy
  <2>2. f = [k \in 0..Len(t) |-> f[k]]
    BY <1>1, <1>4
  <2> QED BY <1>1, <2>1, <2>2, ReadInSteps
<1> DEFINE g == [i \in 0..n |-> f[i]]
<1>6. ReadAll(p, c, s) = g[n]
  <2>1. g[0] = c /\ \A i \in 1..n : g[i] = Read(p, g[i - 1], s[i])
    <3>1. \A i \in 0..n : g[i] = f[i]
      OBVIOUS
    <3> HIDE DEF g
    <3> QED BY <1>1, <1>4, <3>1
  <2>2. g = [k \in 0..n |-> g[k]]
    OBVIOUS
  <2> HIDE DEF g
  <2>3. ReadsBy(g, p, c, s)
    BY <2>1 DEF ReadsBy, n
  <2> QED BY <2>2, <2>3, ReadInSteps DEF n
<1>7. g[n] = f[n] /\ f[n] \in Readers
  BY <1>1, <1>4
<1>8. ReadAll(p, c, <<>>) = c
  <2> DEFINE h == [k \in 0..0 |-> c]
  <2>1. <<>> \in Seq(Frames) /\ Len(<<>>) = 0 /\ h[0] = c
    OBVIOUS
  <2>2. h = [k \in 0..0 |-> h[k]] /\ \A k \in 1..0 : FALSE
    OBVIOUS
  <2> HIDE DEF h
  <2>3. ReadsBy(h, p, c, <<>>) /\ h = [k \in 0..Len(<<>>) |-> h[k]]
    BY <2>1, <2>2 DEF ReadsBy
  <2>4. ReadAll(p, c, <<>>) = h[Len(<<>>)]
    BY <2>1, <2>3, ReadInSteps
  <2> QED BY <2>1, <2>4
<1> HIDE DEF g
<1> QED BY <1>1, <1>4, <1>5, <1>6, <1>7, <1>8 DEF t

LEMMA ReadOne ==
  ASSUME NEW p \in Protocols, NEW c \in Readers, NEW e \in Frames
  PROVE  ReadAll(p, c, <<>>) = c /\ ReadAll(p, c, <<e>>) = Read(p, c, e) /\ Read(p, c, e) \in Readers
<1>1. <<>> \in Seq(Frames)
  OBVIOUS
<1>2. Append(<<>>, e) = <<e>>
  OBVIOUS
<1>3. ReadAll(p, c, <<>>) = c /\ ReadAll(p, c, Append(<<>>, e)) = Read(p, ReadAll(p, c, <<>>), e)
  BY <1>1, ReadAppend
<1> QED BY <1>2, <1>3, ReadIsTyped

LEMMA ReadConcat ==
  ASSUME NEW p \in Protocols, NEW c \in Readers, NEW s \in Seq(Frames), NEW t \in Seq(Frames)
  PROVE  /\ s \o t \in Seq(Frames) /\ ReadAll(p, c, s) \in Readers
         /\ ReadAll(p, c, s \o t) = ReadAll(p, ReadAll(p, c, s), t)
<1> DEFINE B == {u \in Seq(Frames) : ReadAll(p, c, s \o u) = ReadAll(p, ReadAll(p, c, s), u)}
<1>0. \E e \in Frames : TRUE
  <2> DEFINE e == Frame("role", 0, "none", <<>>)
  <2>1. e \in Frames
    BY EmptySeq DEF Frames, Frame, FrameTypes, Texts
  <2> QED BY <2>1
<1>1. ReadAll(p, c, s) \in Readers
  BY <1>0, ReadAppend
<1>2. <<>> \in B
  <2>1. s \o <<>> = s
    BY ConcatEmptySeq
  <2>2. ReadAll(p, ReadAll(p, c, s), <<>>) = ReadAll(p, c, s)
    BY <1>0, <1>1, ReadOne
  <2> QED BY <2>1, <2>2
<1>3. ASSUME NEW u \in Seq(Frames), NEW e \in Frames, u \in B PROVE Append(u, e) \in B
  <2>1. s \o u \in Seq(Frames)
    BY ConcatProperties
  <2>2. s \o Append(u, e) = Append(s \o u, e)
    <3>1. /\ Append(u, e) = u \o <<e>> /\ Append(s \o u, e) = (s \o u) \o <<e>>
          /\ <<e>> \in Seq(Frames)
      BY <2>1, AppendIsConcat
    <3>2. (s \o u) \o <<e>> = s \o (u \o <<e>>)
      BY ONLY <3>1, ConcatAssociative
    <3> QED BY <3>1, <3>2
  <2>3. Append(u, e) \in Seq(Frames)
    BY AppendProperties
  <2>4. ReadAll(p, c, Append(s \o u, e)) = Read(p, ReadAll(p, c, s \o u), e)
    BY Zenon, <2>1, ReadAppend
  <2>5. ReadAll(p, ReadAll(p, c, s), Append(u, e)) = Read(p, ReadAll(p, ReadAll(p, c, s), u), e)
    BY <1>1, ReadAppend
  <2> QED BY <1>3, <2>2, <2>3, <2>4, <2>5
<1>4. t \in B
  <2> HIDE DEF B
  <2> QED BY <1>2, <1>3, ClimbingSequences
<1>5. s \o t \in Seq(Frames)
  BY ConcatProperties
<1> QED BY <1>1, <1>4, <1>5

-----------------------------------------------------------------------------
(* What events say: their text and their tool calls, of one event, of      *)
(* events in a row and of events run together.                             *)

LEMMA TextsRegroup ==
  ASSUME NEW a \in Texts, NEW b \in Texts, NEW c \in Texts
  PROVE  (a \o b) \o c = a \o (b \o c)
BY ConcatAssociative DEF Texts

LEMMA CallsRegroup ==
  ASSUME NEW a \in Seq(Texts), NEW b \in Seq(Texts), NEW c \in Seq(Texts)
  PROVE  (a \o b) \o c = a \o (b \o c)
BY ConcatAssociative

LEMMA NothingAdded ==
  ASSUME NEW a \in Texts, NEW b \in Seq(Texts)
  PROVE  a \o <<>> = a /\ b \o <<>> = b
BY ConcatEmptySeq DEF Texts

(* The text and the tool calls of events.                                  *)
Text1  == [e \in Events |-> IF e.kind = "text" THEN e.text ELSE <<>>]
Calls1 == [e \in Events |-> IF e.kind = "tool" THEN <<e.text>> ELSE <<>>]

LEMMA EventFields ==
  ASSUME NEW e \in Events
  PROVE  /\ e.kind \in {"text", "reasoning", "tool"} /\ e.text \in Texts
         /\ e.kind = "tool" => e.text # <<>>
         /\ Text1[e] \in Texts /\ Calls1[e] \in Seq(Texts)
<1>1. /\ e.kind \in {"text", "reasoning", "tool"} /\ e.text \in Texts
      /\ e.kind = "tool" => e.text # <<>>
  BY DEF Events
<1>2. <<>> \in Texts
  BY EmptySeq DEF Texts
<1>3. <<>> \in Seq(Texts) /\ <<e.text>> \in Seq(Texts)
  BY <1>1
<1>4. Text1[e] = (IF e.kind = "text" THEN e.text ELSE <<>>)
      /\ Calls1[e] = (IF e.kind = "tool" THEN <<e.text>> ELSE <<>>)
  BY DEF Text1, Calls1
<1> QED BY <1>1, <1>2, <1>3, <1>4

LEMMA OfEvents ==
  ASSUME NEW s \in Seq(Events)
  PROVE  /\ TextOf(s) = FlattenSeq(Mapped(Text1, s))
         /\ CallsOf(s) = FlattenSeq(Mapped(Calls1, s))
<1>1. \A i \in 1..Len(s) : s[i] \in Events
  BY LenProperties
<1>2. \A i \in 1..Len(s) : /\ Text1[s[i]] = (IF s[i].kind = "text" THEN s[i].text ELSE <<>>)
                           /\ Calls1[s[i]] = (IF s[i].kind = "tool" THEN <<s[i].text>> ELSE <<>>)
  BY <1>1 DEF Text1, Calls1
<1>3. Mapped(Text1, s) = [i \in 1..Len(s) |-> IF s[i].kind = "text" THEN s[i].text ELSE <<>>]
  BY <1>2 DEF Mapped
<1>4. Mapped(Calls1, s) = [i \in 1..Len(s) |-> IF s[i].kind = "tool" THEN <<s[i].text>> ELSE <<>>]
  BY <1>2 DEF Mapped
<1> QED BY <1>3, <1>4 DEF TextOf, CallsOf

LEMMA AppendedEvent ==
  ASSUME NEW s \in Seq(Events), NEW e \in Events
  PROVE  /\ TextOf(<<>>) = <<>> /\ CallsOf(<<>>) = <<>>
         /\ TextOf(s) \in Texts /\ CallsOf(s) \in Seq(Texts)
         /\ TextOf(Append(s, e)) = TextOf(s) \o Text1[e]
         /\ CallsOf(Append(s, e)) = CallsOf(s) \o Calls1[e]
<1> DEFINE Sym == UNION {ToSet(text) : text \in Vocabulary}
           U == Append(s, e)
<1>1. Texts = Seq(Sym)
  BY DEF Texts
<1>2. \A x \in Events : Text1[x] \in Texts /\ Calls1[x] \in Seq(Texts)
  BY EventFields
<1>3. U \in Seq(Events)
  BY AppendProperties
<1> HIDE DEF Sym, U
<1>4. /\ Mapped(Text1, s) \in Seq(Texts) /\ Mapped(Text1, U) = Append(Mapped(Text1, s), Text1[e])
      /\ Mapped(Calls1, s) \in Seq(Seq(Texts))
      /\ Mapped(Calls1, U) = Append(Mapped(Calls1, s), Calls1[e])
  <2>1. Mapped(Text1, U) = Append(Mapped(Text1, s), Text1[e])
        /\ Mapped(Calls1, U) = Append(Mapped(Calls1, s), Calls1[e])
    BY MappedAppend DEF U
  <2>2. PICK W : W = Seq(Texts)
    OBVIOUS
  <2>3. Len(s) \in Nat /\ \A i \in 1..Len(s) : s[i] \in Events
    BY LenProperties
  <2>4. Mapped(Text1, s) \in Seq(Texts) /\ Mapped(Calls1, s) \in Seq(W)
    BY <1>2, <2>2, <2>3, MappedIsTyped
  <2> QED BY <2>1, <2>2, <2>4
<1>5. Text1[e] \in Texts /\ Calls1[e] \in Seq(Texts)
  BY EventFields
<1>6. /\ FlattenSeq(Mapped(Text1, s)) \in Texts /\ FlattenSeq(<<>>) = <<>>
      /\ FlattenSeq(Append(Mapped(Text1, s), Text1[e])) = FlattenSeq(Mapped(Text1, s)) \o Text1[e]
  BY <1>1, <1>4, <1>5, FlattenAppend
<1>7. /\ FlattenSeq(Mapped(Calls1, s)) \in Seq(Texts)
      /\ FlattenSeq(Append(Mapped(Calls1, s), Calls1[e])) = FlattenSeq(Mapped(Calls1, s)) \o Calls1[e]
  <2> HIDE DEF Texts
  <2> QED BY <1>4, <1>5, FlattenAppend
<1>8. TextOf(<<>>) = <<>> /\ CallsOf(<<>>) = <<>>
  <2>1. <<>> \in Seq(Events)
    OBVIOUS
  <2>2. Mapped(Text1, <<>>) = <<>> /\ Mapped(Calls1, <<>>) = <<>>
    <3>1. /\ Len(<<>>) = 0 /\ 1..0 = {} /\ [i \in {} |-> Text1[<<>>[i]]] = <<>>
          /\ [i \in {} |-> Calls1[<<>>[i]]] = <<>>
      OBVIOUS
    <3> QED BY <3>1 DEF Mapped
  <2> QED BY <1>6, <2>1, <2>2, OfEvents
<1>9. /\ TextOf(s) = FlattenSeq(Mapped(Text1, s)) /\ CallsOf(s) = FlattenSeq(Mapped(Calls1, s))
      /\ TextOf(U) = FlattenSeq(Mapped(Text1, U)) /\ CallsOf(U) = FlattenSeq(Mapped(Calls1, U))
  BY <1>3, OfEvents
<1> QED BY <1>4, <1>6, <1>7, <1>8, <1>9 DEF U

LEMMA JoinedEvents ==
  ASSUME NEW s \in Seq(Events), NEW t \in Seq(Events)
  PROVE  s \o t \in Seq(Events) /\ TextOf(s \o t) = TextOf(s) \o TextOf(t)
         /\ CallsOf(s \o t) = CallsOf(s) \o CallsOf(t)
<1> DEFINE B == {u \in Seq(Events) : /\ TextOf(s \o u) = TextOf(s) \o TextOf(u)
                                     /\ CallsOf(s \o u) = CallsOf(s) \o CallsOf(u)}
<1>0. \E e \in Events : TRUE
  <2> DEFINE e == [kind |-> "text", text |-> <<>>]
  <2>1. e \in Events
    BY EmptySeq DEF Events, Texts
  <2> QED BY <2>1
<1>1. /\ TextOf(<<>>) = <<>> /\ CallsOf(<<>>) = <<>>
      /\ TextOf(s) \in Texts /\ CallsOf(s) \in Seq(Texts)
  BY <1>0, AppendedEvent
<1>2. <<>> \in B
  <2>1. s \o <<>> = s
    BY ConcatEmptySeq
  <2>2. TextOf(s) \o <<>> = TextOf(s)
    BY <1>1, NothingAdded
  <2>3. CallsOf(s) \o <<>> = CallsOf(s)
    BY <1>1, NothingAdded
  <2>4. <<>> \in Seq(Events)
    BY EmptySeq
  <2>5. TextOf(s \o <<>>) = TextOf(s) \o TextOf(<<>>)
    BY ONLY <1>1, <2>1, <2>2
  <2>6. CallsOf(s \o <<>>) = CallsOf(s) \o CallsOf(<<>>)
    BY ONLY <1>1, <2>1, <2>3
  <2> QED BY <2>4, <2>5, <2>6
<1>3. ASSUME NEW u \in Seq(Events), NEW e \in Events, u \in B PROVE Append(u, e) \in B
  <2>1. s \o u \in Seq(Events)
    BY ConcatProperties
  <2>2. s \o Append(u, e) = Append(s \o u, e)
    <3>1. /\ Append(u, e) = u \o <<e>> /\ Append(s \o u, e) = (s \o u) \o <<e>>
          /\ <<e>> \in Seq(Events)
      BY <2>1, AppendIsConcat
    <3>2. (s \o u) \o <<e>> = s \o (u \o <<e>>)
      BY ONLY <3>1, ConcatAssociative
    <3> QED BY <3>1, <3>2
  <2>3. Append(u, e) \in Seq(Events)
    BY AppendProperties
  <2>4. /\ TextOf(Append(s \o u, e)) = TextOf(s \o u) \o Text1[e]
        /\ CallsOf(Append(s \o u, e)) = CallsOf(s \o u) \o Calls1[e]
        /\ TextOf(Append(u, e)) = TextOf(u) \o Text1[e]
        /\ CallsOf(Append(u, e)) = CallsOf(u) \o Calls1[e]
        /\ TextOf(u) \in Texts /\ CallsOf(u) \in Seq(Texts)
    BY <2>1, AppendedEvent
  <2>5. Text1[e] \in Texts /\ Calls1[e] \in Seq(Texts)
    BY EventFields
  <2>6. (TextOf(s) \o TextOf(u)) \o Text1[e] = TextOf(s) \o (TextOf(u) \o Text1[e])
    <3> DEFINE a == TextOf(s)
               b == TextOf(u)
               c == Text1[e]
    <3>1. a \in Texts /\ b \in Texts /\ c \in Texts
      BY <1>1, <2>4, <2>5
    <3> HIDE DEF B, a, b, c
    <3>2. (a \o b) \o c = a \o (b \o c)
      BY <3>1, TextsRegroup
    <3> QED BY <3>2 DEF a, b, c
  <2>7. (CallsOf(s) \o CallsOf(u)) \o Calls1[e] = CallsOf(s) \o (CallsOf(u) \o Calls1[e])
    <3> DEFINE a == CallsOf(s)
               b == CallsOf(u)
               c == Calls1[e]
    <3>1. a \in Seq(Texts) /\ b \in Seq(Texts) /\ c \in Seq(Texts)
      BY <1>1, <2>4, <2>5
    <3> HIDE DEF B, a, b, c
    <3>2. (a \o b) \o c = a \o (b \o c)
      BY <3>1, CallsRegroup
    <3> QED BY <3>2 DEF a, b, c
  <2> QED BY <1>3, <2>2, <2>3, <2>4, <2>6, <2>7
<1>4. t \in B
  <2> HIDE DEF B
  <2> QED BY <1>2, <1>3, ClimbingSequences
<1>5. s \o t \in Seq(Events)
  BY ConcatProperties
<1> QED BY <1>4, <1>5

(* Deltas of a kind that are run together say the same.                    *)
LEMMA JoinedSays ==
  ASSUME NEW s \in Seq(Events), NEW e \in Events
  PROVE  /\ Joined(s, e) \in Seq(Events)
         /\ TextOf(Joined(s, e)) = TextOf(s) \o Text1[e]
         /\ CallsOf(Joined(s, e)) = CallsOf(s) \o Calls1[e]
<1>1. CASE s # <<>> /\ Last(s).kind = e.kind /\ e.kind # "tool"
  <2> DEFINE F == Front(s)
             L == Last(s)
             x == [e EXCEPT !.text = L.text \o e.text]
  <2>1. Joined(s, e) = Append(F, x)
    BY <1>1 DEF Joined
  <2>2. F \in Seq(Events) /\ L \in Events /\ s = Append(F, L)
    BY <1>1, FrontAndLast
  <2>3. /\ e.text \in Texts /\ L.text \in Texts /\ e.kind \in {"text", "reasoning"}
        /\ L.kind = e.kind
    BY <1>1, <2>2, EventFields
  <2>4. L.text \o e.text \in Texts
    BY <2>3, ConcatProperties DEF Texts
  <2>5. x \in Events /\ x.kind = e.kind /\ x.text = L.text \o e.text
    <3> DEFINE z == L.text \o e.text
    <3>1. e \in [kind : {"text", "reasoning", "tool"}, text : Texts] /\ x = [e EXCEPT !.text = z]
      BY DEF Events
    <3> HIDE DEF L, x, z
    <3>2. x = [kind |-> e.kind, text |-> z]
      BY <3>1
    <3> USE DEF z
    <3> QED BY <2>3, <2>4, <3>2 DEF Events
  <2> HIDE DEF F, L, x
  <2>6. /\ TextOf(Append(F, x)) = TextOf(F) \o Text1[x] /\ TextOf(s) = TextOf(F) \o Text1[L]
        /\ CallsOf(Append(F, x)) = CallsOf(F) \o Calls1[x] /\ CallsOf(s) = CallsOf(F) \o Calls1[L]
        /\ TextOf(F) \in Texts /\ CallsOf(F) \in Seq(Texts)
    BY <2>2, <2>5, AppendedEvent
  <2>7. Calls1[x] = <<>> /\ Calls1[L] = <<>> /\ Calls1[e] = <<>>
    BY <2>2, <2>3, <2>5 DEF Calls1
  <2>8. Text1[x] = Text1[L] \o Text1[e] /\ Text1[L] \in Texts /\ Text1[e] \in Texts
    <3>1. /\ Text1[x] = (IF x.kind = "text" THEN x.text ELSE <<>>)
          /\ Text1[e] = (IF e.kind = "text" THEN e.text ELSE <<>>)
          /\ Text1[L] = (IF L.kind = "text" THEN L.text ELSE <<>>)
      BY <2>2, <2>5 DEF Text1
    <3>2. <<>> \o <<>> = <<>> /\ <<>> \in Texts
      <4>1. <<>> \in Seq(Nat)
        OBVIOUS
      <4>2. <<>> \o <<>> = <<>>
        BY <4>1, ConcatEmptySeq
      <4> QED BY <4>2, EmptySeq DEF Texts
    <3> QED BY <2>3, <2>5, <3>1, <3>2
  <2>9. (TextOf(F) \o Text1[L]) \o Text1[e] = TextOf(F) \o (Text1[L] \o Text1[e])
    BY <2>6, <2>8, TextsRegroup
  <2>10. CallsOf(F) \o <<>> = CallsOf(F)
    BY <2>6, ConcatEmptySeq
  <2>11. Append(F, x) \in Seq(Events)
    BY <2>2, <2>5, AppendProperties
  <2> QED BY <2>1, <2>6, <2>7, <2>8, <2>9, <2>10, <2>11
<1>2. CASE ~(s # <<>> /\ Last(s).kind = e.kind /\ e.kind # "tool")
  <2>1. Joined(s, e) = Append(s, e)
    BY <1>2 DEF Joined
  <2>2. Append(s, e) \in Seq(Events)
    BY AppendProperties
  <2> QED BY <2>1, <2>2, AppendedEvent
<1> QED BY <1>1, <1>2

RunsBy(f, evs) == f[0] = <<>> /\ \A k \in 1..Len(evs) : f[k] = Joined(f[k - 1], evs[k])

LEMMA RunInSteps ==
  ASSUME NEW s \in Seq(Events), NEW f, f = [k \in 0..Len(s) |-> f[k]], RunsBy(f, s)
  PROVE  RunTogether(s) = f[Len(s)]
<1> DEFINE n == Len(s)
           value(h, k) == IF k = 0 THEN <<>> ELSE Joined(h[k - 1], s[k])
           Solves(h) == h = [k \in 0..n |-> IF k = 0 THEN <<>> ELSE Joined(h[k - 1], s[k])]
           g == CHOOSE h : Solves(h)
<1>1. n \in Nat /\ \A k \in 0..n : k # 0 => k \in 1..n
  BY LenProperties
<1>2. Solves(f)
  <2> HIDE DEF n
  <2>1. \A k \in 0..n : f[k] = value(f, k)
    BY <1>1 DEF RunsBy, n
  <2>2. f = [k \in 0..n |-> value(f, k)]
    <3> HIDE DEF value
    <3>1. f = [k \in 0..n |-> f[k]]
      BY DEF n
    <3> QED BY <2>1, <3>1
  <2> QED BY ONLY <2>2
<1>3. Solves(g)
  <2> HIDE DEF Solves
  <2> QED BY <1>2
<1>4. RunTogether(s) = g[n]
  BY DEF RunTogether
<1> HIDE DEF g, n
<1>5. /\ g[0] = <<>> /\ f[0] = <<>>
      /\ \A k \in 1..n : g[k] = Joined(g[k - 1], s[k]) /\ f[k] = Joined(f[k - 1], s[k])
  <2>1. 0 \in 0..n /\ \A k \in 1..n : k \in 0..n /\ k # 0
    BY <1>1
  <2> QED BY <1>3, <2>1 DEF RunsBy, n
<1> HIDE DEF Solves
<1>6. f[n] = g[n]
  <2>1. \A k \in 1..n : f[k - 1] = g[k - 1] => f[k] = g[k]
    BY <1>5
  <2>2. f[0] = g[0]
    BY <1>5
  <2> QED BY <1>1, <2>1, <2>2, SameSteps
<1> QED BY <1>4, <1>6 DEF n

LEMMA RunTogetherSays ==
  ASSUME NEW s \in Seq(Events)
  PROVE  /\ RunTogether(s) \in Seq(Events)
         /\ TextOf(RunTogether(s)) = TextOf(s) /\ CallsOf(RunTogether(s)) = CallsOf(s)
<1> DEFINE n == Len(s)
           V == Seq(Events)
           step == [i \in 1..n |-> [v \in V |-> Joined(v, s[i])]]
<1>1. /\ n \in Nat /\ \A i \in 1..n : s[i] \in Events
      /\ \A i \in 1..n : i - 1 \in 0..n /\ i \in 0..n
  BY LenProperties
<1>2. <<>> \in V /\ \A i \in 1..n, v \in V : step[i][v] = Joined(v, s[i]) /\ step[i][v] \in V
  <2>1. \A i \in 1..n, v \in V : Joined(v, s[i]) \in V
    BY <1>1, JoinedSays
  <2> QED BY <2>1, EmptySeq
<1> HIDE DEF step
<1>3. PICK f : Repeats(f, n, V, <<>>, step)
  <2> HIDE DEF V, n
  <2> QED BY <1>1, <1>2, Iterates
<1> HIDE DEF n
<1>4. /\ f \in [0..n -> V] /\ f[0] = <<>> /\ f = [k \in 0..n |-> f[k]]
      /\ \A i \in 1..n : f[i - 1] \in V /\ f[i] = Joined(f[i - 1], s[i])
  <2> HIDE DEF V
  <2> QED BY <1>1, <1>2, <1>3 DEF Repeats
<1>5. RunTogether(s) = f[n]
  <2>1. RunsBy(f, s)
    BY <1>4 DEF RunsBy, n
  <2> QED BY <1>4, <2>1, RunInSteps DEF n
<1> DEFINE part(k) == SubSeq(s, 1, k)
           S == {k \in 0..n : TextOf(f[k]) = TextOf(part(k)) /\ CallsOf(f[k]) = CallsOf(part(k))}
<1>6. 0 \in S
  <2>1. part(0) = <<>>
    BY SubSeqEmpty
  <2>2. 0 \in 0..n
    BY <1>1
  <2> HIDE DEF part
  <2> QED BY <1>4, <2>1, <2>2
<1>7. ASSUME NEW k \in 0..(n - 1), k \in S PROVE k + 1 \in S
  <2>1. k \in 0..n /\ k + 1 \in 1..n /\ (k + 1) - 1 = k /\ k + 1 \in 0..n
    BY <1>1
  <2>2. part(k) \in V /\ part(k + 1) = Append(part(k), s[k + 1])
    <3>1. 1 \in 1..Len(s) /\ k + 1 \in 1..Len(s) /\ k + 1 \in 1..(k + 1) /\ 1 \in Int /\ k \in Int
      BY <1>1, <2>1 DEF n
    <3>2. \A i \in 1..k : s[i] \in Events
      BY <1>1, <2>1
    <3>3. SubSeq(s, 1, k) \in Seq(Events)
      BY <3>1, <3>2, SubSeqProperties
    <3>4. SubSeq(s, 1, k + 1) = SubSeq(s, 1, (k + 1) - 1) \o <<s[k + 1]>>
      <4> DEFINE m == k + 1
      <4>1. m \in 1..Len(s) /\ m \in 1..m /\ 1 \in 1..Len(s) /\ m \in 1..Len(s)
        BY <3>1
      <4> HIDE DEF m
      <4>2. m \in 1..Len(s) /\ 1 \in 1..Len(s)
        BY <4>1
      <4>3. SubSeq(s, 1, m) = SubSeq(s, 1, m - 1) \o <<s[m]>>
        BY <4>2, SubSeqRecursiveSecond
      <4> QED BY <4>3 DEF m
    <3>5. Append(SubSeq(s, 1, k), s[k + 1]) = SubSeq(s, 1, k) \o <<s[k + 1]>>
      BY <1>1, <2>1, <3>3, AppendIsConcat
    <3> QED BY <2>1, <3>3, <3>4, <3>5
  <2>3. f[k] \in V /\ s[k + 1] \in Events /\ f[k + 1] = Joined(f[k], s[k + 1])
    <3> HIDE DEF V
    <3> QED BY <1>1, <1>4, <2>1
  <2> HIDE DEF part
  <2>4. /\ TextOf(f[k + 1]) = TextOf(f[k]) \o Text1[s[k + 1]]
        /\ CallsOf(f[k + 1]) = CallsOf(f[k]) \o Calls1[s[k + 1]]
    BY <2>3, JoinedSays
  <2>5. /\ TextOf(part(k + 1)) = TextOf(part(k)) \o Text1[s[k + 1]]
        /\ CallsOf(part(k + 1)) = CallsOf(part(k)) \o Calls1[s[k + 1]]
    BY <2>2, <2>3, AppendedEvent
  <2> QED BY <1>7, <2>1, <2>4, <2>5
<1>8. 0..n \subseteq S
  <2> HIDE DEF S
  <2> QED BY <1>1, <1>6, <1>7, ClimbingTo
<1>9. n \in 0..n /\ part(n) = s
  BY <1>1, SubSeqFull DEF n
<1>10. f[n] \in V
  BY <1>4, <1>9
<1> HIDE DEF part
<1> QED BY <1>5, <1>8, <1>9, <1>10

-----------------------------------------------------------------------------
(* The Anthropic client and the BlockWriter: the blocks it opens, fills    *)
(* and closes are the ones the client sees (anthropic/mod.rs).             *)

(* What one frame makes of a client, field by field.                       *)
HasRead(r, p, c, f) ==
  /\ r.fits <=> c.fits /\ Fits(p, c, f)
  /\ r.over <=> c.over \/ f.type \in Terminal(p)
  /\ r.started = TRUE
  /\ r.open = (IF f.type = "content_block_start" THEN f.kind
               ELSE IF f.type = "content_block_stop" THEN "none" ELSE c.open)
  /\ r.index = (IF f.type = "content_block_stop" THEN c.index + 1 ELSE c.index)
  /\ r.text = (IF f.kind = "text" THEN c.text \o f.text ELSE c.text)
  /\ r.tools = (IF f.kind = "tool" /\ f.text # <<>> THEN Append(c.tools, f.text)
                ELSE IF f.type = "done" THEN f.text ELSE c.tools)
  /\ r.reason = (IF f.type \in {"finish", "response.completed", "message_delta", "done"} THEN f.kind
                 ELSE c.reason)

LEMMA ReadFields ==
  ASSUME NEW p \in Protocols, NEW c \in Readers, NEW f \in Frames
  PROVE  HasRead(Read(p, c, f), p, c, f)
<1> DEFINE r == Read(p, c, f)
           fits == c.fits /\ Fits(p, c, f)
           over == c.over \/ f.type \in Terminal(p)
           text == IF f.kind = "text" THEN c.text \o f.text ELSE c.text
           tools == CASE f.kind = "tool" /\ f.text # <<>> -> Append(c.tools, f.text)
                      [] f.type = "done" -> f.text
                      [] OTHER -> c.tools
           index == IF f.type = "content_block_stop" THEN c.index + 1 ELSE c.index
           open == CASE f.type = "content_block_start" -> f.kind
                     [] f.type = "content_block_stop" -> "none"
                     [] OTHER -> c.open
           reason == IF f.type \in {"finish", "response.completed", "message_delta", "done"} THEN f.kind
                     ELSE c.reason
<1>1. r = [c EXCEPT !.fits = fits, !.over = over, !.started = TRUE, !.open = open, !.index = index,
                    !.text = text, !.tools = tools, !.reason = reason]
  BY DEF Read
<1>2. c \in [over : BOOLEAN, open : {"none", "text", "reasoning", "tool"}, index : Nat, started : BOOLEAN,
             text : Texts, tools : Seq(Texts), reason : Reasons, fits : BOOLEAN]
  BY DEF Readers
<1>3. (fits <=> c.fits /\ Fits(p, c, f)) /\ (over <=> c.over \/ f.type \in Terminal(p))
  OBVIOUS
<1> HIDE DEF r, fits, over, text, tools, index, open, reason
<1>4. /\ r.fits = fits /\ r.over = over /\ r.started = TRUE
      /\ r.text = text /\ r.tools = tools /\ r.index = index /\ r.open = open /\ r.reason = reason
  BY <1>1, <1>2
<1>5. tools = (IF f.kind = "tool" /\ f.text # <<>> THEN Append(c.tools, f.text)
               ELSE IF f.type = "done" THEN f.text ELSE c.tools)
  <2>1. f.type = "done" => f.kind # "tool"
    BY DEF Frames
  <2> QED BY ONLY <2>1 DEF tools
<1>6. open = (IF f.type = "content_block_start" THEN f.kind
              ELSE IF f.type = "content_block_stop" THEN "none" ELSE c.open)
  BY ONLY TRUE DEF open
<1> QED BY <1>3, <1>4, <1>5, <1>6 DEF r, text, index, reason, HasRead

(* A client of the Anthropic protocol in the middle of its stream.         *)
Stands(c, open, index, text, tools) ==
  /\ c \in Readers /\ c.fits /\ ~c.over /\ c.started
  /\ c.open = open /\ c.index = index /\ c.text = text /\ c.tools = tools

Blocks == [open : {"none", "text", "reasoning", "tool"}, index : Nat]

LEMMA FrameFields ==
  ASSUME NEW type, NEW index, NEW kind, NEW text
  PROVE  LET f == Frame(type, index, kind, text)
         IN f.type = type /\ f.index = index /\ f.kind = kind /\ f.text = text
BY DEF Frame

LEMMA BlockFrames ==
  ASSUME NEW index \in Nat, NEW kind \in {"text", "reasoning", "tool"}, NEW text \in Texts
  PROVE  /\ Frame("content_block_stop", index, kind, <<>>) \in Frames
         /\ Frame("content_block_start", index, kind, <<>>) \in Frames
         /\ Frame("content_block_delta", index, kind, text) \in Frames
<1>1. <<>> \in Texts
  BY EmptySeq DEF Texts
<1> QED BY <1>1 DEF Frame, Frames, FrameTypes

LEMMA StopRead ==
  ASSUME NEW c, NEW index \in Nat, NEW kind \in {"text", "reasoning", "tool"},
         NEW text \in Texts, NEW tools \in Seq(Texts), Stands(c, kind, index, text, tools)
  PROVE  Stands(Read("messages", c, Frame("content_block_stop", index, kind, <<>>)),
                "none", index + 1, text, tools)
<1> DEFINE f == Frame("content_block_stop", index, kind, <<>>)
           r == Read("messages", c, f)
<1>1. f \in Frames /\ "messages" \in Protocols /\ c \in Readers
  BY BlockFrames DEF Protocols, Stands
<1>2. f.type = "content_block_stop" /\ f.index = index /\ f.kind = kind /\ f.text = <<>>
  BY FrameFields
<1>3. text \o <<>> = text
  BY NothingAdded
<1> HIDE DEF f, r
<1>4. r \in Readers /\ HasRead(r, "messages", c, f)
  BY <1>1, ReadFields, ReadIsTyped DEF r
<1>5. Fits("messages", c, f) /\ f.type \notin Terminal("messages")
  BY <1>2 DEF Fits, Terminal, Stands
<1>6. Stands(r, "none", index + 1, text, tools)
  BY <1>2, <1>3, <1>4, <1>5 DEF Stands, HasRead
<1> QED BY <1>6 DEF r, f

LEMMA StartRead ==
  ASSUME NEW c, NEW index \in Nat, NEW kind \in {"text", "reasoning", "tool"},
         NEW text \in Texts, NEW tools \in Seq(Texts), Stands(c, "none", index, text, tools)
  PROVE  Stands(Read("messages", c, Frame("content_block_start", index, kind, <<>>)),
                kind, index, text, tools)
<1> DEFINE f == Frame("content_block_start", index, kind, <<>>)
           r == Read("messages", c, f)
<1>1. f \in Frames /\ "messages" \in Protocols /\ c \in Readers
  BY BlockFrames DEF Protocols, Stands
<1>2. f.type = "content_block_start" /\ f.index = index /\ f.kind = kind /\ f.text = <<>>
  BY FrameFields
<1>3. text \o <<>> = text
  BY NothingAdded
<1> HIDE DEF f, r
<1>4. r \in Readers /\ HasRead(r, "messages", c, f)
  BY <1>1, ReadFields, ReadIsTyped DEF r
<1>5. Fits("messages", c, f) /\ f.type \notin Terminal("messages")
  BY <1>2 DEF Fits, Terminal, Stands
<1>6. Stands(r, kind, index, text, tools)
  BY <1>2, <1>3, <1>4, <1>5 DEF Stands, HasRead
<1> QED BY <1>6 DEF r, f

LEMMA DeltaRead ==
  ASSUME NEW c, NEW index \in Nat, NEW e \in Events,
         NEW text \in Texts, NEW tools \in Seq(Texts), Stands(c, e.kind, index, text, tools)
  PROVE  Stands(Read("messages", c, Frame("content_block_delta", index, e.kind, e.text)),
                e.kind, index, text \o Text1[e], tools \o Calls1[e])
<1> DEFINE f == Frame("content_block_delta", index, e.kind, e.text)
           r == Read("messages", c, f)
<1>0. /\ e.kind \in {"text", "reasoning", "tool"} /\ e.text \in Texts
      /\ e.kind = "tool" => e.text # <<>>
  BY EventFields
<1>1. f \in Frames /\ "messages" \in Protocols /\ c \in Readers
  BY <1>0, BlockFrames DEF Protocols, Stands
<1>2. f.type = "content_block_delta" /\ f.index = index /\ f.kind = e.kind /\ f.text = e.text
  BY FrameFields
<1>3. text \o <<>> = text /\ tools \o <<>> = tools
  BY NothingAdded
<1>4. Append(tools, e.text) = tools \o <<e.text>>
  BY <1>0, AppendIsConcat
<1>5. /\ Text1[e] = (IF e.kind = "text" THEN e.text ELSE <<>>)
      /\ Calls1[e] = (IF e.kind = "tool" THEN <<e.text>> ELSE <<>>)
  BY DEF Text1, Calls1
<1> HIDE DEF f, r
<1>6. r \in Readers /\ HasRead(r, "messages", c, f)
  BY <1>1, ReadFields, ReadIsTyped DEF r
<1>7. Fits("messages", c, f) /\ f.type \notin Terminal("messages")
  BY <1>2 DEF Fits, Terminal, Stands
<1>8. r.text = text \o Text1[e]
  BY <1>2, <1>3, <1>5, <1>6 DEF Stands, HasRead
<1>9. r.tools = tools \o Calls1[e]
  BY <1>0, <1>2, <1>3, <1>4, <1>5, <1>6 DEF Stands, HasRead
<1>10. Stands(r, e.kind, index, text \o Text1[e], tools \o Calls1[e])
  BY <1>2, <1>6, <1>7, <1>8, <1>9 DEF Stands, HasRead
<1> QED BY <1>10 DEF r, f

(* The BlockWriter's moves, with the client that reads them.               *)
LEMMA CloseIsRead ==
  ASSUME NEW c, NEW w \in Blocks, NEW text \in Texts, NEW tools \in Seq(Texts),
         Stands(c, w.open, w.index, text, tools)
  PROVE  LET r == CloseOpen(w) IN
         /\ r.writer \in Blocks /\ r.writer.open = "none" /\ r.frames \in Seq(Frames)
         /\ Stands(ReadAll("messages", c, r.frames), "none", r.writer.index, text, tools)
<1> DEFINE r == CloseOpen(w)
<1>1. w.open \in {"none", "text", "reasoning", "tool"} /\ w.index \in Nat /\ c \in Readers
      /\ "messages" \in Protocols
  BY DEF Blocks, Stands, Protocols
<1>2. <<>> \in Texts
  BY EmptySeq DEF Texts
<1>3. CASE w.open = "none"
  <2>1. r = [writer |-> w, frames |-> <<>>]
    BY <1>3 DEF CloseOpen
  <2>2. ReadAll("messages", c, <<>>) = c
    <3>1. Frame("content_block_stop", 0, "text", <<>>) \in Frames
      BY <1>2, BlockFrames
    <3> QED BY <1>1, <3>1, ReadOne
  <2>3. <<>> \in Seq(Frames)
    BY EmptySeq
  <2> QED BY <1>3, <2>1, <2>2, <2>3
<1>4. CASE w.open # "none"
  <2> DEFINE f == Frame("content_block_stop", w.index, w.open, <<>>)
             v == [open |-> "none", index |-> w.index + 1]
  <2>1. r = [writer |-> v, frames |-> <<f>>]
    BY <1>4 DEF CloseOpen
  <2>2. v \in Blocks /\ v.open = "none" /\ v.index = w.index + 1
    BY <1>1 DEF Blocks
  <2>3. w.open \in {"text", "reasoning", "tool"}
    BY <1>1, <1>4
  <2>4. f \in Frames
    BY <1>1, <1>2, <2>3, BlockFrames
  <2>5. Stands(Read("messages", c, f), "none", w.index + 1, text, tools)
    BY <1>1, <2>3, StopRead
  <2> HIDE DEF f, v
  <2>6. ReadAll("messages", c, <<f>>) = Read("messages", c, f) /\ <<f>> \in Seq(Frames)
    BY <1>1, <2>4, ReadOne
  <2> HIDE DEF r
  <2>7. r.writer = v /\ r.frames = <<f>>
    BY <2>1
  <2>8. Stands(ReadAll("messages", c, r.frames), "none", r.writer.index, text, tools)
    BY <2>2, <2>5, <2>6, <2>7
  <2> QED BY <2>2, <2>6, <2>7, <2>8 DEF r
<1> QED BY <1>3, <1>4

StartedAs(r, kind, c, text, tools) ==
  /\ r.writer \in Blocks /\ r.writer.open = kind /\ r.frames \in Seq(Frames)
  /\ Stands(ReadAll("messages", c, r.frames), kind, r.writer.index, text, tools)

LEMMA StartIsRead ==
  ASSUME NEW c, NEW w \in Blocks, NEW text \in Texts, NEW tools \in Seq(Texts),
         Stands(c, w.open, w.index, text, tools), NEW kind \in {"text", "reasoning", "tool"}
  PROVE  StartedAs(StartBlock(w, kind), kind, c, text, tools)
<1> DEFINE a == CloseOpen(w)
           f == Frame("content_block_start", a.writer.index, kind, <<>>)
           v == [a.writer EXCEPT !.open = kind]
           r == StartBlock(w, kind)
<1>1. /\ a.writer \in Blocks /\ a.writer.open = "none" /\ a.frames \in Seq(Frames)
      /\ Stands(ReadAll("messages", c, a.frames), "none", a.writer.index, text, tools)
  BY CloseIsRead
<1>2. a.writer.index \in Nat /\ v \in Blocks /\ v.open = kind /\ v.index = a.writer.index
  BY <1>1 DEF Blocks
<1>3. f \in Frames
  <2>1. <<>> \in Texts
    BY EmptySeq DEF Texts
  <2> QED BY <1>2, <2>1, BlockFrames
<1>4. r = [writer |-> v, frames |-> Append(a.frames, f)]
  BY DEF StartBlock
<1> DEFINE d == ReadAll("messages", c, a.frames)
<1>5. Stands(Read("messages", d, f), kind, a.writer.index, text, tools)
  <2> HIDE DEF a, d
  <2>1. Stands(d, "none", a.writer.index, text, tools)
    BY <1>1 DEF d
  <2> QED BY <1>2, <2>1, StartRead
<1> HIDE DEF a, f, v, r
<1>6. ReadAll("messages", c, Append(a.frames, f)) = Read("messages", d, f)
      /\ Append(a.frames, f) \in Seq(Frames)
  <2>1. c \in Readers /\ "messages" \in Protocols
    BY DEF Stands, Protocols
  <2> QED BY <1>1, <1>3, <2>1, ReadAppend, AppendProperties
<1>7. r.writer = v /\ r.frames = Append(a.frames, f)
  BY <1>4
<1> HIDE DEF d
<1> QED BY <1>2, <1>5, <1>6, <1>7 DEF r, StartedAs

Writers == [open : {"none", "text", "reasoning"}, index : Nat]

LEMMA DeltaIsRead ==
  ASSUME NEW c, NEW w \in Writers, NEW e \in Events, e.kind # "tool",
         NEW text \in Texts, NEW tools \in Seq(Texts), Stands(c, w.open, w.index, text, tools)
  PROVE  LET r == BlockDelta(w, e) IN
         /\ r.writer \in Writers /\ r.frames \in Seq(Frames)
         /\ Stands(ReadAll("messages", c, r.frames), r.writer.open, r.writer.index,
                   text \o Text1[e], tools \o Calls1[e])
<1> DEFINE s == IF w.open = e.kind THEN [writer |-> w, frames |-> <<>>] ELSE StartBlock(w, e.kind)
           f == Frame("content_block_delta", s.writer.index, e.kind, e.text)
           r == BlockDelta(w, e)
           d == ReadAll("messages", c, s.frames)
<1>1. /\ e.kind \in {"text", "reasoning"} /\ e.text \in Texts
      /\ c \in Readers /\ "messages" \in Protocols
      /\ w \in Blocks
  BY EventFields DEF Stands, Protocols, Writers, Blocks
<1>2. /\ s.writer \in Blocks /\ s.writer.open = e.kind /\ s.frames \in Seq(Frames)
      /\ Stands(d, e.kind, s.writer.index, text, tools)
  <2>1. CASE w.open = e.kind
    <3>1. s = [writer |-> w, frames |-> <<>>]
      BY <2>1
    <3>2. ReadAll("messages", c, <<>>) = c
      <4>1. Frame("content_block_stop", 0, "text", <<>>) \in Frames
        BY EmptySeq, BlockFrames DEF Texts
      <4> QED BY <1>1, <4>1, ReadOne
    <3>3. <<>> \in Seq(Frames)
      BY EmptySeq
    <3> QED BY <1>1, <2>1, <3>1, <3>2, <3>3
  <2>2. CASE w.open # e.kind
    <3> DEFINE b == StartBlock(w, e.kind)
    <3>1. s = b
      BY <2>2
    <3>2. StartedAs(b, e.kind, c, text, tools)
      <4> HIDE DEF s, f, r, d
      <4> QED BY <1>1, StartIsRead
    <3> HIDE DEF b, s
    <3> QED BY ONLY <3>1, <3>2 DEF d, StartedAs
  <2> QED BY <2>1, <2>2
<1>3. s.writer.index \in Nat
  BY <1>2 DEF Blocks
<1>4. f \in Frames
  BY <1>1, <1>3, BlockFrames
<1>5. r = [writer |-> s.writer, frames |-> Append(s.frames, f)]
  BY DEF BlockDelta
<1> HIDE DEF s, r
<1>6. Stands(Read("messages", d, f), e.kind, s.writer.index, text \o Text1[e], tools \o Calls1[e])
  <2> HIDE DEF d
  <2> QED BY <1>2, <1>3, DeltaRead
<1> HIDE DEF f
<1>7. ReadAll("messages", c, Append(s.frames, f)) = Read("messages", d, f)
      /\ Append(s.frames, f) \in Seq(Frames)
  BY <1>1, <1>2, <1>4, ReadAppend, AppendProperties
<1>8. r.writer = s.writer /\ r.frames = Append(s.frames, f)
  BY <1>5
<1>9. s.writer \in Writers
  BY <1>1, <1>2 DEF Writers, Blocks
<1> HIDE DEF d
<1> QED BY <1>2, <1>6, <1>7, <1>8, <1>9 DEF r

LEMMA ToolUseIsRead ==
  ASSUME NEW c, NEW w \in Writers, NEW e \in Events, e.kind = "tool",
         NEW text \in Texts, NEW tools \in Seq(Texts), Stands(c, w.open, w.index, text, tools)
  PROVE  LET r == ToolUse(w, e) IN
         /\ r.writer \in Writers /\ r.frames \in Seq(Frames)
         /\ Stands(ReadAll("messages", c, r.frames), r.writer.open, r.writer.index,
                   text \o Text1[e], tools \o Calls1[e])
<1> DEFINE s == StartBlock(w, "tool")
           a == CloseOpen(s.writer)
           f == Frame("content_block_delta", s.writer.index, "tool", e.text)
           r == ToolUse(w, e)
           d == ReadAll("messages", c, s.frames)
           h == Read("messages", d, f)
           t == text \o Text1[e]
           u == tools \o Calls1[e]
           all == Append(s.frames, f) \o a.frames
<1>1. e.text \in Texts /\ c \in Readers /\ "messages" \in Protocols /\ w \in Blocks
      /\ Text1[e] \in Texts /\ Calls1[e] \in Seq(Texts)
  BY EventFields DEF Stands, Protocols, Writers, Blocks
<1>2. /\ s.writer \in Blocks /\ s.writer.open = "tool" /\ s.frames \in Seq(Frames)
      /\ Stands(d, "tool", s.writer.index, text, tools)
  <2>1. StartedAs(s, "tool", c, text, tools)
    BY <1>1, StartIsRead
  <2> QED BY <2>1 DEF StartedAs
<1>3. s.writer.index \in Nat
  BY <1>2 DEF Blocks
<1>4. f \in Frames
  BY <1>1, <1>3, BlockFrames
<1>5. r = [writer |-> a.writer, frames |-> all]
  BY DEF ToolUse
<1>6. t \in Texts /\ u \in Seq(Texts)
  BY <1>1, ConcatProperties DEF Texts
<1> HIDE DEF s, r, t, u
<1>7. Stands(h, "tool", s.writer.index, t, u)
  <2>1. f = Frame("content_block_delta", s.writer.index, e.kind, e.text)
    OBVIOUS
  <2>2. Stands(Read("messages", d, Frame("content_block_delta", s.writer.index, e.kind, e.text)),
               e.kind, s.writer.index, text \o Text1[e], tools \o Calls1[e])
    <3> HIDE DEF d, f
    <3> QED BY <1>2, <1>3, DeltaRead
  <2> QED BY <2>1, <2>2 DEF t, u
<1> HIDE DEF f
<1>8. ReadAll("messages", c, Append(s.frames, f)) = h /\ Append(s.frames, f) \in Seq(Frames)
  BY <1>1, <1>2, <1>4, ReadAppend, AppendProperties
<1> HIDE DEF d, h
<1>9. /\ a.writer \in Blocks /\ a.writer.open = "none" /\ a.frames \in Seq(Frames)
      /\ Stands(ReadAll("messages", h, a.frames), "none", a.writer.index, t, u)
  <2>1. Stands(h, s.writer.open, s.writer.index, t, u)
    BY <1>2, <1>7
  <2> QED BY <1>2, <1>6, <2>1, CloseIsRead
<1> HIDE DEF a
<1>10. ReadAll("messages", c, all) = ReadAll("messages", h, a.frames) /\ all \in Seq(Frames)
  <2> DEFINE x == Append(s.frames, f)
  <2>1. x \in Seq(Frames) /\ ReadAll("messages", c, x) = h
    BY <1>8
  <2> HIDE DEF x
  <2>2. ReadAll("messages", c, x \o a.frames) = ReadAll("messages", ReadAll("messages", c, x), a.frames)
        /\ x \o a.frames \in Seq(Frames)
    BY <1>1, <1>9, <2>1, ReadConcat
  <2> QED BY <2>1, <2>2 DEF x
<1> HIDE DEF all
<1>11. r.writer = a.writer /\ r.frames = all
  BY <1>5
<1>12. a.writer \in Writers
  BY <1>9 DEF Writers, Blocks
<1> QED BY <1>9, <1>10, <1>11, <1>12 DEF r, t, u

(* Every client that follows what was said follows the next event.         *)
WriterAfter(w, e) == RenderEvent("messages", w, e).writer

LEMMA FollowsIsStands ==
  ASSUME NEW c, NEW w \in Writers, NEW text, NEW calls
  PROVE  c \in Readers /\ Follows("messages", c, w, text, calls) <=> Stands(c, w.open, w.index, text, calls)
BY DEF Follows, Stands, Lines

LEMMA EventIsRead ==
  ASSUME NEW p \in Protocols, NEW c \in Readers, NEW w \in Writers, NEW e \in Events,
         NEW text \in Texts, NEW calls \in Seq(Texts), Follows(p, c, w, text, calls)
  PROVE  LET d == ReadAll(p, c, RenderEvent(p, w, e).frames) IN
         /\ d \in Readers /\ WriterAfter(w, e) \in Writers
         /\ Follows(p, d, WriterAfter(w, e), text \o Text1[e], calls \o Calls1[e])
<1> DEFINE r == RenderEvent(p, w, e)
           d == ReadAll(p, c, r.frames)
           v == WriterAfter(w, e)
           m == MessagesEvent(w, e)
<1>1. /\ e.kind \in {"text", "reasoning", "tool"} /\ e.text \in Texts
      /\ e.kind = "tool" => e.text # <<>>
      /\ Text1[e] = (IF e.kind = "text" THEN e.text ELSE <<>>)
      /\ Calls1[e] = (IF e.kind = "tool" THEN <<e.text>> ELSE <<>>)
  BY EventFields DEF Text1, Calls1
<1>2. v = m.writer /\ m = (IF e.kind = "tool" THEN ToolUse(w, e) ELSE BlockDelta(w, e))
  BY DEF WriterAfter, RenderEvent, MessagesEvent
<1> HIDE DEF m
<1>3. v \in Writers
  <2>1. BlockDelta(w, e).writer \in Writers \/ e.kind = "tool"
    <3> SUFFICES ASSUME e.kind # "tool" PROVE BlockDelta(w, e).writer \in Writers
      OBVIOUS
    <3> DEFINE c0 == [NewClient EXCEPT !.started = TRUE, !.open = w.open, !.index = w.index]
    <3>1. Stands(c0, w.open, w.index, <<>>, <<>>) /\ <<>> \in Texts /\ <<>> \in Seq(Texts)
      BY EmptySeq DEF NewClient, Stands, Readers, Writers, Reasons, Texts
    <3> HIDE DEF c0
    <3> QED BY <3>1, DeltaIsRead
  <2>2. ToolUse(w, e).writer \in Writers \/ e.kind # "tool"
    <3> SUFFICES ASSUME e.kind = "tool" PROVE ToolUse(w, e).writer \in Writers
      OBVIOUS
    <3> DEFINE c0 == [NewClient EXCEPT !.started = TRUE, !.open = w.open, !.index = w.index]
    <3>1. Stands(c0, w.open, w.index, <<>>, <<>>) /\ <<>> \in Texts /\ <<>> \in Seq(Texts)
      BY EmptySeq DEF NewClient, Stands, Readers, Writers, Reasons, Texts
    <3> HIDE DEF c0
    <3> QED BY <3>1, ToolUseIsRead
  <2> QED BY <1>2, <2>1, <2>2
<1>4. CASE p = "messages"
  <2>1. r = m
    BY <1>4 DEF RenderEvent, m
  <2>2. Stands(c, w.open, w.index, text, calls)
    BY <1>4, FollowsIsStands
  <2>3. Stands(ReadAll("messages", c, m.frames), m.writer.open, m.writer.index,
               text \o Text1[e], calls \o Calls1[e])
    <3>1. CASE e.kind = "tool"
      BY <1>2, <2>2, <3>1, ToolUseIsRead
    <3>2. CASE e.kind # "tool"
      BY <1>2, <2>2, <3>2, DeltaIsRead
    <3> QED BY <3>1, <3>2
  <2>4. Stands(d, v.open, v.index, text \o Text1[e], calls \o Calls1[e])
    BY <1>2, <1>4, <2>1, <2>3
  <2>5. d \in Readers
    BY <2>4 DEF Stands
  <2> HIDE DEF d, v
  <2>6. Follows("messages", d, v, text \o Text1[e], calls \o Calls1[e])
    BY <1>3, <2>4, FollowsIsStands
  <2> QED BY <1>3, <1>4, <2>5, <2>6 DEF d, v
<1>5. ASSUME NEW type \in {"delta", "line"}, p # "messages", r.frames = <<Frame(type, 0, e.kind, e.text)>>,
             p \in Lines => e.kind # "tool"
      PROVE  d \in Readers /\ Follows(p, d, v, text \o Text1[e], calls \o Calls1[e])
  <2> DEFINE f == Frame(type, 0, e.kind, e.text)
  <2>1. f \in Frames
    BY <1>1 DEF Frame, Frames, FrameTypes
  <2>2. f.type = type /\ f.kind = e.kind /\ f.text = e.text
    BY FrameFields
  <2> HIDE DEF f, r
  <2>3. d = Read(p, c, f)
    <3>1. r.frames = <<f>>
      BY <1>5 DEF f
    <3>2. ReadAll(p, c, <<f>>) = Read(p, c, f)
      BY <2>1, ReadOne
    <3> QED BY <3>1, <3>2
  <2> HIDE DEF d, v
  <2>4. d \in Readers /\ HasRead(d, p, c, f)
    BY <2>1, <2>3, ReadIsTyped, ReadFields
  <2>5. f.type \notin Terminal(p)
    BY Zenon, <1>5, <2>2 DEF Terminal
  <2>6. Fits(p, c, f)
    BY <1>5 DEF Fits, Follows
  <2>7. c.fits /\ ~c.over /\ c.text = text /\ c.tools = (IF p \in Lines THEN <<>> ELSE calls)
    BY DEF Follows
  <2>8. d.text = text \o Text1[e]
    <3>1. d.text = (IF f.kind = "text" THEN c.text \o f.text ELSE c.text)
      BY <2>4 DEF HasRead
    <3>2. text \o <<>> = text
      BY NothingAdded
    <3> QED BY <1>1, <2>2, <2>7, <3>1, <3>2
  <2>9. d.tools = (IF p \in Lines THEN <<>> ELSE calls \o Calls1[e])
    <3>1. d.tools = (IF f.kind = "tool" /\ f.text # <<>> THEN Append(c.tools, f.text)
                     ELSE IF f.type = "done" THEN f.text ELSE c.tools)
      BY <2>4 DEF HasRead
    <3>2. calls \o <<>> = calls
      BY NothingAdded
    <3>3. Append(calls, e.text) = calls \o <<e.text>>
      BY <1>1, AppendIsConcat
    <3>4. f.type # "done"
      BY <2>2
    <3> QED BY <1>1, <1>5, <2>2, <2>7, <3>1, <3>2, <3>3, <3>4
  <2>10. d.fits /\ ~d.over
    BY <2>4, <2>5, <2>6, <2>7 DEF HasRead
  <2> QED BY <1>5, <2>4, <2>8, <2>9, <2>10 DEF Follows
<1>6. CASE p \in {"chat completions", "responses"}
  <2>1. r.frames = <<Frame("delta", 0, e.kind, e.text)>>
    BY Zenon, <1>6 DEF RenderEvent
  <2>2. p # "messages" /\ p \notin Lines
    BY Zenon, <1>6 DEF Lines
  <2> HIDE DEF r, d, v
  <2> QED BY <1>3, <1>5, <2>1, <2>2 DEF r, d, v
<1>7. CASE p \in Lines
  <2>1. r.frames = PartialLine(e) /\ p # "messages"
    BY Zenon, <1>7 DEF RenderEvent, Lines
  <2>2. CASE e.kind # "tool"
    <3>1. r.frames = <<Frame("line", 0, e.kind, e.text)>>
      BY <2>1, <2>2 DEF PartialLine
    <3> HIDE DEF r, d, v
    <3> QED BY <1>3, <1>5, <2>1, <2>2, <3>1 DEF r, d, v
  <2>3. CASE e.kind = "tool"
    <3>1. r.frames = <<>>
      BY <2>1, <2>3 DEF PartialLine
    <3>2. ReadAll(p, c, <<>>) = c
      <4>1. Frame("content_block_stop", 0, "text", <<>>) \in Frames
        BY EmptySeq, BlockFrames DEF Texts
      <4> QED BY <4>1, ReadOne
    <3>3. d = c /\ text \o Text1[e] = text
      BY <1>1, <2>3, <3>1, <3>2, NothingAdded
    <3> HIDE DEF d, v
    <3> QED BY <1>3, <1>7, <2>1, <3>3 DEF Follows, d, v
  <2> QED BY <2>2, <2>3
<1>8. p = "messages" \/ p \in {"chat completions", "responses"} \/ p \in Lines
  BY Zenon DEF Protocols, Lines
<1> QED BY Zenon, <1>3, <1>4, <1>6, <1>7, <1>8

-----------------------------------------------------------------------------
(* The pump: after any events every client has the text and the calls of   *)
(* what it had and of the events.                                          *)

(* The pump: every client keeps following.                                 *)
Pumps == [writer : Writers, clients : [Protocols -> Readers]]

Pumping(x, text, calls) ==
  /\ x \in Pumps /\ text \in Texts /\ calls \in Seq(Texts)
  /\ \A p \in Protocols : Follows(p, x.clients[p], x.writer, text, calls)

LEMMA PumpOneSays ==
  ASSUME NEW x, NEW e \in Events, NEW text, NEW calls, Pumping(x, text, calls)
  PROVE  Pumping(PumpOne(x, e), text \o Text1[e], calls \o Calls1[e])
<1> DEFINE v == WriterAfter(x.writer, e)
           cs == [p \in Protocols |-> ReadAll(p, x.clients[p], RenderEvent(p, x.writer, e).frames)]
           t == text \o Text1[e]
           u == calls \o Calls1[e]
<1>1. /\ x.writer \in Writers /\ text \in Texts /\ calls \in Seq(Texts)
      /\ \A p \in Protocols : x.clients[p] \in Readers /\ Follows(p, x.clients[p], x.writer, text, calls)
  BY DEF Pumping, Pumps
<1>2. PumpOne(x, e) = [writer |-> v, clients |-> cs]
  BY DEF PumpOne, WriterAfter
<1>3. \A p \in Protocols : cs[p] = ReadAll(p, x.clients[p], RenderEvent(p, x.writer, e).frames)
  OBVIOUS
<1>4. cs = [p \in Protocols |-> cs[p]]
  OBVIOUS
<1> HIDE DEF cs, v, t, u
<1>5. \A p \in Protocols : cs[p] \in Readers /\ v \in Writers /\ Follows(p, cs[p], v, t, u)
  <2> TAKE p \in Protocols
  <2> DEFINE c == x.clients[p]
             w == x.writer
  <2>1. c \in Readers /\ w \in Writers /\ Follows(p, c, w, text, calls)
    BY <1>1
  <2>2. cs[p] = ReadAll(p, c, RenderEvent(p, w, e).frames)
    BY <1>3
  <2> HIDE DEF c, w
  <2>3. LET d == ReadAll(p, c, RenderEvent(p, w, e).frames) IN
         /\ d \in Readers /\ WriterAfter(w, e) \in Writers
         /\ Follows(p, d, WriterAfter(w, e), text \o Text1[e], calls \o Calls1[e])
    BY <1>1, <2>1, EventIsRead
  <2> QED BY <2>2, <2>3 DEF w, v, t, u
<1>6. t \in Texts /\ u \in Seq(Texts)
  <2>1. Text1[e] \in Texts /\ Calls1[e] \in Seq(Texts)
    BY EventFields
  <2> QED BY <1>1, <2>1, ConcatProperties DEF t, u, Texts
<1>7. v \in Writers /\ cs \in [Protocols -> Readers]
  <2>1. "messages" \in Protocols
    BY DEF Protocols
  <2> QED BY <1>4, <1>5, <2>1
<1> DEFINE r == PumpOne(x, e)
<1>8. r.writer = v /\ r.clients = cs /\ r \in Pumps
  BY <1>2, <1>7 DEF Pumps
<1> HIDE DEF r
<1>9. Pumping(r, t, u)
  BY <1>5, <1>6, <1>8 DEF Pumping
<1> QED BY <1>9 DEF r, t, u

PumpsBy(f, evs) ==
  /\ f[0] = [writer |-> writer, clients |-> clients]
  /\ \A k \in 1..Len(evs) : f[k] = PumpOne(f[k - 1], evs[k])

LEMMA PumpInSteps ==
  ASSUME NEW s \in Seq(Events), NEW f, f = [k \in 0..Len(s) |-> f[k]], PumpsBy(f, s)
  PROVE  Pumped(s) = f[Len(s)]
<1> DEFINE n == Len(s)
           x0 == [writer |-> writer, clients |-> clients]
           value(h, k) == IF k = 0 THEN x0 ELSE PumpOne(h[k - 1], s[k])
           Solves(h) == h = [k \in 0..n |-> IF k = 0 THEN x0 ELSE PumpOne(h[k - 1], s[k])]
           g == CHOOSE h : Solves(h)
<1>1. n \in Nat /\ \A k \in 0..n : k # 0 => k \in 1..n
  BY LenProperties
<1>2. Solves(f)
  <2> HIDE DEF n
  <2>1. \A k \in 0..n : f[k] = value(f, k)
    BY <1>1 DEF PumpsBy, n
  <2>2. f = [k \in 0..n |-> value(f, k)]
    <3> HIDE DEF value
    <3>1. f = [k \in 0..n |-> f[k]]
      BY DEF n
    <3> QED BY <2>1, <3>1
  <2> QED BY ONLY <2>2
<1>3. Solves(g)
  <2> HIDE DEF Solves
  <2> QED BY <1>2
<1>4. Pumped(s) = g[n]
  BY DEF Pumped
<1> HIDE DEF g, n
<1>5. /\ g[0] = x0 /\ f[0] = x0
      /\ \A k \in 1..n : g[k] = PumpOne(g[k - 1], s[k]) /\ f[k] = PumpOne(f[k - 1], s[k])
  <2>1. 0 \in 0..n /\ \A k \in 1..n : k \in 0..n /\ k # 0
    BY <1>1
  <2> QED BY <1>3, <2>1 DEF PumpsBy, n
<1> HIDE DEF Solves
<1>6. f[n] = g[n]
  <2>1. \A k \in 1..n : f[k - 1] = g[k - 1] => f[k] = g[k]
    BY <1>5
  <2>2. f[0] = g[0]
    BY <1>5
  <2> QED BY <1>1, <2>1, <2>2, SameSteps
<1> QED BY <1>4, <1>6 DEF n

LEMMA PumpedSays ==
  ASSUME NEW s \in Seq(Events), NEW text, NEW calls,
         Pumping([writer |-> writer, clients |-> clients], text, calls)
  PROVE  Pumping(Pumped(s), text \o TextOf(s), calls \o CallsOf(s))
<1> DEFINE n == Len(s)
           x0 == [writer |-> writer, clients |-> clients]
           V == {x \in Pumps : \E t, u : Pumping(x, t, u)}
           step == [i \in 1..n |-> [v \in V |-> PumpOne(v, s[i])]]
<1>1. /\ n \in Nat /\ \A i \in 1..n : s[i] \in Events
      /\ \A i \in 1..n : i - 1 \in 0..n /\ i \in 0..n
  BY LenProperties
<1>2. x0 \in V /\ \A i \in 1..n, v \in V : step[i][v] = PumpOne(v, s[i]) /\ step[i][v] \in V
  <2>1. \A i \in 1..n, v \in V : PumpOne(v, s[i]) \in V
    <3> SUFFICES ASSUME NEW i \in 1..n, NEW v \in V PROVE PumpOne(v, s[i]) \in V
      OBVIOUS
    <3>1. PICK t, u : Pumping(v, t, u)
      OBVIOUS
    <3>2. Pumping(PumpOne(v, s[i]), t \o Text1[s[i]], u \o Calls1[s[i]])
      BY <1>1, <3>1, PumpOneSays
    <3> QED BY <3>2 DEF Pumping
  <2>2. x0 \in V
    BY DEF Pumping
  <2> HIDE DEF V, n, x0
  <2> QED BY <2>1, <2>2
<1> HIDE DEF step
<1>3. PICK f : Repeats(f, n, V, x0, step)
  <2> HIDE DEF V, n, x0
  <2> QED BY <1>1, <1>2, Iterates
<1> HIDE DEF n
<1>4. /\ f \in [0..n -> V] /\ f[0] = x0 /\ f = [k \in 0..n |-> f[k]]
      /\ \A i \in 1..n : f[i - 1] \in V /\ f[i] = PumpOne(f[i - 1], s[i])
  <2> HIDE DEF V, x0
  <2> QED BY <1>1, <1>2, <1>3 DEF Repeats
<1>5. Pumped(s) = f[n]
  <2>1. PumpsBy(f, s)
    BY <1>4 DEF PumpsBy, n
  <2> QED BY <1>4, <2>1, PumpInSteps DEF n
<1> DEFINE part(k) == SubSeq(s, 1, k)
           S == {k \in 0..n : Pumping(f[k], text \o TextOf(part(k)), calls \o CallsOf(part(k)))}
<1>0. text \in Texts /\ calls \in Seq(Texts)
  BY DEF Pumping
<1>6. 0 \in S
  <2>1. part(0) = <<>>
    BY SubSeqEmpty
  <2>2. 0 \in 0..n
    BY <1>1
  <2>3. TextOf(<<>>) = <<>> /\ CallsOf(<<>>) = <<>>
    <3> DEFINE e == [kind |-> "text", text |-> <<>>]
    <3>1. e \in Events
      BY EmptySeq DEF Events, Texts
    <3> HIDE DEF e
    <3> QED BY <3>1, AppendedEvent
  <2>4. text \o <<>> = text /\ calls \o <<>> = calls
    BY <1>0, NothingAdded
  <2> HIDE DEF part
  <2> QED BY <1>4, <2>1, <2>2, <2>3, <2>4
<1>7. ASSUME NEW k \in 0..(n - 1), k \in S PROVE k + 1 \in S
  <2>1. k \in 0..n /\ k + 1 \in 1..n /\ (k + 1) - 1 = k /\ k + 1 \in 0..n
    BY <1>1
  <2>2. part(k) \in Seq(Events) /\ s[k + 1] \in Events /\ part(k + 1) = Append(part(k), s[k + 1])
    BY PrefixGrows DEF n
  <2>3. f[k + 1] = PumpOne(f[k], s[k + 1])
    <3> HIDE DEF V
    <3> QED BY <1>4, <2>1
  <2> DEFINE e == s[k + 1]
             b == part(k)
  <2>4. Pumping(f[k], text \o TextOf(b), calls \o CallsOf(b))
    BY <1>7
  <2> HIDE DEF part, e, b
  <2>5. Pumping(PumpOne(f[k], e), (text \o TextOf(b)) \o Text1[e], (calls \o CallsOf(b)) \o Calls1[e])
    BY <2>2, <2>4, PumpOneSays DEF e
  <2>6. /\ TextOf(b) \in Texts /\ CallsOf(b) \in Seq(Texts)
        /\ TextOf(Append(b, e)) = TextOf(b) \o Text1[e]
        /\ CallsOf(Append(b, e)) = CallsOf(b) \o Calls1[e]
    BY <2>2, AppendedEvent DEF b, e
  <2>7. Text1[e] \in Texts /\ Calls1[e] \in Seq(Texts)
    BY <2>2, EventFields DEF e
  <2>8. (text \o TextOf(b)) \o Text1[e] = text \o TextOf(Append(b, e))
    <3> DEFINE y == TextOf(b)
               z == Text1[e]
    <3>1. y \in Texts /\ z \in Texts
      BY <2>6, <2>7
    <3> HIDE DEF S, y, z
    <3>2. (text \o y) \o z = text \o (y \o z)
      BY <1>0, <3>1, TextsRegroup
    <3> QED BY <2>6, <3>2 DEF y, z
  <2>9. (calls \o CallsOf(b)) \o Calls1[e] = calls \o CallsOf(Append(b, e))
    <3> DEFINE y == CallsOf(b)
               z == Calls1[e]
    <3>1. y \in Seq(Texts) /\ z \in Seq(Texts)
      BY <2>6, <2>7
    <3> HIDE DEF S, y, z
    <3>2. (calls \o y) \o z = calls \o (y \o z)
      BY <1>0, <3>1, CallsRegroup
    <3> QED BY <2>6, <3>2 DEF y, z
  <2>10. part(k + 1) = Append(b, e)
    BY <2>2 DEF b, e
  <2>11. f[k + 1] = PumpOne(f[k], e)
    BY <2>3 DEF e
  <2>12. Pumping(f[k + 1], text \o TextOf(part(k + 1)), calls \o CallsOf(part(k + 1)))
    BY <2>5, <2>8, <2>9, <2>10, <2>11
  <2> QED BY <2>1, <2>12
<1>8. 0..n \subseteq S
  <2> HIDE DEF S
  <2> QED BY <1>1, <1>6, <1>7, ClimbingTo
<1>9. n \in 0..n /\ part(n) = s
  BY <1>1, SubSeqFull DEF n
<1> HIDE DEF part
<1>10. Pumping(f[n], text \o TextOf(s), calls \o CallsOf(s))
  BY <1>8, <1>9
<1> QED BY <1>5, <1>10

-----------------------------------------------------------------------------
(* The openings and the ends of the streams (the adapters' mod.rs).        *)

LEMMA ReadTwo ==
  ASSUME NEW p \in Protocols, NEW c \in Readers, NEW f \in Frames, NEW g \in Frames
  PROVE  /\ <<f, g>> \in Seq(Frames) /\ <<f>> \in Seq(Frames)
         /\ ReadAll(p, c, <<f, g>>) = Read(p, Read(p, c, f), g)
<1>1. <<f>> \in Seq(Frames) /\ <<f, g>> \in Seq(Frames)
  OBVIOUS
<1>2. <<f, g>> = Append(<<f>>, g)
  OBVIOUS
<1>3. ReadAll(p, c, <<f>>) = Read(p, c, f)
  BY ReadOne
<1>4. ReadAll(p, c, Append(<<f>>, g)) = Read(p, ReadAll(p, c, <<f>>), g)
  BY <1>1, ReadAppend
<1> QED BY <1>1, <1>2, <1>3, <1>4

(* Marks and other frames without text.                                    *)
Bare(f) ==
  /\ f \in Frames /\ f.kind \notin {"text", "tool"}
  /\ f.type \notin {"message_start", "content_block_start", "content_block_delta",
                     "content_block_stop", "done"}

LEMMA BareFrames ==
  ASSUME NEW type \in FrameTypes, NEW kind \in {"none"} \union Reasons,
         type \notin {"message_start", "content_block_start", "content_block_delta",
                      "content_block_stop", "done"},
         type \in {"finish", "response.completed", "message_delta"} => kind \in Reasons
  PROVE  LET f == Frame(type, 0, kind, <<>>) IN Bare(f) /\ f.type = type /\ f.kind = kind
<1>1. <<>> \in Texts
  BY EmptySeq DEF Texts
<1>2. kind \notin {"text", "tool", "reasoning"}
  BY DEF Reasons
<1> QED BY <1>1, <1>2 DEF Frame, Frames, Bare

LEMMA BareRead ==
  ASSUME NEW p \in Protocols, NEW c \in Readers, NEW f, Bare(f), c.fits, ~c.over,
         p = "messages" => c.started /\ c.open = "none"
  PROVE  LET r == Read(p, c, f) IN
         /\ r \in Readers /\ r.fits /\ r.started /\ r.open = c.open
         /\ r.over <=> f.type \in Terminal(p)
         /\ r.text = c.text /\ r.tools = c.tools
         /\ r.reason = (IF f.type \in {"finish", "response.completed", "message_delta"} THEN f.kind
                        ELSE c.reason)
<1> DEFINE r == Read(p, c, f)
<1>1. r \in Readers /\ HasRead(r, p, c, f)
  BY ReadFields, ReadIsTyped DEF Bare
<1>2. Fits(p, c, f)
  BY DEF Fits, Bare
<1> HIDE DEF r
<1>3. r.reason = (IF f.type \in {"finish", "response.completed", "message_delta"} THEN f.kind
                  ELSE c.reason)
  BY <1>1 DEF HasRead, Bare
<1>4. r.text = c.text /\ r.tools = c.tools
  BY <1>1 DEF HasRead, Bare
<1>5. r.fits /\ r.started /\ (r.over <=> f.type \in Terminal(p)) /\ r.open = c.open
  BY <1>1, <1>2 DEF HasRead, Bare
<1> QED BY <1>1, <1>3, <1>4, <1>5 DEF r

(* What each protocol sends first.                                         *)
LEMMA OpeningIsRead ==
  ASSUME NEW p \in Protocols
  PROVE  LET d == ReadAll(p, NewClient, Preamble(p)) IN
         NewClient \in Readers /\ d \in Readers /\ Follows(p, d, NewWriter, <<>>, <<>>)
<1> DEFINE c == NewClient
           d == ReadAll(p, c, Preamble(p))
<1>0. <<>> \in Texts /\ <<>> \in Seq(Texts)
  BY EmptySeq DEF Texts
<1>1. /\ c \in Readers /\ c.fits /\ ~c.over /\ c.text = <<>> /\ c.tools = <<>>
      /\ c.open = "none" /\ c.index = 0
      /\ ~c.started
  BY <1>0 DEF NewClient, Readers, Reasons
<1>2. NewWriter.open = "none" /\ NewWriter.index = 0
  BY DEF NewWriter
<1> HIDE DEF c
<1>3. CASE p \in Lines
  <2>1. Preamble(p) = <<>>
    BY Zenon, <1>3 DEF Preamble, Lines
  <2>2. Mark("role") \in Frames
    BY <1>0 DEF Mark, Frame, Frames, FrameTypes
  <2>3. d = c
    BY <1>1, <2>1, <2>2, ReadOne
  <2> QED BY Zenon, <1>1, <1>3, <2>3 DEF Follows, Lines, c
<1>4. CASE p \in {"chat completions", "responses"}
  <2> DEFINE type == IF p = "responses" THEN "response.created" ELSE "role"
             f == Mark(type)
  <2>1. Preamble(p) = <<f>>
    BY Zenon, <1>4 DEF Preamble
  <2>2. Bare(f) /\ f.type = type
    BY BareFrames DEF Mark, FrameTypes
  <2>3. f.type \notin Terminal(p)
    BY Zenon, <1>4, <2>2 DEF Terminal
  <2> HIDE DEF f, d
  <2>4. d = Read(p, c, f)
    BY <1>1, <2>1, <2>2, ReadOne DEF d, Bare
  <2>5. p \notin Lines /\ p # "messages"
    BY Zenon, <1>4 DEF Lines
  <2>6. d \in Readers /\ d.fits /\ ~d.over /\ d.text = c.text /\ d.tools = c.tools
    BY <1>1, <2>2, <2>3, <2>4, <2>5, BareRead
  <2> QED BY <1>1, <2>5, <2>6 DEF Follows, c, d
<1>5. CASE p = "messages"
  <2> DEFINE f == Mark("message_start")
  <2>1. Preamble(p) = <<f>>
    BY <1>5 DEF Preamble
  <2>2. f \in Frames /\ f.type = "message_start" /\ f.kind = "none"
    BY <1>0 DEF Mark, Frame, Frames, FrameTypes
  <2> HIDE DEF f, d
  <2>3. d = Read(p, c, f)
    BY <1>1, <2>1, <2>2, ReadOne DEF d
  <2>4. d \in Readers /\ HasRead(d, p, c, f)
    BY <1>1, <2>2, <2>3, ReadFields, ReadIsTyped
  <2>5. Fits(p, c, f) /\ f.type \notin Terminal(p)
    BY <1>1, <1>5, <2>2 DEF Fits, Terminal
  <2> QED BY <1>1, <1>2, <1>5, <2>2, <2>4, <2>5 DEF Follows, HasRead, c, d, Lines
<1>6. p = "messages" \/ p \in {"chat completions", "responses"} \/ p \in Lines
  BY Zenon DEF Protocols, Lines
<1> QED BY Zenon, <1>3, <1>4, <1>5, <1>6

(* The Anthropic block that is open is closed before anything else.        *)
LEMMA ClosedFirst ==
  ASSUME NEW c \in Readers, NEW w \in Writers, NEW text \in Texts, NEW calls \in Seq(Texts),
         Follows("messages", c, w, text, calls)
  PROVE  LET d == ReadAll("messages", c, CloseOpen(w).frames) IN
         /\ CloseOpen(w).frames \in Seq(Frames)
         /\ d \in Readers /\ d.fits /\ ~d.over /\ d.started /\ d.open = "none"
         /\ d.text = text /\ d.tools = calls
<1>1. Stands(c, w.open, w.index, text, calls) /\ w \in Blocks
  BY FollowsIsStands DEF Writers, Blocks
<1> DEFINE r == CloseOpen(w)
           d == ReadAll("messages", c, r.frames)
<1>2. r.frames \in Seq(Frames) /\ Stands(d, "none", r.writer.index, text, calls)
  BY <1>1, CloseIsRead
<1> HIDE DEF d, r
<1>3. /\ r.frames \in Seq(Frames)
      /\ d \in Readers /\ d.fits /\ ~d.over /\ d.started /\ d.open = "none"
      /\ d.text = text /\ d.tools = calls
  BY <1>2 DEF Stands
<1> QED BY <1>3 DEF r, d

FailedReader(d) == d \in Readers /\ d.fits /\ d.over

LEMMA FailureIsRead ==
  ASSUME NEW p \in Protocols, NEW c \in Readers, NEW w \in Writers,
         NEW text \in Texts, NEW calls \in Seq(Texts), Follows(p, c, w, text, calls)
  PROVE  FailedReader(ReadAll(p, c, Failed(p, w)))
<1> DEFINE d == ReadAll(p, c, Failed(p, w))
           e == Mark("error")
           z == Mark("[DONE]")
<1>0. <<>> \in Texts /\ <<>> \in Seq(Texts)
  BY EmptySeq DEF Texts
<1>1. /\ Bare(e) /\ e.type = "error" /\ e.kind = "none" /\ Bare(z)
      /\ z.type = "[DONE]" /\ z.kind = "none"
  <2>1. Bare(e) /\ e.type = "error" /\ e.kind = "none"
    BY BareFrames DEF Mark, FrameTypes
  <2>2. Bare(z) /\ z.type = "[DONE]" /\ z.kind = "none"
    BY BareFrames DEF Mark, FrameTypes
  <2> QED BY <2>1, <2>2
<1>2. c.fits /\ ~c.over /\ (p = "messages" => c.started /\ c.open = w.open)
  BY DEF Follows
<1>3. e \in Frames /\ z \in Frames
  BY <1>1 DEF Bare
<1>4. CASE p = "chat completions"
  <2> DEFINE a == Read(p, c, e)
  <2>1. Failed(p, w) = <<e, z>>
    BY Zenon, <1>4 DEF Failed
  <2> HIDE DEF e, z
  <2>2. a \in Readers /\ a.fits /\ (a.over <=> e.type \in Terminal(p))
    BY Zenon, <1>1, <1>2, <1>4, BareRead
  <2>3. ~a.over /\ "[DONE]" \in Terminal(p)
    BY Zenon, <1>1, <1>4, <2>2 DEF Terminal
  <2> HIDE DEF a
  <2>4. FailedReader(Read(p, a, z))
    BY Zenon, <1>1, <1>4, <2>2, <2>3, BareRead DEF FailedReader
  <2>5. ReadAll(p, c, <<e, z>>) = Read(p, a, z)
    BY <1>3, ReadTwo DEF a
  <2> QED BY <2>1, <2>4, <2>5
<1>5. CASE p = "responses"
  <2>1. Failed(p, w) = <<e>>
    BY <1>5 DEF Failed
  <2> HIDE DEF e, z
  <2>2. e.type \in Terminal(p)
    BY <1>1, <1>5 DEF Terminal
  <2>3. FailedReader(Read(p, c, e))
    BY <1>1, <1>2, <1>5, <2>2, BareRead DEF FailedReader
  <2> QED BY <1>3, <2>1, <2>3, ReadOne
<1>6. CASE p = "messages"
  <2> DEFINE a == ReadAll(p, c, CloseOpen(w).frames)
  <2>1. Failed(p, w) = CloseOpen(w).frames \o <<e>>
    BY <1>6 DEF Failed
  <2>2. /\ CloseOpen(w).frames \in Seq(Frames)
        /\ a \in Readers /\ a.fits /\ ~a.over /\ a.started /\ a.open = "none"
    BY <1>6, ClosedFirst
  <2> HIDE DEF e, z, a
  <2>3. e.type \in Terminal(p)
    BY <1>1, <1>6 DEF Terminal
  <2>4. FailedReader(Read(p, a, e))
    BY <1>1, <2>2, <2>3, BareRead DEF FailedReader
  <2> DEFINE s == CloseOpen(w).frames
             t == <<e>>
  <2>5. s \in Seq(Frames) /\ t \in Seq(Frames) /\ ReadAll(p, a, t) = Read(p, a, e)
    BY <1>3, <2>2, ReadOne
  <2> HIDE DEF s, t
  <2>6. ReadAll(p, c, s \o t) = ReadAll(p, ReadAll(p, c, s), t)
    BY <2>5, ReadConcat
  <2> QED BY <2>1, <2>4, <2>5, <2>6 DEF s, t, a
<1>7. CASE p \in Lines
  <2> DEFINE f == Frame("done", 0, "error", <<>>)
  <2>1. Failed(p, w) = <<f>>
    BY Zenon, <1>7 DEF Failed, ErrorLine, Lines
  <2>2. f \in Frames /\ f.type = "done"
    BY <1>0 DEF Frame, Frames, FrameTypes, Reasons
  <2> HIDE DEF f
  <2>3. Read(p, c, f) \in Readers /\ HasRead(Read(p, c, f), p, c, f)
    BY <2>2, ReadFields, ReadIsTyped
  <2>4. Fits(p, c, f) /\ f.type \in Terminal(p)
    BY Zenon, <1>2, <1>7, <2>2 DEF Fits, Terminal, Lines
  <2>5. FailedReader(Read(p, c, f))
    BY <1>2, <2>3, <2>4 DEF HasRead, FailedReader
  <2> QED BY <2>1, <2>2, <2>5, ReadOne
<1>8. p \in {"chat completions", "responses", "messages"} \/ p \in Lines
  BY Zenon DEF Protocols, Lines
<1> QED BY Zenon, <1>4, <1>5, <1>6, <1>7, <1>8

Outputs == [text : Texts, tool_calls : Seq(Texts), finish : {"stop", "length", "tool_calls"}]

AnsweredReader(d, p, output) ==
  /\ d \in Readers /\ d.fits /\ d.over
  /\ [text |-> d.text, tools |-> d.tools, reason |-> d.reason] = Body(p, output)
  /\ (d.reason \in {"length", "max_tokens"}) <=> output.finish = "length"

LEMMA BodyFields ==
  ASSUME NEW p \in Protocols, NEW output, NEW d, d.text = output.text, d.tools = output.tool_calls,
         d.reason = (IF p = "messages" THEN StopReason(output.finish)
                     ELSE IF p \in Lines THEN DoneReason(output.finish) ELSE output.finish)
  PROVE  [text |-> d.text, tools |-> d.tools, reason |-> d.reason] = Body(p, output)
<1>1. CASE p = "messages"
  BY <1>1 DEF Body, MessageBody
<1>2. CASE p = "chat completions"
  BY Zenon, <1>2 DEF Body, ChatBody, Lines
<1>3. CASE p = "responses"
  BY <1>3 DEF Body, ResponseBody, Lines
<1>4. CASE p \in Lines
  BY Zenon, <1>4 DEF Body, OllamaBody, Lines
<1> QED BY Zenon, <1>1, <1>2, <1>3, <1>4 DEF Protocols, Lines

LEMMA AnswerIsRead ==
  ASSUME NEW p \in Protocols, NEW c \in Readers, NEW w \in Writers, NEW output \in Outputs,
         Follows(p, c, w, output.text, output.tool_calls)
  PROVE  AnsweredReader(ReadAll(p, c, Completed(p, w, output)), p, output)
<1> DEFINE text == output.text
           calls == output.tool_calls
           finish == output.finish
<1>0. /\ <<>> \in Texts /\ text \in Texts /\ calls \in Seq(Texts)
      /\ finish \in {"stop", "length", "tool_calls"}
  BY EmptySeq DEF Outputs, Texts
<1>1. c.fits /\ ~c.over /\ c.text = text /\ c.tools = (IF p \in Lines THEN <<>> ELSE calls)
  BY DEF Follows
<1>2. CASE p = "chat completions"
  <2> DEFINE f == Frame("finish", 0, finish, <<>>)
             g == Mark("[DONE]")
             a == Read(p, c, f)
             d == Read(p, a, g)
  <2>1. Completed(p, w, output) = <<f, g>>
    BY Zenon, <1>2 DEF Completed, ChatCompleted
  <2>2. Bare(f) /\ f.type = "finish" /\ f.kind = finish
    BY <1>0, BareFrames DEF FrameTypes, Reasons
  <2>3. Bare(g) /\ g.type = "[DONE]"
    BY BareFrames DEF Mark, FrameTypes
  <2>4. f.type \notin Terminal(p) /\ g.type \in Terminal(p) /\ p \notin Lines
    BY Zenon, <1>2, <2>2, <2>3 DEF Terminal, Lines
  <2> HIDE DEF f, g
  <2>5. /\ a \in Readers /\ a.fits /\ ~a.over /\ a.text = c.text
        /\ a.tools = c.tools /\ a.reason = finish
    BY Zenon, <1>1, <1>2, <2>2, <2>4, BareRead
  <2> HIDE DEF a
  <2>6. /\ d \in Readers /\ d.fits /\ d.over /\ d.text = a.text
        /\ d.tools = a.tools /\ d.reason = a.reason
    <3>1. p # "messages" /\ g.type \notin {"finish", "response.completed", "message_delta"}
      BY Zenon, <1>2, <2>3
    <3> QED BY <2>3, <2>4, <2>5, <3>1, BareRead
  <2>7. ReadAll(p, c, <<f, g>>) = d
    BY <2>2, <2>3, ReadTwo DEF a, Bare
  <2> HIDE DEF d
  <2>8. [text |-> d.text, tools |-> d.tools, reason |-> d.reason] = Body(p, output)
    BY Zenon, <1>1, <1>2, <2>4, <2>5, <2>6, BodyFields
  <2>9. (d.reason \in {"length", "max_tokens"}) <=> finish = "length"
    BY <1>0, <2>5, <2>6
  <2> QED BY <2>1, <2>6, <2>7, <2>8, <2>9 DEF AnsweredReader
<1>3. CASE p = "responses"
  <2> DEFINE f == Mark("response.output_text.done")
             g == Frame("response.completed", 0, finish, <<>>)
             a == Read(p, c, f)
             d == Read(p, a, g)
  <2>1. Completed(p, w, output) = <<f, g>>
    BY <1>3 DEF Completed, ResponseCompleted
  <2>2. Bare(f) /\ f.type = "response.output_text.done"
    BY BareFrames DEF Mark, FrameTypes
  <2>3. Bare(g) /\ g.type = "response.completed" /\ g.kind = finish
    BY <1>0, BareFrames DEF FrameTypes, Reasons
  <2>4. f.type \notin Terminal(p) /\ g.type \in Terminal(p) /\ p \notin Lines
    BY <1>3, <2>2, <2>3 DEF Terminal, Lines
  <2> HIDE DEF f, g
  <2>5. a \in Readers /\ a.fits /\ ~a.over /\ a.text = c.text /\ a.tools = c.tools
    BY <1>1, <1>3, <2>2, <2>4, BareRead
  <2> HIDE DEF a
  <2>6. /\ d \in Readers /\ d.fits /\ d.over /\ d.text = a.text
        /\ d.tools = a.tools /\ d.reason = finish
    BY <1>3, <2>3, <2>4, <2>5, BareRead
  <2>7. ReadAll(p, c, <<f, g>>) = d
    BY <2>2, <2>3, ReadTwo DEF a, Bare
  <2> HIDE DEF d
  <2>8. [text |-> d.text, tools |-> d.tools, reason |-> d.reason] = Body(p, output)
    BY <1>1, <1>3, <2>4, <2>5, <2>6, BodyFields
  <2>9. (d.reason \in {"length", "max_tokens"}) <=> finish = "length"
    BY <1>0, <2>6
  <2> QED BY <2>1, <2>6, <2>7, <2>8, <2>9 DEF AnsweredReader
<1>4. CASE p = "messages"
  <2> DEFINE f == Frame("message_delta", 0, StopReason(finish), <<>>)
             g == Mark("message_stop")
             s == CloseOpen(w).frames
             t == <<f, g>>
             b == ReadAll(p, c, s)
             a == Read(p, b, f)
             d == Read(p, a, g)
  <2>1. Completed(p, w, output) = s \o t
    BY <1>4 DEF Completed, MessagesCompleted
  <2>2. Bare(f) /\ f.type = "message_delta" /\ f.kind = StopReason(finish)
    <3>1. StopReason(finish) \in Reasons
      BY DEF StopReason, Reasons
    <3> QED BY <3>1, BareFrames DEF FrameTypes
  <2>3. Bare(g) /\ g.type = "message_stop"
    BY BareFrames DEF Mark, FrameTypes
  <2>4. f.type \notin Terminal(p) /\ g.type \in Terminal(p) /\ p \notin Lines
    BY <1>4, <2>2, <2>3 DEF Terminal, Lines
  <2>5. /\ s \in Seq(Frames)
        /\ b \in Readers /\ b.fits /\ ~b.over /\ b.started /\ b.open = "none"
        /\ b.text = text /\ b.tools = calls
    BY <1>0, <1>4, ClosedFirst
  <2> HIDE DEF f, g, b, s
  <2>6. /\ a \in Readers /\ a.fits /\ ~a.over /\ a.started /\ a.open = "none"
        /\ a.text = text /\ a.tools = calls
        /\ a.reason = StopReason(finish)
    BY <2>2, <2>4, <2>5, BareRead
  <2> HIDE DEF a
  <2>7. /\ d \in Readers /\ d.fits /\ d.over /\ d.text = text /\ d.tools = calls
        /\ d.reason = StopReason(finish)
    BY <2>3, <2>4, <2>6, BareRead
  <2>8. t \in Seq(Frames) /\ ReadAll(p, b, t) = d
    BY <2>2, <2>3, <2>5, ReadTwo DEF a, Bare
  <2> HIDE DEF t
  <2>9. ReadAll(p, c, s \o t) = ReadAll(p, ReadAll(p, c, s), t)
    BY <2>5, <2>8, ReadConcat
  <2> HIDE DEF d
  <2>10. [text |-> d.text, tools |-> d.tools, reason |-> d.reason] = Body(p, output)
    BY <1>4, <2>7, BodyFields
  <2>11. (d.reason \in {"length", "max_tokens"}) <=> finish = "length"
    BY <1>0, <2>7 DEF StopReason
  <2> QED BY <2>1, <2>7, <2>8, <2>9, <2>10, <2>11 DEF AnsweredReader, b
<1>5. CASE p \in Lines
  <2> DEFINE f == Frame("done", 0, DoneReason(finish), calls)
             d == Read(p, c, f)
  <2>1. Completed(p, w, output) = <<f>> /\ p # "messages"
    BY Zenon, <1>5 DEF Completed, FinalLine, Lines
  <2>2. /\ f \in Frames /\ f.type = "done" /\ f.kind = DoneReason(finish)
        /\ f.text = calls /\ f.kind \notin {"text", "tool"}
    BY <1>0 DEF Frame, Frames, FrameTypes, Reasons, DoneReason
  <2>3. Fits(p, c, f) /\ f.type \in Terminal(p)
    BY Zenon, <1>1, <1>5, <2>2 DEF Fits, Terminal, Lines
  <2> HIDE DEF f
  <2>4. d \in Readers /\ HasRead(d, p, c, f) /\ ReadAll(p, c, <<f>>) = d
    BY <2>2, ReadFields, ReadIsTyped, ReadOne
  <2> HIDE DEF d
  <2>5. d.fits /\ d.over /\ d.text = text /\ d.tools = calls /\ d.reason = DoneReason(finish)
    BY <1>1, <2>2, <2>3, <2>4 DEF HasRead
  <2>6. [text |-> d.text, tools |-> d.tools, reason |-> d.reason] = Body(p, output)
    BY <1>5, <2>1, <2>5, BodyFields
  <2>7. (d.reason \in {"length", "max_tokens"}) <=> finish = "length"
    BY <1>0, <2>5 DEF DoneReason
  <2> QED BY <2>1, <2>4, <2>5, <2>6, <2>7 DEF AnsweredReader
<1>6. p \in {"chat completions", "responses", "messages"} \/ p \in Lines
  BY Zenon DEF Protocols, Lines
<1> QED BY Zenon, <1>2, <1>3, <1>4, <1>5, <1>6

-----------------------------------------------------------------------------
(* The decoder: what it emits are events (stream_decoder.rs).              *)

(* A part of a text is a text.                                             *)
LEMMA PartIsText ==
  ASSUME NEW t \in Texts, NEW a \in Nat \ {0}, NEW b \in Int, b <= Len(t)
  PROVE  SubSeq(t, a, b) \in Texts
<1> DEFINE Sym == UNION {ToSet(text) : text \in Vocabulary}
<1>1. Texts = Seq(Sym)
  BY DEF Texts
<1> HIDE DEF Sym
<1>2. Len(t) \in Nat /\ \A i \in 1..Len(t) : t[i] \in Sym
  BY <1>1, LenProperties
<1>3. \A i \in a..b : t[i] \in Sym
  BY <1>2
<1> QED BY <1>1, <1>3, SubSeqProperties

LEMMA EmptyText ==
  /\ <<>> \in Texts /\ \A t \in Texts : Len(t) \in Nat
  /\ \A s \in Texts, t \in Texts : s \o t \in Texts
<1>1. <<>> \in Texts
  BY EmptySeq DEF Texts
<1>2. \A t \in Texts : Len(t) \in Nat
  BY LenProperties DEF Texts
<1>3. \A s \in Texts, t \in Texts : s \o t \in Texts
  BY ConcatProperties DEF Texts
<1> QED BY <1>1, <1>2, <1>3

LEMMA FindIsWithin ==
  ASSUME NEW t \in Texts, NEW mark, Len(mark) \in Nat
  PROVE  /\ Find(t, mark) \in Nat
         /\ Find(t, mark) > 0 => Find(t, mark) + Len(mark) <= Len(t) + 1
<1> DEFINE at == {i \in 1..(Len(t) - Len(mark) + 1) : SubSeq(t, i, i + Len(mark) - 1) = mark}
<1>1. Len(t) \in Nat
  BY EmptyText
<1>2. Find(t, mark) = IF at = {} THEN 0 ELSE Min(at)
  BY DEF Find
<1>3. at \in SUBSET Nat
  OBVIOUS
<1>4. at # {} => Min(at) \in at
  <2> HIDE DEF at
  <2> QED BY <1>3, LeastIsIn
<1>5. \A i \in at : i \in Nat /\ i + Len(mark) <= Len(t) + 1
  BY <1>1
<1> HIDE DEF at
<1> QED BY <1>2, <1>4, <1>5

LEMMA AroundMark ==
  ASSUME NEW t \in Texts, NEW mark, Len(mark) \in Nat, NEW at \in Nat \ {0}, at + Len(mark) <= Len(t) + 1
  PROVE  Before(t, at) \in Texts /\ After(t, at, mark) \in Texts
<1>1. Len(t) \in Nat
  BY EmptyText
<1>2. SubSeq(t, 1, at - 1) \in Texts
  BY <1>1, PartIsText
<1>3. SubSeq(t, at + Len(mark), Len(t)) \in Texts
  BY <1>1, PartIsText
<1> QED BY <1>2, <1>3 DEF Before, After

LEMMA TrimmedText ==
  ASSUME NEW t \in Texts
  PROVE  TrimNewlines(t) \in Texts /\ Trim(t) \in Texts
<1>1. ASSUME NEW s \in Texts PROVE TrimNewlines(s) \in Texts
  <2> DEFINE rest == {i \in 1..Len(s) : s[i] # "n"}
  <2>1. TrimNewlines(s) = IF rest = {} THEN <<>> ELSE SubSeq(s, Min(rest), Len(s))
    BY DEF TrimNewlines
  <2>2. Len(s) \in Nat /\ <<>> \in Texts
    BY EmptyText
  <2>3. rest \in SUBSET Nat /\ \A i \in rest : i \in Nat \ {0}
    BY <2>2
  <2> HIDE DEF rest
  <2>4. rest # {} => Min(rest) \in rest
    BY <2>3, LeastIsIn
  <2>5. ASSUME rest # {} PROVE SubSeq(s, Min(rest), Len(s)) \in Texts
    <3> DEFINE m == Min(rest)
    <3>0. m \in rest
      BY <2>4, <2>5
    <3>1. m \in Nat \ {0} /\ Len(s) \in Int /\ Len(s) <= Len(s)
      <4> HIDE DEF m
      <4> QED BY <2>2, <2>3, <3>0
    <3> HIDE DEF m
    <3>2. SubSeq(s, m, Len(s)) \in Texts
      BY <3>1, PartIsText
    <3> QED BY <3>2 DEF m
  <2> QED BY <2>1, <2>2, <2>5
<1>2. ASSUME NEW s \in Texts PROVE Reverse(s) \in Texts
  <2> DEFINE Sym == UNION {ToSet(text) : text \in Vocabulary}
             r == Reverse(s)
             n == Len(s)
  <2>1. Texts = Seq(Sym)
    BY DEF Texts
  <2> HIDE DEF Sym
  <2>2. n \in Nat /\ \A i \in 1..n : s[i] \in Sym
    BY <2>1, LenProperties
  <2>3. r = [i \in 1..n |-> s[(n - i) + 1]]
    BY DEF Reverse
  <2> HIDE DEF r, n
  <2>4. DOMAIN r = 1..n /\ r = [i \in 1..n |-> r[i]] /\ \A i \in 1..n : r[i] \in Sym
    BY <2>2, <2>3
  <2>5. r \in Seq(Sym)
    BY <2>2, <2>4, FunctionIsSequenceOf
  <2> QED BY <2>1, <2>5 DEF r
<1>3. Trim(t) \in Texts
  <2>1. Reverse(TrimNewlines(t)) \in Texts
    BY <1>1, <1>2
  <2>2. TrimNewlines(Reverse(TrimNewlines(t))) \in Texts
    BY <1>1, <2>1
  <2> QED BY <1>2, <2>2 DEF Trim
<1> QED BY <1>1, <1>3

LEMMA HeldIsWithin ==
  ASSUME NEW t \in Texts, NEW watched
  PROVE  HeldBack(t, watched) \in 0..Len(t)
<1> DEFINE S == {n \in 1..Len(t) : \E w \in watched :
                   n < Len(w) /\ SubSeq(t, Len(t) - n + 1, Len(t)) = SubSeq(w, 1, n)}
<1>1. Len(t) \in Nat /\ S \in SUBSET (1..Len(t))
  BY EmptyText
<1>2. HeldBack(t, watched) = Max({0} \union S)
  BY DEF HeldBack
<1> HIDE DEF S
<1> QED BY <1>1, <1>2, LargestOfSome

LEMMA PrefixIsText ==
  ASSUME NEW d, d.pending \in Texts, NEW watched, NEW final \in BOOLEAN
  PROVE  TakePrefix(d, watched, final).shown \in Texts /\ TakePrefix(d, watched, final).kept \in Texts
<1> DEFINE t == d.pending
           hold == IF final THEN 0 ELSE HeldBack(t, watched)
<1>1. TakePrefix(d, watched, final) = [shown |-> SubSeq(t, 1, Len(t) - hold),
                                       kept |-> SubSeq(t, Len(t) - hold + 1, Len(t))]
  BY DEF TakePrefix
<1>2. Len(t) \in Nat /\ HeldBack(t, watched) \in 0..Len(t)
  BY EmptyText, HeldIsWithin
<1>3. hold \in 0..Len(t)
  BY <1>2
<1> HIDE DEF hold
<1>4. t \in Texts
  OBVIOUS
<1> HIDE DEF t
<1>5. SubSeq(t, 1, Len(t) - hold) \in Texts
  BY <1>2, <1>3, <1>4, PartIsText
<1>6. SubSeq(t, Len(t) - hold + 1, Len(t)) \in Texts
  BY <1>2, <1>3, <1>4, PartIsText
<1> QED BY <1>1, <1>5, <1>6

Drains == [dec : Decoders, out : Seq(Events), going : BOOLEAN, failed : BOOLEAN]

LEMMA DrainResults ==
  ASSUME NEW d \in Decoders, NEW out \in Seq(Events)
  PROVE  Ended(d, out) \in Drains /\ GoingOn(d, out) \in Drains /\ NotParsed(d, out) \in Drains
BY DEF Ended, GoingOn, NotParsed, Drains

LEMMA EmittedEvents ==
  ASSUME NEW out \in Seq(Events), NEW text \in Texts
  PROVE  Emitted(out, Reasoning(text)) \in Seq(Events) /\ Emitted(out, TextDelta(text)) \in Seq(Events)
<1>1. Reasoning(text) \in Events /\ TextDelta(text) \in Events
  BY DEF Reasoning, TextDelta, Events
<1>2. ASSUME NEW e \in Events PROVE Emitted(out, e) \in Seq(Events)
  BY AppendProperties DEF Emitted
<1> QED BY <1>1, <1>2

LEMMA DecoderFields ==
  ASSUME NEW d \in Decoders
  PROVE  /\ d.pending \in Texts /\ d.tool_buffer \in Texts /\ d.tool_call_count \in Nat
         /\ d.stops \in SUBSET UNION StopSets /\ d.trimming \in BOOLEAN
BY DEF Decoders

(* Setting fields of a decoder keeps it one.                               *)
LEMMA DecoderWith ==
  ASSUME NEW d \in Decoders, NEW x \in Texts, NEW y \in Texts, NEW n \in Nat
  PROVE  /\ [d EXCEPT !.pending = x] \in Decoders
         /\ [d EXCEPT !.pending = x, !.stopped = TRUE] \in Decoders
         /\ [d EXCEPT !.pending = x, !.thinking = FALSE, !.trimming = TRUE] \in Decoders
         /\ [d EXCEPT !.pending = x, !.in_tool_call = TRUE, !.tool_buffer = y] \in Decoders
         /\ [d EXCEPT !.tool_buffer = y, !.pending = x] \in Decoders
         /\ [d EXCEPT !.pending = x, !.tool_buffer = y, !.in_tool_call = FALSE,
                      !.tool_call_count = n] \in Decoders
         /\ \A b \in BOOLEAN : [d EXCEPT !.pending = x, !.trimming = b] \in Decoders
<1> HIDE DEF Texts
<1>1. [d EXCEPT !.pending = x] \in Decoders
  BY DEF Decoders
<1>2. [d EXCEPT !.pending = x, !.stopped = TRUE] \in Decoders
  BY DEF Decoders
<1>3. [d EXCEPT !.pending = x, !.thinking = FALSE, !.trimming = TRUE] \in Decoders
  BY DEF Decoders
<1>4. [d EXCEPT !.pending = x, !.in_tool_call = TRUE, !.tool_buffer = y] \in Decoders
  BY DEF Decoders
<1>5. [d EXCEPT !.tool_buffer = y, !.pending = x] \in Decoders
  BY DEF Decoders
<1>6. [d EXCEPT !.pending = x, !.tool_buffer = y, !.in_tool_call = FALSE,
                !.tool_call_count = n] \in Decoders
  BY DEF Decoders
<1>7. \A b \in BOOLEAN : [d EXCEPT !.pending = x, !.trimming = b] \in Decoders
  BY DEF Decoders
<1> QED BY Zenon, <1>1, <1>2, <1>3, <1>4, <1>5, <1>6, <1>7

LEMMA ThinkingIsDrained ==
  ASSUME NEW d \in Decoders, NEW out \in Seq(Events), NEW final \in BOOLEAN
  PROVE  DrainThinking(d, out, final) \in Drains
<1> DEFINE at == Find(d.pending, THINK_END)
           t == TakePrefix(d, {THINK_END}, final)
           a == After(d.pending, at, THINK_END)
           b == Before(d.pending, at)
           d1 == [d EXCEPT !.pending = a, !.thinking = FALSE, !.trimming = TRUE]
           d2 == [d EXCEPT !.pending = t.kept]
<1>1. d.pending \in Texts /\ <<>> \in Texts
  BY DecoderFields, EmptyText
<1>2. Len(THINK_END) \in Nat /\ Len(THINK_END) = 2
  BY DEF THINK_END
<1>3. at \in Nat /\ (at > 0 => at + Len(THINK_END) <= Len(d.pending) + 1)
  BY <1>1, <1>2, FindIsWithin
<1>4. t.shown \in Texts /\ t.kept \in Texts
  BY <1>1, PrefixIsText
<1>5. DrainThinking(d, out, final) = IF at > 0 THEN GoingOn(d1, Emitted(out, Reasoning(b)))
                                     ELSE Ended(d2, Emitted(out, Reasoning(t.shown)))
  BY DEF DrainThinking
<1> HIDE DEF at, t
<1>6. ASSUME at > 0 PROVE a \in Texts /\ b \in Texts
  <2>1. at \in Nat \ {0} /\ at + Len(THINK_END) <= Len(d.pending) + 1
    BY <1>3, <1>6
  <2> QED BY Zenon, <1>1, <1>2, <2>1, AroundMark
<1> HIDE DEF a, b
<1>7. (at > 0 => d1 \in Decoders) /\ d2 \in Decoders
  BY Zenon, <1>1, <1>4, <1>6, DecoderWith
<1> HIDE DEF d1, d2
<1>8. CASE at > 0
  BY <1>5, <1>6, <1>7, <1>8, EmittedEvents, DrainResults
<1>9. CASE ~(at > 0)
  BY <1>4, <1>5, <1>7, <1>9, EmittedEvents, DrainResults
<1> QED BY <1>8, <1>9

LEMMA ToolCallIsDrained ==
  ASSUME NEW d \in Decoders, NEW out \in Seq(Events)
  PROVE  DrainToolCall(d, out) \in Drains
<1> DEFINE buffer == d.tool_buffer \o d.pending
           at == Find(buffer, TOOL_CALL_END)
           a == After(buffer, at, TOOL_CALL_END)
           b == Before(buffer, at)
           n == d.tool_call_count + 1
           d1 == [d EXCEPT !.tool_buffer = buffer, !.pending = <<>>]
           d2 == [d EXCEPT !.pending = a, !.tool_buffer = <<>>, !.in_tool_call = FALSE, !.tool_call_count = n]
           e == ToolCall(Trim(b))
<1>1. d.pending \in Texts /\ d.tool_buffer \in Texts /\ <<>> \in Texts /\ n \in Nat
  BY DecoderFields, EmptyText
<1>2. buffer \in Texts
  BY <1>1, EmptyText
<1>3. Len(TOOL_CALL_END) \in Nat /\ Len(TOOL_CALL_END) = 2
  BY DEF TOOL_CALL_END
<1>4. DrainToolCall(d, out) = (CASE at = 0 -> Ended(d1, out)
                                 [] at > 0 /\ ~Parses(b) -> NotParsed(d, out)
                                 [] OTHER -> GoingOn(d2, Append(out, e)))
  BY DEF DrainToolCall
<1> HIDE DEF n, buffer
<1>5. at \in Nat /\ (at > 0 => at + Len(TOOL_CALL_END) <= Len(buffer) + 1)
  BY <1>2, <1>3, FindIsWithin
<1> HIDE DEF at
<1>6. ASSUME at > 0 PROVE a \in Texts /\ b \in Texts
  <2>1. at \in Nat \ {0} /\ at + Len(TOOL_CALL_END) <= Len(buffer) + 1
    BY <1>5, <1>6
  <2> QED BY <1>2, <1>3, <2>1, AroundMark
<1> HIDE DEF a
<1>7. at > 0 => d2 \in Decoders
  BY Zenon, <1>1, <1>6, DecoderWith
<1>8. d1 \in Decoders
  BY Zenon, <1>1, <1>2, DecoderWith
<1>9. at > 0 /\ Parses(b) => e \in Events
  <2> SUFFICES ASSUME at > 0, Parses(b) PROVE e \in Events
    OBVIOUS
  <2>1. Trim(b) \in Texts /\ Trim(b) # <<>>
    BY <1>6, TrimmedText DEF Parses
  <2> QED BY <2>1 DEF ToolCall, Events
<1> HIDE DEF b, d1, d2, e
<1>10. CASE at = 0
  BY <1>4, <1>8, <1>10, DrainResults
<1>11. CASE at > 0 /\ ~Parses(b)
  <2>1. at # 0
    BY <1>5, <1>11
  <2>2. DrainToolCall(d, out) = NotParsed(d, out)
    BY ONLY <1>4, <1>11, <2>1
  <2> QED BY <2>2, DrainResults
<1>12. CASE at > 0 /\ Parses(b)
  <2>1. DrainToolCall(d, out) = GoingOn(d2, Append(out, e))
    BY <1>4, <1>5, <1>12
  <2>2. Append(out, e) \in Seq(Events)
    BY <1>9, <1>12, AppendProperties
  <2> QED BY <1>7, <1>12, <2>1, <2>2, DrainResults
<1> QED BY <1>5, <1>10, <1>11, <1>12

LEMMA StopIsWithin ==
  ASSUME NEW d \in Decoders
  PROVE  /\ FirstStop(d) \in Nat
         /\ FirstStop(d) > 0 => FirstStop(d) <= Len(d.pending) + 1
<1> DEFINE at == {Find(d.pending, s) : s \in d.stops} \ {0}
<1>1. d.pending \in Texts /\ d.stops \in SUBSET UNION StopSets /\ Len(d.pending) \in Nat
  BY DecoderFields, EmptyText
<1>2. \A x \in at : x \in Nat /\ x <= Len(d.pending) + 1
  <2> SUFFICES ASSUME NEW s \in d.stops, Find(d.pending, s) # 0
               PROVE  Find(d.pending, s) \in Nat /\ Find(d.pending, s) <= Len(d.pending) + 1
    OBVIOUS
  <2>1. s \in Seq(ToSet(s))
    BY <1>1, StreamingAssumption
  <2>2. Len(s) \in Nat
    BY <2>1, LenProperties
  <2>3. /\ Find(d.pending, s) \in Nat
        /\ Find(d.pending, s) > 0 => Find(d.pending, s) + Len(s) <= Len(d.pending) + 1
    BY <1>1, <2>2, FindIsWithin
  <2> QED BY <1>1, <2>2, <2>3
<1>3. FirstStop(d) = IF at = {} THEN 0 ELSE Min(at)
  BY DEF FirstStop
<1>4. at \in SUBSET Nat
  BY <1>2
<1> HIDE DEF at
<1>5. at # {} => Min(at) \in at
  BY <1>4, LeastIsIn
<1> QED BY <1>2, <1>3, <1>5

LEMMA VisibleIsDrained ==
  ASSUME NEW d \in Decoders, NEW out \in Seq(Events), NEW final \in BOOLEAN
  PROVE  DrainVisible(d, out, final) \in Drains
<1> DEFINE stop == FirstStop(d)
           tool == Find(d.pending, TOOL_CALL_START)
           t == TakePrefix(d, {TOOL_CALL_START} \union d.stops, final)
           a == After(d.pending, tool, TOOL_CALL_START)
           b == Before(d.pending, tool)
           z == Before(d.pending, stop)
           d1 == [d EXCEPT !.pending = <<>>, !.stopped = TRUE]
           d2 == [d EXCEPT !.pending = <<>>, !.in_tool_call = TRUE, !.tool_buffer = a]
           d3 == [d EXCEPT !.pending = t.kept]
           first == stop > 0 /\ (tool = 0 \/ stop < tool)
           second == tool > 0 /\ (stop = 0 \/ tool <= stop)
<1>1. d.pending \in Texts /\ <<>> \in Texts /\ Len(d.pending) \in Nat
  BY DecoderFields, EmptyText
<1>2. Len(TOOL_CALL_START) \in Nat /\ Len(TOOL_CALL_START) = 2
  BY DEF TOOL_CALL_START
<1>3. tool \in Nat /\ (tool > 0 => tool + Len(TOOL_CALL_START) <= Len(d.pending) + 1)
  BY <1>1, <1>2, FindIsWithin
<1>4. t.shown \in Texts /\ t.kept \in Texts
  BY <1>1, PrefixIsText
<1>5. stop \in Nat /\ (stop > 0 => stop <= Len(d.pending) + 1)
  BY StopIsWithin
<1>6. DrainVisible(d, out, final) =
        (CASE first -> Ended(d1, Emitted(out, TextDelta(z)))
           [] second -> GoingOn(d2, Emitted(out, TextDelta(b)))
           [] OTHER -> Ended(d3, Emitted(out, TextDelta(t.shown))))
  BY DEF DrainVisible
<1> HIDE DEF stop, tool, t
<1>7. ASSUME tool > 0 PROVE a \in Texts /\ b \in Texts
  <2>1. tool \in Nat \ {0} /\ tool + Len(TOOL_CALL_START) <= Len(d.pending) + 1
    BY <1>3, <1>7
  <2> QED BY <1>1, <1>2, <2>1, AroundMark
<1>8. stop > 0 => z \in Texts
  <2>1. stop > 0 => SubSeq(d.pending, 1, stop - 1) \in Texts
    BY <1>1, <1>5, PartIsText
  <2> QED BY <2>1 DEF Before
<1> HIDE DEF a, b, z
<1>9. d1 \in Decoders
  BY Zenon, <1>1, DecoderWith
<1>10. tool > 0 => d2 \in Decoders
  BY Zenon, <1>1, <1>7, DecoderWith
<1>11. d3 \in Decoders
  BY Zenon, <1>4, DecoderWith
<1>12. ~(first /\ second)
  BY <1>3, <1>5
<1>13. (first => stop > 0) /\ (second => tool > 0)
  OBVIOUS
<1> HIDE DEF d1, d2, d3, first, second
<1>14. CASE first
  <2>1. DrainVisible(d, out, final) = Ended(d1, Emitted(out, TextDelta(z)))
    BY ONLY <1>6, <1>12, <1>14
  <2> QED BY <1>8, <1>9, <1>13, <1>14, <2>1, EmittedEvents, DrainResults
<1>15. CASE second
  <2>1. DrainVisible(d, out, final) = GoingOn(d2, Emitted(out, TextDelta(b)))
    BY ONLY <1>6, <1>12, <1>15
  <2> QED BY <1>7, <1>10, <1>13, <1>15, <2>1, EmittedEvents, DrainResults
<1>16. CASE ~first /\ ~second
  <2>1. DrainVisible(d, out, final) = Ended(d3, Emitted(out, TextDelta(t.shown)))
    BY ONLY <1>6, <1>16
  <2> QED BY <1>4, <1>11, <2>1, EmittedEvents, DrainResults
<1> QED BY <1>14, <1>15, <1>16

LEMMA TurnIsDrained ==
  ASSUME NEW d \in Decoders, NEW out \in Seq(Events), NEW final \in BOOLEAN
  PROVE  DrainOnce(d, out, final) \in Drains
<1> DEFINE t == Trimmed(d)
           d0 == [d EXCEPT !.pending = <<>>]
           A == d.stopped
           B == ~d.stopped /\ d.thinking
           C == ~d.stopped /\ ~d.thinking /\ d.in_tool_call
<1>1. t \in Decoders
  <2>1. d.pending \in Texts
    BY DecoderFields
  <2> DEFINE x == TrimNewlines(d.pending)
             b == x = <<>>
  <2>2. x \in Texts /\ b \in BOOLEAN
    BY <2>1, TrimmedText
  <2>3. t = IF ~d.trimming THEN d ELSE [d EXCEPT !.pending = x, !.trimming = b]
    BY DEF Trimmed
  <2> HIDE DEF x, b, t
  <2> QED BY Zenon, <2>2, <2>3, DecoderWith
<1>2. d0 \in Decoders
  BY Zenon, EmptyText, DecoderWith
<1>3. DrainOnce(d, out, final) =
        (CASE A -> Ended(d0, out)
           [] B -> DrainThinking(d, out, final)
           [] C -> DrainToolCall(d, out)
           [] OTHER -> IF t.trimming /\ ~final THEN Ended(t, out) ELSE DrainVisible(t, out, final))
  BY DEF DrainOnce
<1>4. ~(A /\ B) /\ ~(A /\ C) /\ ~(B /\ C)
  OBVIOUS
<1> DEFINE v == IF t.trimming /\ ~final THEN Ended(t, out) ELSE DrainVisible(t, out, final)
<1>5. /\ Ended(d0, out) \in Drains /\ DrainThinking(d, out, final) \in Drains
      /\ DrainToolCall(d, out) \in Drains
  BY <1>2, ThinkingIsDrained, ToolCallIsDrained, DrainResults
<1>6. v \in Drains
  <2> HIDE DEF t
  <2> QED BY <1>1, VisibleIsDrained, DrainResults
<1> HIDE DEF v, A, B, C, d0
<1>7. DrainOnce(d, out, final) \in {Ended(d0, out), DrainThinking(d, out, final), DrainToolCall(d, out), v}
  <2>1. DrainOnce(d, out, final) = (CASE A -> Ended(d0, out)
           [] B -> DrainThinking(d, out, final)
           [] C -> DrainToolCall(d, out)
           [] OTHER -> v)
    BY <1>3 DEF v
  <2> HIDE DEF t
  <2> QED BY ONLY <1>4, <2>1
<1> QED BY <1>5, <1>6, <1>7

LEMMA TurnsAreCounted ==
  ASSUME NEW d \in Decoders
  PROVE  Turns(d) \in Nat
<1>1. d.pending \in Texts /\ d.tool_buffer \in Texts
  BY DecoderFields
<1>2. Len(d.pending) \in Nat /\ Len(d.tool_buffer) \in Nat
  BY <1>1, EmptyText
<1> DEFINE m == Len(d.tool_buffer)
           n == Len(d.pending)
<1>3. Turns(d) = m + n + 1
  BY DEF Turns
<1>4. m \in Nat /\ n \in Nat
  BY <1>2
<1> HIDE DEF m, n
<1> QED BY ONLY <1>3, <1>4

DrainsBy(f, d, out, final) ==
  /\ f[0] = GoingOn(d, out)
  /\ \A k \in 1..Turns(d) :
       f[k] = IF f[k - 1].going THEN DrainOnce(f[k - 1].dec, f[k - 1].out, final) ELSE f[k - 1]

LEMMA DrainInSteps ==
  ASSUME NEW d \in Decoders, NEW out, NEW final, NEW f, f = [k \in 0..Turns(d) |-> f[k]],
         DrainsBy(f, d, out, final)
  PROVE  Drain(d, out, final) = f[Turns(d)]
<1> DEFINE n == Turns(d)
           x0 == GoingOn(d, out)
           next(x) == IF x.going THEN DrainOnce(x.dec, x.out, final) ELSE x
           value(h, k) == IF k = 0 THEN x0 ELSE next(h[k - 1])
           Solves(h) == h = [k \in 0..n |-> IF k = 0 THEN x0 ELSE next(h[k - 1])]
           g == CHOOSE h : Solves(h)
<1>1. n \in Nat /\ \A k \in 0..n : k # 0 => k \in 1..n
  <2>1. n \in Nat
    BY TurnsAreCounted
  <2> HIDE DEF n
  <2> QED BY <2>1
<1>2. Solves(f)
  <2> HIDE DEF n
  <2>1. \A k \in 0..n : f[k] = value(f, k)
    BY <1>1 DEF DrainsBy, n
  <2>2. f = [k \in 0..n |-> value(f, k)]
    <3> HIDE DEF value
    <3>1. f = [k \in 0..n |-> f[k]]
      BY DEF n
    <3> QED BY <2>1, <3>1
  <2> QED BY ONLY <2>2
<1>3. Solves(g)
  <2> HIDE DEF Solves
  <2> QED BY <1>2
<1>4. Drain(d, out, final) = g[n]
  BY DEF Drain
<1> HIDE DEF g, n
<1>5. /\ g[0] = x0 /\ f[0] = x0
      /\ \A k \in 1..n : g[k] = next(g[k - 1]) /\ f[k] = next(f[k - 1])
  <2>1. 0 \in 0..n /\ \A k \in 1..n : k \in 0..n /\ k # 0
    BY <1>1
  <2>2. f[0] = x0 /\ \A k \in 1..n : f[k] = next(f[k - 1])
    BY DEF DrainsBy, n
  <2> HIDE DEF next
  <2>3. g[0] = x0 /\ \A k \in 1..n : g[k] = next(g[k - 1])
    BY <1>3, <2>1
  <2> QED BY <2>2, <2>3
<1> HIDE DEF Solves
<1>6. f[n] = g[n]
  <2> HIDE DEF next
  <2>1. \A k \in 1..n : f[k - 1] = g[k - 1] => f[k] = g[k]
    BY <1>5
  <2>2. f[0] = g[0]
    BY <1>5
  <2> QED BY <1>1, <2>1, <2>2, SameSteps
<1> QED BY <1>4, <1>6 DEF n

(* The loop of drain, one turn after another.                              *)
LEMMA DrainBySteps ==
  ASSUME NEW d \in Decoders, NEW out \in Seq(Events), NEW final \in BOOLEAN
  PROVE  \E f \in [0..Turns(d) -> Drains] :
           DrainsBy(f, d, out, final) /\ Drain(d, out, final) = f[Turns(d)]
<1> DEFINE n == Turns(d)
           x0 == GoingOn(d, out)
           next(x) == IF x.going THEN DrainOnce(x.dec, x.out, final) ELSE x
           step == [i \in 1..n |-> [x \in Drains |-> next(x)]]
<1>1. n \in Nat /\ \A i \in 1..n : i - 1 \in 0..n
  <2>1. n \in Nat
    BY TurnsAreCounted
  <2> HIDE DEF n
  <2> QED BY <2>1
<1>2. x0 \in Drains /\ \A i \in 1..n, x \in Drains : step[i][x] = next(x) /\ step[i][x] \in Drains
  <2>1. \A x \in Drains : x.dec \in Decoders /\ x.out \in Seq(Events)
    BY DEF Drains
  <2>2. \A x \in Drains : next(x) \in Drains
    BY <2>1, TurnIsDrained
  <2>3. x0 \in Drains
    BY DrainResults
  <2> HIDE DEF next
  <2> QED BY <2>2, <2>3
<1> HIDE DEF step, n, x0
<1>3. PICK f : Repeats(f, n, Drains, x0, step)
  BY <1>1, <1>2, Iterates
<1>4. /\ f \in [0..n -> Drains] /\ f[0] = x0 /\ f = [k \in 0..n |-> f[k]]
      /\ \A i \in 1..n : f[i] = next(f[i - 1])
  <2> HIDE DEF next
  <2> QED BY <1>1, <1>2, <1>3 DEF Repeats
<1>5. DrainsBy(f, d, out, final)
  BY <1>4 DEF DrainsBy, n, x0
<1>6. Drain(d, out, final) = f[n]
  <2> HIDE DEF next
  <2> QED BY <1>4, <1>5, DrainInSteps DEF n
<1> QED BY <1>4, <1>5, <1>6 DEF n

LEMMA DrainIsTyped ==
  ASSUME NEW d \in Decoders, NEW out \in Seq(Events), NEW final \in BOOLEAN
  PROVE  Drain(d, out, final) \in Drains
<1> DEFINE n == Turns(d)
<1>1. PICK f \in [0..n -> Drains] : Drain(d, out, final) = f[n]
  BY DrainBySteps
<1>2. n \in Nat
  BY TurnsAreCounted
<1> HIDE DEF n
<1>3. n \in 0..n
  BY <1>2
<1> QED BY <1>1, <1>3

LEMMA TokensAreTexts ==
  ASSUME NEW text \in Vocabulary
  PROVE  text \in Texts
<1> DEFINE Sym == UNION {ToSet(t) : t \in Vocabulary}
<1>1. text \in Seq(ToSet(text))
  BY StreamingAssumption
<1>2. ToSet(text) \subseteq Sym
  OBVIOUS
<1>3. Texts = Seq(Sym)
  BY DEF Texts
<1> HIDE DEF Sym
<1> QED BY <1>1, <1>2, <1>3

(* What a decoder is fed with and flushed to.                              *)
LEMMA DecoderWorks ==
  ASSUME NEW d \in Decoders, NEW text \in Vocabulary
  PROVE  Push(d, text) \in Drains
<1>1. text \in Texts
  BY TokensAreTexts
<1> DEFINE x == d.pending \o text
           e == [d EXCEPT !.pending = x]
<1>2. x \in Texts
  BY <1>1, DecoderFields, EmptyText
<1>3. Push(d, text) = IF d.stopped \/ text = <<>> THEN Ended(d, <<>>) ELSE Drain(e, <<>>, FALSE)
  BY DEF Push
<1> HIDE DEF x
<1>4. e \in Decoders
  BY Zenon, <1>2, DecoderWith
<1> HIDE DEF e
<1>5. <<>> \in Seq(Events) /\ FALSE \in BOOLEAN
  BY EmptySeq
<1>6. Ended(d, <<>>) \in Drains /\ Drain(e, <<>>, FALSE) \in Drains
  BY <1>4, <1>5, DrainIsTyped, DrainResults
<1> QED BY Zenon, <1>3, <1>6

LEMMA DecoderFinishes ==
  ASSUME NEW d \in Decoders
  PROVE  FinishDecoder(d) \in Drains
<1>1. <<>> \in Seq(Events) /\ TRUE \in BOOLEAN
  BY EmptySeq
<1>2. Ended(d, <<>>) \in Drains /\ Drain(d, <<>>, TRUE) \in Drains
  BY <1>1, DrainIsTyped, DrainResults
<1> QED BY <1>2 DEF FinishDecoder

LEMMA DecoderStarts ==
  ASSUME NEW stops \in StopSets
  PROVE  NewDecoder(stops, TRUE) \in Decoders
<1>1. stops \ {<<>>} \in SUBSET UNION StopSets
  OBVIOUS
<1> QED BY <1>1, EmptyText DEF NewDecoder, Decoders

-----------------------------------------------------------------------------
(* What the steps of a stream do to its clients.                           *)

LEMMA SaidIsTyped ==
  ASSUME NEW s \in Seq(Events)
  PROVE  /\ TextOf(s) \in Texts /\ CallsOf(s) \in Seq(Texts)
         /\ TextOf(<<>>) = <<>> /\ CallsOf(<<>>) = <<>>
<1> DEFINE e == [kind |-> "text", text |-> <<>>]
<1>1. e \in Events
  BY EmptySeq DEF Events, Texts
<1> HIDE DEF e
<1> QED BY <1>1, AppendedEvent

(* The state while a stream is open, in the terms of the pump.             *)
LEMMA OpenIsPumping ==
  ASSUME StreamIInv, phase = "decoding"
  PROVE  Pumping([writer |-> writer, clients |-> clients], TextOf(said), CallsOf(said))
<1>1. /\ writer \in Writers /\ clients \in [Protocols -> Readers] /\ said \in Seq(Events)
      /\ \A p \in Protocols : Follows(p, clients[p], writer, TextOf(said), CallsOf(said))
  BY DEF StreamIInv, StreamTypes, ClientsFollow, Writers
<1>2. TextOf(said) \in Texts /\ CallsOf(said) \in Seq(Texts)
  BY <1>1, SaidIsTyped
<1> DEFINE x == [writer |-> writer, clients |-> clients]
<1>3. x.writer = writer /\ x.clients = clients /\ x \in Pumps
  BY <1>1 DEF Pumps
<1> HIDE DEF x
<1>4. Pumping(x, TextOf(said), CallsOf(said))
  BY <1>1, <1>2, <1>3 DEF Pumping
<1> QED BY <1>4 DEF x

(* When a state serves the clients: while the stream is open, after a      *)
(* failure and after an answer.                                            *)
LEMMA OpenServes ==
  ASSUME StreamTypes', phase' = "decoding", ended' \in {"none", "eos", "stopped", "maximum"},
         \A p \in Protocols : Follows(p, clients'[p], writer', TextOf(said'), CallsOf(said'))
  PROVE  StreamIInv'
<1>1. ClientsFollow'
  BY DEF ClientsFollow
<1>2. StreamTypeOK'
  BY DEF StreamTypes, StreamTypeOK, Decoders
<1>3. EveryFrameFits'
  BY DEF Follows, EveryFrameFits
<1>4. EveryStreamEnds'
  <2>1. ~Completes'
    BY DEF Completes
  <2> QED BY <2>1 DEF Follows, EveryStreamEnds
<1> QED BY <1>1, <1>2, <1>3, <1>4 DEF StreamIInv, ClientsAreServed

LEMMA FailureServes ==
  ASSUME StreamTypes', phase' = "over", ended' = "error", \A p \in Protocols : FailedReader(clients'[p])
  PROVE  StreamIInv'
<1>1. ClientsFollow'
  BY DEF ClientsFollow
<1>2. StreamTypeOK'
  BY DEF StreamTypes, StreamTypeOK, Decoders
<1>3. EveryFrameFits'
  BY DEF FailedReader, EveryFrameFits
<1>4. EveryStreamEnds'
  <2>1. ~Completes'
    BY DEF Completes
  <2> QED BY <2>1 DEF FailedReader, EveryStreamEnds
<1> QED BY <1>1, <1>2, <1>3, <1>4 DEF StreamIInv, ClientsAreServed

LEMMA FinishReason ==
  ASSUME NEW d \in Decoders, NEW why
  PROVE  /\ Finish(d, why) \in {"stop", "length", "tool_calls"}
         /\ Finish(d, why) = "length" <=> (d.in_tool_call \/ (why = "maximum" /\ d.tool_call_count = 0))
<1>1. d.in_tool_call \in BOOLEAN /\ d.tool_call_count \in Nat
  BY DEF Decoders
<1>2. StreamFinish(d) = (IF d.in_tool_call THEN "length"
                         ELSE IF d.tool_call_count > 0 THEN "tool_calls" ELSE "stop")
  BY DEF StreamFinish
<1>3. Finish(d, why) = IF StreamFinish(d) = "stop" /\ why = "maximum" THEN "length" ELSE StreamFinish(d)
  BY DEF Finish
<1> QED BY <1>1, <1>2, <1>3

LEMMA AnswerServes ==
  ASSUME StreamTypes', phase' = "over", ended' \in {"eos", "stopped", "maximum"},
         \A p \in Protocols : AnsweredReader(clients'[p], p, Output(dec', ended', said'))
  PROVE  StreamIInv'
<1>1. ClientsFollow'
  BY DEF ClientsFollow
<1>2. StreamTypeOK'
  BY DEF StreamTypes, StreamTypeOK, Decoders
<1>3. EveryFrameFits'
  BY DEF AnsweredReader, EveryFrameFits
<1>4. EveryStreamEnds'
  <2> DEFINE output == Output(dec', ended', said')
  <2>1. output.finish = Finish(dec', ended')
    BY DEF Output
  <2>2. dec' \in Decoders
    BY DEF StreamTypes
  <2>3. output.finish = "length" <=> (dec'.in_tool_call \/ (ended' = "maximum" /\ dec'.tool_call_count = 0))
    BY <2>1, <2>2, FinishReason
  <2> HIDE DEF output
  <2>4. \A p \in Protocols : AnsweredReader(clients'[p], p, output)
    BY DEF output
  <2>5. ASSUME NEW p \in Protocols
        PROVE  /\ clients'[p].over
               /\ [text |-> clients'[p].text, tools |-> clients'[p].tools, reason |-> clients'[p].reason]
                    = Body(p, output)
               /\ (clients'[p].reason \in {"length", "max_tokens"}) <=>
                    (dec'.in_tool_call \/ (ended' = "maximum" /\ dec'.tool_call_count = 0))
    BY <2>3, <2>4 DEF AnsweredReader
  <2> QED BY <2>5 DEF EveryStreamEnds, output
<1> QED BY <1>1, <1>2, <1>3, <1>4 DEF StreamIInv, ClientsAreServed

LEMMA ClientsStart ==
  ASSUME StreamInit
  PROVE  StreamIInv
<1>1. /\ phase = "request" /\ request \in ClientRequests /\ dec = NewDecoder({}, TRUE)
      /\ generated = 0 /\ maximum = 0 /\ ended = "none" /\ said = <<>> /\ writer = NewWriter
      /\ clients = [p \in Protocols |-> NewClient]
  BY DEF StreamInit
<1>2. dec \in Decoders
  <2>1. {} \ {<<>>} \in SUBSET UNION StopSets
    OBVIOUS
  <2> QED BY <1>1, <2>1, EmptyText DEF NewDecoder, Decoders
<1>3. NewClient \in Readers
  BY EmptyText, EmptySeq DEF NewClient, Readers, Reasons
<1>4. StreamTypes
  <2>1. said \in Seq(Events) /\ maximum \in Nat /\ generated \in 0..maximum
    BY <1>1, EmptySeq
  <2>2. writer \in [open : {"none", "text", "reasoning"}, index : Nat]
    BY <1>1 DEF NewWriter
  <2> QED BY <1>1, <1>2, <1>3, <2>1, <2>2 DEF StreamTypes
<1>5. ClientsFollow
  BY <1>1 DEF ClientsFollow
<1>6. StreamTypeOK
  BY <1>1, <1>4 DEF StreamTypes, StreamTypeOK, Decoders
<1>7. \A p \in Protocols : clients[p] = NewClient
  BY <1>1
<1>8. EveryFrameFits
  BY <1>7 DEF NewClient, EveryFrameFits
<1>9. EveryStreamEnds
  <2>1. ~Completes
    BY <1>1 DEF Completes
  <2> QED BY <1>1, <1>7, <2>1 DEF NewClient, EveryStreamEnds
<1> QED BY <1>4, <1>5, <1>6, <1>8, <1>9 DEF StreamIInv, ClientsAreServed

LEMMA RefusalServes ==
  ASSUME StreamIInv, Refuse
  PROVE  StreamIInv'
<1>1. /\ phase = "request" /\ phase' = "refused" /\ clients = [p \in Protocols |-> NewClient]
      /\ UNCHANGED <<request, ready, dec, fed, generated, maximum, ended, said, writer, clients>>
      /\ said = <<>> /\ writer = NewWriter
  BY DEF Refuse, StreamIInv, ClientsFollow
<1>2. StreamTypes' /\ StreamTypeOK'
  BY <1>1 DEF StreamIInv, StreamTypes, ClientsAreServed, StreamTypeOK
<1>3. ClientsFollow'
  BY <1>1 DEF ClientsFollow
<1>4. \A p \in Protocols : clients'[p] = NewClient
  BY <1>1
<1>5. EveryFrameFits'
  BY <1>4 DEF NewClient, EveryFrameFits
<1>6. EveryStreamEnds'
  <2>1. ~Completes'
    BY <1>1 DEF Completes
  <2> QED BY <1>1, <1>4, <2>1 DEF NewClient, EveryStreamEnds
<1> QED BY <1>2, <1>3, <1>5, <1>6 DEF StreamIInv, ClientsAreServed

LEMMA OpeningServes ==
  ASSUME StreamIInv, Open
  PROVE  StreamIInv'
<1>1. PICK stops \in StopSets, m \in Maxima : dec' = NewDecoder(stops, TRUE) /\ maximum' = m
  BY DEF Open
<1>2. /\ phase = "request" /\ phase' = "decoding"
      /\ clients' = [p \in Protocols |-> ReadAll(p, clients[p], Preamble(p))]
      /\ UNCHANGED <<generated, ended, said, writer>>
  BY DEF Open
<1>3. /\ clients = [p \in Protocols |-> NewClient] /\ said = <<>>
      /\ writer = NewWriter /\ generated = 0
      /\ ended = "none"
      /\ said \in Seq(Events) /\ writer \in [open : {"none", "text", "reasoning"}, index : Nat]
  BY <1>2 DEF StreamIInv, ClientsFollow, StreamTypes, ClientsAreServed, StreamTypeOK
<1>4. \A p \in Protocols : clients'[p] = ReadAll(p, NewClient, Preamble(p))
  BY <1>2, <1>3
<1>5. \A p \in Protocols : clients'[p] \in Readers /\ Follows(p, clients'[p], NewWriter, <<>>, <<>>)
  BY <1>4, OpeningIsRead
<1>6. clients' \in [Protocols -> Readers]
  <2>1. clients' = [p \in Protocols |-> clients'[p]]
    BY <1>2, <1>4
  <2> QED BY <1>5, <2>1
<1>7. dec' \in Decoders
  BY <1>1, DecoderStarts
<1>8. maximum' \in Nat /\ generated' \in 0..maximum'
  BY <1>1, <1>2, <1>3, StreamingAssumption
<1>9. StreamTypes'
  BY <1>2, <1>3, <1>6, <1>7, <1>8 DEF StreamTypes
<1>10. TextOf(said') = <<>> /\ CallsOf(said') = <<>> /\ writer' = NewWriter
  BY <1>2, <1>3, SaidIsTyped
<1> QED BY <1>2, <1>3, <1>5, <1>9, <1>10, OpenServes

LEMMA FailureKeeps ==
  ASSUME StreamIInv, phase = "decoding", Fail, dec' \in Decoders,
         generated' \in 0..maximum', maximum' = maximum
  PROVE  StreamIInv'
<1>1. /\ phase' = "over" /\ ended' = "error" /\ said' = said /\ writer' = writer
      /\ clients' = [p \in Protocols |-> ReadAll(p, clients[p], Failed(p, writer))]
  BY DEF Fail
<1>2. Pumping([writer |-> writer, clients |-> clients], TextOf(said), CallsOf(said))
  BY OpenIsPumping
<1>3. /\ writer \in Writers /\ TextOf(said) \in Texts /\ CallsOf(said) \in Seq(Texts)
      /\ \A p \in Protocols : clients[p] \in Readers /\ Follows(p, clients[p], writer, TextOf(said), CallsOf(said))
  BY <1>2 DEF Pumping, Pumps
<1>4. \A p \in Protocols : FailedReader(clients'[p])
  <2> TAKE p \in Protocols
  <2>1. FailedReader(ReadAll(p, clients[p], Failed(p, writer)))
    BY <1>3, FailureIsRead
  <2> QED BY <1>1, <2>1
<1>5. clients' \in [Protocols -> Readers]
  <2>1. clients' = [p \in Protocols |-> clients'[p]]
    BY <1>1
  <2> QED BY <1>4, <2>1 DEF FailedReader
<1>6. StreamTypes'
  BY <1>1, <1>5 DEF StreamIInv, StreamTypes
<1> QED BY <1>1, <1>4, <1>6, FailureServes

(* What is delivered is what is said.                                      *)
LEMMA DeliveryFollows ==
  ASSUME StreamIInv, phase = "decoding", NEW evs \in Seq(Events)
  PROVE  LET whole == RunTogether(said \o evs) IN
         /\ whole \in Seq(Events)
         /\ Pumping(Pumped(evs), TextOf(whole), CallsOf(whole))
<1> DEFINE all == said \o evs
           whole == RunTogether(all)
<1>1. said \in Seq(Events)
  BY DEF StreamIInv, StreamTypes
<1>2. /\ all \in Seq(Events) /\ TextOf(all) = TextOf(said) \o TextOf(evs)
      /\ CallsOf(all) = CallsOf(said) \o CallsOf(evs)
  BY <1>1, JoinedEvents
<1> HIDE DEF all
<1>3. whole \in Seq(Events) /\ TextOf(whole) = TextOf(all) /\ CallsOf(whole) = CallsOf(all)
  BY <1>2, RunTogetherSays
<1>4. Pumping([writer |-> writer, clients |-> clients], TextOf(said), CallsOf(said))
  BY OpenIsPumping
<1>5. Pumping(Pumped(evs), TextOf(said) \o TextOf(evs), CallsOf(said) \o CallsOf(evs))
  BY <1>4, PumpedSays
<1> HIDE DEF whole
<1>6. Pumping(Pumped(evs), TextOf(whole), CallsOf(whole))
  BY <1>2, <1>3, <1>5
<1> QED BY <1>3, <1>6 DEF whole, all

LEMMA TokenServes ==
  ASSUME StreamIInv, NEW text \in Vocabulary, Token(text)
  PROVE  StreamIInv'
<1> DEFINE pushed == Push(dec, text)
           x == Pumped(pushed.out)
           whole == RunTogether(said \o pushed.out)
<1>1. /\ phase = "decoding" /\ ended = "none" /\ generated < maximum /\ generated' = generated + 1
      /\ dec' = pushed.dec /\ maximum' = maximum
  BY DEF Token
<1>2. dec \in Decoders /\ maximum \in Nat /\ generated \in 0..maximum
  BY DEF StreamIInv, StreamTypes
<1>3. pushed.dec \in Decoders /\ pushed.out \in Seq(Events)
  <2>1. pushed \in Drains
    BY <1>2, DecoderWorks
  <2> HIDE DEF pushed
  <2> QED BY <2>1 DEF Drains
<1>4. generated' \in 0..maximum' /\ dec' \in Decoders /\ maximum' \in Nat
  BY <1>1, <1>2, <1>3
<1>5. CASE pushed.failed
  <2>1. Fail
    BY <1>5 DEF Token
  <2> HIDE DEF pushed
  <2> QED BY <1>1, <1>4, <2>1, FailureKeeps
<1>6. CASE ~pushed.failed
  <2>1. /\ said' = whole /\ writer' = x.writer /\ clients' = x.clients
        /\ ended' = (IF pushed.dec.stopped THEN "stopped" ELSE ended) /\ phase' = phase
    BY <1>6 DEF Token, Deliver
  <2>2. whole \in Seq(Events) /\ Pumping(x, TextOf(whole), CallsOf(whole))
    <3> HIDE DEF pushed
    <3> QED BY <1>1, <1>3, DeliveryFollows
  <2> HIDE DEF x, whole, pushed
  <2>3. /\ writer' \in Writers /\ clients' \in [Protocols -> Readers] /\ said' \in Seq(Events)
        /\ \A p \in Protocols : Follows(p, clients'[p], writer', TextOf(said'), CallsOf(said'))
    BY <2>1, <2>2 DEF Pumping, Pumps
  <2>4. StreamTypes'
    BY <1>4, <2>3 DEF StreamTypes, Writers
  <2>5. phase' = "decoding" /\ ended' \in {"none", "eos", "stopped", "maximum"}
    BY <1>1, <2>1
  <2> QED BY <2>3, <2>4, <2>5, OpenServes
<1> QED BY <1>5, <1>6

(* The loop ends without a token.                                          *)
LEMMA LoopEndServes ==
  ASSUME StreamIInv, EndOfText \/ NoRoom
  PROVE  StreamIInv'
<1>1. /\ phase = "decoding" /\ phase' = phase /\ ended' = "eos" /\ maximum' = maximum
      /\ UNCHANGED <<dec, said, writer, clients>>
      /\ (generated < maximum /\ generated' = generated + 1) \/ generated' = generated
  BY DEF EndOfText, NoRoom
<1>2. /\ StreamTypes
      /\ \A p \in Protocols : Follows(p, clients[p], writer, TextOf(said), CallsOf(said))
  BY <1>1 DEF StreamIInv, ClientsFollow
<1>3. maximum' \in Nat /\ generated' \in 0..maximum'
  <2>1. maximum \in Nat /\ generated \in 0..maximum
    BY <1>2 DEF StreamTypes
  <2> QED BY ONLY <1>1, <2>1
<1>4. StreamTypes'
  BY <1>1, <1>2, <1>3 DEF StreamTypes
<1>5. \A p \in Protocols : Follows(p, clients'[p], writer', TextOf(said'), CallsOf(said'))
  BY <1>1, <1>2
<1> QED BY <1>1, <1>4, <1>5, OpenServes

LEMMA BreakServes ==
  ASSUME StreamIInv, Break
  PROVE  StreamIInv'
<1>1. phase = "decoding" /\ Fail /\ dec' = dec /\ generated' = generated /\ maximum' = maximum
  BY DEF Break
<1>2. dec' \in Decoders /\ generated' \in 0..maximum'
  BY <1>1 DEF StreamIInv, StreamTypes
<1> QED BY <1>1, <1>2, FailureKeeps

LEMMA CompletionServes ==
  ASSUME StreamIInv, Complete
  PROVE  StreamIInv'
<1> DEFINE why == IF ended = "none" THEN "maximum" ELSE ended
           tail == FinishDecoder(dec)
           whole == RunTogether(said \o tail.out)
           x == Pumped(tail.out)
           output == Output(tail.dec, why, whole)
<1>1. /\ phase = "decoding" /\ dec' = tail.dec /\ generated' = generated /\ maximum' = maximum
      /\ IF tail.failed THEN Fail
         ELSE /\ phase' = "over" /\ ended' = why /\ said' = whole /\ writer' = x.writer
              /\ clients' = [p \in Protocols |-> ReadAll(p, x.clients[p], Completed(p, x.writer, output))]
  BY DEF Complete
<1>2. dec \in Decoders /\ maximum \in Nat /\ generated \in 0..maximum
      /\ ended \in {"none", "eos", "stopped", "maximum", "error"} /\ ended # "error"
  BY DEF Complete, StreamIInv, StreamTypes, ClientsFollow, ClientsAreServed, StreamTypeOK
<1>3. tail.dec \in Decoders /\ tail.out \in Seq(Events)
  <2>1. tail \in Drains
    BY <1>2, DecoderFinishes
  <2> HIDE DEF tail
  <2> QED BY <2>1 DEF Drains
<1>4. generated' \in 0..maximum' /\ dec' \in Decoders /\ maximum' \in Nat
  BY <1>1, <1>2, <1>3
<1> HIDE DEF tail
<1>5. CASE tail.failed
  <2>1. Fail
    BY <1>1, <1>5
  <2> QED BY <1>1, <1>4, <2>1, FailureKeeps
<1>6. CASE ~tail.failed
  <2>1. /\ phase' = "over" /\ ended' = why /\ said' = whole /\ writer' = x.writer
        /\ clients' = [p \in Protocols |-> ReadAll(p, x.clients[p], Completed(p, x.writer, output))]
    BY <1>1, <1>6
  <2>2. whole \in Seq(Events) /\ Pumping(x, TextOf(whole), CallsOf(whole))
    BY <1>1, <1>3, DeliveryFollows
  <2>3. output = Output(dec', ended', said')
    BY <1>1, <2>1
  <2>4. output \in Outputs /\ output.text = TextOf(whole) /\ output.tool_calls = CallsOf(whole)
    <3>1. Finish(tail.dec, why) \in {"stop", "length", "tool_calls"}
      BY <1>3, FinishReason
    <3>2. TextOf(whole) \in Texts /\ CallsOf(whole) \in Seq(Texts)
      BY <2>2 DEF Pumping
    <3>3. output = [text |-> TextOf(whole), tool_calls |-> CallsOf(whole), finish |-> Finish(tail.dec, why)]
      BY DEF Output
    <3> HIDE DEF output, whole, why
    <3> QED BY <3>1, <3>2, <3>3 DEF Outputs
  <2> HIDE DEF x, whole, output
  <2>5. /\ x.writer \in Writers /\ x.clients \in [Protocols -> Readers]
        /\ \A p \in Protocols : Follows(p, x.clients[p], x.writer, output.text, output.tool_calls)
    BY <2>2, <2>4 DEF Pumping, Pumps
  <2>6. \A p \in Protocols : AnsweredReader(clients'[p], p, output)
    <3> TAKE p \in Protocols
    <3>1. clients'[p] = ReadAll(p, x.clients[p], Completed(p, x.writer, output))
      BY <2>1
    <3>2. x.clients[p] \in Readers
      BY <2>5
    <3> QED BY <2>4, <2>5, <3>1, <3>2, AnswerIsRead
  <2>7. clients' \in [Protocols -> Readers]
    <3>1. clients' = [p \in Protocols |-> clients'[p]]
      BY <2>1
    <3> QED BY <2>6, <3>1 DEF AnsweredReader
  <2>8. StreamTypes'
    BY <1>4, <2>1, <2>2, <2>5, <2>7 DEF StreamTypes, Writers
  <2>9. ended' \in {"eos", "stopped", "maximum"}
    BY <1>2, <2>1
  <2> QED BY <2>1, <2>3, <2>6, <2>8, <2>9, AnswerServes
<1> QED BY <1>5, <1>6

LEMMA StreamStep ==
  ASSUME StreamIInv, [StreamNext]_streamVars
  PROVE  StreamIInv'
<1>1. CASE Refuse
  BY <1>1, RefusalServes
<1>2. CASE Open
  BY <1>2, OpeningServes
<1>3. CASE \E text \in Vocabulary : Token(text)
  BY <1>3, TokenServes
<1>4. CASE EndOfText \/ NoRoom
  BY <1>4, LoopEndServes
<1>5. CASE Complete
  BY <1>5, CompletionServes
<1>6. CASE Break
  BY <1>6, BreakServes
<1>7. CASE UNCHANGED streamVars
  <2>1. /\ phase' = phase /\ request' = request /\ dec' = dec /\ generated' = generated
        /\ maximum' = maximum /\ ended' = ended /\ said' = said
        /\ writer' = writer /\ clients' = clients
    BY <1>7 DEF streamVars
  <2>2. StreamTypes' /\ StreamTypeOK'
    BY <2>1 DEF StreamIInv, StreamTypes, ClientsAreServed, StreamTypeOK
  <2>3. ClientsFollow'
    BY <2>1 DEF StreamIInv, ClientsFollow
  <2>4. EveryFrameFits' /\ EveryStreamEnds'
    BY <2>1 DEF StreamIInv, ClientsAreServed, EveryFrameFits, EveryStreamEnds, Completes
  <2> QED BY <2>2, <2>3, <2>4 DEF StreamIInv, ClientsAreServed
<1> QED BY <1>1, <1>2, <1>3, <1>4, <1>5, <1>6, <1>7 DEF StreamNext

(* Every reachable state of a stream keeps its invariant: the types of the *)
(* decoder, the events, the writer and the clients, and where each client  *)
(* stands (stub.rs:95-360, openai, anthropic and ollama/mod.rs).           *)
THEOREM StreamInvariance == StreamSpec => []StreamIInv
<1>1. StreamInit => StreamIInv
  BY ClientsStart
<1>2. StreamIInv /\ [StreamNext]_streamVars => StreamIInv'
  BY StreamStep
<1> QED BY <1>1, <1>2, PTL DEF StreamSpec

(* Every frame is one its protocol allows at that place, a stream ends     *)
(* exactly once, and an answer that completes has shown its client the     *)
(* text, the tool calls and the reason of the answer without a stream      *)
(* (stub.rs, openai, anthropic and ollama/mod.rs).                         *)
THEOREM ClientsServed == StreamSpec => []ClientsAreServed
<1>1. StreamIInv => ClientsAreServed
  BY DEF StreamIInv
<1> QED BY <1>1, StreamInvariance, PTL

LEMMA NormalizedMessages ==
  ASSUME NEW r \in ClientRequests, NEW p
  PROVE  LET n == Normalized(p, r)
         IN n.tools \in BOOLEAN /\ \E R : n.messages \in Seq(R)
<1> DEFINE n == Normalized(p, r)
           one == [r EXCEPT !.roles = <<"user">>]
           R(q) == {"system"} \union ToSet(q.roles)
<1>1. {"roles", "system"} \subseteq DOMAIN r /\ r.roles \in Seq(ToSet(r.roles))
  BY StreamingAssumption
<1>2. one.roles = <<"user">> /\ one.roles \in Seq(ToSet(one.roles))
  <2>1. one.roles = <<"user">>
    BY <1>1
  <2> HIDE DEF one
  <2>2. Len(one.roles) = 1 /\ one.roles[1] = "user" /\ DOMAIN one.roles = {1}
    BY <2>1
  <2>3. "user" \in ToSet(one.roles)
    BY <2>2 DEF ToSet
  <2> QED BY <2>1, <2>3
<1>3. ASSUME NEW q, q.roles \in Seq(ToSet(q.roles)) PROVE WithSystem(q) \in Seq(R(q))
  <2> DEFINE T == ToSet(q.roles)
             s == q.roles
             m == Len(s)
             a == ParsedRoles(q)
  <2>1. s \in Seq(T)
    BY <1>3
  <2> HIDE DEF T
  <2>2. m \in Nat /\ \A i \in 1..m : s[i] \in T
    BY <2>1, LenProperties
  <2>3. a = [i \in 1..m |-> IF s[i] = "developer" THEN "system" ELSE s[i]]
    BY DEF ParsedRoles
  <2> DEFINE U == {"system"} \union T
  <2> HIDE DEF a, m
  <2>4. DOMAIN a = 1..m /\ a = [i \in 1..m |-> a[i]] /\ \A i \in 1..m : a[i] \in U
    BY <2>2, <2>3
  <2> HIDE DEF U
  <2>5. a \in Seq(U)
    BY <2>2, <2>4, FunctionIsSequenceOf
  <2>6. "system" \in U
    BY DEF U
  <2> DEFINE h == IF q.system THEN <<"system">> ELSE <<>>
  <2>7. h \in Seq(U)
    BY <2>6, EmptySeq
  <2>8. WithSystem(q) = h \o a
    BY DEF WithSystem, a
  <2> HIDE DEF h
  <2>9. h \o a \in Seq(U)
    BY <2>5, <2>7, ConcatProperties
  <2> QED BY <2>8, <2>9 DEF U, T
<1>4. n.messages = (IF p = "ollama generate" THEN WithSystem(one) ELSE WithSystem(r))
      /\ n.tools \in BOOLEAN
  BY DEF Normalized
<1> HIDE DEF n, one, R
<1>5. WithSystem(one) \in Seq(R(one)) /\ WithSystem(r) \in Seq(R(r))
  BY <1>1, <1>2, <1>3
<1>6. \E S : n.messages \in Seq(S)
  BY Zenon, <1>4, <1>5
<1> QED BY Zenon, <1>4, <1>6 DEF n

(* Whatever the messages of a request that is accepted, its prompt holds   *)
(* each of them once and in order behind the tools, no two turns of tool   *)
(* results side by side, and ends with the model's own turn                *)
(* (openai, anthropic and ollama/mod.rs, tokenizer/chat.rs).               *)
THEOREM PromptsKeepMessages == StreamSpec => []PromptKeepsMessages
<1>1. StreamIInv => PromptKeepsMessages
  <2> SUFFICES ASSUME StreamIInv, NEW p \in Protocols, phase = "request", Accepts(p, request)
               PROVE  LET n == Normalized(p, request) IN PromptIsWhole(n.messages, n.tools)
    BY DEF PromptKeepsMessages, PromptIsWhole
  <2> DEFINE n == Normalized(p, request)
  <2>1. request \in ClientRequests
    BY DEF StreamIInv, ClientsFollow
  <2>2. n.tools \in BOOLEAN /\ \E R : n.messages \in Seq(R)
    BY <2>1, NormalizedMessages
  <2> HIDE DEF n
  <2>3. PromptIsWhole(n.messages, n.tools)
    BY <2>2, PromptsAreWhole
  <2> QED BY <2>3 DEF n
<1> QED BY <1>1, StreamInvariance, PTL

-----------------------------------------------------------------------------
(* Marks in a text.                                                        *)

(* Marks in a text: where one is found, in parts of a text and across the  *)
(* place where two parts meet.                                             *)
IsMark(m) == m \in Seq(ToSet(m)) /\ m # <<>>

Full(text, i, m) == i \in 1..Len(text) /\ i + Len(m) - 1 <= Len(text) /\ Begins(text, i, m)

LEMMA MarkFacts ==
  ASSUME NEW m, IsMark(m)
  PROVE  Len(m) \in Nat \ {0} /\ DOMAIN m = 1..Len(m) /\ m \in Seq(ToSet(m))
BY LenProperties, EmptySeq DEF IsMark

(* A mark stands in full at a place exactly when the cut there is the      *)
(* mark.                                                                   *)
LEMMA FullIsCut ==
  ASSUME NEW V, NEW s \in Seq(V), NEW m, IsMark(m), NEW i \in 1..(Len(s) - Len(m) + 1)
  PROVE  SubSeq(s, i, i + Len(m) - 1) = m <=> Begins(s, i, m)
<1> DEFINE n == Len(m)
           b == i + n - 1
           u == SubSeq(s, i, b)
<1>1. n \in Nat \ {0} /\ m \in Seq(ToSet(m)) /\ Len(s) \in Nat
  BY MarkFacts, LenProperties
<1> HIDE DEF n
<1>2. i \in 1..(Len(s) + 1) /\ b \in (i - 1)..Len(s) /\ b - i + 1 = n /\ i \in Nat
  BY <1>1 DEF n
<1>3. u \in Seq(V) /\ Len(u) = n /\ \A k \in 1..n : u[k] = s[i + k - 1]
  <2> HIDE DEF b
  <2>1. u \in Seq(V) /\ Len(u) = b - i + 1 /\ \A k \in 1..(b - i + 1) : u[k] = s[i + k - 1]
    BY <1>2, CutFacts
  <2> QED BY ONLY <2>1, <1>2
<1> HIDE DEF u
<1>4. Begins(s, i, m) <=> \A k \in 1..n : s[i + k - 1] = m[k]
  <2>1. \A k \in 1..n : i + k - 1 <= Len(s)
    BY <1>1, <1>2
  <2> QED BY <2>1 DEF Begins, n
<1>5. ASSUME \A k \in 1..n : s[i + k - 1] = m[k] PROVE u = m
  <2> DEFINE W == V \union ToSet(m)
  <2>1. u \in Seq(W) /\ m \in Seq(W)
    <3>1. V \subseteq W /\ ToSet(m) \subseteq W
      OBVIOUS
    <3> HIDE DEF W
    <3> QED BY <1>1, <1>3, <3>1, SeqMonotonic
  <2> HIDE DEF W
  <2>2. Len(u) = Len(m) /\ \A k \in 1..Len(u) : u[k] = m[k]
    BY <1>3, <1>5 DEF n
  <2> QED BY ONLY <2>1, <2>2, SeqEqual
<1>6. u = m => \A k \in 1..n : s[i + k - 1] = m[k]
  BY <1>3
<1> QED BY <1>4, <1>5, <1>6 DEF u, b, n

(* What Find finds: the first place where the mark stands in full.         *)
LEMMA FindSays ==
  ASSUME NEW V, NEW s \in Seq(V), NEW m, IsMark(m)
  PROVE  /\ Find(s, m) \in Nat
         /\ Find(s, m) > 0 => Full(s, Find(s, m), m)
         /\ \A i \in Nat : Full(s, i, m) => Find(s, m) > 0 /\ Find(s, m) <= i
<1> DEFINE at == {i \in 1..(Len(s) - Len(m) + 1) : SubSeq(s, i, i + Len(m) - 1) = m}
<1>1. Len(m) \in Nat \ {0} /\ Len(s) \in Nat
  BY MarkFacts, LenProperties
<1>2. Find(s, m) = IF at = {} THEN 0 ELSE Min(at)
  BY DEF Find
<1>3. at \in SUBSET Nat
  OBVIOUS
<1>4. \A i : i \in at <=> Full(s, i, m)
  <2>1. ASSUME NEW i \in at PROVE Full(s, i, m)
    <3>1. i \in 1..(Len(s) - Len(m) + 1) /\ SubSeq(s, i, i + Len(m) - 1) = m
      OBVIOUS
    <3>2. Begins(s, i, m)
      BY <3>1, FullIsCut
    <3>3. i \in 1..Len(s) /\ i + Len(m) - 1 <= Len(s)
      BY <1>1, <3>1
    <3> QED BY <3>2, <3>3 DEF Full
  <2>2. ASSUME NEW i, Full(s, i, m) PROVE i \in at
    <3>1. i \in 1..Len(s) /\ i + Len(m) - 1 <= Len(s) /\ Begins(s, i, m)
      BY <2>2 DEF Full
    <3>2. i \in 1..(Len(s) - Len(m) + 1)
      BY <1>1, <3>1
    <3> QED BY <3>1, <3>2, FullIsCut
  <2> QED BY <2>1, <2>2
<1> HIDE DEF at
<1>5. at # {} => Min(at) \in at /\ \A i \in at : Min(at) <= i
  <2> SUFFICES ASSUME at # {} PROVE Min(at) \in at /\ \A i \in at : Min(at) <= i
    OBVIOUS
  <2>1. \E x \in at : \A y \in at : x <= y
    BY <1>3, SmallestMember
  <2> QED BY <2>1 DEF Min
<1>6. \A i \in at : i \in Nat /\ i > 0
  BY <1>4, <1>1 DEF Full
<1>7. CASE at = {}
  BY <1>2, <1>4, <1>7
<1>8. CASE at # {}
  <2>1. Find(s, m) \in at /\ \A i \in at : Find(s, m) <= i
    BY <1>2, <1>5, <1>8
  <2> QED BY <1>4, <1>6, <2>1
<1> QED BY <1>7, <1>8

(* A mark in the front part stays one, whatever follows it.                *)
LEMMA BeginsInFront ==
  ASSUME NEW V, NEW s \in Seq(V), NEW t \in Seq(V), NEW m, IsMark(m), NEW i \in 1..Len(s)
  PROVE  /\ Begins(s \o t, i, m) => Begins(s, i, m)
         /\ i + Len(m) - 1 <= Len(s) /\ Begins(s, i, m) => Begins(s \o t, i, m)
<1> DEFINE u == s \o t
<1>1. /\ Len(m) \in Nat \ {0} /\ Len(s) \in Nat /\ Len(t) \in Nat /\ Len(u) = Len(s) + Len(t)
      /\ \A j \in 1..Len(s) : u[j] = s[j]
  BY MarkFacts, CatFacts
<1> HIDE DEF u
<1>2. i \in Nat \ {0}
  BY <1>1
<1>3. ASSUME Begins(u, i, m), NEW k \in 1..Len(m), i + k - 1 <= Len(s) PROVE s[i + k - 1] = m[k]
  <2>1. i + k - 1 \in 1..Len(s) /\ i + k - 1 <= Len(u)
    BY <1>1, <1>2, <1>3
  <2> QED BY <1>1, <1>3, <2>1 DEF Begins
<1>4. ASSUME i + Len(m) - 1 <= Len(s), Begins(s, i, m), NEW k \in 1..Len(m) PROVE u[i + k - 1] = m[k]
  <2>1. i + k - 1 \in 1..Len(s) /\ i + k - 1 <= Len(s)
    BY <1>1, <1>2, <1>4
  <2> QED BY <1>1, <1>4, <2>1 DEF Begins
<1> QED BY <1>3, <1>4 DEF Begins, u

(* A mark in the part behind, by its place there and in the whole.         *)
LEMMA BeginsBehind ==
  ASSUME NEW V, NEW s \in Seq(V), NEW t \in Seq(V), NEW m, IsMark(m), NEW i \in 1..Len(t)
  PROVE  Begins(s \o t, Len(s) + i, m) <=> Begins(t, i, m)
<1> DEFINE u == s \o t
<1>1. /\ Len(m) \in Nat \ {0} /\ Len(s) \in Nat /\ Len(t) \in Nat /\ Len(u) = Len(s) + Len(t)
      /\ \A j \in 1..Len(t) : u[Len(s) + j] = t[j]
  BY MarkFacts, CatFacts
<1> HIDE DEF u
<1>2. i \in Nat \ {0}
  BY <1>1
<1>3. ASSUME NEW k \in 1..Len(m)
      PROVE  /\ Len(s) + i + k - 1 <= Len(u) <=> i + k - 1 <= Len(t)
             /\ i + k - 1 <= Len(t) => u[Len(s) + i + k - 1] = t[i + k - 1]
  <2>1. Len(s) + i + k - 1 <= Len(u) <=> i + k - 1 <= Len(t)
    BY <1>1, <1>2
  <2>2. ASSUME i + k - 1 <= Len(t) PROVE u[Len(s) + i + k - 1] = t[i + k - 1]
    <3>1. i + k - 1 \in 1..Len(t) /\ Len(s) + (i + k - 1) = Len(s) + i + k - 1
      BY <1>1, <1>2, <2>2
    <3> QED BY <1>1, <3>1
  <2> QED BY <2>1, <2>2
<1> QED BY <1>3 DEF Begins, u

(* A mark once found stays the first, whatever comes behind it.            *)
LEMMA FindExtends ==
  ASSUME NEW V, NEW s \in Seq(V), NEW t \in Seq(V), NEW m, IsMark(m), Find(s, m) > 0
  PROVE  Find(s \o t, m) = Find(s, m)
<1> DEFINE u == s \o t
           a == Find(s, m)
           b == Find(u, m)
<1>1. /\ Len(m) \in Nat \ {0} /\ Len(s) \in Nat /\ Len(t) \in Nat /\ Len(u) = Len(s) + Len(t)
      /\ u \in Seq(V)
  BY MarkFacts, CatFacts
<1>2. a \in Nat /\ Full(s, a, m) /\ \A i \in Nat : Full(s, i, m) => a <= i
  BY FindSays
<1>3. /\ b \in Nat /\ (b > 0 => Full(u, b, m))
      /\ \A i \in Nat : Full(u, i, m) => b > 0 /\ b <= i
  <2> HIDE DEF u
  <2> QED BY <1>1, FindSays
<1>4. Full(u, a, m)
  <2>1. a \in 1..Len(s) /\ a + Len(m) - 1 <= Len(s) /\ Begins(s, a, m)
    BY <1>2 DEF Full
  <2>2. Begins(u, a, m)
    <3> HIDE DEF a
    <3> QED BY <2>1, BeginsInFront
  <2> QED BY <1>1, <2>1, <2>2 DEF Full
<1>5. b > 0 /\ b <= a
  BY <1>2, <1>3, <1>4
<1>6. Full(s, b, m)
  <2>1. b \in 1..Len(u) /\ Begins(u, b, m)
    BY <1>3, <1>5 DEF Full
  <2>2. a + Len(m) - 1 <= Len(s)
    BY <1>2 DEF Full
  <2>3. b \in 1..Len(s) /\ b + Len(m) - 1 <= Len(s)
    <3> HIDE DEF a, b
    <3> QED BY <1>1, <1>2, <1>3, <1>5, <2>2
  <2>4. Begins(s, b, m)
    <3> HIDE DEF b
    <3> QED BY <2>1, <2>3, BeginsInFront
  <2> QED BY <2>3, <2>4 DEF Full
<1>7. a <= b
  BY <1>2, <1>3, <1>6
<1> HIDE DEF a, b
<1>8. a = b
  BY <1>2, <1>3, <1>5, <1>7
<1> QED BY <1>8 DEF a, b, u

(* Behind text no mark begins in, the search may start at the rest.        *)
LEMMA FindShifts ==
  ASSUME NEW V, NEW s \in Seq(V), NEW t \in Seq(V), NEW m, IsMark(m), Passed(s, t, m)
  PROVE  Find(s \o t, m) = IF Find(t, m) = 0 THEN 0 ELSE Len(s) + Find(t, m)
<1> DEFINE u == s \o t
           a == Find(t, m)
           b == Find(u, m)
           n == Len(s)
<1>1. /\ Len(m) \in Nat \ {0} /\ n \in Nat /\ Len(t) \in Nat /\ Len(u) = n + Len(t) /\ u \in Seq(V)
  BY MarkFacts, CatFacts
<1>2. a \in Nat /\ (a > 0 => Full(t, a, m)) /\ \A i \in Nat : Full(t, i, m) => a > 0 /\ a <= i
  BY FindSays
<1>3. /\ b \in Nat /\ (b > 0 => Full(u, b, m))
      /\ \A i \in Nat : Full(u, i, m) => b > 0 /\ b <= i
  <2> HIDE DEF u
  <2> QED BY <1>1, FindSays
<1>4. ASSUME NEW i \in Nat, Full(t, i, m) PROVE Full(u, n + i, m) /\ n + i \in Nat
  <2>1. i \in 1..Len(t) /\ i + Len(m) - 1 <= Len(t) /\ Begins(t, i, m)
    BY <1>4 DEF Full
  <2>2. Begins(u, n + i, m)
    BY <2>1, BeginsBehind
  <2>3. n + i \in 1..Len(u) /\ n + i + Len(m) - 1 <= Len(u)
    <3> HIDE DEF n, u
    <3> QED BY <1>1, <2>1
  <2> HIDE DEF n
  <2> QED BY <1>1, <2>2, <2>3 DEF Full
<1>5. ASSUME NEW i \in Nat, Full(u, i, m) PROVE i > n /\ i - n \in Nat /\ Full(t, i - n, m)
  <2>1. i \in 1..Len(u) /\ i + Len(m) - 1 <= Len(u) /\ Begins(u, i, m)
    BY <1>5 DEF Full
  <2>2. i > n
    <3>1. ~(i \in 1..n)
      BY <2>1 DEF Passed
    <3> HIDE DEF n
    <3> QED BY <1>1, <2>1, <3>1
  <2>3. i - n \in 1..Len(t) /\ (i - n) + Len(m) - 1 <= Len(t) /\ n + (i - n) = i
    <3> HIDE DEF n, u
    <3> QED BY <1>1, <2>1, <2>2
  <2> DEFINE j == i - n
  <2>4. Begins(t, j, m)
    <3>1. j \in 1..Len(t) /\ Len(s) + j = i
      BY <2>3
    <3> HIDE DEF j
    <3> QED BY <2>1, <3>1, BeginsBehind
  <2> QED BY <2>2, <2>3, <2>4 DEF Full
<1> HIDE DEF a, b, n, u
<1>6. CASE a = 0
  <2>1. ~(b > 0)
    BY <1>2, <1>3, <1>5, <1>6
  <2> QED BY <1>3, <1>6, <2>1 DEF a, b, u
<1>7. CASE a > 0
  <2>1. Full(u, n + a, m) /\ n + a \in Nat
    BY <1>2, <1>4, <1>7
  <2>2. b > 0 /\ b <= n + a /\ Full(u, b, m)
    BY <1>3, <2>1
  <2>3. b > n /\ b - n \in Nat /\ Full(t, b - n, m)
    BY <1>3, <1>5, <2>2
  <2>4. a <= b - n
    BY <1>2, <2>3
  <2>5. b = n + a /\ a # 0
    BY <1>1, <1>2, <1>3, <1>7, <2>2, <2>3, <2>4
  <2> QED BY <2>5 DEF a, b, n, u
<1> QED BY <1>2, <1>6, <1>7

(* What has passed has passed, whatever follows.                           *)
LEMMA PassedGrows ==
  ASSUME NEW V, NEW s \in Seq(V), NEW p \in Seq(V), NEW t \in Seq(V), NEW m, IsMark(m), Passed(s, p, m)
  PROVE  Passed(s, p \o t, m)
<1> SUFFICES ASSUME NEW i \in 1..Len(s), Begins(s \o (p \o t), i, m) PROVE FALSE
  BY DEF Passed
<1>1. s \o p \in Seq(V) /\ Len(s \o p) = Len(s) + Len(p) /\ Len(s) \in Nat /\ Len(p) \in Nat
  BY CatFacts
<1>2. s \o (p \o t) = (s \o p) \o t
  BY ConcatAssociative
<1>3. i \in 1..Len(s \o p)
  BY <1>1
<1>4. Begins(s \o p, i, m)
  <2> DEFINE u == s \o p
  <2>1. Begins(u \o t, i, m) /\ u \in Seq(V) /\ i \in 1..Len(u)
    BY <1>1, <1>2, <1>3
  <2> HIDE DEF u
  <2>2. Begins(u, i, m)
    BY <2>1, BeginsInFront
  <2> QED BY <2>2 DEF u
<1> QED BY <1>4 DEF Passed

LEMMA PassedNothing ==
  ASSUME NEW p, NEW m
  PROVE  Passed(<<>>, p, m)
<1>1. 1..Len(<<>>) = {}
  BY EmptySeq
<1> QED BY <1>1 DEF Passed

(* No mark in what is shown up to a place in front of the first one.       *)
LEMMA ShownIsClean ==
  ASSUME NEW V, NEW s \in Seq(V), NEW p \in Seq(V), NEW m, IsMark(m), Passed(s, p, m),
         NEW a \in 0..Len(p), Find(p, m) = 0 \/ Find(p, m) > a
  PROVE  Find(s \o SubSeq(p, 1, a), m) = 0
<1> DEFINE f == SubSeq(p, 1, a)
           g == SubSeq(p, a + 1, Len(p))
           u == s \o f
           x == Find(u, m)
<1>1. Len(m) \in Nat \ {0} /\ Len(s) \in Nat /\ Len(p) \in Nat
  BY MarkFacts, LenProperties
<1>2. p = f \o g
  BY CutInTwo
<1>3. f \in Seq(V) /\ Len(f) = a /\ g \in Seq(V)
  <2>1. 1 \in 1..(Len(p) + 1) /\ a \in (1 - 1)..Len(p) /\ a + 1 \in 1..(Len(p) + 1) /\ Len(p) \in (a + 1 - 1)..Len(p)
    BY <1>1
  <2>2. f \in Seq(V) /\ Len(f) = a - 1 + 1
    BY <2>1, CutFacts
  <2> DEFINE b == a + 1
  <2>3. SubSeq(p, b, Len(p)) \in Seq(V)
    <3> HIDE DEF b
    <3> QED BY <2>1, CutFacts DEF b
  <2> QED BY <2>2, <2>3
<1> HIDE DEF f, g
<1>4. u \in Seq(V) /\ Len(u) = Len(s) + a
  BY <1>3, CatFacts
<1>5. x \in Nat /\ (x > 0 => Full(u, x, m))
  <2> HIDE DEF u
  <2> QED BY <1>4, FindSays
<1>6. s \o p = u \o g
  BY <1>2, <1>3, ConcatAssociative
<1> HIDE DEF u
<1>7. ASSUME x > 0 PROVE FALSE
  <2> HIDE DEF x
  <2>1. x \in 1..Len(u) /\ x + Len(m) - 1 <= Len(u) /\ Begins(u, x, m)
    BY <1>5, <1>7 DEF Full
  <2>2. Begins(s \o p, x, m)
    <3>1. Begins(u \o g, x, m)
      BY <1>3, <1>4, <2>1, BeginsInFront
    <3> QED BY <1>6, <3>1
  <2>3. ~(x \in 1..Len(s))
    BY <2>2 DEF Passed
  <2> DEFINE j == x - Len(s)
  <2>4. j \in 1..Len(p) /\ j + Len(m) - 1 <= a /\ Len(s) + j = x /\ j + Len(m) - 1 <= Len(p) /\ j <= a
    BY <1>1, <1>4, <1>5, <2>1, <2>3
  <2> HIDE DEF j
  <2>5. Begins(p, j, m)
    BY <2>2, <2>4, BeginsBehind
  <2>6. Full(p, j, m) /\ j \in Nat
    BY <1>1, <2>4, <2>5 DEF Full
  <2>7. Find(p, m) > 0 /\ Find(p, m) <= j /\ Find(p, m) \in Nat
    BY <2>6, FindSays
  <2> QED BY <2>4, <2>6, <2>7
<1>8. x = 0
  <2> HIDE DEF x
  <2> QED BY <1>5, <1>7
<1> QED BY <1>8 DEF x, u, f

(* No end of a text that could grow into a mark is longer than HeldBack.   *)
LEMMA HeldIsLongest ==
  ASSUME NEW V, NEW t \in Seq(V), NEW watched, NEW w \in watched, NEW n \in 1..Len(t), n < Len(w),
         SubSeq(t, Len(t) - n + 1, Len(t)) = SubSeq(w, 1, n)
  PROVE  n <= HeldBack(t, watched)
<1> DEFINE S == {k \in 1..Len(t) : \E x \in watched :
                   k < Len(x) /\ SubSeq(t, Len(t) - k + 1, Len(t)) = SubSeq(x, 1, k)}
<1>1. Len(t) \in Nat /\ S \in SUBSET (1..Len(t)) /\ n \in S
  BY LenProperties
<1>2. HeldBack(t, watched) = Max({0} \union S)
  BY DEF HeldBack
<1> HIDE DEF S
<1> QED BY <1>1, <1>2, LargestBounds

LEMMA HeldIsRange ==
  ASSUME NEW V, NEW t \in Seq(V), NEW watched
  PROVE  HeldBack(t, watched) \in 0..Len(t)
<1> DEFINE S == {n \in 1..Len(t) : \E w \in watched :
                   n < Len(w) /\ SubSeq(t, Len(t) - n + 1, Len(t)) = SubSeq(w, 1, n)}
<1>1. Len(t) \in Nat /\ S \in SUBSET (1..Len(t))
  BY LenProperties
<1>2. HeldBack(t, watched) = Max({0} \union S)
  BY DEF HeldBack
<1> HIDE DEF S
<1> QED BY <1>1, <1>2, LargestOfSome

(* A mark that begins in a text and does not end in it is held back.       *)
LEMMA HalfIsHeld ==
  ASSUME NEW V, NEW t \in Seq(V), NEW watched, NEW w \in watched, IsMark(w), Find(t, w) = 0,
         NEW j \in 1..Len(t), Begins(t, j, w)
  PROVE  Len(t) - j + 1 <= HeldBack(t, watched)
<1> DEFINE n == Len(t) - j + 1
           u == SubSeq(t, j, Len(t))
           v == SubSeq(w, 1, n)
<1>1. Len(w) \in Nat \ {0} /\ w \in Seq(ToSet(w)) /\ Len(t) \in Nat
  BY MarkFacts, LenProperties
<1>2. ~(j + Len(w) - 1 <= Len(t))
  <2> SUFFICES ASSUME j + Len(w) - 1 <= Len(t) PROVE FALSE
    OBVIOUS
  <2>1. Full(t, j, w) /\ j \in Nat
    BY <1>1 DEF Full
  <2>2. Find(t, w) > 0 /\ Find(t, w) \in Nat
    BY <2>1, FindSays
  <2> QED BY <2>2
<1>3. n \in 1..Len(t) /\ n < Len(w) /\ Len(t) - n + 1 = j /\ j \in Nat
  BY <1>1, <1>2
<1> HIDE DEF n
<1>4. u \in Seq(V) /\ Len(u) = n /\ \A k \in 1..n : u[k] = t[j + k - 1]
  <2>1. j \in 1..(Len(t) + 1) /\ Len(t) \in (j - 1)..Len(t) /\ Len(t) - j + 1 = n
    BY <1>1 DEF n
  <2>2. /\ u \in Seq(V) /\ Len(u) = Len(t) - j + 1
        /\ \A k \in 1..(Len(t) - j + 1) : u[k] = t[j + k - 1]
    BY <2>1, CutFacts
  <2> QED BY ONLY <2>1, <2>2
<1>5. v \in Seq(ToSet(w)) /\ Len(v) = n /\ \A k \in 1..n : v[k] = w[k]
  <2>1. 1 \in 1..(Len(w) + 1) /\ n \in (1 - 1)..Len(w) /\ n - 1 + 1 = n
    BY <1>1, <1>3
  <2>2. /\ v \in Seq(ToSet(w)) /\ Len(v) = n - 1 + 1
        /\ \A k \in 1..(n - 1 + 1) : v[k] = w[1 + k - 1]
    BY <1>1, <2>1, CutFacts
  <2>3. \A k \in 1..n : 1 + k - 1 = k
    BY <1>3
  <2> QED BY ONLY <2>1, <2>2, <2>3
<1>6. \A k \in 1..n : t[j + k - 1] = w[k]
  <2> TAKE k \in 1..n
  <2>1. k \in 1..Len(w) /\ j + k - 1 <= Len(t)
    BY <1>1, <1>3 DEF n
  <2> QED BY <2>1 DEF Begins
<1> HIDE DEF u, v
<1>7. u = v
  <2> DEFINE W == V \union ToSet(w)
  <2>1. V \subseteq W /\ ToSet(w) \subseteq W
    OBVIOUS
  <2> HIDE DEF W
  <2>2. u \in Seq(W) /\ v \in Seq(W)
    BY <1>4, <1>5, <2>1, SeqMonotonic
  <2>3. Len(u) = Len(v) /\ \A k \in 1..Len(u) : u[k] = v[k]
    BY <1>4, <1>5, <1>6
  <2> QED BY ONLY <2>2, <2>3, SeqEqual
<1>8. SubSeq(t, Len(t) - n + 1, Len(t)) = SubSeq(w, 1, n)
  BY <1>3, <1>7 DEF u, v
<1>9. n <= HeldBack(t, watched)
  BY <1>3, <1>8, HeldIsLongest
<1> QED BY <1>9 DEF n

(* What is released has passed: what could still become a mark is kept.    *)
LEMMA ReleasedHasPassed ==
  ASSUME NEW V, NEW s \in Seq(V), NEW p \in Seq(V), NEW watched, NEW w \in watched, IsMark(w),
         Passed(s, p, w), Find(p, w) = 0, NEW h, h = Len(p) - HeldBack(p, watched)
  PROVE  Passed(s \o SubSeq(p, 1, h), SubSeq(p, h + 1, Len(p)), w)
<1> DEFINE f == SubSeq(p, 1, h)
           g == SubSeq(p, h + 1, Len(p))
           hold == HeldBack(p, watched)
<1>1. Len(w) \in Nat \ {0} /\ Len(s) \in Nat /\ Len(p) \in Nat /\ hold \in 0..Len(p)
  BY MarkFacts, LenProperties, HeldIsRange
<1>2. h \in 0..Len(p) /\ h = Len(p) - hold
  BY <1>1
<1> HIDE DEF hold
<1>3. p = f \o g
  BY <1>2, CutInTwo
<1>4. f \in Seq(V) /\ Len(f) = h /\ g \in Seq(V)
  <2>1. 1 \in 1..(Len(p) + 1) /\ h \in (1 - 1)..Len(p) /\ h + 1 \in 1..(Len(p) + 1) /\ Len(p) \in (h + 1 - 1)..Len(p)
    BY <1>1, <1>2
  <2>2. f \in Seq(V) /\ Len(f) = h - 1 + 1
    BY <2>1, CutFacts
  <2> DEFINE b == h + 1
  <2>3. SubSeq(p, b, Len(p)) \in Seq(V)
    <3> HIDE DEF b
    <3> QED BY <2>1, CutFacts DEF b
  <2>4. h - 1 + 1 = h
    BY <1>1, <1>2
  <2> QED BY <2>2, <2>3, <2>4
<1> HIDE DEF f, g
<1>5. Len(s \o f) = Len(s) + h /\ (s \o f) \o g = s \o p
  <2>1. s \in Seq(V) /\ f \in Seq(V) /\ g \in Seq(V)
    BY <1>4
  <2>2. (s \o f) \o g = s \o (f \o g)
    BY ONLY <2>1, ConcatAssociative
  <2> QED BY <1>3, <1>4, <2>2, CatFacts
<1>6. ASSUME NEW i \in 1..(Len(s) + h), Begins(s \o p, i, w) PROVE FALSE
  <2>1. ~(i \in 1..Len(s))
    BY <1>6 DEF Passed
  <2> DEFINE j == i - Len(s)
  <2>2. j \in 1..Len(p) /\ j <= h /\ Len(s) + j = i /\ j \in Nat
    BY <1>1, <1>2, <2>1
  <2> HIDE DEF j
  <2>3. Begins(p, j, w)
    BY <1>6, <2>2, BeginsBehind
  <2>4. Len(p) - j + 1 <= hold
    BY <2>2, <2>3, HalfIsHeld DEF hold
  <2> QED BY <1>1, <1>2, <2>2, <2>4
<1> QED BY <1>5, <1>6 DEF Passed, f, g

(* Around a mark, when the text goes on behind or has a text in front.     *)
LEMMA AroundMarkGrows ==
  ASSUME NEW V, NEW s \in Seq(V), NEW t \in Seq(V), NEW m, IsMark(m), NEW a \in Nat \ {0},
         a + Len(m) <= Len(s) + 1
  PROVE  Before(s \o t, a) = Before(s, a) /\ After(s \o t, a, m) = After(s, a, m) \o t
<1> DEFINE b == a + Len(m) - 1
<1>1. Len(m) \in Nat \ {0} /\ Len(s) \in Nat
  BY MarkFacts, LenProperties
<1>2. b \in 0..Len(s) /\ b + 1 = a + Len(m) /\ a - 1 \in Nat /\ a - 1 <= Len(s)
  BY <1>1
<1> HIDE DEF b
<1>3. SubSeq(s \o t, b + 1, Len(s \o t)) = SubSeq(s, b + 1, Len(s)) \o t
  BY <1>2, CutBeforeSeam
<1> DEFINE k == a - 1
<1>4. SubSeq(s \o t, 1, k) = SubSeq(s, 1, k)
  <2> HIDE DEF k
  <2> QED BY <1>2, SliceBefore DEF k
<1> QED BY <1>2, <1>3, <1>4 DEF Before, After

(* The same around a mark behind the seam.                                 *)
LEMMA AroundMarkShifts ==
  ASSUME NEW V, NEW s \in Seq(V), NEW t \in Seq(V), NEW m, IsMark(m), NEW a \in Nat \ {0},
         a + Len(m) <= Len(t) + 1
  PROVE  /\ Before(s \o t, Len(s) + a) = s \o Before(t, a)
         /\ After(s \o t, Len(s) + a, m) = After(t, a, m)
<1> DEFINE b == a + Len(m) - 1
           k == a - 1
<1>1. Len(m) \in Nat \ {0} /\ Len(s) \in Nat /\ Len(t) \in Nat
  BY MarkFacts, LenProperties
<1>2. /\ b \in 0..Len(t) /\ b + 1 = a + Len(m) /\ Len(s) + b + 1 = Len(s) + a + Len(m)
      /\ k \in 0..Len(t) /\ Len(s) + k = Len(s) + a - 1
  BY <1>1
<1> HIDE DEF b, k
<1>3. SubSeq(s \o t, Len(s) + b + 1, Len(s \o t)) = SubSeq(t, b + 1, Len(t))
  BY <1>2, CutBehindSeam
<1>4. SubSeq(s \o t, 1, Len(s) + k) = s \o SubSeq(t, 1, k)
  BY <1>2, CutBehindSeam
<1> QED BY <1>2, <1>3, <1>4 DEF Before, After, k

LEMMA FoundWithin ==
  ASSUME NEW V, NEW s \in Seq(V), NEW m, IsMark(m), Find(s, m) > 0
  PROVE  /\ Find(s, m) \in Nat \ {0} /\ Find(s, m) + Len(m) <= Len(s) + 1
         /\ Before(s, Find(s, m)) \in Seq(V) /\ Len(Before(s, Find(s, m))) = Find(s, m) - 1
         /\ After(s, Find(s, m), m) \in Seq(V)
         /\ Len(After(s, Find(s, m), m)) = Len(s) - (Find(s, m) + Len(m) - 1)
<1> DEFINE a == Find(s, m)
           b == a + Len(m) - 1
           k == a - 1
<1>1. Len(m) \in Nat \ {0} /\ Len(s) \in Nat
  BY MarkFacts, LenProperties
<1>2. a \in Nat /\ Full(s, a, m)
  BY FindSays
<1>3. a \in 1..Len(s) /\ a + Len(m) - 1 <= Len(s)
  BY <1>2 DEF Full
<1> HIDE DEF a
<1>4. a \in Nat \ {0} /\ a + Len(m) <= Len(s) + 1 /\ b \in 0..Len(s) /\ b + 1 = a + Len(m) /\ k \in 0..Len(s)
  BY <1>1, <1>2, <1>3
<1> HIDE DEF b, k
<1>5. SubSeq(s, b + 1, Len(s)) \in Seq(V) /\ Len(SubSeq(s, b + 1, Len(s))) = Len(s) - b
  BY <1>4, CutParts
<1>6. SubSeq(s, 1, k) \in Seq(V) /\ Len(SubSeq(s, 1, k)) = k
  BY <1>4, CutParts
<1> QED BY <1>4, <1>5, <1>6 DEF Before, After, a, b, k

(* The newlines in front of a text.                                        *)
LEMMA TrimIs ==
  ASSUME NEW V, NEW s \in Seq(V)
  PROVE  /\ (\A i \in 1..Len(s) : s[i] = "n") => TrimNewlines(s) = <<>>
         /\ \A a \in 1..Len(s) : s[a] # "n" /\ (\A i \in 1..(a - 1) : s[i] = "n") =>
              /\ TrimNewlines(s) = SubSeq(s, a, Len(s)) /\ TrimNewlines(s) # <<>>
              /\ TrimNewlines(s) \in Seq(V)
<1> DEFINE rest == {i \in 1..Len(s) : s[i] # "n"}
<1>1. Len(s) \in Nat
  BY LenProperties
<1>2. TrimNewlines(s) = IF rest = {} THEN <<>> ELSE SubSeq(s, Min(rest), Len(s))
  BY DEF TrimNewlines
<1>3. (\A i \in 1..Len(s) : s[i] = "n") => TrimNewlines(s) = <<>>
  BY <1>2
<1>4. ASSUME NEW a \in 1..Len(s), s[a] # "n", \A i \in 1..(a - 1) : s[i] = "n"
      PROVE  /\ TrimNewlines(s) = SubSeq(s, a, Len(s)) /\ TrimNewlines(s) # <<>>
             /\ TrimNewlines(s) \in Seq(V)
  <2>1. a \in rest /\ \A i \in rest : a <= i
    <3> SUFFICES ASSUME NEW i \in rest PROVE a <= i
      BY <1>4
    <3>1. i \in 1..Len(s) /\ ~(i \in 1..(a - 1))
      BY <1>4
    <3> QED BY <1>1, <3>1
  <2>2. Min(rest) = a
    <3>1. rest \subseteq Nat /\ a \in Nat
      BY <1>1
    <3> HIDE DEF rest
    <3> DEFINE x == Min(rest)
    <3>2. x \in rest /\ \A i \in rest : x <= i
      BY <2>1 DEF Min
    <3> HIDE DEF x
    <3>3. x = a
      BY <2>1, <3>1, <3>2
    <3> QED BY <3>3 DEF x
  <2>3. TrimNewlines(s) = SubSeq(s, a, Len(s))
    BY <1>2, <2>1, <2>2
  <2>4. a \in 1..(Len(s) + 1) /\ Len(s) \in (a - 1)..Len(s) /\ Len(s) - a + 1 > 0
    BY <1>1
  <2>5. SubSeq(s, a, Len(s)) \in Seq(V) /\ Len(SubSeq(s, a, Len(s))) = Len(s) - a + 1
    BY <2>4, CutFacts
  <2>6. SubSeq(s, a, Len(s)) # <<>>
    <3> DEFINE v == SubSeq(s, a, Len(s))
    <3>1. Len(v) > 0
      <4>1. Len(v) = Len(s) - a + 1
        BY <2>5
      <4> HIDE DEF v
      <4> QED BY <2>4, <4>1
    <3>2. Len(<<>>) = 0
      BY EmptySeq
    <3> HIDE DEF v
    <3>3. v # <<>>
      BY <3>1, <3>2
    <3> QED BY <3>3 DEF v
  <2> QED BY <2>3, <2>5, <2>6
<1> QED BY <1>3, <1>4

(* TrimNewlines by the first place that holds no newline.                  *)
LEMMA TrimSays ==
  ASSUME NEW V, NEW s \in Seq(V)
  PROVE  \/ (\A i \in 1..Len(s) : s[i] = "n") /\ TrimNewlines(s) = <<>>
         \/ \E a \in 1..Len(s) : /\ s[a] # "n" /\ (\A i \in 1..(a - 1) : s[i] = "n")
                                 /\ TrimNewlines(s) = SubSeq(s, a, Len(s)) /\ TrimNewlines(s) # <<>>
<1> DEFINE rest == {i \in 1..Len(s) : s[i] # "n"}
<1>1. Len(s) \in Nat
  BY LenProperties
<1>2. CASE rest = {}
  <2>1. \A i \in 1..Len(s) : s[i] = "n"
    BY <1>2
  <2> QED BY <2>1, TrimIs
<1>3. CASE rest # {}
  <2>1. rest \in SUBSET Nat
    OBVIOUS
  <2>2. PICK a \in rest : \A i \in rest : a <= i
    <3> HIDE DEF rest
    <3> QED BY <1>3, <2>1, SmallestMember
  <2>3. a \in 1..Len(s) /\ s[a] # "n"
    OBVIOUS
  <2>4. ASSUME NEW i \in 1..(a - 1) PROVE s[i] = "n"
    <3>1. i \in 1..Len(s) /\ ~(a <= i)
      BY <1>1, <2>3
    <3> QED BY <2>2, <3>1
  <2> QED BY <2>3, <2>4, TrimIs
<1> QED BY <1>2, <1>3

(* Trimming may be put off until the first text that is not all newlines.  *)
LEMMA TrimGrows ==
  ASSUME NEW V, NEW s \in Seq(V), NEW t \in Seq(V)
  PROVE  TrimNewlines(s \o t) = IF TrimNewlines(s) = <<>> THEN TrimNewlines(t) ELSE TrimNewlines(s) \o t
<1> DEFINE u == s \o t
<1>1. /\ u \in Seq(V) /\ Len(s) \in Nat /\ Len(t) \in Nat /\ Len(u) = Len(s) + Len(t)
      /\ \A i \in 1..Len(s) : u[i] = s[i]
      /\ \A i \in 1..Len(t) : u[Len(s) + i] = t[i]
  BY CatFacts
<1>2. CASE \E a \in 1..Len(s) : /\ s[a] # "n" /\ (\A i \in 1..(a - 1) : s[i] = "n")
                                /\ TrimNewlines(s) = SubSeq(s, a, Len(s)) /\ TrimNewlines(s) # <<>>
  <2>1. PICK a \in 1..Len(s) : /\ s[a] # "n" /\ (\A i \in 1..(a - 1) : s[i] = "n")
                               /\ TrimNewlines(s) = SubSeq(s, a, Len(s)) /\ TrimNewlines(s) # <<>>
    BY <1>2
  <2> DEFINE b == a - 1
  <2>2. b \in 0..Len(s) /\ b + 1 = a /\ \A i \in 1..(a - 1) : i \in 1..Len(s)
    BY <1>1
  <2>3. a \in 1..Len(u) /\ u[a] # "n" /\ \A i \in 1..(a - 1) : u[i] = "n"
    <3> HIDE DEF u, b
    <3>1. \A i \in 1..(a - 1) : u[i] = "n"
      BY <1>1, <2>1, <2>2
    <3>2. a \in 1..Len(u)
      BY <1>1
    <3> QED BY <1>1, <2>1, <3>1, <3>2
  <2>4. TrimNewlines(u) = SubSeq(u, a, Len(u))
    <3> HIDE DEF u
    <3> QED BY <1>1, <2>3, TrimIs
  <2>5. SubSeq(s \o t, b + 1, Len(s \o t)) = SubSeq(s, b + 1, Len(s)) \o t
    <3> HIDE DEF b
    <3> QED BY <2>2, CutBeforeSeam
  <2> QED BY <2>1, <2>2, <2>4, <2>5
<1>3. CASE (\A i \in 1..Len(s) : s[i] = "n") /\ TrimNewlines(s) = <<>>
  <2>1. CASE (\A i \in 1..Len(t) : t[i] = "n") /\ TrimNewlines(t) = <<>>
    <3>1. ASSUME NEW i \in 1..Len(u) PROVE u[i] = "n"
      <4>1. CASE i \in 1..Len(s)
        BY <1>1, <1>3, <4>1
      <4>2. CASE ~(i \in 1..Len(s))
        <5>1. i - Len(s) \in 1..Len(t) /\ Len(s) + (i - Len(s)) = i
          <6> HIDE DEF u
          <6> QED BY <1>1, <4>2
        <5> DEFINE j == i - Len(s)
        <5>2. u[Len(s) + j] = t[j] /\ t[j] = "n"
          <6> HIDE DEF j, u
          <6> QED BY <1>1, <2>1, <5>1 DEF j
        <5> QED BY <5>1, <5>2
      <4> QED BY <4>1, <4>2
    <3>2. TrimNewlines(u) = <<>>
      <4> HIDE DEF u
      <4> QED BY <1>1, <3>1, TrimIs
    <3> QED BY <1>3, <2>1, <3>2
  <2>2. CASE \E a \in 1..Len(t) : /\ t[a] # "n" /\ (\A i \in 1..(a - 1) : t[i] = "n")
                                  /\ TrimNewlines(t) = SubSeq(t, a, Len(t)) /\ TrimNewlines(t) # <<>>
    <3>1. PICK a \in 1..Len(t) : /\ t[a] # "n" /\ (\A i \in 1..(a - 1) : t[i] = "n")
                                 /\ TrimNewlines(t) = SubSeq(t, a, Len(t)) /\ TrimNewlines(t) # <<>>
      BY <2>2
    <3> DEFINE b == Len(s) + a
               k == a - 1
    <3>2. b \in 1..Len(u) /\ u[b] # "n"
      <4> HIDE DEF u
      <4> QED BY <1>1, <3>1
    <3>3. ASSUME NEW i \in 1..(b - 1) PROVE u[i] = "n"
      <4>1. CASE i \in 1..Len(s)
        BY <1>1, <1>3, <4>1
      <4>2. CASE ~(i \in 1..Len(s))
        <5>1. i - Len(s) \in 1..(a - 1) /\ Len(s) + (i - Len(s)) = i /\ i - Len(s) \in 1..Len(t)
          <6> HIDE DEF u
          <6> QED BY <1>1, <4>2
        <5> DEFINE j == i - Len(s)
        <5>2. u[Len(s) + j] = t[j] /\ t[j] = "n"
          <6>1. j \in 1..(a - 1) /\ j \in 1..Len(t)
            BY <5>1
          <6> HIDE DEF j, u
          <6> QED BY <1>1, <3>1, <6>1
        <5> QED BY <5>1, <5>2
      <4> QED BY <4>1, <4>2
    <3>4. TrimNewlines(u) = SubSeq(u, b, Len(u))
      <4> HIDE DEF u, b
      <4> QED BY <1>1, <3>2, <3>3, TrimIs
    <3>5. k \in 0..Len(t) /\ k + 1 = a /\ Len(s) + k + 1 = b
      BY <1>1
    <3>6. SubSeq(s \o t, Len(s) + k + 1, Len(s \o t)) = SubSeq(t, k + 1, Len(t))
      <4> HIDE DEF k
      <4> QED BY <3>5, CutBehindSeam
    <3>7. SubSeq(u, b, Len(u)) = SubSeq(t, a, Len(t))
      BY <3>5, <3>6
    <3> QED BY <1>3, <3>1, <3>4, <3>7
  <2> QED BY <2>1, <2>2, TrimSays
<1> QED BY <1>2, <1>3, TrimSays

-----------------------------------------------------------------------------
(* The parser of whole texts.                                              *)

(* The parser of whole texts, one step after another (generation.rs).      *)
Symbols == UNION {ToSet(text) : text \in Vocabulary}

LEMMA TextsAreSequences == Texts = Seq(Symbols)
BY DEF Texts, Symbols

LEMMA Delimiters ==
  ASSUME NEW m \in {THINK_END, TOOL_CALL_START, TOOL_CALL_END}
  PROVE  IsMark(m) /\ Len(m) = 2
<1>1. PICK a, b : m = <<a, b>>
  BY DEF THINK_END, TOOL_CALL_START, TOOL_CALL_END
<1>2. ToSet(m) = {a, b}
  BY <1>1 DEF ToSet
<1>3. m \in Seq({a, b}) /\ m # <<>> /\ Len(m) = 2
  BY <1>1
<1> QED BY <1>2, <1>3 DEF IsMark

Parsers == [text : Texts, calls : Seq(Texts), rest : Texts, going : BOOLEAN, failed : BOOLEAN]

ParseStart(text) == [text |-> <<>>, calls |-> <<>>, rest |-> text, going |-> TRUE, failed |-> FALSE]

(* One step: the text in front of the next call, and the call.             *)
CallStart(x) == Find(x.rest, TOOL_CALL_START)
Behind(x)    == After(x.rest, CallStart(x), TOOL_CALL_START)
CallEnd(x)   == Find(Behind(x), TOOL_CALL_END)
CallBody(x)     == Before(Behind(x), CallEnd(x))

(* One step of the parser, by what it finds.                               *)
LEMMA ParseOnceSays ==
  ASSUME NEW x \in Parsers
  PROVE  LET y == ParseOnce(x) IN
         /\ CallStart(x) = 0 =>
              /\ y.text = x.text \o x.rest /\ y.calls = x.calls /\ y.failed = x.failed /\ ~y.going
              /\ y.rest = x.rest
         /\ CallStart(x) > 0 /\ (CallEnd(x) = 0 \/ ~Parses(CallBody(x))) =>
              /\ y.text = x.text \o Before(x.rest, CallStart(x)) /\ y.calls = x.calls /\ y.failed /\ ~y.going
              /\ y.rest = x.rest
         /\ CallStart(x) > 0 /\ CallEnd(x) > 0 /\ Parses(CallBody(x)) =>
              /\ y.text = x.text \o Before(x.rest, CallStart(x)) /\ y.calls = Append(x.calls, Trim(CallBody(x)))
              /\ y.rest = After(Behind(x), CallEnd(x), TOOL_CALL_END)
              /\ y.going = x.going /\ y.failed = x.failed
         /\ CallStart(x) \in Nat /\ (CallStart(x) > 0 => CallEnd(x) \in Nat)
         /\ y \in Parsers
<1> DEFINE start == CallStart(x)
           b == Before(x.rest, start)
           rest == Behind(x)
           end == CallEnd(x)
           inner == CallBody(x)
           trimmed == Trim(inner)
           left == After(rest, end, TOOL_CALL_END)
           y0 == [x EXCEPT !.text = @ \o x.rest, !.going = FALSE]
           y1 == [x EXCEPT !.text = @ \o b, !.going = FALSE, !.failed = TRUE]
           y2 == [x EXCEPT !.text = @ \o b, !.rest = left, !.calls = Append(@, trimmed)]
<1>1. ParseOnce(x) = (CASE start = 0 -> y0
                        [] start > 0 /\ (end = 0 \/ ~Parses(inner)) -> y1
                        [] OTHER -> y2)
  BY DEF ParseOnce, CallStart, Behind, CallEnd, CallBody
<1>2. x.text \in Texts /\ x.calls \in Seq(Texts) /\ x.rest \in Texts
  BY DEF Parsers
<1>3. start \in Nat /\ (start > 0 => b \in Texts /\ rest \in Texts)
  <2>1. Find(x.rest, TOOL_CALL_START) \in Nat
    BY <1>2, Delimiters, TextsAreSequences, FindSays
  <2>2. ASSUME Find(x.rest, TOOL_CALL_START) > 0
        PROVE  /\ Before(x.rest, Find(x.rest, TOOL_CALL_START)) \in Texts
               /\ After(x.rest, Find(x.rest, TOOL_CALL_START), TOOL_CALL_START) \in Texts
    BY <1>2, <2>2, Delimiters, TextsAreSequences, FoundWithin
  <2> QED BY <2>1, <2>2 DEF CallStart, Behind
<1>4. ASSUME start > 0 PROVE end \in Nat /\ (end > 0 => inner \in Texts /\ left \in Texts /\ trimmed \in Texts)
  <2> HIDE DEF rest
  <2>0. rest \in Texts /\ end = Find(rest, TOOL_CALL_END) /\ inner = Before(rest, end)
    BY <1>3, <1>4 DEF CallEnd, CallBody, rest
  <2> HIDE DEF end, inner
  <2>1. Find(rest, TOOL_CALL_END) \in Nat
    BY <2>0, Delimiters, TextsAreSequences, FindSays
  <2>2. ASSUME end > 0 PROVE inner \in Texts /\ left \in Texts
    BY <2>0, <2>2, Delimiters, TextsAreSequences, FoundWithin
  <2>3. end > 0 => trimmed \in Texts
    BY <2>2, TrimmedText
  <2> QED BY <2>0, <2>1, <2>2, <2>3
<1> HIDE DEF b, left, trimmed, start, end, inner, rest
<1> DEFINE y == ParseOnce(x)
<1>5. ASSUME start = 0
      PROVE  y.text = x.text \o x.rest /\ y.calls = x.calls /\ y.failed = x.failed /\ ~y.going /\ y.rest = x.rest /\ y \in Parsers
  <2>1. y = y0 /\ x.text \o x.rest \in Texts
    BY <1>1, <1>2, <1>5, EmptyText
  <2>2. /\ y0.text = x.text \o x.rest /\ y0.calls = x.calls /\ y0.failed = x.failed /\ ~y0.going
        /\ y0.rest = x.rest /\ y0 \in Parsers
    BY <2>1 DEF Parsers
  <2> HIDE DEF y0, y
  <2> QED BY <2>1, <2>2
<1>6. ASSUME start > 0, end = 0 \/ ~Parses(inner)
      PROVE  y.text = x.text \o b /\ y.calls = x.calls /\ y.failed /\ ~y.going /\ y.rest = x.rest /\ y \in Parsers
  <2>1. y = y1 /\ x.text \o b \in Texts
    BY <1>1, <1>2, <1>3, <1>6, EmptyText
  <2>2. /\ y1.text = x.text \o b /\ y1.calls = x.calls /\ y1.failed /\ ~y1.going
        /\ y1.rest = x.rest /\ y1 \in Parsers
    BY <2>1 DEF Parsers
  <2> HIDE DEF y1, y
  <2> QED BY <2>1, <2>2
<1>7. ASSUME start > 0, end > 0, Parses(inner)
      PROVE  /\ y.text = x.text \o b /\ y.calls = Append(x.calls, trimmed) /\ y.rest = left
             /\ y.going = x.going /\ y.failed = x.failed /\ y \in Parsers
  <2>1. y = y2 /\ x.text \o b \in Texts /\ Append(x.calls, trimmed) \in Seq(Texts) /\ left \in Texts
    <3>1. ParseOnce(x) = y2
      BY <1>1, <1>3, <1>4, <1>7
    <3>2. x.text \o b \in Texts
      BY <1>2, <1>3, <1>7, EmptyText
    <3>3. trimmed \in Texts /\ left \in Texts
      BY <1>4, <1>7
    <3> QED BY <1>2, <3>1, <3>2, <3>3, AppendProperties
  <2>2. /\ y2.text = x.text \o b /\ y2.calls = Append(x.calls, trimmed) /\ y2.failed = x.failed
        /\ y2.going = x.going /\ y2.rest = left /\ y2 \in Parsers
    BY <2>1 DEF Parsers
  <2> HIDE DEF y2, y
  <2> QED BY <2>1, <2>2
<1> HIDE DEF y
<1>8. y \in Parsers
  <2>1. start = 0 \/ (start > 0 /\ (end = 0 \/ end > 0))
    BY <1>3, <1>4
  <2>2. CASE start = 0
    BY <1>5, <2>2
  <2>3. CASE start > 0 /\ (end = 0 \/ ~Parses(inner))
    BY <1>6, <2>3
  <2>4. CASE start > 0 /\ end > 0 /\ Parses(inner)
    BY <1>7, <2>4
  <2> QED BY <2>1, <2>2, <2>3, <2>4
<1> QED BY <1>3, <1>4, <1>5, <1>6, <1>7, <1>8 DEF start, end, inner, b, trimmed, left, rest, y

LEMMA ParsingInSteps ==
  ASSUME NEW text \in Texts
  PROVE  /\ Len(text) \in Nat
         /\ Parsing(text)[0] = ParseStart(text)
         /\ \A n \in 1..(Len(text) + 1) :
              Parsing(text)[n] = IF Parsing(text)[n - 1].going THEN ParseOnce(Parsing(text)[n - 1])
                                 ELSE Parsing(text)[n - 1]
         /\ \A n \in 0..(Len(text) + 1) : Parsing(text)[n] \in Parsers
<1> DEFINE m == Len(text) + 1
           x0 == ParseStart(text)
           next(x) == IF x.going THEN ParseOnce(x) ELSE x
           step == [i \in 1..m |-> [x \in Parsers |-> next(x)]]
           value(h, k) == IF k = 0 THEN x0 ELSE next(h[k - 1])
           Solves(h) == h = [k \in 0..m |-> IF k = 0 THEN x0 ELSE next(h[k - 1])]
           g == CHOOSE h : Solves(h)
<1>1. /\ Len(text) \in Nat /\ m \in Nat /\ 0 \in 0..m
      /\ \A i \in 1..m : i - 1 \in 0..m /\ i \in 0..m /\ i # 0
      /\ \A k \in 0..m : k # 0 => k \in 1..m
  BY EmptyText
<1>2. x0 \in Parsers /\ \A i \in 1..m, x \in Parsers : step[i][x] = next(x) /\ next(x) \in Parsers
  <2>1. x0 \in Parsers
    <3>1. <<>> \in Texts /\ <<>> \in Seq(Texts)
      BY EmptyText, EmptySeq
    <3> QED BY <3>1 DEF ParseStart, Parsers
  <2>2. \A x \in Parsers : next(x) \in Parsers
    BY ParseOnceSays
  <2> HIDE DEF next
  <2> QED BY <2>1, <2>2
<1> HIDE DEF step, m, x0
<1>3. PICK f : Repeats(f, m, Parsers, x0, step)
  <2>1. \A i \in 1..m, x \in Parsers : step[i][x] \in Parsers
    <3> HIDE DEF next
    <3> QED BY <1>2
  <2> QED BY <1>1, <1>2, <2>1, Iterates
<1>4. /\ f \in [0..m -> Parsers] /\ f[0] = x0
      /\ \A i \in 1..m : f[i] = next(f[i - 1])
  <2> HIDE DEF next
  <2> QED BY <1>1, <1>2, <1>3 DEF Repeats
<1>5. Solves(f)
  <2>1. \A k \in 0..m : f[k] = value(f, k)
    <3> HIDE DEF next
    <3> QED BY <1>1, <1>4
  <2>2. f = [k \in 0..m |-> value(f, k)]
    <3> HIDE DEF value
    <3>1. f = [k \in 0..m |-> f[k]]
      BY <1>4
    <3> QED BY <2>1, <3>1
  <2> QED BY ONLY <2>2
<1>6. Solves(g)
  <2> HIDE DEF Solves
  <2> QED BY <1>5
<1>7. Parsing(text) = g
  BY DEF Parsing, m, x0, ParseStart
<1> HIDE DEF g
<1>8. g[0] = x0 /\ \A k \in 1..m : g[k] = next(g[k - 1])
  <2> HIDE DEF next
  <2> QED BY <1>1, <1>6
<1> HIDE DEF Solves
<1> DEFINE S == {k \in 0..m : g[k] \in Parsers}
<1>9. 0..m \subseteq S
  <2> HIDE DEF next
  <2>1. 0 \in S
    BY <1>1, <1>2, <1>8
  <2>2. ASSUME NEW k \in 0..(m - 1), k \in S PROVE k + 1 \in S
    <3>1. k + 1 \in 1..m /\ k + 1 \in 0..m /\ (k + 1) - 1 = k /\ g[k] \in Parsers
      BY <1>1, <2>2
    <3>2. g[k + 1] = next(g[k])
      BY <1>8, <3>1
    <3>3. next(g[k]) \in Parsers
      BY <1>2, <3>1
    <3> QED BY <3>1, <3>2, <3>3
  <2> HIDE DEF S
  <2> QED BY <1>1, <2>1, <2>2, ClimbingTo
<1>10. \A k \in 0..m : g[k] \in Parsers
  BY <1>9
<1> QED BY <1>1, <1>7, <1>8, <1>10 DEF m, x0

LEMMA TextFound ==
  ASSUME NEW s \in Texts, NEW m, IsMark(m), NEW a, a = Find(s, m), a > 0
  PROVE  /\ a \in Nat \ {0} /\ a + Len(m) <= Len(s) + 1
         /\ Before(s, a) \in Texts /\ Len(Before(s, a)) = a - 1
         /\ After(s, a, m) \in Texts /\ Len(After(s, a, m)) = Len(s) - (a + Len(m) - 1)
<1> DEFINE V == Symbols
<1>1. Texts = Seq(V) /\ s \in Seq(V) /\ Find(s, m) > 0
  BY TextsAreSequences
<1> HIDE DEF V
<1>2. /\ Find(s, m) \in Nat \ {0} /\ Find(s, m) + Len(m) <= Len(s) + 1
      /\ Before(s, Find(s, m)) \in Seq(V) /\ Len(Before(s, Find(s, m))) = Find(s, m) - 1
      /\ After(s, Find(s, m), m) \in Seq(V)
      /\ Len(After(s, Find(s, m), m)) = Len(s) - (Find(s, m) + Len(m) - 1)
  BY ONLY <1>1, IsMark(m), FoundWithin
<1> QED BY <1>1, <1>2

(* A parser with more text behind what is left.                            *)
Longer(x, t) == [x EXCEPT !.rest = @ \o t]

(* The parser of a longer text, and the step that finds a whole call.      *)
LEMMA ParserEqual ==
  ASSUME NEW x \in Parsers, NEW y \in Parsers, x.text = y.text, x.calls = y.calls, x.rest = y.rest,
         x.going = y.going, x.failed = y.failed
  PROVE  x = y
BY DEF Parsers

LEMMA LongerFields ==
  ASSUME NEW x \in Parsers, NEW t \in Texts
  PROVE  LET z == Longer(x, t) IN
         /\ z \in Parsers /\ z.text = x.text /\ z.calls = x.calls /\ z.rest = x.rest \o t
         /\ z.going = x.going /\ z.failed = x.failed
<1>1. x.rest \o t \in Texts
  BY EmptyText DEF Parsers
<1> QED BY <1>1 DEF Longer, Parsers

(* A call that was parsed is parsed of every longer text, and takes its    *)
(* delimiters out of what is left.                                         *)
LEMMA CallIsParsed ==
  ASSUME NEW x \in Parsers, NEW t \in Texts, x.going, ParseOnce(x).going
  PROVE  /\ ParseOnce(Longer(x, t)) = Longer(ParseOnce(x), t)
         /\ Len(ParseOnce(x).rest) < Len(x.rest)
<1> DEFINE y == ParseOnce(x)
           z == Longer(x, t)
           w == ParseOnce(z)
           start == CallStart(x)
           rest == Behind(x)
           end == CallEnd(x)
           inner == CallBody(x)
<1>1. x.rest \in Texts /\ z \in Parsers /\ z.rest = x.rest \o t /\ y \in Parsers
  <2>1. x.rest \in Texts
    BY DEF Parsers
  <2> QED BY <2>1, LongerFields, ParseOnceSays
<1>2. start \in Nat /\ (start > 0 => end \in Nat) /\ start > 0 /\ end > 0 /\ Parses(inner)
  <2>1. start \in Nat /\ (start > 0 => end \in Nat)
    BY ParseOnceSays
  <2>2. start # 0
    BY ParseOnceSays
  <2>3. end # 0 /\ Parses(inner)
    <3> SUFFICES ASSUME end = 0 \/ ~Parses(inner) PROVE FALSE
      OBVIOUS
    <3>1. start > 0
      <4> HIDE DEF start
      <4> QED BY <2>1, <2>2
    <3>2. ~y.going
      BY <3>1, ParseOnceSays
    <3> QED BY <3>2
  <2> HIDE DEF start, end, inner
  <2> QED BY <2>1, <2>2, <2>3
<1>3. /\ y.text = x.text \o Before(x.rest, start) /\ y.calls = Append(x.calls, Trim(inner))
      /\ y.rest = After(rest, end, TOOL_CALL_END)
      /\ y.going = x.going /\ y.failed = x.failed
  BY <1>2, ParseOnceSays
<1> DEFINE St == TOOL_CALL_START
           En == TOOL_CALL_END
<1>4. IsMark(St) /\ IsMark(En) /\ Len(St) = 2 /\ Len(En) = 2
  BY Delimiters
<1>5. /\ Find(x.rest \o t, St) = start /\ start + Len(St) <= Len(x.rest) + 1
      /\ rest \in Texts /\ Len(rest) = Len(x.rest) - (start + Len(St) - 1) /\ start \in Nat \ {0}
  <2> HIDE DEF St
  <2>0. start = Find(x.rest, St) /\ rest = After(x.rest, start, St)
    BY DEF CallStart, Behind, St
  <2>1. Find(x.rest, St) > 0
    BY <1>2, <2>0
  <2>2. Find(x.rest \o t, St) = Find(x.rest, St)
    BY <1>1, <1>4, <2>1, TextsAreSequences, FindExtends
  <2> HIDE DEF start, rest
  <2>3. /\ start \in Nat \ {0} /\ start + Len(St) <= Len(x.rest) + 1
        /\ After(x.rest, start, St) \in Texts
        /\ Len(After(x.rest, start, St)) = Len(x.rest) - (start + Len(St) - 1)
    <3> DEFINE r == x.rest
    <3>1. r \in Texts /\ IsMark(St) /\ start = Find(r, St) /\ start > 0
      BY <1>1, <1>2, <1>4, <2>0
    <3> HIDE DEF r
    <3>2. /\ start \in Nat \ {0} /\ start + Len(St) <= Len(r) + 1
          /\ After(r, start, St) \in Texts
          /\ Len(After(r, start, St)) = Len(r) - (start + Len(St) - 1)
      BY ONLY <3>1, TextFound
    <3> QED BY <3>2 DEF r
  <2> QED BY <2>0, <2>2, <2>3
<1>6. Before(x.rest \o t, start) = Before(x.rest, start) /\ After(x.rest \o t, start, St) = rest \o t
  <2>1. rest = After(x.rest, start, St)
    BY DEF Behind
  <2> HIDE DEF St, start, rest
  <2>2. /\ Before(x.rest \o t, start) = Before(x.rest, start)
        /\ After(x.rest \o t, start, St) = After(x.rest, start, St) \o t
    BY <1>1, <1>4, <1>5, TextsAreSequences, AroundMarkGrows
  <2> QED BY <2>1, <2>2
<1>7. CallStart(z) = start /\ Behind(z) = rest \o t
  <2>1. CallStart(z) = start
    BY <1>1, <1>5 DEF CallStart
  <2> QED BY <1>1, <1>6, <2>1 DEF Behind
<1>8. /\ Find(rest \o t, En) = end /\ end + Len(En) <= Len(rest) + 1 /\ end \in Nat \ {0}
      /\ Before(rest \o t, end) = inner
      /\ After(rest \o t, end, En) = After(rest, end, En) \o t
      /\ Len(After(rest, end, En)) = Len(rest) - (end + Len(En) - 1)
  <2>0. end = Find(rest, En) /\ inner = Before(rest, end)
    BY DEF CallEnd, CallBody
  <2> HIDE DEF En, rest, end, inner
  <2>1. Find(rest, En) > 0
    BY <1>2, <2>0
  <2>2. Find(rest \o t, En) = Find(rest, En)
    BY <1>4, <1>5, <2>1, TextsAreSequences, FindExtends
  <2>3. /\ end \in Nat \ {0} /\ end + Len(En) <= Len(rest) + 1
        /\ Len(After(rest, end, En)) = Len(rest) - (end + Len(En) - 1)
    <3>1. rest \in Texts /\ IsMark(En) /\ end = Find(rest, En) /\ end > 0
      BY <1>2, <1>4, <1>5, <2>0
    <3> QED BY ONLY <3>1, TextFound
  <2>4. /\ Before(rest \o t, end) = Before(rest, end)
        /\ After(rest \o t, end, En) = After(rest, end, En) \o t
    BY <1>4, <1>5, <2>0, <2>3, TextsAreSequences, AroundMarkGrows
  <2> QED BY <2>0, <2>2, <2>3, <2>4
<1>9. CallEnd(z) = end /\ CallBody(z) = inner
  <2>1. CallEnd(z) = end
    BY <1>7, <1>8 DEF CallEnd
  <2> QED BY <1>7, <1>8, <2>1 DEF CallBody
<1>10. /\ w.text = z.text \o Before(z.rest, start) /\ w.calls = Append(z.calls, Trim(inner))
       /\ w.rest = After(rest \o t, end, En)
       /\ w.going = z.going /\ w.failed = z.failed /\ w \in Parsers
  <2> HIDE DEF z, start, rest, end, inner
  <2>1. /\ w.text = z.text \o Before(z.rest, CallStart(z)) /\ w.calls = Append(z.calls, Trim(CallBody(z)))
        /\ w.rest = After(Behind(z), CallEnd(z), TOOL_CALL_END)
        /\ w.going = z.going /\ w.failed = z.failed /\ w \in Parsers
    BY <1>1, <1>2, <1>7, <1>9, ParseOnceSays
  <2> QED BY <1>7, <1>9, <2>1
<1>11. w = Longer(y, t)
  <2>1. /\ Longer(y, t) \in Parsers /\ Longer(y, t).text = y.text /\ Longer(y, t).calls = y.calls
        /\ Longer(y, t).rest = y.rest \o t /\ Longer(y, t).going = y.going /\ Longer(y, t).failed = y.failed
    <3> HIDE DEF y
    <3> QED BY <1>1, LongerFields
  <2>2. z.text = x.text /\ z.calls = x.calls /\ z.going = x.going /\ z.failed = x.failed
    BY LongerFields
  <2>3. w.text = y.text /\ w.calls = y.calls /\ w.rest = y.rest \o t /\ w.going = y.going /\ w.failed = y.failed
    <3> HIDE DEF w, y, z
    <3> QED BY <1>1, <1>3, <1>6, <1>8, <1>10, <2>2
  <2> DEFINE v == Longer(y, t)
  <2> HIDE DEF w, y, v
  <2>4. v \in Parsers /\ w \in Parsers
    BY <1>10, <2>1 DEF v
  <2>5. w.text = v.text /\ w.calls = v.calls /\ w.rest = v.rest /\ w.going = v.going /\ w.failed = v.failed
    BY <2>1, <2>3 DEF v
  <2>6. w = v
    BY <2>4, <2>5, ParserEqual
  <2> QED BY <2>6 DEF v
<1>12. Len(y.rest) < Len(x.rest)
  <2>1. Len(x.rest) \in Nat
    BY <1>1, EmptyText
  <2>2. Len(y.rest) = Len(rest) - (end + Len(En) - 1)
    BY <1>3, <1>8
  <2> HIDE DEF y, rest, start, end, St, En
  <2> QED BY <1>4, <1>5, <1>8, <2>1, <2>2
<1> QED BY <1>11, <1>12

(* As long as it goes on, the parser of a longer text does the same, and   *)
(* has more left.                                                          *)
ParsesAlike(text, t, n) ==
  Parsing(text)[n].going =>
    /\ n + Len(Parsing(text)[n].rest) <= Len(text)
    /\ Parsing(text \o t)[n] = Longer(Parsing(text)[n], t)

LEMMA ParsingGrows ==
  ASSUME NEW text \in Texts, NEW t \in Texts, NEW n \in 0..(Len(text) + 1)
  PROVE  ParsesAlike(text, t, n)
<1> DEFINE f == Parsing(text)
           g == Parsing(text \o t)
           m == Len(text) + 1
           M == Len(text \o t) + 1
           S == {k \in 0..m : ParsesAlike(text, t, k)}
<1>1. text \o t \in Texts /\ Len(text) \in Nat /\ Len(t) \in Nat /\ Len(text \o t) = Len(text) + Len(t)
  BY EmptyText, TextsAreSequences, CatFacts
<1>2. m \in Nat /\ M \in Nat /\ m <= M /\ 0 \in 0..m
  BY <1>1
<1>3. /\ f[0] = ParseStart(text)
      /\ \A k \in 1..m : f[k] = IF f[k - 1].going THEN ParseOnce(f[k - 1]) ELSE f[k - 1]
      /\ \A k \in 0..m : f[k] \in Parsers
  BY ParsingInSteps
<1>4. /\ g[0] = ParseStart(text \o t)
      /\ \A k \in 1..M : g[k] = IF g[k - 1].going THEN ParseOnce(g[k - 1]) ELSE g[k - 1]
  BY <1>1, ParsingInSteps
<1> HIDE DEF f, g, m, M
<1>5. 0 \in S
  <2>1. f[0].rest = text /\ 0 + Len(text) <= Len(text)
    BY <1>1, <1>3 DEF ParseStart
  <2>2. g[0] = Longer(f[0], t)
    <3> DEFINE v == ParseStart(text \o t)
               w == ParseStart(text)
    <3>1. <<>> \in Texts /\ <<>> \in Seq(Texts)
      BY EmptyText, EmptySeq
    <3>2. v \in Parsers /\ w \in Parsers
      BY <1>1, <3>1 DEF ParseStart, Parsers
    <3>3. v.text = w.text /\ v.calls = w.calls /\ v.rest = w.rest \o t /\ v.going = w.going /\ v.failed = w.failed
      BY DEF ParseStart
    <3> HIDE DEF v, w
    <3>4. /\ Longer(w, t) \in Parsers /\ Longer(w, t).text = w.text /\ Longer(w, t).calls = w.calls
          /\ Longer(w, t).rest = w.rest \o t /\ Longer(w, t).going = w.going /\ Longer(w, t).failed = w.failed
      BY <3>2, LongerFields
    <3>5. v = Longer(w, t)
      BY <3>2, <3>3, <3>4, ParserEqual
    <3> QED BY <1>3, <1>4, <3>5 DEF v, w
  <2> QED BY <1>2, <2>1, <2>2 DEF ParsesAlike, f, g
<1>6. ASSUME NEW k \in 0..(m - 1), k \in S PROVE k + 1 \in S
  <2>1. k \in 0..m /\ k + 1 \in 1..m /\ k + 1 \in 0..m /\ (k + 1) - 1 = k /\ k + 1 \in 1..M /\ k \in Nat
    BY <1>2
  <2>2. f[k] \in Parsers /\ f[k + 1] = (IF f[k].going THEN ParseOnce(f[k]) ELSE f[k])
    BY <1>3, <2>1
  <2>3. g[k + 1] = IF g[k].going THEN ParseOnce(g[k]) ELSE g[k]
    BY <1>4, <2>1
  <2>4. f[k].going => k + Len(f[k].rest) <= Len(text) /\ g[k] = Longer(f[k], t)
    BY <1>6 DEF ParsesAlike, f, g
  <2>5. ASSUME f[k + 1].going
        PROVE  k + 1 + Len(f[k + 1].rest) <= Len(text) /\ g[k + 1] = Longer(f[k + 1], t)
    <3>1. f[k].going /\ f[k + 1] = ParseOnce(f[k])
      BY <2>2, <2>5
    <3> DEFINE x == f[k]
               y == ParseOnce(x)
    <3>2. x \in Parsers /\ x.going /\ y.going /\ f[k + 1] = y
      BY <2>2, <2>5, <3>1
    <3> HIDE DEF x
    <3>3. ParseOnce(Longer(x, t)) = Longer(y, t) /\ Len(y.rest) < Len(x.rest)
      BY <3>2, CallIsParsed
    <3>4. g[k] = Longer(x, t) /\ k + Len(x.rest) <= Len(text) /\ g[k].going
      <4>1. g[k] = Longer(x, t) /\ k + Len(x.rest) <= Len(text)
        BY <2>4, <3>2 DEF x
      <4> QED BY <3>2, <4>1, LongerFields
    <3>5. g[k + 1] = Longer(y, t)
      BY <2>3, <3>3, <3>4
    <3>6. y \in Parsers
      BY <3>2, ParseOnceSays
    <3>7. Len(y.rest) \in Nat /\ Len(x.rest) \in Nat
      <4>1. y.rest \in Texts /\ x.rest \in Texts
        BY <3>2, <3>6 DEF Parsers
      <4> QED BY <4>1, EmptyText
    <3>8. k + 1 + Len(y.rest) <= Len(text)
      <4> DEFINE a == Len(y.rest)
                 b == Len(x.rest)
      <4>1. a < b /\ k + b <= Len(text) /\ a \in Nat /\ b \in Nat /\ k \in Nat /\ Len(text) \in Nat
        BY <1>1, <2>1, <3>3, <3>4, <3>7
      <4> HIDE DEF a, b
      <4>2. k + 1 + a <= Len(text)
        BY ONLY <4>1
      <4> QED BY ONLY <4>2 DEF a
    <3> QED BY <3>2, <3>5, <3>8
  <2> QED BY <2>1, <2>5 DEF ParsesAlike, f, g
<1>7. 0..m \subseteq S
  <2> HIDE DEF S
  <2> QED BY <1>2, <1>5, <1>6, ClimbingTo
<1> QED BY <1>7 DEF m

(* A text without its end.                                                 *)
LEMMA GoingIsWithin ==
  ASSUME NEW text \in Texts, NEW n \in 0..(Len(text) + 1), Parsing(text)[n].going
  PROVE  n \in 0..Len(text) /\ n + 1 \in 1..(Len(text) + 1)
<1>1. n + Len(Parsing(text)[n].rest) <= Len(text)
  <2>1. ParsesAlike(text, <<>>, n)
    BY EmptyText, ParsingGrows
  <2> QED BY <2>1 DEF ParsesAlike
<1>2. Len(Parsing(text)[n].rest) \in Nat /\ Len(text) \in Nat
  <2>1. Parsing(text)[n].rest \in Texts
    BY ParsingInSteps DEF Parsers
  <2> QED BY <2>1, EmptyText
<1> QED BY <1>1, <1>2

(* What is parsed stays, and is all once the parser has stopped.           *)
LEMMA ParsedStays ==
  ASSUME NEW text \in Texts, NEW n \in 0..(Len(text) + 1)
  PROVE  /\ IsPrefix(Parsing(text)[n].text, FromModelText(text).text)
         /\ ~Parsing(text)[n].going => FromModelText(text) = Parsing(text)[n]
         /\ FromModelText(text) \in Parsers
<1> DEFINE f == Parsing(text)
           m == Len(text) + 1
           r == m - n
           S == {j \in 0..r : /\ IsPrefix(f[n].text, f[n + j].text)
                              /\ ~f[n].going => f[n + j] = f[n]}
<1>1. /\ m \in Nat
      /\ \A k \in 1..m : f[k] = IF f[k - 1].going THEN ParseOnce(f[k - 1]) ELSE f[k - 1]
      /\ \A k \in 0..m : f[k] \in Parsers
  <2>1. Len(text) \in Nat
    BY EmptyText
  <2>2. m \in Nat
    BY <2>1
  <2> QED BY <2>2, ParsingInSteps
<1>2. FromModelText(text) = f[m]
  BY DEF FromModelText
<1>3. n \in 0..m
  OBVIOUS
<1> HIDE DEF f, m
<1>4. r \in Nat /\ n \in Nat /\ n + r = m /\ 0 \in 0..r /\ \A j \in 0..r : n + j \in 0..m
  BY <1>1, <1>3
<1> HIDE DEF r
<1>5. ASSUME NEW k \in 0..m PROVE f[k].text \in Texts
  BY <1>1, <1>5 DEF Parsers
<1>6. 0 \in S
  <2>1. n + 0 = n
    BY <1>4
  <2>2. IsPrefix(f[n].text, f[n].text)
    <3>1. f[n].text \in Texts /\ <<>> \in Texts
      BY <1>3, <1>5, EmptyText
    <3>2. f[n].text \o <<>> = f[n].text
      BY <3>1, TextsAreSequences, ConcatEmptySeq
    <3>3. IsPrefix(f[n].text, f[n].text \o <<>>)
      BY <3>1, TextsAreSequences, PrefixOfConcat
    <3> QED BY <3>2, <3>3
  <2> QED BY <1>4, <2>1, <2>2
<1>7. ASSUME NEW j \in 0..(r - 1), j \in S PROVE j + 1 \in S
  <2> DEFINE k == n + j
             x == f[k]
             y == f[k + 1]
  <2>1. j + 1 \in 0..r /\ k \in 0..m /\ k + 1 \in 0..m /\ k + 1 \in 1..m /\ (k + 1) - 1 = k /\ n + (j + 1) = k + 1
    BY <1>1, <1>4
  <2>2. IsPrefix(f[n].text, x.text) /\ (~f[n].going => x = f[n])
    BY <1>7
  <2> HIDE DEF k
  <2>3. x \in Parsers /\ y \in Parsers /\ y = IF x.going THEN ParseOnce(x) ELSE x
    BY <1>1, <2>1
  <2>4. IsPrefix(x.text, y.text)
    <3>1. \E t \in Texts : y.text = x.text \o t
      <4>1. x.text \in Texts /\ x.rest \in Texts /\ <<>> \in Texts
        BY <2>3, EmptyText DEF Parsers
      <4> HIDE DEF x, y
      <4>2. CASE ~x.going
        <5>1. y.text = x.text \o <<>>
          BY <2>3, <4>1, <4>2, TextsAreSequences, ConcatEmptySeq
        <5> QED BY <4>1, <5>1
      <4>3. CASE x.going
        <5>1. y = ParseOnce(x)
          BY <2>3, <4>3
        <5>2. CallStart(x) \in Nat /\ (CallStart(x) > 0 => CallEnd(x) \in Nat)
          BY <2>3, ParseOnceSays
        <5>3. CASE CallStart(x) = 0
          BY <2>3, <4>1, <5>1, <5>3, ParseOnceSays
        <5>4. CASE CallStart(x) > 0
          <6>1. Before(x.rest, CallStart(x)) \in Texts
            <7> DEFINE z == x.rest
                       c == CallStart(x)
            <7>1. z \in Texts /\ c = Find(z, TOOL_CALL_START) /\ c > 0 /\ IsMark(TOOL_CALL_START)
              BY <4>1, <5>4, Delimiters DEF CallStart
            <7> HIDE DEF z, c
            <7>2. Before(z, c) \in Texts
              BY ONLY <7>1, TextFound
            <7> QED BY <7>2 DEF z, c
          <6>2. y.text = x.text \o Before(x.rest, CallStart(x))
            <7>1. CASE CallEnd(x) = 0 \/ ~Parses(CallBody(x))
              BY <2>3, <5>1, <5>4, <7>1, ParseOnceSays
            <7>2. CASE CallEnd(x) > 0 /\ Parses(CallBody(x))
              BY <2>3, <5>1, <5>4, <7>2, ParseOnceSays
            <7>3. CallEnd(x) = 0 \/ CallEnd(x) > 0
              BY ONLY <5>2, <5>4
            <7> QED BY <7>1, <7>2, <7>3
          <6> QED BY <6>1, <6>2
        <5> QED BY <5>2, <5>3, <5>4
      <4> QED BY <4>2, <4>3
    <3>2. PICK t \in Texts : y.text = x.text \o t
      BY <3>1
    <3>3. x.text \in Texts
      BY <2>3 DEF Parsers
    <3> HIDE DEF x, y
    <3> QED BY <3>2, <3>3, TextsAreSequences, PrefixOfConcat
  <2>5. IsPrefix(f[n].text, y.text)
    <3>1. f[n].text \in Texts /\ x.text \in Texts /\ y.text \in Texts
      BY <1>3, <1>5, <2>1
    <3> QED BY <2>2, <2>4, <3>1, TextsAreSequences, PrefixOfPrefix
  <2>6. ~f[n].going => y = f[n]
    BY <2>2, <2>3
  <2>7. IsPrefix(f[n].text, f[n + (j + 1)].text) /\ (~f[n].going => f[n + (j + 1)] = f[n])
    BY <2>1, <2>5, <2>6
  <2> QED BY <2>1, <2>7
<1>8. 0..r \subseteq S
  <2> HIDE DEF S
  <2> QED BY <1>4, <1>6, <1>7, ClimbingTo
<1>9. r \in S
  <2> HIDE DEF S
  <2> QED BY <1>4, <1>8
<1>10. m \in 0..m
  BY <1>1
<1> QED BY <1>1, <1>2, <1>4, <1>9, <1>10 DEF f

(* The parser's next step, seen from the end of the text.                  *)
LEMMA ParsesOn ==
  ASSUME NEW text \in Texts, NEW n \in 0..(Len(text) + 1), Parsing(text)[n].going
  PROVE  LET x == Parsing(text)[n]
             y == ParseOnce(x)
         IN /\ x \in Parsers /\ x.text \in Texts /\ x.rest \in Texts /\ x.calls \in Seq(Texts)
            /\ n \in 0..Len(text) /\ n + 1 \in 0..(Len(text) + 1)
            /\ Parsing(text)[n + 1] = y
            /\ IsPrefix(y.text, FromModelText(text).text)
            /\ ~y.going => FromModelText(text) = y
            /\ FromModelText(text) \in Parsers
<1> DEFINE x == Parsing(text)[n]
           m == n + 1
<1>1. n \in 0..Len(text) /\ m \in 1..(Len(text) + 1) /\ m \in 0..(Len(text) + 1) /\ m - 1 = n
  BY GoingIsWithin
<1>2. x \in Parsers
  BY ParsingInSteps
<1>3. Parsing(text)[m] = ParseOnce(x)
  <2>1. Parsing(text)[m] = IF Parsing(text)[m - 1].going THEN ParseOnce(Parsing(text)[m - 1])
                           ELSE Parsing(text)[m - 1]
    <3> HIDE DEF m
    <3> QED BY <1>1, ParsingInSteps
  <2> QED BY <1>1, <2>1
<1>4. /\ IsPrefix(Parsing(text)[m].text, FromModelText(text).text)
      /\ ~Parsing(text)[m].going => FromModelText(text) = Parsing(text)[m]
      /\ FromModelText(text) \in Parsers
  <2> HIDE DEF m
  <2> QED BY <1>1, ParsedStays
<1>5. x.text \in Texts /\ x.rest \in Texts /\ x.calls \in Seq(Texts)
  <2> HIDE DEF x
  <2> QED BY <1>2 DEF Parsers
<1> QED BY <1>1, <1>2, <1>3, <1>4, <1>5

LEMMA TextParts ==
  ASSUME NEW p \in Texts, NEW a \in 0..Len(p)
  PROVE  /\ p = SubSeq(p, 1, a) \o SubSeq(p, a + 1, Len(p))
         /\ SubSeq(p, 1, a) \in Texts /\ SubSeq(p, a + 1, Len(p)) \in Texts
         /\ Len(SubSeq(p, 1, a)) = a /\ Len(SubSeq(p, a + 1, Len(p))) = Len(p) - a
<1> DEFINE V == Symbols
<1>1. p \in Seq(V) /\ Texts = Seq(V)
  BY TextsAreSequences
<1> HIDE DEF V
<1>2. /\ p = SubSeq(p, 1, a) \o SubSeq(p, a + 1, Len(p))
      /\ SubSeq(p, 1, a) \in Seq(V) /\ SubSeq(p, a + 1, Len(p)) \in Seq(V)
      /\ Len(SubSeq(p, 1, a)) = a /\ Len(SubSeq(p, a + 1, Len(p))) = Len(p) - a
  BY ONLY <1>1, a \in 0..Len(p), CutParts
<1> QED BY <1>1, <1>2

(* What is shown up to a place in front of the next call is a prefix of    *)
(* what the parser will have found.                                        *)
LEMMA ShownIsPrefix ==
  ASSUME NEW text \in Texts, NEW n \in 0..(Len(text) + 1), NEW x, x = Parsing(text)[n], x.going,
         NEW s \in Texts, NEW p \in Texts, x.rest = s \o p, Passed(s, p, TOOL_CALL_START),
         NEW a \in 0..Len(p), Find(p, TOOL_CALL_START) = 0 \/ Find(p, TOOL_CALL_START) > a
  PROVE  IsPrefix(x.text \o (s \o SubSeq(p, 1, a)), FromModelText(text).text)
<1> DEFINE St == TOOL_CALL_START
           f == SubSeq(p, 1, a)
           g == SubSeq(p, a + 1, Len(p))
           at == Find(p, St)
           y == ParseOnce(x)
           whole == FromModelText(text).text
<1>1. /\ x \in Parsers /\ x.text \in Texts /\ IsPrefix(y.text, whole) /\ FromModelText(text) \in Parsers
  BY ParsesOn
<1>2. IsMark(St) /\ Len(St) = 2 /\ Len(p) \in Nat
  BY Delimiters, EmptyText
<1>3. p = f \o g /\ f \in Texts /\ g \in Texts /\ Len(f) = a
  BY TextParts
<1>4. whole \in Texts /\ y \in Parsers /\ y.text \in Texts
  <2>1. y \in Parsers
    BY <1>1, ParseOnceSays
  <2> HIDE DEF y
  <2> QED BY <1>1, <2>1 DEF Parsers
<1> HIDE DEF f, g, whole
<1>5. CallStart(x) = IF at = 0 THEN 0 ELSE Len(s) + at
  <2>1. Find(s \o p, St) = IF Find(p, St) = 0 THEN 0 ELSE Len(s) + Find(p, St)
    <3> HIDE DEF St
    <3> QED BY <1>2, TextsAreSequences, FindShifts DEF St
  <2> QED BY <2>1 DEF CallStart
<1>6. at \in Nat
  BY <1>2, TextsAreSequences, FindSays
<1> HIDE DEF St
<1>7. \E h \in Texts : y.text = x.text \o (s \o h) /\ IsPrefix(f, h)
  <2>1. CASE at = 0
    <3>1. y.text = x.text \o x.rest
      BY <1>1, <1>5, <2>1, ParseOnceSays
    <3>2. IsPrefix(f, p)
      BY <1>3, TextsAreSequences, PrefixOfConcat
    <3> QED BY <3>1, <3>2
  <2>2. CASE at > 0
    <3>1. CallStart(x) = Len(s) + at /\ CallStart(x) > 0 /\ CallStart(x) \in Nat
      <4>1. Len(s) \in Nat
        BY EmptyText
      <4> HIDE DEF at
      <4> QED BY <1>5, <1>6, <2>2, <4>1
    <3>2. y.text = x.text \o Before(x.rest, CallStart(x))
      <4>1. CallEnd(x) \in Nat
        BY <1>1, <3>1, ParseOnceSays
      <4>2. CallEnd(x) = 0 \/ CallEnd(x) > 0
        BY <4>1
      <4>3. CASE CallEnd(x) = 0 \/ ~Parses(CallBody(x))
        BY <1>1, <3>1, <4>3, ParseOnceSays
      <4>4. CASE CallEnd(x) > 0 /\ Parses(CallBody(x))
        BY <1>1, <3>1, <4>4, ParseOnceSays
      <4> QED BY <4>2, <4>3, <4>4
    <3>3. at \in Nat \ {0} /\ at + Len(St) <= Len(p) + 1 /\ Before(p, at) \in Texts
      BY <1>2, <2>2, TextFound
    <3>4. Before(x.rest, CallStart(x)) = s \o Before(p, at)
      <4> HIDE DEF at
      <4>1. Before(s \o p, Len(s) + at) = s \o Before(p, at)
        BY <1>2, <3>3, TextsAreSequences, AroundMarkShifts
      <4> QED BY <3>1, <4>1
    <3>5. IsPrefix(f, Before(p, at))
      <4> DEFINE b == at - 1
                 z == SubSeq(p, a + 1, b)
      <4>1. at > a
        BY <2>2 DEF St
      <4> HIDE DEF at
      <4>2. /\ 1 \in 1..(Len(p) + 1) /\ a \in (1 - 1)..Len(p) /\ b \in a..Len(p) /\ a + 1 \in 1..(Len(p) + 1)
            /\ b \in (a + 1 - 1)..Len(p)
        BY <1>2, <3>3, <4>1
      <4> HIDE DEF b
      <4>3. SubSeq(p, 1, a) \o SubSeq(p, a + 1, b) = SubSeq(p, 1, b)
        BY <4>2, TextsAreSequences, ConcatAdjacentSubSeq
      <4>4. z \in Texts
        <5> DEFINE k == a + 1
        <5>1. k \in 1..(Len(p) + 1) /\ b \in (k - 1)..Len(p)
          BY <4>2
        <5> HIDE DEF k
        <5>2. SubSeq(p, k, b) \in Texts
          BY <5>1, TextsAreSequences, CutFacts
        <5> QED BY <5>2 DEF k
      <4>5. Before(p, at) = f \o z
        BY <4>3 DEF Before, f, b
      <4> HIDE DEF z
      <4> QED BY <1>3, <4>4, <4>5, TextsAreSequences, PrefixOfConcat
    <3> QED BY <3>2, <3>3, <3>4, <3>5
  <2>3. at = 0 \/ at > 0
    BY <1>6
  <2> QED BY <2>1, <2>2, <2>3
<1>8. PICK h \in Texts : y.text = x.text \o (s \o h) /\ IsPrefix(f, h)
  BY <1>7
<1> HIDE DEF y
<1>9. s \o f \in Texts /\ s \o h \in Texts
  BY <1>3, EmptyText
<1>10. IsPrefix(s \o f, s \o h)
  BY <1>3, <1>8, TextsAreSequences, PrefixBehind
<1>11. IsPrefix(x.text \o (s \o f), x.text \o (s \o h))
  BY <1>1, <1>9, <1>10, TextsAreSequences, PrefixBehind
<1>12. x.text \o (s \o f) \in Texts /\ x.text \o (s \o h) \in Texts
  BY <1>1, <1>9, EmptyText
<1>13. IsPrefix(x.text \o (s \o f), whole)
  BY <1>1, <1>4, <1>8, <1>11, <1>12, TextsAreSequences, PrefixOfPrefix
<1> QED BY <1>13 DEF f, whole

(* Without another call, what is left is the rest of the text.             *)
LEMMA RestIsParsed ==
  ASSUME NEW text \in Texts, NEW n \in 0..(Len(text) + 1), NEW x, x = Parsing(text)[n], x.going,
         CallStart(x) = 0
  PROVE  FromModelText(text).text = x.text \o x.rest /\ FromModelText(text).calls = x.calls
<1>1. x \in Parsers /\ (~ParseOnce(x).going => FromModelText(text) = ParseOnce(x))
  BY ParsesOn
<1>2. /\ ParseOnce(x).text = x.text \o x.rest /\ ParseOnce(x).calls = x.calls /\ ~ParseOnce(x).going
  BY <1>1, ParseOnceSays
<1> QED BY <1>1, <1>2

(* In front of a call; it fails if the call does not end.                  *)
LEMMA CallIsAhead ==
  ASSUME NEW text \in Texts, NEW n \in 0..(Len(text) + 1), NEW x, x = Parsing(text)[n], x.going,
         CallStart(x) > 0
  PROVE  /\ IsPrefix(x.text \o Before(x.rest, CallStart(x)), FromModelText(text).text)
         /\ CallEnd(x) = 0 => FromModelText(text).failed
<1>1. /\ x \in Parsers /\ (~ParseOnce(x).going => FromModelText(text) = ParseOnce(x))
      /\ IsPrefix(ParseOnce(x).text, FromModelText(text).text)
  BY ParsesOn
<1>2. CallEnd(x) \in Nat
  BY <1>1, ParseOnceSays
<1>3. ParseOnce(x).text = x.text \o Before(x.rest, CallStart(x))
  <2>1. CallEnd(x) = 0 \/ CallEnd(x) > 0
    BY <1>2
  <2>2. CASE CallEnd(x) = 0 \/ ~Parses(CallBody(x))
    BY <1>1, <2>2, ParseOnceSays
  <2>3. CASE CallEnd(x) > 0 /\ Parses(CallBody(x))
    BY <1>1, <2>3, ParseOnceSays
  <2> QED BY <2>1, <2>2, <2>3
<1>4. ASSUME CallEnd(x) = 0 PROVE FromModelText(text).failed
  <2>1. ParseOnce(x).failed /\ ~ParseOnce(x).going
    BY <1>1, <1>4, ParseOnceSays
  <2> QED BY <1>1, <2>1
<1> QED BY <1>1, <1>3, <1>4

-----------------------------------------------------------------------------
(* What was said, one event further.                                       *)

(* One more event: what was said stays, and the text at hand grows.        *)
NoMarkIn(text, d) == \A mark \in {TOOL_CALL_START} \union d.stops : Find(text, mark) = 0

LEMMA EventPlaces ==
  ASSUME NEW s \in Seq(Events)
  PROVE  /\ Len(s) \in Nat /\ \A i \in 1..Len(s) : s[i] \in Events
         /\ s # <<>> => Len(s) > 0 /\ Last(s) = s[Len(s)] /\ Last(s) \in Events
         /\ LastText(s) \in Texts
<1>1. Len(s) \in Nat /\ \A i \in 1..Len(s) : s[i] \in Events
  BY LenProperties
<1>2. s # <<>> => Len(s) > 0
  BY EmptySeq
<1>3. s # <<>> => Last(s) = s[Len(s)] /\ Last(s) \in Events
  BY <1>1, <1>2 DEF Last
<1>4. LastText(s) \in Texts
  BY <1>3, EmptyText, EventFields DEF LastText
<1> QED BY <1>1, <1>2, <1>3, <1>4

LEMMA EventGrows ==
  ASSUME NEW e \in Events, NEW text \in Texts
  PROVE  LET x == [e EXCEPT !.text = text \o @]
         IN x.kind = e.kind /\ x.text = text \o e.text /\ (e.kind # "tool" => x \in Events)
<1>1. e.text \in Texts /\ text \o e.text \in Texts
  BY EventFields, EmptyText
<1> QED BY <1>1 DEF Events

(* No two texts stand side by side, and the last one is what it was or     *)
(* grew by the event.                                                      *)
LEMMA JoinedKeeps ==
  ASSUME NEW s \in Seq(Events), NEW e \in Events, Apart(s), NEW d
  PROVE  LET u == Joined(s, e) IN
         /\ Apart(u)
         /\ LastText(u) = IF e.kind = "text" THEN LastText(s) \o e.text ELSE <<>>
         /\ ShowsNoMarks(s, d) /\ (e.kind = "text" => NoMarkIn(LastText(s) \o e.text, d))
              => ShowsNoMarks(u, d)
<1> DEFINE n == Len(s)
           u == Joined(s, e)
           join == s # <<>> /\ Last(s).kind = e.kind /\ e.kind # "tool"
<1>1. /\ n \in Nat /\ \A i \in 1..n : s[i] \in Events
      /\ s # <<>> => n > 0 /\ Last(s) = s[n] /\ Last(s) \in Events
      /\ LastText(s) \in Texts
  BY EventPlaces
<1>2. e.kind \in {"text", "reasoning", "tool"} /\ e.text \in Texts
  BY EventFields
<1>3. s = <<>> => n = 0
  BY EmptySeq
<1> HIDE DEF n, u
<1>4. CASE join
  <2> DEFINE x == [e EXCEPT !.text = Last(s).text \o @]
             f == Front(s)
  <2>1. n > 0 /\ Last(s) = s[n] /\ Last(s) \in Events /\ Last(s).kind = e.kind /\ Last(s).text \in Texts
    BY <1>1, <1>4, EventFields
  <2>2. x.kind = e.kind /\ x.text = Last(s).text \o e.text /\ x \in Events
    <3> DEFINE t == Last(s).text
    <3>1. t \in Texts /\ e.kind # "tool"
      BY <1>4, <2>1
    <3> HIDE DEF t
    <3>2. LET y == [e EXCEPT !.text = t \o @]
          IN y.kind = e.kind /\ y.text = t \o e.text /\ (e.kind # "tool" => y \in Events)
      BY <3>1, EventGrows
    <3> QED BY <3>1, <3>2 DEF t
  <2>3. u = Append(f, x)
    BY <1>4 DEF Joined, u
  <2>4. f \in Seq(Events) /\ Len(f) = n - 1 /\ \A i \in 1..(n - 1) : f[i] = s[i]
    BY <1>4, FrontAndLast DEF n
  <2> HIDE DEF x, f
  <2>5. /\ u \in Seq(Events) /\ Len(u) = n /\ \A i \in 1..(n - 1) : u[i] = s[i]
        /\ u[n] = x /\ u # <<>>
    <3>1. /\ u \in Seq(Events) /\ Len(u) = n - 1 + 1 /\ \A i \in 1..(n - 1) : u[i] = f[i]
          /\ u[n - 1 + 1] = x /\ u # <<>>
      BY <2>2, <2>3, <2>4, AppendProperties
    <3>2. n - 1 + 1 = n
      BY <1>1
    <3> QED BY <2>4, <3>1, <3>2
  <2>6. ASSUME NEW i \in 1..n PROVE u[i].kind = s[i].kind
    <3>1. i \in 1..(n - 1) \/ i = n
      BY <1>1
    <3>2. u[n].kind = s[n].kind
      BY <2>1, <2>2, <2>5
    <3> QED BY <2>5, <3>1, <3>2
  <2>7. Apart(u)
    <3> SUFFICES ASSUME NEW i \in 1..(n - 1), u[i].kind = u[i + 1].kind PROVE u[i].kind = "tool"
      BY <2>5 DEF Apart
    <3>1. i \in 1..n /\ i + 1 \in 1..n
      BY <1>1
    <3> QED BY <2>6, <3>1 DEF Apart, n
  <2>8. LastText(u) = IF e.kind = "text" THEN LastText(s) \o e.text ELSE <<>>
    <3>1. Last(u) = x
      BY <2>5 DEF Last
    <3>2. LastText(u) = IF e.kind = "text" THEN Last(s).text \o e.text ELSE <<>>
      BY <2>2, <2>5, <3>1 DEF LastText
    <3>3. e.kind = "text" => LastText(s) = Last(s).text
      BY <1>4, <2>1 DEF LastText
    <3> QED BY <3>2, <3>3
  <2>9. ASSUME ShowsNoMarks(s, d), e.kind = "text" => NoMarkIn(LastText(s) \o e.text, d)
        PROVE  ShowsNoMarks(u, d)
    <3> SUFFICES ASSUME NEW i \in 1..n, u[i].kind = "text", NEW mark \in {TOOL_CALL_START} \union d.stops
                 PROVE  Find(u[i].text, mark) = 0
      BY <2>5 DEF ShowsNoMarks
    <3>1. CASE i \in 1..(n - 1)
      <4>1. u[i] = s[i] /\ i \in 1..Len(s)
        BY <2>5, <3>1 DEF n
      <4> QED BY <2>9, <4>1 DEF ShowsNoMarks
    <3>2. CASE i = n
      <4>1. e.kind = "text" /\ u[i].text = LastText(s) \o e.text
        <5>1. u[i] = x /\ e.kind = "text"
          BY <2>2, <2>5, <3>2
        <5>2. LastText(s) = Last(s).text
          BY <1>4, <2>1, <5>1 DEF LastText
        <5> QED BY <2>2, <5>1, <5>2
      <4> QED BY <2>9, <4>1 DEF NoMarkIn
    <3>3. i \in 1..(n - 1) \/ i = n
      BY <1>1
    <3> QED BY <3>1, <3>2, <3>3
  <2> QED BY <2>7, <2>8, <2>9 DEF u
<1>5. CASE ~join
  <2>1. u = Append(s, e)
    BY <1>5 DEF Joined, u
  <2>2. /\ u \in Seq(Events) /\ Len(u) = n + 1 /\ \A i \in 1..n : u[i] = s[i]
        /\ u[n + 1] = e /\ u # <<>>
    BY <2>1, AppendProperties DEF n
  <2>3. Apart(u)
    <3> SUFFICES ASSUME NEW i \in 1..n, u[i].kind = u[i + 1].kind PROVE u[i].kind = "tool"
      <4>1. (n + 1) - 1 = n
        BY <1>1
      <4> QED BY <2>2, <4>1 DEF Apart
    <3>1. CASE i \in 1..(n - 1)
      <4>1. i + 1 \in 1..n
        BY <1>1, <3>1
      <4> QED BY <2>2, <3>1, <4>1 DEF Apart, n
    <3>2. CASE i = n
      <4>1. u[i] = s[n] /\ u[i + 1] = e /\ n > 0
        BY <1>1, <2>2, <3>2
      <4>2. s # <<>> /\ Last(s) = s[n]
        BY <1>1, <1>3, <4>1
      <4> QED BY <1>5, <4>1, <4>2
    <3>3. i \in 1..(n - 1) \/ i = n
      BY <1>1
    <3> QED BY <3>1, <3>2, <3>3
  <2>4. e.kind = "text" => LastText(s) = <<>>
    BY <1>5 DEF LastText
  <2>5. e.kind = "text" => LastText(s) \o e.text = e.text
    BY <1>2, <2>4, TextsAreSequences, ConcatEmptySeq
  <2>6. LastText(u) = IF e.kind = "text" THEN e.text ELSE <<>>
    <3>1. Last(u) = e
      BY <2>2 DEF Last
    <3> QED BY <2>2, <3>1 DEF LastText
  <2>7. ASSUME ShowsNoMarks(s, d), e.kind = "text" => NoMarkIn(LastText(s) \o e.text, d)
        PROVE  ShowsNoMarks(u, d)
    <3> SUFFICES ASSUME NEW i \in 1..(n + 1), u[i].kind = "text", NEW mark \in {TOOL_CALL_START} \union d.stops
                 PROVE  Find(u[i].text, mark) = 0
      BY <2>2 DEF ShowsNoMarks
    <3>1. CASE i \in 1..n
      <4>1. u[i] = s[i] /\ i \in 1..Len(s)
        BY <2>2, <3>1 DEF n
      <4> QED BY <2>7, <4>1 DEF ShowsNoMarks
    <3>2. CASE i = n + 1
      BY <2>2, <2>5, <2>7, <3>2 DEF NoMarkIn
    <3>3. i \in 1..n \/ i = n + 1
      BY <1>1
    <3> QED BY <3>1, <3>2, <3>3
  <2> QED BY <2>3, <2>5, <2>6, <2>7 DEF u
<1> QED BY <1>4, <1>5

(* Events run together, one more at a time.                                *)
LEMMA RunOneMore ==
  ASSUME NEW s \in Seq(Events), NEW e \in Events
  PROVE  RunTogether(Append(s, e)) = Joined(RunTogether(s), e)
<1> DEFINE u == Append(s, e)
           n == Len(s)
           V == Seq(Events)
           step == [i \in 1..(n + 1) |-> [v \in V |-> Joined(v, u[i])]]
<1>1. /\ n \in Nat /\ u \in V /\ Len(u) = n + 1 /\ u[n + 1] = e
      /\ \A i \in 1..n : u[i] = s[i]
  BY LenProperties, AppendProperties
<1> HIDE DEF u, n
<1>2. /\ n + 1 \in Nat /\ (n + 1) - 1 = n /\ n + 1 \in 1..(n + 1) /\ n \in 0..n
      /\ \A i \in 1..(n + 1) : i - 1 \in 0..(n + 1) /\ i \in 0..(n + 1)
      /\ \A i \in 1..n : i \in 1..(n + 1) /\ i - 1 \in 0..n
      /\ \A i \in 0..n : i \in 0..(n + 1)
  BY <1>1
<1>3. <<>> \in V /\ \A i \in 1..(n + 1), v \in V : step[i][v] = Joined(v, u[i]) /\ step[i][v] \in V
  <2>1. \A i \in 1..(n + 1) : u[i] \in Events
    BY <1>1, LenProperties
  <2>2. \A i \in 1..(n + 1), v \in V : Joined(v, u[i]) \in V
    BY <2>1, JoinedSays
  <2> QED BY <2>2, EmptySeq
<1> HIDE DEF step, V
<1>4. PICK f : Repeats(f, n + 1, V, <<>>, step)
  BY <1>2, <1>3, Iterates
<1>5. /\ f \in [0..(n + 1) -> V] /\ f[0] = <<>> /\ f = [k \in 0..(n + 1) |-> f[k]]
      /\ \A i \in 1..(n + 1) : f[i] = Joined(f[i - 1], u[i])
  BY <1>2, <1>3, <1>4 DEF Repeats
<1>6. RunTogether(u) = f[n + 1]
  <2>1. RunsBy(f, u)
    BY <1>1, <1>5 DEF RunsBy
  <2>2. f = [k \in 0..Len(u) |-> f[k]]
    BY <1>1, <1>5
  <2>3. RunTogether(u) = f[Len(u)]
    BY <1>1, <2>1, <2>2, RunInSteps DEF V
  <2> QED BY <1>1, <2>3
<1> DEFINE g == [k \in 0..n |-> f[k]]
<1>7. g[0] = <<>> /\ g[n] = f[n] /\ (\A i \in 1..n : g[i] = Joined(g[i - 1], s[i]))
  <2>1. g[0] = f[0] /\ g[n] = f[n]
    BY <1>1
  <2>2. ASSUME NEW i \in 1..n PROVE g[i] = Joined(g[i - 1], s[i])
    <3>1. g[i] = f[i] /\ g[i - 1] = f[i - 1]
      BY <1>1
    <3> HIDE DEF g
    <3> QED BY <1>1, <1>2, <1>5, <3>1
  <2> HIDE DEF g
  <2> QED BY <1>5, <2>1, <2>2
<1>8. g = [k \in 0..n |-> g[k]]
  OBVIOUS
<1> HIDE DEF g
<1>9. RunTogether(s) = g[n]
  <2>1. RunsBy(g, s)
    BY <1>7 DEF RunsBy, n
  <2> QED BY <1>8, <2>1, RunInSteps DEF n
<1>10. f[n + 1] = Joined(f[n], e)
  BY <1>1, <1>2, <1>5
<1> QED BY <1>6, <1>7, <1>9, <1>10 DEF u

LEMMA RunOfNothing == RunTogether(<<>>) = <<>>
<1> DEFINE f == [k \in 0..Len(<<>>) |-> <<>>]
<1>1. Len(<<>>) = 0 /\ f[0] = <<>> /\ \A k \in 1..0 : f[k] = Joined(f[k - 1], <<>>[k])
  OBVIOUS
<1>2. f = [k \in 0..Len(<<>>) |-> f[k]] /\ <<>> \in Seq(Events)
  BY EmptySeq
<1> HIDE DEF f
<1>3. RunsBy(f, <<>>)
  BY <1>1 DEF RunsBy
<1>4. RunTogether(<<>>) = f[Len(<<>>)]
  BY <1>2, <1>3, RunInSteps
<1> QED BY <1>1, <1>4

(* Whatever was run together stands apart, and stays as it is.             *)
LEMMA RunIsApart ==
  ASSUME NEW s \in Seq(Events)
  PROVE  RunTogether(s) \in Seq(Events) /\ Apart(RunTogether(s)) /\ (Apart(s) => RunTogether(s) = s)
<1> DEFINE B == {u \in Seq(Events) : Apart(RunTogether(u)) /\ (Apart(u) => RunTogether(u) = u)}
<1>1. <<>> \in B
  <2>1. Len(<<>>) = 0 /\ <<>> \in Seq(Events)
    BY EmptySeq
  <2>2. Apart(<<>>)
    BY <2>1 DEF Apart
  <2> QED BY <2>1, <2>2, RunOfNothing
<1>2. ASSUME NEW u \in Seq(Events), NEW e \in Events, u \in B PROVE Append(u, e) \in B
  <2> DEFINE r == RunTogether(u)
             w == Append(u, e)
  <2>1. r \in Seq(Events) /\ Apart(r) /\ (Apart(u) => r = u)
    BY <1>2, RunTogetherSays
  <2>2. RunTogether(w) = Joined(r, e) /\ w \in Seq(Events)
    BY RunOneMore, AppendProperties
  <2> HIDE DEF r
  <2>3. Apart(Joined(r, e))
    BY <2>1, JoinedKeeps
  <2>4. ASSUME Apart(w) PROVE Joined(r, e) = w
    <3> DEFINE n == Len(u)
    <3>1. n \in Nat /\ Len(w) = n + 1 /\ w[n + 1] = e /\ \A i \in 1..n : w[i] = u[i]
      BY LenProperties, AppendProperties
    <3> HIDE DEF n, w
    <3>2. Apart(u)
      <4> SUFFICES ASSUME NEW i \in 1..(n - 1), u[i].kind = u[i + 1].kind PROVE u[i].kind = "tool"
        BY DEF Apart, n
      <4>1. i \in 1..n /\ i + 1 \in 1..n /\ i \in 1..(n + 1 - 1)
        BY <3>1
      <4>2. w[i] = u[i] /\ w[i + 1] = u[i + 1]
        BY <3>1, <4>1
      <4> QED BY <2>4, <3>1, <4>1, <4>2 DEF Apart
    <3>3. ASSUME u # <<>>, Last(u).kind = e.kind PROVE e.kind = "tool"
      <4>1. n > 0 /\ Last(u) = u[n]
        BY <3>3, EventPlaces DEF n
      <4>2. n \in 1..n /\ n \in 1..(n + 1 - 1)
        BY <3>1, <4>1
      <4>3. w[n] = Last(u) /\ w[n + 1] = e
        BY <3>1, <4>1, <4>2
      <4>4. w[n].kind = w[n + 1].kind => w[n].kind = "tool"
        BY <2>4, <3>1, <4>2 DEF Apart
      <4> QED BY <3>3, <4>3, <4>4
    <3>4. r = u
      BY <2>1, <3>2
    <3> QED BY <3>3, <3>4 DEF Joined, w
  <2> HIDE DEF w
  <2>5. w \in B
    BY <2>2, <2>3, <2>4
  <2> QED BY <2>5 DEF w
<1>3. s \in B
  <2> HIDE DEF B
  <2> QED BY <1>1, <1>2, ClimbingSequences
<1> QED BY <1>3, RunTogetherSays

(* All that was said, with what a run of the decoder adds to it.           *)
Heard(s, out) == RunTogether(s \o out)

LEMMA HeardMore ==
  ASSUME NEW s \in Seq(Events), NEW out \in Seq(Events), NEW e \in Events
  PROVE  Heard(s, Append(out, e)) = Joined(Heard(s, out), e)
<1>1. s \o out \in Seq(Events)
  BY ConcatProperties
<1>2. s \o Append(out, e) = Append(s \o out, e)
  <2>1. /\ Append(out, e) = out \o <<e>> /\ Append(s \o out, e) = (s \o out) \o <<e>>
        /\ <<e>> \in Seq(Events)
    BY <1>1, AppendIsConcat
  <2>2. (s \o out) \o <<e>> = s \o (out \o <<e>>)
    BY ONLY <2>1, s \in Seq(Events), out \in Seq(Events), ConcatAssociative
  <2> QED BY <2>1, <2>2
<1> QED BY <1>1, <1>2, RunOneMore DEF Heard

LEMMA HeardSoFar ==
  ASSUME NEW s \in Seq(Events), NEW out \in Seq(Events)
  PROVE  /\ Heard(s, out) \in Seq(Events) /\ Apart(Heard(s, out))
         /\ Apart(s) => Heard(s, <<>>) = s
<1>1. s \o out \in Seq(Events) /\ s \o <<>> = s
  BY ConcatProperties, ConcatEmptySeq
<1> QED BY <1>1, RunIsApart DEF Heard

(* What an emitted text, reasoning or call adds to what was said.          *)
LEMMA SaysText ==
  ASSUME NEW s0 \in Seq(Events), NEW out \in Seq(Events), NEW t \in Texts, NEW d
  PROVE  LET s == Heard(s0, out)
             u == Heard(s0, Emitted(out, TextDelta(t)))
         IN /\ u \in Seq(Events)
            /\ TextOf(u) = TextOf(s) \o t /\ CallsOf(u) = CallsOf(s) /\ LastText(u) = LastText(s) \o t
            /\ ShowsNoMarks(s, d) /\ NoMarkIn(LastText(s) \o t, d) => ShowsNoMarks(u, d)
<1> DEFINE s == Heard(s0, out)
           e == TextDelta(t)
           u == Heard(s0, Emitted(out, e))
<1>1. /\ e \in Events /\ e.kind = "text" /\ e.text = t /\ Text1[e] = t /\ Calls1[e] = <<>>
  <2>1. e \in Events /\ e.kind = "text" /\ e.text = t
    BY DEF TextDelta, Events
  <2> QED BY <2>1 DEF Text1, Calls1
<1>2. /\ s \in Seq(Events) /\ Apart(s) /\ TextOf(s) \in Texts /\ CallsOf(s) \in Seq(Texts)
      /\ LastText(s) \in Texts
  BY HeardSoFar, SaidIsTyped, EventPlaces
<1>3. Emitted(out, e) = IF t = <<>> THEN out ELSE Append(out, e)
  BY <1>1 DEF Emitted
<1>4. Heard(s0, Append(out, e)) = Joined(s, e)
  BY <1>1, HeardMore
<1> HIDE DEF s, e
<1>5. TextOf(s) \o <<>> = TextOf(s) /\ CallsOf(s) \o <<>> = CallsOf(s) /\ LastText(s) \o <<>> = LastText(s)
  BY <1>2, NothingAdded
<1>6. CASE t = <<>>
  <2>1. u = s
    BY <1>3, <1>6 DEF s
  <2> QED BY <1>2, <1>5, <1>6, <2>1 DEF s, e
<1>7. CASE t # <<>>
  <2>1. u = Joined(s, e)
    BY <1>3, <1>4, <1>7
  <2> HIDE DEF u
  <2>2. u \in Seq(Events) /\ TextOf(u) = TextOf(s) \o t /\ CallsOf(u) = CallsOf(s) \o <<>>
    BY <1>1, <1>2, <2>1, JoinedSays
  <2>3. /\ LastText(u) = LastText(s) \o t
        /\ ShowsNoMarks(s, d) /\ NoMarkIn(LastText(s) \o t, d) => ShowsNoMarks(u, d)
    BY <1>1, <1>2, <2>1, JoinedKeeps
  <2> QED BY <1>5, <2>2, <2>3 DEF s, e, u
<1> QED BY <1>6, <1>7

LEMMA SaysReasoning ==
  ASSUME NEW s0 \in Seq(Events), NEW out \in Seq(Events), NEW t \in Texts, NEW d
  PROVE  LET s == Heard(s0, out)
             u == Heard(s0, Emitted(out, Reasoning(t)))
         IN /\ u \in Seq(Events)
            /\ TextOf(u) = TextOf(s) /\ CallsOf(u) = CallsOf(s) /\ (Silent(s) => Silent(u))
            /\ ShowsNoMarks(s, d) => ShowsNoMarks(u, d)
<1> DEFINE s == Heard(s0, out)
           e == Reasoning(t)
           u == Heard(s0, Emitted(out, e))
<1>1. /\ e \in Events /\ e.kind = "reasoning" /\ e.text = t /\ Text1[e] = <<>> /\ Calls1[e] = <<>>
  <2>1. e \in Events /\ e.kind = "reasoning" /\ e.text = t
    BY DEF Reasoning, Events
  <2> QED BY <2>1 DEF Text1, Calls1
<1>2. /\ s \in Seq(Events) /\ Apart(s) /\ TextOf(s) \in Texts /\ CallsOf(s) \in Seq(Texts)
  BY HeardSoFar, SaidIsTyped
<1>3. Emitted(out, e) = IF t = <<>> THEN out ELSE Append(out, e)
  BY <1>1 DEF Emitted
<1>4. Heard(s0, Append(out, e)) = Joined(s, e)
  BY <1>1, HeardMore
<1> HIDE DEF s, e
<1>5. TextOf(s) \o <<>> = TextOf(s) /\ CallsOf(s) \o <<>> = CallsOf(s)
  BY <1>2, NothingAdded
<1>6. CASE t = <<>>
  <2>1. u = s
    BY <1>3, <1>6 DEF s
  <2> QED BY <1>2, <2>1 DEF s, e
<1>7. CASE t # <<>>
  <2>1. u = Joined(s, e)
    BY <1>3, <1>4, <1>7
  <2> HIDE DEF u
  <2>2. u \in Seq(Events) /\ TextOf(u) = TextOf(s) /\ CallsOf(u) = CallsOf(s)
    BY <1>1, <1>2, <1>5, <2>1, JoinedSays
  <2>3. LastText(u) = <<>> /\ (ShowsNoMarks(s, d) => ShowsNoMarks(u, d))
    BY <1>1, <1>2, <2>1, JoinedKeeps
  <2>4. Silent(s) => Silent(u)
    BY <2>2, <2>3 DEF Silent
  <2> QED BY <2>2, <2>3, <2>4 DEF s, e, u
<1> QED BY <1>6, <1>7

LEMMA SaysCall ==
  ASSUME NEW s0 \in Seq(Events), NEW out \in Seq(Events), NEW t \in Texts, t # <<>>, NEW d
  PROVE  LET s == Heard(s0, out)
             u == Heard(s0, Append(out, ToolCall(t)))
         IN /\ u \in Seq(Events)
            /\ TextOf(u) = TextOf(s) /\ CallsOf(u) = Append(CallsOf(s), t) /\ LastText(u) = <<>>
            /\ ShowsNoMarks(s, d) => ShowsNoMarks(u, d)
<1> DEFINE s == Heard(s0, out)
           e == ToolCall(t)
           u == Heard(s0, Append(out, e))
<1>1. /\ e \in Events /\ e.kind = "tool" /\ Text1[e] = <<>> /\ Calls1[e] = <<t>>
  <2>1. e \in Events /\ e.kind = "tool" /\ e.text = t
    BY DEF ToolCall, Events
  <2> QED BY <2>1 DEF Text1, Calls1
<1>2. /\ s \in Seq(Events) /\ Apart(s) /\ TextOf(s) \in Texts /\ CallsOf(s) \in Seq(Texts)
  BY HeardSoFar, SaidIsTyped
<1>3. u = Joined(s, e)
  BY <1>1, HeardMore
<1> HIDE DEF s, e, u
<1>4. TextOf(s) \o <<>> = TextOf(s) /\ CallsOf(s) \o <<t>> = Append(CallsOf(s), t)
  BY <1>2, NothingAdded, AppendIsConcat
<1>5. u \in Seq(Events) /\ TextOf(u) = TextOf(s) /\ CallsOf(u) = Append(CallsOf(s), t)
  BY <1>1, <1>2, <1>3, <1>4, JoinedSays
<1>6. LastText(u) = <<>> /\ (ShowsNoMarks(s, d) => ShowsNoMarks(u, d))
  BY <1>1, <1>2, <1>3, JoinedKeeps
<1> QED BY <1>5, <1>6 DEF s, e, u

-----------------------------------------------------------------------------
(* The decoder's turns.                                                    *)

(* One turn of the decoder's loop.                                         *)
Rightly(d, s, text) == <<>> \notin d.stops /\ ShowsNoMarks(s, d) /\ Explained(d, s, text)

Flushed(d, s, text) ==
  LET whole == FromQwenContinuation(text) IN
  /\ ShowsNoMarks(s, d) /\ IsPrefix(TextOf(s), whole.text)
  /\ ~d.stopped /\ ~whole.failed => TextOf(s) = whole.text /\ CallsOf(s) = whole.calls

(* What a turn owes: y is its result, u what is said by then.              *)
TurnedRight(d, y, u, final, text) ==
  /\ y.dec.stops = d.stops
  /\ y.going => ~y.dec.stopped /\ Rightly(y.dec, u, text) /\ Turns(y.dec) < Turns(d)
  /\ ~y.going /\ ~y.failed => IF final THEN Flushed(y.dec, u, text) ELSE Rightly(y.dec, u, text)

AnswerIn(text) == TrimNewlines(After(text, Find(text, THINK_END), THINK_END))

(* Explained, by the mode the decoder is in.                               *)
LEMMA ExplainedMeans ==
  ASSUME NEW d \in Decoders, NEW s, NEW text
  PROVE  /\ d.stopped => (Explained(d, s, text) <=> IsPrefix(TextOf(s), FromQwenContinuation(text).text))
         /\ ~d.stopped /\ d.thinking => (Explained(d, s, text) <=> Thinks(d, s, text))
         /\ ~d.stopped /\ ~d.thinking =>
              (Explained(d, s, text) <=>
                 /\ Find(text, THINK_END) > 0
                 /\ d.trimming => Trims(d, s, AnswerIn(text))
                 /\ ~d.trimming => Speaks(d, s, AnswerIn(text)))
<1> DEFINE P == IsPrefix(TextOf(s), FromQwenContinuation(text).text)
           T == Thinks(d, s, text)
           f == Find(text, THINK_END) > 0
           R == Trims(d, s, AnswerIn(text))
           S == Speaks(d, s, AnswerIn(text))
           A == f /\ IF d.trimming THEN R ELSE S
           E == Explained(d, s, text)
<1>1. E = CASE d.stopped -> P
            [] ~d.stopped /\ d.thinking -> T
            [] ~d.stopped /\ ~d.thinking -> A
  BY DEF Explained, AnswerIn
<1> HIDE DEF P, T, A, E
<1>2. d.stopped => (E <=> P)
  BY <1>1
<1>3. ~d.stopped /\ d.thinking => (E <=> T)
  BY <1>1
<1>4. ~d.stopped /\ ~d.thinking => (E <=> A)
  BY <1>1
<1>5. A <=> f /\ (d.trimming => R) /\ (~d.trimming => S)
  <2> HIDE DEF f, R, S
  <2> QED BY DEF A
<1> QED BY <1>2, <1>3, <1>4, <1>5 DEF E, P, T

LEMMA StopsAreMarks ==
  ASSUME NEW d \in Decoders, <<>> \notin d.stops, NEW m \in {TOOL_CALL_START} \union d.stops
  PROVE  IsMark(m)
<1>1. CASE m \in d.stops
  <2>1. m \in UNION StopSets /\ m # <<>>
    BY <1>1, DecoderFields
  <2> QED BY <2>1, StreamingAssumption DEF IsMark
<1> QED BY <1>1, Delimiters

LEMMA PrefixOfNothing ==
  ASSUME NEW t \in Texts
  PROVE  IsPrefix(<<>>, t) /\ IsPrefix(t, t)
<1>1. <<>> \o t = t /\ t \o <<>> = t /\ <<>> \in Texts
  BY EmptyText, TextsAreSequences, ConcatEmptySeq
<1>2. IsPrefix(<<>>, <<>> \o t) /\ IsPrefix(t, t \o <<>>)
  BY <1>1, TextsAreSequences, PrefixOfConcat
<1> QED BY <1>1, <1>2

LEMMA NothingFound ==
  ASSUME NEW m, IsMark(m)
  PROVE  Find(<<>>, m) = 0
<1>1. <<>> \in Seq({}) /\ Len(<<>>) = 0
  OBVIOUS
<1>2. Find(<<>>, m) \in Nat /\ (Find(<<>>, m) > 0 => Full(<<>>, Find(<<>>, m), m))
  BY <1>1, FindSays
<1> QED BY <1>1, <1>2 DEF Full

LEMMA NothingParsed ==
  /\ FromModelText(<<>>).text = <<>> /\ FromModelText(<<>>).calls = <<>> /\ ~FromModelText(<<>>).failed
<1>1. <<>> \in Texts /\ Len(<<>>) = 0
  BY EmptyText
<1>2. /\ Parsing(<<>>)[0] = ParseStart(<<>>) /\ Parsing(<<>>)[0] \in Parsers
      /\ 1 \in 1..(0 + 1) /\ 0 \in 0..(0 + 1)
      /\ Parsing(<<>>)[1] = IF Parsing(<<>>)[0].going THEN ParseOnce(Parsing(<<>>)[0]) ELSE Parsing(<<>>)[0]
  <2>1. /\ Parsing(<<>>)[0] = ParseStart(<<>>)
        /\ \A n \in 1..(Len(<<>>) + 1) :
              Parsing(<<>>)[n] = IF Parsing(<<>>)[n - 1].going THEN ParseOnce(Parsing(<<>>)[n - 1])
                                 ELSE Parsing(<<>>)[n - 1]
        /\ \A n \in 0..(Len(<<>>) + 1) : Parsing(<<>>)[n] \in Parsers
    BY <1>1, ParsingInSteps
  <2>2. 1 \in 1..(Len(<<>>) + 1) /\ 0 \in 0..(Len(<<>>) + 1) /\ 1 - 1 = 0
    BY <1>1
  <2>3. 1 \in 1..(0 + 1) /\ 0 \in 0..(0 + 1)
    OBVIOUS
  <2> QED BY <2>1, <2>2, <2>3
<1> DEFINE x == Parsing(<<>>)[0]
<1>3. x.text = <<>> /\ x.calls = <<>> /\ x.rest = <<>> /\ x.going /\ ~x.failed /\ x \in Parsers
  BY <1>2 DEF ParseStart
<1>4. FromModelText(<<>>) = ParseOnce(x)
  <2>1. FromModelText(<<>>) = Parsing(<<>>)[1]
    BY <1>1 DEF FromModelText
  <2> QED BY <1>2, <1>3, <2>1
<1> HIDE DEF x
<1>5. CallStart(x) = 0
  BY <1>3, Delimiters, NothingFound DEF CallStart
<1>6. <<>> \o <<>> = <<>>
  BY <1>1, NothingAdded
<1>7. LET y == ParseOnce(x) IN y.text = x.text \o x.rest /\ y.calls = x.calls /\ y.failed = x.failed
  BY <1>3, <1>5, ParseOnceSays
<1> QED BY <1>3, <1>4, <1>6, <1>7

LEMMA TrimmedNothing ==
  /\ TrimNewlines(<<>>) = <<>>
  /\ \A t \in Texts : TrimNewlines(t) \in Texts /\ Len(TrimNewlines(t)) <= Len(t)
<1>1. <<>> \in Seq({}) /\ Len(<<>>) = 0
  OBVIOUS
<1>2. TrimNewlines(<<>>) = <<>>
  <2>1. \A i \in 1..Len(<<>>) : <<>>[i] = "n"
    BY <1>1
  <2> QED BY <1>1, <2>1, TrimIs
<1>3. ASSUME NEW t \in Texts PROVE TrimNewlines(t) \in Texts /\ Len(TrimNewlines(t)) <= Len(t)
  <2>1. TrimNewlines(t) \in Texts /\ Len(t) \in Nat
    BY TrimmedText, EmptyText
  <2>2. CASE TrimNewlines(t) = <<>>
    BY <1>1, <2>1, <2>2
  <2>3. ASSUME NEW a \in 1..Len(t), TrimNewlines(t) = SubSeq(t, a, Len(t))
        PROVE  Len(TrimNewlines(t)) <= Len(t)
    <3> DEFINE b == Len(t)
    <3>1. b \in Nat /\ a \in 1..(b + 1) /\ b \in (a - 1)..b /\ a \in 1..b
      BY <2>1
    <3>2. Len(SubSeq(t, a, b)) = b - a + 1
      BY <3>1, TextsAreSequences, CutFacts
    <3> HIDE DEF b
    <3>3. b - a + 1 <= b
      BY <3>1
    <3> QED BY <2>3, <3>2, <3>3 DEF b
  <2>4. \/ TrimNewlines(t) = <<>>
        \/ \E a \in 1..Len(t) : TrimNewlines(t) = SubSeq(t, a, Len(t))
    BY TextsAreSequences, TrimSays
  <2> QED BY <2>1, <2>2, <2>3, <2>4
<1> QED BY <1>2, <1>3

(* The whole text parsed is its answer parsed, once the reasoning has      *)
(* ended.                                                                  *)
LEMMA WholeAnswer ==
  ASSUME NEW text \in Texts
  PROVE  /\ FromQwenContinuation(text) \in Parsers
         /\ Find(text, THINK_END) \in Nat
         /\ Find(text, THINK_END) = 0 =>
              /\ FromQwenContinuation(text).text = <<>> /\ FromQwenContinuation(text).calls = <<>>
         /\ Find(text, THINK_END) > 0 =>
              /\ AnswerIn(text) \in Texts
              /\ FromQwenContinuation(text) = FromModelText(AnswerIn(text))
<1>1. Find(text, THINK_END) \in Nat
  BY Delimiters, TextsAreSequences, FindSays
<1>2. ASSUME NEW t \in Texts PROVE FromModelText(t) \in Parsers
  <2>1. Len(t) \in Nat
    BY EmptyText
  <2>2. 0 \in 0..(Len(t) + 1)
    BY <2>1
  <2> QED BY <2>2, ParsedStays
<1>3. CASE Find(text, THINK_END) = 0
  <2>1. FromQwenContinuation(text) = FromModelText(<<>>)
    BY <1>3 DEF FromQwenContinuation
  <2> QED BY <1>1, <1>2, <1>3, <2>1, NothingParsed, EmptyText
<1>4. CASE Find(text, THINK_END) > 0
  <2>1. FromQwenContinuation(text) = FromModelText(AnswerIn(text))
    BY <1>1, <1>4 DEF FromQwenContinuation, AnswerIn
  <2>2. After(text, Find(text, THINK_END), THINK_END) \in Texts
    BY <1>4, Delimiters, TextsAreSequences, FoundWithin
  <2>3. AnswerIn(text) \in Texts
    BY <2>2, TrimmedText DEF AnswerIn
  <2> QED BY <1>1, <1>2, <1>4, <2>1, <2>3
<1> QED BY <1>1, <1>3, <1>4

(* A turn inside the reasoning (stream_decoder.rs: drain).                 *)
LEMMA ThinkingMark ==
  ASSUME NEW d \in Decoders, NEW u \in Seq(Events), NEW text \in Texts,
         NEW f \in Texts, text = f \o d.pending, Passed(f, d.pending, THINK_END),
         Find(d.pending, THINK_END) > 0,
         ~d.stopped, d.thinking, ~d.in_tool_call, d.tool_buffer = <<>>, <<>> \notin d.stops,
         ShowsNoMarks(u, d), Silent(u)
  PROVE  LET at == Find(d.pending, THINK_END)
             e  == [d EXCEPT !.pending = After(@, at, THINK_END), !.thinking = FALSE, !.trimming = TRUE]
         IN e.stops = d.stops /\ ~e.stopped /\ Rightly(e, u, text) /\ Turns(e) < Turns(d)
<1> DEFINE p == d.pending
           at == Find(p, THINK_END)
           e == [d EXCEPT !.pending = After(@, at, THINK_END), !.thinking = FALSE, !.trimming = TRUE]
           a == After(p, at, THINK_END)
<1>1. p \in Texts /\ IsMark(THINK_END) /\ Len(THINK_END) = 2
  BY DecoderFields, Delimiters
<1>2. /\ at \in Nat \ {0} /\ at + 2 <= Len(p) + 1 /\ a \in Texts /\ Len(a) = Len(p) - (at + 2 - 1)
  <2>1. /\ Find(p, THINK_END) \in Nat \ {0} /\ Find(p, THINK_END) + Len(THINK_END) <= Len(p) + 1
        /\ After(p, Find(p, THINK_END), THINK_END) \in Seq(Symbols)
        /\ Len(After(p, Find(p, THINK_END), THINK_END)) = Len(p) - (Find(p, THINK_END) + Len(THINK_END) - 1)
    BY <1>1, TextsAreSequences, FoundWithin
  <2> QED BY <1>1, <2>1, TextsAreSequences
<1>3. Find(text, THINK_END) = Len(f) + at
  <2>1. Find(f \o p, THINK_END) = IF Find(p, THINK_END) = 0 THEN 0 ELSE Len(f) + Find(p, THINK_END)
    BY <1>1, TextsAreSequences, FindShifts
  <2>2. Find(p, THINK_END) = at /\ at # 0
    BY <1>2
  <2> QED BY <2>1, <2>2
<1>4. After(text, Len(f) + at, THINK_END) = a
  <2>1. at + Len(THINK_END) <= Len(p) + 1 /\ p \in Seq(Symbols) /\ f \in Seq(Symbols)
    BY <1>1, <1>2, TextsAreSequences
  <2>2. After(f \o p, Len(f) + at, THINK_END) = After(p, at, THINK_END)
    <3>1. at \in Nat \ {0} /\ IsMark(THINK_END) /\ Len(f) \in Nat /\ Len(p) \in Nat /\ Len(THINK_END) \in Nat
      BY <1>1, <1>2, EmptyText
    <3> HIDE DEF at, p, e
    <3> QED BY ONLY <2>1, <3>1, AroundMarkShifts
  <2> QED BY <2>2
<1> HIDE DEF a, e, at
<1>5. AnswerIn(text) = TrimNewlines(a)
  BY <1>3, <1>4 DEF AnswerIn
<1>6. /\ e \in Decoders /\ e.pending = a /\ ~e.thinking /\ e.trimming /\ ~e.stopped
      /\ e.stops = d.stops /\ ~e.in_tool_call /\ e.tool_buffer = <<>>
  <2>1. e = [d EXCEPT !.pending = a, !.thinking = FALSE, !.trimming = TRUE]
    BY DEF a, e, at
  <2>2. e \in Decoders
    BY ONLY Zenon, <1>2, <2>1, d \in Decoders, EmptyText, DecoderWith
  <2> QED BY <2>1, <2>2 DEF Decoders
<1>7. Trims(e, u, AnswerIn(text))
  BY <1>5, <1>6 DEF Trims
<1>8. Explained(e, u, text)
  <2>1. Find(text, THINK_END) > 0
    <3>1. Len(f) \in Nat
      BY EmptyText
    <3> QED BY <1>2, <1>3, <3>1
  <2> QED BY <1>6, <1>7, <2>1, ExplainedMeans
<1>9. Turns(e) < Turns(d)
  <2>1. Len(p) \in Nat /\ Len(<<>>) = 0
    BY <1>1, EmptyText
  <2>2. Turns(e) = Len(<<>>) + Len(a) + 1 /\ Turns(d) = Len(<<>>) + Len(p) + 1
    BY <1>6 DEF Turns
  <2> QED BY <1>2, <2>1, <2>2
<1>10. ShowsNoMarks(u, e)
  BY <1>6 DEF ShowsNoMarks
<1> QED BY <1>6, <1>8, <1>9, <1>10 DEF Rightly, e, at

LEMMA TakenPrefix ==
  ASSUME NEW d \in Decoders, NEW watched, NEW final \in BOOLEAN
  PROVE  LET p == d.pending
             t == TakePrefix(d, watched, final)
             h == Len(p) - HeldBack(p, watched)
         IN /\ h \in 0..Len(p) /\ Len(p) \in Nat
            /\ ~final => t.shown = SubSeq(p, 1, h) /\ t.kept = SubSeq(p, h + 1, Len(p))
            /\ final => t.shown = p /\ t.kept = <<>>
<1> DEFINE p == d.pending
           k == HeldBack(p, watched)
           t == TakePrefix(d, watched, final)
           n == Len(p)
<1>1. p \in Texts /\ n \in Nat
  BY DecoderFields, EmptyText
<1>2. k \in 0..n
  BY <1>1, TextsAreSequences, HeldIsRange
<1>3. /\ final => t.shown = SubSeq(p, 1, n - 0) /\ t.kept = SubSeq(p, n - 0 + 1, n)
      /\ ~final => t.shown = SubSeq(p, 1, n - k) /\ t.kept = SubSeq(p, n - k + 1, n)
  BY DEF TakePrefix
<1>4. n - 0 = n
  BY <1>1
<1>5. SubSeq(p, 1, n) = p /\ SubSeq(p, n + 1, n) = <<>>
  <2>1. SubSeq(p, 1, n) = p
    BY <1>1, TextsAreSequences, SubSeqFull
  <2>2. ~(n + 1 <= n)
    BY <1>1
  <2>3. n \in 0..n
    BY <1>1
  <2>4. SubSeq(p, n + 1, n) \in Texts /\ Len(SubSeq(p, n + 1, n)) = n - n
    BY <1>1, <2>3, TextParts
  <2>5. Len(SubSeq(p, n + 1, n)) = 0
    BY <1>1, <2>4
  <2>6. SubSeq(p, n + 1, n) = <<>>
    BY <2>4, <2>5, TextsAreSequences, EmptySeq
  <2> QED BY <2>1, <2>6
<1> HIDE DEF t, k, n, p
<1>6. n - k \in 0..n
  BY <1>1, <1>2
<1> QED BY <1>1, <1>3, <1>4, <1>5, <1>6 DEF t, k, n, p

(* No end of the reasoning in sight: what cannot begin one is released.    *)
LEMMA ThinkingOn ==
  ASSUME NEW d \in Decoders, NEW u \in Seq(Events), NEW text \in Texts,
         NEW f \in Texts, text = f \o d.pending, Passed(f, d.pending, THINK_END),
         Find(d.pending, THINK_END) = 0,
         ~d.stopped, d.thinking, ~d.in_tool_call, d.tool_buffer = <<>>, ~d.trimming, <<>> \notin d.stops,
         ShowsNoMarks(u, d), Silent(u), NEW final \in BOOLEAN
  PROVE  LET e == [d EXCEPT !.pending = TakePrefix(d, {THINK_END}, final).kept]
         IN e.stops = d.stops /\ IF final THEN Flushed(e, u, text) ELSE Rightly(e, u, text)
<1> DEFINE p == d.pending
           t == TakePrefix(d, {THINK_END}, final)
           h == Len(p) - HeldBack(p, {THINK_END})
           c == t.kept
           e == [d EXCEPT !.pending = t.kept]
<1>1. p \in Texts /\ IsMark(THINK_END) /\ Len(f) \in Nat
  BY DecoderFields, Delimiters, EmptyText
<1>2. /\ h \in 0..Len(p) /\ Len(p) \in Nat
      /\ ~final => c = SubSeq(p, h + 1, Len(p))
      /\ final => c = <<>>
  BY TakenPrefix
<1>3. c \in Texts
  <2>1. ~final => c \in Texts
    <3> HIDE DEF h, c, e
    <3> QED BY ONLY <1>1, <1>2, TextParts
  <2> QED BY <1>2, <2>1, EmptyText
<1> HIDE DEF c, e
<1>4. /\ e \in Decoders /\ e.pending = c /\ e.thinking /\ ~e.trimming /\ ~e.stopped
      /\ e.stops = d.stops /\ ~e.in_tool_call /\ e.tool_buffer = <<>>
  <2>1. e = [d EXCEPT !.pending = c]
    BY DEF c, e
  <2>2. e \in Decoders
    BY ONLY Zenon, <1>3, <2>1, d \in Decoders, EmptyText, DecoderWith
  <2> QED BY <2>1, <2>2 DEF Decoders
<1>5. ShowsNoMarks(u, e)
  BY <1>4 DEF ShowsNoMarks
<1>6. ASSUME final PROVE Flushed(e, u, text)
  <2>1. Find(text, THINK_END) = 0
    <3>1. Find(f \o p, THINK_END) = IF Find(p, THINK_END) = 0 THEN 0 ELSE Len(f) + Find(p, THINK_END)
      BY <1>1, TextsAreSequences, FindShifts
    <3> QED BY <3>1
  <2>2. FromQwenContinuation(text).text = <<>> /\ FromQwenContinuation(text).calls = <<>>
    BY <2>1, WholeAnswer
  <2>3. TextOf(u) = <<>> /\ CallsOf(u) = <<>>
    BY DEF Silent
  <2>4. IsPrefix(<<>>, <<>>)
    BY EmptyText, PrefixOfNothing
  <2> QED BY <1>5, <2>2, <2>3, <2>4 DEF Flushed
<1>7. ASSUME ~final PROVE Rightly(e, u, text)
  <2> DEFINE b == SubSeq(p, 1, h)
             g == f \o b
  <2>1. c = SubSeq(p, h + 1, Len(p))
    BY <1>2, <1>7
  <2>2. Passed(g, c, THINK_END)
    <3>1. THINK_END \in {THINK_END} /\ p \in Seq(Symbols) /\ f \in Seq(Symbols)
      BY <1>1, TextsAreSequences
    <3>2. Passed(f \o SubSeq(p, 1, h), SubSeq(p, h + 1, Len(p)), THINK_END)
      BY <1>1, <3>1, ReleasedHasPassed
    <3> QED BY <2>1, <3>2
  <2>3. p = b \o c /\ b \in Texts /\ Len(c) = Len(p) - h /\ Len(b) = h
    <3> HIDE DEF h
    <3> QED BY <1>1, <1>2, <2>1, TextParts
  <2>4. g \in Texts
    BY <2>3, EmptyText
  <2>5. text = g \o c
    <3>1. (f \o b) \o c = f \o (b \o c)
      <4> HIDE DEF b
      <4> QED BY ONLY <1>3, <2>3, f \in Texts, TextsRegroup
    <3> QED BY <2>3, <3>1
  <2>6. SubSeq(text, 1, Len(text) - Len(c)) = g
    <3>1. Len(text) = Len(f) + Len(p)
      BY <1>1, TextsAreSequences, CatFacts
    <3>2. Len(text) - Len(c) = Len(f) + h
      <4> HIDE DEF h, b
      <4> QED BY <1>1, <1>2, <2>3, <3>1
    <3>3. SubSeq(f \o p, 1, Len(f) + h) = f \o SubSeq(p, 1, h)
      <4> HIDE DEF h
      <4>1. f \in Seq(Symbols) /\ p \in Seq(Symbols)
        BY <1>1, TextsAreSequences
      <4> HIDE DEF p
      <4> QED BY ONLY <1>2, <4>1, CutBehindSeam
    <3> QED BY <3>2, <3>3
  <2> HIDE DEF g
  <2>7. Thinks(e, u, text)
    BY <1>4, <2>2, <2>5, <2>6 DEF Thinks
  <2>8. Explained(e, u, text)
    BY <1>4, <2>7, ExplainedMeans
  <2> QED BY <1>4, <1>5, <1>7, <2>8 DEF Rightly
<1> QED BY <1>4, <1>6, <1>7 DEF e

LEMMA ThinkingTurn ==
  ASSUME NEW d \in Decoders, NEW s0 \in Seq(Events), NEW out \in Seq(Events), NEW text \in Texts,
         NEW final \in BOOLEAN, ~d.stopped, d.thinking, Rightly(d, Heard(s0, out), text)
  PROVE  LET y == DrainThinking(d, out, final)
         IN TurnedRight(d, y, Heard(s0, y.out), final, text)
<1> DEFINE s == Heard(s0, out)
           p == d.pending
           f == SubSeq(text, 1, Len(text) - Len(p))
           at == Find(p, THINK_END)
           t == TakePrefix(d, {THINK_END}, final)
           e1 == [d EXCEPT !.pending = After(@, at, THINK_END), !.thinking = FALSE, !.trimming = TRUE]
           e2 == [d EXCEPT !.pending = t.kept]
           b == Before(p, at)
           y == DrainThinking(d, out, final)
<1>1. p \in Texts /\ IsMark(THINK_END) /\ at \in Nat /\ s \in Seq(Events)
  <2>1. p \in Texts /\ IsMark(THINK_END)
    BY DecoderFields, Delimiters
  <2> QED BY <2>1, TextsAreSequences, FindSays, HeardSoFar
<1>2. Thinks(d, s, text) /\ ShowsNoMarks(s, d) /\ <<>> \notin d.stops
  BY ExplainedMeans DEF Rightly
<1>3. /\ Silent(s) /\ ~d.in_tool_call /\ d.tool_buffer = <<>> /\ ~d.trimming
      /\ text = f \o p /\ Passed(f, p, THINK_END)
  BY <1>2 DEF Thinks
<1>4. f \in Texts
  <2>1. Len(text) \in Nat /\ Len(p) \in Nat
    BY <1>1, EmptyText
  <2>2. Len(text) - Len(p) \in Int /\ Len(text) - Len(p) <= Len(text)
    BY <2>1
  <2> QED BY <2>2, PartIsText
<1>5. y = IF at > 0 THEN GoingOn(e1, Emitted(out, Reasoning(b)))
          ELSE Ended(e2, Emitted(out, Reasoning(t.shown)))
  BY DEF DrainThinking
<1> HIDE DEF y, s, f
<1>6. CASE at > 0
  <2> DEFINE u == Heard(s0, Emitted(out, Reasoning(b)))
  <2>1. y.dec = e1 /\ y.out = Emitted(out, Reasoning(b)) /\ y.going /\ ~y.failed
    BY <1>5, <1>6 DEF GoingOn
  <2>2. b \in Texts
    BY <1>1, <1>6, TextFound
  <2> HIDE DEF b
  <2>3. u \in Seq(Events) /\ (Silent(s) => Silent(u)) /\ (ShowsNoMarks(s, d) => ShowsNoMarks(u, d))
    BY <2>2, SaysReasoning DEF s
  <2> HIDE DEF u
  <2>4. e1.stops = d.stops /\ ~e1.stopped /\ Rightly(e1, u, text) /\ Turns(e1) < Turns(d)
    <3>2. Silent(u) /\ ShowsNoMarks(u, d)
      BY <1>2, <1>3, <2>3
    <3> QED BY Zenon, <1>1, <1>2, <1>3, <1>4, <1>6, <2>3, <3>2, ThinkingMark
  <2> HIDE DEF e1
  <2>5. TurnedRight(d, y, u, final, text)
    BY <2>1, <2>4 DEF TurnedRight
  <2> QED BY <2>1, <2>5 DEF u, y
<1>7. CASE ~(at > 0)
  <2> DEFINE r == t.shown
             u == Heard(s0, Emitted(out, Reasoning(r)))
  <2>1. y.dec = e2 /\ y.out = Emitted(out, Reasoning(r)) /\ ~y.going /\ ~y.failed
    BY <1>5, <1>7 DEF Ended
  <2>2. r \in Texts
    BY <1>1, PrefixIsText
  <2> HIDE DEF r
  <2>3. u \in Seq(Events) /\ (Silent(s) => Silent(u)) /\ (ShowsNoMarks(s, d) => ShowsNoMarks(u, d))
    BY <2>2, SaysReasoning DEF s
  <2> HIDE DEF u
  <2>4. Find(p, THINK_END) = 0
    BY <1>1, <1>7
  <2>5. e2.stops = d.stops /\ IF final THEN Flushed(e2, u, text) ELSE Rightly(e2, u, text)
    <3>2. Silent(u) /\ ShowsNoMarks(u, d)
      BY <1>2, <1>3, <2>3
    <3> QED BY <1>1, <1>2, <1>3, <1>4, <2>3, <2>4, <3>2, ThinkingOn
  <2> HIDE DEF e2
  <2>6. TurnedRight(d, y, u, final, text)
    BY <2>1, <2>5 DEF TurnedRight
  <2> QED BY <2>1, <2>6 DEF u, y
<1> QED BY <1>6, <1>7

(* A turn inside a tool call (stream_decoder.rs: drain).                   *)

(* What Speaks promises while a tool call is open: the parser stands in    *)
(* front of it.                                                            *)
LEMMA OpenCall ==
  ASSUME NEW d \in Decoders, NEW s \in Seq(Events), NEW answer \in Texts, Speaks(d, s, answer), d.in_tool_call
  PROVE  \E n \in 0..Len(answer) : LET x == Parsing(answer)[n] IN
           /\ x \in Parsers /\ x.going /\ x.calls = CallsOf(s)
           /\ x.text \o Before(x.rest, CallStart(x)) = TextOf(s)
           /\ CallStart(x) > 0 /\ Behind(x) = d.tool_buffer \o d.pending
<1>1. PICK n \in 0..Len(answer) : LET x == Parsing(answer)[n] IN
        /\ x.going /\ x.calls = CallsOf(s) /\ x.text \o LastText(s) = TextOf(s)
        /\ Find(x.rest, TOOL_CALL_START) = Len(LastText(s)) + 1
        /\ Before(x.rest, Len(LastText(s)) + 1) = LastText(s)
        /\ After(x.rest, Len(LastText(s)) + 1, TOOL_CALL_START) = d.tool_buffer \o d.pending
  BY DEF Speaks
<1> DEFINE x == Parsing(answer)[n]
           f == LastText(s)
<1>2. f \in Texts /\ Len(f) \in Nat /\ Len(answer) \in Nat
  <2>1. f \in Texts
    BY EventPlaces
  <2> HIDE DEF f
  <2> QED BY <2>1, EmptyText
<1>3. x \in Parsers
  <2>1. n \in 0..(Len(answer) + 1)
    BY <1>2
  <2> QED BY <2>1, ParsingInSteps
<1>4. /\ x.going /\ x.calls = CallsOf(s) /\ x.text \o f = TextOf(s)
      /\ Find(x.rest, TOOL_CALL_START) = Len(f) + 1 /\ Before(x.rest, Len(f) + 1) = f
      /\ After(x.rest, Len(f) + 1, TOOL_CALL_START) = d.tool_buffer \o d.pending
  BY <1>1
<1> HIDE DEF x, f
<1>5. CallStart(x) = Len(f) + 1 /\ Behind(x) = d.tool_buffer \o d.pending
  BY <1>4 DEF CallStart, Behind
<1>6. CallStart(x) > 0 /\ x.text \o Before(x.rest, CallStart(x)) = TextOf(s)
  <2>1. CallStart(x) > 0
    BY <1>2, <1>5
  <2>2. Before(x.rest, CallStart(x)) = f
    BY ONLY <1>4, <1>5
  <2> QED BY <1>4, <2>1, <2>2
<1> QED BY <1>3, <1>4, <1>5, <1>6 DEF x

(* The other direction: what makes a decoder speak.                        *)
LEMMA OpensCall ==
  ASSUME NEW d \in Decoders, NEW u, NEW answer \in Texts, NEW n \in 0..Len(answer), d.in_tool_call,
         answer # <<>>, Parsing(answer)[n].going, Parsing(answer)[n].calls = CallsOf(u),
         Parsing(answer)[n].text \o LastText(u) = TextOf(u),
         CallStart(Parsing(answer)[n]) = Len(LastText(u)) + 1,
         Before(Parsing(answer)[n].rest, CallStart(Parsing(answer)[n])) = LastText(u),
         Behind(Parsing(answer)[n]) = d.tool_buffer \o d.pending
  PROVE  Speaks(d, u, answer)
BY DEF Speaks, CallStart, Behind

LEMMA SpeaksOn ==
  ASSUME NEW d \in Decoders, NEW u, NEW answer \in Texts, NEW n \in 0..Len(answer), ~d.in_tool_call,
         d.tool_buffer = <<>>, answer # <<>>, Parsing(answer)[n].going, Parsing(answer)[n].calls = CallsOf(u),
         Parsing(answer)[n].text \o LastText(u) = TextOf(u),
         Parsing(answer)[n].rest = LastText(u) \o d.pending,
         \A mark \in {TOOL_CALL_START} \union d.stops : Passed(LastText(u), d.pending, mark)
  PROVE  Speaks(d, u, answer)
BY DEF Speaks

(* The call goes on, or its end has come.                                  *)
LEMMA ToolCallWaits ==
  ASSUME NEW d \in Decoders, NEW s \in Seq(Events), NEW answer \in Texts, Speaks(d, s, answer), d.in_tool_call
  PROVE  LET e == [d EXCEPT !.tool_buffer = d.tool_buffer \o d.pending, !.pending = <<>>]
         IN e \in Decoders /\ Speaks(e, s, answer)
<1> DEFINE buffer == d.tool_buffer \o d.pending
           e == [d EXCEPT !.tool_buffer = buffer, !.pending = <<>>]
<1>1. buffer \in Texts /\ <<>> \in Texts
  BY DecoderFields, EmptyText
<1> HIDE DEF buffer
<1>2. /\ e \in Decoders /\ e.tool_buffer = buffer /\ e.pending = <<>> /\ e.in_tool_call
  <2>1. e \in Decoders
    BY Zenon, <1>1, DecoderWith
  <2> QED BY <2>1 DEF Decoders
<1> HIDE DEF e
<1>3. buffer \o <<>> = buffer
  BY <1>1, NothingAdded
<1>4. e.tool_buffer \o e.pending = d.tool_buffer \o d.pending
  BY <1>2, <1>3 DEF buffer
<1>5. Speaks(e, s, answer)
  BY <1>2, <1>4 DEF Speaks
<1> QED BY <1>2, <1>5 DEF e, buffer

LEMMA ToolCallEnds ==
  ASSUME NEW d \in Decoders, NEW s0 \in Seq(Events), NEW out \in Seq(Events), NEW answer \in Texts,
         answer # <<>>, Speaks(d, Heard(s0, out), answer), d.in_tool_call, d.tool_call_count \in Nat,
         ShowsNoMarks(Heard(s0, out), d),
         Find(d.tool_buffer \o d.pending, TOOL_CALL_END) > 0,
         Parses(Before(d.tool_buffer \o d.pending, Find(d.tool_buffer \o d.pending, TOOL_CALL_END)))
  PROVE  LET buffer == d.tool_buffer \o d.pending
             at == Find(buffer, TOOL_CALL_END)
             e == [d EXCEPT !.pending = After(buffer, at, TOOL_CALL_END), !.tool_buffer = <<>>,
                            !.in_tool_call = FALSE, !.tool_call_count = @ + 1]
             u == Heard(s0, Append(out, ToolCall(Trim(Before(buffer, at)))))
         IN e \in Decoders /\ Speaks(e, u, answer) /\ ShowsNoMarks(u, d) /\ Turns(e) < Turns(d)
<1> DEFINE s == Heard(s0, out)
           buffer == d.tool_buffer \o d.pending
           at == Find(buffer, TOOL_CALL_END)
           b == Before(buffer, at)
           t == Trim(b)
           a == After(buffer, at, TOOL_CALL_END)
           k == d.tool_call_count + 1
           e == [d EXCEPT !.pending = a, !.tool_buffer = <<>>, !.in_tool_call = FALSE, !.tool_call_count = k]
           u == Heard(s0, Append(out, ToolCall(t)))
<1>1. /\ buffer \in Texts /\ <<>> \in Texts /\ IsMark(TOOL_CALL_END) /\ Len(TOOL_CALL_END) = 2
      /\ d.pending \in Texts /\ d.tool_buffer \in Texts /\ k \in Nat
  BY DecoderFields, EmptyText, Delimiters
<1>2. s \in Seq(Events) /\ Len(answer) \in Nat
  BY HeardSoFar, EmptyText
<1>3. PICK n \in 0..Len(answer) : LET x == Parsing(answer)[n] IN
        /\ x \in Parsers /\ x.going /\ x.calls = CallsOf(s)
        /\ x.text \o Before(x.rest, CallStart(x)) = TextOf(s)
        /\ CallStart(x) > 0 /\ Behind(x) = buffer
  <2> HIDE DEF s
  <2>1. Speaks(d, s, answer)
    BY DEF s
  <2> QED BY <1>2, <2>1, OpenCall
<1> DEFINE x == Parsing(answer)[n]
           x1 == Parsing(answer)[n + 1]
<1>4. /\ x \in Parsers /\ x.going /\ x.calls = CallsOf(s)
      /\ x.text \o Before(x.rest, CallStart(x)) = TextOf(s)
      /\ CallStart(x) > 0 /\ Behind(x) = buffer
  BY <1>3
<1>5. x1 = ParseOnce(x) /\ n + 1 \in 0..(Len(answer) + 1) /\ n \in 0..(Len(answer) + 1)
  <2>1. n \in 0..(Len(answer) + 1)
    BY <1>2
  <2> QED BY <1>4, <2>1, ParsesOn
<1> HIDE DEF x, s, buffer
<1>6. CallEnd(x) = at /\ CallBody(x) = b
  BY <1>4 DEF CallEnd, CallBody
<1>7. /\ x1.text = x.text \o Before(x.rest, CallStart(x)) /\ x1.calls = Append(x.calls, t)
      /\ x1.rest = a /\ x1.going
  <2>1. CallStart(x) > 0 /\ CallEnd(x) > 0 /\ Parses(CallBody(x))
    BY <1>4, <1>6 DEF buffer
  <2>2. /\ ParseOnce(x).text = x.text \o Before(x.rest, CallStart(x))
        /\ ParseOnce(x).calls = Append(x.calls, Trim(CallBody(x)))
        /\ ParseOnce(x).rest = After(Behind(x), CallEnd(x), TOOL_CALL_END)
        /\ ParseOnce(x).going = x.going
    BY <1>4, <2>1, ParseOnceSays
  <2> QED BY <1>4, <1>5, <1>6, <2>2
<1>8. n + 1 \in 0..Len(answer)
  BY <1>5, <1>7, GoingIsWithin
<1>9. at > 0 /\ Parses(b)
  BY DEF buffer
<1>10. a \in Texts /\ Len(a) < Len(buffer) /\ b \in Texts
  <2>1. /\ at \in Nat \ {0} /\ at + 2 <= Len(buffer) + 1
        /\ b \in Texts /\ a \in Texts /\ Len(a) = Len(buffer) - (at + 2 - 1) /\ Len(buffer) \in Nat
    <3>1. buffer \in Seq(Symbols) /\ Len(buffer) \in Nat
      BY <1>1, TextsAreSequences, EmptyText
    <3>2. /\ Find(buffer, TOOL_CALL_END) \in Nat \ {0}
          /\ Find(buffer, TOOL_CALL_END) + Len(TOOL_CALL_END) <= Len(buffer) + 1
          /\ Before(buffer, Find(buffer, TOOL_CALL_END)) \in Seq(Symbols)
          /\ After(buffer, Find(buffer, TOOL_CALL_END), TOOL_CALL_END) \in Seq(Symbols)
          /\ Len(After(buffer, Find(buffer, TOOL_CALL_END), TOOL_CALL_END))
               = Len(buffer) - (Find(buffer, TOOL_CALL_END) + Len(TOOL_CALL_END) - 1)
      BY <1>1, <1>9, <3>1, FoundWithin
    <3> QED BY <1>1, <3>1, <3>2, TextsAreSequences
  <2> HIDE DEF at, a, b
  <2> QED BY <2>1
<1>11. t \in Texts /\ t # <<>>
  BY <1>9, <1>10, TrimmedText DEF Parses
<1> HIDE DEF at, a, b, t, x1, k
<1>12. /\ e \in Decoders /\ e.pending = a /\ e.tool_buffer = <<>> /\ ~e.in_tool_call
  <2>1. e \in Decoders
    BY Zenon, <1>1, <1>10, DecoderWith
  <2> QED BY <2>1 DEF Decoders
<1>13. /\ TextOf(u) = TextOf(s) /\ CallsOf(u) = Append(CallsOf(s), t) /\ LastText(u) = <<>>
       /\ ShowsNoMarks(s, d) => ShowsNoMarks(u, d)
  BY <1>11, SaysCall DEF s
<1> HIDE DEF e, u
<1>14. <<>> \o a = a /\ TextOf(s) \o <<>> = TextOf(s)
  <2>1. TextOf(s) \in Texts
    BY <1>2, SaidIsTyped
  <2> QED BY <2>1, <1>10, TextsAreSequences, ConcatEmptySeq
<1>15. \A mark \in {TOOL_CALL_START} \union e.stops : Passed(LastText(u), e.pending, mark)
  BY <1>13, PassedNothing
<1>16. Speaks(e, u, answer)
  <2>1. /\ x1.going /\ x1.calls = CallsOf(u) /\ x1.text \o LastText(u) = TextOf(u)
        /\ x1.rest = LastText(u) \o e.pending
    BY <1>4, <1>7, <1>12, <1>13, <1>14
  <2> QED BY <1>8, <1>12, <1>15, <2>1, SpeaksOn DEF x1
<1>17. Turns(e) < Turns(d)
  <2>1. Turns(e) = Len(<<>>) + Len(a) + 1 /\ Turns(d) = Len(d.tool_buffer) + Len(d.pending) + 1
    BY <1>12 DEF Turns
  <2>2. Len(buffer) = Len(d.tool_buffer) + Len(d.pending)
    BY <1>1, TextsAreSequences, CatFacts DEF buffer
  <2> DEFINE i == Len(a)
             j == Len(d.tool_buffer)
             m == Len(d.pending)
  <2>3. Len(<<>>) = 0 /\ i \in Nat /\ j \in Nat /\ m \in Nat
    BY <1>1, <1>10, EmptyText
  <2>4. Turns(e) = 0 + i + 1 /\ Turns(d) = j + m + 1 /\ i < j + m
    BY <1>10, <2>1, <2>2, <2>3
  <2> HIDE DEF i, j, m
  <2> QED BY ONLY <2>3, <2>4
<1>18. ShowsNoMarks(u, d)
  BY <1>13 DEF s
<1> QED BY <1>12, <1>16, <1>17, <1>18 DEF e, u, t, b, a, at, buffer, k

(* What was said before the open call is what the parser shows first; a    *)
(* call that stays open is an error to it.                                 *)
LEMMA SpokenPrefix ==
  ASSUME NEW d \in Decoders, NEW s \in Seq(Events), NEW answer \in Texts, Speaks(d, s, answer), d.in_tool_call
  PROVE  /\ IsPrefix(TextOf(s), FromModelText(answer).text)
         /\ Find(d.tool_buffer \o d.pending, TOOL_CALL_END) = 0 => FromModelText(answer).failed
<1>1. PICK n \in 0..Len(answer) : LET x == Parsing(answer)[n] IN
        /\ x \in Parsers /\ x.going /\ x.calls = CallsOf(s)
        /\ x.text \o Before(x.rest, CallStart(x)) = TextOf(s)
        /\ CallStart(x) > 0 /\ Behind(x) = d.tool_buffer \o d.pending
  BY OpenCall
<1> DEFINE x == Parsing(answer)[n]
<1>2. /\ x.going /\ x.text \o Before(x.rest, CallStart(x)) = TextOf(s)
      /\ CallStart(x) > 0 /\ Behind(x) = d.tool_buffer \o d.pending
  BY <1>1
<1>3. n \in 0..(Len(answer) + 1)
  BY EmptyText
<1>4. /\ IsPrefix(x.text \o Before(x.rest, CallStart(x)), FromModelText(answer).text)
      /\ CallEnd(x) = 0 => FromModelText(answer).failed
  BY <1>2, <1>3, CallIsAhead
<1> HIDE DEF x
<1>5. CallEnd(x) = Find(d.tool_buffer \o d.pending, TOOL_CALL_END)
  BY <1>2 DEF CallEnd
<1> QED BY <1>2, <1>4, <1>5

LEMMA ToolTurn ==
  ASSUME NEW d \in Decoders, NEW s0 \in Seq(Events), NEW out \in Seq(Events), NEW text \in Texts,
         NEW final \in BOOLEAN, ~d.stopped, ~d.thinking, d.in_tool_call, Rightly(d, Heard(s0, out), text)
  PROVE  LET y == DrainToolCall(d, out)
         IN TurnedRight(d, y, Heard(s0, y.out), final, text)
<1> DEFINE s == Heard(s0, out)
           answer == AnswerIn(text)
           buffer == d.tool_buffer \o d.pending
           at == Find(buffer, TOOL_CALL_END)
           b == Before(buffer, at)
           d1 == [d EXCEPT !.tool_buffer = buffer, !.pending = <<>>]
           d2 == [d EXCEPT !.pending = After(buffer, at, TOOL_CALL_END), !.tool_buffer = <<>>,
                           !.in_tool_call = FALSE, !.tool_call_count = @ + 1]
           o2 == Append(out, ToolCall(Trim(b)))
           y == DrainToolCall(d, out)
<1>1. s \in Seq(Events) /\ d.tool_call_count \in Nat /\ at \in Nat
  <2>1. d.pending \in Texts /\ d.tool_buffer \in Texts
    BY DecoderFields
  <2>2. buffer \in Texts
    BY <2>1, EmptyText
  <2> HIDE DEF buffer
  <2>3. at \in Nat
    BY <2>2, Delimiters, TextsAreSequences, FindSays
  <2> QED BY <2>3, HeardSoFar, DecoderFields
<1>2. ShowsNoMarks(s, d) /\ <<>> \notin d.stops /\ Find(text, THINK_END) > 0 /\ Speaks(d, s, answer)
  <2>1. /\ ShowsNoMarks(s, d) /\ <<>> \notin d.stops /\ Find(text, THINK_END) > 0
        /\ (d.trimming => Trims(d, s, answer)) /\ (~d.trimming => Speaks(d, s, answer))
    BY ExplainedMeans DEF Rightly
  <2>2. ~Trims(d, s, answer)
    BY DEF Trims
  <2>3. d.trimming \in BOOLEAN
    BY DecoderFields
  <2> QED BY <2>1, <2>2, <2>3
<1>3. ~d.trimming
  <2>1. d.trimming => Trims(d, s, answer)
    BY ExplainedMeans DEF Rightly
  <2> QED BY <2>1 DEF Trims
<1>4. answer \in Texts /\ answer # <<>> /\ FromQwenContinuation(text) = FromModelText(answer)
  BY <1>2, WholeAnswer DEF Speaks
<1>5. y = (CASE at = 0 -> Ended(d1, out)
             [] at > 0 /\ ~Parses(b) -> NotParsed(d, out)
             [] OTHER -> GoingOn(d2, o2))
  BY DEF DrainToolCall
<1> HIDE DEF answer, y
<1>6. CASE at = 0
  <2>1. y.dec = d1 /\ y.out = out /\ ~y.going /\ ~y.failed
    BY <1>5, <1>6 DEF Ended
  <2>2. d1 \in Decoders /\ Speaks(d1, s, answer)
    <3> HIDE DEF s
    <3> QED BY Zenon, <1>1, <1>2, <1>4, ToolCallWaits
  <2>3. /\ d1.stops = d.stops /\ ~d1.stopped /\ ~d1.thinking /\ ~d1.trimming
    BY <1>3 DEF Decoders
  <2> HIDE DEF d1
  <2>4. ShowsNoMarks(s, d1)
    BY <1>2, <2>3 DEF ShowsNoMarks
  <2>5. Rightly(d1, s, text)
    <3>1. Explained(d1, s, text)
      BY <1>2, <2>2, <2>3, ExplainedMeans DEF answer
    <3> QED BY <1>2, <2>3, <2>4, <3>1 DEF Rightly
  <2>6. Flushed(d1, s, text)
    <3>1. IsPrefix(TextOf(s), FromModelText(answer).text) /\ FromModelText(answer).failed
      <4> HIDE DEF s
      <4> QED BY <1>1, <1>2, <1>4, <1>6, SpokenPrefix
    <3> QED BY <1>4, <2>4, <3>1 DEF Flushed
  <2> HIDE DEF s
  <2>7. TurnedRight(d, y, s, final, text)
    BY <2>1, <2>3, <2>5, <2>6 DEF TurnedRight
  <2> QED BY <2>1, <2>7 DEF s, y
<1>7. CASE at > 0 /\ ~Parses(b)
  <2>1. at # 0
    BY <1>1, <1>7
  <2> HIDE DEF at, b
  <2>2. y = NotParsed(d, out)
    BY ONLY <1>5, <1>7, <2>1
  <2>3. y.dec = d /\ ~y.going /\ y.failed
    BY <2>2 DEF NotParsed
  <2> QED BY <2>3 DEF TurnedRight, y
<1>8. CASE at > 0 /\ Parses(b)
  <2>1. at # 0
    BY <1>1, <1>8
  <2> DEFINE u == Heard(s0, o2)
  <2>2. d2 \in Decoders /\ Speaks(d2, u, answer) /\ ShowsNoMarks(u, d) /\ Turns(d2) < Turns(d)
    BY Zenon, <1>1, <1>2, <1>4, <1>8, ToolCallEnds
  <2> HIDE DEF at, b, s
  <2>3. y = GoingOn(d2, o2)
    BY ONLY <1>5, <1>8, <2>1
  <2>4. /\ d2.stops = d.stops /\ ~d2.stopped /\ ~d2.thinking /\ ~d2.trimming
    BY <1>3 DEF Decoders
  <2> HIDE DEF d2, o2, u
  <2>5. y.dec = d2 /\ y.out = o2 /\ y.going
    BY <2>3 DEF GoingOn
  <2>6. Rightly(d2, u, text)
    <3>1. Explained(d2, u, text)
      BY <1>2, <2>2, <2>4, ExplainedMeans DEF answer
    <3>2. ShowsNoMarks(u, d2)
      BY <2>2, <2>4 DEF ShowsNoMarks
    <3> QED BY <1>2, <2>4, <3>1, <3>2 DEF Rightly
  <2>7. TurnedRight(d, y, u, final, text)
    BY <2>2, <2>4, <2>5, <2>6 DEF TurnedRight
  <2> QED BY <2>5, <2>7 DEF u, y
<1> QED BY <1>1, <1>6, <1>7, <1>8

(* A turn outside of tool calls (stream_decoder.rs: drain).                *)

Marks(d) == {TOOL_CALL_START} \union d.stops

(* No mark is found in the first a symbols of what is pending.             *)
CleanTo(d, a) == \A mark \in Marks(d) : Find(d.pending, mark) = 0 \/ Find(d.pending, mark) > a

(* What Speaks promises outside of tool calls.                             *)
LEMMA NoOpenCall ==
  ASSUME NEW d \in Decoders, NEW s \in Seq(Events), NEW answer \in Texts, Speaks(d, s, answer), ~d.in_tool_call
  PROVE  /\ answer # <<>> /\ d.tool_buffer = <<>>
         /\ \A mark \in Marks(d) : Passed(LastText(s), d.pending, mark)
         /\ \E n \in 0..Len(answer) : LET x == Parsing(answer)[n] IN
              /\ x \in Parsers /\ x.going /\ x.calls = CallsOf(s)
              /\ x.text \o LastText(s) = TextOf(s) /\ x.rest = LastText(s) \o d.pending
<1>1. /\ answer # <<>> /\ d.tool_buffer = <<>>
      /\ \A mark \in Marks(d) : Passed(LastText(s), d.pending, mark)
  BY DEF Speaks, Marks
<1>2. PICK n \in 0..Len(answer) : LET x == Parsing(answer)[n] IN
        /\ x.going /\ x.calls = CallsOf(s)
        /\ x.text \o LastText(s) = TextOf(s) /\ x.rest = LastText(s) \o d.pending
  BY DEF Speaks
<1>3. Parsing(answer)[n] \in Parsers
  <2>1. n \in 0..(Len(answer) + 1)
    BY EmptyText
  <2> QED BY <2>1, ParsingInSteps
<1> QED BY <1>1, <1>2, <1>3

(* FirstStop is the first place of any stop sequence.                      *)
LEMMA FirstStopSays ==
  ASSUME NEW d \in Decoders, <<>> \notin d.stops
  PROVE  /\ FirstStop(d) \in Nat
         /\ FirstStop(d) = 0 => \A m \in d.stops : Find(d.pending, m) = 0
         /\ FirstStop(d) > 0 => /\ FirstStop(d) <= Len(d.pending)
                                /\ \A m \in d.stops : Find(d.pending, m) = 0 \/ Find(d.pending, m) >= FirstStop(d)
<1> DEFINE p == d.pending
           at == {Find(p, m) : m \in d.stops} \ {0}
           k == FirstStop(d)
<1>1. p \in Texts /\ Len(p) \in Nat
  BY DecoderFields, EmptyText
<1>2. \A m \in d.stops : Find(p, m) \in Nat /\ Find(p, m) <= Len(p)
  <2> SUFFICES ASSUME NEW m \in d.stops PROVE Find(p, m) \in Nat /\ Find(p, m) <= Len(p)
    OBVIOUS
  <2>1. IsMark(m)
    BY StopsAreMarks
  <2>2. Find(p, m) \in Nat /\ (Find(p, m) > 0 => Full(p, Find(p, m), m))
    BY <1>1, <2>1, TextsAreSequences, FindSays
  <2>3. Find(p, m) > 0 => Find(p, m) <= Len(p)
    BY <2>2 DEF Full
  <2> QED BY <1>1, <2>2, <2>3
<1>3. k = IF at = {} THEN 0 ELSE Min(at)
  BY DEF FirstStop
<1>4. at \in SUBSET Nat /\ (\A i \in at : i > 0 /\ i <= Len(p))
  BY <1>2
<1>5. \A m \in d.stops : Find(p, m) = 0 \/ Find(p, m) \in at
  OBVIOUS
<1> HIDE DEF at
<1>6. at # {} => Min(at) \in at /\ \A i \in at : Min(at) <= i
  <2> SUFFICES ASSUME at # {} PROVE Min(at) \in at /\ \A i \in at : Min(at) <= i
    OBVIOUS
  <2> DEFINE P(x) == \A y \in at : x <= y
             c == CHOOSE x \in at : P(x)
  <2>1. PICK i \in at : P(i)
    BY <1>4, SmallestMember
  <2>2. Min(at) = c
    BY DEF Min
  <2>3. \E x \in at : P(x)
    BY <2>1
  <2> HIDE DEF P
  <2>4. c \in at /\ P(c)
    BY <2>3
  <2> HIDE DEF c
  <2> QED BY <2>2, <2>4 DEF P
<1> HIDE DEF k, p
<1>7. CASE at = {}
  <2>1. k = 0
    BY <1>3, <1>7
  <2>2. \A m \in d.stops : Find(p, m) = 0
    BY <1>5, <1>7
  <2> QED BY <2>1, <2>2 DEF k, p
<1>8. CASE at # {}
  <2>1. k \in at /\ \A i \in at : k <= i
    BY <1>3, <1>6, <1>8
  <2>2. k \in Nat /\ k > 0 /\ k <= Len(p)
    BY <1>4, <2>1
  <2>3. \A m \in d.stops : Find(p, m) = 0 \/ Find(p, m) >= k
    BY <1>2, <1>5, <2>1, <2>2
  <2> QED BY <2>2, <2>3 DEF k, p
<1> QED BY <1>7, <1>8

(* A pending text up to its first mark may be shown.                       *)
LEMMA VisibleShown ==
  ASSUME NEW d \in Decoders, NEW s0 \in Seq(Events), NEW out \in Seq(Events), NEW answer \in Texts,
         Speaks(d, Heard(s0, out), answer), ~d.in_tool_call, <<>> \notin d.stops,
         ShowsNoMarks(Heard(s0, out), d), NEW a \in 0..Len(d.pending), CleanTo(d, a)
  PROVE  LET s == Heard(s0, out)
             z == SubSeq(d.pending, 1, a)
             u == Heard(s0, Emitted(out, TextDelta(z)))
         IN /\ u \in Seq(Events) /\ TextOf(u) = TextOf(s) \o z /\ CallsOf(u) = CallsOf(s)
            /\ LastText(u) = LastText(s) \o z /\ ShowsNoMarks(u, d)
            /\ IsPrefix(TextOf(u), FromModelText(answer).text)
<1> DEFINE s == Heard(s0, out)
           p == d.pending
           z == SubSeq(p, 1, a)
           u == Heard(s0, Emitted(out, TextDelta(z)))
           f == LastText(s)
<1>1. p \in Texts /\ s \in Seq(Events) /\ a \in 0..Len(p)
  BY DecoderFields, HeardSoFar
<1>2. f \in Texts /\ TextOf(s) \in Texts /\ CallsOf(s) \in Seq(Texts)
  <2> HIDE DEF s
  <2> QED BY <1>1, EventPlaces, SaidIsTyped
<1>3. z \in Texts
  <2> HIDE DEF p
  <2> QED BY <1>1, TextParts
<1>4. /\ \A mark \in Marks(d) : Passed(f, p, mark)
      /\ \E n \in 0..Len(answer) : LET x == Parsing(answer)[n] IN
              /\ x \in Parsers /\ x.going /\ x.calls = CallsOf(s)
              /\ x.text \o f = TextOf(s) /\ x.rest = f \o p
  <2> HIDE DEF s
  <2>1. Speaks(d, s, answer)
    BY DEF s
  <2> QED BY <1>1, <2>1, NoOpenCall
<1>5. NoMarkIn(f \o z, d)
  <2> SUFFICES ASSUME NEW m \in Marks(d) PROVE Find(f \o z, m) = 0
    BY DEF NoMarkIn, Marks
  <2>1. IsMark(m)
    BY StopsAreMarks DEF Marks
  <2>2. Find(p, m) = 0 \/ Find(p, m) > a
    BY DEF CleanTo
  <2>3. Passed(f, p, m) /\ f \in Seq(Symbols) /\ p \in Seq(Symbols)
    BY <1>1, <1>2, <1>4, TextsAreSequences
  <2> HIDE DEF f, p
  <2> QED BY ONLY <1>1, <2>1, <2>2, <2>3, ShownIsClean DEF z
<1> HIDE DEF z
<1>6. /\ u \in Seq(Events) /\ TextOf(u) = TextOf(s) \o z /\ CallsOf(u) = CallsOf(s)
      /\ LastText(u) = f \o z /\ ShowsNoMarks(u, d)
  <2>1. /\ u \in Seq(Events) /\ TextOf(u) = TextOf(s) \o z /\ CallsOf(u) = CallsOf(s)
        /\ LastText(u) = LastText(s) \o z
        /\ ShowsNoMarks(s, d) /\ NoMarkIn(LastText(s) \o z, d) => ShowsNoMarks(u, d)
    BY <1>3, SaysText
  <2> QED BY <1>5, <2>1
<1>7. IsPrefix(TextOf(s) \o z, FromModelText(answer).text)
  <2>1. PICK n \in 0..Len(answer) : LET x == Parsing(answer)[n] IN
              /\ x \in Parsers /\ x.going /\ x.calls = CallsOf(s)
              /\ x.text \o f = TextOf(s) /\ x.rest = f \o p
    BY <1>4
  <2> DEFINE x == Parsing(answer)[n]
  <2>2. x.going /\ x.text \o f = TextOf(s) /\ x.rest = f \o p /\ x.text \in Texts
    BY <2>1 DEF Parsers
  <2>3. n \in 0..(Len(answer) + 1)
    BY EmptyText
  <2>4. Find(p, TOOL_CALL_START) = 0 \/ Find(p, TOOL_CALL_START) > a
    BY DEF CleanTo, Marks
  <2>5. Passed(f, p, TOOL_CALL_START)
    BY <1>4 DEF Marks
  <2>6. IsPrefix(x.text \o (f \o SubSeq(p, 1, a)), FromModelText(answer).text)
    <3> HIDE DEF f, p
    <3> QED BY ONLY <1>1, <1>2, <2>2, <2>3, <2>4, <2>5, answer \in Texts, ShownIsPrefix
  <2>7. (x.text \o f) \o z = x.text \o (f \o z)
    <3> HIDE DEF x, f
    <3> QED BY ONLY Zenon, <1>2, <1>3, <2>2, TextsRegroup
  <2> HIDE DEF x, f
  <2> QED BY <2>2, <2>6, <2>7 DEF z
<1> HIDE DEF s, u, f
<1>8. IsPrefix(TextOf(u), FromModelText(answer).text)
  BY <1>6, <1>7
<1> QED BY <1>6, <1>8 DEF s, u, f, z

(* The decoder talks: s was said, and the text was fed so far.             *)
Talks(d, s, text) ==
  /\ ~d.stopped /\ ~d.thinking /\ ~d.in_tool_call /\ ~d.trimming
  /\ <<>> \notin d.stops /\ ShowsNoMarks(s, d)
  /\ Find(text, THINK_END) > 0 /\ Speaks(d, s, AnswerIn(text))

LEMMA TalksAbout ==
  ASSUME NEW d, NEW s, NEW text \in Texts, Talks(d, s, text)
  PROVE  /\ AnswerIn(text) \in Texts /\ FromQwenContinuation(text) = FromModelText(AnswerIn(text))
         /\ AnswerIn(text) # <<>> /\ FromQwenContinuation(text) \in Parsers
BY WholeAnswer DEF Talks, Speaks

(* A stop sequence ends the answer; a tag opens a call; and without        *)
(* either, what cannot begin one is released.                              *)
LEMMA StopsHere ==
  ASSUME NEW d \in Decoders, NEW s0 \in Seq(Events), NEW out \in Seq(Events), NEW text \in Texts,
         Talks(d, Heard(s0, out), text), NEW k \in 1..Len(d.pending), CleanTo(d, k - 1)
  PROVE  LET e == [d EXCEPT !.pending = <<>>, !.stopped = TRUE]
             u == Heard(s0, Emitted(out, TextDelta(Before(d.pending, k))))
         IN e.stops = d.stops /\ Rightly(e, u, text) /\ Flushed(e, u, text)
<1> DEFINE e == [d EXCEPT !.pending = <<>>, !.stopped = TRUE]
           z == SubSeq(d.pending, 1, k - 1)
           u == Heard(s0, Emitted(out, TextDelta(z)))
           answer == AnswerIn(text)
<1>1. /\ e \in Decoders /\ e.stops = d.stops /\ e.stopped
  <2>1. e \in Decoders
    BY Zenon, EmptyText, DecoderWith
  <2> QED BY <2>1 DEF Decoders
<1>2. answer \in Texts /\ FromQwenContinuation(text) = FromModelText(answer)
  BY TalksAbout
<1>3. k - 1 \in 0..Len(d.pending)
  <2>1. Len(d.pending) \in Nat
    BY DecoderFields, EmptyText
  <2> QED BY <2>1
<1> HIDE DEF e
<1>4. ShowsNoMarks(u, d) /\ IsPrefix(TextOf(u), FromModelText(answer).text)
  <2> DEFINE a == k - 1
  <2>1. a \in 0..Len(d.pending) /\ CleanTo(d, a)
    BY <1>3
  <2>2. ~d.in_tool_call /\ <<>> \notin d.stops /\ ShowsNoMarks(Heard(s0, out), d) /\ Speaks(d, Heard(s0, out), answer)
    BY DEF Talks
  <2> HIDE DEF a, answer
  <2>3. LET zz == SubSeq(d.pending, 1, a)
            uu == Heard(s0, Emitted(out, TextDelta(zz)))
        IN ShowsNoMarks(uu, d) /\ IsPrefix(TextOf(uu), FromModelText(answer).text)
    BY <1>2, <2>1, <2>2, VisibleShown
  <2> QED BY <2>3 DEF a
<1> HIDE DEF z, u, answer
<1>5. ShowsNoMarks(u, e)
  BY <1>1, <1>4 DEF ShowsNoMarks
<1>6. Explained(e, u, text)
  BY <1>1, <1>2, <1>4, ExplainedMeans
<1>7. <<>> \notin e.stops
  BY <1>1 DEF Talks
<1>8. Rightly(e, u, text) /\ Flushed(e, u, text)
  BY <1>1, <1>2, <1>4, <1>5, <1>6, <1>7 DEF Rightly, Flushed
<1> QED BY <1>1, <1>8 DEF e, u, z, Before

LEMMA OpensHere ==
  ASSUME NEW d \in Decoders, NEW s0 \in Seq(Events), NEW out \in Seq(Events), NEW text \in Texts,
         Talks(d, Heard(s0, out), text), Find(d.pending, TOOL_CALL_START) > 0,
         CleanTo(d, Find(d.pending, TOOL_CALL_START) - 1)
  PROVE  LET k == Find(d.pending, TOOL_CALL_START)
             e == [d EXCEPT !.pending = <<>>, !.in_tool_call = TRUE,
                            !.tool_buffer = After(d.pending, k, TOOL_CALL_START)]
             u == Heard(s0, Emitted(out, TextDelta(Before(d.pending, k))))
         IN e.stops = d.stops /\ ~e.stopped /\ Rightly(e, u, text) /\ Turns(e) < Turns(d)
<1> DEFINE p == d.pending
           k == Find(p, TOOL_CALL_START)
           b == After(p, k, TOOL_CALL_START)
           e == [d EXCEPT !.pending = <<>>, !.in_tool_call = TRUE, !.tool_buffer = b]
           s == Heard(s0, out)
           z == SubSeq(p, 1, k - 1)
           u == Heard(s0, Emitted(out, TextDelta(z)))
           answer == AnswerIn(text)
           f == LastText(s)
<1>1. /\ p \in Texts /\ IsMark(TOOL_CALL_START) /\ Len(TOOL_CALL_START) = 2 /\ Len(p) \in Nat
      /\ s \in Seq(Events)
  BY DecoderFields, Delimiters, EmptyText, HeardSoFar
<1>2. /\ k \in Nat \ {0} /\ k + 2 <= Len(p) + 1 /\ b \in Texts /\ Len(b) = Len(p) - (k + 2 - 1)
  <2>1. p \in Seq(Symbols)
    BY <1>1, TextsAreSequences
  <2>2. /\ Find(p, TOOL_CALL_START) \in Nat \ {0}
        /\ Find(p, TOOL_CALL_START) + Len(TOOL_CALL_START) <= Len(p) + 1
        /\ After(p, Find(p, TOOL_CALL_START), TOOL_CALL_START) \in Seq(Symbols)
        /\ Len(After(p, Find(p, TOOL_CALL_START), TOOL_CALL_START))
             = Len(p) - (Find(p, TOOL_CALL_START) + Len(TOOL_CALL_START) - 1)
    BY <1>1, <2>1, FoundWithin
  <2> QED BY <1>1, <2>2, TextsAreSequences
<1>3. answer \in Texts /\ answer # <<>>
  BY TalksAbout
<1>4. /\ ~d.stopped /\ ~d.thinking /\ ~d.in_tool_call /\ ~d.trimming /\ <<>> \notin d.stops
      /\ ShowsNoMarks(s, d) /\ Find(text, THINK_END) > 0 /\ Speaks(d, s, answer)
  BY DEF Talks
<1> HIDE DEF answer, b
<1>5. /\ u \in Seq(Events) /\ TextOf(u) = TextOf(s) \o z /\ CallsOf(u) = CallsOf(s)
      /\ LastText(u) = f \o z /\ ShowsNoMarks(u, d)
  <2> DEFINE a == k - 1
  <2>1. a \in 0..Len(d.pending) /\ CleanTo(d, a)
    <3>1. k - 1 \in 0..Len(p)
      <4> HIDE DEF k, p
      <4> QED BY <1>1, <1>2
    <3> QED BY <3>1
  <2> HIDE DEF a
  <2>2. LET zz == SubSeq(d.pending, 1, a)
            uu == Heard(s0, Emitted(out, TextDelta(zz)))
        IN /\ uu \in Seq(Events) /\ TextOf(uu) = TextOf(s) \o zz /\ CallsOf(uu) = CallsOf(s)
           /\ LastText(uu) = LastText(s) \o zz /\ ShowsNoMarks(uu, d)
    BY <1>3, <1>4, <2>1, VisibleShown
  <2> QED BY <2>2 DEF a
<1>6. f \in Texts /\ Len(f) \in Nat /\ TextOf(s) \in Texts
  <2> HIDE DEF s
  <2> QED BY <1>1, EventPlaces, SaidIsTyped, EmptyText
<1>7. /\ d.tool_buffer = <<>> /\ (\A mark \in Marks(d) : Passed(f, p, mark))
      /\ \E n \in 0..Len(answer) : LET x == Parsing(answer)[n] IN
              /\ x \in Parsers /\ x.going /\ x.calls = CallsOf(s)
              /\ x.text \o f = TextOf(s) /\ x.rest = f \o p
  <2> HIDE DEF s
  <2> QED BY <1>1, <1>3, <1>4, NoOpenCall
<1>8. PICK n \in 0..Len(answer) : LET x == Parsing(answer)[n] IN
              /\ x \in Parsers /\ x.going /\ x.calls = CallsOf(s)
              /\ x.text \o f = TextOf(s) /\ x.rest = f \o p
  BY <1>7
<1> DEFINE x == Parsing(answer)[n]
<1>9. x \in Parsers /\ x.going /\ x.calls = CallsOf(s) /\ x.text \o f = TextOf(s) /\ x.rest = f \o p
  BY <1>8
<1>10. /\ e \in Decoders /\ e.pending = <<>> /\ e.in_tool_call /\ e.tool_buffer = b
       /\ e.stops = d.stops /\ ~e.stopped /\ ~e.thinking /\ ~e.trimming
  <2>1. e \in Decoders
    BY Zenon, <1>2, EmptyText, DecoderWith
  <2> QED BY <1>4, <2>1 DEF Decoders
<1> HIDE DEF e, u, x
<1>11. z \in Texts /\ Len(z) = k - 1
  <2> DEFINE a == k - 1
  <2>1. a \in 0..Len(p)
    <3> HIDE DEF k, p
    <3> QED BY <1>1, <1>2
  <2> HIDE DEF a, p
  <2>2. SubSeq(p, 1, a) \in Texts /\ Len(SubSeq(p, 1, a)) = a
    BY <1>1, <2>1, TextParts
  <2> QED BY <2>2 DEF a
<1>12. CallStart(x) = Len(f) + k
  <2>1. Passed(f, p, TOOL_CALL_START) /\ f \in Seq(Symbols) /\ p \in Seq(Symbols)
    BY <1>1, <1>6, <1>7, TextsAreSequences DEF Marks
  <2>2. Find(f \o p, TOOL_CALL_START) = IF Find(p, TOOL_CALL_START) = 0 THEN 0
                                        ELSE Len(f) + Find(p, TOOL_CALL_START)
    <3> HIDE DEF f, p, k
    <3> QED BY ONLY <1>1, <2>1, FindShifts
  <2> QED BY <1>2, <1>9, <2>2 DEF CallStart
<1> HIDE DEF k
<1>13. Before(x.rest, CallStart(x)) = f \o z /\ Behind(x) = b
  <2>1. /\ k + Len(TOOL_CALL_START) <= Len(p) + 1 /\ k \in Nat \ {0}
        /\ f \in Seq(Symbols) /\ p \in Seq(Symbols)
    BY <1>1, <1>2, <1>6, TextsAreSequences
  <2>2. /\ Before(f \o p, Len(f) + k) = f \o Before(p, k)
        /\ After(f \o p, Len(f) + k, TOOL_CALL_START) = After(p, k, TOOL_CALL_START)
    <3>1. IsMark(TOOL_CALL_START) /\ Len(f) \in Nat /\ Len(p) \in Nat /\ Len(TOOL_CALL_START) \in Nat
      BY <1>1, <1>6
    <3> HIDE DEF f, p
    <3> QED BY ONLY <2>1, <3>1, AroundMarkShifts
  <2>3. Before(p, k) = z
    BY DEF Before
  <2> HIDE DEF f, p, z
  <2> QED BY <1>9, <1>12, <2>2, <2>3 DEF Behind, b
<1>14. Len(f \o z) + 1 = CallStart(x)
  <2>1. Len(f \o z) = Len(f) + Len(z)
    <3> HIDE DEF f, z
    <3> QED BY <1>6, <1>11, TextsAreSequences, CatFacts
  <2> QED BY <1>2, <1>6, <1>11, <1>12, <2>1
<1> HIDE DEF z, f, s
<1>15. x.text \o (f \o z) = TextOf(u)
  <2>1. x.text \in Texts
    BY <1>9 DEF Parsers
  <2>2. (x.text \o f) \o z = x.text \o (f \o z)
    BY ONLY <1>6, <1>11, <2>1, TextsRegroup
  <2> QED BY <1>5, <1>9, <2>2
<1>16. Speaks(e, u, answer)
  <2>1. b = e.tool_buffer \o e.pending
    BY <1>2, <1>10, NothingAdded
  <2>2. /\ x.going /\ x.calls = CallsOf(u) /\ x.text \o LastText(u) = TextOf(u)
        /\ CallStart(x) = Len(LastText(u)) + 1 /\ Before(x.rest, CallStart(x)) = LastText(u)
        /\ Behind(x) = e.tool_buffer \o e.pending
    BY <1>5, <1>9, <1>13, <1>14, <1>15, <2>1
  <2> QED BY <1>3, <1>10, <2>2, OpensCall DEF x
<1>17. Rightly(e, u, text)
  <2>1. ShowsNoMarks(u, e)
    BY <1>5, <1>10 DEF ShowsNoMarks
  <2>2. Explained(e, u, text)
    BY <1>4, <1>10, <1>16, ExplainedMeans DEF answer
  <2> QED BY <1>4, <1>10, <2>1, <2>2 DEF Rightly
<1>18. Turns(e) < Turns(d)
  <2>1. Turns(e) = Len(b) + Len(<<>>) + 1 /\ Turns(d) = Len(<<>>) + Len(p) + 1
    BY <1>7, <1>10 DEF Turns
  <2> DEFINE i == Len(b)
             j == Len(p)
  <2>2. Len(<<>>) = 0 /\ i \in Nat /\ j \in Nat /\ i < j
    <3> HIDE DEF p
    <3> QED BY <1>1, <1>2, EmptyText
  <2>3. Turns(e) = i + 0 + 1 /\ Turns(d) = 0 + j + 1
    BY <2>1, <2>2
  <2> HIDE DEF i, j
  <2> QED BY ONLY <2>2, <2>3
<1> QED BY <1>10, <1>17, <1>18 DEF e, u, z, b, k, p, Before

LEMMA TalksOn ==
  ASSUME NEW d \in Decoders, NEW s0 \in Seq(Events), NEW out \in Seq(Events), NEW text \in Texts,
         Talks(d, Heard(s0, out), text), \A mark \in Marks(d) : Find(d.pending, mark) = 0
  PROVE  LET p == d.pending
             h == Len(p) - HeldBack(p, Marks(d))
             e == [d EXCEPT !.pending = SubSeq(p, h + 1, Len(p))]
             u == Heard(s0, Emitted(out, TextDelta(SubSeq(p, 1, h))))
         IN e.stops = d.stops /\ Rightly(e, u, text)
<1> DEFINE p == d.pending
           h == Len(p) - HeldBack(p, Marks(d))
           c == SubSeq(p, h + 1, Len(p))
           e == [d EXCEPT !.pending = c]
           s == Heard(s0, out)
           z == SubSeq(p, 1, h)
           u == Heard(s0, Emitted(out, TextDelta(z)))
           answer == AnswerIn(text)
           f == LastText(s)
<1>1. p \in Texts /\ Len(p) \in Nat /\ s \in Seq(Events)
  BY DecoderFields, EmptyText, HeardSoFar
<1>2. h \in 0..Len(p)
  <2>1. HeldBack(p, Marks(d)) \in 0..Len(p)
    BY <1>1, TextsAreSequences, HeldIsRange
  <2> QED BY <1>1, <2>1
<1>3. answer \in Texts /\ answer # <<>>
  BY TalksAbout
<1>4. /\ ~d.stopped /\ ~d.thinking /\ ~d.in_tool_call /\ ~d.trimming /\ <<>> \notin d.stops
      /\ ShowsNoMarks(s, d) /\ Find(text, THINK_END) > 0 /\ Speaks(d, s, answer)
  BY DEF Talks
<1>5. CleanTo(d, h)
  BY DEF CleanTo
<1> HIDE DEF answer
<1>6. /\ u \in Seq(Events) /\ TextOf(u) = TextOf(s) \o z /\ CallsOf(u) = CallsOf(s)
      /\ LastText(u) = f \o z /\ ShowsNoMarks(u, d)
  <2> HIDE DEF h
  <2>1. LET zz == SubSeq(d.pending, 1, h)
            uu == Heard(s0, Emitted(out, TextDelta(zz)))
        IN /\ uu \in Seq(Events) /\ TextOf(uu) = TextOf(s) \o zz /\ CallsOf(uu) = CallsOf(s)
           /\ LastText(uu) = LastText(s) \o zz /\ ShowsNoMarks(uu, d)
    BY <1>2, <1>3, <1>4, <1>5, VisibleShown
  <2> QED BY <2>1
<1>7. f \in Texts /\ TextOf(s) \in Texts
  <2> HIDE DEF s
  <2> QED BY <1>1, EventPlaces, SaidIsTyped
<1>8. p = z \o c /\ z \in Texts /\ c \in Texts
  <2> HIDE DEF h, p
  <2> QED BY <1>1, <1>2, TextParts
<1>9. /\ d.tool_buffer = <<>> /\ (\A mark \in Marks(d) : Passed(f, p, mark))
      /\ \E n \in 0..Len(answer) : LET x == Parsing(answer)[n] IN
              /\ x \in Parsers /\ x.going /\ x.calls = CallsOf(s)
              /\ x.text \o f = TextOf(s) /\ x.rest = f \o p
  <2> HIDE DEF s
  <2> QED BY <1>1, <1>3, <1>4, NoOpenCall
<1>10. PICK n \in 0..Len(answer) : LET x == Parsing(answer)[n] IN
              /\ x \in Parsers /\ x.going /\ x.calls = CallsOf(s)
              /\ x.text \o f = TextOf(s) /\ x.rest = f \o p
  BY <1>9
<1> DEFINE x == Parsing(answer)[n]
<1>11. x \in Parsers /\ x.going /\ x.calls = CallsOf(s) /\ x.text \o f = TextOf(s) /\ x.rest = f \o p
  BY <1>10
<1>12. ASSUME NEW mark \in Marks(d) PROVE Passed(f \o z, c, mark)
  <2>1. IsMark(mark) /\ Passed(f, p, mark) /\ Find(p, mark) = 0
    BY <1>4, <1>9, StopsAreMarks DEF Marks
  <2>2. f \in Seq(Symbols) /\ p \in Seq(Symbols)
    BY <1>1, <1>7, TextsAreSequences
  <2> DEFINE g == Len(p) - HeldBack(p, Marks(d))
  <2>3. Passed(f \o SubSeq(p, 1, g), SubSeq(p, g + 1, Len(p)), mark)
    <3> HIDE DEF f, p
    <3> QED BY ONLY <2>1, <2>2, mark \in Marks(d), ReleasedHasPassed
  <2> QED BY <2>3
<1> HIDE DEF c, z, x, f, s, u
<1>13. /\ e \in Decoders /\ e.pending = c /\ ~e.in_tool_call /\ e.tool_buffer = <<>>
       /\ e.stops = d.stops /\ ~e.stopped /\ ~e.thinking /\ ~e.trimming
  <2>1. e \in Decoders
    BY Zenon, <1>8, DecoderWith
  <2> QED BY Zenon, <1>4, <1>9, <2>1 DEF Decoders
<1> HIDE DEF e
<1>14. x.text \o (f \o z) = TextOf(u) /\ x.rest = (f \o z) \o c
  <2>1. x.text \in Texts
    BY <1>11 DEF Parsers
  <2>2. (x.text \o f) \o z = x.text \o (f \o z)
    BY ONLY <1>7, <1>8, <2>1, TextsRegroup
  <2>3. (f \o z) \o c = f \o (z \o c)
    BY ONLY <1>7, <1>8, TextsRegroup
  <2> QED BY <1>6, <1>8, <1>11, <2>2, <2>3
<1>15. Speaks(e, u, answer)
  <2>1. /\ x.going /\ x.calls = CallsOf(u) /\ x.text \o LastText(u) = TextOf(u)
        /\ x.rest = LastText(u) \o e.pending
    BY <1>6, <1>11, <1>13, <1>14
  <2>2. \A mark \in {TOOL_CALL_START} \union e.stops : Passed(LastText(u), e.pending, mark)
    BY <1>6, <1>12, <1>13 DEF Marks
  <2> QED BY <1>3, <1>13, <2>1, <2>2, SpeaksOn DEF x
<1>16. Rightly(e, u, text)
  <2>1. ShowsNoMarks(u, e)
    BY <1>6, <1>13 DEF ShowsNoMarks
  <2>2. Explained(e, u, text)
    BY <1>4, <1>13, <1>15, ExplainedMeans DEF answer
  <2> QED BY <1>4, <1>13, <2>1, <2>2 DEF Rightly
<1> QED BY <1>13, <1>16 DEF e, c, u, z

LEMMA TalksOut ==
  ASSUME NEW d \in Decoders, NEW s0 \in Seq(Events), NEW out \in Seq(Events), NEW text \in Texts,
         Talks(d, Heard(s0, out), text), \A mark \in Marks(d) : Find(d.pending, mark) = 0
  PROVE  LET e == [d EXCEPT !.pending = <<>>]
             u == Heard(s0, Emitted(out, TextDelta(d.pending)))
         IN e.stops = d.stops /\ Flushed(e, u, text)
<1> DEFINE p == d.pending
           e == [d EXCEPT !.pending = <<>>]
           s == Heard(s0, out)
           u == Heard(s0, Emitted(out, TextDelta(p)))
           answer == AnswerIn(text)
           f == LastText(s)
<1>1. p \in Texts /\ Len(p) \in Nat /\ s \in Seq(Events)
  BY DecoderFields, EmptyText, HeardSoFar
<1>2. answer \in Texts /\ answer # <<>> /\ FromQwenContinuation(text) = FromModelText(answer)
      /\ FromQwenContinuation(text) \in Parsers
  BY TalksAbout
<1>3. ~d.in_tool_call /\ <<>> \notin d.stops /\ ShowsNoMarks(s, d) /\ Speaks(d, s, answer)
  BY DEF Talks
<1> HIDE DEF answer
<1>4. /\ u \in Seq(Events) /\ TextOf(u) = TextOf(s) \o p /\ CallsOf(u) = CallsOf(s)
      /\ ShowsNoMarks(u, d)
  <2> DEFINE h == Len(d.pending)
  <2>1. h \in 0..Len(d.pending) /\ CleanTo(d, h)
    BY <1>1 DEF CleanTo
  <2> HIDE DEF h
  <2>2. LET zz == SubSeq(d.pending, 1, h)
            uu == Heard(s0, Emitted(out, TextDelta(zz)))
        IN /\ uu \in Seq(Events) /\ TextOf(uu) = TextOf(s) \o zz /\ CallsOf(uu) = CallsOf(s)
           /\ LastText(uu) = LastText(s) \o zz /\ ShowsNoMarks(uu, d)
    BY <1>2, <1>3, <2>1, VisibleShown
  <2>3. SubSeq(p, 1, h) = p
    BY <1>1, TextsAreSequences, SubSeqFull DEF h
  <2> QED BY <2>2, <2>3
<1>5. f \in Texts /\ TextOf(s) \in Texts
  <2> HIDE DEF s
  <2> QED BY <1>1, EventPlaces, SaidIsTyped
<1>6. /\ (\A mark \in Marks(d) : Passed(f, p, mark))
      /\ \E n \in 0..Len(answer) : LET x == Parsing(answer)[n] IN
              /\ x \in Parsers /\ x.going /\ x.calls = CallsOf(s)
              /\ x.text \o f = TextOf(s) /\ x.rest = f \o p
  <2> HIDE DEF s
  <2> QED BY <1>1, <1>2, <1>3, NoOpenCall
<1>7. PICK n \in 0..Len(answer) : LET x == Parsing(answer)[n] IN
              /\ x \in Parsers /\ x.going /\ x.calls = CallsOf(s)
              /\ x.text \o f = TextOf(s) /\ x.rest = f \o p
  BY <1>6
<1> DEFINE x == Parsing(answer)[n]
<1>8. x \in Parsers /\ x.going /\ x.calls = CallsOf(s) /\ x.text \o f = TextOf(s) /\ x.rest = f \o p
  BY <1>7
<1>9. FromModelText(answer).text = x.text \o x.rest /\ FromModelText(answer).calls = x.calls
  <2>1. n \in 0..(Len(answer) + 1)
    BY <1>2, EmptyText
  <2>2. CallStart(x) = 0
    <3>1. /\ Passed(f, p, TOOL_CALL_START) /\ f \in Seq(Symbols) /\ p \in Seq(Symbols)
          /\ Find(p, TOOL_CALL_START) = 0 /\ IsMark(TOOL_CALL_START)
      BY <1>1, <1>5, <1>6, TextsAreSequences, Delimiters DEF Marks
    <3>2. Find(f \o p, TOOL_CALL_START) = IF Find(p, TOOL_CALL_START) = 0 THEN 0
                                          ELSE Len(f) + Find(p, TOOL_CALL_START)
      <4> HIDE DEF f, p
      <4> QED BY ONLY <3>1, FindShifts
    <3> HIDE DEF f, p, x
    <3> QED BY ONLY <1>8, <3>1, <3>2 DEF CallStart
  <2> QED BY <1>2, <1>8, <2>1, <2>2, RestIsParsed
<1> HIDE DEF x, f, s, u
<1>10. x.text \o (f \o p) = TextOf(u)
  <2>1. x.text \in Texts
    BY <1>8 DEF Parsers
  <2>2. (x.text \o f) \o p = x.text \o (f \o p)
    BY ONLY <1>1, <1>5, <2>1, TextsRegroup
  <2> QED BY <1>4, <1>8, <2>2
<1>11. FromModelText(answer).text = TextOf(u) /\ FromModelText(answer).calls = CallsOf(u)
  BY <1>4, <1>8, <1>9, <1>10
<1>12. IsPrefix(TextOf(u), TextOf(u))
  BY <1>4, SaidIsTyped, PrefixOfNothing
<1>13. e.stops = d.stops
  BY DEF Decoders
<1> HIDE DEF e
<1>14. ShowsNoMarks(u, e)
  BY <1>4, <1>13 DEF ShowsNoMarks
<1>15. Flushed(e, u, text)
  BY <1>2, <1>11, <1>12, <1>14 DEF Flushed
<1> QED BY <1>13, <1>15 DEF e, u, p

(* So every turn outside of a call is right.                               *)
LEMMA VisibleTurn ==
  ASSUME NEW d \in Decoders, NEW s0 \in Seq(Events), NEW out \in Seq(Events), NEW text \in Texts,
         NEW final \in BOOLEAN, Talks(d, Heard(s0, out), text)
  PROVE  LET y == DrainVisible(d, out, final)
         IN TurnedRight(d, y, Heard(s0, y.out), final, text)
<1> DEFINE p == d.pending
           stop == FirstStop(d)
           tool == Find(p, TOOL_CALL_START)
           t == TakePrefix(d, Marks(d), final)
           d1 == [d EXCEPT !.pending = <<>>, !.stopped = TRUE]
           d2 == [d EXCEPT !.pending = <<>>, !.in_tool_call = TRUE, !.tool_buffer = After(p, tool, TOOL_CALL_START)]
           d3 == [d EXCEPT !.pending = t.kept]
           o1 == Emitted(out, TextDelta(Before(p, stop)))
           o2 == Emitted(out, TextDelta(Before(p, tool)))
           o3 == Emitted(out, TextDelta(t.shown))
           first == stop > 0 /\ (tool = 0 \/ stop < tool)
           second == tool > 0 /\ (stop = 0 \/ tool <= stop)
           y == DrainVisible(d, out, final)
<1>1. p \in Texts /\ Len(p) \in Nat /\ <<>> \notin d.stops
  BY DecoderFields, EmptyText DEF Talks
<1>2. tool \in Nat
  BY <1>1, Delimiters, TextsAreSequences, FindSays
<1>3. /\ stop \in Nat
      /\ stop = 0 => \A m \in d.stops : Find(p, m) = 0
      /\ stop > 0 => stop <= Len(p) /\ \A m \in d.stops : Find(p, m) = 0 \/ Find(p, m) >= stop
  BY <1>1, FirstStopSays
<1>4. y = (CASE first -> Ended(d1, o1)
             [] second -> GoingOn(d2, o2)
             [] OTHER -> Ended(d3, o3))
  BY DEF DrainVisible, Marks
<1> HIDE DEF y, stop
<1>5. ASSUME NEW m \in d.stops PROVE Find(p, m) \in Nat
  <2>1. IsMark(m)
    BY <1>1, StopsAreMarks
  <2> QED BY <1>1, <2>1, TextsAreSequences, FindSays
<1>6. CASE first
  <2>1. stop \in 1..Len(p) /\ CleanTo(d, stop - 1)
    <3>1. stop \in 1..Len(p)
      BY <1>1, <1>3, <1>6
    <3>2. \A m \in d.stops : Find(p, m) = 0 \/ Find(p, m) > stop - 1
      BY <1>3, <1>5, <1>6
    <3>3. tool = 0 \/ tool > stop - 1
      <4> HIDE DEF tool
      <4> QED BY <1>2, <1>3, <1>6
    <3> QED BY <3>1, <3>2, <3>3 DEF CleanTo, Marks
  <2> DEFINE u == Heard(s0, o1)
  <2>2. d1.stops = d.stops /\ Rightly(d1, u, text) /\ Flushed(d1, u, text)
    BY Zenon, <2>1, StopsHere
  <2>3. ~(first /\ second)
    <3> HIDE DEF tool
    <3> QED BY <1>2, <1>3
  <2> HIDE DEF first, second, d1, o1, u
  <2>4. y = Ended(d1, o1)
    BY ONLY <1>4, <1>6, <2>3
  <2>5. y.dec = d1 /\ y.out = o1 /\ ~y.going /\ ~y.failed
    BY <2>4 DEF Ended
  <2>6. TurnedRight(d, y, u, final, text)
    BY <2>2, <2>5 DEF TurnedRight
  <2> QED BY <2>5, <2>6 DEF u, y
<1>7. CASE second
  <2>1. CleanTo(d, tool - 1)
    <3>1. \A m \in d.stops : Find(p, m) = 0 \/ Find(p, m) > tool - 1
      <4> HIDE DEF tool
      <4> QED BY <1>2, <1>3, <1>5, <1>7
    <3>2. tool = 0 \/ tool > tool - 1
      <4> HIDE DEF tool
      <4> QED BY <1>2
    <3> QED BY <3>1, <3>2 DEF CleanTo, Marks
  <2> DEFINE u == Heard(s0, o2)
  <2>2. d2.stops = d.stops /\ ~d2.stopped /\ Rightly(d2, u, text) /\ Turns(d2) < Turns(d)
    BY Zenon, <1>7, <2>1, OpensHere
  <2>3. ~(first /\ second)
    <3> HIDE DEF tool
    <3> QED BY <1>2, <1>3
  <2> HIDE DEF first, second, d2, o2, u
  <2>4. y = GoingOn(d2, o2)
    BY ONLY <1>4, <1>7, <2>3
  <2>5. y.dec = d2 /\ y.out = o2 /\ y.going
    BY <2>4 DEF GoingOn
  <2>6. TurnedRight(d, y, u, final, text)
    BY <2>2, <2>5 DEF TurnedRight
  <2> QED BY <2>5, <2>6 DEF u, y
<1>8. CASE ~first /\ ~second
  <2>1. stop = 0 /\ tool = 0
    <3> HIDE DEF tool
    <3> QED BY <1>2, <1>3, <1>8
  <2>2. \A m \in Marks(d) : Find(d.pending, m) = 0
    BY <1>3, <2>1 DEF Marks
  <2> DEFINE h == Len(p) - HeldBack(p, Marks(d))
             u == Heard(s0, o3)
  <2>3. /\ ~final => t.shown = SubSeq(p, 1, h) /\ t.kept = SubSeq(p, h + 1, Len(p))
        /\ final => t.shown = p /\ t.kept = <<>>
    BY TakenPrefix
  <2>4. d3.stops = d.stops /\ IF final THEN Flushed(d3, u, text) ELSE Rightly(d3, u, text)
    <3>1. CASE final
      <4>1. /\ [d EXCEPT !.pending = <<>>].stops = d.stops
            /\ Flushed([d EXCEPT !.pending = <<>>], Heard(s0, Emitted(out, TextDelta(p))), text)
        BY <2>2, TalksOut
      <4>2. t.shown = p /\ t.kept = <<>>
        BY <2>3, <3>1
      <4> HIDE DEF t
      <4> QED BY <3>1, <4>1, <4>2
    <3>2. CASE ~final
      <4> DEFINE c == SubSeq(p, h + 1, Len(p))
      <4>1. /\ [d EXCEPT !.pending = c].stops = d.stops
            /\ Rightly([d EXCEPT !.pending = c], Heard(s0, Emitted(out, TextDelta(SubSeq(p, 1, h)))), text)
        BY <2>2, TalksOn
      <4>2. t.shown = SubSeq(p, 1, h) /\ t.kept = c
        BY <2>3, <3>2
      <4> HIDE DEF t, c, h
      <4> QED BY <3>2, <4>1, <4>2
    <3> QED BY <3>1, <3>2
  <2> HIDE DEF first, second, d3, o3, u
  <2>5. y = Ended(d3, o3)
    BY ONLY <1>4, <1>8
  <2>6. y.dec = d3 /\ y.out = o3 /\ ~y.going /\ ~y.failed
    BY <2>5 DEF Ended
  <2>7. TurnedRight(d, y, u, final, text)
    BY <2>4, <2>6 DEF TurnedRight
  <2> QED BY <2>6, <2>7 DEF u, y
<1> QED BY <1>6, <1>7, <1>8

(* The model wrote nothing behind its reasoning but newlines.              *)
LEMMA SilentEnd ==
  ASSUME NEW d \in Decoders, NEW s0 \in Seq(Events), NEW out \in Seq(Events), NEW text \in Texts,
         <<>> \notin d.stops, ShowsNoMarks(Heard(s0, out), d), Silent(Heard(s0, out)), d.pending = <<>>,
         FromQwenContinuation(text).text = <<>>, FromQwenContinuation(text).calls = <<>>
  PROVE  LET y == DrainVisible(d, out, TRUE)
         IN /\ y.dec.stops = d.stops /\ ~y.going /\ ~y.failed
            /\ Flushed(y.dec, Heard(s0, y.out), text)
<1> DEFINE stop == FirstStop(d)
           tool == Find(d.pending, TOOL_CALL_START)
           t == TakePrefix(d, Marks(d), TRUE)
           d1 == [d EXCEPT !.pending = <<>>, !.stopped = TRUE]
           d2 == [d EXCEPT !.pending = <<>>, !.in_tool_call = TRUE, !.tool_buffer = After(d.pending, tool, TOOL_CALL_START)]
           d3 == [d EXCEPT !.pending = t.kept]
           o1 == Emitted(out, TextDelta(Before(d.pending, stop)))
           o2 == Emitted(out, TextDelta(Before(d.pending, tool)))
           o3 == Emitted(out, TextDelta(t.shown))
           first == stop > 0 /\ (tool = 0 \/ stop < tool)
           second == tool > 0 /\ (stop = 0 \/ tool <= stop)
           y == DrainVisible(d, out, TRUE)
           s == Heard(s0, out)
<1>1. tool = 0
  BY Delimiters, NothingFound
<1>2. stop = 0
  <2>1. stop \in Nat /\ (stop > 0 => stop <= Len(d.pending))
    BY FirstStopSays
  <2>2. Len(d.pending) = 0
    OBVIOUS
  <2> HIDE DEF stop
  <2> QED BY <2>1, <2>2
<1>3. y = (CASE first -> Ended(d1, o1)
             [] second -> GoingOn(d2, o2)
             [] OTHER -> Ended(d3, o3))
  BY DEF DrainVisible, Marks
<1>4. ~first /\ ~second
  BY <1>1, <1>2
<1>5. t.shown = <<>> /\ t.kept = <<>>
  <2>1. TRUE \in BOOLEAN
    OBVIOUS
  <2>2. t.shown = d.pending /\ t.kept = <<>>
    BY <2>1, TakenPrefix
  <2> QED BY <2>2
<1>6. o3 = out
  BY <1>5 DEF Emitted, TextDelta
<1>7. d3.stops = d.stops
  BY DEF Decoders
<1> HIDE DEF y, first, second, d3, o3, s
<1>8. y = Ended(d3, o3)
  BY ONLY <1>3, <1>4
<1>9. y.dec = d3 /\ y.out = out /\ ~y.going /\ ~y.failed
  BY <1>6, <1>8 DEF Ended
<1>10. Flushed(d3, s, text)
  <2>1. ShowsNoMarks(s, d3)
    BY <1>7 DEF ShowsNoMarks, s
  <2>2. TextOf(s) = <<>> /\ CallsOf(s) = <<>>
    BY DEF Silent, s
  <2>3. IsPrefix(<<>>, <<>>)
    BY EmptyText, PrefixOfNothing
  <2> QED BY <2>1, <2>2, <2>3 DEF Flushed
<1> QED BY <1>7, <1>9, <1>10 DEF y, s

(* Every turn is right (stream_decoder.rs: drain).                         *)

(* Newlines behind the reasoning are dropped, and the first other symbol   *)
(* starts the answer.                                                      *)
LEMMA TrimmingTurn ==
  ASSUME NEW d \in Decoders, NEW s0 \in Seq(Events), NEW out \in Seq(Events), NEW text \in Texts,
         NEW final \in BOOLEAN, ~d.stopped, ~d.thinking, ~d.in_tool_call, d.trimming,
         Rightly(d, Heard(s0, out), text)
  PROVE  LET t == Trimmed(d)
             y == IF t.trimming /\ ~final THEN Ended(t, out) ELSE DrainVisible(t, out, final)
         IN TurnedRight(d, y, Heard(s0, y.out), final, text)
<1> DEFINE s == Heard(s0, out)
           answer == AnswerIn(text)
           b == answer = <<>>
           t == Trimmed(d)
           y == IF t.trimming /\ ~final THEN Ended(t, out) ELSE DrainVisible(t, out, final)
<1>1. /\ ShowsNoMarks(s, d) /\ <<>> \notin d.stops /\ Find(text, THINK_END) > 0 /\ Trims(d, s, answer)
  BY ExplainedMeans DEF Rightly
<1>2. Silent(s) /\ d.tool_buffer = <<>> /\ answer = TrimNewlines(d.pending)
  BY <1>1 DEF Trims
<1>3. answer \in Texts /\ FromQwenContinuation(text) = FromModelText(answer) /\ Len(answer) <= Len(d.pending)
  <2>1. answer \in Texts /\ FromQwenContinuation(text) = FromModelText(answer)
    BY <1>1, WholeAnswer
  <2>2. d.pending \in Texts
    BY DecoderFields
  <2> HIDE DEF answer
  <2> QED BY <1>2, <2>1, <2>2, TrimmedNothing
<1>4. t = [d EXCEPT !.pending = answer, !.trimming = b]
  <2> HIDE DEF answer
  <2> QED BY <1>2 DEF Trimmed
<1> HIDE DEF answer, t
<1>5. /\ t \in Decoders /\ t.pending = answer /\ t.trimming = b /\ t.stops = d.stops /\ ~t.stopped
      /\ ~t.thinking /\ ~t.in_tool_call /\ t.tool_buffer = <<>>
  <2>1. b \in BOOLEAN
    OBVIOUS
  <2> HIDE DEF b
  <2>2. t \in Decoders
    BY Zenon, <1>3, <1>4, <2>1, DecoderWith
  <2> QED BY <1>2, <1>4, <2>1, <2>2 DEF Decoders
<1>6. ShowsNoMarks(s, t)
  BY <1>1, <1>5 DEF ShowsNoMarks
<1>7. s \in Seq(Events)
  BY HeardSoFar
<1>8. CASE b /\ ~final
  <2>1. y = Ended(t, out)
    BY <1>5, <1>8
  <2>2. y.dec = t /\ y.out = out /\ ~y.going /\ ~y.failed
    BY <2>1 DEF Ended
  <2>3. Trims(t, s, answer)
    BY <1>2, <1>5, <1>8, TrimmedNothing DEF Trims
  <2>4. Explained(t, s, text)
    BY <1>1, <1>5, <1>8, <2>3, ExplainedMeans DEF answer
  <2>5. Rightly(t, s, text)
    BY <1>1, <1>5, <1>6, <2>4 DEF Rightly
  <2> HIDE DEF y, s
  <2>6. TurnedRight(d, y, s, final, text)
    BY <1>5, <1>8, <2>2, <2>5 DEF TurnedRight
  <2> QED BY <2>2, <2>6 DEF y, s, t
<1>9. CASE b /\ final
  <2> DEFINE z == DrainVisible(t, out, TRUE)
  <2>1. y = z
    BY <1>9
  <2>2. FromQwenContinuation(text).text = <<>> /\ FromQwenContinuation(text).calls = <<>>
    BY <1>3, <1>9, NothingParsed
  <2>3. /\ z.dec.stops = t.stops /\ ~z.going /\ ~z.failed
        /\ Flushed(z.dec, Heard(s0, z.out), text)
    <3>1. <<>> \notin t.stops /\ t.pending = <<>>
      BY <1>1, <1>5, <1>9
    <3> QED BY <1>2, <1>5, <1>6, <2>2, <3>1, SilentEnd
  <2> HIDE DEF z, y
  <2>4. TurnedRight(d, z, Heard(s0, z.out), final, text)
    BY <1>5, <1>9, <2>3 DEF TurnedRight
  <2> QED BY <2>1, <2>4 DEF y, t
<1>10. CASE ~b
  <2> DEFINE z == DrainVisible(t, out, final)
  <2>1. y = z
    BY <1>5, <1>10
  <2>2. Talks(t, s, text)
    <3>1. Len(answer) \in Nat /\ 0 \in 0..Len(answer)
      <4>1. Len(answer) \in Nat
        BY <1>3, EmptyText
      <4> QED BY <4>1
    <3>2. Parsing(answer)[0] = ParseStart(answer)
      BY <1>3, ParsingInSteps
    <3>3. /\ Parsing(answer)[0].going /\ Parsing(answer)[0].calls = <<>> /\ Parsing(answer)[0].text = <<>>
          /\ Parsing(answer)[0].rest = answer
      BY <3>2 DEF ParseStart
    <3>4. TextOf(s) = <<>> /\ CallsOf(s) = <<>> /\ LastText(s) = <<>>
      BY <1>2 DEF Silent
    <3>5. <<>> \o <<>> = <<>> /\ <<>> \o answer = answer
      BY <1>3, EmptyText, TextsAreSequences, ConcatEmptySeq
    <3>6. \A mark \in {TOOL_CALL_START} \union t.stops : Passed(LastText(s), t.pending, mark)
      BY <3>4, PassedNothing
    <3> HIDE DEF s
    <3>7. Speaks(t, s, answer)
      BY <1>3, <1>5, <1>10, <3>1, <3>3, <3>4, <3>5, <3>6, SpeaksOn
    <3> QED BY <1>1, <1>5, <1>6, <1>10, <3>7 DEF Talks, answer
  <2>3. TurnedRight(t, z, Heard(s0, z.out), final, text)
    <3>1. Talks(t, Heard(s0, out), text)
      BY <2>2
    <3> QED BY <1>5, <3>1, VisibleTurn
  <2>4. z \in Drains
    BY <1>5, VisibleIsDrained
  <2>5. Turns(t) <= Turns(d) /\ Turns(t) \in Nat /\ Turns(d) \in Nat /\ Turns(z.dec) \in Nat
    <3>1. Turns(t) \in Nat /\ Turns(d) \in Nat /\ Turns(z.dec) \in Nat
      <4>1. z.dec \in Decoders
        BY <2>4 DEF Drains
      <4> HIDE DEF z
      <4> QED BY <1>5, <4>1, TurnsAreCounted
    <3>2. Turns(t) = Len(<<>>) + Len(answer) + 1 /\ Turns(d) = Len(<<>>) + Len(d.pending) + 1
      BY <1>2, <1>5 DEF Turns
    <3>3. Len(<<>>) = 0 /\ Len(answer) \in Nat /\ Len(d.pending) \in Nat
      BY <1>3, DecoderFields, EmptyText
    <3> HIDE DEF z
    <3> QED BY <1>3, <3>1, <3>2, <3>3
  <2> HIDE DEF z, y
  <2>6. TurnedRight(d, z, Heard(s0, z.out), final, text)
    <3>1. z.dec.stops = d.stops
      BY <1>5, <2>3 DEF TurnedRight
    <3>2. z.going => ~z.dec.stopped /\ Rightly(z.dec, Heard(s0, z.out), text) /\ Turns(z.dec) < Turns(d)
      <4> SUFFICES ASSUME z.going
                   PROVE  ~z.dec.stopped /\ Rightly(z.dec, Heard(s0, z.out), text) /\ Turns(z.dec) < Turns(d)
        OBVIOUS
      <4>1. ~z.dec.stopped /\ Rightly(z.dec, Heard(s0, z.out), text) /\ Turns(z.dec) < Turns(t)
        BY <2>3 DEF TurnedRight
      <4> DEFINE i == Turns(z.dec)
                 j == Turns(t)
                 k == Turns(d)
      <4>2. i < j /\ j <= k /\ i \in Nat /\ j \in Nat /\ k \in Nat
        BY <2>5, <4>1
      <4> HIDE DEF i, j, k
      <4>3. i < k
        BY ONLY <4>2
      <4> QED BY <4>1, <4>3 DEF i, k
    <3> QED BY <2>3, <3>1, <3>2 DEF TurnedRight
  <2> QED BY <2>1, <2>6 DEF y, t
<1> QED BY <1>8, <1>9, <1>10

(* Whatever mode the decoder is in.                                        *)
LEMMA TurnIsRight ==
  ASSUME NEW d \in Decoders, NEW s0 \in Seq(Events), NEW out \in Seq(Events), NEW text \in Texts,
         NEW final \in BOOLEAN, ~d.stopped, Rightly(d, Heard(s0, out), text)
  PROVE  LET y == DrainOnce(d, out, final)
         IN TurnedRight(d, y, Heard(s0, y.out), final, text)
<1> DEFINE t == Trimmed(d)
           v == IF t.trimming /\ ~final THEN Ended(t, out) ELSE DrainVisible(t, out, final)
           B == ~d.stopped /\ d.thinking
           C == ~d.stopped /\ ~d.thinking /\ d.in_tool_call
           y == DrainOnce(d, out, final)
           a == Ended([d EXCEPT !.pending = <<>>], out)
<1>1. y = (CASE d.stopped -> a
             [] B -> DrainThinking(d, out, final)
             [] C -> DrainToolCall(d, out)
             [] OTHER -> v)
  BY DEF DrainOnce
<1> HIDE DEF v, a
<1>2. CASE d.thinking
  <2>1. y = DrainThinking(d, out, final)
    BY <1>1, <1>2
  <2> HIDE DEF y
  <2> QED BY <1>2, <2>1, ThinkingTurn DEF y
<1>3. CASE ~d.thinking /\ d.in_tool_call
  <2>1. y = DrainToolCall(d, out)
    BY <1>1, <1>3
  <2> HIDE DEF y
  <2> QED BY <1>3, <2>1, ToolTurn DEF y
<1>4. CASE ~d.thinking /\ ~d.in_tool_call
  <2>1. y = v
    BY <1>1, <1>4
  <2>2. TurnedRight(d, v, Heard(s0, v.out), final, text)
    <3>1. CASE d.trimming
      BY <1>4, <3>1, TrimmingTurn DEF v
    <3>2. CASE ~d.trimming
      <4>1. t = d
        BY <3>2 DEF Trimmed
      <4>2. v = DrainVisible(d, out, final)
        BY <3>2, <4>1 DEF v
      <4>3. Talks(d, Heard(s0, out), text)
        BY <1>4, <3>2, ExplainedMeans DEF Rightly, Talks
      <4> HIDE DEF t
      <4> QED BY <4>2, <4>3, VisibleTurn
    <3> QED BY <3>1, <3>2
  <2> HIDE DEF y
  <2> QED BY <2>1, <2>2 DEF y
<1> QED BY <1>2, <1>3, <1>4

-----------------------------------------------------------------------------
(* The decoder's loop, and what the stream is fed.                         *)

LEMMA TurnsArePositive ==
  ASSUME NEW d \in Decoders
  PROVE  Turns(d) \in Nat /\ Turns(d) > 0
<1> DEFINE m == Len(d.tool_buffer)
           n == Len(d.pending)
<1>1. m \in Nat /\ n \in Nat
  BY DecoderFields, EmptyText
<1>2. Turns(d) = m + n + 1
  BY DEF Turns
<1> HIDE DEF m, n
<1> QED BY ONLY <1>1, <1>2

(* What the loop has reached after k turns: it is right and has fewer      *)
(* turns left, or it has ended.                                            *)
Reached(d, s0, x, final, text, k) ==
  /\ x.dec.stops = d.stops
  /\ x.going => ~x.dec.stopped /\ Rightly(x.dec, Heard(s0, x.out), text) /\ Turns(x.dec) + k <= Turns(d)
  /\ ~x.going /\ ~x.failed => IF final THEN Flushed(x.dec, Heard(s0, x.out), text)
                              ELSE Rightly(x.dec, Heard(s0, x.out), text)

LEMMA ReachesFurther ==
  ASSUME NEW d \in Decoders, NEW s0 \in Seq(Events), NEW text \in Texts, NEW final \in BOOLEAN,
         NEW k \in Nat, NEW x \in Drains, Reached(d, s0, x, final, text, k)
  PROVE  LET y == IF x.going THEN DrainOnce(x.dec, x.out, final) ELSE x
         IN Reached(d, s0, y, final, text, k + 1)
<1>1. x.dec \in Decoders /\ x.out \in Seq(Events)
  BY DEF Drains
<1>2. CASE ~x.going
  BY <1>2 DEF Reached
<1>3. CASE x.going
  <2> DEFINE y == DrainOnce(x.dec, x.out, final)
             u == Heard(s0, y.out)
  <2>1. /\ x.dec.stops = d.stops /\ ~x.dec.stopped /\ Rightly(x.dec, Heard(s0, x.out), text)
        /\ Turns(x.dec) + k <= Turns(d)
    BY <1>3 DEF Reached
  <2>2. TurnedRight(x.dec, y, u, final, text)
    BY <1>1, <2>1, TurnIsRight
  <2>3. y \in Drains
    BY <1>1, TurnIsDrained
  <2> HIDE DEF y
  <2>4. y.dec \in Decoders
    BY <2>3 DEF Drains
  <2>5. y.going => Turns(y.dec) + (k + 1) <= Turns(d)
    <3> SUFFICES ASSUME y.going PROVE Turns(y.dec) + (k + 1) <= Turns(d)
      OBVIOUS
    <3> DEFINE a == Turns(y.dec)
               b == Turns(x.dec)
               c == Turns(d)
    <3>1. a < b /\ b + k <= c
      BY <2>1, <2>2 DEF TurnedRight
    <3>2. a \in Nat /\ b \in Nat /\ c \in Nat
      BY <1>1, <2>4, TurnsArePositive
    <3> HIDE DEF a, b, c
    <3>3. a + (k + 1) <= c
      BY ONLY <3>1, <3>2, k \in Nat
    <3> QED BY <3>3 DEF a, c
  <2>6. Reached(d, s0, y, final, text, k + 1)
    BY <2>1, <2>2, <2>5 DEF Reached, TurnedRight
  <2> QED BY <1>3, <2>6 DEF y
<1> QED BY <1>2, <1>3

(* So the loop is right when it ends, and it ends within Turns(d).         *)
LEMMA DrainIsRight ==
  ASSUME NEW d \in Decoders, NEW s0 \in Seq(Events), Apart(s0), NEW text \in Texts, NEW final \in BOOLEAN,
         ~d.stopped, Rightly(d, s0, text)
  PROVE  LET y == Drain(d, <<>>, final)
         IN /\ y \in Drains /\ y.dec.stops = d.stops
            /\ ~y.failed => IF final THEN Flushed(y.dec, Heard(s0, y.out), text)
                            ELSE Rightly(y.dec, Heard(s0, y.out), text)
<1> DEFINE n == Turns(d)
           y == Drain(d, <<>>, final)
<1>1. n \in Nat /\ n > 0 /\ <<>> \in Seq(Events) /\ Heard(s0, <<>>) = s0
  BY TurnsArePositive, HeardSoFar, EmptySeq
<1>2. PICK f \in [0..n -> Drains] : DrainsBy(f, d, <<>>, final) /\ y = f[n]
  BY <1>1, DrainBySteps
<1> HIDE DEF y
<1>3. /\ f[0] = GoingOn(d, <<>>)
      /\ \A k \in 1..n : f[k] = IF f[k - 1].going THEN DrainOnce(f[k - 1].dec, f[k - 1].out, final) ELSE f[k - 1]
  BY <1>2 DEF DrainsBy
<1> DEFINE S == {k \in 0..n : Reached(d, s0, f[k], final, text, k)}
<1>4. 0 \in S
  <2>1. f[0].dec = d /\ f[0].out = <<>> /\ f[0].going
    BY <1>3 DEF GoingOn
  <2>2. Turns(d) + 0 <= Turns(d)
    BY <1>1
  <2>3. Reached(d, s0, f[0], final, text, 0)
    BY <1>1, <2>1, <2>2 DEF Reached
  <2>4. 0 \in 0..n
    <3> HIDE DEF n
    <3> QED BY <1>1
  <2> QED BY <2>3, <2>4
<1> HIDE DEF n
<1>5. ASSUME NEW k \in 0..(n - 1), k \in S PROVE k + 1 \in S
  <2>1. k \in Nat /\ k \in 0..n /\ k + 1 \in 1..n /\ k + 1 \in 0..n /\ (k + 1) - 1 = k
    BY <1>1
  <2>2. f[k] \in Drains /\ Reached(d, s0, f[k], final, text, k)
    BY <1>2, <1>5, <2>1
  <2>3. f[k + 1] = IF f[k].going THEN DrainOnce(f[k].dec, f[k].out, final) ELSE f[k]
    BY <1>3, <2>1
  <2>4. Reached(d, s0, f[k + 1], final, text, k + 1)
    BY <2>1, <2>2, <2>3, ReachesFurther
  <2> QED BY <2>1, <2>4
<1>6. 0..n \subseteq S
  <2> HIDE DEF S
  <2> QED BY <1>1, <1>4, <1>5, ClimbingTo
<1>7. Reached(d, s0, y, final, text, n) /\ y \in Drains
  <2>1. n \in 0..n
    BY <1>1
  <2> QED BY <1>2, <1>6, <2>1
<1>8. ~y.going
  <2> SUFFICES ASSUME y.going PROVE FALSE
    OBVIOUS
  <2>1. Turns(y.dec) + n <= n
    BY <1>7 DEF Reached, n
  <2>2. Turns(y.dec) \in Nat /\ Turns(y.dec) > 0
    <3>1. y.dec \in Decoders
      BY <1>7 DEF Drains
    <3> QED BY <3>1, TurnsArePositive
  <2> QED BY <1>1, <2>1, <2>2
<1>9. /\ y.dec.stops = d.stops
      /\ ~y.failed => IF final THEN Flushed(y.dec, Heard(s0, y.out), text)
                      ELSE Rightly(y.dec, Heard(s0, y.out), text)
  BY <1>7, <1>8 DEF Reached
<1> QED BY <1>7, <1>9 DEF y

(* What the invariant says of the text said.                               *)
LEMMA ExplainedPrefix ==
  ASSUME NEW d \in Decoders, NEW s \in Seq(Events), NEW text \in Texts, Explained(d, s, text)
  PROVE  IsPrefix(TextOf(s), FromQwenContinuation(text).text)
<1> DEFINE whole == FromQwenContinuation(text)
           answer == AnswerIn(text)
<1>1. whole \in Parsers /\ whole.text \in Texts /\ TextOf(s) \in Texts
  <2>1. whole \in Parsers
    BY WholeAnswer
  <2> HIDE DEF whole
  <2> QED BY <2>1, SaidIsTyped DEF Parsers
<1>2. CASE d.stopped
  BY <1>2, ExplainedMeans
<1>3. CASE ~d.stopped /\ (d.thinking \/ d.trimming)
  <2>1. Silent(s)
    BY <1>3, ExplainedMeans DEF Thinks, Trims
  <2>2. TextOf(s) = <<>>
    BY <2>1 DEF Silent
  <2> HIDE DEF whole
  <2> QED BY <1>1, <2>2, PrefixOfNothing DEF whole
<1>4. CASE ~d.stopped /\ ~d.thinking /\ ~d.trimming
  <2>1. Find(text, THINK_END) > 0 /\ Speaks(d, s, answer)
    BY <1>4, ExplainedMeans
  <2>2. answer \in Texts /\ whole = FromModelText(answer)
    BY <2>1, WholeAnswer
  <2> HIDE DEF answer, whole
  <2>3. CASE d.in_tool_call
    BY <2>1, <2>2, <2>3, SpokenPrefix DEF whole
  <2>4. CASE ~d.in_tool_call
    <3> DEFINE f == LastText(s)
               p == d.pending
    <3>1. f \in Texts /\ p \in Texts /\ 0 \in 0..Len(p)
      BY EventPlaces, DecoderFields, EmptyText
    <3>2. Passed(f, p, TOOL_CALL_START)
      BY <2>1, <2>2, <2>4, NoOpenCall DEF Marks
    <3>3. PICK n \in 0..Len(answer) : LET x == Parsing(answer)[n] IN
              /\ x \in Parsers /\ x.going /\ x.calls = CallsOf(s)
              /\ x.text \o f = TextOf(s) /\ x.rest = f \o p
      BY <2>1, <2>2, <2>4, NoOpenCall
    <3> DEFINE x == Parsing(answer)[n]
    <3>4. x.going /\ x.text \o f = TextOf(s) /\ x.rest = f \o p
      BY <3>3
    <3>5. n \in 0..(Len(answer) + 1)
      BY <2>2, EmptyText
    <3>6. Find(p, TOOL_CALL_START) = 0 \/ Find(p, TOOL_CALL_START) > 0
      <4>1. Find(p, TOOL_CALL_START) \in Nat
        BY <3>1, Delimiters, TextsAreSequences, FindSays
      <4> QED BY <4>1
    <3> HIDE DEF f, p
    <3>7. IsPrefix(x.text \o (f \o SubSeq(p, 1, 0)), FromModelText(answer).text)
      BY ONLY <2>2, <3>1, <3>2, <3>4, <3>5, <3>6, ShownIsPrefix
    <3>8. SubSeq(p, 1, 0) = <<>> /\ f \o <<>> = f
      BY <3>1, TextsAreSequences, ConcatEmptySeq
    <3> HIDE DEF x
    <3>9. IsPrefix(TextOf(s), FromModelText(answer).text)
      BY <3>4, <3>7, <3>8
    <3> QED BY <2>2, <3>9 DEF whole
  <2> QED BY <2>3, <2>4
<1> QED BY <1>2, <1>3, <1>4

(* More text behind what is pending: still only reasoning.                 *)
LEMMA ThinksOn ==
  ASSUME NEW d \in Decoders, NEW s, NEW text \in Texts, NEW t \in Texts, Thinks(d, s, text)
  PROVE  Thinks([d EXCEPT !.pending = @ \o t], s, text \o t)
<1> DEFINE p == d.pending
           e == [d EXCEPT !.pending = p \o t]
           f == SubSeq(text, 1, Len(text) - Len(p))
           g == SubSeq(text \o t, 1, Len(text \o t) - Len(p \o t))
<1>1. /\ e.pending = p \o t /\ e.in_tool_call = d.in_tool_call /\ e.tool_buffer = d.tool_buffer
      /\ e.trimming = d.trimming
  BY DEF Decoders
<1>2. /\ p \in Texts /\ Silent(s) /\ ~d.in_tool_call /\ d.tool_buffer = <<>> /\ ~d.trimming
      /\ text = f \o p /\ Passed(f, p, THINK_END)
  BY DecoderFields DEF Thinks
<1> HIDE DEF p
<1>3. f \in Texts /\ Len(f) \in Nat /\ Len(p) \in Nat /\ Len(text) = Len(f) + Len(p)
  <2>1. Len(p) \in Nat /\ Len(text) \in Nat
    BY <1>2, EmptyText
  <2>2. f \in Texts
    <3> DEFINE a == Len(text) - Len(p)
    <3>1. a <= Len(text) /\ a \in Int
      BY <2>1
    <3>2. text \in Seq(Symbols)
      BY TextsAreSequences
    <3> HIDE DEF a
    <3>3. SubSeq(text, 1, a) \in Seq(Symbols)
      <4>1. CASE a < 1
        <5>1. SubSeq(text, 1, a) = <<>>
          BY <3>1, <4>1
        <5> QED BY <5>1, EmptySeq
      <4>2. CASE a >= 1
        <5>1. a \in (1 - 1)..Len(text) /\ 1 \in 1..(Len(text) + 1)
          BY <2>1, <3>1, <4>2
        <5> QED BY <3>2, <5>1, CutFacts
      <4> QED BY <3>1, <4>1, <4>2
    <3> QED BY <3>3, TextsAreSequences DEF a
  <2> HIDE DEF f
  <2>3. Len(f \o p) = Len(f) + Len(p) /\ Len(f) \in Nat
    BY <1>2, <2>2, TextsAreSequences, CatFacts
  <2> QED BY <1>2, <2>1, <2>2, <2>3
<1> HIDE DEF f
<1>4. text \o t = f \o (p \o t) /\ p \o t \in Texts /\ text \o t \in Texts
  BY Zenon, <1>2, <1>3, TextsRegroup, EmptyText
<1>5. g = f
  <2>1. Len(text \o t) - Len(p \o t) = Len(f)
    <3>1. Len(text \o t) = Len(text) + Len(t) /\ Len(p \o t) = Len(p) + Len(t) /\ Len(t) \in Nat
      BY <1>2, TextsAreSequences, CatFacts
    <3> QED BY <1>3, <3>1
  <2>2. SubSeq(f \o (p \o t), 1, Len(f)) = f
    <3>1. f \in Seq(Symbols) /\ p \o t \in Seq(Symbols)
      BY <1>3, <1>4, TextsAreSequences
    <3>2. 0 \in 0..Len(p \o t) /\ Len(f) + 0 = Len(f)
      BY <1>3, <1>4, EmptyText
    <3>3. SubSeq(f \o (p \o t), 1, Len(f) + 0) = f \o SubSeq(p \o t, 1, 0)
      BY <3>1, <3>2, CutBehindSeam
    <3>4. SubSeq(p \o t, 1, 0) = <<>> /\ f \o <<>> = f
      BY <3>1, ConcatEmptySeq
    <3> QED BY <3>2, <3>3, <3>4
  <2> QED BY <1>4, <2>1, <2>2
<1>6. Passed(f, p \o t, THINK_END)
  BY <1>2, <1>3, Delimiters, TextsAreSequences, PassedGrows
<1> HIDE DEF g, e
<1>7. text \o t = g \o e.pending /\ Passed(g, e.pending, THINK_END)
  BY <1>1, <1>4, <1>5, <1>6
<1>8. Thinks(e, s, text \o t)
  BY <1>1, <1>2, <1>7 DEF Thinks, g
<1> QED BY <1>8 DEF e, p

(* More text behind the end of the reasoning.                              *)
LEMMA AnswerGrows ==
  ASSUME NEW text \in Texts, NEW t \in Texts, Find(text, THINK_END) > 0
  PROVE  /\ Find(text \o t, THINK_END) > 0
         /\ AnswerIn(text \o t) = IF AnswerIn(text) = <<>> THEN TrimNewlines(t) ELSE AnswerIn(text) \o t
<1> DEFINE a == Find(text, THINK_END)
           r == After(text, a, THINK_END)
<1>1. text \in Seq(Symbols) /\ t \in Seq(Symbols) /\ IsMark(THINK_END) /\ a > 0
  BY TextsAreSequences, Delimiters
<1>2. Find(text \o t, THINK_END) = a
  BY <1>1, FindExtends
<1>3. a \in Nat \ {0} /\ a + Len(THINK_END) <= Len(text) + 1 /\ r \in Texts
  BY <1>1, TextFound
<1> HIDE DEF a
<1>4. After(text \o t, a, THINK_END) = r \o t
  BY <1>1, <1>3, AroundMarkGrows
<1>5. AnswerIn(text) = TrimNewlines(r) /\ AnswerIn(text \o t) = TrimNewlines(r \o t)
  BY <1>2, <1>4 DEF AnswerIn, a
<1> HIDE DEF r
<1>6. TrimNewlines(r \o t) = IF TrimNewlines(r) = <<>> THEN TrimNewlines(t) ELSE TrimNewlines(r) \o t
  BY <1>3, TextsAreSequences, TrimGrows
<1> QED BY <1>1, <1>2, <1>5, <1>6

(* The newlines, and what was said, with more text behind.                 *)
LEMMA TrimsOn ==
  ASSUME NEW d \in Decoders, NEW s, NEW text \in Texts, NEW t \in Texts, Find(text, THINK_END) > 0,
         Trims(d, s, AnswerIn(text))
  PROVE  Trims([d EXCEPT !.pending = @ \o t], s, AnswerIn(text \o t))
<1> DEFINE p == d.pending
           e == [d EXCEPT !.pending = p \o t]
<1>1. e.pending = p \o t /\ e.in_tool_call = d.in_tool_call /\ e.tool_buffer = d.tool_buffer
  BY DEF Decoders
<1>2. Silent(s) /\ ~d.in_tool_call /\ d.tool_buffer = <<>> /\ AnswerIn(text) = TrimNewlines(p)
  BY DEF Trims
<1>3. p \in Seq(Symbols) /\ t \in Seq(Symbols)
  BY DecoderFields, TextsAreSequences
<1> HIDE DEF p
<1>4. TrimNewlines(p \o t) = IF TrimNewlines(p) = <<>> THEN TrimNewlines(t) ELSE TrimNewlines(p) \o t
  BY <1>3, TrimGrows
<1>5. AnswerIn(text \o t) = TrimNewlines(p \o t)
  BY <1>2, <1>4, AnswerGrows
<1> HIDE DEF e
<1>6. Trims(e, s, AnswerIn(text \o t))
  BY <1>1, <1>2, <1>5 DEF Trims
<1> QED BY <1>6 DEF e, p

(* The parser of the longer answer has come as far.                        *)
LEMMA ParsedSoFar ==
  ASSUME NEW answer \in Texts, NEW t \in Texts, NEW n \in 0..Len(answer),
         Parsing(answer)[n].going
  PROVE  LET x == Parsing(answer)[n]
             z == Parsing(answer \o t)[n]
         IN
         /\ n \in 0..Len(answer \o t) /\ x \in Parsers /\ z \in Parsers
         /\ z.text = x.text /\ z.calls = x.calls /\ z.rest = x.rest \o t /\ z.going
<1> DEFINE x == Parsing(answer)[n]
<1>1. /\ Len(answer) \in Nat /\ Len(t) \in Nat /\ Len(answer \o t) = Len(answer) + Len(t)
  BY TextsAreSequences, CatFacts
<1>2. n \in 0..(Len(answer) + 1) /\ n \in 0..Len(answer \o t)
  BY <1>1
<1>3. ParsesAlike(answer, t, n)
  BY <1>2, ParsingGrows
<1>4. Parsing(answer \o t)[n] = Longer(x, t)
  BY <1>3 DEF ParsesAlike
<1>5. x \in Parsers
  BY <1>2, ParsingInSteps
<1>6. LET z == Longer(x, t) IN
         /\ z \in Parsers /\ z.text = x.text /\ z.calls = x.calls /\ z.rest = x.rest \o t
         /\ z.going = x.going
  BY <1>5, LongerFields
<1> DEFINE w == Longer(x, t)
           v == Parsing(answer \o t)[n]
<1>7. w \in Parsers /\ w.text = x.text /\ w.calls = x.calls /\ w.rest = x.rest \o t /\ w.going /\ v = w
  BY <1>4, <1>6
<1> HIDE DEF w, v, x
<1>8. v \in Parsers /\ v.text = x.text /\ v.calls = x.calls /\ v.rest = x.rest \o t /\ v.going
  BY <1>7
<1> QED BY <1>2, <1>5, <1>8 DEF v, x

LEMMA SpeaksFurther ==
  ASSUME NEW d \in Decoders, NEW s \in Seq(Events), NEW answer \in Texts, NEW t \in Texts,
         <<>> \notin d.stops, Speaks(d, s, answer)
  PROVE  Speaks([d EXCEPT !.pending = @ \o t], s, answer \o t)
<1> DEFINE p == d.pending
           e == [d EXCEPT !.pending = p \o t]
           f == LastText(s)
           longer == answer \o t
<1>1. /\ p \in Texts /\ p \o t \in Texts /\ d.tool_buffer \in Texts /\ f \in Texts
      /\ longer \in Texts /\ Len(f) \in Nat
  BY DecoderFields, EmptyText, EventPlaces
<1>2. /\ e \in Decoders /\ e.pending = p \o t /\ e.in_tool_call = d.in_tool_call
      /\ e.tool_buffer = d.tool_buffer /\ e.stops = d.stops
  <2>1. e \in Decoders
    BY Zenon, <1>1, DecoderWith
  <2> QED BY <2>1 DEF Decoders
<1>3. answer # <<>> /\ longer # <<>>
  <2>1. answer # <<>>
    BY DEF Speaks
  <2> QED BY <2>1, TextsAreSequences, ConcatProperties, EmptySeq
<1> HIDE DEF e
<1>4. CASE d.in_tool_call
  <2>1. PICK n \in 0..Len(answer) : LET x == Parsing(answer)[n] IN
          /\ x.going /\ x.calls = CallsOf(s) /\ x.text \o f = TextOf(s)
          /\ Find(x.rest, TOOL_CALL_START) = Len(f) + 1
          /\ Before(x.rest, Len(f) + 1) = f
          /\ After(x.rest, Len(f) + 1, TOOL_CALL_START) = d.tool_buffer \o p
    BY <1>4 DEF Speaks
  <2> DEFINE x == Parsing(answer)[n]
             z == Parsing(longer)[n]
             k == Len(f) + 1
  <2>2. /\ x.going /\ x.calls = CallsOf(s) /\ x.text \o f = TextOf(s)
        /\ Find(x.rest, TOOL_CALL_START) = k /\ Before(x.rest, k) = f
        /\ After(x.rest, k, TOOL_CALL_START) = d.tool_buffer \o p
    BY <2>1
  <2>3. /\ n \in 0..Len(longer) /\ x \in Parsers
        /\ z.text = x.text /\ z.calls = x.calls /\ z.rest = x.rest \o t /\ z.going
    <3>1. Parsing(answer)[n].going
      BY <2>2
    <3> QED BY <3>1, ParsedSoFar
  <2>4. k > 0 /\ k \in Nat
    BY <1>1
  <2> HIDE DEF x, z, k, f, p, longer
  <2>5. x.rest \in Texts /\ x.rest \in Seq(Symbols) /\ t \in Seq(Symbols) /\ IsMark(TOOL_CALL_START)
    BY <2>3, TextsAreSequences, Delimiters DEF Parsers
  <2>6. Find(z.rest, TOOL_CALL_START) = k
    BY <2>2, <2>3, <2>4, <2>5, FindExtends
  <2>7. k \in Nat \ {0} /\ k + Len(TOOL_CALL_START) <= Len(x.rest) + 1
    <3> DEFINE r == x.rest
               j == Find(r, TOOL_CALL_START)
    <3>1. j = k /\ j > 0 /\ r \in Seq(Symbols)
      BY <2>2, <2>4, <2>5
    <3>2. j \in Nat \ {0} /\ j + Len(TOOL_CALL_START) <= Len(r) + 1
      <4> HIDE DEF r
      <4> QED BY <2>5, <3>1, FoundWithin
    <3> HIDE DEF j
    <3> QED BY <3>1, <3>2
  <2>8. Before(z.rest, k) = f /\ After(z.rest, k, TOOL_CALL_START) = (d.tool_buffer \o p) \o t
    <3> DEFINE r == x.rest
    <3>1. r \in Seq(Symbols) /\ k + Len(TOOL_CALL_START) <= Len(r) + 1
      BY <2>5, <2>7
    <3> HIDE DEF r
    <3>2. Before(r \o t, k) = Before(r, k) /\ After(r \o t, k, TOOL_CALL_START) = After(r, k, TOOL_CALL_START) \o t
      BY <2>5, <2>7, <3>1, AroundMarkGrows
    <3>3. z.rest = r \o t
      BY <2>3 DEF r
    <3>4. Before(r, k) = f
      BY <2>2 DEF r
    <3>5. After(r, k, TOOL_CALL_START) = d.tool_buffer \o p
      BY <2>2 DEF r
    <3> QED BY ONLY <3>2, <3>3, <3>4, <3>5
  <2>9. (d.tool_buffer \o p) \o t = e.tool_buffer \o e.pending
    <3> DEFINE b == d.tool_buffer
    <3>1. b \in Texts /\ p \in Texts
      BY <1>1
    <3> HIDE DEF b
    <3>2. (b \o p) \o t = b \o (p \o t)
      BY <3>1, TextsRegroup
    <3>3. e.tool_buffer = b /\ e.pending = p \o t
      BY <1>2 DEF b
    <3> QED BY ONLY <3>2, <3>3 DEF b
  <2>10. CallStart(z) = k /\ Behind(z) = e.tool_buffer \o e.pending
    BY <2>6, <2>8, <2>9 DEF CallStart, Behind
  <2>11. /\ z.going /\ z.calls = CallsOf(s) /\ z.text \o f = TextOf(s)
         /\ Before(z.rest, CallStart(z)) = f
    BY <2>2, <2>3, <2>8, <2>10
  <2>12. Speaks(e, s, longer)
    <3>1. longer \in Texts /\ longer # <<>> /\ e.in_tool_call
      BY <1>1, <1>2, <1>3, <1>4
    <3> QED BY <1>2, <2>3, <2>10, <2>11, <3>1, OpensCall DEF k, z, f
  <2> QED BY <2>12 DEF e, p, longer
<1>5. CASE ~d.in_tool_call
  <2>1. /\ d.tool_buffer = <<>> /\ \A mark \in Marks(d) : Passed(f, p, mark)
        /\ \E n \in 0..Len(answer) : LET x == Parsing(answer)[n] IN
              /\ x \in Parsers /\ x.going /\ x.calls = CallsOf(s)
              /\ x.text \o f = TextOf(s) /\ x.rest = f \o p
    BY <1>5, NoOpenCall
  <2>2. PICK n \in 0..Len(answer) : LET x == Parsing(answer)[n] IN
              /\ x.going /\ x.calls = CallsOf(s) /\ x.text \o f = TextOf(s) /\ x.rest = f \o p
    BY <2>1
  <2> DEFINE x == Parsing(answer)[n]
             z == Parsing(longer)[n]
  <2>3. x.going /\ x.calls = CallsOf(s) /\ x.text \o f = TextOf(s) /\ x.rest = f \o p
    BY <2>2
  <2>4. /\ n \in 0..Len(longer)
        /\ z.text = x.text /\ z.calls = x.calls /\ z.rest = x.rest \o t /\ z.going
    <3>1. Parsing(answer)[n].going
      BY <2>3
    <3> QED BY <3>1, ParsedSoFar
  <2> HIDE DEF x, z, f, p, longer
  <2>5. z.rest = f \o e.pending
    <3>1. (f \o p) \o t = f \o (p \o t)
      BY Zenon, <1>1, TextsRegroup
    <3>2. z.rest = (f \o p) \o t
      BY <2>3, <2>4
    <3>3. e.pending = p \o t
      BY <1>2
    <3> QED BY <3>1, <3>2, <3>3
  <2>6. \A mark \in {TOOL_CALL_START} \union e.stops : Passed(f, e.pending, mark)
    <3> SUFFICES ASSUME NEW m \in {TOOL_CALL_START} \union d.stops PROVE Passed(f, p \o t, m)
      BY <1>2
    <3>1. Passed(f, p, m) /\ IsMark(m)
      BY <2>1, StopsAreMarks DEF Marks
    <3>2. f \in Seq(Symbols) /\ p \in Seq(Symbols) /\ t \in Seq(Symbols)
      BY <1>1, TextsAreSequences
    <3> QED BY <3>1, <3>2, PassedGrows
  <2>7. z.going /\ z.calls = CallsOf(s) /\ z.text \o f = TextOf(s)
    BY <2>3, <2>4
  <2>8. Speaks(e, s, longer)
    <3>1. longer \in Texts /\ longer # <<>> /\ ~e.in_tool_call /\ e.tool_buffer = <<>>
      BY <1>1, <1>2, <1>3, <1>5, <2>1
    <3> QED BY <1>2, <2>4, <2>5, <2>6, <2>7, <3>1, SpeaksOn DEF z, f
  <2> QED BY <2>8 DEF e, p, longer
<1> QED BY <1>4, <1>5

(* A token's text behind what is pending explains the same said.           *)
LEMMA FedFurther ==
  ASSUME NEW d \in Decoders, NEW s \in Seq(Events), NEW text \in Texts, NEW t \in Texts,
         ~d.stopped, Rightly(d, s, text)
  PROVE  LET e == [d EXCEPT !.pending = @ \o t]
         IN e \in Decoders /\ e.stops = d.stops /\ ~e.stopped /\ Rightly(e, s, text \o t)
<1> DEFINE p == d.pending
           e == [d EXCEPT !.pending = p \o t]
           longer == text \o t
<1>1. p \in Texts /\ p \o t \in Texts /\ longer \in Texts
  BY DecoderFields, EmptyText
<1>2. /\ e \in Decoders /\ e.stops = d.stops /\ ~e.stopped /\ e.thinking = d.thinking
      /\ e.trimming = d.trimming
  <2>1. e \in Decoders
    BY Zenon, <1>1, DecoderWith
  <2> QED BY <2>1 DEF Decoders
<1>3. <<>> \notin d.stops /\ ShowsNoMarks(s, d) /\ Explained(d, s, text)
  BY DEF Rightly
<1>4. ASSUME d.thinking PROVE Explained(e, s, longer)
  <2>1. Thinks(d, s, text)
    BY <1>3, <1>4, ExplainedMeans
  <2>2. Thinks(e, s, longer)
    BY <2>1, ThinksOn
  <2> HIDE DEF e, longer
  <2> QED BY <1>2, <1>4, <2>2, ExplainedMeans
<1>5. ASSUME ~d.thinking PROVE Explained(e, s, longer)
  <2>1. /\ Find(text, THINK_END) > 0
        /\ d.trimming => Trims(d, s, AnswerIn(text))
        /\ ~d.trimming => Speaks(d, s, AnswerIn(text))
    BY <1>3, <1>5, ExplainedMeans
  <2>2. Find(longer, THINK_END) > 0
    BY <2>1, AnswerGrows
  <2>3. CASE d.trimming
    <3>1. Trims(e, s, AnswerIn(longer))
      BY <2>1, <2>3, TrimsOn
    <3> HIDE DEF e, longer
    <3>2. Explained(e, s, longer)
      BY <1>2, <1>5, <2>2, <2>3, <3>1, ExplainedMeans
    <3> QED BY <3>2
  <2>4. CASE ~d.trimming
    <3>1. /\ AnswerIn(text) \in Texts /\ AnswerIn(text) # <<>>
          /\ Speaks(d, s, AnswerIn(text))
      BY <2>1, <2>4, WholeAnswer DEF Speaks
    <3>2. Speaks(e, s, AnswerIn(text) \o t)
      BY <1>3, <3>1, SpeaksFurther
    <3>3. AnswerIn(longer) = AnswerIn(text) \o t
      BY <2>1, <3>1, AnswerGrows
    <3> HIDE DEF e, longer
    <3>4. Speaks(e, s, AnswerIn(longer))
      BY <3>2, <3>3
    <3> QED BY <1>2, <1>5, <2>2, <2>4, <3>4, ExplainedMeans
  <2> QED BY <2>3, <2>4
<1>6. Explained(e, s, longer)
  BY <1>4, <1>5
<1>7. ShowsNoMarks(s, e)
  BY <1>2, <1>3 DEF ShowsNoMarks
<1>8. Rightly(e, s, longer)
  <2> HIDE DEF e, longer
  <2> QED BY <1>2, <1>3, <1>6, <1>7 DEF Rightly
<1> QED BY <1>2, <1>8

(* One token.                                                              *)
LEMMA PushIsRight ==
  ASSUME NEW d \in Decoders, NEW s \in Seq(Events), Apart(s), NEW text \in Texts, NEW t \in Texts,
         ~d.stopped, Rightly(d, s, text)
  PROVE  LET y == Push(d, t)
         IN /\ y \in Drains /\ y.dec.stops = d.stops
            /\ IsPrefix(TextOf(s), FromQwenContinuation(text \o t).text)
            /\ ~y.failed => Rightly(y.dec, Heard(s, y.out), text \o t)
<1> DEFINE y == Push(d, t)
           e == [d EXCEPT !.pending = @ \o t]
           longer == text \o t
<1>1. e \in Decoders /\ e.stops = d.stops /\ ~e.stopped /\ Rightly(e, s, longer)
  BY FedFurther
<1>2. longer \in Texts
  BY EmptyText
<1>3. y = IF t = <<>> THEN Ended(d, <<>>) ELSE Drain(e, <<>>, FALSE)
  BY DEF Push
<1> HIDE DEF y, e
<1>4. IsPrefix(TextOf(s), FromQwenContinuation(longer).text)
  <2> HIDE DEF longer
  <2> QED BY <1>1, <1>2, ExplainedPrefix DEF Rightly
<1>5. CASE t = <<>>
  <2>1. y = Ended(d, <<>>) /\ y.dec = d /\ y.out = <<>>
    BY <1>3, <1>5 DEF Ended
  <2>2. Heard(s, <<>>) = s
    BY EmptySeq, HeardSoFar
  <2>3. longer = text
    BY <1>5, TextsAreSequences, ConcatEmptySeq
  <2>4. y \in Drains
    BY <2>1, DrainResults, EmptySeq
  <2> HIDE DEF longer
  <2>5. Rightly(y.dec, Heard(s, y.out), longer)
    BY <2>1, <2>2, <2>3
  <2>6. y.dec.stops = d.stops
    BY <2>1
  <2> QED BY <1>4, <2>4, <2>5, <2>6 DEF y, longer
<1>6. CASE t # <<>>
  <2>1. y = Drain(e, <<>>, FALSE)
    BY <1>3, <1>6
  <2> HIDE DEF longer
  <2>2. LET z == Drain(e, <<>>, FALSE)
        IN /\ z \in Drains /\ z.dec.stops = e.stops
           /\ ~z.failed => Rightly(z.dec, Heard(s, z.out), longer)
    <3>1. LET z == Drain(e, <<>>, FALSE)
          IN /\ z \in Drains /\ z.dec.stops = e.stops
             /\ ~z.failed => IF FALSE THEN Flushed(z.dec, Heard(s, z.out), longer)
                             ELSE Rightly(z.dec, Heard(s, z.out), longer)
      BY <1>1, <1>2, DrainIsRight
    <3> QED BY <3>1
  <2>3. /\ y \in Drains /\ y.dec.stops = d.stops
        /\ ~y.failed => Rightly(y.dec, Heard(s, y.out), longer)
    BY <1>1, <2>1, <2>2
  <2> QED BY <1>4, <2>3 DEF y, longer
<1> QED BY <1>5, <1>6

(* The end of the stream.                                                  *)
LEMMA FinishIsRight ==
  ASSUME NEW d \in Decoders, NEW s \in Seq(Events), Apart(s), NEW text \in Texts, Rightly(d, s, text)
  PROVE  LET y == FinishDecoder(d)
         IN /\ y \in Drains /\ y.dec.stops = d.stops
            /\ IsPrefix(TextOf(s), FromQwenContinuation(text).text)
            /\ ~y.failed => Flushed(y.dec, Heard(s, y.out), text)
<1> DEFINE y == FinishDecoder(d)
<1>1. IsPrefix(TextOf(s), FromQwenContinuation(text).text)
  BY ExplainedPrefix DEF Rightly
<1>2. CASE d.stopped
  <2>1. y = Ended(d, <<>>) /\ y.dec = d /\ y.out = <<>>
    BY <1>2 DEF FinishDecoder, Ended
  <2>2. Heard(s, <<>>) = s
    BY EmptySeq, HeardSoFar
  <2>3. y \in Drains
    BY <2>1, DrainResults, EmptySeq
  <2> HIDE DEF y
  <2>4. Flushed(d, s, text)
    BY <1>1, <1>2 DEF Flushed, Rightly
  <2>5. Flushed(y.dec, Heard(s, y.out), text) /\ y.dec.stops = d.stops
    BY <2>1, <2>2, <2>4
  <2> QED BY <1>1, <2>3, <2>5 DEF y
<1>3. CASE ~d.stopped
  <2>1. y = Drain(d, <<>>, TRUE)
    BY <1>3 DEF FinishDecoder
  <2>2. LET z == Drain(d, <<>>, TRUE)
        IN /\ z \in Drains /\ z.dec.stops = d.stops
           /\ ~z.failed => Flushed(z.dec, Heard(s, z.out), text)
    <3>1. LET z == Drain(d, <<>>, TRUE)
          IN /\ z \in Drains /\ z.dec.stops = d.stops
             /\ ~z.failed => IF TRUE THEN Flushed(z.dec, Heard(s, z.out), text)
                             ELSE Rightly(z.dec, Heard(s, z.out), text)
      BY <1>3, DrainIsRight
    <3> QED BY <3>1
  <2> HIDE DEF y
  <2>3. /\ y \in Drains /\ y.dec.stops = d.stops
        /\ ~y.failed => Flushed(y.dec, Heard(s, y.out), text)
    BY <2>1, <2>2
  <2> QED BY <1>1, <2>3 DEF y
<1> QED BY <1>2, <1>3

-----------------------------------------------------------------------------
(* The steps of a stream.                                                  *)

(* Nothing was fed and nothing said.                                       *)
LEMMA StartsRightly ==
  ASSUME NEW stops \in StopSets
  PROVE  LET d == NewDecoder(stops, TRUE)
         IN d \in Decoders /\ ~d.stopped /\ Rightly(d, <<>>, <<>>)
<1> DEFINE d == NewDecoder(stops, TRUE)
<1>1. d \in Decoders
  BY DecoderStarts
<1>2. /\ d.stops = stops \ {<<>>} /\ ~d.stopped /\ d.thinking /\ d.pending = <<>>
      /\ ~d.in_tool_call /\ d.tool_buffer = <<>> /\ ~d.trimming
  BY DEF NewDecoder
<1> HIDE DEF d
<1>3. ShowsNoMarks(<<>>, d)
  BY DEF ShowsNoMarks
<1>4. Silent(<<>>)
  BY SaidIsTyped, EmptySeq DEF Silent, LastText
<1>5. Thinks(d, <<>>, <<>>)
  <2>1. SubSeq(<<>>, 1, Len(<<>>) - Len(<<>>)) = <<>> /\ <<>> \o <<>> = <<>>
    <3>1. <<>> \in Seq({})
      OBVIOUS
    <3> QED BY <3>1, ConcatEmptySeq
  <2>2. Passed(<<>>, <<>>, THINK_END)
    BY PassedNothing
  <2> QED BY <1>2, <1>4, <2>1, <2>2 DEF Thinks
<1>6. Explained(d, <<>>, <<>>)
  BY <1>1, <1>2, <1>5, ExplainedMeans
<1> QED BY <1>1, <1>2, <1>3, <1>6 DEF Rightly, d

(* Before a stream is open.                                                *)
LEMMA SaidFromTheStart ==
  ASSUME StreamInit
  PROVE  SaidIInv
<1>1. phase = "request" /\ dec = NewDecoder({}, TRUE) /\ fed = <<>> /\ said = <<>>
  BY DEF StreamInit
<1>2. <<>> \notin dec.stops
  BY <1>1 DEF NewDecoder
<1>3. fed \in Texts /\ Apart(said)
  BY <1>1, EmptyText DEF Apart
<1>4. DecoderFollows
  BY <1>1, <1>2, <1>3 DEF DecoderFollows
<1>5. SaidIsParsed
  BY <1>1 DEF SaidIsParsed, StreamedIsParsed, NothingToRetract, Completes
<1> QED BY <1>4, <1>5, ClientsStart DEF SaidIInv

LEMMA FollowsRightly ==
  ASSUME StreamIInv, DecoderFollows, phase = "decoding"
  PROVE  dec \in Decoders /\ said \in Seq(Events) /\ fed \in Texts /\ Apart(said) /\ Rightly(dec, said, fed)
BY DEF StreamIInv, StreamTypes, DecoderFollows, Rightly

(* While the stream is open.                                               *)
LEMMA OpenIsRight ==
  ASSUME StreamIInv', phase' = "decoding", fed' \in Texts, Apart(said'), Rightly(dec', said', fed'),
         ended' = "none" => ~dec'.stopped
  PROVE  DecoderFollows' /\ SaidIsParsed'
<1>1. dec' \in Decoders /\ said' \in Seq(Events)
  BY DEF StreamIInv, StreamTypes
<1>2. ShowsNoMarks(said', dec') /\ Explained(dec', said', fed') /\ <<>> \notin dec'.stops
  BY DEF Rightly
<1>3. DecoderFollows'
  BY <1>2 DEF DecoderFollows
<1>4. IsPrefix(TextOf(said'), FromQwenContinuation(fed').text)
  BY <1>1, <1>2, ExplainedPrefix
<1>5. NothingToRetract'
  BY <1>2, <1>4 DEF NothingToRetract
<1>6. StreamedIsParsed'
  BY DEF StreamedIsParsed, Completes
<1> QED BY <1>3, <1>5, <1>6 DEF SaidIsParsed

(* What was said before an error is right, and stays so.                   *)
LEMMA FailureIsRight ==
  ASSUME DecoderFollows, phase = "decoding", Fail, dec'.stops = dec.stops, fed' \in Texts,
         IsPrefix(TextOf(said), FromQwenContinuation(fed').text)
  PROVE  DecoderFollows' /\ SaidIsParsed'
<1>1. phase' = "over" /\ ended' = "error" /\ said' = said
  BY DEF Fail
<1>2. Apart(said) /\ <<>> \notin dec.stops /\ ShowsNoMarks(said, dec)
  BY DEF DecoderFollows
<1>3. ShowsNoMarks(said, dec')
  BY <1>2 DEF ShowsNoMarks
<1>4. DecoderFollows'
  BY <1>1, <1>2 DEF DecoderFollows
<1>5. NothingToRetract' /\ StreamedIsParsed'
  BY <1>1, <1>3 DEF NothingToRetract, StreamedIsParsed, Completes
<1> QED BY <1>4, <1>5 DEF SaidIsParsed

(* A token, and the end.                                                   *)
LEMMA TokenIsRight ==
  ASSUME StreamIInv, DecoderFollows, NEW text \in Vocabulary, Token(text), StreamIInv'
  PROVE  DecoderFollows' /\ SaidIsParsed'
<1> DEFINE y == Push(dec, text)
           longer == fed \o text
<1>1. phase = "decoding" /\ ended = "none" /\ fed' = longer /\ dec' = y.dec
  BY DEF Token
<1>2. /\ dec \in Decoders /\ said \in Seq(Events) /\ fed \in Texts /\ Apart(said)
      /\ Rightly(dec, said, fed) /\ ~dec.stopped
  BY <1>1, FollowsRightly DEF DecoderFollows
<1>3. text \in Texts /\ longer \in Texts
  BY <1>2, TokensAreTexts, EmptyText
<1>4. /\ y \in Drains /\ y.dec.stops = dec.stops
      /\ IsPrefix(TextOf(said), FromQwenContinuation(longer).text)
      /\ ~y.failed => Rightly(y.dec, Heard(said, y.out), longer)
  BY <1>2, <1>3, PushIsRight
<1>5. CASE y.failed
  <2>1. Fail
    BY <1>5 DEF Token
  <2> HIDE DEF y, longer
  <2> QED BY <1>1, <1>3, <1>4, <2>1, FailureIsRight
<1>6. CASE ~y.failed
  <2>1. /\ said' = Heard(said, y.out) /\ phase' = phase
        /\ ended' = IF y.dec.stopped THEN "stopped" ELSE ended
    BY <1>6 DEF Token, Deliver, Heard
  <2> HIDE DEF y, longer
  <2>2. y.out \in Seq(Events)
    BY <1>4 DEF Drains
  <2>3. Apart(said')
    BY <1>2, <2>1, <2>2, HeardSoFar
  <2>4. Rightly(dec', said', fed')
    BY <1>1, <1>4, <1>6, <2>1
  <2> QED BY <1>1, <1>3, <2>1, <2>3, <2>4, OpenIsRight
<1> QED BY <1>5, <1>6

LEMMA CompletionIsRight ==
  ASSUME StreamIInv, DecoderFollows, Complete
  PROVE  DecoderFollows' /\ SaidIsParsed'
<1> DEFINE y == FinishDecoder(dec)
           u == Heard(said, y.out)
<1>1. phase = "decoding" /\ fed' = fed /\ dec' = y.dec
  BY DEF Complete
<1>2. /\ dec \in Decoders /\ said \in Seq(Events) /\ fed \in Texts /\ Apart(said)
      /\ Rightly(dec, said, fed) /\ <<>> \notin dec.stops
  BY <1>1, FollowsRightly DEF DecoderFollows
<1>3. /\ y \in Drains /\ y.dec.stops = dec.stops
      /\ IsPrefix(TextOf(said), FromQwenContinuation(fed).text)
      /\ ~y.failed => Flushed(y.dec, u, fed)
  BY <1>2, FinishIsRight
<1>4. CASE y.failed
  <2>1. Fail
    BY <1>4 DEF Complete
  <2> HIDE DEF y
  <2> QED BY <1>1, <1>2, <1>3, <2>1, FailureIsRight
<1>5. CASE ~y.failed
  <2>1. phase' = "over" /\ said' = u
    BY <1>5 DEF Complete, Heard
  <2> HIDE DEF y
  <2>2. y.out \in Seq(Events)
    BY <1>3 DEF Drains
  <2>3. Apart(u)
    BY <1>2, <2>2, HeardSoFar
  <2> HIDE DEF u
  <2>4. Flushed(dec', said', fed')
    BY <1>1, <1>3, <1>5, <2>1
  <2>5. StreamedIsParsed' /\ NothingToRetract'
    BY <2>4 DEF StreamedIsParsed, NothingToRetract, Flushed
  <2>6. DecoderFollows'
    BY <1>1, <1>2, <1>3, <2>1, <2>3 DEF DecoderFollows
  <2> QED BY <2>5, <2>6 DEF SaidIsParsed
<1> QED BY <1>4, <1>5

(* Every step keeps the invariant.                                         *)
LEMMA SaidStep ==
  ASSUME SaidIInv, [StreamNext]_streamVars
  PROVE  SaidIInv'
<1>1. StreamIInv /\ DecoderFollows /\ SaidIsParsed /\ StreamIInv'
  BY StreamStep DEF SaidIInv
<1>2. CASE Refuse
  <2>1. phase' = "refused" /\ fed' = fed /\ dec' = dec /\ said' = said
    BY <1>2 DEF Refuse
  <2>2. DecoderFollows'
    BY <1>1, <2>1 DEF DecoderFollows
  <2>3. SaidIsParsed'
    BY <2>1 DEF SaidIsParsed, StreamedIsParsed, NothingToRetract, Completes
  <2> QED BY <1>1, <2>2, <2>3 DEF SaidIInv
<1>3. CASE Open
  <2>1. PICK stops \in StopSets : dec' = NewDecoder(stops, TRUE)
    BY <1>3 DEF Open
  <2>2. phase = "request" /\ phase' = "decoding" /\ fed' = fed /\ said' = said
    BY <1>3 DEF Open
  <2>3. fed = <<>> /\ said = <<>>
    BY <1>1, <2>2 DEF DecoderFollows, StreamIInv, ClientsFollow
  <2>4. ~dec'.stopped /\ Rightly(dec', <<>>, <<>>)
    BY <2>1, StartsRightly
  <2>5. fed' \in Texts /\ Apart(said')
    BY <2>2, <2>3, EmptyText DEF Apart
  <2>6. Rightly(dec', said', fed')
    BY <2>2, <2>3, <2>4
  <2>7. DecoderFollows' /\ SaidIsParsed'
    BY <1>1, <2>2, <2>4, <2>5, <2>6, OpenIsRight
  <2> QED BY <1>1, <2>7 DEF SaidIInv
<1>4. CASE \E text \in Vocabulary : Token(text)
  BY <1>1, <1>4, TokenIsRight DEF SaidIInv
<1>5. CASE EndOfText \/ NoRoom
  <2>1. /\ phase = "decoding" /\ phase' = phase /\ ended' = "eos"
        /\ fed' = fed /\ dec' = dec /\ said' = said
    BY <1>5 DEF EndOfText, NoRoom
  <2>2. fed \in Texts /\ Apart(said) /\ Rightly(dec, said, fed)
    BY <1>1, <2>1, FollowsRightly
  <2>3. fed' \in Texts /\ Apart(said') /\ Rightly(dec', said', fed')
    BY <2>1, <2>2
  <2>4. DecoderFollows' /\ SaidIsParsed'
    BY <1>1, <2>1, <2>3, OpenIsRight
  <2> QED BY <1>1, <2>4 DEF SaidIInv
<1>6. CASE Complete
  BY <1>1, <1>6, CompletionIsRight DEF SaidIInv
<1>7. CASE Break
  <2>1. phase = "decoding" /\ Fail /\ dec' = dec /\ fed' = fed
    BY <1>7 DEF Break
  <2>2. /\ dec \in Decoders /\ said \in Seq(Events) /\ fed \in Texts /\ Rightly(dec, said, fed)
    BY <1>1, <2>1, FollowsRightly
  <2>3. IsPrefix(TextOf(said), FromQwenContinuation(fed).text)
    BY <2>2, ExplainedPrefix DEF Rightly
  <2>4. DecoderFollows' /\ SaidIsParsed'
    BY <1>1, <2>1, <2>2, <2>3, FailureIsRight
  <2> QED BY <1>1, <2>4 DEF SaidIInv
<1>8. CASE UNCHANGED streamVars
  <2>1. phase' = phase /\ ended' = ended /\ fed' = fed /\ dec' = dec /\ said' = said
    BY <1>8 DEF streamVars
  <2>2. DecoderFollows'
    BY <1>1, <2>1 DEF DecoderFollows
  <2>3. StreamedIsParsed' /\ NothingToRetract'
    BY <1>1, <2>1 DEF SaidIsParsed, StreamedIsParsed, NothingToRetract, Completes
  <2> QED BY <1>1, <2>2, <2>3 DEF SaidIInv, SaidIsParsed
<1> QED BY <1>2, <1>3, <1>4, <1>5, <1>6, <1>7, <1>8 DEF StreamNext

(* However the model cuts its text into tokens and wherever the stream     *)
(* ends: no client is ever shown text of a tag, of a tool call or of a     *)
(* stop sequence; what it has been shown is the beginning of what the      *)
(* parser of whole texts finds; and unless a stop sequence ended it, what  *)
(* a completed stream said is the text and the tool calls that parser      *)
(* finds (stream_decoder.rs:28, generation.rs:58-93, 612-614).             *)
THEOREM SaidParsed == StreamSpec => []SaidIsParsed
<1>1. StreamInit => SaidIInv
  BY SaidFromTheStart
<1>2. SaidIInv /\ [StreamNext]_streamVars => SaidIInv'
  BY SaidStep
<1>3. SaidIInv => SaidIsParsed
  BY DEF SaidIInv
<1> QED BY <1>1, <1>2, <1>3, PTL DEF StreamSpec
=============================================================================
