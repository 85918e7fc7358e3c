----------------------------- MODULE Generation -----------------------------
(***************************************************************************)
(* One request from the HTTP handler to its last byte, and many of them at *)
(* once: runtime/session.rs (the slot that admits one generation, and the  *)
(* cancellation a Session fires when it is dropped), server/stub.rs (the   *)
(* task that holds the permit), runtime/generation.rs (the decode loop on  *)
(* a blocking thread, under the runtime's mutex) and the pump of the       *)
(* streaming adapters (spawn_event_stream; Ollama and Anthropic have the   *)
(* same one), with the two bounded channels between decode loop, pump and  *)
(* response body.                                                          *)
(*                                                                         *)
(* A handler that does not stream is a future that axum drops when its     *)
(* client disconnects: the permit goes with it, the blocking thread does   *)
(* not.  A streaming generation runs in a task of its own that nothing     *)
(* drops.  Tokens are counted; what they say is left out.                  *)
(***************************************************************************)
EXTENDS Naturals, Sequences, FiniteSets, SequencesExt

CONSTANTS
  Requests,
  MaxTokens,   \* `maximum`, the most tokens one generation produces
  ChannelCap,  \* capacity of the model-event channel and of the SSE channel
  None         \* no request

ASSUME GenerationAssumption ==
  /\ IsFiniteSet(Requests)
  /\ None \notin Requests
  /\ MaxTokens \in Nat \ {0}
  /\ ChannelCap \in Nat \ {0}

VARIABLES
  client,     \* the peer: "none", "connected", "gone", "served"
  streams,    \* requests with stream: true
  cancelled,  \* sessions whose CancellationToken has fired
  task,       \* generate_with_session or its streaming twin
  queue,      \* requests waiting for the slot, in the semaphore's order
  permit,     \* the request that holds the slot
  worker,     \* the spawn_blocking decode loop
  runtime,    \* the request whose worker holds the runtime mutex
  context,    \* the requests whose tokens are in the model's session state
  tokens,     \* tokens generated
  events,     \* events in the model-event channel
  pump,       \* the task that forwards events to the response body
  body,       \* events in the response body's channel
  emitted,    \* events the decode loop has handed over
  received    \* items the client has read

vars == <<client, streams, cancelled, task, queue, permit, worker, runtime,
          context, tokens, events, pump, body, emitted, received>>
peer  == <<client, streams, received>>
slot  == <<task, queue, permit>>
model == <<worker, runtime, context, tokens>>
wires == <<events, pump, body, emitted>>

Init ==
  /\ client = [r \in Requests |-> "none"]
  /\ streams = {}
  /\ cancelled = {}
  /\ task = [r \in Requests |-> "none"]
  /\ queue = <<>>
  /\ permit = None
  /\ worker = [r \in Requests |-> "none"]
  /\ runtime = None
  /\ context = {}
  /\ tokens = [r \in Requests |-> 0]
  /\ events = [r \in Requests |-> 0]
  /\ pump = [r \in Requests |-> "none"]
  /\ body = [r \in Requests |-> 0]
  /\ emitted = [r \in Requests |-> 0]
  /\ received = [r \in Requests |-> 0]

PumpStates == {"none", "preamble", "loop", "sending", "final", "ended"}

BodyOpen(r)   == client[r] = "connected"                  \* its receiver is alive
EventsOpen(r) == pump[r] \in {"loop", "sending"}          \* model_rx is alive
EventsDone(r) == worker[r] = "ended" \/ (task[r] = "done" /\ worker[r] = "none")
-----------------------------------------------------------------------------
(* A request arrives.  Without streaming its handler queues for the slot;  *)
(* with it, the adapter spawns the pump first.                             *)
Arrive(r, stream) ==
  /\ client[r] = "none"
  /\ client' = [client EXCEPT ![r] = "connected"]
  /\ IF stream
     THEN /\ streams' = streams \union {r}
          /\ pump' = [pump EXCEPT ![r] = "preamble"]
          /\ UNCHANGED <<task, queue>>
     ELSE /\ task' = [task EXCEPT ![r] = "queued"]
          /\ queue' = Append(queue, r)
          /\ UNCHANGED <<streams, pump>>
  /\ UNCHANGED <<cancelled, permit, model, events, body, emitted, received>>

(* GenerationSlot::acquire: the semaphore serves its waiters in order ...  *)
Acquire(r) ==
  /\ task[r] = "queued"
  /\ permit = None
  /\ r = Head(queue)
  /\ permit' = r
  /\ queue' = Tail(queue)
  /\ task' = [task EXCEPT ![r] = "admitted"]
  /\ UNCHANGED <<peer, cancelled, model, wires>>

(* A dropped Acquire future leaves its place in the queue, if it has one.  *)
LeaveQueue(r) ==
  \/ \E i \in DOMAIN queue : queue[i] = r /\ queue' = RemoveAt(queue, i)
  \/ r \notin ToSet(queue) /\ UNCHANGED queue

(* ... unless the waiter's cancellation fires first.                       *)
GiveUp(r) ==
  /\ task[r] = "queued"
  /\ r \in cancelled
  /\ LeaveQueue(r)
  /\ task' = [task EXCEPT ![r] = "done"]
  /\ UNCHANGED <<peer, cancelled, permit, worker, runtime, context, tokens, wires>>

(* Mutant: an early return that forgets the permit.                        *)
RejectPromptKeepingPermit(r) ==
  /\ task[r] = "admitted"
  /\ task' = [task EXCEPT ![r] = "done"]
  /\ cancelled' = cancelled \union {r}
  /\ UNCHANGED <<peer, queue, permit, worker, runtime, context, tokens, wires>>

(* run_generation: the prompt is empty, too long or not text ...           *)
RejectPrompt(r) ==
  /\ task[r] = "admitted"
  /\ task' = [task EXCEPT ![r] = "done"]
  /\ permit' = None
  /\ cancelled' = cancelled \union {r}
  /\ UNCHANGED <<peer, queue, worker, runtime, context, tokens, wires>>

(* ... or goes to a blocking thread.                                       *)
SpawnWorker(r) ==
  /\ task[r] = "admitted"
  /\ task' = [task EXCEPT ![r] = "awaiting"]
  /\ worker' = [worker EXCEPT ![r] = "spawned"]
  /\ UNCHANGED <<peer, cancelled, queue, permit, runtime, context, tokens, wires>>

(* The generator returned: the permit and the Session are dropped with the *)
(* task's frame, and a handler answers its client.                         *)
FinishTask(r) ==
  /\ task[r] = "awaiting"
  /\ worker[r] = "ended"
  /\ task' = [task EXCEPT ![r] = "done"]
  /\ permit' = None
  /\ cancelled' = cancelled \union {r}
  /\ UNCHANGED <<peer, queue, model, wires>>

Answer(r) ==
  /\ r \notin streams
  /\ task[r] = "done"
  /\ client[r] = "connected"
  /\ client' = [client EXCEPT ![r] = "served"]
  /\ UNCHANGED <<streams, cancelled, slot, model, wires, received>>
-----------------------------------------------------------------------------
(* The decode loop leaves: the mutex guard and the event sender drop.      *)
Leave(r) ==
  /\ worker' = [worker EXCEPT ![r] = "ended"]
  /\ runtime' = None

(* Take the runtime mutex, reset the session, look at the cancellation.    *)
LockRuntime(r) ==
  /\ worker[r] = "spawned"
  /\ runtime = None
  /\ context' = {}
  /\ IF r \in cancelled
     THEN Leave(r)
     ELSE worker' = [worker EXCEPT ![r] = "prefill"] /\ runtime' = r
  /\ UNCHANGED <<peer, cancelled, slot, tokens, wires>>

(* The whole prompt, with no look at the cancellation.  It may fail with   *)
(* part of the prompt already in the model's state.                        *)
Prefill(r) ==
  /\ worker[r] = "prefill"
  /\ context' = context \union {r}
  /\ \/ worker' = [worker EXCEPT ![r] = "token"] /\ UNCHANGED runtime
     \/ Leave(r)
  /\ UNCHANGED <<peer, cancelled, slot, tokens, wires>>

(* The loop is over; the decoder holds an event back, or it does not.      *)
Ends == {"tail", "leaving"}

(* One turn of the loop: the next token is EOS or the budget is spent, or  *)
(* it yields an event, or it yields none yet.                              *)
TakeToken(r) ==
  /\ worker[r] = "token"
  /\ IF r \in cancelled /\ tokens[r] < MaxTokens
     THEN Leave(r) /\ UNCHANGED tokens
     ELSE \/ /\ tokens[r] = MaxTokens
             /\ \E next \in Ends : worker' = [worker EXCEPT ![r] = next]
             /\ UNCHANGED <<runtime, tokens>>
          \/ /\ tokens[r] < MaxTokens
             /\ tokens' = [tokens EXCEPT ![r] = @ + 1]
             /\ \E next \in Ends \union {"send", "step"} : worker' = [worker EXCEPT ![r] = next]
             /\ UNCHANGED runtime
  /\ UNCHANGED <<peer, cancelled, slot, context, wires>>

(* Mutant: the channel outlives its receiver, so a full one blocks.        *)
SendEventToAnyone(r, state, then) ==
  /\ worker[r] = state
  /\ \/ /\ r \notin streams
        /\ worker' = [worker EXCEPT ![r] = then]
        /\ UNCHANGED <<events, emitted>>
     \/ /\ r \in streams
        /\ events[r] < ChannelCap
        /\ events' = [events EXCEPT ![r] = @ + 1]
        /\ emitted' = [emitted EXCEPT ![r] = @ + 1]
        /\ worker' = [worker EXCEPT ![r] = then]
  /\ UNCHANGED <<peer, cancelled, slot, runtime, context, tokens, pump, body>>

(* blocking_send of one event: it waits while the channel is full, and     *)
(* fails once the receiver is gone.  Without streaming there is no sender. *)
SendEvent(r, state, then) ==
  /\ worker[r] = state
  /\ \/ /\ r \notin streams
        /\ worker' = [worker EXCEPT ![r] = then]
        /\ UNCHANGED <<events, emitted>>
     \/ /\ r \in streams /\ EventsOpen(r)
        /\ events[r] < ChannelCap
        /\ events' = [events EXCEPT ![r] = @ + 1]
        /\ emitted' = [emitted EXCEPT ![r] = @ + 1]
        /\ worker' = [worker EXCEPT ![r] = then]
     \/ /\ r \in streams /\ ~EventsOpen(r)
        /\ worker' = [worker EXCEPT ![r] = "leaving"]
        /\ UNCHANGED <<events, emitted>>
  /\ UNCHANGED <<peer, cancelled, slot, runtime, context, tokens, pump, body>>

Emit(r) == SendEvent(r, "send", "step")

(* The next model step, unless a stop sequence has just matched.           *)
Step(r) ==
  /\ worker[r] = "step"
  /\ context' = context \union {r}
  /\ \/ \E next \in Ends \union {"token"} : worker' = [worker EXCEPT ![r] = next]
        /\ UNCHANGED runtime
     \/ Leave(r)
  /\ UNCHANGED <<peer, cancelled, slot, tokens, wires>>

(* decoder.finish: an event held back until now is sent the same way.      *)
EmitTail(r) == SendEvent(r, "tail", "leaving")

Return(r) ==
  /\ worker[r] = "leaving"
  /\ Leave(r)
  /\ UNCHANGED <<peer, cancelled, slot, context, tokens, wires>>
-----------------------------------------------------------------------------
(* The pump's preamble: a body that is already gone ends the request, else *)
(* the generation starts as a task of its own.                             *)
PumpStart(r) ==
  /\ pump[r] = "preamble"
  /\ IF BodyOpen(r)
     THEN /\ pump' = [pump EXCEPT ![r] = "loop"]
          /\ task' = [task EXCEPT ![r] = "queued"]
          /\ queue' = Append(queue, r)
          /\ UNCHANGED cancelled
     ELSE /\ pump' = [pump EXCEPT ![r] = "ended"]
          /\ cancelled' = cancelled \union {r}
          /\ UNCHANGED <<task, queue>>
  /\ UNCHANGED <<peer, permit, model, events, body, emitted>>

(* select!: receive an event ...                                           *)
PumpReceive(r) ==
  /\ pump[r] = "loop"
  /\ events[r] > 0
  /\ events' = [events EXCEPT ![r] = @ - 1]
  /\ pump' = [pump EXCEPT ![r] = "sending"]
  /\ UNCHANGED <<peer, cancelled, slot, model, body, emitted>>

(* Mutant: the end of the generation is taken for the end of its events.   *)
PumpDrainedEarly(r) ==
  /\ pump[r] = "loop"
  /\ EventsDone(r)
  /\ pump' = [pump EXCEPT ![r] = "final"]
  /\ UNCHANGED <<peer, cancelled, slot, model, events, body, emitted>>

(* ... or notice that every sender is gone and the channel is empty.       *)
PumpDrained(r) ==
  /\ pump[r] = "loop"
  /\ events[r] = 0
  /\ EventsDone(r)
  /\ pump' = [pump EXCEPT ![r] = "final"]
  /\ UNCHANGED <<peer, cancelled, slot, model, events, body, emitted>>

(* sender.send: waits for room, and fails once the body is gone.           *)
PumpSend(r) ==
  /\ pump[r] = "sending"
  /\ BodyOpen(r)
  /\ body[r] < ChannelCap
  /\ body' = [body EXCEPT ![r] = @ + 1]
  /\ pump' = [pump EXCEPT ![r] = "loop"]
  /\ UNCHANGED <<peer, cancelled, slot, model, events, emitted>>

(* The last item, once the generation task has returned.                   *)
PumpFinish(r) ==
  /\ pump[r] = "final"
  /\ task[r] = "done"
  /\ BodyOpen(r)
  /\ body[r] < ChannelCap
  /\ body' = [body EXCEPT ![r] = @ + 1]
  /\ pump' = [pump EXCEPT ![r] = "ended"]
  /\ UNCHANGED <<peer, cancelled, slot, model, events, emitted>>

(* The body is gone: sender.closed() in the select, or a failed send.  The *)
(* pump cancels the session and drops its end of the event channel.        *)
PumpAbandon(r) ==
  /\ pump[r] \in {"loop", "sending"} \/ (pump[r] = "final" /\ task[r] = "done")
  /\ ~BodyOpen(r)
  /\ pump' = [pump EXCEPT ![r] = "ended"]
  /\ cancelled' = cancelled \union {r}
  /\ events' = [events EXCEPT ![r] = 0]
  /\ UNCHANGED <<peer, slot, model, body, emitted>>
-----------------------------------------------------------------------------
(* The client reads one item, or reads the end of the body.                *)
ClientRead(r) ==
  /\ client[r] = "connected"
  /\ body[r] > 0
  /\ body' = [body EXCEPT ![r] = @ - 1]
  /\ received' = [received EXCEPT ![r] = @ + 1]
  /\ UNCHANGED <<client, streams, cancelled, slot, model, events, pump, emitted>>

ClientEnd(r) ==
  /\ client[r] = "connected"
  /\ r \in streams
  /\ pump[r] = "ended" /\ body[r] = 0
  /\ client' = [client EXCEPT ![r] = "served"]
  /\ cancelled' = cancelled \union {r}
  /\ UNCHANGED <<streams, slot, model, wires, received>>

(* Mutant: a streaming generation dies with its handler.                   *)
DisconnectDropsStream(r) ==
  /\ client[r] = "connected"
  /\ client' = [client EXCEPT ![r] = "gone"]
  /\ cancelled' = cancelled \union {r}
  /\ task' = [task EXCEPT ![r] = IF @ \in {"none", "done"} THEN @ ELSE "dropped"]
  /\ LeaveQueue(r)
  /\ permit' = IF permit = r THEN None ELSE permit
  /\ body' = [body EXCEPT ![r] = 0]
  /\ UNCHANGED <<streams, model, events, pump, emitted, received>>

(* The client disconnects.  A streamed body fires CancelOnDrop; a handler  *)
(* future is dropped with its place in the queue or its permit, and its    *)
(* Session fires the cancellation.                                         *)
Disconnect(r) ==
  /\ client[r] = "connected"
  /\ client' = [client EXCEPT ![r] = "gone"]
  /\ cancelled' = cancelled \union {r}
  /\ IF r \in streams
     THEN UNCHANGED slot
     ELSE /\ task' = [task EXCEPT ![r] = IF @ = "done" THEN @ ELSE "dropped"]
          /\ LeaveQueue(r)
          /\ permit' = IF permit = r THEN None ELSE permit
  /\ body' = [body EXCEPT ![r] = 0]
  /\ UNCHANGED <<streams, model, events, pump, emitted, received>>

Serve(r) == Acquire(r) \/ GiveUp(r) \/ RejectPrompt(r) \/ SpawnWorker(r) \/ FinishTask(r) \/ Answer(r)
Decode(r) == LockRuntime(r) \/ Prefill(r) \/ TakeToken(r) \/ Emit(r) \/ Step(r) \/ EmitTail(r) \/ Return(r)
Pump(r) == PumpStart(r) \/ PumpReceive(r) \/ PumpDrained(r) \/ PumpSend(r) \/ PumpFinish(r) \/ PumpAbandon(r)
Client(r) == (\E stream \in BOOLEAN : Arrive(r, stream)) \/ ClientRead(r) \/ ClientEnd(r) \/ Disconnect(r)

Next == \E r \in Requests : Serve(r) \/ Decode(r) \/ Pump(r) \/ Client(r)
Spec == Init /\ [][Next]_vars

(* Tokio polls every ready task and runs every blocking thread.  Nothing   *)
(* makes a client read or leave.                                           *)
Fairness == \A r \in Requests : WF_vars(Serve(r)) /\ WF_vars(Decode(r)) /\ WF_vars(Pump(r))
FairSpec == Spec /\ Fairness
-----------------------------------------------------------------------------
Decoding(r) == worker[r] \in {"token", "send", "step", "tail", "leaving"}
Running(r)  == worker[r] \notin {"none", "ended"}

(* The shape of the state, and the queue holds exactly the queued tasks.   *)
Shape ==
  /\ client \in [Requests -> {"none", "connected", "gone", "served"}]
  /\ streams \subseteq Requests /\ cancelled \subseteq Requests
  /\ task \in [Requests -> {"none", "queued", "admitted", "awaiting", "done", "dropped"}]
  /\ permit \in Requests \union {None} /\ runtime \in Requests \union {None}
  /\ worker \in [Requests -> {"none", "spawned", "prefill", "token", "send", "step",
                              "tail", "leaving", "ended"}]
  /\ context \subseteq Requests
  /\ tokens \in [Requests -> 0..MaxTokens]
  /\ events \in [Requests -> 0..ChannelCap] /\ body \in [Requests -> 0..ChannelCap]
  /\ pump \in [Requests -> PumpStates]
  /\ emitted \in [Requests -> Nat] /\ received \in [Requests -> Nat]
QueueIsSound ==
  /\ queue \in Seq(Requests) /\ IsInjective(queue)
  /\ ToSet(queue) = {r \in Requests : task[r] = "queued"}
TypeOK == Shape /\ QueueIsSound

(* The permit is neither lost nor handed out twice, whatever a disconnect  *)
(* interrupts: it is held exactly while a live task is between acquire and *)
(* the generator's return.                                                 *)
SlotAccounted ==
  \A r \in Requests : permit = r <=> task[r] \in {"admitted", "awaiting"}

(* Requests never see each other's tokens: while a worker decodes, it has  *)
(* the runtime and the model's session state holds its own prompt only,    *)
(* although a dropped request's worker may still have been running when    *)
(* the next one was admitted.                                              *)
SessionIsolated ==
  \A r \in Requests :
     /\ worker[r] = "prefill" => runtime = r /\ context = {}
     /\ Decoding(r) => runtime = r /\ context = {r}

(* A worker outlives its permit only if its session has been cancelled,    *)
(* and never when it streams: "the single generation slot must be held for *)
(* the whole streamed generation" (stub.rs:88-91).                         *)
OrphansAreCancelled ==
  \A r \in Requests :
     Running(r) /\ permit # r => r \in cancelled /\ r \notin streams

(* Every event the decode loop handed over is in a channel, in the pump's  *)
(* hand or read, and a client that reads to the end has read all of them   *)
(* and the closing item: nothing is lost between thread, pump and body.    *)
NothingLost ==
  \A r \in streams :
     /\ client[r] = "connected" =>
          emitted[r] + (IF pump[r] = "ended" THEN 1 ELSE 0)
            = events[r] + (IF pump[r] = "sending" THEN 1 ELSE 0) + body[r] + received[r]
     /\ client[r] = "served" => received[r] = emitted[r] + 1 /\ ~Running(r)

(* Where task, worker, pump and client of one request can stand together;  *)
(* with the properties above it makes the inductive invariant.             *)
Parts(r) ==
  /\ task[r] \in {"none", "queued", "admitted"} => worker[r] = "none"
  /\ task[r] = "done" => ~Running(r)
  /\ task[r] = "dropped" => r \in cancelled /\ r \notin streams
  /\ client[r] = "none" =>
       task[r] = "none" /\ emitted[r] = 0 /\ body[r] = 0 /\ received[r] = 0
  /\ client[r] = "none" \/ r \notin streams => pump[r] = "none"
  /\ pump[r] = "preamble" => task[r] = "none"
  /\ ~EventsOpen(r) => events[r] = 0
  /\ r \in streams => client[r] # "none"
  /\ r \in streams /\ client[r] = "connected" /\ pump[r] = "ended" => task[r] = "done"
  /\ r \in streams /\ client[r] = "served" => pump[r] = "ended" /\ task[r] = "done"
PartsAgree == \A r \in Requests : Parts(r)

(* A disconnect is noticed wherever the generation waits: it ends, and the *)
(* slot is free, even if the decode loop was blocked on a full channel.    *)
DisconnectEndsGeneration ==
  \A r \in Requests : client[r] = "gone" ~> (permit # r /\ ~Running(r))

(* A request waits for the slot forever only if some client keeps its body *)
(* open and full without reading it.                                       *)
Stalled(r) == client[r] = "connected" /\ body[r] = ChannelCap
OnlyStallsBlock ==
  \A r \in Requests :
     <>[](task[r] = "queued") => []<>(\E s \in Requests : Stalled(s))

(* What every state keeps: the permit is accounted for, and a generation   *)
(* never sees another one's session (session.rs:70-130, generation.rs).    *)
SlotIsSound == TypeOK /\ SlotAccounted /\ SessionIsolated

(* The inductive invariant.                                                *)
IInv == SlotIsSound /\ OrphansAreCancelled /\ NothingLost /\ PartsAgree

(* What must happen: an abandoned generation ends, and nobody waits but    *)
(* for a client that does not read (session.rs:90-130, sse.rs).            *)
EveryGenerationEnds == DisconnectEndsGeneration /\ OnlyStallsBlock
=============================================================================
