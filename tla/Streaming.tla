----------------------------- MODULE Streaming -----------------------------
(***************************************************************************)
(* One request from its adapter to the last frame of its answer:           *)
(* src/src/server/{openai,anthropic,ollama}/mod.rs, stub.rs, the decode    *)
(* loop of runtime/generation.rs and runtime/stream_decoder.rs.            *)
(*                                                                         *)
(* The model writes any sequence of tokens of its vocabulary.  The events  *)
(* of a generation do not depend on who reads them: they are rendered for  *)
(* the clients of all protocols side by side.  Generation models the slot, *)
(* the channels and the clients that leave.                                *)
(***************************************************************************)
EXTENDS Adapters

CONSTANTS
  Vocabulary,   \* texts of the tokens, <<>> where decode_step has none yet
  StopSets,     \* stop sequences a request may name
  Maxima,       \* maximum: the tokens a request may cost
  ClientRequests \* see PlainRequest

ASSUME StreamingAssumption ==
  /\ Maxima \subseteq Nat
  /\ \A text \in Vocabulary \cup UNION StopSets : text \in Seq(ToSet(text))
  /\ \A r \in ClientRequests :
       /\ {"roles", "system"} \subseteq DOMAIN r
       /\ r.roles \in Seq(ToSet(r.roles))

VARIABLES
  phase,        \* "request", "decoding", "over", "refused"
  request, ready,
  dec,          \* the decoder
  fed,          \* all text pushed so far
  generated,    \* generated.len()
  maximum,
  ended,        \* why the loop ended: "eos", "stopped", "maximum", "error"
  said,         \* the events, adjacent ones of a kind run together
  writer,       \* the BlockWriter of the Anthropic adapter
  clients

streamVars == <<phase, request, ready, dec, fed, generated, maximum, ended, said, writer, clients>>

StreamInit ==
  /\ phase = "request"
  /\ request \in ClientRequests /\ ready \in BOOLEAN
  /\ dec = NewDecoder({}, TRUE) /\ fed = <<>> /\ generated = 0 /\ maximum = 0 /\ ended = "none"
  /\ said = <<>> /\ writer = NewWriter
  /\ clients = [p \in Protocols |-> NewClient]

-----------------------------------------------------------------------------
(* Two deltas of a kind are one text to whoever concatenates them.         *)
Joined(all, e) ==
  IF all # <<>> /\ Last(all).kind = e.kind /\ e.kind # "tool"
  THEN Append(Front(all), [e EXCEPT !.text = Last(all).text \o @])
  ELSE Append(all, e)

RunTogether(events) ==
  LET upTo[n \in 0..Len(events)] == IF n = 0 THEN <<>> ELSE Joined(upTo[n - 1], events[n])
  IN upTo[Len(events)]

(* The pump: events to frames, frames to the clients.                      *)
PumpOne(x, e) ==
  [writer  |-> RenderEvent("messages", x.writer, e).writer,
   clients |-> [p \in Protocols |-> ReadAll(p, x.clients[p], RenderEvent(p, x.writer, e).frames)]]

Pumped(events) ==
  LET upTo[n \in 0..Len(events)] ==
        IF n = 0 THEN [writer |-> writer, clients |-> clients] ELSE PumpOne(upTo[n - 1], events[n])
  IN upTo[Len(events)]

TextOf(events)  == FlattenSeq([i \in 1..Len(events) |-> IF events[i].kind = "text" THEN events[i].text ELSE <<>>])
CallsOf(events) == FlattenSeq([i \in 1..Len(events) |-> IF events[i].kind = "tool" THEN <<events[i].text>> ELSE <<>>])

(* DecodeRun::into_output                                                  *)
Finish(d, why) ==
  IF StreamFinish(d) = "stop" /\ why = "maximum" THEN "length" ELSE StreamFinish(d)

Output(d, why, events) ==
  [text |-> TextOf(events), tool_calls |-> CallsOf(events), finish |-> Finish(d, why)]

-----------------------------------------------------------------------------
(* A request no protocol accepts, or before the model is ready, is refused *)
(* with a status: the adapters look before they open the stream.           *)
Refuse ==
  /\ phase = "request"
  /\ ~ready \/ \A p \in Protocols : ~Accepts(p, request)
  /\ phase' = "refused"
  /\ UNCHANGED <<request, ready, dec, fed, generated, maximum, ended, said, writer, clients>>

(* The handler has moved the request into the generation.                  *)
Taken == <<>>

(* The stream opens for the protocols that accept the request.             *)
Open ==
  /\ phase = "request" /\ ready
  /\ \E p \in Protocols : Accepts(p, request)
  /\ \E stops \in StopSets, m \in Maxima : dec' = NewDecoder(stops, TRUE) /\ maximum' = m
  /\ clients' = [p \in Protocols |-> ReadAll(p, clients[p], Preamble(p))]
  /\ phase' = "decoding" /\ request' = Taken
  /\ UNCHANGED <<ready, fed, generated, ended, said, writer>>

Deliver(events) ==
  /\ said' = RunTogether(said \o events)
  /\ writer' = Pumped(events).writer
  /\ clients' = Pumped(events).clients

(* The run ends in an error: what the clients have, they keep.             *)
Fail ==
  /\ phase' = "over" /\ ended' = "error"
  /\ clients' = [p \in Protocols |-> ReadAll(p, clients[p], Failed(p, writer))]
  /\ UNCHANGED <<said, writer>>

(* One round of the decode loop: a token, its text, and the events that    *)
(* became safe by it.                                                      *)
Token(text) ==
  /\ phase = "decoding" /\ ended = "none" /\ generated < maximum
  /\ generated' = generated + 1
  /\ fed' = fed \o text
  /\ LET pushed == Push(dec, text)
     IN /\ dec' = pushed.dec
        /\ IF pushed.failed THEN Fail
           ELSE /\ Deliver(pushed.out)
                /\ ended' = IF pushed.dec.stopped THEN "stopped" ELSE ended
                /\ UNCHANGED phase
  /\ UNCHANGED <<request, ready, maximum>>

EndOfText ==
  /\ phase = "decoding" /\ ended = "none" /\ generated < maximum
  /\ generated' = generated + 1 /\ ended' = "eos"
  /\ UNCHANGED <<phase, request, ready, dec, fed, maximum, said, writer, clients>>

(* Without room for a token the output is empty, and that is a "stop".     *)
NoRoom ==
  /\ phase = "decoding" /\ ended = "none" /\ maximum = 0
  /\ ended' = "eos"
  /\ UNCHANGED <<phase, request, ready, dec, fed, generated, maximum, said, writer, clients>>

(* The loop is over: the decoder is flushed, the tail delivered and the    *)
(* output's last frames sent.                                              *)
Complete ==
  /\ phase = "decoding" /\ (ended # "none" \/ generated = maximum)
  /\ LET why   == IF ended = "none" THEN "maximum" ELSE ended
         tail  == FinishDecoder(dec)
         whole == RunTogether(said \o tail.out)
         pump  == Pumped(tail.out)
     IN /\ dec' = tail.dec
        /\ IF tail.failed THEN Fail
           ELSE /\ phase' = "over" /\ ended' = why /\ said' = whole /\ writer' = pump.writer
                /\ clients' = [p \in Protocols |->
                     ReadAll(p, pump.clients[p],
                             Completed(p, pump.writer, Output(tail.dec, why, whole)))]
  /\ UNCHANGED <<request, ready, fed, generated, maximum>>

(* The model, the tokenizer or a cancellation ends the run.                *)
Break ==
  /\ phase = "decoding" /\ ended = "none"
  /\ Fail
  /\ UNCHANGED <<request, ready, dec, fed, generated, maximum>>

StreamNext ==
  \/ Refuse \/ Open
  \/ \E text \in Vocabulary : Token(text)
  \/ EndOfText \/ NoRoom \/ Complete \/ Break

StreamSpec == StreamInit /\ [][StreamNext]_streamVars

-----------------------------------------------------------------------------
(* Properties.                                                             *)

(* The types of the decoder's and the writer's fields.                     *)
StreamTypeOK ==
  /\ phase \in {"request", "decoding", "over", "refused"}
  /\ dec.tool_call_count \in Nat /\ dec.stopped \in BOOLEAN
  /\ generated \in 0..maximum
  /\ writer.open \in {"none", "text", "reasoning"} \* a tool's block never stays open
  /\ ended \in {"none", "eos", "stopped", "maximum", "error"}

Completes == phase = "over" /\ ended # "error"

(* The decoder fed with a text in one piece.                               *)
AtOnce(text) ==
  LET pushed == Push(NewDecoder(dec.stops, TRUE), text)
      tail   == FinishDecoder(pushed.dec)
  IN RunTogether(pushed.out \o tail.out)

(* stream_decoder.rs:371-372 "so a test can prove behavior is independent  *)
(* of where tokens land": how the model cuts its text into tokens makes no *)
(* difference to what is said, up to where deltas are cut; and where a     *)
(* stop sequence ended it, neither would a longer last token have.         *)
ChunkingIrrelevant ==
  Completes =>
    /\ said = AtOnce(fed)
    /\ ended = "stopped" => \A text \in Vocabulary : said = AtOnce(fed \o text)

(* generation.rs:612-614 "two loops would eventually disagree": unless a   *)
(* stop sequence ended it, the streamed text and tool calls are those the  *)
(* parser of whole texts finds, wherever that one finds no error.          *)
StreamedIsParsed ==
  Completes /\ ~dec.stopped /\ ~FromQwenContinuation(fed).failed =>
    /\ TextOf(said) = FromQwenContinuation(fed).text
    /\ CallsOf(said) = FromQwenContinuation(fed).calls

(* No text between two tool calls holds a tag or a stop sequence.  The two *)
(* ends that meet at a call that was cut out may well spell one.           *)
ShowsNoMarks(s, d) ==
  \A i \in 1..Len(s) :
    s[i].kind = "text" => \A mark \in {TOOL_CALL_START} \union d.stops : Find(s[i].text, mark) = 0

(* "a byte already emitted cannot be retracted" (stream_decoder.rs:28):    *)
(* at no moment has a client been shown text of a tag, of a tool call or   *)
(* of a stop sequence; what it has been shown is what the parser of whole  *)
(* texts will show first, whatever the model goes on to write.             *)
NothingToRetract ==
  phase \in {"decoding", "over"} =>
    ShowsNoMarks(said, dec) /\ IsPrefix(TextOf(said), FromQwenContinuation(fed).text)

(* What has been said is right, now and in the end.                        *)
SaidIsParsed == StreamedIsParsed /\ NothingToRetract

(* Every frame is one its protocol allows at that place: Anthropic's       *)
(* blocks are opened, filled and closed one after another under            *)
(* consecutive indices, and nothing follows a terminal frame.              *)
EveryFrameFits == \A p \in Protocols : clients[p].fits

(* A refused request's client gets a status and no frame; any other one    *)
(* gets exactly one end, and by then everything a client that asked for no *)
(* stream would have been given: the text, the tool calls and the reason,  *)
(* which is that of an answer cut off only when the maximum or an open     *)
(* tool call cut it off.                                                   *)
EveryStreamEnds ==
  \A p \in Protocols : LET c == clients[p] IN
    /\ phase = "over" <=> c.over
    /\ phase = "refused" => ~c.started
    /\ Completes =>
         /\ [text |-> c.text, tools |-> c.tools, reason |-> c.reason] = Body(p, Output(dec, ended, said))
         /\ (c.reason \in {"length", "max_tokens"}) <=>
              (dec.in_tool_call \/ (ended = "maximum" /\ dec.tool_call_count = 0))

(* What a client sees while and when its answer ends: see the parts        *)
(* (stub.rs, openai, anthropic and ollama/mod.rs).                         *)
ClientsAreServed == StreamTypeOK /\ EveryFrameFits /\ EveryStreamEnds

(* A user turn that holds tool results.                                    *)
HoldsResults(turn, messages) == turn.role = "user" /\ messages[Last(turn.content)] = "tool"

(* Every message is in the prompt once and in its order, behind the tool   *)
(* definitions if there are any; no two turns of tool results stand side   *)
(* by side; and the prompt ends with the model's own turn.                 *)
PromptKeepsMessages ==
  \A p \in Protocols : phase = "request" /\ Accepts(p, request) =>
    LET n     == Normalized(p, request)
        turns == Render(n.messages, n.tools)
    IN /\ FlattenSeq([i \in 1..Len(turns) |-> turns[i].content])
            = (IF n.tools THEN <<0>> ELSE <<>>) \o [i \in 1..Len(n.messages) |-> i]
       /\ \A i \in 1..(Len(turns) - 1) :
            ~(HoldsResults(turns[i], n.messages) /\ HoldsResults(turns[i + 1], n.messages))
       /\ Last(turns) = Turn("assistant", <<>>)
       /\ n.tools => turns[1].role = "system"
       /\ \A i \in 1..Len(turns) : turns[i].role = "system" /\ i > 1 => ~SystemFirst(n.messages)

-----------------------------------------------------------------------------
(* The inductive invariant of ClientsAreServed: as long as a stream is     *)
(* open, every client has read what was said, and the Anthropic client     *)
(* stands where the BlockWriter does.                                      *)
Texts  == Seq(UNION {ToSet(text) : text \in Vocabulary})
Events == {e \in [kind : {"text", "reasoning", "tool"}, text : Texts] :
             e.kind = "tool" => e.text # <<>>}

Decoders ==
  [thinking : BOOLEAN, pending : Texts, in_tool_call : BOOLEAN, tool_buffer : Texts,
   tool_call_count : Nat, stops : SUBSET UNION StopSets, stopped : BOOLEAN, trimming : BOOLEAN]

Reasons == {"none", "stop", "length", "tool_calls", "end_turn", "max_tokens", "tool_use", "error"}
Readers ==
  [over : BOOLEAN, open : {"none", "text", "reasoning", "tool"}, index : Nat, started : BOOLEAN,
   text : Texts, tools : Seq(Texts), reason : Reasons, fits : BOOLEAN]

StreamTypes ==
  /\ dec \in Decoders /\ said \in Seq(Events)
  /\ maximum \in Nat /\ generated \in 0..maximum
  /\ writer \in [open : {"none", "text", "reasoning"}, index : Nat]
  /\ clients \in [Protocols -> Readers]

Lines == {"ollama chat", "ollama generate"}

Follows(p, c, w, text, calls) ==
  /\ c.fits /\ ~c.over
  /\ c.text = text /\ c.tools = (IF p \in Lines THEN <<>> ELSE calls)
  /\ p = "messages" => c.started /\ c.open = w.open /\ c.index = w.index

ClientsFollow ==
  /\ phase \in {"request", "refused"} =>
       clients = [p \in Protocols |-> NewClient] /\ said = <<>> /\ writer = NewWriter
  /\ phase = "request" => request \in ClientRequests /\ generated = 0 /\ ended = "none"
  /\ phase = "decoding" =>
       /\ ended # "error"
       /\ \A p \in Protocols : Follows(p, clients[p], writer, TextOf(said), CallsOf(said))

StreamIInv == StreamTypes /\ ClientsFollow /\ ClientsAreServed

-----------------------------------------------------------------------------
(* The inductive invariant of SaidIsParsed: what the decoder has said and  *)
(* what it holds back, against the text it was fed with.                   *)

(* A mark may begin at place i: they agree as far as the text goes.        *)
Begins(text, i, mark) ==
  \A k \in 1..Len(mark) : i + k - 1 <= Len(text) => text[i + k - 1] = mark[k]

(* No mark begins in what was shown, whatever comes behind what is pending. *)
Passed(shown, pending, mark) ==
  \A i \in 1..Len(shown) : ~Begins(shown \o pending, i, mark)

(* The text behind the last tool call.                                     *)
LastText(s) == IF s # <<>> /\ Last(s).kind = "text" THEN Last(s).text ELSE <<>>

Silent(s) == TextOf(s) = <<>> /\ CallsOf(s) = <<>> /\ LastText(s) = <<>>

(* Only reasoning so far, and no end of it begins in what was shown.       *)
Thinks(d, s, text) ==
  LET shown == SubSeq(text, 1, Len(text) - Len(d.pending))
  IN /\ Silent(s) /\ ~d.in_tool_call /\ d.tool_buffer = <<>> /\ ~d.trimming
     /\ text = shown \o d.pending /\ Passed(shown, d.pending, THINK_END)

(* The newlines behind the reasoning.                                      *)
Trims(d, s, answer) ==
  /\ Silent(s) /\ ~d.in_tool_call /\ d.tool_buffer = <<>>
  /\ answer = TrimNewlines(d.pending)

(* The parser has come as far as the decoder: n calls, and the same rest.  *)
Speaks(d, s, answer) ==
  LET shown == LastText(s)
  IN /\ answer # <<>>
     /\ d.tool_buffer # <<>> => d.in_tool_call
     /\ ~d.in_tool_call =>
          \A mark \in {TOOL_CALL_START} \union d.stops : Passed(shown, d.pending, mark)
     /\ \E n \in 0..Len(answer) : LET x == Parsing(answer)[n] IN
          /\ x.going /\ x.calls = CallsOf(s) /\ x.text \o shown = TextOf(s)
          /\ IF d.in_tool_call
             THEN /\ Find(x.rest, TOOL_CALL_START) = Len(shown) + 1
                  /\ Before(x.rest, Len(shown) + 1) = shown
                  /\ After(x.rest, Len(shown) + 1, TOOL_CALL_START) = d.tool_buffer \o d.pending
             ELSE x.rest = shown \o d.pending

Explained(d, s, text) ==
  LET at     == Find(text, THINK_END)
      answer == TrimNewlines(After(text, at, THINK_END))
  IN CASE d.stopped -> IsPrefix(TextOf(s), FromQwenContinuation(text).text)
       [] ~d.stopped /\ d.thinking -> Thinks(d, s, text)
       [] ~d.stopped /\ ~d.thinking -> at > 0 /\ IF d.trimming THEN Trims(d, s, answer)
                                               ELSE Speaks(d, s, answer)

(* Neighbours that have been run together.                                 *)
Apart(s) == \A i \in 1..(Len(s) - 1) : s[i].kind = s[i + 1].kind => s[i].kind = "tool"

DecoderFollows ==
  /\ fed \in Texts /\ Apart(said) /\ <<>> \notin dec.stops
  /\ phase = "request" => fed = <<>>
  /\ phase = "decoding" =>
       /\ ended = "none" => ~dec.stopped
       /\ ShowsNoMarks(said, dec) /\ Explained(dec, said, fed)

SaidIInv == StreamIInv /\ DecoderFollows /\ SaidIsParsed
=============================================================================
