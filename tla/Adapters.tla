------------------------------ MODULE Adapters ------------------------------
(***************************************************************************)
(* src/src/server/{openai,anthropic,ollama}/mod.rs, stub.rs and            *)
(* tokenizer/chat.rs: how each protocol's adapter takes a request in, what *)
(* prompt becomes of it, and which frames it sends of a generation's       *)
(* events.  A client is what reads those frames.                           *)
(*                                                                         *)
(* A frame is its type, the index of its block where it has one, and what  *)
(* it delivers.  The texts of errors and all JSON are left out.            *)
(***************************************************************************)
EXTENDS StreamDecoder

Protocols == {"chat completions", "responses", "messages", "ollama chat", "ollama generate"}

Frame(type, index, kind, text) == [type |-> type, index |-> index, kind |-> kind, text |-> text]
Mark(type) == Frame(type, 0, "none", <<>>)

-----------------------------------------------------------------------------
(* Requests, by what the adapters look at.                                 *)

(* What no protocol refuses.  "content" is the shape of its messages'      *)
(* contents, "calls" of the tool calls on its last message.                *)
PlainRequest ==
  [model |-> "served", roles |-> <<"user">>, system |-> FALSE, content |-> "text", calls |-> "none",
   tools |-> "none", choice |-> "auto", temperature |-> 0, top_p |-> 1, stops |-> 1,
   maximum |-> 1, options |-> {}]

(* model_id::resolve: every spelling of the one model is served, another   *)
(* model or quantization is not.                                           *)
Resolves(r) == r.model \in {"served", "unnamed"}

ToolsNormalize(r) == r.tools \in {"none", "function"}

ToolChoiceOk(r) == r.choice \in {"auto", "none"}

OpenAiRoles    == {"system", "developer", "user", "assistant", "tool"}
AnthropicRoles == {"user", "assistant"}
OllamaRoles    == {"system", "user", "assistant", "tool"}

ChatContentOk(r)      == r.content \in {"text", "parts", "null"}
ResponseContentOk(r)  == r.content \in {"text", "parts"}
AnthropicContentOk(r) == r.content \in {"text", "parts"}

(* Tool calls are for assistant messages and hold a JSON object.           *)
ChatCallsOk(r) ==
  r.calls # "none" => r.calls = "function" /\ Last(r.roles) = "assistant"

(* A developer is a system.                                                *)
ParsedRoles(r) == [i \in 1..Len(r.roles) |-> IF r.roles[i] = "developer" THEN "system" ELSE r.roles[i]]

(* response_input_messages, and the instructions in front of them; the     *)
(* same for Anthropic's system field.                                      *)
WithSystem(r) == (IF r.system THEN <<"system">> ELSE <<>>) \o ParsedRoles(r)

SystemFirst(messages) == \A i \in 2..Len(messages) : messages[i] # "system"

StopsOk(r) == r.stops <= 4

OpenAiSampling(r) ==
  r.temperature \in 0..2 /\ r.top_p \in 0..1 /\ r.maximum # 0 /\ StopsOk(r)

(* A maximum of 0 or less is no maximum to Ollama.                         *)
OllamaSampling(r) ==
  "mirostat" \notin r.options /\ r.temperature \in 0..2 /\ r.top_p \in 0..1

SupportedOptions(r) == r.options \cap {"n", "logprobs"} = {}

OllamaSupported(r) == r.options \cap {"format", "think"} = {}

(* chat_completions                                                        *)
ChatAccepts(r) ==
  /\ Resolves(r) /\ r.roles # <<>> /\ SupportedOptions(r)
  /\ ToSet(r.roles) \subseteq OpenAiRoles /\ ChatContentOk(r) /\ ChatCallsOk(r)
  /\ ~r.system /\ SystemFirst(ParsedRoles(r))
  /\ ToolsNormalize(r) /\ ToolChoiceOk(r) /\ OpenAiSampling(r)

(* responses                                                               *)
ResponsesAccepts(r) ==
  /\ Resolves(r) /\ r.roles # <<>>
  /\ ToSet(r.roles) \subseteq OpenAiRoles /\ ResponseContentOk(r)
  /\ SystemFirst(WithSystem(r))
  /\ ToolsNormalize(r) /\ ToolChoiceOk(r) /\ OpenAiSampling(r)

(* normalize: max_tokens is required, and may be 0.                        *)
MessagesAccepts(r) ==
  /\ Resolves(r) /\ r.maximum >= 0 /\ r.roles # <<>>
  /\ ToSet(r.roles) \subseteq AnthropicRoles /\ AnthropicContentOk(r)
  /\ r.temperature \in 0..1 /\ r.top_p \in 0..1
  /\ ToolsNormalize(r)

(* chat                                                                    *)
OllamaChatAccepts(r) ==
  /\ Resolves(r) /\ r.roles # <<>> /\ OllamaSupported(r)
  /\ r.content = "text" /\ ~r.system
  /\ ToSet(r.roles) \subseteq OllamaRoles /\ ToolsNormalize(r)
  /\ OllamaSampling(r)

(* generate: one prompt and no tools, whatever else is sent.               *)
OllamaGenerateAccepts(r) ==
  /\ Resolves(r) /\ OllamaSupported(r)
  /\ r.options \cap {"raw", "template", "context", "suffix"} = {}
  /\ r.content = "text" /\ OllamaSampling(r)

Accepts(p, r) ==
  CASE p = "chat completions" -> ChatAccepts(r)
    [] p = "responses"        -> ResponsesAccepts(r)
    [] p = "messages"         -> MessagesAccepts(r)
    [] p = "ollama chat"      -> OllamaChatAccepts(r)
    [] OTHER                  -> OllamaGenerateAccepts(r)

(* What goes on of it: tool_choice "none" drops the tools, and a generate  *)
(* request has one user message and no tools.                              *)
Normalized(p, r) ==
  [messages |-> IF p = "ollama generate" THEN WithSystem([r EXCEPT !.roles = <<"user">>])
                ELSE WithSystem(r),
   tools    |-> r.tools = "function" /\ p # "ollama generate"
                  /\ (r.choice # "none" \/ p \in {"messages", "ollama chat"})]

-----------------------------------------------------------------------------
(* tokenizer/chat.rs render: the turns of the prompt, each with the        *)
(* messages in it.  The tool definitions are a system turn that takes a    *)
(* leading system message in; tool results that follow each other share a  *)
(* user turn.                                                              *)
Turn(role, content) == [role |-> role, content |-> content]

RenderMessage(turns, messages, i) ==
  CASE messages[i] = "tool" /\ i > 1 /\ messages[i - 1] = "tool" ->
         Append(Front(turns), Turn("user", Last(turns).content \o <<i>>))
    [] messages[i] = "tool" /\ ~(i > 1 /\ messages[i - 1] = "tool") ->
         Append(turns, Turn("user", <<i>>))
    [] OTHER -> Append(turns, Turn(messages[i], <<i>>))

(* Mutant: a system message behind the tool definitions is rendered again. *)
RenderTwice(messages, tools) ==
  LET system == messages # <<>> /\ messages[1] = "system"
      head   == IF ~tools THEN <<>> ELSE <<Turn("system", IF system THEN <<0, 1>> ELSE <<0>>)>>
      turns[n \in 0..Len(messages)] ==
        IF n = 0 THEN head ELSE RenderMessage(turns[n - 1], messages, n)
  IN Append(turns[Len(messages)], Turn("assistant", <<>>))

Render(messages, tools) ==
  LET system == messages # <<>> /\ messages[1] = "system"
      head   == IF ~tools THEN <<>> ELSE <<Turn("system", IF system THEN <<0, 1>> ELSE <<0>>)>>
      first  == IF tools /\ system THEN 2 ELSE 1
      turns[n \in 0..Len(messages)] ==
        IF n < first THEN head ELSE RenderMessage(turns[n - 1], messages, n)
  IN Append(turns[Len(messages)], Turn("assistant", <<>>))

-----------------------------------------------------------------------------
(* anthropic: BlockWriter                                                  *)
NewWriter == [open |-> "none", index |-> 0]


CloseOpen(w) ==
  IF w.open = "none" THEN [writer |-> w, frames |-> <<>>]
  ELSE [writer |-> [open |-> "none", index |-> w.index + 1],
        frames |-> <<Frame("content_block_stop", w.index, w.open, <<>>)>>]

StartBlock(w, kind) ==
  LET c == CloseOpen(w)
  IN [writer |-> [c.writer EXCEPT !.open = kind],
      frames |-> Append(c.frames, Frame("content_block_start", c.writer.index, kind, <<>>))]

BlockDelta(w, e) ==
  LET s == IF w.open = e.kind THEN [writer |-> w, frames |-> <<>>] ELSE StartBlock(w, e.kind)
  IN [writer |-> s.writer,
      frames |-> Append(s.frames, Frame("content_block_delta", s.writer.index, e.kind, e.text))]

ToolUse(w, e) ==
  LET s == StartBlock(w, "tool")
      c == CloseOpen(s.writer)
  IN [writer |-> c.writer,
      frames |-> Append(s.frames, Frame("content_block_delta", s.writer.index, "tool", e.text)) \o c.frames]

-----------------------------------------------------------------------------
(* What each adapter sends first, of an event and at the end.              *)
Preamble(p) ==
  CASE p = "chat completions" -> <<Mark("role")>>
    [] p = "responses"        -> <<Mark("response.created")>>
    [] p = "messages"         -> <<Mark("message_start")>>
    [] OTHER                  -> <<>>

MessagesEvent(w, e) == IF e.kind = "tool" THEN ToolUse(w, e) ELSE BlockDelta(w, e)

(* partial_line: tool calls are held back for the last line.               *)
PartialLine(e) == IF e.kind = "tool" THEN <<>> ELSE <<Frame("line", 0, e.kind, e.text)>>

RenderEvent(p, w, e) ==
  CASE p = "messages" -> MessagesEvent(w, e)
    [] p \in {"chat completions", "responses"} ->
         [writer |-> w, frames |-> <<Frame("delta", 0, e.kind, e.text)>>]
    [] OTHER -> [writer |-> w, frames |-> PartialLine(e)]

StopReason(finish) ==
  CASE finish = "length" -> "max_tokens"
    [] finish = "tool_calls" -> "tool_use"
    [] OTHER -> "end_turn"
DoneReason(finish) == IF finish = "length" THEN "length" ELSE "stop"

(* output: the text, the tool calls and the finish reason of into_output.  *)
(* stream_chat_completion                                                  *)
ChatCompleted(output) == <<Frame("finish", 0, output.finish, <<>>), Mark("[DONE]")>>

(* stream_response                                                         *)
ResponseCompleted(output) ==
  <<Mark("response.output_text.done"), Frame("response.completed", 0, output.finish, <<>>)>>

(* stream_messages: the open block is closed before anything else.         *)
MessagesCompleted(w, output) ==
  CloseOpen(w).frames
    \o <<Frame("message_delta", 0, StopReason(output.finish), <<>>), Mark("message_stop")>>

FinalLine(output) == <<Frame("done", 0, DoneReason(output.finish), output.tool_calls)>>

Completed(p, w, output) ==
  CASE p = "chat completions" -> ChatCompleted(output)
    [] p = "responses"        -> ResponseCompleted(output)
    [] p = "messages"         -> MessagesCompleted(w, output)
    [] OTHER                  -> FinalLine(output)

ErrorLine == <<Frame("done", 0, "error", <<>>)>>

Failed(p, w) ==
  CASE p = "chat completions" -> <<Mark("error"), Mark("[DONE]")>>
    [] p = "responses"        -> <<Mark("error")>>
    [] p = "messages"         -> CloseOpen(w).frames \o <<Mark("error")>>
    [] OTHER                  -> ErrorLine

(* What a client that asked for no stream gets of the same output.         *)
ChatBody(output)     == [text |-> output.text, tools |-> output.tool_calls, reason |-> output.finish]
ResponseBody(output) == [text |-> output.text, tools |-> output.tool_calls, reason |-> output.finish]
MessageBody(output)  == [text |-> output.text, tools |-> output.tool_calls, reason |-> StopReason(output.finish)]
OllamaBody(output)   == [text |-> output.text, tools |-> output.tool_calls, reason |-> DoneReason(output.finish)]

Body(p, output) ==
  CASE p = "chat completions" -> ChatBody(output)
    [] p = "responses"        -> ResponseBody(output)
    [] p = "messages"         -> MessageBody(output)
    [] OTHER                  -> OllamaBody(output)

-----------------------------------------------------------------------------
(* A client of each protocol: what it has received, and whether every      *)
(* frame was one its protocol allows there.                                *)
NewClient ==
  [over |-> FALSE, open |-> "none", index |-> 0, started |-> FALSE, text |-> <<>>, tools |-> <<>>,
   reason |-> "none", fits |-> TRUE]

Terminal(p) ==
  CASE p = "chat completions" -> {"[DONE]"}
    [] p = "responses"        -> {"response.completed", "error"}
    [] p = "messages"         -> {"message_stop", "error"}
    [] OTHER                  -> {"done"}

Fits(p, c, f) ==
  /\ ~c.over
  /\ p = "messages" =>
       CASE f.type = "message_start"       -> ~c.started
         [] f.type = "content_block_start" -> c.started /\ c.open = "none" /\ f.index = c.index
         [] f.type = "content_block_delta" -> c.open = f.kind /\ f.index = c.index
         [] f.type = "content_block_stop"  -> c.open # "none" /\ f.index = c.index
         [] OTHER                          -> c.started /\ c.open = "none"

Read(p, c, f) ==
  [c EXCEPT
    !.fits    = @ /\ Fits(p, c, f),
    !.over    = @ \/ f.type \in Terminal(p),
    !.started = TRUE,
    !.open    = CASE f.type = "content_block_start" -> f.kind
                  [] f.type = "content_block_stop" -> "none"
                  [] OTHER -> @,
    !.index   = IF f.type = "content_block_stop" THEN @ + 1 ELSE @,
    !.text    = IF f.kind = "text" THEN @ \o f.text ELSE @,
    !.tools   = CASE f.kind = "tool" /\ f.text # <<>> -> Append(@, f.text)
                  [] f.type = "done" -> f.text
                  [] OTHER -> @,
    !.reason  = IF f.type \in {"finish", "response.completed", "message_delta", "done"} THEN f.kind ELSE @]

ReadAll(p, c, frames) ==
  LET upTo[n \in 0..Len(frames)] == IF n = 0 THEN c ELSE Read(p, upTo[n - 1], frames[n])
  IN upTo[Len(frames)]
=============================================================================
