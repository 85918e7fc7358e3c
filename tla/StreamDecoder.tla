--------------------------- MODULE StreamDecoder ---------------------------
(***************************************************************************)
(* src/src/runtime/stream_decoder.rs: IncrementalOutputDecoder, which      *)
(* turns the text of the tokens into what a client may see, and            *)
(* src/src/runtime/generation.rs: GeneratedOutput::from_model_text, which  *)
(* does it for a whole text at once.                                       *)
(*                                                                         *)
(* A text is a sequence of symbols.  The delimiters are two symbols long   *)
(* and begin alike, so that each can be cut in two by a token and be       *)
(* mistaken for another: "<t" is </think>, "<c" is <tool_call> and "<e" is *)
(* </tool_call>.  "n" is a newline; a tool call's body parses iff it       *)
(* begins with "a" once trimmed.                                           *)
(***************************************************************************)
EXTENDS Naturals, Sequences, SequencesExt, FiniteSetsExt

THINK_END       == <<"<", "t">>
TOOL_CALL_START == <<"<", "c">>
TOOL_CALL_END   == <<"<", "e">>

Reasoning(text) == [kind |-> "reasoning", text |-> text]
TextDelta(text) == [kind |-> "text", text |-> text]
ToolCall(body)  == [kind |-> "tool", text |-> body]

-----------------------------------------------------------------------------
(* str::find, split_at and trim_start_matches; 0 for None.                 *)
Find(text, pattern) ==
  LET at == {i \in 1..(Len(text) - Len(pattern) + 1) :
               SubSeq(text, i, i + Len(pattern) - 1) = pattern}
  IN IF at = {} THEN 0 ELSE Min(at)

Before(text, at)      == SubSeq(text, 1, at - 1)
After(text, at, mark) == SubSeq(text, at + Len(mark), Len(text))

TrimNewlines(text) ==
  LET rest == {i \in 1..Len(text) : text[i] # "n"}
  IN IF rest = {} THEN <<>> ELSE SubSeq(text, Min(rest), Len(text))
Trim(text) == Reverse(TrimNewlines(Reverse(TrimNewlines(text))))

(* parse_tool_call: only whether it parses.                                *)
Parses(body) == Trim(body) # <<>> /\ Head(Trim(body)) = "a"

(* Mutant: nothing is held back.                                           *)
HeldBackNone(text, watched) == 0

(* suffix_that_could_grow_into: the longest suffix that is a proper prefix *)
(* of a watched string.                                                    *)
HeldBack(text, watched) ==
  Max({0} \union {n \in 1..Len(text) :
        \E w \in watched : n < Len(w) /\ SubSeq(text, Len(text) - n + 1, Len(text)) = SubSeq(w, 1, n)})

-----------------------------------------------------------------------------
(* IncrementalOutputDecoder::new                                           *)
NewDecoder(stops, thinking) ==
  [thinking |-> thinking, pending |-> <<>>, in_tool_call |-> FALSE, tool_buffer |-> <<>>,
   tool_call_count |-> 0, stops |-> stops \ {<<>>}, stopped |-> FALSE, trimming |-> FALSE]

Emitted(out, event) == IF event.text = <<>> THEN out ELSE Append(out, event)

(* take_prefix: what can no longer grow into anything watched is shown.    *)
TakePrefix(d, watched, final) ==
  LET hold == IF final THEN 0 ELSE HeldBack(d.pending, watched)
  IN [shown |-> SubSeq(d.pending, 1, Len(d.pending) - hold),
      kept  |-> SubSeq(d.pending, Len(d.pending) - hold + 1, Len(d.pending))]

(* first_stop_match                                                        *)
FirstStop(d) ==
  LET at == {Find(d.pending, s) : s \in d.stops} \ {0}
  IN IF at = {} THEN 0 ELSE Min(at)

(* Mutant: the run of newlines ends with the first piece of text.          *)
TrimmedOnce(d) ==
  IF ~d.trimming THEN d
  ELSE [d EXCEPT !.pending = TrimNewlines(d.pending), !.trimming = FALSE]

(* The newlines behind </think> go, however many tokens they come in.      *)
Trimmed(d) ==
  IF ~d.trimming THEN d
  ELSE [d EXCEPT !.pending = TrimNewlines(d.pending),
                 !.trimming = TrimNewlines(d.pending) = <<>>]

(* drain: one turn of its loop, until nothing more is safe; it fails when *)
(* a tool call does not parse.                                             *)
Ended(d, out)   == [dec |-> d, out |-> out, going |-> FALSE, failed |-> FALSE]
GoingOn(d, out) == [dec |-> d, out |-> out, going |-> TRUE, failed |-> FALSE]
NotParsed(d, out) == [dec |-> d, out |-> out, going |-> FALSE, failed |-> TRUE]

DrainThinking(d, out, final) ==
  LET at == Find(d.pending, THINK_END)
      t  == TakePrefix(d, {THINK_END}, final)
  IN IF at > 0
     THEN GoingOn([d EXCEPT !.pending = After(@, at, THINK_END), !.thinking = FALSE, !.trimming = TRUE],
                  Emitted(out, Reasoning(Before(d.pending, at))))
     ELSE Ended([d EXCEPT !.pending = t.kept], Emitted(out, Reasoning(t.shown)))

DrainToolCall(d, out) ==
  LET buffer == d.tool_buffer \o d.pending
      at     == Find(buffer, TOOL_CALL_END)
  IN CASE at = 0 -> Ended([d EXCEPT !.tool_buffer = buffer, !.pending = <<>>], out)
       [] at > 0 /\ ~Parses(Before(buffer, at)) -> NotParsed(d, out)
       [] OTHER ->
            GoingOn([d EXCEPT !.pending = After(buffer, at, TOOL_CALL_END), !.tool_buffer = <<>>,
                              !.in_tool_call = FALSE, !.tool_call_count = @ + 1],
                    Append(out, ToolCall(Trim(Before(buffer, at)))))

DrainVisible(d, out, final) ==
  LET stop == FirstStop(d)
      tool == Find(d.pending, TOOL_CALL_START)
      t    == TakePrefix(d, {TOOL_CALL_START} \union d.stops, final)
  IN CASE stop > 0 /\ (tool = 0 \/ stop < tool) ->
            Ended([d EXCEPT !.pending = <<>>, !.stopped = TRUE],
                  Emitted(out, TextDelta(Before(d.pending, stop))))
       [] tool > 0 /\ (stop = 0 \/ tool <= stop) ->
            GoingOn([d EXCEPT !.pending = <<>>, !.in_tool_call = TRUE,
                              !.tool_buffer = After(d.pending, tool, TOOL_CALL_START)],
                    Emitted(out, TextDelta(Before(d.pending, tool))))
       [] OTHER -> Ended([d EXCEPT !.pending = t.kept], Emitted(out, TextDelta(t.shown)))

DrainOnce(d, out, final) ==
  CASE d.stopped -> Ended([d EXCEPT !.pending = <<>>], out)
    [] ~d.stopped /\ d.thinking -> DrainThinking(d, out, final)
    [] ~d.stopped /\ ~d.thinking /\ d.in_tool_call -> DrainToolCall(d, out)
    [] OTHER -> IF Trimmed(d).trimming /\ ~final THEN Ended(Trimmed(d), out)
                ELSE DrainVisible(Trimmed(d), out, final)

(* Every turn that goes on takes a delimiter out of what is buffered.      *)
Turns(d) == Len(d.tool_buffer) + Len(d.pending) + 1

Drain(d, out, final) ==
  LET after[n \in 0..Turns(d)] ==
        IF n = 0 THEN GoingOn(d, out)
        ELSE LET x == after[n - 1] IN IF x.going THEN DrainOnce(x.dec, x.out, final) ELSE x
  IN after[Turns(d)]

(* push: nothing is taken in once stopped.                                 *)
Push(d, text) ==
  IF d.stopped \/ text = <<>> THEN Ended(d, <<>>)
  ELSE Drain([d EXCEPT !.pending = @ \o text], <<>>, FALSE)

(* finish: what was held back is released; an open tool call is dropped.   *)
FinishDecoder(d) ==
  IF d.stopped THEN Ended(d, <<>>) ELSE Drain(d, <<>>, TRUE)

StreamFinish(d) ==
  CASE d.in_tool_call -> "length"
    [] ~d.in_tool_call /\ d.tool_call_count > 0 -> "tool_calls"
    [] OTHER -> "stop"

-----------------------------------------------------------------------------
(* visible_after_thinking, from_qwen_continuation and from_model_text: the *)
(* same, of a whole text and without stop sequences.  It fails at a tool   *)
(* call that does not end or parse, with the text before that at hand.     *)
ParseOnce(x) ==
  LET start == Find(x.rest, TOOL_CALL_START)
      rest  == After(x.rest, start, TOOL_CALL_START)
      end   == Find(rest, TOOL_CALL_END)
  IN CASE start = 0 -> [x EXCEPT !.text = @ \o x.rest, !.going = FALSE]
       [] start > 0 /\ (end = 0 \/ ~Parses(Before(rest, end))) ->
            [x EXCEPT !.text = @ \o Before(x.rest, start), !.going = FALSE, !.failed = TRUE]
       [] OTHER ->
            [x EXCEPT !.text = @ \o Before(x.rest, start), !.rest = After(rest, end, TOOL_CALL_END),
                      !.calls = Append(@, Trim(Before(rest, end)))]

Parsing(text) ==
  LET after[n \in 0..(Len(text) + 1)] ==
        IF n = 0 THEN [text |-> <<>>, calls |-> <<>>, rest |-> text, going |-> TRUE, failed |-> FALSE]
        ELSE IF after[n - 1].going THEN ParseOnce(after[n - 1]) ELSE after[n - 1]
  IN after

FromModelText(text) == Parsing(text)[Len(text) + 1]

FromQwenContinuation(text) ==
  LET at == Find(text, THINK_END)
  IN IF at = 0 THEN FromModelText(<<>>)
     ELSE FromModelText(TrimNewlines(After(text, at, THINK_END)))
=============================================================================
