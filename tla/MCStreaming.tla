---------------------------- MODULE MCStreaming ----------------------------
EXTENDS Streaming, Integers

MCVocabulary ==
  {<<>>, <<"a">>, <<"n">>, <<"<">>, <<"t">>, <<"c">>, <<"e">>,
   <<"<", "t">>, <<"<", "c">>, <<"t", "n">>, <<"c", "a">>, <<"a", "<">>, <<"e", "a">>, <<"<", "e">>, <<"c", "e">>,
   <<"<", "c", "a", "<", "e">>}

MCStops     == {{}, {<<"a", "<", "c">>}, {<<"e">>}, {<<"a", "<", "c">>, <<"e">>}}
MCMaxima    == {0, 4}

MCRoles == UNION {[1..n -> {"system", "developer", "user", "tool", "other"}] : n \in 0..3}

MCRequests ==
  {[PlainRequest EXCEPT !.roles = r, !.system = s, !.tools = t] :
     r \in MCRoles, s \in BOOLEAN, t \in {"none", "function"}}
    \union {[PlainRequest EXCEPT !.model = "other"], [PlainRequest EXCEPT !.content = "image"], [PlainRequest EXCEPT !.content = "parts"],
            [PlainRequest EXCEPT !.content = "null"], [PlainRequest EXCEPT !.model = "unnamed"],
            [PlainRequest EXCEPT !.calls = "function"],
            [PlainRequest EXCEPT !.calls = "function", !.roles = <<"user", "assistant">>],
            [PlainRequest EXCEPT !.tools = "other"]}
    \union {[PlainRequest EXCEPT !.choice = c, !.temperature = t, !.maximum = m] :
              c \in {"auto", "none", "required"}, t \in 0..3, m \in {-1, 0, 1}}
    \union {[PlainRequest EXCEPT !.stops = n, !.options = o, !.top_p = t] :
              n \in {0, 4, 5}, o \in {{}, {"n"}, {"format"}, {"raw"}}, t \in 0..2}
=============================================================================
