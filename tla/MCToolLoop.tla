----------------------------- MODULE MCToolLoop ------------------------------
(* Two rounds of up to two calls, replies of up to three pieces.            *)
EXTENDS ToolLoop

MCShapes == {<<>>, <<"text">>, <<"reasoning", "text">>, <<"text", "empty", "reasoning">>,
             <<"reasoning", "empty", "text">>, <<"text", "reasoning", "text">>}
MCCallShapes == {<<>>, <<"object">>, <<"cut", "object">>}

Chunk(t, r, c, fin) ==
    [kind |-> "chunk", text |-> t, reasoning |-> r, calls |-> c, finish |-> fin]
MCChunks == {Chunk(<<<<"a">>>>, <<>>, <<>>, FALSE), Chunk(<<>>, <<<<"r">>>>, <<>>, FALSE),
             Chunk(<<<<"b">>>>, <<<<"r">>>>, <<<<"call">>>>, TRUE), Chunk(<<>>, <<>>, <<>>, TRUE)}
MCEnds == {[kind |-> "done", text |-> <<<<"a">>>>, reasoning |-> <<<<"r">>>>], [kind |-> "error"]}
MCResponses ==
    {<<c>> : c \in MCChunks} \cup {p \in MCChunks \X (MCChunks \cup MCEnds) : p[1] # p[2]}
        \cup {<<e>> : e \in MCEnds} \cup {<<>>}
==============================================================================
