---------------------------- MODULE MCGeneration -----------------------------
(* Generation over six symbols, one of them (u) of two bytes: tags of two, *)
(* stop strings that overlap them, tokens for whole tags and their halves. *)
EXTENDS Generation

MCPiece ==
    [t \in Tokens |-> CASE t = "<o" -> <<"<", "o">> [] t = "</" -> <<"<", "/">>
                       [] OTHER -> <<t>>]

MCPairs == {[open |-> <<"<", "o">>, close |-> <<"<", "/">>]}
MCStopSets == {{<<"a", "<">>, <<"/", "a">>}, {<<"u", "<">>, <<"u", "a">>}}
MCWidth == [x \in {"<", "o", "/", "a", "m", "u"} |-> IF x = "u" THEN 2 ELSE 1]
MCMarker == <<"m">>
MCMessage == <<"o">>
MCCloseTokens == {<<"</">>, <<"<", "/">>}
MCPrompt == <<"a", "o", "a", "/">>
==============================================================================
