------------------------------ MODULE MCConsole ------------------------------
EXTENDS Console, TLC
MCArea == (MainLoop :> [col |-> 1, row |-> 0, len |-> 2])
          @@ [t \in Demos |-> [col |-> 1, row |-> 2, len |-> 1]]
MCTexts == {<<"glyph", "newline">>, <<"return", "backspace">>,
            <<"newline", "glyph", "backspace">>}
MCPrompt == <<"glyph">>
=============================================================================
