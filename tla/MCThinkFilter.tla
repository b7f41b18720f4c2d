--------------------------- MODULE MCThinkFilter ---------------------------
EXTENDS ThinkFilter

\* Those of the markers and of characters of each length, text and reasoning.
MCBytes == {"<", "/", "t", ">", "2", "3", "4", "+", "a", "r"}

\* Markers, a stray "<" and "/", text, a character of each length.  The filter
\* works byte by byte, so how a byte sequence is cut into chunks makes no other
\* states: an overflowing marker buffer cuts a character anywhere.
MCTokens == {Open, Close, <<"<">>, <<"/">>, <<"a">>,
             <<"2", "+">>, <<"3", "+", "+">>, <<"4", "+", "+", "+">>}

\* The same with reasoning text.
LeakTokens == MCTokens \cup {<<"r">>}
===========================================================================
