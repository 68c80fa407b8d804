------------------------------- MODULE MCTerminal -------------------------------
EXTENDS Terminal

MCKeySets == {{"text", "Body", "compose"}, {"text", "Cc", "compose"}, {"files", "compose"},
              {"panes", "compose", "save"}, {"detail"}, {"preview"},
              {"panes", "search", "help"}, {"command", "help", "save"}, {"toasts"}, Bar}
MCChars == {"c", "s", "k"}
\* Two conversations that share no message: one stack of two, one message of its own.
MCConversations == {<<>>, <<1, 2>>, <<3>>}
MCBodyOf == <<<<"c">>, <<"c", "n", "c", "c">>, <<"c", "c", "n">>>>
MCSummaryOf == [m \in 1..3 |-> <<"s">>]
MCFilesOf == [m \in 1..3 |-> IF m = 1 THEN 2 ELSE 0]
MCPreviewLines == [f \in 0..1 |-> 2 * f + 1]
\* A short reply, and a forward whose body and files are past the limits of typing.
MCPrefills ==
  {[to |-> <<<<"c">>>>, cc |-> <<<<"w">>, <<"c">>>>, bcc |-> <<>>, subject |-> <<"c">>,
    body |-> <<"n", "c">>, files |-> 0],
   [to |-> <<>>, cc |-> <<>>, bcc |-> <<>>, subject |-> <<"c", "w", "c", "s", "c">>,
    body |-> <<"c", "n", "s", "c">>, files |-> 3]}
\* Wide, plain and combining characters; terminals around the sizes the overlay tells apart.
MCTexts == UNION {[1..n -> 0..2] : n \in 0..2} \cup {<<1, 1, 1>>, <<2, 1, 2>>, <<1, 0, 2>>}
MCFrames == [w : {0, 1, 39, 40, 41, 80, 900}, h : {1, 2, 5, 6, 15, 16, 21, 50}]
\* Prefixes of one or several names, slips of every kind, words with their arguments.
MCTypedFragments ==
    {<<"s">>, <<"t">>, <<"e">>, <<" ">>, <<"r","e">>, <<"f","l">>,
     <<"a","r","c","i","h","v">>, <<"g","o","o","t">>, <<"s","e","n">>, <<"s","y","n","c","h">>,
     <<"m","o","v","e"," ">>, <<"t","h","e","m","e"," ">>, <<"d","a","r","k">>,
     <<"s","e","a","r","c","h"," ">>, <<"s","e","a","r","c","h"," ">> \o AccountFlag \o <<" ">>,
     AccountFlag \o <<" ">>, <<"x"," ","x">>}
=================================================================================
