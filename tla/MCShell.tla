------------------------------- MODULE MCShell -------------------------------
(* Values for the constants of Shell.                                      *)
EXTENDS ShellProperties

CONSTANT MaxTokens

(* All lines of up to MaxTokens tokens.                                    *)
MCTokens == {"ls", "cd", "<", ">", "|", "&"}
ShortLines == UNION {[1 .. n -> MCTokens] : n \in 0 .. MaxTokens}

(* Lines in the syntax of the readme, and some that are not.               *)
Commands == {w \o i \o o : w \in {<<"ls">>, <<"ls", "x">>},
               i \in {<<>>, <<"<", "f">>}, o \in {<<>>, <<">", "f">>, <<">>", "f">>}}
Pairs == {a \o <<s>> \o b : a, b \in Commands, s \in {"|", "&"}}
Triples == {a \o <<s>> \o b \o <<t>> \o c :
              a, b, c \in {<<"ls">>, <<"echo", "x">>, <<"cd", "x">>, <<"quit">>},
              s, t \in {"|", "&"}}
Special == {<<"none", "&">>, <<"pause">>, <<"ls", "|", "pause">>, <<"pause", "|", "ls">>, <<"pause", "<", "f">>,
            <<"ls", "|", "ls", "&", "ls", "|", "ls">>, <<"cd", "&", "ls", "|", "ls">>,
            <<"ls", "|", "none", "x", "&", "echo">>}

(* Lines that matter to the lines after them.                              *)
BatchLines == {<<>>, <<"ls">>, <<"echo", "x">>, <<"none">>, <<"ls", "|", "none">>,
               <<"ls", "x", "|">>, <<"quit">>}

MCTerminalScripts ==
  {<<l>> : l \in ShortLines \cup Pairs \cup Triples \cup Special}
  \cup {<<k, l>> : k \in {<<"ls", "x", "|">>, <<"ls", "|", "ls">>}, l \in BatchLines}
LongFiles == [1 .. 3 -> {<<"ls">>, <<"echo", "x">>, <<"ls", "|", "none">>}]
MCBatchFiles == UNION {[1 .. n -> BatchLines] : n \in 1 .. 2} \cup LongFiles
EchoFile == {<<<<"echo">>, <<"echo">>, <<"echo">>>>}
=============================================================================
