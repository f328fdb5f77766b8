--------------------------- MODULE MCApplication ---------------------------
(* All lines of up to four lexemes, and chains of up to three commands, with *)
(* and without blanks around "&&".                                           *)
EXTENDS Application

MCLexemes == {"cd", "exit", "a", " ", "&&"}
MCListings == {"ls"}
MCOperands == {"cd"}
MCNotices == {"help"}
MCLeaves == {"exit"}

Short == UNION {[1 .. n -> MCLexemes] : n \in 0 .. 4}
Commands == {<<"cd", " ", "a">>, <<"ls">>, <<"help">>, <<"exit">>, <<"a">>}
Tight == <<"&&">>
Wide == <<" ", "&&", " ">>
Chains ==
  {c \o j \o d : c, d \in Commands, j \in {Tight, Wide}}
    \cup {c \o Wide \o d \o Wide \o e : c, d, e \in Commands \cup {<<>>}}
MCLines == Short \cup Chains
MCWords == MCLexemes \cup {"ls", "help"}
=============================================================================
