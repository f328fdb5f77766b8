---------------------------- MODULE MCLineEditor ----------------------------
(* A buffer of three bytes, a history of two lines, sessions of three.       *)
EXTENDS LineEditor

MCChars == {"/", " "}
MCSuffixes == {<<>>, <<"/">>}
=============================================================================
