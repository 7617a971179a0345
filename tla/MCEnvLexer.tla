---------------------------- MODULE MCEnvLexer ----------------------------
(* Small instances of EnvLexer for TLC: every text of up to six characters *)
(* and every line of up to two words of up to two.                         *)
EXTENDS EnvLexer

MCOrdinary == {"a", "b"}
MCChars == {"a", " ", "\"", "\\"}
MCTexts == UNION {[1 .. n -> MCChars] : n \in 0 .. 6}
MCWords == UNION {[1 .. n -> MCChars \cup {"b"}] : n \in 1 .. 2}
MCLines == UNION {[1 .. n -> MCWords] : n \in 1 .. 2}
=============================================================================
