------------------------------ MODULE EnvLexer ------------------------------
(***************************************************************************)
(* ParseNodeOptionsEnvVar: the text of NODE_OPTIONS is split at spaces,    *)
(* with double quotes around what has spaces in it and backslashes that    *)
(* escape inside the quotes only. One step reads one character, or a       *)
(* backslash with the character behind it.                                 *)
(*                                                                         *)
(* Names that NodeOptions has too begin with Lex here, so that one module  *)
(* can extend both.                                                        *)
(***************************************************************************)
EXTENDS Integers, FiniteSets, Sequences

CONSTANTS
  Ordinary,   \* characters without a meaning of their own
  Texts,      \* texts that NODE_OPTIONS may have
  Lines       \* lists of words that a user wants to pass on

\* Under a name: NodeOptions has some of these operators too.
Seqs == INSTANCE SequencesExt

Space == " "
Quote == "\""
Backslash == "\\"
Chars == Ordinary \cup {Space, Quote, Backslash}

ASSUME LexerAssumption ==
  /\ Ordinary \cap {Space, Quote, Backslash} = {}
  /\ Texts \subseteq Seq(Chars)
  /\ Lines \subseteq Seq(Seq(Chars) \ {<<>>})

VARIABLES
  line,           \* the words that node_options was written for, or <<>>
  node_options, index,   \* the text, and how much of it was read
  is_in_string, will_start_new_arg, env_argv,
  lex_errors,     \* the messages in errors
  done            \* whether the function has returned

lex_vars == <<line, node_options, index, is_in_string, will_start_new_arg, env_argv, lex_errors, done>>

\* How a user writes a word: as it is if it has none of the special
\* characters, or in quotes, with backslashes.
Bare(word) == IF Seqs!ToSet(word) \subseteq Ordinary THEN {word} ELSE {}
Quoted(word) ==
  <<Quote>> \o Seqs!FlattenSeq([i \in DOMAIN word |->
     IF word[i] \in {Quote, Backslash} THEN <<Backslash, word[i]>> ELSE <<word[i]>>]) \o <<Quote>>

\* What a list of words may look like in the variable.
Written(words) ==
  LET ways == [i \in DOMAIN words |-> Bare(words[i]) \cup {Quoted(words[i])}]
      picks == {p \in [DOMAIN words -> UNION {ways[i] : i \in DOMAIN words}] :
                  \A i \in DOMAIN words : p[i] \in ways[i]}
  IN {Seqs!FlattenSeq([i \in DOMAIN words |-> p[i] \o <<Space>>]) : p \in picks}

-----------------------------------------------------------------------------
\* Mutant: a word keeps its last character only.
PutOver(c) ==
  /\ env_argv' = IF will_start_new_arg THEN Append(env_argv, <<c>>)
                 ELSE [env_argv EXCEPT ![Len(env_argv)] = <<c>>]
  /\ will_start_new_arg' = FALSE

\* A character of a word: it starts the next word, or goes on with the last.
Put(c) ==
  /\ env_argv' = IF will_start_new_arg THEN Append(env_argv, <<c>>)
                 ELSE [env_argv EXCEPT ![Len(env_argv)] = Append(@, c)]
  /\ will_start_new_arg' = FALSE

\* Mutant: a backslash escapes outside the quotes.
EscapesOutside(c) == c = Backslash /\ ~is_in_string

\* Backslashes escape the following character, inside the quotes.
Escapes(c) == c = Backslash /\ is_in_string

More == ~done /\ index < Len(node_options)
NextChar == node_options[index + 1]

ReadEscaped ==
  /\ More /\ Escapes(NextChar)
  /\ IF index + 2 > Len(node_options)
     THEN /\ lex_errors' = lex_errors \cup {"invalid-escape"} /\ done' = TRUE
          /\ UNCHANGED <<index, env_argv, will_start_new_arg>>
     ELSE /\ Put(node_options[index + 2]) /\ index' = index + 2
          /\ UNCHANGED <<lex_errors, done>>
  /\ UNCHANGED <<line, node_options, is_in_string>>

ReadSpace ==
  /\ More /\ NextChar = Space /\ ~is_in_string
  /\ will_start_new_arg' = TRUE /\ index' = index + 1
  /\ UNCHANGED <<line, node_options, is_in_string, env_argv, lex_errors, done>>

ReadQuote ==
  /\ More /\ NextChar = Quote
  /\ is_in_string' = ~is_in_string /\ index' = index + 1
  /\ UNCHANGED <<line, node_options, will_start_new_arg, env_argv, lex_errors, done>>

ReadChar ==
  /\ More /\ ~Escapes(NextChar)
  /\ NextChar # Quote /\ (NextChar = Space => is_in_string)
  /\ Put(NextChar) /\ index' = index + 1
  /\ UNCHANGED <<line, node_options, is_in_string, lex_errors, done>>

\* Mutant: the end of the text closes the string.
AnyEnd == {}

\* What the end of the text is an error for.
ErrorsAtEnd == IF is_in_string THEN {"unterminated-string"} ELSE {}

EndOfText ==
  /\ ~done /\ index = Len(node_options)
  /\ lex_errors' = lex_errors \cup ErrorsAtEnd /\ done' = TRUE
  /\ UNCHANGED <<line, node_options, index, is_in_string, will_start_new_arg, env_argv>>

LexInit ==
  /\ \/ line \in Lines /\ node_options \in Written(line)
     \/ line = <<>> /\ node_options \in Texts
  /\ index = 0 /\ done = FALSE
  /\ is_in_string = FALSE /\ will_start_new_arg = TRUE
  /\ env_argv = <<>> /\ lex_errors = {}

LexNext == ReadEscaped \/ ReadSpace \/ ReadQuote \/ ReadChar \/ EndOfText

LexSpec == LexInit /\ [][LexNext]_lex_vars

-----------------------------------------------------------------------------
\* The state has its types; no word is ever empty, so there is a last one to
\* go on with whenever no new one is due.
LexTypeOK ==
  /\ index \in 0 .. Len(node_options)
  /\ {is_in_string, will_start_new_arg, done} \subseteq BOOLEAN
  /\ env_argv \in Seq(Seq(Chars)) /\ <<>> \notin Seqs!ToSet(env_argv)
  /\ env_argv = <<>> => will_start_new_arg
  /\ lex_errors \subseteq {"invalid-escape", "unterminated-string"}

\* Every list of words without an empty one can be passed on through the
\* variable: written with quotes and backslashes where they are needed, it
\* arrives as it was.
WordsArrive == done /\ line # <<>> => env_argv = line /\ lex_errors = {}

\* No character is lost, doubled or moved, whatever the text: what was read
\* of it, and what is in the words, have the same ordinary characters.
CharsKept ==
  LET ordinary(s) ==
        Seqs!FlattenSeq([i \in DOMAIN s |-> IF s[i] \in Ordinary THEN <<s[i]>> ELSE <<>>])
  IN ordinary(Seqs!FlattenSeq(env_argv)) = ordinary(SubSeq(node_options, 1, index))

\* A text without backslashes is refused exactly if a quote has no partner.
QuotesPaired ==
  done /\ Backslash \notin Seqs!ToSet(node_options) =>
    (lex_errors # {} <=> Cardinality({i \in DOMAIN node_options : node_options[i] = Quote}) % 2 = 1)

\* The two together, and the state has its types: nothing of the text is lost,
\* and what cannot be understood is refused.
TextKept == LexTypeOK /\ CharsKept /\ QuotesPaired
=============================================================================
