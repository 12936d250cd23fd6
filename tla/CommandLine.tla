----------------------------- MODULE CommandLine -----------------------------
(***************************************************************************)
(* Lines and their parts: how bituctl makes a line of its arguments        *)
(* (shell.c), and how bitu_command_new takes a line apart (util.c,         *)
(* transport.c).  A text is a sequence of characters; only the characters  *)
(* the code looks for are told apart from the others.                      *)
(***************************************************************************)
EXTENDS Integers, SequencesExt

CONSTANTS Chars,            \* the characters of texts
          BufSize,          \* 128: the step by which all buffers grow
          ReallocZeroFrees, \* TRUE if realloc (p, 0) frees p and returns NULL
          NULL

Blank == " "
Quote == "\""
Escape == "\\"
Space == {Blank, "\t", "\n"}   \* isspace
NUL == "NUL"                  \* what a string ends with

ASSUME LineAssumption == /\ Space \cup {Quote, Escape, NUL} \subseteq Chars
                         /\ NULL \notin Seq(Chars) \cup Seq(Seq(Chars))
                         /\ BufSize \in Nat \ {0, 1}
                         /\ ReallocZeroFrees \in BOOLEAN

-----------------------------------------------------------------------------
(* shell.c *)

EscapeParamQuotesOnly(param) ==   \* a bug: blanks are not escaped
  FlattenSeq([i \in DOMAIN param |-> IF param[i] = Quote THEN <<Escape, Quote>>
                                                         ELSE <<param[i]>>])

(* _escape_param.  An escape character in a parameter is left as it is.    *)
EscapeParam(param) ==
  FlattenSeq([i \in DOMAIN param |-> IF param[i] \in {Blank, Quote}
                                       THEN <<Escape, param[i]>>
                                       ELSE <<param[i]>>])

(* The line sent for a command and its parameters; the last blank is taken *)
(* off again.                                                              *)
LineOf(args) ==
  args[1] \o FlattenSeq([i \in 1..(Len(args) - 1) |-> <<Blank>> \o EscapeParam(args[i + 1])])

-----------------------------------------------------------------------------
(* util.c *)

(* bitu_util_strstrip.  With nothing but blanks in the string it reads on  *)
(* in front of it; the result is empty whatever it finds there.            *)
Strip(string) ==
  LET marks == {i \in DOMAIN string : string[i] \notin Space}
  IN IF marks = {} THEN <<>> ELSE SubSeq(string, Min(marks), Max(marks))

(* The locals of bitu_util_extract_params.  tok = NULL between two tokens, *)
(* and allocated, once it has grown, stays as it is.                       *)
NoToken == [inside_quotes |-> FALSE, tok |-> NULL, allocated |-> 0,
            found |-> <<>>, freedTwice |-> FALSE]

(* The loop at a character that follows prev, last being the end of the    *)
(* string: quotes are passed over even where they end a token, and of two  *)
(* blanks the second one begins a token.                                   *)
Scan(x, prev, char, last) ==
  LET plain == prev # Escape
      inside == IF char = Quote /\ plain THEN ~x.inside_quotes ELSE x.inside_quotes
      ends == last \/ (~inside /\ char = Blank /\ plain)
      size == IF x.tok = NULL THEN 0 ELSE Len(x.tok)
      grown == IF size > x.allocated THEN ((size - 1) \div BufSize + 1) * BufSize
                                     ELSE x.allocated
      begun == IF x.tok = NULL THEN <<>> ELSE x.tok
  IN IF ends /\ x.tok # NULL
       THEN [x EXCEPT !.inside_quotes = inside, !.found = Append(@, x.tok), !.tok = NULL]
       ELSE [x EXCEPT !.inside_quotes = inside,
                      !.allocated = grown,
                      !.tok = IF char \in {Escape, Quote} /\ plain THEN begun
                                                                  ELSE Append(begun, char),
                      !.freedTwice = @ \/ (/\ ReallocZeroFrees /\ x.tok = <<>> /\ grown = 0)]

(* bitu_util_extract_params: the first token is the command.  The set has  *)
(* one element: a bound variable is evaluated once, an argument at each use. *)
ExtractParams(line) ==
  LET s == Strip(line)
      n == Len(s)
      Char(i) == IF i \in 1..n THEN s[i] ELSE NUL
      at[i \in 0..(n + 1)] ==
        IF i = 0 THEN NoToken
        ELSE CHOOSE y \in {Scan(x, Char(i - 1), Char(i), i > n) : x \in {at[i - 1]}} : TRUE
  IN IF n = 0 THEN NoToken ELSE at[n + 1]

(* bitu_command_new.  A line without a token gives a command without a     *)
(* name, which has -1 parameters.                                          *)
CommandNew(line) ==
  LET tokens == ExtractParams(line).found
  IN [cmd |-> Strip(line),
      name |-> IF tokens = <<>> THEN NULL ELSE tokens[1],
      params |-> IF tokens = <<>> THEN <<>> ELSE Tail(tokens),
      nparams |-> Len(tokens) - 1]

(* Nothing is known of a program that frees something twice. *)
Parsed(line) == ~ExtractParams(line).freedTwice

-----------------------------------------------------------------------------
(* What lines are meant to say, stated without the loop.                   *)

(* Arguments that come through: a name that is a word of two letters or    *)
(* more, no escape characters, nothing empty, no blank at the end.         *)
IsWord(text) == text # <<>> /\ \A i \in DOMAIN text : text[i] \notin Space \cup {Quote, Escape}
Faithful(args) ==
  /\ IsWord(args[1]) /\ Len(args[1]) >= 2
  /\ \A i \in 2..Len(args) : args[i] # <<>> /\ Escape \notin ToSet(args[i])
  /\ Len(args) > 1 => Last(Last(args)) \notin Space

(* Positions of the blanks of a line that are not between quotes: those    *)
(* with an even number of quotes before them.                              *)
Cuts(line) ==
  {i \in DOMAIN line : /\ line[i] = Blank
                       /\ Cardinality({j \in 1..i : line[j] = Quote}) % 2 = 0}

(* A line in good style: no escapes, one blank between words, and a word   *)
(* of two letters or more for the command.                                 *)
GoodStyle(line) ==
  LET cuts == Cuts(line)
  IN /\ Escape \notin ToSet(line)
     /\ line # <<>> /\ line[1] \notin Space /\ Last(line) \notin Space
     /\ \A i \in cuts : i + 1 \notin cuts
     /\ LET n == IF cuts = {} THEN Len(line) ELSE Min(cuts) - 1
        IN n >= 2 /\ IsWord(SubSeq(line, 1, n))

Unquoted(text) ==
  FlattenSeq([i \in DOMAIN text |-> IF text[i] = Quote THEN <<>> ELSE <<text[i]>>])

(* The words between the cuts, without their quotes. *)
Words(line) ==
  LET ends == Cuts(line) \cup {0, Len(line) + 1}
      End(k) == CHOOSE e \in ends : Cardinality({d \in ends : d < e}) = k
  IN [k \in 1..(Cardinality(ends) - 1) |->
        Unquoted(SubSeq(line, End(k - 1) + 1, End(k) - 1))]
=============================================================================
