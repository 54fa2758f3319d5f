------------------------------- MODULE Tokens -------------------------------
(***************************************************************************)
(* The tokenizer of csort (CSort_nexttoken and its helpers, csort.c and    *)
(* core.c) as a pure function of the text it scans.                        *)
(*                                                                         *)
(* Text is a sequence of atoms.  A word atom stands for one or more        *)
(* characters that are no delimiter; adjacent words form one longer word.  *)
(* The keywords and the four delimiters the scanner knows are atoms of     *)
(* their own.  Indexes are 1-based, so index 1 is the start of the line    *)
(* buffer (static_buf in the code).                                        *)
(***************************************************************************)
EXTENDS Integers, Sequences, FiniteSetsExt

CONSTANTS
  Words,    (* ordinary words of a Python file                             *)
  BufSize   (* sizeof(_ParseInfo.buf), 512 in the code, counted in atoms   *)

FROM   == "from"
IMPORT == "import"
SP     == "space"
COMMA  == "comma"
HASH   == "hash"
NL     == "nl"
NUL    == "nul"

Delimiter == {SP, COMMA, HASH, NL}
Atom      == Words \cup {FROM, IMPORT} \cup Delimiter   (* what a file holds *)
Char      == Atom \cup {NUL}                         (* what a scan may read *)

ASSUME TokensAssumption ==
  /\ Words \cap ({FROM, IMPORT, NUL} \cup Delimiter) = {}
  /\ BufSize \in Nat /\ BufSize >= 2

TokenTypes == {"from", "import", "comma", "identifier", "newline", "start",
               "end", "comment"}

(***************************************************************************)
(* The characters from index "from" up to, not including, index "to".      *)
(***************************************************************************)
Slice(text, from, to) == [i \in 1 .. (to - from) |-> text[from + i - 1]]

(***************************************************************************)
(* str_findFirstNotOf with ' ': the first index that holds no space, or    *)
(* the START of the range when it holds nothing but spaces.                *)
(***************************************************************************)
FindFirstNotSpace(text, from, to) ==
  LET found == {i \in from .. (to - 1) : text[i] # SP}
  IN  IF found = {} THEN from ELSE Min(found)

(* CSort_gettokentype: the two keywords, anything else is an identifier.   *)
GetTokenType(name) == IF name = <<FROM>> THEN "from"
                      ELSE IF name = <<IMPORT>> THEN "import" ELSE "identifier"

(***************************************************************************)
(* The scan that started at "begin" returns at c.  A space ends a token,   *)
(* except after a "from" that is not at the start of the buffer: the scan  *)
(* then runs on and the space becomes part of the token.                   *)
(***************************************************************************)
EndsToken(text, begin, c) ==
  \/ text[c] \in {COMMA, HASH, NL}
  \/ /\ text[c] = SP
     /\ GetTokenType(Slice(text, begin, c)) = "from" => begin = 1

(***************************************************************************)
(* The token that ends at c, as CSortToken_mk builds it: its type and      *)
(* name, the column recorded in it, where it begins and where the next     *)
(* scan starts (tok_view and next_tok_offset): after the spaces that       *)
(* follow, if any.  A '#' drops the word it is attached to.                *)
(***************************************************************************)
TokenAt(text, begin, c, to) ==
  LET word == Slice(text, begin, c)
      tok(type, name, next) ==
        [type |-> type, name |-> name, begin |-> begin, next |-> next, col |-> c - 1]
  IN  IF text[c] = HASH THEN tok("comment", <<HASH>>, c)
      ELSE IF c = begin /\ text[c] = NL THEN tok("newline", <<>>, c)
      ELSE IF c = begin /\ text[c] = COMMA THEN tok("comma", <<COMMA>>, c + 1)
      ELSE tok(GetTokenType(word), word, FindFirstNotSpace(text, c, to))

(***************************************************************************)
(* CSort_nexttoken on text[from .. to - 1].  A scan that meets no          *)
(* delimiter reports a newline token: the word it was reading is dropped.  *)
(* (The code leaves a stale view in that token; only its type is used.)    *)
(***************************************************************************)
NextToken(text, from, to) ==
  LET begin == FindFirstNotSpace(text, from, to)
      stops == {c \in begin .. (to - 1) : EndsToken(text, begin, c)}
  IN  IF stops = {}
      THEN [type |-> "newline", name |-> <<>>, begin |-> begin, next |-> begin,
            col |-> begin - 1]
      ELSE TokenAt(text, begin, Min(stops), to)
=============================================================================
