------------------------------ MODULE MCParser ------------------------------
(***************************************************************************)
(* Instances of Parser for TLC: the files each run reads.                  *)
(***************************************************************************)
EXTENDS Parser, SequencesExt, TLC

CONSTANTS a, b

MCWords == {a, b}

(* Every text of at most n atoms over one word: no shape is left out.       *)
AnyText(n) == UNION {[1 .. k -> {a, FROM, IMPORT, SP, COMMA, HASH, NL}] : k \in 0 .. n}

(***************************************************************************)
(* Every short file, and every short continuation of a statement that is   *)
(* open, so that each call of _update_token meets each shape of text.      *)
(***************************************************************************)
ShortFiles(n) ==
  AnyText(n)
  \cup {<<IMPORT, SP, a, COMMA>> \o t : t \in AnyText(n - 1)}
  \cup {<<IMPORT, SP, a, NL, IMPORT, SP, a>> \o t : t \in AnyText(n - 2)}
  \cup {<<FROM, SP, a, SP, IMPORT, SP>> \o t : t \in AnyText(n - 1)}

(***************************************************************************)
(* Lines as they occur in Python files, with and without the layouts the   *)
(* scanner treats in a special way.                                        *)
(***************************************************************************)
PlainLines == {
  <<NL>>,
  <<SP, a, SP, HASH, IMPORT, NL>>,
  <<IMPORT, SP, a, NL>>,
  <<IMPORT, SP, b, COMMA, SP, a, NL>>,
  <<IMPORT, SP, a, COMMA, b, COMMA, a, SP, NL>>,
  <<FROM, SP, a, SP, IMPORT, SP, b, NL>>,
  <<FROM, SP, a, SP, SP, IMPORT, SP, a, COMMA, SP, b, COMMA, a, NL>>,
  <<FROM, SP, b, SP, IMPORT, SP, a, SP, a, SP, b, SP, HASH, NL>> }
OddLines == {
  <<a, NL>>,
  <<IMPORT, SP, a, SP, a, SP, b, NL>>,
  <<SP, FROM, SP, a, SP, IMPORT, SP, b, NL>>,
  <<a, SP, IMPORT, SP, IMPORT, NL>>,
  <<FROM, SP, a, NL>> }

(* Three plain lines, or one odd line among plain ones; and the same with   *)
(* the last newline missing.                                                *)
Whole ==
  {k \o l \o m : k, l, m \in PlainLines}
  \cup {k \o l \o m : k \in PlainLines, l \in OddLines, m \in PlainLines}
Texts == Whole \cup {SubSeq(f, 1, Len(f) - 1) : f \in Whole}

(* Lines longer than a small buffer, cut at every place.                    *)
LongLines ==
  LET long == {<<FROM, SP, a, SP, IMPORT, SP, a, COMMA, SP, b, COMMA, SP, a, a, NL>>,
               <<IMPORT, SP, a, COMMA, SP, b, SP, COMMA, SP, SP, a, b, NL>>,
               <<SP, SP, SP, a, SP, SP, b, COMMA, SP, a, SP, SP, IMPORT, SP, b>>}
  IN  UNION {{SubSeq(f, i, Len(f)) : i \in 1 .. Len(f)} : f \in long}
        \cup {f \o g : f, g \in long}

TextFiles == ShortFiles(4) \cup LongLines
=============================================================================
