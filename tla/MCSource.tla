------------------------------ MODULE MCSource ------------------------------
(***************************************************************************)
(* Programs of up to three lines over three words in four layouts, and the *)
(* whole texts of MCParser.                                                *)
(***************************************************************************)
EXTENDS Source, MCParser

CONSTANT c

SourceWords == {a, b, c}

Layouts == {"plain", "tight", "loose", "comment"}
Between(layout) == CASE layout = "tight" -> <<COMMA>>
                        [] layout = "loose" -> <<SP, COMMA, SP, SP>>
                        [] OTHER            -> <<COMMA, SP>>
Trailer(layout) == CASE layout = "loose"   -> <<SP, SP, NL>>
                        [] layout = "comment" -> <<SP, HASH, SP, IMPORT, NL>>
                        [] OTHER              -> <<NL>>
Gap(layout)     == IF layout = "loose" THEN <<SP, SP>> ELSE <<SP>>
Listed(names, layout) ==
  FoldLeft(LAMBDA t, name : t \o Between(layout) \o <<name>>, <<Head(names)>>, Tail(names))
    \o Trailer(layout)

(* Where the words of a line are.                                           *)
WordsAt(t) == SetToSortSeq({k \in DOMAIN t : t[k] \in SourceWords}, LAMBDA x, y : x < y)

(* Programs of one line, and what two programs make one after the other.    *)
Import(names, layout) ==
  LET t == <<IMPORT>> \o Gap(layout) \o Listed(names, layout)
  IN  [text |-> t,
       statements |-> <<[kind |-> "import", start |-> 1, title |-> 1, import |-> 1,
                         names |-> WordsAt(t), end |-> Len(t)]>>]
From(title, names, layout) ==
  LET t == <<FROM>> \o Gap(layout) \o <<title>> \o Gap(layout) \o <<IMPORT>> \o Gap(layout)
             \o Listed(names, layout)
  IN  [text |-> t,
       statements |-> <<[kind |-> "from", start |-> 1, title |-> Head(WordsAt(t)),
                         import |-> Min({k \in DOMAIN t : t[k] = IMPORT}),
                         names |-> Tail(WordsAt(t)), end |-> Len(t)]>>]
Other(t) == [text |-> t \o <<NL>>, statements |-> <<>>]
Raw(t)   == [text |-> t, statements |-> <<>>]

Shift(s, d) == [kind |-> s.kind, start |-> s.start + d, title |-> s.title + d,
                import |-> s.import + d, names |-> [x \in DOMAIN s.names |-> s.names[x] + d],
                end |-> s.end + d]
Then(p, q) ==
  [text |-> p.text \o q.text,
   statements |-> p.statements \o [i \in DOMAIN q.statements |->
                                     Shift(q.statements[i], Len(p.text))]]

NameLists == {<<a>>, <<a, b>>, <<b, a, c>>}
MCLines ==
  {Import(ns, l) : ns \in NameLists, l \in Layouts}
  \cup {From(t, ns, l) : t \in {a, b}, ns \in {<<a>>, <<b, a, b>>}, l \in {"plain", "loose"}}
  \cup {Other(<<>>), Other(<<SP, SP, HASH, SP, FROM>>), Other(<<a, SP, FROM, SP, b>>),
        Other(<<SP, SP, a, COMMA, SP, b>>)}

FewLines == {Import(<<b, a>>, "plain"), From(a, <<a, c>>, "comment"),
             From(b, <<c>>, "tight"), Other(<<a, SP, HASH>>)}

InGrammar ==
  {Raw(<<>>)} \cup MCLines \cup {Then(k, l) : k, l \in MCLines}
  \cup {Then(Then(k, l), m) : k \in FewLines, l \in FewLines, m \in MCLines}
MCPrograms == InGrammar \cup {Raw(f) : f \in Texts}
MCFiles    == {p.text : p \in MCPrograms}

(* Each of the programs that are meant to be in the grammar is.              *)
ASSUME AllCovered == \A p \in InGrammar : Covered(p)
=============================================================================
