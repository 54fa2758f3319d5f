----------------------------- MODULE MCPrinter -----------------------------
(***************************************************************************)
(* Instances of Printer for TLC: lists of up to two statements of up to    *)
(* five names, with every way of wrapping them; and one statement of up to *)
(* five names that differ in their numbers, on one line.  Their order is   *)
(* any one: what qsort may leave does not depend on it (Reordered).        *)
(***************************************************************************)
EXTENDS Printer

a == 97
b == 98

Of(kind, n) ==
  [kind |-> kind, title |-> IF kind = "FROM" THEN <<b>> ELSE <<>>,
   imports |-> [i \in 1 .. n |-> <<a + n - i>>]]
WrappedLists ==
  {<<>>} \cup {<<Of(kind, n)>> : kind \in {"FROM", "IMPORT"}, n \in 1 .. 5}
  \cup {<<Of("FROM", m), Of("IMPORT", n)>> : m, n \in {1, 2, 3, 4}}

(* "a", "a1", "a2", "a10", "ab", "b", "b2", "a01" and "a1b": the last two    *)
(* have a leading zero and a digit inside.                                   *)
Some == {<<a>>, <<a, 49>>, <<a, 50>>, <<a, 49, 48>>, <<a, b>>, <<b>>, <<b, 50>>,
         <<a, 48, 49>>, <<a, 49, b>>}
OrderedLists ==
  {<<[kind |-> "IMPORT", title |-> <<>>, imports |-> SetToSeq(names)]>> :
     names \in UNION {kSubset(n, Some) : n \in 1 .. 5}}
MCLists == WrappedLists \cup OrderedLists

OneLine == [show_after_sort |-> TRUE, disable_wrapping |-> TRUE, wrap_after_n_imports |-> 4,
            import_on_each_wrap |-> 4, wrap_after_col |-> 80]
MCConfs ==
  [show_after_sort : {TRUE}, disable_wrapping : BOOLEAN, wrap_after_n_imports : 0 .. 4,
   import_on_each_wrap : 0 .. 4, wrap_after_col : {26}]
  \cup {OneLine, [show_after_sort |-> FALSE, disable_wrapping |-> FALSE,
                  wrap_after_n_imports |-> 4, import_on_each_wrap |-> 9,
                  wrap_after_col |-> 80]}

MCInit ==
  \/ modules \in WrappedLists /\ Init
  \/ modules \in OrderedLists /\ conf = OneLine /\ asserts = TRUE /\ Init
MCSpec == MCInit /\ [][Next]_vars /\ WF_vars(Next)
=============================================================================
