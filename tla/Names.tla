------------------------------- MODULE Names --------------------------------
(***************************************************************************)
(* How the program compares, sorts and searches names.  A name is a        *)
(* sequence of character codes, a list of names a sequence of names.       *)
(***************************************************************************)
EXTENDS Integers, Sequences, FiniteSets, SequencesExt

NUL  == 0
Dot  == 46
Slash == 47
Zero == 48
IsDigit(c) == c \in Zero .. (Zero + 9)

(* What a string in C can have before its end.                              *)
CString == Seq(Nat \ {NUL})

CharAt(s, i) == IF i <= Len(s) THEN s[i] ELSE NUL

(* strncmp: below, at or above 0. *)
Strncmp(s, t, n) ==
  LET differ == {i \in 1 .. n : CharAt(s, i) # CharAt(t, i)}
  IN IF differ = {} THEN 0
     ELSE LET i == CHOOSE i \in differ : \A j \in differ : i <= j
          IN CharAt(s, i) - CharAt(t, i)

(* string_strncmp looks at no more than its second name has: a name equals   *)
(* every beginning of it.                                                    *)
StringStrncmp(s1, s2) == Strncmp(s1, s2, Len(s2))

(* bsearch of "match" in a list (CSortConfigFindStrList).                    *)
FindStrList(list, match) ==
  LET found[range \in (0 .. Len(list)) \X (0 .. Len(list))] ==
        LET low  == range[1]
            high == range[2]
            mid  == (low + high) \div 2
            side == StringStrncmp(match, list[mid + 1])
        IN /\ low < high
           /\ \/ side = 0
              \/ side < 0 /\ found[<<low, mid>>]
              \/ side > 0 /\ found[<<mid + 1, high>>]
  IN found[<<0, Len(list)>>]

(* What qsort may leave: no name is greater than the one after it.  A merge  *)
(* sort ensures that for every comparison that does not call each of two     *)
(* names greater than the other.                                             *)
Reorderings(list) ==
  {p \in [DOMAIN list -> DOMAIN list] : \A i \in DOMAIN list : \E j \in DOMAIN list : p[j] = i}
Reordered(list) == {[i \in DOMAIN list |-> list[p[i]]] : p \in Reorderings(list)}
SortsWith(Compare(_, _), list) ==
  {sorted \in Reordered(list) :
     \A i \in 1 .. (Len(list) - 1) : Compare(sorted[i], sorted[i + 1]) <= 0}

Unsorted(list) == {list}
SortsOf(list) == SortsWith(StringStrncmp, list)

-----------------------------------------------------------------------------
(* The names of an import list.                                             *)

(* A name up to its last character that is no digit; up to its first         *)
(* character when all are digits.                                            *)
StemEnd(name) ==
  LET others == {i \in DOMAIN name : ~IsDigit(name[i])}
  IN IF others = {} THEN 1 ELSE CHOOSE i \in others : \A j \in others : j <= i
Stem(name) == SubSeq(name, 1, StemEnd(name))

(* DEV_strToInt of the digits that follow; 0 when there are none.            *)
Number(name) ==
  LET value[i \in StemEnd(name) .. Len(name)] ==
        IF i = StemEnd(name) THEN 0 ELSE 10 * value[i - 1] + (name[i] - Zero)
  IN value[Len(name)]

(* _compare_cstr_nodes: of two names that differ in their number only, the   *)
(* smaller is never "less" than the other, just not greater.                 *)
CompareText(n1, n2) == Strncmp(n1, n2, Len(n1) + 1)
CompareFromStem(n1, n2) ==
  IF Strncmp(Stem(n1), Stem(n2), StemEnd(n2)) = 0
  THEN IF Number(n1) > Number(n2) THEN 1 ELSE 0
  ELSE CompareText(n1, n2)
CompareNodes(n1, n2) ==
  IF Stem(n1) = Stem(n2) THEN IF Number(n1) > Number(n2) THEN 1 ELSE 0
  ELSE CompareText(n1, n2)
(* Digits only at the end, and no number that begins with 0.                 *)
IsPlain(name) ==
  \A k \in DOMAIN name :
    IsDigit(name[k]) => k > StemEnd(name) /\ (k = StemEnd(name) + 1 => name[k] # Zero)
=============================================================================
