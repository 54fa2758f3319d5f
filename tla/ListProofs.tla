----------------------------- MODULE ListProofs -----------------------------
(***************************************************************************)
(* Facts about lists and recursion that the proofs of several modules rest *)
(* on.                                                                     *)
(***************************************************************************)
EXTENDS Lists, SequencesExt, WellFoundedInduction, SequenceTheorems, FiniteSetTheorems, TLAPS

(* A set of naturals that is not empty has a least element.  Used with the  *)
(* set of the counterexamples to a claim, it takes the place of induction.  *)
LEMMA Smallest ==
  ASSUME NEW S \in SUBSET Nat, S # {}
  PROVE  \E x \in S : \A y \in S : x <= y
<1> DEFINE R == {ss \in Nat \X Nat : ss[1] < ss[2]}
<1>1. IsWellFoundedOn(R, Nat)
  BY NatLessThanWellFounded, Zenon DEF OpToRel
<1>2. PICK x \in S : \A y \in S : ~(<<y, x>> \in R)
  BY <1>1, WFMin
<1>3. \A y \in S : x <= y
  <2> TAKE y \in S
  <2>1. x \in Nat /\ y \in Nat
    OBVIOUS
  <2>2. <<y, x>> \in Nat \X Nat /\ <<y, x>>[1] = y /\ <<y, x>>[2] = x
    BY <2>1
  <2>3. ~(y < x)
    BY <1>2, <2>2, Zenon
  <2>4. QED BY <2>1, <2>3
<1>4. QED BY <1>3

-----------------------------------------------------------------------------
(* Recursion                                                                *)

(* A tree: every set of nodes without the root has one whose parent is not   *)
(* in it.  Used with the set of the counterexamples to a claim, it takes the *)
(* place of induction along the tree.                                        *)
Rooted(D, R, parent) ==
  /\ R \in D /\ parent \in [D -> D]
  /\ \A below \in SUBSET (D \ {R}) : below # {} => \E e \in below : parent[e] \notin below

(* A function may be defined along a tree: what it is for the root, and for  *)
(* a node from what it is for its parent.                                    *)
Along(f, D, R, parent, base, step) ==
  \A e \in D : f[e] = IF e = R THEN base ELSE step[<<e, f[parent[e]]>>]

LEMMA TreeRecursion ==
  ASSUME NEW D, NEW R, NEW parent, Rooted(D, R, parent),
         NEW V, NEW base \in V, NEW step \in [D \X V -> V]
  PROVE  \E f \in [D -> V] : Along(f, D, R, parent, base, step)
<1> DEFINE Good(g, S) ==
             /\ S \subseteq D /\ g \in [S -> V]
             /\ \A e \in S : IF e = R THEN g[e] = base
                             ELSE parent[e] \in S /\ g[e] = step[<<e, g[parent[e]]>>]
           Has(e) == \E S \in SUBSET D : e \in S /\ \E g : Good(g, S)
<1>1. /\ R \in D /\ parent \in [D -> D]
      /\ \A below \in SUBSET (D \ {R}) : below # {} => \E e \in below : parent[e] \notin below
  BY DEF Rooted
<1>2. \A S, T \in SUBSET D : \A g, h : Good(g, S) /\ Good(h, T) =>
        \A e \in S \cap T : g[e] = h[e]
  <2> SUFFICES ASSUME NEW S \in SUBSET D, NEW T \in SUBSET D, NEW g, NEW h, Good(g, S), Good(h, T)
               PROVE  \A e \in S \cap T : g[e] = h[e]
    OBVIOUS
  <2> DEFINE bad == {e \in S \cap T : g[e] # h[e]}
  <2>1. bad \in SUBSET (D \ {R})
    OBVIOUS
  <2>2. ASSUME bad # {} PROVE FALSE
    <3>1. PICK e \in bad : parent[e] \notin bad
      BY <1>1, <2>1, <2>2
    <3>2. e \in S /\ e \in T /\ e # R /\ g[e] # h[e]
      BY <2>1, <3>1
    <3>3. /\ parent[e] \in S /\ g[e] = step[<<e, g[parent[e]]>>]
          /\ parent[e] \in T /\ h[e] = step[<<e, h[parent[e]]>>]
      BY <3>2
    <3>4. g[parent[e]] = h[parent[e]]
      BY <3>1, <3>3
    <3>5. QED BY <3>2, <3>3, <3>4
  <2>3. QED BY <2>2
<1>3. \A e \in D : Has(e)
  <2>1. Has(R)
    <3> DEFINE g == [x \in {R} |-> base]
    <3>1. Good(g, {R})
      BY <1>1
    <3> HIDE DEF g, Good
    <3>2. QED BY <1>1, <3>1
  <2> DEFINE bad == {e \in D : ~Has(e)}
  <2> HIDE DEF Has
  <2>2. bad \in SUBSET (D \ {R})
    BY <2>1
  <2>3. ASSUME bad # {} PROVE FALSE
    <3>1. PICK e \in bad : parent[e] \notin bad
      BY <1>1, <2>2, <2>3
    <3>2. e \in D /\ e # R /\ parent[e] \in D /\ Has(parent[e]) /\ ~Has(e)
      BY <1>1, <2>2, <3>1
    <3>3. PICK S \in SUBSET D : parent[e] \in S /\ \E g : Good(g, S)
      BY <3>2 DEF Has
    <3>4. PICK g : Good(g, S)
      BY <3>3
    <3>5. e \notin S
      <4> HIDE DEF Good
      <4>1. QED BY <3>2, <3>4 DEF Has
    <3> DEFINE T == S \cup {e}
               h == [x \in T |-> IF x = e THEN step[<<e, g[parent[e]]>>] ELSE g[x]]
    <3>6. g \in [S -> V] /\ g[parent[e]] \in V /\ step[<<e, g[parent[e]]>>] \in V
      BY <3>2, <3>3, <3>4
    <3>7. h \in [T -> V] /\ h[e] = step[<<e, g[parent[e]]>>] /\ \A x \in S : h[x] = g[x]
      BY <3>5, <3>6
    <3>8. Good(h, T)
      <4>1. \A x \in T : IF x = R THEN h[x] = base
                         ELSE parent[x] \in T /\ h[x] = step[<<x, h[parent[x]]>>]
        <5> HIDE DEF h
        <5> TAKE x \in T
        <5>1. CASE x = e
          BY <3>2, <3>3, <3>7, <5>1
        <5>2. CASE x \in S
          <6>1. h[x] = g[x]
            BY <3>7, <5>2
          <6>2. x # R => parent[x] \in S /\ h[parent[x]] = g[parent[x]] /\ g[x] = step[<<x, g[parent[x]]>>]
            BY <3>4, <3>7, <5>2
          <6>3. x = R => g[x] = base
            BY <3>4, <5>2
          <6>4. QED BY <6>1, <6>2, <6>3
        <5>3. QED BY <5>1, <5>2
      <4>2. T \subseteq D
        BY <3>2
      <4> HIDE DEF h, T
      <4>3. QED BY <3>7, <4>1, <4>2
    <3>9. T \in SUBSET D /\ e \in T
      BY <3>2
    <3> HIDE DEF h, T, Good
    <3>10. Has(e)
      BY <3>8, <3>9 DEF Has
    <3>11. QED BY <3>2, <3>10
  <2>4. QED BY <2>3
<1> DEFINE Value(e, v) == \E S \in SUBSET D : \E g : Good(g, S) /\ e \in S /\ v = g[e]
           f == [e \in D |-> CHOOSE v : Value(e, v)]
<1>4. \A S \in SUBSET D : \A g : Good(g, S) => \A e \in S : f[e] = g[e]
  <2> SUFFICES ASSUME NEW S \in SUBSET D, NEW g, Good(g, S), NEW e \in S PROVE f[e] = g[e]
    OBVIOUS
  <2> HIDE DEF Good
  <2>1. Value(e, g[e])
    OBVIOUS
  <2>2. \A v : Value(e, v) => v = g[e]
    BY <1>2
  <2>3. (CHOOSE v : Value(e, v)) = g[e]
    <3> HIDE DEF Value
    <3>1. QED BY <2>1, <2>2
  <2>4. QED BY <2>3
<1>5. \A e \in D : f[e] \in V /\ f[e] = IF e = R THEN base ELSE step[<<e, f[parent[e]]>>]
  <2> TAKE e \in D
  <2>1. PICK S \in SUBSET D : e \in S /\ \E g : Good(g, S)
    BY <1>3
  <2>2. PICK g : Good(g, S)
    BY <2>1
  <2>3. \A x \in S : f[x] = g[x]
    <3> HIDE DEF f, Good
    <3>1. QED BY <1>4, <2>2
  <2>4. g[e] \in V /\ IF e = R THEN g[e] = base
                      ELSE parent[e] \in S /\ g[e] = step[<<e, g[parent[e]]>>]
    BY <2>1, <2>2
  <2> HIDE DEF f, Good
  <2>5. QED BY <2>1, <2>3, <2>4
<1>6. f \in [D -> V]
  <2>1. f = [e \in D |-> f[e]]
    OBVIOUS
  <2> HIDE DEF f
  <2>2. QED BY <1>5, <2>1
<1> HIDE DEF f
<1>7. Along(f, D, R, parent, base, step)
  BY <1>5 DEF Along
<1>8. QED BY <1>6, <1>7

-----------------------------------------------------------------------------
(* Linked lists                                                             *)

(* s are the addresses that "link" leads through from "from" to none.       *)
Leads(s, from, link) ==
  /\ s \in Seq(DOMAIN link) /\ IsInjective(s)
  /\ IF s = <<>> THEN from \notin DOMAIN link ELSE from = s[1]
  /\ \A i \in 1 .. Len(s) : IF i = Len(s) THEN link[s[i]] \notin DOMAIN link
                            ELSE link[s[i]] = s[i + 1]

LEMMA IntervalSize == ASSUME NEW n \in Nat PROVE Cardinality(1 .. n) = n
<1>1. Cardinality(1 .. n) = IF 1 > n THEN 0 ELSE n - 1 + 1
  BY FS_Interval
<1>2. QED BY <1>1

(* A sequence that repeats nothing is no longer than there are values.      *)
LEMMA NoLonger ==
  ASSUME NEW S, IsFiniteSet(S), NEW s \in Seq(S), IsInjective(s)
  PROVE  Cardinality(S) \in Nat /\ Len(s) \in Nat /\ Len(s) <= Cardinality(S)
<1>1. Len(s) \in Nat /\ s \in [1 .. Len(s) -> S]
  OBVIOUS
<1>2. s \in Injection(1 .. Len(s), S)
  BY <1>1 DEF Injection
<1>3. Cardinality(1 .. Len(s)) <= Cardinality(S)
  BY <1>2, FS_Injection
<1>5. Cardinality(1 .. Len(s)) = Len(s)
  BY <1>1, IntervalSize
<1>6. Cardinality(S) \in Nat
  BY FS_CardinalityType
<1>7. QED BY <1>1, <1>3, <1>5, <1>6

(* A loop over a list comes by its addresses in order, and by no others.    *)
LEMMA FollowedIs ==
  ASSUME NEW link, IsFiniteSet(DOMAIN link), NEW s, NEW from, Leads(s, from, link)
  PROVE  Followed(from, link) = s
<1> DEFINE A == DOMAIN link
           K == 1 .. (Cardinality(A) + 1)
           Step(f, k) == IF k = 1 THEN from
                         ELSE IF f[k - 1] \in A THEN link[f[k - 1]] ELSE f[k - 1]
           end == IF s = <<>> THEN from ELSE link[s[Len(s)]]
           w == [k \in K |-> IF k <= Len(s) THEN s[k] ELSE end]
           at == CHOOSE f : f = [k \in K |-> Step(f, k)]
<1>1. /\ Cardinality(A) \in Nat /\ Len(s) \in Nat /\ Len(s) <= Cardinality(A)
      /\ s \in Seq(A) /\ s \in [1 .. Len(s) -> A] /\ (s = <<>> <=> Len(s) = 0)
  <2>1. s \in Seq(A) /\ IsInjective(s)
    BY DEF Leads
  <2>2. QED BY <2>1, NoLonger
<1> HIDE DEF A
<1>2. /\ end \notin A /\ (Len(s) >= 1 => from = s[1])
      /\ \A i \in 1 .. Len(s) : i # Len(s) => link[s[i]] = s[i + 1]
  <2>1. /\ IF s = <<>> THEN from \notin A ELSE from = s[1]
        /\ \A i \in 1 .. Len(s) : IF i = Len(s) THEN link[s[i]] \notin A
                                  ELSE link[s[i]] = s[i + 1]
    BY DEF Leads, A
  <2>2. CASE s = <<>>
    BY <2>1, <2>2, <1>1
  <2>3. CASE s # <<>>
    <3>1. Len(s) \in 1 .. Len(s)
      BY <1>1, <2>3
    <3>2. QED BY <1>1, <2>1, <2>3, <3>1
  <2>4. QED BY <2>2, <2>3
<1>3. \A k \in K : w[k] = Step(w, k)
  <2> TAKE k \in K
  <2>1. k \in Nat /\ k >= 1 /\ (k # 1 => k - 1 \in K)
    BY <1>1
  <2>2. CASE k = 1
    <3>1. Step(w, k) = from /\ w[k] = IF 1 <= Len(s) THEN s[1] ELSE end
      BY <2>2
    <3>2. CASE Len(s) = 0
      BY <3>1, <3>2, <1>1
    <3>3. CASE Len(s) # 0
      BY <3>1, <3>3, <1>1, <1>2
    <3>4. QED BY <3>2, <3>3
  <2>3. CASE k # 1 /\ k - 1 < Len(s)
    <3>1. w[k - 1] = s[k - 1] /\ s[k - 1] \in A /\ w[k] = s[k]
      BY <2>1, <2>3, <1>1
    <3>2. link[s[k - 1]] = s[k]
      <4>1. k - 1 \in 1 .. Len(s) /\ k - 1 # Len(s) /\ (k - 1) + 1 = k
        BY <2>1, <2>3, <1>1
      <4>2. link[s[k - 1]] = s[(k - 1) + 1]
        BY <4>1, <1>2
      <4>3. QED BY <4>1, <4>2
    <3>3. QED BY <2>3, <3>1, <3>2
  <2>4. CASE k # 1 /\ k - 1 = Len(s)
    <3>1. w[k - 1] = s[k - 1] /\ s[k - 1] \in A /\ w[k] = end /\ s # <<>>
      BY <2>1, <2>4, <1>1
    <3>2. link[s[k - 1]] = end
      BY <2>4, <3>1
    <3>3. QED BY <2>4, <3>1, <3>2
  <2>5. CASE k # 1 /\ k - 1 > Len(s)
    <3>1. w[k - 1] = end /\ w[k] = end
      BY <2>1, <2>5, <1>1
    <3>2. QED BY <2>5, <3>1, <1>2
  <2>6. QED BY <2>1, <2>2, <2>3, <2>4, <2>5, <1>1
<1>4. w = [k \in K |-> Step(w, k)]
  BY <1>3
<1>5. at = [k \in K |-> Step(at, k)]
  BY <1>4
<1> HIDE DEF at
<1>6. \A k \in K : at[k] = Step(at, k)
  BY <1>5
<1>7. \A k \in K : at[k] = w[k]
  <2> DEFINE bad == {k \in K : at[k] # w[k]}
  <2>1. SUFFICES ASSUME bad # {} PROVE FALSE
    OBVIOUS
  <2>2. bad \in SUBSET Nat
    BY <1>1
  <2>3. PICK k \in bad : \A j \in bad : k <= j
    BY <2>1, <2>2, Smallest
  <2>4. k \in K /\ at[k] # w[k] /\ at[k] = Step(at, k) /\ w[k] = Step(w, k)
    BY <2>3, <1>3, <1>6
  <2>5. k # 1
    BY <2>4
  <2>6. k - 1 \in K /\ ~(k <= k - 1)
    BY <2>4, <2>5, <1>1
  <2>7. at[k - 1] = w[k - 1]
    BY <2>3, <2>6
  <2>8. QED BY <2>4, <2>5, <2>7
<1>8. at = w
  BY <1>5, <1>7
<1>9. {i \in K : w[i] \in A} = 1 .. Len(s)
  BY <1>1, <1>2
<1>10. Cardinality(1 .. Len(s)) = Len(s)
  BY <1>1, IntervalSize
<1>11. Followed(from, link) = [k \in 1 .. Cardinality({i \in K : at[i] \in A}) |-> at[k]]
  <2>1. DOMAIN at = K
    BY <1>5
  <2>2. Followed(from, link) = [k \in 1 .. Cardinality({i \in DOMAIN at : at[i] \in A}) |-> at[k]]
    BY DEF Followed, at, A
  <2>3. QED BY <2>1, <2>2
<1>12. Followed(from, link) = [k \in 1 .. Len(s) |-> w[k]]
  BY <1>8, <1>9, <1>10, <1>11
<1>13. \A k \in 1 .. Len(s) : w[k] = s[k]
  BY <1>1
<1>14. QED BY <1>1, <1>12, <1>13

-----------------------------------------------------------------------------
(* Sequences that repeat nothing                                            *)

Entries(s) == {s[i] : i \in 1 .. Len(s)}

LEMMA FunctionIsSeq ==
  ASSUME NEW n \in Nat, NEW f, f = [i \in 1 .. n |-> f[i]]
  PROVE  f \in Seq(Entries(f)) /\ Len(f) = n /\ DOMAIN f = 1 .. n
<1>1. DOMAIN f = 1 .. n /\ Len(f) = n
  OBVIOUS
<1>2. f \in [1 .. n -> Entries(f)]
  <2>1. \A i \in 1 .. n : f[i] \in Entries(f)
    BY <1>1 DEF Entries
  <2>2. QED BY <2>1
<1>3. QED BY <1>1, <1>2, SeqDef

LEMMA HasEnds ==
  ASSUME NEW S, NEW s \in Seq(S), s # <<>>
  PROVE  Len(s) \in Nat /\ 1 \in 1 .. Len(s) /\ Len(s) \in 1 .. Len(s)
<1> DEFINE e == Len(s)
<1>1. e \in Nat /\ e # 0
  BY EmptySeq
<1> HIDE DEF e
<1>2. 1 \in 1 .. e /\ e \in 1 .. e
  BY <1>1
<1>3. QED BY <1>1, <1>2 DEF e

(* What is appended is last, and the rest stays where it is.                *)
LEMMA AppendFacts ==
  ASSUME NEW S, NEW s \in Seq(S), NEW n \in S
  PROVE  /\ Append(s, n) \in Seq(S) /\ Append(s, n) # <<>>
         /\ Len(s) \in Nat /\ Len(Append(s, n)) = Len(s) + 1
         /\ \A i \in 1 .. Len(s) : Append(s, n)[i] = s[i]
         /\ Append(s, n)[Len(s) + 1] = n
         /\ Entries(Append(s, n)) = Entries(s) \cup {n}
         /\ IsInjective(s) /\ n \notin Entries(s) => IsInjective(Append(s, n))
<1> DEFINE t == Append(s, n)
<1>1. /\ t \in Seq(S) /\ Len(t) = Len(s) + 1 /\ t[Len(s) + 1] = n
      /\ \A i \in 1 .. Len(s) : t[i] = s[i]
  BY AppendProperties
<1>2. Len(s) \in Nat /\ t # <<>>
  BY AppendProperties
<1>3. DOMAIN s = 1 .. Len(s) /\ DOMAIN t = 1 .. (Len(s) + 1)
  BY <1>1
<1> HIDE DEF t
<1>4. Entries(t) = Entries(s) \cup {n}
  <2>1. 1 .. Len(t) = (1 .. Len(s)) \cup {Len(s) + 1}
    BY <1>1, <1>2
  <2>2. Entries(t) = {t[i] : i \in (1 .. Len(s)) \cup {Len(s) + 1}}
    BY <2>1 DEF Entries
  <2>3. QED BY <1>1, <2>2 DEF Entries
<1>5. ASSUME IsInjective(s), n \notin Entries(s) PROVE IsInjective(t)
  <2> SUFFICES ASSUME NEW i \in 1 .. (Len(s) + 1), NEW j \in 1 .. (Len(s) + 1), t[i] = t[j] PROVE i = j
    BY <1>3 DEF IsInjective
  <2>1. \A k \in 1 .. Len(s) : t[k] # n
    BY <1>1, <1>5 DEF Entries
  <2>2. CASE i \in 1 .. Len(s) /\ j \in 1 .. Len(s)
    BY <1>1, <1>3, <1>5, <2>2 DEF IsInjective
  <2>3. CASE i = Len(s) + 1 /\ j \in 1 .. Len(s)
    BY <1>1, <2>1, <2>3
  <2>4. CASE i \in 1 .. Len(s) /\ j = Len(s) + 1
    BY <1>1, <2>1, <2>4
  <2>5. QED BY <1>2, <2>2, <2>3, <2>4
<1>6. QED BY <1>1, <1>2, <1>4, <1>5 DEF t

(* A sequence that is longer by one entry and agrees with another before    *)
(* that is the other with the entry appended.                               *)
LEMMA AppendIs ==
  ASSUME NEW S, NEW s \in Seq(S), NEW T, NEW t \in Seq(T), Len(t) = Len(s) + 1,
         \A i \in 1 .. Len(s) : t[i] = s[i]
  PROVE  t = Append(s, t[Len(t)])
<1> DEFINE e == Len(s)
           x == t[e + 1]
           a == Append(s, x)
<1>1. e \in Nat /\ s \in Seq(S \cup {x}) /\ x \in S \cup {x}
  OBVIOUS
<1> HIDE DEF x
<1>2. /\ a \in Seq(S \cup {x}) /\ Len(a) = e + 1 /\ a[e + 1] = x
      /\ \A i \in 1 .. e : a[i] = s[i]
  BY <1>1, AppendFacts
<1> HIDE DEF a
<1>3. DOMAIN a = 1 .. (e + 1) /\ DOMAIN t = 1 .. (e + 1)
  BY <1>1, <1>2
<1>4. \A i \in 1 .. (e + 1) : a[i] = t[i]
  <2> TAKE i \in 1 .. (e + 1)
  <2>1. i \in 1 .. e \/ i = e + 1
    BY <1>1
  <2>2. QED BY <1>2, <2>1 DEF x
<1>5. a = t
  BY <1>2, <1>3, <1>4
<1>6. QED BY <1>5 DEF a, x

(* What is removed from a place was there only, and the entries behind it   *)
(* move up.                                                                 *)
LEMMA RemoveAtFacts ==
  ASSUME NEW S, NEW s \in Seq(S), NEW k \in 1 .. Len(s)
  PROVE  /\ RemoveAt(s, k) \in Seq(S)
         /\ Len(s) \in Nat \ {0} /\ Len(RemoveAt(s, k)) = Len(s) - 1
         /\ \A i \in 1 .. (Len(s) - 1) : RemoveAt(s, k)[i] = IF i < k THEN s[i] ELSE s[i + 1]
         /\ IsInjective(s) => /\ IsInjective(RemoveAt(s, k))
                              /\ Entries(RemoveAt(s, k)) = Entries(s) \ {s[k]}
<1> DEFINE a == SubSeq(s, 1, k - 1)
           b == SubSeq(s, k + 1, Len(s))
           t == RemoveAt(s, k)
<1>1. Len(s) \in Nat /\ k \in Nat /\ 1 <= k /\ k <= Len(s) /\ DOMAIN s = 1 .. Len(s)
  OBVIOUS
<1>2. a \in Seq(S) /\ Len(a) = k - 1 /\ \A i \in 1 .. (k - 1) : a[i] = s[i]
  <2>1. \A i \in 1 .. (k - 1) : s[i] \in S
    BY <1>1
  <2>2. QED BY <1>1, <2>1, SubSeqProperties
<1>3. b \in Seq(S) /\ Len(b) = Len(s) - k /\ \A i \in 1 .. (Len(s) - k) : b[i] = s[i + k]
  <2>1. \A i \in (k + 1) .. Len(s) : s[i] \in S
    BY <1>1
  <2>2. b \in Seq(S) /\ Len(b) = IF k + 1 <= Len(s) THEN Len(s) - (k + 1) + 1 ELSE 0
    BY <1>1, <2>1, SubSeqProperties
  <2>3. Len(b) = Len(s) - k
    <3> HIDE DEF b
    <3>1. CASE k + 1 <= Len(s)
      BY <1>1, <2>2, <3>1
    <3>2. CASE ~(k + 1 <= Len(s))
      <4> DEFINE n == Len(s)
      <4>0. n \in Nat /\ k \in Nat /\ k <= n
        BY <1>1
      <4> HIDE DEF n
      <4>1. k = n
        BY <4>0, <3>2 DEF n
      <4>2. Len(b) = 0
        BY <2>2, <3>2
      <4>3. QED BY <4>0, <4>1, <4>2 DEF n
    <3>3. QED BY <3>1, <3>2
  <2>4. \A i \in 1 .. (Len(s) - (k + 1) + 1) : b[i] = s[(k + 1) + i - 1]
    BY <1>1, <2>1, SubSeqProperties
  <2>5. \A i \in 1 .. (Len(s) - k) : b[i] = s[i + k]
    <3> TAKE i \in 1 .. (Len(s) - k)
    <3>1. i \in 1 .. (Len(s) - (k + 1) + 1) /\ (k + 1) + i - 1 = i + k
      BY <1>1
    <3>2. QED BY <2>4, <3>1
  <2>6. QED BY <2>2, <2>3, <2>5
<1>4. t = a \o b
  BY DEF RemoveAt
<1> HIDE DEF a, b, t
<1>5. t \in Seq(S) /\ Len(t) = Len(s) - 1
  <2>1. Len(t) = Len(a) + Len(b) /\ t \in Seq(S)
    BY <1>2, <1>3, <1>4, ConcatProperties
  <2>2. QED BY <1>1, <1>2, <1>3, <2>1
<1>6. \A i \in 1 .. (Len(s) - 1) : t[i] = IF i < k THEN s[i] ELSE s[i + 1]
  <2> TAKE i \in 1 .. (Len(s) - 1)
  <2>1. CASE i < k
    BY <1>1, <1>2, <1>3, <1>4, <2>1
  <2>2. CASE ~(i < k)
    <3>1. i - (k - 1) \in 1 .. (Len(s) - k) /\ i > Len(a) /\ i - (k - 1) + k = i + 1
      BY <1>1, <1>2, <2>2
    <3>2. t[i] = b[i - (k - 1)]
      BY <1>1, <1>2, <1>3, <1>4, <3>1
    <3>3. b[i - (k - 1)] = s[i - (k - 1) + k]
      BY <1>3, <3>1
    <3>4. QED BY <2>2, <3>1, <3>2, <3>3
  <2>3. QED BY <2>1, <2>2
<1>7. DOMAIN t = 1 .. (Len(s) - 1)
  BY <1>1, <1>5
<1>8. ASSUME IsInjective(s) PROVE IsInjective(t) /\ Entries(t) = Entries(s) \ {s[k]}
  <2> DEFINE from(i) == IF i < k THEN i ELSE i + 1
  <2>1. \A i \in 1 .. (Len(s) - 1) : from(i) \in 1 .. Len(s) /\ from(i) # k /\ t[i] = s[from(i)]
    BY <1>1, <1>6
  <2>2. \A i, j \in 1 .. (Len(s) - 1) : from(i) = from(j) => i = j
    BY <1>1
  <2>3. \A j \in 1 .. Len(s) : j # k => \E i \in 1 .. (Len(s) - 1) : from(i) = j
    <3> TAKE j \in 1 .. Len(s)
    <3>1. CASE j < k
      <4>1. j \in 1 .. (Len(s) - 1) /\ from(j) = j
        BY <1>1, <3>1
      <4>2. QED BY <4>1
    <3>2. CASE j > k
      <4>1. j - 1 \in 1 .. (Len(s) - 1) /\ from(j - 1) = j
        BY <1>1, <3>2
      <4>2. QED BY <4>1
    <3>3. QED BY <1>1, <3>1, <3>2
  <2> HIDE DEF from
  <2>4. \A i, j \in 1 .. Len(s) : s[i] = s[j] => i = j
    BY <1>1, <1>8 DEF IsInjective
  <2>5. IsInjective(t)
    <3> SUFFICES ASSUME NEW i \in 1 .. (Len(s) - 1), NEW j \in 1 .. (Len(s) - 1), t[i] = t[j]
                 PROVE  i = j
      BY <1>7 DEF IsInjective
    <3>1. s[from(i)] = s[from(j)]
      BY <2>1
    <3>2. from(i) = from(j)
      BY <2>1, <2>4, <3>1
    <3>3. QED BY <2>2, <3>2
  <2>6. Entries(t) = {t[i] : i \in 1 .. (Len(s) - 1)}
    BY <1>5 DEF Entries
  <2>7. \A x \in Entries(t) : x \in Entries(s) \ {s[k]}
    <3> SUFFICES ASSUME NEW i \in 1 .. (Len(s) - 1) PROVE t[i] \in Entries(s) \ {s[k]}
      BY <2>6
    <3>1. from(i) \in 1 .. Len(s) /\ from(i) # k /\ t[i] = s[from(i)] /\ k \in 1 .. Len(s)
      BY <2>1
    <3>2. s[from(i)] # s[k]
      BY <2>4, <3>1
    <3>3. QED BY <3>1, <3>2 DEF Entries
  <2>8. ASSUME NEW x \in Entries(s) \ {s[k]} PROVE x \in Entries(t)
    <3>1. PICK j \in 1 .. Len(s) : x = s[j]
      BY DEF Entries
    <3>2. j # k
      BY <3>1
    <3>3. PICK i \in 1 .. (Len(s) - 1) : from(i) = j
      BY <2>3, <3>2
    <3>4. t[i] = x
      BY <2>1, <3>1, <3>3
    <3>5. QED BY <2>6, <3>4
  <2>9. QED BY <2>5, <2>7, <2>8
<1>9. QED BY <1>1, <1>5, <1>6, <1>8 DEF t

-----------------------------------------------------------------------------
(* Lists that are linked in both directions                                 *)

Linked2(s, next, prev, none) ==
  \A i \in 1 .. Len(s) : /\ next[s[i]] = IF i = Len(s) THEN none ELSE s[i + 1]
                        /\ prev[s[i]] = IF i = 1 THEN none ELSE s[i - 1]

(* Such a list is one that a loop can follow.                               *)
LEMMA LinkedLeads ==
  ASSUME NEW s, NEW next, NEW prev, NEW none, NEW from,
         s \in Seq(DOMAIN next), IsInjective(s), none \notin DOMAIN next,
         Linked2(s, next, prev, none),
         from = IF s = <<>> THEN none ELSE s[1]
  PROVE  Leads(s, from, next)
BY DEF Leads, Linked2

(* Only the links of the last entry and of what follows it change.          *)
LEMMA AppendLinked ==
  ASSUME NEW S, NEW s \in Seq(S), IsInjective(s), NEW n \in S, n \notin Entries(s),
         NEW next, NEW prev, NEW none, Linked2(s, next, prev, none),
         NEW nx, NEW pv, nx[n] = none, pv[n] = IF s = <<>> THEN none ELSE s[Len(s)],
         \A x \in Entries(s) : /\ nx[x] = IF x = s[Len(s)] THEN n ELSE next[x]
                               /\ pv[x] = prev[x]
  PROVE  Linked2(Append(s, n), nx, pv, none)
<1> DEFINE t == Append(s, n)
           e == Len(s)
<1>1. /\ e \in Nat /\ Len(t) = e + 1 /\ t[e + 1] = n
      /\ \A i \in 1 .. e : t[i] = s[i]
  BY AppendFacts
<1>2. s = <<>> <=> e = 0
  OBVIOUS
<1>3. DOMAIN s = 1 .. e
  OBVIOUS
<1> HIDE DEF t
<1> SUFFICES ASSUME NEW i \in 1 .. (e + 1)
             PROVE  /\ nx[t[i]] = IF i = e + 1 THEN none ELSE t[i + 1]
                    /\ pv[t[i]] = IF i = 1 THEN none ELSE t[i - 1]
  BY <1>1 DEF Linked2, t
<1>4. CASE i = e + 1
  <2>1. t[i] = n /\ (i = 1 <=> s = <<>>)
    BY <1>1, <1>2, <1>4
  <2>2. i # 1 => i - 1 = e /\ e \in 1 .. e
    BY <1>1, <1>4
  <2>3. i # 1 => t[i - 1] = s[e]
    BY <1>1, <2>2
  <2>4. QED BY <1>4, <2>1, <2>3
<1>5. CASE i \in 1 .. e
  <2>1. t[i] = s[i] /\ s[i] \in Entries(s) /\ i # e + 1
    BY <1>1, <1>5 DEF Entries
  <2>2. /\ next[s[i]] = IF i = e THEN none ELSE s[i + 1]
        /\ prev[s[i]] = IF i = 1 THEN none ELSE s[i - 1]
    BY <1>5 DEF Linked2
  <2>3. pv[t[i]] = IF i = 1 THEN none ELSE t[i - 1]
    <3>1. i # 1 => i - 1 \in 1 .. e
      BY <1>1, <1>5
    <3>2. i # 1 => t[i - 1] = s[i - 1]
      BY <1>1, <3>1
    <3>3. QED BY <2>1, <2>2, <3>2
  <2>4. nx[t[i]] = t[i + 1]
    <3>1. CASE i = e
      BY <1>1, <2>1, <3>1
    <3>2. CASE i # e
      <4>1. i + 1 \in 1 .. e /\ e \in 1 .. e
        BY <1>1, <1>5, <3>2
      <4>2. s[i] # s[e]
        BY <1>3, <1>5, <3>2, <4>1 DEF IsInjective
      <4>3. t[i + 1] = s[i + 1]
        BY <1>1, <4>1
      <4>4. QED BY <2>1, <2>2, <3>2, <4>2, <4>3
    <3>3. QED BY <3>1, <3>2
  <2>5. QED BY <2>1, <2>3, <2>4
<1>6. QED BY <1>1, <1>4, <1>5

(* The neighbours of what is removed are linked to each other.              *)
LEMMA RemoveLinked ==
  ASSUME NEW S, NEW s \in Seq(S), IsInjective(s), NEW k \in 1 .. Len(s),
         NEW next, NEW prev, NEW none, none \notin S, Linked2(s, next, prev, none),
         NEW nx, NEW pv,
         \A x \in Entries(s) \ {s[k]} :
           /\ nx[x] = IF x = prev[s[k]] THEN next[s[k]] ELSE next[x]
           /\ pv[x] = IF x = next[s[k]] THEN prev[s[k]] ELSE prev[x]
  PROVE  Linked2(RemoveAt(s, k), nx, pv, none)
<1> DEFINE t == RemoveAt(s, k)
           e == Len(s)
           f == e - 1
<1>1. /\ e \in Nat \ {0} /\ Len(t) = f /\ f \in Nat
      /\ \A i \in 1 .. f : t[i] = IF i < k THEN s[i] ELSE s[i + 1]
  <2>1. /\ Len(s) \in Nat \ {0} /\ Len(t) = Len(s) - 1
        /\ \A i \in 1 .. (Len(s) - 1) : t[i] = IF i < k THEN s[i] ELSE s[i + 1]
    BY RemoveAtFacts
  <2> HIDE DEF t
  <2>2. f \in Nat
    BY <2>1
  <2>3. QED BY <2>1, <2>2
<1>2. DOMAIN s = 1 .. e /\ k \in Nat /\ 1 <= k /\ k <= e
  OBVIOUS
<1>3. \A i \in 1 .. e : /\ next[s[i]] = IF i = e THEN none ELSE s[i + 1]
                        /\ prev[s[i]] = IF i = 1 THEN none ELSE s[i - 1]
  BY DEF Linked2
<1>4. \A i, j \in 1 .. e : s[i] = s[j] => i = j
  BY <1>2 DEF IsInjective
<1>5. \A i \in 1 .. e : s[i] # none
  BY <1>2
<1>6. \A i \in 1 .. e : i # k =>
        /\ nx[s[i]] = IF s[i] = prev[s[k]] THEN next[s[k]] ELSE next[s[i]]
        /\ pv[s[i]] = IF s[i] = next[s[k]] THEN prev[s[k]] ELSE prev[s[i]]
  <2> SUFFICES ASSUME NEW i \in 1 .. e, i # k PROVE s[i] \in Entries(s) \ {s[k]}
    OBVIOUS
  <2>1. s[i] # s[k]
    BY <1>4
  <2>2. QED BY <2>1 DEF Entries
<1> HIDE DEF t, e
<1>7. \A i \in 1 .. e : i # k =>
        /\ nx[s[i]] = IF i = k - 1 THEN next[s[k]] ELSE next[s[i]]
        /\ pv[s[i]] = IF i = k + 1 THEN prev[s[k]] ELSE prev[s[i]]
  <2> SUFFICES ASSUME NEW i \in 1 .. e, i # k
               PROVE  (s[i] = prev[s[k]] <=> i = k - 1) /\ (s[i] = next[s[k]] <=> i = k + 1)
    BY <1>6
  <2>1. s[i] = prev[s[k]] <=> i = k - 1
    <3>1. CASE k = 1
      BY <1>2, <1>3, <1>5, <3>1
    <3>2. CASE k # 1
      <4>1. k - 1 \in 1 .. e /\ k \in 1 .. e
        BY <1>1, <1>2, <3>2
      <4>2. prev[s[k]] = s[k - 1]
        BY <1>3, <3>2, <4>1
      <4>3. QED BY <1>4, <4>1, <4>2
    <3>3. QED BY <3>1, <3>2
  <2>2. s[i] = next[s[k]] <=> i = k + 1
    <3>1. CASE k = e
      BY <1>1, <1>2, <1>3, <1>5, <3>1
    <3>2. CASE k # e
      <4>1. k + 1 \in 1 .. e /\ next[s[k]] = s[k + 1]
        BY <1>1, <1>2, <1>3, <3>2
      <4>2. QED BY <1>4, <4>1
    <3>3. QED BY <3>1, <3>2
  <2>3. QED BY <2>1, <2>2
<1>8. /\ \A i \in 1 .. e : i < k - 1 => i \in 1 .. f /\ i + 1 \in 1 .. f /\ nx[s[i]] = t[i + 1]
      /\ k - 1 \in 1 .. f => nx[s[k - 1]] = IF k = e THEN none ELSE t[k]
      /\ \A i \in 1 .. e : i > k => nx[s[i]] = IF i = e THEN none ELSE t[i]
  <2>1. ASSUME NEW i \in 1 .. e, i < k - 1
        PROVE  i \in 1 .. f /\ i + 1 \in 1 .. f /\ nx[s[i]] = t[i + 1]
    <3>1. i \in 1 .. f /\ i + 1 \in 1 .. f /\ i # e /\ i + 1 < k /\ i # k
      BY <1>1, <1>2, <2>1
    <3>2. nx[s[i]] = next[s[i]] /\ next[s[i]] = s[i + 1] /\ t[i + 1] = s[i + 1]
      BY <1>1, <1>3, <1>7, <2>1, <3>1
    <3>3. QED BY <3>1, <3>2
  <2>2. ASSUME k - 1 \in 1 .. f PROVE nx[s[k - 1]] = IF k = e THEN none ELSE t[k]
    <3>1. k - 1 \in 1 .. e /\ k - 1 # k /\ nx[s[k - 1]] = next[s[k]]
      BY <1>1, <1>2, <1>7, <2>2
    <3>2. next[s[k]] = IF k = e THEN none ELSE s[k + 1]
      BY <1>1, <1>2, <1>3
    <3>3. k # e => k \in 1 .. f /\ ~(k < k)
      BY <1>1, <1>2
    <3>4. k # e => t[k] = s[k + 1]
      BY <1>1, <3>3
    <3>5. QED BY <3>1, <3>2, <3>4
  <2>3. ASSUME NEW i \in 1 .. e, i > k PROVE nx[s[i]] = IF i = e THEN none ELSE t[i]
    <3>1. i # k /\ i # k - 1
      BY <1>2, <2>3
    <3>2. nx[s[i]] = next[s[i]]
      BY <1>7, <3>1
    <3>3. i # e => i \in 1 .. f /\ ~(i < k)
      BY <1>1, <1>2, <2>3
    <3>4. i # e => t[i] = s[i + 1]
      BY <1>1, <3>3
    <3>5. QED BY <1>3, <3>2, <3>4
  <2>4. QED BY <2>1, <2>2, <2>3
<1>9. /\ \A i \in 1 .. e : i < k => pv[s[i]] = IF i = 1 THEN none ELSE t[i - 1]
      /\ k + 1 \in 1 .. e => pv[s[k + 1]] = IF k = 1 THEN none ELSE t[k - 1]
      /\ \A i \in 1 .. e : i > k + 1 => pv[s[i]] = t[i - 2]
  <2>1. ASSUME NEW i \in 1 .. e, i < k PROVE pv[s[i]] = IF i = 1 THEN none ELSE t[i - 1]
    <3>1. i # k /\ i # k + 1
      BY <1>2, <2>1
    <3>2. pv[s[i]] = prev[s[i]]
      BY <1>7, <3>1
    <3>3. i # 1 => i - 1 \in 1 .. f /\ i - 1 < k
      BY <1>1, <1>2, <2>1
    <3>4. i # 1 => t[i - 1] = s[i - 1]
      BY <1>1, <3>3
    <3>5. QED BY <1>3, <3>2, <3>4
  <2>2. ASSUME k + 1 \in 1 .. e PROVE pv[s[k + 1]] = IF k = 1 THEN none ELSE t[k - 1]
    <3>1. k + 1 # k /\ pv[s[k + 1]] = prev[s[k]]
      BY <1>2, <1>7, <2>2
    <3>2. prev[s[k]] = IF k = 1 THEN none ELSE s[k - 1]
      BY <1>1, <1>2, <1>3
    <3>3. k # 1 => k - 1 \in 1 .. f /\ k - 1 < k
      BY <1>1, <1>2
    <3>4. k # 1 => t[k - 1] = s[k - 1]
      BY <1>1, <3>3
    <3>5. QED BY <3>1, <3>2, <3>4
  <2>3. ASSUME NEW i \in 1 .. e, i > k + 1 PROVE pv[s[i]] = t[i - 2]
    <3>1. i # k /\ i # k + 1 /\ i # 1
      BY <1>2, <2>3
    <3>2. pv[s[i]] = prev[s[i]] /\ prev[s[i]] = s[i - 1]
      BY <1>3, <1>7, <3>1
    <3>3. i - 2 \in 1 .. f /\ ~(i - 2 < k) /\ (i - 2) + 1 = i - 1
      BY <1>1, <1>2, <2>3
    <3>4. t[i - 2] = s[(i - 2) + 1]
      BY <1>1, <3>3
    <3>5. QED BY <3>2, <3>3, <3>4
  <2>4. QED BY <2>1, <2>2, <2>3
<1> SUFFICES ASSUME NEW i \in 1 .. f
             PROVE  /\ nx[t[i]] = IF i = f THEN none ELSE t[i + 1]
                    /\ pv[t[i]] = IF i = 1 THEN none ELSE t[i - 1]
  BY <1>1 DEF Linked2, t
<1>10. CASE i < k - 1
  <2>1. i \in 1 .. e /\ i < k /\ i # f /\ t[i] = s[i]
    BY <1>1, <1>2, <1>10
  <2>2. QED BY <1>8, <1>9, <1>10, <2>1
<1>11. CASE i = k - 1
  <2>1. i \in 1 .. e /\ i < k /\ t[i] = s[i] /\ (i = f <=> k = e) /\ i + 1 = k
    BY <1>1, <1>2, <1>11
  <2>2. QED BY <1>8, <1>9, <1>11, <2>1
<1>12. CASE i = k
  <2>1. /\ i + 1 \in 1 .. e /\ i + 1 > k /\ k + 1 \in 1 .. e /\ t[i] = s[i + 1]
        /\ (i = f <=> i + 1 = e)
    BY <1>1, <1>2, <1>12
  <2>2. QED BY <1>8, <1>9, <1>12, <2>1
<1>13. CASE i > k
  <2>1. /\ i + 1 \in 1 .. e /\ i + 1 > k + 1 /\ i + 1 > k /\ t[i] = s[i + 1] /\ i # 1
        /\ (i = f <=> i + 1 = e) /\ (i + 1) - 2 = i - 1
    BY <1>1, <1>2, <1>13
  <2>2. pv[s[i + 1]] = t[(i + 1) - 2] /\ nx[s[i + 1]] = IF i + 1 = e THEN none ELSE t[i + 1]
    BY <1>8, <1>9, <2>1
  <2>3. QED BY <2>1, <2>2
<1>14. QED BY <1>1, <1>2, <1>10, <1>11, <1>12, <1>13
=============================================================================
