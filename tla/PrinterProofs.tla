--------------------------- MODULE PrinterProofs ---------------------------
(***************************************************************************)
(* Proofs about the printer, for every list the parser may hand over,      *)
(* every configuration and every ordering of the names.                    *)
(***************************************************************************)
EXTENDS Printer, ListProofs

Printed == [row : Nat, name : Name \cup {Garbage}]

(* A sequence continued with the entries of a function on 1 .. n.            *)
LEMMA Extended ==
  ASSUME NEW S, NEW s \in Seq(S), NEW n \in Nat, NEW f \in [1 .. n -> S],
         NEW m \in Nat, m = Len(s) + n
  PROVE  /\ \A i \in 1 .. Len(s) : (s \o f)[i] = s[i]
         /\ \A i \in (Len(s) + 1) .. m : i - Len(s) \in 1 .. n /\ (s \o f)[i] = f[i - Len(s)]
<1>1. f \in Seq(S) /\ Len(f) = n
  OBVIOUS
<1> QED BY <1>1

LEMMA GetType ==
  ASSUME NEW i \in Nat, Imports \in Seq(Name)
  PROVE  /\ Get(i) \in Name \cup {Garbage}
         /\ i < Total => Get(i) = Imports[i + 1]
BY DEF Get, Total

(* What PrintNames adds to what is printed for the current module.          *)
LEMMA PrintNamesProperties ==
  ASSUME out \in Seq(Seq(Printed)), at \in 1 .. Len(out), Len(out[at]) = count,
         count \in Nat, count' \in Nat, count <= count', row' \in Nat,
         Imports \in Seq(Name), PrintNames
  PROVE  /\ out' \in Seq(Seq(Printed)) /\ DOMAIN out' = DOMAIN out /\ Len(out') = Len(out)
         /\ \A s \in DOMAIN out : s # at => out'[s] = out[s]
         /\ Len(out'[at]) = count'
         /\ DOMAIN out'[at] = 1 .. count' /\ DOMAIN out[at] = 1 .. count
         /\ \A i \in 1 .. count : out'[at][i] = out[at][i]
         /\ \A i \in (count + 1) .. count' : out'[at][i] = [row |-> row', name |-> Get(i - 1)]
<1>1. PICK n \in Nat : n = count' - count /\ count' = count + n
  <2>1. \A a, b \in Nat : a <= b => b - a \in Nat /\ b = a + (b - a)
    OBVIOUS
  <2>2. QED BY <2>1
<1> DEFINE new == [i \in 1 .. n |-> [row |-> row', name |-> Get(count + i - 1)]]
<1>2. \A i \in 1 .. n : Get(count + i - 1) \in Name \cup {Garbage}
  <2> SUFFICES ASSUME NEW i \in 1 .. n PROVE Get(count + i - 1) \in Name \cup {Garbage}
    OBVIOUS
  <2>1. count + i - 1 \in Nat
    OBVIOUS
  <2>2. QED BY <2>1, GetType
<1>3. new \in [1 .. n -> Printed]
  BY <1>2 DEF Printed
<1>4. \A i \in 1 .. n : new[i] = [row |-> row', name |-> Get(count + i - 1)]
  OBVIOUS
<1>5. out' = [out EXCEPT ![at] = out[at] \o new]
  BY <1>1 DEF PrintNames
<1> HIDE DEF new
<1>6. out[at] \in Seq(Printed)
  OBVIOUS
<1>7. /\ out[at] \o new \in Seq(Printed) /\ Len(out[at] \o new) = count'
      /\ DOMAIN (out[at] \o new) = 1 .. count' /\ DOMAIN out[at] = 1 .. count
      /\ \A i \in 1 .. count : (out[at] \o new)[i] = out[at][i]
      /\ \A i \in (count + 1) .. count' :
           i - count \in 1 .. n /\ (out[at] \o new)[i] = new[i - count]
  <2>1. n \in Nat /\ count' = Len(out[at]) + n
    BY <1>1
  <2>2. new \in Seq(Printed) /\ Len(new) = n
    BY <1>3, <2>1
  <2>3. /\ out[at] \o new \in Seq(Printed) /\ Len(out[at] \o new) = count'
        /\ DOMAIN (out[at] \o new) = 1 .. count' /\ DOMAIN out[at] = 1 .. Len(out[at])
    <3>1. \A s, t \in Seq(Printed) : /\ s \o t \in Seq(Printed)
                                     /\ Len(s \o t) = Len(s) + Len(t)
      OBVIOUS
    <3>2. \A s \in Seq(Printed) : DOMAIN s = 1 .. Len(s)
      OBVIOUS
    <3>3. out[at] \o new \in Seq(Printed) /\ Len(out[at] \o new) = count'
      BY <1>6, <2>1, <2>2, <3>1
    <3>4. QED BY <1>6, <3>2, <3>3
  <2>4. \A i \in 1 .. Len(out[at]) : (out[at] \o new)[i] = out[at][i]
    BY <1>3, <1>6, <2>1, Extended
  <2>5. \A i \in (Len(out[at]) + 1) .. count' :
          i - Len(out[at]) \in 1 .. n /\ (out[at] \o new)[i] = new[i - Len(out[at])]
    BY <1>3, <1>6, <2>1, Extended
  <2>6. QED BY <2>3, <2>4, <2>5
<1>8. out'[at] = out[at] \o new /\ DOMAIN out' = DOMAIN out
      /\ \A s \in DOMAIN out : s # at => out'[s] = out[s]
  BY <1>5
<1>9. out' \in Seq(Seq(Printed)) /\ Len(out') = Len(out)
  BY <1>5, <1>7
<1>10. ASSUME NEW i \in (count + 1) .. count'
       PROVE  out'[at][i] = [row |-> row', name |-> Get(i - 1)]
  <2>1. i - count \in 1 .. n /\ out'[at][i] = new[i - count]
    BY <1>7, <1>8
  <2>2. count + (i - count) - 1 = i - 1
    OBVIOUS
  <2>3. QED BY <1>4, <2>1, <2>2
<1>11. \A i \in 1 .. count : out'[at][i] = out[at][i]
  BY <1>7, <1>8
<1>12. QED BY <1>7, <1>8, <1>9, <1>10, <1>11

-----------------------------------------------------------------------------
(***************************************************************************)
(* Where the counters stand: "count" names of the current statement are    *)
(* printed, all of them between statements, and between the lines of a     *)
(* wrapped statement "remaining" are left, at least one.                   *)
(***************************************************************************)
Counters ==
  /\ Len(out) = at
  /\ at > 0 => Len(out[at]) = count
  /\ pc = "module" /\ at > 0 => count = Total
  /\ pc \in {"nowrap", "first"} => at > 0 /\ count = 0
  /\ pc = "first" => Wrap(modules[at])
  /\ pc = "lines" => at > 0 /\ remaining > 0 /\ count + remaining = Total
  /\ pc = "aborted" => at > 0
  /\ ~conf.show_after_sort => at = 0

(* Sorting neither loses a name nor adds one.                                *)
LEMMA SortedType ==
  ASSUME NEW names \in Seq(Name), NEW s \in Sorted(names)
  PROVE  s \in Seq(Name) /\ Len(s) = Len(names)
<1>1. CASE s = names
  BY <1>1
<1>2. CASE s \in SortsWith(CompareNodes, names)
  <2>1. s \in Reordered(names)
    BY <1>2 DEF SortsWith
  <2>2. PICK p \in [DOMAIN names -> DOMAIN names] : s = [i \in DOMAIN names |-> names[p[i]]]
    BY <2>1 DEF Reordered, Reorderings
  <2>3. s \in [1 .. Len(names) -> Name]
    BY <2>2
  <2>4. QED BY <2>3
<1>3. QED BY <1>1, <1>2 DEF Sorted

LEMMA SortType ==
  ASSUME TypeOK, at < Len(modules), at' = at + 1, Sort
  PROVE  /\ modules' \in Seq(Module) /\ Len(modules') = Len(modules)
         /\ \A i \in DOMAIN modules : i # at' => modules'[i] = modules[i]
<1>1. at' \in DOMAIN modules /\ modules[at'] \in Module
  BY DEF TypeOK
<1> DEFINE sorted(names) == [kind    |-> modules[at'].kind, title |-> modules[at'].title,
                             imports |-> names]
<1>2. PICK names \in Sorted(modules[at'].imports) :
        modules' = [modules EXCEPT ![at'] = sorted(names)]
  BY DEF Sort
<1>3. names \in Seq(Name) /\ Len(names) = Len(modules[at'].imports)
  BY <1>1, SortedType DEF Module
<1>4. sorted(names) \in Module
  BY <1>1, <1>3 DEF Module
<1> HIDE DEF sorted
<1>5. QED BY <1>1, <1>2, <1>4 DEF TypeOK

LEMMA PrinterInit == Init => TypeOK /\ Counters /\ PrintsEveryName
<1> SUFFICES ASSUME Init PROVE TypeOK /\ Counters /\ PrintsEveryName
  OBVIOUS
<1>1. TypeOK
  BY PrinterAssumption DEF Init, TypeOK
<1>2. Counters /\ PrintsEveryName
  BY DEF Init, Counters, PrintsEveryName
<1>3. QED BY <1>1, <1>2

(* A step that prints the next names of the current statement.              *)
LEMMA PrintStep ==
  ASSUME TypeOK, Counters, PrintsEveryName, at > 0, PrintNames, row' \in Nat,
         count' \in Nat, count <= count', count' <= Total, UNCHANGED <<modules, at>>
  PROVE  /\ out' \in Seq(Seq(Printed)) /\ Len(out') = at' /\ Len(out'[at']) = count'
         /\ \A s \in DOMAIN out' :
              /\ s # at => Len(out'[s]) = Len(out[s]) /\ s \in DOMAIN out
              /\ \A i \in DOMAIN out'[s] : /\ i <= Len(modules'[s].imports)
                                           /\ out'[s][i].name = modules'[s].imports[i]
<1>1. /\ out \in Seq(Seq(Printed)) /\ Len(out) = at /\ Len(out[at]) = count
      /\ at \in 1 .. Len(out) /\ count \in Nat
  BY DEF TypeOK, Counters, Printed
<1>2. modules[at] \in Module
  BY <1>1 DEF TypeOK
<1>3. Imports \in Seq(Name) /\ Total \in Nat
  BY <1>2 DEF Imports, Total, Module
<1>4. /\ out' \in Seq(Seq(Printed)) /\ DOMAIN out' = DOMAIN out /\ Len(out') = Len(out)
      /\ \A s \in DOMAIN out : s # at => out'[s] = out[s]
      /\ Len(out'[at]) = count'
      /\ DOMAIN out'[at] = 1 .. count' /\ DOMAIN out[at] = 1 .. count
      /\ \A i \in 1 .. count : out'[at][i] = out[at][i]
      /\ \A i \in (count + 1) .. count' : out'[at][i] = [row |-> row', name |-> Get(i - 1)]
  BY <1>1, <1>3, PrintNamesProperties
<1>5. ASSUME NEW s \in DOMAIN out, s # at
      PROVE  /\ Len(out'[s]) = Len(out[s])
             /\ \A i \in DOMAIN out'[s] : /\ i <= Len(modules'[s].imports)
                                          /\ out'[s][i].name = modules'[s].imports[i]
  BY <1>4, <1>5 DEF PrintsEveryName
<1>6. ASSUME NEW i \in DOMAIN out'[at]
      PROVE  i <= Len(modules'[at].imports) /\ out'[at][i].name = modules'[at].imports[i]
  <2>1. CASE i \in 1 .. count
    <3>1. at \in DOMAIN out /\ i \in DOMAIN out[at] /\ out'[at][i] = out[at][i]
      BY <1>1, <1>4, <2>1
    <3>2. QED BY <3>1 DEF PrintsEveryName
  <2>2. CASE i \in (count + 1) .. count'
    <3>1. i \in Nat /\ i <= Total /\ i - 1 < Total /\ (i - 1) + 1 = i
      BY <1>1, <1>3, <2>2
    <3>2. out'[at][i] = [row |-> row', name |-> Get(i - 1)]
      BY <1>4, <2>2
    <3>3. Get(i - 1) = Imports[i]
      BY <3>1 DEF Get
    <3>4. QED BY <3>1, <3>2, <3>3 DEF Imports, Total
  <2>3. QED BY <1>1, <1>4, <2>1, <2>2
<1>7. QED BY <1>1, <1>4, <1>5, <1>6

PrinterInv == TypeOK /\ Counters /\ PrintsEveryName

(* A step that prints, and where the counters have to stand after it.        *)
LEMMA PrintsKeeps ==
  ASSUME PrinterInv, at > 0, PrintNames, row' \in Nat, count' \in Nat, count <= count',
         count' <= Total, remaining' \in Nat, UNCHANGED <<asserts, conf, modules, at>>,
         \/ pc' = "module" /\ count' = Total
         \/ pc' = "aborted"
         \/ pc' = "lines" /\ remaining' > 0 /\ count' + remaining' = Total
  PROVE  PrinterInv'
<1> USE DEF PrinterInv
<1>1. /\ at \in Nat /\ count \in Nat /\ remaining \in Nat /\ row \in Nat
      /\ out \in Seq(Seq(Printed)) /\ modules \in Seq(Module) /\ at \in 0 .. Len(modules)
  BY DEF TypeOK, Printed
<1>2. /\ out' \in Seq(Seq(Printed)) /\ Len(out') = at' /\ Len(out'[at']) = count'
      /\ \A s \in DOMAIN out' :
           /\ s # at => Len(out'[s]) = Len(out[s]) /\ s \in DOMAIN out
           /\ \A i \in DOMAIN out'[s] : /\ i <= Len(modules'[s].imports)
                                        /\ out'[s][i].name = modules'[s].imports[i]
  BY PrintStep
<1>3. TypeOK'
  BY <1>1, <1>2 DEF TypeOK, Printed
<1>4. Counters'
  BY <1>1, <1>2 DEF Counters, Total, Imports
<1>5. PrintsEveryName'
  <2>1. ASSUME NEW s \in DOMAIN out', s < at \/ pc' \in {"module", "done"}
        PROVE  Len(out'[s]) = Len(modules'[s].imports)
    <3>1. CASE s = at
      BY <1>1, <1>2, <2>1, <3>1 DEF Total, Imports
    <3>2. CASE s # at
      <4>1. s < at /\ s \in DOMAIN out
        BY <1>1, <1>2, <3>2
      <4>2. QED BY <1>2, <3>2, <4>1 DEF PrintsEveryName
    <3>3. QED BY <3>1, <3>2
  <2>2. QED BY <1>2, <2>1 DEF PrintsEveryName
<1>6. QED BY <1>3, <1>4, <1>5

LEMMA PrinterStep ==
  ASSUME PrinterInv, [Next]_vars
  PROVE  PrinterInv'
<1> USE DEF PrinterInv
<1>1. /\ at \in Nat /\ count \in Nat /\ remaining \in Nat /\ row \in Nat
      /\ out \in Seq(Seq(Printed)) /\ modules \in Seq(Module) /\ at \in 0 .. Len(modules)
      /\ conf \in Conf
  BY PrinterAssumption DEF TypeOK, Printed
<1>2. ASSUME at > 0
      PROVE  Imports \in Seq(Name) /\ Total \in Nat /\ Total > 0
    <2>1. modules[at] \in Module
      BY <1>1, <1>2
    <2>2. QED BY <2>1 DEF Imports, Total, Module
<1>3. conf.wrap_after_n_imports \in Nat /\ conf.import_on_each_wrap \in Nat
  BY <1>1 DEF Conf
<1>4. CASE NextModule
  <2>1. /\ modules' \in Seq(Module) /\ Len(modules') = Len(modules)
        /\ \A i \in DOMAIN modules : i # at' => modules'[i] = modules[i]
    BY <1>4, SortType DEF NextModule
  <2>2. /\ out' \in Seq(Seq(Printed)) /\ Len(out') = at + 1 /\ DOMAIN out' = 1 .. (at + 1)
        /\ DOMAIN out = 1 .. at
        /\ \A s \in 1 .. at : out'[s] = out[s]
        /\ out'[at'] = <<>>
    <3>1. out' = Append(out, <<>>) /\ Len(out) = at /\ at' = at + 1 /\ <<>> \in Seq(Printed)
      BY <1>4 DEF NextModule, Counters
    <3>2. QED BY <1>1, <3>1, AppendProperties
  <2>3. TypeOK'
    BY <1>1, <1>4, <2>1, <2>2 DEF NextModule, TypeOK, Printed
  <2>5. Counters'
    BY <1>1, <1>4, <2>2 DEF NextModule, Counters, Wrap
  <2>6. PrintsEveryName'
    <3>1. ASSUME NEW s \in 1 .. at
          PROVE  /\ Len(out'[s]) = Len(modules'[s].imports)
                 /\ \A i \in DOMAIN out'[s] : /\ i <= Len(modules'[s].imports)
                                              /\ out'[s][i].name = modules'[s].imports[i]
      <4>1. s \in DOMAIN modules /\ s # at' /\ s \in DOMAIN out
        BY <1>1, <1>4, <2>2 DEF NextModule
      <4>2. out'[s] = out[s] /\ modules'[s] = modules[s]
        BY <2>1, <2>2, <4>1
      <4>3. /\ Len(out[s]) = Len(modules[s].imports)
            /\ \A i \in DOMAIN out[s] : /\ i <= Len(modules[s].imports)
                                        /\ out[s][i].name = modules[s].imports[i]
        BY <1>4, <4>1 DEF NextModule, PrintsEveryName
      <4>4. QED BY <4>2, <4>3
    <3>2. Len(out'[at']) = 0 /\ DOMAIN out'[at'] = {} /\ at' = at + 1
      BY <1>4, <2>2 DEF NextModule
    <3>3. pc' \notin {"module", "done"}
      BY <1>4 DEF NextModule
    <3>4. ASSUME NEW s \in DOMAIN out', s < at' \/ pc' \in {"module", "done"}
          PROVE  Len(out'[s]) = Len(modules'[s].imports)
      <4>1. s \in 1 .. at
        BY <1>1, <2>2, <3>2, <3>3, <3>4
      <4>2. QED BY <3>1, <4>1
    <3>5. ASSUME NEW s \in DOMAIN out', NEW i \in DOMAIN out'[s]
          PROVE  i <= Len(modules'[s].imports) /\ out'[s][i].name = modules'[s].imports[i]
      <4>1. s \in 1 .. at
        BY <1>1, <2>2, <3>2, <3>5
      <4>2. QED BY <3>1, <3>5, <4>1
    <3>6. Len(out') = at' /\ pc' # "done"
      BY <2>2, <3>2, <3>3
    <3>7. QED BY <3>4, <3>5, <3>6 DEF PrintsEveryName
  <2>7. QED BY <2>3, <2>5, <2>6
<1>5. CASE Finish
  <2>1. pc' = "done" /\ UNCHANGED <<asserts, conf, modules, at, count, remaining, row, out>>
    BY <1>5 DEF Finish
  <2>2. TypeOK' /\ Counters'
    BY <2>1 DEF TypeOK, Counters
  <2>3. at = IF conf.show_after_sort THEN Len(modules) ELSE 0
    BY <1>5 DEF Finish, Counters
  <2>4. at > 0 => Len(out[at]) = Len(modules[at].imports)
    BY <1>5 DEF Finish, Counters, Total, Imports
  <2>5. DOMAIN out = 1 .. at
    BY <1>1 DEF Counters
  <2>6. \A s \in DOMAIN out : Len(out[s]) = Len(modules[s].imports)
    BY <1>1, <2>4, <2>5 DEF PrintsEveryName
  <2>7. PrintsEveryName'
    BY <2>1, <2>3, <2>6 DEF PrintsEveryName
  <2>8. QED BY <2>2, <2>7
<1> DEFINE Prints == /\ PrintNames /\ row' \in Nat
                     /\ count' \in Nat /\ count <= count' /\ count' <= Total /\ remaining' \in Nat
                     /\ UNCHANGED <<asserts, conf, modules, at>>
<1>6. CASE NoWrap
  <2>1. at > 0 /\ count = 0
    BY <1>6 DEF NoWrap, Counters
  <2>2. Prints /\ pc' = "module" /\ count' = Total
    BY <1>1, <1>2, <1>6, <2>1 DEF NoWrap
  <2>3. QED BY PrintsKeeps, <2>1, <2>2
<1>7. CASE FirstLine
  <2>1. at > 0 /\ count = 0 /\ Total > conf.wrap_after_n_imports
    BY <1>7 DEF FirstLine, Counters, Wrap, Total, Imports
  <2>2. Prints
    BY <1>1, <1>2, <1>3, <1>7, <2>1 DEF FirstLine
  <2>3. \/ pc' = "aborted"
        \/ pc' = "lines" /\ remaining' > 0 /\ count' + remaining' = Total
    BY <1>2, <1>3, <1>7, <2>1 DEF FirstLine
  <2>4. QED BY PrintsKeeps, <2>1, <2>2, <2>3
<1>8. CASE WrapLine
  <2>1. at > 0 /\ count + remaining = Total
    BY <1>8 DEF WrapLine, Counters
  <2>2. Prints
    <3>1. PrintNames /\ UNCHANGED <<asserts, conf, modules, at>>
      BY <1>8 DEF WrapLine
    <3>2. row' \in Nat
      BY <1>1, <1>8 DEF WrapLine
    <3>3. /\ remaining > conf.import_on_each_wrap
          /\ remaining' = remaining - conf.import_on_each_wrap
          /\ count' = count + conf.import_on_each_wrap
      BY <1>8 DEF WrapLine
    <3>4. remaining' \in Nat /\ count' \in Nat /\ count <= count' /\ count' <= Total
      <4>1. \A c, r, k, t \in Nat : c + r = t /\ r > k
              => r - k \in Nat /\ c + k \in Nat /\ c <= c + k /\ c + k <= t
        OBVIOUS
      <4>2. QED BY <1>1, <1>2, <1>3, <2>1, <3>3, <4>1
    <3>5. QED BY <3>1, <3>2, <3>4
  <2>3. pc' = "lines" /\ remaining' > 0 /\ count' + remaining' = Total
    BY <1>1, <1>2, <1>3, <1>8, <2>1 DEF WrapLine
  <2>4. QED BY PrintsKeeps, <2>1, <2>2, <2>3
<1>9. CASE LastLine
  <2>1. at > 0 /\ count + remaining = Total
    BY <1>9 DEF LastLine, Counters
  <2>2. Prints /\ pc' = "module" /\ count' = Total
    BY <1>1, <1>2, <1>3, <1>9, <2>1 DEF LastLine
  <2>3. QED BY PrintsKeeps, <2>1, <2>2
<1>10. CASE UNCHANGED vars
  BY <1>10 DEF vars, TypeOK, Counters, PrintsEveryName, Total, Imports, Wrap
<1>11. QED
  BY <1>4, <1>5, <1>6, <1>7, <1>8, <1>9, <1>10 DEF Next, Exited

LEMMA PrinterInvariant == Spec => []PrinterInv
<1>1. Init => PrinterInv
  BY PrinterInit DEF PrinterInv
<1>2. QED BY <1>1, PrinterStep, PTL DEF Spec

(* Every variable of the printer keeps its type.                            *)
THEOREM PrinterTypeCorrect == Spec => []TypeOK
BY PrinterInvariant, PTL DEF PrinterInv

(***************************************************************************)
(* Every name of every statement is printed once, in order, and no read    *)
(* leaves the array, whatever the lists and the wrapping options are.      *)
(***************************************************************************)
THEOREM NothingUnprinted == Spec => []PrintsEveryName
BY PrinterInvariant, PTL DEF PrinterInv

-----------------------------------------------------------------------------
(* Lines                                                                    *)

After     == conf.wrap_after_n_imports
OnEach    == conf.import_on_each_wrap

RowFits(i, r, m) ==
  /\ i > After /\ Wrap(m) => OnEach > 0 /\ r = LineOf(i, m)
  /\ i <= After \/ ~Wrap(m) => r = 1

RowsFit == \A s \in DOMAIN out : \A i \in DOMAIN out[s] : RowFits(i, out[s][i].row, modules[s])
LastRow == pc = "module" /\ at > 0 => out[at] # <<>> /\ Last(out[at]).row = row

(* Between two lines of a statement, full lines are printed.                 *)
RowCounts ==
  /\ pc = "lines" => Wrap(modules[at]) /\ row > 0 /\ count = After + (row - 1) * OnEach
  /\ pc = "nowrap" => ~Wrap(modules[at])

LayoutInv == RowsFit /\ LastRow /\ RowCounts

(* The line that follows r - 1 full ones after the first.                    *)
LEMMA Quotient ==
  ASSUME NEW q \in Nat, NEW k \in Nat, k > 0, NEW n \in Nat, q * k <= n, n < q * k + k
  PROVE  n \div k = q
<1>1. n \div k \in Int /\ n % k \in 0 .. (k - 1) /\ n = k * (n \div k) + (n % k)
  OBVIOUS
<1> DEFINE d == n \div k
<1>2. d \in Int /\ k * d <= n /\ n < k * d + k
  BY <1>1
<1> HIDE DEF d
<1>3. ASSUME d >= q + 1 PROVE FALSE
  <2>1. k * d >= k * (q + 1)
    BY <1>2, <1>3
  <2>2. k * (q + 1) = q * k + k
    OBVIOUS
  <2>3. q * k \in Nat /\ k * d \in Int
    BY <1>2
  <2>4. QED BY <1>2, <2>1, <2>2, <2>3
<1>4. ASSUME d + 1 <= q PROVE FALSE
  <2>1. k * (d + 1) <= k * q
    BY <1>2, <1>4
  <2>2. k * (d + 1) = k * d + k /\ k * q = q * k
    BY <1>2
  <2>3. q * k \in Nat /\ k * d \in Int
    BY <1>2
  <2>4. QED BY <1>2, <2>1, <2>2, <2>3
<1>5. d = q
  BY <1>2, <1>3, <1>4
<1>6. QED BY <1>5 DEF d

LEMMA RowsAdded ==
  ASSUME PrinterInv, RowsFit, at > 0, PrintNames, row' \in Nat,
         count' \in Nat, count <= count', count' <= Total,
         UNCHANGED <<conf, modules, at>>,
         \A i \in (count + 1) .. count' : RowFits(i, row', modules[at])
  PROVE  /\ RowsFit'
         /\ count < count' => out'[at] # <<>> /\ Last(out'[at]).row = row'
<1>1. /\ out \in Seq(Seq(Printed)) /\ Len(out) = at /\ Len(out[at]) = count
      /\ at \in 1 .. Len(out) /\ count \in Nat
  BY DEF PrinterInv, TypeOK, Counters, Printed
<1>2. modules[at] \in Module
  BY <1>1 DEF PrinterInv, TypeOK
<1>3. Imports \in Seq(Name) /\ Total \in Nat
  BY <1>2 DEF Imports, Total, Module
<1>4. /\ out' \in Seq(Seq(Printed)) /\ DOMAIN out' = DOMAIN out
      /\ \A s \in DOMAIN out : s # at => out'[s] = out[s]
      /\ Len(out'[at]) = count'
      /\ DOMAIN out'[at] = 1 .. count' /\ DOMAIN out[at] = 1 .. count
      /\ \A i \in 1 .. count : out'[at][i] = out[at][i]
      /\ \A i \in (count + 1) .. count' : out'[at][i] = [row |-> row', name |-> Get(i - 1)]
  BY <1>1, <1>3, PrintNamesProperties
<1>5. ASSUME NEW i \in (count + 1) .. count' PROVE out'[at][i].row = row'
  <2>1. out'[at][i] = [row |-> row', name |-> Get(i - 1)]
    BY <1>4
  <2>2. QED BY <2>1
<1>6. ASSUME NEW s \in DOMAIN out', NEW i \in DOMAIN out'[s]
      PROVE  RowFits(i, out'[s][i].row, modules[s])
  <2>1. CASE s # at
    BY <1>4, <1>6, <2>1 DEF RowsFit
  <2>2. CASE s = at /\ i \in 1 .. count
    <3>1. s \in DOMAIN out /\ i \in DOMAIN out[s] /\ out'[s][i] = out[s][i]
      BY <1>1, <1>4, <2>2
    <3>2. QED BY <3>1 DEF RowsFit
  <2>3. CASE s = at /\ i \in (count + 1) .. count'
    <3>1. out'[s][i].row = row' /\ modules[s] = modules[at]
      BY <1>5, <2>3
    <3>2. RowFits(i, row', modules[at])
      BY <2>3
    <3>3. QED BY <3>1, <3>2
  <2>4. QED BY <1>1, <1>4, <1>6, <2>1, <2>2, <2>3
<1>7. RowsFit'
  BY <1>6 DEF RowsFit, RowFits, LineOf, Wrap, After, OnEach
<1>8. ASSUME count < count' PROVE out'[at] # <<>> /\ Last(out'[at]).row = row'
  <2>1. count' \in (count + 1) .. count' /\ count' \in DOMAIN out'[at]
    BY <1>1, <1>4, <1>8
  <2>2. out'[at][count'].row = row'
    BY <1>5, <2>1
  <2>3. Last(out'[at]) = out'[at][count']
    BY <1>4 DEF Last
  <2>4. out'[at] # <<>>
    BY <2>1
  <2>5. QED BY <2>2, <2>3, <2>4
<1>9. QED BY <1>7, <1>8

(* The names of a line after the first ones are in their place.              *)
LEMMA LineFits ==
  ASSUME PrinterInv, RowCounts, pc = "lines", OnEach > 0,
         NEW i \in Nat, count < i, i <= count + OnEach
  PROVE  RowFits(i, row + 1, modules[at])
<1>1. conf \in Conf /\ After \in Nat /\ OnEach \in Nat /\ row \in Nat /\ row > 0
      /\ count = After + (row - 1) * OnEach /\ Wrap(modules[at]) /\ count \in Nat
  BY PrinterAssumption DEF PrinterInv, TypeOK, RowCounts, After, OnEach, Conf
<1> DEFINE q == row - 1
<1>2. q \in Nat /\ q * OnEach \in Nat /\ count = After + q * OnEach /\ row + 1 = 2 + q
  BY <1>1
<1> HIDE DEF q
<1>3. i - 1 - After \in Nat /\ q * OnEach <= i - 1 - After /\ i - 1 - After < q * OnEach + OnEach
  BY <1>1, <1>2
<1>4. (i - 1 - After) \div OnEach = q
  BY <1>1, <1>2, <1>3, Quotient
<1>5. i > After
  BY <1>1, <1>2
<1>6. LineOf(i, modules[at]) = 2 + q
  BY <1>1, <1>4, <1>5 DEF LineOf, After, OnEach
<1>7. QED BY <1>1, <1>2, <1>5, <1>6 DEF RowFits
LEMMA LayoutStart == Init => LayoutInv
  BY DEF Init, LayoutInv, RowsFit, LastRow, RowCounts

LEMMA LayoutStep ==
  ASSUME PrinterInv, PrinterInv', LayoutInv, [Next]_vars
  PROVE  LayoutInv'
<1> USE DEF LayoutInv
<1>1. /\ at \in Nat /\ count \in Nat /\ remaining \in Nat /\ row \in Nat
      /\ modules \in Seq(Module) /\ at \in 0 .. Len(modules) /\ conf \in Conf
      /\ out \in Seq(Seq(Printed)) /\ Len(out) = at
      /\ After \in Nat /\ OnEach \in Nat
  <2>1. conf \in Conf
    BY PrinterAssumption DEF PrinterInv, TypeOK
  <2>2. After \in Nat /\ OnEach \in Nat
    BY <2>1 DEF Conf, After, OnEach
  <2>3. QED BY <2>1, <2>2 DEF PrinterInv, TypeOK, Counters, Printed
<1>2. ASSUME at > 0 PROVE Total \in Nat /\ Total > 0
  <2>1. modules[at] \in Module
    BY <1>1, <1>2
  <2>2. QED BY <2>1 DEF Imports, Total, Module
<1>3. CASE NextModule
  <2>1. /\ Len(modules') = Len(modules)
        /\ \A i \in DOMAIN modules : i # at' => modules'[i] = modules[i]
    BY <1>3, SortType DEF NextModule, PrinterInv
  <2>2. DOMAIN out' = 1 .. (at + 1) /\ DOMAIN out = 1 .. at
        /\ (\A s \in 1 .. at : out'[s] = out[s]) /\ out'[at + 1] = <<>> /\ at' = at + 1
    <3>1. out' = Append(out, <<>>) /\ at' = at + 1 /\ <<>> \in Seq(Printed)
      BY <1>3 DEF NextModule
    <3>2. QED BY <1>1, <3>1, AppendProperties
  <2>3. conf' = conf /\ pc' \in {"first", "nowrap"} /\ (pc' = "nowrap" => ~Wrap(modules'[at']))
    BY <1>3 DEF NextModule
  <2>4. ASSUME NEW s \in DOMAIN out', NEW i \in DOMAIN out'[s]
        PROVE  RowFits(i, out'[s][i].row, modules'[s])
    <3>1. s \in 1 .. at
      BY <1>1, <2>2, <2>4
    <3>2. s \in DOMAIN modules /\ s # at'
      BY <1>1, <2>2, <3>1
    <3>3. out'[s] = out[s] /\ modules'[s] = modules[s] /\ s \in DOMAIN out /\ i \in DOMAIN out[s]
      BY <2>1, <2>2, <2>4, <3>1, <3>2
    <3>4. RowFits(i, out[s][i].row, modules[s])
      BY <3>3 DEF RowsFit
    <3>5. QED BY <3>3, <3>4
  <2>5. RowsFit'
    BY <2>3, <2>4 DEF RowsFit, RowFits, LineOf, Wrap, After, OnEach
  <2>6. RowCounts' /\ LastRow'
    BY <2>3 DEF RowCounts, LastRow, Wrap
  <2>7. QED BY <2>5, <2>6
<1> DEFINE Prints == /\ at > 0 /\ PrintNames /\ row' \in Nat
                     /\ count' \in Nat /\ count <= count' /\ count' <= Total
                     /\ UNCHANGED <<conf, modules, at>>
<1>4. ASSUME Prints, \A i \in (count + 1) .. count' : RowFits(i, row', modules[at])
      PROVE  RowsFit' /\ (count < count' => out'[at] # <<>> /\ Last(out'[at]).row = row')
  BY <1>4, RowsAdded
<1>5. CASE NoWrap
  <2>1. at > 0 /\ count = 0 /\ count' = Total /\ row' = 1 /\ ~Wrap(modules[at])
    BY <1>5 DEF NoWrap, PrinterInv, Counters, RowCounts
  <2>2. Prints /\ count < count'
    BY <1>2, <1>5, <2>1 DEF NoWrap
  <2>3. \A i \in (count + 1) .. count' : RowFits(i, row', modules[at])
    BY <2>1 DEF RowFits
  <2>4. RowsFit' /\ out'[at] # <<>> /\ Last(out'[at]).row = row'
    BY <1>4, <2>2, <2>3
  <2>5. pc' = "module" /\ at' = at
    BY <1>5 DEF NoWrap
  <2>6. QED BY <2>4, <2>5 DEF LastRow, RowCounts
<1>6. CASE FirstLine
  <2>1. at > 0 /\ count = 0 /\ Wrap(modules[at]) /\ count' = After /\ row' = 1
        /\ Total > After /\ After > 0
    BY <1>1, <1>6 DEF FirstLine, PrinterInv, Counters, Wrap, Total, Imports, After
  <2>2. Prints
    BY <1>1, <1>2, <1>6, <2>1 DEF FirstLine
  <2>3. \A i \in (count + 1) .. count' : RowFits(i, row', modules[at])
    BY <1>1, <2>1 DEF RowFits
  <2>4. RowsFit'
    BY <1>4, <2>2, <2>3
  <2>5. pc' \in {"lines", "aborted"} /\ at' = at /\ modules' = modules /\ conf' = conf
    BY <1>6 DEF FirstLine
  <2>6. After = After + (1 - 1) * OnEach
    BY <1>1
  <2>7. RowCounts'
    BY <2>1, <2>5, <2>6 DEF RowCounts, Wrap, After, OnEach
  <2>8. QED BY <2>4, <2>5, <2>7 DEF LastRow
<1>7. CASE WrapLine
  <2>1. /\ at > 0 /\ count + remaining = Total /\ pc = "lines" /\ row > 0
        /\ Wrap(modules[at]) /\ count = After + (row - 1) * OnEach
    BY <1>7 DEF WrapLine, PrinterInv, Counters, RowCounts
  <2>2. /\ remaining > OnEach /\ count' = count + OnEach
        /\ row' = IF OnEach = 0 THEN row ELSE row + 1
        /\ UNCHANGED <<conf, modules, at, pc>> /\ PrintNames
    BY <1>7 DEF WrapLine, OnEach
  <2>3. Prints
    BY <1>1, <1>2, <2>1, <2>2
  <2>4. \A i \in (count + 1) .. count' : RowFits(i, row', modules[at])
    <3> SUFFICES ASSUME NEW i \in (count + 1) .. count' PROVE RowFits(i, row', modules[at])
      OBVIOUS
    <3>1. OnEach > 0 /\ row' = row + 1 /\ i \in Nat /\ count < i /\ i <= count + OnEach
      BY <1>1, <2>2
    <3>2. RowFits(i, row + 1, modules[at])
      BY <2>1, <3>1, LineFits
    <3>3. QED BY <3>1, <3>2
  <2>5. RowsFit'
    BY <1>4, <2>3, <2>4
  <2>6. row' > 0 /\ count' = After + (row' - 1) * OnEach
    <3>1. CASE OnEach = 0
      BY <1>1, <2>1, <2>2, <3>1
    <3>2. CASE OnEach > 0
      <4>1. row' = row + 1 /\ (row' - 1) * OnEach = (row - 1) * OnEach + OnEach
        BY <1>1, <2>2, <3>2
      <4>2. (row - 1) * OnEach \in Int
        BY <1>1
      <4>3. QED BY <1>1, <2>1, <2>2, <4>1, <4>2
    <3>3. QED BY <1>1, <3>1, <3>2
  <2>7. RowCounts' /\ LastRow'
    BY <2>1, <2>2, <2>6 DEF RowCounts, LastRow, Wrap, After, OnEach
  <2>8. QED BY <2>5, <2>7
<1>8. CASE LastLine
  <2>1. /\ at > 0 /\ count + remaining = Total /\ remaining > 0 /\ pc = "lines"
    BY <1>8 DEF LastLine, PrinterInv, Counters
  <2>2. /\ remaining <= OnEach /\ count' = Total /\ row' = row + 1
        /\ pc' = "module" /\ UNCHANGED <<conf, modules, at>> /\ PrintNames
    BY <1>8 DEF LastLine, OnEach
  <2>3. Prints /\ count < count'
    BY <1>1, <1>2, <2>1, <2>2
  <2>4. \A i \in (count + 1) .. count' : RowFits(i, row', modules[at])
    <3> SUFFICES ASSUME NEW i \in (count + 1) .. count' PROVE RowFits(i, row', modules[at])
      OBVIOUS
    <3>1. OnEach > 0 /\ row' = row + 1 /\ i \in Nat /\ count < i /\ i <= count + OnEach
      BY <1>1, <1>2, <2>1, <2>2
    <3>2. RowFits(i, row + 1, modules[at])
      BY <2>1, <3>1, LineFits
    <3>3. QED BY <3>1, <3>2
  <2>5. RowsFit' /\ out'[at] # <<>> /\ Last(out'[at]).row = row'
    BY <1>4, <2>3, <2>4
  <2>6. QED BY <2>2, <2>5 DEF LastRow, RowCounts
<1>9. CASE Finish \/ UNCHANGED vars
  <2>1. UNCHANGED <<conf, modules, at, count, row, out>> /\ pc' \in {pc, "done"}
    BY <1>9 DEF Finish, vars
  <2>2. RowsFit'
    BY <2>1 DEF RowsFit, RowFits, LineOf, Wrap, After, OnEach
  <2>3. QED BY <2>1, <2>2 DEF LastRow, RowCounts, Wrap, After, OnEach
<1>10. QED BY <1>3, <1>5, <1>6, <1>7, <1>8, <1>9 DEF Next, Exited

LEMMA LayoutFollows == PrinterInv /\ LayoutInv => LayoutAsConfigured
<1> SUFFICES ASSUME PrinterInv, LayoutInv PROVE LayoutAsConfigured
  OBVIOUS
<1>1. ASSUME NEW s \in DOMAIN out, NEW i \in DOMAIN out[s], Wrap(modules[s])
      PROVE  out[s][i].row = LineOf(i, modules[s])
  <2>1. i \in Nat /\ After \in Nat
    BY PrinterAssumption DEF PrinterInv, TypeOK, Conf, After
  <2>2. RowFits(i, out[s][i].row, modules[s])
    BY DEF LayoutInv, RowsFit
  <2>3. CASE i <= After
    BY <2>2, <2>3 DEF RowFits, LineOf, After
  <2>4. CASE i > After
    BY <1>1, <2>2, <2>4 DEF RowFits
  <2>5. QED BY <2>1, <2>3, <2>4
<1>2. QED
  BY <1>1 DEF LayoutInv, RowsFit, RowFits, LastRow, LayoutAsConfigured, After, OnEach

(***************************************************************************)
(* However many names there are, and whatever the options, a statement     *)
(* that is not to be wrapped is on one line, and of a "from" statement     *)
(* that is, each name is on the line the options put it on and the last    *)
(* line has names.                                                         *)
(***************************************************************************)
THEOREM LayoutFollowsOptions == Spec => []LayoutAsConfigured
<1>1. Init => LayoutInv
  BY LayoutStart
<1>2. PrinterInv /\ PrinterInv' /\ LayoutInv /\ [Next]_vars => LayoutInv'
  BY LayoutStep
<1>3. QED BY <1>1, <1>2, PrinterInvariant, LayoutFollows, PTL DEF Spec

-----------------------------------------------------------------------------
(* The order of names                                                       *)

(* What is below n and not empty has a greatest element.                    *)
LEMMA Largest ==
  ASSUME NEW n \in Nat, NEW S \in SUBSET (1 .. n), S # {}
  PROVE  \E x \in S : \A y \in S : y <= x
<1> DEFINE T == {n - i : i \in S}
<1>1. T \in SUBSET Nat /\ T # {}
  <2>1. \A i \in S : i \in Nat /\ i <= n /\ n - i \in Nat
    OBVIOUS
  <2>2. QED BY <2>1
<1>2. PICK t \in T : \A u \in T : t <= u
  <2> HIDE DEF T
  <2>1. QED BY <1>1, Smallest
<1>3. PICK x \in S : t = n - x
  BY <1>2
<1>4. \A y \in S : y <= x
  <2> TAKE y \in S
  <2>1. n - y \in T
    OBVIOUS
  <2>2. n - x <= n - y
    BY <1>2, <1>3, <2>1
  <2>3. QED BY <2>2
<1>5. QED BY <1>4

LEMMA NameIs ==
  ASSUME NEW x \in Name
  PROVE  /\ Len(x) \in Nat /\ Len(x) >= 1 /\ DOMAIN x = 1 .. Len(x) /\ x \in Seq(Nat)
         /\ \A i \in 1 .. Len(x) : x[i] \in Nat /\ x[i] # 0
<1>1. x \in Seq(Nat \ {0}) /\ x # <<>>
  BY DEF Name, CString, NUL
<1>2. QED BY <1>1

(* A plain name is a stem without digits, and a number without leading zeros *)
(* or no number.                                                            *)
LEMMA StemIs ==
  ASSUME NEW x \in Name, IsPlain(x)
  PROVE  /\ StemEnd(x) \in 1 .. Len(x)
         /\ \A i \in 1 .. StemEnd(x) : ~IsDigit(x[i])
         /\ \A i \in (StemEnd(x) + 1) .. Len(x) : IsDigit(x[i])
         /\ StemEnd(x) < Len(x) => x[StemEnd(x) + 1] # Zero
<1> DEFINE others == {i \in DOMAIN x : ~IsDigit(x[i])}
           p == StemEnd(x)
<1>1. /\ Len(x) \in Nat /\ Len(x) >= 1 /\ DOMAIN x = 1 .. Len(x)
      /\ \A k \in 1 .. Len(x) : IsDigit(x[k]) => k > p /\ (k = p + 1 => x[k] # Zero)
  BY NameIs DEF IsPlain
<1>2. others # {}
  <2> SUFFICES ASSUME others = {} PROVE FALSE
    OBVIOUS
  <2>1. p = 1
    BY DEF StemEnd
  <2>2. 1 \in DOMAIN x /\ IsDigit(x[1])
    BY <1>1
  <2>3. QED BY <1>1, <2>1, <2>2
<1>3. p \in others /\ \A j \in others : j <= p
  <2>1. p = CHOOSE i \in others : \A j \in others : j <= i
    BY <1>2 DEF StemEnd
  <2>2. others \in SUBSET (1 .. Len(x))
    BY <1>1
  <2>3. \E i \in others : \A j \in others : j <= i
    <3> HIDE DEF others
    <3>1. QED BY <1>1, <1>2, <2>2, Largest
  <2> HIDE DEF others, p
  <2>4. QED BY <2>1, <2>3
<1>4. p \in 1 .. Len(x)
  BY <1>1, <1>3
<1>5. \A i \in (p + 1) .. Len(x) : IsDigit(x[i])
  <2> TAKE i \in (p + 1) .. Len(x)
  <2>1. i \in 1 .. Len(x) /\ ~(i <= p)
    BY <1>1, <1>4
  <2>2. QED BY <1>1, <1>3, <2>1
<1>6. \A i \in 1 .. p : ~IsDigit(x[i])
  <2> TAKE i \in 1 .. p
  <2>1. i \in 1 .. Len(x) /\ ~(i > p)
    BY <1>1, <1>4
  <2>2. QED BY <1>1, <2>1
<1>7. p < Len(x) => x[p + 1] # Zero
  <2> SUFFICES ASSUME p < Len(x) PROVE x[p + 1] # Zero
    OBVIOUS
  <2>1. p + 1 \in (p + 1) .. Len(x) /\ p + 1 \in 1 .. Len(x)
    BY <1>1, <1>4
  <2>2. QED BY <1>1, <1>5, <2>1
<1>8. QED BY <1>4, <1>5, <1>6, <1>7

LEMMA SameStem ==
  ASSUME NEW x \in Name, NEW y \in Name, IsPlain(x), IsPlain(y)
  PROVE  Stem(x) = Stem(y) <=> /\ StemEnd(x) = StemEnd(y)
                               /\ \A i \in 1 .. StemEnd(x) : x[i] = y[i]
<1>1. \A n \in {x, y} : n \in Seq(Nat) /\ Len(n) \in Nat /\ StemEnd(n) \in 1 .. Len(n)
  <2> SUFFICES ASSUME NEW n \in Name, IsPlain(n)
               PROVE  n \in Seq(Nat) /\ Len(n) \in Nat /\ StemEnd(n) \in 1 .. Len(n)
    OBVIOUS
  <2>1. QED BY StemIs, NameIs
<1>2. \A n \in {x, y} : /\ Stem(n) \in Seq(Nat) /\ Len(Stem(n)) = StemEnd(n)
                        /\ \A i \in 1 .. StemEnd(n) : Stem(n)[i] = n[i]
  BY <1>1 DEF Stem
<1>3. ASSUME Stem(x) = Stem(y)
      PROVE  StemEnd(x) = StemEnd(y) /\ \A i \in 1 .. StemEnd(x) : x[i] = y[i]
  BY <1>2, <1>3
<1>4. ASSUME StemEnd(x) = StemEnd(y), \A i \in 1 .. StemEnd(x) : x[i] = y[i]
      PROVE  Stem(x) = Stem(y)
  <2>1. \A i \in 1 .. StemEnd(x) : Stem(x)[i] = Stem(y)[i]
    BY <1>2, <1>4
  <2>2. Stem(x) \in Seq(Nat) /\ Stem(y) \in Seq(Nat) /\ Len(Stem(x)) = StemEnd(x)
        /\ Len(Stem(y)) = StemEnd(x)
    BY <1>2, <1>4
  <2>3. QED BY <2>1, <2>2, SeqEqual
<1>5. QED BY <1>3, <1>4

(* Two names that are not in order as texts first differ where the second    *)
(* has the greater character.                                               *)
Before(s, t, i) ==
  /\ i \in Nat /\ i >= 1 /\ CharAt(s, i) < CharAt(t, i)
  /\ \A j \in 1 .. (i - 1) : CharAt(s, j) = CharAt(t, j)

LEMMA CharacterType == ASSUME NEW x \in Name, NEW i \in Nat, i >= 1
                       PROVE  /\ CharAt(x, i) \in Nat
                              /\ i <= Len(x) => CharAt(x, i) = x[i]
                              /\ CharAt(x, i) = 0 <=> i > Len(x)
<1>1. /\ Len(x) \in Nat /\ \A k \in 1 .. Len(x) : x[k] \in Nat /\ x[k] # 0
  BY NameIs
<1>2. i \in 1 .. Len(x) <=> i <= Len(x)
  BY <1>1
<1>3. QED BY <1>1, <1>2 DEF CharAt, NUL

LEMMA TextCompared ==
  ASSUME NEW x \in Name, NEW y \in Name, x # y, CompareText(x, y) <= 0
  PROVE  \E i \in Nat : Before(x, y, i)
<1> DEFINE n == Len(x) + 1
           differ == {i \in 1 .. n : CharAt(x, i) # CharAt(y, i)}
           least == CHOOSE i \in differ : \A j \in differ : i <= j
<1>1. /\ x \in Seq(Nat) /\ y \in Seq(Nat) /\ Len(x) \in Nat /\ Len(y) \in Nat
      /\ \A k \in Nat : k >= 1 => /\ CharAt(x, k) \in Nat /\ CharAt(y, k) \in Nat
                                  /\ k <= Len(x) => CharAt(x, k) = x[k]
                                  /\ k <= Len(y) => CharAt(y, k) = y[k]
                                  /\ CharAt(x, k) = 0 <=> k > Len(x)
                                  /\ CharAt(y, k) = 0 <=> k > Len(y)
  BY NameIs, CharacterType
<1>2. differ # {}
  <2> SUFFICES ASSUME \A i \in 1 .. n : CharAt(x, i) = CharAt(y, i) PROVE FALSE
    OBVIOUS
  <2>1. CharAt(y, n) = 0 /\ \A i \in 1 .. Len(x) : CharAt(y, i) # 0
    <3>1. n \in 1 .. n /\ n \in Nat /\ n >= 1 /\ n > Len(x)
      BY <1>1
    <3>2. \A i \in 1 .. Len(x) : i \in Nat /\ i >= 1 /\ i \in 1 .. n /\ ~(i > Len(x))
      BY <1>1
    <3> HIDE DEF n
    <3>3. QED BY <1>1, <3>1, <3>2
  <2>2. Len(y) = Len(x)
    <3>1. n > Len(y)
      BY <1>1, <2>1
    <3>2. CASE Len(x) = 0
      BY <1>1, <3>1, <3>2
    <3>3. CASE Len(x) # 0
      <4>1. Len(x) \in 1 .. Len(x)
        BY <1>1, <3>3
      <4>2. ~(Len(x) > Len(y))
        BY <1>1, <2>1, <4>1
      <4>3. QED BY <1>1, <3>1, <4>2
    <3>4. QED BY <3>2, <3>3
  <2>3. \A i \in 1 .. Len(x) : x[i] = y[i]
    <3> TAKE i \in 1 .. Len(x)
    <3>1. i \in Nat /\ i >= 1 /\ i <= Len(x) /\ i <= Len(y) /\ i \in 1 .. n
      BY <1>1, <2>2
    <3> HIDE DEF n
    <3>2. QED BY <1>1, <3>1
  <2>4. QED BY <1>1, <2>2, <2>3, SeqEqual
<1>3. least \in differ /\ \A j \in differ : least <= j
  <2>1. differ \in SUBSET Nat
    OBVIOUS
  <2>2. \E i \in differ : \A j \in differ : i <= j
    <3> HIDE DEF differ
    <3>1. QED BY <1>2, <2>1, Smallest
  <2> HIDE DEF differ
  <2>3. QED BY <2>2
<1>4. CompareText(x, y) = CharAt(x, least) - CharAt(y, least)
  BY <1>2 DEF CompareText, Strncmp
<1> HIDE DEF least
<1>5. least \in 1 .. n /\ least \in Nat /\ least >= 1 /\ CharAt(x, least) # CharAt(y, least)
  BY <1>3
<1>6. CharAt(x, least) < CharAt(y, least)
  <2>1. CharAt(x, least) \in Nat /\ CharAt(y, least) \in Nat
    BY <1>1, <1>5
  <2>2. QED BY <1>4, <1>5, <2>1
<1>7. \A j \in 1 .. (least - 1) : CharAt(x, j) = CharAt(y, j)
  <2> TAKE j \in 1 .. (least - 1)
  <2>1. j \in 1 .. n /\ ~(least <= j)
    BY <1>1, <1>5
  <2>2. QED BY <1>3, <2>1
<1>8. QED BY <1>5, <1>6, <1>7 DEF Before

(* The key of a name: its stem, and a single digit in place of its number.   *)
(* Names are in order by their keys first, by their numbers then.            *)
KeyAt(x, i) ==
  IF i <= StemEnd(x) THEN x[i]
  ELSE IF i = StemEnd(x) + 1 /\ i <= Len(x) THEN Zero ELSE NUL
KeyBefore(x, y) ==
  \E i \in Nat : /\ i >= 1 /\ KeyAt(x, i) < KeyAt(y, i)
                 /\ \A j \in 1 .. (i - 1) : KeyAt(x, j) = KeyAt(y, j)
SameKey(x, y) == \A i \in Nat : i >= 1 => KeyAt(x, i) = KeyAt(y, i)
InOrder(x, y) == KeyBefore(x, y) \/ (SameKey(x, y) /\ Number(x) <= Number(y))

LEMMA KeyIs ==
  ASSUME NEW x \in Name, IsPlain(x), NEW i \in Nat, i >= 1
  PROVE  /\ KeyAt(x, i) \in Nat
         /\ i <= StemEnd(x) => KeyAt(x, i) = CharAt(x, i) /\ CharAt(x, i) = x[i]
                               /\ ~IsDigit(KeyAt(x, i)) /\ KeyAt(x, i) # 0
         /\ i = StemEnd(x) + 1 => KeyAt(x, i) = IF StemEnd(x) < Len(x) THEN Zero ELSE NUL
         /\ i > StemEnd(x) + 1 => KeyAt(x, i) = NUL
         /\ i > StemEnd(x) => IsDigit(CharAt(x, i)) \/ CharAt(x, i) = 0
         /\ i = StemEnd(x) + 1 => (IsDigit(CharAt(x, i)) <=> StemEnd(x) < Len(x))
<1> DEFINE p == StemEnd(x)
<1>1. /\ Len(x) \in Nat /\ p \in 1 .. Len(x)
      /\ \A k \in 1 .. p : ~IsDigit(x[k])
      /\ \A k \in (p + 1) .. Len(x) : IsDigit(x[k])
      /\ \A k \in 1 .. Len(x) : x[k] \in Nat /\ x[k] # 0
  BY NameIs, StemIs
<1>2. /\ CharAt(x, i) \in Nat /\ (i <= Len(x) => CharAt(x, i) = x[i])
      /\ CharAt(x, i) = 0 <=> i > Len(x)
  BY CharacterType
<1>3. CASE i <= p
  <2>1. i \in 1 .. p /\ i \in 1 .. Len(x) /\ i <= Len(x) /\ KeyAt(x, i) = x[i]
    BY <1>1, <1>3 DEF KeyAt
  <2>2. ~IsDigit(x[i]) /\ x[i] \in Nat /\ x[i] # 0
    BY <1>1, <2>1
  <2>3. ~(i = p + 1) /\ ~(i > p) /\ ~(i > p + 1)
    BY <1>1, <1>3
  <2> HIDE DEF p
  <2>4. QED BY <1>2, <2>1, <2>2, <2>3 DEF p
<1>4. CASE i > p
  <2>1. ~(i <= p) /\ KeyAt(x, i) = IF i = p + 1 /\ i <= Len(x) THEN Zero ELSE NUL
    BY <1>1, <1>4 DEF KeyAt
  <2>2. KeyAt(x, i) \in Nat
    BY <2>1 DEF Zero, NUL
  <2>3. i <= Len(x) => IsDigit(CharAt(x, i))
    <3>1. i <= Len(x) => i \in (p + 1) .. Len(x)
      BY <1>1, <1>4
    <3>2. QED BY <1>1, <1>2, <3>1
  <2>4. ~IsDigit(0)
    BY DEF IsDigit, Zero
  <2>5. i > Len(x) \/ i <= Len(x)
    BY <1>1
  <2>6. i = p + 1 => (p < Len(x) <=> i <= Len(x))
    BY <1>1
  <2>7. i > p + 1 => ~(i = p + 1)
    BY <1>1
  <2> HIDE DEF p
  <2>8. QED BY <1>2, <2>1, <2>2, <2>3, <2>4, <2>5, <2>6, <2>7 DEF p
<1>5. QED BY <1>1, <1>3, <1>4

(* The values of the beginnings of a number                                 *)
Values(v, x) ==
  LET p == StemEnd(x)
  IN /\ v \in [p .. Len(x) -> Nat] /\ v[p] = 0
     /\ \A i \in (p + 1) .. Len(x) : v[i] = 10 * v[i - 1] + (x[i] - Zero) /\ v[i] > 0

LEMMA NumberIs ==
  ASSUME NEW x \in Name, IsPlain(x)
  PROVE  \E v : Values(v, x) /\ Number(x) = v[Len(x)]
<1> DEFINE p == StemEnd(x)
           l == Len(x)
           D == p .. l
           Up == [e \in D |-> IF e = p THEN p ELSE e - 1]
           digit(i) == IF i = p THEN 0 ELSE x[i] - Zero
           step == [ev \in D \X Nat |-> 10 * ev[2] + digit(ev[1])]
           Step(f, i) == IF i = p THEN 0 ELSE 10 * f[i - 1] + (x[i] - Zero)
           value == CHOOSE f : f = [i \in D |-> Step(f, i)]
<1>1. /\ l \in Nat /\ p \in 1 .. l /\ p \in Nat /\ l \in D /\ p \in D
      /\ \A i \in (p + 1) .. l : x[i] - Zero \in 0 .. 9
      /\ p < l => x[p + 1] # Zero
  <2>1. l \in Nat /\ p \in 1 .. l
    BY NameIs, StemIs
  <2>2. \A i \in (p + 1) .. l : x[i] - Zero \in 0 .. 9
    BY StemIs DEF IsDigit, Zero
  <2>3. p < l => x[p + 1] # Zero
    BY StemIs
  <2>4. p \in Nat /\ l \in D /\ p \in D
    BY <2>1
  <2>5. QED BY <2>1, <2>2, <2>3, <2>4
<1>2. \A i \in D : digit(i) \in 0 .. 9 /\ (i # p => i \in (p + 1) .. l /\ i - 1 \in D /\ i \in Nat)
  <2> TAKE i \in D
  <2>1. i # p => i \in (p + 1) .. l /\ i - 1 \in D /\ i \in Nat
    BY <1>1
  <2>2. QED BY <1>1, <2>1
<1>3. \E f \in [D -> Nat] : Along(f, D, p, Up, 0, step)
  <2>1. Rooted(D, p, Up)
    <3>1. Up \in [D -> D]
      BY <1>1, <1>2
    <3>2. ASSUME NEW below \in SUBSET (D \ {p}), below # {}
          PROVE  \E e \in below : Up[e] \notin below
      <4>1. below \in SUBSET Nat
        BY <1>1, <1>2
      <4>2. PICK e \in below : \A f \in below : e <= f
        BY <3>2, <4>1, Smallest
      <4>3. Up[e] = e - 1 /\ e \in Nat
        BY <1>2, <4>2
      <4>4. QED BY <4>2, <4>3
    <3>3. QED BY <1>1, <3>1, <3>2 DEF Rooted
  <2>2. step \in [D \X Nat -> Nat]
    <3>1. \A ev \in D \X Nat : 10 * ev[2] + digit(ev[1]) \in Nat
      <4> TAKE ev \in D \X Nat
      <4>1. ev[1] \in D /\ ev[2] \in Nat
        OBVIOUS
      <4>2. digit(ev[1]) \in 0 .. 9
        <5> HIDE DEF D, digit
        <5>1. QED BY <1>2, <4>1
      <4> HIDE DEF digit, D
      <4>3. QED BY <4>1, <4>2
    <3> HIDE DEF digit
    <3>2. QED BY <3>1
  <2>3. 0 \in Nat
    OBVIOUS
  <2> HIDE DEF D, Up, step
  <2>4. QED BY <2>1, <2>2, <2>3, TreeRecursion
<1>4. PICK w \in [D -> Nat] : Along(w, D, p, Up, 0, step)
  BY <1>3
<1>5. \A i \in D : w[i] = Step(w, i)
  <2> TAKE i \in D
  <2>1. w[i] = IF i = p THEN 0 ELSE step[<<i, w[Up[i]]>>]
    BY <1>4 DEF Along
  <2>2. CASE i = p
    BY <2>1, <2>2
  <2>3. CASE i # p
    <3>1. Up[i] = i - 1 /\ w[i - 1] \in Nat
      BY <1>2, <2>3
    <3>2. step[<<i, w[i - 1]>>] = 10 * w[i - 1] + (x[i] - Zero)
      BY <2>3, <3>1
    <3>3. QED BY <2>1, <2>3, <3>1, <3>2
  <2>4. QED BY <2>2, <2>3
<1>6. w = [i \in D |-> Step(w, i)]
  BY <1>5
<1>7. value = [i \in D |-> Step(value, i)]
  BY <1>6
<1>8. Number(x) = value[l]
  BY DEF Number
<1> HIDE DEF value
<1>9. value = w
  <2>1. \A i \in D : value[i] = Step(value, i)
    BY <1>7
  <2> DEFINE bad == {i \in D : value[i] # w[i]}
  <2>2. bad \in SUBSET Nat
    BY <1>1
  <2>3. ASSUME bad # {} PROVE FALSE
    <3>1. PICK i \in bad : \A j \in bad : i <= j
      <4> HIDE DEF bad
      <4>1. QED BY <2>2, <2>3, Smallest
    <3>2. i \in D /\ value[i] # w[i] /\ value[i] = Step(value, i) /\ w[i] = Step(w, i)
      BY <1>5, <2>1, <3>1
    <3>3. i # p
      BY <3>2
    <3>4. i - 1 \in D /\ ~(i <= i - 1)
      BY <1>2, <3>2, <3>3
    <3>5. value[i - 1] = w[i - 1]
      BY <3>1, <3>4
    <3>6. QED BY <3>2, <3>3, <3>5
  <2>4. \A i \in D : value[i] = w[i]
    BY <2>3
  <2>5. QED BY <1>7, <2>4
<1>10. \A i \in (p + 1) .. l : w[i] = 10 * w[i - 1] + (x[i] - Zero)
  <2> TAKE i \in (p + 1) .. l
  <2>1. i \in D /\ i # p
    BY <1>1
  <2>2. QED BY <1>5, <2>1
<1>11. \A i \in (p + 1) .. l : w[i] > 0
  <2> DEFINE bad == {i \in (p + 1) .. l : ~(w[i] > 0)}
  <2>1. bad \in SUBSET Nat
    BY <1>1
  <2>2. ASSUME bad # {} PROVE FALSE
    <3>1. PICK i \in bad : \A j \in bad : i <= j
      <4> HIDE DEF bad
      <4>1. QED BY <2>1, <2>2, Smallest
    <3>2. /\ i \in (p + 1) .. l /\ i \in Nat /\ i \in D /\ i - 1 \in D
          /\ w[i] \in Nat /\ w[i - 1] \in Nat /\ ~(w[i] > 0)
      BY <1>1, <3>1
    <3>3. w[i] = 10 * w[i - 1] + (x[i] - Zero) /\ x[i] - Zero \in 0 .. 9
      BY <1>1, <1>10, <3>2
    <3> DEFINE d == x[i] - Zero
               u == w[i - 1]
    <3> HIDE DEF d, u
    <3>4. u \in Nat /\ d \in 0 .. 9 /\ w[i] = 10 * u + d /\ w[i] = 0
      BY <3>2, <3>3 DEF d, u
    <3>5. u = 0 /\ d = 0
      BY <3>4
    <3>6. CASE i = p + 1
      <4>1. x[i] # Zero
        BY <1>1, <3>2, <3>6
      <4>2. x[i] \in Nat
        <5>1. i \in 1 .. Len(x)
          BY <1>1, <3>2
        <5>2. QED BY <5>1, NameIs
      <4>3. QED BY <3>5, <4>1, <4>2 DEF d, Zero
    <3>7. CASE i # p + 1
      <4>1. i - 1 \in (p + 1) .. l /\ ~(i <= i - 1)
        BY <1>1, <3>2, <3>7
      <4>2. w[i - 1] > 0
        BY <3>1, <4>1
      <4>3. QED BY <3>5, <4>2 DEF u
    <3>8. QED BY <3>6, <3>7
  <2>3. QED BY <2>2
<1>12. w[p] = 0
  BY <1>1, <1>5
<1>13. Values(w, x)
  BY <1>10, <1>11, <1>12 DEF Values
<1>14. QED BY <1>8, <1>9, <1>13

LEMMA NumberType ==
  ASSUME NEW x \in Name, IsPlain(x)
  PROVE  /\ Number(x) \in Nat
         /\ StemEnd(x) = Len(x) => Number(x) = 0
         /\ StemEnd(x) < Len(x) => Number(x) > 0
<1>1. PICK v : Values(v, x) /\ Number(x) = v[Len(x)]
  BY NumberIs
<1>2. StemEnd(x) \in 1 .. Len(x) /\ Len(x) \in Nat
  BY StemIs, NameIs
<1>3. Len(x) \in StemEnd(x) .. Len(x)
  BY <1>2
<1>4. StemEnd(x) < Len(x) => Len(x) \in (StemEnd(x) + 1) .. Len(x)
  BY <1>2
<1>5. QED BY <1>1, <1>3, <1>4 DEF Values

(* Two names with the same stem and the same number are the same.           *)
LEMMA SameNumber ==
  ASSUME NEW x \in Name, NEW y \in Name, IsPlain(x), IsPlain(y),
         Stem(x) = Stem(y), Number(x) = Number(y)
  PROVE  x = y
<1> DEFINE p == StemEnd(x)
           m == Len(x)
           n == Len(y)
<1>1. PICK v : Values(v, x) /\ Number(x) = v[m]
  BY NumberIs
<1>2. PICK w : Values(w, y) /\ Number(y) = w[n]
  BY NumberIs
<1>3. /\ m \in Nat /\ n \in Nat /\ p \in 1 .. m /\ p \in 1 .. n /\ p = StemEnd(y)
      /\ \A i \in 1 .. p : x[i] = y[i]
      /\ \A i \in (p + 1) .. m : x[i] \in Nat /\ x[i] - Zero \in 0 .. 9
      /\ \A i \in (p + 1) .. n : y[i] \in Nat /\ y[i] - Zero \in 0 .. 9
  <2>1. p = StemEnd(y) /\ \A i \in 1 .. p : x[i] = y[i]
    BY SameStem
  <2>2. m \in Nat /\ n \in Nat /\ p \in 1 .. m /\ p \in 1 .. n
    BY <2>1, NameIs, StemIs
  <2>3. ASSUME NEW z \in Name, IsPlain(z), NEW i \in (StemEnd(z) + 1) .. Len(z)
        PROVE  z[i] \in Nat /\ z[i] - Zero \in 0 .. 9
    <3>1. IsDigit(z[i])
      BY <2>3, StemIs
    <3>2. QED BY <3>1 DEF IsDigit, Zero
  <2>4. QED BY <2>1, <2>2, <2>3
<1>4. /\ \A i \in p .. m : v[i] \in Nat /\ (v[i] = 0 <=> i = p)
      /\ \A i \in (p + 1) .. m : v[i] = 10 * v[i - 1] + (x[i] - Zero)
      /\ \A i \in p .. n : w[i] \in Nat /\ (w[i] = 0 <=> i = p)
      /\ \A i \in (p + 1) .. n : w[i] = 10 * w[i - 1] + (y[i] - Zero)
  <2>1. ASSUME NEW z, NEW u, Values(u, z), StemEnd(z) = p, Len(z) \in Nat
        PROVE  /\ \A i \in p .. Len(z) : u[i] \in Nat /\ (u[i] = 0 <=> i = p)
               /\ \A i \in (p + 1) .. Len(z) : u[i] = 10 * u[i - 1] + (z[i] - Zero)
    <3>1. /\ u \in [p .. Len(z) -> Nat] /\ u[p] = 0
          /\ \A i \in (p + 1) .. Len(z) : u[i] = 10 * u[i - 1] + (z[i] - Zero) /\ u[i] > 0
      BY <2>1 DEF Values
    <3>2. \A i \in p .. Len(z) : i = p \/ i \in (p + 1) .. Len(z)
      BY <1>3, <2>1
    <3>3. QED BY <3>1, <3>2
  <2>2. QED BY <1>1, <1>2, <1>3, <2>1
<1> HIDE DEF p, m, n
(* From the last digit back, the values and the digits are the same.        *)
<1> DEFINE bad == {k \in Nat : /\ k <= m - p /\ k <= n - p
                               /\ v[m - k] # w[n - k]}
<1>5. bad = {}
  <2> SUFFICES ASSUME bad # {} PROVE FALSE
    OBVIOUS
  <2>1. bad \in SUBSET Nat
    OBVIOUS
  <2>2. PICK k \in bad : \A j \in bad : k <= j
    <3> HIDE DEF bad
    <3>1. QED BY <2>1, Smallest
  <2>3. k \in Nat /\ k <= m - p /\ k <= n - p /\ v[m - k] # w[n - k]
    BY <2>2
  <2>4. k # 0
    <3>1. v[m] = w[n]
      BY <1>1, <1>2 DEF m, n
    <3>2. m - 0 = m /\ n - 0 = n
      BY <1>3
    <3>3. QED BY <2>3, <3>1, <3>2
  <2>5. k - 1 \in Nat /\ k - 1 <= m - p /\ k - 1 <= n - p /\ ~(k <= k - 1)
    BY <1>3, <2>3, <2>4
  <2>6. v[m - (k - 1)] = w[n - (k - 1)]
    BY <2>2, <2>5
  <2> DEFINE i == m - (k - 1)
             j == n - (k - 1)
  <2>7. /\ i \in (p + 1) .. m /\ j \in (p + 1) .. n /\ i - 1 = m - k /\ j - 1 = n - k
        /\ i - 1 \in p .. m /\ j - 1 \in p .. n
    BY <1>3, <2>3, <2>4
  <2> HIDE DEF i, j
  <2>8. v[i] = 10 * v[i - 1] + (x[i] - Zero) /\ w[j] = 10 * w[j - 1] + (y[j] - Zero)
    BY <1>4, <2>7
  <2> DEFINE a == v[i - 1]
             b == w[j - 1]
             c == x[i] - Zero
             d == y[j] - Zero
  <2>9. a \in Nat /\ b \in Nat /\ c \in 0 .. 9 /\ d \in 0 .. 9 /\ a # b
    BY <1>3, <1>4, <2>3, <2>7
  <2>10. 10 * a + c = 10 * b + d
    BY <2>6, <2>8 DEF i, j
  <2> HIDE DEF a, b, c, d
  <2>11. QED BY <2>9, <2>10
<1>6. \A k \in Nat : k <= m - p /\ k <= n - p => v[m - k] = w[n - k]
  BY <1>5
<1>7. m = n
  <2>1. CASE m < n
    <3>1. m - p \in Nat /\ m - p <= n - p /\ m - (m - p) = p /\ n - (m - p) \in p .. n
          /\ n - (m - p) # p /\ p \in p .. m
      BY <1>3, <2>1
    <3>2. v[m - (m - p)] = w[n - (m - p)]
      BY <1>3, <1>6, <3>1
    <3>3. QED BY <1>4, <3>1, <3>2
  <2>2. CASE n < m
    <3>1. n - p \in Nat /\ n - p <= m - p /\ n - (n - p) = p /\ m - (n - p) \in p .. m
          /\ m - (n - p) # p /\ p \in p .. n
      BY <1>3, <2>2
    <3>2. v[m - (n - p)] = w[n - (n - p)]
      BY <1>3, <1>6, <3>1
    <3>3. QED BY <1>4, <3>1, <3>2
  <2>3. QED BY <1>3, <2>1, <2>2
<1>8. \A i \in p .. m : v[i] = w[i]
  <2> TAKE i \in p .. m
  <2>1. m - i \in Nat /\ m - i <= m - p /\ m - (m - i) = i
    BY <1>3
  <2>2. QED BY <1>6, <1>7, <2>1
<1>9. \A i \in 1 .. m : x[i] = y[i]
  <2> TAKE i \in 1 .. m
  <2>1. CASE i \in 1 .. p
    BY <1>3, <2>1
  <2>2. CASE i \in (p + 1) .. m
    <3>1. i \in p .. m /\ i - 1 \in p .. m /\ i \in (p + 1) .. n
      BY <1>3, <1>7, <2>2
    <3>2. v[i] = w[i] /\ v[i - 1] = w[i - 1]
      BY <1>8, <3>1
    <3>3. v[i] = 10 * v[i - 1] + (x[i] - Zero) /\ w[i] = 10 * w[i - 1] + (y[i] - Zero)
      BY <1>4, <2>2, <3>1
    <3>4. v[i - 1] \in Nat /\ x[i] \in Nat /\ y[i] \in Nat
      BY <1>3, <1>4, <2>2, <3>1
    <3> DEFINE u == v[i - 1]
               c == x[i]
               d == y[i]
    <3>5. 10 * u + (c - Zero) = 10 * u + (d - Zero)
      <4>1. v[i] = 10 * u + (c - Zero) /\ w[i] = 10 * u + (d - Zero)
        BY <3>2, <3>3
      <4> HIDE DEF u, c, d
      <4>2. QED BY <3>2, <4>1
    <3>6. u \in Nat /\ c \in Nat /\ d \in Nat
      BY <3>4
    <3>7. c = d
      <4> HIDE DEF u, c, d
      <4>1. QED BY <3>5, <3>6 DEF Zero
    <3>8. QED BY <3>7
  <2>3. QED BY <1>3, <2>1, <2>2
<1>10. x \in Seq(Nat) /\ y \in Seq(Nat)
  BY NameIs
<1>11. QED BY <1>7, <1>9, <1>10, SeqEqual DEF m, n

-----------------------------------------------------------------------------
(* What the comparison of two neighbours says of their keys                  *)

LEMMA SameStemInOrder ==
  ASSUME NEW x \in Name, NEW y \in Name, IsPlain(x), IsPlain(y),
         Stem(x) = Stem(y), Number(x) <= Number(y)
  PROVE  InOrder(x, y)
<1> DEFINE p == StemEnd(x)
<1>1. p = StemEnd(y) /\ p \in Nat /\ p >= 1 /\ \A i \in 1 .. p : x[i] = y[i]
  BY SameStem, StemIs, NameIs
<1>2. \A i \in Nat : i >= 1 /\ i # p + 1 => KeyAt(x, i) = KeyAt(y, i)
  <2> SUFFICES ASSUME NEW i \in Nat, i >= 1, i # p + 1 PROVE KeyAt(x, i) = KeyAt(y, i)
    OBVIOUS
  <2>1. CASE i <= p
    <3>1. i \in 1 .. p
      BY <1>1, <2>1
    <3>2. QED BY <1>1, <2>1, <3>1 DEF KeyAt
  <2>2. CASE i > p + 1
    BY <1>1, <2>2, KeyIs
  <2>3. QED BY <1>1, <2>1, <2>2
<1>3. /\ KeyAt(x, p + 1) = IF p < Len(x) THEN Zero ELSE NUL
      /\ KeyAt(y, p + 1) = IF p < Len(y) THEN Zero ELSE NUL
  <2>1. p + 1 \in Nat /\ p + 1 >= 1
    BY <1>1
  <2> HIDE DEF p
  <2>2. QED BY <1>1, <2>1, KeyIs DEF p
<1>4. CASE KeyAt(x, p + 1) = KeyAt(y, p + 1)
  <2>1. SameKey(x, y)
    BY <1>2, <1>4 DEF SameKey
  <2>2. QED BY <2>1 DEF InOrder
<1>5. CASE KeyAt(x, p + 1) # KeyAt(y, p + 1)
  <2>1. (p < Len(x) /\ ~(p < Len(y))) \/ (~(p < Len(x)) /\ p < Len(y))
    BY <1>3, <1>5
  <2>2. ~(p < Len(x) /\ ~(p < Len(y)))
    <3> SUFFICES ASSUME p < Len(x), ~(p < Len(y)) PROVE FALSE
      OBVIOUS
    <3>1. StemEnd(y) = Len(y)
      BY <1>1, StemIs, NameIs
    <3>2. Number(y) = 0 /\ Number(x) > 0 /\ Number(x) \in Nat
      BY <3>1, NumberType
    <3>3. QED BY <3>2
  <2>3. KeyAt(x, p + 1) < KeyAt(y, p + 1)
    BY <1>3, <2>1, <2>2 DEF Zero, NUL
  <2>4. \A j \in 1 .. (p + 1 - 1) : KeyAt(x, j) = KeyAt(y, j)
    <3> TAKE j \in 1 .. (p + 1 - 1)
    <3>1. j \in Nat /\ j >= 1 /\ j # p + 1
      BY <1>1
    <3>2. QED BY <1>2, <3>1
  <2> DEFINE m == p + 1
  <2>5. m \in Nat /\ m >= 1 /\ KeyAt(x, m) < KeyAt(y, m)
        /\ \A j \in 1 .. (m - 1) : KeyAt(x, j) = KeyAt(y, j)
    BY <1>1, <2>3, <2>4
  <2> HIDE DEF m
  <2>6. KeyBefore(x, y)
    BY <2>5 DEF KeyBefore
  <2>7. QED BY <2>6 DEF InOrder
<1>6. QED BY <1>4, <1>5

(* Names with different stems differ in their stems, or where they end.      *)
LEMMA DifferInStem ==
  ASSUME NEW x \in Name, NEW y \in Name, IsPlain(x), IsPlain(y), Stem(x) # Stem(y),
         NEW d \in Nat, d >= 1, \A j \in 1 .. (d - 1) : CharAt(x, j) = CharAt(y, j)
  PROVE  d <= StemEnd(x) + 1
<1> DEFINE p == StemEnd(x)
           q == StemEnd(y)
<1> SUFFICES ASSUME d > p + 1 PROVE FALSE
  BY StemIs, NameIs
<1>1. /\ p \in Nat /\ p >= 1 /\ q \in Nat /\ q >= 1 /\ p <= Len(x) /\ Len(x) \in Nat
  BY StemIs, NameIs
<1>2. \A j \in 1 .. (p + 1) : j \in Nat /\ j >= 1 /\ CharAt(x, j) = CharAt(y, j)
  BY <1>1
<1>3. \A j \in 1 .. p : ~IsDigit(CharAt(x, j)) /\ CharAt(x, j) # 0 /\ CharAt(x, j) = x[j]
  <2> TAKE j \in 1 .. p
  <2>1. j \in Nat /\ j >= 1 /\ j <= p
    BY <1>1
  <2>2. QED BY <2>1, KeyIs
<1>4. IsDigit(CharAt(x, p + 1)) \/ CharAt(x, p + 1) = 0
  <2>1. p + 1 \in Nat /\ p + 1 >= 1 /\ p + 1 > p
    BY <1>1
  <2>2. QED BY <2>1, KeyIs
<1>5. ASSUME NEW j \in Nat, j >= 1
      PROVE  /\ j <= q => ~IsDigit(CharAt(y, j)) /\ CharAt(y, j) # 0 /\ CharAt(y, j) = y[j]
             /\ j > q => IsDigit(CharAt(y, j)) \/ CharAt(y, j) = 0
  BY <1>5, KeyIs
<1>6. p <= q
  <2>1. p \in 1 .. p /\ p \in 1 .. (p + 1)
    BY <1>1
  <2>2. ~IsDigit(CharAt(y, p)) /\ CharAt(y, p) # 0
    BY <1>2, <1>3, <2>1
  <2> HIDE DEF p, q
  <2>3. QED BY <1>1, <1>5, <2>2
<1>7. p + 1 > q
  <2>1. p + 1 \in 1 .. (p + 1)
    BY <1>1
  <2>2. IsDigit(CharAt(y, p + 1)) \/ CharAt(y, p + 1) = 0
    BY <1>2, <1>4, <2>1
  <2>3. p + 1 \in Nat /\ p + 1 >= 1
    BY <1>1
  <2> HIDE DEF p, q
  <2>4. QED BY <1>1, <1>5, <2>2, <2>3
<1>8. p = q
  <2> HIDE DEF p, q
  <2>1. QED BY <1>1, <1>6, <1>7
<1>9. \A i \in 1 .. p : x[i] = y[i]
  <2> TAKE i \in 1 .. p
  <2>1. i \in 1 .. (p + 1) /\ i \in Nat /\ i >= 1 /\ i <= q
    BY <1>1, <1>8
  <2> HIDE DEF p, q
  <2>2. QED BY <1>2, <1>3, <1>5, <2>1
<1>10. QED BY <1>8, <1>9, SameStem

LEMMA NodesInOrder ==
  ASSUME NEW x \in Name, NEW y \in Name, IsPlain(x), IsPlain(y), CompareNodes(x, y) <= 0
  PROVE  InOrder(x, y)
<1>1. CASE Stem(x) = Stem(y)
  <2>1. ~(Number(x) > Number(y))
    BY <1>1 DEF CompareNodes
  <2>2. Number(x) <= Number(y)
    BY <2>1, NumberType
  <2>3. QED BY <1>1, <2>2, SameStemInOrder
<1>2. CASE Stem(x) # Stem(y)
  <2>1. CompareText(x, y) <= 0 /\ x # y
    BY <1>2 DEF CompareNodes
  <2>2. PICK d \in Nat : Before(x, y, d)
    BY <2>1, TextCompared
  <2>3. /\ d >= 1 /\ CharAt(x, d) < CharAt(y, d)
        /\ \A j \in 1 .. (d - 1) : CharAt(x, j) = CharAt(y, j)
    BY <2>2 DEF Before
  <2> DEFINE p == StemEnd(x)
             q == StemEnd(y)
  <2>4. p \in Nat /\ q \in Nat /\ p >= 1 /\ q >= 1
    BY StemIs, NameIs
  <2>5. d <= p + 1 /\ d <= q + 1
    BY <1>2, <2>3, DifferInStem
  <2>6. \A j \in 1 .. (d - 1) : KeyAt(x, j) = KeyAt(y, j)
    <3> TAKE j \in 1 .. (d - 1)
    <3>1. j \in Nat /\ j >= 1 /\ j <= p /\ j <= q
      BY <2>4, <2>5
    <3>2. KeyAt(x, j) = CharAt(x, j) /\ KeyAt(y, j) = CharAt(y, j)
      BY <3>1, KeyIs
    <3>3. QED BY <2>3, <3>2
  <2>7. /\ CharAt(x, d) \in Nat /\ CharAt(y, d) \in Nat
        /\ d <= p => KeyAt(x, d) = CharAt(x, d) /\ ~IsDigit(CharAt(x, d)) /\ CharAt(x, d) # 0
        /\ d <= q => KeyAt(y, d) = CharAt(y, d) /\ ~IsDigit(CharAt(y, d)) /\ CharAt(y, d) # 0
        /\ d = p + 1 => (IsDigit(CharAt(x, d)) /\ KeyAt(x, d) = Zero)
                        \/ (CharAt(x, d) = 0 /\ KeyAt(x, d) = 0)
        /\ d = q + 1 => (IsDigit(CharAt(y, d)) /\ KeyAt(y, d) = Zero)
                        \/ (CharAt(y, d) = 0 /\ KeyAt(y, d) = 0)
    <3> SUFFICES ASSUME NEW z \in Name, IsPlain(z)
                 PROVE  LET s == StemEnd(z)
                        IN /\ CharAt(z, d) \in Nat
                           /\ d <= s => KeyAt(z, d) = CharAt(z, d) /\ ~IsDigit(CharAt(z, d))
                                        /\ CharAt(z, d) # 0
                           /\ d = s + 1 => (IsDigit(CharAt(z, d)) /\ KeyAt(z, d) = Zero)
                                           \/ (CharAt(z, d) = 0 /\ KeyAt(z, d) = 0)
      OBVIOUS
    <3> DEFINE s == StemEnd(z)
    <3>1. s \in Nat /\ s <= Len(z)
      BY StemIs, NameIs
    <3>2. CharAt(z, d) \in Nat
      BY <2>3, CharacterType
    <3>3. d <= s => KeyAt(z, d) = CharAt(z, d) /\ ~IsDigit(CharAt(z, d)) /\ CharAt(z, d) # 0
      BY <2>3, KeyIs
    <3>4. d = s + 1 => /\ IsDigit(CharAt(z, d)) <=> s < Len(z)
                       /\ KeyAt(z, d) = IF s < Len(z) THEN Zero ELSE NUL
                       /\ IsDigit(CharAt(z, d)) \/ CharAt(z, d) = 0
      <4>1. d = s + 1 => d > s
        BY <3>1
      <4>2. QED BY <2>3, <4>1, KeyIs
    <3>5. QED BY <3>2, <3>3, <3>4 DEF NUL
  <2>8. ~(IsDigit(CharAt(x, d)) /\ IsDigit(CharAt(y, d)))
    <3> SUFFICES ASSUME IsDigit(CharAt(x, d)), IsDigit(CharAt(y, d)) PROVE FALSE
      OBVIOUS
    <3>1. d = p + 1 /\ d = q + 1 /\ p = q
      BY <2>4, <2>5, <2>7
    <3>2. \A i \in 1 .. p : x[i] = y[i]
      <4> TAKE i \in 1 .. p
      <4>1. i \in Nat /\ i >= 1 /\ i <= p /\ i <= q /\ i \in 1 .. (d - 1)
        BY <2>4, <3>1
      <4>2. CharAt(x, i) = x[i] /\ CharAt(y, i) = y[i]
        BY <4>1, KeyIs
      <4>3. QED BY <2>3, <4>1, <4>2
    <3>3. QED BY <1>2, <3>1, <3>2, SameStem
  <2>9. KeyAt(x, d) < KeyAt(y, d)
    <3>1. \A c : IsDigit(c) <=> c \in 48 .. 57
      BY DEF IsDigit, Zero
    <3>2. /\ (d <= p \/ d = p + 1) /\ (d <= q \/ d = q + 1) /\ Zero = 48
      BY <2>4, <2>5 DEF Zero
    <3> HIDE DEF p, q
    <3> DEFINE cx == CharAt(x, d)
               cy == CharAt(y, d)
               kx == KeyAt(x, d)
               ky == KeyAt(y, d)
    <3>3. /\ cx \in Nat /\ cy \in Nat /\ cx < cy /\ ~(cx \in 48 .. 57 /\ cy \in 48 .. 57)
          /\ (kx = cx /\ cx \notin 48 .. 57) \/ (cx \in 48 .. 57 /\ kx = 48)
          /\ (ky = cy /\ cy \notin 48 .. 57) \/ (cy \in 48 .. 57 /\ ky = 48)
      <4>1. 0 \notin 48 .. 57
        OBVIOUS
      <4>2. (kx = cx /\ cx \notin 48 .. 57) \/ (cx \in 48 .. 57 /\ kx = 48)
        BY <2>7, <3>1, <3>2, <4>1
      <4>3. (ky = cy /\ cy \notin 48 .. 57) \/ (cy \in 48 .. 57 /\ ky = 48)
        BY <2>7, <3>1, <3>2, <4>1
      <4>4. QED BY <2>3, <2>7, <2>8, <3>1, <4>2, <4>3
    <3> HIDE DEF cx, cy, kx, ky
    <3>4. kx < ky
      BY <3>3
    <3>5. QED BY <3>4 DEF kx, ky
  <2>10. KeyBefore(x, y)
    BY <2>3, <2>6, <2>9 DEF KeyBefore
  <2>11. QED BY <2>10 DEF InOrder
<1>3. QED BY <1>1, <1>2

LEMMA KeyType ==
  ASSUME NEW x \in Name, IsPlain(x), NEW i \in Nat, i >= 1
  PROVE  KeyAt(x, i) \in Nat
BY KeyIs

(* Keys and numbers order the plain names.                                   *)
LEMMA InOrderTransitive ==
  ASSUME NEW x \in Name, NEW y \in Name, NEW z \in Name,
         IsPlain(x), IsPlain(y), IsPlain(z), InOrder(x, y), InOrder(y, z)
  PROVE  InOrder(x, z)
<1>1. \A n \in {x, y, z} : \A i \in Nat : i >= 1 => KeyAt(n, i) \in Nat
  BY KeyType
<1>2. CASE SameKey(x, y) /\ SameKey(y, z) /\ Number(x) <= Number(y) /\ Number(y) <= Number(z)
  <2>1. SameKey(x, z)
    BY <1>2 DEF SameKey
  <2>2. Number(x) <= Number(z)
    <3>1. Number(x) \in Nat /\ Number(y) \in Nat /\ Number(z) \in Nat
      BY NumberType
    <3>2. QED BY <1>2, <3>1
  <2>3. QED BY <2>1, <2>2 DEF InOrder
<1>3. CASE SameKey(x, y) /\ KeyBefore(y, z)
  <2>1. PICK i \in Nat : /\ i >= 1 /\ KeyAt(y, i) < KeyAt(z, i)
                         /\ \A j \in 1 .. (i - 1) : KeyAt(y, j) = KeyAt(z, j)
    BY <1>3 DEF KeyBefore
  <2>2. KeyAt(x, i) < KeyAt(z, i) /\ \A j \in 1 .. (i - 1) : KeyAt(x, j) = KeyAt(z, j)
    BY <1>3, <2>1 DEF SameKey
  <2>3. QED BY <2>1, <2>2 DEF KeyBefore, InOrder
<1>4. CASE KeyBefore(x, y) /\ SameKey(y, z)
  <2>1. PICK i \in Nat : /\ i >= 1 /\ KeyAt(x, i) < KeyAt(y, i)
                         /\ \A j \in 1 .. (i - 1) : KeyAt(x, j) = KeyAt(y, j)
    BY <1>4 DEF KeyBefore
  <2>2. KeyAt(x, i) < KeyAt(z, i) /\ \A j \in 1 .. (i - 1) : KeyAt(x, j) = KeyAt(z, j)
    BY <1>4, <2>1 DEF SameKey
  <2>3. QED BY <2>1, <2>2 DEF KeyBefore, InOrder
<1>5. CASE KeyBefore(x, y) /\ KeyBefore(y, z)
  <2>1. PICK i \in Nat : /\ i >= 1 /\ KeyAt(x, i) < KeyAt(y, i)
                         /\ \A j \in 1 .. (i - 1) : KeyAt(x, j) = KeyAt(y, j)
    BY <1>5 DEF KeyBefore
  <2>2. PICK k \in Nat : /\ k >= 1 /\ KeyAt(y, k) < KeyAt(z, k)
                         /\ \A j \in 1 .. (k - 1) : KeyAt(y, j) = KeyAt(z, j)
    BY <1>5 DEF KeyBefore
  <2>3. CASE i < k
    <3>1. i \in 1 .. (k - 1) /\ \A j \in 1 .. (i - 1) : j \in 1 .. (k - 1)
      BY <2>1, <2>3
    <3>2. KeyAt(x, i) < KeyAt(z, i) /\ \A j \in 1 .. (i - 1) : KeyAt(x, j) = KeyAt(z, j)
      BY <2>1, <2>2, <3>1
    <3>3. QED BY <2>1, <3>2 DEF KeyBefore, InOrder
  <2>4. CASE k < i
    <3>1. k \in 1 .. (i - 1) /\ \A j \in 1 .. (k - 1) : j \in 1 .. (i - 1)
      BY <2>2, <2>4
    <3>2. KeyAt(x, k) < KeyAt(z, k) /\ \A j \in 1 .. (k - 1) : KeyAt(x, j) = KeyAt(z, j)
      BY <2>1, <2>2, <3>1
    <3>3. QED BY <2>2, <3>2 DEF KeyBefore, InOrder
  <2>5. CASE i = k
    <3>1. KeyAt(x, i) \in Nat /\ KeyAt(y, i) \in Nat /\ KeyAt(z, i) \in Nat
      BY <1>1, <2>1
    <3>2. KeyAt(x, i) < KeyAt(z, i) /\ \A j \in 1 .. (i - 1) : KeyAt(x, j) = KeyAt(z, j)
      BY <2>1, <2>2, <2>5, <3>1
    <3>3. QED BY <2>1, <3>2 DEF KeyBefore, InOrder
  <2>6. QED BY <2>3, <2>4, <2>5
<1>6. QED BY <1>2, <1>3, <1>4, <1>5 DEF InOrder

LEMMA SameKeySameStem ==
  ASSUME NEW x \in Name, NEW y \in Name, IsPlain(x), IsPlain(y), SameKey(x, y)
  PROVE  Stem(x) = Stem(y)
<1> DEFINE p == StemEnd(x)
           q == StemEnd(y)
<1>1. p \in Nat /\ q \in Nat /\ p >= 1 /\ q >= 1
  BY StemIs, NameIs
<1>2. ASSUME NEW z \in Name, IsPlain(z), NEW i \in Nat, i >= 1
      PROVE  i <= StemEnd(z) <=> (~IsDigit(KeyAt(z, i)) /\ KeyAt(z, i) # 0)
  <2>1. StemEnd(z) \in Nat
    BY <1>2, StemIs, NameIs
  <2>2. IsDigit(Zero)
    BY DEF IsDigit, Zero
  <2>3. CASE i <= StemEnd(z)
    BY <1>2, <2>3, KeyIs
  <2>4. CASE i = StemEnd(z) + 1
    <3>1. KeyAt(z, i) = Zero \/ KeyAt(z, i) = 0
      BY <1>2, <2>4, KeyIs DEF NUL
    <3>2. QED BY <2>1, <2>2, <2>4, <3>1
  <2>5. CASE i > StemEnd(z) + 1
    <3>1. KeyAt(z, i) = 0
      BY <1>2, <2>5, KeyIs DEF NUL
    <3>2. QED BY <2>1, <2>5, <3>1
  <2>6. QED BY <2>1, <2>3, <2>4, <2>5
<1>3. \A i \in Nat : i >= 1 => (i <= p <=> i <= q)
  BY <1>2 DEF SameKey
<1>4. p = q
  <2> HIDE DEF p, q
  <2>1. p <= q /\ q <= p
    BY <1>1, <1>3
  <2>2. QED BY <1>1, <2>1
<1>5. \A i \in 1 .. p : x[i] = y[i]
  <2> TAKE i \in 1 .. p
  <2>1. i \in Nat /\ i >= 1 /\ i <= p /\ i <= q
    BY <1>1, <1>4
  <2>2. KeyAt(x, i) = x[i] /\ KeyAt(y, i) = y[i]
    BY <2>1 DEF KeyAt
  <2>3. QED BY <2>1, <2>2 DEF SameKey
<1>6. QED BY <1>4, <1>5, SameStem

LEMMA InOrderOneWay ==
  ASSUME NEW x \in Name, NEW y \in Name, IsPlain(x), IsPlain(y), InOrder(x, y), InOrder(y, x)
  PROVE  x = y
<1>1. \A n \in {x, y} : \A i \in Nat : i >= 1 => KeyAt(n, i) \in Nat
  BY KeyType
<1>2. ASSUME NEW u \in {x, y}, NEW v \in {x, y}, KeyBefore(u, v), SameKey(u, v) \/ SameKey(v, u)
      PROVE  FALSE
  <2>1. PICK i \in Nat : i >= 1 /\ KeyAt(u, i) < KeyAt(v, i)
    BY <1>2 DEF KeyBefore
  <2>2. KeyAt(u, i) = KeyAt(v, i) /\ KeyAt(u, i) \in Nat /\ KeyAt(v, i) \in Nat
    BY <1>1, <1>2, <2>1 DEF SameKey
  <2>3. QED BY <2>1, <2>2
<1>3. ~(KeyBefore(x, y) /\ KeyBefore(y, x))
  <2> SUFFICES ASSUME KeyBefore(x, y), KeyBefore(y, x) PROVE FALSE
    OBVIOUS
  <2>1. PICK i \in Nat : /\ i >= 1 /\ KeyAt(x, i) < KeyAt(y, i)
                         /\ \A j \in 1 .. (i - 1) : KeyAt(x, j) = KeyAt(y, j)
    BY DEF KeyBefore
  <2>2. PICK k \in Nat : /\ k >= 1 /\ KeyAt(y, k) < KeyAt(x, k)
                         /\ \A j \in 1 .. (k - 1) : KeyAt(y, j) = KeyAt(x, j)
    BY DEF KeyBefore
  <2>3. /\ KeyAt(x, i) \in Nat /\ KeyAt(y, i) \in Nat
        /\ KeyAt(x, k) \in Nat /\ KeyAt(y, k) \in Nat
    BY <1>1, <2>1, <2>2
  <2>4. CASE i < k
    <3>1. i \in 1 .. (k - 1)
      BY <2>1, <2>4
    <3>2. QED BY <2>1, <2>2, <2>3, <3>1
  <2>5. CASE k < i
    <3>1. k \in 1 .. (i - 1)
      BY <2>2, <2>5
    <3>2. QED BY <2>1, <2>2, <2>3, <3>1
  <2>6. CASE i = k
    BY <2>1, <2>2, <2>3, <2>6
  <2>7. QED BY <2>4, <2>5, <2>6
<1>4. SameKey(x, y) /\ Number(x) <= Number(y) /\ Number(y) <= Number(x)
  BY <1>2, <1>3 DEF InOrder
<1>5. Number(x) = Number(y)
  <2>1. Number(x) \in Nat /\ Number(y) \in Nat
    BY NumberType
  <2>2. QED BY <1>4, <2>1
<1>6. QED BY <1>4, <1>5, SameKeySameStem, SameNumber

-----------------------------------------------------------------------------
(* What qsort leaves                                                        *)

AllPlain(names)        == \A k \in DOMAIN names : IsPlain(names[k])
NeighboursSorted(names) ==
  \A k \in 1 .. (Len(names) - 1) : CompareNodes(names[k], names[k + 1]) <= 0

(* Neighbours in order put all names in order.                              *)
LEMMA AllInOrder ==
  ASSUME NEW names \in Seq(Name), AllPlain(names), NeighboursSorted(names)
  PROVE  \A i, j \in 1 .. Len(names) : i < j => InOrder(names[i], names[j])
<1> DEFINE n == Len(names)
<1>1. n \in Nat /\ \A k \in 1 .. n : names[k] \in Name /\ IsPlain(names[k])
  BY DEF AllPlain
<1>2. \A k \in 1 .. (n - 1) : InOrder(names[k], names[k + 1])
  <2> TAKE k \in 1 .. (n - 1)
  <2>1. k \in 1 .. n /\ k + 1 \in 1 .. n /\ CompareNodes(names[k], names[k + 1]) <= 0
    BY <1>1 DEF NeighboursSorted
  <2>2. QED BY <1>1, <2>1, NodesInOrder
<1> HIDE DEF n
<1>3. ASSUME NEW i \in 1 .. n
      PROVE  \A j \in 1 .. n : i < j => InOrder(names[i], names[j])
  <2> DEFINE bad == {j \in 1 .. n : i < j /\ ~InOrder(names[i], names[j])}
  <2>1. bad \in SUBSET Nat
    BY <1>1
  <2>2. ASSUME bad # {} PROVE FALSE
    <3>1. PICK j \in bad : \A k \in bad : j <= k
      <4> HIDE DEF bad
      <4>1. QED BY <2>1, <2>2, Smallest
    <3>2. j \in 1 .. n /\ i < j /\ ~InOrder(names[i], names[j]) /\ j \in Nat /\ i \in Nat /\ i >= 1
      BY <1>1, <3>1
    <3>3. j - 1 \in 1 .. n /\ j - 1 \in 1 .. (n - 1) /\ (j - 1) + 1 = j /\ ~(j <= j - 1)
      BY <1>1, <3>2
    <3>4. InOrder(names[j - 1], names[j])
      <4>1. InOrder(names[j - 1], names[(j - 1) + 1])
        BY <1>2, <3>3
      <4>2. QED BY <3>3, <4>1
    <3>5. CASE j - 1 = i
      BY <3>2, <3>4, <3>5
    <3>6. CASE j - 1 # i
      <4>1. i < j - 1
        BY <3>2, <3>6
      <4>2. InOrder(names[i], names[j - 1])
        BY <3>1, <3>3, <4>1
      <4>3. QED BY <1>1, <3>2, <3>3, <3>4, <4>2, InOrderTransitive
    <3>7. QED BY <3>5, <3>6
  <2>3. QED BY <2>2
<1>4. QED BY <1>3 DEF n

(* A sorted list is the list in another order.                              *)
LEMMA SortedIs ==
  ASSUME NEW names \in Seq(Name), NEW t \in Sorted(names)
  PROVE  /\ NeighboursSorted(t)
         /\ \E p \in [1 .. Len(names) -> 1 .. Len(names)] :
              /\ \A k \in 1 .. Len(names) : \E i \in 1 .. Len(names) : p[i] = k
              /\ \A i \in 1 .. Len(names) : t[i] = names[p[i]]
<1> DEFINE n == Len(names)
<1>1. n \in Nat /\ DOMAIN names = 1 .. n /\ Len(t) = n
  BY SortedType
<1>2. CASE n >= 2
  <2>1. t \in SortsWith(CompareNodes, names)
    BY <1>2 DEF Sorted
  <2>2. /\ t \in Reordered(names)
        /\ \A i \in 1 .. (n - 1) : CompareNodes(t[i], t[i + 1]) <= 0
    BY <2>1 DEF SortsWith
  <2>3. PICK p \in Reorderings(names) : t = [i \in DOMAIN names |-> names[p[i]]]
    BY <2>2 DEF Reordered
  <2>4. p \in [1 .. n -> 1 .. n] /\ \A k \in 1 .. n : \E i \in 1 .. n : p[i] = k
    BY <1>1, <2>3 DEF Reorderings
  <2>5. \A i \in 1 .. n : t[i] = names[p[i]]
    BY <1>1, <2>3
  <2>6. NeighboursSorted(t)
    BY <1>1, <2>2 DEF NeighboursSorted
  <2> HIDE DEF n
  <2>7. QED BY <2>4, <2>5, <2>6 DEF n
<1>3. CASE ~(n >= 2)
  <2>1. t = names
    BY <1>3 DEF Sorted
  <2>2. NeighboursSorted(t)
    BY <1>1, <1>3 DEF NeighboursSorted
  <2> DEFINE p == [i \in 1 .. n |-> i]
  <2>3. /\ p \in [1 .. n -> 1 .. n] /\ \A k \in 1 .. n : p[k] = k
        /\ \A i \in 1 .. n : t[i] = names[p[i]]
    BY <2>1
  <2> HIDE DEF p, n
  <2>4. QED BY <2>2, <2>3 DEF n
<1>4. QED BY <1>2, <1>3

LEMMA SortedStays ==
  ASSUME NEW names \in Seq(Name), NeighboursSorted(names)
  PROVE  names \in Sorted(names)
<1> DEFINE n == Len(names)
           p == [i \in 1 .. n |-> i]
<1>1. n \in Nat /\ DOMAIN names = 1 .. n
  OBVIOUS
<1>2. CASE n >= 2
  <2>1. p \in [1 .. n -> 1 .. n] /\ \A i \in 1 .. n : p[i] = i
    OBVIOUS
  <2>2. p \in Reorderings(names)
    BY <1>1, <2>1 DEF Reorderings
  <2>3. names = [i \in DOMAIN names |-> names[p[i]]]
    BY <1>1, <2>1
  <2> HIDE DEF p
  <2>4. names \in Reordered(names)
    BY <2>2, <2>3 DEF Reordered
  <2>5. names \in SortsWith(CompareNodes, names)
    BY <2>4 DEF SortsWith, NeighboursSorted
  <2>6. QED BY <1>2, <2>5 DEF Sorted
<1>3. CASE ~(n >= 2)
  BY <1>3 DEF Sorted
<1>4. QED BY <1>2, <1>3

(* Plain names, none of them twice, can be sorted in one way.               *)
LEMMA OnlyOrder ==
  ASSUME NEW names \in Seq(Name), IsInjective(names), AllPlain(names),
         NeighboursSorted(names), NEW t \in Sorted(names)
  PROVE  t = names
<1> DEFINE n == Len(names)
<1>1. /\ n \in Nat /\ DOMAIN names = 1 .. n /\ t \in Seq(Name) /\ Len(t) = n
      /\ \A i \in 1 .. n : names[i] \in Name /\ IsPlain(names[i])
  BY SortedType DEF AllPlain
<1>2. \A i, j \in 1 .. n : names[i] = names[j] => i = j
  BY <1>1 DEF IsInjective
<1>3. NeighboursSorted(t)
  BY SortedIs
<1>4. PICK p \in [1 .. n -> 1 .. n] : /\ \A k \in 1 .. n : \E i \in 1 .. n : p[i] = k
                                      /\ \A i \in 1 .. n : t[i] = names[p[i]]
  BY SortedIs
<1>5. \A i, j \in 1 .. n : p[i] = p[j] => i = j
  <2>1. IsFiniteSet(1 .. n)
    BY <1>1, FS_Interval
  <2>2. p \in Surjection(1 .. n, 1 .. n)
    BY <1>4 DEF Surjection
  <2>3. p \in Injection(1 .. n, 1 .. n)
    BY <2>1, <2>2, FS_SurjSameCardinalityImpliesInj
  <2>4. QED BY <2>3 DEF Injection, IsInjective
<1>6. \A i, j \in 1 .. n : i < j => InOrder(names[i], names[j]) /\ InOrder(t[i], t[j])
  <2>1. AllPlain(t)
    <3>1. DOMAIN t = 1 .. n /\ \A i \in 1 .. n : p[i] \in 1 .. n
      BY <1>1, <1>4
    <3>2. \A i \in 1 .. n : IsPlain(t[i])
      BY <1>1, <1>4, <3>1
    <3>3. QED BY <3>1, <3>2 DEF AllPlain
  <2>2. QED BY <1>1, <1>3, <2>1, AllInOrder
<1> HIDE DEF n
<1> DEFINE bad == {i \in 1 .. n : t[i] # names[i]}
<1>7. bad = {}
  <2> SUFFICES ASSUME bad # {} PROVE FALSE
    OBVIOUS
  <2>1. bad \in SUBSET Nat
    BY <1>1
  <2>2. PICK i \in bad : \A j \in bad : i <= j
    <3> HIDE DEF bad
    <3>1. QED BY <2>1, Smallest
  <2>3. i \in 1 .. n /\ i \in Nat /\ t[i] # names[i]
    BY <1>1, <2>2
  <2>4. PICK k \in 1 .. n : p[k] = i
    BY <1>4, <2>3
  <2>5. \A j \in 1 .. n : j < i => t[j] = names[j] /\ p[j] = j
    <3> SUFFICES ASSUME NEW j \in 1 .. n, j < i PROVE t[j] = names[j] /\ p[j] = j
      OBVIOUS
    <3>1. ~(i <= j)
      BY <1>1, <2>3
    <3>2. t[j] = names[j] /\ t[j] = names[p[j]] /\ p[j] \in 1 .. n
      BY <1>4, <2>2, <3>1
    <3>3. QED BY <1>2, <3>2
  <2>6. p[i] \in 1 .. n /\ t[i] = names[p[i]] /\ p[i] # i
    BY <1>4, <2>3
  <2>7. ~(p[i] < i)
    BY <1>5, <2>3, <2>5, <2>6
  <2>8. ~(k < i) /\ k # i
    BY <1>4, <2>3, <2>4, <2>5
  <2>9. i < p[i] /\ i < k
    <3>1. p[i] \in Nat /\ k \in Nat
      BY <1>1, <2>4, <2>6
    <3>2. QED BY <2>3, <2>6, <2>7, <2>8, <3>1
  <2>10. InOrder(names[i], names[p[i]])
    BY <1>6, <2>3, <2>6, <2>9
  <2>11. InOrder(names[p[i]], names[i])
    <3>1. InOrder(t[i], t[k]) /\ t[k] = names[i]
      BY <1>4, <1>6, <2>3, <2>4, <2>9
    <3>2. QED BY <2>6, <3>1
  <2>12. names[i] = names[p[i]]
    BY <1>1, <2>3, <2>6, <2>10, <2>11, InOrderOneWay
  <2>13. QED BY <1>2, <2>3, <2>6, <2>12
<1>8. \A i \in 1 .. n : t[i] = names[i]
  BY <1>7
<1>9. QED BY <1>1, <1>8, SeqEqual DEF n

(* Every statement that is printed, or about to be, is sorted.              *)
NamesSorted == \A s \in 1 .. at : NeighboursSorted(modules[s].imports)

LEMMA SortedStart == Init => NamesSorted
BY DEF Init, NamesSorted

LEMMA SortedStep == ASSUME TypeOK, NamesSorted, [Next]_vars PROVE NamesSorted'
<1>1. at \in Nat /\ modules \in Seq(Module) /\ at \in 0 .. Len(modules)
  BY DEF TypeOK
<1>2. CASE NextModule
  <2>1. at < Len(modules) /\ at' = at + 1 /\ Sort
    BY <1>2 DEF NextModule
  <2>2. /\ Len(modules') = Len(modules) /\ modules' \in Seq(Module)
        /\ \A i \in DOMAIN modules : i # at' => modules'[i] = modules[i]
    BY <2>1, SortType
  <2>3. NeighboursSorted(modules'[at'].imports)
    <3>1. PICK names \in Sorted(modules[at'].imports) :
            modules' = [modules EXCEPT ![at'] = [kind |-> modules[at'].kind,
                          title |-> modules[at'].title, imports |-> names]]
      BY <2>1 DEF Sort
    <3>2. at' \in DOMAIN modules
      BY <1>1, <2>1
    <3>3. modules'[at'].imports = names
      BY <3>1, <3>2
    <3>4. modules[at'].imports \in Seq(Name)
      <4>1. modules[at'] \in Module
        BY <1>1, <3>2
      <4>2. QED BY <4>1 DEF Module
    <3>5. NeighboursSorted(names)
      BY <3>4, SortedIs
    <3>6. QED BY <3>3, <3>5
  <2>4. \A s \in 1 .. at : NeighboursSorted(modules'[s].imports)
    <3> TAKE s \in 1 .. at
    <3>1. s \in DOMAIN modules /\ s # at'
      BY <1>1, <2>1
    <3>2. QED BY <2>2, <3>1 DEF NamesSorted
  <2>5. \A s \in 1 .. at' : s \in 1 .. at \/ s = at'
    BY <1>1, <2>1
  <2>6. QED BY <2>3, <2>4, <2>5 DEF NamesSorted, NeighboursSorted
<1>3. CASE UNCHANGED <<modules, at>>
  BY <1>3 DEF NamesSorted, NeighboursSorted
<1>4. QED
  BY <1>2, <1>3 DEF Next, Finish, NoWrap, FirstLine, WrapLine, LastLine, Exited, vars

LEMMA SortedInvariant == Spec => [](TypeOK /\ NamesSorted)
<1>1. Spec => []TypeOK
  BY PrinterTypeCorrect
<1>2. Spec => []NamesSorted
  <2>1. Init => NamesSorted
    BY SortedStart
  <2>2. TypeOK /\ NamesSorted /\ [Next]_vars => NamesSorted'
    BY SortedStep
  <2>3. QED BY <1>1, <2>1, <2>2, PTL DEF Spec
<1>3. QED BY <1>1, <1>2, PTL

(***************************************************************************)
(* Names with the same stem come out in the order of their numbers, for    *)
(* every list of plain names and every order that qsort may leave.         *)
(***************************************************************************)
THEOREM NumbersInOrder == Spec => []NumbersAscend
<1>1. TypeOK /\ NamesSorted => NumbersAscend
  <2> SUFFICES ASSUME TypeOK, NamesSorted, NEW s \in 1 .. at
               PROVE  LET names == modules[s].imports
                      IN  \A i, j \in DOMAIN names :
                            /\ i < j /\ Stem(names[i]) = Stem(names[j])
                            /\ \A k \in DOMAIN names : IsPlain(names[k])
                            => Number(names[i]) <= Number(names[j])
    BY DEF NumbersAscend
  <2> DEFINE names == modules[s].imports
  <2>1. names \in Seq(Name) /\ NeighboursSorted(names)
    <3>1. modules[s] \in Module
      BY DEF TypeOK
    <3>2. QED BY <3>1 DEF Module, NamesSorted
  <2> HIDE DEF names
  <2>2. ASSUME NEW i \in DOMAIN names, NEW j \in DOMAIN names, i < j, AllPlain(names),
               Stem(names[i]) = Stem(names[j])
        PROVE  Number(names[i]) <= Number(names[j])
    <3> DEFINE x == names[i]
               y == names[j]
               p == StemEnd(x)
    <3>1. x \in Name /\ y \in Name /\ IsPlain(x) /\ IsPlain(y) /\ Stem(x) = Stem(y)
      BY <2>1, <2>2 DEF AllPlain
    <3>2. InOrder(x, y)
      <4>1. i \in 1 .. Len(names) /\ j \in 1 .. Len(names)
        BY <2>1
      <4>2. QED BY <2>1, <2>2, <4>1, AllInOrder
    <3> HIDE DEF x, y
    <3>3. /\ Number(x) \in Nat /\ Number(y) \in Nat
          /\ p = Len(x) => Number(x) = 0
      BY <3>1, NumberType
    <3>4. CASE KeyBefore(x, y)
      <4>1. PICK d \in Nat : d >= 1 /\ KeyAt(x, d) < KeyAt(y, d)
        BY <3>4 DEF KeyBefore
      <4>2. p = StemEnd(y) /\ p \in 1 .. Len(x) /\ Len(x) \in Nat /\ \A k \in 1 .. p : x[k] = y[k]
        BY <3>1, SameStem, StemIs, NameIs
      <4>3. p = Len(x)
        <5> SUFFICES ASSUME p < Len(x) PROVE FALSE
          BY <4>2
        <5>1. KeyAt(x, d) \in Nat /\ KeyAt(y, d) \in Nat
          BY <3>1, <4>1, KeyType
        <5>2. CASE d <= p
          <6>1. KeyAt(x, d) = x[d] /\ KeyAt(y, d) = y[d] /\ d \in 1 .. p
            BY <4>1, <4>2, <5>2 DEF KeyAt
          <6>2. QED BY <4>1, <4>2, <5>1, <6>1
        <5>3. CASE d = p + 1
          <6>1. KeyAt(x, d) = Zero /\ KeyAt(y, d) \in {Zero, NUL}
            BY <3>1, <4>1, <4>2, <5>3, KeyIs
          <6>2. QED BY <4>1, <6>1 DEF Zero, NUL
        <5>4. CASE d > p + 1
          <6>1. KeyAt(x, d) = NUL /\ KeyAt(y, d) = NUL
            BY <3>1, <4>1, <4>2, <5>4, KeyIs
          <6>2. QED BY <4>1, <6>1 DEF NUL
        <5>5. QED BY <4>1, <4>2, <5>2, <5>3, <5>4
      <4>4. QED BY <3>3, <4>3 DEF x, y
    <3>5. CASE SameKey(x, y) /\ Number(x) <= Number(y)
      BY <3>5 DEF x, y
    <3>6. QED BY <3>2, <3>4, <3>5 DEF InOrder
  <2>3. QED BY <2>2 DEF names, AllPlain
<1>2. QED BY <1>1, SortedInvariant, PTL

(***************************************************************************)
(* Plain names, none of them twice, are printed in the only order qsort    *)
(* may leave: two calls of it on the same names, in any order, agree.      *)
(***************************************************************************)
THEOREM OrderIsUnique == Spec => []OneOrder
<1>1. TypeOK /\ NamesSorted => OneOrder
  <2> SUFFICES ASSUME TypeOK, NamesSorted, NEW s \in 1 .. at
               PROVE  LET names == modules[s].imports
                      IN  IsInjective(names) /\ (\A k \in DOMAIN names : IsPlain(names[k]))
                            => Sorted(names) = {names}
    BY DEF OneOrder
  <2> DEFINE names == modules[s].imports
  <2>1. names \in Seq(Name) /\ NeighboursSorted(names)
    <3>1. modules[s] \in Module
      BY DEF TypeOK
    <3>2. QED BY <3>1 DEF Module, NamesSorted
  <2> HIDE DEF names
  <2>2. ASSUME IsInjective(names), AllPlain(names) PROVE Sorted(names) = {names}
    <3>1. names \in Sorted(names)
      BY <2>1, SortedStays
    <3>2. \A t \in Sorted(names) : t = names
      BY <2>1, <2>2, OnlyOrder
    <3>3. QED BY <3>1, <3>2
  <2>3. QED BY <2>2 DEF names, AllPlain
<1>2. QED BY <1>1, SortedInvariant, PTL

=============================================================================
