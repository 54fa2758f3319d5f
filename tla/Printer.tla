------------------------------ MODULE Printer ------------------------------
(***************************************************************************)
(* CSortEntity_do after CSortEntity_sort: sorts the imports of each module *)
(* of the list in place and prints them, on one line (nowrap_imports) or   *)
(* on several (wrap_imports).  Each action prints one line; the loops over *)
(* the names of a line are one step, the loop over lines is not.           *)
(***************************************************************************)
EXTENDS Names

CONSTANTS
  Lists,      (* the lists the parser may hand over: see Parser!NothingEmpty *)
  Confs,      (* the configurations .csortconfig and the options may leave   *)
  Garbage     (* what DynArray_get yields past the end                       *)

VARIABLES
  asserts,    (* whether this build checks assert(): a release does not      *)
  conf,       (* entity->csort->conf                                         *)
  modules,    (* entity->modules                                             *)
  at,         (* position of "module" in the list; 0 before the first        *)
  count,      (* names of it that are printed                                *)
  remaining,  (* wrap_imports: names that are not, while it prints lines     *)
  row,        (* lines with names printed for it                             *)
  out,        (* per module, the names printed: [row, name]                  *)
  pc

vars == <<asserts, conf, modules, at, count, remaining, row, out, pc>>

Name   == CString \ {<<>>}
Module == [kind : {"FROM", "IMPORT"}, title : Seq(Nat), imports : Seq(Name) \ {<<>>}]
Conf   == [show_after_sort : BOOLEAN, disable_wrapping : BOOLEAN,
           wrap_after_n_imports : Nat, import_on_each_wrap : Nat,
           wrap_after_col : Nat]

(* Every statement names something.                                          *)
ASSUME PrinterAssumption ==
  Lists \subseteq Seq(Module) /\ Confs \subseteq Conf /\ Garbage \notin Name

-----------------------------------------------------------------------------
Imports == modules[at].imports
Total   == Len(Imports)

(* DynArray_get does not check its index.                                    *)
Get(i) == IF i < Total THEN Imports[i + 1] ELSE Garbage

(* Prints the names from number "count" on, up to the new "count".           *)
PrintNames ==
  out' = [out EXCEPT ![at] = @ \o [i \in 1 .. (count' - count) |->
                                     [row |-> row', name |-> Get(count + i - 1)]]]

(* _sort_imports: names are compared, nothing else is changed.               *)
Sorted(names) ==
  IF Len(names) >= 2 THEN SortsWith(CompareNodes, names) ELSE {names}
Sort == \E names \in Sorted(modules[at'].imports) :
          modules' = [modules EXCEPT ![at'] =
                        [kind |-> @.kind, title |-> @.title, imports |-> names]]

WrapAnyLength(m) == ~conf.disable_wrapping /\ conf.wrap_after_n_imports # 0
Wrap(m) ==
  /\ ~conf.disable_wrapping
  /\ conf.wrap_after_n_imports # 0
  /\ Len(m.imports) > conf.wrap_after_n_imports

-----------------------------------------------------------------------------
Init ==
  /\ asserts \in BOOLEAN /\ conf \in Confs /\ modules \in Lists
  /\ at = 0 /\ count = 0 /\ remaining = 0 /\ row = 0 /\ out = <<>>
  /\ pc = "module"

(* The loop over the list: keyword and title, then the order of the names.   *)
NextModule ==
  /\ pc = "module" /\ conf.show_after_sort /\ at < Len(modules)
  /\ at' = at + 1 /\ count' = 0 /\ row' = 0
  /\ out' = Append(out, <<>>)
  /\ Sort
  /\ pc' = IF Wrap(modules'[at']) THEN "first" ELSE "nowrap"
  /\ UNCHANGED <<asserts, conf, remaining>>

(* Without --show nothing is sorted or printed.                              *)
Finish ==
  /\ pc = "module" /\ (conf.show_after_sort => at = Len(modules))
  /\ pc' = "done"
  /\ UNCHANGED <<asserts, conf, modules, at, count, remaining, row, out>>

(* nowrap_imports *)
NoWrap ==
  /\ pc = "nowrap"
  /\ row' = 1 /\ count' = Total /\ PrintNames
  /\ pc' = "module"
  /\ UNCHANGED <<asserts, conf, modules, at, remaining>>

(* wrap_imports up to and including its assertion                            *)
FirstLineUnchecked ==
  /\ pc = "first"
  /\ row' = 1 /\ count' = conf.wrap_after_n_imports
  /\ PrintNames
  /\ remaining' = Total - count'
  /\ pc' = "lines"
  /\ UNCHANGED <<asserts, conf, modules, at>>
FirstLine ==
  /\ pc = "first"
  /\ row' = 1 /\ count' = conf.wrap_after_n_imports
  /\ PrintNames
  /\ remaining' = Total - count'
  /\ pc' = IF conf.import_on_each_wrap = 0 /\ asserts THEN "aborted" ELSE "lines"
  /\ UNCHANGED <<asserts, conf, modules, at>>

(* One turn of the while loop.  A line without names is not counted.         *)
WrapLineEager ==
  /\ pc = "lines" /\ remaining >= conf.import_on_each_wrap
  /\ row' = IF conf.import_on_each_wrap = 0 THEN row ELSE row + 1
  /\ count' = count + conf.import_on_each_wrap
  /\ PrintNames
  /\ remaining' = remaining - conf.import_on_each_wrap
  /\ UNCHANGED <<asserts, conf, modules, at, pc>>
WrapLine ==
  /\ pc = "lines" /\ remaining > conf.import_on_each_wrap
  /\ row' = IF conf.import_on_each_wrap = 0 THEN row ELSE row + 1
  /\ count' = count + conf.import_on_each_wrap
  /\ PrintNames
  /\ remaining' = remaining - conf.import_on_each_wrap
  /\ UNCHANGED <<asserts, conf, modules, at, pc>>

(* The names that are left, up to the last one with its parenthesis          *)
LastLineShort ==
  /\ pc = "lines" /\ remaining <= conf.import_on_each_wrap
  /\ row' = row + 1
  /\ count' = Total - 1 /\ PrintNames
  /\ pc' = "module"
  /\ UNCHANGED <<asserts, conf, modules, at, remaining>>
LastLine ==
  /\ pc = "lines" /\ remaining <= conf.import_on_each_wrap
  /\ row' = row + 1
  /\ count' = Total /\ PrintNames
  /\ pc' = "module"
  /\ UNCHANGED <<asserts, conf, modules, at, remaining>>

Exited == pc \in {"done", "aborted"} /\ UNCHANGED vars

Next == NextModule \/ Finish \/ NoWrap \/ FirstLine \/ WrapLine \/ LastLine \/ Exited

(* A single thread prints: it always takes its next step.                    *)
Spec == Init /\ [][Next]_vars /\ WF_vars(Next)

-----------------------------------------------------------------------------
(* Properties                                                               *)

(* The counters are u32: "remaining" is a natural number as long as the      *)
(* subtractions of wrap_imports do not wrap around.                          *)
TypeOK ==
  /\ asserts \in BOOLEAN /\ conf \in Confs /\ modules \in Seq(Module)
  /\ at \in 0 .. Len(modules)
  /\ count \in Nat /\ remaining \in Nat /\ row \in Nat
  /\ out \in Seq(Seq([row : Nat, name : Name \cup {Garbage}]))
  /\ pc \in {"module", "nowrap", "first", "lines", "done", "aborted"}

(***************************************************************************)
(* Every name of a statement is printed exactly once, in the order the     *)
(* sort left, and nothing that lies past the end of the array is, on       *)
(* whichever lines the counters of the three loops put the names.          *)
(***************************************************************************)
PrintsEveryName ==
  /\ Len(out) = at
  /\ pc = "done" => at = IF conf.show_after_sort THEN Len(modules) ELSE 0
  /\ \A s \in DOMAIN out :
       LET names == modules[s].imports
       IN  /\ s < at \/ pc \in {"module", "done"} => Len(out[s]) = Len(names)
           /\ \A i \in DOMAIN out[s] : i <= Len(names) /\ out[s][i].name = names[i]

(* The line of its statement the i-th name belongs on.                      *)
LineOf(i, m) ==
  IF ~Wrap(m) \/ i <= conf.wrap_after_n_imports THEN 1
  ELSE 2 + (i - 1 - conf.wrap_after_n_imports) \div conf.import_on_each_wrap

(***************************************************************************)
(* A statement is on a single line when wrapping is off or it does not     *)
(* have more names than fit there.  A "from" statement with more is laid   *)
(* out as configured: wrap_after_n_imports names on the first line,        *)
(* import_on_each_wrap on every further one, and what is left on the last  *)
(* one, which is never left with nothing but its parenthesis.              *)
(***************************************************************************)
LayoutAsConfigured ==
  /\ \A s \in DOMAIN out : \A i \in DOMAIN out[s] :
       /\ ~Wrap(modules[s]) => out[s][i].row = 1
       /\ Wrap(modules[s]) /\ modules[s].kind = "FROM" =>
            /\ i > conf.wrap_after_n_imports => conf.import_on_each_wrap > 0
            /\ out[s][i].row = LineOf(i, modules[s])
  /\ pc = "module" /\ at > 0 /\ modules[at].kind = "FROM" =>
       out[at] # <<>> /\ Last(out[at]).row = row

(***************************************************************************)
(* Names that end in a number come out in the order of the numbers, lib2   *)
(* before lib10, whatever other names are sorted with them.                *)
(***************************************************************************)
NumbersAscend ==
  \A s \in 1 .. at :
    LET names == modules[s].imports
    IN  \A i, j \in DOMAIN names :
          /\ i < j /\ Stem(names[i]) = Stem(names[j])
          /\ \A k \in DOMAIN names : IsPlain(names[k])
          => Number(names[i]) <= Number(names[j])

(***************************************************************************)
(* The order printed is the only one qsort may leave, so that it does not  *)
(* depend on the order in the file, nor on how qsort goes about it,        *)
(* although the comparison is no ordering.                                 *)
(***************************************************************************)
OneOrder ==
  \A s \in 1 .. at :
    LET names == modules[s].imports
    IN  IsInjective(names) /\ (\A k \in DOMAIN names : IsPlain(names[k]))
          => Sorted(names) = {names}

(***************************************************************************)
(* Printing ends, except in a build without assertions that was told to    *)
(* put no name on a wrapped line: nothing else guards the loop there.      *)
(***************************************************************************)
Finishes ==
  conf.import_on_each_wrap # 0 \/ asserts => <>(pc \in {"done", "aborted"})

(***************************************************************************)
(* "works with imports using `from`" (.csortconfig:19, of the options for  *)
(* wrapping): any other statement is on one line, however many names it    *)
(* has.                                                                    *)
(***************************************************************************)
WrapsOnlyFrom ==
  \A s \in DOMAIN out : modules[s].kind = "IMPORT" =>
    \A i \in DOMAIN out[s] : out[s][i].row = 1
=============================================================================
