---------------------------- MODULE ImportTables ----------------------------
(***************************************************************************)
(* What csort promises about the tables of a run that sorts several files: *)
(* every file has a table of its own, which is collected as ImportTable    *)
(* says, has its names put in another order when it is printed, and is     *)
(* forgotten before the next one is begun.  Module Entity implements this  *)
(* specification.                                                          *)
(***************************************************************************)
EXTENDS ImportTable

SameButOrder(names, other) ==
  /\ Len(names) = Len(other)
  /\ \A n \in Range(names) \cup Range(other) :
       Cardinality({i \in DOMAIN names : names[i] = n})
         = Cardinality({i \in DOMAIN other : other[i] = n})

Begin == ~open /\ table = <<>> /\ open' = TRUE /\ UNCHANGED <<combine, table>>

(* The names of one entry, and of no other, are put in order.               *)
Arrange ==
  /\ ~open
  /\ Len(table') = Len(table)
  /\ \E i \in DOMAIN table :
       /\ SameButOrder(table[i].imports, table'[i].imports)
       /\ table' = [table EXCEPT ![i] = [kind    |-> @.kind,
                                         title   |-> @.title,
                                         imports |-> table'[i].imports]]
  /\ UNCHANGED <<combine, open>>

Forget == open' = FALSE /\ table' = <<>> /\ UNCHANGED combine

RunInit == combine \in BOOLEAN /\ table = <<>> /\ open = FALSE
RunNext == Next \/ Begin \/ Arrange \/ Forget
RunSpec == RunInit /\ [][RunNext]_tableVars
=============================================================================
