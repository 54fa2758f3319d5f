----------------------------- MODULE ImportTable -----------------------------
(***************************************************************************)
(* What csort promises about the list of imports it collects from one      *)
(* file, without saying how the file is read: the list only ever grows,    *)
(* one entry or one name at a time, and the duplicate checks keep out what *)
(* they are there to keep out.  Module Parser implements this              *)
(* specification.                                                          *)
(***************************************************************************)
EXTENDS Integers, Sequences, SequencesExt

VARIABLES
  combine,         (* squash_for_duplicate_library: one entry per library   *)
  table,           (* sequence of entries [kind, title, imports]            *)
  open             (* FALSE once the file is read or the program gave up    *)

tableVars == <<combine, table, open>>

Titles  == {table[i].title : i \in {j \in DOMAIN table : table[j].kind = "FROM"}}
Modules == UNION {Range(table[i].imports) :
                    i \in {j \in DOMAIN table : table[j].kind = "IMPORT"}}

NoRepeats(names) == \A i, j \in DOMAIN names : names[i] = names[j] => i = j

(***************************************************************************)
(* An entry that may join the table: it names something; a "from" entry    *)
(* repeats no name and, when libraries are combined, no title; an "import" *)
(* entry starts with a module the table does not have yet.                 *)
(***************************************************************************)
Acceptable(entry) ==
  /\ entry.imports # <<>>
  /\ entry.kind = "FROM"   => /\ NoRepeats(entry.imports)
                              /\ combine => entry.title \notin Titles
  /\ entry.kind = "IMPORT" => Head(entry.imports) \notin Modules

Init == combine \in BOOLEAN /\ table = <<>> /\ open = TRUE

Record ==
  /\ open
  /\ Len(table') = Len(table) + 1
  /\ Acceptable(Last(table'))
  /\ table' = Append(table, Last(table'))
  /\ UNCHANGED <<combine, open>>

(* A combined library gains a name it does not have.                        *)
AddName ==
  /\ open /\ combine
  /\ Len(table') = Len(table)
  /\ \E i \in DOMAIN table :
       LET name == Last(table'[i].imports)
       IN  /\ table[i].kind = "FROM"
           /\ name \notin Range(table[i].imports)
           /\ table' = [table EXCEPT ![i] = [kind    |-> @.kind,
                                             title   |-> @.title,
                                             imports |-> Append(@.imports, name)]]
  /\ UNCHANGED <<combine, open>>

Close == open /\ open' = FALSE /\ UNCHANGED <<combine, table>>

Next == Record \/ AddName \/ Close

Spec == Init /\ [][Next]_tableVars
=============================================================================
