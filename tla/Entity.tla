------------------------------- MODULE Entity -------------------------------
(***************************************************************************)
(* CSortEntity: one file after another is read into a list of modules,     *)
(* printed, and given up again.  The modules are allocated one by one and  *)
(* linked; what they are called is in nodes of the arena, which they point *)
(* to.  This module composes MemArena with the list; Parser says which     *)
(* names a file yields, here any do, and an array of imports is the stack  *)
(* that DynArray implements.                                               *)
(***************************************************************************)
EXTENDS MemArena, SequencesExt

CONSTANTS
  Names,        (* what libraries and modules are called                   *)
  Objects,      (* addresses malloc returns for modules                    *)
  Unused,       (* what is at an address that is not allocated             *)
  Junk,         (* what a link holds that nothing was written to           *)
  MaxFiles      (* how many files a run may sort                           *)

(* What a node of the arena was filled with, and what a module is.          *)
Text       == [use : {"options", "title", "import"}, name : Names \cup {Unused}]
ModuleLink == Objects \cup {NULL, Junk}
Module     == [kind : {"FROM", "IMPORT"}, title : Nodes \cup {NULL}, imports : Seq(Nodes),
               next : ModuleLink, prev : ModuleLink]

ASSUME EntityAssumption ==
  /\ IsFiniteSet(Objects) /\ NULL \notin Objects /\ Junk \notin Objects \cup {NULL}
  /\ Unused \notin Names \cup Text \cup Module /\ MaxFiles \in Nat

VARIABLES
  object,              (* per address: the CSortModuleObjNode there        *)
  modules,             (* entity->modules                                  *)
  modules_curr_node,   (* entity->modules_curr_node                        *)
  node,                (* _import or _from_import; NULL between statements *)
  is_already_kept,     (* whether node is in the list                      *)
  text,                (* per node of the arena: what it was filled with   *)
  squash, show,        (* options of the run                               *)
  at,                  (* ptr of the loops over the list                   *)
  files,               (* how many files were opened                       *)
  pc

list       == <<object, modules, modules_curr_node, node, is_already_kept>>
input      == <<squash, show>>
entityVars == <<vars, list, text, input, at, files, pc>>

Parsing == {"statement", "imports", "names"}

Allocated == {o \in Objects : object[o] # Unused}

(* The modules reached from one, in order                                   *)
LinksForth == [o \in Objects |-> IF o \in Allocated THEN object[o].next ELSE NULL]
Reached(from) == Followed(from, LinksForth)
Listed == Reached(modules)

NameOf(n) == text[n].name
NamesOf(m) == [i \in DOMAIN m.imports |-> NameOf(m.imports[i])]

-----------------------------------------------------------------------------
EntityInit ==
  /\ Init
  /\ squash \in BOOLEAN /\ show \in BOOLEAN
  /\ object = [o \in Objects |-> Unused]
  /\ modules = NULL /\ modules_curr_node = NULL
  /\ node = NULL /\ is_already_kept = FALSE
  /\ text = [n \in Nodes |-> Unused]
  /\ at = NULL /\ files = 0 /\ pc = "start"

(* main: the options of the run are the first node of the arena.            *)
Configure(n, size) ==
  /\ pc = "start"
  /\ KeepOptions(n, size)
  /\ text' = [text EXCEPT ![n] = [use |-> "options", name |-> Unused]]
  /\ pc' = "closed"
  /\ UNCHANGED <<list, input, at, files>>

(* CSortEntity_mk: all of it is zero.                                       *)
OpenFileAsLeft ==
  /\ pc = "closed" /\ files < MaxFiles
  /\ files' = files + 1 /\ pc' = "statement"
  /\ UNCHANGED <<vars, list, text, input, at>>
OpenFile ==
  /\ pc = "closed" /\ files < MaxFiles
  /\ modules' = NULL /\ modules_curr_node' = NULL
  /\ files' = files + 1 /\ pc' = "statement"
  /\ UNCHANGED <<vars, object, node, is_already_kept, text, input, at>>

-----------------------------------------------------------------------------
(* CSortEntity_find_module and the searches for names                       *)
FindModule(name) ==
  LET found == {i \in DOMAIN Listed : /\ object[Listed[i]].kind = "FROM"
                                      /\ NameOf(object[Listed[i]].title) = name}
  IN  IF found = {} THEN NULL ELSE Listed[Min(found)]
SearchForImports(name) ==
  \E o \in ToSet(Listed) : object[o].kind = "IMPORT" /\ name \in ToSet(NamesOf(object[o]))

(* CSortModuleObjNode_mk: the links are left as malloc found them.          *)
NewModule(kind, title, imports) ==
  [kind |-> kind, title |-> title, imports |-> imports, next |-> Junk, prev |-> Junk]

WithImports(m, imports) ==
  [kind |-> m.kind, title |-> m.title, imports |-> imports, next |-> m.next, prev |-> m.prev]
WithLinks(m, after, before) ==
  [kind |-> m.kind, title |-> m.title, imports |-> m.imports, next |-> after, prev |-> before]

(* CSortMemArenaCopyCStr of a name into n                                   *)
Copy(n, use, name) ==
  /\ \E size \in DataSizes : CopyCStr(n, size)
  /\ text' = [text EXCEPT ![n] = [use |-> use, name |-> name]]

(* The first name of an "import" that is not known                          *)
ImportedModule(o, n, name) ==
  /\ pc = "statement" /\ o \notin Allocated /\ ~SearchForImports(name)
  /\ Copy(n, "import", name)
  /\ object' = [object EXCEPT ![o] = NewModule("IMPORT", NULL, <<n>>)]
  /\ node' = o /\ is_already_kept' = FALSE
  /\ pc' = "imports"
  /\ UNCHANGED <<modules, modules_curr_node, input, at, files>>

(* A "from" of a library that is combined with an earlier one               *)
KnownTitle(o, name) ==
  /\ pc = "statement" /\ squash /\ o \in Allocated /\ o = FindModule(name)
  /\ node' = o /\ is_already_kept' = TRUE
  /\ pc' = "names"
  /\ UNCHANGED <<vars, object, modules, modules_curr_node, text, input, at, files>>

FromTitle(o, n, name) ==
  /\ pc = "statement" /\ o \notin Allocated /\ (squash => FindModule(name) = NULL)
  /\ Copy(n, "title", name)
  /\ object' = [object EXCEPT ![o] = NewModule("FROM", n, <<>>)]
  /\ node' = o /\ is_already_kept' = FALSE
  /\ pc' = "names"
  /\ UNCHANGED <<modules, modules_curr_node, input, at, files>>

(* _push_import, which a "from" statement calls only for a name it lacks    *)
PushImport(n, name) ==
  /\ \/ pc = "imports"
     \/ pc = "names" /\ name \notin ToSet(NamesOf(object[node]))
  /\ Copy(n, "import", name)
  /\ object' = [object EXCEPT ![node] = WithImports(@, Append(@.imports, n))]
  /\ UNCHANGED <<modules, modules_curr_node, node, is_already_kept, input, at, files, pc>>

(* CSortEntity_append_module of m, which is the head or follows the current *)
(* node                                                                     *)
LinkedHalf(m) ==
  [o \in Objects |-> IF o = m THEN WithLinks(object[m], object[m].next, modules_curr_node)
                     ELSE IF o = modules_curr_node THEN WithLinks(object[o], m, object[o].prev)
                     ELSE object[o]]
Linked(m) ==
  [o \in Objects |-> IF o = m THEN WithLinks(object[m], NULL, modules_curr_node)
                     ELSE IF o = modules_curr_node THEN WithLinks(object[o], m, object[o].prev)
                     ELSE object[o]]

(* A statement ends when it has named something.                            *)
AppendModule ==
  /\ pc \in {"imports", "names"} /\ object[node].imports # <<>>
  /\ IF is_already_kept
     THEN UNCHANGED <<object, modules, modules_curr_node>>
     ELSE /\ object' = Linked(node)
          /\ modules' = IF modules_curr_node = NULL THEN node ELSE modules
          /\ modules_curr_node' = node
  /\ node' = NULL /\ is_already_kept' = FALSE
  /\ pc' = "statement"
  /\ UNCHANGED <<vars, text, input, at, files>>

(* CSort_panic_tok, wherever a statement may be wrong                       *)
Panic ==
  /\ pc \in Parsing
  /\ FreeAll
  /\ pc' = "panicked"
  /\ UNCHANGED <<list, text, input, at, files>>

(* die() for want of memory, or for a file that cannot be opened            *)
EntityDies ==
  /\ pc \in Parsing \cup {"start", "closed"}
  /\ Die
  /\ pc' = "died"
  /\ UNCHANGED <<list, text, input, at, files>>

-----------------------------------------------------------------------------
(* CSortEntity_sort has returned.  Without --show nothing is printed.       *)
EndOfFile ==
  /\ pc = "statement"
  /\ at' = modules /\ pc' = IF show THEN "print" ELSE "release"
  /\ UNCHANGED <<vars, list, text, input, files>>

(* CSortEntity_do for one module: its imports are sorted in place.          *)
SortLosing(imports) == {[i \in DOMAIN imports |-> imports[1]]}
Sorted(imports) ==
  {[i \in DOMAIN imports |-> imports[p[i]]] :
     p \in {q \in [DOMAIN imports -> DOMAIN imports] : IsInjective(q)}}

PrintModule ==
  /\ pc = "print" /\ at # NULL
  /\ \E imports \in Sorted(object[at].imports) :
       object' = [object EXCEPT ![at] = WithImports(@, imports)]
  /\ at' = object[at].next
  /\ UNCHANGED <<vars, modules, modules_curr_node, node, is_already_kept, text, input, files, pc>>

EndOfPrint ==
  /\ pc = "print" /\ at = NULL
  /\ at' = modules /\ pc' = "release"
  /\ UNCHANGED <<vars, list, text, input, files>>

(* CSortEntity_deinit for one module: the title of a "from" is given back,  *)
(* and the module; written_as is NULL in every module that is made.         *)
TitleKept(m) == UNCHANGED <<vars, text>>
TitleReleased(m) ==
  IF m.kind = "FROM"
  THEN Dealloc(m.title) /\ text' = [text EXCEPT ![m.title] = Unused]
  ELSE UNCHANGED <<vars, text>>

ReleaseTitleOnly ==
  /\ pc = "release" /\ at # NULL
  /\ TitleReleased(object[at])
  /\ at' = object[at].next
  /\ UNCHANGED <<list, input, files, pc>>
Release ==
  /\ pc = "release" /\ at # NULL
  /\ TitleReleased(object[at])
  /\ object' = [object EXCEPT ![at] = Unused]
  /\ at' = object[at].next
  /\ UNCHANGED <<modules, modules_curr_node, node, is_already_kept, input, files, pc>>

EndOfRelease ==
  /\ pc = "release" /\ at = NULL
  /\ pc' = "closed"
  /\ UNCHANGED <<vars, list, text, input, at, files>>

(* CSort_deinit at the end of main                                          *)
Finish ==
  /\ pc = "closed"
  /\ FreeAll
  /\ pc' = "done"
  /\ UNCHANGED <<list, text, input, at, files>>

EntityStopped == pc \in {"done", "panicked", "died"} /\ UNCHANGED entityVars

EntityNext ==
  \/ \E n \in Nodes, size \in DataSizes : Configure(n, size)
  \/ OpenFile
  \/ \E name \in Names :
       \/ \E o \in Objects, n \in Nodes : ImportedModule(o, n, name) \/ FromTitle(o, n, name)
       \/ \E o \in Objects : KnownTitle(o, name)
       \/ \E n \in Nodes : PushImport(n, name)
  \/ AppendModule \/ Panic \/ EntityDies
  \/ EndOfFile \/ PrintModule \/ EndOfPrint \/ Release \/ EndOfRelease
  \/ Finish \/ EntityStopped

EntitySpec == EntityInit /\ [][EntityNext]_entityVars

-----------------------------------------------------------------------------
(* Properties                                                               *)

EntityTypeOK ==
  /\ object \in [Objects -> Module \cup {Unused}]
  /\ modules \in Objects \cup {NULL} /\ modules_curr_node \in Objects \cup {NULL}
  /\ at \in Objects \cup {NULL}
  /\ node \in Objects \cup {NULL} /\ is_already_kept \in BOOLEAN
  /\ text \in [Nodes -> Text \cup {Unused}]
  /\ squash \in BOOLEAN /\ show \in BOOLEAN /\ files \in 0 .. MaxFiles
  /\ pc \in Parsing \cup {"start", "closed", "print", "release", "done", "panicked", "died"}

(* The module that is made and not yet in the list.                         *)
InHand == IF node # NULL /\ ~is_already_kept THEN {node} ELSE {}

(***************************************************************************)
(* The list of the file that is open is whole: every module that is        *)
(* allocated is reached once from "modules", but the one under             *)
(* construction; the last is where the next will be appended; the links    *)
(* back mirror the links forth.  While modules are released those that are *)
(* not are still reached, and none is left when the file is done with.     *)
(***************************************************************************)
ListWhole ==
  /\ pc \in Parsing \cup {"print"} =>
       /\ IsInjective(Listed) /\ ToSet(Listed) = Allocated \ InHand
       /\ IF Listed = <<>> THEN modules_curr_node = NULL
          ELSE modules_curr_node = Last(Listed) /\ object[Last(Listed)].next = NULL
       /\ \A i \in DOMAIN Listed :
            object[Listed[i]].prev = IF i = 1 THEN NULL ELSE Listed[i - 1]
  /\ pc = "release" => ToSet(Reached(at)) = Allocated
  /\ pc = "closed"  => Allocated = {}

Texts(m) == (IF m.kind = "FROM" THEN {m.title} ELSE {}) \cup ToSet(m.imports)

(***************************************************************************)
(* While the program runs, what a module points to is there, was filled    *)
(* for it, and belongs to it alone: a title that is given back is nobody   *)
(* else's title or import.                                                 *)
(***************************************************************************)
TextsOwned ==
  status = "running" =>
    \A o \in Allocated :
      LET m == object[o]
      IN  /\ Texts(m) \subseteq live
          /\ m.kind = "FROM" => text[m.title].use = "title"
          /\ \A i \in DOMAIN m.imports : text[m.imports[i]].use = "import"
          /\ IsInjective(m.imports)
          /\ \A p \in Allocated \ {o} : Texts(m) \cap Texts(object[p]) = {}

(***************************************************************************)
(* The arena keeps no title that no module has: over many files only the   *)
(* names that were imported add up.                                        *)
(***************************************************************************)
NoTitleLost ==
  status = "running" =>
    {n \in live : text[n].use = "title"}
      = {object[o].title : o \in {x \in Allocated : object[x].kind = "FROM"}}

-----------------------------------------------------------------------------
(***************************************************************************)
(* Each file has its own table of imports: what the modules of the list    *)
(* say, read through their links and the nodes they point to.              *)
(***************************************************************************)
NoTitle == "none"
Contents ==
  [i \in DOMAIN Listed |->
     LET m == object[Listed[i]]
     IN  [kind    |-> m.kind,
          title   |-> IF m.kind = "FROM" THEN NameOf(m.title) ELSE NoTitle,
          imports |-> NamesOf(m)]]

Tables == INSTANCE ImportTables WITH
  combine <- squash,
  table   <- IF pc \in Parsing \cup {"print"} THEN Contents ELSE <<>>,
  open    <- pc \in Parsing

ImplementsTables == Tables!RunSpec
=============================================================================
