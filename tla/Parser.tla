------------------------------- MODULE Parser -------------------------------
(***************************************************************************)
(* CSortEntity_sort: reads one Python file through a line buffer of fixed  *)
(* size, token by token, and collects its import statements in a list of   *)
(* modules.  Each action consumes one token with _update_token and does    *)
(* everything the code does before it asks for the next one; pc names the  *)
(* call of _update_token the program is at.                                *)
(***************************************************************************)
EXTENDS Tokens, Functions

CONSTANTS
  Files,      (* the files that may be read: sequences of atoms             *)
  HeapNodes   (* arena nodes the heap has room for at most                  *)

ASSUME ParserAssumption == Files \subseteq Seq(Atom) /\ HeapNodes \in Nat

VARIABLES
  file,          (* the contents of file_to_sort                            *)
  squash,        (* conf.squash_for_duplicate_library                       *)
  off,           (* how much of the file fgets has consumed                 *)
  buf,           (* the string in p->buf; zero bytes fill the array after it*)
  buf_view,      (* what is left to scan: [at, len] in buf                  *)
  line_counter,  (* lines (or parts of long lines) read so far              *)
  tok,           (* the current token: [type, name, line, col]              *)
  pc,            (* which call of _update_token comes next, or how it ended *)
  modules,       (* entity->modules, head to tail                           *)
  node,          (* the module under construction, not yet in the list      *)
  target,        (* index in modules of the one being filled, 0 for "node"  *)
  nodes          (* arena nodes allocated for titles and names              *)

input  == <<file, squash>>
reader == <<off, buf, buf_view, line_counter, tok>>
list   == <<modules, node, target, nodes>>
vars   == <<file, squash, off, buf, buf_view, line_counter, tok,
            pc, modules, node, target, nodes>>

Steps    == {"statement", "module", "known", "firstSep", "more", "moreSep",
             "title", "importKw", "name", "nameSep"}
Outcomes == {"done", "panic", "outOfMemory"}

Name   == Seq(Char)
Module == [kind : {"FROM", "IMPORT"}, title : Name, imports : Seq(Name), line : Nat]
NoNode == [kind |-> "IMPORT", title |-> <<>>, imports |-> <<>>, line |-> 0]

-----------------------------------------------------------------------------
(* Reading: _getline and _update_token                                      *)

(***************************************************************************)
(* fgets(buf, BufSize): up to and including the next newline, at most      *)
(* BufSize - 1 atoms, or what is left of the file.                         *)
(***************************************************************************)
ChunkEndTooLong == Min({i \in (off + 1) .. Len(file) :
                          file[i] = NL \/ i = off + BufSize \/ i = Len(file)})
ChunkEnd == Min({i \in (off + 1) .. Len(file) :
                   file[i] = NL \/ i = off + BufSize - 1 \/ i = Len(file)})

(* _getline when there is something left to read, and buf_view = SV(buf).   *)
GetLine ==
  /\ off' = ChunkEnd
  /\ buf' = SubSeq(file, off + 1, ChunkEnd)
  /\ buf_view' = [at |-> 1, len |-> ChunkEnd - off]
  /\ line_counter' = line_counter + 1

(* _getline at the end of the file: the buffer is zeroed, the view stays.   *)
GetLineFails ==
  /\ buf' = <<>>
  /\ UNCHANGED <<off, buf_view, line_counter>>

(***************************************************************************)
(* What the scan can see.  The view may reach past the string (see         *)
(* IncBuff): inside the array that is zero bytes; past the array it is     *)
(* whatever lies there, a delimiter or a byte that is none (written NUL).  *)
(***************************************************************************)
ViewEnd == buf_view.at + buf_view.len
Beyond  == [(BufSize + 1) .. (ViewEnd - 1) -> Delimiter \cup {NUL}]
Visible(beyond) == [i \in buf_view.at .. (ViewEnd - 1) |->
                      IF i <= Len(buf) THEN buf[i]
                      ELSE IF i <= BufSize THEN NUL ELSE beyond[i]]
Readable == {Visible(beyond) : beyond \in Beyond}

(* The tokens CSort_nexttoken may return.                                   *)
NextTokens == {NextToken(text, buf_view.at, ViewEnd) : text \in Readable}

(***************************************************************************)
(* CSort_inc_buff: the next view starts where the token says, and its      *)
(* length drops by the token and the spaces after it, but not by the       *)
(* spaces that were skipped before it.                                     *)
(***************************************************************************)
IncBuffPastDelimiter(t) ==
  /\ buf_view' = [at |-> t.next + 1, len |-> buf_view.len - (t.next - t.begin) - 1]
  /\ UNCHANGED <<off, buf, line_counter>>
IncBuffOffsetOnly(t) ==
  /\ buf_view' = [at  |-> t.next,
                  len |-> buf_view.len - (t.next - t.begin - Len(t.name))]
  /\ UNCHANGED <<off, buf, line_counter>>
IncBuffNotStored(t) == UNCHANGED <<buf_view, off, buf, line_counter>>
IncBuff(t) ==
  /\ buf_view' = [at |-> t.next, len |-> buf_view.len - (t.next - t.begin)]
  /\ UNCHANGED <<off, buf, line_counter>>

AtToken(t, type, line, col) ==
  tok' = [type |-> type, name |-> t.name, line |-> line, col |-> col]

UpdateTokenLate ==
  /\ \E t \in NextTokens :
       LET lineOver == t.type \in {"newline", "comment"}
       IN  \/ /\ lineOver /\ off < Len(file)
              /\ GetLine /\ AtToken(t, t.type, line_counter', t.col)
           \/ /\ lineOver /\ off = Len(file)
              /\ GetLineFails /\ AtToken(t, "end", 0, 0)
           \/ /\ ~lineOver
              /\ IncBuff(t) /\ AtToken(t, t.type, line_counter, t.col)
  /\ UNCHANGED input
UpdateToken ==
  /\ \E t \in NextTokens :
       LET lineOver == t.type \in {"newline", "comment"}
       IN  \/ /\ lineOver /\ off < Len(file)
              /\ GetLine /\ AtToken(t, t.type, line_counter, t.col)
           \/ /\ lineOver /\ off = Len(file)
              /\ GetLineFails /\ AtToken(t, "end", 0, 0)
           \/ /\ ~lineOver
              /\ IncBuff(t) /\ AtToken(t, t.type, line_counter, t.col)
  /\ UNCHANGED input

-----------------------------------------------------------------------------
(* The list of modules and the names in it                                  *)

(* A name copied into the arena and read back as a C string.                *)
CopyCStr(name) ==
  LET nuls == {i \in DOMAIN name : name[i] = NUL}
  IN  IF nuls = {} THEN name ELSE SubSeq(name, 1, Min(nuls) - 1)

(* CSortEntity_find_module: 0 stands for NULL.                              *)
FindModuleNewestOnly(name) ==
  IF modules # <<>> /\ modules[Len(modules)].kind = "FROM"
     /\ modules[Len(modules)].title = name
  THEN Len(modules) ELSE 0
FindModule(name) ==
  LET found == {i \in DOMAIN modules :
                  modules[i].kind = "FROM" /\ modules[i].title = name}
  IN  IF found = {} THEN 0 ELSE Min(found)

(* _search_for_imports; its callers only ask whether it found a module.     *)
SearchForImportsAnyKind(name) ==
  \E i \in DOMAIN modules : name \in Range(modules[i].imports)
SearchForImports(name) ==
  \E i \in DOMAIN modules :
    modules[i].kind = "IMPORT" /\ name \in Range(modules[i].imports)

(* The imports of the module being filled: node, or one of the list.        *)
TargetImports == IF target = 0 THEN node.imports ELSE modules[target].imports

(* _search_import_from_statement                                            *)
SearchImportFromStatement(name) == name \in Range(TargetImports)

(* _push_import *)
WithImport(m, name) == [kind |-> m.kind, title |-> m.title, line |-> m.line,
                        imports |-> Append(m.imports, CopyCStr(name))]
PushImport(name) ==
  /\ nodes' = nodes + 1
  /\ IF target = 0
     THEN node' = WithImport(node, name) /\ UNCHANGED modules
     ELSE /\ modules' = [modules EXCEPT ![target] = WithImport(@, name)]
          /\ UNCHANGED node

(* CSortModuleObjNode_mk for a "from" and for an "import" with its first name *)
NewFrom(title) == [kind |-> "FROM", title |-> CopyCStr(title), imports |-> <<>>, line |-> 0]
NewImportUnnamed(name) == NoNode
NewImport(name) == [kind |-> "IMPORT", title |-> <<>>, imports |-> <<CopyCStr(name)>>, line |-> 0]

(***************************************************************************)
(* CSortEntity_append_module, at the end of a statement; nothing is        *)
(* appended when the statement only added to a module of the list.  The    *)
(* line recorded is the counter after the terminating token was read.      *)
(***************************************************************************)
AtLine(m, line) == [kind |-> m.kind, title |-> m.title, imports |-> m.imports, line |-> line]
AppendModuleAtHead ==
  /\ modules' = IF target = 0
                THEN <<AtLine(node, line_counter')>> \o modules
                ELSE modules
  /\ node' = NoNode /\ target' = 0
  /\ UNCHANGED nodes
AppendModuleAlways ==
  /\ modules' = Append(modules, AtLine(node, line_counter'))
  /\ node' = NoNode /\ target' = 0
  /\ UNCHANGED nodes
AppendModuleEarly ==
  /\ modules' = IF target = 0
                THEN Append(modules, AtLine(node, line_counter))
                ELSE modules
  /\ node' = NoNode /\ target' = 0
  /\ UNCHANGED nodes
AppendModule ==
  /\ modules' = IF target = 0
                THEN Append(modules, AtLine(node, line_counter'))
                ELSE modules
  /\ node' = NoNode /\ target' = 0
  /\ UNCHANGED nodes

(* DEV_malloc may fail whenever it is called, and does when the heap is full. *)
HeapFull == nodes >= HeapNodes
Die == pc' = "outOfMemory" /\ UNCHANGED list

-----------------------------------------------------------------------------
Init ==
  /\ file \in Files /\ squash \in BOOLEAN
  /\ off = 0 /\ buf = <<>> /\ buf_view = [at |-> 1, len |-> 0]
  /\ line_counter = 0
  /\ tok = [type |-> "start", name |-> <<>>, line |-> 0, col |-> 0]
  /\ pc = "statement"
  /\ modules = <<>> /\ node = NoNode /\ target = 0 /\ nodes = 0

(* One call of _update_token at p.                                          *)
Read(p) == pc = p /\ UpdateToken
Goto(p) == pc' = p
(* CSort_panic_tok and CSortEntity_report_unexpected_errs: both exit(1).    *)
Panic == Goto("panic") /\ UNCHANGED list

Separator == tok'.type \in {"comma", "identifier"}

(* The loop of CSortEntity_sort                                             *)
Statement ==
  /\ Read("statement")
  /\ \/ tok'.type = "end"    /\ Goto("done")
     \/ tok'.type = "import" /\ Goto("module")
     \/ tok'.type = "from"   /\ Goto("title")
     \/ tok'.type \notin {"end", "import", "from"} /\ Goto("statement")
  /\ UNCHANGED list

(* _parse_import_statement_with_duplicate_check, names already imported     *)
ImportedModule ==
  /\ Read("module")
  /\ \/ tok'.type # "identifier" /\ Panic
     \/ /\ tok'.type = "identifier" /\ SearchForImports(tok'.name)
        /\ Goto("known") /\ UNCHANGED list
     \/ /\ tok'.type = "identifier" /\ ~SearchForImports(tok'.name)
        /\ \/ Die
           \/ /\ ~HeapFull
              /\ node' = NewImport(tok'.name) /\ nodes' = nodes + 1
              /\ Goto("firstSep") /\ UNCHANGED <<modules, target>>

AfterKnownModule ==
  /\ Read("known")
  /\ Goto(IF Separator THEN "module" ELSE "statement")
  /\ UNCHANGED list

(* After the first new name only a comma continues the statement.           *)
AfterFirstNew ==
  /\ Read("firstSep")
  /\ IF tok'.type = "comma"
     THEN Goto("more") /\ UNCHANGED list
     ELSE AppendModule /\ Goto("statement")

(* _push_more_imports: no duplicate check from here on                      *)
MoreModule ==
  /\ Read("more")
  /\ \/ tok'.type # "identifier" /\ Panic
     \/ tok'.type = "identifier" /\ Die
     \/ /\ tok'.type = "identifier" /\ ~HeapFull
        /\ PushImport(tok'.name) /\ Goto("moreSep") /\ UNCHANGED target

AfterMore ==
  /\ Read("moreSep")
  /\ IF Separator
     THEN Goto("more") /\ UNCHANGED list
     ELSE AppendModule /\ Goto("statement")

(* "from": the library, combined with an earlier statement when squashing   *)
FromTitle ==
  /\ Read("title")
  /\ LET found == IF squash THEN FindModule(tok'.name) ELSE 0
     IN  \/ tok'.type # "identifier" /\ Panic
         \/ /\ tok'.type = "identifier" /\ found # 0
            /\ target' = found
            /\ Goto("importKw") /\ UNCHANGED <<modules, node, nodes>>
         \/ /\ tok'.type = "identifier" /\ found = 0
            /\ \/ Die
               \/ /\ ~HeapFull
                  /\ node' = NewFrom(tok'.name) /\ nodes' = nodes + 1
                  /\ Goto("importKw") /\ UNCHANGED <<modules, target>>

FromImportKeyword ==
  /\ Read("importKw")
  /\ \/ tok'.type # "import" /\ Panic
     \/ tok'.type = "import" /\ Goto("name") /\ UNCHANGED list

(* _parse_import_after_from *)
FromName ==
  /\ Read("name")
  /\ \/ tok'.type # "identifier" /\ Panic
     \/ /\ tok'.type = "identifier" /\ SearchImportFromStatement(tok'.name)
        /\ Goto("nameSep") /\ UNCHANGED list
     \/ /\ tok'.type = "identifier" /\ ~SearchImportFromStatement(tok'.name)
        /\ \/ Die
           \/ ~HeapFull /\ PushImport(tok'.name) /\ Goto("nameSep") /\ UNCHANGED target

AfterName ==
  /\ Read("nameSep")
  /\ IF Separator
     THEN Goto("name") /\ UNCHANGED list
     ELSE AppendModule /\ Goto("statement")

(* The program has left the parser: nothing more happens here.              *)
Exited == pc \in Outcomes /\ UNCHANGED vars

Next ==
  \/ Statement
  \/ ImportedModule \/ AfterKnownModule \/ AfterFirstNew \/ MoreModule \/ AfterMore
  \/ FromTitle \/ FromImportKeyword \/ FromName \/ AfterName
  \/ Exited

(* A single thread runs the loop: it always takes its next step.            *)
Spec == Init /\ [][Next]_vars /\ WF_vars(Next)

-----------------------------------------------------------------------------
(* Properties                                                               *)

TypeOK ==
  /\ file \in Seq(Atom) /\ squash \in BOOLEAN
  /\ off \in 0 .. Len(file)
  /\ buf \in Seq(Atom) /\ Len(buf) < BufSize
  /\ buf_view \in [at : Nat \ {0}, len : Nat]
  /\ line_counter \in Nat
  /\ tok \in [type : TokenTypes, name : Name, line : Nat, col : Nat]
  /\ pc \in Steps \cup Outcomes
  /\ modules \in Seq(Module)
  /\ node \in Module
  /\ target \in 0 .. Len(modules)
  /\ nodes \in Nat

NoRepeats(names) == \A i, j \in DOMAIN names : names[i] = names[j] => i = j

(***************************************************************************)
(* With squashing, at most one module of the list stands for a library:    *)
(* "from x import a" and a later "from x import b" share one entry.        *)
(***************************************************************************)
OneEntryPerLibrary ==
  squash => \A i, j \in DOMAIN modules :
              /\ modules[i].kind = "FROM" /\ modules[j].kind = "FROM"
              /\ modules[i].title = modules[j].title
              => i = j

(***************************************************************************)
(* No name is listed twice in one "from" module, however many statements   *)
(* were combined in it.                                                    *)
(***************************************************************************)
FromNamesUnique ==
  \A i \in DOMAIN modules :
    modules[i].kind = "FROM" => NoRepeats(modules[i].imports)

(***************************************************************************)
(* The duplicate check of import statements works for the name it is made  *)
(* for: the first name of an "import" module is in no earlier one.         *)
(***************************************************************************)
FirstNameIsNew ==
  \A i, j \in DOMAIN modules :
    modules[i].kind = "IMPORT" /\ modules[j].kind = "IMPORT" /\ i < j
    => Head(modules[j].imports) \notin Range(modules[i].imports)

(***************************************************************************)
(* What the three duplicate checks together keep out of the list: a second *)
(* entry for a library, a second mention of a name in it, and an import    *)
(* statement begun with a module that is listed.                           *)
(***************************************************************************)
NothingTwice == OneEntryPerLibrary /\ FromNamesUnique /\ FirstNameIsNew

(***************************************************************************)
(* The precondition of the printer, whose loops run to imports.len - 1 in  *)
(* unsigned arithmetic: no module of the list is without imports.          *)
(***************************************************************************)
NothingEmpty == \A i \in DOMAIN modules : modules[i].imports # <<>>

(***************************************************************************)
(* The list keeps the order of the file, and no module claims a line that  *)
(* was not read: line_in_file never decreases along the list.              *)
(***************************************************************************)
LinesInOrder ==
  /\ \A i, j \in DOMAIN modules : i < j => modules[i].line <= modules[j].line
  /\ \A i \in DOMAIN modules : modules[i].line \in 1 .. line_counter

(***************************************************************************)
(* A file whose lines all end in a newline that fits in the buffer.        *)
(***************************************************************************)
FitsBuffer(f) ==
  \A i \in 1 .. Len(f) : \E j \in i .. (i + BufSize - 2) : j <= Len(f) /\ f[j] = NL

(***************************************************************************)
(* "error with token's row, column and message" (csort.c:359): in a file   *)
(* of complete lines, an error names the line of the token it is about,    *)
(* although the next line may be in the buffer by then; 0 when the file    *)
(* has ended.                                                              *)
(***************************************************************************)
LineOfToken ==
  LET read == Cardinality({i \in 1 .. off : file[i] = NL})
  IN  IF tok.type = "end" THEN 0
      ELSE IF tok.type \in {"newline", "comment"} /\ buf # <<>> THEN read - 1 ELSE read

PanicNamesItsLine == pc = "panic" /\ FitsBuffer(file) => tok.line = LineOfToken

(***************************************************************************)
(* The length CSort_inc_buff computes is too large after skipped spaces,   *)
(* and the scanner has no other bound: what stops it is the newline.  For  *)
(* a file of complete lines the view never starts past the newline of the  *)
(* current line, so no scan leaves the string.                             *)
(***************************************************************************)
ViewBeforeNewline ==
  FitsBuffer(file) /\ buf # <<>> =>
    \E i \in buf_view.at .. Len(buf) : i < ViewEnd /\ buf[i] = NL

(***************************************************************************)
(* How far a view may reach past the string in any file: by no more than   *)
(* the spaces of the line that were skipped before a token, as long as the *)
(* scan started inside the array.                                          *)
(***************************************************************************)
OverrunOnlySkippedSpaces ==
  buf # <<>> /\ buf_view.at <= BufSize
    => ViewEnd - 1 - Len(buf)
         <= Cardinality({i \in 1 .. Len(buf) : i < buf_view.at /\ buf[i] = SP})

(***************************************************************************)
(* The parser stops, whatever the file holds, unless a part of the file    *)
(* that fills the buffer ends in a space (its last token is then an empty  *)
(* one that consumes nothing) or a scan leaves the array.                  *)
(***************************************************************************)
SpaceEndsBuffer == buf # <<>> /\ buf[Len(buf)] = SP
LeavesArray     == ViewEnd > BufSize + 1
Terminates ==
  []~SpaceEndsBuffer /\ []~LeavesArray => <>(pc \in Outcomes)

-----------------------------------------------------------------------------
(* What comments of the code say, and the code does not do                  *)

(***************************************************************************)
(* "parses import statement with with check for duplicate modules"         *)
(* (csort.c:618): no module is listed twice.                               *)
(***************************************************************************)
NoDuplicateModules ==
  \A i \in DOMAIN modules :
    modules[i].kind = "IMPORT" => NoRepeats(modules[i].imports)

-----------------------------------------------------------------------------
(***************************************************************************)
(* The collected list implements the abstract table of imports.            *)
(***************************************************************************)
Table == INSTANCE ImportTable WITH
  combine <- squash,
  table   <- [i \in DOMAIN modules |-> [kind    |-> modules[i].kind,
                                        title   |-> modules[i].title,
                                        imports |-> modules[i].imports]],
  open    <- pc \in Steps

ImplementsTable == Table!Spec
=============================================================================
