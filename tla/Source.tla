------------------------------- MODULE Source -------------------------------
(***************************************************************************)
(* What the collected imports have to do with the Python program that was  *)
(* read.  A program is a text together with its import statements, each    *)
(* given by where its parts are in the text: nothing is said of how the    *)
(* text was produced, so the layout of a line (spaces, comments) is any    *)
(* layout.  A program is covered when its statements are written in the    *)
(* part of Python's import syntax csort's grammar has: a list of plain     *)
(* modules, or a list of plain names of one library, on one line, at the   *)
(* start of the line, possibly followed by a comment.  Other programs may  *)
(* be read too: the properties of the list in Parser are checked on them.  *)
(***************************************************************************)
EXTENDS Parser

CONSTANT Programs   (* the programs that may be read                        *)

VARIABLE program

(* The parts of a statement: the first character of its line, the library   *)
(* (of a "from"), the import keyword, the names, and the newline.           *)
Position      == Nat \ {0}
PyStatement   == [kind : {"import", "from"}, start : Position, title : Position,
                  import : Position, names : Seq(Position), end : Position]
PythonProgram == [text : Seq(Atom), statements : Seq(PyStatement)]

ASSUME SourceAssumption == Programs \subseteq PythonProgram

-----------------------------------------------------------------------------
SourceInit == program \in Programs /\ file = program.text /\ Init
SourceNext == Next /\ UNCHANGED program
SourceSpec == SourceInit /\ [][SourceNext]_<<vars, program>> /\ WF_<<vars, program>>(SourceNext)

-----------------------------------------------------------------------------
(* The programs csort's grammar covers                                      *)

(* Nothing but spaces between two places of the text.                       *)
Spaces(text, i, j) == \A k \in (i + 1) .. (j - 1) : text[k] = SP
Apart(text, i, j)  == i + 1 < j /\ Spaces(text, i, j)

(* A comma, and nothing else but spaces, between two places of the text.    *)
CommaAt(text, c, i, j) ==
  /\ c \in (i + 1) .. (j - 1) /\ text[c] = COMMA
  /\ Spaces(text, i, c) /\ Spaces(text, c, j)

(* After place i the line is over at c, but for a comment.  (A comment that *)
(* is attached to a word would swallow it.)                                 *)
OverAt(text, c, i, end) ==
  /\ c \in (i + 1) .. end /\ Spaces(text, i, c)
  /\ \/ text[c] = NL
     \/ text[c] = HASH /\ i + 1 < c

IsLine(text, start, end) ==
  /\ end \in 1 .. Len(text) /\ start \in 1 .. end
  /\ start = 1 \/ text[start - 1] = NL
  /\ text[end] = NL
  /\ \A k \in start .. (end - 1) : text[k] # NL

NamesListed(text, s) ==
  LET n == Len(s.names)
  IN  /\ n > 0
      /\ \A x \in 1 .. n : s.names[x] \in s.start .. s.end /\ text[s.names[x]] \in Words
      /\ \A x \in 1 .. (n - 1) :
           \E c \in s.start .. s.end : CommaAt(text, c, s.names[x], s.names[x + 1])
      /\ \E c \in s.start .. s.end : OverAt(text, c, s.names[n], s.end)

ImportWritten(text, s) == text[s.start] = IMPORT /\ s.import = s.start

FromWritten(text, s) ==
  /\ text[s.start] = FROM
  /\ s.title \in s.start .. s.end /\ text[s.title] \in Words /\ Apart(text, s.start, s.title)
  /\ s.import \in s.start .. s.end /\ text[s.import] = IMPORT /\ Apart(text, s.title, s.import)

IsStatement(text, s) ==
  /\ IsLine(text, s.start, s.end)
  /\ NamesListed(text, s)
  /\ IF s.kind = "import" THEN ImportWritten(text, s) ELSE FromWritten(text, s)
  /\ Apart(text, s.import, s.names[1])

(***************************************************************************)
(* A keyword that stands for itself: no word goes on after it, and it is   *)
(* not a "from" in the middle of a line with a space after it, which the   *)
(* scanner takes for part of a longer word (EndsToken).                    *)
(***************************************************************************)
Keyword(text, k) ==
  /\ text[k] \in {FROM, IMPORT}
  /\ k < Len(text) /\ text[k + 1] \in Delimiter
  /\ text[k] = FROM /\ text[k + 1] = SP => k = 1 \/ text[k - 1] = NL

Commented(text, k) == \E h \in 1 .. (k - 1) : text[h] = HASH /\ \A j \in h .. k : text[j] # NL

Covered(p) ==
  /\ FitsBuffer(p.text)
  /\ \A i \in DOMAIN p.statements : IsStatement(p.text, p.statements[i])
  /\ \A i, j \in DOMAIN p.statements :
       i < j => p.statements[i].end < p.statements[j].start
  /\ \A k \in 1 .. Len(p.text) :
       Keyword(p.text, k) =>
         \/ Commented(p.text, k)
         \/ \E i \in DOMAIN p.statements :
              k \in p.statements[i].start .. p.statements[i].end

-----------------------------------------------------------------------------
(* What a program imports, read off its statements                          *)

statements == program.statements

ImportStatements == {i \in DOMAIN statements : statements[i].kind = "import"}
FromStatements   == {i \in DOMAIN statements : statements[i].kind = "from"}

NameOf(i, x) == <<program.text[statements[i].names[x]]>>
NamesOf(i)   == {NameOf(i, x) : x \in DOMAIN statements[i].names}
TitleOf(i)   == <<program.text[statements[i].title]>>

ImportedModules == UNION {NamesOf(i) : i \in ImportStatements}
ImportedFrom    == UNION {{TitleOf(i)} \X NamesOf(i) : i \in FromStatements}

(* What the list names.                                                     *)
ListedModules == UNION {Range(modules[n].imports) :
                          n \in {m \in DOMAIN modules : modules[m].kind = "IMPORT"}}
ListedFrom    == UNION {{modules[n].title} \X Range(modules[n].imports) :
                          n \in {m \in DOMAIN modules : modules[m].kind = "FROM"}}

(***************************************************************************)
(* The statements that begin something: an import statement names a module *)
(* no earlier one names; a "from" statement, when libraries are combined,  *)
(* is the first for its library.                                           *)
(***************************************************************************)
Leading ==
  {i \in ImportStatements :
     \E w \in NamesOf(i) : \A j \in ImportStatements : j < i => w \notin NamesOf(j)}
  \cup {i \in FromStatements :
          squash => \A j \in FromStatements : j < i => TitleOf(j) # TitleOf(i)}

(* Entry n of the list is about the statement "origin" assigns to it.       *)
EntryOf(n, i) ==
  IF statements[i].kind = "import"
  THEN modules[n].kind = "IMPORT"
  ELSE modules[n].kind = "FROM" /\ modules[n].title = TitleOf(i)

InProgramOrder(origin) ==
  /\ \A n \in DOMAIN modules : EntryOf(n, origin[n])
  /\ \A m, n \in DOMAIN modules : m < n => origin[m] < origin[n]
  /\ Leading = Range(origin)

(* The line a statement is on.                                              *)
LineOf(i) == Cardinality({k \in 1 .. statements[i].end : program.text[k] = NL})

-----------------------------------------------------------------------------
(***************************************************************************)
(* Nothing is lost and nothing is invented: a covered program is never     *)
(* rejected, and when it is read, the list names the modules the program   *)
(* imports, and for each library the names it takes from it, and no        *)
(* others.  The list has one entry for each statement that begins          *)
(* something, in the order of the program: with squashing, for the first   *)
(* statement about each library, without it, for every "from" statement.   *)
(***************************************************************************)
NothingLostOrInvented ==
  /\ pc = "panic" => ~Covered(program)
  /\ pc = "done" /\ Covered(program) =>
       /\ ListedModules = ImportedModules
       /\ ListedFrom = ImportedFrom
       /\ \E origin \in [DOMAIN modules -> DOMAIN statements] : InProgramOrder(origin)

(***************************************************************************)
(* get_imports_start_line: the line before the one recorded for the first  *)
(* entry is where the program's imports start, unless the statement is on  *)
(* the last line (nothing follows that the terminating newline could read).*)
(***************************************************************************)
StartLineKnown ==
  pc = "done" /\ Covered(program) /\ statements # <<>> =>
    /\ modules # <<>>
    /\ modules[1].line - 1 =
         IF statements[1].end = Len(program.text) THEN LineOf(1) - 1 ELSE LineOf(1)
=============================================================================
