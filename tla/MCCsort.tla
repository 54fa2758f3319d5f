------------------------------ MODULE MCCsort -------------------------------
(***************************************************************************)
(* Instances of Csort for TLC.  One code stands for a word: only '.', '/'  *)
(* and what begins with what matter.                                       *)
(***************************************************************************)
EXTENDS Csort

Py == 112
PyC == <<Dot, Py, 99>>          (* ".pyc" *)
PyI == <<Dot, Py, 105>>         (* ".pyi" *)
PyExt == <<Dot, Py>>            (* ".py" *)
Build == <<98>>                 (* "build" *)
Build2 == <<98, 50>>            (* "build2" *)
Git == <<Dot, 103>>             (* ".git" *)
Dist == <<100>>                 (* "dist" *)
M == 109                        (* "m" *)

MCDefaultSkip == <<Build, Git>>
MCDefaultExts == <<PyExt>>

-----------------------------------------------------------------------------
(* Trees *)
Entry(parent, kind, name, opens) ==
  [parent |-> parent, kind |-> kind, name |-> name, opens |-> opens]
MCRoot == "root"
Top1 == Entry("root", "directory", <<114>>, TRUE)

(* r/m.py, r/build/m.py, r/s/m.pyc, r/s/build2/m.py, a link and a long name. *)
Nested ==
  [root |-> Top1,
   a |-> Entry("root", "file", <<M, Dot, Py>>, TRUE),
   b |-> Entry("root", "directory", Build, TRUE),
   c |-> Entry("b", "file", <<M, Dot, Py>>, TRUE),
   s |-> Entry("root", "directory", <<115>>, TRUE),
   d |-> Entry("s", "file", <<M, Dot, Py, 99>>, TRUE),
   e |-> Entry("s", "directory", Build2, TRUE),
   f |-> Entry("e", "file", <<M, Dot, Py>>, TRUE),
   g |-> Entry("root", "other", <<M, Dot, Py>>, TRUE)]

(* r/m.py, r/README, r/x.py/README, and an unreadable directory.             *)
Dotted ==
  [root |-> Top1,
   a |-> Entry("root", "file", <<M, Dot, Py>>, TRUE),
   b |-> Entry("root", "file", <<M>>, TRUE),
   c |-> Entry("root", "directory", <<120, Dot, Py>>, TRUE),
   d |-> Entry("c", "file", <<M>>, TRUE),
   e |-> Entry("root", "directory", <<117>>, FALSE),
   f |-> Entry("e", "file", <<M, Dot, Py>>, TRUE)]

(* ./m, whose path begins with its only dot, ./m.py, and names too long.     *)
Long ==
  [root |-> Entry("root", "directory", <<Dot>>, TRUE),
   a |-> Entry("root", "file", <<M>>, TRUE),
   b |-> Entry("root", "file", <<M, Dot, Py>>, TRUE),
   c |-> Entry("root", "file", <<M, M, M, M, M, M, M, M, Dot, Py>>, TRUE),
   d |-> Entry("root", "directory", <<M, M, M, M, M, M, M, M, M, M>>, TRUE),
   e |-> Entry("d", "file", <<M, Dot, Py>>, TRUE),
   f |-> Entry("root", "directory", Git, TRUE),
   g |-> Entry("f", "file", <<M, Dot, Py>>, TRUE)]

(* r/m.py, r/m.pyc, r/x.py/README and r/build2/m.py.                          *)
Listed ==
  [root |-> Top1,
   a |-> Entry("root", "file", <<M, Dot, Py>>, TRUE),
   b |-> Entry("root", "file", <<M, Dot, Py, 99>>, TRUE),
   c |-> Entry("root", "directory", <<120, Dot, Py>>, TRUE),
   d |-> Entry("c", "file", <<M>>, TRUE),
   e |-> Entry("root", "directory", Build2, TRUE),
   f |-> Entry("e", "file", <<M, Dot, Py>>, TRUE)]
ListedTree == {Listed}

(* Roots that are no directory. *)
Single(kind, opens) == [root |-> Entry("root", kind, <<M, Dot, Py>>, opens)]

MCTrees ==
  {Nested, Dotted, Long} \cup {Single("missing", FALSE)}
  \cup {Single(k, o) : k \in {"file", "other"}, o \in BOOLEAN}
FileTree == {Single("file", TRUE)}

-----------------------------------------------------------------------------
(* Scripts *)
CONSTANTS None, NoTable, WrongType

Texts(list) == [i \in DOMAIN list |-> [type |-> "string", text |-> list[i]]]
Script(exts, skip) ==
  [runs |-> TRUE, know_standard_library |-> <<>>,
   file_exts |-> Texts(exts), skip_directories |-> Texts(skip),
   squash_for_duplicate_library |-> TRUE, disable_wrapping |-> FALSE,
   wrap_after_n_imports |-> 6, import_on_each_wrap |-> 18, wrap_after_col |-> 160]
Fails == [Script(<<>>, <<>>) EXCEPT !.runs = FALSE]
Ordinary == Script(<<PyExt>>, <<Build, Git>>)

WrongTable   == [Ordinary EXCEPT !.skip_directories = NoTable]
WrongOption  == [Ordinary EXCEPT !.disable_wrapping = WrongType]
NotSquashing == [Ordinary EXCEPT !.squash_for_duplicate_library = FALSE]

(* One half and a negative number; what a u32 may hold.                     *)
OddNumbers == [Ordinary EXCEPT !.import_on_each_wrap = 1, !.wrap_after_n_imports = -4]
MCU32s == {0, 1, 3, 9, 80}

(* Entries that are no strings, before and after a list that is no table.   *)
Digit == [type |-> "number", text |-> <<49>>]
Truth == [type |-> "boolean", text |-> <<>>]
OddEntries ==
  {[Ordinary EXCEPT !.skip_directories = <<Digit>>],
   [Ordinary EXCEPT !.file_exts = <<Truth>>],
   [Ordinary EXCEPT !.know_standard_library = <<Digit>>, !.file_exts = NoTable],
   [WrongTable EXCEPT !.file_exts = <<Truth>>]}

WalkScripts == {None, Ordinary, Script(<<PyI, PyExt>>, <<Git, Build2>>), Script(<<PyC>>, <<>>)}
MCScripts ==
  WalkScripts \cup OddEntries
  \cup {Fails, WrongTable, WrongOption, NotSquashing, OddNumbers,
        Script(<<PyI, PyC>>, <<Dist, Build, Git>>)}
PrefixScripts == {Script(<<PyC, PyI, PyExt>>, <<>>)}
ListedScripts == {Ordinary}
UsageScripts  == {NotSquashing}
NoScripts     == {None}

-----------------------------------------------------------------------------
(* Command lines: the path, then up to three options.                          *)
Argument(is) == [is |-> is, value |-> 0]
Number3 == [is |-> "number", value |-> 3]
Flags == {Argument(f) : f \in {"show", "recur", "disable_wrapping", "no_squash"}}
Arguments == Flags \cup {Argument("wrap_after"), Argument("help"), Number3}

WalkCommands == {<<Argument("path")>>, <<Argument("path"), Argument("recur")>>}
MCCommands ==
  {<<>>, <<Argument("help")>>}
  \cup {<<Argument("path")>> \o options : options \in UNION {[1 .. n -> Arguments] : n \in 0 .. 3}}
ListedCommands == {<<Argument("path"), Argument("recur")>>}
UsageCommands == {<<Argument("path"), Argument("no_squash"), Argument("wrap_after"), Number3>>}

(***************************************************************************)
(* Every command line and every script for a single file, and every tree   *)
(* for the command lines and scripts the walk depends on.                  *)
(***************************************************************************)
MCInit ==
  /\ Init /\ WalkInit
  /\ tree \in FileTree \/ (script \in WalkScripts /\ argv \in WalkCommands)
MCSpec == MCInit /\ [][Next]_vars
=============================================================================
