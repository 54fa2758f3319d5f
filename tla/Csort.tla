-------------------------------- MODULE Csort -------------------------------
(***************************************************************************)
(* A run of csort (main.c): it is configured, then sorts one file or the   *)
(* files of a directory (csort.c, Directory listing), one after another.   *)
(* What happens within a file is Parser's and Printer's; here it is sorted *)
(* or it ends the run.                                                     *)
(***************************************************************************)
EXTENDS Config

CONSTANTS
  Trees,      (* file systems: see TreeOK                                  *)
  Root,       (* the entry that argv[1] names                              *)
  PathMax,    (* characters of a path with its NUL: 1024 in the code       *)
  FdLimit     (* how many files and directories may be open                *)

(* Each entry has the directory it is in and its name there, for the root    *)
(* the path given; "opens" tells whether it may be opened.  No directory is   *)
(* in itself, however deep.                                                  *)
TreeOK(t) ==
  /\ Root \in DOMAIN t
  /\ \A e \in DOMAIN t :
       /\ t[e].kind \in {"directory", "file", "other", "missing"} /\ t[e].opens \in BOOLEAN
       /\ t[e].name \in CString
       /\ e = Root \/ (t[e].parent \in DOMAIN t /\ t[t[e].parent].kind = "directory")
  /\ \A below \in SUBSET (DOMAIN t \ {Root}) :
       below # {} => \E e \in below : t[e].parent \notin below

ASSUME CsortAssumption == FdLimit \in Nat /\ PathMax \in Nat /\ \A t \in Trees : TreeOK(t)

VARIABLES
  tree,
  dirs,       (* the calls of CSortPerformOnFileCallback(Recur) that are   *)
              (* active: their directory and what readdir has yet to yield *)
  fds,        (* how many files and directories are open                   *)
  handled,    (* the files sorted, in order                                *)
  unopened    (* directories that opendir failed for                       *)

walkVars == <<tree, dirs, fds, handled, unopened>>
vars     == <<configVars, walkVars>>

Path ==
  LET path[e \in DOMAIN tree] ==
        IF e = Root THEN tree[e].name
        ELSE path[tree[e].parent] \o <<Slash>> \o tree[e].name
  IN path

(* append_path *)
Fits(e) == Len(Path[e]) + 1 <= PathMax

(* CSortGetExtension: from the last dot of the whole path; nothing without a *)
(* dot, and none at all when the path begins with its only one.              *)
Dots(path) == {i \in DOMAIN path : path[i] = Dot}
Extension(path) ==
  IF Dots(path) = {} THEN <<>>
  ELSE SubSeq(path, CHOOSE i \in Dots(path) : \A j \in Dots(path) : j <= i, Len(path))
HasExtension(path) == Dots(path) # {1}

(* CSortHandlePyFile calls back only for these.                              *)
Selected(e) ==
  HasExtension(Path[e]) /\ FindStrList(conf.file_exts, Extension(Path[e]))

Top  == dirs[Len(dirs)]
Back == SubSeq(dirs, 1, Len(dirs) - 1)
Children(d) == {e \in DOMAIN tree : e # Root /\ tree[e].parent = d}

WalkInit ==
  /\ tree \in Trees
  /\ dirs = <<>> /\ fds = 0 /\ handled = <<>> /\ unopened = {}

(* readdir yields e next.                                                    *)
Reading(e) == status = "walking" /\ dirs # <<>> /\ e \in Top.unread
After(e) == Append(Back, [directory |-> Top.directory, unread |-> Top.unread \ {e}])

(* The call of the callback's caller for directory d: opendir fails and it   *)
(* returns to its caller, or another directory is open.                      *)
PerformOnDirectory(d, callers) ==
  /\ IF tree[d].opens /\ fds < FdLimit
     THEN /\ dirs' = Append(callers, [directory |-> d, unread |-> Children(d)])
          /\ fds' = fds + 1
          /\ UNCHANGED unopened
     ELSE /\ dirs' = callers /\ unopened' = unopened \cup {d}
          /\ UNCHANGED fds
  /\ UNCHANGED handled

(* CSortEntity_mk, _do and _deinit, after which the run is at "next".  The   *)
(* input file is not closed.                                                 *)
HandleFile(e, next) ==
  /\ IF tree[e].opens /\ fds < FdLimit
     THEN /\ fds' = fds + 1
          /\ \/ handled' = Append(handled, e) /\ status' = next /\ UNCHANGED lua
             \/ status' = "panicked" /\ lua' = Closed(lua) /\ UNCHANGED handled
             \/ status' = "starved" /\ UNCHANGED <<handled, lua>>
     ELSE status' = "died" /\ UNCHANGED <<fds, handled, lua>>
  /\ UNCHANGED unopened

-----------------------------------------------------------------------------
(* main once it is configured: is_directory, then one file or a directory.   *)
PathMissing ==
  /\ status = "configured" /\ tree[Root].kind = "missing"
  /\ lua' = Closed(lua) /\ status' = "no file"
  /\ UNCHANGED <<script, argv, conf, arg, walkVars>>

OneFile ==
  /\ status = "configured" /\ tree[Root].kind \in {"file", "other"}
  /\ HandleFile(Root, "walking")
  /\ UNCHANGED <<script, argv, conf, arg, tree, dirs>>

Directory ==
  /\ status = "configured" /\ tree[Root].kind = "directory"
  /\ PerformOnDirectory(Root, <<>>)
  /\ status' = "walking"
  /\ UNCHANGED <<script, argv, conf, arg, lua, tree>>

-----------------------------------------------------------------------------
(* The loop over a directory: what is passed over, and why.                  *)
SkippedByPath(e) == FindStrList(conf.skip_directories, Path[e])
Skipped(e) == FindStrList(conf.skip_directories, tree[e].name)

PassedOver(e) ==
  /\ tree[e].kind = "file" => ~Fits(e) \/ ~Selected(e)
  /\ tree[e].kind = "directory" => ~conf.recursive_apply \/ ~Fits(e) \/ Skipped(e)

PassOver(e) ==
  /\ Reading(e) /\ PassedOver(e)
  /\ dirs' = After(e)
  /\ UNCHANGED <<configVars, tree, fds, handled, unopened>>

CallBack(e) ==
  /\ Reading(e) /\ tree[e].kind = "file" /\ ~PassedOver(e)
  /\ dirs' = After(e)
  /\ HandleFile(e, "walking")
  /\ UNCHANGED <<script, argv, conf, arg, tree>>

Descend(e) ==
  /\ Reading(e) /\ tree[e].kind = "directory" /\ ~PassedOver(e)
  /\ PerformOnDirectory(e, After(e))
  /\ UNCHANGED <<configVars, tree>>

LeftOpen(n) == n
ClosedTwice(n) == n - 2
ClosedDir(n) == n - 1

EndOfDirectory ==
  /\ status = "walking" /\ dirs # <<>> /\ Top.unread = {}
  /\ dirs' = Back /\ fds' = ClosedDir(fds)
  /\ UNCHANGED <<configVars, tree, handled, unopened>>

(* CSort_deinit, and the end.                                                *)
Finish ==
  /\ status = "walking" /\ dirs = <<>>
  /\ lua' = Closed(lua) /\ status' = "done"
  /\ UNCHANGED <<script, argv, conf, arg, walkVars>>

Exited == status \in Ended /\ UNCHANGED vars

Next ==
  \/ ConfigNext /\ UNCHANGED walkVars
  \/ PathMissing \/ OneFile \/ Directory
  \/ \E e \in DOMAIN tree : PassOver(e) \/ CallBack(e) \/ Descend(e)
  \/ EndOfDirectory \/ Finish \/ Exited

Spec == Init /\ WalkInit /\ [][Next]_vars

-----------------------------------------------------------------------------
(* Properties                                                               *)

TypeOK ==
  /\ arg \in 0 .. (Len(argv) + 1)
  /\ lua \in {"none", "open", "closed", "closed twice"}
  /\ status \in {"config", "arguments", "configured", "walking"} \cup Ended
  /\ DOMAIN conf = DOMAIN Defaults
  /\ \A i \in DOMAIN dirs : dirs[i].unread \subseteq Children(dirs[i].directory)
  /\ fds \in 0 .. FdLimit
  /\ ToSet(handled) \cup unopened \subseteq DOMAIN tree

(* The directories between an entry and the root, both left out.             *)
Between ==
  LET above[e \in DOMAIN tree] ==
        IF e = Root \/ tree[e].parent = Root THEN {}
        ELSE {tree[e].parent} \cup above[tree[e].parent]
  IN above

(* What .csortconfig and config.h list: the extension of a file is what its  *)
(* own name has from its last dot on; a name that begins with its only dot   *)
(* has none.  A directory is skipped by its own name.                        *)
HasOwnExtension(e) == Dots(tree[e].name) \ {1} # {}
OfListedFormat(e) == HasOwnExtension(e) /\ Extension(tree[e].name) \in ToSet(conf.file_exts)
ToBeSkipped(d) == tree[d].name \in ToSet(conf.skip_directories)

(* The files of a listed format that lie where a run may go: without --recur *)
(* in the directory itself, with it below no directory that is to be skipped *)
(* or cannot be read.                                                        *)
Wanted(e) ==
  /\ e # Root /\ tree[e].kind = "file" /\ Fits(e) /\ OfListedFormat(e)
  /\ Root \notin unopened
  /\ conf.recursive_apply \/ Between[e] = {}
  /\ \A d \in Between[e] : d \notin unopened /\ Fits(d) /\ ~ToBeSkipped(d)

(***************************************************************************)
(* What a run should sort of a directory.                                  *)
(*                                                                         *)
(* Names that differ from listed ones by more than what follows: no        *)
(* extension, and no directory on the way, only begins with a listed one,  *)
(* and what has no extension is not below a dot that a listed one begins   *)
(* at.  The names listed do not begin with each other either (Apart).      *)
(***************************************************************************)
Begins(list, text) == \E i \in DOMAIN list : IsPrefix(list[i], text)
Distinct(list, name) == Begins(list, name) => name \in ToSet(list)

Unmistakable(e) ==
  /\ IF HasOwnExtension(e) THEN Distinct(conf.file_exts, Extension(tree[e].name))
     ELSE \A i \in Dots(Path[e]) : ~Begins(conf.file_exts, SubSeq(Path[e], i, Len(Path[e])))
  /\ \A d \in Between[e] : Distinct(conf.skip_directories, tree[d].name)

Searchable ==
  /\ Apart(conf.file_exts) /\ Apart(conf.skip_directories)
  /\ <<>> \notin ToSet(conf.file_exts)

(***************************************************************************)
(* A run over a directory sorts no file twice and none that is not wanted, *)
(* also when one of the files ends it; a run that gets through has sorted  *)
(* all that are wanted: of the files whose names cannot be mistaken, when  *)
(* the lists are ones that a search is good for.                           *)
(***************************************************************************)
VisitsExactly ==
  tree[Root].kind = "directory" =>
    /\ IsInjective(handled)
    /\ Searchable => \A e \in DOMAIN tree \ {Root} : Unmistakable(e) =>
         /\ e \in ToSet(handled) => Wanted(e)
         /\ status = "done" /\ Wanted(e) => e \in ToSet(handled)

(***************************************************************************)
(* "enable on these file formats" and "skip these directories"             *)
(* (.csortconfig:12, 15): a run that gets through has sorted the files of  *)
(* the formats listed, outside the directories listed, and no others,      *)
(* whatever the names.                                                     *)
(***************************************************************************)
WalkAsListed ==
  status = "done" /\ tree[Root].kind = "directory" =>
    ToSet(handled) = {e \in DOMAIN tree : Wanted(e)}

(***************************************************************************)
(* A run never has more descriptors open than the directories it is in and *)
(* the files it has sorted: it runs out of them only with that many.       *)
(***************************************************************************)
DescriptorsSuffice ==
  /\ status = "walking" => fds = Len(dirs) + Len(handled)
  /\ status = "died" /\ (\A e \in DOMAIN tree : tree[e].opens) =>
       Len(dirs) + Len(handled) >= FdLimit
=============================================================================
