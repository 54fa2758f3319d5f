----------------------------- MODULE CsortProofs ----------------------------
(***************************************************************************)
(* Proofs about a run, for every file system, configuration, command line  *)
(* and number of descriptors.                                              *)
(***************************************************************************)
EXTENDS Csort, ListProofs

(* What a replaced last entry, and an entry more or less, do to the length. *)
LEMMA Lengths ==
  ASSUME NEW S, NEW s \in Seq(S), NEW x \in S
  PROVE  /\ Append(s, x) \in Seq(S) /\ Len(Append(s, x)) = Len(s) + 1
         /\ s # <<>> => /\ s[Len(s)] \in S
                        /\ SubSeq(s, 1, Len(s) - 1) \in Seq(S)
                        /\ Len(SubSeq(s, 1, Len(s) - 1)) = Len(s) - 1
<1>1. Append(s, x) \in Seq(S) /\ Len(Append(s, x)) = Len(s) + 1
  OBVIOUS
<1>2. ASSUME s # <<>> PROVE Len(s) \in 1 .. Len(s) /\ Len(s) - 1 \in Nat
  BY <1>2
<1>3. ASSUME s # <<>>
      PROVE  SubSeq(s, 1, Len(s) - 1) \in Seq(S) /\ Len(SubSeq(s, 1, Len(s) - 1)) = Len(s) - 1
  <2>1. \A n \in Nat : n <= Len(s) => SubSeq(s, 1, n) = [i \in 1 .. n |-> s[i]]
    OBVIOUS
  <2>2. \A n \in Nat : n <= Len(s) => [i \in 1 .. n |-> s[i]] \in Seq(S)
    OBVIOUS
  <2>3. Len(s) - 1 \in Nat /\ Len(s) - 1 <= Len(s)
    BY <1>2, <1>3
  <2> DEFINE n == Len(s) - 1
  <2>4. SubSeq(s, 1, n) = [i \in 1 .. n |-> s[i]] /\ [i \in 1 .. n |-> s[i]] \in Seq(S)
    <3> HIDE DEF n
    <3>1. n \in Nat /\ n <= Len(s)
      BY <2>3 DEF n
    <3>2. QED BY <2>1, <2>2, <3>1
  <2>5. n \in Nat
    BY <2>3
  <2> HIDE DEF n
  <2>6. Len(SubSeq(s, 1, n)) = n /\ SubSeq(s, 1, n) \in Seq(S)
    BY <2>4, <2>5
  <2>7. QED BY <2>6 DEF n
<1>4. s # <<>> => s[Len(s)] \in S
  BY <1>2
<1>5. QED BY <1>1, <1>3, <1>4

-----------------------------------------------------------------------------
TreeEntries == DOMAIN tree
Calls == [directory : TreeEntries, unread : SUBSET TreeEntries]

Running == {"config", "arguments", "configured"}

(* Lua is open from the time the script has run until CSort_deinit.          *)
LuaInv ==
  /\ status = "config" => lua = "none"
  /\ status \in {"arguments", "configured", "walking"} =>
       lua = IF script = NoScript THEN "none" ELSE "open"
  /\ status \in {"arguments", "configured", "walking"} /\ script # NoScript => script.runs = TRUE

(* Each open descriptor belongs to a directory being read or a file sorted.  *)
FdInv ==
  /\ dirs \in Seq(Calls) /\ handled \in Seq(TreeEntries) /\ fds \in Nat
  /\ status \in Running => dirs = <<>> /\ handled = <<>> /\ fds = 0

RunInv == Root \in TreeEntries /\ LuaInv /\ LuaReleased /\ FdInv /\ DescriptorsSuffice

(***************************************************************************)
(* Opening a directory, and its call returning at once when that fails,    *)
(* account for the descriptor.                                             *)
(***************************************************************************)
LEMMA PerformCounts ==
  ASSUME NEW d \in TreeEntries, NEW callers \in Seq(Calls),
         fds \in Nat, handled \in Seq(TreeEntries), fds = Len(callers) + Len(handled),
         PerformOnDirectory(d, callers), UNCHANGED tree
  PROVE  /\ dirs' \in Seq(Calls) /\ handled' = handled
         /\ fds' \in Nat /\ fds' = Len(dirs') + Len(handled')
<1>1. CASE tree[d].opens /\ fds < FdLimit
  <2> DEFINE call == [directory |-> d, unread |-> Children(d)]
  <2>1. call \in Calls
    BY DEF Calls, Children, TreeEntries
  <2>2. dirs' = Append(callers, call) /\ fds' = fds + 1 /\ handled' = handled
    BY <1>1 DEF PerformOnDirectory
  <2> HIDE DEF call
  <2>3. dirs' \in Seq(Calls) /\ Len(dirs') = Len(callers) + 1
    BY <2>1, <2>2, Lengths
  <2>4. Len(callers) \in Nat /\ Len(handled) \in Nat
    OBVIOUS
  <2>5. QED BY <2>2, <2>3, <2>4
<1>2. CASE ~(tree[d].opens /\ fds < FdLimit)
  <2>1. dirs' = callers /\ fds' = fds /\ handled' = handled
    BY <1>2 DEF PerformOnDirectory
  <2>2. QED BY <2>1
<1>3. QED BY <1>1, <1>2

(* A file that is sorted keeps its descriptor.                               *)
LEMMA HandleCounts ==
  ASSUME NEW e \in TreeEntries, FdLimit \in Nat, fds \in Nat, handled \in Seq(TreeEntries),
         dirs' \in Seq(Calls), fds = Len(dirs') + Len(handled), UNCHANGED tree,
         HandleFile(e, "walking")
  PROVE  /\ handled' \in Seq(TreeEntries) /\ fds' \in Nat
         /\ status' \in {"walking", "panicked", "starved", "died"}
         /\ status' = "walking" => fds' = Len(dirs') + Len(handled') /\ lua' = lua
         /\ status' = "panicked" => lua' = Closed(lua)
         /\ status' = "died" /\ (\A x \in TreeEntries : tree[x].opens) =>
              Len(dirs') + Len(handled') >= FdLimit
<1>0. Len(dirs') \in Nat /\ Len(handled) \in Nat
  OBVIOUS
<1>1. CASE tree[e].opens /\ fds < FdLimit
  <2>1. /\ fds' = fds + 1
        /\ \/ handled' = Append(handled, e) /\ status' = "walking" /\ lua' = lua
           \/ status' = "panicked" /\ lua' = Closed(lua) /\ handled' = handled
           \/ status' = "starved" /\ handled' = handled
    BY <1>1 DEF HandleFile
  <2>2. Append(handled, e) \in Seq(TreeEntries) /\ Len(Append(handled, e)) = Len(handled) + 1
    BY Lengths
  <2>3. CASE handled' = Append(handled, e) /\ status' = "walking" /\ lua' = lua
    BY <1>0, <2>1, <2>2, <2>3
  <2>4. CASE status' = "panicked" /\ lua' = Closed(lua) /\ handled' = handled
    BY <2>1, <2>4
  <2>5. CASE status' = "starved" /\ handled' = handled
    BY <2>1, <2>5
  <2>6. QED BY <2>1, <2>3, <2>4, <2>5
<1>2. CASE ~(tree[e].opens /\ fds < FdLimit)
  <2>1. status' = "died" /\ fds' = fds /\ handled' = handled
    BY <1>2 DEF HandleFile
  <2>2. (\A x \in TreeEntries : tree[x].opens) => fds >= FdLimit
    BY <1>2
  <2>3. QED BY <1>0, <2>1, <2>2
<1>3. QED BY <1>1, <1>2

(* Reading an entry keeps the number of directories being read.              *)
LEMMA ReadingCounts ==
  ASSUME FdInv, NEW e \in TreeEntries, Reading(e)
  PROVE  After(e) \in Seq(Calls) /\ Len(After(e)) = Len(dirs)
<1>1. dirs \in Seq(Calls) /\ dirs # <<>> /\ Len(dirs) \in Nat
  BY DEF FdInv, Reading
<1>2. Top \in Calls /\ Back \in Seq(Calls) /\ Len(Back) = Len(dirs) - 1
  <2>1. PICK c : c \in Calls
    BY <1>1
  <2>2. QED BY <1>1, <2>1, Lengths DEF Top, Back
<1> DEFINE call == [directory |-> Top.directory, unread |-> Top.unread \ {e}]
<1>3. call \in Calls
  BY <1>2 DEF Calls
<1>4. After(e) = Append(Back, call)
  BY DEF After
<1> HIDE DEF call
<1>5. After(e) \in Seq(Calls) /\ Len(After(e)) = Len(Back) + 1
  BY <1>2, <1>3, <1>4, Lengths
<1>6. QED BY <1>1, <1>2, <1>5

-----------------------------------------------------------------------------
LEMMA ConfigStep ==
  ASSUME RunInv, ConfigNext, UNCHANGED walkVars
  PROVE  RunInv'
<1>1. UNCHANGED <<tree, dirs, fds, handled, unopened>> /\ TreeEntries' = TreeEntries /\ Calls' = Calls
  BY DEF walkVars, TreeEntries, Calls
<1>2. status \in {"config", "arguments"} /\ UNCHANGED script
  BY DEF ConfigNext, DefaultConfig, ScriptFails, ScriptIsWrong, EntryIsNoString, LoadConfig,
         Loading, Usage, TakePath, ParseFlag, ParseNumber, ParseFails, Configured
<1>3. status' \in Running \cup {"panicked", "aborted", "usage", "rejected"}
  BY <1>2 DEF ConfigNext, DefaultConfig, ScriptFails, ScriptIsWrong, EntryIsNoString,
         LoadConfig, Usage, TakePath, ParseFlag, ParseNumber, ParseFails, Configured, Running
<1>4. FdInv' /\ DescriptorsSuffice' /\ Root \in TreeEntries'
  BY <1>1, <1>2, <1>3 DEF RunInv, FdInv, DescriptorsSuffice, Running
<1>5. LuaInv' /\ LuaReleased'
  <2>1. CASE DefaultConfig
    BY <1>2, <2>1 DEF DefaultConfig, RunInv, LuaInv, LuaReleased
  <2>2. CASE ScriptFails
    BY <1>2, <2>2 DEF ScriptFails, Closed, RunInv, LuaInv, LuaReleased
  <2>3. CASE ScriptIsWrong
    BY <1>2, <2>3 DEF ScriptIsWrong, Loading, Closed, RunInv, LuaInv, LuaReleased
  <2>4. CASE LoadConfig \/ EntryIsNoString
    BY <1>2, <2>4 DEF LoadConfig, EntryIsNoString, Loading, RunInv, LuaInv, LuaReleased
  <2>5. CASE Usage \/ TakePath \/ ParseFlag \/ ParseNumber \/ ParseFails \/ Configured
    BY <1>2, <2>5 DEF Usage, TakePath, ParseFlag, ParseNumber, ParseFails, Configured,
       RunInv, LuaInv, LuaReleased
  <2>6. QED BY <2>1, <2>2, <2>3, <2>4, <2>5 DEF ConfigNext
<1>6. QED BY <1>4, <1>5 DEF RunInv

(* A file among those of a directory, or the only one.                       *)
LEMMA FileStep ==
  ASSUME RunInv, NEW e \in TreeEntries, status \in {"configured", "walking"},
         dirs' \in Seq(Calls), Len(dirs') = Len(dirs),
         HandleFile(e, "walking"), UNCHANGED <<script, tree>>
  PROVE  RunInv'
<1>1. FdLimit \in Nat
  BY CsortAssumption
<1>2. /\ fds \in Nat /\ handled \in Seq(TreeEntries) /\ fds = Len(dirs) + Len(handled)
      /\ TreeEntries' = TreeEntries /\ Calls' = Calls /\ tree' = tree
  BY DEF RunInv, FdInv, DescriptorsSuffice, Running, TreeEntries, Calls
<1>3. /\ handled' \in Seq(TreeEntries) /\ fds' \in Nat
      /\ status' \in {"walking", "panicked", "starved", "died"}
      /\ status' = "walking" => fds' = Len(dirs') + Len(handled') /\ lua' = lua
      /\ status' = "panicked" => lua' = Closed(lua)
      /\ status' = "died" /\ (\A x \in TreeEntries : tree[x].opens) =>
           Len(dirs') + Len(handled') >= FdLimit
  BY <1>1, <1>2, HandleCounts
<1>4. FdInv' /\ Root \in TreeEntries'
  BY <1>2, <1>3 DEF RunInv, FdInv, Running
<1>5. DescriptorsSuffice'
  BY <1>2, <1>3 DEF DescriptorsSuffice, TreeEntries
<1>6. /\ lua = IF script = NoScript THEN "none" ELSE "open"
      /\ script # NoScript => script.runs = TRUE
      /\ script' = script
  BY DEF RunInv, LuaInv
<1>7. LuaInv' /\ LuaReleased'
  BY <1>3, <1>6 DEF LuaInv, LuaReleased, Closed
<1>8. QED BY <1>2, <1>4, <1>5, <1>7 DEF RunInv

LEMMA WalkStep ==
  ASSUME RunInv, NEW e \in TreeEntries, PassOver(e) \/ CallBack(e) \/ Descend(e)
  PROVE  RunInv'
<1>1. /\ status = "walking" /\ Reading(e) /\ FdInv /\ fds = Len(dirs) + Len(handled)
      /\ After(e) \in Seq(Calls) /\ Len(After(e)) = Len(dirs)
      /\ handled \in Seq(TreeEntries) /\ fds \in Nat
  <2>1. FdInv /\ Reading(e)
    BY DEF PassOver, CallBack, Descend, RunInv
  <2>2. status = "walking"
    BY <2>1 DEF Reading
  <2>3. QED BY <2>1, <2>2, ReadingCounts DEF RunInv, FdInv, DescriptorsSuffice
<1>2. CASE PassOver(e)
  <2>1. dirs' = After(e) /\ UNCHANGED <<configVars, tree, fds, handled>>
    BY <1>2 DEF PassOver
  <2>2. TreeEntries' = TreeEntries /\ Calls' = Calls
    BY <2>1 DEF TreeEntries, Calls
  <2>3. QED
    BY <1>1, <2>1, <2>2
       DEF configVars, RunInv, FdInv, LuaInv, LuaReleased, DescriptorsSuffice, Running
<1>3. CASE CallBack(e)
  <2>1. dirs' = After(e) /\ HandleFile(e, "walking") /\ UNCHANGED <<script, tree>>
    BY <1>3 DEF CallBack
  <2>2. QED BY <1>1, <2>1, FileStep
<1>4. CASE Descend(e)
  <2>1. PerformOnDirectory(e, After(e)) /\ UNCHANGED <<configVars, tree>>
    BY <1>4 DEF Descend
  <2>2. /\ dirs' \in Seq(Calls) /\ handled' = handled
        /\ fds' \in Nat /\ fds' = Len(dirs') + Len(handled')
    BY <1>1, <2>1, PerformCounts
  <2>3. TreeEntries' = TreeEntries /\ Calls' = Calls
    BY <2>1 DEF TreeEntries, Calls
  <2>4. QED
    BY <1>1, <2>1, <2>2, <2>3
       DEF configVars, RunInv, FdInv, LuaInv, LuaReleased, DescriptorsSuffice, Running
<1>5. QED BY <1>2, <1>3, <1>4

LEMMA RunStep == ASSUME RunInv, [Next]_vars PROVE RunInv'
<1>1. CASE ConfigNext /\ UNCHANGED walkVars
  BY <1>1, ConfigStep
<1>2. CASE PathMissing
  <2>1. /\ status = "configured" /\ lua' = Closed(lua) /\ status' = "no file"
        /\ UNCHANGED <<script, tree, dirs, fds, handled>>
    BY <1>2 DEF PathMissing, walkVars
  <2>2. TreeEntries' = TreeEntries /\ Calls' = Calls
    BY <2>1 DEF TreeEntries, Calls
  <2>3. FdInv' /\ DescriptorsSuffice' /\ Root \in TreeEntries'
    BY <2>1, <2>2 DEF RunInv, FdInv, DescriptorsSuffice, Running
  <2>4. LuaInv' /\ LuaReleased'
    BY <2>1 DEF RunInv, LuaInv, LuaReleased, Closed
  <2>5. QED BY <2>3, <2>4 DEF RunInv
<1>3. CASE OneFile
  <2>1. /\ status = "configured" /\ HandleFile(Root, "walking") /\ UNCHANGED <<script, tree, dirs>>
    BY <1>3 DEF OneFile
  <2>2. Root \in TreeEntries /\ dirs' \in Seq(Calls) /\ Len(dirs') = Len(dirs)
    BY <2>1 DEF RunInv, FdInv
  <2>3. QED BY <2>1, <2>2, FileStep
<1>4. CASE Directory
  <2>1. /\ status = "configured" /\ status' = "walking" /\ PerformOnDirectory(Root, <<>>)
        /\ UNCHANGED <<script, lua, tree>> /\ Root \in TreeEntries
        /\ handled = <<>> /\ fds = 0
    BY <1>4 DEF Directory, RunInv, FdInv, Running
  <2> DEFINE none == <<>>
  <2>2. none \in Seq(Calls) /\ handled \in Seq(TreeEntries) /\ fds = Len(none) + Len(handled)
    BY <2>1
  <2>3. /\ dirs' \in Seq(Calls) /\ handled' = handled
        /\ fds' \in Nat /\ fds' = Len(dirs') + Len(handled')
    <3>1. PerformOnDirectory(Root, none) /\ fds \in Nat /\ UNCHANGED tree
      BY <2>1
    <3> HIDE DEF none
    <3>2. QED BY <2>1, <2>2, <3>1, PerformCounts
  <2>4. TreeEntries' = TreeEntries /\ Calls' = Calls
    BY <2>1 DEF TreeEntries, Calls
  <2>5. FdInv' /\ DescriptorsSuffice' /\ Root \in TreeEntries'
    BY <2>1, <2>2, <2>3, <2>4 DEF FdInv, DescriptorsSuffice, Running
  <2>6. LuaInv' /\ LuaReleased'
    BY <2>1 DEF RunInv, LuaInv, LuaReleased
  <2>7. QED BY <2>5, <2>6 DEF RunInv
<1>5. ASSUME NEW e \in DOMAIN tree, PassOver(e) \/ CallBack(e) \/ Descend(e) PROVE RunInv'
  BY <1>5, WalkStep DEF TreeEntries
<1>6. CASE EndOfDirectory
  <2>1. /\ status = "walking" /\ dirs # <<>> /\ dirs' = Back /\ fds' = fds - 1
        /\ UNCHANGED <<configVars, tree, handled>>
    BY <1>6 DEF EndOfDirectory, ClosedDir
  <2>2. TreeEntries' = TreeEntries /\ Calls' = Calls
    BY <2>1 DEF TreeEntries, Calls
  <2>3. dirs \in Seq(Calls) /\ handled \in Seq(TreeEntries) /\ fds = Len(dirs) + Len(handled)
    BY <2>1 DEF RunInv, FdInv, DescriptorsSuffice
  <2>4. Back \in Seq(Calls) /\ Len(Back) = Len(dirs) - 1 /\ Len(dirs) - 1 \in Nat
    <3>1. PICK c : c \in Calls
      BY <2>1, <2>3
    <3>2. QED BY <2>1, <2>3, <3>1, Lengths DEF Back
  <2>5. fds' = Len(dirs') + Len(handled') /\ fds' \in Nat
    BY <2>1, <2>3, <2>4
  <2>6. QED
    BY <2>1, <2>2, <2>3, <2>4, <2>5
       DEF configVars, RunInv, FdInv, LuaInv, LuaReleased, DescriptorsSuffice, Running
<1>7. CASE Finish
  <2>1. /\ status = "walking" /\ lua' = Closed(lua) /\ status' = "done"
        /\ UNCHANGED <<script, tree, dirs, fds, handled>>
    BY <1>7 DEF Finish, walkVars
  <2>2. TreeEntries' = TreeEntries /\ Calls' = Calls
    BY <2>1 DEF TreeEntries, Calls
  <2>3. FdInv' /\ DescriptorsSuffice' /\ Root \in TreeEntries'
    BY <2>1, <2>2 DEF RunInv, FdInv, DescriptorsSuffice, Running
  <2>4. LuaInv' /\ LuaReleased'
    BY <2>1 DEF RunInv, LuaInv, LuaReleased, Closed
  <2>5. QED BY <2>3, <2>4 DEF RunInv
<1>8. CASE UNCHANGED vars
  <2>1. TreeEntries' = TreeEntries /\ Calls' = Calls
    BY <1>8 DEF vars, walkVars, TreeEntries, Calls
  <2>2. QED
    BY <1>8, <2>1 DEF vars, configVars, walkVars, RunInv, FdInv, LuaInv, LuaReleased,
       DescriptorsSuffice, Running
<1>9. QED BY <1>1, <1>2, <1>3, <1>4, <1>5, <1>6, <1>7, <1>8 DEF Next, Exited

LEMMA RunStart == ASSUME Init, WalkInit PROVE RunInv
<1>1. Root \in TreeEntries
  BY CsortAssumption DEF WalkInit, TreeOK, TreeEntries
<1>2. dirs = <<>> /\ handled = <<>> /\ fds = 0 /\ lua = "none" /\ status = "config"
  BY DEF Init, WalkInit
<1>3. QED BY <1>1, <1>2 DEF RunInv, FdInv, LuaInv, LuaReleased, DescriptorsSuffice

THEOREM RunInvariant == Spec => []RunInv
<1>1. Init /\ WalkInit => RunInv
  BY RunStart
<1>2. RunInv /\ [Next]_vars => RunInv'
  BY RunStep
<1>3. QED BY <1>1, <1>2, PTL DEF Spec

(* A run dies for want of a descriptor only when the directories it is in   *)
(* and the files it has sorted take all of them (csort.c:318, 143, 170).    *)
THEOREM DescriptorsAccounted == Spec => []DescriptorsSuffice
<1>1. RunInv => DescriptorsSuffice
  BY DEF RunInv
<1>2. QED BY <1>1, RunInvariant, PTL

(* A run that ends through CSort_deinit leaves no Lua state open, and       *)
(* closes one twice only when the script fails.                             *)
THEOREM LuaAccounted == Spec => []LuaReleased
<1>1. RunInv => LuaReleased
  BY DEF RunInv
<1>2. QED BY <1>1, RunInvariant, PTL

-----------------------------------------------------------------------------
(* The options                                                              *)

Switchable == {"show", "recur", "disable_wrapping", "no_squash"}

(* How often the first n arguments name an option, the path left out.        *)
Named(option, n) == {i \in 2 .. n : argv[i].is = option}
Often(option, n) == Cardinality(Named(option, n))

LEMMA NamedNext ==
  ASSUME NEW option, NEW n \in Nat, n >= 1
  PROVE  /\ Often(option, n) \in Nat
         /\ Often(option, n + 1) = IF argv[n + 1].is = option
                                   THEN Often(option, n) + 1 ELSE Often(option, n)
<1>1. IsFiniteSet(Named(option, n))
  <2>1. IsFiniteSet(2 .. n)
    BY FS_Interval
  <2>2. Named(option, n) \subseteq 2 .. n
    BY DEF Named
  <2>3. QED BY <2>1, <2>2, FS_Subset
<1>2. Often(option, n) \in Nat
  BY <1>1, FS_CardinalityType DEF Often
<1>3. n + 1 \notin Named(option, n)
  BY DEF Named
<1>4. CASE argv[n + 1].is = option
  <2>1. Named(option, n + 1) = Named(option, n) \cup {n + 1}
    BY <1>4 DEF Named
  <2>2. QED BY <1>1, <1>2, <1>3, <1>4, <2>1, FS_AddElement DEF Often
<1>5. CASE argv[n + 1].is # option
  <2>1. Named(option, n + 1) = Named(option, n)
    BY <1>5 DEF Named
  <2>2. QED BY <1>2, <1>5, <2>1 DEF Often
<1>6. QED BY <1>4, <1>5

LEMMA NamedNone ==
  ASSUME NEW option, NEW n \in {0, 1}
  PROVE  Often(option, n) = 0
<1>1. Named(option, n) = {}
  BY DEF Named
<1>2. QED BY <1>1, FS_EmptySet DEF Often

LEMMA Parity == \A n \in Nat : ((n + 1) % 2 = 0) <=> ~((n % 2) = 0)
  OBVIOUS
(* What a switch is after the first n arguments: each mention turns it over. *)
Turned(option, n) ==
  IF Often(option, n) % 2 = 0 THEN Given(Field[option]) ELSE ~Given(Field[option])

Settled == {"arguments", "configured", "walking", "done"}

OptionInv ==
  /\ argv \in Seq([is : STRING, value : Int]) /\ script \in Scripts
  /\ DOMAIN conf = DOMAIN Defaults
  /\ status = "config" => conf = Defaults /\ arg = 0
  /\ status \in Settled =>
       /\ arg \in 0 .. Len(argv)
       /\ status # "arguments" => arg = Len(argv)
       /\ script # NoScript => script.runs /\ \A o \in Options : script[o] # Ill
       /\ \A option \in Switchable : conf[Field[option]] = Turned(option, arg)
       /\ \A f \in Numbers : IF script = NoScript THEN conf[f] = Defaults[f]
                               ELSE conf[f] \in Converted(script[f])

LEMMA Fields ==
  /\ Switchable = DOMAIN Field \ {"wrap_after"}
  /\ \A o \in Switchable : Field[o] \in DOMAIN Defaults \ Numbers
  /\ \A o, p \in Switchable : Field[o] = Field[p] => o = p
  /\ Options \subseteq DOMAIN Defaults
  /\ \A o \in Switchable : Field[o] \in Switches \/ Defaults[Field[o]] = FALSE
<1>1. DOMAIN Field = {"show", "recur", "disable_wrapping", "no_squash", "wrap_after"}
  BY DEF Field
<1>2. /\ Field["show"] = "show_after_sort" /\ Field["recur"] = "recursive_apply"
      /\ Field["disable_wrapping"] = "disable_wrapping"
      /\ Field["no_squash"] = "squash_for_duplicate_library"
  BY DEF Field
<1>3. DOMAIN Defaults = {"file_exts", "skip_directories", "show_after_sort", "recursive_apply"}
                          \cup Options
  BY DEF Defaults, Options, Switches, Numbers
<1>4. Defaults["show_after_sort"] = FALSE /\ Defaults["recursive_apply"] = FALSE
  BY DEF Defaults
<1>5. Switchable = DOMAIN Field \ {"wrap_after"}
  BY <1>1 DEF Switchable
<1>6. \A o \in Switchable : Field[o] \in DOMAIN Defaults \ Numbers
  BY <1>2, <1>3 DEF Switchable, Options, Switches, Numbers
<1>7. \A o, p \in Switchable : Field[o] = Field[p] => o = p
  BY <1>2 DEF Switchable
<1>8. \A o \in Switchable : Field[o] \in Switches \/ Defaults[Field[o]] = FALSE
  BY <1>2, <1>4 DEF Switchable, Switches
<1>9. QED BY <1>3, <1>5, <1>6, <1>7, <1>8

(* What the defaults and the scripts that are accepted give are Booleans.    *)
LEMMA GivenSwitch ==
  ASSUME script \in Scripts, NEW option \in Switchable,
         script # NoScript => script.runs /\ \A o \in Options : script[o] # Ill
  PROVE  Given(Field[option]) \in BOOLEAN
<1>1. Field[option] \in Options => Field[option] \in Switches
  BY Fields DEF Options
<1>2. \A f \in Switches : Defaults[f] \in BOOLEAN
  <2>1. /\ Defaults["squash_for_duplicate_library"] = TRUE
        /\ Defaults["disable_wrapping"] = FALSE
    BY DEF Defaults
  <2>2. QED BY <2>1 DEF Switches
<1>3. CASE script # NoScript /\ Field[option] \in Options
  <2>1. script[Field[option]] \in BOOLEAN
    BY <1>1, <1>3, ConfigAssumption
  <2>2. QED BY <1>3, <2>1 DEF Given
<1>4. CASE ~(script # NoScript /\ Field[option] \in Options)
  <2>1. Given(Field[option]) = Defaults[Field[option]]
    BY <1>4 DEF Given
  <2>2. QED BY <1>2, <2>1, Fields
<1>5. QED BY <1>3, <1>4

(* Nothing that settles the options changes them by being done.              *)
LEMMA OptionsStay ==
  ASSUME OptionInv, UNCHANGED <<script, argv, conf, arg>>, status # "config",
         status' \in Settled => status \in Settled,
         status' \in Settled \ {"arguments"} => arg = Len(argv),
         status' # "config"
  PROVE  OptionInv'
<1>1. \A option \in Switchable, n \in Nat : Turned(option, n)' = Turned(option, n)
  BY DEF Turned, Often, Named, Given
<1>2. arg \in 0 .. Len(argv) => arg \in Nat
  OBVIOUS
<1>3. QED BY <1>1, <1>2 DEF OptionInv, Settled

LEMMA OptionsLoaded ==
  ASSUME OptionInv, LoadConfig
  PROVE  OptionInv'
<1>1. /\ script # NoScript /\ script.runs /\ conf = Defaults /\ arg = 0
      /\ UNCHANGED <<script, argv, arg>> /\ status' = "arguments"
      /\ \A o \in Options : script[o] # Ill
  BY DEF LoadConfig, Loading, OptionInv
<1> DEFINE Loads(exts, skip, number) ==
             conf' = [f \in DOMAIN conf |->
                        IF f = "file_exts" THEN exts ELSE
                        IF f = "skip_directories" THEN skip ELSE
                        IF f \in Switches THEN script[f] ELSE
                        IF f \in Numbers THEN number[f] ELSE conf[f]]
<1>2. PICK exts \in SortsOf(TextsOf("file_exts")), skip \in SortsOf(TextsOf("skip_directories")) :
        \E number \in [Numbers -> U32s] :
          (\A o \in Numbers : number[o] \in Converted(script[o])) /\ Loads(exts, skip, number)
  BY DEF LoadConfig
<1>3. PICK number \in [Numbers -> U32s] :
        (\A o \in Numbers : number[o] \in Converted(script[o])) /\ Loads(exts, skip, number)
  BY <1>2
<1>4. DOMAIN conf' = DOMAIN Defaults
  BY <1>1, <1>3
<1>5. \A f \in Numbers : conf'[f] \in Converted(script[f])
  <2>1. \A f \in Numbers : /\ f \in DOMAIN conf /\ f \notin Switches
                          /\ f # "file_exts" /\ f # "skip_directories"
    BY <1>1, Fields DEF Numbers, Switches, Options
  <2>2. \A f \in Numbers : conf'[f] = number[f]
    BY <1>3, <2>1
  <2>3. QED BY <1>3, <2>2
<1>6. ASSUME NEW option \in Switchable PROVE conf'[Field[option]] = Turned(option, arg)'
  <2>1. Often(option, arg)' = 0
    <3>1. Often(option, 0) = 0
      BY NamedNone
    <3>2. QED BY <1>1, <3>1 DEF Often, Named
  <2>2. Turned(option, arg)' = Given(Field[option])
    <3>1. Turned(option, arg)' = Given(Field[option])'
      BY <2>1 DEF Turned
    <3>2. QED BY <1>1, <3>1 DEF Given
  <2>3. /\ Field[option] \in DOMAIN conf /\ Field[option] \notin Numbers
        /\ Field[option] # "file_exts" /\ Field[option] # "skip_directories"
    <3>1. Field[option] \in DOMAIN Defaults \ Numbers
      BY Fields
    <3>2. QED BY <1>1, <3>1 DEF Field, Switchable
  <2>4. conf'[Field[option]] = IF Field[option] \in Switches THEN script[Field[option]]
                               ELSE conf[Field[option]]
    BY <1>3, <2>3
  <2>5. QED BY <1>1, <2>2, <2>3, <2>4 DEF Given, Options
<1>7. QED BY <1>1, <1>4, <1>5, <1>6 DEF OptionInv

(* An option without a value is turned over, and no other.                   *)
LEMMA OptionTurned ==
  ASSUME OptionInv, ParseFlag
  PROVE  OptionInv'
<1> DEFINE option == argv[arg + 1].is
<1>1. /\ status = "arguments" /\ arg \in 1 .. (Len(argv) - 1)
      /\ option \in DOMAIN Field /\ option # "wrap_after"
      /\ conf' = [conf EXCEPT ![Field[option]] = ~@]
      /\ arg' = arg + 1 /\ UNCHANGED <<script, argv, status>>
  BY DEF ParseFlag, Toggled
<1>2. option \in Switchable /\ Field[option] \in DOMAIN conf \ Numbers
  BY <1>1, Fields DEF OptionInv
<1>3. arg \in Nat /\ arg >= 1 /\ arg' \in 0 .. Len(argv')
  BY <1>1 DEF OptionInv
<1>4. DOMAIN conf' = DOMAIN conf /\ \A f \in DOMAIN conf \ {Field[option]} : conf'[f] = conf[f]
  BY <1>1
<1>5. conf'[Field[option]] = ~conf[Field[option]]
  BY <1>1, <1>2
<1>6. ASSUME NEW o \in Switchable PROVE conf'[Field[o]] = Turned(o, arg)'
  <2>1. Turned(o, arg)' = IF Often(o, arg + 1) % 2 = 0 THEN Given(Field[o]) ELSE ~Given(Field[o])
    BY <1>1 DEF Turned, Given, Often, Named
  <2>2. conf[Field[o]] = Turned(o, arg) /\ Given(Field[o]) \in BOOLEAN
    BY <1>1, GivenSwitch DEF OptionInv, Settled
  <2>3. CASE o = option
    <3>1. Often(o, arg) \in Nat /\ Often(o, arg + 1) = Often(o, arg) + 1
      BY <1>3, <2>3, NamedNext
    <3>2. (Often(o, arg + 1) % 2 = 0) <=> ~(Often(o, arg) % 2 = 0)
      BY <3>1, Parity
    <3>3. conf'[Field[o]] = ~conf[Field[o]]
      BY <1>5, <2>3
    <3>4. CASE Often(o, arg) % 2 = 0
      <4>1. conf[Field[o]] = Given(Field[o]) /\ Turned(o, arg)' = ~Given(Field[o])
        BY <2>1, <2>2, <3>2, <3>4 DEF Turned
      <4>2. QED BY <3>3, <4>1
    <3>5. CASE ~(Often(o, arg) % 2 = 0)
      <4>1. conf[Field[o]] = ~Given(Field[o]) /\ Turned(o, arg)' = Given(Field[o])
        BY <2>1, <2>2, <3>2, <3>5 DEF Turned
      <4>2. QED BY <2>2, <3>3, <4>1
    <3>6. QED BY <3>4, <3>5
  <2>4. CASE o # option
    <3>1. Often(o, arg + 1) = Often(o, arg)
      BY <1>3, <2>4, NamedNext
    <3>2. Field[o] # Field[option] /\ Field[o] \in DOMAIN conf
      BY <1>2, <2>4, Fields DEF OptionInv
    <3>3. conf'[Field[o]] = conf[Field[o]]
      BY <1>4, <3>2
    <3>4. QED BY <2>1, <2>2, <3>1, <3>3 DEF Turned
  <2>5. QED BY <2>3, <2>4
<1>7. ASSUME NEW f \in Numbers
      PROVE  IF script = NoScript THEN conf'[f] = Defaults[f] ELSE conf'[f] \in Converted(script[f])
  <2>1. conf'[f] = conf[f]
    BY <1>2, <1>4, Fields DEF OptionInv, Options
  <2>2. QED BY <1>1, <2>1 DEF OptionInv, Settled
<1>8. /\ argv' \in Seq([is : STRING, value : Int]) /\ script' \in Scripts
      /\ DOMAIN conf' = DOMAIN Defaults
      /\ script' # NoScript => script'.runs /\ \A o \in Options : script'[o] # Ill
  BY <1>1, <1>4 DEF OptionInv, Settled
<1>9. script' = script /\ status' = "arguments"
  BY <1>1
<1> HIDE DEF option
<1>10. QED BY <1>3, <1>6, <1>7, <1>8, <1>9 DEF OptionInv, Settled

LEMMA OptionStep ==
  ASSUME OptionInv, [Next]_vars
  PROVE  OptionInv'
<1>1. CASE DefaultConfig
  <2>1. /\ script = NoScript /\ conf = Defaults /\ arg = 0 /\ status' = "arguments"
        /\ UNCHANGED <<script, argv, arg>>
        /\ conf' = [conf EXCEPT !["skip_directories"] = DefaultSkip]
    BY <1>1 DEF DefaultConfig, OptionInv
  <2>2. DOMAIN conf' = DOMAIN Defaults
        /\ \A f \in DOMAIN Defaults \ {"skip_directories"} : conf'[f] = Defaults[f]
    BY <2>1
  <2>3. ASSUME NEW o \in Switchable PROVE conf'[Field[o]] = Turned(o, arg)'
    <3>1. Often(o, 0) = 0
      BY NamedNone
    <3>2. Turned(o, arg)' = Defaults[Field[o]]
      BY <2>1, <3>1 DEF Turned, Often, Named, Given
    <3>3. Field[o] \in DOMAIN Defaults
      BY Fields
    <3>4. Field[o] # "skip_directories"
      BY DEF Field, Switchable
    <3>5. QED BY <2>2, <3>2, <3>3, <3>4
  <2>4. \A f \in Numbers : conf'[f] = Defaults[f]
    <3>1. \A f \in Numbers : f \in DOMAIN Defaults /\ f # "skip_directories"
      BY Fields DEF Numbers, Options
    <3>2. QED BY <2>2, <3>1
  <2>5. 0 \in 0 .. Len(argv)
    BY DEF OptionInv
  <2>6. QED BY <2>1, <2>2, <2>3, <2>4, <2>5 DEF OptionInv
<1>2. CASE ScriptFails \/ ScriptIsWrong \/ EntryIsNoString
  BY <1>2 DEF ScriptFails, ScriptIsWrong, EntryIsNoString, OptionInv, Settled
<1>3. CASE LoadConfig
  BY <1>3, OptionsLoaded
<1>4. CASE Usage \/ ParseFails \/ ParseNumber
  <2>1. /\ argv' = argv /\ script' = script /\ DOMAIN conf' = DOMAIN conf
        /\ status' \in {"usage", "rejected"}
    BY <1>4 DEF Usage, ParseFails, ParseNumber
  <2>2. QED BY <2>1 DEF OptionInv, Settled
<1>5. CASE TakePath
  <2>1. /\ status = "arguments" /\ arg = 0 /\ argv # <<>> /\ arg' = 1
        /\ UNCHANGED <<script, argv, conf, status>>
    BY <1>5 DEF TakePath
  <2>2. 1 \in 0 .. Len(argv)
    BY <2>1 DEF OptionInv
  <2>3. \A o \in Switchable : Turned(o, arg)' = Turned(o, arg)
    <3>1. \A o \in Switchable : Often(o, 0) = 0 /\ Often(o, 1) = 0
      BY NamedNone
    <3>2. \A o \in Switchable : Often(o, arg)' = Often(o, arg)
      BY <2>1, <3>1 DEF Often, Named
    <3>3. QED BY <2>1, <3>2 DEF Turned, Given
  <2>4. QED BY <2>1, <2>2, <2>3 DEF OptionInv, Settled
<1>6. CASE ParseFlag
  BY <1>6, OptionTurned
<1>7. CASE Configured
  BY <1>7, OptionsStay DEF Configured, Settled
<1>8. CASE PathMissing \/ OneFile \/ Directory
  <2>1. /\ UNCHANGED <<script, argv, conf, arg>> /\ status = "configured"
        /\ status' \in {"no file", "walking", "panicked", "starved", "died"}
    BY <1>8 DEF PathMissing, OneFile, Directory, HandleFile
  <2>2. arg = Len(argv)
    BY <2>1 DEF OptionInv, Settled
  <2>3. QED BY <2>1, <2>2, OptionsStay DEF Settled
<1>9. ASSUME NEW e \in DOMAIN tree, PassOver(e) \/ CallBack(e) \/ Descend(e)
      PROVE  OptionInv'
  <2>1. /\ UNCHANGED <<script, argv, conf, arg>> /\ status = "walking"
        /\ status' \in {"walking", "panicked", "starved", "died"}
    BY <1>9 DEF PassOver, CallBack, Descend, Reading, HandleFile, configVars
  <2>2. arg = Len(argv)
    BY <2>1 DEF OptionInv, Settled
  <2>3. QED BY <2>1, <2>2, OptionsStay DEF Settled
<1>10. CASE EndOfDirectory \/ Finish
  <2>1. /\ UNCHANGED <<script, argv, conf, arg>> /\ status = "walking"
        /\ status' \in {"walking", "done"}
    BY <1>10 DEF EndOfDirectory, Finish, configVars
  <2>2. arg = Len(argv)
    BY <2>1 DEF OptionInv, Settled
  <2>3. QED BY <2>1, <2>2, OptionsStay DEF Settled
<1>11. CASE UNCHANGED vars
  <2>1. UNCHANGED <<script, argv, conf, arg, status>>
    BY <1>11 DEF vars, configVars
  <2>2. \A o \in Switchable : Turned(o, arg)' = Turned(o, arg)
    BY <2>1 DEF Turned, Often, Named, Given
  <2>3. QED BY <2>1, <2>2 DEF OptionInv, Settled
<1>12. QED BY <1>1, <1>2, <1>3, <1>4, <1>5, <1>6, <1>7, <1>8, <1>9, <1>10, <1>11
           DEF Next, ConfigNext, Exited

LEMMA OptionStart == ASSUME Init PROVE OptionInv
  BY ConfigAssumption DEF Init, OptionInv, Settled

LEMMA OptionsFollow == OptionInv => OptionsAsGiven
<1> SUFFICES ASSUME OptionInv, status \in {"configured", "walking", "done"} PROVE OptionsAsGiven
  BY DEF OptionsAsGiven
<1>1. /\ arg = Len(argv)
      /\ \A option \in Switchable : conf[Field[option]] = Turned(option, arg)
      /\ \A f \in Numbers : IF script = NoScript THEN conf[f] = Defaults[f]
                              ELSE conf[f] \in Converted(script[f])
      /\ script # NoScript => script.runs /\ \A o \in Options : script[o] # Ill
  BY DEF OptionInv, Settled
<1>2. \A option \in Switchable : Often(option, arg) = Times(option)
  BY <1>1 DEF Often, Named, Times
<1>3. ASSUME NEW flag \in DOMAIN Documented
      PROVE  /\ Times(flag) = 0 => conf[Field[flag]] = Given(Field[flag])
             /\ Times(flag) = 1 /\ Given(Field[flag]) # Documented[flag] =>
                  conf[Field[flag]] = Documented[flag]
  <2>1. flag \in Switchable /\ Documented[flag] \in BOOLEAN
    <3>1. DOMAIN Documented = {"show", "recur", "disable_wrapping", "no_squash"}
      BY DEF Documented
    <3>2. /\ Documented["show"] = TRUE /\ Documented["recur"] = TRUE
          /\ Documented["disable_wrapping"] = TRUE /\ Documented["no_squash"] = FALSE
      BY DEF Documented
    <3>3. QED BY <3>1, <3>2 DEF Switchable
  <2>2. Given(Field[flag]) \in BOOLEAN
    BY <1>1, <2>1, GivenSwitch DEF OptionInv
  <2>3. conf[Field[flag]] = IF Times(flag) % 2 = 0 THEN Given(Field[flag]) ELSE ~Given(Field[flag])
    BY <1>1, <1>2, <2>1 DEF Turned
  <2>4. 0 % 2 = 0 /\ 1 % 2 # 0
    OBVIOUS
  <2>5. Times(flag) = 0 => conf[Field[flag]] = Given(Field[flag])
    BY <2>3, <2>4
  <2>6. Times(flag) = 1 => conf[Field[flag]] = ~Given(Field[flag])
    BY <2>3, <2>4
  <2>7. QED BY <2>1, <2>2, <2>5, <2>6
<1>4. ASSUME NEW f \in Numbers, script # NoScript, NEW n \in U32s, script[f] = 2 * n
      PROVE  conf[f] = n
  <2>1. n \in Nat
    BY ConfigAssumption
  <2>2. script[f] # -1 /\ script[f] \div 2 = n
    BY <1>4, <2>1
  <2>3. Converted(script[f]) = {n}
    BY <1>4, <2>2 DEF Converted, Fitting
  <2>4. QED BY <1>1, <1>4, <2>3
<1>5. \A f \in Numbers : script = NoScript => conf[f] = Defaults[f]
  BY <1>1
<1>6. QED BY <1>3, <1>4, <1>5 DEF OptionsAsGiven

(***************************************************************************)
(* Whatever the script and the command line, a run that gets past its      *)
(* arguments has the settings of .csortconfig or the defaults for what is  *)
(* not named; a flag named once over another setting does what it is for;  *)
(* whole numbers are taken as they are.                                    *)
(***************************************************************************)
THEOREM OptionsResult == Spec => []OptionsAsGiven
<1>1. Init => OptionInv
  BY OptionStart
<1>2. OptionInv /\ [Next]_vars => OptionInv'
  BY OptionStep
<1>3. QED BY <1>1, <1>2, OptionsFollow, PTL DEF Spec

-----------------------------------------------------------------------------
(* Types                                                                    *)

(* What is still to be read of a directory is in it.                         *)
Within(calls) == \A i \in DOMAIN calls : calls[i].unread \subseteq Children(calls[i].directory)

LEMMA WithinDeeper ==
  ASSUME NEW d, NEW callers \in Seq(Calls), Within(callers), NEW unread, unread \subseteq Children(d)
  PROVE  Within(Append(callers, [directory |-> d, unread |-> unread]))
<1> DEFINE call == [directory |-> d, unread |-> unread]
<1>1. call.unread \subseteq Children(call.directory)
  OBVIOUS
<1> HIDE DEF call
<1>2. \A i \in DOMAIN Append(callers, call) :
        Append(callers, call)[i] = call \/ (i \in DOMAIN callers /\ Append(callers, call)[i] = callers[i])
  OBVIOUS
<1>3. Within(Append(callers, call))
  BY <1>1, <1>2 DEF Within
<1>4. QED BY <1>3 DEF call

LEMMA WithinBack ==
  ASSUME dirs \in Seq(Calls), dirs # <<>>, Within(dirs)
  PROVE  /\ Within(Back) /\ Back \in Seq(Calls)
         /\ Top \in Calls /\ Top.unread \subseteq Children(Top.directory)
<1>1. Len(dirs) \in DOMAIN dirs
  OBVIOUS
<1>2. Top \in Calls /\ Back \in Seq(Calls) /\ Len(Back) = Len(dirs) - 1
  <2>1. PICK c : c \in Calls
    BY <1>1
  <2>2. QED BY <2>1, Lengths DEF Top, Back
<1>3. Top.unread \subseteq Children(Top.directory)
  BY <1>1 DEF Top, Within
<1>4. \A i \in DOMAIN Back : i \in DOMAIN dirs /\ Back[i] = dirs[i]
  <2>1. \A n \in Nat : n <= Len(dirs) => \A i \in 1 .. n : SubSeq(dirs, 1, n)[i] = dirs[i]
    OBVIOUS
  <2>2. Len(dirs) - 1 \in Nat /\ DOMAIN Back = 1 .. (Len(dirs) - 1)
    BY <1>1, <1>2
  <2>3. QED BY <2>1, <2>2 DEF Back
<1>5. QED BY <1>2, <1>3, <1>4 DEF Within

(* The calls after an entry was read, and after a directory was opened.      *)
LEMMA WithinAfter ==
  ASSUME dirs \in Seq(Calls), Within(dirs), NEW e, Reading(e)
  PROVE  Within(After(e))
<1>1. dirs # <<>>
  BY DEF Reading
<1>2. Top.unread \ {e} \subseteq Children(Top.directory) /\ Back \in Seq(Calls) /\ Within(Back)
  BY <1>1, WithinBack
<1>3. QED BY <1>2, WithinDeeper DEF After

LEMMA WithinOpened ==
  ASSUME NEW d, NEW callers \in Seq(Calls), Within(callers), PerformOnDirectory(d, callers)
  PROVE  Within(dirs')
<1>1. CASE dirs' = callers
  BY <1>1
<1>2. CASE dirs' = Append(callers, [directory |-> d, unread |-> Children(d)])
  BY <1>2, WithinDeeper
<1>3. QED BY <1>1, <1>2 DEF PerformOnDirectory

(* What opening a directory or a file does to the rest.                      *)
LEMMA OpenTypes ==
  ASSUME TypeOK, FdInv, NEW e \in TreeEntries, NEW callers,
         PerformOnDirectory(e, callers) \/ HandleFile(e, "walking")
  PROVE  fds' \in 0 .. FdLimit /\ unopened' \subseteq TreeEntries
<1>1. fds \in Nat /\ fds \in 0 .. FdLimit /\ unopened \subseteq TreeEntries /\ FdLimit \in Nat
  BY CsortAssumption DEF TypeOK, FdInv, TreeEntries
<1>2. fds' = fds \/ (fds' = fds + 1 /\ fds < FdLimit)
  BY DEF PerformOnDirectory, HandleFile
<1>3. unopened' = unopened \/ unopened' = unopened \cup {e}
  BY DEF PerformOnDirectory, HandleFile
<1>4. QED BY <1>1, <1>2, <1>3

LuaStates == {"none", "open", "closed", "closed twice"}

(* The calls of the walk, its descriptors and the directories not opened.    *)
LEMMA WalkTypes ==
  ASSUME TypeOK, RunInv, RunInv', [Next]_vars
  PROVE  Within(dirs)' /\ fds' \in 0 .. FdLimit /\ unopened' \subseteq TreeEntries' /\ tree' = tree
<1>1. /\ dirs \in Seq(Calls) /\ Within(dirs) /\ fds \in 0 .. FdLimit /\ fds \in Nat
      /\ unopened \subseteq TreeEntries /\ FdInv /\ Root \in TreeEntries
  BY DEF RunInv, FdInv, TypeOK, Within, TreeEntries
<1>2. tree' = tree
  BY DEF Next, vars, walkVars, PathMissing, OneFile, Directory, PassOver, CallBack, Descend,
         EndOfDirectory, Finish, Exited
<1>3. TreeEntries' = TreeEntries /\ \A calls : Within(calls)' = Within(calls')
  BY <1>2 DEF TreeEntries, Within, Children
<1>4. CASE UNCHANGED <<dirs, fds, unopened>>
  BY <1>1, <1>2, <1>3, <1>4 DEF Within, Children
<1>5. CASE OneFile
  <2>1. HandleFile(Root, "walking") /\ dirs' = dirs
    BY <1>5 DEF OneFile
  <2>2. fds' \in 0 .. FdLimit /\ unopened' \subseteq TreeEntries
    BY <1>1, <2>1, OpenTypes
  <2>3. QED BY <1>1, <1>2, <1>3, <2>1, <2>2 DEF Within, Children
<1>6. CASE Directory
  <2> DEFINE none == <<>>
  <2>1. PerformOnDirectory(Root, none)
    BY <1>6 DEF Directory
  <2>2. none \in Seq(Calls) /\ Within(none)
    BY DEF Within
  <2> HIDE DEF none
  <2>3. Within(dirs')
    BY <2>1, <2>2, WithinOpened
  <2>4. fds' \in 0 .. FdLimit /\ unopened' \subseteq TreeEntries
    BY <1>1, <2>1, OpenTypes
  <2>5. QED BY <1>2, <1>3, <2>3, <2>4 DEF Within, Children
<1>7. ASSUME NEW e \in DOMAIN tree, PassOver(e) \/ CallBack(e) \/ Descend(e)
      PROVE  Within(dirs') /\ fds' \in 0 .. FdLimit /\ unopened' \subseteq TreeEntries
  <2>1. Reading(e) /\ e \in TreeEntries
    BY <1>7 DEF PassOver, CallBack, Descend, TreeEntries
  <2>2. Within(After(e)) /\ After(e) \in Seq(Calls)
    BY <1>1, <2>1, WithinAfter, ReadingCounts
  <2>3. CASE PassOver(e)
    BY <1>1, <2>2, <2>3 DEF PassOver
  <2>4. CASE CallBack(e)
    <3>1. dirs' = After(e) /\ HandleFile(e, "walking")
      BY <2>4 DEF CallBack
    <3>2. QED BY <1>1, <2>1, <2>2, <3>1, OpenTypes
  <2>5. CASE Descend(e)
    <3>1. PerformOnDirectory(e, After(e))
      BY <2>5 DEF Descend
    <3>2. QED BY <1>1, <2>1, <2>2, <3>1, WithinOpened, OpenTypes
  <2>6. QED BY <1>7, <2>3, <2>4, <2>5
<1>8. CASE EndOfDirectory
  <2>1. dirs # <<>> /\ dirs' = Back /\ fds' = fds - 1 /\ unopened' = unopened
    BY <1>8 DEF EndOfDirectory, ClosedDir
  <2>2. Within(dirs') /\ fds' \in Nat
    BY <1>1, <2>1, WithinBack DEF RunInv, FdInv
  <2>3. FdLimit \in Nat
    BY CsortAssumption
  <2>4. QED BY <1>1, <1>2, <1>3, <2>1, <2>2, <2>3 DEF Within, Children
<1>9. QED
  BY <1>2, <1>3, <1>4, <1>5, <1>6, <1>7, <1>8
     DEF Next, vars, walkVars, PathMissing, Finish, Exited, Within, Children

LEMMA TypeStep ==
  ASSUME TypeOK, RunInv, RunInv', OptionInv, OptionInv', [Next]_vars
  PROVE  TypeOK'
<1>1. argv' = argv /\ arg' \in 0 .. (Len(argv') + 1)
  <2>1. Len(argv) \in Nat /\ arg \in 0 .. (Len(argv) + 1)
    <3>1. argv \in Seq([is : STRING, value : Int]) /\ arg \in 0 .. (Len(argv) + 1)
      BY DEF OptionInv, TypeOK
    <3>2. Len(argv) \in Nat
      BY <3>1
    <3>3. QED BY <3>1, <3>2
  <2>2. CASE ConfigNext
    BY <2>1, <2>2 DEF ConfigNext, DefaultConfig, ScriptFails, ScriptIsWrong, EntryIsNoString,
       LoadConfig, Usage, TakePath, ParseFlag, ParseNumber, ParseFails, Configured
  <2>3. CASE UNCHANGED <<argv, arg>>
    BY <2>1, <2>3
  <2>4. QED BY <2>2, <2>3 DEF Next, vars, configVars, PathMissing, OneFile, Directory, PassOver,
            CallBack, Descend, EndOfDirectory, Finish, Exited
<1>2. lua' \in LuaStates
  <2>1. lua \in LuaStates /\ Closed(lua) \in LuaStates /\ Closed("open") \in LuaStates
        /\ Closed(Closed("open")) \in LuaStates
    BY DEF TypeOK, Closed, LuaStates
  <2>2. lua' \in {lua, Closed(lua), "open", Closed("open"), Closed(Closed("open"))}
    BY DEF Next, ConfigNext, DefaultConfig, ScriptFails, ScriptIsWrong, EntryIsNoString,
       LoadConfig, Usage, TakePath, ParseFlag, ParseNumber, ParseFails, Configured, HandleFile,
       vars, configVars, PathMissing, OneFile, Directory, PassOver,
       CallBack, Descend, EndOfDirectory, Finish, Exited
  <2>3. QED BY <2>1, <2>2 DEF LuaStates
<1>3. status' \in {"config", "arguments", "configured", "walking"} \cup Ended
  BY DEF TypeOK, Ended, Next, ConfigNext, DefaultConfig, ScriptFails, ScriptIsWrong,
     EntryIsNoString, LoadConfig, Usage, TakePath, ParseFlag, ParseNumber, ParseFails, Configured,
     HandleFile, vars, configVars, PathMissing, OneFile, Directory, PassOver,
     CallBack, Descend, EndOfDirectory, Finish, Exited
<1>4. (DOMAIN conf)' = (DOMAIN Defaults)'
  BY DEF OptionInv
<1>5. Within(dirs)' /\ fds' \in 0 .. FdLimit /\ unopened' \subseteq TreeEntries' /\ tree' = tree
  BY WalkTypes
<1>6. handled' \in Seq(TreeEntries')
  BY DEF RunInv, FdInv
<1>7. ToSet(handled') \subseteq TreeEntries'
  BY <1>6 DEF ToSet
<1>8. QED BY <1>1, <1>2, <1>3, <1>4, <1>5, <1>7 DEF TypeOK, Within, TreeEntries, LuaStates

(***************************************************************************)
(* Every variable of a run keeps its type; no more descriptors are open    *)
(* than there are, and what is still to be read of a directory is in it.   *)
(***************************************************************************)
THEOREM RunTypeCorrect == Spec => []TypeOK
<1>1. Init /\ WalkInit => TypeOK
  <2> SUFFICES ASSUME Init, WalkInit PROVE TypeOK
    OBVIOUS
  <2>1. arg \in 0 .. (Len(argv) + 1)
    <3>1. arg = 0 /\ argv \in Seq([is : STRING, value : Int])
      BY OptionStart DEF Init, OptionInv
    <3>2. Len(argv) \in Nat
      BY <3>1
    <3>3. QED BY <3>1, <3>2
  <2>2. FdLimit \in Nat /\ fds \in 0 .. FdLimit
    BY CsortAssumption DEF WalkInit
  <2>3. ToSet(handled) = {}
    BY DEF WalkInit, ToSet
  <2>4. QED BY <2>1, <2>2, <2>3 DEF Init, WalkInit, TypeOK
<1>2. Init => OptionInv
  BY OptionStart
<1>3. OptionInv /\ [Next]_vars => OptionInv'
  BY OptionStep
<1>4. TypeOK /\ RunInv /\ RunInv' /\ OptionInv /\ OptionInv' /\ [Next]_vars => TypeOK'
  BY TypeStep
<1>5. QED BY <1>1, <1>2, <1>3, <1>4, RunInvariant, PTL DEF Spec

-----------------------------------------------------------------------------
(* Searching a list                                                         *)

LEMMA Characters ==
  ASSUME NEW s \in Seq(Nat), NEW i \in Nat, i >= 1
  PROVE  CharAt(s, i) \in Nat /\ (i <= Len(s) => CharAt(s, i) = s[i]) /\ (i > Len(s) => CharAt(s, i) = 0)
<1>1. Len(s) \in Nat /\ \A k \in 1 .. Len(s) : s[k] \in Nat
  OBVIOUS
<1>2. CASE i <= Len(s)
  <2>1. i \in 1 .. Len(s)
    BY <1>1, <1>2
  <2>2. QED BY <1>1, <1>2, <2>1 DEF CharAt
<1>3. CASE i > Len(s)
  BY <1>1, <1>3 DEF CharAt, NUL
<1>4. QED BY <1>1, <1>2, <1>3

(* s is below t, and they differ at i first.                                *)
Before(s, t, i) ==
  /\ CharAt(s, i) < CharAt(t, i)
  /\ \A j \in 1 .. (i - 1) : CharAt(s, j) = CharAt(t, j)

(* Two names compare as their first characters that differ.                 *)
LEMMA Compared ==
  ASSUME NEW s \in Seq(Nat), NEW t \in Seq(Nat), NEW n \in Nat
  PROVE  /\ Strncmp(s, t, n) \in Int
         /\ Strncmp(s, t, n) = 0 => \A i \in 1 .. n : CharAt(s, i) = CharAt(t, i)
         /\ Strncmp(s, t, n) < 0 => \E i \in 1 .. n : Before(s, t, i)
         /\ Strncmp(s, t, n) > 0 => \E i \in 1 .. n : Before(t, s, i)
<1> DEFINE differ == {i \in 1 .. n : CharAt(s, i) # CharAt(t, i)}
           least == CHOOSE i \in differ : \A j \in differ : i <= j
<1>1. CASE differ = {}
  <2>1. Strncmp(s, t, n) = 0
    BY <1>1 DEF Strncmp
  <2>2. \A i \in 1 .. n : CharAt(s, i) = CharAt(t, i)
    BY <1>1
  <2>3. QED BY <2>1, <2>2
<1>2. CASE differ # {}
  <2>1. \E i \in differ : \A j \in differ : i <= j
    <3>1. differ \in SUBSET Nat
      OBVIOUS
    <3> HIDE DEF differ
    <3>2. QED BY <1>2, <3>1, Smallest
  <2>2. least \in differ /\ \A j \in differ : least <= j
    BY <2>1
  <2>3. Strncmp(s, t, n) = CharAt(s, least) - CharAt(t, least)
    BY <1>2 DEF Strncmp
  <2> HIDE DEF least
  <2>4. least \in 1 .. n /\ least \in Nat /\ least >= 1 /\ CharAt(s, least) # CharAt(t, least)
    BY <2>2
  <2>5. CharAt(s, least) \in Nat /\ CharAt(t, least) \in Nat
    BY <2>4, Characters
  <2>6. \A j \in 1 .. (least - 1) : CharAt(s, j) = CharAt(t, j)
    <3> TAKE j \in 1 .. (least - 1)
    <3>1. j \in 1 .. n /\ ~(least <= j)
      BY <2>4
    <3>2. QED BY <2>2, <3>1
  <2>7. CharAt(s, least) < CharAt(t, least) => Before(s, t, least)
    BY <2>6 DEF Before
  <2>8. CharAt(t, least) < CharAt(s, least) => Before(t, s, least)
    BY <2>6 DEF Before
  <2> HIDE DEF differ
  <2>9. QED BY <2>3, <2>4, <2>5, <2>7, <2>8
<1>3. QED BY <1>1, <1>2

LEMMA StringIsName ==
  ASSUME NEW t \in CString
  PROVE  /\ t \in Seq(Nat) /\ Len(t) \in Nat
         /\ \A i \in 1 .. Len(t) : t[i] \in Nat /\ t[i] > 0 /\ CharAt(t, i) = t[i]
<1>1. t \in Seq(Nat \ {0})
  BY DEF CString, NUL
<1>2. t \in Seq(Nat) /\ Len(t) \in Nat /\ \A i \in 1 .. Len(t) : t[i] \in Nat \ {0}
  BY <1>1
<1>3. QED BY <1>2 DEF CharAt

LEMMA PrefixIs ==
  ASSUME NEW s \in Seq(Nat), NEW t \in CString
  PROVE  IsPrefix(t, s) <=> \A i \in 1 .. Len(t) : CharAt(s, i) = t[i]
<1>1. /\ t \in Seq(Nat) /\ Len(t) \in Nat /\ Len(s) \in Nat
      /\ \A i \in 1 .. Len(t) : t[i] \in Nat /\ t[i] > 0
  BY StringIsName
<1>2. SubSeq(t, 1, Len(t)) = t
  BY <1>1
<1>3. ASSUME IsPrefix(t, s) PROVE \A i \in 1 .. Len(t) : CharAt(s, i) = t[i]
  <2>1. Len(t) <= Len(s) /\ t = SubSeq(s, 1, Len(t))
    BY <1>2, <1>3 DEF IsPrefix
  <2>2. \A i \in 1 .. Len(t) : SubSeq(s, 1, Len(t))[i] = s[i]
    BY <1>1, <2>1
  <2>3. QED BY <1>1, <2>1, <2>2 DEF CharAt
<1>4. ASSUME \A i \in 1 .. Len(t) : CharAt(s, i) = t[i] PROVE IsPrefix(t, s)
  <2>1. Len(t) <= Len(s)
    <3>1. CASE Len(t) = 0
      BY <1>1, <3>1
    <3>2. CASE Len(t) # 0
      <4>1. Len(t) \in 1 .. Len(t)
        BY <1>1, <3>2
      <4>2. CharAt(s, Len(t)) > 0
        BY <1>1, <1>4, <4>1
      <4>3. QED BY <1>1, <4>2 DEF CharAt, NUL
    <3>3. QED BY <3>1, <3>2
  <2>2. \A i \in 1 .. Len(t) : t[i] = s[i]
    BY <1>1, <1>4, <2>1 DEF CharAt
  <2>3. SubSeq(s, 1, Len(t)) = t
    <3> DEFINE u == SubSeq(s, 1, Len(t))
    <3>1. u \in Seq(Nat) /\ Len(u) = Len(t) /\ \A i \in 1 .. Len(t) : u[i] = s[i]
      BY <1>1, <2>1
    <3> HIDE DEF u
    <3>2. u = t
      BY <1>1, <2>2, <3>1, SeqEqual
    <3>3. QED BY <3>2 DEF u
  <2>4. QED BY <1>2, <2>1, <2>3 DEF IsPrefix
<1>5. QED BY <1>3, <1>4

(* A name is found in what begins with it.                                  *)
LEMMA Sides ==
  ASSUME NEW s \in Seq(Nat), NEW t \in CString
  PROVE  /\ StringStrncmp(s, t) \in Int
         /\ StringStrncmp(s, t) = 0 <=> IsPrefix(t, s)
         /\ StringStrncmp(s, t) < 0 => \E i \in 1 .. Len(t) : Before(s, t, i)
         /\ StringStrncmp(s, t) > 0 => \E i \in 1 .. Len(t) : Before(t, s, i)
<1> DEFINE side == StringStrncmp(s, t)
<1>1. /\ t \in Seq(Nat) /\ Len(t) \in Nat
      /\ \A i \in 1 .. Len(t) : t[i] \in Nat /\ CharAt(t, i) = t[i]
  BY StringIsName
<1>2. /\ side \in Int
      /\ side = 0 => \A i \in 1 .. Len(t) : CharAt(s, i) = CharAt(t, i)
      /\ side < 0 => \E i \in 1 .. Len(t) : Before(s, t, i)
      /\ side > 0 => \E i \in 1 .. Len(t) : Before(t, s, i)
  BY <1>1, Compared DEF StringStrncmp
<1>3. IsPrefix(t, s) <=> \A i \in 1 .. Len(t) : CharAt(s, i) = t[i]
  BY PrefixIs
<1>4. (\E i \in 1 .. Len(t) : Before(s, t, i) \/ Before(t, s, i)) => ~IsPrefix(t, s)
  <2> SUFFICES ASSUME NEW i \in 1 .. Len(t), Before(s, t, i) \/ Before(t, s, i) PROVE ~IsPrefix(t, s)
    OBVIOUS
  <2>1. CharAt(s, i) # CharAt(t, i)
    <3>1. CharAt(s, i) \in Nat /\ CharAt(t, i) \in Nat
      <4>1. i \in Nat /\ i >= 1
        BY <1>1
      <4>2. QED BY <1>1, <4>1, Characters
    <3>2. QED BY <3>1 DEF Before
  <2>2. QED BY <1>1, <1>3, <2>1
<1> HIDE DEF side
<1>5. side = 0 <=> IsPrefix(t, s)
  <2>1. side = 0 => IsPrefix(t, s)
    BY <1>1, <1>2, <1>3
  <2>2. side # 0 => side < 0 \/ side > 0
    BY <1>2
  <2>3. QED BY <1>2, <1>4, <2>1, <2>2
<1>6. QED BY <1>2, <1>5 DEF side

LEMMA BeforeBefore ==
  ASSUME NEW r \in Seq(Nat), NEW s \in Seq(Nat), NEW t \in Seq(Nat),
         NEW i \in Nat, i >= 1, NEW j \in Nat, j >= 1, Before(r, s, i), Before(s, t, j)
  PROVE  \E k \in {i, j} : Before(r, t, k)
<1>1. /\ CharAt(r, i) \in Nat /\ CharAt(s, i) \in Nat /\ CharAt(t, i) \in Nat
      /\ CharAt(r, j) \in Nat /\ CharAt(s, j) \in Nat /\ CharAt(t, j) \in Nat
  BY Characters
<1>2. /\ CharAt(r, i) < CharAt(s, i) /\ \A k \in 1 .. (i - 1) : CharAt(r, k) = CharAt(s, k)
      /\ CharAt(s, j) < CharAt(t, j) /\ \A k \in 1 .. (j - 1) : CharAt(s, k) = CharAt(t, k)
  BY DEF Before
<1>3. CASE i <= j
  <2>1. CharAt(s, i) <= CharAt(t, i)
    <3>1. CASE i = j
      BY <1>1, <1>2, <3>1
    <3>2. CASE i # j
      <4>1. i \in 1 .. (j - 1)
        BY <1>3, <3>2
      <4>2. QED BY <1>1, <1>2, <4>1
    <3>3. QED BY <3>1, <3>2
  <2>2. \A k \in 1 .. (i - 1) : k \in 1 .. (j - 1)
    BY <1>3
  <2>3. CharAt(r, i) < CharAt(t, i)
    BY <1>1, <1>2, <2>1
  <2>4. Before(r, t, i)
    BY <1>2, <2>2, <2>3 DEF Before
  <2>5. QED BY <2>4
<1>4. CASE j < i
  <2>1. j \in 1 .. (i - 1) /\ \A k \in 1 .. (j - 1) : k \in 1 .. (i - 1)
    BY <1>4
  <2>2. CharAt(r, j) = CharAt(s, j)
    BY <1>2, <2>1
  <2>3. CharAt(r, j) < CharAt(t, j)
    BY <1>1, <1>2, <2>2
  <2>4. Before(r, t, j)
    BY <1>2, <2>1, <2>3 DEF Before
  <2>5. QED BY <2>4
<1>5. QED BY <1>3, <1>4

(* In a sorted list of names of which none begins with another, each is      *)
(* below every later one, at a character that both have.                     *)
Sorted(list) == \A i \in 1 .. (Len(list) - 1) : StringStrncmp(list[i], list[i + 1]) <= 0

LEMMA SortedBefore ==
  ASSUME NEW list \in Seq(CString), Sorted(list), Apart(list)
  PROVE  \A i, j \in DOMAIN list :
           i < j => \E k \in 1 .. Len(list[i]) : k <= Len(list[j]) /\ Before(list[i], list[j], k)
<1>1. /\ Len(list) \in Nat /\ DOMAIN list = 1 .. Len(list)
      /\ \A i \in DOMAIN list : list[i] \in CString /\ list[i] \in Seq(Nat)
  <2>1. Len(list) \in Nat /\ DOMAIN list = 1 .. Len(list) /\ \A i \in DOMAIN list : list[i] \in CString
    OBVIOUS
  <2>2. QED BY <2>1, StringIsName
<1>2. \A i \in 1 .. (Len(list) - 1) : \E k \in Nat : k >= 1 /\ Before(list[i], list[i + 1], k)
  <2> TAKE i \in 1 .. (Len(list) - 1)
  <2>1. i \in DOMAIN list /\ i + 1 \in DOMAIN list /\ i + 1 # i
    BY <1>1
  <2>2. ~IsPrefix(list[i + 1], list[i])
    BY <2>1 DEF Apart
  <2>3. StringStrncmp(list[i], list[i + 1]) <= 0
    BY DEF Sorted
  <2>4. /\ StringStrncmp(list[i], list[i + 1]) \in Int /\ StringStrncmp(list[i], list[i + 1]) # 0
        /\ StringStrncmp(list[i], list[i + 1]) < 0 =>
             \E k \in 1 .. Len(list[i + 1]) : Before(list[i], list[i + 1], k)
    BY <1>1, <2>1, <2>2, Sides
  <2>5. \E k \in 1 .. Len(list[i + 1]) : Before(list[i], list[i + 1], k)
    BY <2>3, <2>4
  <2>6. QED BY <2>5
<1> SUFFICES ASSUME NEW i \in DOMAIN list
             PROVE  \A j \in DOMAIN list : i < j =>
                      \E k \in 1 .. Len(list[i]) : k <= Len(list[j]) /\ Before(list[i], list[j], k)
  OBVIOUS
<1>3. \A j \in DOMAIN list : i < j => \E k \in Nat : k >= 1 /\ Before(list[i], list[j], k)
  <2> DEFINE bad == {j \in DOMAIN list : i < j /\ ~\E k \in Nat : k >= 1 /\ Before(list[i], list[j], k)}
  <2>1. SUFFICES ASSUME bad # {} PROVE FALSE
    OBVIOUS
  <2>2. bad \in SUBSET Nat
    BY <1>1
  <2>3. PICK j \in bad : \A l \in bad : j <= l
    BY <2>1, <2>2, Smallest
  <2>4. /\ j \in 1 .. Len(list) /\ i < j /\ i \in 1 .. Len(list) /\ i \in Nat /\ j \in Nat
        /\ ~\E k \in Nat : k >= 1 /\ Before(list[i], list[j], k)
    BY <1>1, <2>3
  <2>5. j - 1 \in 1 .. (Len(list) - 1) /\ (j - 1) + 1 = j /\ j - 1 \in DOMAIN list /\ ~(j <= j - 1)
    BY <1>1, <2>4
  <2>6. PICK k \in Nat : k >= 1 /\ Before(list[j - 1], list[j], k)
    BY <1>2, <2>5
  <2>7. i # j - 1
    BY <2>4, <2>6
  <2>8. i < j - 1 /\ j - 1 \notin bad
    <3>1. i < j - 1
      BY <2>4, <2>7
    <3>2. j - 1 \notin bad
      BY <2>3, <2>5
    <3>3. QED BY <3>1, <3>2
  <2>9. PICK l \in Nat : l >= 1 /\ Before(list[i], list[j - 1], l)
    BY <2>5, <2>8
  <2>10. list[i] \in Seq(Nat) /\ list[j - 1] \in Seq(Nat) /\ list[j] \in Seq(Nat)
    BY <1>1, <2>4, <2>5
  <2> HIDE DEF bad
  <2>11. \E m \in {l, k} : Before(list[i], list[j], m)
    BY <2>6, <2>9, <2>10, BeforeBefore
  <2>12. QED BY <2>4, <2>6, <2>9, <2>11
<1>4. ASSUME NEW j \in DOMAIN list, i < j
      PROVE  \E k \in 1 .. Len(list[i]) : k <= Len(list[j]) /\ Before(list[i], list[j], k)
  <2> DEFINE s == list[i]
             t == list[j]
  <2>1. PICK k \in Nat : k >= 1 /\ Before(s, t, k)
    BY <1>3, <1>4
  <2>2. s \in CString /\ t \in CString /\ s \in Seq(Nat) /\ t \in Seq(Nat) /\ Len(s) \in Nat /\ Len(t) \in Nat
    BY <1>1
  <2>3. ~IsPrefix(s, t)
    <3>1. i # j
      BY <1>1, <1>4
    <3>2. QED BY <3>1 DEF Apart
  <2> HIDE DEF s, t
  <2>4. CharAt(s, k) < CharAt(t, k) /\ \A l \in 1 .. (k - 1) : CharAt(s, l) = CharAt(t, l)
    BY <2>1 DEF Before
  <2>5. CharAt(s, k) \in Nat /\ CharAt(t, k) \in Nat /\ (k > Len(t) => CharAt(t, k) = 0)
    BY <2>1, <2>2, Characters
  <2>6. k <= Len(t)
    BY <2>1, <2>2, <2>4, <2>5
  <2>7. k <= Len(s)
    <3>1. SUFFICES ASSUME k > Len(s) PROVE FALSE
      BY <2>1, <2>2
    <3>2. \A l \in 1 .. Len(s) : l \in 1 .. (k - 1)
      BY <2>2, <3>1
    <3>3. \A l \in 1 .. Len(s) : CharAt(t, l) = s[l]
      BY <2>2, <2>4, <3>2, StringIsName
    <3>4. IsPrefix(s, t)
      BY <2>2, <3>3, PrefixIs
    <3>5. QED BY <2>3, <3>4
  <2>8. k \in 1 .. Len(s)
    BY <2>1, <2>2, <2>7
  <2>9. QED BY <2>1, <2>6, <2>8 DEF s, t
<1>5. QED BY <1>4

(* A name below an entry begins with no later one, and a name above it with  *)
(* no earlier one.                                                           *)
LEMMA OneSide ==
  ASSUME NEW list \in Seq(CString), Sorted(list), Apart(list), NEW match \in Seq(Nat),
         NEW i \in DOMAIN list, NEW j \in DOMAIN list, IsPrefix(list[j], match)
  PROVE  /\ StringStrncmp(match, list[i]) < 0 => ~(i < j)
         /\ StringStrncmp(match, list[i]) > 0 => ~(j < i)
<1> DEFINE s == list[i]
           t == list[j]
<1>1. s \in CString /\ t \in CString /\ s \in Seq(Nat) /\ t \in Seq(Nat)
      /\ Len(s) \in Nat /\ Len(t) \in Nat
  <2>1. s \in CString /\ t \in CString
    OBVIOUS
  <2>2. QED BY <2>1, StringIsName
<1>2. /\ i < j => \E k \in 1 .. Len(s) : k <= Len(t) /\ Before(s, t, k)
      /\ j < i => \E k \in 1 .. Len(t) : k <= Len(s) /\ Before(t, s, k)
  BY SortedBefore
<1>3. IsPrefix(t, match)
  OBVIOUS
<1> HIDE DEF s, t
<1>4. \A k \in 1 .. Len(t) : CharAt(match, k) = CharAt(t, k)
  BY <1>1, <1>3, PrefixIs, StringIsName
<1>5. ASSUME StringStrncmp(match, s) < 0, i < j PROVE FALSE
  <2>1. PICK p \in 1 .. Len(s) : Before(match, s, p)
    BY <1>1, <1>5, Sides
  <2>2. PICK k \in 1 .. Len(s) : k <= Len(t) /\ Before(s, t, k)
    BY <1>2, <1>5
  <2>3. p \in Nat /\ k \in Nat /\ p >= 1 /\ k >= 1
    BY <1>1
  <2>4. PICK l \in {p, k} : Before(match, t, l)
    BY <1>1, <2>1, <2>2, <2>3, BeforeBefore
  <2>5. CASE l <= Len(t)
    <3>1. CharAt(match, l) = CharAt(t, l) /\ CharAt(match, l) < CharAt(t, l)
      BY <1>4, <2>3, <2>4, <2>5, <1>1 DEF Before
    <3>2. CharAt(t, l) \in Nat
      BY <1>1, <2>3, <2>4, Characters
    <3>3. QED BY <3>1, <3>2
  <2>6. CASE l > Len(t)
    <3>1. l = p /\ k < p
      BY <1>1, <2>2, <2>3, <2>4, <2>6
    <3>2. CharAt(match, k) = CharAt(s, k)
      <4>1. k \in 1 .. (p - 1)
        BY <2>3, <3>1
      <4>2. QED BY <2>1, <4>1 DEF Before
    <3>3. CharAt(match, k) = CharAt(t, k)
      BY <1>1, <1>4, <2>2, <2>3
    <3>4. CharAt(s, k) < CharAt(t, k)
      BY <2>2 DEF Before
    <3>5. CharAt(t, k) \in Nat
      BY <1>1, <2>3, Characters
    <3>6. QED BY <3>2, <3>3, <3>4, <3>5
  <2>7. QED BY <1>1, <2>3, <2>4, <2>5, <2>6
<1>6. ASSUME StringStrncmp(match, s) > 0, j < i PROVE FALSE
  <2>1. PICK p \in 1 .. Len(s) : Before(s, match, p)
    BY <1>1, <1>6, Sides
  <2>2. PICK k \in 1 .. Len(t) : k <= Len(s) /\ Before(t, s, k)
    BY <1>2, <1>6
  <2>3. p \in Nat /\ k \in Nat /\ p >= 1 /\ k >= 1
    BY <1>1
  <2>4. PICK l \in {p, k} : Before(t, match, l)
    BY <1>1, <2>1, <2>2, <2>3, BeforeBefore
  <2>5. CASE l <= Len(t)
    <3>1. CharAt(match, l) = CharAt(t, l) /\ CharAt(t, l) < CharAt(match, l)
      BY <1>4, <2>3, <2>4, <2>5, <1>1 DEF Before
    <3>2. CharAt(t, l) \in Nat
      BY <1>1, <2>3, <2>4, Characters
    <3>3. QED BY <3>1, <3>2
  <2>6. CASE l > Len(t)
    <3>1. l = p /\ k < p
      BY <1>1, <2>2, <2>3, <2>4, <2>6
    <3>2. CharAt(s, k) = CharAt(match, k)
      <4>1. k \in 1 .. (p - 1)
        BY <2>3, <3>1
      <4>2. QED BY <2>1, <4>1 DEF Before
    <3>3. CharAt(match, k) = CharAt(t, k)
      BY <1>4
    <3>4. CharAt(t, k) < CharAt(s, k)
      BY <2>2 DEF Before
    <3>5. CharAt(t, k) \in Nat
      BY <1>1, <2>3, Characters
    <3>6. QED BY <3>2, <3>3, <3>4, <3>5
  <2>7. QED BY <1>1, <2>3, <2>4, <2>5, <2>6
<1>7. QED BY <1>5, <1>6 DEF s, t

(***************************************************************************)
(* bsearch_str_list over any list that a sort may leave finds exactly the  *)
(* texts that begin with a name of the list, so also a longer name that is *)
(* not listed, when the names do not begin with each other.                *)
(***************************************************************************)
THEOREM Search ==
  ASSUME NEW list \in Seq(CString), Sorted(list), Apart(list), NEW match \in Seq(Nat)
  PROVE  FindStrList(list, match) <=> \E i \in DOMAIN list : IsPrefix(list[i], match)
<1> DEFINE n == Len(list)
           K == (0 .. n) \X (0 .. n)
           side(k) == StringStrncmp(match, list[k])
           Step(f, range) ==
             LET low  == range[1]
                 high == range[2]
                 mid  == (low + high) \div 2
             IN /\ low < high
                /\ \/ side(mid + 1) = 0
                   \/ side(mid + 1) < 0 /\ f[<<low, mid>>]
                   \/ side(mid + 1) > 0 /\ f[<<mid + 1, high>>]
           In(low, high) == \E k \in (low + 1) .. high : side(k) = 0
           w == [range \in K |-> In(range[1], range[2])]
           found == CHOOSE f : f = [range \in K |-> Step(f, range)]
<1>1. n \in Nat /\ DOMAIN list = 1 .. n
  OBVIOUS
<1>2. \A k \in 1 .. n : side(k) \in Int /\ (side(k) = 0 <=> IsPrefix(list[k], match))
  <2> TAKE k \in 1 .. n
  <2>1. list[k] \in CString
    OBVIOUS
  <2>2. QED BY <2>1, Sides
<1>3. \A i, j \in 1 .. n : side(j) = 0 => /\ side(i) < 0 => ~(i < j)
                                          /\ side(i) > 0 => ~(j < i)
  <2> TAKE i, j \in 1 .. n
  <2>1. i \in DOMAIN list /\ j \in DOMAIN list
    BY <1>1
  <2>2. side(j) = 0 => IsPrefix(list[j], match)
    BY <1>2
  <2>3. QED BY <2>1, <2>2, OneSide
<1> HIDE DEF side
<1>4. ASSUME NEW low \in 0 .. n, NEW high \in 0 .. n, NEW mid \in Nat, low <= mid, mid < high
      PROVE  /\ mid \in 0 .. n /\ mid + 1 \in 0 .. n
             /\ In(low, high) <=> \/ side(mid + 1) = 0
                                  \/ side(mid + 1) < 0 /\ In(low, mid)
                                  \/ side(mid + 1) > 0 /\ In(mid + 1, high)
  <2>2. mid \in 0 .. n /\ mid + 1 \in 0 .. n /\ mid + 1 \in 1 .. n /\ mid + 1 \in (low + 1) .. high
    BY <1>1, <1>4
  <2>3. side(mid + 1) \in Int
    BY <1>2, <2>2
  <2>4. side(mid + 1) = 0 => In(low, high)
    BY <2>2
  <2>5. side(mid + 1) < 0 => (In(low, high) <=> In(low, mid))
    <3> SUFFICES ASSUME side(mid + 1) < 0 PROVE In(low, high) <=> In(low, mid)
      OBVIOUS
    <3>1. \A k \in (low + 1) .. high : side(k) = 0 => k \in (low + 1) .. mid
      <4> SUFFICES ASSUME NEW k \in (low + 1) .. high, side(k) = 0 PROVE k \in (low + 1) .. mid
        OBVIOUS
      <4>1. k \in 1 .. n
        BY <1>1
      <4>2. ~(mid + 1 < k)
        <5> DEFINE m == mid + 1
        <5>1. m \in 1 .. n /\ side(m) < 0
          BY <2>2
        <5> HIDE DEF m
        <5>2. ~(m < k)
          BY <1>3, <4>1, <5>1
        <5>3. QED BY <5>2 DEF m
      <4>3. k # mid + 1
        OBVIOUS
      <4>4. QED BY <1>1, <1>4, <4>1, <4>2, <4>3
    <3>2. \A k \in (low + 1) .. mid : k \in (low + 1) .. high
      BY <1>1, <1>4
    <3>3. QED BY <3>1, <3>2
  <2>6. side(mid + 1) > 0 => (In(low, high) <=> In(mid + 1, high))
    <3> SUFFICES ASSUME side(mid + 1) > 0 PROVE In(low, high) <=> In(mid + 1, high)
      OBVIOUS
    <3>1. \A k \in (low + 1) .. high : side(k) = 0 => k \in (mid + 1 + 1) .. high
      <4> SUFFICES ASSUME NEW k \in (low + 1) .. high, side(k) = 0 PROVE k \in (mid + 1 + 1) .. high
        OBVIOUS
      <4>1. k \in 1 .. n
        BY <1>1
      <4>2. ~(k < mid + 1)
        <5> DEFINE m == mid + 1
        <5>1. m \in 1 .. n /\ side(m) > 0
          BY <2>2
        <5> HIDE DEF m
        <5>2. ~(k < m)
          BY <1>3, <4>1, <5>1
        <5>3. QED BY <5>2 DEF m
      <4>3. k # mid + 1
        OBVIOUS
      <4>4. QED BY <1>1, <1>4, <4>1, <4>2, <4>3
    <3>2. \A k \in (mid + 1 + 1) .. high : k \in (low + 1) .. high
      BY <1>1, <1>4
    <3>3. QED BY <3>1, <3>2
  <2>7. In(low, high) <=> \/ side(mid + 1) = 0
                          \/ side(mid + 1) < 0 /\ In(low, mid)
                          \/ side(mid + 1) > 0 /\ In(mid + 1, high)
    <3> HIDE DEF In
    <3>1. CASE side(mid + 1) = 0
      BY <2>4, <3>1
    <3>2. CASE side(mid + 1) < 0
      <4>1. ~(side(mid + 1) = 0) /\ ~(side(mid + 1) > 0)
        BY <2>3, <3>2
      <4>2. QED BY <2>5, <3>2, <4>1
    <3>3. CASE side(mid + 1) > 0
      <4>1. ~(side(mid + 1) = 0) /\ ~(side(mid + 1) < 0)
        BY <2>3, <3>3
      <4>2. QED BY <2>6, <3>3, <4>1
    <3>4. QED BY <2>3, <3>1, <3>2, <3>3
  <2>8. QED BY <2>2, <2>7
<1>5. \A range \in K : w[range] <=> Step(w, range)
  <2> SUFFICES ASSUME NEW low \in 0 .. n, NEW high \in 0 .. n
               PROVE  In(low, high) <=> Step(w, <<low, high>>)
    OBVIOUS
  <2> DEFINE mid == (low + high) \div 2
  <2>1. CASE ~(low < high)
    <3>1. (low + 1) .. high = {}
      BY <1>1, <2>1
    <3>2. QED BY <2>1, <3>1
  <2>2. CASE low < high
    <3>0. mid \in Nat /\ low <= mid /\ mid < high
      BY <1>1, <2>2
    <3>1. /\ mid \in 0 .. n /\ mid + 1 \in 0 .. n
          /\ In(low, high) <=> \/ side(mid + 1) = 0
                               \/ side(mid + 1) < 0 /\ In(low, mid)
                               \/ side(mid + 1) > 0 /\ In(mid + 1, high)
      <4> HIDE DEF mid, In
      <4>1. QED BY <1>4, <3>0
    <3> HIDE DEF mid, In
    <3>2. w[<<low, mid>>] = In(low, mid) /\ w[<<mid + 1, high>>] = In(mid + 1, high)
      BY <3>1
    <3> HIDE DEF w
    <3>3. Step(w, <<low, high>>) <=> \/ side(mid + 1) = 0
                                     \/ side(mid + 1) < 0 /\ w[<<low, mid>>]
                                     \/ side(mid + 1) > 0 /\ w[<<mid + 1, high>>]
      BY <2>2 DEF mid
    <3> HIDE DEF Step
    <3>4. QED BY <3>1, <3>2, <3>3
  <2>3. QED BY <2>1, <2>2
<1> HIDE DEF In
<1>6. w = [range \in K |-> Step(w, range)]
  <2>1. \A range \in K : w[range] = Step(w, range)
    <3> TAKE range \in K
    <3>1. w[range] = In(range[1], range[2])
      OBVIOUS
    <3>2. In(range[1], range[2]) \in BOOLEAN
      BY DEF In
    <3>3. Step(w, range) \in BOOLEAN
      OBVIOUS
    <3>4. w[range] <=> Step(w, range)
      BY <1>5
    <3> HIDE DEF w, Step
    <3>5. QED BY <3>1, <3>2, <3>3, <3>4
  <2> HIDE DEF Step
  <2>2. QED BY <2>1
<1>7. found = [range \in K |-> Step(found, range)]
  <2> HIDE DEF w, Step
  <2>1. QED BY <1>6
<1>8. FindStrList(list, match) <=> found[<<0, n>>]
  BY DEF FindStrList, side
<1> HIDE DEF found
<1>9. \A range \in K : found[range] <=> w[range]
  <2> DEFINE bad == {d \in Nat : \E low, high \in 0 .. n :
                       d = high + (n - low) /\ ~(found[<<low, high>>] <=> w[<<low, high>>])}
  <2>1. bad = {}
    <3> SUFFICES ASSUME bad # {} PROVE FALSE
      OBVIOUS
    <3>1. bad \in SUBSET Nat
      OBVIOUS
    <3>2. PICK d \in bad : \A x \in bad : d <= x
      <4> HIDE DEF bad
      <4>1. QED BY <3>1, Smallest
    <3>3. PICK low \in 0 .. n, high \in 0 .. n :
            d = high + (n - low) /\ ~(found[<<low, high>>] <=> w[<<low, high>>])
      BY <3>2
    <3>4. \A l, h \in 0 .. n : h + (n - l) < d => (found[<<l, h>>] <=> w[<<l, h>>])
      <4> SUFFICES ASSUME NEW l \in 0 .. n, NEW h \in 0 .. n, h + (n - l) < d,
                          ~(found[<<l, h>>] <=> w[<<l, h>>])
                   PROVE  FALSE
        OBVIOUS
      <4>0. h + (n - l) \in Nat
        BY <1>1
      <4>1. h + (n - l) \in bad
        BY <4>0
      <4>2. ~(d <= h + (n - l))
        BY <1>1, <3>3
      <4> HIDE DEF bad
      <4>3. QED BY <3>2, <4>1, <4>2
    <3>5. <<low, high>> \in K
      OBVIOUS
    <3>6. found[<<low, high>>] = Step(found, <<low, high>>)
      <4> HIDE DEF Step
      <4>1. QED BY <1>7, <3>5
    <3>7. w[<<low, high>>] <=> Step(w, <<low, high>>)
      BY <1>5, <3>5
    <3> DEFINE mid == (low + high) \div 2
    <3>8. ASSUME low < high
          PROVE  /\ found[<<low, mid>>] <=> w[<<low, mid>>]
                 /\ found[<<mid + 1, high>>] <=> w[<<mid + 1, high>>]
      <4>0. mid \in Nat /\ low <= mid /\ mid < high
        BY <1>1, <3>8
      <4> HIDE DEF mid
      <4>1. mid \in 0 .. n /\ mid + 1 \in 0 .. n /\ low <= mid /\ mid < high
        BY <1>4, <4>0
      <4>2. mid + (n - low) < d /\ high + (n - (mid + 1)) < d
        BY <1>1, <3>3, <4>1
      <4>3. QED BY <3>4, <4>1, <4>2
    <3>9. Step(found, <<low, high>>) <=> Step(w, <<low, high>>)
      <4> HIDE DEF found, w
      <4>1. \A f : Step(f, <<low, high>>) <=>
                     /\ low < high
                     /\ \/ side(mid + 1) = 0
                        \/ side(mid + 1) < 0 /\ f[<<low, mid>>]
                        \/ side(mid + 1) > 0 /\ f[<<mid + 1, high>>]
        BY DEF mid
      <4> HIDE DEF Step, mid
      <4>2. QED BY <3>8, <4>1
    <3> HIDE DEF Step, w
    <3>10. QED BY <3>3, <3>6, <3>7, <3>9
  <2>2. ASSUME NEW low \in 0 .. n, NEW high \in 0 .. n
        PROVE  found[<<low, high>>] <=> w[<<low, high>>]
    <3>1. high + (n - low) \in Nat
      BY <1>1
    <3>2. high + (n - low) \notin bad
      BY <2>1
    <3>3. QED BY <3>1, <3>2
  <2> HIDE DEF w
  <2>3. QED BY <2>2
<1>10. w[<<0, n>>] = In(0, n)
  BY <1>1
<1>11. In(0, n) <=> \E k \in 1 .. n : side(k) = 0
  BY <1>1 DEF In
<1>12. <<0, n>> \in K
  BY <1>1
<1> HIDE DEF w
<1>13. QED BY <1>1, <1>2, <1>8, <1>9, <1>10, <1>11, <1>12

(* What qsort leaves of a list of names.                                     *)
LEMMA SortsAre ==
  ASSUME NEW list \in Seq(CString), NEW sorted \in SortsOf(list)
  PROVE  sorted \in Seq(CString) /\ Sorted(sorted)
<1> DEFINE n == Len(list)
<1>1. n \in Nat /\ DOMAIN list = 1 .. n /\ \A i \in 1 .. n : list[i] \in CString
  OBVIOUS
<1>2. /\ sorted \in Reordered(list)
      /\ \A i \in 1 .. (n - 1) : StringStrncmp(sorted[i], sorted[i + 1]) <= 0
  BY DEF SortsOf, SortsWith
<1>3. PICK p \in Reorderings(list) : sorted = [i \in DOMAIN list |-> list[p[i]]]
  BY <1>2 DEF Reordered
<1>4. p \in [DOMAIN list -> DOMAIN list]
  BY DEF Reorderings
<1> HIDE DEF n
<1>5. sorted \in [1 .. n -> CString]
  BY <1>1, <1>3, <1>4
<1>6. sorted \in Seq(CString) /\ Len(sorted) = n
  BY <1>1, <1>5, SeqDef
<1>7. QED BY <1>2, <1>6 DEF Sorted

Searched == {"file_exts", "skip_directories"}

(* The lists that a run searches once it is configured.                      *)
ListsFit ==
  /\ script = NoScript => conf.file_exts = <<>>
  /\ script # NoScript => \A f \in Searched : conf[f] \in Seq(CString) /\ Sorted(conf[f])

ListInv ==
  /\ script \in Scripts
  /\ status \in Settled => ListsFit

(* The table of a script that is loaded holds names.                         *)
LEMMA TablesAreNames ==
  ASSUME script \in Scripts \ {NoScript}, script.runs, NEW f \in Searched, IsTable(f)
  PROVE  TextsOf(f) \in Seq(CString)
<1>1. f \in {Tables[2], Tables[3]} /\ 2 \in DOMAIN Tables /\ 3 \in DOMAIN Tables
  BY DEF Searched, Tables
<1>2. script[f] = NotTable \/ script[f] \in Seq([type : STRING, text : CString])
  BY <1>1, ConfigAssumption
<1>3. script[f] \in Seq([type : STRING, text : CString])
  BY <1>2 DEF IsTable
<1> DEFINE t == script[f]
<1> HIDE DEF t
<1>4. Len(t) \in Nat /\ DOMAIN t = 1 .. Len(t) /\ \A i \in 1 .. Len(t) : t[i].text \in CString
  <2> DEFINE Names == [type : STRING, text : CString]
  <2>1. t \in Seq(Names)
    BY <1>3 DEF t
  <2> HIDE DEF Names
  <2>2. Len(t) \in Nat /\ DOMAIN t = 1 .. Len(t) /\ \A i \in 1 .. Len(t) : t[i] \in Names
    BY <2>1
  <2>3. \A x \in Names : x.text \in CString
    BY DEF Names
  <2>4. QED BY <2>2, <2>3
<1>5. [i \in 1 .. Len(t) |-> t[i].text] \in [1 .. Len(t) -> CString]
  BY <1>4
<1>6. [i \in 1 .. Len(t) |-> t[i].text] \in Seq(CString)
  BY <1>4, <1>5, SeqDef
<1>7. QED BY <1>4, <1>6 DEF TextsOf, t

LEMMA ListStep ==
  ASSUME ListInv, OptionInv, [Next]_vars
  PROVE  ListInv'
<1>1. script' = script /\ script' \in Scripts
  BY DEF ListInv, ListsFit, Next, ConfigNext, DefaultConfig, ScriptFails, ScriptIsWrong, EntryIsNoString,
     LoadConfig, Usage, TakePath, ParseFlag, ParseNumber, ParseFails, Configured,
     vars, configVars, PathMissing, OneFile, Directory, PassOver,
     CallBack, Descend, EndOfDirectory, Finish, Exited
<1>2. CASE DefaultConfig
  <2>1. script = NoScript /\ conf = Defaults /\ conf' = [conf EXCEPT !["skip_directories"] = DefaultSkip]
    BY <1>2 DEF DefaultConfig, OptionInv
  <2>2. conf'.file_exts = <<>>
    BY <2>1 DEF Defaults
  <2>3. QED BY <1>1, <2>1, <2>2 DEF ListInv, ListsFit
<1>3. CASE LoadConfig
  <2>1. /\ script # NoScript /\ script.runs /\ conf = Defaults
        /\ \A k \in DOMAIN Tables : Pushed(Tables[k])
    BY <1>3 DEF LoadConfig, Loading, OptionInv
  <2>2. IsTable("file_exts") /\ IsTable("skip_directories")
    <3>1. 2 \in DOMAIN Tables /\ 3 \in DOMAIN Tables
          /\ Tables[2] = "skip_directories" /\ Tables[3] = "file_exts"
      BY DEF Tables
    <3>2. QED BY <2>1, <3>1 DEF Pushed
  <2>3. TextsOf("file_exts") \in Seq(CString) /\ TextsOf("skip_directories") \in Seq(CString)
    BY <2>1, <2>2, TablesAreNames DEF ListInv, ListsFit, Searched
  <2>4. PICK exts \in SortsOf(TextsOf("file_exts")), skip \in SortsOf(TextsOf("skip_directories")) :
          \E number \in [Numbers -> U32s] :
            conf' = [f \in DOMAIN conf |->
                       IF f = "file_exts" THEN exts ELSE
                       IF f = "skip_directories" THEN skip ELSE
                       IF f \in Switches THEN script[f] ELSE
                       IF f \in Numbers THEN number[f] ELSE conf[f]]
    BY <1>3 DEF LoadConfig
  <2>5. "file_exts" \in DOMAIN conf /\ "skip_directories" \in DOMAIN conf
    BY <2>1 DEF Defaults
  <2>6. conf'["file_exts"] = exts /\ conf'["skip_directories"] = skip
    BY <2>4, <2>5
  <2>7. /\ exts \in Seq(CString) /\ Sorted(exts)
        /\ skip \in Seq(CString) /\ Sorted(skip)
    BY <2>3, SortsAre
  <2>8. \A f \in Searched : conf'[f] \in Seq(CString) /\ Sorted(conf'[f])
    BY <2>6, <2>7 DEF Searched
  <2>9. QED BY <1>1, <2>1, <2>8 DEF ListInv, ListsFit
<1>4. CASE ParseFlag
  <2>1. PICK o \in DOMAIN Field : o # "wrap_after" /\ conf' = [conf EXCEPT ![Field[o]] = ~@]
    BY <1>4 DEF ParseFlag, Toggled
  <2>2. Field[o] \notin Searched
    BY <2>1 DEF Field, Searched
  <2>3. DOMAIN conf = DOMAIN Defaults
    BY DEF OptionInv
  <2>4. \A f \in Searched : f \in DOMAIN conf
    BY <2>3 DEF Defaults, Searched
  <2>5. \A f \in Searched : conf'[f] = conf[f]
    BY <2>1, <2>2, <2>4
  <2>6. conf'["file_exts"] = conf["file_exts"]
    BY <2>5 DEF Searched
  <2>7. status = "arguments" /\ status' = "arguments"
    BY <1>4 DEF ParseFlag
  <2>8. QED BY <1>1, <2>5, <2>6, <2>7 DEF ListInv, ListsFit, Settled
<1>5. CASE ScriptFails \/ ScriptIsWrong \/ EntryIsNoString \/ Usage \/ ParseFails \/ ParseNumber
  BY <1>1, <1>5 DEF ScriptFails, ScriptIsWrong, EntryIsNoString, Usage, ParseFails, ParseNumber,
     ListInv, ListsFit, Settled
<1>6. ASSUME conf' = conf, status \in Settled PROVE ListInv'
  BY <1>1, <1>6 DEF ListInv, ListsFit
<1>7. CASE TakePath \/ Configured
  BY <1>6, <1>7 DEF TakePath, Configured, Settled
<1>8. CASE PathMissing \/ OneFile \/ Directory
  BY <1>6, <1>8 DEF PathMissing, OneFile, Directory, Settled
<1>9. ASSUME NEW e \in DOMAIN tree, PassOver(e) \/ CallBack(e) \/ Descend(e) PROVE ListInv'
  BY <1>6, <1>9 DEF PassOver, CallBack, Descend, Reading, configVars, Settled
<1>10. CASE EndOfDirectory \/ Finish
  BY <1>6, <1>10 DEF EndOfDirectory, Finish, configVars, Settled
<1>11. CASE UNCHANGED vars
  BY <1>11 DEF vars, configVars, ListInv, ListsFit
<1>12. QED BY <1>2, <1>3, <1>4, <1>5, <1>7, <1>8, <1>9, <1>10, <1>11 DEF Next, ConfigNext, Exited

LEMMA ListsInvariant == Spec => []ListInv
<1>1. Init => OptionInv
  BY OptionStart
<1>2. Init => ListInv
  BY DEF Init, ListInv, ListsFit, Settled
<1>3. OptionInv /\ [Next]_vars => OptionInv'
  BY OptionStep
<1>4. ListInv /\ OptionInv /\ [Next]_vars => ListInv'
  BY ListStep
<1>5. QED BY <1>1, <1>2, <1>3, <1>4, PTL DEF Spec

(***************************************************************************)
(* Whatever names .csortconfig lists and whatever order qsort leaves them  *)
(* in, the binary search comes by each, when none begins with another.     *)
(***************************************************************************)
THEOREM EachListedIsFound == Spec => []ListedIsFound
<1>1. ListInv => ListedIsFound
  <2> SUFFICES ASSUME ListInv, Loaded, NEW f \in Searched, Apart(conf[f]), NEW i \in DOMAIN conf[f]
               PROVE  FindStrList(conf[f], conf[f][i])
    BY DEF ListedIsFound, Searched
  <2>1. conf[f] \in Seq(CString) /\ Sorted(conf[f])
    BY DEF Loaded, ListInv, ListsFit, Settled
  <2> DEFINE list == conf[f]
  <2> HIDE DEF list
  <2>2. list[i] \in CString /\ i \in DOMAIN list
    BY <2>1 DEF list
  <2>3. list[i] \in Seq(Nat) /\ IsPrefix(list[i], list[i])
    <3>1. list[i] \in Seq(Nat) /\ Len(list[i]) \in Nat
      BY <2>2, StringIsName
    <3>2. QED BY <3>1 DEF IsPrefix
  <2>4. FindStrList(list, list[i])
    <3>1. list \in Seq(CString) /\ Sorted(list) /\ Apart(list)
      BY <2>1 DEF list
    <3>2. FindStrList(list, list[i]) <=> \E j \in DOMAIN list : IsPrefix(list[j], list[i])
      BY <2>3, <3>1, Search
    <3>3. QED BY <2>2, <2>3, <3>2
  <2>5. QED BY <2>4 DEF list
<1>2. QED BY <1>1, ListsInvariant, PTL

-----------------------------------------------------------------------------
(* The tree                                                                 *)

Up == [e \in DOMAIN tree |-> IF e = Root THEN Root ELSE tree[e].parent]

LEMMA TreeIsRooted ==
  ASSUME TreeOK(tree)
  PROVE  /\ Rooted(DOMAIN tree, Root, Up)
         /\ \A e \in DOMAIN tree : e # Root => Up[e] = tree[e].parent /\ Up[e] \in DOMAIN tree
<1>1. /\ Root \in DOMAIN tree
      /\ \A e \in DOMAIN tree : e = Root \/ tree[e].parent \in DOMAIN tree
      /\ \A below \in SUBSET (DOMAIN tree \ {Root}) :
           below # {} => \E e \in below : tree[e].parent \notin below
  BY DEF TreeOK
<1>2. Up \in [DOMAIN tree -> DOMAIN tree] /\ \A e \in DOMAIN tree : e # Root => Up[e] = tree[e].parent
  BY <1>1 DEF Up
<1>3. \A below \in SUBSET (DOMAIN tree \ {Root}) : below # {} => \E e \in below : Up[e] \notin below
  <2> TAKE below \in SUBSET (DOMAIN tree \ {Root})
  <2>1. ASSUME below # {} PROVE \E e \in below : Up[e] \notin below
    <3>1. PICK e \in below : tree[e].parent \notin below
      BY <1>1, <2>1
    <3>2. Up[e] = tree[e].parent
      BY <1>2
    <3>3. QED BY <3>1, <3>2
  <2>2. QED BY <2>1
<1>4. QED BY <1>1, <1>2, <1>3 DEF Rooted

(* The path of an entry is a string, that of its directory before its name.  *)
LEMMA PathIs ==
  ASSUME TreeOK(tree)
  PROVE  \A e \in DOMAIN tree :
           /\ Path[e] \in Seq(Nat)
           /\ Path[e] = IF e = Root THEN tree[e].name
                        ELSE Path[tree[e].parent] \o <<Slash>> \o tree[e].name
<1> DEFINE D == DOMAIN tree
           V == Seq(Nat)
           base == tree[Root].name
           step == [x \in D \X V |-> x[2] \o <<Slash>> \o tree[x[1]].name]
           Eqn(f, e) == IF e = Root THEN tree[e].name
                        ELSE f[tree[e].parent] \o <<Slash>> \o tree[e].name
           path == CHOOSE f : f = [e \in D |-> Eqn(f, e)]
<1>1. \A e \in D : tree[e].name \in V
  <2>1. \A e \in D : tree[e].name \in CString
    BY DEF TreeOK
  <2>2. QED BY <2>1, StringIsName
<1>2. Rooted(D, Root, Up) /\ \A e \in D : e # Root => Up[e] = tree[e].parent /\ Up[e] \in D
  BY TreeIsRooted
<1>3. base \in V /\ step \in [D \X V -> V]
  <2>1. Root \in D
    BY <1>2 DEF Rooted
  <2>2. \A v, n \in V : v \o <<Slash>> \o n \in V
    <3> TAKE v, n \in V
    <3>1. <<Slash>> \in Seq(Nat)
      BY DEF Slash
    <3>2. QED BY <3>1
  <2> HIDE DEF V
  <2>3. QED BY <1>1, <2>1, <2>2
<1> HIDE DEF V
<1>4. PICK f \in [D -> V] : Along(f, D, Root, Up, base, step)
  <2> HIDE DEF D, base, step
  <2>1. QED BY <1>2, <1>3, TreeRecursion
<1>5. \A e \in D : f[e] = Eqn(f, e)
  <2> TAKE e \in D
  <2>0. f[e] = IF e = Root THEN base ELSE step[<<e, f[Up[e]]>>]
    <3> HIDE DEF base, step
    <3>1. QED BY <1>4 DEF Along
  <2>1. CASE e = Root
    BY <2>0, <2>1
  <2>2. CASE e # Root
    <3>1. Up[e] = tree[e].parent /\ f[Up[e]] \in V
      BY <1>2, <1>4, <2>2
    <3>2. step[<<e, f[Up[e]]>>] = f[Up[e]] \o <<Slash>> \o tree[e].name
      BY <3>1
    <3> HIDE DEF step, base
    <3>3. QED BY <2>0, <2>2, <3>1, <3>2
  <2>3. QED BY <2>1, <2>2
<1>6. f = [e \in D |-> Eqn(f, e)]
  <2> HIDE DEF Eqn
  <2>1. f = [e \in D |-> f[e]]
    BY <1>4
  <2>2. QED BY <1>5, <2>1
<1>7. path = [e \in D |-> Eqn(path, e)]
  <2> HIDE DEF Eqn
  <2>1. QED BY <1>6
<1>8. Path = path
  BY DEF Path
<1> HIDE DEF path
<1>9. \A e \in D : path[e] = f[e]
  <2> DEFINE bad == {e \in D : path[e] # f[e]}
  <2>1. \A e \in D : path[e] = Eqn(path, e)
    <3> HIDE DEF Eqn
    <3>1. QED BY <1>7
  <2>2. bad \in SUBSET (D \ {Root})
    <3>1. Root \in D => path[Root] = f[Root]
      BY <1>5, <2>1
    <3>2. QED BY <3>1
  <2>3. ASSUME bad # {} PROVE FALSE
    <3>1. PICK e \in bad : Up[e] \notin bad
      <4> HIDE DEF bad
      <4>1. QED BY <1>2, <2>2, <2>3 DEF Rooted
    <3>2. e \in D /\ e # Root /\ path[e] # f[e] /\ Up[e] = tree[e].parent /\ Up[e] \in D
      BY <1>2, <2>2, <3>1
    <3>3. path[tree[e].parent] = f[tree[e].parent]
      BY <3>1, <3>2
    <3>4. QED BY <1>5, <2>1, <3>2, <3>3
  <2>4. QED BY <2>3
<1>10. \A e \in D : path[e] = Eqn(path, e)
  <2> HIDE DEF Eqn
  <2>1. QED BY <1>7
<1>11. QED BY <1>4, <1>8, <1>9, <1>10 DEF V

LEMMA BetweenIs ==
  ASSUME TreeOK(tree)
  PROVE  \A e \in DOMAIN tree :
           /\ Between[e] \subseteq DOMAIN tree
           /\ Between[e] = IF e = Root \/ tree[e].parent = Root THEN {}
                           ELSE {tree[e].parent} \cup Between[tree[e].parent]
<1> DEFINE D == DOMAIN tree
           V == SUBSET D
           base == {}
           step == [x \in D \X V |-> IF tree[x[1]].parent = Root THEN {} ELSE {Up[x[1]]} \cup x[2]]
           Eqn(f, e) == IF e = Root \/ tree[e].parent = Root THEN {}
                        ELSE {tree[e].parent} \cup f[tree[e].parent]
           above == CHOOSE f : f = [e \in D |-> Eqn(f, e)]
<1>2. Rooted(D, Root, Up) /\ \A e \in D : e # Root => Up[e] = tree[e].parent /\ Up[e] \in D
  BY TreeIsRooted
<1>3. base \in V /\ step \in [D \X V -> V]
  <2>1. \A e \in D : Up[e] \in D
    BY <1>2 DEF Rooted
  <2>2. QED BY <2>1
<1>4. PICK f \in [D -> V] : Along(f, D, Root, Up, base, step)
  <2> HIDE DEF D, base, step, V
  <2>1. QED BY <1>2, <1>3, TreeRecursion
<1>5. \A e \in D : f[e] = Eqn(f, e)
  <2> TAKE e \in D
  <2>0. f[e] = IF e = Root THEN base ELSE step[<<e, f[Up[e]]>>]
    <3> HIDE DEF base, step
    <3>1. QED BY <1>4 DEF Along
  <2>1. CASE e = Root
    BY <2>0, <2>1
  <2>2. CASE e # Root
    <3>1. Up[e] = tree[e].parent /\ f[Up[e]] \in V
      BY <1>2, <1>4, <2>2
    <3>2. step[<<e, f[Up[e]]>>] = IF tree[e].parent = Root THEN {} ELSE {Up[e]} \cup f[Up[e]]
      BY <3>1
    <3> HIDE DEF step, base
    <3>3. QED BY <2>0, <2>2, <3>1, <3>2
  <2>3. QED BY <2>1, <2>2
<1>6. f = [e \in D |-> Eqn(f, e)]
  <2> HIDE DEF Eqn
  <2>1. f = [e \in D |-> f[e]]
    BY <1>4
  <2>2. QED BY <1>5, <2>1
<1>7. above = [e \in D |-> Eqn(above, e)]
  <2> HIDE DEF Eqn
  <2>1. QED BY <1>6
<1>8. Between = above
  BY DEF Between
<1> HIDE DEF above
<1>9. \A e \in D : above[e] = Eqn(above, e)
  <2> HIDE DEF Eqn
  <2>1. QED BY <1>7
<1>10. \A e \in D : above[e] \in V
  <2> DEFINE bad == {e \in D : above[e] \notin V}
  <2>2. bad \in SUBSET (D \ {Root})
    BY <1>9
  <2>3. ASSUME bad # {} PROVE FALSE
    <3>1. PICK e \in bad : Up[e] \notin bad
      <4> HIDE DEF bad
      <4>1. QED BY <1>2, <2>2, <2>3 DEF Rooted
    <3>2. e \in D /\ e # Root /\ above[e] \notin V /\ Up[e] = tree[e].parent /\ Up[e] \in D
      BY <1>2, <2>2, <3>1
    <3>3. above[tree[e].parent] \in V
      BY <3>1, <3>2
    <3>4. QED BY <1>9, <3>2, <3>3
  <2>4. QED BY <2>3
<1>11. QED BY <1>8, <1>9, <1>10

(* What lies between an entry and the root are directories; they lie, in     *)
(* turn, one in another.                                                     *)
LEMMA BetweenAre ==
  ASSUME TreeOK(tree)
  PROVE  \A e \in DOMAIN tree : \A d \in Between[e] :
           /\ d \in DOMAIN tree /\ d # Root /\ tree[d].kind = "directory"
           /\ Between[d] \subseteq Between[e]
<1> DEFINE D == DOMAIN tree
           OK(e) == \A d \in Between[e] : /\ d \in D /\ d # Root /\ tree[d].kind = "directory"
                                         /\ Between[d] \subseteq Between[e]
           bad == {e \in D : ~OK(e)}
<1>1. /\ Rooted(D, Root, Up) /\ \A e \in D : e # Root => Up[e] = tree[e].parent /\ Up[e] \in D
      /\ \A e \in D : Between[e] = IF e = Root \/ tree[e].parent = Root THEN {}
                                   ELSE {tree[e].parent} \cup Between[tree[e].parent]
      /\ \A e \in D : e # Root => tree[tree[e].parent].kind = "directory"
  BY TreeIsRooted, BetweenIs DEF TreeOK
<1>2. bad \in SUBSET (D \ {Root})
  BY <1>1
<1>3. ASSUME bad # {} PROVE FALSE
  <2>1. PICK e \in bad : Up[e] \notin bad
    <3> HIDE DEF bad
    <3>1. QED BY <1>1, <1>2, <1>3 DEF Rooted
  <2>2. e \in D /\ e # Root /\ ~OK(e) /\ Up[e] = tree[e].parent /\ Up[e] \in D
    BY <1>1, <1>2, <2>1
  <2> DEFINE p == tree[e].parent
  <2>3. p # Root
    BY <1>1, <2>2
  <2>4. OK(p) /\ p \in D /\ tree[p].kind = "directory" /\ Between[e] = {p} \cup Between[p]
    <3>1. OK(p) /\ p \in D
      BY <2>1, <2>2
    <3>2. tree[p].kind = "directory" /\ Between[e] = {p} \cup Between[p]
      BY <1>1, <2>2, <2>3
    <3>3. QED BY <3>1, <3>2
  <2> HIDE DEF p
  <2>5. OK(e)
    BY <2>3, <2>4
  <2>6. QED BY <2>2, <2>5
<1>4. QED BY <1>3

LEMMA NotBetween ==
  ASSUME TreeOK(tree)
  PROVE  \A e \in DOMAIN tree : e \notin Between[e]
<1> DEFINE D == DOMAIN tree
           bad == {e \in D : e \in Between[e]}
<1>1. /\ Rooted(D, Root, Up) /\ \A e \in D : e # Root => Up[e] = tree[e].parent /\ Up[e] \in D
      /\ \A e \in D : Between[e] = IF e = Root \/ tree[e].parent = Root THEN {}
                                   ELSE {tree[e].parent} \cup Between[tree[e].parent]
  BY TreeIsRooted, BetweenIs
<1>2. bad \in SUBSET (D \ {Root})
  BY <1>1
<1>3. ASSUME bad # {} PROVE FALSE
  <2>1. PICK e \in bad : Up[e] \notin bad
    <3> HIDE DEF bad
    <3>1. QED BY <1>1, <1>2, <1>3 DEF Rooted
  <2>2. e \in D /\ e # Root /\ e \in Between[e] /\ Up[e] = tree[e].parent /\ Up[e] \in D
    BY <1>1, <1>2, <2>1
  <2> DEFINE p == tree[e].parent
  <2>3. p # Root /\ Between[e] = {p} \cup Between[p]
    BY <1>1, <2>2
  <2>4. p \in D /\ p \notin Between[p]
    BY <2>1, <2>2
  <2> HIDE DEF p
  <2>5. p # e /\ e \in Between[p]
    BY <2>2, <2>3, <2>4
  <2>6. Between[e] \subseteq Between[p]
    BY <2>4, <2>5, BetweenAre
  <2>7. QED BY <2>3, <2>4, <2>6
<1>4. QED BY <1>3

(* Below a directory, an entry is in it or in one that is in it.             *)
LEMMA NextBelow ==
  ASSUME TreeOK(tree)
  PROVE  \A x \in DOMAIN tree \ {Root} : \A a \in Between[x] \cup {Root} :
           tree[x].parent = a \/ \E d \in Between[x] : tree[d].parent = a
<1> DEFINE D == DOMAIN tree
           OK(x) == \A a \in Between[x] \cup {Root} :
                      tree[x].parent = a \/ \E d \in Between[x] : tree[d].parent = a
           bad == {x \in D \ {Root} : ~OK(x)}
<1>1. /\ Rooted(D, Root, Up) /\ \A e \in D : e # Root => Up[e] = tree[e].parent /\ Up[e] \in D
      /\ \A e \in D : Between[e] = IF e = Root \/ tree[e].parent = Root THEN {}
                                   ELSE {tree[e].parent} \cup Between[tree[e].parent]
  BY TreeIsRooted, BetweenIs
<1>2. bad \in SUBSET (D \ {Root})
  OBVIOUS
<1>3. ASSUME bad # {} PROVE FALSE
  <2>1. PICK e \in bad : Up[e] \notin bad
    <3> HIDE DEF bad
    <3>1. QED BY <1>1, <1>2, <1>3 DEF Rooted
  <2>2. e \in D /\ e # Root /\ ~OK(e) /\ Up[e] = tree[e].parent /\ Up[e] \in D
    BY <1>1, <1>2, <2>1
  <2> DEFINE p == tree[e].parent
  <2>3. CASE p = Root
    <3>1. Between[e] = {}
      BY <1>1, <2>2, <2>3
    <3>2. OK(e)
      BY <2>3, <3>1
    <3>3. QED BY <2>2, <3>2
  <2>4. CASE p # Root
    <3>1. Between[e] = {p} \cup Between[p] /\ p \in D /\ OK(p)
      BY <1>1, <2>1, <2>2, <2>4
    <3>2. \A a \in Between[e] \cup {Root} : p = a \/ \E d \in Between[e] : tree[d].parent = a
      <4> HIDE DEF p
      <4>1. QED BY <3>1
    <3>3. QED BY <2>2, <3>2
  <2>5. QED BY <2>3, <2>4
<1>4. QED BY <1>3

-----------------------------------------------------------------------------
(* The tour of a directory                                                  *)

(* The files that a run would come by and call back for, and the directories *)
(* it would enter, if "closed" are those that it cannot open.                *)
Open(d, closed) == d \notin closed /\ Fits(d) /\ ~Skipped(d)
Eligible(e, closed) ==
  /\ e # Root /\ tree[e].kind = "file" /\ Fits(e) /\ Selected(e)
  /\ Root \notin closed
  /\ conf.recursive_apply \/ Between[e] = {}
  /\ \A d \in Between[e] : Open(d, closed)
Entered(d, closed) ==
  /\ d \in DOMAIN tree /\ tree[d].kind = "directory" /\ Root \notin closed
  /\ d = Root \/ (conf.recursive_apply /\ \A b \in Between[d] \cup {d} : Open(b, closed))

(* What is still to be read, or lies below something that is.                *)
Pending(calls, e) == \E i \in DOMAIN calls : e \in calls[i].unread
Awaiting(calls, e) == Pending(calls, e) \/ \E d \in Between[e] : Pending(calls, d)

(* The files sorted are the eligible ones that are not awaiting any more; no *)
(* directory is read in two calls, and none that is read or cannot be opened *)
(* will be read again.                                                       *)
Tour(calls, sorted, closed) ==
  /\ ToSet(sorted) = {e \in DOMAIN tree : Eligible(e, closed) /\ ~Awaiting(calls, e)}
  /\ IsInjective(sorted)
  /\ \A i \in DOMAIN calls : /\ Entered(calls[i].directory, closed)
                             /\ ~Awaiting(calls, calls[i].directory)
  /\ \A i, j \in DOMAIN calls : calls[i].directory = calls[j].directory => i = j
  /\ \A d \in closed : d \in DOMAIN tree /\ ~Awaiting(calls, d)

TourInv ==
  /\ status \in {"config", "arguments", "configured"} => unopened = {}
  /\ status = "walking" /\ tree[Root].kind = "directory" => Tour(dirs, handled, unopened)

LEMMA CallsAre ==
  ASSUME NEW e, dirs \in Seq(Calls), Reading(e)
  PROVE  /\ Len(dirs) \in Nat /\ Len(dirs) \in DOMAIN dirs /\ e \in dirs[Len(dirs)].unread
         /\ DOMAIN After(e) = DOMAIN dirs /\ After(e) \in Seq(Calls)
         /\ \A i \in DOMAIN dirs :
              /\ After(e)[i].directory = dirs[i].directory
              /\ After(e)[i].unread = IF i = Len(dirs) THEN dirs[i].unread \ {e} ELSE dirs[i].unread
<1> DEFINE n == Len(dirs)
           last == [directory |-> Top.directory, unread |-> Top.unread \ {e}]
<1>1. n \in Nat /\ DOMAIN dirs = 1 .. n /\ n # 0 /\ e \in Top.unread
  BY DEF Reading
<1> HIDE DEF n
<1>2. n \in 1 .. n /\ n - 1 \in Nat /\ n - 1 <= n
  BY <1>1
<1>3. Top = dirs[n] /\ Top \in Calls
  BY <1>1, <1>2 DEF Top, n
<1>4. last \in Calls /\ last.directory = Top.directory /\ last.unread = Top.unread \ {e}
  BY <1>3 DEF Calls
<1>5. Back \in Seq(Calls) /\ Len(Back) = n - 1 /\ \A i \in 1 .. (n - 1) : Back[i] = dirs[i]
  <2>1. \A m \in Nat : m <= Len(dirs) =>
          /\ SubSeq(dirs, 1, m) \in Seq(Calls) /\ Len(SubSeq(dirs, 1, m)) = m
          /\ \A i \in 1 .. m : SubSeq(dirs, 1, m)[i] = dirs[i]
    OBVIOUS
  <2>2. Back = SubSeq(dirs, 1, n - 1)
    BY DEF Back, n
  <2>3. QED BY <1>2, <2>1, <2>2 DEF n
<1> HIDE DEF last
<1>6. After(e) = Append(Back, last)
  BY DEF After, last
<1>7. /\ After(e) \in Seq(Calls) /\ Len(After(e)) = (n - 1) + 1
      /\ \A i \in 1 .. (n - 1) : After(e)[i] = Back[i]
      /\ After(e)[(n - 1) + 1] = last
  BY <1>4, <1>5, <1>6, AppendFacts
<1>8. (n - 1) + 1 = n
  BY <1>1
<1>9. DOMAIN After(e) = 1 .. n
  BY <1>7, <1>8
<1>10. ASSUME NEW i \in DOMAIN dirs
       PROVE  /\ After(e)[i].directory = dirs[i].directory
              /\ After(e)[i].unread = IF i = n THEN dirs[i].unread \ {e} ELSE dirs[i].unread
  <2>1. CASE i = n
    BY <1>3, <1>4, <1>7, <1>8, <2>1
  <2>2. CASE i # n
    <3>1. i \in 1 .. (n - 1)
      BY <1>1, <2>2
    <3>2. After(e)[i] = dirs[i]
      BY <1>5, <1>7, <3>1
    <3>3. QED BY <2>2, <3>2
  <2>3. QED BY <2>1, <2>2
<1>11. QED BY <1>1, <1>2, <1>3, <1>7, <1>9, <1>10 DEF n

(* Once an entry is read, it is not awaiting; nothing else has changed but   *)
(* for what lies below it.                                                   *)
LEMMA AfterReading ==
  ASSUME NEW e, TreeOK(tree), dirs \in Seq(Calls), Within(dirs), Reading(e),
         Tour(dirs, handled, unopened)
  PROVE  /\ e \in DOMAIN tree /\ e # Root /\ Entered(tree[e].parent, unopened)
         /\ Awaiting(dirs, e) /\ ~Awaiting(After(e), e)
         /\ \A x : Awaiting(After(e), x) => Awaiting(dirs, x)
         /\ \A x : Awaiting(dirs, x) /\ ~Awaiting(After(e), x) => x = e \/ e \in Between[x]
         /\ \A x : e \in Between[x] => Awaiting(dirs, x)
         /\ \A i \in DOMAIN After(e) :
              /\ Entered(After(e)[i].directory, unopened)
              /\ ~Awaiting(dirs, After(e)[i].directory)
         /\ \A i, j \in DOMAIN After(e) : After(e)[i].directory = After(e)[j].directory => i = j
<1> DEFINE n == Len(dirs)
           c == After(e)
<1>1. /\ n \in Nat /\ n \in DOMAIN dirs /\ e \in dirs[n].unread
      /\ DOMAIN c = DOMAIN dirs
      /\ \A i \in DOMAIN dirs :
           /\ c[i].directory = dirs[i].directory
           /\ c[i].unread = IF i = n THEN dirs[i].unread \ {e} ELSE dirs[i].unread
  BY CallsAre
<1> HIDE DEF n, c
<1>2. /\ \A i \in DOMAIN dirs : /\ Entered(dirs[i].directory, unopened)
                               /\ ~Awaiting(dirs, dirs[i].directory)
      /\ \A i, j \in DOMAIN dirs : dirs[i].directory = dirs[j].directory => i = j
  BY DEF Tour
<1>3. \A i \in DOMAIN dirs : \A x \in dirs[i].unread :
        x \in DOMAIN tree /\ x # Root /\ tree[x].parent = dirs[i].directory
  BY DEF Within, Children
<1>4. e \in DOMAIN tree /\ e # Root /\ tree[e].parent = dirs[n].directory
  BY <1>1, <1>3
<1>5. \A x : Pending(c, x) => Pending(dirs, x)
  BY <1>1 DEF Pending
<1>6. \A x : Pending(dirs, x) => x = e \/ Pending(c, x)
  BY <1>1 DEF Pending
<1>7. Pending(dirs, e)
  BY <1>1 DEF Pending
<1>8. ~Pending(c, e)
  <2> SUFFICES ASSUME NEW i \in DOMAIN dirs, e \in c[i].unread PROVE FALSE
    BY <1>1 DEF Pending
  <2>1. e \in dirs[i].unread /\ i # n
    BY <1>1
  <2>2. dirs[i].directory = dirs[n].directory
    BY <1>3, <1>4, <2>1
  <2>3. QED BY <1>1, <1>2, <2>1, <2>2
<1>9. ~\E d \in Between[e] : Pending(c, d)
  <2> SUFFICES ASSUME NEW d \in Between[e], Pending(dirs, d) PROVE FALSE
    BY <1>5
  <2>1. tree[e].parent # Root /\ Between[e] = {tree[e].parent} \cup Between[tree[e].parent]
    BY <1>4, BetweenIs
  <2>2. ~Awaiting(dirs, tree[e].parent)
    BY <1>1, <1>2, <1>4
  <2>3. QED BY <2>1, <2>2 DEF Awaiting
<1>10. Awaiting(dirs, e) /\ ~Awaiting(c, e)
  BY <1>7, <1>8, <1>9 DEF Awaiting
<1>11. /\ \A x : Awaiting(c, x) => Awaiting(dirs, x)
       /\ \A x : Awaiting(dirs, x) /\ ~Awaiting(c, x) => x = e \/ e \in Between[x]
       /\ \A x : e \in Between[x] => Awaiting(dirs, x)
  BY <1>5, <1>6, <1>7 DEF Awaiting
<1>12. Entered(tree[e].parent, unopened)
  BY <1>1, <1>2, <1>4
<1>13. /\ \A i \in DOMAIN c : /\ Entered(c[i].directory, unopened)
                              /\ ~Awaiting(dirs, c[i].directory)
       /\ \A i, j \in DOMAIN c : c[i].directory = c[j].directory => i = j
  BY <1>1, <1>2
<1>14. QED BY <1>4, <1>10, <1>11, <1>12, <1>13 DEF c

(* What lies between an entry and the root is open when it is read.          *)
LEMMA WayIsOpen ==
  ASSUME NEW e \in DOMAIN tree, e # Root, TreeOK(tree), Entered(tree[e].parent, unopened)
  PROVE  /\ Root \notin unopened
         /\ conf.recursive_apply \/ Between[e] = {}
         /\ \A d \in Between[e] : Open(d, unopened)
<1>1. Between[e] = IF tree[e].parent = Root THEN {} ELSE {tree[e].parent} \cup Between[tree[e].parent]
  BY BetweenIs
<1>2. QED BY <1>1 DEF Entered

(* An entry is passed over: neither it nor what lies below it is eligible.   *)
LEMMA TourPasses ==
  ASSUME NEW e, TreeOK(tree), dirs \in Seq(Calls), Within(dirs), Reading(e),
         Tour(dirs, handled, unopened),
         ~Eligible(e, unopened), \A x \in DOMAIN tree : e \in Between[x] => ~Eligible(x, unopened)
  PROVE  Tour(After(e), handled, unopened)
<1> DEFINE c == After(e)
<1>1. /\ \A x : Awaiting(c, x) => Awaiting(dirs, x)
      /\ \A x : Awaiting(dirs, x) /\ ~Awaiting(c, x) => x = e \/ e \in Between[x]
      /\ \A i \in DOMAIN c : /\ Entered(c[i].directory, unopened)
                             /\ ~Awaiting(dirs, c[i].directory)
      /\ \A i, j \in DOMAIN c : c[i].directory = c[j].directory => i = j
  BY AfterReading
<1>2. /\ ToSet(handled) = {x \in DOMAIN tree : Eligible(x, unopened) /\ ~Awaiting(dirs, x)}
      /\ IsInjective(handled)
      /\ \A d \in unopened : d \in DOMAIN tree /\ ~Awaiting(dirs, d)
  BY DEF Tour
<1> HIDE DEF c
<1>3. \A x \in DOMAIN tree : Eligible(x, unopened) => (Awaiting(c, x) <=> Awaiting(dirs, x))
  BY <1>1
<1>4. ToSet(handled) = {x \in DOMAIN tree : Eligible(x, unopened) /\ ~Awaiting(c, x)}
  BY <1>2, <1>3
<1>5. Tour(c, handled, unopened)
  BY <1>1, <1>2, <1>4 DEF Tour
<1>6. QED BY <1>5 DEF c

(* A file is called back for, and sorted.                                    *)
LEMMA TourSorts ==
  ASSUME NEW e, TreeOK(tree), dirs \in Seq(Calls), Within(dirs), Reading(e),
         Tour(dirs, handled, unopened), handled \in Seq(DOMAIN tree),
         tree[e].kind = "file", Fits(e), Selected(e)
  PROVE  Tour(After(e), Append(handled, e), unopened)
<1> DEFINE c == After(e)
           h == Append(handled, e)
<1>1. /\ e \in DOMAIN tree /\ e # Root /\ Entered(tree[e].parent, unopened)
      /\ Awaiting(dirs, e) /\ ~Awaiting(c, e)
      /\ \A x : Awaiting(c, x) => Awaiting(dirs, x)
      /\ \A x : Awaiting(dirs, x) /\ ~Awaiting(c, x) => x = e \/ e \in Between[x]
      /\ \A i \in DOMAIN c : /\ Entered(c[i].directory, unopened)
                             /\ ~Awaiting(dirs, c[i].directory)
      /\ \A i, j \in DOMAIN c : c[i].directory = c[j].directory => i = j
  BY AfterReading
<1>2. /\ ToSet(handled) = {x \in DOMAIN tree : Eligible(x, unopened) /\ ~Awaiting(dirs, x)}
      /\ IsInjective(handled)
      /\ \A d \in unopened : d \in DOMAIN tree /\ ~Awaiting(dirs, d)
  BY DEF Tour
<1>3. Eligible(e, unopened)
  BY <1>1, WayIsOpen DEF Eligible
<1>4. \A x \in DOMAIN tree : e \notin Between[x]
  BY BetweenAre
<1>5. e \notin ToSet(handled)
  BY <1>1, <1>2
<1>6. IsInjective(h) /\ ToSet(h) = ToSet(handled) \cup {e}
  <2>0. \A s \in Seq(DOMAIN tree) : ToSet(s) = Entries(s)
    BY DEF ToSet, Entries
  <2>1. e \notin Entries(handled)
    BY <1>5, <2>0
  <2>2. /\ h \in Seq(DOMAIN tree) /\ Entries(h) = Entries(handled) \cup {e} /\ IsInjective(h)
    BY <1>1, <1>2, <2>1, AppendFacts
  <2> HIDE DEF h
  <2>3. QED BY <2>0, <2>2
<1> HIDE DEF c, h
<1>7. \A x \in DOMAIN tree : ~Awaiting(c, x) <=> (~Awaiting(dirs, x) \/ x = e)
  BY <1>1, <1>4
<1>8. ToSet(h) = {x \in DOMAIN tree : Eligible(x, unopened) /\ ~Awaiting(c, x)}
  BY <1>1, <1>2, <1>3, <1>6, <1>7
<1>9. Tour(c, h, unopened)
  BY <1>1, <1>6, <1>8 DEF Tour
<1>10. QED BY <1>9 DEF c, h

(* A directory cannot be opened: what lies below it is eligible no more.      *)
LEMMA TourShut ==
  ASSUME NEW e, TreeOK(tree), dirs \in Seq(Calls), Within(dirs), Reading(e),
         Tour(dirs, handled, unopened), tree[e].kind = "directory"
  PROVE  Tour(After(e), handled, unopened \cup {e})
<1> DEFINE c == After(e)
           u == unopened \cup {e}
<1>1. /\ e \in DOMAIN tree /\ e # Root
      /\ Awaiting(dirs, e) /\ ~Awaiting(c, e)
      /\ \A x : Awaiting(c, x) => Awaiting(dirs, x)
      /\ \A x : Awaiting(dirs, x) /\ ~Awaiting(c, x) => x = e \/ e \in Between[x]
      /\ \A x : e \in Between[x] => Awaiting(dirs, x)
      /\ \A i \in DOMAIN c : /\ Entered(c[i].directory, unopened)
                             /\ ~Awaiting(dirs, c[i].directory)
      /\ \A i, j \in DOMAIN c : c[i].directory = c[j].directory => i = j
  BY AfterReading
<1>2. /\ ToSet(handled) = {x \in DOMAIN tree : Eligible(x, unopened) /\ ~Awaiting(dirs, x)}
      /\ IsInjective(handled)
      /\ \A d \in unopened : d \in DOMAIN tree /\ ~Awaiting(dirs, d)
  BY DEF Tour
<1> HIDE DEF c
<1>3. \A x \in DOMAIN tree : Eligible(x, u) <=> Eligible(x, unopened) /\ e \notin Between[x]
  BY <1>1 DEF Eligible, Open
<1>4. \A x : Entered(x, unopened) /\ ~Awaiting(dirs, x) => Entered(x, u)
  <2> SUFFICES ASSUME NEW x, Entered(x, unopened), ~Awaiting(dirs, x) PROVE Entered(x, u)
    OBVIOUS
  <2>1. x # e /\ e \notin Between[x]
    BY <1>1
  <2>2. QED BY <1>1, <2>1 DEF Entered, Open
<1>5. \A x : Eligible(x, unopened) => x # e
  BY DEF Eligible
<1>9. \A d \in u : d \in DOMAIN tree /\ ~Awaiting(c, d)
  BY <1>1, <1>2
<1> HIDE DEF u
<1>6. ToSet(handled) = {x \in DOMAIN tree : Eligible(x, u) /\ ~Awaiting(c, x)}
  <2>1. \A x \in DOMAIN tree : (Eligible(x, unopened) /\ ~Awaiting(dirs, x))
                               <=> (Eligible(x, u) /\ ~Awaiting(c, x))
    BY <1>1, <1>3, <1>5
  <2>2. QED BY <1>2, <2>1
<1>7. Tour(c, handled, u)
  BY <1>1, <1>2, <1>4, <1>6, <1>9 DEF Tour
<1>8. QED BY <1>7 DEF c, u

(* A directory is entered: what lies below it is awaiting still.             *)
LEMMA TourEnters ==
  ASSUME NEW e, TreeOK(tree), dirs \in Seq(Calls), Within(dirs), Reading(e),
         Tour(dirs, handled, unopened), tree[e].kind = "directory",
         conf.recursive_apply, Fits(e), ~Skipped(e)
  PROVE  Tour(Append(After(e), [directory |-> e, unread |-> Children(e)]), handled, unopened)
<1> DEFINE c == After(e)
           call == [directory |-> e, unread |-> Children(e)]
           g == Append(c, call)
<1>1. /\ e \in DOMAIN tree /\ e # Root /\ Entered(tree[e].parent, unopened)
      /\ Awaiting(dirs, e) /\ ~Awaiting(c, e)
      /\ \A x : Awaiting(c, x) => Awaiting(dirs, x)
      /\ \A x : Awaiting(dirs, x) /\ ~Awaiting(c, x) => x = e \/ e \in Between[x]
      /\ \A x : e \in Between[x] => Awaiting(dirs, x)
      /\ \A i \in DOMAIN c : /\ Entered(c[i].directory, unopened)
                             /\ ~Awaiting(dirs, c[i].directory)
      /\ \A i, j \in DOMAIN c : c[i].directory = c[j].directory => i = j
  BY AfterReading
<1>2. /\ ToSet(handled) = {x \in DOMAIN tree : Eligible(x, unopened) /\ ~Awaiting(dirs, x)}
      /\ IsInjective(handled)
      /\ \A d \in unopened : d \in DOMAIN tree /\ ~Awaiting(dirs, d)
  BY DEF Tour
<1>3. c \in Seq(Calls)
  BY CallsAre
<1>4. call.directory = e /\ call.unread = Children(e) /\ call \in Calls
  BY <1>1 DEF Calls, Children, TreeEntries
<1> HIDE DEF c, call
<1>5. /\ Len(c) \in Nat /\ DOMAIN c = 1 .. Len(c) /\ DOMAIN g = 1 .. (Len(c) + 1)
      /\ g[Len(c) + 1] = call /\ \A i \in DOMAIN c : g[i] = c[i]
  <2>1. /\ g \in Seq(Calls) /\ Len(c) \in Nat /\ Len(g) = Len(c) + 1
        /\ \A i \in 1 .. Len(c) : g[i] = c[i]
        /\ g[Len(c) + 1] = call
    BY <1>3, <1>4, AppendFacts
  <2>2. DOMAIN c = 1 .. Len(c)
    BY <1>3
  <2> HIDE DEF g
  <2>3. QED BY <2>1, <2>2
<1> HIDE DEF g
<1>6. \A i \in DOMAIN g : i \in DOMAIN c \/ i = Len(c) + 1
  BY <1>5
<1>7. \A x : Pending(g, x) <=> Pending(c, x) \/ x \in Children(e)
  <2>1. \A x : Pending(g, x) => Pending(c, x) \/ x \in Children(e)
    BY <1>4, <1>5, <1>6 DEF Pending
  <2>2. \A x : Pending(c, x) => Pending(g, x)
    BY <1>5 DEF Pending
  <2>3. \A x \in Children(e) : Pending(g, x)
    <3>1. Len(c) + 1 \in DOMAIN g
      BY <1>5
    <3>2. QED BY <1>4, <1>5, <3>1 DEF Pending
  <2>4. QED BY <2>1, <2>2, <2>3
<1>8. \A x \in DOMAIN tree : x \in Children(e) => e \in Between[x]
  BY <1>1, BetweenIs DEF Children
<1>9. \A x \in DOMAIN tree : Awaiting(g, x) => Awaiting(dirs, x)
  <2> SUFFICES ASSUME NEW x \in DOMAIN tree, Awaiting(g, x) PROVE Awaiting(dirs, x)
    OBVIOUS
  <2>1. CASE Awaiting(c, x)
    BY <1>1, <2>1
  <2>2. CASE x \in Children(e)
    BY <1>1, <1>8, <2>2
  <2>3. CASE \E d \in Between[x] : d \in Children(e)
    <3>1. PICK d \in Between[x] : d \in Children(e)
      BY <2>3
    <3>2. d \in DOMAIN tree /\ Between[d] \subseteq Between[x]
      BY BetweenAre
    <3>3. e \in Between[x]
      BY <1>8, <3>1, <3>2
    <3>4. QED BY <1>1, <3>3
  <2>4. QED BY <1>7, <2>1, <2>2, <2>3 DEF Awaiting
<1>10. \A x \in DOMAIN tree : Awaiting(dirs, x) /\ x # e => Awaiting(g, x)
  <2> SUFFICES ASSUME NEW x \in DOMAIN tree, Awaiting(dirs, x), x # e PROVE Awaiting(g, x)
    OBVIOUS
  <2>1. CASE Awaiting(c, x)
    BY <1>7, <2>1 DEF Awaiting
  <2>2. CASE e \in Between[x]
    <3>1. x # Root
      BY <2>2, BetweenIs
    <3>2. tree[x].parent = e \/ \E d \in Between[x] : tree[d].parent = e
      BY <2>2, <3>1, NextBelow
    <3>3. x \in Children(e) \/ \E d \in Between[x] : d \in Children(e)
      BY <3>1, <3>2, BetweenAre DEF Children
    <3>4. QED BY <1>7, <3>3 DEF Awaiting
  <2>3. QED BY <1>1, <2>1, <2>2
<1>11. ~Awaiting(g, e)
  <2>1. e \notin Children(e)
    <3> SUFFICES ASSUME e \in Children(e) PROVE FALSE
      OBVIOUS
    <3>1. e \in Between[e]
      BY <1>1, <1>8
    <3>2. QED BY <1>1, <3>1, NotBetween
  <2>2. \A d \in Between[e] : d \notin Children(e)
    <3> SUFFICES ASSUME NEW d \in Between[e], d \in Children(e) PROVE FALSE
      OBVIOUS
    <3>1. d \in DOMAIN tree /\ Between[d] \subseteq Between[e]
      BY <1>1, BetweenAre
    <3>2. e \in Between[e]
      BY <1>8, <3>1
    <3>3. QED BY <1>1, <3>2, NotBetween
  <2>3. QED BY <1>1, <1>7, <2>1, <2>2 DEF Awaiting
<1>12. ToSet(handled) = {x \in DOMAIN tree : Eligible(x, unopened) /\ ~Awaiting(g, x)}
  <2>1. ~Eligible(e, unopened)
    BY DEF Eligible
  <2>2. \A x \in DOMAIN tree : Eligible(x, unopened) => (Awaiting(g, x) <=> Awaiting(dirs, x))
    BY <1>9, <1>10, <2>1
  <2>3. QED BY <1>2, <2>2
<1>13. Entered(e, unopened)
  <2>1. Root \notin unopened /\ \A d \in Between[e] : Open(d, unopened)
    BY <1>1, WayIsOpen
  <2>2. QED BY <1>1, <1>2, <2>1 DEF Entered, Open
<1>14. \A i \in DOMAIN g : Entered(g[i].directory, unopened) /\ ~Awaiting(g, g[i].directory)
  <2> TAKE i \in DOMAIN g
  <2>1. CASE i \in DOMAIN c
    <3>1. g[i].directory \in DOMAIN tree
      BY <1>1, <1>5, <2>1 DEF Entered
    <3>2. QED BY <1>1, <1>5, <1>9, <2>1, <3>1
  <2>2. CASE i = Len(c) + 1
    BY <1>4, <1>5, <1>11, <1>13, <2>2
  <2>3. QED BY <1>6, <2>1, <2>2
<1>15. \A i, j \in DOMAIN g : g[i].directory = g[j].directory => i = j
  <2>1. \A i \in DOMAIN c : g[i].directory = c[i].directory /\ c[i].directory # e
    BY <1>1, <1>5
  <2>2. g[Len(c) + 1].directory = e
    BY <1>4, <1>5
  <2>3. QED BY <1>1, <1>6, <2>1, <2>2
<1>16. Tour(g, handled, unopened)
  BY <1>2, <1>9, <1>12, <1>14, <1>15 DEF Tour
<1>17. QED BY <1>16 DEF g, c, call

(* A directory is read to its end.                                           *)
LEMMA TourLeaves ==
  ASSUME dirs \in Seq(Calls), dirs # <<>>, Top.unread = {}, Tour(dirs, handled, unopened)
  PROVE  Tour(Back, handled, unopened)
<1> DEFINE n == Len(dirs)
           c == Back
<1>1. n \in Nat /\ DOMAIN dirs = 1 .. n /\ n # 0
  OBVIOUS
<1> HIDE DEF n
<1>2. n - 1 \in Nat /\ n - 1 <= n
  BY <1>1
<1>3. c \in Seq(Calls) /\ Len(c) = n - 1 /\ \A i \in 1 .. (n - 1) : c[i] = dirs[i]
  <2>1. \A m \in Nat : m <= Len(dirs) =>
          /\ SubSeq(dirs, 1, m) \in Seq(Calls) /\ Len(SubSeq(dirs, 1, m)) = m
          /\ \A i \in 1 .. m : SubSeq(dirs, 1, m)[i] = dirs[i]
    OBVIOUS
  <2>2. c = SubSeq(dirs, 1, n - 1)
    BY DEF Back, n
  <2> HIDE DEF c
  <2>3. QED BY <1>2, <2>1, <2>2 DEF n
<1> HIDE DEF c
<1>4. DOMAIN c = 1 .. (n - 1)
  BY <1>2, <1>3
<1>5. \A i \in DOMAIN c : i \in DOMAIN dirs /\ c[i] = dirs[i]
  BY <1>1, <1>3, <1>4
<1>6. \A i \in DOMAIN dirs : i \in DOMAIN c \/ dirs[i].unread = {}
  <2> TAKE i \in DOMAIN dirs
  <2>1. i \in 1 .. (n - 1) \/ i = n
    BY <1>1
  <2>2. dirs[n].unread = {}
    BY DEF Top, n
  <2>3. QED BY <1>4, <2>1, <2>2
<1>7. \A x : Pending(c, x) <=> Pending(dirs, x)
  BY <1>5, <1>6 DEF Pending
<1>8. \A x : Awaiting(c, x) <=> Awaiting(dirs, x)
  BY <1>7 DEF Awaiting
<1>9. Tour(c, handled, unopened)
  <2>1. ToSet(handled) = {x \in DOMAIN tree : Eligible(x, unopened) /\ ~Awaiting(c, x)}
    BY <1>8 DEF Tour
  <2>2. QED BY <1>5, <1>8, <2>1 DEF Tour
<1>10. QED BY <1>9 DEF c

(* The directory that the path names is opened, or not.                      *)
LEMMA TourStarts ==
  ASSUME TreeOK(tree), tree[Root].kind = "directory"
  PROVE  /\ Tour(Append(<<>>, [directory |-> Root, unread |-> Children(Root)]), <<>>, {})
         /\ Tour(<<>>, <<>>, {Root})
<1> DEFINE call == [directory |-> Root, unread |-> Children(Root)]
           c == Append(<<>>, call)
           h == <<>>
<1>0. ToSet(h) = {} /\ IsInjective(h)
  BY DEF ToSet, IsInjective
<1>1. DOMAIN c = {1} /\ c[1] = call
  OBVIOUS
<1>2. call.directory = Root /\ call.unread = Children(Root) /\ Root \in DOMAIN tree
  BY DEF TreeOK
<1> HIDE DEF call, c, h
<1>3. \A x : Pending(c, x) <=> x \in Children(Root)
  BY <1>1, <1>2 DEF Pending
<1>4. Between[Root] = {}
  BY <1>2, BetweenIs
<1>5. ~Awaiting(c, Root)
  BY <1>3, <1>4 DEF Awaiting, Children
<1>6. \A x \in DOMAIN tree : x # Root => Awaiting(c, x)
  <2> TAKE x \in DOMAIN tree
  <2> SUFFICES ASSUME x # Root PROVE Awaiting(c, x)
    OBVIOUS
  <2>1. tree[x].parent = Root \/ \E d \in Between[x] : tree[d].parent = Root
    BY NextBelow
  <2>2. x \in Children(Root) \/ \E d \in Between[x] : d \in Children(Root)
    BY <2>1, BetweenAre DEF Children
  <2>3. QED BY <1>3, <2>2 DEF Awaiting
<1>7. \A x : ~Eligible(x, {Root})
  BY DEF Eligible
<1>8. Tour(c, h, {})
  <2>1. \A x \in DOMAIN tree : Eligible(x, {}) => Awaiting(c, x)
    BY <1>6 DEF Eligible
  <2>2. Entered(Root, {})
    BY <1>2 DEF Entered
  <2>3. QED BY <1>0, <1>1, <1>2, <1>5, <2>1, <2>2 DEF Tour
<1>9. Tour(h, h, {Root})
  <2>1. DOMAIN h = {}
    BY DEF h
  <2>2. ~Awaiting(h, Root)
    BY <1>4, <2>1 DEF Awaiting, Pending
  <2>3. QED BY <1>0, <1>2, <1>7, <2>1, <2>2 DEF Tour
<1>10. QED BY <1>8, <1>9 DEF c, call, h

LEMMA TourUnchanged ==
  ASSUME tree' = tree, conf' = conf, Tour(dirs', handled', unopened')
  PROVE  Tour(dirs, handled, unopened)'
<1>1. Between' = Between /\ Path' = Path
  BY DEF Between, Path
<1>2. \A x : /\ Fits(x)' <=> Fits(x)
             /\ Selected(x)' <=> Selected(x)
             /\ Skipped(x)' <=> Skipped(x)
  BY <1>1 DEF Fits, Selected, Skipped
<1>3. \A x, u : Open(x, u)' <=> Open(x, u)
  BY <1>2 DEF Open
<1>4. \A x, u : Eligible(x, u)' <=> Eligible(x, u)
  BY <1>1, <1>2, <1>3 DEF Eligible
<1>5. \A x, u : Entered(x, u)' <=> Entered(x, u)
  BY <1>1, <1>3 DEF Entered
<1>6. \A x : Awaiting(dirs, x)' <=> Awaiting(dirs', x)
  BY <1>1 DEF Awaiting, Pending
<1>7. ToSet(handled') = {x \in DOMAIN tree : Eligible(x, unopened') /\ ~Awaiting(dirs', x)}
  BY DEF Tour
<1>8. ToSet(handled') = {x \in DOMAIN tree' : Eligible(x, unopened)' /\ ~Awaiting(dirs, x)'}
  <2>1. \A x : Eligible(x, unopened)' <=> Eligible(x, unopened')
    BY <1>1, <1>2 DEF Eligible, Open
  <2>2. QED BY <1>6, <1>7, <2>1
<1>9. \A i \in DOMAIN dirs' : Entered(dirs[i].directory, unopened)' /\ ~Awaiting(dirs, dirs[i].directory)'
  <2>1. \A i \in DOMAIN dirs' : Entered(dirs'[i].directory, unopened') /\ ~Awaiting(dirs', dirs'[i].directory)
    BY DEF Tour
  <2>2. \A x : Entered(x, unopened)' <=> Entered(x, unopened')
    BY <1>1, <1>2 DEF Entered, Open
  <2>3. QED BY <1>6, <2>1, <2>2
<1>10. \A d \in unopened' : d \in DOMAIN tree' /\ ~Awaiting(dirs, d)'
  BY <1>6 DEF Tour
<1>11. QED BY <1>8, <1>9, <1>10 DEF Tour

LEMMA TourStep ==
  ASSUME TourInv, RunInv, TypeOK, TreeOK(tree), [Next]_vars
  PROVE  TourInv'
<1>1. /\ dirs \in Seq(Calls) /\ Within(dirs) /\ handled \in Seq(DOMAIN tree)
      /\ status \in Running => handled = <<>> /\ unopened = {}
  BY DEF RunInv, FdInv, TypeOK, Within, TourInv, TreeEntries, Running
<1>2. ASSUME tree' = tree, conf' = conf, status' # "config", status' # "arguments", status' # "configured",
             status' = "walking" /\ tree[Root].kind = "directory" => Tour(dirs', handled', unopened')
      PROVE  TourInv'
  <2>1. status' = "walking" /\ tree'[Root].kind = "directory" => Tour(dirs, handled, unopened)'
    BY <1>2, TourUnchanged
  <2>2. QED BY <1>2, <2>1 DEF TourInv
<1>3. CASE ConfigNext /\ UNCHANGED walkVars
  <2>1. unopened' = unopened /\ unopened = {} /\ status' # "walking"
    BY <1>1, <1>3 DEF walkVars, ConfigNext, DefaultConfig, ScriptFails, ScriptIsWrong, EntryIsNoString,
       LoadConfig, Loading, Usage, TakePath, ParseFlag, ParseNumber, ParseFails, Configured, Running
  <2>2. QED BY <2>1 DEF TourInv
<1>4. CASE PathMissing
  BY <1>2, <1>4 DEF PathMissing, walkVars
<1>5. CASE OneFile
  <2>1. status' \in {"walking", "panicked", "starved", "died"} /\ tree' = tree /\ conf' = conf
        /\ tree[Root].kind # "directory"
    BY <1>5 DEF OneFile, HandleFile
  <2>2. QED BY <1>2, <2>1
<1>6. CASE Directory
  <2>1. /\ tree[Root].kind = "directory" /\ status' = "walking" /\ tree' = tree /\ conf' = conf
        /\ handled = <<>> /\ unopened = {} /\ PerformOnDirectory(Root, <<>>)
    BY <1>1, <1>6 DEF Directory, Running
  <2>2. \/ /\ dirs' = Append(<<>>, [directory |-> Root, unread |-> Children(Root)])
           /\ unopened' = {} /\ handled' = <<>>
        \/ dirs' = <<>> /\ unopened' = {Root} /\ handled' = <<>>
    BY <2>1 DEF PerformOnDirectory
  <2>3. Tour(dirs', handled', unopened')
    BY <2>1, <2>2, TourStarts
  <2>4. QED BY <1>2, <2>1, <2>3
<1>7. ASSUME NEW e \in DOMAIN tree, PassOver(e) \/ CallBack(e) \/ Descend(e) PROVE TourInv'
  <2>1. /\ Reading(e) /\ status = "walking" /\ tree' = tree /\ conf' = conf
        /\ status' \in {"walking", "panicked", "starved", "died"}
    BY <1>7 DEF PassOver, CallBack, Descend, Reading, HandleFile, configVars
  <2> SUFFICES ASSUME status' = "walking", tree[Root].kind = "directory"
               PROVE  Tour(dirs', handled', unopened')
    BY <1>2, <2>1
  <2>2. Tour(dirs, handled, unopened)
    BY <2>1 DEF TourInv
  <2>3. CASE PassOver(e)
    <3>1. PassedOver(e) /\ dirs' = After(e) /\ handled' = handled /\ unopened' = unopened
      BY <2>3 DEF PassOver
    <3>2. ~Eligible(e, unopened)
      BY <3>1 DEF PassedOver, Eligible
    <3>3. \A x \in DOMAIN tree : e \in Between[x] => ~Eligible(x, unopened)
      <4> SUFFICES ASSUME NEW x \in DOMAIN tree, e \in Between[x] PROVE ~Eligible(x, unopened)
        OBVIOUS
      <4>1. tree[e].kind = "directory"
        BY BetweenAre
      <4>2. ~conf.recursive_apply \/ ~Fits(e) \/ Skipped(e)
        BY <3>1, <4>1 DEF PassedOver
      <4>3. QED BY <4>2 DEF Eligible, Open
    <3>4. Tour(After(e), handled, unopened)
      BY <1>1, <2>1, <2>2, <3>2, <3>3, TourPasses
    <3>5. QED BY <3>1, <3>4
  <2>4. CASE CallBack(e)
    <3>1. tree[e].kind = "file" /\ ~PassedOver(e) /\ dirs' = After(e) /\ HandleFile(e, "walking")
      BY <2>4 DEF CallBack
    <3>2. Fits(e) /\ Selected(e)
      BY <3>1 DEF PassedOver
    <3>3. handled' = Append(handled, e) /\ unopened' = unopened
      BY <3>1 DEF HandleFile
    <3>4. Tour(After(e), Append(handled, e), unopened)
      BY <1>1, <2>1, <2>2, <3>1, <3>2, TourSorts
    <3>5. QED BY <3>1, <3>3, <3>4
  <2>5. CASE Descend(e)
    <3>1. tree[e].kind = "directory" /\ ~PassedOver(e) /\ PerformOnDirectory(e, After(e))
      BY <2>5 DEF Descend
    <3>2. conf.recursive_apply /\ Fits(e) /\ ~Skipped(e)
      BY <3>1 DEF PassedOver
    <3>3. CASE tree[e].opens /\ fds < FdLimit
      <4>1. /\ dirs' = Append(After(e), [directory |-> e, unread |-> Children(e)])
            /\ unopened' = unopened /\ handled' = handled
        BY <3>1, <3>3 DEF PerformOnDirectory
      <4>2. Tour(Append(After(e), [directory |-> e, unread |-> Children(e)]), handled, unopened)
        BY <1>1, <2>1, <2>2, <3>1, <3>2, TourEnters
      <4>3. QED BY <4>1, <4>2
    <3>4. CASE ~(tree[e].opens /\ fds < FdLimit)
      <4>1. dirs' = After(e) /\ unopened' = unopened \cup {e} /\ handled' = handled
        BY <3>1, <3>4 DEF PerformOnDirectory
      <4>2. Tour(After(e), handled, unopened \cup {e})
        BY <1>1, <2>1, <2>2, <3>1, TourShut
      <4>3. QED BY <4>1, <4>2
    <3>5. QED BY <3>3, <3>4
  <2>6. QED BY <1>7, <2>3, <2>4, <2>5
<1>8. CASE EndOfDirectory
  <2>1. /\ status = "walking" /\ status' = "walking" /\ tree' = tree /\ conf' = conf
        /\ dirs # <<>> /\ Top.unread = {} /\ dirs' = Back /\ handled' = handled /\ unopened' = unopened
    BY <1>8 DEF EndOfDirectory, configVars
  <2>2. tree[Root].kind = "directory" => Tour(Back, handled, unopened)
    BY <1>1, <2>1, TourLeaves DEF TourInv
  <2>3. QED BY <1>2, <2>1, <2>2
<1>9. CASE Finish
  BY <1>2, <1>9 DEF Finish, walkVars
<1>10. CASE UNCHANGED vars
  <2>1. UNCHANGED <<tree, conf, dirs, handled, unopened, status>>
    BY <1>10 DEF vars, configVars, walkVars
  <2>2. CASE status = "walking" /\ tree[Root].kind = "directory"
    <3>1. Tour(dirs', handled', unopened')
      BY <2>1, <2>2 DEF TourInv
    <3>2. QED BY <1>2, <2>1, <2>2, <3>1
  <2>3. CASE ~(status = "walking" /\ tree[Root].kind = "directory")
    BY <2>1, <2>3 DEF TourInv
  <2>4. QED BY <2>2, <2>3
<1>11. QED BY <1>3, <1>4, <1>5, <1>6, <1>7, <1>8, <1>9, <1>10 DEF Next, Exited

(* What begins at the last dot of a text.                                    *)
LEMMA LastDot ==
  ASSUME NEW path \in Seq(Nat), Dots(path) # {}
  PROVE  \E i \in Dots(path) : /\ \A j \in Dots(path) : j <= i
                               /\ Extension(path) = SubSeq(path, i, Len(path))
<1> DEFINE last == CHOOSE i \in Dots(path) : \A j \in Dots(path) : j <= i
<1>1. Len(path) \in Nat /\ DOMAIN path = 1 .. Len(path) /\ \A i \in DOMAIN path : path[i] \in Nat
  OBVIOUS
<1>2. \E i \in Dots(path) : \A j \in Dots(path) : j <= i
  <2> DEFINE S == {Len(path) - i : i \in Dots(path)}
  <2>1. S \in SUBSET Nat /\ S # {}
    BY <1>1 DEF Dots
  <2>2. PICK x \in S : \A y \in S : x <= y
    BY <2>1, Smallest
  <2>3. PICK i \in Dots(path) : x = Len(path) - i
    BY <2>2
  <2>4. \A j \in Dots(path) : j <= i
    <3> TAKE j \in Dots(path)
    <3>1. Len(path) - j \in S /\ i \in Nat /\ j \in Nat
      BY <1>1 DEF Dots
    <3>2. Len(path) - i <= Len(path) - j
      BY <2>2, <2>3, <3>1
    <3>3. QED BY <1>1, <3>1, <3>2
  <2>5. QED BY <2>4
<1>3. last \in Dots(path) /\ \A j \in Dots(path) : j <= last
  BY <1>2
<1>4. Extension(path) = SubSeq(path, last, Len(path))
  BY DEF Extension
<1> HIDE DEF last
<1>5. QED BY <1>3, <1>4

LEMMA ExtensionIs ==
  ASSUME NEW path \in Seq(Nat)
  PROVE  Extension(path) \in Seq(Nat)
<1>1. CASE Dots(path) = {}
  BY <1>1 DEF Extension
<1>2. CASE Dots(path) # {}
  <2>1. PICK i \in Dots(path) : Extension(path) = SubSeq(path, i, Len(path))
    BY <1>2, LastDot
  <2>2. i \in 1 .. Len(path) /\ Len(path) \in Nat
    BY DEF Dots
  <2>3. QED BY <2>1, <2>2
<1>3. QED BY <1>1, <1>2

LEMMA TailIs ==
  ASSUME NEW s \in Seq(Nat), NEW a \in 1 .. Len(s)
  PROVE  /\ SubSeq(s, a, Len(s)) \in Seq(Nat) /\ Len(SubSeq(s, a, Len(s))) = (Len(s) - a) + 1
         /\ \A k \in 1 .. ((Len(s) - a) + 1) : SubSeq(s, a, Len(s))[k] = s[a + (k - 1)]
<1>1. Len(s) \in Nat
  OBVIOUS
<1>2. SubSeq(s, a, Len(s)) = [k \in 1 .. ((Len(s) - a) + 1) |-> s[a + (k - 1)]]
  BY <1>1
<1>3. \A k \in 1 .. ((Len(s) - a) + 1) : a + (k - 1) \in 1 .. Len(s)
  BY <1>1
<1>4. (Len(s) - a) + 1 \in Nat
  BY <1>1
<1>5. QED BY <1>1, <1>2, <1>3, <1>4

(* A path has the extension of the name it ends in, if that has one.         *)
LEMMA OwnExtension ==
  ASSUME NEW above \in Seq(Nat), NEW name \in Seq(Nat), Dots(name) \ {1} # {},
         NEW path \in Seq(Nat), path = above \o <<Slash>> \o name
  PROVE  HasExtension(path) /\ Extension(path) = Extension(name)
<1> DEFINE off == Len(above) + 1
<1>1. Slash \in Nat /\ Slash # Dot
  BY DEF Slash, Dot
<1>2. /\ Len(above) \in Nat /\ Len(name) \in Nat /\ Len(path) = off + Len(name)
      /\ DOMAIN path = 1 .. Len(path) /\ DOMAIN name = 1 .. Len(name)
      /\ \A k \in 1 .. Len(name) : path[off + k] = name[k]
  BY <1>1
<1>3. off \in Nat /\ off >= 1
  BY <1>2
<1> HIDE DEF off
<1>4. PICK m \in Dots(name) : (\A j \in Dots(name) : j <= m)
                             /\ Extension(name) = SubSeq(name, m, Len(name))
  BY LastDot
<1>5. m \in 1 .. Len(name) /\ name[m] = Dot
  BY <1>2 DEF Dots
<1>6. off + m \in Dots(path) /\ off + m # 1 /\ m <= Len(name)
  <2>1. off + m \in 1 .. Len(path) /\ off + m # 1 /\ m <= Len(name)
    BY <1>2, <1>3, <1>5
  <2>2. path[off + m] = Dot
    BY <1>2, <1>5
  <2>3. QED BY <1>2, <2>1, <2>2 DEF Dots
<1>7. PICK l \in Dots(path) : (\A j \in Dots(path) : j <= l)
                             /\ Extension(path) = SubSeq(path, l, Len(path))
  BY <1>6, LastDot
<1>8. l = off + m
  <2>1. l \in 1 .. Len(path) /\ path[l] = Dot /\ off + m <= l
    BY <1>2, <1>6, <1>7 DEF Dots
  <2>2. l - off \in 1 .. Len(name) /\ off + (l - off) = l
    BY <1>2, <1>3, <1>5, <2>1
  <2>3. name[l - off] = Dot
    BY <1>2, <2>1, <2>2
  <2>4. l - off <= m
    BY <1>2, <1>4, <2>2, <2>3 DEF Dots
  <2>5. QED BY <1>3, <1>5, <2>1, <2>2, <2>4
<1>9. SubSeq(path, off + m, off + Len(name)) = SubSeq(name, m, Len(name))
  <2> DEFINE s == SubSeq(path, off + m, off + Len(name))
             t == SubSeq(name, m, Len(name))
             n == (Len(name) - m) + 1
  <2>1. n \in Nat
    BY <1>2, <1>5
  <2>2. s \in Seq(Nat) /\ Len(s) = n /\ \A k \in 1 .. n : s[k] = path[(off + m) + (k - 1)]
    <3>1. off + m \in 1 .. Len(path) /\ off + Len(name) = Len(path)
      BY <1>2, <1>3, <1>5
    <3>2. \A o, c, k \in Nat : ((o + c) - (o + k)) + 1 = (c - k) + 1
      OBVIOUS
    <3>3. (Len(path) - (off + m)) + 1 = n
      <4>1. m \in Nat
        BY <1>2, <1>5
      <4>2. ((off + Len(name)) - (off + m)) + 1 = (Len(name) - m) + 1
        BY <1>2, <1>3, <3>2, <4>1
      <4>3. QED BY <3>1, <4>2
    <3> HIDE DEF n, s
    <3>4. PICK a \in 1 .. Len(path) : a = off + m
      BY <3>1
    <3>5. s = SubSeq(path, a, Len(path))
      BY <3>1, <3>4 DEF s
    <3>6. s \in Seq(Nat) /\ Len(s) = n /\ \A k \in 1 .. n : s[k] = path[a + (k - 1)]
      BY <3>3, <3>4, <3>5, TailIs
    <3>7. QED BY <3>4, <3>6
  <2>3. t \in Seq(Nat) /\ Len(t) = n /\ \A k \in 1 .. n : t[k] = name[m + (k - 1)]
    BY <1>2, <1>5
  <2>4. \A k \in 1 .. n : path[(off + m) + (k - 1)] = name[m + (k - 1)]
    <3> TAKE k \in 1 .. n
    <3>1. m + (k - 1) \in 1 .. Len(name) /\ off + (m + (k - 1)) = (off + m) + (k - 1)
      BY <1>2, <1>3, <1>5
    <3>2. QED BY <1>2, <3>1
  <2> HIDE DEF s, t, n
  <2>5. \A k \in 1 .. n : s[k] = t[k]
    BY <2>2, <2>3, <2>4
  <2>6. s = t
    BY <2>1, <2>2, <2>3, <2>5
  <2>7. QED BY <2>6 DEF s, t
<1>10. QED BY <1>2, <1>4, <1>6, <1>7, <1>8, <1>9 DEF HasExtension

LEMMA PrefixOfEmpty ==
  ASSUME NEW s \in Seq(Nat)
  PROVE  IsPrefix(s, s) /\ (IsPrefix(s, <<>>) => s = <<>>)
<1>1. Len(s) \in Nat /\ SubSeq(s, 1, Len(s)) = s
  OBVIOUS
<1>2. IsPrefix(s, s)
  BY <1>1 DEF IsPrefix
<1>3. IsPrefix(s, <<>>) => Len(s) <= 0
  BY <1>1 DEF IsPrefix
<1>4. QED BY <1>1, <1>2, <1>3

(* A name that cannot be mistaken is listed if it begins with a listed one.  *)
LEMMA ListedIsBegun ==
  ASSUME NEW list \in Seq(CString), NEW name \in Seq(Nat), Distinct(list, name)
  PROVE  Begins(list, name) <=> name \in ToSet(list)
<1>1. ASSUME name \in ToSet(list) PROVE Begins(list, name)
  <2>1. PICK i \in DOMAIN list : list[i] = name
    BY <1>1 DEF ToSet
  <2>2. IsPrefix(list[i], name)
    BY <2>1, PrefixOfEmpty
  <2>3. QED BY <2>2 DEF Begins
<1>2. QED BY <1>1 DEF Distinct

(* What a run selects and skips, of the names that cannot be mistaken, is    *)
(* what its lists say.                                                       *)
LEMMA ListsSay ==
  ASSUME ListsFit, TreeOK(tree), Searchable, NEW e \in DOMAIN tree, e # Root, Unmistakable(e)
  PROVE  Wanted(e) <=> Eligible(e, unopened)
<1>1. \A x \in DOMAIN tree : Path[x] \in Seq(Nat) /\ Extension(Path[x]) \in Seq(Nat)
  BY PathIs, ExtensionIs
<1>2. \A x \in DOMAIN tree : tree[x].name \in Seq(Nat)
  <2>1. \A x \in DOMAIN tree : tree[x].name \in CString
    BY DEF TreeOK
  <2>2. QED BY <2>1, StringIsName
<1>3. \A list \in Seq(CString) : Sorted(list) /\ Apart(list) =>
        \A match \in Seq(Nat) : FindStrList(list, match) <=> Begins(list, match)
  BY Search DEF Begins
<1>4. CASE script = NoScript
  <2>1. conf.file_exts = <<>>
    BY <1>4 DEF ListsFit
  <2> DEFINE none == <<>>
  <2>2. none \in Seq(CString) /\ Sorted(none) /\ Apart(none) /\ \A match : ~Begins(none, match)
    BY DEF Sorted, Apart, Begins
  <2>3. \A x : x \notin ToSet(none)
    BY DEF ToSet
  <2> HIDE DEF none
  <2>4. \A match \in Seq(Nat) : ~FindStrList(none, match)
    BY <1>3, <2>2
  <2>5. ~Selected(e)
    BY <1>1, <2>1, <2>4 DEF Selected, none
  <2>6. ~OfListedFormat(e)
    BY <2>1, <2>3 DEF OfListedFormat, none
  <2>7. QED BY <2>5, <2>6 DEF Eligible, Wanted
<1>5. CASE script # NoScript
  <2> DEFINE exts == conf.file_exts
             skip == conf.skip_directories
  <2>1. exts \in Seq(CString) /\ Sorted(exts) /\ skip \in Seq(CString) /\ Sorted(skip)
    BY <1>5 DEF ListsFit, Searched
  <2>2. Apart(exts) /\ Apart(skip) /\ <<>> \notin ToSet(exts)
    BY DEF Searchable
  <2>3. Selected(e) <=> HasExtension(Path[e]) /\ Begins(exts, Extension(Path[e]))
    <3> HIDE DEF exts, skip
    <3>1. FindStrList(exts, Extension(Path[e])) <=> Begins(exts, Extension(Path[e]))
      BY <1>1, <1>3, <2>1, <2>2
    <3>2. QED BY <3>1 DEF Selected, exts
  <2>4. \A d \in Between[e] : Skipped(d) <=> ToBeSkipped(d)
    <3> TAKE d \in Between[e]
    <3>1. tree[d].name \in Seq(Nat)
      BY <1>2, BetweenIs
    <3>2. Distinct(skip, tree[d].name)
      BY DEF Unmistakable
    <3> HIDE DEF exts, skip
    <3>3. FindStrList(skip, tree[d].name) <=> Begins(skip, tree[d].name)
      BY <1>3, <2>1, <2>2, <3>1
    <3>4. Begins(skip, tree[d].name) <=> tree[d].name \in ToSet(skip)
      BY <2>1, <3>1, <3>2, ListedIsBegun
    <3>5. QED BY <3>3, <3>4 DEF Skipped, ToBeSkipped, skip
  <2>5. CASE HasOwnExtension(e)
    <3>1. /\ tree[e].parent \in DOMAIN tree
          /\ Path[e] = Path[tree[e].parent] \o <<Slash>> \o tree[e].name
          /\ Path[tree[e].parent] \in Seq(Nat) /\ Path[e] \in Seq(Nat) /\ tree[e].name \in Seq(Nat)
      BY <1>1, <1>2, PathIs DEF TreeOK
    <3>2. HasExtension(Path[e]) /\ Extension(Path[e]) = Extension(tree[e].name)
      <4>1. Dots(tree[e].name) \ {1} # {}
        BY <2>5 DEF HasOwnExtension
      <4>2. QED BY <3>1, <4>1, OwnExtension
    <3>3. Distinct(exts, Extension(tree[e].name))
      BY <2>5 DEF Unmistakable
    <3>4. Extension(tree[e].name) \in Seq(Nat)
      BY <1>2, ExtensionIs
    <3> HIDE DEF exts, skip
    <3>5. Begins(exts, Extension(tree[e].name)) <=> Extension(tree[e].name) \in ToSet(exts)
      BY <2>1, <3>3, <3>4, ListedIsBegun
    <3>6. Selected(e) <=> OfListedFormat(e)
      BY <2>3, <2>5, <3>2, <3>5 DEF OfListedFormat, exts
    <3>7. QED BY <2>4, <3>6 DEF Wanted, Eligible, Open
  <2>6. CASE ~HasOwnExtension(e)
    <3>1. \A i \in Dots(Path[e]) : ~Begins(exts, SubSeq(Path[e], i, Len(Path[e])))
      BY <2>6 DEF Unmistakable
    <3> HIDE DEF exts, skip
    <3>2. CASE Dots(Path[e]) = {}
      <4>1. Extension(Path[e]) = <<>>
        BY <3>2 DEF Extension
      <4>2. \A i \in DOMAIN exts : exts[i] # <<>> /\ exts[i] \in Seq(Nat)
        <5> TAKE i \in DOMAIN exts
        <5>1. exts[i] \in CString /\ exts[i] \in ToSet(exts)
          BY <2>1 DEF ToSet
        <5>2. QED BY <2>2, <5>1, StringIsName
      <4>3. ~Begins(exts, <<>>)
        BY <4>2, PrefixOfEmpty DEF Begins
      <4>4. QED BY <2>3, <2>6, <4>1, <4>3 DEF Eligible, Wanted, OfListedFormat
    <3>3. CASE Dots(Path[e]) # {}
      <4>1. PICK i \in Dots(Path[e]) : Extension(Path[e]) = SubSeq(Path[e], i, Len(Path[e]))
        BY <1>1, <3>3, LastDot
      <4>2. ~Begins(exts, Extension(Path[e]))
        BY <3>1, <4>1
      <4>3. QED BY <2>3, <2>6, <4>2 DEF Eligible, Wanted, OfListedFormat
    <3>4. QED BY <3>2, <3>3
  <2>7. QED BY <2>5, <2>6
<1>6. QED BY <1>4, <1>5

(* Also when a file ends the run, those sorted are eligible; once it is done *)
(* those eligible are sorted.                                                *)
SoFar ==
  /\ IsInjective(handled)
  /\ \A e \in ToSet(handled) : e \in DOMAIN tree /\ Eligible(e, unopened)
  /\ status = "done" => \A e \in DOMAIN tree : Eligible(e, unopened) => e \in ToSet(handled)

VisitInv ==
  /\ tree \in Trees /\ TourInv
  /\ tree[Root].kind = "directory" => SoFar
  /\ handled # <<>> => ListsFit

LEMMA EligibleStays ==
  ASSUME tree' = tree, conf' = conf, unopened' = unopened
  PROVE  \A x : Eligible(x, unopened)' <=> Eligible(x, unopened)
<1>1. Between' = Between /\ Path' = Path
  BY DEF Between, Path
<1>2. \A x : (Fits(x)' <=> Fits(x)) /\ (Selected(x)' <=> Selected(x)) /\ (Skipped(x)' <=> Skipped(x))
  BY <1>1 DEF Fits, Selected, Skipped
<1>3. QED BY <1>1, <1>2 DEF Eligible, Open

LEMMA VisitStep ==
  ASSUME VisitInv, RunInv, TypeOK, ListInv, RunInv', ListInv', [Next]_vars
  PROVE  VisitInv'
<1>1. tree \in Trees /\ TreeOK(tree)
  BY CsortAssumption DEF VisitInv
<1>2. tree' = tree
  BY DEF Next, vars, walkVars, PathMissing, OneFile, Directory, PassOver, CallBack, Descend,
         EndOfDirectory, Finish, Exited
<1>3. TourInv'
  BY <1>1, TourStep DEF VisitInv
<1>4. \/ status' \in Running /\ handled' = <<>>
      \/ status' = "walking"
      \/ Finish
      \/ /\ UNCHANGED <<script, conf, handled, unopened>>
         /\ status' \notin Running \cup {"done"} \/ status' = status
      \/ handled' = <<>> /\ status' # "done"
  <2>1. ASSUME status' \in Running PROVE handled' = <<>>
    BY <2>1 DEF RunInv, FdInv, Running
  <2>2. CASE ConfigNext /\ UNCHANGED walkVars
    <3>1. handled = <<>> /\ handled' = handled /\ status' # "done"
      BY <2>2 DEF RunInv, FdInv, walkVars, ConfigNext, DefaultConfig, ScriptFails, ScriptIsWrong,
         EntryIsNoString, LoadConfig, Loading, Usage, TakePath, ParseFlag, ParseNumber, ParseFails,
         Configured, Running
    <3>2. QED BY <3>1
  <2>3. CASE UNCHANGED vars
    BY <2>3 DEF vars, configVars, walkVars
  <2>4. CASE PathMissing \/ Finish
    BY <2>4 DEF PathMissing, Finish, walkVars, Running
  <2>5. CASE OneFile
    BY <2>5 DEF OneFile, HandleFile, Running
  <2>6. CASE Directory
    BY <2>6 DEF Directory
  <2>7. ASSUME NEW e \in DOMAIN tree, PassOver(e) \/ CallBack(e) \/ Descend(e)
        PROVE  status' = "walking" \/ /\ UNCHANGED <<script, conf, handled, unopened>>
                                      /\ status' \notin Running \cup {"done"}
    BY <2>7 DEF PassOver, CallBack, Descend, HandleFile, Reading, configVars, Running
  <2>8. CASE EndOfDirectory
    BY <2>8 DEF EndOfDirectory, configVars
  <2>9. QED BY <2>2, <2>3, <2>4, <2>5, <2>6, <2>7, <2>8 DEF Next, Exited
<1>5. (status' \in Settled => ListsFit') /\ (status \in Settled => ListsFit)
  BY DEF ListInv
<1>6. VisitInv /\ (tree'[Root].kind = "directory" <=> tree[Root].kind = "directory")
  BY <1>2
<1>7. CASE handled' = <<>> /\ status' # "done"
  <2>1. ToSet(handled') = {} /\ IsInjective(handled')
    BY <1>7 DEF ToSet, IsInjective
  <2>2. SoFar'
    BY <1>7, <2>1 DEF SoFar
  <2>3. QED BY <1>1, <1>2, <1>3, <1>7, <2>2 DEF VisitInv
<1>8. CASE status' = "walking"
  <2>1. tree'[Root].kind = "directory" => Tour(dirs, handled, unopened)'
    BY <1>3, <1>8 DEF TourInv
  <2>2. Tour(dirs, handled, unopened)' => SoFar'
    BY <1>8 DEF Tour, SoFar
  <2>3. ListsFit'
    BY <1>5, <1>8 DEF Settled
  <2>4. QED BY <1>1, <1>2, <1>3, <2>1, <2>2, <2>3 DEF VisitInv
<1>9. CASE Finish
  <2>1. /\ status = "walking" /\ dirs = <<>> /\ status' = "done"
        /\ UNCHANGED <<script, conf, handled, unopened>>
    BY <1>9 DEF Finish, walkVars
  <2>2. \A x : ~Awaiting(dirs, x)
    BY <2>1 DEF Awaiting, Pending
  <2>3. tree[Root].kind = "directory" =>
          /\ ToSet(handled) = {e \in DOMAIN tree : Eligible(e, unopened)} /\ IsInjective(handled)
    BY <2>1, <2>2 DEF VisitInv, TourInv, Tour
  <2>4. \A x : Eligible(x, unopened)' <=> Eligible(x, unopened)
    BY <1>2, <2>1, EligibleStays
  <2>5. tree'[Root].kind = "directory" => SoFar'
    BY <1>2, <2>1, <2>3, <2>4 DEF SoFar
  <2>6. ListsFit'
    BY <1>5, <2>1 DEF Settled
  <2>7. QED BY <1>1, <1>2, <1>3, <2>5, <2>6 DEF VisitInv
<1>10. CASE /\ UNCHANGED <<script, conf, handled, unopened>>
            /\ status' # "done" \/ status' = status
  <2>1. \A x : Eligible(x, unopened)' <=> Eligible(x, unopened)
    BY <1>2, <1>10, EligibleStays
  <2>2. SoFar => SoFar'
    BY <1>2, <1>10, <2>1 DEF SoFar
  <2>3. ListsFit => ListsFit'
    BY <1>10 DEF ListsFit
  <2>4. QED BY <1>1, <1>2, <1>3, <1>10, <2>2, <2>3 DEF VisitInv
<1>11. QED BY <1>4, <1>7, <1>8, <1>9, <1>10 DEF Running

LEMMA Visited ==
  ASSUME VisitInv, ListInv
  PROVE  VisitsExactly
<1>1. TreeOK(tree)
  BY CsortAssumption DEF VisitInv
<1> SUFFICES ASSUME tree[Root].kind = "directory" PROVE VisitsExactly
  BY DEF VisitsExactly
<1>2. SoFar
  BY DEF VisitInv
<1>3. IsInjective(handled)
  BY <1>2 DEF SoFar
<1>4. ASSUME Searchable, NEW e \in DOMAIN tree \ {Root}, Unmistakable(e)
      PROVE  /\ e \in ToSet(handled) => Wanted(e)
             /\ status = "done" /\ Wanted(e) => e \in ToSet(handled)
  <2>1. ListsFit => (Wanted(e) <=> Eligible(e, unopened))
    BY <1>1, <1>4, ListsSay
  <2>2. ASSUME e \in ToSet(handled) PROVE Wanted(e)
    <3>1. handled # <<>>
      BY <2>2 DEF ToSet
    <3>2. ListsFit
      BY <3>1 DEF VisitInv
    <3>3. QED BY <1>2, <2>1, <2>2, <3>2 DEF SoFar
  <2>3. ASSUME status = "done", Wanted(e) PROVE e \in ToSet(handled)
    <3>1. ListsFit
      BY <2>3 DEF ListInv, Settled
    <3>2. QED BY <1>2, <2>1, <2>3, <3>1 DEF SoFar
  <2>4. QED BY <2>2, <2>3
<1>5. QED BY <1>3, <1>4 DEF VisitsExactly
(***************************************************************************)
(* Whatever the directory, the configuration, the failures and the order   *)
(* that readdir yields entries in: a run sorts no file twice and, of those *)
(* whose names cannot be mistaken for listed ones, only files of a listed  *)
(* format that lie where it may go, and all of them once it gets through,  *)
(* when the names listed do not begin with each other.                     *)
(***************************************************************************)
THEOREM EachFileOnce == Spec => []VisitsExactly
<1>1. Init /\ WalkInit => VisitInv
  <2> SUFFICES ASSUME Init, WalkInit PROVE VisitInv
    OBVIOUS
  <2>1. status = "config" /\ tree \in Trees /\ unopened = {} /\ handled = <<>>
    BY DEF Init, WalkInit
  <2>2. ToSet(handled) = {} /\ IsInjective(handled)
    BY <2>1 DEF ToSet, IsInjective
  <2>3. QED BY <2>1, <2>2 DEF VisitInv, TourInv, SoFar
<1>2. VisitInv /\ RunInv /\ TypeOK /\ ListInv /\ RunInv' /\ ListInv' /\ [Next]_vars => VisitInv'
  BY VisitStep
<1>3. VisitInv /\ ListInv => VisitsExactly
  BY Visited
<1>4. QED BY <1>1, <1>2, <1>3, RunInvariant, RunTypeCorrect, ListsInvariant, PTL DEF Spec
=============================================================================
