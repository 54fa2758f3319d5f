------------------------------- MODULE Config -------------------------------
(***************************************************************************)
(* What a run is configured with: .csortconfig or the defaults (config.c,  *)
(* CSort_load_config), then the command line (CSortOptParse).              *)
(*                                                                         *)
(* Strings are copied out of Lua, so closing it leaves the lists intact.   *)
(* Nothing is ever looked up in know_standard_library; only whether it can *)
(* be loaded matters.                                                      *)
(***************************************************************************)
EXTENDS Names

CONSTANTS
  Scripts,        (* what .csortconfig may be: records, or NoScript        *)
  NoScript,
  NotTable,       (* a value that is no table, where a list is expected    *)
  Ill,            (* a value of another type, for an option                *)
  U32s,           (* what a u32 may hold                                   *)
  Commands,       (* argv from argv[1] on: sequences of arguments          *)
  DefaultSkip, DefaultExts   (* config.h: skip_directories, file_exts      *)

(* The options of a script that runs are switches, numbers, or ill; an       *)
(* argument is what it is, with the value it has as a number.                *)
Switches == {"squash_for_duplicate_library", "disable_wrapping"}
Numbers == {"wrap_after_n_imports", "import_on_each_wrap", "wrap_after_col"}
Options == Switches \cup Numbers

(* In the order they are loaded                                              *)
Tables  == <<"know_standard_library", "skip_directories", "file_exts">>

ASSUME ConfigAssumption ==
  /\ U32s \subseteq Nat
  /\ \A s \in Scripts \ {NoScript} : s.runs =>
       /\ \A o \in Switches : s[o] = Ill \/ s[o] \in BOOLEAN
       /\ \A o \in Numbers : s[o] = Ill \/ s[o] \in Int
       /\ \A i \in DOMAIN Tables :
            s[Tables[i]] = NotTable \/ s[Tables[i]] \in Seq([type : STRING, text : CString])
  /\ DefaultSkip \in Seq(CString) /\ DefaultExts \in Seq(CString)
  /\ Commands \subseteq Seq([is : STRING, value : Int])

VARIABLES
  script, argv,   (* the input of the run                                  *)
  conf,           (* csort.conf                                            *)
  arg,            (* arg_counter: how many arguments were looked at        *)
  lua,            (* "none", "open", "closed", or "closed twice"           *)
  status          (* where main is, or how it ended                        *)

configVars == <<script, argv, conf, arg, lua, status>>

(* exit(1) for the usage, from the option parser, from CSort_panic and from  *)
(* main after a failed stat; an assertion or worse (aborted); die() for a    *)
(* file, or for memory (starved); a normal end.                              *)
Ended ==
  {"usage", "rejected", "panicked", "aborted", "no file", "died", "starved", "done"}

Defaults ==
  [file_exts |-> <<>>, skip_directories |-> <<>>,
   squash_for_duplicate_library |-> TRUE, disable_wrapping |-> FALSE,
   wrap_after_n_imports |-> 4, import_on_each_wrap |-> 9, wrap_after_col |-> 80,
   show_after_sort |-> FALSE, recursive_apply |-> FALSE]

-----------------------------------------------------------------------------
Init ==
  /\ script \in Scripts /\ argv \in Commands
  /\ conf = Defaults /\ arg = 0 /\ lua = "none" /\ status = "config"

(* CSort_deinit closes Lua when there is one, closed or not.                 *)
Kept(state) == state
Closed(state) ==
  IF state = "none" THEN "none" ELSE IF state = "open" THEN "closed" ELSE "closed twice"

(* CSortConfig_init.  The extensions are pushed to skip_directories, which   *)
(* is made anew before its own names are: file_exts stays empty.  It is      *)
(* sorted; skip_directories is not.                                          *)
DefaultConfig ==
  /\ status = "config" /\ script = NoScript
  /\ conf' = [conf EXCEPT !["skip_directories"] = DefaultSkip]
  /\ status' = "arguments"
  /\ UNCHANGED <<script, argv, arg, lua>>

(* CSortConfig_init_w_lua: the script cannot be read or fails.  It closes    *)
(* Lua, and so does the CSort_panic of CSort_init_config.                    *)
ScriptFails ==
  /\ status = "config" /\ script # NoScript /\ ~script.runs
  /\ lua' = Closed(Closed("open"))
  /\ status' = "panicked"
  /\ UNCHANGED <<script, argv, conf, arg>>

(* array_push_from_str: entries of any type but strings fail an assertion.   *)
(* Without assertions a number is pushed as its text, and there is no text   *)
(* to push for anything else.                                                *)
IsTable(t) == script[t] # NotTable
Strings(t) == IsTable(t) /\ \A i \in DOMAIN script[t] : script[t][i].type = "string"
Pushed(t)  == IsTable(t) /\ \A i \in DOMAIN script[t] : script[t][i].type \in {"string", "number"}
TextsOf(t) == [i \in DOMAIN script[t] |-> script[t][i].text]

(* _optNum: a number of Lua is cut off to a u32.  Scripts have numbers in    *)
(* halves; the conversion of what does not fit may yield anything.           *)
Fitting(whole) == IF whole \in U32s THEN {whole} ELSE U32s
Converted(number) == Fitting(IF number = -1 THEN 0 ELSE number \div 2)

(* CSort_load_config reads three tables, then five options, and panics at    *)
(* the first that is of another type; conf is not looked at after that.      *)
Loading == status = "config" /\ script # NoScript /\ script.runs

ScriptIsWrong ==
  /\ Loading
  /\ \/ \E k \in DOMAIN Tables : /\ ~IsTable(Tables[k])
                                /\ \A j \in 1 .. (k - 1) : Pushed(Tables[j])
     \/ /\ \A k \in DOMAIN Tables : Pushed(Tables[k])
        /\ \E o \in Options : script[o] = Ill
  /\ lua' = Closed("open")
  /\ status' = "panicked"
  /\ UNCHANGED <<script, argv, conf, arg>>

EntryIsNoString ==
  /\ Loading
  /\ \E k \in DOMAIN Tables : /\ IsTable(Tables[k]) /\ ~Strings(Tables[k])
                             /\ \A j \in 1 .. (k - 1) : Pushed(Tables[j])
  /\ lua' = "open"
  /\ status' = "aborted"
  /\ UNCHANGED <<script, argv, conf, arg>>

LoadConfig ==
  /\ Loading
  /\ \A k \in DOMAIN Tables : Pushed(Tables[k])
  /\ \A o \in Options : script[o] # Ill
  /\ \E exts \in SortsOf(TextsOf("file_exts")), skip \in SortsOf(TextsOf("skip_directories")) :
     \E number \in [Numbers -> U32s] :
       /\ \A o \in Numbers : number[o] \in Converted(script[o])
       /\ conf' = [f \in DOMAIN conf |->
                     IF f = "file_exts" THEN exts ELSE
                     IF f = "skip_directories" THEN skip ELSE
                     IF f \in Switches THEN script[f] ELSE
                     IF f \in Numbers THEN number[f] ELSE conf[f]]
  /\ lua' = "open"
  /\ status' = "arguments"
  /\ UNCHANGED <<script, argv, arg>>

-----------------------------------------------------------------------------
(* main: without a path, or with a help flag in its place, the usage.        *)
Usage ==
  /\ status = "arguments" /\ arg = 0
  /\ argv # <<>> => argv[1].is = "help"
  /\ status' = "usage"
  /\ UNCHANGED <<script, argv, conf, arg, lua>>

TakePath ==
  /\ status = "arguments" /\ arg = 0
  /\ argv # <<>> /\ argv[1].is # "help"
  /\ arg' = 1
  /\ UNCHANGED <<script, argv, conf, lua, status>>

(* The field of conf that an option is attached to.                          *)
Field ==
  [show |-> "show_after_sort", recur |-> "recursive_apply",
   disable_wrapping |-> "disable_wrapping",
   no_squash |-> "squash_for_duplicate_library", wrap_after |-> "wrap_after_n_imports"]

(* CSortOptParse, one round of its loop: an option without a value is turned *)
(* over.                                                                     *)
TurnedOn(option) == conf' = [conf EXCEPT ![Field[option]] = TRUE]
Toggled(option) == conf' = [conf EXCEPT ![Field[option]] = ~@]

ParseFlag ==
  /\ status = "arguments" /\ arg \in 1 .. (Len(argv) - 1)
  /\ LET option == argv[arg + 1].is
     IN /\ option \in DOMAIN Field /\ option # "wrap_after"
        /\ Toggled(option)
  /\ arg' = arg + 1
  /\ UNCHANGED <<script, argv, lua, status>>

(* The exit(1) of the error macro belongs to no "else": it follows every     *)
(* integer, well-formed or not.                                              *)
ParseNumber ==
  /\ status = "arguments" /\ arg \in 1 .. (Len(argv) - 1)
  /\ argv[arg + 1].is = "wrap_after"
  /\ conf' = IF arg + 2 \in DOMAIN argv
             THEN [conf EXCEPT !["wrap_after_n_imports"] = argv[arg + 2].value] ELSE conf
  /\ arg' = arg + 2
  /\ status' = "rejected"
  /\ UNCHANGED <<script, argv, lua>>

ParseFails ==
  /\ status = "arguments" /\ arg \in 1 .. (Len(argv) - 1)
  /\ argv[arg + 1].is \notin DOMAIN Field
  /\ arg' = arg + 1
  /\ status' = "rejected"
  /\ UNCHANGED <<script, argv, conf, lua>>

Configured ==
  /\ status = "arguments" /\ arg > 0 /\ arg = Len(argv)
  /\ status' = "configured"
  /\ UNCHANGED <<script, argv, conf, arg, lua>>

ConfigNext ==
  \/ DefaultConfig \/ ScriptFails \/ ScriptIsWrong \/ EntryIsNoString \/ LoadConfig
  \/ Usage \/ TakePath \/ ParseFlag \/ ParseNumber \/ ParseFails \/ Configured

-----------------------------------------------------------------------------
(* Properties                                                               *)

(* What an option is when no argument changes it.                            *)
Given(f) == IF script # NoScript /\ f \in Options THEN script[f] ELSE Defaults[f]
Times(option) == Cardinality({i \in 2 .. Len(argv) : argv[i].is = option})

(* What each flag is for (README.md:15-22, main.c:25-28).                    *)
Documented ==
  [show |-> TRUE, recur |-> TRUE, disable_wrapping |-> TRUE, no_squash |-> FALSE]

(***************************************************************************)
(* A run that gets past its arguments has the options of .csortconfig, or  *)
(* the defaults, for what its command line does not name; a flag that is   *)
(* named once, over a setting that is not already what it is for, does     *)
(* what it is for; and a whole number of .csortconfig is taken as it is    *)
(* when 32 bits can hold it.                                               *)
(***************************************************************************)
OptionsAsGiven ==
  status \in {"configured", "walking", "done"} =>
    /\ \A flag \in DOMAIN Documented :
         LET f == Field[flag]
         IN /\ Times(flag) = 0 => conf[f] = Given(f)
            /\ Times(flag) = 1 /\ Given(f) # Documented[flag] => conf[f] = Documented[flag]
    /\ \A f \in Numbers :
         IF script = NoScript THEN conf[f] = Defaults[f]
         ELSE \A n \in U32s : script[f] = 2 * n => conf[f] = n

(***************************************************************************)
(* Every name listed in .csortconfig is found in its list, in whatever     *)
(* order qsort left it, when none of them begins with another.             *)
(***************************************************************************)
Loaded == script # NoScript /\ status = "arguments"
Apart(list) == \A i, j \in DOMAIN list : i # j => ~IsPrefix(list[i], list[j])

ListedIsFound ==
  Loaded =>
    \A list \in {conf.file_exts, conf.skip_directories} :
      Apart(list) => \A i \in DOMAIN list : FindStrList(list, list[i])

(***************************************************************************)
(* "enable on these file formats" (.csortconfig:12): an extension that is  *)
(* listed is found.                                                        *)
(***************************************************************************)
FormatsEnabled ==
  Loaded => \A i \in DOMAIN conf.file_exts : FindStrList(conf.file_exts, conf.file_exts[i])

(***************************************************************************)
(* A run that ends through CSort_deinit leaves no Lua state open, and      *)
(* closes one twice only when the script fails.                            *)
(***************************************************************************)
LuaReleased ==
  status \in {"panicked", "no file", "done"} =>
    lua = IF script = NoScript THEN "none"
          ELSE IF script.runs THEN "closed" ELSE "closed twice"

(***************************************************************************)
(* The options of README.md:15-25: a flag that is named has done what it   *)
(* is for ("disable squashing duplicate librarys") when the arguments have *)
(* been read, and no argument is rejected that is an option with its value *)
(* ("-wa| --wrap-after: [Int]").                                           *)
(***************************************************************************)
OptionsAsDocumented ==
  /\ status \in {"configured", "rejected"} =>
       \A flag \in DOMAIN Documented :
         Times(flag) > 0 => conf[Field[flag]] = Documented[flag]
  /\ status = "rejected" =>
       \E i \in 2 .. Len(argv) :
         \/ argv[i].is \notin DOMAIN Field /\ argv[i - 1].is # "wrap_after"
         \/ argv[i].is = "wrap_after" /\ (i = Len(argv) \/ argv[i + 1].is # "number")

(***************************************************************************)
(* "which we'll skip while traversing filesystem" (config.h:238) and "on   *)
(* files with these extensions we will run #csort" (config.h:247): the     *)
(* default lists are the ones that are searched without .csortconfig.      *)
(***************************************************************************)
DefaultsListed ==
  status = "arguments" /\ script = NoScript =>
    /\ \A i \in DOMAIN DefaultExts : FindStrList(conf.file_exts, DefaultExts[i])
    /\ \A i \in DOMAIN DefaultSkip : FindStrList(conf.skip_directories, DefaultSkip[i])
=============================================================================
