# csort: a TLA+ verification project

csort reads Python files, collects their import statements and prints them
sorted.  It is a single-threaded C program: `main.c` drives it, `csort.c` holds
the option parser, the directory walk, the tokenizer, the collector and the
printer, `config.c` the configuration (a Lua script, `.csortconfig`), `core.c`
the containers everything else is built on.

What is hard in it is not concurrency.  It is a scanner without bounds over a
buffer that is refilled under it, loops in unsigned arithmetic whose
preconditions are established three functions away, containers with sizes in 32
bits, comparison functions that are no orderings, and a process-wide state
(descriptors, Lua, the arena) that every one of a dozen `exit` calls has to
leave in order.

- [Components](#components)
- [Modules](#modules)
- [How the models correspond to the code](#how-the-models-correspond-to-the-code)
- [Runs](#runs)
- [Where code and documentation disagree](#where-code-and-documentation-disagree)
- [Fairness](#fairness)
- [Proofs](#proofs)
- [Not modelled](#not-modelled)
- [Plan](#plan)

## Components

| Component | State | Operations | What makes it correct |
|---|---|---|---|
| Tokenizer and line reader (`csort.c` 455-608, `core.c` 180-259) | 512-byte buffer, view of what is left to scan, line counter, current token | `CSort_nexttoken`, `CSort_inc_buff`, `_getline`, `_update_token` | a scan stays in the line it is in; it always gets to the end of the file |
| Import collector (`csort.c` 207-256, 532-730) | list of modules, module under construction | the two statement parsers, duplicate checks, squashing, `CSortEntity_append_module` | one entry per library when squashing, no repeated names, file order, no module without names, nothing lost or invented |
| Printer (`csort.c` 740-829) | counters of the wrapping loops, output | `CSortEntity_do`, `nowrap_imports`, `wrap_imports` | every name once, in order, on the configured line; it ends |
| Order of names (`csort.c` 269-297) | the imports of a module | `_compare_cstr_nodes`, `_sort_imports` | numbers ascend; one result for all input orders |
| DynArray (`core.c` 374-416) | block, `len`, `mem_size`, `mem_free` | make, get, push, pop | behaves like a stack; never writes outside its block |
| Memory arena (`core.c` 70-175) | doubly linked list of nodes, each with a block | alloc, fill, dealloc, free | list intact in any order of calls; blocks large enough; nothing leaks |
| Configuration (`config.c`, `csort.c` 397-447) | options, three sorted lists, the Lua state | defaults, `CSortConfig_init_w_lua`, `CSort_load_config`, `CSortConfigFindStrList`, deinit | what is listed is found; Lua is closed once |
| Command line (`csort.c` 31-101, `main.c` 18-34) | the options | `CSortOptParse` | settings result from script and arguments; only bad arguments are refused |
| Directory walk and `main` (`csort.c` 109-200, `main.c` 36-108) | stack of open directories, descriptors | both walks, `CSortHandlePyFile` | exactly the right files, once each; descriptors accounted for |
| Entity life cycle (`csort.c` 207-266, 313-320, 369-376) | the doubly linked list of modules, its current node, the arena nodes modules point to | `CSortEntity_mk`, `CSortModuleObjNode_mk`, `CSortEntity_append_module`, `CSortEntity_find_module`, `CSortEntity_deinit` | every module is in the list once; what a module points to is its own; a file gives back its modules and titles, and leaves nothing to the next |
| String (`core.c` 266-369) | block, `len`, `memory_size`, `memory_filled`, `memory_left` | `string`, `string_append`, `string_realloc`, `string_free`, both ways of reading | the text that was put in is read back; never writes outside its block |
| String_View (`core.c` 180-259) | | used by the tokenizer and the names | |
| Diagnostics, tests, build files, Lua | | | not modelled |

How they interact: `main` configures the run and hands each file to an entity.
The entity's collector asks the tokenizer for one token after another; titles
and names go to the arena of the run, the nodes that hold them into the
DynArray of a module.  The printer sorts each DynArray in place and prints it.
The configuration lists are DynArrays of Strings.  Any of them may end the
process: `die` when memory or a file is missing, `CSort_panic*` through
`CSort_deinit`.

`PROJECT.json` lists the hazards, each at its line with the properties that
would show it going wrong.

## Modules

```
Tokens  <- Parser  <- Source       ImportTable   (abstract, implemented by Parser)
Lists   <- MemArena <- Entity      ImportTables  (abstract, implemented by Entity; extends ImportTable)
           MemArena                Registry      (abstract, implemented by MemArena)
Memory  <- DynArray                Stack         (abstract, implemented by DynArray)
Memory  <- Strings                 Buffer        (abstract, implemented by Strings)
Names   <- Printer
Names   <- Config <- Csort
```

`A <- B`: module B extends A.  `Lists` is what a loop along links in memory comes
by.  `Entity` composes the arena with the list of
modules and runs over several files; `Parser` says which names one file yields,
`Printer` what is printed of a list, `Csort` which files are sorted.
`Memory` has what arrays and strings share: a word that wraps around, and junk.
`MC*.tla` and the `.cfg` files instantiate them for TLC (`MCContainers` the array,
the string and the arena in one run, each taken through all it may do while the
other two are as they were made, as they share no state), `*Proofs.tla` hold the
theorems (`ListProofs` the lemmas that several of them use; those about the arena
are in `EntityProofs`, in front of what is built on it).  No module uses a
RECURSIVE operator.

## How the models correspond to the code

**Tokens.**  Text is a sequence of atoms: a word stands for one or more
characters that are no delimiter, two adjacent words for one longer word; the
keywords, space, comma, `#` and newline are atoms of their own.  `NextToken` is
`CSort_nexttoken` as a function of the text in view: the first delimiter that
ends a token, with the exceptions of the code (a space does not end `from`
unless it starts the buffer; a `#` drops the word before it; a scan without a
delimiter reports a newline).  Python files are taken to hold no zero bytes.

**Parser.**  `file`, `off` and `buf` are the file, how far `fgets` has read and
what it left in `p->buf`; `buf_view` is the pointer and length, kept apart
because the code lets them disagree.  `BufSize` counts atoms; 512 in the code
counts bytes.  `UpdateToken` is `_update_token` with all it calls.  When the
view reaches past the string the scan sees zero bytes up to the end of the
array, and beyond it any choice of delimiters and other bytes (`Beyond`): what
lies there is undefined.  Each action is the code between two calls of
`_update_token`, and `pc` names the call: `"module"` is the first in
`_parse_import_statement_with_duplicate_check`, `"known"` the one in its `while`,
`"firstSep"`, `"more"`, `"moreSep"` those after a new name, `"title"`,
`"importKw"`, `"name"`, `"nameSep"` those of a `from` statement.  `modules` is
the linked list, `node` the module not yet in it, `target` the module that
`_from_import` points to.  Allocation may fail at any time (`Die`), and does
when `HeapNodes` are used; that bound keeps the state space finite.  A name is
copied up to its first zero byte, as it is read back (`CopyCStr`).

**ImportTable** is the collector's promise: a table that grows by one acceptable
entry or one new name at a time.  `Parser!ImplementsTable` maps `modules`
without line numbers to `table`.

**Source** starts from a program: a text together with its import statements, each
given by the positions of its parts.  `Covered` says which programs csort's grammar
has: every statement on one line and at its start, words and commas between any
number of spaces, possibly a comment behind, and no keyword outside of
statements and comments that stands for itself (a space after `from` in the middle
of a line makes the scanner take it for part of a longer word, so that it does no harm).  `NextToken`
plays no part in it, so that comparing the list with the statements compares the
parser with something it does not contain.  What is between the statements is any
text.  `MCSource` builds programs from pieces; TLC checks that each one it means
to be covered is (`AllCovered`), and reads other texts too, of which nothing
is known: those are the files of odd lines the properties of the list are checked on.

**Printer.**  One action per printed line; the loops over the names of a line
are one step, the `while` over lines is not.  `Get` is `DynArray_get`, which
yields `Garbage` past the end.  `remaining` is u32: `TypeOK` asks that it stays a
natural number.  `asserts` distinguishes a build with `assert` from one with
`NDEBUG` (`CMakeLists.txt` has both).  `Lists` has no empty import list: that is
`Parser!NothingEmpty`, which is proved.

**Names.**  Names are sequences of character codes here, since
digits and beginnings matter.  `SortsWith` is `qsort`: any permutation in which no
name compares greater than its neighbour.  That is all that is assumed of it,
because `_compare_cstr_nodes` returns 0 or 1 for names with the same stem and
`string_strncmp` equates a name with its beginnings: neither is an ordering.  A
merge sort (glibc's) yields such permutations for any comparison.
`FindStrList` is the halving search of `bsearch`.  `Config` sorts its lists with
`StringStrncmp`, `Printer` the imports of a module with `CompareNodes`.

**DynArray.**  `cells` is the allocated block in entries; sizes in bytes wrap at
`U32`.  A write that is outside the block ends in status `"undefined"`.
`realloc` may fail, and asked for no bytes it returns NULL, which ends the
program.  `mem_cursor` is written and never read, and left out.

**MemArena.**  `Alloc` is `CSortMemArena_alloc` with the fills that follow it in
the same function: `CopyCStr` (a string, then its NUL) and `KeepOptions`
(`CSort_update_config_via_cmd`).  `Chain` follows the links from `first` as
`CSortMemArena_free` does (`Followed` of `Lists`).  `Registry` keeps what the list reaches next to what is
allocated, so that an allocation the list misses is not a stutter of it.

**Entity.**  `object` is the memory of the modules, by address: what
`CSortModuleObjNode_mk` allocates and `CSortEntity_deinit` frees, with the links
as they are (`Junk` until `CSortEntity_append_module` writes them).  `modules`,
`modules_curr_node` and `node` are the entity's pointers; titles and imports are
nodes of the arena, and `text` is what each was filled with.  Every action
that copies or releases a text is an action of `MemArena` as well
(`EntityUsesArena` proves that a run of the entity is a run of the arena).
One action per statement head, pushed name, end of statement, printed
module and released module; a panic or `die` may come between any two.
`Reached` follows the links.  An import array is a sequence, which is what
`DynArray` is proved to implement.  `CSortEntity_deinit` would also release
`written_as`, which no code ever sets.

**ImportTables** is the promise over several files: `ImportTable` for each, whose
entries may be reordered when it is printed, and which is forgotten before the
next is begun.

**Strings.**  `data` is the block, `Junk` where nothing was written; the four
numbers are the fields of `String` and wrap around at `U32`.  `string` is
`MakeFilled` and `MakeUnfilled` (`string_fill` refuses a text that is longer than
the block, and its -1 is not looked at); `string_append` is `AppendFits` and
`AppendGrows`, which includes `string_realloc`.  A write outside the block ends
in status `"undefined"`.  `View` is the text by its length, `IsCStr` by its NUL.
`string_slice` is `string` of what lies between its pointers.

**Config, Csort.**  A script is a record of its globals, or does not run, or is
absent; a list has entries of any Lua type, and a number is counted in halves
and cut off to a u32 (`Converted`; what does not fit yields any u32, the C
conversion being undefined).  `CSort_load_config` reads three lists and five
options in that order, so that the first that is wrong decides between a panic
and the assertion on an entry (`EntryIsNoString`, in status `aborted`; a build
without assertions pushes the text of a number instead, and any other entry
ends it the same way); an argument is what it is, not how it is spelled.  `status` is where
`main` is, or how the run ended: `usage`, `rejected`, `panicked` (through
`CSort_deinit`), `aborted`, `no file`, `died` (no descriptor, or a file that cannot be
opened), `starved` (no memory), `done`.  `lua` counts `lua_close`.  `dirs` is the
call stack of the walk: a directory and the entries `readdir` has not yielded,
which it does in any order.  The walk without `--recur` is the same loop that
descends nowhere.  A file that is handed over is sorted, or its parser panics,
or memory runs out; its descriptor is taken and not given back.  Two facts of
glibc are relied on: `closedir(NULL)` returns, and `malloc(0)` is not NULL.
Entries whose `d_type` is neither file nor directory (links, and all entries
on file systems that do not fill it in) are `other` and are passed over.

## Runs

| Run | Instance | Shows |
|---|---|---|
| `text` | every text of 4 atoms or fewer, alone and as the continuation of an open `import` or `from` statement, and long lines cut at every place; buffer of 8 | `TypeOK`; `ViewBeforeNewline`: in files of complete lines a scan never leaves the line; `OverrunOnlySkippedSpaces`: in any file the view exceeds the string by the skipped spaces at most; `Terminates`: the parser stops unless a buffer load ends in a space or a scan leaves the array |
| `source` | programs of up to three lines in four layouts, and texts of three lines (plain and odd shapes), with and without the last newline; buffer of 32 | `NothingLostOrInvented`: the list says what the program says, libraries in order, and no correct program is rejected; `StartLineKnown`; on all files `NothingTwice`, `NothingEmpty`, `LinesInOrder`, `PanicNamesItsLine`, and the refinement of `ImportTable`, squashing on and off |
| `layout` | lists of up to two statements with up to 5 names, `wrap_after_n_imports` and `import_on_each_wrap` 0 to 4, with and without `--show` and assertions; and every choice of up to five from nine names that differ in their numbers, in any one order (what qsort may leave does not depend on the order it is given) | `PrintsEveryName`; `LayoutAsConfigured`: what is not wrapped is on one line, a `from` statement that is has the configured number of names on each; `NumbersAscend`, `OneOrder`, `Finishes` |
| `containers` | a word that wraps around at 14.  An array with entries of 3 bytes, which do not divide the word, and growth by 2; strings of every length the word can count, 2 bytes to spare and 3 extra; an arena of four nodes with data that fits, fills a block to its last byte, and makes it grow | `BlockAsBelieved`, `OutsideOnlyPastLimit` and the refinement of `Stack`: the size in bytes passes the limit without meeting it, and only then is memory outside the block written; `StringWhole`: sizes, block, NUL and proportion; `OutsideOnlyIfHuge`: a write leaves the block only when half of what the word can count is reached; refinement of `Buffer`; `LinksAgree`, `BlocksHold` and the refinement of `Registry` (which includes that `CSortMemArena_free` leaves no node behind) |
| `entity` | two files one after the other with any names from two; five arena nodes, three addresses for modules; squashing and printing on and off; ended by a panic or `die` anywhere | `ListWhole`: the linked list holds exactly the modules there are, forth and back; `TextsOwned`: no node is shared or dangling; `NoTitleLost`; refinement of `ImportTables` |
| `walk` | three directory trees (nested, with dots in directory names, with names too long for a path), single files, four scripts for the walk, with and without `--recur`; for a single file every command line of up to three options with every kind of script (lists with entries that are no strings, numbers with fractions and beyond the word); four descriptors | `VisitsExactly`: of the files whose names cannot be mistaken for listed ones a directory run sorts none twice and only those of a listed format outside the listed directories, also when a file ends it, and all of them when it gets through; `OptionsAsGiven`: what is not named is the script's or the default, a flag named once over another setting does what it is for, a whole number is kept; `DescriptorsSuffice`, `ListedIsFound`, `LuaReleased` |
| `duplicates`, `wrapimports`, `listed`, `usage`, `defaults`, `prefixes` | the same models, one property each | a disagreement, see below |

Why the bounds are enough.  The tokenizer has no memory but the buffer and the
view, so four atoms after each open statement meet every transition; the
buffer of 8 is shorter than the long lines and is left on both sides of its
end.  Three lines give two statements to combine and one between them, and a
third name to repeat.  The printer's arithmetic is in multiples of at most 4
up to 5, so that a line is full, short by any number, and absent.  An arena of four nodes has
a first, a last and two inner nodes to release next to each other.  The array
passes the limit at the second growth.
Three modules have a first, a last and a middle one, and with five nodes a title
that is given back is handed out again for a name of the second file; two
files are one after which something can be left.  In a word that wraps around at 14
every sum the string code computes does so for some text.  Four descriptors suffice for the nested
tree in some of the orders in which its entries may come, and not in others.
What the bounds leave open is the subject of the proofs.

`OneOrder` is limited to names with digits at the end and without leading
zeros: for `a01`, `a1` or `a1b` the comparison leaves the order to the input.

## Where code and documentation disagree

Each of these runs checks one statement of a comment or document, and TLC finds
a behaviour of the code that breaks it; `PROJECT.json` quotes the lines.

| Run | Statement | What happens |
|---|---|---|
| `duplicates` | duplicates are checked (`csort.c:618`) | only for names up to the first new one |
| `wrapimports` | the wrapping options work "with imports using `from`" (`.csortconfig:19`) | `import b, a` is wrapped in parentheses too (`csort.c:821`), which is no Python |
| `listed` | "enable on these file formats", "skip these directories" (`.csortconfig:12`, `:15`) | a name is taken for a listed one that only begins with it: `m.pyc` is sorted with `.py` listed (as the FIXME at `config.c:80` says), `build2` is skipped with `build`; and the extension is looked for in the whole path, so that `x.py/README` is sorted (`main.c:54`) |
| `usage` | `--no-squash-duplicates` disables squashing, `--wrap-after` takes a number (`README.md:21`, `:24`) | the flag turns its setting over, and turns squashing on when the script turned it off (`csort.c:95`); `--wrap-after` ends the run, with any number (`csort.c:84`) |
| `defaults` | the default directories are skipped, files with the default extensions sorted (`config.h:238`, `config.h:247`) | the unsorted list hides `build`, and the list of extensions is empty |
| `prefixes` | enabled on these formats (`.csortconfig:12`) | a listed extension may not be found |

Other disagreements show in how the models, or the properties that hold, are
written:

- An error names `0:0` when the file ends in a statement (`csort.c:599`);
  `PanicNamesItsLine` allows for it.
- `Terminates` excludes buffer loads that end in a space: the code then asks
  for an empty token for ever (`csort.c:594`).
- `OutsideOnlyPastLimit` admits a write outside the block once the size of an
  array has passed the 32-bit limit (`core.c:400`).
- Lua is closed twice when the script fails (`config.c:16` and the caller's
  panic), as the comment at `csort.c:329` suspects; `LuaReleased` says that this
  is the only case.
- `wrap_after_col` is never read; with `import_on_each_wrap = 0` a build with assertions ends at `csort.c:771`,
  and one without them never does, which `Finishes` excludes.

## Fairness

`Parser`, `Source` and `Printer` assume weak fairness of their next-state
relation: one thread runs the loop and always takes its next step.  Nothing is
assumed about which step it is.  The other modules state no liveness and no
fairness.

## Proofs

TLC checks instances; the theorems hold for all constants.

- **ListProofs** (lemmas only).  Induction takes an operator as a parameter, which
  none of the provers can be given; `Smallest` takes its place: a set of natural numbers that is
  not empty has a least element, and the set of counterexamples to a claim has
  none.  `TreeRecursion` is the same for trees, and shows that a function defined
  along one exists.  `FollowedIs`: when a sequence without repetitions leads along the links
  from an address to none, following the links yields that sequence.
  `AppendLinked` and `RemoveLinked` say what appending to a doubly linked list,
  and unlinking from it, does to that sequence.
- **ParserProofs.**  Lemmas first: where the token `NextToken` returns begins and
  where the next scan starts.  `TypeCorrect`.  `ScanStaysInLine`: inductive by itself once a
  newline of the line is known to lie at or after the next scan
  (`ViewStep`).  `OverrunIsSkipped` is inductive too: a token adds the spaces
  skipped before it, which are spaces of the string because the array holds zeros
  past it.  `ErrorsNameTheirLine` follows from `LineKnown`: the counter is the
  number of newlines read.  `PrinterPrecondition` and `ListFollowsFile` need `Shape`: which
  `pc` may go with a node or target that is still empty, and that lines in the
  list are at most the counter.  `NothingListedTwice` rests on `LibrariesCombined`,
  `LibraryNamesUnique` and `FirstNamesNew`, which need `Fresh` (the title or first name of the node under
  construction is in no entry yet) and hold for files of complete lines
  (`FitsBuffer`), where a copied name equals the token: elsewhere a name may be
  cut at a zero byte past the string, after the duplicate check.
  `ParserImplementsTable` is the refinement under the assumption that all files
  have complete lines: every action appends an acceptable entry, adds a new
  name, closes the table, or stutters.
- **SourceProofs.**  `ProgramCollected` and `ImportsStart` (`NothingLostOrInvented` and
  `StartLineKnown`), for every program in the grammar, any length and layout, and
  every buffer its lines fit in.  Three layers.  What one call of `_update_token`
  reads: `here` is where the scan goes on in the file, and from there `TokenRead` finds the
  token's end; `ReadName`, `ReadSeparator` and `ReadHead` say what is read at each place of a
  statement, and `ReadBetween` that between statements nothing is taken for the
  beginning of one, wherever the scan is in the line.  What is collected:
  after `d` statements and `x` names of the next, the names in the list and in the node
  are `SeenModules` and `SeenFrom`, and each entry has a statement it came from, in the
  order of the program (`Collected`); lemmas say what each way of adding a name, or
  of finding it there already, does to that.  And the
  invariant that joins them, `Follows`: the scan is between statements or at a certain place
  in one (`BetweenStatements`, `InStatement`), what is left to read is what follows there,
  and what is collected is what precedes it.  It is inductive with the parser's
  own `TypeOK`, `ViewBeforeNewline`, `LineKnown` and `Shape` (`FollowsInvariant`, one lemma per action).
  That a covered program is never rejected is part of it: each panic is at a token that is not there.
- **PrinterProofs.**  `PrinterTypeCorrect` (no unsigned counter wraps around) and
  `NothingUnprinted`, from `Counters` (`count + remaining` is the number of names
  between two lines) and that sorting keeps the length of a list (`SortedType`).
  `LayoutFollowsOptions` (what is not wrapped is on one line, and where each name of a
  wrapped `from` statement is) from `LayoutInv`: every name printed is in the row of its
  position (`RowsFit`), and between two rows of a statement only full ones have
  been printed (`RowCounts`).  `NumbersInOrder` and `OrderIsUnique`: qsort leaves
  every two neighbours in order by a comparison that is neither total nor
  transitive.  A plain name has a key, which is its stem and a single `0` in place of
  its number; what the comparison says of two neighbours puts them in order by
  key, then by number (`NodesInOrder`), and that order is transitive
  (`InOrderTransitive`) and holds both ways of equal names only (`InOrderOneWay`, which
  rests on `SameNumber`: digits without leading zeros are determined by their value).
  So it holds of names further apart (`AllInOrder`), and two lists of the same
  names that are both in it are the same (`OnlyOrder`).
- **DynArrayProofs.**  `ArrayTypeCorrect`, `BlockBelieved`, `OnlyPastLimit` and the
  refinement `ArrayImplementsStack`, from `Grown`: while the program runs the size
  is a multiple of the growth and its bytes are below the limit.
- **EntityProofs.**  The arena first: `ArenaTypeCorrect`, `ListIntact` and `FilledWithinBlock`
  are inductive together.  `ArenaIsRegistry`, the refinement, needs that there is
  a sequence that holds every allocated node once and leads from `first` to the last
  along both links: such a sequence says what `Chain` is, an allocation appends to
  it and a release takes one out.
  `EntityUsesArena`: each step of the entity is a step of the arena or
  leaves it alone, so that the arena's theorems hold here.  `EntityInvariant`:
  types, that the links back mirror the links forth (`Mirrored`), where the list
  ends (`Ends`), and which modules are fully titled.  With it `TextsAreOwned` and
  `TitlesReturned` are inductive together: what `Dealloc` frees is the title of the
  module that is released, and what `Alloc` returns is nobody's.  `ListIsWhole` follows
  from a sequence of modules as in the arena: one that holds every module once
  and is led along by `next`; while a file is released, its tail is what is left.
  `EntityIsTables` is the refinement: what is read off that sequence is the table,
  whose entry for a module changes only with the module.
- **StringsProofs.**  `StringIsWhole`, `StringTypes`, `StringInside` and the
  refinement `StringImplementsBuffer`, for every word size, `Spare` and `Extra`.
  The invariant is the property itself; the work is in the wrap-around
  (`WrappedWord`: a sum that fits is exact, one that does not is smaller by a whole word).
- **CsortProofs.**  `DescriptorsAccounted` and `LuaAccounted`, from `RunInv`: which
  descriptors are open at each status, and that Lua is open exactly between the
  script and `CSort_deinit`.  `OptionsResult` from `OptionInv`: after so many
  arguments a switch has been turned over as often as it was named among them,
  so that one named once has been turned over from what the script gave.
  `RunTypeCorrect` needs that what is left to read of a directory is in it.
  `EachListedIsFound` rests on `SortedBefore`, a lemma, and `Search`.  `SortedBefore`: in a
  sorted list of names none of which begins with another, every name is below all that
  follow it, although the comparison equates a name with its beginnings.  `Search`: in such a list
  the binary search finds exactly what begins with a listed name, because the name it
  begins with lies on the side the comparison points to; so it finds every
  listed name, and longer names that are not listed as well.
  `EachFileOnce` is about the whole walk, and goes in two steps.  What the code takes
  for a file to be sorted (`Eligible`: by the search in its lists, of the extension of the
  whole path) is what `TourInv` is about: the files sorted so far
  are those that are not still awaited, and awaited is what is
  unread in a directory of the call stack, and everything below it.  To keep that, it
  also says that the directories of the call stack are distinct, on ways on which nothing is
  skipped, and that neither they nor those that could not be opened are awaited any more:
  without it a directory could be entered twice.  `VisitInv` keeps what has been sorted by a run
  that a file ended.  What the lists say (`Wanted`: by a file's own name and the
  names themselves) is compared with it by `ListsSay`: for a file that is
  `Unmistakable`, in lists that are `Searchable`, it is the same.  That rests on
  `Search`, and on `OwnExtension`: the last dot of a path is that of the file's own
  name when there is one in it.

Assumed of the constants:

- `ConfigAssumption`: what a script may hold (a table of names is a sequence of C
  strings), and that an argument is a kind and a number.
- `TreeOK`, of a file system: every entry but the root is in a directory, names are
  C strings, and no directory is inside itself, however far down (a set of entries
  each of which is in one of the set is empty).
- `ArenaAssumption`, `EntityAssumption`: there are finitely many nodes and addresses,
  as there is memory.
- `PrinterAssumption`: every statement of a list has a name (which `Parser` is proved to
  leave), and names are C strings that are not empty.
- `SourceAssumption`: a program has a text and positions.  `Covered` is a hypothesis of
  the two properties, not of the theorems: programs that are not covered are read too.

`ListedIsFound` is stated for lists in which no name begins with another (`Apart`), which is
the hypothesis the search needs; `prefixes` shows what happens otherwise.  `VisitsExactly`
asks the same of the lists (`Searchable`), and speaks of the files whose names the search
cannot mistake (`Unmistakable`: no extension, and no directory on the way, begins with a listed
name it is not); `listed` shows what happens to the others.

Only model-checked: `Terminates` and `Finishes`, since liveness is out of the prover's
reach.  Every invariant, action property and refinement the passing runs check is a theorem.

## Not modelled

- Text of messages, of the usage and of the output beyond names and lines.
- Numbers with more than 63 bits at the end of a name.
- `SV_chop*`, `str_findPred`, `CSortMemArenaNode_init_w_size`: nothing in the
  program calls them, and they keep no state.  `DynArray_free` ends an array and
  changes nothing that is looked at afterwards.
- Lua, the C library, the tests and the build files.

## Plan

Done, in this order: the tokenizer and the collector (the core), what they
promise, the comparison with programs, the printer, DynArray, the arena, the
order of names, configuration, command line and walk; a proof of the central
invariant of each state machine; then the entity over several files with its
linked list and the arena, the strings, and what a script may hold.

After that the proofs of everything else the runs check of a state machine: the
lists in memory and the two refinements that look through them, the binary search, the
walk over the tree, the order of names, and last what the parser makes of a whole program.

Next:

1. In `DynArray`, the size of an entry as a field chosen when the array is made:
   one run then covers sizes that meet the limit and sizes that pass it.
2. A ranking function for the parser (atoms left of the file, then of the view), which would
   bring most of `Terminates` into the prover's reach as a safety property.
