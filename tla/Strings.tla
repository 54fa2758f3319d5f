------------------------------ MODULE Strings -------------------------------
(***************************************************************************)
(* String (core.c): characters that are allocated with some room to spare, *)
(* filled at once, and appended to, with realloc when the room is used up. *)
(* Lengths and sizes are u32.                                              *)
(***************************************************************************)
EXTENDS Memory

CONSTANTS
  Chars,     (* what texts are made of: anything but NUL                   *)
  Nul,
  Texts,     (* what callers pass                                          *)
  Spare,     (* added by string_alloc: 16 in the code                      *)
  Extra      (* added by string_realloc: 64 in the code                    *)

ASSUME StringsAssumption ==
  /\ Nul \notin Chars /\ Junk \notin Chars /\ Nul # Junk
  /\ Spare \in Nat \ {0} /\ Extra \in Nat /\ U32 \in Nat
  /\ Spare <= Extra /\ Extra < U32
  /\ \A t \in Texts : t \in Seq(Chars) /\ Len(t) < U32

VARIABLES
  data,           (* the allocated block                                   *)
  length,         (* len in the code                                       *)
  memory_size, memory_filled, memory_left,
  stringStatus    (* "none" until there is a string; "open"; "freed";      *)
                  (* "died" in die(); "undefined" after a write outside    *)
                  (* the block                                             *)

sizes == <<length, memory_size, memory_filled, memory_left>>
stringVars == <<data, sizes, stringStatus>>

FreshText(size) == [i \in 1 .. size |-> Junk]

(* DEV_realloc: what fits is kept.                                           *)
ResizedText(size) == [i \in 1 .. size |-> IF i <= Len(data) THEN data[i] ELSE Junk]

(* memcpy behind the text, and the NUL behind that.                          *)
WrittenNulFirst(block, at, t) ==
  [i \in 1 .. Len(block) |->
     IF i = at + 1 THEN Nul
     ELSE IF i \in (at + 1) .. (at + Len(t)) THEN t[i - at] ELSE block[i]]
Written(block, at, t) ==
  [i \in 1 .. Len(block) |->
     IF i \in (at + 1) .. (at + Len(t)) THEN t[i - at]
     ELSE IF i = at + Len(t) + 1 THEN Nul ELSE block[i]]

-----------------------------------------------------------------------------
StringInit ==
  /\ data = <<>> /\ length = 0 /\ memory_size = 0 /\ memory_filled = 0 /\ memory_left = 0
  /\ stringStatus = "none"

(* What string_fill and string_append do once there is a block of size bytes. *)
PutBehindNul(t, from, block, size) ==
  /\ memory_size' = size
  /\ length' = Wrapped(from + Len(t) + 1)
  /\ memory_filled' = Wrapped(length' + 1)
  /\ memory_left' = Wrapped(size - memory_filled')
  /\ IF from + 1 + Len(t) < Len(block)
     THEN data' = Written(block, from + 1, t) /\ stringStatus' = "open"
     ELSE data' = block /\ stringStatus' = "undefined"
Put(t, from, block, size) ==
  /\ memory_size' = size
  /\ length' = Wrapped(from + Len(t))
  /\ memory_filled' = Wrapped(length' + 1)
  /\ memory_left' = Wrapped(size - memory_filled')
  /\ IF from + Len(t) < Len(block)
     THEN data' = Written(block, from, t) /\ stringStatus' = "open"
     ELSE data' = block /\ stringStatus' = "undefined"

(* string() and string_slice(): string_alloc, then string_fill, whose -1 is  *)
(* not looked at: the text is left out, and no NUL is written.               *)
Room(t) == Wrapped(Len(t) + Spare)

MakeFilled(t) ==
  /\ stringStatus = "none"
  /\ Len(t) < Room(t)
  /\ Put(t, 0, FreshText(Room(t)), Room(t))

MakeUnfilled(t) ==
  /\ stringStatus = "none"
  /\ Len(t) >= Room(t)
  /\ data' = FreshText(Room(t))
  /\ length' = 0 /\ memory_filled' = 0
  /\ memory_size' = Room(t) /\ memory_left' = Room(t)
  /\ stringStatus' = "open"

(* string_append *)
AppendFits(t) ==
  /\ stringStatus = "open" /\ Len(t) < memory_left
  /\ Put(t, length, data, memory_size)

GrownByExtra(t) == Wrapped(memory_size + Extra)
NewSize(t) == Wrapped(memory_size + Len(t) + Extra)

(* realloc to no bytes at all returns NULL, and die() ends the program.      *)
AppendGrows(t) ==
  /\ stringStatus = "open" /\ Len(t) >= memory_left
  /\ NewSize(t) > 0
  /\ Put(t, length, ResizedText(NewSize(t)), NewSize(t))

(* malloc and realloc may also fail for lack of memory.                      *)
MakeDies == stringStatus = "none" /\ stringStatus' = "died" /\ UNCHANGED <<data, sizes>>

AppendDies(t) ==
  /\ stringStatus = "open" /\ Len(t) >= memory_left
  /\ memory_size' = NewSize(t)
  /\ stringStatus' = "died"
  /\ UNCHANGED <<data, length, memory_filled, memory_left>>

(* string_free *)
Free == stringStatus = "open" /\ stringStatus' = "freed" /\ UNCHANGED <<data, sizes>>

StringStopped == stringStatus \in {"freed", "died", "undefined"} /\ UNCHANGED stringVars

StringNext ==
  \/ \E t \in Texts :
       MakeFilled(t) \/ MakeUnfilled(t) \/ AppendFits(t) \/ AppendGrows(t) \/ AppendDies(t)
  \/ MakeDies \/ Free \/ StringStopped

StringSpec == StringInit /\ [][StringNext]_stringVars

-----------------------------------------------------------------------------
(* Reading: SV_fromString takes len characters, a C string (string_cstr) all *)
(* up to the first NUL.                                                      *)
View == SubSeq(data, 1, length)

IsCStr(t) ==
  /\ Len(t) < Len(data)
  /\ data[Len(t) + 1] = Nul
  /\ \A i \in 1 .. Len(t) : data[i] = t[i] /\ t[i] # Nul

-----------------------------------------------------------------------------
(* Properties                                                               *)

Words == 0 .. (U32 - 1)

StringTypeOK ==
  /\ data \in Seq(Chars \cup {Nul, Junk})
  /\ length \in Words /\ memory_size \in Words
  /\ memory_filled \in Words /\ memory_left \in Words
  /\ stringStatus \in {"none", "open", "freed", "died", "undefined"}

(***************************************************************************)
(* A string that can be used has the block it believes to have, its free   *)
(* room is what the text and its NUL leave of that, and nothing of this    *)
(* was computed past the end of the 32 bits.                               *)
(***************************************************************************)
SizesAccounted ==
  stringStatus = "open" =>
    /\ Len(data) = memory_size
    /\ memory_filled + memory_left = memory_size
    /\ memory_filled > 0 => memory_filled = length + 1
    /\ memory_filled = 0 => length = 0 /\ memory_size < Spare

(***************************************************************************)
(* The two ways to read a string agree: with its length, and up to its     *)
(* NUL.  (One that was made of a text too long to count has no NUL.)       *)
(***************************************************************************)
ReadsTheSame == stringStatus = "open" /\ memory_filled > 0 => IsCStr(View)

(***************************************************************************)
(* However a text is put together, its block is never larger than twice    *)
(* the text and what string_realloc adds once.                             *)
(***************************************************************************)
InProportion == stringStatus = "open" => memory_size <= 2 * length + Extra + 1

(***************************************************************************)
(* A string is whole: string_fill, string_append and string_realloc leave  *)
(* the four sizes, the block and the NUL in agreement with each other,     *)
(* and the block in proportion, after any texts.                           *)
(***************************************************************************)
StringWhole == SizesAccounted /\ ReadsTheSame /\ InProportion

(***************************************************************************)
(* Appending writes outside the block only for a text of half of what 32   *)
(* bits can count, or more.                                                *)
(***************************************************************************)
Huge(n) == 2 * n + Extra + 1 >= U32
OutsideOnlyIfHuge ==
  [][stringStatus' = "undefined" =>
       \E t \in Texts : /\ stringStatus = "open" /\ Huge(length + Len(t))
                        /\ length' = Wrapped(length + Len(t))]_stringVars

-----------------------------------------------------------------------------
(***************************************************************************)
(* A string implements a text that grows: what SV_fromString yields is     *)
(* what was given to string() and string_append, in order.                 *)
(***************************************************************************)
AsBuffer == INSTANCE Buffer WITH
  MaxText  <- U32 - Spare - 1,
  contents <- IF stringStatus = "open" THEN View ELSE <<>>,
  state    <- IF stringStatus \in {"none", "open"} THEN stringStatus ELSE "over"

ImplementsBuffer == AsBuffer!Spec
=============================================================================
