------------------------------ MODULE DynArray ------------------------------
(***************************************************************************)
(* DynArray (core.c): an array of fixed-size entries that grows by a fixed *)
(* number of entries with realloc.  Sizes and offsets are u32, computed by *)
(* multiplying the number of entries with their size.                      *)
(*                                                                         *)
(* Nothing but DynArray_push writes mem_free and mem_cursor, and nothing   *)
(* reads them; mem_cursor is left out.                                     *)
(***************************************************************************)
EXTENDS Memory

CONSTANTS
  Values,      (* what is stored                                           *)
  ChunkSize,   (* bytes of an entry                                        *)
  Grow         (* entries at first, and added when full: 16 in the code    *)

ASSUME DynArrayAssumption ==
  /\ Junk \notin Values
  /\ ChunkSize \in Nat \ {0} /\ Grow \in Nat \ {0} /\ U32 \in Nat
  /\ ChunkSize * Grow < U32

VARIABLES
  cells,        (* the entries of the allocated block                      *)
  mem_size,     (* how many the array believes it has                      *)
  len,
  mem_free,
  arrayStatus   (* "running"; "died" in die(); "undefined" after a write   *)
                (* outside the block                                       *)

arrayVars == <<cells, mem_size, len, mem_free, arrayStatus>>

(* DEV_malloc, DEV_realloc: the bytes asked for.                             *)
Bytes(entries) == Wrapped(ChunkSize * entries)

(* The block after realloc to "entries" of them: old entries are kept as far *)
(* as they fit, and whole entries only are looked at.                        *)
ResizedEntries(entries) ==
  [i \in 1 .. (Bytes(entries) \div ChunkSize) |->
     IF i \in DOMAIN cells THEN cells[i] ELSE Junk]

(* DynArray_get does not check its index.                                    *)
Get(i) == cells[i + 1]

-----------------------------------------------------------------------------
(* DynArray_mk *)
ArrayInit ==
  /\ mem_size = Grow /\ len = 0 /\ mem_free = Grow
  /\ cells = [i \in 1 .. Grow |-> Junk]
  /\ arrayStatus = "running"

(* The rest of DynArray_push once there is a block: the entry goes to offset *)
(* chunk_size * len, wherever that is.                                       *)
StoreNext(v, block) ==
  /\ len' = len + 1
  /\ IF Wrapped(ChunkSize * len') + ChunkSize <= ChunkSize * Len(block)
     THEN /\ cells' = [block EXCEPT ![Wrapped(ChunkSize * len') \div ChunkSize + 1] = v]
          /\ UNCHANGED arrayStatus
     ELSE cells' = block /\ arrayStatus' = "undefined"
  /\ mem_free' = Wrapped(mem_free - 1)
Store(v, block) ==
  /\ IF Wrapped(ChunkSize * len) + ChunkSize <= ChunkSize * Len(block)
     THEN /\ cells' = [block EXCEPT ![Wrapped(ChunkSize * len) \div ChunkSize + 1] = v]
          /\ UNCHANGED arrayStatus
     ELSE cells' = block /\ arrayStatus' = "undefined"
  /\ len' = len + 1
  /\ mem_free' = Wrapped(mem_free - 1)

PushFitsAtEnd(v) ==
  /\ arrayStatus = "running" /\ len <= mem_size
  /\ Store(v, cells)
  /\ UNCHANGED mem_size
PushFits(v) ==
  /\ arrayStatus = "running" /\ len < mem_size
  /\ Store(v, cells)
  /\ UNCHANGED mem_size

(* realloc to no bytes at all frees the block and returns NULL, and die()    *)
(* ends the program; it may also fail for lack of memory.                    *)
PushGrowsFresh(v) ==
  /\ arrayStatus = "running" /\ len >= mem_size
  /\ mem_size' = mem_size + Grow
  /\ Bytes(mem_size') > 0
  /\ Store(v, [i \in 1 .. (Bytes(mem_size') \div ChunkSize) |-> Junk])
PushGrows(v) ==
  /\ arrayStatus = "running" /\ len >= mem_size
  /\ mem_size' = mem_size + Grow
  /\ Bytes(mem_size') > 0
  /\ Store(v, ResizedEntries(mem_size'))

PushDies ==
  /\ arrayStatus = "running" /\ len >= mem_size
  /\ mem_size' = mem_size + Grow
  /\ arrayStatus' = "died"
  /\ UNCHANGED <<cells, len, mem_free>>

(* DynArray_pop; on an empty array it returns -1.                            *)
PopUnchecked ==
  /\ arrayStatus = "running"
  /\ len' = len - 1
  /\ UNCHANGED <<cells, mem_size, mem_free, arrayStatus>>
Pop ==
  /\ arrayStatus = "running" /\ len > 0
  /\ len' = len - 1
  /\ UNCHANGED <<cells, mem_size, mem_free, arrayStatus>>

ArrayStopped == arrayStatus # "running" /\ UNCHANGED arrayVars

ArrayNext ==
  \/ \E v \in Values : PushFits(v) \/ PushGrows(v)
  \/ PushDies \/ Pop \/ ArrayStopped

ArraySpec == ArrayInit /\ [][ArrayNext]_arrayVars

-----------------------------------------------------------------------------
(* Properties                                                               *)

ArrayTypeOK ==
  /\ mem_size \in Nat /\ len \in Nat /\ mem_free \in 0 .. (U32 - 1)
  /\ cells \in Seq(Values \cup {Junk})
  /\ arrayStatus \in {"running", "died", "undefined"}

(***************************************************************************)
(* While the program runs, the block has as many entries as the array      *)
(* believes, and every entry below len was written: what DynArray_get      *)
(* yields for them is never junk.                                          *)
(***************************************************************************)
BlockAsBelieved ==
  arrayStatus = "running" =>
    /\ Len(cells) = mem_size /\ len <= mem_size
    /\ \A i \in 0 .. (len - 1) : Get(i) \in Values

(***************************************************************************)
(* A write outside the block needs an array whose size in bytes passed the *)
(* 32-bit limit without hitting it; it cannot happen when growing reaches  *)
(* the limit exactly, as it does for entries of 8 bytes (pointers).        *)
(***************************************************************************)
OutsideOnlyPastLimit ==
  arrayStatus = "undefined" => /\ ChunkSize * mem_size > U32
                          /\ \A k \in 1 .. U32 : ChunkSize * Grow * k # U32

-----------------------------------------------------------------------------
(* The array implements a stack, whose entries DynArray_get yields in order. *)
AsStack == INSTANCE Stack WITH
  contents <- IF arrayStatus = "running" THEN [i \in 1 .. len |-> Get(i - 1)] ELSE <<>>,
  alive    <- arrayStatus = "running"

ImplementsStack == AsStack!Spec
=============================================================================
