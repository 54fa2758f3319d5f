------------------------------ MODULE MemArena ------------------------------
(***************************************************************************)
(* CSortMemArena (core.c): every block of memory the program keeps, in     *)
(* nodes of a doubly linked list.  A node's block grows when it is filled. *)
(*                                                                         *)
(* mem_cursor is mem + mem_used after each call and is left out.  The u32  *)
(* sizes do not wrap around here: a node is filled twice, with no more     *)
(* than a line of the file.                                                *)
(***************************************************************************)
EXTENDS Lists

CONSTANTS
  Nodes,      (* addresses malloc returns for nodes                        *)
  NULL,
  DataSizes,  (* how many bytes a node may be filled with                  *)
  Block       (* bytes of a new block, and added beyond need: 512          *)

ASSUME ArenaAssumption ==
  IsFiniteSet(Nodes) /\ NULL \notin Nodes /\ DataSizes \subseteq Nat /\ Block \in Nat \ {0}

VARIABLES
  first, head,    (* the arena: oldest and newest node                     *)
  next, prev,     (* the links of each node; NULL in freed memory          *)
  mem,            (* per node: bytes of its block as the node counts them, *)
                  (* and "block", the bytes malloc or realloc gave it      *)
  live,           (* nodes that are allocated                              *)
  status          (* "running", "freed" by CSortMemArena_free, or "died"   *)

vars == <<first, head, next, prev, mem, live, status>>

Empty == [mem_size |-> 0, mem_used |-> 0, mem_free |-> 0, block |-> 0]

(* CSortMemArenaNode_init *)
Fresh == [mem_size |-> Block, mem_used |-> 0, mem_free |-> Block, block |-> Block]

(* CSortMemArenaNode_fill with n bytes: the free bytes are counted up first, *)
(* and then added to the size as a whole.                                    *)
Grows(m, n) == n >= m.mem_free

OneMoreBlock(m, n) == IF Grows(m, n) THEN m.mem_free + Block ELSE m.mem_free
NewFree(m, n) == IF Grows(m, n) THEN m.mem_free + n + Block ELSE m.mem_free

OldBlock(m, size) == m.block
NewBlock(m, size) == IF size # m.mem_size THEN size ELSE m.block

Fill(m, n) ==
  LET free == NewFree(m, n)
      size == IF Grows(m, n) THEN m.mem_size + free ELSE m.mem_size
  IN [mem_size |-> size,
      mem_used |-> m.mem_used + n,
      mem_free |-> free - n,
      block    |-> NewBlock(m, size)]

-----------------------------------------------------------------------------
(* CSortMemArena_mk *)
Init ==
  /\ first = NULL /\ head = NULL
  /\ next = [n \in Nodes |-> NULL] /\ prev = [n \in Nodes |-> NULL]
  /\ mem = [n \in Nodes |-> Empty]
  /\ live = {} /\ status = "running"

(* CSortMemArena_alloc of node n, filled as m.                               *)
Alloc(n, m) ==
  /\ status = "running" /\ n \notin live
  /\ first' = IF head = NULL THEN n ELSE first
  /\ head' = n
  /\ prev' = [prev EXCEPT ![n] = head]
  /\ next' = [x \in Nodes |-> IF x = n THEN NULL ELSE IF x = head THEN n ELSE next[x]]
  /\ mem' = [mem EXCEPT ![n] = m]
  /\ live' = live \cup {n}
  /\ UNCHANGED status

(* CSortMemArenaCopyCStr: a string and the NUL that ends it.                 *)
CopyCStr(n, size) == Alloc(n, Fill(Fill(Fresh, size), 1))

(* CSort_update_config_via_cmd: the options, filled in at once.              *)
KeepOptions(n, size) == Alloc(n, Fill(Fresh, size))

(* malloc or realloc fails, and die() ends the program.                      *)
Die == status = "running" /\ status' = "died"
       /\ UNCHANGED <<first, head, next, prev, mem, live>>

(* CSortMemArena_dealloc of n: its neighbours are linked to each other; what *)
(* its own memory held is gone.                                              *)
LinksKept(link, n, from, to) == [link EXCEPT ![n] = NULL]
Relinked(link, n, from, to) ==
  [x \in Nodes |-> IF x = n THEN NULL ELSE IF x = from THEN to ELSE link[x]]

HeadKept(n) == head
HeadWithout(n) == IF next[n] = NULL THEN prev[n] ELSE head

Dealloc(n) ==
  /\ status = "running" /\ n \in live
  /\ first' = IF prev[n] = NULL THEN next[n] ELSE first
  /\ head' = HeadWithout(n)
  /\ next' = Relinked(next, n, prev[n], next[n])
  /\ prev' = Relinked(prev, n, next[n], prev[n])
  /\ mem' = [mem EXCEPT ![n] = Empty]
  /\ live' = live \ {n}
  /\ UNCHANGED status

(* The nodes reached from "first", in order                                  *)
Chain == Followed(first, next)

(* CSortMemArena_free: each node's link is read before the node is freed.    *)
FreedButNewest == {Chain[i] : i \in 1 .. (Len(Chain) - 1)}
Freed == {Chain[i] : i \in DOMAIN Chain}

FreeAll ==
  /\ status = "running"
  /\ live' = live \ Freed
  /\ next' = [n \in Nodes |-> IF n \in Freed THEN NULL ELSE next[n]]
  /\ prev' = [n \in Nodes |-> IF n \in Freed THEN NULL ELSE prev[n]]
  /\ mem'  = [n \in Nodes |-> IF n \in Freed THEN Empty ELSE mem[n]]
  /\ status' = "freed"
  /\ UNCHANGED <<first, head>>

Stopped == status # "running" /\ UNCHANGED vars

Next ==
  \/ \E n \in Nodes :
       \/ \E size \in DataSizes : CopyCStr(n, size) \/ KeepOptions(n, size)
       \/ Dealloc(n)
  \/ Die \/ FreeAll \/ Stopped

Spec == Init /\ [][Next]_vars

-----------------------------------------------------------------------------
(* Properties                                                               *)

TypeOK ==
  /\ first \in Nodes \cup {NULL} /\ head \in Nodes \cup {NULL}
  /\ next \in [Nodes -> Nodes \cup {NULL}] /\ prev \in [Nodes -> Nodes \cup {NULL}]
  /\ mem \in [Nodes -> [mem_size : Nat, mem_used : Nat, mem_free : Nat, block : Nat]]
  /\ live \subseteq Nodes
  /\ status \in {"running", "freed", "died"}

(***************************************************************************)
(* The two directions of the list agree, its ends are the arena's ends,    *)
(* and no link of an allocated node leads to freed memory.                 *)
(***************************************************************************)
LinksAgree ==
  status = "running" =>
    /\ first \in live \cup {NULL} /\ head \in live \cup {NULL}
    /\ first = NULL <=> head = NULL
    /\ \A n \in live :
         /\ next[n] \in live \cup {NULL} /\ prev[n] \in live \cup {NULL}
         /\ next[n] # NULL => prev[next[n]] = n
         /\ prev[n] # NULL => next[prev[n]] = n
         /\ next[n] = NULL <=> head = n
         /\ prev[n] = NULL <=> first = n

(***************************************************************************)
(* What was copied into a node, and what it believes is still free, fits   *)
(* in the block it was given.                                              *)
(***************************************************************************)
BlocksHold ==
  \A n \in live : mem[n].mem_used + mem[n].mem_free <= mem[n].block

(***************************************************************************)
(* The arena implements a registry of the blocks in use, in the order they *)
(* were asked for: the list has every block that was taken.  The system    *)
(* takes back what a process that dies has.                                *)
(***************************************************************************)
AsRegistry == INSTANCE Registry WITH
  Blocks <- Nodes,
  inUse  <- IF status = "running" THEN Chain ELSE <<>>,
  taken  <- IF status = "died" THEN {} ELSE live,
  over   <- status # "running"

ImplementsRegistry == AsRegistry!Spec
=============================================================================
