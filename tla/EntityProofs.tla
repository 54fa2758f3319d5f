---------------------------- MODULE EntityProofs ----------------------------
(***************************************************************************)
(* Proofs about the arena, for any number of nodes and any sizes, and then *)
(* about the modules of a file and the nodes they point to, for any number *)
(* of files, modules, nodes and names.  An entity uses an arena, so that   *)
(* what is proved of the arena holds here (EntityUsesArena).               *)
(***************************************************************************)
EXTENDS Entity, SequenceTheorems, ListProofs

-----------------------------------------------------------------------------
(* The arena                                                                *)

MemRecord == [mem_size : Nat, mem_used : Nat, mem_free : Nat, block : Nat]
Link == Nodes \cup {NULL}

(* A node that fits its block still does after it is filled.                *)
LEMMA FillHolds ==
  ASSUME NEW m \in MemRecord, NEW n \in Nat,
         m.mem_used + m.mem_free <= m.block, m.mem_size = m.block
  PROVE  /\ Fill(m, n) \in MemRecord
         /\ Fill(m, n).mem_used + Fill(m, n).mem_free <= Fill(m, n).block
         /\ Fill(m, n).mem_size = Fill(m, n).block
<1> DEFINE free == NewFree(m, n)
           size == IF Grows(m, n) THEN m.mem_size + free ELSE m.mem_size
<1>1. Block \in Nat /\ Block > 0
  BY ArenaAssumption
<1>2. /\ m.mem_size \in Nat /\ m.mem_used \in Nat /\ m.mem_free \in Nat /\ m.block \in Nat
  BY DEF MemRecord
<1>3. free \in Nat /\ n <= free /\ free - n \in Nat
  BY <1>1, <1>2 DEF NewFree, Grows
<1>4. size \in Nat /\ m.mem_used + n + (free - n) <= size
  BY <1>1, <1>2 DEF NewFree, Grows
<1>5. NewBlock(m, size) = size
  BY DEF NewBlock
<1>6. Fill(m, n) = [mem_size |-> size, mem_used |-> m.mem_used + n,
                    mem_free |-> free - n, block |-> size]
  BY <1>5 DEF Fill
<1> HIDE DEF free, size
<1>7. QED BY <1>2, <1>3, <1>4, <1>6 DEF MemRecord

LEMMA FreshHolds ==
  /\ Fresh \in MemRecord /\ Fresh.mem_used + Fresh.mem_free <= Fresh.block
  /\ Fresh.mem_size = Fresh.block
BY ArenaAssumption DEF Fresh, MemRecord

-----------------------------------------------------------------------------
ArenaInv == TypeOK /\ LinksAgree /\ BlocksHold

(* Allocation appends a node at the head.                                   *)
LEMMA AllocStep ==
  ASSUME ArenaInv, NEW n \in Nodes, NEW m \in MemRecord, m.mem_used + m.mem_free <= m.block,
         Alloc(n, m)
  PROVE  ArenaInv'
<1>1. /\ status = "running" /\ status' = "running" /\ n \notin live /\ live' = live \cup {n}
      /\ first' = (IF head = NULL THEN n ELSE first) /\ head' = n
      /\ mem' = [mem EXCEPT ![n] = m] /\ prev' = [prev EXCEPT ![n] = head]
      /\ next' = [x \in Nodes |-> IF x = n THEN NULL ELSE IF x = head THEN n ELSE next[x]]
      /\ TypeOK
  BY DEF Alloc, ArenaInv, TypeOK
<1>2. NULL \notin Nodes
  BY ArenaAssumption
<1>3. TypeOK'
  <2>1. mem' \in [Nodes -> MemRecord]
    BY <1>1 DEF TypeOK, MemRecord
  <2>2. next' \in [Nodes -> Link] /\ prev' \in [Nodes -> Link]
    BY <1>1 DEF TypeOK, Link
  <2>3. QED BY <1>1, <2>1, <2>2 DEF TypeOK, MemRecord, Link
<1>4. LinksAgree'
  BY <1>1, <1>2 DEF ArenaInv, LinksAgree, TypeOK
<1>5. BlocksHold'
  BY <1>1 DEF ArenaInv, BlocksHold, TypeOK
<1>6. QED BY <1>3, <1>4, <1>5 DEF ArenaInv

(* Deallocation links the neighbours of a node to each other.               *)
LEMMA DeallocStep == ASSUME ArenaInv, NEW n \in Nodes, Dealloc(n) PROVE ArenaInv'
<1>1. /\ status = "running" /\ status' = "running" /\ n \in live /\ live' = live \ {n}
      /\ first' = (IF prev[n] = NULL THEN next[n] ELSE first)
      /\ head' = (IF next[n] = NULL THEN prev[n] ELSE head)
      /\ next' = [x \in Nodes |-> IF x = n THEN NULL
                                  ELSE IF x = prev[n] THEN next[n] ELSE next[x]]
      /\ prev' = [x \in Nodes |-> IF x = n THEN NULL
                                  ELSE IF x = next[n] THEN prev[n] ELSE prev[x]]
      /\ mem' = [mem EXCEPT ![n] = Empty]
      /\ TypeOK
  BY DEF Dealloc, HeadWithout, Relinked, ArenaInv, TypeOK
<1>2. NULL \notin Nodes
  BY ArenaAssumption
<1>3. TypeOK'
  <2>1. mem' \in [Nodes -> MemRecord]
    BY <1>1 DEF TypeOK, MemRecord, Empty
  <2>2. next' \in [Nodes -> Link] /\ prev' \in [Nodes -> Link]
    BY <1>1 DEF TypeOK, Link
  <2>3. QED BY <1>1, <2>1, <2>2 DEF TypeOK, MemRecord, Link
<1>4. LinksAgree'
  <2>1. /\ first \in live \cup {NULL} /\ head \in live \cup {NULL} /\ live \subseteq Nodes
        /\ first = NULL <=> head = NULL
        /\ \A x \in live :
             /\ next[x] \in live \cup {NULL} /\ prev[x] \in live \cup {NULL}
             /\ next[x] # NULL => prev[next[x]] = x
             /\ prev[x] # NULL => next[prev[x]] = x
             /\ next[x] = NULL <=> head = x
             /\ prev[x] = NULL <=> first = x
    BY <1>1 DEF ArenaInv, LinksAgree, TypeOK
  <2>2. first' \in live' \cup {NULL} /\ head' \in live' \cup {NULL}
    BY <1>1, <1>2, <2>1
  <2>3. first' = NULL <=> head' = NULL
    BY <1>1, <1>2, <2>1
  <2>4. \A x \in live' :
          /\ next'[x] \in live' \cup {NULL} /\ prev'[x] \in live' \cup {NULL}
          /\ next'[x] # NULL => prev'[next'[x]] = x
          /\ prev'[x] # NULL => next'[prev'[x]] = x
    BY <1>1, <1>2, <2>1
  <2>5. \A x \in live' :
          /\ next'[x] = NULL <=> head' = x
          /\ prev'[x] = NULL <=> first' = x
    BY <1>1, <1>2, <2>1
  <2>6. QED BY <2>2, <2>3, <2>4, <2>5 DEF LinksAgree
<1>5. BlocksHold'
  BY <1>1 DEF ArenaInv, BlocksHold, TypeOK
<1>6. QED BY <1>3, <1>4, <1>5 DEF ArenaInv

LEMMA FreeAllStep == ASSUME ArenaInv, FreeAll PROVE ArenaInv'
<1>1. /\ status' = "freed" /\ live' = live \ Freed /\ first' = first /\ head' = head
      /\ next' = [n \in Nodes |-> IF n \in Freed THEN NULL ELSE next[n]]
      /\ prev' = [n \in Nodes |-> IF n \in Freed THEN NULL ELSE prev[n]]
      /\ mem' = [n \in Nodes |-> IF n \in Freed THEN Empty ELSE mem[n]]
      /\ TypeOK
  BY DEF FreeAll, ArenaInv
<1>2. TypeOK'
  <2>1. mem' \in [Nodes -> MemRecord]
    BY <1>1 DEF TypeOK, MemRecord, Empty
  <2>2. next' \in [Nodes -> Link] /\ prev' \in [Nodes -> Link]
    BY <1>1 DEF TypeOK, Link
  <2>3. QED BY <1>1, <2>1, <2>2 DEF TypeOK, MemRecord, Link
<1>3. LinksAgree' /\ BlocksHold'
  BY <1>1 DEF ArenaInv, LinksAgree, BlocksHold, TypeOK
<1>4. QED BY <1>2, <1>3 DEF ArenaInv

LEMMA ArenaStep == ASSUME ArenaInv, [Next]_vars PROVE ArenaInv'
<1>1. ASSUME NEW n \in Nodes, NEW size \in DataSizes, CopyCStr(n, size) PROVE ArenaInv'
  <2>1. size \in Nat
    BY ArenaAssumption
  <2>2. /\ Fill(Fresh, size) \in MemRecord
        /\ Fill(Fresh, size).mem_used + Fill(Fresh, size).mem_free <= Fill(Fresh, size).block
        /\ Fill(Fresh, size).mem_size = Fill(Fresh, size).block
    BY <2>1, FreshHolds, FillHolds
  <2> DEFINE m == Fill(Fill(Fresh, size), 1)
  <2>3. m \in MemRecord /\ m.mem_used + m.mem_free <= m.block
    BY <2>2, FillHolds
  <2>4. Alloc(n, m)
    BY <1>1 DEF CopyCStr
  <2> HIDE DEF m
  <2>5. QED BY <2>3, <2>4, AllocStep
<1>2. ASSUME NEW n \in Nodes, NEW size \in DataSizes, KeepOptions(n, size) PROVE ArenaInv'
  <2>1. size \in Nat
    BY ArenaAssumption
  <2> DEFINE m == Fill(Fresh, size)
  <2>2. m \in MemRecord /\ m.mem_used + m.mem_free <= m.block
    BY <2>1, FreshHolds, FillHolds
  <2>3. Alloc(n, m)
    BY <1>2 DEF KeepOptions
  <2> HIDE DEF m
  <2>4. QED BY <2>2, <2>3, AllocStep
<1>3. ASSUME NEW n \in Nodes, Dealloc(n) PROVE ArenaInv'
  BY <1>3, DeallocStep
<1>4. CASE Die
  BY <1>4 DEF Die, ArenaInv, TypeOK, LinksAgree, BlocksHold
<1>5. CASE FreeAll
  BY <1>5, FreeAllStep
<1>6. CASE UNCHANGED vars
  BY <1>6 DEF vars, ArenaInv, TypeOK, LinksAgree, BlocksHold
<1>7. QED BY <1>1, <1>2, <1>3, <1>4, <1>5, <1>6 DEF Next, Stopped

LEMMA ArenaStart == ASSUME Init PROVE ArenaInv
<1>1. TypeOK
  BY DEF Init, TypeOK, Empty
<1>2. LinksAgree /\ BlocksHold
  BY DEF Init, LinksAgree, BlocksHold
<1>3. QED BY <1>1, <1>2 DEF ArenaInv

(* The invariant holds of every arena.                                      *)
THEOREM ArenaInvariant == Spec => []ArenaInv
<1>1. Init => ArenaInv
  BY ArenaStart
<1>2. ArenaInv /\ [Next]_vars => ArenaInv'
  BY ArenaStep
<1>3. QED BY <1>1, <1>2, PTL DEF Spec

(* Every variable keeps its type (core.c:72-175).                           *)
THEOREM ArenaTypeCorrect == Spec => []TypeOK
<1>1. ArenaInv => TypeOK
  BY DEF ArenaInv
<1>2. QED BY <1>1, ArenaInvariant, PTL

(* The list's two directions agree and its links stay among the allocated   *)
(* nodes, whatever is allocated and freed (CSortMemArena_alloc, _dealloc).  *)
THEOREM ListIntact == Spec => []LinksAgree
<1>1. ArenaInv => LinksAgree
  BY DEF ArenaInv
<1>2. QED BY <1>1, ArenaInvariant, PTL

(* No node is filled past its block (CSortMemArenaNode_fill).               *)
THEOREM FilledWithinBlock == Spec => []BlocksHold
<1>1. ArenaInv => BlocksHold
  BY DEF ArenaInv
<1>2. QED BY <1>1, ArenaInvariant, PTL

-----------------------------------------------------------------------------
(* The arena implements the registry.  Its list is some sequence of the     *)
(* nodes in use, which each step changes as the registry says.              *)

IsChain(s) ==
  /\ s \in Seq(Nodes) /\ IsInjective(s) /\ Entries(s) = live
  /\ first = IF s = <<>> THEN NULL ELSE s[1]
  /\ head = IF s = <<>> THEN NULL ELSE s[Len(s)]
  /\ Linked2(s, next, prev, NULL)

Chained == status = "running" => \E s \in Seq(Nodes) : IsChain(s)

LEMMA ChainIs == ASSUME TypeOK, NEW s, IsChain(s) PROVE Chain = s
<1>1. DOMAIN next = Nodes
  BY DEF TypeOK
<1>2. Leads(s, first, next) /\ IsFiniteSet(DOMAIN next)
  BY <1>1, LinkedLeads, ArenaAssumption DEF IsChain
<1>3. QED BY <1>2, FollowedIs DEF Chain

LEMMA ChainIsNext == ASSUME TypeOK', NEW s, IsChain(s)' PROVE Chain' = s
<1>1. DOMAIN next' = Nodes
  BY DEF TypeOK
<1>2. Leads(s, first', next') /\ IsFiniteSet(DOMAIN next')
  BY <1>1, LinkedLeads, ArenaAssumption DEF IsChain
<1>3. QED BY <1>2, FollowedIs DEF Chain

(* A node that is allocated is the last of the list.                        *)
LEMMA AllocChain ==
  ASSUME TypeOK, NEW s, IsChain(s), NEW n \in Nodes, NEW m, Alloc(n, m)
  PROVE  IsChain(Append(s, n))'
<1> DEFINE t == Append(s, n)
<1>1. /\ n \notin live /\ live' = live \cup {n} /\ live \subseteq Nodes
      /\ first' = (IF head = NULL THEN n ELSE first) /\ head' = n
      /\ prev' = [prev EXCEPT ![n] = head]
      /\ next' = [x \in Nodes |-> IF x = n THEN NULL ELSE IF x = head THEN n ELSE next[x]]
      /\ prev \in [Nodes -> Link] /\ NULL \notin Nodes
  BY ArenaAssumption DEF Alloc, TypeOK, Link
<1>2. /\ s \in Seq(Nodes) /\ IsInjective(s) /\ Entries(s) = live
      /\ first = IF s = <<>> THEN NULL ELSE s[1]
      /\ head = IF s = <<>> THEN NULL ELSE s[Len(s)]
      /\ Linked2(s, next, prev, NULL)
  BY DEF IsChain
<1>3. /\ t \in Seq(Nodes) /\ t # <<>> /\ IsInjective(t) /\ Entries(t) = live'
      /\ Len(s) \in Nat /\ Len(t) = Len(s) + 1 /\ t[Len(s) + 1] = n
      /\ \A i \in 1 .. Len(s) : t[i] = s[i]
  BY <1>1, <1>2, AppendFacts
<1>4. /\ next'[n] = NULL /\ prev'[n] = IF s = <<>> THEN NULL ELSE s[Len(s)]
      /\ \A x \in Entries(s) : /\ next'[x] = IF x = s[Len(s)] THEN n ELSE next[x]
                               /\ prev'[x] = prev[x]
  <2>1. s = <<>> => Entries(s) = {}
    BY DEF Entries
  <2>2. QED BY <1>1, <1>2, <2>1
<1>5. Linked2(t, next', prev', NULL)
  BY <1>1, <1>2, <1>4, AppendLinked
<1>6. head' = t[Len(t)] /\ first' = t[1]
  <2>1. CASE s = <<>>
    BY <1>1, <1>2, <1>3, <2>1
  <2>2. CASE s # <<>>
    <3>1. 1 \in 1 .. Len(s) /\ Len(s) \in 1 .. Len(s)
      BY <1>2, <1>3, <2>2
    <3>2. t[1] = s[1] /\ first = s[1] /\ head = s[Len(s)] /\ s[Len(s)] \in Nodes
      BY <1>2, <1>3, <2>2, <3>1
    <3>3. QED BY <1>1, <1>3, <3>2
  <2>3. QED BY <2>1, <2>2
<1>7. QED BY <1>3, <1>5, <1>6 DEF IsChain

(* A node that is given back is taken out of the list where it is.          *)
LEMMA DeallocChain ==
  ASSUME TypeOK, NEW s, IsChain(s), NEW n \in Nodes, Dealloc(n)
  PROVE  \E k \in 1 .. Len(s) : s[k] = n /\ IsChain(RemoveAt(s, k))'
<1>1. /\ n \in live /\ live' = live \ {n} /\ live \subseteq Nodes
      /\ first' = (IF prev[n] = NULL THEN next[n] ELSE first)
      /\ head' = (IF next[n] = NULL THEN prev[n] ELSE head)
      /\ next' = [x \in Nodes |-> IF x = n THEN NULL
                                  ELSE IF x = prev[n] THEN next[n] ELSE next[x]]
      /\ prev' = [x \in Nodes |-> IF x = n THEN NULL
                                  ELSE IF x = next[n] THEN prev[n] ELSE prev[x]]
      /\ NULL \notin Nodes
  BY ArenaAssumption DEF Dealloc, HeadWithout, Relinked, TypeOK
<1>2. /\ s \in Seq(Nodes) /\ IsInjective(s) /\ Entries(s) = live
      /\ first = IF s = <<>> THEN NULL ELSE s[1]
      /\ head = IF s = <<>> THEN NULL ELSE s[Len(s)]
      /\ Linked2(s, next, prev, NULL)
  BY DEF IsChain
<1>3. PICK k \in 1 .. Len(s) : s[k] = n
  BY <1>1, <1>2 DEF Entries
<1> DEFINE t == RemoveAt(s, k)
           e == Len(s)
<1>4. /\ t \in Seq(Nodes) /\ e \in Nat \ {0} /\ Len(t) = e - 1
      /\ \A i \in 1 .. (e - 1) : t[i] = IF i < k THEN s[i] ELSE s[i + 1]
      /\ IsInjective(t) /\ Entries(t) = live'
  BY <1>1, <1>2, <1>3, RemoveAtFacts
<1>5. Linked2(t, next', prev', NULL)
  <2>1. \A x \in Entries(s) \ {s[k]} :
          /\ next'[x] = IF x = prev[s[k]] THEN next[s[k]] ELSE next[x]
          /\ prev'[x] = IF x = next[s[k]] THEN prev[s[k]] ELSE prev[x]
    BY <1>1, <1>2, <1>3
  <2>2. NULL \notin Nodes /\ s \in Seq(Nodes) /\ IsInjective(s) /\ Linked2(s, next, prev, NULL)
    BY <1>1, <1>2
  <2>3. QED BY <2>1, <2>2, RemoveLinked
<1>6. /\ s # <<>> /\ k \in Nat /\ 1 <= k /\ k <= e /\ (t = <<>> <=> e = 1)
      /\ next[n] = IF k = e THEN NULL ELSE s[k + 1]
      /\ prev[n] = IF k = 1 THEN NULL ELSE s[k - 1]
      /\ \A i \in 1 .. e : s[i] # NULL
  <2>1. s # <<>> /\ k \in Nat /\ 1 <= k /\ k <= e /\ \A i \in 1 .. e : s[i] # NULL
    BY <1>1, <1>2, <1>4
  <2>2. t = <<>> <=> e = 1
    <3> HIDE DEF t, e
    <3>1. t = <<>> <=> Len(t) = 0
      BY <1>4
    <3>2. QED BY <1>4, <3>1
  <2>3. next[n] = (IF k = e THEN NULL ELSE s[k + 1]) /\ prev[n] = IF k = 1 THEN NULL ELSE s[k - 1]
    BY <1>2, <1>3 DEF Linked2
  <2>4. QED BY <2>1, <2>2, <2>3
<1> HIDE DEF t, e
<1>7. first' = IF t = <<>> THEN NULL ELSE t[1]
  <2>1. CASE k = 1
    <3>1. first' = next[n]
      BY <1>1, <1>6, <2>1
    <3>2. e # 1 => 1 \in 1 .. (e - 1) /\ ~(1 < k) /\ k # e
      BY <1>4, <1>6, <2>1
    <3>3. e # 1 => t[1] = s[k + 1]
      BY <1>4, <2>1, <3>2
    <3>4. QED BY <1>6, <2>1, <3>1, <3>2, <3>3
  <2>2. CASE k # 1
    <3>1. k - 1 \in 1 .. e /\ 1 \in 1 .. (e - 1) /\ 1 < k /\ e # 1
      BY <1>4, <1>6, <2>2
    <3>2. prev[n] # NULL /\ t[1] = s[1] /\ first = s[1]
      BY <1>2, <1>4, <1>6, <2>2, <3>1
    <3>3. QED BY <1>1, <1>6, <3>1, <3>2
  <2>3. QED BY <2>1, <2>2
<1>8. head' = IF t = <<>> THEN NULL ELSE t[Len(t)]
  <2>1. CASE k = e
    <3>1. head' = prev[n]
      BY <1>1, <1>6, <2>1
    <3>2. k # 1 => k - 1 \in 1 .. (e - 1) /\ k - 1 < k /\ Len(t) = k - 1 /\ e # 1
      BY <1>4, <1>6, <2>1
    <3>3. k # 1 => t[Len(t)] = s[k - 1]
      BY <1>4, <3>2
    <3>4. QED BY <1>6, <2>1, <3>1, <3>2, <3>3
  <2>2. CASE k # e
    <3>1. k + 1 \in 1 .. e /\ e - 1 \in 1 .. (e - 1) /\ ~(e - 1 < k) /\ e # 1 /\ (e - 1) + 1 = e
      BY <1>4, <1>6, <2>2
    <3>2. next[n] # NULL /\ head = s[e]
      BY <1>2, <1>6, <2>2, <3>1 DEF e
    <3>3. t[e - 1] = s[e]
      BY <1>4, <3>1
    <3>4. QED BY <1>1, <1>4, <1>6, <3>1, <3>2, <3>3
  <2>3. QED BY <2>1, <2>2
<1>9. IsChain(t)'
  BY <1>4, <1>5, <1>7, <1>8 DEF IsChain
<1>10. QED BY <1>3, <1>9 DEF t

ChainInv == ArenaInv /\ Chained

LEMMA ChainStart == ASSUME Init PROVE ChainInv /\ AsRegistry!Init
<1>1. ArenaInv
  BY ArenaStart
<1>2. IsChain(<<>>)
  BY DEF Init, IsChain, IsInjective, Entries, Linked2
<1>3. Chain = <<>>
  BY <1>1, <1>2, ChainIs DEF ArenaInv
<1>4. Chained
  <2>1. <<>> \in Seq(Nodes)
    OBVIOUS
  <2>2. QED BY <1>2, <2>1, Zenon DEF Chained
<1>5. AsRegistry!Init
  BY <1>3 DEF Init, AsRegistry!Init
<1>6. QED BY <1>1, <1>4, <1>5 DEF ChainInv

(* Every step of the arena is a step of the registry.                       *)
LEMMA ChainStep ==
  ASSUME ChainInv, [Next]_vars
  PROVE  ChainInv' /\ [AsRegistry!Next]_(AsRegistry!registryVars)
<1>1. ArenaInv' /\ TypeOK /\ TypeOK'
  BY ArenaStep DEF ChainInv, ArenaInv
<1> USE <1>1
<1> DEFINE Goal == Chained' /\ [AsRegistry!Next]_(AsRegistry!registryVars)
<1> SUFFICES Goal
  BY DEF ChainInv
<1>2. ASSUME NEW n \in Nodes, NEW m, Alloc(n, m) PROVE Goal
  <2>1. status = "running" /\ status' = "running" /\ n \notin live /\ live' = live \cup {n}
    BY <1>2 DEF Alloc
  <2>2. PICK s \in Seq(Nodes) : IsChain(s)
    BY <2>1 DEF ChainInv, Chained
  <2>3. IsChain(Append(s, n))' /\ Append(s, n) \in Seq(Nodes)
    BY <1>2, <2>2, AllocChain DEF IsChain
  <2>4. Chain = s /\ Chain' = Append(s, n)
    BY <2>2, <2>3, ChainIs, ChainIsNext
  <2>5. AsRegistry!Take(n)
    BY <2>1, <2>4 DEF AsRegistry!Take
  <2>6. QED BY <2>1, <2>3, <2>5 DEF Chained, AsRegistry!Next
<1>3. ASSUME NEW n \in Nodes, NEW size \in DataSizes, CopyCStr(n, size) PROVE Goal
  BY <1>2, <1>3 DEF CopyCStr
<1>4. ASSUME NEW n \in Nodes, NEW size \in DataSizes, KeepOptions(n, size) PROVE Goal
  BY <1>2, <1>4 DEF KeepOptions
<1>5. ASSUME NEW n \in Nodes, Dealloc(n) PROVE Goal
  <2>1. status = "running" /\ status' = "running" /\ live' = live \ {n}
    BY <1>5 DEF Dealloc
  <2>2. PICK s \in Seq(Nodes) : IsChain(s)
    BY <2>1 DEF ChainInv, Chained
  <2>3. PICK k \in 1 .. Len(s) : s[k] = n /\ IsChain(RemoveAt(s, k))'
    BY <1>5, <2>2, DeallocChain
  <2>4. RemoveAt(s, k) \in Seq(Nodes) /\ DOMAIN s = 1 .. Len(s)
    BY <2>3 DEF IsChain
  <2>5. Chain = s /\ Chain' = RemoveAt(s, k)
    BY <2>2, <2>3, ChainIs, ChainIsNext
  <2>6. AsRegistry!GiveBack(k)
    BY <2>1, <2>3, <2>4, <2>5 DEF AsRegistry!GiveBack, AsRegistry!RemoveAt, RemoveAt
  <2>7. QED BY <2>1, <2>3, <2>4, <2>5, <2>6 DEF Chained, AsRegistry!Next
<1>6. CASE Die
  <2>1. status = "running" /\ status' = "died"
    BY <1>6 DEF Die
  <2>2. AsRegistry!GiveAllBack
    BY <2>1 DEF AsRegistry!GiveAllBack
  <2>3. QED BY <2>1, <2>2 DEF Chained, AsRegistry!Next
<1>7. CASE FreeAll
  <2>1. status = "running" /\ status' = "freed" /\ live' = live \ Freed
    BY <1>7 DEF FreeAll
  <2>2. PICK s \in Seq(Nodes) : IsChain(s)
    BY <2>1 DEF ChainInv, Chained
  <2>3. Freed = live
    BY <2>2, ChainIs DEF Freed, IsChain, Entries
  <2>4. AsRegistry!GiveAllBack
    BY <2>1, <2>3 DEF AsRegistry!GiveAllBack
  <2>5. QED BY <2>1, <2>4 DEF Chained, AsRegistry!Next
<1>8. CASE UNCHANGED vars
  <2>1. UNCHANGED <<first, head, next, prev, live, status, Chain>>
    BY <1>8 DEF vars, Chain
  <2>2. \A s : IsChain(s) => IsChain(s)'
    BY <2>1 DEF IsChain
  <2>3. Chained'
    BY <2>1, <2>2 DEF ChainInv, Chained
  <2>4. UNCHANGED AsRegistry!registryVars
    BY <2>1 DEF AsRegistry!registryVars
  <2>5. QED BY <2>3, <2>4
<1>9. QED BY <1>3, <1>4, <1>5, <1>6, <1>7, <1>8 DEF Next, Stopped

(* The list has every node that is allocated, in the order of allocation,   *)
(* each allocation and release of a node changes it as the registry says,   *)
(* and freeing the arena leaves no node behind (CSortMemArena_alloc,        *)
(* CSortMemArena_dealloc, CSortMemArena_free).                              *)
THEOREM ArenaIsRegistry == Spec => ImplementsRegistry
<1>1. Init => ChainInv /\ AsRegistry!Init
  BY ChainStart
<1>2. ChainInv /\ [Next]_vars => ChainInv' /\ [AsRegistry!Next]_(AsRegistry!registryVars)
  BY ChainStep
<1>3. QED BY <1>1, <1>2, PTL DEF Spec, ImplementsRegistry, AsRegistry!Spec

-----------------------------------------------------------------------------
(* The arena as a part of the whole                                         *)

LEMMA CopyIsArena ==
  ASSUME NEW n \in Nodes, NEW use, NEW name, Copy(n, use, name)
  PROVE  Next
BY DEF Copy, Next

LEMMA ReleaseIsArena ==
  ASSUME NEW m, m.kind = "FROM" => m.title \in Nodes, TitleReleased(m)
  PROVE  [Next]_vars
BY DEF TitleReleased, Next

(***************************************************************************)
(* An allocated module has the type of one.                                *)
(***************************************************************************)
LEMMA AllocatedType ==
  ASSUME EntityTypeOK, NEW o \in Allocated
  PROVE  /\ o \in Objects /\ object[o] \in Module /\ object[o].imports \in Seq(Nodes)
         /\ object[o].title \in Nodes \cup {NULL} /\ object[o].kind \in {"FROM", "IMPORT"}
BY DEF EntityTypeOK, Allocated, Module

-----------------------------------------------------------------------------
(***************************************************************************)
(* What the program counter says of the module in hand, and how the links  *)
(* of the modules that are in the list mirror each other.                  *)
(***************************************************************************)
Between == {"start", "closed", "statement", "print", "release"}
InList  == Allocated \ InHand

Steady ==
  /\ pc \in {"imports", "names"} => node \in Allocated
  /\ pc \in Between => node = NULL

Mirrored ==
  \A o \in InList : /\ object[o].next \in InList \cup {NULL}
                    /\ object[o].next # NULL => object[object[o].next].prev = o

Ends ==
  /\ pc \in Parsing \cup {"print"} =>
       /\ modules \in InList \cup {NULL} /\ modules_curr_node \in InList \cup {NULL}
       /\ modules # NULL => object[modules].prev = NULL
  /\ pc = "print" => at \in InList \cup {NULL}
  /\ pc = "release" => /\ at \in InList \cup {NULL}
                       /\ at # NULL => object[at].prev \notin InList

(* A title of a module is a node: only "import" modules have none.          *)
Titled == \A o \in Allocated : object[o].kind = "FROM" => object[o].title \in Nodes

EntityInv == EntityTypeOK /\ Steady /\ Titled /\ Mirrored /\ Ends

(* Nothing that is linked in the list is touched.                            *)
LEMMA LinksKeep ==
  ASSUME Mirrored, InList' = InList,
         \A o \in InList : object'[o].next = object[o].next /\ object'[o].prev = object[o].prev,
         NULL \notin InList
  PROVE  Mirrored'
BY DEF Mirrored

LEMMA InListType == EntityTypeOK => InList \subseteq Objects /\ NULL \notin InList
BY EntityAssumption DEF EntityTypeOK, InList, Allocated

(* A module is allocated at o and is in hand then.                           *)
LEMMA Made ==
  ASSUME EntityInv, pc = "statement", NEW o \in Objects, o \notin Allocated, NEW r \in Module,
         r.kind = "FROM" => r.title \in Nodes,
         object' = [object EXCEPT ![o] = r], node' = o, is_already_kept' = FALSE
  PROVE  /\ Allocated' = Allocated \cup {o} /\ InList' = InList /\ o \notin InList
         /\ object' \in [Objects -> Module \cup {Unused}]
         /\ \A x \in Allocated : object'[x] = object[x]
         /\ Titled' /\ Mirrored'
<1>1. o # NULL /\ r # Unused /\ node = NULL /\ object \in [Objects -> Module \cup {Unused}]
  BY EntityAssumption DEF EntityInv, EntityTypeOK, Steady, Between
<1>2. /\ object'[o] = r /\ object' \in [Objects -> Module \cup {Unused}]
      /\ \A x \in Objects : x # o => object'[x] = object[x]
  BY <1>1
<1>3. Allocated' = Allocated \cup {o} /\ \A x \in Allocated : object'[x] = object[x]
  BY <1>1, <1>2 DEF Allocated
<1>4. InHand = {} /\ InHand' = {o}
  BY <1>1 DEF InHand
<1>5. InList' = InList /\ InList = Allocated
  BY <1>3, <1>4 DEF InList
<1>6. Titled'
  BY <1>2, <1>3 DEF Titled, EntityInv
<1>7. Mirrored'
  BY <1>3, <1>5, LinksKeep, InListType DEF EntityInv
<1>8. QED BY <1>2, <1>3, <1>5, <1>6, <1>7

(* The imports of an allocated module change, and nothing else of it.        *)
LEMMA Renamed ==
  ASSUME EntityInv, NEW o \in Allocated, NEW imports \in Seq(Nodes),
         object' = [object EXCEPT ![o] = WithImports(object[o], imports)],
         UNCHANGED <<node, is_already_kept>>
  PROVE  /\ Allocated' = Allocated /\ InList' = InList
         /\ object' \in [Objects -> Module \cup {Unused}]
         /\ object'[o] = WithImports(object[o], imports)
         /\ \A x \in Allocated : /\ x # o => object'[x] = object[x]
                                 /\ object'[x].next = object[x].next
                                 /\ object'[x].prev = object[x].prev
                                 /\ object'[x].kind = object[x].kind
                                 /\ object'[x].title = object[x].title
         /\ Titled' /\ Mirrored'
<1> DEFINE r == WithImports(object[o], imports)
<1>1. o \in Objects /\ object[o] \in Module /\ object \in [Objects -> Module \cup {Unused}]
  BY AllocatedType DEF EntityInv, EntityTypeOK
<1>2. /\ r \in Module /\ r.next = object[o].next /\ r.prev = object[o].prev
      /\ r.kind = object[o].kind /\ r.title = object[o].title
  BY <1>1 DEF WithImports, Module
<1> HIDE DEF r
<1>3. r # Unused
  BY <1>2, EntityAssumption
<1>4. /\ object'[o] = r /\ object' \in [Objects -> Module \cup {Unused}]
      /\ \A x \in Objects : x # o => object'[x] = object[x]
  BY <1>1, <1>2 DEF r
<1>5. Allocated' = Allocated
  BY <1>1, <1>3, <1>4 DEF Allocated
<1>6. InList' = InList
  BY <1>5 DEF InList, InHand
<1>7. \A x \in Allocated : /\ x # o => object'[x] = object[x]
                           /\ object'[x].next = object[x].next
                           /\ object'[x].prev = object[x].prev
                           /\ object'[x].kind = object[x].kind
                           /\ object'[x].title = object[x].title
  BY <1>2, <1>4 DEF Allocated
<1>8. Titled'
  BY <1>5, <1>7 DEF Titled, EntityInv
<1>9. Mirrored'
  BY <1>6, <1>7, LinksKeep, InListType DEF EntityInv, InList
<1>10. QED BY <1>4, <1>5, <1>6, <1>7, <1>8, <1>9 DEF r

(* Nothing of the modules changes.                                           *)
LEMMA Untouched ==
  ASSUME EntityInv, UNCHANGED object, InHand' = InHand
  PROVE  Allocated' = Allocated /\ InList' = InList /\ Titled' /\ Mirrored'
BY DEF EntityInv, Titled, Mirrored, InList, Allocated

(* The module in hand is appended to the list.                               *)
LEMMA Appended ==
  ASSUME EntityInv, pc \in {"imports", "names"}, is_already_kept = FALSE, AppendModule
  PROVE  EntityInv'
<1> DEFINE m == node
           last == modules_curr_node
<1>1. /\ m \in Allocated /\ m \in Objects /\ m # NULL /\ object[m] \in Module
      /\ m \notin InList /\ InHand = {m}
      /\ object \in [Objects -> Module \cup {Unused}]
  BY AllocatedType, EntityAssumption DEF EntityInv, EntityTypeOK, Steady, InList, InHand
<1>2. /\ object' = Linked(m) /\ modules' = (IF last = NULL THEN m ELSE modules)
      /\ modules_curr_node' = m /\ node' = NULL /\ is_already_kept' = FALSE
      /\ pc' = "statement" /\ UNCHANGED <<text, input, at, files>>
  BY DEF AppendModule
<1>3. /\ InList \subseteq Objects /\ NULL \notin InList /\ NULL \notin Objects /\ Allocated = InList \cup {m}
      /\ last \in InList \cup {NULL} /\ modules \in InList \cup {NULL}
      /\ modules # NULL => object[modules].prev = NULL
  BY <1>1, InListType, EntityAssumption DEF EntityInv, Ends, Parsing, InList
<1>4. /\ \A o \in InList : object[o] \in Module
      /\ object'[m] = WithLinks(object[m], NULL, last)
      /\ last # NULL => object'[last] = WithLinks(object[last], m, object[last].prev)
      /\ \A o \in Objects : o # m /\ o # last => object'[o] = object[o]
  BY <1>1, <1>2, <1>3, AllocatedType DEF Linked, EntityInv, InList
<1>5. /\ object'[m] \in Module /\ object'[m].next = NULL /\ object'[m].prev = last
      /\ object'[m].kind = object[m].kind /\ object'[m].title = object[m].title
  <2>1. last \in ModuleLink /\ NULL \in ModuleLink
    BY <1>3 DEF ModuleLink
  <2>2. QED BY <1>1, <1>4, <2>1 DEF WithLinks, Module
<1>6. ASSUME last # NULL
      PROVE  /\ object'[last] \in Module /\ object'[last].next = m
             /\ object'[last].prev = object[last].prev
             /\ object'[last].kind = object[last].kind
             /\ object'[last].title = object[last].title
  <2>1. m \in ModuleLink /\ object[last] \in Module
    BY <1>1, <1>3, <1>4, <1>6 DEF ModuleLink
  <2>2. QED BY <1>4, <1>6, <2>1 DEF WithLinks, Module
<1>7. /\ object' \in [Objects -> Module \cup {Unused}] /\ Allocated' = Allocated
  <2>1. ASSUME NEW o \in Objects PROVE object'[o] \in Module \cup {Unused}
    <3>1. CASE o = m
      BY <1>5, <3>1
    <3>2. CASE o = last
      BY <1>3, <1>6, <3>2
    <3>3. CASE o # m /\ o # last
      BY <1>1, <1>4, <3>3
    <3>4. QED BY <3>1, <3>2, <3>3
  <2>2. object' \in [Objects -> Module \cup {Unused}]
    BY <1>2, <2>1 DEF Linked
  <2>3. Unused \notin Module
    BY EntityAssumption
  <2>4. ASSUME NEW o \in Objects PROVE o \in Allocated' <=> o \in Allocated
    <3>1. CASE o = m
      BY <1>1, <1>5, <2>3, <3>1 DEF Allocated
    <3>2. CASE o = last
      <4>1. last # NULL /\ last \in Allocated
        BY <1>3, <3>2
      <4>2. object'[last] # Unused
        BY <1>6, <2>3, <4>1
      <4>3. QED BY <3>2, <4>1, <4>2 DEF Allocated
    <3>3. CASE o # m /\ o # last
      BY <1>4, <3>3 DEF Allocated
    <3>4. QED BY <3>1, <3>2, <3>3
  <2>5. Allocated' = Allocated
    BY <2>4 DEF Allocated
  <2>6. QED BY <2>2, <2>5
<1>8. InList' = InList \cup {m}
  BY <1>2, <1>3, <1>7 DEF InList, InHand
<1>9. EntityTypeOK'
  BY <1>1, <1>2, <1>7, <1>3 DEF EntityInv, EntityTypeOK, Parsing, input
<1>10. Mirrored'
  <2>1. ASSUME NEW o \in InList, o # last
        PROVE  /\ object'[o].next \in InList' \cup {NULL}
               /\ object'[o].next # NULL => object'[object'[o].next].prev = o
    <3>1. /\ object'[o].next = object[o].next /\ object[o].next \in InList \cup {NULL}
          /\ object[o].next # NULL => object[object[o].next].prev = o
      BY <1>1, <1>3, <1>4, <2>1 DEF EntityInv, Mirrored
    <3>2. \A x \in InList : object'[x].prev = object[x].prev
      BY <1>1, <1>3, <1>4, <1>6
    <3>3. QED BY <1>8, <3>1, <3>2
  <2>2. ASSUME NEW o \in InList, o = last
        PROVE  /\ object'[o].next \in InList' \cup {NULL}
               /\ object'[o].next # NULL => object'[object'[o].next].prev = o
    BY <1>3, <1>5, <1>6, <1>8, <2>2
  <2>3. object'[m].next = NULL
    BY <1>5
  <2>4. \A o \in InList \cup {m} :
          /\ object'[o].next \in InList' \cup {NULL}
          /\ object'[o].next # NULL => object'[object'[o].next].prev = o
    BY <2>1, <2>2, <2>3
  <2>5. QED BY <1>8, <2>4 DEF Mirrored
<1>11. Ends'
  <2>1. modules' \in InList' \cup {NULL} /\ modules_curr_node' \in InList' \cup {NULL}
    BY <1>2, <1>3, <1>8
  <2>2. ASSUME modules' # NULL PROVE object'[modules'].prev = NULL
    <3>1. CASE last = NULL
      BY <1>2, <1>5, <3>1
    <3>2. CASE last # NULL
      <4>1. modules' = modules /\ modules \in InList /\ modules # m /\ object[modules].prev = NULL
        BY <1>1, <1>2, <1>3, <2>2, <3>2
      <4>2. object'[modules].prev = object[modules].prev
        BY <1>3, <1>4, <1>6, <4>1
      <4>3. QED BY <4>1, <4>2
    <3>3. QED BY <3>1, <3>2
  <2>3. QED BY <1>2, <2>1, <2>2 DEF Ends
<1>12. Steady'
  BY <1>2 DEF Steady, Between
<1>13. Titled'
  BY <1>3, <1>4, <1>5, <1>6, <1>7 DEF EntityInv, Titled
<1>14. QED BY <1>9, <1>10, <1>11, <1>12, <1>13 DEF EntityInv

(* The first module that is left is released.                                *)
LEMMA Released ==
  ASSUME EntityInv, Release
  PROVE  /\ EntityInv' /\ at \in Allocated /\ Allocated' = Allocated \ {at}
         /\ \A x \in Allocated' : object'[x] = object[x]
<1>1. /\ pc = "release" /\ at # NULL /\ node = NULL /\ InHand = {} /\ InList = Allocated
      /\ at \in InList /\ object[at].prev \notin InList
      /\ object' = [object EXCEPT ![at] = Unused] /\ at' = object[at].next
      /\ UNCHANGED <<modules, modules_curr_node, node, is_already_kept, input, files, pc>>
      /\ TitleReleased(object[at])
  BY DEF Release, EntityInv, Ends, Steady, Between, InHand, InList
<1>2. /\ at \in Objects /\ InList \subseteq Objects /\ NULL \notin InList
      /\ object \in [Objects -> Module \cup {Unused}] /\ object[at] \in Module
  BY <1>1, InListType, AllocatedType DEF EntityInv, EntityTypeOK
<1>3. /\ object' \in [Objects -> Module \cup {Unused}] /\ object'[at] = Unused
      /\ \A x \in Objects : x # at => object'[x] = object[x]
  BY <1>1, <1>2
<1>4. Allocated' = Allocated \ {at} /\ \A x \in Allocated' : object'[x] = object[x]
  BY <1>3 DEF Allocated
<1>5. InList' = InList \ {at} /\ InHand' = {}
  BY <1>1, <1>4 DEF InList, InHand
<1>6. at' \in InList' \cup {NULL} /\ (at' # NULL => object'[at'].prev \notin InList')
  <2>1. /\ at' \in InList \cup {NULL} /\ at' = object[at].next
        /\ at' # NULL => object[at'].prev = at
    BY <1>1 DEF EntityInv, Mirrored
  <2>2. at' # NULL => at' # at
    BY <1>1, <2>1
  <2>3. at' # NULL => object'[at'] = object[at']
    BY <1>2, <1>3, <2>1, <2>2
  <2>4. QED BY <1>5, <2>1, <2>2, <2>3
<1>7. Mirrored'
  <2> SUFFICES ASSUME NEW x \in InList'
               PROVE  /\ object'[x].next \in InList' \cup {NULL}
                      /\ object'[x].next # NULL => object'[object'[x].next].prev = x
    BY DEF Mirrored
  <2>1. /\ x \in InList /\ x # at /\ object'[x] = object[x]
        /\ object[x].next \in InList \cup {NULL}
        /\ object[x].next # NULL => object[object[x].next].prev = x
    BY <1>2, <1>3, <1>5 DEF EntityInv, Mirrored
  <2>2. object[x].next # at
    BY <1>1, <1>2, <2>1
  <2>3. QED BY <1>2, <1>3, <1>5, <2>1, <2>2
<1>8. EntityTypeOK'
  <2>1. text' \in [Nodes -> Text \cup {Unused}]
    BY <1>1 DEF TitleReleased, EntityInv, EntityTypeOK
  <2>2. at' \in Objects \cup {NULL}
    BY <1>2, <1>5, <1>6
  <2>3. QED BY <1>1, <1>3, <2>1, <2>2 DEF EntityInv, EntityTypeOK, input
<1>9. Ends' /\ Steady'
  BY <1>1, <1>6 DEF EntityInv, Ends, Steady, Parsing, Between
<1>10. Titled'
  BY <1>4 DEF EntityInv, Titled
<1>11. QED BY <1>1, <1>4, <1>6, <1>7, <1>8, <1>9, <1>10 DEF EntityInv, InList

LEMMA EntityStart == EntityInit => EntityInv
<1> SUFFICES ASSUME EntityInit PROVE EntityInv
  OBVIOUS
<1>1. Allocated = {} /\ InList = {}
  BY DEF EntityInit, Allocated, InList
<1>2. EntityTypeOK
  <2>1. object \in [Objects -> Module \cup {Unused}] /\ text \in [Nodes -> Text \cup {Unused}]
    BY DEF EntityInit
  <2>2. files \in 0 .. MaxFiles
    BY EntityAssumption DEF EntityInit
  <2>3. QED BY <2>1, <2>2 DEF EntityInit, EntityTypeOK, input
<1>3. Steady /\ Titled /\ Mirrored /\ Ends
  BY <1>1 DEF EntityInit, Steady, Titled, Mirrored, Ends, Between, Parsing
<1>4. QED BY <1>2, <1>3 DEF EntityInv

LEMMA SortedType ==
  ASSUME NEW imports \in Seq(Nodes), NEW s \in Sorted(imports)
  PROVE  /\ s \in Seq(Nodes) /\ ToSet(s) \subseteq ToSet(imports)
         /\ DOMAIN s = DOMAIN imports
         /\ IsInjective(imports) => IsInjective(s)
<1>1. PICK p \in [DOMAIN imports -> DOMAIN imports] :
        IsInjective(p) /\ s = [i \in DOMAIN imports |-> imports[p[i]]]
  BY DEF Sorted
<1>2. DOMAIN imports = 1 .. Len(imports) /\ DOMAIN s = DOMAIN imports
  BY <1>1
<1>3. s \in [1 .. Len(imports) -> Nodes]
  BY <1>1, <1>2
<1>4. s \in Seq(Nodes)
  BY <1>3
<1>5. ToSet(s) \subseteq ToSet(imports)
  BY <1>1, <1>2 DEF ToSet
<1>6. IsInjective(imports) => IsInjective(s)
  BY <1>1, <1>2 DEF IsInjective
<1>7. QED BY <1>2, <1>4, <1>5, <1>6
LEMMA EntityStep ==
  ASSUME EntityInv, [EntityNext]_entityVars
  PROVE  EntityInv'
<1> USE DEF EntityInv
<1>1. ASSUME NEW n \in Nodes, NEW size \in DataSizes, Configure(n, size) PROVE EntityInv'
  <2>1. /\ UNCHANGED <<object, modules, modules_curr_node, node, is_already_kept, squash, show,
                       at, files>>
        /\ pc = "start" /\ pc' = "closed"
        /\ text' = [text EXCEPT ![n] = [use |-> "options", name |-> Unused]]
    BY <1>1 DEF Configure, list, input
  <2>2. text' \in [Nodes -> Text \cup {Unused}]
    BY <2>1 DEF EntityTypeOK, Text
  <2>3. EntityTypeOK'
    BY <2>1, <2>2 DEF EntityTypeOK, input
  <2>4. Titled' /\ Mirrored'
    BY <2>1, Untouched DEF InHand
  <2>5. Steady' /\ Ends'
    BY <2>1 DEF Steady, Ends, Between, Parsing
  <2>6. QED BY <2>3, <2>4, <2>5
<1>2. CASE OpenFile
  <2>1. /\ UNCHANGED <<object, node, is_already_kept, text, squash, show, at>>
        /\ pc = "closed" /\ pc' = "statement" /\ modules' = NULL /\ modules_curr_node' = NULL
        /\ files < MaxFiles /\ files' = files + 1
    BY <1>2 DEF OpenFile, input
  <2>2. EntityTypeOK'
    BY <2>1, EntityAssumption DEF EntityTypeOK, input, Parsing
  <2>3. Titled' /\ Mirrored'
    BY <2>1, Untouched DEF InHand
  <2>4. Steady' /\ Ends'
    BY <2>1 DEF Steady, Ends, Between
  <2>5. QED BY <2>2, <2>3, <2>4
<1>3. ASSUME NEW o \in Objects, NEW n \in Nodes, NEW name \in Names,
             ImportedModule(o, n, name)
      PROVE  EntityInv'
  <2> DEFINE r == NewModule("IMPORT", NULL, <<n>>)
  <2>1. /\ UNCHANGED <<modules, modules_curr_node, squash, show, at, files>>
        /\ pc = "statement" /\ pc' = "imports" /\ node' = o /\ is_already_kept' = FALSE
        /\ text' = [text EXCEPT ![n] = [use |-> "import", name |-> name]]
        /\ object' = [object EXCEPT ![o] = r] /\ o \notin Allocated
    BY <1>3 DEF ImportedModule, Copy, input
  <2>2. r \in Module /\ r.kind = "IMPORT"
    BY DEF NewModule, Module, ModuleLink
  <2> HIDE DEF r
  <2>3. /\ Allocated' = Allocated \cup {o} /\ InList' = InList
        /\ object' \in [Objects -> Module \cup {Unused}]
        /\ \A x \in Allocated : object'[x] = object[x]
        /\ Titled' /\ Mirrored'
    BY <2>1, <2>2, Made
  <2>4. text' \in [Nodes -> Text \cup {Unused}]
    BY <2>1 DEF EntityTypeOK, Text
  <2>5. EntityTypeOK'
    BY <2>1, <2>3, <2>4 DEF EntityTypeOK, input, Parsing
  <2>6. Steady'
    BY <2>1, <2>3 DEF Steady, Between
  <2>7. Ends'
    BY <2>1, <2>3 DEF Ends, Parsing, InList
  <2>8. QED BY <2>3, <2>5, <2>6, <2>7
<1>4. ASSUME NEW o \in Objects, NEW n \in Nodes, NEW name \in Names, FromTitle(o, n, name)
      PROVE  EntityInv'
  <2> DEFINE r == NewModule("FROM", n, <<>>)
  <2>1. /\ UNCHANGED <<modules, modules_curr_node, squash, show, at, files>>
        /\ pc = "statement" /\ pc' = "names" /\ node' = o /\ is_already_kept' = FALSE
        /\ text' = [text EXCEPT ![n] = [use |-> "title", name |-> name]]
        /\ object' = [object EXCEPT ![o] = r] /\ o \notin Allocated
    BY <1>4 DEF FromTitle, Copy, input
  <2>2. r \in Module /\ r.title \in Nodes
    BY DEF NewModule, Module, ModuleLink
  <2> HIDE DEF r
  <2>3. /\ Allocated' = Allocated \cup {o} /\ InList' = InList
        /\ object' \in [Objects -> Module \cup {Unused}]
        /\ \A x \in Allocated : object'[x] = object[x]
        /\ Titled' /\ Mirrored'
    BY <2>1, <2>2, Made
  <2>4. text' \in [Nodes -> Text \cup {Unused}]
    BY <2>1 DEF EntityTypeOK, Text
  <2>5. EntityTypeOK'
    BY <2>1, <2>3, <2>4 DEF EntityTypeOK, input, Parsing
  <2>6. Steady'
    BY <2>1, <2>3 DEF Steady, Between
  <2>7. Ends'
    BY <2>1, <2>3 DEF Ends, Parsing, InList
  <2>8. QED BY <2>3, <2>5, <2>6, <2>7
<1>5. ASSUME NEW o \in Objects, NEW name \in Names, KnownTitle(o, name) PROVE EntityInv'
  <2>1. /\ UNCHANGED <<object, modules, modules_curr_node, text, squash, show, at, files>>
        /\ pc = "statement" /\ pc' = "names" /\ o \in Allocated
        /\ node' = o /\ is_already_kept' = TRUE /\ node = NULL
    BY <1>5 DEF KnownTitle, input, Steady, Between
  <2>2. EntityTypeOK'
    BY <2>1 DEF EntityTypeOK, input, Parsing
  <2>3. InHand' = InHand
    BY <2>1 DEF InHand
  <2>4. Allocated' = Allocated /\ InList' = InList /\ Titled' /\ Mirrored'
    BY <2>1, <2>3, Untouched
  <2>5. Steady' /\ Ends'
    BY <2>1, <2>4 DEF Steady, Ends, Between, Parsing
  <2>6. QED BY <2>2, <2>4, <2>5
<1>6. ASSUME NEW n \in Nodes, NEW name \in Names, PushImport(n, name) PROVE EntityInv'
  <2>1. /\ UNCHANGED <<modules, modules_curr_node, node, is_already_kept, squash, show, at,
                       files, pc>>
        /\ pc \in {"imports", "names"} /\ node \in Allocated
        /\ text' = [text EXCEPT ![n] = [use |-> "import", name |-> name]]
        /\ object' = [object EXCEPT ![node] = WithImports(object[node],
                                                          Append(object[node].imports, n))]
    BY <1>6 DEF PushImport, Copy, input, Steady
  <2>2. Append(object[node].imports, n) \in Seq(Nodes)
    BY <2>1, AllocatedType
  <2>3. /\ Allocated' = Allocated /\ InList' = InList
        /\ object' \in [Objects -> Module \cup {Unused}]
        /\ \A x \in Allocated : object'[x].prev = object[x].prev
        /\ Titled' /\ Mirrored'
    BY <2>1, <2>2, Renamed
  <2>4. text' \in [Nodes -> Text \cup {Unused}]
    BY <2>1 DEF EntityTypeOK, Text
  <2>5. EntityTypeOK'
    BY <2>1, <2>3, <2>4 DEF EntityTypeOK, input, Parsing
  <2>6. Steady' /\ Ends'
    BY <2>1, <2>3 DEF Steady, Ends, Between, Parsing, InList
  <2>7. QED BY <2>3, <2>5, <2>6
<1>7. CASE AppendModule
  <2>1. CASE is_already_kept = FALSE
    BY <1>7, <2>1, Appended DEF AppendModule
  <2>2. CASE is_already_kept = TRUE
    <3>1. /\ UNCHANGED <<object, modules, modules_curr_node, text, squash, show, at, files>>
          /\ node' = NULL /\ is_already_kept' = FALSE /\ pc' = "statement"
          /\ pc \in {"imports", "names"}
      BY <1>7, <2>2 DEF AppendModule, input
    <3>2. InHand' = InHand
      BY <2>2, <3>1 DEF InHand
    <3>3. Allocated' = Allocated /\ InList' = InList /\ Titled' /\ Mirrored'
      BY <3>1, <3>2, Untouched
    <3>4. EntityTypeOK'
      BY <3>1 DEF EntityTypeOK, input, Parsing
    <3>5. Steady' /\ Ends'
      BY <3>1, <3>3 DEF Steady, Ends, Between, Parsing
    <3>6. QED BY <3>3, <3>4, <3>5
  <2>3. QED BY <2>1, <2>2 DEF EntityTypeOK
<1>8. CASE Panic \/ EntityDies \/ Finish \/ EndOfRelease
  <2>1. /\ UNCHANGED <<object, modules, modules_curr_node, node, is_already_kept, text, squash,
                       show, at, files>>
        /\ \/ pc' \in {"panicked", "died", "done"}
           \/ pc = "release" /\ pc' = "closed"
    BY <1>8 DEF Panic, EntityDies, Finish, EndOfRelease, list, input
  <2>2. EntityTypeOK'
    BY <2>1 DEF EntityTypeOK, input, Parsing
  <2>3. Titled' /\ Mirrored'
    BY <2>1, Untouched DEF InHand
  <2>4. Steady' /\ Ends'
    BY <2>1 DEF Steady, Ends, Between, Parsing
  <2>5. QED BY <2>2, <2>3, <2>4
<1>9. CASE EndOfFile \/ EndOfPrint
  <2>1. /\ UNCHANGED <<object, modules, modules_curr_node, node, is_already_kept, text, squash,
                       show, files>>
        /\ at' = modules /\ pc \in {"statement", "print"} /\ pc' \in {"print", "release"}
    BY <1>9 DEF EndOfFile, EndOfPrint, list, input
  <2>2. EntityTypeOK'
    BY <2>1 DEF EntityTypeOK, input, Parsing
  <2>3. Allocated' = Allocated /\ InList' = InList /\ Titled' /\ Mirrored'
    BY <2>1, Untouched DEF InHand
  <2>4. Steady'
    BY <2>1 DEF Steady, Between
  <2>5. /\ modules \in InList \cup {NULL} /\ modules_curr_node \in InList \cup {NULL}
        /\ modules # NULL => object[modules].prev = NULL
        /\ NULL \notin InList
    BY <2>1, InListType DEF Ends, Parsing
  <2>6. Ends'
    BY <2>1, <2>3, <2>5 DEF Ends, Parsing
  <2>7. QED BY <2>2, <2>3, <2>4, <2>6
<1>10. CASE PrintModule
  <2>1. PICK imports \in Sorted(object[at].imports) :
          object' = [object EXCEPT ![at] = WithImports(object[at], imports)]
    BY <1>10 DEF PrintModule
  <2>2. /\ UNCHANGED <<modules, modules_curr_node, node, is_already_kept, text, squash, show,
                       files, pc>>
        /\ pc = "print" /\ at # NULL /\ at \in InList /\ at \in Allocated
        /\ at' = object[at].next
    BY <1>10 DEF PrintModule, input, Ends, InList
  <2>3. imports \in Seq(Nodes)
    BY <2>1, <2>2, AllocatedType, SortedType
  <2>4. /\ Allocated' = Allocated /\ InList' = InList
        /\ object' \in [Objects -> Module \cup {Unused}]
        /\ \A x \in Allocated : object'[x].prev = object[x].prev
        /\ Titled' /\ Mirrored'
    BY <2>1, <2>2, <2>3, Renamed
  <2>5. at' \in InList \cup {NULL}
    BY <2>2 DEF Mirrored
  <2>6. EntityTypeOK'
    BY <2>2, <2>4, <2>5, InListType DEF EntityTypeOK, input
  <2>7. Steady' /\ Ends'
    BY <2>2, <2>4, <2>5 DEF Steady, Ends, Between, Parsing, InList
  <2>8. QED BY <2>4, <2>6, <2>7
<1>11. CASE Release
  BY <1>11, Released
<1>12. CASE UNCHANGED entityVars
  <2>1. UNCHANGED <<object, modules, modules_curr_node, node, is_already_kept, text, squash,
                    show, at, files, pc>>
    BY <1>12 DEF entityVars, list, input
  <2>2. EntityTypeOK'
    BY <2>1 DEF EntityTypeOK, input, Parsing
  <2>3. Allocated' = Allocated /\ InList' = InList /\ Titled' /\ Mirrored'
    BY <2>1, Untouched DEF InHand
  <2>4. Steady' /\ Ends'
    BY <2>1, <2>3 DEF Steady, Ends, Between, Parsing
  <2>5. QED BY <2>2, <2>3, <2>4
<1>13. QED
  BY <1>1, <1>2, <1>3, <1>4, <1>5, <1>6, <1>7, <1>8, <1>9, <1>10, <1>11, <1>12
     DEF EntityNext, EntityStopped

-----------------------------------------------------------------------------
(* What the modules point to                                                *)

(* The texts of a module, with what was filled in for them.                  *)
Owned(m, nodes, what) ==
  /\ Texts(m) \subseteq nodes
  /\ m.kind = "FROM" => what[m.title].use = "title"
  /\ \A i \in DOMAIN m.imports : what[m.imports[i]].use = "import"
  /\ IsInjective(m.imports)

LEMMA TextsOwnedIs ==
  TextsOwned <=> (status = "running" =>
    \A o \in Allocated : /\ Owned(object[o], live, text)
                         /\ \A p \in Allocated \ {o} : Texts(object[o]) \cap Texts(object[p]) = {})
BY DEF TextsOwned, Owned

(* It stays owned when other nodes are allocated or filled.                  *)
LEMMA OwnedGrows ==
  ASSUME NEW m, NEW nodes, NEW what, NEW nodes2, NEW what2,
         Owned(m, nodes, what), m.imports \in Seq(Nodes),
         \A n \in Texts(m) : n \in nodes2 /\ what2[n] = what[n]
  PROVE  Owned(m, nodes2, what2)
<1>1. \A i \in DOMAIN m.imports : m.imports[i] \in Texts(m)
  BY DEF Texts, ToSet
<1>2. m.kind = "FROM" => m.title \in Texts(m)
  BY DEF Texts
<1>3. QED BY <1>1, <1>2 DEF Owned

TitlesOf == {object[o].title : o \in {x \in Allocated : object[x].kind = "FROM"}}
TitleNodes == {n \in live : text[n].use = "title"}

LEMMA NoTitleLostIs == NoTitleLost <=> (status = "running" => TitleNodes = TitlesOf)
BY DEF NoTitleLost, TitleNodes, TitlesOf

(***************************************************************************)
(* A module is written at o: its texts are its own, or were those of the   *)
(* module that was there, or are nodes that were not in use.               *)
(***************************************************************************)
LEMMA Written ==
  ASSUME EntityTypeOK, TextsOwned, status = "running", NEW o \in Objects, NEW r \in Module,
         object' \in [Objects -> Module \cup {Unused}],
         Allocated' = Allocated \cup {o}, object'[o] = r,
         \A x \in Allocated : x # o => object'[x] = object[x],
         \A n \in live : n \in live' /\ text'[n] = text[n],
         Owned(r, live', text'),
         \A n \in Texts(r) : n \in live => o \in Allocated /\ n \in Texts(object[o])
  PROVE  TextsOwned'
<1>1. \A x \in Allocated : /\ Owned(object[x], live, text)
                          /\ \A y \in Allocated \ {x} :
                               Texts(object[x]) \cap Texts(object[y]) = {}
  BY TextsOwnedIs
<1>2. \A x \in Allocated : Texts(object[x]) \subseteq live /\ object[x].imports \in Seq(Nodes)
  BY <1>1, AllocatedType DEF Owned
<1>3. ASSUME NEW x \in Allocated, x # o PROVE Owned(object'[x], live', text')
  <2>1. object'[x] = object[x]
    BY <1>3
  <2>2. Owned(object[x], live', text')
    BY <1>1, <1>2, OwnedGrows
  <2>3. QED BY <2>1, <2>2
<1>4. ASSUME NEW x \in Allocated, x # o PROVE Texts(r) \cap Texts(object[x]) = {}
  BY <1>1, <1>2, <1>4
<1>5. ASSUME NEW x \in Allocated', NEW y \in Allocated' \ {x}
      PROVE  Texts(object'[x]) \cap Texts(object'[y]) = {}
  <2>1. CASE x = o
    BY <1>4, <1>5, <2>1
  <2>2. CASE y = o
    BY <1>4, <1>5, <2>2
  <2>3. CASE x # o /\ y # o
    BY <1>1, <1>5, <2>3
  <2>4. QED BY <2>1, <2>2, <2>3
<1>6. \A x \in Allocated' : Owned(object'[x], live', text')
  BY <1>3
<1>7. QED BY <1>5, <1>6 DEF TextsOwned, Owned

(* A name is copied into a node that was not in use.                         *)
LEMMA Copied ==
  ASSUME EntityTypeOK, TypeOK, NEW n \in Nodes, NEW use, NEW name, Copy(n, use, name)
  PROVE  /\ status = "running" /\ status' = "running" /\ n \notin live /\ live' = live \cup {n}
         /\ text'[n] = [use |-> use, name |-> name]
         /\ \A x \in live : x \in live' /\ text'[x] = text[x] /\ x # n
BY DEF Copy, CopyCStr, Alloc, EntityTypeOK, TypeOK

(* The titles, when one node is filled and the kinds and titles of the       *)
(* modules stay as they are.                                                 *)
LEMMA SameTitles ==
  ASSUME NoTitleLost, status = "running", NEW n, live' = live \cup {n},
         text'[n].use # "title", \A x \in live : text'[x] = text[x],
         TitlesOf' = TitlesOf
  PROVE  NoTitleLost'
<1>1. TitleNodes' = TitleNodes
  BY DEF TitleNodes
<1>2. QED BY <1>1 DEF NoTitleLost, TitleNodes, TitlesOf

(* A step that leaves the modules and the arena as they are.                 *)
LEMMA OwnersSame ==
  ASSUME TextsOwned, NoTitleLost, UNCHANGED <<object, live, text, status>>
  PROVE  TextsOwned' /\ NoTitleLost'
BY DEF TextsOwned, NoTitleLost, Allocated

(* Nor does a step that only changes links.                                  *)
LEMMA OwnersRelinked ==
  ASSUME TextsOwned, NoTitleLost, UNCHANGED <<live, text, status>>, Allocated' = Allocated,
         \A o \in Allocated : /\ object'[o].kind = object[o].kind
                              /\ object'[o].title = object[o].title
                              /\ object'[o].imports = object[o].imports
  PROVE  TextsOwned' /\ NoTitleLost'
<1>1. \A o \in Allocated : Texts(object'[o]) = Texts(object[o])
  BY DEF Texts
<1>2. TitlesOf' = TitlesOf /\ TitleNodes' = TitleNodes
  BY DEF TitlesOf, TitleNodes
<1>3. NoTitleLost'
  BY <1>2 DEF NoTitleLost, TitleNodes, TitlesOf
<1>4. TextsOwned'
  BY <1>1 DEF TextsOwned
<1>5. QED BY <1>3, <1>4

LEMMA OwnersStep ==
  ASSUME EntityInv, TypeOK, TextsOwned, NoTitleLost, [EntityNext]_entityVars
  PROVE  TextsOwned' /\ NoTitleLost'
<1>1. ASSUME NEW n \in Nodes, NEW size \in DataSizes, Configure(n, size)
      PROVE  TextsOwned' /\ NoTitleLost'
  <2>1. /\ UNCHANGED object /\ status = "running" /\ n \notin live /\ live' = live \cup {n}
        /\ text'[n].use = "options" /\ \A x \in live : text'[x] = text[x]
    BY <1>1 DEF Configure, list, KeepOptions, Alloc, EntityInv, EntityTypeOK, TypeOK
  <2>2. ASSUME NEW o \in Allocated
        PROVE  /\ Owned(object[o], live', text')
               /\ \A p \in Allocated \ {o} : Texts(object[o]) \cap Texts(object[p]) = {}
    <3>1. /\ Owned(object[o], live, text) /\ Texts(object[o]) \subseteq live
          /\ \A p \in Allocated \ {o} : Texts(object[o]) \cap Texts(object[p]) = {}
      BY <2>1, <2>2, TextsOwnedIs DEF Owned
    <3>2. object[o].imports \in Seq(Nodes)
      BY <2>2, AllocatedType DEF EntityInv
    <3>3. QED BY <2>1, <3>1, <3>2, OwnedGrows
  <2>3. TextsOwned'
    BY <2>1, <2>2 DEF TextsOwned, Owned, Allocated
  <2>4. TitlesOf' = TitlesOf
    BY <2>1 DEF TitlesOf, Allocated
  <2>5. QED BY <2>1, <2>3, <2>4, SameTitles
<1>2. ASSUME NEW o \in Objects, NEW n \in Nodes, NEW name \in Names,
             ImportedModule(o, n, name)
      PROVE  TextsOwned' /\ NoTitleLost'
  <2> DEFINE r == NewModule("IMPORT", NULL, <<n>>)
  <2>1. /\ pc = "statement" /\ node' = o /\ is_already_kept' = FALSE
        /\ object' = [object EXCEPT ![o] = r] /\ o \notin Allocated /\ Copy(n, "import", name)
    BY <1>2 DEF ImportedModule
  <2>2. /\ r \in Module /\ r.kind = "IMPORT" /\ r.imports = <<n>>
    BY DEF NewModule, Module, ModuleLink
  <2> HIDE DEF r
  <2>3. /\ Allocated' = Allocated \cup {o}
        /\ object' \in [Objects -> Module \cup {Unused}]
        /\ \A x \in Allocated : object'[x] = object[x]
        /\ object'[o] = r
    BY <2>1, <2>2, Made DEF EntityInv, EntityTypeOK
  <2>4. /\ status = "running" /\ n \notin live /\ live' = live \cup {n}
        /\ text'[n].use = "import"
        /\ \A x \in live : x \in live' /\ text'[x] = text[x]
    <3>1. /\ status = "running" /\ n \notin live /\ live' = live \cup {n}
          /\ text'[n] = [use |-> "import", name |-> name]
          /\ \A x \in live : x \in live' /\ text'[x] = text[x]
      BY <2>1, Copied DEF EntityInv
    <3>2. QED BY <3>1
  <2>5. Texts(r) = {n}
    BY <2>2 DEF Texts, ToSet
  <2>6. Owned(r, live', text')
    BY <2>2, <2>4, <2>5 DEF Owned, IsInjective
  <2>7. TextsOwned'
    <3>1. \A x \in Texts(r) : x \notin live
      BY <2>4, <2>5
    <3>2. QED BY <2>2, <2>3, <2>4, <2>6, <3>1, Written DEF EntityInv
  <2>8. TitlesOf' = TitlesOf
    BY <2>1, <2>2, <2>3 DEF TitlesOf
  <2>9. QED BY <2>4, <2>7, <2>8, SameTitles
<1>3. ASSUME NEW o \in Objects, NEW n \in Nodes, NEW name \in Names, FromTitle(o, n, name)
      PROVE  TextsOwned' /\ NoTitleLost'
  <2> DEFINE r == NewModule("FROM", n, <<>>)
  <2>1. /\ pc = "statement" /\ node' = o /\ is_already_kept' = FALSE
        /\ object' = [object EXCEPT ![o] = r] /\ o \notin Allocated /\ Copy(n, "title", name)
    BY <1>3 DEF FromTitle
  <2>2. /\ r \in Module /\ r.kind = "FROM" /\ r.title = n /\ r.imports = <<>>
    BY DEF NewModule, Module, ModuleLink
  <2> HIDE DEF r
  <2>3. /\ Allocated' = Allocated \cup {o}
        /\ object' \in [Objects -> Module \cup {Unused}]
        /\ \A x \in Allocated : object'[x] = object[x]
        /\ object'[o] = r
    BY <2>1, <2>2, Made DEF EntityInv, EntityTypeOK
  <2>4. /\ status = "running" /\ n \notin live /\ live' = live \cup {n}
        /\ text'[n].use = "title"
        /\ \A x \in live : x \in live' /\ text'[x] = text[x]
    <3>1. /\ status = "running" /\ n \notin live /\ live' = live \cup {n}
          /\ text'[n] = [use |-> "title", name |-> name]
          /\ \A x \in live : x \in live' /\ text'[x] = text[x]
      BY <2>1, Copied DEF EntityInv
    <3>2. QED BY <3>1
  <2>5. Texts(r) = {n} /\ DOMAIN r.imports = {}
    BY <2>2 DEF Texts, ToSet
  <2>6. Owned(r, live', text')
    BY <2>2, <2>4, <2>5 DEF Owned, IsInjective
  <2>7. TextsOwned'
    <3>1. \A x \in Texts(r) : x \notin live
      BY <2>4, <2>5
    <3>2. QED BY <2>2, <2>3, <2>4, <2>6, <3>1, Written DEF EntityInv
  <2>8. TitlesOf' = TitlesOf \cup {n}
    BY <2>1, <2>2, <2>3 DEF TitlesOf
  <2>9. TitleNodes' = TitleNodes \cup {n}
    BY <2>4 DEF TitleNodes
  <2>10. TitleNodes = TitlesOf
    BY <2>4, NoTitleLostIs
  <2>11. QED BY <2>7, <2>8, <2>9, <2>10 DEF NoTitleLost, TitleNodes, TitlesOf
<1>4. ASSUME NEW n \in Nodes, NEW name \in Names, PushImport(n, name)
      PROVE  TextsOwned' /\ NoTitleLost'
  <2> DEFINE o == node
             imports == Append(object[o].imports, n)
             r == WithImports(object[o], imports)
  <2>1. /\ o \in Allocated /\ o \in Objects /\ UNCHANGED <<node, is_already_kept>>
        /\ Copy(n, "import", name) /\ object' = [object EXCEPT ![o] = r]
    BY <1>4 DEF PushImport, EntityInv, Steady, Allocated
  <2>2. object[o] \in Module /\ object[o].imports \in Seq(Nodes)
    BY <2>1, AllocatedType DEF EntityInv
  <2>3. /\ imports \in Seq(Nodes) /\ Len(imports) = Len(object[o].imports) + 1
        /\ imports[Len(imports)] = n
        /\ \A i \in DOMAIN object[o].imports : imports[i] = object[o].imports[i]
        /\ DOMAIN imports = DOMAIN object[o].imports \cup {Len(imports)}
        /\ Len(imports) \notin DOMAIN object[o].imports
    BY <2>2
  <2>4. /\ r \in Module /\ r.kind = object[o].kind /\ r.title = object[o].title
        /\ r.imports = imports
    BY <2>2, <2>3 DEF WithImports, Module
  <2>5. /\ Allocated' = Allocated
        /\ object' \in [Objects -> Module \cup {Unused}]
        /\ object'[o] = r
        /\ \A x \in Allocated : /\ x # o => object'[x] = object[x]
                                /\ object'[x].kind = object[x].kind
                                /\ object'[x].title = object[x].title
    BY <2>1, <2>3, Renamed
  <2>6. /\ status = "running" /\ n \notin live /\ live' = live \cup {n}
        /\ text'[n].use = "import"
        /\ \A x \in live : x \in live' /\ text'[x] = text[x]
    <3>1. /\ status = "running" /\ n \notin live /\ live' = live \cup {n}
          /\ text'[n] = [use |-> "import", name |-> name]
          /\ \A x \in live : x \in live' /\ text'[x] = text[x]
      BY <2>1, Copied DEF EntityInv
    <3>2. QED BY <3>1
  <2> HIDE DEF o, r, imports
  <2>7. /\ Owned(object[o], live, text) /\ Texts(object[o]) \subseteq live
    BY <2>1, <2>6, TextsOwnedIs DEF Owned
  <2>8. Owned(object[o], live', text')
    BY <2>2, <2>6, <2>7, OwnedGrows
  <2>9. Texts(r) = Texts(object[o]) \cup {n}
    BY <2>3, <2>4 DEF Texts, ToSet
  <2>10. IsInjective(imports)
    <3>1. \A i \in DOMAIN object[o].imports : object[o].imports[i] # n
      BY <2>6, <2>7 DEF Texts, ToSet
    <3>2. IsInjective(object[o].imports)
      BY <2>7 DEF Owned
    <3>3. QED BY <2>3, <3>1, <3>2 DEF IsInjective
  <2>11. Owned(r, live', text')
    BY <2>3, <2>4, <2>6, <2>8, <2>9, <2>10 DEF Owned
  <2>12. TextsOwned'
    <3>1. \A x \in Texts(r) : x \in live => o \in Allocated /\ x \in Texts(object[o])
      BY <2>1, <2>6, <2>9
    <3>2. Allocated' = Allocated \cup {o}
      BY <2>1, <2>5
    <3>3. QED BY <2>1, <2>4, <2>5, <2>6, <2>11, <3>1, <3>2, Written DEF EntityInv
  <2>13. TitlesOf' = TitlesOf
    BY <2>5 DEF TitlesOf
  <2>14. QED BY <2>6, <2>12, <2>13, SameTitles
<1>5. CASE AppendModule
  <2>1. CASE is_already_kept
    BY <1>5, <2>1, OwnersSame DEF AppendModule, vars
  <2>2. CASE ~is_already_kept
    <3>1. /\ object' = Linked(node) /\ UNCHANGED <<live, text, status>>
          /\ object \in [Objects -> Module \cup {Unused}]
      BY <1>5, <2>2 DEF AppendModule, vars, EntityInv, EntityTypeOK
    <3>2. ASSUME NEW o \in Objects, object[o] \in Module
          PROVE  /\ object'[o] \in Module /\ object'[o].kind = object[o].kind
                 /\ object'[o].title = object[o].title
                 /\ object'[o].imports = object[o].imports
      <4>1. \/ object'[o] = WithLinks(object[o], NULL, modules_curr_node)
            \/ object'[o] = WithLinks(object[o], node, object[o].prev)
            \/ object'[o] = object[o]
        BY <3>1 DEF Linked
      <4>2. modules_curr_node \in ModuleLink /\ node \in ModuleLink /\ NULL \in ModuleLink
        BY DEF ModuleLink, EntityInv, EntityTypeOK
      <4>3. QED BY <3>2, <4>1, <4>2 DEF WithLinks, Module
    <3>3. ASSUME NEW o \in Objects, o \notin Allocated PROVE object'[o] = object[o]
      <4>1. node \in Allocated
        BY <1>5 DEF AppendModule, EntityInv, Steady
      <4>2. modules_curr_node \in Allocated \cup {NULL} /\ NULL \notin Objects
        BY <1>5, EntityAssumption DEF AppendModule, EntityInv, Ends, Parsing, InList
      <4>3. QED BY <3>1, <3>3, <4>1, <4>2 DEF Linked
    <3>4. Allocated' = Allocated
      <4>1. \A o \in Allocated : o \in Objects /\ object[o] \in Module
        BY AllocatedType DEF EntityInv
      <4>2. \A o \in Allocated : object'[o] # Unused
        BY <3>2, <4>1, EntityAssumption
      <4>3. QED BY <3>3, <4>2 DEF Allocated
    <3>5. \A o \in Allocated : o \in Objects /\ object[o] \in Module
      BY AllocatedType DEF EntityInv
    <3>6. QED BY <3>1, <3>2, <3>4, <3>5, OwnersRelinked
  <2>3. QED BY <2>1, <2>2
<1>6. CASE PrintModule
  <2>1. PICK imports \in Sorted(object[at].imports) :
          object' = [object EXCEPT ![at] = WithImports(object[at], imports)]
    BY <1>6 DEF PrintModule
  <2>2. /\ UNCHANGED <<live, text, status, node, is_already_kept>>
        /\ at \in Allocated /\ at \in Objects
    BY <1>6 DEF PrintModule, vars, EntityInv, Ends, InList, Allocated
  <2>3. object[at] \in Module /\ object[at].imports \in Seq(Nodes)
    BY <2>2, AllocatedType DEF EntityInv
  <2>4. /\ imports \in Seq(Nodes) /\ ToSet(imports) \subseteq ToSet(object[at].imports)
        /\ DOMAIN imports = DOMAIN object[at].imports
        /\ IsInjective(object[at].imports) => IsInjective(imports)
    BY <2>1, <2>3, SortedType
  <2> DEFINE r == WithImports(object[at], imports)
  <2>5. /\ r \in Module /\ r.kind = object[at].kind /\ r.title = object[at].title
        /\ r.imports = imports
    BY <2>3, <2>4 DEF WithImports, Module
  <2>6. /\ Allocated' = Allocated
        /\ object' \in [Objects -> Module \cup {Unused}]
        /\ object'[at] = r
        /\ \A x \in Allocated : /\ x # at => object'[x] = object[x]
                                /\ object'[x].kind = object[x].kind
                                /\ object'[x].title = object[x].title
    BY <2>1, <2>2, <2>4, Renamed
  <2> HIDE DEF r
  <2>7. TitlesOf' = TitlesOf /\ TitleNodes' = TitleNodes
    BY <2>2, <2>6 DEF TitlesOf, TitleNodes
  <2>8. NoTitleLost'
    BY <2>2, <2>7 DEF NoTitleLost, TitleNodes, TitlesOf
  <2>9. CASE status = "running"
    <3>1. Owned(object[at], live, text)
      BY <2>2, <2>9, TextsOwnedIs
    <3>2. Texts(r) \subseteq Texts(object[at])
      BY <2>4, <2>5 DEF Texts
    <3>3. \A i \in DOMAIN imports : \E j \in DOMAIN object[at].imports :
            imports[i] = object[at].imports[j]
      BY <2>4 DEF ToSet
    <3>4. Owned(r, live, text)
      BY <2>4, <2>5, <3>1, <3>2, <3>3 DEF Owned
    <3>5. Owned(r, live', text')
      BY <2>2, <3>4 DEF Owned
    <3>6. TextsOwned'
      BY <2>2, <2>5, <2>6, <2>9, <3>2, <3>5, Written DEF EntityInv
    <3>7. QED BY <2>8, <3>6
  <2>10. CASE status # "running"
    BY <2>2, <2>8, <2>10 DEF TextsOwned
  <2>11. QED BY <2>9, <2>10
<1>7. CASE Release
  <2>1. /\ at \in Allocated /\ Allocated' = Allocated \ {at}
        /\ \A x \in Allocated' : object'[x] = object[x]
    BY <1>7, Released
  <2>2. object[at] \in Module /\ TitleReleased(object[at])
    BY <1>7, <2>1, AllocatedType DEF EntityInv, Release
  <2>3. CASE object[at].kind # "FROM"
    <3>1. UNCHANGED <<live, text, status>>
      BY <2>2, <2>3 DEF TitleReleased, vars
    <3>2. TitlesOf' = TitlesOf /\ TitleNodes' = TitleNodes
      BY <2>1, <2>3, <3>1 DEF TitlesOf, TitleNodes
    <3>3. TextsOwned'
      BY <2>1, <3>1 DEF TextsOwned
    <3>4. NoTitleLost'
      BY <3>1, <3>2 DEF NoTitleLost, TitleNodes, TitlesOf
    <3>5. QED BY <3>3, <3>4
  <2>4. CASE object[at].kind = "FROM"
    <3> DEFINE t == object[at].title
    <3>1. /\ status = "running" /\ t \in live /\ live' = live \ {t}
          /\ \A n \in Nodes : n # t => text'[n] = text[n]
          /\ live \subseteq Nodes
      BY <2>2, <2>4 DEF TitleReleased, Dealloc, EntityInv, EntityTypeOK, TypeOK
    <3> HIDE DEF t
    <3>2. \A x \in Allocated : /\ Owned(object[x], live, text)
                              /\ \A y \in Allocated \ {x} :
                                   Texts(object[x]) \cap Texts(object[y]) = {}
      BY <3>1, TextsOwnedIs
    <3>3. t \in Texts(object[at])
      BY <2>4 DEF Texts, t
    <3>4. ASSUME NEW x \in Allocated' PROVE Owned(object[x], live', text')
      <4>1. x \in Allocated /\ x # at
        BY <2>1, <3>4
      <4>2. object[x].imports \in Seq(Nodes)
        BY <4>1, AllocatedType DEF EntityInv
      <4>3. Texts(object[x]) \subseteq live /\ t \notin Texts(object[x])
        BY <2>1, <3>2, <3>3, <4>1 DEF Owned
      <4>4. \A n \in Texts(object[x]) : n \in live' /\ text'[n] = text[n]
        BY <3>1, <4>3
      <4>5. QED BY <3>2, <4>1, <4>2, <4>4, OwnedGrows
    <3>5. TextsOwned'
      BY <2>1, <3>2, <3>4 DEF TextsOwned, Owned
    <3>6. TitleNodes' = TitleNodes \ {t}
      BY <3>1 DEF TitleNodes
    <3>7. \A x \in Allocated' : object[x].kind = "FROM" => object[x].title # t
      BY <2>1, <3>2, <3>3 DEF Texts
    <3>8. TitlesOf' = TitlesOf \ {t}
      BY <2>1, <2>4, <3>7 DEF TitlesOf, t
    <3>9. NoTitleLost'
      BY <3>1, <3>6, <3>8, NoTitleLostIs DEF NoTitleLost, TitleNodes, TitlesOf
    <3>10. QED BY <3>5, <3>9
  <2>5. QED BY <2>3, <2>4
<1>8. CASE Panic \/ EntityDies \/ Finish
  BY <1>8 DEF Panic, EntityDies, Finish, FreeAll, Die, TextsOwned, NoTitleLost
<1>9. ASSUME NEW o \in Objects, NEW name \in Names, KnownTitle(o, name)
      PROVE  TextsOwned' /\ NoTitleLost'
  BY <1>9, OwnersSame DEF KnownTitle, vars
<1>10. CASE OpenFile \/ EndOfFile \/ EndOfPrint \/ EndOfRelease
  BY <1>10, OwnersSame DEF OpenFile, EndOfFile, EndOfPrint, EndOfRelease, vars, list
<1>11. CASE UNCHANGED entityVars
  BY <1>11, OwnersSame DEF entityVars, vars, list
<1>12. QED
  BY <1>1, <1>2, <1>3, <1>4, <1>5, <1>6, <1>7, <1>8, <1>9, <1>10, <1>11
     DEF EntityNext, EntityStopped

-----------------------------------------------------------------------------
LEMMA EntityStepsArena ==
  ASSUME EntityInv, [EntityNext]_entityVars
  PROVE  [Next]_vars
<1>1. ASSUME NEW n \in Nodes, NEW size \in DataSizes, Configure(n, size) PROVE Next
  BY <1>1 DEF Configure, Next
<1>2. ASSUME NEW o \in Objects, NEW n \in Nodes, NEW name \in Names,
             ImportedModule(o, n, name) \/ FromTitle(o, n, name) \/ PushImport(n, name)
      PROVE  Next
  BY <1>2, CopyIsArena DEF ImportedModule, FromTitle, PushImport
<1>3. ASSUME NEW n \in Nodes, NEW name \in Names, PushImport(n, name) PROVE Next
  BY <1>3, CopyIsArena DEF PushImport
<1>4. CASE Release
  <2>1. at \in Allocated /\ TitleReleased(object[at])
    BY <1>4 DEF Release, EntityInv, Ends, InList
  <2>2. object[at].kind = "FROM" => object[at].title \in Nodes
    BY <2>1 DEF EntityInv, Titled
  <2>3. QED BY <2>1, <2>2, ReleaseIsArena
<1>5. CASE Panic \/ EntityDies \/ Finish
  BY <1>5 DEF Panic, EntityDies, Finish, Next
<1>6. CASE OpenFile \/ AppendModule \/ EndOfFile \/ PrintModule \/ EndOfPrint \/ EndOfRelease
  BY <1>6 DEF OpenFile, AppendModule, EndOfFile, PrintModule, EndOfPrint, EndOfRelease
<1>7. ASSUME NEW o \in Objects, NEW name \in Names, KnownTitle(o, name) PROVE UNCHANGED vars
  BY <1>7 DEF KnownTitle
<1>8. CASE UNCHANGED entityVars
  BY <1>8 DEF entityVars
<1>9. QED
  BY <1>1, <1>2, <1>3, <1>4, <1>5, <1>6, <1>7, <1>8 DEF EntityNext, EntityStopped

LEMMA OwnersStart == EntityInit => TextsOwned /\ NoTitleLost
<1> SUFFICES ASSUME EntityInit PROVE TextsOwned /\ NoTitleLost
  OBVIOUS
<1>1. Allocated = {} /\ live = {}
  BY DEF EntityInit, Init, Allocated
<1>2. QED BY <1>1 DEF TextsOwned, NoTitleLost

(***************************************************************************)
(* The invariant: what the list and its links are is kept by every step,   *)
(* and each step is one of the arena, or none (csort.c:207-257).           *)
(***************************************************************************)
THEOREM EntityInvariant == EntitySpec => []EntityInv
<1>1. EntityInv /\ [EntityNext]_entityVars => EntityInv'
  BY EntityStep
<1>2. QED BY <1>1, EntityStart, PTL DEF EntitySpec

(* The modules use the arena by its operations only, so that every theorem   *)
(* about it holds in the program: its list stays whole, no block overflows.  *)
THEOREM EntityUsesArena == EntitySpec => Spec
<1>1. EntityInit => Init
  BY DEF EntityInit
<1>2. EntityInv /\ [EntityNext]_entityVars => [Next]_vars
  BY EntityStepsArena
<1>3. QED BY <1>1, <1>2, EntityInvariant, PTL DEF EntitySpec, Spec

(* Every variable of the modules and their list keeps its type.              *)
THEOREM EntityTypeCorrect == EntitySpec => []EntityTypeOK
<1>1. EntityInv => EntityTypeOK
  BY DEF EntityInv
<1>2. QED BY <1>1, EntityInvariant, PTL

(***************************************************************************)
(* What a module points to is there and is its own, whatever the files     *)
(* hold and in whichever order memory is given out (csort.c:207-236, 586). *)
(***************************************************************************)
THEOREM TextsAreOwned == EntitySpec => []TextsOwned
<1>1. EntityInv /\ TypeOK /\ TextsOwned /\ NoTitleLost /\ [EntityNext]_entityVars
        => TextsOwned' /\ NoTitleLost'
  BY OwnersStep
<1>2. QED BY <1>1, OwnersStart, EntityInvariant, EntityUsesArena, ArenaTypeCorrect, PTL
          DEF EntitySpec

(* No title outlives its module (csort.c:229-236).                           *)
THEOREM TitlesReturned == EntitySpec => []NoTitleLost
<1>1. EntityInv /\ TypeOK /\ TextsOwned /\ NoTitleLost /\ [EntityNext]_entityVars
        => TextsOwned' /\ NoTitleLost'
  BY OwnersStep
<1>2. QED BY <1>1, OwnersStart, EntityInvariant, EntityUsesArena, ArenaTypeCorrect, PTL
          DEF EntitySpec

-----------------------------------------------------------------------------
(***************************************************************************)
(* The list is whole.  While a file is open the modules in the list are    *)
(* the entries of some sequence that the links follow; while they are      *)
(* released, those that are left are.                                      *)
(***************************************************************************)
LinksBack == [o \in Objects |-> IF o \in Allocated THEN object[o].prev ELSE NULL]

IsList(s) ==
  /\ s \in Seq(Objects) /\ IsInjective(s) /\ Entries(s) = InList
  /\ modules = IF s = <<>> THEN NULL ELSE s[1]
  /\ modules_curr_node = IF s = <<>> THEN NULL ELSE s[Len(s)]
  /\ Linked2(s, LinksForth, LinksBack, NULL)

IsRest(s) ==
  /\ s \in Seq(Objects) /\ IsInjective(s) /\ Entries(s) = Allocated
  /\ at = IF s = <<>> THEN NULL ELSE s[1]
  /\ \A i \in 1 .. Len(s) : object[s[i]].next = IF i = Len(s) THEN NULL ELSE s[i + 1]

Listing ==
  /\ pc \in Parsing \cup {"print"} => \E s \in Seq(Objects) : IsList(s)
  /\ pc = "release" => \E s \in Seq(Objects) : IsRest(s)
  /\ pc \in {"start", "closed"} => Allocated = {}

(* The list is what a loop over it comes by.                                *)
LEMMA ListedIs == ASSUME NEW s, IsList(s) PROVE Listed = s
<1>1. DOMAIN LinksForth = Objects
  BY DEF LinksForth
<1>2. Leads(s, modules, LinksForth) /\ IsFiniteSet(DOMAIN LinksForth)
  BY <1>1, LinkedLeads, EntityAssumption DEF IsList
<1>3. QED BY <1>2, FollowedIs DEF Listed, Reached

LEMMA RestIs == ASSUME EntityTypeOK, NEW s, IsRest(s) PROVE Reached(at) = s
<1>1. /\ s \in Seq(Objects) /\ IsInjective(s) /\ Entries(s) = Allocated
      /\ at = IF s = <<>> THEN NULL ELSE s[1]
      /\ NULL \notin Objects
  BY EntityAssumption DEF IsRest
<1>2. DOMAIN LinksForth = Objects
  BY DEF LinksForth
<1>3. \A i \in 1 .. Len(s) : LinksForth[s[i]] = IF i = Len(s) THEN NULL ELSE s[i + 1]
  BY <1>1 DEF LinksForth, IsRest, Entries
<1>4. Leads(s, at, LinksForth) /\ IsFiniteSet(DOMAIN LinksForth)
  BY <1>1, <1>2, <1>3, EntityAssumption DEF Leads
<1>5. QED BY <1>4, FollowedIs DEF Reached

LEMMA ListingIsWhole == EntityInv /\ Listing => ListWhole
<1> SUFFICES ASSUME EntityInv, Listing PROVE ListWhole
  OBVIOUS
<1>1. EntityTypeOK
  BY DEF EntityInv
<1>2. ASSUME pc \in Parsing \cup {"print"}
      PROVE  /\ IsInjective(Listed) /\ ToSet(Listed) = Allocated \ InHand
             /\ IF Listed = <<>> THEN modules_curr_node = NULL
                ELSE modules_curr_node = Last(Listed) /\ object[Last(Listed)].next = NULL
             /\ \A i \in DOMAIN Listed :
                  object[Listed[i]].prev = IF i = 1 THEN NULL ELSE Listed[i - 1]
  <2>1. PICK s \in Seq(Objects) : IsList(s)
    BY <1>2 DEF Listing
  <2>2. Listed = s
    BY <2>1, ListedIs
  <2>3. /\ IsInjective(s) /\ Entries(s) = InList
        /\ modules_curr_node = IF s = <<>> THEN NULL ELSE s[Len(s)]
        /\ Len(s) \in Nat /\ DOMAIN s = 1 .. Len(s)
        /\ \A i \in 1 .. Len(s) : s[i] \in Objects /\ s[i] \in Allocated
        /\ \A i \in 1 .. Len(s) : /\ LinksForth[s[i]] = IF i = Len(s) THEN NULL ELSE s[i + 1]
                                  /\ LinksBack[s[i]] = IF i = 1 THEN NULL ELSE s[i - 1]
    BY <2>1 DEF IsList, Linked2, Entries, InList
  <2>4. \A i \in 1 .. Len(s) : /\ object[s[i]].next = IF i = Len(s) THEN NULL ELSE s[i + 1]
                              /\ object[s[i]].prev = IF i = 1 THEN NULL ELSE s[i - 1]
    BY <2>3 DEF LinksForth, LinksBack
  <2>5. ToSet(s) = Allocated \ InHand
    BY <2>3 DEF ToSet, Entries, InList
  <2>6. s # <<>> => /\ modules_curr_node = Last(s) /\ object[Last(s)].next = NULL
    <3> SUFFICES ASSUME s # <<>> PROVE modules_curr_node = Last(s) /\ object[Last(s)].next = NULL
      OBVIOUS
    <3>1. Len(s) \in 1 .. Len(s)
      BY <2>1, HasEnds
    <3>2. Last(s) = s[Len(s)]
      BY DEF Last
    <3>3. QED BY <2>3, <2>4, <3>1, <3>2
  <2>7. QED BY <2>2, <2>3, <2>4, <2>5, <2>6
<1>3. ASSUME pc = "release" PROVE ToSet(Reached(at)) = Allocated
  <2>1. PICK s \in Seq(Objects) : IsRest(s)
    BY <1>3 DEF Listing
  <2>2. Reached(at) = s
    BY <1>1, <2>1, RestIs
  <2>3. QED BY <2>1, <2>2 DEF IsRest, Entries, ToSet
<1>4. pc = "closed" => Allocated = {}
  BY DEF Listing
<1>5. QED BY <1>2, <1>3, <1>4 DEF ListWhole

(* The list stays as it is when its links do.                               *)
LEMMA ListKept ==
  ASSUME EntityTypeOK, InList' = InList, UNCHANGED <<modules, modules_curr_node>>,
         Allocated \subseteq Allocated',
         \A o \in InList : object'[o].next = object[o].next /\ object'[o].prev = object[o].prev,
         NEW s, IsList(s)
  PROVE  IsList(s)'
<1>1. /\ s \in Seq(Objects) /\ Entries(s) = InList
      /\ Linked2(s, LinksForth, LinksBack, NULL) /\ InList \subseteq Allocated
  BY DEF IsList, InList
<1>2. \A i \in 1 .. Len(s) : s[i] \in Objects /\ s[i] \in InList
  BY <1>1 DEF Entries
<1>3. \A i \in 1 .. Len(s) : /\ LinksForth'[s[i]] = LinksForth[s[i]]
                            /\ LinksBack'[s[i]] = LinksBack[s[i]]
  BY <1>1, <1>2 DEF LinksForth, LinksBack
<1>4. Linked2(s, LinksForth', LinksBack', NULL)
  BY <1>1, <1>3 DEF Linked2
<1>5. QED BY <1>4 DEF IsList

(* A module that is appended is its last.                                   *)
LEMMA ListAppended ==
  ASSUME EntityInv, pc \in {"imports", "names"}, is_already_kept = FALSE, AppendModule,
         NEW s, IsList(s), NEW m, m = node
  PROVE  IsList(Append(s, m))' /\ Append(s, m) \in Seq(Objects)
<1> DEFINE last == modules_curr_node
           t == Append(s, m)
<1>1. /\ m \in Allocated /\ m \in Objects /\ m # NULL
      /\ m \notin InList /\ InHand = {m} /\ InList \subseteq Objects
      /\ NULL \notin Objects /\ EntityTypeOK
  BY AllocatedType, EntityAssumption, InListType
     DEF EntityInv, EntityTypeOK, Steady, InList, InHand
<1>2. /\ object' = Linked(m) /\ modules' = (IF last = NULL THEN m ELSE modules)
      /\ modules_curr_node' = m /\ node' = NULL /\ EntityTypeOK'
  BY Appended DEF AppendModule, EntityInv
<1>3. /\ s \in Seq(Objects) /\ IsInjective(s) /\ Entries(s) = InList
      /\ modules = IF s = <<>> THEN NULL ELSE s[1]
      /\ last = IF s = <<>> THEN NULL ELSE s[Len(s)]
      /\ Linked2(s, LinksForth, LinksBack, NULL)
  BY DEF IsList
<1>4. /\ t \in Seq(Objects) /\ t # <<>> /\ IsInjective(t) /\ Entries(t) = InList \cup {m}
      /\ Len(s) \in Nat /\ Len(t) = Len(s) + 1 /\ t[Len(s) + 1] = m
      /\ \A i \in 1 .. Len(s) : t[i] = s[i]
  BY <1>1, <1>3, AppendFacts
<1>5. /\ s # <<>> => last \in InList /\ last # m
      /\ s = <<>> => Entries(s) = {}
  <2>1. s # <<>> => Len(s) \in 1 .. Len(s)
    BY <1>3, <1>4
  <2>2. QED BY <1>1, <1>3, <2>1 DEF Entries
<1>6. /\ object'[m].next = NULL /\ object'[m].prev = last
      /\ s # <<>> => object'[last].next = m /\ object'[last].prev = object[last].prev
      /\ \A o \in InList : o # last => object'[o] = object[o]
  <2>1. object'[m] = WithLinks(object[m], NULL, last)
    BY <1>1, <1>2 DEF Linked
  <2>2. s # <<>> => object'[last] = WithLinks(object[last], m, object[last].prev)
    BY <1>1, <1>2, <1>5 DEF Linked
  <2>3. \A o \in InList : o # last => object'[o] = object[o]
    BY <1>1, <1>2 DEF Linked
  <2>4. QED BY <2>1, <2>2, <2>3 DEF WithLinks
<1>7. Allocated' = Allocated /\ InList' = InList \cup {m}
  <2>1. ASSUME NEW o \in Objects PROVE o \in Allocated' <=> o \in Allocated
    <3>1. CASE o = m
      <4>1. object'[m] \in Module
        <5>1. object'[m] = WithLinks(object[m], NULL, last) /\ object[m] \in Module
          BY <1>1, <1>2, AllocatedType DEF Linked
        <5>2. last \in ModuleLink /\ NULL \in ModuleLink
          BY <1>1 DEF ModuleLink, EntityTypeOK
        <5>3. QED BY <5>1, <5>2 DEF WithLinks, Module
      <4>2. QED BY <1>1, <3>1, <4>1, EntityAssumption DEF Allocated
    <3>2. CASE s # <<>> /\ o = last
      <4>1. object'[last] \in Module /\ last \in Allocated
        <5>1. /\ object'[last] = WithLinks(object[last], m, object[last].prev)
              /\ last \in Allocated
          BY <1>1, <1>2, <1>5, <3>2 DEF Linked, InList
        <5>2. object[last] \in Module /\ m \in ModuleLink
          BY <1>1, <5>1, AllocatedType DEF ModuleLink
        <5>3. QED BY <5>1, <5>2 DEF WithLinks, Module
      <4>2. QED BY <3>2, <4>1, EntityAssumption DEF Allocated
    <3>3. CASE o # m /\ o # last
      BY <1>2, <3>3 DEF Allocated, Linked
    <3>4. QED BY <1>1, <1>3, <3>1, <3>2, <3>3
  <2>2. Allocated' = Allocated
    BY <2>1 DEF Allocated
  <2>3. QED BY <1>1, <1>2, <2>2 DEF InList, InHand
<1>8. /\ LinksForth'[m] = NULL /\ LinksBack'[m] = IF s = <<>> THEN NULL ELSE s[Len(s)]
      /\ \A x \in Entries(s) : /\ LinksForth'[x] = IF x = s[Len(s)] THEN m ELSE LinksForth[x]
                               /\ LinksBack'[x] = LinksBack[x]
  <2>1. LinksForth'[m] = NULL /\ LinksBack'[m] = IF s = <<>> THEN NULL ELSE s[Len(s)]
    BY <1>1, <1>3, <1>6, <1>7 DEF LinksForth, LinksBack
  <2>2. ASSUME NEW x \in Entries(s)
        PROVE  /\ LinksForth'[x] = IF x = s[Len(s)] THEN m ELSE LinksForth[x]
               /\ LinksBack'[x] = LinksBack[x]
    <3>1. x \in InList /\ x \in Objects /\ x \in Allocated /\ s # <<>> /\ last = s[Len(s)]
      BY <1>1, <1>3, <1>5 DEF InList
    <3>2. CASE x = last
      BY <1>6, <1>7, <3>1, <3>2 DEF LinksForth, LinksBack
    <3>3. CASE x # last
      BY <1>6, <1>7, <3>1, <3>3 DEF LinksForth, LinksBack
    <3>4. QED BY <3>2, <3>3
  <2>3. QED BY <2>1, <2>2
<1>9. Linked2(t, LinksForth', LinksBack', NULL)
  BY <1>1, <1>3, <1>8, AppendLinked
<1>10. modules' = t[1] /\ modules_curr_node' = t[Len(t)]
  <2>1. CASE s = <<>>
    BY <1>2, <1>3, <1>4, <2>1
  <2>2. CASE s # <<>>
    <3>1. 1 \in 1 .. Len(s) /\ last # NULL
      BY <1>1, <1>3, <1>4, <1>5, <2>2
    <3>2. QED BY <1>2, <1>3, <1>4, <2>2, <3>1
  <2>3. QED BY <2>1, <2>2
<1>11. QED BY <1>4, <1>7, <1>9, <1>10 DEF IsList

(* The first of the modules that are left is released.                      *)
LEMMA RestReleased ==
  ASSUME EntityInv, Release, NEW s, IsRest(s)
  PROVE  \E t \in Seq(Objects) : IsRest(t)'
<1> DEFINE t == RemoveAt(s, 1)
           e == Len(s)
<1>1. /\ s \in Seq(Objects) /\ IsInjective(s) /\ Entries(s) = Allocated
      /\ at = IF s = <<>> THEN NULL ELSE s[1]
      /\ \A i \in 1 .. Len(s) : object[s[i]].next = IF i = Len(s) THEN NULL ELSE s[i + 1]
      /\ NULL \notin Objects
  BY EntityAssumption DEF IsRest
<1>2. /\ at # NULL /\ at' = object[at].next /\ Allocated' = Allocated \ {at}
      /\ \A x \in Allocated' : object'[x] = object[x]
  BY Released DEF Release
<1>3. s # <<>> /\ e \in Nat \ {0} /\ 1 \in 1 .. e /\ at = s[1]
  BY <1>1, <1>2
<1>4. /\ t \in Seq(Objects) /\ Len(t) = e - 1 /\ e - 1 \in Nat
      /\ \A i \in 1 .. (e - 1) : t[i] = IF i < 1 THEN s[i] ELSE s[i + 1]
      /\ IsInjective(t) /\ Entries(t) = Allocated'
  BY <1>1, <1>2, <1>3, RemoveAtFacts
<1> HIDE DEF t
<1>5. \A i \in 1 .. (e - 1) : t[i] = s[i + 1] /\ i + 1 \in 1 .. e
  BY <1>3, <1>4
<1>6. t = <<>> <=> e = 1
  <2>1. t = <<>> <=> Len(t) = 0
    BY <1>4
  <2>2. QED BY <1>3, <1>4, <2>1
<1>7. at' = IF t = <<>> THEN NULL ELSE t[1]
  <2>1. at' = IF 1 = e THEN NULL ELSE s[1 + 1]
    BY <1>1, <1>2, <1>3
  <2>2. e # 1 => 1 \in 1 .. (e - 1)
    <3>1. e \in Nat /\ e # 0
      BY <1>3
    <3> HIDE DEF e
    <3>2. QED BY <3>1
  <2>3. QED BY <1>5, <1>6, <2>1, <2>2
<1>8. \A i \in 1 .. Len(t) : object'[t[i]].next = IF i = Len(t) THEN NULL ELSE t[i + 1]
  <2> TAKE i \in 1 .. Len(t)
  <2>1. i \in 1 .. (e - 1) /\ i + 1 \in 1 .. e /\ t[i] = s[i + 1] /\ t[i] \in Allocated'
    BY <1>4, <1>5 DEF Entries
  <2>2. object'[t[i]] = object[s[i + 1]]
    BY <1>2, <2>1
  <2>3. object[s[i + 1]].next = IF i + 1 = e THEN NULL ELSE s[(i + 1) + 1]
    BY <1>1, <2>1
  <2>4. (i + 1 = e <=> i = Len(t)) /\ (i # Len(t) => i + 1 \in 1 .. (e - 1))
    BY <1>3, <1>4, <2>1
  <2>5. i # Len(t) => t[i + 1] = s[(i + 1) + 1]
    BY <1>5, <2>4
  <2>6. QED BY <2>2, <2>3, <2>4, <2>5
<1>9. IsRest(t)'
  BY <1>4, <1>7, <1>8 DEF IsRest
<1>10. QED BY <1>4, <1>9

LEMMA ListingStart == EntityInit => Listing
BY DEF EntityInit, Listing, Allocated, Parsing

LEMMA ListingStep ==
  ASSUME EntityInv, Listing, [EntityNext]_entityVars
  PROVE  Listing'
<1> USE DEF Parsing
<1>1. EntityInv' /\ EntityTypeOK /\ InList \subseteq Allocated
  BY EntityStep DEF EntityInv, InList
<1>2. ASSUME pc \in Parsing \cup {"print"}, pc' \in Parsing \cup {"print"},
             InList' = InList, UNCHANGED <<modules, modules_curr_node>>,
             Allocated \subseteq Allocated',
             \A o \in InList : object'[o].next = object[o].next /\ object'[o].prev = object[o].prev
      PROVE  Listing'
  <2>1. PICK s \in Seq(Objects) : IsList(s)
    BY <1>2 DEF Listing
  <2>2. IsList(s)'
    BY <1>1, <1>2, <2>1, ListKept
  <2>3. QED BY <1>2, <2>2 DEF Listing
<1>3. ASSUME NEW n \in Nodes, NEW size \in DataSizes, Configure(n, size) PROVE Listing'
  BY <1>3 DEF Configure, Listing, list, Allocated
<1>4. CASE OpenFile
  <2>1. /\ pc = "closed" /\ pc' = "statement" /\ modules' = NULL /\ modules_curr_node' = NULL
        /\ UNCHANGED object
    BY <1>4 DEF OpenFile
  <2>2. Allocated' = {} /\ InList' = {}
    BY <2>1 DEF Listing, Allocated, InList
  <2>3. <<>> \in Seq(Objects) /\ IsList(<<>>)'
    BY <2>1, <2>2 DEF IsList, IsInjective, Entries, Linked2
  <2>4. \E s \in Seq(Objects) : IsList(s)'
    BY <2>3, Zenon
  <2>5. QED BY <2>1, <2>4 DEF Listing
<1>5. ASSUME NEW o \in Objects, NEW n \in Nodes, NEW name \in Names,
             ImportedModule(o, n, name) \/ FromTitle(o, n, name)
      PROVE  Listing'
  <2>1. /\ pc = "statement" /\ o \notin Allocated /\ pc' \in {"imports", "names"}
        /\ node' = o /\ is_already_kept' = FALSE /\ UNCHANGED <<modules, modules_curr_node>>
        /\ \/ object' = [object EXCEPT ![o] = NewModule("IMPORT", NULL, <<n>>)]
           \/ object' = [object EXCEPT ![o] = NewModule("FROM", n, <<>>)]
    BY <1>5 DEF ImportedModule, FromTitle
  <2>2. /\ NewModule("IMPORT", NULL, <<n>>) \in Module
        /\ NewModule("IMPORT", NULL, <<n>>).kind # "FROM"
    BY DEF NewModule, Module, ModuleLink
  <2>3. /\ NewModule("FROM", n, <<>>) \in Module
        /\ NewModule("FROM", n, <<>>).title \in Nodes
    BY DEF NewModule, Module, ModuleLink
  <2>4. /\ Allocated' = Allocated \cup {o} /\ InList' = InList
        /\ \A x \in Allocated : object'[x] = object[x]
    BY <2>1, <2>2, <2>3, Made
  <2>5. QED BY <1>1, <1>2, <2>1, <2>4
<1>6. ASSUME NEW o \in Objects, NEW name \in Names, KnownTitle(o, name) PROVE Listing'
  <2>1. /\ pc = "statement" /\ pc' = "names" /\ is_already_kept' = TRUE /\ node = NULL
        /\ UNCHANGED <<object, modules, modules_curr_node>>
    BY <1>6 DEF KnownTitle, EntityInv, Steady, Between
  <2>2. Allocated' = Allocated /\ InList' = InList
    BY <2>1 DEF Allocated, InList, InHand
  <2>3. QED BY <1>2, <2>1, <2>2
<1>7. ASSUME NEW n \in Nodes, NEW name \in Names, PushImport(n, name) PROVE Listing'
  <2>1. /\ pc \in {"imports", "names"} /\ node \in Allocated
        /\ object' = [object EXCEPT ![node] = WithImports(object[node], Append(object[node].imports, n))]
        /\ UNCHANGED <<modules, modules_curr_node, node, is_already_kept, pc>>
    BY <1>7 DEF PushImport, EntityInv, Steady
  <2>2. Append(object[node].imports, n) \in Seq(Nodes)
    BY <1>1, <2>1, AllocatedType, AppendProperties
  <2>3. /\ Allocated' = Allocated /\ InList' = InList
        /\ \A x \in Allocated : /\ object'[x].next = object[x].next
                                /\ object'[x].prev = object[x].prev
    BY <2>1, <2>2, Renamed
  <2>4. QED BY <1>1, <1>2, <2>1, <2>3
<1>8. CASE AppendModule
  <2>1. pc \in {"imports", "names"} /\ pc' = "statement"
    BY <1>8 DEF AppendModule
  <2>2. CASE is_already_kept
    <3>1. /\ UNCHANGED <<object, modules, modules_curr_node>>
          /\ node' = NULL
      BY <1>8, <2>2 DEF AppendModule
    <3>2. Allocated' = Allocated /\ InList' = InList
      BY <2>2, <3>1 DEF Allocated, InList, InHand
    <3>3. QED BY <1>2, <2>1, <3>1, <3>2
  <2>3. CASE ~is_already_kept
    <3>1. is_already_kept = FALSE
      BY <1>1, <2>3 DEF EntityTypeOK
    <3>2. PICK s \in Seq(Objects) : IsList(s)
      BY <2>1 DEF Listing
    <3>3. PICK m : m = node
      OBVIOUS
    <3>4. IsList(Append(s, m))' /\ Append(s, m) \in Seq(Objects)
      BY <1>8, <2>1, <3>1, <3>2, <3>3, ListAppended
    <3>5. QED BY <2>1, <3>4 DEF Listing
  <2>4. QED BY <2>2, <2>3
<1>9. CASE Panic \/ EntityDies \/ Finish
  BY <1>9 DEF Panic, EntityDies, Finish, Listing
<1>10. ASSUME pc \in {"statement", "print"}, pc' = "release", at' = modules, UNCHANGED list
       PROVE  Listing'
  <2>1. PICK s \in Seq(Objects) : IsList(s)
    BY <1>10 DEF Listing
  <2>2. node = NULL /\ UNCHANGED object
    BY <1>10 DEF EntityInv, Steady, Between, list
  <2>3. InList = Allocated /\ Allocated' = Allocated
    BY <2>2 DEF InList, InHand, Allocated
  <2>4. /\ s \in Seq(Objects) /\ IsInjective(s) /\ Entries(s) = Allocated
        /\ modules = IF s = <<>> THEN NULL ELSE s[1]
        /\ \A i \in 1 .. Len(s) : LinksForth[s[i]] = IF i = Len(s) THEN NULL ELSE s[i + 1]
        /\ \A i \in 1 .. Len(s) : s[i] \in Objects /\ s[i] \in Allocated
    BY <2>1, <2>3 DEF IsList, Linked2, Entries
  <2>5. \A i \in 1 .. Len(s) : object'[s[i]].next = IF i = Len(s) THEN NULL ELSE s[i + 1]
    BY <2>2, <2>4 DEF LinksForth
  <2>6. IsRest(s)'
    BY <1>10, <2>3, <2>4, <2>5 DEF IsRest
  <2>7. QED BY <1>10, <2>6 DEF Listing
<1>11. CASE EndOfFile
  <2>1. pc = "statement" /\ at' = modules /\ UNCHANGED list /\ pc' \in {"print", "release"}
    BY <1>11 DEF EndOfFile
  <2>2. CASE pc' = "print"
    <3>1. Allocated' = Allocated /\ InList' = InList /\ UNCHANGED <<modules, modules_curr_node, object>>
      BY <2>1 DEF list, Allocated, InList, InHand
    <3>2. QED BY <1>2, <2>1, <2>2, <3>1
  <2>3. CASE pc' = "release"
    BY <1>10, <2>1, <2>3
  <2>4. QED BY <2>1, <2>2, <2>3
<1>12. CASE PrintModule
  <2>1. /\ pc = "print" /\ pc' = "print" /\ at # NULL
        /\ UNCHANGED <<modules, modules_curr_node, node, is_already_kept>>
    BY <1>12 DEF PrintModule
  <2>2. PICK imports \in Sorted(object[at].imports) :
          object' = [object EXCEPT ![at] = WithImports(object[at], imports)]
    BY <1>12 DEF PrintModule
  <2>3. at \in Allocated
    BY <1>1, <2>1 DEF EntityInv, Ends
  <2>4. imports \in Seq(Nodes)
    BY <1>1, <2>2, <2>3, AllocatedType, SortedType
  <2>5. /\ Allocated' = Allocated /\ InList' = InList
        /\ \A x \in Allocated : /\ object'[x].next = object[x].next
                                /\ object'[x].prev = object[x].prev
    BY <2>1, <2>2, <2>3, <2>4, Renamed
  <2>6. QED BY <1>1, <1>2, <2>1, <2>5
<1>13. CASE EndOfPrint
  BY <1>10, <1>13 DEF EndOfPrint
<1>14. CASE Release
  <2>1. pc = "release" /\ pc' = "release"
    BY <1>14 DEF Release
  <2>2. PICK s \in Seq(Objects) : IsRest(s)
    BY <2>1 DEF Listing
  <2>3. \E t \in Seq(Objects) : IsRest(t)'
    BY <1>14, <2>2, RestReleased
  <2>4. QED BY <2>1, <2>3 DEF Listing
<1>15. CASE EndOfRelease
  <2>1. pc = "release" /\ pc' = "closed" /\ at = NULL /\ UNCHANGED object
    BY <1>15 DEF EndOfRelease, list
  <2>2. PICK s \in Seq(Objects) : IsRest(s)
    BY <2>1 DEF Listing
  <2>3. s = <<>>
    <3>1. s # <<>> => 1 \in 1 .. Len(s)
      BY <2>2
    <3>2. QED BY <2>1, <2>2, <3>1, EntityAssumption DEF IsRest
  <2>4. Allocated = {}
    BY <2>2, <2>3 DEF IsRest, Entries
  <2>5. QED BY <2>1, <2>4 DEF Listing, Allocated
<1>16. CASE UNCHANGED entityVars
  <2>1. /\ UNCHANGED <<object, modules, modules_curr_node, node, is_already_kept, at, pc>>
    BY <1>16 DEF entityVars, list
  <2>2. UNCHANGED <<Allocated, InList, LinksForth, LinksBack>>
    BY <2>1 DEF Allocated, InList, InHand, LinksForth, LinksBack
  <2>3. \A s : (IsList(s) => IsList(s)') /\ (IsRest(s) => IsRest(s)')
    BY <2>1, <2>2 DEF IsList, IsRest
  <2>4. QED BY <2>1, <2>2, <2>3 DEF Listing
<1>17. QED
  BY <1>3, <1>4, <1>5, <1>6, <1>7, <1>8, <1>9, <1>11, <1>12, <1>13, <1>14, <1>15, <1>16
     DEF EntityNext, EntityStopped

LEMMA ListingInvariant == EntitySpec => []Listing
<1>1. EntityInv /\ Listing /\ [EntityNext]_entityVars => Listing'
  BY ListingStep
<1>2. QED BY <1>1, ListingStart, EntityInvariant, PTL DEF EntitySpec

(***************************************************************************)
(* The list of a file has every module that is allocated, once, whatever   *)
(* the file holds, and all of them are released with it: no module is left *)
(* to a later file (csort.c:240-266, 313-320).                             *)
(***************************************************************************)
THEOREM ListIsWhole == EntitySpec => []ListWhole
<1>1. EntityInv /\ Listing => ListWhole
  BY ListingIsWhole
<1>2. QED BY <1>1, EntityInvariant, ListingInvariant, PTL

-----------------------------------------------------------------------------
(***************************************************************************)
(* The list implements the tables of imports.                              *)
(***************************************************************************)

(* What a module says with what its nodes were filled with.                 *)
EntryIn(m, what) ==
  [kind    |-> m.kind,
   title   |-> IF m.kind = "FROM" THEN what[m.title].name ELSE NoTitle,
   imports |-> [i \in DOMAIN m.imports |-> what[m.imports[i]].name]]
Entry(o) == EntryIn(object[o], text)

LEMMA EntrySame ==
  ASSUME NEW m, NEW m2, NEW what, NEW what2, m2.kind = m.kind, m2.title = m.title,
         m2.imports = m.imports, \A n \in Texts(m) : what2[n] = what[n]
  PROVE  EntryIn(m2, what2) = EntryIn(m, what)
<1>1. \A i \in DOMAIN m.imports : what2[m.imports[i]] = what[m.imports[i]]
  BY DEF Texts, ToSet
<1>2. m.kind = "FROM" => what2[m.title] = what[m.title]
  BY DEF Texts
<1>3. [i \in DOMAIN m2.imports |-> what2[m2.imports[i]].name]
        = [i \in DOMAIN m.imports |-> what[m.imports[i]].name]
  BY <1>1
<1>4. QED BY <1>2, <1>3 DEF EntryIn

(* The table of a list.                                                     *)
TableOf(s) == [i \in 1 .. Len(s) |-> Entry(s[i])]

LEMMA ContentsAre == ASSUME NEW s, IsList(s) PROVE Contents = TableOf(s)
<1>1. Listed = s /\ DOMAIN s = 1 .. Len(s)
  BY ListedIs DEF IsList
<1>2. QED BY <1>1 DEF Contents, TableOf, Entry, EntryIn, NameOf, NamesOf

LEMMA ContentsAreNext == ASSUME NEW s, IsList(s)' PROVE Contents' = TableOf(s)'
<1>1. (IsList(s) => Contents = TableOf(s))'
  BY ContentsAre, PTL
<1>2. QED BY <1>1

(***************************************************************************)
(* What a statement may add: the module it is about is new to the list, or *)
(* is one of the list that is combined with.                               *)
(***************************************************************************)
NewTitle == squash => \A o \in InList : Entry(o).kind = "FROM" => Entry(o).title # Entry(node).title
NewModules ==
  \A o \in InList : Entry(o).kind = "IMPORT" =>
     Entry(node).imports[1] \notin ToSet(Entry(o).imports)

HandOK ==
  /\ pc = "imports" =>
       /\ ~is_already_kept /\ object[node].kind = "IMPORT" /\ object[node].imports # <<>>
       /\ NewModules
  /\ pc = "names" =>
       /\ object[node].kind = "FROM"
       /\ is_already_kept => squash
       /\ ~is_already_kept => NewTitle /\ IsInjective(Entry(node).imports)

LEMMA EntryFields ==
  ASSUME NEW m, NEW what
  PROVE  /\ EntryIn(m, what).kind = m.kind
         /\ m.kind = "FROM" => EntryIn(m, what).title = what[m.title].name
         /\ EntryIn(m, what).imports = [i \in DOMAIN m.imports |-> what[m.imports[i]].name]
BY DEF EntryIn

(* What modules say is not changed by a name that is copied.                *)
LEMMA EntryCopied ==
  ASSUME EntityTypeOK, TypeOK, TextsOwned, NEW n \in Nodes, NEW use, NEW name, Copy(n, use, name),
         NEW o \in Allocated, object'[o] = object[o]
  PROVE  Entry(o)' = Entry(o)
<1>1. status = "running" /\ \A x \in live : text'[x] = text[x]
  BY Copied
<1>2. Texts(object[o]) \subseteq live
  BY <1>1 DEF TextsOwned
<1>3. EntryIn(object'[o], text') = EntryIn(object[o], text)
  BY <1>1, <1>2, EntrySame
<1>4. QED BY <1>3 DEF Entry

(* A search finds a module of the list by its title, or there is none.      *)
LEMMA FindModuleIs ==
  ASSUME NEW s, IsList(s), NEW name
  PROVE  \/ /\ FindModule(name) \in InList /\ object[FindModule(name)].kind = "FROM"
         \/ /\ FindModule(name) = NULL
            /\ \A o \in InList : object[o].kind = "FROM" => NameOf(object[o].title) # name
<1> DEFINE found == {i \in DOMAIN Listed : /\ object[Listed[i]].kind = "FROM"
                                           /\ NameOf(object[Listed[i]].title) = name}
<1>1. Listed = s /\ DOMAIN s = 1 .. Len(s) /\ Entries(s) = InList
  BY ListedIs DEF IsList
<1>2. FindModule(name) = IF found = {} THEN NULL ELSE s[Min(found)]
  BY <1>1 DEF FindModule
<1>3. CASE found = {}
  BY <1>1, <1>2, <1>3 DEF Entries
<1>4. CASE found # {}
  <2>1. found \in SUBSET Nat
    BY <1>1 DEF IsList
  <2>2. \E x \in found : \A y \in found : x <= y
    BY <1>4, <2>1, Smallest
  <2>3. Min(found) \in found
    BY <2>2 DEF Min
  <2>4. QED BY <1>1, <1>2, <1>4, <2>3 DEF Entries
<1>5. QED BY <1>3, <1>4

LEMMA SearchForImportsIs ==
  ASSUME NEW s, IsList(s), NEW name, ~SearchForImports(name), NEW o \in InList,
         object[o].kind = "IMPORT"
  PROVE  name \notin ToSet(NamesOf(object[o]))
<1>1. Listed = s /\ DOMAIN s = 1 .. Len(s) /\ Entries(s) = InList
  BY ListedIs DEF IsList
<1>2. o \in ToSet(Listed)
  BY <1>1 DEF ToSet, Entries
<1>3. QED BY <1>2 DEF SearchForImports

(* A module that is new to a file.                                          *)
LEMMA HandMade ==
  ASSUME EntityInv, TypeOK, TextsOwned, Listing, pc = "statement", NEW o \in Objects, o \notin Allocated,
         NEW n \in Nodes, NEW name \in Names, ImportedModule(o, n, name) \/ FromTitle(o, n, name)
  PROVE  HandOK' /\ \A s : IsList(s) => TableOf(s)' = TableOf(s)
<1>1. EntityTypeOK /\ node = NULL /\ InList \subseteq Allocated
  BY DEF EntityInv, Steady, Between, InList
<1>2. PICK s \in Seq(Objects) : IsList(s)
  BY DEF Listing, Parsing
<1>3. PICK use : Copy(n, use, name)
  BY DEF ImportedModule, FromTitle
<1>4. /\ node' = o /\ is_already_kept' = FALSE /\ pc' \in {"imports", "names"} /\ UNCHANGED squash
      /\ \/ object' = [object EXCEPT ![o] = NewModule("IMPORT", NULL, <<n>>)]
         \/ object' = [object EXCEPT ![o] = NewModule("FROM", n, <<>>)]
  BY DEF ImportedModule, FromTitle, input
<1>5. /\ NewModule("IMPORT", NULL, <<n>>) \in Module
      /\ NewModule("IMPORT", NULL, <<n>>).kind # "FROM"
  BY DEF NewModule, Module, ModuleLink
<1>6. NewModule("FROM", n, <<>>) \in Module /\ NewModule("FROM", n, <<>>).title \in Nodes
  BY DEF NewModule, Module, ModuleLink
<1>7. InList' = InList /\ \A x \in Allocated : object'[x] = object[x]
  BY <1>4, <1>5, <1>6, Made
<1>8. \A x \in InList : Entry(x)' = Entry(x)
  BY <1>1, <1>3, <1>7, EntryCopied
<1>9. text'[n].name = name
  <2>1. text'[n] = [use |-> use, name |-> name]
    BY <1>1, <1>3, Copied
  <2>2. QED BY <2>1
<1>10. object \in [Objects -> Module \cup {Unused}]
  BY <1>1 DEF EntityTypeOK
<1>11. CASE ImportedModule(o, n, name)
  <2>1. pc' = "imports" /\ object'[o] = NewModule("IMPORT", NULL, <<n>>) /\ ~SearchForImports(name)
    BY <1>10, <1>11 DEF ImportedModule
  <2>2. object'[o].kind = "IMPORT" /\ object'[o].imports = <<n>>
    BY <2>1 DEF NewModule
  <2>3. Entry(o)'.imports[1] = name
    BY <1>9, <2>2 DEF Entry, EntryIn
  <2>4. ASSUME NEW x \in InList, Entry(x).kind = "IMPORT"
        PROVE  name \notin ToSet(Entry(x).imports)
    <3>1. object[x].kind = "IMPORT" /\ Entry(x).imports = NamesOf(object[x])
      BY <2>4 DEF Entry, EntryIn, NamesOf, NameOf
    <3>2. QED BY <1>2, <2>1, <3>1, SearchForImportsIs
  <2>5. NewModules'
    BY <1>4, <1>7, <1>8, <2>3, <2>4 DEF NewModules
  <2>6. HandOK'
    BY <1>4, <2>1, <2>2, <2>5 DEF HandOK
  <2>7. QED BY <1>8, <2>6 DEF TableOf, IsList, Entries
<1>12. CASE FromTitle(o, n, name)
  <2>1. pc' = "names" /\ object'[o] = NewModule("FROM", n, <<>>) /\ (squash => FindModule(name) = NULL)
    BY <1>10, <1>12 DEF FromTitle
  <2>2. object'[o].kind = "FROM" /\ object'[o].imports = <<>> /\ object'[o].title = n
    BY <2>1 DEF NewModule
  <2>3. Entry(o)'.title = name /\ Entry(o)'.imports = <<>>
    BY <1>9, <2>2 DEF Entry, EntryIn
  <2>4. ASSUME squash, NEW x \in InList, Entry(x).kind = "FROM"
        PROVE  Entry(x).title # name
    <3>1. object[x].kind = "FROM" /\ Entry(x).title = NameOf(object[x].title)
      BY <2>4 DEF Entry, EntryIn, NameOf
    <3>2. NULL \notin InList
      BY <1>1, InListType
    <3>3. QED BY <1>2, <2>1, <2>4, <3>1, <3>2, FindModuleIs
  <2>5. NewTitle'
    BY <1>4, <1>7, <1>8, <2>3, <2>4 DEF NewTitle
  <2>6. IsInjective(Entry(o)'.imports)
    BY <2>3 DEF IsInjective
  <2>7. HandOK'
    BY <1>4, <2>1, <2>2, <2>5, <2>6 DEF HandOK
  <2>8. QED BY <1>8, <2>7 DEF TableOf, IsList, Entries
<1>13. QED BY <1>11, <1>12

(* A name that is added to the module in hand.                              *)
LEMMA HandNamed ==
  ASSUME EntityInv, TypeOK, TextsOwned, HandOK,
         NEW n \in Nodes, NEW name \in Names, PushImport(n, name)
  PROVE  /\ HandOK' /\ InList' = InList
         /\ \A o \in Allocated : o # node => Entry(o)' = Entry(o)
         /\ Entry(node)'.kind = Entry(node).kind /\ Entry(node)'.title = Entry(node).title
         /\ Entry(node)'.imports = Append(Entry(node).imports, name)
         /\ pc = "names" => name \notin ToSet(Entry(node).imports)
         /\ Entry(node).imports = NamesOf(object[node])
<1> DEFINE imports == object[node].imports
           e == Len(imports)
<1>1. /\ pc \in {"imports", "names"} /\ node \in Allocated
      /\ pc = "names" => name \notin ToSet(NamesOf(object[node]))
      /\ object' = [object EXCEPT ![node] = WithImports(object[node], Append(imports, n))]
      /\ UNCHANGED <<modules, modules_curr_node, node, is_already_kept, pc, squash>>
      /\ Copy(n, "import", name) /\ EntityTypeOK
  BY DEF PushImport, EntityInv, Steady, input
<1>2. /\ imports \in Seq(Nodes) /\ Append(imports, n) \in Seq(Nodes) /\ e \in Nat
      /\ Len(Append(imports, n)) = e + 1 /\ Append(imports, n)[e + 1] = n
      /\ \A i \in 1 .. e : Append(imports, n)[i] = imports[i]
  <2>1. imports \in Seq(Nodes)
    BY <1>1, AllocatedType
  <2>2. QED BY <2>1, AppendProperties
<1>3. /\ InList' = InList /\ object'[node] = WithImports(object[node], Append(imports, n))
      /\ \A x \in Allocated : x # node => object'[x] = object[x]
  BY <1>1, <1>2, Renamed
<1>4. \A o \in Allocated : o # node => Entry(o)' = Entry(o)
  BY <1>1, <1>3, EntryCopied
<1>5. /\ status = "running" /\ text'[n] = [use |-> "import", name |-> name]
      /\ \A x \in live : text'[x] = text[x]
  BY <1>1, Copied
<1>6. Texts(object[node]) \subseteq live
  BY <1>1, <1>5 DEF TextsOwned
<1>7. \A i \in 1 .. e : imports[i] \in live
  BY <1>2, <1>6 DEF Texts, ToSet
<1>8. /\ object'[node].kind = object[node].kind /\ object'[node].title = object[node].title
      /\ object'[node].imports = Append(imports, n)
  BY <1>3 DEF WithImports
<1>9. Entry(node)'.kind = Entry(node).kind /\ Entry(node)'.title = Entry(node).title
  <2>1. object[node].kind = "FROM" => object[node].title \in live
    BY <1>6 DEF Texts
  <2>2. object[node].kind = "FROM" => text'[object[node].title].name = text[object[node].title].name
    BY <1>5, <2>1
  <2>3. QED BY <1>1, <1>8, <2>2 DEF Entry, EntryIn
<1> DEFINE before == Entry(node).imports
           after == Entry(node)'.imports
<1>10. /\ before = [i \in 1 .. e |-> text[imports[i]].name]
       /\ after = [i \in 1 .. (e + 1) |-> text'[Append(imports, n)[i]].name]
       /\ before = NamesOf(object[node])
  <2>1. DOMAIN imports = 1 .. e /\ DOMAIN Append(imports, n) = 1 .. (e + 1)
    BY <1>2
  <2>2. QED BY <1>1, <1>8, <2>1 DEF Entry, EntryIn, NamesOf, NameOf
<1> HIDE DEF imports, e, before, after
<1>11. /\ Len(after) = e + 1 /\ Len(before) = e /\ after[e + 1] = name
       /\ \A i \in 1 .. e : after[i] = before[i]
  BY <1>2, <1>5, <1>7, <1>10
<1>12. after = Append(before, name)
  <2> DEFINE B == {before[i] : i \in 1 .. e}
             A == {after[i] : i \in 1 .. (e + 1)}
  <2>1. before \in Seq(B) /\ after \in Seq(A)
    BY <1>2, <1>10
  <2> HIDE DEF A, B
  <2>2. after = Append(before, after[Len(after)])
    BY <1>11, <2>1, AppendIs
  <2>3. QED BY <1>11, <2>2
<1>13. HandOK'
  <2>1. CASE pc = "imports"
    <3>1. /\ ~is_already_kept /\ object[node].kind = "IMPORT" /\ imports # <<>> /\ NewModules
      BY <2>1 DEF HandOK, imports
    <3>2. 1 \in 1 .. e /\ Append(imports, n) # <<>>
      BY <1>2, <3>1, HasEnds DEF e
    <3>3. after[1] = before[1]
      BY <1>11, <3>2
    <3>4. node \notin InList
      BY <1>1, <3>1, EntityAssumption DEF InList, InHand, Allocated
    <3>5. \A o \in InList : o \in Allocated /\ o # node
      BY <3>4 DEF InList
    <3>6. NewModules'
      BY <1>1, <1>3, <1>4, <3>1, <3>3, <3>5 DEF NewModules, before, after
    <3>7. QED BY <1>1, <1>8, <2>1, <3>1, <3>2, <3>6 DEF HandOK
  <2>2. CASE pc = "names"
    <3>1. /\ object[node].kind = "FROM" /\ (is_already_kept => squash)
          /\ ~is_already_kept => NewTitle /\ IsInjective(before)
      BY <2>2 DEF HandOK, before
    <3>2. ASSUME ~is_already_kept PROVE NewTitle' /\ IsInjective(after)
      <4>1. node \notin InList
        BY <1>1, <3>2, EntityAssumption DEF InList, InHand, Allocated
      <4>2. \A o \in InList : o \in Allocated /\ o # node
        BY <4>1 DEF InList
      <4>3. NewTitle'
        BY <1>1, <1>3, <1>4, <1>9, <3>1, <3>2, <4>2 DEF NewTitle
      <4>4. name \notin Entries(before)
        BY <1>1, <1>10, <1>11, <2>2 DEF ToSet, Entries
      <4>5. IsInjective(Append(before, name))
        <5> DEFINE B == {before[i] : i \in 1 .. e} \cup {name}
        <5>1. before \in Seq(B) /\ name \in B
          BY <1>2, <1>10
        <5> HIDE DEF B
        <5>2. QED BY <3>1, <3>2, <4>4, <5>1, AppendFacts
      <4>6. QED BY <1>12, <4>3, <4>5
    <3>3. QED BY <1>1, <1>8, <2>2, <3>1, <3>2 DEF HandOK, after
  <2>3. QED BY <1>1, <2>1, <2>2
<1>14. pc = "names" => name \notin ToSet(before)
  BY <1>1, <1>10
<1>15. QED BY <1>3, <1>4, <1>9, <1>10, <1>12, <1>13, <1>14 DEF before, after

-----------------------------------------------------------------------------
(* The steps of the tables                                                  *)

LEMMA TableStays ==
  ASSUME pc \in Parsing, pc' \in Parsing, UNCHANGED squash, NEW s, IsList(s), IsList(s)',
         TableOf(s)' = TableOf(s)
  PROVE  UNCHANGED Tables!tableVars
<1>1. Contents' = Contents
  BY ContentsAre, ContentsAreNext
<1>2. QED BY <1>1 DEF Tables!tableVars

(* The entries of a table, and what is in it of each kind.                  *)
LEMMA TableFacts ==
  ASSUME NEW s, IsList(s)
  PROVE  /\ Len(s) \in Nat /\ TableOf(s) \in Seq(Entries(TableOf(s)))
         /\ Len(TableOf(s)) = Len(s) /\ DOMAIN TableOf(s) = 1 .. Len(s)
         /\ \A i \in 1 .. Len(s) : TableOf(s)[i] = Entry(s[i]) /\ s[i] \in InList
BY DEF TableOf, IsList, Entries

(* A module that is appended is an entry that may join the table.           *)
LEMMA RecordStep ==
  ASSUME EntityInv, HandOK, pc \in {"imports", "names"}, ~is_already_kept, AppendModule,
         NEW s, IsList(s)
  PROVE  Tables!Record
<1>1. PICK m : m = node
  OBVIOUS
<1> DEFINE t == Append(s, m)
           a == TableOf(s)
           b == TableOf(t)'
           e == Len(s)
<1>2. /\ is_already_kept = FALSE /\ node \in Allocated /\ EntityTypeOK
      /\ object' = Linked(node) /\ UNCHANGED <<text, squash>>
      /\ pc' = "statement" /\ object[node].imports # <<>>
  BY DEF EntityInv, EntityTypeOK, Steady, AppendModule, input
<1>3. IsList(t)' /\ t \in Seq(Objects)
  BY <1>1, <1>2, ListAppended
<1>4. Contents = a /\ Contents' = b
  BY <1>3, ContentsAre, ContentsAreNext
<1>5. /\ s \in Seq(Objects) /\ m \in Objects /\ Len(t) = e + 1 /\ e \in Nat /\ t[e + 1] = m
      /\ \A i \in 1 .. e : t[i] = s[i] /\ s[i] \in Objects
  BY <1>1, <1>2, AppendFacts DEF IsList, Allocated
<1>6. \A o \in Objects : /\ object'[o].kind = object[o].kind /\ object'[o].title = object[o].title
                          /\ object'[o].imports = object[o].imports
  BY <1>2 DEF Linked, WithLinks
<1>7. \A o \in Objects : Entry(o)' = Entry(o)
  BY <1>2, <1>6, EntrySame DEF Entry
<1>8. /\ a = [i \in 1 .. e |-> Entry(s[i])] /\ b = [i \in 1 .. (e + 1) |-> Entry(t[i])']
  BY <1>5 DEF TableOf
<1>9. /\ Len(a) = e /\ Len(b) = e + 1 /\ b[e + 1] = Entry(m)
      /\ \A i \in 1 .. e : b[i] = a[i] /\ a[i] = Entry(s[i])
  BY <1>5, <1>7, <1>8
<1>10. b = Append(a, b[Len(b)])
  <2>1. a \in Seq(Entries(a)) /\ b \in Seq(Entries(b))
    <3>1. e + 1 \in Nat
      BY <1>5
    <3>2. a = [i \in 1 .. e |-> a[i]] /\ b = [i \in 1 .. (e + 1) |-> b[i]]
      BY <1>8
    <3> HIDE DEF a, b
    <3>3. QED BY <1>5, <3>1, <3>2, FunctionIsSeq
  <2> HIDE DEF a, b
  <2>2. QED BY <1>9, <2>1, AppendIs
<1> HIDE DEF a, b, e
<1>11. Tables!Last(b) = b[Len(b)] /\ b[Len(b)] = Entry(m)
  BY <1>9 DEF Tables!Last
<1>12. \A i \in DOMAIN a : i \in 1 .. e /\ a[i] = Entry(s[i]) /\ s[i] \in InList
  BY <1>8, <1>9 DEF IsList, Entries, e
<1>13. /\ Entry(m).kind = object[m].kind /\ Entry(m).imports # <<>>
       /\ object[m].kind \in {"FROM", "IMPORT"}
  <2>1. object[m].imports \in Seq(Nodes) /\ object[m].imports # <<>> /\ object[m].kind \in {"FROM", "IMPORT"}
    BY <1>1, <1>2, AllocatedType
  <2>2. 1 \in DOMAIN object[m].imports
    BY <2>1, HasEnds
  <2>3. Entry(m).imports = [i \in DOMAIN object[m].imports |-> text[object[m].imports[i]].name]
    BY DEF Entry, EntryIn
  <2>4. Entry(m).kind = object[m].kind
    BY DEF Entry, EntryIn
  <2>5. Entry(m).imports # <<>>
    <3>1. DOMAIN Entry(m).imports # {}
      BY <2>2, <2>3
    <3>2. QED BY <3>1
  <2>6. QED BY <2>1, <2>4, <2>5
<1>14. ASSUME Entry(m).kind = "FROM"
       PROVE  /\ Tables!NoRepeats(Entry(m).imports)
              /\ squash => Entry(m).title \notin {a[i].title : i \in {j \in DOMAIN a : a[j].kind = "FROM"}}
  <2>1. pc = "names"
    BY <1>1, <1>13, <1>14 DEF HandOK
  <2>2. NewTitle /\ IsInjective(Entry(m).imports)
    BY <1>1, <2>1 DEF HandOK
  <2>3. QED BY <1>1, <1>12, <2>2 DEF NewTitle, Tables!NoRepeats, IsInjective
<1>15. ASSUME Entry(m).kind = "IMPORT"
       PROVE  Head(Entry(m).imports)
                \notin UNION {Tables!Range(a[i].imports) : i \in {j \in DOMAIN a : a[j].kind = "IMPORT"}}
  <2>1. pc = "imports"
    BY <1>1, <1>13, <1>15 DEF HandOK
  <2>2. NewModules
    BY <2>1 DEF HandOK
  <2>3. Head(Entry(m).imports) = Entry(m).imports[1]
    BY <1>13 DEF Entry, EntryIn
  <2>4. QED BY <1>1, <1>12, <2>2, <2>3 DEF NewModules, Tables!Range, ToSet
<1>16. pc \in Parsing /\ pc' \in Parsing
  BY <1>2 DEF Parsing
<1>17. Tables!Acceptable(b[Len(b)])
  BY <1>4, <1>11, <1>13, <1>14, <1>15, <1>16
     DEF Tables!Acceptable, Tables!Titles, Tables!Modules
<1>18. QED BY <1>2, <1>4, <1>9, <1>10, <1>11, <1>16, <1>17 DEF Tables!Record

(* A table in which one entry changes.                                      *)
LEMMA ReplacedIs ==
  ASSUME NEW e \in Nat, NEW a, NEW b, a = [i \in 1 .. e |-> a[i]], b = [i \in 1 .. e |-> b[i]],
         NEW k \in 1 .. e, \A i \in 1 .. e : i # k => b[i] = a[i]
  PROVE  b = [a EXCEPT ![k] = b[k]]
<1> DEFINE c == [a EXCEPT ![k] = b[k]]
<1>1. DOMAIN c = 1 .. e /\ c = [i \in 1 .. e |-> c[i]] /\ DOMAIN a = 1 .. e
  OBVIOUS
<1>2. \A i \in 1 .. e : c[i] = b[i]
  OBVIOUS
<1> HIDE DEF c
<1>3. c = b
  BY <1>1, <1>2
<1>4. QED BY <1>3 DEF c

LEMMA TableReplaced ==
  ASSUME NEW s, IsList(s), IsList(s)', NEW k \in 1 .. Len(s),
         \A o \in InList : o # s[k] => Entry(o)' = Entry(o)
  PROVE  TableOf(s)' = [TableOf(s) EXCEPT ![k] = TableOf(s)'[k]]
<1> DEFINE a == TableOf(s)
           b == TableOf(s)'
           e == Len(s)
<1>1. e \in Nat /\ IsInjective(s) /\ DOMAIN s = 1 .. e /\ \A i \in 1 .. e : s[i] \in InList
  BY DEF IsList, Entries
<1>2. /\ a = [i \in 1 .. e |-> a[i]] /\ b = [i \in 1 .. e |-> b[i]]
      /\ \A i \in 1 .. e : a[i] = Entry(s[i]) /\ b[i] = Entry(s[i])'
  BY DEF TableOf
<1>3. \A i \in 1 .. e : i # k => b[i] = a[i]
  BY <1>1, <1>2 DEF IsInjective
<1> HIDE DEF a, b, e
<1>4. k \in 1 .. e
  BY DEF e
<1>5. QED BY <1>1, <1>2, <1>3, <1>4, ReplacedIs DEF a, b

(* A name that is pushed to a library that is combined.                     *)
LEMMA AddNameStep ==
  ASSUME EntityInv, TypeOK, TextsOwned, HandOK, pc = "names", is_already_kept,
         NEW n \in Nodes, NEW name \in Names, PushImport(n, name),
         NEW s, IsList(s), IsList(s)'
  PROVE  Tables!AddName
<1> DEFINE a == TableOf(s)
           b == TableOf(s)'
<1>1. /\ node \in InList /\ node \in Allocated /\ squash /\ object[node].kind = "FROM"
      /\ node' = node /\ UNCHANGED <<pc, squash>>
  BY DEF EntityInv, Steady, HandOK, InList, InHand, PushImport, input
<1>2. PICK k \in 1 .. Len(s) : s[k] = node
  BY <1>1 DEF IsList, Entries
<1>3. /\ \A o \in Allocated : o # node => Entry(o)' = Entry(o)
      /\ Entry(node)'.kind = Entry(node).kind /\ Entry(node)'.title = Entry(node).title
      /\ Entry(node)'.imports = Append(Entry(node).imports, name)
      /\ name \notin ToSet(Entry(node).imports)
      /\ Entry(node).imports = NamesOf(object[node])
  BY HandNamed
<1>4. Contents = a /\ Contents' = b
  BY ContentsAre, ContentsAreNext
<1>5. \A o \in InList : o # s[k] => Entry(o)' = Entry(o)
  BY <1>2, <1>3 DEF InList
<1>6. b = [a EXCEPT ![k] = b[k]]
  BY <1>5, TableReplaced
<1>7. /\ a[k] = Entry(node) /\ b[k] = Entry(node)' /\ Len(a) = Len(b)
      /\ k \in DOMAIN a
  <2>1. Entry(s[k])' = Entry(node)'
    BY <1>1, <1>2
  <2>2. QED BY <1>2, <2>1, TableFacts DEF TableOf
<1>8. /\ a[k].kind = "FROM"
      /\ b[k] = [kind |-> a[k].kind, title |-> a[k].title, imports |-> Append(a[k].imports, name)]
  <2>1. Entry(node)' = [kind |-> Entry(node)'.kind, title |-> Entry(node)'.title,
                        imports |-> Entry(node)'.imports]
    BY DEF Entry, EntryIn
  <2>2. Entry(node).kind = "FROM"
    BY <1>1 DEF Entry, EntryIn
  <2>3. QED BY <1>3, <1>7, <2>1, <2>2
<1>9. Tables!Last(b[k].imports) = name /\ name \notin Tables!Range(a[k].imports)
  <2>1. b[k].imports = Append(a[k].imports, name)
    BY <1>3, <1>7
  <2>2. a[k].imports = NamesOf(object[node]) /\ object[node].imports \in Seq(Nodes)
    BY <1>1, <1>3, <1>7, AllocatedType DEF EntityInv
  <2>3. /\ Len(object[node].imports) \in Nat
        /\ a[k].imports = [i \in 1 .. Len(object[node].imports) |-> a[k].imports[i]]
    BY <2>2 DEF NamesOf
  <2>4. a[k].imports \in Seq(Entries(a[k].imports))
    BY <2>3, FunctionIsSeq
  <2>5. Append(a[k].imports, name)[Len(Append(a[k].imports, name))] = name
    <3> DEFINE S == Entries(a[k].imports) \cup {name}
    <3>1. a[k].imports \in Seq(S) /\ name \in S
      BY <2>4
    <3> HIDE DEF S
    <3>2. QED BY <3>1, AppendFacts
  <2>6. name \notin Tables!Range(a[k].imports)
    BY <1>3, <1>7 DEF Tables!Range, ToSet
  <2>7. QED BY <2>1, <2>5, <2>6 DEF Tables!Last
<1> HIDE DEF a, b
<1>10. pc \in Parsing /\ pc' \in Parsing
  BY <1>1 DEF Parsing
<1>11. b = [a EXCEPT ![k] = [kind |-> @.kind, title |-> @.title, imports |-> Append(@.imports, name)]]
  BY <1>6, <1>8
<1>12. QED BY <1>1, <1>4, <1>7, <1>8, <1>9, <1>10, <1>11 DEF Tables!AddName

-----------------------------------------------------------------------------
(* Entries in another order                                                 *)

LEMMA CardinalityIs == ASSUME NEW S PROVE Tables!Cardinality(S) = Cardinality(S)
BY DEF Tables!Cardinality, Cardinality, Tables!IsFiniteSet, IsFiniteSet

LEMMA PermutedSame ==
  ASSUME NEW e \in Nat, NEW f, f = [i \in 1 .. e |-> f[i]],
         NEW p \in [1 .. e -> 1 .. e], IsInjective(p)
  PROVE  Tables!SameButOrder(f, [i \in 1 .. e |-> f[p[i]]])
<1> DEFINE g == [i \in 1 .. e |-> f[p[i]]]
<1>1. Len(f) = e /\ Len(g) = e /\ DOMAIN f = 1 .. e /\ DOMAIN g = 1 .. e
  OBVIOUS
<1>2. p \in Surjection(1 .. e, 1 .. e)
  <2>1. IsFiniteSet(1 .. e)
    BY FS_Interval
  <2>2. p \in Injection(1 .. e, 1 .. e)
    BY DEF Injection
  <2>3. QED BY <2>1, <2>2, FS_Injection
<1>3. ASSUME NEW x PROVE Cardinality({i \in 1 .. e : f[i] = x}) = Cardinality({i \in 1 .. e : g[i] = x})
  <2> DEFINE S == {i \in 1 .. e : f[i] = x}
             T == {i \in 1 .. e : g[i] = x}
             q == [i \in T |-> p[i]]
  <2>1. q \in [T -> S]
    OBVIOUS
  <2>2. q \in Injection(T, S)
    BY <2>1 DEF Injection, IsInjective
  <2>3. \A i \in S : \E j \in T : q[j] = i
    <3> TAKE i \in S
    <3>1. PICK j \in 1 .. e : p[j] = i
      BY <1>2 DEF Surjection
    <3>2. g[j] = f[i] /\ f[i] = x
      BY <3>1
    <3>3. j \in T /\ q[j] = i
      BY <3>1, <3>2
    <3>4. QED BY <3>3
  <2>4. q \in Surjection(T, S)
    BY <2>1, <2>3 DEF Surjection
  <2>5. ExistsBijection(T, S)
    BY <2>2, <2>4 DEF ExistsBijection, Bijection
  <2>6. IsFiniteSet(T)
    <3>1. IsFiniteSet(1 .. e)
      BY FS_Interval
    <3>2. T \in SUBSET (1 .. e)
      OBVIOUS
    <3>3. QED BY <3>1, <3>2, FS_Subset
  <2>7. QED BY <2>5, <2>6, FS_Bijection
<1>4. QED BY <1>1, <1>3, CardinalityIs DEF Tables!SameButOrder

(* One module is printed: its names are put in another order.               *)
LEMMA ArrangeStep ==
  ASSUME EntityInv, PrintModule, NEW s, IsList(s), IsList(s)'
  PROVE  Tables!Arrange
<1>1. PICK o : o = at
  OBVIOUS
<1> DEFINE a == TableOf(s)
           b == TableOf(s)'
           names == Entry(o).imports
<1>2. /\ pc = "print" /\ pc' = "print" /\ at # NULL /\ EntityTypeOK
      /\ UNCHANGED <<text, squash, node, is_already_kept>>
  BY DEF PrintModule, EntityInv, input
<1>3. PICK imports \in Sorted(object[at].imports) :
        object' = [object EXCEPT ![at] = WithImports(object[at], imports)]
  BY DEF PrintModule
<1>4. o \in InList /\ o \in Allocated
  BY <1>1, <1>2 DEF EntityInv, Ends, InList
<1>5. imports \in Seq(Nodes) /\ object[o].imports \in Seq(Nodes)
  BY <1>1, <1>2, <1>3, <1>4, AllocatedType, SortedType
<1>6. /\ object'[o] = WithImports(object[o], imports)
      /\ \A x \in Allocated : x # o => object'[x] = object[x]
  BY <1>1, <1>2, <1>3, <1>4, <1>5, Renamed
<1>7. PICK k \in 1 .. Len(s) : s[k] = o
  BY <1>4 DEF IsList, Entries
<1>8. \A x \in InList : x # s[k] => Entry(x)' = Entry(x)
  BY <1>2, <1>6, <1>7 DEF InList, Entry
<1>9. b = [a EXCEPT ![k] = b[k]]
  BY <1>8, TableReplaced
<1>10. a[k] = Entry(o) /\ b[k] = Entry(o)' /\ Len(a) = Len(b) /\ k \in DOMAIN a
  BY <1>7, TableFacts DEF TableOf
<1>11. PICK p \in [DOMAIN object[o].imports -> DOMAIN object[o].imports] :
         IsInjective(p) /\ imports = [i \in DOMAIN object[o].imports |-> object[o].imports[p[i]]]
  BY <1>1, <1>3 DEF Sorted
<1> DEFINE e == Len(object[o].imports)
<1>12. /\ e \in Nat /\ DOMAIN object[o].imports = 1 .. e
       /\ names = [i \in 1 .. e |-> text[object[o].imports[i]].name]
       /\ names = [i \in 1 .. e |-> names[i]]
  BY <1>5 DEF Entry, EntryIn
<1>13. /\ object'[o].kind = object[o].kind /\ object'[o].title = object[o].title
       /\ object'[o].imports = imports
  BY <1>6 DEF WithImports
<1>14. Entry(o)'.imports = [i \in 1 .. e |-> names[p[i]]]
  <2>1. DOMAIN imports = 1 .. e
    BY <1>11, <1>12
  <2>2. Entry(o)'.imports = [i \in 1 .. e |-> text[imports[i]].name]
    BY <1>2, <1>13, <2>1 DEF Entry, EntryIn
  <2>3. \A i \in 1 .. e : text[imports[i]].name = names[p[i]]
    BY <1>11, <1>12
  <2>4. QED BY <2>2, <2>3
<1>15. Tables!SameButOrder(a[k].imports, b[k].imports)
  <2> HIDE DEF names, e
  <2>1. p \in [1 .. e -> 1 .. e]
    BY <1>11, <1>12
  <2>2. Tables!SameButOrder(names, [i \in 1 .. e |-> names[p[i]]])
    BY <1>11, <1>12, <2>1, PermutedSame
  <2>3. QED BY <1>10, <1>14, <2>2 DEF names
<1>16. b[k] = [kind |-> a[k].kind, title |-> a[k].title, imports |-> b[k].imports]
  <2>1. Entry(o)' = [kind |-> Entry(o)'.kind, title |-> Entry(o)'.title,
                     imports |-> Entry(o)'.imports]
    BY DEF Entry, EntryIn
  <2>2. Entry(o)'.kind = Entry(o).kind /\ Entry(o)'.title = Entry(o).title
    BY <1>2, <1>13 DEF Entry, EntryIn
  <2>3. QED BY <1>10, <2>1, <2>2
<1>17. Contents = a /\ Contents' = b
  BY ContentsAre, ContentsAreNext
<1> HIDE DEF a, b
<1>18. b = [a EXCEPT ![k] = [kind |-> @.kind, title |-> @.title, imports |-> b[k].imports]]
  BY <1>9, <1>16
<1>19. QED BY <1>2, <1>10, <1>15, <1>17, <1>18 DEF Tables!Arrange, Parsing

LEMMA TablesStart == EntityInit => HandOK /\ Tables!RunInit
BY DEF EntityInit, HandOK, Tables!RunInit, Parsing

(* Every step of the entity is a step of the tables, or leaves them alone.  *)
LEMMA TablesStep ==
  ASSUME EntityInv, TypeOK, TextsOwned, Listing, HandOK, [EntityNext]_entityVars
  PROVE  HandOK' /\ [Tables!RunNext]_(Tables!tableVars)
<1> DEFINE Goal == HandOK' /\ [Tables!RunNext]_(Tables!tableVars)
<1>1. EntityTypeOK /\ InList \subseteq Allocated
  BY DEF EntityInv, InList
<1>2. ASSUME pc \in Parsing, pc' \in Parsing, UNCHANGED squash, HandOK',
             InList' = InList, UNCHANGED <<modules, modules_curr_node>>, Allocated \subseteq Allocated',
             \A o \in InList : /\ object'[o].next = object[o].next /\ object'[o].prev = object[o].prev
                              /\ Entry(o)' = Entry(o)
      PROVE  Goal
  <2>1. PICK s \in Seq(Objects) : IsList(s)
    BY <1>2 DEF Listing
  <2>2. IsList(s)'
    BY <1>1, <1>2, <2>1, ListKept
  <2>3. TableOf(s)' = TableOf(s)
    BY <1>2, <2>1 DEF TableOf, IsList, Entries
  <2>4. UNCHANGED Tables!tableVars
    BY <1>2, <2>1, <2>2, <2>3, TableStays
  <2>5. QED BY <1>2, <2>4
<1>3. ASSUME pc' \notin Parsing \cup {"print"}, UNCHANGED squash PROVE Goal
  <2>1. HandOK'
    BY <1>3 DEF HandOK, Parsing
  <2>2. Tables!Forget
    BY <1>3 DEF Tables!Forget
  <2>3. QED BY <2>1, <2>2 DEF Tables!RunNext
<1>4. ASSUME NEW n \in Nodes, NEW size \in DataSizes, Configure(n, size) PROVE Goal
  BY <1>3, <1>4 DEF Configure, input, Parsing
<1>5. CASE OpenFile
  <2>1. /\ pc = "closed" /\ pc' = "statement" /\ modules' = NULL /\ modules_curr_node' = NULL
        /\ UNCHANGED <<object, squash>>
    BY <1>5 DEF OpenFile, input
  <2>2. Allocated' = {} /\ InList' = {}
    BY <2>1 DEF Listing, Allocated, InList
  <2>3. IsList(<<>>)'
    BY <2>1, <2>2 DEF IsList, IsInjective, Entries, Linked2
  <2>4. Contents' = TableOf(<<>>)'
    BY <2>3, ContentsAreNext
  <2>5. Contents' = <<>>
    BY <2>4 DEF TableOf
  <2>6. Tables!Begin
    BY <2>1, <2>5 DEF Tables!Begin, Parsing
  <2>7. HandOK'
    BY <2>1 DEF HandOK
  <2>8. QED BY <2>6, <2>7 DEF Tables!RunNext
<1>6. ASSUME NEW o \in Objects, NEW n \in Nodes, NEW name \in Names,
             ImportedModule(o, n, name) \/ FromTitle(o, n, name)
      PROVE  Goal
  <2>1. /\ pc = "statement" /\ o \notin Allocated /\ pc' \in {"imports", "names"} /\ UNCHANGED squash
        /\ node' = o /\ is_already_kept' = FALSE /\ UNCHANGED <<modules, modules_curr_node>>
        /\ \/ object' = [object EXCEPT ![o] = NewModule("IMPORT", NULL, <<n>>)]
           \/ object' = [object EXCEPT ![o] = NewModule("FROM", n, <<>>)]
    BY <1>6 DEF ImportedModule, FromTitle, input
  <2>2. /\ NewModule("IMPORT", NULL, <<n>>) \in Module
        /\ NewModule("IMPORT", NULL, <<n>>).kind # "FROM"
    BY DEF NewModule, Module, ModuleLink
  <2>3. NewModule("FROM", n, <<>>) \in Module /\ NewModule("FROM", n, <<>>).title \in Nodes
    BY DEF NewModule, Module, ModuleLink
  <2>4. /\ Allocated' = Allocated \cup {o} /\ InList' = InList
        /\ \A x \in Allocated : object'[x] = object[x]
    BY <2>1, <2>2, <2>3, Made
  <2>5. HandOK' /\ \A s : IsList(s) => TableOf(s)' = TableOf(s)
    BY <1>6, <2>1, HandMade
  <2>6. PICK s \in Seq(Objects) : IsList(s)
    BY <2>1 DEF Listing, Parsing
  <2>7. IsList(s)'
    BY <1>1, <2>1, <2>4, <2>6, ListKept
  <2>8. UNCHANGED Tables!tableVars
    BY <2>1, <2>5, <2>6, <2>7, TableStays DEF Parsing
  <2>9. QED BY <2>5, <2>8
<1>7. ASSUME NEW o \in Objects, NEW name \in Names, KnownTitle(o, name) PROVE Goal
  <2>1. /\ pc = "statement" /\ pc' = "names" /\ is_already_kept' = TRUE /\ node = NULL /\ node' = o
        /\ squash /\ o = FindModule(name) /\ o \in Allocated
        /\ UNCHANGED <<object, modules, modules_curr_node, text, squash>>
    BY <1>7 DEF KnownTitle, EntityInv, Steady, Between, input
  <2>2. Allocated' = Allocated /\ InList' = InList
    BY <2>1 DEF Allocated, InList, InHand
  <2>3. PICK s \in Seq(Objects) : IsList(s)
    BY <2>1 DEF Listing, Parsing
  <2>4. object[o].kind = "FROM"
    BY <2>1, <2>3, FindModuleIs, EntityAssumption DEF Allocated
  <2>5. HandOK'
    BY <2>1, <2>4 DEF HandOK
  <2>6. \A x \in InList : Entry(x)' = Entry(x)
    BY <2>1 DEF Entry
  <2>7. QED BY <1>2, <2>1, <2>2, <2>5, <2>6 DEF Parsing
<1>8. ASSUME NEW n \in Nodes, NEW name \in Names, PushImport(n, name) PROVE Goal
  <2>1. /\ pc \in {"imports", "names"} /\ node \in Allocated
        /\ object' = [object EXCEPT ![node] = WithImports(object[node], Append(object[node].imports, n))]
        /\ UNCHANGED <<modules, modules_curr_node, node, is_already_kept, pc, squash>>
    BY <1>8 DEF PushImport, EntityInv, Steady, input
  <2>2. Append(object[node].imports, n) \in Seq(Nodes)
    BY <1>1, <2>1, AllocatedType, AppendProperties
  <2>3. /\ Allocated' = Allocated /\ InList' = InList
        /\ \A x \in Allocated : /\ object'[x].next = object[x].next
                                /\ object'[x].prev = object[x].prev
    BY <2>1, <2>2, Renamed
  <2>4. HandOK' /\ \A o \in Allocated : o # node => Entry(o)' = Entry(o)
    BY <1>8, HandNamed
  <2>5. CASE is_already_kept
    <3>1. pc = "names"
      BY <2>1, <2>5 DEF HandOK
    <3>2. PICK s \in Seq(Objects) : IsList(s)
      BY <2>1 DEF Listing, Parsing
    <3>3. IsList(s)'
      BY <1>1, <2>1, <2>3, <3>2, ListKept
    <3>4. Tables!AddName
      BY <1>8, <2>5, <3>1, <3>2, <3>3, AddNameStep
    <3>5. QED BY <2>4, <3>4 DEF Tables!RunNext, Tables!Next
  <2>6. CASE ~is_already_kept
    <3>1. node \notin InList
      BY <2>1, <2>6, EntityAssumption DEF InList, InHand, Allocated
    <3>2. \A o \in InList : Entry(o)' = Entry(o)
      BY <1>1, <2>4, <3>1
    <3>3. QED BY <1>1, <1>2, <2>1, <2>3, <2>4, <3>2 DEF Parsing
  <2>7. QED BY <2>5, <2>6
<1>9. CASE AppendModule
  <2>1. pc \in {"imports", "names"} /\ pc' = "statement" /\ node' = NULL /\ UNCHANGED <<text, squash>>
    BY <1>9 DEF AppendModule, input
  <2>2. HandOK'
    BY <2>1 DEF HandOK
  <2>3. CASE is_already_kept
    <3>1. UNCHANGED <<object, modules, modules_curr_node>>
      BY <1>9, <2>3 DEF AppendModule
    <3>2. Allocated' = Allocated /\ InList' = InList
      BY <2>1, <2>3, <3>1 DEF Allocated, InList, InHand
    <3>3. \A x \in InList : Entry(x)' = Entry(x)
      BY <2>1, <3>1 DEF Entry
    <3>4. QED BY <1>2, <2>1, <2>2, <3>1, <3>2, <3>3 DEF Parsing
  <2>4. CASE ~is_already_kept
    <3>1. PICK s \in Seq(Objects) : IsList(s)
      BY <2>1 DEF Listing, Parsing
    <3>2. Tables!Record
      BY <1>9, <2>1, <2>4, <3>1, RecordStep
    <3>3. QED BY <2>2, <3>2 DEF Tables!RunNext, Tables!Next
  <2>5. QED BY <2>3, <2>4
<1>10. CASE Panic \/ EntityDies \/ Finish
  BY <1>3, <1>10 DEF Panic, EntityDies, Finish, input, Parsing
<1>11. CASE EndOfFile
  <2>1. pc = "statement" /\ pc' \in {"print", "release"} /\ UNCHANGED <<list, text, squash>>
    BY <1>11 DEF EndOfFile, input
  <2>2. CASE pc' = "print"
    <3>1. Contents' = Contents
      BY <2>1 DEF Contents, Listed, Reached, LinksForth, Allocated, list, NameOf, NamesOf
    <3>2. Tables!Close
      BY <2>1, <2>2, <3>1 DEF Tables!Close, Parsing
    <3>3. HandOK'
      BY <2>2 DEF HandOK
    <3>4. QED BY <3>2, <3>3 DEF Tables!RunNext, Tables!Next
  <2>3. CASE pc' = "release"
    BY <1>3, <2>1, <2>3 DEF Parsing
  <2>4. QED BY <2>1, <2>2, <2>3
<1>12. CASE PrintModule
  <2>1. /\ pc = "print" /\ pc' = "print" /\ at # NULL
        /\ UNCHANGED <<modules, modules_curr_node, node, is_already_kept>>
    BY <1>12 DEF PrintModule
  <2>2. PICK imports \in Sorted(object[at].imports) :
          object' = [object EXCEPT ![at] = WithImports(object[at], imports)]
    BY <1>12 DEF PrintModule
  <2>3. at \in Allocated
    BY <1>1, <2>1 DEF EntityInv, Ends
  <2>4. imports \in Seq(Nodes)
    BY <1>1, <2>2, <2>3, AllocatedType, SortedType
  <2>5. /\ Allocated' = Allocated /\ InList' = InList
        /\ \A x \in Allocated : /\ object'[x].next = object[x].next
                                /\ object'[x].prev = object[x].prev
    BY <2>1, <2>2, <2>3, <2>4, Renamed
  <2>6. PICK s \in Seq(Objects) : IsList(s)
    BY <2>1 DEF Listing
  <2>7. IsList(s)'
    BY <1>1, <2>1, <2>5, <2>6, ListKept
  <2>8. Tables!Arrange
    BY <1>12, <2>6, <2>7, ArrangeStep
  <2>9. HandOK'
    BY <2>1 DEF HandOK
  <2>10. QED BY <2>8, <2>9 DEF Tables!RunNext
<1>13. CASE EndOfPrint \/ Release \/ EndOfRelease
  BY <1>3, <1>13 DEF EndOfPrint, Release, EndOfRelease, input, Parsing
<1>14. CASE UNCHANGED entityVars
  <2>1. UNCHANGED <<object, modules, node, is_already_kept, text, squash, pc>>
    BY <1>14 DEF entityVars, list, input
  <2>2. UNCHANGED <<Contents, InList>>
    BY <2>1 DEF Contents, Listed, Reached, LinksForth, Allocated, NameOf, NamesOf, InList, InHand
  <2>3. UNCHANGED Tables!tableVars
    BY <2>1, <2>2 DEF Tables!tableVars
  <2>4. \A o : Entry(o)' = Entry(o)
    BY <2>1 DEF Entry
  <2>5. HandOK'
    BY <2>1, <2>2, <2>4 DEF HandOK, NewTitle, NewModules
  <2>6. QED BY <2>3, <2>5
<1>15. QED
  BY <1>4, <1>5, <1>6, <1>7, <1>8, <1>9, <1>10, <1>11, <1>12, <1>13, <1>14
     DEF EntityNext, EntityStopped

(***************************************************************************)
(* Whatever the files hold: each has a table of its own, which grows by    *)
(* entries and names that are new to it only, which printing puts in       *)
(* another order, and which is gone when the next file is opened.          *)
(* (CSortEntity_find_module, _search_for_imports, CSortEntity_do, _deinit) *)
(***************************************************************************)
THEOREM EntityIsTables == EntitySpec => ImplementsTables
<1>1. EntityInit => HandOK /\ Tables!RunInit
  BY TablesStart
<1>2. EntityInv /\ TypeOK /\ TextsOwned /\ Listing /\ HandOK /\ [EntityNext]_entityVars
        => HandOK' /\ [Tables!RunNext]_(Tables!tableVars)
  BY TablesStep
<1>3. QED
  BY <1>1, <1>2, EntityInvariant, ListingInvariant, TextsAreOwned, EntityUsesArena,
     ArenaTypeCorrect, PTL DEF EntitySpec, ImplementsTables, Tables!RunSpec
=============================================================================
