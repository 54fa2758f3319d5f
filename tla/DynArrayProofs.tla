--------------------------- MODULE DynArrayProofs ---------------------------
(***************************************************************************)
(* Proofs about DynArray, for every entry size, growth and word size.      *)
(***************************************************************************)
EXTENDS DynArray, TLAPS

(* Arithmetic                                                               *)
LEMMA Remainder == ASSUME NEW a \in Int, NEW m \in Nat, m > 0 PROVE a % m \in 0 .. (m - 1)
OBVIOUS

LEMMA RemainderSmall == ASSUME NEW a \in Nat, NEW m \in Nat, a < m PROVE a % m = a
OBVIOUS

LEMMA RemainderOver ==
  ASSUME NEW a \in Nat, NEW m \in Nat, m <= a, a < 2 * m
  PROVE  a % m = a - m
OBVIOUS

LEMMA Quotient == ASSUME NEW c \in Nat, c > 0, NEW k \in Nat PROVE (c * k) \div c = k
OBVIOUS

LEMMA QuotientBound ==
  ASSUME NEW c \in Nat, c > 0, NEW r \in Nat
  PROVE  r \div c \in Nat /\ c * (r \div c) <= r
OBVIOUS

LEMMA TimesLess ==
  ASSUME NEW c \in Nat, c > 0, NEW a \in Nat, NEW b \in Nat, a < b
  PROVE  c * a \in Nat /\ c * b \in Nat /\ c * a + c <= c * b
<1>1. PICK d \in Nat : b = a + 1 + d
  <2>1. b - a - 1 \in Nat /\ b = a + 1 + (b - a - 1)
    OBVIOUS
  <2>2. QED BY <2>1
<1>2. c * b = c * a + c + c * d /\ c * d \in Nat
  BY <1>1
<1>3. QED BY <1>2

-----------------------------------------------------------------------------
(***************************************************************************)
(* While the program runs, the block was grown j - 1 times and its size in *)
(* bytes has not wrapped around.                                           *)
(***************************************************************************)
Grown == arrayStatus = "running" =>
           \E j \in Nat : mem_size = Grow * j /\ ChunkSize * mem_size < U32

ArrayInv == ArrayTypeOK /\ BlockAsBelieved /\ OutsideOnlyPastLimit /\ Grown

LEMMA Constants ==
  /\ ChunkSize \in Nat /\ ChunkSize > 0 /\ Grow \in Nat /\ Grow > 0 /\ U32 \in Nat /\ U32 > 0
  /\ ChunkSize * Grow \in Nat /\ ChunkSize * Grow < U32 /\ ChunkSize <= ChunkSize * Grow
<1>1. ChunkSize \in Nat /\ ChunkSize > 0 /\ Grow \in Nat /\ Grow > 0 /\ U32 \in Nat
  BY DynArrayAssumption
<1>2. ChunkSize * 0 + ChunkSize <= ChunkSize * Grow /\ ChunkSize * Grow \in Nat
  BY <1>1, TimesLess
<1>3. ChunkSize * 0 = 0
  BY <1>1
<1>4. ChunkSize * Grow < U32
  BY DynArrayAssumption
<1>5. QED BY <1>1, <1>2, <1>3, <1>4

(* An entry that fits is written in its place.                              *)
LEMMA StoreFits ==
  ASSUME NEW v \in Values, NEW block \in Seq(Values \cup {Junk}), ArrayTypeOK,
         len < Len(block), ChunkSize * Len(block) < U32, Store(v, block)
  PROVE  /\ cells' \in Seq(Values \cup {Junk}) /\ Len(cells') = Len(block)
         /\ cells'[len + 1] = v
         /\ \A i \in 1 .. len : cells'[i] = block[i]
         /\ arrayStatus' = arrayStatus /\ len' = len + 1 /\ mem_free' \in 0 .. (U32 - 1)
<1>1. len \in Nat /\ Len(block) \in Nat /\ mem_free - 1 \in Int
  BY DEF ArrayTypeOK
<1>2. /\ ChunkSize * len \in Nat /\ ChunkSize * len + ChunkSize <= ChunkSize * Len(block)
      /\ ChunkSize * Len(block) \in Nat
  BY <1>1, Constants, TimesLess
<1>3. ChunkSize * len < U32
  BY <1>2, Constants
<1>4. Wrapped(ChunkSize * len) = ChunkSize * len
  BY <1>2, <1>3, Constants, RemainderSmall DEF Wrapped
<1>5. (ChunkSize * len) \div ChunkSize = len
  BY <1>1, Constants, Quotient
<1>6. cells' = [block EXCEPT ![len + 1] = v] /\ arrayStatus' = arrayStatus
  BY <1>2, <1>4, <1>5 DEF Store
<1>7. len' = len + 1 /\ mem_free' = Wrapped(mem_free - 1)
  BY DEF Store
<1>8. mem_free' \in 0 .. (U32 - 1)
  BY <1>1, <1>7, Constants, Remainder DEF Wrapped
<1>9. len + 1 \in 1 .. Len(block)
  BY <1>1
<1>10. QED BY <1>1, <1>6, <1>7, <1>8, <1>9

(* What a push that grows the array does: either the bytes of the new size  *)
(* do not wrap around, and the block has that size; or they do, past the    *)
(* limit, and the write leaves the block.                                   *)
LEMMA PushGrowsCases ==
  ASSUME ArrayInv, NEW v \in Values, PushGrows(v)
  PROVE  /\ arrayStatus = "running" /\ len = mem_size /\ mem_size' = mem_size + Grow
         /\ \E j \in Nat : mem_size' = Grow * j
         /\ \/ /\ ChunkSize * mem_size' < U32
               /\ ResizedEntries(mem_size') \in Seq(Values \cup {Junk})
               /\ Len(ResizedEntries(mem_size')) = mem_size'
               /\ \A i \in 1 .. mem_size : ResizedEntries(mem_size')[i] = cells[i]
            \/ /\ ChunkSize * mem_size' > U32
               /\ \A k \in 1 .. U32 : ChunkSize * Grow * k # U32
               /\ cells' \in Seq(Values \cup {Junk})
               /\ arrayStatus' = "undefined" /\ len' = len + 1 /\ mem_free' \in 0 .. (U32 - 1)
<1>1. /\ arrayStatus = "running" /\ len \in Nat /\ mem_size \in Nat /\ len = mem_size
      /\ Len(cells) = mem_size /\ cells \in Seq(Values \cup {Junk}) /\ mem_free - 1 \in Int
      /\ mem_size' = mem_size + Grow /\ Bytes(mem_size') > 0 /\ Store(v, ResizedEntries(mem_size'))
  BY DEF PushGrows, ArrayInv, ArrayTypeOK, BlockAsBelieved
<1>2. PICK j \in Nat : mem_size = Grow * j /\ ChunkSize * mem_size < U32
  BY <1>1 DEF ArrayInv, Grown
<1>3. mem_size' = Grow * (j + 1) /\ j + 1 \in Nat
  BY <1>1, <1>2, Constants
<1>4. /\ ChunkSize * mem_size \in Nat /\ ChunkSize * mem_size' \in Nat
      /\ ChunkSize * mem_size' = ChunkSize * mem_size + ChunkSize * Grow
  BY <1>1, Constants
<1> DEFINE block == ResizedEntries(mem_size')
           n     == Bytes(mem_size') \div ChunkSize
<1>5. Bytes(mem_size') \in Nat
  BY <1>4, Constants, Remainder DEF Bytes, Wrapped
<1>6. n \in Nat /\ ChunkSize * n <= Bytes(mem_size')
  BY <1>5, Constants, QuotientBound
<1>7. block \in Seq(Values \cup {Junk}) /\ Len(block) = n
  <2>1. block = [i \in 1 .. n |-> IF i \in DOMAIN cells THEN cells[i] ELSE Junk]
    BY DEF ResizedEntries
  <2>2. \A i \in DOMAIN cells : cells[i] \in Values \cup {Junk}
    BY <1>1
  <2> HIDE DEF block, n
  <2>3. QED BY <1>6, <2>1, <2>2
<1>8. CASE ChunkSize * mem_size' < U32
  <2>1. Bytes(mem_size') = ChunkSize * mem_size'
    BY <1>4, <1>8, Constants, RemainderSmall DEF Bytes, Wrapped
  <2>2. n = mem_size'
    BY <1>1, <2>1, Constants, Quotient
  <2>3. \A i \in 1 .. mem_size : i \in 1 .. n /\ i \in DOMAIN cells
    BY <1>1, <2>2, Constants
  <2>4. \A i \in 1 .. mem_size : block[i] = cells[i]
    BY <2>3 DEF ResizedEntries
  <2>5. QED BY <1>1, <1>3, <1>7, <1>8, <2>2, <2>4
<1>9. CASE ~(ChunkSize * mem_size' < U32)
  <2>1. ChunkSize * mem_size' < 2 * U32 /\ U32 <= ChunkSize * mem_size'
    BY <1>2, <1>4, <1>9, Constants
  <2>2. Bytes(mem_size') = ChunkSize * mem_size' - U32
    BY <1>4, <2>1, Constants, RemainderOver DEF Bytes, Wrapped
  <2>3. ChunkSize * mem_size' > U32
    BY <1>1, <1>4, <2>2, Constants
  <2>4. \A k \in 1 .. U32 : ChunkSize * Grow * k # U32
    <3> SUFFICES ASSUME NEW k \in 1 .. U32, ChunkSize * Grow * k = U32 PROVE FALSE
      OBVIOUS
    <3> DEFINE g == ChunkSize * Grow
    <3>1. g \in Nat /\ g > 0
      BY Constants
    <3>2. ChunkSize * mem_size = g * j /\ ChunkSize * mem_size' = g * (j + 1)
      BY <1>2, <1>3, Constants
    <3> HIDE DEF g
    <3>3. g * k = U32 /\ k \in Nat /\ g * j < U32
      BY <1>2, <3>2 DEF g
    <3>4. j < k
      <4>1. k < j => g * k + g <= g * j
        BY <3>1, <3>3, TimesLess
      <4>2. g * j \in Nat /\ g * k \in Nat
        BY <3>1, <3>3
      <4>3. QED BY <3>1, <3>3, <4>1, <4>2
    <3>5. g * j + g <= g * k /\ g * (j + 1) = g * j + g
      BY <3>1, <3>3, <3>4, TimesLess
    <3>6. QED BY <2>3, <3>1, <3>2, <3>3, <3>5, Constants
  <2>5. ~(Wrapped(ChunkSize * len) + ChunkSize <= ChunkSize * Len(block))
    <3>1. Wrapped(ChunkSize * len) = ChunkSize * mem_size
      BY <1>1, <1>2, <1>4, Constants, RemainderSmall DEF Wrapped
    <3>2. ChunkSize * Len(block) <= Bytes(mem_size')
      BY <1>6, <1>7
    <3>3. Bytes(mem_size') = ChunkSize * mem_size + ChunkSize * Grow - U32
      BY <1>4, <2>2, Constants
    <3>4. ChunkSize * Grow < U32 /\ ChunkSize * Grow \in Nat
      BY Constants
    <3> HIDE DEF block
    <3>5. Len(block) \in Nat /\ ChunkSize * Len(block) \in Nat
      BY <1>6, <1>7, Constants
    <3>6. QED BY <1>4, <3>1, <3>2, <3>3, <3>4, <3>5, Constants
  <2>6. cells' = block /\ arrayStatus' = "undefined" /\ len' = len + 1
        /\ mem_free' = Wrapped(mem_free - 1)
    BY <1>1, <2>5 DEF Store
  <2>7. mem_free' \in 0 .. (U32 - 1)
    BY <1>1, <2>6, Constants, Remainder DEF Wrapped
  <2>8. QED BY <1>1, <1>3, <1>7, <2>3, <2>4, <2>6, <2>7
<1>10. QED BY <1>8, <1>9

-----------------------------------------------------------------------------
(* One lemma for each action.                                               *)
LEMMA FitsStep == ASSUME ArrayInv, NEW v \in Values, PushFits(v) PROVE ArrayInv'
<1>1. /\ arrayStatus = "running" /\ len < mem_size /\ Store(v, cells) /\ mem_size' = mem_size
      /\ len \in Nat /\ mem_size \in Nat /\ Len(cells) = mem_size
      /\ cells \in Seq(Values \cup {Junk})
  BY DEF PushFits, ArrayInv, ArrayTypeOK, BlockAsBelieved
<1>2. PICK j \in Nat : mem_size = Grow * j /\ ChunkSize * mem_size < U32
  BY <1>1 DEF ArrayInv, Grown
<1>3. /\ cells' \in Seq(Values \cup {Junk}) /\ Len(cells') = mem_size
      /\ cells'[len + 1] = v /\ \A i \in 1 .. len : cells'[i] = cells[i]
      /\ arrayStatus' = "running" /\ len' = len + 1 /\ mem_free' \in 0 .. (U32 - 1)
  BY <1>1, <1>2, StoreFits DEF ArrayInv
<1>4. ArrayTypeOK'
  BY <1>1, <1>3 DEF ArrayTypeOK
<1>5. \A i \in 0 .. (len' - 1) : cells'[i + 1] \in Values
  <2> SUFFICES ASSUME NEW i \in 0 .. (len' - 1) PROVE cells'[i + 1] \in Values
    OBVIOUS
  <2>1. CASE i = len
    BY <1>3, <2>1
  <2>2. CASE i # len
    <3>1. i \in 0 .. (len - 1) /\ i + 1 \in 1 .. len
      BY <1>1, <1>3, <2>2
    <3>2. cells[i + 1] \in Values
      BY <1>1, <3>1 DEF ArrayInv, BlockAsBelieved, Get
    <3>3. QED BY <1>3, <3>1, <3>2
  <2>3. QED BY <2>1, <2>2
<1>6. BlockAsBelieved'
  BY <1>1, <1>3, <1>5 DEF BlockAsBelieved, Get
<1>7. OutsideOnlyPastLimit' /\ Grown'
  BY <1>1, <1>2, <1>3 DEF OutsideOnlyPastLimit, Grown
<1>8. QED BY <1>4, <1>6, <1>7 DEF ArrayInv

LEMMA GrowsStep == ASSUME ArrayInv, NEW v \in Values, PushGrows(v) PROVE ArrayInv'
<1>1. /\ arrayStatus = "running" /\ len = mem_size /\ mem_size' = mem_size + Grow
      /\ len \in Nat /\ mem_size \in Nat /\ mem_size' \in Nat /\ ArrayTypeOK
      /\ Store(v, ResizedEntries(mem_size'))
  BY PushGrowsCases, Constants DEF ArrayInv, ArrayTypeOK, PushGrows
<1>2. PICK j \in Nat : mem_size' = Grow * j
  BY PushGrowsCases
<1>3. CASE /\ ChunkSize * mem_size' < U32
           /\ ResizedEntries(mem_size') \in Seq(Values \cup {Junk})
           /\ Len(ResizedEntries(mem_size')) = mem_size'
           /\ \A i \in 1 .. mem_size : ResizedEntries(mem_size')[i] = cells[i]
  <2>1. len < Len(ResizedEntries(mem_size')) /\ ChunkSize * Len(ResizedEntries(mem_size')) < U32
    BY <1>1, <1>3, Constants
  <2>2. /\ cells' \in Seq(Values \cup {Junk}) /\ Len(cells') = mem_size'
        /\ cells'[len + 1] = v /\ \A i \in 1 .. len : cells'[i] = cells[i]
        /\ arrayStatus' = "running" /\ len' = len + 1 /\ mem_free' \in 0 .. (U32 - 1)
    BY <1>1, <1>3, <2>1, StoreFits
  <2>3. ArrayTypeOK'
    BY <1>1, <2>2 DEF ArrayTypeOK
  <2>4. \A i \in 0 .. (len' - 1) : cells'[i + 1] \in Values
    <3> SUFFICES ASSUME NEW i \in 0 .. (len' - 1) PROVE cells'[i + 1] \in Values
      OBVIOUS
    <3>1. CASE i = len
      BY <2>2, <3>1
    <3>2. CASE i # len
      <4>1. i \in 0 .. (len - 1) /\ i + 1 \in 1 .. len
        BY <1>1, <2>2, <3>2
      <4>2. cells[i + 1] \in Values
        BY <1>1, <4>1 DEF ArrayInv, BlockAsBelieved, Get
      <4>3. QED BY <2>2, <4>1, <4>2
    <3>3. QED BY <3>1, <3>2
  <2>5. len' <= mem_size'
    BY <1>1, <2>2, Constants
  <2>6. BlockAsBelieved'
    BY <2>2, <2>4, <2>5 DEF BlockAsBelieved, Get
  <2>7. OutsideOnlyPastLimit' /\ Grown'
    BY <1>2, <1>3, <2>2 DEF OutsideOnlyPastLimit, Grown
  <2>8. QED BY <2>3, <2>6, <2>7 DEF ArrayInv
<1>4. CASE /\ ChunkSize * mem_size' > U32
           /\ \A k \in 1 .. U32 : ChunkSize * Grow * k # U32
           /\ cells' \in Seq(Values \cup {Junk})
           /\ arrayStatus' = "undefined" /\ len' = len + 1 /\ mem_free' \in 0 .. (U32 - 1)
  BY <1>1, <1>4 DEF ArrayInv, ArrayTypeOK, BlockAsBelieved, OutsideOnlyPastLimit, Grown
<1>5. QED BY <1>3, <1>4, PushGrowsCases

LEMMA ArrayStep == ASSUME ArrayInv, [ArrayNext]_arrayVars PROVE ArrayInv'
<1>1. ASSUME NEW v \in Values, PushFits(v) PROVE ArrayInv'
  BY <1>1, FitsStep
<1>2. ASSUME NEW v \in Values, PushGrows(v) PROVE ArrayInv'
  BY <1>2, GrowsStep
<1>3. CASE PushDies
  BY <1>3, Constants
     DEF PushDies, ArrayInv, ArrayTypeOK, BlockAsBelieved, OutsideOnlyPastLimit, Grown
<1>4. CASE Pop
  <2>1. ArrayTypeOK' /\ OutsideOnlyPastLimit' /\ Grown'
    BY <1>4 DEF Pop, ArrayInv, ArrayTypeOK, OutsideOnlyPastLimit, Grown
  <2>2. BlockAsBelieved'
    BY <1>4 DEF Pop, ArrayInv, ArrayTypeOK, BlockAsBelieved, Get
  <2>3. QED BY <2>1, <2>2 DEF ArrayInv
<1>5. CASE UNCHANGED arrayVars
  BY <1>5 DEF arrayVars, ArrayInv, ArrayTypeOK, BlockAsBelieved, OutsideOnlyPastLimit, Grown, Get
<1>6. QED BY <1>1, <1>2, <1>3, <1>4, <1>5 DEF ArrayNext, ArrayStopped

LEMMA ArrayStart == ASSUME ArrayInit PROVE ArrayInv
<1>1. cells = [i \in 1 .. Grow |-> Junk] /\ mem_size = Grow /\ len = 0 /\ mem_free = Grow
      /\ arrayStatus = "running"
  BY DEF ArrayInit
<1>2. cells \in Seq(Values \cup {Junk}) /\ Len(cells) = Grow
  BY <1>1, Constants
<1>3. Grow < U32
  <2>1. Grow <= ChunkSize * Grow
    BY Constants, TimesLess
  <2>2. QED BY <2>1, Constants
<1>4. Grow = Grow * 1
  BY Constants
<1>5. QED BY <1>1, <1>2, <1>3, <1>4, Constants
          DEF ArrayInv, ArrayTypeOK, BlockAsBelieved, OutsideOnlyPastLimit, Grown

(* The invariant holds of every array.                                      *)
THEOREM ArrayInvariant == ArraySpec => []ArrayInv
<1>1. ArrayInit => ArrayInv
  BY ArrayStart
<1>2. ArrayInv /\ [ArrayNext]_arrayVars => ArrayInv'
  BY ArrayStep
<1>3. QED BY <1>1, <1>2, PTL DEF ArraySpec

(* Every variable keeps its type (core.c:374-416).                          *)
THEOREM ArrayTypeCorrect == ArraySpec => []ArrayTypeOK
<1>1. ArrayInv => ArrayTypeOK
  BY DEF ArrayInv
<1>2. QED BY <1>1, ArrayInvariant, PTL

(* While the program runs the block is as large as the array believes, and  *)
(* every entry below len was pushed (DynArray_get).                         *)
THEOREM BlockBelieved == ArraySpec => []BlockAsBelieved
<1>1. ArrayInv => BlockAsBelieved
  BY DEF ArrayInv
<1>2. QED BY <1>1, ArrayInvariant, PTL

(* A push writes outside the block only after the 32-bit size in bytes      *)
(* passed its limit without meeting it (DynArray_push).                     *)
THEOREM OnlyPastLimit == ArraySpec => []OutsideOnlyPastLimit
<1>1. ArrayInv => OutsideOnlyPastLimit
  BY DEF ArrayInv
<1>2. QED BY <1>1, ArrayInvariant, PTL

-----------------------------------------------------------------------------
(* Refinement.                                                              *)
Listed == IF arrayStatus = "running" THEN [i \in 1 .. len |-> Get(i - 1)] ELSE <<>>

(* The abstract contents of a running array are its entries below len.      *)
LEMMA ListedIs ==
  ASSUME ArrayInv, arrayStatus = "running"
  PROVE  /\ len \in Nat /\ len <= Len(cells) /\ cells \in Seq(Values \cup {Junk})
         /\ Listed = [i \in 1 .. len |-> cells[i]]
         /\ Len(Listed) = len
         /\ Listed \in Seq(Values \cup {Junk})
<1>1. len \in Nat /\ len <= Len(cells) /\ cells \in Seq(Values \cup {Junk})
  BY DEF ArrayInv, ArrayTypeOK, BlockAsBelieved
<1>2. \A i \in 1 .. len : Get(i - 1) = cells[i]
  BY <1>1 DEF Get
<1>3. Listed = [i \in 1 .. len |-> cells[i]]
  BY <1>2 DEF Listed
<1>4. \A i \in 1 .. len : cells[i] \in Values \cup {Junk}
  BY <1>1
<1>5. Listed \in Seq(Values \cup {Junk}) /\ Len(Listed) = len
  BY <1>1, <1>3, <1>4
<1>6. QED BY <1>1, <1>3, <1>5

(* After a write in place, one entry more is listed.                        *)
LEMMA ListedGrows ==
  ASSUME ArrayInv, ArrayInv', arrayStatus = "running", arrayStatus' = "running", len' = len + 1,
         NEW v \in Values, cells'[len + 1] = v, \A i \in 1 .. len : cells'[i] = cells[i]
  PROVE  Listed' = Append(Listed, v)
<1>1. /\ len \in Nat /\ Listed = [i \in 1 .. len |-> cells[i]] /\ Len(Listed) = len
      /\ Listed \in Seq(Values \cup {Junk})
  BY ListedIs
<1>2. Listed' = [i \in 1 .. (len + 1) |-> cells'[i]]
  <2>1. len' <= Len(cells') /\ cells' \in Seq(Values \cup {Junk})
    BY DEF ArrayInv, ArrayTypeOK, BlockAsBelieved
  <2>2. \A i \in 1 .. (len + 1) : Get(i - 1)' = cells'[i]
    BY <1>1 DEF Get
  <2>3. QED BY <2>2 DEF Listed
<1>3. Listed' \in Seq(Values \cup {Junk}) /\ Len(Listed') = len + 1
  BY <1>1, <1>2
<1>4. Append(Listed, v) \in Seq(Values \cup {Junk}) /\ Len(Append(Listed, v)) = len + 1
  BY <1>1
<1>5. \A i \in 1 .. (len + 1) : Listed'[i] = Append(Listed, v)[i]
  BY <1>1, <1>2
<1>6. QED BY <1>3, <1>4, <1>5

LEMMA StackStep ==
  ASSUME ArrayInv, ArrayInv', [ArrayNext]_arrayVars
  PROVE  [AsStack!Next]_(AsStack!stackVars)
<1>1. ASSUME NEW v \in Values, PushFits(v) PROVE AsStack!Push(v)
  <2>1. /\ arrayStatus = "running" /\ Store(v, cells) /\ len < Len(cells)
        /\ cells \in Seq(Values \cup {Junk}) /\ ArrayTypeOK /\ ChunkSize * Len(cells) < U32
    BY <1>1 DEF PushFits, ArrayInv, ArrayTypeOK, BlockAsBelieved, Grown
  <2>2. /\ arrayStatus' = "running" /\ len' = len + 1 /\ cells'[len + 1] = v
        /\ \A i \in 1 .. len : cells'[i] = cells[i]
    BY <2>1, StoreFits
  <2>3. Listed' = Append(Listed, v)
    BY <2>1, <2>2, ListedGrows
  <2>4. QED BY <2>1, <2>2, <2>3 DEF AsStack!Push, Listed
<1>2. ASSUME NEW v \in Values, PushGrows(v) PROVE AsStack!Push(v) \/ AsStack!Lost
  <2>1. arrayStatus = "running" /\ len = mem_size /\ mem_size' = mem_size + Grow
        /\ len \in Nat /\ mem_size \in Nat /\ ArrayTypeOK /\ Store(v, ResizedEntries(mem_size'))
    BY <1>2, PushGrowsCases DEF ArrayInv, ArrayTypeOK, PushGrows
  <2>2. CASE /\ ChunkSize * mem_size' < U32
             /\ ResizedEntries(mem_size') \in Seq(Values \cup {Junk})
             /\ Len(ResizedEntries(mem_size')) = mem_size'
             /\ \A i \in 1 .. mem_size : ResizedEntries(mem_size')[i] = cells[i]
    <3>1. len < Len(ResizedEntries(mem_size')) /\ ChunkSize * Len(ResizedEntries(mem_size')) < U32
      BY <2>1, <2>2, Constants
    <3>2. /\ arrayStatus' = "running" /\ len' = len + 1 /\ cells'[len + 1] = v
          /\ \A i \in 1 .. len : cells'[i] = cells[i]
      BY <2>1, <2>2, <3>1, StoreFits
    <3>3. Listed' = Append(Listed, v)
      BY <2>1, <3>2, ListedGrows
    <3>4. QED BY <2>1, <3>2, <3>3 DEF AsStack!Push, Listed
  <2>3. CASE arrayStatus' = "undefined"
    <3>1. AsStack!Lost
      BY <2>1, <2>3 DEF AsStack!Lost
    <3>2. QED BY <3>1
  <2>4. QED BY <1>2, <2>2, <2>3, PushGrowsCases
<1>3. ASSUME PushDies PROVE AsStack!Lost
  <2>1. arrayStatus = "running" /\ arrayStatus' = "died"
    BY <1>3 DEF PushDies
  <2>2. QED BY <2>1 DEF AsStack!Lost
<1>4. ASSUME Pop PROVE AsStack!Pop
  <2>1. arrayStatus = "running" /\ len > 0 /\ len' = len - 1 /\ cells' = cells /\ arrayStatus' = arrayStatus
    BY <1>4 DEF Pop
  <2>2. /\ len \in Nat /\ Listed = [i \in 1 .. len |-> cells[i]] /\ Len(Listed) = len
        /\ Listed \in Seq(Values \cup {Junk})
    BY <2>1, ListedIs
  <2>3. Listed' = [i \in 1 .. (len - 1) |-> cells[i]]
    <3>1. \A i \in 1 .. (len - 1) : Get(i - 1)' = cells[i]
      BY <2>1, <2>2 DEF Get
    <3>2. QED BY <2>1, <3>1 DEF Listed
  <2>4. Listed # <<>> /\ SubSeq(Listed, 1, len - 1) = [i \in 1 .. (len - 1) |-> cells[i]]
    BY <2>1, <2>2
  <2>5. QED BY <2>1, <2>2, <2>3, <2>4 DEF AsStack!Pop, Listed
<1>5. CASE UNCHANGED arrayVars
  BY <1>5 DEF arrayVars, AsStack!stackVars, Get
<1>6. QED BY <1>1, <1>2, <1>3, <1>4, <1>5 DEF ArrayNext, ArrayStopped, AsStack!Next

(* The array implements the stack its users see (DynArray_mk, _push, _pop,  *)
(* _get).                                                                   *)
THEOREM ArrayImplementsStack == ArraySpec => ImplementsStack
<1>1. ArrayInit => AsStack!Init
  <2>1. SUFFICES ASSUME ArrayInit PROVE AsStack!Init
    OBVIOUS
  <2>2. arrayStatus = "running" /\ len = 0
    BY <2>1 DEF ArrayInit
  <2>3. [i \in 1 .. len |-> Get(i - 1)] = <<>>
    BY <2>2
  <2>4. QED BY <2>2, <2>3 DEF AsStack!Init
<1>2. ArrayInv /\ ArrayInv' /\ [ArrayNext]_arrayVars => [AsStack!Next]_(AsStack!stackVars)
  BY StackStep
<1>3. QED BY <1>1, <1>2, ArrayInvariant, PTL DEF ArraySpec, ImplementsStack, AsStack!Spec
=============================================================================
