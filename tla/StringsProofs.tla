--------------------------- MODULE StringsProofs ----------------------------
(***************************************************************************)
(* Proofs about Strings, for every word size, every room to spare, and     *)
(* every text.                                                             *)
(***************************************************************************)
EXTENDS Strings, TLAPS

(* Arithmetic                                                               *)
LEMMA Remainder ==
  ASSUME NEW n \in Int, NEW m \in Nat, m > 0
  PROVE  n % m \in 0 .. (m - 1) /\ (n >= 0 => n % m <= n) /\ (n >= m => n % m <= n - m)
<1>1. n % m \in 0 .. (m - 1) /\ (n >= 0 => n % m <= n)
  OBVIOUS
<1>2. PICK q \in Int : n = m * q + (n % m)
  OBVIOUS
<1>3. ASSUME n >= m PROVE n % m <= n - m
  <2>1. q > 0
    <3>1. ASSUME q <= 0 PROVE FALSE
      <4>1. m * q <= 0
        BY <3>1
      <4>2. QED BY <1>1, <1>2, <1>3, <4>1
    <3>2. QED BY <3>1
  <2>2. m * q >= m
    <3>1. m * q = m * (q - 1) + m /\ m * (q - 1) >= 0
      BY <2>1
    <3>2. QED BY <3>1
  <2>3. QED BY <1>1, <1>2, <2>2
<1>4. QED BY <1>1, <1>3

LEMMA RemainderSmall == ASSUME NEW n \in Nat, NEW m \in Nat, n < m PROVE n % m = n
OBVIOUS

LEMMA Constants ==
  /\ Spare \in Nat /\ Spare > 0 /\ Extra \in Nat /\ U32 \in Nat /\ U32 > 0
  /\ Spare <= Extra /\ Extra < U32
BY StringsAssumption

LEMMA WrappedWord ==
  ASSUME NEW n \in Int
  PROVE  /\ Wrapped(n) \in Words
         /\ n >= 0 => Wrapped(n) <= n
         /\ n >= U32 => Wrapped(n) <= n - U32
         /\ n \in Words => Wrapped(n) = n
BY Constants, Remainder, RemainderSmall DEF Wrapped, Words

LEMMA WrappedExact == ASSUME NEW n \in Nat, n < U32 PROVE Wrapped(n) = n
BY Constants, RemainderSmall DEF Wrapped

LEMMA TextType ==
  ASSUME NEW t \in Texts
  PROVE  /\ t \in Seq(Chars) /\ Len(t) \in Nat /\ Len(t) < U32
         /\ \A i \in 1 .. Len(t) : t[i] \in Chars
<1>1. t \in Seq(Chars) /\ Len(t) < U32
  BY StringsAssumption
<1>2. QED BY <1>1

LEMMA Different == Nul \notin Chars /\ Junk \notin Chars /\ Nul # Junk
BY StringsAssumption

-----------------------------------------------------------------------------
(* Blocks                                                                   *)
Block == Seq(Chars \cup {Nul, Junk})

LEMMA SameSequence ==
  ASSUME NEW S, NEW s \in Seq(S), NEW t \in Seq(S), Len(s) = Len(t),
         \A i \in 1 .. Len(s) : s[i] = t[i]
  PROVE  s = t
OBVIOUS

LEMMA Prefix ==
  ASSUME NEW S, NEW s \in Seq(S), NEW n \in Nat, n <= Len(s)
  PROVE  /\ SubSeq(s, 1, n) \in Seq(S) /\ Len(SubSeq(s, 1, n)) = n
         /\ \A i \in 1 .. n : SubSeq(s, 1, n)[i] = s[i]
OBVIOUS

LEMMA FreshType ==
  ASSUME NEW n \in Nat PROVE FreshText(n) \in Block /\ Len(FreshText(n)) = n
BY DEF FreshText, Block

LEMMA ResizedType ==
  ASSUME NEW n \in Nat, data \in Block
  PROVE  /\ ResizedText(n) \in Block /\ Len(ResizedText(n)) = n
         /\ \A i \in 1 .. n : i <= Len(data) => ResizedText(n)[i] = data[i]
BY DEF ResizedText, Block

(* What is written behind the first "at" characters of a block that has     *)
(* room for it.                                                             *)
LEMMA WrittenType ==
  ASSUME NEW t \in Texts, NEW block \in Block, NEW at \in Nat, at + Len(t) < Len(block)
  PROVE  /\ Written(block, at, t) \in Block
         /\ Len(Written(block, at, t)) = Len(block)
         /\ \A i \in 1 .. at : Written(block, at, t)[i] = block[i]
         /\ \A i \in 1 .. Len(t) : Written(block, at, t)[at + i] = t[i]
         /\ Written(block, at, t)[at + Len(t) + 1] = Nul
<1>1. /\ Len(t) \in Nat /\ \A i \in 1 .. Len(t) : t[i] \in Chars
      /\ Len(block) \in Nat /\ \A i \in 1 .. Len(block) : block[i] \in Chars \cup {Nul, Junk}
  BY TextType DEF Block
<1> DEFINE cell(i) == IF i \in (at + 1) .. (at + Len(t)) THEN t[i - at]
                      ELSE IF i = at + Len(t) + 1 THEN Nul ELSE block[i]
<1>2. Written(block, at, t) = [i \in 1 .. Len(block) |-> cell(i)]
  BY DEF Written
<1>3. \A i \in 1 .. Len(block) : cell(i) \in Chars \cup {Nul, Junk}
  <2> TAKE i \in 1 .. Len(block)
  <2>1. CASE i \in (at + 1) .. (at + Len(t))
    <3>1. i - at \in 1 .. Len(t)
      BY <1>1, <2>1
    <3>2. QED BY <1>1, <2>1, <3>1
  <2>2. CASE i \notin (at + 1) .. (at + Len(t))
    BY <1>1, <2>2
  <2>3. QED BY <2>1, <2>2
<1>4. Written(block, at, t) \in Block /\ Len(Written(block, at, t)) = Len(block)
  <2> HIDE DEF cell
  <2>1. [i \in 1 .. Len(block) |-> cell(i)] \in Seq(Chars \cup {Nul, Junk})
    BY <1>1, <1>3
  <2>2. Len([i \in 1 .. Len(block) |-> cell(i)]) = Len(block)
    BY <1>1
  <2>3. QED BY <1>2, <2>1, <2>2 DEF Block
<1>5. \A i \in 1 .. at : Written(block, at, t)[i] = block[i]
  <2> TAKE i \in 1 .. at
  <2>1. i \in 1 .. Len(block) /\ cell(i) = block[i]
    BY <1>1
  <2>2. QED BY <1>2, <2>1
<1>6. \A i \in 1 .. Len(t) : Written(block, at, t)[at + i] = t[i]
  <2> TAKE i \in 1 .. Len(t)
  <2>1. at + i \in 1 .. Len(block) /\ at + i \in (at + 1) .. (at + Len(t)) /\ at + i - at = i
    BY <1>1
  <2>2. cell(at + i) = t[i]
    BY <2>1
  <2>3. QED BY <1>2, <2>1, <2>2
<1>7. Written(block, at, t)[at + Len(t) + 1] = Nul
  <2>1. at + Len(t) + 1 \in 1 .. Len(block) /\ cell(at + Len(t) + 1) = Nul
    BY <1>1
  <2>2. QED BY <1>2, <2>1
<1>8. QED BY <1>4, <1>5, <1>6, <1>7

-----------------------------------------------------------------------------
(* Putting a text                                                           *)

StringsInv == StringTypeOK /\ SizesAccounted /\ ReadsTheSame /\ InProportion

(* A string that is open: what its sizes are as numbers.                    *)
LEMMA OpenSizes ==
  ASSUME StringsInv, stringStatus = "open"
  PROVE  /\ data \in Block /\ length \in Nat /\ memory_size \in Nat /\ memory_left \in Nat
         /\ Len(data) = memory_size /\ memory_size < U32 /\ length <= memory_size
         /\ memory_size <= 2 * length + Extra + 1
         /\ \/ memory_left = memory_size - length - 1 /\ IsCStr(View)
            \/ memory_left = memory_size /\ length = 0 /\ memory_size < Spare
<1>1. /\ data \in Block /\ length \in Words /\ memory_size \in Words
      /\ memory_left \in Words /\ memory_filled \in Words
  BY DEF StringsInv, StringTypeOK, Block
<1>2. /\ Len(data) = memory_size /\ memory_filled + memory_left = memory_size
      /\ memory_filled > 0 => memory_filled = length + 1 /\ IsCStr(View)
      /\ memory_filled = 0 => length = 0 /\ memory_size < Spare
      /\ memory_size <= 2 * length + Extra + 1
  BY DEF StringsInv, SizesAccounted, ReadsTheSame, InProportion
<1>3. QED BY <1>1, <1>2, Constants DEF Words

(* The four sizes are words whatever is put.                                *)
LEMMA PutType ==
  ASSUME NEW t \in Texts, NEW from \in Nat, NEW block \in Block, NEW size \in Words,
         Put(t, from, block, size)
  PROVE  StringTypeOK'
<1>1. from + Len(t) \in Nat
  BY TextType
<1>2. length' \in Words
  BY <1>1, WrappedWord DEF Put
<1>3. memory_filled' \in Words
  <2>1. length' + 1 \in Int
    BY <1>2 DEF Words
  <2>2. QED BY <2>1, WrappedWord DEF Put
<1>4. memory_left' \in Words
  <2>1. size - memory_filled' \in Int
    BY <1>3 DEF Words
  <2>2. QED BY <2>1, WrappedWord DEF Put
<1>5. memory_size' \in Words
  BY DEF Put
<1>6. data' \in Block /\ stringStatus' \in {"open", "undefined"}
  <2>1. CASE from + Len(t) < Len(block)
    BY <2>1, WrittenType DEF Put
  <2>2. CASE ~(from + Len(t) < Len(block))
    BY <2>2 DEF Put
  <2>3. QED BY <2>1, <2>2
<1>7. QED BY <1>2, <1>3, <1>4, <1>5, <1>6 DEF StringTypeOK, Block

(* A text that fits is put: the sizes are exact, and the string reads as    *)
(* what it was, followed by the text.                                       *)
LEMMA PutFits ==
  ASSUME NEW t \in Texts, NEW from \in Nat, NEW block \in Block, NEW size \in Words,
         Len(block) = size, from + Len(t) < size, size <= 2 * (from + Len(t)) + Extra + 1,
         \A i \in 1 .. from : block[i] # Nul,
         Put(t, from, block, size)
  PROVE  /\ StringsInv' /\ stringStatus' = "open"
         /\ View' = SubSeq(block, 1, from) \o t
<1>1. /\ Len(t) \in Nat /\ size \in Nat /\ size < U32 /\ U32 \in Nat /\ t \in Seq(Chars)
      /\ \A i \in 1 .. Len(t) : t[i] \in Chars
  BY TextType, Constants DEF Words
<1>2. memory_size' = size /\ length' = from + Len(t)
  <2>1. from + Len(t) \in Nat /\ from + Len(t) < U32
    BY <1>1
  <2>2. Wrapped(from + Len(t)) = from + Len(t)
    BY <2>1, WrappedExact
  <2>3. QED BY <2>2 DEF Put
<1>3. memory_filled' = length' + 1
  <2>1. length' + 1 \in Nat /\ length' + 1 < U32
    BY <1>1, <1>2
  <2>2. Wrapped(length' + 1) = length' + 1
    BY <2>1, WrappedExact
  <2>3. QED BY <2>2 DEF Put
<1>4. memory_left' = size - memory_filled'
  <2>1. size - memory_filled' \in Nat /\ size - memory_filled' < U32
    BY <1>1, <1>2, <1>3
  <2>2. Wrapped(size - memory_filled') = size - memory_filled'
    BY <2>1, WrappedExact
  <2>3. QED BY <2>2 DEF Put
<1>5. data' = Written(block, from, t) /\ stringStatus' = "open"
  BY DEF Put
<1>6. /\ data' \in Block /\ Len(data') = size
      /\ \A i \in 1 .. from : data'[i] = block[i]
      /\ \A i \in 1 .. Len(t) : data'[from + i] = t[i]
      /\ data'[length' + 1] = Nul
  <2>1. from + Len(t) < Len(block) /\ Len(block) = size
    OBVIOUS
  <2>2. /\ Written(block, from, t) \in Block /\ Len(Written(block, from, t)) = Len(block)
        /\ \A i \in 1 .. from : Written(block, from, t)[i] = block[i]
        /\ \A i \in 1 .. Len(t) : Written(block, from, t)[from + i] = t[i]
        /\ Written(block, from, t)[from + Len(t) + 1] = Nul
    BY <2>1, WrittenType
  <2>3. QED BY <1>2, <1>5, <2>1, <2>2
<1>7. /\ View' \in Seq(Chars \cup {Nul, Junk}) /\ Len(View') = length'
      /\ \A i \in 1 .. length' : View'[i] = data'[i]
  <2>1. length' \in Nat /\ length' <= Len(data') /\ data' \in Seq(Chars \cup {Nul, Junk})
    BY <1>1, <1>2, <1>6 DEF Block
  <2>2. View' = SubSeq(data', 1, length')
    BY DEF View
  <2>3. QED BY <2>1, <2>2, Prefix
<1>8. \A i \in 1 .. length' : data'[i] # Nul
  <2> TAKE i \in 1 .. length'
  <2>1. CASE i <= from
    BY <1>2, <1>6, <2>1
  <2>2. CASE i > from
    <3>1. i - from \in 1 .. Len(t) /\ from + (i - from) = i
      BY <1>1, <1>2, <2>2
    <3>2. data'[i] = t[i - from]
      BY <1>6, <3>1
    <3>3. QED BY <1>1, <3>1, <3>2, Different
  <2>3. QED BY <1>1, <1>2, <2>1, <2>2
<1>9. IsCStr(View)'
  BY <1>1, <1>2, <1>6, <1>7, <1>8 DEF IsCStr
<1>10. SizesAccounted' /\ InProportion' /\ ReadsTheSame'
  BY <1>1, <1>2, <1>3, <1>4, <1>6, <1>9 DEF SizesAccounted, InProportion, ReadsTheSame
<1>11. View' = SubSeq(block, 1, from) \o t
  <2> DEFINE whole == SubSeq(block, 1, from) \o t
  <2>1. /\ SubSeq(block, 1, from) \in Block /\ Len(SubSeq(block, 1, from)) = from
        /\ \A i \in 1 .. from : SubSeq(block, 1, from)[i] = block[i]
    BY <1>1 DEF Block
  <2>2. t \in Block
    BY <1>1 DEF Block
  <2>3. /\ whole \in Seq(Chars \cup {Nul, Junk}) /\ Len(whole) = length'
        /\ \A i \in 1 .. from : whole[i] = block[i]
        /\ \A i \in (from + 1) .. length' : whole[i] = t[i - from]
    BY <1>1, <1>2, <2>1, <2>2 DEF Block
  <2>4. \A i \in 1 .. length' : View'[i] = whole[i]
    <3> HIDE DEF whole
    <3> TAKE i \in 1 .. length'
    <3>1. CASE i <= from
      BY <1>2, <1>6, <1>7, <2>3, <3>1
    <3>2. CASE i > from
      <4>1. i - from \in 1 .. Len(t) /\ from + (i - from) = i /\ i \in (from + 1) .. length'
        BY <1>1, <1>2, <3>2
      <4>2. data'[i] = t[i - from]
        BY <1>6, <4>1
      <4>3. QED BY <1>7, <2>3, <4>1, <4>2
    <3>3. QED BY <1>1, <1>2, <3>1, <3>2
  <2>5. length' \in Nat
    BY <1>1, <1>2
  <2>6. QED
    <3> HIDE DEF whole
    <3>1. View' = whole
      BY <1>7, <2>3, <2>4, <2>5, SameSequence
    <3>2. QED BY <3>1 DEF whole
<1>12. StringTypeOK'
  BY PutType
<1>13. QED BY <1>5, <1>10, <1>11, <1>12 DEF StringsInv

-----------------------------------------------------------------------------
(* The operations                                                           *)

(* What string() leaves out is too long to count together with its room.    *)
LEMMA MakeRoom ==
  ASSUME NEW t \in Texts
  PROVE  /\ Room(t) \in Words /\ Room(t) \in Nat
         /\ Len(t) < Room(t) => Len(t) + Spare < U32 /\ Room(t) = Len(t) + Spare
         /\ Len(t) >= Room(t) => Len(t) + Spare >= U32 /\ Room(t) < Spare
<1>1. Len(t) \in Nat /\ Len(t) < U32 /\ Len(t) + Spare \in Int
  BY TextType, Constants
<1>2. /\ Room(t) \in Words
      /\ Len(t) + Spare \in Words => Room(t) = Len(t) + Spare
      /\ Len(t) + Spare >= U32 => Room(t) <= Len(t) + Spare - U32
  <2> DEFINE sum == Len(t) + Spare
  <2>1. sum \in Int /\ sum >= 0
    BY <1>1, Constants
  <2>2. Room(t) = Wrapped(sum)
    BY DEF Room
  <2>3. QED
    <3> HIDE DEF sum
    <3>1. /\ Room(t) \in Words
          /\ sum \in Words => Room(t) = sum
          /\ sum >= U32 => Room(t) <= sum - U32
      BY <2>1, <2>2, WrappedWord
    <3>2. QED BY <1>1, <3>1, Constants DEF sum
<1>3. Len(t) + Spare < U32 => Len(t) + Spare \in Words
  BY <1>1, Constants DEF Words
<1>4. Room(t) \in Nat
  BY <1>2 DEF Words
<1>5. QED BY <1>1, <1>2, <1>3, <1>4, Constants

LEMMA MakeFilledSteps ==
  ASSUME NEW t \in Texts, MakeFilled(t)
  PROVE  StringsInv' /\ stringStatus' = "open" /\ View' = t
<1>1. /\ Len(t) < Room(t) /\ Put(t, 0, FreshText(Room(t)), Room(t))
      /\ Room(t) = Len(t) + Spare /\ Room(t) \in Words /\ Room(t) \in Nat
  BY MakeRoom DEF MakeFilled
<1>2. FreshText(Room(t)) \in Block /\ Len(FreshText(Room(t))) = Room(t)
  BY <1>1, FreshType
<1>3. /\ t \in Seq(Chars) /\ 0 + Len(t) < Room(t)
      /\ Room(t) <= 2 * (0 + Len(t)) + Extra + 1
  BY <1>1, TextType, Constants
<1>4. StringsInv' /\ stringStatus' = "open" /\ View' = SubSeq(FreshText(Room(t)), 1, 0) \o t
  <2>1. \A i \in 1 .. 0 : FreshText(Room(t))[i] # Nul
    OBVIOUS
  <2>2. QED BY <1>1, <1>2, <1>3, <2>1, PutFits
<1>5. SubSeq(FreshText(Room(t)), 1, 0) = <<>>
  BY <1>2 DEF Block
<1>6. <<>> \o t = t
  BY <1>3
<1>7. QED BY <1>4, <1>5, <1>6

LEMMA MakeUnfilledSteps ==
  ASSUME NEW t \in Texts, MakeUnfilled(t)
  PROVE  StringsInv' /\ stringStatus' = "open" /\ View' = <<>>
<1>1. /\ Room(t) \in Words /\ Room(t) \in Nat /\ Room(t) < Spare
      /\ data' = FreshText(Room(t)) /\ length' = 0 /\ memory_filled' = 0
      /\ memory_size' = Room(t) /\ memory_left' = Room(t) /\ stringStatus' = "open"
  BY MakeRoom DEF MakeUnfilled
<1>2. data' \in Block /\ Len(data') = Room(t)
  BY <1>1, FreshType
<1>3. 0 \in Words
  BY Constants DEF Words
<1>4. StringTypeOK'
  BY <1>1, <1>2, <1>3 DEF StringTypeOK, Block
<1>5. SizesAccounted' /\ ReadsTheSame' /\ InProportion'
  BY <1>1, <1>2, Constants DEF SizesAccounted, ReadsTheSame, InProportion
<1>6. View' = <<>>
  BY <1>1, <1>2 DEF View, Block
<1>7. QED BY <1>1, <1>4, <1>5, <1>6 DEF StringsInv

(* Nothing before the end of the text is NUL.                               *)
LEMMA NoNulInside ==
  ASSUME StringsInv, stringStatus = "open"
  PROVE  /\ \A i \in 1 .. length : data[i] # Nul
         /\ View \in Block /\ Len(View) = length
<1>1. data \in Block /\ length \in Nat /\ length <= Len(data)
  BY OpenSizes
<1>2. /\ View \in Block /\ Len(View) = length
      /\ \A i \in 1 .. length : View[i] = data[i]
  BY <1>1, Prefix DEF View, Block
<1>3. CASE length = 0
  BY <1>2, <1>3
<1>4. CASE IsCStr(View)
  BY <1>2, <1>4 DEF IsCStr
<1>5. QED BY <1>2, <1>3, <1>4, OpenSizes

LEMMA AppendFitsSteps ==
  ASSUME NEW t \in Texts, StringsInv, AppendFits(t)
  PROVE  StringsInv' /\ stringStatus' = "open" /\ View' = View \o t
<1>1. stringStatus = "open" /\ Len(t) < memory_left /\ Put(t, length, data, memory_size)
  BY DEF AppendFits
<1>2. /\ data \in Block /\ length \in Nat /\ memory_size \in Words /\ Len(data) = memory_size
      /\ length + Len(t) < memory_size /\ memory_size <= 2 * (length + Len(t)) + Extra + 1
  BY <1>1, OpenSizes, TextType, Constants DEF Words
<1>3. QED BY <1>1, <1>2, NoNulInside, PutFits DEF View

LEMMA GrownSize ==
  ASSUME NEW t \in Texts, StringsInv, stringStatus = "open", Len(t) >= memory_left
  PROVE  /\ NewSize(t) \in Words /\ NewSize(t) \in Nat
         /\ NewSize(t) <= 2 * (length + Len(t)) + Extra + 1
         /\ length + Len(t) < NewSize(t) \/ Huge(length + Len(t))
<1>1. /\ length \in Nat /\ memory_size \in Nat /\ memory_size < U32 /\ length <= memory_size
      /\ Len(t) \in Nat /\ memory_size <= length + Len(t) + 1
      /\ length < memory_size \/ (length = 0 /\ memory_size < Spare)
      /\ length <= memory_size
  <2>1. /\ length \in Nat /\ memory_size \in Nat /\ memory_size < U32 /\ length <= memory_size
        /\ \/ memory_left = memory_size - length - 1
           \/ memory_left = memory_size /\ length = 0 /\ memory_size < Spare
        /\ memory_left \in Nat /\ Len(t) \in Nat
    BY OpenSizes, TextType
  <2>2. QED BY <2>1
<1> DEFINE sum == memory_size + Len(t) + Extra
<1>2. sum \in Int /\ sum >= 0
  BY <1>1, Constants
<1>3. /\ NewSize(t) \in Words /\ NewSize(t) <= sum
      /\ sum \in Words => NewSize(t) = sum
  BY <1>2, WrappedWord DEF NewSize
<1>4. sum <= 2 * (length + Len(t)) + Extra + 1
  BY <1>1, Constants
<1>5. NewSize(t) \in Nat
  BY <1>3 DEF Words
<1>6. CASE sum < U32
  <2>1. NewSize(t) = sum
    BY <1>2, <1>3, <1>6, Constants DEF Words
  <2>2. length + Len(t) < sum
    BY <1>1, Constants
  <2>3. QED BY <1>1, <1>3, <1>4, <1>5, <2>1, <2>2
<1>7. CASE sum >= U32
  <2>1. Huge(length + Len(t))
    BY <1>1, <1>2, <1>4, <1>7, Constants DEF Huge
  <2>2. QED BY <1>1, <1>2, <1>3, <1>4, <1>5, <2>1, Constants
<1>8. QED BY <1>2, <1>6, <1>7, Constants

LEMMA AppendGrowsSteps ==
  ASSUME NEW t \in Texts, StringsInv, AppendGrows(t)
  PROVE  /\ StringsInv'
         /\ \/ stringStatus' = "open" /\ View' = View \o t
            \/ /\ stringStatus' = "undefined" /\ Huge(length + Len(t))
               /\ length' = Wrapped(length + Len(t))
<1> DEFINE size == NewSize(t)
<1>1. /\ stringStatus = "open" /\ Len(t) >= memory_left
      /\ Put(t, length, ResizedText(size), size)
  BY DEF AppendGrows
<1>2. /\ size \in Words /\ size \in Nat /\ size <= 2 * (length + Len(t)) + Extra + 1
      /\ length + Len(t) < size \/ Huge(length + Len(t))
  BY <1>1, GrownSize
<1>3. data \in Block /\ length \in Nat /\ length <= Len(data) /\ Len(t) \in Nat
  BY <1>1, OpenSizes, TextType
<1> HIDE DEF size
<1>4. /\ ResizedText(size) \in Block /\ Len(ResizedText(size)) = size
      /\ \A i \in 1 .. size : i <= Len(data) => ResizedText(size)[i] = data[i]
  BY <1>2, <1>3, ResizedType
<1>5. CASE length + Len(t) < size
  <2>1. \A i \in 1 .. length : ResizedText(size)[i] = data[i]
    BY <1>2, <1>3, <1>4, <1>5
  <2>2. \A i \in 1 .. length : ResizedText(size)[i] # Nul
    BY <1>1, <2>1, NoNulInside
  <2>3. StringsInv' /\ stringStatus' = "open" /\ View' = SubSeq(ResizedText(size), 1, length) \o t
    BY <1>1, <1>2, <1>3, <1>4, <1>5, <2>2, PutFits
  <2>4. SubSeq(ResizedText(size), 1, length) = View
    <3>1. /\ SubSeq(ResizedText(size), 1, length) \in Block
          /\ Len(SubSeq(ResizedText(size), 1, length)) = length
          /\ \A i \in 1 .. length : SubSeq(ResizedText(size), 1, length)[i] = ResizedText(size)[i]
      BY <1>2, <1>3, <1>4, <1>5, Prefix DEF Block
    <3>2. View \in Block /\ Len(View) = length /\ \A i \in 1 .. length : View[i] = data[i]
      BY <1>3, Prefix DEF Block, View
    <3>3. QED BY <2>1, <3>1, <3>2, SameSequence DEF Block
  <2>5. QED BY <2>3, <2>4
<1>6. CASE ~(length + Len(t) < size)
  <2>1. stringStatus' = "undefined" /\ length' = Wrapped(length + Len(t))
    BY <1>1, <1>4, <1>6 DEF Put
  <2>2. StringTypeOK'
    BY <1>1, <1>2, <1>3, <1>4, PutType
  <2>3. SizesAccounted' /\ ReadsTheSame' /\ InProportion'
    BY <2>1 DEF SizesAccounted, ReadsTheSame, InProportion
  <2>4. QED BY <1>2, <1>6, <2>1, <2>2, <2>3 DEF StringsInv
<1>7. QED BY <1>5, <1>6

(* Dying, freeing and stopping end the use of the string.                   *)
LEMMA EndingSteps ==
  ASSUME StringsInv, \/ MakeDies \/ Free \/ StringStopped \/ UNCHANGED stringVars
                     \/ \E t \in Texts : AppendDies(t)
  PROVE  /\ StringsInv'
         /\ stringStatus' = stringStatus \/ (stringStatus \in {"none", "open"} /\ stringStatus' \in {"freed", "died"})
         /\ stringStatus' = "open" => UNCHANGED stringVars
<1>1. CASE MakeDies \/ Free
  BY <1>1 DEF MakeDies, Free, sizes, StringsInv, StringTypeOK, SizesAccounted, ReadsTheSame, InProportion
<1>2. CASE StringStopped \/ UNCHANGED stringVars
  <2>1. UNCHANGED stringVars
    BY <1>2 DEF StringStopped
  <2>2. QED BY <2>1
    DEF stringVars, sizes, StringsInv, StringTypeOK, SizesAccounted, ReadsTheSame, InProportion, IsCStr, View
<1>3. CASE \E t \in Texts : AppendDies(t)
  <2>1. PICK t \in Texts : AppendDies(t)
    BY <1>3
  <2>2. memory_size' \in Words
    BY <2>1, GrownSize DEF AppendDies
  <2>3. StringTypeOK'
    BY <2>1, <2>2 DEF AppendDies, StringsInv, StringTypeOK
  <2>4. SizesAccounted' /\ ReadsTheSame' /\ InProportion' /\ stringStatus' = "died" /\ stringStatus = "open"
    BY <2>1 DEF AppendDies, SizesAccounted, ReadsTheSame, InProportion
  <2>5. QED BY <2>3, <2>4 DEF StringsInv
<1>4. QED BY <1>1, <1>2, <1>3

-----------------------------------------------------------------------------
(* Theorems                                                                 *)

LEMMA InitInv == StringInit => StringsInv
<1> SUFFICES ASSUME StringInit PROVE StringsInv
  OBVIOUS
<1>1. 0 \in Words
  BY Constants DEF Words
<1>2. QED BY <1>1 DEF StringInit, StringsInv, StringTypeOK, SizesAccounted, ReadsTheSame, InProportion

LEMMA NextInv == StringsInv /\ [StringNext]_stringVars => StringsInv'
<1> SUFFICES ASSUME StringsInv, [StringNext]_stringVars PROVE StringsInv'
  OBVIOUS
<1>1. CASE \E t \in Texts : MakeFilled(t) \/ MakeUnfilled(t) \/ AppendFits(t) \/ AppendGrows(t)
  BY <1>1, MakeFilledSteps, MakeUnfilledSteps, AppendFitsSteps, AppendGrowsSteps
<1>2. CASE MakeDies \/ Free \/ StringStopped \/ UNCHANGED stringVars \/ \E t \in Texts : AppendDies(t)
  BY <1>2, EndingSteps
<1>3. QED BY <1>1, <1>2 DEF StringNext

(***************************************************************************)
(* The sizes of a string always stay what they are taken for, and both     *)
(* ways to read it agree.                                                  *)
(***************************************************************************)
THEOREM StringsInvariant == StringSpec => []StringsInv
<1>1. QED BY InitInv, NextInv, PTL DEF StringSpec

(***************************************************************************)
(* An open string accounts for every byte of its block, reads the same by  *)
(* its length and up to its NUL, and has a block of at most twice what its *)
(* text needs, and Extra bytes.                                            *)
(***************************************************************************)
THEOREM StringIsWhole == StringSpec => []StringWhole
<1>1. StringsInv => StringWhole
  BY DEF StringsInv, StringWhole
<1>2. QED BY <1>1, StringsInvariant, PTL

(***************************************************************************)
(* Every field keeps its type: the sizes stay words of U32.                *)
(***************************************************************************)
THEOREM StringTypes == StringSpec => []StringTypeOK
<1>1. StringsInv => StringTypeOK
  BY DEF StringsInv
<1>2. QED BY <1>1, StringsInvariant, PTL

LEMMA StepOutside ==
  StringsInv /\ [StringNext]_stringVars =>
    [stringStatus' = "undefined" =>
       \E t \in Texts : /\ stringStatus = "open" /\ Huge(length + Len(t))
                        /\ length' = Wrapped(length + Len(t))]_stringVars
<1> SUFFICES ASSUME StringsInv, StringNext, stringStatus' = "undefined", ~UNCHANGED stringVars
             PROVE  \E t \in Texts : /\ stringStatus = "open" /\ Huge(length + Len(t))
                                     /\ length' = Wrapped(length + Len(t))
  OBVIOUS
<1>1. ~(MakeDies \/ Free \/ StringStopped \/ \E t \in Texts : AppendDies(t))
  BY DEF MakeDies, Free, StringStopped, AppendDies
<1>2. PICK t \in Texts : MakeFilled(t) \/ MakeUnfilled(t) \/ AppendFits(t) \/ AppendGrows(t)
  BY <1>1 DEF StringNext
<1>3. AppendGrows(t)
  BY <1>2, MakeFilledSteps, MakeUnfilledSteps, AppendFitsSteps
<1>4. stringStatus = "open"
  BY <1>3 DEF AppendGrows
<1>5. QED BY <1>3, <1>4, AppendGrowsSteps

(***************************************************************************)
(* Appending leaves the block only for texts of 2^31 bytes and more, less  *)
(* a few.                                                                  *)
(***************************************************************************)
THEOREM StringInside == StringSpec => OutsideOnlyIfHuge
<1>1. QED BY StringsInvariant, StepOutside, PTL DEF StringSpec, OutsideOnlyIfHuge

-----------------------------------------------------------------------------
(* The text that grows                                                      *)

LEMMA BufferInit == StringInit => AsBuffer!Init
BY DEF StringInit, AsBuffer!Init

LEMMA BufferStep == StringsInv /\ [StringNext]_stringVars => [AsBuffer!Next]_(AsBuffer!bufferVars)
<1> SUFFICES ASSUME StringsInv, [StringNext]_stringVars
             PROVE  AsBuffer!Next \/ UNCHANGED AsBuffer!bufferVars
  OBVIOUS
<1> USE DEF AsBuffer!Next, AsBuffer!Make, AsBuffer!Add, AsBuffer!End, AsBuffer!bufferVars
<1>1. ASSUME NEW t \in Texts, MakeFilled(t) PROVE AsBuffer!Make(t)
  <2>1. stringStatus = "none" /\ stringStatus' = "open" /\ View' = t
    BY <1>1, MakeFilledSteps DEF MakeFilled
  <2>2. Len(t) <= U32 - Spare - 1
    BY <1>1, MakeRoom, TextType, Constants DEF MakeFilled
  <2>3. QED BY <2>1, <2>2
<1>2. ASSUME NEW t \in Texts, MakeUnfilled(t) PROVE AsBuffer!Make(t)
  <2>1. stringStatus = "none" /\ stringStatus' = "open" /\ View' = <<>>
    BY <1>2, MakeUnfilledSteps DEF MakeUnfilled
  <2>2. ~(Len(t) <= U32 - Spare - 1)
    BY <1>2, MakeRoom, TextType, Constants DEF MakeUnfilled
  <2>3. QED BY <2>1, <2>2
<1>3. ASSUME NEW t \in Texts, AppendFits(t) PROVE AsBuffer!Add(t)
  <2>1. stringStatus = "open" /\ stringStatus' = "open" /\ View' = View \o t
    BY <1>3, AppendFitsSteps DEF AppendFits
  <2>2. QED BY <2>1
<1>4. ASSUME NEW t \in Texts, AppendGrows(t) PROVE AsBuffer!Add(t) \/ AsBuffer!End
  <2>1. stringStatus = "open"
    BY <1>4 DEF AppendGrows
  <2>2. CASE stringStatus' = "open" /\ View' = View \o t
    BY <2>1, <2>2
  <2>3. CASE stringStatus' = "undefined"
    BY <2>1, <2>3
  <2>4. QED BY <1>4, <2>2, <2>3, AppendGrowsSteps
<1>5. CASE MakeDies \/ Free \/ StringStopped \/ UNCHANGED stringVars \/ \E t \in Texts : AppendDies(t)
  <2>1. CASE stringStatus' = "open"
    <3>1. UNCHANGED stringVars
      BY <1>5, <2>1, EndingSteps
    <3>2. QED BY <3>1 DEF stringVars, sizes, View
  <2>2. CASE stringStatus' # "open"
    BY <1>5, <2>2, EndingSteps
  <2>3. QED BY <2>1, <2>2
<1>6. QED BY <1>1, <1>2, <1>3, <1>4, <1>5 DEF StringNext

(***************************************************************************)
(* A string implements a text that grows at its end.                       *)
(***************************************************************************)
THEOREM StringImplementsBuffer == StringSpec => ImplementsBuffer
<1>1. QED BY BufferInit, BufferStep, StringsInvariant, PTL
          DEF StringSpec, ImplementsBuffer, AsBuffer!Spec
=============================================================================
