---------------------------- MODULE SourceProofs ----------------------------
(***************************************************************************)
(* What the parser makes of every program csort's grammar covers, whatever *)
(* the layout of its lines, the size of the buffer and the heap: nothing   *)
(* is lost, nothing is invented, and the line where the imports start is   *)
(* known.                                                                  *)
(***************************************************************************)
EXTENDS Source, ParserProofs

USE TokensAssumption, ParserAssumption

-----------------------------------------------------------------------------
(* The scanner on a text that holds a newline                               *)

(* Skipping spaces skips nothing else.                                      *)
LEMMA SkipsSpaces ==
  ASSUME NEW text, NEW from, NEW to, Scan(text, from, to),
         NEW i \in from .. to
  PROVE  \A k \in i .. (FindFirstNotSpace(text, i, to) - 1) : text[k] = SP
<1> DEFINE found == {k \in i .. (to - 1) : text[k] # SP}
<1>1. found \in SUBSET Nat BY DEF Scan
<1>2. CASE found = {}
  BY <1>2 DEF FindFirstNotSpace, Scan
<1>3. CASE found # {}
  <2>1. Min(found) \in found /\ \A y \in found : Min(found) <= y
    BY <1>1, <1>3, MinProperties
  <2>2. FindFirstNotSpace(text, i, to) = Min(found)
    BY <1>3 DEF FindFirstNotSpace
  <2>3. QED BY <2>1, <2>2 DEF Scan
<1>4. QED BY <1>2, <1>3

(***************************************************************************)
(* The token that starts at p, the first place that is no space, ends at   *)
(* the first place c where the scan may return, at the latest at the       *)
(* newline at n.                                                           *)
(***************************************************************************)
FirstStop(text, p, c) ==
  EndsToken(text, p, c) /\ \A k \in p .. (c - 1) : ~EndsToken(text, p, k)

LEMMA TokenFound ==
  ASSUME NEW text, NEW from, NEW to, Scan(text, from, to),
         NEW n \in from .. (to - 1), text[n] = NL,
         NEW p \in from .. n, text[p] # SP,
         \A k \in from .. (p - 1) : text[k] = SP
  PROVE  \E c \in p .. n :
           FirstStop(text, p, c) /\ NextToken(text, from, to) = TokenAt(text, p, c, to)
<1> DEFINE begin == FindFirstNotSpace(text, from, to)
           stops == {c \in begin .. (to - 1) : EndsToken(text, begin, c)}
<1>1. begin = p
  <2>1. from \in from .. to
    BY DEF Scan
  <2>2. begin \in from .. to /\ begin <= p
    <3>1. p \in from .. (to - 1)
      BY DEF Scan
    <3>2. QED BY <2>1, <3>1, FindFirstNotSpaceProperties
  <2>3. ~(begin < p)
    <3>1. from < to
      BY DEF Scan
    <3>2. CASE {k \in from .. (to - 1) : text[k] # SP} = {}
      BY <3>2 DEF Scan
    <3>3. CASE {k \in from .. (to - 1) : text[k] # SP} # {}
      <4>1. {k \in from .. (to - 1) : text[k] # SP} \in SUBSET Nat
        BY DEF Scan
      <4>2. begin \in {k \in from .. (to - 1) : text[k] # SP}
        BY <3>3, <4>1, MinProperties DEF FindFirstNotSpace
      <4>3. text[begin] # SP
        BY <4>2
      <4>4. QED BY <2>2, <4>3 DEF Scan
    <3>4. QED BY <3>2, <3>3
  <2>4. QED BY <2>2, <2>3 DEF Scan
<1>2. n \in stops
  BY <1>1 DEF EndsToken, Scan
<1>3. stops \in SUBSET Nat
  BY <1>1 DEF Scan
<1>4. Min(stops) \in stops /\ \A y \in stops : Min(stops) <= y
  BY <1>2, <1>3, MinProperties
<1>5. NextToken(text, from, to) = TokenAt(text, p, Min(stops), to)
  BY <1>1, <1>2 DEF NextToken
<1> DEFINE c == Min(stops)
<1>6. c \in p .. n
  BY <1>1, <1>2, <1>3, <1>4
<1>7. FirstStop(text, p, c)
  <2>1. EndsToken(text, p, c)
    BY <1>1, <1>4
  <2>2. ASSUME NEW k \in p .. (c - 1)
        PROVE  ~EndsToken(text, p, k)
    <3>1. k \in begin .. (to - 1) /\ ~(c <= k)
      BY <1>1, <1>6, <2>2 DEF Scan
    <3>2. k \notin stops
      BY <1>4, <3>1
    <3>3. QED BY <1>1, <3>1, <3>2
  <2>3. QED BY <2>1, <2>2 DEF FirstStop
<1>8. QED BY <1>5, <1>6, <1>7

-----------------------------------------------------------------------------
(* Reading a line                                                           *)

(* How much of the file precedes the buffer, and where the scan goes on.    *)
base == off - Len(buf)
here == base + buf_view.at

(* The buffer holds one line of the file, and the scan is in it.            *)
LineInBuffer ==
  /\ \A k \in 1 .. Len(buf) : buf[k] = file[base + k]
  /\ IsLine(file, base + 1, off)

InLine == /\ TypeOK /\ FitsBuffer(file) /\ ViewBeforeNewline
          /\ buf # <<>> /\ LineInBuffer

(* Nothing but spaces is left before place p of the line.                   *)
Ahead(p) == p \in here .. off /\ \A k \in here .. (p - 1) : file[k] = SP

(* The two things a call of _update_token may do: leave the line, for the   *)
(* next one or for the end of the file, or go on in the line at place q.    *)
Over == \/ off < Len(file) /\ GetLine /\ tok'.type \in {"newline", "comment"}
        \/ off = Len(file) /\ GetLineFails /\ tok'.type = "end"
Within(q) == UNCHANGED <<off, buf, line_counter>> /\ here' = q

(* The numbers of a line that is being scanned.                             *)
LEMMA InLineNumbers ==
  ASSUME InLine
  PROVE  /\ base \in Nat /\ off \in 1 .. Len(file) /\ Len(file) \in Nat
         /\ Len(buf) \in Nat /\ Len(buf) = off - base /\ base < off
         /\ buf_view.at \in 1 .. Len(buf) /\ here \in (base + 1) .. off
         /\ ViewEnd \in Nat /\ Len(buf) < ViewEnd
         /\ file[off] = NL /\ \A k \in (base + 1) .. (off - 1) : file[k] # NL
         /\ file \in Seq(Atom)
<1>1. /\ off \in 0 .. Len(file) /\ Len(file) \in Nat /\ Len(buf) \in Nat
      /\ buf_view.at \in Nat \ {0} /\ buf_view.len \in Nat /\ file \in Seq(Atom)
  BY DEF InLine, TypeOK
<1>2. /\ off \in 1 .. Len(file) /\ base + 1 \in 1 .. off /\ file[off] = NL
      /\ \A k \in (base + 1) .. (off - 1) : file[k] # NL
  BY DEF InLine, LineInBuffer, IsLine
<1>3. base \in Nat /\ Len(buf) = off - base
  BY <1>1, <1>2 DEF base
<1>4. PICK i \in buf_view.at .. Len(buf) : i < ViewEnd /\ buf[i] = NL
  BY DEF InLine, ViewBeforeNewline
<1> HIDE DEF base
<1>5. i \in 1 .. Len(buf) /\ i \in Nat
  BY <1>1, <1>4
<1>6. file[base + i] = NL
  BY <1>4, <1>5 DEF InLine, LineInBuffer
<1>7. i = Len(buf)
  BY <1>1, <1>2, <1>3, <1>5, <1>6
<1>8. /\ ViewEnd \in Nat /\ Len(buf) < ViewEnd
      /\ buf_view.at \in 1 .. Len(buf)
  BY <1>1, <1>4, <1>5, <1>7 DEF ViewEnd
<1>9. here \in (base + 1) .. off /\ base < off
  BY <1>1, <1>2, <1>3, <1>8 DEF here
<1>10. QED BY <1>1, <1>2, <1>3, <1>8, <1>9

(* The scan that started at p returns at c (EndsToken, in the whole file).  *)
Stops(p, c) ==
  \/ file[c] \in {COMMA, HASH, NL}
  \/ file[c] = SP /\ (GetTokenType(Slice(file, p, c)) = "from" => p = base + 1)

(***************************************************************************)
(* A call of _update_token that meets the line at p, by what stands there  *)
(* and where the token that starts there ends.                             *)
(***************************************************************************)
ReadFrom(p, c) ==
  /\ Stops(p, c) /\ \A k \in p .. (c - 1) : ~Stops(p, k)
  /\ file[c] = HASH => Over
  /\ c = p /\ file[c] = NL => Over
  /\ c = p /\ file[c] = COMMA => tok'.type = "comma" /\ Within(p + 1)
  /\ c # p /\ file[c] # HASH =>
       /\ tok'.name = Slice(file, p, c)
       /\ tok'.type = GetTokenType(Slice(file, p, c))
       /\ \E q \in c .. off : Within(q) /\ \A k \in c .. (q - 1) : file[k] = SP

LEMMA TokenRead ==
  ASSUME InLine, UpdateToken, NEW p, Ahead(p), file[p] # SP
  PROVE  \E c \in p .. off : ReadFrom(p, c)
<1>1. PICK t \in NextTokens :
        LET lineOver == t.type \in {"newline", "comment"}
        IN  \/ /\ lineOver /\ off < Len(file)
               /\ GetLine /\ AtToken(t, t.type, line_counter, t.col)
            \/ /\ lineOver /\ off = Len(file)
               /\ GetLineFails /\ AtToken(t, "end", 0, 0)
            \/ /\ ~lineOver
               /\ IncBuff(t) /\ AtToken(t, t.type, line_counter, t.col)
  BY DEF UpdateToken
<1>2. PICK text :
        /\ Scan(text, buf_view.at, ViewEnd)
        /\ \A i \in buf_view.at .. (ViewEnd - 1) :
             IF i <= Len(buf) THEN text[i] = buf[i] ELSE text[i] \in Delimiter \cup {NUL}
        /\ t = NextToken(text, buf_view.at, ViewEnd)
  BY NextTokensProperties DEF InLine
<1> DEFINE at == buf_view.at
           lp == p - base
           n  == Len(buf)
<1>3. /\ base \in Nat /\ off \in 1 .. Len(file) /\ Len(file) \in Nat
      /\ n \in Nat /\ n = off - base
      /\ at \in 1 .. n /\ here \in (base + 1) .. off
      /\ ViewEnd \in Nat /\ n < ViewEnd /\ file[off] = NL
  BY InLineNumbers
<1>4. here = base + at
  BY DEF here
<1>5. \A i \in 1 .. n : buf[i] = file[base + i]
  BY DEF InLine, LineInBuffer
<1>6. \A k \in here .. off : k - base \in at .. n /\ text[k - base] = file[k]
  <2>1. \A i \in at .. n : text[i] = file[base + i]
    BY <1>2, <1>3, <1>5
  <2> HIDE DEF at, n, base, here
  <2>2. \A k \in here .. off : k - base \in at .. n /\ k = base + (k - base)
    BY <1>3, <1>4
  <2>3. QED BY <2>1, <2>2
<1> HIDE DEF base, here
<1>7. p \in here .. off /\ p \in Nat /\ \A k \in here .. (p - 1) : file[k] = SP
  BY <1>3 DEF Ahead
<1>8. PICK lc \in lp .. n : FirstStop(text, lp, lc) /\ t = TokenAt(text, lp, lc, ViewEnd)
  <2>1. lp \in at .. n /\ text[lp] # SP
    BY <1>6, <1>7
  <2>2. \A i \in at .. (lp - 1) : text[i] = SP
    <3> TAKE i \in at .. (lp - 1)
    <3>1. base + i \in here .. (p - 1) /\ base + i \in here .. off /\ (base + i) - base = i
      BY <1>3, <1>4, <1>7, <2>1
    <3>2. QED BY <1>6, <1>7, <3>1
  <2>3. n \in at .. (ViewEnd - 1) /\ text[n] = NL
    BY <1>3, <1>6
  <2>4. QED BY <1>2, <2>1, <2>2, <2>3, TokenFound
<1> DEFINE c == base + lc
<1>9. c \in p .. off /\ c \in here .. off /\ lc = c - base /\ lc \in Nat
  BY <1>3, <1>7, <1>8
<1>10. \A k \in p .. off : Slice(text, lp, k - base) = Slice(file, p, k)
  <2> TAKE k \in p .. off
  <2>1. (k - base) - lp = k - p
    BY <1>3, <1>7
  <2>2. \A i \in 1 .. (k - p) : text[lp + i - 1] = file[p + i - 1]
    <3> TAKE i \in 1 .. (k - p)
    <3>1. p + i - 1 \in here .. off /\ lp + i - 1 = (p + i - 1) - base
      BY <1>3, <1>7
    <3>2. QED BY <1>6, <3>1
  <2>3. QED BY <2>1, <2>2 DEF Slice
<1>11. \A k \in p .. off : EndsToken(text, lp, k - base) <=> Stops(p, k)
  <2> TAKE k \in p .. off
  <2>1. text[k - base] = file[k] /\ Slice(text, lp, k - base) = Slice(file, p, k)
    BY <1>3, <1>6, <1>7, <1>10
  <2>2. lp = 1 <=> p = base + 1
    BY <1>3, <1>7
  <2>3. QED BY <2>1, <2>2 DEF EndsToken, Stops
<1>12. Stops(p, c) /\ \A k \in p .. (c - 1) : ~Stops(p, k)
  <2>1. Stops(p, c)
    BY <1>8, <1>9, <1>11 DEF FirstStop
  <2>2. ASSUME NEW k \in p .. (c - 1)
        PROVE  ~Stops(p, k)
    <3>1. k \in p .. off /\ k - base \in lp .. (lc - 1)
      BY <1>3, <1>7, <1>9, <2>2
    <3>2. QED BY <1>8, <1>11, <3>1 DEF FirstStop
  <2>3. QED BY <2>1, <2>2
<1>13. text[lc] = file[c] /\ Slice(text, lp, lc) = Slice(file, p, c) /\ (lc = lp <=> c = p)
  BY <1>3, <1>6, <1>7, <1>9, <1>10
<1>14. SP # NL /\ COMMA # NL /\ HASH # NL /\ COMMA # HASH
  BY DEF SP, NL, COMMA, HASH
<1>15. ASSUME t.type \in {"newline", "comment"}
       PROVE  Over
  BY <1>1, <1>15 DEF Over, AtToken
<1>16. ASSUME t.type \notin {"newline", "comment"}
       PROVE  /\ tok'.type = t.type /\ tok'.name = t.name
              /\ UNCHANGED <<off, buf, line_counter>>
              /\ buf_view'.at = t.next
  BY <1>1, <1>16 DEF IncBuff, AtToken
<1>18. file[c] = HASH => Over
  <2>1. file[c] = HASH => t.type = "comment"
    BY <1>8, <1>13 DEF TokenAt
  <2>2. QED BY <1>15, <2>1
<1>19. c = p /\ file[c] = NL => Over
  <2>1. c = p /\ file[c] = NL => t.type = "newline"
    BY <1>8, <1>13, <1>14 DEF TokenAt
  <2>2. QED BY <1>15, <2>1
<1>20. ASSUME c = p, file[c] = COMMA
       PROVE  tok'.type = "comma" /\ Within(p + 1)
  <2>1. t.type = "comma" /\ t.next = lc + 1
    BY <1>8, <1>13, <1>14, <1>20 DEF TokenAt
  <2>2. base + (lc + 1) = p + 1
    BY <1>3, <1>7, <1>9, <1>20
  <2>3. tok'.type = "comma" /\ UNCHANGED <<off, buf, line_counter>> /\ buf_view'.at = lc + 1
    BY <1>16, <2>1
  <2>4. QED BY <2>2, <2>3 DEF Within, here, base
<1>21. ASSUME c # p, file[c] # HASH
       PROVE  /\ tok'.name = Slice(file, p, c)
              /\ tok'.type = GetTokenType(Slice(file, p, c))
              /\ \E q \in c .. off : Within(q) /\ \A k \in c .. (q - 1) : file[k] = SP
  <2> DEFINE next == FindFirstNotSpace(text, lc, ViewEnd)
  <2>1. /\ t.type = GetTokenType(Slice(file, p, c)) /\ t.name = Slice(file, p, c)
        /\ t.next = next
    BY <1>8, <1>13, <1>21 DEF TokenAt
  <2>2. t.type \notin {"newline", "comment"}
    BY <2>1 DEF GetTokenType
  <2>3. lc \in at .. ViewEnd /\ n \in lc .. (ViewEnd - 1) /\ text[n] # SP
    <3>1. lc \in at .. n
      BY <1>3, <1>4, <1>6, <1>9
    <3>2. text[n] = NL
      BY <1>3, <1>6
    <3>3. QED BY <1>3, <1>14, <3>1, <3>2
  <2>4. next \in lc .. n /\ \A k \in lc .. (next - 1) : text[k] = SP
    <3>1. next \in lc .. ViewEnd /\ next <= n
      BY <1>2, <2>3, FindFirstNotSpaceProperties
    <3>2. \A k \in lc .. (next - 1) : text[k] = SP
      BY <1>2, <2>3, SkipsSpaces
    <3>3. QED BY <1>3, <1>9, <3>1, <3>2
  <2> HIDE DEF next
  <2>5. PICK q : q = base + next
    OBVIOUS
  <2>6. q \in c .. off /\ q \in Nat /\ next \in Nat
    BY <1>3, <1>9, <2>4, <2>5
  <2>7. \A k \in c .. (q - 1) : file[k] = SP
    <3> TAKE k \in c .. (q - 1)
    <3>1. k \in here .. off /\ k - base \in lc .. (next - 1)
      BY <1>3, <1>9, <2>4, <2>5, <2>6
    <3>2. QED BY <1>6, <2>4, <3>1
  <2>8. Within(q)
    BY <1>16, <2>1, <2>2, <2>5, <2>6 DEF Within, here, base
  <2>9. \E r \in c .. off : Within(r) /\ \A k \in c .. (r - 1) : file[k] = SP
    BY <2>6, <2>7, <2>8
  <2>10. tok'.name = Slice(file, p, c) /\ tok'.type = GetTokenType(Slice(file, p, c))
    BY <1>16, <2>1, <2>2
  <2>11. QED BY <2>9, <2>10
<1>22. ReadFrom(p, c)
  BY <1>12, <1>18, <1>19, <1>20, <1>21 DEF ReadFrom
<1>23. QED BY <1>9, <1>22

(* A word that is followed by a space, a comma or the end of the line.      *)
LEMMA ReadWord ==
  ASSUME InLine, UpdateToken, NEW p, Ahead(p),
         file[p] \notin Delimiter, file[p + 1] \in {SP, COMMA, NL},
         file[p] = FROM => p = base + 1
  PROVE  /\ tok'.name = <<file[p]>> /\ tok'.type = GetTokenType(<<file[p]>>)
         /\ \E q \in (p + 1) .. off : Within(q) /\ \A k \in (p + 1) .. (q - 1) : file[k] = SP
<1>1. /\ p \in here .. off /\ off \in Nat /\ here \in (base + 1) .. off /\ base \in Nat
      /\ file[off] = NL
  BY InLineNumbers DEF Ahead
<1> HIDE DEF base, here
<1>2. /\ SP # HASH /\ COMMA # HASH /\ NL # HASH
      /\ SP \in Delimiter /\ COMMA \in Delimiter /\ HASH \in Delimiter /\ NL \in Delimiter
  BY DEF SP, NL, COMMA, HASH, Delimiter
<1>3. p \in Nat /\ p + 1 \in p .. off /\ p # off /\ p + 1 # p
  BY <1>1, <1>2
<1>4. PICK c \in p .. off : ReadFrom(p, c)
  BY <1>2, TokenRead
<1>5. Slice(file, p, p + 1) = <<file[p]>>
  <2>1. (p + 1) - p = 1 /\ p + 1 - 1 = p
    BY <1>3
  <2>2. Slice(file, p, p + 1) = [i \in 1 .. 1 |-> file[p + i - 1]]
    BY <2>1 DEF Slice
  <2>3. [i \in 1 .. 1 |-> file[p + i - 1]] = <<file[p]>>
    <3>1. \A i \in 1 .. 1 : i = 1 /\ p + i - 1 = p
      BY <1>3
    <3>2. QED BY <3>1
  <2>4. QED BY <2>2, <2>3
<1>6. Stops(p, p + 1)
  <2>1. GetTokenType(<<file[p]>>) = "from" => file[p] = FROM
    BY DEF GetTokenType
  <2>2. QED BY <1>5, <2>1 DEF Stops
<1>7. ~Stops(p, p)
  BY <1>2 DEF Stops
<1>8. c = p + 1
  <2>1. ~(p + 1 < c)
    <3>1. p + 1 < c => p + 1 \in p .. (c - 1)
      BY <1>3, <1>4
    <3>2. QED BY <1>4, <1>6, <3>1 DEF ReadFrom
  <2>2. c # p
    BY <1>4, <1>7 DEF ReadFrom
  <2>3. QED BY <1>3, <1>4, <2>1, <2>2
<1>9. c # p /\ file[c] # HASH
  BY <1>2, <1>3, <1>8
<1>10. QED BY <1>4, <1>5, <1>8, <1>9 DEF ReadFrom

LEMMA ReadComma ==
  ASSUME InLine, UpdateToken, NEW c, Ahead(c), file[c] = COMMA
  PROVE  tok'.type = "comma" /\ Within(c + 1)
<1>1. c \in Int /\ off \in Nat
  BY InLineNumbers DEF Ahead
<1>2. COMMA # SP
  BY DEF SP, COMMA
<1>3. PICK d \in c .. off : ReadFrom(c, d)
  BY <1>2, TokenRead
<1>4. d = c
  <2>1. Stops(c, c)
    BY DEF Stops
  <2>2. c < d => c \in c .. (d - 1)
    BY <1>1, <1>3
  <2>3. QED BY <1>1, <1>3, <2>1, <2>2 DEF ReadFrom
<1>5. QED BY <1>3, <1>4 DEF ReadFrom

LEMMA ReadOver ==
  ASSUME InLine, UpdateToken, NEW c, Ahead(c), file[c] \in {HASH, NL}
  PROVE  Over
<1>1. c \in Int /\ off \in Nat
  BY InLineNumbers DEF Ahead
<1>2. NL # SP /\ HASH # SP
  BY DEF SP, HASH, NL
<1>3. PICK d \in c .. off : ReadFrom(c, d)
  BY <1>2, TokenRead
<1>4. d = c
  <2>1. Stops(c, c)
    BY DEF Stops
  <2>2. c < d => c \in c .. (d - 1)
    BY <1>1, <1>3
  <2>3. QED BY <1>1, <1>3, <2>1, <2>2 DEF ReadFrom
<1>5. QED BY <1>3, <1>4 DEF ReadFrom

(* There is a first place ahead that is no space.                           *)
LEMMA SomethingAhead ==
  ASSUME InLine
  PROVE  \E p : Ahead(p) /\ file[p] # SP
<1> DEFINE found == {k \in here .. off : file[k] # SP}
<1>1. off \in Nat /\ here \in (base + 1) .. off /\ base \in Nat /\ file[off] = NL
  BY InLineNumbers
<1> HIDE DEF base, here
<1>2. found \in SUBSET Nat
  BY <1>1
<1>3. off \in found
  BY <1>1 DEF SP, NL
<1>4. Min(found) \in found /\ \A y \in found : Min(found) <= y
  BY <1>2, <1>3, MinProperties
<1>5. PICK p : p = Min(found)
  OBVIOUS
<1>6. p \in here .. off /\ file[p] # SP
  BY <1>4, <1>5
<1>7. \A k \in here .. (p - 1) : file[k] = SP
  BY <1>1, <1>4, <1>5, <1>6
<1>8. QED BY <1>6, <1>7 DEF Ahead

(***************************************************************************)
(* Outside of statements: as long as no comment was passed over, a token   *)
(* that is a keyword stands for itself in the text.                        *)
(***************************************************************************)
Uncommented(q) == \A k \in (base + 1) .. (q - 1) : file[k] # HASH

LEMMA ReadAny ==
  ASSUME InLine, UpdateToken, Uncommented(here)
  PROVE  \/ Over
         \/ /\ tok'.type \in {"from", "import", "comma", "identifier"}
            /\ tok'.type \in {"from", "import"} =>
                 \E p \in here .. off : Ahead(p) /\ Keyword(file, p)
            /\ \E q \in (here + 1) .. off : Within(q) /\ Uncommented(q)
<1>1. /\ off \in 1 .. Len(file) /\ Len(file) \in Nat
      /\ here \in (base + 1) .. off /\ base \in Nat /\ file[off] = NL
  BY InLineNumbers
<1>2. PICK p : Ahead(p) /\ file[p] # SP
  BY SomethingAhead
<1>3. PICK c \in p .. off : ReadFrom(p, c)
  BY <1>2, TokenRead
<1>4. p \in here .. off /\ \A k \in here .. (p - 1) : file[k] = SP
  BY <1>2 DEF Ahead
<1>5. base = 0 \/ file[base] = NL
  BY <1>1 DEF InLine, LineInBuffer, IsLine
<1> HIDE DEF base, here
<1>6. /\ SP # HASH /\ COMMA # HASH /\ NL # HASH /\ COMMA # NL
      /\ SP \in Delimiter /\ COMMA \in Delimiter /\ HASH \in Delimiter /\ NL \in Delimiter
  BY DEF SP, NL, COMMA, HASH, Delimiter
<1>7. \A k \in (base + 1) .. (c - 1) : file[k] # HASH
  <2> TAKE k \in (base + 1) .. (c - 1)
  <2>1. CASE k < here
    <3>1. k \in (base + 1) .. (here - 1)
      BY <1>1, <1>3, <1>4, <2>1
    <3>2. QED BY <3>1 DEF Uncommented
  <2>2. CASE k \in here .. (p - 1)
    BY <1>4, <1>6, <2>2
  <2>3. CASE k \in p .. (c - 1)
    BY <1>3, <2>3 DEF ReadFrom, Stops
  <2>4. QED BY <1>1, <1>3, <1>4, <2>1, <2>2, <2>3
<1>8. CASE file[c] = HASH \/ (c = p /\ file[c] = NL)
  BY <1>3, <1>8 DEF ReadFrom
<1>9. CASE c = p /\ file[c] = COMMA
  <2>1. tok'.type = "comma" /\ Within(p + 1)
    BY <1>3, <1>9 DEF ReadFrom
  <2>2. PICK q : q = p + 1
    OBVIOUS
  <2>3. p # off
    BY <1>1, <1>6, <1>9
  <2>4. q \in (here + 1) .. off
    BY <1>1, <1>4, <2>2, <2>3
  <2>5. Uncommented(q)
    <3> SUFFICES ASSUME NEW k \in (base + 1) .. (q - 1)
                 PROVE  file[k] # HASH
      BY DEF Uncommented
    <3>1. k = p \/ k \in (base + 1) .. (c - 1)
      BY <1>1, <1>4, <1>9, <2>2
    <3>2. QED BY <1>6, <1>7, <1>9, <3>1
  <2>6. Within(q)
    BY <2>1, <2>2
  <2>7. \E r \in (here + 1) .. off : Within(r) /\ Uncommented(r)
    BY <2>4, <2>5, <2>6
  <2>8. QED BY <2>1, <2>7
<1>10. CASE c # p /\ file[c] # HASH
  <2>1. /\ tok'.type = GetTokenType(Slice(file, p, c))
        /\ \E q \in c .. off : Within(q) /\ \A k \in c .. (q - 1) : file[k] = SP
    BY <1>3, <1>10 DEF ReadFrom
  <2>2. PICK q \in c .. off : Within(q) /\ \A k \in c .. (q - 1) : file[k] = SP
    BY <2>1
  <2>3. q \in (here + 1) .. off
    BY <1>1, <1>3, <1>4, <1>10
  <2>4. Uncommented(q)
    <3> SUFFICES ASSUME NEW k \in (base + 1) .. (q - 1)
                 PROVE  file[k] # HASH
      BY DEF Uncommented
    <3>1. k \in (base + 1) .. (c - 1) \/ k \in c .. (q - 1)
      BY <1>1, <1>3, <1>4
    <3>2. QED BY <1>6, <1>7, <2>2, <3>1
  <2>5. ASSUME tok'.type \in {"from", "import"}
        PROVE  Keyword(file, p)
    <3> DEFINE word == Slice(file, p, c)
    <3>1. word = <<FROM>> \/ word = <<IMPORT>>
      BY <2>1, <2>5 DEF GetTokenType
    <3>2. word = <<FROM>> => GetTokenType(word) = "from"
      BY DEF GetTokenType
    <3>3. DOMAIN word = 1 .. (c - p) /\ \A i \in 1 .. (c - p) : word[i] = file[p + i - 1]
      BY DEF Slice
    <3>4. Stops(p, c)
      BY <1>3 DEF ReadFrom
    <3>5. file[c] = SP => (GetTokenType(word) = "from" => p = base + 1)
      BY <1>6, <3>4 DEF Stops, SP, COMMA, HASH, NL
    <3>6. file[c] \in Delimiter
      BY <1>6, <3>4 DEF Stops
    <3>7. DOMAIN word = {1}
      BY <3>1
    <3>8. c - p = 1
      <4>1. c - p \in Nat \ {0}
        BY <1>1, <1>3, <1>4, <1>10
      <4>2. c - p \in {1}
        BY <3>3, <3>7, <4>1
      <4>3. QED BY <4>2
    <3>9. file[p] = word[1] /\ c = p + 1
      BY <1>1, <1>3, <1>4, <3>3, <3>8
    <3> HIDE DEF word
    <3>10. file[p] \in {FROM, IMPORT} /\ (file[p] = FROM => word = <<FROM>>)
      BY <3>1, <3>9 DEF FROM, IMPORT
    <3>11. file[p] = FROM /\ file[c] = SP => p = 1 \/ file[p - 1] = NL
      <4>1. p = base + 1 => p - 1 = base
        BY <1>1
      <4>2. QED BY <1>1, <1>5, <3>2, <3>5, <3>10, <4>1
    <3>12. p < Len(file)
      BY <1>1, <1>3, <1>4, <3>9
    <3>13. QED BY <3>6, <3>9, <3>10, <3>11, <3>12 DEF Keyword
  <2>6. tok'.type \in {"from", "import", "identifier"}
    BY <2>1 DEF GetTokenType
  <2>7. \E r \in (here + 1) .. off : Within(r) /\ Uncommented(r)
    BY <2>2, <2>3, <2>4
  <2>8. tok'.type \in {"from", "import"} => \E k \in here .. off : Ahead(k) /\ Keyword(file, k)
    BY <1>2, <1>4, <2>5
  <2>9. QED BY <2>6, <2>7, <2>8
<1>11. file[c] \in Delimiter /\ (c = p => file[c] \in {COMMA, HASH, NL})
  BY <1>2, <1>3, <1>6 DEF ReadFrom, Stops
<1>12. QED BY <1>8, <1>9, <1>10, <1>11

(***************************************************************************)
(* Between lines: the buffer holds a line, or nothing was read yet, or the *)
(* file is at its end.                                                     *)
(***************************************************************************)
LineRead ==
  /\ buf # <<>> => LineInBuffer
  /\ buf = <<>> => off = Len(file) \/ (off = 0 /\ buf_view.len = 0)

(* Before the first line there is nothing to scan.                          *)
LEMMA ReadFirst ==
  ASSUME TypeOK, UpdateToken, buf_view.len = 0
  PROVE  Over
<1>1. PICK t \in NextTokens :
        LET lineOver == t.type \in {"newline", "comment"}
        IN  \/ /\ lineOver /\ off < Len(file)
               /\ GetLine /\ AtToken(t, t.type, line_counter, t.col)
            \/ /\ lineOver /\ off = Len(file)
               /\ GetLineFails /\ AtToken(t, "end", 0, 0)
            \/ /\ ~lineOver
               /\ IncBuff(t) /\ AtToken(t, t.type, line_counter, t.col)
  BY DEF UpdateToken
<1>2. PICK text : t = NextToken(text, buf_view.at, ViewEnd)
  BY NextTokensProperties
<1>3. ViewEnd = buf_view.at /\ buf_view.at \in Nat
  BY DEF TypeOK, ViewEnd
<1>4. FindFirstNotSpace(text, buf_view.at, ViewEnd) = buf_view.at
  BY <1>3 DEF FindFirstNotSpace
<1>5. t.type = "newline"
  BY <1>2, <1>3, <1>4 DEF NextToken
<1>6. QED BY <1>1, <1>5 DEF Over, AtToken

(* The next line.                                                           *)
LEMMA NextLine ==
  ASSUME TypeOK, FitsBuffer(file), LineRead, UpdateToken, off < Len(file), GetLine
  PROVE  /\ buf' # <<>> /\ LineInBuffer'
         /\ base' = off /\ here' = off + 1
         /\ line_counter' = line_counter + 1
<1>1. off = 0 \/ file[off] = NL
  BY DEF LineRead, LineInBuffer, IsLine
<1>2. /\ off \in Nat /\ Len(file) \in Nat /\ file' = file /\ off' = ChunkEnd
  BY UpdateTokenProperties DEF TypeOK, GetLine
<1>3. /\ ChunkEnd \in (off + 1) .. Len(file)
      /\ file[ChunkEnd] = NL
      /\ \A k \in (off + 1) .. Len(file) : file[k] = NL => ChunkEnd <= k
  BY ReadsOneLine
<1>4. /\ Len(buf') = ChunkEnd - off
      /\ Len(buf') \in 1 .. (BufSize - 1)
      /\ \A i \in 1 .. Len(buf') : buf'[i] = file[off + i]
      /\ buf_view' = [at |-> 1, len |-> Len(buf')]
      /\ line_counter' = line_counter + 1
  BY GetLineProperties
<1> HIDE DEF ChunkEnd
<1>5. base' = off /\ here' = off + 1
  BY <1>2, <1>3, <1>4 DEF base, here
<1>6. buf' # <<>>
  BY <1>4
<1>7. IsLine(file, off + 1, ChunkEnd)
  BY <1>1, <1>2, <1>3 DEF IsLine
<1>8. LineInBuffer'
  BY <1>2, <1>4, <1>5, <1>7 DEF LineInBuffer
<1>9. QED BY <1>4, <1>5, <1>6, <1>8

LEMMA LineReadStep ==
  ASSUME TypeOK, FitsBuffer(file), LineRead, UpdateToken
  PROVE  LineRead'
<1>1. file' = file
  BY UpdateTokenProperties
<1>2. CASE off < Len(file) /\ GetLine
  BY <1>2, NextLine DEF LineRead
<1>3. CASE off = Len(file) /\ GetLineFails
  BY <1>1, <1>3 DEF GetLineFails, LineRead
<1>4. CASE ~Over
  <2>1. buf' = buf /\ off' = off
    BY <1>4 DEF UpdateToken, Over, AtToken, IncBuff
  <2>2. CASE buf # <<>>
    BY <1>1, <2>1, <2>2 DEF LineRead, LineInBuffer, base
  <2>3. CASE buf = <<>>
    BY <1>1, <1>4, <2>1, <2>3, ReadFirst DEF LineRead
  <2>4. QED BY <2>2, <2>3
<1>5. QED BY <1>2, <1>3, <1>4 DEF Over

-----------------------------------------------------------------------------
(* What the list names, and what of the program has been read               *)

LEMMA RangeOfAppend ==
  ASSUME NEW S, NEW s \in Seq(S), NEW e \in S
  PROVE  Range(Append(s, e)) = Range(s) \cup {e}
<1>1. /\ DOMAIN s = 1 .. Len(s) /\ Len(s) \in Nat
      /\ DOMAIN Append(s, e) = 1 .. (Len(s) + 1)
      /\ \A i \in 1 .. Len(s) : Append(s, e)[i] = s[i]
      /\ Append(s, e)[Len(s) + 1] = e
  BY AppendProperties
<1>2. ASSUME NEW v PROVE v \in Range(Append(s, e)) <=> v \in Range(s) \cup {e}
  <2>1. v \in Range(Append(s, e)) <=> \E i \in 1 .. (Len(s) + 1) : v = Append(s, e)[i]
    BY <1>1 DEF Range
  <2>2. v \in Range(s) <=> \E i \in 1 .. Len(s) : v = s[i]
    BY <1>1 DEF Range
  <2>3. QED BY <1>1, <2>1, <2>2
<1>3. QED BY <1>2

(* What the node under construction names.                                  *)
NodeModules == IF node.kind = "IMPORT" THEN Range(node.imports) ELSE {}
NodeFrom    == IF node.kind = "FROM" THEN {node.title} \X Range(node.imports) ELSE {}

LEMMA NoNodeNames ==
  ASSUME node = NoNode
  PROVE  NodeModules = {} /\ NodeFrom = {}
<1>1. Range(<<>>) = {}
  BY DEF Range
<1>2. QED BY <1>1 DEF NodeModules, NodeFrom, NoNode

LEMMA ListedIs ==
  /\ \A w : w \in ListedModules <=>
              \E n \in DOMAIN modules :
                modules[n].kind = "IMPORT" /\ w \in Range(modules[n].imports)
  /\ \A w : w \in ListedFrom <=>
              \E n \in DOMAIN modules :
                modules[n].kind = "FROM" /\ w \in {modules[n].title} \X Range(modules[n].imports)
BY DEF ListedModules, ListedFrom

(* The node becomes an entry.                                               *)
LEMMA AppendedNames ==
  ASSUME TypeOK, NEW l, modules' = Append(modules, AtLine(node, l)), AtLine(node, l) \in Module
  PROVE  /\ ListedModules' = ListedModules \cup NodeModules
         /\ ListedFrom' = ListedFrom \cup NodeFrom
<1> DEFINE m == AtLine(node, l)
           z == Len(modules)
<1>1. /\ DOMAIN modules = 1 .. z /\ z \in Nat
      /\ DOMAIN modules' = 1 .. (z + 1)
      /\ \A i \in 1 .. z : modules'[i] = modules[i]
      /\ modules'[z + 1] = m
  BY AppendProperties DEF TypeOK
<1>2. m.kind = node.kind /\ m.title = node.title /\ m.imports = node.imports
  BY DEF AtLine
<1>3. node.kind \in {"FROM", "IMPORT"}
  BY DEF TypeOK, Module
<1> HIDE DEF m, z
<1>4. ASSUME NEW w PROVE w \in ListedModules' <=> w \in ListedModules \cup NodeModules
  <2>1. w \in ListedModules' <=>
          \E n \in 1 .. (z + 1) : modules'[n].kind = "IMPORT" /\ w \in Range(modules'[n].imports)
    BY <1>1 DEF ListedModules
  <2>2. w \in ListedModules <=>
          \E n \in 1 .. z : modules[n].kind = "IMPORT" /\ w \in Range(modules[n].imports)
    BY <1>1 DEF ListedModules
  <2>3. w \in NodeModules <=> m.kind = "IMPORT" /\ w \in Range(m.imports)
    BY <1>2 DEF NodeModules
  <2>4. QED BY <1>1, <2>1, <2>2, <2>3
<1>5. ASSUME NEW w PROVE w \in ListedFrom' <=> w \in ListedFrom \cup NodeFrom
  <2>1. w \in ListedFrom' <=>
          \E n \in 1 .. (z + 1) :
            modules'[n].kind = "FROM" /\ w \in {modules'[n].title} \X Range(modules'[n].imports)
    BY <1>1 DEF ListedFrom
  <2>2. w \in ListedFrom <=>
          \E n \in 1 .. z :
            modules[n].kind = "FROM" /\ w \in {modules[n].title} \X Range(modules[n].imports)
    BY <1>1 DEF ListedFrom
  <2>3. w \in NodeFrom <=> m.kind = "FROM" /\ w \in {m.title} \X Range(m.imports)
    BY <1>2 DEF NodeFrom
  <2> DEFINE P(k) == k.kind = "FROM" /\ w \in {k.title} \X Range(k.imports)
  <2>4. \A k : P(k) <=> k.kind = "FROM" /\ w \in {k.title} \X Range(k.imports)
    OBVIOUS
  <2> HIDE DEF P
  <2>5. w \in ListedFrom' <=> \E n \in 1 .. (z + 1) : P(modules'[n])
    BY <2>1, <2>4
  <2>6. w \in ListedFrom <=> \E n \in 1 .. z : P(modules[n])
    BY <2>2, <2>4
  <2>7. w \in NodeFrom <=> P(m)
    BY <2>3, <2>4
  <2>8. QED BY <1>1, <2>5, <2>6, <2>7
<1>6. QED BY <1>4, <1>5

(* A library of the list gains a name.                                      *)
LEMMA ExtendedNames ==
  ASSUME TypeOK, NEW t \in DOMAIN modules, modules[t].kind = "FROM",
         NEW w \in Name, CopyCStr(w) = w,
         modules' = [modules EXCEPT ![t] = WithImport(modules[t], w)]
  PROVE  /\ ListedModules' = ListedModules
         /\ ListedFrom' = ListedFrom \cup {<<modules[t].title, w>>}
<1>1. /\ DOMAIN modules' = DOMAIN modules
      /\ \A i \in DOMAIN modules : i # t => modules'[i] = modules[i]
      /\ modules'[t] = WithImport(modules[t], w)
  BY DEF TypeOK
<1>2. /\ modules'[t].kind = "FROM" /\ modules'[t].title = modules[t].title
      /\ modules'[t].imports = Append(modules[t].imports, w)
  BY <1>1 DEF WithImport
<1>3. modules[t].imports \in Seq(Name)
  <2>1. modules[t] \in Module
    BY DEF TypeOK
  <2>2. QED BY <2>1 DEF Module
<1>4. Range(modules'[t].imports) = Range(modules[t].imports) \cup {w}
  <2>1. Range(Append(modules[t].imports, w)) = Range(modules[t].imports) \cup {w}
    BY <1>3, RangeOfAppend
  <2>2. QED BY <1>2, <2>1
<1>5. ASSUME NEW v PROVE v \in ListedModules' <=> v \in ListedModules
  <2>1. v \in ListedModules' <=>
          \E n \in DOMAIN modules : modules'[n].kind = "IMPORT" /\ v \in Range(modules'[n].imports)
    BY <1>1 DEF ListedModules
  <2>2. v \in ListedModules <=>
          \E n \in DOMAIN modules : modules[n].kind = "IMPORT" /\ v \in Range(modules[n].imports)
    BY DEF ListedModules
  <2>3. QED BY <1>1, <1>2, <2>1, <2>2
<1>6. ASSUME NEW v PROVE v \in ListedFrom' <=> v \in ListedFrom \cup {<<modules[t].title, w>>}
  <2> DEFINE P(m) == m.kind = "FROM" /\ v \in {m.title} \X Range(m.imports)
  <2>1. v \in ListedFrom' <=> \E n \in DOMAIN modules : P(modules'[n])
    BY <1>1 DEF ListedFrom
  <2>2. v \in ListedFrom <=> \E n \in DOMAIN modules : P(modules[n])
    BY DEF ListedFrom
  <2>3. P(modules'[t]) <=> P(modules[t]) \/ v = <<modules[t].title, w>>
    BY <1>2, <1>4
  <2> HIDE DEF P
  <2>4. QED BY <1>1, <2>1, <2>2, <2>3
<1>7. QED BY <1>5, <1>6

(***************************************************************************)
(* What has been read: all names of the first d statements, and the first  *)
(* x names of the next one.                                                *)
(***************************************************************************)
Start(i)     == statements[i].start
End(i)       == statements[i].end
NameAt(i, x) == statements[i].names[x]
NumNames(i)  == Len(statements[i].names)

Seen(d, x, i)     == IF i <= d THEN NumNames(i) ELSE IF i = d + 1 THEN x ELSE 0
SeenOf(d, x, i)   == {NameOf(i, y) : y \in 1 .. Seen(d, x, i)}
SeenModules(d, x) == UNION {SeenOf(d, x, i) : i \in ImportStatements}
SeenFrom(d, x)    == UNION {{TitleOf(i)} \X SeenOf(d, x, i) : i \in FromStatements}

LEMMA StatementTypes ==
  ASSUME program \in PythonProgram
  PROVE  /\ statements \in Seq(PyStatement) /\ Len(statements) \in Nat
         /\ DOMAIN statements = 1 .. Len(statements)
         /\ \A i \in DOMAIN statements :
              /\ statements[i] \in PyStatement /\ statements[i].names \in Seq(Position)
              /\ statements[i].kind \in {"import", "from"}
              /\ NumNames(i) \in Nat /\ DOMAIN statements[i].names = 1 .. NumNames(i)
<1>1. statements \in Seq(PyStatement)
  BY DEF PythonProgram, statements
<1>2. Len(statements) \in Nat /\ DOMAIN statements = 1 .. Len(statements)
  BY <1>1
<1>3. \A i \in DOMAIN statements : statements[i] \in PyStatement
  BY <1>1
<1>4. ASSUME NEW s \in PyStatement
      PROVE  /\ s.names \in Seq(Position) /\ s.kind \in {"import", "from"}
             /\ Len(s.names) \in Nat /\ DOMAIN s.names = 1 .. Len(s.names)
  BY DEF PyStatement
<1>5. QED BY <1>1, <1>2, <1>3, <1>4 DEF NumNames

(* The next name.                                                           *)
LEMMA SeenNext ==
  ASSUME program \in PythonProgram,
         NEW d \in Nat, d + 1 \in DOMAIN statements, NEW x \in Nat
  PROVE  /\ statements[d + 1].kind = "import" =>
              /\ SeenModules(d, x + 1) = SeenModules(d, x) \cup {NameOf(d + 1, x + 1)}
              /\ SeenFrom(d, x + 1) = SeenFrom(d, x)
         /\ statements[d + 1].kind = "from" =>
              /\ SeenFrom(d, x + 1) =
                   SeenFrom(d, x) \cup {<<TitleOf(d + 1), NameOf(d + 1, x + 1)>>}
              /\ SeenModules(d, x + 1) = SeenModules(d, x)
<1>1. \A i \in DOMAIN statements : i \in Nat
  BY StatementTypes
<1>2. ASSUME NEW i \in DOMAIN statements, i # d + 1
      PROVE  SeenOf(d, x + 1, i) = SeenOf(d, x, i)
  BY <1>1, <1>2 DEF SeenOf, Seen
<1>3. SeenOf(d, x + 1, d + 1) = SeenOf(d, x, d + 1) \cup {NameOf(d + 1, x + 1)}
  <2>1. Seen(d, x + 1, d + 1) = x + 1 /\ Seen(d, x, d + 1) = x
    BY DEF Seen
  <2>2. 1 .. (x + 1) = (1 .. x) \cup {x + 1}
    OBVIOUS
  <2>3. QED BY <2>1, <2>2 DEF SeenOf
<1>4. CASE statements[d + 1].kind = "import"
  <2>1. SeenFrom(d, x + 1) = SeenFrom(d, x)
    <3>1. \A i \in FromStatements : SeenOf(d, x + 1, i) = SeenOf(d, x, i)
      BY <1>2, <1>4 DEF FromStatements
    <3>2. QED BY <3>1 DEF SeenFrom
  <2>2. d + 1 \in ImportStatements
    BY <1>4 DEF ImportStatements
  <2>3. SeenModules(d, x + 1) = SeenModules(d, x) \cup {NameOf(d + 1, x + 1)}
    <3>1. \A i \in ImportStatements : i # d + 1 => SeenOf(d, x + 1, i) = SeenOf(d, x, i)
      BY <1>2 DEF ImportStatements
    <3>2. ASSUME NEW w
          PROVE  w \in SeenModules(d, x + 1) <=> w \in SeenModules(d, x) \cup {NameOf(d + 1, x + 1)}
      <4>1. w \in SeenModules(d, x + 1) <=> \E i \in ImportStatements : w \in SeenOf(d, x + 1, i)
        BY DEF SeenModules
      <4>2. w \in SeenModules(d, x) <=> \E i \in ImportStatements : w \in SeenOf(d, x, i)
        BY DEF SeenModules
      <4>3. QED BY <1>3, <2>2, <3>1, <4>1, <4>2
    <3>3. QED BY <3>2
  <2>4. QED BY <1>4, <2>1, <2>3
<1>5. CASE statements[d + 1].kind = "from"
  <2>1. SeenModules(d, x + 1) = SeenModules(d, x)
    <3>1. \A i \in ImportStatements : SeenOf(d, x + 1, i) = SeenOf(d, x, i)
      BY <1>2, <1>5 DEF ImportStatements
    <3>2. QED BY <3>1 DEF SeenModules
  <2>2. d + 1 \in FromStatements
    BY <1>5 DEF FromStatements
  <2>3. SeenFrom(d, x + 1) = SeenFrom(d, x) \cup {<<TitleOf(d + 1), NameOf(d + 1, x + 1)>>}
    <3> DEFINE old(i) == {TitleOf(i)} \X SeenOf(d, x, i)
               new(i) == {TitleOf(i)} \X SeenOf(d, x + 1, i)
    <3>1. \A i \in FromStatements : i # d + 1 => new(i) = old(i)
      BY <1>2 DEF FromStatements
    <3>2. new(d + 1) = old(d + 1) \cup {<<TitleOf(d + 1), NameOf(d + 1, x + 1)>>}
      BY <1>3
    <3>3. ASSUME NEW w
          PROVE  w \in SeenFrom(d, x + 1)
                   <=> w \in SeenFrom(d, x) \cup {<<TitleOf(d + 1), NameOf(d + 1, x + 1)>>}
      <4>1. w \in SeenFrom(d, x + 1) <=> \E i \in FromStatements : w \in new(i)
        BY DEF SeenFrom
      <4>2. w \in SeenFrom(d, x) <=> \E i \in FromStatements : w \in old(i)
        BY DEF SeenFrom
      <4> HIDE DEF old, new
      <4>3. QED BY <2>2, <3>1, <3>2, <4>1, <4>2
    <3>4. QED BY <3>3
  <2>4. QED BY <1>5, <2>1, <2>3
<1>6. QED BY <1>4, <1>5, StatementTypes

(* All names of a statement read, and all statements.                       *)
LEMMA SeenWhole ==
  ASSUME program \in PythonProgram, NEW d \in Nat
  PROVE  /\ d + 1 \in DOMAIN statements =>
              /\ SeenModules(d, NumNames(d + 1)) = SeenModules(d + 1, 0)
              /\ SeenFrom(d, NumNames(d + 1)) = SeenFrom(d + 1, 0)
         /\ SeenModules(Len(statements), 0) = ImportedModules
         /\ SeenFrom(Len(statements), 0) = ImportedFrom
         /\ SeenModules(0, 0) = {} /\ SeenFrom(0, 0) = {}
<1>1. \A i \in DOMAIN statements : i \in 1 .. Len(statements)
  BY StatementTypes
<1>2. ASSUME d + 1 \in DOMAIN statements, NEW i \in DOMAIN statements
      PROVE  SeenOf(d, NumNames(d + 1), i) = SeenOf(d + 1, 0, i)
  BY <1>1 DEF SeenOf, Seen
<1>3. ASSUME NEW i \in DOMAIN statements
      PROVE  SeenOf(Len(statements), 0, i) = NamesOf(i) /\ SeenOf(0, 0, i) = {}
  <2>1. Seen(Len(statements), 0, i) = NumNames(i) /\ Seen(0, 0, i) = 0
    BY <1>1 DEF Seen
  <2>2. DOMAIN statements[i].names = 1 .. NumNames(i)
    BY StatementTypes
  <2>3. QED BY <2>1, <2>2 DEF SeenOf, NamesOf
<1>4. ImportStatements \subseteq DOMAIN statements /\ FromStatements \subseteq DOMAIN statements
  BY DEF ImportStatements, FromStatements
<1>5. d + 1 \in DOMAIN statements =>
        /\ SeenModules(d, NumNames(d + 1)) = SeenModules(d + 1, 0)
        /\ SeenFrom(d, NumNames(d + 1)) = SeenFrom(d + 1, 0)
  <2> SUFFICES ASSUME d + 1 \in DOMAIN statements
               PROVE  /\ SeenModules(d, NumNames(d + 1)) = SeenModules(d + 1, 0)
                      /\ SeenFrom(d, NumNames(d + 1)) = SeenFrom(d + 1, 0)
    OBVIOUS
  <2>1. \A i \in DOMAIN statements : SeenOf(d, NumNames(d + 1), i) = SeenOf(d + 1, 0, i)
    BY <1>2
  <2>2. QED BY <1>4, <2>1 DEF SeenModules, SeenFrom
<1>6. /\ SeenModules(Len(statements), 0) = ImportedModules
      /\ SeenFrom(Len(statements), 0) = ImportedFrom
  BY <1>3, <1>4 DEF SeenModules, SeenFrom, ImportedModules, ImportedFrom
<1>7. SeenModules(0, 0) = {} /\ SeenFrom(0, 0) = {}
  BY <1>3, <1>4 DEF SeenModules, SeenFrom
<1>8. QED BY <1>5, <1>6, <1>7

-----------------------------------------------------------------------------
(* Which statement an entry of the list comes from                          *)

(* The line recorded for an entry: the counter after the token that ended   *)
(* the statement was read.                                                  *)
LineAfter(i) == IF End(i) = Len(program.text) THEN LineOf(i) ELSE LineOf(i) + 1

Originates(f, d) ==
  /\ \A n \in DOMAIN modules : EntryOf(n, f[n]) /\ modules[n].line = LineAfter(f[n])
  /\ \A m, n \in DOMAIN modules : m < n => f[m] < f[n]
  /\ Range(f) = Leading \cap (1 .. d)
Origin(d) == \E f \in [DOMAIN modules -> DOMAIN statements] : Originates(f, d)

LEMMA ProgramStays ==
  ASSUME program' = program, squash' = squash
  PROVE  /\ statements' = statements /\ Leading' = Leading
         /\ \A i : TitleOf(i)' = TitleOf(i) /\ LineAfter(i)' = LineAfter(i)
         /\ \A d, x : SeenModules(d, x)' = SeenModules(d, x) /\ SeenFrom(d, x)' = SeenFrom(d, x)
         /\ \A i, x : NameOf(i, x)' = NameOf(i, x)
<1>1. statements' = statements
  BY DEF statements
<1>2. \A i : TitleOf(i)' = TitleOf(i)
  BY <1>1 DEF TitleOf
<1>3. \A i, x : NameOf(i, x)' = NameOf(i, x)
  BY <1>1 DEF NameOf
<1>4. ImportStatements' = ImportStatements /\ FromStatements' = FromStatements
  BY <1>1 DEF ImportStatements, FromStatements
<1>5. \A i : NamesOf(i)' = NamesOf(i)
  BY <1>1 DEF NamesOf, NameOf
<1>6. Leading' = Leading
  BY <1>1 DEF Leading, ImportStatements, FromStatements, NamesOf, NameOf, TitleOf
<1>7. \A i : LineAfter(i)' = LineAfter(i)
  BY <1>1 DEF LineAfter, LineOf, End
<1>8. \A d, x : SeenModules(d, x)' = SeenModules(d, x) /\ SeenFrom(d, x)' = SeenFrom(d, x)
  BY <1>1 DEF SeenModules, SeenFrom, SeenOf, Seen, ImportStatements, FromStatements,
              NameOf, TitleOf, NumNames
<1>9. QED BY <1>1, <1>2, <1>3, <1>6, <1>7, <1>8

(* A step that keeps kind, title and line of every entry.                   *)
LEMMA OriginKept ==
  ASSUME program \in PythonProgram, program' = program, squash' = squash,
         NEW d, NEW e, Origin(d), Leading \cap (1 .. e) = Leading \cap (1 .. d),
         DOMAIN modules' = DOMAIN modules,
         \A n \in DOMAIN modules : /\ modules'[n].kind = modules[n].kind
                                   /\ modules'[n].title = modules[n].title
                                   /\ modules'[n].line = modules[n].line
  PROVE  Origin(e)'
<1>1. PICK f \in [DOMAIN modules -> DOMAIN statements] : Originates(f, d)
  BY DEF Origin
<1>2. /\ statements' = statements /\ Leading' = Leading
      /\ \A i : TitleOf(i)' = TitleOf(i) /\ LineAfter(i)' = LineAfter(i)
  BY ProgramStays
<1>3. \A n \in DOMAIN modules : EntryOf(n, f[n]) => EntryOf(n, f[n])'
  BY <1>2 DEF EntryOf, TitleOf, statements
<1>4. \A n \in DOMAIN modules' :
        EntryOf(n, f[n])' /\ modules'[n].line = LineAfter(f[n])'
  BY <1>1, <1>2, <1>3 DEF Originates
<1>5. Originates(f, e)'
  BY <1>1, <1>2, <1>4 DEF Originates
<1>6. QED BY <1>1, <1>2, <1>5 DEF Origin

(* A statement that begins something is recorded at the end of the list.    *)
LEMMA OriginAppended ==
  ASSUME TypeOK, program \in PythonProgram, program' = program, squash' = squash,
         NEW d \in Nat, Origin(d), d + 1 \in Leading,
         NEW m \in Module, modules' = Append(modules, m), m.line = LineAfter(d + 1),
         IF statements[d + 1].kind = "import" THEN m.kind = "IMPORT"
         ELSE m.kind = "FROM" /\ m.title = TitleOf(d + 1)
  PROVE  Origin(d + 1)'
<1>1. PICK f \in [DOMAIN modules -> DOMAIN statements] : Originates(f, d)
  BY DEF Origin
<1>2. /\ statements' = statements /\ Leading' = Leading
      /\ \A i : TitleOf(i)' = TitleOf(i) /\ LineAfter(i)' = LineAfter(i)
  BY ProgramStays
<1>3. PICK z \in Nat :
        /\ DOMAIN modules = 1 .. z
        /\ DOMAIN modules' = 1 .. (z + 1)
        /\ \A i \in 1 .. z : modules'[i] = modules[i]
        /\ modules'[z + 1] = m
  <2> DEFINE z == Len(modules)
  <2>1. /\ z \in Nat
        /\ DOMAIN modules = 1 .. z
        /\ DOMAIN modules' = 1 .. (z + 1)
        /\ \A i \in 1 .. z : modules'[i] = modules[i]
        /\ modules'[z + 1] = m
    BY AppendProperties DEF TypeOK
  <2> HIDE DEF z
  <2>2. QED BY <2>1
<1>4. /\ d + 1 \in DOMAIN statements
      /\ DOMAIN statements = 1 .. Len(statements) /\ Len(statements) \in Nat
  BY StatementTypes DEF Leading, ImportStatements, FromStatements
<1>5. PICK g \in [DOMAIN modules' -> DOMAIN statements] :
        g[z + 1] = d + 1 /\ \A n \in 1 .. z : g[n] = f[n]
  <2> DEFINE g == [n \in 1 .. (z + 1) |-> IF n = z + 1 THEN d + 1 ELSE f[n]]
  <2>1. /\ g \in [DOMAIN modules' -> DOMAIN statements]
        /\ g[z + 1] = d + 1 /\ \A n \in 1 .. z : g[n] = f[n]
    BY <1>1, <1>3, <1>4
  <2> HIDE DEF g
  <2>2. QED BY <2>1
<1>6. Range(f) = Leading \cap (1 .. d) /\ \A n \in 1 .. z : f[n] \in 1 .. d
  BY <1>1, <1>3 DEF Originates, Range
<1>7. Range(g) = Range(f) \cup {d + 1}
  <2>1. DOMAIN g = 1 .. (z + 1) /\ DOMAIN f = 1 .. z
    BY <1>1, <1>3, <1>5
  <2>2. ASSUME NEW v PROVE v \in Range(g) <=> v \in Range(f) \cup {d + 1}
    <3>1. v \in Range(g) <=> \E n \in 1 .. (z + 1) : v = g[n]
      BY <2>1 DEF Range
    <3>2. v \in Range(f) <=> \E n \in 1 .. z : v = f[n]
      BY <2>1 DEF Range
    <3>3. QED BY <1>3, <1>5, <3>1, <3>2
  <2>3. QED BY <2>2
<1>8. Range(g) = Leading' \cap (1 .. (d + 1))
  BY <1>2, <1>6, <1>7
<1>9. \A k, n \in DOMAIN modules' : k < n => g[k] < g[n]
  <2> TAKE k, n \in DOMAIN modules'
  <2> HAVE k < n
  <2>1. k \in 1 .. z /\ g[k] = f[k]
    BY <1>3, <1>5
  <2>2. CASE n = z + 1
    BY <1>5, <1>6, <2>1, <2>2
  <2>3. CASE n \in 1 .. z
    BY <1>1, <1>3, <1>5, <2>1, <2>3 DEF Originates
  <2>4. QED BY <1>3, <2>2, <2>3
<1>10. \A n \in DOMAIN modules' : EntryOf(n, g[n])' /\ modules'[n].line = LineAfter(g[n])'
  <2> TAKE n \in DOMAIN modules'
  <2>1. CASE n = z + 1
    <3>1. g[n] = d + 1 /\ modules'[n] = m
      BY <1>3, <1>5, <2>1
    <3>2. EntryOf(n, g[n])'
      BY <1>2, <3>1 DEF EntryOf, TitleOf, statements
    <3>3. LineAfter(g[n])' = LineAfter(g[n])
      BY <1>2
    <3>4. QED BY <3>1, <3>2, <3>3
  <2>2. CASE n \in 1 .. z
    <3>1. g[n] = f[n] /\ modules'[n] = modules[n]
      BY <1>3, <1>5, <2>2
    <3>2. EntryOf(n, g[n]) /\ modules[n].line = LineAfter(g[n])
      BY <1>1, <1>3, <2>2, <3>1 DEF Originates
    <3>3. EntryOf(n, g[n])'
      BY <1>2, <3>1, <3>2 DEF EntryOf, TitleOf, statements
    <3>4. LineAfter(g[n])' = LineAfter(g[n])
      BY <1>2
    <3>5. QED BY <3>1, <3>2, <3>3, <3>4
  <2>3. QED BY <1>3, <2>1, <2>2
<1>11. Originates(g, d + 1)'
  BY <1>8, <1>9, <1>10 DEF Originates
<1>12. QED BY <1>2, <1>5, <1>11 DEF Origin

-----------------------------------------------------------------------------
(* Reading a statement                                                      *)

(* Two lines that share a place are one line.                               *)
LEMMA SameLine ==
  ASSUME NEW text, Len(text) \in Nat, NEW s, NEW e, IsLine(text, s, e),
         NEW u, NEW v, IsLine(text, u, v), NEW k \in s .. e, k \in u .. v
  PROVE  s = u /\ e = v
<1>1. /\ s \in Nat \ {0} /\ e \in Nat /\ u \in Nat \ {0} /\ v \in Nat
      /\ k \in Nat /\ s <= k /\ k <= e /\ u <= k /\ k <= v
  BY DEF IsLine
<1>2. ~(e < v)
  <2>1. e < v => e \in u .. (v - 1)
    BY <1>1
  <2>2. QED BY <2>1 DEF IsLine
<1>3. ~(v < e)
  <2>1. v < e => v \in s .. (e - 1)
    BY <1>1
  <2>2. QED BY <2>1 DEF IsLine
<1>4. ~(s < u)
  <2>1. s < u => u - 1 \in s .. (e - 1) /\ u # 1
    BY <1>1
  <2>2. QED BY <2>1 DEF IsLine
<1>5. ~(u < s)
  <2>1. u < s => s - 1 \in u .. (v - 1) /\ s # 1
    BY <1>1
  <2>2. QED BY <2>1 DEF IsLine
<1>6. QED BY <1>1, <1>2, <1>3, <1>4, <1>5

(* How a statement is written, in terms of its parts.                       *)
TitleAt(i)  == statements[i].title
ImportAt(i) == statements[i].import

LEMMA StatementWritten ==
  ASSUME program \in PythonProgram, Covered(program), file = program.text,
         NEW i \in DOMAIN statements
  PROVE  /\ IsLine(file, Start(i), End(i)) /\ FitsBuffer(file)
         /\ Start(i) \in Nat /\ End(i) \in Nat /\ NumNames(i) \in Nat
         /\ NumNames(i) > 0
         /\ \A x \in 1 .. NumNames(i) :
              NameAt(i, x) \in Start(i) .. End(i) /\ file[NameAt(i, x)] \in Words
         /\ \A x \in 1 .. (NumNames(i) - 1) :
              \E c \in Start(i) .. End(i) : CommaAt(file, c, NameAt(i, x), NameAt(i, x + 1))
         /\ \E c \in Start(i) .. End(i) : OverAt(file, c, NameAt(i, NumNames(i)), End(i))
         /\ Apart(file, ImportAt(i), NameAt(i, 1))
         /\ statements[i].kind = "import" => file[Start(i)] = IMPORT /\ ImportAt(i) = Start(i)
         /\ statements[i].kind = "from" =>
              /\ file[Start(i)] = FROM
              /\ TitleAt(i) \in Start(i) .. End(i) /\ file[TitleAt(i)] \in Words
              /\ Apart(file, Start(i), TitleAt(i))
              /\ ImportAt(i) \in Start(i) .. End(i) /\ file[ImportAt(i)] = IMPORT
              /\ Apart(file, TitleAt(i), ImportAt(i))
<1>1. IsStatement(file, statements[i]) /\ FitsBuffer(file)
  BY DEF Covered, statements
<1>2. IsLine(file, Start(i), End(i))
  BY <1>1 DEF IsStatement, Start, End
<1>3. Start(i) \in Nat /\ End(i) \in Nat
  <2>1. Len(file) \in Nat
    BY DEF PythonProgram
  <2>2. QED BY <1>2, <2>1 DEF IsLine
<1>4. NumNames(i) \in Nat /\ statements[i].kind \in {"import", "from"}
  BY StatementTypes
<1>5. NamesListed(file, statements[i]) /\ Apart(file, ImportAt(i), NameAt(i, 1))
  BY <1>1 DEF IsStatement, ImportAt, NameAt
<1>6. statements[i].kind = "import" => ImportWritten(file, statements[i])
  BY <1>1 DEF IsStatement
<1>7. statements[i].kind = "from" => FromWritten(file, statements[i])
  BY <1>1 DEF IsStatement
<1>8. /\ NumNames(i) > 0
      /\ \A x \in 1 .. NumNames(i) : NameAt(i, x) \in Start(i) .. End(i) /\ file[NameAt(i, x)] \in Words
      /\ \A x \in 1 .. (NumNames(i) - 1) :
           \E c \in Start(i) .. End(i) : CommaAt(file, c, NameAt(i, x), NameAt(i, x + 1))
      /\ \E c \in Start(i) .. End(i) : OverAt(file, c, NameAt(i, NumNames(i)), End(i))
  BY <1>5 DEF NamesListed, NumNames, NameAt, Start, End
<1>9. QED BY <1>1, <1>2, <1>3, <1>4, <1>5, <1>6, <1>7, <1>8
        DEF ImportWritten, FromWritten, Start, End, TitleAt, ImportAt

(* After a token the scan goes on where the line goes on.                   *)
LEMMA AheadAfter ==
  ASSUME InLine, UpdateToken, NEW p \in Int, NEW q \in p .. off, Within(q),
         \A k \in p .. (q - 1) : file[k] = SP,
         NEW j \in p .. off, \A k \in p .. (j - 1) : file[k] = SP, file[j] # SP
  PROVE  Ahead(j)' /\ base' = base /\ UNCHANGED <<off, buf, line_counter>>
<1>1. off' = off /\ buf' = buf /\ line_counter' = line_counter /\ here' = q /\ file' = file
  BY UpdateTokenProperties DEF Within, InLine
<1>2. base' = base
  BY <1>1 DEF base
<1>3. off \in Nat
  BY DEF InLine, TypeOK
<1>4. q <= j
  <2>1. j < q => j \in p .. (q - 1)
    BY <1>3
  <2>2. QED BY <1>3, <2>1
<1>5. j \in q .. off /\ \A k \in q .. (j - 1) : file[k] = SP
  BY <1>3, <1>4
<1>6. Ahead(j)' <=> (j \in here' .. off' /\ \A k \in here' .. (j - 1) : file'[k] = SP)
  BY DEF Ahead
<1>7. QED BY <1>1, <1>2, <1>5, <1>6

(* A word with nothing but spaces between it and what follows.              *)
LEMMA ReadApart ==
  ASSUME InLine, UpdateToken, NEW p, Ahead(p), file[p] \in Words \cup {FROM, IMPORT},
         file[p] = FROM => p = base + 1,
         NEW j, j \in p .. off, Apart(file, p, j), file[j] # SP
  PROVE  /\ tok'.name = <<file[p]>> /\ tok'.type = GetTokenType(<<file[p]>>)
         /\ Ahead(j)' /\ base' = base /\ UNCHANGED <<off, buf, line_counter>>
<1>1. /\ p \in here .. off /\ off \in Nat /\ here \in (base + 1) .. off /\ base \in Nat
  BY InLineNumbers DEF Ahead
<1> HIDE DEF base, here
<1>2. p \in Nat /\ j \in Nat /\ p + 1 < j
  BY <1>1 DEF Apart
<1>3. \A k \in (p + 1) .. (j - 1) : file[k] = SP
  BY DEF Apart, Spaces
<1>4. file[p + 1] = SP /\ file[p] \notin Delimiter
  <2>1. p + 1 \in (p + 1) .. (j - 1)
    BY <1>2
  <2>2. file[p] \notin Delimiter
    BY DEF Delimiter, FROM, IMPORT, SP, COMMA, HASH, NL
  <2>3. QED BY <1>3, <2>1, <2>2
<1>5. /\ tok'.name = <<file[p]>> /\ tok'.type = GetTokenType(<<file[p]>>)
      /\ \E q \in (p + 1) .. off : Within(q) /\ \A k \in (p + 1) .. (q - 1) : file[k] = SP
  BY <1>4, ReadWord
<1>6. PICK q \in (p + 1) .. off : Within(q) /\ \A k \in (p + 1) .. (q - 1) : file[k] = SP
  BY <1>5
<1>7. j \in (p + 1) .. off /\ p + 1 \in Int
  BY <1>1, <1>2
<1>8. Ahead(j)' /\ base' = base /\ UNCHANGED <<off, buf, line_counter>>
  BY <1>3, <1>6, <1>7, AheadAfter
<1>9. QED BY <1>5, <1>8

(* The program is covered; the buffer holds the line of statement i.        *)
Covers      == program \in PythonProgram /\ file = program.text /\ Covered(program)
InLineOf(i) == i \in DOMAIN statements /\ base + 1 = Start(i) /\ off = End(i)

(* Ahead is what follows the x-th name of statement i.                      *)
AtSeparator(i, x) ==
  \E c \in here .. off :
    /\ Ahead(c)
    /\ x < NumNames(i) => /\ file[c] = COMMA
                          /\ c < NameAt(i, x + 1) /\ Spaces(file, c, NameAt(i, x + 1))
    /\ x = NumNames(i) => file[c] \in {HASH, NL}

LEMMA StatementInLine ==
  ASSUME TypeOK, ViewBeforeNewline, LineRead, Covers, NEW i, InLineOf(i)
  PROVE  InLine
<1>1. IsLine(file, Start(i), End(i)) /\ FitsBuffer(file) /\ Start(i) \in Nat /\ End(i) \in Nat
  BY StatementWritten DEF Covers, InLineOf
<1>2. Start(i) <= End(i)
  BY <1>1 DEF IsLine
<1>3. buf # <<>>
  <2>1. buf = <<>> => Len(buf) = 0
    OBVIOUS
  <2>2. off \in Nat /\ Len(buf) \in Nat
    BY DEF TypeOK
  <2>3. QED BY <1>1, <1>2, <2>1, <2>2 DEF base, InLineOf
<1>4. QED BY <1>1, <1>3 DEF InLine, LineRead

(* The places of a statement do not move, and the line stays.               *)
LEMMA PlacesStay ==
  ASSUME program' = program
  PROVE  /\ statements' = statements
         /\ \A i : Start(i)' = Start(i) /\ End(i)' = End(i) /\ NumNames(i)' = NumNames(i)
         /\ \A i : TitleAt(i)' = TitleAt(i) /\ ImportAt(i)' = ImportAt(i)
         /\ \A i, x : NameAt(i, x)' = NameAt(i, x)
BY DEF statements, Start, End, NumNames, TitleAt, ImportAt, NameAt

LEMMA LineStays ==
  ASSUME program' = program, NEW i, InLineOf(i), base' = base, off' = off
  PROVE  InLineOf(i)'
BY PlacesStay DEF InLineOf

LEMMA ReadName ==
  ASSUME InLine, UpdateToken, Covers, program' = program, NEW i, InLineOf(i),
         NEW x \in 0 .. (NumNames(i) - 1), Ahead(NameAt(i, x + 1))
  PROVE  /\ tok'.type = "identifier" /\ tok'.name = NameOf(i, x + 1)
         /\ InLineOf(i)' /\ AtSeparator(i, x + 1)'
<1> DEFINE n == NumNames(i)
<1>1. /\ Start(i) \in Nat /\ End(i) \in Nat /\ n \in Nat
      /\ \A y \in 1 .. n : NameAt(i, y) \in Start(i) .. End(i) /\ file[NameAt(i, y)] \in Words
      /\ \A y \in 1 .. (n - 1) :
           \E c \in Start(i) .. End(i) : CommaAt(file, c, NameAt(i, y), NameAt(i, y + 1))
      /\ \E c \in Start(i) .. End(i) : OverAt(file, c, NameAt(i, n), End(i))
  BY StatementWritten DEF Covers, InLineOf
<1>2. PICK p : p = NameAt(i, x + 1)
  OBVIOUS
<1>3. x \in Nat /\ x + 1 \in 1 .. n
  BY <1>1
<1>4. p \in Start(i) .. End(i) /\ file[p] \in Words /\ p \in Nat
  BY <1>1, <1>2, <1>3
<1>5. off = End(i) /\ base + 1 = Start(i)
  BY DEF InLineOf
<1>6. PICK c \in Start(i) .. End(i) :
        /\ c > p /\ Spaces(file, p, c)
        /\ x + 1 < n => /\ file[c] = COMMA
                        /\ c < NameAt(i, x + 2) /\ Spaces(file, c, NameAt(i, x + 2))
        /\ x + 1 = n => file[c] = NL \/ (file[c] = HASH /\ p + 1 < c)
  <2>1. CASE x + 1 < n
    <3>1. x + 1 \in 1 .. (n - 1) /\ (x + 1) + 1 = x + 2 /\ x + 2 \in 1 .. n
      BY <1>1, <1>3, <2>1
    <3>2. PICK c \in Start(i) .. End(i) : CommaAt(file, c, p, NameAt(i, x + 2))
      BY <1>1, <1>2, <3>1
    <3>3. NameAt(i, x + 2) \in Nat
      BY <1>1, <3>1
    <3>4. QED BY <1>4, <2>1, <3>2, <3>3 DEF CommaAt
  <2>2. CASE x + 1 = n
    <3>1. PICK c \in Start(i) .. End(i) : OverAt(file, c, p, End(i))
      BY <1>1, <1>2, <2>2
    <3>2. QED BY <1>1, <1>4, <2>2, <3>1 DEF OverAt
  <2>3. QED BY <1>1, <1>3, <2>1, <2>2
<1>7. c \in Nat
  BY <1>1
<1>8. x + 1 < n \/ x + 1 = n
  BY <1>1, <1>3
<1>9. file[p + 1] \in {SP, COMMA, NL} /\ file[c] # SP
  <2>1. file[c] # SP
    BY <1>6, <1>8 DEF SP, COMMA, HASH, NL
  <2>2. CASE c = p + 1
    <3>1. file[c] \in {COMMA, NL}
      BY <1>4, <1>6, <1>8, <2>2
    <3>2. QED BY <2>1, <2>2, <3>1
  <2>3. CASE c # p + 1
    <3>1. p + 1 \in (p + 1) .. (c - 1)
      BY <1>4, <1>6, <1>7, <2>3
    <3>2. QED BY <1>6, <2>1, <3>1 DEF Spaces
  <2>4. QED BY <2>2, <2>3
<1>10. file[p] \notin Delimiter /\ file[p] # FROM /\ GetTokenType(<<file[p]>>) = "identifier"
  <2>1. file[p] \notin Delimiter /\ file[p] # FROM /\ file[p] # IMPORT
    BY <1>4
  <2>2. QED BY <2>1 DEF GetTokenType
<1>11. /\ tok'.name = <<file[p]>> /\ tok'.type = "identifier"
       /\ \E q \in (p + 1) .. off : Within(q) /\ \A k \in (p + 1) .. (q - 1) : file[k] = SP
  BY <1>2, <1>9, <1>10, ReadWord
<1>12. Ahead(c)' /\ base' = base /\ UNCHANGED <<off, buf, line_counter>>
  <2>1. PICK q \in (p + 1) .. off : Within(q) /\ \A k \in (p + 1) .. (q - 1) : file[k] = SP
    BY <1>11
  <2>2. p + 1 \in Int /\ c \in (p + 1) .. off
    BY <1>1, <1>4, <1>5, <1>6
  <2>3. \A k \in (p + 1) .. (c - 1) : file[k] = SP
    BY <1>6 DEF Spaces
  <2>4. QED BY <1>9, <2>1, <2>2, <2>3, AheadAfter
<1>13. file' = file /\ NumNames(i)' = n /\ NameAt(i, x + 2)' = NameAt(i, x + 2)
  BY UpdateTokenProperties, PlacesStay DEF InLine
<1>14. AtSeparator(i, x + 1)'
  <2>1. c \in here' .. off'
    BY <1>12 DEF Ahead
  <2>2. x + 1 < n => file'[c] = COMMA /\ c < NameAt(i, x + 2)' /\ Spaces(file', c, NameAt(i, x + 2)')
    BY <1>6, <1>13
  <2>3. x + 1 = n => file'[c] \in {HASH, NL}
    BY <1>6, <1>13
  <2>4. (x + 1) + 1 = x + 2
    BY <1>3
  <2>5. QED BY <1>12, <1>13, <2>1, <2>2, <2>3, <2>4 DEF AtSeparator
<1>15. tok'.name = NameOf(i, x + 1)
  BY <1>2, <1>11 DEF NameOf, NameAt, Covers
<1>16. QED BY <1>11, <1>12, <1>14, <1>15, LineStays

LEMMA ReadSeparator ==
  ASSUME InLine, UpdateToken, Covers, program' = program, NEW i, InLineOf(i),
         NEW x \in 1 .. NumNames(i), AtSeparator(i, x)
  PROVE  /\ x < NumNames(i) => /\ tok'.type = "comma"
                               /\ InLineOf(i)' /\ Ahead(NameAt(i, x + 1))'
         /\ x = NumNames(i) => Over
<1> DEFINE n == NumNames(i)
<1>1. /\ Start(i) \in Nat /\ End(i) \in Nat /\ n \in Nat
      /\ \A y \in 1 .. n : NameAt(i, y) \in Start(i) .. End(i) /\ file[NameAt(i, y)] \in Words
  BY StatementWritten DEF Covers, InLineOf
<1>2. PICK c \in here .. off :
        /\ Ahead(c)
        /\ x < n => /\ file[c] = COMMA
                    /\ c < NameAt(i, x + 1) /\ Spaces(file, c, NameAt(i, x + 1))
        /\ x = n => file[c] \in {HASH, NL}
  BY DEF AtSeparator
<1>3. x = n => Over
  BY <1>2, ReadOver
<1>4. ASSUME x < n
      PROVE  tok'.type = "comma" /\ InLineOf(i)' /\ Ahead(NameAt(i, x + 1))'
  <2>1. PICK p : p = NameAt(i, x + 1)
    OBVIOUS
  <2>2. x + 1 \in 1 .. n
    BY <1>1, <1>4
  <2>3. p \in Start(i) .. End(i) /\ file[p] \in Words
    BY <1>1, <2>1, <2>2
  <2>4. tok'.type = "comma" /\ Within(c + 1)
    BY <1>2, <1>4, ReadComma
  <2>5. off = End(i)
    BY DEF InLineOf
  <2>6. c \in Nat /\ here \in Nat
    BY <1>2, InLineNumbers
  <2> HIDE DEF here
  <2>7. c + 1 \in Int /\ c + 1 \in (c + 1) .. off /\ p \in (c + 1) .. off
    BY <1>1, <1>2, <1>4, <2>1, <2>3, <2>5, <2>6
  <2>8. PICK q : q = c + 1
    OBVIOUS
  <2>9. \A k \in q .. (p - 1) : file[k] = SP
    BY <1>2, <1>4, <2>1, <2>8 DEF Spaces
  <2>10. \A k \in q .. (q - 1) : file[k] = SP
    BY <2>6, <2>8
  <2>11. file[p] # SP
    BY <2>3 DEF Delimiter
  <2>12. Within(q)
    BY <2>4, <2>8
  <2>13. Ahead(p)' /\ base' = base /\ UNCHANGED <<off, buf, line_counter>>
    BY <2>7, <2>8, <2>9, <2>10, <2>11, <2>12, AheadAfter
  <2>14. NameAt(i, x + 1)' = p
    BY <2>1, PlacesStay
  <2>15. Ahead(NameAt(i, x + 1))'
    BY <2>13, <2>14 DEF Ahead
  <2>16. QED BY <2>4, <2>13, <2>15, LineStays
<1>5. QED BY <1>3, <1>4

(* The library, the import keyword and the word a statement begins with.    *)
LEMMA ReadHead ==
  ASSUME InLine, UpdateToken, Covers, program' = program, NEW i, InLineOf(i)
  PROVE  /\ statements[i].kind = "from" /\ Ahead(TitleAt(i)) =>
              /\ tok'.type = "identifier" /\ tok'.name = TitleOf(i)
              /\ InLineOf(i)' /\ Ahead(ImportAt(i))'
         /\ statements[i].kind = "from" /\ Ahead(ImportAt(i)) =>
              /\ tok'.type = "import"
              /\ InLineOf(i)' /\ Ahead(NameAt(i, 1))'
         /\ here = base + 1 =>
              /\ tok'.type = statements[i].kind
              /\ InLineOf(i)'
              /\ IF statements[i].kind = "import" THEN Ahead(NameAt(i, 1))' ELSE Ahead(TitleAt(i))'
<1>1. /\ Start(i) \in Nat /\ End(i) \in Nat
      /\ NameAt(i, 1) \in Start(i) .. End(i) /\ file[NameAt(i, 1)] \in Words
      /\ Apart(file, ImportAt(i), NameAt(i, 1))
      /\ statements[i].kind = "import" => file[Start(i)] = IMPORT /\ ImportAt(i) = Start(i)
      /\ statements[i].kind = "from" =>
           /\ file[Start(i)] = FROM
           /\ TitleAt(i) \in Start(i) .. End(i) /\ file[TitleAt(i)] \in Words
           /\ Apart(file, Start(i), TitleAt(i))
           /\ ImportAt(i) \in Start(i) .. End(i) /\ file[ImportAt(i)] = IMPORT
           /\ Apart(file, TitleAt(i), ImportAt(i))
  BY StatementWritten DEF Covers, InLineOf
<1>2. off = End(i) /\ base + 1 = Start(i) /\ statements[i].kind \in {"import", "from"}
  BY StatementTypes DEF InLineOf, Covers
<1>3. PICK start, title, import, first :
        start = Start(i) /\ title = TitleAt(i) /\ import = ImportAt(i) /\ first = NameAt(i, 1)
  OBVIOUS
<1>4. \A w \in Words : w # FROM /\ w # SP /\ GetTokenType(<<w>>) = "identifier"
  BY DEF GetTokenType, Delimiter
<1>5. /\ GetTokenType(<<FROM>>) = "from" /\ GetTokenType(<<IMPORT>>) = "import"
      /\ IMPORT # FROM /\ IMPORT # SP
  BY DEF GetTokenType, FROM, IMPORT, SP
<1>6. /\ TitleAt(i)' = title /\ ImportAt(i)' = import /\ NameAt(i, 1)' = first
  BY <1>3, PlacesStay
<1>7. ASSUME statements[i].kind = "from", Ahead(title)
      PROVE  /\ tok'.type = "identifier" /\ tok'.name = TitleOf(i)
             /\ InLineOf(i)' /\ Ahead(ImportAt(i))'
  <2>1. import \in title .. off
    BY <1>1, <1>2, <1>3, <1>7 DEF Apart
  <2>2. file[title] # FROM /\ file[import] # SP
    BY <1>1, <1>3, <1>4, <1>5, <1>7
  <2>3. /\ tok'.name = <<file[title]>> /\ tok'.type = GetTokenType(<<file[title]>>)
        /\ Ahead(import)' /\ base' = base /\ UNCHANGED <<off, buf, line_counter>>
    BY <1>1, <1>3, <1>7, <2>1, <2>2, ReadApart
  <2>4. tok'.type = "identifier" /\ tok'.name = TitleOf(i)
    BY <1>1, <1>3, <1>4, <1>7, <2>3 DEF TitleOf, TitleAt, Covers
  <2>5. Ahead(ImportAt(i))'
    BY <1>6, <2>3 DEF Ahead
  <2>6. QED BY <2>3, <2>4, <2>5, LineStays
<1>8. ASSUME statements[i].kind = "from", Ahead(import)
      PROVE  tok'.type = "import" /\ InLineOf(i)' /\ Ahead(NameAt(i, 1))'
  <2>1. first \in import .. off
    BY <1>1, <1>2, <1>3, <1>8 DEF Apart
  <2>2. file[import] = IMPORT /\ file[first] # SP
    BY <1>1, <1>3, <1>4, <1>8
  <2>3. /\ tok'.type = GetTokenType(<<file[import]>>)
        /\ Ahead(first)' /\ base' = base /\ UNCHANGED <<off, buf, line_counter>>
    BY <1>1, <1>3, <1>5, <1>8, <2>1, <2>2, ReadApart
  <2>4. Ahead(NameAt(i, 1))'
    BY <1>6, <2>3 DEF Ahead
  <2>5. QED BY <1>5, <2>2, <2>3, <2>4, LineStays
<1>9. ASSUME here = base + 1
      PROVE  /\ tok'.type = statements[i].kind
             /\ InLineOf(i)'
             /\ IF statements[i].kind = "import" THEN Ahead(NameAt(i, 1))' ELSE Ahead(TitleAt(i))'
  <2>1. Ahead(start)
    <3>1. here \in Nat /\ off \in Nat /\ here <= off
      BY InLineNumbers
    <3> HIDE DEF here
    <3>2. start = here
      BY <1>2, <1>3, <1>9
    <3>3. QED BY <3>1, <3>2 DEF Ahead
  <2>2. CASE statements[i].kind = "import"
    <3>1. first \in start .. off /\ Apart(file, start, first)
      BY <1>1, <1>2, <1>3, <2>2 DEF Apart
    <3>2. file[start] = IMPORT /\ file[first] # SP
      BY <1>1, <1>3, <1>4, <2>2
    <3>3. /\ tok'.type = GetTokenType(<<file[start]>>)
          /\ Ahead(first)' /\ base' = base /\ UNCHANGED <<off, buf, line_counter>>
      BY <1>5, <2>1, <3>1, <3>2, ReadApart
    <3>4. Ahead(NameAt(i, 1))'
      BY <1>6, <3>3 DEF Ahead
    <3>5. QED BY <1>5, <2>2, <3>2, <3>3, <3>4, LineStays
  <2>3. CASE statements[i].kind = "from"
    <3>1. title \in start .. off /\ Apart(file, start, title)
      BY <1>1, <1>2, <1>3, <2>3 DEF Apart
    <3>2. file[start] = FROM /\ file[title] # SP
      BY <1>1, <1>3, <1>4, <2>3
    <3>3. /\ tok'.type = GetTokenType(<<file[start]>>)
          /\ Ahead(title)' /\ base' = base /\ UNCHANGED <<off, buf, line_counter>>
      <4>1. start = base + 1
        BY <1>2, <1>3
      <4>2. QED BY <2>1, <3>1, <3>2, <4>1, ReadApart
    <3>4. Ahead(TitleAt(i))'
      BY <1>6, <3>3 DEF Ahead
    <3>5. QED BY <1>5, <2>3, <3>2, <3>3, <3>4, LineStays
  <2>4. QED BY <1>2, <2>2, <2>3
<1>10. QED BY <1>3, <1>7, <1>8, <1>9

(***************************************************************************)
(* Between statements: the first d are before the buffer, the others are   *)
(* not.  When the scan is within a line, no statement is on it, and no     *)
(* comment was passed over.                                                *)
(***************************************************************************)
BetweenStatements(d) ==
  /\ d \in 0 .. Len(statements)
  /\ \A i \in 1 .. d : End(i) <= base
  /\ \A i \in (d + 1) .. Len(statements) : Start(i) > base
  /\ buf # <<>> /\ here # base + 1 =>
       (\A i \in DOMAIN statements : Start(i) # base + 1) /\ Uncommented(here)

(* A statement starts in the file.                                          *)
LEMMA NothingAfterEnd ==
  ASSUME Covers, NEW i \in DOMAIN statements
  PROVE  Start(i) <= Len(file) /\ Start(i) <= End(i) /\ Start(i) \in Nat /\ End(i) \in Nat
<1>1. IsLine(file, Start(i), End(i)) /\ Start(i) \in Nat /\ End(i) \in Nat
  BY StatementWritten DEF Covers
<1>2. QED BY <1>1 DEF IsLine

LEMMA AllBefore ==
  ASSUME Covers, NEW d \in 0 .. Len(statements),
         \A i \in (d + 1) .. Len(statements) : Start(i) > Len(file)
  PROVE  d = Len(statements)
<1>1. /\ DOMAIN statements = 1 .. Len(statements) /\ Len(statements) \in Nat
      /\ Len(file) \in Nat
  BY StatementTypes DEF Covers, PythonProgram
<1>2. ~(d < Len(statements))
  <2> SUFFICES ASSUME d < Len(statements) PROVE FALSE
    OBVIOUS
  <2>1. d + 1 \in DOMAIN statements /\ d + 1 \in (d + 1) .. Len(statements)
    BY <1>1
  <2>2. Start(d + 1) <= Len(file) /\ Start(d + 1) \in Nat
    BY <2>1, NothingAfterEnd
  <2>3. Start(d + 1) > Len(file)
    BY <2>1
  <2>4. QED BY <1>1, <2>2, <2>3
<1>3. \A n \in Nat : d \in 0 .. n /\ ~(d < n) => d = n
  OBVIOUS
<1>4. QED BY <1>1, <1>2, <1>3

LEMMA OverBetween ==
  ASSUME TypeOK, LineRead, Covers, UpdateToken, Over, program' = program,
         NEW d \in 0 .. Len(statements),
         \A i \in 1 .. d : End(i) <= off,
         \A i \in (d + 1) .. Len(statements) : Start(i) > off
  PROVE  /\ BetweenStatements(d)' /\ tok'.type \notin {"from", "import", "comma", "identifier"}
         /\ tok'.type = "end" => d = Len(statements)
<1>1. /\ off \in Nat /\ Len(file) \in Nat /\ Len(statements) \in Nat /\ FitsBuffer(file)
      /\ DOMAIN statements = 1 .. Len(statements)
  BY StatementTypes DEF TypeOK, Covers, Covered
<1>2. base' = off /\ (buf' # <<>> => here' = base' + 1)
  <2>1. CASE off < Len(file) /\ GetLine
    BY <1>1, <2>1, NextLine
  <2>2. CASE off = Len(file) /\ GetLineFails
    <3>1. buf' = <<>> /\ off' = off /\ Len(buf') = 0
      BY <2>2 DEF GetLineFails
    <3>2. QED BY <1>1, <3>1 DEF base
  <2>3. QED BY <2>1, <2>2 DEF Over
<1>3. BetweenStatements(d)'
  <2>1. /\ statements' = statements
        /\ \A i : Start(i)' = Start(i) /\ End(i)' = End(i)
    BY PlacesStay
  <2> HIDE DEF base, here
  <2>2. \A i \in 1 .. d : End(i)' <= base'
    BY <1>2, <2>1
  <2>3. \A i \in (d + 1) .. Len(statements) : Start(i)' > base'
    BY <1>2, <2>1
  <2>4. d \in 0 .. Len(statements')
    BY <2>1
  <2>5. QED BY <1>2, <2>1, <2>2, <2>3, <2>4 DEF BetweenStatements
<1>4. ASSUME tok'.type = "end"
      PROVE  d = Len(statements)
  <2>1. off = Len(file)
    BY <1>4 DEF Over
  <2>2. QED BY <2>1, AllBefore
<1>5. QED BY <1>3, <1>4 DEF Over

(* A line that holds part of a statement is the line of that statement.     *)
LEMMA LineOfStatement ==
  ASSUME InLine, Covers, NEW i \in DOMAIN statements,
         NEW k \in Start(i) .. End(i), k \in (base + 1) .. off
  PROVE  base + 1 = Start(i) /\ off = End(i)
<1>1. IsLine(file, Start(i), End(i))
  BY StatementWritten DEF Covers
<1>2. IsLine(file, base + 1, off) /\ Len(file) \in Nat
  BY InLineNumbers DEF InLine, LineInBuffer
<1> HIDE DEF base
<1>3. QED BY <1>1, <1>2, SameLine

LEMMA ReadBetween ==
  ASSUME TypeOK, ViewBeforeNewline, LineRead, Covers, UpdateToken, program' = program,
         NEW d, BetweenStatements(d)
  PROVE  \/ /\ BetweenStatements(d)' /\ tok'.type \notin {"from", "import"}
            /\ tok'.type = "end" => d = Len(statements)
         \/ /\ d + 1 \in DOMAIN statements /\ tok'.type = statements[d + 1].kind
            /\ InLineOf(d + 1)'
            /\ IF statements[d + 1].kind = "import"
               THEN Ahead(NameAt(d + 1, 1))' ELSE Ahead(TitleAt(d + 1))'
<1>1. /\ off \in Nat /\ Len(file) \in Nat /\ Len(statements) \in Nat /\ FitsBuffer(file)
      /\ DOMAIN statements = 1 .. Len(statements) /\ Len(buf) \in Nat
      /\ d \in 0 .. Len(statements)
      /\ base \in Int
  BY StatementTypes DEF TypeOK, Covers, Covered, BetweenStatements, base
<1>2. /\ \A i \in 1 .. d : End(i) <= base
      /\ \A i \in (d + 1) .. Len(statements) : Start(i) > base
  BY DEF BetweenStatements
<1>3. \A i \in DOMAIN statements : Start(i) <= Len(file) /\ Start(i) <= End(i) /\ Start(i) \in Nat /\ End(i) \in Nat
  BY NothingAfterEnd
<1>4. CASE buf = <<>>
  <2>1. base = off
    BY <1>1, <1>4 DEF base
  <2>2. CASE Over
    BY <1>1, <1>2, <2>1, <2>2, OverBetween
  <2>3. CASE ~Over
    <3>1. buf' = buf /\ off' = off
      BY <2>3 DEF UpdateToken, Over, AtToken, IncBuff
    <3>2. tok'.type \notin {"from", "import"}
      BY <1>4, <3>1, ReadStep
    <3>3. off = Len(file)
      BY <1>4, <2>3, ReadFirst DEF LineRead
    <3>4. d = Len(statements)
      <4>1. \A i \in (d + 1) .. Len(statements) : Start(i) > Len(file)
        BY <1>2, <2>1, <3>3
      <4>2. QED BY <1>1, <4>1, AllBefore
    <3>5. BetweenStatements(d)'
      <4>1. /\ statements' = statements /\ base' = base
            /\ \A i : Start(i)' = Start(i) /\ End(i)' = End(i)
        BY <3>1, PlacesStay DEF base
      <4> HIDE DEF base, here
      <4>2. QED BY <1>4, <3>1, <4>1 DEF BetweenStatements
    <3>6. QED BY <3>2, <3>4, <3>5
  <2>4. QED BY <2>2, <2>3
<1>5. CASE buf # <<>>
  <2>1. InLine
    BY <1>1, <1>5 DEF InLine, LineRead
  <2>2. /\ base \in Nat /\ here \in (base + 1) .. off /\ base < off /\ off \in 1 .. Len(file)
        /\ \A k \in (base + 1) .. (off - 1) : file[k] # NL
    BY <2>1, InLineNumbers
  <2> HIDE DEF base, here
  <2>3. ASSUME NEW i \in DOMAIN statements, Start(i) = base + 1
        PROVE  i = d + 1 /\ InLineOf(i)
    <3>1. base + 1 \in Start(i) .. End(i) /\ base + 1 \in (base + 1) .. off
      BY <1>3, <2>2, <2>3
    <3>2. InLineOf(i)
      BY <2>1, <3>1, LineOfStatement DEF InLineOf
    <3>3. ~(i <= d)
      <4>1. i <= d => i \in 1 .. d
        BY <1>1
      <4>2. QED BY <1>2, <1>3, <2>2, <2>3, <4>1
    <3>4. ~(d + 1 < i)
      <4> SUFFICES ASSUME d + 1 < i PROVE FALSE
        OBVIOUS
      <4>1. d + 1 \in DOMAIN statements /\ d + 1 \in (d + 1) .. Len(statements)
        BY <1>1
      <4>2. End(d + 1) < Start(i)
        BY <4>1 DEF Covers, Covered, statements, Start, End
      <4>3. Start(d + 1) <= End(d + 1) /\ Start(d + 1) \in Nat /\ End(d + 1) \in Nat
        BY <1>3, <4>1
      <4>4. Start(d + 1) > base
        BY <1>2, <4>1
      <4>5. QED BY <2>2, <2>3, <4>2, <4>3, <4>4
    <3>5. QED BY <1>1, <3>2, <3>3, <3>4
  <2>4. CASE \E i \in DOMAIN statements : Start(i) = base + 1
    <3>1. d + 1 \in DOMAIN statements /\ InLineOf(d + 1)
      BY <2>3, <2>4
    <3>2. here = base + 1
      BY <1>5, <2>4 DEF BetweenStatements
    <3>3. QED BY <2>1, <3>1, <3>2, ReadHead
  <2>5. CASE \A i \in DOMAIN statements : Start(i) # base + 1
    <3>1. Uncommented(here)
      <4>1. CASE here = base + 1
        <5>1. \A k \in (base + 1) .. (here - 1) : FALSE
          BY <2>2, <4>1
        <5>2. QED BY <5>1 DEF Uncommented
      <4>2. CASE here # base + 1
        BY <1>5, <4>2 DEF BetweenStatements
      <4>3. QED BY <4>1, <4>2
    <3>2. \A i \in DOMAIN statements : \A k \in Start(i) .. End(i) : k \notin (base + 1) .. off
      <4>1. ASSUME NEW i \in DOMAIN statements, NEW k \in Start(i) .. End(i), k \in (base + 1) .. off
            PROVE  FALSE
        BY <2>1, <2>5, <4>1, LineOfStatement
      <4>2. QED BY <4>1
    <3>3. CASE Over
      <4>1. \A i \in 1 .. d : End(i) <= off
        <5> TAKE i \in 1 .. d
        <5>1. i \in DOMAIN statements
          BY <1>1
        <5>2. QED BY <1>1, <1>2, <1>3, <2>2, <5>1
      <4>2. \A i \in (d + 1) .. Len(statements) : Start(i) > off
        <5> TAKE i \in (d + 1) .. Len(statements)
        <5>1. i \in DOMAIN statements
          BY <1>1
        <5>2. Start(i) > base /\ Start(i) \in Nat /\ Start(i) \in Start(i) .. End(i)
          BY <1>2, <1>3, <5>1
        <5>3. Start(i) \notin (base + 1) .. off
          BY <3>2, <5>1, <5>2
        <5>4. QED BY <1>1, <2>2, <5>2, <5>3
      <4>3. QED BY <1>1, <3>3, <4>1, <4>2, OverBetween
    <3>4. CASE ~Over
      <4>1. /\ tok'.type \in {"from", "import", "comma", "identifier"}
            /\ tok'.type \in {"from", "import"} =>
                 \E p \in here .. off : Ahead(p) /\ Keyword(file, p)
            /\ \E q \in (here + 1) .. off : Within(q) /\ Uncommented(q)
        BY <2>1, <3>1, <3>4, ReadAny
      <4>2. tok'.type \notin {"from", "import"}
        <5> SUFFICES ASSUME NEW p \in here .. off, Ahead(p), Keyword(file, p)
                     PROVE  FALSE
          BY <4>1
        <5>1. p \in 1 .. Len(file) /\ p \in (base + 1) .. off /\ p \in Nat
          BY <1>1, <2>2
        <5>2. Commented(file, p)
          BY <3>2, <5>1 DEF Covers, Covered, statements, Start, End
        <5>3. PICK h \in 1 .. (p - 1) : file[h] = HASH /\ \A j \in h .. p : file[j] # NL
          BY <5>2 DEF Commented
        <5>4. base < h
          <6>1. base = 0 \/ file[base] = NL
            BY <2>1, <2>2 DEF InLine, LineInBuffer, IsLine
          <6>2. h <= base => base \in h .. p /\ base # 0
            BY <2>2, <5>1
          <6>3. QED BY <2>2, <5>3, <6>1, <6>2
        <5>5. CASE h < here
          <6>1. h \in (base + 1) .. (here - 1)
            BY <2>2, <5>4, <5>5
          <6>2. QED BY <3>1, <5>3, <6>1 DEF Uncommented
        <5>6. CASE h >= here
          <6>1. h \in here .. (p - 1)
            BY <2>2, <5>1, <5>6
          <6>2. file[h] = SP
            BY <6>1 DEF Ahead
          <6>3. QED BY <5>3, <6>2 DEF SP, HASH
        <5>7. QED BY <2>2, <5>5, <5>6
      <4>3. tok'.type # "end"
        BY <4>1
      <4>4. BetweenStatements(d)'
        <5>1. PICK q \in (here + 1) .. off : Within(q) /\ Uncommented(q)
          BY <4>1
        <5>2. /\ statements' = statements
              /\ \A i : Start(i)' = Start(i) /\ End(i)' = End(i)
          BY PlacesStay
        <5>3. here' = q /\ buf' = buf /\ off' = off /\ file' = file
          BY <5>1, UpdateTokenProperties DEF Within
        <5>4. base' = base
          BY <5>3 DEF base
        <5>5. Uncommented(here)'
          BY <5>1, <5>3, <5>4 DEF Uncommented
        <5>6. QED BY <1>2, <1>1, <2>5, <5>2, <5>3, <5>4, <5>5 DEF BetweenStatements
      <4>5. QED BY <4>2, <4>3, <4>4
    <3>5. QED BY <3>3, <3>4
  <2>6. QED BY <2>4, <2>5
<1>6. QED BY <1>4, <1>5

-----------------------------------------------------------------------------
(* What a statement adds to the list                                        *)

Collected(d, x) ==
  /\ ListedModules \cup NodeModules = SeenModules(d, x)
  /\ ListedFrom \cup NodeFrom = SeenFrom(d, x)
  /\ Origin(d)

LEMMA NamesStay ==
  /\ modules' = modules => ListedModules' = ListedModules /\ ListedFrom' = ListedFrom
  /\ node' = node => NodeModules' = NodeModules /\ NodeFrom' = NodeFrom
BY DEF ListedModules, ListedFrom, NodeModules, NodeFrom

LEMMA CollectedStays ==
  ASSUME program \in PythonProgram, program' = program, squash' = squash,
         modules' = modules, node' = node, NEW d, NEW x, Collected(d, x),
         NEW e, NEW y, Leading \cap (1 .. e) = Leading \cap (1 .. d),
         SeenModules(e, y) = SeenModules(d, x), SeenFrom(e, y) = SeenFrom(d, x)
  PROVE  Collected(e, y)'
<1>1. Origin(e)'
  BY OriginKept DEF Collected
<1>2. SeenModules(e, y)' = SeenModules(e, y) /\ SeenFrom(e, y)' = SeenFrom(e, y)
  BY ProgramStays
<1>3. QED BY <1>1, <1>2, NamesStay DEF Collected

(* A word of the program is copied whole.                                   *)
LEMMA NameWhole ==
  ASSUME Covers, NEW i \in DOMAIN statements
  PROVE  /\ \A x \in 1 .. NumNames(i) :
              NameOf(i, x) \in Name /\ CopyCStr(NameOf(i, x)) = NameOf(i, x)
         /\ statements[i].kind = "from" =>
              TitleOf(i) \in Name /\ CopyCStr(TitleOf(i)) = TitleOf(i)
<1>1. ASSUME NEW w \in Words
      PROVE  <<w>> \in Name /\ CopyCStr(<<w>>) = <<w>>
  <2>1. w \in Char /\ w # NUL
    BY DEF Char, Atom
  <2>2. <<w>> \in Name
    BY <2>1 DEF Name
  <2>3. \A k \in DOMAIN <<w>> : <<w>>[k] # NUL
    BY <2>1
  <2>4. QED BY <2>2, <2>3, CopyCStrProperties
<1>2. \A x \in 1 .. NumNames(i) : program.text[statements[i].names[x]] \in Words
  BY StatementWritten DEF Covers, NameAt
<1>3. statements[i].kind = "from" => program.text[statements[i].title] \in Words
  BY StatementWritten DEF Covers, TitleAt
<1>4. QED BY <1>1, <1>2, <1>3 DEF NameOf, TitleOf

(* What the first d statements name, and what the next one adds to it.      *)
LEMMA SeenBefore ==
  ASSUME program \in PythonProgram, NEW d \in Nat
  PROVE  /\ \A w : w \in SeenModules(d, 0) <=>
                     \E j \in ImportStatements : j < d + 1 /\ w \in NamesOf(j)
         /\ \A w : w \in SeenFrom(d, 0) <=>
                     \E j \in FromStatements : j < d + 1 /\ w \in {TitleOf(j)} \X NamesOf(j)
<1>1. \A i \in DOMAIN statements : i \in Nat
  BY StatementTypes
<1>2. ASSUME NEW i \in DOMAIN statements
      PROVE  SeenOf(d, 0, i) = IF i < d + 1 THEN NamesOf(i) ELSE {}
  <2>1. DOMAIN statements[i].names = 1 .. NumNames(i)
    BY StatementTypes
  <2>2. CASE i < d + 1
    <3>1. Seen(d, 0, i) = NumNames(i)
      BY <1>1, <2>2 DEF Seen
    <3>2. QED BY <2>1, <2>2, <3>1 DEF SeenOf, NamesOf
  <2>3. CASE ~(i < d + 1)
    <3>1. Seen(d, 0, i) = 0
      BY <1>1, <2>3 DEF Seen
    <3>2. QED BY <2>3, <3>1 DEF SeenOf
  <2>4. QED BY <2>2, <2>3
<1>3. ImportStatements \subseteq DOMAIN statements /\ FromStatements \subseteq DOMAIN statements
  BY DEF ImportStatements, FromStatements
<1>4. ASSUME NEW w
      PROVE  w \in SeenModules(d, 0) <=> \E j \in ImportStatements : j < d + 1 /\ w \in NamesOf(j)
  <2>1. w \in SeenModules(d, 0) <=> \E j \in ImportStatements : w \in SeenOf(d, 0, j)
    BY DEF SeenModules
  <2>2. QED BY <1>2, <1>3, <2>1
<1>5. ASSUME NEW w
      PROVE  w \in SeenFrom(d, 0) <=>
               \E j \in FromStatements : j < d + 1 /\ w \in {TitleOf(j)} \X NamesOf(j)
  <2>1. w \in SeenFrom(d, 0) <=> \E j \in FromStatements : w \in {TitleOf(j)} \X SeenOf(d, 0, j)
    BY DEF SeenFrom
  <2>2. \A j \in FromStatements : SeenOf(d, 0, j) = IF j < d + 1 THEN NamesOf(j) ELSE {}
    BY <1>2, <1>3
  <2>3. ASSUME NEW j \in FromStatements
        PROVE  w \in {TitleOf(j)} \X SeenOf(d, 0, j)
                 <=> j < d + 1 /\ w \in {TitleOf(j)} \X NamesOf(j)
    <3>1. CASE j < d + 1
      <4>1. SeenOf(d, 0, j) = NamesOf(j)
        BY <2>2, <3>1
      <4>2. QED BY <3>1, <4>1
    <3>2. CASE ~(j < d + 1)
      <4>1. SeenOf(d, 0, j) = {}
        BY <2>2, <3>2
      <4>2. QED BY <3>2, <4>1
    <3>3. QED BY <3>1, <3>2
  <2>4. QED BY <2>1, <2>3
<1>6. QED BY <1>4, <1>5

LEMMA SeenPart ==
  ASSUME program \in PythonProgram, NEW d \in Nat, d + 1 \in ImportStatements, NEW x \in Nat
  PROVE  SeenModules(d, x) = SeenModules(d, 0) \cup {NameOf(d + 1, y) : y \in 1 .. x}
<1>1. \A i \in ImportStatements : i \in Nat
  BY StatementTypes DEF ImportStatements
<1>2. \A i \in ImportStatements : i # d + 1 => SeenOf(d, x, i) = SeenOf(d, 0, i)
  BY <1>1 DEF SeenOf, Seen
<1>3. /\ SeenOf(d, x, d + 1) = {NameOf(d + 1, y) : y \in 1 .. x}
      /\ SeenOf(d, 0, d + 1) = {}
  <2>1. Seen(d, x, d + 1) = x /\ Seen(d, 0, d + 1) = 0
    BY DEF Seen
  <2>2. QED BY <2>1 DEF SeenOf
<1>4. ASSUME NEW w
      PROVE  w \in SeenModules(d, x)
               <=> w \in SeenModules(d, 0) \cup {NameOf(d + 1, y) : y \in 1 .. x}
  <2>1. w \in SeenModules(d, x) <=> \E i \in ImportStatements : w \in SeenOf(d, x, i)
    BY DEF SeenModules
  <2>2. w \in SeenModules(d, 0) <=> \E i \in ImportStatements : w \in SeenOf(d, 0, i)
    BY DEF SeenModules
  <2>3. QED BY <1>2, <1>3, <2>1, <2>2
<1>5. QED BY <1>4

(* Which statement begins something.                                        *)
LEMMA LeadingImport ==
  ASSUME program \in PythonProgram, NEW d \in Nat, d + 1 \in ImportStatements
  PROVE  d + 1 \in Leading <=> \E y \in 1 .. NumNames(d + 1) : NameOf(d + 1, y) \notin SeenModules(d, 0)
<1>1. /\ d + 1 \in DOMAIN statements /\ d + 1 \notin FromStatements
      /\ DOMAIN statements[d + 1].names = 1 .. NumNames(d + 1)
  BY StatementTypes DEF ImportStatements, FromStatements
<1>2. d + 1 \in Leading <=>
        \E w \in NamesOf(d + 1) : \A j \in ImportStatements : j < d + 1 => w \notin NamesOf(j)
  BY <1>1 DEF Leading
<1>3. \A w : w \in NamesOf(d + 1) <=> \E y \in 1 .. NumNames(d + 1) : w = NameOf(d + 1, y)
  BY <1>1 DEF NamesOf
<1>4. \A w : w \notin SeenModules(d, 0) <=>
               \A j \in ImportStatements : j < d + 1 => w \notin NamesOf(j)
  BY SeenBefore
<1>5. QED BY <1>2, <1>3, <1>4

LEMMA LeadingNext ==
  ASSUME NEW d \in Nat, d + 1 \notin Leading
  PROVE  Leading \cap (1 .. (d + 1)) = Leading \cap (1 .. d)
<1>1. 1 .. (d + 1) = (1 .. d) \cup {d + 1}
  OBVIOUS
<1>2. QED BY <1>1

(* Steps that leave the program, its configuration and the list's entries.  *)
Same == program' = program /\ squash' = squash

LEMMA OriginSame ==
  ASSUME program \in PythonProgram, Same, modules' = modules, NEW d, Origin(d)
  PROVE  Origin(d)'
BY OriginKept DEF Same

(* A module that is known already; _search_for_imports found it.            *)
LEMMA KnownName ==
  ASSUME Covers, Same, modules' = modules, node' = node, node = NoNode,
         NEW d \in Nat, d + 1 \in ImportStatements, NEW x \in 0 .. (NumNames(d + 1) - 1),
         \A y \in 1 .. x : NameOf(d + 1, y) \in SeenModules(d, 0), Collected(d, x),
         SearchForImports(NameOf(d + 1, x + 1))
  PROVE  /\ Collected(d, x + 1)'
         /\ \A y \in 1 .. (x + 1) : NameOf(d + 1, y) \in SeenModules(d, 0)
<1>1. program \in PythonProgram /\ d + 1 \in DOMAIN statements /\ x \in Nat
      /\ statements[d + 1].kind = "import"
  BY StatementTypes DEF Covers, ImportStatements
<1>2. PICK w : w = NameOf(d + 1, x + 1)
  OBVIOUS
<1>3. w \in ListedModules /\ ListedModules = SeenModules(d, x)
  <2>1. NodeModules = {}
    BY NoNodeNames
  <2>2. QED BY <1>2, <2>1, ListedIs DEF Collected, SearchForImports
<1>4. SeenModules(d, x + 1) = SeenModules(d, x) /\ SeenFrom(d, x + 1) = SeenFrom(d, x)
  <2>1. /\ SeenModules(d, x + 1) = SeenModules(d, x) \cup {w}
        /\ SeenFrom(d, x + 1) = SeenFrom(d, x)
    BY <1>1, <1>2, SeenNext
  <2>2. QED BY <1>3, <2>1
<1>5. Collected(d, x + 1)'
  BY <1>1, <1>4, CollectedStays DEF Same
<1>6. SeenModules(d, x) = SeenModules(d, 0)
  <2> DEFINE part == {NameOf(d + 1, y) : y \in 1 .. x}
  <2>1. SeenModules(d, x) = SeenModules(d, 0) \cup part
    BY <1>1, SeenPart
  <2>2. part \subseteq SeenModules(d, 0)
    OBVIOUS
  <2> HIDE DEF part
  <2>3. QED BY <2>1, <2>2
<1>7. \A y \in 1 .. (x + 1) : NameOf(d + 1, y) \in SeenModules(d, 0)
  <2> TAKE y \in 1 .. (x + 1)
  <2>1. y \in 1 .. x \/ y = x + 1
    BY <1>1
  <2>2. QED BY <1>2, <1>3, <1>6, <2>1
<1>8. QED BY <1>5, <1>7

(* A module that is not: the statement begins an entry of the list.         *)
LEMMA NewName ==
  ASSUME Covers, Same, modules' = modules, node = NoNode,
         NEW d \in Nat, d + 1 \in ImportStatements, NEW x \in 0 .. (NumNames(d + 1) - 1),
         Collected(d, x), ~SearchForImports(NameOf(d + 1, x + 1)),
         node' = NewImport(NameOf(d + 1, x + 1))
  PROVE  Collected(d, x + 1)' /\ d + 1 \in Leading
<1>1. program \in PythonProgram /\ d + 1 \in DOMAIN statements /\ x \in Nat
      /\ statements[d + 1].kind = "import" /\ x + 1 \in 1 .. NumNames(d + 1)
  BY StatementTypes DEF Covers, ImportStatements
<1>2. PICK w : w = NameOf(d + 1, x + 1)
  OBVIOUS
<1>3. CopyCStr(w) = w
  BY <1>1, <1>2, NameWhole
<1>4. NodeModules' = {w} /\ NodeFrom' = {}
  <2>1. node'.kind = "IMPORT" /\ node'.imports = <<w>>
    BY <1>2, <1>3 DEF NewImport
  <2>2. Range(<<w>>) = {w}
    BY DEF Range
  <2>3. QED BY <2>1, <2>2 DEF NodeModules, NodeFrom
<1>5. NodeModules = {} /\ NodeFrom = {}
  BY NoNodeNames
<1>6. w \notin SeenModules(d, x)
  BY <1>2, <1>5, ListedIs DEF Collected, SearchForImports
<1>7. d + 1 \in Leading
  <2>1. w \notin SeenModules(d, 0)
    BY <1>1, <1>6, SeenPart
  <2>2. QED BY <1>1, <1>2, <2>1, LeadingImport
<1>8. /\ SeenModules(d, x + 1) = SeenModules(d, x) \cup {w}
      /\ SeenFrom(d, x + 1) = SeenFrom(d, x)
  BY <1>1, <1>2, SeenNext
<1>9. SeenModules(d, x + 1)' = SeenModules(d, x + 1) /\ SeenFrom(d, x + 1)' = SeenFrom(d, x + 1)
  BY ProgramStays DEF Same
<1>10. ListedModules' = ListedModules /\ ListedFrom' = ListedFrom
  BY NamesStay
<1>11. Origin(d)'
  BY <1>1, OriginSame DEF Collected
<1>12. Collected(d, x + 1)'
  BY <1>4, <1>5, <1>8, <1>9, <1>10, <1>11 DEF Collected
<1>13. QED BY <1>7, <1>12

(* What is being filled is about statement i.                               *)
FillsFor(i) ==
  IF statements[i].kind = "import" THEN target = 0 /\ node.kind = "IMPORT"
  ELSE IF target = 0 THEN node.kind = "FROM" /\ node.title = TitleOf(i)
  ELSE node = NoNode /\ modules[target].kind = "FROM" /\ modules[target].title = TitleOf(i)

(* One more name of the statement is pushed.                                *)
LEMMA PushedName ==
  ASSUME TypeOK, Covers, Same, NEW d \in Nat, d + 1 \in DOMAIN statements,
         NEW x \in 0 .. (NumNames(d + 1) - 1), Collected(d, x),
         FillsFor(d + 1), PushImport(NameOf(d + 1, x + 1)), target' = target
  PROVE  Collected(d, x + 1)' /\ FillsFor(d + 1)'
<1>1. program \in PythonProgram /\ x \in Nat /\ x + 1 \in 1 .. NumNames(d + 1)
      /\ statements[d + 1].kind \in {"import", "from"}
  BY StatementTypes DEF Covers
<1>2. PICK w : w = NameOf(d + 1, x + 1)
  OBVIOUS
<1>3. CopyCStr(w) = w /\ w \in Name
  BY <1>1, <1>2, NameWhole
<1>4. PICK i \in Nat : i = d + 1
  OBVIOUS
<1>5. /\ TitleOf(i)' = TitleOf(i) /\ statements' = statements
      /\ SeenModules(d, x + 1)' = SeenModules(d, x + 1) /\ SeenFrom(d, x + 1)' = SeenFrom(d, x + 1)
  BY ProgramStays DEF Same
<1>6. ListOK
  BY TypeOKParts
<1>7. CASE target = 0
  <2>1. modules' = modules /\ node' = WithImport(node, w)
    BY <1>2, <1>3, <1>6, <1>7, PushImportProperties
  <2>2. /\ node'.kind = node.kind /\ node'.title = node.title
        /\ node'.imports = Append(node.imports, w)
    BY <1>3, <2>1 DEF WithImport
  <2>3. node.imports \in Seq(Name)
    BY DEF TypeOK, Module
  <2>4. Range(node'.imports) = Range(node.imports) \cup {w}
    <3>1. Range(Append(node.imports, w)) = Range(node.imports) \cup {w}
      BY <1>3, <2>3, RangeOfAppend
    <3>2. QED BY <2>2, <3>1
  <2>5. FillsFor(i)'
    BY <1>4, <1>5, <1>7, <2>2 DEF FillsFor
  <2>6. Origin(d)'
    BY <1>1, <2>1, OriginSame DEF Collected
  <2>7. ListedModules' = ListedModules /\ ListedFrom' = ListedFrom
    BY <2>1, NamesStay
  <2>8. CASE statements[d + 1].kind = "import"
    <3>1. node.kind = "IMPORT"
      BY <2>8 DEF FillsFor
    <3>2. NodeModules' = NodeModules \cup {w} /\ NodeFrom' = NodeFrom
      BY <2>2, <2>4, <3>1 DEF NodeModules, NodeFrom
    <3>3. /\ SeenModules(d, x + 1) = SeenModules(d, x) \cup {w}
          /\ SeenFrom(d, x + 1) = SeenFrom(d, x)
      BY <1>1, <1>2, <2>8, SeenNext
    <3>4. Collected(d, x + 1)'
      BY <1>5, <2>6, <2>7, <3>2, <3>3 DEF Collected
    <3>5. QED BY <1>4, <2>5, <3>4
  <2>9. CASE statements[d + 1].kind = "from"
    <3>1. node.kind = "FROM" /\ node.title = TitleOf(d + 1)
      BY <1>7, <2>9 DEF FillsFor
    <3>2. NodeModules' = NodeModules /\ NodeFrom' = NodeFrom \cup {<<TitleOf(d + 1), w>>}
      <4>1. NodeModules' = NodeModules
        BY <2>2, <3>1 DEF NodeModules
      <4>2. NodeFrom' = {node.title} \X (Range(node.imports) \cup {w})
        BY <2>2, <2>4, <3>1 DEF NodeFrom
      <4>3. NodeFrom = {node.title} \X Range(node.imports)
        BY <3>1 DEF NodeFrom
      <4>4. QED BY <3>1, <4>1, <4>2, <4>3
    <3>3. /\ SeenFrom(d, x + 1) = SeenFrom(d, x) \cup {<<TitleOf(d + 1), w>>}
          /\ SeenModules(d, x + 1) = SeenModules(d, x)
      BY <1>1, <1>2, <2>9, SeenNext
    <3>4. Collected(d, x + 1)'
      BY <1>5, <2>6, <2>7, <3>2, <3>3 DEF Collected
    <3>5. QED BY <1>4, <2>5, <3>4
  <2>10. QED BY <1>1, <2>8, <2>9
<1>8. CASE target # 0
  <2>1. node' = node /\ modules' = [modules EXCEPT ![target] = WithImport(modules[target], w)]
    BY <1>2, <1>3, <1>6, <1>8, PushImportProperties
  <2>2. statements[d + 1].kind = "from" /\ modules[target].kind = "FROM"
        /\ modules[target].title = TitleOf(d + 1) /\ node = NoNode
    BY <1>1, <1>8 DEF FillsFor
  <2>3. target \in DOMAIN modules /\ modules \in Seq(Module)
    BY <1>8 DEF TypeOK
  <2>4. ListedModules' = ListedModules /\ ListedFrom' = ListedFrom \cup {<<TitleOf(d + 1), w>>}
    <3>1. PICK t \in DOMAIN modules : t = target
      BY <2>3
    <3>2. modules[t].kind = "FROM" /\ modules' = [modules EXCEPT ![t] = WithImport(modules[t], w)]
      BY <2>1, <2>2, <3>1
    <3>3. QED BY <1>3, <2>2, <3>1, <3>2, ExtendedNames
  <2>5. DOMAIN modules' = DOMAIN modules
        /\ \A n \in DOMAIN modules : /\ modules'[n].kind = modules[n].kind
                                     /\ modules'[n].title = modules[n].title
                                     /\ modules'[n].line = modules[n].line
    BY <2>1, <2>3 DEF WithImport
  <2>6. Origin(d)'
    BY <1>1, <2>5, OriginKept DEF Collected, Same
  <2>7. NodeModules' = NodeModules /\ NodeFrom' = NodeFrom
    BY <2>1, NamesStay
  <2>8. /\ SeenFrom(d, x + 1) = SeenFrom(d, x) \cup {<<TitleOf(d + 1), w>>}
        /\ SeenModules(d, x + 1) = SeenModules(d, x)
    BY <1>1, <1>2, <2>2, SeenNext
  <2>9. Collected(d, x + 1)'
    BY <1>5, <2>4, <2>6, <2>7, <2>8 DEF Collected
  <2>10. FillsFor(i)'
    BY <1>4, <1>5, <1>8, <2>1, <2>2, <2>3, <2>5 DEF FillsFor
  <2>11. QED BY <1>4, <2>9, <2>10
<1>9. QED BY <1>7, <1>8

(* A name the library has already; _search_import_from_statement found it.  *)
LEMMA RepeatedName ==
  ASSUME TypeOK, Covers, Same, UNCHANGED <<modules, node, target>>,
         NEW d \in Nat, d + 1 \in FromStatements,
         NEW x \in 0 .. (NumNames(d + 1) - 1), Collected(d, x),
         FillsFor(d + 1), SearchImportFromStatement(NameOf(d + 1, x + 1))
  PROVE  Collected(d, x + 1)' /\ FillsFor(d + 1)'
<1>1. /\ program \in PythonProgram /\ x \in Nat
      /\ d + 1 \in DOMAIN statements /\ statements[d + 1].kind = "from"
  BY StatementTypes DEF Covers, FromStatements
<1>2. PICK w : w = NameOf(d + 1, x + 1)
  OBVIOUS
<1>3. <<TitleOf(d + 1), w>> \in ListedFrom \cup NodeFrom
  <2>1. CASE target = 0
    <3>1. node.kind = "FROM" /\ node.title = TitleOf(d + 1) /\ w \in Range(node.imports)
      BY <1>1, <1>2, <2>1 DEF FillsFor, SearchImportFromStatement, TargetImports
    <3>2. QED BY <3>1 DEF NodeFrom
  <2>2. CASE target # 0
    <3>1. PICK t \in DOMAIN modules : t = target
      BY <2>2 DEF TypeOK
    <3>2. modules[t].kind = "FROM" /\ modules[t].title = TitleOf(d + 1) /\ w \in Range(modules[t].imports)
      BY <1>1, <1>2, <2>2, <3>1 DEF FillsFor, SearchImportFromStatement, TargetImports
    <3>3. <<TitleOf(d + 1), w>> \in {modules[t].title} \X Range(modules[t].imports)
      BY <3>2
    <3>4. QED BY <3>2, <3>3, ListedIs
  <2>3. QED BY <2>1, <2>2
<1>4. SeenModules(d, x + 1) = SeenModules(d, x) /\ SeenFrom(d, x + 1) = SeenFrom(d, x)
  <2>1. /\ SeenFrom(d, x + 1) = SeenFrom(d, x) \cup {<<TitleOf(d + 1), w>>}
        /\ SeenModules(d, x + 1) = SeenModules(d, x)
    BY <1>1, <1>2, SeenNext
  <2>2. QED BY <1>3, <2>1 DEF Collected
<1>5. Collected(d, x + 1)'
  BY <1>1, <1>4, CollectedStays DEF Same
<1>6. FillsFor(d + 1)'
  <2>1. statements' = statements /\ TitleOf(d + 1)' = TitleOf(d + 1)
    BY ProgramStays DEF Same
  <2>2. QED BY <2>1 DEF FillsFor
<1>7. QED BY <1>5, <1>6

(* CSortEntity_find_module tells whether the statement begins something.    *)
LEMMA LeadingFrom ==
  ASSUME TypeOK, Covers, node = NoNode,
         NEW d \in Nat, d + 1 \in FromStatements, Collected(d, 0)
  PROVE  d + 1 \in Leading <=> (squash => FindModule(TitleOf(d + 1)) = 0)
<1>1. /\ program \in PythonProgram /\ d + 1 \in DOMAIN statements
      /\ statements[d + 1].kind = "from" /\ d + 1 \notin ImportStatements
  BY DEF Covers, FromStatements, ImportStatements
<1>2. PICK w : w = TitleOf(d + 1)
  OBVIOUS
<1>3. d + 1 \in Leading <=>
        (squash => \A j \in FromStatements : j < d + 1 => TitleOf(j) # w)
  BY <1>1, <1>2 DEF Leading
<1>4. ASSUME FindModule(w) # 0
      PROVE  \E j \in FromStatements : j < d + 1 /\ TitleOf(j) = w
  <2>1. PICK n \in DOMAIN modules : modules[n].kind = "FROM" /\ modules[n].title = w
    <3>1. ListOK
      BY TypeOKParts
    <3>2. /\ FindModule(w) \in 0 .. Len(modules)
          /\ modules[FindModule(w)].kind = "FROM" /\ modules[FindModule(w)].title = w
      BY <1>4, <3>1, FindModuleProperties
    <3>3. FindModule(w) \in DOMAIN modules
      BY <1>4, <3>2 DEF TypeOK
    <3>4. QED BY <3>2, <3>3
  <2>2. PICK f \in [DOMAIN modules -> DOMAIN statements] : Originates(f, d)
    BY DEF Collected, Origin
  <2>3. PICK j \in DOMAIN statements : j = f[n]
    BY <2>2
  <2>4. EntryOf(n, j) /\ j \in 1 .. d
    BY <2>1, <2>2, <2>3 DEF Originates, Range
  <2>5. statements[j].kind = "from" /\ TitleOf(j) = w
    <3>1. statements[j].kind \in {"import", "from"}
      BY <1>1, StatementTypes
    <3>2. QED BY <2>1, <2>4, <3>1 DEF EntryOf
  <2>6. QED BY <2>4, <2>5 DEF FromStatements
<1>5. ASSUME NEW j \in FromStatements, j < d + 1, TitleOf(j) = w
      PROVE  FindModule(w) # 0
  <2>1. NameOf(j, 1) \in NamesOf(j)
    <3>1. j \in DOMAIN statements
      BY DEF FromStatements
    <3>2. NumNames(j) > 0 /\ NumNames(j) \in Nat /\ DOMAIN statements[j].names = 1 .. NumNames(j)
      BY <1>1, <3>1, StatementTypes, StatementWritten DEF Covers
    <3>3. QED BY <3>2 DEF NamesOf
  <2>2. PICK pair : pair = <<w, NameOf(j, 1)>>
    OBVIOUS
  <2>3. pair \in SeenFrom(d, 0)
    <3>1. pair \in {TitleOf(j)} \X NamesOf(j)
      BY <1>5, <2>1, <2>2
    <3>2. QED BY <1>1, <1>5, <3>1, SeenBefore
  <2>4. pair \in ListedFrom
    BY <2>3, NoNodeNames DEF Collected
  <2>5. PICK n \in DOMAIN modules :
          modules[n].kind = "FROM" /\ pair \in {modules[n].title} \X Range(modules[n].imports)
    BY <2>4, ListedIs
  <2>6. modules[n].title = w
    BY <2>2, <2>5
  <2>7. ListOK
    BY TypeOKParts
  <2>8. QED BY <2>5, <2>6, <2>7, FindModuleProperties
<1>6. QED BY <1>2, <1>3, <1>4, <1>5

(* The library of a "from" statement is read.                               *)
LEMMA TitleStep ==
  ASSUME TypeOK, Covers, Same, modules' = modules, node = NoNode,
         NEW d \in Nat, d + 1 \in FromStatements, Collected(d, 0),
         \/ /\ squash /\ FindModule(TitleOf(d + 1)) # 0
            /\ target' = FindModule(TitleOf(d + 1)) /\ node' = node
         \/ /\ squash => FindModule(TitleOf(d + 1)) = 0
            /\ target' = 0 /\ node' = NewFrom(TitleOf(d + 1))
  PROVE  Collected(d, 0)' /\ FillsFor(d + 1)' /\ (target' = 0 <=> d + 1 \in Leading)
<1>1. /\ program \in PythonProgram /\ d + 1 \in DOMAIN statements
      /\ statements[d + 1].kind = "from"
  BY DEF Covers, FromStatements
<1>2. PICK w : w = TitleOf(d + 1)
  OBVIOUS
<1>3. target' = 0 <=> d + 1 \in Leading
  BY LeadingFrom
<1>4. statements' = statements /\ TitleOf(d + 1)' = w
  BY <1>2, ProgramStays DEF Same
<1>5. CASE squash /\ FindModule(w) # 0 /\ target' = FindModule(w) /\ node' = node
  <2>1. modules[FindModule(w)].kind = "FROM" /\ modules[FindModule(w)].title = w
    BY <1>5, TypeOKParts, FindModuleProperties
  <2>2. FillsFor(d + 1)'
    BY <1>1, <1>4, <1>5, <2>1 DEF FillsFor
  <2>3. Collected(d, 0)'
    BY <1>1, <1>5, CollectedStays DEF Same
  <2>4. QED BY <1>3, <2>2, <2>3
<1>6. CASE target' = 0 /\ node' = NewFrom(w)
  <2>1. CopyCStr(w) = w
    BY <1>1, <1>2, NameWhole
  <2>2. node'.kind = "FROM" /\ node'.title = w /\ node'.imports = <<>>
    BY <1>6, <2>1 DEF NewFrom
  <2>3. FillsFor(d + 1)'
    BY <1>1, <1>4, <1>6, <2>2 DEF FillsFor
  <2>4. NodeModules' = {} /\ NodeFrom' = {}
    <3>1. Range(<<>>) = {}
      BY DEF Range
    <3>2. QED BY <2>2, <3>1 DEF NodeModules, NodeFrom
  <2>5. NodeModules = {} /\ NodeFrom = {}
    BY NoNodeNames
  <2>6. /\ SeenModules(d, 0)' = SeenModules(d, 0) /\ SeenFrom(d, 0)' = SeenFrom(d, 0)
    BY ProgramStays DEF Same
  <2>7. Origin(d)' /\ ListedModules' = ListedModules /\ ListedFrom' = ListedFrom
    BY <1>1, OriginSame, NamesStay DEF Collected
  <2>8. Collected(d, 0)'
    BY <2>4, <2>5, <2>6, <2>7 DEF Collected
  <2>9. QED BY <1>3, <2>3, <2>8
<1>7. QED BY <1>2, <1>5, <1>6

(* The line that CSortEntity_append_module records.                         *)
LEMMA LineRecorded ==
  ASSUME TypeOK, Covers, LineKnown, UpdateToken, Over, NEW i, InLineOf(i)
  PROVE  line_counter' = LineAfter(i)
<1>1. FitsBuffer(file) /\ file = program.text
  BY DEF Covers, Covered
<1>2. line_counter = LineOf(i)
  BY <1>1 DEF LineKnown, NewlinesUpTo, LineOf, InLineOf, End
<1>3. off = End(i)
  BY DEF InLineOf
<1>4. CASE off < Len(file) /\ GetLine
  <2>1. line_counter' = line_counter + 1
    BY <1>4, GetLineProperties
  <2>2. End(i) # Len(program.text)
    BY <1>1, <1>3, <1>4 DEF TypeOK
  <2>3. QED BY <1>2, <2>1, <2>2 DEF LineAfter
<1>5. CASE off = Len(file) /\ GetLineFails
  BY <1>1, <1>2, <1>3, <1>5 DEF GetLineFails, LineAfter
<1>6. QED BY <1>4, <1>5 DEF Over

(* A statement is over.                                                     *)
LEMMA StatementOver ==
  ASSUME TypeOK, Covers, Same, LineKnown, UpdateToken, Over,
         NEW d \in Nat, InLineOf(d + 1), Collected(d, NumNames(d + 1)),
         FillsFor(d + 1), target = 0 <=> d + 1 \in Leading, AppendModule
  PROVE  Collected(d + 1, 0)'
<1>1. /\ program \in PythonProgram /\ d + 1 \in DOMAIN statements
      /\ statements[d + 1].kind \in {"import", "from"}
  BY StatementTypes DEF Covers, InLineOf
<1>2. ListOK /\ line_counter' \in Nat
  BY TypeOKParts, UpdateTokenProperties DEF ReaderOK
<1>3. PICK e \in Nat : e = d + 1
  OBVIOUS
<1>4. /\ SeenModules(e, 0) = SeenModules(d, NumNames(e)) /\ SeenFrom(e, 0) = SeenFrom(d, NumNames(e))
  BY <1>1, <1>3, SeenWhole
<1>5. SeenModules(e, 0)' = SeenModules(e, 0) /\ SeenFrom(e, 0)' = SeenFrom(e, 0)
  BY ProgramStays DEF Same
<1>6. node' = NoNode /\ NodeModules' = {} /\ NodeFrom' = {}
  <2>1. node' = NoNode
    BY <1>2, AppendModuleProperties
  <2>2. Range(<<>>) = {}
    BY DEF Range
  <2>3. QED BY <2>1, <2>2 DEF NodeModules, NodeFrom, NoNode
<1>7. CASE target = 0
  <2>1. PICK m \in Module : m = AtLine(node, line_counter') /\ modules' = Append(modules, m)
    BY <1>2, <1>7, AppendModuleProperties
  <2>2. ListedModules' = ListedModules \cup NodeModules /\ ListedFrom' = ListedFrom \cup NodeFrom
    BY <2>1, AppendedNames
  <2>3. m.line = LineAfter(d + 1) /\ m.kind = node.kind /\ m.title = node.title
    BY <2>1, LineRecorded DEF AtLine
  <2>4. Origin(d + 1)'
    <3>1. IF statements[d + 1].kind = "import" THEN m.kind = "IMPORT"
          ELSE m.kind = "FROM" /\ m.title = TitleOf(d + 1)
      BY <1>1, <1>7, <2>3 DEF FillsFor
    <3>2. QED BY <1>1, <1>7, <2>1, <2>3, <3>1, OriginAppended DEF Same, Collected
  <2>5. QED BY <1>3, <1>4, <1>5, <1>6, <2>2, <2>4 DEF Collected
<1>8. CASE target # 0
  <2>1. modules' = modules
    BY <1>2, <1>8, AppendModuleProperties
  <2>2. node = NoNode
    BY <1>1, <1>8 DEF FillsFor
  <2>3. Leading \cap (1 .. e) = Leading \cap (1 .. d)
    BY <1>3, <1>8, LeadingNext
  <2>4. Collected(e, 0)'
    BY <1>1, <1>3, <1>4, <1>6, <2>1, <2>2, <2>3, CollectedStays DEF Same
  <2>5. QED BY <1>3, <2>4
<1>9. QED BY <1>7, <1>8

-----------------------------------------------------------------------------
(* The invariant: the parser follows the program                            *)

InImport == {"module", "known", "firstSep", "more", "moreSep"}
InFrom   == {"title", "importKw", "name", "nameSep"}

(***************************************************************************)
(* In statement d + 1, x names of it read: what is ahead at each call of   *)
(* _update_token, and what of the statement is in the list or in the node. *)
(***************************************************************************)
InStatement(d, x) ==
  /\ InLineOf(d + 1)
  /\ pc \in InImport <=> statements[d + 1].kind = "import"
  /\ pc = "title"    => x = 0 /\ Ahead(TitleAt(d + 1))
  /\ pc = "importKw" => x = 0 /\ Ahead(ImportAt(d + 1))
  /\ pc \in {"module", "more", "name"} =>
       x < NumNames(d + 1) /\ Ahead(NameAt(d + 1, x + 1))
  /\ pc \in {"known", "firstSep", "moreSep", "nameSep"} => x > 0 /\ AtSeparator(d + 1, x)
  /\ pc \in {"module", "known"} => \A y \in 1 .. x : NameOf(d + 1, y) \in SeenModules(d, 0)
  /\ pc \notin {"module", "known", "title"} => /\ FillsFor(d + 1)
                                               /\ target = 0 <=> d + 1 \in Leading
  /\ Collected(d, x)

(***************************************************************************)
(* Of a covered program, the list and the node hold exactly what was read: *)
(* all of the first d statements, and the first x names of the next.       *)
(***************************************************************************)
Follows ==
  /\ program \in PythonProgram /\ file = program.text
  /\ Covered(program) =>
       /\ LineRead
       /\ pc # "panic"
       /\ pc = "statement" =>
            \E d \in 0 .. Len(statements) : BetweenStatements(d) /\ Collected(d, 0)
       /\ pc \in InImport \cup InFrom =>
            \E d \in 0 .. (Len(statements) - 1) : \E x \in 0 .. NumNames(d + 1) : InStatement(d, x)
       /\ pc = "done" => node = NoNode /\ Collected(Len(statements), 0)

(* Where a step leads to.                                                   *)
LEMMA ToStatement ==
  ASSUME Covers, Same, file' = file, LineRead', pc' = "statement",
         NEW d, BetweenStatements(d)', Collected(d, 0)'
  PROVE  Follows'
<1>1. d \in 0 .. Len(statements')
  BY DEF BetweenStatements
<1>2. program' \in PythonProgram /\ file' = program'.text
  BY DEF Covers, Same
<1>3. pc' \notin InImport \cup InFrom /\ pc' # "panic" /\ pc' # "done"
  BY DEF InImport, InFrom
<1>4. QED BY <1>1, <1>2, <1>3 DEF Follows

LEMMA ToInside ==
  ASSUME Covers, Same, file' = file, LineRead', pc' \in InImport \cup InFrom,
         NEW d \in Nat, NEW x \in 0 .. NumNames(d + 1), InLineOf(d + 1)',
         pc' \in InImport <=> statements[d + 1].kind = "import",
         pc' = "title"    => x = 0 /\ Ahead(TitleAt(d + 1))',
         pc' = "importKw" => x = 0 /\ Ahead(ImportAt(d + 1))',
         pc' \in {"module", "more", "name"} =>
           x < NumNames(d + 1) /\ Ahead(NameAt(d + 1, x + 1))',
         pc' \in {"known", "firstSep", "moreSep", "nameSep"} => x > 0 /\ AtSeparator(d + 1, x)',
         pc' \in {"module", "known"} => \A y \in 1 .. x : NameOf(d + 1, y) \in SeenModules(d, 0),
         pc' \notin {"module", "known", "title"} =>
           FillsFor(d + 1)' /\ (target' = 0 <=> d + 1 \in Leading),
         Collected(d, x)'
  PROVE  Follows'
<1>1. /\ statements' = statements /\ NumNames(d + 1)' = NumNames(d + 1)
      /\ Leading' = Leading /\ SeenModules(d, 0)' = SeenModules(d, 0)
      /\ \A y : NameOf(d + 1, y)' = NameOf(d + 1, y)
  BY PlacesStay, ProgramStays DEF Same
<1>2. InStatement(d, x)'
  BY <1>1 DEF InStatement
<1>3. d \in 0 .. (Len(statements') - 1)
  <2>1. d + 1 \in DOMAIN statements
    BY <1>1 DEF InLineOf
  <2>2. DOMAIN statements = 1 .. Len(statements) /\ Len(statements) \in Nat
    BY StatementTypes DEF Covers
  <2>3. QED BY <1>1, <2>1, <2>2
<1>4. x \in 0 .. NumNames(d + 1)'
  BY <1>1
<1>5. program' \in PythonProgram /\ file' = program'.text
  BY DEF Covers, Same
<1>6. pc' # "panic" /\ pc' # "done" /\ pc' # "statement"
  BY DEF InImport, InFrom
<1>7. QED BY <1>2, <1>3, <1>4, <1>5, <1>6 DEF Follows

LEMMA ToNoMemory ==
  ASSUME Covers, Same, file' = file, LineRead', Die
  PROVE  Follows'
<1>1. pc' = "outOfMemory" /\ pc' \notin InImport \cup InFrom
  BY DEF Die, InImport, InFrom
<1>2. program' \in PythonProgram /\ file' = program'.text
  BY DEF Covers, Same
<1>3. QED BY <1>1, <1>2 DEF Follows

(* The list stays.                                                          *)
LEMMA ListStays ==
  ASSUME Covers, Same, UNCHANGED list, NEW d, NEW x
  PROVE  /\ Collected(d, x) => Collected(d, x)'
         /\ FillsFor(d) => FillsFor(d)'
<1>1. modules' = modules /\ node' = node /\ target' = target /\ program \in PythonProgram
  BY DEF list, Covers
<1>2. statements' = statements /\ TitleOf(d)' = TitleOf(d)
  BY ProgramStays DEF Same
<1>3. Collected(d, x) => Collected(d, x)'
  BY <1>1, CollectedStays DEF Same
<1>4. FillsFor(d) => FillsFor(d)'
  BY <1>1, <1>2 DEF FillsFor
<1>5. QED BY <1>3, <1>4

(* The line of a statement is left.                                         *)
LEMMA StatementLeft ==
  ASSUME TypeOK, LineRead, Covers, Same, UpdateToken, Over, NEW d \in Nat, InLineOf(d + 1)
  PROVE  /\ BetweenStatements(d + 1)' /\ d + 1 \in 0 .. Len(statements)
         /\ tok'.type \notin {"comma", "identifier"}
<1>1. /\ DOMAIN statements = 1 .. Len(statements) /\ Len(statements) \in Nat
      /\ d + 1 \in DOMAIN statements /\ off = End(d + 1)
  BY StatementTypes DEF Covers, InLineOf
<1>2. PICK e \in Nat : e = d + 1
  OBVIOUS
<1>3. \A i \in 1 .. e : End(i) <= off
  <2> TAKE i \in 1 .. e
  <2>1. i \in DOMAIN statements /\ e \in DOMAIN statements
    BY <1>1, <1>2
  <2>2. End(i) \in Nat /\ Start(e) \in Nat /\ End(e) \in Nat /\ Start(e) <= End(e)
    BY <2>1, NothingAfterEnd
  <2>3. i < e => End(i) < Start(e)
    BY <2>1 DEF Covers, Covered, statements, Start, End
  <2>4. QED BY <1>1, <1>2, <2>2, <2>3
<1>4. \A i \in (e + 1) .. Len(statements) : Start(i) > off
  <2> TAKE i \in (e + 1) .. Len(statements)
  <2>1. i \in DOMAIN statements /\ e \in DOMAIN statements /\ e < i
    BY <1>1, <1>2
  <2>2. End(e) < Start(i)
    BY <2>1 DEF Covers, Covered, statements, Start, End
  <2>3. Start(i) \in Nat /\ End(e) \in Nat
    BY <2>1, NothingAfterEnd
  <2>4. QED BY <1>1, <1>2, <2>2, <2>3
<1>5. e \in 0 .. Len(statements)
  BY <1>1, <1>2
<1>6. BetweenStatements(e)' /\ tok'.type \notin {"comma", "identifier"}
  BY <1>3, <1>4, <1>5, OverBetween DEF Same
<1>7. QED BY <1>2, <1>5, <1>6

-----------------------------------------------------------------------------
(* Every step follows the program                                           *)

Following ==
  /\ TypeOK /\ ViewBeforeNewline /\ LineKnown /\ Shape
  /\ Follows /\ Covered(program)

LEMMA Reads ==
  ASSUME Following, Same, UpdateToken
  PROVE  Covers /\ LineRead /\ LineRead' /\ file' = file /\ FitsBuffer(file)
<1>1. Covers /\ LineRead
  BY DEF Following, Follows, Covers
<1>2. FitsBuffer(file)
  BY DEF Following, Follows, Covered
<1>3. file' = file
  BY UpdateTokenProperties DEF Following
<1>4. QED BY <1>1, <1>2, <1>3, LineReadStep DEF Following

LEMMA Where ==
  ASSUME Following, pc \in InImport \cup InFrom
  PROVE  \E d, x \in Nat :
           /\ x \in 0 .. NumNames(d + 1)
           /\ InStatement(d, x) /\ InLineOf(d + 1) /\ d + 1 \in DOMAIN statements /\ InLine
           /\ NumNames(d + 1) \in Nat /\ statements[d + 1].kind \in {"import", "from"}
           /\ Collected(d, x)
<1>1. PICK d \in 0 .. (Len(statements) - 1) : \E x \in 0 .. NumNames(d + 1) : InStatement(d, x)
  BY DEF Following, Follows
<1>2. PICK x \in 0 .. NumNames(d + 1) : InStatement(d, x)
  BY <1>1
<1>3. Covers /\ LineRead
  BY DEF Following, Follows, Covers
<1>4. d \in Nat
  BY <1>3, StatementTypes DEF Covers
<1>5. InLineOf(d + 1) /\ d + 1 \in DOMAIN statements /\ Collected(d, x)
  BY <1>2 DEF InStatement, InLineOf
<1>6. InLine
  BY <1>3, <1>5, StatementInLine DEF Following
<1>7. NumNames(d + 1) \in Nat /\ statements[d + 1].kind \in {"import", "from"}
  BY <1>3, <1>5, StatementTypes DEF Covers
<1>8. QED BY <1>2, <1>4, <1>5, <1>6, <1>7

LEMMA FollowsStatement ==
  ASSUME Following, Same, Statement
  PROVE  Follows'
<1>1. UpdateToken /\ pc = "statement" /\ UNCHANGED list
  BY DEF Statement, Read
<1>2. Covers /\ LineRead /\ LineRead' /\ file' = file
  BY <1>1, Reads
<1>3. PICK d \in 0 .. Len(statements) : BetweenStatements(d) /\ Collected(d, 0)
  BY <1>1 DEF Following, Follows
<1>4. d \in Nat
  BY <1>2, StatementTypes DEF Covers
<1>5. Collected(d, 0)'
  BY <1>1, <1>2, <1>3, ListStays
<1>6. \/ /\ BetweenStatements(d)' /\ tok'.type \notin {"from", "import"}
         /\ tok'.type = "end" => d = Len(statements)
      \/ /\ d + 1 \in DOMAIN statements /\ tok'.type = statements[d + 1].kind
         /\ InLineOf(d + 1)'
         /\ IF statements[d + 1].kind = "import"
            THEN Ahead(NameAt(d + 1, 1))' ELSE Ahead(TitleAt(d + 1))'
  BY <1>1, <1>2, <1>3, ReadBetween DEF Following, Same
<1>7. CASE /\ BetweenStatements(d)' /\ tok'.type \notin {"from", "import"}
           /\ tok'.type = "end" => d = Len(statements)
  <2>1. CASE tok'.type # "end"
    <3>1. pc' = "statement"
      BY <1>7, <2>1 DEF Statement, Goto
    <3>2. QED BY <1>2, <1>5, <1>7, <3>1, ToStatement
  <2>2. CASE tok'.type = "end"
    <3>1. pc' = "done" /\ d = Len(statements)
      BY <1>7, <2>2 DEF Statement, Goto
    <3>2. node' = NoNode
      BY <1>1 DEF Following, Shape, BuildsImport, BuildsFrom, Outcomes, list
    <3>3. statements' = statements
      BY ProgramStays DEF Same
    <3>4. Collected(Len(statements), 0)'
      <4>1. UNCHANGED list /\ Collected(Len(statements), 0)
        BY <1>1, <1>3, <3>1
      <4>2. PICK e : e = Len(statements)
        OBVIOUS
      <4>3. Collected(e, 0)'
        BY <1>2, <4>1, <4>2, ListStays
      <4>4. e = Len(statements)'
        BY <3>3, <4>2
      <4>5. QED BY <4>3, <4>4 DEF Collected, SeenModules, SeenFrom, Origin, Originates, SeenOf, Seen
    <3>5. program' \in PythonProgram /\ file' = program'.text
      BY <1>2 DEF Covers, Same
    <3>6. QED BY <1>2, <3>1, <3>2, <3>4, <3>5 DEF Follows, InImport, InFrom
  <2>3. QED BY <2>1, <2>2
<1>8. CASE /\ d + 1 \in DOMAIN statements /\ tok'.type = statements[d + 1].kind
           /\ InLineOf(d + 1)'
           /\ IF statements[d + 1].kind = "import"
              THEN Ahead(NameAt(d + 1, 1))' ELSE Ahead(TitleAt(d + 1))'
  <2>1. statements[d + 1].kind \in {"import", "from"} /\ NumNames(d + 1) \in Nat /\ NumNames(d + 1) > 0
    BY <1>2, <1>8, StatementTypes, StatementWritten DEF Covers
  <2>2. 0 \in 0 .. NumNames(d + 1) /\ 0 < NumNames(d + 1) /\ 0 + 1 = 1
        /\ \A y \in 1 .. 0 : NameOf(d + 1, y) \in SeenModules(d, 0)
    BY <2>1
  <2>3. CASE statements[d + 1].kind = "import"
    <3>1. pc' = "module"
      BY <1>8, <2>3 DEF Statement, Goto
    <3>2. Ahead(NameAt(d + 1, 0 + 1))'
      BY <1>8, <2>3
    <3>3. pc' \in InImport
      BY <3>1 DEF InImport
    <3>4. QED BY <1>2, <1>4, <1>5, <1>8, <2>2, <2>3, <3>1, <3>2, <3>3, ToInside
  <2>4. CASE statements[d + 1].kind = "from"
    <3>1. pc' = "title"
      BY <1>8, <2>4 DEF Statement, Goto
    <3>2. pc' \in InFrom /\ pc' \notin InImport
      BY <3>1 DEF InImport, InFrom
    <3>3. QED BY <1>2, <1>4, <1>5, <1>8, <2>2, <2>4, <3>1, <3>2, ToInside
  <2>5. QED BY <2>1, <2>3, <2>4
<1>9. QED BY <1>6, <1>7, <1>8

LEMMA FollowsImportedModule ==
  ASSUME Following, Same, ImportedModule
  PROVE  Follows'
<1>1. UpdateToken /\ pc = "module" /\ pc \in InImport
  BY DEF ImportedModule, Read, InImport
<1>2. Covers /\ LineRead' /\ file' = file
  BY <1>1, Reads
<1>3. PICK d \in Nat, x \in Nat :
        /\ x \in 0 .. NumNames(d + 1)
        /\ InStatement(d, x) /\ InLineOf(d + 1) /\ d + 1 \in DOMAIN statements /\ InLine
        /\ NumNames(d + 1) \in Nat /\ Collected(d, x)
  BY <1>1, Where
<1>4. /\ statements[d + 1].kind = "import" /\ d + 1 \in ImportStatements
      /\ x < NumNames(d + 1) /\ Ahead(NameAt(d + 1, x + 1))
      /\ \A y \in 1 .. x : NameOf(d + 1, y) \in SeenModules(d, 0)
  BY <1>1, <1>3 DEF InStatement, ImportStatements
<1>5. x \in 0 .. (NumNames(d + 1) - 1) /\ x + 1 \in 0 .. NumNames(d + 1) /\ x + 1 > 0
  BY <1>3, <1>4
<1>6. /\ tok'.type = "identifier" /\ tok'.name = NameOf(d + 1, x + 1)
      /\ InLineOf(d + 1)' /\ AtSeparator(d + 1, x + 1)'
  BY <1>1, <1>2, <1>3, <1>4, <1>5, ReadName DEF Same
<1>7. node = NoNode /\ target = 0
  BY <1>1 DEF Following, Shape, BuildsImport, BuildsFrom, Outcomes
<1>8. CASE SearchForImports(tok'.name) /\ Goto("known") /\ UNCHANGED list
  <2>1. /\ Collected(d, x + 1)'
        /\ \A y \in 1 .. (x + 1) : NameOf(d + 1, y) \in SeenModules(d, 0)
    BY <1>2, <1>3, <1>4, <1>5, <1>6, <1>7, <1>8, KnownName DEF list
  <2>2. pc' = "known" /\ pc' \in InImport
    BY <1>8 DEF Goto, InImport
  <2>3. QED BY <1>2, <1>3, <1>4, <1>5, <1>6, <2>1, <2>2, ToInside
<1>9. CASE Die
  BY <1>2, <1>9, ToNoMemory
<1>10. CASE /\ ~SearchForImports(tok'.name) /\ node' = NewImport(tok'.name)
            /\ Goto("firstSep") /\ UNCHANGED <<modules, target>>
  <2>1. Collected(d, x + 1)' /\ d + 1 \in Leading
    BY <1>2, <1>3, <1>4, <1>5, <1>6, <1>7, <1>10, NewName
  <2>2. pc' = "firstSep" /\ pc' \in InImport
    BY <1>10 DEF Goto, InImport
  <2>3. FillsFor(d + 1)' /\ target' = 0
    <3>1. statements' = statements
      BY ProgramStays DEF Same
    <3>2. node'.kind = "IMPORT"
      BY <1>10 DEF NewImport
    <3>3. QED BY <1>4, <1>7, <1>10, <3>1, <3>2 DEF FillsFor
  <2>4. QED BY <1>2, <1>3, <1>4, <1>5, <1>6, <2>1, <2>2, <2>3, ToInside
<1>11. QED BY <1>6, <1>8, <1>9, <1>10 DEF ImportedModule

LEMMA FollowsAfterKnownModule ==
  ASSUME Following, Same, AfterKnownModule
  PROVE  Follows'
<1>1. UpdateToken /\ pc = "known" /\ pc \in InImport /\ UNCHANGED list
      /\ pc' = IF Separator THEN "module" ELSE "statement"
  BY DEF AfterKnownModule, Read, InImport, Goto
<1>2. Covers /\ LineRead /\ LineRead' /\ file' = file
  BY <1>1, Reads
<1>3. PICK d \in Nat, x \in Nat :
        /\ x \in 0 .. NumNames(d + 1)
        /\ InStatement(d, x) /\ InLineOf(d + 1) /\ d + 1 \in DOMAIN statements /\ InLine
        /\ NumNames(d + 1) \in Nat /\ Collected(d, x)
  BY <1>1, Where
<1>4. /\ statements[d + 1].kind = "import" /\ d + 1 \in ImportStatements
      /\ x > 0 /\ AtSeparator(d + 1, x)
      /\ \A y \in 1 .. x : NameOf(d + 1, y) \in SeenModules(d, 0)
  BY <1>1, <1>3 DEF InStatement, ImportStatements
<1>5. x \in 1 .. NumNames(d + 1)
  BY <1>3, <1>4
<1>6. /\ x < NumNames(d + 1) => /\ tok'.type = "comma"
                                /\ InLineOf(d + 1)' /\ Ahead(NameAt(d + 1, x + 1))'
      /\ x = NumNames(d + 1) => Over
  BY <1>1, <1>2, <1>3, <1>4, <1>5, ReadSeparator DEF Same
<1>7. Collected(d, x)'
  BY <1>1, <1>2, <1>3, ListStays
<1>8. CASE x < NumNames(d + 1)
  <2>1. pc' = "module" /\ pc' \in InImport
    BY <1>1, <1>6, <1>8 DEF Separator, InImport
  <2>2. QED BY <1>2, <1>3, <1>4, <1>6, <1>7, <1>8, <2>1, ToInside
<1>9. CASE x = NumNames(d + 1)
  <2>1. BetweenStatements(d + 1)' /\ tok'.type \notin {"comma", "identifier"}
    BY <1>1, <1>2, <1>3, <1>6, <1>9, StatementLeft DEF Following
  <2>2. pc' = "statement"
    BY <1>1, <2>1 DEF Separator
  <2>3. PICK e : e = d + 1
    OBVIOUS
  <2>4. Collected(e, 0)'
    <3>1. d + 1 \notin Leading
      BY <1>2, <1>4, <1>9, LeadingImport DEF Covers
    <3>2. Leading \cap (1 .. e) = Leading \cap (1 .. d)
      BY <2>3, <3>1, LeadingNext
    <3>3. SeenModules(e, 0) = SeenModules(d, x) /\ SeenFrom(e, 0) = SeenFrom(d, x)
      BY <1>2, <1>3, <1>9, <2>3, SeenWhole DEF Covers
    <3>4. QED BY <1>1, <1>2, <1>3, <3>2, <3>3, CollectedStays DEF Same, list, Covers
  <2>5. BetweenStatements(e)'
    BY <2>1, <2>3
  <2>6. QED BY <1>2, <2>2, <2>4, <2>5, ToStatement
<1>10. QED BY <1>3, <1>5, <1>8, <1>9

(* The separators after a name that was pushed: a comma, or the statement   *)
(* is over and its entry joins the list.                                    *)
LEMMA FollowsSeparator ==
  ASSUME Following, Same, UpdateToken, pc \in {"firstSep", "moreSep", "nameSep"},
         \/ /\ tok'.type \in {"comma", "identifier"} /\ UNCHANGED list
            /\ pc' = IF pc = "nameSep" THEN "name" ELSE "more"
         \/ tok'.type # "comma" /\ AppendModule /\ pc' = "statement"
  PROVE  Follows'
<1>1. pc \in InImport \cup InFrom /\ (pc = "nameSep" <=> pc \notin InImport)
  BY DEF InImport, InFrom
<1>2. Covers /\ LineRead /\ LineRead' /\ file' = file
  BY Reads
<1>3. PICK d \in Nat, x \in Nat :
        /\ x \in 0 .. NumNames(d + 1)
        /\ InStatement(d, x) /\ InLineOf(d + 1) /\ d + 1 \in DOMAIN statements /\ InLine
        /\ NumNames(d + 1) \in Nat /\ Collected(d, x)
  BY <1>1, Where
<1>4. /\ pc \in InImport <=> statements[d + 1].kind = "import"
      /\ x > 0 /\ AtSeparator(d + 1, x)
      /\ FillsFor(d + 1) /\ (target = 0 <=> d + 1 \in Leading)
  BY <1>3 DEF InStatement
<1>5. x \in 1 .. NumNames(d + 1)
  BY <1>3, <1>4
<1>6. /\ x < NumNames(d + 1) => /\ tok'.type = "comma"
                                /\ InLineOf(d + 1)' /\ Ahead(NameAt(d + 1, x + 1))'
      /\ x = NumNames(d + 1) => Over
  BY <1>2, <1>3, <1>4, <1>5, ReadSeparator DEF Same
<1>7. CASE x < NumNames(d + 1)
  <2>1. UNCHANGED list /\ pc' = IF pc = "nameSep" THEN "name" ELSE "more"
    BY <1>6, <1>7
  <2>2. Collected(d, x)' /\ FillsFor(d + 1)' /\ target' = target
    BY <1>2, <1>3, <1>4, <2>1, ListStays DEF list
  <2>3. /\ pc' \in {"name", "more"} /\ pc' \in InImport \cup InFrom
        /\ pc' \in InImport <=> statements[d + 1].kind = "import"
    BY <1>1, <1>4, <2>1 DEF InImport, InFrom
  <2>4. QED BY <1>2, <1>3, <1>4, <1>6, <1>7, <2>2, <2>3, ToInside
<1>8. CASE x = NumNames(d + 1)
  <2>1. BetweenStatements(d + 1)' /\ tok'.type \notin {"comma", "identifier"}
    BY <1>2, <1>3, <1>6, <1>8, StatementLeft DEF Following
  <2>2. AppendModule /\ pc' = "statement"
    BY <2>1
  <2>3. Collected(d + 1, 0)'
    BY <1>2, <1>3, <1>4, <1>6, <1>8, <2>2, StatementOver DEF Following
  <2>4. PICK e : e = d + 1
    OBVIOUS
  <2>5. QED BY <1>2, <2>1, <2>2, <2>3, <2>4, ToStatement
<1>9. QED BY <1>3, <1>5, <1>7, <1>8

(* A name is read that is pushed, or that the library has already.          *)
LEMMA FollowsName ==
  ASSUME Following, Same, MoreModule \/ FromName
  PROVE  Follows'
<1>1. UpdateToken /\ pc \in {"more", "name"} /\ pc \in InImport \cup InFrom
      /\ (pc = "more" <=> pc \in InImport)
  BY DEF MoreModule, FromName, Read, InImport, InFrom
<1>2. Covers /\ LineRead /\ LineRead' /\ file' = file
  BY <1>1, Reads
<1>3. PICK d \in Nat, x \in Nat :
        /\ x \in 0 .. NumNames(d + 1)
        /\ InStatement(d, x) /\ InLineOf(d + 1) /\ d + 1 \in DOMAIN statements /\ InLine
        /\ NumNames(d + 1) \in Nat /\ statements[d + 1].kind \in {"import", "from"}
        /\ Collected(d, x)
  BY <1>1, Where
<1>4. /\ pc \in InImport <=> statements[d + 1].kind = "import"
      /\ x < NumNames(d + 1) /\ Ahead(NameAt(d + 1, x + 1))
      /\ FillsFor(d + 1) /\ (target = 0 <=> d + 1 \in Leading)
  BY <1>1, <1>3 DEF InStatement
<1>5. x \in 0 .. (NumNames(d + 1) - 1) /\ x + 1 \in 0 .. NumNames(d + 1) /\ x + 1 > 0
  BY <1>3, <1>4
<1>6. /\ tok'.type = "identifier" /\ tok'.name = NameOf(d + 1, x + 1)
      /\ InLineOf(d + 1)' /\ AtSeparator(d + 1, x + 1)'
  BY <1>1, <1>2, <1>3, <1>4, <1>5, ReadName DEF Same
<1>7. pc' = (IF pc = "more" THEN "moreSep" ELSE "nameSep") =>
        /\ pc' \in {"moreSep", "nameSep"} /\ pc' \in InImport \cup InFrom
        /\ pc' \in InImport <=> statements[d + 1].kind = "import"
  BY <1>1, <1>4 DEF InImport, InFrom
<1>8. ASSUME pc' = IF pc = "more" THEN "moreSep" ELSE "nameSep",
             target' = target, Collected(d, x + 1)', FillsFor(d + 1)'
      PROVE  Follows'
  BY <1>2, <1>3, <1>4, <1>5, <1>6, <1>7, <1>8, ToInside
<1>9. CASE Die
  BY <1>2, <1>9, ToNoMemory
<1>10. CASE /\ PushImport(tok'.name) /\ target' = target
            /\ pc' = IF pc = "more" THEN "moreSep" ELSE "nameSep"
  <2>1. Collected(d, x + 1)' /\ FillsFor(d + 1)'
    BY <1>2, <1>3, <1>4, <1>5, <1>6, <1>10, PushedName DEF Following
  <2>2. QED BY <1>8, <1>10, <2>1
<1>11. CASE /\ pc = "name" /\ SearchImportFromStatement(tok'.name)
            /\ pc' = "nameSep" /\ UNCHANGED list
  <2>1. d + 1 \in FromStatements
    <3>1. statements[d + 1].kind = "from"
      BY <1>1, <1>3, <1>4, <1>11
    <3>2. QED BY <1>3, <3>1 DEF FromStatements
  <2>2. UNCHANGED <<modules, node, target>>
    BY <1>11 DEF list
  <2>3. Collected(d, x + 1)' /\ FillsFor(d + 1)'
    BY <1>2, <1>3, <1>4, <1>5, <1>6, <1>11, <2>1, <2>2, RepeatedName DEF Following
  <2>4. QED BY <1>8, <1>11, <2>2, <2>3
<1>12. QED BY <1>6, <1>9, <1>10, <1>11 DEF MoreModule, FromName, Read, Goto

LEMMA FollowsFromTitle ==
  ASSUME Following, Same, FromTitle
  PROVE  Follows'
<1>1. UpdateToken /\ pc = "title" /\ pc \in InFrom /\ pc \notin InImport
  BY DEF FromTitle, Read, InFrom, InImport
<1>2. Covers /\ LineRead /\ LineRead' /\ file' = file
  BY <1>1, Reads
<1>3. PICK d \in Nat, x \in Nat :
        /\ x \in 0 .. NumNames(d + 1)
        /\ InStatement(d, x) /\ InLineOf(d + 1) /\ d + 1 \in DOMAIN statements /\ InLine
        /\ NumNames(d + 1) \in Nat /\ statements[d + 1].kind \in {"import", "from"}
        /\ Collected(d, x)
  BY <1>1, Where
<1>4. /\ statements[d + 1].kind = "from" /\ x = 0 /\ Ahead(TitleAt(d + 1))
      /\ d + 1 \in FromStatements
  BY <1>1, <1>3 DEF InStatement, FromStatements
<1>5. /\ tok'.type = "identifier" /\ tok'.name = TitleOf(d + 1)
      /\ InLineOf(d + 1)' /\ Ahead(ImportAt(d + 1))'
  BY <1>1, <1>2, <1>3, <1>4, ReadHead DEF Same
<1>6. node = NoNode /\ target = 0
  BY <1>1 DEF Following, Shape, BuildsImport, BuildsFrom, Outcomes
<1>7. CASE Die
  BY <1>2, <1>7, ToNoMemory
<1>8. CASE /\ modules' = modules /\ pc' = "importKw"
           /\ \/ /\ squash /\ FindModule(TitleOf(d + 1)) # 0
                 /\ target' = FindModule(TitleOf(d + 1)) /\ node' = node
              \/ /\ squash => FindModule(TitleOf(d + 1)) = 0
                 /\ target' = 0 /\ node' = NewFrom(TitleOf(d + 1))
  <2>1. Collected(d, 0)' /\ FillsFor(d + 1)' /\ (target' = 0 <=> d + 1 \in Leading)
    BY <1>2, <1>3, <1>4, <1>6, <1>8, TitleStep DEF Following
  <2>2. pc' = "importKw" /\ pc' \in InFrom /\ pc' \notin InImport
    BY <1>8 DEF InFrom, InImport
  <2>3. QED BY <1>2, <1>3, <1>4, <1>5, <2>1, <2>2, ToInside
<1>9. squash \in BOOLEAN
  BY DEF Following, TypeOK
<1>10. QED
  <2>1. PICK found : found = IF squash THEN FindModule(tok'.name) ELSE 0
    OBVIOUS
  <2>2. \/ found # 0 /\ target' = found /\ pc' = "importKw" /\ modules' = modules /\ node' = node
        \/ Die
        \/ /\ found = 0 /\ node' = NewFrom(tok'.name) /\ pc' = "importKw"
           /\ modules' = modules /\ target' = target
    BY <1>5, <2>1 DEF FromTitle, Goto
  <2>3. QED BY <1>5, <1>6, <1>7, <1>8, <1>9, <2>1, <2>2

LEMMA FollowsFromImportKeyword ==
  ASSUME Following, Same, FromImportKeyword
  PROVE  Follows'
<1>1. UpdateToken /\ pc = "importKw" /\ pc \in InFrom /\ pc \notin InImport
  BY DEF FromImportKeyword, Read, InFrom, InImport
<1>2. Covers /\ LineRead /\ LineRead' /\ file' = file
  BY <1>1, Reads
<1>3. PICK d \in Nat, x \in Nat :
        /\ x \in 0 .. NumNames(d + 1)
        /\ InStatement(d, x) /\ InLineOf(d + 1) /\ d + 1 \in DOMAIN statements /\ InLine
        /\ NumNames(d + 1) \in Nat /\ statements[d + 1].kind \in {"import", "from"}
        /\ Collected(d, x)
  BY <1>1, Where
<1>4. /\ statements[d + 1].kind = "from" /\ x = 0 /\ Ahead(ImportAt(d + 1))
      /\ FillsFor(d + 1) /\ (target = 0 <=> d + 1 \in Leading)
  BY <1>1, <1>3 DEF InStatement
<1>5. tok'.type = "import" /\ InLineOf(d + 1)' /\ Ahead(NameAt(d + 1, 1))'
  BY <1>1, <1>2, <1>3, <1>4, ReadHead DEF Same
<1>6. pc' = "name" /\ pc' \in InFrom /\ pc' \notin InImport /\ UNCHANGED list
  BY <1>5 DEF FromImportKeyword, Goto, InFrom, InImport
<1>7. Collected(d, 0)' /\ FillsFor(d + 1)' /\ target' = target
  BY <1>2, <1>3, <1>4, <1>6, ListStays DEF list
<1>8. NumNames(d + 1) > 0 /\ 0 \in 0 .. NumNames(d + 1)
  BY <1>2, <1>3, StatementWritten DEF Covers
<1>9. Ahead(NameAt(d + 1, 0 + 1))'
  BY <1>5
<1>10. QED BY <1>2, <1>3, <1>4, <1>5, <1>6, <1>7, <1>8, <1>9, ToInside

(* Nothing happens: the program has left the parser, or it pauses.          *)
LEMMA FollowsStutter ==
  ASSUME TypeOK, Follows, UNCHANGED <<vars, program>>
  PROVE  Follows'
<1>1. /\ file' = file /\ squash' = squash /\ off' = off /\ buf' = buf
      /\ buf_view' = buf_view /\ pc' = pc /\ program' = program
      /\ modules' = modules /\ node' = node /\ target' = target /\ nodes' = nodes
  BY DEF vars
<1>2. program' \in PythonProgram /\ file' = program'.text
  BY <1>1 DEF Follows
<1>3. CASE Covered(program)
  <2>1. Covers /\ Same /\ UNCHANGED list /\ LineRead
    BY <1>1, <1>3 DEF Covers, Same, list, Follows
  <2>2. base' = base /\ here' = here /\ LineRead'
    BY <1>1, <2>1 DEF base, here, LineRead, LineInBuffer
  <2>3. /\ statements' = statements
        /\ \A i : Start(i)' = Start(i) /\ End(i)' = End(i) /\ NumNames(i)' = NumNames(i)
        /\ \A i : TitleAt(i)' = TitleAt(i) /\ ImportAt(i)' = ImportAt(i)
        /\ \A i, x : NameAt(i, x)' = NameAt(i, x)
    BY <1>1, PlacesStay
  <2>4. ASSUME NEW d, BetweenStatements(d)
        PROVE  BetweenStatements(d)'
    BY <1>1, <2>2, <2>3, <2>4 DEF BetweenStatements, Uncommented
  <2>5. ASSUME NEW p
        PROVE  Ahead(p)' <=> Ahead(p)
    BY <1>1, <2>2 DEF Ahead
  <2>6. ASSUME NEW i, InLineOf(i)
        PROVE  InLineOf(i)'
    BY <1>1, <2>2, <2>6, LineStays
  <2>7. ASSUME NEW i, NEW x, AtSeparator(i, x)
        PROVE  AtSeparator(i, x)'
    <3>1. PICK c \in here .. off :
            /\ Ahead(c)
            /\ x < NumNames(i) => /\ file[c] = COMMA
                                  /\ c < NameAt(i, x + 1) /\ Spaces(file, c, NameAt(i, x + 1))
            /\ x = NumNames(i) => file[c] \in {HASH, NL}
      BY <2>7 DEF AtSeparator
    <3>2. Ahead(c)'
      BY <2>5, <3>1
    <3>3. c \in here' .. off'
      BY <1>1, <2>2
    <3>4. /\ x < NumNames(i)' => /\ file'[c] = COMMA
                                 /\ c < NameAt(i, x + 1)' /\ Spaces(file', c, NameAt(i, x + 1)')
          /\ x = NumNames(i)' => file'[c] \in {HASH, NL}
      BY <1>1, <2>3, <3>1
    <3>5. QED BY <3>2, <3>3, <3>4 DEF AtSeparator
  <2>8. CASE pc = "statement"
    <3>1. PICK d \in 0 .. Len(statements) : BetweenStatements(d) /\ Collected(d, 0)
      BY <1>3, <2>8 DEF Follows
    <3>2. BetweenStatements(d)' /\ Collected(d, 0)'
      BY <2>1, <2>4, <3>1, ListStays
    <3>3. QED BY <1>1, <2>1, <2>2, <2>8, <3>2, ToStatement
  <2>9. CASE pc \in InImport \cup InFrom
    <3>1. PICK d \in 0 .. (Len(statements) - 1) : \E x \in 0 .. NumNames(d + 1) : InStatement(d, x)
      BY <1>3, <2>9 DEF Follows
    <3>2. PICK x \in 0 .. NumNames(d + 1) : InStatement(d, x)
      BY <3>1
    <3>3. d \in Nat
      BY <2>1, StatementTypes DEF Covers
    <3>4. PICK title, import, name :
            title = TitleAt(d + 1) /\ import = ImportAt(d + 1) /\ name = NameAt(d + 1, x + 1)
      OBVIOUS
    <3>5. /\ title = TitleAt(d + 1)' /\ import = ImportAt(d + 1)' /\ name = NameAt(d + 1, x + 1)'
      BY <2>3, <3>4
    <3>6. /\ Ahead(TitleAt(d + 1)) => Ahead(TitleAt(d + 1))'
          /\ Ahead(ImportAt(d + 1)) => Ahead(ImportAt(d + 1))'
          /\ Ahead(NameAt(d + 1, x + 1)) => Ahead(NameAt(d + 1, x + 1))'
      <4>1. Ahead(title)' <=> Ahead(title)
        BY <2>5
      <4>2. Ahead(import)' <=> Ahead(import)
        BY <2>5
      <4>3. Ahead(name)' <=> Ahead(name)
        BY <2>5
      <4>4. QED BY <3>4, <3>5, <4>1, <4>2, <4>3 DEF Ahead
    <3>7. InLineOf(d + 1)'
      BY <2>6, <3>2 DEF InStatement
    <3>8. AtSeparator(d + 1, x) => AtSeparator(d + 1, x)'
      BY <2>7
    <3>9. Collected(d, x)'
      BY <2>1, <3>2, ListStays DEF InStatement
    <3>10. FillsFor(d + 1) => FillsFor(d + 1)'
      BY <2>1, ListStays
    <3>11. QED BY <1>1, <2>1, <2>2, <2>9, <3>2, <3>3, <3>6, <3>7, <3>8, <3>9, <3>10, ToInside
               DEF InStatement
  <2>10. CASE pc = "done"
    <3>1. node = NoNode /\ Collected(Len(statements), 0)
      BY <1>3, <2>10 DEF Follows
    <3>2. PICK e : e = Len(statements)
      OBVIOUS
    <3>3. Collected(e, 0)'
      BY <2>1, <3>1, <3>2, ListStays
    <3>4. e = Len(statements)'
      BY <2>3, <3>2
    <3>5. Collected(Len(statements), 0)'
      BY <3>3, <3>4 DEF Collected, SeenModules, SeenFrom, Origin, Originates, SeenOf, Seen
    <3>6. QED BY <1>1, <1>2, <2>2, <2>10, <3>1, <3>5 DEF Follows, InImport, InFrom
  <2>11. CASE pc = "outOfMemory"
    BY <1>1, <1>2, <2>2, <2>11 DEF Follows, InImport, InFrom
  <2>12. pc # "panic"
    BY <1>3 DEF Follows
  <2>13. pc \in {"statement", "done", "outOfMemory"} \cup InImport \cup InFrom
    BY <2>12 DEF TypeOK, Steps, Outcomes, InImport, InFrom
  <2>14. QED BY <2>8, <2>9, <2>10, <2>11, <2>13
<1>4. CASE ~Covered(program)
  <2>1. ~Covered(program')
    BY <1>1, <1>4
  <2>2. QED BY <1>2, <2>1 DEF Follows
<1>5. QED BY <1>3, <1>4

LEMMA FollowsStep ==
  ASSUME TypeOK, ViewBeforeNewline, LineKnown, Shape, Follows,
         [SourceNext]_<<vars, program>>
  PROVE  Follows'
<1>1. CASE UNCHANGED <<vars, program>>
  BY <1>1, FollowsStutter
<1>2. CASE SourceNext /\ ~Covered(program)
  <2>1. program' = program /\ file' = file
    BY <1>2, FileStays DEF SourceNext
  <2>2. ~Covered(program')
    BY <1>2, <2>1
  <2>3. QED BY <2>1, <2>2 DEF Follows
<1>3. CASE SourceNext /\ Covered(program)
  <2>1. Next /\ Same /\ Following
    BY <1>3, FileStays DEF SourceNext, Same, Following
  <2>2. CASE Statement
    BY <2>1, <2>2, FollowsStatement
  <2>3. CASE ImportedModule
    BY <2>1, <2>3, FollowsImportedModule
  <2>4. CASE AfterKnownModule
    BY <2>1, <2>4, FollowsAfterKnownModule
  <2>5. CASE AfterFirstNew \/ AfterMore \/ AfterName
    BY <2>1, <2>5, FollowsSeparator
       DEF AfterFirstNew, AfterMore, AfterName, Read, Goto, Separator
  <2>6. CASE MoreModule \/ FromName
    BY <2>1, <2>6, FollowsName
  <2>7. CASE FromTitle
    BY <2>1, <2>7, FollowsFromTitle
  <2>8. CASE FromImportKeyword
    BY <2>1, <2>8, FollowsFromImportKeyword
  <2>9. CASE Exited
    <3>1. UNCHANGED <<vars, program>>
      BY <1>3, <2>9 DEF Exited, SourceNext
    <3>2. QED BY <1>1, <3>1
  <2>10. QED BY <2>1, <2>2, <2>3, <2>4, <2>5, <2>6, <2>7, <2>8, <2>9 DEF Next
<1>4. QED BY <1>1, <1>2, <1>3

-----------------------------------------------------------------------------
(* The list and the program                                                 *)

LEMMA FollowsInit ==
  ASSUME SourceInit
  PROVE  TypeOK /\ ViewBeforeNewline /\ LineKnown /\ Shape /\ Follows
<1>1. Init /\ program \in Programs /\ file = program.text
  BY DEF SourceInit
<1>2. TypeOK
  BY <1>1, InitType
<1>3. ViewBeforeNewline
  BY <1>1 DEF Init, ViewBeforeNewline
<1>4. LineKnown
  <2>1. off = 0 /\ line_counter = 0 /\ tok.type = "start" /\ tok.line = 0 /\ buf = <<>>
    BY <1>1 DEF Init
  <2>2. NewlinesUpTo(off) = {}
    BY <2>1 DEF NewlinesUpTo
  <2>3. Cardinality(NewlinesUpTo(off)) = 0
    BY <2>2, FS_EmptySet
  <2>4. QED BY <2>1, <2>3 DEF LineKnown, LineOfToken, NewlinesUpTo
<1>5. Shape
  BY <1>1 DEF Init, Shape, BuildsImport, BuildsFrom, Outcomes, NoNode
<1>6. program \in PythonProgram
  BY <1>1, SourceAssumption
<1>7. LineRead
  BY <1>1 DEF Init, LineRead
<1>8. ASSUME Covered(program)
      PROVE  BetweenStatements(0) /\ Collected(0, 0)
  <2>1. Covers
    BY <1>1, <1>6, <1>8 DEF Covers
  <2>2. off = 0 /\ buf = <<>> /\ modules = <<>> /\ node = NoNode
    BY <1>1 DEF Init
  <2>3. base = 0 /\ Len(statements) \in Nat /\ DOMAIN statements = 1 .. Len(statements)
    <3>1. Len(buf) = 0 /\ off = 0
      BY <2>2
    <3>2. base = 0
      BY <3>1 DEF base
    <3>3. QED BY <1>6, <3>2, StatementTypes
  <2>4. BetweenStatements(0)
    <3>1. \A i \in (0 + 1) .. Len(statements) : Start(i) > 0
      <4> TAKE i \in (0 + 1) .. Len(statements)
      <4>1. i \in DOMAIN statements
        BY <2>3
      <4>2. statements[i] \in PyStatement
        BY <1>6, <4>1, StatementTypes
      <4>3. QED BY <4>2 DEF PyStatement, Position, Start
    <3> HIDE DEF base, here
    <3>2. QED BY <2>2, <2>3, <3>1 DEF BetweenStatements
  <2>5. ListedModules = {} /\ ListedFrom = {}
    BY <2>2 DEF ListedModules, ListedFrom
  <2>6. NodeModules = {} /\ NodeFrom = {}
    BY <2>2, NoNodeNames
  <2>7. SeenModules(0, 0) = {} /\ SeenFrom(0, 0) = {}
    BY <1>6, SeenWhole
  <2>8. Origin(0)
    <3>1. DOMAIN modules = {}
      BY <2>2
    <3>2. PICK f \in [DOMAIN modules -> DOMAIN statements] : TRUE
      <4> DEFINE f == [n \in {} |-> 0]
      <4>1. f \in [DOMAIN modules -> DOMAIN statements]
        BY <3>1
      <4>2. QED BY <4>1
    <3>3. Range(f) = {} /\ Leading \cap (1 .. 0) = {}
      BY <3>1, <3>2 DEF Range
    <3>4. QED BY <3>1, <3>3 DEF Origin, Originates
  <2>9. QED BY <2>4, <2>5, <2>6, <2>7, <2>8 DEF Collected
<1>9. Follows
  <2>1. pc = "statement" /\ pc \notin InImport \cup InFrom
    BY <1>1 DEF Init, InImport, InFrom
  <2>2. Len(statements) \in Nat
    BY <1>6, StatementTypes
  <2>3. QED BY <1>1, <1>6, <1>7, <1>8, <2>1, <2>2 DEF Follows
<1>10. QED BY <1>2, <1>3, <1>4, <1>5, <1>9

(***************************************************************************)
(* CSortEntity_sort follows the program: whenever it asks for a token, the *)
(* list and the entry under construction hold what the program says up to  *)
(* the place that is read next, and nothing more.                          *)
(***************************************************************************)
THEOREM FollowsInvariant ==
  SourceSpec => [](TypeOK /\ ViewBeforeNewline /\ LineKnown /\ Shape /\ Follows)
<1> DEFINE Inv == TypeOK /\ ViewBeforeNewline /\ LineKnown /\ Shape /\ Follows
<1>1. SourceInit => Inv
  BY FollowsInit
<1>2. Inv /\ [SourceNext]_<<vars, program>> => Inv'
  <2> SUFFICES ASSUME Inv, [SourceNext]_<<vars, program>>
               PROVE  Inv'
    OBVIOUS
  <2>1. [Next]_vars
    BY DEF SourceNext
  <2>2. TypeOK' /\ Shape' /\ Follows'
    BY <2>1, StepType, ShapeStep, FollowsStep
  <2>3. CASE UpdateToken
    BY <2>2, <2>3, ViewStep, LineStep
  <2>4. CASE UNCHANGED vars
    BY <2>2, <2>4 DEF vars, ViewBeforeNewline, ViewEnd, LineKnown, FitsBuffer, NewlinesUpTo, LineOfToken
  <2>5. UpdateToken \/ UNCHANGED vars
    BY <2>1 DEF Next, Exited, Read, Statement, ImportedModule, AfterKnownModule,
       AfterFirstNew, MoreModule, AfterMore, FromTitle, FromImportKeyword, FromName, AfterName
  <2>6. QED BY <2>3, <2>4, <2>5
<1>3. QED BY <1>1, <1>2, PTL DEF SourceSpec

(* What the list holds when a covered program was read.                     *)
LEMMA Complete ==
  ASSUME Follows, Covered(program), pc = "done"
  PROVE  /\ Covers
         /\ ListedModules = ImportedModules /\ ListedFrom = ImportedFrom
         /\ \E f \in [DOMAIN modules -> DOMAIN statements] :
              Originates(f, Len(statements)) /\ Range(f) = Leading
<1>1. Covers /\ node = NoNode /\ Collected(Len(statements), 0)
  BY DEF Follows, Covers
<1>2. ListedModules = ImportedModules /\ ListedFrom = ImportedFrom
  BY <1>1, NoNodeNames, SeenWhole DEF Collected, Covers
<1>3. PICK f \in [DOMAIN modules -> DOMAIN statements] : Originates(f, Len(statements))
  BY <1>1 DEF Collected, Origin
<1>4. Leading \subseteq 1 .. Len(statements)
  BY <1>1, StatementTypes DEF Leading, ImportStatements, FromStatements, Covers
<1>5. Range(f) = Leading
  BY <1>3, <1>4 DEF Originates
<1>6. QED BY <1>1, <1>2, <1>3, <1>5

(***************************************************************************)
(* CSortEntity_sort reads every program csort's grammar covers to the end, *)
(* and then the list names what the program imports, all of it and nothing *)
(* else, with one entry for each statement that begins something, in the   *)
(* order of the program: whatever the layout of its lines, the comments    *)
(* and the other statements between them, the size of the line buffer they *)
(* fit in, and with or without squashing.                                  *)
(***************************************************************************)
THEOREM ProgramCollected == SourceSpec => []NothingLostOrInvented
<1>1. Follows => NothingLostOrInvented
  <2> SUFFICES ASSUME Follows PROVE NothingLostOrInvented
    OBVIOUS
  <2>1. pc = "panic" => ~Covered(program)
    BY DEF Follows
  <2>2. ASSUME pc = "done", Covered(program)
        PROVE  /\ ListedModules = ImportedModules
               /\ ListedFrom = ImportedFrom
               /\ \E origin \in [DOMAIN modules -> DOMAIN statements] : InProgramOrder(origin)
    BY <2>2, Complete DEF Originates, InProgramOrder
  <2>3. QED BY <2>1, <2>2 DEF NothingLostOrInvented
<1>2. QED BY FollowsInvariant, <1>1, PTL

(***************************************************************************)
(* get_imports_start_line is right for every covered program that imports  *)
(* something: one less than the line recorded for the first entry is the   *)
(* number of the first import statement's line, or, when no line follows   *)
(* that statement, of the line before it.                                  *)
(***************************************************************************)
THEOREM ImportsStart == SourceSpec => []StartLineKnown
<1>1. TypeOK /\ Follows => StartLineKnown
  <2> SUFFICES ASSUME TypeOK, Follows, pc = "done", Covered(program), statements # <<>>
               PROVE  /\ modules # <<>>
                      /\ modules[1].line - 1 = IF statements[1].end = Len(program.text)
                                               THEN LineOf(1) - 1 ELSE LineOf(1)
    BY DEF StartLineKnown
  <2>1. Covers
    BY Complete
  <2>2. PICK f \in [DOMAIN modules -> DOMAIN statements] :
          Originates(f, Len(statements)) /\ Range(f) = Leading
    BY Complete
  <2>3. /\ DOMAIN statements = 1 .. Len(statements) /\ Len(statements) \in Nat
        /\ 1 \in DOMAIN statements
    BY <2>1, StatementTypes DEF Covers
  <2>4. 1 \in Leading
    <3>1. statements[1].kind \in {"import", "from"} /\ NumNames(1) \in Nat
          /\ DOMAIN statements[1].names = 1 .. NumNames(1)
      BY <2>1, <2>3, StatementTypes DEF Covers
    <3>2. NumNames(1) > 0
      BY <2>1, <2>3, StatementWritten DEF Covers
    <3>3. NameOf(1, 1) \in NamesOf(1)
      BY <3>1, <3>2 DEF NamesOf
    <3>4. \A j \in ImportStatements \cup FromStatements : ~(j < 1)
      BY <2>3 DEF ImportStatements, FromStatements
    <3>5. 1 \in ImportStatements \/ 1 \in FromStatements
      BY <2>3, <3>1 DEF ImportStatements, FromStatements
    <3>6. QED BY <3>3, <3>4, <3>5 DEF Leading
  <2>5. PICK n \in DOMAIN modules : f[n] = 1
    BY <2>2, <2>4 DEF Range
  <2>6. DOMAIN modules = 1 .. Len(modules) /\ Len(modules) \in Nat
    BY DEF TypeOK
  <2>7. n = 1
    <3>1. n \in Nat /\ 1 \in DOMAIN modules
      BY <2>5, <2>6
    <3>2. f[1] \in 1 .. Len(statements)
      BY <2>2, <2>3, <3>1
    <3>3. 1 < n => f[1] < f[n]
      BY <2>2, <2>5, <3>1 DEF Originates
    <3>4. QED BY <2>3, <2>5, <2>6, <3>1, <3>2, <3>3
  <2>8. modules[1].line = LineAfter(1) /\ modules # <<>>
    BY <2>2, <2>5, <2>7 DEF Originates
  <2>9. LineOf(1) \in Nat
    <3>1. End(1) \in Nat
      BY <2>1, <2>3, NothingAfterEnd
    <3>2. IsFiniteSet({k \in 1 .. End(1) : program.text[k] = NL})
      <4>1. IsFiniteSet(1 .. End(1))
        BY <3>1, FS_Interval
      <4>2. {k \in 1 .. End(1) : program.text[k] = NL} \in SUBSET (1 .. End(1))
        OBVIOUS
      <4>3. QED BY <4>1, <4>2, FS_Subset
    <3>3. QED BY <3>2, FS_CardinalityType DEF LineOf, End
  <2>10. QED BY <2>8, <2>9 DEF LineAfter, End
<1>2. QED BY FollowsInvariant, <1>1, PTL

=============================================================================
