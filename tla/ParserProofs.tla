---------------------------- MODULE ParserProofs ----------------------------
(***************************************************************************)
(* What holds of the parser for every file, every buffer size and every    *)
(* heap: types, the invariants of the list, and that the list implements   *)
(* the abstract table of imports.                                          *)
(***************************************************************************)
EXTENDS Parser, ListProofs

-----------------------------------------------------------------------------
(* The tokenizer, for every text: the type of the token it returns, how far *)
(* it may move in the text, and that it does not move past a newline.       *)

(* A set of naturals that is not empty has a minimum.                       *)
LEMMA MinProperties ==
  ASSUME NEW S \in SUBSET Nat, S # {}
  PROVE  Min(S) \in S /\ \A y \in S : Min(S) <= y
BY Smallest DEF Min

(* The range [from, to) of a text that can be scanned.                      *)
Scan(text, from, to) ==
  /\ from \in Nat \ {0} /\ to \in Nat /\ from <= to
  /\ text \in [from .. (to - 1) -> Char]

LEMMA SliceType ==
  ASSUME NEW text, NEW from, NEW to, Scan(text, from, to),
         NEW i \in from .. to, NEW j \in i .. to
  PROVE  Slice(text, i, j) \in Seq(Char)
<1>1. \A k \in 1 .. (j - i) : k + i - 1 \in from .. (to - 1)
  BY DEF Scan
<1>2. Slice(text, i, j) \in [1 .. (j - i) -> Char]
  BY <1>1 DEF Slice, Scan
<1>3. j - i \in Nat BY DEF Scan
<1>4. QED BY <1>2, <1>3, SeqDef

(* Skipping spaces stays in the range, and stops at the latest at a         *)
(* character that is no space.                                              *)
LEMMA FindFirstNotSpaceProperties ==
  ASSUME NEW text, NEW from, NEW to, Scan(text, from, to),
         NEW i \in from .. to
  PROVE  /\ FindFirstNotSpace(text, i, to) \in i .. to
         /\ i < to => FindFirstNotSpace(text, i, to) < to
         /\ \A k \in i .. (to - 1) : text[k] # SP => FindFirstNotSpace(text, i, to) <= k
<1> DEFINE found == {k \in i .. (to - 1) : text[k] # SP}
<1>1. found \in SUBSET Nat BY DEF Scan
<1>2. CASE found = {}
  BY <1>2 DEF FindFirstNotSpace, Scan
<1>3. CASE found # {}
  <2>1. Min(found) \in found /\ \A y \in found : Min(found) <= y
    BY <1>1, <1>3, MinProperties
  <2>2. FindFirstNotSpace(text, i, to) = Min(found)
    BY <1>3 DEF FindFirstNotSpace
  <2>3. QED BY <2>1, <2>2 DEF Scan
<1>4. QED BY <1>2, <1>3

(***************************************************************************)
(* What a call of NextToken returns, whatever it scans.  A token that does *)
(* not end the line leaves the scan in the range, at or after the place    *)
(* where the token begins, and only spaces were skipped before that; a     *)
(* keyword token is the keyword; the token's characters are in the range.  *)
(* A newline in the range bounds the scan: the next one starts at or       *)
(* before it, and the token precedes it.                                   *)
(***************************************************************************)
TokenFrom(t, text, from, to) ==
  /\ t \in [type : TokenTypes \ {"start", "end"}, name : Seq(Char),
            begin : Nat \ {0}, next : Nat \ {0}, col : Nat]
  /\ from <= t.begin /\ t.begin <= t.next
  /\ \A k \in from .. (t.begin - 1) : text[k] = SP
  /\ t.type \notin {"newline", "comment"} => t.next <= to
  /\ t.type = "from" => t.name = <<FROM>>
  /\ t.type = "import" => t.name = <<IMPORT>>
  /\ \A i \in DOMAIN t.name : \E c \in from .. (to - 1) : t.name[i] = text[c]
  /\ \A k \in from .. (to - 1) :
       text[k] = NL /\ t.type \notin {"newline", "comment"} =>
         /\ t.begin <= k /\ t.next <= k
         /\ \A i \in DOMAIN t.name : \E c \in from .. k : t.name[i] = text[c]

LEMMA TokenAtProperties ==
  ASSUME NEW text, NEW from, NEW to, Scan(text, from, to),
         NEW begin \in from .. (to - 1), NEW c \in begin .. (to - 1),
         \A k \in begin .. (c - 1) : text[k] # NL,
         \A k \in from .. (begin - 1) : text[k] = SP,
         EndsToken(text, begin, c)
  PROVE  TokenFrom(TokenAt(text, begin, c, to), text, from, to)
<1> DEFINE word == Slice(text, begin, c)
           skip == FindFirstNotSpace(text, c, to)
<1> USE DEF TokenTypes
<1>0. begin \in from .. to /\ c \in begin .. to /\ c \in from .. to
  BY DEF Scan
<1>1. word \in Seq(Char)
  BY <1>0, SliceType
<1>2. DOMAIN word = 1 .. (c - begin) /\ \A i \in DOMAIN word : word[i] = text[begin + i - 1]
  BY DEF Slice
<1>3. /\ GetTokenType(word) \in {"from", "import", "identifier"}
      /\ GetTokenType(word) = "from" => word = <<FROM>>
      /\ GetTokenType(word) = "import" => word = <<IMPORT>>
  BY DEF GetTokenType
<1>4. /\ skip \in c .. to
      /\ \A k \in c .. (to - 1) : text[k] # SP => skip <= k
  BY <1>0, FindFirstNotSpaceProperties
<1>5. /\ SP # NL /\ COMMA # NL /\ HASH # NL /\ SP # COMMA /\ SP # HASH /\ COMMA # HASH
      /\ COMMA \in Char /\ HASH \in Char
  BY DEF SP, NL, COMMA, HASH, Char, Atom, Delimiter
<1>6. \A k \in from .. (to - 1) : text[k] = NL => k >= c
  BY <1>5 DEF Scan
<1>7. begin \in Nat \ {0} /\ c \in Nat \ {0} /\ c - 1 \in Nat /\ from \in Nat /\ to \in Nat
  BY DEF Scan
<1>8. CASE text[c] = HASH
  <2>1. TokenAt(text, begin, c, to) =
          [type |-> "comment", name |-> <<HASH>>, begin |-> begin, next |-> c, col |-> c - 1]
    BY <1>8 DEF TokenAt
  <2>2. <<HASH>> \in Seq(Char) /\ DOMAIN <<HASH>> = {1} /\ <<HASH>>[1] = text[c]
    BY <1>5, <1>8
  <2>3. QED BY <1>7, <2>1, <2>2 DEF TokenFrom
<1>9. CASE text[c] = NL /\ c = begin
  <2>1. TokenAt(text, begin, c, to) =
          [type |-> "newline", name |-> <<>>, begin |-> begin, next |-> c, col |-> c - 1]
    BY <1>5, <1>9 DEF TokenAt
  <2>2. QED BY <1>7, <2>1 DEF TokenFrom
<1>10. CASE text[c] = COMMA /\ c = begin
  <2>1. TokenAt(text, begin, c, to) =
          [type |-> "comma", name |-> <<COMMA>>, begin |-> begin, next |-> c + 1, col |-> c - 1]
    BY <1>5, <1>10 DEF TokenAt
  <2>2. \A k \in from .. (to - 1) : text[k] = NL => k > c
    BY <1>5, <1>6, <1>7, <1>10
  <2>3. <<COMMA>> \in Seq(Char) /\ DOMAIN <<COMMA>> = {1} /\ <<COMMA>>[1] = text[c]
    BY <1>5, <1>10
  <2>4. QED BY <1>7, <2>1, <2>2, <2>3 DEF TokenFrom
<1>11. ASSUME text[c] # HASH, ~(text[c] = NL /\ c = begin), ~(text[c] = COMMA /\ c = begin)
       PROVE  TokenFrom(TokenAt(text, begin, c, to), text, from, to)
  <2>1. TokenAt(text, begin, c, to) = [type |-> GetTokenType(word), name |-> word,
                                       begin |-> begin, next |-> skip, col |-> c - 1]
    BY <1>11 DEF TokenAt
  <2>2. \A k \in from .. (to - 1) : text[k] = NL =>
          \A i \in DOMAIN word : \E d \in from .. k : word[i] = text[d]
    BY <1>2, <1>6, <1>7
  <2>3. \A k \in from .. (to - 1) : text[k] = NL => begin <= k /\ skip <= k
    BY <1>4, <1>5, <1>6, <1>7
  <2>4. \A i \in DOMAIN word : \E d \in from .. (to - 1) : word[i] = text[d]
    BY <1>2, <1>7
  <2>5. QED BY <1>1, <1>3, <1>4, <1>7, <2>1, <2>2, <2>3, <2>4 DEF TokenFrom
<1>12. QED BY <1>8, <1>9, <1>10, <1>11

LEMMA NextTokenProperties ==
  ASSUME NEW text, NEW from, NEW to, Scan(text, from, to)
  PROVE  TokenFrom(NextToken(text, from, to), text, from, to)
<1> DEFINE begin == FindFirstNotSpace(text, from, to)
           stops == {c \in begin .. (to - 1) : EndsToken(text, begin, c)}
<1>1. /\ begin \in from .. to
      /\ from < to => begin < to
      /\ \A k \in from .. (to - 1) : text[k] # SP => begin <= k
  <2>1. from \in from .. to
    BY DEF Scan
  <2>2. QED BY <2>1, FindFirstNotSpaceProperties
<1>2. CASE stops = {}
  <2>1. NextToken(text, from, to) = [type |-> "newline", name |-> <<>>, begin |-> begin,
                                     next |-> begin, col |-> begin - 1]
    BY <1>2 DEF NextToken
  <2>2. begin \in Nat \ {0} /\ begin - 1 \in Nat
    BY <1>1 DEF Scan
  <2>3. \A k \in from .. (begin - 1) : text[k] = SP
    BY <1>1 DEF Scan
  <2>4. QED BY <1>1, <2>1, <2>2, <2>3 DEF TokenFrom, TokenTypes
<1>3. CASE stops # {}
  <2> DEFINE c == Min(stops)
  <2>1. stops \in SUBSET Nat
    BY <1>1 DEF Scan
  <2>2. c \in stops /\ \A k \in stops : c <= k
    BY <1>3, <2>1, MinProperties
  <2>3. \A k \in begin .. (c - 1) : text[k] # NL
    BY <1>1, <2>2 DEF EndsToken, Scan
  <2>4. \A k \in from .. (begin - 1) : text[k] = SP
    BY <1>1 DEF Scan
  <2>5. begin \in from .. (to - 1) /\ c \in begin .. (to - 1)
    BY <1>1, <2>2 DEF Scan
  <2>6. TokenFrom(TokenAt(text, begin, c, to), text, from, to)
    BY <2>2, <2>3, <2>4, <2>5, TokenAtProperties
  <2>7. NextToken(text, from, to) = TokenAt(text, begin, c, to)
    BY <1>3 DEF NextToken
  <2>8. QED BY <2>6, <2>7
<1>4. QED BY <1>2, <1>3

USE TokensAssumption, ParserAssumption

-----------------------------------------------------------------------------
(* Reading                                                                  *)

(* fgets stops inside the file, and fills at most BufSize - 1 places; it    *)
(* stops earlier only at the first newline or at the end of the file.       *)
LEMMA ChunkEndProperties ==
  ASSUME file \in Seq(Atom), off \in 0 .. Len(file), off < Len(file)
  PROVE  /\ ChunkEnd \in (off + 1) .. Len(file)
         /\ ChunkEnd <= off + BufSize - 1
         /\ \A k \in (off + 1) .. Len(file) : file[k] = NL => ChunkEnd <= k
         /\ \/ file[ChunkEnd] = NL
            \/ ChunkEnd = off + BufSize - 1
            \/ ChunkEnd = Len(file)
<1> DEFINE ends == {i \in (off + 1) .. Len(file) :
                      file[i] = NL \/ i = off + BufSize - 1 \/ i = Len(file)}
<1>1. Len(file) \in Nat /\ off \in Nat
  OBVIOUS
<1>2. ends \in SUBSET Nat
  BY <1>1
<1>3. Len(file) \in ends
  BY <1>1
<1>4. Min(ends) \in ends /\ \A i \in ends : Min(ends) <= i
  BY <1>2, <1>3, MinProperties
<1>5. ChunkEnd = Min(ends)
  BY DEF ChunkEnd
<1>6. ChunkEnd <= off + BufSize - 1
  <2>1. CASE off + BufSize - 1 <= Len(file)
    <3>1. off + BufSize - 1 \in ends
      BY <1>1, <2>1
    <3>2. QED BY <1>4, <1>5, <3>1
  <2>2. CASE off + BufSize - 1 > Len(file)
    BY <1>1, <1>4, <1>5, <2>2
  <2>3. QED BY <1>1, <2>1, <2>2
<1>7. QED BY <1>4, <1>5, <1>6

(* The string a successful fgets leaves in the buffer.                      *)
LEMMA GetLineProperties ==
  ASSUME TypeOK, off < Len(file), GetLine
  PROVE  /\ off' \in 0 .. Len(file)
         /\ buf' \in Seq(Atom) /\ Len(buf') = ChunkEnd - off
         /\ Len(buf') \in 1 .. (BufSize - 1)
         /\ \A i \in 1 .. Len(buf') : buf'[i] = file[off + i]
         /\ buf_view' = [at |-> 1, len |-> Len(buf')]
         /\ line_counter' = line_counter + 1
<1>1. file \in Seq(Atom) /\ off \in 0 .. Len(file)
  BY DEF TypeOK
<1>2. /\ ChunkEnd \in (off + 1) .. Len(file)
      /\ ChunkEnd <= off + BufSize - 1
  BY <1>1, ChunkEndProperties
<1>3. \A i \in (off + 1) .. ChunkEnd : file[i] \in Atom
  BY <1>1, <1>2
<1>4. buf' = SubSeq(file, off + 1, ChunkEnd)
  BY DEF GetLine
<1>5. /\ buf' \in Seq(Atom)
      /\ Len(buf') = ChunkEnd - off
      /\ \A i \in 1 .. (ChunkEnd - off) : buf'[i] = file[off + i]
  <2>1. off + 1 \in Int /\ ChunkEnd \in Int /\ off + 1 <= ChunkEnd
    BY <1>1, <1>2
  <2>2. /\ SubSeq(file, off + 1, ChunkEnd) \in Seq(Atom)
        /\ Len(SubSeq(file, off + 1, ChunkEnd)) = ChunkEnd - (off + 1) + 1
        /\ \A i \in 1 .. (ChunkEnd - (off + 1) + 1) :
             SubSeq(file, off + 1, ChunkEnd)[i] = file[off + 1 + i - 1]
    BY <1>3, <2>1, SubSeqProperties
  <2>3. QED BY <1>1, <1>4, <2>1, <2>2
<1>6. QED BY <1>1, <1>2, <1>5 DEF GetLine

(* A line that fits in the buffer is read up to its newline, and no further. *)
LEMMA ReadsOneLine ==
  ASSUME TypeOK, FitsBuffer(file), off < Len(file)
  PROVE  /\ ChunkEnd \in (off + 1) .. Len(file)
         /\ file[ChunkEnd] = NL
         /\ \A k \in (off + 1) .. Len(file) : file[k] = NL => ChunkEnd <= k
<1>1. file \in Seq(Atom) /\ off \in 0 .. Len(file) /\ Len(file) \in Nat
  BY DEF TypeOK
<1>2. /\ ChunkEnd \in (off + 1) .. Len(file)
      /\ ChunkEnd <= off + BufSize - 1
      /\ \A k \in (off + 1) .. Len(file) : file[k] = NL => ChunkEnd <= k
      /\ \/ file[ChunkEnd] = NL
         \/ ChunkEnd = off + BufSize - 1
         \/ ChunkEnd = Len(file)
  BY <1>1, ChunkEndProperties
<1>3. off + 1 \in 1 .. Len(file)
  BY <1>1
<1>4. PICK j \in (off + 1) .. (off + 1 + BufSize - 2) : j <= Len(file) /\ file[j] = NL
  BY <1>3 DEF FitsBuffer
<1>5. BufSize \in Nat
  BY TokensAssumption
<1>6. QED BY <1>1, <1>2, <1>4, <1>5

(* A token the scan may return comes from a text that shows the string in   *)
(* the buffer as far as the view covers it, and zero bytes in the rest of   *)
(* the array.                                                               *)
LEMMA NextTokensProperties ==
  ASSUME TypeOK, NEW t \in NextTokens
  PROVE  \E text :
           /\ Scan(text, buf_view.at, ViewEnd)
           /\ \A i \in buf_view.at .. (ViewEnd - 1) :
                Len(buf) < i /\ i <= BufSize => text[i] = NUL
           /\ \A i \in buf_view.at .. (ViewEnd - 1) :
                IF i <= Len(buf) THEN text[i] = buf[i] ELSE text[i] \in Delimiter \cup {NUL}
           /\ TokenFrom(t, text, buf_view.at, ViewEnd)
           /\ t = NextToken(text, buf_view.at, ViewEnd)
<1>1. /\ buf_view.at \in Nat \ {0} /\ buf_view.len \in Nat
      /\ ViewEnd \in Nat /\ buf_view.at <= ViewEnd
  BY DEF TypeOK, ViewEnd
<1>2. PICK beyond \in Beyond : t = NextToken(Visible(beyond), buf_view.at, ViewEnd)
  BY DEF NextTokens, Readable
<1>3. \A i \in buf_view.at .. (ViewEnd - 1) :
        (IF i <= Len(buf) THEN buf[i] ELSE IF i <= BufSize THEN NUL ELSE beyond[i]) \in Char
  <2> TAKE i \in buf_view.at .. (ViewEnd - 1)
  <2>1. CASE i <= Len(buf)
    BY <1>1, <2>1 DEF TypeOK, Char
  <2>2. CASE i > BufSize
    BY <1>1, <2>2 DEF Beyond, Char, Atom, TypeOK
  <2>3. QED BY <1>1, <2>1, <2>2 DEF Char, TypeOK
<1>4. Visible(beyond) \in [buf_view.at .. (ViewEnd - 1) -> Char]
  BY <1>3 DEF Visible
<1>5. Scan(Visible(beyond), buf_view.at, ViewEnd)
  BY <1>1, <1>4 DEF Scan
<1>6. \A i \in buf_view.at .. (ViewEnd - 1) :
        IF i <= Len(buf) THEN Visible(beyond)[i] = buf[i]
        ELSE Visible(beyond)[i] \in Delimiter \cup {NUL}
  <2> TAKE i \in buf_view.at .. (ViewEnd - 1)
  <2>1. CASE i > BufSize
    <3>1. BufSize \in Nat /\ Len(buf) \in Nat /\ Len(buf) < BufSize /\ ViewEnd \in Nat
      BY <1>1, TokensAssumption DEF TypeOK
    <3>2. i \in (BufSize + 1) .. (ViewEnd - 1) /\ ~(i <= Len(buf)) /\ ~(i <= BufSize)
      BY <1>1, <2>1, <3>1
    <3>3. beyond[i] \in Delimiter \cup {NUL}
      BY <3>2 DEF Beyond
    <3>4. Visible(beyond)[i] = beyond[i]
      BY <3>2 DEF Visible
    <3>5. QED BY <3>2, <3>3, <3>4
  <2>2. CASE i <= BufSize
    BY <1>1, <2>2 DEF Visible, TypeOK
  <2>3. QED BY <1>1, <2>1, <2>2
<1>7. \A i \in buf_view.at .. (ViewEnd - 1) :
        Len(buf) < i /\ i <= BufSize => Visible(beyond)[i] = NUL
  BY <1>1 DEF Visible, TypeOK
<1>8. TokenFrom(t, Visible(beyond), buf_view.at, ViewEnd)
  BY <1>2, <1>5, NextTokenProperties
<1>9. QED BY <1>2, <1>5, <1>6, <1>7, <1>8

(***************************************************************************)
(* One call of _update_token: the reader keeps its types, the file stays   *)
(* the same, and the line counter never goes back.                         *)
(***************************************************************************)
ReaderOK ==
  /\ file \in Seq(Atom) /\ squash \in BOOLEAN
  /\ off \in 0 .. Len(file)
  /\ buf \in Seq(Atom) /\ Len(buf) < BufSize
  /\ buf_view \in [at : Nat \ {0}, len : Nat]
  /\ line_counter \in Nat
  /\ tok \in [type : TokenTypes, name : Name, line : Nat, col : Nat]

LEMMA UpdateTokenProperties ==
  ASSUME TypeOK, UpdateToken
  PROVE  /\ ReaderOK'
         /\ file' = file /\ squash' = squash
         /\ line_counter' >= line_counter
<1>1. file' = file /\ squash' = squash
  BY DEF UpdateToken, input
<1>2. PICK t \in NextTokens :
        \/ /\ off < Len(file)
           /\ GetLine /\ AtToken(t, t.type, line_counter, t.col)
        \/ GetLineFails /\ AtToken(t, "end", 0, 0)
        \/ /\ t.type \notin {"newline", "comment"}
           /\ IncBuff(t) /\ AtToken(t, t.type, line_counter, t.col)
  BY DEF UpdateToken
<1>3. PICK text : /\ Scan(text, buf_view.at, ViewEnd)
                  /\ TokenFrom(t, text, buf_view.at, ViewEnd)
  BY NextTokensProperties
<1>4. t \in [type : TokenTypes \ {"start", "end"}, name : Seq(Char),
             begin : Nat \ {0}, next : Nat \ {0}, col : Nat]
  BY <1>3 DEF TokenFrom
<1>5. ReaderOK
  BY DEF TypeOK, ReaderOK
<1>6. CASE off < Len(file) /\ GetLine /\ AtToken(t, t.type, line_counter, t.col)
  <2>1. /\ off' \in 0 .. Len(file)
        /\ buf' \in Seq(Atom)
        /\ Len(buf') \in 1 .. (BufSize - 1)
        /\ buf_view' = [at |-> 1, len |-> Len(buf')]
        /\ line_counter' = line_counter + 1
    BY <1>6, GetLineProperties
  <2>2. tok' \in [type : TokenTypes, name : Name, line : Nat, col : Nat]
    BY <1>4, <1>5, <1>6 DEF AtToken, ReaderOK, Name
  <2>3. QED BY <1>1, <1>5, <2>1, <2>2 DEF ReaderOK
<1>7. CASE GetLineFails /\ AtToken(t, "end", 0, 0)
  <2>1. tok' \in [type : TokenTypes, name : Name, line : Nat, col : Nat]
    BY <1>4, <1>7 DEF AtToken, Name, TokenTypes
  <2>2. buf' \in Seq(Atom) /\ Len(buf') < BufSize
    BY <1>7 DEF GetLineFails
  <2>3. QED BY <1>1, <1>5, <1>7, <2>1, <2>2 DEF GetLineFails, ReaderOK
<1>8. CASE /\ t.type \notin {"newline", "comment"}
           /\ IncBuff(t) /\ AtToken(t, t.type, line_counter, t.col)
  <2>1. tok' \in [type : TokenTypes, name : Name, line : Nat, col : Nat]
    BY <1>4, <1>5, <1>8 DEF AtToken, ReaderOK, Name
  <2>2. /\ buf_view.at <= t.begin /\ t.begin <= t.next /\ t.next <= ViewEnd
    BY <1>3, <1>8 DEF TokenFrom
  <2>3. buf_view' \in [at : Nat \ {0}, len : Nat]
    BY <1>4, <1>5, <1>8, <2>2 DEF IncBuff, ViewEnd, ReaderOK
  <2>4. QED BY <1>1, <1>5, <1>8, <2>1, <2>3 DEF IncBuff, ReaderOK
<1>9. QED BY <1>2, <1>6, <1>7, <1>8

-----------------------------------------------------------------------------
(* The list of modules                                                      *)

ListOK ==
  /\ modules \in Seq(Module)
  /\ node \in Module
  /\ target \in 0 .. Len(modules)
  /\ nodes \in Nat

(* A copied name is a name; one without a zero byte is copied whole.        *)
LEMMA CopyCStrProperties ==
  ASSUME NEW name \in Name
  PROVE  /\ CopyCStr(name) \in Name
         /\ (\A i \in DOMAIN name : name[i] # NUL) => CopyCStr(name) = name
<1> DEFINE nuls == {i \in DOMAIN name : name[i] = NUL}
<1>1. CASE nuls = {}
  BY <1>1 DEF CopyCStr
<1>2. CASE nuls # {}
  <2>1. nuls \in SUBSET Nat
    BY DEF Name
  <2>2. Min(nuls) \in nuls
    BY <1>2, <2>1, MinProperties
  <2>3. Min(nuls) - 1 \in Int /\ \A i \in 1 .. (Min(nuls) - 1) : name[i] \in Char
    <3> HIDE DEF nuls
    <3>1. name \in Seq(Char) /\ DOMAIN name = 1 .. Len(name) /\ Len(name) \in Nat
      BY DEF Name
    <3>2. Min(nuls) \in 1 .. Len(name)
      BY <2>2, <3>1 DEF nuls
    <3>3. QED BY <3>1, <3>2
  <2>4. SubSeq(name, 1, Min(nuls) - 1) \in Seq(Char)
    BY <2>3, SubSeqProperties
  <2>5. QED BY <1>2, <2>4 DEF CopyCStr, Name
<1>3. QED BY <1>1, <1>2

LEMMA NewNodeType ==
  ASSUME NEW name \in Name
  PROVE  NewFrom(name) \in Module /\ NewImport(name) \in Module /\ NoNode \in Module
BY CopyCStrProperties DEF NewFrom, NewImport, NoNode, Module, Name

LEMMA WithImportProperties ==
  ASSUME NEW m \in Module, NEW name \in Name
  PROVE  /\ WithImport(m, name) \in Module
         /\ WithImport(m, name).kind = m.kind
         /\ WithImport(m, name).title = m.title
         /\ WithImport(m, name).line = m.line
         /\ WithImport(m, name).imports = Append(m.imports, CopyCStr(name))
         /\ WithImport(m, name).imports # <<>>
<1>1. CopyCStr(name) \in Name
  BY CopyCStrProperties
<1>2. m.imports \in Seq(Name)
  BY DEF Module
<1>3. Append(m.imports, CopyCStr(name)) # <<>>
  BY <1>1, <1>2
<1>4. QED BY <1>1, <1>3 DEF WithImport, Module

(* A new name goes to the end of the node's or of the list entry's imports. *)
LEMMA PushImportProperties ==
  ASSUME ListOK, NEW name \in Name, PushImport(name), target' = target
  PROVE  /\ ListOK'
         /\ Len(modules') = Len(modules)
         /\ target = 0 =>
              /\ modules' = modules
              /\ node' = WithImport(node, name)
         /\ target # 0 =>
              /\ node' = node
              /\ modules' = [modules EXCEPT ![target] = WithImport(modules[target], name)]
<1>1. CopyCStr(name) \in Name
  BY CopyCStrProperties
<1>2. CASE target = 0
  <2>0. WithImport(node, name) \in Module
    BY <1>1 DEF ListOK, Module, WithImport
  <2>1. node' \in Module
    BY <1>2, <2>0 DEF PushImport
  <2>2. QED BY <1>2, <2>1 DEF PushImport, ListOK
<1>3. CASE target # 0
  <2>1. target \in 1 .. Len(modules) /\ modules[target] \in Module
    BY <1>3 DEF ListOK
  <2>2. WithImport(modules[target], name) \in Module
    BY <1>1, <2>1 DEF Module, WithImport
  <2>3. modules' = [modules EXCEPT ![target] = WithImport(modules[target], name)]
    BY <1>3, <2>1 DEF PushImport
  <2>4. modules' \in Seq(Module) /\ Len(modules') = Len(modules)
    BY <2>1, <2>2, <2>3, ExceptSeq DEF ListOK
  <2>5. QED BY <1>3, <2>4 DEF PushImport, ListOK
<1>4. QED BY <1>2, <1>3

LEMMA AppendModuleProperties ==
  ASSUME ListOK, line_counter' \in Nat, AppendModule
  PROVE  /\ ListOK'
         /\ node' = NoNode /\ target' = 0
         /\ target # 0 => modules' = modules
         /\ target = 0 => /\ modules' = Append(modules, AtLine(node, line_counter'))
                          /\ Len(modules') = Len(modules) + 1
                          /\ AtLine(node, line_counter') \in Module
<1>1. AtLine(node, line_counter') \in Module
  BY DEF ListOK, Module, AtLine
<1>2. NoNode \in Module
  BY DEF NoNode, Module, Name
<1>3. QED BY <1>1, <1>2 DEF AppendModule, ListOK

LEMMA FindModuleProperties ==
  ASSUME ListOK, NEW name
  PROVE  /\ FindModule(name) \in 0 .. Len(modules)
         /\ FindModule(name) # 0 => /\ modules[FindModule(name)].kind = "FROM"
                                    /\ modules[FindModule(name)].title = name
         /\ FindModule(name) = 0 =>
              \A i \in DOMAIN modules : modules[i].kind = "FROM" => modules[i].title # name
<1> DEFINE found == {i \in DOMAIN modules : modules[i].kind = "FROM" /\ modules[i].title = name}
<1>1. found \in SUBSET Nat /\ 0 \notin found
  BY DEF ListOK
<1>2. CASE found = {}
  BY <1>2 DEF FindModule, ListOK
<1>3. CASE found # {}
  <2>1. Min(found) \in found
    BY <1>1, <1>3, MinProperties
  <2>2. FindModule(name) = Min(found)
    BY <1>3 DEF FindModule
  <2> HIDE DEF found
  <2>3. FindModule(name) \in found
    BY <2>1, <2>2
  <2>4. QED BY <1>1, <2>3 DEF found, ListOK
<1>4. QED BY <1>2, <1>3

-----------------------------------------------------------------------------
(* Type correctness                                                         *)

LEMMA TypeOKParts == TypeOK <=> ReaderOK /\ ListOK /\ pc \in Steps \cup Outcomes
BY DEF TypeOK, ReaderOK, ListOK

(* A step that reads a token and leaves the list alone.                     *)
LEMMA ListUnchangedType ==
  ASSUME ListOK, UNCHANGED list
  PROVE  ListOK'
BY DEF ListOK, list

LEMMA StepType ==
  ASSUME TypeOK, [Next]_vars
  PROVE  TypeOK'
<1> DEFINE Places == Steps \cup Outcomes
<1>1. ListOK /\ pc \in Places
  BY TypeOKParts
<1>2. ASSUME UpdateToken, ListOK', pc' \in Places
      PROVE  TypeOK'
  <2>1. ReaderOK'
    BY <1>2, UpdateTokenProperties
  <2>2. QED BY <1>2, <2>1 DEF TypeOK, ReaderOK, ListOK
<1>3. ASSUME UpdateToken
      PROVE  tok'.name \in Name /\ line_counter' \in Nat
  BY <1>3, UpdateTokenProperties DEF ReaderOK
<1>4. /\ "done" \in Places /\ "panic" \in Places /\ "outOfMemory" \in Places
      /\ Steps \subseteq Places
  BY DEF Outcomes
<1> HIDE DEF Places
<1>5. ASSUME UNCHANGED list
      PROVE  ListOK'
  BY <1>1, <1>5, ListUnchangedType
<1>6. ASSUME Panic \/ Die
      PROVE  ListOK' /\ pc' \in Places
  BY <1>4, <1>5, <1>6 DEF Panic, Die, Goto
<1>7. ASSUME UpdateToken, AppendModule, Goto("statement")
      PROVE  TypeOK'
  <2>1. ListOK'
    BY <1>1, <1>3, <1>7, AppendModuleProperties
  <2>2. QED BY <1>2, <1>4, <1>7, <2>1 DEF Goto, Steps
<1>8. ASSUME UpdateToken, PushImport(tok'.name), UNCHANGED target, pc' \in Steps
      PROVE  TypeOK'
  <2>1. ListOK'
    BY <1>1, <1>3, <1>8, PushImportProperties
  <2>2. QED BY <1>2, <1>4, <1>8, <2>1
<1>9. CASE Statement
  BY <1>2, <1>4, <1>5, <1>9 DEF Statement, Read, Goto, Steps
<1>10. CASE ImportedModule
  <2>1. UpdateToken
    BY <1>10 DEF ImportedModule, Read
  <2>2. CASE Panic \/ Die
    BY <1>2, <1>6, <2>1, <2>2
  <2>3. CASE Goto("known") /\ UNCHANGED list
    BY <1>2, <1>4, <1>5, <2>1, <2>3 DEF Goto, Steps
  <2>4. CASE /\ node' = NewImport(tok'.name) /\ nodes' = nodes + 1
             /\ Goto("firstSep") /\ UNCHANGED <<modules, target>>
    <3>1. NewImport(tok'.name) \in Module
      BY <1>3, <2>1, NewNodeType
    <3>2. ListOK'
      BY <1>1, <2>4, <3>1 DEF ListOK
    <3>3. QED BY <1>2, <1>4, <2>1, <2>4, <3>2 DEF Goto, Steps
  <2>5. QED BY <1>10, <2>2, <2>3, <2>4 DEF ImportedModule
<1>11. CASE AfterKnownModule
  BY <1>2, <1>4, <1>5, <1>11 DEF AfterKnownModule, Read, Goto, Steps
<1>12. CASE AfterFirstNew
  <2>1. CASE Goto("more") /\ UNCHANGED list
    BY <1>2, <1>4, <1>5, <1>12, <2>1 DEF AfterFirstNew, Read, Goto, Steps
  <2>2. CASE AppendModule /\ Goto("statement")
    BY <1>7, <1>12, <2>2 DEF AfterFirstNew, Read
  <2>3. QED BY <1>12, <2>1, <2>2 DEF AfterFirstNew
<1>13. CASE MoreModule
  <2>1. UpdateToken
    BY <1>13 DEF MoreModule, Read
  <2>2. CASE Panic \/ Die
    BY <1>2, <1>6, <2>1, <2>2
  <2>3. CASE PushImport(tok'.name) /\ Goto("moreSep") /\ UNCHANGED target
    BY <1>8, <2>1, <2>3 DEF Goto, Steps
  <2>4. QED BY <1>13, <2>2, <2>3 DEF MoreModule
<1>14. CASE AfterMore
  <2>1. CASE Goto("more") /\ UNCHANGED list
    BY <1>2, <1>4, <1>5, <1>14, <2>1 DEF AfterMore, Read, Goto, Steps
  <2>2. CASE AppendModule /\ Goto("statement")
    BY <1>7, <1>14, <2>2 DEF AfterMore, Read
  <2>3. QED BY <1>14, <2>1, <2>2 DEF AfterMore
<1>15. CASE FromTitle
  <2> DEFINE found == IF squash THEN FindModule(tok'.name) ELSE 0
  <2>1. UpdateToken
    BY <1>15 DEF FromTitle, Read
  <2>2. CASE Panic \/ Die
    BY <1>2, <1>6, <2>1, <2>2
  <2>3. CASE target' = found /\ Goto("importKw") /\ UNCHANGED <<modules, node, nodes>>
    <3>1. found \in 0 .. Len(modules)
      BY <1>1, FindModuleProperties DEF ListOK
    <3> HIDE DEF found
    <3>2. ListOK'
      BY <1>1, <2>3, <3>1 DEF ListOK
    <3>3. QED BY <1>2, <1>4, <2>1, <2>3, <3>2 DEF Goto, Steps
  <2>4. CASE /\ node' = NewFrom(tok'.name) /\ nodes' = nodes + 1
             /\ Goto("importKw") /\ UNCHANGED <<modules, target>>
    <3>1. NewFrom(tok'.name) \in Module
      BY <1>3, <2>1, NewNodeType
    <3>2. ListOK'
      BY <1>1, <2>4, <3>1 DEF ListOK
    <3>3. QED BY <1>2, <1>4, <2>1, <2>4, <3>2 DEF Goto, Steps
  <2>5. QED BY <1>15, <2>2, <2>3, <2>4 DEF FromTitle
<1>16. CASE FromImportKeyword
  <2>1. UpdateToken
    BY <1>16 DEF FromImportKeyword, Read
  <2>2. CASE Panic
    BY <1>2, <1>6, <2>1, <2>2
  <2>3. CASE Goto("name") /\ UNCHANGED list
    BY <1>2, <1>4, <1>5, <2>1, <2>3 DEF Goto, Steps
  <2>4. QED BY <1>16, <2>2, <2>3 DEF FromImportKeyword
<1>17. CASE FromName
  <2>1. UpdateToken
    BY <1>17 DEF FromName, Read
  <2>2. CASE Panic \/ Die
    BY <1>2, <1>6, <2>1, <2>2
  <2>3. CASE Goto("nameSep") /\ UNCHANGED list
    BY <1>2, <1>4, <1>5, <2>1, <2>3 DEF Goto, Steps
  <2>4. CASE PushImport(tok'.name) /\ Goto("nameSep") /\ UNCHANGED target
    BY <1>8, <2>1, <2>4 DEF Goto, Steps
  <2>5. QED BY <1>17, <2>2, <2>3, <2>4 DEF FromName
<1>18. CASE AfterName
  <2>1. CASE Goto("name") /\ UNCHANGED list
    BY <1>2, <1>4, <1>5, <1>18, <2>1 DEF AfterName, Read, Goto, Steps
  <2>2. CASE AppendModule /\ Goto("statement")
    BY <1>7, <1>18, <2>2 DEF AfterName, Read
  <2>3. QED BY <1>18, <2>1, <2>2 DEF AfterName
<1>19. CASE UNCHANGED vars
  BY <1>19 DEF vars, TypeOK
<1>20. QED
  BY <1>9, <1>10, <1>11, <1>12, <1>13, <1>14, <1>15, <1>16, <1>17, <1>18, <1>19
     DEF Next, Exited

LEMMA InitType == Init => TypeOK
<1> SUFFICES ASSUME Init PROVE TypeOK
  OBVIOUS
<1>1. /\ file \in Seq(Atom) /\ squash \in BOOLEAN
      /\ off \in 0 .. Len(file)
  BY DEF Init
<1>2. /\ <<>> \in Seq(Atom) /\ Len(<<>>) = 0 /\ <<>> \in Name
      /\ 0 < BufSize
  BY DEF Name
<1>3. NoNode \in Module /\ modules \in Seq(Module) /\ target \in 0 .. Len(modules)
  BY DEF Init, NoNode, Module, Name
<1>4. QED BY <1>1, <1>2, <1>3 DEF Init, TypeOK, TokenTypes, Steps

(***************************************************************************)
(* Every variable of the parser keeps its type.  In particular the string  *)
(* in p->buf leaves room for the terminating zero byte, the length         *)
(* CSort_inc_buff computes never wraps below zero, and the entry being     *)
(* filled is one of the list.                                              *)
(***************************************************************************)
THEOREM TypeCorrect == Spec => []TypeOK
<1>1. TypeOK /\ [Next]_vars => TypeOK'
  BY StepType
<1>2. QED BY InitType, <1>1, PTL DEF Spec

-----------------------------------------------------------------------------
(* Files of complete lines that fit in the buffer                           *)

(* An identifier read from such a line consists of characters of the line,  *)
(* so that it is copied whole.                                              *)
LEMMA WholeName ==
  ASSUME TypeOK, FitsBuffer(file), ViewBeforeNewline, buf # <<>>,
         UpdateToken, tok'.type = "identifier"
  PROVE  tok'.name \in Name /\ CopyCStr(tok'.name) = tok'.name
<1>1. PICK t \in NextTokens : t.type = "identifier" /\ tok'.name = t.name
  BY DEF UpdateToken, AtToken
<1>2. PICK text :
        /\ Scan(text, buf_view.at, ViewEnd)
        /\ \A i \in buf_view.at .. (ViewEnd - 1) :
             IF i <= Len(buf) THEN text[i] = buf[i] ELSE text[i] \in Delimiter \cup {NUL}
        /\ TokenFrom(t, text, buf_view.at, ViewEnd)
  BY NextTokensProperties
<1>3. PICK k \in buf_view.at .. Len(buf) : k < ViewEnd /\ buf[k] = NL
  BY DEF ViewBeforeNewline
<1>4. /\ buf_view.at \in Nat \ {0} /\ ViewEnd \in Nat
      /\ buf \in Seq(Atom) /\ Len(buf) \in Nat
  BY DEF TypeOK, ViewEnd
<1>5. k \in buf_view.at .. (ViewEnd - 1) /\ text[k] = NL
  BY <1>2, <1>3, <1>4
<1>6. \A i \in DOMAIN t.name : \E c \in buf_view.at .. k : t.name[i] = text[c]
  BY <1>1, <1>2, <1>5 DEF TokenFrom
<1>7. \A c \in buf_view.at .. k : text[c] = buf[c] /\ buf[c] \in Atom
  BY <1>2, <1>3, <1>4
<1>8. NUL \notin Atom
  BY DEF Atom, NUL, FROM, IMPORT, Delimiter, SP, COMMA, HASH, NL
<1>9. t.name \in Name
  BY <1>2 DEF TokenFrom, Name
<1>10. \A i \in DOMAIN t.name : t.name[i] # NUL
  BY <1>6, <1>7, <1>8
<1>11. QED BY <1>1, <1>9, <1>10, CopyCStrProperties

(***************************************************************************)
(* In a file of complete lines no scan leaves the line: the newline at its *)
(* end is always ahead of the view, although the length of the view may    *)
(* reach past the string.                                                  *)
(***************************************************************************)
LEMMA ViewStep ==
  ASSUME TypeOK, ViewBeforeNewline, UpdateToken
  PROVE  ViewBeforeNewline'
<1> SUFFICES ASSUME FitsBuffer(file), buf' # <<>>
             PROVE  \E i \in buf_view'.at .. Len(buf') : i < ViewEnd' /\ buf'[i] = NL
  <2>1. file' = file
    BY UpdateTokenProperties
  <2>2. QED BY <2>1 DEF ViewBeforeNewline, FitsBuffer
<1>1. PICK t \in NextTokens :
        \/ off < Len(file) /\ GetLine
        \/ GetLineFails
        \/ t.type \notin {"newline", "comment"} /\ IncBuff(t)
  BY DEF UpdateToken
<1>2. file \in Seq(Atom) /\ off \in 0 .. Len(file) /\ Len(file) \in Nat
  BY DEF TypeOK
<1>3. CASE off < Len(file) /\ GetLine
  <2>1. /\ Len(buf') = ChunkEnd - off /\ Len(buf') \in 1 .. (BufSize - 1)
        /\ \A i \in 1 .. Len(buf') : buf'[i] = file[off + i]
        /\ buf_view' = [at |-> 1, len |-> Len(buf')]
    BY <1>3, GetLineProperties
  <2>2. ChunkEnd \in (off + 1) .. Len(file) /\ file[ChunkEnd] = NL
    BY <1>3, ReadsOneLine
  <2>3. buf'[Len(buf')] = NL
    BY <1>2, <2>1, <2>2
  <2>4. buf_view'.at = 1 /\ ViewEnd' = 1 + Len(buf')
    BY <2>1 DEF ViewEnd
  <2>5. QED BY <2>1, <2>3, <2>4
<1>4. CASE GetLineFails
  BY <1>4 DEF GetLineFails
<1>5. CASE t.type \notin {"newline", "comment"} /\ IncBuff(t)
  <2>1. PICK text :
          /\ Scan(text, buf_view.at, ViewEnd)
          /\ \A i \in buf_view.at .. (ViewEnd - 1) :
             IF i <= Len(buf) THEN text[i] = buf[i] ELSE text[i] \in Delimiter \cup {NUL}
          /\ TokenFrom(t, text, buf_view.at, ViewEnd)
    BY NextTokensProperties
  <2>2. buf' = buf /\ buf_view' = [at |-> t.next, len |-> buf_view.len - (t.next - t.begin)]
    BY <1>5 DEF IncBuff
  <2>3. PICK k \in buf_view.at .. Len(buf) : k < ViewEnd /\ buf[k] = NL
    BY <2>2 DEF ViewBeforeNewline
  <2>4. /\ buf_view.at \in Nat \ {0} /\ buf_view.len \in Nat /\ Len(buf) \in Nat
        /\ t.begin \in Nat /\ t.next \in Nat
    BY <2>1 DEF TypeOK, TokenFrom
  <2>5. /\ k \in buf_view.at .. (ViewEnd - 1) /\ text[k] = NL
    BY <2>1, <2>3, <2>4 DEF ViewEnd
  <2>6. t.next <= k /\ buf_view.at <= t.begin
    BY <1>5, <2>1, <2>5 DEF TokenFrom
  <2>7. ViewEnd' = t.begin + buf_view.len
    BY <2>2, <2>4 DEF ViewEnd
  <2>8. k < ViewEnd' /\ k \in buf_view'.at .. Len(buf')
    BY <2>2, <2>3, <2>4, <2>6, <2>7 DEF ViewEnd
  <2>9. QED BY <2>2, <2>3, <2>8
<1>6. QED BY <1>1, <1>3, <1>4, <1>5

THEOREM ScanStaysInLine == Spec => []ViewBeforeNewline
<1>1. Init => ViewBeforeNewline
  BY DEF Init, ViewBeforeNewline
<1>2. TypeOK /\ ViewBeforeNewline /\ [Next]_vars => ViewBeforeNewline'
  <2> SUFFICES ASSUME TypeOK, ViewBeforeNewline, [Next]_vars
               PROVE  ViewBeforeNewline'
    OBVIOUS
  <2>1. CASE UpdateToken
    BY <2>1, ViewStep
  <2>2. CASE UNCHANGED vars
    BY <2>2 DEF vars, ViewBeforeNewline, FitsBuffer, ViewEnd
  <2>3. QED
    BY <2>1, <2>2 DEF Next, Exited, Read, Statement, ImportedModule, AfterKnownModule,
       AfterFirstNew, MoreModule, AfterMore, FromTitle, FromImportKeyword, FromName, AfterName
<1>3. QED BY TypeCorrect, <1>1, <1>2, PTL DEF Spec

-----------------------------------------------------------------------------
(* How far a view may reach past the string                                 *)

SkippedBefore(at) == {i \in 1 .. Len(buf) : i < at /\ buf[i] = SP}

(***************************************************************************)
(* A token adds the spaces skipped before it to the length that is too     *)
(* much.  They are spaces of the string: past it the array holds zeros.    *)
(***************************************************************************)
LEMMA OverrunStep ==
  ASSUME TypeOK, OverrunOnlySkippedSpaces, UpdateToken
  PROVE  OverrunOnlySkippedSpaces'
<1> SUFFICES ASSUME buf' # <<>>, buf_view'.at <= BufSize
             PROVE  ViewEnd' - 1 - Len(buf')
                      <= Cardinality({i \in 1 .. Len(buf') : i < buf_view'.at /\ buf'[i] = SP})
  BY DEF OverrunOnlySkippedSpaces
<1>1. PICK t \in NextTokens :
        \/ off < Len(file) /\ GetLine
        \/ GetLineFails
        \/ t.type \notin {"newline", "comment"} /\ IncBuff(t)
  BY DEF UpdateToken
<1>2. CASE off < Len(file) /\ GetLine
  <2>1. Len(buf') \in Nat /\ buf_view' = [at |-> 1, len |-> Len(buf')]
    BY <1>2, GetLineProperties
  <2>2. buf_view'.at = 1 /\ ViewEnd' - 1 - Len(buf') = 0
    BY <2>1 DEF ViewEnd
  <2>3. {i \in 1 .. Len(buf') : i < buf_view'.at /\ buf'[i] = SP} = {}
    BY <2>1, <2>2
  <2>4. QED BY <2>2, <2>3, FS_EmptySet
<1>3. CASE GetLineFails
  BY <1>3 DEF GetLineFails
<1>4. CASE t.type \notin {"newline", "comment"} /\ IncBuff(t)
  <2>1. PICK text :
          /\ Scan(text, buf_view.at, ViewEnd)
          /\ \A i \in buf_view.at .. (ViewEnd - 1) :
               Len(buf) < i /\ i <= BufSize => text[i] = NUL
          /\ \A i \in buf_view.at .. (ViewEnd - 1) :
               IF i <= Len(buf) THEN text[i] = buf[i] ELSE text[i] \in Delimiter \cup {NUL}
          /\ TokenFrom(t, text, buf_view.at, ViewEnd)
    BY NextTokensProperties
  <2>2. buf' = buf /\ buf_view' = [at |-> t.next, len |-> buf_view.len - (t.next - t.begin)]
    BY <1>4 DEF IncBuff
  <2>3. /\ buf_view.at \in Nat \ {0} /\ buf_view.len \in Nat /\ Len(buf) \in Nat
        /\ t.begin \in Nat /\ t.next \in Nat /\ BufSize \in Nat
    BY <2>1, TokensAssumption DEF TypeOK, TokenFrom
  <2>4. buf_view'.at = t.next /\ buf_view'.len = buf_view.len - (t.next - t.begin)
    BY <2>2
  <2>5. /\ buf_view.at <= t.begin /\ t.begin <= t.next /\ t.next <= ViewEnd
        /\ t.next <= BufSize
    BY <1>4, <2>1, <2>4 DEF TokenFrom
  <2>6. /\ ViewEnd = buf_view.at + buf_view.len
        /\ ViewEnd' = ViewEnd + (t.begin - buf_view.at)
    BY <2>3, <2>4 DEF ViewEnd
  <2> DEFINE before == SkippedBefore(buf_view.at)
             skipped == buf_view.at .. (t.begin - 1)
  <2>7. \A i \in skipped : i \in 1 .. Len(buf) /\ buf[i] = SP
    <3> TAKE i \in skipped
    <3>1. i \in Int /\ buf_view.at <= i /\ i <= t.begin - 1
      BY <2>3
    <3>2. ViewEnd \in Int /\ i < t.next
      BY <2>3, <2>5, <2>6, <3>1
    <3>3. /\ i \in buf_view.at .. (ViewEnd - 1) /\ i \in Nat \ {0}
          /\ i <= BufSize /\ i \in buf_view.at .. (t.begin - 1)
      BY <2>3, <2>5, <3>1, <3>2
    <3>4. text[i] = SP
      BY <2>1, <3>3 DEF TokenFrom
    <3>5. i <= Len(buf)
      BY <2>1, <2>3, <3>3, <3>4 DEF SP, NUL
    <3>6. QED BY <2>1, <2>3, <3>3, <3>4, <3>5
  <2>8. /\ IsFiniteSet(skipped)
        /\ Cardinality(skipped) = t.begin - buf_view.at
    <3>1. buf_view.at \in Int /\ t.begin - 1 \in Int
      BY <2>3
    <3>2. /\ IsFiniteSet(skipped)
          /\ Cardinality(skipped) = IF buf_view.at > t.begin - 1 THEN 0
                                    ELSE t.begin - 1 - buf_view.at + 1
      BY <3>1, FS_Interval
    <3>3. QED BY <2>3, <2>5, <3>2
  <2>9. /\ IsFiniteSet(before) /\ IsFiniteSet(SkippedBefore(t.next))
        /\ Cardinality(before) \in Nat /\ Cardinality(SkippedBefore(t.next)) \in Nat
    <3>1. IsFiniteSet(1 .. Len(buf))
      BY <2>3, FS_Interval
    <3>2. before \in SUBSET (1 .. Len(buf)) /\ SkippedBefore(t.next) \in SUBSET (1 .. Len(buf))
      BY DEF SkippedBefore
    <3>3. IsFiniteSet(before) /\ IsFiniteSet(SkippedBefore(t.next))
      BY <3>1, <3>2, FS_Subset
    <3>4. QED BY <3>3, FS_CardinalityType
  <2>10. before \cap skipped = {}
    BY <2>3 DEF SkippedBefore
  <2>11. Cardinality(before \cup skipped) = Cardinality(before) + (t.begin - buf_view.at)
    <3>1. /\ IsFiniteSet(before \cup skipped)
          /\ Cardinality(before \cup skipped)
               = Cardinality(before) + Cardinality(skipped) - Cardinality(before \cap skipped)
      BY <2>8, <2>9, FS_Union
    <3>2. Cardinality(before \cap skipped) = 0
      BY <2>10, FS_EmptySet
    <3>3. QED BY <2>3, <2>8, <2>9, <3>1, <3>2
  <2>12. before \cup skipped \in SUBSET SkippedBefore(t.next)
    BY <2>3, <2>5, <2>7 DEF SkippedBefore
  <2>13. Cardinality(before \cup skipped) <= Cardinality(SkippedBefore(t.next))
    BY <2>9, <2>12, FS_Subset
  <2>14. ViewEnd - 1 - Len(buf) <= Cardinality(before)
    BY <2>2, <2>3, <2>5 DEF OverrunOnlySkippedSpaces, SkippedBefore
  <2>15. ViewEnd' - 1 - Len(buf) <= Cardinality(SkippedBefore(t.next))
    <3>1. t.begin - buf_view.at \in Nat /\ ViewEnd \in Int
      BY <2>3, <2>5, <2>6
    <3>2. Cardinality(before) + (t.begin - buf_view.at) <= Cardinality(SkippedBefore(t.next))
      BY <2>11, <2>13
    <3> HIDE DEF before, skipped
    <3>3. QED BY <2>3, <2>6, <2>9, <2>14, <3>1, <3>2
  <2>16. QED BY <2>2, <2>4, <2>15 DEF SkippedBefore
<1>5. QED BY <1>1, <1>2, <1>3, <1>4

(***************************************************************************)
(* In any file: what a view may reach past the string is no more than the  *)
(* spaces of the line that the scans skipped before a token.               *)
(***************************************************************************)
THEOREM OverrunIsSkipped == Spec => []OverrunOnlySkippedSpaces
<1>1. Init => OverrunOnlySkippedSpaces
  BY DEF Init, OverrunOnlySkippedSpaces
<1>2. TypeOK /\ OverrunOnlySkippedSpaces /\ [Next]_vars => OverrunOnlySkippedSpaces'
  <2> SUFFICES ASSUME TypeOK, OverrunOnlySkippedSpaces, [Next]_vars
               PROVE  OverrunOnlySkippedSpaces'
    OBVIOUS
  <2>1. CASE UpdateToken
    BY <2>1, OverrunStep
  <2>2. CASE UNCHANGED vars
    BY <2>2 DEF vars, OverrunOnlySkippedSpaces, ViewEnd
  <2>3. QED
    BY <2>1, <2>2 DEF Next, Exited, Read, Statement, ImportedModule, AfterKnownModule,
       AfterFirstNew, MoreModule, AfterMore, FromTitle, FromImportKeyword, FromName, AfterName
<1>3. QED BY TypeCorrect, <1>1, <1>2, PTL DEF Spec

-----------------------------------------------------------------------------
(* The line an error names                                                  *)

NewlinesUpTo(n) == {i \in 1 .. n : file[i] = NL}

(***************************************************************************)
(* In a file of complete lines the counter counts newlines, and the token  *)
(* has the line it was read from.                                          *)
(***************************************************************************)
LineKnown ==
  FitsBuffer(file) =>
    line_counter = Cardinality(NewlinesUpTo(off)) /\ tok.line = LineOfToken

LEMMA LineStep ==
  ASSUME TypeOK, LineKnown, UpdateToken
  PROVE  LineKnown'
<1>1. file' = file
  BY UpdateTokenProperties
<1> SUFFICES ASSUME FitsBuffer(file)
             PROVE  /\ line_counter' = Cardinality(NewlinesUpTo(off'))
                    /\ tok'.line = LineOfToken'
  BY <1>1 DEF LineKnown, FitsBuffer, NewlinesUpTo
<1>2. LineOfToken' = IF tok'.type = "end" THEN 0
                     ELSE IF tok'.type \in {"newline", "comment"} /\ buf' # <<>>
                          THEN Cardinality(NewlinesUpTo(off')) - 1
                          ELSE Cardinality(NewlinesUpTo(off'))
  BY <1>1 DEF LineOfToken, NewlinesUpTo
<1>3. line_counter = Cardinality(NewlinesUpTo(off)) /\ line_counter \in Nat
  BY DEF LineKnown, TypeOK
<1>4. PICK t \in NextTokens :
        \/ /\ t.type \in {"newline", "comment"} /\ off < Len(file)
           /\ GetLine /\ AtToken(t, t.type, line_counter, t.col)
        \/ GetLineFails /\ AtToken(t, "end", 0, 0)
        \/ /\ t.type \notin {"newline", "comment"}
           /\ IncBuff(t) /\ AtToken(t, t.type, line_counter, t.col)
  BY DEF UpdateToken
<1>5. CASE /\ t.type \in {"newline", "comment"} /\ off < Len(file)
           /\ GetLine /\ AtToken(t, t.type, line_counter, t.col)
  <2>1. /\ ChunkEnd \in (off + 1) .. Len(file)
        /\ file[ChunkEnd] = NL
        /\ \A k \in (off + 1) .. Len(file) : file[k] = NL => ChunkEnd <= k
    BY <1>5, ReadsOneLine
  <2>2. off' = ChunkEnd /\ off \in Nat /\ Len(file) \in Nat
    BY <1>5 DEF GetLine, TypeOK
  <2>3. NewlinesUpTo(off') = NewlinesUpTo(off) \cup {ChunkEnd}
    BY <2>1, <2>2 DEF NewlinesUpTo
  <2>4. IsFiniteSet(NewlinesUpTo(off)) /\ ChunkEnd \notin NewlinesUpTo(off)
    <3>1. IsFiniteSet(1 .. off) /\ NewlinesUpTo(off) \in SUBSET (1 .. off)
      BY <2>2, FS_Interval DEF NewlinesUpTo
    <3>2. QED BY <2>1, <2>2, <3>1, FS_Subset
  <2>5. Cardinality(NewlinesUpTo(off')) = line_counter + 1
    BY <1>3, <2>3, <2>4, FS_AddElement
  <2>6. Len(buf') \in 1 .. (BufSize - 1) /\ line_counter' = line_counter + 1
    BY <1>5, GetLineProperties
  <2>7. buf' # <<>>
    BY <2>6
  <2>8. tok'.type = t.type /\ tok'.line = line_counter
    BY <1>5 DEF AtToken
  <2>9. QED BY <1>2, <1>3, <1>5, <2>5, <2>6, <2>7, <2>8
<1>6. CASE GetLineFails /\ AtToken(t, "end", 0, 0)
  <2>1. tok'.type = "end" /\ tok'.line = 0
    BY <1>6 DEF AtToken
  <2>2. QED BY <1>2, <1>3, <1>6, <2>1 DEF GetLineFails
<1>7. CASE /\ t.type \notin {"newline", "comment"}
           /\ IncBuff(t) /\ AtToken(t, t.type, line_counter, t.col)
  <2>1. tok'.type = t.type /\ tok'.line = line_counter
    BY <1>7 DEF AtToken
  <2>2. PICK text : TokenFrom(t, text, buf_view.at, ViewEnd)
    BY NextTokensProperties
  <2>3. t.type # "end"
    BY <2>2 DEF TokenFrom
  <2>4. QED BY <1>2, <1>3, <1>7, <2>1, <2>3 DEF IncBuff
<1>8. QED BY <1>4, <1>5, <1>6, <1>7

(***************************************************************************)
(* In files of complete lines an error names the line of the token it is   *)
(* about, although the next line may be in the buffer by then.             *)
(***************************************************************************)
THEOREM ErrorsNameTheirLine == Spec => []PanicNamesItsLine
<1>1. Init => LineKnown
  <2> SUFFICES ASSUME Init PROVE LineKnown
    OBVIOUS
  <2>1. off = 0 /\ line_counter = 0 /\ tok.type = "start" /\ tok.line = 0
    BY DEF Init
  <2>2. NewlinesUpTo(off) = {}
    BY <2>1 DEF NewlinesUpTo
  <2>3. Cardinality(NewlinesUpTo(off)) = 0
    BY <2>2, FS_EmptySet
  <2>4. QED BY <2>1, <2>3 DEF LineKnown, LineOfToken, NewlinesUpTo
<1>2. TypeOK /\ LineKnown /\ [Next]_vars => LineKnown'
  <2> SUFFICES ASSUME TypeOK, LineKnown, [Next]_vars
               PROVE  LineKnown'
    OBVIOUS
  <2>1. CASE UpdateToken
    BY <2>1, LineStep
  <2>2. CASE UNCHANGED vars
    BY <2>2 DEF vars, LineKnown, FitsBuffer, NewlinesUpTo, LineOfToken
  <2>3. QED
    BY <2>1, <2>2 DEF Next, Exited, Read, Statement, ImportedModule, AfterKnownModule,
       AfterFirstNew, MoreModule, AfterMore, FromTitle, FromImportKeyword, FromName, AfterName
<1>3. LineKnown => PanicNamesItsLine
  BY DEF LineKnown, PanicNamesItsLine
<1>4. QED BY TypeCorrect, <1>1, <1>2, <1>3, PTL DEF Spec

-----------------------------------------------------------------------------
(* The invariant of the list                                                *)

BuildsImport == {"firstSep", "more", "moreSep"}
BuildsFrom   == {"importKw", "name", "nameSep"}

(***************************************************************************)
(* What the statement read so far has built, at each call of               *)
(* _update_token: nothing between statements, a node that names something  *)
(* in an import statement, a node or an entry of the list in a from        *)
(* statement.  Statements are only open while a line is in the buffer.     *)
(***************************************************************************)
Shape ==
  /\ pc \notin BuildsImport \cup BuildsFrom \cup Outcomes => node = NoNode /\ target = 0
  /\ pc \in BuildsImport => target = 0 /\ node.kind = "IMPORT" /\ node.imports # <<>>
  /\ pc \in BuildsFrom => IF target = 0 THEN node.kind = "FROM"
                          ELSE squash /\ modules[target].kind = "FROM"
  /\ pc = "nameSep" => TargetImports # <<>>
  /\ buf = <<>> => pc \in {"statement"} \cup Outcomes
  /\ buf # <<>> => line_counter >= 1

(***************************************************************************)
(* The node under construction may join the list: what the duplicate       *)
(* checks found when it was made is still true when it is appended,        *)
(* because only this statement changes the list.                           *)
(***************************************************************************)
Fresh ==
  /\ pc \in BuildsImport =>
       \A i \in DOMAIN modules :
         modules[i].kind = "IMPORT" => Head(node.imports) \notin Range(modules[i].imports)
  /\ pc \in BuildsFrom /\ target = 0 =>
       /\ NoRepeats(node.imports)
       /\ squash => \A i \in DOMAIN modules :
                      modules[i].kind = "FROM" => modules[i].title # node.title

(* What a call of _update_token does to the buffer.                         *)
LEMMA ReadStep ==
  ASSUME TypeOK, UpdateToken
  PROVE  /\ buf # <<>> /\ buf' = <<>> => tok'.type = "end"
         /\ buf = <<>> /\ buf' = <<>> => tok'.type \notin {"from", "import"}
         /\ (buf # <<>> => line_counter >= 1) => (buf' # <<>> => line_counter' >= 1)
<1>1. PICK t \in NextTokens :
        \/ off < Len(file) /\ GetLine
        \/ GetLineFails /\ AtToken(t, "end", 0, 0)
        \/ IncBuff(t) /\ AtToken(t, t.type, line_counter, t.col)
  BY DEF UpdateToken
<1>2. CASE off < Len(file) /\ GetLine
  <2>1. Len(buf') \in 1 .. (BufSize - 1) /\ line_counter' = line_counter + 1
    BY <1>2, GetLineProperties
  <2>2. buf' # <<>> /\ line_counter' >= 1
    BY <2>1 DEF TypeOK
  <2>3. QED BY <2>2
<1>3. CASE GetLineFails /\ AtToken(t, "end", 0, 0)
  BY <1>3 DEF GetLineFails, AtToken
<1>4. CASE IncBuff(t) /\ AtToken(t, t.type, line_counter, t.col)
  <2>1. buf' = buf /\ line_counter' = line_counter /\ tok'.type = t.type
    BY <1>4 DEF IncBuff, AtToken
  <2>2. ASSUME buf = <<>>
        PROVE  t.type \notin {"from", "import"}
    <3>1. PICK text :
            /\ \A i \in buf_view.at .. (ViewEnd - 1) :
                 IF i <= Len(buf) THEN text[i] = buf[i] ELSE text[i] \in Delimiter \cup {NUL}
            /\ TokenFrom(t, text, buf_view.at, ViewEnd)
      BY NextTokensProperties
    <3>2. \A i \in buf_view.at .. (ViewEnd - 1) : text[i] \in Delimiter \cup {NUL}
      <4>1. Len(buf) = 0 /\ buf_view.at \in Nat \ {0}
        BY <2>2 DEF TypeOK
      <4>2. QED BY <3>1, <4>1
    <3>3. \A i \in DOMAIN t.name : t.name[i] \in Delimiter \cup {NUL}
      BY <3>1, <3>2 DEF TokenFrom
    <3>4. FROM \notin Delimiter \cup {NUL} /\ IMPORT \notin Delimiter \cup {NUL}
      BY DEF Delimiter, NUL, FROM, IMPORT, SP, COMMA, HASH, NL
    <3>5. t.name # <<FROM>> /\ t.name # <<IMPORT>>
      BY <3>3, <3>4
    <3>6. QED BY <3>1, <3>5 DEF TokenFrom
  <2>3. QED BY <2>1, <2>2
<1>5. QED BY <1>1, <1>2, <1>3, <1>4

LEMMA ShapeStep ==
  ASSUME TypeOK, Shape, [Next]_vars
  PROVE  Shape'
<1> USE DEF BuildsImport, BuildsFrom, Outcomes
<1>1. ASSUME UpdateToken
      PROVE  /\ buf' # <<>> => line_counter' >= 1
             /\ pc \notin {"statement"} \cup Outcomes /\ buf' = <<>> => tok'.type = "end"
             /\ buf' = <<>> => tok'.type \notin {"from", "import"}
  BY <1>1, ReadStep DEF Shape
<1>2. ASSUME UpdateToken, Panic \/ Die
      PROVE  Shape'
  BY <1>1, <1>2 DEF Panic, Die, Goto, Shape
<1>3. ASSUME UpdateToken, AppendModule, Goto("statement")
      PROVE  Shape'
  BY <1>1, <1>3 DEF AppendModule, Goto, Shape
<1>4. CASE Statement
  BY <1>1, <1>4 DEF Statement, Read, Goto, Shape, list
<1>5. CASE ImportedModule
  <2>1. UpdateToken /\ pc = "module"
    BY <1>5 DEF ImportedModule, Read
  <2>2. CASE Panic \/ Die
    BY <1>2, <2>1, <2>2
  <2>3. CASE tok'.type = "identifier" /\ Goto("known") /\ UNCHANGED list
    BY <1>1, <2>1, <2>3 DEF Goto, Shape, list
  <2>4. CASE /\ tok'.type = "identifier"
             /\ node' = NewImport(tok'.name)
             /\ Goto("firstSep") /\ UNCHANGED <<modules, target>>
    BY <1>1, <2>1, <2>4 DEF Goto, Shape, NewImport
  <2>5. QED BY <1>5, <2>2, <2>3, <2>4 DEF ImportedModule
<1>6. CASE AfterKnownModule
  BY <1>1, <1>6 DEF AfterKnownModule, Read, Goto, Shape, list, Separator
<1>7. CASE AfterFirstNew
  <2>1. UpdateToken /\ pc = "firstSep"
    BY <1>7 DEF AfterFirstNew, Read
  <2>2. CASE tok'.type = "comma" /\ Goto("more") /\ UNCHANGED list
    BY <1>1, <2>1, <2>2 DEF Goto, Shape, list
  <2>3. QED BY <1>3, <1>7, <2>1, <2>2 DEF AfterFirstNew
<1>8. CASE MoreModule
  <2>1. UpdateToken /\ pc = "more"
    BY <1>8 DEF MoreModule, Read
  <2>2. CASE Panic \/ Die
    BY <1>2, <2>1, <2>2
  <2>3. CASE /\ tok'.type = "identifier"
             /\ PushImport(tok'.name) /\ Goto("moreSep") /\ UNCHANGED target
    <3>1. node'.kind = "IMPORT" /\ node'.imports # <<>> /\ target' = 0
      BY <2>1, <2>3 DEF Shape, PushImport, WithImport, TypeOK, Module
    <3>2. QED BY <1>1, <2>1, <2>3, <3>1 DEF Goto, Shape
  <2>4. QED BY <1>8, <2>2, <2>3 DEF MoreModule
<1>9. CASE AfterMore
  <2>1. UpdateToken /\ pc = "moreSep"
    BY <1>9 DEF AfterMore, Read
  <2>2. CASE Separator /\ Goto("more") /\ UNCHANGED list
    BY <1>1, <2>1, <2>2 DEF Goto, Shape, list, Separator
  <2>3. QED BY <1>3, <1>9, <2>1, <2>2 DEF AfterMore
<1>10. CASE FromTitle
  <2> DEFINE found == IF squash THEN FindModule(tok'.name) ELSE 0
  <2>1. UpdateToken /\ pc = "title"
    BY <1>10 DEF FromTitle, Read
  <2>2. CASE Panic \/ Die
    BY <1>2, <2>1, <2>2
  <2>3. CASE /\ tok'.type = "identifier" /\ found # 0 /\ target' = found
             /\ Goto("importKw") /\ UNCHANGED <<modules, node, nodes>>
    <3>1. squash /\ squash' = squash /\ modules[found].kind = "FROM"
      <4>1. ListOK /\ squash' = squash
        BY <2>1, TypeOKParts, UpdateTokenProperties
      <4>2. QED BY <2>3, <4>1, FindModuleProperties
    <3> HIDE DEF found
    <3>2. QED BY <1>1, <2>1, <2>3, <3>1 DEF Goto, Shape
  <2>4. CASE /\ tok'.type = "identifier" /\ node' = NewFrom(tok'.name)
             /\ Goto("importKw") /\ UNCHANGED <<modules, target>>
    BY <1>1, <2>1, <2>4 DEF Goto, Shape, NewFrom
  <2>5. QED BY <1>10, <2>2, <2>3, <2>4 DEF FromTitle
<1>11. CASE FromImportKeyword
  <2>1. UpdateToken /\ pc = "importKw" /\ squash' = squash
    BY <1>11, UpdateTokenProperties DEF FromImportKeyword, Read
  <2>2. CASE Panic
    BY <1>2, <2>1, <2>2
  <2>3. CASE tok'.type = "import" /\ Goto("name") /\ UNCHANGED list
    BY <1>1, <2>1, <2>3 DEF Goto, Shape, list
  <2>4. QED BY <1>11, <2>2, <2>3 DEF FromImportKeyword
<1>12. CASE FromName
  <2>1. UpdateToken /\ pc = "name" /\ squash' = squash
    BY <1>12, UpdateTokenProperties DEF FromName, Read
  <2>2. CASE Panic \/ Die
    BY <1>2, <2>1, <2>2
  <2>3. CASE /\ tok'.type = "identifier" /\ SearchImportFromStatement(tok'.name)
             /\ Goto("nameSep") /\ UNCHANGED list
    <3>1. TargetImports' = TargetImports /\ TargetImports # <<>>
      BY <2>3 DEF SearchImportFromStatement, TargetImports, Range, list
    <3>2. QED BY <1>1, <2>1, <2>3, <3>1 DEF Goto, Shape, list
  <2>4. CASE /\ tok'.type = "identifier" /\ PushImport(tok'.name)
             /\ Goto("nameSep") /\ UNCHANGED target
    <3>1. IF target' = 0 THEN node'.kind = "FROM" /\ node'.imports # <<>>
          ELSE squash' /\ modules'[target].kind = "FROM" /\ modules'[target].imports # <<>>
      <4>1. ListOK /\ tok'.name \in Name
        BY <2>1, TypeOKParts, UpdateTokenProperties DEF ReaderOK
      <4>2. CASE target = 0
        BY <2>1, <2>4, <4>1, <4>2, WithImportProperties DEF Shape, PushImport, ListOK
      <4>3. CASE target # 0
        <5>1. target \in DOMAIN modules /\ modules[target] \in Module
          BY <4>1, <4>3 DEF ListOK
        <5>2. modules'[target] = WithImport(modules[target], tok'.name)
          BY <2>4, <4>3, <5>1 DEF PushImport
        <5>3. QED BY <2>1, <2>4, <4>1, <4>3, <5>1, <5>2, WithImportProperties DEF Shape
      <4>4. QED BY <4>2, <4>3
    <3>2. QED BY <1>1, <2>1, <2>4, <3>1 DEF Goto, Shape, TargetImports
  <2>5. QED BY <1>12, <2>2, <2>3, <2>4 DEF FromName
<1>13. CASE AfterName
  <2>1. UpdateToken /\ pc = "nameSep" /\ squash' = squash
    BY <1>13, UpdateTokenProperties DEF AfterName, Read
  <2>2. CASE Separator /\ Goto("name") /\ UNCHANGED list
    BY <1>1, <2>1, <2>2 DEF Goto, Shape, list, Separator
  <2>3. QED BY <1>3, <1>13, <2>1, <2>2 DEF AfterName
<1>14. CASE UNCHANGED vars
  BY <1>14 DEF vars, Shape, TargetImports
<1>15. QED
  BY <1>4, <1>5, <1>6, <1>7, <1>8, <1>9, <1>10, <1>11, <1>12, <1>13, <1>14
     DEF Next, Exited

(* The file and the option do not change while the file is read.            *)
LEMMA FileStays ==
  ASSUME TypeOK, [Next]_vars
  PROVE  file' = file /\ squash' = squash
<1>1. CASE UpdateToken
  BY <1>1 DEF UpdateToken, input
<1>2. CASE UNCHANGED vars
  BY <1>2 DEF vars
<1>3. QED
  BY <1>1, <1>2 DEF Next, Exited, Read, Statement, ImportedModule, AfterKnownModule,
     AfterFirstNew, MoreModule, AfterMore, FromTitle, FromImportKeyword, FromName, AfterName

-----------------------------------------------------------------------------
(* How a step may change the list                                           *)

(* A statement that made a node of its own ends.                            *)
Appends ==
  /\ target = 0 /\ pc \in BuildsImport \cup {"nameSep"}
  /\ pc' = "statement" /\ node.imports # <<>>
  /\ modules' = Append(modules, AtLine(node, line_counter'))
  /\ AtLine(node, line_counter') \in Module
  /\ line_counter' >= 1 /\ line_counter' >= line_counter

(* A statement adds a name to the entry of its library.                     *)
Extends ==
  /\ pc = "name" /\ pc' = "nameSep"
  /\ UpdateToken /\ tok'.type = "identifier"
  /\ target \in DOMAIN modules /\ target' = target
  /\ squash /\ modules[target].kind = "FROM"
  /\ tok'.name \notin Range(modules[target].imports)
  /\ modules' = [modules EXCEPT ![target] = WithImport(modules[target], tok'.name)]

LEMMA ListStep ==
  ASSUME TypeOK, Shape, [Next]_vars
  PROVE  \/ modules' = modules
         \/ Appends
         \/ Extends
<1> USE DEF BuildsImport, BuildsFrom, Outcomes
<1>1. ListOK
  BY TypeOKParts
<1>2. ASSUME UpdateToken, pc \in BuildsImport \cup {"nameSep"}, AppendModule, Goto("statement")
      PROVE  modules' = modules \/ Appends
  <2>1. line_counter' \in Nat /\ line_counter' >= line_counter /\ line_counter \in Nat
    BY <1>2, UpdateTokenProperties DEF ReaderOK, TypeOK
  <2>2. line_counter >= 1
    BY <1>2 DEF Shape
  <2>3. CASE target # 0
    BY <1>1, <1>2, <2>1, <2>3, AppendModuleProperties
  <2>4. CASE target = 0
    <3>1. node.imports # <<>>
      BY <1>2, <2>4 DEF Shape, TargetImports
    <3>2. QED
      BY <1>1, <1>2, <2>1, <2>2, <2>4, <3>1, AppendModuleProperties DEF Appends, Goto
  <2>5. QED BY <2>3, <2>4
<1>3. ASSUME PushImport(tok'.name), target = 0
      PROVE  modules' = modules
  BY <1>3 DEF PushImport
<1>4. CASE Statement
  BY <1>4 DEF Statement, list
<1>5. CASE ImportedModule
  BY <1>5 DEF ImportedModule, Panic, Die, list
<1>6. CASE AfterKnownModule
  BY <1>6 DEF AfterKnownModule, list
<1>7. CASE AfterFirstNew
  BY <1>2, <1>7 DEF AfterFirstNew, Read, list
<1>8. CASE MoreModule
  <2>1. target = 0
    BY <1>8 DEF MoreModule, Read, Shape
  <2>2. QED BY <1>3, <1>8, <2>1 DEF MoreModule, Panic, Die, list
<1>9. CASE AfterMore
  BY <1>2, <1>9 DEF AfterMore, Read, list
<1>10. CASE FromTitle
  BY <1>10 DEF FromTitle, Panic, Die, list
<1>11. CASE FromImportKeyword
  BY <1>11 DEF FromImportKeyword, Panic, list
<1>12. CASE FromName
  <2>1. UpdateToken /\ pc = "name"
    BY <1>12 DEF FromName, Read
  <2>2. CASE UNCHANGED list
    BY <2>2 DEF list
  <2>3. CASE /\ tok'.type = "identifier" /\ ~SearchImportFromStatement(tok'.name)
             /\ PushImport(tok'.name) /\ Goto("nameSep") /\ UNCHANGED target
    <3>1. CASE target = 0
      BY <1>3, <2>3, <3>1
    <3>2. CASE target # 0
      <4>1. target \in DOMAIN modules /\ squash /\ modules[target].kind = "FROM"
        BY <1>1, <2>1, <3>2 DEF ListOK, Shape
      <4>2. tok'.name \notin Range(modules[target].imports)
        BY <2>3, <3>2 DEF SearchImportFromStatement, TargetImports
      <4>3. modules' = [modules EXCEPT ![target] = WithImport(modules[target], tok'.name)]
        BY <2>3, <3>2 DEF PushImport
      <4>4. QED BY <2>1, <2>3, <4>1, <4>2, <4>3 DEF Extends, Goto
    <3>3. QED BY <3>1, <3>2
  <2>4. QED BY <1>12, <2>2, <2>3 DEF FromName, Panic, Die
<1>13. CASE AfterName
  BY <1>2, <1>13 DEF AfterName, Read, list
<1>14. CASE UNCHANGED vars
  BY <1>14 DEF vars
<1>15. QED
  BY <1>4, <1>5, <1>6, <1>7, <1>8, <1>9, <1>10, <1>11, <1>12, <1>13, <1>14
     DEF Next, Exited

(* The list after each of the two changes, entry by entry.                  *)
LEMMA AppendsProperties ==
  ASSUME TypeOK, Appends
  PROVE  /\ Len(modules') = Len(modules) + 1
         /\ DOMAIN modules' = 1 .. (Len(modules) + 1) /\ DOMAIN modules = 1 .. Len(modules)
         /\ Len(modules) \in Nat
         /\ \A i \in 1 .. Len(modules) : modules'[i] = modules[i]
         /\ modules'[Len(modules) + 1] = AtLine(node, line_counter')
BY AppendProperties DEF TypeOK, Appends

LEMMA ExtendsProperties ==
  ASSUME TypeOK, Extends
  PROVE  /\ DOMAIN modules' = DOMAIN modules
         /\ \A i \in DOMAIN modules : i # target => modules'[i] = modules[i]
         /\ modules[target] \in Module /\ tok'.name \in Name
         /\ modules'[target] = WithImport(modules[target], tok'.name)
<1>1. tok'.name \in Name
  BY UpdateTokenProperties DEF Extends, ReaderOK
<1>2. QED BY <1>1 DEF TypeOK, Extends

-----------------------------------------------------------------------------
(* What holds for every file                                                *)

LEMMA ShapeInvariant == Spec => []Shape
<1>1. Init => Shape
  BY DEF Init, Shape, BuildsImport, BuildsFrom, Outcomes, NoNode
<1>2. TypeOK /\ Shape /\ [Next]_vars => Shape'
  BY ShapeStep
<1>3. QED BY TypeCorrect, <1>1, <1>2, PTL DEF Spec

(***************************************************************************)
(* No entry of the list is without a name, whatever the file holds: the    *)
(* printer's loops, which run to imports.len - 1 in unsigned arithmetic,   *)
(* stay in the array.                                                      *)
(***************************************************************************)
THEOREM PrinterPrecondition == Spec => []NothingEmpty
<1>1. Init => NothingEmpty
  BY DEF Init, NothingEmpty
<1>2. TypeOK /\ Shape /\ NothingEmpty /\ [Next]_vars => NothingEmpty'
  <2> SUFFICES ASSUME TypeOK, Shape, NothingEmpty, [Next]_vars
               PROVE  NothingEmpty'
    OBVIOUS
  <2>1. CASE modules' = modules
    BY <2>1 DEF NothingEmpty
  <2>2. CASE Appends
    <3>1. AtLine(node, line_counter').imports # <<>>
      BY <2>2 DEF Appends, AtLine
    <3>2. QED BY <2>2, <3>1, AppendsProperties DEF NothingEmpty
  <2>3. CASE Extends
    <3>1. WithImport(modules[target], tok'.name).imports # <<>>
      BY <2>3, ExtendsProperties, WithImportProperties
    <3>2. QED BY <2>3, <3>1, ExtendsProperties DEF NothingEmpty
  <2>4. QED BY <2>1, <2>2, <2>3, ListStep
<1>3. QED BY TypeCorrect, ShapeInvariant, <1>1, <1>2, PTL DEF Spec

(***************************************************************************)
(* The list is in the order of the file, and every entry's line was read.  *)
(***************************************************************************)
THEOREM ListFollowsFile == Spec => []LinesInOrder
<1>1. Init => LinesInOrder
  BY DEF Init, LinesInOrder
<1>2. TypeOK /\ Shape /\ LinesInOrder /\ [Next]_vars => LinesInOrder'
  <2> SUFFICES ASSUME TypeOK, Shape, LinesInOrder, [Next]_vars
               PROVE  LinesInOrder'
    OBVIOUS
  <2>1. line_counter \in Nat /\ line_counter' \in Nat /\ line_counter' >= line_counter
    <3>1. CASE UpdateToken
      BY <3>1, UpdateTokenProperties DEF TypeOK, ReaderOK
    <3>2. CASE UNCHANGED vars
      BY <3>2 DEF vars, TypeOK
    <3>3. QED
      BY <3>1, <3>2 DEF Next, Exited, Read, Statement, ImportedModule, AfterKnownModule,
         AfterFirstNew, MoreModule, AfterMore, FromTitle, FromImportKeyword, FromName, AfterName
  <2>2. \A i \in DOMAIN modules : modules[i].line \in Nat
    <3>1. \A i \in DOMAIN modules : modules[i] \in Module
      BY DEF TypeOK
    <3>2. QED BY <3>1 DEF Module
  <2>3. CASE modules' = modules
    BY <2>1, <2>2, <2>3 DEF LinesInOrder
  <2>4. CASE Appends
    <3> DEFINE new == Len(modules) + 1
    <3>1. AtLine(node, line_counter').line = line_counter' /\ line_counter' >= 1
      BY <2>4 DEF Appends, AtLine
    <3>2. /\ DOMAIN modules' = 1 .. new /\ DOMAIN modules = 1 .. Len(modules)
          /\ Len(modules) \in Nat
          /\ \A i \in 1 .. Len(modules) : modules'[i] = modules[i]
          /\ modules'[new].line = line_counter'
      BY <2>4, <3>1, AppendsProperties
    <3>3. \A i \in 1 .. Len(modules) : modules'[i].line \in 1 .. line_counter'
      BY <2>1, <2>2, <3>2 DEF LinesInOrder
    <3>4. \A i \in DOMAIN modules' : modules'[i].line \in 1 .. line_counter'
      BY <2>1, <3>1, <3>2, <3>3
    <3>5. \A i, j \in DOMAIN modules' : i < j => modules'[i].line <= modules'[j].line
      <4> SUFFICES ASSUME NEW i \in 1 .. new, NEW j \in 1 .. new, i < j
                   PROVE  modules'[i].line <= modules'[j].line
        BY <3>2
      <4>1. CASE j = new
        BY <2>1, <3>2, <3>4, <4>1
      <4>2. CASE j \in 1 .. Len(modules)
        BY <3>2, <4>2 DEF LinesInOrder
      <4>3. QED BY <3>2, <4>1, <4>2
    <3>6. QED BY <3>4, <3>5 DEF LinesInOrder
  <2>5. CASE Extends
    <3>1. \A i \in DOMAIN modules : modules'[i].line = modules[i].line
      BY <2>5, ExtendsProperties, WithImportProperties
    <3>2. DOMAIN modules' = DOMAIN modules
      BY <2>5, ExtendsProperties
    <3>3. QED BY <2>1, <2>2, <3>1, <3>2 DEF LinesInOrder
  <2>6. QED BY <2>3, <2>4, <2>5, ListStep
<1>3. QED BY TypeCorrect, ShapeInvariant, <1>1, <1>2, PTL DEF Spec

-----------------------------------------------------------------------------
(* What holds for files of complete lines                                   *)

(* A name that is not in a list without repetitions can join it.            *)
LEMMA AppendNoRepeats ==
  ASSUME NEW S, NEW s \in Seq(S), NEW x \in S, NoRepeats(s), x \notin Range(s)
  PROVE  NoRepeats(Append(s, x))
<1>1. /\ Len(Append(s, x)) = Len(s) + 1 /\ Len(s) \in Nat
      /\ DOMAIN Append(s, x) = 1 .. (Len(s) + 1) /\ DOMAIN s = 1 .. Len(s)
      /\ \A i \in 1 .. Len(s) : Append(s, x)[i] = s[i]
      /\ Append(s, x)[Len(s) + 1] = x
  BY AppendProperties
<1>2. \A i \in 1 .. Len(s) : s[i] # x
  BY <1>1 DEF Range
<1>3. QED BY <1>1, <1>2 DEF NoRepeats

(* A list that starts with a name still does when another one is appended.  *)
LEMMA AppendHead ==
  ASSUME NEW S, NEW s \in Seq(S), NEW x \in S, s # <<>>
  PROVE  Head(Append(s, x)) = Head(s)
BY AppendProperties

LEMMA FreshStep ==
  ASSUME TypeOK, Shape, Fresh, FitsBuffer(file), ViewBeforeNewline, [Next]_vars
  PROVE  Fresh'
<1> USE DEF BuildsImport, BuildsFrom, Outcomes
<1>1. ASSUME UpdateToken, pc # "statement", pc \notin Outcomes, tok'.type = "identifier"
      PROVE  tok'.name \in Name /\ CopyCStr(tok'.name) = tok'.name
  <2>1. buf # <<>>
    BY <1>1 DEF Shape
  <2>2. QED BY <1>1, <2>1, WholeName
<1>2. ASSUME pc' \notin BuildsImport, pc' \in BuildsFrom => target' # 0
      PROVE  Fresh'
  BY <1>2 DEF Fresh
<1>3. ASSUME Panic \/ Die
      PROVE  Fresh'
  BY <1>2, <1>3 DEF Panic, Die, Goto
<1>4. ListOK /\ node.imports \in Seq(Name)
  BY TypeOKParts DEF ListOK, Module
<1>5. CASE Statement
  BY <1>2, <1>5 DEF Statement, Goto
<1>6. CASE ImportedModule
  <2>1. UpdateToken /\ pc = "module"
    BY <1>6 DEF ImportedModule, Read
  <2>2. CASE Goto("known")
    BY <1>2, <2>2 DEF Goto
  <2>3. CASE /\ tok'.type = "identifier" /\ ~SearchForImports(tok'.name)
             /\ node' = NewImport(tok'.name)
             /\ Goto("firstSep") /\ UNCHANGED <<modules, target>>
    <3>1. tok'.name \in Name /\ CopyCStr(tok'.name) = tok'.name
      BY <1>1, <2>1, <2>3
    <3>2. Head(node'.imports) = tok'.name
      BY <2>3, <3>1 DEF NewImport
    <3>3. QED BY <2>3, <3>2 DEF Fresh, Goto, SearchForImports
  <2>4. QED BY <1>3, <1>6, <2>2, <2>3 DEF ImportedModule
<1>7. CASE AfterKnownModule
  BY <1>2, <1>7 DEF AfterKnownModule, Goto
<1>8. CASE AfterFirstNew
  <2>1. CASE Goto("more") /\ UNCHANGED list /\ pc = "firstSep"
    BY <2>1 DEF Goto, Fresh, list
  <2>2. QED BY <1>2, <1>8, <2>1 DEF AfterFirstNew, Read, Goto
<1>9. CASE MoreModule
  <2>1. UpdateToken /\ pc = "more" /\ target = 0
    BY <1>9 DEF MoreModule, Read, Shape
  <2>2. CASE /\ tok'.type = "identifier" /\ PushImport(tok'.name)
             /\ Goto("moreSep")
    <3>1. tok'.name \in Name /\ CopyCStr(tok'.name) = tok'.name
      BY <1>1, <2>1, <2>2
    <3>2. modules' = modules /\ node'.imports = Append(node.imports, tok'.name)
      BY <2>1, <2>2, <3>1 DEF PushImport, WithImport
    <3>3. Head(node'.imports) = Head(node.imports)
      BY <1>4, <2>1, <3>1, <3>2, AppendHead DEF Shape
    <3>4. QED BY <2>1, <2>2, <3>2, <3>3 DEF Fresh, Goto
  <2>3. QED BY <1>3, <1>9, <2>2 DEF MoreModule
<1>10. CASE AfterMore
  <2>1. CASE Goto("more") /\ UNCHANGED list /\ pc = "moreSep"
    BY <2>1 DEF Goto, Fresh, list
  <2>2. QED BY <1>2, <1>10, <2>1 DEF AfterMore, Read, Goto
<1>11. CASE FromTitle
  <2> DEFINE found == IF squash THEN FindModule(tok'.name) ELSE 0
  <2>1. UpdateToken /\ pc = "title" /\ squash' = squash
    BY <1>11, UpdateTokenProperties DEF FromTitle, Read
  <2>2. CASE found # 0 /\ target' = found /\ Goto("importKw")
    BY <1>2, <2>2 DEF Goto
  <2>3. CASE /\ tok'.type = "identifier" /\ found = 0
             /\ node' = NewFrom(tok'.name)
             /\ Goto("importKw") /\ UNCHANGED <<modules, target>>
    <3>1. tok'.name \in Name /\ CopyCStr(tok'.name) = tok'.name
      BY <1>1, <2>1, <2>3
    <3>2. node'.imports = <<>> /\ node'.title = tok'.name
      BY <2>3, <3>1 DEF NewFrom
    <3>3. squash => \A i \in DOMAIN modules :
                      modules[i].kind = "FROM" => modules[i].title # tok'.name
      BY <1>4, <2>3, FindModuleProperties
    <3>4. NoRepeats(node.imports)'
      BY <3>2 DEF NoRepeats
    <3>5. QED BY <2>1, <2>3, <3>2, <3>3, <3>4 DEF Fresh, Goto
  <2>4. QED BY <1>3, <1>11, <2>2, <2>3 DEF FromTitle
<1>12. CASE FromImportKeyword
  <2>1. squash' = squash /\ pc = "importKw"
    BY <1>12, UpdateTokenProperties DEF FromImportKeyword, Read
  <2>2. CASE Goto("name") /\ UNCHANGED list
    BY <2>1, <2>2 DEF Goto, Fresh, list, NoRepeats
  <2>3. QED BY <1>3, <1>12, <2>2 DEF FromImportKeyword
<1>13. CASE FromName
  <2>1. UpdateToken /\ pc = "name" /\ squash' = squash
    BY <1>13, UpdateTokenProperties DEF FromName, Read
  <2>2. CASE Goto("nameSep") /\ UNCHANGED list
    BY <2>1, <2>2 DEF Goto, Fresh, list, NoRepeats
  <2>3. CASE /\ tok'.type = "identifier" /\ ~SearchImportFromStatement(tok'.name)
             /\ PushImport(tok'.name) /\ Goto("nameSep") /\ UNCHANGED target
    <3>1. CASE target # 0
      BY <1>2, <2>3, <3>1 DEF Goto
    <3>2. CASE target = 0
      <4>1. tok'.name \in Name /\ CopyCStr(tok'.name) = tok'.name
        BY <1>1, <2>1, <2>3
      <4>2. /\ modules' = modules /\ node'.imports = Append(node.imports, tok'.name)
            /\ node'.title = node.title
        BY <2>3, <3>2, <4>1 DEF PushImport, WithImport
      <4>3. NoRepeats(node.imports) /\ tok'.name \notin Range(node.imports)
        BY <2>1, <2>3, <3>2 DEF Fresh, SearchImportFromStatement, TargetImports
      <4>4. NoRepeats(node.imports)'
        <5>1. NoRepeats(Append(node.imports, tok'.name))
          BY <1>4, <4>1, <4>3, AppendNoRepeats
        <5>2. QED BY <4>2, <5>1 DEF NoRepeats
      <4>5. QED BY <2>1, <2>3, <3>2, <4>2, <4>4 DEF Fresh, Goto
    <3>3. QED BY <3>1, <3>2
  <2>4. QED BY <1>3, <1>13, <2>2, <2>3 DEF FromName
<1>14. CASE AfterName
  <2>1. squash' = squash /\ pc = "nameSep"
    BY <1>14, UpdateTokenProperties DEF AfterName, Read
  <2>2. CASE Goto("name") /\ UNCHANGED list
    BY <2>1, <2>2 DEF Goto, Fresh, list, NoRepeats
  <2>3. QED BY <1>2, <1>14, <2>2 DEF AfterName, Goto
<1>15. CASE UNCHANGED vars
  BY <1>15 DEF vars, Fresh, NoRepeats
<1>16. QED
  BY <1>5, <1>6, <1>7, <1>8, <1>9, <1>10, <1>11, <1>12, <1>13, <1>14, <1>15
     DEF Next, Exited

LEMMA FreshInvariant == Spec => [](FitsBuffer(file) => Fresh)
<1>1. Init => (FitsBuffer(file) => Fresh)
  BY DEF Init, Fresh, BuildsImport, BuildsFrom
<1>2. TypeOK /\ Shape /\ ViewBeforeNewline /\ (FitsBuffer(file) => Fresh) /\ [Next]_vars
        => (FitsBuffer(file) => Fresh)'
  <2>1. TypeOK /\ [Next]_vars => file' = file
    BY FileStays
  <2>2. QED BY <2>1, FreshStep DEF FitsBuffer
<1>3. QED BY TypeCorrect, ShapeInvariant, ScanStaysInLine, <1>1, <1>2, PTL DEF Spec

(***************************************************************************)
(* When libraries are combined, a library has one entry, in every file     *)
(* whose lines fit in the buffer.                                          *)
(***************************************************************************)
THEOREM LibrariesCombined == Spec => [](FitsBuffer(file) => OneEntryPerLibrary)
<1>1. Init => (FitsBuffer(file) => OneEntryPerLibrary)
  BY DEF Init, OneEntryPerLibrary
<1>2. TypeOK /\ Shape /\ (FitsBuffer(file) => Fresh)
      /\ (FitsBuffer(file) => OneEntryPerLibrary) /\ [Next]_vars
        => (FitsBuffer(file) => OneEntryPerLibrary)'
  <2> SUFFICES ASSUME TypeOK, Shape, Fresh, OneEntryPerLibrary, [Next]_vars
               PROVE  OneEntryPerLibrary'
    BY FileStays DEF FitsBuffer
  <2>1. squash' = squash
    BY FileStays
  <2>2. CASE modules' = modules
    BY <2>1, <2>2 DEF OneEntryPerLibrary
  <2>3. CASE Appends
    <3>1. /\ AtLine(node, line_counter').kind = node.kind
          /\ AtLine(node, line_counter').title = node.title
      BY DEF AtLine
    <3>2. squash /\ node.kind = "FROM" =>
            \A i \in DOMAIN modules : modules[i].kind = "FROM" => modules[i].title # node.title
      BY <2>3 DEF Appends, Fresh, Shape, BuildsFrom
    <3>3. QED BY <2>1, <2>3, <3>1, <3>2, AppendsProperties DEF OneEntryPerLibrary
  <2>4. CASE Extends
    <3>1. \A i \in DOMAIN modules : /\ modules'[i].kind = modules[i].kind
                                   /\ modules'[i].title = modules[i].title
      BY <2>4, ExtendsProperties, WithImportProperties
    <3>2. QED BY <2>1, <2>4, <3>1, ExtendsProperties DEF OneEntryPerLibrary
  <2>5. QED BY <2>2, <2>3, <2>4, ListStep
<1>3. QED BY TypeCorrect, ShapeInvariant, FreshInvariant, <1>1, <1>2, PTL DEF Spec

(* The name read by a step that extends an entry is stored as it is.        *)
LEMMA ExtendsWhole ==
  ASSUME TypeOK, Shape, FitsBuffer(file), ViewBeforeNewline, Extends
  PROVE  /\ modules'[target].imports = Append(modules[target].imports, tok'.name)
         /\ modules[target].imports \in Seq(Name)
<1>1. buf # <<>>
  BY DEF Extends, Shape, Outcomes
<1>2. CopyCStr(tok'.name) = tok'.name
  BY <1>1, WholeName DEF Extends
<1>3. QED BY <1>2, ExtendsProperties, WithImportProperties DEF Module

(***************************************************************************)
(* No library's entry lists a name twice, in every file whose lines fit in *)
(* the buffer, however many statements were combined in the entry.         *)
(***************************************************************************)
THEOREM LibraryNamesUnique == Spec => [](FitsBuffer(file) => FromNamesUnique)
<1>1. Init => (FitsBuffer(file) => FromNamesUnique)
  BY DEF Init, FromNamesUnique
<1>2. TypeOK /\ Shape /\ ViewBeforeNewline /\ (FitsBuffer(file) => Fresh)
      /\ (FitsBuffer(file) => FromNamesUnique) /\ [Next]_vars
        => (FitsBuffer(file) => FromNamesUnique)'
  <2> SUFFICES ASSUME TypeOK, Shape, ViewBeforeNewline, FitsBuffer(file), Fresh,
                      FromNamesUnique, [Next]_vars
               PROVE  FromNamesUnique'
    BY FileStays DEF FitsBuffer
  <2>1. CASE modules' = modules
    BY <2>1 DEF FromNamesUnique, NoRepeats
  <2>2. CASE Appends
    <3> DEFINE new == AtLine(node, line_counter')
    <3>1. new.kind = node.kind /\ new.imports = node.imports
      BY DEF AtLine
    <3>2. node.kind = "FROM" => NoRepeats(node.imports)
      BY <2>2 DEF Appends, Fresh, Shape, BuildsFrom
    <3>3. new.kind = "FROM" => NoRepeats(new.imports)
      BY <3>1, <3>2
    <3> HIDE DEF new
    <3>4. QED BY <2>2, <3>3, AppendsProperties DEF FromNamesUnique, NoRepeats, new
  <2>3. CASE Extends
    <3>1. /\ modules'[target].imports = Append(modules[target].imports, tok'.name)
          /\ modules[target].imports \in Seq(Name)
      BY <2>3, ExtendsWhole
    <3>2. NoRepeats(Append(modules[target].imports, tok'.name))
      <4>1. NoRepeats(modules[target].imports)
        BY <2>3 DEF Extends, FromNamesUnique
      <4>2. QED BY <2>3, <3>1, <4>1, ExtendsProperties, AppendNoRepeats DEF Extends
    <3>3. ASSUME NEW i \in DOMAIN modules, modules'[i].kind = "FROM"
          PROVE  NoRepeats(modules'[i].imports)
      <4>1. CASE i = target
        BY <3>1, <3>2, <4>1
      <4>2. CASE i # target
        BY <2>3, <3>3, <4>2, ExtendsProperties DEF FromNamesUnique
      <4>3. QED BY <4>1, <4>2
    <3>4. QED BY <2>3, <3>3, ExtendsProperties DEF FromNamesUnique, NoRepeats
  <2>4. QED BY <2>1, <2>2, <2>3, ListStep
<1>3. QED
  BY TypeCorrect, ShapeInvariant, ScanStaysInLine, FreshInvariant, <1>1, <1>2, PTL DEF Spec

(***************************************************************************)
(* The module an import statement starts with is in no earlier import      *)
(* statement's entry, in every file whose lines fit in the buffer.         *)
(***************************************************************************)
THEOREM FirstNamesNew == Spec => [](FitsBuffer(file) => FirstNameIsNew)
<1>1. Init => (FitsBuffer(file) => FirstNameIsNew)
  BY DEF Init, FirstNameIsNew
<1>2. TypeOK /\ Shape /\ (FitsBuffer(file) => Fresh)
      /\ (FitsBuffer(file) => FirstNameIsNew) /\ [Next]_vars
        => (FitsBuffer(file) => FirstNameIsNew)'
  <2> SUFFICES ASSUME TypeOK, Shape, Fresh, FirstNameIsNew, [Next]_vars
               PROVE  FirstNameIsNew'
    BY FileStays DEF FitsBuffer
  <2>1. CASE modules' = modules
    BY <2>1 DEF FirstNameIsNew
  <2>2. CASE Appends
    <3>1. /\ AtLine(node, line_counter').kind = node.kind
          /\ AtLine(node, line_counter').imports = node.imports
      BY DEF AtLine
    <3>2. node.kind = "IMPORT" =>
            \A i \in DOMAIN modules :
              modules[i].kind = "IMPORT" => Head(node.imports) \notin Range(modules[i].imports)
      BY <2>2 DEF Appends, Fresh, Shape, BuildsFrom
    <3>3. QED BY <2>2, <3>1, <3>2, AppendsProperties DEF FirstNameIsNew
  <2>3. CASE Extends
    <3>1. \A i \in DOMAIN modules : modules'[i].kind = "IMPORT" => modules'[i] = modules[i]
      BY <2>3, ExtendsProperties, WithImportProperties DEF Extends
    <3>2. QED BY <2>3, <3>1, ExtendsProperties DEF FirstNameIsNew
  <2>4. QED BY <2>1, <2>2, <2>3, ListStep
<1>3. QED BY TypeCorrect, ShapeInvariant, FreshInvariant, <1>1, <1>2, PTL DEF Spec

(***************************************************************************)
(* In a file of complete lines nothing the parser looks up is listed       *)
(* twice: no library when they are combined, no name of a library, no      *)
(* module that begins an import statement.                                 *)
(***************************************************************************)
THEOREM NothingListedTwice == Spec => [](FitsBuffer(file) => NothingTwice)
<1>1. (FitsBuffer(file) => OneEntryPerLibrary) /\ (FitsBuffer(file) => FromNamesUnique)
      /\ (FitsBuffer(file) => FirstNameIsNew)
        => (FitsBuffer(file) => NothingTwice)
  BY DEF NothingTwice
<1>2. QED BY <1>1, LibrariesCombined, LibraryNamesUnique, FirstNamesNew, PTL

-----------------------------------------------------------------------------
(* The list implements the abstract table of imports                        *)

(* A row of the table, and the table that stands for a list.                *)
Row(m)     == [kind |-> m.kind, title |-> m.title, imports |-> m.imports]
RowsOf(ms) == [i \in DOMAIN ms |-> Row(ms[i])]
Rows       == RowsOf(modules)
RowSet     == [kind : {"FROM", "IMPORT"}, title : Name, imports : Seq(Name)]

LEMMA RowsType ==
  ASSUME NEW ms \in Seq(Module)
  PROVE  /\ RowsOf(ms) \in Seq(RowSet)
         /\ Len(RowsOf(ms)) = Len(ms) /\ DOMAIN RowsOf(ms) = DOMAIN ms
         /\ \A i \in DOMAIN ms : RowsOf(ms)[i] = Row(ms[i])
<1>1. \A i \in DOMAIN ms : ms[i] \in Module
  OBVIOUS
<1>2. \A i \in DOMAIN ms : Row(ms[i]) \in RowSet
  BY <1>1 DEF Row, Module, RowSet
<1>3. DOMAIN ms = 1 .. Len(ms) /\ Len(ms) \in Nat
  OBVIOUS
<1>4. QED BY <1>2, <1>3 DEF RowsOf

(* The end of a statement with a node of its own records an entry.          *)
LEMMA AppendsRecord ==
  ASSUME TypeOK, TypeOK', Shape, Fresh, Appends, squash' = squash
  PROVE  Table!Record
<1> DEFINE new == AtLine(node, line_counter')
<1>1. /\ new.kind = node.kind /\ new.title = node.title /\ new.imports = node.imports
  BY DEF AtLine
<1>2. /\ DOMAIN modules' = 1 .. (Len(modules) + 1) /\ DOMAIN modules = 1 .. Len(modules)
      /\ Len(modules) \in Nat
      /\ \A i \in 1 .. Len(modules) : modules'[i] = modules[i]
      /\ modules'[Len(modules) + 1] = new
  BY AppendsProperties
<1>3. /\ node.imports # <<>>
      /\ node.kind = "FROM" =>
           /\ NoRepeats(node.imports)
           /\ squash => \A i \in DOMAIN modules :
                          modules[i].kind = "FROM" => modules[i].title # node.title
      /\ node.kind = "IMPORT" =>
           \A i \in DOMAIN modules :
             modules[i].kind = "IMPORT" => Head(node.imports) \notin Range(modules[i].imports)
  BY DEF Appends, Fresh, Shape, BuildsFrom, BuildsImport
<1> HIDE DEF new
<1>4. /\ Rows \in Seq(RowSet) /\ Len(Rows) = Len(modules)
      /\ \A i \in DOMAIN modules : Rows[i] = Row(modules[i])
      /\ Rows' \in Seq(RowSet) /\ Len(Rows') = Len(modules')
      /\ \A i \in DOMAIN modules' : Rows'[i] = Row(modules'[i])
  BY RowsType DEF Rows, TypeOK
<1>5. /\ Rows' = Append(Rows, Row(new))
      /\ Rows'[Len(Rows')] = Row(new)
      /\ Len(Rows') = Len(Rows) + 1
  <2>1. Len(Rows') = Len(Rows) + 1 /\ Rows'[Len(Rows')] = Row(new)
    BY <1>2, <1>4, AppendsProperties
  <2>2. Row(new) \in RowSet
    BY <1>2, <1>4, <2>1
  <2>3. /\ Append(Rows, Row(new)) \in Seq(RowSet)
        /\ Len(Append(Rows, Row(new))) = Len(Rows')
        /\ \A i \in 1 .. Len(Rows') : Rows'[i] = Append(Rows, Row(new))[i]
    BY <1>2, <1>4, <2>1, <2>2, AppendProperties
  <2>4. QED BY <1>4, <2>1, <2>3, SeqEqual
<1>6. Table!Acceptable(Row(new))
  <2>1. Row(new).kind = node.kind /\ Row(new).title = node.title /\ Row(new).imports = node.imports
    BY <1>1 DEF Row, new
  <2>2. node.kind = "FROM" => Table!NoRepeats(Row(new).imports)
    BY <1>3, <2>1 DEF NoRepeats, Table!NoRepeats
  <2>3. node.kind = "FROM" /\ squash => Row(new).title \notin Table!Titles
    BY <1>3, <2>1 DEF Table!Titles
  <2>4. node.kind = "IMPORT" => Head(Row(new).imports) \notin Table!Modules
    <3> SUFFICES ASSUME node.kind = "IMPORT"
                 PROVE  \A i \in DOMAIN modules :
                          modules[i].kind = "IMPORT" =>
                            Head(node.imports) \notin Table!Range(modules[i].imports)
      BY <2>1 DEF Table!Modules
    <3>1. QED BY <1>3 DEF Table!Range, Range
  <2>5. QED BY <1>3, <2>1, <2>2, <2>3, <2>4 DEF Table!Acceptable
<1>7. pc \in Steps /\ pc' \in Steps
  BY DEF Appends, BuildsImport, Steps
<1>8. QED BY <1>5, <1>6, <1>7 DEF Table!Record, Table!Last, Rows, RowsOf, Row

(* A name added to the entry of a library adds it in the table.             *)
LEMMA ExtendsAddName ==
  ASSUME TypeOK, TypeOK', Shape, FitsBuffer(file), ViewBeforeNewline, Extends,
         squash' = squash
  PROVE  Table!AddName
<1> DEFINE name == tok'.name
           row  == [kind    |-> Row(modules[target]).kind,
                    title   |-> Row(modules[target]).title,
                    imports |-> Append(Row(modules[target]).imports, name)]
<1>1. /\ modules'[target].imports = Append(modules[target].imports, name)
      /\ modules[target].imports \in Seq(Name) /\ name \in Name
      /\ modules'[target].kind = modules[target].kind
      /\ modules'[target].title = modules[target].title
  BY ExtendsWhole, ExtendsProperties, WithImportProperties
<1>2. /\ target \in DOMAIN modules /\ DOMAIN modules' = DOMAIN modules
      /\ \A i \in DOMAIN modules : i # target => modules'[i] = modules[i]
  BY ExtendsProperties DEF Extends
<1>3. Row(modules'[target]) = row
  BY <1>1 DEF Row
<1>4. Rows' = [Rows EXCEPT ![target] = row]
  BY <1>2, <1>3 DEF Rows, RowsOf
<1>5. Len(Rows') = Len(modules') /\ Len(Rows) = Len(modules) /\ Len(modules') = Len(modules)
  BY <1>2, RowsType DEF Rows, TypeOK
<1>6. Rows'[target].imports[Len(Rows'[target].imports)] = name
  <2>1. Rows'[target].imports = Append(modules[target].imports, name)
    BY <1>1, <1>2 DEF Rows, RowsOf, Row
  <2>2. Append(modules[target].imports, name)[Len(Append(modules[target].imports, name))] = name
    BY <1>1, AppendProperties
  <2>3. QED BY <2>1, <2>2
<1>7. name \notin Table!Range(modules[target].imports)
  BY DEF Extends, Table!Range, Range
<1>8. pc \in Steps /\ pc' \in Steps /\ squash /\ modules[target].kind = "FROM"
  BY DEF Extends, Steps
<1>9. Table!Last(Rows'[target].imports) = name /\ Rows[target] = Row(modules[target])
  BY <1>2, <1>6 DEF Table!Last, Rows, RowsOf
<1> HIDE DEF name
<1>10. QED
  BY <1>2, <1>4, <1>5, <1>7, <1>8, <1>9 DEF Table!AddName, Rows, RowsOf, Row

(* A step that leaves the list alone ends the reading or stutters.          *)
LEMMA OtherSteps ==
  ASSUME TypeOK, [Next]_vars, modules' = modules
  PROVE  Table!Close \/ UNCHANGED Table!tableVars
<1>1. squash' = squash /\ Rows' = Rows
  BY FileStays DEF Rows
<1>2. (pc \in Steps) \in BOOLEAN /\ (pc' \in Steps) \in BOOLEAN
  OBVIOUS
<1>3. CASE pc \in Steps
  BY <1>1, <1>2, <1>3 DEF Table!Close, Table!tableVars, Rows, RowsOf, Row
<1>4. CASE pc \notin Steps
  <2>1. UNCHANGED vars
    BY <1>4 DEF Next, Exited, Read, Statement, ImportedModule, AfterKnownModule, Steps,
       AfterFirstNew, MoreModule, AfterMore, FromTitle, FromImportKeyword, FromName, AfterName
  <2>2. QED BY <1>1, <2>1 DEF vars, Table!tableVars, Rows, RowsOf, Row
<1>5. QED BY <1>3, <1>4

LEMMA StepImplementsTable ==
  ASSUME TypeOK, Shape, ViewBeforeNewline, FitsBuffer(file), Fresh, [Next]_vars
  PROVE  [Table!Next]_(Table!tableVars)
<1>1. squash' = squash /\ TypeOK'
  BY FileStays, StepType
<1>2. CASE modules' = modules
  BY <1>2, OtherSteps DEF Table!Next
<1>3. CASE Appends
  BY <1>1, <1>3, AppendsRecord DEF Table!Next
<1>4. CASE Extends
  BY <1>1, <1>4, ExtendsAddName DEF Table!Next
<1>5. QED BY <1>2, <1>3, <1>4, ListStep

(***************************************************************************)
(* The parser implements the abstract table of imports, whatever files it  *)
(* is given, as long as their lines fit in its buffer: the list only grows *)
(* and takes only what the duplicate checks let through.                   *)
(***************************************************************************)
THEOREM ParserImplementsTable ==
  ASSUME \A f \in Files : FitsBuffer(f)
  PROVE  Spec => ImplementsTable
<1>1. Init => Table!Init
  <2>1. Init => "statement" \in Steps /\ DOMAIN modules = {}
    BY DEF Init, Steps
  <2>2. QED BY <2>1 DEF Init, Table!Init
<1>2. TypeOK /\ Shape /\ ViewBeforeNewline /\ FitsBuffer(file)
      /\ (FitsBuffer(file) => Fresh) /\ [Next]_vars
        => [Table!Next]_(Table!tableVars)
  BY StepImplementsTable
<1>3. Init => FitsBuffer(file)
  BY DEF Init
<1>4. TypeOK /\ [Next]_vars /\ FitsBuffer(file) => FitsBuffer(file)'
  BY FileStays DEF FitsBuffer
<1>5. QED
  BY TypeCorrect, ShapeInvariant, ScanStaysInLine, FreshInvariant, <1>1, <1>2, <1>3, <1>4, PTL
     DEF Spec, ImplementsTable, Table!Spec
=============================================================================
