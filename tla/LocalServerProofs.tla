------------------------- MODULE LocalServerProofs -------------------------
(***************************************************************************)
(* The connections of the local server implement the server that is        *)
(* promised to a client, for any clients, lines and pieces: the invariant  *)
(* says that the bytes on their way and in the buffer are the encodings,   *)
(* whole and in order, of the lines not answered yet.  What a client's     *)
(* load_profile leaves in the file of the latest profile is at the end.    *)
(***************************************************************************)
EXTENDS ClientConnection, ProfileStore, SequenceTheorems, TLAPS

\* A piece of a sequence.
LEMMA Piece ==
  ASSUME NEW S, NEW s \in Seq(S), NEW m \in Nat \ {0}, NEW n \in Nat, m <= n + 1, n <= Len(s)
  PROVE  /\ SubSeq(s, m, n) \in Seq(S) /\ Len(SubSeq(s, m, n)) = n - m + 1
         /\ \A i \in 1 .. n - m + 1 : SubSeq(s, m, n)[i] = s[m + i - 1]
<1>1. \A i \in m .. n : s[i] \in S
  BY ElementOfSeq, LenProperties
<1>2. QED
  BY <1>1, SubSeqProperties

\* What is left of a sequence without its first n elements.
LEMMA Remainder ==
  ASSUME NEW S, NEW s \in Seq(S), NEW n \in Nat, n <= Len(s)
  PROVE  /\ SubSeq(s, n + 1, Len(s)) \in Seq(S) /\ Len(SubSeq(s, n + 1, Len(s))) = Len(s) - n
         /\ \A i \in 1 .. Len(s) - n : SubSeq(s, n + 1, Len(s))[i] = s[n + i]
<1> DEFINE left == SubSeq(s, n + 1, Len(s))
           size == Len(s)
<1>1. size \in Nat /\ n <= size
  BY LenProperties
<1>2. n + 1 \in Nat \ {0} /\ n + 1 <= size + 1 /\ size <= size
  BY <1>1
<1>3. /\ left \in Seq(S) /\ Len(left) = size - (n + 1) + 1
      /\ \A i \in 1 .. size - (n + 1) + 1 : left[i] = s[n + 1 + i - 1]
  BY <1>1, <1>2, Piece
<1> HIDE DEF left, size
<1>4. size - (n + 1) + 1 = size - n /\ \A i \in 1 .. size - n : n + 1 + i - 1 = n + i
  BY <1>1
<1>5. \A i \in 1 .. size - n : left[i] = s[n + i]
  BY <1>3, <1>4, Zenon
<1>6. QED
  BY <1>3, <1>4, <1>5 DEF left, size

LEMMA EmptyLen == ASSUME NEW s, Len(s) > 0 PROVE s # <<>>
OBVIOUS

\* The sequence with these two elements.
LEMMA OnlyTwo ==
  ASSUME NEW S, NEW s \in Seq(S), Len(s) = 2
  PROVE  s = <<s[1], s[2]>>
<1>1. s[1] \in S /\ s[2] \in S
  BY ElementOfSeq
<1> DEFINE t == <<s[1], s[2]>>
<1>2. t \in Seq(S) /\ Len(t) = 2 /\ t[1] = s[1] /\ t[2] = s[2]
  BY <1>1
<1> HIDE DEF t
<1>3. \A i \in 1 .. Len(s) : s[i] = t[i]
  <2>1. \A i \in 1 .. 2 : i = 1 \/ i = 2
    OBVIOUS
  <2>2. QED
    BY <1>2, <2>1
<1>4. s = t
  BY <1>2, <1>3, SeqEqual
<1>5. QED
  BY <1>4 DEF t

\* The bytes of a line of client c.
Size(c) == IF c \in EndsWithCR THEN 4 ELSE 3

LEMMA EncodeShape ==
  ASSUME NEW c, NEW line \in Lines
  PROVE  /\ Encode(c, line) \in Seq(Bytes) /\ Len(Encode(c, line)) = Size(c)
         /\ Encode(c, line)[1] = Byte(line, 1) /\ Encode(c, line)[2] = Byte(line, 2)
         /\ c \in EndsWithCR => Encode(c, line)[3] = CR
         /\ Encode(c, line)[Size(c)] = LF
         /\ \A k \in 1 .. Size(c) - 1 : Encode(c, line)[k] # LF
<1>1. Byte(line, 1) \in Bytes /\ Byte(line, 2) \in Bytes /\ CR \in Bytes /\ LF \in Bytes
  BY DEF Byte, Bytes, CR, LF
<1>2. line # "line_end"
  BY DEF Lines, Loads, Settings
<1>3. Byte(line, 1) # LF /\ Byte(line, 2) # LF /\ CR # LF
  BY <1>2 DEF Byte, LF, CR
<1> DEFINE b == Byte(line, 1)
           d == Byte(line, 2)
<1>4. CASE c \in EndsWithCR
  <2>1. Encode(c, line) = <<b, d>> \o <<CR, LF>> /\ Size(c) = 4
    BY <1>4 DEF Encode, Size
  <2>2. <<b, d>> \in Seq(Bytes) /\ <<CR, LF>> \in Seq(Bytes)
    BY <1>1
  <2> HIDE DEF b, d
  <2>3. Len(<<b, d>>) = 2 /\ Len(<<CR, LF>>) = 2
    OBVIOUS
  <2>4. /\ Encode(c, line) \in Seq(Bytes) /\ Len(Encode(c, line)) = 4
        /\ Encode(c, line)[1] = b /\ Encode(c, line)[2] = d
        /\ Encode(c, line)[3] = CR /\ Encode(c, line)[4] = LF
    BY <2>1, <2>2, <2>3, ConcatProperties
  <2>5. QED
    BY <1>3, <1>4, <2>1, <2>4 DEF b, d
<1>5. CASE c \notin EndsWithCR
  <2>1. Encode(c, line) = <<b, d>> \o <<LF>> /\ Size(c) = 3
    BY <1>5 DEF Encode, Size
  <2>2. <<b, d>> \in Seq(Bytes) /\ <<LF>> \in Seq(Bytes)
    BY <1>1
  <2> HIDE DEF b, d
  <2>3. Len(<<b, d>>) = 2 /\ Len(<<LF>>) = 1
    OBVIOUS
  <2>4. /\ Encode(c, line) \in Seq(Bytes) /\ Len(Encode(c, line)) = 3
        /\ Encode(c, line)[1] = b /\ Encode(c, line)[2] = d /\ Encode(c, line)[3] = LF
    BY <2>1, <2>2, <2>3, ConcatProperties
  <2>5. QED
    BY <1>3, <1>5, <2>1, <2>4 DEF b, d
<1>6. QED
  BY <1>4, <1>5

\* s is made of the lines after the first done ones, whole.
Framed(c, s, lines, done) ==
  /\ done <= Len(lines) /\ Len(s) = Size(c) * (Len(lines) - done)
  /\ \A j \in 1 .. Len(lines) - done : \A k \in 1 .. Size(c) :
       s[Size(c) * (j - 1) + k] = Encode(c, lines[done + j])[k]

LEMMA FramedByOneMore ==
  ASSUME NEW c, NEW s \in Seq(Bytes), NEW lines \in Seq(Lines), NEW done \in Nat,
         Framed(c, s, lines, done), NEW line \in Lines
  PROVE  Framed(c, s \o Encode(c, line), Append(lines, line), done)
<1> DEFINE e    == Encode(c, line)
           more == Append(lines, line)
           m    == Len(lines) - done
           t    == s \o e
<1>1. /\ Len(lines) \in Nat /\ Len(more) = Len(lines) + 1 /\ more[Len(lines) + 1] = line
      /\ \A n \in 1 .. Len(lines) : more[n] = lines[n]
  OBVIOUS
<1>2. e \in Seq(Bytes) /\ Len(e) = Size(c)
  BY EncodeShape
<1> HIDE DEF e
<1>3. /\ Len(t) = Len(s) + Len(e) /\ Len(s) \in Nat
      /\ \A n \in 1 .. Len(s) : t[n] = s[n]
      /\ \A n \in 1 .. Len(e) : t[Len(s) + n] = e[n]
  BY <1>2
<1> HIDE DEF more, t
<1>4. m \in Nat /\ done + m = Len(lines) /\ Len(more) - done = m + 1 /\ done <= Len(more)
  BY <1>1 DEF Framed
<1>5. Len(s) = Size(c) * m
  BY DEF Framed
<1>6. \A j \in 1 .. m + 1 : j # m + 1 => j \in 1 .. m /\ done + j \in 1 .. Len(lines)
  <2>1. Len(lines) \in Nat /\ m \in Nat /\ done + m = Len(lines)
    BY <1>1, <1>4
  <2> HIDE DEF m
  <2>2. QED
    BY <2>1
<1>7. ASSUME NEW j \in 1 .. m + 1, NEW k \in 1 .. Size(c)
      PROVE  t[Size(c) * (j - 1) + k] = Encode(c, more[done + j])[k]
  <2>1. CASE j = m + 1
    <3>1. t[Len(s) + k] = e[k]
      BY <1>2, <1>3
    <3>2. j - 1 = m /\ done + j = Len(lines) + 1
      <4>1. done + m = Len(lines) /\ m \in Nat
        BY <1>4
      <4> HIDE DEF m
      <4>2. QED
        BY <4>1, <2>1
    <3>3. Size(c) * (j - 1) = Len(s)
      BY <1>5, <3>2
    <3>4. QED
      BY <1>1, <3>1, <3>2, <3>3 DEF e
  <2>2. CASE j # m + 1
    <3>1. j \in 1 .. m /\ done + j \in 1 .. Len(lines)
      BY <1>6, <2>2
    <3>2. Size(c) * (j - 1) + k \in 1 .. Size(c) * m
      <4> HIDE DEF m
      <4>1. QED
        BY <1>4, <3>1 DEF Size
    <3>3. t[Size(c) * (j - 1) + k] = s[Size(c) * (j - 1) + k]
      BY <1>3, <1>5, <3>2
    <3>4. s[Size(c) * (j - 1) + k] = Encode(c, lines[done + j])[k]
      BY <3>1 DEF Framed
    <3>5. QED
      BY <1>1, <3>1, <3>3, <3>4
  <2>3. QED
    BY <2>1, <2>2
<1>8. Len(t) = Size(c) * (m + 1)
  <2>1. Len(t) = Size(c) * m + Size(c)
    BY <1>2, <1>3, <1>5
  <2> HIDE DEF m
  <2>2. QED
    BY <1>4, <2>1 DEF Size
<1>9. Framed(c, t, more, done)
  BY <1>4, <1>7, <1>8 DEF Framed
<1>10. QED
  BY <1>9 DEF t, more, e

\* The first of the lines, and the others behind it.
LEMMA FramedByOneLess ==
  ASSUME NEW c, NEW s \in Seq(Bytes), NEW lines \in Seq(Lines), NEW done \in Nat,
         Framed(c, s, lines, done), s # <<>>
  PROVE  /\ done < Len(lines) /\ Len(s) >= Size(c)
         /\ \A k \in 1 .. Size(c) : s[k] = Encode(c, lines[done + 1])[k]
         /\ Framed(c, SubSeq(s, Size(c) + 1, Len(s)), lines, done + 1)
<1> DEFINE m == Len(lines) - done
           t == SubSeq(s, Size(c) + 1, Len(s))
<1>1. m \in Nat /\ Len(s) = Size(c) * m /\ Len(lines) \in Nat /\ Len(s) > 0
  BY DEF Framed
<1>2. m >= 1 /\ Len(s) >= Size(c) /\ done < Len(lines)
  BY <1>1 DEF Size
<1>3. \A k \in 1 .. Size(c) : s[k] = Encode(c, lines[done + 1])[k]
  <2>1. \A k \in 1 .. Size(c) : Size(c) * (1 - 1) + k = k
    BY DEF Size
  <2>2. 1 \in 1 .. m
    BY <1>1, <1>2
  <2>3. QED
    BY <2>1, <2>2 DEF Framed
<1>4. /\ Len(t) = Len(s) - Size(c)
      /\ \A n \in 1 .. Len(s) - Size(c) : t[n] = s[Size(c) + n]
  <2>1. Size(c) + 1 \in Nat \ {0} /\ Len(s) \in Nat /\ Size(c) + 1 <= Len(s) + 1
    BY <1>2, LenProperties DEF Size
  <2>2. /\ Len(t) = Len(s) - (Size(c) + 1) + 1
        /\ \A n \in 1 .. Len(s) - (Size(c) + 1) + 1 : t[n] = s[Size(c) + 1 + n - 1]
    BY <2>1, Piece
  <2> HIDE DEF t
  <2>3. QED
    BY <2>1, <2>2 DEF Size
<1> HIDE DEF t
<1>5. Len(lines) - (done + 1) = m - 1 /\ Len(t) = Size(c) * (m - 1)
  BY <1>1, <1>4 DEF Size
<1>6. ASSUME NEW j \in 1 .. m - 1, NEW k \in 1 .. Size(c)
      PROVE  t[Size(c) * (j - 1) + k] = Encode(c, lines[done + 1 + j])[k]
  <2>1. /\ Size(c) * (j - 1) + k \in 1 .. Len(s) - Size(c)
        /\ Size(c) + (Size(c) * (j - 1) + k) = Size(c) * ((j + 1) - 1) + k
    BY <1>1, <1>4, <1>5 DEF Size
  <2>2. j + 1 \in 1 .. m /\ done + (j + 1) = done + 1 + j
    BY <1>1
  <2>3. s[Size(c) * ((j + 1) - 1) + k] = Encode(c, lines[done + (j + 1)])[k]
    BY <2>2 DEF Framed
  <2>4. QED
    BY <1>4, <2>1, <2>2, <2>3
<1>7. Framed(c, t, lines, done + 1)
  BY <1>1, <1>2, <1>5, <1>6 DEF Framed
<1>8. QED
  BY <1>2, <1>3, <1>7 DEF t

\* A line of bytes is read back.
LEMMA DecodeEncoded ==
  ASSUME NEW c, NEW line \in Lines, NEW s \in Seq(Bytes), Len(s) >= Size(c),
         \A k \in 1 .. Size(c) : s[k] = Encode(c, line)[k]
  PROVE  Decode(SubSeq(s, 1, Size(c) - 1)) = line
<1> DEFINE b == Byte(line, 1)
           d == Byte(line, 2)
           u == SubSeq(s, 1, Size(c) - 1)
<1>1. /\ u \in Seq(Bytes) /\ Len(u) = Size(c) - 1
      /\ \A k \in 1 .. Size(c) - 1 : u[k] = s[k]
  <2>1. Size(c) - 1 \in Nat /\ Size(c) - 1 <= Len(s) /\ 1 <= Size(c) - 1 + 1
    BY LenProperties DEF Size
  <2>2. /\ u \in Seq(Bytes) /\ Len(u) = Size(c) - 1 - 1 + 1
        /\ \A k \in 1 .. Size(c) - 1 - 1 + 1 : u[k] = s[1 + k - 1]
    BY <2>1, Piece
  <2> HIDE DEF u
  <2>3. QED
    BY <2>1, <2>2 DEF Size
<1>2. s[1] = b /\ s[2] = d /\ (c \in EndsWithCR => s[3] = CR)
  BY EncodeShape DEF Size
<1>3. b \in Bytes /\ d \in Bytes /\ d # CR
  BY DEF Byte, Bytes, CR
<1> HIDE DEF u, b, d
<1>4. Chop(u) = <<b, d>>
  <2>1. CASE c \in EndsWithCR
    <3>1. Size(c) = 4 /\ Len(u) = 3 /\ u[1] = b /\ u[2] = d /\ Last(u) = CR
      BY <1>1, <1>2, <2>1 DEF Size, Last
    <3>2. Front(u) = SubSeq(u, 1, 2)
      BY <3>1 DEF Front
    <3>3. SubSeq(u, 1, 2) \in Seq(Bytes) /\ Len(SubSeq(u, 1, 2)) = 2
          /\ SubSeq(u, 1, 2)[1] = b /\ SubSeq(u, 1, 2)[2] = d
      BY <1>1, <3>1, Piece
    <3>4. SubSeq(u, 1, 2) = <<b, d>>
      BY <3>3, OnlyTwo
    <3>5. Len(u) > 0
      BY <3>1
    <3>6. u # <<>>
      BY <3>5, EmptyLen
    <3>7. QED
      BY <3>1, <3>2, <3>4, <3>6 DEF Chop
  <2>2. CASE c \notin EndsWithCR
    <3>1. Len(u) = 2 /\ u[1] = b /\ u[2] = d /\ Last(u) = d
      BY <1>1, <1>2, <2>2 DEF Size, Last
    <3>2. u = <<b, d>>
      BY <1>1, <3>1, OnlyTwo
    <3>3. QED
      BY <1>3, <3>1, <3>2 DEF Chop
  <2>3. QED
    BY <2>1, <2>2
<1>5. Head(u) = b
  <2>1. Len(u) >= 1 /\ u[1] = b
    BY <1>1, <1>2 DEF Size
  <2>2. QED
    BY <1>1, <2>1
<1>6. Decode(u) = line
  BY <1>4, <1>5 DEF Decode, b, d, Byte
<1>7. QED
  BY <1>6 DEF u

-----------------------------------------------------------------------------
(* Types. *)

LEMMA ConnectionInit == Init => TypeOK
BY EmptySeq DEF Init, TypeOK, InitialState

LEMMA EffectTyped ==
  ASSUME NEW line, TypeOK
  PROVE  /\ Effect(state, line) \in [paused : BOOLEAN, log_key_frequency : BOOLEAN,
                                    profile : {"first", "loaded"}, label : {"Pause", "Resume"}]
         /\ Clicked(state) \in [paused : BOOLEAN, log_key_frequency : BOOLEAN,
                                profile : {"first", "loaded"}, label : {"Pause", "Resume"}]
         /\ Reply(line) \in {"ok", "fail", "success"}
BY DEF Effect, Clicked, Reply, TypeOK

\* The bytes on their way to the handler or waiting in its buffer.
Way(c) == buffer[c] \o wire[c]

\* Bytes put together one way or the other.
LEMMA Joined ==
  ASSUME NEW x \in Seq(Bytes), NEW y \in Seq(Bytes), NEW z \in Seq(Bytes)
  PROVE  /\ x \o y \in Seq(Bytes) /\ Len(x) \in Nat /\ Len(y) \in Nat
         /\ Len(x \o y) = Len(x) + Len(y)
         /\ \A n \in 1 .. Len(x) : (x \o y)[n] = x[n]
         /\ (x \o y) \o z = x \o (y \o z)
<1>1. x \o y \in Seq(Bytes) /\ Len(x \o y) = Len(x) + Len(y)
  BY ConcatProperties
<1>2. Len(x) \in Nat /\ Len(y) \in Nat
  BY LenProperties
<1>3. \A n \in 1 .. Len(x) : (x \o y)[n] = x[n]
  BY <1>2, ConcatProperties
<1>4. (x \o y) \o z = x \o (y \o z)
  BY ConcatAssociative
<1>5. QED
  BY <1>1, <1>2, <1>3, <1>4

LEMMA RestOfJoined ==
  ASSUME NEW x \in Seq(Bytes), NEW y \in Seq(Bytes), NEW n \in Nat, n <= Len(x)
  PROVE  SubSeq(x, n + 1, Len(x)) \o y = SubSeq(x \o y, n + 1, Len(x \o y))
<1> DEFINE u == SubSeq(x, n + 1, Len(x))
           s == x \o y
           v == SubSeq(s, n + 1, Len(s))
<1>1. Len(x) \in Nat /\ Len(y) \in Nat /\ n + 1 \in Nat \ {0}
  BY LenProperties
<1>2. /\ s \in Seq(Bytes) /\ Len(s) = Len(x) + Len(y)
      /\ \A k \in 1 .. Len(x) + Len(y) : s[k] = IF k <= Len(x) THEN x[k] ELSE y[k - Len(x)]
  BY ConcatProperties
<1>3. /\ u \in Seq(Bytes) /\ Len(u) = Len(x) - n
      /\ \A k \in 1 .. Len(x) - n : u[k] = x[n + k]
  BY Remainder
<1> HIDE DEF s
<1>4. /\ v \in Seq(Bytes) /\ Len(v) = Len(s) - n
      /\ \A k \in 1 .. Len(s) - n : v[k] = s[n + k]
  <2>1. n <= Len(s)
    BY <1>1, <1>2
  <2>2. QED
    BY <1>2, <2>1, Remainder
<1> HIDE DEF u, v
<1>5. /\ u \o y \in Seq(Bytes) /\ Len(u \o y) = Len(u) + Len(y)
      /\ \A k \in 1 .. Len(u) + Len(y) : (u \o y)[k] = IF k <= Len(u) THEN u[k] ELSE y[k - Len(u)]
  BY <1>3, ConcatProperties
<1>6. Len(u \o y) = Len(v)
  BY <1>1, <1>2, <1>3, <1>4, <1>5
<1>7. ASSUME NEW k \in 1 .. Len(u \o y) PROVE (u \o y)[k] = v[k]
  <2>1. k \in 1 .. Len(x) - n + Len(y) /\ n + k \in 1 .. Len(x) + Len(y)
    BY <1>1, <1>3, <1>5
  <2>2. v[k] = IF n + k <= Len(x) THEN x[n + k] ELSE y[n + k - Len(x)]
    BY <1>1, <1>2, <1>4, <2>1
  <2>3. (u \o y)[k] = IF k <= Len(x) - n THEN x[n + k] ELSE y[k - (Len(x) - n)]
    BY <1>1, <1>3, <1>5, <2>1
  <2>4. k - (Len(x) - n) = n + k - Len(x) /\ (n + k <= Len(x) <=> k <= Len(x) - n)
    BY <1>1, <2>1
  <2>5. QED
    BY <2>2, <2>3, <2>4
<1>8. u \o y = v
  BY <1>4, <1>5, <1>6, <1>7, SeqEqual
<1>9. QED
  BY <1>8 DEF u, v, s

LEMMA WayTyped ==
  ASSUME TypeOK, NEW c \in Clients
  PROVE  /\ buffer[c] \in Seq(Bytes) /\ wire[c] \in Seq(Bytes) /\ Way(c) \in Seq(Bytes)
         /\ Len(buffer[c]) \in Nat /\ Len(wire[c]) \in Nat
         /\ Len(Way(c)) = Len(buffer[c]) + Len(wire[c])
         /\ \A n \in 1 .. Len(buffer[c]) : Way(c)[n] = buffer[c][n]
<1>1. buffer[c] \in Seq(Bytes) /\ wire[c] \in Seq(Bytes)
  BY DEF TypeOK
<1>2. QED
  BY <1>1, Joined DEF Way

\* readAll moves bytes from the one to the other.
LEMMA ReadKeepsWay ==
  ASSUME TypeOK, NEW c \in Clients, ReadData(c)
  PROVE  /\ buffer' \in [Clients -> Seq(Bytes)] /\ wire' \in [Clients -> Seq(Bytes)]
         /\ \A x \in Clients : Way(x)' = Way(x)
         /\ \A x \in Clients : x # c => buffer'[x] = buffer[x]
<1>1. PICK n \in 1 .. Len(wire[c]) :
        /\ buffer' = [buffer EXCEPT ![c] = @ \o SubSeq(wire[c], 1, n)]
        /\ wire' = [wire EXCEPT ![c] = SubSeq(@, n + 1, Len(@))]
  BY DEF ReadData
<1> DEFINE b == buffer[c]
           w == wire[c]
           v == SubSeq(w, 1, n)
           u == SubSeq(w, n + 1, Len(w))
<1>2. b \in Seq(Bytes) /\ w \in Seq(Bytes) /\ Len(w) \in Nat
  BY WayTyped
<1>3. v \in Seq(Bytes) /\ u \in Seq(Bytes)
  BY <1>2, Piece
<1>4. v \o u = w
  <2>1. 1 \in 1 .. Len(w) + 1 /\ n \in 1 - 1 .. Len(w) /\ Len(w) \in n .. Len(w)
    BY <1>2
  <2>2. v \o u = SubSeq(w, 1, Len(w))
    BY <1>2, <2>1, ConcatAdjacentSubSeq
  <2>3. QED
    BY <1>2, <2>2, SubSeqFull
<1>5. /\ \A x \in Clients : buffer'[x] = IF x = c THEN b \o v ELSE buffer[x]
      /\ \A x \in Clients : wire'[x] = IF x = c THEN u ELSE wire[x]
  BY <1>1 DEF TypeOK
<1> HIDE DEF b, v, u
<1>6. b \o v \in Seq(Bytes) /\ (b \o v) \o u = b \o w
  <2>1. b \o v \in Seq(Bytes)
    BY <1>2, <1>3, ConcatProperties
  <2>2. (b \o v) \o u = b \o (v \o u)
    BY <1>2, <1>3, Joined
  <2>3. QED
    BY <1>4, <2>1, <2>2
<1>7. ASSUME NEW x \in Clients PROVE Way(x)' = Way(x)
  BY <1>5, <1>6 DEF Way, b
<1>8. buffer' \in [Clients -> Seq(Bytes)] /\ wire' \in [Clients -> Seq(Bytes)]
  BY <1>1, <1>3, <1>5, <1>6 DEF TypeOK
<1>9. QED
  BY <1>5, <1>7, <1>8

LEMMA WriteWay ==
  ASSUME TypeOK, NEW c \in Clients, NEW line \in Says[c], Write(c, line)
  PROVE  /\ line \in Lines
         /\ wire' \in [Clients -> Seq(Bytes)] /\ sent' \in [Clients -> Seq(Lines)]
         /\ sent'[c] = Append(sent[c], line) /\ Way(c)' = Way(c) \o Encode(c, line)
         /\ \A x \in Clients : x # c => sent'[x] = sent[x] /\ Way(x)' = Way(x)
<1>1. line \in Lines
  BY SaysAssumption
<1>2. /\ sent' = [sent EXCEPT ![c] = Append(@, line)]
      /\ wire' = [wire EXCEPT ![c] = @ \o Encode(c, line)]
      /\ UNCHANGED buffer
  BY DEF Write
<1>3. Encode(c, line) \in Seq(Bytes)
  BY <1>1, EncodeShape
<1>4. buffer[c] \in Seq(Bytes) /\ wire[c] \in Seq(Bytes) /\ sent[c] \in Seq(Lines)
  BY DEF TypeOK
<1>5. wire[c] \o Encode(c, line) \in Seq(Bytes)
  BY <1>3, <1>4, ConcatProperties
<1>6. buffer[c] \o (wire[c] \o Encode(c, line)) = (buffer[c] \o wire[c]) \o Encode(c, line)
  BY <1>3, <1>4, Joined
<1>7. Append(sent[c], line) \in Seq(Lines)
  BY <1>1, <1>4, AppendProperties
<1>8. wire' \in [Clients -> Seq(Bytes)] /\ sent' \in [Clients -> Seq(Lines)]
  BY <1>2, <1>5, <1>7 DEF TypeOK
<1>9. /\ sent'[c] = Append(sent[c], line) /\ wire'[c] = wire[c] \o Encode(c, line)
      /\ \A x \in Clients : x # c => sent'[x] = sent[x] /\ wire'[x] = wire[x]
  BY <1>2 DEF TypeOK
<1>10. QED
  BY <1>1, <1>2, <1>6, <1>8, <1>9 DEF Way

-----------------------------------------------------------------------------
(* What a buffer and a wire hold are the lines not answered yet. *)

LinesFramed == \A c \in Clients : Framed(c, Way(c), sent[c], Len(answers[c]))

\* The first line feed, where the handler looks for it.
LEMMA FirstLineFeed ==
  ASSUME TypeOK, LinesFramed, NEW c \in Clients
  PROVE  \/ newline_index(c) = 0 /\ \A i \in DOMAIN buffer[c] : buffer[c][i] # LF
         \/ newline_index(c) = Size(c) /\ Len(buffer[c]) >= Size(c)
<1> DEFINE I == {i \in 1 .. Len(buffer[c]) : buffer[c][i] = LF}
<1>1. newline_index(c) = IF I # {} THEN Min(I) ELSE 0
  BY DEF newline_index, SelectInSeq
<1>2. CASE I = {}
  <2>1. DOMAIN buffer[c] = 1 .. Len(buffer[c])
    BY WayTyped, LenProperties
  <2>2. QED
    BY <1>1, <1>2, <2>1
<1>3. CASE I # {}
  <2>1. PICK i \in 1 .. Len(buffer[c]) : buffer[c][i] = LF
    BY <1>3
  <2>2. /\ Framed(c, Way(c), sent[c], Len(answers[c])) /\ Way(c) # <<>>
        /\ Way(c) \in Seq(Bytes) /\ sent[c] \in Seq(Lines) /\ Len(answers[c]) \in Nat
    <3>1. Len(buffer[c]) \in Nat /\ Len(wire[c]) \in Nat
          /\ Len(Way(c)) = Len(buffer[c]) + Len(wire[c])
      BY WayTyped
    <3>2. Len(buffer[c]) >= 1
      BY <3>1
    <3>3. Len(Way(c)) > 0
      <4>1. \A p, q \in Nat : p >= 1 => p + q > 0
        OBVIOUS
      <4>2. QED
        BY <3>1, <3>2, <4>1
    <3>4. Len(Way(c)) > 0 /\ Way(c) \in Seq(Bytes)
      BY <3>3, WayTyped
    <3>5. Way(c) # <<>>
      BY <3>4, EmptyLen
    <3>6. answers[c] \in Seq({"ok", "fail", "success"}) /\ sent[c] \in Seq(Lines)
      BY DEF TypeOK
    <3>7. QED
      BY <3>4, <3>5, <3>6, LenProperties DEF LinesFramed
  <2>3. /\ Len(answers[c]) < Len(sent[c]) /\ Len(Way(c)) >= Size(c)
        /\ \A k \in 1 .. Size(c) : Way(c)[k] = Encode(c, sent[c][Len(answers[c]) + 1])[k]
    <3> DEFINE s == Way(c)
               lines == sent[c]
               done == Len(answers[c])
    <3>1. s \in Seq(Bytes) /\ lines \in Seq(Lines) /\ done \in Nat /\ s # <<>>
          /\ Framed(c, s, lines, done)
      BY <2>2
    <3> HIDE DEF s, lines, done
    <3>2. /\ done < Len(lines) /\ Len(s) >= Size(c)
          /\ \A k \in 1 .. Size(c) : s[k] = Encode(c, lines[done + 1])[k]
      BY <3>1, FramedByOneLess
    <3>3. QED
      BY <3>2 DEF s, lines, done
  <2>4. sent[c][Len(answers[c]) + 1] \in Lines
    BY <2>2, <2>3, ElementOfSeq, LenProperties
  <2>5. /\ Way(c)[Size(c)] = LF
        /\ \A k \in 1 .. Size(c) - 1 : Way(c)[k] # LF
    BY <2>3, <2>4, EncodeShape DEF Size
  <2>6. \A n \in I : n \in Nat /\ n >= Size(c) /\ n <= Len(buffer[c])
    <3>1. \A n \in 1 .. Len(buffer[c]) : Way(c)[n] = buffer[c][n]
      BY WayTyped
    <3>2. Len(buffer[c]) \in Nat /\ Size(c) \in {3, 4}
      BY WayTyped DEF Size
    <3>3. QED
      BY <2>5, <3>1, <3>2
  <2>7. Size(c) \in I
    <3>1. \A n \in 1 .. Len(buffer[c]) : Way(c)[n] = buffer[c][n]
      BY WayTyped
    <3>2. Size(c) \in 1 .. Len(buffer[c])
      BY <2>1, <2>6 DEF Size
    <3>3. QED
      BY <2>5, <3>1, <3>2
  <2> HIDE DEF I
  <2>8. \A x \in I : (\A y \in I : x <= y) => x = Size(c)
    BY <2>6, <2>7 DEF Size
  <2>9. Size(c) \in I /\ \A y \in I : Size(c) <= y
    BY <2>6, <2>7
  <2>10. Min(I) = Size(c)
    BY <2>8, <2>9 DEF Min
  <2>11. QED
    BY <1>1, <1>3, <2>6, <2>7, <2>10
<1>4. QED
  BY <1>2, <1>3

-----------------------------------------------------------------------------
\* One line is taken from the buffer and answered.
LEMMA HandleServes ==
  ASSUME TypeOK, LinesFramed, HandleLine, current \in Clients
  PROVE  LET c == current
             n == Len(answers[c])
             line == sent[c][n + 1] IN
         /\ n \in Nat /\ n < Len(sent[c]) /\ line \in Lines
         /\ \/ line \in Fatal /\ alive' = FALSE /\ UNCHANGED <<answers, state, buffer>>
            \/ /\ line \notin Fatal /\ UNCHANGED alive
               /\ answers' = [answers EXCEPT ![c] = Append(@, Reply(line))]
               /\ state' = Effect(state, line)
               /\ buffer' = [buffer EXCEPT ![c] = SubSeq(@, Size(c) + 1, Len(@))]
         /\ Len(buffer[c]) >= Size(c)
         /\ Framed(c, SubSeq(Way(c), Size(c) + 1, Len(Way(c))), sent[c], n + 1)
<1> DEFINE c == current
           n == Len(answers[c])
           line == sent[c][n + 1]
           b == buffer[c]
           s == Way(c)
           lines == sent[c]
<1>1. newline_index(c) = Size(c) /\ Len(b) >= Size(c)
  BY FirstLineFeed DEF HandleLine
<1>2. /\ s \in Seq(Bytes) /\ b \in Seq(Bytes) /\ lines \in Seq(Lines) /\ n \in Nat
      /\ Len(s) >= Len(b) /\ \A k \in 1 .. Len(b) : s[k] = b[k]
  <2>1. answers[c] \in Seq({"ok", "fail", "success"}) /\ sent[c] \in Seq(Lines)
    BY DEF TypeOK
  <2>2. n \in Nat
    BY <2>1, LenProperties
  <2>3. /\ s \in Seq(Bytes) /\ b \in Seq(Bytes)
        /\ \A k \in 1 .. Len(b) : s[k] = b[k]
    BY WayTyped
  <2>4. Len(b) \in Nat /\ Len(wire[c]) \in Nat /\ Len(s) = Len(b) + Len(wire[c])
    BY WayTyped
  <2>5. Len(s) >= Len(b)
    <3>1. \A p, q \in Nat : p + q >= p
      OBVIOUS
    <3>2. QED
      BY <2>4, <3>1
  <2>6. QED
    BY <2>1, <2>2, <2>3, <2>5
<1>3. Framed(c, s, lines, n)
  BY DEF LinesFramed
<1>4. HandleLine
  OBVIOUS
<1>5. s # <<>>
  <2>1. Len(b) \in Nat /\ Len(s) >= Len(b)
    BY <1>2, WayTyped
  <2>2. Len(s) > 0
    BY <1>1, <2>1 DEF Size
  <2>3. QED
    BY <2>2, EmptyLen
<1> HIDE DEF s, lines, n, b
<1>6. /\ n < Len(lines) /\ Len(s) >= Size(c)
      /\ \A k \in 1 .. Size(c) : s[k] = Encode(c, lines[n + 1])[k]
      /\ Framed(c, SubSeq(s, Size(c) + 1, Len(s)), lines, n + 1)
  BY <1>2, <1>3, <1>5, FramedByOneLess
<1>7. lines[n + 1] \in Lines
  BY <1>2, <1>6, ElementOfSeq, LenProperties
<1>8. Decode(SubSeq(b, 1, Size(c) - 1)) = lines[n + 1]
  <2>1. \A k \in 1 .. Size(c) : b[k] = Encode(c, lines[n + 1])[k]
    <3>1. \A k \in 1 .. Size(c) : k \in 1 .. Len(b)
      <4>1. Len(b) \in Nat
        BY <1>2, LenProperties
      <4>2. QED
        BY <1>1, <4>1 DEF Size
    <3>2. QED
      BY <1>2, <1>6, <3>1
  <2>2. QED
    BY <1>1, <1>2, <1>7, <2>1, DecodeEncoded
<1>9. \/ line \in Fatal /\ alive' = FALSE /\ UNCHANGED <<answers, state, buffer>>
      \/ /\ line \notin Fatal /\ UNCHANGED alive
         /\ answers' = [answers EXCEPT ![c] = Append(@, Reply(line))]
         /\ state' = Effect(state, line)
         /\ buffer' = [buffer EXCEPT ![c] = SubSeq(@, Size(c) + 1, Len(@))]
  BY <1>1, <1>4, <1>8 DEF HandleLine, b, n, lines
<1>10. QED
  BY <1>1, <1>2, <1>6, <1>7, <1>9 DEF n, lines, s, b

LEMMA ConnectionStep ==
  ASSUME TypeOK, LinesFramed, [Next]_vars
  PROVE  TypeOK' /\ LinesFramed'
<1>1. ASSUME NEW c \in Clients, NEW line \in Says[c], Write(c, line)
      PROVE  TypeOK' /\ LinesFramed'
  <2>1. /\ line \in Lines
        /\ wire' \in [Clients -> Seq(Bytes)] /\ sent' \in [Clients -> Seq(Lines)]
        /\ sent'[c] = Append(sent[c], line) /\ Way(c)' = Way(c) \o Encode(c, line)
        /\ \A x \in Clients : x # c => sent'[x] = sent[x] /\ Way(x)' = Way(x)
    BY <1>1, WriteWay
  <2>2. UNCHANGED <<socket, buffer, current, answers, state, alive>>
    BY <1>1 DEF Write
  <2>3. TypeOK'
    BY <2>1, <2>2 DEF TypeOK
  <2>4. Framed(c, Way(c)', sent'[c], Len(answers[c]))
    <3>1. /\ Way(c) \in Seq(Bytes) /\ sent[c] \in Seq(Lines) /\ Len(answers[c]) \in Nat
          /\ Framed(c, Way(c), sent[c], Len(answers[c]))
      <4>1. answers[c] \in Seq({"ok", "fail", "success"}) /\ sent[c] \in Seq(Lines)
        BY DEF TypeOK
      <4>2. QED
        BY <4>1, LenProperties, WayTyped DEF LinesFramed
    <3>2. Framed(c, Way(c) \o Encode(c, line), Append(sent[c], line), Len(answers[c]))
      BY <2>1, <3>1, FramedByOneMore
    <3>3. QED
      BY <2>1, <3>2
  <2>5. LinesFramed'
    BY <2>1, <2>2, <2>4 DEF LinesFramed
  <2>6. QED
    BY <2>3, <2>5
<1>2. ASSUME NEW c \in Clients, ReadData(c) PROVE TypeOK' /\ LinesFramed'
  <2>1. UNCHANGED <<sent, socket, answers, state, alive>> /\ current' = c
    BY <1>2 DEF ReadData
  <2>2. QED
    BY <1>2, <2>1, ReadKeepsWay DEF TypeOK, LinesFramed
<1>3. CASE HandleLine
  <2> DEFINE c == current
             n == Len(answers[c])
             line == sent[c][n + 1]
             b == buffer[c]
             u == SubSeq(b, Size(c) + 1, Len(b))
  <2>1. current \in Clients /\ UNCHANGED <<sent, wire, socket, current>>
    BY <1>3 DEF HandleLine, TypeOK
  <2>2. CASE UNCHANGED <<answers, state, buffer>>
    <3>1. alive' \in BOOLEAN
      BY <1>3 DEF HandleLine, TypeOK
    <3>2. \A x \in Clients : Way(x)' = Way(x)
      BY <2>1, <2>2 DEF Way
    <3>3. QED
      BY <2>1, <2>2, <3>1, <3>2 DEF TypeOK, LinesFramed
  <2>3. CASE /\ answers' = [answers EXCEPT ![c] = Append(@, Reply(line))]
             /\ state' = Effect(state, line) /\ UNCHANGED alive
             /\ buffer' = [buffer EXCEPT ![c] = SubSeq(@, Size(c) + 1, Len(@))]
    <3>1. /\ Len(b) >= Size(c)
          /\ Framed(c, SubSeq(Way(c), Size(c) + 1, Len(Way(c))), sent[c], n + 1)
      BY <1>3, <2>1, HandleServes
    <3>2. b \in Seq(Bytes) /\ wire[c] \in Seq(Bytes) /\ Len(b) \in Nat /\ Size(c) \in {3, 4}
      BY <2>1, WayTyped DEF Size
    <3>3. u \in Seq(Bytes)
      BY <3>1, <3>2, Piece
    <3>4. Append(answers[c], Reply(line)) \in Seq({"ok", "fail", "success"})
          /\ Len(Append(answers[c], Reply(line))) = n + 1
      <4>1. answers[c] \in Seq({"ok", "fail", "success"})
        BY <2>1 DEF TypeOK
      <4>2. QED
        BY <4>1, EffectTyped, AppendProperties
    <3>5. TypeOK'
      BY <2>1, <2>3, <3>3, <3>4, EffectTyped DEF TypeOK
    <3>6. /\ buffer'[c] = u /\ Len(answers'[c]) = n + 1
          /\ \A x \in Clients : x # c => buffer'[x] = buffer[x] /\ answers'[x] = answers[x]
      BY <2>1, <2>3, <3>4 DEF TypeOK
    <3>7. Way(c)' = SubSeq(Way(c), Size(c) + 1, Len(Way(c)))
      <4>1. u \o wire[c] = SubSeq(b \o wire[c], Size(c) + 1, Len(b \o wire[c]))
        <5>1. b \in Seq(Bytes) /\ wire[c] \in Seq(Bytes)
          BY <3>2
        <5>2. Size(c) \in Nat /\ Size(c) <= Len(b)
          BY <3>1, <3>2
        <5> HIDE DEF b, u, c
        <5>3. SubSeq(b, Size(c) + 1, Len(b)) \o wire[c]
                = SubSeq(b \o wire[c], Size(c) + 1, Len(b \o wire[c]))
          BY <5>1, <5>2, RestOfJoined
        <5>4. QED
          BY <5>3 DEF u
      <4>2. Way(c)' = u \o wire[c]
        BY <2>1, <3>6 DEF Way
      <4>3. QED
        BY <4>1, <4>2 DEF Way
    <3>8. \A x \in Clients : x # c => Way(x)' = Way(x)
      BY <2>1, <3>6 DEF Way
    <3>9. LinesFramed'
      BY <2>1, <3>1, <3>6, <3>7, <3>8 DEF LinesFramed
    <3>10. QED
      BY <3>5, <3>9
  <2>4. QED
    BY <1>3, <2>1, <2>2, <2>3, HandleServes
<1>4. CASE \/ ReadDone \/ Click \/ \E c \in Clients : HangUp(c) \/ Disconnected(c)
           \/ UNCHANGED vars
  <2>1. UNCHANGED <<sent, wire, buffer, answers, alive>>
    BY <1>4 DEF ReadDone, Click, HangUp, Disconnected, connection, vars
  <2>2. \A x \in Clients : Way(x)' = Way(x)
    BY <2>1 DEF Way
  <2>3. current' \in Clients \cup {None}
    BY <1>4 DEF ReadDone, Click, HangUp, Disconnected, connection, vars, TypeOK
  <2>4. socket' \in [Clients -> {"open", "closing", "closed"}]
    BY <1>4 DEF ReadDone, Click, HangUp, Disconnected, connection, vars, TypeOK
  <2>5. state' = state \/ state' = Clicked(state)
    BY <1>4 DEF ReadDone, Click, HangUp, Disconnected, connection, vars
  <2>6. TypeOK'
    BY <2>1, <2>3, <2>4, <2>5, EffectTyped DEF TypeOK
  <2>7. LinesFramed'
    BY <2>1, <2>2 DEF LinesFramed
  <2>8. QED
    BY <2>6, <2>7
<1>5. QED
  BY <1>1, <1>2, <1>3, <1>4 DEF Next

LEMMA FramesInit == Init => LinesFramed
<1> SUFFICES ASSUME Init, NEW c \in Clients
             PROVE  Framed(c, Way(c), sent[c], Len(answers[c]))
  BY DEF LinesFramed
<1>1. /\ sent[c] = <<>> /\ answers[c] = <<>> /\ buffer[c] = <<>> /\ wire[c] = <<>>
  BY DEF Init
<1>2. Way(c) = <<>>
  BY <1>1 DEF Way
<1>3. QED
  BY <1>1, <1>2 DEF Framed, Size

LEMMA ConnectionAlways == Spec => [](TypeOK /\ LinesFramed)
<1>1. TypeOK /\ LinesFramed /\ [Next]_vars => (TypeOK /\ LinesFramed)'
  BY ConnectionStep
<1>2. QED
  BY ConnectionInit, FramesInit, <1>1, PTL DEF Spec

\* The connections keep their types, whatever is written in whatever pieces.
THEOREM ConnectionTypes == Spec => []TypeOK
BY ConnectionAlways, PTL

-----------------------------------------------------------------------------
(* Nothing waits in a buffer that the handler could treat. *)

\* Only the buffer the handler is at may hold a whole line.
OthersTreated ==
  alive => \A c \in Clients : c # current => \A i \in DOMAIN buffer[c] : buffer[c][i] # LF

LEMMA TreatedStep ==
  ASSUME TypeOK, LinesFramed, OthersTreated, [Next]_vars
  PROVE  OthersTreated'
<1>1. ASSUME NEW c \in Clients, ReadData(c) PROVE OthersTreated'
  <2>1. alive /\ current = None /\ current' = c
    BY <1>1 DEF ReadData, MainIdle
  <2>2. \A x \in Clients : x # c => buffer'[x] = buffer[x]
    BY <1>1, ReadKeepsWay
  <2>3. \A x \in Clients : x # current
    BY <2>1, ClientsAssumption
  <2>4. QED
    BY <2>1, <2>2, <2>3 DEF OthersTreated
<1>2. CASE HandleLine
  <2>1. current \in Clients /\ UNCHANGED current
    BY <1>2 DEF HandleLine, TypeOK
  <2>2. alive' => \A x \in Clients : x # current => buffer'[x] = buffer[x]
    BY <1>2, <2>1, HandleServes DEF TypeOK
  <2>3. alive
    BY <1>2 DEF HandleLine
  <2>4. QED
    BY <2>1, <2>2, <2>3 DEF OthersTreated
<1>3. CASE ReadDone
  <2>1. /\ alive /\ current \in Clients /\ newline_index(current) = 0
        /\ UNCHANGED <<buffer, alive>>
    BY <1>3 DEF ReadDone, connection, TypeOK
  <2>2. \A i \in DOMAIN buffer[current] : buffer[current][i] # LF
    BY <2>1, FirstLineFeed DEF Size
  <2>3. QED
    BY <2>1, <2>2 DEF OthersTreated
<1>4. CASE \/ Click
           \/ \E c \in Clients :
                HangUp(c) \/ Disconnected(c) \/ \E line \in Says[c] : Write(c, line)
           \/ UNCHANGED vars
  <2>1. UNCHANGED <<buffer, alive, current>>
    BY <1>4 DEF Click, HangUp, Disconnected, Write, connection, vars
  <2>2. QED
    BY <2>1 DEF OthersTreated
<1>5. QED
  BY <1>1, <1>2, <1>3, <1>4 DEF Next

\* However the lines are cut into pieces and however the clients alternate, no
\* line that has arrived waits when no handler runs (local_server.cpp:73-77).
THEOREM EveryLineIsTreated == Spec => []NoLineLeftBehind
<1>1. Init => OthersTreated
  BY DEF Init, OthersTreated
<1>2. TypeOK /\ LinesFramed /\ OthersTreated /\ [Next]_vars => OthersTreated'
  BY TreatedStep
<1>3. OthersTreated => NoLineLeftBehind
  BY ClientsAssumption DEF OthersTreated, NoLineLeftBehind
<1>4. QED
  BY <1>1, <1>2, <1>3, ConnectionAlways, PTL DEF Spec

-----------------------------------------------------------------------------
(* The connections implement the server that is promised. *)

LEMMA ServerStep ==
  ASSUME TypeOK, LinesFramed, [Next]_vars
  PROVE  [Promise!Next]_(Promise!vars)
<1>1. ASSUME NEW c \in Clients, NEW line \in Says[c], Write(c, line) PROVE Promise!Next
  <2>1. Promise!Request(c, line)
    BY <1>1 DEF Write, Promise!Request
  <2>2. line \in Lines
    BY SaysAssumption
  <2>3. QED
    BY <2>1, <2>2 DEF Promise!Next
<1>2. CASE HandleLine
  <2>1. current \in Clients /\ alive /\ UNCHANGED sent
    BY <1>2 DEF HandleLine, TypeOK
  <2>2. Promise!Serve(current)
    BY <1>2, <2>1, HandleServes DEF Promise!Serve, Promise!Pending
  <2>3. QED
    BY <2>1, <2>2 DEF Promise!Next
<1>3. CASE Click
  <2>1. Promise!Click
    BY <1>3 DEF Click, MainIdle, Promise!Click
  <2>2. QED
    BY <2>1 DEF Promise!Next
<1>4. CASE \/ ReadDone
           \/ \E c \in Clients : ReadData(c) \/ HangUp(c) \/ Disconnected(c)
           \/ UNCHANGED vars
  BY <1>4 DEF ReadDone, ReadData, HangUp, Disconnected, vars, Promise!vars
<1>5. QED
  BY <1>1, <1>2, <1>3, <1>4 DEF Next

\* Whatever pieces the lines come in and however the clients' pieces
\* alternate, every line is answered once, in order, and the program is in the
\* state the answered lines put it in: every step of the connections is a step
\* of the promised server or none (local_server.cpp:70-130, tray.cpp:20-28).
THEOREM ConnectionsAreServer == Spec => Promise!Init /\ [][Promise!Next]_(Promise!vars)
<1>1. Init => Promise!Init
  BY DEF Init, Promise!Init
<1>2. TypeOK /\ LinesFramed /\ [Next]_vars => [Promise!Next]_(Promise!vars)
  BY ServerStep
<1>3. QED
  BY <1>1, <1>2, ConnectionAlways, PTL DEF Spec

-----------------------------------------------------------------------------
(* The file of the latest profile, for every set of profiles, every fate    *)
(* they have, and any number of failed saves and crashes.                   *)

\* What is known between from_json and set_profile: the document at hand is
\* the one parsed last, the file is being written, or it holds that document.
SaveInv ==
  /\ main \in {"open", "write", "install"} =>
       /\ loading = accepted /\ loading \in Profiles
       /\ Fate[loading] # "malformed"
  /\ main = "write" => disk = Partial
  /\ main = "install" /\ ~cut => disk = loading

StoreInv ==
  /\ StoreTypeOK /\ SaveInv
  /\ LatestIsOnDisk /\ DiskIsReadable /\ InstalledIsGood

LEMMA InitStore ==
  ASSUME StoreInit
  PROVE  StoreInv
<1> USE StoreAssumption DEF StoreAssumption, StoreInit
<1>1. StoreTypeOK
  <2>1. cut \in BOOLEAN /\ client \in BOOLEAN
    BY Zenon
  <2>2. failures \in 0 .. MaxFailures /\ crashes \in 0 .. MaxCrashes
    BY SMT
  <2> QED BY <2>1, <2>2 DEF StoreTypeOK
<1>2. SaveInv /\ LatestIsOnDisk
  BY DEF SaveInv, LatestIsOnDisk
<1>3. DiskIsReadable /\ InstalledIsGood
  BY DEF DiskIsReadable, InstalledIsGood
<1> QED BY <1>1, <1>2, <1>3 DEF StoreInv

LEMMA FromJsonStore ==
  ASSUME StoreInv, NEW p \in Profiles, FromJson(p),
         main \in {"down", "running"}, UNCHANGED <<disk, cut, installed, failures, crashes>>,
         client' \in BOOLEAN, UNCHANGED answer
  PROVE  StoreInv'
<1>1. /\ main' = "open" /\ loading' = p /\ accepted' = p
      /\ p \in Profiles /\ Fate[p] # "malformed"
  BY DEF FromJson, Parses
<1>2. StoreTypeOK'
  BY <1>1 DEF StoreInv, StoreTypeOK
<1>3. SaveInv' /\ LatestIsOnDisk'
  BY <1>1 DEF SaveInv, LatestIsOnDisk
<1>4. DiskIsReadable' /\ InstalledIsGood'
  BY DEF StoreInv, DiskIsReadable, InstalledIsGood
<1> QED BY <1>2, <1>3, <1>4 DEF StoreInv

LEMMA EndsStore ==
  ASSUME StoreInv, Ends, UNCHANGED <<disk, accepted, failures>>,
         crashes' \in 0 .. MaxCrashes,
         cut' \in BOOLEAN, ~cut' => ~cut /\ main \in {"down", "install", "running"}
  PROVE  StoreInv'
<1> USE StoreAssumption DEF StoreAssumption, Ends
<1>1. StoreTypeOK'
  BY DEF StoreInv, StoreTypeOK
<1>2. SaveInv'
  BY DEF SaveInv
<1>3. LatestIsOnDisk'
  BY DEF StoreInv, SaveInv, LatestIsOnDisk
<1>4. DiskIsReadable' /\ InstalledIsGood'
  BY DEF StoreInv, DiskIsReadable, InstalledIsGood
<1> QED BY <1>1, <1>2, <1>3, <1>4 DEF StoreInv

LEMMA StepStore ==
  ASSUME StoreInv, [StoreNext]_storeVars
  PROVE  StoreInv'
<1> USE StoreAssumption DEF StoreAssumption
<1>1. CASE StartLatest
  <2>1. CASE LatestUsable /\ FromJson(disk) /\ UNCHANGED installed
    BY <1>1, <2>1, FromJsonStore DEF StartLatest, LatestUsable, StoreInv, StoreTypeOK
  <2>2. CASE ~LatestUsable /\ main' = "running" /\ installed' = Default
             /\ UNCHANGED <<loading, accepted>>
    BY <1>1, <2>2 DEF StartLatest, StoreInv, StoreTypeOK, SaveInv, LatestIsOnDisk,
      DiskIsReadable, InstalledIsGood
  <2> QED BY <1>1, <2>1, <2>2 DEF StartLatest
<1>2. CASE OpenLatest
  <2>1. StoreTypeOK'
    <3>1. cut \in BOOLEAN
      BY DEF StoreInv, StoreTypeOK
    <3>2. cut' \in BOOLEAN
      BY <1>2, <3>1, Zenon DEF OpenLatest, SaveFails
    <3>3. failures' \in 0 .. MaxFailures /\ crashes' \in 0 .. MaxCrashes
      BY <1>2 DEF OpenLatest, SaveFails, StoreInv, StoreTypeOK
    <3> QED BY <1>2, <3>2, <3>3 DEF OpenLatest, StoreInv, StoreTypeOK
  <2>2. SaveInv'
    <3>1. CASE disk' = Partial /\ main' = "write"
      BY <1>2, <3>1 DEF OpenLatest, StoreInv, SaveInv
    <3>2. CASE main' = "install" /\ cut' = TRUE
      BY <1>2, <3>2 DEF OpenLatest, StoreInv, SaveInv
    <3> QED BY <1>2, <3>1, <3>2 DEF OpenLatest, SaveFails
  <2>3. LatestIsOnDisk'
    BY <1>2 DEF OpenLatest, LatestIsOnDisk
  <2>4. DiskIsReadable' /\ InstalledIsGood'
    BY <1>2 DEF OpenLatest, StoreInv, DiskIsReadable, InstalledIsGood
  <2> QED BY <2>1, <2>2, <2>3, <2>4 DEF StoreInv
<1>3. CASE WriteLatest
  <2>1. StoreTypeOK'
    <3>1. cut \in BOOLEAN
      BY DEF StoreInv, StoreTypeOK
    <3>2. cut' \in BOOLEAN
      BY <1>3, <3>1, Zenon DEF WriteLatest, SaveFails
    <3>3. failures' \in 0 .. MaxFailures /\ crashes' \in 0 .. MaxCrashes
      BY <1>3 DEF WriteLatest, SaveFails, StoreInv, StoreTypeOK
    <3> QED BY <1>3, <3>2, <3>3 DEF WriteLatest, StoreInv, StoreTypeOK, SaveInv
  <2>2. SaveInv' /\ LatestIsOnDisk'
    <3>1. CASE disk' = loading
      BY <1>3, <3>1 DEF WriteLatest, StoreInv, SaveInv, LatestIsOnDisk
    <3>2. CASE cut' = TRUE
      BY <1>3, <3>2 DEF WriteLatest, StoreInv, SaveInv, LatestIsOnDisk
    <3> QED BY <1>3, <3>1, <3>2 DEF WriteLatest, SaveFails
  <2>3. DiskIsReadable' /\ InstalledIsGood'
    BY <1>3 DEF WriteLatest, StoreInv, SaveInv, DiskIsReadable, InstalledIsGood
  <2> QED BY <2>1, <2>2, <2>3 DEF StoreInv
<1>4. CASE Install
  <2>1. CASE Fate[loading] = "fatal"
    BY <1>4, <2>1, EndsStore DEF Install, history, StoreInv, StoreTypeOK
  <2>2. CASE Fate[loading] # "fatal"
    BY <1>4, <2>2 DEF Install, Accepts, Answered, history, StoreInv,
      StoreTypeOK, SaveInv, LatestIsOnDisk, DiskIsReadable, InstalledIsGood
  <2> QED BY <2>1, <2>2
<1>5. CASE FirstKey \/ Exit
  BY <1>5, EndsStore DEF FirstKey, Exit, history, StoreInv, StoreTypeOK
<1>6. CASE Crash
  <2>1. crashes' \in 0 .. MaxCrashes
    BY <1>6 DEF Crash, StoreInv, StoreTypeOK
  <2>2. main \in {"open", "write", "install", "running"}
    BY <1>6 DEF Crash, StoreInv, StoreTypeOK
  <2>3. cut' \in BOOLEAN /\ (~cut' => ~cut /\ main \notin {"open", "write"})
    BY <1>6, Zenon DEF Crash
  <2>4. ~cut' => ~cut /\ main \in {"down", "install", "running"}
    BY <2>2, <2>3
  <2> QED BY <1>6, <2>1, <2>3, <2>4, EndsStore DEF Crash
<1>7. ASSUME NEW p \in Profiles, StartWith(p) PROVE StoreInv'
  BY <1>7, FromJsonStore DEF StartWith, StoreInv, StoreTypeOK
<1>8. ASSUME NEW p \in Profiles, LoadProfile(p) PROVE StoreInv'
  <2>1. CASE FromJson(p) /\ client' = TRUE /\ UNCHANGED answer
    BY <1>8, <2>1, FromJsonStore DEF LoadProfile
  <2>2. CASE ~Parses(p) /\ answer' = "fail" /\ UNCHANGED <<main, loading, client, accepted>>
    BY <1>8, <2>2 DEF LoadProfile, StoreInv, StoreTypeOK, SaveInv, LatestIsOnDisk,
      DiskIsReadable, InstalledIsGood
  <2> QED BY <1>8, <2>1, <2>2 DEF LoadProfile
<1>9. CASE UNCHANGED storeVars
  BY <1>9 DEF storeVars, process, history, StoreInv, StoreTypeOK, SaveInv,
    LatestIsOnDisk, DiskIsReadable, InstalledIsGood
<1> QED
  BY <1>1, <1>2, <1>3, <1>4, <1>5, <1>6, <1>7, <1>8, <1>9 DEF StoreNext, CallGoesOn

LEMMA StoreInvariant == StoreSpec => []StoreInv
<1>1. StoreInit => StoreInv
  BY InitStore
<1>2. StoreInv /\ [StoreNext]_storeVars => StoreInv'
  BY StepStore
<1>3. QED
  BY <1>1, <1>2, PTL DEF StoreSpec

\* Whatever the order of starts, loads, failed saves and crashes, the next
\* start finds the document that was parsed last, unless its own save was cut
\* (from_json saves before it returns, read_profile.cpp:355).
THEOREM LatestFound == StoreSpec => []LatestIsOnDisk
<1>1. StoreInv => LatestIsOnDisk
  BY DEF StoreInv
<1> QED BY <1>1, StoreInvariant, PTL

\* No document that from_json cannot read is ever in the file.
THEOREM AlwaysReadable == StoreSpec => []DiskIsReadable
<1>1. StoreInv => DiskIsReadable
  BY DEF StoreInv
<1> QED BY <1>1, StoreInvariant, PTL

\* The profile at work is one that set_profile takes, or the default: one that
\* is refused, cannot be parsed or cannot be saved leaves the one before it at
\* work (mapper.cpp:45-76, local_server.cpp:95-103).
THEOREM OnlyGoodInstalled == StoreSpec => []InstalledIsGood
<1>1. StoreInv => InstalledIsGood
  BY DEF StoreInv
<1> QED BY <1>1, StoreInvariant, PTL
=============================================================================
