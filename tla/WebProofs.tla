----------------------------- MODULE WebProofs ------------------------------
(***************************************************************************)
(* Proofs about the programs that speak HTTP.  The relay loop of the proxy *)
(* (Relay), for any sizes of the buffers and any response: its types, the  *)
(* count of bytes, where a NUL is added to the response, and that nothing  *)
(* else is lost or added.  The thread's beginning (Request): parse_uri     *)
(* takes every uri apart, and the headers are sent on as they came, for    *)
(* any size of the line buffer.  Tiny, for any files and any number of     *)
(* connections: a file is served whole.                                    *)
(***************************************************************************)
EXTENDS MCWeb, SequenceTheorems, NatLemmas

----------------------------------------------------------------------------
(* Relay: the inductive invariant.                                         *)

Sent == Bytes \cup {NUL}

\* What is in hand at each step; a line in client_buf has no end yet.
InHand ==
  /\ pc # "write" => unsent = <<>>
  /\ pc # "read" => client_buf = <<>>
  /\ filetype = "text" =>
       Len(client_buf) < MAXLINE - 1 /\ \A j \in 1 .. Len(client_buf) : client_buf[j] # NL

\* The NUL at k stands for the end of a piece that filled client_buf.
EndsPiece(k) == k >= MAXLINE /\ \A j \in k - MAXLINE + 1 .. k - 1 : Written[j] \notin {NL, NUL}

\* The NUL at k ends the last line, and nothing comes after it.
EndsText(k) == k = Len(Written) /\ origin = <<>> /\ rio_buf = <<>> /\ client_buf = <<>>

Pads ==
  /\ filetype = "image" => \A k \in 1 .. Len(Written) : Written[k] # NUL
  /\ \A k \in 1 .. Len(Written) : Written[k] = NUL => EndsPiece(k) \/ EndsText(k)

Counts == client => size = Len(Written)

\* An image is what has been written, what is in hand and what is to come.
ImageInHand ==
  filetype = "image" =>
    /\ rio_buf = <<>>
    /\ client /\ ~ reset => Written \o client_buf \o origin = response

\* The loop ends when nothing is left.
AtEnd == pc = "done" /\ ~ reset => origin = <<>> /\ rio_buf = <<>>

IInv == TypeOK /\ InHand /\ Pads /\ Counts /\ ImageInHand /\ AtEnd

----------------------------------------------------------------------------
(* Sequences.                                                              *)

\* What the result of rio_readlineb makes of a line: a NUL can only be at
\* its end, behind bytes that are no newline.
LEMMA CountedLine ==
  ASSUME NEW line \in Seq(Bytes), Len(line) > 0,
         \A j \in 1 .. Len(line) - 1 : line[j] # NL
  PROVE  /\ Counted(line) \in Seq(Sent) /\ Counted(line) # <<>>
         /\ Len(Counted(line)) <= Len(line) + 1
         /\ \A k \in 1 .. Len(Counted(line)) : Counted(line)[k] = NUL =>
              /\ k = Len(Counted(line)) /\ k = Len(line) + 1
              /\ \A j \in 1 .. k - 1 : Counted(line)[j] \notin {NL, NUL}
<1>1. NL # NUL /\ NUL \notin Bytes /\ Bytes \subseteq Sent /\ NUL \in Sent
  BY DEF NL, NUL, Bytes, Sent
<1>2. Len(line) \in Nat /\ \A j \in 1 .. Len(line) : line[j] \in Bytes
  OBVIOUS
<1>3. CASE Last(line) = NL
  <2>1. Counted(line) = line
    BY <1>3 DEF Counted
  <2>2. line \in Seq(Sent)
    BY <1>1, SeqMonotonic
  <2>3. \A k \in 1 .. Len(line) : line[k] # NUL
    BY <1>1, <1>2
  <2> QED BY <2>1, <2>2, <2>3
<1>4. CASE Last(line) # NL
  <2>1. Counted(line) = Append(line, NUL)
    BY <1>4 DEF Counted
  <2>2. line[Len(line)] # NL
    BY <1>4 DEF Last
  <2>3. line \in Seq(Sent)
    BY <1>1, SeqMonotonic
  <2>4. /\ Append(line, NUL) \in Seq(Sent) /\ Len(Append(line, NUL)) = Len(line) + 1
        /\ \A j \in 1 .. Len(line) : Append(line, NUL)[j] = line[j]
    BY <1>1, <2>3
  <2>5. \A j \in 1 .. Len(line) : line[j] \notin {NL, NUL}
    BY <1>1, <1>2, <2>2
  <2> QED BY <1>2, <2>1, <2>4, <2>5
<1> QED BY <1>3, <1>4

----------------------------------------------------------------------------
(* What is left of a text without its NULs.                                *)

\* What the function upTo of WithoutNuls is defined by.
UpToIs(f, text) ==
  f = [n \in 0 .. Len(text) |->
         IF n = 0 THEN <<>>
         ELSE IF text[n] = NUL THEN f[n - 1] ELSE Append(f[n - 1], text[n])]

\* There is such a function: each prefix of the text has one, so that the
\* shortest without one would extend the one before it.
LEMMA UpToExists ==
  ASSUME NEW text \in Seq(Sent)
  PROVE  \E f : UpToIs(f, text)
<1> DEFINE Step(g, n) == IF n = 0 THEN <<>>
                         ELSE IF text[n] = NUL THEN g[n - 1] ELSE Append(g[n - 1], text[n])
           Good(g, m) == g = [n \in 0 .. m |-> Step(g, n)]
           Bad == {m \in 0 .. Len(text) : ~ \E g : Good(g, m)}
<1>1. Len(text) \in Nat
  OBVIOUS
<1>2. Bad = {}
  <2> SUFFICES ASSUME Bad # {} PROVE FALSE
    OBVIOUS
  <2>1. PICK m \in Bad : \A k \in Bad : m <= k
    <3>1. Bad \in SUBSET Nat
      BY <1>1
    <3> HIDE DEF Bad
    <3> QED BY <3>1, LeastNat
  <2>2. m \in 0 .. Len(text) /\ ~ \E g : Good(g, m)
    OBVIOUS
  <2>3. CASE m = 0
    <3> DEFINE g == [n \in 0 .. 0 |-> <<>>]
    <3>1. Good(g, 0)
      OBVIOUS
    <3> QED BY <2>2, <2>3, <3>1
  <2>4. CASE m # 0
    <3>1. m - 1 \in 0 .. Len(text) /\ ~ (m <= m - 1) /\ m \in Nat
      BY <1>1, <2>2, <2>4
    <3>2. PICK g : Good(g, m - 1)
      <4>1. m - 1 \notin Bad
        <5> HIDE DEF Bad
        <5> QED BY <2>1, <3>1
      <4> QED BY <3>1, <4>1
    <3> DEFINE h == [n \in 0 .. m |-> IF n = m THEN Step(g, m) ELSE g[n]]
    <3>3. \A n \in 0 .. m - 1 : g[n] = Step(g, n)
      BY <3>2
    <3>4. ASSUME NEW n \in 0 .. m PROVE h[n] = Step(h, n)
      <4>1. CASE n = 0
        <5>1. n \in 0 .. m - 1 /\ n # m
          BY <2>4, <3>1, <4>1
        <5> QED BY <3>3, <4>1, <5>1
      <4>2. CASE n # 0
        <5>1. n - 1 \in 0 .. m /\ n - 1 # m
          BY <3>1, <4>2
        <5>2. h[n - 1] = g[n - 1]
          BY <5>1
        <5>3. Step(h, n) = Step(g, n)
          <6> HIDE DEF h
          <6> QED BY <5>2
        <5>4. h[n] = Step(g, n)
          <6>1. CASE n = m
            BY <6>1
          <6>2. CASE n # m
            <7>1. n \in 0 .. m - 1
              BY <3>1, <6>2
            <7>2. h[n] = g[n]
              BY <6>2
            <7> QED BY <3>3, <7>1, <7>2
          <6> QED BY <6>1, <6>2
        <5> QED BY <5>3, <5>4
      <4> QED BY <4>1, <4>2
    <3>5. h = [n \in 0 .. m |-> h[n]]
      OBVIOUS
    <3> HIDE DEF h, Step
    <3>6. h = [n \in 0 .. m |-> Step(h, n)]
      BY <3>4, <3>5
    <3> QED BY <2>2, <3>6
  <2> QED BY <2>3, <2>4
<1>3. \E g : Good(g, Len(text))
  <2>1. Len(text) \in 0 .. Len(text)
    BY <1>1
  <2> QED BY <1>2, <2>1
<1> QED BY <1>3 DEF UpToIs

\* A NUL is left out, any other byte is kept behind those before it.
LEMMA WithoutNulsAppend ==
  ASSUME NEW text \in Seq(Sent), NEW byte \in Sent
  PROVE  /\ WithoutNuls(<<>>) = <<>>
         /\ WithoutNuls(Append(text, byte)) =
              IF byte = NUL THEN WithoutNuls(text) ELSE Append(WithoutNuls(text), byte)
<1> DEFINE F(t) == CHOOSE f : UpToIs(f, t)
           longer == Append(text, byte)
<1>1. ASSUME NEW t \in Seq(Sent)
      PROVE  /\ WithoutNuls(t) = F(t)[Len(t)]
             /\ \A n \in 0 .. Len(t) : F(t)[n] =
                  IF n = 0 THEN <<>>
                  ELSE IF t[n] = NUL THEN F(t)[n - 1] ELSE Append(F(t)[n - 1], t[n])
  <2>1. WithoutNuls(t) = F(t)[Len(t)]
    BY DEF WithoutNuls, UpToIs
  <2>2. UpToIs(F(t), t)
    BY UpToExists
  <2> HIDE DEF F
  <2> QED BY <2>1, <2>2 DEF UpToIs
<1> HIDE DEF F
<1>2. WithoutNuls(<<>>) = <<>>
  <2> DEFINE none == <<>>
  <2>1. none \in Seq(Sent) /\ Len(none) = 0 /\ 0 \in 0 .. 0 /\ none = <<>>
    OBVIOUS
  <2> HIDE DEF none
  <2>2. WithoutNuls(none) = F(none)[Len(none)] /\ F(none)[0] = <<>>
    BY <1>1, <2>1
  <2> QED BY <2>1, <2>2
<1>3. /\ longer \in Seq(Sent) /\ Len(longer) = Len(text) + 1 /\ Len(text) \in Nat
      /\ longer[Len(text) + 1] = byte /\ \A n \in 1 .. Len(text) : longer[n] = text[n]
  OBVIOUS
<1> HIDE DEF longer
<1> DEFINE Bad == {n \in 0 .. Len(text) : F(longer)[n] # F(text)[n]}
<1>4. Bad = {}
  <2> SUFFICES ASSUME Bad # {} PROVE FALSE
    OBVIOUS
  <2>1. PICK n \in Bad : \A k \in Bad : n <= k
    <3>1. Bad \in SUBSET Nat
      BY <1>3
    <3> HIDE DEF Bad
    <3> QED BY <3>1, LeastNat
  <2>2. n \in 0 .. Len(text) /\ n \in 0 .. Len(longer) /\ F(longer)[n] # F(text)[n] /\ n \in Nat
    BY <1>3
  <2>3. n # 0
    BY <1>1, <1>3, <2>2
  <2>4. n - 1 \in 0 .. Len(text) /\ ~ (n <= n - 1) /\ n \in 1 .. Len(text)
    BY <1>3, <2>2, <2>3
  <2>5. F(longer)[n - 1] = F(text)[n - 1]
    <3>1. n - 1 \notin Bad
      <4> HIDE DEF Bad
      <4> QED BY <2>1, <2>4
    <3> QED BY <2>4, <3>1
  <2>6. F(longer)[n] = IF longer[n] = NUL THEN F(longer)[n - 1]
                       ELSE Append(F(longer)[n - 1], longer[n])
    BY <1>1, <1>3, <2>2, <2>3
  <2>7. F(text)[n] = IF text[n] = NUL THEN F(text)[n - 1] ELSE Append(F(text)[n - 1], text[n])
    BY <1>1, <2>2, <2>3
  <2> QED BY <1>3, <2>2, <2>4, <2>5, <2>6, <2>7
<1>5. F(longer)[Len(text)] = F(text)[Len(text)]
  <2>1. Len(text) \in 0 .. Len(text)
    BY <1>3
  <2> QED BY <1>4, <2>1
<1>6. F(longer)[Len(text) + 1] =
        IF byte = NUL THEN F(longer)[Len(text)] ELSE Append(F(longer)[Len(text)], byte)
  <2>1. /\ Len(text) + 1 \in 0 .. Len(longer) /\ Len(text) + 1 # 0
        /\ (Len(text) + 1) - 1 = Len(text)
    BY <1>3
  <2> QED BY <1>1, <1>3, <2>1
<1> QED BY <1>1, <1>2, <1>3, <1>5, <1>6 DEF longer

\* What is left are bytes of the response.
LEMMA WithoutNulsType ==
  ASSUME NEW text \in Seq(Sent)
  PROVE  WithoutNuls(text) \in Seq(Bytes)
<1> DEFINE Part(n) == SubSeq(text, 1, n)
           Holds(n) == WithoutNuls(Part(n)) \in Seq(Bytes)
           Bad == {n \in 0 .. Len(text) : ~ Holds(n)}
<1>1. /\ Len(text) \in Nat /\ \A n \in 0 .. Len(text) : Part(n) \in Seq(Sent)
      /\ Part(0) = <<>> /\ Part(Len(text)) = text
  BY SubSeqFull
<1>2. Bad = {}
  <2> SUFFICES ASSUME Bad # {} PROVE FALSE
    OBVIOUS
  <2>1. PICK n \in Bad : \A k \in Bad : n <= k
    <3>1. Bad \in SUBSET Nat
      BY <1>1
    <3> HIDE DEF Bad
    <3> QED BY <3>1, LeastNat
  <2>2. n \in 0 .. Len(text) /\ ~ Holds(n) /\ n \in Nat
    BY <1>1
  <2>3. n # 0
    <3>1. WithoutNuls(<<>>) = <<>>
      <4>1. NUL \in Sent
        BY DEF Sent
      <4> QED BY <4>1, WithoutNulsAppend
    <3>2. Holds(0)
      <4> HIDE DEF Part
      <4> QED BY <1>1, <3>1
    <3> HIDE DEF Holds
    <3> QED BY <2>2, <3>2
  <2>4. n \in 1 .. Len(text) /\ n - 1 \in 0 .. Len(text) /\ ~ (n <= n - 1)
    BY <1>1, <2>2, <2>3
  <2>5. Holds(n - 1)
    <3>1. n - 1 \notin Bad
      <4> HIDE DEF Bad, Holds
      <4> QED BY <2>1, <2>4
    <3> HIDE DEF Holds
    <3> QED BY <2>4, <3>1
  <2> DEFINE b == text[n]
             part == Part(n - 1)
  <2>6. b \in Sent /\ part \in Seq(Sent) /\ Part(n) = Append(part, b)
    BY <1>1, <2>4
  <2>7. WithoutNuls(part) \in Seq(Bytes)
    BY <2>5
  <2> HIDE DEF b, part, Part
  <2>8. WithoutNuls(Part(n)) = IF b = NUL THEN WithoutNuls(part) ELSE Append(WithoutNuls(part), b)
    BY <2>6, WithoutNulsAppend
  <2>9. b # NUL => b \in Bytes
    BY <2>6 DEF Sent
  <2>10. WithoutNuls(Part(n)) \in Seq(Bytes)
    BY <2>7, <2>8, <2>9
  <2> QED BY <2>2, <2>10
<1>3. Holds(Len(text))
  <2>1. Len(text) \in 0 .. Len(text)
    BY <1>1
  <2> HIDE DEF Holds
  <2> QED BY <1>2, <2>1
<1> HIDE DEF Part
<1> QED BY <1>1, <1>3

\* Joining lines.
LEMMA Joined ==
  \A x, y, z \in Seq(Bytes) : x \o y \in Seq(Bytes) /\ (x \o y) \o z = x \o (y \o z)
BY ConcatProperties, ConcatAssociative

\* Four lines, joined from the right and from the left.
JoinsAlike(w, x, y, z) == w \o (x \o (y \o z)) = ((w \o x) \o y) \o z

LEMMA JoinedFour ==
  ASSUME NEW w \in Seq(Bytes), NEW x \in Seq(Bytes),
         NEW y \in Seq(Bytes), NEW z \in Seq(Bytes)
  PROVE  JoinsAlike(w, x, y, z)
<1> DEFINE wx == w \o x
           yz == y \o z
<1>1. wx \in Seq(Bytes) /\ yz \in Seq(Bytes)
  BY Joined
<1>2. w \o (x \o yz) = wx \o yz
  <2> HIDE DEF yz
  <2> QED BY <1>1, Joined
<1>3. wx \o (y \o z) = (wx \o y) \o z
  <2> HIDE DEF wx
  <2> QED BY <1>1, Joined
<1> QED BY <1>2, <1>3 DEF JoinsAlike

\* A byte after joined lines.
LEMMA AppendJoined ==
  ASSUME NEW x \in Seq(Bytes), NEW y \in Seq(Bytes), NEW b \in Bytes
  PROVE  Append(x \o y, b) = x \o Append(y, b)
<1>1. <<b>> \in Seq(Bytes) /\ x \o y \in Seq(Bytes)
  BY ConcatProperties
<1>2. Append(y, b) = y \o <<b>>
  BY AppendIsConcat
<1>3. Append(x \o y, b) = (x \o y) \o <<b>>
  BY <1>1, AppendIsConcat
<1>4. (x \o y) \o <<b>> = x \o (y \o <<b>>)
  BY ONLY <1>1, x \in Seq(Bytes), y \in Seq(Bytes), Joined, Zenon
<1> QED BY <1>2, <1>3, <1>4

\* Text without a NUL stays behind whatever comes before it: the shortest
\* prefix for which this fails would extend one for which it holds.
LEMMA WithoutNulsConcat ==
  ASSUME NEW text \in Seq(Sent), NEW line \in Seq(Bytes)
  PROVE  WithoutNuls(text \o line) = WithoutNuls(text) \o line
<1> DEFINE Part(n) == SubSeq(line, 1, n)
           Holds(n) == WithoutNuls(text \o Part(n)) = WithoutNuls(text) \o Part(n)
           Bad == {n \in 0 .. Len(line) : ~ Holds(n)}
<1>1. /\ Len(line) \in Nat /\ \A n \in 0 .. Len(line) : Part(n) \in Seq(Bytes)
      /\ Part(0) = <<>> /\ Part(Len(line)) = line
  BY SubSeqFull
<1>2. WithoutNuls(text) \in Seq(Bytes)
  BY WithoutNulsType
<1>3. NUL \notin Bytes /\ Bytes \subseteq Sent
  BY DEF NL, NUL, Bytes, Sent
<1>4. Bad = {}
  <2> SUFFICES ASSUME Bad # {} PROVE FALSE
    OBVIOUS
  <2>1. PICK n \in Bad : \A k \in Bad : n <= k
    <3>1. Bad \in SUBSET Nat
      BY <1>1
    <3> HIDE DEF Bad
    <3> QED BY <3>1, LeastNat
  <2>2. n \in 0 .. Len(line) /\ ~ Holds(n) /\ n \in Nat
    BY <1>1
  <2>3. n # 0
    <3>1. text \o <<>> = text /\ WithoutNuls(text) \o <<>> = WithoutNuls(text)
      BY <1>2, ConcatEmptySeq
    <3>2. Holds(0)
      <4> HIDE DEF Part
      <4> QED BY <1>1, <3>1
    <3> HIDE DEF Holds
    <3> QED BY <2>2, <3>2
  <2>4. n \in 1 .. Len(line) /\ n - 1 \in 0 .. Len(line) /\ ~ (n <= n - 1)
    BY <1>1, <2>2, <2>3
  <2>5. Holds(n - 1)
    <3>1. n - 1 \notin Bad
      <4> HIDE DEF Bad, Holds
      <4> QED BY <2>1, <2>4
    <3> HIDE DEF Holds
    <3> QED BY <2>4, <3>1
  <2> DEFINE b == line[n]
             part == Part(n - 1)
  <2>6. b \in Bytes /\ b # NUL /\ b \in Sent /\ part \in Seq(Bytes) /\ part \in Seq(Sent)
    <3>1. b \in Bytes
      BY <2>4
    <3>2. part \in Seq(Bytes)
      BY <1>1, <2>4
    <3> HIDE DEF b, part
    <3> QED BY <1>3, <3>1, <3>2, SeqMonotonic
  <2>7. Part(n) = Append(part, b)
    BY <2>4
  <2> HIDE DEF b, part, Part
  <2>8. text \o Append(part, b) = Append(text \o part, b) /\ text \o part \in Seq(Sent)
    BY <2>6
  <2>9. WithoutNuls(text \o Part(n)) = Append(WithoutNuls(text \o part), b)
    BY <2>6, <2>7, <2>8, WithoutNulsAppend
  <2>10. Append(WithoutNuls(text) \o part, b) = WithoutNuls(text) \o Append(part, b)
    BY ONLY <1>2, <2>6, AppendJoined
  <2>11. WithoutNuls(text \o part) = WithoutNuls(text) \o part
    BY <2>5 DEF part
  <2> QED BY <2>2, <2>7, <2>9, <2>10, <2>11
<1>5. Holds(Len(line))
  <2>1. Len(line) \in 0 .. Len(line)
    BY <1>1
  <2> HIDE DEF Holds
  <2> QED BY <1>4, <2>1
<1> HIDE DEF Part
<1> QED BY <1>1, <1>5

\* Passing on a line, with a NUL at its end or not, adds the line.
LEMMA PassedOn ==
  ASSUME NEW text \in Seq(Sent), NEW line \in Seq(Bytes),
         NEW out, out = line \/ out = Append(line, NUL)
  PROVE  WithoutNuls(text \o out) = WithoutNuls(text) \o line
<1>1. line \in Seq(Sent) /\ NUL \in Sent
  <2>1. Bytes \subseteq Sent /\ NUL \in Sent
    BY DEF Sent
  <2> QED BY <2>1, SeqMonotonic
<1>2. WithoutNuls(text \o line) = WithoutNuls(text) \o line
  BY WithoutNulsConcat
<1>3. text \o Append(line, NUL) = Append(text \o line, NUL) /\ text \o line \in Seq(Sent)
  BY <1>1
<1>4. WithoutNuls(Append(text \o line, NUL)) = WithoutNuls(text \o line)
  BY <1>1, <1>3, WithoutNulsAppend
<1> QED BY <1>2, <1>3, <1>4

----------------------------------------------------------------------------
(* The loop passes a line on.                                              *)

LEMMA ForwardStep ==
  ASSUME TypeOK, InHand, Pads, Counts, pc = "read",
         NEW line \in Seq(Sent), Len(line) <= MAXLINE, Forward(line),
         line = <<>> => origin' = <<>> /\ rio_buf' = <<>> /\ client_buf = <<>>
                          /\ origin = <<>> /\ rio_buf = <<>>,
         line # <<>> => client_buf # <<>> \/ rio_buf # <<>> \/ origin # <<>>,
         \A k \in 1 .. Len(line) : line[k] = NUL =>
           /\ filetype = "text" /\ k = Len(line)
           /\ \/ Len(line) = MAXLINE /\ \A j \in 1 .. k - 1 : line[j] \notin {NL, NUL}
              \/ origin' = <<>> /\ rio_buf' = <<>>
  PROVE  /\ Written' = Written \o line /\ Pads' /\ Counts' /\ InHand' /\ AtEnd'
         /\ unsent' \in Seq(Sent) /\ Len(unsent') <= MAXLINE /\ size' \in Nat
         /\ UNCHANGED <<filetype, client, reset, response, delivered>>
         /\ client_buf' = <<>> /\ pc' \in {"write", "done"}
<1>1. /\ unsent' = line /\ client_buf' = <<>> /\ size' = size + Len(line)
      /\ pc' = IF line = <<>> THEN "done" ELSE "write"
      /\ UNCHANGED <<filetype, client, reset, response, delivered>>
  BY DEF Forward, ends
<1>2. delivered \in Seq(Sent) /\ unsent = <<>> /\ size \in Nat
  BY DEF TypeOK, InHand, Sent
<1>3. Written = delivered /\ Written \in Seq(Sent)
  BY <1>2, ConcatEmptySeq DEF Written
<1>4. Written' = Written \o line
  BY <1>1, <1>3 DEF Written
<1>5. /\ Len(Written') = Len(Written) + Len(line) /\ Len(Written) \in Nat /\ Len(line) \in Nat
      /\ \A i \in 1 .. Len(Written') :
           Written'[i] = IF i <= Len(Written) THEN Written[i] ELSE line[i - Len(Written)]
  BY <1>3, <1>4, ConcatProperties
<1>6. Counts'
  BY <1>1, <1>5 DEF Counts
<1>7. InHand'
  BY <1>1, RelayAssumption, LineAssumption DEF InHand
<1>8. AtEnd'
  BY <1>1 DEF AtEnd
<1>9. Pads'
  <2>1. ASSUME NEW k \in 1 .. Len(Written'), Written'[k] = NUL
        PROVE  filetype' # "image" /\ (EndsPiece(k)' \/ EndsText(k)')
    <3>1. CASE k <= Len(Written)
      <4>1. k \in 1 .. Len(Written) /\ Written[k] = NUL
        BY <1>5, <2>1, <3>1
      <4>2. filetype # "image" /\ (EndsPiece(k) \/ EndsText(k))
        BY <4>1 DEF Pads
      <4>3. CASE EndsPiece(k)
        <5>1. ASSUME NEW j \in k - MAXLINE + 1 .. k - 1 PROVE Written'[j] \notin {NL, NUL}
          BY <1>5, <2>1, <3>1, <4>3, <5>1, RelayAssumption, LineAssumption DEF EndsPiece
        <5> QED BY <1>1, <4>2, <4>3, <5>1 DEF EndsPiece
      <4>4. CASE EndsText(k)
        <5>1. line = <<>>
          BY <4>4 DEF EndsText
        <5>2. Written' = Written
          BY <1>3, <1>4, <5>1, ConcatEmptySeq
        <5> QED BY <1>1, <4>2, <4>4, <5>1, <5>2 DEF EndsText
      <4> QED BY <4>2, <4>3, <4>4
    <3>2. CASE k > Len(Written)
      <4> DEFINE m == k - Len(Written)
      <4>1. m \in 1 .. Len(line) /\ line[m] = NUL
        BY <1>5, <2>1, <3>2
      <4>2. filetype = "text" /\ m = Len(line)
        BY <4>1
      <4>3. k = Len(Written')
        BY <1>5, <2>1, <4>2
      <4>4. CASE origin' = <<>> /\ rio_buf' = <<>>
        BY <1>1, <4>2, <4>3, <4>4 DEF EndsText
      <4>5. CASE Len(line) = MAXLINE /\ \A j \in 1 .. m - 1 : line[j] \notin {NL, NUL}
        <5>1. k >= MAXLINE /\ k - MAXLINE = Len(Written)
          <6>1. Len(Written) \in Nat /\ k \in Nat /\ MAXLINE \in Nat
            BY <1>5, <2>1, RelayAssumption, LineAssumption
          <6>2. k - Len(Written) = MAXLINE
            BY <4>2, <4>5
          <6> HIDE DEF m
          <6> QED BY <6>1, <6>2
        <5>2. ASSUME NEW j \in k - MAXLINE + 1 .. k - 1 PROVE Written'[j] \notin {NL, NUL}
          <6>1. j - Len(Written) \in 1 .. m - 1 /\ j \in 1 .. Len(Written') /\ ~ (j <= Len(Written))
            BY <1>5, <2>1, <5>1, <5>2, RelayAssumption, LineAssumption
          <6> QED BY <1>5, <4>5, <6>1
        <5> QED BY <1>1, <4>2, <5>1, <5>2 DEF EndsPiece
      <4> QED BY <4>1, <4>4, <4>5
    <3> QED BY <1>5, <2>1, <3>1, <3>2
  <2> QED BY <2>1 DEF Pads
<1> QED BY <1>1, <1>2, <1>4, <1>6, <1>7, <1>8, <1>9

\* Nothing is written, and what has come to its end stays there.
LEMMA PadsStay ==
  ASSUME Pads, Written' = Written, filetype' = filetype,
         origin = <<>> /\ rio_buf = <<>> /\ client_buf = <<>> =>
           origin' = <<>> /\ rio_buf' = <<>> /\ client_buf' = <<>>
  PROVE  Pads'
BY DEF Pads, EndsPiece, EndsText

----------------------------------------------------------------------------
(* Every step keeps the invariant.                                         *)

LEMMA RefillStep == ASSUME IInv, Refill PROVE IInv'
<1>1. /\ pc = "read" /\ filetype = "text" /\ rio_buf = <<>> /\ origin # <<>>
      /\ UNCHANGED <<filetype, client_buf, unsent, size, pc, client, reset, response, delivered>>
  BY DEF Refill, Reading, ends
<1>2. PICK k \in 1 .. RIO_BUFSIZE :
        /\ k <= Len(origin)
        /\ rio_buf' = SubSeq(origin, 1, k) /\ origin' = SubSeq(origin, k + 1, Len(origin))
  BY DEF Refill
<1>3. origin \in Seq(Bytes)
  BY DEF IInv, TypeOK
<1>4. rio_buf' \in Seq(Bytes) /\ origin' \in Seq(Bytes) /\ Len(rio_buf') <= RIO_BUFSIZE
  BY <1>2, <1>3, RelayAssumption, LineAssumption
<1>5. TypeOK'
  BY <1>1, <1>4 DEF IInv, TypeOK
<1>6. Written' = Written
  BY <1>1 DEF Written
<1>7. Pads'
  BY <1>1, <1>6, PadsStay DEF IInv
<1>8. InHand' /\ Counts' /\ ImageInHand' /\ AtEnd'
  BY <1>1, <1>6 DEF IInv, InHand, Counts, ImageInHand, AtEnd
<1> QED BY <1>5, <1>7, <1>8 DEF IInv

LEMMA TakeByteStep == ASSUME IInv, TakeByte PROVE IInv'
<1> DEFINE line == Append(client_buf, Head(rio_buf))
<1>1. /\ pc = "read" /\ filetype = "text" /\ rio_buf # <<>>
      /\ rio_buf' = Tail(rio_buf) /\ UNCHANGED origin
      /\ IF Head(rio_buf) = NL \/ Len(line) = MAXLINE - 1
         THEN Forward(Counted(line))
         ELSE client_buf' = line /\ UNCHANGED <<filetype, unsent, size, pc, ends, delivered>>
  BY DEF TakeByte, Reading, IsFull
<1>2. /\ client_buf \in Seq(Bytes) /\ rio_buf \in Seq(Bytes) /\ Len(client_buf) < MAXLINE - 1
      /\ Len(rio_buf) <= RIO_BUFSIZE
      /\ \A j \in 1 .. Len(client_buf) : client_buf[j] # NL
  BY <1>1 DEF IInv, TypeOK, InHand
<1>3. /\ Head(rio_buf) \in Bytes /\ rio_buf' \in Seq(Bytes) /\ Len(rio_buf') <= RIO_BUFSIZE
  BY <1>1, <1>2, RelayAssumption, LineAssumption
<1>4. /\ line \in Seq(Bytes) /\ Len(line) = Len(client_buf) + 1 /\ Len(line) > 0
      /\ Last(line) = Head(rio_buf)
      /\ \A j \in 1 .. Len(line) - 1 : line[j] # NL
  BY <1>2, <1>3 DEF Last
<1>5. CASE Head(rio_buf) = NL \/ Len(line) = MAXLINE - 1
  <2>1. Forward(Counted(line))
    BY <1>1, <1>5
  <2>2. /\ Counted(line) \in Seq(Sent) /\ Counted(line) # <<>>
        /\ Len(Counted(line)) <= Len(line) + 1
        /\ \A k \in 1 .. Len(Counted(line)) : Counted(line)[k] = NUL =>
             /\ k = Len(Counted(line)) /\ k = Len(line) + 1
             /\ \A j \in 1 .. k - 1 : Counted(line)[j] \notin {NL, NUL}
    <3> HIDE DEF line
    <3> QED BY <1>2, <1>4, CountedLine
  <2>3. Head(rio_buf) = NL => Counted(line) = line
    BY <1>4 DEF Counted
  <2>4. Len(Counted(line)) <= MAXLINE
    BY <1>2, <1>4, <1>5, <2>2, <2>3, RelayAssumption, LineAssumption
  <2>5. \A k \in 1 .. Len(Counted(line)) : Counted(line)[k] = NUL =>
          /\ filetype = "text" /\ k = Len(Counted(line)) /\ Len(Counted(line)) = MAXLINE
          /\ \A j \in 1 .. k - 1 : Counted(line)[j] \notin {NL, NUL}
    <3>1. ASSUME NEW k \in 1 .. Len(Counted(line)), Counted(line)[k] = NUL
          PROVE  /\ k = Len(Counted(line)) /\ Len(Counted(line)) = MAXLINE
                 /\ \A j \in 1 .. k - 1 : Counted(line)[j] \notin {NL, NUL}
      <4>1. /\ k = Len(Counted(line)) /\ k = Len(line) + 1
            /\ \A j \in 1 .. k - 1 : Counted(line)[j] \notin {NL, NUL}
        BY <2>2, <3>1
      <4>2. Len(line) = MAXLINE - 1
        BY <1>4, <1>5, <2>3, <4>1
      <4>3. MAXLINE \in Nat
        BY RelayAssumption, LineAssumption
      <4> HIDE DEF line
      <4> QED BY <4>1, <4>2, <4>3
    <3> QED BY <1>1, <3>1
  <2> DEFINE l == Counted(line)
  <2> HIDE DEF l, line
  <2>6. /\ Forward(l) /\ l \in Seq(Sent) /\ l # <<>> /\ Len(l) <= MAXLINE
        /\ \A k \in 1 .. Len(l) : l[k] = NUL =>
             /\ filetype = "text" /\ k = Len(l) /\ Len(l) = MAXLINE
             /\ \A j \in 1 .. k - 1 : l[j] \notin {NL, NUL}
    BY <2>1, <2>2, <2>4, <2>5 DEF l
  <2>7. /\ Pads' /\ Counts' /\ InHand' /\ AtEnd' /\ unsent' \in Seq(Sent)
        /\ Len(unsent') <= MAXLINE /\ size' \in Nat /\ client_buf' = <<>>
        /\ pc' \in {"write", "done"}
        /\ UNCHANGED <<filetype, client, reset, response, delivered>>
    BY <1>1, <2>6, ForwardStep DEF IInv
  <2>8. TypeOK'
    BY <1>1, <1>3, <2>7, RelayAssumption, LineAssumption DEF IInv, TypeOK, Sent
  <2>9. ImageInHand'
    BY <1>1, <2>7 DEF ImageInHand
  <2> QED BY <2>7, <2>8, <2>9 DEF IInv
<1>6. CASE ~ (Head(rio_buf) = NL \/ Len(line) = MAXLINE - 1)
  <2>1. /\ client_buf' = line
        /\ UNCHANGED <<filetype, unsent, size, pc, client, reset, response, delivered>>
    BY <1>1, <1>6 DEF ends
  <2>2. /\ Len(line) < MAXLINE - 1 /\ \A j \in 1 .. Len(line) : line[j] # NL
    BY <1>2, <1>3, <1>4, <1>6, RelayAssumption, LineAssumption
  <2> HIDE DEF line
  <2>3. TypeOK'
    BY <1>1, <1>3, <1>4, <2>1, <2>2, RelayAssumption, LineAssumption DEF IInv, TypeOK
  <2>4. Written' = Written
    BY <2>1 DEF Written
  <2>5. Pads'
    BY <1>1, <2>1, <2>4, PadsStay DEF IInv
  <2>6. InHand' /\ Counts' /\ ImageInHand' /\ AtEnd'
    BY <1>1, <2>1, <2>2, <2>4 DEF IInv, InHand, Counts, ImageInHand, AtEnd
  <2> QED BY <2>3, <2>5, <2>6 DEF IInv
<1> QED BY <1>5, <1>6

LEMMA EndOfTextStep == ASSUME IInv, EndOfText PROVE IInv'
<1> DEFINE l == IF client_buf = <<>> THEN <<>> ELSE Counted(client_buf)
<1>1. /\ pc = "read" /\ filetype = "text" /\ rio_buf = <<>> /\ origin = <<>>
      /\ Forward(l) /\ UNCHANGED <<origin, rio_buf>>
  BY DEF EndOfText, Reading
<1>2. /\ client_buf \in Seq(Bytes) /\ Len(client_buf) < MAXLINE - 1
      /\ \A j \in 1 .. Len(client_buf) : client_buf[j] # NL
  BY <1>1 DEF IInv, TypeOK, InHand
<1>3. /\ l \in Seq(Sent) /\ Len(l) <= MAXLINE /\ (l = <<>> => client_buf = <<>>)
      /\ \A k \in 1 .. Len(l) : l[k] = NUL => k = Len(l)
  <2>1. CASE client_buf = <<>>
    BY <2>1, RelayAssumption, LineAssumption
  <2>2. CASE client_buf # <<>>
    <3>1. Len(client_buf) > 0
      BY <1>2, <2>2
    <3>2. /\ Counted(client_buf) \in Seq(Sent) /\ Counted(client_buf) # <<>>
          /\ Len(Counted(client_buf)) <= Len(client_buf) + 1
          /\ \A k \in 1 .. Len(Counted(client_buf)) :
               Counted(client_buf)[k] = NUL => k = Len(Counted(client_buf))
      BY <1>2, <3>1, CountedLine
    <3>3. l = Counted(client_buf)
      BY <2>2
    <3>4. Len(client_buf) \in Nat /\ Len(l) \in Nat
      BY <1>2, <3>2, <3>3
    <3> HIDE DEF l
    <3> QED BY <1>2, <3>2, <3>3, <3>4, RelayAssumption, LineAssumption
  <2> QED BY <2>1, <2>2
<1> HIDE DEF l
<1>4. l # <<>> => client_buf # <<>>
  BY DEF l
<1>5. /\ Pads' /\ Counts' /\ InHand' /\ AtEnd' /\ unsent' \in Seq(Sent)
      /\ Len(unsent') <= MAXLINE /\ size' \in Nat /\ client_buf' = <<>>
      /\ pc' \in {"write", "done"}
      /\ UNCHANGED <<filetype, client, reset, response, delivered>>
  BY <1>1, <1>3, <1>4, ForwardStep DEF IInv
<1>6. TypeOK'
  BY <1>1, <1>5, RelayAssumption, LineAssumption DEF IInv, TypeOK, Sent
<1>7. ImageInHand'
  BY <1>1, <1>5 DEF ImageInHand
<1> QED BY <1>5, <1>6, <1>7 DEF IInv

\* What an image has in hand or passes on has no NUL.
LEMMA ImageBytes ==
  ASSUME NEW l \in Seq(Bytes)
  PROVE  l \in Seq(Sent) /\ \A k \in 1 .. Len(l) : l[k] # NUL
<1>1. NUL \notin Bytes /\ Bytes \subseteq Sent
  BY DEF NL, NUL, Bytes, Sent
<1> QED BY <1>1, SeqMonotonic

LEMMA ReadImageStep == ASSUME IInv, ReadImage PROVE IInv'
<1>1. /\ pc = "read" /\ filetype = "image" /\ origin # <<>> /\ UNCHANGED rio_buf
  BY DEF ReadImage, Reading
<1>2. PICK k \in 1 .. MAXLINE - Len(client_buf) :
        /\ k <= Len(origin) /\ origin' = SubSeq(origin, k + 1, Len(origin))
        /\ LET read == client_buf \o SubSeq(origin, 1, k) IN
           IF Len(read) = MAXLINE THEN Forward(read)
           ELSE client_buf' = read
                /\ UNCHANGED <<filetype, unsent, size, pc, ends, delivered>>
  BY DEF ReadImage
<1>3. /\ client_buf \in Seq(Bytes) /\ origin \in Seq(Bytes) /\ rio_buf = <<>>
      /\ Len(client_buf) < MAXLINE /\ Written \in Seq(Sent) /\ k \in 1 .. Len(origin)
  <2>1. delivered \in Seq(Sent) /\ unsent \in Seq(Sent)
    BY DEF IInv, TypeOK, Sent
  <2>2. Written \in Seq(Sent)
    BY <2>1, ConcatProperties DEF Written
  <2>3. /\ client_buf \in Seq(Bytes) /\ origin \in Seq(Bytes) /\ rio_buf = <<>>
        /\ Len(client_buf) < MAXLINE
    BY <1>1 DEF IInv, TypeOK, ImageInHand
  <2>4. k \in 1 .. Len(origin)
    BY <1>2, <2>3, RelayAssumption, LineAssumption
  <2> QED BY <2>2, <2>3, <2>4
<1> DEFINE read == client_buf \o SubSeq(origin, 1, k)
<1>4. /\ read \in Seq(Bytes) /\ Len(read) = Len(client_buf) + k /\ Len(read) <= MAXLINE
      /\ origin' \in Seq(Bytes)
  <2>1. SubSeq(origin, 1, k) \in Seq(Bytes) /\ Len(SubSeq(origin, 1, k)) = k
    BY <1>3
  <2>2. origin' \in Seq(Bytes)
    BY <1>2, <1>3
  <2>3. read \in Seq(Bytes) /\ Len(read) = Len(client_buf) + k
    BY <1>3, <2>1, ConcatProperties
  <2> QED BY <1>2, <1>3, <2>2, <2>3, RelayAssumption, LineAssumption
<1>5. client_buf \in Seq(Sent) /\ origin \in Seq(Sent) /\ origin' \in Seq(Sent)
  BY <1>3, <1>4, ImageBytes
<1>6. (Written \o read) \o origin' = (Written \o client_buf) \o origin
  <2>1. SubSeq(origin, 1, k) \in Seq(Sent) /\ SubSeq(origin, k + 1, Len(origin)) \in Seq(Sent)
    BY <1>3, <1>5
  <2>2. SubSeq(origin, 1, k) \o SubSeq(origin, k + 1, Len(origin)) = origin
    BY <1>3, ConcatAdjacentSubSeq, SubSeqFull
  <2>3. Written \in Seq(Sent)
    BY <1>3
  <2>4. ASSUME NEW x \in Seq(Sent), NEW y \in Seq(Sent)
        PROVE  (Written \o (client_buf \o x)) \o y = (Written \o client_buf) \o (x \o y)
    <3>1. client_buf \in Seq(Sent)
      BY <1>5
    <3>2. Written \o (client_buf \o x) = (Written \o client_buf) \o x
      BY ONLY <2>3, <2>4, <3>1, SMT
    <3>3. Written \o client_buf \in Seq(Sent)
      BY ONLY <2>3, <3>1, SMT
    <3>4. ASSUME NEW u \in Seq(Sent) PROVE (u \o x) \o y = u \o (x \o y)
      OBVIOUS
    <3>5. ((Written \o client_buf) \o x) \o y = (Written \o client_buf) \o (x \o y)
      BY ONLY <3>3, <3>4, Zenon
    <3> QED BY ONLY <3>2, <3>5, Zenon
  <2>5. (Written \o (client_buf \o SubSeq(origin, 1, k))) \o SubSeq(origin, k + 1, Len(origin))
          = (Written \o client_buf) \o (SubSeq(origin, 1, k) \o SubSeq(origin, k + 1, Len(origin)))
    BY ONLY <2>1, <2>4, Zenon
  <2>6. (Written \o read) \o SubSeq(origin, k + 1, Len(origin)) = (Written \o client_buf) \o origin
    BY ONLY <2>2, <2>5, Zenon
  <2>7. origin' = SubSeq(origin, k + 1, Len(origin))
    BY <1>2
  <2> QED BY ONLY <2>6, <2>7, Zenon
<1>7. client /\ ~ reset => (Written \o client_buf) \o origin = response
  BY <1>1 DEF IInv, ImageInHand
<1> HIDE DEF read
<1>8. CASE Len(read) = MAXLINE
  <2>1. Forward(read)
    BY <1>2, <1>8 DEF read
  <2>2. read \in Seq(Sent) /\ \A i \in 1 .. Len(read) : read[i] # NUL
    BY <1>4, ImageBytes
  <2>3. read # <<>>
    BY <1>8, RelayAssumption, LineAssumption
  <2>4. /\ Written' = Written \o read /\ Pads' /\ Counts' /\ InHand' /\ AtEnd'
        /\ unsent' \in Seq(Sent) /\ Len(unsent') <= MAXLINE /\ size' \in Nat
        /\ client_buf' = <<>> /\ pc' \in {"write", "done"}
        /\ UNCHANGED <<filetype, client, reset, response, delivered>>
    BY <1>1, <1>4, <2>1, <2>2, <2>3, ForwardStep DEF IInv
  <2>5. TypeOK'
    BY <1>1, <1>3, <1>4, <2>4, RelayAssumption, LineAssumption DEF IInv, TypeOK, Sent
  <2>6. Written \o read \in Seq(Sent)
    BY <1>3, <2>2, ConcatProperties
  <2>7. (Written \o read) \o <<>> = Written \o read
    BY <2>6, ConcatEmptySeq
  <2>8. ImageInHand'
    BY <1>1, <1>3, <1>6, <1>7, <2>4, <2>7 DEF ImageInHand
  <2> QED BY <2>4, <2>5, <2>8 DEF IInv
<1>9. CASE Len(read) # MAXLINE
  <2>1. /\ client_buf' = read
        /\ UNCHANGED <<filetype, unsent, size, pc, client, reset, response, delivered>>
    BY <1>2, <1>9 DEF read, ends
  <2>2. Len(read) < MAXLINE
    BY <1>4, <1>9, RelayAssumption, LineAssumption
  <2>3. TypeOK'
    BY <1>1, <1>3, <1>4, <2>1, <2>2, RelayAssumption, LineAssumption DEF IInv, TypeOK
  <2>4. Written' = Written
    BY <2>1 DEF Written
  <2>5. Pads'
    BY <1>1, <2>1, <2>4, PadsStay DEF IInv
  <2>6. InHand' /\ Counts' /\ AtEnd'
    BY <1>1, <2>1, <2>4 DEF IInv, InHand, Counts, AtEnd
  <2>7. ImageInHand'
    <3>1. (Written \o read) \o origin' = (Written' \o client_buf') \o origin'
      BY <2>1, <2>4
    <3> QED BY <1>1, <1>3, <1>6, <1>7, <2>1, <3>1 DEF ImageInHand
  <2> QED BY <2>3, <2>5, <2>6, <2>7 DEF IInv
<1> QED BY <1>8, <1>9

LEMMA EndOfImageStep == ASSUME IInv, EndOfImage PROVE IInv'
<1>1. /\ pc = "read" /\ filetype = "image" /\ origin = <<>>
      /\ Forward(client_buf) /\ UNCHANGED <<origin, rio_buf>>
  BY DEF EndOfImage, Reading
<1>2. /\ client_buf \in Seq(Bytes) /\ rio_buf = <<>> /\ Len(client_buf) <= MAXLINE
  BY <1>1, RelayAssumption, LineAssumption DEF IInv, TypeOK, ImageInHand
<1>3. client_buf \in Seq(Sent) /\ \A i \in 1 .. Len(client_buf) : client_buf[i] # NUL
  BY <1>2, ImageBytes
<1>4. /\ Written' = Written \o client_buf /\ Pads' /\ Counts' /\ InHand' /\ AtEnd'
      /\ unsent' \in Seq(Sent) /\ Len(unsent') <= MAXLINE /\ size' \in Nat
      /\ client_buf' = <<>> /\ pc' \in {"write", "done"}
      /\ UNCHANGED <<filetype, client, reset, response, delivered>>
  BY <1>1, <1>2, <1>3, ForwardStep DEF IInv
<1>5. TypeOK'
  BY <1>1, <1>2, <1>4, RelayAssumption, LineAssumption DEF IInv, TypeOK, Sent
<1>6. Written \in Seq(Sent)
  BY ConcatProperties DEF IInv, TypeOK, Sent, Written
<1>7. Written \o client_buf \in Seq(Sent)
  BY <1>3, <1>6, ConcatProperties
<1>8. (Written \o client_buf) \o <<>> = Written \o client_buf
  BY <1>7, ConcatEmptySeq
<1>9. ImageInHand'
  BY <1>1, <1>2, <1>4, <1>8 DEF IInv, ImageInHand
<1> QED BY <1>4, <1>5, <1>9 DEF IInv

LEMMA WriteStep == ASSUME IInv, Write PROVE IInv' /\ Written' = Written
<1>1. /\ pc = "write"
      /\ UNCHANGED <<filetype, origin, rio_buf, client_buf, size, client, reset, response>>
      /\ pc' = IF unsent' = <<>> THEN "read" ELSE "write"
  BY DEF Write, ends
<1>2. PICK k \in 1 .. Len(unsent) :
        /\ delivered' = delivered \o SubSeq(unsent, 1, k)
        /\ unsent' = SubSeq(unsent, k + 1, Len(unsent))
  BY DEF Write
<1>3. delivered \in Seq(Sent) /\ unsent \in Seq(Sent) /\ Len(unsent) <= MAXLINE
  BY DEF IInv, TypeOK, Sent
<1>4. /\ delivered' \in Seq(Sent) /\ unsent' \in Seq(Sent) /\ Len(unsent') <= Len(unsent)
      /\ delivered' \o unsent' = delivered \o unsent
  <2>1. /\ SubSeq(unsent, 1, k) \in Seq(Sent) /\ SubSeq(unsent, k + 1, Len(unsent)) \in Seq(Sent)
        /\ Len(SubSeq(unsent, k + 1, Len(unsent))) <= Len(unsent)
    BY <1>3
  <2>2. SubSeq(unsent, 1, k) \o SubSeq(unsent, k + 1, Len(unsent)) = unsent
    BY <1>3, ConcatAdjacentSubSeq, SubSeqFull
  <2>3. ASSUME NEW x \in Seq(Sent), NEW y \in Seq(Sent)
        PROVE  delivered \o x \in Seq(Sent) /\ (delivered \o x) \o y = delivered \o (x \o y)
    BY ONLY <1>3, <2>3, SMT
  <2>4. /\ delivered \o SubSeq(unsent, 1, k) \in Seq(Sent)
        /\ (delivered \o SubSeq(unsent, 1, k)) \o SubSeq(unsent, k + 1, Len(unsent))
             = delivered \o (SubSeq(unsent, 1, k) \o SubSeq(unsent, k + 1, Len(unsent)))
    BY ONLY <2>1, <2>3, Zenon
  <2>5. (delivered \o SubSeq(unsent, 1, k)) \o SubSeq(unsent, k + 1, Len(unsent))
          = delivered \o unsent
    BY ONLY <2>2, <2>4, Zenon
  <2> QED BY ONLY <1>2, <2>1, <2>4, <2>5, Zenon
<1>5. Written' = Written
  BY <1>4 DEF Written
<1>6. TypeOK'
  BY <1>1, <1>3, <1>4, RelayAssumption, LineAssumption DEF IInv, TypeOK, Sent
<1>7. Pads'
  BY <1>1, <1>5, PadsStay DEF IInv
<1>8. InHand' /\ Counts' /\ ImageInHand' /\ AtEnd'
  BY <1>1, <1>5 DEF IInv, InHand, Counts, ImageInHand, AtEnd
<1> QED BY <1>5, <1>6, <1>7, <1>8 DEF IInv

LEMMA WriteFailsStep == ASSUME IInv, WriteFails PROVE IInv'
<1>1. /\ pc = "write" /\ client' = FALSE /\ unsent' = <<>> /\ pc' = "read"
      /\ UNCHANGED <<filetype, origin, rio_buf, client_buf, size, reset, response, delivered>>
  BY DEF WriteFails
<1>2. delivered \in Seq(Sent) /\ unsent \in Seq(Sent)
  BY DEF IInv, TypeOK, Sent
<1>3. Written' = delivered /\ client_buf = <<>>
  BY <1>1, <1>2, ConcatEmptySeq DEF Written, IInv, InHand
<1>4. /\ Len(Written) = Len(delivered) + Len(unsent)
      /\ Len(delivered) \in Nat /\ Len(unsent) \in Nat
      /\ \A j \in 1 .. Len(delivered) : Written[j] = delivered[j]
  BY <1>2, ConcatProperties DEF Written
<1>5. Pads'
  <2>1. ASSUME NEW n \in 1 .. Len(delivered), delivered[n] = NUL
        PROVE  filetype # "image" /\ (EndsPiece(n)' \/ EndsText(n)')
    <3>1. filetype # "image" /\ (EndsPiece(n) \/ EndsText(n))
      BY <1>4, <2>1 DEF IInv, Pads
    <3>2. CASE EndsPiece(n)
      <4>1. ASSUME NEW j \in n - MAXLINE + 1 .. n - 1 PROVE delivered[j] \notin {NL, NUL}
        BY <1>4, <2>1, <3>2, <4>1, RelayAssumption, LineAssumption DEF EndsPiece
      <4> QED BY <1>1, <1>3, <3>1, <3>2, <4>1 DEF EndsPiece
    <3>3. CASE EndsText(n)
      BY <1>1, <1>3, <1>4, <2>1, <3>1, <3>3 DEF EndsText
    <3> QED BY <3>1, <3>2, <3>3
  <2> QED BY <1>1, <1>3, <2>1 DEF Pads
<1>6. TypeOK'
  <2>1. <<>> \in Seq(Sent) /\ Len(<<>>) = 0 /\ 0 <= MAXLINE
    BY RelayAssumption, LineAssumption
  <2>2. unsent' \in Seq(Sent) /\ delivered' \in Seq(Sent) /\ Len(unsent') <= MAXLINE
    BY <1>1, <1>2, <2>1
  <2> QED BY <1>1, <2>2 DEF IInv, TypeOK, Sent
<1>7. InHand' /\ Counts' /\ ImageInHand' /\ AtEnd'
  BY <1>1, <1>3 DEF IInv, InHand, Counts, ImageInHand, AtEnd
<1> QED BY <1>5, <1>6, <1>7 DEF IInv

LEMMA ReadFailsStep == ASSUME IInv, ReadFails PROVE IInv'
<1>1. /\ pc = "read" /\ rio_buf = <<>> /\ reset' = TRUE /\ pc' = "done" /\ client_buf' = <<>>
      /\ UNCHANGED <<filetype, origin, rio_buf, unsent, size, client, response, delivered>>
  BY DEF ReadFails
<1>2. Written' = Written
  BY <1>1 DEF Written
<1>3. TypeOK'
  BY <1>1, RelayAssumption, LineAssumption DEF IInv, TypeOK
<1>4. Pads'
  BY <1>1, <1>2, PadsStay DEF IInv
<1>5. InHand' /\ Counts' /\ ImageInHand' /\ AtEnd'
  BY <1>1, <1>2, RelayAssumption, LineAssumption DEF IInv, InHand, Counts, ImageInHand, AtEnd
<1> QED BY <1>3, <1>4, <1>5 DEF IInv

LEMMA InitInvariant == ASSUME Init PROVE IInv
<1>1. /\ response \in Seq(Bytes) /\ origin = response
      /\ rio_buf = <<>> /\ client_buf = <<>> /\ unsent = <<>> /\ size = 0
      /\ pc = "read" /\ client = TRUE /\ reset = FALSE /\ delivered = <<>>
  <2>1. response \in BoundedSeq(Bytes, ResponseBound)
    BY DEF Init
  <2>2. BoundedSeq(Bytes, ResponseBound) \subseteq Seq(Bytes)
    <3>1. \A m \in 0 .. ResponseBound : [1 .. m -> Bytes] \subseteq Seq(Bytes)
      BY RelayAssumption, LineAssumption
    <3> QED BY ONLY <3>1 DEF BoundedSeq, SeqOf
  <2> QED BY <2>1, <2>2 DEF Init
<1>2. filetype \in {"text", "image"}
  BY DEF Init, get_filetype
<1>3. Written = <<>> /\ Len(Written) = 0
  BY <1>1 DEF Written
<1>4. TypeOK
  <2>1. /\ <<>> \in Seq(Bytes) /\ <<>> \in Seq(Bytes \cup {NUL}) /\ Len(<<>>) = 0
        /\ 0 <= RIO_BUFSIZE /\ 0 < MAXLINE /\ 0 <= MAXLINE
    BY RelayAssumption, LineAssumption
  <2>2. \A s \in {origin, rio_buf, client_buf, response} : s \in Seq(Bytes)
    BY <1>1, <2>1
  <2>3. {delivered, unsent} \subseteq Seq(Bytes \cup {NUL})
    BY <1>1, <2>1
  <2>4. Len(rio_buf) = 0 /\ Len(client_buf) = 0 /\ Len(unsent) = 0
    BY <1>1, <2>1
  <2> QED BY <1>1, <1>2, <2>1, <2>2, <2>3, <2>4 DEF TypeOK
<1>5. InHand /\ Pads /\ Counts /\ AtEnd
  BY <1>1, <1>3, RelayAssumption, LineAssumption DEF InHand, Pads, Counts, AtEnd
<1>6. ImageInHand
  <2>1. <<>> \o <<>> = <<>> /\ <<>> \o response = response
    BY <1>1, ConcatEmptySeq
  <2> QED BY <1>1, <1>3, <2>1 DEF ImageInHand
<1> QED BY <1>4, <1>5, <1>6 DEF IInv

LEMMA StepInvariant == ASSUME IInv, [Next]_vars PROVE IInv'
<1>1. ASSUME UNCHANGED vars PROVE IInv'
  BY <1>1 DEF vars, ends, IInv, TypeOK, InHand, Pads, EndsPiece, EndsText, Counts, ImageInHand,
              AtEnd, Written
<1> QED BY <1>1, RefillStep, TakeByteStep, EndOfTextStep, ReadImageStep, EndOfImageStep,
           WriteStep, WriteFailsStep, ReadFailsStep DEF Next, Goes

(* The conjunction of the types, of what is in hand at each step of the    *)
(* loop, of the places of the NULs, of the count and of an image's bytes   *)
(* holds in every state of the loop.                                       *)
THEOREM Invariance == Spec => []IInv
<1>1. IInv /\ [Next]_vars => IInv'
  BY StepInvariant
<1> QED BY <1>1, InitInvariant, PTL DEF Spec

(* However the kernel cuts the reads and the writes, for any sizes of      *)
(* client_buf and rio_buf a NUL is added only to the last line, when it    *)
(* has no newline, and to the pieces of a line that fills client_buf.      *)
THEOREM NulsAtCuts == Spec => [](TypeOK /\ PadsOnlyCutLines)
<1>1. ASSUME IInv PROVE TypeOK /\ PadsOnlyCutLines
  <2>1. TypeOK /\ Pads
    BY <1>1 DEF IInv
  <2>2. delivered \in Seq(Sent) /\ unsent \in Seq(Sent)
    BY <2>1 DEF TypeOK, Sent
  <2>3. Written \in Seq(Sent)
    BY <2>2, ConcatProperties DEF Written
  <2>4. DOMAIN Written = 1 .. Len(Written)
    BY <2>3
  <2>5. ASSUME NEW k \in 1 .. Len(Written), Written[k] = NUL
        PROVE  filetype = "text" /\ (EndsPiece(k) \/ EndsText(k))
    BY <2>1, <2>5 DEF Pads, TypeOK
  <2>6. PadsOnlyCutLines
    BY <2>4, <2>5 DEF PadsOnlyCutLines, EndsPiece, EndsText
  <2> QED BY <2>1, <2>6
<1> QED BY <1>1, Invariance, PTL

(* An image arrives as the server has sent it, and the size in the log is  *)
(* the number of its bytes, when the client reads and the server's         *)
(* connection does not break.                                              *)
THEOREM ImagesArrive ==
  Spec => [](filetype = "image" /\ pc = "done" /\ client /\ ~ reset =>
               delivered = response /\ size = Len(response))
<1>1. ASSUME IInv, filetype = "image", pc = "done", client, ~ reset
      PROVE  delivered = response /\ size = Len(response)
  <2>1. client_buf = <<>> /\ origin = <<>> /\ (Written \o client_buf) \o origin = response
    BY <1>1 DEF IInv, InHand, ImageInHand, AtEnd
  <2>2. delivered \in Seq(Sent) /\ unsent \in Seq(Sent)
    BY <1>1 DEF IInv, TypeOK, Sent
  <2>3. Written \in Seq(Sent)
    BY <2>2, ConcatProperties DEF Written
  <2>4. Written \o <<>> = Written
    BY <2>3, ConcatEmptySeq
  <2>5. Written = response
    BY <2>1, <2>4
  <2>6. Written = delivered
    BY <1>1, <2>2, ConcatEmptySeq DEF IInv, InHand, Written
  <2> QED BY <1>1, <2>5, <2>6 DEF IInv, Counts
<1> DEFINE Arrives == filetype = "image" /\ pc = "done" /\ client /\ ~ reset =>
                        delivered = response /\ size = Len(response)
<1>2. IInv => Arrives
  BY <1>1
<1> HIDE DEF Arrives
<1>3. Spec => []Arrives
  BY <1>2, Invariance, PTL
<1> QED BY <1>3 DEF Arrives

----------------------------------------------------------------------------
(* No byte is lost: what has been written without its NULs, what is in     *)
(* hand and what is to come are the response.                              *)

Stream == client_buf \o (rio_buf \o origin)

Conserved ==
  client => IF reset
            THEN pc = "done" /\ \E rest \in Seq(Bytes) : WithoutNuls(Written) \o rest = response
            ELSE WithoutNuls(Written) \o Stream = response

\* The types of what the stream is made of.
LEMMA StreamType ==
  ASSUME TypeOK
  PROVE  /\ client_buf \in Seq(Bytes) /\ rio_buf \in Seq(Bytes) /\ origin \in Seq(Bytes)
         /\ Stream \in Seq(Bytes) /\ response \in Seq(Bytes) /\ Written \in Seq(Sent)
         /\ WithoutNuls(Written) \in Seq(Bytes)
<1>1. /\ client_buf \in Seq(Bytes) /\ rio_buf \in Seq(Bytes) /\ origin \in Seq(Bytes)
      /\ response \in Seq(Bytes) /\ delivered \in Seq(Sent) /\ unsent \in Seq(Sent)
  BY DEF TypeOK, Sent
<1>2. Stream \in Seq(Bytes)
  <2>1. rio_buf \o origin \in Seq(Bytes)
    BY <1>1, ConcatProperties
  <2> QED BY <1>1, <2>1, ConcatProperties DEF Stream
<1>3. Written \in Seq(Sent)
  BY <1>1, ConcatProperties DEF Written
<1> QED BY <1>1, <1>2, <1>3, WithoutNulsType

\* Bytes move within the stream.
LEMMA StreamStays ==
  ASSUME Conserved, pc # "done", Stream' = Stream, Written' = Written,
         UNCHANGED <<client, reset, response>>
  PROVE  Conserved'
BY DEF Conserved

\* The first line of the stream is passed on.
LEMMA StreamPassesOn ==
  ASSUME IInv, TypeOK', Conserved, pc = "read", NEW line \in Seq(Bytes),
         NEW out, out = line \/ out = Append(line, NUL), Forward(out),
         Stream = line \o Stream'
  PROVE  Conserved'
<1>1. /\ unsent' = out /\ UNCHANGED <<client, reset, response, delivered>>
  BY DEF Forward, ends
<1>2. unsent = <<>> /\ delivered \in Seq(Sent)
  BY DEF IInv, TypeOK, InHand, Sent
<1>3. Written = delivered /\ Written' = Written \o out /\ Written \in Seq(Sent)
  <2>1. Written = delivered
    BY <1>2, ConcatEmptySeq DEF Written
  <2> QED BY <1>1, <1>2, <2>1 DEF Written
<1>4. WithoutNuls(Written') = WithoutNuls(Written) \o line
  BY <1>3, PassedOn
<1>5. Stream' \in Seq(Bytes) /\ WithoutNuls(Written) \in Seq(Bytes)
  <2>1. Stream' \in Seq(Bytes)
    <3>1. client_buf' \in Seq(Bytes) /\ rio_buf' \in Seq(Bytes) /\ origin' \in Seq(Bytes)
      BY DEF TypeOK
    <3>2. rio_buf' \o origin' \in Seq(Bytes)
      BY <3>1, Joined
    <3>3. client_buf' \o (rio_buf' \o origin') \in Seq(Bytes)
      BY <3>1, <3>2, Joined
    <3> QED BY <3>3 DEF Stream
  <2>2. WithoutNuls(Written) \in Seq(Bytes)
    BY <1>3, WithoutNulsType
  <2> QED BY <2>1, <2>2
<1>6. (WithoutNuls(Written) \o line) \o Stream' = WithoutNuls(Written) \o (line \o Stream')
  BY <1>5, ConcatAssociative
<1>7. client => ~ reset /\ WithoutNuls(Written) \o Stream = response
  BY DEF Conserved
<1>8. client' => ~ reset' /\ WithoutNuls(Written') \o Stream' = response'
  BY <1>1, <1>4, <1>6, <1>7
<1>9. WithoutNuls(Written)' = WithoutNuls(Written')
  OBVIOUS
<1> QED BY <1>8 DEF Conserved

\* A byte moves from the buffer to the line.
Moves(c, r, o) == c \o (r \o o) = Append(c, Head(r)) \o (Tail(r) \o o)

LEMMA FirstByteMoves ==
  ASSUME NEW c \in Seq(Bytes), NEW r \in Seq(Bytes), NEW o \in Seq(Bytes), r # <<>>
  PROVE  Moves(c, r, o)
<1> DEFINE h == Head(r)
           t == Tail(r)
<1>1. h \in Bytes /\ t \in Seq(Bytes) /\ r = <<h>> \o t /\ <<h>> \in Seq(Bytes)
  <2>1. h \in Bytes /\ t \in Seq(Bytes) /\ <<h>> \in Seq(Bytes)
    OBVIOUS
  <2>2. r = <<h>> \o t
    OBVIOUS
  <2> QED BY <2>1, <2>2
<1> HIDE DEF h, t
<1>2. Append(c, h) = c \o <<h>>
  BY <1>1, AppendIsConcat
<1>3. (<<h>> \o t) \o o = <<h>> \o (t \o o) /\ t \o o \in Seq(Bytes)
  BY <1>1, ConcatAssociative, ConcatProperties
<1>4. (c \o <<h>>) \o (t \o o) = c \o (<<h>> \o (t \o o))
  BY <1>1, <1>3, ConcatAssociative
<1> QED BY <1>1, <1>2, <1>3, <1>4 DEF h, t, Moves

\* Refill moves bytes into the empty buffer.
LEMMA RefillConserves == ASSUME IInv, Conserved, Refill PROVE Conserved'
<1>1. /\ pc = "read" /\ rio_buf = <<>>
      /\ UNCHANGED <<client_buf, unsent, client, reset, response, delivered>>
  BY DEF Refill, Reading, ends
<1>2. PICK k \in 1 .. RIO_BUFSIZE :
        /\ k <= Len(origin)
        /\ rio_buf' = SubSeq(origin, 1, k) /\ origin' = SubSeq(origin, k + 1, Len(origin))
  BY DEF Refill
<1>3. origin \in Seq(Bytes)
  BY DEF IInv, TypeOK
<1>4. rio_buf' \o origin' = origin
  <2>1. k \in 0 .. Len(origin) /\ k \in Nat /\ Len(origin) \in Nat
    BY <1>2, <1>3, RelayAssumption, LineAssumption
  <2>2. SubSeq(origin, 1, k) \o SubSeq(origin, k + 1, Len(origin)) = SubSeq(origin, 1, Len(origin))
    BY <1>3, <2>1, ConcatAdjacentSubSeq
  <2> QED BY <1>2, <1>3, <2>2, SubSeqFull
<1>5. rio_buf \o origin = origin
  BY <1>1, <1>3, ConcatEmptySeq
<1>6. Stream' = Stream /\ Written' = Written
  BY <1>1, <1>4, <1>5 DEF Stream, Written
<1> QED BY <1>1, <1>6, StreamStays

\* rio_readlineb takes a byte, and passes on a line that is complete.
LEMMA TakeByteConserves == ASSUME IInv, TypeOK', Conserved, TakeByte PROVE Conserved'
<1> DEFINE line == Append(client_buf, Head(rio_buf))
<1>1. /\ pc = "read" /\ rio_buf # <<>> /\ rio_buf' = Tail(rio_buf) /\ UNCHANGED origin
      /\ \/ Forward(Counted(line))
         \/ client_buf' = line /\ UNCHANGED <<unsent, client, reset, response, delivered>>
  BY DEF TakeByte, Reading, ends
<1>2. client_buf \in Seq(Bytes) /\ rio_buf \in Seq(Bytes) /\ origin \in Seq(Bytes)
  BY StreamType DEF IInv
<1>3. Stream = line \o (rio_buf' \o origin') /\ line \in Seq(Bytes)
  <2>1. Moves(client_buf, rio_buf, origin)
    BY <1>1, <1>2, FirstByteMoves
  <2>2. Stream = line \o (rio_buf' \o origin')
    BY ONLY <1>1, <2>1 DEF Stream, Moves
  <2>3. line \in Seq(Bytes)
    <3>1. Head(rio_buf) \in Bytes
      BY <1>1, <1>2
    <3> QED BY <1>2, <3>1
  <2> QED BY <2>2, <2>3
<1> HIDE DEF line
<1>4. CASE client_buf' = line /\ UNCHANGED <<unsent, client, reset, response, delivered>>
  <2>1. Stream' = Stream /\ Written' = Written
    BY <1>3, <1>4 DEF Stream, Written
  <2> QED BY <1>1, <1>4, <2>1, StreamStays
<1>5. CASE Forward(Counted(line))
  <2>1. client_buf' = <<>>
    BY <1>5 DEF Forward
  <2>2. Stream' = rio_buf' \o origin'
    <3>1. rio_buf' \in Seq(Bytes) /\ origin' \in Seq(Bytes)
      BY DEF TypeOK
    <3>2. rio_buf' \o origin' \in Seq(Bytes)
      BY <3>1, ConcatProperties
    <3> QED BY <2>1, <3>2, ConcatEmptySeq DEF Stream
  <2>3. Counted(line) = line \/ Counted(line) = Append(line, NUL)
    BY DEF Counted
  <2> QED BY <1>1, <1>3, <1>5, <2>2, <2>3, StreamPassesOn
<1> QED BY <1>1, <1>4, <1>5

\* The last line is passed on.
LEMMA EndOfTextConserves == ASSUME IInv, TypeOK', Conserved, EndOfText PROVE Conserved'
<1> DEFINE out == IF client_buf = <<>> THEN <<>> ELSE Counted(client_buf)
<1>1. /\ pc = "read" /\ rio_buf = <<>> /\ origin = <<>> /\ Forward(out)
      /\ UNCHANGED <<origin, rio_buf>>
  BY DEF EndOfText, Reading
<1>2. client_buf \in Seq(Bytes)
  BY DEF IInv, TypeOK
<1>3. out = client_buf \/ out = Append(client_buf, NUL)
  BY DEF Counted
<1>4. client_buf' = <<>>
  BY <1>1 DEF Forward
<1> HIDE DEF out
<1>5. Stream = client_buf \o Stream'
  <2>1. <<>> \o (<<>> \o <<>>) = <<>> \o <<>>
    OBVIOUS
  <2> QED BY <1>1, <1>4, <2>1 DEF Stream
<1> QED BY <1>1, <1>2, <1>3, <1>5, StreamPassesOn

\* rio_readn takes bytes, and passes on a buffer that is full.
LEMMA ReadImageConserves == ASSUME IInv, TypeOK', Conserved, ReadImage PROVE Conserved'
<1>1. pc = "read" /\ UNCHANGED rio_buf /\ rio_buf = <<>>
  BY DEF ReadImage, Reading, IInv, ImageInHand
<1>2. PICK k \in 1 .. MAXLINE - Len(client_buf) :
        /\ k <= Len(origin) /\ origin' = SubSeq(origin, k + 1, Len(origin))
        /\ LET read == client_buf \o SubSeq(origin, 1, k) IN
           IF Len(read) = MAXLINE THEN Forward(read)
           ELSE client_buf' = read
                /\ UNCHANGED <<filetype, unsent, size, pc, ends, delivered>>
  BY DEF ReadImage
<1>3. client_buf \in Seq(Bytes) /\ origin \in Seq(Bytes) /\ origin' \in Seq(Bytes)
  BY DEF IInv, TypeOK
<1> DEFINE part == SubSeq(origin, 1, k)
           read == client_buf \o part
<1>4. part \in Seq(Bytes) /\ part \o origin' = origin
  <2>1. k \in 0 .. Len(origin) /\ k \in 1 .. Len(origin)
    BY <1>2, <1>3, RelayAssumption, LineAssumption
  <2>2. part \in Seq(Bytes)
    BY <1>3, <2>1
  <2>3. SubSeq(origin, 1, k) \o SubSeq(origin, k + 1, Len(origin)) = SubSeq(origin, 1, Len(origin))
    BY <1>3, <2>1, ConcatAdjacentSubSeq
  <2> QED BY <1>2, <1>3, <2>2, <2>3, SubSeqFull
<1>5. \/ Forward(read)
      \/ client_buf' = read /\ UNCHANGED <<unsent, client, reset, response, delivered>>
  BY <1>2 DEF ends
<1> HIDE DEF part
<1>6. read \in Seq(Bytes) /\ read \o origin' = client_buf \o origin
  <2>1. read \in Seq(Bytes)
    BY <1>3, <1>4, Joined
  <2>2. PICK p \in Seq(Bytes) : p = part
    BY <1>4
  <2>3. (client_buf \o p) \o origin' = client_buf \o (p \o origin')
    BY <1>3, Joined
  <2> QED BY <1>4, <2>1, <2>2, <2>3
<1>7. <<>> \o origin = origin /\ <<>> \o origin' = origin'
  BY <1>3, ConcatEmptySeq
<1>8. Stream = read \o origin'
  BY <1>1, <1>6, <1>7 DEF Stream
<1> HIDE DEF read
<1>9. CASE Forward(read)
  <2>1. client_buf' = <<>>
    BY <1>9 DEF Forward
  <2>2. Stream' = origin'
    BY <1>1, <1>7, <2>1 DEF Stream
  <2> QED BY <1>1, <1>6, <1>8, <1>9, <2>2, StreamPassesOn
<1>10. CASE client_buf' = read /\ UNCHANGED <<unsent, client, reset, response, delivered>>
  <2>1. Stream' = Stream /\ Written' = Written
    BY <1>1, <1>7, <1>8, <1>10 DEF Stream, Written
  <2> QED BY <1>1, <1>10, <2>1, StreamStays
<1> QED BY <1>5, <1>9, <1>10

\* The last buffer is passed on.
LEMMA EndOfImageConserves == ASSUME IInv, TypeOK', Conserved, EndOfImage PROVE Conserved'
<1>1. /\ pc = "read" /\ origin = <<>> /\ rio_buf = <<>> /\ Forward(client_buf)
      /\ UNCHANGED <<origin, rio_buf>>
  BY DEF EndOfImage, Reading, IInv, ImageInHand
<1>2. client_buf \in Seq(Bytes)
  BY DEF IInv, TypeOK
<1>3. client_buf' = <<>>
  BY <1>1 DEF Forward
<1>4. Stream = client_buf \o Stream'
  <2>1. <<>> \o (<<>> \o <<>>) = <<>> \o <<>>
    OBVIOUS
  <2> QED BY <1>1, <1>3, <2>1 DEF Stream
<1> QED BY <1>1, <1>2, <1>4, StreamPassesOn

\* What is written has been passed on before; after an error, none is.
LEMMA OthersConserve ==
  ASSUME IInv, Conserved, Write \/ WriteFails \/ ReadFails PROVE Conserved'
<1>1. CASE Write
  <2>1. Written' = Written /\ pc = "write"
    BY <1>1, WriteStep DEF Write
  <2>2. UNCHANGED <<client_buf, rio_buf, origin, client, reset, response>>
    BY <1>1 DEF Write, ends
  <2>3. Stream' = Stream
    BY <2>2 DEF Stream
  <2> QED BY <2>1, <2>2, <2>3, StreamStays
<1>2. CASE WriteFails
  BY <1>2 DEF WriteFails, Conserved
<1>3. CASE ReadFails
  <2>1. /\ pc = "read" /\ pc' = "done" /\ reset' = TRUE
        /\ UNCHANGED <<unsent, delivered, client, response>>
    BY <1>3 DEF ReadFails
  <2>2. Stream \in Seq(Bytes)
    BY StreamType DEF IInv
  <2>3. client => WithoutNuls(Written) \o Stream = response
    BY <2>1 DEF Conserved
  <2>4. Written' = Written
    BY <2>1 DEF Written
  <2>5. client => \E rest \in Seq(Bytes) : WithoutNuls(Written') \o rest = response'
    BY <2>1, <2>2, <2>3, <2>4
  <2> QED BY <2>1, <2>5 DEF Conserved
<1> QED BY <1>1, <1>2, <1>3

\* Every step conserves the response.
LEMMA StepConserves == ASSUME IInv, Conserved, [Next]_vars PROVE Conserved'
<1>1. TypeOK'
  BY StepInvariant DEF IInv
<1>2. CASE UNCHANGED vars
  BY <1>2 DEF vars, ends, Conserved, Stream, Written
<1>3. CASE Next
  BY <1>1, <1>3, RefillConserves, TakeByteConserves, EndOfTextConserves, ReadImageConserves,
     EndOfImageConserves, OthersConserve DEF Next, Goes
<1> QED BY <1>2, <1>3

\* Nothing has been read at first.
LEMMA InitConserves == ASSUME Init PROVE Conserved
<1>1. IInv
  BY InitInvariant
<1>2. /\ rio_buf = <<>> /\ client_buf = <<>> /\ unsent = <<>> /\ origin = response
      /\ ~ reset /\ delivered = <<>>
  BY DEF Init
<1>3. response \in Seq(Bytes)
  BY <1>1 DEF IInv, TypeOK
<1>4. Written = <<>>
  BY <1>2 DEF Written
<1>5. WithoutNuls(<<>>) = <<>>
  <2>1. NUL \in Sent /\ <<>> \in Seq(Sent)
    BY DEF Sent
  <2> QED BY <2>1, WithoutNulsAppend
<1>6. <<>> \o response = response
  BY <1>3, ConcatEmptySeq
<1> QED BY <1>2, <1>4, <1>5, <1>6 DEF Conserved, Stream

\* The parts of the response are a prefix of it and the rest.
LEMMA NothingLostThen == ASSUME IInv, Conserved PROVE NothingLost
<1> SUFFICES ASSUME client PROVE NothingLost
  BY DEF NothingLost
<1> DEFINE w == WithoutNuls(Written)
<1>1. /\ client_buf \in Seq(Bytes) /\ rio_buf \in Seq(Bytes) /\ origin \in Seq(Bytes)
      /\ Stream \in Seq(Bytes) /\ w \in Seq(Bytes) /\ response \in Seq(Bytes)
  BY StreamType DEF IInv
<1> HIDE DEF w
<1>2. PICK rest \in Seq(Bytes) : w \o rest = response
  BY <1>1 DEF Conserved, w
<1>3. IsPrefix(w, response)
  <2>1. Len(response) = Len(w) + Len(rest) /\ Len(w) \in Nat /\ Len(rest) \in Nat
    BY <1>1, <1>2, ConcatProperties
  <2>2. SubSeq(response, 1, Len(w)) = SubSeq(w, 1, Len(w))
    <3>1. CASE w = <<>>
      BY <1>1, <2>1, <3>1, SubSeqEmpty
    <3>2. CASE w # <<>>
      <4>1. 1 \in 1 .. Len(w) /\ Len(w) \in 1 .. Len(w)
        BY <1>1, <2>1, <3>2, EmptySeq
      <4> QED BY <1>1, <1>2, <4>1, SubSeqOfConcat1
    <3> QED BY <3>1, <3>2
  <2> QED BY <2>1, <2>2 DEF IsPrefix
<1>4. ~ reset => w \o client_buf \o rio_buf \o origin = response
  <2>1. PICK v \in Seq(Bytes) : v = w
    BY <1>1
  <2>2. v \o (client_buf \o (rio_buf \o origin)) = ((v \o client_buf) \o rio_buf) \o origin
    <3>1. JoinsAlike(v, client_buf, rio_buf, origin)
      BY <1>1, JoinedFour
    <3> QED BY <3>1 DEF JoinsAlike
  <2> QED BY <2>1, <2>2 DEF Conserved, Stream, w
<1>5. size = Len(Written)
  BY DEF IInv, Counts
<1> QED BY <1>3, <1>4, <1>5 DEF NothingLost, w

(* For any sizes of the buffers and any response: as long as the client    *)
(* reads, what it is sent without the NULs is the response as far as it    *)
(* has been passed on, and the size in the log counts what it is sent.     *)
THEOREM AllIsForwarded == Spec => []NothingLost
<1>1. IInv /\ Conserved /\ [Next]_vars => IInv' /\ Conserved'
  BY StepInvariant, StepConserves
<1>2. Init => IInv /\ Conserved
  BY InitInvariant, InitConserves
<1>3. IInv /\ Conserved => NothingLost
  BY NothingLostThen
<1> QED BY <1>1, <1>2, <1>3, PTL DEF Spec

----------------------------------------------------------------------------
(* Request: parse_uri.                                                     *)

Scheme(u) == IF u.scheme = "http" THEN <<HTTP, SLASH, SLASH>> ELSE <<SLASH, SLASH, SLASH>>

PortTokens(u) ==
  CASE u.port = None -> <<>> [] u.port = NOTHING -> <<COLON>> [] OTHER -> <<COLON, u.port>>

\* The token of the uri u at k.
Token(u, k) == Tokens(u)[k]

TokenSet == {HTTP, SLASH, COLON, "h", "p", "8080", NOTHING}

LEMMA TokensDiffer ==
  /\ SLASH # COLON /\ SLASH # "h" /\ COLON # "h" /\ SLASH # "8080"
BY Zenon DEF SLASH, COLON

\* Tokens in a row.
LEMMA Rows ==
  ASSUME NEW S, NEW a \in S, NEW b \in S, NEW c \in S, NEW d \in S
  PROVE  /\ <<>> \in Seq(S) /\ <<a>> \in Seq(S) /\ <<a, b>> \in Seq(S)
         /\ <<a, b, c>> \in Seq(S) /\ <<a, b, c, d>> \in Seq(S)
         /\ Len(<<a>>) = 1 /\ Len(<<a, b>>) = 2 /\ Len(<<a, b, c>>) = 3 /\ Len(<<>>) = 0
         /\ Len(<<a, b, c, d>>) = 4 /\ <<a, b>>[1] = a /\ <<a, b>>[2] = b /\ <<a>>[1] = a
         /\ <<a, b, c, d>>[1] = a
OBVIOUS

\* r is the tokens of s and, after them, those of t.
Joins(s, t, r) ==
  /\ r \in Seq(TokenSet) /\ Len(r) = Len(s) + Len(t)
  /\ \A k \in 1 .. Len(s) : r[k] = s[k]
  /\ \A k \in 1 .. Len(t) : r[Len(s) + k] = t[k]

LEMMA Appended ==
  ASSUME NEW s \in Seq(TokenSet), NEW t \in Seq(TokenSet)
  PROVE  Joins(s, t, s \o t)
BY DEF Joins

LEMMA PieceOf ==
  ASSUME NEW S, NEW s \in Seq(S), NEW m \in 1 .. Len(s) + 1
  PROVE  /\ SubSeq(s, m, Len(s)) \in Seq(S) /\ Len(SubSeq(s, m, Len(s))) = Len(s) - m + 1
         /\ \A k \in 1 .. Len(s) - m + 1 : SubSeq(s, m, Len(s))[k] = s[m + k - 1]
OBVIOUS

(* Where the parts of a uri are: the host is the fourth token, the port's  *)
(* tokens and the path follow.                                             *)
LEMMA TokensAt ==
  ASSUME NEW u \in Uris, NEW p, p = PortTokens(u)
  PROVE  /\ Tokens(u) \in Seq(TokenSet) /\ p \in Seq(TokenSet) /\ u.path \in Seq(TokenSet)
         /\ Len(Tokens(u)) = 4 + Len(p) + Len(u.path)
         /\ Token(u, 4) = u.host
         /\ \A k \in 1 .. Len(p) : Token(u, 4 + k) = p[k]
         /\ \A k \in 1 .. Len(u.path) : Token(u, 4 + Len(p) + k) = u.path[k]
<1> DEFINE S == Scheme(u)
           H == <<u.host>>
           q == u.path
<1>1. u.host \in TokenSet /\ q \in Seq(TokenSet)
  <2>1. SLASH \in TokenSet /\ COLON \in TokenSet /\ "p" \in TokenSet
    BY DEF TokenSet
  <2>2. /\ <<>> \in Seq(TokenSet) /\ <<SLASH>> \in Seq(TokenSet)
        /\ <<SLASH, "p", COLON, SLASH>> \in Seq(TokenSet)
    BY <2>1, Rows
  <2>3. q \in UriPaths /\ u.host = "h"
    BY DEF Uris
  <2>4. "h" \in TokenSet
    BY DEF TokenSet
  <2> QED BY <2>2, <2>3, <2>4 DEF UriPaths
<1>2. S \in Seq(TokenSet) /\ Len(S) = 3
  <2>1. HTTP \in TokenSet /\ SLASH \in TokenSet
    BY DEF TokenSet
  <2>2. /\ <<HTTP, SLASH, SLASH>> \in Seq(TokenSet) /\ Len(<<HTTP, SLASH, SLASH>>) = 3
        /\ <<SLASH, SLASH, SLASH>> \in Seq(TokenSet) /\ Len(<<SLASH, SLASH, SLASH>>) = 3
    BY <2>1, Rows
  <2> QED BY <2>2 DEF Scheme
<1>3. H \in Seq(TokenSet) /\ Len(H) = 1 /\ H[1] = u.host
  BY <1>1
<1>4. p \in Seq(TokenSet)
  <2>1. COLON \in TokenSet /\ (u.port \notin {None, NOTHING} => u.port \in TokenSet)
    BY DEF Uris, Ports, TokenSet
  <2>2. <<>> \in Seq(TokenSet) /\ <<COLON>> \in Seq(TokenSet)
    BY <2>1, Rows
  <2>3. u.port \notin {None, NOTHING} => <<COLON, u.port>> \in Seq(TokenSet)
    BY <2>1, Rows
  <2> QED BY <2>2, <2>3 DEF PortTokens
<1>5. Tokens(u) = ((S \o H) \o p) \o q
  BY DEF Tokens, Scheme, PortTokens
<1> HIDE DEF S, H, q
<1>l. Len(p) \in Nat /\ Len(q) \in Nat
  BY <1>1, <1>4
<1>6. /\ S \o H \in Seq(TokenSet) /\ Len(S \o H) = 4 /\ (S \o H)[4] = u.host
  <2>1. /\ S \o H \in Seq(TokenSet) /\ Len(S \o H) = Len(S) + Len(H)
        /\ \A k \in 1 .. Len(H) : (S \o H)[Len(S) + k] = H[k]
    <3>1. Joins(S, H, S \o H)
      BY ONLY <1>2, <1>3, Appended
    <3> QED BY ONLY <3>1 DEF Joins
  <2>2. 1 \in 1 .. Len(H) /\ Len(S) + 1 = 4
    BY ONLY <1>2, <1>3
  <2>3. (S \o H)[Len(S) + 1] = H[1]
    BY ONLY <2>1, <2>2
  <2> QED BY ONLY <1>2, <1>3, <2>1, <2>2, <2>3
<1> DEFINE SH == S \o H
<1> HIDE DEF SH
<1>i. SH \in Seq(TokenSet) /\ Len(SH) = 4 /\ SH[4] = u.host
  BY ONLY <1>6 DEF SH
<1>7. /\ SH \o p \in Seq(TokenSet) /\ Len(SH \o p) = 4 + Len(p) /\ (SH \o p)[4] = u.host
      /\ \A k \in 1 .. Len(p) : (SH \o p)[4 + k] = p[k]
  <2>1. /\ SH \o p \in Seq(TokenSet) /\ Len(SH \o p) = Len(SH) + Len(p)
        /\ \A k \in 1 .. Len(SH) : (SH \o p)[k] = SH[k]
        /\ \A k \in 1 .. Len(p) : (SH \o p)[Len(SH) + k] = p[k]
    <3>1. Joins(SH, p, SH \o p)
      BY ONLY <1>4, <1>i, Appended
    <3> QED BY ONLY <3>1 DEF Joins
  <2>2. 4 \in 1 .. Len(SH)
    BY ONLY <1>i
  <2> QED BY ONLY <1>i, <2>1, <2>2
<1> DEFINE SHp == SH \o p
<1> HIDE DEF SHp
<1>j. /\ SHp \in Seq(TokenSet) /\ Len(SHp) = 4 + Len(p) /\ SHp[4] = u.host
      /\ \A k \in 1 .. Len(p) : SHp[4 + k] = p[k]
  BY ONLY <1>7 DEF SHp
<1>8. /\ SHp \o q \in Seq(TokenSet) /\ Len(SHp \o q) = 4 + Len(p) + Len(q)
      /\ (SHp \o q)[4] = u.host
      /\ \A k \in 1 .. Len(p) : (SHp \o q)[4 + k] = p[k]
      /\ \A k \in 1 .. Len(q) : (SHp \o q)[4 + Len(p) + k] = q[k]
  <2>1. /\ SHp \o q \in Seq(TokenSet) /\ Len(SHp \o q) = Len(SHp) + Len(q)
        /\ \A k \in 1 .. Len(SHp) : (SHp \o q)[k] = SHp[k]
        /\ \A k \in 1 .. Len(q) : (SHp \o q)[Len(SHp) + k] = q[k]
    <3>1. Joins(SHp, q, SHp \o q)
      BY ONLY <1>1, <1>j, Appended
    <3> QED BY ONLY <3>1 DEF Joins
  <2>2. 4 \in 1 .. Len(SHp) /\ \A k \in 1 .. Len(p) : 4 + k \in 1 .. Len(SHp)
    BY ONLY <1>j, <1>l
  <2>3. \A k \in 1 .. Len(p) : (SHp \o q)[4 + k] = SHp[4 + k]
    BY ONLY <2>1, <2>2
  <2> QED BY ONLY <1>j, <2>1, <2>2, <2>3
<1> QED BY <1>1, <1>4, <1>5, <1>8 DEF SH, SHp, Token, q

\* The first place is the one before which there is none.
LEMMA FirstIs ==
  ASSUME NEW places \in SUBSET Int, NEW k \in places, \A j \in places : k <= j
  PROVE  First(places) = k
<1>1. \A i \in places : (\A j \in places : i <= j) => i = k
  <2> SUFFICES ASSUME NEW i \in places, \A j \in places : i <= j PROVE i = k
    OBVIOUS
  <2>1. i \in Int /\ k \in Int /\ i <= k /\ k <= i
    OBVIOUS
  <2> QED BY <2>1
<1> QED BY <1>1 DEF First

(* What follows the host: nothing, a colon or a slash; no slash in the     *)
(* tokens of the port, and one at the beginning of the path.               *)
LEMMA UriParts ==
  ASSUME NEW u \in Uris, NEW p, p = PortTokens(u)
  PROVE  /\ u.host = "h" /\ Len(p) \in 0 .. 2 /\ Len(u.path) \in Nat
         /\ u.port = None => Len(p) = 0
         /\ u.port = NOTHING => Len(p) = 1
         /\ u.port \notin {None, NOTHING} => Len(p) = 2 /\ u.port = "8080" /\ p[2] = "8080"
         /\ Len(p) > 0 => p[1] = COLON
         /\ u.path = <<>> <=> Len(u.path) = 0
         /\ Len(u.path) > 0 => u.path[1] = SLASH
<1>1. u.port \in {None, NOTHING, "8080"} /\ u.host = "h"
  BY DEF Uris, Ports
<1>2. u.path \in {<<>>, <<SLASH>>, <<SLASH, "p", COLON, SLASH>>}
  BY DEF Uris, UriPaths
<1>3. /\ u.path = <<>> <=> Len(u.path) = 0
      /\ Len(u.path) \in Nat
      /\ Len(u.path) > 0 => u.path[1] = SLASH
  <2>1. CASE u.path = <<>>
    BY <2>1
  <2>2. CASE u.path = <<SLASH>>
    BY <2>2
  <2>3. CASE u.path = <<SLASH, "p", COLON, SLASH>>
    BY <2>3
  <2> QED BY <1>2, <2>1, <2>2, <2>3
<1>4. None # NOTHING /\ None # "8080" /\ NOTHING # "8080"
  BY Zenon DEF None, NOTHING
<1>5. CASE u.port = None
  <2>1. p = <<>>
    BY <1>4, <1>5 DEF PortTokens
  <2>2. Len(p) = 0
    BY ONLY <2>1
  <2> QED BY ONLY <1>1, <1>3, <1>4, <1>5, <2>2
<1>6. CASE u.port = NOTHING
  <2>1. p = <<COLON>>
    BY <1>4, <1>6 DEF PortTokens
  <2>2. Len(p) = 1 /\ p[1] = COLON
    BY ONLY <2>1
  <2> QED BY ONLY <1>1, <1>3, <1>4, <1>6, <2>2
<1>7. CASE u.port = "8080"
  <2>1. p = <<COLON, "8080">>
    BY <1>4, <1>7 DEF PortTokens
  <2>2. Len(p) = 2 /\ p[1] = COLON /\ p[2] = "8080"
    BY ONLY <2>1
  <2> QED BY ONLY <1>1, <1>3, <1>4, <1>7, <2>2
<1> QED BY <1>1, <1>5, <1>6, <1>7

\* The host ends at the fifth token, if there is one.
LEMMA HostEnd ==
  ASSUME NEW u \in Uris, NEW p, p = PortTokens(u)
  PROVE  /\ Places(u, {COLON, SLASH}) = {} <=> Len(p) = 0 /\ Len(u.path) = 0
         /\ Places(u, {COLON, SLASH}) # {} => First(Places(u, {COLON, SLASH})) = 5
<1> DEFINE places == Places(u, {COLON, SLASH})
<1>0. PICK n \in Nat, a \in 0 .. 2, b \in Nat :
        n = Len(Tokens(u)) /\ a = Len(p) /\ b = Len(u.path)
  <2>1. Len(Tokens(u)) \in Nat
    <3>1. Tokens(u) \in Seq(TokenSet)
      BY TokensAt
    <3> QED BY ONLY <3>1
  <2>2. Len(p) \in 0 .. 2 /\ Len(u.path) \in Nat
    BY UriParts
  <2> QED BY ONLY <2>1, <2>2
<1>n. n = 4 + a + b
  <2>1. Len(Tokens(u)) = 4 + Len(p) + Len(u.path)
    BY TokensAt
  <2> QED BY ONLY <1>0, <2>1
<1>1. /\ Token(u, 4) = "h"
      /\ a > 0 => Token(u, 5) = COLON
      /\ a = 0 /\ b > 0 => Token(u, 5) = SLASH
  <2>1. \A k \in 1 .. a : Token(u, 4 + k) = p[k]
    BY <1>0, TokensAt
  <2>2. \A k \in 1 .. b : Token(u, 4 + a + k) = u.path[k]
    BY <1>0, TokensAt
  <2>3. Token(u, 4) = u.host
    BY TokensAt
  <2>4. /\ u.host = "h"
        /\ a > 0 => p[1] = COLON
        /\ b > 0 => u.path[1] = SLASH
    BY <1>0, UriParts
  <2>5. a > 0 => Token(u, 5) = COLON
    BY ONLY <2>1, <2>4, a \in 0 .. 2
  <2>6. a = 0 /\ b > 0 => Token(u, 5) = SLASH
    BY ONLY <2>2, <2>4, a \in 0 .. 2, b \in Nat
  <2> QED BY ONLY <2>3, <2>4, <2>5, <2>6
<1>2. places = {k \in 4 .. n : Token(u, k) \in {COLON, SLASH}}
  BY ONLY <1>0 DEF Places, Token
<1> HIDE DEF places
<1>3. \A j \in places : j \in Int /\ 5 <= j /\ j <= n
  <2> SUFFICES ASSUME NEW j \in places PROVE j \in Int /\ 5 <= j /\ j <= n
    OBVIOUS
  <2>1. j \in 4 .. n /\ Token(u, j) \in {COLON, SLASH}
    BY ONLY j \in places, <1>2
  <2>2. j # 4
    BY ONLY <1>1, <2>1, TokensDiffer
  <2> QED BY ONLY n \in Nat, <2>1, <2>2
<1>4. 5 \in places <=> a > 0 \/ b > 0
  <2>1. 5 \in 4 .. n <=> a > 0 \/ b > 0
    BY ONLY <1>n, n \in Nat, a \in 0 .. 2, b \in Nat
  <2>2. a > 0 \/ b > 0 => Token(u, 5) \in {COLON, SLASH}
    BY ONLY <1>1, a \in 0 .. 2, b \in Nat
  <2> QED BY ONLY <1>2, <2>1, <2>2
<1>5. places # {} => 5 \in places
  BY ONLY <1>n, <1>3, <1>4, n \in Nat, a \in 0 .. 2, b \in Nat
<1>6. places # {} => First(places) = 5
  <2> SUFFICES ASSUME places # {} PROVE First(places) = 5
    OBVIOUS
  <2>1. places \in SUBSET Int /\ 5 \in places /\ \A j \in places : 5 <= j
    BY <1>3, <1>5
  <2> QED BY ONLY <2>1, FirstIs
<1>7. places = {} <=> a = 0 /\ b = 0
  BY ONLY <1>4, <1>5, a \in 0 .. 2, b \in Nat
<1> QED BY ONLY <1>0, <1>6, <1>7 DEF places

\* The path begins at the first slash behind the host.
LEMMA PathIs ==
  ASSUME NEW u \in Uris, NEW p, p = PortTokens(u)
  PROVE  PathOf(u) = IF u.path = <<>> THEN <<SLASH>> ELSE u.path
<1>0. PICK n \in Nat, a \in 0 .. 2, b \in Nat :
        n = Len(Tokens(u)) /\ a = Len(p) /\ b = Len(u.path)
  <2>1. Len(Tokens(u)) \in Nat
    <3>1. Tokens(u) \in Seq(TokenSet)
      BY TokensAt
    <3> QED BY ONLY <3>1
  <2>2. Len(p) \in 0 .. 2 /\ Len(u.path) \in Nat
    BY UriParts
  <2> QED BY ONLY <2>1, <2>2
<1>n. n = 4 + a + b
  <2>1. Len(Tokens(u)) = 4 + Len(p) + Len(u.path)
    BY TokensAt
  <2> QED BY ONLY <1>0, <2>1
<1> DEFINE places == Places(u, {SLASH})
           from == 4 + a + 1
<1>1. /\ Tokens(u) \in Seq(TokenSet) /\ u.path \in Seq(TokenSet)
      /\ Token(u, 4) = u.host
      /\ \A k \in 1 .. a : Token(u, 4 + k) = p[k]
      /\ \A k \in 1 .. b : Token(u, 4 + a + k) = u.path[k]
  BY <1>0, TokensAt
<1>2. /\ u.host = "h"
      /\ a > 0 => p[1] = COLON
      /\ a = 2 => p[2] = "8080"
      /\ u.path = <<>> <=> b = 0
      /\ b > 0 => u.path[1] = SLASH
  <2>1. /\ u.host = "h"
        /\ a > 0 => p[1] = COLON
        /\ u.path = <<>> <=> b = 0
        /\ b > 0 => u.path[1] = SLASH
    BY <1>0, UriParts
  <2>2. a = 2 => u.port \notin {None, NOTHING}
    <3>1. (u.port = None => Len(p) = 0) /\ (u.port = NOTHING => Len(p) = 1)
      BY UriParts
    <3> QED BY ONLY <1>0, <3>1
  <2>3. u.port \notin {None, NOTHING} => p[2] = "8080"
    BY UriParts
  <2> QED BY ONLY <2>1, <2>2, <2>3
<1>3. places = {k \in 4 .. n : Token(u, k) = SLASH}
  BY ONLY <1>0 DEF Places, Token
<1> HIDE DEF places
<1>4. \A j \in places : j \in Int /\ from <= j /\ j <= n
  <2> SUFFICES ASSUME NEW j \in places PROVE j \in Int /\ from <= j /\ j <= n
    OBVIOUS
  <2>1. j \in 4 .. n /\ Token(u, j) = SLASH /\ j \in Int
    BY ONLY j \in places, <1>3
  <2>2. j # 4
    BY ONLY <1>1, <1>2, <2>1, TokensDiffer
  <2>3. ASSUME j < from PROVE FALSE
    <3>1. j - 4 \in 1 .. a /\ 4 + (j - 4) = j
      BY ONLY <2>1, <2>2, <2>3, a \in 0 .. 2, n \in Nat
    <3>2. Token(u, j) = p[j - 4]
      <4>1. Token(u, 4 + (j - 4)) = p[j - 4]
        BY ONLY <1>1, <3>1
      <4> QED BY ONLY <3>1, <4>1
    <3>3. j - 4 = 1 \/ (j - 4 = 2 /\ a = 2)
      BY ONLY <3>1, <2>1, a \in 0 .. 2
    <3>4. a > 0
      BY ONLY <3>1, <2>1, a \in 0 .. 2
    <3>5. p[j - 4] # SLASH
      BY ONLY <1>2, <3>3, <3>4, TokensDiffer
    <3> QED BY ONLY <2>1, <3>2, <3>5
  <2> QED BY ONLY <2>1, <2>3, n \in Nat, a \in 0 .. 2
<1>5. from \in Int /\ (b > 0 => from \in 4 .. n) /\ (b = 0 => from > n)
  BY ONLY <1>n, n \in Nat, a \in 0 .. 2, b \in Nat
<1>6. CASE u.path = <<>>
  <2>1. places = {}
    BY ONLY <1>2, <1>4, <1>5, <1>6, n \in Nat
  <2> QED BY <1>6, <2>1 DEF PathOf, places
<1>7. CASE u.path # <<>>
  <2>0. b > 0
    BY ONLY <1>2, <1>7, b \in Nat
  <2>1. from \in places
    <3>1. Token(u, from) = SLASH
      <4>1. 1 \in 1 .. b
        BY ONLY <2>0, b \in Nat
      <4> QED BY ONLY <1>1, <1>2, <2>0, <4>1
    <3> QED BY ONLY <1>3, <1>5, <2>0, <3>1
  <2>2. First(places) = from
    <3>1. places \in SUBSET Int /\ \A j \in places : from <= j
      BY ONLY <1>4
    <3> QED BY ONLY <2>1, <3>1, FirstIs
  <2>3. PathOf(u) = SubSeq(Tokens(u), from, Len(Tokens(u)))
    BY <2>1, <2>2 DEF PathOf, places
  <2>4. SubSeq(Tokens(u), from, Len(Tokens(u))) = u.path
    <3> DEFINE s == SubSeq(Tokens(u), from, Len(Tokens(u)))
    <3>0. from \in 1 .. Len(Tokens(u)) + 1 /\ Len(Tokens(u)) - from + 1 = b
      <4>1. from \in 1 .. n + 1 /\ n - from + 1 = b
        BY ONLY <1>n, n \in Nat, a \in 0 .. 2, b \in Nat
      <4> QED BY ONLY <1>0, <4>1
    <3> HIDE DEF from
    <3>a. /\ s \in Seq(TokenSet) /\ Len(s) = b
          /\ \A k \in 1 .. b : s[k] = Tokens(u)[from + k - 1]
      BY ONLY <1>1, <3>0, PieceOf
    <3>2. ASSUME NEW k \in 1 .. b PROVE s[k] = u.path[k]
      <4>1. s[k] = Tokens(u)[from + k - 1]
        BY ONLY k \in 1 .. b, <3>a
      <4>2. from + k - 1 = 4 + a + k
        BY ONLY k \in 1 .. b, a \in 0 .. 2, b \in Nat DEF from
      <4>3. Token(u, 4 + a + k) = u.path[k]
        BY ONLY k \in 1 .. b, <1>1
      <4> QED BY ONLY <4>1, <4>2, <4>3 DEF Token
    <3> HIDE DEF s
    <3>3. s = u.path
      BY ONLY <1>0, <1>1, <3>a, <3>2, SeqEqual
    <3> QED BY <3>3 DEF s
  <2> QED BY <1>7, <2>3, <2>4
<1> QED BY <1>6, <1>7

\* The port: 80 without one, and 0 for one without digits.
PortIs(u) == CASE u.port = None -> "80" [] u.port = NOTHING -> "0" [] OTHER -> u.port

LEMMA PortFound ==
  ASSUME NEW u \in Uris, NEW p, p = PortTokens(u), ~(u.port = None /\ u.path = <<>>)
  PROVE  (IF Token(u, 5) = COLON THEN Number(u, 6) ELSE "80") = PortIs(u)
<1>0. PICK n \in Nat, a \in 0 .. 2, b \in Nat :
        n = Len(Tokens(u)) /\ a = Len(p) /\ b = Len(u.path)
  <2>1. Len(Tokens(u)) \in Nat
    <3>1. Tokens(u) \in Seq(TokenSet)
      BY TokensAt
    <3> QED BY ONLY <3>1
  <2>2. Len(p) \in 0 .. 2 /\ Len(u.path) \in Nat
    BY UriParts
  <2> QED BY ONLY <2>1, <2>2
<1>n. n = 4 + a + b
  <2>1. Len(Tokens(u)) = 4 + Len(p) + Len(u.path)
    BY TokensAt
  <2> QED BY ONLY <1>0, <2>1
<1>1. /\ \A k \in 1 .. a : Token(u, 4 + k) = p[k]
      /\ \A k \in 1 .. b : Token(u, 4 + a + k) = u.path[k]
  BY <1>0, TokensAt
<1>2. /\ a > 0 => p[1] = COLON
      /\ u.path = <<>> <=> b = 0
      /\ b > 0 => u.path[1] = SLASH
  BY <1>0, UriParts
<1>3. /\ u.port = None => Len(p) = 0
      /\ u.port = NOTHING => Len(p) = 1
      /\ u.port \notin {None, NOTHING} => Len(p) = 2 /\ u.port = "8080" /\ p[2] = "8080"
  BY UriParts
<1>4. None # NOTHING /\ None # "8080" /\ NOTHING # "8080"
  BY Zenon DEF None, NOTHING
<1>5. Number(u, 6) = IF 6 <= n /\ Token(u, 6) = "8080" THEN "8080" ELSE "0"
  BY <1>0 DEF Number, Token
<1>6. CASE u.port = None
  <2>1. a = 0 /\ b > 0
    BY ONLY <1>0, <1>2, <1>3, <1>6, ~(u.port = None /\ u.path = <<>>), b \in Nat
  <2>2. Token(u, 5) = SLASH
    <3>1. 1 \in 1 .. b
      BY ONLY <2>1, b \in Nat
    <3> QED BY ONLY <1>1, <1>2, <2>1, <3>1
  <2>3. PortIs(u) = "80"
    BY <1>4, <1>6 DEF PortIs
  <2> QED BY <2>2, <2>3, TokensDiffer
<1>7. CASE u.port = NOTHING
  <2>1. a = 1
    BY ONLY <1>0, <1>3, <1>7
  <2>2. Token(u, 5) = COLON
    <3>1. 1 \in 1 .. a
      BY ONLY <2>1
    <3> QED BY ONLY <1>1, <1>2, <2>1, <3>1
  <2>3. ~(6 <= n /\ Token(u, 6) = "8080")
    <3> SUFFICES ASSUME 6 <= n PROVE Token(u, 6) # "8080"
      OBVIOUS
    <3>1. 1 \in 1 .. b /\ b > 0
      BY ONLY <1>n, <2>1, b \in Nat, 6 <= n
    <3>2. Token(u, 6) = SLASH
      BY ONLY <1>1, <1>2, <2>1, <3>1
    <3> QED BY <3>2, TokensDiffer
  <2>4. PortIs(u) = "0"
    BY <1>4, <1>7 DEF PortIs
  <2> QED BY <1>5, <2>2, <2>3, <2>4
<1>8. CASE u.port \notin {None, NOTHING}
  <2>1. a = 2 /\ u.port = "8080" /\ p[2] = "8080"
    BY ONLY <1>0, <1>3, <1>8
  <2>2. Token(u, 5) = COLON /\ Token(u, 6) = "8080"
    <3>1. 1 \in 1 .. a /\ 2 \in 1 .. a
      BY ONLY <2>1
    <3> QED BY ONLY <1>1, <1>2, <2>1, <3>1
  <2>3. 6 <= n
    BY ONLY <1>n, <2>1, b \in Nat
  <2>4. PortIs(u) = "8080"
    BY <1>8, <2>1 DEF PortIs
  <2> QED BY <1>5, <2>2, <2>3, <2>4
<1> QED BY <1>6, <1>7, <1>8

\* What parse_uri finds in a uri.
LEMMA UriIsSplit ==
  ASSUME NEW u \in Uris
  PROVE  /\ Places(u, {COLON, SLASH}) = {} <=> u.port = None /\ u.path = <<>>
         /\ Places(u, {COLON, SLASH}) # {} =>
              LET hostend == First(Places(u, {COLON, SLASH})) IN
              /\ Tokens(u)[hostend - 1] = u.host
              /\ (IF Tokens(u)[hostend] = COLON THEN Number(u, hostend + 1) ELSE "80") = PortIs(u)
              /\ PathOf(u) = IF u.path = <<>> THEN <<SLASH>> ELSE u.path
<1> DEFINE p == PortTokens(u)
<1>p. p = PortTokens(u)
  OBVIOUS
<1> HIDE DEF p
<1>1. /\ Places(u, {COLON, SLASH}) = {} <=> Len(p) = 0 /\ Len(u.path) = 0
      /\ Places(u, {COLON, SLASH}) # {} => First(Places(u, {COLON, SLASH})) = 5
  BY <1>p, HostEnd
<1>2. u.path = <<>> <=> Len(u.path) = 0
  BY <1>p, UriParts
<1>3. Len(p) = 0 <=> u.port = None
  <2>1. /\ u.port = None => Len(p) = 0
        /\ u.port = NOTHING => Len(p) = 1
        /\ u.port \notin {None, NOTHING} => Len(p) = 2
    BY <1>p, UriParts
  <2> QED BY ONLY <2>1
<1>4. /\ Places(u, {COLON, SLASH}) = {} <=> u.port = None /\ u.path = <<>>
  BY ONLY <1>1, <1>2, <1>3
<1>5. Token(u, 4) = u.host
  BY <1>p, TokensAt
<1>6. PathOf(u) = IF u.path = <<>> THEN <<SLASH>> ELSE u.path
  BY <1>p, PathIs
<1>7. ASSUME Places(u, {COLON, SLASH}) # {}
      PROVE  (IF Token(u, 5) = COLON THEN Number(u, 6) ELSE "80") = PortIs(u)
  <2>1. ~(u.port = None /\ u.path = <<>>)
    BY <1>4, <1>7
  <2> QED BY <1>p, <2>1, PortFound
<1>8. ASSUME Places(u, {COLON, SLASH}) # {}
      PROVE  LET hostend == First(Places(u, {COLON, SLASH})) IN
             /\ Tokens(u)[hostend - 1] = u.host
             /\ (IF Tokens(u)[hostend] = COLON THEN Number(u, hostend + 1) ELSE "80") = PortIs(u)
  <2> DEFINE hostend == First(Places(u, {COLON, SLASH}))
  <2>1. hostend = 5
    BY <1>1, <1>8
  <2> HIDE DEF hostend
  <2>2. hostend - 1 = 4 /\ hostend + 1 = 6
    BY ONLY <2>1
  <2>3. /\ Tokens(u)[hostend - 1] = u.host
        /\ (IF Tokens(u)[hostend] = COLON THEN Number(u, hostend + 1) ELSE "80") = PortIs(u)
    BY <1>5, <1>7, <1>8, <2>1, <2>2 DEF Token
  <2> QED BY <2>3 DEF hostend
<1> QED BY <1>4, <1>6, <1>8

UriInv == uri \in Uris /\ UriAsSplit

(* Only parse_uri finds the parts of the uri, and only while the request   *)
(* line is the last line read.                                             *)
LEMMA UriInvStep == UriInv /\ [RequestNext]_requestVars => UriInv'
<1> SUFFICES ASSUME UriInv, [RequestNext]_requestVars PROVE UriInv'
  OBVIOUS
<1>1. ASSUME UNCHANGED <<uri, names>>, at \notin {"line", "501", "crashed"} \/ at' = at \/ at' = "501",
             at' # "crashed" \/ at' = at
      PROVE  UriInv'
  BY <1>1 DEF UriInv, UriAsSplit, names
<1>2. CASE NotImplemented
  BY <1>1, <1>2 DEF NotImplemented
<1>3. CASE SplitUri
  <2>1. uri \in Uris /\ uri' = uri /\ at = "line"
    BY <1>3 DEF UriInv, SplitUri
  <2>2. CASE uri.scheme # "http"
    <3>1. hostname' = NOTHING /\ at' = "headers"
      BY <1>3, <2>2 DEF SplitUri
    <3> QED BY <2>1, <2>2, <3>1 DEF UriInv, UriAsSplit
  <2>3. CASE uri.scheme = "http" /\ Places(uri, {COLON, SLASH}) = {}
    <3>1. at' = "crashed"
      BY <1>3, <2>3 DEF SplitUri
    <3>2. uri.port = None /\ uri.path = <<>>
      BY <2>1, <2>3, UriIsSplit
    <3> QED BY <2>1, <3>1, <3>2 DEF UriInv, UriAsSplit
  <2>4. CASE uri.scheme = "http" /\ Places(uri, {COLON, SLASH}) # {}
    <3> DEFINE hostend == First(Places(uri, {COLON, SLASH}))
    <3>1. /\ at' = "headers"
          /\ hostname' = Tokens(uri)[hostend - 1]
          /\ port' = IF Tokens(uri)[hostend] = COLON THEN Number(uri, hostend + 1) ELSE "80"
          /\ pathname' = PathOf(uri)
      BY <1>3, <2>4 DEF SplitUri
    <3>2. /\ Tokens(uri)[hostend - 1] = uri.host
          /\ (IF Tokens(uri)[hostend] = COLON THEN Number(uri, hostend + 1) ELSE "80") = PortIs(uri)
          /\ PathOf(uri) = IF uri.path = <<>> THEN <<SLASH>> ELSE uri.path
          /\ ~(uri.port = None /\ uri.path = <<>>)
      BY <2>1, <2>4, UriIsSplit
    <3> HIDE DEF hostend
    <3>3. /\ hostname' = uri.host /\ port' = PortIs(uri)
          /\ pathname' = IF uri.path = <<>> THEN <<SLASH>> ELSE uri.path
      BY <3>1, <3>2
    <3> QED BY <2>1, <2>4, <3>1, <3>2, <3>3 DEF UriInv, UriAsSplit, PortIs
  <2> QED BY <2>2, <2>3, <2>4
<1>4. CASE Collect
  BY <1>1, <1>4 DEF Collect
<1>5. CASE HeaderBreaks
  BY <1>1, <1>5 DEF HeaderBreaks
<1>6. CASE Send
  BY <1>1, <1>6 DEF Send
<1>7. CASE UNCHANGED requestVars
  BY <1>1, <1>7 DEF requestVars
<1> QED BY <1>2, <1>3, <1>4, <1>5, <1>6, <1>7 DEF RequestNext, Reads

(* parse_uri undoes what the client put together.  It crashes for a host   *)
(* with neither port nor path.                                             *)
THEOREM UriIsTakenApart == RequestSpec => []UriAsSplit
<1>1. RequestInit => UriInv
  <2> SUFFICES ASSUME RequestInit PROVE UriInv
    OBVIOUS
  <2>1. at = "line"
    BY DEF RequestInit
  <2>2. AnyUri \in Uris
    BY DEF AnyUri, Uris, Ports, UriPaths
  <2>3. uri \in Uris
    BY <2>2 DEF RequestInit
  <2> QED BY <2>1, <2>3 DEF UriInv, UriAsSplit
<1>2. UriInv => UriAsSplit
  BY DEF UriInv
<1> QED BY <1>1, <1>2, UriInvStep, PTL DEF RequestSpec

----------------------------------------------------------------------------
(* Request: the headers.                                                   *)

Chars == {CR, NL, "c", GET}

\* r is what s has from m to n.
IsPart(s, m, n, r) ==
  r \in Seq(Chars) /\ Len(r) = n - m + 1 /\ \A j \in 1 .. n - m + 1 : r[j] = s[m + j - 1]

LEMMA PartOf ==
  ASSUME NEW s \in Seq(Chars), NEW m \in 1 .. Len(s) + 1, NEW n \in m - 1 .. Len(s)
  PROVE  IsPart(s, m, n, SubSeq(s, m, n))
BY DEF IsPart

LEMMA PartUnique ==
  ASSUME NEW s, NEW m \in Int, NEW n \in Int, n - m + 1 >= 0, NEW r, NEW t,
         IsPart(s, m, n, r), IsPart(s, m, n, t)
  PROVE  r = t
<1>1. r \in Seq(Chars) /\ t \in Seq(Chars) /\ Len(r) = Len(t)
  BY DEF IsPart
<1>2. \A j \in 1 .. Len(r) : r[j] = t[j]
  BY DEF IsPart
<1> QED BY <1>1, <1>2, SeqEqual

\* A part of the rest of h is a part of h.
LEMMA PartOfRest ==
  ASSUME NEW h \in Seq(Chars), NEW pos \in 0 .. Len(h), NEW s,
         IsPart(h, pos + 1, Len(h), s),
         NEW m \in 1 .. Len(s) + 1, NEW n \in m - 1 .. Len(s)
  PROVE  SubSeq(s, m, n) = SubSeq(h, pos + m, pos + n)
<1>0. Len(h) \in Nat
  OBVIOUS
<1>1. s \in Seq(Chars) /\ Len(s) = Len(h) - pos /\ \A j \in 1 .. Len(h) - pos : s[j] = h[pos + j]
  <2>1. Len(h) - (pos + 1) + 1 = Len(h) - pos /\ \A j \in Int : pos + 1 + j - 1 = pos + j
    BY <1>0
  <2>2. s \in Seq(Chars) /\ Len(s) = Len(h) - (pos + 1) + 1
    BY DEF IsPart
  <2>3. \A j \in 1 .. Len(h) - (pos + 1) + 1 : s[j] = h[pos + 1 + j - 1]
    BY ONLY IsPart(h, pos + 1, Len(h), s) DEF IsPart
  <2>4. \A j \in 1 .. Len(h) - pos : s[j] = h[pos + 1 + j - 1] /\ j \in Int
    BY ONLY <2>1, <2>3
  <2>5. \A j \in 1 .. Len(h) - pos : s[j] = h[pos + j]
    BY ONLY <2>1, <2>4
  <2> QED BY ONLY <2>1, <2>2, <2>5
<1>2. IsPart(s, m, n, SubSeq(s, m, n))
  BY <1>1, PartOf
<1>3. IsPart(h, pos + m, pos + n, SubSeq(s, m, n))
  <2> DEFINE r == SubSeq(s, m, n)
  <2> HIDE DEF r
  <2>1. /\ r \in Seq(Chars) /\ Len(r) = n - m + 1
        /\ \A j \in 1 .. n - m + 1 : r[j] = s[m + j - 1]
    BY <1>2 DEF IsPart, r
  <2>2. (pos + n) - (pos + m) + 1 = n - m + 1
    BY <1>0, <1>1
  <2>3. ASSUME NEW j \in 1 .. n - m + 1 PROVE r[j] = h[pos + m + j - 1]
    <3>1. m + j - 1 \in 1 .. Len(h) - pos /\ pos + (m + j - 1) = pos + m + j - 1
      BY <1>0, <1>1
    <3>2. s[m + j - 1] = h[pos + (m + j - 1)]
      BY ONLY <1>1, <3>1
    <3> QED BY <2>1, <3>1, <3>2
  <2> QED BY <2>1, <2>2, <2>3 DEF IsPart, r
<1>4. IsPart(h, pos + m, pos + n, SubSeq(h, pos + m, pos + n))
  <2>1. pos + m \in 1 .. Len(h) + 1 /\ pos + n \in pos + m - 1 .. Len(h)
    BY <1>0, <1>1
  <2> QED BY <2>1, PartOf
<1>5. (pos + n) - (pos + m) + 1 >= 0 /\ pos + n \in Int /\ pos + m \in Int
  BY <1>0, <1>1
<1> QED BY <1>3, <1>4, <1>5, PartUnique

\* What has been read and the next piece.
LEMMA PartsJoin ==
  ASSUME NEW h \in Seq(Chars), NEW pos \in 0 .. Len(h), NEW last \in pos .. Len(h), NEW x \in Seq(Chars)
  PROVE  (x \o SubSeq(h, 1, pos)) \o SubSeq(h, pos + 1, last) = x \o SubSeq(h, 1, last)
<1>0. Len(h) \in Nat
  OBVIOUS
<1> DEFINE a == SubSeq(h, 1, pos)
           b == SubSeq(h, pos + 1, last)
<1>1. IsPart(h, 1, pos, a) /\ IsPart(h, pos + 1, last, b)
  <2>1. 1 \in 1 .. Len(h) + 1 /\ pos \in 1 - 1 .. Len(h) /\ pos + 1 \in 1 .. Len(h) + 1
    BY <1>0
  <2>2. last \in pos + 1 - 1 .. Len(h)
    BY <1>0
  <2> QED BY <2>1, <2>2, PartOf
<1> HIDE DEF a, b
<1>2. /\ a \in Seq(Chars) /\ Len(a) = pos /\ \A j \in 1 .. pos : a[j] = h[j]
      /\ b \in Seq(Chars) /\ Len(b) = last - pos /\ \A j \in 1 .. last - pos : b[j] = h[pos + j]
  <2>1. pos - 1 + 1 = pos /\ last - (pos + 1) + 1 = last - pos
    BY <1>0
  <2>2. (\A j \in Int : 1 + j - 1 = j) /\ (\A j \in Int : pos + 1 + j - 1 = pos + j)
    BY <1>0
  <2> QED BY <1>1, <2>1, <2>2 DEF IsPart
<1>3. IsPart(h, 1, last, a \o b)
  <2>1. /\ a \o b \in Seq(Chars) /\ Len(a \o b) = Len(a) + Len(b)
        /\ \A j \in 1 .. Len(a) + Len(b) :
             (a \o b)[j] = IF j <= Len(a) THEN a[j] ELSE b[j - Len(a)]
    BY <1>2, ConcatProperties
  <2> DEFINE ab == a \o b
  <2> HIDE DEF ab
  <2>2. /\ ab \in Seq(Chars) /\ Len(ab) = last
        /\ \A j \in 1 .. last : ab[j] = IF j <= pos THEN a[j] ELSE b[j - pos]
    <3>1. pos + (last - pos) = last
      BY <1>0
    <3> QED BY ONLY <1>2, <2>1, <3>1 DEF ab
  <2>3. ASSUME NEW j \in 1 .. last PROVE ab[j] = h[j]
    <3>1. CASE j <= pos
      <4>1. j \in 1 .. pos
        BY <3>1
      <4> QED BY ONLY j \in 1 .. last, <1>2, <2>2, <3>1, <4>1
    <3>2. CASE ~(j <= pos)
      <4>1. j - pos \in 1 .. last - pos /\ pos + (j - pos) = j
        BY <1>0, <3>2
      <4>2. b[j - pos] = h[pos + (j - pos)]
        BY ONLY <1>2, <4>1
      <4> QED BY ONLY j \in 1 .. last, <2>2, <3>2, <4>1, <4>2
    <3> QED BY <3>1, <3>2
  <2>4. last - 1 + 1 = last /\ \A j \in Int : 1 + j - 1 = j
    BY <1>0
  <2> QED BY <2>2, <2>3, <2>4 DEF IsPart, ab
<1>4. IsPart(h, 1, last, SubSeq(h, 1, last))
  <2>1. 1 \in 1 .. Len(h) + 1 /\ last \in 1 - 1 .. Len(h)
    BY <1>0
  <2> QED BY <2>1, PartOf
<1>5. a \o b = SubSeq(h, 1, last)
  <2>1. last \in Int /\ last - 1 + 1 >= 0 /\ 1 \in Int
    BY <1>0
  <2> DEFINE ab == a \o b
             whole == SubSeq(h, 1, last)
  <2>2. IsPart(h, 1, last, ab) /\ IsPart(h, 1, last, whole)
    BY <1>3, <1>4
  <2> HIDE DEF ab, whole
  <2>3. ab = whole
    BY <2>1, <2>2, PartUnique
  <2> QED BY <2>3 DEF ab, whole
<1>6. (x \o a) \o b = x \o (a \o b)
  <2>1. a \in Seq(Chars) /\ b \in Seq(Chars) /\ x \in Seq(Chars)
    BY <1>2
  <2> QED BY ONLY <2>1, ConcatAssociative
<1> QED BY <1>5, <1>6 DEF a, b

(* Where the next piece ends: at the end of its line, of the stream or of  *)
(* the buffer, and not behind a line end.                                  *)
PieceEndsAt(s, k) ==
  /\ k \in 1 .. MAXLINE - 1 /\ k <= Len(s)
  /\ k = MAXLINE - 1 \/ k = Len(s) \/ s[k] = NL
  /\ \A j \in 1 .. k - 1 : s[j] # NL

LEMMA PieceEnds ==
  ASSUME NEW s \in Seq(Chars), s # <<>>
  PROVE  PieceEndsAt(s, PieceEnd(s))
<1> DEFINE Stops(k) == k = MAXLINE - 1 \/ k = Len(s) \/ s[k] = NL
           P == {k \in 1 .. MAXLINE - 1 : k <= Len(s) /\ Stops(k)}
<1>0. Len(s) \in Nat /\ Len(s) > 0 /\ MAXLINE \in Nat /\ MAXLINE >= 2
  BY LineAssumption
<1>1. P # {} /\ P \in SUBSET Nat
  <2>1. CASE Len(s) <= MAXLINE - 1
    <3>1. Len(s) \in P
      BY <1>0, <2>1
    <3> QED BY <1>0, <3>1
  <2>2. CASE ~(Len(s) <= MAXLINE - 1)
    <3>1. MAXLINE - 1 \in P
      BY <1>0, <2>2
    <3> QED BY <1>0, <3>1
  <2> QED BY <2>1, <2>2
<1>2. PICK k \in P : \A m \in P : k <= m
  <2> HIDE DEF P
  <2> QED BY <1>1, LeastNat
<1>3. ASSUME NEW j \in 1 .. k - 1 PROVE s[j] # NL
  <2> SUFFICES ASSUME s[j] = NL PROVE FALSE
    OBVIOUS
  <2>1. j \in 1 .. MAXLINE - 1 /\ j <= Len(s) /\ ~(k <= j)
    BY <1>0
  <2>2. j \in P
    BY <2>1
  <2> QED BY <1>2, <2>1, <2>2
<1>4. PieceEndsAt(s, k)
  BY <1>2, <1>3 DEF PieceEndsAt
<1>5. PieceEnd(s) = CHOOSE i \in 1 .. MAXLINE - 1 : PieceEndsAt(s, i)
  BY DEF PieceEnd, PieceEndsAt
<1>6. k \in 1 .. MAXLINE - 1
  OBVIOUS
<1> QED BY ONLY <1>4, <1>5, <1>6

\* Among the elements of a set of numbers that are below k one is the largest.
LEMMA LargestBelow ==
  ASSUME NEW S \in SUBSET Nat, NEW k \in Nat, NEW i \in S, i < k
  PROVE  \E j \in S : j < k /\ \A m \in S : m < k => m <= j
<1> DEFINE T == {d \in 0 .. k : k - d \in S /\ d > 0}
<1>1. T \in SUBSET Nat /\ k - i \in T
  <2>1. k - i \in 0 .. k /\ k - i > 0 /\ k - (k - i) = i
    OBVIOUS
  <2> QED BY <2>1
<1>2. PICK d \in T : \A m \in T : d <= m
  <2> HIDE DEF T
  <2> QED BY <1>1, LeastNat
<1>3. k - d \in S /\ k - d < k
  OBVIOUS
<1>4. ASSUME NEW m \in S, m < k PROVE m <= k - d
  <2>1. k - m \in 0 .. k /\ k - m > 0 /\ k - (k - m) = m
    BY <1>4
  <2>2. k - m \in T /\ k - m \in Int /\ d \in Int
    BY <2>1
  <2>3. d <= k - m
    BY <1>2, <2>2
  <2> QED BY ONLY k \in Nat, m \in S, S \in SUBSET Nat, <2>2, <2>3
<1> QED BY <1>3, <1>4

LEMMA LineEndsNumbers ==
  ASSUME headers \in Seq(Chars)
  PROVE  LineEnds \in SUBSET (1 .. Len(headers)) /\ Len(headers) \in Nat
BY DEF LineEnds

\* A line starts behind the last line end before it.
LEMMA LineStartAt ==
  ASSUME LineEnds \in SUBSET Int, NEW k \in Int, NEW j \in LineEnds,
         j < k, \A i \in LineEnds : i < k => i <= j
  PROVE  LineStart(k) = j + 1
<1> DEFINE P(n) == n < k /\ \A i \in LineEnds : i < k => i <= n
<1>1. \A n \in LineEnds : P(n) => n = j
  <2> SUFFICES ASSUME NEW n \in LineEnds, P(n) PROVE n = j
    OBVIOUS
  <2>1. n \in Int /\ j \in Int /\ n <= j /\ j <= n
    OBVIOUS
  <2> QED BY ONLY <2>1
<1>2. P(j)
  OBVIOUS
<1> DEFINE c == CHOOSE n \in LineEnds : P(n)
<1>3. c = j
  <2> HIDE DEF P
  <2> QED BY <1>1, <1>2
<1>4. LineStart(k) = 1 + c
  BY DEF LineStart
<1>5. j \in Int
  OBVIOUS
<1> HIDE DEF c
<1> QED BY ONLY <1>3, <1>4, <1>5

LEMMA FirstLine ==
  ASSUME NEW k, \A i \in LineEnds : ~(i < k)
  PROVE  LineStart(k) = 1
BY DEF LineStart

\* Places without a line end between them are of one line.
LEMMA SameLine ==
  ASSUME LineEnds \in SUBSET Nat, NEW k \in Nat, NEW m \in Nat, k <= m,
         \A i \in LineEnds : ~(k <= i /\ i < m)
  PROVE  LineStart(m) = LineStart(k)
<1>0. \A i \in LineEnds : i < m <=> i < k
  OBVIOUS
<1>1. CASE \E i \in LineEnds : i < k
  <2>1. PICK j \in LineEnds : j < k /\ \A i \in LineEnds : i < k => i <= j
    BY <1>1, LargestBelow
  <2>2. LineEnds \in SUBSET Int
    OBVIOUS
  <2>3. LineStart(k) = j + 1
    BY <2>1, <2>2, LineStartAt
  <2>4. j < m /\ \A i \in LineEnds : i < m => i <= j
    BY <1>0, <2>1
  <2>5. LineStart(m) = j + 1
    BY <2>2, <2>4, LineStartAt
  <2> QED BY <2>3, <2>5
<1>2. CASE \A i \in LineEnds : ~(i < k)
  BY <1>0, <1>2, FirstLine
<1> QED BY <1>1, <1>2

LEMMA LineStartType ==
  ASSUME LineEnds \in SUBSET Nat, NEW k \in Nat
  PROVE  LineStart(k) \in Nat
<1>1. CASE \E i \in LineEnds : i < k
  <2>1. PICK j \in LineEnds : j < k /\ \A i \in LineEnds : i < k => i <= j
    BY <1>1, LargestBelow
  <2>2. LineEnds \in SUBSET Int
    OBVIOUS
  <2> QED BY <2>1, <2>2, LineStartAt
<1>2. CASE \A i \in LineEnds : ~(i < k)
  BY <1>2, FirstLine
<1> QED BY <1>1, <1>2

(* The line that ends at k leaves an empty line as its last piece: it has  *)
(* two bytes more than a multiple of MAXLINE - 1.                          *)
Stops(k) == MAXLINE >= 3 /\ (k - LineStart(k) + 1) % (MAXLINE - 1) = 2 % (MAXLINE - 1)

(* So much of the headers has been read and sent on; what is read next     *)
(* begins whole pieces behind the beginning of a line.                     *)
ReadSoFar(pos) ==
  /\ pos \in 0 .. Len(headers)
  /\ input = SubSeq(headers, pos + 1, Len(headers))
  /\ client_message = <<GET>> \o SubSeq(headers, 1, pos)
  /\ pos < Len(headers) => (pos - LineStart(pos + 1) + 1) % (MAXLINE - 1) = 0
  /\ \A k \in LineEnds : k < pos => ~Stops(k)
  /\ buf = Blank => pos \in LineEnds /\ Stops(pos)
  /\ buf # Blank => ~(pos \in LineEnds /\ Stops(pos))

\* The client has closed before its empty line.
ClosedEarly == input = <<>> /\ buf # Blank

HeaderInv ==
  /\ headers \in Seq(Chars)
  /\ \A k \in LineEnds : k > 1 /\ headers[k - 1] = CR
  /\ at = "line" => input = headers /\ buf = <<GET>>
  /\ at \in {"headers", "sent"} => ClosedEarly \/ \E pos \in 0 .. Len(headers) : ReadSoFar(pos)
  /\ at = "sent" => buf = Blank

LEMMA HeaderInvInit == RequestInit => HeaderInv
<1> SUFFICES ASSUME RequestInit PROVE HeaderInv
  OBVIOUS
<1>0. CR # NL /\ CR \in Chars /\ NL \in Chars
  <2>1. CR # NL
    BY Zenon DEF CR, NL
  <2> QED BY <2>1 DEF Chars
<1>1. ASSUME headers = Blank
      PROVE  headers \in Seq(Chars) /\ \A k \in LineEnds : k > 1 /\ headers[k - 1] = CR
  <2>1. Blank \in Seq(Chars) /\ Len(Blank) = 2 /\ Blank[1] = CR /\ Blank[2] = NL /\ DOMAIN Blank = 1 .. 2
    BY <1>0 DEF Blank
  <2>2. ASSUME NEW k \in LineEnds PROVE k > 1 /\ headers[k - 1] = CR
    <3>1. k \in 1 .. 2 /\ Blank[k] = NL
      BY <1>1, <2>1 DEF LineEnds
    <3>2. k = 2
      BY <1>0, <2>1, <3>1
    <3>3. k > 1 /\ k - 1 = 1
      BY ONLY <3>2
    <3> QED BY <1>1, <2>1, <3>3
  <2> QED BY <1>1, <2>1, <2>2
<1>2. ASSUME headers \in Headers
      PROVE  headers \in Seq(Chars) /\ \A k \in LineEnds : k > 1 /\ headers[k - 1] = CR
  <2>1. BoundedSeq({CR, NL, "c"}, HeaderBound) \subseteq Seq(Chars)
    <3>1. \A m \in 0 .. HeaderBound : [1 .. m -> {CR, NL, "c"}] \subseteq Seq(Chars)
      <4> SUFFICES ASSUME NEW m \in 0 .. HeaderBound, NEW f \in [1 .. m -> {CR, NL, "c"}]
                   PROVE  f \in Seq(Chars)
        OBVIOUS
      <4>1. m \in Nat
        OBVIOUS
      <4>2. f \in [1 .. m -> Chars]
        BY DEF Chars
      <4> QED BY <4>1, <4>2
    <3> QED BY ONLY <3>1 DEF BoundedSeq, SeqOf
  <2>2. headers \in BoundedSeq({CR, NL, "c"}, HeaderBound)
    BY <1>2 DEF Headers
  <2> QED BY <1>2, <2>1, <2>2 DEF Headers, LineEnds
<1>3. headers \in Seq(Chars) /\ \A k \in LineEnds : k > 1 /\ headers[k - 1] = CR
  BY <1>1, <1>2 DEF RequestInit
<1>4. at = "line" /\ input = headers /\ buf = <<GET>>
  BY DEF RequestInit
<1> QED BY <1>3, <1>4 DEF HeaderInv

LEMMA SplitUriReads == ASSUME HeaderInv, SplitUri PROVE HeaderInv'
<1>1. /\ headers' = headers /\ input' = headers /\ buf' = <<GET>> /\ client_message' = <<GET>>
      /\ at' \in {"headers", "crashed"}
  BY DEF SplitUri, HeaderInv
<1>2. LineEnds' = LineEnds
  BY <1>1 DEF LineEnds
<1>3. headers \in Seq(Chars) /\ \A k \in LineEnds : k > 1 /\ headers[k - 1] = CR
  BY DEF HeaderInv
<1>4. LineEnds \in SUBSET Nat /\ Len(headers) \in Nat /\ \A k \in LineEnds : 1 <= k
  BY <1>3, LineEndsNumbers
<1>5. LineStart(1) = 1
  BY <1>4, FirstLine
<1>6. LineStart(1)' = LineStart(1)
  BY <1>2 DEF LineStart
<1>7. <<GET>> # Blank
  <2>1. Len(<<GET>>) = 1 /\ Len(Blank) = 2
    BY DEF Blank
  <2> QED BY <2>1
<1>8. SubSeq(headers, 1, Len(headers)) = headers
  <2>1. IsPart(headers, 1, Len(headers), headers)
    <3>1. Len(headers) - 1 + 1 = Len(headers) /\ \A j \in Int : 1 + j - 1 = j
      BY <1>4
    <3> QED BY <1>3, <3>1 DEF IsPart
  <2>2. IsPart(headers, 1, Len(headers), SubSeq(headers, 1, Len(headers)))
    <3>1. 1 \in 1 .. Len(headers) + 1 /\ Len(headers) \in 1 - 1 .. Len(headers)
      BY <1>4
    <3> QED BY <1>3, <3>1, PartOf
  <2>3. Len(headers) \in Int /\ Len(headers) - 1 + 1 >= 0 /\ 1 \in Int
    BY <1>4
  <2> DEFINE whole == SubSeq(headers, 1, Len(headers))
  <2>4. IsPart(headers, 1, Len(headers), whole)
    BY <2>2
  <2> HIDE DEF whole
  <2>5. whole = headers
    BY <2>1, <2>3, <2>4, PartUnique
  <2> QED BY <2>5 DEF whole
<1>9. <<GET>> \o SubSeq(headers, 1, 0) = <<GET>>
  <2>1. SubSeq(headers, 1, 0) = <<>>
    <3>1. IsPart(headers, 1, 0, SubSeq(headers, 1, 0))
      <4>1. 1 \in 1 .. Len(headers) + 1 /\ 0 \in 1 - 1 .. Len(headers)
        BY <1>4
      <4> QED BY <1>3, <4>1, PartOf
    <3> QED BY <3>1 DEF IsPart
  <2>2. <<GET>> \in Seq(Chars)
    BY DEF Chars
  <2> QED BY <2>1, <2>2, ConcatEmptySeq
<1>10. 0 % (MAXLINE - 1) = 0
  <2>1. MAXLINE - 1 \in Nat \ {0}
    BY LineAssumption
  <2>2. \A n \in Nat \ {0} : 0 % n = 0
    OBVIOUS
  <2> QED BY ONLY <2>1, <2>2
<1>11. ReadSoFar(0)'
  <2>1. /\ 0 \in 0 .. Len(headers') /\ input' = SubSeq(headers', 0 + 1, Len(headers'))
        /\ client_message' = <<GET>> \o SubSeq(headers', 1, 0)
    BY <1>1, <1>4, <1>8, <1>9
  <2>2. (0 - LineStart(0 + 1)' + 1) % (MAXLINE - 1) = 0
    <3>1. 0 + 1 = 1 /\ 0 - 1 + 1 = 0
      OBVIOUS
    <3> QED BY ONLY <1>5, <1>6, <1>10, <3>1
  <2>3. \A k \in LineEnds' : ~(k < 0) /\ k # 0
    BY <1>2, <1>4
  <2>4. buf' # Blank
    BY <1>1, <1>7
  <2> QED BY <2>1, <2>2, <2>3, <2>4 DEF ReadSoFar
<1>12. \E pos \in 0 .. Len(headers') : ReadSoFar(pos)'
  <2>1. 0 \in 0 .. Len(headers')
    BY <1>1, <1>4
  <2> QED BY <1>11, <2>1
<1> QED BY <1>1, <1>2, <1>3, <1>12 DEF HeaderInv

\* Up to a multiple, only two bytes are as long as two bytes.
LEMMA TwoBytes ==
  ASSUME NEW n \in Nat \ {0}, n >= 2, NEW e \in 1 .. n
  PROVE  e % n = 2 % n <=> e = 2
<1>1. \A m \in 0 .. n - 1 : m % n = m
  <2> SUFFICES ASSUME NEW m \in 0 .. n - 1 PROVE m % n = m
    OBVIOUS
  <2>1. 0 * n + m = m
    OBVIOUS
  <2> QED BY <2>1, ModUnique
<1>2. n % n = 0
  <2>1. 1 * n + 0 = n /\ 0 \in 0 .. n - 1
    OBVIOUS
  <2> QED BY <2>1, ModUnique
<1>3. CASE n = 2
  <2>1. e = 1 \/ e = 2
    BY <1>3
  <2>2. 1 % n = 1 /\ 2 % n = 0
    <3>1. 1 \in 0 .. n - 1
      BY <1>3
    <3> QED BY <1>1, <1>2, <1>3, <3>1
  <2> QED BY <2>1, <2>2
<1>4. CASE n > 2
  <2>1. 2 % n = 2
    <3>1. 2 \in 0 .. n - 1
      BY <1>4
    <3> QED BY <1>1, <3>1
  <2>2. CASE e = n
    BY <1>2, <1>4, <2>1, <2>2
  <2>3. CASE e # n
    <3>1. e \in 0 .. n - 1
      BY <2>3
    <3>2. e % n = e
      BY <1>1, <3>1
    <3> QED BY <2>1, <3>2
  <2> QED BY <2>2, <2>3
<1> QED BY <1>3, <1>4

\* A place as far behind whole pieces of its line as e is behind none.
LEMMA PiecesOn ==
  ASSUME NEW n \in Nat \ {0}, NEW pos \in Int, NEW start \in Int, NEW e \in Int,
         (pos - start + 1) % n = 0
  PROVE  (pos + e - start + 1) % n = e % n
<1> DEFINE a == pos - start + 1
<1>1. a \in Int /\ a + e = pos + e - start + 1
  OBVIOUS
<1>2. ((a % n) + e) % n = (a + e) % n
  <2> HIDE DEF a
  <2> QED BY <1>1, ModOn
<1>3. 0 + e = e /\ a % n = 0
  OBVIOUS
<1> HIDE DEF a
<1> QED BY ONLY <1>1, <1>2, <1>3

LEMMA CollectReads == ASSUME HeaderInv, Collect PROVE HeaderInv'
<1>1. /\ at = "headers" /\ buf # Blank /\ headers' = headers /\ at' \in {"headers", "overflow"}
      /\ client_message' = client_message \o buf'
      /\ buf' = ReadTo(input) /\ input' = Rest(input)
  BY DEF Collect
<1>2. LineEnds' = LineEnds
  BY <1>1 DEF LineEnds
<1>3. headers \in Seq(Chars) /\ \A k \in LineEnds : k > 1 /\ headers[k - 1] = CR
  BY DEF HeaderInv
<1>4. LineEnds \in SUBSET (1 .. Len(headers)) /\ LineEnds \in SUBSET Nat /\ Len(headers) \in Nat
  BY <1>3, LineEndsNumbers
<1>s. \A k : LineStart(k)' = LineStart(k) /\ Stops(k)' = Stops(k)
  <2>1. \A k : LineStart(k)' = LineStart(k)
    BY <1>2 DEF LineStart
  <2> QED BY <2>1 DEF Stops
<1>5. CASE input = <<>>
  <2>1. buf' = buf /\ input' = input
    BY <1>1, <1>5 DEF ReadTo, Rest
  <2>2. ClosedEarly'
    BY <1>1, <1>5, <2>1 DEF ClosedEarly
  <2> QED BY <1>1, <1>2, <1>3, <2>2 DEF HeaderInv
<1>6. CASE input # <<>>
  <2>1. PICK pos \in 0 .. Len(headers) : ReadSoFar(pos)
    BY <1>1, <1>6 DEF HeaderInv, ClosedEarly
  <2>2. PICK n \in Nat : n = Len(headers)
    BY <1>4
  <2> DEFINE M == MAXLINE - 1
             start == LineStart(pos + 1)
  <2>m. M \in Nat \ {0} /\ M = MAXLINE - 1 /\ MAXLINE \in Int
    BY LineAssumption
  <2>3. IsPart(headers, pos + 1, n, input)
    <3>1. pos + 1 \in 1 .. Len(headers) + 1 /\ Len(headers) \in pos + 1 - 1 .. Len(headers)
      <4>1. pos + 1 \in 1 .. n + 1 /\ n \in pos + 1 - 1 .. n
        BY ONLY <2>2, n \in Nat, pos \in 0 .. Len(headers)
      <4> QED BY ONLY <2>2, <4>1
    <3>2. IsPart(headers, pos + 1, Len(headers), SubSeq(headers, pos + 1, Len(headers)))
      BY ONLY <1>3, <3>1, PartOf
    <3>3. input = SubSeq(headers, pos + 1, Len(headers))
      BY <2>1 DEF ReadSoFar
    <3> QED BY ONLY <2>2, <3>2, <3>3
  <2>4. /\ input \in Seq(Chars) /\ Len(input) = n - pos
        /\ \A j \in 1 .. n - pos : input[j] = headers[pos + j]
    <3>1. n - (pos + 1) + 1 = n - pos /\ \A j \in Int : pos + 1 + j - 1 = pos + j
      BY ONLY n \in Nat, pos \in 0 .. Len(headers), <1>4
    <3>2. input \in Seq(Chars) /\ Len(input) = n - (pos + 1) + 1
      BY ONLY <2>3 DEF IsPart
    <3>3. \A j \in 1 .. n - (pos + 1) + 1 : input[j] = headers[pos + 1 + j - 1]
      BY ONLY <2>3 DEF IsPart
    <3>4. \A j \in 1 .. n - pos : input[j] = headers[pos + 1 + j - 1] /\ j \in Int
      BY ONLY <3>1, <3>3
    <3> QED BY ONLY <3>1, <3>2, <3>4
  <2>5. PICK e \in Nat : e = PieceEnd(input) /\ PieceEndsAt(input, e)
    <3>1. PieceEndsAt(input, PieceEnd(input))
      BY <1>6, <2>4, PieceEnds
    <3>2. PieceEnd(input) \in Nat
      BY <2>m, <3>1 DEF PieceEndsAt
    <3> QED BY <3>1, <3>2
  <2> DEFINE last == pos + e
  <2> HIDE DEF M
  <2>6. /\ e \in 1 .. M /\ e <= n - pos
        /\ e = M \/ e = n - pos \/ headers[pos + e] = NL
        /\ \A j \in 1 .. e - 1 : headers[pos + j] # NL
    <3>1. /\ e \in 1 .. M /\ e <= n - pos
          /\ e = M \/ e = n - pos \/ input[e] = NL
          /\ \A j \in 1 .. e - 1 : input[j] # NL
      BY ONLY <2>4, <2>5 DEF PieceEndsAt, M
    <3>2. e \in 1 .. n - pos /\ 1 .. e - 1 \subseteq 1 .. n - pos
      BY ONLY <3>1, <2>m, n \in Nat, pos \in 0 .. Len(headers), <1>4
    <3>3. input[e] = headers[pos + e] /\ \A j \in 1 .. e - 1 : input[j] = headers[pos + j]
      BY ONLY <2>4, <3>2
    <3> QED BY ONLY <3>1, <3>3
  <2>7. pos \in Nat /\ e \in Nat /\ pos <= n /\ last \in pos + 1 .. n /\ last = pos + e
    BY ONLY <2>2, <2>6, <2>m, n \in Nat, pos \in 0 .. Len(headers)
  <2>8. LineEnds = {k \in 1 .. n : headers[k] = NL}
    BY <1>3, <2>2 DEF LineEnds
  <2>9. \A k \in LineEnds : ~(pos + 1 <= k /\ k < last)
    <3> SUFFICES ASSUME NEW k \in LineEnds, pos + 1 <= k, k < last PROVE FALSE
      OBVIOUS
    <3>1. k \in 1 .. n /\ headers[k] = NL
      BY ONLY <2>8, k \in LineEnds
    <3>2. k - pos \in 1 .. e - 1 /\ pos + (k - pos) = k
      BY ONLY <2>7, <3>1, pos + 1 <= k, k < last, n \in Nat
    <3>3. headers[pos + (k - pos)] # NL
      BY ONLY <2>6, <3>2
    <3> QED BY ONLY <3>1, <3>2, <3>3
  <2> HIDE DEF last
  <2>10. /\ buf' = SubSeq(headers, pos + 1, last)
         /\ input' = SubSeq(headers, last + 1, n)
    <3>1. buf' = SubSeq(input, 1, e) /\ input' = SubSeq(input, e + 1, Len(input))
      BY <1>1, <1>6, <2>5 DEF ReadTo, Rest
    <3>2. SubSeq(input, 1, e) = SubSeq(headers, pos + 1, pos + e)
      <4>1. 1 \in 1 .. Len(input) + 1 /\ e \in 1 - 1 .. Len(input)
        BY ONLY <2>4, <2>6, <2>7, n \in Nat
      <4>2. IsPart(headers, pos + 1, Len(headers), input)
        BY <2>2, <2>3
      <4> QED BY ONLY <1>3, <4>1, <4>2, pos \in 0 .. Len(headers), PartOfRest
    <3>3. SubSeq(input, e + 1, Len(input)) = SubSeq(headers, pos + (e + 1), pos + Len(input))
      <4> DEFINE to == Len(input)
      <4>1. e + 1 \in 1 .. Len(input) + 1 /\ to \in e + 1 - 1 .. Len(input)
        BY ONLY <2>4, <2>6, <2>7, n \in Nat
      <4>2. IsPart(headers, pos + 1, Len(headers), input)
        BY <2>2, <2>3
      <4> HIDE DEF to
      <4>3. SubSeq(input, e + 1, to) = SubSeq(headers, pos + (e + 1), pos + to)
        BY ONLY <1>3, <4>1, <4>2, pos \in 0 .. Len(headers), PartOfRest
      <4> QED BY <4>3 DEF to
    <3>4. pos + (e + 1) = last + 1 /\ pos + Len(input) = n
      BY ONLY <2>4, <2>7, n \in Nat
    <3> QED BY ONLY <2>7, <3>1, <3>2, <3>3, <3>4
  <2>11. client_message' = <<GET>> \o SubSeq(headers, 1, last)
    <3>1. client_message = <<GET>> \o SubSeq(headers, 1, pos)
      BY <2>1 DEF ReadSoFar
    <3>2. <<GET>> \in Seq(Chars)
      BY DEF Chars
    <3>3. last \in pos .. Len(headers)
      BY ONLY <2>2, <2>7, n \in Nat
    <3>4. (<<GET>> \o SubSeq(headers, 1, pos)) \o SubSeq(headers, pos + 1, last)
            = <<GET>> \o SubSeq(headers, 1, last)
      BY ONLY <1>3, <3>2, <3>3, pos \in 0 .. Len(headers), PartsJoin
    <3> QED BY <1>1, <2>10, <3>1, <3>4
  <2>12. (pos - start + 1) % M = 0 /\ start \in Nat
    <3>1. pos < Len(headers)
      BY ONLY <2>2, <2>7, n \in Nat
    <3>2. pos + 1 \in Nat
      BY ONLY <2>7
    <3> QED BY <1>4, <2>1, <3>1, <3>2, LineStartType DEF ReadSoFar, M
  <2>13. LineStart(last) = start
    <3>1. pos + 1 \in Nat /\ last \in Nat /\ pos + 1 <= last
      BY ONLY <2>7, n \in Nat
    <3> QED BY <1>4, <2>9, <3>1, SameLine
  <2> HIDE DEF start
  <2>14. (last - LineStart(last) + 1) % M = e % M
    <3>1. (pos + e - start + 1) % M = e % M
      <4>1. pos \in Int /\ start \in Int /\ e \in Int
        BY ONLY <2>7, <2>12
      <4> QED BY <2>12, <2>m, <4>1, PiecesOn
    <3>2. last - LineStart(last) + 1 = last - start + 1
      BY ONLY <2>13
    <3>3. last - start + 1 = pos + e - start + 1
      BY ONLY <2>7, <2>12
    <3> QED BY ONLY <3>1, <3>2, <3>3
  <2>15. last < n => (last - LineStart(last + 1) + 1) % M = 0
    <3> SUFFICES ASSUME last < n PROVE (last - LineStart(last + 1) + 1) % M = 0
      OBVIOUS
    <3>1. CASE last \in LineEnds
      <4>1. LineStart(last + 1) = last + 1
        <5>1. last < last + 1 /\ last + 1 \in Int /\ \A i \in LineEnds : i < last + 1 => i <= last
          BY <1>4, <2>7
        <5>2. LineEnds \in SUBSET Int
          BY <1>4
        <5> QED BY <3>1, <5>1, <5>2, LineStartAt
      <4>2. last - (last + 1) + 1 = 0
        BY <2>7
      <4>3. 0 % M = 0
        <5>1. \A i \in Nat \ {0} : 0 % i = 0
          OBVIOUS
        <5> QED BY ONLY <2>m, <5>1
      <4> QED BY <4>1, <4>2, <4>3
    <3>2. CASE last \notin LineEnds
      <4>1. e = M
        <5>1. headers[last] # NL
          BY <2>7, <2>8, <3>2
        <5>2. e # n - pos
          BY ONLY <2>7, last < n, n \in Nat
        <5> QED BY ONLY <2>6, <2>7, <5>1, <5>2
      <4>2. LineStart(last + 1) = start
        <5>1. last \in Nat /\ last + 1 \in Nat /\ last <= last + 1
          BY ONLY <2>7, n \in Nat
        <5>2. \A i \in LineEnds : ~(last <= i /\ i < last + 1)
          BY <1>4, <2>7, <3>2
        <5> QED BY <1>4, <2>13, <5>1, <5>2, SameLine
      <4>3. M % M = 0
        <5>1. 1 * M + 0 = M /\ 0 \in 0 .. M - 1
          BY ONLY <2>m
        <5> QED BY <2>m, <5>1, ModUnique
      <4> QED BY <2>13, <2>14, <4>1, <4>2, <4>3
    <3> QED BY <3>1, <3>2
  <2>16. \A k \in LineEnds : k < last => ~Stops(k)
    <3> SUFFICES ASSUME NEW k \in LineEnds, k < last PROVE ~Stops(k)
      OBVIOUS
    <3>1. k <= pos /\ k \in Nat
      BY <1>4, <2>7, <2>9
    <3>2. k < pos \/ k = pos
      BY ONLY <2>7, <3>1
    <3> QED BY <1>1, <2>1, <3>2 DEF ReadSoFar
  <2>17. buf' = Blank <=> e = 2 /\ last \in LineEnds
    <3>1. IsPart(headers, pos + 1, last, buf')
      <4>1. pos + 1 \in 1 .. Len(headers) + 1 /\ last \in pos + 1 - 1 .. Len(headers)
        BY ONLY <2>2, <2>7, n \in Nat
      <4> QED BY <1>3, <2>10, <4>1, PartOf
    <3>2. PICK b \in Seq(Chars) : b = buf'
      BY <3>1 DEF IsPart
    <3>3. Len(b) = e /\ \A j \in 1 .. e : b[j] = headers[pos + j]
      <4>1. last - (pos + 1) + 1 = e /\ \A j \in Int : pos + 1 + j - 1 = pos + j
        BY ONLY <2>7
      <4>2. /\ Len(b) = last - (pos + 1) + 1
            /\ \A j \in 1 .. last - (pos + 1) + 1 : b[j] = headers[pos + 1 + j - 1]
        BY ONLY <3>1, <3>2 DEF IsPart
      <4>3. \A j \in 1 .. e : b[j] = headers[pos + 1 + j - 1] /\ j \in Int
        BY ONLY <4>1, <4>2
      <4> QED BY ONLY <4>1, <4>2, <4>3
    <3>4. Len(Blank) = 2 /\ Blank[1] = CR /\ Blank[2] = NL /\ Blank \in Seq(Chars)
      BY DEF Blank, Chars
    <3>5. ASSUME buf' = Blank PROVE e = 2 /\ last \in LineEnds
      <4>1. e = 2
        BY ONLY <3>2, <3>3, <3>4, <3>5
      <4>2. b[2] = headers[pos + 2] /\ b[2] = NL
        <5>1. 2 \in 1 .. e
          BY ONLY <4>1
        <5> QED BY ONLY <3>2, <3>3, <3>4, <3>5, <5>1
      <4>3. last \in 1 .. n /\ last = pos + 2
        BY ONLY <2>7, <4>1, n \in Nat
      <4> QED BY <2>8, <4>1, <4>2, <4>3
    <3>6. ASSUME e = 2, last \in LineEnds PROVE buf' = Blank
      <4>1. last - 1 = pos + 1 /\ last = pos + 2
        BY ONLY <2>7, <3>6
      <4>2. headers[pos + 1] = CR /\ headers[pos + 2] = NL
        BY <1>3, <2>8, <3>6, <4>1
      <4>3. b[1] = CR /\ b[2] = NL
        <5>1. 1 \in 1 .. e /\ 2 \in 1 .. e
          BY ONLY <3>6
        <5> QED BY ONLY <3>3, <4>2, <5>1
      <4>4. \A j \in 1 .. Len(b) : b[j] = Blank[j]
        <5>1. \A j \in 1 .. 2 : j = 1 \/ j = 2
          OBVIOUS
        <5>2. Len(b) = 2
          BY ONLY <3>3, <3>6
        <5> QED BY ONLY <3>4, <4>3, <5>1, <5>2
      <4>5. Len(b) = Len(Blank)
        BY ONLY <3>3, <3>4, <3>6
      <4>6. b = Blank
        BY <3>4, <4>4, <4>5, SeqEqual
      <4> QED BY <3>2, <4>6
    <3> QED BY <3>5, <3>6
  <2>18. Stops(last) <=> M >= 2 /\ e % M = 2 % M
    <3>1. MAXLINE >= 3 <=> M >= 2
      BY ONLY <2>m
    <3> QED BY <2>14, <3>1 DEF Stops, M
  <2>19. (M >= 2 /\ e % M = 2 % M) <=> e = 2
    <3>1. ASSUME M >= 2 PROVE e % M = 2 % M <=> e = 2
      BY <2>m, <2>6, <3>1, TwoBytes
    <3>2. e = 2 => M >= 2
      BY ONLY <2>6, <2>m
    <3> QED BY <3>1, <3>2
  <2>20. buf' = Blank <=> last \in LineEnds /\ Stops(last)
    BY ONLY <2>17, <2>18, <2>19
  <2>21. ReadSoFar(last)'
    <3>1. /\ last \in 0 .. Len(headers')
          /\ input' = SubSeq(headers', last + 1, Len(headers'))
          /\ client_message' = <<GET>> \o SubSeq(headers', 1, last)
      <4>1. last \in 0 .. n
        BY ONLY <2>7, n \in Nat
      <4> QED BY <1>1, <2>2, <2>10, <2>11, <4>1
    <3>2. last < Len(headers') => (last - LineStart(last + 1)' + 1) % (MAXLINE - 1) = 0
      BY <1>1, <1>s, <2>2, <2>15 DEF M
    <3>3. \A k \in LineEnds' : k < last => ~Stops(k)'
      BY ONLY <1>2, <1>s, <2>16
    <3>4. buf' = Blank <=> last \in LineEnds' /\ Stops(last)'
      BY ONLY <1>2, <1>s, <2>20
    <3> QED BY <3>1, <3>2, <3>3, <3>4 DEF ReadSoFar
  <2>22. \E k \in 0 .. Len(headers') : ReadSoFar(k)'
    <3>1. last \in 0 .. Len(headers')
      BY <1>1, <2>2, <2>7
    <3> QED BY <2>21, <3>1
  <2> QED BY <1>1, <1>2, <1>3, <2>22 DEF HeaderInv
<1> QED BY <1>5, <1>6

\* Nothing but Collect reads, and only the end of the request line begins it.
LEMMA HeaderInvStep == HeaderInv /\ [RequestNext]_requestVars => HeaderInv'
<1> SUFFICES ASSUME HeaderInv, [RequestNext]_requestVars PROVE HeaderInv'
  OBVIOUS
<1>1. ASSUME UNCHANGED <<headers, input, buf, client_message>>,
             at' \notin {"line", "headers", "sent"} \/ at' = at
               \/ (at = "headers" /\ at' = "sent" /\ buf = Blank)
      PROVE  HeaderInv'
  <2>1. LineEnds' = LineEnds
    BY <1>1 DEF LineEnds
  <2>2. \A k : LineStart(k)' = LineStart(k) /\ Stops(k)' = Stops(k)
    <3>1. \A k : LineStart(k)' = LineStart(k)
      BY <2>1 DEF LineStart
    <3> QED BY <3>1 DEF Stops
  <2>3. \A pos : ReadSoFar(pos) => ReadSoFar(pos)'
    BY <1>1, <2>1, <2>2 DEF ReadSoFar
  <2>4. ClosedEarly => ClosedEarly'
    BY <1>1 DEF ClosedEarly
  <2> QED BY <1>1, <2>1, <2>3, <2>4 DEF HeaderInv
<1>2. CASE NotImplemented
  BY <1>1, <1>2 DEF NotImplemented
<1>3. CASE SplitUri
  BY <1>3, SplitUriReads
<1>4. CASE Collect
  BY <1>4, CollectReads
<1>5. CASE HeaderBreaks
  BY <1>1, <1>5 DEF HeaderBreaks
<1>6. CASE Send
  BY <1>1, <1>6 DEF Send
<1>7. CASE UNCHANGED requestVars
  BY <1>1, <1>7 DEF requestVars
<1> QED BY <1>2, <1>3, <1>4, <1>5, <1>6, <1>7 DEF RequestNext, Reads

(* However long the lines are, what doit sends to the server is the header *)
(* of the client, as far as its empty line or the first longer line that   *)
(* leaves an empty line as its last piece.                                 *)
THEOREM RequestIsForwarded == RequestSpec => []HeadersForwarded
<1>1. HeaderInv => HeadersForwarded
  <2> SUFFICES ASSUME HeaderInv, at = "sent" PROVE HeadersForwarded
    BY DEF HeadersForwarded
  <2>1. buf = Blank
    BY DEF HeaderInv
  <2>2. PICK pos \in 0 .. Len(headers) : ReadSoFar(pos)
    BY <2>1 DEF HeaderInv, ClosedEarly
  <2>3. pos \in LineEnds /\ Stops(pos)
    BY <2>1, <2>2 DEF ReadSoFar
  <2>4. client_message = <<GET>> \o SubSeq(headers, 1, pos)
    BY <2>2 DEF ReadSoFar
  <2>5. (pos - LineStart(pos) + 1) % (MAXLINE - 1) = 2 % (MAXLINE - 1) /\ MAXLINE >= 3
    BY <2>3 DEF Stops
  <2>6. \A j \in LineEnds : j < pos =>
          (j - LineStart(j) + 1) % (MAXLINE - 1) # 2 % (MAXLINE - 1)
    BY <2>2, <2>5 DEF ReadSoFar, Stops
  <2> QED BY <2>3, <2>4, <2>5, <2>6 DEF HeadersForwarded
<1> QED BY <1>1, HeaderInvInit, HeaderInvStep, PTL DEF RequestSpec

----------------------------------------------------------------------------
(* Tiny: the inductive invariant.                                          *)

Statuses == {"none", "501", "404", "403", "200"}

Names == Paths \cup {Garbage, EmptyPath}

Responses == [status : Statuses, path : Names, length : Lengths \cup {0},
              body : Lengths \cup {0}, closed : BOOLEAN]

Sending == {"open", "unmap", "body"}

\* The connections before the last one, and those that have not come.
Others ==
  /\ \A c \in 1 .. CONNECTIONS : c > accepted => responses[c] = NoResponse
  /\ \A c \in 1 .. CONNECTIONS :
       responses[c].closed /\ responses[c].status = "200" =>
         responses[c].body = responses[c].length /\ responses[c].length > 0

\* What filename and the current response are at each step.
Current ==
  /\ step # "accept" => accepted \in 1 .. CONNECTIONS /\ ~ responses[accepted].closed
  /\ step = "stat" => \/ request.uri \in Paths /\ filename = request.uri
                      \/ request.uri = HostPort /\ filename = EmptyPath
                      \/ request.uri = Relative
  /\ step = "headers out" => filename = request.uri
  /\ step \in Sending =>
       /\ responses[accepted].status = "200" /\ responses[accepted].path = request.uri
       /\ responses[accepted].length = filesize
  /\ step \in {"unmap", "body"} => filesize > 0
  /\ step = "close" /\ responses[accepted].status = "200" =>
       /\ responses[accepted].path = request.uri /\ responses[accepted].length > 0
       /\ responses[accepted].body = responses[accepted].length
  /\ step \notin Sending \cup {"close", "accept"} => responses[accepted].status = "none"

\* The descriptors that are open at each step.
Descriptors ==
  /\ step = "accept" => open = {}
  /\ step # "unmap" => open \subseteq {"connfd"}

TinyInv == TinyTypeOK /\ responses \in [1 .. CONNECTIONS -> Responses] /\ Others /\ Current /\ Descriptors

----------------------------------------------------------------------------
(* Every step of Tiny keeps it.                                            *)

USE DEF At, Goto, Missing, Special

LEMMA RequestFacts ==
  /\ {Relative, HostPort, HostOnly} \cap Paths = {}
  /\ {Garbage, EmptyPath} \cap Paths = {}
  /\ \A r \in Requests : r.method = "GET" => r.uri \in TinyUris
  /\ Missing \notin Lengths /\ Special \notin Lengths
BY TinyAssumption DEF Requests, Other, TinyUris

LEMMA NoResponseType == NoResponse \in Responses
BY DEF NoResponse, Responses, Statuses, Names

\* A step that changes step within the first half of a request, and nothing
\* that the other parts of the invariant speak of.
Early == {"hostname", "request", "headers", "spin", "parse", "501", "404", "403"}

LEMMA EarlyStep ==
  ASSUME TinyInv, TinyTypeOK', step \in Early, step' \in Early, UNCHANGED <<accepted, open, responses>>
  PROVE  TinyInv'
<1>1. Others' /\ responses' \in [1 .. CONNECTIONS -> Responses]
  BY DEF TinyInv, Others
<1>2. Current'
  BY DEF TinyInv, Current, Early, Sending
<1>3. Descriptors'
  BY DEF TinyInv, Descriptors, Early
<1> QED BY <1>1, <1>2, <1>3 DEF TinyInv

\* The server has exited.
LEMMA ExitStep == TinyInv /\ Exit => TinyInv'
BY DEF TinyInv, TinyTypeOK, Others, Current, Descriptors, Exit, Sending

LEMMA TinyStep == ASSUME TinyInv, [TinyNext]_tinyVars PROVE TinyInv'
<1>0. TinyTypeOK /\ responses \in [1 .. CONNECTIONS -> Responses] /\ Others /\ Current /\ Descriptors
  BY DEF TinyInv
<1>c. CONNECTIONS \in Nat /\ Lengths \subseteq Nat
  BY TinyAssumption
<1>1. CASE Accept
  <2>1. /\ step = "accept" /\ step' = "hostname" /\ accepted' = accepted + 1
        /\ accepted + 1 \in 1 .. CONNECTIONS /\ accepted \in 0 .. CONNECTIONS
        /\ open' = open \cup {"connfd"} /\ open = {}
        /\ UNCHANGED <<request, filename, filesize, file, responses, up>>
    BY <1>0, <1>1, <1>c DEF Accept, TinyTypeOK, Descriptors
  <2>2. TinyTypeOK'
    BY <1>0, <2>1 DEF TinyTypeOK
  <2>3. Others'
    BY <1>0, <2>1 DEF Others
  <2>4. responses[accepted + 1] = NoResponse
    BY <1>0, <2>1 DEF Others
  <2>5. Current'
    BY <2>1, <2>4 DEF Current, NoResponse, Sending
  <2>6. Descriptors'
    BY <2>1 DEF Descriptors
  <2> QED BY <1>0, <2>1, <2>2, <2>3, <2>5, <2>6 DEF TinyInv
<1>2. CASE FindHostname
  BY <1>0, <1>2, EarlyStep DEF FindHostname, TinyTypeOK, Early
<1>3. CASE ReadRequest
  <2>1. TinyTypeOK' /\ step' \in Early
    BY <1>0, <1>3 DEF ReadRequest, TinyTypeOK, Early
  <2> QED BY <1>3, <2>1, EarlyStep DEF ReadRequest, Early
<1>4. CASE ReadHeaders \/ HeadersEnd
  BY <1>0, <1>4, EarlyStep DEF ReadHeaders, HeadersEnd, TinyTypeOK, Early
<1>5. CASE Exit
  BY <1>5, ExitStep
<1>6. CASE ParseUri /\ ~ Exit
  <2>1. /\ step = "parse" /\ step' = "stat" /\ request.uri # HostOnly
        /\ UNCHANGED <<accepted, request, filesize, open, file, responses, up>>
        /\ request.uri \in Paths => filename' = request.uri
        /\ request.uri = HostPort => filename' = EmptyPath
        /\ request.uri \notin Paths \cup {HostPort} => filename' = filename
    BY <1>6, RequestFacts DEF ParseUri
  <2>2. request.uri \in TinyUris
    <3>1. request \in Requests
      BY <1>0 DEF TinyTypeOK
    <3>2. CASE request = Other
      BY <3>2 DEF Other, TinyUris
    <3>3. CASE request \in [method : {"GET"}, uri : TinyUris]
      BY <3>3
    <3> QED BY <3>1, <3>2, <3>3 DEF Requests
  <2>3. TinyTypeOK'
    BY <1>0, <2>1 DEF TinyTypeOK
  <2>4. Current'
    BY <1>0, <2>1, <2>2 DEF Current, TinyUris, Sending
  <2>5. Others' /\ Descriptors'
    BY <1>0, <2>1 DEF Others, Descriptors
  <2> QED BY <1>0, <2>1, <2>3, <2>4, <2>5 DEF TinyInv
<1>7. CASE Stat
  <2>1. PICK state \in FileStates :
          /\ Found(state) /\ step = "stat"
          /\ step' = IF state = Missing THEN "404"
                   ELSE IF ~ Parsed(request.uri) THEN "close"
                   ELSE IF state = Special THEN "403" ELSE "headers out"
          /\ filesize' = IF state \in Lengths THEN state ELSE 0
          /\ UNCHANGED <<accepted, request, filename, open, file, responses, up>>
    BY <1>7 DEF Stat
  <2>2. TinyTypeOK'
    BY <1>0, <2>1 DEF TinyTypeOK
  <2>3. step' = "headers out" => filename = request.uri
    <3>1. ASSUME request.uri = HostPort, filename = EmptyPath PROVE state = Missing
      BY <2>1, <3>1, RequestFacts DEF Found, EmptyPath, Garbage
    <3> QED BY <1>0, <2>1, <3>1 DEF Current, Parsed
  <2>4. Current'
    BY <1>0, <2>1, <2>3 DEF Current, Sending
  <2>5. Others' /\ Descriptors'
    BY <1>0, <2>1 DEF Others, Descriptors
  <2> QED BY <1>0, <2>1, <2>2, <2>4, <2>5 DEF TinyInv
\* From here on the response of the last connection is written.
<1>8. ASSUME NEW r \in Responses, accepted \in 1 .. CONNECTIONS,
             responses' = [responses EXCEPT ![accepted] = r], UNCHANGED accepted,
             r.closed /\ r.status = "200" => r.body = r.length /\ r.length > 0
      PROVE  /\ Others' /\ responses' \in [1 .. CONNECTIONS -> Responses]
             /\ responses'[accepted] = r
  BY <1>0, <1>8 DEF Others
<1>9. step # "accept" => accepted \in 1 .. CONNECTIONS /\ responses[accepted] \in Responses
                         /\ ~ responses[accepted].closed
  BY <1>0 DEF Current
<1>10. CASE clienterror
  <2> DEFINE r == [responses[accepted] EXCEPT !.status = step]
  <2>1. /\ step \in {"501", "404", "403"} /\ step' = "close"
        /\ responses' = [responses EXCEPT ![accepted] = r]
        /\ UNCHANGED <<accepted, request, filename, filesize, open, file, up>>
    BY <1>10 DEF clienterror
  <2>2. r \in Responses /\ r.status = step /\ ~ r.closed
    BY <1>9, <2>1 DEF Responses, Statuses
  <2> HIDE DEF r
  <2>3. /\ Others' /\ responses' \in [1 .. CONNECTIONS -> Responses] /\ responses'[accepted] = r
    BY <1>8, <1>9, <2>1, <2>2
  <2>4. TinyTypeOK'
    BY <1>0, <2>1 DEF TinyTypeOK
  <2>5. Current'
    BY <1>9, <2>1, <2>2, <2>3 DEF Current, Sending
  <2>6. Descriptors'
    BY <1>0, <2>1 DEF Descriptors
  <2> QED BY <2>3, <2>4, <2>5, <2>6 DEF TinyInv
<1>11. CASE WriteHeaders
  <2> DEFINE r == [responses[accepted] EXCEPT !.status = "200", !.path = filename,
                                              !.length = filesize]
  <2>1. /\ step = "headers out" /\ step' = "open"
        /\ responses' = [responses EXCEPT ![accepted] = r]
        /\ UNCHANGED <<accepted, request, filename, filesize, open, file, up>>
    BY <1>11 DEF WriteHeaders
  <2>2. /\ r \in Responses /\ r.status = "200" /\ r.path = filename /\ r.length = filesize
        /\ ~ r.closed
    BY <1>0, <1>9, <2>1 DEF Responses, Statuses, Names, TinyTypeOK
  <2> HIDE DEF r
  <2>3. /\ Others' /\ responses' \in [1 .. CONNECTIONS -> Responses] /\ responses'[accepted] = r
    BY <1>8, <1>9, <2>1, <2>2
  <2>4. TinyTypeOK'
    BY <1>0, <2>1 DEF TinyTypeOK
  <2>5. Current'
    BY <1>0, <1>9, <2>1, <2>2, <2>3 DEF Current, Sending
  <2>6. Descriptors'
    BY <1>0, <2>1 DEF Descriptors
  <2> QED BY <2>3, <2>4, <2>5, <2>6 DEF TinyInv
<1>12. CASE OpenFile /\ ~ Exit
  <2>1. /\ step = "open" /\ step' = "unmap" /\ filesize > 0 /\ open' = open \cup {"srcfd"}
        /\ UNCHANGED <<accepted, request, filename, filesize, file, responses, up>>
    BY <1>12 DEF OpenFile
  <2>2. TinyTypeOK'
    BY <1>0, <2>1 DEF TinyTypeOK
  <2>3. Current'
    BY <1>0, <2>1 DEF Current, Sending
  <2>4. Others' /\ Descriptors'
    BY <1>0, <2>1 DEF Others, Descriptors
  <2> QED BY <1>0, <2>1, <2>2, <2>3, <2>4 DEF TinyInv
<1>13. CASE CloseFile
  <2>1. /\ step = "unmap" /\ step' = "body" /\ open' = open \ {"srcfd"}
        /\ UNCHANGED <<accepted, request, filename, filesize, file, responses, up>>
    BY <1>13 DEF CloseFile
  <2>2. TinyTypeOK' /\ Descriptors'
    BY <1>0, <2>1 DEF TinyTypeOK, Descriptors
  <2>3. Current'
    BY <1>0, <2>1 DEF Current, Sending
  <2>4. Others'
    BY <1>0, <2>1 DEF Others
  <2> QED BY <1>0, <2>1, <2>2, <2>3, <2>4 DEF TinyInv
<1>14. CASE WriteBody /\ ~ Exit
  <2> DEFINE r == [responses[accepted] EXCEPT !.body = filesize]
  <2>1. /\ step = "body" /\ step' = "close"
        /\ responses' = [responses EXCEPT ![accepted] = r]
        /\ UNCHANGED <<accepted, request, filename, filesize, open, file, up>>
    BY <1>14 DEF WriteBody
  <2>2. /\ r \in Responses /\ r.status = responses[accepted].status
        /\ r.path = responses[accepted].path /\ r.length = responses[accepted].length
        /\ r.body = filesize /\ ~ r.closed
    BY <1>0, <1>9, <2>1 DEF Responses, TinyTypeOK
  <2> HIDE DEF r
  <2>3. /\ Others' /\ responses' \in [1 .. CONNECTIONS -> Responses] /\ responses'[accepted] = r
    BY <1>8, <1>9, <2>1, <2>2
  <2>4. TinyTypeOK'
    BY <1>0, <2>1 DEF TinyTypeOK
  <2>5. Current'
    BY <1>0, <1>9, <2>1, <2>2, <2>3 DEF Current, Sending
  <2>6. Descriptors'
    BY <1>0, <2>1 DEF Descriptors
  <2> QED BY <2>3, <2>4, <2>5, <2>6 DEF TinyInv
<1>15. CASE Close
  <2> DEFINE r == [responses[accepted] EXCEPT !.closed = TRUE]
  <2>1. /\ step = "close" /\ step' = "accept" /\ open' = open \ {"connfd"}
        /\ responses' = [responses EXCEPT ![accepted] = r]
        /\ UNCHANGED <<accepted, request, filename, filesize, file, up>>
    BY <1>15 DEF Close
  <2>2. /\ r \in Responses /\ r.status = responses[accepted].status
        /\ r.body = responses[accepted].body /\ r.length = responses[accepted].length
    BY <1>9, <2>1 DEF Responses
  <2>3. r.status = "200" => r.body = r.length /\ r.length > 0
    BY <1>0, <2>1, <2>2 DEF Current
  <2> HIDE DEF r
  <2>4. /\ Others' /\ responses' \in [1 .. CONNECTIONS -> Responses]
    BY <1>8, <1>9, <2>1, <2>2, <2>3
  <2>5. TinyTypeOK' /\ Descriptors'
    BY <1>0, <2>1 DEF TinyTypeOK, Descriptors
  <2>6. Current'
    BY <2>1 DEF Current, Sending
  <2> QED BY <2>4, <2>5, <2>6 DEF TinyInv
<1>16. CASE FileChanges
  <2>1. TinyTypeOK' /\ UNCHANGED <<step, accepted, request, filename, filesize, open, responses, up>>
    BY <1>0, <1>16 DEF FileChanges, TinyTypeOK
  <2> QED BY <1>0, <2>1 DEF TinyInv, Others, Current, Descriptors
<1>17. CASE UNCHANGED tinyVars
  <2>1. /\ UNCHANGED <<step, accepted, request, filename, filesize, open, responses, up>>
        /\ file' = file
    BY <1>17 DEF tinyVars
  <2>2. TinyTypeOK'
    BY <1>0, <2>1 DEF TinyTypeOK
  <2> QED BY <1>0, <2>1, <2>2 DEF TinyInv, Others, Current, Descriptors
<1> QED BY <1>1, <1>2, <1>3, <1>4, <1>5, <1>6, <1>7, <1>10, <1>11, <1>12, <1>13, <1>14, <1>15,
           <1>16, <1>17
        DEF TinyNext, Serves, HostnameUnknown, ConnectionBreaks, ClientCloses

----------------------------------------------------------------------------
(* Tiny's files.                                                           *)

LEMMA TinyBegins == TinyInit => TinyInv
<1> SUFFICES ASSUME TinyInit PROVE TinyInv
  OBVIOUS
<1>1. responses = [c \in 1 .. CONNECTIONS |-> NoResponse] /\ step = "accept" /\ open = {} /\ accepted = 0
  BY DEF TinyInit
<1>2. Others /\ responses \in [1 .. CONNECTIONS -> Responses]
  BY <1>1, NoResponseType DEF Others, NoResponse
<1>3. TinyTypeOK
  BY TinyAssumption DEF TinyInit, TinyTypeOK, Requests
<1> QED BY <1>1, <1>2, <1>3 DEF TinyInv, Current, Descriptors, Sending

\* Whatever happens to the files, a response with status 200 is for the
\* file that its request names and has the length that was announced, and
\* no descriptor is left open between two connections (doit, serve_static).
THEOREM WholeFiles == TinySpec => []WholeFileOrNone
<1>1. TinyInv /\ [TinyNext]_tinyVars => TinyInv'
  BY TinyStep
<1>2. TinyInv => WholeFileOrNone
  <2> SUFFICES ASSUME TinyInv PROVE WholeFileOrNone
    OBVIOUS
  <2>1. \A c \in 1 .. accepted : c \in 1 .. CONNECTIONS
    <3>1. accepted \in 0 .. CONNECTIONS
      BY DEF TinyInv, TinyTypeOK
    <3>2. CONNECTIONS \in Nat
      BY TinyAssumption
    <3> QED BY <3>1, <3>2
  <2>2. step # "accept" /\ responses[accepted].status = "200" => responses[accepted].path = request.uri
    BY DEF TinyInv, Current, Sending
  <2> QED BY <2>1, <2>2 DEF TinyInv, Others, Descriptors, WholeFileOrNone
<1> QED BY <1>1, <1>2, TinyBegins, PTL DEF TinySpec

(* In the lab, whichever of its programs runs, the relay loop keeps its    *)
(* types and Tiny does (see Relay and Tiny): what does not run stays as it *)
(* began.                                                                  *)
THEOREM TypesAlways == WebSpec => []TypesOK
<1>1. WebInit => Init /\ TinyInit
  BY DEF WebInit
<1>2. [WebNext]_<<program, vars, tinyVars, requestVars>> => [Next]_vars /\ [TinyNext]_tinyVars
  BY DEF WebNext
<1>3. IInv /\ [Next]_vars => IInv'
  BY StepInvariant
<1>4. TinyInv /\ [TinyNext]_tinyVars => TinyInv'
  BY TinyStep
<1>5. IInv /\ TinyInv => TypesOK
  BY DEF IInv, TinyInv, TypesOK
<1> QED BY <1>1, <1>2, <1>3, <1>4, <1>5, InitInvariant, TinyBegins, PTL DEF WebSpec
=============================================================================
