---------------------------- MODULE DecodeProofs -----------------------------
(* What TLAPS proves about Decode, and about how the earbuds put what they *)
(* are into packets: what is written is read back.                         *)
EXTENDS Requests, FiniteSetTheorems, TLAPS

-----------------------------------------------------------------------------
(* Induction, without an operator as a parameter.                          *)

LEMMA SetInduction ==
  ASSUME NEW T, 0 \in T, \A n \in Nat : n \in T => n + 1 \in T
  PROVE  Nat \subseteq T
<1> DEFINE R == OpToRel(<, Nat)
           C == Nat \ T
<1> SUFFICES ASSUME C # {} PROVE FALSE
  OBVIOUS
<1>1. \A x, y \in Nat : x < y => <<x, y>> \in R
  BY DEF OpToRel
<1>2. IsWellFoundedOn(R, Nat)
  BY NatLessThanWellFounded
<1> HIDE DEF R
<1>3. PICK x \in C : \A y \in C : ~ (<<y, x>> \in R)
  <2> C \subseteq Nat
    OBVIOUS
  <2> HIDE DEF C
  <2> QED
    BY <1>2, WFMin
<1>4. x \in Nat /\ x # 0 /\ x - 1 \in Nat /\ x - 1 < x
  BY <1>3
<1>5. x - 1 \in C
  BY <1>3, <1>4
<1> QED
  BY <1>1, <1>3, <1>4, <1>5

-----------------------------------------------------------------------------
(* Sequences that are joined.                                              *)

Join(f, seqs, i) == IF i = 1 THEN seqs[i] ELSE f[i - 1] \o seqs[i]

Joins(f, n, seqs) == f = [i \in 1 .. n |-> Join(f, seqs, i)]

LEMMA JoinsAt ==
  ASSUME NEW f, NEW n, NEW seqs, Joins(f, n, seqs), NEW i \in 1 .. n
  PROVE  f[i] = Join(f, seqs, i)
<1>1. f = [j \in 1 .. n |-> Join(f, seqs, j)]
  BY DEF Joins
<1> QED
  BY <1>1, Zenon

LEMMA JoinExists ==
  ASSUME NEW S, NEW seqs \in Seq(Seq(S)), NEW n \in Nat, n <= Len(seqs)
  PROVE  \E f \in [1 .. n -> Seq(S)] : Joins(f, n, seqs)
<1> DEFINE T == {m \in Nat : m <= Len(seqs) => \E f \in [1 .. m -> Seq(S)] : Joins(f, m, seqs)}
<1>1. 0 \in T
  <2> DEFINE f == [i \in 1 .. 0 |-> seqs[i]]
  <2>1. f \in [1 .. 0 -> Seq(S)] /\ Joins(f, 0, seqs)
    BY DEF Joins
  <2> QED
    BY <2>1
<1>2. ASSUME NEW m \in Nat, m \in T
      PROVE  m + 1 \in T
  <2> SUFFICES ASSUME m + 1 <= Len(seqs)
               PROVE  \E g \in [1 .. m + 1 -> Seq(S)] : Joins(g, m + 1, seqs)
    OBVIOUS
  <2>1. PICK f \in [1 .. m -> Seq(S)] : Joins(f, m, seqs)
    BY <1>2
  <2>2. seqs[m + 1] \in Seq(S)
    OBVIOUS
  <2> DEFINE last == IF m = 0 THEN seqs[m + 1] ELSE f[m] \o seqs[m + 1]
             g == [i \in 1 .. m + 1 |-> IF i = m + 1 THEN last ELSE f[i]]
  <2>3. last \in Seq(S)
    BY <2>1, <2>2
  <2>4. g \in [1 .. m + 1 -> Seq(S)]
    BY <2>1, <2>3
  <2>5. ASSUME NEW i \in 1 .. m + 1
        PROVE  g[i] = Join(g, seqs, i)
    <3>1. CASE i = m + 1
      BY <3>1 DEF Join
    <3>2. CASE i # m + 1
      <4>1. i \in 1 .. m /\ (i # 1 => i - 1 \in 1 .. m /\ i - 1 # m + 1)
        BY <3>2
      <4>2. f[i] = Join(f, seqs, i)
        BY <2>1, <4>1, JoinsAt
      <4>3. g[i] = f[i] /\ (i # 1 => g[i - 1] = f[i - 1])
        BY <3>2, <4>1
      <4> HIDE DEF g
      <4> QED
        BY <4>2, <4>3, Zenon DEF Join
    <3> QED
      BY <3>1, <3>2
  <2> HIDE DEF g
  <2>6. g = [i \in 1 .. m + 1 |-> Join(g, seqs, i)]
    BY <2>4, <2>5
  <2> QED
    BY <2>4, <2>6 DEF Joins
<1> HIDE DEF T
<1>3. n \in T
  BY <1>1, <1>2, SetInduction
<1> QED
  BY <1>3 DEF T

\* f joins the first m, and g the first n, of sequences that are the same up to m.
BothJoin(f, m, seqs, g, n, more) ==
  /\ m \in Nat /\ n \in Nat /\ m <= n /\ Joins(f, m, seqs) /\ Joins(g, n, more)
  /\ \A i \in 1 .. m : seqs[i] = more[i]

AgreeAt(f, g, k) == f[k] = g[k]

LEMMA JoinUnique ==
  ASSUME NEW f, NEW m, NEW seqs, NEW g, NEW n, NEW more, 
         BothJoin(f, m, seqs, g, n, more), NEW k \in 1 .. m
  PROVE  AgreeAt(f, g, k)
<1>0. /\ m \in Nat /\ n \in Nat /\ m <= n /\ Joins(f, m, seqs) /\ Joins(g, n, more)
      /\ \A i \in 1 .. m : seqs[i] = more[i]
  BY DEF BothJoin
<1> DEFINE T == {i \in Nat : i \in 1 .. m => f[i] = g[i]}
<1>1. 0 \in T
  OBVIOUS
<1>2. ASSUME NEW i \in Nat, i \in T
      PROVE  i + 1 \in T
  <2> SUFFICES ASSUME i + 1 \in 1 .. m PROVE f[i + 1] = g[i + 1]
    OBVIOUS
  <2>1. f[i + 1] = Join(f, seqs, i + 1)
    BY <1>0, JoinsAt
  <2>2. i + 1 \in 1 .. n
    BY <1>0
  <2>3. g[i + 1] = Join(g, more, i + 1)
    BY <1>0, <2>2, JoinsAt
  <2>4. i + 1 - 1 = i /\ seqs[i + 1] = more[i + 1]
    BY <1>0
  <2>5. CASE i = 0
    BY <2>1, <2>3, <2>4, <2>5 DEF Join
  <2>6. CASE i # 0
    <3>1. f[i] = g[i]
      BY <1>0, <1>2, <2>6
    <3> QED
      BY <2>1, <2>3, <2>4, <3>1 DEF Join
  <2> QED
    BY <2>5, <2>6
<1> HIDE DEF T
<1>3. k \in T
  BY <1>0, <1>1, <1>2, SetInduction
<1> QED
  BY <1>0, <1>3 DEF T, AgreeAt

\* What FlattenSeq computes is such a function at its last place.
LEMMA FlattenJoins ==
  ASSUME NEW S, NEW seqs \in Seq(Seq(S)), Len(seqs) # 0
  PROVE  \E f \in [1 .. Len(seqs) -> Seq(S)] :
           Joins(f, Len(seqs), seqs) /\ FlattenSeq(seqs) = f[Len(seqs)]
<1> DEFINE n == Len(seqs)
           flatten[i \in 1 .. n] == IF i = 1 THEN seqs[i] ELSE flatten[i - 1] \o seqs[i]
<1>1. FlattenSeq(seqs) = flatten[n]
  BY DEF FlattenSeq
<1>2. PICK f \in [1 .. n -> Seq(S)] : Joins(f, n, seqs)
  BY JoinExists
<1>3. flatten = CHOOSE g : g = [i \in 1 .. n |-> IF i = 1 THEN seqs[i] ELSE g[i - 1] \o seqs[i]]
  OBVIOUS
<1>4. Joins(flatten, n, seqs)
  <2>1. Joins(f, n, seqs) <=> f = [i \in 1 .. n |-> IF i = 1 THEN seqs[i] ELSE f[i - 1] \o seqs[i]]
    BY DEF Joins, Join
  <2>2. Joins(flatten, n, seqs)
          <=> flatten = [i \in 1 .. n |-> IF i = 1 THEN seqs[i] ELSE flatten[i - 1] \o seqs[i]]
    BY DEF Joins, Join
  <2> HIDE DEF flatten
  <2> QED
    BY <1>2, <1>3, <2>1, <2>2, Zenon
<1> HIDE DEF flatten
<1>5. \A i \in 1 .. n : flatten[i] = f[i]
  <2> TAKE i \in 1 .. n
  <2>1. BothJoin(flatten, n, seqs, f, n, seqs)
    BY <1>2, <1>4 DEF BothJoin
  <2>2. AgreeAt(flatten, f, i)
    BY <2>1, JoinUnique
  <2> QED
    BY <2>2 DEF AgreeAt
<1>6. n \in 1 .. n
  OBVIOUS
<1> QED
  BY <1>1, <1>2, <1>5, <1>6

LEMMA FlattenEmpty == FlattenSeq(<<>>) = <<>>
BY DEF FlattenSeq

LEMMA FlattenAppend ==
  ASSUME NEW S, NEW seqs \in Seq(Seq(S)), NEW w \in Seq(S)
  PROVE  FlattenSeq(seqs) \in Seq(S) /\ FlattenSeq(Append(seqs, w)) = FlattenSeq(seqs) \o w
<1> DEFINE more == Append(seqs, w)
           n == Len(seqs)
<1>1. more \in Seq(Seq(S)) /\ Len(more) = n + 1 /\ n \in Nat /\ more[n + 1] = w
      /\ \A i \in 1 .. n : seqs[i] = more[i]
  OBVIOUS
<1> HIDE DEF more
<1>2. PICK g \in [1 .. n + 1 -> Seq(S)] :
        Joins(g, n + 1, more) /\ FlattenSeq(more) = g[n + 1]
  BY <1>1, FlattenJoins
<1>3. g[n + 1] = IF n + 1 = 1 THEN w ELSE g[n + 1 - 1] \o w
  <2>1. n + 1 \in 1 .. n + 1
    BY <1>1
  <2>2. g[n + 1] = Join(g, more, n + 1)
    BY <1>2, <2>1, JoinsAt, Zenon
  <2> QED
    BY <1>1, <2>2 DEF Join
<1>4. CASE n = 0
  <2>1. seqs = <<>> /\ <<>> \in Seq(S) /\ <<>> \o w = w
    BY <1>4
  <2>2. FlattenSeq(more) = w
    BY <1>2, <1>3, <1>4
  <2> QED
    BY <2>1, <2>2, FlattenEmpty DEF more
<1>5. CASE n # 0
  <2>1. PICK f \in [1 .. n -> Seq(S)] : Joins(f, n, seqs) /\ FlattenSeq(seqs) = f[n]
    BY <1>5, FlattenJoins
  <2>2. n \in 1 .. n /\ n <= n + 1
    BY <1>1, <1>5
  <2>3. f[n] = g[n]
    <3>1. BothJoin(f, n, seqs, g, n + 1, more)
      BY <1>1, <1>2, <2>1, <2>2 DEF BothJoin
    <3>2. AgreeAt(f, g, n)
      BY <2>2, <3>1, JoinUnique
    <3> QED
      BY <3>2 DEF AgreeAt
  <2> QED
    BY <1>1, <1>2, <1>3, <1>5, <2>1, <2>2, <2>3 DEF more
<1> QED
  BY <1>4, <1>5

LEMMA FlattenOne ==
  ASSUME NEW S, NEW w \in Seq(S)
  PROVE  FlattenSeq(<<w>>) = w
<1>1. <<>> \in Seq(Seq(S)) /\ Append(<<>>, w) = <<w>> /\ <<>> \o w = w
  OBVIOUS
<1>2. FlattenSeq(Append(<<>>, w)) = FlattenSeq(<<>>) \o w
  BY <1>1, FlattenAppend
<1> QED
  BY <1>1, <1>2, FlattenEmpty

\* The last of a sequence that is not empty.
LEMMA LastApart ==
  ASSUME NEW S, NEW seq \in Seq(S), NEW n \in Nat, Len(seq) = n + 1
  PROVE  \E front \in Seq(S), w \in S : seq = Append(front, w) /\ Len(front) = n
<1> DEFINE front == SubSeq(seq, 1, n)
           w == seq[n + 1]
<1>1. front \in Seq(S) /\ w \in S /\ Len(front) = n
  OBVIOUS
<1>2. seq = Append(front, w)
  OBVIOUS
<1> QED
  BY <1>1, <1>2

LEMMA FlattenConcat ==
  ASSUME NEW S, NEW a \in Seq(Seq(S)), NEW b \in Seq(Seq(S))
  PROVE  FlattenSeq(a \o b) = FlattenSeq(a) \o FlattenSeq(b)
<1> DEFINE T == {n \in Nat : \A c \in Seq(Seq(S)) :
                   Len(c) = n => FlattenSeq(a \o c) = FlattenSeq(a) \o FlattenSeq(c)}
<1>0. <<>> \in Seq(S) /\ FlattenSeq(a) \in Seq(S)
  BY FlattenAppend
<1>1. 0 \in T
  <2> SUFFICES ASSUME NEW c \in Seq(Seq(S)), Len(c) = 0
               PROVE  FlattenSeq(a \o c) = FlattenSeq(a) \o FlattenSeq(c)
    OBVIOUS
  <2>1. c = <<>> /\ a \o c = a
    OBVIOUS
  <2> QED
    BY <1>0, <2>1, FlattenEmpty
<1>2. ASSUME NEW n \in Nat, n \in T
      PROVE  n + 1 \in T
  <2> SUFFICES ASSUME NEW c \in Seq(Seq(S)), Len(c) = n + 1
               PROVE  FlattenSeq(a \o c) = FlattenSeq(a) \o FlattenSeq(c)
    OBVIOUS
  <2>1. PICK front \in Seq(Seq(S)), w \in Seq(S) : c = Append(front, w) /\ Len(front) = n
    BY LastApart
  <2>2. FlattenSeq(a \o front) = FlattenSeq(a) \o FlattenSeq(front)
    BY <1>2, <2>1
  <2>3. a \o c = Append(a \o front, w) /\ a \o front \in Seq(Seq(S))
    BY <2>1
  <2>4. FlattenSeq(a \o c) = FlattenSeq(a \o front) \o w
    BY <2>3, FlattenAppend
  <2>5. FlattenSeq(c) = FlattenSeq(front) \o w /\ FlattenSeq(front) \in Seq(S)
    BY <2>1, FlattenAppend
  <2> QED
    BY <1>0, <2>2, <2>4, <2>5
<1> HIDE DEF T
<1>3. Len(b) \in Nat
  OBVIOUS
<1>4. Nat \subseteq T
  BY <1>1, <1>2, SetInduction
<1>5. Len(b) \in T
  BY <1>3, <1>4
<1> QED
  BY <1>5 DEF T

-----------------------------------------------------------------------------
(* The stream.                                                             *)

LEMMA LowAndHigh == \A n \in Nat : Low(n) \in Bytes /\ High(n) \in Nat /\ Low(n) + 256 * High(n) = n
BY DEF Low, High, Bytes

LEMMA MinOf ==
  ASSUME NEW T \in SUBSET Nat, NEW m \in T, \A n \in T : m <= n
  PROVE  Min(T) = m
<1>1. \A n \in T : (\A k \in T : n <= k) => n = m
  OBVIOUS
<1> QED
  BY <1>1, Zenon DEF Min

LEMMA MaxOf ==
  ASSUME NEW T \in SUBSET Nat, NEW m \in T, \A n \in T : m >= n
  PROVE  Max(T) = m
<1>1. \A n \in T : (\A k \in T : n >= k) => n = m
  OBVIOUS
<1> QED
  BY <1>1, Zenon DEF Max

IsSeq(T, s, n) == s \in Seq(T) /\ n \in Nat /\ Len(s) = n

\* s is a, which has m members, and then b, which has n.
Two(T, s, a, m, b, n) ==
  /\ IsSeq(T, s, m + n)
  /\ \A i \in 1 .. m : s[i] = a[i]
  /\ \A i \in 1 .. n : s[m + i] = b[i]
  /\ SubSeq(s, 1, m) = a /\ SubSeq(s, m + 1, m + n) = b

LEMMA TwoConcat ==
  ASSUME NEW T, NEW a, NEW m, NEW b, NEW n, IsSeq(T, a, m), IsSeq(T, b, n)
  PROVE  Two(T, a \o b, a, m, b, n)
<1> DEFINE s == a \o b
<1>1. a \in Seq(T) /\ b \in Seq(T) /\ m \in Nat /\ n \in Nat /\ Len(a) = m /\ Len(b) = n
  BY DEF IsSeq
<1>2. s \in Seq(T) /\ Len(s) = m + n /\ m + n \in Nat
  BY <1>1
<1>3. \A i \in 1 .. m : s[i] = a[i]
  BY <1>1
<1>4. \A i \in 1 .. n : s[m + i] = b[i]
  BY <1>1
<1>5. SubSeq(s, 1, m) = a
  BY <1>1
<1>6. SubSeq(s, m + 1, m + n) = b
  BY <1>1
<1> HIDE DEF s
<1>7. Two(T, s, a, m, b, n)
  BY <1>2, <1>3, <1>4, <1>5, <1>6 DEF Two, IsSeq
<1> QED
  BY <1>7 DEF s

LEMMA LowHigh ==
  ASSUME NEW n \in Nat
  PROVE  Low(n) \in Nat /\ High(n) \in Nat /\ Low(n) + 256 * High(n) = n
BY DEF Low, High

\* The eight bytes before the payload.
IsHead(head, cmd, n) ==
  /\ IsSeq(Nat, head, 8) /\ head[1] = SOF /\ head[2] = 96
  /\ head[4] + 256 * head[5] = cmd /\ head[6] + 256 * head[7] = n

LEMMA HeadOfPacket ==
  ASSUME NEW cmd \in Nat, NEW n \in Nat
  PROVE  IsHead(<<SOF, 96, 1, Low(cmd), High(cmd), Low(n), High(n), 0>>, cmd, n)
<1>1. Low(n) \in Nat /\ High(n) \in Nat /\ Low(n) + 256 * High(n) = n
  BY LowHigh
<1>2. Low(cmd) \in Nat /\ High(cmd) \in Nat /\ Low(cmd) + 256 * High(cmd) = cmd
  BY LowHigh
<1> QED
  BY <1>1, <1>2 DEF IsHead, SOF, IsSeq

\* A frame starts with its head and ends with a checksum.
IsFrame(w, cmd, payload, n) ==
  /\ IsSeq(Nat, w, 10 + n) /\ w[1] = SOF /\ w[2] = 96
  /\ w[4] + 256 * w[5] = cmd /\ w[6] + 256 * w[7] = n
  /\ SubSeq(w, 9, 8 + n) = payload

LEMMA PacketIsFrame ==
  ASSUME NEW cmd \in Nat, NEW payload, NEW n, IsSeq(Nat, payload, n)
  PROVE  IsFrame(MarshalBinary(Packet(cmd, payload)), cmd, payload, n)
<1> DEFINE head == <<SOF, 96, 1, Low(cmd), High(cmd), Low(n), High(n), 0>>
           sum == <<0, 0>>
           front == head \o payload
           w == front \o sum
<1>1. n \in Nat /\ Len(payload) = n
  BY DEF IsSeq
<1>2. MarshalBinary(Packet(cmd, payload)) = w
  BY <1>1 DEF MarshalBinary, Packet
<1>3. IsHead(head, cmd, n)
  BY <1>1, HeadOfPacket
<1>4. IsSeq(Nat, sum, 2)
  BY DEF IsSeq
<1> HIDE DEF head, sum
<1>5. Two(Nat, front, head, 8, payload, n)
  BY <1>3, TwoConcat, Zenon DEF IsHead
<1> HIDE DEF front
<1>6. Two(Nat, w, front, 8 + n, sum, 2)
  <2>1. IsSeq(Nat, front, 8 + n)
    BY <1>5, Zenon DEF Two
  <2> QED
    BY <1>4, <2>1, TwoConcat
<1> HIDE DEF w
<1>7. IsSeq(Nat, w, 10 + n)
  BY <1>1, <1>6 DEF Two, IsSeq
<1>8. \A i \in 1 .. 8 : w[i] = head[i]
  BY <1>1, <1>5, <1>6 DEF Two
<1>9. SubSeq(w, 9, 8 + n) = payload
  <2>1. SubSeq(w, 1, 8 + n) = front /\ SubSeq(front, 9, 8 + n) = payload
    BY <1>5, <1>6 DEF Two
  <2>2. w \in Seq(Nat) /\ Len(w) = 10 + n
    BY <1>7 DEF IsSeq
  <2>3. SubSeq(SubSeq(w, 1, 8 + n), 9, 8 + n) = SubSeq(w, 9, 8 + n)
    BY <1>1, <2>2
  <2> QED
    BY <2>1, <2>3
<1> QED
  BY <1>2, <1>3, <1>7, <1>8, <1>9 DEF IsFrame, IsHead

\* A packet that is written is read, whatever follows it, unless it is too long.
LEMMA FrameIsRead ==
  ASSUME NEW w, NEW cmd, NEW payload, NEW n, IsFrame(w, cmd, payload, n), n \in Nat,
         NEW rest, NEW m, IsSeq(Nat, rest, m)
  PROVE  readPacketFromSOF(w \o rest) =
           IF n > MaxPayload THEN Failed
           ELSE [status |-> "packet", rest |-> rest, pkt |-> Packet(cmd, payload)]
<1> DEFINE s == w \o rest
<1>2. /\ w[2] = 96 /\ w[4] + 256 * w[5] = cmd /\ w[6] + 256 * w[7] = n
      /\ w \in Seq(Nat) /\ Len(w) = 10 + n /\ SubSeq(w, 9, 8 + n) = payload
  BY DEF IsFrame, IsSeq
<1>3. Two(Nat, s, w, 10 + n, rest, m)
  BY TwoConcat, Zenon DEF IsFrame
<1> HIDE DEF s
<1>4. /\ s[2] = w[2] /\ s[6] = w[6] /\ s[7] = w[7] 
      /\ SubSeq(s, 1, 10 + n) = w /\ SubSeq(s, 10 + n + 1, Len(s)) = rest
      /\ Len(s) = 10 + n + m /\ m \in Nat
  BY <1>3 DEF Two, IsSeq
<1> DEFINE length == s[6] + 256 * s[7]
           size == 8 + length + (IF HasCRC(s[2]) THEN 2 ELSE 0)
<1>5. length = n
  BY <1>2, <1>4
<1>6. HasCRC(s[2])
  BY <1>2, <1>4 DEF HasCRC
<1>7. size = 10 + n
  BY <1>5, <1>6
<1>8. DecodePacket(w, rest) = [status |-> "packet", rest |-> rest, pkt |-> Packet(cmd, payload)]
  <2>1. w[6] \in Nat /\ w[7] \in Nat
    BY <1>2
  <2>2. \A x, y \in Nat : 8 + x + 256 * y = 8 + (x + 256 * y)
    OBVIOUS
  <2>3. 8 + w[6] + 256 * w[7] = 8 + (w[6] + 256 * w[7])
    BY <2>1, <2>2
  <2>4. 8 + (w[6] + 256 * w[7]) = 8 + n
    BY <1>2, Zenon
  <2> QED
    BY <1>2, <2>3, <2>4, Zenon DEF DecodePacket
<1> HIDE DEF length, size
<1>9. readPacketFromSOF(s) =
        CASE Len(s) < 8 -> Waiting
          [] Len(s) >= 8 /\ length > MaxPayload -> Failed
          [] Len(s) >= 8 /\ length <= MaxPayload /\ Len(s) < size -> Waiting
          [] OTHER -> DecodePacket(SubSeq(s, 1, size), SubSeq(s, size + 1, Len(s)))
  BY Zenon DEF readPacketFromSOF, length, size
<1>10. Len(s) >= 8 /\ ~(Len(s) < 8) /\ ~(Len(s) < size)
  BY <1>4, <1>7
<1>11. readPacketFromSOF(s) = IF n > MaxPayload THEN Failed ELSE DecodePacket(w, rest)
  <2>1. CASE n > MaxPayload
    BY <1>5, <1>9, <1>10, <2>1, Zenon
  <2>2. CASE ~(n > MaxPayload)
    BY <1>4, <1>5, <1>7, <1>9, <1>10, <2>2, Zenon
  <2> QED
    BY <2>1, <2>2
<1> QED
  BY <1>8, <1>11, Zenon DEF s

IsNoise(z) == \A i \in DOMAIN z : z[i] # SOF

LEMMA OnlyNoise ==
  ASSUME NEW z, NEW k, IsSeq(Nat, z, k), IsNoise(z)
  PROVE  ReadPacket(z) \in {Failed, Waiting}
<1> DEFINE starts == {i \in 1 .. Len(z) : z[i] = SOF}
           skipped == IF starts = {} THEN Len(z) ELSE Min(starts) - 1
<1>1. starts = {}
  BY DEF IsSeq, IsNoise
<1>2. skipped = k /\ k \in Nat
  BY <1>1 DEF IsSeq
<1> HIDE DEF starts, skipped
<1>3. ReadPacket(z) =
        CASE skipped > MaxNoise -> Failed
          [] skipped <= MaxNoise /\ starts = {} -> Waiting
          [] OTHER -> readPacketFromSOF(SubSeq(z, skipped + 1, Len(z)))
  BY Zenon DEF ReadPacket, starts, skipped
<1>4. skipped > MaxNoise \/ (skipped <= MaxNoise /\ ~(skipped > MaxNoise))
  BY <1>2, SppAssumption
<1> QED
  BY <1>1, <1>3, <1>4, Zenon

LEMMA StartsAfterNoise ==
  ASSUME NEW z, NEW k, IsSeq(Nat, z, k), IsNoise(z),
         NEW s, NEW n, IsSeq(Nat, s, n), n # 0, s[1] = SOF
  PROVE  ReadPacket(z \o s) = IF k > MaxNoise THEN Failed ELSE readPacketFromSOF(s)
<1> DEFINE all == z \o s
           starts == {i \in 1 .. Len(all) : all[i] = SOF}
           skipped == IF starts = {} THEN Len(all) ELSE Min(starts) - 1
<1>1. Two(Nat, all, z, k, s, n)
  BY TwoConcat
<1> HIDE DEF all
<1>2. /\ Len(all) = k + n /\ k \in Nat /\ n \in Nat /\ n # 0
      /\ \A i \in 1 .. k : all[i] = z[i]
      /\ \A i \in 1 .. n : all[k + i] = s[i]
      /\ SubSeq(all, k + 1, k + n) = s
  BY <1>1 DEF Two, IsSeq
<1>3. k + 1 \in 1 .. Len(all)
  BY <1>2
<1>4. all[k + 1] = SOF
  BY <1>2
<1>5. k + 1 \in starts
  BY <1>3, <1>4
<1>6. \A i \in starts : k + 1 <= i
  <2> SUFFICES ASSUME NEW i \in 1 .. Len(all), all[i] = SOF, ~(k + 1 <= i) PROVE FALSE
    OBVIOUS
  <2>1. i \in 1 .. k
    BY <1>2
  <2>2. z[i] # SOF
    BY <2>1 DEF IsSeq, IsNoise
  <2> QED
    BY <1>2, <2>1, <2>2
<1>7. starts \in SUBSET Nat
  BY <1>2
<1> HIDE DEF starts
<1>8. Min(starts) = k + 1
  BY <1>5, <1>6, <1>7, MinOf
<1>9. skipped = k /\ starts # {}
  BY <1>2, <1>5, <1>8
<1> HIDE DEF skipped
<1>10. ReadPacket(all) =
        CASE skipped > MaxNoise -> Failed
          [] skipped <= MaxNoise /\ starts = {} -> Waiting
          [] OTHER -> readPacketFromSOF(SubSeq(all, skipped + 1, Len(all)))
  BY Zenon DEF ReadPacket, starts, skipped
<1>11. ReadPacket(all) = IF k > MaxNoise THEN Failed ELSE readPacketFromSOF(SubSeq(all, k + 1, Len(all)))
  BY <1>9, <1>10, Zenon
<1> QED
  BY <1>2, <1>11, Zenon DEF all

\* What starts like a packet but is too long.
IsHopeless(w) ==
  /\ w \in Seq(Nat) /\ Len(w) >= 8 /\ w[1] = SOF /\ w[6] + 256 * w[7] > MaxPayload

LEMMA HopelessFails ==
  ASSUME NEW w, IsHopeless(w), NEW rest, NEW m, IsSeq(Nat, rest, m)
  PROVE  readPacketFromSOF(w \o rest) = Failed
<1> DEFINE s == w \o rest
           n == Len(w)
<1>1. n \in Nat /\ n >= 8 /\ IsSeq(Nat, w, n) /\ w[6] + 256 * w[7] > MaxPayload
  BY DEF IsHopeless, IsSeq
<1>2. Two(Nat, s, w, n, rest, m)
  BY <1>1, TwoConcat
<1> HIDE DEF s, n
<1>3. /\ s[6] = w[6] /\ s[7] = w[7] /\ Len(s) = n + m /\ m \in Nat
  BY <1>1, <1>2 DEF Two, IsSeq
<1> DEFINE length == s[6] + 256 * s[7]
           size == 8 + length + (IF HasCRC(s[2]) THEN 2 ELSE 0)
<1>4. length > MaxPayload
  BY <1>1, <1>3, Zenon
<1>5. Len(s) >= 8 /\ ~(Len(s) < 8)
  BY <1>1, <1>3
<1> HIDE DEF length, size
<1>6. readPacketFromSOF(s) =
        CASE Len(s) < 8 -> Waiting
          [] Len(s) >= 8 /\ length > MaxPayload -> Failed
          [] Len(s) >= 8 /\ length <= MaxPayload /\ Len(s) < size -> Waiting
          [] OTHER -> DecodePacket(SubSeq(s, 1, size), SubSeq(s, size + 1, Len(s)))
  BY Zenon DEF readPacketFromSOF, length, size
<1>7. ~(length <= MaxPayload)
  <2>1. w[6] \in Nat /\ w[7] \in Nat
    BY DEF IsHopeless
  <2>2. length \in Nat /\ MaxPayload \in Nat
    BY <1>3, <2>1, SppAssumption DEF length
  <2> QED
    BY <1>4, <2>2
<1>8. readPacketFromSOF(s) = Failed
  BY <1>4, <1>5, <1>6, <1>7, Zenon
<1> QED
  BY <1>8 DEF s

-----------------------------------------------------------------------------
(* The stream as what was written to it.                                   *)

Chunks(S) == Seq(Seq(S))

FlattenApart(a, b) == FlattenSeq(a \o b) = FlattenSeq(a) \o FlattenSeq(b)

LEMMA FlattenChunks ==
  ASSUME NEW S, NEW a, NEW b, a \in Chunks(S), b \in Chunks(S)
  PROVE  FlattenSeq(a) \in Seq(S) /\ FlattenApart(a, b)
<1> USE DEF Chunks
<1>1. FlattenSeq(a \o b) = FlattenSeq(a) \o FlattenSeq(b)
  BY FlattenConcat, Zenon
<1>3. <<>> \in Seq(S)
  OBVIOUS
<1>4. FlattenSeq(a) \in Seq(S)
  BY FlattenAppend, <1>3, Zenon
<1> QED
  BY <1>1, <1>4 DEF FlattenApart

LEMMA FlattenWrite ==
  ASSUME NEW S, NEW w, w \in Seq(S)
  PROVE  <<w>> \in Chunks(S) /\ FlattenSeq(<<w>>) = w
BY FlattenOne DEF Chunks

LEMMA SameMembers ==
  ASSUME NEW T, NEW s, NEW z, NEW n, IsSeq(T, s, n), IsSeq(T, z, n), \A i \in 1 .. n : s[i] = z[i]
  PROVE  s = z
<1>1. DOMAIN s = 1 .. n /\ DOMAIN z = 1 .. n
  BY DEF IsSeq
<1>2. s = [i \in 1 .. n |-> s[i]] /\ z = [i \in 1 .. n |-> z[i]]
  BY <1>1 DEF IsSeq
<1>3. [i \in 1 .. n |-> s[i]] = [i \in 1 .. n |-> z[i]]
  OBVIOUS
<1> QED
  BY <1>2, <1>3, Zenon

LEMMA CutAround ==
  ASSUME NEW T, NEW s \in Seq(T), NEW i \in 1 .. Len(s)
  PROVE  /\ SubSeq(s, 1, i) = SubSeq(s, 1, i - 1) \o <<s[i]>>
         /\ s = SubSeq(s, 1, i - 1) \o (<<s[i]>> \o SubSeq(s, i + 1, Len(s)))
<1> DEFINE a == SubSeq(s, 1, i - 1)
           b == SubSeq(s, i + 1, Len(s))
           m == <<s[i]>>
           n == Len(s)
           c == m \o b
           front == a \o m
           all == a \o c
<1>1. n \in Nat /\ IsSeq(T, a, i - 1) /\ \A j \in 1 .. i - 1 : a[j] = s[j]
  BY DEF IsSeq
<1>2. IsSeq(T, b, n - i) /\ \A j \in 1 .. n - i : b[j] = s[i + j]
  BY DEF IsSeq
<1>3. IsSeq(T, m, 1) /\ m[1] = s[i]
  BY DEF IsSeq
<1>4. IsSeq(T, SubSeq(s, 1, i), i) /\ \A j \in 1 .. i : SubSeq(s, 1, i)[j] = s[j]
  BY DEF IsSeq
<1> HIDE DEF a, b, m
<1>5. Two(T, c, m, 1, b, n - i)
  BY <1>2, <1>3, TwoConcat
<1>6. Two(T, front, a, i - 1, m, 1)
  BY <1>1, <1>3, TwoConcat
<1> HIDE DEF c
<1>7. Two(T, all, a, i - 1, c, 1 + (n - i))
  <2>1. IsSeq(T, c, 1 + (n - i))
    BY <1>5, Zenon DEF Two
  <2> QED
    BY <1>1, <2>1, TwoConcat
<1> HIDE DEF all, front
<1>8. front \in Seq(T) /\ Len(front) = i /\ \A j \in 1 .. i : front[j] = s[j]
  <2>1. front \in Seq(T) /\ Len(front) = i - 1 + 1
    BY <1>6 DEF Two, IsSeq
  <2>2. \A j \in 1 .. i - 1 : front[j] = s[j]
    BY <1>1, <1>6, Zenon DEF Two
  <2>3. front[i - 1 + 1] = s[i]
    BY <1>3, <1>6 DEF Two
  <2> QED
    BY <2>1, <2>2, <2>3
<1>9. SubSeq(s, 1, i) = front
  <2>1. IsSeq(T, front, i)
    BY <1>8 DEF IsSeq
  <2>2. \A j \in 1 .. i : SubSeq(s, 1, i)[j] = front[j]
    BY <1>4, <1>8, Zenon
  <2> QED
    BY <1>4, <2>1, <2>2, SameMembers, Zenon
<1>10. all \in Seq(T) /\ Len(all) = n /\ \A j \in 1 .. n : all[j] = s[j]
  <2>1. all \in Seq(T) /\ Len(all) = n
    BY <1>1, <1>7 DEF Two, IsSeq
  <2>2. \A j \in 1 .. i - 1 : all[j] = s[j]
    BY <1>1, <1>7, Zenon DEF Two
  <2>3. \A j \in 1 .. 1 + (n - i) : all[i - 1 + j] = c[j]
    BY <1>7, Zenon DEF Two
  <2>4. c[1] = s[i] /\ \A j \in 1 .. n - i : c[1 + j] = s[i + j]
    <3>1. \A j \in 1 .. 1 : c[j] = m[j]
      BY <1>5, Zenon DEF Two
    <3>2. \A j \in 1 .. n - i : c[1 + j] = b[j]
      BY <1>5, Zenon DEF Two
    <3>3. c[1] = s[i]
      BY <1>3, <3>1
    <3>4. \A j \in 1 .. n - i : c[1 + j] = s[i + j]
      BY <1>2, <3>2, Zenon
    <3> QED
      BY <3>3, <3>4
  <2>5. \A j \in i .. n : all[j] = s[j]
    <3> TAKE j \in i .. n
    <3> DEFINE k == j - (i - 1)
    <3>1. k \in 1 .. 1 + (n - i) /\ i - 1 + k = j
      BY <1>1
    <3>2. all[j] = c[k]
      BY <2>3, <3>1
    <3>3. CASE j = i
      BY <2>4, <3>2, <3>3
    <3>4. CASE j # i
      <4>1. j - i \in 1 .. n - i /\ 1 + (j - i) = k /\ i + (j - i) = j
        BY <1>1, <3>4
      <4>2. c[1 + (j - i)] = s[i + (j - i)]
        BY <2>4, <4>1
      <4> QED
        BY <3>2, <4>1, <4>2
    <3> QED
      BY <3>3, <3>4
  <2> QED
    BY <2>1, <2>2, <2>5
<1>11. s = all
  <2>1. IsSeq(T, s, n) /\ IsSeq(T, all, n)
    BY <1>1, <1>10 DEF IsSeq
  <2>2. \A j \in 1 .. n : s[j] = all[j]
    BY <1>10
  <2> QED
    BY <2>1, <2>2, SameMembers, Zenon
<1> QED
  BY <1>9, <1>11 DEF front, all, a, b, c, m

\* Chunks are those before one of them, that one, and those after it.
CutAt(writes, i) ==
  /\ writes = SubSeq(writes, 1, i - 1) \o (<<writes[i]>> \o SubSeq(writes, i + 1, Len(writes)))
  /\ SubSeq(writes, 1, i) = SubSeq(writes, 1, i - 1) \o <<writes[i]>>

LEMMA Around ==
  ASSUME NEW S, NEW writes, writes \in Chunks(S), NEW i \in DOMAIN writes
  PROVE  /\ SubSeq(writes, 1, i - 1) \in Chunks(S) /\ SubSeq(writes, i + 1, Len(writes)) \in Chunks(S)
         /\ CutAt(writes, i)
         /\ writes[i] \in Seq(S)
<1> DEFINE T == Seq(S)
<1> HIDE DEF T
<1>1. writes \in Seq(T)
  BY DEF Chunks, T
<1>2. i \in 1 .. Len(writes) /\ Len(writes) \in Nat /\ writes[i] \in T
  BY <1>1
<1>3. SubSeq(writes, 1, i - 1) \in Seq(T) /\ SubSeq(writes, i + 1, Len(writes)) \in Seq(T)
  BY <1>1, <1>2
<1>4. /\ SubSeq(writes, 1, i) = SubSeq(writes, 1, i - 1) \o <<writes[i]>>
      /\ writes = SubSeq(writes, 1, i - 1) \o (<<writes[i]>> \o SubSeq(writes, i + 1, Len(writes)))
  BY <1>1, <1>2, CutAround, Zenon
<1> QED
  BY <1>2, <1>3, <1>4 DEF Chunks, T, CutAt

IsPacket(w) == \E cmd, payload, n : cmd \in Nat /\ n \in Nat /\ IsFrame(w, cmd, payload, n)

\* What is written holds no start of a packet, or is one, too long or not.
Written(w) == IsNoise(w) \/ IsHopeless(w) \/ IsPacket(w)

Quiet == Nat \ {SOF}

LEMMA StartsOf ==
  ASSUME NEW w, w \in Seq(Nat), Written(w)
  PROVE  w \in Seq(Quiet) \/ (w # <<>> /\ w[1] = SOF /\ (IsHopeless(w) \/ IsPacket(w)))
<1>1. CASE IsNoise(w)
  <2>1. w \in [1 .. Len(w) -> Nat] /\ Len(w) \in Nat /\ DOMAIN w = 1 .. Len(w)
    OBVIOUS
  <2>2. w \in [1 .. Len(w) -> Quiet]
    BY <1>1, <2>1 DEF IsNoise, Quiet
  <2> QED
    BY <2>1, <2>2
<1>2. CASE IsHopeless(w)
  BY <1>2 DEF IsHopeless
<1>3. CASE IsPacket(w)
  <2>1. PICK cmd, payload, n : cmd \in Nat /\ n \in Nat /\ IsFrame(w, cmd, payload, n)
    BY <1>3, Zenon DEF IsPacket
  <2>2. w[1] = SOF /\ Len(w) = 10 + n
    BY <2>1 DEF IsFrame, IsSeq
  <2>3. w # <<>>
    BY <2>1, <2>2
  <2> QED
    BY <1>3, <2>2, <2>3
<1> QED
  BY <1>1, <1>2, <1>3 DEF Written

LEMMA QuietSeqs ==
  ASSUME NEW z, z \in Seq(Quiet)
  PROVE  IsNoise(z) /\ \E k : IsSeq(Nat, z, k)
<1>1. z \in [1 .. Len(z) -> Quiet] /\ Len(z) \in Nat
  OBVIOUS
<1>2. z \in Seq(Nat)
  BY <1>1 DEF Quiet
<1>3. IsNoise(z)
  BY <1>1 DEF IsNoise, Quiet
<1> QED
  BY <1>1, <1>2, <1>3 DEF IsSeq

LEMMA FirstOf ==
  ASSUME NEW T, T \subseteq Nat, T # {}
  PROVE  \E k \in T : \A n \in T : k <= n
<1>1. PICK k \in T : \A n \in T : ~ (<<n, k>> \in OpToRel(<, Nat))
  BY NatLessThanWellFounded, WFMin
<1>2. \A x, y \in Nat : x < y => <<x, y>> \in OpToRel(<, Nat)
  BY DEF OpToRel
<1>3. ASSUME NEW n \in T PROVE k <= n
  <2>1. n \in Nat /\ k \in Nat /\ ~ (n < k)
    BY <1>1, <1>2
  <2> QED
    BY <2>1
<1> QED
  BY <1>3

\* Of chunks that are not all noise, those before the first that is not.
LEMMA FirstStart ==
  ASSUME NEW writes, writes \in Chunks(Nat), \A i \in DOMAIN writes : Written(writes[i])
  PROVE  \/ writes \in Chunks(Quiet)
         \/ \E i \in DOMAIN writes :
              /\ SubSeq(writes, 1, i - 1) \in Chunks(Quiet)
              /\ writes[i] # <<>> /\ writes[i][1] = SOF
              /\ IsHopeless(writes[i]) \/ IsPacket(writes[i])
<1> DEFINE S == Seq(Nat)
           Q == Seq(Quiet)
           T == {i \in DOMAIN writes : writes[i] \notin Q}
<1> HIDE DEF S, Q
<1>1. writes \in Seq(S) /\ DOMAIN writes = 1 .. Len(writes) /\ Len(writes) \in Nat
  BY DEF Chunks, S
<1>2. CASE T = {}
  <2>1. writes \in Seq(Q)
    BY <1>1, <1>2
  <2> QED
    BY <2>1 DEF Chunks, Q
<1>3. CASE T # {}
  <2>1. T \subseteq Nat
    BY <1>1
  <2> HIDE DEF T
  <2>2. PICK i \in T : \A n \in T : i <= n
    BY <1>3, <2>1, FirstOf
  <2> USE DEF T
  <2>3. SubSeq(writes, 1, i - 1) \in Seq(Q)
    <3>1. i - 1 \in Nat /\ i \in 1 .. Len(writes) /\ \A j \in 1 .. i - 1 : writes[j] \in Q
      BY <1>1, <2>2
    <3> HIDE DEF T
    <3> QED
      BY <1>1, <3>1
  <2>4. writes[i] \in S /\ writes[i] \notin Q /\ i \in DOMAIN writes
    BY <1>1
  <2>5. writes[i] # <<>> /\ writes[i][1] = SOF /\ (IsHopeless(writes[i]) \/ IsPacket(writes[i]))
    BY <2>4, StartsOf, Zenon DEF S, Q
  <2> QED
    BY <2>3, <2>4, <2>5, Zenon DEF Chunks, Q
<1> QED
  BY <1>2, <1>3

\* What is read of a stream that was written in chunks, noise, packets and starts of
\* what is too long for one, is the first packet that was written as one of them,
\* and what is left starts with what was written after it (ReadPacket, readPacketFromSOF).
THEOREM PacketOfStream ==
  ASSUME NEW writes, writes \in Chunks(Nat), \A i \in DOMAIN writes : Written(writes[i]),
         ReadPacket(FlattenSeq(writes)).status = "packet"
  PROVE  \E i \in DOMAIN writes :
           /\ IsPacket(writes[i]) /\ ~IsHopeless(writes[i])
           /\ \A cmd, payload, n :
                cmd \in Nat /\ n \in Nat /\ IsFrame(writes[i], cmd, payload, n)
                  => ReadPacket(FlattenSeq(writes)).pkt = Packet(cmd, payload)
           /\ Len(FlattenSeq(writes)) - Len(ReadPacket(FlattenSeq(writes)).rest)
                = Len(FlattenSeq(SubSeq(writes, 1, i)))
           /\ \A k \in DOMAIN writes : k < i => IsNoise(writes[k])
<1> DEFINE read == ReadPacket(FlattenSeq(writes))
<1>1. Failed.status # "packet" /\ Waiting.status # "packet"
  BY DEF Failed, Waiting
<1>2. writes \notin Chunks(Quiet)
  <2> SUFFICES ASSUME writes \in Chunks(Quiet) PROVE FALSE
    OBVIOUS
  <2>1. FlattenSeq(writes) \in Seq(Quiet)
    BY FlattenChunks
  <2>2. PICK k : IsSeq(Nat, FlattenSeq(writes), k)
    BY <2>1, QuietSeqs, Zenon
  <2>3. read \in {Failed, Waiting}
    BY <2>1, <2>2, QuietSeqs, OnlyNoise, Zenon
  <2> QED
    BY <1>1, <2>3
<1>3. PICK i \in DOMAIN writes :
        /\ SubSeq(writes, 1, i - 1) \in Chunks(Quiet)
        /\ writes[i] # <<>> /\ writes[i][1] = SOF
        /\ IsHopeless(writes[i]) \/ IsPacket(writes[i])
  BY <1>2, FirstStart
<1> DEFINE a == SubSeq(writes, 1, i - 1)
           w == writes[i]
           b == SubSeq(writes, i + 1, Len(writes))
           z == FlattenSeq(a)
           rest == FlattenSeq(b)
           m == Len(rest)
           s == w \o rest
<1>4. /\ a \in Chunks(Nat) /\ b \in Chunks(Nat) /\ writes = a \o (<<w>> \o b)
      /\ SubSeq(writes, 1, i) = a \o <<w>> /\ w \in Seq(Nat)
  <2>1. CutAt(writes, i)
    BY Around, Zenon
  <2>2. a \in Chunks(Nat) /\ b \in Chunks(Nat) /\ w \in Seq(Nat)
    BY Around, Zenon
  <2> QED
    BY <2>1, <2>2 DEF CutAt
<1> HIDE DEF a, b, w
<1>5. z \in Seq(Quiet)
  BY <1>3, FlattenChunks DEF a
<1>6. PICK k : IsSeq(Nat, z, k)
  BY <1>5, QuietSeqs, Zenon
<1>7. IsNoise(z)
  BY <1>5, QuietSeqs, Zenon
<1>8. <<w>> \in Chunks(Nat) /\ FlattenSeq(<<w>>) = w
  BY <1>4, FlattenWrite, Zenon
<1>9. FlattenSeq(<<w>> \o b) = s /\ rest \in Seq(Nat)
  <2>1. FlattenApart(<<w>>, b)
    BY <1>4, <1>8, FlattenChunks, Zenon
  <2>2. FlattenSeq(b) \in Seq(Nat)
    BY <1>4, FlattenChunks, Zenon
  <2> QED
    BY <1>8, <2>1, <2>2 DEF FlattenApart
<1>10. <<w>> \o b \in Chunks(Nat)
  <2> DEFINE S == Seq(Nat)
  <2> HIDE DEF S
  <2>1. <<w>> \in Seq(S) /\ b \in Seq(S)
    BY <1>4, <1>8 DEF Chunks, S
  <2>2. <<w>> \o b \in Seq(S)
    BY <2>1
  <2> QED
    BY <2>2 DEF Chunks, S
<1>11. FlattenSeq(writes) = z \o s /\ FlattenSeq(SubSeq(writes, 1, i)) = z \o w
  <2>1. FlattenApart(a, <<w>> \o b)
    BY <1>4, <1>10, FlattenChunks, Zenon
  <2>2. FlattenApart(a, <<w>>)
    BY <1>4, <1>8, FlattenChunks, Zenon
  <2> QED
    BY <1>4, <1>8, <1>9, <2>1, <2>2 DEF FlattenApart
<1> HIDE DEF z, rest
<1>12. IsSeq(Nat, rest, m) /\ IsSeq(Nat, w, Len(w)) /\ Len(w) # 0
  BY <1>3, <1>4, <1>9 DEF IsSeq, w
<1>13. Two(Nat, s, w, Len(w), rest, m)
  BY <1>12, TwoConcat
<1>14. IsSeq(Nat, s, Len(w) + m) /\ s[1] = SOF /\ Len(w) + m # 0
  <2>1. 1 \in 1 .. Len(w) /\ Len(w) + m # 0
    BY <1>12 DEF IsSeq
  <2>2. s[1] = w[1]
    BY <1>13, <2>1, Zenon DEF Two
  <2> QED
    BY <1>3, <1>13, <2>1, <2>2, Zenon DEF Two, w
<1>15. ReadPacket(z \o s) = IF k > MaxNoise THEN Failed ELSE readPacketFromSOF(s)
  BY <1>6, <1>7, <1>14, StartsAfterNoise
<1>16. ~(k > MaxNoise) /\ read = readPacketFromSOF(s)
  BY <1>1, <1>11, <1>15, Zenon
<1>17. IsPacket(w) /\ ~IsHopeless(w)
  <2>1. IsHopeless(w) => read = Failed
    BY <1>12, <1>16, HopelessFails
  <2> QED
    BY <1>1, <1>3, <2>1 DEF w
<1>18. ASSUME NEW cmd \in Nat, NEW payload, NEW n \in Nat, IsFrame(w, cmd, payload, n)
       PROVE  read = [status |-> "packet", rest |-> rest, pkt |-> Packet(cmd, payload)]
  BY <1>1, <1>12, <1>16, <1>18, FrameIsRead, Zenon
<1>19. read.rest = rest
  BY <1>17, <1>18 DEF IsPacket
<1>20. Len(z \o s) - Len(rest) = Len(z \o w)
  <2>1. Two(Nat, z \o s, z, k, s, Len(w) + m) /\ Two(Nat, z \o w, z, k, w, Len(w))
    BY <1>6, <1>12, <1>14, TwoConcat
  <2>2. Len(z \o s) = k + (Len(w) + m) /\ Len(z \o w) = k + Len(w) /\ k \in Nat /\ m \in Nat /\ Len(w) \in Nat
    BY <1>6, <1>12, <2>1 DEF Two, IsSeq
  <2> QED
    BY <2>2
<1>21. Len(FlattenSeq(writes)) - Len(read.rest) = Len(FlattenSeq(SubSeq(writes, 1, i)))
  BY <1>11, <1>19, <1>20, Zenon
<1>22. \A cmd, payload, n :
         cmd \in Nat /\ n \in Nat /\ IsFrame(w, cmd, payload, n) => read.pkt = Packet(cmd, payload)
  BY <1>18
<1>23. ASSUME NEW x \in DOMAIN writes, x < i PROVE IsNoise(writes[x])
  <2> DEFINE T == Seq(Nat)
             U == Seq(Quiet)
             before == SubSeq(writes, 1, i - 1)
  <2> HIDE DEF T, U
  <2>1. writes \in Seq(T) /\ before \in Seq(U)
    BY <1>3 DEF Chunks, T, U
  <2>2. x \in 1 .. Len(writes) /\ i \in 1 .. Len(writes) /\ Len(writes) \in Nat
    BY <1>3, <1>23, <2>1
  <2>3. x \in DOMAIN before /\ before[x] = writes[x]
    BY <1>23, <2>1, <2>2
  <2> HIDE DEF before
  <2>4. writes[x] \in U
    BY <2>1, <2>3
  <2> QED
    BY <2>4, QuietSeqs DEF U
<1> QED
  BY <1>17, <1>21, <1>22, <1>23, Zenon DEF w

LEMMA LastOf ==
  ASSUME NEW T, NEW n \in Nat, T \subseteq 0 .. n, T # {}
  PROVE  Max(T) \in T /\ \A k \in T : k <= Max(T)
<1> DEFINE U == {n - k : k \in T}
<1>1. \A k \in T : k \in Nat /\ n - k \in Nat
  <2> TAKE k \in T
  <2>1. k \in 0 .. n
    OBVIOUS
  <2> QED
    BY <2>1
<1>2. U \subseteq Nat /\ U # {}
  BY <1>1
<1>3. PICK u \in U : \A v \in U : u <= v
  <2> HIDE DEF U
  <2> QED
    BY <1>2, FirstOf
<1>4. PICK m \in T : u = n - m
  BY <1>3
<1>5. ASSUME NEW k \in T PROVE m >= k
  <2>1. n - m <= n - k
    BY <1>3, <1>4
  <2>2. k \in Nat /\ m \in Nat
    BY <1>1
  <2> QED
    BY <2>1, <2>2
<1>6. T \in SUBSET Nat
  BY <1>1
<1>7. Max(T) = m
  BY <1>5, <1>6, MaxOf
<1>8. \A k \in T : k <= m
  BY <1>1, <1>5
<1> QED
  BY <1>7, <1>8

-----------------------------------------------------------------------------
(* Batteries and the state of the earbuds: pairs of a part and a byte.     *)

LEMMA PartsNamed ==
  /\ PartNames = {"watch", "left", "right", "case", "tws", "stereo"}
  /\ \A part \in PartNames : PartId(part) \in 1 .. 6 /\ PartName(PartId(part)) = part
<1>1. PartNames = {"watch", "left", "right", "case", "tws", "stereo"}
  BY DEF PartNames, partNames
<1>2. ASSUME NEW part \in PartNames
      PROVE  PartId(part) \in 1 .. 6 /\ partNames[PartId(part)] = part
  <2>1. \E i \in 1 .. 6 : partNames[i] = part
    BY DEF PartNames
  <2> QED
    BY <2>1, Zenon DEF PartId
<1> QED
  BY <1>1, <1>2, Zenon DEF PartName

LEMMA SetAsSeq ==
  ASSUME NEW D, D \subseteq PartNames
  PROVE  /\ Cardinality(D) \in Nat /\ Cardinality(D) <= 6
         /\ SetToSeq(D) \in [1 .. Cardinality(D) -> D]
         /\ \A part \in D : \E i \in 1 .. Cardinality(D) : SetToSeq(D)[i] = part
<1>1. IsFiniteSet(D) /\ Cardinality(D) <= 6
  <2> DEFINE Names == {"watch", "left", "right", "case", "tws", "stereo"}
             names == [i \in 1 .. 6 |-> partNames[i]]
  <2>1. names \in [1 .. 6 -> Names] /\ \A part \in Names : \E i \in 1 .. 6 : names[i] = part
    BY DEF partNames
  <2>2. D \subseteq Names
    BY PartsNamed
  <2> HIDE DEF Names
  <2>3. names \in Surjection(1 .. 6, Names)
    BY <2>1, Zenon DEF Surjection
  <2>4. IsFiniteSet(1 .. 6) /\ Cardinality(1 .. 6) = 6
    <3>1. \A n \in Nat : IsFiniteSet(1 .. n) /\ Cardinality(1 .. n) = n
      BY FS_CountingElements, FS_Interval
    <3> QED
      BY <3>1
  <2>5. IsFiniteSet(Names) /\ Cardinality(Names) <= 6 /\ Cardinality(Names) \in Nat
    <3>1. IsFiniteSet(Names) /\ Cardinality(Names) <= Cardinality(1 .. 6)
      BY <2>3, <2>4, FS_Surjection
    <3> QED
      BY <2>4, <3>1, FS_CardinalityType
  <2> QED
    <3>1. IsFiniteSet(D) /\ Cardinality(D) <= Cardinality(Names)
      BY <2>2, <2>5, FS_Subset
    <3> QED
      BY <2>5, <3>1, FS_CardinalityType
<1>2. Cardinality(D) \in Nat /\ ExistsBijection(1 .. Cardinality(D), D)
  BY <1>1, FS_CardinalityType
<1>3. \E f \in [1 .. Cardinality(D) -> D] : IsInjective(f)
  BY <1>2 DEF ExistsBijection, Bijection, Injection, IsInjective
<1>4. SetToSeq(D) \in [1 .. Cardinality(D) -> D] /\ IsInjective(SetToSeq(D))
  BY <1>3, Zenon DEF SetToSeq
<1>5. SetToSeq(D) \in Injection(1 .. Cardinality(D), D)
  BY <1>4 DEF Injection, IsInjective
<1>6. SetToSeq(D) \in Surjection(1 .. Cardinality(D), D)
  <2>1. Cardinality(1 .. Cardinality(D)) = Cardinality(D)
    BY <1>2, FS_CountingElements, FS_Interval
  <2> QED
    BY <1>1, <1>5, <2>1, FS_Injection
<1> QED
  BY <1>1, <1>2, <1>4, <1>6 DEF Surjection

\* The pairs of the parts in their order.
PairsOf(parts, bytes, n) == [i \in 1 .. n |-> <<PartId(parts[i]), bytes[parts[i]]>>]

LEMMA PairsAreParsed ==
  ASSUME NEW bytes, DOMAIN bytes \subseteq PartNames, \A part \in DOMAIN bytes : bytes[part] \in Nat
  PROVE  /\ EncodePairs(bytes) \in Seq(Nat)
         /\ parseCountedPairs(EncodePairs(bytes))
              = {PairsOf(SetToSeq(DOMAIN bytes), bytes, Cardinality(DOMAIN bytes))}
<1> DEFINE D == DOMAIN bytes
           n == Cardinality(D)
           parts == SetToSeq(D)
           byte(i) == IF i % 2 = 1 THEN PartId(parts[(i + 1) \div 2]) ELSE bytes[parts[(i + 1) \div 2]]
           tail == [i \in 1 .. 2 * n |-> byte(i)]
           p == <<n>> \o tail
           pairs == PairsOf(parts, bytes, n)
<1>1. n \in Nat /\ parts \in [1 .. n -> D]
  BY SetAsSeq
<1> HIDE DEF n, parts
<1>2. Len(parts) = n
  BY <1>1
<1>3. EncodePairs(bytes) = p
  BY <1>2 DEF EncodePairs, parts
<1>4. \A i \in 1 .. 2 * n : (i + 1) \div 2 \in 1 .. n
  BY <1>1
<1>5. \A i \in 1 .. n : parts[i] \in PartNames /\ PartId(parts[i]) \in Nat /\ bytes[parts[i]] \in Nat
  BY <1>1, PartsNamed
<1>6. \A i \in 1 .. 2 * n : byte(i) \in Nat
  BY <1>4, <1>5, Zenon
<1>7. \A i \in 1 .. n : tail[2 * i - 1] = PartId(parts[i]) /\ tail[2 * i] = bytes[parts[i]]
  <2> TAKE i \in 1 .. n
  <2>1. /\ 2 * i - 1 \in 1 .. 2 * n /\ (2 * i - 1) % 2 = 1 /\ ((2 * i - 1) + 1) \div 2 = i
        /\ 2 * i \in 1 .. 2 * n /\ (2 * i) % 2 # 1 /\ (2 * i + 1) \div 2 = i
    BY <1>1
  <2>2. byte(2 * i - 1) = PartId(parts[i]) /\ byte(2 * i) = bytes[parts[i]]
    BY <2>1, Zenon
  <2> HIDE DEF byte
  <2> QED
    BY <2>1, <2>2
<1> HIDE DEF byte
<1>8. IsSeq(Nat, tail, 2 * n)
  BY <1>1, <1>6 DEF IsSeq
<1> HIDE DEF tail
<1>9. IsSeq(Nat, <<n>>, 1)
  BY <1>1 DEF IsSeq
<1>10. Two(Nat, p, <<n>>, 1, tail, 2 * n)
  BY <1>8, <1>9, TwoConcat
<1> HIDE DEF p
<1>11. /\ p \in Seq(Nat) /\ Len(p) = 1 + 2 * n /\ p[1] = n
       /\ \A i \in 1 .. 2 * n : p[1 + i] = tail[i]
  BY <1>1, <1>10 DEF Two, IsSeq
<1>12. \A i \in 1 .. n : p[2 * i] = PartId(parts[i]) /\ p[2 * i + 1] = bytes[parts[i]]
  <2> TAKE i \in 1 .. n
  <2>1. /\ 2 * i - 1 \in 1 .. 2 * n /\ 1 + (2 * i - 1) = 2 * i
        /\ 2 * i \in 1 .. 2 * n /\ 1 + 2 * i = 2 * i + 1
    BY <1>1
  <2> QED
    BY <1>7, <1>11, <2>1, Zenon
<1>13. parseCountedPairs(p) = {[i \in 1 .. n |-> <<p[2 * i], p[2 * i + 1]>>]}
  <2>1. p # <<>> /\ ~(Len(p) < 1 + 2 * p[1])
    BY <1>1, <1>11
  <2> QED
    BY <1>11, <2>1, Zenon DEF parseCountedPairs
<1>14. [i \in 1 .. n |-> <<p[2 * i], p[2 * i + 1]>>] = pairs
  BY <1>12, Zenon DEF PairsOf
<1> QED
  BY <1>3, <1>11, <1>13, <1>14, Zenon DEF n, parts

LEMMA PairsMapped ==
  ASSUME NEW bytes, NEW D, D = DOMAIN bytes, D \subseteq PartNames
  PROVE  PairsMap(PairsOf(SetToSeq(D), bytes, Cardinality(D))) = [part \in D |-> bytes[part]]
<1> DEFINE n == Cardinality(D)
           parts == SetToSeq(D)
           pairs == PairsOf(parts, bytes, n)
           at(part) == {i \in DOMAIN pairs : PartName(pairs[i][1]) = part}
<1>1. n \in Nat /\ parts \in [1 .. n -> D] /\ \A part \in D : \E i \in 1 .. n : parts[i] = part
  BY SetAsSeq
<1> HIDE DEF n, parts
<1>2. DOMAIN pairs = 1 .. n /\ \A i \in 1 .. n : pairs[i] = <<PartId(parts[i]), bytes[parts[i]]>>
  BY Zenon DEF PairsOf
<1> HIDE DEF pairs
<1>3. \A i \in 1 .. n : PartName(pairs[i][1]) = parts[i] /\ pairs[i][2] = bytes[parts[i]]
  <2> TAKE i \in 1 .. n
  <2>1. parts[i] \in PartNames
    BY <1>1
  <2>2. pairs[i][1] = PartId(parts[i]) /\ pairs[i][2] = bytes[parts[i]]
    BY <1>2
  <2> QED
    BY <2>1, <2>2, PartsNamed, Zenon
<1>4. {PartName(pairs[i][1]) : i \in DOMAIN pairs} = D
  <2>1. \A i \in 1 .. n : PartName(pairs[i][1]) \in D
    BY <1>1, <1>3
  <2>2. \A part \in D : \E i \in 1 .. n : PartName(pairs[i][1]) = part
    BY <1>1, <1>3
  <2> QED
    BY <1>2, <2>1, <2>2, Zenon
<1>5. ASSUME NEW part \in D
      PROVE  pairs[Max(at(part))][2] = bytes[part]
  <2>1. PICK i \in 1 .. n : parts[i] = part
    BY <1>1
  <2>2. i \in at(part) /\ at(part) \subseteq 0 .. n
    BY <1>2, <1>3, <2>1
  <2> HIDE DEF at
  <2>3. Max(at(part)) \in at(part)
    BY <1>1, <2>2, LastOf
  <2> USE DEF at
  <2>4. Max(at(part)) \in 1 .. n /\ PartName(pairs[Max(at(part))][1]) = part
    BY <1>2, <2>3
  <2> HIDE DEF at
  <2> QED
    BY <1>3, <2>4
<1>6. PairsMap(pairs) = [part \in {PartName(pairs[i][1]) : i \in DOMAIN pairs} |-> pairs[Max(at(part))][2]]
  BY DEF PairsMap
<1> HIDE DEF at
<1>7. PairsMap(pairs) = [part \in D |-> bytes[part]]
  BY <1>4, <1>5, <1>6, Zenon
<1> QED
  BY <1>7 DEF n, parts, pairs

\* The payload p has pairs, of which bytes is made.
ReadAs(p, bytes, D) ==
  /\ p \in Seq(Nat) /\ parseCountedPairs(p) # {}
  /\ PairsMap(CHOOSE x \in parseCountedPairs(p) : TRUE) = [part \in D |-> bytes[part]]

\* What the earbuds put into pairs is what is made of them.
LEMMA PairsAreRead ==
  ASSUME NEW bytes, NEW D, D = DOMAIN bytes, D \subseteq PartNames, \A part \in D : bytes[part] \in Nat
  PROVE  ReadAs(EncodePairs(bytes), bytes, D)
<1> DEFINE pairs == PairsOf(SetToSeq(D), bytes, Cardinality(D))
<1>1. EncodePairs(bytes) \in Seq(Nat) /\ parseCountedPairs(EncodePairs(bytes)) = {pairs}
  BY PairsAreParsed
<1>2. PairsMap(pairs) = [part \in D |-> bytes[part]]
  BY PairsMapped
<1> HIDE DEF pairs
<1>3. (CHOOSE x \in {pairs} : TRUE) = pairs
  OBVIOUS
<1> QED
  BY <1>1, <1>2, <1>3, Zenon DEF ReadAs

LEMMA BatteryBytes == \A b \in BatteryValues : BatteryByte(b) \in Nat /\ Battery(BatteryByte(b)) = b
<1> TAKE b \in BatteryValues
<1>1. b = <<b[1], b[2]>> /\ b[1] \in 0 .. 127 /\ b[2] \in {"idle", "charging"}
  BY DEF BatteryValues
<1> QED
  BY <1>1 DEF BatteryByte, Battery

LEMMA WearBytes == \A w \in Wears : WearByte(w) \in Nat /\ EarbudStatus(WearByte(w)) = w
<1> TAKE w \in Wears
<1>1. /\ w = [InEar |-> w.InEar, InCase |-> w.InCase, Connected |-> w.Connected]
      /\ w.InEar \in BOOLEAN /\ w.InCase \in BOOLEAN /\ w.Connected \in BOOLEAN
  BY DEF Wears
<1> DEFINE ear == IF w.InEar THEN 4 ELSE 0
           inCase == IF w.InCase THEN 1 ELSE 0
           up == IF w.Connected THEN 128 ELSE 0
<1>2. ear \in {0, 4} /\ inCase \in {0, 1} /\ up \in {0, 128}
  OBVIOUS
<1>3. (ear = 4 <=> w.InEar) /\ (inCase = 1 <=> w.InCase) /\ (up = 128 <=> w.Connected)
  OBVIOUS
<1> HIDE DEF ear, inCase, up
<1>4. \A x \in {0, 4}, y \in {0, 1}, z \in {0, 128} :
        /\ x + y + z \in Nat /\ (((x + y + z) \div 4) % 2 = 1 <=> x = 4)
        /\ ((x + y + z) % 2 = 1 <=> y = 1) /\ (x + y + z >= 128 <=> z = 128)
  OBVIOUS
<1>5. WearByte(w) = ear + inCase + up
  BY DEF WearByte, ear, inCase, up
<1>6. LET n == WearByte(w)
      IN n \in Nat /\ ((n \div 4) % 2 = 1) = w.InEar /\ (n % 2 = 1) = w.InCase /\ (n >= 128) = w.Connected
  BY <1>1, <1>2, <1>3, <1>4, <1>5
<1> QED
  BY <1>1, <1>6, Zenon DEF EarbudStatus

BatteryPairs(battery) == EncodePairs([part \in DOMAIN battery |-> BatteryByte(battery[part])])

Copy(map) == [part \in DOMAIN map |-> map[part]]

WithBatteries(kind, batteries) == [Told(kind) EXCEPT !.Batteries = batteries]

LEMMA BatteriesAreRead ==
  ASSUME NEW battery, IsPartMap(battery, BatteryValues), NEW p, p = BatteryPairs(battery),
         NEW kind, NEW model
  PROVE  /\ p \in Seq(Nat)
         /\ parseBatteryPacket(kind, p, model)
              = WithBatteries(kind, NormalizeBatteryForModel(Copy(battery), model))
<1> DEFINE D == DOMAIN battery
           bytes == [part \in D |-> BatteryByte(battery[part])]
           map == PairsMap(CHOOSE x \in parseCountedPairs(p) : TRUE)
<1>1. D \subseteq PartNames /\ \A part \in D : battery[part] \in BatteryValues
  BY DEF IsPartMap
<1>2. D = DOMAIN bytes /\ \A part \in D : bytes[part] \in Nat /\ Battery(bytes[part]) = battery[part]
  BY <1>1, BatteryBytes
<1> HIDE DEF bytes
<1>3. p = EncodePairs(bytes)
  BY DEF bytes, BatteryPairs
<1>4. p \in Seq(Nat) /\ parseCountedPairs(p) # {} /\ map = [part \in D |-> bytes[part]]
  <2>1. \A part \in D : bytes[part] \in Nat
    BY <1>2
  <2>2. ReadAs(EncodePairs(bytes), bytes, D)
    BY <1>1, <1>2, <2>1, PairsAreRead
  <2> QED
    BY <1>3, <2>2, Zenon DEF ReadAs, map
<1> HIDE DEF map
<1>5. Batteries(map) = Copy(battery)
  BY <1>2, <1>4 DEF Batteries, Copy
<1>6. parseBatteryPacket(kind, p, model)
        = WithBatteries(kind, NormalizeBatteryForModel(Batteries(map), model))
  BY <1>4, Zenon DEF parseBatteryPacket, map, WithBatteries
<1> QED
  BY <1>4, <1>5, <1>6, Zenon

LEMMA WearIsRead ==
  ASSUME NEW wear, IsPartMap(wear, Wears),
         NEW p, p = EncodePairs([part \in DOMAIN wear |-> WearByte(wear[part])]), NEW kind
  PROVE  /\ p \in Seq(Nat)
         /\ parseStatusPacket(kind, p)
              = [Told(kind) EXCEPT !.Earbuds = [part \in DOMAIN wear \cap {"left", "right"} |-> wear[part]]]
<1> DEFINE D == DOMAIN wear
           bytes == [part \in D |-> WearByte(wear[part])]
           map == PairsMap(CHOOSE x \in parseCountedPairs(p) : TRUE)
           both == D \cap {"left", "right"}
<1>1. D \subseteq PartNames /\ \A part \in D : wear[part] \in Wears
  BY DEF IsPartMap
<1>2. D = DOMAIN bytes /\ \A part \in D : bytes[part] \in Nat /\ EarbudStatus(bytes[part]) = wear[part]
  BY <1>1, WearBytes
<1> HIDE DEF bytes
<1>3. p = EncodePairs(bytes)
  BY DEF bytes
<1>4. p \in Seq(Nat) /\ parseCountedPairs(p) # {} /\ map = [part \in D |-> bytes[part]]
  <2>1. \A part \in D : bytes[part] \in Nat
    BY <1>2
  <2>2. ReadAs(EncodePairs(bytes), bytes, D)
    BY <1>1, <1>2, <2>1, PairsAreRead
  <2> QED
    BY <1>3, <2>2, Zenon DEF ReadAs, map
<1> HIDE DEF map
<1>5. DOMAIN map \cap {"left", "right"} = both
  BY <1>4
<1>6. EarbudStatuses(Restrict(map, both)) = [part \in both |-> wear[part]]
  BY <1>2, <1>4 DEF EarbudStatuses, Restrict
<1>7. parseStatusPacket(kind, p)
        = [Told(kind) EXCEPT
             !.Earbuds = EarbudStatuses(Restrict(map, DOMAIN map \cap {"left", "right"}))]
  BY <1>4, Zenon DEF parseStatusPacket, map
<1> QED
  BY <1>4, <1>5, <1>6, <1>7, Zenon

-----------------------------------------------------------------------------
(* The settings.                                                           *)

AncLabels == {"off", "high", "mid", "low", "adaptive", "transparency", "other"}
LevelLabels == {"high", "mid", "low", "adaptive", "other"}

LEMMA AncLabelsAre ==
  /\ \A x : ancModeLabel(x) \in AncLabels
  /\ \A x : ancLevelLabel(x) \in LevelLabels
  /\ {ancModeLabel(n) : n \in Bytes} = AncLabels
  /\ {ancLevelLabel(n) : n \in Bytes} = LevelLabels
  /\ \A n \in 1 .. 4 : ancModeLabel(n) \in LevelLabels
<1>1. \A x : ancModeLabel(x) \in AncLabels
  BY Zenon DEF ancModeLabel, AncLabels
<1>2. /\ ancModeLabel(0) = "off" /\ ancModeLabel(1) = "high" /\ ancModeLabel(2) = "mid"
      /\ ancModeLabel(3) = "low" /\ ancModeLabel(4) = "adaptive" /\ ancModeLabel(7) = "transparency"
      /\ ancModeLabel(6) = "other"
  BY DEF ancModeLabel
<1>3. \A n \in 1 .. 4 : ancModeLabel(n) \in LevelLabels
  <2>1. 1 .. 4 = {1, 2, 3, 4}
    OBVIOUS
  <2> QED
    BY <1>2, <2>1, Zenon DEF LevelLabels
<1>4. \A x : ancLevelLabel(x) \in LevelLabels
  BY <1>3, Zenon DEF ancLevelLabel, LevelLabels
<1>5. {0, 1, 2, 3, 4, 6, 7} \subseteq Bytes
  BY DEF Bytes
<1>6. {ancModeLabel(n) : n \in Bytes} = AncLabels
  BY <1>1, <1>2, <1>5, Zenon DEF AncLabels
<1>7. {ancLevelLabel(n) : n \in Bytes} = LevelLabels
  <2>1. /\ ancLevelLabel(1) = "high" /\ ancLevelLabel(2) = "mid" /\ ancLevelLabel(3) = "low"
        /\ ancLevelLabel(4) = "adaptive" /\ ancLevelLabel(0) = "other"
    BY <1>2 DEF ancLevelLabel
  <2> QED
    BY <1>4, <1>5, <2>1, Zenon DEF LevelLabels
<1> QED
  BY <1>1, <1>3, <1>4, <1>6, <1>7

LEMMA AncCodes ==
  /\ \A label \in AncLabels : AncCode(label) \in Nat /\ ancModeLabel(AncCode(label)) = label
  /\ \A label \in LevelLabels : ancLevelLabel(AncCode(label)) = label
<1>1. ASSUME NEW label \in AncLabels
      PROVE  AncCode(label) \in Bytes /\ ancModeLabel(AncCode(label)) = label
  <2>1. \E n \in Bytes : ancModeLabel(n) = label
    BY AncLabelsAre
  <2> QED
    BY <2>1, Zenon DEF AncCode
<1>2. LevelLabels \subseteq AncLabels
  BY DEF LevelLabels, AncLabels
<1>3. ASSUME NEW label \in LevelLabels
      PROVE  ancLevelLabel(AncCode(label)) = label
  <2>1. AncCode(label) \in Bytes /\ ancModeLabel(AncCode(label)) = label
    BY <1>1, <1>2
  <2>2. CASE AncCode(label) \in 1 .. 4
    BY <2>1, <2>2, Zenon DEF ancLevelLabel
  <2>3. CASE AncCode(label) \notin 1 .. 4
    <3> DEFINE n == AncCode(label)
    <3> HIDE DEF n
    <3>1. n \in Bytes /\ n \notin 1 .. 4 => ancModeLabel(n) \in {"off", "transparency", "other"}
      BY DEF ancModeLabel, Bytes
    <3>2. label = "other"
      BY <2>1, <2>3, <3>1 DEF LevelLabels, n
    <3> QED
      BY <2>3, <3>2, Zenon DEF ancLevelLabel
  <2> QED
    BY <2>2, <2>3
<1> QED
  BY <1>1, <1>3 DEF Bytes

LEMMA FeaturesAre ==
  Features = {"anc", "eq", "spatial", "lag", "dual", "super-mic", "walkie-talkie"}
BY DEF Features, micFeatures

\* Who reads an answer that has a setting.
ParserOf(f) == IF f \in micFeatures THEN "mic" ELSE f

\* The payload p has the value v of f, whatever the kind of packet it comes with.
Tells(p, f, v) ==
  /\ p \in Seq(Nat)
  /\ \A kind, model : Parse(ParserOf(f), kind, p, model) = Value(kind, v)

LEMMA AncIsRead == \A v \in ValuesOf("anc") : Tells(Encode("anc", v), "anc", v)
<1> SUFFICES ASSUME NEW v \in ValuesOf("anc")
             PROVE  Tells(Encode("anc", v), "anc", v)
  OBVIOUS
<1>1. ValuesOf("anc") = AncLabels \X LevelLabels
  BY AncLabelsAre, Zenon DEF ValuesOf
<1>2. v = <<v[1], v[2]>> /\ v[1] \in AncLabels /\ v[2] \in LevelLabels
  BY <1>1
<1> DEFINE x == AncCode(v[1])
           y == AncCode(v[2])
           p == <<1, x, 0, 2, y, 0>>
<1>3. /\ x \in Nat /\ y \in Nat
      /\ ancModeLabel(x) = v[1] /\ ancLevelLabel(y) = v[2]
  BY <1>2, AncCodes DEF LevelLabels, AncLabels
<1>4. Encode("anc", v) = p
  BY Zenon DEF Encode
<1> HIDE DEF x, y
<1>5. /\ p \in Seq(Nat) /\ Len(p) = 6
      /\ {i \in 0 .. (Len(p) \div 3) - 1 : p[3 * i + 1] = 1} = {0}
      /\ {i \in 0 .. (Len(p) \div 3) - 1 : p[3 * i + 1] = 2} = {1}
  <2>1. /\ p \in Seq(Nat) /\ Len(p) = 6
        /\ p[1] = 1 /\ p[4] = 2
    BY <1>3
  <2>2. 0 .. (Len(p) \div 3) - 1 = {0, 1}
    BY <2>1
  <2>3. p[3 * 0 + 1] = 1 /\ p[3 * 1 + 1] = 2
    BY <2>1
  <2> HIDE DEF p
  <2>4. {i \in {0, 1} : p[3 * i + 1] = 1} = {0}
    BY <2>3
  <2>5. {i \in {0, 1} : p[3 * i + 1] = 2} = {1}
    BY <2>3
  <2> QED
    BY <2>1, <2>2, <2>4, <2>5, Zenon
<1>6. Max({0}) = 0 /\ Max({1}) = 1
  BY MaxOf
<1>7. p[3 * 0 + 2] = x /\ p[3 * 1 + 2] = y /\ {0} # {} /\ {1} # {}
  BY <1>3
<1> HIDE DEF p
<1>8. summarizeANCTriples(p) = <<ancModeLabel(x), ancLevelLabel(y)>>
  BY <1>5, <1>6, <1>7, Zenon DEF summarizeANCTriples
<1>9. summarizeANCTriples(p) = v
  BY <1>2, <1>3, <1>8, Zenon
<1>10. ~(Len(p) < 3 \/ Len(p) % 3 # 0)
  BY <1>5
<1>11. \A kind, model : Parse("anc", kind, p, model) = Value(kind, v)
  BY <1>9, <1>10, Zenon DEF Parse, parseANCPacket
<1>12. ParserOf("anc") = "anc"
  BY DEF ParserOf, micFeatures
<1> QED
  BY <1>4, <1>5, <1>11, <1>12, Zenon DEF Tells

\* The event of a changed mode has the triple of the mode only.
LEMMA AncEventIsRead ==
  \A v \in ValuesOf("anc") : Tells(EncodeEvent("anc", v), "anc", EventValue("anc", v))
<1> SUFFICES ASSUME NEW v \in ValuesOf("anc")
             PROVE  Tells(EncodeEvent("anc", v), "anc", EventValue("anc", v))
  OBVIOUS
<1>1. ValuesOf("anc") = AncLabels \X LevelLabels
  BY AncLabelsAre, Zenon DEF ValuesOf
<1>2. v[1] \in AncLabels
  BY <1>1
<1> DEFINE x == AncCode(v[1])
           p == <<1, x, 0>>
<1>3. x \in Nat /\ ancModeLabel(x) = v[1]
  BY <1>2, AncCodes DEF AncLabels
<1>4. EncodeEvent("anc", v) = p /\ EventValue("anc", v) = <<v[1], "">>
  BY Zenon DEF EncodeEvent, EventValue
<1> HIDE DEF x
<1>5. /\ p \in Seq(Nat) /\ Len(p) = 3
      /\ {i \in 0 .. (Len(p) \div 3) - 1 : p[3 * i + 1] = 1} = {0}
      /\ {i \in 0 .. (Len(p) \div 3) - 1 : p[3 * i + 1] = 2} = {}
  <2>1. p \in Seq(Nat) /\ Len(p) = 3 /\ p[1] = 1
    BY <1>3
  <2>2. 0 .. (Len(p) \div 3) - 1 = {0}
    BY <2>1
  <2>3. p[3 * 0 + 1] = 1
    BY <2>1
  <2> HIDE DEF p
  <2>4. {i \in {0} : p[3 * i + 1] = 1} = {0} /\ {i \in {0} : p[3 * i + 1] = 2} = {}
    BY <2>3
  <2> QED
    BY <2>1, <2>2, <2>4, Zenon
<1>6. Max({0}) = 0
  BY MaxOf
<1>7. p[3 * 0 + 2] = x /\ {0} # {}
  BY <1>3
<1> HIDE DEF p
<1>8. summarizeANCTriples(p) = <<ancModeLabel(x), "">>
  BY <1>5, <1>6, <1>7, Zenon DEF summarizeANCTriples
<1>9. ~(Len(p) < 3 \/ Len(p) % 3 # 0)
  BY <1>5
<1>10. \A kind, model : Parse("anc", kind, p, model) = Value(kind, <<v[1], "">>)
  BY <1>3, <1>8, <1>9, Zenon DEF Parse, parseANCPacket
<1>11. ParserOf("anc") = "anc"
  BY DEF ParserOf, micFeatures
<1> QED
  BY <1>4, <1>5, <1>10, <1>11, Zenon DEF Tells

LEMMA EqIsRead == \A v \in ValuesOf("eq") : Tells(Encode("eq", v), "eq", v)
<1> SUFFICES ASSUME NEW v \in ValuesOf("eq")
             PROVE  Tells(Encode("eq", v), "eq", v)
  OBVIOUS
<1>1. ValuesOf("eq") = {<<eqPresetLabel(n)>> : n \in Bytes}
  BY Zenon DEF ValuesOf
<1> DEFINE x == CHOOSE n \in Bytes : eqPresetLabel(n) = v[1]
<1>2. \E n \in Bytes : eqPresetLabel(n) = v[1]
  BY <1>1
<1>3. x \in Bytes /\ eqPresetLabel(x) = v[1]
  BY <1>2, Zenon
<1>4. v = <<v[1]>>
  BY <1>1
<1>5. Encode("eq", v) = <<x>>
  BY Zenon DEF Encode
<1> HIDE DEF x
<1>6. <<x>> \in Seq(Nat) /\ <<x>> # <<>> /\ <<x>>[1] = x
  BY <1>3 DEF Bytes
<1>7. \A kind, model : Parse("eq", kind, <<x>>, model) = Value(kind, v)
  BY <1>3, <1>4, <1>6, Zenon DEF Parse, parseEQPacket
<1>8. ParserOf("eq") = "eq"
  BY DEF ParserOf, micFeatures
<1> QED
  BY <1>5, <1>6, <1>7, <1>8, Zenon DEF Tells

LEMMA SwitchesAre ==
  /\ ValuesOf("spatial") = {"on", "off"} \X {"on", "off"}
  /\ \A f \in {"lag", "dual", "super-mic", "walkie-talkie"} : ValuesOf(f) = {<<"on">>, <<"off">>}
<1>1. ValuesOf("spatial") = {"on", "off"} \X {"on", "off"}
  BY Zenon DEF ValuesOf
<1>2. ASSUME NEW f \in {"lag", "dual", "super-mic", "walkie-talkie"}
      PROVE  ValuesOf(f) = {<<"on">>, <<"off">>}
  <2>1. f \notin {"anc", "eq", "spatial"}
    OBVIOUS
  <2> QED
    BY <2>1, Zenon DEF ValuesOf
<1> QED
  BY <1>1, <1>2

LEMMA SpatialIsRead == \A v \in ValuesOf("spatial") : Tells(Encode("spatial", v), "spatial", v)
<1> SUFFICES ASSUME NEW v \in ValuesOf("spatial")
             PROVE  Tells(Encode("spatial", v), "spatial", v)
  OBVIOUS
<1>1. v = <<v[1], v[2]>> /\ v[1] \in {"on", "off"} /\ v[2] \in {"on", "off"}
  BY SwitchesAre
<1> DEFINE x == IF v[1] = "on" THEN 1 ELSE 0
           y == IF v[2] = "on" THEN 1 ELSE 0
<1>2. x \in {0, 1} /\ y \in {0, 1} /\ OnOff(x # 0) = v[1] /\ OnOff(y # 0) = v[2]
  BY <1>1 DEF OnOff
<1>3. Encode("spatial", v) = <<x, y>>
  BY Zenon DEF Encode
<1> HIDE DEF x, y
<1>4. <<x, y>> \in Seq(Nat) /\ ~(Len(<<x, y>>) < 2) /\ <<x, y>>[1] = x /\ <<x, y>>[2] = y
  BY <1>2
<1>5. \A kind, model : Parse("spatial", kind, <<x, y>>, model) = Value(kind, v)
  <2> DEFINE p == <<x, y>>
  <2> HIDE DEF p
  <2>1. \A kind, model : Parse("spatial", kind, p, model) = parseSpatialPacket(kind, p)
    BY Zenon DEF Parse
  <2>2. <<OnOff(p[1] # 0), OnOff(p[2] # 0)>> = v
    BY <1>1, <1>2, <1>4, Zenon DEF p
  <2>3. \A kind : parseSpatialPacket(kind, p) = Value(kind, v)
    BY <1>4, <2>2, Zenon DEF parseSpatialPacket, p
  <2> QED
    BY <2>1, <2>3, Zenon DEF p
<1>6. ParserOf("spatial") = "spatial"
  BY DEF ParserOf, micFeatures
<1> QED
  BY <1>3, <1>4, <1>5, <1>6, Zenon DEF Tells

\* An event puts a zero before the mode.
LEMMA LagIsRead ==
  \A v \in ValuesOf("lag") :
    /\ Tells(Encode("lag", v), "lag", v)
    /\ Tells(<<0>> \o Encode("lag", v), "lag", v)
<1> SUFFICES ASSUME NEW v \in ValuesOf("lag")
             PROVE  /\ Tells(Encode("lag", v), "lag", v)
                    /\ Tells(<<0>> \o Encode("lag", v), "lag", v)
  OBVIOUS
<1> DEFINE x == IF v = <<"on">> THEN 1 ELSE 2
<1>1. x \in {1, 2} /\ <<OnOff(x # 2)>> = v
  BY SwitchesAre DEF OnOff
<1>2. Encode("lag", v) = <<x>>
  BY Zenon DEF Encode
<1> HIDE DEF x
<1>3. /\ <<x>> \in Seq(Nat) /\ <<x>> # <<>> /\ <<x>>[1] = x /\ ~(Len(<<x>>) >= 2)
      /\ <<0, x>> \in Seq(Nat) /\ <<0, x>> # <<>> /\ <<0, x>>[1] = 0 /\ <<0, x>>[2] = x
      /\ Len(<<0, x>>) >= 2 /\ <<0>> \o <<x>> = <<0, x>>
  <2>1. <<x>> \in Seq(Nat) /\ <<x>> # <<>> /\ <<x>>[1] = x /\ ~(Len(<<x>>) >= 2)
    BY <1>1
  <2>2. /\ <<0, x>> \in Seq(Nat) /\ <<0, x>> # <<>> /\ <<0, x>>[1] = 0 /\ <<0, x>>[2] = x
        /\ Len(<<0, x>>) >= 2
    BY <1>1
  <2>3. <<0>> \o <<x>> = <<0, x>>
    <3> DEFINE zero == <<0>>
               mode == <<x>>
               q == zero \o mode
    <3>1. IsSeq(Nat, zero, 1) /\ zero[1] = 0
      BY DEF IsSeq
    <3>2. IsSeq(Nat, mode, 1) /\ mode[1] = x
      BY <1>1 DEF IsSeq
    <3> HIDE DEF zero, mode
    <3>3. Two(Nat, q, zero, 1, mode, 1)
      BY <3>1, <3>2, TwoConcat
    <3> HIDE DEF q
    <3>4. q \in Seq(Nat) /\ Len(q) = 2 /\ q[1] = 0 /\ q[2] = x
      BY <3>1, <3>2, <3>3 DEF Two, IsSeq
    <3>5. q = <<0, x>>
      BY <3>4
    <3> QED
      BY <3>5 DEF zero, mode, q
  <2> QED
    BY <2>1, <2>2, <2>3, Zenon
<1>4. \A kind, p : p # <<>> /\ (IF Len(p) >= 2 /\ p[1] = 0 THEN p[2] ELSE p[1]) = x
                     => parseLagPacket(kind, p) = Value(kind, v)
  BY <1>1, Zenon DEF parseLagPacket
<1>5. \A kind : parseLagPacket(kind, <<x>>) = Value(kind, v)
  BY <1>3, <1>4, Zenon
<1>6. \A kind : parseLagPacket(kind, <<0, x>>) = Value(kind, v)
  BY <1>3, <1>4, Zenon
<1>7. \A kind, p, model : Parse("lag", kind, p, model) = parseLagPacket(kind, p)
  BY Zenon DEF Parse
<1>8. ParserOf("lag") = "lag"
  BY DEF ParserOf, micFeatures
<1>9. Tells(<<x>>, "lag", v)
  BY <1>3, <1>5, <1>7, <1>8, Zenon DEF Tells
<1>10. Tells(<<0, x>>, "lag", v)
  BY <1>3, <1>6, <1>7, <1>8, Zenon DEF Tells
<1> QED
  BY <1>2, <1>3, <1>9, <1>10, Zenon

LEMMA FlagIsRead ==
  \A f \in {"dual", "super-mic", "walkie-talkie"}, v \in {<<"on">>, <<"off">>} :
    Tells(Encode(f, v), f, v)
<1> SUFFICES ASSUME NEW f \in {"dual", "super-mic", "walkie-talkie"}, NEW v \in {<<"on">>, <<"off">>}
             PROVE  Tells(Encode(f, v), f, v)
  OBVIOUS
<1> DEFINE x == IF v = <<"on">> THEN 1 ELSE 0
<1>1. x \in {0, 1} /\ <<OnOff(x = 1)>> = v
  BY DEF OnOff
<1>2. Encode(f, v) = <<x>>
  <2>1. f \notin {"anc", "eq", "lag", "spatial"}
    OBVIOUS
  <2> QED
    BY <2>1, Zenon DEF Encode, MicByte
<1> HIDE DEF x
<1>3. <<x>> \in Seq(Nat) /\ <<x>> # <<>> /\ <<x>>[1] = x /\ <<x>> \in {<<0>>, <<1>>}
  BY <1>1
<1>4. \A kind : parseDualPacket(kind, <<x>>) = Value(kind, v)
  BY <1>1, <1>3, Zenon DEF parseDualPacket
<1>5. \A kind : parseMicFlag(kind, <<x>>) = Value(kind, v)
  BY <1>1, <1>3, Zenon DEF parseMicFlag
<1>6. \A kind, p, model : /\ Parse("dual", kind, p, model) = parseDualPacket(kind, p)
                          /\ Parse("mic", kind, p, model) = parseMicFlag(kind, p)
  BY Zenon DEF Parse
<1>7. ParserOf("dual") = "dual" /\ ParserOf("super-mic") = "mic" /\ ParserOf("walkie-talkie") = "mic"
  BY DEF ParserOf, micFeatures
<1>8. CASE f = "dual"
  BY <1>2, <1>3, <1>4, <1>6, <1>7, <1>8, Zenon DEF Tells
<1>9. CASE f \in {"super-mic", "walkie-talkie"}
  BY <1>2, <1>3, <1>5, <1>6, <1>7, <1>9, Zenon DEF Tells
<1> QED
  BY <1>8, <1>9

\* What the earbuds put of a setting into an answer, or into an event, is what is read.
LEMMA SettingIsRead ==
  \A f \in Features : \A v \in ValuesOf(f) :
    /\ Tells(Encode(f, v), f, v)
    /\ Tells(EncodeEvent(f, v), f, EventValue(f, v))
<1> SUFFICES ASSUME NEW f \in Features, NEW v, v \in ValuesOf(f)
             PROVE  /\ Tells(Encode(f, v), f, v)
                    /\ Tells(EncodeEvent(f, v), f, EventValue(f, v))
  OBVIOUS
<1>1. \/ f \in {"anc", "eq", "spatial", "lag"}
      \/ f \in {"dual", "super-mic", "walkie-talkie"} /\ v \in {<<"on">>, <<"off">>} /\ f # "lag"
  BY FeaturesAre, SwitchesAre
<1>2. Tells(Encode(f, v), f, v)
  BY <1>1, AncIsRead, EqIsRead, SpatialIsRead, LagIsRead, FlagIsRead
<1>3. CASE f = "anc"
  BY <1>2, <1>3, AncEventIsRead
<1>4. CASE f = "lag"
  <2>1. EncodeEvent(f, v) = <<0>> \o Encode(f, v) /\ EventValue(f, v) = v
    BY <1>4 DEF EncodeEvent, EventValue
  <2> QED
    BY <1>2, <1>4, <2>1, LagIsRead
<1>5. CASE f \notin {"anc", "lag"}
  <2>1. EncodeEvent(f, v) = Encode(f, v) /\ EventValue(f, v) = v
    BY <1>5 DEF EncodeEvent, EventValue
  <2> QED
    BY <1>2, <2>1
<1> QED
  BY <1>2, <1>3, <1>4, <1>5

-----------------------------------------------------------------------------
(* The list of peers.                                                      *)

\* The field q is a name of n bytes and z zeros.
IsPadded(q, name, n, z) ==
  /\ IsSeq(Nat, q, n + z) /\ IsSeq(Nat, name, n) /\ z \in Nat
  /\ \A i \in 1 .. n : q[i] = name[i]
  /\ \A i \in n + 1 .. n + z : q[i] = 0

LEMMA NameIsCleaned ==
  ASSUME NEW q, NEW name, NEW n, NEW z, IsPadded(q, name, n, z),
         name # <<>> => name[1] # 32 /\ name[n] \notin {0, 32}
  PROVE  cleanDualDeviceName(q) = name
<1> DEFINE visible == {i \in 1 .. Len(q) : q[i] \notin {0, 32}}
           seen == {i \in 1 .. Len(q) : q[i] # 32}
<1>1. q \in Seq(Nat) /\ Len(q) = n + z /\ name \in Seq(Nat) /\ Len(name) = n /\ n \in Nat /\ z \in Nat
  BY DEF IsPadded, IsSeq
<1>2. cleanDualDeviceName(q) = IF visible = {} THEN <<>> ELSE SubSeq(q, Min(seen), Max(visible))
  BY Zenon DEF cleanDualDeviceName
<1>3. \A i \in visible : i <= n
  BY <1>1 DEF IsPadded
<1>4. CASE n = 0
  <2>1. visible = {} /\ name = <<>>
    BY <1>1, <1>3, <1>4
  <2> QED
    BY <1>2, <2>1, Zenon
<1>5. CASE n # 0
  <2>1. name # <<>> /\ 1 \in 1 .. n /\ n \in 1 .. n
    BY <1>1, <1>5
  <2>2. q[1] # 32 /\ q[n] \notin {0, 32}
    BY <2>1 DEF IsPadded
  <2>3. n \in visible /\ 1 \in seen
    BY <1>1, <2>1, <2>2
  <2>4. visible \in SUBSET Nat /\ seen \in SUBSET Nat /\ \A i \in seen : 1 <= i
    BY <1>1
  <2>5. SubSeq(q, 1, n) = name
    BY <1>1, <2>1 DEF IsPadded
  <2> HIDE DEF visible, seen
  <2>6. Max(visible) = n
    BY <1>1, <1>3, <2>3, <2>4, MaxOf
  <2>7. Min(seen) = 1
    BY <2>3, <2>4, MinOf
  <2> QED
    BY <1>2, <2>3, <2>5, <2>6, <2>7
<1> QED
  BY <1>4, <1>5

\* The bytes of a record behind its address, and how many they are.
NameField(d) ==
  CASE Layout = "length" -> <<Len(d.Name)>> \o d.Name
    [] Layout = "fixed" -> d.Name \o [i \in 1 .. 31 - Len(d.Name) |-> 0]
    [] OTHER -> <<>>

FieldLength(d) ==
  CASE Layout = "length" -> 1 + Len(d.Name) [] Layout = "fixed" -> 31 [] OTHER -> 0

\* What is shown of a peer.
PeerAsShown(d) == IF Layout = "bare" THEN [d EXCEPT !.Name = <<>>] ELSE d

StateByte(d) == (IF d.Owner THEN 16 ELSE 0) + IF d.Connected THEN 1 ELSE 0

IsPeer(d) ==
  /\ d = [MAC |-> d.MAC, Name |-> d.Name, Connected |-> d.Connected, Owner |-> d.Owner]
  /\ IsSeq(Nat, d.MAC, 6) /\ IsSeq(Nat, d.Name, Len(d.Name)) /\ Len(d.Name) <= 31
  /\ d.Connected \in BOOLEAN /\ d.Owner \in BOOLEAN
  /\ IsName(d.Name)

LEMMA BytesSmall == Bytes \subseteq Nat
BY DEF Bytes

LEMMA FunctionIsSeq ==
  ASSUME NEW S, NEW n \in Nat, NEW f \in [1 .. n -> S]
  PROVE  f \in Seq(S) /\ Len(f) = n
OBVIOUS

LEMMA ByteSeqs ==
  ASSUME NEW x, x \in Seq(Bytes)
  PROVE  IsSeq(Nat, x, Len(x))
<1>1. x \in [1 .. Len(x) -> Bytes] /\ Len(x) \in Nat
  OBVIOUS
<1> DEFINE n == Len(x)
<1> HIDE DEF n
<1>2. x \in [1 .. n -> Nat] /\ n \in Nat
  BY <1>1, BytesSmall DEF n
<1>3. x \in Seq(Nat)
  BY <1>2, FunctionIsSeq
<1> QED
  BY <1>1, <1>3 DEF IsSeq

LEMMA PeersAre == \A d \in Peers : IsPeer(d)
<1> TAKE d \in Peers
<1>1. /\ d \in [MAC : [1 .. 6 -> Bytes], Name : Seq(Bytes), Connected : BOOLEAN, Owner : BOOLEAN]
      /\ IsName(d.Name)
  BY DEF Peers
<1>2. /\ d = [MAC |-> d.MAC, Name |-> d.Name, Connected |-> d.Connected, Owner |-> d.Owner]
      /\ d.MAC \in [1 .. 6 -> Bytes] /\ d.Name \in Seq(Bytes)
      /\ d.Connected \in BOOLEAN /\ d.Owner \in BOOLEAN
  BY <1>1
<1>3. IsSeq(Nat, d.MAC, 6)
  <2> DEFINE mac == d.MAC
  <2>1. mac \in [1 .. 6 -> Bytes]
    BY <1>2
  <2> HIDE DEF mac
  <2>2. mac \in [1 .. 6 -> Nat]
    BY <2>1, BytesSmall
  <2>3. mac \in Seq(Nat) /\ Len(mac) = 6
    BY <2>2, FunctionIsSeq
  <2> QED
    BY <2>3 DEF IsSeq, mac
<1>4. IsSeq(Nat, d.Name, Len(d.Name))
  BY <1>2, ByteSeqs
<1>5. Len(d.Name) <= 31
  BY <1>1 DEF IsName
<1> QED
  BY <1>1, <1>2, <1>3, <1>4, <1>5 DEF IsPeer

LEMMA FieldIs ==
  ASSUME NEW d, IsPeer(d)
  PROVE  /\ IsSeq(Nat, NameField(d), FieldLength(d))
         /\ Layout = "length" => /\ NameField(d)[1] = Len(d.Name)
                                 /\ \A i \in 1 .. Len(d.Name) : NameField(d)[1 + i] = d.Name[i]
         /\ Layout = "fixed" => IsPadded(NameField(d), d.Name, Len(d.Name), 31 - Len(d.Name))
<1> DEFINE name == d.Name
           n == Len(name)
<1>1. IsSeq(Nat, name, n) /\ n \in Nat /\ n <= 31
  BY DEF IsPeer, IsSeq
<1> HIDE DEF name, n
<1>2. CASE Layout = "length"
  <2> DEFINE front == <<n>>
             q == front \o name
  <2>1. NameField(d) = q /\ FieldLength(d) = 1 + n
    BY <1>2, Zenon DEF NameField, FieldLength, name, n
  <2>2. IsSeq(Nat, front, 1) /\ front[1] = n
    BY <1>1 DEF IsSeq
  <2> HIDE DEF front
  <2>3. Two(Nat, q, front, 1, name, n)
    BY <1>1, <2>2, TwoConcat
  <2> HIDE DEF q
  <2>4. IsSeq(Nat, q, 1 + n) /\ q[1] = n /\ \A i \in 1 .. n : q[1 + i] = name[i]
    BY <2>2, <2>3 DEF Two
  <2> QED
    BY <1>2, <2>1, <2>4 DEF name, n
<1>3. CASE Layout = "fixed"
  <2> DEFINE zeros == [i \in 1 .. 31 - n |-> 0]
             q == name \o zeros
  <2>1. NameField(d) = q /\ FieldLength(d) = 31
    BY <1>3, Zenon DEF NameField, FieldLength, name, n
  <2>2. IsSeq(Nat, zeros, 31 - n) /\ \A i \in 1 .. 31 - n : zeros[i] = 0
    BY <1>1 DEF IsSeq
  <2> HIDE DEF zeros
  <2>3. Two(Nat, q, name, n, zeros, 31 - n)
    BY <1>1, <2>2, TwoConcat
  <2> HIDE DEF q
  <2>4. IsSeq(Nat, q, n + (31 - n)) /\ \A i \in 1 .. n : q[i] = name[i]
    BY <2>3 DEF Two
  <2>5. \A i \in n + 1 .. n + (31 - n) : q[i] = 0
    <3> TAKE i \in n + 1 .. n + (31 - n)
    <3>1. i - n \in 1 .. 31 - n /\ n + (i - n) = i
      BY <1>1
    <3> QED
      BY <2>2, <2>3, <3>1 DEF Two
  <2>6. IsPadded(q, name, n, 31 - n) /\ n + (31 - n) = 31
    BY <1>1, <2>4, <2>5 DEF IsPadded
  <2> QED
    BY <1>3, <2>1, <2>4, <2>6 DEF name, n
<1>4. CASE Layout \notin {"length", "fixed"}
  <2>1. NameField(d) = <<>> /\ FieldLength(d) = 0
    BY <1>4, Zenon DEF NameField, FieldLength
  <2>2. IsSeq(Nat, <<>>, 0)
    BY DEF IsSeq
  <2> QED
    BY <1>4, <2>1, <2>2
<1> QED
  BY <1>2, <1>3, <1>4

\* A record is a state, an address and a name.
LEMMA RecordIs ==
  ASSUME NEW d, IsPeer(d)
  PROVE  /\ IsSeq(Nat, EncodePeer(d), 7 + FieldLength(d))
         /\ EncodePeer(d)[1] = StateByte(d)
         /\ \A i \in 1 .. 6 : EncodePeer(d)[1 + i] = d.MAC[i]
         /\ \A i \in 1 .. FieldLength(d) : EncodePeer(d)[7 + i] = NameField(d)[i]
<1> DEFINE state == <<StateByte(d)>>
           mac == d.MAC
           front == state \o mac
           field == NameField(d)
           m == FieldLength(d)
           rec == front \o field
<1>1. EncodePeer(d) = rec
  BY Zenon DEF EncodePeer, StateByte, NameField
<1>2. IsSeq(Nat, state, 1) /\ state[1] = StateByte(d)
  BY DEF IsSeq, StateByte
<1>3. IsSeq(Nat, mac, 6)
  BY DEF IsPeer
<1>4. IsSeq(Nat, field, m)
  BY FieldIs
<1> HIDE DEF state, mac, field, m
<1>5. Two(Nat, front, state, 1, mac, 6)
  BY <1>2, <1>3, TwoConcat
<1> HIDE DEF front
<1>6. IsSeq(Nat, front, 7)
  BY <1>5 DEF Two
<1>7. Two(Nat, rec, front, 7, field, m)
  BY <1>4, <1>6, TwoConcat
<1> HIDE DEF rec
<1>8. IsSeq(Nat, rec, 7 + m) /\ \A i \in 1 .. 7 : rec[i] = front[i]
  BY <1>7 DEF Two
<1>9. front[1] = StateByte(d) /\ \A i \in 1 .. 6 : front[1 + i] = mac[i]
  BY <1>2, <1>5 DEF Two
<1>10. rec[1] = StateByte(d) /\ \A i \in 1 .. 6 : rec[1 + i] = mac[i]
  BY <1>8, <1>9
<1>11. \A i \in 1 .. m : rec[7 + i] = field[i]
  BY <1>7 DEF Two
<1> QED
  BY <1>1, <1>8, <1>10, <1>11 DEF mac, field, m

\* From a on, p has the n members of q.
Has(p, a, q, n) ==
  /\ IsSeq(Nat, p, Len(p)) /\ IsSeq(Nat, q, n) /\ a \in Nat \ {0} /\ a + n - 1 <= Len(p)
  /\ \A i \in 1 .. n : p[a - 1 + i] = q[i]

LEMMA CutIs ==
  ASSUME NEW p, NEW a, NEW q, NEW n, Has(p, a, q, n)
  PROVE  SubSeq(p, a, a + n - 1) = q
<1> DEFINE r == SubSeq(p, a, a + n - 1)
<1>1. p \in Seq(Nat) /\ q \in Seq(Nat) /\ n \in Nat /\ Len(q) = n
  BY DEF Has, IsSeq
<1>2. a \in Nat \ {0} /\ a + n - 1 <= Len(p) /\ \A i \in 1 .. n : p[a - 1 + i] = q[i]
  BY DEF Has
<1>3. r \in Seq(Nat) /\ Len(r) = n /\ \A i \in 1 .. n : r[i] = p[a - 1 + i]
  BY <1>1, <1>2
<1> HIDE DEF r
<1>4. Len(r) = Len(q) /\ \A i \in 1 .. Len(q) : r[i] = q[i]
  BY <1>1, <1>2, <1>3
<1>5. r = q
  BY <1>1, <1>3, <1>4
<1> QED
  BY <1>5 DEF r

\* In p the record of d starts at off, and records that take at least seven bytes
\* each follow; seven if names are not put.
RecordAt(p, off, d, behind) ==
  /\ off \in Nat \ {0} /\ behind \in Nat
  /\ off + 6 + FieldLength(d) + 7 * behind <= Len(p)
  /\ Layout = "bare" => off + 6 + FieldLength(d) + 7 * behind = Len(p)
  /\ Has(p, off, EncodePeer(d), 7 + FieldLength(d))

\* What of the record is where.
LEMMA RecordParts ==
  ASSUME NEW p, NEW off, NEW d, NEW behind, IsPeer(d), RecordAt(p, off, d, behind)
  PROVE  /\ p[off] = StateByte(d) /\ Has(p, off + 1, d.MAC, 6)
         /\ Has(p, off + 7, NameField(d), FieldLength(d))
<1> DEFINE k == Len(p)
           m == FieldLength(d)
           rec == EncodePeer(d)
           mac == d.MAC
           field == NameField(d)
<1>1. off \in Nat \ {0} /\ off + (7 + m) - 1 <= k /\ \A i \in 1 .. 7 + m : p[off - 1 + i] = rec[i]
  BY Zenon DEF RecordAt, Has
<1>2. /\ rec[1] = StateByte(d) /\ \A i \in 1 .. 6 : rec[1 + i] = mac[i]
      /\ \A i \in 1 .. m : rec[7 + i] = field[i]
  BY RecordIs
<1>3. IsSeq(Nat, field, m)
  BY FieldIs
<1>4. IsSeq(Nat, mac, 6)
  BY DEF IsPeer
<1>5. IsSeq(Nat, p, k)
  BY Zenon DEF RecordAt, Has
<1> HIDE DEF k, m, rec, mac, field
<1>6. m \in Nat /\ k \in Nat
  BY <1>3, <1>5 DEF IsSeq
<1>7. p[off] = StateByte(d)
  <2>1. 1 \in 1 .. 7 + m /\ off - 1 + 1 = off
    BY <1>1, <1>6
  <2> QED
    BY <1>1, <1>2, <2>1
<1>8. \A i \in 1 .. 6 : p[(off + 1) - 1 + i] = mac[i]
  <2> TAKE i \in 1 .. 6
  <2>1. 1 + i \in 1 .. 7 + m /\ off - 1 + (1 + i) = (off + 1) - 1 + i
    BY <1>1, <1>6
  <2> QED
    BY <1>1, <1>2, <2>1
<1>9. \A i \in 1 .. m : p[(off + 7) - 1 + i] = field[i]
  <2> TAKE i \in 1 .. m
  <2>1. 7 + i \in 1 .. 7 + m /\ off - 1 + (7 + i) = (off + 7) - 1 + i
    BY <1>1, <1>6
  <2> QED
    BY <1>1, <1>2, <2>1
<1>10. /\ off + 1 \in Nat \ {0} /\ off + 1 + 6 - 1 <= k
       /\ off + 7 \in Nat \ {0} /\ off + 7 + m - 1 <= k
  BY <1>1, <1>6
<1>11. Has(p, off + 1, mac, 6)
  <2>1. IsSeq(Nat, p, Len(p)) /\ off + 1 + 6 - 1 <= Len(p) /\ off + 1 \in Nat \ {0}
    BY <1>5, <1>10 DEF k
  <2> QED
    BY <1>4, <1>8, <2>1, Zenon DEF Has
<1>12. Has(p, off + 7, field, m)
  <2>1. IsSeq(Nat, p, Len(p)) /\ off + 7 + m - 1 <= Len(p) /\ off + 7 \in Nat \ {0}
    BY <1>5, <1>10 DEF k
  <2> QED
    BY <1>3, <1>9, <2>1, Zenon DEF Has
<1> QED
  BY <1>7, <1>11, <1>12 DEF mac, m, field

\* The name that a record with the field at off tells.
FieldRead(d, off) == [name |-> IF Layout = "bare" THEN <<>> ELSE d.Name, next |-> off + FieldLength(d)]

\* A field with its length.
LEMMA LengthFieldIsRead ==
  ASSUME NEW p, NEW at, NEW d, NEW behind, IsPeer(d), RecordAt(p, at, d, behind),
         Layout = "length"
  PROVE  parseDualDeviceNameField(p, at + 7, behind) = FieldRead(d, at + 7)
<1> DEFINE off == at + 7
           name == d.Name
           n == Len(d.Name)
           field == NameField(d)
           k == Len(p)
<1>1. FieldLength(d) = 1 + n
  BY Zenon DEF FieldLength
<1>2. IsSeq(Nat, name, n) /\ n <= 31 /\ (name # <<>> => name[1] # 32 /\ name[n] \notin {0, 32})
  BY DEF IsPeer, IsName
<1>3. n \in Nat
  BY <1>2 DEF IsSeq
<1>4. at \in Nat \ {0} /\ behind \in Nat /\ at + 6 + (1 + n) + 7 * behind <= k
  BY <1>1, Zenon DEF RecordAt
<1>5. IsSeq(Nat, p, k) /\ \A i \in 1 .. 1 + n : p[off - 1 + i] = field[i]
  <2>1. Has(p, off, field, 1 + n)
    BY <1>1, RecordParts
  <2> QED
    BY <2>1, Zenon DEF Has
<1>6. field[1] = n /\ \A i \in 1 .. n : field[1 + i] = name[i]
  BY FieldIs
<1> HIDE DEF name, n, field, k
<1>7. k \in Nat
  BY <1>5 DEF IsSeq
<1>8. off \in Nat \ {0} /\ off + n + 7 * behind <= k /\ off <= k
  BY <1>3, <1>4, <1>7
<1> HIDE DEF off
<1>9. p[off] = n
  <2>1. 1 \in 1 .. 1 + n /\ off - 1 + 1 = off
    BY <1>3, <1>8
  <2> QED
    BY <1>5, <1>6, <2>1
<1>10. \A i \in 1 .. n : p[(off + 1) - 1 + i] = name[i]
  <2> TAKE i \in 1 .. n
  <2>1. 1 + i \in 1 .. 1 + n /\ off - 1 + (1 + i) = (off + 1) - 1 + i
    BY <1>3, <1>8
  <2> QED
    BY <1>5, <1>6, <2>1
<1>11. p[off] % 128 = n
  BY <1>2, <1>3, <1>9
<1>12. NameFits(p, off + 1, n, behind)
  <2>1. off + 1 + n <= k + 1 /\ k + 1 - (off + 1 + n) >= 7 * behind
    BY <1>3, <1>4, <1>7, <1>8
  <2> QED
    BY <2>1, Zenon DEF NameFits, k
<1>13. SubSeq(p, off + 1, off + 1 + n - 1) = name
  <2>1. off + 1 \in Nat \ {0} /\ off + 1 + n - 1 <= k
    BY <1>3, <1>4, <1>7, <1>8
  <2>2. IsSeq(Nat, p, Len(p)) /\ off + 1 + n - 1 <= Len(p)
    BY <1>5, <2>1 DEF k
  <2>3. Has(p, off + 1, name, n)
    BY <1>2, <1>10, <2>1, <2>2, Zenon DEF Has
  <2> QED
    BY <2>3, CutIs
<1>14. cleanDualDeviceName(name) = name
  <2>1. IsPadded(name, name, n, 0)
    BY <1>2, <1>3 DEF IsPadded
  <2> QED
    BY <1>2, <2>1, NameIsCleaned
<1>15. parseDualDeviceNameField(p, off, behind) = [name |-> name, next |-> off + 1 + n]
  <2>1. ~(off > k)
    BY <1>7, <1>8
  <2> QED
    BY <1>2, <1>8, <1>11, <1>12, <1>13, <1>14, <2>1, Zenon DEF parseDualDeviceNameField, k
<1>16. FieldRead(d, off) = [name |-> name, next |-> off + (1 + n)]
  <2>1. Layout # "bare"
    OBVIOUS
  <2> QED
    BY <1>1, <2>1, Zenon DEF FieldRead, name
<1>17. off + (1 + n) = off + 1 + n
  BY <1>3, <1>8
<1> QED
  BY <1>15, <1>16, <1>17 DEF off

\* A field of thirty-one bytes.
LEMMA FixedFieldIsRead ==
  ASSUME NEW p, NEW at, NEW d, NEW behind, IsPeer(d), RecordAt(p, at, d, behind),
         Layout = "fixed"
  PROVE  parseDualDeviceNameField(p, at + 7, behind) = FieldRead(d, at + 7)
<1> DEFINE off == at + 7
           name == d.Name
           n == Len(d.Name)
           field == NameField(d)
           k == Len(p)
<1>1. FieldLength(d) = 31
  BY Zenon DEF FieldLength
<1>2. /\ IsSeq(Nat, name, n) /\ n <= 31
      /\ name # <<>> /\ name[1] # 32 /\ name[n] \notin {0, 32} /\ name[1] \in 33 .. 127
  BY DEF IsPeer, IsName
<1>3. n \in Nat
  BY <1>2 DEF IsSeq
<1>4. at \in Nat \ {0} /\ behind \in Nat /\ at + 6 + 31 + 7 * behind <= k
  BY <1>1, Zenon DEF RecordAt
<1>5. Has(p, off, field, 31)
  BY <1>1, RecordParts
<1>6. IsSeq(Nat, p, k) /\ \A i \in 1 .. 31 : p[off - 1 + i] = field[i]
  BY <1>5, Zenon DEF Has
<1>7. IsPadded(field, name, n, 31 - n)
  BY FieldIs
<1> HIDE DEF name, n, field, k
<1>8. k \in Nat
  BY <1>6 DEF IsSeq
<1>9. off \in Nat \ {0} /\ off + 30 + 7 * behind <= k /\ off <= k
  BY <1>4, <1>8
<1> HIDE DEF off
<1>10. p[off] = name[1]
  <2>1. 1 \in 1 .. 31 /\ off - 1 + 1 = off
    BY <1>9
  <2>2. 1 \in 1 .. n
    BY <1>2, <1>3 DEF IsSeq
  <2>3. field[1] = name[1]
    BY <1>7, <2>2 DEF IsPadded
  <2> QED
    BY <1>6, <2>1, <2>3
<1>11. ~(p[off] % 128 <= 31)
  <2>1. \A x \in 33 .. 127 : ~(x % 128 <= 31)
    OBVIOUS
  <2> QED
    BY <1>2, <1>10, <2>1, Zenon
<1>12. NameFits(p, off, 31, behind)
  <2>1. off + 31 <= k + 1 /\ k + 1 - (off + 31) >= 7 * behind
    BY <1>4, <1>8, <1>9
  <2> QED
    BY <2>1, Zenon DEF NameFits, k
<1>13. SubSeq(p, off, off + 31 - 1) = field
  BY <1>5, CutIs DEF off
<1>14. cleanDualDeviceName(field) = name
  BY <1>2, <1>7, NameIsCleaned
<1>15. parseDualDeviceNameField(p, off, behind) = [name |-> name, next |-> off + 31]
  <2>1. ~(off > k)
    BY <1>8, <1>9
  <2> QED
    BY <1>9, <1>11, <1>12, <1>13, <1>14, <2>1, Zenon DEF parseDualDeviceNameField, k
<1>16. FieldRead(d, off) = [name |-> name, next |-> off + 31]
  <2>1. Layout # "bare"
    OBVIOUS
  <2> QED
    BY <1>1, <2>1, Zenon DEF FieldRead, name
<1> QED
  BY <1>15, <1>16 DEF off

\* No field: there is no room for one.
LEMMA NoFieldIsRead ==
  ASSUME NEW p, NEW at, NEW d, NEW behind, IsPeer(d), RecordAt(p, at, d, behind), Layout = "bare"
  PROVE  parseDualDeviceNameField(p, at + 7, behind) = FieldRead(d, at + 7)
<1> DEFINE off == at + 7
           long == IF off > Len(p) THEN 0 ELSE p[off] % 128
<1>1. FieldLength(d) = 0
  BY Zenon DEF FieldLength
<1>2. at \in Nat \ {0} /\ behind \in Nat /\ at + 6 + 0 + 7 * behind = Len(p) /\ IsSeq(Nat, p, Len(p))
  BY <1>1, Zenon DEF RecordAt, Has
<1>3. off \in Nat \ {0} /\ off - 1 + 7 * behind = Len(p) /\ Len(p) \in Nat
  BY <1>2 DEF IsSeq
<1> HIDE DEF off
<1>4. long \in Nat
  <2>1. ~(off > Len(p)) => p[off] \in Nat
    BY <1>2, <1>3 DEF IsSeq
  <2> QED
    BY <2>1
<1> HIDE DEF long
<1>5. ~NameFits(p, off + 1, long, behind) /\ ~NameFits(p, off, 31, behind)
  BY <1>2, <1>3, <1>4 DEF NameFits
<1>6. parseDualDeviceNameField(p, off, behind) = [name |-> <<>>, next |-> off]
  BY <1>5, Zenon DEF parseDualDeviceNameField, long
<1>7. FieldRead(d, off) = [name |-> <<>>, next |-> off + 0]
  BY <1>1, Zenon DEF FieldRead
<1> QED
  BY <1>3, <1>6, <1>7 DEF off

\* Each record is read as it was put.
LEMMA RecordIsRead ==
  ASSUME NEW p, NEW off, NEW d, NEW behind, IsPeer(d), RecordAt(p, off, d, behind)
  PROVE  parseDualDeviceRecord(p, off, behind)
           = [device |-> PeerAsShown(d), next |-> off + 7 + FieldLength(d)]
<1>1. parseDualDeviceNameField(p, off + 7, behind) = FieldRead(d, off + 7)
  <2>1. Layout \in {"length", "fixed", "bare"}
    BY RequestsAssumption
  <2>2. CASE Layout = "length"
    BY <2>2, LengthFieldIsRead
  <2>3. CASE Layout = "fixed"
    BY <2>3, FixedFieldIsRead
  <2>4. CASE Layout = "bare"
    BY <2>4, NoFieldIsRead
  <2> QED
    BY <2>1, <2>2, <2>3, <2>4
<1>2. p[off] = StateByte(d) /\ SubSeq(p, off + 1, off + 6) = d.MAC
  <2>1. p[off] = StateByte(d) /\ Has(p, off + 1, d.MAC, 6)
    BY RecordParts
  <2>2. SubSeq(p, off + 1, off + 1 + 6 - 1) = d.MAC
    BY <2>1, CutIs
  <2>3. off \in Nat
    BY DEF RecordAt
  <2>4. off + 1 + 6 - 1 = off + 6
    BY <2>3
  <2> QED
    BY <2>1, <2>2, <2>4
<1>3. (StateByte(d) % 16 # 0) = d.Connected /\ (StateByte(d) >= 16) = d.Owner
  BY DEF StateByte, IsPeer
<1>4. parseDualDeviceRecord(p, off, behind)
        = [device |-> [MAC |-> d.MAC, Name |-> FieldRead(d, off + 7).name,
                       Connected |-> d.Connected, Owner |-> d.Owner],
           next |-> FieldRead(d, off + 7).next]
  BY <1>1, <1>2, <1>3, Zenon DEF parseDualDeviceRecord
<1>5. /\ FieldRead(d, off + 7).name = IF Layout = "bare" THEN <<>> ELSE d.Name
      /\ FieldRead(d, off + 7).next = off + 7 + FieldLength(d)
  BY DEF FieldRead
<1>6. [MAC |-> d.MAC, Name |-> IF Layout = "bare" THEN <<>> ELSE d.Name,
       Connected |-> d.Connected, Owner |-> d.Owner] = PeerAsShown(d)
  <2>1. d = [MAC |-> d.MAC, Name |-> d.Name, Connected |-> d.Connected, Owner |-> d.Owner]
    BY DEF IsPeer
  <2> QED
    BY <2>1 DEF PeerAsShown
<1> QED
  BY <1>4, <1>5, <1>6, Zenon

\* The length k of n records.
HoldsRecords(k, n) == k >= 7 * n /\ k <= 39 * n /\ (Layout = "bare" => k = 7 * n)

LEMMA BytesOfRecords ==
  ASSUME NEW c, c \in Chunks(Nat), \A i \in DOMAIN c : HoldsRecords(Len(c[i]), 1)
  PROVE  HoldsRecords(Len(FlattenSeq(c)), Len(c))
<1> DEFINE T == {n \in Nat : \A a \in Chunks(Nat) :
                   Len(a) = n /\ (\A i \in DOMAIN a : HoldsRecords(Len(a[i]), 1))
                     => HoldsRecords(Len(FlattenSeq(a)), n)}
<1>1. 0 \in T
  <2> SUFFICES ASSUME NEW a \in Chunks(Nat), Len(a) = 0
               PROVE  HoldsRecords(Len(FlattenSeq(a)), 0)
    OBVIOUS
  <2>1. a = <<>>
    BY DEF Chunks
  <2> QED
    BY <2>1, FlattenEmpty DEF HoldsRecords
<1>2. ASSUME NEW n \in Nat, n \in T
      PROVE  n + 1 \in T
  <2> SUFFICES ASSUME NEW a \in Chunks(Nat), Len(a) = n + 1,
                      \A i \in DOMAIN a : HoldsRecords(Len(a[i]), 1)
               PROVE  HoldsRecords(Len(FlattenSeq(a)), n + 1)
    OBVIOUS
  <2>1. PICK front \in Seq(Seq(Nat)), w \in Seq(Nat) : a = Append(front, w) /\ Len(front) = n
    BY LastApart DEF Chunks
  <2>2. DOMAIN a = 1 .. n + 1 /\ a[n + 1] = w
    BY <2>1
  <2>3. DOMAIN front = 1 .. n /\ \A i \in 1 .. n : front[i] = a[i]
    BY <2>1
  <2>4. \A i \in DOMAIN front : HoldsRecords(Len(front[i]), 1)
    BY <2>2, <2>3
  <2>5. HoldsRecords(Len(w), 1)
    <3>1. n + 1 \in 1 .. n + 1
      OBVIOUS
    <3> QED
      BY <2>2, <3>1
  <2>6. HoldsRecords(Len(FlattenSeq(front)), n)
    BY <1>2, <2>1, <2>4 DEF Chunks
  <2>7. FlattenSeq(front) \in Seq(Nat) /\ FlattenSeq(a) = FlattenSeq(front) \o w
    BY <2>1, FlattenAppend
  <2>8. /\ Len(FlattenSeq(a)) = Len(FlattenSeq(front)) + Len(w)
        /\ Len(FlattenSeq(front)) \in Nat /\ Len(w) \in Nat
    BY <2>1, <2>7
  <2>9. \A x, y \in Nat : HoldsRecords(x, n) /\ HoldsRecords(y, 1) => HoldsRecords(x + y, n + 1)
    BY DEF HoldsRecords
  <2> QED
    BY <2>5, <2>6, <2>8, <2>9, Zenon
<1> HIDE DEF T
<1>3. Len(c) \in Nat
  BY DEF Chunks
<1>4. Nat \subseteq T
  BY <1>1, <1>2, SetInduction
<1>5. Len(c) \in T
  BY <1>3, <1>4
<1> QED
  BY <1>5 DEF T

\* The members of list, as many as count, are peers.
ArePeers(list, count) == count \in Nat /\ DOMAIN list = 1 .. count /\ \A i \in 1 .. count : IsPeer(list[i])

Records(list) == [i \in DOMAIN list |-> EncodePeer(list[i])]

LEMMA RecordsAre ==
  ASSUME NEW list, NEW count, ArePeers(list, count)
  PROVE  /\ Records(list) \in Chunks(Nat) /\ Len(Records(list)) = count /\ DOMAIN Records(list) = 1 .. count
         /\ \A i \in 1 .. count : /\ Records(list)[i] = EncodePeer(list[i])
                                  /\ IsSeq(Nat, Records(list)[i], 7 + FieldLength(list[i]))
                                  /\ HoldsRecords(Len(Records(list)[i]), 1)
<1> DEFINE recs == Records(list)
<1>1. count \in Nat /\ recs = [i \in 1 .. count |-> EncodePeer(list[i])]
  BY DEF ArePeers, Records
<1>2. ASSUME NEW i \in 1 .. count
      PROVE  /\ recs[i] = EncodePeer(list[i]) /\ IsSeq(Nat, recs[i], 7 + FieldLength(list[i]))
             /\ HoldsRecords(Len(recs[i]), 1)
  <2>1. recs[i] = EncodePeer(list[i]) /\ IsPeer(list[i])
    BY <1>1, Zenon DEF ArePeers
  <2>2. IsSeq(Nat, recs[i], 7 + FieldLength(list[i]))
    BY <2>1, RecordIs
  <2>3. FieldLength(list[i]) \in 0 .. 32
    <3> DEFINE n == Len(list[i].Name)
    <3>1. n \in Nat /\ n <= 31
      BY <2>1, Zenon DEF IsPeer, IsSeq
    <3>2. FieldLength(list[i]) \in {1 + n, 31, 0}
      BY Zenon DEF FieldLength
    <3> HIDE DEF n
    <3> QED
      BY <3>1, <3>2
  <2>4. Layout = "bare" => FieldLength(list[i]) = 0
    BY Zenon DEF FieldLength
  <2> HIDE DEF recs
  <2>5. Len(recs[i]) = 7 + FieldLength(list[i])
    BY <2>2, Zenon DEF IsSeq
  <2> QED
    <3> DEFINE k == Len(recs[i])
               m == FieldLength(list[i])
    <3>1. k = 7 + m /\ m \in 0 .. 32 /\ (Layout = "bare" => m = 0)
      BY <2>3, <2>4, <2>5
    <3> HIDE DEF k, m
    <3>2. HoldsRecords(k, 1)
      BY <3>1 DEF HoldsRecords
    <3> QED
      BY <2>1, <2>2, <3>2 DEF k
<1>3. recs \in [1 .. count -> Seq(Nat)]
  <2>1. \A i \in 1 .. count : recs[i] \in Seq(Nat)
    BY <1>2, Zenon DEF IsSeq
  <2> QED
    BY <1>1, <2>1, Zenon
<1> HIDE DEF recs
<1>4. recs \in Chunks(Nat) /\ Len(recs) = count /\ DOMAIN recs = 1 .. count
  <2> DEFINE S == Seq(Nat)
  <2> HIDE DEF S
  <2>1. recs \in [1 .. count -> S]
    BY <1>3 DEF S
  <2>2. recs \in Seq(S) /\ Len(recs) = count /\ DOMAIN recs = 1 .. count
    BY <1>1, <2>1, FunctionIsSeq
  <2> QED
    BY <2>2 DEF Chunks, S
<1> QED
  BY <1>2, <1>4 DEF recs

\* Where the first n records end.
End(recs, n) == Len(FlattenSeq(SubSeq(recs, 1, n)))

LEMMA RecordsStand ==
  ASSUME NEW list, NEW count, ArePeers(list, count), NEW n \in 1 .. count
  PROVE  LET recs == Records(list)
         IN /\ RecordAt(FlattenSeq(recs), End(recs, n - 1) + 1, list[n], count - n)
            /\ End(recs, n) = End(recs, n - 1) + 7 + FieldLength(list[n])
            /\ End(recs, n - 1) \in Nat
<1> DEFINE recs == Records(list)
           rec == recs[n]
           m == 7 + FieldLength(list[n])
           fore == SubSeq(recs, 1, n - 1)
           aft == SubSeq(recs, n + 1, Len(recs))
           a == FlattenSeq(fore)
           b == FlattenSeq(aft)
           p == FlattenSeq(recs)
<1>1. /\ recs \in Chunks(Nat) /\ Len(recs) = count /\ DOMAIN recs = 1 .. count
      /\ rec = EncodePeer(list[n]) /\ IsSeq(Nat, rec, m)
      /\ \A i \in 1 .. count : HoldsRecords(Len(recs[i]), 1)
  BY RecordsAre, Zenon
<1>2. count \in Nat /\ IsPeer(list[n])
  BY DEF ArePeers
<1>3. FieldLength(list[n]) \in Nat
  BY <1>2, FieldIs DEF IsSeq
<1> HIDE DEF recs
<1>4. fore \in Chunks(Nat) /\ aft \in Chunks(Nat) /\ CutAt(recs, n)
  <2>1. n \in DOMAIN recs
    BY <1>1
  <2> QED
    BY <1>1, <2>1, Around
<1>5. Len(aft) = count - n /\ \A i \in DOMAIN aft : HoldsRecords(Len(aft[i]), 1)
  <2>1. /\ aft = [i \in 1 .. count - n |-> recs[n + i]] /\ Len(aft) = count - n
    <3> DEFINE S == Seq(Nat)
    <3> HIDE DEF S
    <3>1. recs \in Seq(S)
      BY <1>1 DEF Chunks, S
    <3> QED
      BY <1>1, <1>2, <3>1
  <2>2. \A i \in 1 .. count - n : n + i \in 1 .. count
    BY <1>2
  <2> HIDE DEF aft
  <2>3. DOMAIN aft = 1 .. count - n /\ \A i \in 1 .. count - n : aft[i] = recs[n + i]
    BY <2>1
  <2> QED
    BY <1>1, <2>1, <2>2, <2>3, Zenon
<1> HIDE DEF fore, aft, rec
<1>6. HoldsRecords(Len(b), count - n)
  BY <1>4, <1>5, BytesOfRecords
<1>7. rec \in Seq(Nat)
  BY <1>1, Zenon DEF IsSeq
<1>8. <<rec>> \in Chunks(Nat) /\ FlattenSeq(<<rec>>) = rec
  BY <1>7, FlattenWrite
<1>9. a \in Seq(Nat) /\ b \in Seq(Nat)
  BY <1>4, FlattenChunks
<1>10. FlattenApart(<<rec>>, aft) /\ FlattenApart(fore, <<rec>>)
  BY <1>4, <1>8, FlattenChunks
<1>11. <<rec>> \o aft \in Chunks(Nat)
  <2> DEFINE S == Seq(Nat)
             one == <<rec>>
  <2> HIDE DEF S, one
  <2>1. one \in Seq(S) /\ aft \in Seq(S)
    BY <1>4, <1>8 DEF Chunks, S, one
  <2>2. one \o aft \in Seq(S)
    BY <2>1
  <2> QED
    BY <2>2 DEF Chunks, S, one
<1>12. FlattenApart(fore, <<rec>> \o aft)
  BY <1>4, <1>11, FlattenChunks
<1>13. p = a \o (rec \o b)
  <2>1. recs = fore \o (<<rec>> \o aft)
    BY <1>4, Zenon DEF CutAt, fore, aft, rec
  <2> QED
    BY <1>8, <1>10, <1>12, <2>1, Zenon DEF FlattenApart
<1>14. FlattenSeq(SubSeq(recs, 1, n)) = a \o rec
  <2>1. SubSeq(recs, 1, n) = fore \o <<rec>>
    BY <1>4, Zenon DEF CutAt, fore, rec
  <2> QED
    BY <1>8, <1>10, <2>1, Zenon DEF FlattenApart
<1>15. End(recs, n - 1) = Len(a)
  BY Zenon DEF End, fore
<1> DEFINE k == Len(a)
           l == Len(b)
<1>16. IsSeq(Nat, a, k) /\ IsSeq(Nat, b, l) /\ k \in Nat /\ l \in Nat
  BY <1>9 DEF IsSeq
<1> HIDE DEF a, b, p, k, l, m
<1>17. Two(Nat, a \o rec, a, k, rec, m)
  BY <1>1, <1>16, TwoConcat
<1>18. End(recs, n) = k + m
  BY <1>14, <1>17, Zenon DEF End, Two, IsSeq
<1>19. Two(Nat, rec \o b, rec, m, b, l)
  BY <1>1, <1>16, TwoConcat
<1>20. IsSeq(Nat, rec \o b, m + l)
  BY <1>19, Zenon DEF Two
<1>21. Two(Nat, a \o (rec \o b), a, k, rec \o b, m + l)
  BY <1>16, <1>20, TwoConcat
<1>22. IsSeq(Nat, p, k + (m + l)) /\ \A i \in 1 .. m + l : p[k + i] = (rec \o b)[i]
  BY <1>13, <1>21, Zenon DEF Two
<1>23. \A i \in 1 .. m : (rec \o b)[i] = rec[i]
  BY <1>19, Zenon DEF Two
<1>24. m \in Nat /\ m = 7 + FieldLength(list[n])
  BY <1>3 DEF m
<1>25. \A i \in 1 .. m : p[(k + 1) - 1 + i] = rec[i]
  <2> TAKE i \in 1 .. m
  <2>1. i \in 1 .. m + l /\ (k + 1) - 1 + i = k + i
    BY <1>16, <1>24
  <2> QED
    BY <1>22, <1>23, <2>1
<1>26. Len(p) = k + (m + l) /\ IsSeq(Nat, p, Len(p))
  BY <1>22, Zenon DEF IsSeq
<1>27. (k + 1) + m - 1 <= Len(p) /\ k + 1 \in Nat \ {0}
  BY <1>16, <1>24, <1>26
<1>28. Has(p, k + 1, rec, m)
  BY <1>1, <1>25, <1>26, <1>27, Zenon DEF Has
<1>29. /\ count - n \in Nat /\ k + 1 + 6 + FieldLength(list[n]) + 7 * (count - n) <= Len(p)
       /\ Layout = "bare" => k + 1 + 6 + FieldLength(list[n]) + 7 * (count - n) = Len(p)
  <2>1. count - n \in Nat
    BY <1>2
  <2>2. l >= 7 * (count - n) /\ (Layout = "bare" => l = 7 * (count - n))
    BY <1>6 DEF HoldsRecords, l
  <2> QED
    BY <1>3, <1>16, <1>24, <1>26, <2>1, <2>2
<1>30. RecordAt(p, k + 1, list[n], count - n)
  BY <1>1, <1>24, <1>27, <1>28, <1>29, Zenon DEF RecordAt
<1>31. k + m = k + 7 + FieldLength(list[n])
  BY <1>3, <1>16, <1>24
<1> QED
  BY <1>15, <1>16, <1>18, <1>30, <1>31, Zenon DEF p, recs, k

\* One step of the reading, and a function that does them all.
More(p, l, behind) ==
  LET rec == parseDualDeviceRecord(p, l.next, behind)
  IN [devices |-> Append(l.devices, rec.device), next |-> rec.next]

ReadStep(p, read, count, n) ==
  IF n = 0 THEN {[devices |-> <<>>, next |-> 1]}
  ELSE {More(p, l, count - n) : l \in {x \in read[n - 1] : x.next + 6 <= Len(p)}}

Reads(p, read, count) == read = [n \in 0 .. count |-> ReadStep(p, read, count, n)]

\* What is read of the first n records.
ReadOf(list, n) ==
  {[devices |-> [i \in 1 .. n |-> PeerAsShown(list[i])], next |-> End(Records(list), n) + 1]}

LEMMA ReadStepIs ==
  ASSUME NEW list, NEW count, ArePeers(list, count), NEW n \in 0 .. count,
         NEW read, n # 0 => read[n - 1] = ReadOf(list, n - 1)
  PROVE  ReadStep(FlattenSeq(Records(list)), read, count, n) = ReadOf(list, n)
<1> DEFINE recs == Records(list)
           p == FlattenSeq(recs)
           seen(k) == [i \in 1 .. k |-> PeerAsShown(list[i])]
           l == [devices |-> seen(n - 1), next |-> End(recs, n - 1) + 1]
<1>0. count \in Nat /\ n \in Nat
  BY DEF ArePeers
<1>1. CASE n = 0
  <2>1. SubSeq(recs, 1, 0) = <<>>
    BY DEF Records, ArePeers
  <2>2. Len(FlattenSeq(<<>>)) = 0
    BY FlattenEmpty
  <2>3. End(recs, 0) + 1 = 1
    <3>1. End(recs, 0) = 0
      BY <2>1, <2>2, Zenon DEF End
    <3> QED
      BY <3>1
  <2>4. seen(0) = <<>>
    OBVIOUS
  <2>5. ReadOf(list, n) = {[devices |-> <<>>, next |-> 1]}
    BY <1>1, <2>3, <2>4, Zenon DEF ReadOf
  <2> QED
    BY <1>1, <2>5, Zenon DEF ReadStep
<1>2. CASE n # 0
  <2>1. n \in 1 .. count /\ n - 1 \in Nat
    BY <1>0, <1>2
  <2>2. /\ RecordAt(p, End(recs, n - 1) + 1, list[n], count - n)
        /\ End(recs, n) = End(recs, n - 1) + 7 + FieldLength(list[n])
        /\ End(recs, n - 1) \in Nat
    BY <2>1, RecordsStand
  <2>3. IsPeer(list[n])
    BY <2>1 DEF ArePeers
  <2> HIDE DEF recs, p
  <2> DEFINE e == End(recs, n - 1)
             m == FieldLength(list[n])
  <2>4. parseDualDeviceRecord(p, e + 1, count - n)
          = [device |-> PeerAsShown(list[n]), next |-> e + 1 + 7 + m]
    BY <2>2, <2>3, RecordIsRead
  <2>5. m \in Nat /\ IsSeq(Nat, EncodePeer(list[n]), 7 + m)
    BY <2>3, FieldIs, RecordIs DEF IsSeq
  <2>6. Has(p, e + 1, EncodePeer(list[n]), 7 + m)
    BY <2>2, Zenon DEF RecordAt
  <2>7. (e + 1) + (7 + m) - 1 <= Len(p) /\ IsSeq(Nat, p, Len(p))
    BY <2>6, Zenon DEF Has
  <2>8. Len(p) \in Nat
    BY <2>7, Zenon DEF IsSeq
  <2>9. e \in Nat /\ End(recs, n) = e + 7 + m
    BY <2>2
  <2> HIDE DEF e, m
  <2>10. e + 1 + 6 <= Len(p) /\ e + 1 + 7 + m = End(recs, n) + 1
    BY <2>5, <2>7, <2>8, <2>9
  <2>11. Append(seen(n - 1), PeerAsShown(list[n])) = seen(n)
    <3> DEFINE S == {PeerAsShown(list[i]) : i \in 1 .. n}
               more == PeerAsShown(list[n])
               now == seen(n)
               before == seen(n - 1)
    <3>1. now \in [1 .. n -> S] /\ before \in [1 .. n - 1 -> S] /\ more \in S
      BY <1>0, <2>1
    <3>2. now[n] = more /\ \A i \in 1 .. n - 1 : now[i] = before[i]
      BY <1>0, <2>1
    <3> HIDE DEF S, more, now, before
    <3>3. now \in Seq(S) /\ Len(now) = n /\ before \in Seq(S) /\ Len(before) = n - 1
      BY <1>0, <2>1, <3>1, FunctionIsSeq
    <3>4. Append(before, more) = now
      BY <1>0, <2>1, <3>1, <3>2, <3>3
    <3> QED
      BY <3>4 DEF before, more, now
  <2>12. read[n - 1] = {l} /\ l.next = e + 1 /\ l.devices = seen(n - 1)
    <3>1. read[n - 1] = {l}
      BY <1>2, Zenon DEF ReadOf, recs
    <3> QED
      BY <3>1 DEF e
  <2> HIDE DEF seen, l
  <2>13. More(p, l, count - n) = [devices |-> seen(n), next |-> End(recs, n) + 1]
    <3>1. More(p, l, count - n)
            = [devices |-> Append(l.devices, parseDualDeviceRecord(p, l.next, count - n).device),
               next |-> parseDualDeviceRecord(p, l.next, count - n).next]
      BY Zenon DEF More
    <3>2. /\ parseDualDeviceRecord(p, l.next, count - n).device = PeerAsShown(list[n])
          /\ parseDualDeviceRecord(p, l.next, count - n).next = e + 1 + 7 + m
      BY <2>4, <2>12
    <3> QED
      BY <2>10, <2>11, <2>12, <3>1, <3>2, Zenon
  <2>14. {x \in read[n - 1] : x.next + 6 <= Len(p)} = {l}
    BY <2>10, <2>12
  <2>15. ReadStep(p, read, count, n) = {More(p, l, count - n)}
    BY <1>2, <2>14, Zenon DEF ReadStep
  <2> QED
    BY <2>13, <2>15, Zenon DEF ReadOf, recs, p, seen
<1> QED
  BY <1>1, <1>2

LEMMA RecordsAreRead ==
  ASSUME NEW list, NEW count, ArePeers(list, count)
  PROVE  parseDualDeviceRecords(FlattenSeq(Records(list)), count)
           = {[i \in 1 .. count |-> PeerAsShown(list[i])]}
<1> DEFINE p == FlattenSeq(Records(list))
           all == [n \in 0 .. count |-> ReadOf(list, n)]
           read == CHOOSE f : Reads(p, f, count)
<1>0. count \in Nat
  BY DEF ArePeers
<1>1. Reads(p, all, count)
  <2>1. \A n \in 0 .. count : n # 0 => all[n - 1] = ReadOf(list, n - 1)
    BY <1>0
  <2> HIDE DEF all
  <2>2. \A n \in 0 .. count : ReadStep(p, all, count, n) = ReadOf(list, n)
    BY <2>1, ReadStepIs
  <2>3. all = [n \in 0 .. count |-> ReadStep(p, all, count, n)]
    BY <2>2, Zenon DEF all
  <2> QED
    BY <2>3, Zenon DEF Reads
<1>2. Reads(p, read, count)
  BY <1>1, Zenon
<1>3. parseDualDeviceRecords(p, count) = {l.devices : l \in read[count]}
  BY Zenon DEF parseDualDeviceRecords, Reads, ReadStep, More
<1> HIDE DEF read, all
<1>4. \A n \in 0 .. count : read[n] = ReadStep(p, read, count, n)
  BY <1>2, Zenon DEF Reads
<1> DEFINE T == {n \in Nat : n <= count => read[n] = ReadOf(list, n)}
<1>5. 0 \in T
  <2>1. 0 \in 0 .. count
    BY <1>0
  <2>2. ReadStep(p, read, count, 0) = ReadOf(list, 0)
    BY <2>1, ReadStepIs
  <2> QED
    BY <1>4, <2>1, <2>2
<1>6. ASSUME NEW n \in Nat, n \in T
      PROVE  n + 1 \in T
  <2> SUFFICES ASSUME n + 1 <= count
               PROVE  read[n + 1] = ReadOf(list, n + 1)
    OBVIOUS
  <2>1. n + 1 \in 0 .. count /\ n <= count /\ (n + 1) - 1 = n
    BY <1>0
  <2>2. read[n] = ReadOf(list, n)
    BY <1>6, <2>1
  <2>3. read[(n + 1) - 1] = ReadOf(list, (n + 1) - 1)
    BY <2>1, <2>2, Zenon
  <2>4. ReadStep(p, read, count, n + 1) = ReadOf(list, n + 1)
    BY <2>1, <2>3, ReadStepIs
  <2> QED
    BY <1>4, <2>1, <2>4
<1> HIDE DEF T
<1>7. Nat \subseteq T
  BY <1>5, <1>6, SetInduction
<1>8. read[count] = ReadOf(list, count)
  BY <1>0, <1>7 DEF T
<1>9. {l.devices : l \in ReadOf(list, count)} = {[i \in 1 .. count |-> PeerAsShown(list[i])]}
  <2> DEFINE seen == [i \in 1 .. count |-> PeerAsShown(list[i])]
             l == [devices |-> seen, next |-> End(Records(list), count) + 1]
  <2>1. ReadOf(list, count) = {l}
    BY Zenon DEF ReadOf
  <2> HIDE DEF seen
  <2>2. l.devices = seen
    OBVIOUS
  <2> HIDE DEF l
  <2>3. {x.devices : x \in {l}} = {seen}
    BY <2>2
  <2> QED
    BY <2>1, <2>3, Zenon DEF seen
<1> QED
  BY <1>3, <1>8, <1>9, Zenon DEF p

\* A list of peers that the earbuds put into an answer is what is read of it, up to
\* the names that firmwares leave out: each name ends where the next record starts,
\* though nothing says which firmware it is (ParseDualDeviceListPayload).
THEOREM PeersAreRead ==
  ASSUME NEW list, list \in PeerLists
  PROVE  /\ EncodePeers(list) \in Seq(Nat)
         /\ ParseDualDeviceListPayload(EncodePeers(list)) = {AsShown(list)}
<1> DEFINE count == Len(list)
           recs == Records(list)
           head == <<count, 0, count>>
           body == FlattenSeq(recs)
           p == head \o body
           k == Len(body)
<1>1. list \in Seq(Peers) /\ count \in Nat /\ DOMAIN list = 1 .. count
  BY DEF PeerLists
<1>2. ArePeers(list, count)
  <2>1. \A i \in 1 .. count : list[i] \in Peers
    BY <1>1
  <2> QED
    BY <1>1, <2>1, PeersAre DEF ArePeers
<1>3. EncodePeers(list) = p
  BY Zenon DEF EncodePeers, Records
<1>4. body \in Seq(Nat)
  <2>1. recs \in Chunks(Nat)
    BY <1>2, RecordsAre
  <2> QED
    BY <2>1, FlattenChunks
<1>5. IsSeq(Nat, head, 3) /\ head[3] = count
  BY <1>1 DEF IsSeq
<1>6. IsSeq(Nat, body, k) /\ k \in Nat
  BY <1>4 DEF IsSeq
<1>7. parseDualDeviceRecords(body, count) = {[i \in 1 .. count |-> PeerAsShown(list[i])]}
  BY <1>2, RecordsAreRead
<1>8. [i \in 1 .. count |-> PeerAsShown(list[i])] = AsShown(list)
  <2>1. CASE Layout = "bare"
    BY <1>1, <2>1, Zenon DEF AsShown, PeerAsShown
  <2>2. CASE Layout # "bare"
    <3>1. list = [i \in 1 .. count |-> list[i]]
      BY <1>1
    <3> QED
      BY <2>2, <3>1, Zenon DEF AsShown, PeerAsShown
  <2> QED
    BY <2>1, <2>2
<1> HIDE DEF head, body, k
<1>9. Two(Nat, p, head, 3, body, k)
  BY <1>5, <1>6, TwoConcat
<1> HIDE DEF p, count
<1>10. IsSeq(Nat, p, 3 + k) /\ p[3] = head[3] /\ SubSeq(p, 3 + 1, 3 + k) = body
  BY <1>9 DEF Two
<1>11. p \in Seq(Nat) /\ Len(p) = 3 + k
  BY <1>10, Zenon DEF IsSeq
<1>12. p[3] = count /\ ~(Len(p) < 3) /\ SubSeq(p, 4, Len(p)) = body
  BY <1>5, <1>6, <1>10, <1>11
<1>13. ParseDualDeviceListPayload(p) = parseDualDeviceRecords(body, count)
  BY <1>12, Zenon DEF ParseDualDeviceListPayload
<1> QED
  BY <1>3, <1>7, <1>8, <1>11, <1>13, Zenon
=============================================================================
