----------------------------- MODULE ParserProofs -----------------------------
(***************************************************************************)
(* Proofs about the serial parser, for frames of any size, any CRC and any *)
(* noise.                                                                  *)
(***************************************************************************)
EXTENDS SerialNoise, SequenceTheorems, TLAPS

(* The bytes of a frame whose parts have come this far. *)
Frame(header, payload, crc) == <<SOF0, SOF1>> \o header \o payload \o crc

(* Three sequences of bytes one after the other. *)
LEMMA Regrouped ==
    ASSUME NEW r \in Seq(Byte), NEW s \in Seq(Byte), NEW t \in Seq(Byte)
    PROVE  (r \o s) \o t = r \o (s \o t)
  BY ConcatAssociative

(* The bytes of two sequences one after the other. *)
LEMMA Joined ==
    ASSUME NEW s \in Seq(Byte), NEW t \in Seq(Byte)
    PROVE  /\ s \o t \in Seq(Byte)
           /\ Len(s \o t) = Len(s) + Len(t)
           /\ \A i \in 1 .. Len(s) : (s \o t)[i] = s[i]
           /\ \A i \in 1 .. Len(t) : (s \o t)[Len(s) + i] = t[i]
  <1>1. s \o t \in Seq(Byte)
    BY ConcatProperties
  <1>2. Len(s \o t) = Len(s) + Len(t)
    BY ConcatProperties
  <1>3. \A i \in 1 .. Len(s) + Len(t) :
           (s \o t)[i] = IF i <= Len(s) THEN s[i] ELSE t[i - Len(s)]
    BY ConcatProperties
  <1>4. Len(s) \in Nat /\ Len(t) \in Nat
    BY LenProperties
  <1>5. ASSUME NEW i \in 1 .. Len(s)
        PROVE  (s \o t)[i] = s[i]
    <2>1. i \in 1 .. Len(s) + Len(t) /\ i <= Len(s)
      BY <1>4
    <2> QED
      BY <1>3, <2>1
  <1>6. ASSUME NEW i \in 1 .. Len(t)
        PROVE  (s \o t)[Len(s) + i] = t[i]
    <2>1. /\ Len(s) + i \in 1 .. Len(s) + Len(t) /\ ~(Len(s) + i <= Len(s))
          /\ (Len(s) + i) - Len(s) = i
      BY <1>4
    <2> QED
      BY <1>3, <2>1
  <1> QED
    BY <1>1, <1>2, <1>5, <1>6

(* A byte after them is a byte after the second. *)
LEMMA AppendJoined ==
    ASSUME NEW t \in Seq(Byte), NEW u \in Seq(Byte), NEW b \in Byte
    PROVE  Append(t \o u, b) = t \o Append(u, b)
  <1> DEFINE last == <<b>>
  <1>1. last \in Seq(Byte)
    OBVIOUS
  <1>2. t \o u \in Seq(Byte)
    BY Joined
  <1>3. Append(t \o u, b) = (t \o u) \o last
    BY <1>2, AppendIsConcat
  <1>4. Append(u, b) = u \o last
    BY AppendIsConcat
  <1> HIDE DEF last
  <1>5. (t \o u) \o last = t \o (u \o last)
    BY <1>1, Regrouped
  <1> QED
    BY <1>3, <1>4, <1>5, Zenon

(* Where the bytes of a frame are. *)
LEMMA FrameShape ==
    ASSUME NEW h \in Seq(Byte), NEW p \in Seq(Byte), NEW c \in Seq(Byte)
    PROVE  /\ Frame(h, p, c) \in Seq(Byte)
           /\ Len(Frame(h, p, c)) = 2 + Len(h) + Len(p) + Len(c)
           /\ Frame(h, p, c)[1] = SOF0 /\ Frame(h, p, c)[2] = SOF1
           /\ \A i \in 1 .. Len(h) : Frame(h, p, c)[2 + i] = h[i]
           /\ \A i \in 1 .. Len(p) : Frame(h, p, c)[2 + Len(h) + i] = p[i]
           /\ \A i \in 1 .. Len(c) : Frame(h, p, c)[2 + Len(h) + Len(p) + i] = c[i]
  <1> DEFINE s == <<SOF0, SOF1>>
             sh == s \o h
             shp == sh \o p
             f == shp \o c
  <1>1. s \in Seq(Byte) /\ Len(s) = 2 /\ s[1] = SOF0 /\ s[2] = SOF1
    BY FrameAssumption
  <1>2. Len(h) \in Nat /\ Len(p) \in Nat /\ Len(c) \in Nat
    BY LenProperties
  <1>3. Frame(h, p, c) = f
    BY DEF Frame
  <1> HIDE DEF s
  <1>4. /\ sh \in Seq(Byte) /\ Len(sh) = 2 + Len(h)
        /\ sh[1] = SOF0 /\ sh[2] = SOF1
        /\ \A i \in 1 .. Len(h) : sh[2 + i] = h[i]
    <2>1. sh \in Seq(Byte) /\ Len(sh) = Len(s) + Len(h)
      BY <1>1, Joined
    <2>2. \A i \in 1 .. Len(s) : sh[i] = s[i]
      BY <1>1, Joined
    <2>3. \A i \in 1 .. Len(h) : sh[Len(s) + i] = h[i]
      BY <1>1, Joined
    <2> HIDE DEF sh
    <2> QED
      BY <1>1, <2>1, <2>2, <2>3
  <1> HIDE DEF sh
  <1>5. /\ shp \in Seq(Byte) /\ Len(shp) = 2 + Len(h) + Len(p)
        /\ shp[1] = SOF0 /\ shp[2] = SOF1
        /\ \A i \in 1 .. Len(h) : shp[2 + i] = h[i]
        /\ \A i \in 1 .. Len(p) : shp[2 + Len(h) + i] = p[i]
    <2>1. shp \in Seq(Byte) /\ Len(shp) = Len(sh) + Len(p)
      BY <1>4, Joined
    <2>2. \A i \in 1 .. Len(sh) : shp[i] = sh[i]
      BY <1>4, Joined
    <2>3. \A i \in 1 .. Len(p) : shp[Len(sh) + i] = p[i]
      BY <1>4, Joined
    <2> HIDE DEF shp
    <2>4. ASSUME NEW i \in 1 .. Len(h)
          PROVE  shp[2 + i] = h[i]
      <3>1. 2 + i \in 1 .. Len(sh)
        BY <1>2, <1>4
      <3> QED
        BY <1>4, <2>2, <3>1
    <2>5. 1 \in 1 .. Len(sh) /\ 2 \in 1 .. Len(sh)
      BY <1>2, <1>4
    <2>6. shp[1] = SOF0 /\ shp[2] = SOF1
      BY <1>4, <2>2, <2>5
    <2> QED
      BY <1>4, <2>1, <2>3, <2>4, <2>6
  <1> HIDE DEF shp
  <1>6. f \in Seq(Byte) /\ Len(f) = 2 + Len(h) + Len(p) + Len(c)
    <2>1. f \in Seq(Byte)
      BY <1>5, Joined
    <2>2. Len(f) = Len(shp) + Len(c)
      BY <1>5, Joined
    <2> QED
      BY <1>5, <2>1, <2>2
  <1>7. \A i \in 1 .. Len(shp) : f[i] = shp[i]
    BY <1>5, Joined
  <1>8. \A i \in 1 .. Len(c) : f[2 + Len(h) + Len(p) + i] = c[i]
    <2>1. \A i \in 1 .. Len(c) : f[Len(shp) + i] = c[i]
      BY <1>5, Joined
    <2> QED
      BY <1>5, <2>1
  <1> HIDE DEF f
  <1>9. f[1] = SOF0 /\ f[2] = SOF1
    <2>1. 1 \in 1 .. Len(shp) /\ 2 \in 1 .. Len(shp)
      BY <1>2, <1>5
    <2> QED
      BY <1>5, <1>7, <2>1
  <1>10. ASSUME NEW i \in 1 .. Len(h)
         PROVE  f[2 + i] = h[i]
    <2>1. 2 + i \in 1 .. Len(shp)
      BY <1>2, <1>5
    <2> QED
      BY <1>5, <1>7, <2>1
  <1>11. ASSUME NEW i \in 1 .. Len(p)
         PROVE  f[2 + Len(h) + i] = p[i]
    <2>1. 2 + Len(h) + i \in 1 .. Len(shp)
      BY <1>2, <1>5
    <2> QED
      BY <1>5, <1>7, <2>1
  <1> QED
    BY <1>3, <1>6, <1>8, <1>9, <1>10, <1>11

(* A frame begins with the two bytes of SOF. *)
LEMMA FrameStart ==
    ASSUME NEW h \in Seq(Byte), NEW p \in Seq(Byte), NEW c \in Seq(Byte)
    PROVE  Frame(h, p, c)[1] = SOF0 /\ Frame(h, p, c)[2] = SOF1
  BY FrameShape

(* One more byte in the part that has come last. *)
LEMMA FrameGrows ==
    ASSUME NEW h \in Seq(Byte), NEW p \in Seq(Byte), NEW c \in Seq(Byte), NEW b \in Byte
    PROVE  /\ Append(Frame(h, p, c), b) = Frame(h, p, Append(c, b))
           /\ Append(Frame(h, p, <<>>), b) = Frame(h, Append(p, b), <<>>)
           /\ Append(Frame(h, <<>>, <<>>), b) = Frame(Append(h, b), <<>>, <<>>)
  <1> DEFINE s == <<SOF0, SOF1>>
             sh == s \o h
             shp == sh \o p
  <1>1. s \in Seq(Byte) /\ <<b>> \in Seq(Byte)
    BY FrameAssumption
  <1>2. \A t, u \in Seq(Byte) : Append(t \o u, b) = t \o Append(u, b)
    BY AppendJoined
  <1>3. \A t \in Seq(Byte) : t \o <<>> = t
    BY ConcatEmptySeq
  <1>4. /\ Frame(h, p, c) = shp \o c
        /\ Frame(h, p, Append(c, b)) = shp \o Append(c, b)
        /\ Frame(h, p, <<>>) = shp \o <<>>
        /\ Frame(h, Append(p, b), <<>>) = (sh \o Append(p, b)) \o <<>>
        /\ Frame(h, <<>>, <<>>) = (sh \o <<>>) \o <<>>
        /\ Frame(Append(h, b), <<>>, <<>>) = ((s \o Append(h, b)) \o <<>>) \o <<>>
    BY DEF Frame
  <1> HIDE DEF s
  <1>5. Append(h, b) \in Seq(Byte) /\ Append(p, b) \in Seq(Byte)
    BY AppendProperties
  <1>6. sh \in Seq(Byte) /\ s \o Append(h, b) \in Seq(Byte)
    BY <1>1, <1>5, Joined
  <1>7. sh \o <<>> = sh /\ (s \o Append(h, b)) \o <<>> = s \o Append(h, b)
    BY <1>3, <1>6
  <1>8. Append(sh, b) = s \o Append(h, b)
    BY <1>1, <1>2
  <1> HIDE DEF sh
  <1>9. shp \in Seq(Byte) /\ sh \o Append(p, b) \in Seq(Byte)
    BY <1>5, <1>6, Joined
  <1>10. shp \o <<>> = shp /\ (sh \o Append(p, b)) \o <<>> = sh \o Append(p, b)
    BY <1>3, <1>9
  <1>11. Append(shp, b) = sh \o Append(p, b)
    BY <1>2, <1>6
  <1> HIDE DEF shp
  <1>12. Append(shp \o c, b) = shp \o Append(c, b)
    BY <1>2, <1>9
  <1>13. Append(Frame(h, p, c), b) = Frame(h, p, Append(c, b))
    BY <1>4, <1>12
  <1>14. Append(Frame(h, p, <<>>), b) = Frame(h, Append(p, b), <<>>)
    BY <1>4, <1>10, <1>11
  <1>15. Append(Frame(h, <<>>, <<>>), b) = Frame(Append(h, b), <<>>, <<>>)
    BY <1>4, <1>7, <1>8
  <1> QED
    BY <1>13, <1>14, <1>15

-----------------------------------------------------------------------------
(* The reader of frames.                                                   *)

(* A frame of which the header is not whole may become one. *)
LEMMA HeaderMayBecome ==
    ASSUME NEW h \in Seq(Byte), Len(h) < HeaderSize
    PROVE  /\ Reader!MayBecomeFrame(Frame(h, <<>>, <<>>))
           /\ ~Reader!Whole(Frame(h, <<>>, <<>>))
  <1>1. /\ Len(Frame(h, <<>>, <<>>)) = 2 + Len(h)
        /\ Frame(h, <<>>, <<>>)[1] = SOF0 /\ Frame(h, <<>>, <<>>)[2] = SOF1
    <2>1. <<>> \in Seq(Byte) /\ Len(<<>>) = 0 /\ Len(h) \in Nat
      BY EmptySeq, LenProperties
    <2> DEFINE e == <<>>
    <2>2. e \in Seq(Byte) /\ Len(e) = 0
      BY <2>1
    <2> HIDE DEF e
    <2>3. Len(Frame(h, e, e)) = 2 + Len(h) + Len(e) + Len(e)
      BY <2>2, FrameShape
    <2>4. Frame(h, e, e)[1] = SOF0 /\ Frame(h, e, e)[2] = SOF1
      BY <2>2, FrameStart
    <2>5. Len(Frame(h, e, e)) = 2 + Len(h)
      BY <2>1, <2>2, <2>3
    <2> QED
      BY <2>4, <2>5 DEF e
  <1>2. Len(h) \in Nat /\ ~(Len(Frame(h, <<>>, <<>>)) >= 5)
    BY <1>1, LenProperties DEF HeaderSize
  <1> QED
    BY <1>1, <1>2 DEF Reader!MayBecomeFrame, Reader!Whole, Reader!HeaderSize

(* After that its length decides, and how many bytes there are. *)
LEMMA LengthDecides ==
    ASSUME NEW h \in Seq(Byte), NEW p \in Seq(Byte), NEW c \in Seq(Byte),
           Len(h) = HeaderSize
    PROVE  LET f == Frame(h, p, c) IN
           /\ Reader!MayBecomeFrame(f) <=> h[HeaderSize] <= MaxPayload
           /\ Reader!Whole(f) <=>
                 h[HeaderSize] <= MaxPayload /\ Len(p) + Len(c) = h[HeaderSize] + CrcSize
  <1> DEFINE f == Frame(h, p, c)
  <1>1. /\ Len(f) = 5 + Len(p) + Len(c)
        /\ f[1] = SOF0 /\ f[2] = SOF1 /\ f[5] = h[3]
    <2>1. 3 \in 1 .. Len(h) /\ Len(h) = 3
      BY DEF HeaderSize
    <2>2. /\ Len(f) = 2 + Len(h) + Len(p) + Len(c)
          /\ f[1] = SOF0 /\ f[2] = SOF1
          /\ \A i \in 1 .. Len(h) : f[2 + i] = h[i]
      <3>1. Len(f) = 2 + Len(h) + Len(p) + Len(c)
        BY FrameShape
      <3>2. f[1] = SOF0 /\ f[2] = SOF1
        BY FrameShape
      <3>3. \A i \in 1 .. Len(h) : f[2 + i] = h[i]
        BY FrameShape
      <3> HIDE DEF f
      <3> QED
        BY <3>1, <3>2, <3>3
    <2> HIDE DEF f
    <2>3. f[2 + 3] = h[3] /\ 2 + 3 = 5
      BY <2>1, <2>2
    <2>4. Len(p) \in Nat /\ Len(c) \in Nat
      BY LenProperties
    <2> QED
      BY <2>1, <2>2, <2>3, <2>4
  <1>2. Len(p) \in Nat /\ Len(c) \in Nat /\ h[3] \in Nat /\ CrcSize \in Nat
    <2>1. 3 \in 1 .. Len(h)
      BY DEF HeaderSize
    <2>2. h[3] \in Byte
      BY <2>1, ElementOfSeq
    <2> QED
      BY <2>2, LenProperties, FrameAssumption
  <1> HIDE DEF f
  <1>3. /\ Len(f) >= 2 /\ Len(f) >= 5
        /\ Len(f) = 5 + h[3] + CrcSize <=> Len(p) + Len(c) = h[3] + CrcSize
    <2> DEFINE x == Len(p)
               y == Len(c)
               z == h[3]
    <2>1. /\ x \in Nat /\ y \in Nat /\ z \in Nat /\ CrcSize \in Nat
          /\ Len(f) = 5 + x + y
      BY <1>1, <1>2
    <2> HIDE DEF x, y, z
    <2>2. /\ Len(f) >= 2 /\ Len(f) >= 5
          /\ Len(f) = 5 + z + CrcSize <=> x + y = z + CrcSize
      BY <2>1
    <2> QED
      BY <2>2 DEF x, y, z
  <1>4. /\ Reader!MayBecomeFrame(f) <=> h[3] <= MaxPayload
        /\ Reader!Whole(f) <=> h[3] <= MaxPayload /\ Len(f) = 5 + h[3] + CrcSize
    BY <1>1, <1>3
       DEF Reader!MayBecomeFrame, Reader!Whole, Reader!Announced, Reader!FrameSize,
           Reader!HeaderSize
  <1> QED
    BY <1>3, <1>4 DEF f, HeaderSize

(* What a whole frame is judged by, and what it gives out. *)
LEMMA FrameJudged ==
    ASSUME NEW h \in Seq(Byte), NEW p \in Seq(Byte), NEW c \in Seq(Byte),
           Len(h) = HeaderSize, Len(c) = CrcSize
    PROVE  /\ Reader!Right(Frame(h, p, c)) <=> h[1] = Version /\ c = Crc(h \o p)
           /\ Reader!PacketOf(Frame(h, p, c)) = [command |-> h[2], payload |-> p]
  <1> DEFINE f == Frame(h, p, c)
  <1>1. /\ f \in Seq(Byte) /\ Len(f) = 5 + Len(p) + CrcSize
        /\ \A i \in 1 .. 3 : f[2 + i] = h[i]
        /\ \A i \in 1 .. Len(p) : f[5 + i] = p[i]
        /\ \A i \in 1 .. CrcSize : f[5 + Len(p) + i] = c[i]
    <2>1. Len(h) = 3 /\ Len(p) \in Nat
      BY LenProperties DEF HeaderSize
    <2>2. f \in Seq(Byte)
      BY FrameShape
    <2>3. Len(f) = 2 + Len(h) + Len(p) + Len(c)
      BY FrameShape
    <2>4. \A i \in 1 .. Len(h) : f[2 + i] = h[i]
      BY FrameShape
    <2>5. \A i \in 1 .. Len(p) : f[2 + Len(h) + i] = p[i]
      BY FrameShape
    <2>6. \A i \in 1 .. Len(c) : f[2 + Len(h) + Len(p) + i] = c[i]
      BY FrameShape
    <2> HIDE DEF f
    <2>7. CrcSize \in Nat /\ 2 + Len(h) = 5
      BY <2>1, FrameAssumption
    <2> QED
      BY <2>1, <2>2, <2>3, <2>4, <2>5, <2>6, <2>7
  <1>2. Len(p) \in Nat /\ CrcSize \in Nat
    BY LenProperties, FrameAssumption
  <1> HIDE DEF f
  <1>3. \A i \in 1 .. Len(f) : f[i] \in Byte
    BY <1>1, ElementOfSeq
  <1>4. SubSeq(f, Len(f) - CrcSize + 1, Len(f)) = c
    <2> DEFINE m == 5 + Len(p) + 1
    <2>1. Len(f) - CrcSize + 1 = m /\ m \in Int /\ Len(f) \in Int
      BY <1>1, <1>2
    <2>2. \A i \in m .. Len(f) : f[i] \in Byte
      BY <1>1, <1>2, <1>3
    <2>3. /\ SubSeq(f, m, Len(f)) \in Seq(Byte)
          /\ Len(SubSeq(f, m, Len(f))) = IF m <= Len(f) THEN Len(f) - m + 1 ELSE 0
          /\ \A i \in 1 .. Len(f) - m + 1 : SubSeq(f, m, Len(f))[i] = f[m + i - 1]
      BY <2>1, <2>2, SubSeqProperties
    <2>4. Len(SubSeq(f, m, Len(f))) = Len(c)
      BY <1>1, <1>2, <2>3
    <2>5. \A i \in 1 .. Len(c) : SubSeq(f, m, Len(f))[i] = c[i]
      <3> TAKE i \in 1 .. Len(c)
      <3>1. i \in 1 .. Len(f) - m + 1 /\ m + i - 1 = 5 + Len(p) + i /\ i \in 1 .. CrcSize
        BY <1>1, <1>2
      <3> QED
        BY <1>1, <2>3, <3>1
    <2> QED
      BY <2>1, <2>3, <2>4, <2>5, SeqEqual
  <1>5. SubSeq(f, 3, Len(f) - CrcSize) = h \o p
    <2> DEFINE n == 5 + Len(p)
    <2>1. Len(f) - CrcSize = n /\ n \in Int
      BY <1>1, <1>2
    <2>2. \A i \in 3 .. n : f[i] \in Byte
      BY <1>1, <1>2, <1>3
    <2>3. /\ SubSeq(f, 3, n) \in Seq(Byte)
          /\ Len(SubSeq(f, 3, n)) = IF 3 <= n THEN n - 3 + 1 ELSE 0
          /\ \A i \in 1 .. n - 3 + 1 : SubSeq(f, 3, n)[i] = f[3 + i - 1]
      BY <2>1, <2>2, SubSeqProperties
    <2> DEFINE hp == h \o p
               g == SubSeq(f, 3, n)
    <2>4. Len(h) = 3
      BY DEF HeaderSize
    <2>5. hp \in Seq(Byte)
      BY Joined
    <2>6. Len(hp) = Len(h) + Len(p)
      BY Joined
    <2>7. \A i \in 1 .. Len(h) : hp[i] = h[i]
      BY Joined
    <2>8. \A i \in 1 .. Len(p) : hp[Len(h) + i] = p[i]
      BY Joined
    <2> HIDE DEF hp, g
    <2>9. /\ g \in Seq(Byte) /\ Len(g) = 3 + Len(p)
          /\ \A i \in 1 .. 3 + Len(p) : g[i] = f[2 + i]
      <3>1. \A i \in 1 .. 3 + Len(p) : i \in 1 .. n - 3 + 1 /\ 3 + i - 1 = 2 + i
        BY <1>2
      <3> QED
        BY <1>2, <2>3, <3>1 DEF g
    <2>10. \A i \in 1 .. 3 + Len(p) : g[i] = hp[i]
      <3> TAKE i \in 1 .. 3 + Len(p)
      <3>1. CASE i \in 1 .. 3
        <4>1. hp[i] = h[i]
          BY <2>4, <2>7, <3>1
        <4>2. f[2 + i] = h[i]
          BY <1>1, <3>1
        <4> QED
          BY <2>9, <4>1, <4>2
      <3>2. CASE i \notin 1 .. 3
        <4>1. PICK k \in 1 .. Len(p) : i = 3 + k /\ 5 + k = 2 + i
          <5>1. i - 3 \in 1 .. Len(p) /\ i = 3 + (i - 3) /\ 5 + (i - 3) = 2 + i
            BY <1>2, <3>2
          <5> QED
            BY <5>1
        <4>2. hp[3 + k] = p[k]
          BY <2>4, <2>8
        <4>3. f[5 + k] = p[k]
          BY <1>1
        <4> QED
          BY <2>9, <4>1, <4>2, <4>3
      <3> QED
        BY <3>1, <3>2
    <2>11. g = hp
      BY <1>2, <2>4, <2>5, <2>6, <2>9, <2>10, SeqEqual
    <2> QED
      BY <2>1, <2>11 DEF g, hp
  <1>6. SubSeq(f, 3 + HeaderSize, Len(f) - CrcSize) = p
    <2> DEFINE n == 5 + Len(p)
    <2>1. Len(f) - CrcSize = n /\ n \in Int /\ 3 + HeaderSize = 6
      BY <1>1, <1>2 DEF HeaderSize
    <2>2. \A i \in 6 .. n : f[i] \in Byte
      BY <1>1, <1>2, <1>3
    <2>3. /\ SubSeq(f, 6, n) \in Seq(Byte)
          /\ Len(SubSeq(f, 6, n)) = IF 6 <= n THEN n - 6 + 1 ELSE 0
          /\ \A i \in 1 .. n - 6 + 1 : SubSeq(f, 6, n)[i] = f[6 + i - 1]
      BY <2>1, <2>2, SubSeqProperties
    <2>4. Len(SubSeq(f, 6, n)) = Len(p)
      BY <1>2, <2>3
    <2>5. \A i \in 1 .. Len(p) : SubSeq(f, 6, n)[i] = p[i]
      <3> TAKE i \in 1 .. Len(p)
      <3>1. i \in 1 .. n - 6 + 1 /\ 6 + i - 1 = 5 + i
        BY <1>2
      <3> QED
        BY <1>1, <2>3, <3>1
    <2> QED
      BY <2>1, <2>3, <2>4, <2>5, SeqEqual
  <1>7. f[3] = h[1] /\ f[4] = h[2]
    <2>1. f[2 + 1] = h[1] /\ f[2 + 2] = h[2]
      BY <1>1
    <2> QED
      BY <2>1
  <1>8. Reader!Right(f) <=> h[1] = Version /\ c = Crc(h \o p)
    BY <1>4, <1>5, <1>7 DEF Reader!Right
  <1>9. Reader!PacketOf(f) = [command |-> h[2], payload |-> p]
    <2>1. Reader!HeaderSize = HeaderSize
      BY DEF Reader!HeaderSize, HeaderSize
    <2> QED
      BY <1>6, <1>7, <2>1 DEF Reader!PacketOf
  <1> QED
    BY <1>8, <1>9 DEF f

-----------------------------------------------------------------------------
(* The parser.                                                             *)

(* What each state of the parser has of a frame. *)
PartsInv ==
    /\ parser.state \in {"SOF0", "SOF1"} =>
          parser.header = <<>> /\ parser.payload = <<>> /\ parser.crc = <<>>
    /\ parser.state = "HEADER" =>
          Len(parser.header) < HeaderSize /\ parser.payload = <<>> /\ parser.crc = <<>>
    /\ parser.state \in {"PAYLOAD", "CRC"} =>
          Len(parser.header) = HeaderSize /\ parser.header[HeaderSize] <= MaxPayload
    /\ parser.state = "PAYLOAD" =>
          Len(parser.payload) < parser.header[HeaderSize] /\ parser.crc = <<>>
    /\ parser.state = "CRC" => Len(parser.payload) = parser.header[HeaderSize]

ParserInv == ParserTypeOK /\ PartsInv

(* A parser that starts again holds the byte if it begins a frame. *)
LEMMA RestartHolds ==
    ASSUME NEW byte \in Byte, parser' = Restarted(byte)
    PROVE  /\ Held' = Reader!Begun(byte) /\ PartsInv'
           /\ parser' \in [state: {"SOF0", "SOF1", "HEADER", "PAYLOAD", "CRC"},
                           header: Seq(Byte), payload: Seq(Byte), crc: Seq(Byte)]
           /\ Len(parser'.header) = 0 /\ Len(parser'.payload) = 0 /\ Len(parser'.crc) = 0
  BY EmptySeq DEF Restarted, In, Held, Reader!Begun, PartsInv

(* A byte that comes late ends the frame that has begun. *)
LEMMA TimedOutReads ==
    ASSUME ParserInv, NEW byte \in Byte, TimedOut(byte)
    PROVE  ParserInv' /\ Reader!ReadAfresh(byte)
  BY RestartHolds, FrameAssumption
     DEF TimedOut, Returns, ParserInv, ParserTypeOK, Reader!ReadAfresh, HeaderSize

(* Before a frame. *)
LEMMA Sof0Reads ==
    ASSUME ParserInv, NEW byte \in Byte, Sof0(byte)
    PROVE  ParserInv' /\ Reader!Read(byte)
  <1>1. Held = <<>> /\ Append(Held, byte) = <<byte>>
    BY DEF Sof0, Held
  <1>2. /\ Reader!MayBecomeFrame(<<byte>>) <=> byte = SOF0
        /\ ~Reader!Whole(<<byte>>)
    BY DEF Reader!MayBecomeFrame, Reader!Whole, Reader!HeaderSize
  <1>3. Held' = Reader!Begun(byte) /\ ParserInv'
    BY EmptySeq, FrameAssumption
       DEF Sof0, Returns, In, Held, Reader!Begun, ParserInv, ParserTypeOK, PartsInv, HeaderSize
  <1> QED
    BY <1>1, <1>2, <1>3 DEF Reader!Read, Reader!Begun, Sof0, Returns

(* After its first byte. *)
LEMMA Sof1Reads ==
    ASSUME ParserInv, NEW byte \in Byte, Sof1(byte)
    PROVE  ParserInv' /\ Reader!Read(byte)
  <1>1. Held = <<SOF0>> /\ Append(Held, byte) = <<SOF0, byte>>
    <2>1. Held = <<SOF0>>
      BY DEF Sof1, Held
    <2>2. Append(<<SOF0>>, byte) = <<SOF0, byte>>
      <3>1. <<SOF0>> \in Seq(Byte) /\ Len(<<SOF0>>) = 1 /\ <<SOF0>>[1] = SOF0
        BY FrameAssumption
      <3>2. /\ Append(<<SOF0>>, byte) \in Seq(Byte) /\ Len(Append(<<SOF0>>, byte)) = 2
            /\ Append(<<SOF0>>, byte)[1] = SOF0 /\ Append(<<SOF0>>, byte)[2] = byte
        BY <3>1, AppendProperties
      <3>3. <<SOF0, byte>> \in Seq(Byte) /\ Len(<<SOF0, byte>>) = 2
        BY FrameAssumption
      <3> QED
        <4>1. \A i \in 1 .. 2 : Append(<<SOF0>>, byte)[i] = <<SOF0, byte>>[i]
          BY <3>2
        <4> QED
          BY <3>2, <3>3, <4>1, SeqEqual
    <2> QED
      BY <2>1, <2>2
  <1>2. /\ Reader!MayBecomeFrame(<<SOF0, byte>>) <=> byte = SOF1
        /\ ~Reader!Whole(<<SOF0, byte>>)
    BY DEF Reader!MayBecomeFrame, Reader!Whole, Reader!HeaderSize
  <1>3. CASE byte = SOF1
    <2>1. Held' = <<SOF0, SOF1>> /\ ParserInv'
      <3>1. <<SOF0, SOF1>> \in Seq(Byte)
        BY FrameAssumption
      <3>2. <<SOF0, SOF1>> \o <<>> = <<SOF0, SOF1>>
        BY <3>1, ConcatEmptySeq
      <3>3. parser' = In("HEADER") /\ Returns("MORE")
        BY <1>3 DEF Sof1
      <3>4. Held' = <<SOF0, SOF1>>
        BY <3>2, <3>3 DEF Held, In
      <3> QED
        BY <3>3, <3>4, EmptySeq, FrameAssumption
           DEF In, Returns, ParserInv, ParserTypeOK, PartsInv, HeaderSize
    <2> QED
      BY <1>1, <1>2, <1>3, <2>1 DEF Reader!Read, Sof1, Returns
  <1>4. CASE byte # SOF1
    <2>1. parser' = Restarted(byte) /\ Returns("MORE")
      BY <1>4 DEF Sof1
    <2>2. ParserInv'
      BY <2>1, RestartHolds, FrameAssumption DEF Returns, ParserInv, ParserTypeOK, HeaderSize
    <2> QED
      BY <1>1, <1>2, <1>4, <2>1, <2>2, RestartHolds DEF Reader!Read, Returns
  <1> QED
    BY <1>3, <1>4

(* Inside a frame. *)
LEMMA InsideHolds ==
    ASSUME parser.state \in {"HEADER", "PAYLOAD", "CRC"}
    PROVE  Held = Frame(parser.header, parser.payload, parser.crc)
  BY DEF Held, Frame

(* The types of the parts, one by one. *)
LEMMA PartTypes ==
    ASSUME ParserInv
    PROVE  /\ parser.header \in Seq(Byte) /\ parser.payload \in Seq(Byte)
           /\ parser.crc \in Seq(Byte)
           /\ Len(parser.header) \in Nat /\ Len(parser.payload) \in Nat
           /\ Len(parser.crc) \in Nat
  <1>1. /\ parser.header \in Seq(Byte) /\ parser.payload \in Seq(Byte)
        /\ parser.crc \in Seq(Byte)
    BY DEF ParserInv, ParserTypeOK
  <1> QED
    BY <1>1, LenProperties

(* What a byte adds to a part. *)
LEMMA PartGrows ==
    ASSUME NEW s \in Seq(Byte), NEW byte \in Byte
    PROVE  /\ Append(s, byte) \in Seq(Byte) /\ Len(Append(s, byte)) = Len(s) + 1
           /\ Append(s, byte)[Len(s) + 1] = byte
           /\ \A i \in 1 .. Len(s) : Append(s, byte)[i] = s[i]
  BY AppendProperties

(* In its header. *)
LEMMA HeaderReads ==
    ASSUME ParserInv, NEW byte \in Byte, HeaderByte(byte)
    PROVE  ParserInv' /\ Reader!Read(byte)
  <1> DEFINE h == Append(parser.header, byte)
             bytes == Append(Held, byte)
  <1>1. /\ parser.header \in Seq(Byte) /\ parser.payload = <<>> /\ parser.crc = <<>>
        /\ Len(parser.header) < HeaderSize /\ parser.state = "HEADER"
    BY DEF HeaderByte, ParserInv, ParserTypeOK, PartsInv
  <1>2. /\ h \in Seq(Byte) /\ Len(h) = Len(parser.header) + 1
        /\ h[Len(parser.header) + 1] = byte
    BY <1>1, PartGrows
  <1>3. bytes = Frame(h, <<>>, <<>>)
    <2>1. Held = Frame(parser.header, <<>>, <<>>)
      BY <1>1, InsideHolds
    <2> QED
      BY <1>1, <2>1, EmptySeq, FrameGrows
  <1>4. byte \in Nat /\ MaxPayload \in Nat /\ CrcSize \in Nat \ {0}
    BY FrameAssumption
  <1>5. CASE Len(h) < HeaderSize /\ parser' = [parser EXCEPT !.header = h] /\ Returns("MORE")
    <2>1. Reader!MayBecomeFrame(bytes) /\ ~Reader!Whole(bytes)
      BY <1>2, <1>3, <1>5, HeaderMayBecome
    <2>2. ParserInv'
      <3> HIDE DEF h
      <3>1. /\ parser'.state = "HEADER" /\ parser'.header = h
            /\ parser'.payload = <<>> /\ parser'.crc = <<>>
            /\ parser' \in [state: {"SOF0", "SOF1", "HEADER", "PAYLOAD", "CRC"},
                             header: Seq(Byte), payload: Seq(Byte), crc: Seq(Byte)]
        BY <1>1, <1>2, <1>5 DEF ParserInv, ParserTypeOK
      <3>2. Len(<<>>) <= MaxPayload /\ Len(<<>>) < CrcSize /\ Len(h) <= HeaderSize
        BY <1>2, <1>4, <1>5, LenProperties DEF HeaderSize
      <3>3. ParserTypeOK'
        BY <1>5, <3>1, <3>2 DEF ParserTypeOK, Returns, HeaderSize
      <3>4. PartsInv'
        BY <1>5, <3>1 DEF PartsInv
      <3> QED
        BY <3>3, <3>4 DEF ParserInv
    <2>3. Held' = bytes
      <3>1. parser'.state = "HEADER" /\ parser'.header = h
            /\ parser'.payload = <<>> /\ parser'.crc = <<>>
        BY <1>1, <1>5 DEF ParserInv, ParserTypeOK
      <3>2. Held' = Frame(parser'.header, parser'.payload, parser'.crc)
        BY <3>1 DEF Held, Frame
      <3> QED
        BY <1>3, <3>1, <3>2
    <2> QED
      BY <1>5, <2>1, <2>2, <2>3 DEF Reader!Read, Returns
  <1>6. ASSUME Len(h) = HeaderSize
        PROVE  /\ h[HeaderSize] = byte
               /\ Reader!MayBecomeFrame(bytes) <=> byte <= MaxPayload
               /\ ~Reader!Whole(bytes)
    <2>1. h[HeaderSize] = byte
      BY <1>2, <1>6
    <2>2. /\ Reader!MayBecomeFrame(Frame(h, <<>>, <<>>)) <=> h[HeaderSize] <= MaxPayload
          /\ Reader!Whole(Frame(h, <<>>, <<>>)) <=>
                h[HeaderSize] <= MaxPayload /\ Len(<<>>) + Len(<<>>) = h[HeaderSize] + CrcSize
      <3> DEFINE e == <<>>
      <3>1. e \in Seq(Byte)
        BY EmptySeq
      <3> HIDE DEF e
      <3>2. /\ Reader!MayBecomeFrame(Frame(h, e, e)) <=> h[HeaderSize] <= MaxPayload
            /\ Reader!Whole(Frame(h, e, e)) <=>
                  h[HeaderSize] <= MaxPayload /\ Len(e) + Len(e) = h[HeaderSize] + CrcSize
        BY <1>2, <1>6, <3>1, LengthDecides
      <3> QED
        BY <3>2 DEF e
    <2>3. ~(Len(<<>>) + Len(<<>>) = byte + CrcSize)
      BY <1>4, EmptySeq
    <2> QED
      BY <1>3, <2>1, <2>2, <2>3
  <1>7. CASE Len(h) = HeaderSize /\ byte > MaxPayload /\ parser' = Restarted(byte)
             /\ Returns("BAD_LENGTH")
    <2>1. ~Reader!MayBecomeFrame(bytes) /\ ~Reader!Whole(bytes)
      BY <1>4, <1>6, <1>7
    <2>2. ParserInv'
      BY <1>7, RestartHolds, FrameAssumption DEF Returns, ParserInv, ParserTypeOK, HeaderSize
    <2> QED
      BY <1>7, <2>1, <2>2, RestartHolds DEF Reader!Read, Returns
  <1>8. CASE /\ Len(h) = HeaderSize /\ byte <= MaxPayload
             /\ parser' = [parser EXCEPT !.header = h,
                                         !.state = IF byte = 0 THEN "CRC" ELSE "PAYLOAD"]
             /\ Returns("MORE")
    <2>1. Reader!MayBecomeFrame(bytes) /\ ~Reader!Whole(bytes)
      BY <1>6, <1>8
    <2>2. h[HeaderSize] = byte
      BY <1>6, <1>8
    <2> HIDE DEF h
    <2>3. /\ parser'.state = (IF byte = 0 THEN "CRC" ELSE "PAYLOAD") /\ parser'.header = h
          /\ parser'.payload = <<>> /\ parser'.crc = <<>>
      BY <1>1, <1>8 DEF ParserInv, ParserTypeOK
    <2>4. ParserInv'
      <3>1. parser' \in [state: {"SOF0", "SOF1", "HEADER", "PAYLOAD", "CRC"},
                         header: Seq(Byte), payload: Seq(Byte), crc: Seq(Byte)]
        BY <1>2, <1>8 DEF ParserInv, ParserTypeOK
      <3>2. Len(<<>>) <= MaxPayload /\ Len(<<>>) < CrcSize /\ Len(h) <= HeaderSize
        BY <1>4, <1>8 DEF HeaderSize
      <3>3. ParserTypeOK'
        BY <1>8, <2>3, <3>1, <3>2 DEF ParserTypeOK, Returns, HeaderSize
      <3>4. PartsInv'
        BY <1>4, <1>8, <2>2, <2>3, EmptySeq DEF PartsInv
      <3> QED
        BY <3>3, <3>4 DEF ParserInv
    <2>5. Held' = bytes
      <3>1. Held' = Frame(parser'.header, parser'.payload, parser'.crc)
        BY <2>3 DEF Held, Frame
      <3> QED
        BY <1>3, <2>3, <3>1 DEF h
    <2> QED
      BY <1>8, <2>1, <2>4, <2>5 DEF Reader!Read, Returns
  <1> QED
    BY <1>5, <1>7, <1>8 DEF HeaderByte

(* In its payload. *)
LEMMA PayloadReads ==
    ASSUME ParserInv, NEW byte \in Byte, PayloadByte(byte)
    PROVE  ParserInv' /\ Reader!Read(byte)
  <1> DEFINE h == parser.header
             p == Append(parser.payload, byte)
             bytes == Append(Held, byte)
  <1>1. /\ h \in Seq(Byte) /\ Len(h) = HeaderSize /\ h[HeaderSize] <= MaxPayload
        /\ parser.payload \in Seq(Byte) /\ Len(parser.payload) < h[HeaderSize]
        /\ parser.crc = <<>> /\ parser.state = "PAYLOAD"
    BY DEF PayloadByte, ParserInv, ParserTypeOK, PartsInv
  <1>2. p \in Seq(Byte) /\ Len(p) = Len(parser.payload) + 1 /\ Len(parser.payload) \in Nat
    BY <1>1, PartGrows, LenProperties
  <1>3. bytes = Frame(h, p, <<>>)
    <2>1. Held = Frame(parser.header, parser.payload, <<>>)
      BY <1>1, InsideHolds
    <2> QED
      BY <1>1, <2>1, EmptySeq, FrameGrows
  <1>4. h[HeaderSize] \in Nat /\ MaxPayload \in Nat /\ CrcSize \in Nat \ {0}
    <2>1. HeaderSize \in 1 .. Len(h)
      BY <1>1 DEF HeaderSize
    <2> QED
      BY <1>1, <2>1, ElementOfSeq, FrameAssumption
  <1>5. /\ parser'.state = (IF Len(p) = h[HeaderSize] THEN "CRC" ELSE "PAYLOAD")
        /\ parser'.header = h /\ parser'.payload = p /\ parser'.crc = <<>>
        /\ parser' \in [state: {"SOF0", "SOF1", "HEADER", "PAYLOAD", "CRC"},
                         header: Seq(Byte), payload: Seq(Byte), crc: Seq(Byte)]
        /\ result' = "MORE" /\ packet' = {}
    <2> HIDE DEF p
    <2>1. parser' = [parser EXCEPT !.payload = p,
                                   !.state = IF Len(p) = h[HeaderSize]
                                             THEN "CRC" ELSE "PAYLOAD"]
          /\ Returns("MORE")
      BY DEF PayloadByte, p
    <2> QED
      BY <1>1, <1>2, <2>1 DEF ParserInv, ParserTypeOK, Returns
  <1> HIDE DEF p, h
  <1>6. Reader!MayBecomeFrame(bytes) /\ ~Reader!Whole(bytes)
    <2>1. /\ Reader!MayBecomeFrame(Frame(h, p, <<>>)) <=> h[HeaderSize] <= MaxPayload
          /\ Reader!Whole(Frame(h, p, <<>>)) <=>
                h[HeaderSize] <= MaxPayload /\ Len(p) + Len(<<>>) = h[HeaderSize] + CrcSize
      BY <1>1, <1>2, EmptySeq, LengthDecides
    <2>2. ~(Len(p) + Len(<<>>) = h[HeaderSize] + CrcSize)
      BY <1>1, <1>2, <1>4, EmptySeq
    <2> QED
      BY <1>1, <1>3, <2>1, <2>2
  <1>7. ParserInv'
    <2>1. Len(h) = 3 /\ Len(p) <= MaxPayload /\ Len(p) <= h[HeaderSize] /\ Len(<<>>) < CrcSize
      BY <1>1, <1>2, <1>4, EmptySeq DEF HeaderSize
    <2>2. ParserTypeOK'
      BY <1>5, <2>1 DEF ParserTypeOK, HeaderSize
    <2>3. PartsInv'
      BY <1>1, <1>2, <1>4, <1>5, <2>1 DEF PartsInv
    <2> QED
      BY <2>2, <2>3 DEF ParserInv
  <1>8. Held' = bytes
    <2>1. Held' = Frame(parser'.header, parser'.payload, parser'.crc)
      BY <1>5 DEF Held, Frame
    <2> QED
      BY <1>3, <1>5, <2>1
  <1> QED
    BY <1>5, <1>6, <1>7, <1>8 DEF Reader!Read

(* In its CRC, with the last byte of which it is judged. *)
LEMMA CrcReads ==
    ASSUME ParserInv, NEW byte \in Byte, CrcByte(byte)
    PROVE  ParserInv' /\ Reader!Read(byte)
  <1> DEFINE h == parser.header
             p == parser.payload
             c == Append(parser.crc, byte)
             bytes == Append(Held, byte)
             right == h[1] = Version /\ c = Crc(h \o p)
  <1>1. /\ h \in Seq(Byte) /\ Len(h) = HeaderSize /\ h[HeaderSize] <= MaxPayload
        /\ p \in Seq(Byte) /\ Len(p) = h[HeaderSize]
        /\ parser.crc \in Seq(Byte) /\ Len(parser.crc) < CrcSize
        /\ parser.state = "CRC"
    BY DEF CrcByte, ParserInv, ParserTypeOK, PartsInv
  <1>2. /\ c \in Seq(Byte) /\ Len(c) = Len(parser.crc) + 1 /\ Len(parser.crc) \in Nat
        /\ Len(p) \in Nat /\ CrcSize \in Nat
    BY <1>1, PartGrows, LenProperties, FrameAssumption
  <1>3. bytes = Frame(h, p, c)
    <2>1. Held = Frame(h, p, parser.crc)
      BY <1>1, InsideHolds
    <2> QED
      BY <1>1, <2>1, FrameGrows
  <1>4. /\ Reader!MayBecomeFrame(bytes)
        /\ Reader!Whole(bytes) <=> Len(c) = CrcSize
    <2>1. /\ Reader!MayBecomeFrame(Frame(h, p, c)) <=> h[HeaderSize] <= MaxPayload
          /\ Reader!Whole(Frame(h, p, c)) <=>
                h[HeaderSize] <= MaxPayload /\ Len(p) + Len(c) = h[HeaderSize] + CrcSize
      BY <1>1, <1>2, LengthDecides
    <2> HIDE DEF h, p, c
    <2>2. Len(p) + Len(c) = h[HeaderSize] + CrcSize <=> Len(c) = CrcSize
      <3>1. Len(c) \in Nat
        BY <1>2
      <3> QED
        BY <1>1, <1>2, <3>1
    <2> QED
      BY <1>1, <1>3, <2>1, <2>2
  <1>5. CASE Len(c) < CrcSize /\ parser' = [parser EXCEPT !.crc = c] /\ Returns("MORE")
    <2>1. ~Reader!Whole(bytes)
      BY <1>2, <1>4, <1>5
    <2>2. /\ parser'.state = "CRC" /\ parser'.header = h /\ parser'.payload = p
          /\ parser'.crc = c
      BY <1>1, <1>5 DEF ParserInv, ParserTypeOK
    <2>3. ParserInv'
      <3> HIDE DEF c
      <3>1. ParserTypeOK'
        BY <1>2, <1>5 DEF ParserInv, ParserTypeOK, Returns
      <3>2. PartsInv'
        BY <1>1, <2>2 DEF PartsInv
      <3> QED
        BY <3>1, <3>2 DEF ParserInv
    <2>4. Held' = bytes
      <3>1. Held' = Frame(parser'.header, parser'.payload, parser'.crc)
        BY <2>2 DEF Held, Frame
      <3> QED
        BY <1>3, <2>2, <3>1
    <2> QED
      BY <1>4, <1>5, <2>1, <2>3, <2>4 DEF Reader!Read, Returns
  <1>6. ASSUME Len(c) = CrcSize
        PROVE  /\ Reader!Right(bytes) <=> right
               /\ Reader!PacketOf(bytes) = [command |-> h[2], payload |-> p]
    <2> HIDE DEF h, p, c
    <2>1. Reader!Right(Frame(h, p, c)) <=> h[1] = Version /\ c = Crc(h \o p)
      BY <1>1, <1>2, <1>6, FrameJudged
    <2>2. Reader!PacketOf(Frame(h, p, c)) = [command |-> h[2], payload |-> p]
      BY <1>1, <1>2, <1>6, FrameJudged
    <2> QED
      BY <1>3, <2>1, <2>2
  <1>7. CASE Len(c) = CrcSize /\ ~right /\ parser' = Restarted(byte) /\ Returns("BAD_CRC")
    <2>1. Reader!Whole(bytes) /\ ~Reader!Right(bytes)
      BY <1>4, <1>6, <1>7
    <2>2. ParserInv'
      BY <1>7, RestartHolds, FrameAssumption DEF Returns, ParserInv, ParserTypeOK, HeaderSize
    <2> QED
      BY <1>7, <2>1, <2>2, RestartHolds DEF Reader!Read, Returns
  <1>8. CASE /\ Len(c) = CrcSize /\ right /\ parser' = Restarted(byte)
             /\ result' = "PACKET" /\ packet' = {[command |-> h[2], payload |-> p]}
    <2>1. /\ Reader!Whole(bytes) /\ Reader!Right(bytes)
          /\ Reader!PacketOf(bytes) = [command |-> h[2], payload |-> p]
      BY <1>4, <1>6, <1>8
    <2>2. h[2] \in Byte
      <3>1. 2 \in 1 .. Len(h)
        BY <1>1 DEF HeaderSize
      <3> QED
        BY <1>1, <3>1, ElementOfSeq
    <2>3. ParserInv'
      <3> HIDE DEF h, p
      <3>1. \A q \in packet' : q.command \in Byte /\ q.payload \in Seq(Byte)
        BY <1>1, <1>8, <2>2
      <3>2. packet' # {} /\ result' = "PACKET"
        BY <1>8
      <3> QED
        BY <1>8, <3>1, <3>2, RestartHolds, FrameAssumption DEF ParserInv, ParserTypeOK, HeaderSize
    <2> QED
      BY <1>8, <2>1, <2>3, RestartHolds DEF Reader!Read
  <1> QED
    <2>1. \/ Len(c) < CrcSize /\ parser' = [parser EXCEPT !.crc = c] /\ Returns("MORE")
          \/ Len(c) = CrcSize /\ ~right /\ parser' = Restarted(byte) /\ Returns("BAD_CRC")
          \/ /\ Len(c) = CrcSize /\ right /\ parser' = Restarted(byte)
             /\ result' = "PACKET" /\ packet' = {[command |-> h[2], payload |-> p]}
      BY DEF CrcByte
    <2> QED
      BY <1>5, <1>7, <1>8, <2>1

(* Every byte is a step of the reader. *)
LEMMA ConsumeReads ==
    ASSUME ParserInv, NEW byte \in Byte, NEW late \in BOOLEAN, Consume(byte, late)
    PROVE  ParserInv' /\ (Reader!Read(byte) \/ Reader!ReadAfresh(byte))
  <1>1. CASE TimedOut(byte)
    BY <1>1, TimedOutReads
  <1>2. CASE InTime(byte)
    BY <1>2, Sof0Reads, Sof1Reads, HeaderReads, PayloadReads, CrcReads DEF InTime
  <1> QED
    BY <1>1, <1>2 DEF Consume

(* One in time is read on. *)
LEMMA InTimeReads ==
    ASSUME ParserInv, NEW byte \in Byte, Consume(byte, FALSE)
    PROVE  Reader!Read(byte)
  <1>1. InTime(byte)
    BY DEF Consume
  <1> QED
    BY <1>1, Sof0Reads, Sof1Reads, HeaderReads, PayloadReads, CrcReads DEF InTime

(* The first byte of a frame is held after a silence and between frames. *)
LEMMA StartIsHeld ==
    ASSUME NEW late \in BOOLEAN, Consume(SOF0, late), late \/ BetweenFrames
    PROVE  Held' = <<SOF0>>
  <1>1. parser' = In("SOF1")
    BY FrameAssumption
       DEF Consume, InTime, TimedOut, Sof0, Sof1, HeaderByte, PayloadByte, CrcByte,
           BetweenFrames, Restarted
  <1> QED
    BY <1>1 DEF Held, In

-----------------------------------------------------------------------------
(* The line.                                                               *)

HeaderOf(p) == <<Version, p.command, Len(p.payload)>>

(* What is sent is a frame of those parts. *)
LEMMA EncodeIsFrame ==
    ASSUME NEW p \in Packets
    PROVE  /\ HeaderOf(p) \in Seq(Byte) /\ Len(HeaderOf(p)) = HeaderSize
           /\ HeaderOf(p)[1] = Version /\ HeaderOf(p)[2] = p.command
           /\ HeaderOf(p)[HeaderSize] = Len(p.payload)
           /\ p.payload \in Seq(Byte) /\ Len(p.payload) <= MaxPayload
           /\ Crc(HeaderOf(p) \o p.payload) \in Seq(Byte)
           /\ Len(Crc(HeaderOf(p) \o p.payload)) = CrcSize
           /\ Encode(p) = Frame(HeaderOf(p), p.payload, Crc(HeaderOf(p) \o p.payload))
           /\ p = [command |-> p.command, payload |-> p.payload]
  <1>1. /\ p.command \in Byte /\ p.payload \in Seq(Byte) /\ Len(p.payload) <= MaxPayload
        /\ Len(p.payload) \in Byte /\ p = [command |-> p.command, payload |-> p.payload]
    BY NoiseAssumption DEF Packet
  <1>2. /\ HeaderOf(p) \in Seq(Byte) /\ Len(HeaderOf(p)) = HeaderSize
        /\ HeaderOf(p)[1] = Version /\ HeaderOf(p)[2] = p.command
        /\ HeaderOf(p)[HeaderSize] = Len(p.payload)
    BY <1>1, FrameAssumption DEF HeaderOf, HeaderSize
  <1>3. Covered(p) = HeaderOf(p) \o p.payload
    BY DEF Covered, HeaderOf
  <1>4. Crc(Covered(p)) \in Seq(Byte) /\ Len(Crc(Covered(p))) = CrcSize
    BY NoiseAssumption
  <1>5. Encode(p) = Frame(HeaderOf(p), p.payload, Crc(Covered(p)))
    <2> DEFINE s == <<SOF0, SOF1>>
               d == p.payload
    <2>1. s \in Seq(Byte) /\ HeaderOf(p) \in Seq(Byte) /\ d \in Seq(Byte)
      BY <1>1, <1>2, FrameAssumption
    <2> HIDE DEF s, d
    <2>2. s \o (HeaderOf(p) \o d) = (s \o HeaderOf(p)) \o d
      BY <2>1, Regrouped
    <2>3. Encode(p) = (s \o (HeaderOf(p) \o p.payload)) \o Crc(Covered(p))
      BY <1>3 DEF Encode, s
    <2>4. Frame(HeaderOf(p), p.payload, Crc(Covered(p)))
             = ((s \o HeaderOf(p)) \o p.payload) \o Crc(Covered(p))
      BY DEF Frame, s
    <2> QED
      BY <2>2, <2>3, <2>4 DEF d
  <1> QED
    BY <1>1, <1>2, <1>3, <1>4, <1>5

(* Where the bytes of a sent frame are, and what the reader makes of it.   *)
LEMMA EncodedFrame ==
    ASSUME NEW p \in Packets
    PROVE  /\ Encode(p) \in Seq(Byte)
           /\ Len(p.payload) \in Nat /\ Len(p.payload) <= MaxPayload
           /\ Len(Encode(p)) = 5 + Len(p.payload) + CrcSize
           /\ Encode(p)[1] = SOF0 /\ Encode(p)[2] = SOF1
           /\ Encode(p)[5] = Len(p.payload)
           /\ Reader!Whole(Encode(p)) /\ Reader!Right(Encode(p))
           /\ Reader!PacketOf(Encode(p)) = p
  <1> DEFINE h == HeaderOf(p)
             d == p.payload
             c == Crc(HeaderOf(p) \o p.payload)
             f == Frame(h, d, c)
  <1>1. /\ h \in Seq(Byte) /\ Len(h) = HeaderSize /\ h[1] = Version /\ h[2] = p.command
        /\ h[HeaderSize] = Len(d) /\ d \in Seq(Byte) /\ Len(d) <= MaxPayload
        /\ c \in Seq(Byte) /\ Len(c) = CrcSize /\ Encode(p) = f
        /\ p = [command |-> p.command, payload |-> d] /\ c = Crc(h \o d)
    BY EncodeIsFrame
  <1> HIDE DEF h, d, c
  <1>2. /\ f \in Seq(Byte) /\ Len(f) = 2 + Len(h) + Len(d) + Len(c)
        /\ f[1] = SOF0 /\ f[2] = SOF1 /\ \A i \in 1 .. Len(h) : f[2 + i] = h[i]
    <2>1. h \in Seq(Byte) /\ d \in Seq(Byte) /\ c \in Seq(Byte)
      BY <1>1
    <2> QED
      BY <2>1, FrameShape
  <1>3. /\ Reader!MayBecomeFrame(f) <=> h[HeaderSize] <= MaxPayload
        /\ Reader!Whole(f) <=>
              h[HeaderSize] <= MaxPayload /\ Len(d) + Len(c) = h[HeaderSize] + CrcSize
    BY <1>1, LengthDecides
  <1>4. Reader!Right(f)
    <2>1. Reader!Right(f) <=> h[1] = Version /\ c = Crc(h \o d)
      BY <1>1, FrameJudged
    <2> QED
      BY <1>1, <2>1
  <1>5. Reader!PacketOf(f) = p
    <2>1. Reader!PacketOf(f) = [command |-> h[2], payload |-> d]
      BY <1>1, FrameJudged
    <2> QED
      BY <1>1, <2>1
  <1> HIDE DEF f
  <1>6. Reader!Whole(f)
    BY <1>1, <1>3
  <1>7. f[5] = Len(d)
    <2>1. 3 \in 1 .. Len(h) /\ HeaderSize = 3
      BY <1>1 DEF HeaderSize
    <2>2. f[2 + 3] = h[3]
      BY <1>2, <2>1
    <2> QED
      BY <1>1, <2>1, <2>2
  <1>8. Len(d) \in Nat /\ CrcSize \in Nat /\ Len(h) = 3
    BY <1>1, LenProperties, FrameAssumption DEF HeaderSize
  <1>9. Len(f) = 5 + Len(d) + CrcSize
    <2> DEFINE n == Len(d)
    <2>1. Len(f) = 2 + 3 + n + CrcSize /\ n \in Nat /\ CrcSize \in Nat
      BY <1>1, <1>2, <1>8
    <2> HIDE DEF n
    <2>2. Len(f) = 5 + n + CrcSize
      BY <2>1
    <2> QED
      BY <2>2 DEF n
  <1> QED
    BY <1>1, <1>2, <1>4, <1>5, <1>6, <1>7, <1>8, <1>9 DEF d

(* The bytes that have come of a frame that is still on its way may become *)
(* one.                                                                    *)
LEMMA PrefixIsHeld ==
    ASSUME NEW p \in Packets, NEW b \in Seq(Byte), Len(b) >= 2, Len(b) < Len(Encode(p)),
           \A i \in 1 .. Len(b) : b[i] = Encode(p)[i]
    PROVE  Reader!MayBecomeFrame(b) /\ ~Reader!Whole(b)
  <1>1. /\ Len(b) \in Nat /\ Len(p.payload) \in Nat /\ CrcSize \in Nat
        /\ Len(p.payload) <= MaxPayload /\ Len(b) < 5 + Len(p.payload) + CrcSize
    BY EncodedFrame, LenProperties, FrameAssumption
  <1>2. b[1] = SOF0 /\ b[2] = SOF1
    BY <1>1, EncodedFrame
  <1>3. Len(b) >= 5 => b[5] = Len(p.payload)
    BY <1>1, EncodedFrame
  <1> DEFINE n == Len(p.payload)
             m == Len(b)
  <1>4. m >= 5 => ~(m = 5 + n + CrcSize)
    <2>1. m \in Nat /\ n \in Nat /\ CrcSize \in Nat /\ m < 5 + n + CrcSize
      BY <1>1
    <2> HIDE DEF m, n
    <2> QED
      BY <2>1
  <1> QED
    BY <1>1, <1>2, <1>3, <1>4
       DEF Reader!MayBecomeFrame, Reader!Whole, Reader!Announced, Reader!FrameSize,
           Reader!HeaderSize

(* An intact frame is held as far as it has come, and was heard when it is *)
(* over.                                                                   *)
IntactHeld ==
    intact => IF rest = <<>> THEN packet = {sent}
              ELSE Held \in Seq(Byte) /\ Len(Held) >= 1 /\ Held \o rest = Encode(sent)

NoiseInv == NoiseTypeOK /\ PartsInv /\ IntactHeld

(* A first byte and the rest of it. *)
LEMMA BeginsHeld ==
    ASSUME NoiseInv, FrameBegins
    PROVE  NoiseInv' /\ \E byte \in Byte : Reader!Read(byte) \/ Reader!ReadAfresh(byte)
  <1>1. PICK p \in Packets, late \in BOOLEAN :
           /\ Consume(SOF0, late)
           /\ sent' = p /\ rest' = Tail(Encode(p))
           /\ intact' = (late \/ BetweenFrames)
    BY DEF FrameBegins
  <1>2. /\ ParserInv' /\ SOF0 \in Byte
        /\ Reader!Read(SOF0) \/ Reader!ReadAfresh(SOF0)
    BY <1>1, ConsumeReads, FrameAssumption DEF NoiseInv, NoiseTypeOK, ParserInv
  <1>3. /\ Encode(p) \in Seq(Byte) /\ Encode(p)[1] = SOF0
        /\ Len(Encode(p)) > 1
    <2>1. /\ Encode(p) \in Seq(Byte) /\ Encode(p)[1] = SOF0 /\ Len(p.payload) \in Nat
          /\ Len(Encode(p)) = 5 + Len(p.payload) + CrcSize /\ CrcSize \in Nat
      BY EncodedFrame, FrameAssumption
    <2> QED
      BY <2>1
  <1> DEFINE e == Encode(p)
  <1>4. /\ Tail(e) \in Seq(Byte) /\ Tail(e) # <<>> /\ <<SOF0>> \o Tail(e) = e
    <2>1. e \in Seq(Byte) /\ e # <<>> /\ Head(e) = SOF0 /\ Len(e) > 1
      BY <1>3, EmptySeq
    <2> HIDE DEF e
    <2>2. /\ Tail(e) \in Seq(Byte) /\ Len(Tail(e)) = Len(e) - 1 /\ Len(e) \in Nat
          /\ <<Head(e)>> \o Tail(e) = e
      BY <2>1, HeadTailProperties, LenProperties
    <2>3. Len(Tail(e)) # 0
      BY <2>1, <2>2
    <2> QED
      BY <2>1, <2>2, <2>3, EmptySeq
  <1>5. IntactHeld'
    <2>1. SUFFICES ASSUME intact'
                   PROVE  Held' \in Seq(Byte) /\ Len(Held') >= 1 /\ Held' \o Tail(e) = e
      BY <1>1, <1>4 DEF IntactHeld
    <2>2. Held' = <<SOF0>>
      BY <1>1, <2>1, StartIsHeld
    <2> QED
      BY <1>4, <2>2, FrameAssumption
  <1>6. NoiseTypeOK'
    BY <1>1, <1>2, <1>4 DEF NoiseTypeOK, ParserInv
  <1> QED
    BY <1>2, <1>5, <1>6 DEF NoiseInv, ParserInv

(* A further byte of a frame. *)
LEMMA ContinuesHeld ==
    ASSUME NoiseInv, FrameContinues
    PROVE  NoiseInv' /\ \E byte \in Byte : Reader!Read(byte) \/ Reader!ReadAfresh(byte)
  <1> DEFINE byte == Head(rest)
             bytes == Append(Held, byte)
  <1>1. /\ rest \in Seq(Byte) /\ rest # <<>> /\ Consume(byte, FALSE) /\ rest' = Tail(rest)
        /\ sent' = sent /\ intact' = intact /\ sent \in Packets /\ intact \in BOOLEAN
        /\ ParserInv
    BY DEF NoiseInv, NoiseTypeOK, FrameContinues, ParserInv
  <1>2. /\ byte \in Byte /\ Tail(rest) \in Seq(Byte) /\ <<byte>> \o Tail(rest) = rest
    BY <1>1, HeadTailProperties
  <1>3. Reader!Read(byte) /\ ParserInv'
    BY <1>1, <1>2, InTimeReads, ConsumeReads
  <1>4. NoiseTypeOK'
    BY <1>1, <1>2, <1>3 DEF NoiseTypeOK, ParserInv
  <1>5. ASSUME intact
        PROVE  /\ bytes \in Seq(Byte) /\ Len(bytes) >= 2
               /\ bytes \o Tail(rest) = Encode(sent)
    <2>1. Held \in Seq(Byte) /\ Len(Held) >= 1 /\ Held \o rest = Encode(sent)
      BY <1>1, <1>5 DEF NoiseInv, IntactHeld
    <2> HIDE DEF byte
    <2>2. /\ bytes \in Seq(Byte) /\ Len(bytes) = Len(Held) + 1 /\ bytes = Held \o <<byte>>
      BY <1>2, <2>1, AppendProperties, AppendIsConcat
    <2>3. Len(Held) \in Nat
      BY <2>1, LenProperties
    <2> DEFINE last == <<byte>>
    <2>4. last \in Seq(Byte)
      BY <1>2
    <2>5. bytes = Held \o last /\ last \o Tail(rest) = rest
      BY <1>2, <2>2
    <2> HIDE DEF last, bytes
    <2>6. (Held \o last) \o Tail(rest) = Held \o (last \o Tail(rest))
      BY <1>2, <2>1, <2>4, Regrouped
    <2>7. bytes \o Tail(rest) = Encode(sent)
      BY <2>1, <2>5, <2>6, Zenon
    <2>8. bytes \in Seq(Byte) /\ Len(bytes) >= 2
      BY <2>1, <2>2, <2>3
    <2> QED
      BY <2>7, <2>8
  <1> HIDE DEF bytes, byte
  <1>6. ASSUME intact, Tail(rest) = <<>>
        PROVE  packet' = {sent}
    <2>1. bytes = Encode(sent)
      BY <1>5, <1>6, ConcatEmptySeq
    <2>2. Reader!Whole(bytes) /\ Reader!Right(bytes) /\ Reader!PacketOf(bytes) = sent
      BY <1>1, <2>1, EncodedFrame
    <2> QED
      BY <1>3, <2>2 DEF Reader!Read, bytes
  <1>7. ASSUME intact, Tail(rest) # <<>>
        PROVE  Held' = bytes
    <2>1. /\ Len(bytes) < Len(Encode(sent))
          /\ \A i \in 1 .. Len(bytes) : bytes[i] = Encode(sent)[i]
      <3> DEFINE t == Tail(rest)
      <3>1. t \in Seq(Byte) /\ t # <<>> /\ bytes \in Seq(Byte) /\ bytes \o t = Encode(sent)
        BY <1>2, <1>5, <1>7
      <3> HIDE DEF t
      <3>2. Len(t) \in Nat /\ Len(t) # 0 /\ Len(bytes) \in Nat
        BY <3>1, LenProperties, EmptySeq
      <3>3. /\ Len(bytes \o t) = Len(bytes) + Len(t)
            /\ \A i \in 1 .. Len(bytes) + Len(t) :
                  (bytes \o t)[i] = IF i <= Len(bytes) THEN bytes[i] ELSE t[i - Len(bytes)]
        BY <3>1, ConcatProperties
      <3> QED
        BY <3>1, <3>2, <3>3
    <2>2. Reader!MayBecomeFrame(bytes) /\ ~Reader!Whole(bytes)
      BY <1>1, <1>5, <1>7, <2>1, PrefixIsHeld
    <2> QED
      BY <1>3, <2>2 DEF Reader!Read, bytes
  <1>8. IntactHeld'
    <2>1. SUFFICES ASSUME intact'
                   PROVE  IF Tail(rest) = <<>> THEN packet' = {sent}
                          ELSE Held' \in Seq(Byte) /\ Len(Held') >= 1
                               /\ Held' \o Tail(rest) = Encode(sent)
      BY <1>1 DEF IntactHeld
    <2>2. CASE Tail(rest) = <<>>
      BY <1>1, <1>6, <2>1, <2>2
    <2>3. CASE Tail(rest) # <<>>
      <3>1. /\ Held' = bytes /\ bytes \in Seq(Byte) /\ Len(bytes) >= 2
            /\ bytes \o Tail(rest) = Encode(sent)
        BY <1>1, <1>5, <1>7, <2>1, <2>3
      <3>2. Len(bytes) \in Nat
        BY <3>1, LenProperties
      <3> QED
        BY <2>3, <3>1, <3>2
    <2> QED
      BY <2>2, <2>3
  <1> QED
    BY <1>2, <1>3, <1>4, <1>8 DEF NoiseInv, ParserInv

(* A byte that is damaged, late, lost or nobody's. *)
LEMMA OtherBytesHeld ==
    ASSUME NoiseInv, FrameSuffers \/ Noise
    PROVE  /\ NoiseInv'
           /\ \/ \E byte \in Byte : Reader!Read(byte) \/ Reader!ReadAfresh(byte)
              \/ UNCHANGED parserVars
  <1>1. ParserInv /\ rest \in Seq(Byte) /\ sent \in Packets
    BY DEF NoiseInv, NoiseTypeOK, ParserInv
  <1>2. rest # <<>> => Head(rest) \in Byte /\ Tail(rest) \in Seq(Byte)
    BY <1>1, HeadTailProperties
  <1>3. \/ \E byte \in Byte, late \in BOOLEAN : Consume(byte, late)
        \/ UNCHANGED parserVars
    BY <1>2 DEF FrameSuffers, Noise
  <1>4. /\ ParserInv'
        /\ \/ \E byte \in Byte : Reader!Read(byte) \/ Reader!ReadAfresh(byte)
           \/ UNCHANGED parserVars
    <2>1. CASE UNCHANGED parserVars
      BY <1>1, <2>1 DEF parserVars, ParserInv, ParserTypeOK, PartsInv
    <2>2. CASE \E byte \in Byte, late \in BOOLEAN : Consume(byte, late)
      BY <1>1, <2>2, ConsumeReads
    <2> QED
      BY <1>3, <2>1, <2>2
  <1>5. sent' = sent /\ intact' = FALSE /\ rest' \in Seq(Byte)
    BY <1>1, <1>2 DEF FrameSuffers, Noise
  <1> QED
    BY <1>1, <1>4, <1>5 DEF NoiseInv, NoiseTypeOK, IntactHeld, ParserInv

(* Initially, the parser is between frames and holds nothing. *)
LEMMA NoiseInitially ==
    ASSUME NoiseInit
    PROVE  NoiseInv /\ Reader!ReaderInit
  <1>1. ParserTypeOK /\ PartsInv /\ Held = <<>> /\ packet = {}
    BY EmptySeq, FrameAssumption
       DEF NoiseInit, ParserInit, In, ParserTypeOK, PartsInv, Held, HeaderSize
  <1> QED
    BY <1>1, EmptySeq DEF NoiseInit, NoiseInv, NoiseTypeOK, IntactHeld, Reader!ReaderInit

(* Every step keeps the invariant and is one of the reader, or none. *)
LEMMA NoiseSteps ==
    ASSUME NoiseInv, [NoiseNext]_noiseVars
    PROVE  NoiseInv' /\ [Reader!ReaderNext]_<<Held, packet>>
  <1>1. UNCHANGED parserVars => UNCHANGED <<Held, packet>>
    BY DEF parserVars, Held
  <1>2. CASE FrameBegins
    BY <1>2, BeginsHeld DEF Reader!ReaderNext
  <1>3. CASE FrameContinues
    BY <1>3, ContinuesHeld DEF Reader!ReaderNext
  <1>4. CASE FrameSuffers \/ Noise
    BY <1>1, <1>4, OtherBytesHeld DEF Reader!ReaderNext
  <1>5. CASE UNCHANGED noiseVars
    <2>1. NoiseInv'
      BY <1>5 DEF noiseVars, parserVars, NoiseInv, NoiseTypeOK, ParserTypeOK, PartsInv,
                  IntactHeld, Held
    <2> QED
      BY <1>1, <1>5, <2>1 DEF noiseVars
  <1> QED
    BY <1>2, <1>3, <1>4, <1>5 DEF NoiseNext

(* The invariant. *)
LEMMA NoiseInvariant == NoiseSpec => []NoiseInv
  <1>1. NoiseInit => NoiseInv
    BY NoiseInitially
  <1>2. NoiseInv /\ [NoiseNext]_noiseVars => NoiseInv'
    BY NoiseSteps
  <1> QED
    BY <1>1, <1>2, PTL DEF NoiseSpec

(* The buffers of ota_parser_consume are never written past their ends,    *)
(* whatever bytes come.                                                    *)
THEOREM ParserTypeCorrect == NoiseSpec => []NoiseTypeOK
  <1>1. NoiseInv => NoiseTypeOK
    BY DEF NoiseInv
  <1> QED
    BY <1>1, NoiseInvariant, PTL

(* The switch of ota_parser_consume with its state, indices and buffers    *)
(* gives out exactly the packets of the abstract reader of frames.         *)
THEOREM ParserReadsFrames == NoiseSpec => IsFrameReader
  <1>1. NoiseInit => Reader!ReaderInit
    BY NoiseInitially
  <1>2. NoiseInv /\ [NoiseNext]_noiseVars => [Reader!ReaderNext]_<<Held, packet>>
    BY NoiseSteps
  <1> QED
    BY <1>1, <1>2, NoiseInvariant, PTL DEF NoiseSpec, IsFrameReader, Reader!FrameReaderSpec

(* A frame of ota_packet_encode that nothing damages is given out by       *)
(* ota_parser_consume with its last byte, whatever came before it, if it   *)
(* follows a silence or finds the parser between frames.                   *)
THEOREM IntactFramesAreHeard == NoiseSpec => []IntactFrameHeard
  <1>1. NoiseInv => IntactFrameHeard
    BY DEF NoiseInv, IntactHeld, IntactFrameHeard
  <1> QED
    BY <1>1, NoiseInvariant, PTL


=============================================================================
