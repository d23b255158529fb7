---------------------------- MODULE StreamProofs ----------------------------
(***************************************************************************)
(* Theorems about Stream for any lengths of the file, of a read, of the    *)
(* prefix and of what the connection holds.                                *)
(***************************************************************************)
EXTENDS Stream, TLAPS

(* The frames that the sender writes, and their bytes. *)
SentFrame == {Chunk(o, n) : o \in Nat, n \in Nat} \cup {LastChunk, Disconnection}
Size(f) == Prefix + BodyLength(f)
Byte == {b \in [of : SentFrame, at : Nat] : b.at \in 1..Size(b.of)}

StreamTypes ==
    /\ frame \in SentFrame /\ left \in 0..Size(frame)
    /\ wire \in Seq(Byte)
    /\ got \in Seq(Byte) /\ Len(got) < Prefix
    /\ reading \in SentFrame \cup {Garbage} /\ toRead \in Nat
    /\ toRead > 0 => got = <<>>
    /\ source \in 0..Total /\ sent \in 0..source
    /\ stored \in Nat

LEMMA FrameFacts ==
    /\ \A f \in SentFrame : f # Garbage /\ f.n \in Nat /\ BodyLength(f) \in Nat \ {0}
                             /\ Size(f) \in Nat /\ Size(f) > Prefix
                             /\ (f.kind = "Last" => f = LastChunk)
    /\ LastChunk \in SentFrame /\ Disconnection \in SentFrame
    /\ \A o, n \in Nat : Chunk(o, n) \in SentFrame
<1>1. \A f \in SentFrame : f.n \in Nat
  BY DEF SentFrame, Chunk, LastChunk, Disconnection
<1>2. \A f \in SentFrame : BodyLength(f) \in Nat \ {0} /\ Size(f) \in Nat /\ Size(f) > Prefix
  BY <1>1, PrefixAssumption DEF BodyLength, Size
<1>3. \A f \in SentFrame : f # Garbage /\ (f.kind = "Last" => f = LastChunk)
  BY DEF SentFrame, Chunk, LastChunk, Disconnection, Garbage
<1>4. QED BY <1>1, <1>2, <1>3 DEF SentFrame

(* Taking and adding bytes. *)
LEMMA Taken ==
    ASSUME NEW s \in Seq(Byte), NEW k \in 0..Len(s)
    PROVE  /\ SubSeq(s, k + 1, Len(s)) \in Seq(Byte)
           /\ Len(SubSeq(s, k + 1, Len(s))) = Len(s) - k
           /\ \A i \in 1..(Len(s) - k) : SubSeq(s, k + 1, Len(s))[i] = s[i + k]
OBVIOUS

LEMMA FirstOnes ==
    ASSUME NEW s \in Seq(Byte), NEW k \in 0..Len(s)
    PROVE  /\ SubSeq(s, 1, k) \in Seq(Byte) /\ Len(SubSeq(s, 1, k)) = k
           /\ \A i \in 1..k : SubSeq(s, 1, k)[i] = s[i]
OBVIOUS

LEMMA Joined ==
    ASSUME NEW s \in Seq(Byte), NEW t \in Seq(Byte)
    PROVE  /\ s \o t \in Seq(Byte) /\ Len(s \o t) = Len(s) + Len(t)
           /\ \A i \in 1..Len(s) : (s \o t)[i] = s[i]
           /\ \A i \in 1..Len(t) : (s \o t)[Len(s) + i] = t[i]
OBVIOUS

LEMMA BytesAreBytes ==
    ASSUME NEW f \in SentFrame
    PROVE  /\ Bytes(f) \in Seq(Byte) /\ Len(Bytes(f)) = Size(f)
           /\ \A i \in 1..Size(f) : Bytes(f)[i] = [of |-> f, at |-> i]
<1>1. Size(f) \in Nat
  BY FrameFacts
<1>2. Bytes(f) = [i \in 1..Size(f) |-> [of |-> f, at |-> i]]
  BY DEF Bytes, Size
<1>3. \A i \in 1..Size(f) : [of |-> f, at |-> i] \in Byte
  BY <1>1 DEF Byte
<1> HIDE DEF Size, Byte
<1>4. QED BY <1>1, <1>2, <1>3

-----------------------------------------------------------------------------
(* Types. *)

(* A length that was read is of a frame when it is aligned. *)
LEMMA LengthIsOfAFrame ==
    ASSUME StreamTypes, NEW k \in 0..Len(wire), k = Prefix - Len(got)
    PROVE  (got \o SubSeq(wire, 1, k))[1].of \in SentFrame
<1> DEFINE length == got \o SubSeq(wire, 1, k)
<1>1. SubSeq(wire, 1, k) \in Seq(Byte) /\ Len(SubSeq(wire, 1, k)) = k
  BY FirstOnes DEF StreamTypes
<1>2. length \in Seq(Byte) /\ Len(length) = Len(got) + k /\ Len(got) \in Nat
  BY <1>1, Joined DEF StreamTypes
<1>3. 1 \in 1..Len(length)
  BY <1>2, PrefixAssumption
<1>4. length[1] \in Byte
  BY <1>2, <1>3
<1>5. QED BY <1>4 DEF Byte

(* What a step of the sender does to its frame and to the connection. *)
Begins(f) == left = 0 /\ f \in SentFrame /\ Writes(f) /\ wire' = wire
Hands(k) ==
    /\ k \in 1..left
    /\ wire' = wire \o SubSeq(Bytes(frame), Size(frame) - left + 1, Size(frame) - left + k)
    /\ left' = left - k /\ frame' = frame
Rests == UNCHANGED <<frame, left, wire>>

LEMMA SenderSteps ==
    ASSUME StreamTypes, SStep \/ SStop
    PROVE  /\ (\E f \in SentFrame : Begins(f)) \/ (\E k \in Nat : Hands(k)) \/ Rests
           /\ source' = source /\ sent' \in 0..source
           /\ UNCHANGED receiverVars
<1>1. ASSUME NEW n \in 0..ReadBuffer, SReadAndSend(n)
      PROVE  /\ \E f \in SentFrame : Begins(f)
             /\ source' = source /\ sent' \in 0..source /\ UNCHANGED receiverVars
  <2>1. n \in Nat /\ sent \in Nat /\ source \in Nat /\ sent <= source /\ n <= source - sent
    BY <1>1, BufferAssumption, TotalAssumption DEF SReadAndSend, StreamTypes
  <2>2. Chunk(sent, n) \in SentFrame
    BY <2>1, FrameFacts
  <2>3. sent' \in 0..source
    BY <1>1, <2>1 DEF SReadAndSend
  <2>4. QED BY <1>1, <2>2, <2>3 DEF SReadAndSend, Begins
<1>2. CASE SSendLast
  BY <1>2, FrameFacts DEF SSendLast, Begins, StreamTypes
<1>3. CASE SFinish
  BY <1>3, FrameFacts DEF SFinish, Begins, StreamTypes
<1>4. ASSUME NEW k \in 1..Buffer, SWrite(k)
      PROVE  /\ \E x \in Nat : Hands(x)
             /\ UNCHANGED <<source, sent, receiverVars>>
  <2>1. k \in Nat /\ k \in 1..left
    BY <1>4, BufferAssumption, FrameFacts DEF SWrite, StreamTypes
  <2>2. Len(Bytes(frame)) = Size(frame)
    BY BytesAreBytes DEF StreamTypes
  <2>3. Hands(k)
    BY <1>4, <2>1, <2>2 DEF SWrite, Hands
  <2>4. QED BY <1>4, <2>1, <2>3 DEF SWrite
<1>5. CASE SLost \/ SStop
  BY <1>5 DEF SLost, SStop, Rests, StreamTypes
<1>6. QED BY <1>1, <1>2, <1>3, <1>4, <1>5 DEF SStep, StreamTypes

(* What a step of the receiver does: it takes bytes from the connection.    *)
Takes(k) ==
    /\ k \in 0..Len(wire) /\ wire' = SubSeq(wire, k + 1, Len(wire))
    /\ UNCHANGED <<frame, left, source, sent>>

LEMMA ReadsTake ==
    ASSUME StreamTypes, RRead
    PROVE  \E k \in Nat : Takes(k)
<1>1. ASSUME NEW k \in 1..Prefix, RReadPart(k) PROVE k \in Nat /\ Takes(k)
  BY <1>1, PrefixAssumption DEF RReadPart, Takes, senderVars, StreamTypes
<1>2. ASSUME RReadLength PROVE Prefix - Len(got) \in Nat /\ Takes(Prefix - Len(got))
  BY <1>2, PrefixAssumption DEF RReadLength, Takes, senderVars, StreamTypes
<1>3. ASSUME NEW k \in 1..Buffer, RReadBody(k) PROVE k \in Nat /\ Takes(k)
  BY <1>3, BufferAssumption DEF RReadBody, Takes, senderVars, StreamTypes
<1>4. QED BY <1>1, <1>2, <1>3 DEF RRead

LEMMA StepKeepsTypes ==
    ASSUME StreamTypes, [StreamNext]_streamVars
    PROVE  StreamTypes'
<1>1. ASSUME SStep \/ SStop PROVE StreamTypes'
  <2>1. ASSUME NEW f \in SentFrame, Begins(f) PROVE StreamTypes'
    <3>1. frame' = f /\ left' = Size(f) /\ Size(f) \in Nat /\ wire' = wire
      BY <2>1, FrameFacts DEF Begins, Writes, Size
    <3>2. QED BY <1>1, <3>1, SenderSteps DEF StreamTypes, receiverVars
  <2>2. ASSUME NEW k \in Nat, Hands(k) PROVE StreamTypes'
    <3>1. Size(frame) \in Nat /\ left \in 0..Size(frame) /\ k \in 1..left
      BY <2>2, FrameFacts DEF Hands, StreamTypes
    <3>2. Bytes(frame) \in Seq(Byte) /\ Len(Bytes(frame)) = Size(frame)
      BY BytesAreBytes DEF StreamTypes
    <3>3. SubSeq(Bytes(frame), Size(frame) - left + 1, Size(frame) - left + k) \in Seq(Byte)
      BY <3>1, <3>2
    <3>4. wire' \in Seq(Byte)
      BY <2>2, <3>3, Joined DEF Hands, StreamTypes
    <3>5. left' \in 0..Size(frame) /\ frame' = frame
      BY <2>2, <3>1 DEF Hands
    <3>6. QED BY <1>1, <3>4, <3>5, SenderSteps DEF StreamTypes, receiverVars
  <2>3. CASE Rests
    BY <1>1, <2>3, SenderSteps DEF Rests, StreamTypes, receiverVars
  <2>4. QED BY <1>1, <2>1, <2>2, <2>3, SenderSteps
<1>2. ASSUME NEW k, Takes(k) PROVE wire' \in Seq(Byte)
  BY <1>2, Taken DEF Takes, StreamTypes
<1>3. ASSUME NEW k \in 1..Prefix, RReadPart(k) PROVE StreamTypes'
  <2>1. Takes(k)
    BY <1>3, PrefixAssumption DEF RReadPart, Takes, senderVars, StreamTypes
  <2>2. k \in 0..Len(wire) /\ k \in Nat /\ k < Prefix - Len(got) /\ toRead = 0
    BY <1>3, PrefixAssumption DEF RReadPart, Selecting, StreamTypes
  <2>3. SubSeq(wire, 1, k) \in Seq(Byte) /\ Len(SubSeq(wire, 1, k)) = k
    BY <2>2, FirstOnes DEF StreamTypes
  <2>4. got' \in Seq(Byte) /\ Len(got') = Len(got) + k
    BY <1>3, <2>3, Joined DEF RReadPart, StreamTypes
  <2>5. Len(got') < Prefix
    BY <2>2, <2>4, PrefixAssumption DEF StreamTypes
  <2>6. QED BY <1>2, <1>3, <2>1, <2>2, <2>4, <2>5 DEF RReadPart, senderVars, StreamTypes
<1>4. CASE RReadLength
  <2> DEFINE k == Prefix - Len(got)
             length == got \o SubSeq(wire, 1, k)
  <2>1. k \in 0..Len(wire) /\ Takes(k)
    BY <1>4, PrefixAssumption DEF RReadLength, Takes, senderVars, StreamTypes
  <2>2. got' = <<>> /\ Len(<<>>) < Prefix /\ stored' = stored
    BY <1>4, PrefixAssumption DEF RReadLength
  <2>3. reading' \in SentFrame \cup {Garbage} /\ toRead' \in Nat
    <3>1. CASE Aligned(length)
      <4>1. reading' = length[1].of /\ toRead' = BodyLength(reading')
        BY <1>4, <3>1 DEF RReadLength
      <4>2. reading' \in SentFrame
        BY <2>1, <4>1, LengthIsOfAFrame
      <4>3. QED BY <4>1, <4>2, FrameFacts
    <3>2. CASE ~Aligned(length)
      BY <1>4, <3>2, BoundsAssumption DEF RReadLength, StreamTypes
    <3>3. QED BY <3>1, <3>2
  <2>4. QED BY <1>2, <2>1, <2>2, <2>3 DEF Takes, StreamTypes
<1>5. ASSUME NEW k \in 1..Buffer, RReadBody(k) PROVE StreamTypes'
  <2>1. Takes(k) /\ k \in Nat /\ k <= toRead
    BY <1>5, BufferAssumption DEF RReadBody, Takes, senderVars, StreamTypes
  <2>2. toRead' \in Nat /\ (toRead' > 0 => toRead > 0) /\ UNCHANGED <<got, reading>>
    BY <1>5, <2>1 DEF RReadBody, StreamTypes
  <2>3. stored' \in Nat
    <3>1. stored' = stored \/ stored' = stored + reading.n
      BY <1>5 DEF RReadBody, Handled
    <3>2. reading.n \in Nat
      <4>1. Garbage.n = 0
        BY DEF Garbage
      <4>2. reading \in SentFrame \/ reading = Garbage
        BY DEF StreamTypes
      <4>3. CASE reading \in SentFrame
        BY <4>3, FrameFacts
      <4>4. CASE reading = Garbage
        BY <4>1, <4>4
      <4>5. QED BY <4>2, <4>3, <4>4
    <3>3. QED BY <3>1, <3>2 DEF StreamTypes
  <2>4. QED BY <1>2, <2>1, <2>2, <2>3 DEF Takes, StreamTypes
<1>6. CASE RReceive
  BY <1>6, PrefixAssumption DEF RReceive, senderVars, StreamTypes
<1>7. CASE RCancel \/ RLost \/ Other \/ Cancel \/ UNCHANGED streamVars
  <2>1. UNCHANGED <<frame, left, wire, got, reading, toRead, source, sent, stored>>
    BY <1>7 DEF RCancel, RLost, Other, Cancel, streamVars, senderVars, receiverVars
  <2>2. QED BY <2>1 DEF StreamTypes
<1>8. QED BY <1>1, <1>3, <1>4, <1>5, <1>6, <1>7 DEF StreamNext, RRead

LEMMA TypesStay == StreamSpec => []StreamTypes
<1>1. StreamInit => StreamTypes
  BY FrameFacts, PrefixAssumption, TotalAssumption DEF StreamInit, StreamTypes
<1>2. StreamTypes /\ [StreamNext]_streamVars => StreamTypes'
  BY StepKeepsTypes
<1>3. QED BY <1>1, <1>2, PTL DEF StreamSpec

-----------------------------------------------------------------------------
(* A receiver that runs has not finished. *)
FinishedHasAll ==
    /\ rState = "Finished" => ~rUp
    /\ FinishedMeansAll

(* A receiver that says Finished has the file as it was announced, in       *)
(* however small pieces the connection carries it and whatever of it was    *)
(* lost in a select!: the last chunk says where the file ends.              *)
THEOREM FinishedIsAll == StreamSpec => []FinishedMeansAll
<1>1. StreamInit => FinishedHasAll
  BY DEF StreamInit, FinishedHasAll, FinishedMeansAll
<1>2. StreamTypes /\ FinishedHasAll /\ [StreamNext]_streamVars => FinishedHasAll'
  <2> SUFFICES ASSUME StreamTypes, FinishedHasAll, [StreamNext]_streamVars
               PROVE  FinishedHasAll'
    OBVIOUS
  <2> USE DEF FinishedHasAll, FinishedMeansAll
  <2>1. CASE SStep \/ SStop
    BY <2>1, SenderSteps DEF receiverVars
  <2>2. ASSUME NEW k \in 1..Prefix, RReadPart(k) PROVE FinishedHasAll'
    BY <2>2 DEF RReadPart
  <2>3. CASE RReadLength
    BY <2>3 DEF RReadLength
  <2>4. ASSUME NEW k \in 1..Buffer, RReadBody(k) PROVE FinishedHasAll'
    <3>1. CASE toRead # k
      BY <2>4, <3>1 DEF RReadBody
    <3>2. CASE toRead = k
      <4>1. Handled(reading) /\ rState # "Finished"
        BY <2>4, <3>2 DEF RReadBody
      <4>2. CASE ~InPlace(reading)
        BY <4>1, <4>2 DEF Handled
      <4>3. CASE InPlace(reading) /\ reading.kind # "Last"
        BY <4>1, <4>3 DEF Handled
      <4>4. CASE InPlace(reading) /\ reading.kind = "Last"
        <5>1. reading = LastChunk
          BY <4>4, FrameFacts DEF StreamTypes, InPlace
        <5>2. stored = Total
          BY <4>4, <5>1 DEF InPlace, LastChunk
        <5>3. stored' = stored + 0 /\ ~rUp'
          BY <4>1, <4>4, <5>1 DEF Handled, LastChunk
        <5>4. QED BY <5>2, <5>3, TotalAssumption
      <4>5. QED BY <4>2, <4>3, <4>4
    <3>3. QED BY <3>1, <3>2
  <2>5. CASE RReceive \/ RCancel \/ RLost
    BY <2>5 DEF RReceive, RCancel, RLost
  <2>6. CASE Other \/ Cancel \/ UNCHANGED streamVars
    BY <2>6 DEF Other, Cancel, streamVars, receiverVars
  <2>7. QED BY <2>1, <2>2, <2>3, <2>4, <2>5, <2>6 DEF StreamNext, RRead
<1>3. FinishedHasAll => FinishedMeansAll
  BY DEF FinishedHasAll
<1>4. QED BY <1>1, <1>2, <1>3, TypesStay, PTL DEF StreamSpec

-----------------------------------------------------------------------------
(* Where the bytes of the frames are in a sequence c of n bytes: after a    *)
(* byte come the others of its frame, all of them, and then the first of    *)
(* the next one.                                                            *)
Rest(b) == Size(b.of) - b.at
InOrder(c, n) ==
    \A i \in 1..n :
        /\ i + Rest(c[i]) <= n
        /\ \A j \in 0..Rest(c[i]) : c[i + j] = [of |-> c[i].of, at |-> c[i].at + j]
        /\ i + Rest(c[i]) < n => c[i + Rest(c[i]) + 1].at = 1

LEMMA RestIsNat ==
    ASSUME NEW b \in Byte
    PROVE  /\ b.of \in SentFrame /\ b.at \in Nat /\ Size(b.of) \in Nat
           /\ b.at >= 1 /\ b.at <= Size(b.of) /\ Rest(b) \in Nat
<1>1. b.of \in SentFrame /\ b.at \in 1..Size(b.of)
  BY DEF Byte
<1>2. Size(b.of) \in Nat
  BY <1>1, FrameFacts
<1>3. QED BY <1>1, <1>2 DEF Rest

(* A whole frame may follow them. *)
LEMMA AFrameKeepsOrder ==
    ASSUME NEW n \in Nat, NEW c \in [1..n -> Byte], InOrder(c, n),
           NEW f \in SentFrame, NEW d,
           \A i \in 1..n : d[i] = c[i],
           \A i \in 1..Size(f) : d[n + i] = [of |-> f, at |-> i]
    PROVE  InOrder(d, n + Size(f))
<1> DEFINE m == n + Size(f)
<1>1. Size(f) \in Nat /\ Size(f) >= 1
  BY FrameFacts, PrefixAssumption
<1>2. d[n + 1].at = 1
  <2>1. 1 \in 1..Size(f)
    BY <1>1
  <2>2. d[n + 1] = [of |-> f, at |-> 1]
    BY <2>1
  <2>3. QED BY <2>2
<1>3. ASSUME NEW i \in 1..m
      PROVE  /\ i + Rest(d[i]) <= m
             /\ \A j \in 0..Rest(d[i]) : d[i + j] = [of |-> d[i].of, at |-> d[i].at + j]
             /\ i + Rest(d[i]) < m => d[i + Rest(d[i]) + 1].at = 1
  <2>1. CASE i <= n
    <3>1. i \in 1..n
      BY <2>1
    <3> DEFINE r == Rest(c[i])
    <3>2. d[i] = c[i] /\ r \in Nat /\ i + r <= n
      BY <3>1, RestIsNat DEF InOrder
    <3>3. ASSUME NEW j \in 0..r PROVE d[i + j] = [of |-> c[i].of, at |-> c[i].at + j]
      <4>1. i + j \in 1..n
        BY <3>1, <3>2
      <4>2. QED BY <3>1, <4>1 DEF InOrder
    <3>4. ASSUME i + r < m PROVE d[i + r + 1].at = 1
      <4>1. CASE i + r = n
        BY <1>2, <4>1
      <4>2. CASE i + r < n
        <5>1. i + r + 1 \in 1..n
          BY <3>1, <3>2, <4>2
        <5>2. QED BY <3>1, <4>2, <5>1 DEF InOrder
      <4>3. QED BY <3>2, <4>1, <4>2
    <3>5. i + r <= m
      BY <1>1, <3>1, <3>2
    <3> HIDE DEF r, m
    <3>6. Rest(d[i]) = r
      BY <3>2 DEF r
    <3>7. QED BY <3>2, <3>3, <3>4, <3>5, <3>6
  <2>2. CASE i > n
    <3> DEFINE p == i - n
    <3>1. p \in 1..Size(f) /\ n + p = i
      BY <1>1, <2>2
    <3>2. d[i] = [of |-> f, at |-> p]
      BY <3>1
    <3>3. Rest(d[i]) = Size(f) - p /\ i + (Size(f) - p) = m
      BY <1>1, <3>1, <3>2 DEF Rest
    <3>4. ASSUME NEW j \in 0..(Size(f) - p) PROVE d[i + j] = [of |-> f, at |-> p + j]
      <4>1. p + j \in 1..Size(f) /\ n + (p + j) = i + j
        BY <1>1, <3>1
      <4>2. QED BY <4>1
    <3> HIDE DEF p, m
    <3>5. QED BY <1>1, <3>1, <3>2, <3>3, <3>4
  <2>3. QED BY <2>1, <2>2
<1>4. QED BY <1>3 DEF InOrder

(* The first ones may be taken away. *)
LEMMA TakingKeepsOrder ==
    ASSUME NEW n \in Nat, NEW c \in [1..n -> Byte], InOrder(c, n),
           NEW k \in 0..n, NEW d, \A i \in 1..(n - k) : d[i] = c[i + k]
    PROVE  InOrder(d, n - k)
<1>1. ASSUME NEW i \in 1..(n - k)
      PROVE  /\ i + Rest(d[i]) <= n - k
             /\ \A j \in 0..Rest(d[i]) : d[i + j] = [of |-> d[i].of, at |-> d[i].at + j]
             /\ i + Rest(d[i]) < n - k => d[i + Rest(d[i]) + 1].at = 1
  <2>1. PICK x \in 1..n : x = i + k
    OBVIOUS
  <2> DEFINE r == Rest(c[x])
  <2>2. d[i] = c[x] /\ r \in Nat /\ x + r <= n
    BY <2>1, RestIsNat DEF InOrder
  <2>3. ASSUME NEW j \in 0..r PROVE d[i + j] = [of |-> c[x].of, at |-> c[x].at + j]
    <3>1. i + j \in 1..(n - k) /\ (i + j) + k = x + j
      BY <2>1, <2>2
    <3>2. d[i + j] = c[x + j]
      BY <3>1
    <3>3. QED BY <3>2 DEF InOrder
  <2>4. ASSUME i + r < n - k PROVE d[i + r + 1].at = 1
    <3>1. i + r + 1 \in 1..(n - k) /\ (i + r + 1) + k = x + r + 1 /\ x + r < n
      BY <2>1, <2>2, <2>4
    <3>2. d[i + r + 1] = c[x + r + 1]
      BY <3>1
    <3>3. QED BY <3>1, <3>2 DEF InOrder
  <2>5. i + r <= n - k
    BY <2>1, <2>2
  <2> HIDE DEF r
  <2>6. Rest(d[i]) = r
    BY <2>2 DEF r
  <2>7. QED BY <2>2, <2>3, <2>4, <2>5, <2>6
<1>2. QED BY <1>1 DEF InOrder

(* When the first byte is at place p + 1 of a frame, the rest of the frame  *)
(* follows, and then another frame.                                         *)
LEMMA RestFollows ==
    ASSUME NEW n \in Nat \ {0}, NEW c \in [1..n -> Byte], InOrder(c, n),
           NEW f \in SentFrame, NEW p \in Nat, c[1] = [of |-> f, at |-> p + 1]
    PROVE  /\ p < Size(f) /\ Size(f) - p <= n
           /\ \A i \in 1..(Size(f) - p) : c[i] = [of |-> f, at |-> p + i]
           /\ \A i \in 1..n : i = Size(f) - p + 1 => c[i].at = 1
<1>1. 1 \in 1..n /\ c[1] \in Byte /\ Size(f) \in Nat
  BY FrameFacts
<1>2. c[1].of = f /\ c[1].at = p + 1
  OBVIOUS
<1>3. p < Size(f) /\ Rest(c[1]) = Size(f) - (p + 1)
  BY <1>1, <1>2, RestIsNat DEF Rest
<1> DEFINE r == Size(f) - (p + 1)
<1>4. r \in Nat
  BY <1>1, <1>3
<1>5. /\ 1 + r <= n /\ (\A j \in 0..r : c[1 + j] = [of |-> f, at |-> (p + 1) + j])
      /\ 1 + r < n => c[1 + r + 1].at = 1
  BY <1>1, <1>2, <1>3 DEF InOrder
<1>6. ASSUME NEW i \in 1..(Size(f) - p) PROVE c[i] = [of |-> f, at |-> p + i]
  <2>1. i - 1 \in 0..r /\ 1 + (i - 1) = i /\ (p + 1) + (i - 1) = p + i
    BY <1>1, <1>4
  <2> HIDE DEF r
  <2>2. QED BY <1>5, <2>1
<1>7. ASSUME NEW i \in 1..n, i = Size(f) - p + 1 PROVE c[i].at = 1
  <2>1. 1 + r + 1 = i /\ 1 + r < n
    BY <1>1, <1>4, <1>7
  <2> HIDE DEF r
  <2>2. QED BY <1>5, <2>1
<1>8. QED BY <1>1, <1>3, <1>4, <1>5, <1>6, <1>7

-----------------------------------------------------------------------------
(* The bytes that are still to come to the receiver: those on the           *)
(* connection, w, then the l last ones of the frame f that is being written. *)
BytesToCome(w, f, l) ==
    [i \in 1..(Len(w) + l) |->
        IF i <= Len(w) THEN w[i] ELSE [of |-> f, at |-> Size(f) - l + (i - Len(w))]]
ToCome == Len(wire) + left
Coming == BytesToCome(wire, frame, left)

(* The receiver takes the next byte for what it is. *)
Expected(c, n) ==
    /\ \A i \in 1..Len(got) : got[i] = [of |-> got[1].of, at |-> i]
    /\ n = 0 => got = <<>> /\ toRead = 0
    /\ n > 0 /\ got = <<>> /\ toRead = 0 => c[1].at = 1
    /\ n > 0 /\ got # <<>> => c[1] = [of |-> got[1].of, at |-> Len(got) + 1]
    /\ n > 0 /\ toRead > 0 => c[1] = [of |-> reading, at |-> Size(reading) - toRead + 1]

InPlaceUnlessCut ==
    /\ InOrder(Coming, ToCome)
    /\ ~cut => reading # Garbage /\ Expected(Coming, ToCome)

LEMMA ToComeAreBytes ==
    ASSUME NEW w \in Seq(Byte), NEW f \in SentFrame, NEW l \in 0..Size(f)
    PROVE  /\ BytesToCome(w, f, l) \in [1..(Len(w) + l) -> Byte]
           /\ \A i \in 1..Len(w) : BytesToCome(w, f, l)[i] = w[i]
           /\ \A i \in 1..(Len(w) + l) :
                i > Len(w) => BytesToCome(w, f, l)[i] =
                                [of |-> f, at |-> Size(f) - l + (i - Len(w))]
<1>1. Len(w) \in Nat /\ Size(f) \in Nat /\ l \in Nat /\ l <= Size(f)
  BY FrameFacts
<1>2. ASSUME NEW i \in 1..(Len(w) + l)
      PROVE  (IF i <= Len(w) THEN w[i]
              ELSE [of |-> f, at |-> Size(f) - l + (i - Len(w))]) \in Byte
  <2>1. CASE i <= Len(w)
    <3>1. i \in 1..Len(w)
      BY <1>1, <2>1
    <3>2. w[i] \in Byte
      BY <3>1
    <3>3. QED BY <2>1, <3>2
  <2>2. CASE ~(i <= Len(w))
    <3> DEFINE a == Size(f) - l + (i - Len(w))
    <3>1. a \in Nat /\ a \in 1..Size(f)
      BY <1>1, <2>2
    <3> HIDE DEF a
    <3>2. [of |-> f, at |-> a] \in Byte
      BY <1>1, <3>1 DEF Byte
    <3>3. QED BY <2>2, <3>2 DEF a
  <2>3. QED BY <2>1, <2>2
<1>3. BytesToCome(w, f, l) \in [1..(Len(w) + l) -> Byte]
  BY <1>2 DEF BytesToCome
<1>4. ASSUME NEW i \in 1..Len(w) PROVE BytesToCome(w, f, l)[i] = w[i]
  <2>1. i \in 1..(Len(w) + l) /\ i <= Len(w)
    BY <1>1
  <2>2. QED BY <2>1 DEF BytesToCome
<1>5. ASSUME NEW i \in 1..(Len(w) + l), i > Len(w)
      PROVE  BytesToCome(w, f, l)[i] = [of |-> f, at |-> Size(f) - l + (i - Len(w))]
  <2>1. ~(i <= Len(w))
    BY <1>1, <1>5
  <2>2. QED BY <2>1 DEF BytesToCome
<1>6. QED BY <1>3, <1>4, <1>5

(* The same of the variables, now and after a step. *)
ComingFacts ==
    /\ ToCome \in Nat /\ Coming \in [1..ToCome -> Byte]
    /\ Len(wire) \in Nat /\ Len(wire) <= ToCome
    /\ \A i \in 1..Len(wire) : Coming[i] = wire[i]
    /\ \A i \in 1..ToCome :
         i > Len(wire) => Coming[i] = [of |-> frame, at |-> Size(frame) - left + (i - Len(wire))]

LEMMA ComingNow == ASSUME StreamTypes PROVE ComingFacts
<1>1. Len(wire) \in Nat /\ left \in Nat
  BY FrameFacts DEF StreamTypes
<1>2. QED BY <1>1, ToComeAreBytes DEF StreamTypes, ComingFacts, Coming, ToCome

LEMMA ComingThen == ASSUME StreamTypes' PROVE ComingFacts'
<1>1. Len(wire') \in Nat /\ left' \in Nat
  BY FrameFacts DEF StreamTypes, Size, BodyLength
<1>2. wire' \in Seq(Byte) /\ frame' \in SentFrame /\ left' \in 0..Size(frame')
  BY DEF StreamTypes, Size, BodyLength
<1>3. PICK w \in Seq(Byte), f \in SentFrame, l \in Nat :
          w = wire' /\ f = frame' /\ l = left' /\ l \in 0..Size(f)
  BY <1>1, <1>2 DEF Size, BodyLength
<1>4. /\ Coming' = BytesToCome(w, f, l) /\ ToCome' = Len(w) + l
      /\ Len(w) \in Nat /\ l \in Nat
  BY <1>1, <1>3 DEF Coming, ToCome, BytesToCome, Size, BodyLength
<1>5. /\ Coming' \in [1..ToCome' -> Byte]
      /\ \A i \in 1..Len(w) : Coming'[i] = w[i]
      /\ \A i \in 1..ToCome' :
           i > Len(w) => Coming'[i] = [of |-> f, at |-> Size(f) - l + (i - Len(w))]
  BY <1>3, <1>4, ToComeAreBytes
<1>6. ToCome' \in Nat /\ Len(wire') \in Nat /\ Len(wire') <= ToCome'
  BY <1>3, <1>4
<1>7. QED BY <1>3, <1>5, <1>6 DEF ComingFacts, Size, BodyLength

LEMMA PartOfFrame ==
    ASSUME NEW s \in Seq(Byte), NEW a \in Nat, NEW k \in Nat, a + k <= Len(s)
    PROVE  /\ SubSeq(s, a + 1, a + k) \in Seq(Byte) /\ Len(SubSeq(s, a + 1, a + k)) = k
           /\ \A i \in 1..k : SubSeq(s, a + 1, a + k)[i] = s[a + i]
<1>1. Len(SubSeq(s, a + 1, a + k)) = k
  OBVIOUS
<1>2. SubSeq(s, a + 1, a + k) \in Seq(Byte)
  OBVIOUS
<1>3. \A i \in 1..k : SubSeq(s, a + 1, a + k)[i] = s[a + i]
  OBVIOUS
<1>4. QED BY <1>1, <1>2, <1>3

-----------------------------------------------------------------------------
(* The three things that happen to the bytes to come. *)

(* They are handed to the connection: the same bytes are to come. *)
LEMMA HandingChangesNothing ==
    ASSUME StreamTypes, StreamTypes', NEW k \in Nat, Hands(k)
    PROVE  ToCome' = ToCome /\ \A i \in 1..ToCome : Coming'[i] = Coming[i]
<1> DEFINE from == Size(frame) - left
           part == SubSeq(Bytes(frame), from + 1, from + k)
<1>1. /\ Len(wire) \in Nat /\ left \in Nat /\ Size(frame) \in Nat /\ left <= Size(frame)
      /\ k \in 1..left /\ left' = left - k /\ frame' = frame /\ wire' = wire \o part
  <2>1. Len(wire) \in Nat /\ left \in Nat /\ Size(frame) \in Nat /\ left <= Size(frame)
    BY FrameFacts DEF StreamTypes
  <2>2. k \in 1..left /\ left' = left - k /\ frame' = frame /\ wire' = wire \o part
    BY Zenon DEF Hands
  <2>3. QED BY <2>1, <2>2
<1>2. Bytes(frame) \in Seq(Byte) /\ Len(Bytes(frame)) = Size(frame)
      /\ \A i \in 1..Size(frame) : Bytes(frame)[i] = [of |-> frame, at |-> i]
  BY BytesAreBytes DEF StreamTypes
<1>3. from \in Nat /\ k \in Nat /\ from + k <= Size(frame)
  <2>1. /\ left \in Nat /\ Size(frame) \in Nat /\ left <= Size(frame)
        /\ k \in Nat /\ k <= left
    BY <1>1
  <2>2. QED BY <2>1
<1>4. part \in Seq(Byte) /\ Len(part) = k /\ \A i \in 1..k : part[i] = Bytes(frame)[from + i]
  BY <1>2, <1>3, PartOfFrame
<1>5. ASSUME NEW i \in 1..k PROVE part[i] = [of |-> frame, at |-> from + i]
  <2>1. from + i \in 1..Size(frame)
    <3>1. Size(frame) \in Nat
      BY <1>1
    <3> HIDE DEF from
    <3>2. QED BY <1>3, <3>1
  <2> HIDE DEF from, part
  <2>2. QED BY <1>2, <1>4, <2>1
<1> HIDE DEF part, from
<1>6. Len(wire') = Len(wire) + k /\ (\A i \in 1..Len(wire) : wire'[i] = wire[i])
      /\ \A i \in 1..k : wire'[Len(wire) + i] = part[i]
  <2>1. wire \in Seq(Byte) /\ part \in Seq(Byte) /\ Len(part) = k /\ wire' = wire \o part
    BY <1>1, <1>4 DEF StreamTypes
  <2>2. QED BY <2>1, Joined
<1>7. ToCome' = ToCome /\ ToCome = Len(wire) + left
  BY <1>1, <1>6 DEF ToCome
<1>8. ASSUME NEW i \in 1..ToCome PROVE Coming'[i] = Coming[i]
  <2>1. i \in Nat /\ i >= 1 /\ i <= Len(wire) + left /\ i \in 1..ToCome'
    BY <1>1, <1>7
  <2>2. CASE i <= Len(wire)
    <3>1. i \in 1..Len(wire) /\ i \in 1..Len(wire')
      BY <1>1, <1>6, <2>1, <2>2
    <3>2. QED BY <1>6, <3>1, ComingNow, ComingThen DEF ComingFacts
  <2>3. CASE i > Len(wire) /\ i <= Len(wire) + k
    <3>1. i - Len(wire) \in 1..k /\ Len(wire) + (i - Len(wire)) = i /\ i \in 1..Len(wire')
      BY <1>1, <1>6, <2>1, <2>3
    <3>2. wire'[i] = [of |-> frame, at |-> from + (i - Len(wire))]
      BY <1>5, <1>6, <3>1
    <3>3. Coming'[i] = wire'[i]
      BY <3>1, ComingThen DEF ComingFacts
    <3>4. QED BY <2>3, <3>2, <3>3, ComingNow DEF from, ComingFacts
  <2>4. CASE i > Len(wire) + k
    <3>1. i > Len(wire') /\ i > Len(wire)
      BY <1>1, <1>6, <2>1, <2>4
    <3>2. Coming'[i] = [of |-> frame', at |-> Size(frame') - left' + (i - Len(wire'))]
      BY <2>1, <3>1, ComingThen DEF ComingFacts
    <3>3. Coming[i] = [of |-> frame, at |-> Size(frame) - left + (i - Len(wire))]
      BY <3>1, ComingNow DEF ComingFacts
    <3>4. Size(frame) - left' + (i - Len(wire')) = Size(frame) - left + (i - Len(wire))
      BY <1>1, <1>6, <2>1
    <3>5. QED BY <1>1, <3>2, <3>3, <3>4
  <2>5. QED BY <1>1, <2>1, <2>2, <2>3, <2>4
<1>9. QED BY <1>7, <1>8

(* A frame is begun: all of its bytes are to come, after the others. *)
LEMMA BeginningAddsAFrame ==
    ASSUME StreamTypes, StreamTypes', NEW f \in SentFrame, Begins(f)
    PROVE  /\ ToCome' = ToCome + Size(f)
           /\ \A i \in 1..ToCome : Coming'[i] = Coming[i]
           /\ \A i \in 1..Size(f) : Coming'[ToCome + i] = [of |-> f, at |-> i]
<1>1. /\ Len(wire) \in Nat /\ left = 0 /\ Size(f) \in Nat /\ wire' = wire /\ frame' = f
      /\ left' = Size(f)
  BY FrameFacts DEF StreamTypes, Begins, Writes, Size
<1>2. ToCome = Len(wire) /\ ToCome' = Len(wire) + Size(f)
  BY <1>1 DEF ToCome
<1>3. \A i \in 1..ToCome : Coming'[i] = Coming[i]
  BY <1>1, <1>2, ComingNow, ComingThen DEF ComingFacts
<1>4. ASSUME NEW i \in 1..Size(f) PROVE Coming'[ToCome + i] = [of |-> f, at |-> i]
  <2>1. PICK n \in Nat : n = ToCome + i
    BY <1>1, <1>2
  <2>2. n \in 1..ToCome' /\ n > Len(wire')
    BY <1>1, <1>2, <2>1
  <2>3. Coming'[n] = [of |-> frame', at |-> Size(frame') - left' + (n - Len(wire'))]
    BY <2>2, ComingThen DEF ComingFacts
  <2>4. Size(f) - left' + (n - Len(wire')) = i
    BY <1>1, <1>2, <2>1
  <2>5. QED BY <1>1, <2>1, <2>3, <2>4
<1>5. QED BY <1>2, <1>3, <1>4

(* The receiver takes the first ones. *)
LEMMA TakingShifts ==
    ASSUME StreamTypes, StreamTypes', NEW k, Takes(k)
    PROVE  /\ k \in Nat /\ k <= ToCome /\ ToCome' = ToCome - k
           /\ \A i \in 1..(ToCome - k) : Coming'[i] = Coming[i + k]
<1>1. /\ Len(wire) \in Nat /\ left \in Nat /\ Size(frame) \in Nat
      /\ k \in 0..Len(wire) /\ frame' = frame /\ left' = left
  BY FrameFacts DEF StreamTypes, Takes
<1>2. Len(wire') = Len(wire) - k /\ \A i \in 1..(Len(wire) - k) : wire'[i] = wire[i + k]
  BY Taken DEF StreamTypes, Takes
<1>3. ToCome' = ToCome - k /\ k <= ToCome /\ ToCome = Len(wire) + left
  BY <1>1, <1>2 DEF ToCome
<1>4. ASSUME NEW i \in 1..(ToCome - k) PROVE Coming'[i] = Coming[i + k]
  <2>1. PICK n \in Nat : n = i + k
    BY <1>1
  <2>2. i \in Nat /\ i >= 1 /\ n \in 1..ToCome /\ i \in 1..ToCome'
    BY <1>1, <1>3, <2>1
  <2>3. CASE n <= Len(wire)
    <3>1. n \in 1..Len(wire) /\ i \in 1..Len(wire') /\ i \in 1..(Len(wire) - k)
      BY <1>1, <1>2, <2>1, <2>2, <2>3
    <3>2. Coming'[i] = wire'[i] /\ Coming[n] = wire[n]
      BY <3>1, ComingNow, ComingThen DEF ComingFacts
    <3>3. QED BY <1>2, <2>1, <3>1, <3>2
  <2>4. CASE n > Len(wire)
    <3>1. i > Len(wire')
      BY <1>1, <1>2, <2>1, <2>2, <2>4
    <3>2. Coming'[i] = [of |-> frame', at |-> Size(frame') - left' + (i - Len(wire'))]
      BY <2>2, <3>1, ComingThen DEF ComingFacts
    <3>3. Coming[n] = [of |-> frame, at |-> Size(frame) - left + (n - Len(wire))]
      BY <2>2, <2>4, ComingNow DEF ComingFacts
    <3>4. Size(frame) - left + (i - Len(wire')) = Size(frame) - left + (n - Len(wire))
      BY <1>1, <1>2, <2>1
    <3>5. QED BY <1>1, <2>1, <3>2, <3>3, <3>4
  <2>5. QED BY <1>1, <2>2, <2>3, <2>4
<1>5. QED BY <1>1, <1>3, <1>4

(* The order of the bytes is kept by every step. *)
LEMMA OrderStays ==
    ASSUME StreamTypes, StreamTypes', [StreamNext]_streamVars, InOrder(Coming, ToCome)
    PROVE  InOrder(Coming, ToCome)'
<1>1. ComingFacts /\ ComingFacts'
  BY ComingNow, ComingThen
<1> USE DEF ComingFacts
<1> SUFFICES ASSUME NEW c, c = Coming, NEW n, n = ToCome, NEW d, d = Coming',
                    NEW m, m = ToCome', InOrder(c, n)
             PROVE  InOrder(d, m)
  BY DEF InOrder, Rest, Size, BodyLength
<1>2. n \in Nat /\ m \in Nat /\ c \in [1..n -> Byte] /\ d \in [1..m -> Byte]
  BY <1>1
<1>3. ASSUME n = m, \A i \in 1..n : d[i] = c[i] PROVE InOrder(d, m)
  <2>1. d = c
    BY <1>2, <1>3
  <2>2. QED BY <1>3, <2>1
<1>4. ASSUME NEW k, Takes(k) PROVE InOrder(d, m)
  <2>1. k \in 0..n /\ m = n - k /\ \A i \in 1..(n - k) : d[i] = c[i + k]
    BY <1>2, <1>4, TakingShifts
  <2>2. QED BY <1>2, <2>1, TakingKeepsOrder
<1>5. CASE SStep \/ SStop
  <2>1. ASSUME NEW f \in SentFrame, Begins(f) PROVE InOrder(d, m)
    <3>1. /\ m = n + Size(f) /\ \A i \in 1..n : d[i] = c[i]
          /\ \A i \in 1..Size(f) : d[n + i] = [of |-> f, at |-> i]
      BY <2>1, BeginningAddsAFrame
    <3>2. InOrder(d, n + Size(f))
      BY <1>2, <3>1, AFrameKeepsOrder
    <3>3. QED BY <3>1, <3>2
  <2>2. ASSUME NEW k \in Nat, Hands(k) PROVE InOrder(d, m)
    BY <1>3, <2>2, HandingChangesNothing
  <2>3. CASE Rests
    BY <2>3 DEF Rests, Coming, ToCome, BytesToCome, Size, BodyLength
  <2>4. QED BY <1>5, <2>1, <2>2, <2>3, SenderSteps
<1>6. CASE RRead
  BY <1>4, <1>6, ReadsTake
<1>7. CASE UNCHANGED <<frame, left, wire>>
  BY <1>7 DEF Coming, ToCome, BytesToCome, Size, BodyLength
<1>8. CASE RReceive \/ RCancel \/ RLost \/ Other \/ Cancel \/ UNCHANGED streamVars
  BY <1>7, <1>8 DEF RReceive, RCancel, RLost, Other, Cancel, streamVars, senderVars
<1>9. QED BY <1>5, <1>6, <1>8 DEF StreamNext

-----------------------------------------------------------------------------
(* The bytes of a length that have come are those of one frame. *)
LEMMA LengthIsExpected ==
    ASSUME StreamTypes, InOrder(Coming, ToCome), Expected(Coming, ToCome), toRead = 0,
           NEW k \in Nat, k >= 1, k <= Len(wire), k <= Prefix - Len(got)
    PROVE  \E f \in SentFrame :
              /\ Len(got \o SubSeq(wire, 1, k)) = Len(got) + k
              /\ \A i \in 1..(Len(got) + k) :
                   (got \o SubSeq(wire, 1, k))[i] = [of |-> f, at |-> i]
              /\ k < ToCome /\ Coming[k + 1] = [of |-> f, at |-> Len(got) + k + 1]
<1> DEFINE p == Len(got)
           part == SubSeq(wire, 1, k)
<1> SUFFICES ASSUME NEW c, c = Coming, NEW n, n = ToCome, InOrder(c, n), Expected(c, n)
             PROVE  \E f \in SentFrame :
                       /\ Len(got \o part) = p + k
                       /\ \A i \in 1..(p + k) : (got \o part)[i] = [of |-> f, at |-> i]
                       /\ k < n /\ c[k + 1] = [of |-> f, at |-> p + k + 1]
  OBVIOUS
<1>1. n \in Nat \ {0} /\ c \in [1..n -> Byte] /\ p \in Nat /\ got \in Seq(Byte) /\ Len(wire) \in Nat /\ Len(wire) <= n
      /\ \A i \in 1..Len(wire) : c[i] = wire[i]
  BY ComingNow DEF ComingFacts, StreamTypes
<1>2. PICK f \in SentFrame : c[1] = [of |-> f, at |-> p + 1] /\ (got # <<>> => f = got[1].of)
  <2>1. CASE got = <<>>
    <3>1. c[1] \in Byte /\ c[1].at = 1 /\ p = 0
      BY <1>1, <2>1 DEF Expected
    <3>2. c[1].of \in SentFrame /\ c[1] = [of |-> c[1].of, at |-> 0 + 1]
      BY <3>1 DEF Byte
    <3>3. QED BY <2>1, <3>1, <3>2
  <2>2. CASE got # <<>>
    <3>1. 1 \in 1..p
      BY <1>1, <2>2
    <3>2. got[1] \in Byte
      BY <1>1, <3>1
    <3>3. got[1].of \in SentFrame
      BY <3>2, RestIsNat
    <3>4. QED BY <1>1, <2>2, <3>3 DEF Expected
  <2>3. QED BY <2>1, <2>2
<1>3. Size(f) \in Nat /\ Size(f) > Prefix
  BY FrameFacts
<1> DEFINE l == Size(f)
<1>4. l - p <= n /\ \A i \in 1..(l - p) : c[i] = [of |-> f, at |-> p + i]
  <2> HIDE DEF p
  <2>1. QED BY <1>1, <1>2, RestFollows
<1>5. k \in 0..Len(wire)
  BY <1>1
<1>6. part \in Seq(Byte) /\ Len(part) = k /\ \A i \in 1..k : part[i] = wire[i]
  BY <1>5, FirstOnes DEF StreamTypes
<1> HIDE DEF part, l
<1>7. /\ Len(got \o part) = p + k
      /\ \A i \in 1..p : (got \o part)[i] = got[i]
      /\ \A i \in 1..k : (got \o part)[p + i] = part[i]
  BY <1>1, <1>6, Joined
<1>8. \A i \in 1..p : got[i] = [of |-> f, at |-> i]
  <2>1. ASSUME NEW i \in 1..p PROVE got # <<>>
    BY <1>1
  <2>2. QED BY <1>2, <2>1 DEF Expected
<1> HIDE DEF p
<1>9. l \in Nat /\ k < l - p
  BY <1>1, <1>3, PrefixAssumption DEF l, p
<1>10. ASSUME NEW i \in 1..(p + k) PROVE (got \o part)[i] = [of |-> f, at |-> i]
  <2>1. CASE i <= p
    BY <1>1, <1>7, <1>8, <2>1
  <2>2. CASE i > p
    <3>1. PICK j \in 1..k : i = p + j
      <4>1. i - p \in 1..k /\ i = p + (i - p)
        BY <1>1, <2>2
      <4>2. QED BY <4>1
    <3>2. j \in 1..(l - p) /\ j \in 1..Len(wire)
      BY <1>1, <1>9, <1>5
    <3>3. (got \o part)[i] = wire[j] /\ wire[j] = c[j]
      BY <1>1, <1>6, <1>7, <3>1, <3>2
    <3>4. c[j] = [of |-> f, at |-> p + j]
      BY <1>4, <3>2
    <3>5. QED BY <3>1, <3>3, <3>4
  <2>3. i <= p \/ i > p
    BY <1>1
  <2>4. QED BY <2>1, <2>2, <2>3
<1>11. k < n /\ c[k + 1] = [of |-> f, at |-> p + k + 1]
  <2>1. k + 1 \in 1..(l - p) /\ p + (k + 1) = p + k + 1
    BY <1>1, <1>9
  <2>2. QED BY <1>1, <1>4, <1>9, <2>1
<1>12. QED BY <1>7, <1>10, <1>11

(* What the receiver expects is what comes. *)
LEMMA ExpectedStays ==
    ASSUME StreamTypes, StreamTypes', [StreamNext]_streamVars, InPlaceUnlessCut, ~cut'
    PROVE  reading' # Garbage /\ Expected(Coming, ToCome)'
<1>1. ComingFacts /\ ComingFacts'
  BY ComingNow, ComingThen
<1> USE DEF ComingFacts
<1> SUFFICES ASSUME NEW c, c = Coming, NEW n, n = ToCome, NEW d, d = Coming',
                    NEW m, m = ToCome', InOrder(c, n)
             PROVE  reading' # Garbage /\ Expected(d, m)'
  BY DEF InPlaceUnlessCut, Expected, Size, BodyLength
<1>2. n \in Nat /\ m \in Nat /\ c \in [1..n -> Byte] /\ d \in [1..m -> Byte]
  BY <1>1
<1>3. ~cut
  BY DEF StreamNext, SStep, SStop, SReadAndSend, SSendLast, SFinish, SWrite, SLost, RRead,
         RReadPart, RReadLength, RReadBody, RReceive, RCancel, RLost, Other, Cancel,
         streamVars, receiverVars
<1>4. reading # Garbage /\ reading \in SentFrame /\ Expected(c, n)
  BY <1>3 DEF InPlaceUnlessCut, StreamTypes
<1>5. ASSUME UNCHANGED <<got, reading, toRead>>, m = n, \A i \in 1..n : d[i] = c[i]
      PROVE  reading' # Garbage /\ Expected(d, m)'
  <2>1. d = c
    BY <1>2, <1>5
  <2>2. QED BY <1>4, <1>5, <2>1 DEF Expected, Size, BodyLength
<1>6. CASE SStep \/ SStop
  <2>1. UNCHANGED <<got, reading, toRead>>
    BY <1>6, SenderSteps DEF receiverVars
  <2>2. ASSUME NEW f \in SentFrame, Begins(f) PROVE reading' # Garbage /\ Expected(d, m)'
    <3>1. /\ m = n + Size(f) /\ \A i \in 1..n : d[i] = c[i]
          /\ \A i \in 1..Size(f) : d[n + i] = [of |-> f, at |-> i]
      BY <2>2, BeginningAddsAFrame
    <3> DEFINE l == Size(f)
    <3>2. l \in Nat /\ l >= 1 /\ m = n + l
      BY <3>1, FrameFacts, PrefixAssumption
    <3> HIDE DEF l
    <3>3. CASE n > 0
      <4>1. 1 \in 1..n /\ m > 0
        BY <1>2, <3>2, <3>3
      <4>2. d[1] = c[1]
        BY <3>1, <4>1
      <4>3. QED BY <1>4, <2>1, <3>3, <4>1, <4>2 DEF Expected, Size, BodyLength
    <3>4. CASE n = 0
      <4>1. 1 \in 1..Size(f) /\ n + 1 = 1 /\ m > 0
        BY <1>2, <3>2, <3>4 DEF l
      <4>2. d[1] = [of |-> f, at |-> 1]
        BY <3>1, <4>1
      <4>3. d[1].at = 1 /\ got' = <<>> /\ toRead' = 0
        BY <1>4, <2>1, <3>4, <4>2 DEF Expected
      <4>4. QED BY <1>4, <2>1, <4>1, <4>3 DEF Expected
    <3>5. QED BY <1>2, <3>3, <3>4
  <2>3. ASSUME NEW k \in Nat, Hands(k) PROVE reading' # Garbage /\ Expected(d, m)'
    BY <1>5, <2>1, <2>3, HandingChangesNothing
  <2>4. CASE Rests
    BY <1>5, <2>1, <2>4 DEF Rests, Coming, ToCome, BytesToCome, Size, BodyLength
  <2>5. QED BY <1>6, <2>2, <2>3, <2>4, SenderSteps
<1>7. ASSUME NEW k \in 1..Prefix, RReadPart(k) PROVE reading' # Garbage /\ Expected(d, m)'
  <2>1. /\ k \in Nat /\ k >= 1 /\ k <= Len(wire) /\ k < Prefix - Len(got) /\ toRead = 0
        /\ got' = got \o SubSeq(wire, 1, k) /\ UNCHANGED <<reading, toRead>>
    BY <1>7, PrefixAssumption DEF RReadPart, Selecting
  <2>2. PICK f \in SentFrame :
            /\ Len(got') = Len(got) + k
            /\ \A i \in 1..(Len(got) + k) : got'[i] = [of |-> f, at |-> i]
            /\ k < n /\ c[k + 1] = [of |-> f, at |-> Len(got) + k + 1]
    <3>1. k <= Prefix - Len(got)
      BY <2>1, PrefixAssumption DEF StreamTypes
    <3>2. \E f \in SentFrame :
              /\ Len(got \o SubSeq(wire, 1, k)) = Len(got) + k
              /\ \A i \in 1..(Len(got) + k) :
                   (got \o SubSeq(wire, 1, k))[i] = [of |-> f, at |-> i]
              /\ k < n /\ c[k + 1] = [of |-> f, at |-> Len(got) + k + 1]
      BY <1>4, <2>1, <3>1, LengthIsExpected
    <3>3. QED BY <2>1, <3>2
  <2>3. m = n - k /\ \A i \in 1..(n - k) : d[i] = c[i + k]
    <3>1. Takes(k)
      BY <1>7, PrefixAssumption DEF RReadPart, Takes, senderVars, StreamTypes
    <3>2. QED BY <3>1, TakingShifts
  <2>4. m > 0 /\ d[1] = c[k + 1]
    BY <1>2, <2>1, <2>2, <2>3
  <2>5. Len(got') \in Nat /\ Len(got') >= 1 /\ got'[1].of = f /\ got' # <<>>
    <3>1. Len(got) \in Nat /\ got' \in Seq(Byte)
      BY DEF StreamTypes
    <3>2. 1 \in 1..(Len(got) + k)
      BY <2>1, <3>1
    <3>3. got'[1] = [of |-> f, at |-> 1]
      BY <2>2, <3>2
    <3>4. Len(got') \in Nat /\ Len(got') >= 1
      BY <2>1, <2>2, <3>1
    <3>5. got' # <<>>
      BY <3>4
    <3>6. QED BY <3>3, <3>4, <3>5
  <2>6. \A i \in 1..Len(got') : got'[i] = [of |-> got'[1].of, at |-> i]
    BY <2>2, <2>5
  <2>7. d[1] = [of |-> got'[1].of, at |-> Len(got') + 1]
    BY <2>2, <2>4, <2>5
  <2>8. toRead' = 0 /\ reading' # Garbage /\ got' # <<>> /\ m # 0 /\ ~(toRead' > 0)
    <3>1. toRead' = 0 /\ ~(toRead' > 0)
      BY <2>1
    <3>2. reading' # Garbage
      BY <1>4, <2>1
    <3>3. m # 0
      BY <2>4
    <3>4. QED BY <2>5, <3>1, <3>2, <3>3
  <2>9. Expected(d, m)'
    BY <2>6, <2>7, <2>8, Zenon DEF Expected
  <2>10. QED BY <2>8, <2>9
<1>8. CASE RReadLength
  <2> DEFINE k == Prefix - Len(got)
             length == got \o SubSeq(wire, 1, k)
  <2>1. /\ k \in Nat /\ k >= 1 /\ k <= Len(wire) /\ k <= Prefix - Len(got) /\ toRead = 0
        /\ Len(got) \in Nat /\ got' = <<>> /\ Takes(k)
    BY <1>8, PrefixAssumption DEF RReadLength, Selecting, Takes, senderVars, StreamTypes
  <2>2. PICK f \in SentFrame :
            /\ \A i \in 1..(Len(got) + k) : length[i] = [of |-> f, at |-> i]
            /\ k < n /\ c[k + 1] = [of |-> f, at |-> Len(got) + k + 1]
    <3> HIDE DEF k
    <3>1. \E f \in SentFrame :
              /\ Len(got \o SubSeq(wire, 1, k)) = Len(got) + k
              /\ \A i \in 1..(Len(got) + k) :
                   (got \o SubSeq(wire, 1, k))[i] = [of |-> f, at |-> i]
              /\ k < n /\ c[k + 1] = [of |-> f, at |-> Len(got) + k + 1]
      BY <1>4, <2>1, LengthIsExpected
    <3>2. QED BY <3>1
  <2>3. Len(got) + k = Prefix
    BY <2>1, PrefixAssumption
  <2>4. \A i \in 1..Prefix : length[i] = [of |-> f, at |-> i]
    BY <2>2, <2>3
  <2>5. length[1].of = f /\ Aligned(length)
    <3> HIDE DEF length
    <3>1. 1 \in 1..Prefix
      BY PrefixAssumption
    <3>2. length[1] = [of |-> f, at |-> 1]
      BY <2>4, <3>1
    <3>3. length[1].of = f
      BY <3>2
    <3>4. QED BY <2>4, <3>3 DEF Aligned
  <2>6. reading' = f /\ toRead' = BodyLength(f)
    BY <1>8, <2>5 DEF RReadLength
  <2>7. m = n - k /\ d[1] = c[k + 1] /\ m > 0
    <3>1. m = n - k /\ \A i \in 1..(n - k) : d[i] = c[i + k]
      BY <2>1, TakingShifts
    <3> HIDE DEF k
    <3>2. QED BY <1>2, <2>1, <2>2, <3>1
  <2>8. d[1] = [of |-> f, at |-> Prefix + 1]
    BY <2>2, <2>3, <2>7
  <2>9. f # Garbage /\ BodyLength(f) \in Nat /\ BodyLength(f) > 0
        /\ Size(f) - BodyLength(f) + 1 = Prefix + 1
    <3>1. f # Garbage /\ BodyLength(f) \in Nat \ {0}
      BY FrameFacts
    <3>2. QED BY <3>1, PrefixAssumption DEF Size
  <2> HIDE DEF k
  <2>10. QED BY <2>1, <2>6, <2>7, <2>8, <2>9 DEF Expected, Size, BodyLength
<1>9. ASSUME NEW k \in 1..Buffer, RReadBody(k) PROVE reading' # Garbage /\ Expected(d, m)'
  <2>1. /\ k \in Nat /\ k >= 1 /\ k <= Len(wire) /\ k <= toRead /\ toRead' = toRead - k
        /\ UNCHANGED <<got, reading>> /\ Takes(k) /\ toRead \in Nat /\ got = <<>>
    BY <1>9, BufferAssumption DEF RReadBody, Takes, senderVars, StreamTypes
  <2> DEFINE s == Size(reading)
             p == s - toRead
  <2>2. n > 0 /\ s \in Nat /\ c[1] = [of |-> reading, at |-> s - toRead + 1]
    <3>1. n > 0
      BY <1>1, <1>2, <2>1
    <3>2. QED BY <1>4, <2>1, <3>1, FrameFacts DEF Expected
  <2>3. p \in Nat /\ p + 1 = s - toRead + 1
    <3>1. c[1] \in Byte
      BY <1>2, <2>2
    <3>2. c[1].at = s - toRead + 1 /\ c[1].at >= 1
      BY <2>2, <3>1, RestIsNat
    <3> HIDE DEF s
    <3>3. QED BY <2>1, <2>2, <3>2
  <2>4. c[1] = [of |-> reading, at |-> p + 1]
    BY <2>2, <2>3
  <2>5. /\ s - p <= n /\ \A i \in 1..(s - p) : c[i] = [of |-> reading, at |-> p + i]
        /\ \A i \in 1..n : i = s - p + 1 => c[i].at = 1
    <3>1. n \in Nat \ {0}
      BY <1>2, <2>2
    <3> HIDE DEF p
    <3>2. /\ Size(reading) - p <= n
          /\ \A i \in 1..(Size(reading) - p) : c[i] = [of |-> reading, at |-> p + i]
          /\ \A i \in 1..n : i = Size(reading) - p + 1 => c[i].at = 1
      <4>1. reading \in SentFrame /\ c \in [1..n -> Byte] /\ p \in Nat /\ InOrder(c, n)
        BY <1>2, <1>4, <2>3
      <4> HIDE DEF s
      <4>2. QED BY <2>4, <3>1, <4>1, RestFollows
    <3>3. QED BY <3>2
  <2>6. s - p = toRead
    <3> HIDE DEF s
    <3>1. QED BY <2>1, <2>2
  <2>7. /\ toRead <= n /\ \A i \in 1..toRead : c[i] = [of |-> reading, at |-> p + i]
        /\ \A i \in 1..n : i = toRead + 1 => c[i].at = 1
    BY <2>5, <2>6
  <2>8. m = n - k /\ \A i \in 1..(n - k) : d[i] = c[i + k]
    BY <2>1, TakingShifts
  <2>9. m > 0 => d[1] = c[k + 1] /\ k + 1 \in 1..n
    BY <1>2, <2>1, <2>8
  <2>10. CASE k = toRead
    <3>1. toRead' = 0 /\ (m > 0 => d[1].at = 1)
      BY <2>1, <2>7, <2>9, <2>10
    <3>2. QED BY <1>4, <2>1, <3>1 DEF Expected
  <2>11. CASE k < toRead
    <3> HIDE DEF s
    <3>1. k + 1 \in 1..toRead /\ m > 0 /\ p + (k + 1) = s - (toRead - k) + 1
      BY <2>1, <2>2, <2>7, <2>8, <2>11, <1>2
    <3>2. d[1] = [of |-> reading, at |-> s - (toRead - k) + 1]
      BY <2>7, <2>9, <3>1
    <3>3. d[1] = [of |-> reading', at |-> Size(reading') - toRead' + 1]
      BY <2>1, <3>2 DEF s
    <3>4. QED BY <1>4, <2>1, <3>1, <3>3 DEF Expected, Size, BodyLength
  <2>12. QED BY <2>1, <2>10, <2>11
<1>10. CASE RReceive
  <2>1. got = <<>> /\ UNCHANGED <<got, reading, toRead, frame, left, wire>>
    BY <1>3, <1>10 DEF RReceive, senderVars
  <2>2. QED BY <1>5, <2>1 DEF Coming, ToCome, BytesToCome, Size, BodyLength
<1>11. CASE RCancel \/ RLost \/ Other \/ Cancel \/ UNCHANGED streamVars
  <2>1. UNCHANGED <<got, reading, toRead, frame, left, wire>>
    BY <1>11 DEF RCancel, RLost, Other, Cancel, streamVars, senderVars, receiverVars
  <2>2. QED BY <1>5, <2>1 DEF Coming, ToCome, BytesToCome, Size, BodyLength
<1>12. QED BY <1>6, <1>7, <1>8, <1>9, <1>10, <1>11 DEF StreamNext, RRead

LEMMA InPlaceStays == StreamSpec => []InPlaceUnlessCut
<1>1. StreamInit => InPlaceUnlessCut
  <2> SUFFICES ASSUME StreamInit PROVE InPlaceUnlessCut
    OBVIOUS
  <2>1. ToCome = 0 /\ Len(got) = 0 /\ reading # Garbage
    BY DEF StreamInit, ToCome, Disconnection, Garbage
  <2>2. QED BY <2>1 DEF StreamInit, InPlaceUnlessCut, InOrder, Expected
<1>2. StreamTypes /\ StreamTypes' /\ InPlaceUnlessCut /\ [StreamNext]_streamVars
      => InPlaceUnlessCut'
  BY OrderStays, ExpectedStays DEF InPlaceUnlessCut
<1>3. QED BY <1>1, <1>2, TypesStay, PTL DEF StreamSpec

(* The receiver takes other bytes for a length only after a message of the  *)
(* bus was received between two bytes of one.  The order of the bytes and   *)
(* that the receiver knows its place in it are kept by every other step.    *)
THEOREM OnlyACut == StreamSpec => []OnlyACutMisleads
<1>1. InPlaceUnlessCut => OnlyACutMisleads
  BY DEF InPlaceUnlessCut, OnlyACutMisleads
<1>2. QED BY <1>1, InPlaceStays, PTL

-----------------------------------------------------------------------------
(* The frames of a transfer in the order in which the sender writes them:   *)
(* chunk after chunk of the file, the last one, and the goodbye.            *)
Succeeds(f, g) ==
    \/ /\ f.kind = "Chunk" /\ g.kind \in {"Chunk", "Last"}
       /\ g.offset = f.offset + f.n
    \/ f.kind = "Last" /\ g = Disconnection

(* Where a frame ends in a sequence c of n bytes, the next one begins. *)
InSequence(c, n) ==
    \A i \in 1..n : i + Rest(c[i]) < n => Succeeds(c[i].of, c[i + Rest(c[i]) + 1].of)

(* The sender has not begun, or is at a frame that says how far it is. *)
Unbegun == frame = Disconnection /\ left = 0 /\ sent = 0 /\ sState # "Finished"
AtItsFrame ==
    /\ sState = "SendingFiles" =>
         Unbegun \/ (frame.kind \in {"Chunk", "Last"} /\ frame.offset + frame.n = sent)
    /\ sState = "Finished" => frame = Disconnection

(* The last byte to come is of the frame that the sender is at; that of the *)
(* goodbye come when it has finished.                                       *)
EndsAtItsFrame(c, n) ==
    /\ n > 0 => c[n].of = frame
    /\ \A i \in 1..n : c[i].of = Disconnection => sState # "SendingFiles"

(* What the receiver takes next has its place where the file ends so far;   *)
(* once it has the last chunk, nothing of that is left to write.            *)
NextIsInPlace(c, n) ==
    /\ rUp /\ n > 0 => c[1].of # Disconnection /\ c[1].of.offset = stored
    /\ rUp /\ n = 0 =>
         \/ Unbegun /\ stored = 0
         \/ frame.kind = "Chunk" /\ frame.offset + frame.n = stored
    /\ rState = "Finished" =>
         sState # "SendingFiles" \/ (frame = LastChunk /\ left = 0)

(* A transfer fails only when a message of the bus cuts a length, the user  *)
(* cancels it, or the sender is stopped: neither the receiver nor the       *)
(* sender comes to Disconnected otherwise, in whatever pieces the           *)
(* connection carries the frames and however short the file has become.     *)
Undisturbed == ~cut /\ rState # "Cancelled" /\ (sState = "SendingFiles" => sUp)
OnlyDisturbedFails ==
    Undisturbed => (rUp \/ rState = "Finished") /\ sState # "Disconnected"

FramesAreInSequence ==
    /\ InSequence(Coming, ToCome) /\ AtItsFrame /\ EndsAtItsFrame(Coming, ToCome)
    /\ rUp => rState = "ReceivingFiles"
    /\ ~cut => NextIsInPlace(Coming, ToCome)

LEMMA TakingKeepsSequence ==
    ASSUME NEW n \in Nat, NEW c \in [1..n -> Byte], InSequence(c, n), InOrder(c, n),
           NEW k \in 0..n, NEW d, \A i \in 1..(n - k) : d[i] = c[i + k]
    PROVE  InSequence(d, n - k)
<1> SUFFICES ASSUME NEW i \in 1..(n - k), i + Rest(d[i]) < n - k
             PROVE  Succeeds(d[i].of, d[i + Rest(d[i]) + 1].of)
  BY DEF InSequence
<1>1. PICK x \in 1..n : x = i + k
  OBVIOUS
<1>2. PICK r \in Nat : r = Rest(c[x])
  BY RestIsNat
<1>3. d[i] = c[x] /\ i + r < n - k
  BY <1>1, <1>2
<1>4. PICK j \in 1..(n - k) : j = i + r + 1
  BY <1>1, <1>3
<1>5. d[j] = c[j + k] /\ j + k = x + r + 1 /\ x + r < n
  BY <1>1, <1>3, <1>4
<1>6. Succeeds(c[x].of, c[x + r + 1].of)
  BY <1>2, <1>5 DEF InSequence
<1>7. QED BY <1>2, <1>3, <1>4, <1>5, <1>6

LEMMA AFrameKeepsSequence ==
    ASSUME NEW n \in Nat, NEW c \in [1..n -> Byte], InSequence(c, n), InOrder(c, n),
           NEW f \in SentFrame, n > 0 => Succeeds(c[n].of, f), NEW d,
           \A i \in 1..n : d[i] = c[i],
           \A i \in 1..Size(f) : d[n + i] = [of |-> f, at |-> i]
    PROVE  InSequence(d, n + Size(f))
<1>1. PICK l \in Nat : l = Size(f) /\ l >= 1
  BY FrameFacts, PrefixAssumption
<1> SUFFICES ASSUME NEW i \in 1..(n + l), i + Rest(d[i]) < n + l
             PROVE  Succeeds(d[i].of, d[i + Rest(d[i]) + 1].of)
  BY <1>1 DEF InSequence
<1>2. CASE i <= n
  <2>1. i \in 1..n /\ d[i] = c[i]
    BY <1>2
  <2>2. PICK r \in Nat : r = Rest(c[i]) /\ i + r <= n
    BY <2>1, RestIsNat DEF InOrder
  <2>3. CASE i + r < n
    <3>1. i + r + 1 \in 1..n
      BY <2>1, <2>2, <2>3
    <3>2. Succeeds(c[i].of, c[i + r + 1].of)
      BY <2>1, <2>2, <2>3 DEF InSequence
    <3>3. QED BY <2>1, <2>2, <3>1, <3>2
  <2>4. CASE i + r = n
    <3>1. r \in 0..r
      BY <2>2
    <3>2. c[i + r] = [of |-> c[i].of, at |-> c[i].at + r]
      BY <2>1, <2>2, <3>1 DEF InOrder
    <3>3. c[n].of = c[i].of
      BY <2>4, <3>2
    <3>4. 1 \in 1..Size(f) /\ n > 0
      BY <1>1, <2>1
    <3>5. d[n + 1] = [of |-> f, at |-> 1]
      BY <3>4
    <3>6. d[i + r + 1].of = f
      BY <2>4, <3>5
    <3>7. QED BY <2>1, <2>2, <3>3, <3>4, <3>6
  <2>5. QED BY <2>1, <2>2, <2>3, <2>4
<1>3. CASE i > n
  <2>1. PICK p \in 1..l : n + p = i
    <3>1. i - n \in 1..l /\ n + (i - n) = i
      BY <1>3
    <3>2. QED BY <3>1
  <2>2. d[i] = [of |-> f, at |-> p]
    BY <1>1, <2>1
  <2>3. Rest(d[i]) = l - p
    BY <1>1, <2>2 DEF Rest
  <2>4. QED BY <2>1, <2>3
<1>4. QED BY <1>2, <1>3

(* The bytes that the receiver takes of the first frame leave it the first. *)
LEMMA FirstFrameStays ==
    ASSUME NEW n \in Nat \ {0}, NEW c \in [1..n -> Byte], InOrder(c, n),
           NEW k \in Nat, k <= Rest(c[1]), NEW d, \A i \in 1..(n - k) : d[i] = c[i + k]
    PROVE  n - k > 0 /\ d[1].of = c[1].of
<1>1. 1 \in 1..n /\ c[1] \in Byte
  OBVIOUS
<1>2. PICK r \in Nat : r = Rest(c[1])
  BY <1>1, RestIsNat
<1>3. 1 + r <= n /\ k \in 0..r
  BY <1>1, <1>2 DEF InOrder
<1>4. c[1 + k] = [of |-> c[1].of, at |-> c[1].at + k]
  BY <1>1, <1>2, <1>3 DEF InOrder
<1>5. 1 \in 1..(n - k) /\ 1 + k \in 1..n
  BY <1>3
<1>6. d[1] = c[1 + k]
  BY <1>5
<1>7. QED BY <1>3, <1>4, <1>6

-----------------------------------------------------------------------------
(* What a step of the sender does to its frame, and the frame it begins. *)
NextFrame(g) ==
    /\ sState = "SendingFiles"
    /\ \/ Unbegun /\ g.kind = "Chunk" /\ g.offset = 0
       \/ Succeeds(frame, g)
    /\ g = Disconnection => sState' # "SendingFiles"

LEMMA SenderBegins ==
    ASSUME StreamTypes, AtItsFrame, NEW n \in 0..ReadBuffer,
           SReadAndSend(n) \/ SSendLast \/ SFinish
    PROVE  AtItsFrame' /\ \E g \in SentFrame : Begins(g) /\ NextFrame(g)
<1>1. n \in Nat /\ sent \in Nat /\ Total \in Nat /\ frame \in SentFrame /\ source \in Nat
  BY TotalAssumption, BufferAssumption DEF StreamTypes
<1>2. Unbegun \/ (frame.kind \in {"Chunk", "Last"} /\ frame.offset + frame.n = sent)
  BY DEF SReadAndSend, SSendLast, SFinish, AtItsFrame
<1>3. frame.kind = "Last" => frame.offset + frame.n = Total
  <2>1. LastChunk.offset + LastChunk.n = Total
    BY <1>1 DEF LastChunk
  <2>2. frame.kind = "Last" => frame = LastChunk
    BY <1>1, FrameFacts
  <2>3. QED BY <2>1, <2>2
<1>4. CASE SReadAndSend(n)
  <2> DEFINE g == Chunk(sent, n)
  <2>1. g \in SentFrame /\ g.kind = "Chunk" /\ g.offset = sent /\ g.n = n /\ g # Disconnection
    BY <1>1, FrameFacts DEF Chunk, Disconnection
  <2>2. Begins(g) /\ frame' = g /\ sent' = sent + n /\ sState = "SendingFiles" /\ sState' = sState
        /\ sent # Total
    BY <1>4, <2>1 DEF SReadAndSend, Begins, Writes
  <2>3. Unbegun => g.offset = 0
    BY <2>1 DEF Unbegun
  <2>4. ~Unbegun => Succeeds(frame, g)
    BY <1>2, <1>3, <2>1, <2>2 DEF Succeeds
  <2>5. AtItsFrame'
    BY <2>1, <2>2 DEF AtItsFrame
  <2>6. QED BY <2>1, <2>2, <2>3, <2>4, <2>5 DEF NextFrame
<1>5. CASE SSendLast
  <2> DEFINE g == LastChunk
  <2>1. g \in SentFrame /\ g.kind = "Last" /\ g.offset = Total /\ g.n = 0 /\ g # Disconnection
    BY FrameFacts DEF LastChunk, Disconnection
  <2>2. Begins(g) /\ frame' = g /\ sent' = sent /\ sState = "SendingFiles" /\ sState' = sState
        /\ sent = Total /\ frame.kind = "Chunk"
    BY <1>5, <2>1 DEF SSendLast, Begins, Writes
  <2>3. ~Unbegun
    BY <2>2 DEF Unbegun, Disconnection
  <2>4. Succeeds(frame, g)
    BY <1>2, <2>1, <2>2, <2>3 DEF Succeeds
  <2>5. AtItsFrame'
    BY <1>1, <2>1, <2>2 DEF AtItsFrame
  <2>6. QED BY <2>1, <2>2, <2>4, <2>5 DEF NextFrame
<1>6. CASE SFinish
  <2> DEFINE g == Disconnection
  <2>1. g \in SentFrame
    BY FrameFacts
  <2>2. Begins(g) /\ frame' = g /\ sState = "SendingFiles" /\ sState' = "Finished"
        /\ frame.kind = "Last"
    BY <1>6, <2>1 DEF SFinish, Begins, Writes
  <2>3. Succeeds(frame, g)
    BY <2>2 DEF Succeeds
  <2>4. QED BY <2>1, <2>2, <2>3 DEF NextFrame, AtItsFrame
<1>7. QED BY <1>4, <1>5, <1>6

LEMMA SenderHands ==
    ASSUME StreamTypes, AtItsFrame, NEW k \in 1..Buffer, SWrite(k)
    PROVE  AtItsFrame' /\ left > 0 /\ k \in Nat /\ Hands(k) /\ UNCHANGED <<sState, sent>>
<1>1. k \in Nat /\ k \in 1..left /\ left > 0 /\ Len(Bytes(frame)) = Size(frame)
  BY BufferAssumption, FrameFacts, BytesAreBytes DEF SWrite, StreamTypes
<1>2. Hands(k) /\ UNCHANGED <<sState, sent, frame>>
  BY <1>1 DEF SWrite, Hands
<1>3. ~Unbegun
  BY <1>1 DEF Unbegun
<1>4. QED BY <1>1, <1>2, <1>3 DEF AtItsFrame

LEMMA SenderEnds ==
    ASSUME AtItsFrame, SLost \/ SStop
    PROVE  /\ AtItsFrame' /\ UNCHANGED <<frame, left, wire, sent>>
           /\ Unbegun => Unbegun'
           /\ sState' = sState \/ sState' = "Disconnected"
BY DEF SLost, SStop, AtItsFrame, Unbegun

(* What the receiver takes for a length or of a body it takes of one frame. *)
LEMMA OfTheFirstFrame ==
    ASSUME StreamTypes, NEW n \in Nat \ {0}, NEW c \in [1..n -> Byte], Expected(c, n)
    PROVE  /\ toRead = 0 => Prefix - Len(got) <= Rest(c[1])
           /\ toRead > 0 => Rest(c[1]) = toRead - 1 /\ c[1].of = reading
<1>1. c[1] \in Byte /\ Len(got) \in Nat /\ toRead \in Nat /\ (toRead > 0 => got = <<>>)
      /\ (got = <<>> => Len(got) = 0)
  BY DEF StreamTypes
<1>2. PICK l \in Nat : l = Size(c[1].of) /\ l > Prefix
  BY <1>1, RestIsNat, FrameFacts
<1>3. Rest(c[1]) = l - c[1].at
  BY <1>2 DEF Rest
<1>4. CASE toRead = 0
  <2>1. c[1].at = Len(got) + 1
    BY <1>1, <1>4 DEF Expected
  <2>2. QED BY <1>1, <1>2, <1>3, <1>4, <2>1, PrefixAssumption
<1>5. CASE toRead > 0
  <2>1. c[1].of = reading /\ c[1].at = Size(reading) - toRead + 1
    BY <1>5 DEF Expected
  <2>2. QED BY <1>1, <1>2, <1>3, <1>5, <2>1
<1>6. QED BY <1>1, <1>4, <1>5

-----------------------------------------------------------------------------
(* The three things that happen to the bytes to come, once more: c and n    *)
(* are those before the step, d those after it.                             *)
LEMMA BeginningKeepsPlace ==
    ASSUME StreamTypes, NEW n \in Nat, NEW c \in [1..n -> Byte],
           InOrder(c, n), InSequence(c, n), EndsAtItsFrame(c, n),
           NEW g \in SentFrame, Begins(g), NextFrame(g), UNCHANGED <<rUp, rState, stored>>,
           NEW d, \A i \in 1..n : d[i] = c[i],
           \A i \in 1..Size(g) : d[n + i] = [of |-> g, at |-> i]
    PROVE  /\ InSequence(d, n + Size(g)) /\ EndsAtItsFrame(d, n + Size(g))'
           /\ NextIsInPlace(c, n) => NextIsInPlace(d, n + Size(g))'
<1>1. PICK l \in Nat : l = Size(g) /\ l >= 1
  BY FrameFacts, PrefixAssumption
<1>2. frame' = g /\ left = 0 /\ sState = "SendingFiles"
      /\ \/ Unbegun /\ g.kind = "Chunk" /\ g.offset = 0
         \/ Succeeds(frame, g)
      /\ (g = Disconnection => sState' # "SendingFiles")
  BY DEF Begins, Writes, NextFrame
<1>3. \A i \in 1..n : c[i].of # Disconnection
  BY <1>2 DEF EndsAtItsFrame
<1>4. n > 0 => c[n].of = frame /\ Succeeds(frame, g)
  <2>1. SUFFICES ASSUME n > 0 PROVE c[n].of = frame /\ Succeeds(frame, g)
    OBVIOUS
  <2>2. n \in 1..n
    BY <2>1
  <2>3. c[n].of = frame /\ c[n].of # Disconnection
    BY <1>3, <2>1, <2>2 DEF EndsAtItsFrame
  <2>4. QED BY <1>2, <2>3 DEF Unbegun
<1>5. InSequence(d, n + Size(g))
  BY <1>4, AFrameKeepsSequence
<1>6. EndsAtItsFrame(d, n + Size(g))'
  <2>1. l \in 1..Size(g) /\ n + l > 0
    BY <1>1
  <2>2. d[n + l] = [of |-> g, at |-> l]
    BY <2>1
  <2>3. d[n + l].of = frame'
    BY <1>2, <2>2
  <2>4. ASSUME NEW i \in 1..(n + l), d[i].of = Disconnection PROVE sState' # "SendingFiles"
    <3>1. CASE i <= n
      <4>1. i \in 1..n
        BY <3>1
      <4>2. QED BY <1>3, <2>4, <4>1
    <3>2. CASE i > n
      <4>1. PICK j \in 1..l : n + j = i
        <5>1. i - n \in 1..l /\ n + (i - n) = i
          BY <3>2
        <5>2. QED BY <5>1
      <4>2. d[i] = [of |-> g, at |-> j]
        BY <1>1, <4>1
      <4>3. QED BY <1>2, <2>4, <4>2
    <3>3. QED BY <3>1, <3>2
  <2>5. QED BY <1>1, <2>1, <2>3, <2>4 DEF EndsAtItsFrame
<1>7. ASSUME NextIsInPlace(c, n) PROVE NextIsInPlace(d, n + Size(g))'
  <2>1. n + l > 0 /\ n + l # 0
    BY <1>1
  <2>2. ASSUME rUp PROVE d[1].of # Disconnection /\ d[1].of.offset = stored
    <3>1. CASE n > 0
      <4>1. 1 \in 1..n
        BY <3>1
      <4>2. d[1] = c[1]
        BY <4>1
      <4>3. QED BY <1>7, <2>2, <3>1, <4>2 DEF NextIsInPlace
    <3>2. CASE n = 0
      <4>1. 1 \in 1..Size(g) /\ n + 1 = 1
        BY <1>1, <3>2
      <4>2. d[n + 1] = [of |-> g, at |-> 1]
        BY <4>1
      <4>3. d[1].of = g
        BY <4>1, <4>2
      <4>4. CASE Unbegun /\ stored = 0
        <5>1. ~Succeeds(frame, g)
          BY <4>4 DEF Unbegun, Succeeds, Disconnection
        <5>2. g.kind = "Chunk" /\ g.offset = 0
          BY <1>2, <5>1
        <5>3. QED BY <4>3, <4>4, <5>2 DEF Disconnection
      <4>5. CASE frame.kind = "Chunk" /\ frame.offset + frame.n = stored
        <5>1. g.kind \in {"Chunk", "Last"} /\ g.offset = stored
          BY <1>2, <4>5 DEF Unbegun, Succeeds, Disconnection
        <5>2. QED BY <4>3, <5>1 DEF Disconnection
      <4>6. QED BY <1>7, <2>2, <3>2, <4>4, <4>5 DEF NextIsInPlace
    <3>3. QED BY <3>1, <3>2
  <2>3. ASSUME rState = "Finished" PROVE sState' # "SendingFiles"
    <3>1. frame = LastChunk
      BY <1>2, <1>7, <2>3 DEF NextIsInPlace
    <3>2. Succeeds(frame, g) /\ frame.kind = "Last"
      BY <1>2, <3>1 DEF Unbegun, LastChunk, Disconnection
    <3>3. QED BY <1>2, <3>2 DEF Succeeds
  <2>4. QED BY <1>1, <2>1, <2>2, <2>3 DEF NextIsInPlace
<1>8. QED BY <1>5, <1>6, <1>7

LEMMA TakingKeepsFrames ==
    ASSUME NEW n \in Nat, NEW c \in [1..n -> Byte],
           InOrder(c, n), InSequence(c, n), EndsAtItsFrame(c, n),
           NEW k \in 0..n, NEW d, \A i \in 1..(n - k) : d[i] = c[i + k],
           UNCHANGED <<frame, sState>>
    PROVE  InSequence(d, n - k) /\ EndsAtItsFrame(d, n - k)'
<1>1. InSequence(d, n - k)
  BY TakingKeepsSequence
<1>2. PICK m \in Nat : m = n - k /\ m + k = n
  OBVIOUS
<1>3. m > 0 => d[m] = c[n]
  <2>1. SUFFICES ASSUME m > 0 PROVE d[m] = c[n]
    OBVIOUS
  <2>2. m \in 1..(n - k)
    BY <1>2, <2>1
  <2>3. QED BY <1>2, <2>2
<1>4. ASSUME NEW i \in 1..m, d[i].of = Disconnection PROVE sState # "SendingFiles"
  <2>1. PICK j \in 1..n : j = i + k
    BY <1>2
  <2>2. d[i] = c[j]
    BY <1>2, <2>1
  <2>3. QED BY <1>4, <2>2 DEF EndsAtItsFrame
<1>5. m > 0 => n > 0
  BY <1>2
<1>6. QED BY <1>1, <1>2, <1>3, <1>4, <1>5 DEF EndsAtItsFrame

(* The last part of a body is taken: it is handled, and the next frame is   *)
(* the one that follows it.                                                 *)
LEMMA HandlingKeepsPlace ==
    ASSUME StreamTypes, NEW n \in Nat \ {0}, NEW c \in [1..n -> Byte],
           InOrder(c, n), InSequence(c, n), EndsAtItsFrame(c, n), NextIsInPlace(c, n),
           Expected(c, n), NEW k \in Nat, k = toRead, k >= 1, k <= n,
           NEW d, \A i \in 1..(n - k) : d[i] = c[i + k],
           rUp, rState = "ReceivingFiles", reading \in SentFrame, ~cut, Handled(reading),
           UNCHANGED senderVars, left <= n - k
    PROVE  NextIsInPlace(d, n - k)' /\ (rUp' \/ rState' = "Finished")
<1> DEFINE f == reading
<1>2. Rest(c[1]) = k - 1 /\ c[1].of = f
  BY OfTheFirstFrame
<1>3. f # Disconnection /\ f.offset = stored
  BY <1>2 DEF NextIsInPlace
<1>4. InPlace(f)
  BY <1>3, FrameFacts DEF InPlace
<1>5. /\ stored' = stored + f.n
      /\ f.kind = "Last" => rState' = "Finished" /\ ~rUp'
      /\ f.kind # "Last" => rState' = "ReceivingFiles" /\ rUp'
  BY <1>4 DEF Handled
<1>6. 1 \in 1..n /\ 1 + Rest(c[1]) = k /\ k \in 1..n
  BY <1>2
<1>7. c[k].of = f
  <2>1. k - 1 \in 0..Rest(c[1]) /\ 1 + (k - 1) = k
    BY <1>2
  <2>2. c[1 + (k - 1)] = [of |-> c[1].of, at |-> c[1].at + (k - 1)]
    BY <1>6, <2>1 DEF InOrder
  <2>3. QED BY <1>2, <2>1, <2>2
<1>8. CASE k < n
  <2>1. Succeeds(f, c[k + 1].of)
    BY <1>2, <1>6, <1>8 DEF InSequence
  <2>2. 1 \in 1..(n - k) /\ 1 + k = k + 1 /\ k + 1 \in 1..n
    BY <1>8
  <2>3. d[1] = c[k + 1]
    BY <2>2
  <2>4. CASE f.kind = "Last"
    <3>1. c[k + 1].of = Disconnection
      BY <2>1, <2>4 DEF Succeeds
    <3>2. sState # "SendingFiles"
      BY <2>2, <3>1 DEF EndsAtItsFrame
    <3>3. QED BY <1>5, <2>4, <3>2 DEF NextIsInPlace, senderVars
  <2>5. CASE f.kind # "Last"
    <3>1. c[k + 1].of.kind \in {"Chunk", "Last"} /\ c[k + 1].of.offset = f.offset + f.n
      BY <2>1, <2>5 DEF Succeeds
    <3>2. d[1].of # Disconnection /\ d[1].of.offset = stored'
      BY <1>3, <1>5, <2>3, <3>1 DEF Disconnection
    <3>3. n - k > 0 /\ n - k # 0
      BY <1>8
    <3>4. rUp' /\ rState' # "Finished"
      BY <1>5, <2>5
    <3>5. QED BY <3>2, <3>3, <3>4 DEF NextIsInPlace
  <2>6. QED BY <2>4, <2>5
<1>9. CASE k = n
  <2>1. f = frame /\ n - k = 0 /\ left = 0
    <3>1. f = frame
      BY <1>7, <1>9 DEF EndsAtItsFrame
    <3>2. left \in Nat
      BY FrameFacts DEF StreamTypes
    <3>3. QED BY <1>9, <3>1, <3>2
  <2>2. CASE f.kind = "Last"
    <3>1. frame = LastChunk
      BY <2>1, <2>2, FrameFacts
    <3>2. QED BY <1>5, <2>1, <2>2, <3>1 DEF NextIsInPlace, senderVars
  <2>3. CASE f.kind # "Last"
    <3>1. f.kind = "Chunk"
      BY <1>3, <2>3 DEF SentFrame, Chunk, LastChunk
    <3>2. frame'.kind = "Chunk" /\ frame'.offset + frame'.n = stored'
      BY <1>3, <1>5, <2>1, <3>1 DEF senderVars
    <3>3. rUp' /\ rState' # "Finished" /\ ~(n - k > 0)
      BY <1>5, <2>1, <2>3
    <3>4. QED BY <2>1, <3>2, <3>3 DEF NextIsInPlace
  <2>4. QED BY <2>2, <2>3
<1>10. QED BY <1>6, <1>8, <1>9

(* Every step keeps the frames in sequence, and no step of the receiver     *)
(* fails but one that loses the connection or obeys the user.               *)
ReceiverFails == rUp /\ ~rUp' /\ rState' # "Finished"

LEMMA SequenceStays ==
    ASSUME StreamTypes, StreamTypes', InPlaceUnlessCut, InPlaceUnlessCut', FramesAreInSequence,
           [StreamNext]_streamVars
    PROVE  /\ FramesAreInSequence'
           /\ ~cut' /\ ReceiverFails => RCancel \/ RLost
<1>1. ComingFacts /\ ComingFacts'
  BY ComingNow, ComingThen
<1>2. PICK c, n : c = Coming /\ n = ToCome
  OBVIOUS
<1>3. PICK d, m : d = Coming' /\ m = ToCome'
  OBVIOUS
<1>4. /\ n \in Nat /\ m \in Nat /\ c \in [1..n -> Byte] /\ d \in [1..m -> Byte]
      /\ InOrder(c, n) /\ InSequence(c, n) /\ AtItsFrame /\ EndsAtItsFrame(c, n)
      /\ rUp => rState = "ReceivingFiles"
  BY <1>1, <1>2, <1>3 DEF ComingFacts, InPlaceUnlessCut, FramesAreInSequence
<1>5. ~cut' => ~cut /\ reading # Garbage /\ reading' # Garbage
               /\ Expected(c, n) /\ NextIsInPlace(c, n)
  <2>1. ~cut' => ~cut
    BY DEF StreamNext, SStep, SStop, SReadAndSend, SSendLast, SFinish, SWrite, SLost, RRead,
           RReadPart, RReadLength, RReadBody, RReceive, RCancel, RLost, Other, Cancel,
           streamVars, receiverVars
  <2>2. ~cut => reading # Garbage /\ Expected(c, n) /\ NextIsInPlace(c, n)
    BY <1>2 DEF InPlaceUnlessCut, FramesAreInSequence
  <2>3. ~cut' => reading' # Garbage
    BY DEF InPlaceUnlessCut
  <2>4. QED BY <2>1, <2>2, <2>3
<1>6. ASSUME InSequence(d, m), AtItsFrame', EndsAtItsFrame(d, m)',
             rUp' => rState' = "ReceivingFiles", ~cut' => NextIsInPlace(d, m)'
      PROVE  FramesAreInSequence'
  <2>1. InSequence(Coming, ToCome)' <=> InSequence(d, m)
    BY <1>3 DEF InSequence, Rest, Size, BodyLength, Succeeds, Disconnection
  <2>2. EndsAtItsFrame(Coming, ToCome)' <=> EndsAtItsFrame(d, m)'
    BY <1>3 DEF EndsAtItsFrame, Disconnection
  <2>3. NextIsInPlace(Coming, ToCome)' <=> NextIsInPlace(d, m)'
    BY <1>3 DEF NextIsInPlace, Disconnection, LastChunk
  <2>4. QED BY <1>6, <2>1, <2>2, <2>3 DEF FramesAreInSequence
<1>7. ASSUME NEW k, Takes(k)
       PROVE  k \in 0..n /\ n - k = m /\ \A i \in 1..(n - k) : d[i] = c[i + k]
  <2>1. /\ k \in Nat /\ k <= ToCome /\ ToCome' = ToCome - k
        /\ \A i \in 1..(ToCome - k) : Coming'[i] = Coming[i + k]
    BY <1>7, TakingShifts
  <2>2. k \in Nat /\ k <= n /\ m = n - k
    BY <1>2, <1>3, <2>1
  <2>3. \A i \in 1..(n - k) : d[i] = c[i + k]
    BY <1>2, <1>3, <2>1
  <2>4. QED BY <1>4, <2>2, <2>3
<1>8. ASSUME UNCHANGED <<frame, left, wire>> PROVE d = c /\ m = n
  <2>1. Coming' = Coming /\ ToCome' = ToCome
    BY <1>8 DEF Coming, ToCome, BytesToCome, Size, BodyLength
  <2>2. QED BY <1>2, <1>3, <2>1
<1> DEFINE Goal == FramesAreInSequence' /\ (~cut' /\ ReceiverFails => RCancel \/ RLost)
<1>9. ASSUME NEW x \in 0..ReadBuffer, SReadAndSend(x) \/ SSendLast \/ SFinish
      PROVE  Goal
  <2>1. AtItsFrame' /\ UNCHANGED receiverVars
    BY <1>4, <1>9, SenderBegins DEF SReadAndSend, SSendLast, SFinish
  <2>2. PICK g \in SentFrame : Begins(g) /\ NextFrame(g)
    BY <1>4, <1>9, SenderBegins
  <2>3. /\ m = n + Size(g) /\ \A i \in 1..n : d[i] = c[i]
        /\ \A i \in 1..Size(g) : d[n + i] = [of |-> g, at |-> i]
    BY <1>2, <1>3, <2>2, BeginningAddsAFrame
  <2>4. /\ InSequence(d, m) /\ EndsAtItsFrame(d, m)'
        /\ NextIsInPlace(c, n) => NextIsInPlace(d, m)'
    <3>1. UNCHANGED <<rUp, rState, stored>>
      BY <2>1 DEF receiverVars
    <3>2. /\ InSequence(d, n + Size(g)) /\ EndsAtItsFrame(d, n + Size(g))'
          /\ NextIsInPlace(c, n) => NextIsInPlace(d, n + Size(g))'
      BY <1>4, <2>2, <2>3, <3>1, BeginningKeepsPlace
    <3>3. QED BY <2>3, <3>2 DEF Size, BodyLength
  <2>5. QED BY <1>4, <1>5, <1>6, <2>1, <2>4 DEF receiverVars, ReceiverFails
<1>10. ASSUME d = c, m = n, UNCHANGED <<frame, left, sent, rUp, rState, stored>>, AtItsFrame',
             Unbegun => Unbegun', sState' = sState \/ sState' = "Disconnected"
      PROVE  Goal
  <2>1. InSequence(d, m) /\ EndsAtItsFrame(d, m)'
    BY <1>4, <1>10 DEF EndsAtItsFrame
  <2>2. NextIsInPlace(c, n) => NextIsInPlace(d, m)'
    BY <1>10 DEF NextIsInPlace
  <2>3. QED BY <1>4, <1>5, <1>6, <1>10, <2>1, <2>2 DEF ReceiverFails
<1>11. ASSUME NEW k \in 1..Buffer, SWrite(k) PROVE Goal
  <2>1. AtItsFrame' /\ left > 0 /\ k \in Nat /\ Hands(k) /\ UNCHANGED <<sState, sent>>
    BY <1>4, <1>11, SenderHands
  <2>2. m = n /\ \A i \in 1..n : d[i] = c[i]
    BY <1>2, <1>3, <2>1, HandingChangesNothing
  <2>3. d = c
    BY <1>4, <2>2
  <2>4. UNCHANGED <<frame, rUp, rState, stored>>
    BY <1>11 DEF SWrite, receiverVars
  <2>5. InSequence(d, m) /\ EndsAtItsFrame(d, m)'
    BY <1>4, <2>1, <2>2, <2>3, <2>4 DEF EndsAtItsFrame
  <2>6. n > 0 /\ n # 0 /\ left # 0
    <3>1. left \in Nat /\ n = Len(wire) + left /\ Len(wire) \in Nat
      BY <1>1, <1>2, FrameFacts DEF ComingFacts, ToCome, StreamTypes
    <3>2. QED BY <2>1, <3>1
  <2>7. NextIsInPlace(c, n) => NextIsInPlace(d, m)'
    BY <2>1, <2>2, <2>3, <2>4, <2>6 DEF NextIsInPlace
  <2>8. QED BY <1>4, <1>5, <1>6, <2>1, <2>4, <2>5, <2>7 DEF ReceiverFails
<1>12. CASE SLost \/ SStop
  <2>1. /\ AtItsFrame' /\ UNCHANGED <<frame, left, wire, sent>>
        /\ Unbegun => Unbegun'
        /\ sState' = sState \/ sState' = "Disconnected"
    BY <1>4, <1>12, SenderEnds
  <2>2. UNCHANGED <<rUp, rState, stored>>
    BY <1>12 DEF SLost, SStop, receiverVars
  <2>3. d = c /\ m = n
    <3>1. UNCHANGED <<frame, left, wire>>
      BY <2>1
    <3>2. QED BY <1>8, <3>1
  <2>4. UNCHANGED <<frame, left, sent, rUp, rState, stored>>
    BY <2>1, <2>2
  <2>5. QED BY <1>10, <2>1, <2>3, <2>4
<1>13. ASSUME UNCHANGED senderVars
       PROVE  AtItsFrame' /\ (Unbegun <=> Unbegun') /\ UNCHANGED <<frame, left, sent, sState>>
  BY <1>4, <1>13 DEF AtItsFrame, Unbegun, senderVars
<1>14. ASSUME NEW k \in Nat, Takes(k), UNCHANGED senderVars, rUp' => rState' = "ReceivingFiles",
              ~cut' => NextIsInPlace(d, n - k)'
       PROVE  FramesAreInSequence'
  <2>1. k \in 0..n /\ n - k = m /\ \A i \in 1..(n - k) : d[i] = c[i + k]
    BY <1>14, <1>7
  <2>2. InSequence(d, n - k) /\ EndsAtItsFrame(d, n - k)'
    BY <1>4, <1>13, <1>14, <2>1, TakingKeepsFrames
  <2>3. QED BY <1>6, <1>13, <1>14, <2>1, <2>2
<1>15. ASSUME NEW k \in Nat, k >= 1, Takes(k), UNCHANGED <<senderVars, rUp, rState, stored>>,
              ~cut' => k <= Rest(c[1])
       PROVE  Goal
  <2>1. k \in 0..n /\ n - k = m /\ \A i \in 1..(n - k) : d[i] = c[i + k]
    BY <1>15, <1>7
  <2>2. ASSUME ~cut' PROVE NextIsInPlace(d, n - k)'
    <3>1. n > 0 /\ n - k > 0 /\ d[1].of = c[1].of
      <4>1. n \in Nat \ {0} /\ k <= Rest(c[1])
        BY <1>4, <1>15, <2>1, <2>2
      <4>2. n - k > 0 /\ d[1].of = c[1].of
        BY <1>4, <1>15, <2>1, <4>1, FirstFrameStays
      <4>3. QED BY <4>1, <4>2
    <3>2. QED BY <1>5, <1>13, <1>15, <2>2, <3>1 DEF NextIsInPlace
  <2>3. QED BY <1>4, <1>14, <1>15, <2>2 DEF ReceiverFails
<1>16. ASSUME ~cut', n > 0
       PROVE  /\ toRead = 0 => Prefix - Len(got) <= Rest(c[1])
              /\ toRead > 0 => Rest(c[1]) = toRead - 1 /\ c[1].of = reading
  BY <1>4, <1>5, <1>16, OfTheFirstFrame
<1>17. ASSUME NEW k \in 1..Prefix, RReadPart(k) PROVE Goal
  <2>1. /\ k \in Nat /\ k >= 1 /\ Takes(k) /\ toRead = 0 /\ k < Prefix - Len(got)
        /\ UNCHANGED <<senderVars, rUp, rState, stored>>
    BY <1>17, PrefixAssumption DEF RReadPart, Selecting, Takes, senderVars, StreamTypes
  <2>2. n > 0 /\ Len(got) \in Nat
    <3>1. Len(got) \in Nat
      BY <1>4 DEF StreamTypes
    <3>2. n > 0
      BY <1>4, <1>7, <2>1
    <3>3. QED BY <3>1, <3>2
  <2>3. ASSUME ~cut' PROVE k <= Rest(c[1])
    <3>1. Prefix - Len(got) <= Rest(c[1])
      BY <1>16, <2>1, <2>2, <2>3
    <3>2. Rest(c[1]) \in Nat
      BY <1>4, <2>2, RestIsNat
    <3>3. QED BY <2>1, <2>2, <3>1, <3>2, PrefixAssumption
  <2>4. QED BY <1>15, <2>1, <2>3
<1>18. CASE RReadLength
  <2>1. PICK k \in Nat : k = Prefix - Len(got) /\ k >= 1
    <3>1. Prefix - Len(got) \in Nat /\ Prefix - Len(got) >= 1
      BY PrefixAssumption DEF StreamTypes
    <3>2. QED BY <3>1
  <2>2. Takes(k) /\ toRead = 0 /\ rUp /\ UNCHANGED <<senderVars, stored>>
    BY <1>18, <2>1 DEF RReadLength, Selecting, Takes, senderVars, StreamTypes
  <2>3. n > 0
    BY <1>4, <1>7, <2>1, <2>2
  <2>4. CASE UNCHANGED <<rUp, rState>>
    <3>1. ~cut' => k <= Rest(c[1])
      BY <1>16, <2>1, <2>2, <2>3
    <3>2. QED BY <1>15, <2>1, <2>2, <2>4, <3>1
  <2>5. CASE ~UNCHANGED <<rUp, rState>>
    <3>1. reading' = Garbage /\ ~rUp'
      BY <1>18, <2>5 DEF RReadLength
    <3>2. cut'
      BY <1>5, <3>1
    <3>3. QED BY <1>14, <2>2, <3>1, <3>2
  <2>6. QED BY <2>4, <2>5
<1>19. ASSUME NEW k \in 1..Buffer, RReadBody(k) PROVE Goal
  <2>1. /\ k \in Nat /\ k >= 1 /\ k <= toRead /\ toRead \in Nat /\ toRead > 0 /\ rUp
        /\ Takes(k) /\ UNCHANGED <<senderVars, cut>>
    BY <1>19, BufferAssumption DEF RReadBody, Takes, senderVars, StreamTypes
  <2>2. n > 0 /\ k <= n /\ m = n - k /\ \A i \in 1..(n - k) : d[i] = c[i + k]
    <3>1. k \in 0..n /\ n - k = m /\ \A i \in 1..(n - k) : d[i] = c[i + k]
      BY <1>7, <2>1
    <3>2. n > 0 /\ k <= n
      BY <1>4, <2>1, <3>1
    <3>3. QED BY <3>1, <3>2
  <2>3. CASE k < toRead
    <3>1. UNCHANGED <<rUp, rState, stored>>
      <4>1. toRead # k
        BY <2>1, <2>3
      <4>2. QED BY <1>19, <4>1 DEF RReadBody
    <3>2. ~cut' => k <= Rest(c[1])
      BY <1>16, <2>1, <2>2, <2>3
    <3>3. QED BY <1>15, <2>1, <3>1, <3>2
  <2>4. CASE k = toRead
    <3>1. Handled(reading)
      BY <1>19, <2>4 DEF RReadBody
    <3>2. rUp' => rState' = "ReceivingFiles"
      BY <1>4, <2>1, <3>1 DEF Handled
    <3>3. ASSUME ~cut' PROVE NextIsInPlace(d, n - k)' /\ (rUp' \/ rState' = "Finished")
      <4>1. left <= n - k
        <5>1. left' \in Nat /\ m = Len(wire') + left' /\ Len(wire') \in Nat /\ left' = left
          BY <1>1, <1>3, <1>13, <2>1, FrameFacts DEF ComingFacts, ToCome, StreamTypes
        <5>2. QED BY <2>2, <5>1
      <4>2. reading \in SentFrame /\ n \in Nat \ {0} /\ rState = "ReceivingFiles"
        BY <1>4, <1>5, <2>1, <2>2, <3>3 DEF StreamTypes
      <4>3. ~cut /\ Expected(c, n) /\ NextIsInPlace(c, n)
        BY <1>5, <3>3
      <4>4. QED BY <1>4, <2>1, <2>2, <2>4, <3>1, <4>1, <4>2, <4>3, HandlingKeepsPlace
    <3>4. QED BY <1>14, <2>1, <3>2, <3>3 DEF ReceiverFails
  <2>5. QED BY <2>1, <2>3, <2>4
<1>20. CASE RCancel \/ RLost
  <2>1. d = c /\ m = n /\ UNCHANGED senderVars /\ ~rUp' /\ rState' # "Finished"
    BY <1>20, <1>8 DEF RCancel, RLost, senderVars
  <2>2. InSequence(d, m) /\ EndsAtItsFrame(d, m)'
    BY <1>4, <1>13, <2>1 DEF EndsAtItsFrame
  <2>3. NextIsInPlace(d, m)'
    BY <2>1 DEF NextIsInPlace
  <2>4. QED BY <1>6, <1>13, <1>20, <2>1, <2>2, <2>3
<1>21. CASE RReceive \/ Other \/ Cancel \/ UNCHANGED streamVars
  <2>1. d = c /\ m = n /\ UNCHANGED senderVars /\ UNCHANGED <<rUp, rState, stored>>
    BY <1>21, <1>8 DEF RReceive, Other, Cancel, streamVars, senderVars, receiverVars
  <2>2. QED BY <1>10, <1>13, <2>1
<1>22. QED
  <2>1. SStep => \/ \E x \in 0..ReadBuffer : SReadAndSend(x) \/ SSendLast \/ SFinish
                 \/ \E k \in 1..Buffer : SWrite(k)
                 \/ SLost
    BY BufferAssumption DEF SStep
  <2>2. CASE SStep
    BY <1>9, <1>11, <1>12, <2>1, <2>2
  <2>3. CASE RRead
    BY <1>17, <1>18, <1>19, <2>3 DEF RRead
  <2>4. QED BY <1>12, <1>20, <1>21, <2>2, <2>3 DEF StreamNext

(* Why a step to a state that nothing has disturbed fails no one.           *)
LEMMA ReceiverIsLeft ==
    ASSUME StreamTypes, InPlaceUnlessCut, FramesAreInSequence, Undisturbed,
           sState \in {"SendingFiles", "Finished"}, RLost
    PROVE  FALSE
<1>1. ComingFacts
  BY ComingNow
<1>2. PICK c, n : c = Coming /\ n = ToCome
  OBVIOUS
<1>3. /\ n \in Nat /\ c \in [1..n -> Byte] /\ EndsAtItsFrame(c, n) /\ InOrder(c, n)
      /\ NextIsInPlace(c, n) /\ AtItsFrame
  BY <1>1, <1>2 DEF ComingFacts, InPlaceUnlessCut, FramesAreInSequence, Undisturbed
<1>4. rUp /\ sState # "SendingFiles"
  BY DEF RLost, Undisturbed
<1>5. sState = "Finished" /\ frame = Disconnection
  BY <1>3, <1>4 DEF AtItsFrame
<1>6. CASE n = 0
  BY <1>3, <1>4, <1>5, <1>6 DEF NextIsInPlace, Unbegun, Disconnection
<1>7. CASE n > 0
  <2>1. Len(wire) = 0 /\ n = left /\ left \in 0..Size(frame)
    BY <1>1, <1>2, FrameFacts DEF ComingFacts, ToCome, StreamTypes, RLost
  <2>2. Coming = BytesToCome(wire, frame, left)
    BY DEF Coming
  <2>3. 1 \in 1..(Len(wire) + left) /\ 1 > Len(wire)
    BY <1>3, <1>7, <2>1
  <2>4. \A i \in 1..(Len(wire) + left) :
          i > Len(wire) => BytesToCome(wire, frame, left)[i] =
                             [of |-> frame, at |-> Size(frame) - left + (i - Len(wire))]
    BY ToComeAreBytes DEF StreamTypes
  <2>5. c[1] = [of |-> frame, at |-> Size(frame) - left + (1 - Len(wire))]
    BY <1>2, <2>2, <2>3, <2>4
  <2>6. QED BY <1>3, <1>4, <1>5, <1>7, <2>5 DEF NextIsInPlace
<1>8. QED BY <1>3, <1>6, <1>7

LEMMA SenderIsHeard ==
    ASSUME StreamTypes, FramesAreInSequence, ~cut, rState = "Finished", SLost
    PROVE  sState # "SendingFiles"
<1>1. NextIsInPlace(Coming, ToCome)
  BY DEF FramesAreInSequence
<1>2. left \in Nat /\ (left > 0 => left # 0)
  BY FrameFacts DEF StreamTypes
<1>3. QED BY <1>1, <1>2 DEF NextIsInPlace, SLost

TransferInv ==
    /\ FramesAreInSequence /\ OnlyDisturbedFails
    /\ sState \in {"SendingFiles", "Finished", "Disconnected"}
    /\ sState = "Disconnected" => ~sUp

LEMMA TransferStays == StreamSpec => []TransferInv
<1>1. StreamInit => TransferInv
  <2> SUFFICES ASSUME StreamInit PROVE TransferInv
    OBVIOUS
  <2>1. ToCome = 0
    BY DEF StreamInit, ToCome
  <2>2. PICK c, n : c = Coming /\ n = ToCome /\ n = 0
    BY <2>1
  <2>3. InSequence(c, n) /\ EndsAtItsFrame(c, n)
    BY <2>2 DEF InSequence, EndsAtItsFrame
  <2>4. NextIsInPlace(c, n) /\ AtItsFrame
    BY <2>2 DEF StreamInit, NextIsInPlace, Unbegun, AtItsFrame
  <2>5. FramesAreInSequence
    BY <2>2, <2>3, <2>4 DEF FramesAreInSequence, StreamInit
  <2>6. QED BY <2>5 DEF StreamInit, OnlyDisturbedFails, TransferInv
<1>2. StreamTypes /\ StreamTypes' /\ InPlaceUnlessCut /\ InPlaceUnlessCut'
      /\ TransferInv /\ [StreamNext]_streamVars => TransferInv'
  <2> SUFFICES ASSUME StreamTypes, StreamTypes', InPlaceUnlessCut, InPlaceUnlessCut',
                      TransferInv, [StreamNext]_streamVars
               PROVE  TransferInv'
    OBVIOUS
  <2>1. /\ FramesAreInSequence /\ OnlyDisturbedFails
        /\ sState \in {"SendingFiles", "Finished", "Disconnected"}
        /\ sState = "Disconnected" => ~sUp
    BY DEF TransferInv
  <2>2. FramesAreInSequence' /\ (~cut' /\ ReceiverFails => RCancel \/ RLost)
    BY <2>1, SequenceStays
  <2>3. ~cut' => ~cut
    BY DEF StreamNext, SStep, SStop, SReadAndSend, SSendLast, SFinish, SWrite, SLost, RRead,
           RReadPart, RReadLength, RReadBody, RReceive, RCancel, RLost, Other, Cancel,
           streamVars, receiverVars
  <2>4. sUp' => sUp
    BY DEF StreamNext, SStep, SStop, SReadAndSend, SSendLast, SFinish, SWrite, SLost, RRead,
           RReadPart, RReadLength, RReadBody, RReceive, RCancel, RLost, Other, Cancel,
           streamVars, senderVars
  <2>5. ~rUp => ~rUp' /\ rState' = rState
    BY DEF StreamNext, SStep, SStop, SReadAndSend, SSendLast, SFinish, SWrite, SLost, RRead,
           RReadPart, RReadLength, RReadBody, RReceive, RCancel, RLost, Other, Cancel,
           streamVars, receiverVars, Selecting
  <2>6. (~cut' => ~cut) /\ (sUp' => sUp) /\ (~rUp => ~rUp' /\ rState' = rState)
    BY <2>3, <2>4, <2>5
  <2>7. sState' = sState \/ SFinish \/ SLost
    BY DEF StreamNext, SStep, SStop, SReadAndSend, SSendLast, SWrite, RRead, RReadPart,
           RReadLength, RReadBody, RReceive, RCancel, RLost, Other, Cancel, streamVars,
           senderVars
  <2>8. /\ sState' \in {"SendingFiles", "Finished", "Disconnected"}
        /\ \/ sState' # "Disconnected"
           \/ sState = "Disconnected"
           \/ SLost /\ sState = "SendingFiles"
    BY <2>7, <2>1 DEF SFinish, SLost
  <2>9. sState' = "Disconnected" => ~sUp'
    BY <2>6, <2>7, <2>1 DEF SFinish, SLost
  <2>10. ASSUME Undisturbed' PROVE OnlyDisturbedFails'
    <3>1. Undisturbed
      <4>1. rState # "Cancelled"
        <5>1. rUp => rState = "ReceivingFiles"
          BY <2>1 DEF FramesAreInSequence
        <5>2. QED BY <2>6, <2>10, <5>1 DEF Undisturbed
      <4>2. sState = "SendingFiles" => sUp
        BY <2>6, <2>10, <2>7 DEF Undisturbed, SFinish, SLost
      <4>3. QED BY <2>6, <2>10, <4>1, <4>2 DEF Undisturbed
    <3>2. (rUp \/ rState = "Finished") /\ sState # "Disconnected" /\ ~cut /\ ~cut'
      BY <2>6, <2>10, <2>1, <3>1 DEF OnlyDisturbedFails, Undisturbed
    <3>3. rUp' \/ rState' = "Finished"
      <4>1. CASE RCancel
        BY <2>10, <4>1 DEF Undisturbed, RCancel
      <4>2. CASE RLost
        BY <2>1, <3>1, <3>2, <4>2, ReceiverIsLeft
      <4>3. QED BY <2>2, <2>6, <3>2, <4>1, <4>2 DEF ReceiverFails
    <3>4. sState' # "Disconnected"
      <4>1. SUFFICES ASSUME SLost, sState = "SendingFiles" PROVE FALSE
        BY <2>8, <3>2
      <4>2. rState = "Finished"
        BY <3>2, <4>1 DEF SLost
      <4>3. QED BY <2>1, <3>2, <4>1, <4>2, SenderIsHeard
    <3>5. QED BY <3>3, <3>4 DEF OnlyDisturbedFails
  <2>11. QED BY <2>2, <2>8, <2>10, <2>9 DEF OnlyDisturbedFails, TransferInv
<1>3. QED BY <1>1, <1>2, TypesStay, InPlaceStays, PTL DEF StreamSpec

(* In whatever pieces the connection carries the frames, a transfer that    *)
(* nobody cancels fails on neither side unless a message of the bus cut a   *)
(* length or the sender was stopped: what the receiver takes next is always *)
(* the frame that follows what it stored, and when it ends the sender has   *)
(* nothing left that it must hear of.                                       *)
THEOREM OnlyDisturbedTransfersFail == StreamSpec => []OnlyDisturbedFails
<1>1. TransferInv => OnlyDisturbedFails
  BY DEF TransferInv
<1>2. QED BY <1>1, TransferStays, PTL

(* What each task can do by the guards of its steps.                        *)
SenderCanGoOn ==
    /\ sUp
    /\ \/ left = 0 /\ sState = "SendingFiles"
       \/ left > 0 /\ (rUp => Len(wire) < Buffer)
       \/ ~rUp /\ sState = "Finished"
ReceiverCanGoOn == rUp /\ (wire # <<>> \/ ~sUp)

NobodyIsStuck == ~cut /\ (sUp \/ rUp) => SenderCanGoOn \/ ReceiverCanGoOn

(* The two ends never wait for each other, however little the connection    *)
(* holds and however short the file has become: while a task runs, one can  *)
(* go on, unless a cut has left the receiver waiting for bytes that are not *)
(* to come while the sender waits for its hang-up.                          *)
THEOREM TransferNeverStops == StreamSpec => []NobodyIsStuck
<1>1. ASSUME StreamTypes, TransferInv, ~cut, sUp \/ rUp
      PROVE  SenderCanGoOn \/ ReceiverCanGoOn
  <2>1. left \in Nat /\ (left = 0 \/ left > 0)
    BY <1>1, FrameFacts DEF StreamTypes
  <2>2. CASE ~sUp
    BY <1>1, <2>2 DEF ReceiverCanGoOn
  <2>3. CASE sUp /\ ~rUp
    BY <1>1, <2>1, <2>3 DEF TransferInv, SenderCanGoOn
  <2>4. CASE sUp /\ rUp /\ wire = <<>>
    <3>1. Len(wire) < Buffer /\ ToCome = left
      BY <2>1, <2>4, BufferAssumption DEF ToCome
    <3>2. left = 0 => sState # "Finished"
      BY <1>1, <2>4, <3>1
      DEF TransferInv, FramesAreInSequence, NextIsInPlace, AtItsFrame, Unbegun, Disconnection
    <3>3. QED BY <1>1, <2>1, <2>4, <3>1, <3>2 DEF TransferInv, SenderCanGoOn
  <2>5. CASE rUp /\ wire # <<>>
    BY <2>5 DEF ReceiverCanGoOn
  <2>6. QED BY <2>2, <2>3, <2>4, <2>5
<1>2. StreamTypes /\ TransferInv => NobodyIsStuck
  BY <1>1 DEF NobodyIsStuck
<1>3. QED BY <1>2, TypesStay, TransferStays, PTL
=============================================================================
