-------------------------- MODULE ConnectionProofs --------------------------
(***************************************************************************)
(* Theorems about Connection for every value of its constants.             *)
(***************************************************************************)
EXTENDS Connection, TLAPS

-----------------------------------------------------------------------------
(* Facts about frames and logs. *)

(* Every frame that is written is a Frame. *)
LEMMA FrameTypes ==
    /\ \A kind \in PlainKind : Plain(kind) \in Frame
    /\ \A seq \in Nat, body \in Body : Secure(seq, body) \in Frame
    /\ \A frame \in SharingFrame, last \in BOOLEAN : Bytes(frame, last) \in Body
    /\ \A f \in Files, off, len \in Nat, last \in BOOLEAN :
         FileChunk(f, off, len, last) \in Body
    /\ Disconnection \in Body
BY DEF Plain, Secure, Bytes, FileChunk, Disconnection, Frame, Body, PlainKind

(* A frame that is read is plain or carries a Body. *)
LEMMA FrameCases ==
    ASSUME NEW frame \in Frame, frame.kind = "SecureMessage"
    PROVE  /\ frame.seq \in Nat /\ frame.body \in Body
           /\ frame.body.type = "Bytes" =>
                frame.body.frame \in SharingFrame /\ frame.body.last \in BOOLEAN
           /\ frame.body.type = "File" =>
                /\ frame.body.file \in Files
                /\ frame.body.off \in Nat /\ frame.body.len \in Nat
                /\ frame.body.last \in BOOLEAN
<1>1. frame.seq \in Nat /\ frame.body \in Body
  BY DEF Frame, PlainKind
<1>2. QED BY <1>1 DEF Body, Disconnection

(* The sharing frames this code builds. *)
LEMMA SharingFrameTypes ==
    /\ PairedKeyEncryption \in SharingFrame
    /\ PairedKeyResult \in SharingFrame
    /\ \A files \in SUBSET Files : Introduction(files) \in SharingFrame
    /\ Response("Accept") \in SharingFrame
    /\ Response("Reject") \in SharingFrame
    /\ Response("Unsupported") \in SharingFrame
BY DEF SharingFrame

LEMMA PairInSeq ==
    ASSUME NEW S, NEW x \in S, NEW y \in S
    PROVE  <<x, y>> \in Seq(S)
OBVIOUS

(* What the send operators append. *)
LEMMA SendTypes ==
    ASSUME NEW seq \in Nat
    PROVE  /\ \A body \in Body : EncryptAndSend(seq, body) \in Seq(Frame)
           /\ \A frame \in SharingFrame : SendEncryptedFrame(seq, frame) \in Seq(Frame)
<1>1. ASSUME NEW body \in Body PROVE EncryptAndSend(seq, body) \in Seq(Frame)
  <2>1. Secure(seq + 1, body) \in Frame  BY FrameTypes
  <2>2. QED BY <2>1 DEF EncryptAndSend
<1>2. ASSUME NEW frame \in SharingFrame
      PROVE  SendEncryptedFrame(seq, frame) \in Seq(Frame)
  <2>1. Bytes(frame, FALSE) \in Body /\ Bytes(frame, TRUE) \in Body  BY FrameTypes
  <2>2. seq + 1 \in Nat /\ seq + 2 \in Nat
    OBVIOUS
  <2>3. \A s \in Nat, body \in Body : Secure(s, body) \in Frame
    BY FrameTypes
  <2>4. /\ Secure(seq + 1, Bytes(frame, FALSE)) \in Frame
        /\ Secure(seq + 2, Bytes(frame, TRUE)) \in Frame
    BY ONLY <2>1, <2>2, <2>3
  <2>5. QED BY <2>4, PairInSeq DEF SendEncryptedFrame
<1>3. QED BY <1>1, <1>2

(* Appending to a log lengthens it and keeps what it is a log of. *)
LEMMA LogGrows ==
    ASSUME NEW S, NEW log \in Seq(S), NEW more \in Seq(S)
    PROVE  log \o more \in Seq(S) /\ Len(log \o more) >= Len(log)
OBVIOUS

LEMMA LogAppends ==
    ASSUME NEW S, NEW log \in Seq(S), NEW x \in S
    PROVE  Append(log, x) \in Seq(S) /\ Len(Append(log, x)) >= Len(log)
OBVIOUS

-----------------------------------------------------------------------------
(* Type correctness. *)

(* What a step of the sending end leaves well typed. *)
SenderTypes ==
    /\ s2r' \in Seq(Frame) /\ Len(s2r') >= Len(s2r)
    /\ sRead' \in 0..Len(r2s) /\ sUp' \in BOOLEAN
    /\ snd' \in SenderState
    /\ sPub' \in Seq(State) /\ Len(sPub') >= Len(sPub)
    /\ sTaken' \in 0..Len(sClicks)

LEMMA SenderTyped ==
    ASSUME TypeOK, SenderNext
    PROVE  SenderTypes
<1> USE FilesAssumption, SizeAssumption, SourceAssumption, VanishingAssumption,
        ReadBufferAssumption
<1>1. /\ s2r \in Seq(Frame) /\ r2s \in Seq(Frame)
      /\ sRead \in 0..Len(r2s) /\ sUp \in BOOLEAN
      /\ snd \in SenderState
      /\ sPub \in Seq(State) /\ sTaken \in 0..Len(sClicks)
      /\ Len(sClicks) \in Nat
      /\ Len(s2r) >= Len(s2r) /\ Len(sPub) >= Len(sPub)
  BY DEF TypeOK, WireTypeOK, SenderTypeOK
<1>2. /\ snd.state \in State /\ snd.sent \in [Files -> Nat]
      /\ snd.server_seq \in Nat /\ snd.ack \in Nat /\ snd.noted \in Nat
      /\ snd.client_seq + 1 \in Nat
      /\ snd.server_seq + 1 \in Nat /\ snd.server_seq + 2 \in Nat
      /\ snd.todo \in SUBSET Files
      /\ NoFrame \in Payload
  BY <1>1 DEF SenderState, Payload
<1>3. /\ "SentUkeyClientInit" \in State /\ "SentUkeyClientFinish" \in State
      /\ "SentPairedKeyEncryption" \in State /\ "SentPairedKeyResult" \in State
      /\ "SentIntroduction" \in State /\ "SendingFiles" \in State
      /\ "Disconnected" \in State /\ "Finished" \in State /\ "Cancelled" \in State
  BY DEF State
<1>4. SReads => sRead' \in 0..Len(r2s) /\ sTaken' \in 0..Len(sClicks)
  BY <1>1 DEF SReads
<1>5. \A more \in Seq(Frame) : s2r' = s2r \o more =>
        s2r' \in Seq(Frame) /\ Len(s2r') >= Len(s2r)
  BY <1>1, LogGrows
<1>6. \A state \in State : sPub' = Append(sPub, state) =>
        sPub' \in Seq(State) /\ Len(sPub') >= Len(sPub)
  BY <1>1, LogAppends
<1>7. CASE SConnect
  <2>1. <<Plain("ConnectionRequest"), Plain("ClientInit")>> \in Seq(Frame)
    <3>1. /\ Plain("ConnectionRequest") \in Frame
          /\ Plain("ClientInit") \in Frame
      BY FrameTypes DEF PlainKind
    <3>2. QED BY <3>1
  <2>2. snd' \in SenderState
    BY <1>1, <1>3, <1>7 DEF SConnect, SenderState
  <2>3. QED BY <1>1, <1>5, <1>7, <2>1, <2>2 DEF SConnect, SenderTypes
<1>8. CASE SServerInit
  <2>1. <<Plain("ClientFinish"), Plain("ConnectionResponse")>> \in Seq(Frame)
    <3>1. /\ Plain("ClientFinish") \in Frame
          /\ Plain("ConnectionResponse") \in Frame
      BY FrameTypes DEF PlainKind
    <3>2. QED BY <3>1
  <2>2. snd' \in SenderState
    BY <1>1, <1>3, <1>8 DEF SServerInit, SenderState
  <2>3. QED BY <1>1, <1>2, <1>4, <1>5, <1>6, <1>8, <2>1, <2>2
          DEF SServerInit, SenderTypes
<1>9. CASE SConnectionResponse
  <2>1. snd' \in SenderState
    BY <1>1, <1>2, <1>3, <1>9 DEF SConnectionResponse, SenderState
  <2>2. QED BY <1>1, <1>2, <1>4, <1>5, <1>9, <2>1, SendTypes, SharingFrameTypes
          DEF SConnectionResponse, SReads, SenderTypes
<1>10. CASE SBytesData
  <2>1. SHead \in Frame /\ SHead.kind = "SecureMessage"
    BY <1>1, <1>10 DEF SBytesData, SReadsSecure, SReads, SHead, InSequence
  <2>2. SHead.body.frame \in Payload
    BY <2>1, <1>10, FrameCases DEF SBytesData, Payload
  <2>3. snd' \in SenderState
    BY <1>1, <1>2, <1>10, <2>2 DEF SBytesData, SenderState
  <2>4. QED BY <1>1, <1>4, <1>10, <2>3 DEF SBytesData, SReadsSecure, SenderTypes
<1>11. CASE SPairedKeyEncryption
  <2>1. snd' \in SenderState
    BY <1>1, <1>2, <1>3, <1>11 DEF SPairedKeyEncryption, SenderState
  <2>2. QED BY <1>1, <1>2, <1>4, <1>5, <1>11, <2>1, SendTypes, SharingFrameTypes
          DEF SPairedKeyEncryption, SReadsSharing, SReadsSecure, SenderTypes
<1>12. CASE SPairedKeyResult
  <2>1. PICK missing \in SUBSET Vanishing :
          /\ s2r' = s2r \o SendEncryptedFrame(snd.server_seq,
                                              Introduction(Files \ missing))
          /\ snd' = [snd EXCEPT !.state = "SentIntroduction",
                                !.client_seq = @ + 1, !.server_seq = @ + 2,
                                !.buf = NoFrame, !.todo = Files \ missing]
    BY <1>12 DEF SPairedKeyResult
  <2>2. snd' \in SenderState
    BY <1>1, <1>2, <1>3, <2>1 DEF SenderState
  <2>3. Introduction(Files \ missing) \in SharingFrame
    BY SharingFrameTypes
  <2>4. s2r' \in Seq(Frame) /\ Len(s2r') >= Len(s2r)
    BY <1>2, <1>5, <2>1, <2>3, SendTypes
  <2>5. QED BY <1>1, <1>3, <1>4, <1>6, <1>12, <2>2, <2>4
          DEF SPairedKeyResult, SReadsSharing, SReadsSecure, SenderTypes
<1>13. CASE SConsentGiven
  <2>1. snd' \in SenderState
    BY <1>1, <1>2, <1>3, <1>13 DEF SConsentGiven, SenderState
  <2>2. QED BY <1>1, <1>3, <1>4, <1>6, <1>13, <2>1
          DEF SConsentGiven, SReadsSharing, SReadsSecure, SenderTypes
<1>14. CASE SConsentDenied
  <2>1. snd' \in SenderState
    BY <1>1, <1>2, <1>3, <1>14 DEF SConsentDenied, SenderState
  <2>2. s2r' \in Seq(Frame) /\ Len(s2r') >= Len(s2r)
    BY <1>2, <1>5, <1>14, SendTypes, FrameTypes DEF SConsentDenied
  <2>3. <<"Disconnected", "Disconnected">> \in Seq(State)
    BY <1>3
  <2>4. sPub' \in Seq(State) /\ Len(sPub') >= Len(sPub)
    BY <1>1, <1>3, <1>6, <1>14, <2>3, LogGrows DEF SConsentDenied
  <2>5. QED BY <1>1, <1>4, <1>14, <2>1, <2>2, <2>4
          DEF SConsentDenied, SReadsSharing, SReadsSecure, SenderTypes
<1>15. CASE SSharingIgnored
  <2>1. snd' \in SenderState
    BY <1>1, <1>2, <1>15 DEF SSharingIgnored, SenderState
  <2>2. QED BY <1>1, <1>4, <1>15, <2>1
          DEF SSharingIgnored, SReadsSharing, SReadsSecure, SenderTypes
<1>16. CASE SDisconnection
  <2>1. snd' \in SenderState
    BY <1>1, <1>2, <1>16 DEF SDisconnection, SenderState
  <2>2. QED BY <1>1, <1>4, <1>16, <2>1 DEF SDisconnection, SReadsSecure, SenderTypes
<1>17. ASSUME NEW f \in Files, SNextFile(f) PROVE SenderTypes
  <2>1. snd' \in SenderState
    <3>1. (IF Size[f] = 0 THEN {} ELSE {f}) \in SUBSET Files
          /\ snd.todo \ {f} \in SUBSET Files
      BY <1>2
    <3>2. QED BY <1>1, <1>17, <3>1 DEF SNextFile, SenderState
  <2>2. QED BY <1>1, <1>17, <2>1 DEF SNextFile, SenderTypes
<1>18. ASSUME NEW f \in Files, NEW n \in 0..ReadBuffer, SReadAndSend(f, n)
       PROVE  SenderTypes
  <2>1. n \in Nat /\ snd.sent[f] \in Nat /\ snd.sent[f] + n \in Nat
        /\ snd.ack + n \in Nat
    BY <1>2
  <2>2. PICK noted \in Nat :
          snd' = [snd EXCEPT !.server_seq = @ + 1, !.sent[f] = @ + n,
                             !.ack = snd.ack + n, !.noted = noted]
    BY <1>2, <1>18, <2>1 DEF SReadAndSend
  <2>3. snd' \in SenderState
    BY <1>1, <1>2, <2>1, <2>2 DEF SenderState
  <2>4. FileChunk(f, snd.sent[f], n, FALSE) \in Body
    BY <2>1, FrameTypes
  <2>5. s2r' \in Seq(Frame) /\ Len(s2r') >= Len(s2r)
    BY <1>2, <1>5, <1>18, <2>4, SendTypes DEF SReadAndSend
  <2>6. sPub' \in Seq(State) /\ Len(sPub') >= Len(sPub)
    BY <1>1, <1>3, <1>6, <1>18 DEF SReadAndSend
  <2>7. QED BY <1>1, <1>18, <2>3, <2>5, <2>6 DEF SReadAndSend, SenderTypes
<1>19. ASSUME NEW f \in Files, SSendLast(f) PROVE SenderTypes
  <2>1. FileChunk(f, Size[f], 0, TRUE) \in Body
    BY FrameTypes
  <2>2. snd' \in SenderState
    BY <1>1, <1>2, <1>19 DEF SSendLast, SenderState
  <2>3. QED BY <1>1, <1>2, <1>5, <1>19, <2>1, <2>2, SendTypes
          DEF SSendLast, SenderTypes
<1>20. CASE SFinish
  <2>1. snd' \in SenderState
    BY <1>1, <1>2, <1>3, <1>20 DEF SFinish, SenderState
  <2>2. QED BY <1>1, <1>2, <1>3, <1>5, <1>6, <1>20, <2>1, SendTypes, FrameTypes
          DEF SFinish, SenderTypes
<1>21. CASE SCancel
  <2>1. snd' \in SenderState
    BY <1>1, <1>2, <1>3, <1>21 DEF SCancel, SenderState
  <2>2. s2r' \in Seq(Frame) /\ Len(s2r') >= Len(s2r)
    BY <1>2, <1>5, <1>21, SendTypes, FrameTypes DEF SCancel
  <2>3. sPub' \in Seq(State) /\ Len(sPub') >= Len(sPub)
    BY <1>3, <1>6, <1>21 DEF SCancel
  <2>4. sTaken' \in 0..Len(sClicks)
    BY <1>1, <1>21 DEF SCancel
  <2>5. sRead' \in 0..Len(r2s) /\ sUp' \in BOOLEAN
    BY <1>1, <1>21 DEF SCancel
  <2>6. QED BY <2>1, <2>2, <2>3, <2>4, <2>5 DEF SenderTypes
<1>22. CASE SConnectionLost \/ SSourceFails
  BY <1>1, <1>3, <1>6, <1>22
     DEF SConnectionLost, SSourceFails, SExitOnError, SenderTypes
<1>23. CASE SStop
  BY <1>1, <1>23 DEF SStop, SenderTypes
<1>24. QED
  BY <1>7, <1>8, <1>9, <1>10, <1>11, <1>12, <1>13, <1>14, <1>15, <1>16, <1>17,
     <1>18, <1>19, <1>20, <1>21, <1>22, <1>23
     DEF SenderNext, SenderStep, SHandleFrame, SSendLoop

(* What a step of the receiving end leaves well typed. *)
ReceiverTypes ==
    /\ r2s' \in Seq(Frame) /\ Len(r2s') >= Len(r2s)
    /\ rRead' \in 0..Len(s2r) /\ rUp' \in BOOLEAN
    /\ rcv' \in ReceiverState
    /\ rPub' \in Seq(State) /\ Len(rPub') >= Len(rPub)
    /\ rTaken' \in 0..Len(rClicks)
    /\ disk' \in [Files -> Stored]

(* The files of an assembled Introduction are files. *)
LEMMA IntroductionFiles ==
    ASSUME NEW buf \in Payload, buf.frame = "Introduction"
    PROVE  buf.files \in SUBSET Files
BY DEF Payload, SharingFrame, NoFrame, PairedKeyEncryption, PairedKeyResult,
       Introduction, Response

(* What counting a chunk changes. *)
LEMMA ChunkCounted ==
    ASSUME TypeOK, RFileChunk
    PROVE  /\ RHead.body.file \in Files /\ RHead.body.len \in Nat
           /\ \E noted \in Nat :
                rcv' = [rcv EXCEPT !.client_seq = @ + 1,
                                   !.got[RHead.body.file] = @ + RHead.body.len,
                                   !.ack = rcv.ack + RHead.body.len,
                                   !.noted = noted]
<1>1. s2r \in Seq(Frame) /\ rcv \in ReceiverState /\ rRead \in 0..Len(s2r)
  BY DEF TypeOK, WireTypeOK, ReceiverTypeOK
<1>2. RHead.body.file \in Files /\ RHead.body.len \in Nat
  <2>1. RHead \in Frame /\ RHead.kind = "SecureMessage"
    BY <1>1 DEF RFileChunk, RReadsSecure, RReads, RHead, InSequence
  <2>2. QED BY <2>1, FrameCases DEF RFileChunk
<1>3. rcv.got[RHead.body.file] + RHead.body.len \in Nat
      /\ rcv.ack \in Nat /\ rcv.noted \in Nat /\ rcv.ack + RHead.body.len \in Nat
  <2>1. rcv.got \in [Files -> Nat] /\ rcv.ack \in Nat /\ rcv.noted \in Nat
    BY <1>1 DEF ReceiverState
  <2>2. rcv.got[RHead.body.file] \in Nat
    BY <1>2, <2>1
  <2>3. QED BY <1>2, <2>1, <2>2
<1>4. QED BY <1>1, <1>2, <1>3 DEF RFileChunk

LEMMA ReceiverTyped ==
    ASSUME TypeOK, ReceiverNext
    PROVE  ReceiverTypes
<1> USE FilesAssumption, SizeAssumption
<1>1. /\ s2r \in Seq(Frame) /\ r2s \in Seq(Frame)
      /\ rRead \in 0..Len(s2r) /\ rUp \in BOOLEAN
      /\ rcv \in ReceiverState
      /\ rPub \in Seq(State) /\ rTaken \in 0..Len(rClicks)
      /\ Len(rClicks) \in Nat
      /\ disk \in [Files -> Stored]
      /\ Len(r2s) >= Len(r2s) /\ Len(rPub) >= Len(rPub)
  BY DEF TypeOK, WireTypeOK, ReceiverTypeOK
<1>2. /\ rcv.state \in State /\ rcv.got \in [Files -> Nat]
      /\ rcv.files \in SUBSET Files /\ rcv.open \in SUBSET Files
      /\ rcv.server_seq \in Nat /\ rcv.ack \in Nat /\ rcv.noted \in Nat
      /\ rcv.client_seq + 1 \in Nat
      /\ rcv.server_seq + 1 \in Nat /\ rcv.server_seq + 2 \in Nat
      /\ rcv.buf \in Payload /\ NoFrame \in Payload
  <2>1. /\ rcv.state \in State /\ rcv.got \in [Files -> Nat]
        /\ rcv.files \in SUBSET Files /\ rcv.open \in SUBSET Files
        /\ rcv.server_seq \in Nat /\ rcv.ack \in Nat /\ rcv.noted \in Nat
        /\ rcv.client_seq \in Nat /\ rcv.buf \in Payload
    BY <1>1 DEF ReceiverState
  <2>2. NoFrame \in Payload
    BY DEF Payload
  <2>3. QED BY <2>1, <2>2
<1>3. /\ "ReceivedConnectionRequest" \in State /\ "SentUkeyServerInit" \in State
      /\ "ReceivedUkeyClientFinish" \in State /\ "SentConnectionResponse" \in State
      /\ "SentPairedKeyResult" \in State /\ "ReceivedPairedKeyResult" \in State
      /\ "WaitingForUserConsent" \in State /\ "ReceivingFiles" \in State
      /\ "Disconnected" \in State /\ "Finished" \in State
      /\ "Cancelled" \in State /\ "Rejected" \in State
  BY DEF State
<1>4. RReads => rRead' \in 0..Len(s2r) /\ rTaken' \in 0..Len(rClicks)
  BY <1>1 DEF RReads
<1>5. \A more \in Seq(Frame) : r2s' = r2s \o more =>
        r2s' \in Seq(Frame) /\ Len(r2s') >= Len(r2s)
  BY <1>1, LogGrows
<1>6. \A state \in State : rPub' = Append(rPub, state) =>
        rPub' \in Seq(State) /\ Len(rPub') >= Len(rPub)
  BY <1>1, LogAppends
<1>7. \A click : RTakes(click) => rRead' \in 0..Len(s2r) /\ rTaken' \in 0..Len(rClicks)
  BY <1>1 DEF RTakes
<1>8. RExitOnError =>
        /\ rUp' \in BOOLEAN /\ r2s' = r2s /\ rcv' = rcv
        /\ rPub' \in Seq(State) /\ Len(rPub') >= Len(rPub)
  BY <1>1, <1>3, <1>6 DEF RExitOnError
<1>9. \A files \in SUBSET Files : Create(files) \in [Files -> Stored]
  BY <1>1, <1>2 DEF Create, Stored
<1>10. CASE RConnectionRequest
  <2>1. rcv' \in ReceiverState
    BY <1>1, <1>3, <1>10 DEF RConnectionRequest, ReceiverState
  <2>2. QED BY <1>1, <1>4, <1>10, <2>1 DEF RConnectionRequest, ReceiverTypes
<1>11. CASE RClientInit
  <2>1. rcv' \in ReceiverState
    BY <1>1, <1>3, <1>11 DEF RClientInit, ReceiverState
  <2>2. <<Plain("ServerInit")>> \in Seq(Frame)
    BY FrameTypes DEF PlainKind
  <2>3. QED BY <1>1, <1>4, <1>5, <1>11, <2>1, <2>2 DEF RClientInit, ReceiverTypes
<1>12. CASE RClientFinish
  <2>1. rcv' \in ReceiverState
    BY <1>1, <1>3, <1>12 DEF RClientFinish, ReceiverState
  <2>2. QED BY <1>1, <1>4, <1>12, <2>1 DEF RClientFinish, ReceiverTypes
<1>13. CASE RConnectionResponse
  <2>1. rcv' \in ReceiverState
    BY <1>1, <1>2, <1>3, <1>13 DEF RConnectionResponse, ReceiverState
  <2>2. <<Plain("ConnectionResponse")>> \in Seq(Frame)
    BY FrameTypes DEF PlainKind
  <2>3. SendEncryptedFrame(rcv.server_seq, PairedKeyEncryption) \in Seq(Frame)
    BY <1>2, SendTypes, SharingFrameTypes
  <2>4. r2s' \in Seq(Frame) /\ Len(r2s') >= Len(r2s)
    <3>1. r2s \o <<Plain("ConnectionResponse")>> \in Seq(Frame)
          /\ Len(r2s \o <<Plain("ConnectionResponse")>>) >= Len(r2s)
      BY <1>1, <2>2, LogGrows
    <3>2. QED BY <1>1, <1>13, <2>3, <3>1, LogGrows DEF RConnectionResponse
  <2>5. QED BY <1>1, <1>4, <1>13, <2>1, <2>4 DEF RConnectionResponse, ReceiverTypes
<1>14. CASE RBytesData
  <2>1. RHead \in Frame /\ RHead.kind = "SecureMessage"
    BY <1>1, <1>14 DEF RBytesData, RReadsSecure, RReads, RHead, InSequence
  <2>2. RHead.body.frame \in Payload
    BY <2>1, <1>14, FrameCases DEF RBytesData, Payload
  <2>3. rcv' \in ReceiverState
    BY <1>1, <1>2, <1>14, <2>2 DEF RBytesData, ReceiverState
  <2>4. QED BY <1>1, <1>4, <1>14, <2>3 DEF RBytesData, RReadsSecure, ReceiverTypes
<1>15. CASE RPairedKeyEncryption
  <2>1. rcv' \in ReceiverState
    BY <1>1, <1>2, <1>3, <1>15 DEF RPairedKeyEncryption, ReceiverState
  <2>2. QED BY <1>1, <1>2, <1>4, <1>5, <1>15, <2>1, SendTypes, SharingFrameTypes
          DEF RPairedKeyEncryption, RReadsSharing, RReadsSecure, ReceiverTypes
<1>16. CASE RPairedKeyResult
  <2>1. rcv' \in ReceiverState
    BY <1>1, <1>2, <1>3, <1>16 DEF RPairedKeyResult, ReceiverState
  <2>2. QED BY <1>1, <1>4, <1>16, <2>1
          DEF RPairedKeyResult, RReadsSharing, RReadsSecure, ReceiverTypes
<1>17. CASE RIntroduction
  <2>1. rcv.buf.files \in SUBSET Files
    BY <1>2, <1>17, IntroductionFiles DEF RIntroduction
  <2>2. rcv' \in ReceiverState
    BY <1>1, <1>2, <1>3, <1>17, <2>1 DEF RIntroduction, ReceiverState
  <2>3. QED BY <1>1, <1>3, <1>4, <1>6, <1>17, <2>2
          DEF RIntroduction, RReadsSharing, RReadsSecure, ReceiverTypes
<1>18. CASE REmptyIntroduction
  <2>1. rcv' \in ReceiverState
    BY <1>1, <1>2, <1>3, <1>18 DEF REmptyIntroduction, ReceiverState
  <2>2. QED BY <1>1, <1>2, <1>4, <1>5, <1>18, <2>1, SendTypes, SharingFrameTypes
          DEF REmptyIntroduction, RReadsSharing, RReadsSecure, ReceiverTypes
<1>19. CASE RFileChunk
  <2>1. /\ RHead.body.file \in Files /\ RHead.body.len \in Nat
        /\ rcv.got[RHead.body.file] + RHead.body.len \in Nat
        /\ rcv.ack + RHead.body.len \in Nat
    <3>1. RHead.body.file \in Files /\ RHead.body.len \in Nat
      BY <1>19, ChunkCounted
    <3>2. QED BY <1>2, <3>1
  <2>2. PICK noted \in Nat :
          rcv' = [rcv EXCEPT !.client_seq = @ + 1,
                             !.got[RHead.body.file] = @ + RHead.body.len,
                             !.ack = rcv.ack + RHead.body.len, !.noted = noted]
    BY <1>19, ChunkCounted
  <2>3. rcv' \in ReceiverState
    BY <1>1, <1>2, <2>1, <2>2 DEF ReceiverState
  <2>4. disk' \in [Files -> Stored]
    <3>1. ASSUME NEW file \in Files, NEW len \in Nat
          PROVE  WriteAll(file, len) \in [Files -> Stored]
      <4>1. disk[file] \in Stored
        BY <1>1
      <4>2. disk[file].to + len \in Nat
        BY <4>1 DEF Stored
      <4>3. QED BY <1>1, <4>1, <4>2 DEF WriteAll, Stored
    <3>2. WriteAll(RHead.body.file, RHead.body.len) \in [Files -> Stored]
      BY <2>1, <3>1
    <3>3. QED BY <1>19, <3>2, Zenon DEF RFileChunk
  <2>5. rPub' \in Seq(State) /\ Len(rPub') >= Len(rPub)
    BY <1>1, <1>2, <1>6, <1>19 DEF RFileChunk
  <2>6. rRead' \in 0..Len(s2r) /\ rTaken' \in 0..Len(rClicks)
    BY <1>4, <1>19 DEF RFileChunk, RReadsSecure
  <2>7. r2s' = r2s /\ rUp' = rUp
    BY <1>19 DEF RFileChunk
  <2>8. QED BY <1>1, <2>3, <2>4, <2>5, <2>6, <2>7 DEF ReceiverTypes
<1>20. CASE RFileLast
  <2> DEFINE file == RHead.body.file
             rest == rcv.files \ {file}
  <2>1. rest \in SUBSET Files /\ rcv.open \ {file} \in SUBSET Files
    BY <1>2
  <2>2. rRead' \in 0..Len(s2r) /\ rTaken' \in 0..Len(rClicks) /\ disk' = disk
    BY <1>4, <1>20 DEF RFileLast, RReadsSecure
  <2>3. CASE rest = {}
    <3>1. rcv' = [rcv EXCEPT !.client_seq = @ + 1, !.files = rest,
                             !.open = @ \ {file}, !.state = "Finished",
                             !.server_seq = @ + 1]
      BY <1>20, <2>3 DEF RFileLast
    <3> HIDE DEF rest, file
    <3>2. rcv' \in ReceiverState
      BY <1>1, <1>2, <1>3, <2>1, <3>1 DEF ReceiverState
    <3>3. /\ rPub' = Append(rPub, "Finished") /\ rUp' = FALSE
          /\ r2s' = r2s \o EncryptAndSend(rcv.server_seq, Disconnection)
      BY <1>20, <2>3 DEF RFileLast, rest, file
    <3>4. QED BY <1>1, <1>2, <1>3, <1>5, <1>6, <2>2, <3>2, <3>3, SendTypes,
                 FrameTypes
              DEF ReceiverTypes
  <2>4. CASE rest # {}
    <3>1. /\ rcv' = [rcv EXCEPT !.client_seq = @ + 1, !.files = rest,
                                !.open = @ \ {file}]
          /\ UNCHANGED <<rPub, r2s, rUp>>
      BY <1>20, <2>4 DEF RFileLast
    <3> HIDE DEF rest, file
    <3>2. rcv' \in ReceiverState
      BY <1>1, <1>2, <2>1, <3>1 DEF ReceiverState
    <3>3. QED BY <1>1, <2>2, <3>1, <3>2 DEF ReceiverTypes
  <2>5. QED BY <2>3, <2>4
<1>21. CASE RDisconnection
  <2>1. rcv' \in ReceiverState
    BY <1>1, <1>2, <1>21 DEF RDisconnection, ReceiverState
  <2>2. QED BY <1>1, <1>4, <1>21, <2>1 DEF RDisconnection, RReadsSecure, ReceiverTypes
<1>22. CASE RAccept
  <2>1. rcv' \in ReceiverState
    BY <1>1, <1>2, <1>3, <1>22 DEF RAccept, ReceiverState
  <2>2. r2s' \in Seq(Frame) /\ Len(r2s') >= Len(r2s)
    BY <1>2, <1>5, <1>22, SendTypes, SharingFrameTypes DEF RAccept
  <2>3. rPub' \in Seq(State) /\ Len(rPub') >= Len(rPub)
    BY <1>3, <1>6, <1>22 DEF RAccept
  <2>4. disk' \in [Files -> Stored] /\ rUp' \in BOOLEAN
    BY <1>1, <1>2, <1>9, <1>22 DEF RAccept
  <2>5. QED BY <1>7, <1>22, <2>1, <2>2, <2>3, <2>4 DEF RAccept, ReceiverTypes
<1>23. CASE RReject
  <2>1. rcv' \in ReceiverState
    BY <1>1, <1>2, <1>3, <1>23 DEF RReject, ReceiverState
  <2>2. r2s' \in Seq(Frame) /\ Len(r2s') >= Len(r2s)
    BY <1>2, <1>5, <1>23, SendTypes, SharingFrameTypes DEF RReject
  <2>3. <<"Rejected", "Disconnected">> \in Seq(State)
    BY <1>3, PairInSeq
  <2>4. rPub' \in Seq(State) /\ Len(rPub') >= Len(rPub)
    BY <1>1, <1>3, <1>6, <1>23, <2>3, LogGrows DEF RReject
  <2>5. QED BY <1>1, <1>7, <1>23, <2>1, <2>2, <2>4 DEF RReject, ReceiverTypes
<1>24. CASE RCancel
  <2>1. rcv' \in ReceiverState
    BY <1>1, <1>2, <1>3, <1>24 DEF RCancel, ReceiverState
  <2>2. r2s' \in Seq(Frame) /\ Len(r2s') >= Len(r2s)
    BY <1>2, <1>5, <1>24, SendTypes, FrameTypes DEF RCancel
  <2>3. <<"Cancelled", "Disconnected">> \in Seq(State)
    BY <1>3, PairInSeq
  <2>4. rPub' \in Seq(State) /\ Len(rPub') >= Len(rPub)
    BY <1>1, <1>3, <1>6, <1>24, <2>3, LogGrows DEF RCancel
  <2>5. QED BY <1>1, <1>7, <1>24, <2>1, <2>2, <2>4 DEF RCancel, ReceiverTypes
<1>25. CASE RConnectionLost
  BY <1>1, <1>8, <1>25 DEF RConnectionLost, ReceiverTypes
<1>26. CASE RAcceptFails
  <2>1. PICK created \in SUBSET rcv.files : disk' = Create(created)
    BY <1>26 DEF RAcceptFails
  <2>2. disk' \in [Files -> Stored]
    BY <1>2, <1>9, <2>1
  <2>3. QED BY <1>1, <1>7, <1>8, <1>26, <2>2 DEF RAcceptFails, ReceiverTypes
<1>27. CASE RStoreFails \/ RBadFrame
  BY <1>1, <1>4, <1>8, <1>27
     DEF RStoreFails, RBadFrame, RReadsSecure, ReceiverTypes
<1>28. CASE RCrash
  BY <1>1, <1>28 DEF RCrash, ReceiverTypes
<1>29. QED
  BY <1>10, <1>11, <1>12, <1>13, <1>14, <1>15, <1>16, <1>17, <1>18, <1>19, <1>20,
     <1>21, <1>22, <1>23, <1>24, <1>25, <1>26, <1>27, <1>28
     DEF ReceiverNext, ReceiverStep, RHandleFrame, RHandleCommand

-----------------------------------------------------------------------------
(* Connection keeps its variables well typed: the two ends and their front  *)
(* ends never reach a state the structs of hdl/ could not hold.             *)
THEOREM TypeCorrect == Spec => []TypeOK
<1>1. Init => TypeOK
  <2> SUFFICES ASSUME Init PROVE TypeOK
    OBVIOUS
  <2>1. WireTypeOK
    BY DEF Init, WireInit, WireTypeOK
  <2>2. SenderTypeOK
    <3>1. snd \in SenderState
      BY DEF Init, SenderInit, SenderState, State, Payload
    <3>2. QED BY <3>1 DEF Init, SenderInit, SenderTypeOK
  <2>3. ReceiverTypeOK
    <3>1. rcv \in ReceiverState
      BY DEF Init, ReceiverInit, ReceiverState, State, Payload
    <3>2. disk \in [Files -> Stored]
      BY DEF Init, ReceiverInit, Stored
    <3>3. QED BY <3>1, <3>2 DEF Init, ReceiverInit, ReceiverTypeOK
  <2>4. QED BY <2>1, <2>2, <2>3 DEF Init, SenderInit, ReceiverInit, TypeOK
<1>2. TypeOK /\ [Next]_vars => TypeOK'
  <2> SUFFICES ASSUME TypeOK, [Next]_vars PROVE TypeOK'
    OBVIOUS
  <2> USE DEF TypeOK, WireTypeOK, SenderTypeOK, ReceiverTypeOK
  <2>1. CASE Sender
    <3>1. SenderTypes /\ UNCHANGED <<receiverVars, uiVars>>
      BY <2>1, SenderTyped DEF Sender
    <3>2. QED BY <3>1 DEF SenderTypes, receiverVars, uiVars
  <2>2. CASE Receiver
    <3>1. ReceiverTypes /\ UNCHANGED <<senderVars, uiVars>>
      BY <2>2, ReceiverTyped DEF Receiver
    <3>2. QED BY <3>1 DEF ReceiverTypes, senderVars, uiVars
  <2>3. CASE FrontEnd
    <3>1. CASE SShow
      <4>1. sPub \in Seq(State) /\ sSeen \in 0..Len(sPub)
        OBVIOUS
      <4>2. sSeen' \in 0..Len(sPub)
        BY <3>1, <4>1 DEF SShow
      <4>3. UNCHANGED <<senderVars, receiverVars, faults, sClicks, rClicks, rSeen>>
        BY <3>1 DEF SShow
      <4>4. QED BY <4>2, <4>3 DEF senderVars, receiverVars
    <3>2. CASE RShow
      <4>1. rPub \in Seq(State) /\ rSeen \in 0..Len(rPub)
        OBVIOUS
      <4>2. rSeen' \in 0..Len(rPub)
        BY <3>2, <4>1 DEF RShow
      <4>3. UNCHANGED <<senderVars, receiverVars, faults, sClicks, rClicks, sSeen>>
        BY <3>2 DEF RShow
      <4>4. QED BY <4>2, <4>3 DEF senderVars, receiverVars
    <3>3. QED BY <2>3, <3>1, <3>2 DEF FrontEnd
  <2>4. CASE User
    <3>1. ASSUME NEW answer \in Answer, UserAnswers(answer) PROVE TypeOK'
      <4>1. rClicks' \in Seq(Answer \cup {"Cancel"}) /\ Len(rClicks') >= Len(rClicks)
        BY <3>1, LogAppends DEF UserAnswers
      <4>2. QED BY <3>1, <4>1 DEF UserAnswers, senderVars, receiverVars
    <3>2. CASE SUserCancels
      <4>1. sClicks' \in Seq({"Cancel"}) /\ Len(sClicks') >= Len(sClicks)
        BY <3>2, LogAppends DEF SUserCancels
      <4>2. QED BY <3>2, <4>1 DEF SUserCancels, senderVars, receiverVars
    <3>3. CASE RUserCancels
      <4>1. rClicks' \in Seq(Answer \cup {"Cancel"}) /\ Len(rClicks') >= Len(rClicks)
        BY <3>3, LogAppends DEF RUserCancels
      <4>2. QED BY <3>3, <4>1 DEF RUserCancels, senderVars, receiverVars
    <3>4. QED BY <2>4, <3>1, <3>2, <3>3 DEF User
  <2>5. CASE Done \/ UNCHANGED vars
    BY <2>5 DEF Done, vars, senderVars, receiverVars, uiVars
  <2>6. QED BY <2>1, <2>2, <2>3, <2>4, <2>5 DEF Next
<1>3. QED BY <1>1, <1>2, PTL DEF Spec

-----------------------------------------------------------------------------
(* Consent.  Until the receiving task has taken an Accept, nothing along the *)
(* way from its answer to the first byte of a file exists: no Accept on the  *)
(* wire or in the payload the sender assembles, no send loop, no file frame  *)
(* and no stored file.                                                       *)

(* Frames of the sender other than file chunks, and of the receiver other   *)
(* than an Accept.                                                          *)
WithoutFile ==
    {frame \in Frame : ~(frame.kind = "SecureMessage" /\ frame.body.type = "File")}
WithoutAccept ==
    {frame \in Frame : ~(/\ frame.kind = "SecureMessage"
                         /\ frame.body.type = "Bytes"
                         /\ frame.body.frame = Response("Accept"))}

NothingGranted ==
    /\ r2s \in Seq(WithoutAccept)
    /\ snd.buf # Response("Accept")
    /\ snd.state # "SendingFiles"
    /\ s2r \in Seq(WithoutFile)
    /\ \A f \in Files : ~disk[f].exists

ConsentInv == AcceptTaken \/ NothingGranted

(* The send operators append frames of a set that has the message they send. *)
LEMMA SendWithin ==
    ASSUME NEW S, NEW seq \in Nat
    PROVE  /\ \A body : (\A n \in Nat : Secure(n, body) \in S)
                          => EncryptAndSend(seq, body) \in Seq(S)
           /\ \A frame :
                (\A n \in Nat, last \in BOOLEAN : Secure(n, Bytes(frame, last)) \in S)
                  => SendEncryptedFrame(seq, frame) \in Seq(S)
<1>1. seq + 1 \in Nat /\ seq + 2 \in Nat
  OBVIOUS
<1>2. ASSUME NEW body, \A n \in Nat : Secure(n, body) \in S
      PROVE  EncryptAndSend(seq, body) \in Seq(S)
  BY <1>1, <1>2 DEF EncryptAndSend
<1>3. ASSUME NEW frame, \A n \in Nat, last \in BOOLEAN :
               Secure(n, Bytes(frame, last)) \in S
      PROVE  SendEncryptedFrame(seq, frame) \in Seq(S)
  <2>1. Secure(seq + 1, Bytes(frame, FALSE)) \in S
        /\ Secure(seq + 2, Bytes(frame, TRUE)) \in S
    BY <1>1, <1>3
  <2>2. QED BY <2>1, PairInSeq DEF SendEncryptedFrame
<1>4. QED BY <1>2, <1>3

(* The frames that are neither: plain ones, Disconnection, and the sharing  *)
(* frames of the setup conversation.                                        *)
LEMMA QuietFrames ==
    /\ \A kind \in PlainKind : Plain(kind) \in WithoutFile \cap WithoutAccept
    /\ \A seq \in Nat : Secure(seq, Disconnection) \in WithoutFile \cap WithoutAccept
    /\ \A seq \in Nat, frame \in SharingFrame, last \in BOOLEAN :
         /\ Secure(seq, Bytes(frame, last)) \in WithoutFile
         /\ frame # Response("Accept") =>
              Secure(seq, Bytes(frame, last)) \in WithoutAccept
<1>1. \A kind \in PlainKind : Plain(kind) \in WithoutFile \cap WithoutAccept
  BY FrameTypes DEF WithoutFile, WithoutAccept, Plain, PlainKind
<1>2. \A seq \in Nat : Secure(seq, Disconnection) \in WithoutFile \cap WithoutAccept
  BY FrameTypes DEF WithoutFile, WithoutAccept, Secure, Disconnection
<1>3. ASSUME NEW seq \in Nat, NEW frame \in SharingFrame, NEW last \in BOOLEAN
      PROVE  /\ Secure(seq, Bytes(frame, last)) \in WithoutFile
             /\ frame # Response("Accept") =>
                  Secure(seq, Bytes(frame, last)) \in WithoutAccept
  <2>1. Secure(seq, Bytes(frame, last)) \in Frame
    BY FrameTypes
  <2>2. Secure(seq, Bytes(frame, last)).body = Bytes(frame, last)
        /\ Bytes(frame, last).type = "Bytes" /\ Bytes(frame, last).frame = frame
    BY DEF Secure, Bytes
  <2>3. QED BY <2>1, <2>2 DEF WithoutFile, WithoutAccept
<1>4. QED BY <1>1, <1>2, <1>3

(* The sharing frames other than Accept differ from it. *)
LEMMA NotAccept ==
    /\ PairedKeyEncryption # Response("Accept")
    /\ PairedKeyResult # Response("Accept")
    /\ \A files : Introduction(files) # Response("Accept")
    /\ Response("Reject") # Response("Accept")
    /\ Response("Unsupported") # Response("Accept")
    /\ NoFrame # Response("Accept")
<1>1. Response("Accept").frame = "Response" /\ Response("Accept").status = "Accept"
  BY DEF Response
<1>2. QED BY <1>1 DEF PairedKeyEncryption, PairedKeyResult, Introduction, Response,
                      NoFrame

(* A step of the sender grants nothing by itself. *)
LEMMA SenderGrantsNothing ==
    ASSUME TypeOK, NothingGranted, SenderNext
    PROVE  /\ snd'.buf # Response("Accept")
           /\ snd'.state # "SendingFiles"
           /\ s2r' \in Seq(WithoutFile)
<1>1. /\ snd \in SenderState
      /\ r2s \in Seq(WithoutAccept) /\ s2r \in Seq(WithoutFile)
      /\ snd.buf # Response("Accept") /\ snd.state # "SendingFiles"
      /\ sRead \in 0..Len(r2s)
  BY DEF NothingGranted, TypeOK, SenderTypeOK, WireTypeOK
<1>2. snd.server_seq \in Nat /\ NoFrame # Response("Accept")
  BY <1>1, NotAccept DEF SenderState
<1>3. \A more \in Seq(WithoutFile) : s2r' = s2r \o more => s2r' \in Seq(WithoutFile)
  BY <1>1, LogGrows
<1>4. /\ EncryptAndSend(snd.server_seq, Disconnection) \in Seq(WithoutFile)
      /\ \A frame \in SharingFrame :
           SendEncryptedFrame(snd.server_seq, frame) \in Seq(WithoutFile)
  BY <1>2, SendWithin, QuietFrames
<1>5. CASE SConnect \/ SServerInit
  <2>1. \A kind1, kind2 \in PlainKind : <<Plain(kind1), Plain(kind2)>> \in Seq(WithoutFile)
    BY QuietFrames, PairInSeq
  <2>2. s2r' \in Seq(WithoutFile)
    BY <1>3, <1>5, <2>1 DEF SConnect, SServerInit, PlainKind
  <2>3. snd'.buf = snd.buf /\ snd'.state # "SendingFiles"
    BY <1>1, <1>5 DEF SConnect, SServerInit, SenderState
  <2>4. QED BY <1>1, <2>2, <2>3
<1>6. CASE SConnectionResponse \/ SPairedKeyEncryption
  <2>1. s2r' \in Seq(WithoutFile)
    BY <1>3, <1>4, <1>6, SharingFrameTypes DEF SConnectionResponse, SPairedKeyEncryption
  <2>2. snd'.buf \in {snd.buf, NoFrame} /\ snd'.state # "SendingFiles"
    BY <1>1, <1>6 DEF SConnectionResponse, SPairedKeyEncryption, SenderState
  <2>3. QED BY <1>1, <1>2, <2>1, <2>2
<1>7. CASE SPairedKeyResult
  <2>1. PICK missing \in SUBSET Vanishing :
          /\ s2r' = s2r \o SendEncryptedFrame(snd.server_seq,
                                              Introduction(Files \ missing))
          /\ snd' = [snd EXCEPT !.state = "SentIntroduction",
                                !.client_seq = @ + 1, !.server_seq = @ + 2,
                                !.buf = NoFrame, !.todo = Files \ missing]
    BY <1>7 DEF SPairedKeyResult
  <2>2. s2r' \in Seq(WithoutFile)
    BY <1>3, <1>4, <2>1, SharingFrameTypes
  <2>3. snd'.buf = NoFrame /\ snd'.state = "SentIntroduction"
    BY <1>1, <2>1 DEF SenderState
  <2>4. QED BY <1>2, <2>2, <2>3
<1>8. CASE SBytesData
  <2>1. SHead \in WithoutAccept /\ SHead.kind = "SecureMessage"
    BY <1>1, <1>8 DEF SBytesData, SReadsSecure, SReads, SHead, InSequence
  <2>2. SHead.body.frame # Response("Accept")
    BY <1>8, <2>1 DEF SBytesData, WithoutAccept
  <2>3. snd'.buf = SHead.body.frame /\ snd'.state = snd.state /\ s2r' = s2r
    BY <1>1, <1>8 DEF SBytesData, SenderState
  <2>4. QED BY <1>1, <2>2, <2>3
<1>9. CASE SConsentGiven
  BY <1>1, <1>9 DEF SConsentGiven
<1>10. CASE SConsentDenied
  <2>1. s2r' \in Seq(WithoutFile)
    BY <1>3, <1>4, <1>10 DEF SConsentDenied
  <2>2. snd'.buf = NoFrame /\ snd'.state = "Disconnected"
    BY <1>1, <1>10 DEF SConsentDenied, SenderState
  <2>3. QED BY <1>2, <2>1, <2>2
<1>11. CASE SSharingIgnored \/ SDisconnection
  <2>1. snd'.buf \in {snd.buf, NoFrame} /\ snd'.state = snd.state /\ s2r' = s2r
    BY <1>1, <1>11 DEF SSharingIgnored, SDisconnection, SenderState
  <2>2. QED BY <1>1, <1>2, <2>1
<1>12. CASE SSendLoop
  BY <1>1, <1>12
     DEF SSendLoop, SNextFile, SReadAndSend, SSendLast, SFinish, SSending
<1>13. CASE SCancel
  <2>1. s2r' \in Seq(WithoutFile)
    BY <1>3, <1>4, <1>13 DEF SCancel
  <2>2. snd'.buf = snd.buf /\ snd'.state = "Cancelled"
    BY <1>1, <1>13 DEF SCancel, SenderState
  <2>3. QED BY <1>1, <2>1, <2>2
<1>14. CASE SConnectionLost \/ SSourceFails \/ SStop
  BY <1>1, <1>14 DEF SConnectionLost, SSourceFails, SStop, SExitOnError
<1>15. QED
  BY <1>5, <1>6, <1>7, <1>8, <1>9, <1>10, <1>11, <1>12, <1>13, <1>14
     DEF SenderNext, SenderStep, SHandleFrame

(* Only an Accept that the receiving task takes puts one on the wire or     *)
(* makes a file appear.                                                     *)
LEMMA ReceiverGrantsOnAccept ==
    ASSUME TypeOK, NothingGranted, ReceiverNext,
           ~RTakes("Accept")
    PROVE  /\ r2s' \in Seq(WithoutAccept)
           /\ \A f \in Files : ~disk'[f].exists
<1>1. /\ rcv \in ReceiverState /\ disk \in [Files -> Stored]
      /\ r2s \in Seq(WithoutAccept)
      /\ \A f \in Files : ~disk[f].exists
  BY DEF NothingGranted, TypeOK, ReceiverTypeOK
<1>2. rcv.server_seq \in Nat
  BY <1>1 DEF ReceiverState
<1>3. \A more \in Seq(WithoutAccept) : r2s \o more \in Seq(WithoutAccept)
  BY <1>1, LogGrows
<1>4. /\ EncryptAndSend(rcv.server_seq, Disconnection) \in Seq(WithoutAccept)
      /\ SendEncryptedFrame(rcv.server_seq, PairedKeyEncryption) \in Seq(WithoutAccept)
      /\ SendEncryptedFrame(rcv.server_seq, PairedKeyResult) \in Seq(WithoutAccept)
      /\ SendEncryptedFrame(rcv.server_seq, Response("Reject")) \in Seq(WithoutAccept)
      /\ SendEncryptedFrame(rcv.server_seq, Response("Unsupported"))
           \in Seq(WithoutAccept)
  BY <1>2, SendWithin, QuietFrames, NotAccept, SharingFrameTypes
<1>5. CASE RClientInit \/ RConnectionResponse
  <2>1. \A kind \in PlainKind : <<Plain(kind)>> \in Seq(WithoutAccept)
    BY QuietFrames
  <2>2. \A kind \in PlainKind : r2s \o <<Plain(kind)>> \in Seq(WithoutAccept)
    BY <1>3, <2>1
  <2>3. r2s \o <<Plain("ConnectionResponse")>>
            \o SendEncryptedFrame(rcv.server_seq, PairedKeyEncryption)
          \in Seq(WithoutAccept)
    BY <1>4, <2>2, LogGrows DEF PlainKind
  <2>4. QED BY <1>1, <1>5, <2>2, <2>3 DEF RClientInit, RConnectionResponse, PlainKind
<1>6. CASE RPairedKeyEncryption \/ REmptyIntroduction \/ RReject \/ RCancel
  BY <1>1, <1>3, <1>4, <1>6
     DEF RPairedKeyEncryption, REmptyIntroduction, RReject, RCancel
<1>7. CASE RFileChunk
  <2>1. RHead.body.file \in Files
    <3>1. RHead \in Frame /\ RHead.kind = "SecureMessage"
      BY <1>7 DEF RFileChunk, RReadsSecure, RReads, RHead, InSequence, TypeOK, WireTypeOK
    <3>2. QED BY <1>7, <3>1, FrameCases DEF RFileChunk
  <2>2. ASSUME NEW file \in Files, NEW len, NEW f \in Files
        PROVE  WriteAll(file, len)[f].exists = disk[f].exists
    BY <1>1 DEF WriteAll
  <2>3. disk' = WriteAll(RHead.body.file, RHead.body.len) /\ r2s' = r2s
    BY <1>7, Zenon DEF RFileChunk
  <2>4. QED BY <1>1, <2>1, <2>2, <2>3
<1>8. CASE RFileLast
  <2>1. r2s' = r2s \/ r2s' = r2s \o EncryptAndSend(rcv.server_seq, Disconnection)
    BY <1>8 DEF RFileLast
  <2>2. disk' = disk
    BY <1>8 DEF RFileLast
  <2>3. QED BY <1>1, <1>3, <1>4, <2>1, <2>2
<1>9. CASE RAccept \/ RAcceptFails
  BY <1>9 DEF RAccept, RAcceptFails
<1>10. CASE \/ RConnectionRequest \/ RClientFinish \/ RBytesData
            \/ RPairedKeyResult \/ RIntroduction \/ RDisconnection
            \/ RStoreFails \/ RBadFrame \/ RConnectionLost \/ RCrash
  BY <1>1, <1>10
     DEF RConnectionRequest, RClientFinish, RBytesData, RPairedKeyResult,
         RIntroduction, RDisconnection, RStoreFails, RBadFrame, RConnectionLost,
         RCrash, RExitOnError
<1>11. QED
  BY <1>5, <1>6, <1>7, <1>8, <1>9, <1>10
     DEF ReceiverNext, ReceiverStep, RHandleFrame, RHandleCommand

(* What the receiving task has taken stays taken. *)
LEMMA AcceptTakenStays ==
    ASSUME TypeOK, [Next]_vars, AcceptTaken
    PROVE  AcceptTaken'
<1>1. rTaken \in 0..Len(rClicks) /\ rClicks \in Seq(Answer \cup {"Cancel"})
  BY DEF TypeOK, ReceiverTypeOK
<1>2. PICK i \in 1..rTaken : rClicks[i] = "Accept"
  BY DEF AcceptTaken
<1>3. rTaken' \in {rTaken, rTaken + 1}
  <2>1. CASE Receiver
    <3>1. ReceiverNext => \/ rTaken' = rTaken
                          \/ \E click : RTakes(click)
      BY DEF ReceiverNext, ReceiverStep, RHandleFrame, RHandleCommand,
             RConnectionRequest, RClientInit, RClientFinish, RConnectionResponse,
             RBytesData, RPairedKeyEncryption, RPairedKeyResult, RIntroduction,
             REmptyIntroduction, RFileChunk, RFileLast, RDisconnection, RBadFrame,
             RAccept, RReject, RCancel, RConnectionLost, RAcceptFails, RStoreFails,
             RCrash, RReadsSharing, RReadsSecure, RReads
    <3>2. QED BY <2>1, <3>1 DEF Receiver, RTakes
  <2>2. CASE Sender
    BY <2>2 DEF Sender, receiverVars
  <2>3. CASE FrontEnd \/ User \/ Done \/ UNCHANGED vars
    BY <2>3 DEF FrontEnd, SShow, RShow, User, UserAnswers, SUserCancels,
                RUserCancels, Done, vars, receiverVars
  <2>4. QED BY <2>1, <2>2, <2>3 DEF Next
<1>4. rClicks' = rClicks \/ \E click \in Answer \cup {"Cancel"} : rClicks' = Append(rClicks, click)
  BY DEF Next, Sender, Receiver, FrontEnd, SShow, RShow, User, UserAnswers,
         SUserCancels, RUserCancels, Done, vars, uiVars
<1>5. rClicks'[i] = "Accept"
  <2>1. i \in 1..Len(rClicks)
    BY <1>1, <1>2
  <2>2. CASE rClicks' = rClicks
    BY <1>2, <2>2
  <2>3. ASSUME NEW click \in Answer \cup {"Cancel"}, rClicks' = Append(rClicks, click)
        PROVE  rClicks'[i] = "Accept"
    BY <1>1, <1>2, <2>1, <2>3
  <2>4. QED BY <1>4, <2>2, <2>3
<1>6. i \in 1..rTaken'
  BY <1>1, <1>2, <1>3
<1>7. QED BY <1>5, <1>6 DEF AcceptTaken

(* ConsentInv is inductive. *)
LEMMA ConsentInvStays ==
    ASSUME TypeOK, [Next]_vars, ConsentInv
    PROVE  ConsentInv'
<1>1. CASE AcceptTaken
  BY <1>1, AcceptTakenStays DEF ConsentInv
<1>2. CASE NothingGranted /\ Sender
  <2>1. NothingGranted'
    BY <1>2, SenderGrantsNothing DEF Sender, receiverVars, NothingGranted
  <2>2. QED BY <2>1 DEF ConsentInv
<1>3. CASE NothingGranted /\ Receiver
  <2>1. CASE RTakes("Accept")
    <3>1. rTaken' \in 1..rTaken' /\ rClicks'[rTaken'] = "Accept"
      BY <1>3, <2>1 DEF RTakes, Receiver, uiVars, TypeOK, ReceiverTypeOK
    <3>2. QED BY <3>1 DEF AcceptTaken, ConsentInv
  <2>2. CASE ~RTakes("Accept")
    <3>1. NothingGranted'
      BY <1>3, <2>2, ReceiverGrantsOnAccept DEF Receiver, senderVars, NothingGranted
    <3>2. QED BY <3>1 DEF ConsentInv
  <2>3. QED BY <2>1, <2>2
<1>4. CASE NothingGranted /\ (FrontEnd \/ User \/ Done \/ UNCHANGED vars)
  <2>1. NothingGranted'
    BY <1>4 DEF FrontEnd, SShow, RShow, User, UserAnswers, SUserCancels,
                RUserCancels, Done, vars, senderVars, receiverVars, NothingGranted
  <2>2. QED BY <2>1 DEF ConsentInv
<1>5. QED BY <1>1, <1>2, <1>3, <1>4 DEF ConsentInv, Next

(* No byte of a file leaves the sender, and no file appears on the receiver, *)
(* before the receiving user's Accept was taken: process_consent against     *)
(* accept_transfer, however often the user clicks and whatever fails.        *)
THEOREM ConsentComesFirst == Spec => []ConsentBeforeBytes
<1>1. Init => ConsentInv
  <2> SUFFICES ASSUME Init PROVE NothingGranted
    BY DEF ConsentInv
  <2> QED BY NotAccept DEF Init, WireInit, SenderInit, ReceiverInit, NothingGranted
<1>2. TypeOK /\ ConsentInv /\ [Next]_vars => ConsentInv'
  BY ConsentInvStays
<1>3. ConsentInv => ConsentBeforeBytes
  <2> SUFFICES ASSUME NothingGranted PROVE ConsentBeforeBytes
    BY DEF ConsentInv, ConsentBeforeBytes
  <2>1. FileFrames = {}
    BY DEF NothingGranted, FileFrames, WithoutFile
  <2>2. QED BY <2>1 DEF NothingGranted, ConsentBeforeBytes
<1>4. QED BY <1>1, <1>2, <1>3, TypeCorrect, PTL DEF Spec

-----------------------------------------------------------------------------
(* Last words.  A task that published a last word has ended, but for a      *)
(* sender that published Finished and goes on reading.                      *)

LastWordInv ==
    /\ LastOf(rPub) \in {"Finished", "Disconnected"} => ~rUp
    /\ rUp => rcv.state \notin {"Finished", "Disconnected"}
    /\ LastOf(sPub) \in {"Cancelled", "Disconnected"} => ~sUp
    /\ LastOf(sPub) = "Finished" /\ sUp => snd.state = "Finished"

(* What was published last. *)
LEMMA LastOfAppend ==
    ASSUME NEW pub \in Seq(State), NEW x \in State
    PROVE  /\ LastOf(Append(pub, x)) = x
           /\ \A y \in State : LastOf(pub \o <<y, x>>) = x
<1>1. LastOf(Append(pub, x)) = x
  BY DEF LastOf
<1>2. ASSUME NEW y \in State PROVE LastOf(pub \o <<y, x>>) = x
  <2>1. /\ pub \o <<y, x>> \in Seq(State)
        /\ Len(pub \o <<y, x>>) = Len(pub) + 2
        /\ (pub \o <<y, x>>)[Len(pub) + 2] = x
    OBVIOUS
  <2>2. pub \o <<y, x>> # <<>>
    BY <2>1
  <2>3. QED BY <2>1, <2>2 DEF LastOf
<1>3. QED BY <1>1, <1>2

(* The sender publishes while its task runs, and a last word when it ends; *)
(* after Finished it can only add Cancelled.                               *)
LEMMA SenderLastWord ==
    ASSUME TypeOK, LastWordInv, SenderNext
    PROVE  /\ sUp
           /\ LastOf(sPub)' \in {"Cancelled", "Disconnected"} => ~sUp'
           /\ LastOf(sPub)' = "Finished" /\ sUp' => snd'.state = "Finished"
           /\ LastOf(sPub) = "Finished" =>
                sPub' = sPub \/ sPub' = Append(sPub, "Cancelled")
<1>1. sPub \in Seq(State) /\ snd \in SenderState /\ snd.state \in State
  BY DEF TypeOK, SenderTypeOK, SenderState
<1>2. sUp
  BY DEF SenderNext, SenderStep, SHandleFrame, SSendLoop, SConnect, SServerInit,
         SConnectionResponse, SBytesData, SPairedKeyEncryption, SPairedKeyResult,
         SConsentGiven, SConsentDenied, SSharingIgnored, SDisconnection, SNextFile,
         SReadAndSend, SSendLast, SFinish, SCancel, SConnectionLost, SSourceFails,
         SStop, SSending, SReadsSharing, SReadsSecure, SReads
<1>3. /\ LastOf(sPub) \notin {"Cancelled", "Disconnected"}
      /\ LastOf(sPub) = "Finished" => snd.state = "Finished"
  BY <1>2 DEF LastWordInv
<1>4. /\ "Disconnected" \in State /\ "Finished" \in State /\ "Cancelled" \in State
      /\ "SendingFiles" \in State /\ "SentIntroduction" \in State
  BY DEF State
<1>5. \A x \in State : LastOf(Append(sPub, x)) = x
  BY <1>1, LastOfAppend
<1>6. CASE /\ sPub' = sPub
           /\ snd'.state = snd.state \/ snd.state # "Finished"
  BY <1>2, <1>3, <1>6 DEF LastOf
<1>7. CASE SConnect \/ SConnectionResponse \/ SPairedKeyEncryption
  BY <1>6, <1>7
     DEF SConnect, SConnectionResponse, SPairedKeyEncryption
<1>8. CASE SServerInit
  BY <1>1, <1>2, <1>3, <1>5, <1>8 DEF SServerInit, LastOf
<1>9. CASE SBytesData \/ SSharingIgnored \/ SDisconnection
  <2>1. snd'.state = snd.state /\ sPub' = sPub
    BY <1>1, <1>9 DEF SBytesData, SSharingIgnored, SDisconnection, SenderState
  <2>2. QED BY <1>6, <2>1
<1>10. CASE SPairedKeyResult \/ SConsentGiven
  <2>1. /\ snd.state # "Finished"
        /\ \/ sPub' = Append(sPub, "SentIntroduction")
           \/ sPub' = Append(sPub, "SendingFiles")
    BY <1>10 DEF SPairedKeyResult, SConsentGiven
  <2>2. LastOf(sPub)' \in {"SentIntroduction", "SendingFiles"}
    BY <1>4, <1>5, <2>1 DEF LastOf
  <2>3. QED BY <1>2, <1>3, <2>1, <2>2
<1>11. CASE SConsentDenied
  <2>1. /\ snd.state # "Finished" /\ ~sUp'
        /\ \/ sPub' = Append(sPub, "Disconnected")
           \/ sPub' = sPub \o <<"Disconnected", "Disconnected">>
    BY <1>11 DEF SConsentDenied
  <2>2. LastOf(sPub)' = "Disconnected"
    BY <1>1, <1>4, <1>5, <2>1, LastOfAppend DEF LastOf
  <2>3. QED BY <1>2, <1>3, <2>1, <2>2
<1>12. CASE \E f \in Files : SNextFile(f) \/ SSendLast(f)
  BY <1>6, <1>12 DEF SNextFile, SSendLast, SSending
<1>13. CASE \E f \in Files, n \in 0..ReadBuffer : SReadAndSend(f, n)
  <2>1. /\ snd.state = "SendingFiles"
        /\ sPub' = sPub \/ sPub' = Append(sPub, "SendingFiles")
    BY <1>13 DEF SReadAndSend, SSending
  <2>2. LastOf(sPub)' \in {LastOf(sPub), "SendingFiles"}
    BY <1>4, <1>5, <2>1 DEF LastOf
  <2>3. QED BY <1>2, <1>3, <2>1, <2>2
<1>14. CASE SFinish
  <2>1. /\ snd.state = "SendingFiles" /\ sPub' = Append(sPub, "Finished")
        /\ snd'.state = "Finished"
    BY <1>1, <1>14 DEF SFinish, SSending, SenderState
  <2>2. LastOf(sPub)' = "Finished"
    BY <1>4, <1>5, <2>1 DEF LastOf
  <2>3. QED BY <1>2, <1>3, <2>1, <2>2
<1>15. CASE SCancel
  <2>1. sPub' = Append(sPub, "Cancelled") /\ ~sUp'
    BY <1>15 DEF SCancel
  <2>2. LastOf(sPub)' = "Cancelled"
    BY <1>4, <1>5, <2>1 DEF LastOf
  <2>3. QED BY <1>2, <2>1, <2>2
<1>16. CASE SConnectionLost \/ SSourceFails
  <2>1. SExitOnError
    BY <1>16 DEF SConnectionLost, SSourceFails
  <2>2. /\ ~sUp' /\ snd' = snd
        /\ \/ sPub' = sPub
           \/ snd.state # "Finished" /\ sPub' = Append(sPub, "Disconnected")
    BY <1>1, <2>1 DEF SExitOnError
  <2>3. QED BY <1>2, <1>3, <2>2
<1>17. CASE SStop
  BY <1>2, <1>17 DEF SStop
<1>18. QED
  BY <1>7, <1>8, <1>9, <1>10, <1>11, <1>12, <1>13, <1>14, <1>15, <1>16, <1>17
     DEF SenderNext, SenderStep, SHandleFrame, SSendLoop

(* The receiver publishes nothing once it has published a last word. *)
LEMMA ReceiverLastWord ==
    ASSUME TypeOK, LastWordInv, ReceiverNext
    PROVE  /\ rUp
           /\ LastOf(rPub)' \in {"Finished", "Disconnected"} => ~rUp'
           /\ rUp' => rcv'.state \notin {"Finished", "Disconnected"}
<1>1. rPub \in Seq(State) /\ rcv \in ReceiverState /\ rcv.state \in State
  BY DEF TypeOK, ReceiverTypeOK, ReceiverState
<1>2. rUp
  BY DEF ReceiverNext, ReceiverStep, RHandleFrame, RHandleCommand,
         RConnectionRequest, RClientInit, RClientFinish, RConnectionResponse,
         RBytesData, RPairedKeyEncryption, RPairedKeyResult, RIntroduction,
         REmptyIntroduction, RFileChunk, RFileLast, RDisconnection, RBadFrame,
         RAccept, RReject, RCancel, RConnectionLost, RAcceptFails, RStoreFails,
         RCrash, RTakes, RReadsSharing, RReadsSecure, RReads
<1>3. /\ LastOf(rPub) \notin {"Finished", "Disconnected"}
      /\ rcv.state \notin {"Finished", "Disconnected"}
  BY <1>2 DEF LastWordInv
<1>4. \A x \in State : LastOf(Append(rPub, x)) = x
  BY <1>1, LastOfAppend
<1>5. /\ "WaitingForUserConsent" \in State /\ "ReceivingFiles" \in State
  BY DEF State
<1>6. CASE ~rUp'
  BY <1>2, <1>6
<1>7. CASE /\ rPub' = rPub
           /\ rcv'.state \notin {"Finished", "Disconnected"}
  BY <1>2, <1>3, <1>7 DEF LastOf
<1>8. CASE \/ RConnectionRequest \/ RClientInit \/ RClientFinish
           \/ RConnectionResponse \/ RPairedKeyEncryption \/ RPairedKeyResult
           \/ REmptyIntroduction
  BY <1>1, <1>7, <1>8
     DEF RConnectionRequest, RClientInit, RClientFinish, RConnectionResponse,
         RPairedKeyEncryption, RPairedKeyResult, REmptyIntroduction, ReceiverState
<1>9. CASE RBytesData \/ RDisconnection
  BY <1>1, <1>3, <1>7, <1>9 DEF RBytesData, RDisconnection, ReceiverState
<1>10. CASE RIntroduction \/ RAccept
  <2>1. /\ rcv'.state \in {"WaitingForUserConsent", "ReceivingFiles"}
        /\ rPub' = Append(rPub, rcv'.state)
    BY <1>1, <1>10 DEF RIntroduction, RAccept, ReceiverState
  <2>2. LastOf(rPub)' = rcv'.state
    BY <1>4, <1>5, <2>1 DEF LastOf
  <2>3. QED BY <1>2, <2>1, <2>2
<1>11. CASE RFileChunk
  <2>1. rPub' = rPub \/ rPub' = Append(rPub, rcv.state)
    BY <1>11 DEF RFileChunk
  <2>2. rcv'.state = rcv.state
    <3>1. PICK noted \in Nat :
            rcv' = [rcv EXCEPT !.client_seq = @ + 1,
                               !.got[RHead.body.file] = @ + RHead.body.len,
                               !.ack = rcv.ack + RHead.body.len, !.noted = noted]
      BY <1>11, ChunkCounted
    <3>2. QED BY <1>1, <3>1 DEF ReceiverState
  <2>3. LastOf(rPub)' \in {LastOf(rPub), rcv.state}
    BY <1>1, <1>4, <2>1 DEF LastOf
  <2>4. QED BY <1>2, <1>3, <2>2, <2>3
<1>12. CASE RFileLast
  <2>1. CASE rcv.files \ {RHead.body.file} = {}
    BY <1>6, <1>12, <2>1 DEF RFileLast
  <2>2. CASE rcv.files \ {RHead.body.file} # {}
    <3>1. rPub' = rPub
      BY <1>12, <2>2 DEF RFileLast
    <3>2. rcv'.state = rcv.state
      BY <1>1, <1>12, <2>2 DEF RFileLast, ReceiverState
    <3>3. QED BY <1>3, <1>7, <3>1, <3>2
  <2>3. QED BY <2>1, <2>2
<1>13. CASE \/ RReject \/ RCancel \/ RConnectionLost \/ RAcceptFails
            \/ RStoreFails \/ RBadFrame \/ RCrash
  BY <1>6, <1>13
     DEF RReject, RCancel, RConnectionLost, RAcceptFails, RStoreFails, RBadFrame,
         RCrash, RExitOnError
<1>14. QED
  BY <1>8, <1>9, <1>10, <1>11, <1>12, <1>13
     DEF ReceiverNext, ReceiverStep, RHandleFrame, RHandleCommand

(* What either front end shows last is final, whatever is clicked and       *)
(* whatever fails: the error arms of connect() and of the task run() spawns *)
(* stay silent after a last word, but for the sender's late Cancel.         *)
THEOREM LastWordIsFinal == Spec => LastWordStands
<1>1. Init => LastWordInv
  BY DEF Init, SenderInit, ReceiverInit, LastOf, LastWordInv
<1>2. ASSUME TypeOK, LastWordInv, [Next]_vars
      PROVE  /\ LastWordInv'
             /\ LastOf(rPub) \in {"Finished", "Disconnected"} => rPub' = rPub
             /\ LastOf(sPub) \in {"Cancelled", "Disconnected"} => sPub' = sPub
             /\ LastOf(sPub) = "Finished" =>
                  sPub' \in {sPub, Append(sPub, "Cancelled")}
  <2>1. CASE Sender
    <3>1. UNCHANGED <<rUp, rPub, rcv>>
      BY <2>1 DEF Sender, receiverVars
    <3>2. QED BY <1>2, <2>1, <3>1, SenderLastWord DEF Sender, LastWordInv, LastOf
  <2>2. CASE Receiver
    <3>1. UNCHANGED <<sUp, sPub, snd>>
      BY <2>2 DEF Receiver, senderVars
    <3>2. QED BY <1>2, <2>2, <3>1, ReceiverLastWord DEF Receiver, LastWordInv, LastOf
  <2>3. CASE FrontEnd \/ User \/ Done \/ UNCHANGED vars
    <3>1. UNCHANGED <<sUp, sPub, snd, rUp, rPub, rcv>>
      BY <2>3 DEF FrontEnd, SShow, RShow, User, UserAnswers, SUserCancels,
                  RUserCancels, Done, vars, senderVars, receiverVars
    <3>2. QED BY <1>2, <3>1 DEF LastWordInv, LastOf
  <2>4. QED BY <1>2, <2>1, <2>2, <2>3 DEF Next
<1>3. QED BY <1>1, <1>2, TypeCorrect, PTL DEF Spec, LastWordStands
=============================================================================
