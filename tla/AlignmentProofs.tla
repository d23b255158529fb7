-------------------------- MODULE AlignmentProofs ---------------------------
(***************************************************************************)
(* Theorems about how the two ends of Connection stay in step, for every   *)
(* value of its constants, and that they implement Offer.  The inductive   *)
(* invariant says what each log holds, frame by frame, where in the peer's *)
(* log an end that runs is, and what it knows of what it has written and   *)
(* read.                                                                   *)
(***************************************************************************)
EXTENDS ConnectionProofs, FiniteSetTheorems

-----------------------------------------------------------------------------
(* What the two logs hold.  A frame of the sender's log: those of the setup *)
(* each at its place, then chunks that continue each other, and goodbyes.   *)

IsChunk(log, i) == log[i].kind = "SecureMessage" /\ log[i].body.type = "File"
ChunkOf(log, i, f) == IsChunk(log, i) /\ log[i].body.file = f
LastOfFile(log, i, f) == ChunkOf(log, i, f) /\ log[i].body.last
Opens(log, i) ==
    log[i].kind = "SecureMessage" /\ log[i].body.type = "Bytes" /\ ~log[i].body.last

(* The files of the introduction. *)
Announced(log) == log[10].body.frame.files

(* A chunk is where the one before it ends, or is the first of its file; it *)
(* is not after the last one.                                               *)
ChunkInPlace(log, i) ==
    LET c == log[i].body IN
    /\ c.type = "File" /\ c.file \in Announced(log)
    /\ c.last => c.len = 0 /\ c.off = Size[c.file]
    /\ c.off = 0 => \A j \in 1..(i - 1) : ~ChunkOf(log, j, c.file)
    /\ c.off > 0 => /\ ChunkOf(log, i - 1, c.file)
                    /\ c.off = log[i - 1].body.off + log[i - 1].body.len
    /\ \A j \in 1..(i - 1) : ~LastOfFile(log, j, c.file)

SFrame(log, i) ==
    /\ i = 1 => log[i] = Plain("ConnectionRequest")
    /\ i = 2 => log[i] = Plain("ClientInit")
    /\ i = 3 => log[i] = Plain("ClientFinish")
    /\ i = 4 => log[i] = Plain("ConnectionResponse")
    /\ i = 5 => log[i] = Secure(1, Bytes(PairedKeyEncryption, FALSE))
    /\ i = 6 => log[i] = Secure(2, Bytes(PairedKeyEncryption, TRUE))
    /\ i = 7 => log[i] = Secure(3, Bytes(PairedKeyResult, FALSE))
    /\ i = 8 => log[i] = Secure(4, Bytes(PairedKeyResult, TRUE))
    /\ i = 9 => \E F \in SUBSET Files : log[i] = Secure(5, Bytes(Introduction(F), FALSE))
    /\ i = 10 => \E F \in SUBSET Files : /\ log[i] = Secure(6, Bytes(Introduction(F), TRUE))
                                         /\ log[9] = Secure(5, Bytes(Introduction(F), FALSE))
    /\ i > 10 => /\ log[i].kind = "SecureMessage" /\ log[i].seq = i - 4
                 /\ log[i].body = Disconnection \/ ChunkInPlace(log, i)

(* A frame of the receiver's log: those of the setup, then answers, each a  *)
(* payload of two chunks, and goodbyes.                                     *)
RFrame(log, i) ==
    /\ i = 1 => log[i] = Plain("ServerInit")
    /\ i = 2 => log[i] = Plain("ConnectionResponse")
    /\ i = 3 => log[i] = Secure(1, Bytes(PairedKeyEncryption, FALSE))
    /\ i = 4 => log[i] = Secure(2, Bytes(PairedKeyEncryption, TRUE))
    /\ i = 5 => log[i] = Secure(3, Bytes(PairedKeyResult, FALSE))
    /\ i = 6 => log[i] = Secure(4, Bytes(PairedKeyResult, TRUE))
    /\ i > 6 => /\ log[i].kind = "SecureMessage" /\ log[i].seq = i - 2
                /\ \/ log[i].body = Disconnection
                   \/ \E status \in {"Accept", "Reject", "Unsupported"} :
                        \/ log[i].body = Bytes(Response(status), FALSE)
                        \/ /\ log[i].body = Bytes(Response(status), TRUE)
                           /\ log[i - 1].body = Bytes(Response(status), FALSE)

SLog == \A i \in 1..Len(s2r) : SFrame(s2r, i)
RLog == /\ \A i \in 1..Len(r2s) : RFrame(r2s, i)
        /\ Len(s2r) = 0 => Len(r2s) = 0

(* How many frames an end has written and read in each state. *)
SPlace(state, wrote, read) ==
    \/ state = "Initial" /\ wrote = 0 /\ read = 0
    \/ state = "SentUkeyClientInit" /\ wrote = 2 /\ read = 0
    \/ state = "SentUkeyClientFinish" /\ wrote = 4 /\ read = 1
    \/ state = "SentPairedKeyEncryption" /\ wrote = 6 /\ read \in {2, 3}
    \/ state = "SentPairedKeyResult" /\ wrote = 8 /\ read \in {4, 5}
    \/ state = "SentIntroduction" /\ wrote = 10 /\ read >= 6
    \/ state \in {"SendingFiles", "Finished"} /\ wrote >= 10 /\ read >= 6

RPlace(state, wrote, read) ==
    \/ state = "Initial" /\ wrote = 0 /\ read = 0
    \/ state = "ReceivedConnectionRequest" /\ wrote = 0 /\ read = 1
    \/ state = "SentUkeyServerInit" /\ wrote = 1 /\ read = 2
    \/ state = "ReceivedUkeyClientFinish" /\ wrote = 1 /\ read = 3
    \/ state = "SentConnectionResponse" /\ wrote = 4 /\ read \in {4, 5}
    \/ state = "SentPairedKeyResult" /\ wrote = 6 /\ read \in {6, 7}
    \/ state = "ReceivedPairedKeyResult" /\ wrote = 6 /\ read \in {8, 9}
    \/ state \in {"WaitingForUserConsent", "ReceivingFiles"} /\ wrote >= 6 /\ read >= 10

(* An end that runs is where its state says, its counters are those of the *)
(* logs, and it holds the payload that was opened last.                     *)
SInStep == sUp =>
    /\ SPlace(snd.state, Len(s2r), sRead)
    /\ Len(s2r) >= 4 => snd.server_seq = Len(s2r) - 4
    /\ Len(s2r) < 4 => snd.server_seq = 0
    /\ sRead >= 2 => snd.client_seq = sRead - 2
    /\ sRead < 2 => snd.client_seq = 0
    /\ sRead > 0 /\ Opens(r2s, sRead) => snd.buf = r2s[sRead].body.frame

RInStep == rUp =>
    /\ RPlace(rcv.state, Len(r2s), rRead)
    /\ Len(r2s) >= 2 => rcv.server_seq = Len(r2s) - 2
    /\ Len(r2s) < 2 => rcv.server_seq = 0
    /\ rRead >= 4 => rcv.client_seq = rRead - 4
    /\ rRead < 4 => rcv.client_seq = 0
    /\ rRead > 0 /\ Opens(s2r, rRead) => rcv.buf = s2r[rRead].body.frame

(* A user clicks only what the task has come to offer. *)
SAsked ==
    /\ sClicks # <<>> => Published(sPub, "SendingFiles")
    /\ Published(sPub, "SendingFiles") /\ sUp => snd.state \in {"SendingFiles", "Finished"}
RAsked ==
    /\ rClicks # <<>> => rPub # <<>>
    /\ rPub # <<>> /\ rUp => rcv.state \in {"WaitingForUserConsent", "ReceivingFiles"}

(* What the sender has still to send has not been sent. *)
Sending ==
    /\ snd.todo \cup snd.cur # {} =>
         Len(s2r) >= 10 /\ snd.todo \cup snd.cur \subseteq Announced(s2r)
    /\ \A f \in snd.todo : /\ f \notin snd.cur /\ snd.sent[f] = 0
                           /\ \A i \in 1..Len(s2r) : ~ChunkOf(s2r, i, f)
    /\ \A f \in snd.cur :
        /\ snd.cur = {f}
        /\ \A i \in 1..Len(s2r) : ~LastOfFile(s2r, i, f)
        /\ Size[f] > 0
        /\ snd.sent[f] = 0 => \A i \in 1..Len(s2r) : ~ChunkOf(s2r, i, f)
        /\ snd.sent[f] > 0 => /\ ChunkOf(s2r, Len(s2r), f)
                              /\ snd.sent[f] = s2r[Len(s2r)].body.off + s2r[Len(s2r)].body.len
    /\ sUp /\ snd.state # "SendingFiles" => snd.cur = {}
    /\ sUp /\ snd.state \notin {"SendingFiles", "Finished"} =>
         snd.todo = {} \/ snd.state = "SentIntroduction"
    /\ sUp /\ snd.state \notin {"SendingFiles", "Finished"} => \A f \in Files : snd.sent[f] = 0

(* What the receiver has of each file is what it has read of it. *)
Receiving == rUp \/ rcv.state = "Finished" =>
    /\ \A f \in Files : (\A i \in 1..rRead : ~ChunkOf(s2r, i, f)) => rcv.got[f] = 0
    /\ \A f \in Files : rRead > 0 /\ ChunkOf(s2r, rRead, f) =>
            rcv.got[f] = s2r[rRead].body.off + s2r[rRead].body.len
    /\ rRead >= 10 =>
         \A f \in Announced(s2r) \ rcv.files : \E i \in 1..rRead : LastOfFile(s2r, i, f)
    /\ rcv.state = "Finished" => rcv.files = {} /\ rRead > 10 /\ IsChunk(s2r, rRead)

(* A chunk is within the file, unless it grew. *)
Within == "Grown" \notin faults =>
    /\ \A i \in 1..Len(s2r) : IsChunk(s2r, i) =>
         s2r[i].body.off + s2r[i].body.len <= Size[s2r[i].body.file]
    /\ \A f \in snd.cur : snd.sent[f] <= Size[f]

(* A sender that says Disconnected has sent nothing, or not all. *)
Lost == Published(sPub, "Disconnected") =>
    ~sUp /\ (snd.cur # {} \/ \A i \in 1..Len(s2r) : ~IsChunk(s2r, i))

OpenInv == rUp /\ AcceptTaken => rcv.open = rcv.files

(* Where a user may answer once, at most one click is an answer; a task that *)
(* took a Reject has ended without an Accept; and once the Accept was taken  *)
(* what is stored of each file is what was received of it, from its start.   *)
OneClick == \A i, j \in Clicked(rClicks, Answer) : i = j
RejectedFirst == Published(rPub, "Rejected") => ~rUp /\ ~AcceptTaken
StoredFromStart == AcceptTaken /\ (rUp \/ rcv.state = "Finished") =>
    /\ rRead >= 10
    /\ \A f \in Announced(s2r) : disk[f] = [exists |-> TRUE, from |-> 0, to |-> rcv.got[f]]
OneAnswer == MaxAnswers <= 1 => OneClick /\ RejectedFirst /\ StoredFromStart

(* A file whose last chunk was read was received to its end. *)
Sized == rUp \/ rcv.state = "Finished" =>
    \A i \in 1..rRead : \A f \in Files : LastOfFile(s2r, i, f) => rcv.got[f] = Size[f]

(* The sender reports nothing the user has not accepted. *)
Told == Published(sPub, "SendingFiles") \/ Published(sPub, "Finished") => AcceptTaken
-----------------------------------------------------------------------------
(* Facts about frames and logs. *)

(* log is the beginning of longer. *)
Grows(log, longer) ==
    Len(log) <= Len(longer) /\ \A i \in 1..Len(log) : longer[i] = log[i]

(* A step that adds one frame, or two, lengthens the log. *)
LEMMA OneMore ==
    ASSUME NEW log \in Seq(Frame), NEW x \in Frame
    PROVE  /\ Len(log \o <<x>>) = Len(log) + 1
           /\ (log \o <<x>>)[Len(log) + 1] = x
           /\ Grows(log, log \o <<x>>)
BY DEF Grows

(* The same of two frames. *)
LEMMA TwoMore ==
    ASSUME NEW log \in Seq(Frame), NEW x \in Frame, NEW y \in Frame
    PROVE  /\ Len(log \o <<x, y>>) = Len(log) + 2
           /\ (log \o <<x, y>>)[Len(log) + 1] = x
           /\ (log \o <<x, y>>)[Len(log) + 2] = y
           /\ Grows(log, log \o <<x, y>>)
BY DEF Grows

(* A frame depends on those before it only. *)
LEMMA SFrameStays ==
    ASSUME NEW log \in Seq(Frame), NEW longer \in Seq(Frame), Grows(log, longer),
           NEW i \in 1..Len(log), SFrame(log, i)
    PROVE  SFrame(longer, i)
<1>1. \A j \in 1..i : longer[j] = log[j]
  BY DEF Grows
<1>2. longer[i] = log[i] /\ (i > 1 => longer[i - 1] = log[i - 1])
  BY <1>1
<1>3. CASE i <= 9
  <2>1. i # 10 /\ ~(i > 10)
    BY <1>3
  <2>2. longer[i] = log[i]
    BY <1>2
  <2>3. QED BY <2>1, <2>2, Zenon DEF SFrame
<1>4. CASE i = 10
  <2>1. longer[i] = log[i] /\ longer[9] = log[9]
    BY <1>1, <1>4
  <2>2. PICK F \in SUBSET Files : /\ log[i] = Secure(6, Bytes(Introduction(F), TRUE))
                                 /\ log[9] = Secure(5, Bytes(Introduction(F), FALSE))
    BY <1>4 DEF SFrame
  <2>3. /\ longer[i] = Secure(6, Bytes(Introduction(F), TRUE))
        /\ longer[9] = Secure(5, Bytes(Introduction(F), FALSE))
    BY <2>1, <2>2
  <2>4. /\ i # 1 /\ i # 2 /\ i # 3 /\ i # 4 /\ i # 5 /\ i # 6 /\ i # 7
        /\ i # 8 /\ i # 9 /\ ~(i > 10)
    BY <1>4
  <2>5. QED BY <2>3, <2>4, Zenon DEF SFrame
<1>5. CASE i > 10
  <2>1. /\ longer[i] = log[i] /\ longer[i - 1] = log[i - 1] /\ longer[10] = log[10]
        /\ \A j \in 1..(i - 1) : longer[j] = log[j]
    BY <1>1, <1>5
  <2>2. ChunkInPlace(log, i) => ChunkInPlace(longer, i)
    BY <1>5, <2>1 DEF ChunkInPlace, ChunkOf, IsChunk, LastOfFile, Announced
  <2>3. /\ log[i].kind = "SecureMessage" /\ log[i].seq = i - 4
        /\ log[i].body = Disconnection \/ ChunkInPlace(log, i)
    BY <1>5 DEF SFrame
  <2>4. /\ longer[i].kind = "SecureMessage" /\ longer[i].seq = i - 4
        /\ longer[i].body = Disconnection \/ ChunkInPlace(longer, i)
    BY <2>1, <2>2, <2>3
  <2>5. /\ i # 1 /\ i # 2 /\ i # 3 /\ i # 4 /\ i # 5 /\ i # 6 /\ i # 7
        /\ i # 8 /\ i # 9 /\ i # 10
    BY <1>5
  <2>6. QED BY <2>4, <2>5 DEF SFrame
<1>6. QED BY <1>3, <1>4, <1>5

(* The same of the receiver's log. *)
LEMMA RFrameStays ==
    ASSUME NEW log \in Seq(Frame), NEW longer \in Seq(Frame), Grows(log, longer),
           NEW i \in 1..Len(log), RFrame(log, i)
    PROVE  RFrame(longer, i)
<1>1. \A j \in 1..i : longer[j] = log[j]
  BY DEF Grows
<1>2. longer[i] = log[i] /\ (i > 6 => longer[i - 1] = log[i - 1])
  BY <1>1
<1>3. QED BY <1>2 DEF RFrame

(* So a log is kept by a step that adds good frames. *)
LEMMA SLogStays ==
    ASSUME NEW log \in Seq(Frame), NEW longer \in Seq(Frame), Grows(log, longer),
           \A i \in 1..Len(log) : SFrame(log, i),
           \A i \in (Len(log) + 1)..Len(longer) : SFrame(longer, i)
    PROVE  \A i \in 1..Len(longer) : SFrame(longer, i)
<1> SUFFICES ASSUME NEW i \in 1..Len(longer) PROVE SFrame(longer, i)
  OBVIOUS
<1>1. CASE i <= Len(log)
  BY <1>1, SFrameStays
<1>2. CASE i > Len(log)
  BY <1>2
<1>3. QED BY <1>1, <1>2

(* The same of the receiver's log. *)
LEMMA RLogStays ==
    ASSUME NEW log \in Seq(Frame), NEW longer \in Seq(Frame), Grows(log, longer),
           \A i \in 1..Len(log) : RFrame(log, i),
           \A i \in (Len(log) + 1)..Len(longer) : RFrame(longer, i)
    PROVE  \A i \in 1..Len(longer) : RFrame(longer, i)
<1> SUFFICES ASSUME NEW i \in 1..Len(longer) PROVE RFrame(longer, i)
  OBVIOUS
<1>1. CASE i <= Len(log)
  BY <1>1, RFrameStays
<1>2. CASE i > Len(log)
  BY <1>2
<1>3. QED BY <1>1, <1>2

(* What may be said of frame i, in one line each. *)
LEMMA SFrameCases ==
    ASSUME NEW log \in Seq(Frame), NEW i \in 1..Len(log), SFrame(log, i)
    PROVE  /\ i <= 4 => log[i].kind # "SecureMessage"
           /\ i > 4 => log[i].kind = "SecureMessage" /\ log[i].seq = i - 4
           /\ i \in {5, 7, 9} => log[i].body.type = "Bytes" /\ ~log[i].body.last
           /\ i \in {6, 8, 10} => log[i].body.type = "Bytes" /\ log[i].body.last
           /\ i > 10 => log[i].body.type \in {"Disconnection", "File"}
<1>1. i \in 1..4 \/ i = 5 \/ i = 6 \/ i = 7 \/ i = 8 \/ i = 9 \/ i = 10 \/ i > 10
  OBVIOUS
<1>2. CASE i \in 1..4
  <2>1. log[i].kind # "SecureMessage"
    BY <1>2 DEF SFrame, Plain
  <2>2. QED BY <1>2, <2>1
<1>3. CASE i = 5
  <2>1. log[i] = Secure(1, Bytes(PairedKeyEncryption, FALSE))
    BY <1>3 DEF SFrame
  <2>2. QED BY <1>3, <2>1 DEF Secure, Bytes
<1>4. CASE i = 6
  <2>1. log[i] = Secure(2, Bytes(PairedKeyEncryption, TRUE))
    BY <1>4 DEF SFrame
  <2>2. QED BY <1>4, <2>1 DEF Secure, Bytes
<1>5. CASE i = 7
  <2>1. log[i] = Secure(3, Bytes(PairedKeyResult, FALSE))
    BY <1>5 DEF SFrame
  <2>2. QED BY <1>5, <2>1 DEF Secure, Bytes
<1>6. CASE i = 8
  <2>1. log[i] = Secure(4, Bytes(PairedKeyResult, TRUE))
    BY <1>6 DEF SFrame
  <2>2. QED BY <1>6, <2>1 DEF Secure, Bytes
<1>7. CASE i = 9
  <2>1. PICK F \in SUBSET Files : log[i] = Secure(5, Bytes(Introduction(F), FALSE))
    BY <1>7 DEF SFrame
  <2>2. QED BY <1>7, <2>1 DEF Secure, Bytes
<1>8. CASE i = 10
  <2>1. PICK F \in SUBSET Files : log[i] = Secure(6, Bytes(Introduction(F), TRUE))
    BY <1>8 DEF SFrame
  <2>2. QED BY <1>8, <2>1 DEF Secure, Bytes
<1>9. CASE i > 10
  BY <1>9 DEF SFrame, ChunkInPlace, Disconnection
<1>10. QED BY <1>1, <1>2, <1>3, <1>4, <1>5, <1>6, <1>7, <1>8, <1>9

(* The same of the receiver's log. *)
LEMMA RFrameCases ==
    ASSUME NEW log \in Seq(Frame), NEW i \in 1..Len(log), RFrame(log, i)
    PROVE  /\ i <= 2 => log[i].kind # "SecureMessage"
           /\ i > 2 => log[i].kind = "SecureMessage" /\ log[i].seq = i - 2
           /\ i \in {3, 5} => log[i].body.type = "Bytes" /\ ~log[i].body.last
           /\ i \in {4, 6} => log[i].body.type = "Bytes" /\ log[i].body.last
           /\ i > 6 => log[i].body.type \in {"Disconnection", "Bytes"}
<1>1. i \in 1..2 \/ i = 3 \/ i = 4 \/ i = 5 \/ i = 6 \/ i > 6
  OBVIOUS
<1>2. CASE i \in 1..2
  <2>1. log[i].kind # "SecureMessage"
    BY <1>2 DEF RFrame, Plain
  <2>2. QED BY <1>2, <2>1
<1>3. CASE i = 3
  <2>1. log[i] = Secure(1, Bytes(PairedKeyEncryption, FALSE))
    BY <1>3 DEF RFrame
  <2>2. QED BY <1>3, <2>1 DEF Secure, Bytes
<1>4. CASE i = 4
  <2>1. log[i] = Secure(2, Bytes(PairedKeyEncryption, TRUE))
    BY <1>4 DEF RFrame
  <2>2. QED BY <1>4, <2>1 DEF Secure, Bytes
<1>5. CASE i = 5
  <2>1. log[i] = Secure(3, Bytes(PairedKeyResult, FALSE))
    BY <1>5 DEF RFrame
  <2>2. QED BY <1>5, <2>1 DEF Secure, Bytes
<1>6. CASE i = 6
  <2>1. log[i] = Secure(4, Bytes(PairedKeyResult, TRUE))
    BY <1>6 DEF RFrame
  <2>2. QED BY <1>6, <2>1 DEF Secure, Bytes
<1>7. CASE i > 6
  BY <1>7 DEF RFrame, Disconnection, Bytes
<1>8. QED BY <1>1, <1>2, <1>3, <1>4, <1>5, <1>6, <1>7

-----------------------------------------------------------------------------
(* The sender. *)

(* What the types say of the wire and of the two tasks. *)
LEMMA WireTypes ==
    ASSUME TypeOK
    PROVE  /\ s2r \in Seq(Frame) /\ Len(s2r) \in Nat
           /\ r2s \in Seq(Frame) /\ Len(r2s) \in Nat
           /\ sRead \in 0..Len(r2s) /\ sRead \in Nat
           /\ rRead \in 0..Len(s2r) /\ rRead \in Nat
<1>1. s2r \in Seq(Frame) /\ r2s \in Seq(Frame)
  BY DEF TypeOK, WireTypeOK
<1>2. sRead \in 0..Len(r2s) /\ rRead \in 0..Len(s2r)
  BY DEF TypeOK, WireTypeOK
<1>3. Len(s2r) \in Nat /\ Len(r2s) \in Nat
  BY <1>1
<1>4. sRead \in Nat /\ rRead \in Nat
  BY <1>2, <1>3
<1>5. QED BY <1>1, <1>2, <1>3, <1>4

LEMMA TaskTypes ==
    ASSUME TypeOK
    PROVE  /\ snd \in SenderState /\ snd.server_seq \in Nat
           /\ rcv \in ReceiverState /\ rcv.server_seq \in Nat
           /\ rcv.got \in [Files -> Nat] /\ rcv.files \in SUBSET Files /\ rcv.buf \in Payload
           /\ rTaken \in 0..Len(rClicks) /\ disk \in [Files -> Stored]
<1>1. snd \in SenderState
  BY DEF TypeOK, SenderTypeOK
<1>2. rcv \in ReceiverState
  BY DEF TypeOK, ReceiverTypeOK
<1>3. rTaken \in 0..Len(rClicks) /\ disk \in [Files -> Stored]
  BY DEF TypeOK, ReceiverTypeOK
<1>4. snd.server_seq \in Nat
  BY <1>1 DEF SenderState
<1>5. /\ rcv.server_seq \in Nat /\ rcv.got \in [Files -> Nat]
      /\ rcv.files \in SUBSET Files /\ rcv.buf \in Payload
  BY <1>2 DEF ReceiverState
<1>6. QED BY <1>1, <1>2, <1>3, <1>4, <1>5

(* Only a task that runs takes steps. *)
LEMMA SenderRuns ==
    ASSUME SenderNext
    PROVE  sUp
BY DEF SenderNext, SenderStep, SHandleFrame, SSendLoop, SConnect, SServerInit,
       SConnectionResponse, SBytesData, SPairedKeyEncryption, SPairedKeyResult,
       SConsentGiven, SConsentDenied, SSharingIgnored, SDisconnection, SNextFile,
       SReadAndSend, SSendLast, SFinish, SCancel, SConnectionLost, SSourceFails,
       SStop, SSending, SReadsSharing, SReadsSecure, SReads

(* The frame the sender reads next. *)
LEMMA SHeadCases ==
    ASSUME TypeOK, RLog, SReads
    PROVE  /\ sRead + 1 \in 1..Len(r2s) /\ sRead' = sRead + 1
           /\ RFrame(r2s, sRead + 1) /\ SHead \in Frame
           /\ sRead < 2 => SHead.kind # "SecureMessage"
           /\ sRead >= 2 => SHead.kind = "SecureMessage" /\ SHead.seq = sRead - 1
           /\ sRead \in {2, 4} => SHead.body.type = "Bytes" /\ ~SHead.body.last
           /\ sRead \in {3, 5} => SHead.body.type = "Bytes" /\ SHead.body.last
           /\ sRead >= 6 => SHead.body.type \in {"Disconnection", "Bytes"}
<1>1. r2s \in Seq(Frame) /\ sRead \in 0..Len(r2s)
  BY DEF TypeOK, WireTypeOK
<1>2. sRead + 1 \in 1..Len(r2s) /\ sRead' = sRead + 1
  BY <1>1 DEF SReads
<1>3. RFrame(r2s, sRead + 1)
  BY <1>2 DEF RLog
<1>4. SHead = r2s[sRead + 1]
  BY DEF SHead
<1>5. SUFFICES ASSUME NEW i \in 1..Len(r2s), i = sRead + 1
               PROVE  /\ SHead \in Frame
                      /\ sRead < 2 => SHead.kind # "SecureMessage"
                      /\ sRead >= 2 => SHead.kind = "SecureMessage" /\ SHead.seq = sRead - 1
                      /\ sRead \in {2, 4} => SHead.body.type = "Bytes" /\ ~SHead.body.last
                      /\ sRead \in {3, 5} => SHead.body.type = "Bytes" /\ SHead.body.last
                      /\ sRead >= 6 => SHead.body.type \in {"Disconnection", "Bytes"}
  BY <1>2, <1>3
<1>6. /\ i <= 2 => r2s[i].kind # "SecureMessage"
      /\ i > 2 => r2s[i].kind = "SecureMessage" /\ r2s[i].seq = i - 2
      /\ i \in {3, 5} => r2s[i].body.type = "Bytes" /\ ~r2s[i].body.last
      /\ i \in {4, 6} => r2s[i].body.type = "Bytes" /\ r2s[i].body.last
      /\ i > 6 => r2s[i].body.type \in {"Disconnection", "Bytes"}
  BY <1>1, <1>3, <1>5, RFrameCases
<1>7. QED BY <1>1, <1>4, <1>5, <1>6

(* Past the key exchange. *)
LEMMA SPlaceSecure ==
    ASSUME NEW state, NEW wrote \in Nat, NEW read \in Nat, SPlace(state, wrote, read),
           state \notin {"Initial", "SentUkeyClientInit", "SentUkeyClientFinish"}
    PROVE  wrote >= 6 /\ read >= 2
<1>1. CASE state = "SentPairedKeyEncryption"
  BY <1>1 DEF SPlace
<1>2. CASE state = "SentPairedKeyResult"
  BY <1>2 DEF SPlace
<1>3. CASE state \in {"SentIntroduction", "SendingFiles", "Finished"}
  BY <1>3 DEF SPlace
<1>4. QED BY <1>1, <1>2, <1>3, Zenon DEF SPlace

(* The two chunks of the introduction. *)
LEMMA IntroductionFrames ==
    ASSUME NEW log, NEW F \in SUBSET Files,
           log[9] = Secure(5, Bytes(Introduction(F), FALSE)),
           log[10] = Secure(6, Bytes(Introduction(F), TRUE))
    PROVE  SFrame(log, 9) /\ SFrame(log, 10)
<1>1. SFrame(log, 9)
  <2>1. /\ 9 # 1 /\ 9 # 2 /\ 9 # 3 /\ 9 # 4 /\ 9 # 5 /\ 9 # 6 /\ 9 # 7 /\ 9 # 8
        /\ 9 # 10 /\ ~(9 > 10)
    OBVIOUS
  <2>2. QED BY <2>1, Zenon DEF SFrame
<1>2. SFrame(log, 10)
  <2>1. /\ 10 # 1 /\ 10 # 2 /\ 10 # 3 /\ 10 # 4 /\ 10 # 5 /\ 10 # 6 /\ 10 # 7
        /\ 10 # 8 /\ 10 # 9 /\ ~(10 > 10)
    OBVIOUS
  <2>2. QED BY <2>1, Zenon DEF SFrame
<1>3. QED BY <1>1, <1>2

(* A chunk that continues the log. *)
LEMMA ChunkAdded ==
    ASSUME NEW log \in Seq(Frame), NEW longer \in Seq(Frame), Grows(log, longer),
           Len(log) >= 10,
           NEW c, c = longer[Len(log) + 1].body,
           c.type = "File", c.file \in Announced(log), c.off \in Nat,
           c.last => c.len = 0 /\ c.off = Size[c.file],
           c.off = 0 => \A j \in 1..Len(log) : ~ChunkOf(log, j, c.file),
           c.off > 0 => /\ ChunkOf(log, Len(log), c.file)
                        /\ c.off = log[Len(log)].body.off + log[Len(log)].body.len,
           \A j \in 1..Len(log) : ~LastOfFile(log, j, c.file)
    PROVE  ChunkInPlace(longer, Len(log) + 1)
<1>1. \A j \in 1..Len(log) : longer[j] = log[j]
  BY DEF Grows
<1>2. \A j \in 1..Len(log) : /\ ChunkOf(longer, j, c.file) <=> ChunkOf(log, j, c.file)
                             /\ LastOfFile(longer, j, c.file) <=> LastOfFile(log, j, c.file)
  BY <1>1 DEF ChunkOf, LastOfFile, IsChunk
<1>3. /\ Len(log) \in 1..Len(log) /\ (Len(log) + 1) - 1 = Len(log)
      /\ 10 \in 1..Len(log)
  OBVIOUS
<1>4. Announced(longer) = Announced(log) /\ longer[Len(log)] = log[Len(log)]
  BY <1>1, <1>3 DEF Announced
<1>5. QED BY <1>2, <1>3, <1>4 DEF ChunkInPlace

(* A payload is two messages. *)
LEMMA SecurePair ==
    ASSUME NEW seq \in Nat, NEW frame \in SharingFrame
    PROVE  \E x, y \in Frame :
             /\ SendEncryptedFrame(seq, frame) = <<x, y>>
             /\ x = Secure(seq + 1, Bytes(frame, FALSE))
             /\ y = Secure(seq + 2, Bytes(frame, TRUE))
<1>1. seq + 1 \in Nat /\ seq + 2 \in Nat
  OBVIOUS
<1>2. Bytes(frame, FALSE) \in Body /\ Bytes(frame, TRUE) \in Body
  BY FrameTypes
<1>3. \A n \in Nat, body \in Body : Secure(n, body) \in Frame
  BY FrameTypes
<1>4. /\ Secure(seq + 1, Bytes(frame, FALSE)) \in Frame
      /\ Secure(seq + 2, Bytes(frame, TRUE)) \in Frame
  BY ONLY <1>1, <1>2, <1>3
<1>5. QED BY <1>4 DEF SendEncryptedFrame

(* What a step of the sender keeps; its log only grows. *)
SenderKeeps == SLog' /\ SInStep' /\ SAsked' /\ Grows(s2r, s2r')

(* Every step of the sender keeps its log good and itself in step with it:  *)
(* the handlers of OutboundRequest against the places of SPlace.            *)
LEMMA SenderKeepsStep ==
    ASSUME TypeOK, SLog, RLog, SInStep, SAsked, Sending, SenderNext,
           UNCHANGED <<receiverVars, uiVars>>
    PROVE  SenderKeeps
<1>1. /\ s2r \in Seq(Frame) /\ r2s \in Seq(Frame)
      /\ sRead \in 0..Len(r2s)
      /\ snd \in SenderState /\ sPub \in Seq(State)
      /\ Len(s2r) \in Nat /\ Len(r2s) \in Nat
  BY DEF TypeOK, WireTypeOK, SenderTypeOK
<1>2. /\ snd.server_seq \in Nat /\ snd.client_seq \in Nat
  BY <1>1 DEF SenderState
<1>3. sUp
  BY SenderRuns
<1>4. /\ SPlace(snd.state, Len(s2r), sRead)
      /\ Len(s2r) >= 4 => snd.server_seq = Len(s2r) - 4
      /\ Len(s2r) < 4 => snd.server_seq = 0
      /\ sRead >= 2 => snd.client_seq = sRead - 2
      /\ sRead < 2 => snd.client_seq = 0
      /\ sRead > 0 /\ Opens(r2s, sRead) => snd.buf = r2s[sRead].body.frame
  BY <1>3 DEF SInStep
<1>5. /\ sClicks # <<>> => Published(sPub, "SendingFiles")
      /\ Published(sPub, "SendingFiles") => snd.state \in {"SendingFiles", "Finished"}
  BY <1>3 DEF SAsked
<1>6. r2s' = r2s /\ sClicks' = sClicks
  BY DEF receiverVars, uiVars
<1>7. \A x \in Frame : s2r' = s2r \o <<x>> =>
        /\ s2r' \in Seq(Frame) /\ Len(s2r') = Len(s2r) + 1
        /\ s2r'[Len(s2r) + 1] = x /\ Grows(s2r, s2r')
  BY <1>1, OneMore
<1>8. \A x, y \in Frame : s2r' = s2r \o <<x, y>> =>
        /\ s2r' \in Seq(Frame) /\ Len(s2r') = Len(s2r) + 2
        /\ s2r'[Len(s2r) + 1] = x /\ s2r'[Len(s2r) + 2] = y
        /\ Grows(s2r, s2r')
  BY <1>1, TwoMore
<1>9. /\ Len(s2r') = Len(s2r) + 1 /\ s2r' \in Seq(Frame) /\ Grows(s2r, s2r')
      /\ SFrame(s2r', Len(s2r) + 1)
      => SLog'
  <2> SUFFICES ASSUME NEW longer \in Seq(Frame), longer = s2r',
                      Len(longer) = Len(s2r) + 1, Grows(s2r, longer),
                      SFrame(longer, Len(s2r) + 1)
               PROVE  \A i \in 1..Len(longer) : SFrame(longer, i)
    BY DEF SLog
  <2>1. \A i \in (Len(s2r) + 1)..Len(longer) : SFrame(longer, i)
    BY <1>1
  <2>2. QED BY <1>1, <2>1, SLogStays DEF SLog
<1>10. /\ Len(s2r') = Len(s2r) + 2 /\ s2r' \in Seq(Frame) /\ Grows(s2r, s2r')
       /\ SFrame(s2r', Len(s2r) + 1) /\ SFrame(s2r', Len(s2r) + 2)
       => SLog'
  <2> SUFFICES ASSUME NEW longer \in Seq(Frame), longer = s2r',
                      Len(longer) = Len(s2r) + 2, Grows(s2r, longer),
                      SFrame(longer, Len(s2r) + 1), SFrame(longer, Len(s2r) + 2)
               PROVE  \A i \in 1..Len(longer) : SFrame(longer, i)
    BY DEF SLog
  <2>1. \A i \in (Len(s2r) + 1)..Len(longer) : SFrame(longer, i)
    <3>1. \A i \in (Len(s2r) + 1)..Len(longer) : i = Len(s2r) + 1 \/ i = Len(s2r) + 2
      BY <1>1
    <3>2. QED BY <3>1
  <2>2. QED BY <1>1, <2>1, SLogStays DEF SLog
<1>11. ASSUME NEW frame \in SharingFrame,
              s2r' = s2r \o SendEncryptedFrame(snd.server_seq, frame)
       PROVE  /\ s2r' \in Seq(Frame) /\ Len(s2r') = Len(s2r) + 2 /\ Grows(s2r, s2r')
              /\ s2r'[Len(s2r) + 1] = Secure(snd.server_seq + 1, Bytes(frame, FALSE))
              /\ s2r'[Len(s2r) + 2] = Secure(snd.server_seq + 2, Bytes(frame, TRUE))
  <2>1. /\ Secure(snd.server_seq + 1, Bytes(frame, FALSE)) \in Frame
        /\ Secure(snd.server_seq + 2, Bytes(frame, TRUE)) \in Frame
    <3>1. snd.server_seq + 1 \in Nat /\ snd.server_seq + 2 \in Nat
      BY <1>2
    <3>2. Bytes(frame, FALSE) \in Body /\ Bytes(frame, TRUE) \in Body
      BY FrameTypes
    <3>3. \A n \in Nat, body \in Body : Secure(n, body) \in Frame
      BY FrameTypes
    <3>4. QED BY ONLY <3>1, <3>2, <3>3
  <2>2. QED BY <1>8, <1>11, <2>1 DEF SendEncryptedFrame
<1>12. ASSUME NEW body \in Body,
              s2r' = s2r \o EncryptAndSend(snd.server_seq, body)
       PROVE  /\ s2r' \in Seq(Frame) /\ Len(s2r') = Len(s2r) + 1 /\ Grows(s2r, s2r')
              /\ s2r'[Len(s2r) + 1] = Secure(snd.server_seq + 1, body)
  <2>1. Secure(snd.server_seq + 1, body) \in Frame
    BY <1>2, FrameTypes
  <2>2. QED BY <1>7, <1>12, <2>1 DEF EncryptAndSend
<1>13. ASSUME NEW body \in Body, Len(s2r) >= 10,
              s2r' = s2r \o EncryptAndSend(snd.server_seq, body),
              body = Disconnection \/ ChunkInPlace(s2r', Len(s2r) + 1)
       PROVE  SLog' /\ Len(s2r') = Len(s2r) + 1 /\ Grows(s2r, s2r')
  <2>1. /\ s2r' \in Seq(Frame) /\ Len(s2r') = Len(s2r) + 1 /\ Grows(s2r, s2r')
        /\ s2r'[Len(s2r) + 1] = Secure(snd.server_seq + 1, body)
    BY <1>12, <1>13
  <2>2. /\ s2r'[Len(s2r) + 1].kind = "SecureMessage"
        /\ s2r'[Len(s2r) + 1].seq = Len(s2r) - 3
        /\ s2r'[Len(s2r) + 1].body = body
    BY <1>1, <1>4, <1>13, <2>1 DEF Secure
  <2>3. SUFFICES SFrame(s2r', Len(s2r) + 1)
    BY <1>9, <2>1
  <2>4. SUFFICES ASSUME NEW i \in Nat, i = Len(s2r) + 1,
                        NEW longer, longer = s2r'
                 PROVE  SFrame(longer, i)
    BY <1>1
  <2>5. /\ i # 1 /\ i # 2 /\ i # 3 /\ i # 4 /\ i # 5 /\ i # 6 /\ i # 7
        /\ i # 8 /\ i # 9 /\ i # 10 /\ Len(s2r) - 3 = i - 4
    BY <1>1, <1>13, <2>4
  <2>6. /\ longer[i].kind = "SecureMessage" /\ longer[i].seq = i - 4
        /\ longer[i].body = Disconnection \/ ChunkInPlace(longer, i)
    BY <1>13, <2>2, <2>4, <2>5
  <2>7. QED BY <2>5, <2>6, Zenon DEF SFrame
<1>14. ASSUME NEW x, sPub' = Append(sPub, x)
       PROVE  Published(sPub', "SendingFiles") <=>
                Published(sPub, "SendingFiles") \/ x = "SendingFiles"
  <2>1. /\ Len(Append(sPub, x)) = Len(sPub) + 1 /\ Len(sPub) \in Nat
        /\ Append(sPub, x)[Len(sPub) + 1] = x
        /\ \A i \in 1..Len(sPub) : Append(sPub, x)[i] = sPub[i]
    BY <1>1
  <2>2. QED BY <1>14, <2>1 DEF Published
<1>15. ASSUME sPub' = sPub \o <<"Disconnected", "Disconnected">>
       PROVE  Published(sPub, "SendingFiles") => Published(sPub', "SendingFiles")
  <2>1. /\ Len(sPub) \in Nat /\ Len(sPub') = Len(sPub) + 2
        /\ \A i \in 1..Len(sPub) : sPub'[i] = sPub[i]
    BY <1>1, <1>15
  <2>2. QED BY <2>1 DEF Published
<1>16. s2r' = s2r => SLog' /\ Grows(s2r, s2r')
  BY <1>1 DEF SLog, Grows
<1>17. CASE SConnect
  <2>1. /\ snd.state = "Initial" /\ sRead' = sRead /\ sPub' = sPub
        /\ s2r' = s2r \o <<Plain("ConnectionRequest"), Plain("ClientInit")>>
        /\ snd' = [snd EXCEPT !.state = "SentUkeyClientInit"]
    BY <1>17 DEF SConnect
  <2>2. Len(s2r) = 0 /\ sRead = 0
    BY <1>4, <2>1 DEF SPlace
  <2>3. Plain("ConnectionRequest") \in Frame /\ Plain("ClientInit") \in Frame
    BY FrameTypes DEF PlainKind
  <2>4. /\ s2r' \in Seq(Frame) /\ Len(s2r') = Len(s2r) + 2 /\ Grows(s2r, s2r')
        /\ s2r'[Len(s2r) + 1] = Plain("ConnectionRequest")
        /\ s2r'[Len(s2r) + 2] = Plain("ClientInit")
    BY <1>8, <2>1, <2>3
  <2>5. SFrame(s2r', Len(s2r) + 1) /\ SFrame(s2r', Len(s2r) + 2)
    BY <2>2, <2>4, SMT DEF SFrame
  <2>6. SLog'
    BY <1>10, <2>4, <2>5
  <2>7. SInStep'
    BY <1>1, <1>4, <2>1, <2>2, <2>4 DEF SInStep, SPlace, SenderState
  <2>8. SAsked'
    BY <1>1, <1>5, <1>6, <2>1 DEF SAsked, Published
  <2>9. QED BY <2>4, <2>6, <2>7, <2>8 DEF SenderKeeps
<1>18. CASE SServerInit
  <2>1. /\ snd.state = "SentUkeyClientInit" /\ sRead' = sRead + 1
        /\ sPub' = Append(sPub, snd.state) /\ SHead.kind = "ServerInit"
        /\ s2r' = s2r \o <<Plain("ClientFinish"), Plain("ConnectionResponse")>>
        /\ snd' = [snd EXCEPT !.state = "SentUkeyClientFinish"]
    BY <1>18 DEF SServerInit, SReads
  <2>2. Len(s2r) = 2 /\ sRead = 0
    BY <1>4, <2>1 DEF SPlace
  <2>3. Plain("ClientFinish") \in Frame /\ Plain("ConnectionResponse") \in Frame
    BY FrameTypes DEF PlainKind
  <2>4. /\ s2r' \in Seq(Frame) /\ Len(s2r') = Len(s2r) + 2 /\ Grows(s2r, s2r')
        /\ s2r'[Len(s2r) + 1] = Plain("ClientFinish")
        /\ s2r'[Len(s2r) + 2] = Plain("ConnectionResponse")
    BY <1>8, <2>1, <2>3
  <2>5. SFrame(s2r', Len(s2r) + 1) /\ SFrame(s2r', Len(s2r) + 2)
    BY <2>2, <2>4, SMT DEF SFrame
  <2>6. SLog'
    BY <1>10, <2>4, <2>5
  <2>7. ~Opens(r2s, 1)
    BY <2>1, <2>2 DEF Opens, SHead
  <2>8. SInStep'
    BY <1>1, <1>4, <1>6, <2>1, <2>2, <2>4, <2>7 DEF SInStep, SPlace, SenderState
  <2>9. SAsked'
    BY <1>1, <1>5, <1>6, <1>14, <2>1 DEF SAsked
  <2>10. QED BY <2>4, <2>6, <2>8, <2>9 DEF SenderKeeps
<1>19. CASE SConnectionResponse
  <2>1. /\ snd.state = "SentUkeyClientFinish" /\ sRead' = sRead + 1 /\ sPub' = sPub
        /\ SHead.kind = "ConnectionResponse"
        /\ s2r' = s2r \o SendEncryptedFrame(snd.server_seq, PairedKeyEncryption)
        /\ snd' = [snd EXCEPT !.state = "SentPairedKeyEncryption",
                              !.server_seq = @ + 2]
    BY <1>19 DEF SConnectionResponse, SReads
  <2>2. Len(s2r) = 4 /\ sRead = 1 /\ snd.server_seq = 0
    <3>1. Len(s2r) = 4 /\ sRead = 1
      BY <1>4, <2>1 DEF SPlace
    <3>2. QED BY <1>4, <3>1
  <2>3. /\ s2r' \in Seq(Frame) /\ Len(s2r') = Len(s2r) + 2 /\ Grows(s2r, s2r')
        /\ s2r'[Len(s2r) + 1] = Secure(snd.server_seq + 1, Bytes(PairedKeyEncryption, FALSE))
        /\ s2r'[Len(s2r) + 2] = Secure(snd.server_seq + 2, Bytes(PairedKeyEncryption, TRUE))
    BY <1>11, <2>1, SharingFrameTypes
  <2>4. SFrame(s2r', Len(s2r) + 1) /\ SFrame(s2r', Len(s2r) + 2)
    BY <2>2, <2>3, SMT DEF SFrame
  <2>5. SLog'
    BY <1>10, <2>3, <2>4
  <2>6. ~Opens(r2s, 2)
    BY <2>1, <2>2 DEF Opens, SHead
  <2>7. SInStep'
    BY <1>1, <1>4, <1>6, <2>1, <2>2, <2>3, <2>6 DEF SInStep, SPlace, SenderState
  <2>8. SAsked'
    BY <1>1, <1>5, <1>6, <2>1 DEF SAsked
  <2>9. QED BY <2>3, <2>5, <2>7, <2>8 DEF SenderKeeps
<1>20. ASSUME SReadsSecure
       PROVE  /\ Len(s2r) >= 6 /\ sRead >= 2 /\ sRead + 1 \in 1..Len(r2s)
              /\ sRead' = sRead + 1 /\ snd.client_seq + 1 = (sRead + 1) - 2
              /\ r2s'[sRead'] = SHead
              /\ Opens(r2s', sRead') <=> SHead.body.type = "Bytes" /\ ~SHead.body.last
              /\ sRead \in {2, 4} => SHead.body.type = "Bytes" /\ ~SHead.body.last
              /\ sRead \in {3, 5} => SHead.body.type = "Bytes" /\ SHead.body.last
  <2>1. SReads
    BY <1>20 DEF SReadsSecure
  <2>2. Len(s2r) >= 6 /\ sRead >= 2
    <3>1. snd.state \notin {"Initial", "SentUkeyClientInit", "SentUkeyClientFinish"}
      BY <1>20 DEF SReadsSecure
    <3>2. QED BY <1>1, <1>4, <3>1, SPlaceSecure
  <2>3. r2s'[sRead'] = SHead
    BY <1>6, <2>1, SHeadCases DEF SHead
  <2>4. SHead.kind = "SecureMessage"
    BY <1>20 DEF SReadsSecure, InSequence
  <2>5. QED BY <1>1, <1>4, <2>1, <2>2, <2>3, <2>4, SHeadCases DEF Opens
<1>21. CASE SBytesData
  <2>1. /\ SReadsSecure /\ SHead.body.type = "Bytes" /\ ~SHead.body.last
        /\ snd' = [snd EXCEPT !.client_seq = @ + 1, !.buf = SHead.body.frame]
        /\ s2r' = s2r /\ sUp' = sUp /\ sPub' = sPub
    BY <1>21 DEF SBytesData
  <2>2. /\ snd'.state = snd.state /\ snd'.server_seq = snd.server_seq
        /\ snd'.client_seq = sRead' - 2 /\ snd'.buf = r2s'[sRead'].body.frame
    BY <1>1, <1>20, <2>1 DEF SenderState
  <2>3. SPlace(snd'.state, Len(s2r'), sRead')
    <3>1. sRead # 3 /\ sRead # 5 /\ sRead' = sRead + 1
      BY <1>20, <2>1
    <3>2. QED BY <1>1, <1>4, <2>1, <2>2, <3>1 DEF SPlace
  <2>4. SInStep'
    BY <1>1, <1>4, <1>20, <2>1, <2>2, <2>3 DEF SInStep
  <2>5. SAsked'
    BY <1>5, <1>6, <2>1, <2>2 DEF SAsked
  <2>6. QED BY <1>16, <2>1, <2>4, <2>5 DEF SenderKeeps
<1>22. CASE SPairedKeyEncryption
  <2>1. /\ SReadsSecure /\ SHead.body.type = "Bytes" /\ SHead.body.last
        /\ snd.state = "SentPairedKeyEncryption" /\ sPub' = sPub
        /\ s2r' = s2r \o SendEncryptedFrame(snd.server_seq, PairedKeyResult)
        /\ snd' = [snd EXCEPT !.state = "SentPairedKeyResult",
                              !.client_seq = @ + 1, !.server_seq = @ + 2,
                              !.buf = NoFrame]
    BY <1>22 DEF SPairedKeyEncryption, SReadsSharing
  <2>2. Len(s2r) = 6 /\ sRead = 3 /\ snd.server_seq = 2
    <3>1. Len(s2r) = 6 /\ sRead \in {2, 3}
      BY <1>4, <2>1 DEF SPlace
    <3>2. QED BY <1>4, <1>20, <2>1, <3>1
  <2>3. /\ s2r' \in Seq(Frame) /\ Len(s2r') = Len(s2r) + 2 /\ Grows(s2r, s2r')
        /\ s2r'[Len(s2r) + 1] = Secure(snd.server_seq + 1, Bytes(PairedKeyResult, FALSE))
        /\ s2r'[Len(s2r) + 2] = Secure(snd.server_seq + 2, Bytes(PairedKeyResult, TRUE))
    BY <1>11, <2>1, SharingFrameTypes
  <2>4. SFrame(s2r', Len(s2r) + 1) /\ SFrame(s2r', Len(s2r) + 2)
    BY <2>2, <2>3, SMT DEF SFrame
  <2>5. SLog'
    BY <1>10, <2>3, <2>4
  <2>6. /\ snd'.state = "SentPairedKeyResult" /\ snd'.server_seq = 4
        /\ snd'.client_seq = 2 /\ sRead' = 4 /\ Len(s2r') = 8
    BY <1>1, <1>4, <1>20, <2>1, <2>2, <2>3 DEF SenderState
  <2>7. SInStep'
    BY <1>20, <2>1, <2>6 DEF SInStep, SPlace
  <2>8. SAsked'
    BY <1>1, <1>5, <1>6, <2>1 DEF SAsked
  <2>9. QED BY <2>3, <2>5, <2>7, <2>8 DEF SenderKeeps
<1>23. CASE SPairedKeyResult
  <2>1. PICK missing \in SUBSET Vanishing :
          /\ s2r' = s2r \o SendEncryptedFrame(snd.server_seq,
                                              Introduction(Files \ missing))
          /\ snd' = [snd EXCEPT !.state = "SentIntroduction",
                                !.client_seq = @ + 1, !.server_seq = @ + 2,
                                !.buf = NoFrame, !.todo = Files \ missing]
    BY <1>23 DEF SPairedKeyResult
  <2>2. /\ SReadsSecure /\ SHead.body.type = "Bytes" /\ SHead.body.last
        /\ snd.state = "SentPairedKeyResult"
        /\ sPub' = Append(sPub, "SentIntroduction")
    BY <1>23 DEF SPairedKeyResult, SReadsSharing
  <2>3. Len(s2r) = 8 /\ sRead = 5 /\ snd.server_seq = 4
    <3>1. Len(s2r) = 8 /\ sRead \in {4, 5}
      BY <1>4, <2>2 DEF SPlace
    <3>2. QED BY <1>4, <1>20, <2>2, <3>1
  <2>4. PICK F \in SUBSET Files : F = Files \ missing
    OBVIOUS
  <2>5. /\ s2r' \in Seq(Frame) /\ Len(s2r') = Len(s2r) + 2 /\ Grows(s2r, s2r')
        /\ s2r'[Len(s2r) + 1] = Secure(snd.server_seq + 1, Bytes(Introduction(F), FALSE))
        /\ s2r'[Len(s2r) + 2] = Secure(snd.server_seq + 2, Bytes(Introduction(F), TRUE))
    BY <1>11, <2>1, <2>4, SharingFrameTypes
  <2>6. SFrame(s2r', Len(s2r) + 1) /\ SFrame(s2r', Len(s2r) + 2)
    <3>1. /\ Len(s2r) + 1 = 9 /\ Len(s2r) + 2 = 10
          /\ snd.server_seq + 1 = 5 /\ snd.server_seq + 2 = 6
      BY <2>3
    <3>2. /\ s2r'[9] = Secure(5, Bytes(Introduction(F), FALSE))
          /\ s2r'[10] = Secure(6, Bytes(Introduction(F), TRUE))
      BY <2>5, <3>1, Zenon
    <3>3. SFrame(s2r', 9) /\ SFrame(s2r', 10)
      BY <3>2, IntroductionFrames
    <3>4. QED BY <3>1, <3>3
  <2>7. SLog'
    BY <1>10, <2>5, <2>6
  <2>8. /\ snd'.state = "SentIntroduction" /\ snd'.server_seq = 6
        /\ snd'.client_seq = 4 /\ sRead' = 6 /\ Len(s2r') = 10
    BY <1>1, <1>4, <1>20, <2>1, <2>2, <2>3, <2>5 DEF SenderState
  <2>9. SInStep'
    BY <1>20, <2>2, <2>8 DEF SInStep, SPlace
  <2>10. SAsked'
    BY <1>5, <1>6, <1>14, <2>2 DEF SAsked
  <2>11. QED BY <2>5, <2>7, <2>9, <2>10 DEF SenderKeeps
<1>24. CASE SConsentGiven
  <2>1. /\ SReadsSecure /\ SHead.body.type = "Bytes" /\ SHead.body.last
        /\ snd.state = "SentIntroduction" /\ sPub' = Append(sPub, "SendingFiles")
        /\ s2r' = s2r /\ sUp' = sUp
        /\ snd' = [snd EXCEPT !.state = "SendingFiles", !.client_seq = @ + 1,
                              !.buf = NoFrame]
    BY <1>24 DEF SConsentGiven, SReadsSharing
  <2>2. Len(s2r) = 10 /\ sRead >= 6
    BY <1>4, <2>1 DEF SPlace
  <2>3. /\ snd'.state = "SendingFiles" /\ snd'.server_seq = snd.server_seq
        /\ snd'.client_seq = sRead' - 2 /\ sRead' > 6
    BY <1>1, <1>20, <2>1, <2>2 DEF SenderState
  <2>4. SInStep'
    BY <1>1, <1>4, <1>20, <2>1, <2>2, <2>3 DEF SInStep, SPlace
  <2>5. SAsked'
    BY <1>6, <1>14, <2>1, <2>3 DEF SAsked
  <2>6. QED BY <1>16, <2>1, <2>4, <2>5 DEF SenderKeeps
<1>25. CASE SSharingIgnored \/ SDisconnection
  <2>1. /\ SReadsSecure /\ s2r' = s2r /\ sUp' = sUp /\ sPub' = sPub
        /\ ~Opens(r2s', sRead') /\ sRead \notin {2, 4}
        /\ \/ snd' = [snd EXCEPT !.client_seq = @ + 1, !.buf = NoFrame]
           \/ snd' = [snd EXCEPT !.client_seq = @ + 1]
        /\ sRead >= 6
    <3>1. CASE SSharingIgnored
      <4>1. /\ SReadsSecure /\ SHead.body.type = "Bytes" /\ SHead.body.last
            /\ snd.state \notin {"SentPairedKeyEncryption", "SentPairedKeyResult",
                                 "SentIntroduction"}
        BY <3>1 DEF SSharingIgnored, SReadsSharing
      <4>2. sRead >= 6
        <5>1. snd.state \notin {"Initial", "SentUkeyClientInit", "SentUkeyClientFinish"}
          BY <4>1 DEF SReadsSecure
        <5>2. QED BY <1>4, <4>1, <5>1 DEF SPlace
      <4>3. QED BY <1>20, <3>1, <4>1, <4>2 DEF SSharingIgnored
    <3>2. CASE SDisconnection
      <4>1. SReadsSecure /\ SHead.body.type = "Disconnection"
        BY <3>2 DEF SDisconnection, Disconnection
      <4>2. sRead >= 6
        BY <1>1, <1>20, <4>1
      <4>3. QED BY <1>20, <3>2, <4>1, <4>2 DEF SDisconnection
    <3>3. QED BY <1>25, <3>1, <3>2
  <2>2. /\ snd'.state = snd.state /\ snd'.server_seq = snd.server_seq
        /\ snd'.client_seq = sRead' - 2 /\ sRead' = sRead + 1
    BY <1>1, <1>20, <2>1 DEF SenderState
  <2>3. SPlace(snd'.state, Len(s2r'), sRead')
    BY <1>1, <1>4, <2>1, <2>2 DEF SPlace
  <2>4. SInStep'
    BY <1>1, <1>4, <1>20, <2>1, <2>2, <2>3 DEF SInStep
  <2>5. SAsked'
    BY <1>5, <1>6, <2>1, <2>2 DEF SAsked
  <2>6. QED BY <1>16, <2>1, <2>4, <2>5 DEF SenderKeeps
<1>26. SSending => /\ snd.state = "SendingFiles" /\ Len(s2r) >= 10 /\ sRead >= 6
                   /\ snd.server_seq = Len(s2r) - 4
  <2>1. SSending => snd.state = "SendingFiles"
    BY DEF SSending
  <2>2. SSending => Len(s2r) >= 10 /\ sRead >= 6
    BY <1>4, <2>1 DEF SPlace
  <2>3. QED BY <1>1, <1>4, <2>1, <2>2
<1>27. ASSUME SSending, sRead' = sRead, Len(s2r') = Len(s2r) + 1,
              snd'.state \in {"SendingFiles", "Finished"},
              snd'.server_seq = snd.server_seq + 1,
              snd'.client_seq = snd.client_seq, snd'.buf = snd.buf
       PROVE  SInStep'
  <2>1. Len(s2r) >= 10 /\ sRead >= 6 /\ snd.server_seq = Len(s2r) - 4
    BY <1>26, <1>27
  <2>2. /\ Len(s2r') >= 10 /\ sRead' >= 6 /\ ~(Len(s2r') < 4) /\ ~(sRead' < 2)
        /\ snd'.server_seq = Len(s2r') - 4
    BY <1>1, <1>27, <2>1
  <2>3. SPlace(snd'.state, Len(s2r'), sRead')
    BY <1>27, <2>2, Zenon DEF SPlace
  <2>4. snd'.client_seq = sRead' - 2
    BY <1>1, <1>4, <1>27, <2>1
  <2>5. sRead' > 0 /\ Opens(r2s', sRead') => snd'.buf = r2s'[sRead'].body.frame
    BY <1>4, <1>6, <1>27
  <2>6. QED BY <2>2, <2>3, <2>4, <2>5 DEF SInStep
<1>28. ASSUME NEW f \in Files, SNextFile(f) PROVE SenderKeeps
  <2>1. /\ s2r' = s2r /\ sRead' = sRead /\ sPub' = sPub /\ sUp' = sUp
        /\ snd' = [snd EXCEPT !.todo = @ \ {f},
                              !.cur = IF Size[f] = 0 THEN {} ELSE {f}]
    BY <1>28 DEF SNextFile
  <2>2. /\ snd'.state = snd.state /\ snd'.server_seq = snd.server_seq
        /\ snd'.client_seq = snd.client_seq /\ snd'.buf = snd.buf
    BY <1>1, <2>1 DEF SenderState
  <2>3. SInStep'
    BY <1>3, <1>4, <1>6, <2>1, <2>2 DEF SInStep
  <2>4. SAsked'
    BY <1>5, <1>6, <2>1, <2>2 DEF SAsked
  <2>5. QED BY <1>16, <2>1, <2>3, <2>4 DEF SenderKeeps
<1>29. ASSUME NEW f \in Files, NEW n \in 0..ReadBuffer, SReadAndSend(f, n)
       PROVE  SenderKeeps
  <2>1. /\ SSending /\ snd.cur = {f}
        /\ s2r' = s2r \o EncryptAndSend(snd.server_seq, FileChunk(f, snd.sent[f], n, FALSE))
        /\ sPub' = sPub \/ sPub' = Append(sPub, "SendingFiles")
        /\ sRead' = sRead /\ sUp' = sUp
    BY <1>29 DEF SReadAndSend
  <2>2. PICK noted, ack : snd' = [snd EXCEPT !.server_seq = @ + 1, !.sent[f] = @ + n,
                                             !.ack = ack, !.noted = noted]
    BY <1>29 DEF SReadAndSend
  <2>3. snd.sent[f] \in Nat /\ n \in Nat
    BY <1>1, ReadBufferAssumption DEF SenderState
  <2>4. FileChunk(f, snd.sent[f], n, FALSE) \in Body
    BY <2>3, FrameTypes
  <2>5. /\ s2r' \in Seq(Frame) /\ Len(s2r') = Len(s2r) + 1 /\ Grows(s2r, s2r')
        /\ s2r'[Len(s2r) + 1] = Secure(snd.server_seq + 1, FileChunk(f, snd.sent[f], n, FALSE))
    BY <1>12, <2>1, <2>4
  <2>6. ChunkInPlace(s2r', Len(s2r) + 1)
    <3>1. SUFFICES ASSUME NEW longer \in Seq(Frame), longer = s2r', Grows(s2r, longer),
                          NEW c, c = longer[Len(s2r) + 1].body
                   PROVE  ChunkInPlace(longer, Len(s2r) + 1)
      BY <2>5
    <3>2. /\ c.type = "File" /\ c.file = f /\ c.off = snd.sent[f] /\ ~c.last
      BY <2>5, <3>1 DEF Secure, FileChunk
    <3>3. /\ f \in Announced(s2r)
          /\ \A i \in 1..Len(s2r) : ~LastOfFile(s2r, i, f)
          /\ snd.sent[f] = 0 => \A i \in 1..Len(s2r) : ~ChunkOf(s2r, i, f)
          /\ snd.sent[f] > 0 => /\ ChunkOf(s2r, Len(s2r), f)
                                /\ snd.sent[f] = s2r[Len(s2r)].body.off + s2r[Len(s2r)].body.len
      BY <2>1 DEF Sending
    <3>4. QED BY <1>1, <1>26, <2>1, <2>3, <3>1, <3>2, <3>3, ChunkAdded
  <2>7. SLog' /\ Len(s2r') = Len(s2r) + 1 /\ Grows(s2r, s2r')
    BY <1>13, <1>26, <2>1, <2>4, <2>6
  <2>8. /\ snd'.state = snd.state /\ snd'.server_seq = snd.server_seq + 1
        /\ snd'.client_seq = snd.client_seq /\ snd'.buf = snd.buf
    BY <1>1, <2>2 DEF SenderState
  <2>9. SInStep'
    BY <1>26, <1>27, <2>1, <2>7, <2>8
  <2>10. SAsked'
    BY <1>5, <1>6, <1>14, <1>26, <2>1, <2>8 DEF SAsked
  <2>11. QED BY <2>7, <2>9, <2>10 DEF SenderKeeps
<1>30. ASSUME NEW f \in Files, SSendLast(f) PROVE SenderKeeps
  <2>1. /\ SSending /\ snd.cur = {f} /\ snd.sent[f] = Size[f]
        /\ s2r' = s2r \o EncryptAndSend(snd.server_seq, FileChunk(f, Size[f], 0, TRUE))
        /\ snd' = [snd EXCEPT !.server_seq = @ + 1, !.cur = {}]
        /\ sRead' = sRead /\ sUp' = sUp /\ sPub' = sPub
    BY <1>30 DEF SSendLast
  <2>2. Size[f] \in Nat
    BY SizeAssumption
  <2>3. FileChunk(f, Size[f], 0, TRUE) \in Body
    BY <2>2, FrameTypes
  <2>4. /\ s2r' \in Seq(Frame) /\ Len(s2r') = Len(s2r) + 1 /\ Grows(s2r, s2r')
        /\ s2r'[Len(s2r) + 1] = Secure(snd.server_seq + 1, FileChunk(f, Size[f], 0, TRUE))
    BY <1>12, <2>1, <2>3
  <2>5. ChunkInPlace(s2r', Len(s2r) + 1)
    <3>1. SUFFICES ASSUME NEW longer \in Seq(Frame), longer = s2r', Grows(s2r, longer),
                          NEW c, c = longer[Len(s2r) + 1].body
                   PROVE  ChunkInPlace(longer, Len(s2r) + 1)
      BY <2>4
    <3>2. /\ c.type = "File" /\ c.file = f /\ c.off = Size[f] /\ c.len = 0
      BY <2>4, <3>1 DEF Secure, FileChunk
    <3>3. /\ f \in Announced(s2r) /\ Size[f] > 0
          /\ \A i \in 1..Len(s2r) : ~LastOfFile(s2r, i, f)
          /\ snd.sent[f] > 0 => /\ ChunkOf(s2r, Len(s2r), f)
                                /\ snd.sent[f] = s2r[Len(s2r)].body.off + s2r[Len(s2r)].body.len
      BY <2>1 DEF Sending
    <3>4. Len(s2r) >= 10
      BY <1>26, <2>1
    <3>5. /\ c.file \in Announced(s2r) /\ c.off \in Nat /\ c.off # 0
          /\ c.len = 0 /\ c.off = Size[c.file]
          /\ \A i \in 1..Len(s2r) : ~LastOfFile(s2r, i, c.file)
          /\ c.off > 0 => /\ ChunkOf(s2r, Len(s2r), c.file)
                          /\ c.off = s2r[Len(s2r)].body.off + s2r[Len(s2r)].body.len
      BY <2>1, <2>2, <3>2, <3>3
    <3>6. QED BY <1>1, <3>1, <3>2, <3>4, <3>5, ChunkAdded
  <2>6. SLog' /\ Len(s2r') = Len(s2r) + 1 /\ Grows(s2r, s2r')
    BY <1>13, <1>26, <2>1, <2>3, <2>5
  <2>7. /\ snd'.state = snd.state /\ snd'.server_seq = snd.server_seq + 1
        /\ snd'.client_seq = snd.client_seq /\ snd'.buf = snd.buf
    BY <1>1, <2>1 DEF SenderState
  <2>8. SInStep'
    BY <1>26, <1>27, <2>1, <2>6, <2>7
  <2>9. SAsked'
    BY <1>5, <1>6, <2>1, <2>7 DEF SAsked
  <2>10. QED BY <2>6, <2>8, <2>9 DEF SenderKeeps
<1>31. CASE SFinish
  <2>1. /\ SSending
        /\ s2r' = s2r \o EncryptAndSend(snd.server_seq, Disconnection)
        /\ snd' = [snd EXCEPT !.state = "Finished", !.server_seq = @ + 1]
        /\ sPub' = Append(sPub, "Finished")
        /\ sRead' = sRead /\ sUp' = sUp
    BY <1>31 DEF SFinish
  <2>2. SLog' /\ Len(s2r') = Len(s2r) + 1 /\ Grows(s2r, s2r')
    BY <1>13, <1>26, <2>1, FrameTypes
  <2>3. /\ snd'.state = "Finished" /\ snd'.server_seq = snd.server_seq + 1
        /\ snd'.client_seq = snd.client_seq /\ snd'.buf = snd.buf
    BY <1>1, <2>1 DEF SenderState
  <2>4. SInStep'
    BY <1>26, <1>27, <2>1, <2>2, <2>3
  <2>5. SAsked'
    BY <1>5, <1>6, <1>14, <2>1, <2>3 DEF SAsked
  <2>6. QED BY <2>2, <2>4, <2>5 DEF SenderKeeps
<1>32. CASE SCancel \/ SConsentDenied
  <2>1. Len(s2r) >= 10
    <3>1. CASE SConsentDenied
      <4>1. snd.state = "SentIntroduction"
        BY <3>1 DEF SConsentDenied
      <4>2. Len(s2r) = 10
        BY <1>4, <4>1 DEF SPlace
      <4>3. QED BY <4>2
    <3>2. CASE SCancel
      <4>1. sClicks # <<>>
        BY <3>2 DEF SCancel, TypeOK, SenderTypeOK
      <4>2. snd.state \in {"SendingFiles", "Finished"}
        BY <1>5, <4>1
      <4>3. QED BY <1>4, <4>2 DEF SPlace
    <3>3. QED BY <1>32, <3>1, <3>2
  <2>2. /\ s2r' = s2r \o EncryptAndSend(snd.server_seq, Disconnection)
        /\ sUp' = FALSE
        /\ \/ \E state \in State : sPub' = Append(sPub, state)
           \/ sPub' = sPub \o <<"Disconnected", "Disconnected">>
    BY <1>32 DEF SCancel, SConsentDenied, State
  <2>3. SLog' /\ Grows(s2r, s2r')
    BY <1>13, <2>1, <2>2, FrameTypes
  <2>4. Published(sPub, "SendingFiles") => Published(sPub', "SendingFiles")
    BY <1>14, <1>15, <2>2
  <2>5. SInStep' /\ SAsked'
    BY <1>5, <1>6, <2>2, <2>4 DEF SInStep, SAsked
  <2>6. QED BY <2>3, <2>5 DEF SenderKeeps
<1>33. CASE SConnectionLost \/ SSourceFails \/ SStop
  <2>1. /\ s2r' = s2r /\ sUp' = FALSE
        /\ sPub' = sPub \/ sPub' = Append(sPub, "Disconnected")
    BY <1>33 DEF SConnectionLost, SSourceFails, SStop, SExitOnError
  <2>2. Published(sPub, "SendingFiles") => Published(sPub', "SendingFiles")
    BY <1>14, <2>1
  <2>3. SInStep' /\ SAsked'
    BY <1>5, <1>6, <2>1, <2>2 DEF SInStep, SAsked
  <2>4. QED BY <1>16, <2>1, <2>3 DEF SenderKeeps
<1>34. QED
  BY <1>17, <1>18, <1>19, <1>21, <1>22, <1>23, <1>24, <1>25, <1>28, <1>29, <1>30,
     <1>31, <1>32, <1>33
     DEF SenderNext, SenderStep, SHandleFrame, SSendLoop

(* The chunks of a log stay where they are. *)
LEMMA ChunksStay ==
    ASSUME NEW log \in Seq(Frame), NEW longer \in Seq(Frame), Grows(log, longer)
    PROVE  /\ \A i \in 1..Len(log) :
                /\ longer[i] = log[i]
                /\ IsChunk(longer, i) <=> IsChunk(log, i)
                /\ \A f : /\ ChunkOf(longer, i, f) <=> ChunkOf(log, i, f)
                          /\ LastOfFile(longer, i, f) <=> LastOfFile(log, i, f)
           /\ Len(log) >= 10 => Announced(longer) = Announced(log)
<1>1. \A i \in 1..Len(log) : longer[i] = log[i]
  BY DEF Grows
<1>2. Len(log) >= 10 => longer[10] = log[10]
  BY <1>1
<1>3. QED BY <1>1, <1>2 DEF IsChunk, ChunkOf, LastOfFile, Announced

(* What the sender appends to its log. *)
LEMMA SentBody ==
    ASSUME TypeOK, NEW body \in Body,
           s2r' = s2r \o EncryptAndSend(snd.server_seq, body)
    PROVE  /\ Len(s2r') = Len(s2r) + 1 /\ s2r' \in Seq(Frame) /\ Grows(s2r, s2r')
           /\ s2r'[Len(s2r) + 1].kind = "SecureMessage"
           /\ s2r'[Len(s2r) + 1].body = body
<1>1. s2r \in Seq(Frame) /\ snd.server_seq \in Nat
  BY WireTypes, TaskTypes
<1>2. Secure(snd.server_seq + 1, body) \in Frame
  BY <1>1, FrameTypes
<1>3. QED BY <1>1, <1>2, OneMore DEF EncryptAndSend, Secure

(* What the sender has still to send stays unsent. *)
LEMMA SendingStep ==
    ASSUME TypeOK, TypeOK', SLog, SInStep, Sending, SenderNext, SenderKeeps,
           UNCHANGED uiVars
    PROVE  Sending'
<1>1. /\ s2r \in Seq(Frame) /\ s2r' \in Seq(Frame) /\ Len(s2r) \in Nat
      /\ snd \in SenderState /\ snd' \in SenderState
      /\ snd.sent \in [Files -> Nat] /\ snd.todo \in SUBSET Files /\ snd.cur \in SUBSET Files
  <2>1. s2r \in Seq(Frame) /\ snd \in SenderState
    BY DEF TypeOK, WireTypeOK, SenderTypeOK
  <2>2. s2r' \in Seq(Frame) /\ snd' \in SenderState
    BY DEF TypeOK, WireTypeOK, SenderTypeOK
  <2>3. QED BY <2>1, <2>2 DEF SenderState
<1>2. /\ \A i \in 1..Len(s2r) :
           /\ s2r'[i] = s2r[i]
           /\ \A f : /\ ChunkOf(s2r', i, f) <=> ChunkOf(s2r, i, f)
                     /\ LastOfFile(s2r', i, f) <=> LastOfFile(s2r, i, f)
      /\ Len(s2r) >= 10 => Announced(s2r') = Announced(s2r)
  BY <1>1, ChunksStay DEF SenderKeeps
<1>3. sUp
  BY SenderRuns
<1>4. SPlace(snd.state, Len(s2r), sRead)
  BY <1>3 DEF SInStep
<1>5. CASE SConnect \/ SServerInit \/ SConnectionResponse \/ SPairedKeyEncryption
  <2>1. /\ snd.state \in {"Initial", "SentUkeyClientInit", "SentUkeyClientFinish",
                          "SentPairedKeyEncryption"}
        /\ snd'.state \notin {"SendingFiles", "Finished"}
        /\ snd'.todo = snd.todo /\ snd'.cur = snd.cur /\ snd'.sent = snd.sent
    BY <1>1, <1>5
       DEF SConnect, SServerInit, SConnectionResponse, SPairedKeyEncryption,
           SReadsSharing, SReadsSecure, SReads, SenderState
  <2>2. snd.todo = {} /\ snd.cur = {} /\ \A f \in Files : snd.sent[f] = 0
    BY <1>3, <2>1 DEF Sending
  <2>3. QED BY <2>1, <2>2 DEF Sending
<1>6. CASE /\ s2r' = s2r /\ snd'.todo = snd.todo /\ snd'.cur = snd.cur
           /\ snd'.sent = snd.sent /\ snd'.state = snd.state
  BY <1>3, <1>6 DEF Sending
<1>7. CASE SBytesData \/ SSharingIgnored \/ SDisconnection
  <2>1. /\ s2r' = s2r /\ snd'.todo = snd.todo /\ snd'.cur = snd.cur
        /\ snd'.sent = snd.sent /\ snd'.state = snd.state
    BY <1>1, <1>7 DEF SBytesData, SSharingIgnored, SDisconnection, SenderState
  <2>2. QED BY <1>6, <2>1
<1>8. CASE SConnectionLost \/ SSourceFails \/ SStop
  <2>1. s2r' = s2r /\ snd' = snd
    BY <1>8 DEF SConnectionLost, SSourceFails, SStop, SExitOnError
  <2>2. QED BY <1>6, <2>1
<1>9. CASE SConsentGiven
  <2>1. /\ s2r' = s2r /\ snd'.todo = snd.todo /\ snd'.cur = snd.cur
        /\ snd'.sent = snd.sent /\ snd'.state = "SendingFiles"
    BY <1>1, <1>9 DEF SConsentGiven, SenderState
  <2>2. QED BY <2>1 DEF Sending
<1>10. CASE SPairedKeyResult
  <2>1. PICK missing \in SUBSET Vanishing :
          /\ s2r' = s2r \o SendEncryptedFrame(snd.server_seq,
                                              Introduction(Files \ missing))
          /\ snd' = [snd EXCEPT !.state = "SentIntroduction",
                                !.client_seq = @ + 1, !.server_seq = @ + 2,
                                !.buf = NoFrame, !.todo = Files \ missing]
    BY <1>10 DEF SPairedKeyResult
  <2>2. snd.state = "SentPairedKeyResult"
    BY <1>10 DEF SPairedKeyResult
  <2>3. /\ snd'.todo = Files \ missing /\ snd'.cur = snd.cur /\ snd'.sent = snd.sent
        /\ snd'.state = "SentIntroduction"
    BY <1>1, <2>1 DEF SenderState
  <2>4. snd.cur = {} /\ \A f \in Files : snd.sent[f] = 0
    BY <1>3, <2>2 DEF Sending
  <2>5. Len(s2r) = 8
    BY <1>4, <2>2 DEF SPlace
  <2>6. /\ Len(s2r') = 10
        /\ s2r'[10] = Secure(snd.server_seq + 2, Bytes(Introduction(Files \ missing), TRUE))
    <3>1. snd.server_seq \in Nat /\ Introduction(Files \ missing) \in SharingFrame
      BY <1>1, SharingFrameTypes DEF SenderState
    <3>2. PICK x, y \in Frame : /\ s2r' = s2r \o <<x, y>>
                                /\ y = Secure(snd.server_seq + 2,
                                              Bytes(Introduction(Files \ missing), TRUE))
      BY <2>1, <3>1, SecurePair
    <3>3. s2r' = s2r \o <<x, y>>
      BY <3>2
    <3>4. Len(s2r') = Len(s2r) + 2 /\ s2r'[Len(s2r) + 2] = y
      BY <1>1, <3>3, TwoMore
    <3>5. Len(s2r) + 2 = 10
      BY <2>5
    <3>6. QED BY <3>2, <3>4, <3>5, Zenon
  <2>7. Announced(s2r') = Files \ missing
    BY <2>6 DEF Announced, Secure, Bytes, Introduction
  <2>8. \A f \in Files, i \in 1..Len(s2r') : ~ChunkOf(s2r', i, f)
    <3>1. SUFFICES ASSUME NEW longer \in Seq(Frame), longer = s2r', Len(longer) = 10,
                          \A i \in 1..Len(longer) : SFrame(longer, i),
                          NEW i \in 1..Len(longer)
                   PROVE  ~IsChunk(longer, i)
      BY <1>1, <2>6 DEF SenderKeeps, SLog, ChunkOf
    <3>2. /\ i <= 4 => longer[i].kind # "SecureMessage"
          /\ i \in {5, 7, 9} => longer[i].body.type = "Bytes"
          /\ i \in {6, 8, 10} => longer[i].body.type = "Bytes"
      BY <3>1, SFrameCases
    <3>3. i <= 4 \/ i \in {5, 7, 9} \/ i \in {6, 8, 10}
      BY <3>1
    <3>4. QED BY <3>2, <3>3 DEF IsChunk
  <2>9. QED BY <2>3, <2>4, <2>6, <2>7, <2>8 DEF Sending
<1>11. ASSUME NEW f \in Files, SNextFile(f) PROVE Sending'
  <2>1. /\ s2r' = s2r /\ f \in snd.todo /\ snd.cur = {} /\ SSending
        /\ snd' = [snd EXCEPT !.todo = @ \ {f},
                              !.cur = IF Size[f] = 0 THEN {} ELSE {f}]
    BY <1>11 DEF SNextFile
  <2>2. /\ snd'.todo = snd.todo \ {f} /\ snd'.sent = snd.sent
        /\ snd'.state = "SendingFiles"
        /\ \/ snd'.cur = {}
           \/ snd'.cur = {f} /\ Size[f] # 0
    BY <1>1, <2>1 DEF SenderState, SSending
  <2>3. Size[f] \in Nat
    BY SizeAssumption
  <2>4. snd'.todo \cup snd'.cur \subseteq snd.todo \cup snd.cur
    BY <2>1, <2>2
  <2>5. \A i \in 1..Len(s2r) : \A g : LastOfFile(s2r, i, g) => ChunkOf(s2r, i, g)
    BY DEF LastOfFile
  <2>6. QED BY <2>1, <2>2, <2>3, <2>4, <2>5 DEF Sending
<1>12. ASSUME NEW f \in Files, NEW n \in 0..ReadBuffer, SReadAndSend(f, n) PROVE Sending'
  <2>1. /\ SSending /\ snd.cur = {f}
        /\ n = 0 => snd.sent[f] = Yield(f)
        /\ s2r' = s2r \o EncryptAndSend(snd.server_seq, FileChunk(f, snd.sent[f], n, FALSE))
    BY <1>12 DEF SReadAndSend
  <2>2. PICK noted, ack : snd' = [snd EXCEPT !.server_seq = @ + 1, !.sent[f] = @ + n,
                                             !.ack = ack, !.noted = noted]
    BY <1>12 DEF SReadAndSend
  <2>3. snd.sent[f] \in Nat /\ n \in Nat
    BY <1>1, ReadBufferAssumption
  <2>4. FileChunk(f, snd.sent[f], n, FALSE) \in Body
    BY <2>3, FrameTypes
  <2>5. /\ Len(s2r') = Len(s2r) + 1
        /\ s2r'[Len(s2r) + 1].kind = "SecureMessage"
        /\ s2r'[Len(s2r) + 1].body = FileChunk(f, snd.sent[f], n, FALSE)
    BY <2>1, <2>4, SentBody
  <2>6. /\ snd'.todo = snd.todo /\ snd'.cur = {f} /\ snd'.state = "SendingFiles"
        /\ snd'.sent[f] = snd.sent[f] + n
        /\ \A g \in Files \ {f} : snd'.sent[g] = snd.sent[g]
    BY <1>1, <2>1, <2>2 DEF SenderState, SSending
  <2>7. Len(s2r) >= 10 /\ snd.todo \cup {f} \subseteq Announced(s2r)
        /\ Size[f] > 0 /\ f \notin snd.todo
    BY <2>1 DEF Sending
  <2>8. /\ \A g : ChunkOf(s2r', Len(s2r) + 1, g) <=> g = f
        /\ \A g : ~LastOfFile(s2r', Len(s2r) + 1, g)
        /\ s2r'[Len(s2r) + 1].body.off + s2r'[Len(s2r) + 1].body.len = snd.sent[f] + n
    BY <2>5 DEF ChunkOf, LastOfFile, IsChunk, FileChunk
  <2>9. snd'.sent[f] > 0
    <3>1. Yield(f) > 0
      BY <2>7, SourceAssumption, SizeAssumption DEF Yield
    <3>2. QED BY <2>1, <2>3, <2>6, <3>1
  <2>10. \A i \in 1..Len(s2r') : i \in 1..Len(s2r) \/ i = Len(s2r) + 1
    BY <1>1, <2>5
  <2>11. /\ snd'.todo \cup snd'.cur \subseteq Announced(s2r') /\ Len(s2r') >= 10
    BY <1>1, <1>2, <2>5, <2>6, <2>7
  <2>12. \A g \in snd'.todo : /\ g \notin snd'.cur /\ snd'.sent[g] = 0
                              /\ \A i \in 1..Len(s2r') : ~ChunkOf(s2r', i, g)
    <3>1. \A g \in snd.todo : /\ snd.sent[g] = 0 /\ g \in Files \ {f}
                              /\ \A i \in 1..Len(s2r) : ~ChunkOf(s2r, i, g)
      BY <1>1, <2>7 DEF Sending
    <3>2. QED BY <1>2, <2>6, <2>8, <2>10, <3>1
  <2>13. \A i \in 1..Len(s2r') : ~LastOfFile(s2r', i, f)
    <3>1. \A i \in 1..Len(s2r) : ~LastOfFile(s2r, i, f)
      BY <2>1 DEF Sending
    <3>2. QED BY <1>2, <2>8, <2>10, <3>1
  <2>14. /\ ChunkOf(s2r', Len(s2r'), f)
         /\ snd'.sent[f] = s2r'[Len(s2r')].body.off + s2r'[Len(s2r')].body.len
    BY <2>5, <2>6, <2>8
  <2>15. QED BY <2>3, <2>6, <2>7, <2>9, <2>11, <2>12, <2>13, <2>14 DEF Sending
<1>13. ASSUME NEW f \in Files, SSendLast(f) PROVE Sending'
  <2>1. /\ SSending /\ snd.cur = {f}
        /\ s2r' = s2r \o EncryptAndSend(snd.server_seq, FileChunk(f, Size[f], 0, TRUE))
        /\ snd' = [snd EXCEPT !.server_seq = @ + 1, !.cur = {}]
    BY <1>13 DEF SSendLast
  <2>2. FileChunk(f, Size[f], 0, TRUE) \in Body
    <3>1. Size[f] \in Nat
      BY SizeAssumption
    <3>2. QED BY <3>1, FrameTypes
  <2>3. /\ Len(s2r') = Len(s2r) + 1
        /\ s2r'[Len(s2r) + 1].kind = "SecureMessage"
        /\ s2r'[Len(s2r) + 1].body = FileChunk(f, Size[f], 0, TRUE)
    BY <2>1, <2>2, SentBody
  <2>4. /\ snd'.todo = snd.todo /\ snd'.cur = {} /\ snd'.state = "SendingFiles"
        /\ snd'.sent = snd.sent
    BY <1>1, <2>1 DEF SenderState, SSending
  <2>5. Len(s2r) >= 10 /\ snd.todo \cup {f} \subseteq Announced(s2r) /\ f \notin snd.todo
    BY <2>1 DEF Sending
  <2>6. \A g : ChunkOf(s2r', Len(s2r) + 1, g) <=> g = f
    BY <2>3 DEF ChunkOf, IsChunk, FileChunk
  <2>7. \A i \in 1..Len(s2r') : i \in 1..Len(s2r) \/ i = Len(s2r) + 1
    BY <1>1, <2>3
  <2>8. snd'.todo \cup snd'.cur \subseteq Announced(s2r') /\ Len(s2r') >= 10
    BY <1>1, <1>2, <2>3, <2>4, <2>5
  <2>9. \A g \in snd'.todo : /\ g \notin snd'.cur /\ snd'.sent[g] = 0
                             /\ \A i \in 1..Len(s2r') : ~ChunkOf(s2r', i, g)
    <3>1. \A g \in snd.todo : /\ snd.sent[g] = 0 /\ g # f
                              /\ \A i \in 1..Len(s2r) : ~ChunkOf(s2r, i, g)
      BY <2>5 DEF Sending
    <3>2. QED BY <1>2, <2>4, <2>6, <2>7, <3>1
  <2>10. QED BY <2>4, <2>8, <2>9 DEF Sending
<1>14. CASE SFinish \/ SCancel \/ SConsentDenied
  <2>1. /\ s2r' = s2r \o EncryptAndSend(snd.server_seq, Disconnection)
        /\ snd'.todo = snd.todo /\ snd'.cur = snd.cur /\ snd'.sent = snd.sent
        /\ snd.cur = {} /\ snd'.state # "SendingFiles"
        /\ snd'.state = "Finished" \/ ~sUp'
    <3>1. CASE SFinish
      BY <1>1, <3>1 DEF SFinish, SenderState
    <3>2. CASE SCancel
      <4>1. snd.cur = {}
        BY <1>3, <3>2 DEF SCancel, Sending
      <4>2. QED BY <1>1, <3>2, <4>1 DEF SCancel, SenderState
    <3>3. CASE SConsentDenied
      <4>1. snd.cur = {}
        BY <1>3, <3>3 DEF SConsentDenied, Sending
      <4>2. QED BY <1>1, <3>3, <4>1 DEF SConsentDenied, SenderState
    <3>4. QED BY <1>14, <3>1, <3>2, <3>3
  <2>2. /\ Len(s2r') = Len(s2r) + 1
        /\ s2r'[Len(s2r) + 1].body = Disconnection
    BY <2>1, SentBody, FrameTypes
  <2>3. \A g : ~ChunkOf(s2r', Len(s2r) + 1, g)
    BY <2>2 DEF ChunkOf, IsChunk, Disconnection
  <2>4. \A i \in 1..Len(s2r') : i \in 1..Len(s2r) \/ i = Len(s2r) + 1
    BY <1>1, <2>2
  <2>5. \A g \in snd'.todo : /\ g \notin snd'.cur /\ snd'.sent[g] = 0
                             /\ \A i \in 1..Len(s2r') : ~ChunkOf(s2r', i, g)
    <3>1. \A g \in snd.todo : /\ snd.sent[g] = 0
                              /\ \A i \in 1..Len(s2r) : ~ChunkOf(s2r, i, g)
      BY DEF Sending
    <3>2. QED BY <1>2, <2>1, <2>3, <2>4, <3>1
  <2>6. snd'.todo \cup snd'.cur # {} =>
          Len(s2r') >= 10 /\ snd'.todo \cup snd'.cur \subseteq Announced(s2r')
    <3>1. snd.todo \cup snd.cur # {} =>
            Len(s2r) >= 10 /\ snd.todo \cup snd.cur \subseteq Announced(s2r)
      BY DEF Sending
    <3>2. QED BY <1>1, <1>2, <2>1, <2>2, <3>1
  <2>7. QED BY <2>1, <2>5, <2>6 DEF Sending
<1>15. QED
  BY <1>5, <1>7, <1>8, <1>9, <1>10, <1>11, <1>12, <1>13, <1>14
     DEF SenderNext, SenderStep, SHandleFrame, SSendLoop

-----------------------------------------------------------------------------
(* The receiver. *)

(* Only a task that runs takes steps. *)
LEMMA ReceiverRuns ==
    ASSUME ReceiverNext
    PROVE  rUp
BY DEF ReceiverNext, ReceiverStep, RHandleFrame, RHandleCommand,
       RConnectionRequest, RClientInit, RClientFinish, RConnectionResponse,
       RBytesData, RPairedKeyEncryption, RPairedKeyResult, RIntroduction,
       REmptyIntroduction, RFileChunk, RFileLast, RDisconnection, RBadFrame,
       RAccept, RReject, RCancel, RConnectionLost, RAcceptFails, RStoreFails,
       RCrash, RTakes, RReadsSharing, RReadsSecure, RReads

(* The frame the receiver reads next. *)
LEMMA RHeadCases ==
    ASSUME TypeOK, SLog, RReads
    PROVE  /\ rRead + 1 \in 1..Len(s2r) /\ rRead' = rRead + 1
           /\ SFrame(s2r, rRead + 1) /\ RHead \in Frame
           /\ rRead < 4 => RHead.kind # "SecureMessage"
           /\ rRead >= 4 => RHead.kind = "SecureMessage" /\ RHead.seq = rRead - 3
           /\ rRead \in {4, 6, 8} => RHead.body.type = "Bytes" /\ ~RHead.body.last
           /\ rRead \in {5, 7, 9} => RHead.body.type = "Bytes" /\ RHead.body.last
           /\ rRead >= 10 => RHead.body.type \in {"Disconnection", "File"}
<1>1. s2r \in Seq(Frame) /\ rRead \in 0..Len(s2r)
  BY DEF TypeOK, WireTypeOK
<1>2. rRead + 1 \in 1..Len(s2r) /\ rRead' = rRead + 1
  BY <1>1 DEF RReads
<1>3. SFrame(s2r, rRead + 1)
  BY <1>2 DEF SLog
<1>4. RHead = s2r[rRead + 1]
  BY DEF RHead
<1>5. SUFFICES ASSUME NEW i \in 1..Len(s2r), i = rRead + 1
               PROVE  /\ RHead \in Frame
                      /\ rRead < 4 => RHead.kind # "SecureMessage"
                      /\ rRead >= 4 => RHead.kind = "SecureMessage" /\ RHead.seq = rRead - 3
                      /\ rRead \in {4, 6, 8} => RHead.body.type = "Bytes" /\ ~RHead.body.last
                      /\ rRead \in {5, 7, 9} => RHead.body.type = "Bytes" /\ RHead.body.last
                      /\ rRead >= 10 => RHead.body.type \in {"Disconnection", "File"}
  BY <1>2, <1>3
<1>6. /\ i <= 4 => s2r[i].kind # "SecureMessage"
      /\ i > 4 => s2r[i].kind = "SecureMessage" /\ s2r[i].seq = i - 4
      /\ i \in {5, 7, 9} => s2r[i].body.type = "Bytes" /\ ~s2r[i].body.last
      /\ i \in {6, 8, 10} => s2r[i].body.type = "Bytes" /\ s2r[i].body.last
      /\ i > 10 => s2r[i].body.type \in {"Disconnection", "File"}
  BY <1>1, <1>3, <1>5, SFrameCases
<1>7. QED BY <1>1, <1>4, <1>5, <1>6

(* Past the key exchange. *)
LEMMA RPlaceSecure ==
    ASSUME NEW state, NEW wrote \in Nat, NEW read \in Nat, RPlace(state, wrote, read)
    PROVE  /\ state \notin RHandshakeState => wrote >= 4 /\ read >= 4
           /\ read >= 10 => state \in {"WaitingForUserConsent", "ReceivingFiles"}
           /\ state \in {"WaitingForUserConsent", "ReceivingFiles"} => wrote >= 6 /\ read >= 10
           /\ state # "Finished" /\ state \in State
<1>1. CASE state \in RHandshakeState
  BY <1>1 DEF RPlace, RHandshakeState, State
<1>2. CASE state = "SentConnectionResponse"
  BY <1>2 DEF RPlace, RHandshakeState, State
<1>3. CASE state = "SentPairedKeyResult"
  BY <1>3 DEF RPlace, RHandshakeState, State
<1>4. CASE state = "ReceivedPairedKeyResult"
  BY <1>4 DEF RPlace, RHandshakeState, State
<1>5. CASE state \in {"WaitingForUserConsent", "ReceivingFiles"}
  BY <1>5 DEF RPlace, RHandshakeState, State
<1>6. QED BY <1>1, <1>2, <1>3, <1>4, <1>5, Zenon DEF RPlace, RHandshakeState

(* The data chunk of a payload is read where one is due. *)
LEMMA RPlaceData ==
    ASSUME NEW state, NEW wrote \in Nat, NEW read \in Nat, RPlace(state, wrote, read),
           read >= 4, read \notin {5, 7, 9}
    PROVE  RPlace(state, wrote, read + 1)
<1>1. CASE state \in RHandshakeState
  BY <1>1 DEF RPlace, RHandshakeState
<1>2. CASE state = "SentConnectionResponse"
  BY <1>2 DEF RPlace
<1>3. CASE state = "SentPairedKeyResult"
  BY <1>3 DEF RPlace
<1>4. CASE state = "ReceivedPairedKeyResult"
  BY <1>4 DEF RPlace
<1>5. CASE state \in {"WaitingForUserConsent", "ReceivingFiles"}
  BY <1>5 DEF RPlace
<1>6. QED BY <1>1, <1>2, <1>3, <1>4, <1>5, Zenon DEF RPlace, RHandshakeState

(* What a step of the receiver keeps; its log only grows. *)
ReceiverKeeps == RLog' /\ RInStep' /\ RAsked' /\ Grows(r2s, r2s')

(* Every step of the receiver keeps its log good and itself in step with    *)
(* it: the handlers of InboundRequest against the places of RPlace.         *)
LEMMA ReceiverKeepsStep ==
    ASSUME TypeOK, SLog, RLog, RInStep, RAsked, ReceiverNext,
           UNCHANGED <<senderVars, uiVars>>
    PROVE  ReceiverKeeps
<1>1. /\ s2r \in Seq(Frame) /\ r2s \in Seq(Frame)
      /\ rRead \in 0..Len(s2r)
      /\ rcv \in ReceiverState /\ rPub \in Seq(State)
      /\ Len(s2r) \in Nat /\ Len(r2s) \in Nat /\ rRead \in Nat
  BY DEF TypeOK, WireTypeOK, ReceiverTypeOK
<1>2. rcv.server_seq \in Nat /\ rcv.client_seq \in Nat
  BY <1>1 DEF ReceiverState
<1>3. rUp
  BY ReceiverRuns
<1>4. /\ RPlace(rcv.state, Len(r2s), rRead)
      /\ Len(r2s) >= 2 => rcv.server_seq = Len(r2s) - 2
      /\ Len(r2s) < 2 => rcv.server_seq = 0
      /\ rRead >= 4 => rcv.client_seq = rRead - 4
      /\ rRead < 4 => rcv.client_seq = 0
      /\ rRead > 0 /\ Opens(s2r, rRead) => rcv.buf = s2r[rRead].body.frame
  BY <1>3 DEF RInStep
<1>5. /\ rClicks # <<>> => rPub # <<>>
      /\ rPub # <<>> => rcv.state \in {"WaitingForUserConsent", "ReceivingFiles"}
  BY <1>3 DEF RAsked
<1>6. s2r' = s2r /\ rClicks' = rClicks
  BY DEF senderVars, uiVars
<1>7. \A x \in Frame : r2s' = r2s \o <<x>> =>
        /\ r2s' \in Seq(Frame) /\ Len(r2s') = Len(r2s) + 1
        /\ r2s'[Len(r2s) + 1] = x /\ Grows(r2s, r2s')
  BY <1>1, OneMore
<1>8. \A x, y \in Frame : r2s' = r2s \o <<x, y>> =>
        /\ r2s' \in Seq(Frame) /\ Len(r2s') = Len(r2s) + 2
        /\ r2s'[Len(r2s) + 1] = x /\ r2s'[Len(r2s) + 2] = y
        /\ Grows(r2s, r2s')
  BY <1>1, TwoMore
<1>9. /\ Len(r2s') \in Len(r2s)..(Len(r2s) + 3) /\ r2s' \in Seq(Frame) /\ Grows(r2s, r2s')
      /\ Len(r2s') >= Len(r2s) + 1 => RFrame(r2s', Len(r2s) + 1)
      /\ Len(r2s') >= Len(r2s) + 2 => RFrame(r2s', Len(r2s) + 2)
      /\ Len(r2s') >= Len(r2s) + 3 => RFrame(r2s', Len(r2s) + 3)
      /\ Len(s2r) > 0
      => RLog'
  <2> SUFFICES ASSUME NEW longer \in Seq(Frame), longer = r2s',
                      Len(longer) \in Len(r2s)..(Len(r2s) + 3), Grows(r2s, longer),
                      Len(longer) >= Len(r2s) + 1 => RFrame(longer, Len(r2s) + 1),
                      Len(longer) >= Len(r2s) + 2 => RFrame(longer, Len(r2s) + 2),
                      Len(longer) >= Len(r2s) + 3 => RFrame(longer, Len(r2s) + 3)
               PROVE  \A i \in 1..Len(longer) : RFrame(longer, i)
    BY <1>1, <1>6 DEF RLog
  <2>1. \A i \in (Len(r2s) + 1)..Len(longer) : RFrame(longer, i)
    <3>1. \A i \in (Len(r2s) + 1)..Len(longer) :
            i = Len(r2s) + 1 \/ i = Len(r2s) + 2 \/ i = Len(r2s) + 3
      BY <1>1
    <3>2. SUFFICES ASSUME NEW i \in (Len(r2s) + 1)..Len(longer) PROVE RFrame(longer, i)
      OBVIOUS
    <3>3. CASE i = Len(r2s) + 1
      BY <1>1, <3>3
    <3>4. CASE i = Len(r2s) + 2
      BY <1>1, <3>4
    <3>5. CASE i = Len(r2s) + 3
      BY <1>1, <3>5
    <3>6. QED BY <3>1, <3>3, <3>4, <3>5
  <2>2. \A i \in 1..Len(r2s) : RFrame(r2s, i)
    BY DEF RLog
  <2>3. QED BY <1>1, <2>1, <2>2, RLogStays
<1>10. r2s' = r2s => RLog' /\ Grows(r2s, r2s') /\ Len(r2s') = Len(r2s)
  BY <1>1, <1>6 DEF RLog, Grows
<1>11. ASSUME NEW frame \in SharingFrame,
              r2s' = r2s \o SendEncryptedFrame(rcv.server_seq, frame)
       PROVE  /\ r2s' \in Seq(Frame) /\ Len(r2s') = Len(r2s) + 2 /\ Grows(r2s, r2s')
              /\ r2s'[Len(r2s) + 1] = Secure(rcv.server_seq + 1, Bytes(frame, FALSE))
              /\ r2s'[Len(r2s) + 2] = Secure(rcv.server_seq + 2, Bytes(frame, TRUE))
  <2>1. PICK x, y \in Frame : /\ SendEncryptedFrame(rcv.server_seq, frame) = <<x, y>>
                              /\ x = Secure(rcv.server_seq + 1, Bytes(frame, FALSE))
                              /\ y = Secure(rcv.server_seq + 2, Bytes(frame, TRUE))
    BY <1>2, SecurePair
  <2>2. r2s' = r2s \o <<x, y>>
    BY <1>11, <2>1
  <2>3. QED BY <1>8, <2>1, <2>2
<1>12. ASSUME Len(r2s) >= 6, Len(s2r) > 0,
              NEW status \in {"Accept", "Reject", "Unsupported"},
              r2s' = r2s \o SendEncryptedFrame(rcv.server_seq, Response(status))
       PROVE  RLog' /\ Len(r2s') = Len(r2s) + 2 /\ Grows(r2s, r2s')
  <2>1. Response(status) \in SharingFrame
    BY SharingFrameTypes
  <2>2. /\ r2s' \in Seq(Frame) /\ Len(r2s') = Len(r2s) + 2 /\ Grows(r2s, r2s')
        /\ r2s'[Len(r2s) + 1] = Secure(rcv.server_seq + 1, Bytes(Response(status), FALSE))
        /\ r2s'[Len(r2s) + 2] = Secure(rcv.server_seq + 2, Bytes(Response(status), TRUE))
    BY <1>11, <1>12, <2>1
  <2>3. /\ rcv.server_seq + 1 = (Len(r2s) + 1) - 2
        /\ rcv.server_seq + 2 = (Len(r2s) + 2) - 2
    BY <1>1, <1>4, <1>12
  <2>4. SUFFICES ASSUME NEW i \in Nat, i = Len(r2s) + 1, NEW j \in Nat, j = i + 1,
                        NEW longer, longer = r2s'
                 PROVE  RFrame(longer, i) /\ RFrame(longer, j)
    <3>1. /\ Len(r2s) + 1 \in Nat /\ Len(r2s) + 2 \in Nat
          /\ Len(r2s) + 2 = (Len(r2s) + 1) + 1
      BY <1>1
    <3>2. RFrame(r2s', Len(r2s) + 1) /\ RFrame(r2s', Len(r2s) + 2)
      BY <2>4, <3>1
    <3>3. QED BY <1>1, <1>9, <1>12, <2>2, <3>2
  <2>5. /\ i # 1 /\ i # 2 /\ i # 3 /\ i # 4 /\ i # 5 /\ i # 6
        /\ j # 1 /\ j # 2 /\ j # 3 /\ j # 4 /\ j # 5 /\ j # 6
        /\ j - 1 = i /\ j = Len(r2s) + 2
    BY <1>1, <1>12, <2>4
  <2>6. /\ longer[i].kind = "SecureMessage" /\ longer[i].seq = i - 2
        /\ longer[i].body = Bytes(Response(status), FALSE)
        /\ longer[j].kind = "SecureMessage" /\ longer[j].seq = j - 2
        /\ longer[j].body = Bytes(Response(status), TRUE)
    <3>1. rcv.server_seq + 1 = i - 2 /\ rcv.server_seq + 2 = j - 2
      BY <1>1, <2>3, <2>4, <2>5
    <3>2. /\ longer[i] = Secure(i - 2, Bytes(Response(status), FALSE))
          /\ longer[j] = Secure(j - 2, Bytes(Response(status), TRUE))
      BY <2>2, <2>4, <2>5, <3>1, Zenon
    <3>3. QED BY <3>2 DEF Secure
  <2>7. RFrame(longer, i)
    BY <2>5, <2>6, Zenon DEF RFrame
  <2>8. RFrame(longer, j)
    BY <2>5, <2>6, Zenon DEF RFrame
  <2>9. QED BY <2>7, <2>8
<1>13. ASSUME Len(r2s) >= 6, Len(s2r) > 0,
              r2s' = r2s \o EncryptAndSend(rcv.server_seq, Disconnection)
       PROVE  RLog' /\ Len(r2s') = Len(r2s) + 1 /\ Grows(r2s, r2s')
  <2>1. Secure(rcv.server_seq + 1, Disconnection) \in Frame
    BY <1>2, FrameTypes
  <2>2. /\ r2s' \in Seq(Frame) /\ Len(r2s') = Len(r2s) + 1 /\ Grows(r2s, r2s')
        /\ r2s'[Len(r2s) + 1] = Secure(rcv.server_seq + 1, Disconnection)
    BY <1>7, <1>13, <2>1 DEF EncryptAndSend
  <2>3. rcv.server_seq + 1 = (Len(r2s) + 1) - 2
    BY <1>1, <1>4, <1>13
  <2>4. SUFFICES ASSUME NEW i \in Nat, i = Len(r2s) + 1, NEW longer, longer = r2s'
                 PROVE  RFrame(longer, i)
    <3>1. Len(r2s) + 1 \in Nat
      BY <1>1
    <3>2. RFrame(r2s', Len(r2s) + 1)
      BY <2>4, <3>1
    <3>3. QED BY <1>1, <1>9, <1>13, <2>2, <3>2
  <2>5. i # 1 /\ i # 2 /\ i # 3 /\ i # 4 /\ i # 5 /\ i # 6
    BY <1>1, <1>13, <2>4
  <2>6. /\ longer[i].kind = "SecureMessage" /\ longer[i].seq = i - 2
        /\ longer[i].body = Disconnection
    BY <2>2, <2>3, <2>4 DEF Secure
  <2>7. QED BY <2>5, <2>6, Zenon DEF RFrame
<1>14. CASE RConnectionRequest
  <2>1. /\ rcv.state = "Initial" /\ rRead' = rRead + 1 /\ RHead.kind = "ConnectionRequest"
        /\ r2s' = r2s /\ rPub' = rPub
        /\ rcv' = [rcv EXCEPT !.state = "ReceivedConnectionRequest"]
    BY <1>14 DEF RConnectionRequest, RReads
  <2>2. Len(r2s) = 0 /\ rRead = 0
    BY <1>4, <2>1 DEF RPlace
  <2>3. ~Opens(s2r, 1)
    BY <2>1, <2>2 DEF Opens, RHead
  <2>4. RInStep'
    BY <1>1, <1>4, <1>6, <2>1, <2>2, <2>3 DEF RInStep, RPlace, ReceiverState
  <2>5. RAsked'
    BY <1>5, <1>6, <2>1 DEF RAsked
  <2>6. QED BY <1>10, <2>1, <2>4, <2>5 DEF ReceiverKeeps
<1>15. CASE RClientInit
  <2>1. /\ rcv.state = "ReceivedConnectionRequest" /\ rRead' = rRead + 1
        /\ RHead.kind = "ClientInit" /\ rPub' = rPub
        /\ r2s' = r2s \o <<Plain("ServerInit")>>
        /\ rcv' = [rcv EXCEPT !.state = "SentUkeyServerInit"]
    BY <1>15 DEF RClientInit, RReads
  <2>2. Len(r2s) = 0 /\ rRead = 1 /\ Len(s2r) > 0
    <3>1. Len(r2s) = 0 /\ rRead = 1
      BY <1>4, <2>1 DEF RPlace
    <3>2. QED BY <1>1, <3>1
  <2>3. Plain("ServerInit") \in Frame
    BY FrameTypes DEF PlainKind
  <2>4. /\ r2s' \in Seq(Frame) /\ Len(r2s') = Len(r2s) + 1 /\ Grows(r2s, r2s')
        /\ r2s'[Len(r2s) + 1] = Plain("ServerInit")
    BY <1>7, <2>1, <2>3
  <2>5. RFrame(r2s', Len(r2s) + 1)
    BY <2>2, <2>4, SMT DEF RFrame
  <2>6. RLog'
    BY <1>1, <1>9, <2>2, <2>4, <2>5
  <2>7. ~Opens(s2r, 2)
    BY <2>1, <2>2 DEF Opens, RHead
  <2>8. RInStep'
    BY <1>1, <1>4, <1>6, <2>1, <2>2, <2>4, <2>7 DEF RInStep, RPlace, ReceiverState
  <2>9. RAsked'
    BY <1>5, <1>6, <2>1 DEF RAsked
  <2>10. QED BY <2>4, <2>6, <2>8, <2>9 DEF ReceiverKeeps
<1>16. CASE RClientFinish
  <2>1. /\ rcv.state = "SentUkeyServerInit" /\ rRead' = rRead + 1
        /\ RHead.kind = "ClientFinish" /\ r2s' = r2s /\ rPub' = rPub
        /\ rcv' = [rcv EXCEPT !.state = "ReceivedUkeyClientFinish"]
    BY <1>16 DEF RClientFinish, RReads
  <2>2. Len(r2s) = 1 /\ rRead = 2
    BY <1>4, <2>1 DEF RPlace
  <2>3. ~Opens(s2r, 3)
    BY <2>1, <2>2 DEF Opens, RHead
  <2>4. RInStep'
    BY <1>1, <1>4, <1>6, <2>1, <2>2, <2>3 DEF RInStep, RPlace, ReceiverState
  <2>5. RAsked'
    BY <1>5, <1>6, <2>1 DEF RAsked
  <2>6. QED BY <1>10, <2>1, <2>4, <2>5 DEF ReceiverKeeps
<1>17. CASE RConnectionResponse
  <2>1. /\ rcv.state = "ReceivedUkeyClientFinish" /\ rRead' = rRead + 1
        /\ RHead.kind = "ConnectionResponse" /\ rPub' = rPub
        /\ r2s' = r2s \o <<Plain("ConnectionResponse")>>
                      \o SendEncryptedFrame(rcv.server_seq, PairedKeyEncryption)
        /\ rcv' = [rcv EXCEPT !.state = "SentConnectionResponse", !.server_seq = @ + 2]
    BY <1>17 DEF RConnectionResponse, RReads
  <2>2. Len(r2s) = 1 /\ rRead = 3
    BY <1>4, <2>1 DEF RPlace
  <2>3. rcv.server_seq = 0 /\ Len(s2r) > 0
    BY <1>1, <1>4, <2>2
  <2>4. PICK x, y \in Frame : /\ SendEncryptedFrame(rcv.server_seq, PairedKeyEncryption) = <<x, y>>
                              /\ x = Secure(rcv.server_seq + 1, Bytes(PairedKeyEncryption, FALSE))
                              /\ y = Secure(rcv.server_seq + 2, Bytes(PairedKeyEncryption, TRUE))
    BY <1>2, SecurePair, SharingFrameTypes
  <2>5. /\ r2s' \in Seq(Frame) /\ Len(r2s') = 4 /\ Grows(r2s, r2s')
        /\ r2s'[2] = Plain("ConnectionResponse") /\ r2s'[3] = x /\ r2s'[4] = y
    <3>1. Plain("ConnectionResponse") \in Frame
      BY FrameTypes DEF PlainKind
    <3>2. PICK one \in Seq(Frame) : /\ one = r2s \o <<Plain("ConnectionResponse")>>
                                    /\ Len(one) = Len(r2s) + 1 /\ Grows(r2s, one)
                                    /\ one[Len(r2s) + 1] = Plain("ConnectionResponse")
      <4>1. r2s \o <<Plain("ConnectionResponse")>> \in Seq(Frame)
        BY <1>1, <3>1
      <4>2. /\ Len(r2s \o <<Plain("ConnectionResponse")>>) = Len(r2s) + 1
            /\ (r2s \o <<Plain("ConnectionResponse")>>)[Len(r2s) + 1]
                 = Plain("ConnectionResponse")
            /\ Grows(r2s, r2s \o <<Plain("ConnectionResponse")>>)
        BY <1>1, <3>1, OneMore
      <4>3. QED BY <4>1, <4>2
    <3>3. r2s' = one \o <<x, y>>
      BY <2>1, <2>4, <3>2
    <3>4. /\ r2s' \in Seq(Frame) /\ Len(r2s') = Len(one) + 2 /\ Grows(one, r2s')
          /\ r2s'[Len(one) + 1] = x /\ r2s'[Len(one) + 2] = y
      BY <3>3, TwoMore
    <3>5. Len(one) = 2 /\ Len(one) + 1 = 3 /\ Len(one) + 2 = 4 /\ Len(r2s) + 1 = 2
      BY <2>2, <3>2
    <3>6. r2s'[1] = one[1] /\ r2s'[2] = one[2] /\ one[1] = r2s[1]
      BY <2>2, <3>2, <3>4, <3>5 DEF Grows
    <3>7. Grows(r2s, r2s')
      BY <2>2, <3>4, <3>5, <3>6 DEF Grows
    <3>8. QED BY <3>2, <3>4, <3>5, <3>6, <3>7, Zenon
  <2>6. RFrame(r2s', 2) /\ RFrame(r2s', 3) /\ RFrame(r2s', 4)
    BY <2>3, <2>4, <2>5, SMT DEF RFrame
  <2>7. RLog'
    BY <1>1, <1>9, <2>2, <2>3, <2>5, <2>6
  <2>8. ~Opens(s2r, 4)
    BY <2>1, <2>2 DEF Opens, RHead
  <2>9. RInStep'
    BY <1>1, <1>4, <1>6, <2>1, <2>2, <2>3, <2>5, <2>8 DEF RInStep, RPlace, ReceiverState
  <2>10. RAsked'
    BY <1>5, <1>6, <2>1 DEF RAsked
  <2>11. QED BY <2>5, <2>7, <2>9, <2>10 DEF ReceiverKeeps
<1>18. ASSUME RReadsSecure
       PROVE  /\ Len(r2s) >= 4 /\ rRead >= 4 /\ rRead + 1 \in 1..Len(s2r) /\ Len(s2r) > 0
              /\ rRead' = rRead + 1 /\ rcv.client_seq + 1 = (rRead + 1) - 4
              /\ s2r'[rRead'] = RHead
              /\ Opens(s2r', rRead') <=> RHead.body.type = "Bytes" /\ ~RHead.body.last
              /\ rRead \in {4, 6, 8} => RHead.body.type = "Bytes" /\ ~RHead.body.last
              /\ rRead \in {5, 7, 9} => RHead.body.type = "Bytes" /\ RHead.body.last
              /\ rRead >= 10 => RHead.body.type \in {"Disconnection", "File"}
  <2>1. RReads
    BY <1>18 DEF RReadsSecure
  <2>2. Len(r2s) >= 4 /\ rRead >= 4
    <3>1. rcv.state \notin RHandshakeState
      BY <1>18 DEF RReadsSecure
    <3>2. QED BY <1>1, <1>4, <3>1, RPlaceSecure
  <2>3. s2r'[rRead'] = RHead
    BY <1>6, <2>1, RHeadCases DEF RHead
  <2>4. RHead.kind = "SecureMessage"
    BY <1>18 DEF RReadsSecure, InSequence
  <2>5. QED BY <1>1, <1>4, <2>1, <2>2, <2>3, <2>4, RHeadCases DEF Opens
<1>19. CASE RBytesData
  <2>1. /\ RReadsSecure /\ RHead.body.type = "Bytes" /\ ~RHead.body.last
        /\ rcv' = [rcv EXCEPT !.client_seq = @ + 1, !.buf = RHead.body.frame]
        /\ r2s' = r2s /\ rUp' = rUp /\ rPub' = rPub
    BY <1>19 DEF RBytesData
  <2>2. /\ rcv'.state = rcv.state /\ rcv'.server_seq = rcv.server_seq
        /\ rcv'.client_seq = rRead' - 4 /\ rcv'.buf = s2r'[rRead'].body.frame
    BY <1>1, <1>18, <2>1 DEF ReceiverState
  <2>3. RPlace(rcv'.state, Len(r2s'), rRead')
    <3>1. rRead # 5 /\ rRead # 7 /\ rRead # 9 /\ rRead' = rRead + 1 /\ rRead >= 4
      BY <1>18, <2>1
    <3>2. RPlace(rcv.state, Len(r2s), rRead + 1)
      BY <1>1, <1>4, <3>1, RPlaceData
    <3>3. QED BY <2>1, <2>2, <3>1, <3>2
  <2>4. RInStep'
    BY <1>1, <1>4, <1>18, <2>1, <2>2, <2>3 DEF RInStep
  <2>5. RAsked'
    BY <1>5, <1>6, <2>1, <2>2 DEF RAsked
  <2>6. QED BY <1>10, <2>1, <2>4, <2>5 DEF ReceiverKeeps
<1>20. CASE RPairedKeyEncryption
  <2>1. /\ RReadsSecure /\ RHead.body.type = "Bytes" /\ RHead.body.last
        /\ rcv.state = "SentConnectionResponse" /\ rPub' = rPub
        /\ r2s' = r2s \o SendEncryptedFrame(rcv.server_seq, PairedKeyResult)
        /\ rcv' = [rcv EXCEPT !.state = "SentPairedKeyResult",
                              !.client_seq = @ + 1, !.server_seq = @ + 2,
                              !.buf = NoFrame]
    BY <1>20 DEF RPairedKeyEncryption, RReadsSharing
  <2>2. Len(r2s) = 4 /\ rRead = 5 /\ rcv.server_seq = 2
    <3>1. Len(r2s) = 4 /\ rRead \in {4, 5}
      BY <1>4, <2>1 DEF RPlace
    <3>2. QED BY <1>4, <1>18, <2>1, <3>1
  <2>3. /\ r2s' \in Seq(Frame) /\ Len(r2s') = Len(r2s) + 2 /\ Grows(r2s, r2s')
        /\ r2s'[Len(r2s) + 1] = Secure(rcv.server_seq + 1, Bytes(PairedKeyResult, FALSE))
        /\ r2s'[Len(r2s) + 2] = Secure(rcv.server_seq + 2, Bytes(PairedKeyResult, TRUE))
    BY <1>11, <2>1, SharingFrameTypes
  <2>4. RFrame(r2s', Len(r2s) + 1) /\ RFrame(r2s', Len(r2s) + 2)
    BY <2>2, <2>3, SMT DEF RFrame
  <2>5. RLog'
    BY <1>1, <1>9, <1>18, <2>1, <2>3, <2>4
  <2>6. /\ rcv'.state = "SentPairedKeyResult" /\ rcv'.server_seq = 4
        /\ rcv'.client_seq = 2 /\ rRead' = 6 /\ Len(r2s') = 6
    BY <1>1, <1>4, <1>18, <2>1, <2>2, <2>3 DEF ReceiverState
  <2>7. RInStep'
    BY <1>18, <2>1, <2>6 DEF RInStep, RPlace
  <2>8. RAsked'
    BY <1>1, <1>5, <1>6, <2>1 DEF RAsked
  <2>9. QED BY <2>3, <2>5, <2>7, <2>8 DEF ReceiverKeeps
<1>21. CASE RPairedKeyResult
  <2>1. /\ RReadsSecure /\ RHead.body.type = "Bytes" /\ RHead.body.last
        /\ rcv.state = "SentPairedKeyResult" /\ rPub' = rPub /\ r2s' = r2s
        /\ rcv' = [rcv EXCEPT !.state = "ReceivedPairedKeyResult",
                              !.client_seq = @ + 1, !.buf = NoFrame]
    BY <1>21 DEF RPairedKeyResult, RReadsSharing
  <2>2. Len(r2s) = 6 /\ rRead = 7 /\ rcv.server_seq = 4
    <3>1. Len(r2s) = 6 /\ rRead \in {6, 7}
      BY <1>4, <2>1 DEF RPlace
    <3>2. QED BY <1>4, <1>18, <2>1, <3>1
  <2>3. /\ rcv'.state = "ReceivedPairedKeyResult" /\ rcv'.server_seq = 4
        /\ rcv'.client_seq = 4 /\ rRead' = 8 /\ Len(r2s') = 6
    BY <1>1, <1>4, <1>18, <2>1, <2>2 DEF ReceiverState
  <2>4. RInStep'
    BY <1>18, <2>1, <2>3 DEF RInStep, RPlace
  <2>5. RAsked'
    BY <1>1, <1>5, <1>6, <2>1 DEF RAsked
  <2>6. QED BY <1>10, <2>1, <2>4, <2>5 DEF ReceiverKeeps
<1>22. CASE RIntroduction
  <2>1. /\ RReadsSecure /\ RHead.body.type = "Bytes" /\ RHead.body.last
        /\ rcv.state = "ReceivedPairedKeyResult" /\ r2s' = r2s
        /\ rPub' = Append(rPub, "WaitingForUserConsent")
        /\ rcv' = [rcv EXCEPT !.state = "WaitingForUserConsent",
                              !.client_seq = @ + 1, !.buf = NoFrame,
                              !.files = rcv.buf.files]
    BY <1>22 DEF RIntroduction, RReadsSharing
  <2>2. Len(r2s) = 6 /\ rRead = 9 /\ rcv.server_seq = 4
    <3>1. Len(r2s) = 6 /\ rRead \in {8, 9}
      BY <1>4, <2>1 DEF RPlace
    <3>2. QED BY <1>4, <1>18, <2>1, <3>1
  <2>3. /\ rcv'.state = "WaitingForUserConsent" /\ rcv'.server_seq = 4
        /\ rcv'.client_seq = 6 /\ rRead' = 10 /\ Len(r2s') = 6
    BY <1>1, <1>4, <1>18, <2>1, <2>2 DEF ReceiverState
  <2>4. RInStep'
    BY <1>18, <2>1, <2>3 DEF RInStep, RPlace
  <2>5. RAsked'
    BY <1>1, <2>1, <2>3 DEF RAsked
  <2>6. QED BY <1>10, <2>1, <2>4, <2>5 DEF ReceiverKeeps
<1>23. CASE REmptyIntroduction
  <2>1. /\ RReadsSecure /\ RHead.body.type = "Bytes" /\ RHead.body.last
        /\ rcv.state = "ReceivedPairedKeyResult" /\ rPub' = rPub
        /\ r2s' = r2s \o SendEncryptedFrame(rcv.server_seq, Response("Unsupported"))
        /\ rcv' = [rcv EXCEPT !.state = "WaitingForUserConsent",
                              !.client_seq = @ + 1, !.server_seq = @ + 2,
                              !.buf = NoFrame]
    BY <1>23 DEF REmptyIntroduction, RReadsSharing
  <2>2. Len(r2s) = 6 /\ rRead = 9 /\ rcv.server_seq = 4
    <3>1. Len(r2s) = 6 /\ rRead \in {8, 9}
      BY <1>4, <2>1 DEF RPlace
    <3>2. QED BY <1>4, <1>18, <2>1, <3>1
  <2>3. RLog' /\ Len(r2s') = 8 /\ Grows(r2s, r2s')
    BY <1>12, <1>18, <2>1, <2>2
  <2>4. /\ rcv'.state = "WaitingForUserConsent" /\ rcv'.server_seq = 6
        /\ rcv'.client_seq = 6 /\ rRead' = 10
    BY <1>1, <1>4, <1>18, <2>1, <2>2 DEF ReceiverState
  <2>5. RInStep'
    BY <1>18, <2>1, <2>3, <2>4 DEF RInStep, RPlace
  <2>6. RAsked'
    BY <1>5, <1>6, <2>1, <2>4 DEF RAsked
  <2>7. QED BY <2>3, <2>5, <2>6 DEF ReceiverKeeps
<1>24. ASSUME rRead >= 10
       PROVE  /\ Len(r2s) >= 6 /\ Len(s2r) > 0 /\ rcv.server_seq = Len(r2s) - 2
              /\ rcv.state \in {"WaitingForUserConsent", "ReceivingFiles"}
  <2>1. rcv.state \in {"WaitingForUserConsent", "ReceivingFiles"} /\ Len(r2s) >= 6
    BY <1>1, <1>4, <1>24, RPlaceSecure
  <2>2. QED BY <1>1, <1>4, <1>24, <2>1
<1>25. ASSUME RReadsSecure, RHead.body.type \in {"Disconnection", "File"}
       PROVE  rRead >= 10 /\ ~Opens(s2r', rRead')
  BY <1>1, <1>18, <1>25
<1>26. ASSUME rRead >= 10, rRead' \in {rRead, rRead + 1}, Len(r2s') >= Len(r2s),
              rRead' = rRead + 1 => ~Opens(s2r', rRead'),
              rcv'.state \in {"WaitingForUserConsent", "ReceivingFiles"},
              rcv'.server_seq - rcv.server_seq = Len(r2s') - Len(r2s),
              rcv'.server_seq \in Nat, Len(r2s') \in Nat,
              rcv'.client_seq - rcv.client_seq = rRead' - rRead,
              rcv'.client_seq \in Nat,
              rcv'.buf = rcv.buf
       PROVE  RInStep'
  <2>1. Len(r2s) >= 6 /\ rcv.server_seq = Len(r2s) - 2 /\ rcv.client_seq = rRead - 4
    <3>1. rRead >= 4
      BY <1>1, <1>26
    <3>2. QED BY <1>4, <1>24, <1>26, <3>1
  <2>2. /\ Len(r2s') >= 6 /\ rRead' >= 10 /\ ~(Len(r2s') < 2) /\ ~(rRead' < 4)
        /\ rcv'.server_seq = Len(r2s') - 2 /\ rcv'.client_seq = rRead' - 4
    <3>1. /\ rRead' >= 10 /\ Len(r2s') >= 6 /\ rRead' \in Nat
      BY <1>1, <1>26, <2>1
    <3>2. rcv'.server_seq - (Len(r2s) - 2) = Len(r2s') - Len(r2s)
      BY <1>26, <2>1
    <3>3. rcv'.client_seq - (rRead - 4) = rRead' - rRead
      BY <1>26, <2>1
    <3>4. /\ rcv'.server_seq \in Nat /\ Len(r2s') \in Nat /\ rcv'.client_seq \in Nat
          /\ Len(r2s) \in Nat /\ rRead \in Nat
      BY <1>1, <1>26
    <3>5. rcv'.server_seq = Len(r2s') - 2
      BY ONLY <3>2, <3>4
    <3>6. rcv'.client_seq = rRead' - 4
      BY ONLY <3>1, <3>3, <3>4
    <3>7. ~(Len(r2s') < 2) /\ ~(rRead' < 4)
      BY ONLY <3>1, <3>4
    <3>8. QED BY <3>1, <3>5, <3>6, <3>7
  <2>3. RPlace(rcv'.state, Len(r2s'), rRead')
    BY <1>26, <2>2, Zenon DEF RPlace
  <2>4. rRead' > 0 /\ Opens(s2r', rRead') => rcv'.buf = s2r'[rRead'].body.frame
    BY <1>1, <1>4, <1>6, <1>26
  <2>5. QED BY <2>2, <2>3, <2>4 DEF RInStep
<1>27. CASE RDisconnection
  <2>1. /\ RReadsSecure /\ RHead.body.type = "Disconnection"
        /\ rcv' = [rcv EXCEPT !.client_seq = @ + 1]
        /\ r2s' = r2s /\ rUp' = rUp /\ rPub' = rPub
    BY <1>27 DEF RDisconnection, Disconnection
  <2>2. /\ rRead >= 10 /\ ~Opens(s2r', rRead') /\ rRead' = rRead + 1
        /\ rcv.state \in {"WaitingForUserConsent", "ReceivingFiles"}
    BY <1>18, <1>24, <1>25, <2>1
  <2>3. /\ rcv'.state = rcv.state /\ rcv'.server_seq = rcv.server_seq
        /\ rcv'.client_seq = rcv.client_seq + 1 /\ rcv'.buf = rcv.buf
    BY <1>1, <2>1 DEF ReceiverState
  <2>4. RInStep'
    BY <1>1, <1>2, <1>26, <2>1, <2>2, <2>3
  <2>5. RAsked'
    BY <1>5, <1>6, <2>1, <2>2, <2>3 DEF RAsked
  <2>6. QED BY <1>10, <2>1, <2>4, <2>5 DEF ReceiverKeeps
<1>28. CASE RFileChunk
  <2>1. /\ RReadsSecure /\ RHead.body.type = "File"
        /\ r2s' = r2s /\ rUp' = rUp
        /\ rPub' = rPub \/ rPub' = Append(rPub, rcv.state)
    BY <1>28 DEF RFileChunk
  <2>2. /\ rRead >= 10 /\ ~Opens(s2r', rRead') /\ rRead' = rRead + 1
        /\ rcv.state \in {"WaitingForUserConsent", "ReceivingFiles"}
    BY <1>18, <1>24, <1>25, <2>1
  <2>3. PICK noted \in Nat :
          rcv' = [rcv EXCEPT !.client_seq = @ + 1,
                             !.got[RHead.body.file] = @ + RHead.body.len,
                             !.ack = rcv.ack + RHead.body.len, !.noted = noted]
    BY <1>28, ChunkCounted
  <2>4. /\ rcv'.state = rcv.state /\ rcv'.server_seq = rcv.server_seq
        /\ rcv'.client_seq = rcv.client_seq + 1 /\ rcv'.buf = rcv.buf
    BY <1>1, <2>3 DEF ReceiverState
  <2>5. RInStep'
    BY <1>1, <1>2, <1>26, <2>1, <2>2, <2>4
  <2>6. rPub # <<>> => rPub' # <<>>
    BY <1>1, <2>1
  <2>7. RAsked'
    BY <1>5, <1>6, <2>2, <2>4, <2>6 DEF RAsked
  <2>8. QED BY <1>10, <2>1, <2>5, <2>7 DEF ReceiverKeeps
<1>29. CASE RFileLast
  <2>1. RReadsSecure /\ RHead.body.type = "File"
    BY <1>29 DEF RFileLast
  <2>2. /\ rRead >= 10 /\ ~Opens(s2r', rRead') /\ rRead' = rRead + 1
        /\ rcv.state \in {"WaitingForUserConsent", "ReceivingFiles"}
        /\ Len(r2s) >= 6 /\ Len(s2r) > 0
    BY <1>18, <1>24, <1>25, <2>1
  <2>3. CASE rcv.files \ {RHead.body.file} = {}
    <3>1. /\ rUp' = FALSE /\ rPub' = Append(rPub, "Finished")
          /\ r2s' = r2s \o EncryptAndSend(rcv.server_seq, Disconnection)
      BY <1>29, <2>3 DEF RFileLast
    <3>2. RLog' /\ Grows(r2s, r2s')
      BY <1>13, <2>2, <3>1
    <3>3. RInStep' /\ RAsked'
      BY <1>1, <1>5, <1>6, <3>1 DEF RInStep, RAsked
    <3>4. QED BY <3>2, <3>3 DEF ReceiverKeeps
  <2>4. CASE rcv.files \ {RHead.body.file} # {}
    <3>1. /\ rUp' = rUp /\ rPub' = rPub /\ r2s' = r2s
          /\ rcv' = [rcv EXCEPT !.client_seq = @ + 1,
                                !.files = rcv.files \ {RHead.body.file},
                                !.open = @ \ {RHead.body.file}]
      BY <1>29, <2>4 DEF RFileLast
    <3>2. /\ rcv'.state = rcv.state /\ rcv'.server_seq = rcv.server_seq
          /\ rcv'.client_seq = rcv.client_seq + 1 /\ rcv'.buf = rcv.buf
      BY <1>1, <3>1 DEF ReceiverState
    <3>3. RInStep'
      BY <1>1, <1>2, <1>26, <2>2, <3>1, <3>2
    <3>4. RAsked'
      BY <1>5, <1>6, <2>2, <3>1, <3>2 DEF RAsked
    <3>5. QED BY <1>10, <3>1, <3>3, <3>4 DEF ReceiverKeeps
  <2>5. QED BY <2>3, <2>4
<1>30. ASSUME NEW click, RTakes(click)
       PROVE  /\ rRead >= 10 /\ rRead' = rRead /\ Len(r2s) >= 6 /\ Len(s2r) > 0
              /\ rPub # <<>>
  <2>1. rClicks # <<>> /\ rRead' = rRead
    BY <1>30 DEF RTakes, TypeOK, ReceiverTypeOK
  <2>2. /\ rPub # <<>> /\ rcv.state \in {"WaitingForUserConsent", "ReceivingFiles"}
    BY <1>5, <2>1
  <2>3. rRead >= 10
    BY <1>1, <1>4, <2>2, RPlaceSecure
  <2>4. QED BY <1>24, <2>1, <2>2, <2>3
<1>31. CASE RAccept
  <2>1. /\ RTakes("Accept") /\ rUp' = rUp /\ rPub' = Append(rPub, "ReceivingFiles")
        /\ r2s' = r2s \o SendEncryptedFrame(rcv.server_seq, Response("Accept"))
        /\ rcv' = [rcv EXCEPT !.state = "ReceivingFiles", !.server_seq = @ + 2,
                              !.open = rcv.files]
    BY <1>31 DEF RAccept
  <2>2. rRead >= 10 /\ rRead' = rRead /\ Len(r2s) >= 6 /\ Len(s2r) > 0
    BY <1>30, <2>1
  <2>3. RLog' /\ Len(r2s') = Len(r2s) + 2 /\ Grows(r2s, r2s')
    BY <1>12, <2>1, <2>2
  <2>4. /\ rcv'.state = "ReceivingFiles" /\ rcv'.server_seq = rcv.server_seq + 2
        /\ rcv'.client_seq = rcv.client_seq /\ rcv'.buf = rcv.buf
    BY <1>1, <2>1 DEF ReceiverState
  <2>5. RInStep'
    BY <1>1, <1>2, <1>26, <2>2, <2>3, <2>4
  <2>6. rPub' # <<>>
    BY <1>1, <2>1
  <2>7. RAsked'
    BY <2>4, <2>6 DEF RAsked
  <2>8. QED BY <2>3, <2>5, <2>7 DEF ReceiverKeeps
<1>32. CASE RReject \/ RCancel
  <2>1. /\ rUp' = FALSE /\ \E click : RTakes(click)
        /\ \/ r2s' = r2s \o SendEncryptedFrame(rcv.server_seq, Response("Reject"))
           \/ r2s' = r2s \o EncryptAndSend(rcv.server_seq, Disconnection)
        /\ \/ \E x : rPub' = Append(rPub, x)
           \/ \E x, y : rPub' = rPub \o <<x, y>>
    BY <1>32 DEF RReject, RCancel
  <2>2. Len(r2s) >= 6 /\ Len(s2r) > 0
    BY <1>30, <2>1
  <2>3. RLog' /\ Grows(r2s, r2s')
    BY <1>12, <1>13, <2>1, <2>2
  <2>4. rPub' # <<>>
    <3>1. ASSUME NEW x, rPub' = Append(rPub, x) PROVE rPub' # <<>>
      BY <1>1, <3>1
    <3>2. ASSUME NEW x, NEW y, rPub' = rPub \o <<x, y>> PROVE rPub' # <<>>
      <4>1. Len(rPub \o <<x, y>>) = Len(rPub) + 2
        BY <1>1
      <4>2. Len(rPub') > 0
        BY <1>1, <3>2, <4>1
      <4>3. QED BY <4>2
    <3>3. QED BY <2>1, <3>1, <3>2
  <2>5. RInStep' /\ RAsked'
    BY <2>1, <2>4 DEF RInStep, RAsked
  <2>6. QED BY <2>3, <2>5 DEF ReceiverKeeps
<1>33. CASE RConnectionLost \/ RAcceptFails \/ RStoreFails \/ RBadFrame \/ RCrash
  <2>1. /\ rUp' = FALSE /\ r2s' = r2s
        /\ rPub' = rPub \/ rPub' = Append(rPub, "Disconnected")
    BY <1>33 DEF RConnectionLost, RAcceptFails, RStoreFails, RBadFrame, RCrash, RExitOnError
  <2>2. rPub # <<>> => rPub' # <<>>
    BY <1>1, <2>1
  <2>3. RInStep' /\ RAsked'
    BY <1>5, <1>6, <2>1, <2>2 DEF RInStep, RAsked
  <2>4. QED BY <1>10, <2>1, <2>3 DEF ReceiverKeeps
<1>34. QED
  BY <1>14, <1>15, <1>16, <1>17, <1>19, <1>20, <1>21, <1>22, <1>23, <1>27, <1>28,
     <1>29, <1>31, <1>32, <1>33
     DEF ReceiverNext, ReceiverStep, RHandleFrame, RHandleCommand

(* What the receiver has stays what it has read. *)
LEMMA ReceivingStep ==
    ASSUME TypeOK, SLog, RInStep, Receiving, ReceiverNext,
           UNCHANGED <<senderVars, uiVars>>
    PROVE  Receiving'
<1>1. /\ s2r \in Seq(Frame) /\ rRead \in 0..Len(s2r) /\ rRead \in Nat
      /\ Len(s2r) \in Nat /\ Len(r2s) \in Nat
      /\ rcv \in ReceiverState /\ rcv.got \in [Files -> Nat] /\ rcv.files \in SUBSET Files
      /\ rcv.buf \in Payload
  BY WireTypes, TaskTypes
<1>2. rUp
  BY ReceiverRuns
<1>3. /\ RPlace(rcv.state, Len(r2s), rRead)
      /\ rcv.state # "Finished"
      /\ rRead >= 10 => rcv.state \in {"WaitingForUserConsent", "ReceivingFiles"}
  BY <1>1, <1>2, RPlaceSecure DEF RInStep
<1>4. /\ \A f \in Files : (\A i \in 1..rRead : ~ChunkOf(s2r, i, f)) => rcv.got[f] = 0
      /\ \A f \in Files : rRead > 0 /\ ChunkOf(s2r, rRead, f) =>
              rcv.got[f] = s2r[rRead].body.off + s2r[rRead].body.len
      /\ rRead >= 10 =>
           \A f \in Announced(s2r) \ rcv.files : \E i \in 1..rRead : LastOfFile(s2r, i, f)
  BY <1>2 DEF Receiving
<1>5. s2r' = s2r
  BY DEF senderVars
<1>6. CASE ~rUp' /\ rcv'.state # "Finished"
  BY <1>6 DEF Receiving
<1>7. CASE RConnectionLost \/ RAcceptFails \/ RStoreFails \/ RBadFrame \/ RCrash
  <2>1. ~rUp' /\ rcv' = rcv
    BY <1>7 DEF RConnectionLost, RAcceptFails, RStoreFails, RBadFrame, RCrash, RExitOnError
  <2>2. QED BY <1>3, <1>6, <2>1
<1>8. CASE RReject \/ RCancel
  <2>1. ~rUp' /\ rcv'.state # "Finished"
    BY <1>1, <1>8 DEF RReject, RCancel, ReceiverState
  <2>2. QED BY <1>6, <2>1
<1>9. CASE RAccept
  <2>1. /\ rRead' = rRead /\ rcv'.got = rcv.got /\ rcv'.files = rcv.files
        /\ rcv'.state = "ReceivingFiles"
    BY <1>1, <1>9 DEF RAccept, RTakes, ReceiverState
  <2>2. QED BY <1>4, <1>5, <2>1 DEF Receiving
<1>10. RReads => rRead' = rRead + 1 /\ rRead + 1 \in 1..Len(s2r) /\ RHead = s2r[rRead + 1]
  BY SLog, RHeadCases DEF RHead
<1>11. \A i \in 1..(rRead + 1) : i \in 1..rRead \/ i = rRead + 1
  BY <1>1
<1>12. 1..rRead \subseteq 1..(rRead + 1)
  BY <1>1
<1>13. ASSUME RReads, rRead # 9, ~IsChunk(s2r, rRead + 1), rcv'.got = rcv.got,
              rcv'.files = rcv.files, rcv'.state # "Finished"
       PROVE  Receiving'
  <2>1. /\ rRead' = rRead + 1
        /\ rRead' >= 10 => rRead >= 10
        /\ ~IsChunk(s2r, rRead')
    BY <1>1, <1>10, <1>13
  <2>2. \A f \in Files : (\A i \in 1..rRead' : ~ChunkOf(s2r, i, f)) => rcv.got[f] = 0
    BY <1>4, <1>12, <2>1
  <2>3. \A f : ~ChunkOf(s2r, rRead', f)
    BY <2>1 DEF ChunkOf
  <2>4. rRead' >= 10 =>
          \A f \in Announced(s2r) \ rcv.files : \E i \in 1..rRead' : LastOfFile(s2r, i, f)
    BY <1>4, <1>12, <2>1
  <2>5. QED BY <1>5, <1>13, <2>2, <2>3, <2>4 DEF Receiving
<1>14. CASE \/ RConnectionRequest \/ RClientInit \/ RClientFinish \/ RConnectionResponse
            \/ RPairedKeyEncryption \/ RPairedKeyResult
  <2>1. /\ RReads /\ rcv'.got = rcv.got /\ rcv'.files = rcv.files
        /\ rcv'.state # "Finished"
        /\ rcv.state \in {"Initial", "ReceivedConnectionRequest", "SentUkeyServerInit",
                          "ReceivedUkeyClientFinish", "SentConnectionResponse",
                          "SentPairedKeyResult"}
    BY <1>1, <1>14
       DEF RConnectionRequest, RClientInit, RClientFinish, RConnectionResponse,
           RPairedKeyEncryption, RPairedKeyResult, RReadsSharing, RReadsSecure,
           ReceiverState
  <2>2. rRead < 9
    BY <1>1, <1>3, <2>1 DEF RPlace
  <2>3. ~IsChunk(s2r, rRead + 1)
    <3>1. rRead < 4 => RHead.kind # "SecureMessage"
      BY <2>1, RHeadCases
    <3>2. rRead >= 4 => RHead.body.type = "Bytes"
      BY <1>1, <2>1, <2>2, RHeadCases
    <3>3. QED BY <1>1, <1>10, <2>1, <3>1, <3>2 DEF IsChunk
  <2>4. QED BY <1>1, <1>13, <2>1, <2>2, <2>3
<1>15. CASE RBytesData \/ RDisconnection
  <2>1. /\ RReads /\ rcv'.got = rcv.got /\ rcv'.files = rcv.files
        /\ rcv'.state = rcv.state
        /\ RHead.body.type # "File"
        /\ RHead.body.type = "Disconnection" \/ ~RHead.body.last
    <3>1. CASE RBytesData
      BY <1>1, <3>1 DEF RBytesData, RReadsSecure, ReceiverState
    <3>2. CASE RDisconnection
      <4>1. RHead.body.type = "Disconnection"
        BY <3>2 DEF RDisconnection, Disconnection
      <4>2. QED BY <1>1, <3>2, <4>1 DEF RDisconnection, RReadsSecure, ReceiverState
    <3>3. QED BY <1>15, <3>1, <3>2
  <2>2. rRead # 9
    BY <2>1, RHeadCases
  <2>3. ~IsChunk(s2r, rRead + 1)
    BY <1>10, <2>1 DEF IsChunk
  <2>4. QED BY <1>3, <1>13, <2>1, <2>2, <2>3
<1>16. ASSUME RReadsSharing, rcv.state = "ReceivedPairedKeyResult"
       PROVE  /\ RReads /\ rRead = 9 /\ rRead' = 10 /\ ~IsChunk(s2r, 10)
              /\ Announced(s2r) = rcv.buf.files
  <2>1. /\ RReads /\ RHead.body.type = "Bytes" /\ RHead.body.last
        /\ rcv.buf = RHead.body.frame
    BY <1>16 DEF RReadsSharing, RReadsSecure
  <2>2. rRead = 9
    <3>1. rRead \in {8, 9}
      BY <1>3, <1>16 DEF RPlace
    <3>2. rRead # 8
      BY <2>1, RHeadCases
    <3>3. QED BY <3>1, <3>2
  <2>3. RHead = s2r[10] /\ rRead' = 10
    BY <1>10, <2>1, <2>2
  <2>4. QED BY <2>1, <2>2, <2>3 DEF IsChunk, Announced
<1>17. ASSUME RReadsSharing, rcv.state = "ReceivedPairedKeyResult",
              rcv'.got = rcv.got, rcv'.state # "Finished",
              Announced(s2r) \subseteq rcv'.files
       PROVE  Receiving'
  <2>1. rRead' = 10 /\ rRead = 9 /\ ~IsChunk(s2r, 10)
    BY <1>16, <1>17
  <2>2. \A f \in Files : (\A i \in 1..10 : ~ChunkOf(s2r, i, f)) => rcv.got[f] = 0
    BY <1>4, <1>12, <2>1
  <2>3. \A f : ~ChunkOf(s2r, 10, f)
    BY <2>1 DEF ChunkOf
  <2>4. QED BY <1>5, <1>17, <2>1, <2>2, <2>3 DEF Receiving
<1>18. CASE RIntroduction
  <2>1. /\ RReadsSharing /\ rcv.state = "ReceivedPairedKeyResult"
        /\ rcv'.got = rcv.got /\ rcv'.state = "WaitingForUserConsent"
        /\ rcv'.files = rcv.buf.files
    BY <1>1, <1>18 DEF RIntroduction, ReceiverState
  <2>2. QED BY <1>16, <1>17, <2>1
<1>19. CASE REmptyIntroduction
  <2>1. /\ RReadsSharing /\ rcv.state = "ReceivedPairedKeyResult"
        /\ rcv'.got = rcv.got /\ rcv'.state = "WaitingForUserConsent"
        /\ rcv.buf = Introduction({})
    BY <1>1, <1>19 DEF REmptyIntroduction, ReceiverState
  <2>2. rcv.buf.files = {}
    BY <2>1 DEF Introduction
  <2>3. QED BY <1>16, <1>17, <2>1, <2>2
<1>20. ASSUME RReadsSecure, RHead.body.type = "File", ChunkFits(RHead.body)
       PROVE  /\ RReads /\ rRead' = rRead + 1 /\ rRead >= 10
              /\ IsChunk(s2r, rRead + 1) /\ RHead = s2r[rRead + 1]
              /\ RHead.body.file \in Files /\ RHead.body.off = rcv.got[RHead.body.file]
              /\ RHead.body.len \in Nat
              /\ \A f : ChunkOf(s2r, rRead + 1, f) <=> f = RHead.body.file
  <2>1. RReads /\ RHead.kind = "SecureMessage"
    BY <1>20 DEF RReadsSecure, InSequence
  <2>2. /\ RHead \in Frame /\ RHead = s2r[rRead + 1] /\ rRead' = rRead + 1
    BY <1>10, <2>1, RHeadCases
  <2>3. rRead >= 10
    <3>1. /\ rRead < 4 => RHead.kind # "SecureMessage"
          /\ rRead \in {4, 6, 8} => RHead.body.type = "Bytes"
          /\ rRead \in {5, 7, 9} => RHead.body.type = "Bytes"
      BY <2>1, RHeadCases
    <3>2. QED BY <1>1, <1>20, <2>1, <3>1
  <2>4. /\ RHead.body.file \in Files /\ RHead.body.len \in Nat
    BY <1>20, <2>1, <2>2, FrameCases
  <2>5. RHead.body.off = rcv.got[RHead.body.file]
    BY <1>20 DEF ChunkFits
  <2>6. QED BY <1>20, <2>1, <2>2, <2>3, <2>4, <2>5 DEF IsChunk, ChunkOf
<1>21. CASE RFileChunk
  <2>1. RReadsSecure /\ RHead.body.type = "File" /\ ChunkFits(RHead.body)
    BY <1>21 DEF RFileChunk
  <2>2. PICK noted \in Nat :
          rcv' = [rcv EXCEPT !.client_seq = @ + 1,
                             !.got[RHead.body.file] = @ + RHead.body.len,
                             !.ack = rcv.ack + RHead.body.len, !.noted = noted]
    BY <1>21, ChunkCounted
  <2>3. PICK c \in Files : c = RHead.body.file
    BY <1>20, <2>1
  <2>4. /\ rcv'.files = rcv.files /\ rcv'.state = rcv.state
        /\ rcv'.got[c] = rcv.got[c] + RHead.body.len
        /\ \A f \in Files \ {c} : rcv'.got[f] = rcv.got[f]
    BY <1>1, <2>2, <2>3 DEF ReceiverState
  <2>5. /\ rRead' = rRead + 1 /\ rRead >= 10
        /\ \A f : ChunkOf(s2r, rRead', f) <=> f = c
        /\ rcv'.got[c] = s2r[rRead'].body.off + s2r[rRead'].body.len
    BY <1>20, <2>1, <2>3, <2>4
  <2>6. \A f \in Files : (\A i \in 1..rRead' : ~ChunkOf(s2r, i, f)) => rcv'.got[f] = 0
    <3>1. rRead' \in 1..rRead'
      BY <1>1, <2>5
    <3>2. ASSUME NEW f \in Files, \A i \in 1..rRead' : ~ChunkOf(s2r, i, f)
          PROVE  rcv'.got[f] = 0
      <4>1. f # c
        BY <2>5, <3>1, <3>2
      <4>2. \A i \in 1..rRead : ~ChunkOf(s2r, i, f)
        BY <1>12, <2>5, <3>2
      <4>3. QED BY <1>4, <2>4, <4>1, <4>2
    <3>3. QED BY <3>2
  <2>7. \A f \in Announced(s2r) \ rcv.files : \E i \in 1..rRead' : LastOfFile(s2r, i, f)
    BY <1>4, <1>12, <2>5
  <2>8. QED BY <1>3, <1>5, <2>4, <2>5, <2>6, <2>7 DEF Receiving
<1>22. CASE RFileLast
  <2>1. /\ RReadsSecure /\ RHead.body.type = "File" /\ ChunkFits(RHead.body)
        /\ RHead.body.len = 0 /\ RHead.body.last
    BY <1>22 DEF RFileLast
  <2>2. PICK c \in Files : c = RHead.body.file
    BY <1>20, <2>1
  <2>3. /\ rcv'.files = rcv.files \ {c} /\ rcv'.got = rcv.got
        /\ rcv'.state = "Finished" => rcv.files \ {c} = {}
    <3>1. CASE rcv.files \ {RHead.body.file} = {}
      <4>1. rcv' = [rcv EXCEPT !.client_seq = @ + 1,
                               !.files = rcv.files \ {RHead.body.file},
                               !.open = @ \ {RHead.body.file}, !.state = "Finished",
                               !.server_seq = @ + 1]
        BY <1>22, <3>1 DEF RFileLast
      <4>2. QED BY <1>1, <2>2, <3>1, <4>1 DEF ReceiverState
    <3>2. CASE rcv.files \ {RHead.body.file} # {}
      <4>1. rcv' = [rcv EXCEPT !.client_seq = @ + 1,
                               !.files = rcv.files \ {RHead.body.file},
                               !.open = @ \ {RHead.body.file}]
        BY <1>22, <3>2 DEF RFileLast
      <4>2. QED BY <1>1, <1>3, <2>2, <4>1 DEF ReceiverState
    <3>3. QED BY <3>1, <3>2
  <2>4. /\ rRead' = rRead + 1 /\ rRead >= 10
        /\ \A f : ChunkOf(s2r, rRead', f) <=> f = c
        /\ rcv'.got[c] = s2r[rRead'].body.off + s2r[rRead'].body.len
        /\ IsChunk(s2r, rRead') /\ LastOfFile(s2r, rRead', c)
    <3>1. rcv'.got[c] + 0 = rcv'.got[c]
      BY <1>1, <2>3
    <3>2. QED BY <1>20, <2>1, <2>2, <2>3, <3>1 DEF LastOfFile
  <2>5. rRead' \in 1..rRead' /\ rRead' > 10 /\ 1..rRead \subseteq 1..rRead'
    BY <1>1, <2>4
  <2>6. \A f \in Files : (\A i \in 1..rRead' : ~ChunkOf(s2r, i, f)) => rcv'.got[f] = 0
    BY <1>4, <2>3, <2>5
  <2>7. \A f \in Announced(s2r) \ rcv'.files : \E i \in 1..rRead' : LastOfFile(s2r, i, f)
    <3>1. \A f \in Announced(s2r) \ rcv.files : \E i \in 1..rRead' : LastOfFile(s2r, i, f)
      BY <1>4, <2>4, <2>5
    <3>2. QED BY <2>3, <2>4, <2>5, <3>1
  <2>8. QED BY <1>5, <2>3, <2>4, <2>5, <2>6, <2>7 DEF Receiving
<1>23. QED
  BY <1>7, <1>8, <1>9, <1>14, <1>15, <1>18, <1>19, <1>21, <1>22
     DEF ReceiverNext, ReceiverStep, RHandleFrame, RHandleCommand

-----------------------------------------------------------------------------
(* What an end knows survives the steps of the other one, whose log only    *)
(* grows, and those of the front ends and users.                            *)

(* What the receiver knows stays true while the sender writes on. *)
LEMMA ReceiverUndisturbed ==
    ASSUME TypeOK, RLog, RInStep, RAsked, Receiving,
           Grows(s2r, s2r'), UNCHANGED <<receiverVars, uiVars>>
    PROVE  RLog' /\ RInStep' /\ RAsked' /\ Receiving'
<1>1. /\ Len(s2r) \in Nat /\ rRead \in 0..Len(s2r)
  BY DEF TypeOK, WireTypeOK
<1>2. /\ r2s' = r2s /\ rRead' = rRead /\ rUp' = rUp /\ rcv' = rcv /\ rPub' = rPub
      /\ rClicks' = rClicks
  BY DEF receiverVars, uiVars
<1>3. /\ Len(s2r') >= Len(s2r)
      /\ \A i \in 1..rRead : i \in 1..Len(s2r) /\ s2r'[i] = s2r[i]
  BY <1>1 DEF Grows
<1>4. RLog'
  <2>1. (Len(s2r') = 0 => Len(s2r) = 0)
    BY <1>1, <1>3 DEF Grows
  <2>2. QED BY <1>2, <2>1 DEF RLog
<1>5. RInStep'
  <2>1. rRead > 0 => s2r'[rRead] = s2r[rRead]
    BY <1>1, <1>3
  <2>2. rRead > 0 /\ Opens(s2r', rRead) => Opens(s2r, rRead) /\ s2r'[rRead] = s2r[rRead]
    BY <2>1 DEF Opens
  <2>3. QED BY <1>2, <2>2 DEF RInStep
<1>6. RAsked'
  BY <1>2 DEF RAsked, Published
<1>7. Receiving'
  <2>1. \A i \in 1..rRead : \A f : /\ ChunkOf(s2r', i, f) <=> ChunkOf(s2r, i, f)
                                   /\ LastOfFile(s2r', i, f) <=> LastOfFile(s2r, i, f)
                                   /\ IsChunk(s2r', i) <=> IsChunk(s2r, i)
    BY <1>3 DEF ChunkOf, LastOfFile, IsChunk
  <2>2. rRead >= 10 => Announced(s2r') = Announced(s2r)
    BY <1>1, <1>3 DEF Announced
  <2>3. rRead > 0 => rRead \in 1..rRead /\ s2r'[rRead] = s2r[rRead]
    BY <1>1, <1>3
  <2> SUFFICES ASSUME rUp \/ rcv.state = "Finished"
               PROVE  /\ \A f \in Files : (\A i \in 1..rRead : ~ChunkOf(s2r', i, f)) => rcv.got[f] = 0
                      /\ \A f \in Files : rRead > 0 /\ ChunkOf(s2r', rRead, f) =>
                           rcv.got[f] = s2r'[rRead].body.off + s2r'[rRead].body.len
                      /\ rRead >= 10 => \A f \in Announced(s2r') \ rcv.files :
                                          \E i \in 1..rRead : LastOfFile(s2r', i, f)
                      /\ rcv.state = "Finished" =>
                           rcv.files = {} /\ rRead > 10 /\ IsChunk(s2r', rRead)
    BY <1>2, Zenon DEF Receiving
  <2>4. /\ \A f \in Files : (\A i \in 1..rRead : ~ChunkOf(s2r, i, f)) => rcv.got[f] = 0
        /\ \A f \in Files : rRead > 0 /\ ChunkOf(s2r, rRead, f) =>
             rcv.got[f] = s2r[rRead].body.off + s2r[rRead].body.len
        /\ rRead >= 10 => \A f \in Announced(s2r) \ rcv.files :
                            \E i \in 1..rRead : LastOfFile(s2r, i, f)
        /\ rcv.state = "Finished" =>
             rcv.files = {} /\ rRead > 10 /\ IsChunk(s2r, rRead)
    BY DEF Receiving
  <2>5. \A f \in Files : (\A i \in 1..rRead : ~ChunkOf(s2r', i, f)) => rcv.got[f] = 0
    BY <2>1, <2>4
  <2>6. \A f \in Files : rRead > 0 /\ ChunkOf(s2r', rRead, f) =>
             rcv.got[f] = s2r'[rRead].body.off + s2r'[rRead].body.len
    BY <2>1, <2>3, <2>4
  <2>7. rRead >= 10 => \A f \in Announced(s2r') \ rcv.files :
                         \E i \in 1..rRead : LastOfFile(s2r', i, f)
    BY <2>1, <2>2, <2>4
  <2>8. rcv.state = "Finished" => rcv.files = {} /\ rRead > 10 /\ IsChunk(s2r', rRead)
    BY <1>1, <2>1, <2>3, <2>4
  <2>9. QED BY <2>5, <2>6, <2>7, <2>8
<1>8. QED BY <1>4, <1>5, <1>6, <1>7

(* What the sender knows stays true while the receiver writes on. *)
LEMMA SenderUndisturbed ==
    ASSUME TypeOK, SLog, SInStep, SAsked, Sending, Within, Lost,
           Grows(r2s, r2s'), UNCHANGED <<senderVars, uiVars>>
    PROVE  SLog' /\ SInStep' /\ SAsked' /\ Sending' /\ Within' /\ Lost'
<1>1. /\ Len(r2s) \in Nat /\ sRead \in 0..Len(r2s)
  BY DEF TypeOK, WireTypeOK
<1>2. /\ s2r' = s2r /\ sRead' = sRead /\ sUp' = sUp /\ snd' = snd /\ sPub' = sPub
      /\ sClicks' = sClicks /\ faults' = faults
  BY DEF senderVars, uiVars
<1>3. SLog'
  BY <1>2 DEF SLog
<1>4. SInStep'
  <2>1. sRead > 0 => r2s'[sRead] = r2s[sRead]
    BY <1>1 DEF Grows
  <2>2. sRead > 0 /\ Opens(r2s', sRead) => Opens(r2s, sRead) /\ r2s'[sRead] = r2s[sRead]
    BY <2>1 DEF Opens
  <2>3. QED BY <1>2, <2>2 DEF SInStep
<1>5. SAsked'
  BY <1>2 DEF SAsked, Published
<1>6. Sending'
  BY <1>2 DEF Sending
<1>7. Within' /\ Lost'
  BY <1>2 DEF Within, Lost, Published
<1>8. QED BY <1>3, <1>4, <1>5, <1>6, <1>7

(* What a front end shows was published. *)
LEMMA ShownIsPublished ==
    ASSUME NEW pub \in Seq(State), NEW seen \in 0..Len(pub), NEW x,
           Shown(pub, seen) = x, x # "Initial"
    PROVE  Published(pub, x) /\ pub # <<>>
<1>1. seen \in 1..Len(pub) /\ pub[seen] = x
  BY DEF Shown
<1>2. QED BY <1>1 DEF Published

(* A front end offers a click only after the task asked for it. *)
LEMMA ClicksAreAsked ==
    ASSUME TypeOK, SAsked, RAsked, FrontEnd \/ User
    PROVE  SAsked' /\ RAsked'
<1>1. /\ sPub \in Seq(State) /\ rPub \in Seq(State)
      /\ sSeen \in 0..Len(sPub) /\ rSeen \in 0..Len(rPub)
  BY DEF TypeOK, SenderTypeOK, ReceiverTypeOK
<1>2. /\ sPub' = sPub /\ sUp' = sUp /\ snd' = snd
      /\ rPub' = rPub /\ rUp' = rUp /\ rcv' = rcv
  BY DEF FrontEnd, User, SShow, RShow, UserAnswers, SUserCancels, RUserCancels,
         senderVars, receiverVars
<1>3. sClicks' = sClicks \/ Published(sPub, "SendingFiles")
  <2>1. CASE SUserCancels
    <3>1. Shown(sPub, sSeen) = "SendingFiles"
      BY <2>1 DEF SUserCancels, SView
    <3>2. QED BY <1>1, <3>1, ShownIsPublished
  <2>2. CASE ~SUserCancels
    BY <2>2 DEF FrontEnd, User, SShow, RShow, UserAnswers, RUserCancels
  <2>3. QED BY <2>1, <2>2
<1>4. rClicks' = rClicks \/ rPub # <<>>
  <2>1. CASE RUserCancels
    <3>1. Shown(rPub, rSeen) = "ReceivingFiles"
      BY <2>1 DEF RUserCancels, RView
    <3>2. QED BY <1>1, <3>1, ShownIsPublished
  <2>2. CASE \E answer \in Answer : UserAnswers(answer)
    <3>1. Shown(rPub, rSeen) = "WaitingForUserConsent"
      BY <2>2 DEF UserAnswers, RView
    <3>2. QED BY <1>1, <3>1, ShownIsPublished
  <2>3. CASE FrontEnd \/ SUserCancels
    BY <2>3 DEF FrontEnd, SShow, RShow, SUserCancels
  <2>4. QED BY <2>1, <2>2, <2>3 DEF User
<1>5. SAsked'
  BY <1>2, <1>3 DEF SAsked, Published
<1>6. RAsked'
  BY <1>2, <1>4 DEF RAsked
<1>7. QED BY <1>5, <1>6

(* Taking note of a click does not change what was taken before it. *)
LEMMA TakenStays ==
    ASSUME TypeOK, rTaken' = rTaken,
           \/ rClicks' = rClicks
           \/ \E x \in Answer \cup {"Cancel"} : rClicks' = Append(rClicks, x)
    PROVE  AcceptTaken' <=> AcceptTaken
<1>1. rClicks \in Seq(Answer \cup {"Cancel"}) /\ rTaken \in 0..Len(rClicks)
  BY DEF TypeOK, ReceiverTypeOK
<1>2. \A i \in 1..rTaken : rClicks'[i] = rClicks[i]
  <2>1. ASSUME NEW x \in Answer \cup {"Cancel"}, NEW i \in 1..rTaken
        PROVE  Append(rClicks, x)[i] = rClicks[i]
    BY <1>1
  <2>2. QED BY <2>1
<1>3. QED BY <1>2 DEF AcceptTaken

-----------------------------------------------------------------------------
(* What is within a file, what a lost connection leaves, which files are    *)
(* open.                                                                    *)

(* Until the answer is read, at most the setup has been written. *)
LEMMA SPlaceEarly ==
    ASSUME NEW state, NEW wrote \in Nat, NEW read, SPlace(state, wrote, read),
           state \notin {"SendingFiles", "Finished"}
    PROVE  wrote <= 10
<1>1. wrote \in {0, 2, 4, 6, 8, 10}
  BY Zenon DEF SPlace
<1>2. QED BY <1>1

(* Chunks come from the two sending steps of the loop only. *)
LEMMA NoChunkElsewhere ==
    ASSUME TypeOK, TypeOK', SLog, SInStep, SenderNext, SenderKeeps,
           \A f \in Files : /\ ~SSendLast(f)
                            /\ \A n \in 0..ReadBuffer : ~SReadAndSend(f, n)
    PROVE  /\ \A i \in 1..Len(s2r') : IsChunk(s2r', i) => i \in 1..Len(s2r)
           /\ \/ \E f \in Files : SNextFile(f)
              \/ snd'.cur = snd.cur /\ snd'.sent = snd.sent
<1>1. s2r \in Seq(Frame) /\ snd \in SenderState /\ Len(s2r) \in Nat
  BY DEF TypeOK, WireTypeOK, SenderTypeOK
<1>2. s2r' \in Seq(Frame)
  BY DEF TypeOK, WireTypeOK
<1>3. sUp
  BY SenderRuns
<1>4. CASE \/ SConnect \/ SServerInit \/ SConnectionResponse
           \/ SPairedKeyEncryption \/ SPairedKeyResult
  <2>1. /\ sUp' /\ snd'.cur = snd.cur /\ snd'.sent = snd.sent
        /\ snd'.state \in {"SentUkeyClientInit", "SentUkeyClientFinish",
                           "SentPairedKeyEncryption", "SentPairedKeyResult",
                           "SentIntroduction"}
    <3>1. CASE SConnect
      BY <1>1, <3>1 DEF SConnect, SenderState
    <3>2. CASE SServerInit
      BY <1>1, <1>3, <3>2 DEF SServerInit, SenderState
    <3>3. CASE SConnectionResponse
      BY <1>1, <1>3, <3>3 DEF SConnectionResponse, SenderState
    <3>4. CASE SPairedKeyEncryption
      BY <1>1, <1>3, <3>4 DEF SPairedKeyEncryption, SenderState
    <3>5. CASE SPairedKeyResult
      <4>1. PICK missing \in SUBSET Vanishing :
              snd' = [snd EXCEPT !.state = "SentIntroduction",
                                 !.client_seq = @ + 1, !.server_seq = @ + 2,
                                 !.buf = NoFrame, !.todo = Files \ missing]
        BY <3>5 DEF SPairedKeyResult
      <4>2. sUp'
        BY <1>3, <3>5 DEF SPairedKeyResult
      <4>3. QED BY <1>1, <4>1, <4>2 DEF SenderState
    <3>6. QED BY <1>4, <3>1, <3>2, <3>3, <3>4, <3>5
  <2>2. SPlace(snd'.state, Len(s2r'), sRead')
    BY <2>1 DEF SenderKeeps, SInStep
  <2>3. Len(s2r') <= 10
    <3>1. snd'.state \notin {"SendingFiles", "Finished"}
      BY <2>1
    <3>2. Len(s2r') \in Nat
      BY <1>2
    <3>3. QED BY <2>2, <3>1, <3>2, SPlaceEarly
  <2>4. ASSUME NEW i \in 1..Len(s2r') PROVE ~IsChunk(s2r', i)
    <3>1. PICK log \in Seq(Frame) : log = s2r'
      BY <1>2
    <3>2. i \in 1..Len(log) /\ SFrame(log, i) /\ i <= 10
      BY <2>3, <3>1 DEF SenderKeeps, SLog
    <3>3. /\ i <= 4 => log[i].kind # "SecureMessage"
          /\ i \in {5, 7, 9} => log[i].body.type = "Bytes"
          /\ i \in {6, 8, 10} => log[i].body.type = "Bytes"
      BY <3>1, <3>2, SFrameCases
    <3>4. i <= 4 \/ i \in {5, 7, 9} \/ i \in {6, 8, 10}
      BY <3>2
    <3>5. QED BY <3>1, <3>3, <3>4 DEF IsChunk
  <2>5. QED BY <2>1, <2>4
<1>5. CASE SFinish \/ SCancel \/ SConsentDenied
  <2>1. /\ s2r' = s2r \o EncryptAndSend(snd.server_seq, Disconnection)
        /\ snd'.cur = snd.cur /\ snd'.sent = snd.sent
    BY <1>1, <1>5 DEF SFinish, SCancel, SConsentDenied, SenderState
  <2>2. /\ Len(s2r') = Len(s2r) + 1
        /\ s2r'[Len(s2r) + 1].body = Disconnection
    BY <2>1, SentBody, FrameTypes
  <2>3. ~IsChunk(s2r', Len(s2r) + 1)
    BY <2>2 DEF IsChunk, Disconnection
  <2>4. \A i \in 1..Len(s2r') : i \in 1..Len(s2r) \/ i = Len(s2r) + 1
    BY <1>1, <2>2
  <2>5. QED BY <2>1, <2>3, <2>4
<1>6. CASE \E f \in Files : SNextFile(f)
  <2>1. s2r' = s2r
    BY <1>6 DEF SNextFile
  <2>2. QED BY <1>6, <2>1
<1>7. CASE SBytesData \/ SConsentGiven \/ SSharingIgnored \/ SDisconnection
  BY <1>1, <1>7 DEF SBytesData, SConsentGiven, SSharingIgnored, SDisconnection, SenderState
<1>8. CASE SConnectionLost \/ SSourceFails \/ SStop
  BY <1>8 DEF SConnectionLost, SSourceFails, SStop, SExitOnError
<1>9. QED
  BY <1>4, <1>5, <1>6, <1>7, <1>8 DEF SenderNext, SenderStep, SHandleFrame, SSendLoop

(* The send loop stops at the announced size unless the file grew. *)
LEMMA WithinStep ==
    ASSUME TypeOK, TypeOK', SLog, SInStep, Sending, Within, SenderNext, SenderKeeps,
           UNCHANGED uiVars
    PROVE  Within'
<1> SUFFICES ASSUME "Grown" \notin faults
             PROVE  /\ \A i \in 1..Len(s2r') : IsChunk(s2r', i) =>
                         s2r'[i].body.off + s2r'[i].body.len <= Size[s2r'[i].body.file]
                    /\ \A f \in snd'.cur : snd'.sent[f] <= Size[f]
  BY Zenon DEF Within, uiVars
<1>1. /\ s2r \in Seq(Frame) /\ Len(s2r) \in Nat /\ snd \in SenderState
      /\ snd.sent \in [Files -> Nat] /\ snd.cur \in SUBSET Files
      /\ snd.todo \in SUBSET Files
  <2>1. s2r \in Seq(Frame) /\ snd \in SenderState
    BY DEF TypeOK, WireTypeOK, SenderTypeOK
  <2>2. QED BY <2>1 DEF SenderState
<1>2. /\ \A i \in 1..Len(s2r) : IsChunk(s2r, i) =>
           s2r[i].body.off + s2r[i].body.len <= Size[s2r[i].body.file]
      /\ \A f \in snd.cur : snd.sent[f] <= Size[f]
  BY DEF Within
<1>3. \A i \in 1..Len(s2r) : s2r'[i] = s2r[i]
  BY DEF SenderKeeps, Grows
<1>4. \A i \in 1..Len(s2r) : IsChunk(s2r', i) =>
        s2r'[i].body.off + s2r'[i].body.len <= Size[s2r'[i].body.file]
  BY <1>2, <1>3 DEF IsChunk
<1>5. ASSUME NEW f \in Files, NEW n \in 0..ReadBuffer, SReadAndSend(f, n)
      PROVE  /\ \A i \in 1..Len(s2r') : IsChunk(s2r', i) =>
                  s2r'[i].body.off + s2r'[i].body.len <= Size[s2r'[i].body.file]
             /\ \A g \in snd'.cur : snd'.sent[g] <= Size[g]
  <2>1. /\ SSending /\ snd.cur = {f} /\ n <= Yield(f) - snd.sent[f]
        /\ s2r' = s2r \o EncryptAndSend(snd.server_seq, FileChunk(f, snd.sent[f], n, FALSE))
    BY <1>5 DEF SReadAndSend
  <2>2. PICK noted, ack : snd' = [snd EXCEPT !.server_seq = @ + 1, !.sent[f] = @ + n,
                                             !.ack = ack, !.noted = noted]
    BY <1>5 DEF SReadAndSend
  <2>3. snd.sent[f] \in Nat /\ n \in Nat /\ Size[f] \in Nat
    BY <1>1, ReadBufferAssumption, SizeAssumption
  <2>4. n <= Size[f] - snd.sent[f]
    BY <2>1 DEF Yield
  <2>5. FileChunk(f, snd.sent[f], n, FALSE) \in Body
    BY <2>3, FrameTypes
  <2>6. /\ Len(s2r') = Len(s2r) + 1
        /\ s2r'[Len(s2r) + 1].body = FileChunk(f, snd.sent[f], n, FALSE)
    BY <2>1, <2>5, SentBody
  <2>7. s2r'[Len(s2r) + 1].body.off + s2r'[Len(s2r) + 1].body.len
          <= Size[s2r'[Len(s2r) + 1].body.file]
    <3>1. snd.sent[f] + n <= Size[f]
      BY <2>3, <2>4
    <3>2. QED BY <2>6, <3>1 DEF FileChunk
  <2>8. snd'.cur = {f} /\ snd'.sent[f] = snd.sent[f] + n
    BY <1>1, <2>1, <2>2 DEF SenderState
  <2>9. snd'.sent[f] <= Size[f]
    BY <2>3, <2>4, <2>8
  <2>10. \A i \in 1..Len(s2r') : i \in 1..Len(s2r) \/ i = Len(s2r) + 1
    BY <1>1, <2>6
  <2>11. QED BY <1>4, <2>7, <2>8, <2>9, <2>10
<1>6. ASSUME NEW f \in Files, SSendLast(f)
      PROVE  /\ \A i \in 1..Len(s2r') : IsChunk(s2r', i) =>
                  s2r'[i].body.off + s2r'[i].body.len <= Size[s2r'[i].body.file]
             /\ \A g \in snd'.cur : snd'.sent[g] <= Size[g]
  <2>1. /\ s2r' = s2r \o EncryptAndSend(snd.server_seq, FileChunk(f, Size[f], 0, TRUE))
        /\ snd' = [snd EXCEPT !.server_seq = @ + 1, !.cur = {}]
    BY <1>6 DEF SSendLast
  <2>2. Size[f] \in Nat
    BY SizeAssumption
  <2>3. FileChunk(f, Size[f], 0, TRUE) \in Body
    BY <2>2, FrameTypes
  <2>4. /\ Len(s2r') = Len(s2r) + 1
        /\ s2r'[Len(s2r) + 1].body = FileChunk(f, Size[f], 0, TRUE)
    BY <2>1, <2>3, SentBody
  <2>5. s2r'[Len(s2r) + 1].body.off + s2r'[Len(s2r) + 1].body.len
          <= Size[s2r'[Len(s2r) + 1].body.file]
    <3>1. Size[f] + 0 <= Size[f]
      BY <2>2
    <3>2. QED BY <2>4, <3>1 DEF FileChunk
  <2>6. snd'.cur = {}
    BY <1>1, <2>1 DEF SenderState
  <2>7. \A i \in 1..Len(s2r') : i \in 1..Len(s2r) \/ i = Len(s2r) + 1
    BY <1>1, <2>4
  <2>8. QED BY <1>4, <2>5, <2>6, <2>7
<1>7. CASE \A f \in Files : /\ ~SSendLast(f)
                            /\ \A n \in 0..ReadBuffer : ~SReadAndSend(f, n)
  <2>1. /\ \A i \in 1..Len(s2r') : IsChunk(s2r', i) => i \in 1..Len(s2r)
        /\ \/ \E f \in Files : SNextFile(f)
           \/ snd'.cur = snd.cur /\ snd'.sent = snd.sent
    BY <1>7, NoChunkElsewhere
  <2>2. ASSUME NEW f \in Files, SNextFile(f) PROVE \A g \in snd'.cur : snd'.sent[g] <= Size[g]
    <3>1. /\ f \in snd.todo
          /\ snd' = [snd EXCEPT !.todo = @ \ {f},
                                !.cur = IF Size[f] = 0 THEN {} ELSE {f}]
      BY <2>2 DEF SNextFile
    <3>2. snd'.cur \subseteq {f} /\ snd'.sent = snd.sent
      BY <1>1, <3>1 DEF SenderState
    <3>3. snd.sent[f] = 0 /\ Size[f] \in Nat
      BY <3>1, SizeAssumption DEF Sending
    <3>4. QED BY <3>2, <3>3
  <2>3. \A g \in snd'.cur : snd'.sent[g] <= Size[g]
    BY <1>2, <2>1, <2>2
  <2>4. QED BY <1>4, <2>1, <2>3
<1>8. QED BY <1>5, <1>6, <1>7

(* A sender reports a lost connection before it sent a chunk or with a file *)
(* unfinished.                                                              *)
LEMMA LostStep ==
    ASSUME TypeOK, TypeOK', SLog, SInStep, Lost, SenderNext, SenderKeeps
    PROVE  Lost'
<1>1. /\ s2r \in Seq(Frame) /\ Len(s2r) \in Nat /\ snd \in SenderState
      /\ sPub \in Seq(State)
  BY DEF TypeOK, WireTypeOK, SenderTypeOK
<1>2. sUp /\ ~Published(sPub, "Disconnected")
  BY SenderRuns DEF Lost
<1>3. SPlace(snd.state, Len(s2r), sRead)
  BY <1>2 DEF SInStep
<1>4. Len(s2r) <= 10 => \A i \in 1..Len(s2r) : ~IsChunk(s2r, i)
  <2> SUFFICES ASSUME Len(s2r) <= 10, NEW i \in 1..Len(s2r) PROVE ~IsChunk(s2r, i)
    OBVIOUS
  <2>1. SFrame(s2r, i) /\ i <= 10
    BY <1>1 DEF SLog
  <2>2. /\ i <= 4 => s2r[i].kind # "SecureMessage"
        /\ i \in {5, 7, 9} => s2r[i].body.type = "Bytes"
        /\ i \in {6, 8, 10} => s2r[i].body.type = "Bytes"
    BY <1>1, <2>1, SFrameCases
  <2>3. i <= 4 \/ i \in {5, 7, 9} \/ i \in {6, 8, 10}
    BY <2>1
  <2>4. QED BY <2>2, <2>3 DEF IsChunk
<1>5. ASSUME \/ sPub' = sPub
             \/ \E x \in State \ {"Disconnected"} : sPub' = Append(sPub, x)
      PROVE  Lost'
  <2>1. \A i \in 1..Len(sPub') : sPub'[i] # "Disconnected"
    <3>1. \A i \in 1..Len(sPub) : sPub[i] # "Disconnected"
      BY <1>2 DEF Published
    <3>2. ASSUME NEW x \in State \ {"Disconnected"}, sPub' = Append(sPub, x)
          PROVE  \A i \in 1..Len(sPub') : sPub'[i] # "Disconnected"
      BY <1>1, <3>1, <3>2
    <3>3. QED BY <1>5, <3>1, <3>2
  <2>2. QED BY <2>1 DEF Lost, Published
<1>6. CASE SConnectionLost \/ SSourceFails
  <2>1. /\ SExitOnError
        /\ snd.cur # {} \/ snd.state # "SendingFiles"
    BY <1>6 DEF SConnectionLost, SSourceFails
  <2>2. /\ ~sUp' /\ s2r' = s2r /\ snd' = snd
        /\ snd.state = "Finished" => sPub' = sPub
    BY <2>1 DEF SExitOnError
  <2>3. CASE snd.state = "Finished"
    BY <1>5, <2>2, <2>3
  <2>4. CASE snd.cur # {}
    BY <2>2, <2>4 DEF Lost
  <2>5. CASE snd.state \notin {"SendingFiles", "Finished"}
    <3>1. Len(s2r) <= 10
      BY <1>1, <1>3, <2>5, SPlaceEarly
    <3>2. QED BY <1>4, <2>2, <3>1 DEF Lost
  <2>6. QED BY <2>1, <2>3, <2>4, <2>5
<1>7. CASE SConsentDenied
  <2>1. /\ ~sUp' /\ snd.state = "SentIntroduction"
        /\ s2r' = s2r \o EncryptAndSend(snd.server_seq, Disconnection)
    BY <1>7 DEF SConsentDenied
  <2>2. Len(s2r) = 10
    BY <1>3, <2>1 DEF SPlace
  <2>3. /\ Len(s2r') = Len(s2r) + 1
        /\ s2r'[Len(s2r) + 1].body = Disconnection
    BY <2>1, SentBody, FrameTypes
  <2>4. \A i \in 1..Len(s2r) : s2r'[i] = s2r[i]
    BY DEF SenderKeeps, Grows
  <2>5. \A i \in 1..Len(s2r') : ~IsChunk(s2r', i)
    <3>1. ~IsChunk(s2r', Len(s2r) + 1)
      BY <2>3 DEF IsChunk, Disconnection
    <3>2. \A i \in 1..Len(s2r) : ~IsChunk(s2r', i)
      BY <1>4, <2>2, <2>4 DEF IsChunk
    <3>3. \A i \in 1..Len(s2r') : i \in 1..Len(s2r) \/ i = Len(s2r) + 1
      BY <1>1, <2>3
    <3>4. QED BY <3>1, <3>2, <3>3
  <2>6. QED BY <2>1, <2>5 DEF Lost
<1>8. CASE \/ SConnect \/ SConnectionResponse \/ SBytesData \/ SPairedKeyEncryption
           \/ SSharingIgnored \/ SDisconnection \/ SStop
           \/ \E f \in Files : SNextFile(f) \/ SSendLast(f)
  <2>1. sPub' = sPub
    BY <1>8 DEF SConnect, SConnectionResponse, SBytesData, SPairedKeyEncryption,
                SSharingIgnored, SDisconnection, SStop, SNextFile, SSendLast
  <2>2. QED BY <1>5, <2>1
<1>9. CASE \/ SServerInit \/ SPairedKeyResult \/ SConsentGiven \/ SFinish \/ SCancel
           \/ \E f \in Files, n \in 0..ReadBuffer : SReadAndSend(f, n)
  <2>1. \/ sPub' = sPub
        \/ \E x \in {"SentUkeyClientInit", "SentIntroduction", "SendingFiles",
                     "Finished", "Cancelled"} : sPub' = Append(sPub, x)
    BY <1>9 DEF SServerInit, SPairedKeyResult, SConsentGiven, SFinish, SCancel, SReadAndSend
  <2>2. {"SentUkeyClientInit", "SentIntroduction", "SendingFiles", "Finished", "Cancelled"}
          \subseteq State \ {"Disconnected"}
    BY DEF State
  <2>3. QED BY <1>5, <2>1, <2>2
<1>10. QED
  BY <1>6, <1>7, <1>8, <1>9 DEF SenderNext, SenderStep, SHandleFrame, SSendLoop

(* Every file the receiver waits for is open once Accept was taken. *)
LEMMA OpenInvStep ==
    ASSUME TypeOK, RInStep, RAsked, OpenInv, ReceiverNext, UNCHANGED uiVars
    PROVE  OpenInv'
<1>1. /\ rcv \in ReceiverState /\ rTaken \in 0..Len(rClicks)
      /\ rClicks \in Seq(Answer \cup {"Cancel"})
  BY DEF TypeOK, ReceiverTypeOK
<1>2. rUp /\ rClicks' = rClicks
  BY ReceiverRuns DEF uiVars
<1>3. CASE ~rUp'
  BY <1>3 DEF OpenInv
<1>4. CASE \/ RReject \/ RCancel \/ RBadFrame \/ RConnectionLost \/ RAcceptFails
           \/ RStoreFails \/ RCrash
  <2>1. ~rUp'
    BY <1>4 DEF RReject, RCancel, RBadFrame, RConnectionLost, RAcceptFails, RStoreFails,
                RCrash, RExitOnError
  <2>2. QED BY <1>3, <2>1
<1>5. CASE RAccept
  <2>1. rcv'.open = rcv'.files
    BY <1>1, <1>5 DEF RAccept, ReceiverState
  <2>2. QED BY <2>1 DEF OpenInv
<1>6. RReads => (AcceptTaken' <=> AcceptTaken)
  BY <1>2 DEF RReads, AcceptTaken
<1>7. ASSUME RReads, AcceptTaken /\ rcv.open = rcv.files => rcv'.open = rcv'.files
      PROVE  OpenInv'
  BY <1>2, <1>6, <1>7 DEF OpenInv
<1>8. CASE \/ RConnectionRequest \/ RClientInit \/ RClientFinish \/ RConnectionResponse
           \/ RBytesData \/ RPairedKeyEncryption \/ RPairedKeyResult \/ REmptyIntroduction
           \/ RDisconnection
  <2>1. RReads /\ rcv'.open = rcv.open /\ rcv'.files = rcv.files
    BY <1>1, <1>8
       DEF RConnectionRequest, RClientInit, RClientFinish, RConnectionResponse, RBytesData,
           RPairedKeyEncryption, RPairedKeyResult, REmptyIntroduction, RDisconnection,
           RReadsSharing, RReadsSecure, ReceiverState
  <2>2. QED BY <1>7, <2>1
<1>9. CASE RFileChunk
  <2>1. RReads
    BY <1>9 DEF RFileChunk, RReadsSecure
  <2>2. rcv'.open = rcv.open /\ rcv'.files = rcv.files
    <3>1. PICK noted \in Nat :
            rcv' = [rcv EXCEPT !.client_seq = @ + 1,
                               !.got[RHead.body.file] = @ + RHead.body.len,
                               !.ack = rcv.ack + RHead.body.len, !.noted = noted]
      BY <1>9, ChunkCounted
    <3>2. QED BY <1>1, <3>1 DEF ReceiverState
  <2>3. QED BY <1>7, <2>1, <2>2
<1>10. CASE RFileLast
  <2>1. RReads
    BY <1>10 DEF RFileLast, RReadsSecure
  <2>2. /\ rcv'.files = rcv.files \ {RHead.body.file}
        /\ rcv'.open = rcv.open \ {RHead.body.file}
    BY <1>1, <1>10 DEF RFileLast, ReceiverState
  <2>3. QED BY <1>7, <2>1, <2>2
<1>11. CASE RIntroduction
  <2>1. RReads /\ rcv.state = "ReceivedPairedKeyResult"
    BY <1>11 DEF RIntroduction, RReadsSharing, RReadsSecure
  <2>2. rClicks = <<>>
    BY <1>2, <2>1 DEF RAsked
  <2>3. ~AcceptTaken
    BY <1>1, <2>2 DEF AcceptTaken
  <2>4. QED BY <1>7, <2>1, <2>3
<1>12. QED
  BY <1>4, <1>5, <1>8, <1>9, <1>10, <1>11
     DEF ReceiverNext, ReceiverStep, RHandleFrame, RHandleCommand

-----------------------------------------------------------------------------
(* The invariant, and what follows from it. *)

(* The inductive invariant. *)
AlignInv ==
    /\ SLog /\ RLog /\ SInStep /\ RInStep /\ SAsked /\ RAsked
    /\ Sending /\ Receiving /\ Within /\ Lost /\ OpenInv

(* It holds of two fresh ends. *)
LEMMA AlignInit ==
    ASSUME Init
    PROVE  AlignInv
<1>1. /\ s2r = <<>> /\ r2s = <<>> /\ sRead = 0 /\ rRead = 0 /\ sUp = TRUE /\ rUp = TRUE
      /\ sPub = <<>> /\ rPub = <<>> /\ sClicks = <<>> /\ rClicks = <<>> /\ rTaken = 0
      /\ Len(s2r) = 0 /\ Len(r2s) = 0
  BY DEF Init, WireInit, SenderInit, ReceiverInit
<1>2. /\ snd.state = "Initial" /\ snd.server_seq = 0 /\ snd.client_seq = 0
      /\ snd.todo = {} /\ snd.cur = {} /\ snd.sent = [f \in Files |-> 0]
  BY DEF Init, SenderInit
<1>3. /\ rcv.state = "Initial" /\ rcv.server_seq = 0 /\ rcv.client_seq = 0
      /\ rcv.files = {} /\ rcv.open = {} /\ rcv.got = [f \in Files |-> 0]
  BY DEF Init, ReceiverInit
<1>4. SLog /\ RLog
  BY <1>1 DEF SLog, RLog
<1>5. SInStep
  <2>1. SPlace("Initial", 0, 0)
    BY DEF SPlace
  <2>2. QED BY <1>1, <1>2, <2>1 DEF SInStep
<1>6. RInStep
  <2>1. RPlace("Initial", 0, 0)
    BY DEF RPlace
  <2>2. QED BY <1>1, <1>3, <2>1 DEF RInStep
<1>7. ~Published(sPub, "SendingFiles") /\ ~Published(sPub, "Disconnected")
  BY <1>1 DEF Published
<1>8. SAsked /\ RAsked
  BY <1>1, <1>7 DEF SAsked, RAsked
<1>9. Sending
  BY <1>1, <1>2 DEF Sending
<1>10. Receiving
  BY <1>1, <1>3 DEF Receiving
<1>11. Within /\ Lost
  BY <1>1, <1>2, <1>7 DEF Within, Lost
<1>12. OpenInv
  BY <1>3 DEF OpenInv
<1>13. QED BY <1>4, <1>5, <1>6, <1>8, <1>9, <1>10, <1>11, <1>12 DEF AlignInv

(* Every step keeps it. *)
LEMMA AlignStep ==
    ASSUME TypeOK, TypeOK', AlignInv, [Next]_vars
    PROVE  AlignInv'
<1> USE DEF AlignInv
<1>1. CASE Sender
  <2>1. SenderNext /\ UNCHANGED <<receiverVars, uiVars>>
    BY <1>1 DEF Sender
  <2>2. SenderKeeps
    BY <2>1, SenderKeepsStep
  <2>3. SLog' /\ SInStep' /\ SAsked' /\ Grows(s2r, s2r')
    BY <2>2 DEF SenderKeeps
  <2>4. Sending' /\ Within' /\ Lost'
    BY <2>1, <2>2, SendingStep, WithinStep, LostStep
  <2>5. RLog' /\ RInStep' /\ RAsked' /\ Receiving'
    BY <2>1, <2>3, ReceiverUndisturbed
  <2>6. OpenInv'
    BY <2>1 DEF OpenInv, AcceptTaken, receiverVars, uiVars
  <2>7. QED BY <2>3, <2>4, <2>5, <2>6
<1>2. CASE Receiver
  <2>1. ReceiverNext /\ UNCHANGED <<senderVars, uiVars>>
    BY <1>2 DEF Receiver
  <2>2. RLog' /\ RInStep' /\ RAsked' /\ Grows(r2s, r2s')
    BY <2>1, ReceiverKeepsStep DEF ReceiverKeeps
  <2>3. Receiving' /\ OpenInv'
    BY <2>1, ReceivingStep, OpenInvStep
  <2>4. SLog' /\ SInStep' /\ SAsked' /\ Sending' /\ Within' /\ Lost'
    BY <2>1, <2>2, SenderUndisturbed
  <2>5. QED BY <2>2, <2>3, <2>4
<1>3. CASE FrontEnd \/ User
  <2>1. SAsked' /\ RAsked'
    BY <1>3, ClicksAreAsked
  <2>2. /\ UNCHANGED <<senderVars, receiverVars>> /\ faults' = faults
        /\ rClicks' = rClicks
             \/ \E x \in Answer \cup {"Cancel"} : rClicks' = Append(rClicks, x)
    BY <1>3 DEF FrontEnd, User, SShow, RShow, UserAnswers, SUserCancels, RUserCancels
  <2>3. /\ s2r' = s2r /\ r2s' = r2s /\ sRead' = sRead /\ rRead' = rRead
        /\ sUp' = sUp /\ rUp' = rUp /\ snd' = snd /\ rcv' = rcv
        /\ sPub' = sPub /\ rPub' = rPub /\ rTaken' = rTaken
    BY <2>2 DEF senderVars, receiverVars
  <2>4. SLog' /\ RLog'
    BY <2>3 DEF SLog, RLog
  <2>5. SInStep' /\ RInStep'
    BY <2>3 DEF SInStep, RInStep
  <2>6. Sending'
    BY <2>3 DEF Sending
  <2>7. Receiving'
    BY <2>3 DEF Receiving
  <2>8. Within' /\ Lost'
    BY <2>2, <2>3 DEF Within, Lost, Published
  <2>9. OpenInv'
    <3>1. AcceptTaken' <=> AcceptTaken
      BY <2>2, <2>3, TakenStays
    <3>2. QED BY <2>3, <3>1 DEF OpenInv
  <2>10. QED BY <2>1, <2>4, <2>5, <2>6, <2>7, <2>8, <2>9
<1>4. CASE Done \/ UNCHANGED vars
  <2>1. /\ s2r' = s2r /\ r2s' = r2s /\ sRead' = sRead /\ rRead' = rRead
        /\ sUp' = sUp /\ rUp' = rUp /\ snd' = snd /\ rcv' = rcv
        /\ sPub' = sPub /\ rPub' = rPub /\ rTaken' = rTaken
        /\ sClicks' = sClicks /\ rClicks' = rClicks /\ faults' = faults
    BY <1>4 DEF Done, vars, senderVars, receiverVars, uiVars
  <2>2. SLog' /\ RLog' /\ SInStep' /\ RInStep'
    BY <2>1 DEF SLog, RLog, SInStep, RInStep
  <2>3. SAsked' /\ RAsked' /\ Within' /\ Lost' /\ OpenInv'
    BY <2>1 DEF SAsked, RAsked, Within, Lost, OpenInv, Published, AcceptTaken
  <2>4. Sending' /\ Receiving'
    BY <2>1 DEF Sending, Receiving
  <2>5. QED BY <2>2, <2>3, <2>4
<1>5. QED BY <1>1, <1>2, <1>3, <1>4 DEF Next

(* What the log says of a chunk the receiver is about to read. *)
LEMMA ChunkAhead ==
    ASSUME TypeOK, SLog, rRead < Len(s2r),
           RHead.kind = "SecureMessage", RHead.body.type = "File",
           NEW c, c = RHead.body
    PROVE  /\ c.file \in Files /\ c.off \in Nat /\ c.len \in Nat
           /\ rRead >= 10 /\ rRead + 1 \in 1..Len(s2r) /\ RHead = s2r[rRead + 1]
           /\ c.file \in Announced(s2r)
           /\ c.last => c.len = 0 /\ c.off = Size[c.file]
           /\ c.off = 0 => \A j \in 1..rRead : ~ChunkOf(s2r, j, c.file)
           /\ c.off > 0 => /\ ChunkOf(s2r, rRead, c.file)
                           /\ c.off = s2r[rRead].body.off + s2r[rRead].body.len
           /\ \A j \in 1..rRead : ~LastOfFile(s2r, j, c.file)
<1>1. /\ s2r \in Seq(Frame) /\ rRead \in Nat /\ rRead + 1 \in 1..Len(s2r)
      /\ RHead = s2r[rRead + 1] /\ RHead \in Frame
  BY DEF TypeOK, WireTypeOK, RHead
<1>2. SFrame(s2r, rRead + 1)
  BY <1>1 DEF SLog
<1>3. rRead >= 10
  <2>1. /\ rRead + 1 <= 4 => RHead.kind # "SecureMessage"
        /\ rRead + 1 \in {5, 7, 9} => RHead.body.type = "Bytes"
        /\ rRead + 1 \in {6, 8, 10} => RHead.body.type = "Bytes"
    BY <1>1, <1>2, SFrameCases
  <2>2. ~(rRead + 1 <= 4) /\ rRead + 1 \notin {5, 7, 9} /\ rRead + 1 \notin {6, 8, 10}
    BY <2>1
  <2>3. QED BY <1>1, <2>2
<1>4. ChunkInPlace(s2r, rRead + 1)
  <2>1. RHead.body # Disconnection
    BY DEF Disconnection
  <2>2. QED BY <1>1, <1>2, <1>3, <2>1 DEF SFrame
<1>5. c.file \in Files /\ c.off \in Nat /\ c.len \in Nat
  BY <1>1, FrameCases
<1>6. /\ c.file \in Announced(s2r)
      /\ c.last => c.len = 0 /\ c.off = Size[c.file]
      /\ c.off = 0 => \A j \in 1..rRead : ~ChunkOf(s2r, j, c.file)
      /\ c.off > 0 => /\ ChunkOf(s2r, rRead, c.file)
                      /\ c.off = s2r[rRead].body.off + s2r[rRead].body.len
      /\ \A j \in 1..rRead : ~LastOfFile(s2r, j, c.file)
  <2>1. (rRead + 1) - 1 = rRead
    BY <1>1
  <2>2. QED BY <1>1, <1>4, <2>1 DEF ChunkInPlace
<1>7. QED BY <1>1, <1>3, <1>5, <1>6

(* It belongs to a file the receiver waits for, and starts where what it    *)
(* has of that file ends.                                                   *)
LEMMA NextChunk ==
    ASSUME TypeOK, AlignInv, rUp, rRead < Len(s2r),
           RHead.kind = "SecureMessage", RHead.body.type = "File"
    PROVE  /\ RHead.body.file \in rcv.files
           /\ RHead.body.off = rcv.got[RHead.body.file]
<1>1. PICK c : c = RHead.body
  OBVIOUS
<1>2. SLog /\ rRead \in Nat
  BY DEF AlignInv, TypeOK, WireTypeOK
<1>3. /\ c.file \in Files /\ c.off \in Nat /\ rRead >= 10 /\ c.file \in Announced(s2r)
      /\ c.off = 0 => \A j \in 1..rRead : ~ChunkOf(s2r, j, c.file)
      /\ c.off > 0 => /\ ChunkOf(s2r, rRead, c.file)
                      /\ c.off = s2r[rRead].body.off + s2r[rRead].body.len
      /\ \A j \in 1..rRead : ~LastOfFile(s2r, j, c.file)
  BY <1>1, <1>2, ChunkAhead
<1>4. c.file \in rcv.files
  BY <1>3 DEF AlignInv, Receiving
<1>5. c.off = rcv.got[c.file]
  <2>1. CASE c.off = 0
    BY <1>3, <2>1 DEF AlignInv, Receiving
  <2>2. CASE c.off > 0
    <3>1. \A f \in Files : rRead > 0 /\ ChunkOf(s2r, rRead, f) =>
            rcv.got[f] = s2r[rRead].body.off + s2r[rRead].body.len
      BY DEF AlignInv, Receiving
    <3>2. rRead > 0
      BY <1>2, <1>3
    <3>3. QED BY <1>3, <2>2, <3>1, <3>2
  <2>3. QED BY <1>3, <2>1, <2>2
<1>6. QED BY <1>1, <1>4, <1>5

(* The frames of the setup by name. *)
LEMMA SFrameNamed ==
    ASSUME NEW log
    PROVE  /\ SFrame(log, 1) => log[1] = Plain("ConnectionRequest")
           /\ SFrame(log, 2) => log[2] = Plain("ClientInit")
           /\ SFrame(log, 3) => log[3] = Plain("ClientFinish")
           /\ SFrame(log, 4) => log[4] = Plain("ConnectionResponse")
           /\ SFrame(log, 5) => log[5] = Secure(1, Bytes(PairedKeyEncryption, FALSE))
           /\ SFrame(log, 6) => log[6] = Secure(2, Bytes(PairedKeyEncryption, TRUE))
           /\ SFrame(log, 7) => log[7] = Secure(3, Bytes(PairedKeyResult, FALSE))
           /\ SFrame(log, 8) => log[8] = Secure(4, Bytes(PairedKeyResult, TRUE))
           /\ SFrame(log, 10) => \E F \in SUBSET Files :
                /\ log[10] = Secure(6, Bytes(Introduction(F), TRUE))
                /\ log[9] = Secure(5, Bytes(Introduction(F), FALSE))
BY Zenon DEF SFrame

(* The same of the receiver's. *)
LEMMA RFrameNamed ==
    ASSUME NEW log
    PROVE  /\ RFrame(log, 1) => log[1] = Plain("ServerInit")
           /\ RFrame(log, 2) => log[2] = Plain("ConnectionResponse")
           /\ RFrame(log, 3) => log[3] = Secure(1, Bytes(PairedKeyEncryption, FALSE))
           /\ RFrame(log, 4) => log[4] = Secure(2, Bytes(PairedKeyEncryption, TRUE))
           /\ RFrame(log, 5) => log[5] = Secure(3, Bytes(PairedKeyResult, FALSE))
           /\ RFrame(log, 6) => log[6] = Secure(4, Bytes(PairedKeyResult, TRUE))
BY Zenon DEF RFrame

(* The receiver's next frame is one its handler accepts. *)
LEMMA ReceiverAccepts ==
    ASSUME TypeOK, AlignInv, "Grown" \notin faults, rUp, rRead < Len(s2r)
    PROVE  RAcceptable(RHead)
<1>1. /\ s2r \in Seq(Frame) /\ rRead \in Nat /\ rRead + 1 \in 1..Len(s2r)
      /\ RHead = s2r[rRead + 1] /\ RHead \in Frame
  BY DEF TypeOK, WireTypeOK, RHead
<1>2. \A i \in 1..Len(s2r) : SFrame(s2r, i)
  BY DEF AlignInv, SLog
<1>3. RPlace(rcv.state, Len(r2s), rRead) /\ Len(r2s) \in Nat
  BY DEF AlignInv, RInStep, TypeOK, WireTypeOK
<1>4. CASE rcv.state \in RHandshakeState
  <2>1. CASE rcv.state = "Initial"
    <3>1. rRead = 0
      BY <1>3, <2>1 DEF RPlace
    <3>2. RHead = Plain("ConnectionRequest")
      <4>1. 1 \in 1..Len(s2r) /\ RHead = s2r[1]
        BY <1>1, <3>1
      <4>2. QED BY <1>2, <4>1, SFrameNamed
    <3>3. QED BY <2>1, <3>2 DEF RAcceptable, Plain
  <2>2. CASE rcv.state = "ReceivedConnectionRequest"
    <3>1. rRead = 1
      BY <1>3, <2>2 DEF RPlace
    <3>2. RHead = Plain("ClientInit")
      <4>1. 2 \in 1..Len(s2r) /\ RHead = s2r[2]
        BY <1>1, <3>1
      <4>2. QED BY <1>2, <4>1, SFrameNamed
    <3>3. QED BY <2>2, <3>2 DEF RAcceptable, Plain
  <2>3. CASE rcv.state = "SentUkeyServerInit"
    <3>1. rRead = 2
      BY <1>3, <2>3 DEF RPlace
    <3>2. RHead = Plain("ClientFinish")
      <4>1. 3 \in 1..Len(s2r) /\ RHead = s2r[3]
        BY <1>1, <3>1
      <4>2. QED BY <1>2, <4>1, SFrameNamed
    <3>3. QED BY <2>3, <3>2 DEF RAcceptable, Plain
  <2>4. CASE rcv.state = "ReceivedUkeyClientFinish"
    <3>1. rRead = 3
      BY <1>3, <2>4 DEF RPlace
    <3>2. RHead = Plain("ConnectionResponse")
      <4>1. 4 \in 1..Len(s2r) /\ RHead = s2r[4]
        BY <1>1, <3>1
      <4>2. QED BY <1>2, <4>1, SFrameNamed
    <3>3. QED BY <2>4, <3>2 DEF RAcceptable, Plain
  <2>5. QED BY <1>4, <2>1, <2>2, <2>3, <2>4 DEF RHandshakeState
<1>5. CASE rcv.state \notin RHandshakeState
  <2>1. rRead >= 4
    BY <1>1, <1>3, <1>5, RPlaceSecure
  <2>2. /\ RHead.kind = "SecureMessage" /\ RHead.seq = rRead - 3
        /\ rRead \in {4, 6, 8} => RHead.body.type = "Bytes" /\ ~RHead.body.last
        /\ rRead \in {5, 7, 9} => RHead.body.type = "Bytes" /\ RHead.body.last
        /\ rRead >= 10 => RHead.body.type \in {"Disconnection", "File"}
    <3>1. PICK i \in 1..Len(s2r) : i = rRead + 1 /\ SFrame(s2r, i)
      BY <1>1, <1>2
    <3>2. /\ i > 4 => s2r[i].kind = "SecureMessage" /\ s2r[i].seq = i - 4
          /\ i \in {5, 7, 9} => s2r[i].body.type = "Bytes" /\ ~s2r[i].body.last
          /\ i \in {6, 8, 10} => s2r[i].body.type = "Bytes" /\ s2r[i].body.last
          /\ i > 10 => s2r[i].body.type \in {"Disconnection", "File"}
      BY <1>1, <3>1, SFrameCases
    <3>3. QED BY <1>1, <2>1, <3>1, <3>2
  <2>3. InSequence(RHead, rcv.client_seq)
    <3>1. rcv.client_seq = rRead - 4
      BY <2>1 DEF AlignInv, RInStep
    <3>2. QED BY <1>1, <2>2, <3>1 DEF InSequence
  <2>4. RHead.body.type = "File" => ChunkFits(RHead.body)
    <3> SUFFICES ASSUME RHead.body.type = "File" PROVE ChunkFits(RHead.body)
      OBVIOUS
    <3>1. /\ RHead.body.file \in rcv.files
          /\ RHead.body.off = rcv.got[RHead.body.file]
      BY <2>2, NextChunk
    <3>2. IsChunk(s2r, rRead + 1)
      BY <1>1, <2>2 DEF IsChunk
    <3>3. RHead.body.off + RHead.body.len <= Size[RHead.body.file]
      BY <1>1, <3>2 DEF AlignInv, Within
    <3>4. QED BY <3>1, <3>3 DEF ChunkFits
  <2>5. ASSUME NEW frame, rRead > 0,
               s2r[rRead].kind = "SecureMessage",
               s2r[rRead].body = Bytes(frame, FALSE)
        PROVE  rcv.buf = frame
    <3>1. Opens(s2r, rRead) /\ s2r[rRead].body.frame = frame
      BY <2>5 DEF Opens, Bytes
    <3>2. QED BY <2>5, <3>1 DEF AlignInv, RInStep
  <2>6. CASE rRead = 5
    <3>1. /\ s2r[5] = Secure(1, Bytes(PairedKeyEncryption, FALSE))
          /\ RHead = Secure(2, Bytes(PairedKeyEncryption, TRUE))
      <4>1. 5 \in 1..Len(s2r) /\ 6 \in 1..Len(s2r) /\ RHead = s2r[6]
        BY <1>1, <2>6
      <4>2. QED BY <1>2, <4>1, SFrameNamed
    <3>2. rcv.buf = PairedKeyEncryption /\ RHead.body.frame = PairedKeyEncryption
      BY <2>5, <2>6, <3>1 DEF Secure, Bytes
    <3>3. rcv.state = "SentConnectionResponse"
      BY <1>3, <2>6, <1>5 DEF RPlace, RHandshakeState
    <3>4. QED BY <2>2, <2>3, <2>6, <3>2, <3>3 DEF RAcceptable
  <2>7. CASE rRead = 7
    <3>1. /\ s2r[7] = Secure(3, Bytes(PairedKeyResult, FALSE))
          /\ RHead = Secure(4, Bytes(PairedKeyResult, TRUE))
      <4>1. 7 \in 1..Len(s2r) /\ 8 \in 1..Len(s2r) /\ RHead = s2r[8]
        BY <1>1, <2>7
      <4>2. QED BY <1>2, <4>1, SFrameNamed
    <3>2. rcv.buf = PairedKeyResult /\ RHead.body.frame = PairedKeyResult
      BY <2>5, <2>7, <3>1 DEF Secure, Bytes
    <3>3. rcv.state = "SentPairedKeyResult"
      BY <1>3, <2>7, <1>5 DEF RPlace, RHandshakeState
    <3>4. QED BY <2>2, <2>3, <2>7, <3>2, <3>3 DEF RAcceptable
  <2>8. CASE rRead = 9
    <3>1. PICK F \in SUBSET Files : /\ RHead = Secure(6, Bytes(Introduction(F), TRUE))
                                    /\ s2r[9] = Secure(5, Bytes(Introduction(F), FALSE))
      <4>1. 9 \in 1..Len(s2r) /\ 10 \in 1..Len(s2r) /\ RHead = s2r[10]
        BY <1>1, <2>8
      <4>2. QED BY <1>2, <4>1, SFrameNamed
    <3>2. rcv.buf = Introduction(F) /\ RHead.body.frame = Introduction(F)
      BY <2>5, <2>8, <3>1 DEF Secure, Bytes
    <3>3. rcv.state = "ReceivedPairedKeyResult"
      BY <1>3, <2>8, <1>5 DEF RPlace, RHandshakeState
    <3>4. rcv.buf.frame = "Introduction"
      BY <3>2 DEF Introduction
    <3>5. QED BY <2>2, <2>3, <2>8, <3>2, <3>3, <3>4 DEF RAcceptable
  <2>9. CASE rRead \notin {5, 7, 9}
    <3>1. ~(RHead.body.type = "Bytes" /\ RHead.body.last)
      BY <1>1, <2>1, <2>2, <2>9
    <3>2. QED BY <1>5, <2>3, <2>4, <3>1 DEF RAcceptable, RHandshakeState
  <2>10. QED BY <2>6, <2>7, <2>8, <2>9
<1>6. QED BY <1>4, <1>5

(* So is the sender's. *)
LEMMA SenderAccepts ==
    ASSUME TypeOK, AlignInv, sUp, snd.state # "SendingFiles", sRead < Len(r2s)
    PROVE  SAcceptable(SHead)
<1>1. /\ r2s \in Seq(Frame) /\ sRead \in Nat /\ sRead + 1 \in 1..Len(r2s)
      /\ SHead = r2s[sRead + 1] /\ SHead \in Frame /\ Len(s2r) \in Nat
  BY DEF TypeOK, WireTypeOK, SHead
<1>2. \A i \in 1..Len(r2s) : RFrame(r2s, i)
  BY DEF AlignInv, RLog
<1>3. SPlace(snd.state, Len(s2r), sRead)
  BY DEF AlignInv, SInStep
<1>4. snd.state # "Initial"
  <2>1. Len(s2r) # 0
    BY <1>1 DEF AlignInv, RLog
  <2>2. QED BY <1>3, <2>1 DEF SPlace
<1>5. CASE snd.state = "SentUkeyClientInit"
  <2>1. sRead = 0
    BY <1>3, <1>5 DEF SPlace
  <2>2. SHead = Plain("ServerInit")
    <3>1. 1 \in 1..Len(r2s) /\ SHead = r2s[1]
      BY <1>1, <2>1
    <3>2. QED BY <1>2, <3>1, RFrameNamed
  <2>3. QED BY <1>5, <2>2 DEF SAcceptable, Plain
<1>6. CASE snd.state = "SentUkeyClientFinish"
  <2>1. sRead = 1
    BY <1>3, <1>6 DEF SPlace
  <2>2. SHead = Plain("ConnectionResponse")
    <3>1. 2 \in 1..Len(r2s) /\ SHead = r2s[2]
      BY <1>1, <2>1
    <3>2. QED BY <1>2, <3>1, RFrameNamed
  <2>3. QED BY <1>6, <2>2 DEF SAcceptable, Plain
<1>7. CASE snd.state \notin {"SentUkeyClientInit", "SentUkeyClientFinish"}
  <2>1. sRead >= 2
    BY <1>1, <1>3, <1>4, <1>7, SPlaceSecure
  <2>2. PICK i \in 1..Len(r2s) : i = sRead + 1 /\ RFrame(r2s, i)
    BY <1>1, <1>2
  <2>3. /\ SHead.kind = "SecureMessage" /\ SHead.seq = sRead - 1
        /\ sRead \in {2, 4} => ~SHead.body.last
    <3>1. /\ i > 2 => r2s[i].kind = "SecureMessage" /\ r2s[i].seq = i - 2
          /\ i \in {3, 5} => ~r2s[i].body.last
      BY <1>1, <2>2, RFrameCases
    <3>2. QED BY <1>1, <2>1, <2>2, <3>1
  <2>4. InSequence(SHead, snd.client_seq)
    <3>1. snd.client_seq = sRead - 2
      BY <2>1 DEF AlignInv, SInStep
    <3>2. QED BY <1>1, <2>3, <3>1 DEF InSequence
  <2>5. ASSUME NEW frame, sRead > 0,
               r2s[sRead].kind = "SecureMessage",
               r2s[sRead].body = Bytes(frame, FALSE)
        PROVE  snd.buf = frame
    <3>1. Opens(r2s, sRead) /\ r2s[sRead].body.frame = frame
      BY <2>5 DEF Opens, Bytes
    <3>2. QED BY <2>5, <3>1 DEF AlignInv, SInStep
  <2>6. CASE sRead = 3
    <3>1. /\ r2s[3] = Secure(1, Bytes(PairedKeyEncryption, FALSE))
          /\ SHead = Secure(2, Bytes(PairedKeyEncryption, TRUE))
      <4>1. 3 \in 1..Len(r2s) /\ 4 \in 1..Len(r2s) /\ SHead = r2s[4]
        BY <1>1, <2>6
      <4>2. QED BY <1>2, <4>1, RFrameNamed
    <3>2. snd.buf = PairedKeyEncryption /\ SHead.body.frame = PairedKeyEncryption
      BY <2>5, <2>6, <3>1 DEF Secure, Bytes
    <3>3. snd.state = "SentPairedKeyEncryption"
      BY <1>3, <1>4, <1>7, <2>6 DEF SPlace
    <3>4. QED BY <2>4, <3>2, <3>3 DEF SAcceptable
  <2>7. CASE sRead = 5
    <3>1. /\ r2s[5] = Secure(3, Bytes(PairedKeyResult, FALSE))
          /\ SHead = Secure(4, Bytes(PairedKeyResult, TRUE))
      <4>1. 5 \in 1..Len(r2s) /\ 6 \in 1..Len(r2s) /\ SHead = r2s[6]
        BY <1>1, <2>7
      <4>2. QED BY <1>2, <4>1, RFrameNamed
    <3>2. snd.buf = PairedKeyResult /\ SHead.body.frame = PairedKeyResult
      BY <2>5, <2>7, <3>1 DEF Secure, Bytes
    <3>3. snd.state = "SentPairedKeyResult"
      BY <1>3, <1>4, <1>7, <2>7 DEF SPlace
    <3>4. QED BY <2>4, <3>2, <3>3 DEF SAcceptable
  <2>8. CASE sRead \in {2, 4}
    BY <1>7, <2>3, <2>4, <2>8 DEF SAcceptable
  <2>9. CASE sRead >= 6
    <3>1. snd.state \notin {"SentPairedKeyEncryption", "SentPairedKeyResult"}
      BY <1>3, <2>9 DEF SPlace
    <3>2. SHead.body.type = "Bytes" /\ SHead.body.last =>
            snd.buf = SHead.body.frame /\ snd.buf.frame = "Response"
      <4> SUFFICES ASSUME SHead.body.type = "Bytes", SHead.body.last
                   PROVE  snd.buf = SHead.body.frame /\ snd.buf.frame = "Response"
        OBVIOUS
      <4>1. i > 6 /\ r2s[i] = SHead /\ i - 1 = sRead
        BY <1>1, <2>2, <2>9
      <4>2. \/ SHead.body = Disconnection
            \/ \E status \in {"Accept", "Reject", "Unsupported"} :
                 \/ SHead.body = Bytes(Response(status), FALSE)
                 \/ /\ SHead.body = Bytes(Response(status), TRUE)
                    /\ r2s[sRead].body = Bytes(Response(status), FALSE)
        BY <2>2, <4>1, Zenon DEF RFrame
      <4>3. /\ SHead.body # Disconnection
            /\ \A status : SHead.body # Bytes(Response(status), FALSE)
        BY DEF Disconnection, Bytes
      <4>4. PICK status \in {"Accept", "Reject", "Unsupported"} :
              /\ SHead.body = Bytes(Response(status), TRUE)
              /\ r2s[sRead].body = Bytes(Response(status), FALSE)
        BY <4>2, <4>3, Zenon
      <4>5. r2s[sRead].kind = "SecureMessage" /\ sRead > 0
        <5>1. PICK k \in 1..Len(r2s) : k = sRead /\ k > 2 /\ RFrame(r2s, k)
          BY <1>1, <1>2, <2>9
        <5>2. QED BY <1>1, <5>1, RFrameCases
      <4>6. snd.buf = Response(status)
        BY <2>5, <4>4, <4>5
      <4>7. QED BY <4>4, <4>6 DEF Bytes, Response
    <3>3. QED BY <1>7, <2>4, <3>1, <3>2 DEF SAcceptable
  <2>10. QED BY <1>1, <2>1, <2>6, <2>7, <2>8, <2>9
<1>8. QED BY <1>5, <1>6, <1>7

(* The invariant holds. *)
THEOREM Aligned == Spec => []AlignInv
<1>1. Init => AlignInv
  BY AlignInit
<1>2. TypeOK /\ TypeOK' /\ AlignInv /\ [Next]_vars => AlignInv'
  BY AlignStep
<1>3. QED BY <1>1, <1>2, TypeCorrect, PTL DEF Spec

(* Between two ends that run this code no frame meets an error path of its  *)
(* handler, unless a file grew after it was announced: decrypt_and_process_ *)
(* secure_message on both ends.                                             *)
THEOREM NoFrameIsRefused == Spec => []("Grown" \notin faults => EveryFrameIsAcceptable)
<1>1. TypeOK /\ AlignInv => ("Grown" \notin faults => EveryFrameIsAcceptable)
  BY ReceiverAccepts, SenderAccepts DEF EveryFrameIsAcceptable
<1>2. QED BY <1>1, TypeCorrect, Aligned, PTL

(* The receiver has the file of every chunk open when the chunk is next,    *)
(* for any files, environment and number of answers: no chunk comes before  *)
(* the Accept that opens them all.                                          *)
THEOREM ChunksHaveTheirFile == Spec => []EveryChunkHasItsFile
<1>1. TypeOK /\ AlignInv /\ ConsentBeforeBytes => EveryChunkHasItsFile
  <2> SUFFICES ASSUME TypeOK, AlignInv, ConsentBeforeBytes, rUp, rRead < Len(s2r),
                      RHead.kind = "SecureMessage", RHead.body.type = "File"
               PROVE  RHead.body.file \in rcv.open
    BY DEF EveryChunkHasItsFile
  <2>1. rRead + 1 \in FileFrames
    <3>1. rRead + 1 \in 1..Len(s2r)
      BY DEF TypeOK, WireTypeOK
    <3>2. QED BY <3>1 DEF FileFrames, RHead
  <2>2. AcceptTaken
    BY <2>1 DEF ConsentBeforeBytes
  <2>3. rcv.open = rcv.files
    BY <2>2 DEF AlignInv, OpenInv
  <2>4. QED BY <2>3, NextChunk
<1>2. QED BY <1>1, TypeCorrect, Aligned, ConsentComesFirst, PTL

(* A receiver that reports Finished has a sender that has sent every file   *)
(* and will not report the connection as lost: save of the receiver against *)
(* the send loop.                                                           *)
THEOREM FinishedTogether == Spec => []FinishedOnBothEnds
<1>1. TypeOK /\ AlignInv => FinishedOnBothEnds
  <2> SUFFICES ASSUME TypeOK, AlignInv, rcv.state = "Finished"
               PROVE  /\ snd.todo = {} /\ snd.cur = {}
                      /\ ~Published(sPub, "Disconnected")
    BY DEF FinishedOnBothEnds
  <2>1. /\ snd \in SenderState /\ rRead \in 0..Len(s2r) /\ Len(s2r) \in Nat
    BY DEF TypeOK, WireTypeOK, SenderTypeOK
  <2>2. /\ rRead > 10 /\ IsChunk(s2r, rRead)
        /\ \A f \in Announced(s2r) : \E i \in 1..rRead : LastOfFile(s2r, i, f)
    BY <2>1 DEF AlignInv, Receiving
  <2>3. \A f \in Announced(s2r) : \E i \in 1..Len(s2r) : LastOfFile(s2r, i, f)
    BY <2>1, <2>2
  <2>4. \A i, f : LastOfFile(s2r, i, f) => ChunkOf(s2r, i, f)
    BY DEF LastOfFile
  <2>5. snd.todo \cup snd.cur \subseteq Announced(s2r)
    BY DEF AlignInv, Sending
  <2>6. snd.todo = {}
    BY <2>3, <2>4, <2>5 DEF AlignInv, Sending
  <2>7. snd.cur = {}
    BY <2>3, <2>5 DEF AlignInv, Sending
  <2>8. rRead \in 1..Len(s2r)
    BY <2>1, <2>2
  <2>9. QED BY <2>2, <2>6, <2>7, <2>8 DEF AlignInv, Lost
<1>2. QED BY <1>1, TypeCorrect, Aligned, PTL

-----------------------------------------------------------------------------
(* What is stored and what is said, where a user answers at most once.      *)

(* A user who may answer once clicks one answer. *)
LEMMA OneClickStep ==
    ASSUME TypeOK, MaxAnswers <= 1, OneClick, [Next]_vars
    PROVE  OneClick'
<1>1. rClicks \in Seq(Answer \cup {"Cancel"}) /\ Len(rClicks) \in Nat
  BY DEF TypeOK
<1>2. CASE rClicks' = rClicks
  BY <1>2 DEF OneClick, Clicked
<1>3. ASSUME NEW x \in Answer \cup {"Cancel"}, rClicks' = Append(rClicks, x)
      PROVE  /\ \A i \in Clicked(rClicks', Answer) :
                  i \in Clicked(rClicks, Answer) \/ i = Len(rClicks) + 1
             /\ x = "Cancel" => Len(rClicks) + 1 \notin Clicked(rClicks', Answer)
  <2>1. Len(rClicks') = Len(rClicks) + 1
    BY <1>1, <1>3
  <2>2. /\ \A i \in 1..Len(rClicks) : rClicks'[i] = rClicks[i]
        /\ rClicks'[Len(rClicks) + 1] = x
    BY <1>1, <1>3
  <2>3. \A i \in 1..(Len(rClicks) + 1) : i \in 1..Len(rClicks) \/ i = Len(rClicks) + 1
    BY <1>1
  <2>4. QED BY <2>1, <2>2, <2>3 DEF Clicked, Answer
<1>4. CASE RUserCancels
  <2>1. rClicks' = Append(rClicks, "Cancel")
    BY <1>4 DEF RUserCancels
  <2>2. \A i \in Clicked(rClicks', Answer) : i \in Clicked(rClicks, Answer)
    BY <1>3, <2>1
  <2>3. QED BY <2>2 DEF OneClick
<1>5. ASSUME NEW x \in Answer, UserAnswers(x) PROVE OneClick'
  <2>1. /\ rClicks' = Append(rClicks, x)
        /\ Cardinality(Clicked(rClicks, Answer)) < MaxAnswers
    BY <1>5 DEF UserAnswers
  <2>2. IsFiniteSet(Clicked(rClicks, Answer))
    <3>1. IsFiniteSet(1..Len(rClicks))
      BY <1>1, FS_Interval
    <3>2. Clicked(rClicks, Answer) \subseteq 1..Len(rClicks)
      BY DEF Clicked
    <3>3. QED BY <3>1, <3>2, FS_Subset
  <2>3. Cardinality(Clicked(rClicks, Answer)) = 0
    <3>1. Cardinality(Clicked(rClicks, Answer)) \in Nat
      BY <2>2, FS_CardinalityType
    <3>2. QED BY <2>1, <3>1, ClicksAssumption
  <2>4. Clicked(rClicks, Answer) = {}
    BY <2>2, <2>3, FS_EmptySet
  <2>5. \A i \in Clicked(rClicks', Answer) : i = Len(rClicks) + 1
    BY <1>3, <2>1, <2>4
  <2>6. QED BY <2>5 DEF OneClick
<1>6. CASE Sender \/ Receiver \/ FrontEnd \/ SUserCancels \/ Done \/ UNCHANGED vars
  <2>1. rClicks' = rClicks
    BY <1>6 DEF Sender, Receiver, FrontEnd, SShow, RShow, SUserCancels, Done, vars, uiVars
  <2>2. QED BY <1>2, <2>1
<1>7. QED BY <1>4, <1>5, <1>6 DEF Next, User

(* The answer a task takes is its first. *)
LEMMA AnswerIsFirst ==
    ASSUME TypeOK, OneClick, NEW x \in Answer, RTakes(x)
    PROVE  ~AcceptTaken
<1>1. /\ rTaken \in 0..Len(rClicks) /\ Len(rClicks) \in Nat
      /\ rTaken < Len(rClicks) /\ rClicks[rTaken + 1] = x
  BY DEF TypeOK, ReceiverTypeOK, RTakes
<1>2. rTaken + 1 \in Clicked(rClicks, Answer)
  BY <1>1 DEF Clicked
<1>3. ASSUME NEW i \in 1..rTaken, rClicks[i] = "Accept" PROVE FALSE
  <2>1. i \in Clicked(rClicks, Answer)
    BY <1>1, <1>3 DEF Clicked, Answer
  <2>2. i = rTaken + 1
    BY <1>2, <2>1 DEF OneClick
  <2>3. QED BY <1>1, <2>2
<1>4. QED BY <1>3 DEF AcceptTaken

(* A task that took a Reject took no Accept, and reports nothing else as    *)
(* rejected.                                                                *)
LEMMA RejectedFirstStep ==
    ASSUME TypeOK, AlignInv, OneClick, RejectedFirst, ReceiverNext, UNCHANGED uiVars
    PROVE  RejectedFirst'
<1>1. rPub \in Seq(State) /\ rTaken \in 0..Len(rClicks)
  BY DEF TypeOK, ReceiverTypeOK
<1>2. rUp /\ ~Published(rPub, "Rejected") /\ rClicks' = rClicks
  BY ReceiverRuns DEF RejectedFirst, uiVars
<1>3. \A i \in 1..Len(rPub) : rPub[i] # "Rejected"
  BY <1>2 DEF Published
<1>4. CASE RReject
  <2>1. /\ ~rUp' /\ RTakes("Reject") /\ rTaken' = rTaken + 1
        /\ rClicks[rTaken + 1] = "Reject"
    BY <1>4 DEF RReject, RTakes
  <2>2. ~AcceptTaken
    BY <2>1, AnswerIsFirst DEF Answer
  <2>3. \A i \in 1..rTaken' : i \in 1..rTaken \/ i = rTaken + 1
    BY <1>1, <2>1
  <2>4. ~AcceptTaken'
    BY <1>2, <2>1, <2>2, <2>3 DEF AcceptTaken
  <2>5. QED BY <2>1, <2>4 DEF RejectedFirst
<1>5. ASSUME \/ rPub' = rPub
             \/ \E x \in State \ {"Rejected"} : rPub' = Append(rPub, x)
             \/ \E x, y \in State \ {"Rejected"} : rPub' = rPub \o <<x, y>>
      PROVE  RejectedFirst'
  <2>1. \A i \in 1..Len(rPub') : rPub'[i] # "Rejected"
    <3>1. CASE rPub' = rPub
      BY <1>3, <3>1
    <3>2. ASSUME NEW x \in State \ {"Rejected"}, rPub' = Append(rPub, x)
          PROVE  \A i \in 1..Len(rPub') : rPub'[i] # "Rejected"
      BY <1>1, <1>3, <3>2
    <3>3. ASSUME NEW x \in State \ {"Rejected"}, NEW y \in State \ {"Rejected"},
                 rPub' = rPub \o <<x, y>>
          PROVE  \A i \in 1..Len(rPub') : rPub'[i] # "Rejected"
      BY <1>1, <1>3, <3>3
    <3>4. QED BY <1>5, <3>1, <3>2, <3>3
  <2>2. QED BY <2>1 DEF RejectedFirst, Published
<1>6. CASE \/ RConnectionRequest \/ RClientInit \/ RClientFinish \/ RConnectionResponse
           \/ RBytesData \/ RPairedKeyEncryption \/ RPairedKeyResult \/ REmptyIntroduction
           \/ RDisconnection \/ RCrash
  <2>1. rPub' = rPub
    BY <1>6 DEF RConnectionRequest, RClientInit, RClientFinish, RConnectionResponse,
                RBytesData, RPairedKeyEncryption, RPairedKeyResult, REmptyIntroduction,
                RDisconnection, RCrash
  <2>2. QED BY <1>5, <2>1
<1>7. CASE \/ RIntroduction \/ RFileLast \/ RAccept \/ RBadFrame \/ RConnectionLost
           \/ RAcceptFails \/ RStoreFails
  <2>1. \/ rPub' = rPub
        \/ \E x \in {"WaitingForUserConsent", "Finished", "ReceivingFiles",
                     "Disconnected"} : rPub' = Append(rPub, x)
    BY <1>7 DEF RIntroduction, RFileLast, RAccept, RBadFrame, RConnectionLost,
                RAcceptFails, RStoreFails, RExitOnError
  <2>2. {"WaitingForUserConsent", "Finished", "ReceivingFiles", "Disconnected"}
          \subseteq State \ {"Rejected"}
    BY DEF State
  <2>3. QED BY <1>5, <2>1, <2>2
<1>8. CASE RCancel
  <2>1. rPub' = Append(rPub, "Cancelled") \/ rPub' = rPub \o <<"Cancelled", "Disconnected">>
    BY <1>8 DEF RCancel
  <2>2. "Cancelled" \in State \ {"Rejected"} /\ "Disconnected" \in State \ {"Rejected"}
    BY DEF State
  <2>3. QED BY <1>5, <2>1, <2>2
<1>9. CASE RFileChunk
  <2>1. rPub' = rPub \/ rPub' = Append(rPub, rcv.state)
    BY <1>9 DEF RFileChunk
  <2>2. rcv.state \in State \ {"Rejected"}
    <3>1. /\ RHead.kind = "SecureMessage" /\ RHead.body.type = "File" /\ rRead < Len(s2r)
      BY <1>9 DEF RFileChunk, RReadsSecure, RReads, InSequence
    <3>2. SLog /\ rRead >= 10
      BY <3>1, ChunkAhead DEF AlignInv
    <3>3. rcv.state \in {"WaitingForUserConsent", "ReceivingFiles"}
      <4>1. RPlace(rcv.state, Len(r2s), rRead) /\ Len(r2s) \in Nat /\ rRead \in Nat
        BY <1>2 DEF AlignInv, RInStep, TypeOK, WireTypeOK
      <4>2. QED BY <3>2, <4>1, RPlaceSecure
    <3>4. QED BY <3>3 DEF State
  <2>3. QED BY <1>5, <2>1, <2>2
<1>10. QED
  BY <1>4, <1>6, <1>7, <1>8, <1>9 DEF ReceiverNext, ReceiverStep, RHandleFrame, RHandleCommand

(* What a receiver does with a chunk it accepts. *)
LEMMA ChunkTaken ==
    ASSUME TypeOK, AlignInv, ReceiverNext, RFileChunk \/ RFileLast,
           NEW c, c = RHead.body
    PROVE  /\ c.file \in Files /\ c.file \in Announced(s2r)
           /\ rRead >= 10 /\ rRead' = rRead + 1 /\ RReads
           /\ \A f : LastOfFile(s2r, rRead + 1, f) <=> f = c.file /\ c.last
           /\ \A j \in 1..rRead : ~LastOfFile(s2r, j, c.file)
           /\ c.last => rcv.got[c.file] = Size[c.file]
           /\ RFileChunk => /\ ~c.last
                            /\ disk' = WriteAll(c.file, c.len)
                            /\ rcv'.got[c.file] = rcv.got[c.file] + c.len
                            /\ \A f \in Files \ {c.file} : rcv'.got[f] = rcv.got[f]
           /\ RFileLast => disk' = disk /\ rcv'.got = rcv.got
<1>1. /\ RReads /\ rRead < Len(s2r) /\ rRead' = rRead + 1
      /\ RHead.kind = "SecureMessage" /\ RHead.body.type = "File"
      /\ c.off = rcv.got[c.file]
  BY DEF RFileChunk, RFileLast, RReadsSecure, RReads, InSequence, ChunkFits
<1>2. SLog
  BY DEF AlignInv
<1>3. /\ c.file \in Files /\ c.len \in Nat /\ c.file \in Announced(s2r)
      /\ rRead >= 10 /\ RHead = s2r[rRead + 1]
      /\ c.last => c.len = 0 /\ c.off = Size[c.file]
      /\ \A j \in 1..rRead : ~LastOfFile(s2r, j, c.file)
  BY <1>1, <1>2, ChunkAhead
<1>4. \A f : LastOfFile(s2r, rRead + 1, f) <=> f = c.file /\ c.last
  BY <1>1, <1>3 DEF LastOfFile, ChunkOf, IsChunk
<1>5. rcv \in ReceiverState /\ rcv.got \in [Files -> Nat]
  BY DEF TypeOK, ReceiverTypeOK, ReceiverState
<1>6. RFileChunk => /\ ~c.last
                    /\ disk' = WriteAll(c.file, c.len)
                    /\ rcv'.got[c.file] = rcv.got[c.file] + c.len
                    /\ \A f \in Files \ {c.file} : rcv'.got[f] = rcv.got[f]
  <2> SUFFICES ASSUME RFileChunk
               PROVE  /\ ~c.last
                      /\ disk' = WriteAll(c.file, c.len)
                      /\ rcv'.got[c.file] = rcv.got[c.file] + c.len
                      /\ \A f \in Files \ {c.file} : rcv'.got[f] = rcv.got[f]
    OBVIOUS
  <2>1. (c.len > 0 \/ ~c.last) /\ disk' = WriteAll(c.file, c.len)
    BY DEF RFileChunk
  <2>2. ~c.last
    BY <1>3, <2>1
  <2>3. PICK noted \in Nat :
          rcv' = [rcv EXCEPT !.client_seq = @ + 1,
                             !.got[RHead.body.file] = @ + RHead.body.len,
                             !.ack = rcv.ack + RHead.body.len, !.noted = noted]
    BY ChunkCounted
  <2>4. /\ rcv'.got[c.file] = rcv.got[c.file] + c.len
        /\ \A f \in Files \ {c.file} : rcv'.got[f] = rcv.got[f]
    BY <1>3, <1>5, <2>3 DEF ReceiverState
  <2>5. QED BY <2>1, <2>2, <2>4
<1>7. RFileLast => disk' = disk /\ rcv'.got = rcv.got
  BY <1>5 DEF RFileLast, ReceiverState
<1>8. QED BY <1>1, <1>3, <1>4, <1>6, <1>7

(* The other steps of a task that goes on. *)
LEMMA NoChunkTaken ==
    ASSUME TypeOK, AlignInv, ReceiverNext, ~RFileChunk, ~RFileLast, ~RAccept,
           rUp' \/ rcv'.state = "Finished"
    PROVE  /\ RReads /\ rRead' = rRead + 1 /\ rcv'.got = rcv.got /\ disk' = disk
           /\ \A f : ~LastOfFile(s2r, rRead + 1, f)
<1>1. /\ s2r \in Seq(Frame) /\ rRead \in Nat /\ Len(r2s) \in Nat
      /\ rcv \in ReceiverState /\ SLog
  BY DEF TypeOK, WireTypeOK, ReceiverTypeOK, AlignInv
<1>2. RPlace(rcv.state, Len(r2s), rRead)
  BY ReceiverRuns DEF AlignInv, RInStep
<1>3. CASE RConnectionLost \/ RAcceptFails \/ RStoreFails \/ RBadFrame \/ RCrash
  <2>1. ~rUp' /\ rcv' = rcv
    BY <1>3 DEF RConnectionLost, RAcceptFails, RStoreFails, RBadFrame, RCrash, RExitOnError
  <2>2. rcv.state # "Finished"
    BY <1>1, <1>2, RPlaceSecure
  <2>3. QED BY <2>1, <2>2
<1>4. CASE RReject \/ RCancel
  <2>1. ~rUp' /\ rcv'.state # "Finished"
    BY <1>1, <1>4 DEF RReject, RCancel, ReceiverState
  <2>2. QED BY <2>1
<1>5. ASSUME RReads, RHead.kind # "SecureMessage" \/ RHead.body.type # "File"
      PROVE  rRead' = rRead + 1 /\ \A f : ~LastOfFile(s2r, rRead + 1, f)
  BY <1>5 DEF RReads, RHead, LastOfFile, ChunkOf, IsChunk
<1>6. CASE RConnectionRequest \/ RClientInit \/ RClientFinish \/ RConnectionResponse
  <2>1. /\ RReads /\ rcv'.got = rcv.got /\ disk' = disk
        /\ RHead.kind # "SecureMessage"
    BY <1>1, <1>6
       DEF RConnectionRequest, RClientInit, RClientFinish, RConnectionResponse, ReceiverState
  <2>2. QED BY <1>5, <2>1
<1>7. CASE RBytesData \/ RPairedKeyEncryption \/ RPairedKeyResult \/ RIntroduction
           \/ REmptyIntroduction
  <2>1. /\ RReads /\ rcv'.got = rcv.got /\ disk' = disk
        /\ RHead.body.type = "Bytes"
    BY <1>1, <1>7
       DEF RBytesData, RPairedKeyEncryption, RPairedKeyResult, RIntroduction,
           REmptyIntroduction, RReadsSharing, RReadsSecure, ReceiverState
  <2>2. QED BY <1>5, <2>1
<1>8. CASE RDisconnection
  <2>1. RReads /\ rcv'.got = rcv.got /\ disk' = disk /\ RHead.body = Disconnection
    BY <1>1, <1>8 DEF RDisconnection, RReadsSecure, ReceiverState
  <2>2. RHead.body.type # "File"
    BY <2>1 DEF Disconnection
  <2>3. QED BY <1>5, <2>1, <2>2
<1>9. QED
  BY <1>3, <1>4, <1>6, <1>7, <1>8 DEF ReceiverNext, ReceiverStep, RHandleFrame, RHandleCommand

(* A file is whole when its last chunk is read. *)
LEMMA SizedStep ==
    ASSUME TypeOK, AlignInv, Sized, ReceiverNext, UNCHANGED senderVars
    PROVE  Sized'
<1> SUFFICES ASSUME rUp' \/ rcv'.state = "Finished",
                    NEW i \in 1..rRead', NEW f \in Files, LastOfFile(s2r, i, f)
             PROVE  rcv'.got[f] = Size[f]
  BY DEF Sized, senderVars
<1>1. rRead \in Nat
  BY DEF TypeOK, WireTypeOK
<1>2. \A j \in 1..rRead : \A g \in Files : LastOfFile(s2r, j, g) => rcv.got[g] = Size[g]
  BY ReceiverRuns DEF Sized
<1>3. \A j \in 1..(rRead + 1) : j \in 1..rRead \/ j = rRead + 1
  BY <1>1
<1>4. CASE RFileChunk \/ RFileLast
  <2>1. PICK c : c = RHead.body
    OBVIOUS
  <2>2. /\ c.file \in Files /\ rRead' = rRead + 1
        /\ \A g : LastOfFile(s2r, rRead + 1, g) <=> g = c.file /\ c.last
        /\ \A j \in 1..rRead : ~LastOfFile(s2r, j, c.file)
        /\ c.last => rcv.got[c.file] = Size[c.file]
        /\ RFileChunk => /\ ~c.last
                         /\ \A g \in Files \ {c.file} : rcv'.got[g] = rcv.got[g]
        /\ RFileLast => rcv'.got = rcv.got
    BY <1>4, <2>1, ChunkTaken
  <2>3. i \in 1..rRead \/ i = rRead + 1
    BY <1>3, <2>2
  <2>4. CASE i \in 1..rRead
    <3>1. rcv.got[f] = Size[f] /\ f # c.file
      BY <1>2, <2>2, <2>4
    <3>2. QED BY <1>4, <2>2, <3>1
  <2>5. CASE i = rRead + 1
    <3>1. f = c.file /\ c.last
      BY <2>2, <2>5
    <3>2. QED BY <1>4, <2>2, <3>1
  <2>6. QED BY <2>3, <2>4, <2>5
<1>5. CASE RAccept
  <2>1. rcv'.got = rcv.got /\ rRead' = rRead
    BY <1>5 DEF RAccept, RTakes, TypeOK, ReceiverTypeOK, ReceiverState
  <2>2. QED BY <1>2, <2>1
<1>6. CASE ~RFileChunk /\ ~RFileLast /\ ~RAccept
  <2>1. rRead' = rRead + 1 /\ rcv'.got = rcv.got /\ \A g : ~LastOfFile(s2r, rRead + 1, g)
    BY <1>6, NoChunkTaken
  <2>2. QED BY <1>2, <1>3, <2>1
<1>7. QED BY <1>4, <1>5, <1>6

(* The introduction announces files. *)
LEMMA AnnouncedFiles ==
    ASSUME SLog, Len(s2r) \in Nat, Len(s2r) >= 10
    PROVE  Announced(s2r) \in SUBSET Files
<1>1. SFrame(s2r, 10)
  BY DEF SLog
<1>2. PICK F \in SUBSET Files : s2r[10] = Secure(6, Bytes(Introduction(F), TRUE))
  BY <1>1, SFrameNamed
<1>3. QED BY <1>2 DEF Announced, Secure, Bytes, Introduction

(* The Accept is taken when nothing was received yet, and what is received  *)
(* afterwards is written at the end.                                        *)
LEMMA StoredFromStartStep ==
    ASSUME TypeOK, AlignInv, ConsentBeforeBytes, OneClick, StoredFromStart,
           ReceiverNext, UNCHANGED <<senderVars, uiVars>>
    PROVE  StoredFromStart'
<1> SUFFICES ASSUME rUp' \/ rcv'.state = "Finished", AcceptTaken'
             PROVE  /\ rRead' >= 10
                    /\ \A f \in Announced(s2r) :
                         disk'[f] = [exists |-> TRUE, from |-> 0, to |-> rcv'.got[f]]
  BY DEF StoredFromStart, senderVars
<1>1. /\ rRead \in 0..Len(s2r) /\ rRead \in Nat /\ Len(s2r) \in Nat /\ Len(r2s) \in Nat
      /\ rcv \in ReceiverState
      /\ rcv.got \in [Files -> Nat] /\ disk \in [Files -> Stored]
      /\ rTaken \in 0..Len(rClicks)
  BY WireTypes, TaskTypes
<1>2. rUp /\ rClicks' = rClicks
  BY ReceiverRuns DEF uiVars
<1>3. RReads => /\ AcceptTaken
                /\ rRead >= 10
                /\ \A f \in Announced(s2r) :
                     disk[f] = [exists |-> TRUE, from |-> 0, to |-> rcv.got[f]]
  BY <1>2 DEF RReads, AcceptTaken, StoredFromStart
<1>4. CASE RAccept
  <2>1. /\ RTakes("Accept") /\ rRead' = rRead
        /\ disk' = Create(rcv.files) /\ rcv'.got = rcv.got
    BY <1>1, <1>4 DEF RAccept, RTakes, ReceiverState
  <2>2. ~AcceptTaken
    BY <2>1, AnswerIsFirst DEF Answer
  <2>3. \A i \in 1..Len(s2r) : \A f : ~ChunkOf(s2r, i, f)
    BY <2>2 DEF ConsentBeforeBytes, FileFrames, ChunkOf, IsChunk
  <2>4. \A i \in 1..rRead : i \in 1..Len(s2r)
    BY <1>1
  <2>5. rRead >= 10
    <3>1. rClicks # <<>>
      BY <1>1, <2>1 DEF RTakes
    <3>2. rcv.state \in {"WaitingForUserConsent", "ReceivingFiles"}
      BY <1>2, <3>1 DEF AlignInv, RAsked
    <3>3. RPlace(rcv.state, Len(r2s), rRead)
      BY <1>2 DEF AlignInv, RInStep
    <3>4. QED BY <1>1, <3>2, <3>3, RPlaceSecure
  <2>6. \A f \in Files : rcv.got[f] = 0
    BY <1>2, <2>3, <2>4 DEF AlignInv, Receiving
  <2>7. Announced(s2r) \subseteq rcv.files
    BY <1>2, <2>3, <2>4, <2>5 DEF AlignInv, Receiving, LastOfFile
  <2>8. rcv.files \subseteq Files
    BY <1>1 DEF ReceiverState
  <2>9. \A f \in rcv.files : disk'[f] = [exists |-> TRUE, from |-> 0, to |-> 0]
    BY <2>1, <2>6, <2>8 DEF Create
  <2>10. QED BY <2>1, <2>5, <2>6, <2>7, <2>8, <2>9
<1>5. CASE RFileChunk \/ RFileLast
  <2>1. PICK c : c = RHead.body
    OBVIOUS
  <2>2. /\ c.file \in Files /\ rRead' = rRead + 1 /\ RReads
        /\ RFileChunk => /\ disk' = WriteAll(c.file, c.len)
                         /\ rcv'.got[c.file] = rcv.got[c.file] + c.len
                         /\ \A f \in Files \ {c.file} : rcv'.got[f] = rcv.got[f]
        /\ RFileLast => disk' = disk /\ rcv'.got = rcv.got
    BY <1>5, <2>1, ChunkTaken
  <2>3. rRead' >= 10
    BY <1>1, <1>3, <2>2
  <2>4. CASE RFileLast
    BY <1>3, <2>2, <2>3, <2>4
  <2>5. CASE RFileChunk
    <3> SUFFICES ASSUME NEW f \in Announced(s2r)
                 PROVE  disk'[f] = [exists |-> TRUE, from |-> 0, to |-> rcv'.got[f]]
      BY <2>3
    <3>1. disk[f] = [exists |-> TRUE, from |-> 0, to |-> rcv.got[f]]
      BY <1>3, <2>2
    <3>2. disk' = [disk EXCEPT ![c.file] = [exists |-> @.exists, from |-> @.from,
                                            to |-> @.to + c.len]]
      BY <2>2, <2>5 DEF WriteAll
    <3>3. CASE f = c.file
      <4>1. disk'[f] = [exists |-> disk[f].exists, from |-> disk[f].from,
                        to |-> disk[f].to + c.len]
        BY <1>1, <2>2, <3>2, <3>3
      <4>2. disk[f].exists = TRUE /\ disk[f].from = 0 /\ disk[f].to = rcv.got[c.file]
        BY <3>1, <3>3
      <4>3. rcv'.got[f] = rcv.got[c.file] + c.len
        BY <2>2, <2>5, <3>3
      <4>4. QED BY <4>1, <4>2, <4>3, Zenon
    <3>4. CASE f # c.file
      <4>1. f \in Files
        <5>1. Len(s2r) >= 10
          BY <1>1, <1>3, <2>2
        <5>2. Announced(s2r) \in SUBSET Files
          BY <1>1, <5>1, AnnouncedFiles DEF AlignInv
        <5>3. QED BY <5>2
      <4>2. disk'[f] = disk[f] /\ rcv'.got[f] = rcv.got[f]
        BY <2>2, <2>5, <3>2, <3>4, <4>1
      <4>3. QED BY <3>1, <4>2
    <3>5. QED BY <3>3, <3>4
  <2>6. QED BY <1>5, <2>4, <2>5
<1>6. CASE ~RFileChunk /\ ~RFileLast /\ ~RAccept
  <2>1. RReads /\ rRead' = rRead + 1 /\ rcv'.got = rcv.got /\ disk' = disk
    BY <1>6, NoChunkTaken
  <2>2. QED BY <1>1, <1>3, <2>1
<1>7. QED BY <1>4, <1>5, <1>6

(* What the sender reports has been granted. *)
LEMMA ToldStep ==
    ASSUME TypeOK, ConsentInv, Told, SenderNext, UNCHANGED <<receiverVars, uiVars>>
    PROVE  Told'
<1>1. AcceptTaken' <=> AcceptTaken
  BY DEF AcceptTaken, receiverVars, uiVars
<1>2. CASE AcceptTaken
  BY <1>1, <1>2 DEF Told
<1>3. CASE ~AcceptTaken
  <2>1. /\ snd.buf # Response("Accept") /\ snd.state # "SendingFiles"
        /\ sPub \in Seq(State)
    BY <1>3 DEF ConsentInv, NothingGranted, TypeOK, SenderTypeOK
  <2>2. \A i \in 1..Len(sPub) : sPub[i] \notin {"SendingFiles", "Finished"}
    BY <1>3 DEF Told, Published
  <2>3. ASSUME \/ sPub' = sPub
               \/ \E x \in State \ {"SendingFiles", "Finished"} : sPub' = Append(sPub, x)
               \/ sPub' = sPub \o <<"Disconnected", "Disconnected">>
        PROVE  Told'
    <3>1. \A i \in 1..Len(sPub') : sPub'[i] \notin {"SendingFiles", "Finished"}
      <4>1. CASE sPub' = sPub
        BY <2>2, <4>1
      <4>2. ASSUME NEW x \in State \ {"SendingFiles", "Finished"}, sPub' = Append(sPub, x)
            PROVE  \A i \in 1..Len(sPub') : sPub'[i] \notin {"SendingFiles", "Finished"}
        BY <2>1, <2>2, <4>2
      <4>3. CASE sPub' = sPub \o <<"Disconnected", "Disconnected">>
        <5>1. "Disconnected" \in State
          BY DEF State
        <5>2. QED BY <2>1, <2>2, <4>3, <5>1
      <4>4. QED BY <2>3, <4>1, <4>2, <4>3
    <3>2. QED BY <3>1 DEF Told, Published
  <2>4. ~SConsentGiven
    BY <2>1 DEF SConsentGiven
  <2>5. ~SSending
    BY <2>1 DEF SSending
  <2>6. ~SSendLoop /\ ~SSourceFails
    BY <2>5 DEF SSendLoop, SNextFile, SSendLast, SReadAndSend, SFinish, SSourceFails
  <2>7. CASE \/ SConnect \/ SConnectionResponse \/ SBytesData \/ SPairedKeyEncryption
             \/ SSharingIgnored \/ SDisconnection \/ SStop
    <3>1. sPub' = sPub
      BY <2>7 DEF SConnect, SConnectionResponse, SBytesData, SPairedKeyEncryption,
                  SSharingIgnored, SDisconnection, SStop
    <3>2. QED BY <2>3, <3>1
  <2>8. CASE SServerInit \/ SPairedKeyResult \/ SCancel \/ SConnectionLost \/ SConsentDenied
    <3>1. \/ sPub' = sPub
          \/ \E x \in {"SentUkeyClientInit", "SentIntroduction", "Cancelled",
                       "Disconnected"} : sPub' = Append(sPub, x)
          \/ sPub' = sPub \o <<"Disconnected", "Disconnected">>
      BY <2>8 DEF SServerInit, SPairedKeyResult, SCancel, SConnectionLost, SConsentDenied,
                  SExitOnError
    <3>2. {"SentUkeyClientInit", "SentIntroduction", "Cancelled", "Disconnected"}
            \subseteq State \ {"SendingFiles", "Finished"}
      BY DEF State
    <3>3. QED BY <2>3, <3>1, <3>2
  <2>9. QED
    BY <2>4, <2>6, <2>7, <2>8 DEF SenderNext, SenderStep, SHandleFrame
<1>4. QED BY <1>2, <1>3

(* What holds of answers, stored files and what the sender reports. *)
AnswerInv == OneAnswer /\ Sized /\ Told

(* The second invariant holds of two fresh ends. *)
LEMMA AnswerInit ==
    ASSUME Init
    PROVE  AnswerInv
<1>1. /\ sPub = <<>> /\ rPub = <<>> /\ rClicks = <<>> /\ rTaken = 0 /\ rRead = 0
  BY DEF Init, WireInit, SenderInit, ReceiverInit
<1>2. OneClick /\ ~AcceptTaken
  BY <1>1 DEF OneClick, Clicked, AcceptTaken
<1>3. OneAnswer
  BY <1>1, <1>2 DEF OneAnswer, RejectedFirst, StoredFromStart, Published
<1>4. Sized
  BY <1>1 DEF Sized
<1>5. Told
  BY <1>1 DEF Told, Published
<1>6. QED BY <1>3, <1>4, <1>5 DEF AnswerInv

(* Every step keeps it. *)
LEMMA AnswerStep ==
    ASSUME TypeOK, AlignInv, ConsentInv, ConsentBeforeBytes, AnswerInv, [Next]_vars
    PROVE  AnswerInv'
<1>1. OneAnswer /\ Sized /\ Told
  BY DEF AnswerInv
<1>2. MaxAnswers <= 1 => OneClick'
  BY <1>1, OneClickStep DEF OneAnswer
<1>3. CASE Receiver
  <2>1. ReceiverNext /\ UNCHANGED <<senderVars, uiVars>>
    BY <1>3 DEF Receiver
  <2>2. Sized'
    BY <1>1, <2>1, SizedStep
  <2>3. Told'
    <3>1. AcceptTaken => AcceptTaken'
      BY AcceptTakenStays
    <3>2. sPub' = sPub
      BY <2>1 DEF senderVars
    <3>3. QED BY <1>1, <3>1, <3>2 DEF Told, Published
  <2>4. MaxAnswers <= 1 => RejectedFirst' /\ StoredFromStart'
    BY <1>1, <2>1, RejectedFirstStep, StoredFromStartStep DEF OneAnswer
  <2>5. QED BY <1>2, <2>2, <2>3, <2>4 DEF AnswerInv, OneAnswer
<1>4. CASE ~Receiver
  <2>1. /\ UNCHANGED receiverVars
        /\ rClicks' = rClicks
             \/ \E x \in Answer \cup {"Cancel"} : rClicks' = Append(rClicks, x)
    BY <1>4 DEF Next, Sender, FrontEnd, User, SShow, RShow, UserAnswers, SUserCancels,
                RUserCancels, Done, vars, uiVars
  <2>2. /\ rRead' = rRead /\ rUp' = rUp /\ rcv' = rcv /\ rPub' = rPub
        /\ rTaken' = rTaken /\ disk' = disk
    BY <2>1 DEF receiverVars
  <2>3. AcceptTaken' <=> AcceptTaken
    BY <2>1, <2>2, TakenStays
  <2>4. /\ rRead \in 0..Len(s2r) /\ Len(s2r) \in Nat
    BY DEF TypeOK, WireTypeOK
  <2>5. \A i \in 1..Len(s2r) : s2r'[i] = s2r[i]
    <3>1. CASE Sender
      <4>1. SenderNext /\ UNCHANGED <<receiverVars, uiVars>>
        BY <3>1 DEF Sender
      <4>2. SenderKeeps
        BY <4>1, SenderKeepsStep DEF AlignInv
      <4>3. QED BY <4>2 DEF SenderKeeps, Grows
    <3>2. CASE ~Sender
      <4>1. s2r' = s2r
        BY <1>4, <3>2 DEF Next, FrontEnd, User, SShow, RShow, UserAnswers, SUserCancels,
                          RUserCancels, Done, vars, senderVars
      <4>2. QED BY <4>1
    <3>3. QED BY <3>1, <3>2
  <2>6. Sized'
    <3>1. \A i \in 1..rRead : s2r'[i] = s2r[i]
      BY <2>4, <2>5
    <3>2. QED BY <1>1, <2>2, <3>1 DEF Sized, LastOfFile, ChunkOf, IsChunk
  <2>7. StoredFromStart => StoredFromStart'
    <3>1. rRead >= 10 => Announced(s2r') = Announced(s2r)
      BY <2>4, <2>5 DEF Announced
    <3>2. QED BY <2>2, <2>3, <3>1 DEF StoredFromStart
  <2>8. RejectedFirst => RejectedFirst'
    BY <2>2, <2>3 DEF RejectedFirst, Published
  <2>9. Told'
    <3>1. CASE Sender
      BY <1>1, <3>1, ToldStep DEF Sender
    <3>2. CASE ~Sender
      <4>1. sPub' = sPub
        BY <1>4, <3>2 DEF Next, FrontEnd, User, SShow, RShow, UserAnswers, SUserCancels,
                          RUserCancels, Done, vars, senderVars
      <4>2. QED BY <1>1, <2>3, <4>1 DEF Told, Published
    <3>3. QED BY <3>1, <3>2
  <2>10. QED BY <1>1, <1>2, <2>6, <2>7, <2>8, <2>9 DEF AnswerInv, OneAnswer
<1>5. QED BY <1>3, <1>4

(* A sender that sends has its Accept, in every behaviour. *)
LEMMA ConsentAlways == Spec => []ConsentInv
<1>1. Init => ConsentInv
  BY NotAccept DEF Init, WireInit, SenderInit, ReceiverInit, NothingGranted, ConsentInv
<1>2. TypeOK /\ ConsentInv /\ [Next]_vars => ConsentInv'
  BY ConsentInvStays
<1>3. QED BY <1>1, <1>2, TypeCorrect, PTL DEF Spec

(* It holds of every behaviour. *)
THEOREM Answered == Spec => []AnswerInv
<1>1. Init => AnswerInv
  BY AnswerInit
<1>2. TypeOK /\ AlignInv /\ ConsentInv /\ ConsentBeforeBytes /\ AnswerInv /\ [Next]_vars
        => AnswerInv'
  BY AnswerStep
<1>3. QED
  BY <1>1, <1>2, ConsentAlways, TypeCorrect, Aligned, ConsentComesFirst, PTL DEF Spec

(* Before the introduction nothing is offered; after it, what it announced. *)
LEMMA OfferedFiles ==
    ASSUME NEW log \in Seq(Frame), \A i \in 1..Len(log) : SFrame(log, i)
    PROVE  /\ \A i \in 1..Len(log) :
                log[i].kind = "SecureMessage" /\ log[i].body.type = "Bytes"
                  /\ log[i].body.frame.frame = "Introduction" => i \in {9, 10}
           /\ Len(log) >= 10 =>
                /\ Announced(log) \in SUBSET Files
                /\ \A i \in {9, 10} :
                     /\ log[i].kind = "SecureMessage" /\ log[i].body.type = "Bytes"
                     /\ log[i].body.frame.frame = "Introduction"
                     /\ log[i].body.frame.files = Announced(log)
<1>1. ASSUME NEW i \in 1..Len(log), log[i].kind = "SecureMessage",
             log[i].body.type = "Bytes", log[i].body.frame.frame = "Introduction"
      PROVE  i \in {9, 10}
  <2>1. i > 4 /\ ~(i > 10)
    BY <1>1, SFrameCases
  <2>2. i \notin {5, 6}
    <3>1. ASSUME i \in {5, 6} PROVE log[i].body.frame = PairedKeyEncryption
      BY <3>1, SFrameNamed DEF Secure, Bytes
    <3>2. QED BY <1>1, <3>1 DEF PairedKeyEncryption
  <2>3. i \notin {7, 8}
    <3>1. ASSUME i \in {7, 8} PROVE log[i].body.frame = PairedKeyResult
      BY <3>1, SFrameNamed DEF Secure, Bytes
    <3>2. QED BY <1>1, <3>1 DEF PairedKeyResult
  <2>4. QED BY <2>1, <2>2, <2>3
<1>2. ASSUME Len(log) >= 10
      PROVE  /\ Announced(log) \in SUBSET Files
             /\ \A i \in {9, 10} :
                  /\ log[i].kind = "SecureMessage" /\ log[i].body.type = "Bytes"
                  /\ log[i].body.frame.frame = "Introduction"
                  /\ log[i].body.frame.files = Announced(log)
  <2>1. PICK F \in SUBSET Files : /\ log[10] = Secure(6, Bytes(Introduction(F), TRUE))
                                  /\ log[9] = Secure(5, Bytes(Introduction(F), FALSE))
    <3>1. SFrame(log, 10)
      BY <1>2
    <3>2. QED BY <3>1, SFrameNamed
  <2>2. Announced(log) = F
    BY <2>1 DEF Announced, Secure, Bytes, Introduction
  <2>3. QED BY <2>1, <2>2 DEF Secure, Bytes, Introduction
<1>3. QED BY <1>1, <1>2

(* What a log offers. *)
IntroductionsIn(log) == {i \in 1..Len(log) : /\ log[i].kind = "SecureMessage"
                                             /\ log[i].body.type = "Bytes"
                                             /\ log[i].body.frame.frame = "Introduction"}
FilesOffered(log) == UNION {log[i].body.frame.files : i \in IntroductionsIn(log)}

(* It is nothing before the introduction, and what that announces after it. *)
LEMMA OfferedByLog ==
    ASSUME NEW log \in Seq(Frame), \A i \in 1..Len(log) : SFrame(log, i)
    PROVE  /\ Len(log) <= 8 => FilesOffered(log) = {}
           /\ Len(log) >= 10 => /\ FilesOffered(log) = Announced(log)
                                /\ FilesOffered(log) \in SUBSET Files
<1>1. IntroductionsIn(log) \subseteq {9, 10} /\ Len(log) \in Nat
  BY OfferedFiles DEF IntroductionsIn
<1>2. ASSUME Len(log) <= 8 PROVE FilesOffered(log) = {}
  <2>1. IntroductionsIn(log) = {}
    BY <1>1, <1>2 DEF IntroductionsIn
  <2>2. QED BY <2>1 DEF FilesOffered
<1>3. ASSUME Len(log) >= 10
      PROVE  FilesOffered(log) = Announced(log) /\ FilesOffered(log) \in SUBSET Files
  <2>1. IntroductionsIn(log) = {9, 10}
    BY <1>1, <1>3, OfferedFiles DEF IntroductionsIn
  <2>2. \A i \in IntroductionsIn(log) : log[i].body.frame.files = Announced(log)
    BY <1>3, <2>1, OfferedFiles
  <2>3. FilesOffered(log) = Announced(log)
    BY <2>1, <2>2 DEF FilesOffered
  <2>4. QED BY <1>3, <2>3, OfferedFiles
<1>4. QED BY <1>2, <1>3

(* The offer is that of the log of the sender, before a step and after it. *)
LEMMA OfferedIs ==
    Offered = FilesOffered(s2r) /\ Offered' = FilesOffered(s2r')
BY DEF Offered, Introductions, FilesOffered, IntroductionsIn

(* When the receiver reports Finished every file it was offered is stored   *)
(* with all its bytes: the offsets of the chunks against File::create and   *)
(* write_all.  A second Accept would create the files again.                *)
THEOREM FilesAreIntact == Spec => [](MaxAnswers <= 1 => FinishedFilesAreIntact)
<1>1. TypeOK /\ AlignInv /\ ConsentBeforeBytes /\ AnswerInv
        => (MaxAnswers <= 1 => FinishedFilesAreIntact)
  <2> SUFFICES ASSUME TypeOK, AlignInv, ConsentBeforeBytes, AnswerInv, MaxAnswers <= 1,
                      rcv.state = "Finished", NEW f \in Offered
               PROVE  Intact(f)
    BY DEF FinishedFilesAreIntact
  <2>1. rRead \in 0..Len(s2r) /\ Len(s2r) \in Nat /\ SLog
    BY DEF TypeOK, WireTypeOK, AlignInv
  <2>2. /\ rRead > 10 /\ IsChunk(s2r, rRead)
        /\ \A g \in Announced(s2r) : \E i \in 1..rRead : LastOfFile(s2r, i, g)
    BY <2>1 DEF AlignInv, Receiving
  <2>3. rRead \in 1..Len(s2r) /\ Len(s2r) >= 10
    BY <2>1, <2>2
  <2>4. AcceptTaken
    BY <2>2, <2>3 DEF ConsentBeforeBytes, FileFrames, IsChunk
  <2>5. f \in Announced(s2r) /\ f \in Files
    <3>1. s2r \in Seq(Frame) /\ \A i \in 1..Len(s2r) : SFrame(s2r, i)
      BY <2>1 DEF TypeOK, WireTypeOK, SLog
    <3>2. FilesOffered(s2r) = Announced(s2r) /\ FilesOffered(s2r) \in SUBSET Files
      BY <2>3, <3>1, OfferedByLog
    <3>3. QED BY <3>2, OfferedIs
  <2>6. rcv.got[f] = Size[f]
    BY <2>2, <2>5 DEF AnswerInv, Sized
  <2>7. disk[f] = [exists |-> TRUE, from |-> 0, to |-> rcv.got[f]]
    BY <2>4, <2>5 DEF AnswerInv, OneAnswer, StoredFromStart
  <2>8. QED BY <2>6, <2>7 DEF Intact
<1>2. QED BY <1>1, TypeCorrect, Aligned, ConsentComesFirst, Answered, PTL

(* A rejected transfer leaves no file, and the sender does not report it as *)
(* under way or finished.                                                   *)
THEOREM RejectionHolds == Spec => [](MaxAnswers <= 1 => RejectedLeavesNothing)
<1>1. ConsentBeforeBytes /\ AnswerInv => (MaxAnswers <= 1 => RejectedLeavesNothing)
  BY DEF ConsentBeforeBytes, AnswerInv, OneAnswer, RejectedFirst, Told, RejectedLeavesNothing
<1>2. QED BY <1>1, ConsentComesFirst, Answered, PTL

-----------------------------------------------------------------------------
(* Connection implements Offer.  Which phase a transfer is in, and that a   *)
(* user answers only what was asked and a task stays in the state of its    *)
(* answer.                                                                  *)

Agreed ==
    /\ rcv.state = "ReceivingFiles" => AcceptTaken
    /\ rUp /\ AcceptTaken => rcv.state = "ReceivingFiles"
    /\ Clicked(rClicks, Answer) # {} => Published(rPub, "WaitingForUserConsent")
    /\ rcv.state = "Rejected" => rRead >= 10 /\ Published(rPub, "Rejected")

(* What was published stays published. *)
LEMMA MorePublished ==
    ASSUME NEW pub \in Seq(State), NEW more \in Seq(State), NEW x,
           Published(pub, x) \/ Published(more, x)
    PROVE  Published(pub \o more, x)
<1>1. ASSUME NEW i \in 1..Len(pub), pub[i] = x PROVE Published(pub \o more, x)
  <2>1. i \in 1..Len(pub \o more) /\ (pub \o more)[i] = x
    BY <1>1
  <2>2. QED BY <2>1 DEF Published
<1>2. ASSUME NEW i \in 1..Len(more), more[i] = x PROVE Published(pub \o more, x)
  <2>1. /\ Len(pub) + i \in 1..Len(pub \o more) /\ (pub \o more)[Len(pub) + i] = x
    BY <1>2
  <2>2. QED BY <2>1 DEF Published
<1>3. QED BY <1>1, <1>2 DEF Published

(* A task that runs has not told an end. *)
LEMMA RunningState ==
    ASSUME RInStep, rUp
    PROVE  rcv.state \notin {"Rejected", "Finished", "Cancelled", "Disconnected"}
BY DEF RInStep, RPlace

(* The receiver publishes in order and takes nothing back. *)
LEMMA ReceiverPublishes ==
    ASSUME TypeOK, TypeOK', ReceiverNext
    PROVE  /\ \E more \in Seq(State) : rPub' = rPub \o more
           /\ RReject => Published(rPub', "Rejected")
<1>1. rPub \in Seq(State) /\ rcv.state \in State
  BY DEF TypeOK, ReceiverTypeOK, ReceiverState
<1>2. ASSUME rPub' = rPub PROVE \E more \in Seq(State) : rPub' = rPub \o more
  <2>1. <<>> \in Seq(State) /\ rPub = rPub \o <<>>
    BY <1>1
  <2>2. QED BY <1>2, <2>1
<1>3. ASSUME NEW x \in State, rPub' = Append(rPub, x)
      PROVE  \E more \in Seq(State) : rPub' = rPub \o more
  <2>1. <<x>> \in Seq(State) /\ Append(rPub, x) = rPub \o <<x>>
    BY <1>1
  <2>2. QED BY <1>3, <2>1
<1>4. ASSUME NEW x \in State, NEW y \in State, rPub' = rPub \o <<x, y>>
      PROVE  \E more \in Seq(State) : rPub' = rPub \o more
  <2>1. <<x, y>> \in Seq(State)
    OBVIOUS
  <2>2. QED BY <1>4, <2>1
<1>5. {"WaitingForUserConsent", "Finished", "ReceivingFiles", "Disconnected", "Rejected",
       "Cancelled"} \subseteq State
  BY DEF State
<1>6. \/ rPub' = rPub
      \/ \E x \in State : rPub' = Append(rPub, x)
      \/ \E x, y \in State : rPub' = rPub \o <<x, y>>
  <2>1. CASE \/ RConnectionRequest \/ RClientInit \/ RClientFinish \/ RConnectionResponse
             \/ RBytesData \/ RPairedKeyEncryption \/ RPairedKeyResult
             \/ REmptyIntroduction \/ RDisconnection \/ RCrash
    <3>1. rPub' = rPub
      BY <2>1 DEF RConnectionRequest, RClientInit, RClientFinish, RConnectionResponse,
                  RBytesData, RPairedKeyEncryption, RPairedKeyResult, REmptyIntroduction,
                  RDisconnection, RCrash
    <3>2. QED BY <3>1
  <2>2. CASE \/ RIntroduction \/ RFileLast \/ RAccept \/ RBadFrame \/ RConnectionLost
             \/ RAcceptFails \/ RStoreFails
    <3>1. \/ rPub' = rPub
          \/ \E x \in {"WaitingForUserConsent", "Finished", "ReceivingFiles",
                       "Disconnected"} : rPub' = Append(rPub, x)
      BY <2>2 DEF RIntroduction, RFileLast, RAccept, RBadFrame, RConnectionLost,
                  RAcceptFails, RStoreFails, RExitOnError
    <3>2. QED BY <1>5, <3>1
  <2>3. CASE RCancel \/ RReject
    <3>1. \/ \E x \in {"Cancelled", "Rejected"} : rPub' = Append(rPub, x)
          \/ \E x \in {"Cancelled", "Rejected"} : rPub' = rPub \o <<x, "Disconnected">>
      BY <2>3 DEF RCancel, RReject
    <3>2. QED BY <1>5, <3>1
  <2>4. CASE RFileChunk
    <3>1. rPub' = rPub \/ rPub' = Append(rPub, rcv.state)
      BY <2>4 DEF RFileChunk
    <3>2. QED BY <1>1, <3>1
  <2>5. QED
    BY <2>1, <2>2, <2>3, <2>4 DEF ReceiverNext, ReceiverStep, RHandleFrame, RHandleCommand
<1>7. ASSUME RReject PROVE Published(rPub', "Rejected")
  <2>1. rPub' = Append(rPub, "Rejected") \/ rPub' = rPub \o <<"Rejected", "Disconnected">>
    BY <1>7 DEF RReject
  <2>2. /\ Len(rPub) + 1 \in 1..Len(rPub') /\ rPub'[Len(rPub) + 1] = "Rejected"
    BY <1>1, <1>5, <2>1
  <2>3. QED BY <2>2 DEF Published
<1>8. QED BY <1>2, <1>3, <1>4, <1>6, <1>7

(* It holds of two fresh ends. *)
LEMMA AgreedInit ==
    ASSUME Init
    PROVE  Agreed
<1>1. rcv.state = "Initial" /\ rClicks = <<>> /\ rTaken = 0
  BY DEF Init, ReceiverInit
<1>2. Clicked(rClicks, Answer) = {} /\ ~AcceptTaken
  BY <1>1 DEF Clicked, AcceptTaken
<1>3. QED BY <1>1, <1>2 DEF Agreed

(* Every step of the receiver keeps it. *)
LEMMA AgreedReceiver ==
    ASSUME TypeOK, TypeOK', AlignInv, ConsentBeforeBytes, Agreed, ReceiverNext,
           AcceptTaken => AcceptTaken', UNCHANGED <<senderVars, uiVars>>
    PROVE  Agreed'
<1>1. /\ rUp /\ rClicks' = rClicks /\ s2r' = s2r
      /\ rcv \in ReceiverState /\ rTaken \in 0..Len(rClicks) /\ rRead \in Nat
      /\ Len(rClicks) \in Nat /\ Len(r2s) \in Nat
  BY ReceiverRuns DEF TypeOK, ReceiverTypeOK, WireTypeOK, uiVars, senderVars
<1>2. rcv.state \notin {"Rejected", "Finished", "Cancelled", "Disconnected"}
  BY <1>1, RunningState DEF AlignInv
<1>3. Clicked(rClicks', Answer) # {} => Published(rPub', "WaitingForUserConsent")
  <2>1. PICK more \in Seq(State) : rPub' = rPub \o more
    BY ReceiverPublishes
  <2>2. rPub \in Seq(State)
    BY DEF TypeOK, ReceiverTypeOK
  <2>3. QED BY <1>1, <2>1, <2>2, MorePublished DEF Agreed
<1>4. ASSUME ~rUp', rcv'.state \in {rcv.state, "Cancelled", "Finished"} PROVE Agreed'
  BY <1>2, <1>3, <1>4 DEF Agreed
<1>5. RReads => (AcceptTaken' <=> AcceptTaken)
  BY <1>1 DEF RReads, AcceptTaken
<1>6. ASSUME RReads, rcv'.state = rcv.state PROVE Agreed'
  BY <1>1, <1>2, <1>3, <1>5, <1>6 DEF Agreed
<1>7. ASSUME RReads, rcv.state # "ReceivingFiles",
             rcv'.state \notin {"ReceivingFiles", "Rejected"}
      PROVE  Agreed'
  BY <1>1, <1>3, <1>5, <1>7 DEF Agreed
<1>8. CASE \/ RCancel \/ RBadFrame \/ RConnectionLost \/ RAcceptFails \/ RStoreFails
           \/ RCrash
  <2>1. ~rUp' /\ rcv'.state \in {rcv.state, "Cancelled"}
    BY <1>1, <1>8 DEF RCancel, RBadFrame, RConnectionLost, RAcceptFails, RStoreFails,
                      RCrash, RExitOnError, ReceiverState
  <2>2. QED BY <1>4, <2>1
<1>9. CASE RBytesData \/ RDisconnection
  <2>1. RReads /\ rcv'.state = rcv.state
    BY <1>1, <1>9 DEF RBytesData, RDisconnection, RReadsSecure, ReceiverState
  <2>2. QED BY <1>6, <2>1
<1>10. CASE RFileChunk
  <2>1. RReads
    BY <1>10 DEF RFileChunk, RReadsSecure
  <2>2. PICK noted \in Nat :
          rcv' = [rcv EXCEPT !.client_seq = @ + 1,
                             !.got[RHead.body.file] = @ + RHead.body.len,
                             !.ack = rcv.ack + RHead.body.len, !.noted = noted]
    BY <1>10, ChunkCounted
  <2>3. rcv'.state = rcv.state
    BY <1>1, <2>2 DEF ReceiverState
  <2>4. QED BY <1>6, <2>1, <2>3
<1>11. CASE RFileLast
  <2>1. RReads
    BY <1>11 DEF RFileLast, RReadsSecure
  <2>2. \/ rcv'.state = rcv.state
        \/ ~rUp' /\ rcv'.state = "Finished"
    BY <1>1, <1>11 DEF RFileLast, ReceiverState
  <2>3. QED BY <1>4, <1>6, <2>1, <2>2
<1>12. CASE \/ RConnectionRequest \/ RClientInit \/ RClientFinish \/ RConnectionResponse
            \/ RPairedKeyEncryption \/ RPairedKeyResult \/ RIntroduction
            \/ REmptyIntroduction
  <2>1. /\ RReads /\ rcv.state # "ReceivingFiles"
        /\ rcv'.state \notin {"ReceivingFiles", "Rejected"}
    BY <1>1, <1>12
       DEF RConnectionRequest, RClientInit, RClientFinish, RConnectionResponse,
           RPairedKeyEncryption, RPairedKeyResult, RIntroduction, REmptyIntroduction,
           RReadsSharing, RReadsSecure, ReceiverState
  <2>2. QED BY <1>7, <2>1
<1>13. CASE RAccept
  <2>1. rcv'.state = "ReceivingFiles"
    BY <1>1, <1>13 DEF RAccept, ReceiverState
  <2>2. /\ rTaken' = rTaken + 1 /\ rTaken + 1 \in 1..rTaken'
        /\ rClicks[rTaken + 1] = "Accept"
    BY <1>1, <1>13 DEF RAccept, RTakes
  <2>3. AcceptTaken'
    BY <1>1, <2>2 DEF AcceptTaken
  <2>4. QED BY <1>3, <2>1, <2>3 DEF Agreed
<1>14. CASE RReject
  <2>1. /\ rcv'.state = "Rejected" /\ ~rUp' /\ rRead' = rRead /\ rTaken < Len(rClicks)
    BY <1>1, <1>14 DEF RReject, RTakes, ReceiverState
  <2>2. rClicks # <<>>
    BY <1>1, <2>1
  <2>3. rcv.state \in {"WaitingForUserConsent", "ReceivingFiles"}
    BY <1>1, <2>2 DEF AlignInv, RAsked
  <2>4. rRead >= 10
    BY <1>1, <2>3, RPlaceSecure DEF AlignInv, RInStep
  <2>5. Published(rPub', "Rejected")
    BY <1>14, ReceiverPublishes
  <2>6. QED BY <1>3, <2>1, <2>4, <2>5 DEF Agreed
<1>15. QED
  BY <1>8, <1>9, <1>10, <1>11, <1>12, <1>13, <1>14
     DEF ReceiverNext, ReceiverStep, RHandleFrame, RHandleCommand

(* Every other step keeps it: a user answers what the task has asked. *)
LEMMA AgreedStep ==
    ASSUME TypeOK, TypeOK', AlignInv, ConsentBeforeBytes, Agreed, [Next]_vars
    PROVE  Agreed'
<1>1. CASE Receiver
  BY <1>1, AgreedReceiver, AcceptTakenStays DEF Receiver
<1>2. CASE ~Receiver
  <2>1. /\ UNCHANGED receiverVars
        /\ rClicks' = rClicks
             \/ \E x \in Answer \cup {"Cancel"} : rClicks' = Append(rClicks, x)
    BY <1>2 DEF Next, Sender, FrontEnd, User, SShow, RShow, UserAnswers, SUserCancels,
                RUserCancels, Done, vars, uiVars
  <2>2. /\ rRead' = rRead /\ rUp' = rUp /\ rcv' = rcv /\ rPub' = rPub /\ rTaken' = rTaken
    BY <2>1 DEF receiverVars
  <2>3. AcceptTaken' <=> AcceptTaken
    BY <2>1, <2>2, TakenStays
  <2>4. /\ rClicks \in Seq(Answer \cup {"Cancel"}) /\ rPub \in Seq(State)
        /\ rSeen \in 0..Len(rPub)
    BY DEF TypeOK, ReceiverTypeOK
  <2>5. Clicked(rClicks', Answer) # {} => Published(rPub, "WaitingForUserConsent")
    <3>1. CASE rClicks' = rClicks
      BY <3>1 DEF Agreed
    <3>2. CASE \E x \in Answer : UserAnswers(x)
      <4>1. Shown(rPub, rSeen) = "WaitingForUserConsent"
        BY <3>2 DEF UserAnswers, RView
      <4>2. QED BY <2>4, <4>1, ShownIsPublished
    <3>3. CASE RUserCancels
      <4>1. rClicks' = Append(rClicks, "Cancel")
        BY <3>3 DEF RUserCancels
      <4>2. \A i \in Clicked(rClicks', Answer) : i \in Clicked(rClicks, Answer)
        <5> SUFFICES ASSUME NEW i \in 1..Len(rClicks'), rClicks'[i] \in Answer
                     PROVE  i \in 1..Len(rClicks) /\ rClicks[i] \in Answer
          BY DEF Clicked
        <5>1. /\ Len(rClicks') = Len(rClicks) + 1
              /\ rClicks'[Len(rClicks) + 1] = "Cancel"
              /\ \A j \in 1..Len(rClicks) : rClicks'[j] = rClicks[j]
          BY <2>4, <4>1
        <5>2. i # Len(rClicks) + 1
          BY <5>1 DEF Answer
        <5>3. QED BY <2>4, <5>1, <5>2
      <4>3. QED BY <4>2 DEF Agreed
    <3>4. rClicks' = rClicks \/ (\E x \in Answer : UserAnswers(x)) \/ RUserCancels
      BY <1>2 DEF Next, Sender, FrontEnd, User, SShow, RShow, SUserCancels, Done, vars,
                  uiVars
    <3>5. QED BY <3>1, <3>2, <3>3, <3>4
  <2>6. QED BY <2>2, <2>3, <2>5 DEF Agreed
<1>3. QED BY <1>1, <1>2

-----------------------------------------------------------------------------
(* The phase, the offer and what is stored, step by step. *)

Whole == {f \in Files : Intact(f)}
Claimed == Published(sPub, "Finished")

(* The phase after a step. *)
LEMMA PhaseAfter ==
    /\ rcv'.state = "Rejected" => Phase' = "refused"
    /\ rcv'.state = "Finished" => Phase' = "complete"
    /\ rcv'.state \notin {"Rejected", "Finished"} /\ ~rUp' => Phase' = "broken"
    /\ rcv'.state = "ReceivingFiles" /\ rUp' => Phase' = "granted"
    /\ rcv'.state \notin {"Rejected", "Finished", "ReceivingFiles"} /\ rUp'
         /\ Published(rPub', "WaitingForUserConsent") => Phase' = "asked"
BY DEF Phase

(* A step of Offer, or none. *)
OfferStep == [O!OfferNext]_(O!offerVars)

(* The phase alone moves, or nothing does. *)
LEMMA PhaseMoves ==
    ASSUME Offered' = Offered, Whole' = Whole, Claimed' = Claimed,
           \/ Phase' = Phase
           \/ Phase = "quiet" /\ Offered # {} /\ Phase' = "asked"
           \/ Phase = "asked" /\ Phase' \in {"granted", "refused"}
           \/ Phase \in {"quiet", "asked", "granted"} /\ Phase' = "broken"
           \/ Phase = "granted" /\ Offered \subseteq Whole /\ Phase' = "complete"
    PROVE  OfferStep
<1>1. CASE Phase' = Phase
  BY <1>1 DEF OfferStep, O!offerVars, Whole, Claimed
<1>2. CASE Phase = "quiet" /\ Offered # {} /\ Phase' = "asked"
  <2>1. O!Ask
    BY <1>2 DEF O!Ask, O!Move, Whole, Claimed
  <2>2. QED BY <2>1 DEF OfferStep, O!OfferNext
<1>3. CASE Phase = "asked" /\ Phase' = "granted"
  <2>1. O!Grant
    BY <1>3 DEF O!Grant, O!Move, Whole, Claimed
  <2>2. QED BY <2>1 DEF OfferStep, O!OfferNext
<1>4. CASE Phase = "asked" /\ Phase' = "refused"
  <2>1. O!Refuse
    BY <1>4 DEF O!Refuse, O!Move, Whole, Claimed
  <2>2. QED BY <2>1 DEF OfferStep, O!OfferNext
<1>5. CASE Phase \in {"quiet", "asked", "granted"} /\ Phase' = "broken"
  <2>1. O!Break
    BY <1>5 DEF O!Break, O!Move, Whole, Claimed
  <2>2. QED BY <2>1 DEF OfferStep, O!OfferNext
<1>6. CASE Phase = "granted" /\ Offered \subseteq Whole /\ Phase' = "complete"
  <2>1. O!Complete
    BY <1>6 DEF O!Complete, O!Move, Whole, Claimed
  <2>2. QED BY <2>1 DEF OfferStep, O!OfferNext
<1>7. QED BY <1>1, <1>2, <1>3, <1>4, <1>5, <1>6

(* An offer is made, a file is stored, or the end is claimed. *)
LEMMA OfferChanges ==
    ASSUME Phase' = Phase,
           \/ /\ Whole' = Whole /\ Claimed' = Claimed
              /\ Phase \in {"quiet", "broken"} /\ Offered = {}
              /\ Offered' \in SUBSET Files
           \/ /\ Offered' = Offered /\ Claimed' = Claimed
              /\ Phase = "granted"
              /\ \E f \in Files \cap Offered : Whole' \in {Whole, Whole \cup {f}}
           \/ /\ Offered' = Offered /\ Whole' = Whole
              /\ Phase \in {"granted", "complete", "broken"} /\ Claimed'
    PROVE  OfferStep
<1>1. CASE /\ Whole' = Whole /\ Claimed' = Claimed
           /\ Phase \in {"quiet", "broken"} /\ Offered = {}
           /\ Offered' \in SUBSET Files
  <2>1. O!Propose(Offered')
    BY <1>1 DEF O!Propose, Whole, Claimed
  <2>2. QED BY <1>1, <2>1 DEF OfferStep, O!OfferNext
<1>2. CASE /\ Offered' = Offered /\ Claimed' = Claimed /\ Phase = "granted"
           /\ \E f \in Files \cap Offered : Whole' \in {Whole, Whole \cup {f}}
  <2>1. CASE Whole' = Whole
    BY <1>2, <2>1 DEF OfferStep, O!offerVars, Whole, Claimed
  <2>2. ASSUME NEW f \in Files \cap Offered, Whole' = Whole \cup {f} PROVE OfferStep
    <3>1. O!Store(f)
      BY <1>2, <2>2 DEF O!Store, Whole, Claimed
    <3>2. QED BY <3>1 DEF OfferStep, O!OfferNext
  <2>3. QED BY <1>2, <2>1, <2>2
<1>3. CASE /\ Offered' = Offered /\ Whole' = Whole
           /\ Phase \in {"granted", "complete", "broken"} /\ Claimed'
  <2>1. O!Claim
    BY <1>3 DEF O!Claim, Whole, Claimed
  <2>2. QED BY <2>1 DEF OfferStep, O!OfferNext
<1>4. QED BY <1>1, <1>2, <1>3

(* How much the sender has written before the introduction and after it. *)
LEMMA SPlaceLengths ==
    ASSUME NEW state, NEW wrote \in Nat, NEW read \in Nat, SPlace(state, wrote, read)
    PROVE  /\ state \in {"SentIntroduction", "SendingFiles", "Finished"} => wrote >= 10
           /\ state \notin {"SentIntroduction", "SendingFiles", "Finished"} => wrote <= 8
BY DEF SPlace

(* The offer changes in one step only, which the receiver has not read. *)
LEMMA OfferIsMade ==
    ASSUME TypeOK, TypeOK', AlignInv, AlignInv', SenderNext,
           UNCHANGED <<receiverVars, uiVars>>
    PROVE  \/ Offered' = Offered
           \/ /\ Offered = {} /\ Offered' \in SUBSET Files
              /\ rRead <= 8 /\ SPairedKeyResult
<1>1. /\ s2r \in Seq(Frame) /\ s2r' \in Seq(Frame) /\ rRead \in 0..Len(s2r)
      /\ Len(s2r) \in Nat /\ Len(s2r') \in Nat /\ snd \in SenderState
      /\ sRead \in Nat /\ sRead' \in Nat
      /\ \A i \in 1..Len(s2r) : SFrame(s2r, i)
      /\ \A i \in 1..Len(s2r') : SFrame(s2r', i)
  <2>1. /\ s2r \in Seq(Frame) /\ rRead \in 0..Len(s2r) /\ snd \in SenderState
        /\ sRead \in Nat /\ Len(s2r) \in Nat
    BY DEF TypeOK, WireTypeOK, SenderTypeOK
  <2>2. s2r' \in Seq(Frame) /\ sRead' \in Nat /\ Len(s2r') \in Nat
    BY DEF TypeOK, WireTypeOK
  <2>3. \A i \in 1..Len(s2r) : SFrame(s2r, i)
    BY DEF AlignInv, SLog
  <2>4. \A i \in 1..Len(s2r') : SFrame(s2r', i)
    BY DEF AlignInv, SLog
  <2>5. QED BY <2>1, <2>2, <2>3, <2>4
<1>2. Grows(s2r, s2r')
  BY SenderKeepsStep DEF AlignInv, SenderKeeps
<1>3. CASE Len(s2r) >= 10
  <2>1. Len(s2r') >= 10 /\ s2r'[10] = s2r[10]
    BY <1>1, <1>2, <1>3 DEF Grows
  <2>2. Announced(s2r') = Announced(s2r)
    BY <2>1 DEF Announced
  <2>3. QED BY <1>1, <1>3, <2>1, <2>2, OfferedByLog, OfferedIs
<1>4. CASE s2r' = s2r
  BY <1>4, OfferedIs
<1>5. CASE Len(s2r) <= 8 /\ Len(s2r') <= 8
  BY <1>1, <1>5, OfferedByLog, OfferedIs
<1>6. sUp /\ SPlace(snd.state, Len(s2r), sRead)
  BY SenderRuns DEF AlignInv, SInStep
<1>7. CASE snd.state \in {"SentIntroduction", "SendingFiles", "Finished"}
  <2>1. Len(s2r) >= 10
    BY <1>1, <1>6, <1>7, SPlaceLengths
  <2>2. QED BY <1>3, <2>1
<1>8. CASE SPairedKeyResult
  <2>1. snd.state = "SentPairedKeyResult"
    BY <1>8 DEF SPairedKeyResult
  <2>2. Len(s2r) <= 8
    BY <1>1, <1>6, <2>1, SPlaceLengths
  <2>3. PICK missing \in SUBSET Vanishing :
          snd' = [snd EXCEPT !.state = "SentIntroduction",
                             !.client_seq = @ + 1, !.server_seq = @ + 2,
                             !.buf = NoFrame, !.todo = Files \ missing]
    BY <1>8 DEF SPairedKeyResult
  <2>4. snd'.state = "SentIntroduction" /\ sUp'
    BY <1>1, <1>6, <1>8, <2>3 DEF SPairedKeyResult, SenderState
  <2>5. SPlace(snd'.state, Len(s2r'), sRead')
    BY <2>4 DEF AlignInv, SInStep
  <2>6. Len(s2r') >= 10
    BY <1>1, <2>4, <2>5, SPlaceLengths
  <2>7. FilesOffered(s2r) = {}
    BY <1>1, <2>2, OfferedByLog
  <2>8. FilesOffered(s2r') \in SUBSET Files
    BY <1>1, <2>6, OfferedByLog
  <2>9. QED BY <1>1, <1>8, <2>2, <2>7, <2>8, OfferedIs
<1>9. CASE SConnect \/ SServerInit \/ SConnectionResponse \/ SPairedKeyEncryption
  <2>1. /\ sUp' /\ snd'.state \in {"SentUkeyClientInit", "SentUkeyClientFinish",
                                   "SentPairedKeyEncryption", "SentPairedKeyResult"}
        /\ snd.state \in {"Initial", "SentUkeyClientInit", "SentUkeyClientFinish",
                          "SentPairedKeyEncryption"}
    BY <1>1, <1>6, <1>9
       DEF SConnect, SServerInit, SConnectionResponse, SPairedKeyEncryption, SenderState
  <2>2. SPlace(snd'.state, Len(s2r'), sRead')
    BY <2>1 DEF AlignInv, SInStep
  <2>3. Len(s2r) <= 8
    BY <1>1, <1>6, <2>1, SPlaceLengths
  <2>4. Len(s2r') <= 8
    BY <1>1, <2>1, <2>2, SPlaceLengths
  <2>5. QED BY <1>5, <2>3, <2>4
<1>10. CASE SBytesData \/ SSharingIgnored \/ SDisconnection \/ SStop \/ SConnectionLost
            \/ SSourceFails \/ \E f \in Files : SNextFile(f)
  <2>1. s2r' = s2r
    BY <1>10 DEF SBytesData, SSharingIgnored, SDisconnection, SStop, SConnectionLost,
                 SSourceFails, SNextFile, SExitOnError
  <2>2. QED BY <1>4, <2>1
<1>11. CASE SConsentGiven \/ SConsentDenied
  BY <1>7, <1>11 DEF SConsentGiven, SConsentDenied
<1>12. CASE SSendLoop
  BY <1>7, <1>12 DEF SSendLoop, SNextFile, SSendLast, SReadAndSend, SFinish, SSending
<1>13. CASE SCancel
  <2>1. sTaken < Len(sClicks) /\ sTaken \in 0..Len(sClicks)
    BY <1>13 DEF SCancel, TypeOK, SenderTypeOK
  <2>2. sClicks # <<>>
    BY <2>1
  <2>3. snd.state \in {"SendingFiles", "Finished"}
    BY <1>6, <2>2 DEF AlignInv, SAsked
  <2>4. QED BY <1>7, <2>3
<1>14. QED
  BY <1>8, <1>9, <1>10, <1>11, <1>12, <1>13 DEF SenderNext, SenderStep, SHandleFrame

(* What the sender reports: Finished after its send loop only. *)
LEMMA SenderClaims ==
    ASSUME TypeOK, SenderNext
    PROVE  (Claimed' <=> Claimed) \/ (SFinish /\ Claimed')
<1>1. sPub \in Seq(State) /\ snd.state \in State
  BY DEF TypeOK, SenderTypeOK, SenderState
<1>2. CASE sPub' = sPub
  BY <1>2 DEF Claimed, Published
<1>3. ASSUME NEW x \in State \ {"Finished"}, sPub' = Append(sPub, x)
      PROVE  Claimed' <=> Claimed
  <2>1. /\ Len(sPub') = Len(sPub) + 1 /\ sPub'[Len(sPub) + 1] # "Finished"
        /\ \A i \in 1..Len(sPub) : sPub'[i] = sPub[i]
    BY <1>1, <1>3
  <2>2. \A i \in 1..(Len(sPub) + 1) : i \in 1..Len(sPub) \/ i = Len(sPub) + 1
    BY <1>1
  <2>3. \A i \in 1..Len(sPub) : i \in 1..(Len(sPub) + 1)
    BY <1>1
  <2>4. QED BY <2>1, <2>2, <2>3 DEF Claimed, Published
<1>4. CASE sPub' = sPub \o <<"Disconnected", "Disconnected">>
  <2>1. "Disconnected" \in State
    BY DEF State
  <2>2. /\ Len(sPub') = Len(sPub) + 2
        /\ sPub'[Len(sPub) + 1] # "Finished" /\ sPub'[Len(sPub) + 2] # "Finished"
        /\ \A i \in 1..Len(sPub) : sPub'[i] = sPub[i]
    BY <1>1, <1>4, <2>1
  <2>3. \A i \in 1..(Len(sPub) + 2) :
          i \in 1..Len(sPub) \/ i = Len(sPub) + 1 \/ i = Len(sPub) + 2
    BY <1>1
  <2>4. \A i \in 1..Len(sPub) : i \in 1..(Len(sPub) + 2)
    BY <1>1
  <2>5. QED BY <2>2, <2>3, <2>4 DEF Claimed, Published
<1>5. CASE SFinish
  <2>1. sPub' = Append(sPub, "Finished") /\ "Finished" \in State
    BY <1>5 DEF SFinish, State
  <2>2. Len(sPub) + 1 \in 1..Len(sPub') /\ sPub'[Len(sPub) + 1] = "Finished"
    BY <1>1, <2>1
  <2>3. Claimed'
    BY <2>2 DEF Claimed, Published
  <2>4. QED BY <1>5, <2>3
<1>6. CASE \/ SConnect \/ SConnectionResponse \/ SBytesData \/ SPairedKeyEncryption
           \/ SSharingIgnored \/ SDisconnection \/ SStop
           \/ \E f \in Files : SNextFile(f) \/ SSendLast(f)
  <2>1. sPub' = sPub
    BY <1>6 DEF SConnect, SConnectionResponse, SBytesData, SPairedKeyEncryption,
                SSharingIgnored, SDisconnection, SStop, SNextFile, SSendLast
  <2>2. QED BY <1>2, <2>1
<1>7. CASE \/ SServerInit \/ SPairedKeyResult \/ SConsentGiven \/ SCancel \/ SConnectionLost
           \/ SConsentDenied \/ SSourceFails
           \/ \E f \in Files, n \in 0..ReadBuffer : SReadAndSend(f, n)
  <2>1. \/ sPub' = sPub
        \/ \E x \in {"SentUkeyClientInit", "SentIntroduction", "SendingFiles", "Cancelled",
                     "Disconnected"} : sPub' = Append(sPub, x)
        \/ sPub' = sPub \o <<"Disconnected", "Disconnected">>
    BY <1>7 DEF SServerInit, SPairedKeyResult, SConsentGiven, SConsentDenied, SCancel,
                SConnectionLost, SSourceFails, SExitOnError, SReadAndSend
  <2>2. {"SentUkeyClientInit", "SentIntroduction", "SendingFiles", "Cancelled",
         "Disconnected"} \subseteq State \ {"Finished"}
    BY DEF State
  <2>3. QED BY <1>2, <1>3, <1>4, <2>1, <2>2
<1>8. QED
  BY <1>5, <1>6, <1>7 DEF SenderNext, SenderStep, SHandleFrame, SSendLoop

(* Every step of the sender is one of Offer. *)
LEMMA SenderOffers ==
    ASSUME TypeOK, TypeOK', AlignInv, AlignInv', ConsentInv, AnswerInv, Agreed,
           MaxAnswers <= 1, SenderNext, UNCHANGED <<receiverVars, uiVars>>
    PROVE  OfferStep
<1>1. /\ Phase' = Phase /\ Whole' = Whole
  BY DEF Phase, Published, Whole, Intact, receiverVars
<1>2. rRead \in Nat /\ Len(r2s) \in Nat /\ rUp \in BOOLEAN /\ rPub \in Seq(State)
  BY DEF TypeOK, WireTypeOK, ReceiverTypeOK
<1>3. CASE /\ Offered = {} /\ Offered' \in SUBSET Files
           /\ rRead <= 8 /\ SPairedKeyResult
  <2>1. Claimed' <=> Claimed
    <3>1. ~SFinish
      BY <1>3 DEF SFinish, SSending, SPairedKeyResult, SReadsSharing, SReadsSecure, SReads
    <3>2. QED BY <3>1, SenderClaims
  <2>2. rcv.state # "Rejected"
    BY <1>2, <1>3 DEF Agreed
  <2>3. rUp => /\ rcv.state \notin {"Finished", "ReceivingFiles"}
               /\ ~Published(rPub, "WaitingForUserConsent")
    <3>1. ASSUME rUp PROVE /\ rcv.state \notin {"Finished", "ReceivingFiles"}
                           /\ ~Published(rPub, "WaitingForUserConsent")
      <4>1. RPlace(rcv.state, Len(r2s), rRead)
        BY <3>1 DEF AlignInv, RInStep
      <4>2. rcv.state \notin {"Finished", "ReceivingFiles", "WaitingForUserConsent"}
        <5>1. ~(rRead >= 10)
          BY <1>2, <1>3
        <5>2. QED BY <1>2, <4>1, <5>1, RPlaceSecure
      <4>3. rPub = <<>>
        BY <3>1, <4>2 DEF AlignInv, RAsked
      <4>4. QED BY <4>2, <4>3 DEF Published
    <3>2. QED BY <3>1
  <2>4. rcv.state # "Finished"
    BY <1>2, <1>3 DEF AlignInv, Receiving
  <2>5. Phase \in {"quiet", "broken"}
    BY <2>2, <2>3, <2>4 DEF Phase
  <2>6. QED BY <1>1, <1>3, <2>1, <2>5, OfferChanges
<1>4. CASE Offered' = Offered
  <2>1. CASE Claimed' <=> Claimed
    BY <1>1, <1>4, <2>1, PhaseMoves
  <2>2. CASE SFinish /\ Claimed'
    <3>1. AcceptTaken
      BY <2>2 DEF SFinish, SSending, ConsentInv, NothingGranted
    <3>2. rcv.state # "Rejected"
      BY <3>1 DEF Agreed, AnswerInv, OneAnswer, RejectedFirst
    <3>3. rUp => rcv.state = "ReceivingFiles"
      BY <3>1 DEF Agreed
    <3>4. Phase \in {"granted", "complete", "broken"}
      BY <3>2, <3>3 DEF Phase
    <3>5. QED BY <1>1, <1>4, <2>2, <3>4, OfferChanges
  <2>3. QED BY <2>1, <2>2, SenderClaims
<1>5. QED BY <1>3, <1>4, OfferIsMade

(* The answer is taken when the user was asked and no file exists yet; the  *)
(* files it creates are empty.                                              *)
LEMMA AnswerMoves ==
    ASSUME TypeOK, AlignInv, ConsentBeforeBytes, AnswerInv, Agreed, MaxAnswers <= 1,
           \A f \in Files : Size[f] > 0, NEW x \in Answer, RTakes(x)
    PROVE  /\ Phase = "asked" /\ Whole = {}
           /\ \A created \in SUBSET Files : disk' = Create(created) => Whole' = {}
<1>1. /\ rTaken \in 0..Len(rClicks) /\ Len(rClicks) \in Nat
      /\ rUp /\ rTaken < Len(rClicks) /\ rClicks[rTaken + 1] = x
  BY DEF TypeOK, ReceiverTypeOK, RTakes
<1>2. ~AcceptTaken
  BY AnswerIsFirst DEF AnswerInv, OneAnswer
<1>3. rcv.state \notin {"Rejected", "Finished", "ReceivingFiles"}
  BY <1>1, <1>2, RunningState DEF Agreed, AlignInv
<1>4. Published(rPub, "WaitingForUserConsent")
  <2>1. rTaken + 1 \in Clicked(rClicks, Answer)
    BY <1>1 DEF Clicked
  <2>2. QED BY <2>1 DEF Agreed
<1>5. Phase = "asked"
  BY <1>1, <1>3, <1>4 DEF Phase
<1>6. \A f \in Files : ~disk[f].exists
  BY <1>2 DEF ConsentBeforeBytes
<1>7. Whole = {}
  BY <1>6 DEF Whole, Intact
<1>8. ASSUME NEW created \in SUBSET Files, disk' = Create(created) PROVE Whole' = {}
  <2> SUFFICES ASSUME NEW f \in Files, Intact(f)' PROVE FALSE
    BY DEF Whole
  <2>1. disk'[f].exists /\ disk'[f].from = 0 /\ disk'[f].to = Size[f]
    BY DEF Intact
  <2>2. CASE f \in created
    <3>1. disk'[f] = [exists |-> TRUE, from |-> rcv.got[f], to |-> rcv.got[f]]
      BY <1>8, <2>2 DEF Create
    <3>2. Size[f] = 0
      BY <2>1, <3>1
    <3>3. QED BY <3>2
  <2>3. CASE f \notin created
    <3>1. disk'[f] = disk[f]
      BY <1>8, <2>3 DEF Create
    <3>2. QED BY <1>6, <2>1, <3>1
  <2>4. QED BY <2>2, <2>3
<1>9. QED BY <1>5, <1>7, <1>8

(* A chunk is taken of a granted offer, and may complete its file. *)
LEMMA ChunkMoves ==
    ASSUME TypeOK, AlignInv, ConsentBeforeBytes, AnswerInv, Agreed, MaxAnswers <= 1,
           ReceiverNext, RFileChunk \/ RFileLast, NEW c, c = RHead.body
    PROVE  /\ rcv.state = "ReceivingFiles" /\ Phase = "granted"
           /\ c.file \in Files \cap Offered
           /\ RFileChunk => Whole' \in {Whole, Whole \cup {c.file}}
<1>1. /\ rcv \in ReceiverState /\ disk \in [Files -> Stored] /\ rRead \in 0..Len(s2r)
      /\ s2r \in Seq(Frame) /\ Len(s2r) \in Nat
  BY DEF TypeOK, ReceiverTypeOK, WireTypeOK
<1>2. /\ c.file \in Files /\ c.file \in Announced(s2r) /\ rRead >= 10 /\ RReads
      /\ RFileChunk => disk' = WriteAll(c.file, c.len)
  BY ChunkTaken
<1>3. /\ RHead.kind = "SecureMessage" /\ c.type = "File" /\ ChunkFits(c)
      /\ rUp /\ rRead < Len(s2r)
  BY <1>2 DEF RFileChunk, RFileLast, RReadsSecure, RReads, InSequence
<1>4. c.len \in Nat /\ rRead + 1 \in 1..Len(s2r)
  BY <1>1, <1>3, ChunkAhead DEF AlignInv
<1>5. AcceptTaken
  <2>1. rRead + 1 \in FileFrames
    BY <1>3, <1>4 DEF FileFrames, RHead
  <2>2. QED BY <2>1 DEF ConsentBeforeBytes
<1>6. rcv.state = "ReceivingFiles" /\ Phase = "granted"
  BY <1>3, <1>5 DEF Agreed, Phase
<1>7. c.file \in Offered
  <2>1. \A i \in 1..Len(s2r) : SFrame(s2r, i)
    BY DEF AlignInv, SLog
  <2>2. Len(s2r) >= 10
    BY <1>1, <1>2
  <2>3. FilesOffered(s2r) = Announced(s2r)
    BY <1>1, <2>1, <2>2, OfferedByLog
  <2>4. QED BY <1>2, <2>3, OfferedIs
<1>8. ASSUME RFileChunk PROVE Whole' \in {Whole, Whole \cup {c.file}}
  <2>1. /\ disk'[c.file] = [exists |-> disk[c.file].exists, from |-> disk[c.file].from,
                            to |-> disk[c.file].to + c.len]
        /\ \A f \in Files \ {c.file} : disk'[f] = disk[f]
    BY <1>1, <1>2, <1>8 DEF WriteAll
  <2>2. \A f \in Files \ {c.file} : f \in Whole' <=> f \in Whole
    BY <2>1 DEF Whole, Intact
  <2>3. c.file \in Whole => c.file \in Whole'
    <3> SUFFICES ASSUME Intact(c.file) PROVE Intact(c.file)'
      BY <1>2 DEF Whole
    <3>1. disk[c.file] = [exists |-> TRUE, from |-> 0, to |-> rcv.got[c.file]]
      BY <1>2, <1>3, <1>5 DEF AnswerInv, OneAnswer, StoredFromStart
    <3>2. rcv.got[c.file] = Size[c.file]
      BY <3>1 DEF Intact
    <3>3. c.len = 0
      <4>1. rcv.got[c.file] \in Nat /\ rcv.got[c.file] + c.len <= Size[c.file]
        BY <1>1, <1>2, <1>3 DEF ChunkFits, ReceiverState
      <4>2. QED BY <1>4, <3>2, <4>1
    <3>4. /\ disk'[c.file].exists /\ disk'[c.file].from = 0
          /\ disk'[c.file].to = Size[c.file] + c.len
      BY <2>1, <3>1, <3>2
    <3>5. Size[c.file] \in Nat
      BY <1>2, SizeAssumption
    <3>6. QED BY <3>3, <3>4, <3>5 DEF Intact
  <2>4. Whole \subseteq Files /\ Whole' \subseteq Files
    BY DEF Whole
  <2>5. CASE c.file \in Whole' /\ c.file \notin Whole
    <3>1. Whole' = Whole \cup {c.file}
      BY <1>2, <2>2, <2>4, <2>5
    <3>2. QED BY <3>1
  <2>6. CASE c.file \in Whole' <=> c.file \in Whole
    <3>1. Whole' = Whole
      BY <1>2, <2>2, <2>4, <2>6
    <3>2. QED BY <3>1
  <2>7. QED BY <2>3, <2>5, <2>6
<1>9. QED BY <1>2, <1>6, <1>7, <1>8

(* Every step of the receiver is one of Offer. *)
LEMMA ReceiverOffers ==
    ASSUME TypeOK, TypeOK', AlignInv, ConsentBeforeBytes, AnswerInv, Agreed,
           MaxAnswers <= 1, \A f \in Files : Size[f] > 0, FinishedFilesAreIntact',
           ReceiverNext, UNCHANGED <<senderVars, uiVars>>
    PROVE  OfferStep
<1>1. /\ rUp /\ rcv \in ReceiverState /\ rUp' \in BOOLEAN
  BY ReceiverRuns DEF TypeOK, ReceiverTypeOK, WireTypeOK
<1>2. Offered' = Offered /\ Claimed' = Claimed
  <2>1. s2r' = s2r /\ sPub' = sPub
    BY DEF senderVars
  <2>2. QED BY <2>1, OfferedIs DEF Claimed, Published
<1>3. rcv.state \notin {"Rejected", "Finished", "Cancelled"}
  BY <1>1, RunningState DEF AlignInv
<1>4. Phase \in {"quiet", "asked", "granted"}
  BY <1>1, <1>3 DEF Phase
<1>5. ASSUME disk' = disk PROVE Whole' = Whole
  BY <1>5 DEF Whole, Intact
<1>6. ASSUME ~rUp', rcv'.state \in {rcv.state, "Cancelled"}, Whole' = Whole
      PROVE  OfferStep
  <2>1. Phase' = "broken"
    BY <1>3, <1>6, PhaseAfter
  <2>2. QED BY <1>2, <1>4, <1>6, <2>1, PhaseMoves
<1>7. ASSUME rUp', rPub' = rPub, disk' = disk,
             \/ rcv'.state = rcv.state
             \/ /\ rcv.state # "ReceivingFiles"
                /\ rcv'.state \notin {"ReceivingFiles", "Rejected", "Finished"}
      PROVE  OfferStep
  <2>1. Phase' = Phase
    <3>1. CASE rcv'.state = rcv.state
      BY <1>1, <1>7, <3>1 DEF Phase
    <3>2. CASE /\ rcv.state # "ReceivingFiles"
               /\ rcv'.state \notin {"ReceivingFiles", "Rejected", "Finished"}
      BY <1>1, <1>3, <1>7, <3>2 DEF Phase
    <3>3. QED BY <1>7, <3>1, <3>2
  <2>2. QED BY <1>2, <1>5, <1>7, <2>1, PhaseMoves
<1>8. CASE RCancel \/ RBadFrame \/ RConnectionLost \/ RStoreFails \/ RCrash
  <2>1. ~rUp' /\ rcv'.state \in {rcv.state, "Cancelled"} /\ disk' = disk
    BY <1>1, <1>8 DEF RCancel, RBadFrame, RConnectionLost, RStoreFails, RCrash,
                      RExitOnError, ReceiverState
  <2>2. QED BY <1>5, <1>6, <2>1
<1>9. CASE RBytesData \/ RDisconnection
  <2>1. rUp' /\ rPub' = rPub /\ disk' = disk /\ rcv'.state = rcv.state
    BY <1>1, <1>9 DEF RBytesData, RDisconnection, RReadsSecure, RReads, ReceiverState
  <2>2. QED BY <1>7, <2>1
<1>10. CASE \/ RConnectionRequest \/ RClientInit \/ RClientFinish \/ RConnectionResponse
            \/ RPairedKeyEncryption \/ RPairedKeyResult \/ REmptyIntroduction
  <2>1. /\ rUp' /\ rPub' = rPub /\ disk' = disk /\ rcv.state # "ReceivingFiles"
        /\ rcv'.state \notin {"ReceivingFiles", "Rejected", "Finished"}
    BY <1>1, <1>10
       DEF RConnectionRequest, RClientInit, RClientFinish, RConnectionResponse,
           RPairedKeyEncryption, RPairedKeyResult, REmptyIntroduction, RReadsSharing,
           RReadsSecure, ReceiverState
  <2>2. QED BY <1>7, <2>1
<1>11. CASE RIntroduction
  <2>1. /\ RReads /\ RHead.kind = "SecureMessage" /\ RHead.body.type = "Bytes"
        /\ RHead.body.frame.frame = "Introduction" /\ RHead.body.frame.files # {}
        /\ rcv.state = "ReceivedPairedKeyResult"
        /\ rPub' = Append(rPub, "WaitingForUserConsent") /\ rUp' /\ disk' = disk
    BY <1>1, <1>11 DEF RIntroduction, RReadsSharing, RReadsSecure, InSequence
  <2>2. rcv'.state = "WaitingForUserConsent"
    BY <1>1, <1>11 DEF RIntroduction, ReceiverState
  <2>3. rRead + 1 \in Introductions
    <3>1. rRead + 1 \in 1..Len(s2r)
      BY <2>1 DEF RReads, TypeOK, WireTypeOK
    <3>2. QED BY <2>1, <3>1 DEF Introductions, RHead
  <2>4. Offered # {}
    BY <2>1, <2>3 DEF Offered, RHead
  <2>5. ~Published(rPub, "WaitingForUserConsent")
    <3>1. rPub = <<>>
      BY <1>1, <2>1 DEF AlignInv, RAsked
    <3>2. QED BY <3>1 DEF Published
  <2>6. Published(rPub', "WaitingForUserConsent")
    <3>1. rPub \in Seq(State) /\ "WaitingForUserConsent" \in State
      BY DEF TypeOK, ReceiverTypeOK, State
    <3>2. /\ Len(rPub) + 1 \in 1..Len(rPub')
          /\ rPub'[Len(rPub) + 1] = "WaitingForUserConsent"
      BY <2>1, <3>1
    <3>3. QED BY <3>2 DEF Published
  <2>7. Phase = "quiet"
    BY <1>1, <2>1, <2>5 DEF Phase
  <2>8. Phase' = "asked"
    BY <1>1, <2>1, <2>2, <2>6, PhaseAfter
  <2>9. QED BY <1>2, <1>5, <2>1, <2>4, <2>7, <2>8, PhaseMoves
<1>12. CASE RFileChunk
  <2>1. PICK noted \in Nat :
          rcv' = [rcv EXCEPT !.client_seq = @ + 1,
                             !.got[RHead.body.file] = @ + RHead.body.len,
                             !.ack = rcv.ack + RHead.body.len, !.noted = noted]
    BY <1>12, ChunkCounted
  <2>2. rcv'.state = rcv.state /\ rUp'
    BY <1>1, <1>12, <2>1 DEF RFileChunk, ReceiverState
  <2>3. PICK c : c = RHead.body
    OBVIOUS
  <2>4. /\ rcv.state = "ReceivingFiles" /\ Phase = "granted"
        /\ c.file \in Files \cap Offered /\ Whole' \in {Whole, Whole \cup {c.file}}
    BY <1>12, <2>3, ChunkMoves
  <2>5. Phase' = Phase
    BY <1>1, <2>2, <2>4, PhaseAfter
  <2>6. QED BY <1>2, <2>4, <2>5, OfferChanges
<1>13. CASE RFileLast
  <2>1. rcv.state = "ReceivingFiles" /\ Phase = "granted" /\ disk' = disk
    BY <1>13, ChunkMoves DEF RFileLast
  <2>2. \/ rcv'.state = "Finished"
        \/ rcv'.state = rcv.state /\ rUp'
    BY <1>1, <1>13 DEF RFileLast, ReceiverState
  <2>3. CASE rcv'.state = "Finished"
    <3>1. Phase' = "complete"
      BY <2>3, PhaseAfter
    <3>2. Offered \subseteq Whole
      <4>1. \A f \in Offered : Intact(f)
        <5>1. \A f \in Offered' : Intact(f)'
          BY <2>3 DEF FinishedFilesAreIntact
        <5>2. \A f : Intact(f)' <=> Intact(f)
          BY <2>1 DEF Intact
        <5>3. QED BY <1>2, <5>1, <5>2
      <4>2. Offered \subseteq Files
        <5>1. s2r \in Seq(Frame) /\ \A i \in 1..Len(s2r) : SFrame(s2r, i)
          BY DEF TypeOK, WireTypeOK, AlignInv, SLog
        <5>2. Len(s2r) >= 10
          <6>1. rRead >= 10 /\ RReads
            BY <1>13, ChunkTaken
          <6>2. QED BY <6>1 DEF RReads, TypeOK, WireTypeOK
        <5>3. QED BY <5>1, <5>2, OfferedByLog, OfferedIs
      <4>3. QED BY <4>1, <4>2 DEF Whole
    <3>3. QED BY <1>2, <1>5, <2>1, <3>1, <3>2, PhaseMoves
  <2>4. CASE rcv'.state = rcv.state /\ rUp'
    <3>1. Phase' = Phase
      BY <1>1, <2>1, <2>4, PhaseAfter
    <3>2. QED BY <1>2, <1>5, <2>1, <3>1, PhaseMoves
  <2>5. QED BY <2>2, <2>3, <2>4
<1>14. CASE RAccept
  <2>1. /\ RTakes("Accept") /\ "Accept" \in Answer /\ disk' = Create(rcv.files)
        /\ rUp'
    BY <1>1, <1>14 DEF RAccept, Answer
  <2>2. rcv'.state = "ReceivingFiles" /\ rcv.files \in SUBSET Files
    BY <1>1, <1>14 DEF RAccept, ReceiverState
  <2>3. Phase = "asked" /\ Whole' = Whole
    BY <2>1, <2>2, AnswerMoves
  <2>4. Phase' = "granted"
    BY <1>1, <2>1, <2>2, PhaseAfter
  <2>5. QED BY <1>2, <2>3, <2>4, PhaseMoves
<1>15. CASE RReject
  <2>1. RTakes("Reject") /\ "Reject" \in Answer /\ disk' = disk
    BY <1>15 DEF RReject, Answer
  <2>2. rcv'.state = "Rejected"
    BY <1>1, <1>15 DEF RReject, ReceiverState
  <2>3. Phase = "asked"
    BY <2>1, AnswerMoves
  <2>4. Phase' = "refused"
    BY <2>2, PhaseAfter
  <2>5. QED BY <1>2, <1>5, <2>1, <2>3, <2>4, PhaseMoves
<1>16. CASE RAcceptFails
  <2>1. RTakes("Accept") /\ "Accept" \in Answer /\ ~rUp' /\ rcv' = rcv
    BY <1>16 DEF RAcceptFails, RExitOnError, Answer
  <2>2. PICK created \in SUBSET rcv.files : disk' = Create(created)
    BY <1>16 DEF RAcceptFails
  <2>3. created \in SUBSET Files
    BY <1>1 DEF ReceiverState
  <2>4. Whole' = Whole
    BY <2>1, <2>2, <2>3, AnswerMoves
  <2>5. QED BY <1>6, <2>1, <2>4
<1>17. QED
  BY <1>8, <1>9, <1>10, <1>11, <1>12, <1>13, <1>14, <1>15, <1>16
     DEF ReceiverNext, ReceiverStep, RHandleFrame, RHandleCommand

(* The two ends implement the abstract offer, where the user may answer     *)
(* once and no file is empty: each step of OutboundRequest, InboundRequest, *)
(* a front end or a user is a step of Offer or changes nothing of it.  An   *)
(* empty file is whole as soon as it is created, with the Accept.           *)
THEOREM OfferIsImplemented ==
    ASSUME MaxAnswers <= 1, \A f \in Files : Size[f] > 0
    PROVE  Spec => ImplementsOffer
<1>1. Init => O!OfferInit
  <2> SUFFICES ASSUME Init PROVE O!OfferInit
    OBVIOUS
  <2>1. /\ s2r = <<>> /\ rcv.state = "Initial" /\ rUp /\ rPub = <<>> /\ sPub = <<>>
        /\ \A f \in Files : ~disk[f].exists
    BY DEF Init, WireInit, SenderInit, ReceiverInit
  <2>2. Phase = "quiet" /\ ~Published(sPub, "Finished")
    BY <2>1 DEF Phase, Published
  <2>3. Offered = {}
    BY <2>1 DEF Offered, Introductions
  <2>4. {f \in Files : Intact(f)} = {}
    BY <2>1 DEF Intact
  <2>5. QED BY <2>2, <2>3, <2>4 DEF O!OfferInit
<1>2. /\ TypeOK /\ TypeOK' /\ AlignInv /\ AlignInv' /\ ConsentInv /\ ConsentBeforeBytes
      /\ AnswerInv /\ Agreed /\ (MaxAnswers <= 1 => FinishedFilesAreIntact)'
      /\ [Next]_vars
      => [O!OfferNext]_(O!offerVars)
  <2> SUFFICES ASSUME TypeOK, TypeOK', AlignInv, AlignInv', ConsentInv,
                      ConsentBeforeBytes, AnswerInv, Agreed, FinishedFilesAreIntact',
                      [Next]_vars
               PROVE  OfferStep
    BY DEF OfferStep
  <2>1. CASE Sender
    BY <2>1, SenderOffers DEF Sender
  <2>2. CASE Receiver
    BY <2>2, ReceiverOffers DEF Receiver
  <2>3. CASE FrontEnd \/ User \/ Done \/ UNCHANGED vars
    <3>1. UNCHANGED <<senderVars, receiverVars>>
      BY <2>3 DEF FrontEnd, SShow, RShow, User, UserAnswers, SUserCancels, RUserCancels,
                  Done, vars
    <3>2. /\ s2r' = s2r /\ sPub' = sPub /\ rcv' = rcv /\ rUp' = rUp /\ rPub' = rPub
          /\ disk' = disk
      BY <3>1 DEF senderVars, receiverVars
    <3>3. Phase' = Phase /\ Whole' = Whole /\ Offered' = Offered /\ Claimed' = Claimed
      BY <3>2, OfferedIs DEF Phase, Whole, Intact, Claimed, Published
    <3>4. QED BY <3>3, PhaseMoves
  <2>4. QED BY <2>1, <2>2, <2>3 DEF Next
<1>3. Spec => []Agreed
  <2>1. Init => Agreed
    BY AgreedInit
  <2>2. /\ TypeOK /\ TypeOK' /\ AlignInv /\ ConsentBeforeBytes /\ Agreed /\ [Next]_vars
        => Agreed'
    BY AgreedStep
  <2>3. QED BY <2>1, <2>2, TypeCorrect, Aligned, ConsentComesFirst, PTL DEF Spec
<1>4. Spec => []ConsentInv
  <2>1. Init => ConsentInv
    BY NotAccept DEF Init, WireInit, SenderInit, ReceiverInit, NothingGranted, ConsentInv
  <2>2. TypeOK /\ ConsentInv /\ [Next]_vars => ConsentInv'
    BY ConsentInvStays
  <2>3. QED BY <2>1, <2>2, TypeCorrect, PTL DEF Spec
<1>5. QED
  BY <1>1, <1>2, <1>3, <1>4, TypeCorrect, Aligned, ConsentComesFirst, Answered,
     FilesAreIntact, PTL DEF Spec, ImplementsOffer, O!OfferSpec

-----------------------------------------------------------------------------
(* Nothing ends early.  Where nothing fails and nobody cancels, rejects or  *)
(* offers no file, the receiver sends no denial, so the sender goes on to   *)
(* the end, and it is done when the receiver closes.                        *)

Peaceful ==
    /\ faults = {} /\ Cancels = {} /\ Clicked(rClicks, {"Reject"}) = {}
    /\ Len(s2r) >= 10 => Announced(s2r) # {}

Denial == {Response("Reject"), Response("Unsupported")}
WithoutDenial ==
    {x \in Frame : x.kind = "SecureMessage" /\ x.body.type = "Bytes"
                     => x.body.frame \notin Denial}

Connected == State \ {"Disconnected"}

Peace ==
    /\ r2s \in Seq(WithoutDenial)
    /\ sPub \in Seq(Connected) /\ rPub \in Seq(Connected)
    /\ ~rUp => rcv.state = "Finished"
    /\ ~sUp => ~rUp /\ snd.state = "Finished"

PeaceInv == Peaceful => Peace

(* A state that was peaceful after a step was so before it. *)
LEMMA PeaceBefore ==
    ASSUME TypeOK, TypeOK', AlignInv, [Next]_vars, Peaceful'
    PROVE  Peaceful
<1>1. /\ faults' = faults
      /\ sClicks' = sClicks \/ \E x \in {"Cancel"} : sClicks' = Append(sClicks, x)
      /\ rClicks' = rClicks
           \/ \E x \in Answer \cup {"Cancel"} : rClicks' = Append(rClicks, x)
  BY DEF Next, Sender, Receiver, FrontEnd, User, SShow, RShow, UserAnswers,
         SUserCancels, RUserCancels, Done, vars, uiVars
<1>2. \A S : /\ Clicked(sClicks, S) \subseteq Clicked(sClicks', S)
             /\ Clicked(rClicks, S) \subseteq Clicked(rClicks', S)
  <2>1. \A i \in 1..Len(sClicks) : i \in 1..Len(sClicks') /\ sClicks'[i] = sClicks[i]
    <3>1. sClicks \in Seq({"Cancel"})
      BY DEF TypeOK
    <3>2. CASE sClicks' = sClicks
      BY <3>1, <3>2
    <3>3. ASSUME NEW x \in {"Cancel"}, sClicks' = Append(sClicks, x)
          PROVE  \A i \in 1..Len(sClicks) :
                    i \in 1..Len(sClicks') /\ sClicks'[i] = sClicks[i]
      BY <3>1, <3>3
    <3>4. QED BY <1>1, <3>2, <3>3
  <2>2. \A i \in 1..Len(rClicks) : i \in 1..Len(rClicks') /\ rClicks'[i] = rClicks[i]
    <3>1. rClicks \in Seq(Answer \cup {"Cancel"})
      BY DEF TypeOK
    <3>2. CASE rClicks' = rClicks
      BY <3>1, <3>2
    <3>3. ASSUME NEW x \in Answer \cup {"Cancel"}, rClicks' = Append(rClicks, x)
          PROVE  \A i \in 1..Len(rClicks) :
                    i \in 1..Len(rClicks') /\ rClicks'[i] = rClicks[i]
      BY <3>1, <3>3
    <3>4. QED BY <1>1, <3>2, <3>3
  <2>3. QED BY <2>1, <2>2 DEF Clicked
<1>3. faults = {} /\ Cancels = {} /\ Clicked(rClicks, {"Reject"}) = {}
  <2>1. faults' = {} /\ Cancels' = {} /\ Clicked(rClicks', {"Reject"}) = {}
    BY DEF Peaceful
  <2>2. Cancels' = Clicked(sClicks', {"Cancel"}) \cup Clicked(rClicks', {"Cancel"})
    BY DEF Cancels
  <2>3. QED BY <1>1, <1>2, <2>1, <2>2 DEF Cancels
<1>4. Grows(s2r, s2r')
  <2>1. CASE Sender
    BY <2>1, SenderKeepsStep DEF Sender, SenderKeeps, AlignInv
  <2>2. CASE ~Sender
    <3>1. s2r' = s2r
      BY <2>2 DEF Next, Receiver, FrontEnd, User, SShow, RShow, UserAnswers,
                  SUserCancels, RUserCancels, Done, vars, senderVars
    <3>2. QED BY <3>1 DEF Grows, TypeOK, WireTypeOK
  <2>3. QED BY <2>1, <2>2
<1>5. Len(s2r) >= 10 => Announced(s2r) # {}
  <2>1. Len(s2r) \in Nat /\ Len(s2r') \in Nat
    <3>1. s2r \in Seq(Frame) /\ s2r' \in Seq(Frame)
      BY DEF TypeOK, WireTypeOK
    <3>2. QED BY ONLY <3>1
  <2>2. Len(s2r) >= 10 => Len(s2r') >= 10 /\ s2r'[10] = s2r[10]
    BY <1>4, <2>1 DEF Grows
  <2>3. Len(s2r') >= 10 => s2r'[10].body.frame.files # {}
    BY DEF Peaceful, Announced
  <2>4. QED BY <2>2, <2>3 DEF Announced
<1>6. QED BY <1>3, <1>5 DEF Peaceful

(* The sender keeps the peace: a denial would have to be read, a click to   *)
(* be taken, and a lost connection is that of a receiver that has finished. *)
LEMMA SenderKeepsPeace ==
    ASSUME TypeOK, AlignInv, FinishedOnBothEnds, Peaceful, Peace, SenderNext,
           UNCHANGED <<receiverVars, uiVars>>
    PROVE  Peace'
<1>1. /\ sUp /\ r2s' = r2s /\ rPub' = rPub /\ rUp' = rUp /\ rcv' = rcv
      /\ snd \in SenderState /\ Len(s2r) \in Nat
  BY SenderRuns DEF receiverVars, TypeOK, WireTypeOK, SenderTypeOK
<1>2. ~SConsentDenied
  <2> SUFFICES ASSUME SConsentDenied PROVE FALSE
    OBVIOUS
  <2>1. /\ SReads /\ SHead.kind = "SecureMessage" /\ SHead.body.type = "Bytes"
        /\ SHead.body.frame \in Denial
    BY DEF SConsentDenied, SReadsSharing, SReadsSecure, InSequence, Denial
  <2>2. sRead + 1 \in 1..Len(r2s)
    BY <2>1 DEF SReads, TypeOK, WireTypeOK
  <2>3. r2s[sRead + 1] \in WithoutDenial
    BY <2>2 DEF Peace
  <2>4. QED BY <2>1, <2>3 DEF WithoutDenial, SHead
<1>3. ~SCancel
  <2> SUFFICES ASSUME SCancel PROVE FALSE
    OBVIOUS
  <2>1. sTaken + 1 \in Clicked(sClicks, {"Cancel"})
    BY DEF SCancel, Clicked, TypeOK, SenderTypeOK
  <2>2. QED BY <2>1 DEF Peaceful, Cancels
<1>4. ~SSourceFails /\ ~SStop
  BY DEF Peaceful, SSourceFails, SStop
<1>5. CASE SConnectionLost
  <2>1. ~rUp
    BY <1>5 DEF SConnectionLost, ReadFails
  <2>2. rcv.state = "Finished" /\ snd.cur = {}
    BY <2>1 DEF Peace, FinishedOnBothEnds
  <2>3. snd.state # "SendingFiles"
    BY <1>5, <2>2, Zenon DEF SConnectionLost
  <2>4. Len(s2r) > 10
    <3>1. rRead > 10 /\ rRead \in 0..Len(s2r)
      BY <2>2 DEF AlignInv, Receiving, TypeOK, WireTypeOK
    <3>2. QED BY <1>1, <3>1
  <2>5. snd.state = "Finished"
    <3>1. SPlace(snd.state, Len(s2r), sRead)
      BY <1>1 DEF AlignInv, SInStep
    <3>2. QED BY <1>1, <2>3, <2>4, <3>1, SPlaceEarly
  <2>6. sPub' = sPub /\ snd' = snd /\ ~sUp'
    BY <1>5, <2>5 DEF SConnectionLost, SExitOnError
  <2>7. QED BY <1>1, <2>1, <2>2, <2>5, <2>6 DEF Peace
<1>6. CASE SHandleFrame \/ SSendLoop \/ SConnect
  <2>1. sUp' = sUp
    BY <1>1, <1>2, <1>6
       DEF SHandleFrame, SSendLoop, SConnect, SServerInit, SConnectionResponse, SBytesData,
           SPairedKeyEncryption, SPairedKeyResult, SConsentGiven, SSharingIgnored,
           SDisconnection, SNextFile, SReadAndSend, SSendLast, SFinish
  <2>2. \/ sPub' = sPub
        \/ \E x \in {"SentUkeyClientInit", "SentIntroduction", "SendingFiles", "Finished"} :
             sPub' = Append(sPub, x)
    BY <1>2, <1>6
       DEF SHandleFrame, SSendLoop, SConnect, SServerInit, SConnectionResponse, SBytesData,
           SPairedKeyEncryption, SPairedKeyResult, SConsentGiven, SSharingIgnored,
           SDisconnection, SNextFile, SReadAndSend, SSendLast, SFinish
  <2>3. {"SentUkeyClientInit", "SentIntroduction", "SendingFiles", "Finished"}
          \subseteq Connected
    BY DEF Connected, State
  <2>4. sPub \in Seq(Connected)
    BY DEF Peace
  <2>5. sPub' \in Seq(Connected)
    BY <2>2, <2>3, <2>4, LogAppends
  <2>6. QED BY <1>1, <2>1, <2>5 DEF Peace
<1>7. QED BY <1>2, <1>3, <1>4, <1>5, <1>6 DEF SenderNext, SenderStep

(* What the receiver sends when it keeps the peace. *)
LEMMA FriendlyFrames ==
    /\ \A kind \in PlainKind : Plain(kind) \in WithoutDenial
    /\ \A seq \in Nat : Secure(seq, Disconnection) \in WithoutDenial
    /\ \A seq \in Nat, last \in BOOLEAN :
         \A frame \in {PairedKeyEncryption, PairedKeyResult, Response("Accept")} :
            Secure(seq, Bytes(frame, last)) \in WithoutDenial
<1>1. \A kind \in PlainKind : Plain(kind) \in WithoutDenial
  BY FrameTypes DEF WithoutDenial, Plain, PlainKind
<1>2. \A seq \in Nat : Secure(seq, Disconnection) \in WithoutDenial
  BY FrameTypes DEF WithoutDenial, Secure, Disconnection
<1>3. ASSUME NEW seq \in Nat, NEW last \in BOOLEAN,
             NEW frame \in {PairedKeyEncryption, PairedKeyResult, Response("Accept")}
      PROVE  Secure(seq, Bytes(frame, last)) \in WithoutDenial
  <2>1. frame \in SharingFrame
    BY DEF SharingFrame
  <2>2. Secure(seq, Bytes(frame, last)) \in Frame
    BY <2>1, FrameTypes
  <2>3. Secure(seq, Bytes(frame, last)).body.frame = frame
    BY DEF Secure, Bytes
  <2>4. frame \notin Denial
    BY DEF Denial, PairedKeyEncryption, PairedKeyResult, Response
  <2>5. QED BY <2>2, <2>3, <2>4 DEF WithoutDenial
<1>4. QED BY <1>1, <1>2, <1>3

(* The receiver keeps the peace: it runs only while the sender does, and it *)
(* refuses no frame.                                                        *)
LEMMA ReceiverKeepsPeace ==
    ASSUME TypeOK, AlignInv, Peaceful, Peace, ReceiverNext,
           UNCHANGED <<senderVars, uiVars>>
    PROVE  Peace'
<1>1. /\ rUp /\ sPub' = sPub /\ sUp' = sUp /\ snd' = snd
      /\ rcv \in ReceiverState /\ rcv.server_seq \in Nat
      /\ Len(s2r) \in Nat /\ s2r \in Seq(Frame)
  BY ReceiverRuns, WireTypes, TaskTypes DEF senderVars
<1>2. sUp /\ r2s \in Seq(WithoutDenial) /\ rPub \in Seq(Connected)
  BY <1>1 DEF Peace
<1>3. ~RReject /\ ~RCancel
  <2>1. ASSUME NEW x \in {"Reject", "Cancel"}, RTakes(x) PROVE FALSE
    <3>1. rTaken + 1 \in Clicked(rClicks, {x})
      BY <2>1 DEF RTakes, Clicked, TypeOK, ReceiverTypeOK
    <3>2. QED BY <3>1 DEF Peaceful, Cancels
  <2>2. QED BY <2>1 DEF RReject, RCancel
<1>4. ~RConnectionLost /\ ~RAcceptFails /\ ~RStoreFails /\ ~RCrash
  BY <1>2 DEF Peaceful, RConnectionLost, ReadFails, RAcceptFails, RStoreFails, RCrash
<1>5. ~RBadFrame
  <2>1. "Grown" \notin faults
    BY DEF Peaceful
  <2>2. QED BY <2>1, ReceiverAccepts DEF RBadFrame, RReads
<1>6. ~REmptyIntroduction
  <2> SUFFICES ASSUME REmptyIntroduction PROVE FALSE
    OBVIOUS
  <2>1. /\ RReads /\ RHead.body.last /\ RHead.body.frame = Introduction({})
        /\ rcv.state = "ReceivedPairedKeyResult"
    BY DEF REmptyIntroduction, RReadsSharing, RReadsSecure
  <2>2. rRead \in {8, 9}
    BY <1>1, <2>1 DEF AlignInv, RInStep, RPlace
  <2>3. rRead + 1 \in 1..Len(s2r) /\ (rRead \in {4, 6, 8} => ~RHead.body.last)
    BY <2>1, RHeadCases DEF AlignInv
  <2>4. rRead + 1 = 10 /\ Len(s2r) >= 10
    BY <1>1, <2>1, <2>2, <2>3
  <2>5. Announced(s2r) = {}
    BY <2>1, <2>4 DEF RHead, Announced, Introduction
  <2>6. QED BY <2>4, <2>5 DEF Peaceful
<1>7. r2s' \in Seq(WithoutDenial)
  <2>1. ASSUME r2s' = r2s \/ \E more \in Seq(WithoutDenial) : r2s' = r2s \o more
        PROVE  r2s' \in Seq(WithoutDenial)
    BY <1>2, <2>1, LogGrows
  <2>2. CASE RClientInit
    <3>1. Plain("ServerInit") \in WithoutDenial
      BY FriendlyFrames DEF PlainKind
    <3>2. <<Plain("ServerInit")>> \in Seq(WithoutDenial)
      BY <3>1
    <3>3. QED BY <2>1, <2>2, <3>2 DEF RClientInit
  <2>3. \A frame \in {PairedKeyEncryption, PairedKeyResult, Response("Accept")} :
            SendEncryptedFrame(rcv.server_seq, frame) \in Seq(WithoutDenial)
    BY <1>1, SendWithin, FriendlyFrames
  <2>4. CASE RConnectionResponse
    <3>1. Plain("ConnectionResponse") \in WithoutDenial
      BY FriendlyFrames DEF PlainKind
    <3>2. r2s \o <<Plain("ConnectionResponse")>> \in Seq(WithoutDenial)
      BY <1>2, <3>1
    <3>3. SendEncryptedFrame(rcv.server_seq, PairedKeyEncryption) \in Seq(WithoutDenial)
      BY <2>3
    <3>4. (r2s \o <<Plain("ConnectionResponse")>>)
             \o SendEncryptedFrame(rcv.server_seq, PairedKeyEncryption)
             \in Seq(WithoutDenial)
      BY <3>2, <3>3, LogGrows
    <3>5. QED BY <2>4, <3>4 DEF RConnectionResponse
  <2>5. CASE RPairedKeyEncryption \/ RAccept
    BY <2>1, <2>3, <2>5 DEF RPairedKeyEncryption, RAccept
  <2>6. CASE RFileLast
    <3>1. EncryptAndSend(rcv.server_seq, Disconnection) \in Seq(WithoutDenial)
      BY <1>1, SendWithin, FriendlyFrames
    <3>2. \/ r2s' = r2s
          \/ r2s' = r2s \o EncryptAndSend(rcv.server_seq, Disconnection)
      BY <2>6 DEF RFileLast
    <3>3. QED BY <2>1, <3>1, <3>2
  <2>7. CASE \/ RConnectionRequest \/ RClientFinish \/ RBytesData \/ RPairedKeyResult
             \/ RIntroduction \/ RFileChunk \/ RDisconnection
    BY <2>1, <2>7 DEF RConnectionRequest, RClientFinish, RBytesData, RPairedKeyResult,
                      RIntroduction, RFileChunk, RDisconnection
  <2>8. QED
    BY <1>3, <1>4, <1>5, <1>6, <2>2, <2>4, <2>5, <2>6, <2>7
       DEF ReceiverNext, ReceiverStep, RHandleFrame, RHandleCommand
<1>8. rPub' \in Seq(Connected)
  <2>1. rcv.state \in Connected
    BY <1>1, RunningState DEF AlignInv, Connected, ReceiverState
  <2>2. {"WaitingForUserConsent", "ReceivingFiles", "Finished"} \subseteq Connected
    BY DEF Connected, State
  <2>3. \/ rPub' = rPub
        \/ \E x \in {rcv.state, "WaitingForUserConsent", "ReceivingFiles", "Finished"} :
             rPub' = Append(rPub, x)
    BY <1>3, <1>4, <1>5, <1>6
       DEF ReceiverNext, ReceiverStep, RHandleFrame, RHandleCommand, RConnectionRequest,
           RClientInit, RClientFinish, RConnectionResponse, RBytesData,
           RPairedKeyEncryption, RPairedKeyResult, RIntroduction, RFileChunk, RFileLast,
           RDisconnection, RAccept
  <2>4. QED BY <1>2, <2>1, <2>2, <2>3, LogAppends
<1>9. ~rUp' => rcv'.state = "Finished"
  <2>1. CASE RFileLast
    BY <1>1, <2>1 DEF RFileLast, ReceiverState
  <2>2. CASE ~RFileLast
    BY <1>1, <1>3, <1>4, <1>5, <1>6, <2>2
       DEF ReceiverNext, ReceiverStep, RHandleFrame, RHandleCommand, RConnectionRequest,
           RClientInit, RClientFinish, RConnectionResponse, RBytesData,
           RPairedKeyEncryption, RPairedKeyResult, RIntroduction, RFileChunk,
           RDisconnection, RAccept, RReadsSharing, RReadsSecure, RReads
  <2>3. QED BY <2>1, <2>2
<1>10. QED BY <1>1, <1>2, <1>7, <1>8, <1>9 DEF Peace

(* Nothing ends a transfer early: where no user cancels or rejects, a file  *)
(* is offered and nothing fails, a task that has ended has finished, the    *)
(* receiver before the sender, and neither user is told of a lost           *)
(* connection, although the receiver closes its socket while frames and     *)
(* clicks are still on their way to it.                                     *)
THEOREM NothingIsCutShort == Spec => []NothingEndsEarly
<1>1. Init => PeaceInv
  <2> SUFFICES ASSUME Init PROVE Peace
    BY DEF PeaceInv
  <2>1. r2s = <<>> /\ sPub = <<>> /\ rPub = <<>> /\ sUp /\ rUp
    BY DEF Init, WireInit, SenderInit, ReceiverInit
  <2>2. QED BY <2>1 DEF Peace
<1>2. TypeOK /\ TypeOK' /\ AlignInv /\ FinishedOnBothEnds /\ PeaceInv /\ [Next]_vars
        => PeaceInv'
  <2> SUFFICES ASSUME TypeOK, TypeOK', AlignInv, FinishedOnBothEnds, PeaceInv,
                      [Next]_vars, Peaceful'
               PROVE  Peace'
    BY DEF PeaceInv
  <2>1. Peaceful /\ Peace
    BY PeaceBefore DEF PeaceInv
  <2>2. CASE Sender
    BY <2>1, <2>2, SenderKeepsPeace DEF Sender
  <2>3. CASE Receiver
    BY <2>1, <2>3, ReceiverKeepsPeace DEF Receiver
  <2>4. CASE FrontEnd \/ User \/ Done \/ UNCHANGED vars
    <3>1. UNCHANGED <<senderVars, receiverVars>>
      BY <2>4 DEF FrontEnd, SShow, RShow, User, UserAnswers, SUserCancels, RUserCancels,
                  Done, vars
    <3>2. QED BY <2>1, <3>1 DEF Peace, senderVars, receiverVars
  <2>5. QED BY <2>2, <2>3, <2>4 DEF Next
<1>3. TypeOK /\ AlignInv /\ PeaceInv => NothingEndsEarly
  <2> SUFFICES ASSUME TypeOK, AlignInv, PeaceInv,
                      faults = {}, Cancels = {}, Clicked(rClicks, {"Reject"}) = {},
                      \A i \in Introductions : s2r[i].body.frame.files # {}
               PROVE  /\ ~rUp => rcv.state = "Finished"
                      /\ ~sUp => ~rUp /\ snd.state = "Finished"
                      /\ ~Published(sPub, "Disconnected")
                      /\ ~Published(rPub, "Disconnected")
    BY DEF NothingEndsEarly
  <2>1. Len(s2r) >= 10 => Announced(s2r) # {}
    <3>1. s2r \in Seq(Frame) /\ \A i \in 1..Len(s2r) : SFrame(s2r, i)
      BY DEF TypeOK, WireTypeOK, AlignInv, SLog
    <3>2. ASSUME Len(s2r) >= 10 PROVE Announced(s2r) # {}
      <4>1. /\ s2r[10].kind = "SecureMessage" /\ s2r[10].body.type = "Bytes"
            /\ s2r[10].body.frame.frame = "Introduction"
        BY <3>1, <3>2, OfferedFiles
      <4>2. 10 \in 1..Len(s2r)
        BY <3>1, <3>2
      <4>3. 10 \in Introductions
        BY <4>1, <4>2 DEF Introductions
      <4>4. QED BY <4>3 DEF Announced
    <3>3. QED BY <3>2
  <2>2. Peace
    BY <2>1 DEF PeaceInv, Peaceful
  <2>3. \A pub \in Seq(Connected) : ~Published(pub, "Disconnected")
    BY DEF Published, Connected
  <2>4. QED BY <2>2, <2>3 DEF Peace
<1>4. QED
  BY <1>1, <1>2, <1>3, TypeCorrect, Aligned, FinishedTogether, PTL DEF Spec

-----------------------------------------------------------------------------
(* No end is untold.  A sender in state Finished has said so, which is why  *)
(* the error arm of connect() may be silent then; and while a sender runs   *)
(* that has written nothing, its receiver waits for it, so that the silence *)
(* of an Initial sender is never heard.                                     *)

EndsInv ==
    /\ sUp /\ snd.state = "Finished" => LastOf(sPub) = "Finished"
    /\ Undisturbed =>
         /\ ~sUp => LastOf(sPub) \in Terminal
         /\ ~rUp => LastOf(rPub) \in Terminal \/ rPub = <<>>
         /\ ~rUp /\ sUp => s2r # <<>>

(* A sender that ends has told an end. *)
LEMMA SenderTellsItsEnd ==
    ASSUME TypeOK, TypeOK', AlignInv, EndsInv, SenderNext, UNCHANGED <<receiverVars, uiVars>>
    PROVE  EndsInv'
<1>1. /\ sUp /\ rUp' = rUp /\ rPub' = rPub /\ faults' = faults
      /\ sPub \in Seq(State) /\ snd \in SenderState /\ snd.state \in State
      /\ Len(s2r) \in Nat /\ s2r \in Seq(Frame)
  <2>1. sUp /\ rUp' = rUp /\ rPub' = rPub /\ faults' = faults
    BY SenderRuns DEF receiverVars, uiVars
  <2>2. /\ sPub \in Seq(State) /\ snd \in SenderState
        /\ Len(s2r) \in Nat /\ s2r \in Seq(Frame)
    BY DEF TypeOK, WireTypeOK, SenderTypeOK
  <2>3. QED BY <2>1, <2>2 DEF SenderState
<1>2. {"Disconnected", "Finished", "Cancelled"} \subseteq State \cap Terminal
  BY DEF State, Terminal
<1>3. \A x \in State : LastOf(Append(sPub, x)) = x
  BY <1>1, LastOfAppend
<1>4. LastOf(sPub)' = LastOf(sPub')
  BY DEF LastOf
<1>5. snd.state = "Finished" => LastOf(sPub) = "Finished"
  BY <1>1 DEF EndsInv
<1>6. ~rUp' /\ Undisturbed' => s2r' # <<>>
  <2> SUFFICES ASSUME ~rUp', Undisturbed' PROVE s2r' # <<>>
    OBVIOUS
  <2>1. s2r # <<>>
    BY <1>1 DEF EndsInv, Undisturbed
  <2>2. Len(s2r') >= Len(s2r) /\ Len(s2r') \in Nat
    BY SenderKeepsStep DEF AlignInv, SenderKeeps, Grows, TypeOK, WireTypeOK
  <2>3. Len(s2r) > 0
    BY <1>1, <2>1
  <2>4. Len(s2r') # 0
    BY <1>1, <2>2, <2>3
  <2>5. QED BY <2>4
<1>7. ~rUp' /\ Undisturbed' => LastOf(rPub)' \in Terminal \/ rPub' = <<>>
  BY <1>1 DEF EndsInv, Undisturbed, LastOf
<1>8. snd'.state = "Finished" /\ sUp' => LastOf(sPub') = "Finished"
  <2>1. CASE SFinish
    BY <1>2, <1>3, <2>1 DEF SFinish
  <2>2. CASE \/ SConnect \/ SServerInit \/ SConnectionResponse \/ SPairedKeyEncryption
             \/ SPairedKeyResult \/ SConsentGiven \/ SCancel \/ SConsentDenied
    <3>1. snd'.state # "Finished"
      BY <1>1, <2>2 DEF SConnect, SServerInit, SConnectionResponse, SPairedKeyEncryption,
              SPairedKeyResult, SConsentGiven, SCancel, SConsentDenied, SenderState
    <3>2. QED BY <3>1
  <2>3. CASE SBytesData \/ SSharingIgnored \/ SDisconnection
    <3>1. snd'.state = snd.state /\ sPub' = sPub
      BY <1>1, <2>3 DEF SBytesData, SSharingIgnored, SDisconnection, SenderState
    <3>2. QED BY <1>5, <3>1
  <2>4. CASE \/ \E f \in Files : SNextFile(f) \/ SSendLast(f)
             \/ \E f \in Files, n \in 0..ReadBuffer : SReadAndSend(f, n)
    <3>1. snd.state = "SendingFiles"
      BY <2>4 DEF SNextFile, SSendLast, SReadAndSend, SSending
    <3>2. snd'.state = snd.state
      BY <1>1, <2>4 DEF SNextFile, SSendLast, SReadAndSend, SenderState
    <3>3. QED BY <3>1, <3>2
  <2>5. CASE SConnectionLost \/ SSourceFails \/ SStop
    BY <2>5 DEF SConnectionLost, SSourceFails, SStop, SExitOnError
  <2>6. QED
    BY <2>1, <2>2, <2>3, <2>4, <2>5 DEF SenderNext, SenderStep, SHandleFrame, SSendLoop
<1>9. ASSUME ~sUp', Undisturbed' PROVE LastOf(sPub') \in Terminal
  <2>1. CASE SCancel
    BY <1>2, <1>3, <2>1 DEF SCancel
  <2>2. CASE SConsentDenied
    <3>1. \/ sPub' = Append(sPub, "Disconnected")
          \/ sPub' = sPub \o <<"Disconnected", "Disconnected">>
      BY <2>2 DEF SConsentDenied
    <3>2. "Disconnected" \in State
      BY <1>2
    <3>3. CASE sPub' = Append(sPub, "Disconnected")
      BY <1>2, <1>3, <3>2, <3>3
    <3>4. CASE sPub' = sPub \o <<"Disconnected", "Disconnected">>
      <4>1. LastOf(sPub \o <<"Disconnected", "Disconnected">>) = "Disconnected"
        BY ONLY <1>1, <3>2, LastOfAppend
      <4>2. QED BY <1>2, <3>4, <4>1
    <3>5. QED BY <3>1, <3>3, <3>4
  <2>3. ~SStop
    BY <1>1, <1>9 DEF SStop, Undisturbed
  <2>4. CASE SConnectionLost \/ SSourceFails
    <3>1. SExitOnError
      BY <2>4 DEF SConnectionLost, SSourceFails
    <3>2. SPlace(snd.state, Len(s2r), sRead)
      BY <1>1 DEF AlignInv, SInStep
    <3>3. snd.state # "Cancelled"
      BY <3>2 DEF SPlace
    <3>4. snd.state # "Initial"
      <4> SUFFICES ASSUME snd.state = "Initial" PROVE FALSE
        OBVIOUS
      <4>1. Len(s2r) = 0
        BY <3>2 DEF SPlace
      <4>2. SConnectionLost /\ ~rUp
        BY <2>4 DEF SSourceFails, SSending, SConnectionLost, ReadFails
      <4>3. s2r # <<>>
        BY <1>1, <1>9, <4>2 DEF EndsInv, Undisturbed
      <4>4. QED BY <1>1, <4>1, <4>3
    <3>5. CASE snd.state = "Finished"
      <4>1. sPub' = sPub
        BY <3>1, <3>5 DEF SExitOnError
      <4>2. QED BY <1>2, <1>5, <3>5, <4>1
    <3>6. CASE snd.state # "Finished"
      <4>1. sPub' = Append(sPub, "Disconnected")
        BY <3>1, <3>3, <3>4, <3>6 DEF SExitOnError
      <4>2. QED BY <1>2, <1>3, <4>1
    <3>7. QED BY <3>5, <3>6
  <2>5. CASE \/ SConnect \/ SSendLoop \/ SServerInit \/ SConnectionResponse \/ SBytesData
             \/ SPairedKeyEncryption \/ SPairedKeyResult \/ SConsentGiven
             \/ SSharingIgnored \/ SDisconnection
    <3>1. sUp'
      BY <1>1, <2>5
         DEF SSendLoop, SConnect, SServerInit, SConnectionResponse, SBytesData,
             SPairedKeyEncryption, SPairedKeyResult, SConsentGiven, SSharingIgnored,
             SDisconnection, SNextFile, SReadAndSend, SSendLast, SFinish
    <3>2. QED BY <1>9, <3>1
  <2>6. QED
    BY <2>1, <2>2, <2>3, <2>4, <2>5 DEF SenderNext, SenderStep, SHandleFrame
<1>10. QED BY <1>4, <1>6, <1>7, <1>8, <1>9 DEF EndsInv

(* So has a receiver, or it has told nothing. *)
LEMMA ReceiverTellsItsEnd ==
    ASSUME TypeOK, AlignInv, EndsInv, ReceiverNext, UNCHANGED <<senderVars, uiVars>>
    PROVE  EndsInv'
<1>1. /\ rUp /\ sUp' = sUp /\ sPub' = sPub /\ snd' = snd /\ s2r' = s2r /\ faults' = faults
      /\ rPub \in Seq(State) /\ rRead \in 0..Len(s2r) /\ Len(s2r) \in Nat
  BY ReceiverRuns
     DEF senderVars, uiVars, TypeOK, WireTypeOK, ReceiverTypeOK
<1>2. /\ {"Disconnected", "Finished", "Cancelled", "Rejected"} \subseteq State
      /\ Terminal = {"Disconnected", "Finished", "Cancelled", "Rejected"}
  BY DEF State, Terminal
<1>3. \A x \in State : /\ LastOf(Append(rPub, x)) = x
                       /\ \A y \in State : LastOf(rPub \o <<y, x>>) = x
  BY <1>1, LastOfAppend
<1>4. LastOf(rPub)' = LastOf(rPub') /\ LastOf(sPub)' = LastOf(sPub)
  BY <1>1 DEF LastOf
<1>5. rUp' \/ \/ RFileLast \/ RReject \/ RCancel \/ RConnectionLost \/ RAcceptFails
              \/ RStoreFails \/ RBadFrame \/ RCrash
  BY <1>1
     DEF ReceiverNext, ReceiverStep, RHandleFrame, RHandleCommand, RConnectionRequest,
         RClientInit, RClientFinish, RConnectionResponse, RBytesData,
         RPairedKeyEncryption, RPairedKeyResult, RIntroduction, REmptyIntroduction,
         RFileChunk, RDisconnection, RAccept, RReadsSharing, RReadsSecure, RReads, RTakes
<1>6. ASSUME ~rUp', Undisturbed PROVE LastOf(rPub') \in Terminal \/ rPub' = <<>>
  <2>1. CASE RFileLast
    <3>1. rPub' = Append(rPub, "Finished")
      BY <1>1, <1>6, <2>1 DEF RFileLast
    <3>2. QED BY <1>2, <1>3, <3>1
  <2>2. CASE RReject \/ RCancel
    <3>1. PICK x \in {"Rejected", "Cancelled"} :
             rPub' = Append(rPub, x) \/ rPub' = rPub \o <<x, "Disconnected">>
      BY <2>2 DEF RReject, RCancel
    <3>2. x \in State /\ "Disconnected" \in State
      BY <1>2
    <3>3. LastOf(rPub') \in {x, "Disconnected"}
      BY <1>3, <3>1, <3>2
    <3>4. QED BY <1>2, <3>3
  <2>3. CASE RConnectionLost \/ RAcceptFails \/ RStoreFails \/ RBadFrame
    <3>1. RExitOnError
      BY <2>3 DEF RConnectionLost, RAcceptFails, RStoreFails, RBadFrame
    <3>2. CASE rcv.state = "Initial"
      <4>1. rPub = <<>>
        BY <1>1, <3>2 DEF AlignInv, RAsked
      <4>2. QED BY <3>1, <3>2, <4>1 DEF RExitOnError
    <3>3. CASE rcv.state # "Initial"
      <4>1. rcv.state # "Finished"
        BY <1>1, RunningState DEF AlignInv
      <4>2. rPub' = Append(rPub, "Disconnected")
        BY <3>1, <3>3, <4>1 DEF RExitOnError
      <4>3. QED BY <1>2, <1>3, <4>2
    <3>4. QED BY <3>2, <3>3
  <2>4. ~RCrash
    BY <1>6 DEF RCrash, Undisturbed
  <2>5. QED BY <1>5, <1>6, <2>1, <2>2, <2>3, <2>4
<1>7. ASSUME ~rUp', sUp, Undisturbed PROVE s2r # <<>>
  <2> SUFFICES ASSUME s2r = <<>> PROVE FALSE
    OBVIOUS
  <2>1. rRead = 0 /\ ~RReads
    BY <1>1 DEF RReads
  <2>2. rcv.state = "Initial"
    BY <1>1, <2>1 DEF AlignInv, RInStep, RPlace
  <2>3. \A x : ~RTakes(x)
    <3>1. rClicks = <<>>
      BY <1>1, <2>2 DEF AlignInv, RAsked
    <3>2. rTaken \in 0..Len(rClicks) /\ Len(rClicks) = 0
      BY <3>1 DEF TypeOK, ReceiverTypeOK
    <3>3. QED BY <3>2 DEF RTakes
  <2>4. ~RConnectionLost /\ ~RCrash
    BY <1>7 DEF RConnectionLost, ReadFails, RCrash, Undisturbed
  <2>5. QED
    BY <1>5, <1>7, <2>1, <2>3, <2>4
       DEF RFileLast, RReject, RCancel, RAcceptFails, RStoreFails, RBadFrame, RReadsSecure
<1>8. Undisturbed' <=> Undisturbed
  BY <1>1 DEF Undisturbed
<1>9. QED BY <1>1, <1>4, <1>6, <1>7, <1>8 DEF EndsInv

(* How transfers end, for every instance: the receiver's Finished is no     *)
(* failure for the sender, nothing ends early, and every end is told by the *)
(* task that comes to it, unless that is dropped or killed.                 *)
THEOREM EndsAreToldAlways == Spec => []EndsAreTold
<1>1. Init => EndsInv
  BY DEF Init, WireInit, SenderInit, ReceiverInit, EndsInv
<1>2. TypeOK /\ TypeOK' /\ AlignInv /\ EndsInv /\ [Next]_vars => EndsInv'
  <2> SUFFICES ASSUME TypeOK, TypeOK', AlignInv, EndsInv, [Next]_vars PROVE EndsInv'
    OBVIOUS
  <2>1. CASE Sender
    BY <2>1, SenderTellsItsEnd DEF Sender
  <2>2. CASE Receiver
    BY <2>2, ReceiverTellsItsEnd DEF Receiver
  <2>3. CASE FrontEnd \/ User \/ Done \/ UNCHANGED vars
    <3>1. UNCHANGED <<senderVars, receiverVars, faults>>
      BY <2>3 DEF FrontEnd, SShow, RShow, User, UserAnswers, SUserCancels, RUserCancels,
                  Done, vars, uiVars
    <3>2. /\ sUp' = sUp /\ rUp' = rUp /\ sPub' = sPub /\ rPub' = rPub /\ snd' = snd
          /\ s2r' = s2r /\ faults' = faults
      BY <3>1 DEF senderVars, receiverVars
    <3>3. QED BY <3>2 DEF EndsInv, Undisturbed, LastOf
  <2>4. QED BY <2>1, <2>2, <2>3 DEF Next
<1>3. EndsInv => EveryEndIsPublished
  BY DEF EndsInv, EveryEndIsPublished
<1>4. FinishedOnBothEnds /\ NothingEndsEarly /\ EveryEndIsPublished => EndsAreTold
  BY DEF EndsAreTold
<1>5. QED
  BY <1>1, <1>2, <1>3, <1>4, TypeCorrect, Aligned, FinishedTogether, NothingIsCutShort,
     PTL DEF Spec

-----------------------------------------------------------------------------
(* Both ends speak of the same answer, in every behaviour. *)
LEMMA AgreedAlways == Spec => []Agreed
<1>1. Init => Agreed
  BY AgreedInit
<1>2. /\ TypeOK /\ TypeOK' /\ AlignInv /\ ConsentBeforeBytes /\ Agreed /\ [Next]_vars
      => Agreed'
  BY AgreedStep
<1>3. QED BY <1>1, <1>2, TypeCorrect, Aligned, ConsentComesFirst, PTL DEF Spec

-----------------------------------------------------------------------------
(* The order of the reports.  What was told last is what the state says: a  *)
(* sender has told the states it has come through, but for those of the     *)
(* setup, and a receiver nothing before it asks its user.                   *)

SSaid == sUp =>
    \/ snd.state \in {"Initial", "SentUkeyClientInit"} /\ sPub = <<>>
    \/ /\ snd.state \in {"SentUkeyClientFinish", "SentPairedKeyEncryption",
                         "SentPairedKeyResult"}
       /\ LastOf(sPub) = "SentUkeyClientInit"
    \/ /\ snd.state \in {"SentIntroduction", "SendingFiles", "Finished"}
       /\ LastOf(sPub) = snd.state

RSaid == rUp =>
    \/ rPub = <<>> /\ rcv.state # "ReceivingFiles"
    \/ rcv.state \in {"WaitingForUserConsent", "ReceivingFiles"} /\ LastOf(rPub) = rcv.state

(* The receiving user cancels only what was under way, and then still is.   *)
CancelAsked ==
    /\ Clicked(rClicks, {"Cancel"}) # {} => Published(rPub, "ReceivingFiles")
    /\ Published(rPub, "ReceivingFiles") /\ rUp => rcv.state = "ReceivingFiles"

SaidInv == SSaid /\ RSaid /\ CancelAsked

(* The ways to report. *)
LEMMA ReportedCases ==
    ASSUME NEW pub, NEW next, NEW double, NEW after,
           \/ after = pub
           \/ \E x \in next : after = Append(pub, x)
           \/ \E x \in next \cap double : after = pub \o <<x, "Disconnected">>
    PROVE  after \in Reported(pub, next, double)
BY DEF Reported

(* The sender reports in order. *)
LEMMA SenderReports ==
    ASSUME TypeOK, AlignInv, SSaid, SenderNext
    PROVE  /\ SSaid'
           /\ sPub' \in Reported(sPub, SenderFollows(LastOf(sPub)), {"Disconnected"})
<1>1. sUp /\ sPub \in Seq(State) /\ snd \in SenderState
  BY SenderRuns DEF TypeOK, SenderTypeOK
<1>2. \A x \in State : LastOf(Append(sPub, x)) = x
  BY <1>1, LastOfAppend
<1>3. /\ snd.state \in {"Initial", "SentUkeyClientInit"} => LastOf(sPub) = "Initial"
      /\ snd.state \in {"SentUkeyClientFinish", "SentPairedKeyEncryption",
                        "SentPairedKeyResult"} => LastOf(sPub) = "SentUkeyClientInit"
      /\ snd.state \in {"SentIntroduction", "SendingFiles", "Finished"}
           => LastOf(sPub) = snd.state
  BY <1>1 DEF SSaid, LastOf
<1>4. snd.state \in {"Initial", "SentUkeyClientInit", "SentUkeyClientFinish",
                     "SentPairedKeyEncryption", "SentPairedKeyResult",
                     "SentIntroduction", "SendingFiles", "Finished"}
  BY <1>1 DEF SSaid
<1>5. {"SentUkeyClientInit", "SentIntroduction", "SendingFiles", "Finished"} \subseteq State
  BY DEF State
<1>6. ASSUME sPub' = sPub, snd'.state = snd.state \/ ~sUp'
      PROVE  /\ SSaid'
             /\ sPub' \in Reported(sPub, SenderFollows(LastOf(sPub)), {"Disconnected"})
  BY <1>1, <1>6, ReportedCases DEF SSaid, LastOf
<1>7. ASSUME sPub' = sPub, snd'.state \in {"SentUkeyClientFinish", "SentPairedKeyEncryption",
                                           "SentPairedKeyResult"},
             snd.state \in {"SentUkeyClientFinish", "SentPairedKeyEncryption",
                            "SentPairedKeyResult"}
      PROVE  /\ SSaid'
             /\ sPub' \in Reported(sPub, SenderFollows(LastOf(sPub)), {"Disconnected"})
  BY <1>3, <1>7, ReportedCases DEF SSaid, LastOf
<1>8. ASSUME NEW x \in SenderFollows(LastOf(sPub)), x \in State, sPub' = Append(sPub, x),
             \/ ~sUp'
             \/ x = "SentUkeyClientInit" /\ snd'.state = "SentUkeyClientFinish"
             \/ /\ x \in {"SentIntroduction", "SendingFiles", "Finished"}
                /\ snd'.state = x
      PROVE  /\ SSaid'
             /\ sPub' \in Reported(sPub, SenderFollows(LastOf(sPub)), {"Disconnected"})
  <2>1. LastOf(sPub)' = x
    BY <1>2, <1>8 DEF LastOf
  <2>2. SSaid'
    BY <1>8, <2>1 DEF SSaid
  <2>3. QED BY <1>8, <2>2, ReportedCases
<1>9. CASE SConnect
  <2>1. sPub' = sPub /\ sPub = <<>> /\ snd'.state = "SentUkeyClientInit"
    BY <1>1, <1>9 DEF SConnect, SSaid, SenderState
  <2>2. SSaid'
    BY <2>1 DEF SSaid
  <2>3. QED BY <2>1, <2>2, ReportedCases
<1>10. CASE SServerInit
  <2>1. /\ sPub' = Append(sPub, "SentUkeyClientInit")
        /\ snd'.state = "SentUkeyClientFinish" /\ LastOf(sPub) = "Initial"
    BY <1>1, <1>3, <1>10 DEF SServerInit, SenderState
  <2>2. "SentUkeyClientInit" \in SenderFollows(LastOf(sPub))
    BY <2>1 DEF SenderFollows
  <2>3. QED BY <1>5, <1>8, <2>1, <2>2
<1>11. CASE SConnectionResponse \/ SPairedKeyEncryption
  BY <1>1, <1>7, <1>11 DEF SConnectionResponse, SPairedKeyEncryption, SenderState
<1>12. CASE SPairedKeyResult
  <2>1. /\ sPub' = Append(sPub, "SentIntroduction")
        /\ snd'.state = "SentIntroduction" /\ LastOf(sPub) = "SentUkeyClientInit"
    BY <1>1, <1>3, <1>12 DEF SPairedKeyResult, SenderState
  <2>2. "SentIntroduction" \in SenderFollows(LastOf(sPub))
    BY <2>1 DEF SenderFollows
  <2>3. QED BY <1>5, <1>8, <2>1, <2>2
<1>13. CASE SConsentGiven
  <2>1. /\ sPub' = Append(sPub, "SendingFiles")
        /\ snd'.state = "SendingFiles" /\ LastOf(sPub) = "SentIntroduction"
    BY <1>1, <1>3, <1>13 DEF SConsentGiven, SenderState
  <2>2. "SendingFiles" \in SenderFollows(LastOf(sPub))
    BY <2>1 DEF SenderFollows
  <2>3. QED BY <1>5, <1>8, <2>1, <2>2
<1>14. CASE SConsentDenied
  <2>1. /\ \/ sPub' = Append(sPub, "Disconnected")
           \/ sPub' = sPub \o <<"Disconnected", "Disconnected">>
        /\ ~sUp' /\ LastOf(sPub) = "SentIntroduction"
    BY <1>3, <1>14 DEF SConsentDenied
  <2>2. "Disconnected" \in SenderFollows(LastOf(sPub))
    BY <2>1 DEF SenderFollows
  <2>3. SSaid'
    BY <2>1 DEF SSaid
  <2>4. QED BY <2>1, <2>2, <2>3, ReportedCases
<1>15. CASE SBytesData \/ SSharingIgnored \/ SDisconnection
  <2>1. sPub' = sPub /\ snd'.state = snd.state
    BY <1>1, <1>15 DEF SBytesData, SSharingIgnored, SDisconnection, SenderState
  <2>2. QED BY <1>6, <2>1
<1>16. CASE \E f \in Files : SNextFile(f) \/ SSendLast(f)
  <2>1. sPub' = sPub /\ snd'.state = snd.state
    BY <1>1, <1>16 DEF SNextFile, SSendLast, SenderState
  <2>2. QED BY <1>6, <2>1
<1>17. CASE \E f \in Files, n \in 0..ReadBuffer : SReadAndSend(f, n)
  <2>1. /\ sPub' = sPub \/ sPub' = Append(sPub, "SendingFiles")
        /\ snd.state = "SendingFiles" /\ LastOf(sPub) = "SendingFiles"
    BY <1>3, <1>17 DEF SReadAndSend, SSending
  <2>2. snd'.state = snd.state
    BY <1>1, <1>17 DEF SReadAndSend, SenderState
  <2>3. "SendingFiles" \in SenderFollows(LastOf(sPub))
    BY <2>1 DEF SenderFollows
  <2>4. QED BY <1>5, <1>6, <1>8, <2>1, <2>2, <2>3
<1>18. CASE SFinish
  <2>1. /\ sPub' = Append(sPub, "Finished")
        /\ snd'.state = "Finished" /\ LastOf(sPub) = "SendingFiles"
    BY <1>1, <1>3, <1>18 DEF SFinish, SSending, SenderState
  <2>2. "Finished" \in SenderFollows(LastOf(sPub))
    BY <2>1 DEF SenderFollows
  <2>3. QED BY <1>5, <1>8, <2>1, <2>2
<1>19. CASE SCancel
  <2>1. sPub' = Append(sPub, "Cancelled") /\ ~sUp' /\ snd.state # "SendingFiles"
    BY <1>19 DEF SCancel
  <2>2. sClicks # <<>>
    BY <1>19 DEF SCancel, TypeOK, SenderTypeOK
  <2>3. snd.state = "Finished"
    BY <1>1, <2>1, <2>2 DEF AlignInv, SAsked
  <2>4. "Cancelled" \in SenderFollows(LastOf(sPub))
    BY <1>3, <2>3 DEF SenderFollows
  <2>5. SSaid'
    BY <2>1 DEF SSaid
  <2>6. QED BY <2>1, <2>4, <2>5, ReportedCases
<1>20. CASE SConnectionLost \/ SSourceFails
  <2>1. SExitOnError
    BY <1>20 DEF SConnectionLost, SSourceFails
  <2>2. ~sUp' /\ (\/ sPub' = sPub
                  \/ snd.state # "Finished" /\ sPub' = Append(sPub, "Disconnected"))
    BY <2>1 DEF SExitOnError
  <2>3. SSaid'
    BY <2>2 DEF SSaid
  <2>4. snd.state # "Finished" => "Disconnected" \in SenderFollows(LastOf(sPub))
    <3>1. snd.state # "Finished" => LastOf(sPub) \in {"Initial", "SentUkeyClientInit",
                                                      "SentIntroduction", "SendingFiles"}
      BY <1>3, <1>4
    <3>2. QED BY <3>1 DEF SenderFollows
  <2>5. QED BY <2>2, <2>3, <2>4, ReportedCases
<1>21. CASE SStop
  <2>1. sPub' = sPub /\ ~sUp'
    BY <1>21 DEF SStop
  <2>2. QED BY <1>6, <2>1
<1>22. QED
  BY <1>9, <1>10, <1>11, <1>12, <1>13, <1>14, <1>15, <1>16, <1>17, <1>18, <1>19, <1>20,
     <1>21 DEF SenderNext, SenderStep, SHandleFrame, SSendLoop

(* The receiver reports in order. *)
LEMMA ReceiverReports ==
    ASSUME TypeOK, AlignInv, ConsentBeforeBytes, Agreed, RSaid, CancelAsked, ReceiverNext
    PROVE  /\ RSaid'
           /\ Published(rPub', "ReceivingFiles") /\ rUp' => rcv'.state = "ReceivingFiles"
           /\ rPub' \in Reported(rPub, ReceiverFollows(LastOf(rPub)),
                                 {"Rejected", "Cancelled"})
<1>1. rUp /\ rPub \in Seq(State) /\ rcv \in ReceiverState
  BY ReceiverRuns DEF TypeOK, ReceiverTypeOK
<1>2. \A x \in State : LastOf(Append(rPub, x)) = x
  BY <1>1, LastOfAppend
<1>3. \/ rPub = <<>> /\ rcv.state # "ReceivingFiles" /\ LastOf(rPub) = "Initial"
      \/ /\ rcv.state \in {"WaitingForUserConsent", "ReceivingFiles"}
         /\ LastOf(rPub) = rcv.state
  BY <1>1 DEF RSaid, LastOf
<1>4. {"WaitingForUserConsent", "ReceivingFiles"} \subseteq State
  BY DEF State
<1> DEFINE Goal ==
      /\ RSaid'
      /\ Published(rPub', "ReceivingFiles") /\ rUp' => rcv'.state = "ReceivingFiles"
      /\ rPub' \in Reported(rPub, ReceiverFollows(LastOf(rPub)), {"Rejected", "Cancelled"})
<1>5. ASSUME rPub' = rPub, rcv'.state = rcv.state PROVE Goal
  BY <1>1, <1>3, <1>5, ReportedCases DEF RSaid, LastOf, CancelAsked
<1>6. ASSUME rPub' = rPub, rPub = <<>>, rcv'.state # "ReceivingFiles" PROVE Goal
  BY <1>6, ReportedCases DEF RSaid, Published
<1>7. ASSUME ~rUp', \/ rPub' = rPub
                    \/ \E x \in ReceiverFollows(LastOf(rPub)) : rPub' = Append(rPub, x)
                    \/ \E x \in ReceiverFollows(LastOf(rPub)) \cap {"Rejected", "Cancelled"} :
                         rPub' = rPub \o <<x, "Disconnected">>
      PROVE  Goal
  BY <1>7, ReportedCases DEF RSaid
<1>8. ASSUME rPub' = Append(rPub, "ReceivingFiles"), rcv'.state = "ReceivingFiles",
             rcv.state \in {"WaitingForUserConsent", "ReceivingFiles"},
             LastOf(rPub) = rcv.state
      PROVE  Goal
  <2>1. LastOf(rPub)' = "ReceivingFiles"
    BY <1>2, <1>4, <1>8 DEF LastOf
  <2>2. "ReceivingFiles" \in ReceiverFollows(LastOf(rPub))
    BY <1>8 DEF ReceiverFollows
  <2>3. RSaid'
    BY <1>8, <2>1 DEF RSaid
  <2>4. QED BY <1>8, <2>2, <2>3, ReportedCases
<1>9. CASE \/ RConnectionRequest \/ RClientInit \/ RClientFinish \/ RConnectionResponse
           \/ RPairedKeyEncryption \/ RPairedKeyResult \/ REmptyIntroduction
  <2>1. /\ rPub' = rPub /\ rcv'.state # "ReceivingFiles"
        /\ rcv.state \notin {"WaitingForUserConsent", "ReceivingFiles"}
    BY <1>1, <1>9
       DEF RConnectionRequest, RClientInit, RClientFinish, RConnectionResponse,
           RPairedKeyEncryption, RPairedKeyResult, REmptyIntroduction, ReceiverState
  <2>2. QED BY <1>3, <1>6, <2>1
<1>10. CASE RBytesData \/ RDisconnection
  <2>1. rPub' = rPub /\ rcv'.state = rcv.state
    BY <1>1, <1>10 DEF RBytesData, RDisconnection, ReceiverState
  <2>2. QED BY <1>5, <2>1
<1>11. CASE RIntroduction
  <2>1. /\ rPub' = Append(rPub, "WaitingForUserConsent")
        /\ rcv'.state = "WaitingForUserConsent" /\ rcv.state = "ReceivedPairedKeyResult"
    BY <1>1, <1>11 DEF RIntroduction, ReceiverState
  <2>2. rPub = <<>> /\ LastOf(rPub) = "Initial"
    BY <1>3, <2>1
  <2>3. LastOf(rPub)' = "WaitingForUserConsent"
    BY <1>2, <1>4, <2>1 DEF LastOf
  <2>4. RSaid'
    BY <2>1, <2>3 DEF RSaid
  <2>5. ~Published(rPub', "ReceivingFiles")
    <3>1. rPub' = <<"WaitingForUserConsent">>
      BY <2>1, <2>2
    <3>2. QED BY <3>1 DEF Published
  <2>6. "WaitingForUserConsent" \in ReceiverFollows(LastOf(rPub))
    BY <2>2 DEF ReceiverFollows
  <2>7. QED BY <2>1, <2>4, <2>5, <2>6, ReportedCases
<1>12. ASSUME RFileChunk \/ RFileLast
       PROVE  rcv.state = "ReceivingFiles" /\ LastOf(rPub) = "ReceivingFiles"
  <2>1. /\ RHead.kind = "SecureMessage" /\ RHead.body.type = "File" /\ rRead < Len(s2r)
    BY <1>12 DEF RFileChunk, RFileLast, RReadsSecure, RReads, InSequence
  <2>2. rRead + 1 \in FileFrames
    <3>1. rRead + 1 \in 1..Len(s2r)
      BY <2>1 DEF TypeOK, WireTypeOK
    <3>2. QED BY <2>1, <3>1 DEF FileFrames, RHead
  <2>3. AcceptTaken
    BY <2>2 DEF ConsentBeforeBytes
  <2>4. QED BY <1>1, <1>3, <2>3 DEF Agreed
<1>13. CASE RFileChunk
  <2>1. rPub' = rPub \/ rPub' = Append(rPub, rcv.state)
    BY <1>13 DEF RFileChunk
  <2>2. rcv'.state = rcv.state
    <3>1. PICK noted \in Nat :
            rcv' = [rcv EXCEPT !.client_seq = @ + 1,
                               !.got[RHead.body.file] = @ + RHead.body.len,
                               !.ack = rcv.ack + RHead.body.len, !.noted = noted]
      BY <1>13, ChunkCounted
    <3>2. QED BY <1>1, <3>1 DEF ReceiverState
  <2>3. CASE rPub' = rPub
    BY <1>5, <2>2, <2>3
  <2>4. CASE rPub' = Append(rPub, rcv.state)
    BY <1>8, <1>12, <1>13, <2>2, <2>4
  <2>5. QED BY <2>1, <2>3, <2>4
<1>14. CASE RFileLast
  <2>1. \/ rPub' = rPub /\ rcv'.state = rcv.state
        \/ rPub' = Append(rPub, "Finished") /\ ~rUp'
    BY <1>1, <1>14 DEF RFileLast, ReceiverState
  <2>2. "Finished" \in ReceiverFollows(LastOf(rPub))
    BY <1>12, <1>14 DEF ReceiverFollows
  <2>3. CASE rPub' = rPub /\ rcv'.state = rcv.state
    BY <1>5, <2>3
  <2>4. CASE rPub' = Append(rPub, "Finished") /\ ~rUp'
    BY <1>7, <2>2, <2>4
  <2>5. QED BY <2>1, <2>3, <2>4
<1>15. ASSUME NEW x, RTakes(x)
       PROVE  /\ rcv.state \in {"WaitingForUserConsent", "ReceivingFiles"}
              /\ LastOf(rPub) = rcv.state
              /\ x = "Cancel" => rcv.state = "ReceivingFiles"
  <2>1. rTaken + 1 \in 1..Len(rClicks) /\ rClicks[rTaken + 1] = x
    BY <1>15 DEF RTakes, TypeOK, ReceiverTypeOK
  <2>2. rClicks # <<>>
    BY <2>1
  <2>3. rPub # <<>>
    BY <2>2 DEF AlignInv, RAsked
  <2>4. x = "Cancel" => rTaken + 1 \in Clicked(rClicks, {"Cancel"})
    BY <2>1 DEF Clicked
  <2>5. x = "Cancel" => rcv.state = "ReceivingFiles"
    BY <1>1, <2>4 DEF CancelAsked
  <2>6. QED BY <1>3, <2>3, <2>5
<1>16. CASE RAccept
  <2>1. /\ RTakes("Accept") /\ rPub' = Append(rPub, "ReceivingFiles")
    BY <1>16 DEF RAccept
  <2>2. rcv'.state = "ReceivingFiles"
    BY <1>1, <1>16 DEF RAccept, ReceiverState
  <2>3. QED BY <1>8, <1>15, <2>1, <2>2
<1>17. CASE RReject
  <2>1. /\ RTakes("Reject") /\ ~rUp'
        /\ \/ rPub' = Append(rPub, "Rejected")
           \/ rPub' = rPub \o <<"Rejected", "Disconnected">>
    BY <1>17 DEF RReject
  <2>2. "Rejected" \in ReceiverFollows(LastOf(rPub))
    BY <1>15, <2>1 DEF ReceiverFollows
  <2>3. QED BY <1>7, <2>1, <2>2
<1>18. CASE RCancel
  <2>1. /\ RTakes("Cancel") /\ ~rUp'
        /\ \/ rPub' = Append(rPub, "Cancelled")
           \/ rPub' = rPub \o <<"Cancelled", "Disconnected">>
    BY <1>18 DEF RCancel
  <2>2. "Cancelled" \in ReceiverFollows(LastOf(rPub))
    BY <1>15, <2>1 DEF ReceiverFollows
  <2>3. QED BY <1>7, <2>1, <2>2
<1>19. CASE RConnectionLost \/ RAcceptFails \/ RStoreFails \/ RBadFrame
  <2>1. RExitOnError
    BY <1>19 DEF RConnectionLost, RAcceptFails, RStoreFails, RBadFrame
  <2>2. ~rUp' /\ (rPub' = rPub \/ rPub' = Append(rPub, "Disconnected"))
    BY <2>1 DEF RExitOnError
  <2>3. "Disconnected" \in ReceiverFollows(LastOf(rPub))
    <3>1. LastOf(rPub) \in {"Initial", "WaitingForUserConsent", "ReceivingFiles"}
      BY <1>3
    <3>2. QED BY <3>1 DEF ReceiverFollows
  <2>4. QED BY <1>7, <2>2, <2>3
<1>20. CASE RCrash
  <2>1. ~rUp' /\ rPub' = rPub
    BY <1>20 DEF RCrash
  <2>2. QED BY <1>7, <2>1
<1>21. Goal
  BY <1>9, <1>10, <1>11, <1>13, <1>14, <1>16, <1>17, <1>18, <1>19, <1>20
     DEF ReceiverNext, ReceiverStep, RHandleFrame, RHandleCommand
<1>22. QED BY <1>21

(* What was published stays published when a receiver reports. *)
LEMMA CancelStaysAsked ==
    ASSUME TypeOK, TypeOK', CancelAsked, ReceiverNext, rClicks' = rClicks
    PROVE  Clicked(rClicks, {"Cancel"})' # {} => Published(rPub', "ReceivingFiles")
<1>1. PICK more \in Seq(State) : rPub' = rPub \o more
  BY ReceiverPublishes
<1>2. rPub \in Seq(State)
  BY DEF TypeOK, ReceiverTypeOK
<1>3. Published(rPub, "ReceivingFiles") => Published(rPub', "ReceivingFiles")
  BY <1>1, <1>2, MorePublished
<1>4. Clicked(rClicks, {"Cancel"})' = Clicked(rClicks, {"Cancel"})
  BY DEF Clicked
<1>5. QED BY <1>3, <1>4 DEF CancelAsked

(* A user who cancels sees a transfer under way. *)
LEMMA CancelsAreAsked ==
    ASSUME TypeOK, CancelAsked, FrontEnd \/ User
    PROVE  CancelAsked'
<1>1. /\ rPub' = rPub /\ rUp' = rUp /\ rcv' = rcv
      /\ rPub \in Seq(State) /\ rSeen \in 0..Len(rPub)
      /\ rClicks \in Seq(Answer \cup {"Cancel"})
  <2>1. rPub' = rPub /\ rUp' = rUp /\ rcv' = rcv
    BY DEF FrontEnd, User, SShow, RShow, UserAnswers, SUserCancels, RUserCancels,
           receiverVars
  <2>2. QED BY <2>1 DEF TypeOK, ReceiverTypeOK
<1>2. CASE RUserCancels
  <2>1. Shown(rPub, rSeen) = "ReceivingFiles"
    BY <1>2 DEF RUserCancels, RView
  <2>2. Published(rPub, "ReceivingFiles")
    BY <1>1, <2>1, ShownIsPublished
  <2>3. QED BY <1>1, <2>2 DEF CancelAsked
<1>3. CASE ~RUserCancels
  <2>1. rClicks' = rClicks \/ \E x \in Answer : rClicks' = Append(rClicks, x)
    BY <1>3 DEF FrontEnd, User, SShow, RShow, UserAnswers, SUserCancels
  <2>2. Clicked(rClicks', {"Cancel"}) \subseteq Clicked(rClicks, {"Cancel"})
    <3>1. CASE rClicks' = rClicks
      BY <3>1
    <3>2. ASSUME NEW x \in Answer, rClicks' = Append(rClicks, x)
          PROVE  Clicked(rClicks', {"Cancel"}) \subseteq Clicked(rClicks, {"Cancel"})
      <4>1. x # "Cancel" /\ x \in Answer \cup {"Cancel"}
        BY DEF Answer
      <4>2. \A i \in 1..Len(rClicks') : i \in 1..Len(rClicks) \/ rClicks'[i] = x
        BY <1>1, <3>2, <4>1
      <4>3. \A i \in 1..Len(rClicks) : rClicks'[i] = rClicks[i]
        BY <1>1, <3>2, <4>1
      <4>4. QED BY <4>1, <4>2, <4>3 DEF Clicked
    <3>3. QED BY <2>1, <3>1, <3>2
  <2>3. Clicked(rClicks, {"Cancel"})' = Clicked(rClicks', {"Cancel"})
    BY DEF Clicked
  <2>4. QED BY <1>1, <2>2, <2>3 DEF CancelAsked
<1>4. QED BY <1>2, <1>3

(* Both front ends are told the states of a transfer in the order of the    *)
(* protocol, whatever is clicked and whatever fails.                        *)
THEOREM StatesAreToldInOrder == Spec => StatesFollow
<1>1. Init => SaidInv
  <2> SUFFICES ASSUME Init PROVE SaidInv
    OBVIOUS
  <2>1. /\ sPub = <<>> /\ rPub = <<>> /\ rClicks = <<>>
        /\ snd.state = "Initial" /\ rcv.state = "Initial"
    BY DEF Init, SenderInit, ReceiverInit
  <2>2. Clicked(rClicks, {"Cancel"}) = {} /\ ~Published(rPub, "ReceivingFiles")
    BY <2>1 DEF Clicked, Published
  <2>3. QED BY <2>1, <2>2 DEF SaidInv, SSaid, RSaid, CancelAsked
<1>2. ASSUME TypeOK, TypeOK', AlignInv, ConsentBeforeBytes, Agreed, SaidInv, [Next]_vars
      PROVE  /\ SaidInv'
             /\ sPub' \in Reported(sPub, SenderFollows(LastOf(sPub)), {"Disconnected"})
             /\ rPub' \in Reported(rPub, ReceiverFollows(LastOf(rPub)),
                                   {"Rejected", "Cancelled"})
  <2>1. CASE Sender
    <3>1. rPub' = rPub /\ rUp' = rUp /\ rcv' = rcv /\ rClicks' = rClicks
      BY <2>1 DEF Sender, receiverVars, uiVars
    <3>2. RSaid' /\ CancelAsked'
      BY <1>2, <3>1 DEF SaidInv, RSaid, CancelAsked, LastOf, Published, Clicked
    <3>3. QED BY <1>2, <2>1, <3>1, <3>2, SenderReports, ReportedCases DEF Sender, SaidInv
  <2>2. CASE Receiver
    <3>1. sPub' = sPub /\ sUp' = sUp /\ snd' = snd /\ rClicks' = rClicks
      BY <2>2 DEF Receiver, senderVars, uiVars
    <3>2. SSaid'
      BY <1>2, <3>1 DEF SaidInv, SSaid, LastOf
    <3>3. ReceiverNext
      BY <2>2 DEF Receiver
    <3>4. /\ RSaid'
          /\ Published(rPub', "ReceivingFiles") /\ rUp' => rcv'.state = "ReceivingFiles"
          /\ rPub' \in Reported(rPub, ReceiverFollows(LastOf(rPub)),
                                {"Rejected", "Cancelled"})
      BY <1>2, <3>3, ReceiverReports DEF SaidInv
    <3>5. Clicked(rClicks, {"Cancel"})' # {} => Published(rPub', "ReceivingFiles")
      BY <1>2, <3>1, <3>3, CancelStaysAsked DEF SaidInv
    <3>6. Published(rPub, "ReceivingFiles")' <=> Published(rPub', "ReceivingFiles")
      BY DEF Published
    <3>7. CancelAsked'
      BY <3>4, <3>5, <3>6 DEF CancelAsked
    <3>8. QED BY <3>1, <3>2, <3>4, <3>7, ReportedCases DEF SaidInv
  <2>3. CASE FrontEnd \/ User
    <3>1. UNCHANGED <<senderVars, receiverVars>>
      BY <2>3 DEF FrontEnd, SShow, RShow, User, UserAnswers, SUserCancels, RUserCancels
    <3>2. UNCHANGED <<sPub, sUp, snd, rPub, rUp, rcv>>
      BY <3>1 DEF senderVars, receiverVars
    <3>3. SSaid' /\ RSaid'
      BY <1>2, <3>2 DEF SaidInv, SSaid, RSaid, LastOf
    <3>4. CancelAsked'
      BY <1>2, <2>3, CancelsAreAsked DEF SaidInv
    <3>5. QED BY <3>2, <3>3, <3>4, ReportedCases DEF SaidInv
  <2>4. CASE Done \/ UNCHANGED vars
    <3>1. UNCHANGED <<sPub, sUp, snd, rPub, rUp, rcv, rClicks>>
      BY <2>4 DEF Done, vars, senderVars, receiverVars, uiVars
    <3>2. SaidInv'
      BY <1>2, <3>1 DEF SaidInv, SSaid, RSaid, CancelAsked, LastOf, Published, Clicked
    <3>3. QED BY <3>1, <3>2, ReportedCases
  <2>5. QED BY <1>2, <2>1, <2>2, <2>3, <2>4 DEF Next
<1>3. QED
  BY <1>1, <1>2, TypeCorrect, Aligned, ConsentComesFirst, AgreedAlways, PTL
     DEF Spec, StatesFollow

-----------------------------------------------------------------------------
(* Nobody waits in vain.  There is no timeout anywhere: an end that waits   *)
(* for a frame waits for ever unless the other one writes it or goes.       *)

(* A task can go on by itself when it is not at a read, or has a frame that *)
(* it accepts, or its peer is gone.                                         *)
SenderCanGoOn ==
    /\ sUp
    /\ \/ snd.state \in {"Initial", "SendingFiles"}
       \/ sRead < Len(r2s) /\ SAcceptable(SHead)
       \/ ReadFails(rUp, r2s, sRead, s2r, rRead)
ReceiverCanGoOn ==
    /\ rUp
    /\ rRead < Len(s2r) \/ ReadFails(sUp, s2r, rRead, r2s, sRead)

(* The receiving user was asked, and no answer was taken. *)
UserIsAsked ==
    rUp /\ rcv.state = "WaitingForUserConsent" /\ Published(rPub, "WaitingForUserConsent")

(* The sender has sent all that it will, the receiver waits for more. *)
OnlyEmptyFilesAreLeft ==
    /\ rUp /\ snd.state = "Finished" /\ rcv.state = "ReceivingFiles"
    /\ rcv.files # {} /\ \A f \in rcv.files : Size[f] = 0

(* An end that is up can go on, or the other one can, or the user is to     *)
(* answer, or the last chunk of empty files is waited for.                  *)
NobodyHangs ==
    sUp \/ rUp => \/ SenderCanGoOn \/ ReceiverCanGoOn
                  \/ UserIsAsked \/ OnlyEmptyFilesAreLeft

(* Where a log has the last half of an answer. *)
Status == {"Accept", "Reject", "Unsupported"}
Answers(log, i) ==
    /\ log[i].kind = "SecureMessage"
    /\ \E status \in Status : log[i].body = Bytes(Response(status), TRUE)

(* A sender that still waits for the answer has not read one. *)
SHears == sUp /\ snd.state = "SentIntroduction" => \A i \in 1..sRead : ~Answers(r2s, i)

(* A receiver past the introduction has asked its user or has answered. *)
RAnswers == rUp /\ rcv.state \in {"WaitingForUserConsent", "ReceivingFiles"} =>
    \/ rcv.state = "WaitingForUserConsent" /\ Published(rPub, "WaitingForUserConsent")
    \/ \E i \in 1..Len(r2s) : Answers(r2s, i)

(* What the sender has announced it has still to send or has sent to its    *)
(* end, unless there is nothing in it.                                      *)
SentToTheEnd ==
    /\ Len(s2r) >= 10 =>
         \A f \in Announced(s2r) : \/ f \in snd.todo \cup snd.cur
                                   \/ Size[f] = 0
                                   \/ \E i \in 1..Len(s2r) : LastOfFile(s2r, i, f)
    /\ snd.state = "Finished" => snd.todo = {} /\ snd.cur = {} /\ AcceptTaken

(* A receiver that runs waits for files that were announced, and not for    *)
(* one that it has read to its end.                                         *)
RAwaits == rUp =>
    /\ rRead < 10 => rcv.files = {}
    /\ rRead >= 10 => rcv.files \subseteq Announced(s2r)
    /\ \A i \in 1..rRead : \A f \in rcv.files : ~LastOfFile(s2r, i, f)
    /\ Published(rPub, "WaitingForUserConsent") => rcv.files # {}

HangInv == SHears /\ RAnswers /\ SentToTheEnd /\ RAwaits

LEMMA AnswerParts ==
    ASSUME NEW log, NEW i, Answers(log, i)
    PROVE  /\ log[i].kind = "SecureMessage" /\ log[i].body.type = "Bytes"
           /\ log[i].body.last = TRUE /\ log[i].body.frame.frame = "Response"
<1>1. PICK status \in Status : log[i].body = Bytes(Response(status), TRUE)
  BY DEF Answers
<1>2. Bytes(Response(status), TRUE).type = "Bytes"
      /\ Bytes(Response(status), TRUE).last = TRUE
      /\ Bytes(Response(status), TRUE).frame.frame = "Response"
  BY DEF Bytes, Response
<1>3. QED BY <1>1, <1>2 DEF Answers

LEMMA NoAnswerBefore ==
    ASSUME NEW log, NEW i \in Nat, i <= 6, RFrame(log, i), i >= 1
    PROVE  ~Answers(log, i)
<1>1. i = 1 \/ i = 2 \/ i = 3 \/ i = 4 \/ i = 5 \/ i = 6
  OBVIOUS
<1>2. CASE i = 1 \/ i = 2
  <2>1. log[i].kind # "SecureMessage"
    <3>1. CASE i = 1
      <4>1. log[1] = Plain("ServerInit")
        BY <3>1, RFrameNamed
      <4>2. QED BY <3>1, <4>1 DEF Plain
    <3>2. CASE i = 2
      <4>1. log[2] = Plain("ConnectionResponse")
        BY <3>2, RFrameNamed
      <4>2. QED BY <3>2, <4>1 DEF Plain
    <3>3. QED BY <1>2, <3>1, <3>2
  <2>2. QED BY <2>1, AnswerParts
<1>3. ASSUME NEW seq, NEW frame \in {PairedKeyEncryption, PairedKeyResult}, NEW last,
             log[i] = Secure(seq, Bytes(frame, last))
      PROVE  ~Answers(log, i)
  <2>1. log[i].body.frame = frame
    BY <1>3 DEF Secure, Bytes
  <2>2. frame.frame # "Response"
    BY DEF PairedKeyEncryption, PairedKeyResult
  <2>3. QED BY <2>1, <2>2, AnswerParts
<1>4. CASE i = 3 \/ i = 4 \/ i = 5 \/ i = 6
  BY <1>3, <1>4, RFrameNamed
<1>5. QED BY <1>1, <1>2, <1>4

(* The sender goes on waiting for an answer only if it did not read one. *)
LEMMA SenderHears ==
    ASSUME TypeOK, TypeOK', RLog, SInStep, SHears, SenderNext,
           UNCHANGED <<receiverVars, uiVars>>
    PROVE  SHears'
<1>1. /\ r2s' = r2s /\ sRead \in Nat /\ sRead \in 0..Len(r2s) /\ Len(r2s) \in Nat
      /\ snd \in SenderState /\ sUp /\ Len(s2r) \in Nat
  <2>1. r2s \in Seq(Frame) /\ s2r \in Seq(Frame)
    BY DEF TypeOK, WireTypeOK
  <2>2. sRead \in 0..Len(r2s)
    BY DEF TypeOK, WireTypeOK
  <2>3. snd \in SenderState
    BY DEF TypeOK, SenderTypeOK
  <2>4. r2s' = r2s
    BY DEF receiverVars
  <2>5. sUp
    BY SenderRuns
  <2>6. Len(r2s) \in Nat /\ Len(s2r) \in Nat
    BY <2>1
  <2>7. sRead \in Nat
    BY <2>2, <2>6
  <2>8. QED BY <2>2, <2>3, <2>4, <2>5, <2>6, <2>7
<1> SUFFICES ASSUME sUp', snd'.state = "SentIntroduction", NEW i \in 1..sRead'
             PROVE  ~Answers(r2s, i)
  BY <1>1 DEF SHears, Answers
<1>2. CASE SPairedKeyResult
  <2>1. SReads /\ snd.state = "SentPairedKeyResult"
    BY <1>2 DEF SPairedKeyResult, SReadsSharing, SReadsSecure
  <2>2. sRead \in {4, 5}
    <3>1. SPlace(snd.state, Len(s2r), sRead)
      BY <1>1 DEF SInStep
    <3>2. QED BY <2>1, <3>1 DEF SPlace
  <2>5. sRead' = sRead + 1 /\ sRead < Len(r2s)
    BY <2>1 DEF SReads
  <2>3. i \in Nat /\ i >= 1 /\ i <= 6 /\ i \in 1..Len(r2s)
    BY <1>1, <2>2, <2>5
  <2>4. QED BY <2>3, NoAnswerBefore DEF RLog
<1>3. CASE SBytesData \/ SDisconnection
  <2>1. SReads /\ snd.state = "SentIntroduction" /\ sRead' = sRead + 1
    BY <1>1, <1>3 DEF SBytesData, SDisconnection, SReadsSecure, SReads, SenderState
  <2>2. i \in 1..sRead \/ i = sRead + 1
    BY <1>1, <2>1
  <2>3. CASE i \in 1..sRead
    BY <1>1, <2>1, <2>3 DEF SHears
  <2>4. CASE i = sRead + 1
    <3>1. SHead.body.type = "Disconnection" \/ SHead.body.last = FALSE
      <4>1. CASE SBytesData
        <5>1. SHead.kind = "SecureMessage" /\ SHead.body.type = "Bytes" /\ SHead \in Frame
              /\ ~SHead.body.last
          BY <2>1, <4>1, SHeadCases DEF SBytesData, SReadsSecure, InSequence
        <5>2. SHead.body.last \in BOOLEAN
          BY <5>1, FrameCases
        <5>3. QED BY <5>1, <5>2
      <4>2. CASE SDisconnection
        BY <4>2 DEF SDisconnection, Disconnection
      <4>3. QED BY <1>3, <4>1, <4>2
    <3>2. QED BY <2>4, <3>1, AnswerParts DEF SHead
  <2>5. QED BY <2>2, <2>3, <2>4
<1>4. SPairedKeyResult \/ SBytesData \/ SDisconnection
  <2>1. CASE SConnect \/ SServerInit \/ SConnectionResponse \/ SPairedKeyEncryption
             \/ SConsentGiven \/ SConsentDenied
    <3>1. snd'.state # "SentIntroduction"
      BY <1>1, <2>1 DEF SConnect, SServerInit, SConnectionResponse, SPairedKeyEncryption,
                        SConsentGiven, SConsentDenied, SenderState
    <3>2. QED BY <3>1
  <2>2. CASE SSharingIgnored
    <3>1. snd'.state = snd.state /\ snd.state # "SentIntroduction"
      BY <1>1, <2>2 DEF SSharingIgnored, SenderState
    <3>2. QED BY <3>1
  <2>3. CASE SSendLoop
    <3>1. snd'.state \in {"SendingFiles", "Finished"}
      BY <1>1, <2>3 DEF SSendLoop, SNextFile, SSendLast, SReadAndSend, SFinish, SSending,
                        SenderState
    <3>2. QED BY <3>1
  <2>4. CASE SCancel \/ SConnectionLost \/ SSourceFails \/ SStop
    <3>1. ~sUp'
      BY <2>4 DEF SCancel, SConnectionLost, SSourceFails, SStop, SExitOnError
    <3>2. QED BY <3>1
  <2>5. QED BY <2>1, <2>2, <2>3, <2>4 DEF SenderNext, SenderStep, SHandleFrame
<1>5. QED BY <1>2, <1>3, <1>4

(* The receiver's log only grows, so that what it has answered stays there. *)
LEMMA ReceiverAnswers ==
    ASSUME TypeOK, TypeOK', Grows(r2s, r2s'), RAnswers, ReceiverNext,
           UNCHANGED <<senderVars, uiVars>>
    PROVE  RAnswers'
<1>1. /\ r2s \in Seq(Frame) /\ Len(r2s) \in Nat /\ Len(r2s') \in Nat
      /\ rcv \in ReceiverState /\ rPub \in Seq(State) /\ rcv.server_seq \in Nat
  <2>1. r2s \in Seq(Frame) /\ rcv \in ReceiverState /\ rPub \in Seq(State)
    BY DEF TypeOK, WireTypeOK, ReceiverTypeOK
  <2>2. r2s' \in Seq(Frame)
    BY DEF TypeOK, WireTypeOK
  <2>3. QED BY <2>1, <2>2 DEF ReceiverState
<1>2. rUp
  BY ReceiverRuns
<1>3. \A x : Published(rPub, x) => Published(rPub', x)
  <2>1. PICK more \in Seq(State) : rPub' = rPub \o more
    BY ReceiverPublishes
  <2>2. QED BY <1>1, <2>1, MorePublished
<1>4. \A i \in 1..Len(r2s) : Answers(r2s, i) => i \in 1..Len(r2s') /\ Answers(r2s', i)
  <2> SUFFICES ASSUME NEW i \in 1..Len(r2s), Answers(r2s, i)
               PROVE  i \in 1..Len(r2s') /\ Answers(r2s', i)
    OBVIOUS
  <2>1. Len(r2s) <= Len(r2s') /\ r2s'[i] = r2s[i]
    BY DEF Grows
  <2>2. i \in 1..Len(r2s')
    BY <1>1, <2>1
  <2>3. Answers(r2s', i)
    BY <2>1, Zenon DEF Answers
  <2>4. QED BY <2>2, <2>3
<1>5. ASSUME rcv'.state = rcv.state PROVE RAnswers'
  <2> SUFFICES ASSUME rcv.state \in {"WaitingForUserConsent", "ReceivingFiles"}
               PROVE  \/ /\ rcv.state = "WaitingForUserConsent"
                         /\ Published(rPub', "WaitingForUserConsent")
                      \/ \E i \in 1..Len(r2s') : Answers(r2s', i)
    BY <1>5 DEF RAnswers, Published, Answers
  <2>1. CASE \E i \in 1..Len(r2s) : Answers(r2s, i)
    BY <1>4, <2>1
  <2>2. QED BY <1>2, <1>3, <2>1 DEF RAnswers
<1>6. ASSUME NEW status \in Status,
             r2s' = r2s \o SendEncryptedFrame(rcv.server_seq, Response(status))
      PROVE  RAnswers'
  <2>1. Response(status) \in SharingFrame
    BY SharingFrameTypes DEF Status
  <2>2. PICK x, y \in Frame :
          /\ r2s' = r2s \o <<x, y>>
          /\ y = Secure(rcv.server_seq + 2, Bytes(Response(status), TRUE))
    BY <1>1, <1>6, <2>1, SecurePair
  <2>8. r2s' = r2s \o <<x, y>>
    BY <2>2
  <2>3. Len(r2s') = Len(r2s) + 2 /\ r2s'[Len(r2s) + 2] = y
    BY <1>1, <2>8, TwoMore
  <2>4. y.kind = "SecureMessage" /\ y.body = Bytes(Response(status), TRUE)
    BY <2>2 DEF Secure
  <2>5. PICK j \in 1..Len(r2s') : r2s'[j] = y
    BY <1>1, <2>3
  <2>6. Answers(r2s', j)
    BY <2>4, <2>5 DEF Answers
  <2>7. QED BY <2>6 DEF RAnswers, Answers
<1>7. ASSUME ~rUp' \/ rcv'.state \notin {"WaitingForUserConsent", "ReceivingFiles"}
      PROVE  RAnswers'
  BY <1>7 DEF RAnswers
<1>8. CASE RIntroduction
  <2>1. rcv'.state = "WaitingForUserConsent" /\ rPub' = Append(rPub, "WaitingForUserConsent")
    BY <1>1, <1>8 DEF RIntroduction, ReceiverState
  <2>2. PICK j \in 1..Len(rPub') : rPub'[j] = "WaitingForUserConsent"
    BY <1>1, <2>1
  <2>3. QED BY <2>1, <2>2 DEF RAnswers, Published
<1>9. CASE REmptyIntroduction
  BY <1>6, <1>9 DEF REmptyIntroduction, Status
<1>10. CASE RAccept
  BY <1>6, <1>10 DEF RAccept, Status
<1>11. CASE RBytesData \/ RFileChunk \/ RDisconnection
  <2>1. rcv'.state = rcv.state
    BY <1>1, <1>11 DEF RBytesData, RFileChunk, RDisconnection, ReceiverState
  <2>2. QED BY <1>5, <2>1
<1>12. CASE RFileLast
  <2>1. rcv'.state = rcv.state \/ ~rUp'
    BY <1>1, <1>12 DEF RFileLast, ReceiverState
  <2>2. QED BY <1>5, <1>7, <2>1
<1>13. CASE \/ RConnectionRequest \/ RClientInit \/ RClientFinish \/ RConnectionResponse
            \/ RPairedKeyEncryption \/ RPairedKeyResult
  <2>1. rcv'.state \notin {"WaitingForUserConsent", "ReceivingFiles"}
    BY <1>1, <1>13
       DEF RConnectionRequest, RClientInit, RClientFinish, RConnectionResponse,
           RPairedKeyEncryption, RPairedKeyResult, ReceiverState
  <2>2. QED BY <1>7, <2>1
<1>14. CASE \/ RBadFrame \/ RReject \/ RCancel \/ RConnectionLost \/ RAcceptFails
            \/ RStoreFails \/ RCrash
  <2>1. ~rUp'
    BY <1>14 DEF RBadFrame, RReject, RCancel, RConnectionLost, RAcceptFails, RStoreFails,
                 RCrash, RExitOnError
  <2>2. QED BY <1>7, <2>1
<1>15. QED
  BY <1>8, <1>9, <1>10, <1>11, <1>12, <1>13, <1>14
     DEF ReceiverNext, ReceiverStep, RHandleFrame, RHandleCommand

(* Every file that was announced is picked, and sent to its end if there is *)
(* something in it.                                                         *)
LEMMA SenderSendsAll ==
    ASSUME TypeOK, TypeOK', SLog, SInStep, ConsentInv, SentToTheEnd, SenderKeeps, SenderNext,
           UNCHANGED <<receiverVars, uiVars>>
    PROVE  SentToTheEnd'
<1>1. /\ s2r \in Seq(Frame) /\ s2r' \in Seq(Frame) /\ Len(s2r) \in Nat /\ Len(s2r') \in Nat
      /\ snd \in SenderState /\ sUp /\ SPlace(snd.state, Len(s2r), sRead) /\ sRead \in Nat
  <2>1. s2r \in Seq(Frame) /\ snd \in SenderState /\ sRead \in Nat
    BY DEF TypeOK, WireTypeOK, SenderTypeOK
  <2>2. s2r' \in Seq(Frame)
    BY DEF TypeOK, WireTypeOK
  <2>3. sUp
    BY SenderRuns
  <2>4. QED BY <2>1, <2>2, <2>3 DEF SInStep
<1>2. AcceptTaken' <=> AcceptTaken
  BY DEF AcceptTaken, receiverVars, uiVars
<1>3. /\ \A i \in 1..Len(s2r) : i \in 1..Len(s2r')
      /\ \A i \in 1..Len(s2r) : \A f : LastOfFile(s2r, i, f) => LastOfFile(s2r', i, f)
      /\ Len(s2r) >= 10 => Announced(s2r') = Announced(s2r)
  <2>1. Grows(s2r, s2r') /\ Len(s2r') >= Len(s2r)
    BY DEF SenderKeeps, Grows
  <2>2. QED BY <1>1, <2>1, ChunksStay
<1> DEFINE Sent(log, f) == \E i \in 1..Len(log) : LastOfFile(log, i, f)
<1>4. \A f : Sent(s2r, f) => Sent(s2r', f)
  BY <1>3
<1>5. ASSUME Len(s2r) >= 10,
             \A f \in Announced(s2r) : f \in snd.todo \cup snd.cur =>
                \/ f \in snd'.todo \cup snd'.cur \/ Size[f] = 0 \/ Sent(s2r', f),
             snd'.state = "Finished" => snd'.todo = {} /\ snd'.cur = {} /\ AcceptTaken
      PROVE  SentToTheEnd'
  <2>1. \A f \in Announced(s2r) : f \in snd.todo \cup snd.cur \/ Size[f] = 0 \/ Sent(s2r, f)
    BY <1>5 DEF SentToTheEnd
  <2>2. \A f \in Announced(s2r') :
          f \in snd'.todo \cup snd'.cur \/ Size[f] = 0 \/ Sent(s2r', f)
    BY <1>3, <1>4, <1>5, <2>1
  <2>3. QED BY <1>2, <1>5, <2>2 DEF SentToTheEnd, LastOfFile, ChunkOf, IsChunk
<1>6. CASE SConnect \/ SServerInit \/ SConnectionResponse \/ SPairedKeyEncryption
  <2>1. snd'.state \in {"SentUkeyClientInit", "SentUkeyClientFinish",
                        "SentPairedKeyEncryption", "SentPairedKeyResult"} /\ sUp'
    BY <1>1, <1>6 DEF SConnect, SServerInit, SConnectionResponse, SPairedKeyEncryption,
                      SReadsSharing, SReadsSecure, SReads, SenderState
  <2>2. ~(Len(s2r') >= 10)
    <3>1. SPlace(snd'.state, Len(s2r'), sRead') /\ sRead' \in Nat
      <4>1. SInStep' /\ sRead' \in Nat
        BY DEF SenderKeeps, TypeOK, WireTypeOK
      <4>2. QED BY <2>1, <4>1 DEF SInStep
    <3>2. QED BY <1>1, <2>1, <3>1, SPlaceLengths
  <2>3. QED BY <2>1, <2>2 DEF SentToTheEnd
<1>7. CASE s2r' = s2r /\ snd'.todo = snd.todo /\ snd'.cur = snd.cur /\ snd'.state = snd.state
  BY <1>2, <1>7 DEF SentToTheEnd
<1>8. CASE \/ SBytesData \/ SSharingIgnored \/ SDisconnection
           \/ SConnectionLost \/ SSourceFails \/ SStop
  <2>1. /\ s2r' = s2r /\ snd'.todo = snd.todo /\ snd'.cur = snd.cur
        /\ snd'.state = snd.state
    BY <1>1, <1>8 DEF SBytesData, SSharingIgnored, SDisconnection, SConnectionLost,
                      SSourceFails, SStop, SExitOnError, SenderState
  <2>2. QED BY <1>7, <2>1
<1>9. CASE SPairedKeyResult
  <2>1. PICK missing \in SUBSET Vanishing :
          /\ s2r' = s2r \o SendEncryptedFrame(snd.server_seq,
                                              Introduction(Files \ missing))
          /\ snd' = [snd EXCEPT !.state = "SentIntroduction",
                                !.client_seq = @ + 1, !.server_seq = @ + 2,
                                !.buf = NoFrame, !.todo = Files \ missing]
    BY <1>9 DEF SPairedKeyResult
  <2>2. snd'.todo = Files \ missing /\ snd'.state = "SentIntroduction"
    BY <1>1, <2>1 DEF SenderState
  <2>3. Announced(s2r') = Files \ missing
    <3>1. snd.server_seq \in Nat /\ Introduction(Files \ missing) \in SharingFrame
      BY <1>1, SharingFrameTypes DEF SenderState
    <3>2. PICK x, y \in Frame : /\ s2r' = s2r \o <<x, y>>
                                /\ y = Secure(snd.server_seq + 2,
                                              Bytes(Introduction(Files \ missing), TRUE))
      BY <2>1, <3>1, SecurePair
    <3>3. s2r' = s2r \o <<x, y>>
      BY <3>2
    <3>4. s2r'[Len(s2r) + 2] = y
      BY <1>1, <3>3, TwoMore
    <3>5. snd.state = "SentPairedKeyResult"
      BY <1>9 DEF SPairedKeyResult
    <3>6. Len(s2r) + 2 = 10
      <4>1. SPlace(snd.state, Len(s2r), sRead)
        BY <1>1
      <4>2. Len(s2r) = 8
        BY <3>5, <4>1 DEF SPlace
      <4>3. QED BY <4>2
    <3>7. s2r'[10] = Secure(snd.server_seq + 2, Bytes(Introduction(Files \ missing), TRUE))
      BY <3>2, <3>4, <3>6, Zenon
    <3>8. QED BY <3>7 DEF Announced, Secure, Bytes, Introduction
  <2>4. QED BY <2>2, <2>3 DEF SentToTheEnd
<1>10. ASSUME Len(s2r) >= 10, snd'.todo = snd.todo, snd'.cur = snd.cur,
              snd'.state # "Finished"
       PROVE  SentToTheEnd'
  BY <1>5, <1>10
<1>11. CASE SConsentGiven \/ SConsentDenied
  <2>1. /\ snd.state = "SentIntroduction" /\ snd'.state # "Finished"
        /\ snd'.todo = snd.todo /\ snd'.cur = snd.cur
    BY <1>1, <1>11 DEF SConsentGiven, SConsentDenied, SenderState
  <2>2. Len(s2r) >= 10
    BY <1>1, <2>1, SPlaceLengths
  <2>3. QED BY <1>10, <2>1, <2>2
<1>12. CASE SCancel
  <2>1. snd'.state = "Cancelled" /\ snd'.todo = snd.todo /\ snd'.cur = snd.cur
    BY <1>1, <1>12 DEF SCancel, SenderState
  <2>2. CASE Len(s2r) >= 10
    BY <1>10, <2>1, <2>2
  <2>3. CASE ~(Len(s2r) >= 10)
    <3>1. Len(s2r) <= 8
      <4>1. snd.state \notin {"SentIntroduction", "SendingFiles", "Finished"}
        BY <1>1, <2>3, SPlaceLengths
      <4>2. QED BY <1>1, <4>1, SPlaceLengths
    <3>2. Len(s2r') = Len(s2r) + 1
      BY <1>12, SentBody, FrameTypes DEF SCancel
    <3>3. ~(Len(s2r') >= 10)
      BY <1>1, <3>1, <3>2
    <3>4. QED BY <2>1, <3>3 DEF SentToTheEnd
  <2>4. QED BY <2>2, <2>3
<1>13. SSending => Len(s2r) >= 10 /\ AcceptTaken
  <2>1. SUFFICES ASSUME SSending PROVE Len(s2r) >= 10 /\ AcceptTaken
    OBVIOUS
  <2>2. snd.state = "SendingFiles"
    BY <2>1 DEF SSending
  <2>3. QED BY <1>1, <2>2, SPlaceLengths DEF ConsentInv, NothingGranted
<1>14. ASSUME NEW f \in Files, SNextFile(f) PROVE SentToTheEnd'
  <2>1. /\ SSending /\ snd.cur = {} /\ snd'.todo = snd.todo \ {f}
        /\ snd'.state = "SendingFiles" /\ (snd'.cur = {f} \/ Size[f] = 0)
    BY <1>1, <1>14 DEF SNextFile, SSending, SenderState
  <2>2. \A g \in snd.todo \cup snd.cur : g \in snd'.todo \cup snd'.cur \/ Size[g] = 0
    BY <2>1
  <2>3. QED BY <1>5, <1>13, <2>1, <2>2
<1>15. ASSUME NEW f \in Files, SSendLast(f) PROVE SentToTheEnd'
  <2>1. /\ SSending /\ snd.cur = {f} /\ snd'.todo = snd.todo /\ snd'.state = "SendingFiles"
        /\ s2r' = s2r \o EncryptAndSend(snd.server_seq, FileChunk(f, Size[f], 0, TRUE))
    BY <1>1, <1>15 DEF SSendLast, SSending, SenderState
  <2>2. FileChunk(f, Size[f], 0, TRUE) \in Body
    <3>1. Size[f] \in Nat
      BY SizeAssumption
    <3>2. QED BY <3>1, FrameTypes
  <2>3. /\ Len(s2r') = Len(s2r) + 1
        /\ s2r'[Len(s2r) + 1].kind = "SecureMessage"
        /\ s2r'[Len(s2r) + 1].body = FileChunk(f, Size[f], 0, TRUE)
    BY <2>1, <2>2, SentBody
  <2>4. LastOfFile(s2r', Len(s2r) + 1, f) /\ Len(s2r) + 1 \in 1..Len(s2r')
    BY <1>1, <2>3 DEF LastOfFile, ChunkOf, IsChunk, FileChunk
  <2>5. Sent(s2r', f)
    BY <2>4
  <2>6. \A g \in snd.todo \cup snd.cur : g \in snd'.todo \cup snd'.cur \/ g = f
    BY <2>1
  <2> HIDE DEF Sent
  <2>7. QED BY <1>5, <1>13, <2>1, <2>5, <2>6
<1>16. ASSUME NEW f \in Files, NEW n \in 0..ReadBuffer, SReadAndSend(f, n)
       PROVE  SentToTheEnd'
  <2>1. PICK noted, ack : snd' = [snd EXCEPT !.server_seq = @ + 1, !.sent[f] = @ + n,
                                             !.ack = ack, !.noted = noted]
    BY <1>16 DEF SReadAndSend
  <2>2. /\ SSending /\ snd'.todo = snd.todo /\ snd'.cur = snd.cur /\ snd'.state = snd.state
    BY <1>1, <1>16, <2>1 DEF SReadAndSend, SenderState
  <2>3. QED BY <1>10, <1>13, <2>2 DEF SSending
<1>17. CASE SFinish
  <2>1. /\ SSending /\ snd.todo = {} /\ snd.cur = {} /\ snd'.todo = {} /\ snd'.cur = {}
    BY <1>1, <1>17 DEF SFinish, SenderState
  <2>2. QED BY <1>5, <1>13, <2>1
<1>18. QED
  BY <1>6, <1>8, <1>9, <1>11, <1>12, <1>14, <1>15, <1>16, <1>17
     DEF SenderNext, SenderStep, SHandleFrame, SSendLoop

(* A task reads a file's last chunk once, and drops the file with it. *)
LEMMA ReceiverAwaits ==
    ASSUME TypeOK, TypeOK', AlignInv, RAwaits, ReceiverNext,
           UNCHANGED <<senderVars, uiVars>>
    PROVE  RAwaits'
<1>1. /\ rcv \in ReceiverState /\ rcv.files \in SUBSET Files /\ rRead \in Nat
      /\ Len(r2s) \in Nat /\ s2r' = s2r
  <2>1. rcv \in ReceiverState
    BY DEF TypeOK, ReceiverTypeOK
  <2>2. r2s \in Seq(Frame) /\ s2r \in Seq(Frame) /\ rRead \in 0..Len(s2r)
    BY DEF TypeOK, WireTypeOK
  <2>3. Len(r2s) \in Nat /\ rRead \in Nat
    BY <2>2
  <2>4. s2r' = s2r
    BY DEF senderVars
  <2>5. QED BY <2>1, <2>3, <2>4 DEF ReceiverState
<1>2. rUp
  BY ReceiverRuns
<1>3. /\ rRead < 10 => rcv.files = {}
      /\ rRead >= 10 => rcv.files \subseteq Announced(s2r)
      /\ \A i \in 1..rRead : \A f \in rcv.files : ~LastOfFile(s2r, i, f)
      /\ Published(rPub, "WaitingForUserConsent") => rcv.files # {}
  BY <1>2 DEF RAwaits
<1>4. \A i \in 1..(rRead + 1) : i \in 1..rRead \/ i = rRead + 1
  BY <1>1
<1>5. ASSUME rRead' = rRead + 1, rcv'.files \subseteq Announced(s2r) \/ rRead < 9,
             rRead < 9 => rcv'.files = {},
             \A i \in 1..(rRead + 1) : \A f \in rcv'.files : ~LastOfFile(s2r, i, f),
             Published(rPub', "WaitingForUserConsent") => rcv'.files # {}
      PROVE  RAwaits'
  <2>1. rRead' < 10 => rRead < 9
    BY <1>1, <1>5
  <2>2. rRead' >= 10 => ~(rRead < 9)
    BY <1>1, <1>5
  <2>3. rRead' < 10 => rcv'.files = {}
    BY <1>5, <2>1
  <2>4. rRead' >= 10 => rcv'.files \subseteq Announced(s2r)
    BY <1>5, <2>2
  <2>5. \A i \in 1..rRead' : \A f \in rcv'.files : ~LastOfFile(s2r, i, f)
    BY <1>5
  <2> HIDE <1>5
  <2>6. QED BY <1>1, <1>5, <2>3, <2>4, <2>5 DEF RAwaits, Published, LastOfFile, ChunkOf, IsChunk
<1>6. ASSUME ~rUp' PROVE RAwaits'
  BY <1>6 DEF RAwaits
<1>7. CASE RAccept
  <2>1. rRead' = rRead /\ rcv'.files = rcv.files /\ rPub' = Append(rPub, "ReceivingFiles")
    BY <1>1, <1>7 DEF RAccept, RTakes, ReceiverState
  <2>2. Published(rPub', "WaitingForUserConsent") => Published(rPub, "WaitingForUserConsent")
    <3>1. rPub \in Seq(State)
      BY DEF TypeOK, ReceiverTypeOK
    <3>2. ASSUME NEW i \in 1..Len(rPub'), rPub'[i] = "WaitingForUserConsent"
          PROVE  i \in 1..Len(rPub) /\ rPub[i] = "WaitingForUserConsent"
      BY <2>1, <3>1, <3>2
    <3>3. QED BY <3>2 DEF Published
  <2>3. QED BY <1>1, <1>3, <2>1, <2>2 DEF RAwaits, LastOfFile, ChunkOf, IsChunk
<1>8. CASE RFileChunk \/ RFileLast
  <2>1. PICK c : c = RHead.body
    OBVIOUS
  <2>2. /\ rRead >= 10 /\ rRead' = rRead + 1
        /\ \A f : LastOfFile(s2r, rRead + 1, f) <=> f = c.file /\ c.last
        /\ RFileChunk => ~c.last
    BY <1>8, <2>1, ChunkTaken
  <2>3. ~(rRead < 9) /\ c.file \in rcv.files
    <3>1. ~(rRead < 9)
      BY <1>1, <2>2
    <3>2. ChunkFits(c)
      BY <1>8, <2>1 DEF RFileChunk, RFileLast
    <3>3. QED BY <3>1, <3>2 DEF ChunkFits
  <2>4. CASE RFileChunk
    <3>1. rcv'.files = rcv.files
      <4>1. PICK noted \in Nat :
              rcv' = [rcv EXCEPT !.client_seq = @ + 1,
                                 !.got[RHead.body.file] = @ + RHead.body.len,
                                 !.ack = rcv.ack + RHead.body.len, !.noted = noted]
        BY <2>4, ChunkCounted
      <4>2. QED BY <1>1, <4>1 DEF ReceiverState
    <3>2. \A f : ~LastOfFile(s2r, rRead + 1, f)
      BY <2>2, <2>4
    <3>3. \A i \in 1..(rRead + 1) : \A f \in rcv'.files : ~LastOfFile(s2r, i, f)
      BY <1>3, <1>4, <3>1, <3>2
    <3>4. QED BY <1>3, <1>5, <2>2, <2>3, <3>1, <3>3
  <2>5. CASE RFileLast
    <3>1. rcv'.files = rcv.files \ {c.file} /\ (rUp' => rcv.files \ {c.file} # {})
      BY <1>1, <2>1, <2>5 DEF RFileLast, ReceiverState
    <3>2. \A i \in 1..(rRead + 1) : \A f \in rcv'.files : ~LastOfFile(s2r, i, f)
      BY <1>3, <1>4, <2>2, <3>1
    <3>3. CASE rUp'
      BY <1>3, <1>5, <2>2, <2>3, <3>1, <3>2, <3>3
    <3>4. QED BY <1>6, <3>3
  <2>6. QED BY <1>8, <2>4, <2>5
<1>9. ASSUME rUp', ~RFileChunk, ~RFileLast, ~RAccept
      PROVE  rRead' = rRead + 1 /\ \A f : ~LastOfFile(s2r, rRead + 1, f)
  BY <1>9, NoChunkTaken
<1>10. CASE RIntroduction
  <2>1. /\ rcv.state = "ReceivedPairedKeyResult" /\ RReadsSharing /\ rcv.buf.files # {}
        /\ rcv'.files = rcv.buf.files
    BY <1>1, <1>10 DEF RIntroduction, ReceiverState
  <2>2. rRead \in {8, 9} /\ RHead.body.last
    <3>1. RPlace(rcv.state, Len(r2s), rRead)
      BY <1>2 DEF AlignInv, RInStep
    <3>2. QED BY <2>1, <3>1 DEF RPlace, RReadsSharing
  <2>3. /\ RReads /\ RHead.body.type = "Bytes" /\ rcv.buf = RHead.body.frame
        /\ RHead = s2r[rRead + 1] /\ rRead' = rRead + 1
    BY <2>1 DEF RReadsSharing, RReadsSecure, RReads, RHead
  <2>4. rRead = 9
    <3>1. rRead # 8
      BY <2>2, <2>3, RHeadCases DEF AlignInv
    <3>2. QED BY <2>2, <3>1
  <2>5. Announced(s2r) = rcv.buf.files
    <3>1. RHead = s2r[10]
      BY <2>3, <2>4
    <3>2. QED BY <2>3, <3>1 DEF Announced
  <2>6. \A i \in 1..(rRead + 1) : \A f : ~LastOfFile(s2r, i, f)
    <3>1. SLog /\ Len(s2r) \in Nat /\ Len(s2r) >= 10
      <4>1. SLog /\ s2r \in Seq(Frame) /\ rRead < Len(s2r)
        BY <2>3 DEF AlignInv, RReads, TypeOK, WireTypeOK
      <4>2. QED BY <2>4, <4>1
    <3>2. ASSUME NEW i \in 1..10 PROVE ~IsChunk(s2r, i)
      <4>1. i \in 1..Len(s2r)
        BY <3>1
      <4>2. PICK longer \in Seq(Frame) : longer = s2r
        BY DEF TypeOK, WireTypeOK
      <4>3. /\ i <= 4 => s2r[i].kind # "SecureMessage"
            /\ i \in {5, 7, 9} => s2r[i].body.type = "Bytes"
            /\ i \in {6, 8, 10} => s2r[i].body.type = "Bytes"
        BY <3>1, <4>1, <4>2, SFrameCases DEF SLog
      <4>4. i <= 4 \/ i \in {5, 7, 9} \/ i \in {6, 8, 10}
        OBVIOUS
      <4>5. QED BY <4>3, <4>4 DEF IsChunk
    <3>3. rRead + 1 = 10
      BY <2>4
    <3>4. QED BY <3>2, <3>3 DEF LastOfFile, ChunkOf
  <2>7. ~(rRead < 9)
    BY <2>4
  <2>8. QED BY <1>5, <2>1, <2>3, <2>5, <2>6, <2>7
<1>11. CASE \/ RConnectionRequest \/ RClientInit \/ RClientFinish \/ RConnectionResponse
            \/ RBytesData \/ RPairedKeyEncryption \/ RPairedKeyResult
            \/ REmptyIntroduction \/ RDisconnection
  <2>1. rcv'.files = rcv.files
    BY <1>1, <1>11
       DEF RConnectionRequest, RClientInit, RClientFinish, RConnectionResponse, RBytesData,
           RPairedKeyEncryption, RPairedKeyResult, REmptyIntroduction, RDisconnection,
           ReceiverState
  <2>2. rPub' = rPub /\ rUp' = rUp
    BY <1>11
       DEF RConnectionRequest, RClientInit, RClientFinish, RConnectionResponse, RBytesData,
           RPairedKeyEncryption, RPairedKeyResult, REmptyIntroduction, RDisconnection
  <2>3. ~RFileChunk /\ ~RFileLast /\ ~RAccept
    <3>1. RReads /\ (RHead.kind # "SecureMessage" \/ RHead.body.type # "File")
      <4>1. CASE RConnectionRequest \/ RClientInit \/ RClientFinish \/ RConnectionResponse
        BY <4>1 DEF RConnectionRequest, RClientInit, RClientFinish, RConnectionResponse
      <4>2. CASE RBytesData \/ RPairedKeyEncryption \/ RPairedKeyResult \/ REmptyIntroduction
        BY <4>2 DEF RBytesData, RPairedKeyEncryption, RPairedKeyResult, REmptyIntroduction,
                    RReadsSharing, RReadsSecure
      <4>3. CASE RDisconnection
        <5>1. Disconnection.type # "File"
          BY DEF Disconnection
        <5>2. QED BY <4>3, <5>1 DEF RDisconnection, RReadsSecure
      <4>4. QED BY <1>11, <4>1, <4>2, <4>3
    <3>2. RReads => ~RAccept
      <4>1. RReads => rRead' = rRead + 1
        BY DEF RReads
      <4>2. RAccept => rRead' = rRead
        BY DEF RAccept, RTakes
      <4>3. rRead + 1 # rRead
        BY <1>1
      <4>4. QED BY <4>1, <4>2, <4>3
    <3>3. RFileChunk \/ RFileLast => RHead.kind = "SecureMessage" /\ RHead.body.type = "File"
      BY DEF RFileChunk, RFileLast, RReadsSecure, InSequence
    <3>4. QED BY <3>1, <3>2, <3>3
  <2>4. rRead' = rRead + 1 /\ \A f : ~LastOfFile(s2r, rRead + 1, f)
    BY <1>2, <1>9, <2>2, <2>3
  <2>5. /\ \A i \in 1..(rRead + 1) : \A f \in rcv'.files : ~LastOfFile(s2r, i, f)
    BY <1>3, <1>4, <2>1, <2>4
  <2>6. rRead < 10 \/ rRead >= 10
    BY <1>1
  <2>7. /\ rRead < 9 => rRead < 10
        /\ rcv.files \subseteq Announced(s2r)
    BY <1>1, <1>3, <2>6
  <2>8. QED BY <1>3, <1>5, <2>1, <2>2, <2>4, <2>5, <2>7
<1>12. CASE \/ RBadFrame \/ RReject \/ RCancel \/ RConnectionLost \/ RAcceptFails
            \/ RStoreFails \/ RCrash
  <2>1. ~rUp'
    BY <1>12 DEF RBadFrame, RReject, RCancel, RConnectionLost, RAcceptFails, RStoreFails,
                 RCrash, RExitOnError
  <2>2. QED BY <1>6, <2>1
<1>13. QED
  BY <1>7, <1>8, <1>10, <1>11, <1>12
     DEF ReceiverNext, ReceiverStep, RHandleFrame, RHandleCommand

(* Whoever waits for whom: neither end waits for a frame of the setup that  *)
(* the other one has not written.                                           *)
LEMMA PlacesMeet ==
    ASSUME NEW s, NEW r, NEW wrote \in Nat, NEW read \in Nat,
           SPlace(s, wrote, read), RPlace(r, read, wrote),
           s \notin {"Initial", "SendingFiles"}
    PROVE  /\ s \in {"SentIntroduction", "Finished"}
           /\ r \in {"WaitingForUserConsent", "ReceivingFiles"} /\ wrote >= 10
<1>1. CASE wrote >= 10
  <2>1. s \in {"SentIntroduction", "SendingFiles", "Finished"}
    <3>1. ~(wrote <= 8)
      BY <1>1
    <3>2. QED BY <3>1, SPlaceLengths
  <2>2. r \in {"WaitingForUserConsent", "ReceivingFiles"}
    BY <1>1, RPlaceSecure
  <2>3. QED BY <1>1, <2>1, <2>2
<1>2. CASE ~(wrote >= 10)
  <2>1. \/ wrote = 2 /\ read = 0
        \/ wrote = 4 /\ read = 1
        \/ wrote = 6 /\ read \in {2, 3}
        \/ wrote = 8 /\ read \in {4, 5}
    <3>1. s \notin {"SentIntroduction", "SendingFiles", "Finished"}
      BY <1>2, SPlaceLengths
    <3>2. QED BY <3>1 DEF SPlace
  <2>2. r \notin {"WaitingForUserConsent", "ReceivingFiles"}
    BY <1>2, RPlaceSecure
  <2>3. \/ read = 0 /\ wrote \in {0, 1}
        \/ read = 1 /\ wrote \in {2, 3}
        \/ read = 4 /\ wrote \in {4, 5}
        \/ read = 6 /\ wrote \in {6, 7, 8, 9}
    BY <2>2 DEF RPlace
  <2>4. QED BY <2>1, <2>3
<1>3. QED BY <1>1, <1>2

(* Two ends that have read all they were sent, or one that is left alone. *)
LEMMA HangInvSuffices ==
    ASSUME TypeOK, AlignInv, Agreed, HangInv
    PROVE  NobodyHangs
<1>1. /\ sRead \in Nat /\ rRead \in Nat /\ Len(s2r) \in Nat /\ Len(r2s) \in Nat
      /\ sRead <= Len(r2s) /\ rRead <= Len(s2r)
  <2>1. /\ s2r \in Seq(Frame) /\ r2s \in Seq(Frame)
        /\ sRead \in 0..Len(r2s) /\ rRead \in 0..Len(s2r)
    BY DEF TypeOK, WireTypeOK
  <2>2. QED BY <2>1
<1>2. SHears /\ RAnswers /\ SentToTheEnd /\ RAwaits
  BY DEF HangInv
<1> SUFFICES ASSUME sUp \/ rUp, ~SenderCanGoOn, ~ReceiverCanGoOn
             PROVE  UserIsAsked \/ OnlyEmptyFilesAreLeft
  BY DEF NobodyHangs
<1>3. rUp
  <2>1. SUFFICES ASSUME sUp, ~rUp PROVE FALSE
    OBVIOUS
  <2>2. snd.state # "SendingFiles" /\ ~(sRead < Len(r2s))
    BY <2>1, SenderAccepts DEF SenderCanGoOn
  <2>3. sRead = Len(r2s)
    BY <1>1, <2>2
  <2>4. QED BY <2>1, <2>3 DEF SenderCanGoOn, ReadFails
<1>4. rRead = Len(s2r)
  <2>1. ~(rRead < Len(s2r))
    BY <1>3 DEF ReceiverCanGoOn
  <2>2. QED BY <1>1, <2>1
<1>5. sUp
  BY <1>3, <1>4 DEF ReceiverCanGoOn, ReadFails
<1>6. snd.state \notin {"Initial", "SendingFiles"} /\ sRead = Len(r2s)
  <2>1. snd.state \notin {"Initial", "SendingFiles"} /\ ~(sRead < Len(r2s))
    BY <1>5, SenderAccepts DEF SenderCanGoOn
  <2>2. QED BY <1>1, <2>1
<1>7. /\ snd.state \in {"SentIntroduction", "Finished"} /\ Len(s2r) >= 10
      /\ rcv.state \in {"WaitingForUserConsent", "ReceivingFiles"}
  <2>1. SPlace(snd.state, Len(s2r), Len(r2s))
    BY <1>5, <1>6 DEF AlignInv, SInStep
  <2>2. RPlace(rcv.state, Len(r2s), Len(s2r))
    BY <1>3, <1>4 DEF AlignInv, RInStep
  <2>3. QED BY <1>1, <1>6, <2>1, <2>2, PlacesMeet
<1>8. CASE snd.state = "SentIntroduction"
  <2>1. \A i \in 1..Len(r2s) : ~Answers(r2s, i)
    BY <1>2, <1>5, <1>6, <1>8 DEF SHears
  <2>2. rcv.state = "WaitingForUserConsent" /\ Published(rPub, "WaitingForUserConsent")
    BY <1>2, <1>3, <1>7, <2>1 DEF RAnswers
  <2>3. QED BY <1>3, <2>2 DEF UserIsAsked
<1>9. CASE snd.state = "Finished"
  <2>1. snd.todo = {} /\ snd.cur = {} /\ AcceptTaken
    BY <1>2, <1>9 DEF SentToTheEnd
  <2>2. rcv.state = "ReceivingFiles"
    BY <1>3, <2>1 DEF Agreed
  <2>3. Published(rPub, "WaitingForUserConsent")
    <3>1. PICK i \in 1..rTaken : rClicks[i] = "Accept"
      BY <2>1 DEF AcceptTaken
    <3>2. i \in 1..Len(rClicks)
      <4>1. rTaken \in 0..Len(rClicks) /\ Len(rClicks) \in Nat
        BY DEF TypeOK, ReceiverTypeOK
      <4>2. QED BY <4>1
    <3>3. i \in Clicked(rClicks, Answer)
      BY <3>1, <3>2 DEF Clicked, Answer
    <3>4. QED BY <3>3 DEF Agreed
  <2>4. rcv.files # {} /\ rcv.files \subseteq Announced(s2r)
    BY <1>2, <1>3, <1>4, <1>7, <2>3 DEF RAwaits
  <2>5. ASSUME NEW f \in rcv.files PROVE Size[f] = 0
    <3>1. \A i \in 1..Len(s2r) : ~LastOfFile(s2r, i, f)
      BY <1>2, <1>3, <1>4 DEF RAwaits
    <3>2. \/ f \in snd.todo \cup snd.cur \/ Size[f] = 0
          \/ \E i \in 1..Len(s2r) : LastOfFile(s2r, i, f)
      BY <1>2, <1>7, <2>4 DEF SentToTheEnd
    <3>3. QED BY <2>1, <3>1, <3>2
  <2>6. QED BY <1>3, <1>9, <2>2, <2>4, <2>5 DEF OnlyEmptyFilesAreLeft
<1>10. QED BY <1>7, <1>8, <1>9

LEMMA HangInit ==
    ASSUME Init
    PROVE  HangInv
<1>1. /\ s2r = <<>> /\ r2s = <<>> /\ sRead = 0 /\ rRead = 0 /\ rPub = <<>>
      /\ snd.state = "Initial" /\ rcv.state = "Initial" /\ rcv.files = {}
  BY DEF Init, WireInit, SenderInit, ReceiverInit
<1>2. Len(s2r) = 0 /\ Len(rPub) = 0
  BY <1>1
<1>3. SHears /\ RAnswers
  BY <1>1 DEF SHears, RAnswers
<1>4. ~(Len(s2r) >= 10)
  BY <1>2
<1>5. SentToTheEnd
  BY <1>1, <1>4 DEF SentToTheEnd
<1>6. ~Published(rPub, "WaitingForUserConsent") /\ ~(rRead >= 10)
  BY <1>1, <1>2 DEF Published
<1>7. RAwaits
  BY <1>1, <1>6 DEF RAwaits
<1>8. QED BY <1>3, <1>5, <1>7 DEF HangInv

LEMMA HangStep ==
    ASSUME TypeOK, TypeOK', AlignInv, ConsentInv, HangInv, [Next]_vars
    PROVE  HangInv'
<1>1. SHears /\ RAnswers /\ SentToTheEnd /\ RAwaits
  BY DEF HangInv
<1>2. /\ s2r \in Seq(Frame) /\ s2r' \in Seq(Frame) /\ r2s \in Seq(Frame)
      /\ r2s' \in Seq(Frame) /\ rRead \in 0..Len(s2r) /\ sRead \in 0..Len(r2s)
      /\ Len(s2r) \in Nat /\ Len(r2s) \in Nat
  <2>1. s2r \in Seq(Frame) /\ r2s \in Seq(Frame)
    BY DEF TypeOK, WireTypeOK
  <2>2. s2r' \in Seq(Frame) /\ r2s' \in Seq(Frame)
    BY DEF TypeOK, WireTypeOK
  <2>3. rRead \in 0..Len(s2r) /\ sRead \in 0..Len(r2s)
    BY DEF TypeOK, WireTypeOK
  <2>4. QED BY <2>1, <2>2, <2>3
<1>3. CASE Sender
  <2>1. SenderNext /\ UNCHANGED <<receiverVars, uiVars>>
    BY <1>3 DEF Sender
  <2>2. SenderKeeps
    BY <2>1, SenderKeepsStep DEF AlignInv
  <2>3. SHears'
    BY <1>1, <2>1, SenderHears DEF AlignInv
  <2>4. SentToTheEnd'
    BY <1>1, <2>1, <2>2, SenderSendsAll DEF AlignInv
  <2>5. rUp' = rUp /\ rcv' = rcv /\ rPub' = rPub /\ r2s' = r2s /\ rRead' = rRead
    BY <2>1 DEF receiverVars
  <2>6. RAnswers'
    BY <1>1, <2>5 DEF RAnswers, Published, Answers
  <2>7. Grows(s2r, s2r')
    BY <2>2 DEF SenderKeeps
  <2>8. /\ \A i \in 1..Len(s2r) : \A f : LastOfFile(s2r', i, f) <=> LastOfFile(s2r, i, f)
        /\ Len(s2r) >= 10 => Announced(s2r') = Announced(s2r)
    BY <1>2, <2>7, ChunksStay
  <2>9. /\ rRead >= 10 => Announced(s2r') = Announced(s2r)
        /\ \A i \in 1..rRead : \A f : LastOfFile(s2r', i, f) <=> LastOfFile(s2r, i, f)
    <3>1. rRead >= 10 => Len(s2r) >= 10
      BY <1>2
    <3>2. \A i \in 1..rRead : i \in 1..Len(s2r)
      BY <1>2
    <3>3. QED BY <2>8, <3>1, <3>2
  <2>10. RAwaits'
    <3> SUFFICES ASSUME rUp PROVE RAwaits'
      BY <2>5 DEF RAwaits
    <3>1. /\ rRead < 10 => rcv.files = {}
          /\ rRead >= 10 => rcv.files \subseteq Announced(s2r')
      BY <1>1, <2>9 DEF RAwaits
    <3>2. \A i \in 1..rRead : \A f \in rcv.files : ~LastOfFile(s2r', i, f)
      BY <1>1, <2>9 DEF RAwaits
    <3>3. Published(rPub, "WaitingForUserConsent") => rcv.files # {}
      BY <1>1 DEF RAwaits
    <3>4. QED BY <2>5, <3>1, <3>2, <3>3 DEF RAwaits, Published, LastOfFile, ChunkOf, IsChunk
  <2>11. QED BY <2>3, <2>4, <2>6, <2>10 DEF HangInv
<1>4. CASE Receiver
  <2>1. ReceiverNext /\ UNCHANGED <<senderVars, uiVars>>
    BY <1>4 DEF Receiver
  <2>2. Grows(r2s, r2s')
    BY <2>1, ReceiverKeepsStep DEF ReceiverKeeps, AlignInv
  <2>3. RAnswers'
    BY <1>1, <2>1, <2>2, ReceiverAnswers
  <2>4. RAwaits'
    BY <1>1, <2>1, ReceiverAwaits
  <2>5. sUp' = sUp /\ snd' = snd /\ s2r' = s2r /\ sRead' = sRead
    BY <2>1 DEF senderVars
  <2>6. \A i \in 1..sRead : r2s'[i] = r2s[i]
    <3>1. \A i \in 1..sRead : i \in 1..Len(r2s)
      BY <1>2
    <3>2. QED BY <2>2, <3>1 DEF Grows
  <2>7. SHears'
    BY <1>1, <2>5, <2>6 DEF SHears, Answers
  <2>8. AcceptTaken => AcceptTaken'
    BY AcceptTakenStays
  <2>9. SentToTheEnd'
    BY <1>1, <2>5, <2>8 DEF SentToTheEnd, Announced, LastOfFile, ChunkOf, IsChunk
  <2>10. QED BY <2>3, <2>4, <2>7, <2>9 DEF HangInv
<1>5. CASE FrontEnd \/ User \/ Done \/ UNCHANGED vars
  <2>1. UNCHANGED <<senderVars, receiverVars>>
    BY <1>5 DEF FrontEnd, SShow, RShow, User, UserAnswers, SUserCancels, RUserCancels,
                Done, vars
  <2>2. /\ sUp' = sUp /\ rUp' = rUp /\ rPub' = rPub /\ snd' = snd /\ rcv' = rcv
        /\ s2r' = s2r /\ r2s' = r2s /\ sRead' = sRead /\ rRead' = rRead
    BY <2>1 DEF senderVars, receiverVars
  <2>3. AcceptTaken => AcceptTaken'
    BY AcceptTakenStays
  <2>4. SHears' /\ RAnswers'
    BY <1>1, <2>2 DEF SHears, RAnswers, Answers, Published
  <2>5. SentToTheEnd'
    BY <1>1, <2>2, <2>3 DEF SentToTheEnd, Announced, LastOfFile, ChunkOf, IsChunk
  <2>6. RAwaits'
    BY <1>1, <2>2 DEF RAwaits, Announced, LastOfFile, ChunkOf, IsChunk, Published
  <2>7. QED BY <2>4, <2>5, <2>6 DEF HangInv
<1>6. QED BY <1>3, <1>4, <1>5 DEF Next

(* Nobody waits in vain: while an end is up, one of them can go on by       *)
(* itself, or it is for the receiving user to answer, or the receiver waits *)
(* for the end of files with nothing in them, which the send loop skips and *)
(* never ends.                                                              *)
THEOREM NobodyWaitsForNothing == Spec => []NobodyHangs
<1>1. Init => HangInv
  BY HangInit
<1>2. TypeOK /\ TypeOK' /\ AlignInv /\ ConsentInv /\ HangInv /\ [Next]_vars => HangInv'
  BY HangStep
<1>3. TypeOK /\ AlignInv /\ Agreed /\ HangInv => NobodyHangs
  BY HangInvSuffices
<1>4. QED
  BY <1>1, <1>2, <1>3, TypeCorrect, Aligned, ConsentAlways, AgreedAlways, PTL DEF Spec
=============================================================================
