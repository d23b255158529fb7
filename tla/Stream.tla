------------------------------- MODULE Stream -------------------------------
(***************************************************************************)
(* The bytes of a transfer of one file, from its acceptance to its end.    *)
(* The send loop writes frames, each a length and a body, to a connection  *)
(* that holds only so many bytes; handle() of the receiver waits at once   *)
(* for a length and for a message of the bus.  Connection has whole frames *)
(* where this module has bytes, and no limit on those under way.           *)
(***************************************************************************)
EXTENDS Integers, SequencesExt

CONSTANTS
    Prefix,         \* how many bytes a length has (4)
    Total,          \* the length of the file as it was announced, in units
    ReadBuffer,     \* how many units one read returns at most
    NotifyUnits,    \* the receiver publishes progress every so many units
    Buffer,         \* how many bytes the connection holds
    MaxOthers,      \* bound on the messages of other transfers on the bus
    MaxSwallowed    \* bound on the length that is read from other bytes

ASSUME PrefixAssumption == Prefix \in Nat \ {0}
ASSUME TotalAssumption == Total \in Nat \ {0}
ASSUME BufferAssumption == Buffer \in Nat \ {0} /\ ReadBuffer \in Nat \ {0}
ASSUME NotifyAssumption == NotifyUnits \in Nat \ {0}
ASSUME BoundsAssumption == MaxOthers \in Nat /\ MaxSwallowed \in Nat

VARIABLES
    source,     \* how long the file is now
    sState, sUp,    \* the sender
    sent,       \* bytes_transferred of the sender
    frame, left,    \* the frame it writes, and how many bytes are left of it
    wire,       \* the bytes that were written and not read
    rState, rUp,    \* the receiver
    got,        \* what this call of handle() has read of a length
    reading, toRead,    \* the frame whose body it reads, and how much is left
    stored,     \* bytes_transferred of the receiver
    noted,      \* last_notified_bytes
    bus,        \* the messages the receiver's end of the bus holds
    others,     \* how many of them came from other transfers
    cut         \* a message was received when part of a length was read

senderVars == <<source, sState, sUp, sent, frame, left>>
receiverVars == <<rState, rUp, got, reading, toRead, stored, noted, cut>>
busVars == <<bus, others>>
streamVars == <<senderVars, wire, receiverVars, busVars>>

Chunk(offset, n) == [kind |-> "Chunk", offset |-> offset, n |-> n]
LastChunk == [kind |-> "Last", offset |-> Total, n |-> 0]
Disconnection == [kind |-> "Disconnection", offset |-> 0, n |-> 0]
Garbage == [kind |-> "Garbage", offset |-> 0, n |-> 0]

(* The bodies of all frames have something in them besides the data. *)
BodyLength(f) == 1 + f.n
Bytes(f) == [i \in 1..(Prefix + BodyLength(f)) |-> [of |-> f, at |-> i]]

(* The file may have become shorter since it was announced. *)
StreamInit ==
    /\ source \in 0..Total
    /\ sState = "SendingFiles" /\ sUp = TRUE /\ sent = 0
    /\ frame = Disconnection /\ left = 0
    /\ wire = <<>>
    /\ rState = "ReceivingFiles" /\ rUp = TRUE
    /\ got = <<>> /\ reading = Disconnection /\ toRead = 0
    /\ stored = 0 /\ noted = 0
    /\ bus = <<>> /\ others = 0 /\ cut = FALSE

-----------------------------------------------------------------------------
(* The sender: process_consent. *)

Writes(f) == frame' = f /\ left' = Prefix + BodyLength(f)

(* Mutant of SReadAndSend: the end of the source file ends the transfer. *)
SReadAndStop(n) ==
    /\ sUp /\ sState = "SendingFiles" /\ left = 0 /\ sent # Total
    /\ n <= source - sent /\ (n = 0 => sent = source)
    /\ Writes([kind |-> IF n = 0 THEN "Last" ELSE "Chunk", offset |-> sent, n |-> n])
    /\ sent' = sent + n
    /\ UNCHANGED <<source, sState, sUp, wire, receiverVars, busVars>>

(* A read of the file returns what is left of it or less, and nothing at    *)
(* its end; whatever it returns is sent.                                    *)
SReadAndSend(n) ==
    /\ sUp /\ sState = "SendingFiles" /\ left = 0 /\ sent # Total
    /\ n <= source - sent /\ (n = 0 => sent = source)
    /\ Writes(Chunk(sent, n))
    /\ sent' = sent + n
    /\ UNCHANGED <<source, sState, sUp, wire, receiverVars, busVars>>

SSendLast ==
    /\ sUp /\ sState = "SendingFiles" /\ left = 0
    /\ sent = Total /\ frame.kind = "Chunk"
    /\ Writes(LastChunk)
    /\ UNCHANGED <<source, sState, sUp, sent, wire, receiverVars, busVars>>

SFinish ==
    /\ sUp /\ sState = "SendingFiles" /\ left = 0 /\ frame.kind = "Last"
    /\ sState' = "Finished"
    /\ Writes(Disconnection)
    /\ UNCHANGED <<source, sUp, sent, wire, receiverVars, busVars>>

(* Mutant of SWrite: a frame is written when there is room for all of it. *)
SWriteWhole(k) ==
    /\ sUp /\ rUp /\ k = left /\ Len(wire) + k <= Buffer
    /\ wire' = wire \o Bytes(frame) /\ left' = 0
    /\ UNCHANGED <<source, sState, sUp, sent, frame, receiverVars, busVars>>

(* write_all goes on while the connection has room. *)
SWrite(k) ==
    /\ sUp /\ rUp /\ k <= left /\ Len(wire) + k <= Buffer
    /\ LET bytes == Bytes(frame)
           from == Len(bytes) - left
       IN  wire' = wire \o SubSeq(bytes, from + 1, from + k)
    /\ left' = left - k
    /\ UNCHANGED <<source, sState, sUp, sent, frame, receiverVars, busVars>>

(* Mutant of SLost: a failed write is tried again. *)
SLostAtTheEnd ==
    /\ sUp /\ ~rUp /\ sState = "Finished"
    /\ sUp' = FALSE
    /\ UNCHANGED <<source, sState, sent, frame, left, wire, receiverVars, busVars>>

(* A write fails, or the read of a sender that has finished; the error arm  *)
(* tells of Disconnected unless it has.                                     *)
SLost ==
    /\ sUp /\ ~rUp /\ (left > 0 \/ sState = "Finished")
    /\ sUp' = FALSE
    /\ sState' = IF sState = "Finished" THEN sState ELSE "Disconnected"
    /\ UNCHANGED <<source, sent, frame, left, wire, receiverVars, busVars>>

(* The task is dropped, in the middle of a frame too (RQS::stop, a crash). *)
SStop ==
    /\ sUp /\ sUp' = FALSE
    /\ UNCHANGED <<source, sState, sent, frame, left, wire, receiverVars, busVars>>

-----------------------------------------------------------------------------
(* The receiver: handle(), _handle() and what they call. *)

Selecting == rUp /\ toRead = 0
Publish == bus' = Append(bus, "update")

(* The length is that of a frame if its bytes are, from the first on. *)
Aligned(bytes) == \A i \in 1..Prefix : bytes[i] = [of |-> bytes[1].of, at |-> i]

(* read_exact of a length, as far as its bytes have come. *)
RReadPart(k) ==
    /\ Selecting /\ k < Prefix - Len(got) /\ k <= Len(wire)
    /\ wire' = SubSeq(wire, k + 1, Len(wire))
    /\ got' = got \o SubSeq(wire, 1, k)
    /\ UNCHANGED <<senderVars, rState, rUp, reading, toRead, stored, noted, busVars, cut>>

(* The length is complete.  If it is one of other bytes, it is an error, or *)
(* it is taken for that of a body.                                          *)
RReadLength ==
    LET k == Prefix - Len(got)
        length == got \o SubSeq(wire, 1, k)
    IN
    /\ Selecting /\ k <= Len(wire)
    /\ wire' = SubSeq(wire, k + 1, Len(wire))
    /\ got' = <<>>
    /\ IF Aligned(length)
         THEN /\ reading' = length[1].of /\ toRead' = BodyLength(reading')
              /\ UNCHANGED <<rState, rUp>>
         ELSE /\ reading' = Garbage
              /\ \/ toRead' \in 1..MaxSwallowed /\ UNCHANGED <<rState, rUp>>
                 \/ rState' = "Disconnected" /\ rUp' = FALSE /\ UNCHANGED toRead
    /\ UNCHANGED <<senderVars, stored, noted, busVars, cut>>

(* Mutant of RReceive: the body is read in the select!, too. *)
RReceiveAnytime ==
    /\ rUp /\ bus # <<>> /\ Head(bus) = "update"
    /\ bus' = Tail(bus)
    /\ got' = <<>> /\ cut' = (cut \/ got # <<>>)
    /\ toRead' = 0
    /\ UNCHANGED <<senderVars, wire, rState, rUp, reading, stored, noted, others>>

(* The other branch of the select!: read_exact is dropped with the bytes it *)
(* has, since length_buf is a variable of this call of handle().            *)
RReceive ==
    /\ Selecting /\ bus # <<>> /\ Head(bus) = "update"
    /\ bus' = Tail(bus)
    /\ got' = <<>> /\ cut' = (cut \/ got # <<>>)
    /\ UNCHANGED <<senderVars, wire, rState, rUp, reading, toRead, stored, noted, others>>

(* Mutant of RCancel: the select! is biased towards the socket. *)
RCancelWhenIdle ==
    /\ Selecting /\ wire = <<>> /\ bus # <<>> /\ Head(bus) = "CancelTransfer"
    /\ bus' = Tail(bus)
    /\ rState' = "Cancelled" /\ rUp' = FALSE
    /\ UNCHANGED <<senderVars, wire, got, reading, toRead, stored, noted, others, cut>>

(* CancelTransfer: the receiver ends, in the middle of a length or not. *)
RCancel ==
    /\ Selecting /\ bus # <<>> /\ Head(bus) = "CancelTransfer"
    /\ bus' = Tail(bus)
    /\ rState' = "Cancelled" /\ rUp' = FALSE
    /\ UNCHANGED <<senderVars, wire, got, reading, toRead, stored, noted, others, cut>>

(* What the body must be: a frame, the next one by its sequence number,     *)
(* which it is not once one was lost, and a chunk at its place in the file. *)
InPlace(f) ==
    /\ f # Garbage /\ ~cut
    /\ f.kind \in {"Chunk", "Last"} => f.offset = stored

Notifies(n) == n > 0 /\ stored + n - noted >= NotifyUnits

(* The body was read: an error, a chunk, the last one, or the goodbye. *)
Handled(f) ==
    IF InPlace(f)
      THEN /\ stored' = stored + f.n
           /\ noted' = IF Notifies(f.n) THEN stored' ELSE noted
           /\ IF Notifies(f.n) THEN Publish ELSE UNCHANGED bus
           /\ rState' = IF f.kind = "Last" THEN "Finished" ELSE rState
           /\ rUp' = (f.kind # "Last")
      ELSE /\ rState' = "Disconnected" /\ rUp' = FALSE
           /\ UNCHANGED <<stored, noted, bus>>

(* read_exact of a body, which nothing interrupts. *)
RReadBody(k) ==
    /\ rUp /\ k <= toRead /\ k <= Len(wire)
    /\ wire' = SubSeq(wire, k + 1, Len(wire))
    /\ toRead' = toRead - k
    /\ IF toRead = k THEN Handled(reading)
                     ELSE UNCHANGED <<rState, rUp, stored, noted, bus>>
    /\ UNCHANGED <<senderVars, got, reading, others, cut>>

(* The end of the connection. *)
RLost ==
    /\ rUp /\ ~sUp /\ wire = <<>>
    /\ rState' = "Disconnected" /\ rUp' = FALSE
    /\ UNCHANGED <<senderVars, wire, got, reading, toRead, stored, noted, busVars, cut>>

-----------------------------------------------------------------------------
(* What else is on the bus. *)

Other ==
    /\ others < MaxOthers /\ others' = others + 1
    /\ Publish
    /\ UNCHANGED <<senderVars, wire, receiverVars>>

Cancel ==
    /\ rUp /\ ~Contains(bus, "CancelTransfer")
    /\ bus' = Append(bus, "CancelTransfer")
    /\ UNCHANGED <<senderVars, wire, receiverVars, others>>

SStep == \/ \E n \in 0..ReadBuffer : SReadAndSend(n)
         \/ SSendLast \/ SFinish \/ SLost
         \/ \E k \in 1..Buffer : SWrite(k)

RRead == \/ \E k \in 1..Prefix : RReadPart(k)
         \/ RReadLength
         \/ \E k \in 1..Buffer : RReadBody(k)

StreamNext ==
    \/ SStep \/ SStop
    \/ RRead \/ RReceive \/ RCancel \/ RLost
    \/ Other \/ Cancel

StreamSpec == StreamInit /\ [][StreamNext]_streamVars

(* Both tasks get to run.  select! polls its branches in random order, so   *)
(* that a message which is there time and again is received.                *)
StreamFairness ==
    /\ WF_streamVars(SStep)
    /\ WF_streamVars(RRead) /\ WF_streamVars(RLost)
    /\ SF_streamVars(RReceive \/ RCancel)

StreamFairSpec == StreamSpec /\ StreamFairness

-----------------------------------------------------------------------------
(* The receiver takes other bytes for a length only after a message of the  *)
(* bus was received between two bytes of one; a message that comes at any   *)
(* other time, during a body for instance, does no harm.                    *)
OnlyACutMisleads == reading = Garbage => cut

(* A receiver that says Finished has the file as it was announced: it does  *)
(* not look at the length that was announced when the last chunk comes, but *)
(* only at its place, and relies on a sender that sends one only there.     *)
FinishedMeansAll == rState = "Finished" => stored = Total

(* A file that is what was announced is delivered, however few bytes the    *)
(* connection holds, unless a user or a cut stops it.                       *)
UncutIsDelivered ==
    /\ source = Total
    /\ [](~cut /\ rState # "Cancelled" /\ (sState = "SendingFiles" => sUp))
    => <>(sState = "Finished" /\ rState = "Finished")

(* Neither end is left behind by the other: not the receiver in the middle  *)
(* of a frame, not the sender that reads the end of its file for ever.      *)
NoEndIsLeftBehind == (~sUp ~> ~rUp) /\ (~rUp ~> ~sUp)

(* The receiver obeys its user in the midst of a transfer, and so one that  *)
(* makes no progress can be ended, unless it has lost its place.            *)
CancelIsObeyed == Contains(bus, "CancelTransfer") ~> ~rUp \/ reading = Garbage
=============================================================================
