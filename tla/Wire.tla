------------------------------- MODULE Wire -------------------------------
(***************************************************************************)
(* What an OutboundRequest and an InboundRequest exchange over their TCP   *)
(* connection.  Encryption is abstracted: a SecureMessage is its sequence  *)
(* number and its body, since both ends hold the same keys once the key    *)
(* exchange is over.  A byte stream is an append-only log of frames with   *)
(* the number of frames its reader has consumed, so that a frame keeps its *)
(* place in the log after it was read.                                     *)
(***************************************************************************)
EXTENDS Integers, Sequences, FiniteSets

CONSTANTS
    Files,      \* the files the user picked; a file stands for its payload id too
    Size,       \* Size[f]: the length of f in units, as the Introduction states it
    NotifyBytes,    \* either end publishes progress every so many units (256 KiB)
    Environments    \* what may go wrong around the two ends: the possible faults

ASSUME FilesAssumption == IsFiniteSet(Files)
ASSUME SizeAssumption == Size \in [Files -> Nat]
ASSUME NotifyAssumption == NotifyBytes \in Nat \ {0}
ASSUME EnvironmentsAssumption ==
    Environments \subseteq SUBSET {"Stop", "Crash", "Disk", "Grown"}

VARIABLES
    s2r, r2s,       \* every frame the sender, the receiver has written
    sRead, rRead,   \* how many frames of the peer's log each has read
    sUp, rUp,       \* the task that owns the socket is running
    faults          \* the environment of this behaviour, one for all of it

(* hdl/mod.rs: enum State *)
State ==
    {"Initial", "ReceivedConnectionRequest", "SentUkeyServerInit",
     "SentUkeyClientInit", "SentUkeyClientFinish", "SentPairedKeyEncryption",
     "ReceivedUkeyClientFinish", "SentConnectionResponse",
     "SentPairedKeyResult", "SentIntroduction", "ReceivedPairedKeyResult",
     "WaitingForUserConsent", "ReceivingFiles", "SendingFiles",
     "Disconnected", "Rejected", "Cancelled", "Finished"}

-----------------------------------------------------------------------------
(* Sharing frames: the payload of the setup conversation. *)

NoFrame == [frame |-> "None"]
PairedKeyEncryption == [frame |-> "PairedKeyEncryption"]
PairedKeyResult == [frame |-> "PairedKeyResult"]
Introduction(files) == [frame |-> "Introduction", files |-> files]
Response(status) == [frame |-> "Response", status |-> status]

SharingFrame ==
    {PairedKeyEncryption, PairedKeyResult}
        \cup {Introduction(files) : files \in SUBSET Files}
        \cup {Response(status) : status \in {"Accept", "Reject", "Unsupported"}}

Payload == SharingFrame \cup {NoFrame}

-----------------------------------------------------------------------------
(* Offline frames, which travel inside a SecureMessage.  A Bytes payload is *)
(* two chunks, its data and an empty last chunk; its id, random and fresh   *)
(* for each payload, is abstracted to the sharing frame it carries.         *)

Bytes(frame, last) == [type |-> "Bytes", frame |-> frame, last |-> last]
FileChunk(file, off, len, last) ==
    [type |-> "File", file |-> file, off |-> off, len |-> len, last |-> last]
Disconnection == [type |-> "Disconnection"]

Body ==
    [type : {"Bytes"}, frame : SharingFrame, last : BOOLEAN]
        \cup [type : {"File"}, file : Files, off : Nat, len : Nat, last : BOOLEAN]
        \cup {Disconnection}

-----------------------------------------------------------------------------
(* What send_frame writes: an unencrypted frame or a SecureMessage. *)

PlainKind == {"ConnectionRequest", "ClientInit", "ServerInit", "ClientFinish",
              "ConnectionResponse"}
Plain(kind) == [kind |-> kind]
Secure(seq, body) == [kind |-> "SecureMessage", seq |-> seq, body |-> body]

Frame == [kind : PlainKind] \cup [kind : {"SecureMessage"}, seq : Nat, body : Body]

(* encrypt_and_send increments server_seq before each message. *)
EncryptAndSend(server_seq, body) == <<Secure(server_seq + 1, body)>>

(* Mutant of SendEncryptedFrame: both chunks carry one sequence number. *)
SendBothAtOnce(server_seq, frame) ==
    <<Secure(server_seq + 1, Bytes(frame, FALSE)),
      Secure(server_seq + 1, Bytes(frame, TRUE))>>

(* send_encrypted_frame: the data chunk at offset 0, then the last chunk. *)
SendEncryptedFrame(server_seq, frame) ==
    <<Secure(server_seq + 1, Bytes(frame, FALSE)),
      Secure(server_seq + 2, Bytes(frame, TRUE))>>

(* get_client_seq_inc and the comparison that follows it. *)
InSequence(frame, client_seq) ==
    frame.kind = "SecureMessage" /\ frame.seq = client_seq + 1

(* Mutant of ReadFails: end-of-file is not an error, only a reset is. *)
ReadFailsOnReset(peerUp, log, read, ourLog, peerRead) ==
    ~peerUp /\ peerRead < Len(ourLog)

(* A read fails when the peer's socket is closed: with end-of-file once     *)
(* everything it wrote is read, and at any time with a reset when it closed *)
(* while data of ours was still unread on its side.                         *)
ReadFails(peerUp, log, read, ourLog, peerRead) ==
    ~peerUp /\ (read = Len(log) \/ peerRead < Len(ourLog))

WireInit ==
    /\ s2r = <<>> /\ r2s = <<>>
    /\ sRead = 0 /\ rRead = 0
    /\ sUp = TRUE /\ rUp = TRUE
    /\ faults \in Environments

WireTypeOK ==
    /\ s2r \in Seq(Frame) /\ r2s \in Seq(Frame)
    /\ sRead \in 0..Len(r2s) /\ rRead \in 0..Len(s2r)
    /\ sUp \in BOOLEAN /\ rUp \in BOOLEAN
    /\ faults \in Environments
=============================================================================
