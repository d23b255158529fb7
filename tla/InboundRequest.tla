-------------------------- MODULE InboundRequest ---------------------------
(***************************************************************************)
(* The receiving end of one transfer: InboundRequest::handle driven by the *)
(* task TcpServer::run spawns for each accepted socket (hdl/inbound.rs,    *)
(* manager.rs), and the files it writes in the download directory.  It     *)
(* changes only the variables of the receiving end.                        *)
(***************************************************************************)
EXTENDS Wire

VARIABLES
    rcv,        \* InboundRequest.state, the fields of InnerState that matter
    rPub,       \* the states published to the receiver's front end, in order
    rClicks,    \* the actions the receiver's front end has sent, in order
    rTaken,     \* how many of them the task has received
    disk        \* the file each payload is stored in

receiverVars == <<r2s, rRead, rUp, rcv, rPub, rTaken, disk>>

ReceiverState ==
    [state : State,
     server_seq : Nat,             \* sequence number of the last message sent
     client_seq : Nat,             \* sequence number of the last one received
     buf : Payload,                \* payload_buffers: the open payload
     files : SUBSET Files,         \* the keys of transferred_files
     got : [Files -> Nat],         \* bytes_transferred of each file
     open : SUBSET Files,          \* those whose file is Some
     ack : Nat,                    \* transfer_metadata.ack_bytes
     noted : Nat]                  \* last_notified_bytes

(* A stored file holds the units from..to-1 of its source, in order. *)
Stored == [exists : BOOLEAN, from : Nat, to : Nat]

ReceiverInit ==
    /\ rcv = [state |-> "Initial", server_seq |-> 0, client_seq |-> 0,
              buf |-> NoFrame, files |-> {}, got |-> [f \in Files |-> 0],
              open |-> {}, ack |-> 0, noted |-> 0]
    /\ rPub = <<>> /\ rTaken = 0
    /\ disk = [f \in Files |-> [exists |-> FALSE, from |-> 0, to |-> 0]]

ReceiverTypeOK ==
    /\ rcv \in ReceiverState
    /\ rPub \in Seq(State)
    /\ rTaken \in 0..Len(rClicks)
    /\ disk \in [Files -> Stored]

-----------------------------------------------------------------------------
(* The frames of the handshake, each expected in one state. *)
RHead == s2r[rRead + 1]

RReads ==
    /\ rUp /\ rRead < Len(s2r)
    /\ rRead' = rRead + 1
    /\ UNCHANGED rTaken

RConnectionRequest ==
    /\ RReads
    /\ rcv.state = "Initial" /\ RHead.kind = "ConnectionRequest"
    /\ rcv' = [rcv EXCEPT !.state = "ReceivedConnectionRequest"]
    /\ UNCHANGED <<r2s, rUp, rPub, disk>>

RClientInit ==
    /\ RReads
    /\ rcv.state = "ReceivedConnectionRequest" /\ RHead.kind = "ClientInit"
    /\ r2s' = r2s \o <<Plain("ServerInit")>>
    /\ rcv' = [rcv EXCEPT !.state = "SentUkeyServerInit"]
    /\ UNCHANGED <<rUp, rPub, disk>>

RClientFinish ==
    /\ RReads
    /\ rcv.state = "SentUkeyServerInit" /\ RHead.kind = "ClientFinish"
    /\ rcv' = [rcv EXCEPT !.state = "ReceivedUkeyClientFinish"]
    /\ UNCHANGED <<r2s, rUp, rPub, disk>>

RConnectionResponse ==
    /\ RReads
    /\ rcv.state = "ReceivedUkeyClientFinish" /\ RHead.kind = "ConnectionResponse"
    /\ r2s' = r2s \o <<Plain("ConnectionResponse")>>
                  \o SendEncryptedFrame(rcv.server_seq, PairedKeyEncryption)
    /\ rcv' = [rcv EXCEPT !.state = "SentConnectionResponse", !.server_seq = @ + 2]
    /\ UNCHANGED <<rUp, rPub, disk>>

-----------------------------------------------------------------------------
(* decrypt_and_process_secure_message *)
RHandshakeState == {"Initial", "ReceivedConnectionRequest", "SentUkeyServerInit",
                    "ReceivedUkeyClientFinish"}

RReadsSecure ==
    /\ RReads
    /\ rcv.state \notin RHandshakeState
    /\ InSequence(RHead, rcv.client_seq)

RBytesData ==
    /\ RReadsSecure
    /\ RHead.body.type = "Bytes" /\ ~RHead.body.last
    /\ rcv' = [rcv EXCEPT !.client_seq = @ + 1, !.buf = RHead.body.frame]
    /\ UNCHANGED <<r2s, rUp, rPub, disk>>

(* The last chunk completes the payload and hands it to process_transfer_setup. *)
RReadsSharing ==
    /\ RReadsSecure
    /\ RHead.body.type = "Bytes" /\ RHead.body.last
    /\ rcv.buf = RHead.body.frame

RPairedKeyEncryption ==
    /\ RReadsSharing
    /\ rcv.state = "SentConnectionResponse" /\ rcv.buf = PairedKeyEncryption
    /\ r2s' = r2s \o SendEncryptedFrame(rcv.server_seq, PairedKeyResult)
    /\ rcv' = [rcv EXCEPT !.state = "SentPairedKeyResult",
                          !.client_seq = @ + 1, !.server_seq = @ + 2,
                          !.buf = NoFrame]
    /\ UNCHANGED <<rUp, rPub, disk>>

RPairedKeyResult ==
    /\ RReadsSharing
    /\ rcv.state = "SentPairedKeyResult" /\ rcv.buf = PairedKeyResult
    /\ rcv' = [rcv EXCEPT !.state = "ReceivedPairedKeyResult",
                          !.client_seq = @ + 1, !.buf = NoFrame]
    /\ UNCHANGED <<r2s, rUp, rPub, disk>>

(* process_introduction with files: the user is asked. *)
RIntroduction ==
    /\ RReadsSharing
    /\ rcv.state = "ReceivedPairedKeyResult"
    /\ rcv.buf.frame = "Introduction" /\ rcv.buf.files # {}
    /\ rcv' = [rcv EXCEPT !.state = "WaitingForUserConsent",
                          !.client_seq = @ + 1, !.buf = NoFrame,
                          !.files = rcv.buf.files]
    /\ rPub' = Append(rPub, "WaitingForUserConsent")
    /\ UNCHANGED <<r2s, rUp, disk>>

(* process_introduction without any: refused, and the user is not told,   *)
(* although the state is WaitingForUserConsent already.                   *)
REmptyIntroduction ==
    /\ RReadsSharing
    /\ rcv.state = "ReceivedPairedKeyResult" /\ rcv.buf = Introduction({})
    /\ r2s' = r2s \o SendEncryptedFrame(rcv.server_seq, Response("Unsupported"))
    /\ rcv' = [rcv EXCEPT !.state = "WaitingForUserConsent",
                          !.client_seq = @ + 1, !.server_seq = @ + 2,
                          !.buf = NoFrame]
    /\ UNCHANGED <<rUp, rPub, disk>>

(* The checks on a chunk: a known file, at its offset, within its size. *)
ChunkFits(c) ==
    /\ c.file \in rcv.files
    /\ c.off = rcv.got[c.file]
    /\ c.off + c.len <= Size[c.file]

(* Mutant of WriteAll: each chunk is written at the start of the file. *)
WriteAllAtStart(file, len) ==
    [disk EXCEPT ![file] = [exists |-> @.exists, from |-> @.from, to |-> len]]

(* write_all goes on where the last write ended. *)
WriteAll(file, len) ==
    [disk EXCEPT ![file] = [exists |-> @.exists, from |-> @.from, to |-> @.to + len]]

RFileChunk ==
    LET c == RHead.body
        ack == rcv.ack + c.len
        notify == c.len > 0 /\ ack - rcv.noted >= NotifyBytes
    IN
    /\ RReadsSecure
    /\ c.type = "File" /\ ChunkFits(c)
    /\ c.len > 0 \/ ~c.last
    /\ c.len > 0 => c.file \in rcv.open      \* file.as_mut().unwrap()
    /\ disk' = WriteAll(c.file, c.len)
    /\ rcv' = [rcv EXCEPT !.client_seq = @ + 1, !.got[c.file] = @ + c.len,
                          !.ack = ack, !.noted = IF notify THEN ack ELSE @]
    /\ rPub' = IF notify THEN Append(rPub, rcv.state) ELSE rPub
    /\ UNCHANGED <<r2s, rUp>>

(* The empty chunk that ends a file; the last file ends the transfer. *)
RFileLast ==
    LET c == RHead.body
        rest == rcv.files \ {c.file}
    IN
    /\ RReadsSecure
    /\ c.type = "File" /\ ChunkFits(c) /\ c.len = 0 /\ c.last
    /\ IF rest = {}
         THEN /\ rcv' = [rcv EXCEPT !.client_seq = @ + 1, !.files = rest,
                                    !.open = @ \ {c.file}, !.state = "Finished",
                                    !.server_seq = @ + 1]
              /\ rPub' = Append(rPub, "Finished")
              /\ r2s' = r2s \o EncryptAndSend(rcv.server_seq, Disconnection)
              /\ rUp' = FALSE
         ELSE /\ rcv' = [rcv EXCEPT !.client_seq = @ + 1, !.files = rest,
                                    !.open = @ \ {c.file}]
              /\ UNCHANGED <<rPub, r2s, rUp>>
    /\ UNCHANGED disk

(* A Disconnection frame is only logged; the task waits for end-of-file. *)
RDisconnection ==
    /\ RReadsSecure
    /\ RHead.body = Disconnection
    /\ rcv' = [rcv EXCEPT !.client_seq = @ + 1]
    /\ UNCHANGED <<r2s, rUp, rPub, disk>>

-----------------------------------------------------------------------------
(* Commands from the front end, taken in any state. *)
RTakes(click) ==
    /\ rUp /\ rTaken < Len(rClicks) /\ rClicks[rTaken + 1] = click
    /\ rTaken' = rTaken + 1
    /\ UNCHANGED rRead

(* File::create truncates what is there and starts writing at its beginning. *)
Create(files) ==
    [f \in Files |-> IF f \in files
                       THEN [exists |-> TRUE, from |-> rcv.got[f], to |-> rcv.got[f]]
                       ELSE disk[f]]

(* Mutant of RAccept: the created files are not kept open. *)
RAcceptUnopened ==
    /\ RTakes("Accept")
    /\ disk' = Create(rcv.files)
    /\ r2s' = r2s \o SendEncryptedFrame(rcv.server_seq, Response("Accept"))
    /\ rcv' = [rcv EXCEPT !.state = "ReceivingFiles", !.server_seq = @ + 2]
    /\ rPub' = Append(rPub, "ReceivingFiles")
    /\ UNCHANGED rUp

(* accept_transfer does not look at the state. *)
RAccept ==
    /\ RTakes("Accept")
    /\ disk' = Create(rcv.files)
    /\ r2s' = r2s \o SendEncryptedFrame(rcv.server_seq, Response("Accept"))
    /\ rcv' = [rcv EXCEPT !.state = "ReceivingFiles", !.server_seq = @ + 2,
                          !.open = rcv.files]
    /\ rPub' = Append(rPub, "ReceivingFiles")
    /\ UNCHANGED rUp

(* When the answer cannot be written, the error arm publishes Disconnected. *)
RReject ==
    /\ RTakes("Reject")
    /\ rcv' = [rcv EXCEPT !.state = "Rejected", !.server_seq = @ + 2]
    /\ r2s' = r2s \o SendEncryptedFrame(rcv.server_seq, Response("Reject"))
    /\ \/ rPub' = Append(rPub, "Rejected")
       \/ ~sUp /\ rPub' = rPub \o <<"Rejected", "Disconnected">>
    /\ rUp' = FALSE
    /\ UNCHANGED disk

RCancel ==
    /\ RTakes("Cancel")
    /\ rcv' = [rcv EXCEPT !.state = "Cancelled", !.server_seq = @ + 1]
    /\ r2s' = r2s \o EncryptAndSend(rcv.server_seq, Disconnection)
    /\ \/ rPub' = Append(rPub, "Cancelled")
       \/ ~sUp /\ rPub' = rPub \o <<"Cancelled", "Disconnected">>
    /\ rUp' = FALSE
    /\ UNCHANGED disk

-----------------------------------------------------------------------------
(* Mutant of RExitOnError: only a transfer under way is reported lost. *)
RExitOnErrorQuiet ==
    /\ rUp' = FALSE
    /\ rPub' = IF rcv.state # "ReceivingFiles"
                 THEN rPub ELSE Append(rPub, "Disconnected")
    /\ UNCHANGED <<r2s, rcv>>

(* The error arm of the task. *)
RExitOnError ==
    /\ rUp' = FALSE
    /\ rPub' = IF rcv.state \in {"Initial", "Finished"}
                 THEN rPub ELSE Append(rPub, "Disconnected")
    /\ UNCHANGED <<r2s, rcv>>

RConnectionLost ==
    /\ rUp /\ ReadFails(sUp, s2r, rRead, r2s, sRead)
    /\ RExitOnError
    /\ UNCHANGED <<rRead, rTaken, disk>>

(* The user accepts, but a file cannot be created, or the answer cannot be *)
(* written once all of them were.                                          *)
RAcceptFails ==
    /\ RTakes("Accept")
    /\ \E created \in SUBSET rcv.files :
        /\ \/ "Disk" \in faults /\ created # rcv.files
           \/ ~sUp /\ created = rcv.files
        /\ disk' = Create(created)
    /\ RExitOnError

(* write_all on the stored file fails. *)
RStoreFails ==
    /\ "Disk" \in faults
    /\ RReadsSecure
    /\ RHead.body.type = "File" /\ ChunkFits(RHead.body) /\ RHead.body.len > 0
    /\ RExitOnError
    /\ UNCHANGED disk

(* What the handler of the receiver's next frame requires of it. *)
RAcceptable(frame) ==
    CASE rcv.state = "Initial" -> frame.kind = "ConnectionRequest"
      [] rcv.state = "ReceivedConnectionRequest" -> frame.kind = "ClientInit"
      [] rcv.state = "SentUkeyServerInit" -> frame.kind = "ClientFinish"
      [] rcv.state = "ReceivedUkeyClientFinish" -> frame.kind = "ConnectionResponse"
      [] OTHER ->
           /\ InSequence(frame, rcv.client_seq)
           /\ frame.body.type = "Bytes" /\ frame.body.last =>
                /\ rcv.buf = frame.body.frame
                /\ rcv.state = "SentConnectionResponse" =>
                     rcv.buf = PairedKeyEncryption
                /\ rcv.state = "SentPairedKeyResult" => rcv.buf = PairedKeyResult
                /\ rcv.state = "ReceivedPairedKeyResult" =>
                     rcv.buf.frame = "Introduction"
           /\ frame.body.type = "File" => ChunkFits(frame.body)

(* Any other frame is an error that ends the task. *)
RBadFrame ==
    /\ RReads /\ ~RAcceptable(RHead)
    /\ RExitOnError
    /\ UNCHANGED disk

(* The process is killed: nothing is published, the sockets are closed. *)
RCrash ==
    /\ "Crash" \in faults
    /\ rUp /\ rUp' = FALSE
    /\ UNCHANGED <<r2s, rRead, rcv, rPub, rTaken, disk>>

RHandleFrame ==
    \/ RConnectionRequest \/ RClientInit \/ RClientFinish \/ RConnectionResponse
    \/ RBytesData \/ RPairedKeyEncryption \/ RPairedKeyResult
    \/ RIntroduction \/ REmptyIntroduction
    \/ RFileChunk \/ RFileLast \/ RDisconnection \/ RBadFrame

RHandleCommand == RAccept \/ RReject \/ RCancel

ReceiverStep == RHandleFrame \/ RHandleCommand \/ RConnectionLost

ReceiverNext == ReceiverStep \/ RAcceptFails \/ RStoreFails \/ RCrash
=============================================================================
