-------------------------- MODULE OutboundRequest --------------------------
(***************************************************************************)
(* The sending end of one transfer: OutboundRequest::handle driven by      *)
(* TcpServer::connect (hdl/outbound.rs, manager.rs).  One action per frame *)
(* it handles, per iteration of its send loop, per command and per way out *)
(* of its task.  It changes only the variables of the sending end.         *)
(***************************************************************************)
EXTENDS Wire

CONSTANTS
    SourceLen,    \* SourceLen[f]: what reading f yields once it has grown
    Vanishing,    \* files that may no longer be readable at introduction time
    ReadBuffer,   \* the most one read of a source file returns (512 KiB)
    MaxFrames     \* bound on the empty chunks sent at the end of a grown file

ASSUME SourceAssumption ==
    SourceLen \in [Files -> Nat] /\ \A f \in Files : SourceLen[f] >= Size[f]
ASSUME VanishingAssumption == Vanishing \subseteq Files
ASSUME ReadBufferAssumption == ReadBuffer \in Nat \ {0}
ASSUME MaxFramesAssumption == MaxFrames \in Nat

VARIABLES
    snd,        \* OutboundRequest.state, the fields of InnerState that matter
    sPub,       \* the states published to the sender's front end, in order
    sClicks,    \* the actions the sender's front end has sent, in order
    sTaken      \* how many of them the task has received

senderVars == <<s2r, sRead, sUp, snd, sPub, sTaken>>

SenderState ==
    [state : State,
     server_seq : Nat,             \* sequence number of the last message sent
     client_seq : Nat,             \* sequence number of the last one received
     buf : Payload,                \* payload_buffers: the open payload
     todo : SUBSET Files,          \* ids the send loop has not picked yet
     cur : SUBSET Files,           \* the file being sent, if any
     sent : [Files -> Nat],        \* bytes_transferred of each file
     ack : Nat,                    \* transfer_metadata.ack_bytes
     noted : Nat]                  \* last_notified_bytes

SenderInit ==
    /\ snd = [state |-> "Initial", server_seq |-> 0, client_seq |-> 0,
              buf |-> NoFrame, todo |-> {}, cur |-> {},
              sent |-> [f \in Files |-> 0], ack |-> 0, noted |-> 0]
    /\ sPub = <<>> /\ sTaken = 0

SenderTypeOK ==
    /\ snd \in SenderState
    /\ sPub \in Seq(State)
    /\ sTaken \in 0..Len(sClicks)

-----------------------------------------------------------------------------
(* send_connection_request, then send_ukey2_client_init. *)
SConnect ==
    /\ sUp /\ snd.state = "Initial"
    /\ s2r' = s2r \o <<Plain("ConnectionRequest"), Plain("ClientInit")>>
    /\ snd' = [snd EXCEPT !.state = "SentUkeyClientInit"]
    /\ UNCHANGED <<sRead, sUp, sPub, sTaken>>

(* The task reads a frame between two commands, but not while process_consent *)
(* runs the send loop.                                                        *)
SHead == r2s[sRead + 1]

SReads ==
    /\ sUp /\ snd.state # "SendingFiles"
    /\ sRead < Len(r2s)
    /\ sRead' = sRead + 1
    /\ UNCHANGED sTaken

(* finalize_key_exchange publishes the pin code while the state still says *)
(* SentUkeyClientInit.                                                     *)
SServerInit ==
    /\ SReads
    /\ snd.state = "SentUkeyClientInit" /\ SHead.kind = "ServerInit"
    /\ sPub' = Append(sPub, snd.state)
    /\ s2r' = s2r \o <<Plain("ClientFinish"), Plain("ConnectionResponse")>>
    /\ snd' = [snd EXCEPT !.state = "SentUkeyClientFinish"]
    /\ UNCHANGED sUp

SConnectionResponse ==
    /\ SReads
    /\ snd.state = "SentUkeyClientFinish" /\ SHead.kind = "ConnectionResponse"
    /\ s2r' = s2r \o SendEncryptedFrame(snd.server_seq, PairedKeyEncryption)
    /\ snd' = [snd EXCEPT !.state = "SentPairedKeyEncryption",
                          !.server_seq = @ + 2]
    /\ UNCHANGED <<sUp, sPub>>

(* decrypt_and_process_secure_message up to its match on the frame type. *)
SReadsSecure ==
    /\ SReads
    /\ snd.state \notin {"Initial", "SentUkeyClientInit", "SentUkeyClientFinish"}
    /\ InSequence(SHead, snd.client_seq)

SBytesData ==
    /\ SReadsSecure
    /\ SHead.body.type = "Bytes" /\ ~SHead.body.last
    /\ snd' = [snd EXCEPT !.client_seq = @ + 1, !.buf = SHead.body.frame]
    /\ UNCHANGED <<s2r, sUp, sPub>>

(* The last chunk completes the payload and hands it to process_transfer_setup. *)
SReadsSharing ==
    /\ SReadsSecure
    /\ SHead.body.type = "Bytes" /\ SHead.body.last
    /\ snd.buf = SHead.body.frame

SPairedKeyEncryption ==
    /\ SReadsSharing
    /\ snd.state = "SentPairedKeyEncryption" /\ snd.buf = PairedKeyEncryption
    /\ s2r' = s2r \o SendEncryptedFrame(snd.server_seq, PairedKeyResult)
    /\ snd' = [snd EXCEPT !.state = "SentPairedKeyResult",
                          !.client_seq = @ + 1, !.server_seq = @ + 2,
                          !.buf = NoFrame]
    /\ UNCHANGED <<sUp, sPub>>

(* Files that cannot be opened are left out of the Introduction. *)
SPairedKeyResult ==
    /\ SReadsSharing
    /\ snd.state = "SentPairedKeyResult" /\ snd.buf = PairedKeyResult
    /\ \E missing \in SUBSET Vanishing :
        /\ s2r' = s2r \o SendEncryptedFrame(snd.server_seq,
                                            Introduction(Files \ missing))
        /\ snd' = [snd EXCEPT !.state = "SentIntroduction",
                              !.client_seq = @ + 1, !.server_seq = @ + 2,
                              !.buf = NoFrame, !.todo = Files \ missing]
    /\ sPub' = Append(sPub, "SentIntroduction")
    /\ UNCHANGED sUp

(* Mutant of SConsentGiven: the status of the answer is not looked at. *)
SConsentAssumed ==
    /\ SReadsSharing
    /\ snd.state = "SentIntroduction" /\ snd.buf.frame = "Response"
    /\ snd' = [snd EXCEPT !.state = "SendingFiles", !.client_seq = @ + 1,
                          !.buf = NoFrame]
    /\ sPub' = Append(sPub, "SendingFiles")
    /\ UNCHANGED <<s2r, sUp>>

(* process_consent *)
SConsentGiven ==
    /\ SReadsSharing
    /\ snd.state = "SentIntroduction" /\ snd.buf = Response("Accept")
    /\ snd' = [snd EXCEPT !.state = "SendingFiles", !.client_seq = @ + 1,
                          !.buf = NoFrame]
    /\ sPub' = Append(sPub, "SendingFiles")
    /\ UNCHANGED <<s2r, sUp>>

(* When the peer is gone the Disconnection frame may fail to be written; the *)
(* error then reaches connect(), which publishes Disconnected a second time. *)
SConsentDenied ==
    /\ SReadsSharing
    /\ snd.state = "SentIntroduction"
    /\ snd.buf \in {Response("Reject"), Response("Unsupported")}
    /\ snd' = [snd EXCEPT !.state = "Disconnected", !.client_seq = @ + 1,
                          !.server_seq = @ + 1, !.buf = NoFrame]
    /\ s2r' = s2r \o EncryptAndSend(snd.server_seq, Disconnection)
    /\ \/ sPub' = Append(sPub, "Disconnected")
       \/ ~rUp /\ sPub' = sPub \o <<"Disconnected", "Disconnected">>
    /\ sUp' = FALSE

(* "Unhandled connection state": a second answer read after the send loop. *)
SSharingIgnored ==
    /\ SReadsSharing
    /\ snd.state \notin {"SentPairedKeyEncryption", "SentPairedKeyResult",
                         "SentIntroduction"}
    /\ snd' = [snd EXCEPT !.client_seq = @ + 1, !.buf = NoFrame]
    /\ UNCHANGED <<s2r, sUp, sPub>>

(* A Disconnection frame is only logged; the task waits for end-of-file. *)
SDisconnection ==
    /\ SReadsSecure
    /\ SHead.body = Disconnection
    /\ snd' = [snd EXCEPT !.client_seq = @ + 1]
    /\ UNCHANGED <<s2r, sUp, sPub>>

-----------------------------------------------------------------------------
(* The send loop of process_consent, one action per step that can be seen  *)
(* or interrupted from outside.  ids comes from a HashMap: any order.      *)

SSending == sUp /\ snd.state = "SendingFiles"

(* An empty file is dropped before a chunk was sent for it. *)
SNextFile(f) ==
    /\ SSending /\ snd.cur = {} /\ f \in snd.todo
    /\ snd' = [snd EXCEPT !.todo = @ \ {f},
                          !.cur = IF Size[f] = 0 THEN {} ELSE {f}]
    /\ UNCHANGED <<s2r, sRead, sUp, sPub, sTaken>>

(* What there is to read: a file may have grown since it was announced. *)
Yield(f) == IF "Grown" \in faults THEN SourceLen[f] ELSE Size[f]

(* One read of the source file and one chunk.  A read may return less than  *)
(* the buffer holds, and nothing at the end of the file.                    *)
SReadAndSend(f, n) ==
    LET ack == snd.ack + n
        notify == ack - snd.noted >= NotifyBytes
    IN
    /\ SSending /\ snd.cur = {f} /\ snd.sent[f] # Size[f]
    /\ n <= Yield(f) - snd.sent[f]
    /\ n = 0 => snd.sent[f] = Yield(f) /\ Len(s2r) < MaxFrames
    /\ s2r' = s2r \o EncryptAndSend(snd.server_seq,
                                    FileChunk(f, snd.sent[f], n, FALSE))
    /\ snd' = [snd EXCEPT !.server_seq = @ + 1, !.sent[f] = @ + n,
                          !.ack = ack, !.noted = IF notify THEN ack ELSE @]
    /\ sPub' = IF notify THEN Append(sPub, "SendingFiles") ELSE sPub
    /\ UNCHANGED <<sRead, sUp, sTaken>>

SSendLast(f) ==
    /\ SSending /\ snd.cur = {f} /\ snd.sent[f] = Size[f]
    /\ s2r' = s2r \o EncryptAndSend(snd.server_seq, FileChunk(f, Size[f], 0, TRUE))
    /\ snd' = [snd EXCEPT !.server_seq = @ + 1, !.cur = {}]
    /\ UNCHANGED <<sRead, sUp, sPub, sTaken>>

(* The iterator is exhausted: Finished, then a Disconnection frame; the    *)
(* task goes on reading until the receiver closes.                         *)
SFinish ==
    /\ SSending /\ snd.cur = {} /\ snd.todo = {}
    /\ s2r' = s2r \o EncryptAndSend(snd.server_seq, Disconnection)
    /\ snd' = [snd EXCEPT !.state = "Finished", !.server_seq = @ + 1]
    /\ sPub' = Append(sPub, "Finished")
    /\ UNCHANGED <<sRead, sUp, sTaken>>

-----------------------------------------------------------------------------
(* CancelTransfer from the front end, which is not looked at during the send *)
(* loop.  That its Disconnection frame may fail to be written changes        *)
(* nothing: connect() publishes nothing more once the state is Cancelled.    *)
SCancel ==
    /\ sUp /\ snd.state # "SendingFiles"
    /\ sTaken < Len(sClicks) /\ sClicks[sTaken + 1] = "Cancel"
    /\ sTaken' = sTaken + 1
    /\ sPub' = Append(sPub, "Cancelled")
    /\ s2r' = s2r \o EncryptAndSend(snd.server_seq, Disconnection)
    /\ snd' = [snd EXCEPT !.state = "Cancelled", !.server_seq = @ + 1]
    /\ sUp' = FALSE
    /\ UNCHANGED sRead

(* Mutant of SExitOnError: the error that ends a task which has reported    *)
(* Finished is published.                                                   *)
SExitOnErrorLoud ==
    /\ sUp' = FALSE
    /\ sPub' = IF snd.state \in {"Initial", "Cancelled"}
                 THEN sPub ELSE Append(sPub, "Disconnected")
    /\ UNCHANGED <<s2r, sRead, snd, sTaken>>

(* The error arm of connect(). *)
SExitOnError ==
    /\ sUp' = FALSE
    /\ sPub' = IF snd.state \in {"Initial", "Finished", "Cancelled"}
                 THEN sPub ELSE Append(sPub, "Disconnected")
    /\ UNCHANGED <<s2r, sRead, snd, sTaken>>

(* Mutant of SConnectionLost: the send loop looks at the socket once more   *)
(* between the last chunk and Finished.                                     *)
SConnectionLostLate ==
    /\ sUp
    /\ \/ snd.state = "SendingFiles" /\ ~rUp
       \/ snd.state # "SendingFiles" /\ ReadFails(rUp, r2s, sRead, s2r, rRead)
    /\ SExitOnError

(* A read error, or the write of a chunk fails in the send loop.  Nothing  *)
(* is written between the last chunk of the last file and Finished.        *)
SConnectionLost ==
    /\ sUp
    /\ \/ snd.state = "SendingFiles" /\ snd.cur # {} /\ ~rUp
       \/ snd.state # "SendingFiles" /\ ReadFails(rUp, r2s, sRead, s2r, rRead)
    /\ SExitOnError

(* Reading the source file fails. *)
SSourceFails ==
    /\ "Disk" \in faults
    /\ SSending /\ snd.cur # {}
    /\ SExitOnError

(* RQS::stop cancels the token connect() selects on: the task is dropped   *)
(* wherever it waits and publishes nothing.                                *)
SStop ==
    /\ "Stop" \in faults
    /\ sUp /\ sUp' = FALSE
    /\ UNCHANGED <<s2r, sRead, snd, sPub, sTaken>>

SHandleFrame ==
    \/ SServerInit \/ SConnectionResponse \/ SBytesData
    \/ SPairedKeyEncryption \/ SPairedKeyResult
    \/ SConsentGiven \/ SConsentDenied \/ SSharingIgnored \/ SDisconnection

SSendLoop ==
    \/ \E f \in Files : SNextFile(f) \/ SSendLast(f)
    \/ \E f \in Files, n \in 0..ReadBuffer : SReadAndSend(f, n)
    \/ SFinish

SenderStep == SConnect \/ SHandleFrame \/ SSendLoop \/ SCancel \/ SConnectionLost

SenderNext == SenderStep \/ SSourceFails \/ SStop

(* What the handler of the sender's next frame requires of it; anything    *)
(* else is an error that ends the task.                                    *)
SAcceptable(frame) ==
    CASE snd.state = "SentUkeyClientInit" -> frame.kind = "ServerInit"
      [] snd.state = "SentUkeyClientFinish" -> frame.kind = "ConnectionResponse"
      [] OTHER ->
           /\ InSequence(frame, snd.client_seq)
           /\ frame.body.type = "Bytes" /\ frame.body.last =>
                /\ snd.buf = frame.body.frame
                /\ snd.state = "SentPairedKeyEncryption" =>
                     snd.buf = PairedKeyEncryption
                /\ snd.state = "SentPairedKeyResult" => snd.buf = PairedKeyResult
                /\ snd.state = "SentIntroduction" => snd.buf.frame = "Response"
=============================================================================
