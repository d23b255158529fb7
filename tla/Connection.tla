----------------------------- MODULE Connection -----------------------------
(***************************************************************************)
(* One transfer end to end: an OutboundRequest and an InboundRequest on    *)
(* the two ends of a TCP connection, and the front end and user of each.   *)
(* A front end handles the published states in order and shows the last    *)
(* one; the buttons it offers depend on that state (transfer_item.rs), so  *)
(* a click may answer a state the task has left already.                   *)
(***************************************************************************)
EXTENDS OutboundRequest, InboundRequest

CONSTANTS
    MaxAnswers,     \* how often the receiving user may click Accept or Reject
    MaxCancels      \* how often each user may click Cancel

ASSUME ClicksAssumption == MaxAnswers \in Nat /\ MaxCancels \in Nat

VARIABLES sSeen, rSeen      \* how many published states each front end handled

uiVars == <<faults, sClicks, rClicks, sSeen, rSeen>>
vars == <<senderVars, receiverVars, uiVars>>

-----------------------------------------------------------------------------
(* handle_channel_message: the state shown is that of the last message. *)
Shown(pub, seen) == IF seen = 0 THEN "Initial" ELSE pub[seen]

SView == Shown(sPub, sSeen)
RView == Shown(rPub, rSeen)

SShow ==
    /\ sSeen < Len(sPub) /\ sSeen' = sSeen + 1
    /\ UNCHANGED <<senderVars, receiverVars, faults, sClicks, rClicks, rSeen>>

RShow ==
    /\ rSeen < Len(rPub) /\ rSeen' = rSeen + 1
    /\ UNCHANGED <<senderVars, receiverVars, faults, sClicks, rClicks, sSeen>>

Answer == {"Accept", "Reject"}
Clicked(clicks, actions) == {i \in 1..Len(clicks) : clicks[i] \in actions}

(* render_consent: both buttons stay until another state is published. *)
UserAnswers(answer) ==
    /\ RView = "WaitingForUserConsent"
    /\ Cardinality(Clicked(rClicks, Answer)) < MaxAnswers
    /\ rClicks' = Append(rClicks, answer)
    /\ UNCHANGED <<senderVars, receiverVars, faults, sClicks, sSeen, rSeen>>

(* render_progress *)
SUserCancels ==
    /\ SView = "SendingFiles"
    /\ Len(sClicks) < MaxCancels
    /\ sClicks' = Append(sClicks, "Cancel")
    /\ UNCHANGED <<senderVars, receiverVars, faults, rClicks, sSeen, rSeen>>

RUserCancels ==
    /\ RView = "ReceivingFiles"
    /\ Cardinality(Clicked(rClicks, {"Cancel"})) < MaxCancels
    /\ rClicks' = Append(rClicks, "Cancel")
    /\ UNCHANGED <<senderVars, receiverVars, faults, sClicks, sSeen, rSeen>>

-----------------------------------------------------------------------------
Init ==
    /\ WireInit /\ SenderInit /\ ReceiverInit
    /\ sClicks = <<>> /\ rClicks = <<>>
    /\ sSeen = 0 /\ rSeen = 0

Sender == SenderNext /\ UNCHANGED <<receiverVars, uiVars>>
Receiver == ReceiverNext /\ UNCHANGED <<senderVars, uiVars>>
FrontEnd == SShow \/ RShow
User == (\E answer \in Answer : UserAnswers(answer)) \/ SUserCancels \/ RUserCancels

(* Both tasks have ended and both front ends have shown what they were told: *)
(* nothing is left to happen but a click nobody will take.                   *)
Ended == ~sUp /\ ~rUp /\ sSeen = Len(sPub) /\ rSeen = Len(rPub)
Done == Ended /\ UNCHANGED vars

Next == Sender \/ Receiver \/ FrontEnd \/ User \/ Done

Spec == Init /\ [][Next]_vars

(* tokio polls every ready task; a select! polls its branches in random     *)
(* order, so a command that waits is received even while frames keep        *)
(* arriving.  Nothing makes a user click, a token be cancelled or a fault   *)
(* happen.                                                                  *)
Fairness ==
    /\ WF_vars(SenderStep /\ UNCHANGED <<receiverVars, uiVars>>)
    /\ WF_vars(RHandleFrame /\ UNCHANGED <<senderVars, uiVars>>)
    /\ WF_vars(RHandleCommand /\ UNCHANGED <<senderVars, uiVars>>)
    /\ WF_vars(RConnectionLost /\ UNCHANGED <<senderVars, uiVars>>)
    /\ WF_vars(SShow) /\ WF_vars(RShow)

FairSpec == Spec /\ Fairness

TypeOK ==
    /\ WireTypeOK /\ SenderTypeOK /\ ReceiverTypeOK
    /\ sClicks \in Seq({"Cancel"}) /\ rClicks \in Seq(Answer \cup {"Cancel"})
    /\ sSeen \in 0..Len(sPub) /\ rSeen \in 0..Len(rPub)

-----------------------------------------------------------------------------
(* What the frames on the wire say. *)

FileFrames == {i \in 1..Len(s2r) : s2r[i].kind = "SecureMessage"
                                     /\ s2r[i].body.type = "File"}
Introductions == {i \in 1..Len(s2r) : /\ s2r[i].kind = "SecureMessage"
                                      /\ s2r[i].body.type = "Bytes"
                                      /\ s2r[i].body.frame.frame = "Introduction"}
Offered == UNION {s2r[i].body.frame.files : i \in Introductions}

AcceptTaken == \E i \in 1..rTaken : rClicks[i] = "Accept"
Cancels == Clicked(sClicks, {"Cancel"}) \cup Clicked(rClicks, {"Cancel"})
Terminal == {"Finished", "Rejected", "Cancelled", "Disconnected"}
Undisturbed == faults \cap {"Stop", "Crash"} = {}
Published(pub, state) == \E i \in 1..Len(pub) : pub[i] = state
LastOf(pub) == IF pub = <<>> THEN "Initial" ELSE pub[Len(pub)]
Intact(f) == disk[f].exists /\ disk[f].from = 0 /\ disk[f].to = Size[f]

-----------------------------------------------------------------------------
(* Safety. *)

(* No byte of a file leaves the sender, and no file appears in the download *)
(* directory, before the receiving user has clicked Accept: process_consent *)
(* against accept_transfer, across both tasks and both front ends.          *)
ConsentBeforeBytes ==
    /\ FileFrames # {} => AcceptTaken
    /\ (\E f \in Files : disk[f].exists) => AcceptTaken

(* Between two ends that run this code no frame ever meets an error path of *)
(* its handler: the states of the two ends, their sequence numbers, the     *)
(* payload being assembled and the offsets into each file agree at every    *)
(* read, however the reads interleave with commands.                        *)
EveryFrameIsAcceptable ==
    /\ sUp /\ snd.state # "SendingFiles" /\ sRead < Len(r2s) => SAcceptable(SHead)
    /\ rUp /\ rRead < Len(s2r) => RAcceptable(RHead)

(* The receiver, which unwraps the file of a chunk that has bytes, has it   *)
(* open whenever such a chunk is next: accept_transfer of its task, and the *)
(* bytes that the other task sends on its answer, also on a second answer.  *)
EveryChunkHasItsFile ==
    rUp /\ rRead < Len(s2r) /\ RHead.kind = "SecureMessage"
        /\ RHead.body.type = "File" /\ RHead.body.len > 0
      => RHead.body.file \in rcv.open

(* When the receiver reports Finished, every file it was offered is in the  *)
(* download directory with all its bytes, from the first to the last.       *)
FinishedFilesAreIntact == rcv.state = "Finished" => \A f \in Offered : Intact(f)

(* A rejected transfer leaves no file behind and the sender never reports   *)
(* it as under way or finished.                                             *)
RejectedLeavesNothing ==
    Published(rPub, "Rejected") =>
        /\ \A f \in Files : ~disk[f].exists
        /\ ~Published(sPub, "SendingFiles") /\ ~Published(sPub, "Finished")

(* Once the receiver has reported Finished, the sender has sent every file  *)
(* and cannot report that the connection was lost, although the receiver    *)
(* closes the socket without waiting for it.                                *)
FinishedOnBothEnds ==
    rcv.state = "Finished" =>
        /\ snd.todo = {} /\ snd.cur = {}
        /\ ~Published(sPub, "Disconnected")

(* Nothing but a fault, a Cancel, a Reject or an offer of no file ends a     *)
(* transfer early, whatever the order of frames, answers and closed sockets: *)
(* the receiver ends with Finished, the sender after it, having reported     *)
(* Finished too, and neither front end is told that the connection was lost. *)
NothingEndsEarly ==
    /\ faults = {} /\ Cancels = {} /\ Clicked(rClicks, {"Reject"}) = {}
    /\ \A i \in Introductions : s2r[i].body.frame.files # {}
    =>
    /\ ~rUp => rcv.state = "Finished"
    /\ ~sUp => ~rUp /\ snd.state = "Finished"
    /\ ~Published(sPub, "Disconnected") /\ ~Published(rPub, "Disconnected")

(* A task that is not dropped or killed has told its end when it is over:   *)
(* the last state it published is an end.  A receiver that has published    *)
(* nothing is silent to the last: nobody was shown its transfer.            *)
EveryEndIsPublished ==
    Undisturbed =>
        /\ ~sUp => LastOf(sPub) \in Terminal
        /\ ~rUp => LastOf(rPub) \in Terminal \/ rPub = <<>>

(* How a transfer ends: the receiver's Finished is no failure for the       *)
(* sender, nothing ends before its time, and no end is untold.              *)
EndsAreTold == FinishedOnBothEnds /\ NothingEndsEarly /\ EveryEndIsPublished

(* What a front end shows last is final: after Finished or Disconnected the *)
(* receiver publishes nothing, and neither does the sender after Cancelled  *)
(* or Disconnected.  Only a Cancel clicked during the send loop and taken   *)
(* after it can still turn the sender's Finished into Cancelled.            *)
LastWordStands ==
    [][/\ LastOf(rPub) \in {"Finished", "Disconnected"} => rPub' = rPub
       /\ LastOf(sPub) \in {"Cancelled", "Disconnected"} => sPub' = sPub
       /\ LastOf(sPub) = "Finished" =>
            sPub' \in {sPub, Append(sPub, "Cancelled")}]_vars

(* What a front end may be told next.  A Cancel can be clicked of a transfer *)
(* under way only, and the sender takes it after the last chunk.            *)
SenderFollows(state) ==
    CASE state = "Initial" -> {"SentUkeyClientInit", "Disconnected"}
      [] state = "SentUkeyClientInit" -> {"SentIntroduction", "Disconnected"}
      [] state = "SentIntroduction" -> {"SendingFiles", "Disconnected"}
      [] state = "SendingFiles" -> {"SendingFiles", "Finished", "Disconnected"}
      [] state = "Finished" -> {"Cancelled"}
      [] OTHER -> {}

ReceiverFollows(state) ==
    CASE state = "Initial" -> {"WaitingForUserConsent", "Disconnected"}
      [] state = "WaitingForUserConsent" ->
            {"ReceivingFiles", "Rejected", "Disconnected"}
      [] state = "ReceivingFiles" ->
            {"ReceivingFiles", "Finished", "Rejected", "Cancelled", "Disconnected"}
      [] OTHER -> {}

(* The reports after a step; one of double may be followed by Disconnected, *)
(* when saying so to the peer fails.                                        *)
Reported(pub, next, double) ==
    {pub} \cup {Append(pub, x) : x \in next}
          \cup {pub \o <<x, "Disconnected">> : x \in next \cap double}

(* The states reach a front end in the order of the protocol, whatever is   *)
(* clicked and whatever fails: none is skipped, repeated (but for progress) *)
(* or told after an end.                                                    *)
StatesFollow ==
    [][/\ sPub' \in Reported(sPub, SenderFollows(LastOf(sPub)), {"Disconnected"})
       /\ rPub' \in Reported(rPub, ReceiverFollows(LastOf(rPub)),
                             {"Rejected", "Cancelled"})]_vars

-----------------------------------------------------------------------------
(* The abstract transfer this one implements. *)

Phase ==
    IF rcv.state = "Rejected" THEN "refused"
    ELSE IF rcv.state = "Finished" THEN "complete"
    ELSE IF ~rUp THEN "broken"
    ELSE IF rcv.state = "ReceivingFiles" THEN "granted"
    ELSE IF Published(rPub, "WaitingForUserConsent") THEN "asked"
    ELSE "quiet"

O == INSTANCE Offer WITH
        phase <- Phase,
        offered <- Offered,
        stored <- {f \in Files : Intact(f)},
        claimed <- Published(sPub, "Finished")

(* The two ends and their wire implement the abstract offer: each step of   *)
(* either task is a step of Offer, or one the users cannot tell.            *)
ImplementsOffer == O!OfferSpec

-----------------------------------------------------------------------------
(* Liveness. *)

(* An accepted transfer is delivered: both tasks end and both users are     *)
(* left looking at Finished, when nothing fails, unless one of them cancels. *)
AcceptedIsDelivered ==
    faults = {} /\ Clicked(rClicks, {"Accept"}) # {}
        ~> Cancels # {} \/ [](~sUp /\ ~rUp /\ SView = "Finished" /\ RView = "Finished")

(* A rejected one ends on both sides, and the sender learns of it.          *)
RejectedIsTold ==
    Undisturbed /\ Clicked(rClicks, {"Reject"}) # {}
        ~> [](~sUp /\ ~rUp /\ SView = "Disconnected" /\ RView = "Rejected")

(* No end outlives its peer: there is no timeout anywhere, so it is the     *)
(* closed socket alone that ends the other task, whatever it was doing.     *)
NoEndOutlivesItsPeer == (~sUp ~> ~rUp) /\ (~rUp ~> ~sUp)

(* Whoever was shown a transfer is left looking at its end once the peer's  *)
(* task has ended; the receiving user may never have been shown it.  A task *)
(* that is dropped or killed itself tells nobody.                           *)
EveryEndIsShown ==
    /\ Undisturbed /\ ~sUp ~> [](RView \in Terminal \cup {"Initial"})
    /\ Undisturbed /\ ~rUp ~> [](SView \in Terminal)
=============================================================================
