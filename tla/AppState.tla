------------------------------ MODULE AppState ------------------------------
(***************************************************************************)
(* The front end (state.rs and the views that call it) and the tasks of    *)
(* its transfers as the front end sees them: what each publishes on the    *)
(* bus and which commands it obeys.  What a task exchanges with its peer   *)
(* is the subject of Connection; here the peer answers, refuses, or fails. *)
(***************************************************************************)
EXTENDS Bus

CONSTANTS
    Inbound,    \* the transfers that are received; the others are sent
    Id,         \* the id that the messages and the entry of a transfer have
    MaxClicks   \* bound on the commands the user gives

Outbound == Task \ Inbound

(* A received transfer has the address of its connection for id, a sent one *)
(* the address of the device, so that two of them may have the same.        *)
ASSUME InboundAssumption == Inbound \subseteq Task
ASSUME IdAssumption ==
    \A t \in Inbound, u \in Task : Id[t] = Id[u] => t = u
ASSUME MaxClicksAssumption == MaxClicks \in Nat

VARIABLES
    taskState,  \* how far each transfer is
    requests,   \* sender_file: the sends that were asked for and not begun
    transfers,  \* the entries shown, by id; of is the transfer last heard of
    mode,       \* content_mode; in Discovery there are files to send
    dialog,     \* a file dialog is open
    clicks      \* how many commands were given

viewVars == <<transfers, mode, dialog>>
appVars == <<busVars, taskState, requests, viewVars, clicks>>

AppInit ==
    /\ BusInit
    /\ taskState = [t \in Task |-> "Pending"]
    /\ requests = {}
    /\ transfers = <<>> /\ mode = "Idle" /\ dialog = FALSE
    /\ clicks = 0

Shown(id) == id \in DOMAIN transfers
Active(entries) == {id \in DOMAIN entries : entries[id].state \notin Terminal}

-----------------------------------------------------------------------------
(* The tasks. *)

(* A task that has told its end is inside its handler until it has said     *)
(* goodbye to the peer; only a sender goes back to its select!, when it has *)
(* Finished.  A sender that sends reads nothing.                            *)
Leaving(t) == taskState[t] \in Terminal \ (IF t \in Inbound THEN {} ELSE {"Finished"})
Selects(t) == t \in up /\ ~Leaving(t) /\ ~(t \in Outbound /\ taskState[t] = "SendingFiles")

(* Mutant of Publish: the message does not say the kind of the transfer. *)
PublishWithoutKind(t, state, q) ==
    /\ taskState' = [taskState EXCEPT ![t] = state]
    /\ Sent(q, Listening, Update(t, state, FALSE))

(* update_state(..., true): the new state, and its message to what has q. *)
Publish(t, state, q) ==
    /\ taskState' = [taskState EXCEPT ![t] = state]
    /\ Sent(q, Listening, Update(t, state, TRUE))

(* Mutant of LoopIsFree: connect() has a task of its own for each transfer. *)
LoopIsAlwaysFree == TRUE

(* The loop of TcpServer is not inside connect(), and it is not ended by a  *)
(* panic in there.                                                          *)
LoopIsFree == up \cap Outbound = {} /\ \A t \in Outbound : taskState[t] # "Panicked"

Begin(t) ==
    /\ LoopIsFree /\ taskState[t] = "Pending" /\ (t \in Outbound => t \in requests)
    /\ Subscribe(t)
    /\ taskState' = [taskState EXCEPT ![t] = IF t \in Inbound THEN "Initial"
                                                            ELSE "SentUkeyClientInit"]
    /\ requests' = requests \ {t}
    /\ UNCHANGED <<viewVars, clicks>>

(* connect() fails before it is in its loop: nothing is published. *)
FailToConnect(t) ==
    /\ LoopIsFree /\ t \in requests
    /\ requests' = requests \ {t}
    /\ taskState' = [taskState EXCEPT ![t] = "Unreachable"]
    /\ UNCHANGED <<busVars, viewVars, clicks>>

(* finalize_key_exchange of a sender publishes the PIN, before the state in *)
(* which the task goes on.                                                  *)
ExchangeKeys(t) ==
    /\ t \in up /\ taskState[t] = "SentUkeyClientInit"
    /\ taskState' = [taskState EXCEPT ![t] = "SentUkeyClientFinish"]
    /\ Sent(queue, Listening, Update(t, taskState[t], TRUE))
    /\ UNCHANGED <<up, requests, viewVars, clicks>>

(* The setup is over: the introduction was sent, or is before the user.     *)
(* Initial stands for all that a receiver does before.                      *)
Introduce(t) ==
    /\ t \in up /\ taskState[t] \in {"Initial", "SentUkeyClientFinish"}
    /\ Publish(t, IF t \in Inbound THEN "WaitingForUserConsent" ELSE "SentIntroduction", queue)
    /\ UNCHANGED <<up, requests, viewVars, clicks>>

(* process_consent: the peer accepts, or it does not. *)
HearAnswer(t) ==
    /\ t \in up /\ taskState[t] = "SentIntroduction"
    /\ \E state \in {"SendingFiles", "Disconnected"} : Publish(t, state, queue)
    /\ UNCHANGED <<up, requests, viewVars, clicks>>

Transferring(t) == t \in up /\ taskState[t] \in {"SendingFiles", "ReceivingFiles"}

(* Mutant of Progress: a sender goes on telling of its progress. *)
ProgressOnAndOn(t) ==
    /\ t \in up /\ taskState[t] \in {"SendingFiles", "ReceivingFiles", "Finished"}
    /\ Sent(queue, Listening, Update(t, "SendingFiles", TRUE)) /\ UNCHANGED taskState
    /\ UNCHANGED <<up, requests, viewVars, clicks>>

Progress(t) ==
    /\ Transferring(t)
    /\ Publish(t, taskState[t], queue)
    /\ UNCHANGED <<up, requests, viewVars, clicks>>

(* Mutant of Finish: the last state is not told. *)
FinishQuietly(t) ==
    /\ Transferring(t)
    /\ taskState' = [taskState EXCEPT ![t] = "Finished"]
    /\ UNCHANGED <<busVars, requests, viewVars, clicks>>

Finish(t) ==
    /\ Transferring(t)
    /\ Publish(t, "Finished", queue)
    /\ UNCHANGED <<up, requests, viewVars, clicks>>

(* The task takes a command for its id.  A sender knows only one of them. *)
Understood(t) == IF t \in Inbound THEN Action ELSE {"CancelTransfer"}

Effect(action) ==
    CASE action = "AcceptTransfer" -> "ReceivingFiles"
      [] action = "RejectTransfer" -> "Rejected"
      [] action = "CancelTransfer" -> "Cancelled"

Obeys(t, m) ==
    m.kind = "FrontToLib" /\ Id[m.task] = Id[t] /\ m.action \in Understood(t)

(* A sender that has said its first word has no keys yet, although it takes  *)
(* for granted from the beginning that what it sends is encrypted.          *)
Keyless(t) == taskState[t] = "SentUkeyClientInit"

Obey(t) ==
    /\ Selects(t) /\ Ready(t) /\ ~Keyless(t)
    /\ LET m == Head(queue[t]) IN
         Obeys(t, m) /\ Publish(t, Effect(m.action), Taken(queue, t))
    /\ UNCHANGED <<up, requests, viewVars, clicks>>

(* ... so it tells that it is cancelled and panics where it is to encrypt   *)
(* its goodbye.  connect() is awaited by the loop of the service, which is  *)
(* gone then, and in a release build (panic = "abort") the program with it: *)
(* there this step is the last one.                                         *)
Panic(t) ==
    /\ Selects(t) /\ Ready(t) /\ Keyless(t) /\ Obeys(t, Head(queue[t]))
    /\ taskState' = [taskState EXCEPT ![t] = "Panicked"]
    /\ Sent(Unsubscribed(t), Listening \ {t}, Update(t, "Cancelled", TRUE))
    /\ up' = up \ {t}
    /\ UNCHANGED <<requests, viewVars, clicks>>

(* Mutant of Ignore: a select! whose socket is always ready drops commands. *)
IgnoreAll(t) ==
    /\ Selects(t) /\ Ready(t) /\ Receive(t)
    /\ UNCHANGED <<up, taskState, requests, viewVars, clicks>>

(* What the task publishes itself, what is for others, what it cannot do. *)
Ignore(t) ==
    /\ Selects(t) /\ Ready(t) /\ ~Obeys(t, Head(queue[t])) /\ Receive(t)
    /\ UNCHANGED <<up, taskState, requests, viewVars, clicks>>

SkipAsTask(t) ==
    /\ Selects(t) /\ SkipLost(t)
    /\ UNCHANGED <<taskState, requests, viewVars, clicks>>

(* The task ends and publishes nothing more: it has told its end, or it is  *)
(* a receiver whose peer left before its first frame.                       *)
End(t) ==
    /\ t \in up
    /\ \/ taskState[t] \in Terminal
       \/ t \in Inbound /\ taskState[t] = "Initial"
    /\ up' = up \ {t}
    /\ queue' = Unsubscribed(t)
    /\ lagged' = lagged \ {t}
    /\ UNCHANGED <<taskState, requests, viewVars, clicks>>

(* Mutant of Quiet: the error arm of a sender is that of a receiver. *)
QuietWhenFinished(t) == {"Finished"}

(* The states in which the error arm publishes nothing. *)
Quiet(t) == IF t \in Inbound THEN {"Finished"} ELSE {"Finished", "Cancelled"}

(* A handler fails: the error arm tells that the transfer is disconnected,  *)
(* not of which kind it is, and the task ends.                              *)
Lose(t) ==
    /\ t \in up /\ taskState[t] \notin Quiet(t)
    /\ taskState' = [taskState EXCEPT ![t] = "Disconnected"]
    /\ Sent(Unsubscribed(t), Listening \ {t}, Update(t, "Disconnected", FALSE))
    /\ up' = up \ {t}
    /\ UNCHANGED <<requests, viewVars, clicks>>

Select(t) == Obey(t) \/ Panic(t) \/ Ignore(t) \/ SkipAsTask(t)

-----------------------------------------------------------------------------
(* The listener of the front end: handle_channel_message. *)

(* The entries once this update is applied.  An entry has the kind that the *)
(* update that made it says, and without one it is received.                *)
Heard(entries, m) ==
    LET made == IF m.rtype /\ m.task \in Outbound THEN "Outbound" ELSE "Inbound"
        direction == IF Id[m.task] \in DOMAIN entries
                       THEN entries[Id[m.task]].direction ELSE made
    IN  [id \in DOMAIN entries \cup {Id[m.task]} |->
            IF id = Id[m.task]
              THEN [of |-> m.task, state |-> m.state, direction |-> direction]
              ELSE entries[id]]

ModeWith(entries) ==
    IF Active(entries) # {} /\ mode # "Discovery" THEN "Transfers" ELSE mode

Handle ==
    /\ Ready(Front)
    /\ LET m == Head(queue[Front]) IN
         IF m.kind = "LibToFront"
           THEN transfers' = Heard(transfers, m) /\ mode' = ModeWith(transfers')
           ELSE UNCHANGED <<transfers, mode>>
    /\ Receive(Front)
    /\ UNCHANGED <<up, taskState, requests, dialog, clicks>>

SkipAsFront ==
    /\ SkipLost(Front)
    /\ UNCHANGED <<taskState, requests, viewVars, clicks>>

-----------------------------------------------------------------------------
(* The user.  The entries and their buttons are shown except in Idle. *)

Offers(state) ==
    CASE state = "WaitingForUserConsent" -> {"AcceptTransfer", "RejectTransfer"}
      [] state \in {"SendingFiles", "ReceivingFiles"} -> {"CancelTransfer"}
      [] OTHER -> {}

Click(id) ==
    /\ mode # "Idle" /\ Shown(id) /\ clicks < MaxClicks
    /\ \E action \in Offers(transfers[id].state) :
         Send(Command(transfers[id].of, action))
    /\ clicks' = clicks + 1
    /\ UNCHANGED <<up, taskState, requests, viewVars>>

(* Mutant of Clear: the view stays when its last entry goes. *)
ClearAndStay(id) ==
    /\ mode # "Idle" /\ Shown(id) /\ Offers(transfers[id].state) = {}
    /\ transfers' = [i \in DOMAIN transfers \ {id} |-> transfers[i]]
    /\ UNCHANGED <<busVars, taskState, requests, mode, dialog, clicks>>

Clear(id) ==
    /\ mode # "Idle" /\ Shown(id) /\ Offers(transfers[id].state) = {}
    /\ transfers' = [i \in DOMAIN transfers \ {id} |-> transfers[i]]
    /\ mode' = IF DOMAIN transfers' = {} /\ mode = "Transfers" THEN "Idle" ELSE mode
    /\ UNCHANGED <<busVars, taskState, requests, dialog, clicks>>

OpenDialog ==
    /\ mode = "Idle" /\ dialog' = TRUE
    /\ UNCHANGED <<busVars, taskState, requests, transfers, mode, clicks>>

(* select_files: whatever the mode has become since the dialog was opened. *)
SelectFiles ==
    /\ dialog /\ dialog' = FALSE
    /\ mode' = "Discovery"
    /\ UNCHANGED <<busVars, taskState, requests, transfers, clicks>>

SendToDevice(t) ==
    /\ mode = "Discovery" /\ t \in Outbound
    /\ taskState[t] = "Pending" /\ t \notin requests
    /\ requests' = requests \cup {t}
    /\ mode' = "Transfers"
    /\ UNCHANGED <<busVars, taskState, transfers, dialog, clicks>>

(* Mutant of CancelSend: the view goes back to where it began. *)
CancelSendToIdle ==
    /\ mode = "Discovery" /\ mode' = "Idle"
    /\ UNCHANGED <<busVars, taskState, requests, transfers, dialog, clicks>>

CancelSend ==
    /\ mode = "Discovery"
    /\ mode' = IF DOMAIN transfers = {} THEN "Idle" ELSE "Transfers"
    /\ UNCHANGED <<busVars, taskState, requests, transfers, dialog, clicks>>

-----------------------------------------------------------------------------
FrontEnd == Handle \/ SkipAsFront

Peer(t) == ExchangeKeys(t) \/ Introduce(t) \/ HearAnswer(t) \/ Progress(t) \/ Finish(t)

User ==
    \/ \E id \in DOMAIN transfers : Click(id) \/ Clear(id)
    \/ OpenDialog \/ SelectFiles \/ CancelSend
    \/ \E t \in Task : SendToDevice(t)

AppNext ==
    \/ FrontEnd \/ User
    \/ \E t \in Task : \/ Begin(t) \/ FailToConnect(t) \/ Peer(t)
                       \/ Select(t) \/ End(t) \/ Lose(t)

AppSpec == AppInit /\ [][AppNext]_appVars

(* The listener and every task get to run; the loop takes a request when it *)
(* is free; a sender that has the keys introduces its files, and the data   *)
(* of a transfer that both have agreed on comes, or it is lost.  The keys   *)
(* and the answer of a peer need never come: no timeout ends a wait for     *)
(* them.  Users and the peers that connect owe nothing.                     *)
AppFairness ==
    /\ WF_appVars(FrontEnd)
    /\ \A t \in Task :
         /\ t \in Outbound => WF_appVars(Begin(t) \/ FailToConnect(t)) /\ WF_appVars(Introduce(t))
         /\ WF_appVars(Select(t)) /\ WF_appVars(End(t)) /\ WF_appVars(Finish(t))

AppFairSpec == AppSpec /\ AppFairness

AppTypeOK ==
    /\ BusTypeOK
    /\ taskState \in [Task -> State \cup {"Pending", "Unreachable", "Panicked"}]
    /\ requests \subseteq Outbound
    /\ DOMAIN transfers \subseteq {Id[t] : t \in Task}
    /\ \A id \in DOMAIN transfers :
         transfers[id] \in [of : Task, state : State, direction : {"Inbound", "Outbound"}]
    /\ mode \in {"Idle", "Discovery", "Transfers"} /\ dialog \in BOOLEAN
    /\ clicks \in 0..MaxClicks

-----------------------------------------------------------------------------
Ended(id) == Shown(id) /\ transfers[id].state \in Terminal

(* Once the list says that a transfer is over, it is: its task goes no      *)
(* further, and nothing it published before is still to come that would     *)
(* make the entry run again.  So what the user clears there does not come   *)
(* back as a running transfer, although the queue is behind the tasks.      *)
EndIsLast ==
    \A id \in DOMAIN transfers : Ended(id) =>
        LET t == transfers[id].of IN
          /\ taskState[t] \in Terminal \cup {"Panicked"}
          /\ \A i \in 1..Len(queue[Front]) :
               LET m == queue[Front][i] IN
                 m.kind = "LibToFront" /\ m.task = t => m.state \in Terminal

(* What the list says of how a transfer ended changes in two ways only: a   *)
(* sender obeys, when it has sent everything, a Cancel that was given       *)
(* before; and a receiver that was told to stop cannot say so to its peer.  *)
Rewritten(t, before, after) ==
    \/ t \in Outbound /\ before = "Finished" /\ after = "Cancelled"
    \/ t \in Inbound /\ before \in {"Rejected", "Cancelled"} /\ after = "Disconnected"

EndsAreRarelyRewritten ==
    [][\A id \in DOMAIN transfers \cap DOMAIN transfers' :
         LET old == transfers[id]
             new == transfers'[id]
         IN  old.of = new.of /\ old.state \in Terminal /\ old.state # new.state
               => Rewritten(old.of, old.state, new.state)]_appVars

(* Two transfers to one device have one id, yet a command for one of them   *)
(* reaches the other only when its own is over: a running transfer is not   *)
(* cancelled in the place of another that runs.                             *)
OnlyLateCommandsGoAstray ==
    \A t \in up : \A i \in 1..Len(queue[t]) :
        LET m == queue[t][i] IN
          m.kind = "FrontToLib" /\ Id[m.task] = Id[t] /\ m.task # t => m.task \notin up

(* Such a command panics its reader when that is before its keys, and it is *)
(* the only one that does: it was given for a transfer to the same device   *)
(* that is over.  No transfer is brought there by a command of its own, or  *)
(* by one for a transfer that still runs.                                   *)
BeforeKeys(t) == t \in up /\ taskState[t] \in {"Initial", "SentUkeyClientInit"}
Over(t) == taskState[t] \in Terminal

OnlyALateCancelPanics ==
    \A t \in Task : BeforeKeys(t) =>
        \A i \in 1..Len(queue[t]) :
            LET m == queue[t][i] IN
              Obeys(t, m) => {t, m.task} \subseteq Outbound /\ m.task # t /\ Over(m.task)

(* A transfer that is sent is shown as one that is received only after one  *)
(* to the same device was lost: the error arm does not tell of which kind   *)
(* its transfer is, and an entry keeps the kind it was made with.           *)
WrongWayOnlyAfterALoss ==
    \A id \in DOMAIN transfers :
        transfers[id].direction = "Inbound" /\ transfers[id].of \in Outbound =>
            \E t \in Outbound : Id[t] = id /\ taskState[t] = "Disconnected"

(* The view that shows no transfers is not the view while one of those that *)
(* the front end knows of runs: its user could not answer or cancel it.     *)
NothingActiveIsHidden == mode = "Idle" => Active(transfers) = {}

(* A transfer that has begun is seen to its end in the list, unless its end *)
(* was among the messages the listener lost, or its peer is silent for ever *)
(* where the sender waits for it: for its keys or for its answer.           *)
SeenToEnd(t) == \E id \in DOMAIN transfers : Ended(id) /\ transfers[id].of = t
Unanswered(t) == t \in up /\ taskState[t] \in {"SentUkeyClientInit", "SentIntroduction"}

EveryTransferIsSeenToEnd ==
    \A t \in Task :
        t \in up /\ taskState[t] \in {"SentUkeyClientInit", "SentIntroduction",
                                      "SendingFiles", "ReceivingFiles"}
            ~> SeenToEnd(t) \/ Front \in lagged \/ []Unanswered(t)

(* A command that was given for a running transfer has an effect or comes   *)
(* too late, unless the task has lost messages.                             *)
Commanded(t) == \E i \in 1..Len(queue[t]) :
    queue[t][i] \in {Command(t, action) : action \in Action}

EveryClickTakesEffect ==
    \A t \in Task : \A s \in {"WaitingForUserConsent", "SendingFiles", "ReceivingFiles"} :
        taskState[t] = s /\ Commanded(t) ~> taskState[t] # s \/ t \in lagged

(* The empty list of transfers, which has no button, is left again, unless  *)
(* there is a send that may publish nothing more: whose connection failed,  *)
(* which has panicked, or whose peer never sends its keys or its answer.    *)
Stuck == mode = "Transfers" /\ DOMAIN transfers = {}

TransfersViewFills ==
    Stuck ~> \/ ~Stuck \/ Front \in lagged
             \/ \E t \in Task : taskState[t] \in {"Unreachable", "Panicked"}
             \/ \E t \in Task : []Unanswered(t)
=============================================================================
