-------------------------------- MODULE Bus ---------------------------------
(***************************************************************************)
(* The broadcast channel between the front end and the task of every       *)
(* transfer (channel.rs, RQS::new).  Each receiver has what it has not     *)
(* received yet, at most Capacity messages of it: a message sent to a full *)
(* receiver takes the place of its oldest one, and the receiver's next     *)
(* recv() returns Lagged instead of a message.  A receiver gets what is    *)
(* sent after it subscribed, its own messages too.                         *)
(***************************************************************************)
EXTENDS Integers, Sequences, FiniteSets

CONSTANTS
    Task,       \* the transfers, each with the task that runs it
    Front,      \* the front end's listener
    Capacity    \* how many messages the channel holds for a receiver

ASSUME TaskAssumption == IsFiniteSet(Task) /\ Front \notin Task
ASSUME CapacityAssumption == Capacity \in Nat \ {0}

VARIABLES
    queue,      \* queue[r]: what receiver r has not received, oldest first
    lagged,     \* the receivers that lost messages and are to be told so
    up          \* the tasks that run, each with its receiver

busVars == <<queue, lagged, up>>

Reader == Task \cup {Front}
Listening == up \cup {Front}

(* A message is an update that a task publishes or a command the user gives. *)
(* An update says of which kind the transfer is, unless it comes from the    *)
(* error arm of the task.  The id in the code is Id of the transfer.         *)
Update(task, state, rtype) ==
    [kind |-> "LibToFront", task |-> task, state |-> state, rtype |-> rtype]
Command(task, action) ==
    [kind |-> "FrontToLib", task |-> task, action |-> action]

Action == {"AcceptTransfer", "RejectTransfer", "CancelTransfer"}
Terminal == {"Finished", "Cancelled", "Rejected", "Disconnected"}
State == {"Initial", "SentUkeyClientInit", "SentUkeyClientFinish", "SentIntroduction",
          "WaitingForUserConsent", "SendingFiles", "ReceivingFiles"} \cup Terminal

Message ==
    [kind : {"LibToFront"}, task : Task, state : State, rtype : BOOLEAN]
        \cup [kind : {"FrontToLib"}, task : Task, action : Action]

BusInit ==
    /\ queue = [r \in Reader |-> <<>>]
    /\ lagged = {}
    /\ up = {}

-----------------------------------------------------------------------------
(* What a receiver with these messages keeps of them. *)
Newest(messages) ==
    IF Len(messages) <= Capacity THEN messages ELSE Tail(messages)

Taken(q, r) == [q EXCEPT ![r] = Tail(@)]

(* message is sent to these readers, which have q. *)
Sent(q, readers, message) ==
    /\ queue' = [r \in Reader |-> IF r \in readers
                                    THEN Newest(Append(q[r], message)) ELSE q[r]]
    /\ lagged' = readers \cap (lagged \cup {r \in Reader : Len(q[r]) = Capacity})

Send(message) == Sent(queue, Listening, message)

(* recv() returns a message, the first one. *)
Ready(r) == r \in Listening /\ r \notin lagged /\ queue[r] # <<>>

(* ... and the receiver publishes nothing then. *)
Receive(r) == queue' = Taken(queue, r) /\ UNCHANGED lagged

(* recv() returns Lagged, which every receiver ignores. *)
SkipLost(r) ==
    /\ r \in Listening \cap lagged
    /\ lagged' = lagged \ {r}
    /\ UNCHANGED <<queue, up>>

(* A task begins with a receiver that has nothing to receive; when it ends, *)
(* its receiver is dropped.                                                 *)
Subscribe(t) == up' = up \cup {t} /\ UNCHANGED <<queue, lagged>>
Unsubscribed(t) == [queue EXCEPT ![t] = <<>>]

BusTypeOK ==
    /\ queue \in [Reader -> Seq(Message)]
    /\ \A r \in Reader : Len(queue[r]) <= Capacity
    /\ lagged \subseteq Reader
    /\ up \subseteq Task
=============================================================================
