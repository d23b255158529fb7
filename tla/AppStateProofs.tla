--------------------------- MODULE AppStateProofs ---------------------------
(***************************************************************************)
(* Theorems about the front end and the bus (AppState) for any number of   *)
(* transfers, any capacity of the bus and any number of clicks.            *)
(***************************************************************************)
EXTENDS AppState, TLAPS

TaskState == State \cup {"Pending", "Unreachable", "Panicked"}

(* What the receivers of the bus may hold. *)
Queues == {q \in [Reader -> Seq(Message)] : \A r \in Reader : Len(q[r]) <= Capacity}

-----------------------------------------------------------------------------
(* The operators of Bus. *)

(* What a receiver keeps is no more than the channel holds for it. *)
LEMMA NewestIsBounded ==
    ASSUME NEW s \in Seq(Message), Len(s) <= Capacity, NEW m \in Message
    PROVE  /\ Newest(Append(s, m)) \in Seq(Message)
           /\ Len(Newest(Append(s, m))) <= Capacity
<1>1. Append(s, m) \in Seq(Message) /\ Len(Append(s, m)) = Len(s) + 1
  OBVIOUS
<1>2. CASE Len(Append(s, m)) <= Capacity
  BY <1>1, <1>2 DEF Newest
<1>3. CASE ~(Len(Append(s, m)) <= Capacity)
  <2>1. Newest(Append(s, m)) = Tail(Append(s, m))
    BY <1>3 DEF Newest
  <2>2. Tail(Append(s, m)) \in Seq(Message) /\ Len(Tail(Append(s, m))) = Len(s)
    BY <1>1
  <2>3. QED BY <2>1, <2>2
<1>4. QED BY <1>2, <1>3

(* A message of the bus and nothing else is added. *)
LEMMA SentKeepsQueues ==
    ASSUME NEW q \in Queues, NEW readers \in SUBSET Reader, NEW m \in Message,
           Sent(q, readers, m)
    PROVE  queue' \in Queues /\ lagged' \subseteq Reader
<1>1. q \in [Reader -> Seq(Message)] /\ \A r \in Reader : Len(q[r]) <= Capacity
  BY DEF Queues
<1>2. \A r \in Reader : /\ Newest(Append(q[r], m)) \in Seq(Message)
                        /\ Len(Newest(Append(q[r], m))) <= Capacity
  BY <1>1, NewestIsBounded
<1>3. queue' = [r \in Reader |-> IF r \in readers THEN Newest(Append(q[r], m)) ELSE q[r]]
  BY DEF Sent
<1>4. queue' \in Queues
  BY <1>1, <1>2, <1>3 DEF Queues
<1>5. lagged' \subseteq Reader
  BY DEF Sent
<1>6. QED BY <1>4, <1>5

LEMMA TakenKeepsQueues ==
    ASSUME NEW q \in Queues, NEW r \in Reader, q[r] # <<>>
    PROVE  Taken(q, r) \in Queues
<1>1. q \in [Reader -> Seq(Message)] /\ \A x \in Reader : Len(q[x]) <= Capacity
  BY DEF Queues
<1>2. Tail(q[r]) \in Seq(Message) /\ Len(Tail(q[r])) <= Capacity
  <2>1. q[r] \in Seq(Message) /\ Len(q[r]) <= Capacity /\ Capacity \in Nat
    BY <1>1, CapacityAssumption
  <2>2. Tail(q[r]) \in Seq(Message) /\ Len(Tail(q[r])) = Len(q[r]) - 1 /\ Len(q[r]) \in Nat
    BY <2>1
  <2>3. QED BY <2>1, <2>2
<1>3. QED BY <1>1, <1>2 DEF Taken, Queues

LEMMA UnsubscribedKeepsQueues ==
    ASSUME queue \in Queues, NEW t \in Task
    PROVE  Unsubscribed(t) \in Queues
<1>1. <<>> \in Seq(Message) /\ Len(<<>>) <= Capacity
  BY CapacityAssumption
<1>2. QED BY <1>1 DEF Unsubscribed, Queues

LEMMA UpdateIsMessage ==
    ASSUME NEW t \in Task, NEW state \in State, NEW rtype \in BOOLEAN
    PROVE  Update(t, state, rtype) \in Message
BY DEF Update, Message

LEMMA CommandIsMessage ==
    ASSUME NEW t \in Task, NEW action \in Action
    PROVE  Command(t, action) \in Message
BY DEF Command, Message

-----------------------------------------------------------------------------
(* The part of the type invariant that the tasks and the bus can disturb,   *)
(* and the part that the views can.                                         *)
BusTypes ==
    /\ queue \in Queues /\ lagged \subseteq Reader /\ up \subseteq Task
    /\ taskState \in [Task -> TaskState] /\ requests \subseteq Outbound

ViewTypes ==
    /\ DOMAIN transfers \subseteq {Id[t] : t \in Task}
    /\ \A id \in DOMAIN transfers :
         transfers[id] \in [of : Task, state : State, direction : {"Inbound", "Outbound"}]
    /\ mode \in {"Idle", "Discovery", "Transfers"} /\ dialog \in BOOLEAN

LEMMA TypesOfTheParts ==
    AppTypeOK <=> BusTypes /\ ViewTypes /\ clicks \in 0..MaxClicks
BY DEF AppTypeOK, BusTypeOK, BusTypes, ViewTypes, Queues, TaskState

LEMMA PublishKeepsTypes ==
    ASSUME BusTypes, NEW t \in Task, NEW state \in State, NEW q \in Queues,
           Publish(t, state, q), UNCHANGED <<up, requests>>
    PROVE  BusTypes'
<1>1. Sent(q, Listening, Update(t, state, TRUE))
  BY DEF Publish
<1>2. Listening \in SUBSET Reader
  BY DEF Listening, Reader, BusTypes
<1>3. queue' \in Queues /\ lagged' \subseteq Reader
  BY <1>1, <1>2, SentKeepsQueues, UpdateIsMessage
<1>4. taskState' \in [Task -> TaskState]
  BY DEF Publish, BusTypes, TaskState
<1>5. QED BY <1>3, <1>4 DEF BusTypes

(* Every step of a task keeps the types of the bus and touches no view. *)
TaskStep(t) ==
    Begin(t) \/ FailToConnect(t) \/ Peer(t) \/ Select(t) \/ End(t) \/ Lose(t)

LEMMA TaskStepsKeepTypes ==
    ASSUME BusTypes, NEW t \in Task, TaskStep(t)
    PROVE  BusTypes'
<1> USE DEF BusTypes
<1>1. CASE Begin(t)
  <2>1. taskState' \in [Task -> TaskState]
    BY <1>1 DEF Begin, TaskState, State
  <2>2. up' \subseteq Task /\ UNCHANGED <<queue, lagged>> /\ requests' \subseteq Outbound
    BY <1>1 DEF Begin, Subscribe
  <2>3. QED BY <2>1, <2>2
<1>2. CASE FailToConnect(t)
  <2>1. taskState' \in [Task -> TaskState]
    BY <1>2 DEF FailToConnect, TaskState
  <2>2. QED BY <2>1, <1>2 DEF FailToConnect, busVars
<1>3. CASE ExchangeKeys(t)
  <2>1. Listening \in SUBSET Reader
    BY DEF Listening, Reader
  <2>2. taskState[t] \in State
    BY <1>3 DEF ExchangeKeys, State
  <2>3. queue' \in Queues /\ lagged' \subseteq Reader
    BY <1>3, <2>1, <2>2, SentKeepsQueues, UpdateIsMessage DEF ExchangeKeys
  <2>4. taskState' \in [Task -> TaskState]
    BY <1>3 DEF ExchangeKeys, TaskState, State
  <2>5. QED BY <1>3, <2>3, <2>4 DEF ExchangeKeys
<1>4. CASE Introduce(t)
  <2>1. "WaitingForUserConsent" \in State /\ "SentIntroduction" \in State
    BY DEF State
  <2>2. QED BY <1>4, <2>1, PublishKeepsTypes DEF Introduce
<1>5. CASE HearAnswer(t)
  <2>1. PICK state \in {"SendingFiles", "Disconnected"} : Publish(t, state, queue)
    BY <1>5 DEF HearAnswer
  <2>2. state \in State
    BY DEF State, Terminal
  <2>3. QED BY <1>5, <2>1, <2>2, PublishKeepsTypes DEF HearAnswer
<1>6. CASE Progress(t)
  <2>1. taskState[t] \in State
    BY <1>6 DEF Progress, Transferring, State
  <2>2. QED BY <1>6, <2>1, PublishKeepsTypes DEF Progress
<1>7. CASE Finish(t)
  <2>1. "Finished" \in State
    BY DEF State, Terminal
  <2>2. QED BY <1>7, <2>1, PublishKeepsTypes DEF Finish
<1>8. CASE Obey(t)
  <2>1. t \in Reader /\ queue[t] # <<>> /\ queue[t] \in Seq(Message)
    BY <1>8 DEF Obey, Ready, Reader, Queues
  <2>2. Taken(queue, t) \in Queues
    BY <2>1, TakenKeepsQueues
  <2>3. Head(queue[t]) \in Message
    BY <2>1
  <2>4. Obeys(t, Head(queue[t])) /\ Publish(t, Effect(Head(queue[t]).action), Taken(queue, t))
    BY <1>8 DEF Obey
  <2>5. Head(queue[t]).action \in Action
    BY <2>3, <2>4 DEF Message, Obeys
  <2>6. Effect(Head(queue[t]).action) \in State
    BY <2>5 DEF Effect, Action, State, Terminal
  <2>7. QED BY <1>8, <2>2, <2>4, <2>6, PublishKeepsTypes DEF Obey
<1>9. CASE Ignore(t)
  <2>1. t \in Reader /\ queue[t] # <<>>
    BY <1>9 DEF Ignore, Ready, Reader
  <2>2. Taken(queue, t) \in Queues
    BY <2>1, TakenKeepsQueues
  <2>3. QED BY <1>9, <2>2 DEF Ignore, Receive
<1>10. CASE SkipAsTask(t)
  BY <1>10 DEF SkipAsTask, SkipLost
<1>11. CASE End(t)
  BY <1>11, UnsubscribedKeepsQueues DEF End
<1>12. CASE Lose(t)
  <2>1. Listening \ {t} \in SUBSET Reader
    BY DEF Listening, Reader
  <2>2. "Disconnected" \in State /\ "Disconnected" \in TaskState
    BY DEF State, Terminal, TaskState
  <2>3. queue' \in Queues /\ lagged' \subseteq Reader
    BY <1>12, <2>1, <2>2, SentKeepsQueues, UpdateIsMessage, UnsubscribedKeepsQueues DEF Lose
  <2>4. taskState' \in [Task -> TaskState]
    BY <1>12, <2>2 DEF Lose
  <2>5. QED BY <1>12, <2>3, <2>4 DEF Lose
<1>13. CASE Panic(t)
  <2>1. Listening \ {t} \in SUBSET Reader
    BY DEF Listening, Reader
  <2>2. "Cancelled" \in State /\ "Panicked" \in TaskState
    BY DEF State, Terminal, TaskState
  <2>3. queue' \in Queues /\ lagged' \subseteq Reader
    BY <1>13, <2>1, <2>2, SentKeepsQueues, UpdateIsMessage, UnsubscribedKeepsQueues DEF Panic
  <2>4. taskState' \in [Task -> TaskState]
    BY <1>13, <2>2 DEF Panic
  <2>5. QED BY <1>13, <2>3, <2>4 DEF Panic
<1>14. QED
  BY <1>1, <1>2, <1>3, <1>4, <1>5, <1>6, <1>7, <1>8, <1>9, <1>10, <1>11, <1>12, <1>13
  DEF TaskStep, Peer, Select

LEMMA TaskStepsTouchNoView ==
    ASSUME NEW t \in Task, TaskStep(t)
    PROVE  UNCHANGED <<viewVars, clicks>>
BY DEF TaskStep, Peer, Select, Begin, FailToConnect, ExchangeKeys, Introduce, HearAnswer,
       Progress, Finish, Obey, Panic, Ignore, SkipAsTask, End, Lose

(* An update changes the entry of its id and no other. *)
LEMMA HeardTypes ==
    ASSUME ViewTypes, NEW m \in Message, m.kind = "LibToFront"
    PROVE  /\ DOMAIN Heard(transfers, m) = DOMAIN transfers \cup {Id[m.task]}
           /\ m.task \in Task /\ m.state \in State
           /\ Heard(transfers, m)[Id[m.task]].of = m.task
           /\ Heard(transfers, m)[Id[m.task]].state = m.state
           /\ Heard(transfers, m)[Id[m.task]].direction \in {"Inbound", "Outbound"}
           /\ \A id \in DOMAIN transfers \ {Id[m.task]} :
                Heard(transfers, m)[id] = transfers[id]
BY DEF Heard, ViewTypes, Message

(* An update makes or changes the entry of its own transfer and no other. *)
LEMMA HeardIsOfItsTask ==
    ASSUME ViewTypes, NEW m \in Message, m.kind = "LibToFront",
           NEW id \in DOMAIN Heard(transfers, m),
           ~(id \in DOMAIN transfers /\ Heard(transfers, m)[id] = transfers[id])
    PROVE  /\ Heard(transfers, m)[id].of = m.task
           /\ Heard(transfers, m)[id].state = m.state
<1>1. id = Id[m.task]
  BY HeardTypes
<1>2. QED BY <1>1, HeardTypes

LEMMA HandleKeepsTypes ==
    ASSUME AppTypeOK, Handle
    PROVE  AppTypeOK'
<1> BusTypes /\ ViewTypes /\ clicks \in 0..MaxClicks
  BY TypesOfTheParts
<1> DEFINE m == Head(queue[Front])
<1>1. Front \in Reader /\ queue[Front] \in Seq(Message) /\ queue[Front] # <<>>
  BY DEF Reader, Handle, Ready, BusTypes, Queues
<1>2. m \in Message
  BY <1>1
<1>3. BusTypes'
  BY <1>1, TakenKeepsQueues DEF Handle, Receive, BusTypes
<1>4. ViewTypes'
  <2>1. CASE m.kind = "LibToFront"
    <3>1. transfers' = Heard(transfers, m) /\ mode' = ModeWith(transfers')
      BY <2>1 DEF Handle
    <3>2. mode' \in {"Idle", "Discovery", "Transfers"} /\ dialog' \in BOOLEAN
      BY <3>1 DEF ModeWith, ViewTypes, Handle
    <3>3. Heard(transfers, m)[Id[m.task]]
            \in [of : Task, state : State, direction : {"Inbound", "Outbound"}]
      <4>1. /\ m.task \in Task /\ m.state \in State
            /\ Heard(transfers, m)[Id[m.task]].direction \in {"Inbound", "Outbound"}
        BY <1>2, <2>1, HeardTypes
      <4>2. Heard(transfers, m)[Id[m.task]] =
              [of |-> m.task, state |-> m.state,
               direction |-> Heard(transfers, m)[Id[m.task]].direction]
        BY DEF Heard
      <4>3. QED BY <4>1, <4>2
    <3>4. \A id \in DOMAIN transfers' :
            transfers'[id] \in [of : Task, state : State, direction : {"Inbound", "Outbound"}]
      <4>1. SUFFICES ASSUME NEW id \in DOMAIN transfers', id # Id[m.task]
                     PROVE  transfers'[id]
                              \in [of : Task, state : State, direction : {"Inbound", "Outbound"}]
        BY <3>1, <3>3
      <4>2. id \in DOMAIN transfers /\ transfers'[id] = transfers[id]
        BY <3>1, <1>2, <2>1, <4>1, HeardTypes
      <4>3. QED BY <4>2 DEF ViewTypes
    <3>5. DOMAIN transfers' \subseteq {Id[t] : t \in Task}
      <4>1. m.task \in Task
        BY <1>2, <2>1, HeardTypes
      <4>2. DOMAIN Heard(transfers, m) = DOMAIN transfers \cup {Id[m.task]}
        BY DEF Heard
      <4>3. DOMAIN transfers' = DOMAIN transfers \cup {Id[m.task]}
        BY <3>1, <4>2
      <4>4. QED BY <4>1, <4>3 DEF ViewTypes
    <3>6. QED BY <3>2, <3>4, <3>5 DEF ViewTypes
  <2>2. CASE m.kind # "LibToFront"
    BY <2>2 DEF Handle, ViewTypes
  <2>3. QED BY <2>1, <2>2
<1>5. clicks' \in 0..MaxClicks
  BY DEF Handle
<1>6. QED BY <1>3, <1>4, <1>5, TypesOfTheParts DEF AppTypeOK, BusTypeOK, BusTypes,
             ViewTypes, Queues, TaskState

LEMMA OffersAreActions ==
    ASSUME NEW state, NEW action \in Offers(state)
    PROVE  action \in Action
<1>1. CASE state = "WaitingForUserConsent"
  BY <1>1 DEF Offers, Action
<1>2. CASE state \in {"SendingFiles", "ReceivingFiles"}
  BY <1>2 DEF Offers, Action
<1>3. CASE state \notin {"WaitingForUserConsent", "SendingFiles", "ReceivingFiles"}
  BY <1>3 DEF Offers
<1>4. QED BY <1>1, <1>2, <1>3

LEMMA ClickKeepsTypes ==
    ASSUME AppTypeOK, NEW id \in DOMAIN transfers, Click(id)
    PROVE  BusTypes' /\ ViewTypes' /\ clicks' \in 0..MaxClicks
<1> BusTypes /\ ViewTypes /\ clicks \in 0..MaxClicks
  BY TypesOfTheParts
<1>1. PICK action \in Offers(transfers[id].state) : Send(Command(transfers[id].of, action))
  BY DEF Click
<1>2. transfers[id].of \in Task
  BY DEF ViewTypes
<1>3. action \in Action
  BY OffersAreActions
<1>4. Listening \in SUBSET Reader /\ queue \in Queues
  BY DEF Listening, Reader, BusTypes
<1>5. queue' \in Queues /\ lagged' \subseteq Reader
  BY <1>1, <1>2, <1>3, <1>4, SentKeepsQueues, CommandIsMessage DEF Send
<1>6. BusTypes'
  BY <1>5 DEF Click, BusTypes
<1>7. ViewTypes'
  BY DEF Click, ViewTypes, viewVars
<1>8. clicks' \in 0..MaxClicks
  BY MaxClicksAssumption DEF Click
<1>9. QED BY <1>6, <1>7, <1>8

LEMMA OtherStepsKeepTypes ==
    ASSUME AppTypeOK,
           \/ SkipAsFront \/ OpenDialog \/ SelectFiles \/ CancelSend
           \/ \E t \in Task : SendToDevice(t)
           \/ \E id \in DOMAIN transfers : Clear(id)
           \/ UNCHANGED appVars
    PROVE  BusTypes' /\ ViewTypes' /\ clicks' \in 0..MaxClicks
<1> BusTypes /\ ViewTypes /\ clicks \in 0..MaxClicks
  BY TypesOfTheParts
<1>1. CASE SkipAsFront
  BY <1>1 DEF SkipAsFront, SkipLost, BusTypes, ViewTypes, viewVars
<1>2. CASE OpenDialog \/ SelectFiles \/ CancelSend
  BY <1>2 DEF OpenDialog, SelectFiles, CancelSend, BusTypes, ViewTypes, busVars
<1>3. ASSUME NEW t \in Task, SendToDevice(t)
      PROVE  BusTypes' /\ ViewTypes' /\ clicks' \in 0..MaxClicks
  BY <1>3 DEF SendToDevice, BusTypes, ViewTypes, busVars
<1>4. ASSUME NEW id \in DOMAIN transfers, Clear(id)
      PROVE  BusTypes' /\ ViewTypes' /\ clicks' \in 0..MaxClicks
  <2>1. transfers' = [i \in DOMAIN transfers \ {id} |-> transfers[i]]
    BY <1>4 DEF Clear
  <2>2. mode' \in {"Idle", "Discovery", "Transfers"}
    BY <1>4 DEF Clear, ViewTypes
  <2>3. ViewTypes'
    BY <1>4, <2>1, <2>2 DEF Clear, ViewTypes
  <2>4. BusTypes' /\ clicks' \in 0..MaxClicks
    BY <1>4 DEF Clear, BusTypes, busVars
  <2>5. QED BY <2>3, <2>4
<1>5. CASE UNCHANGED appVars
  BY <1>5 DEF appVars, busVars, viewVars, BusTypes, ViewTypes
<1>6. QED BY <1>1, <1>2, <1>3, <1>4, <1>5

(* The variables stay in their types; above all, no receiver of the bus has *)
(* more messages than the channel holds.                                    *)
THEOREM AppTypeCorrect == AppSpec => []AppTypeOK
<1>1. AppInit => AppTypeOK
  <2>1. SUFFICES ASSUME AppInit PROVE AppTypeOK
    OBVIOUS
  <2>2. \A r \in Reader : queue[r] \in Seq(Message) /\ Len(queue[r]) <= Capacity
    BY <2>1, CapacityAssumption DEF AppInit, BusInit
  <2>3. queue \in [Reader -> Seq(Message)]
    BY <2>1, <2>2 DEF AppInit, BusInit
  <2>4. BusTypeOK
    BY <2>1, <2>2, <2>3 DEF AppInit, BusInit, BusTypeOK
  <2>5. DOMAIN transfers = {}
    BY <2>1 DEF AppInit
  <2>6. /\ DOMAIN transfers \subseteq {Id[t] : t \in Task}
        /\ \A id \in DOMAIN transfers :
             transfers[id] \in [of : Task, state : State, direction : {"Inbound", "Outbound"}]
    BY <2>5
  <2>7. /\ taskState \in [Task -> State \cup {"Pending", "Unreachable", "Panicked"}]
        /\ requests \subseteq Outbound
        /\ mode \in {"Idle", "Discovery", "Transfers"} /\ dialog \in BOOLEAN
    BY <2>1 DEF AppInit
  <2>8. clicks \in 0..MaxClicks
    BY <2>1, MaxClicksAssumption DEF AppInit
  <2>9. QED BY <2>4, <2>6, <2>7, <2>8 DEF AppTypeOK
<1>2. AppTypeOK /\ [AppNext]_appVars => AppTypeOK'
  <2> SUFFICES ASSUME AppTypeOK, [AppNext]_appVars PROVE AppTypeOK'
    OBVIOUS
  <2>0. BusTypes' /\ ViewTypes' /\ clicks' \in 0..MaxClicks => AppTypeOK'
    BY DEF AppTypeOK, BusTypeOK, BusTypes, ViewTypes, Queues, TaskState
  <2>1. ASSUME NEW t \in Task, TaskStep(t) PROVE AppTypeOK'
    <3>1. BusTypes /\ ViewTypes /\ clicks \in 0..MaxClicks
      BY TypesOfTheParts
    <3>2. BusTypes'
      BY <2>1, <3>1, TaskStepsKeepTypes
    <3>3. UNCHANGED <<viewVars, clicks>>
      BY <2>1, TaskStepsTouchNoView
    <3>4. ViewTypes' /\ clicks' \in 0..MaxClicks
      BY <3>1, <3>3 DEF ViewTypes, viewVars
    <3>5. QED BY <2>0, <3>2, <3>4
  <2>2. CASE Handle
    BY <2>2, HandleKeepsTypes
  <2>3. ASSUME NEW id \in DOMAIN transfers, Click(id) PROVE AppTypeOK'
    BY <2>0, <2>3, ClickKeepsTypes
  <2>4. CASE \/ SkipAsFront \/ OpenDialog \/ SelectFiles \/ CancelSend
             \/ \E t \in Task : SendToDevice(t)
             \/ \E id \in DOMAIN transfers : Clear(id)
             \/ UNCHANGED appVars
    BY <2>0, <2>4, OtherStepsKeepTypes
  <2>5. QED BY <2>1, <2>2, <2>3, <2>4 DEF AppNext, FrontEnd, User, TaskStep
<1>3. QED BY <1>1, <1>2, PTL DEF AppSpec

(* The view that shows no transfers is never the view while one of those    *)
(* that the front end knows of runs, whatever the user and the tasks do in  *)
(* whatever order: apply_message leaves Idle for the entry that it makes,   *)
(* and what goes back to Idle has seen that there are no entries.           *)
THEOREM NothingIsHidden == AppSpec => []NothingActiveIsHidden
<1>1. AppInit => NothingActiveIsHidden
  BY DEF AppInit, NothingActiveIsHidden, Active
<1>2. NothingActiveIsHidden /\ [AppNext]_appVars => NothingActiveIsHidden'
  <2> SUFFICES ASSUME NothingActiveIsHidden, [AppNext]_appVars, mode' = "Idle"
               PROVE  Active(transfers)' = {}
    BY DEF NothingActiveIsHidden
  <2>1. ASSUME UNCHANGED viewVars PROVE Active(transfers)' = {}
    BY <2>1 DEF viewVars, NothingActiveIsHidden, Active
  <2>2. CASE Handle
    <3>1. CASE UNCHANGED viewVars
      BY <2>1, <3>1
    <3>2. CASE ~UNCHANGED viewVars
      <4>1. mode' = ModeWith(transfers')
        BY <2>2, <3>2 DEF Handle, viewVars
      <4>2. QED BY <4>1 DEF ModeWith, Active
    <3>3. QED BY <3>1, <3>2
  <2>3. ASSUME NEW id \in DOMAIN transfers, Clear(id) PROVE Active(transfers)' = {}
    <3>1. DOMAIN transfers' = {}
      BY <2>3 DEF Clear
    <3>2. QED BY <3>1 DEF Active
  <2>4. CASE CancelSend
    BY <2>4 DEF CancelSend, Active
  <2>5. CASE OpenDialog \/ SelectFiles \/ \E t \in Task : SendToDevice(t)
    BY <2>5 DEF OpenDialog, SelectFiles, SendToDevice, NothingActiveIsHidden, Active
  <2>6. CASE SkipAsFront
    BY <2>1, <2>6 DEF SkipAsFront
  <2>7. ASSUME NEW id \in DOMAIN transfers, Click(id) PROVE Active(transfers)' = {}
    BY <2>1, <2>7 DEF Click
  <2>8. ASSUME NEW t \in Task, TaskStep(t) PROVE Active(transfers)' = {}
    BY <2>1, <2>8, TaskStepsTouchNoView
  <2>9. CASE UNCHANGED appVars
    BY <2>1, <2>9 DEF appVars
  <2>10. QED BY <2>2, <2>3, <2>4, <2>5, <2>6, <2>7, <2>8, <2>9
            DEF AppNext, FrontEnd, User, TaskStep
<1>3. QED BY <1>1, <1>2, PTL DEF AppSpec

(* The loop of TcpServer has a connect() of its own in hand. *)
OneConnects == \A t, u \in up \cap Outbound : t = u

LEMMA OneConnectsAlways == AppSpec => []OneConnects
<1>1. AppInit => OneConnects
  BY DEF AppInit, BusInit, OneConnects
<1>2. OneConnects /\ [AppNext]_appVars => OneConnects'
  <2> SUFFICES ASSUME OneConnects, [AppNext]_appVars PROVE OneConnects'
    OBVIOUS
  <2>1. ASSUME up' \subseteq up PROVE OneConnects'
    BY <2>1 DEF OneConnects
  <2>2. ASSUME NEW t \in Task, Begin(t) PROVE OneConnects'
    BY <2>2 DEF Begin, Subscribe, LoopIsFree, OneConnects
  <2>3. ASSUME NEW t \in Task, TaskStep(t), ~Begin(t) PROVE up' \subseteq up
    BY <2>3 DEF TaskStep, FailToConnect, Peer, ExchangeKeys, Introduce, HearAnswer, Progress,
        Finish, Select, Obey, Panic, Ignore, SkipAsTask, SkipLost, End, Lose, busVars
  <2>4. ASSUME NEW id \in DOMAIN transfers, Click(id) \/ Clear(id) PROVE up' \subseteq up
    BY <2>4 DEF Click, Clear, busVars
  <2>5. CASE \/ FrontEnd \/ OpenDialog \/ SelectFiles \/ CancelSend
             \/ \E t \in Task : SendToDevice(t)
             \/ UNCHANGED appVars
    <3>1. UNCHANGED up
      BY <2>5 DEF FrontEnd, Handle, SkipAsFront, SkipLost, OpenDialog, SelectFiles,
         CancelSend, SendToDevice, busVars, appVars
    <3>2. QED BY <2>1, <3>1
  <2>6. QED BY <2>1, <2>2, <2>3, <2>4, <2>5 DEF AppNext, User, TaskStep
<1>3. QED BY <1>1, <1>2, PTL DEF AppSpec

(* Two transfers to one device have one id, yet a command for one of them   *)
(* reaches the other only when its own is over: since the loop awaits each  *)
(* connect(), one transfer at a time is sent, and a transfer that is        *)
(* received has an id of its own.                                           *)
THEOREM OnlyLateCommands == AppSpec => []OnlyLateCommandsGoAstray
<1>1. OneConnects /\ AppTypeOK => OnlyLateCommandsGoAstray
  <2> SUFFICES ASSUME OneConnects, AppTypeOK, NEW t \in up,
                      NEW i \in 1..Len(queue[t]), NEW m, m = queue[t][i],
                      m.kind = "FrontToLib", Id[m.task] = Id[t], m.task # t
               PROVE  m.task \notin up
    BY DEF OnlyLateCommandsGoAstray
  <2>1. t \in Task /\ queue[t] \in Seq(Message)
    BY DEF AppTypeOK, BusTypeOK, Reader
  <2>2. m \in Message
    BY <2>1
  <2>3. m.task \in Task
    BY <2>2 DEF Message
  <2>4. t \in Outbound /\ m.task \in Outbound
    BY <2>1, <2>3, IdAssumption DEF Outbound
  <2>5. QED BY <2>4 DEF OneConnects
<1>2. QED BY <1>1, OneConnectsAlways, AppTypeCorrect, PTL

-----------------------------------------------------------------------------
(* What a step does to the messages that the front end has before it. *)

(* s is what had t and then the message, less the oldest of it at most. *)
Extends(s, t, m) ==
    \E d \in 0..1 :
        /\ Len(s) = Len(t) + 1 - d
        /\ \A i \in 1..Len(s) : s[i] = IF i = Len(s) THEN m ELSE t[i + d]

LEMMA NewestExtends ==
    ASSUME NEW s \in Seq(Message), NEW m \in Message
    PROVE  Extends(Newest(Append(s, m)), s, m)
<1>1. Len(s) \in Nat /\ Append(s, m) \in Seq(Message) /\ Len(Append(s, m)) = Len(s) + 1
  OBVIOUS
<1>2. \A i \in 1..Len(Append(s, m)) :
        Append(s, m)[i] = IF i = Len(s) + 1 THEN m ELSE s[i]
  OBVIOUS
<1>3. CASE Len(Append(s, m)) <= Capacity
  <2>1. Newest(Append(s, m)) = Append(s, m)
    BY <1>3 DEF Newest
  <2>2. /\ Len(Append(s, m)) = Len(s) + 1 - 0
        /\ \A i \in 1..Len(Append(s, m)) :
             Append(s, m)[i] = IF i = Len(Append(s, m)) THEN m ELSE s[i + 0]
    BY <1>1, <1>2
  <2>3. QED BY <2>1, <2>2 DEF Extends
<1>4. CASE ~(Len(Append(s, m)) <= Capacity)
  <2> DEFINE n == Tail(Append(s, m))
  <2>1. Newest(Append(s, m)) = n
    BY <1>4 DEF Newest
  <2>2. Len(n) = Len(s) /\ \A i \in 1..Len(n) : n[i] = Append(s, m)[i + 1]
    BY <1>1
  <2>3. \A i \in 1..Len(n) : n[i] = IF i = Len(n) THEN m ELSE s[i + 1]
    BY <1>1, <1>2, <2>2
  <2>4. Len(n) = Len(s) + 1 - 1
    BY <1>1, <2>2
  <2>5. QED BY <2>1, <2>3, <2>4 DEF Extends
<1>5. QED BY <1>3, <1>4

(* What may be said of a transfer that was in state: once it is over, that  *)
(* it is, and nothing else than before but in the two ways of Rewritten; a  *)
(* panic comes after what the task told last.                               *)
Gone == Terminal \cup {"Panicked"}

Follows(t, before, after) ==
    before \in Gone =>
        /\ after \in Gone
        /\ \/ before = after \/ Rewritten(t, before, after)
           \/ before # "Disconnected" /\ after = "Panicked"

LEMMA FollowsIsTransitive ==
    ASSUME NEW t, NEW a, NEW b, NEW c, Follows(t, a, b), Follows(t, b, c)
    PROVE  Follows(t, a, c)
<1> SUFFICES ASSUME a \in Gone, a # b, b # c
             PROVE  /\ c \in Gone
                    /\ \/ a = c \/ Rewritten(t, a, c)
                       \/ a # "Disconnected" /\ c = "Panicked"
  BY DEF Follows
<1>1. /\ b \in Gone /\ c \in Gone
      /\ Rewritten(t, a, b) \/ (a # "Disconnected" /\ b = "Panicked")
  BY DEF Follows
<1>2. Rewritten(t, b, c) \/ (b # "Disconnected" /\ c = "Panicked")
  BY <1>1 DEF Follows
<1>3. Rewritten(t, a, b)
  <2>1. ASSUME b = "Panicked" PROVE FALSE
    BY <1>2, <2>1 DEF Rewritten
  <2>2. QED BY <1>1, <2>1
<1>4. ~Rewritten(t, b, c)
  BY <1>3 DEF Rewritten, Outbound
<1>5. QED BY <1>1, <1>2, <1>3, <1>4 DEF Rewritten

(* Among what is told there is no panic. *)
LEMMA FollowsAmongStates ==
    ASSUME NEW t, NEW a \in State, NEW b \in State, Follows(t, a, b), a \in Terminal
    PROVE  b \in Terminal /\ (a = b \/ Rewritten(t, a, b))
<1>1. a # "Panicked" /\ b # "Panicked"
  BY DEF State, Terminal
<1>2. QED BY <1>1 DEF Follows, Gone

(* What a task does to its own state, and what it tells of itself then: a   *)
(* message is of the time between the two states.                           *)
Tells(t, m) ==
    /\ m \in Message /\ m.kind = "LibToFront" /\ m.task = t
    /\ m.rtype \/ taskState[t]' = "Disconnected"
    /\ Follows(t, taskState[t], m.state) /\ Follows(t, m.state, taskState[t]')

Goes(t) ==
    /\ \A u \in Task \ {t} : taskState[u]' = taskState[u]
    /\ Follows(t, taskState[t], taskState[t]')
    /\ taskState[t] # "Pending" => taskState[t]' # "Pending"
    /\ taskState[t] # "Panicked" => taskState[t]' # "Panicked" \/ t \notin up'
    /\ t \in Outbound /\ taskState[t] # "Rejected" => taskState[t]' # "Rejected"

(* A send that was asked for has not begun, and what runs has and is not    *)
(* gone by a panic; a sender does not reject.                               *)
RequestsWait ==
    /\ \A t \in requests : taskState[t] = "Pending"
    /\ \A t \in up : taskState[t] \notin {"Pending", "Panicked"}
    /\ \A t \in Outbound : taskState[t] # "Rejected"

LEMMA PublishTells ==
    ASSUME BusTypes, NEW t \in Task, NEW state \in State, NEW q,
           Publish(t, state, q), q[Front] = queue[Front],
           Follows(t, taskState[t], state),
           t \in Outbound => state # "Rejected"
    PROVE  /\ Goes(t)
           /\ \E m \in Message : Tells(t, m) /\ Extends(queue'[Front], queue[Front], m)
<1> DEFINE m == Update(t, state, TRUE)
<1>1. taskState' = [taskState EXCEPT ![t] = state] /\ taskState \in [Task -> TaskState]
  BY DEF Publish, BusTypes
<1>2. Goes(t)
  BY <1>1 DEF Goes, State, Terminal
<1>3. m \in Message
  BY UpdateIsMessage
<1>4. Tells(t, m)
  <2>1. taskState[t]' = state /\ m.state = state /\ m.task = t /\ m.rtype = TRUE
        /\ m.kind = "LibToFront"
    BY <1>1 DEF Update
  <2>2. Follows(t, state, state)
    BY DEF Follows
  <2>3. QED BY <1>3, <2>1, <2>2 DEF Tells
<1>5. queue[Front] \in Seq(Message)
  BY DEF BusTypes, Queues, Reader
<1>6. queue'[Front] = Newest(Append(queue[Front], m))
  BY DEF Publish, Sent, Listening, Reader
<1>7. QED BY <1>2, <1>3, <1>4, <1>5, <1>6, NewestExtends

LEMMA TaskStepTells ==
    ASSUME BusTypes, RequestsWait, NEW t \in Task, TaskStep(t)
    PROVE  /\ Goes(t)
           /\ \/ queue'[Front] = queue[Front]
              \/ \E m \in Message : Tells(t, m) /\ Extends(queue'[Front], queue[Front], m)
<1>1. t # Front /\ Front \in Reader /\ queue[Front] \in Seq(Message)
      /\ taskState \in [Task -> TaskState] /\ t \in Reader
  BY TaskAssumption DEF BusTypes, Queues, Reader
<1>2. CASE Begin(t)
  BY <1>1, <1>2 DEF Begin, Subscribe, Goes, Follows, Terminal, Gone
<1>3. CASE FailToConnect(t)
  <2>1. taskState[t] = "Pending"
    BY <1>3 DEF FailToConnect, RequestsWait
  <2>2. QED BY <1>1, <1>3, <2>1 DEF FailToConnect, Goes, Follows, busVars, Terminal, Gone
<1>4. CASE ExchangeKeys(t)
  <2> DEFINE m == Update(t, taskState[t], TRUE)
  <2>1. taskState[t] \in State /\ taskState[t] \notin Gone
        /\ taskState' = [taskState EXCEPT ![t] = "SentUkeyClientFinish"]
    BY <1>4 DEF ExchangeKeys, State, Terminal, Gone
  <2>2. m \in Message
    BY <2>1, UpdateIsMessage
  <2>3. Tells(t, m) /\ Goes(t)
    BY <1>1, <2>1, <2>2 DEF Tells, Update, Goes, Follows, Terminal, Gone
  <2>4. queue'[Front] = Newest(Append(queue[Front], m))
    BY <1>1, <1>4 DEF ExchangeKeys, Sent, Listening
  <2>5. QED BY <1>1, <2>2, <2>3, <2>4, NewestExtends
<1>5. CASE Introduce(t)
  <2>1. PICK state \in {"WaitingForUserConsent", "SentIntroduction"} : Publish(t, state, queue)
    BY <1>5 DEF Introduce
  <2>2. state \in State /\ taskState[t] \notin Gone
    BY <1>5 DEF Introduce, State, Terminal, Gone
  <2>3. QED BY <2>1, <2>2, PublishTells DEF Follows
<1>6. CASE HearAnswer(t)
  <2>1. PICK state \in {"SendingFiles", "Disconnected"} : Publish(t, state, queue)
    BY <1>6 DEF HearAnswer
  <2>2. state \in State /\ taskState[t] \notin Gone
    BY <1>6 DEF HearAnswer, State, Terminal, Gone
  <2>3. QED BY <2>1, <2>2, PublishTells DEF Follows
<1>7. CASE Progress(t)
  <2>1. Publish(t, taskState[t], queue)
    BY <1>7 DEF Progress
  <2>2. /\ taskState[t] \in State /\ taskState[t] \notin Gone
        /\ taskState[t] # "Rejected"
    BY <1>7 DEF Progress, Transferring, State, Terminal, Gone
  <2>3. QED BY <2>1, <2>2, PublishTells DEF Follows
<1>8. CASE Finish(t)
  <2>1. Publish(t, "Finished", queue)
    BY <1>8 DEF Finish
  <2>2. "Finished" \in State /\ taskState[t] \notin Gone
    BY <1>8 DEF Finish, Transferring, State, Terminal, Gone
  <2>3. QED BY <2>1, <2>2, PublishTells DEF Follows
<1>9. CASE Obey(t)
  <2> DEFINE m == Head(queue[t])
             state == Effect(m.action)
  <2>1. Obeys(t, m) /\ Publish(t, state, Taken(queue, t))
    BY <1>9 DEF Obey
  <2>2. m.action \in Action
    BY <2>1 DEF Obeys, Understood, Action
  <2>3. state \in State
    BY <2>2 DEF Effect, Action, State, Terminal, Gone
  <2>4. t \in Outbound => state = "Cancelled"
    <3>1. t \in Outbound => m.action = "CancelTransfer"
      BY <2>1 DEF Obeys, Understood, Outbound
    <3>2. QED BY <3>1 DEF Effect
  <2>5. Follows(t, taskState[t], state)
    <3>1. SUFFICES ASSUME taskState[t] \in Gone
                   PROVE  state \in Gone /\ Rewritten(t, taskState[t], state)
      BY DEF Follows
    <3>2. t \in Outbound /\ taskState[t] = "Finished"
      BY <1>9, <3>1 DEF Obey, Selects, Leaving, Outbound, RequestsWait, Gone
    <3>3. QED BY <2>4, <3>2 DEF Rewritten, Terminal, Gone
  <2>6. Taken(queue, t)[Front] = queue[Front]
    BY <1>1 DEF Taken, BusTypes, Queues
  <2>7. t \in Outbound => state # "Rejected"
    BY <2>4
  <2>8. QED BY <2>1, <2>3, <2>5, <2>6, <2>7, PublishTells
<1>10. CASE Ignore(t) \/ SkipAsTask(t)
  BY <1>1, <1>10 DEF Ignore, SkipAsTask, SkipLost, Receive, Taken, Goes, Follows, BusTypes, Queues
<1>11. CASE End(t)
  BY <1>1, <1>11 DEF End, Unsubscribed, Goes, Follows, BusTypes, Queues
<1>12. CASE Lose(t)
  <2> DEFINE m == Update(t, "Disconnected", FALSE)
  <2>1. taskState' = [taskState EXCEPT ![t] = "Disconnected"]
    BY <1>12 DEF Lose
  <2>2. m \in Message
    BY UpdateIsMessage DEF State, Terminal, Gone
  <2>3. Follows(t, taskState[t], "Disconnected")
    <3>1. taskState[t] \in Gone =>
            taskState[t] = "Disconnected" \/ Rewritten(t, taskState[t], "Disconnected")
      BY <1>12 DEF Lose, Quiet, Terminal, Gone, Rewritten, RequestsWait, Outbound
    <3>2. QED BY <3>1 DEF Follows, Terminal, Gone
  <2>4. Tells(t, m) /\ Goes(t)
    <3>1. taskState[t]' = "Disconnected" /\ m.state = "Disconnected"
          /\ m.kind = "LibToFront" /\ m.task = t
      BY <1>1, <2>1 DEF Update
    <3>2. Tells(t, m)
      BY <2>2, <2>3, <3>1 DEF Tells, Follows
    <3>3. Goes(t)
      BY <1>1, <2>1, <2>3, <3>1 DEF Goes
    <3>4. QED BY <3>2, <3>3
  <2>5. queue'[Front] = Newest(Append(queue[Front], m))
    BY <1>1, <1>12 DEF Lose, Sent, Listening, Unsubscribed, BusTypes, Queues
  <2>6. QED BY <1>1, <2>2, <2>4, <2>5, NewestExtends
<1>13. CASE Panic(t)
  <2> DEFINE m == Update(t, "Cancelled", TRUE)
  <2>1. taskState' = [taskState EXCEPT ![t] = "Panicked"] /\ taskState[t] = "SentUkeyClientInit"
    BY <1>13 DEF Panic, Keyless
  <2>2. m \in Message
    BY UpdateIsMessage DEF State, Terminal
  <2>3. Tells(t, m)
    BY <1>1, <2>1, <2>2 DEF Tells, Update, Follows, Terminal, Gone
  <2>4. Goes(t)
    BY <1>1, <1>13, <2>1 DEF Goes, Follows, Terminal, Gone, Panic
  <2>5. queue'[Front] = Newest(Append(queue[Front], m))
    BY <1>1, <1>13 DEF Panic, Sent, Listening, Unsubscribed, BusTypes, Queues
  <2>6. QED BY <1>1, <2>2, <2>3, <2>4, <2>5, NewestExtends
<1>14. QED BY <1>2, <1>3, <1>4, <1>5, <1>6, <1>7, <1>8, <1>9, <1>10, <1>11, <1>12, <1>13
          DEF TaskStep, Peer, Select

(* A step changes what the front end has before it in one of three ways: a  *)
(* task tells, the user gives a command, or the listener takes a message.   *)
(* Only the listener changes an entry, only a task a state.                 *)
Told == \E t \in Task : \E m \in Message :
    Goes(t) /\ Tells(t, m) /\ Extends(queue'[Front], queue[Front], m)
Went == \E t \in Task : Goes(t) /\ queue'[Front] = queue[Front]
Ordered == \E m \in Message :
    m.kind = "FrontToLib" /\ Extends(queue'[Front], queue[Front], m)

LEMMA EveryStep ==
    ASSUME AppTypeOK, RequestsWait, [AppNext]_appVars
    PROVE  \/ (Told \/ Went) /\ UNCHANGED viewVars
           \/ Ordered /\ UNCHANGED <<taskState, viewVars>>
           \/ Handle
           \/ /\ queue'[Front] = queue[Front] /\ UNCHANGED taskState
              /\ DOMAIN transfers' \subseteq DOMAIN transfers
              /\ \A id \in DOMAIN transfers' : transfers'[id] = transfers[id]
<1>1. BusTypes /\ ViewTypes
  BY TypesOfTheParts
<1>2. ASSUME NEW t \in Task, TaskStep(t) PROVE (Told \/ Went) /\ UNCHANGED viewVars
  BY <1>1, <1>2, TaskStepTells, TaskStepsTouchNoView DEF Told, Went
<1>3. ASSUME NEW id \in DOMAIN transfers, Click(id)
      PROVE  Ordered /\ UNCHANGED <<taskState, viewVars>>
  <2>1. PICK action \in Offers(transfers[id].state) : Send(Command(transfers[id].of, action))
    BY <1>3 DEF Click
  <2> DEFINE m == Command(transfers[id].of, action)
  <2>2. transfers[id].of \in Task
    BY <1>1 DEF ViewTypes
  <2>3. action \in Action
    BY OffersAreActions
  <2>4. m \in Message /\ m.kind = "FrontToLib"
    BY <2>2, <2>3, CommandIsMessage DEF Command
  <2>5. queue'[Front] = Newest(Append(queue[Front], m)) /\ queue[Front] \in Seq(Message)
    BY <1>1, <2>1 DEF Send, Sent, Listening, Reader, BusTypes, Queues
  <2>6. Extends(queue'[Front], queue[Front], m)
    BY <2>4, <2>5, NewestExtends
  <2>7. QED BY <1>3, <2>4, <2>6 DEF Ordered, Click
<1> DEFINE Rest == /\ queue'[Front] = queue[Front] /\ UNCHANGED taskState
                   /\ DOMAIN transfers' \subseteq DOMAIN transfers
                   /\ \A id \in DOMAIN transfers' : transfers'[id] = transfers[id]
<1>4. ASSUME NEW id \in DOMAIN transfers, Clear(id) PROVE Rest
  BY <1>4 DEF Clear, busVars
<1>5. CASE \/ SkipAsFront \/ OpenDialog \/ SelectFiles \/ CancelSend
           \/ \E t \in Task : SendToDevice(t)
           \/ UNCHANGED appVars
  <2>1. UNCHANGED <<queue, taskState, transfers>>
    BY <1>5 DEF SkipAsFront, SkipLost, OpenDialog, SelectFiles, CancelSend, SendToDevice,
       appVars, busVars, viewVars
  <2>2. QED BY <2>1
<1>6. QED BY <1>2, <1>3, <1>4, <1>5 DEF AppNext, FrontEnd, User, TaskStep

LEMMA RequestsWaitAlways == AppSpec => []RequestsWait
<1>1. AppInit => RequestsWait
  BY DEF AppInit, BusInit, RequestsWait, Outbound
<1>2. AppTypeOK /\ RequestsWait /\ [AppNext]_appVars => RequestsWait'
  <2> SUFFICES ASSUME AppTypeOK, RequestsWait, [AppNext]_appVars PROVE RequestsWait'
    OBVIOUS
  <2>1. BusTypes /\ ViewTypes
    BY TypesOfTheParts
  <2>2. ASSUME NEW t \in Task, TaskStep(t) PROVE RequestsWait'
    <3>1. Goes(t) /\ taskState \in [Task -> TaskState]
      BY <2>1, <2>2, TaskStepTells DEF BusTypes
    <3>2. CASE Begin(t)
      BY <2>1, <3>1, <3>2 DEF Begin, Subscribe, RequestsWait, BusTypes, Outbound
    <3>3. CASE FailToConnect(t)
      BY <2>1, <3>1, <3>3 DEF FailToConnect, RequestsWait, BusTypes, Outbound, busVars
    <3>4. CASE ~Begin(t) /\ ~FailToConnect(t)
      <4>1. t \in up /\ up' \subseteq up /\ UNCHANGED requests
        BY <2>2, <3>4 DEF TaskStep, Peer, ExchangeKeys, Introduce, HearAnswer, Progress,
           Transferring, Finish, Select, Obey, Panic, Ignore, SkipAsTask, SkipLost, Selects, End,
           Lose, busVars
      <4>2. QED BY <2>1, <3>1, <4>1 DEF Goes, RequestsWait, BusTypes, Outbound
    <3>5. QED BY <3>2, <3>3, <3>4
  <2>3. ASSUME NEW t \in Task, SendToDevice(t) PROVE RequestsWait'
    BY <2>3 DEF SendToDevice, RequestsWait, busVars
  <2>4. ASSUME NEW id \in DOMAIN transfers, Click(id) \/ Clear(id) PROVE RequestsWait'
    BY <2>4 DEF Click, Clear, RequestsWait, busVars
  <2>5. CASE \/ Handle \/ SkipAsFront \/ OpenDialog \/ SelectFiles \/ CancelSend
             \/ UNCHANGED appVars
    <3>1. UNCHANGED <<up, taskState, requests>>
      BY <2>5 DEF Handle, SkipAsFront, SkipLost, OpenDialog, SelectFiles, CancelSend,
         appVars, busVars, viewVars
    <3>2. QED BY <3>1 DEF RequestsWait
  <2>6. QED BY <2>2, <2>3, <2>4, <2>5 DEF AppNext, FrontEnd, User, TaskStep
<1>3. QED BY <1>1, <1>2, AppTypeCorrect, PTL DEF AppSpec

-----------------------------------------------------------------------------
(* Lost(t): why an entry or a message does not say that t is sent. *)
Lost(t) == t \in Outbound /\ taskState[t] = "Disconnected"

(* What the front end is told without a kind is told of a lost transfer. *)
KindlessAreLost ==
    \A i \in 1..Len(queue[Front]) :
        LET m == queue[Front][i] IN
          m.kind = "LibToFront" /\ m.task \in Outbound => m.rtype \/ Lost(m.task)

(* ... and an entry of the wrong kind was made of such a message. *)
EntriesAreOfTheirId ==
    \A id \in DOMAIN transfers : Id[transfers[id].of] = id

KindIsTrue == KindlessAreLost /\ EntriesAreOfTheirId /\ WrongWayOnlyAfterALoss

(* A transfer that is sent is shown as one that is received only after one  *)
(* to the same device was lost, however many transfers and messages come in *)
(* between: error messages have no kind, and an entry keeps its kind.       *)
THEOREM WrongWayAfterLoss == AppSpec => []WrongWayOnlyAfterALoss
<1>1. AppInit => KindIsTrue
  <2> SUFFICES ASSUME AppInit PROVE KindIsTrue
    OBVIOUS
  <2>1. queue[Front] = <<>>
    BY DEF AppInit, BusInit, Reader
  <2>2. KindlessAreLost
    BY <2>1 DEF KindlessAreLost
  <2>3. DOMAIN transfers = {}
    BY DEF AppInit
  <2>4. QED BY <2>2, <2>3 DEF KindIsTrue, EntriesAreOfTheirId, WrongWayOnlyAfterALoss
<1>2. AppTypeOK /\ RequestsWait /\ KindIsTrue /\ [AppNext]_appVars => KindIsTrue'
  <2> SUFFICES ASSUME AppTypeOK, RequestsWait, KindIsTrue, [AppNext]_appVars PROVE KindIsTrue'
    OBVIOUS
  <2> USE DEF KindIsTrue
  <2> DEFINE Q == queue[Front]
  <2>1. BusTypes /\ ViewTypes /\ Q \in Seq(Message)
    BY TypesOfTheParts DEF BusTypes, Queues, Reader
  <2>2. ASSUME \A t \in Task : Lost(t) => Lost(t)',
               DOMAIN transfers' \subseteq DOMAIN transfers,
               \A id \in DOMAIN transfers' : transfers'[id] = transfers[id]
        PROVE  (EntriesAreOfTheirId /\ WrongWayOnlyAfterALoss)'
    BY <2>2 DEF EntriesAreOfTheirId, WrongWayOnlyAfterALoss, Lost, Outbound
  <2>3. ASSUME \A t \in Task : Lost(t) => Lost(t)', NEW m \in Message, Extends(Q', Q, m),
               m.kind = "LibToFront" /\ m.task \in Outbound => m.rtype \/ Lost(m.task)'
        PROVE  KindlessAreLost'
    <3> SUFFICES ASSUME NEW i \in 1..Len(Q'), NEW n, n = Q'[i], n.kind = "LibToFront",
                        n.task \in Outbound, ~n.rtype
                 PROVE  Lost(n.task)'
      BY DEF KindlessAreLost
    <3>1. PICK d \in 0..1 : /\ Len(Q') = Len(Q) + 1 - d
                            /\ Q'[i] = IF i = Len(Q') THEN m ELSE Q[i + d]
      BY <2>3 DEF Extends
    <3>2. CASE i = Len(Q')
      BY <2>3, <3>1, <3>2
    <3>3. CASE i # Len(Q')
      <4>1. i + d \in 1..Len(Q) /\ Q'[i] = Q[i + d]
        BY <2>1, <3>1, <3>3
      <4>2. Lost(n.task)
        BY <4>1 DEF KindlessAreLost
      <4>3. QED BY <2>3, <4>1, <4>2 DEF Outbound
    <3>4. QED BY <3>2, <3>3
  <2>4. ASSUME NEW t \in Task, Goes(t) PROVE \A u \in Task : Lost(u) => Lost(u)'
    <3>1. taskState[t] = "Disconnected" => taskState[t]' = "Disconnected"
      BY <2>4 DEF Goes, Follows, Rewritten, Terminal, Gone
    <3>2. QED BY <2>4, <3>1 DEF Goes, Lost
  <2>5. CASE Told /\ UNCHANGED viewVars
    <3>1. PICK t \in Task, m \in Message : Goes(t) /\ Tells(t, m) /\ Extends(Q', Q, m)
      BY <2>5 DEF Told
    <3>2. \A u \in Task : Lost(u) => Lost(u)'
      BY <2>4, <3>1
    <3>3. m.kind = "LibToFront" /\ m.task \in Outbound => m.rtype \/ Lost(m.task)'
      BY <3>1 DEF Tells, Lost
    <3>4. QED BY <2>2, <2>3, <2>5, <3>1, <3>2, <3>3 DEF viewVars
  <2>6. CASE Went /\ UNCHANGED viewVars
    <3>1. PICK t \in Task : Goes(t) /\ Q' = Q
      BY <2>6 DEF Went
    <3>2. \A u \in Task : Lost(u) => Lost(u)'
      BY <2>4, <3>1
    <3>3. KindlessAreLost'
      BY <3>1, <3>2 DEF KindlessAreLost, Outbound
    <3>4. QED BY <2>2, <2>6, <3>2, <3>3 DEF viewVars
  <2>7. CASE Ordered /\ UNCHANGED <<taskState, viewVars>>
    <3>1. PICK m \in Message : m.kind = "FrontToLib" /\ Extends(Q', Q, m)
      BY <2>7 DEF Ordered
    <3>2. \A u \in Task : Lost(u) => Lost(u)'
      BY <2>7 DEF Lost
    <3>3. QED BY <2>2, <2>3, <2>7, <3>1, <3>2 DEF viewVars
  <2>8. CASE /\ Q' = Q /\ UNCHANGED taskState
             /\ DOMAIN transfers' \subseteq DOMAIN transfers
             /\ \A id \in DOMAIN transfers' : transfers'[id] = transfers[id]
    <3>1. \A u \in Task : Lost(u) => Lost(u)'
      BY <2>8 DEF Lost
    <3>2. KindlessAreLost'
      BY <2>8, <3>1 DEF KindlessAreLost, Outbound
    <3>3. QED BY <2>2, <2>8, <3>1, <3>2
  <2>9. CASE Handle
    <3> DEFINE m == Head(Q)
    <3>1. Q # <<>> /\ Q' = Tail(Q) /\ UNCHANGED taskState
      BY <2>1, <2>9 DEF Handle, Ready, Receive, Taken, BusTypes, Queues, Reader
    <3>2. \A u \in Task : Lost(u) => Lost(u)'
      BY <3>1 DEF Lost
    <3>3. Len(Q') = Len(Q) - 1 /\ (\A i \in 1..Len(Q') : Q'[i] = Q[i + 1])
          /\ m = Q[1] /\ m \in Message /\ Len(Q) \in Nat /\ Len(Q) > 0
      BY <2>1, <3>1
    <3>4. KindlessAreLost'
      <4> SUFFICES ASSUME NEW i \in 1..Len(Q'), NEW n, n = Q'[i], n.kind = "LibToFront",
                          n.task \in Outbound, ~n.rtype
                   PROVE  Lost(n.task)'
        BY DEF KindlessAreLost
      <4>1. i + 1 \in 1..Len(Q) /\ Q'[i] = Q[i + 1]
        BY <3>3
      <4>2. Lost(n.task)
        BY <4>1 DEF KindlessAreLost
      <4>3. QED BY <3>2, <4>1, <4>2 DEF Outbound
    <3>5. CASE m.kind # "LibToFront"
      <4>1. UNCHANGED transfers
        BY <2>9, <3>5 DEF Handle
      <4>2. QED BY <2>2, <3>2, <3>4, <4>1
    <3>6. CASE m.kind = "LibToFront"
      <4> DEFINE key == Id[m.task]
      <4>1. transfers' = Heard(transfers, m)
        BY <2>9, <3>6 DEF Handle
      <4>2. /\ m.task \in Task /\ DOMAIN transfers' = DOMAIN transfers \cup {key}
            /\ transfers'[key].of = m.task
            /\ \A id \in DOMAIN transfers \ {key} : transfers'[id] = transfers[id]
        BY <2>1, <3>3, <3>6, <4>1, HeardTypes
      <4>3. EntriesAreOfTheirId'
        BY <4>2 DEF EntriesAreOfTheirId
      <4>4. ASSUME m.task \in Outbound, transfers'[key].direction = "Inbound"
            PROVE  \E t \in Outbound : Id[t] = key /\ taskState[t] = "Disconnected"
        <5>1. CASE key \in DOMAIN transfers
          <6>1. transfers[key].direction = "Inbound"
            BY <4>1, <4>4, <5>1 DEF Heard
          <6>2. transfers[key].of \in Task /\ Id[transfers[key].of] = key
            BY <2>1, <5>1 DEF ViewTypes, EntriesAreOfTheirId
          <6>3. transfers[key].of \in Outbound
            BY <4>4, <6>2, IdAssumption DEF Outbound
          <6>4. QED BY <5>1, <6>1, <6>3 DEF WrongWayOnlyAfterALoss
        <5>2. CASE key \notin DOMAIN transfers
          <6>1. ~m.rtype
            BY <4>1, <4>4, <5>2 DEF Heard
          <6>2. Lost(m.task)
            BY <3>3, <3>6, <4>4, <6>1 DEF KindlessAreLost
          <6>3. QED BY <4>4, <6>2 DEF Lost
        <5>3. QED BY <5>1, <5>2
      <4>5. WrongWayOnlyAfterALoss'
        <5> SUFFICES ASSUME NEW id \in DOMAIN transfers', transfers'[id].direction = "Inbound",
                            transfers'[id].of \in Outbound
                     PROVE  \E t \in Outbound : Id[t] = id /\ taskState'[t] = "Disconnected"
          BY DEF WrongWayOnlyAfterALoss
        <5>1. CASE id = key
          BY <3>1, <4>2, <4>4, <5>1
        <5>2. CASE id # key
          BY <3>1, <4>2, <5>2 DEF WrongWayOnlyAfterALoss
        <5>3. QED BY <5>1, <5>2
      <4>6. QED BY <3>4, <4>3, <4>5
    <3>7. QED BY <3>5, <3>6
  <2>10. QED BY <2>5, <2>6, <2>7, <2>8, <2>9, EveryStep
<1>3. KindIsTrue => WrongWayOnlyAfterALoss
  BY DEF KindIsTrue
<1>4. QED BY <1>1, <1>2, <1>3, AppTypeCorrect, RequestsWaitAlways, PTL DEF AppSpec

-----------------------------------------------------------------------------
(* Of one transfer, what the task comes to, what it says later, and what   *)
(* the list says follow each other.                                         *)
StateFollowsMessages ==
    \A i \in 1..Len(queue[Front]) :
        LET m == queue[Front][i] IN
          m.kind = "LibToFront" => Follows(m.task, m.state, taskState[m.task])

MessagesFollow ==
    \A i, j \in 1..Len(queue[Front]) :
        LET m == queue[Front][i]
            n == queue[Front][j]
        IN  i < j /\ m.kind = "LibToFront" /\ n.kind = "LibToFront" /\ m.task = n.task
              => Follows(m.task, m.state, n.state)

(* What follows what the list says of its entry id. *)
EntryIsFollowed(id) ==
    LET t == transfers[id].of
        state == transfers[id].state
    IN  /\ Follows(t, state, taskState[t])
        /\ \A i \in 1..Len(queue[Front]) :
             LET m == queue[Front][i] IN
               m.kind = "LibToFront" /\ m.task = t => Follows(t, state, m.state)

EntriesAreFollowed == \A id \in DOMAIN transfers : EntryIsFollowed(id)

HistoryIsInOrder == StateFollowsMessages /\ MessagesFollow /\ EntriesAreFollowed

(* However far the listener is behind the tasks, and whatever it loses of   *)
(* what they told, it hears of each transfer in order.                      *)
LEMMA HistoryStaysInOrder == AppSpec => []HistoryIsInOrder
<1>1. AppInit => HistoryIsInOrder
  <2> SUFFICES ASSUME AppInit PROVE HistoryIsInOrder
    OBVIOUS
  <2>1. queue[Front] = <<>>
    BY DEF AppInit, BusInit, Reader
  <2>2. StateFollowsMessages /\ MessagesFollow
    BY <2>1 DEF StateFollowsMessages, MessagesFollow
  <2>3. DOMAIN transfers = {}
    BY DEF AppInit
  <2>4. QED BY <2>2, <2>3 DEF HistoryIsInOrder, EntriesAreFollowed
<1>2. AppTypeOK /\ RequestsWait /\ HistoryIsInOrder /\ [AppNext]_appVars => HistoryIsInOrder'
  <2> SUFFICES ASSUME AppTypeOK, RequestsWait, HistoryIsInOrder, [AppNext]_appVars
               PROVE  HistoryIsInOrder'
    OBVIOUS
  <2> USE DEF HistoryIsInOrder
  <2> DEFINE Q == queue[Front]
             TasksFollow == \A t \in Task : Follows(t, taskState[t], taskState[t]')
  <2>1. BusTypes /\ ViewTypes /\ Q \in Seq(Message) /\ Len(Q) \in Nat
    BY TypesOfTheParts DEF BusTypes, Queues, Reader
  <2>2. \A i \in 1..Len(Q) : Q[i].kind = "LibToFront" => Q[i].task \in Task
    <3>1. \A i \in 1..Len(Q) : Q[i] \in Message
      BY <2>1
    <3>2. QED BY <3>1 DEF Message
  (* A message is added. *)
  <2>3. ASSUME TasksFollow, NEW m \in Message, Extends(Q', Q, m), UNCHANGED transfers,
               m.kind = "LibToFront" =>
                   /\ m.task \in Task
                   /\ Follows(m.task, taskState[m.task], m.state)
                   /\ Follows(m.task, m.state, taskState[m.task]')
        PROVE  HistoryIsInOrder'
    <3>1. PICK d \in 0..1 : /\ Len(Q') = Len(Q) + 1 - d
                            /\ \A i \in 1..Len(Q') :
                                 Q'[i] = IF i = Len(Q') THEN m ELSE Q[i + d]
      BY <2>3 DEF Extends
    <3>2. /\ Len(Q') \in Nat
          /\ \A i \in 1..Len(Q') : i # Len(Q') => i + d \in 1..Len(Q) /\ Q'[i] = Q[i + d]
          /\ Len(Q') \in 1..Len(Q') => Q'[Len(Q')] = m
      BY <2>1, <3>1
    <3>3. StateFollowsMessages'
      <4> SUFFICES ASSUME NEW i \in 1..Len(Q'), NEW n, n = Q'[i], n.kind = "LibToFront"
                   PROVE  Follows(n.task, n.state, taskState'[n.task])
        BY DEF StateFollowsMessages
      <4>1. CASE i = Len(Q')
        BY <2>3, <3>2, <4>1
      <4>2. CASE i # Len(Q')
        <5>1. i + d \in 1..Len(Q) /\ n = Q[i + d]
          BY <3>2, <4>2
        <5>2. Follows(n.task, n.state, taskState[n.task]) /\ n.task \in Task
          BY <2>2, <5>1 DEF StateFollowsMessages
        <5>3. Follows(n.task, taskState[n.task], taskState'[n.task])
          BY <2>3, <5>2
        <5>4. QED BY <5>2, <5>3, FollowsIsTransitive
      <4>3. QED BY <4>1, <4>2
    <3>4. MessagesFollow'
      <4> SUFFICES ASSUME NEW i \in 1..Len(Q'), NEW j \in 1..Len(Q'), i < j,
                          NEW n, n = Q'[i], NEW o, o = Q'[j],
                          n.kind = "LibToFront", o.kind = "LibToFront", n.task = o.task
                   PROVE  Follows(n.task, n.state, o.state)
        BY DEF MessagesFollow
      <4>1. i # Len(Q') /\ i + d \in 1..Len(Q) /\ n = Q[i + d]
        BY <3>2
      <4>2. CASE j = Len(Q')
        <5>1. Follows(n.task, n.state, taskState[n.task])
          BY <4>1 DEF StateFollowsMessages
        <5>2. Follows(n.task, taskState[n.task], o.state)
          BY <2>3, <3>2, <4>2
        <5>3. QED BY <5>1, <5>2, FollowsIsTransitive
      <4>3. CASE j # Len(Q')
        <5>1. j + d \in 1..Len(Q) /\ o = Q[j + d] /\ i + d < j + d
          BY <3>2, <4>3
        <5>2. QED BY <4>1, <5>1 DEF MessagesFollow
      <4>4. QED BY <4>2, <4>3
    <3>5. EntriesAreFollowed'
      <4> SUFFICES ASSUME NEW id \in DOMAIN transfers,
                          NEW t, t = transfers[id].of, NEW state, state = transfers[id].state
                   PROVE  /\ Follows(t, state, taskState'[t])
                          /\ \A i \in 1..Len(Q') :
                               Q'[i].kind = "LibToFront" /\ Q'[i].task = t
                                 => Follows(t, state, Q'[i].state)
        BY <2>3 DEF EntriesAreFollowed, EntryIsFollowed
      <4>1. t \in Task
        BY <2>1 DEF ViewTypes
      <4>2. /\ Follows(t, state, taskState[t])
            /\ \A i \in 1..Len(Q) :
                 Q[i].kind = "LibToFront" /\ Q[i].task = t => Follows(t, state, Q[i].state)
        BY DEF EntriesAreFollowed, EntryIsFollowed
      <4>3. Follows(t, state, taskState'[t])
        BY <2>3, <4>1, <4>2, FollowsIsTransitive
      <4>4. ASSUME NEW i \in 1..Len(Q'), Q'[i].kind = "LibToFront", Q'[i].task = t
            PROVE  Follows(t, state, Q'[i].state)
        <5>1. CASE i = Len(Q')
          <6>1. Follows(t, taskState[t], Q'[i].state)
            BY <2>3, <3>2, <4>4, <5>1
          <6>2. QED BY <4>2, <6>1, FollowsIsTransitive
        <5>2. CASE i # Len(Q')
          BY <3>2, <4>2, <4>4, <5>2
        <5>3. QED BY <5>1, <5>2
      <4>5. QED BY <4>3, <4>4
    <3>6. QED BY <3>3, <3>4, <3>5
  (* No message is added, and no entry made. *)
  <2>4. ASSUME TasksFollow, Q' = Q, DOMAIN transfers' \subseteq DOMAIN transfers,
               \A id \in DOMAIN transfers' : transfers'[id] = transfers[id]
        PROVE  HistoryIsInOrder'
    <3>1. StateFollowsMessages'
      <4> SUFFICES ASSUME NEW i \in 1..Len(Q), NEW n, n = Q[i], n.kind = "LibToFront"
                   PROVE  Follows(n.task, n.state, taskState'[n.task])
        BY <2>4 DEF StateFollowsMessages
      <4>1. Follows(n.task, n.state, taskState[n.task]) /\ n.task \in Task
        BY <2>2 DEF StateFollowsMessages
      <4>2. Follows(n.task, taskState[n.task], taskState'[n.task])
        BY <2>4, <4>1
      <4>3. QED BY <4>1, <4>2, FollowsIsTransitive
    <3>2. MessagesFollow'
      BY <2>4 DEF MessagesFollow
    <3>3. EntriesAreFollowed'
      <4> SUFFICES ASSUME NEW id \in DOMAIN transfers', NEW t, t = transfers[id].of,
                          NEW state, state = transfers[id].state
                   PROVE  /\ Follows(t, state, taskState'[t])
                          /\ \A i \in 1..Len(Q) :
                               Q[i].kind = "LibToFront" /\ Q[i].task = t
                                 => Follows(t, state, Q[i].state)
        BY <2>4 DEF EntriesAreFollowed, EntryIsFollowed
      <4>1. id \in DOMAIN transfers /\ t \in Task
        BY <2>1, <2>4 DEF ViewTypes
      <4>2. /\ Follows(t, state, taskState[t])
            /\ \A i \in 1..Len(Q) :
                 Q[i].kind = "LibToFront" /\ Q[i].task = t => Follows(t, state, Q[i].state)
        BY <4>1 DEF EntriesAreFollowed, EntryIsFollowed
      <4>3. Follows(t, taskState[t], taskState'[t])
        BY <2>4, <4>1
      <4>4. QED BY <4>2, <4>3, FollowsIsTransitive
    <3>4. QED BY <3>1, <3>2, <3>3
  <2>5. ASSUME NEW t \in Task, Goes(t) PROVE TasksFollow
    <3>1. \A u \in Task \ {t} : Follows(u, taskState[u], taskState[u]')
      BY <2>5 DEF Goes, Follows
    <3>2. QED BY <2>5, <3>1 DEF Goes
  <2>6. ASSUME UNCHANGED taskState PROVE TasksFollow
    BY <2>6 DEF Follows
  <2>7. CASE Told /\ UNCHANGED viewVars
    <3>1. PICK t \in Task, m \in Message : Goes(t) /\ Tells(t, m) /\ Extends(Q', Q, m)
      BY <2>7 DEF Told
    <3>2. TasksFollow
      BY <2>5, <3>1
    <3>3. QED BY <2>3, <2>7, <3>1, <3>2 DEF Tells, viewVars
  <2>8. CASE Went /\ UNCHANGED viewVars
    <3>1. PICK t \in Task : Goes(t) /\ Q' = Q
      BY <2>8 DEF Went
    <3>2. TasksFollow
      BY <2>5, <3>1
    <3>3. QED BY <2>4, <2>8, <3>1, <3>2 DEF viewVars
  <2>9. CASE Ordered /\ UNCHANGED <<taskState, viewVars>>
    <3>1. PICK m \in Message : m.kind = "FrontToLib" /\ Extends(Q', Q, m)
      BY <2>9 DEF Ordered
    <3>2. QED BY <2>3, <2>6, <2>9, <3>1 DEF viewVars
  <2>10. CASE /\ Q' = Q /\ UNCHANGED taskState
              /\ DOMAIN transfers' \subseteq DOMAIN transfers
              /\ \A id \in DOMAIN transfers' : transfers'[id] = transfers[id]
    BY <2>4, <2>6, <2>10
  <2>11. CASE Handle
    <3> DEFINE m == Head(Q)
    <3>1. Q # <<>> /\ Q' = Tail(Q) /\ UNCHANGED taskState
      BY <2>1, <2>11 DEF Handle, Ready, Receive, Taken, BusTypes, Queues, Reader
    <3>2. /\ Len(Q') = Len(Q) - 1 /\ m = Q[1] /\ m \in Message /\ 1 \in 1..Len(Q)
          /\ \A i \in 1..Len(Q') : i + 1 \in 1..Len(Q) /\ 1 < i + 1 /\ Q'[i] = Q[i + 1]
      BY <2>1, <3>1
    <3>3. StateFollowsMessages'
      BY <3>1, <3>2 DEF StateFollowsMessages
    <3>4. MessagesFollow'
      <4> SUFFICES ASSUME NEW i \in 1..Len(Q'), NEW j \in 1..Len(Q'), i < j,
                          NEW n, n = Q'[i], NEW o, o = Q'[j],
                          n.kind = "LibToFront", o.kind = "LibToFront", n.task = o.task
                   PROVE  Follows(n.task, n.state, o.state)
        BY DEF MessagesFollow
      <4>1. /\ i + 1 \in 1..Len(Q) /\ j + 1 \in 1..Len(Q) /\ i + 1 < j + 1
            /\ n = Q[i + 1] /\ o = Q[j + 1]
        BY <3>2
      <4>2. QED BY <4>1 DEF MessagesFollow
    <3>5. EntriesAreFollowed'
      <4> SUFFICES ASSUME NEW id \in DOMAIN transfers', NEW t, t = transfers'[id].of,
                          NEW state, state = transfers'[id].state
                   PROVE  /\ Follows(t, state, taskState[t])
                          /\ \A i \in 1..Len(Q') :
                               Q'[i].kind = "LibToFront" /\ Q'[i].task = t
                                 => Follows(t, state, Q'[i].state)
        BY <3>1 DEF EntriesAreFollowed, EntryIsFollowed
      <4>1. CASE id \in DOMAIN transfers /\ transfers'[id] = transfers[id]
        <5>1. /\ Follows(t, state, taskState[t])
              /\ \A i \in 1..Len(Q) :
                   Q[i].kind = "LibToFront" /\ Q[i].task = t => Follows(t, state, Q[i].state)
          BY <4>1 DEF EntriesAreFollowed, EntryIsFollowed
        <5>2. QED BY <3>2, <5>1
      <4>2. CASE ~(id \in DOMAIN transfers /\ transfers'[id] = transfers[id])
        <5>1. m.kind = "LibToFront" /\ transfers' = Heard(transfers, m)
          BY <2>11, <4>2 DEF Handle
        <5>2. t = m.task /\ state = m.state
          BY <2>1, <3>2, <4>2, <5>1, HeardIsOfItsTask
        <5>3. Follows(t, state, taskState[t])
          BY <3>2, <5>1, <5>2 DEF StateFollowsMessages
        <5>4. ASSUME NEW i \in 1..Len(Q'), Q'[i].kind = "LibToFront", Q'[i].task = t
              PROVE  Follows(t, state, Q'[i].state)
          <6>1. i + 1 \in 1..Len(Q) /\ 1 < i + 1 /\ Q'[i] = Q[i + 1]
            BY <3>2
          <6>2. 1 \in 1..Len(Q) /\ Q[1].kind = "LibToFront" /\ Q[1].task = t
            BY <3>2, <5>1, <5>2
          <6>3. Follows(Q[1].task, Q[1].state, Q[i + 1].state)
            BY <5>4, <6>1, <6>2 DEF MessagesFollow
          <6>4. QED BY <3>2, <5>2, <6>1, <6>3
        <5>5. QED BY <5>3, <5>4
      <4>3. QED BY <4>1, <4>2
    <3>6. QED BY <3>3, <3>4, <3>5
  <2>12. QED BY <2>7, <2>8, <2>9, <2>10, <2>11, EveryStep
<1>3. QED BY <1>1, <1>2, AppTypeCorrect, RequestsWaitAlways, PTL DEF AppSpec

(* Once the list says that a transfer is over, it is, and no message on its *)
(* way would make the entry run again, whatever the capacity of the bus and *)
(* however far the listener is behind the tasks.                            *)
THEOREM EndsLast == AppSpec => []EndIsLast
<1>1. AppTypeOK /\ HistoryIsInOrder => EndIsLast
  <2> SUFFICES ASSUME AppTypeOK, HistoryIsInOrder, NEW id \in DOMAIN transfers, Ended(id),
                      NEW t, t = transfers[id].of
               PROVE  /\ taskState[t] \in Terminal \cup {"Panicked"}
                      /\ \A i \in 1..Len(queue[Front]) :
                           queue[Front][i].kind = "LibToFront" /\ queue[Front][i].task = t
                             => queue[Front][i].state \in Terminal
    BY DEF EndIsLast
  <2>1. EntryIsFollowed(id) /\ transfers[id].state \in Terminal
    BY DEF HistoryIsInOrder, EntriesAreFollowed, Ended
  <2>2. taskState[t] \in Terminal \cup {"Panicked"}
    BY <2>1 DEF EntryIsFollowed, Follows, Gone
  <2>3. ASSUME NEW i \in 1..Len(queue[Front]), NEW m, m = queue[Front][i],
               m.kind = "LibToFront", m.task = t
        PROVE  m.state \in Terminal
    <3>1. queue[Front] \in Seq(Message)
      BY TypesOfTheParts DEF BusTypes, Queues, Reader
    <3>2. m \in Message
      BY <2>3, <3>1
    <3>3. m.state \in State /\ transfers[id].state \in State
      BY <2>1, <2>3, <3>2 DEF Message, State
    <3>4. Follows(t, transfers[id].state, m.state)
      BY <2>1, <2>3 DEF EntryIsFollowed
    <3>5. QED BY <2>1, <3>3, <3>4, FollowsAmongStates
  <2>4. QED BY <2>2, <2>3
<1>2. QED BY <1>1, AppTypeCorrect, HistoryStaysInOrder, PTL

(* What the list says of how a transfer ended is not changed, except to a   *)
(* Cancelled that comes after a sender's Finished, and to the Disconnected  *)
(* of a receiver that could not say goodbye.                                *)
THEOREM EndsRarelyRewritten == AppSpec => EndsAreRarelyRewritten
<1> DEFINE Kept == \A id \in DOMAIN transfers \cap DOMAIN transfers' :
             LET old == transfers[id]
                 new == transfers'[id]
             IN  old.of = new.of /\ old.state \in Terminal /\ old.state # new.state
                   => Rewritten(old.of, old.state, new.state)
<1>1. AppTypeOK /\ RequestsWait /\ HistoryIsInOrder /\ [AppNext]_appVars => [Kept]_appVars
  <2> SUFFICES ASSUME AppTypeOK, RequestsWait, HistoryIsInOrder, [AppNext]_appVars,
                      NEW id \in DOMAIN transfers \cap DOMAIN transfers',
                      transfers[id].of = transfers'[id].of,
                      transfers[id].state \in Terminal,
                      transfers[id].state # transfers'[id].state
               PROVE  Rewritten(transfers[id].of, transfers[id].state, transfers'[id].state)
    OBVIOUS
  <2> DEFINE Q == queue[Front]
             m == Head(Q)
  <2>1. Handle
    BY EveryStep DEF viewVars
  <2>2. ViewTypes /\ Q \in Seq(Message) /\ Q # <<>>
    BY <2>1, TypesOfTheParts DEF BusTypes, Queues, Reader, Handle, Ready
  <2>3. m = Q[1] /\ m \in Message /\ 1 \in 1..Len(Q)
    BY <2>2
  <2>4. m.kind = "LibToFront" /\ transfers' = Heard(transfers, m)
    BY <2>1 DEF Handle
  <2>5. m.task = transfers[id].of /\ m.state = transfers'[id].state
    BY <2>2, <2>3, <2>4, HeardIsOfItsTask
  <2>6. Follows(transfers[id].of, transfers[id].state, m.state)
    BY <2>3, <2>4, <2>5 DEF HistoryIsInOrder, EntriesAreFollowed, EntryIsFollowed
  <2>7. transfers[id].state \in State /\ m.state \in State
    BY <2>3, <2>4 DEF Message, State
  <2>8. QED BY <2>5, <2>6, <2>7, FollowsAmongStates
<1>2. QED BY <1>1, AppTypeCorrect, RequestsWaitAlways, HistoryStaysInOrder, PTL
          DEF AppSpec, EndsAreRarelyRewritten

-----------------------------------------------------------------------------
(* What a step does to the messages that a receiver has before it. *)

(* Receiver r now has message m, all of these messages, all that it had. *)
Arrives(r, m) == \E i \in 1..Len(queue'[r]) : queue'[r][i] = m

StillHas(r, messages) == \A i \in 1..Len(messages) :
    i \in 1..Len(queue'[r]) /\ queue'[r][i] = messages[i]

Kept(r) == StillHas(r, queue[r])

LEMMA SentIsKept ==
    ASSUME NEW q \in Queues, NEW readers \in SUBSET Reader, NEW r \in readers,
           NEW m \in Message, Sent(q, readers, m)
    PROVE  Arrives(r, m) /\ (r \in lagged' \/ StillHas(r, q[r]))
<1> DEFINE s == q[r]
           a == Append(s, m)
<1>1. s \in Seq(Message) /\ Len(s) \in Nat /\ Len(s) <= Capacity /\ Capacity \in Nat \ {0}
  BY CapacityAssumption DEF Queues
<1>2. queue'[r] = Newest(a)
  BY DEF Sent
<1>3. r \in lagged' <=> r \in lagged \/ Len(s) = Capacity
  BY DEF Sent
<1>4. a \in Seq(Message) /\ Len(a) = Len(s) + 1 /\ a[Len(s) + 1] = m
      /\ \A i \in 1..Len(s) : a[i] = s[i]
  BY <1>1
<1>5. CASE Len(s) < Capacity
  <2>1. Newest(a) = a
    BY <1>1, <1>4, <1>5 DEF Newest
  <2>2. Len(s) + 1 \in 1..Len(a) /\ \A i \in 1..Len(s) : i \in 1..Len(a)
    BY <1>1, <1>4
  <2>3. QED BY <1>2, <1>4, <2>1, <2>2 DEF Arrives, StillHas
<1>6. CASE Len(s) = Capacity
  <2>1. Newest(a) = Tail(a)
    BY <1>1, <1>4, <1>6 DEF Newest
  <2>2. Len(Tail(a)) = Len(s) /\ Tail(a)[Len(s)] = m /\ Len(s) \in 1..Len(s)
    <3>1. Len(Tail(a)) = Len(s) /\ \A i \in 1..Len(Tail(a)) : Tail(a)[i] = a[i + 1]
      BY <1>1, <1>4
    <3>2. Len(s) \in 1..Len(s)
      BY <1>1, <1>6
    <3>3. QED BY <1>4, <3>1, <3>2
  <2>3. QED BY <1>2, <1>3, <1>6, <2>1, <2>2 DEF Arrives
<1>7. QED BY <1>1, <1>5, <1>6

(* A receiver that is not told that it lost messages has those that it had, *)
(* unless it is the one that takes a message or goes.                       *)
Takes(r) == Obey(r) \/ Panic(r) \/ Ignore(r) \/ End(r) \/ Lose(r)

LEMMA OthersKeep ==
    ASSUME BusTypes, NEW r \in Reader, NEW t \in Task, TaskStep(t), r # t \/ ~Takes(t)
    PROVE  Kept(r) \/ r \in lagged'
<1>1. queue \in Queues /\ t \in Reader /\ taskState \in [Task -> TaskState]
      /\ Listening \in SUBSET Reader /\ Listening \ {t} \in SUBSET Reader
  BY DEF BusTypes, Reader, Listening
<1>2. ASSUME queue'[r] = queue[r] PROVE Kept(r)
  BY <1>2 DEF Kept, StillHas
<1>3. ASSUME NEW q \in Queues, q[r] = queue[r], NEW readers \in SUBSET Reader,
             NEW m \in Message, Sent(q, readers, m)
      PROVE  Kept(r) \/ r \in lagged'
  <2>1. CASE r \in readers
    <3>1. r \in lagged' \/ StillHas(r, q[r])
      BY <1>3, <2>1, SentIsKept
    <3>2. QED BY <1>3, <3>1 DEF Kept
  <2>2. CASE r \notin readers
    <3>1. queue'[r] = queue[r]
      BY <1>3, <2>2 DEF Sent
    <3>2. QED BY <1>2, <3>1
  <2>3. QED BY <2>1, <2>2
<1>4. ASSUME NEW state \in State, NEW q \in Queues, q[r] = queue[r], Publish(t, state, q)
      PROVE  Kept(r) \/ r \in lagged'
  BY <1>1, <1>3, <1>4, UpdateIsMessage DEF Publish
<1>5. CASE Begin(t) \/ FailToConnect(t) \/ SkipAsTask(t)
  BY <1>2, <1>5 DEF Begin, Subscribe, FailToConnect, SkipAsTask, SkipLost, busVars
<1>6. CASE ExchangeKeys(t)
  <2>1. taskState[t] \in State
    BY <1>6 DEF ExchangeKeys, State
  <2>2. QED BY <1>1, <1>3, <1>6, <2>1, UpdateIsMessage DEF ExchangeKeys
<1>7. CASE Introduce(t)
  <2>1. "WaitingForUserConsent" \in State /\ "SentIntroduction" \in State
    BY DEF State
  <2>2. QED BY <1>1, <1>4, <1>7, <2>1 DEF Introduce
<1>8. CASE HearAnswer(t)
  <2>1. PICK state \in {"SendingFiles", "Disconnected"} : Publish(t, state, queue)
    BY <1>8 DEF HearAnswer
  <2>2. state \in State
    BY DEF State, Terminal
  <2>3. QED BY <1>1, <1>4, <2>1, <2>2
<1>9. CASE Progress(t)
  <2>1. taskState[t] \in State
    BY <1>9 DEF Progress, Transferring, State
  <2>2. QED BY <1>1, <1>4, <1>9, <2>1 DEF Progress
<1>10. CASE Finish(t)
  <2>1. "Finished" \in State
    BY DEF State, Terminal
  <2>2. QED BY <1>1, <1>4, <1>10, <2>1 DEF Finish
<1>11. CASE Obey(t)
  <2>0. r # t
    BY <1>11 DEF Takes
  <2> DEFINE m == Head(queue[t])
  <2>1. Obeys(t, m) /\ Publish(t, Effect(m.action), Taken(queue, t)) /\ queue[t] # <<>>
    BY <1>11 DEF Obey, Ready
  <2>2. Effect(m.action) \in State
    <3>1. m.action \in Action
      BY <2>1 DEF Obeys, Understood, Action
    <3>2. QED BY <3>1 DEF Effect, Action, State, Terminal
  <2>3. Taken(queue, t) \in Queues /\ Taken(queue, t)[r] = queue[r]
    <3>1. Taken(queue, t) \in Queues
      BY <1>1, <2>1, TakenKeepsQueues
    <3>2. QED BY <1>1, <2>0, <3>1 DEF Taken, Queues
  <2>4. QED BY <1>4, <2>1, <2>2, <2>3
<1>12. CASE Ignore(t)
  <2>0. r # t
    BY <1>12 DEF Takes
  <2>1. queue'[r] = queue[r]
    BY <1>1, <1>12, <2>0 DEF Ignore, Receive, Taken, Queues
  <2>2. QED BY <1>2, <2>1
<1>13. CASE End(t)
  <2>0. r # t
    BY <1>13 DEF Takes
  <2>1. queue'[r] = queue[r]
    BY <1>1, <1>13, <2>0 DEF End, Unsubscribed, Queues
  <2>2. QED BY <1>2, <2>1
<1>14. CASE Lose(t)
  <2>0. r # t
    BY <1>14 DEF Takes
  <2>1. Unsubscribed(t) \in Queues /\ Unsubscribed(t)[r] = queue[r]
    <3>1. Unsubscribed(t) \in Queues
      BY <1>1, UnsubscribedKeepsQueues
    <3>2. QED BY <1>1, <2>0, <3>1 DEF Unsubscribed, Queues
  <2>2. "Disconnected" \in State
    BY DEF State, Terminal
  <2>3. QED BY <1>1, <1>3, <1>14, <2>1, <2>2, UpdateIsMessage DEF Lose
<1>15. CASE Panic(t)
  <2>0. r # t
    BY <1>15 DEF Takes
  <2>1. Unsubscribed(t) \in Queues /\ Unsubscribed(t)[r] = queue[r]
    <3>1. Unsubscribed(t) \in Queues
      BY <1>1, UnsubscribedKeepsQueues
    <3>2. QED BY <1>1, <2>0, <3>1 DEF Unsubscribed, Queues
  <2>2. "Cancelled" \in State
    BY DEF State, Terminal
  <2>3. QED BY <1>1, <1>3, <1>15, <2>1, <2>2, UpdateIsMessage DEF Panic
<1>16. QED
  BY <1>5, <1>6, <1>7, <1>8, <1>9, <1>10, <1>11, <1>12, <1>13, <1>14, <1>15
  DEF TaskStep, Peer, Select

(* The steps that are not a task's leave the tasks as they are, and change  *)
(* the messages that are on their way by a command or for the listener.     *)
LEMMA ViewStepsKeep ==
    ASSUME AppTypeOK, [AppNext]_appVars, ~(\E t \in Task : TaskStep(t)), NEW r \in Reader
    PROVE  /\ UNCHANGED <<up, taskState>>
           /\ Kept(r) \/ r \in lagged' \/ (r = Front /\ Handle)
<1>1. BusTypes /\ ViewTypes /\ queue \in Queues /\ Front \in Reader
      /\ Listening \in SUBSET Reader
  BY TypesOfTheParts DEF BusTypes, Reader, Listening
<1>2. ASSUME queue'[r] = queue[r] PROVE Kept(r)
  BY <1>2 DEF Kept, StillHas
<1>3. CASE Handle
  <2>1. r # Front => queue'[r] = queue[r]
    BY <1>1, <1>3 DEF Handle, Receive, Taken, Queues
  <2>2. QED BY <1>2, <1>3, <2>1 DEF Handle
<1>4. ASSUME NEW id \in DOMAIN transfers, Click(id)
      PROVE  UNCHANGED <<up, taskState>> /\ (Kept(r) \/ r \in lagged')
  <2>1. PICK action \in Offers(transfers[id].state) : Send(Command(transfers[id].of, action))
    BY <1>4 DEF Click
  <2> DEFINE m == Command(transfers[id].of, action)
  <2>2. transfers[id].of \in Task /\ action \in Action
    BY <1>1, OffersAreActions DEF ViewTypes
  <2>3. m \in Message /\ Sent(queue, Listening, m)
    BY <2>1, <2>2, CommandIsMessage DEF Send
  <2>4. CASE r \in Listening
    BY <1>1, <1>4, <2>3, <2>4, SentIsKept DEF Click, Kept
  <2>5. CASE r \notin Listening
    BY <1>2, <1>4, <2>3, <2>5 DEF Click, Sent
  <2>6. QED BY <2>4, <2>5
<1>5. CASE \/ SkipAsFront \/ OpenDialog \/ SelectFiles \/ CancelSend
           \/ \E t \in Task : SendToDevice(t)
           \/ \E id \in DOMAIN transfers : Clear(id)
           \/ UNCHANGED appVars
  <2>1. UNCHANGED <<queue, up, taskState>>
    BY <1>5 DEF SkipAsFront, SkipLost, OpenDialog, SelectFiles, CancelSend, SendToDevice,
       Clear, appVars, busVars
  <2>2. QED BY <1>2, <2>1
<1>6. QED BY <1>3, <1>4, <1>5 DEF AppNext, FrontEnd, User, TaskStep

-----------------------------------------------------------------------------
(* The transfer has begun to tell of itself and has not told its end. *)
Underway(t) == t \in up /\ taskState[t] \in State \ (Terminal \cup {"Initial"})

EndIsOnItsWay(t) == \E i \in 1..Len(queue[Front]) :
    LET m == queue[Front][i] IN
      m.kind = "LibToFront" /\ m.task = t /\ m.state \in Terminal

(* No transfer goes unnoticed: one that tells of itself goes on, or its end *)
(* is on its way to the list and then in it, whether it has finished, is    *)
(* cancelled or lost, unless the listener is told that it lost messages.    *)
NoEndIsDropped ==
    [][\A t \in Task : Underway(t) \/ EndIsOnItsWay(t) =>
          Underway(t)' \/ EndIsOnItsWay(t)' \/ SeenToEnd(t)' \/ Front \in lagged']_appVars

LEMMA PublishedIsThere ==
    ASSUME BusTypes, NEW t \in Task, NEW state \in State, NEW q \in Queues,
           Publish(t, state, q)
    PROVE  /\ \E i \in 1..Len(queue'[Front]) :
                 LET m == queue'[Front][i] IN
                   m.kind = "LibToFront" /\ m.task = t /\ m.state = state
           /\ taskState'[t] = state
<1>1. Front \in Listening /\ Listening \in SUBSET Reader /\ Update(t, state, TRUE) \in Message
  BY UpdateIsMessage DEF BusTypes, Reader, Listening
<1>2. Sent(q, Listening, Update(t, state, TRUE))
  BY DEF Publish
<1>3. Arrives(Front, Update(t, state, TRUE))
  BY <1>1, <1>2, SentIsKept
<1>4. taskState'[t] = state
  BY DEF Publish, BusTypes
<1>5. QED BY <1>3, <1>4 DEF Arrives, Update

(* What a transfer that is under way comes to in a step of its own. *)
LEMMA UnderwayGoesOn ==
    ASSUME BusTypes, RequestsWait, NEW t \in Task, Underway(t), TaskStep(t)
    PROVE  Underway(t)' \/ EndIsOnItsWay(t)'
<1>1. t \in up /\ taskState[t] \in State \ (Terminal \cup {"Initial"})
      /\ taskState[t] # "Pending" /\ queue \in Queues /\ taskState \in [Task -> TaskState]
  BY DEF Underway, BusTypes, State, Terminal
<1>2. ASSUME NEW state \in State \ {"Initial"}, NEW q \in Queues, Publish(t, state, q), up' = up
      PROVE  Underway(t)' \/ EndIsOnItsWay(t)'
  <2>1. /\ \E i \in 1..Len(queue'[Front]) :
              LET m == queue'[Front][i] IN
                m.kind = "LibToFront" /\ m.task = t /\ m.state = state
        /\ taskState'[t] = state
    BY <1>2, PublishedIsThere
  <2>2. CASE state \in Terminal
    BY <2>1, <2>2 DEF EndIsOnItsWay
  <2>3. CASE state \notin Terminal
    BY <1>1, <1>2, <2>1, <2>3 DEF Underway
  <2>4. QED BY <2>2, <2>3
<1>3. CASE Begin(t) \/ FailToConnect(t)
  BY <1>1, <1>3 DEF Begin, FailToConnect, RequestsWait
<1>4. CASE ExchangeKeys(t)
  BY <1>1, <1>4 DEF ExchangeKeys, Underway, State, Terminal
<1>5. CASE Introduce(t)
  <2>1. /\ "WaitingForUserConsent" \in State \ {"Initial"}
        /\ "SentIntroduction" \in State \ {"Initial"}
    BY DEF State
  <2>2. QED BY <1>1, <1>2, <1>5, <2>1 DEF Introduce
<1>6. CASE HearAnswer(t)
  <2>1. PICK state \in {"SendingFiles", "Disconnected"} : Publish(t, state, queue)
    BY <1>6 DEF HearAnswer
  <2>2. state \in State \ {"Initial"}
    BY DEF State, Terminal
  <2>3. QED BY <1>1, <1>2, <1>6, <2>1, <2>2 DEF HearAnswer
<1>7. CASE Progress(t)
  BY <1>1, <1>2, <1>7 DEF Progress
<1>8. CASE Finish(t)
  <2>1. "Finished" \in State \ {"Initial"}
    BY DEF State, Terminal
  <2>2. QED BY <1>1, <1>2, <1>8, <2>1 DEF Finish
<1>9. CASE Obey(t)
  <2> DEFINE m == Head(queue[t])
  <2>1. Obeys(t, m) /\ Publish(t, Effect(m.action), Taken(queue, t)) /\ queue[t] # <<>>
        /\ up' = up
    BY <1>9 DEF Obey, Ready
  <2>2. Effect(m.action) \in State \ {"Initial"}
    <3>1. m.action \in Action
      BY <2>1 DEF Obeys, Understood, Action
    <3>2. QED BY <3>1 DEF Effect, Action, State, Terminal
  <2>3. Taken(queue, t) \in Queues
    BY <1>1, <2>1, TakenKeepsQueues DEF Reader
  <2>4. QED BY <1>2, <2>1, <2>2, <2>3
<1>10. CASE Ignore(t) \/ SkipAsTask(t)
  BY <1>1, <1>10 DEF Ignore, SkipAsTask, SkipLost, Underway
<1>11. CASE End(t)
  BY <1>1, <1>11 DEF End
<1>12. CASE Lose(t)
  <2>1. Unsubscribed(t) \in Queues /\ Listening \ {t} \in SUBSET Reader
        /\ Front \in Listening \ {t}
    BY <1>1, UnsubscribedKeepsQueues, TaskAssumption DEF BusTypes, Listening, Reader
  <2>2. Update(t, "Disconnected", FALSE) \in Message
    BY UpdateIsMessage DEF State, Terminal
  <2>3. Arrives(Front, Update(t, "Disconnected", FALSE))
    <3>1. Sent(Unsubscribed(t), Listening \ {t}, Update(t, "Disconnected", FALSE))
      BY <1>12 DEF Lose
    <3>2. QED BY <2>1, <2>2, <3>1, SentIsKept
  <2>4. QED BY <2>3 DEF Arrives, EndIsOnItsWay, Update, Terminal
<1>13. CASE Panic(t)
  <2>1. Unsubscribed(t) \in Queues /\ Listening \ {t} \in SUBSET Reader
        /\ Front \in Listening \ {t}
    BY <1>1, UnsubscribedKeepsQueues, TaskAssumption DEF BusTypes, Listening, Reader
  <2>2. Update(t, "Cancelled", TRUE) \in Message
    BY UpdateIsMessage DEF State, Terminal
  <2>3. Arrives(Front, Update(t, "Cancelled", TRUE))
    <3>1. Sent(Unsubscribed(t), Listening \ {t}, Update(t, "Cancelled", TRUE))
      BY <1>13 DEF Panic
    <3>2. QED BY <2>1, <2>2, <3>1, SentIsKept
  <2>4. QED BY <2>3 DEF Arrives, EndIsOnItsWay, Update, Terminal
<1>14. QED
  BY <1>3, <1>4, <1>5, <1>6, <1>7, <1>8, <1>9, <1>10, <1>11, <1>12, <1>13
  DEF TaskStep, Peer, Select

(* What the listener takes, it enters in the list. *)
LEMMA HandledIsSeen ==
    ASSUME AppTypeOK, NEW t \in Task, EndIsOnItsWay(t), Handle
    PROVE  EndIsOnItsWay(t)' \/ SeenToEnd(t)'
<1> DEFINE Q == queue[Front]
           m == Head(Q)
<1>1. BusTypes /\ ViewTypes /\ Q \in Seq(Message) /\ Q # <<>>
  BY TypesOfTheParts DEF BusTypes, Queues, Reader, Handle, Ready
<1>2. Q' = Tail(Q)
  BY <1>1 DEF Handle, Receive, Taken, BusTypes, Queues, Reader
<1>3. PICK i \in 1..Len(Q) : Q[i].kind = "LibToFront" /\ Q[i].task = t /\ Q[i].state \in Terminal
  BY DEF EndIsOnItsWay
<1>4. m = Q[1] /\ m \in Message
  BY <1>1
<1>5. CASE i = 1
  <2>1. m.kind = "LibToFront" /\ m.task = t /\ m.state \in Terminal
    BY <1>3, <1>4, <1>5
  <2>2. transfers' = Heard(transfers, m)
    BY <2>1 DEF Handle
  <2>3. /\ Id[m.task] \in DOMAIN transfers'
        /\ transfers'[Id[m.task]].of = t /\ transfers'[Id[m.task]].state \in Terminal
    BY <1>1, <1>4, <2>1, <2>2, HeardTypes
  <2>4. QED BY <2>3 DEF SeenToEnd, Ended, Shown
<1>6. CASE i # 1
  <2>1. i - 1 \in 1..Len(Tail(Q)) /\ Tail(Q)[i - 1] = Q[i]
    BY <1>1, <1>6
  <2>2. QED BY <1>2, <1>3, <2>1 DEF EndIsOnItsWay
<1>7. QED BY <1>5, <1>6

(* No transfer goes unnoticed, however many there are, whatever the user    *)
(* does meanwhile, and for any capacity of the channel.                     *)
THEOREM NoEndDropped == AppSpec => NoEndIsDropped
<1> DEFINE Noticed == \A t \in Task : Underway(t) \/ EndIsOnItsWay(t) =>
             Underway(t)' \/ EndIsOnItsWay(t)' \/ SeenToEnd(t)' \/ Front \in lagged'
<1>1. AppTypeOK /\ RequestsWait /\ [AppNext]_appVars => [Noticed]_appVars
  <2> SUFFICES ASSUME AppTypeOK, RequestsWait, [AppNext]_appVars, NEW t \in Task,
                      Underway(t) \/ EndIsOnItsWay(t), Front \notin lagged'
               PROVE  Underway(t)' \/ EndIsOnItsWay(t)' \/ SeenToEnd(t)'
    OBVIOUS
  <2>1. BusTypes /\ Front \in Reader /\ Front \notin Task
    BY TypesOfTheParts, TaskAssumption DEF Reader
  <2>2. ASSUME EndIsOnItsWay(t), Kept(Front) PROVE EndIsOnItsWay(t)'
    BY <2>2 DEF EndIsOnItsWay, Kept, StillHas
  <2>3. ASSUME NEW u \in Task, TaskStep(u)
        PROVE  Underway(t)' \/ EndIsOnItsWay(t)' \/ SeenToEnd(t)'
    <3>1. CASE EndIsOnItsWay(t)
      BY <2>1, <2>2, <2>3, <3>1, OthersKeep
    <3>2. CASE Underway(t) /\ u = t
      BY <2>1, <2>3, <3>2, UnderwayGoesOn
    <3>3. CASE Underway(t) /\ u # t
      <4>1. taskState'[t] = taskState[t]
        BY <2>1, <2>3, <3>3, TaskStepTells DEF Goes
      <4>2. t \in up'
        BY <2>3, <3>3 DEF TaskStep, Begin, Subscribe, FailToConnect, Peer, ExchangeKeys,
           Introduce, HearAnswer, Progress, Finish, Select, Obey, Panic, Ignore, SkipAsTask, SkipLost,
           End, Lose, busVars, Underway
      <4>3. QED BY <3>3, <4>1, <4>2 DEF Underway
    <3>4. QED BY <3>1, <3>2, <3>3
  <2>4. CASE ~(\E u \in Task : TaskStep(u))
    <3>1. UNCHANGED <<up, taskState>> /\ (Kept(Front) \/ Handle)
      BY <2>1, <2>4, ViewStepsKeep
    <3>2. CASE Underway(t)
      BY <3>1, <3>2 DEF Underway
    <3>3. CASE EndIsOnItsWay(t)
      BY <2>2, <3>1, <3>3, HandledIsSeen
    <3>4. QED BY <3>2, <3>3
  <2>5. QED BY <2>3, <2>4
<1>2. QED BY <1>1, AppTypeCorrect, RequestsWaitAlways, PTL DEF AppSpec, NoEndIsDropped

-----------------------------------------------------------------------------
(* The states in which the list offers a command for a transfer. *)
Running == {"WaitingForUserConsent", "SendingFiles", "ReceivingFiles"}

CancelIsOnItsWay(t) == \E i \in 1..Len(queue[t]) :
    queue[t][i] = Command(t, "CancelTransfer")

(* A Cancel is not forgotten: while its transfer runs it stays before the   *)
(* task, also while a sender reads nothing, until the transfer is over,     *)
(* unless the task is told that it lost messages.                           *)
NoCancelIsDropped ==
    [][\A t \in Task : taskState[t] \in Running /\ CancelIsOnItsWay(t) =>
          \/ taskState'[t] \in Running /\ CancelIsOnItsWay(t)'
          \/ taskState'[t] \in Terminal
          \/ t \in lagged']_appVars

(* The transfer was offered, and is or was running: its keys were set then. *)
Committed(t) == taskState[t] \in Running \cup Terminal

(* A transfer that runs goes on or comes to its end. *)
LEMMA RunningGoesOn ==
    ASSUME BusTypes, RequestsWait, NEW t \in Task, Committed(t), TaskStep(t)
    PROVE  Committed(t)'
<1> USE DEF Committed
<1>1. taskState[t] # "Pending" /\ taskState \in [Task -> TaskState]
  BY DEF Running, Terminal, BusTypes
<1>2. CASE Begin(t) \/ FailToConnect(t)
  BY <1>1, <1>2 DEF Begin, FailToConnect, RequestsWait
<1>3. CASE ExchangeKeys(t) \/ Introduce(t) \/ HearAnswer(t)
  BY <1>3 DEF ExchangeKeys, Introduce, HearAnswer, Running, Terminal
<1>4. CASE Progress(t) \/ Finish(t)
  BY <1>1, <1>4 DEF Progress, Finish, Publish, Terminal
<1>5. CASE Obey(t)
  <2> DEFINE action == Head(queue[t]).action
  <2>1. action \in Action /\ taskState' = [taskState EXCEPT ![t] = Effect(action)]
    BY <1>5 DEF Obey, Obeys, Understood, Publish, Action
  <2>2. Effect(action) \in Running \cup Terminal
    BY <2>1 DEF Effect, Action, Running, Terminal
  <2>3. QED BY <1>1, <2>1, <2>2
<1>6. CASE Ignore(t) \/ SkipAsTask(t) \/ End(t)
  BY <1>6 DEF Ignore, SkipAsTask, End
<1>7. CASE Lose(t)
  BY <1>1, <1>7 DEF Lose, Terminal
<1>8. CASE Panic(t)
  BY <1>8 DEF Panic, Keyless, Running, Terminal
<1>9. QED BY <1>2, <1>3, <1>4, <1>5, <1>6, <1>7, <1>8 DEF TaskStep, Peer, Select

(* What a task takes while it runs is not the Cancel, or it is the end. *)
LEMMA CancelIsObeyed ==
    ASSUME BusTypes, NEW t \in Task, taskState[t] \in Running, CancelIsOnItsWay(t), Takes(t)
    PROVE  CancelIsOnItsWay(t)' \/ taskState'[t] \in Terminal \/ t \in lagged'
<1> DEFINE Q == queue[t]
           m == Head(Q)
           cancel == Command(t, "CancelTransfer")
<1>1. queue \in Queues /\ Q \in Seq(Message) /\ t \in Reader /\ taskState \in [Task -> TaskState]
  BY DEF BusTypes, Queues, Reader
<1>2. PICK i \in 1..Len(Q) : Q[i] = cancel
  BY DEF CancelIsOnItsWay
<1>3. Q # <<>> /\ m = Q[1] /\ (i # 1 => i - 1 \in 1..Len(Tail(Q)) /\ Tail(Q)[i - 1] = Q[i])
  BY <1>1
<1>4. Obeys(t, cancel) /\ cancel.action = "CancelTransfer"
  BY DEF Obeys, Command, Understood, Action
<1>5. Taken(queue, t) \in Queues /\ Taken(queue, t)[t] = Tail(Q)
  <2>1. Taken(queue, t) \in Queues
    BY <1>1, <1>3, TakenKeepsQueues
  <2>2. QED BY <1>1, <2>1 DEF Taken, Queues
<1>6. CASE Obey(t)
  <2>1. /\ Obeys(t, m) /\ Publish(t, Effect(m.action), Taken(queue, t)) /\ t \in Listening
        /\ m.action \in Action
    BY <1>6 DEF Obey, Ready, Obeys, Understood, Action
  <2>2. CASE i = 1
    <3>1. Effect(m.action) = "Cancelled"
      BY <1>2, <1>3, <1>4, <2>2 DEF Effect
    <3>2. QED BY <1>1, <2>1, <3>1 DEF Publish, Terminal
  <2>3. CASE i # 1
    <3>1. Sent(Taken(queue, t), Listening, Update(t, Effect(m.action), TRUE))
      BY <2>1 DEF Publish
    <3>2. Listening \in SUBSET Reader /\ Update(t, Effect(m.action), TRUE) \in Message
      <4>1. Effect(m.action) \in State
        BY <2>1 DEF Effect, Action, State, Terminal
      <4>2. QED BY <4>1, UpdateIsMessage DEF BusTypes, Listening, Reader
    <3>3. t \in lagged' \/ StillHas(t, Taken(queue, t)[t])
      BY <1>5, <2>1, <3>1, <3>2, SentIsKept
    <3>4. QED BY <1>2, <1>3, <1>5, <2>3, <3>3 DEF CancelIsOnItsWay, StillHas
  <2>4. QED BY <2>2, <2>3
<1>7. CASE Ignore(t)
  <2>1. i # 1 /\ queue'[t] = Tail(Q)
    BY <1>2, <1>3, <1>4, <1>5, <1>7 DEF Ignore, Receive
  <2>2. QED BY <1>2, <1>3, <2>1 DEF CancelIsOnItsWay
<1>8. CASE End(t)
  BY <1>8 DEF End, Running, Terminal
<1>9. CASE Lose(t)
  BY <1>1, <1>9 DEF Lose, Terminal
<1>10. CASE Panic(t)
  BY <1>10 DEF Panic, Keyless, Running
<1>11. QED BY <1>6, <1>7, <1>8, <1>9, <1>10 DEF Takes

(* A Cancel is not forgotten, whatever else the bus carries. *)
THEOREM NoCancelDropped == AppSpec => NoCancelIsDropped
<1> DEFINE Remembered == \A t \in Task : taskState[t] \in Running /\ CancelIsOnItsWay(t) =>
             \/ taskState'[t] \in Running /\ CancelIsOnItsWay(t)'
             \/ taskState'[t] \in Terminal
             \/ t \in lagged'
<1>1. AppTypeOK /\ RequestsWait /\ [AppNext]_appVars => [Remembered]_appVars
  <2> SUFFICES ASSUME AppTypeOK, RequestsWait, [AppNext]_appVars, NEW t \in Task,
                      taskState[t] \in Running, CancelIsOnItsWay(t), t \notin lagged',
                      taskState'[t] \notin Terminal
               PROVE  taskState'[t] \in Running /\ CancelIsOnItsWay(t)'
    OBVIOUS
  <2>1. BusTypes /\ t \in Reader /\ t # Front
    BY TypesOfTheParts, TaskAssumption DEF Reader
  <2>2. ASSUME Kept(t) PROVE CancelIsOnItsWay(t)'
    BY <2>2 DEF CancelIsOnItsWay, Kept, StillHas
  <2>3. CASE TaskStep(t)
    <3>1. taskState'[t] \in Running
      BY <2>1, <2>3, RunningGoesOn DEF Committed
    <3>2. CASE Takes(t)
      BY <2>1, <3>1, <3>2, CancelIsObeyed
    <3>3. CASE ~Takes(t)
      <4>1. Kept(t)
        BY <2>1, <2>3, <3>3, OthersKeep
      <4>2. QED BY <2>2, <3>1, <4>1
    <3>4. QED BY <3>2, <3>3
  <2>4. ASSUME NEW u \in Task \ {t}, TaskStep(u)
        PROVE  taskState'[t] \in Running /\ CancelIsOnItsWay(t)'
    <3>1. taskState'[t] = taskState[t]
      BY <2>1, <2>4, TaskStepTells DEF Goes
    <3>2. Kept(t)
      BY <2>1, <2>4, OthersKeep
    <3>3. QED BY <2>2, <3>1, <3>2
  <2>5. CASE ~(\E u \in Task : TaskStep(u))
    <3>1. UNCHANGED taskState /\ Kept(t)
      BY <2>1, <2>5, ViewStepsKeep
    <3>2. QED BY <2>2, <3>1
  <2>6. QED BY <2>3, <2>4, <2>5
<1>2. QED BY <1>1, AppTypeCorrect, RequestsWaitAlways, PTL DEF AppSpec, NoCancelIsDropped

-----------------------------------------------------------------------------
(* There is something that may make an entry: a send that was asked for, a  *)
(* sender that waits for its peer's keys before it tells its PIN, or an     *)
(* update on its way.  The peer's keys need not come.                       *)
UpdateIsOnItsWay == \E i \in 1..Len(queue[Front]) : queue[Front][i].kind = "LibToFront"

SomethingIsUnderWay ==
    \/ requests # {}
    \/ \E t \in up : taskState[t] = "SentUkeyClientInit"
    \/ UpdateIsOnItsWay

OneTellsNothing == \E t \in Task : taskState[t] \in {"Unreachable", "Panicked"}

(* The empty list of transfers, which has no button, is shown only while a  *)
(* send is asked for, a sender waits for the keys of its peer (for ever, if *)
(* that never answers) or an update is on its way; or after a connection    *)
(* that failed or a panic.                                                  *)
EmptyListHasAReason == Stuck => SomethingIsUnderWay \/ OneTellsNothing

(* What runs was reached. *)
UpIsReached == \A t \in up : taskState[t] # "Unreachable"

LEMMA UpIsReachedAlways == AppSpec => []UpIsReached
<1>1. AppInit => UpIsReached
  BY DEF AppInit, BusInit, UpIsReached
<1>2. AppTypeOK /\ RequestsWait /\ UpIsReached /\ [AppNext]_appVars => UpIsReached'
  <2> SUFFICES ASSUME AppTypeOK, RequestsWait, UpIsReached, [AppNext]_appVars, NEW t \in up'
               PROVE  taskState'[t] # "Unreachable"
    BY DEF UpIsReached
  <2>1. BusTypes
    BY TypesOfTheParts
  <2>2. ASSUME NEW u \in Task, TaskStep(u) PROVE taskState'[t] # "Unreachable"
    <3>1. CASE Begin(u)
      BY <2>1, <3>1 DEF Begin, Subscribe, UpIsReached, BusTypes
    <3>2. CASE FailToConnect(u)
      <4>1. t \in up /\ u \notin up
        BY <3>2 DEF FailToConnect, busVars, RequestsWait
      <4>2. taskState'[t] = taskState[t]
        BY <2>1, <3>2, <4>1 DEF FailToConnect, BusTypes
      <4>3. QED BY <4>1, <4>2 DEF UpIsReached
    <3>3. CASE Peer(u) \/ Select(u) \/ End(u) \/ Lose(u)
      <4>1. t \in up
        BY <3>3 DEF Peer, ExchangeKeys, Introduce, HearAnswer, Progress, Finish,
           Select, Obey, Panic, Ignore, SkipAsTask, SkipLost, End, Lose
      <4>2. CASE u # t
        BY <2>1, <2>2, <4>1, <4>2, TaskStepTells DEF Goes, UpIsReached, BusTypes
      <4>3. CASE u = t
        <5>1. taskState[t] # "Unreachable" /\ taskState \in [Task -> TaskState]
          BY <2>1, <4>1 DEF UpIsReached, BusTypes
        <5>2. CASE Peer(t)
          BY <5>1, <5>2 DEF Peer, ExchangeKeys, Introduce, HearAnswer, Progress, Finish, Publish
        <5>3. CASE Obey(t)
          <6>1. Head(queue[t]).action \in Action
            BY <5>3 DEF Obey, Obeys, Understood, Action
          <6>2. Effect(Head(queue[t]).action) # "Unreachable"
            BY <6>1 DEF Effect, Action
          <6>3. QED BY <5>1, <5>3, <6>2 DEF Obey, Publish
        <5>4. CASE Panic(t) \/ Ignore(t) \/ SkipAsTask(t) \/ End(t) \/ Lose(t)
          BY <5>1, <5>4 DEF Panic, Ignore, SkipAsTask, End, Lose
        <5>5. QED BY <3>3, <4>3, <5>2, <5>3, <5>4 DEF Select
      <4>4. QED BY <4>2, <4>3
    <3>4. QED BY <2>2, <3>1, <3>2, <3>3 DEF TaskStep
  <2>3. CASE ~(\E u \in Task : TaskStep(u))
    <3>1. UNCHANGED <<up, taskState>>
      BY <2>3, ViewStepsKeep DEF Reader
    <3>2. QED BY <3>1 DEF UpIsReached
  <2>4. QED BY <2>2, <2>3
<1>3. QED BY <1>1, <1>2, AppTypeCorrect, RequestsWaitAlways, PTL DEF AppSpec

(* A task that exchanges keys, goes on, obeys, panics or is lost says so. *)
LEMMA TellersAdd ==
    ASSUME BusTypes, NEW t \in Task, Peer(t) \/ Obey(t) \/ Panic(t) \/ Lose(t)
    PROVE  UpdateIsOnItsWay'
<1>1. queue \in Queues /\ t # Front /\ t \in Reader /\ Front \in Reader
      /\ taskState \in [Task -> TaskState]
      /\ Listening \in SUBSET Reader /\ Listening \ {t} \in SUBSET Reader
      /\ Front \in Listening \ {t}
  BY TaskAssumption DEF BusTypes, Reader, Listening
<1>2. ASSUME NEW state \in State, NEW q \in Queues, Publish(t, state, q)
      PROVE  UpdateIsOnItsWay'
  BY <1>2, PublishedIsThere DEF UpdateIsOnItsWay
<1>3. CASE ExchangeKeys(t)
  <2>1. Sent(queue, Listening, Update(t, taskState[t], TRUE)) /\ taskState[t] \in State
    BY <1>3 DEF ExchangeKeys, State
  <2>2. Arrives(Front, Update(t, taskState[t], TRUE))
    BY <1>1, <2>1, UpdateIsMessage, SentIsKept
  <2>3. QED BY <2>2 DEF Arrives, UpdateIsOnItsWay, Update
<1>4. CASE Introduce(t)
  <2>1. "WaitingForUserConsent" \in State /\ "SentIntroduction" \in State
    BY DEF State
  <2>2. QED BY <1>1, <1>2, <1>4, <2>1 DEF Introduce
<1>5. CASE HearAnswer(t)
  <2>1. PICK state \in {"SendingFiles", "Disconnected"} : Publish(t, state, queue)
    BY <1>5 DEF HearAnswer
  <2>2. state \in State
    BY DEF State, Terminal
  <2>3. QED BY <1>1, <1>2, <2>1, <2>2
<1>6. CASE Progress(t) \/ Finish(t)
  <2>1. PICK state \in State : Publish(t, state, queue)
    BY <1>6 DEF Progress, Finish, Transferring, State, Terminal
  <2>2. QED BY <1>1, <1>2, <2>1
<1>7. CASE Obey(t)
  <2> DEFINE m == Head(queue[t])
  <2>1. Obeys(t, m) /\ Publish(t, Effect(m.action), Taken(queue, t)) /\ queue[t] # <<>>
    BY <1>7 DEF Obey, Ready
  <2>2. Effect(m.action) \in State
    <3>1. m.action \in Action
      BY <2>1 DEF Obeys, Understood, Action
    <3>2. QED BY <3>1 DEF Effect, Action, State, Terminal
  <2>3. Taken(queue, t) \in Queues
    BY <1>1, <2>1, TakenKeepsQueues
  <2>4. QED BY <1>2, <2>1, <2>2, <2>3
<1>8. CASE Lose(t)
  <2>1. Unsubscribed(t) \in Queues /\ Update(t, "Disconnected", FALSE) \in Message
    BY <1>1, UnsubscribedKeepsQueues, UpdateIsMessage DEF State, Terminal
  <2>2. Sent(Unsubscribed(t), Listening \ {t}, Update(t, "Disconnected", FALSE))
    BY <1>8 DEF Lose
  <2>3. Arrives(Front, Update(t, "Disconnected", FALSE))
    <3>1. Listening \ {t} \in SUBSET Reader /\ Front \in Listening \ {t}
      BY <1>1
    <3>2. QED BY <2>1, <2>2, <3>1, SentIsKept
  <2>4. QED BY <2>3 DEF Arrives, UpdateIsOnItsWay, Update
<1>9. CASE Panic(t)
  <2>1. Unsubscribed(t) \in Queues /\ Update(t, "Cancelled", TRUE) \in Message
    BY <1>1, UnsubscribedKeepsQueues, UpdateIsMessage DEF State, Terminal
  <2>2. Sent(Unsubscribed(t), Listening \ {t}, Update(t, "Cancelled", TRUE))
    BY <1>9 DEF Panic
  <2>3. Arrives(Front, Update(t, "Cancelled", TRUE))
    <3>1. Listening \ {t} \in SUBSET Reader /\ Front \in Listening \ {t}
      BY <1>1
    <3>2. QED BY <2>1, <2>2, <3>1, SentIsKept
  <2>4. QED BY <2>3 DEF Arrives, UpdateIsOnItsWay, Update
<1>10. QED BY <1>3, <1>4, <1>5, <1>6, <1>7, <1>8, <1>9 DEF Peer

(* A step of a task leaves what the listener has as it is, or adds to it. *)
LEMMA TaskStepsAdd ==
    ASSUME BusTypes, NEW t \in Task, TaskStep(t)
    PROVE  queue'[Front] = queue[Front] \/ UpdateIsOnItsWay'
<1>1. queue \in Queues /\ t # Front /\ Front \in Reader
  BY TaskAssumption DEF BusTypes, Reader
<1>2. CASE Begin(t) \/ FailToConnect(t) \/ SkipAsTask(t)
  BY <1>2 DEF Begin, Subscribe, FailToConnect, SkipAsTask, SkipLost, busVars
<1>3. CASE Ignore(t)
  BY <1>1, <1>3 DEF Ignore, Receive, Taken, Queues
<1>4. CASE End(t)
  BY <1>1, <1>4 DEF End, Unsubscribed, Queues
<1>5. CASE Peer(t) \/ Obey(t) \/ Panic(t) \/ Lose(t)
  BY <1>5, TellersAdd
<1>6. QED BY <1>2, <1>3, <1>4, <1>5 DEF TaskStep, Select

(* Whatever a task does, what was to come is still to come. *)
LEMMA TaskStepsBring ==
    ASSUME BusTypes, RequestsWait, UpIsReached, NEW t \in Task, TaskStep(t),
           SomethingIsUnderWay \/ OneTellsNothing
    PROVE  (SomethingIsUnderWay \/ OneTellsNothing)'
<1>1. taskState \in [Task -> TaskState] /\ up \subseteq Task /\ requests \subseteq Outbound
      /\ Goes(t) /\ (queue'[Front] = queue[Front] \/ UpdateIsOnItsWay')
  BY TaskStepTells, TaskStepsAdd DEF BusTypes
<1>2. CASE UpdateIsOnItsWay
  BY <1>1, <1>2 DEF UpdateIsOnItsWay, SomethingIsUnderWay
<1>3. CASE requests # {}
  <2>1. CASE Begin(t) /\ t \in requests
    BY <1>1, <2>1 DEF Begin, Subscribe, Outbound, SomethingIsUnderWay
  <2>2. CASE FailToConnect(t)
    BY <1>1, <2>2 DEF FailToConnect, OneTellsNothing
  <2>3. CASE ~(Begin(t) /\ t \in requests) /\ ~FailToConnect(t)
    <3>1. requests' = requests
      BY <2>3 DEF TaskStep, Peer, Select, Begin, ExchangeKeys, Introduce, HearAnswer, Progress,
         Finish, Obey, Panic, Ignore, SkipAsTask, End, Lose
    <3>2. QED BY <1>3, <3>1 DEF SomethingIsUnderWay
  <2>4. QED BY <2>1, <2>2, <2>3
<1>4. ASSUME NEW u \in up, taskState[u] = "SentUkeyClientInit"
      PROVE  SomethingIsUnderWay'
  <2>1. CASE u = t
    <3>1. Underway(t)
      BY <1>4, <2>1 DEF Underway, State, Terminal
    <3>2. CASE Ignore(t) \/ SkipAsTask(t)
      BY <1>4, <2>1, <3>2 DEF Ignore, SkipAsTask, SkipLost, SomethingIsUnderWay
    <3>3. CASE ExchangeKeys(t) \/ Obey(t) \/ Panic(t) \/ Lose(t)
      BY <2>1, <3>3, TellersAdd DEF Peer, SomethingIsUnderWay
    <3>4. QED BY <1>4, <2>1, <3>2, <3>3 DEF TaskStep, Peer, Select, Begin, FailToConnect,
              Introduce, HearAnswer, Progress, Finish, Transferring, End, Terminal, RequestsWait
  <2>2. CASE u # t
    <3>1. taskState'[u] = taskState[u]
      BY <1>1, <2>2 DEF Goes
    <3>2. u \in up'
      BY <1>4, <2>2 DEF TaskStep, Begin, Subscribe, FailToConnect, Peer, ExchangeKeys,
         Introduce, HearAnswer, Progress, Finish, Select, Obey, Panic, Ignore, SkipAsTask, SkipLost,
         End, Lose, busVars
    <3>3. QED BY <1>4, <3>1, <3>2 DEF SomethingIsUnderWay
  <2>3. QED BY <2>1, <2>2
<1>5. CASE OneTellsNothing
  <2>1. PICK u \in Task : taskState[u] \in {"Unreachable", "Panicked"}
    BY <1>5 DEF OneTellsNothing
  <2>2. u # t
    BY <2>1 DEF UpIsReached, RequestsWait, TaskStep, Begin, FailToConnect, Peer, ExchangeKeys,
       Introduce, HearAnswer, Progress, Transferring, Finish, Select, Selects, Obey, Panic, Ignore,
       SkipAsTask, SkipLost, End, Lose
  <2>3. taskState'[u] \in {"Unreachable", "Panicked"}
    BY <1>1, <2>1, <2>2 DEF Goes
  <2>4. QED BY <2>3 DEF OneTellsNothing
<1>6. QED BY <1>2, <1>3, <1>4, <1>5 DEF SomethingIsUnderWay

(* The empty list of transfers is shown for a reason. *)
THEOREM EmptyListForAReason == AppSpec => []EmptyListHasAReason
<1>1. AppInit => EmptyListHasAReason
  BY DEF AppInit, EmptyListHasAReason, Stuck
<1>2. AppTypeOK /\ RequestsWait /\ UpIsReached /\ EmptyListHasAReason /\ [AppNext]_appVars
        => EmptyListHasAReason'
  <2> SUFFICES ASSUME AppTypeOK, RequestsWait, UpIsReached, EmptyListHasAReason,
                      [AppNext]_appVars, Stuck'
               PROVE  (SomethingIsUnderWay \/ OneTellsNothing)'
    BY DEF EmptyListHasAReason
  <2>1. BusTypes /\ ViewTypes
    BY TypesOfTheParts
  <2>2. ASSUME NEW t \in Task, TaskStep(t) PROVE (SomethingIsUnderWay \/ OneTellsNothing)'
    <3>1. Stuck
      BY <2>2, TaskStepsTouchNoView DEF Stuck, viewVars
    <3>2. QED BY <2>1, <2>2, <3>1, TaskStepsBring DEF EmptyListHasAReason
  <2>3. CASE Handle
    <3> DEFINE Q == queue[Front]
               m == Head(Q)
    <3>1. Q \in Seq(Message) /\ Q # <<>> /\ Q' = Tail(Q)
      BY <2>1, <2>3 DEF BusTypes, Queues, Reader, Handle, Ready, Receive, Taken
    <3>2. m.kind # "LibToFront"
      <4>1. SUFFICES ASSUME m.kind = "LibToFront" PROVE FALSE
        OBVIOUS
      <4>2. transfers' = Heard(transfers, m)
        BY <2>3, <4>1 DEF Handle
      <4>3. DOMAIN transfers' # {}
        BY <4>2 DEF Heard
      <4>4. QED BY <4>3 DEF Stuck
    <3>3. Stuck /\ UNCHANGED <<requests, up, taskState>>
      BY <2>3, <3>2 DEF Handle, Stuck
    <3>4. UpdateIsOnItsWay => UpdateIsOnItsWay'
      <4>1. SUFFICES ASSUME NEW i \in 1..Len(Q), Q[i].kind = "LibToFront"
                     PROVE  UpdateIsOnItsWay'
        BY DEF UpdateIsOnItsWay
      <4>2. m = Q[1]
        BY <3>1
      <4>3. i - 1 \in 1..Len(Tail(Q)) /\ Tail(Q)[i - 1] = Q[i]
        BY <3>1, <3>2, <4>1, <4>2
      <4>4. QED BY <3>1, <4>1, <4>3 DEF UpdateIsOnItsWay
    <3>5. QED BY <3>3, <3>4 DEF EmptyListHasAReason, SomethingIsUnderWay, OneTellsNothing
  <2>4. ASSUME NEW id \in DOMAIN transfers, Click(id) \/ Clear(id) PROVE FALSE
    BY <2>4 DEF Click, Clear, Stuck, viewVars
  <2>5. ASSUME NEW t \in Task, SendToDevice(t) PROVE SomethingIsUnderWay'
    BY <2>5 DEF SendToDevice, SomethingIsUnderWay
  <2>6. CASE SkipAsFront \/ OpenDialog \/ UNCHANGED appVars
    <3>1. Stuck /\ UNCHANGED <<queue, requests, up, taskState>>
      BY <2>6 DEF SkipAsFront, SkipLost, OpenDialog, appVars, busVars, viewVars, Stuck
    <3>2. QED BY <3>1 DEF EmptyListHasAReason, SomethingIsUnderWay, UpdateIsOnItsWay,
                 OneTellsNothing
  <2>7. CASE SelectFiles \/ CancelSend
    BY <2>7 DEF SelectFiles, CancelSend, Stuck
  <2>8. QED BY <2>2, <2>3, <2>4, <2>5, <2>6, <2>7 DEF AppNext, FrontEnd, User, TaskStep
<1>3. QED BY <1>1, <1>2, AppTypeCorrect, RequestsWaitAlways, UpIsReachedAlways, PTL DEF AppSpec

-----------------------------------------------------------------------------
(* A receiver, whichever, has this message. *)
Somewhere(q, m) == \E r \in Reader : \E i \in 1..Len(q[r]) : q[r][i] = m

(* What offers or gives a command is of a transfer that was offered. *)
OffersACommand(m) == m.kind = "FrontToLib" \/ m.state \in Running

OffersAreOfCommitted ==
    /\ \A m : Somewhere(queue, m) /\ OffersACommand(m) => Committed(m.task)
    /\ \A id \in DOMAIN transfers :
         transfers[id].state \in Running => Committed(transfers[id].of)

LEMMA SentAddsOne ==
    ASSUME NEW q \in Queues, NEW readers, NEW m \in Message, Sent(q, readers, m),
           NEW n, Somewhere(queue', n)
    PROVE  n = m \/ Somewhere(q, n)
<1>1. PICK r \in Reader : \E i \in 1..Len(queue'[r]) : queue'[r][i] = n
  BY DEF Somewhere
<1> PICK i \in 1..Len(queue'[r]) : queue'[r][i] = n
  BY <1>1
<1>2. q[r] \in Seq(Message)
  BY DEF Queues
<1>3. CASE queue'[r] = q[r]
  BY <1>1, <1>3 DEF Somewhere
<1>4. CASE queue'[r] = Newest(Append(q[r], m))
  <2>1. PICK d \in 0..1 : /\ Len(queue'[r]) = Len(q[r]) + 1 - d
                          /\ \A j \in 1..Len(queue'[r]) : queue'[r][j] =
                               IF j = Len(queue'[r]) THEN m ELSE q[r][j + d]
    BY <1>2, <1>4, NewestExtends DEF Extends
  <2>2. CASE i = Len(queue'[r])
    BY <1>1, <2>1, <2>2
  <2>3. CASE i # Len(queue'[r])
    <3>1. i + d \in 1..Len(q[r]) /\ q[r][i + d] = n
      BY <1>1, <1>2, <2>1, <2>3
    <3>2. QED BY <3>1 DEF Somewhere
  <2>4. QED BY <2>2, <2>3
<1>5. QED BY <1>3, <1>4 DEF Sent

LEMMA TakenAddsNone ==
    ASSUME NEW q \in Queues, NEW t \in Reader, q[t] # <<>>, NEW n, Somewhere(Taken(q, t), n)
    PROVE  Somewhere(q, n)
<1>1. PICK r \in Reader : \E i \in 1..Len(Taken(q, t)[r]) : Taken(q, t)[r][i] = n
  BY DEF Somewhere
<1> PICK i \in 1..Len(Taken(q, t)[r]) : Taken(q, t)[r][i] = n
  BY <1>1
<1>2. q \in [Reader -> Seq(Message)]
  BY DEF Queues
<1>3. CASE r # t
  BY <1>1, <1>2, <1>3 DEF Taken, Somewhere
<1>4. CASE r = t
  <2>1. Taken(q, t)[r] = Tail(q[r]) /\ q[r] \in Seq(Message) /\ q[r] # <<>>
    BY <1>2, <1>4 DEF Taken
  <2>2. i + 1 \in 1..Len(q[r]) /\ q[r][i + 1] = n
    BY <1>1, <2>1
  <2>3. QED BY <2>2 DEF Somewhere
<1>5. QED BY <1>3, <1>4

LEMMA UnsubscribedAddsNone ==
    ASSUME queue \in Queues, NEW t \in Task, NEW n, Somewhere(Unsubscribed(t), n)
    PROVE  Somewhere(queue, n)
<1>1. PICK r \in Reader : \E i \in 1..Len(Unsubscribed(t)[r]) : Unsubscribed(t)[r][i] = n
  BY DEF Somewhere
<1> PICK i \in 1..Len(Unsubscribed(t)[r]) : Unsubscribed(t)[r][i] = n
  BY <1>1
<1>2. queue \in [Reader -> Seq(Message)]
  BY DEF Queues
<1>3. r # t
  <2>1. SUFFICES ASSUME r = t PROVE FALSE
    OBVIOUS
  <2>2. Unsubscribed(t)[r] = <<>>
    BY <1>2, <2>1 DEF Unsubscribed
  <2>3. QED BY <1>1, <2>2
<1>4. QED BY <1>1, <1>2, <1>3 DEF Unsubscribed, Somewhere

(* A task tells that it runs when it does. *)
LEMMA TasksOfferWhatRuns ==
    ASSUME BusTypes, NEW t \in Task, TaskStep(t), NEW n, Somewhere(queue', n),
           ~Somewhere(queue, n), OffersACommand(n)
    PROVE  n.task = t /\ Committed(t)'
<1>1. queue \in Queues /\ t \in Reader /\ taskState \in [Task -> TaskState]
  BY DEF BusTypes, Reader
<1>2. ASSUME NEW state \in State, NEW q \in Queues, Publish(t, state, q),
             Somewhere(q, n) => Somewhere(queue, n)
      PROVE  n.task = t /\ Committed(t)'
  <2>1. n = Update(t, state, TRUE)
    BY <1>2, UpdateIsMessage, SentAddsOne DEF Publish
  <2>2. n.task = t /\ state \in Running
    BY <2>1 DEF Update, OffersACommand
  <2>3. taskState'[t] = state
    BY <1>1, <1>2 DEF Publish
  <2>4. QED BY <2>2, <2>3 DEF Committed
<1>3. ASSUME NEW state \in State \ Running, NEW rtype \in BOOLEAN, NEW q \in Queues, NEW readers,
             Sent(q, readers, Update(t, state, rtype)), Somewhere(q, n) => Somewhere(queue, n)
      PROVE  FALSE
  <2>1. n = Update(t, state, rtype)
    BY <1>3, UpdateIsMessage, SentAddsOne
  <2>2. QED BY <1>3, <2>1 DEF Update, OffersACommand
<1>4. CASE Begin(t) \/ FailToConnect(t) \/ SkipAsTask(t)
  BY <1>4 DEF Begin, Subscribe, FailToConnect, SkipAsTask, SkipLost, busVars
<1>5. CASE ExchangeKeys(t)
  <2>1. taskState[t] \in State \ Running
    BY <1>5 DEF ExchangeKeys, State, Running
  <2>2. QED BY <1>1, <1>3, <1>5, <2>1 DEF ExchangeKeys
<1>6. CASE Introduce(t)
  <2>1. "WaitingForUserConsent" \in State /\ "SentIntroduction" \in State
    BY DEF State
  <2>2. QED BY <1>1, <1>2, <1>6, <2>1 DEF Introduce
<1>7. CASE HearAnswer(t)
  <2>1. PICK state \in {"SendingFiles", "Disconnected"} : Publish(t, state, queue)
    BY <1>7 DEF HearAnswer
  <2>2. state \in State
    BY DEF State, Terminal
  <2>3. QED BY <1>1, <1>2, <2>1, <2>2
<1>8. CASE Progress(t) \/ Finish(t)
  <2>1. PICK state \in State : Publish(t, state, queue)
    BY <1>8 DEF Progress, Finish, Transferring, State, Terminal
  <2>2. QED BY <1>1, <1>2, <2>1
<1>9. CASE Obey(t)
  <2> DEFINE m == Head(queue[t])
  <2>1. Obeys(t, m) /\ Publish(t, Effect(m.action), Taken(queue, t)) /\ queue[t] # <<>>
    BY <1>9 DEF Obey, Ready
  <2>2. Effect(m.action) \in State
    <3>1. m.action \in Action
      BY <2>1 DEF Obeys, Understood, Action
    <3>2. QED BY <3>1 DEF Effect, Action, State, Terminal
  <2>3. Taken(queue, t) \in Queues /\ (Somewhere(Taken(queue, t), n) => Somewhere(queue, n))
    BY <1>1, <2>1, TakenKeepsQueues, TakenAddsNone
  <2>4. QED BY <1>2, <2>1, <2>2, <2>3
<1>10. CASE Ignore(t)
  BY <1>1, <1>10, TakenAddsNone DEF Ignore, Receive, Ready
<1>11. CASE End(t)
  BY <1>1, <1>11, UnsubscribedAddsNone DEF End
<1>12. CASE Panic(t) \/ Lose(t)
  <2>1. "Cancelled" \in State \ Running /\ "Disconnected" \in State \ Running
    BY DEF State, Terminal, Running
  <2>2. Unsubscribed(t) \in Queues /\ (Somewhere(Unsubscribed(t), n) => Somewhere(queue, n))
    BY <1>1, UnsubscribedKeepsQueues, UnsubscribedAddsNone
  <2>3. \/ Sent(Unsubscribed(t), Listening \ {t}, Update(t, "Cancelled", TRUE))
        \/ Sent(Unsubscribed(t), Listening \ {t}, Update(t, "Disconnected", FALSE))
    BY <1>12 DEF Panic, Lose
  <2>4. QED BY <1>3, <2>1, <2>2, <2>3
<1>13. QED BY <1>4, <1>5, <1>6, <1>7, <1>8, <1>9, <1>10, <1>11, <1>12
          DEF TaskStep, Peer, Select

LEMMA MessagesHaveATask ==
    ASSUME queue \in Queues, NEW m, Somewhere(queue, m)
    PROVE  m \in Message /\ m.task \in Task
<1>1. PICK r \in Reader : \E i \in 1..Len(queue[r]) : queue[r][i] = m
  BY DEF Somewhere
<1>2. queue[r] \in Seq(Message)
  BY DEF Queues
<1>3. m \in Message
  BY <1>1, <1>2
<1>4. QED BY <1>3 DEF Message

LEMMA OffersStayOfCommitted == AppSpec => []OffersAreOfCommitted
<1>1. AppInit => OffersAreOfCommitted
  <2> SUFFICES ASSUME AppInit PROVE OffersAreOfCommitted
    OBVIOUS
  <2>1. \A r \in Reader : Len(queue[r]) = 0
    BY DEF AppInit, BusInit
  <2>2. DOMAIN transfers = {}
    BY DEF AppInit
  <2>3. QED BY <2>1, <2>2 DEF OffersAreOfCommitted, Somewhere
<1>2. AppTypeOK /\ RequestsWait /\ OffersAreOfCommitted /\ [AppNext]_appVars
        => OffersAreOfCommitted'
  <2> SUFFICES ASSUME AppTypeOK, RequestsWait, OffersAreOfCommitted, [AppNext]_appVars
               PROVE  OffersAreOfCommitted'
    OBVIOUS
  <2>1. BusTypes /\ ViewTypes /\ queue \in Queues /\ Front \in Reader
    BY TypesOfTheParts DEF BusTypes, Reader
  <2>2. ASSUME NEW u \in Task, Committed(u) PROVE Committed(u)'
    <3>1. CASE TaskStep(u)
      BY <2>1, <2>2, <3>1, RunningGoesOn
    <3>2. ASSUME NEW t \in Task \ {u}, TaskStep(t) PROVE Committed(u)'
      <4>1. taskState'[u] = taskState[u]
        BY <2>1, <3>2, TaskStepTells DEF Goes
      <4>2. QED BY <2>2, <4>1 DEF Committed
    <3>3. CASE ~(\E t \in Task : TaskStep(t))
      <4>1. UNCHANGED taskState
        BY <2>1, <3>3, ViewStepsKeep
      <4>2. QED BY <2>2, <4>1 DEF Committed
    <3>4. QED BY <3>1, <3>2, <3>3
  <2>3. ASSUME NEW m, Somewhere(queue, m), OffersACommand(m)
        PROVE  m \in Message /\ m.task \in Task /\ Committed(m.task)
    BY <2>1, <2>3, MessagesHaveATask DEF OffersAreOfCommitted
  <2>4. ASSUME NEW n, Somewhere(queue', n), OffersACommand(n)
        PROVE  Committed(n.task)'
    <3>1. CASE Somewhere(queue, n)
      BY <2>2, <2>3, <2>4, <3>1
    <3>2. ASSUME NEW t \in Task, TaskStep(t), ~Somewhere(queue, n) PROVE Committed(n.task)'
      BY <2>1, <2>4, <3>2, TasksOfferWhatRuns
    <3>3. ASSUME NEW id \in DOMAIN transfers, Click(id), ~Somewhere(queue, n)
          PROVE  Committed(n.task)'
      <4>1. PICK action \in Offers(transfers[id].state) : Send(Command(transfers[id].of, action))
        BY <3>3 DEF Click
      <4>2. transfers[id].of \in Task /\ action \in Action
        BY <2>1, OffersAreActions DEF ViewTypes
      <4>3. n = Command(transfers[id].of, action)
        BY <2>1, <2>4, <3>3, <4>1, <4>2, CommandIsMessage, SentAddsOne DEF Send
      <4>4. transfers[id].state \in Running
        BY <4>1 DEF Offers, Running
      <4>5. Committed(transfers[id].of)
        BY <4>4 DEF OffersAreOfCommitted
      <4>6. QED BY <2>2, <4>2, <4>3, <4>5 DEF Command, Committed
    <3>4. CASE Handle /\ ~Somewhere(queue, n)
      BY <2>1, <2>4, <3>4, TakenAddsNone DEF Handle, Receive, Ready
    <3>5. CASE \/ SkipAsFront \/ OpenDialog \/ SelectFiles \/ CancelSend
               \/ \E t \in Task : SendToDevice(t)
               \/ \E id \in DOMAIN transfers : Clear(id)
               \/ UNCHANGED appVars
      <4>1. queue' = queue
        BY <3>5 DEF SkipAsFront, SkipLost, OpenDialog, SelectFiles, CancelSend, SendToDevice,
           Clear, appVars, busVars
      <4>2. QED BY <2>4, <3>1, <4>1
    <3>6. QED BY <3>1, <3>2, <3>3, <3>4, <3>5 DEF AppNext, FrontEnd, User, TaskStep
  <2>5. ASSUME NEW id \in DOMAIN transfers', transfers'[id].state \in Running
        PROVE  Committed(transfers[id].of)'
    <3>1. CASE id \in DOMAIN transfers /\ transfers'[id] = transfers[id]
      <4>1. transfers[id].of \in Task /\ Committed(transfers[id].of)
        BY <2>1, <2>5, <3>1 DEF OffersAreOfCommitted, ViewTypes
      <4>2. taskState'[transfers[id].of] \in Running \cup Terminal
        BY <2>2, <4>1 DEF Committed
      <4>3. QED BY <3>1, <4>2 DEF Committed
    <3>2. CASE ~(id \in DOMAIN transfers /\ transfers'[id] = transfers[id])
      <4> DEFINE m == Head(queue[Front])
      <4>1. Handle
        BY <2>5, <3>2, EveryStep DEF viewVars
      <4>2. queue[Front] \in Seq(Message) /\ queue[Front] # <<>>
        BY <2>1, <4>1 DEF Queues, Handle, Ready
      <4>3. m \in Message /\ Somewhere(queue, m)
        <5>1. m = queue[Front][1] /\ 1 \in 1..Len(queue[Front]) /\ m \in Message
          BY <4>2
        <5>2. QED BY <2>1, <5>1 DEF Somewhere
      <4>4. m.kind = "LibToFront" /\ transfers' = Heard(transfers, m)
        BY <2>5, <3>2, <4>1 DEF Handle
      <4>5. transfers'[id].of = m.task /\ transfers'[id].state = m.state
        BY <2>1, <2>5, <3>2, <4>3, <4>4, HeardIsOfItsTask
      <4>6. m.task \in Task /\ Committed(m.task)
        BY <2>3, <2>5, <4>3, <4>5 DEF OffersACommand
      <4>7. taskState'[m.task] \in Running \cup Terminal
        BY <2>2, <4>6 DEF Committed
      <4>8. QED BY <4>5, <4>7 DEF Committed
    <3>3. QED BY <3>1, <3>2
  <2>6. QED BY <2>4, <2>5 DEF OffersAreOfCommitted, Committed, Somewhere, OffersACommand
<1>3. QED BY <1>1, <1>2, AppTypeCorrect, RequestsWaitAlways, PTL DEF AppSpec

(* What runs has its task. *)
RunningIsUp == \A t \in Task : taskState[t] \in Running => t \in up

LEMMA RunningStaysUp == AppSpec => []RunningIsUp
<1>1. AppInit => RunningIsUp
  BY DEF AppInit, RunningIsUp, Running
<1>2. AppTypeOK /\ RequestsWait /\ RunningIsUp /\ [AppNext]_appVars => RunningIsUp'
  <2> SUFFICES ASSUME AppTypeOK, RequestsWait, RunningIsUp, [AppNext]_appVars,
                      NEW u \in Task, taskState'[u] \in Running
               PROVE  u \in up'
    BY DEF RunningIsUp
  <2>1. BusTypes /\ taskState \in [Task -> TaskState]
    BY TypesOfTheParts DEF BusTypes
  <2>2. CASE TaskStep(u)
    <3>1. CASE Begin(u)
      BY <3>1 DEF Begin, Subscribe
    <3>2. CASE FailToConnect(u)
      BY <2>1, <3>2 DEF FailToConnect, Running
    <3>3. CASE Peer(u) \/ Obey(u) \/ Ignore(u) \/ SkipAsTask(u)
      BY <3>3 DEF Peer, ExchangeKeys, Introduce, HearAnswer, Progress, Transferring, Finish,
         Obey, Ignore, SkipAsTask, SkipLost, Selects
    <3>4. CASE End(u)
      BY <3>4 DEF End, Running, Terminal
    <3>5. CASE Lose(u)
      BY <2>1, <3>5 DEF Lose, Running
    <3>6. CASE Panic(u)
      BY <2>1, <3>6 DEF Panic, Running
    <3>7. QED BY <2>2, <3>1, <3>2, <3>3, <3>4, <3>5, <3>6 DEF TaskStep, Select
  <2>3. ASSUME NEW t \in Task \ {u}, TaskStep(t) PROVE u \in up'
    <3>1. taskState'[u] = taskState[u]
      BY <2>1, <2>3, TaskStepTells DEF Goes
    <3>2. u \in up
      BY <3>1 DEF RunningIsUp
    <3>3. QED BY <2>3, <3>2 DEF TaskStep, Begin, Subscribe, FailToConnect, Peer, ExchangeKeys,
         Introduce, HearAnswer, Progress, Finish, Select, Obey, Panic, Ignore, SkipAsTask,
         SkipLost, End, Lose, busVars
  <2>4. CASE ~(\E t \in Task : TaskStep(t))
    <3>1. UNCHANGED <<up, taskState>>
      BY <2>4, ViewStepsKeep DEF Reader
    <3>2. QED BY <3>1 DEF RunningIsUp
  <2>5. QED BY <2>2, <2>3, <2>4
<1>3. QED BY <1>1, <1>2, AppTypeCorrect, RequestsWaitAlways, PTL DEF AppSpec

(* A transfer that has no keys yet, where a Cancel panics the service, is   *)
(* brought there by nothing but a Cancel for an earlier one to its device,  *)
(* which is over: commands are offered for what runs and so has its keys,   *)
(* one transfer at a time is sent, and a received one has its own id.       *)
THEOREM OnlyALateCancelCanPanic == AppSpec => []OnlyALateCancelPanics
<1>1. AppTypeOK /\ OneConnects /\ OffersAreOfCommitted /\ RunningIsUp => OnlyALateCancelPanics
  <2> SUFFICES ASSUME AppTypeOK, OneConnects, OffersAreOfCommitted, RunningIsUp,
                      NEW t \in Task, BeforeKeys(t), NEW i \in 1..Len(queue[t]),
                      NEW m, m = queue[t][i], Obeys(t, m)
               PROVE  {t, m.task} \subseteq Outbound /\ m.task # t /\ Over(m.task)
    BY DEF OnlyALateCancelPanics
  <2>1. queue \in Queues /\ t \in Reader
    BY TypesOfTheParts DEF BusTypes, Reader
  <2>2. Somewhere(queue, m)
    BY <2>1 DEF Somewhere
  <2>3. m.task \in Task /\ Committed(m.task) /\ Id[m.task] = Id[t]
    BY <2>1, <2>2, MessagesHaveATask DEF OffersAreOfCommitted, OffersACommand, Obeys
  <2>4. m.task # t
    BY <2>3 DEF Committed, BeforeKeys, Running, Terminal
  <2>5. t \in Outbound /\ m.task \in Outbound
    BY <2>3, <2>4, IdAssumption DEF Outbound
  <2>6. m.task \notin up
    BY <2>4, <2>5 DEF OneConnects, BeforeKeys
  <2>7. Over(m.task)
    BY <2>3, <2>6 DEF Committed, RunningIsUp, Over
  <2>8. QED BY <2>4, <2>5, <2>7
<1>2. QED BY <1>1, AppTypeCorrect, OneConnectsAlways, OffersStayOfCommitted, RunningStaysUp, PTL
=============================================================================
