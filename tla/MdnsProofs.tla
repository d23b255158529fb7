----------------------------- MODULE MdnsProofs -----------------------------
(***************************************************************************)
(* Theorems about Visibility and about Discovery, the two halves of mDNS,  *)
(* which share neither state nor constants.                                *)
(***************************************************************************)
EXTENDS Visibility, Discovery, FiniteSetTheorems, TLAPS

USE DEF Visibilities

(* The variables stay in their types. *)
THEOREM VisTypeCorrect == VisSpec => []VisTypeOK
<1> USE ChoosableAssumption, IntervalAssumption, LateAssumption, MaxChoosableAssumption
<1>1. VisInit => VisTypeOK
  BY DEF VisInit, VisTypeOK
<1>2. VisTypeOK /\ [VisNext]_visVars => VisTypeOK'
  <2> SUFFICES ASSUME VisTypeOK, [VisNext]_visVars PROVE VisTypeOK'
    OBVIOUS
  <2> USE DEF VisTypeOK
  <2>1. ASSUME NEW v \in Choosable, Choose(v) PROVE VisTypeOK'
    BY <2>1 DEF Choose, loopVars
  <2>2. CASE Elapse      BY <2>2 DEF Elapse
  <2>3. CASE Obey
    <3>1. announced' \in BOOLEAN
      BY <2>3, Zenon DEF Obey
    <3>2. left' \in Int /\ left' >= -MaxLate /\ left' <= Interval
      BY <2>3 DEF Obey
    <3>3. age' \in 0..Interval
      BY <2>3 DEF Obey
    <3>4. QED BY <2>3, <3>1, <3>2, <3>3, Zenon DEF Obey
  <2>4. CASE Reannounce  BY <2>4 DEF Reannounce
  <2>5. CASE Expire
    <3>1. left' \in Int /\ left' >= -MaxLate /\ left' <= Interval
      BY <2>5 DEF Expire
    <3>2. "Invisible" \in Visibilities
      OBVIOUS
    <3>3. QED BY <2>5, <3>1, <3>2, Zenon DEF Expire
  <2>6. CASE TickIgnored BY <2>6 DEF TickIgnored
  <2>7. CASE Cancelled   BY <2>7 DEF Cancelled
  <2>8. CASE UNCHANGED visVars BY <2>8 DEF visVars, loopVars
  <2>9. QED BY <2>1, <2>2, <2>3, <2>4, <2>5, <2>6, <2>7, <2>8 DEF VisNext, Loop
<1>3. QED BY <1>1, <1>2, PTL DEF VisSpec

(* What the daemon announces is what the channel says, whenever the task has *)
(* seen the last value: AnnouncedAsTold is inductive, since every step that  *)
(* changes the channel marks it changed.                                     *)
THEOREM AnnouncementFollows == VisSpec => []AnnouncedAsTold
<1>1. VisInit => AnnouncedAsTold
  BY DEF VisInit, AnnouncedAsTold
<1>2. AnnouncedAsTold /\ [VisNext]_visVars => AnnouncedAsTold'
  <2> SUFFICES ASSUME AnnouncedAsTold, [VisNext]_visVars PROVE AnnouncedAsTold'
    OBVIOUS
  <2> USE DEF AnnouncedAsTold
  <2>1. ASSUME NEW v \in Choosable, Choose(v) PROVE AnnouncedAsTold'
    BY <2>1 DEF Choose, loopVars
  <2>2. CASE Elapse      BY <2>2 DEF Elapse
  <2>3. CASE Obey        BY <2>3 DEF Obey
  <2>4. CASE Reannounce  BY <2>4 DEF Reannounce
  <2>5. CASE Expire      BY <2>5 DEF Expire
  <2>6. CASE TickIgnored BY <2>6 DEF TickIgnored
  <2>7. CASE Cancelled   BY <2>7 DEF Cancelled
  <2>8. CASE UNCHANGED visVars BY <2>8 DEF visVars, loopVars
  <2>9. QED BY <2>1, <2>2, <2>3, <2>4, <2>5, <2>6, <2>7, <2>8 DEF VisNext, Loop
<1>3. QED BY <1>1, <1>2, PTL DEF VisSpec

(* What is left of a temporary visibility and what has passed of it make up  *)
(* the interval.                                                             *)
Counting == visibility = "Temporarily" => age = Interval \/ age + left >= Interval

LEMMA CountingStays ==
    ASSUME VisTypeOK, Counting, [VisNext]_visVars
    PROVE  Counting'
<1> USE IntervalAssumption, LateAssumption DEF Counting, VisTypeOK
<1>1. ASSUME NEW v \in Choosable, Choose(v) PROVE Counting'
  BY <1>1 DEF Choose, loopVars
<1>2. CASE Elapse      BY <1>2 DEF Elapse
<1>3. CASE Obey        BY <1>3 DEF Obey
<1>4. CASE Reannounce  BY <1>4 DEF Reannounce
<1>5. CASE Expire      BY <1>5 DEF Expire
<1>6. CASE TickIgnored BY <1>6 DEF TickIgnored
<1>7. CASE Cancelled   BY <1>7 DEF Cancelled
<1>8. CASE UNCHANGED visVars BY <1>8 DEF visVars, loopVars
<1>9. QED BY <1>1, <1>2, <1>3, <1>4, <1>5, <1>6, <1>7, <1>8 DEF VisNext, Loop

(* Only Expire overrules a choice, and then the interval has passed. *)
THEOREM TemporaryLasts == VisSpec => TemporaryIsNotCutShort
<1> DEFINE Overrules == value' # value /\ chosen' = chosen
<1>1. VisInit => Counting
  BY IntervalAssumption DEF VisInit, Counting
<1>2. VisTypeOK /\ Counting /\ [VisNext]_visVars => Counting'
  BY CountingStays
<1>3. VisTypeOK /\ Counting /\ [VisNext]_visVars
        => [Overrules => age = Interval]_visVars
  <2> SUFFICES ASSUME VisTypeOK, Counting, [VisNext]_visVars, Overrules
               PROVE  age = Interval
    OBVIOUS
  <2>1. ASSUME NEW v \in Choosable, Choose(v) PROVE FALSE
    BY <2>1 DEF Choose, VisTypeOK
  <2>2. CASE Expire
    BY <2>2, IntervalAssumption DEF Expire, Counting, VisTypeOK
  <2>3. CASE Elapse \/ Obey \/ Reannounce \/ TickIgnored \/ Cancelled \/ UNCHANGED visVars
    BY <2>3 DEF Elapse, Obey, Reannounce, TickIgnored, Cancelled, visVars
  <2>4. QED BY <2>1, <2>2, <2>3 DEF VisNext, Loop
<1>4. QED BY <1>1, <1>2, <1>3, VisTypeCorrect, PTL DEF VisSpec, TemporaryIsNotCutShort

-----------------------------------------------------------------------------
(* Discovery: its browses can be stopped. *)

Doing == {"none", "browsing", "checking", "ended"}

(* The tasks are numbered as they start.  The token that RQS holds is that   *)
(* of the last one, and is not cancelled, so that the task after the one     *)
(* whose token is lost is the one that took its place.                       *)
Tokens ==
    /\ task \in [Task -> Doing]
    /\ mode \in {"discovery", "other"}
    /\ mode = "other" => ctk = {}
    /\ \A i, j \in Task : i < j /\ task[j] # "none" => task[i] # "none"
    /\ \A i \in Task : i \in cancelled => task[i] # "none"
    /\ \A i \in Task : i \in ctk =>
         /\ task[i] # "none" /\ i \notin cancelled
         /\ \A j \in Task : i < j => task[j] = "none"
    /\ OnlyOvertakenBrowsesAreLost

(* No step but SelectFiles and StopDiscovery touches a token; it keeps them  *)
(* right if it makes no task live, and none as if it had not started.        *)
LEMMA TokensUntouched ==
    ASSUME Tokens, UNCHANGED <<mode, ctk, cancelled, again>>,
           task' \in [Task -> Doing],
           \A j \in Task : Live(j)' => Live(j),
           \A j \in Task : task'[j] = "none" <=> task[j] = "none"
    PROVE  Tokens'
<1>1. OnlyOvertakenBrowsesAreLost'
  BY DEF Tokens, OnlyOvertakenBrowsesAreLost
<1>2. QED BY <1>1 DEF Tokens

LEMMA TokensStay ==
    ASSUME Tokens, [DiscNext]_discVars
    PROVE  Tokens'
<1>0. ASSUME UNCHANGED <<mode, ctk, cancelled, again, task>> PROVE Tokens'
  BY <1>0 DEF Tokens, OnlyOvertakenBrowsesAreLost, Live
<1>1. ASSUME NEW d \in Device, Vanish(d) PROVE Tokens'
  BY <1>0, <1>1 DEF Vanish, appVars
<1>2. ASSUME NEW d \in Device, NEW a \in Addr, Appear(d, a) PROVE Tokens'
  BY <1>0, <1>2 DEF Appear, appVars
<1>3. CASE OpenDialog         BY <1>0, <1>3 DEF OpenDialog, taskVars
<1>4. CASE CloseDialog        BY <1>0, <1>4 DEF CloseDialog, taskVars
<1>5. CASE StopDiscovery
  <2>1. OnlyOvertakenBrowsesAreLost'
    BY <1>5 DEF StopDiscovery, taskVars, Tokens, OnlyOvertakenBrowsesAreLost, Live
  <2>2. \A i \in Task : i \in cancelled' => task'[i] # "none"
    BY <1>5 DEF StopDiscovery, taskVars, Tokens
  <2>3. QED BY <1>5, <2>1, <2>2 DEF StopDiscovery, taskVars, Tokens
<1>6. CASE HandleEndpointInfo BY <1>0, <1>6 DEF HandleEndpointInfo, taskVars
<1>7. ASSUME NEW i \in Task, SelectFiles(i) PROVE Tokens'
  <2>1. /\ task[i] = "none" /\ \A j \in Task : j < i => task[j] # "none"
        /\ ctk' = {i} /\ mode' = "discovery" /\ UNCHANGED cancelled
        /\ again \subseteq again' /\ (mode = "discovery" => i \in again')
        /\ task' = [task EXCEPT ![i] = "browsing"]
    BY <1>7 DEF SelectFiles
  <2>2. /\ \A j \in Task : task'[j] = IF j = i THEN "browsing" ELSE task[j]
        /\ task' \in [Task -> Doing]
    BY <2>1 DEF Tokens, Doing
  <2>3. \A j \in Task : j < i <=> task[j] # "none"
    BY <2>1 DEF Tokens, Task
  <2>4. \A j, k \in Task : j < k /\ task'[k] # "none" => task'[j] # "none"
    <3>1. SUFFICES ASSUME NEW j \in Task, NEW k \in Task, j < k, task'[k] # "none"
                   PROVE  task'[j] # "none"
      OBVIOUS
    <3>2. k <= i
      BY <2>2, <2>3, <3>1 DEF Task
    <3>3. j < i
      BY <3>1, <3>2 DEF Task
    <3>4. QED BY <2>2, <2>3, <3>3
  <2>5. i \notin cancelled /\ \A j \in Task : j \in cancelled => task'[j] # "none"
    BY <2>1, <2>2 DEF Tokens
  <2>6. \A j \in Task : i < j => task'[j] = "none"
    BY <2>2, <2>3 DEF Task
  <2>7. ASSUME NEW j \in Task, j \in ctk PROVE j + 1 = i /\ mode = "discovery"
    <3>1. mode = "discovery" /\ task[j] # "none"
      BY <2>7 DEF Tokens
    <3>2. j < i
      BY <2>3, <3>1
    <3>3. ~(j + 1 < i)
      <4>1. SUFFICES ASSUME j + 1 < i PROVE FALSE
        OBVIOUS
      <4>2. j + 1 \in Task /\ j < j + 1
        BY <4>1, BoundsAssumption DEF Task
      <4>3. task[j + 1] = "none"
        BY <2>7, <4>2 DEF Tokens
      <4>4. QED BY <2>3, <4>1, <4>2, <4>3
    <3>4. QED BY <3>1, <3>2, <3>3 DEF Task
  <2>8. OnlyOvertakenBrowsesAreLost'
    <3>1. SUFFICES ASSUME NEW j \in Task, Live(j)', j # i
                   PROVE  j \in cancelled \/ j + 1 \in again'
      BY <2>1 DEF OnlyOvertakenBrowsesAreLost
    <3>2. Live(j)
      BY <2>2, <3>1 DEF Live
    <3>3. j \in ctk \/ j \in cancelled \/ j + 1 \in again
      BY <3>2 DEF Tokens, OnlyOvertakenBrowsesAreLost
    <3>4. QED BY <2>1, <2>7, <3>3
  <2>9. QED
    BY <2>1, <2>2, <2>4, <2>5, <2>6, <2>8 DEF Tokens
<1>8. ASSUME NEW i \in Task, TaskStep(i) PROVE Tokens'
  <2>1. UNCHANGED appVars
    BY <1>8 DEF TaskStep, ReadCached, ReadResolved, ReadRemoved,
                CheckSucceeds, CheckFails
  <2>2. /\ task' \in [Task -> Doing] /\ \A j \in Task : Live(j)' => Live(j)
        /\ \A j \in Task : task'[j] = "none" <=> task[j] = "none"
    <3> USE DEF Tokens, Live, Doing
    <3>1. CASE ReadCached(i)    BY <3>1 DEF ReadCached
    <3>2. CASE ReadResolved(i)  BY <3>2 DEF ReadResolved, Reads
    <3>3. CASE ReadRemoved(i)   BY <3>3 DEF ReadRemoved
    <3>4. CASE CheckSucceeds(i) BY <3>4 DEF CheckSucceeds
    <3>5. CASE CheckFails(i)    BY <3>5 DEF CheckFails
    <3>6. QED BY <1>8, <3>1, <3>2, <3>3, <3>4, <3>5 DEF TaskStep
  <2>3. QED BY <2>1, <2>2, TokensUntouched DEF appVars
<1>9. ASSUME NEW i \in Task, TaskEnds(i) PROVE Tokens'
  <2>1. UNCHANGED appVars
    BY <1>9 DEF TaskEnds
  <2>2. /\ task' \in [Task -> Doing] /\ \A j \in Task : Live(j)' => Live(j)
        /\ \A j \in Task : task'[j] = "none" <=> task[j] = "none"
    BY <1>9 DEF TaskEnds, Tokens, Live, Doing
  <2>3. QED BY <2>1, <2>2, TokensUntouched DEF appVars
<1>10. CASE UNCHANGED discVars
  BY <1>0, <1>10 DEF discVars, appVars, taskVars
<1>11. QED
  BY <1>1, <1>2, <1>3, <1>4, <1>5, <1>6, <1>7, <1>8, <1>9, <1>10 DEF DiscNext

(* A browse that runs can be stopped, however many discoveries follow each   *)
(* other and however many file dialogs are open at once, unless the next     *)
(* was started while the user was looking for devices already.               *)
THEOREM BrowsesCanBeStopped == DiscSpec => []OnlyOvertakenBrowsesAreLost
<1>1. DiscInit => Tokens
  BY DEF DiscInit, Tokens, OnlyOvertakenBrowsesAreLost, Live, Doing
<1>2. Tokens /\ [DiscNext]_discVars => Tokens'
  BY TokensStay
<1>3. Tokens => OnlyOvertakenBrowsesAreLost
  BY DEF Tokens
<1>4. QED BY <1>1, <1>2, <1>3, PTL DEF DiscSpec

-----------------------------------------------------------------------------
(* What the theorem on the list needs of the network: there are finitely    *)
(* many devices, and each has one address, its own.                         *)
EachHasItsAddress ==
    /\ IsFiniteSet(Device)
    /\ \A d \in Device : \E a \in Addr :
        /\ Home[d] = {a}
        /\ \A e \in Device \ {d} : a \notin Home[e]

Address(d) == CHOOSE a \in Addr : Home[d] = {a}

LEMMA AddressesDiffer ==
    ASSUME EachHasItsAddress
    PROVE  \A d \in Device :
             /\ Address(d) \in Addr /\ Home[d] = {Address(d)}
             /\ \A e \in Device : Address(e) = Address(d) => e = d
<1>1. \A d \in Device : Address(d) \in Addr /\ Home[d] = {Address(d)}
  BY DEF EachHasItsAddress, Address
<1>2. QED BY <1>1 DEF EachHasItsAddress

(* The events and messages that there can be. *)
Comings == {Resolved(d, Address(d)) : d \in Device}
Event == Comings \cup {Removed(d) : d \in Device}
Message == {Present(Address(d)) : d \in Device} \cup {Absent(Address(d)) : d \in Device}

LEMMA EventFacts ==
    \A e \in Event :
        /\ e.device \in Device
        /\ e \in Comings <=> e.type = "ServiceResolved"
        /\ e \in Comings => e.addr = Address(e.device)
BY DEF Event, Comings, Resolved, Removed

LEMMA MessageFacts ==
    ASSUME NEW a
    PROVE  /\ Present(a).id = a /\ Present(a).present
           /\ Absent(a).id = a /\ ~Absent(a).present
BY Zenon DEF Present, Absent

-----------------------------------------------------------------------------
(* The last event about a device, the last message about an address. *)

EventIsLast(q, d, k) ==
    /\ k \in 1..Len(q) /\ q[k].device = d
    /\ \A j \in 1..Len(q) : j > k => q[j].device # d

NoEvent(q, d) == \A k \in 1..Len(q) : q[k].device # d

MessageIsLast(q, a, k) ==
    /\ k \in 1..Len(q) /\ q[k].id = a
    /\ \A j \in 1..Len(q) : j > k => q[j].id # a

NoMessage(q, a) == \A k \in 1..Len(q) : q[k].id # a

(* r is q with e at its end; r is q without its head h: by the entries. *)
Appended(q, e, r) ==
    /\ Len(q) \in Nat /\ Len(r) = Len(q) + 1 /\ r[Len(r)] = e
    /\ \A k \in 1..Len(q) : r[k] = q[k]

Taken(q, h, r) ==
    /\ Len(q) \in Nat \ {0} /\ Len(r) = Len(q) - 1 /\ q[1] = h
    /\ \A k \in 1..Len(r) : r[k] = q[k + 1]

LEMMA AppendAndTail ==
    ASSUME NEW S, NEW q \in Seq(S)
    PROVE  /\ \A e \in S : Appended(q, e, Append(q, e))
           /\ q # <<>> => Taken(q, Head(q), Tail(q))
BY DEF Appended, Taken

LEMMA EventAppended ==
    ASSUME NEW q, NEW e, NEW d, NEW r, Appended(q, e, r)
    PROVE  /\ \A k \in 1..Len(r) : EventIsLast(r, d, k) =>
                /\ e.device = d => r[k] = e
                /\ e.device # d => EventIsLast(q, d, k) /\ r[k] = q[k] /\ k \in 1..Len(q)
           /\ NoEvent(r, d) => NoEvent(q, d) /\ e.device # d
<1>1. ASSUME NEW k \in 1..Len(r), EventIsLast(r, d, k)
      PROVE  /\ e.device = d => r[k] = e
             /\ e.device # d => EventIsLast(q, d, k) /\ r[k] = q[k] /\ k \in 1..Len(q)
  BY <1>1 DEF Appended, EventIsLast
<1>2. NoEvent(r, d) => NoEvent(q, d) /\ e.device # d
  BY DEF Appended, NoEvent
<1>3. QED BY <1>1, <1>2

LEMMA MessageAppended ==
    ASSUME NEW q, NEW e, NEW a, NEW r, Appended(q, e, r)
    PROVE  /\ \A k \in 1..Len(r) : MessageIsLast(r, a, k) =>
                /\ e.id = a => r[k] = e
                /\ e.id # a => MessageIsLast(q, a, k) /\ r[k] = q[k] /\ k \in 1..Len(q)
           /\ NoMessage(r, a) => NoMessage(q, a) /\ e.id # a
<1>1. ASSUME NEW k \in 1..Len(r), MessageIsLast(r, a, k)
      PROVE  /\ e.id = a => r[k] = e
             /\ e.id # a => MessageIsLast(q, a, k) /\ r[k] = q[k] /\ k \in 1..Len(q)
  BY <1>1 DEF Appended, MessageIsLast
<1>2. NoMessage(r, a) => NoMessage(q, a) /\ e.id # a
  BY DEF Appended, NoMessage
<1>3. QED BY <1>1, <1>2

(* A tail has the same last events, one place earlier, unless the head was it. *)
LEMMA EventTaken ==
    ASSUME NEW q, NEW h, NEW d, NEW r, Taken(q, h, r)
    PROVE  /\ \A k \in 1..Len(r) : EventIsLast(r, d, k) =>
                EventIsLast(q, d, k + 1) /\ r[k] = q[k + 1] /\ k + 1 \in 1..Len(q)
           /\ NoEvent(r, d) =>
                \/ h.device # d /\ NoEvent(q, d)
                \/ h.device = d /\ EventIsLast(q, d, 1) /\ q[1] = h /\ 1 \in 1..Len(q)
<1> USE DEF Taken
<1>1. \A j \in 1..Len(q) : j > 1 => j - 1 \in 1..Len(r) /\ r[j - 1] = q[j]
  OBVIOUS
<1>2. ASSUME NEW k \in 1..Len(r), EventIsLast(r, d, k)
      PROVE  EventIsLast(q, d, k + 1) /\ r[k] = q[k + 1] /\ k + 1 \in 1..Len(q)
  BY <1>1, <1>2 DEF EventIsLast
<1>3. ASSUME NoEvent(r, d)
      PROVE  \/ h.device # d /\ NoEvent(q, d)
             \/ h.device = d /\ EventIsLast(q, d, 1) /\ q[1] = h /\ 1 \in 1..Len(q)
  <2>1. 1 \in 1..Len(q) /\ \A j \in 1..Len(q) : j > 1 => q[j].device # d
    BY <1>1, <1>3 DEF NoEvent
  <2>2. CASE h.device = d
    BY <2>1, <2>2 DEF EventIsLast
  <2>3. CASE h.device # d
    <3>1. \A j \in 1..Len(q) : j = 1 \/ j > 1
      OBVIOUS
    <3>2. QED BY <2>1, <2>3, <3>1 DEF NoEvent
  <2>4. QED BY <2>2, <2>3
<1>4. QED BY <1>2, <1>3

LEMMA MessageTaken ==
    ASSUME NEW q, NEW h, NEW a, NEW r, Taken(q, h, r)
    PROVE  /\ \A k \in 1..Len(r) : MessageIsLast(r, a, k) =>
                MessageIsLast(q, a, k + 1) /\ r[k] = q[k + 1] /\ k + 1 \in 1..Len(q)
           /\ NoMessage(r, a) =>
                \/ h.id # a /\ NoMessage(q, a)
                \/ h.id = a /\ MessageIsLast(q, a, 1) /\ q[1] = h /\ 1 \in 1..Len(q)
<1> USE DEF Taken
<1>1. \A j \in 1..Len(q) : j > 1 => j - 1 \in 1..Len(r) /\ r[j - 1] = q[j]
  OBVIOUS
<1>2. ASSUME NEW k \in 1..Len(r), MessageIsLast(r, a, k)
      PROVE  MessageIsLast(q, a, k + 1) /\ r[k] = q[k + 1] /\ k + 1 \in 1..Len(q)
  BY <1>1, <1>2 DEF MessageIsLast
<1>3. ASSUME NoMessage(r, a)
      PROVE  \/ h.id # a /\ NoMessage(q, a)
             \/ h.id = a /\ MessageIsLast(q, a, 1) /\ q[1] = h /\ 1 \in 1..Len(q)
  <2>1. 1 \in 1..Len(q) /\ \A j \in 1..Len(q) : j > 1 => q[j].id # a
    BY <1>1, <1>3 DEF NoMessage
  <2>2. CASE h.id = a
    BY <2>1, <2>2 DEF MessageIsLast
  <2>3. CASE h.id # a
    <3>1. \A j \in 1..Len(q) : j = 1 \/ j > 1
      OBVIOUS
    <3>2. QED BY <2>1, <2>3, <3>1 DEF NoMessage
  <2>4. QED BY <2>2, <2>3
<1>4. QED BY <1>2, <1>3

(* What ReadRemoved sends: nothing, or one message. *)
LEMMA OneOrNone ==
    ASSUME NEW x
    PROVE  SetToSeq({}) = <<>> /\ SetToSeq({x}) = <<x>>
<1>1. IsFiniteSet({}) /\ Cardinality({}) = 0
  BY FS_EmptySet
<1>2. IsFiniteSet({x}) /\ Cardinality({x}) = 1
  BY FS_Singleton
<1>3. 1..0 = {} /\ 1..1 = {1}
  OBVIOUS
<1>4. SetToSeq({}) = <<>>
  <2>1. <<>> \in [{} -> {}] /\ IsInjective(<<>>)
    BY DEF IsInjective
  <2>2. \A f \in [{} -> {}] : f = <<>>
    OBVIOUS
  <2>3. SetToSeq({}) = CHOOSE f \in [{} -> {}] : IsInjective(f)
    BY <1>1, <1>3 DEF SetToSeq
  <2>4. QED BY <2>1, <2>2, <2>3
<1>5. SetToSeq({x}) = <<x>>
  <2>1. <<x>> \in [{1} -> {x}] /\ IsInjective(<<x>>)
    BY DEF IsInjective
  <2>2. \A f \in [{1} -> {x}] : f = <<x>>
    OBVIOUS
  <2>3. SetToSeq({x}) = CHOOSE f \in [{1} -> {x}] : IsInjective(f)
    BY <1>2, <1>3 DEF SetToSeq
  <2>4. QED BY <2>1, <2>2, <2>3
<1>6. QED BY <1>4, <1>5

(* An order of a set has all of it, each once. *)
LEMMA OrderHasAll ==
    ASSUME NEW S, IsFiniteSet(S), NEW order \in SetToSeqs(S)
    PROVE  /\ order \in Seq(S)
           /\ \A x \in S : \E k \in 1..Len(order) : order[k] = x
           /\ \A j, k \in 1..Len(order) : order[j] = order[k] => j = k
<1> DEFINE n == Cardinality(S)
<1>1. n \in Nat
  BY FS_CardinalityType
<1>2. IsFiniteSet(1..n) /\ Cardinality(1..n) = n
  BY <1>1, FS_Interval
<1>3. order \in [1..n -> S] /\ \A i, j \in 1..n : i # j => order[i] # order[j]
  BY DEF SetToSeqs
<1>4. order \in Seq(S) /\ Len(order) = n
  BY <1>1, <1>3
<1>5. order \in Injection(1..n, S)
  BY <1>3 DEF Injection, IsInjective
<1>6. order \in Surjection(1..n, S)
  <2> HIDE DEF n
  <2>1. Cardinality(1..n) = Cardinality(S)
    BY <1>2 DEF n
  <2>2. QED BY <1>5, <2>1, FS_Injection
<1>7. QED BY <1>3, <1>4, <1>6 DEF Surjection

-----------------------------------------------------------------------------
(* The variables, where no address changes. *)
Places ==
    /\ ctk \subseteq Task
    /\ queue \in [Task -> Seq(Event)]
    /\ probe \in [Task -> {{}} \cup {{e} : e \in Comings}]
    /\ \A i \in Task : probe[i] # {} => task[i] = "checking"
    /\ \A i \in Task : \A e \in probe[i] : cache[i][e.device] = {}
    /\ missed \in [Task -> SUBSET Device]
    /\ cache \in [Task -> [Device -> SUBSET Addr]]
    /\ \A i \in Task, d \in Device : cache[i][d] \in {{}, {Address(d)}}
    /\ net \in [Device -> SUBSET Addr]
    /\ \A d \in Device : net[d] \in {{}, {Address(d)}}
    /\ dch \in Seq(Message)
    /\ shown \subseteq {Address(d) : d \in Device}
    /\ \A i \in Task : task[i] = "none" => cache[i] = NoCache

(* The task's cache is true of d, or the task could not reach it.            *)
Known(i, d) == cache[i][d] = net[d] \/ (cache[i][d] = {} /\ d \in missed[i])

(* What task i has heard of d.  The last event still to be read is true; if  *)
(* there is none, the device is there if the task is trying it, and if it is *)
(* not, the task knows of it what it could find out.                         *)
Heard(i, d) ==
    /\ \A k \in 1..Len(queue[i]) :
         EventIsLast(queue[i], d, k) => (queue[i][k] \in Comings <=> net[d] # {})
    /\ NoEvent(queue[i], d) =>
         IF \E e \in probe[i] : e.device = d THEN net[d] # {} ELSE Known(i, d)

(* The last message about d says what task i has in its cache; if there is   *)
(* none, the list says it.                                                   *)
Listed(i, d) ==
    /\ \A k \in 1..Len(dch) :
         MessageIsLast(dch, Address(d), k) => (dch[k].present <=> cache[i][d] # {})
    /\ NoMessage(dch, Address(d)) => (Address(d) \in shown <=> cache[i][d] # {})

InStep(i) == \A d \in Device : Heard(i, d) /\ Listed(i, d)

(* While the user looks for devices, the task whose token RQS holds is.      *)
Current ==
    mode = "discovery" => \E i \in Task : ctk = {i} /\ Live(i) /\ InStep(i)

ListInv == Places /\ Current

-----------------------------------------------------------------------------
LEMMA PlacesStay ==
    ASSUME EachHasItsAddress, Tokens, Places, [DiscNext]_discVars
    PROVE  Places'
<1> USE DEF Tokens
<1>0. \A d \in Device : Address(d) \in Addr /\ Home[d] = {Address(d)}
  BY AddressesDiffer
<1>1. ASSUME NEW d \in Device, Vanish(d) PROVE Places'
  <2>1. Removed(d) \in Event
    BY DEF Event
  <2>2. queue' \in [Task -> Seq(Event)]
    BY <1>1, <2>1 DEF Vanish, Tell, Places
  <2>3. QED BY <1>1, <2>2 DEF Vanish, Places, appVars
<1>2. ASSUME NEW d \in Device, NEW a \in Addr, Appear(d, a) PROVE Places'
  <2>1. a = Address(d) /\ Resolved(d, a) \in Event
    BY <1>0, <1>2 DEF Appear, Event, Comings
  <2>2. queue' \in [Task -> Seq(Event)]
    BY <1>2, <2>1 DEF Appear, Tell, Places
  <2>3. net' \in [Device -> SUBSET Addr] /\ \A e \in Device : net'[e] \in {{}, {Address(e)}}
    BY <1>2, <2>1 DEF Appear, Places
  <2>4. QED BY <1>2, <2>2, <2>3 DEF Appear, Places, appVars
<1>3. CASE OpenDialog         BY <1>3 DEF OpenDialog, taskVars, netVars, Places
<1>4. CASE CloseDialog        BY <1>4 DEF CloseDialog, taskVars, netVars, Places
<1>5. CASE StopDiscovery      BY <1>5 DEF StopDiscovery, taskVars, netVars, Places
<1>6. CASE HandleEndpointInfo
  <2>1. Head(dch) \in Message /\ dch' \in Seq(Message)
    BY <1>6 DEF HandleEndpointInfo, Places
  <2>2. shown' \subseteq {Address(d) : d \in Device}
    <3>1. \E d \in Device : Head(dch).id = Address(d)
      BY <2>1, MessageFacts DEF Message
    <3>2. QED BY <1>6, <3>1 DEF HandleEndpointInfo, Applied, Places
  <2>3. QED BY <1>6, <2>1, <2>2 DEF HandleEndpointInfo, taskVars, netVars, Places
<1>7. ASSUME NEW i \in Task, SelectFiles(i) PROVE Places'
  <2>1. PICK order \in SetToSeqs(Here) : queue' = [queue EXCEPT ![i] =
            [k \in 1..Len(order) |->
                Resolved(order[k], CHOOSE a \in Addr : a \in net[order[k]])]]
    BY <1>7 DEF SelectFiles
  <2>2. IsFiniteSet(Here)
    BY FS_Subset DEF Here, EachHasItsAddress
  <2>3. order \in Seq(Here)
    BY <2>2, OrderHasAll
  <2>4. \A d \in Here : Resolved(d, CHOOSE a \in Addr : a \in net[d]) \in Event
    <3>1. SUFFICES ASSUME NEW d \in Here
                   PROVE  Resolved(d, CHOOSE a \in Addr : a \in net[d]) \in Event
      OBVIOUS
    <3>2. d \in Device /\ net[d] = {Address(d)} /\ Address(d) \in Addr
      BY <1>0 DEF Here, Places
    <3>3. (CHOOSE a \in Addr : a \in net[d]) = Address(d)
      BY <3>2
    <3>4. QED BY <3>2, <3>3 DEF Event, Comings
  <2>5. [k \in 1..Len(order) |-> Resolved(order[k], CHOOSE a \in Addr : a \in net[order[k]])]
            \in Seq(Event)
    <3> DEFINE R(d) == Resolved(d, CHOOSE a \in Addr : a \in net[d])
    <3>1. \A d \in Here : R(d) \in Event
      BY <2>4
    <3> HIDE DEF R
    <3>2. [k \in 1..Len(order) |-> R(order[k])] \in Seq(Event)
      BY <2>3, <3>1
    <3>3. QED BY <3>2 DEF R
  <2>6. queue' \in [Task -> Seq(Event)]
    BY <2>1, <2>5 DEF Places
  <2>7. \A j \in Task : task'[j] = IF j = i THEN "browsing" ELSE task[j]
    BY <1>7 DEF SelectFiles
  <2>8. probe[i] = {}
    BY <1>7 DEF SelectFiles, Places
  <2>9. \A j \in Task : /\ probe'[j] # {} => task'[j] = "checking"
                        /\ \A e \in probe'[j] : cache'[j][e.device] = {}
                        /\ task'[j] = "none" => cache'[j] = NoCache
    BY <1>7, <2>7, <2>8 DEF SelectFiles, Places
  <2>10. QED BY <1>7, <2>6, <2>9 DEF SelectFiles, netVars, Places
<1>8. ASSUME NEW i \in Task, NEW event, Reads(i, event)
      PROVE  event \in Event /\ queue' \in [Task -> Seq(Event)] /\ task[i] = "browsing"
  BY <1>8 DEF Reads, Places
<1>9. ASSUME NEW i \in Task, ReadCached(i) PROVE Places'
  <2>1. PICK event : /\ Reads(i, event)
                     /\ UNCHANGED <<appVars, task, probe, cache, missed, dch, netVars>>
    BY <1>9 DEF ReadCached
  <2>2. queue' \in [Task -> Seq(Event)]
    BY <1>8, <2>1
  <2>3. QED BY <2>1, <2>2 DEF Places, appVars, netVars
<1>10. ASSUME NEW i \in Task, ReadResolved(i) PROVE Places'
  <2>1. PICK event : /\ Reads(i, event) /\ event.type = "ServiceResolved"
                     /\ task' = [task EXCEPT ![i] = "checking"]
                     /\ probe' = [probe EXCEPT ![i] = {event}]
                     /\ cache[i][event.device] # {event.addr}
                     /\ UNCHANGED <<appVars, cache, missed, dch, netVars>>
    BY <1>10 DEF ReadResolved
  <2>2. event \in Comings
    BY <1>8, <2>1, EventFacts
  <2>3. probe' \in [Task -> {{}} \cup {{e} : e \in Comings}]
    BY <2>1, <2>2 DEF Places
  <2>4. \A j \in Task : task'[j] = (IF j = i THEN "checking" ELSE task[j])
                        /\ probe'[j] = (IF j = i THEN {event} ELSE probe[j])
    BY <2>1 DEF Places
  <2>5. cache[i][event.device] = {}
    <3>1. event.device \in Device /\ event.addr = Address(event.device)
      BY <2>2, EventFacts DEF Event
    <3>2. cache[i][event.device] \in {{}, {event.addr}}
      BY <3>1 DEF Places
    <3>3. QED BY <2>1, <3>2
  <2>6. \A j \in Task : \A e \in probe'[j] : cache'[j][e.device] = {}
    BY <2>1, <2>4, <2>5 DEF Places
  <2>7. QED BY <1>8, <2>1, <2>3, <2>4, <2>6 DEF Places, appVars, netVars
<1>11. ASSUME NEW i \in Task, NEW d \in Device, NEW c \in {{}, {Address(d)}},
              cache' = [cache EXCEPT ![i][d] = c], task[i] # "none"
       PROVE  /\ cache' \in [Task -> [Device -> SUBSET Addr]]
              /\ \A j \in Task, e \in Device : cache'[j][e] \in {{}, {Address(e)}}
              /\ \A j \in Task : task[j] = "none" => cache'[j] = NoCache
              /\ \A j \in Task : j # i => cache'[j] = cache[j]
              /\ \A e \in Device : cache'[i][e] = IF e = d THEN c ELSE cache[i][e]
  <2>1. /\ cache \in [Task -> [Device -> SUBSET Addr]]
        /\ \A j \in Task, e \in Device : cache[j][e] \in {{}, {Address(e)}}
        /\ \A j \in Task : task[j] = "none" => cache[j] = NoCache
    BY DEF Places
  <2>2. c \in SUBSET Addr
    BY <1>0
  <2>3. QED BY <1>11, <2>1, <2>2
<1>12. ASSUME NEW i \in Task, ReadRemoved(i) PROVE Places'
  <2>1. PICK event : /\ Reads(i, event)
                     /\ cache' = [cache EXCEPT ![i][event.device] = {}]
                     /\ dch' = dch \o SetToSeq({Absent(a) : a \in cache[i][event.device]})
                     /\ UNCHANGED <<appVars, task, probe, missed, netVars>>
    BY <1>12 DEF ReadRemoved
  <2>2. event.device \in Device
    BY <1>8, <2>1, EventFacts
  <2> DEFINE d == event.device
  <2>3. dch' \in Seq(Message)
    <3>1. cache[i][d] \in {{}, {Address(d)}}
      BY <2>2 DEF Places
    <3>2. CASE cache[i][d] = {}
      <4>1. {Absent(a) : a \in cache[i][d]} = {}
        BY <3>2
      <4>2. dch' = dch \o <<>>
        BY <2>1, <4>1, OneOrNone
      <4>3. QED BY <4>2 DEF Places
    <3>3. CASE cache[i][d] = {Address(d)}
      <4>1. {Absent(a) : a \in cache[i][d]} = {Absent(Address(d))}
        BY <3>3
      <4>2. Absent(Address(d)) \in Message
        BY <2>2 DEF Message
      <4>3. dch' = dch \o <<Absent(Address(d))>>
        BY <2>1, <4>1, OneOrNone
      <4>4. QED BY <4>2, <4>3 DEF Places
    <3>4. QED BY <3>1, <3>2, <3>3
  <2>4. task[i] # "none" /\ probe[i] = {}
    BY <1>8, <2>1 DEF Places
  <2>5. /\ cache' \in [Task -> [Device -> SUBSET Addr]]
        /\ \A j \in Task, e \in Device : cache'[j][e] \in {{}, {Address(e)}}
        /\ \A j \in Task : task[j] = "none" => cache'[j] = NoCache
        /\ \A j \in Task : j # i => cache'[j] = cache[j]
    BY <1>11, <2>1, <2>2, <2>4
  <2>6. \A j \in Task : \A e \in probe'[j] : cache'[j][e.device] = {}
    BY <2>1, <2>4, <2>5 DEF Places
  <2>7. QED BY <1>8, <2>1, <2>3, <2>5, <2>6 DEF Places, appVars, netVars
<1>13. ASSUME NEW i \in Task, CheckSucceeds(i) PROVE Places'
  <2>1. PICK event \in probe[i] :
            /\ task[i] = "checking"
            /\ task' = [task EXCEPT ![i] = "browsing"]
            /\ probe' = [probe EXCEPT ![i] = {}]
            /\ cache' = [cache EXCEPT ![i][event.device] = {event.addr}]
            /\ missed' = [missed EXCEPT ![i] = @ \ {event.device}]
            /\ dch' = Append(dch, Present(event.addr))
            /\ UNCHANGED <<appVars, queue, netVars>>
    BY <1>13 DEF CheckSucceeds
  <2>2. event \in Comings /\ event \in Event
    <3>1. probe[i] \in {{}} \cup {{e} : e \in Comings}
      BY DEF Places
    <3>2. event \in Comings
      BY <2>1, <3>1
    <3>3. QED BY <3>2 DEF Event
  <2>3. event.device \in Device /\ event.addr = Address(event.device)
    BY <2>2, EventFacts
  <2>4. dch' \in Seq(Message)
    BY <2>1, <2>3 DEF Places, Message
  <2>5. \A j \in Task : task'[j] = (IF j = i THEN "browsing" ELSE task[j])
                        /\ probe'[j] = (IF j = i THEN {} ELSE probe[j])
    BY <2>1 DEF Places
  <2>6. probe' \in [Task -> {{}} \cup {{e} : e \in Comings}]
    BY <2>1 DEF Places
  <2>7. /\ cache' \in [Task -> [Device -> SUBSET Addr]]
        /\ \A j \in Task, e \in Device : cache'[j][e] \in {{}, {Address(e)}}
        /\ \A j \in Task : task[j] = "none" => cache'[j] = NoCache
        /\ \A j \in Task : j # i => cache'[j] = cache[j]
    <3>1. {event.addr} \in {{}, {Address(event.device)}} /\ task[i] # "none"
      BY <2>1, <2>3
    <3>2. QED BY <1>11, <2>1, <2>3, <3>1
  <2>8. \A j \in Task : \A e \in probe'[j] : cache'[j][e.device] = {}
    BY <2>5, <2>7 DEF Places
  <2>9. missed' \in [Task -> SUBSET Device]
    BY <2>1 DEF Places
  <2>10. \A j \in Task : /\ probe'[j] # {} => task'[j] = "checking"
                         /\ task'[j] = "none" => cache'[j] = NoCache
    BY <2>5, <2>7 DEF Places
  <2>11. /\ ctk' \subseteq Task /\ shown' \subseteq {Address(e) : e \in Device}
         /\ queue' \in [Task -> Seq(Event)] /\ net' \in [Device -> SUBSET Addr]
         /\ \A e \in Device : net'[e] \in {{}, {Address(e)}}
    BY <2>1 DEF Places, appVars, netVars
  <2>12. QED BY <2>4, <2>6, <2>7, <2>8, <2>9, <2>10, <2>11, Zenon DEF Places
<1>14. ASSUME NEW i \in Task, CheckFails(i) PROVE Places'
  <2>1. PICK event \in probe[i] :
            /\ task[i] = "checking"
            /\ task' = [task EXCEPT ![i] = "browsing"]
            /\ probe' = [probe EXCEPT ![i] = {}]
            /\ missed' = [missed EXCEPT ![i] = @ \cup {event.device}]
            /\ UNCHANGED <<appVars, queue, cache, dch, netVars>>
    BY <1>14 DEF CheckFails
  <2>2. \A j \in Task : task'[j] = (IF j = i THEN "browsing" ELSE task[j])
                        /\ probe'[j] = (IF j = i THEN {} ELSE probe[j])
    BY <2>1 DEF Places
  <2>3. probe' \in [Task -> {{}} \cup {{e} : e \in Comings}]
    BY <2>1 DEF Places
  <2>4. \A j \in Task : \A e \in probe'[j] : cache'[j][e.device] = {}
    BY <2>1, <2>2 DEF Places
  <2>5. missed' \in [Task -> SUBSET Device]
    <3>0. probe[i] \in {{}} \cup {{e} : e \in Comings}
      BY DEF Places
    <3>1. event \in Comings
      BY <2>1, <3>0
    <3>2. event.device \in Device
      BY <3>1, EventFacts DEF Event
    <3>3. QED BY <2>1, <3>2 DEF Places
  <2>6. QED BY <2>1, <2>2, <2>3, <2>4, <2>5 DEF Places, appVars, netVars
<1>15. ASSUME NEW i \in Task, TaskEnds(i) PROVE Places'
  <2>1. <<>> \in Seq(Event)
    OBVIOUS
  <2>2. \A j \in Task : task'[j] = IF j = i THEN "ended" ELSE task[j]
    BY <1>15 DEF TaskEnds
  <2>3. QED BY <1>15, <2>1, <2>2 DEF TaskEnds, Places, appVars, netVars
<1>16. CASE UNCHANGED discVars
  BY <1>16 DEF discVars, appVars, taskVars, netVars, Places
<1>17. QED
  BY <1>1, <1>2, <1>3, <1>4, <1>5, <1>6, <1>7, <1>9, <1>10, <1>12, <1>13, <1>14, <1>15, <1>16
  DEF DiscNext, TaskStep

(* An announcement reaches the task that browses. *)
LEMMA TellHeard ==
    ASSUME NEW i \in Task, NEW d \in Device, NEW e \in Event, Places,
           Appended(queue[i], e, queue'[i]), UNCHANGED <<probe, cache, missed>>,
           Heard(i, d),
           IF e.device = d THEN e \in Comings <=> net'[d] # {}
                           ELSE net'[d] = net[d]
    PROVE  Heard(i, d)'
<1> DEFINE q == queue[i]
           r == queue'[i]
<1>1. Appended(q, e, r)
  OBVIOUS
<1> HIDE DEF q, r
<1>2. /\ \A k \in 1..Len(r) : EventIsLast(r, d, k) =>
            /\ e.device = d => r[k] = e
            /\ e.device # d => EventIsLast(q, d, k) /\ r[k] = q[k] /\ k \in 1..Len(q)
      /\ NoEvent(r, d) => NoEvent(q, d) /\ e.device # d
  BY ONLY <1>1, EventAppended
<1>3. /\ \A k \in 1..Len(q) : EventIsLast(q, d, k) => (q[k] \in Comings <=> net[d] # {})
      /\ NoEvent(q, d) =>
           IF \E f \in probe[i] : f.device = d THEN net[d] # {} ELSE Known(i, d)
  BY DEF Heard, q
<1>4. /\ \A k \in 1..Len(r) : EventIsLast(r, d, k) => (r[k] \in Comings <=> net'[d] # {})
      /\ NoEvent(r, d) =>
           IF \E f \in probe'[i] : f.device = d THEN net'[d] # {} ELSE Known(i, d)'
  BY <1>2, <1>3 DEF Known
<1>5. QED BY <1>4 DEF Heard, r, Comings

(* What is left when the task has read an event. *)
LEMMA ReadHeard ==
    ASSUME NEW i \in Task, NEW d \in Device, NEW e, Reads(i, e), Places, UNCHANGED net,
           Heard(i, d),
           probe[i] = {},
           \/ e.device # d /\ cache'[i][d] = cache[i][d] /\ \A f \in probe'[i] : f.device # d
           \/ e.device = d /\ ((e \in Comings <=> net[d] # {}) =>
                IF \E f \in probe'[i] : f.device = d THEN net[d] # {} ELSE cache'[i][d] = net[d]),
           UNCHANGED missed
    PROVE  Heard(i, d)'
<1> DEFINE q == queue[i]
           r == queue'[i]
<1>1. q \in Seq(Event) /\ q # <<>> /\ r = Tail(q) /\ e = Head(q)
  BY DEF Places, Reads
<1>2. /\ \A k \in 1..Len(q) : EventIsLast(q, d, k) => (q[k] \in Comings <=> net[d] # {})
      /\ NoEvent(q, d) => Known(i, d)
  BY DEF Heard
<1> HIDE DEF q, r
<1>3. /\ \A k \in 1..Len(r) : EventIsLast(r, d, k) =>
           EventIsLast(q, d, k + 1) /\ r[k] = q[k + 1] /\ k + 1 \in 1..Len(q)
      /\ NoEvent(r, d) =>
           \/ e.device # d /\ NoEvent(q, d)
           \/ e.device = d /\ EventIsLast(q, d, 1) /\ q[1] = e /\ 1 \in 1..Len(q)
  <2>1. Taken(q, e, r)
    BY <1>1, AppendAndTail
  <2>2. QED BY ONLY <2>1, EventTaken
<1>4. \A k \in 1..Len(r) : EventIsLast(r, d, k) => (r[k] \in Comings <=> net[d] # {})
  BY <1>2, <1>3
<1>5. NoEvent(r, d) =>
        IF \E f \in probe'[i] : f.device = d THEN net[d] # {} ELSE Known(i, d)'
  BY <1>2, <1>3 DEF Known
<1>6. QED BY <1>4, <1>5 DEF Heard, r, Comings

(* A message that says what the cache has become. *)
LEMMA SendListed ==
    ASSUME NEW i \in Task, NEW d \in Device, NEW m \in Message, Places,
           Appended(dch, m, dch'), UNCHANGED shown,
           Listed(i, d),
           IF m.id = Address(d) THEN m.present <=> cache'[i][d] # {}
                                ELSE cache'[i][d] = cache[i][d]
    PROVE  Listed(i, d)'
<1> DEFINE a == Address(d)
           r == dch'
<1>0. Appended(dch, m, r)
  OBVIOUS
<1> HIDE DEF a, r
<1>1. /\ \A k \in 1..Len(r) : MessageIsLast(r, a, k) =>
            /\ m.id = a => r[k] = m
            /\ m.id # a => MessageIsLast(dch, a, k) /\ r[k] = dch[k] /\ k \in 1..Len(dch)
      /\ NoMessage(r, a) => NoMessage(dch, a) /\ m.id # a
  BY ONLY <1>0, MessageAppended
<1>2. /\ \A k \in 1..Len(dch) : MessageIsLast(dch, a, k) => (dch[k].present <=> cache[i][d] # {})
      /\ NoMessage(dch, a) => (a \in shown <=> cache[i][d] # {})
  BY DEF Listed, a
<1>3. IF m.id = a THEN m.present <=> cache'[i][d] # {} ELSE cache'[i][d] = cache[i][d]
  BY DEF a
<1>4. /\ \A k \in 1..Len(r) : MessageIsLast(r, a, k) => (r[k].present <=> cache'[i][d] # {})
      /\ NoMessage(r, a) => (a \in shown' <=> cache'[i][d] # {})
  BY <1>1, <1>2, <1>3
<1>5. Listed(i, d)' <=>
      /\ \A k \in 1..Len(r) : MessageIsLast(r, a, k) => (r[k].present <=> cache'[i][d] # {})
      /\ NoMessage(r, a) => (a \in shown' <=> cache'[i][d] # {})
  BY DEF Listed, a, r, Address
<1>6. QED BY <1>4, <1>5

(* A message takes effect on the list. *)
LEMMA HandleListed ==
    ASSUME NEW i \in Task, NEW d \in Device, Places, HandleEndpointInfo, Listed(i, d)
    PROVE  Listed(i, d)'
<1> DEFINE a == Address(d)
           h == Head(dch)
<1>1. dch \in Seq(Message) /\ dch # <<>> /\ dch' = Tail(dch) /\ UNCHANGED cache
      /\ shown' = (IF h.present THEN shown \cup {h.id} ELSE shown \ {h.id})
  BY DEF Places, HandleEndpointInfo, taskVars, Applied
<1>2. /\ \A k \in 1..Len(dch) : MessageIsLast(dch, a, k) => (dch[k].present <=> cache[i][d] # {})
      /\ NoMessage(dch, a) => (a \in shown <=> cache[i][d] # {})
  BY DEF Listed
<1>3. Listed(i, d)' <=>
      /\ \A k \in 1..Len(dch') : MessageIsLast(dch', a, k) => (dch'[k].present <=> cache'[i][d] # {})
      /\ NoMessage(dch', a) => (a \in shown' <=> cache'[i][d] # {})
  BY DEF Listed, Address
<1> HIDE DEF a, h
<1>4. /\ \A k \in 1..Len(dch') : MessageIsLast(dch', a, k) =>
           MessageIsLast(dch, a, k + 1) /\ dch'[k] = dch[k + 1] /\ k + 1 \in 1..Len(dch)
      /\ NoMessage(dch', a) =>
           \/ h.id # a /\ NoMessage(dch, a)
           \/ h.id = a /\ MessageIsLast(dch, a, 1) /\ dch[1] = h /\ 1 \in 1..Len(dch)
  <2>1. Taken(dch, h, dch')
    BY <1>1, AppendAndTail DEF h
  <2>2. QED BY ONLY <2>1, MessageTaken
<1>5. \A k \in 1..Len(dch') : MessageIsLast(dch', a, k) => (dch'[k].present <=> cache'[i][d] # {})
  BY <1>1, <1>2, <1>4
<1>6. NoMessage(dch', a) => (a \in shown' <=> cache'[i][d] # {})
  BY <1>1, <1>2, <1>4
<1>7. QED BY <1>3, <1>5, <1>6

(* A new discovery begins with an empty list and hears of all that is there. *)
LEMMA BeginsInStep ==
    ASSUME EachHasItsAddress, Places, NEW i \in Task, SelectFiles(i),
           dch = <<>>, shown = {}
    PROVE  InStep(i)'
<1>1. PICK order \in SetToSeqs(Here) : queue' = [queue EXCEPT ![i] =
          [k \in 1..Len(order) |->
              Resolved(order[k], CHOOSE a \in Addr : a \in net[order[k]])]]
  BY DEF SelectFiles
<1>2. IsFiniteSet(Here)
  BY FS_Subset DEF Here, EachHasItsAddress
<1>3. /\ order \in Seq(Here) /\ Len(order) \in Nat
      /\ \A d \in Here : \E k \in 1..Len(order) : order[k] = d
      /\ \A j, k \in 1..Len(order) : order[j] = order[k] => j = k
  BY <1>2, OrderHasAll
<1>4. \A k \in 1..Len(order) : order[k] \in Here
  BY <1>3
<1> DEFINE q == queue'[i]
           R(k) == Resolved(order[k], CHOOSE a \in Addr : a \in net[order[k]])
<1>5. q = [k \in 1..Len(order) |-> R(k)]
  BY <1>1 DEF Places
<1>6. \A k \in 1..Len(order) : R(k).device = order[k] /\ R(k) \in Comings
  <2>1. SUFFICES ASSUME NEW k \in 1..Len(order)
                 PROVE  R(k).device = order[k] /\ R(k) \in Comings
    OBVIOUS
  <2>2. order[k] \in Device /\ net[order[k]] = {Address(order[k])}
    BY <1>4 DEF Here, Places
  <2>3. Address(order[k]) \in Addr
    BY <2>2, AddressesDiffer
  <2>4. (CHOOSE a \in Addr : a \in net[order[k]]) = Address(order[k])
    BY <2>2, <2>3
  <2>5. QED BY <2>2, <2>4 DEF Comings, Resolved
<1>7. Len(q) = Len(order) /\ \A k \in 1..Len(q) : q[k].device = order[k] /\ q[k] \in Comings
  <2> HIDE DEF R
  <2>1. QED BY <1>3, <1>5, <1>6
<1>8. UNCHANGED <<probe, cache, net, dch, shown>> /\ cache[i] = NoCache /\ probe[i] = {}
  BY DEF SelectFiles, netVars, Places
<1> SUFFICES ASSUME NEW d \in Device PROVE Heard(i, d)' /\ Listed(i, d)'
  BY DEF InStep
<1>9. Heard(i, d)'
  <2>1. \A k \in 1..Len(q) : EventIsLast(q, d, k) => (q[k] \in Comings <=> net[d] # {})
    <3> HIDE DEF q
    <3>1. QED BY <1>4, <1>7 DEF EventIsLast, Here
  <2>2. NoEvent(q, d) => net[d] = {}
    <3> HIDE DEF q
    <3>1. QED BY <1>3, <1>7 DEF NoEvent, Here
  <2>3. cache[i][d] = {}
    BY <1>8 DEF NoCache
  <2>4. QED BY <1>8, <2>1, <2>2, <2>3 DEF Heard, Known, Comings
<1>10. Listed(i, d)'
  <2>1. cache'[i][d] = {} /\ dch' = <<>> /\ shown' = {}
    BY <1>8 DEF NoCache
  <2>2. QED BY <2>1 DEF Listed, MessageIsLast
<1>11. QED BY <1>9, <1>10

(* What a task does keeps it in step. *)
LEMMA TaskStaysInStep ==
    ASSUME EachHasItsAddress, Places, NEW i \in Task, InStep(i), TaskStep(i)
    PROVE  InStep(i)'
<1> SUFFICES ASSUME NEW d \in Device PROVE Heard(i, d)' /\ Listed(i, d)'
  BY DEF InStep
<1>1. Heard(i, d) /\ Listed(i, d)
  BY DEF InStep
<1>2. \A e \in Device : Address(e) \in Addr
                     /\ \A f \in Device : Address(f) = Address(e) => f = e
  BY AddressesDiffer
<1>3. ASSUME NEW e, Reads(i, e)
      PROVE  e \in Event /\ e.device \in Device /\ probe[i] = {} /\ task[i] = "browsing"
             /\ (e \in Comings <=> e.type = "ServiceResolved")
             /\ (e \in Comings => e.addr = Address(e.device))
  <2>1. e \in Event /\ task[i] = "browsing"
    BY <1>3 DEF Reads, Places
  <2>2. QED BY <2>1, EventFacts DEF Places
<1>4. cache[i][d] \in {{}, {Address(d)}} /\ net[d] \in {{}, {Address(d)}}
  BY DEF Places
<1>5. CASE ReadCached(i)
  <2>1. PICK e : /\ Reads(i, e) /\ e.type = "ServiceResolved"
                 /\ cache[i][e.device] = {e.addr}
                 /\ UNCHANGED <<appVars, task, probe, cache, missed, dch, netVars>>
    BY <1>5 DEF ReadCached
  <2>2. UNCHANGED <<net, probe, cache, missed, dch, shown>>
    BY <2>1 DEF appVars, netVars
  <2>3. probe[i] = {} /\ probe'[i] = {} /\ e \in Comings
    BY <1>3, <2>1, <2>2
  <2>4. e.device = d => cache[i][d] = {Address(d)}
    BY <1>3, <2>1, <2>3
  <2>5. \/ e.device # d /\ cache'[i][d] = cache[i][d] /\ \A f \in probe'[i] : f.device # d
        \/ e.device = d /\ ((e \in Comings <=> net[d] # {}) =>
             IF \E f \in probe'[i] : f.device = d THEN net[d] # {} ELSE cache'[i][d] = net[d])
    BY <1>4, <2>2, <2>3, <2>4
  <2>6. Heard(i, d)'
    BY <1>1, <2>1, <2>2, <2>3, <2>5, ReadHeard
  <2>7. QED BY <1>1, <2>2, <2>6 DEF Listed, Address
<1>6. CASE ReadResolved(i)
  <2>1. PICK e : /\ Reads(i, e) /\ e.type = "ServiceResolved"
                 /\ probe' = [probe EXCEPT ![i] = {e}]
                 /\ UNCHANGED <<appVars, cache, missed, dch, netVars>>
    BY <1>6 DEF ReadResolved
  <2>2. UNCHANGED <<net, cache, missed, dch, shown>>
    BY <2>1 DEF appVars, netVars
  <2>3. probe[i] = {} /\ probe'[i] = {e} /\ e \in Comings
    BY <1>3, <2>1 DEF Places
  <2>4. \/ e.device # d /\ cache'[i][d] = cache[i][d] /\ \A f \in probe'[i] : f.device # d
        \/ e.device = d /\ ((e \in Comings <=> net[d] # {}) =>
             IF \E f \in probe'[i] : f.device = d THEN net[d] # {} ELSE cache'[i][d] = net[d])
    BY <2>2, <2>3
  <2>5. Heard(i, d)'
    BY <1>1, <2>1, <2>2, <2>3, <2>4, ReadHeard
  <2>6. QED BY <1>1, <2>2, <2>5 DEF Listed, Address
<1>7. CASE ReadRemoved(i)
  <2>1. PICK e : /\ Reads(i, e) /\ e.type = "ServiceRemoved"
                 /\ cache' = [cache EXCEPT ![i][e.device] = {}]
                 /\ dch' = dch \o SetToSeq({Absent(a) : a \in cache[i][e.device]})
                 /\ UNCHANGED <<appVars, task, probe, missed, netVars>>
    BY <1>7 DEF ReadRemoved
  <2>2. UNCHANGED <<net, probe, missed, shown>>
    BY <2>1 DEF appVars, netVars
  <2>3. probe[i] = {} /\ probe'[i] = {} /\ e \notin Comings /\ e.device \in Device
    BY <1>3, <2>1, <2>2
  <2>4. cache'[i][d] = IF e.device = d THEN {} ELSE cache[i][d]
    BY <2>1, <2>3 DEF Places
  <2>5. \/ e.device # d /\ cache'[i][d] = cache[i][d] /\ \A f \in probe'[i] : f.device # d
        \/ e.device = d /\ ((e \in Comings <=> net[d] # {}) =>
             IF \E f \in probe'[i] : f.device = d THEN net[d] # {} ELSE cache'[i][d] = net[d])
    BY <2>3, <2>4
  <2>6. Heard(i, d)'
    BY <1>1, <2>1, <2>2, <2>3, <2>5, ReadHeard
  <2>7. Listed(i, d)'
    <3>1. cache[i][e.device] \in {{}, {Address(e.device)}}
      BY <2>3 DEF Places
    <3>2. CASE cache[i][e.device] = {}
      <4>1. {Absent(a) : a \in cache[i][e.device]} = {}
        BY <3>2
      <4>2. dch' = dch \o <<>>
        BY <2>1, <4>1, OneOrNone
      <4>3. dch' = dch
        BY <4>2 DEF Places
      <4>4. cache'[i][d] = cache[i][d]
        BY <2>4, <3>2
      <4>5. QED BY <1>1, <2>2, <4>3, <4>4 DEF Listed, Address
    <3>3. CASE cache[i][e.device] = {Address(e.device)}
      <4> DEFINE m == Absent(Address(e.device))
      <4>1. {Absent(a) : a \in cache[i][e.device]} = {m}
        BY <3>3
      <4>2. m \in Message
        BY <2>3 DEF Message
      <4>3. dch' = dch \o <<m>>
        BY <2>1, <4>1, OneOrNone
      <4>4. Appended(dch, m, dch')
        <5> HIDE DEF m
        <5>1. dch' = Append(dch, m)
          BY <4>2, <4>3 DEF Places
        <5>2. QED BY <4>2, <5>1, AppendAndTail DEF Places
      <4>5. m.id = Address(e.device) /\ ~m.present
        BY MessageFacts
      <4>6. IF m.id = Address(d) THEN m.present <=> cache'[i][d] # {}
                                 ELSE cache'[i][d] = cache[i][d]
        <5> HIDE DEF m
        <5>1. QED BY <1>2, <2>3, <2>4, <4>5
      <4>7. QED
        <5> HIDE DEF m
        <5>1. QED BY <1>1, <2>2, <4>2, <4>4, <4>6, SendListed
    <3>4. QED BY <3>1, <3>2, <3>3
  <2>8. QED BY <2>6, <2>7
<1>8. CASE CheckSucceeds(i)
  <2>1. PICK e \in probe[i] :
            /\ probe' = [probe EXCEPT ![i] = {}]
            /\ cache' = [cache EXCEPT ![i][e.device] = {e.addr}]
            /\ missed' = [missed EXCEPT ![i] = @ \ {e.device}]
            /\ dch' = Append(dch, Present(e.addr))
            /\ UNCHANGED <<appVars, queue, netVars>>
    BY <1>8 DEF CheckSucceeds
  <2>2. UNCHANGED <<net, queue, shown>>
    BY <2>1 DEF appVars, netVars
  <2>3. probe[i] = {e} /\ probe'[i] = {} /\ e \in Comings
    <3>1. probe[i] \in {{}} \cup {{f} : f \in Comings}
      BY DEF Places
    <3>2. QED BY <2>1, <3>1 DEF Places
  <2>4. e.device \in Device /\ e.addr = Address(e.device)
    BY <2>3, EventFacts DEF Event
  <2>5. cache'[i][d] = IF e.device = d THEN {Address(d)} ELSE cache[i][d]
    BY <2>1, <2>4 DEF Places
  <2>6. Heard(i, d)'
    <3>1. ASSUME e.device = d, NoEvent(queue[i], d) PROVE Known(i, d)'
      <4>1. net[d] = {Address(d)}
        BY <1>1, <1>4, <2>3, <3>1 DEF Heard
      <4>2. QED BY <2>2, <2>5, <3>1, <4>1 DEF Known
    <3>2. ASSUME e.device # d, NoEvent(queue[i], d) PROVE Known(i, d)'
      <4>1. Known(i, d)
        BY <1>1, <2>3, <3>2 DEF Heard
      <4>2. d \in missed'[i] <=> d \in missed[i]
        BY <2>1, <3>2 DEF Places
      <4>3. QED BY <2>2, <2>5, <3>2, <4>1, <4>2 DEF Known
    <3>3. NoEvent(queue'[i], d) => Known(i, d)'
      BY <2>2, <3>1, <3>2
    <3>4. QED BY <1>1, <2>2, <2>3, <3>3 DEF Heard, Comings
  <2>7. Listed(i, d)'
    <3> DEFINE m == Present(Address(e.device))
    <3>1. m \in Message
      BY <2>4 DEF Message
    <3>2. Appended(dch, m, dch')
      <4>1. dch' = Append(dch, m)
        BY <2>1, <2>4
      <4>2. QED
        <5> HIDE DEF m
        <5>1. QED BY <3>1, <4>1, AppendAndTail DEF Places
    <3>3. m.id = Address(e.device) /\ m.present
      BY MessageFacts
    <3> HIDE DEF m
    <3>4. IF m.id = Address(d) THEN m.present <=> cache'[i][d] # {}
                               ELSE cache'[i][d] = cache[i][d]
      BY <1>2, <2>4, <2>5, <3>3
    <3>5. QED BY <1>1, <2>2, <3>1, <3>2, <3>4, SendListed
  <2>8. QED BY <2>6, <2>7
<1>9. CASE CheckFails(i)
  <2>1. PICK e \in probe[i] :
            /\ probe' = [probe EXCEPT ![i] = {}]
            /\ missed' = [missed EXCEPT ![i] = @ \cup {e.device}]
            /\ UNCHANGED <<appVars, queue, cache, dch, netVars>>
    BY <1>9 DEF CheckFails
  <2>2. UNCHANGED <<net, queue, cache, dch, shown>>
    BY <2>1 DEF appVars, netVars
  <2>3. probe[i] = {e} /\ probe'[i] = {} /\ e \in Comings
    <3>1. probe[i] \in {{}} \cup {{f} : f \in Comings}
      BY DEF Places
    <3>2. QED BY <2>1, <3>1 DEF Places
  <2>4. e.device \in Device /\ e.addr = Address(e.device)
    BY <2>3, EventFacts DEF Event
  <2>5. missed'[i] = missed[i] \cup {e.device}
    BY <2>1 DEF Places
  <2>6. Heard(i, d)'
    <3>1. ASSUME e.device = d PROVE Known(i, d)'
      <4>1. cache[i][d] = {}
        BY <2>3, <3>1 DEF Places
      <4>2. QED BY <2>2, <2>5, <3>1, <4>1 DEF Known
    <3>2. ASSUME e.device # d, NoEvent(queue[i], d) PROVE Known(i, d)'
      <4>1. Known(i, d)
        BY <1>1, <2>3, <3>2 DEF Heard
      <4>2. QED BY <2>2, <2>5, <4>1 DEF Known
    <3>3. NoEvent(queue'[i], d) => Known(i, d)'
      BY <2>2, <3>1, <3>2
    <3>4. QED BY <1>1, <2>2, <2>3, <3>3 DEF Heard, Comings
  <2>7. QED BY <1>1, <2>2, <2>6 DEF Listed, Address
<1>10. QED BY <1>5, <1>6, <1>7, <1>8, <1>9 DEF TaskStep

LEMMA ListInvStays ==
    ASSUME EachHasItsAddress, Tokens, ListInv, ~LeftOver, ~LeftOver', [DiscNext]_discVars
    PROVE  ListInv'
<1>1. Places /\ Places'
  BY PlacesStay DEF ListInv
<1> SUFFICES ASSUME mode' = "discovery"
             PROVE  \E i \in Task : ctk' = {i} /\ Live(i)' /\ InStep(i)'
  BY <1>1 DEF ListInv, Current
<1>2. ASSUME NEW i \in Task, SelectFiles(i)
      PROVE  ctk' = {i} /\ Live(i)' /\ InStep(i)'
  <2>1. mode = "other"
    <3>1. SUFFICES ASSUME mode = "discovery" PROVE FALSE
      BY DEF Tokens
    <3>2. PICK j \in Task : ctk = {j} /\ Live(j)
      BY <3>1 DEF ListInv, Current
    <3>3. j # i /\ Live(j)' /\ ctk' = {i} /\ mode' = "discovery"
      BY <1>2, <3>2 DEF SelectFiles, Live, Tokens
    <3>4. QED BY <3>3 DEF LeftOver
  <2>2. dch = <<>> /\ shown = {}
    BY <2>1 DEF LeftOver
  <2>3. InStep(i)'
    BY <1>1, <1>2, <2>2, BeginsInStep
  <2>4. QED BY <1>2, <2>3 DEF SelectFiles, Live, Tokens
<1>3. ASSUME \A i \in Task : ~SelectFiles(i)
      PROVE  \E i \in Task : ctk' = {i} /\ Live(i)' /\ InStep(i)'
  <2>1. mode = "discovery"
    <3>1. ASSUME NEW i \in Task, TaskStep(i) PROVE UNCHANGED mode
      BY <3>1 DEF TaskStep, ReadCached, ReadResolved, ReadRemoved, CheckSucceeds,
                  CheckFails, appVars
    <3>2. QED BY <1>3, <3>1
          DEF DiscNext, Vanish, Appear, OpenDialog, CloseDialog, StopDiscovery,
              HandleEndpointInfo, TaskEnds, discVars, appVars
  <2>2. PICK i \in Task : ctk = {i} /\ Live(i) /\ InStep(i)
    BY <2>1 DEF ListInv, Current
  <2>3. \A j \in Task : Live(j) => j = i /\ j \notin cancelled
    <3>1. i \notin cancelled
      BY <2>2 DEF Tokens
    <3>2. QED BY <2>1, <2>2, <3>1 DEF LeftOver
  <2>4. CASE UNCHANGED <<ctk, task, queue, probe, cache, missed, dch, shown, net>>
    <3>1. \A d \in Device : Heard(i, d)'
      BY <2>2, <2>4 DEF InStep, Heard, Known, Comings, Address
    <3>2. \A d \in Device : Listed(i, d)'
      BY <2>2, <2>4 DEF InStep, Listed, Address
    <3>3. QED BY <2>2, <2>4, <3>1, <3>2 DEF InStep, Live
  <2>5. ASSUME NEW d \in Device, Vanish(d) PROVE InStep(i)'
    <3>1. UNCHANGED <<probe, cache, missed, dch, shown>> /\ net' = [net EXCEPT ![d] = {}]
          /\ queue'[i] = Append(queue[i], Removed(d))
      BY <1>1, <2>2, <2>5 DEF Vanish, Tell, appVars, Places
    <3> DEFINE e == Removed(d)
    <3>2. e \in Event /\ e.device = d /\ e \notin Comings
      BY DEF Event, Comings, Removed, Resolved
    <3> HIDE DEF e
    <3>3. Appended(queue[i], e, queue'[i])
      <4>1. queue'[i] = Append(queue[i], e) /\ queue[i] \in Seq(Event)
        BY <1>1, <3>1 DEF e, Places
      <4>2. QED BY <3>2, <4>1, AppendAndTail
    <3>4. \A f \in Device : net'[f] = IF f = d THEN {} ELSE net[f]
      BY <1>1, <3>1 DEF Places
    <3>5. \A f \in Device : Heard(i, f)'
      <4>1. SUFFICES ASSUME NEW f \in Device PROVE Heard(i, f)'
        OBVIOUS
      <4>2. IF e.device = f THEN e \in Comings <=> net'[f] # {} ELSE net'[f] = net[f]
        BY <3>2, <3>4
      <4>3. QED BY <1>1, <2>2, <3>1, <3>2, <3>3, <4>2, TellHeard DEF InStep
    <3>6. QED BY <2>2, <3>1, <3>5 DEF InStep, Listed, Address
  <2>6. ASSUME NEW d \in Device, NEW a \in Addr, Appear(d, a) PROVE InStep(i)'
    <3> DEFINE e == Resolved(d, a)
    <3>1. UNCHANGED <<probe, cache, missed, dch, shown>> /\ net' = [net EXCEPT ![d] = {a}]
          /\ queue'[i] = Append(queue[i], e) /\ a = Address(d)
      BY <1>1, <2>2, <2>6, AddressesDiffer DEF Appear, Tell, appVars, Places
    <3>2. e \in Event /\ e.device = d /\ e \in Comings
      BY <3>1 DEF Event, Comings, Resolved
    <3> HIDE DEF e
    <3>3. Appended(queue[i], e, queue'[i])
      <4>1. queue'[i] = Append(queue[i], e) /\ queue[i] \in Seq(Event)
        BY <1>1, <3>1 DEF Places
      <4>2. QED BY <3>2, <4>1, AppendAndTail
    <3>4. \A f \in Device : net'[f] = IF f = d THEN {a} ELSE net[f]
      BY <1>1, <3>1 DEF Places
    <3>5. \A f \in Device : Heard(i, f)'
      <4>1. SUFFICES ASSUME NEW f \in Device PROVE Heard(i, f)'
        OBVIOUS
      <4>2. IF e.device = f THEN e \in Comings <=> net'[f] # {} ELSE net'[f] = net[f]
        BY <3>2, <3>4
      <4>3. QED BY <1>1, <2>2, <3>1, <3>2, <3>3, <4>2, TellHeard DEF InStep
    <3>6. QED BY <2>2, <3>1, <3>5 DEF InStep, Listed, Address
  <2>7. CASE HandleEndpointInfo
    <3>1. UNCHANGED <<ctk, task, queue, probe, cache, missed, net>>
      BY <2>7 DEF HandleEndpointInfo, taskVars, netVars
    <3>2. \A d \in Device : Listed(i, d)'
      BY <1>1, <2>2, <2>7, HandleListed DEF InStep
    <3>3. \A d \in Device : Heard(i, d)'
      BY <2>2, <3>1 DEF InStep, Heard, Known, Comings, Address
    <3>4. QED BY <2>2, <3>1, <3>2, <3>3 DEF InStep, Live
  <2>8. ASSUME NEW j \in Task, TaskStep(j)
        PROVE  ctk' = {i} /\ Live(i)' /\ InStep(i)'
    <3>1. Live(j)
      BY <2>8 DEF TaskStep, ReadCached, ReadResolved, ReadRemoved, Reads,
                  CheckSucceeds, CheckFails, Live
    <3>2. TaskStep(i) /\ j = i
      BY <2>3, <2>8, <3>1
    <3>3. InStep(i)'
      BY <1>1, <2>2, <3>2, TaskStaysInStep
    <3>4. ctk' = ctk
      BY <3>2 DEF TaskStep, ReadCached, ReadResolved, ReadRemoved, CheckSucceeds,
                  CheckFails, appVars
    <3>5. Live(i)'
      BY <2>2, <3>2 DEF TaskStep, ReadCached, ReadResolved, ReadRemoved, CheckSucceeds,
                  CheckFails, Live, Tokens
    <3>6. QED BY <2>2, <3>3, <3>4, <3>5
  <2>9. ASSUME NEW j \in Task, TaskEnds(j) PROVE FALSE
    BY <2>3, <2>9 DEF TaskEnds, Live
  <2>10. ~StopDiscovery
    BY DEF StopDiscovery
  <2>11. OpenDialog \/ CloseDialog \/ UNCHANGED discVars
            => UNCHANGED <<ctk, task, queue, probe, cache, missed, dch, shown, net>>
    BY DEF OpenDialog, CloseDialog, discVars, appVars, taskVars, netVars
  <2>12. ASSUME NEW d \in Device, Vanish(d) \/ \E a \in Addr : Appear(d, a)
         PROVE  ctk' = ctk /\ task' = task /\ InStep(i)'
    BY <2>5, <2>6, <2>12 DEF Vanish, Appear, appVars
  <2>13. QED
    BY <1>3, <2>2, <2>4, <2>7, <2>8, <2>9, <2>10, <2>11, <2>12 DEF DiscNext, Live
<1>4. QED BY <1>2, <1>3

LEMMA QuietIsTrue ==
    ASSUME EachHasItsAddress, ListInv, Quiet
    PROVE  ListIsTrue
<1>1. PICK i \in Task : ctk = {i} /\ Live(i) /\ InStep(i)
  BY DEF ListInv, Current, Quiet
<1>2. queue[i] = <<>> /\ probe[i] = {} /\ dch = <<>>
  BY <1>1 DEF Quiet
<1>3. \A d \in Device : Known(i, d)
  <2>1. \A d \in Device : Heard(i, d) /\ NoEvent(queue[i], d)
    BY <1>1, <1>2 DEF InStep, NoEvent
  <2>2. QED BY <1>2, <2>1 DEF Heard
<1>4. \A d \in Device : Address(d) \in shown <=> cache[i][d] # {}
  <2>1. \A d \in Device : Listed(i, d) /\ NoMessage(dch, Address(d))
    BY <1>1, <1>2 DEF InStep, NoMessage
  <2>2. QED BY <2>1 DEF Listed
<1>5. shown \subseteq {Address(d) : d \in Device}
      /\ \A d \in Device : net[d] \in {{}, {Address(d)}}
  BY DEF ListInv, Places
<1>6. shown \subseteq UNION {net[d] : d \in Device}
  <2>1. \A d \in Device : Address(d) \in shown => net[d] = {Address(d)}
    BY <1>3, <1>4, <1>5 DEF Known
  <2>2. QED BY <1>5, <2>1
<1>7. \A d \in Device : net[d] \subseteq shown \/ d \in missed[i]
  BY <1>3, <1>4, <1>5 DEF Known
<1>8. QED BY <1>1, <1>6, <1>7 DEF ListIsTrue

(* Whenever nothing is under way, all that the list names is there, and what *)
(* is there is listed but for devices that failed the last check made of     *)
(* them, as long as no discovery leaves anything over for another: for any   *)
(* number of discoveries, of dialogs open at once, and of devices that come  *)
(* and go and answer or do not.                                              *)
THEOREM QuietListIsTrue ==
    ASSUME EachHasItsAddress
    PROVE  DiscSpec => ListIsTrueWhenQuiet
<1>1. DiscInit => Tokens /\ ListInv
  <2>1. DiscInit => Tokens
    BY DEF DiscInit, Tokens, OnlyOvertakenBrowsesAreLost, Live, Doing
  <2>2. DiscInit => Places
    BY DEF DiscInit, Places, NoCache
  <2>3. DiscInit => Current
    BY DEF DiscInit, Current
  <2>4. QED BY <2>1, <2>2, <2>3 DEF ListInv
<1>2. Tokens /\ [DiscNext]_discVars => Tokens'
  BY TokensStay
<1>3. Tokens /\ ListInv /\ ~LeftOver /\ (~LeftOver)' /\ [DiscNext]_discVars => ListInv'
  BY ListInvStays
<1>4. ListInv => (Quiet => ListIsTrue)
  BY QuietIsTrue
<1>5. QED BY <1>1, <1>2, <1>3, <1>4, PTL DEF DiscSpec, ListIsTrueWhenQuiet
=============================================================================
