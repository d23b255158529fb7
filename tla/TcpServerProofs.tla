-------------------------- MODULE TcpServerProofs --------------------------
(***************************************************************************)
(* Theorems about TcpServer for any number of devices and send requests.   *)
(***************************************************************************)
EXTENDS TcpServer, WellFoundedInduction, TLAPS

(* A queue keeps its type when its first element is taken, and what is      *)
(* taken is of the type of its elements.                                    *)
LEMMA HeadAndTail ==
    ASSUME NEW S, NEW s \in Seq(S), s # <<>>
    PROVE  Head(s) \in S /\ Tail(s) \in Seq(S)
OBVIOUS

LEMMA AppendType ==
    ASSUME NEW S, NEW s \in Seq(S), NEW x \in S
    PROVE  Append(s, x) \in Seq(S)
OBVIOUS

(* A step of a device or between two of them; what [TcpNext]_tcpVars is but *)
(* for stuttering.                                                          *)
Step(p) ==
    \/ Loop(p) \/ Stop(p) \/ InboundEnds(p)
    \/ \E q \in Route[p] : Request(p, q)
    \/ \E q \in Peer : End(p, q)

LEMMA StepOrStutter ==
    ASSUME [TcpNext]_tcpVars
    PROVE  (\E p \in Peer : Step(p)) \/ UNCHANGED tcpVars
BY DEF TcpNext, Step

LEMMA StepKeepsTypes ==
    ASSUME TcpTypeOK, NEW p \in Peer, Step(p)
    PROVE  TcpTypeOK'
<1>1. ASSUME NEW q \in Route[p], Request(p, q) PROVE TcpTypeOK'
  <2>1. q \in Peer
    BY RouteAssumption
  <2>2. requests' \in [Peer -> Seq(Peer)]
    BY <1>1, <2>1 DEF Request, TcpTypeOK
  <2>3. asked' \in [Peer -> 0..MaxSends]
    BY <1>1, MaxSendsAssumption DEF Request, TcpTypeOK
  <2>4. QED BY <1>1, <2>2, <2>3 DEF Request, TcpTypeOK
<1>2. CASE Connect(p)
  <2>1. requests[p] \in Seq(Peer) /\ requests[p] # <<>> /\ target[p] = {}
    BY <1>2 DEF Connect, Selecting, TcpTypeOK
  <2>2. Head(requests[p]) \in Peer /\ Tail(requests[p]) \in Seq(Peer)
    BY <2>1, HeadAndTail
  <2>3. requests' \in [Peer -> Seq(Peer)]
    BY <1>2, <2>2 DEF Connect, TcpTypeOK
  <2> DEFINE q == Head(requests[p])
             One == {{}} \cup {{x} : x \in Peer}
  <2>4. target \in [Peer -> One] /\ backlog \in [Peer -> Seq(Peer)]
    BY DEF TcpTypeOK
  <2>5. target' \in [Peer -> One] /\ backlog' \in [Peer -> Seq(Peer)]
    <3>1. CASE q \in up
      <4>1. /\ target' = [target EXCEPT ![p] = @ \cup {q}]
            /\ backlog' = [backlog EXCEPT ![q] = Append(@, p)]
        BY <1>2, <3>1 DEF Connect
      <4>2. target[p] \cup {q} \in One
        BY <2>1, <2>2
      <4>3. Append(backlog[q], p) \in Seq(Peer)
        BY <2>2, <2>4
      <4>4. QED BY <2>4, <4>1, <4>2, <4>3
    <3>2. CASE q \notin up
      BY <1>2, <2>4, <3>2 DEF Connect
    <3>3. QED BY <3>1, <3>2
  <2>6. QED BY <1>2, <2>3, <2>5 DEF Connect, TcpTypeOK
<1>3. CASE Accept(p)
  <2>1. backlog[p] \in Seq(Peer) /\ backlog[p] # <<>>
    BY <1>3 DEF Accept, TcpTypeOK
  <2>2. Head(backlog[p]) \in Peer /\ Tail(backlog[p]) \in Seq(Peer)
    BY <2>1, HeadAndTail
  <2>3. QED BY <1>3, <2>2 DEF Accept, TcpTypeOK
<1>4. CASE ConnectFails(p)
  BY <1>4 DEF ConnectFails, TcpTypeOK
<1>5. CASE Stop(p)
  <2>1. requests' \in [Peer -> Seq(Peer)] /\ backlog' \in [Peer -> Seq(Peer)]
    <3>1. <<>> \in Seq(Peer)
      OBVIOUS
    <3>2. QED BY <1>5, <3>1 DEF Stop, TcpTypeOK
  <2>2. target' \in [Peer -> {{}} \cup {{q} : q \in Peer}]
    BY <1>5 DEF Stop, TcpTypeOK
  <2>3. QED BY <1>5, <2>1, <2>2 DEF Stop, TcpTypeOK
<1>6. CASE InboundEnds(p)
  BY <1>6 DEF InboundEnds, TcpTypeOK
<1>7. ASSUME NEW q \in Peer, End(p, q) PROVE TcpTypeOK'
  BY <1>7 DEF End, TcpTypeOK
<1>8. QED BY <1>1, <1>2, <1>3, <1>4, <1>5, <1>6, <1>7 DEF Step, Loop

(* The variables stay in their types: a device sends to one device at most. *)
THEOREM TcpTypeCorrect == TcpSpec => []TcpTypeOK
<1>1. TcpInit => TcpTypeOK
  BY MaxSendsAssumption DEF TcpInit, TcpTypeOK
<1>2. TcpTypeOK /\ [TcpNext]_tcpVars => TcpTypeOK'
  <2> SUFFICES ASSUME TcpTypeOK, [TcpNext]_tcpVars PROVE TcpTypeOK'
    OBVIOUS
  <2>1. CASE UNCHANGED tcpVars
    BY <2>1 DEF tcpVars, TcpTypeOK
  <2>2. QED BY <2>1, StepOrStutter, StepKeepsTypes
<1>3. QED BY <1>1, <1>2, PTL DEF TcpSpec

-----------------------------------------------------------------------------
(* Each device that is sending is known to its target: in its backlog, or   *)
(* with a task; so the end of either side reaches the other.                *)
NoLostConnection ==
    \A p, q \in Peer : target[p] = {q} /\ q \in up =>
        p \in inbound[q] \/ Waiting(p, q)

(* q knows that p connected to it. *)
Holds(q, p) == p \in inbound[q] \/ \E i \in 1..Len(backlog[q]) : backlog[q][i] = p

LEMMA InTheTailOrFirst ==
    ASSUME NEW S, NEW s \in Seq(S), s # <<>>, NEW i \in 1..Len(s)
    PROVE  s[i] = Head(s) \/ \E j \in 1..Len(Tail(s)) : Tail(s)[j] = s[i]
<1>1. CASE i = 1
  BY <1>1
<1>2. CASE i # 1
  <2>1. i - 1 \in 1..Len(Tail(s)) /\ Tail(s)[i - 1] = s[i]
    BY <1>2
  <2>2. QED BY <2>1
<1>3. QED BY <1>1, <1>2

LEMMA StepKeepsConnections ==
    ASSUME TcpTypeOK, NoLostConnection, NEW p \in Peer, Step(p)
    PROVE  NoLostConnection'
<1> SUFFICES ASSUME NEW a \in Peer, NEW b \in Peer, target'[a] = {b}, b \in up'
             PROVE  Holds(b, a)'
  BY DEF NoLostConnection, Waiting, Holds
<1>1. ASSUME target[a] = {b}, b \in up PROVE Holds(b, a)
  BY <1>1 DEF NoLostConnection, Waiting, Holds
<1>2. ASSUME NEW q \in Route[p], Request(p, q) PROVE Holds(b, a)'
  BY <1>1, <1>2 DEF Request, Holds
<1>3. CASE Connect(p)
  <2> DEFINE q == Head(requests[p])
  <2>1. backlog \in [Peer -> Seq(Peer)] /\ up' = up /\ inbound' = inbound
        /\ requests[p] \in Seq(Peer) /\ requests[p] # <<>> /\ target[p] = {}
        /\ target \in [Peer -> {{}} \cup {{x} : x \in Peer}]
    BY <1>3 DEF Connect, Selecting, TcpTypeOK
  <2>2. q \in Peer
    BY <2>1, HeadAndTail
  <2>3. CASE q \notin up
    BY <1>1, <1>3, <2>1, <2>3 DEF Connect, Holds
  <2>4. CASE q \in up
    <3>1. /\ target' = [target EXCEPT ![p] = @ \cup {q}]
          /\ backlog' = [backlog EXCEPT ![q] = Append(@, p)]
      BY <1>3, <2>4 DEF Connect
    <3>2. CASE a = p
      <4>1. b = q
        BY <2>1, <3>1, <3>2
      <4>2. backlog'[q] = Append(backlog[q], p) /\ backlog[q] \in Seq(Peer)
        BY <2>1, <2>2, <3>1
      <4>3. /\ Len(backlog[q]) + 1 \in 1..Len(backlog'[q])
            /\ backlog'[q][Len(backlog[q]) + 1] = p
        BY <4>2
      <4>4. QED BY <3>2, <4>1, <4>3 DEF Holds
    <3>3. CASE a # p
      <4>1. Holds(b, a)
        BY <1>1, <2>1, <3>1, <3>3
      <4>2. CASE a \in inbound[b]
        BY <2>1, <4>2 DEF Holds
      <4>3. ASSUME NEW i \in 1..Len(backlog[b]), backlog[b][i] = a PROVE Holds(b, a)'
        <5>1. backlog[b] \in Seq(Peer)
          BY <2>1
        <5>2. i \in 1..Len(backlog'[b]) /\ backlog'[b][i] = a
          <6>1. CASE b = q
            <7>1. backlog'[b] = Append(backlog[b], p)
              BY <2>1, <3>1, <6>1
            <7>2. QED BY <4>3, <5>1, <7>1
          <6>2. CASE b # q
            BY <2>1, <3>1, <4>3, <6>2
          <6>3. QED BY <6>1, <6>2
        <5>3. QED BY <5>2 DEF Holds
      <4>4. QED BY <4>1, <4>2, <4>3 DEF Holds
    <3>4. QED BY <3>2, <3>3
  <2>5. QED BY <2>3, <2>4
<1>4. CASE Accept(p)
  <2>1. Holds(b, a) /\ backlog[p] \in Seq(Peer) /\ backlog[p] # <<>>
    BY <1>1, <1>4 DEF Accept, TcpTypeOK
  <2>2. /\ backlog' = [backlog EXCEPT ![p] = Tail(@)]
        /\ inbound' = [inbound EXCEPT ![p] = @ \cup {Head(backlog[p])}]
        /\ backlog \in [Peer -> Seq(Peer)] /\ inbound \in [Peer -> SUBSET Peer]
    BY <1>4 DEF Accept, TcpTypeOK
  <2>3. CASE b # p
    BY <2>1, <2>2, <2>3 DEF Holds
  <2>4. CASE b = p
    <3>1. CASE a \in inbound[p]
      BY <2>2, <2>4, <3>1 DEF Holds
    <3>2. ASSUME NEW i \in 1..Len(backlog[p]), backlog[p][i] = a PROVE Holds(b, a)'
      <4>1. a = Head(backlog[p])
              \/ \E j \in 1..Len(Tail(backlog[p])) : Tail(backlog[p])[j] = a
        BY <2>1, <3>2, InTheTailOrFirst
      <4>2. backlog'[p] = Tail(backlog[p]) /\ Head(backlog[p]) \in inbound'[p]
        BY <2>2
      <4>3. QED BY <2>4, <4>1, <4>2 DEF Holds
    <3>3. QED BY <2>1, <2>4, <3>1, <3>2 DEF Holds
  <2>5. QED BY <2>3, <2>4
<1>5. CASE ConnectFails(p)
  <2>1. target[a] = {b} /\ UNCHANGED <<up, backlog, inbound>>
    BY <1>5 DEF ConnectFails, TcpTypeOK
  <2>2. QED BY <1>1, <2>1 DEF Holds
<1>6. CASE Stop(p)
  <2>1. target[a] = {b} /\ b \in up /\ b # p
    BY <1>6 DEF Stop, TcpTypeOK
  <2>2. QED BY <1>1, <1>6, <2>1 DEF Stop, Holds, TcpTypeOK
<1>7. CASE InboundEnds(p)
  <2>1. PICK x \in inbound[p] : /\ target[x] # {p}
                               /\ inbound' = [inbound EXCEPT ![p] = @ \ {x}]
                               /\ UNCHANGED <<up, target, backlog>>
    BY <1>7 DEF InboundEnds
  <2>2. Holds(b, a) /\ ~(a = x /\ b = p)
    BY <1>1, <2>1
  <2>3. a \in inbound[b] => a \in inbound'[b]
    BY <2>1, <2>2 DEF TcpTypeOK
  <2>4. QED BY <2>1, <2>2, <2>3 DEF Holds
<1>8. ASSUME NEW q \in Peer, End(p, q) PROVE Holds(b, a)'
  <2>1. /\ target[a] = {b} /\ a # p /\ UNCHANGED <<up, backlog>>
        /\ inbound' = [inbound EXCEPT ![q] = @ \ {p}]
    BY <1>8 DEF End, TcpTypeOK
  <2>2. Holds(b, a)
    BY <1>1, <2>1
  <2>3. a \in inbound[b] => a \in inbound'[b]
    BY <2>1 DEF TcpTypeOK
  <2>4. QED BY <2>1, <2>2, <2>3 DEF Holds
<1>9. QED BY <1>2, <1>3, <1>4, <1>5, <1>6, <1>7, <1>8 DEF Step, Loop

(* However devices send to each other and stop, one that is sending to a    *)
(* device that runs is known there, in the backlog or with a task: the      *)
(* end of either side will reach the other.                                 *)
THEOREM ConnectionsAreKnown == TcpSpec => []NoLostConnection
<1>1. TcpInit => NoLostConnection
  BY DEF TcpInit, NoLostConnection
<1>2. TcpTypeOK /\ NoLostConnection /\ [TcpNext]_tcpVars => NoLostConnection'
  <2> SUFFICES ASSUME TcpTypeOK, NoLostConnection, [TcpNext]_tcpVars
               PROVE  NoLostConnection'
    OBVIOUS
  <2>1. CASE UNCHANGED tcpVars
    BY <2>1 DEF tcpVars, NoLostConnection, Waiting
  <2>2. QED BY <2>1, StepOrStutter, StepKeepsConnections
<1>3. QED BY <1>1, <1>2, TcpTypeCorrect, PTL DEF TcpSpec

-----------------------------------------------------------------------------
(* Where there is no circle of senders. *)

(* Whom a device sends to or is to send to is on its route, and only a      *)
(* device that runs has connections to accept.                              *)
Routed ==
    /\ \A p \in Peer : target[p] \subseteq Route[p] /\ requests[p] \in Seq(Route[p])
    /\ \A p \in Peer : backlog[p] # <<>> => p \in up

LEMMA StepKeepsRouted ==
    ASSUME TcpTypeOK, Routed, NEW p \in Peer, Step(p)
    PROVE  Routed'
<1> SUFFICES ASSUME NEW a \in Peer
             PROVE  /\ target'[a] \subseteq Route[a] /\ requests'[a] \in Seq(Route[a])
                    /\ backlog'[a] # <<>> => a \in up'
  BY DEF Routed
<1>0. /\ target[a] \subseteq Route[a] /\ requests[a] \in Seq(Route[a])
      /\ backlog[a] # <<>> => a \in up
      /\ requests \in [Peer -> Seq(Peer)] /\ backlog \in [Peer -> Seq(Peer)]
      /\ target \in [Peer -> {{}} \cup {{q} : q \in Peer}]
  BY DEF Routed, TcpTypeOK
<1>1. ASSUME NEW q \in Route[p], Request(p, q)
      PROVE  /\ target'[a] \subseteq Route[a] /\ requests'[a] \in Seq(Route[a])
             /\ backlog'[a] # <<>> => a \in up'
  <2>1. requests[p] \in Seq(Route[p]) => Append(requests[p], q) \in Seq(Route[p])
    BY AppendType
  <2>2. QED BY <1>0, <1>1, <2>1 DEF Request
<1>2. CASE Connect(p)
  <2> DEFINE q == Head(requests[p])
  <2>1. requests[p] \in Seq(Route[p]) /\ requests[p] # <<>> /\ target[p] = {}
    BY <1>2 DEF Connect, Selecting, Routed
  <2>2. q \in Route[p] /\ Tail(requests[p]) \in Seq(Route[p]) /\ q \in Peer
    BY <2>1, HeadAndTail, RouteAssumption
  <2>3. requests'[a] \in Seq(Route[a])
    BY <1>0, <1>2, <2>2 DEF Connect
  <2>4. CASE q \in up
    <3>1. /\ target' = [target EXCEPT ![p] = @ \cup {q}]
          /\ backlog' = [backlog EXCEPT ![q] = Append(@, p)] /\ up' = up
      BY <1>2, <2>4 DEF Connect
    <3>2. target'[a] \subseteq Route[a]
      BY <1>0, <2>1, <2>2, <3>1
    <3>3. backlog'[a] # <<>> => a \in up
      BY <1>0, <2>4, <3>1
    <3>4. QED BY <2>3, <3>1, <3>2, <3>3
  <2>5. CASE q \notin up
    BY <1>0, <1>2, <2>3, <2>5 DEF Connect
  <2>6. QED BY <2>4, <2>5
<1>3. CASE Accept(p)
  BY <1>0, <1>3 DEF Accept
<1>4. CASE ConnectFails(p)
  BY <1>0, <1>4 DEF ConnectFails
<1>5. CASE Stop(p)
  <2>1. <<>> \in Seq(Route[a])
    OBVIOUS
  <2>2. QED BY <1>0, <1>5, <2>1 DEF Stop
<1>6. CASE InboundEnds(p)
  BY <1>0, <1>6 DEF InboundEnds
<1>7. ASSUME NEW q \in Peer, End(p, q)
      PROVE  /\ target'[a] \subseteq Route[a] /\ requests'[a] \in Seq(Route[a])
             /\ backlog'[a] # <<>> => a \in up'
  BY <1>0, <1>7 DEF End
<1>8. QED BY <1>1, <1>2, <1>3, <1>4, <1>5, <1>6, <1>7 DEF Step, Loop

(* A set of naturals that is not empty has a least element. *)
LEMMA LeastNatural ==
    ASSUME NEW S \in SUBSET Nat, S # {}
    PROVE  \E k \in S : \A j \in S : k <= j
<1>1. PICK k \in S : \A j \in S : ~(<<j, k>> \in OpToRel(<, Nat))
  BY WFMin, NatLessThanWellFounded
<1>2. \A j \in S : ~(j < k)
  BY <1>1 DEF OpToRel
<1>3. QED BY <1>2

(* Of those that wait, and are waited for, in D the one of the least rank   *)
(* can go on: what it waits for itself would be of a lesser rank.           *)
LEMMA TheLastCanGoOn ==
    ASSUME TcpTypeOK, NoLostConnection, Routed, NEW Rank \in [Peer -> Nat],
           \A p \in Peer : \A q \in Route[p] : Rank[q] < Rank[p]
    PROVE  WaitingLeadsSomewhere
<1> SUFFICES ASSUME NEW D \in SUBSET Peer, Follows(D),
                    NEW a \in D, NEW b \in Peer, Waiting(a, b)
             PROVE  \E r \in D : CanGoOn(r)
  BY DEF WaitingLeadsSomewhere
<1> DEFINE Awaited == {q \in D : \E p \in D : Waiting(p, q)}
           Ranks == {Rank[q] : q \in Awaited}
<1>1. b \in Awaited
  BY DEF Follows
<1>2. Ranks \in SUBSET Nat /\ Ranks # {}
  BY <1>1
<1>3. PICK q \in Awaited : \A s \in Awaited : Rank[q] <= Rank[s]
  <2>1. PICK k \in Ranks : \A j \in Ranks : k <= j
    <3> HIDE DEF Ranks
    <3>1. QED BY <1>2, LeastNatural
  <2>2. QED BY <2>1
<1>4. q \in D /\ q \in Peer /\ backlog[q] # <<>> /\ q \in up
  <2>1. PICK p \in D : Waiting(p, q)
    OBVIOUS
  <2>2. backlog[q] # <<>>
    BY <2>1 DEF Waiting
  <2>3. QED BY <2>2 DEF Routed
<1>5. CASE target[q] = {}
  BY <1>4, <1>5 DEF CanGoOn, Selecting
<1>6. ASSUME NEW s \in Peer, target[q] = {s} PROVE CanGoOn(q)
  <2>1. CASE s \notin up \/ q \in inbound[s]
    BY <1>6, <2>1 DEF CanGoOn
  <2>2. CASE s \in up /\ q \notin inbound[s]
    <3>1. Waiting(q, s)
      BY <1>4, <1>6, <2>2 DEF NoLostConnection
    <3>2. s \in Awaited
      BY <1>4, <3>1 DEF Follows
    <3>3. s \in Route[q]
      BY <1>4, <1>6 DEF Routed
    <3>4. Rank[s] < Rank[q] /\ Rank[q] <= Rank[s] /\ Rank[s] \in Nat /\ Rank[q] \in Nat
      BY <1>3, <1>4, <3>2, <3>3
    <3>5. QED BY <3>4
  <2>3. QED BY <2>1, <2>2
<1>7. QED BY <1>4, <1>5, <1>6 DEF TcpTypeOK

(* Where devices do not send in a circle, nobody waits in vain, however     *)
(* many they are and whatever stops: TcpServer::run is kept from accepting  *)
(* by its own connect() alone, and somewhere down the line a loop is free   *)
(* or a transfer is under way.                                              *)
THEOREM NobodyWaitsInVain ==
    ASSUME NEW Rank \in [Peer -> Nat],
           \A p \in Peer : \A q \in Route[p] : Rank[q] < Rank[p]
    PROVE  TcpSpec => []WaitingLeadsSomewhere
<1>1. TcpInit => Routed
  <2>1. \A p \in Peer : <<>> \in Seq(Route[p])
    OBVIOUS
  <2>2. QED BY <2>1 DEF TcpInit, Routed
<1>2. TcpTypeOK /\ Routed /\ [TcpNext]_tcpVars => Routed'
  <2> SUFFICES ASSUME TcpTypeOK, Routed, [TcpNext]_tcpVars PROVE Routed'
    OBVIOUS
  <2>1. CASE UNCHANGED tcpVars
    BY <2>1 DEF tcpVars, Routed
  <2>2. QED BY <2>1, StepOrStutter, StepKeepsRouted
<1>3. TcpTypeOK /\ NoLostConnection /\ Routed => WaitingLeadsSomewhere
  BY TheLastCanGoOn
<1>4. QED BY <1>1, <1>2, <1>3, TcpTypeCorrect, ConnectionsAreKnown, PTL DEF TcpSpec
=============================================================================
