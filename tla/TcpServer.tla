----------------------------- MODULE TcpServer -----------------------------
(***************************************************************************)
(* TcpServer::run on several devices (manager.rs).  Its loop selects       *)
(* between its token, the send requests of the front end and the listening *)
(* socket; an inbound connection gets a task of its own, but an outbound   *)
(* one is awaited inside the loop.  What happens on an accepted connection *)
(* is the subject of Connection: here it only ends.                        *)
(***************************************************************************)
EXTENDS Integers, Sequences, FiniteSets

CONSTANTS
    Peer,       \* the devices
    Route,      \* Route[p]: the devices p sends to
    MaxSends    \* bound on the send requests of one device

ASSUME RouteAssumption ==
    /\ Route \in [Peer -> SUBSET Peer]
    /\ \A p \in Peer : p \notin Route[p]
ASSUME MaxSendsAssumption == MaxSends \in Nat

VARIABLES
    up,         \* the devices whose loop has not been stopped
    requests,   \* connect_receiver: the targets of the pending send requests
    target,     \* where connect() is sending to from inside the loop, if anywhere
    backlog,    \* connections the kernel completed and the loop has not accepted
    inbound,    \* the peers that have a spawned InboundRequest task here
    asked       \* how many send requests each device has made

tcpVars == <<up, requests, target, backlog, inbound, asked>>

TcpInit ==
    /\ up = Peer
    /\ requests = [p \in Peer |-> <<>>]
    /\ target = [p \in Peer |-> {}]
    /\ backlog = [p \in Peer |-> <<>>]
    /\ inbound = [p \in Peer |-> {}]
    /\ asked = [p \in Peer |-> 0]

(* AppState::send_to_device *)
Request(p, q) ==
    /\ p \in up /\ asked[p] < MaxSends
    /\ requests' = [requests EXCEPT ![p] = Append(@, q)]
    /\ asked' = [asked EXCEPT ![p] = @ + 1]
    /\ UNCHANGED <<up, target, backlog, inbound>>

(* The loop is at its select!. *)
Selecting(p) == p \in up /\ target[p] = {}

(* The kernel of the target completes the connection: connect() returns     *)
(* from TcpStream::connect, writes its two frames and waits for the answer. *)
Connect(p) ==
    /\ Selecting(p) /\ requests[p] # <<>>
    /\ requests' = [requests EXCEPT ![p] = Tail(@)]
    /\ LET q == Head(requests[p]) IN
         IF q \in up
           THEN /\ target' = [target EXCEPT ![p] = @ \cup {q}]
                /\ backlog' = [backlog EXCEPT ![q] = Append(@, p)]
           ELSE UNCHANGED <<target, backlog>>
    /\ UNCHANGED <<up, inbound, asked>>

(* Mutant of Accept: what else is in the backlog is dropped. *)
AcceptOnlyOne(p) ==
    /\ Selecting(p) /\ backlog[p] # <<>>
    /\ backlog' = [backlog EXCEPT ![p] = <<>>]
    /\ inbound' = [inbound EXCEPT ![p] = @ \cup {Head(backlog[p])}]
    /\ UNCHANGED <<up, requests, target, asked>>

(* The loop accepts a connection and spawns the task that serves it. *)
Accept(p) ==
    /\ Selecting(p) /\ backlog[p] # <<>>
    /\ backlog' = [backlog EXCEPT ![p] = Tail(@)]
    /\ inbound' = [inbound EXCEPT ![p] = @ \cup {Head(backlog[p])}]
    /\ UNCHANGED <<up, requests, target, asked>>

(* Mutant of End: connect() does not return when the transfer is over. *)
EndUnnoticed(p, q) ==
    /\ target[p] = {q} /\ p \in inbound[q]
    /\ inbound' = [inbound EXCEPT ![q] = @ \ {p}]
    /\ UNCHANGED <<up, requests, target, backlog, asked>>

(* A transfer from p to q is over on both ends, however it went. *)
End(p, q) ==
    /\ target[p] = {q} /\ p \in inbound[q]
    /\ target' = [target EXCEPT ![p] = {}]
    /\ inbound' = [inbound EXCEPT ![q] = @ \ {p}]
    /\ UNCHANGED <<up, requests, backlog, asked>>

(* The peer's listening socket was closed with this connection unaccepted. *)
ConnectFails(p) ==
    /\ target[p] # {} /\ \A q \in target[p] : q \notin up /\ p \notin inbound[q]
    /\ target' = [target EXCEPT ![p] = {}]
    /\ UNCHANGED <<up, requests, backlog, inbound, asked>>

(* The token is cancelled, or accept() fails: the loop breaks, inside       *)
(* connect() too, and the listening socket goes; the spawned inbound tasks  *)
(* go on on their own.                                                      *)
Stop(p) ==
    /\ p \in up
    /\ up' = up \ {p}
    /\ target' = [target EXCEPT ![p] = {}]
    /\ backlog' = [backlog EXCEPT ![p] = <<>>]
    /\ requests' = [requests EXCEPT ![p] = <<>>]
    /\ UNCHANGED <<inbound, asked>>

(* An inbound task whose peer dropped the connection reads end-of-file. *)
InboundEnds(q) ==
    \E p \in inbound[q] :
        /\ target[p] # {q}
        /\ inbound' = [inbound EXCEPT ![q] = @ \ {p}]
        /\ UNCHANGED <<up, requests, target, backlog, asked>>

Loop(p) == Connect(p) \/ Accept(p) \/ ConnectFails(p)

Settled ==
    \A p \in Peer : target[p] = {} /\ backlog[p] = <<>> /\ requests[p] = <<>>
                      /\ inbound[p] = {} /\ (p \in up => asked[p] = MaxSends)

TcpNext ==
    \/ \E p \in Peer : \/ Loop(p) \/ Stop(p) \/ InboundEnds(p)
                       \/ \E q \in Route[p] : Request(p, q)
                       \/ \E q \in Peer : End(p, q)
    \/ Settled /\ UNCHANGED tcpVars

TcpSpec == TcpInit /\ [][TcpNext]_tcpVars

(* The loop takes a branch whenever one is ready; every accepted transfer   *)
(* ends, which is what Connection shows when its users answer.              *)
TcpFairness ==
    \A p \in Peer :
        /\ WF_tcpVars(Loop(p)) /\ WF_tcpVars(InboundEnds(p))
        /\ \A q \in Peer : WF_tcpVars(End(p, q))

TcpFairSpec == TcpSpec /\ TcpFairness

TcpTypeOK ==
    /\ up \subseteq Peer
    /\ requests \in [Peer -> Seq(Peer)] /\ backlog \in [Peer -> Seq(Peer)]
    /\ target \in [Peer -> {{}} \cup {{q} : q \in Peer}]
    /\ inbound \in [Peer -> SUBSET Peer]
    /\ asked \in [Peer -> 0..MaxSends]

-----------------------------------------------------------------------------
Waiting(p, q) == target[p] = {q} /\ \E i \in 1..Len(backlog[q]) : backlog[q][i] = p

(* A device that was sent to answers: its loop accepts the connection, so   *)
(* the transfer can be offered to its user, or it is stopped.  The loop can *)
(* do so only when it is not inside connect() itself.                       *)
EveryConnectionIsAnswered ==
    \A p, q \in Peer : Waiting(p, q) ~> ~Waiting(p, q)

(* A device that can take a step for those that wait for it: it can accept  *)
(* a connection, its own is being served, or was refused.                   *)
CanGoOn(q) ==
    \/ Selecting(q) /\ backlog[q] # <<>>
    \/ \E r \in target[q] : q \in inbound[r] \/ r \notin up

(* Nobody waits in vain: whoever waits, waits for a device that can go on,  *)
(* or that itself waits for one that can, or for one further on.            *)
(* Follows(D): with a device, D has the one that it waits for.              *)
Follows(D) == \A p \in D, q \in Peer : Waiting(p, q) => q \in D

WaitingLeadsSomewhere ==
    \A D \in SUBSET Peer :
        Follows(D) /\ (\E p \in D, q \in Peer : Waiting(p, q)) => \E r \in D : CanGoOn(r)
=============================================================================
