----------------------------- MODULE Discovery -----------------------------
(***************************************************************************)
(* How the front end comes to list nearby devices: AppState starts and     *)
(* ends a discovery (state.rs, lib.rs), each discovery is a task that      *)
(* browses by mDNS and tries every address it resolves before it announces *)
(* it (hdl/mdns_discovery.rs), and what the tasks announce reaches the     *)
(* list through one channel.                                               *)
(***************************************************************************)
EXTENDS Integers, SequencesExt

CONSTANTS
    Device,         \* the other devices, by fullname
    Addr,           \* the addresses ip:port; an EndpointInfo's id
    Home,           \* Home[d]: the addresses d may have
    MaxTasks,       \* bound on the discoveries started
    MaxDialogs,     \* how many file dialogs may be open at once
    MaxChanges      \* bound on the changes of the network

ASSUME HomeAssumption == Home \in [Device -> SUBSET Addr]
ASSUME BoundsAssumption == MaxTasks \in Nat /\ MaxDialogs \in Nat /\ MaxChanges \in Nat

Task == 1..MaxTasks

VARIABLES
    mode,           \* content_mode: Discovery or another
    dialogs,        \* file dialogs the user has open
    ctk,            \* discovery_ctk: the task whose token RQS holds, if any
    cancelled,      \* the tasks whose token is cancelled
    again,          \* the tasks started while another was looked at already
    task,           \* what each task is doing
    queue,          \* the browse events each task has not read
    probe,          \* the address each task is trying
    cache,          \* each task's cache: the address of each fullname
    missed,         \* the devices each task's last check of which has failed
    dch,            \* the EndpointInfo messages not handled yet
    shown,          \* discovered_devices, by id
    net,            \* the address each device announces by mDNS, if any
    changes         \* how often the network has changed

appVars == <<mode, dialogs, ctk, cancelled, again, shown>>
taskVars == <<task, queue, probe, cache, missed>>
netVars == <<net, changes>>
discVars == <<appVars, taskVars, dch, netVars>>

Resolved(d, a) == [type |-> "ServiceResolved", device |-> d, addr |-> a]
Removed(d) == [type |-> "ServiceRemoved", device |-> d]
Present(a) == [id |-> a, present |-> TRUE]
Absent(a) == [id |-> a, present |-> FALSE]

NoCache == [d \in Device |-> {}]

DiscInit ==
    /\ mode = "other" /\ dialogs = 0
    /\ ctk = {} /\ cancelled = {} /\ again = {}
    /\ task = [i \in Task |-> "none"]
    /\ queue = [i \in Task |-> <<>>]
    /\ probe = [i \in Task |-> {}]
    /\ cache = [i \in Task |-> NoCache]
    /\ missed = [i \in Task |-> {}]
    /\ dch = <<>> /\ shown = {}
    /\ net = NoCache /\ changes = 0

Live(i) == task[i] \in {"browsing", "checking"}

-----------------------------------------------------------------------------
(* The network; mDNS tells every browse of each change, in order. *)

Tell(event) == queue' = [i \in Task |-> IF Live(i) THEN Append(queue[i], event)
                                                   ELSE queue[i]]

(* A device announces itself: for the first time, again (every 15 s), or   *)
(* with another address.                                                   *)
Appear(d, a) ==
    /\ changes < MaxChanges /\ changes' = changes + 1
    /\ a \in Home[d]
    /\ net' = [net EXCEPT ![d] = {a}]
    /\ Tell(Resolved(d, a))
    /\ UNCHANGED <<appVars, task, probe, cache, missed, dch>>

Vanish(d) ==
    /\ changes < MaxChanges /\ changes' = changes + 1
    /\ net[d] # {}
    /\ net' = [net EXCEPT ![d] = {}]
    /\ Tell(Removed(d))
    /\ UNCHANGED <<appVars, task, probe, cache, missed, dch>>

-----------------------------------------------------------------------------
(* The front end. *)

(* The "Select Files" button, which opens a dialog of its own task. *)
OpenDialog ==
    /\ mode = "other" /\ dialogs < MaxDialogs
    /\ dialogs' = dialogs + 1
    /\ UNCHANGED <<mode, ctk, cancelled, again, shown, taskVars, dch, netVars>>

CloseDialog ==
    /\ dialogs > 0 /\ dialogs' = dialogs - 1
    /\ UNCHANGED <<mode, ctk, cancelled, again, shown, taskVars, dch, netVars>>

Here == {d \in Device : net[d] # {}}

(* AppState::select_files and RQS::discovery: a new task, told at first of *)
(* the devices that are there, and its token in place of the last one,     *)
(* which nothing holds any more if its browse is still under way: so when  *)
(* two dialogs were open.                                                  *)
SelectFiles(i) ==
    /\ dialogs > 0 /\ dialogs' = dialogs - 1
    /\ task[i] = "none" /\ \A j \in Task : j < i => task[j] # "none"
    /\ mode' = "discovery"
    /\ ctk' = {i}
    /\ again' = IF mode = "discovery" THEN again \cup {i} ELSE again
    /\ task' = [task EXCEPT ![i] = "browsing"]
    /\ \E order \in SetToSeqs(Here) :
        queue' = [queue EXCEPT ![i] =
            [k \in 1..Len(order) |->
                Resolved(order[k], CHOOSE a \in Addr : a \in net[order[k]])]]
    /\ UNCHANGED <<cancelled, shown, probe, cache, missed, dch, netVars>>

(* Mutant of StopDiscovery: the token is dropped and not cancelled. *)
StopQuietly ==
    /\ mode = "discovery" /\ mode' = "other"
    /\ ctk' = {} /\ shown' = {}
    /\ UNCHANGED <<dialogs, cancelled, again, taskVars, dch, netVars>>

(* cancel_send and send_to_device, by AppState::stop_discovery. *)
StopDiscovery ==
    /\ mode = "discovery" /\ mode' = "other"
    /\ cancelled' = cancelled \cup ctk
    /\ ctk' = {} /\ shown' = {}
    /\ UNCHANGED <<dialogs, again, taskVars, dch, netVars>>

Applied(list, msg) == IF msg.present THEN list \cup {msg.id} ELSE list \ {msg.id}

(* handle_endpoint_info, in any mode. *)
HandleEndpointInfo ==
    /\ dch # <<>> /\ dch' = Tail(dch)
    /\ shown' = Applied(shown, Head(dch))
    /\ UNCHANGED <<mode, dialogs, ctk, cancelled, again, taskVars, netVars>>

-----------------------------------------------------------------------------
(* MDnsDiscovery::run *)

Reads(i, event) ==
    /\ task[i] = "browsing" /\ queue[i] # <<>> /\ event = Head(queue[i])
    /\ queue' = [queue EXCEPT ![i] = Tail(@)]

ReadCached(i) ==
    \E event \in ToSet(queue[i]) :
        /\ Reads(i, event)
        /\ event.type = "ServiceResolved" /\ cache[i][event.device] = {event.addr}
        /\ UNCHANGED <<appVars, task, probe, cache, missed, dch, netVars>>

ReadResolved(i) ==
    \E event \in ToSet(queue[i]) :
        /\ Reads(i, event)
        /\ event.type = "ServiceResolved" /\ cache[i][event.device] # {event.addr}
        /\ task' = [task EXCEPT ![i] = "checking"]
        /\ probe' = [probe EXCEPT ![i] = {event}]
        /\ UNCHANGED <<appVars, cache, missed, dch, netVars>>

(* Mutant of ReadRemoved: the cache keeps the device. *)
ReadRemovedOnly(i) ==
    \E event \in ToSet(queue[i]) :
        /\ Reads(i, event) /\ event.type = "ServiceRemoved"
        /\ dch' = dch \o SetToSeq({Absent(a) : a \in cache[i][event.device]})
        /\ UNCHANGED <<appVars, task, probe, cache, missed, netVars>>

ReadRemoved(i) ==
    \E event \in ToSet(queue[i]) :
        /\ Reads(i, event) /\ event.type = "ServiceRemoved"
        /\ cache' = [cache EXCEPT ![i][event.device] = {}]
        /\ dch' = dch \o SetToSeq({Absent(a) : a \in cache[i][event.device]})
        /\ UNCHANGED <<appVars, task, probe, missed, netVars>>

(* The TCP connection to the resolved address is made: announced, even when *)
(* the token was cancelled while it was awaited.  Up to 3 s pass meanwhile, *)
(* and a port may be open after its device has said goodbye: what net says  *)
(* when the result is taken decides nothing.                                *)
CheckSucceeds(i) ==
    \E event \in probe[i] :
        /\ task[i] = "checking"
        /\ task' = [task EXCEPT ![i] = "browsing"]
        /\ probe' = [probe EXCEPT ![i] = {}]
        /\ cache' = [cache EXCEPT ![i][event.device] = {event.addr}]
        /\ missed' = [missed EXCEPT ![i] = @ \ {event.device}]
        /\ dch' = Append(dch, Present(event.addr))
        /\ UNCHANGED <<appVars, queue, netVars>>

(* It is refused, or times out, be the device there or not: the event is    *)
(* forgotten, and the device until it announces itself again.               *)
CheckFails(i) ==
    \E event \in probe[i] :
        /\ task[i] = "checking"
        /\ task' = [task EXCEPT ![i] = "browsing"]
        /\ probe' = [probe EXCEPT ![i] = {}]
        /\ missed' = [missed EXCEPT ![i] = @ \cup {event.device}]
        /\ UNCHANGED <<appVars, queue, cache, dch, netVars>>

(* The cancelled branch; stopping the browse and draining it change nothing. *)
TaskEnds(i) ==
    /\ task[i] = "browsing" /\ i \in cancelled
    /\ task' = [task EXCEPT ![i] = "ended"]
    /\ queue' = [queue EXCEPT ![i] = <<>>]
    /\ UNCHANGED <<appVars, probe, cache, missed, dch, netVars>>

TaskStep(i) == \/ ReadCached(i) \/ ReadResolved(i) \/ ReadRemoved(i)
               \/ CheckSucceeds(i) \/ CheckFails(i)

DiscNext ==
    \/ \E d \in Device : Vanish(d) \/ \E a \in Addr : Appear(d, a)
    \/ OpenDialog \/ CloseDialog \/ StopDiscovery \/ HandleEndpointInfo
    \/ \E i \in Task : SelectFiles(i) \/ TaskStep(i) \/ TaskEnds(i)

DiscSpec == DiscInit /\ [][DiscNext]_discVars

(* select! takes each branch that stays ready; the front end handles what it *)
(* is sent.  Nothing makes a user act or a device move.                      *)
DiscFairness ==
    /\ WF_discVars(HandleEndpointInfo)
    /\ \A i \in Task : WF_discVars(TaskStep(i)) /\ WF_discVars(TaskEnds(i))

DiscFairSpec == DiscSpec /\ DiscFairness

DiscTypeOK ==
    /\ mode \in {"discovery", "other"} /\ dialogs \in 0..MaxDialogs
    /\ ctk \subseteq Task /\ cancelled \subseteq Task /\ again \subseteq Task
    /\ task \in [Task -> {"none", "browsing", "checking", "ended"}]
    /\ \A i \in Task : (task[i] = "checking") <=> (probe[i] # {})
    /\ cache \in [Task -> [Device -> SUBSET Addr]] /\ missed \in [Task -> SUBSET Device]
    /\ shown \subseteq Addr /\ net \in [Device -> SUBSET Addr]

-----------------------------------------------------------------------------
(* Something of another discovery is still to come: of one that was stopped, *)
(* or of one that was overtaken, whose token no one holds.  It will end up   *)
(* in a list that is not its own.                                            *)
LeftOver ==
    \/ mode = "discovery" /\ \E i \in Task : Live(i) /\ i \notin ctk
    \/ /\ mode = "other"
       /\ shown # {} \/ dch # <<>> \/ \E i \in Task : task[i] = "checking"

(* Nothing is on its way to the list any more: no message to it, and no      *)
(* event that a task has still to read or to check.                          *)
Quiet ==
    /\ mode = "discovery" /\ dch = <<>>
    /\ \A i \in Task : Live(i) => queue[i] = <<>> /\ probe[i] = {}

(* All that is listed is there, and all that is there is listed, but for a   *)
(* device that the task could not reach when it last tried.                  *)
ListIsTrue ==
    /\ shown \subseteq UNION {net[d] : d \in Device}
    /\ \A d \in Device : net[d] \subseteq shown \/ \E i \in ctk : d \in missed[i]

(* While the user looks for devices, the list is the devices that are there  *)
(* whenever nothing is under way, as long as a discovery leaves nothing over *)
(* for another; only a device that did not answer the last check made of it  *)
(* may be missing, until it announces itself again.                          *)
ListIsTrueWhenQuiet == []~LeftOver => [](Quiet => ListIsTrue)

(* So it is in the end, since what is under way arrives.                     *)
ListIsTrueInTheEnd ==
    /\ ListIsTrueWhenQuiet
    /\ []~LeftOver /\ <>[](mode = "discovery") => <>[]ListIsTrue

(* A browse that runs can be stopped, since RQS holds its token or has       *)
(* cancelled it, unless the next one was started while the user was looking  *)
(* for devices already: its token is then dropped with no one to cancel it   *)
(* (lib.rs, discovery), and it runs until the program ends.                  *)
OnlyOvertakenBrowsesAreLost ==
    \A i \in Task : Live(i) => i \in ctk \cup cancelled \/ i + 1 \in again

=============================================================================
