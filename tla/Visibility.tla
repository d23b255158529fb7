----------------------------- MODULE Visibility -----------------------------
(***************************************************************************)
(* MDnsServer::run (hdl/mdns.rs): the task that keeps the device announced *)
(* by mDNS while its user wants it visible.  The user's choice reaches it  *)
(* through a watch channel, which holds one value; the task writes to the  *)
(* same channel when a temporary visibility is over.                       *)
(***************************************************************************)
EXTENDS Integers

CONSTANTS
    Choosable,      \* what the user picks among the three visibilities
    Interval,       \* TICK_INTERVAL in units of time (60 s)
    MaxLate,        \* bound on how late, in units, a tick is taken
    MaxChoices      \* bound on how often the user changes the visibility

Visibilities == {"Visible", "Invisible", "Temporarily"}

ASSUME ChoosableAssumption == Choosable \subseteq Visibilities
ASSUME IntervalAssumption == Interval \in Nat \ {0}
ASSUME LateAssumption == MaxLate \in Nat
ASSUME MaxChoosableAssumption == MaxChoices \in Nat

VARIABLES
    choice,         \* settings.visibility: what the sidebar shows
    value,          \* the value in the watch channel
    changed,        \* it was sent since the task last looked
    visibility,     \* the task's own copy
    announced,      \* the daemon has the service registered
    left,           \* units until interval ticks; not positive when it is due
    age,            \* units since the task obeyed a choice, up to Interval
    running,        \* the task has not been cancelled
    chosen          \* how often the user has changed the visibility

loopVars == <<visibility, announced, left, age, running>>
visVars == <<choice, value, changed, loopVars, chosen>>

(* RQS::new sends the visibility of the settings after the channel was made, *)
(* so that the task finds a change; run() announces before its loop.         *)
VisInit ==
    /\ choice \in Choosable
    /\ value = choice /\ changed = TRUE
    /\ visibility = value /\ announced = (value # "Invisible")
    /\ left = Interval /\ age = 0
    /\ running = TRUE /\ chosen = 0

(* AppState::change_visibility and RQS::change_visibility. *)
Choose(v) ==
    /\ chosen < MaxChoices /\ chosen' = chosen + 1
    /\ choice' = v /\ value' = v /\ changed' = TRUE
    /\ UNCHANGED loopVars

(* Time passes. *)
Elapse ==
    /\ running /\ left > -MaxLate
    /\ left' = left - 1
    /\ age' = IF age < Interval THEN age + 1 ELSE age
    /\ UNCHANGED <<choice, value, changed, visibility, announced, running, chosen>>

(* Mutant of Obey: the interval is not reset. *)
ObeyWithoutReset ==
    /\ running /\ changed
    /\ changed' = FALSE
    /\ visibility' = value /\ announced' = (value # "Invisible")
    /\ age' = 0
    /\ UNCHANGED <<choice, value, left, running, chosen>>

(* Mutant of Obey: the copy from before is acted on. *)
ObeyBefore ==
    /\ running /\ changed
    /\ changed' = FALSE
    /\ visibility' = value /\ announced' = (visibility # "Invisible")
    /\ left' = IF value = "Temporarily" THEN Interval ELSE left
    /\ age' = 0
    /\ UNCHANGED <<choice, value, running, chosen>>

(* The branch of visibility_receiver.changed(). *)
Obey ==
    /\ running /\ changed
    /\ changed' = FALSE
    /\ visibility' = value /\ announced' = (value # "Invisible")
    /\ left' = IF value = "Temporarily" THEN Interval ELSE left
    /\ age' = 0
    /\ UNCHANGED <<choice, value, running, chosen>>

(* Mutant of Reannounce: the visibility is not looked at. *)
ReannounceAlways ==
    /\ running
    /\ announced' = TRUE
    /\ UNCHANGED <<choice, value, changed, visibility, left, age, running, chosen>>

(* The branches of a Bluetooth notification and of the 15 s interval. *)
Reannounce ==
    /\ running /\ visibility # "Invisible"
    /\ announced' = TRUE
    /\ UNCHANGED <<choice, value, changed, visibility, left, age, running, chosen>>

(* Mutant of Expire: the channel is not told. *)
ExpireSilently ==
    /\ running /\ left <= 0 /\ visibility = "Temporarily"
    /\ announced' = FALSE
    /\ left' = left + Interval
    /\ UNCHANGED <<choice, value, changed, visibility, age, running, chosen>>

(* The branch of interval.tick() for a temporary visibility.  A choice that *)
(* lands anywhere before the send, in the wait for the daemon too, is lost. *)
Expire ==
    /\ running /\ left <= 0 /\ visibility = "Temporarily"
    /\ announced' = FALSE
    /\ value' = "Invisible" /\ changed' = TRUE
    /\ left' = left + Interval
    /\ UNCHANGED <<choice, visibility, age, running, chosen>>

(* The same branch for any other. *)
TickIgnored ==
    /\ running /\ left <= 0 /\ visibility # "Temporarily"
    /\ left' = left + Interval
    /\ UNCHANGED <<choice, value, changed, visibility, announced, age, running, chosen>>

(* RQS::stop cancels the token: the service is unregistered. *)
Cancelled ==
    /\ running /\ running' = FALSE
    /\ announced' = FALSE
    /\ UNCHANGED <<choice, value, changed, visibility, left, age, chosen>>

Loop == Obey \/ Reannounce \/ Expire \/ TickIgnored

VisNext ==
    \/ \E v \in Choosable : Choose(v)
    \/ Elapse \/ Loop \/ Cancelled
    \/ ~running /\ UNCHANGED visVars

VisSpec == VisInit /\ [][VisNext]_visVars

(* Time passes, and select! polls its branches in random order: each of them *)
(* that stays ready is taken.  Bluetooth notifications need not arrive.      *)
VisFairness ==
    /\ WF_visVars(Elapse) /\ WF_visVars(Obey)
    /\ WF_visVars(Expire) /\ WF_visVars(TickIgnored)

VisFairSpec == VisSpec /\ VisFairness

VisTypeOK ==
    /\ choice \in Choosable
    /\ value \in Visibilities /\ visibility \in Visibilities
    /\ changed \in BOOLEAN /\ announced \in BOOLEAN /\ running \in BOOLEAN
    /\ left \in Int /\ left >= -MaxLate /\ left <= Interval
    /\ age \in 0..Interval /\ chosen \in 0..MaxChoices

-----------------------------------------------------------------------------
(* With nothing left to look at, the daemon announces the device if and only *)
(* if the channel says so: a re-announcement made from the task's own copy   *)
(* after a temporary visibility has ended never outlives the next change.    *)
AnnouncedAsTold ==
    /\ running /\ ~changed => /\ visibility = value
                              /\ announced = (value # "Invisible")
    /\ ~running => ~announced

(* The task never overrules a choice, as its tick branch does, before a full *)
(* interval has passed since it last obeyed one, whatever the interval was   *)
(* counting before.                                                          *)
TemporaryIsNotCutShort ==
    [][value' # value /\ chosen' = chosen => age = Interval]_visVars

(* A user who picks Invisible and leaves it, or lets a temporary visibility  *)
(* run out, is not announced in the end, for good.                           *)
HiddenInTheEnd == <>[](choice # "Visible") => <>[]~announced

(* A user who never made the device visible for a while, and picks Visible   *)
(* and leaves it, is announced in the end, for good, unless the service is   *)
(* stopped.                                                                  *)
VisibleUnlessTemporary ==
    [](choice # "Temporarily") /\ <>[](choice = "Visible" /\ running)
        => <>[]announced
=============================================================================
