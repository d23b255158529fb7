# Verification of quickshare-gpui

TLA+ models of the Quick Share implementation in this repository, TLC
configurations that check them on small instances, and theorems that TLAPS
proves for every instance. Paths below are relative to `src/`; `core/` stands
for `crates/core/src/` and `app/` for `crates/app/src/`.

## 1. The system

A device runs one `RQS` (`core/lib.rs`). It announces itself by mDNS, accepts
TCP connections from senders, and connects to receivers its user picked. A
transfer is one TCP connection, with an `OutboundRequest` at one end and an
`InboundRequest` at the other, each a tokio task. The GPUI front end
(`AppState`) talks to every task over one broadcast channel.

| Component | State | Operations | Interacts with |
|---|---|---|---|
| Sending end, `core/hdl/outbound.rs` | `InnerState`: protocol state, sequence numbers, payload being assembled, files to send with bytes sent | connect, one handler per frame, send loop, Cancel, error exit | peer (frames), bus (published states, Cancel), `connect()` that drives it |
| Receiving end, `core/hdl/inbound.rs` | the same, with the files to receive and their handles | one handler per frame, Accept, Reject, Cancel, error exit | peer, bus, download directory |
| Service loop, `core/manager.rs` | none beyond its `select!`; at most one connection being sent | accept and spawn, connect (awaited in place), stop | kernel's backlog, both ends |
| Lifecycle, `core/lib.rs` | cancellation tokens, task tracker, visibility sender | run, discovery, stop_discovery, change_visibility, stop | all tasks |
| Message bus, `core/channel.rs`, `core/lib.rs:102` | broadcast channel of 50 messages per receiver | send, subscribe, recv, recv that lags | all transfers and the front end |
| Front end, `app/state.rs`, `app/views/*` | map of transfers by id, view, open dialog, discovered devices | handle_channel_message, clear_transfer, answer, cancel, select_files, send_to_device, cancel_send | bus |
| Byte stream, `core/hdl/inbound.rs:85`–`230`, `core/utils.rs` | part of a length or body that was read | read_exact in a `select!`, write_all | peer, bus |
| mDNS announcement, `core/hdl/mdns.rs` | visibility, last registration | change of visibility, BLE notification, tick | mDNS daemon |
| mDNS discovery, `core/hdl/mdns_discovery.rs` | cache of devices | resolve, reachability check, remove | front end |
| Key exchange and PIN, `core/hdl/*`, `core/utils.rs` | keys | UKEY2 handshake, point encoding, PIN | peer |
| Download destination, `core/hdl/inbound.rs:897` | none; reads the directory | choose a free name, create | file system |
| Settings, views, notifications, Bluetooth | see `PROJECT.json` | | |

### What is hard

* **Two tasks, two front ends, two users.** A click is a message: it answers
  the state the front end shows, while the task may be elsewhere. Handlers of
  commands look at no state (`inbound.rs:91`–`160`).
* **Two independent counters.** Every encrypted message carries a number the
  other end counts for itself; a skipped or repeated one ends the transfer.
* **No timeout anywhere.** An end learns of the other's end from the closed
  socket alone, with end-of-file or, when unread data was left, a reset.
* **Several ways out**, each with its own rule about what it publishes:
  Finished, Rejected, Cancelled, the error arm, a cancelled token, a kill.
* **connect() inside the accept loop.** A device that is sending answers nobody.
* **Visibility, discovery and the bus** read state, wait, and act on what they
  read; the bus drops messages when a receiver lags.

### What makes each component correct

* *A transfer:* no byte and no file before the user's Accept; Finished only of
  complete files; a rejected transfer leaves nothing; what a user is shown last
  is true and stays; one end's end ends the other; between two ends that run
  this code no frame meets an error path, and no chunk finds its file not open.
* *Service loop:* each connection is answered, whatever its loop waits for.
* *Bus and front end:* an end that the list shows is the end and stays, nothing
  that runs is hidden, each transfer is seen to its end and each click takes
  effect, in spite of lag and of `clear_transfer`; a command reaches its own
  transfer, and none that has no keys yet.
* *Announcement:* the last choice the user made is what is announced.
* *Discovery:* the list is the devices that are there; every browse can be
  stopped.
* *Destination:* two transfers never write one file.

* *Byte stream:* the receiver never takes other bytes for a length; what it
  calls finished is all there; neither end waits for ever for the other.
* *Key exchange:* both ends derive the same keys and show the same PIN, or both
  fail.

`PROJECT.json` lists each hazard with its line and the properties that would
catch it.

## 2. Modules

    Wire                    frames, sequence numbers, sockets
     ├─ OutboundRequest     the sending task
     ├─ InboundRequest      the receiving task and its files
     └─ Connection          the two tasks, front ends and users; properties
         ├─ Offer           what a transfer promises (abstract; by INSTANCE)
         ├─ MCConnection    constants for TLC
         └─ ConnectionProofs   theorems
             └─ AlignmentProofs    theorems on the two ends in step
    Stream                  the bytes of one transfer, select! and read_exact
     ├─ MCStream
     └─ StreamProofs        theorems
    Bus                     the broadcast channel, with lag
     └─ AppState            front end, and the tasks as it sees them
         ├─ MCAppState
         └─ AppStateProofs  theorems
    TcpServer               the service loops of several devices
     ├─ MCTcpServer
     └─ TcpServerProofs     theorems
    KeyExchange             public keys on their way, and the PIN
     ├─ MCKeyExchange
     └─ KeyExchangeProofs   theorems
    Visibility              the announcing task and its user's choices
     ├─ MCVisibility
     └─ MdnsProofs          theorems, on Discovery too
    Downloads               where the files of several transfers are stored
     ├─ MCDownloads
     └─ DownloadsProofs     theorems
    Discovery               browsing tasks and the list of nearby devices
     ├─ MCDiscovery
     └─ MdnsProofs          theorems, on Visibility too

The modules divide one system by what each takes as given. Connection has whole
frames and a lossless bus; Stream takes the frames apart into bytes, and AppState
has the bus that loses, with several transfers at once. In AppState the peer
answers, refuses or fails, as in Connection it may; Connection's handlers are
one action there if the front end cannot tell them apart. TcpServer's rule, that
`connect()` is awaited in the loop, is AppState's `LoopIsFree`.

**Wire.** Each direction is a log of frames and the number its reader has
consumed. A SecureMessage is its sequence number and its body (both ends hold
the same keys once the exchange is over). A payload of type Bytes is two
chunks, as `send_encrypted_frame` writes it. `ReadFails` is the kernel's rule:
end-of-file after everything is read, or a reset at any time if the peer closed
with our data unread.

**OutboundRequest, InboundRequest.** `snd` and `rcv` are the fields of
`InnerState` that control the code. An action is a whole handler: what it
checks, writes, publishes and stores. The send loop of `process_consent` is one
action per chunk, since a kill, a stop or the peer can come between two, but it
reads no frame and takes no command, as in the code. A write that can fail
because the peer is gone has both outcomes where they can be told apart:
otherwise `SConnectionLost`, `RConnectionLost` or `RAcceptFails` stands for it.
`disk[f]` is the range of the source's units a stored file holds, so that
`File::create` in the middle of a transfer shows as a file that begins late.
`faults` is the set of faults that may happen in a behaviour, chosen at `Init`
from `Environments`.

**Connection.** A front end shows the last published state it has handled and
offers the buttons of `transfer_item.rs` for it. The bus is a pair of reliable
ordered logs per transfer; lag and ids are the subject of AppState.

**Stream.** `wire` is the sequence of bytes that were written and not read, at
most `Buffer` of them; a byte is a place in a frame. `SWrite` and the reads move
any number of them. `got` is the local `length_buf` of the current call of
`handle()`: `RReceive`, the other branch of its `select!`, drops it, and `cut`
remembers that it held something. A body is read outside the `select!`
(`toRead > 0`), so nothing interrupts it. A length read from the wrong place is
an error or any number up to `MaxSwallowed`. `SReadAndSend(0)` is a read at the
end of a source that has shrunk. `bus` is the queue of the receiving task, fed
by its own progress, which it gets back, by others and by its user.

**Bus.** `queue[r]` is what receiver `r` has not received. `Sent` appends to
each queue and drops the oldest message of one that is full, marking it lagged;
`SkipLost` is the `Err(Lagged)` that every receiver ignores.

**AppState.** `taskState` is what each task published last; `Lose` is the error
arm, whose message has no `rtype`. `transfers` is the map of the code, by id: a
received transfer's is its connection, a sent one's is its device, so `Id` may
be the same for two. `of` is not in the code: it says which transfer was last
heard of under that id, for the properties. `mode`, `dialog` and the guards of
the user's actions are `content_mode`, the open dialog, and which buttons each
view shows. `Panic` is what a Cancel does to a sender that has no keys yet
(`Keyless`): `encryption_done` is true from the start (`outbound.rs:115`), so
`disconnection()` encrypts its frame, and the key it unwraps is `None`
(`outbound.rs:1212`). The panic is inside `connect()`, which the service loop
awaits, so that no transfer begins afterwards (`LoopIsFree`). The other tasks go
on, as in a debug build; with the `panic = "abort"` of the release profile the
program ends with that step. A task that has told its end (`Leaving`) takes no
message before it
ends; a sender in its send loop takes none either, so that its queue fills.

**KeyExchange.** A coordinate is a number, `Encoded` and `Point` are the
conversions of `encode_point` and `finalize_key_exchange` between it and bytes,
and the two-step exchange is one action per handler. HKDF is the constant
operator `Kdf`. `to_four_digit_string` is a fold over the 32 bytes.

**TcpServer.** `target[p]` is where device `p` sits in `connect()`; `backlog[p]`
is what the kernel has completed and the loop has not accepted. What happens on
an accepted connection is Connection's subject: here it only ends. `Stop` is
what ends the loop at any time: a cancelled token, or an error of `accept()`.

**Visibility.** The watch channel holds one value and whether the task has seen
it; `visibility` is the task's own copy, which is what its branches look at.
Time is counted in units of which `Interval` make the 60 s; a tick may be taken
up to `MaxLate` units late and the next one is then nearer, as tokio's interval
does. The 15 s interval and Bluetooth notifications may come at any time.

**Downloads.** A path is the sequence of what the code joins by `_`, so that a
file called "1_x" meets a "x" that was numbered. `dir` holds the chunks of each
path by whose they are; a handle writes at its own position, whatever others do
to the file. `PickDestination` is one iteration of the loop over the files,
since the tasks run on several threads; the end of the search for a free number
is the moment that counts.

**Discovery.** Each discovery is a task with its token, its queue of browse
events, its cache and the address it is trying. mDNS is external: it tells every
browse of each announcement, repeated ones too, in order; `net` is what devices
announce. Whether one answers a check is another matter: `CheckSucceeds` and
`CheckFails` do not look at `net`, since the connection took up to 3 s, may be
refused by a device that is there, and may be taken by one that has said
goodbye. Two variables are not in the code: `missed`, the devices whose last
check failed, and `again`, the discoveries that were started while the user was
looking at another. The list is `discovered_devices`, fed by a channel whose
messages are handled later.

**Mutants.** A definition whose comment begins "Mutant of" is a plausible bug in
the definition it stands before. No specification uses it; `PROJECT.json` says
which property finds it.

## 3. What is checked

| Run | Instance | Shows | Distinct states |
|---|---|---|---|
| `impatient` | 2 files, one may vanish, 2 answers, 1 cancel each, stop, kill, disk errors | consent before bytes; every frame is acceptable; each chunk finds its file open; states are told in the order of the protocol | 326261 |
| `faulty` | 2 files, either may vanish, one may have grown, 1 answer, 1 cancel each, in three environments: no fault, grown files and disk errors, stops, kills and disk errors; fair | Finished files are whole; Finished means Finished for the sender, nothing ends early and no end is untold; a rejected transfer leaves no file; an answered offer ends as answered on both sides where nothing disturbs it; one end's end ends the other and is shown; `Offer` is implemented | 85217 |
| `stream` | one file of 3 units, a length of 4 bytes, a connection that holds 5, 1 message of another transfer, 1 Cancel, a source of any length up to 3; fair | only a cut misleads; Finished means all; an uncut file is delivered; neither end is left behind; Cancel is obeyed | 107875 |
| `bus` | 1 received and 2 sent transfers to one device, a bus of 2, 1 command | an end that is shown is last and rarely rewritten; a command goes astray, and panics a sender without keys, only when late; a wrong direction only after a loss; nothing active is hidden | 1290952 |
| `listed` | 1 received and 1 sent transfer, a bus of 2, 1 command; fair | each transfer is seen to its end, each click takes effect, the empty list is left, unless messages were lost, a connection failed or a peer is silent for ever | 75946 |
| `one_way` | 3 devices that send in no circle, 2 requests each, stops; fair | each connection is answered; whoever waits, waits in the end for a device that can go on | 1340 |
| `keys` | every pair of keys with coordinates of 2 bytes of 4 values, 7 coordinates; fair | the same PIN on both sides; the PIN is what it should be and nothing overflows; an exchange fails for both ends, and only with a short coordinate; no end goes on with one | 10204 |
| `visible` | all three choices, 3 changes, 3 units; fair | the task announces what the channel says; no choice is overruled early; who does not want to be seen is not, in the end; who picks Visible is, if no temporary visibility was ever picked | 1696 |
| `at_once` | 2 transfers at once, 3 files, a name that exists and comes again, user saves files | only a shared destination damages a received file; existing files stay | 4268 |
| `sessions` | 2 discoveries, 2 dialogs at once, 2 devices that come and go and answer or do not; fair | every browse can be stopped, unless another overtook it; the list is true whenever nothing is under way, and so in the end, but for devices that failed the last check, unless another discovery leaves something over | 285996 |
| `double_accept` | 1 file, 2 answers | **violation**, see below | |
| `each_other` | 2 devices sending to each other; fair | **violation**, see below | |

The type invariants are proved (section 4) and not run: `TypeOK`, `AppTypeOK`,
`TcpTypeOK`, `VisTypeOK`, `DownTypes`, which is `DownTypeOK` with the domains
spelled out, and `StreamTypes`. What TLC could find wrong with them is found by
the other invariants of the same run, whose guards and indices need them.

The deadlock check is on for the transfer, the service loops, the announcing
task, the downloads and the discovery: `Done`, `Settled`, `Idle` and their like
are the only states in which they may stop. It is off for `stream`, `bus`,
`listed` and `keys`, where a transfer that is over, a list its user leaves alone
or a finished exchange is an end; there the liveness properties say what must
be reached.

**Bounds of the transfer.** `ReadBuffer = 2` and `NotifyBytes = 2` give short
reads, full reads and progress notes; files of 2 and 1 units give a file of
several chunks and one of a single chunk. `MaxAnswers` and `MaxCancels` bound
clicks, `MaxFrames` the log beyond which a grown file's sender stops sending
empty chunks (20 is more than the frames before them). Two answers are enough
for every order of Accept and Reject; a third finds the state a second one left.
A second file is needed for "not the last file" and "created, then failed"; a
third repeats the second. `Environments` is a set of sets of faults: a liveness
property that holds without faults only is checked in the same run as those
that hold with them.

**Bounds of the stream.** `Buffer = 5` is less than any frame with its length,
so that every frame is written and read in pieces and each end waits for the
other. `Prefix = 4` is the code's. `Total = 3` gives several chunks,
`NotifyUnits = 1` a note for each, `MaxOthers = 1` a cut that no own note causes.
`MaxSwallowed = 3` is enough to be less and more than what follows.

**Bounds of the list.** `Capacity = 2` is the least that loses a message and
keeps another; two sends to one device are needed for a shared id, and a
received transfer for an id of its own. One command at any time meets every
state; the entries are cleared without bound.

**Bounds of the keys.** Two bytes of four values stand for 32 of 256: the
conversions depend on the number of bytes and on the upper bit only. `Chosen`
has coordinates of no byte, one byte short, one bit short and the full length,
the largest of each.

**Other bounds.** `MaxSends`: send requests; three devices are needed for a chain
of waiting. `MaxChoices`: a change after each kind of step of the task, and one
more. `Interval = 3` and `MaxLate = 1` let a tick be due, late and reset in the
middle. `MaxTasks = 2`: a third discovery meets a second as the second meets the
first; `MaxDialogs = 2` lets the second begin while the first is looked at. `MaxChanges = 3`
lets one device come, go and come back, or two meet.
`Overlap` is how many transfers are under way at once.

**Fairness.** tokio polls every ready task, so each end's step is weakly fair,
and a front end handles what it is sent. At the receiver, reading a frame,
taking a command and noticing a closed socket are fair each for itself, because
`select!` polls its branches in random order; in Stream, where reading a length
disables a message and the next length enables it again, receiving is strongly
fair for the same reason. In the sender one weak fairness is enough, since its
send loop ends; in Stream, where it need not, its writes are fair all the same.
No user must click, no token must be cancelled and no fault must happen. In
TcpServer and AppState an accepted transfer ends, which Connection shows when
its users answer; a receiver's progress in AppState is owed by its peer. A
sender of AppState is owed nothing by its peer: neither the keys nor the answer
are fair, since a device that sits in its own `connect()` accepts nobody
(`each_other`) and nothing times out. In
Visibility and Discovery time passes, and `select!` takes every branch that
stays ready; no notification must arrive, no device must move.

### Findings

* **A second Accept destroys data** (`double_accept`). The buttons stay until
  `ReceivingFiles` is shown. `accept_transfer` (`inbound.rs:1069`) looks at no
  state and creates each remaining file again, which truncates what was stored;
  the rest is written from the start of the file and Finished is reported. With
  one answer the property holds (`faulty`).
* **Two devices that send to each other wait for ever** (`each_other`). `run()`
  awaits `connect()` in its own loop (`manager.rs:58`), though the comment at
  `manager.rs:112` says it is to be called in a task of its own if concurrency
  is wanted. Neither loop accepts, and there is no timeout. Without a circle of
  senders every connection is answered (`one_way`).

### Limits of what holds

Some properties hold under a condition that the code does not enforce, which
their text names or a constant sets. Each limit is a behaviour of the code and
can be seen by dropping the condition.

* *A second answer.* `FinishedFilesAreIntact`, `RejectedLeavesNothing` and
  `ImplementsOffer` need `MaxAnswers = 1`: a Reject queued behind an Accept is
  obeyed (`inbound.rs:127`) although the files exist and the sender may be
  sending.
* *Empty files.* `AcceptedIsDelivered` needs files with bytes, and so does
  `ImplementsOffer`, where accepting would store at once: no last chunk is
  sent for an empty one (`outbound.rs:862`), as the NOTE at
  `crates/core/tests/e2e.rs:376` says.
* *A cut.* `UncutIsDelivered` fails without its `~cut`: a message of the bus,
  such as the receiver's own progress or another transfer's, that is received
  when a part of a length has come drops that part (`inbound.rs:163`), and what
  follows is read out of step. `OnlyACutMisleads` says that nothing else does.
* *Out of step.* A receiver that has taken a large number for a length waits for
  that many bytes, deaf to its user, while a sender may wait for it to read:
  `CancelIsObeyed` excepts it.
* *A lost message.* The liveness of the list excepts a receiver that lags: the
  `Finished` or the command may be what was lost. A sender in its send loop
  takes no message at all, so its Cancel is looked at after the last chunk, or
  lost.
* *The empty view.* `connect()` publishes nothing when it fails before its loop
  (`manager.rs:115`), and nothing before the keys are exchanged, for which it
  waits without a timeout; the view with no entries has no button
  (`TransfersViewFills`).
* *Directions.* The error arm's message has no `rtype`: an entry cleared before
  it comes is made again as a received transfer, stays one for the next send to
  that device, and is announced as received (`WrongWayOnlyAfterALoss`).
* *A late Cancel.* The Cancel of a transfer that is over cancels the next one to
  the same device if it comes while that runs (`OnlyLateCommandsGoAstray`),
  since both have the device for an id (`state.rs:234`). If it comes before the
  keys it panics the service loop (`outbound.rs:115`, `157`, `1212`), and a
  release build with it; `OnlyALateCancelPanics` says that no other command can.
* *Short keys.* One exchange in about 128 fails, since `encode_point` drops
  leading zeros and nobody pads them (`BothEndsAgree`); for nothing else does
  one fail (`OnlyShortKeysFail`).
* *Visible after a temporary visibility.* When one runs out, the tick branch
  sends Invisible, whatever the user has picked in the meantime, in the wait for
  the daemon too (`mdns.rs:133`); `VisibleUnlessTemporary` excepts that history.
* *One path for two files.* Free names are looked for at introduction
  (`inbound.rs:897`) and taken at accept: two files of one transfer with one
  name, or two transfers that wait at once, get one path and overwrite each
  other; `OnlySharingDamages` is what is left.
* *An error of `accept()`* ends the service loop (`manager.rs:100`), and nobody
  is told: the device answers no more. The properties of TcpServer count it as
  a device that stopped.
* *File dialogs.* Each click opens a dialog of its own (`content.rs:72`), and
  `discovery()` overwrites the token it holds (`lib.rs:210`): of two discoveries
  that begin one upon the other the first browses for ever.
  `OnlyOvertakenBrowsesAreLost` says that this is the only way to lose one.
* *A check that fails.* A device that is there and does not answer the check is
  forgotten (`mdns_discovery.rs:116`) until it announces itself again;
  `ListIsTrue` lets it, and no other, be missing.
* *Files saved meanwhile.* `ExistingFilesAreKept` speaks of files that were there
  at the start: one that is saved at the chosen path between the introduction
  and the accept is truncated (`inbound.rs:1069`).
* *Late announcements.* `ListIsTrueInTheEnd` says itself what it needs
  (`LeftOver`): a task announces a device after it was cancelled
  (`mdns_discovery.rs:101`–`115`), into a list that was cleared, and messages
  that were on their way reach it later (`state.rs:267`). It also needs
  devices that keep their address: another one leaves the old entry in the list
  (`mdns_discovery.rs:113`).

## 4. What is proved

Every theorem is for all values of the constants that the named assumptions of
the modules allow: any finite set of files or transfers or devices, any sizes,
any bounds, any set of faults. The proofs use these assumptions, the definitions
and nothing else. What is proved is first checked by the run named in section 3.

**ConnectionProofs.**

* `TypeCorrect`: `Spec => []TypeOK`. `TypeOK` is inductive; one lemma per
  action, and lemmas for what each frame constructor returns.
* `ConsentComesFirst`: `Spec => []ConsentBeforeBytes`. The property is not
  inductive: it says nothing of how the sender got into its send loop.
  `ConsentInv` adds the chain: unless an Accept was taken, no Response(Accept)
  is in the receiver's log, so the sender's open payload is not one, it is not
  in its send loop, no file frame is in its log, and no file exists. The only
  actions that leave this are those that take an Accept.
* `LastWordIsFinal`: `Spec => LastWordStands`. `LastWordInv` ties the last
  published state to the state and to whether the task runs: after Disconnected
  nobody is there to publish, after the receiver's Finished its task has ended,
  after the sender's Finished its state is not one whose error arm publishes.

**AlignmentProofs.** Seven invariants besides the types, each inductive in the
presence of those before it, and what follows from them.

* `AlignInv` (`Aligned`) says of each log what its frames are, one after the
  other (`SLog`, `RLog`: setup at fixed places, then chunks that continue each
  other, or answers in two halves, and goodbyes), and of each end that runs
  where in both logs its state puts it (`SInStep`, `RInStep`), with its
  counters. The properties speak of the next frame only; whether it is the
  expected one depends on all that both ends have done, hence the logs.
  `SAsked` and `RAsked` say what users can have clicked, `Sending` that what is
  still to send was not sent, `Receiving` that what is had is what was read,
  `Within` that chunks lie inside the file, `Lost` when the sender may say
  Disconnected, `OpenInv` which files are open.
* `NoFrameIsRefused`: `EveryFrameIsAcceptable`, if `"Grown"` is no fault: a file
  that grew after it was offered is sent past its announced size, and the
  receiver is right to refuse it.
* `ChunksHaveTheirFile`, `FinishedTogether`: `EveryChunkHasItsFile` and
  `FinishedOnBothEnds`, for any number of clicks and any faults.
* `AnswerInv` (`Answered`) adds what is known where the user may answer once: an
  Accept and a Reject exclude each other, what is stored of a file is what was
  read of it (`StoredFromStart`), a file whose last chunk was read has its size
  (`Sized`), and the sender has reported nothing unaccepted (`Told`).
* `FilesAreIntact`, `RejectionHolds`: `FinishedFilesAreIntact` and
  `RejectedLeavesNothing`, if `MaxAnswers <= 1`. The premise cannot be dropped:
  `double_accept` is the counterexample.
* `OfferIsImplemented`: `Spec => ImplementsOffer`, if `MaxAnswers <= 1` and no
  file is empty (an empty one is whole as soon as the Accept creates it, so that
  one step would grant and store). `Agreed` is what the phase needs: an answer
  follows a question, a task stays in the state of its Accept, and a rejected one
  has read the offer. Each step of an end is then matched: `OfferIsMade` finds
  the one that proposes, `ChunkMoves` those that store, `AnswerMoves` those that
  grant or refuse, `SenderClaims` the one that claims; the others break off or
  change nothing of the offer.
* `EndsAreToldAlways`: `Spec => []EndsAreTold`, for any files and any clicks, of
  which `FinishedTogether` is the first part and the next two are the others.
* `NothingIsCutShort`: `Spec => []NothingEndsEarly`, the safety half of
  `AcceptedIsDelivered`, for any files (empty ones too), any number of Accepts
  and any interleaving. `PeaceInv` says that while nothing has failed and nobody
  has cancelled or rejected, the receiver's log holds no denial, nobody was told
  of a lost connection, and a task that has ended has finished, the receiver
  first. Peace is lost but never regained (`PeaceBefore`), so a peaceful state
  had a peaceful past. Then each way to end early is shut: no denial is there to
  read, a receiver that runs has a sender that runs and refuses no frame
  (`ReceiverAccepts`), and a sender whose receiver is gone has sent more than the
  introduction and has nothing left to send (`FinishedOnBothEnds`), so it is past
  its loop, where the error arm of `connect()` is silent.
* `EveryEndIsPublished` is the safety half of `EveryEndIsShown`. `EndsInv` says
  when the two error arms may be silent: a sender in state `Finished` has said
  so, a receiver in state `Initial` has said nothing before, and an `Initial`
  sender does not lose a receiver that still waits for its first frame.
* `StatesAreToldInOrder`: `Spec => StatesFollow`, for any files, clicks and
  faults: what each end tells its front end follows `SenderFollows` and
  `ReceiverFollows`, and after an end nothing is told but what the code lets
  follow it. `SaidInv` says that what was told last is what the state of the
  task says, and that a Cancel was clicked only of a transfer under way. A
  progress report needs more: a chunk is read only after an Accept
  (`ConsentBeforeBytes`), and then the state is the Accept's (`AgreedAlways`).
  The property is stronger than `LastWordStands`. It is also what `AppState`
  takes for granted of a task: each arrow is one of its actions
  (`ExchangeKeys`, `Introduce`, `HearAnswer`, `Progress`, `Finish`, `Obey`,
  `Lose`).
* `NobodyWaitsForNothing`: `Spec => []NobodyHangs`, freedom from deadlock for
  any files, clicks and faults; no timeout would end one. `SenderCanGoOn` and
  `ReceiverCanGoOn` say by the guards of the steps that a task is not at a read,
  or has a frame it accepts, or reads that its peer is gone. While an end is up,
  one can go on, or the receiving user is to answer, or only empty files are left
  to receive, the last of which is waited for in vain (section 3, *Empty files*).
  The places of `AlignInv` leave two ends that have read all in two positions
  (`PlacesMeet`). In the first the sender waits for the answer, and `HangInv`
  says that it has read none and that the receiver has written one or asked its
  user. In the second it has finished: it has then picked every announced file
  and, unless there is nothing in it, sent its last chunk (`SentToTheEnd`), and
  the receiver waits for no file whose last chunk it has read (`RAwaits`).

**StreamProofs.**

* `FinishedIsAll`: `Spec => []FinishedMeansAll`, with the types and with "a
  receiver that has finished does not run": the last chunk is taken only at its
  place.
* `OnlyACut`: `Spec => []OnlyACutMisleads`. The invariant is about all bytes
  still to come, those on the connection and those of the frame being written
  (`Coming`). `InOrder` says in closed form, without recursion over frames, that
  they are frames one after the other: after a byte come the others of its frame
  and then the first of another. A write changes nothing in it, a frame that is
  begun adds itself at the end, a read takes some from the front. Unless a part
  of a length was dropped, the first of them is the one the receiver takes it
  for (`Expected`).
* `OnlyDisturbedTransfersFail`: the safety half of `UncutIsDelivered`. No end
  comes to Disconnected unless a length was cut, the user cancelled or the sender
  was stopped. `FramesAreInSequence` adds to `InOrder` which frame follows which:
  the chunk after another begins where that ends, the first of those to come is
  the one at what is stored, and nothing is to come after the last. So the
  receiver refuses none, and when it hangs up the sender has nothing more to say.
* `TransferNeverStops`: the safety half of `NoEndIsLeftBehind`. Unless a length
  was cut, while a task runs one of the two can go on, by the guards of their
  steps: a full connection has bytes to read, an empty one has room, and a sender
  that waits for the hang-up has a receiver with something to read, or no more.

**AppStateProofs.**

* `AppTypeCorrect`: the bound on the queues included.
* `NothingIsHidden`: `NothingActiveIsHidden` is inductive.
* `OnlyLateCommands`: from `OneConnects`, that at most one sending task runs.
* `OnlyALateCancelCanPanic`: `OnlyALateCancelPanics`. Buttons are offered for
  entries, and an entry or an update is of a sender that has its keys, or had
  (`Committed`); so a command before a sender without keys is for another one,
  which `OneConnects` says runs no longer.
* `WrongWayAfterLoss`: from `KindIsTrue`: a message on its way that does not
  tell the kind of a sent transfer is of one that was lost, and each entry is
  of its id.
* `EndsLast`, `EndsRarelyRewritten`: from `HistoryIsInOrder`. For each transfer,
  what the list says, the messages on their way in their order, and the state
  of the task make up a history in which each state `Follows` the one before;
  losing the oldest message leaves it one, since `Follows` is transitive.
  `RequestsWait` says that what has begun is not asked for.
* `NoEndDropped`, `NoCancelDropped`: the safety halves of
  `EveryTransferIsSeenToEnd` and `EveryClickTakesEffect`, as action properties.
  What is to be told, or obeyed, is on its way until it is: it leaves the queue
  only when it is received, and then it is in the list, or the transfer is over,
  or when its reader lagged and is told so. Fairness is needed only for the
  queues to be read.
* `EmptyListForAReason`: the view with no entries, which has no button, is shown
  only while a send is asked for, a sender waits for the keys of its peer, or an
  update is on its way, or after a connection that failed or a panic. It does not
  say that the view is left: the peer may never send its keys. That it is left
  otherwise is `TransfersViewFills`.

**TcpServerProofs.**

* `TcpTypeCorrect`, and `ConnectionsAreKnown`: where a sender sits in
  `connect()`, the other side, if it runs, has it in its backlog or in a task
  (`NoLostConnection`, which is used for the next).
* `NobodyWaitsInVain`: `WaitingLeadsSomewhere`, if devices send in no circle: if
  there is a `Rank` that falls along every route. `Routed` says that a device
  sits in `connect()` only to one of its route; so in a set that has, with a
  device, the one that it waits for, a device of the least rank waits for
  nobody of its set, and something can be done for it. The premise cannot be
  dropped: `each_other` is the counterexample.

**DownloadsProofs.**

* `DownTypeCorrect`: above all, the directory stays finite.
* `ExistingKept`: `Untouched` says that no transfer was given a path of before;
  the search for a free number finds one, because there are more numbers than
  files (`FreePathIsFree`, by the pigeonhole principle), and the least of them.
* `OnlySharing`: from `UnsharedAreStored`, what a file that shares its path with
  no other contains at every moment of its transfer.

**MdnsProofs**, on Visibility:

* `VisTypeCorrect`: the lateness of the timer included.
* `AnnouncementFollows`: `AnnouncedAsTold` is inductive, because every step that
  changes the channel marks it changed.
* `TemporaryLasts`: from `Counting`, that what is left of a temporary visibility
  and what has passed of it make up the interval.

and on Discovery, for any number of discoveries, dialogs and devices:

* `BrowsesCanBeStopped`: `OnlyOvertakenBrowsesAreLost`. By `Tokens` the token
  that RQS holds is that of the last discovery, which is not cancelled, so the
  one whose token is replaced is the one before the new.
* `QuietListIsTrue`: `ListIsTrueWhenQuiet`, for finitely many devices with an
  address each (`EachHasItsAddress`). It is the safety half of
  `ListIsTrueInTheEnd`: fairness is needed only to become quiet. The list, the
  messages to it, the task's cache, what it is trying and the events it has not
  read are one pipeline; `Heard` and `Listed` say of each device that the last
  thing in each part of it agrees with the next part, and the first with the
  network, or else the task has missed the device: it tries an address only when
  it has none in its cache, so that a failed check leaves nothing false there. A
  task of another discovery would add to the same list, hence `LeftOver`, and an
  address of two devices would be removed with the first.

**KeyExchangeProofs**, for coordinates of any `Width` but 1. The library's
induction theorems cannot be used, but a set of naturals has a least element
(`LeastNatural`): what is true of 0, and of n + 1 if of n, has no least
counterexample (`AllNaturals`). From this follow the functions that are defined
by recursion (`RecursionExists`), the one behind a fold (`FoldExists`), and so
what each turn of a loop does.

* `FourDigits`: of any bytes whatever, `to_four_digit_string` makes the sum of
  the signed bytes times the powers of its multiplier, up to its sign, in four
  digits, and no product or sum on the way leaves an `i32`. The code reduces the
  hash and the multiplier at each byte; the invariant of the loop is that the
  hash, and the multiplier times what is still to come, add up to the sum,
  modulo 9973.
* `KeyOnItsWay`: a key is read as it was written if no coordinate is short, and
  is not read at all otherwise; `EncodedLength` says how many bytes each has.
* `SamePin` (`PinsMatch`), `ShortKeysFail` (`OnlyShortKeysFail`) and `PinIsSum`
  (`PinIsTheSignedSum`): from `KeyInv`, which ties each state of each end to the
  frames between them, and from these two.

They use that a byte has two halves (`BaseAssumption`) and that HKDF yields
bytes (`KdfAssumption`).

**Only model-checked.** Liveness, since fairness and ENABLED are beyond the
prover: the fifteen properties of section 3 that say what must come. The part of
them that is safety, what no step may destroy and what can always go on,
is proved: for a transfer (`EndsAreToldAlways`, `NobodyWaitsForNothing`), for its
bytes (`OnlyDisturbedTransfersFail`, `TransferNeverStops`), for the list
(`NoEndDropped`, `NoCancelDropped`), for the service loops
(`NobodyWaitsInVain`) and for discovery (`QuietListIsTrue`). What remains to TLC
is that fair tasks take the steps these leave open, and that they are finitely
many. The guards in `SenderCanGoOn` and `ReceiverCanGoOn` stand for ENABLED,
which a theorem cannot mention; `MaxFrames` bounds the send loop in the model
alone.

## 5. Not modelled

* Frames that only another implementation sends: KeepAlive, the sharing Cancel,
  text and Wi-Fi introductions. The two ends here are both this code, which
  neither sends them nor is sent them; a model would have to invent the peer.
* Cryptography: curves, hashes, HKDF, and the negotiation of versions and
  ciphers, in which this code always offers the same.
* The task tracker of `RQS` (`stop()` waits for the tasks it has cancelled);
  each module has the cancelled token as a step that may come at any time.
* Errors of the mDNS daemon, which end the announcing task.
* Bluetooth (experimental, driver I/O), settings (one file), views' layout and
  wording, desktop notifications.

## 6. What could come next

In this order: the start and stop of `RQS` with the tracker and the tasks that
hold it; the settings that are saved while they are read; a phone's sender
against InboundRequest and a phone's receiver against OutboundRequest, with the
frames left out above, from a specification of the protocol; Connection over
Stream, so that a cut is one of its faults.
