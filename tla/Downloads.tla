----------------------------- MODULE Downloads -----------------------------
(***************************************************************************)
(* Where received files end up (process_introduction and accept_transfer   *)
(* in hdl/inbound.rs).  Each InboundRequest picks a free name for each of  *)
(* its files when it is introduced, and creates the file when its user     *)
(* accepts; the tasks of several transfers run on several threads, and the *)
(* user keeps using the download directory.                                *)
(***************************************************************************)
EXTENDS Integers, Sequences, FiniteSets

CONSTANTS
    Transfers,
    Files,          \* the files of all of them
    Of,             \* Of[f]: the transfer that brings f
    Name,           \* Name[f]: a path, as the introduction states it
    Length,         \* Length[f]: the length of f in chunks
    Existing,       \* the paths that exist from the start
    Saveable,       \* the paths at which the user may save something else
    Overlap         \* how many transfers may be under way at once

(* A path is the sequence of what file_name joins by "_": <<x>> is "x",    *)
(* <<1, x>> is "1_x".                                                      *)
Numbered(counter, path) == <<counter>> \o path

ASSUME FilesAssumption == IsFiniteSet(Files) /\ Of \in [Files -> Transfers]
ASSUME NameAssumption == \A f \in Files :
    Name[f] \in Seq({Name[f][i] : i \in DOMAIN Name[f]})
ASSUME ExistingAssumption == IsFiniteSet(Existing)
ASSUME LengthAssumption == Length \in [Files -> Nat \ {0}]
ASSUME OverlapAssumption == Overlap \in Nat

VARIABLES
    phase,      \* where each transfer is
    dest,       \* file_url of each file, as a set of at most one path
    written,    \* how many chunks each file's handle has written
    dir         \* the directory: the chunks of each path, by whose they are

downVars == <<phase, dest, written, dir>>

FilesOf(t) == {f \in Files : Of[f] = t}
Exists(path) == path \in DOMAIN dir
Whole(f) == [i \in 1..Length[f] |-> f]

(* What another program leaves in the directory. *)
UserFile == <<"user", "user">>

(* Mutant of Created: what is there is opened and not truncated. *)
Opened(paths) ==
    [p \in DOMAIN dir \cup paths |-> IF Exists(p) THEN dir[p] ELSE <<>>]

(* File::create on each of the paths truncates what is there. *)
Created(paths) ==
    [p \in DOMAIN dir \cup paths |-> IF p \in paths THEN <<>> ELSE dir[p]]

(* The chunks of a path after its next write by a handle that has written n: *)
(* what another handle truncated before it stays a hole.                     *)
WrittenAt(chunks, n, f) ==
    [i \in 1..(IF Len(chunks) > n THEN Len(chunks) ELSE n + 1) |->
        IF i = n + 1 THEN f
        ELSE IF i <= Len(chunks) THEN chunks[i] ELSE "hole"]

DownInit ==
    /\ phase = [t \in Transfers |-> "quiet"]
    /\ dest = [f \in Files |-> {}]
    /\ written = [f \in Files |-> 0]
    /\ dir = [p \in Existing |-> UserFile]

UnderWay == {t \in Transfers : phase[t] \in {"introduced", "waiting", "receiving"}}

(* process_introduction begins. *)
Introduce(t) ==
    /\ phase[t] = "quiet" /\ Cardinality(UnderWay) < Overlap
    /\ phase' = [phase EXCEPT ![t] = "introduced"]
    /\ UNCHANGED <<dest, written, dir>>

(* Mutant of FreePath: nobody looks whether the name is taken. *)
NameItself(name) == name

(* The name itself if nothing is there, or the first number that is free. *)
FreePath(name) ==
    IF ~Exists(name) THEN name
    ELSE LET free == {k \in 1..(Cardinality(DOMAIN dir) + 1) : ~Exists(Numbered(k, name))}
         IN Numbered(CHOOSE k \in free : \A j \in free : k <= j, name)

(* One iteration of its loop over the files: nothing is created. *)
PickDestination(f) ==
    /\ phase[Of[f]] = "introduced" /\ dest[f] = {}
    /\ dest' = [dest EXCEPT ![f] = {FreePath(Name[f])}]
    /\ phase' = [phase EXCEPT ![Of[f]] =
                    IF \E g \in FilesOf(Of[f]) \ {f} : dest[g] = {}
                      THEN "introduced" ELSE "waiting"]
    /\ UNCHANGED <<written, dir>>

Destinations(files) == UNION {dest[f] : f \in files}

(* accept_transfer; a second Accept is the subject of Connection. *)
AcceptTransfer(t) ==
    /\ phase[t] = "waiting"
    /\ dir' = Created(Destinations(FilesOf(t)))
    /\ phase' = [phase EXCEPT ![t] = "receiving"]
    /\ UNCHANGED <<dest, written>>

(* A file cannot be created: those before it stay. *)
AcceptFails(t) ==
    /\ phase[t] = "waiting"
    /\ \E made \in SUBSET FilesOf(t) :
        /\ made # FilesOf(t)
        /\ dir' = Created(Destinations(made))
    /\ phase' = [phase EXCEPT ![t] = "gone"]
    /\ UNCHANGED <<dest, written>>

(* A chunk of f is stored through f's own handle. *)
Write(f) ==
    /\ phase[Of[f]] = "receiving" /\ written[f] < Length[f]
    /\ \E p \in dest[f] :
        dir' = [dir EXCEPT ![p] = WrittenAt(@, written[f], f)]
    /\ written' = [written EXCEPT ![f] = @ + 1]
    /\ UNCHANGED <<phase, dest>>

(* The last chunk of the last file. *)
Finish(t) ==
    /\ phase[t] = "receiving" /\ \A f \in FilesOf(t) : written[f] = Length[f]
    /\ phase' = [phase EXCEPT ![t] = "finished"]
    /\ UNCHANGED <<dest, written, dir>>

(* Rejected, cancelled or lost: what was stored stays. *)
Drop(t) ==
    /\ phase[t] \in {"waiting", "receiving"}
    /\ phase' = [phase EXCEPT ![t] = "gone"]
    /\ UNCHANGED <<dest, written, dir>>

(* Another program of the user saves a file. *)
Save(p) ==
    /\ ~Exists(p)
    /\ dir' = [q \in DOMAIN dir \cup {p} |-> IF q = p THEN UserFile ELSE dir[q]]
    /\ UNCHANGED <<phase, dest, written>>

Idle == (\A t \in Transfers : phase[t] \in {"finished", "gone"}) /\ UNCHANGED downVars

DownNext ==
    \/ \E t \in Transfers : \/ Introduce(t) \/ AcceptTransfer(t) \/ AcceptFails(t)
                            \/ Finish(t) \/ Drop(t)
    \/ \E f \in Files : PickDestination(f) \/ Write(f)
    \/ \E p \in Saveable : Save(p)
    \/ Idle

DownSpec == DownInit /\ [][DownNext]_downVars

DownTypeOK ==
    /\ phase \in [Transfers ->
                    {"quiet", "introduced", "waiting", "receiving", "finished", "gone"}]
    /\ DOMAIN dest = Files /\ \A f \in Files : dest[f] = {} \/ \E path : dest[f] = {path}
    /\ written \in [Files -> Nat] /\ \A f \in Files : written[f] <= Length[f]
    /\ dir \in [DOMAIN dir -> Seq(Files \cup {"user", "hole"})]

-----------------------------------------------------------------------------
(* Nothing but a shared destination damages a received file: however the     *)
(* tasks and the user interleave, a file whose path no other file was given  *)
(* is at its destination when its transfer has finished, all of it and       *)
(* nothing else.                                                             *)
OnlySharingDamages ==
    \A f \in Files :
        /\ phase[Of[f]] = "finished"
        /\ \A g \in Files \ {f} : dest[f] \cap dest[g] = {}
        => \A p \in dest[f] : Exists(p) /\ dir[p] = Whole(f)

(* The user's files from before the transfers stay as they were: no transfer *)
(* is given a path that existed when it was introduced.                      *)
ExistingFilesAreKept == \A p \in Existing : dir[p] = UserFile
=============================================================================
