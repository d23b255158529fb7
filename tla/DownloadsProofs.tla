-------------------------- MODULE DownloadsProofs --------------------------
(***************************************************************************)
(* Theorems about Downloads for any transfers, files, names, lengths and   *)
(* contents of the directory, as long as all of them are finite.           *)
(***************************************************************************)
EXTENDS Downloads, FiniteSetTheorems, TLAPS

-----------------------------------------------------------------------------
(* The choice of a name. *)

LEMMA NumbersDiffer ==
    ASSUME NEW f \in Files, NEW j \in Nat, NEW k \in Nat,
           Numbered(j, Name[f]) = Numbered(k, Name[f])
    PROVE  j = k
<1> DEFINE Parts == {Name[f][i] : i \in DOMAIN Name[f]} \cup Nat
<1>1. Name[f] \in Seq(Parts)
  <2>1. Name[f] \in Seq({Name[f][i] : i \in DOMAIN Name[f]})
    BY NameAssumption
  <2> HIDE DEF Parts
  <2>2. {Name[f][i] : i \in DOMAIN Name[f]} \subseteq Parts
    BY DEF Parts
  <2>3. QED BY <2>1, <2>2
<1>2. \A n \in Nat : (<<n>> \o Name[f])[1] = n
  <2>1. Nat \subseteq Parts
    OBVIOUS
  <2> HIDE DEF Parts
  <2>2. \A n \in Nat : <<n>> \in Seq(Parts) /\ Len(<<n>>) = 1 /\ <<n>>[1] = n
    BY <2>1
  <2>3. QED BY <1>1, <2>2
<1>3. QED BY <1>2 DEF Numbered

(* A set of naturals that is not empty has a least one. *)
LEMMA LeastNatural ==
    ASSUME NEW S \in SUBSET Nat, S # {}
    PROVE  \E k \in S : \A j \in S : k <= j
<1>1. PICK k \in S : \A j \in S : ~(<<j, k>> \in OpToRel(<, Nat))
  BY WFMin, NatLessThanWellFounded
<1>2. \A j \in S : ~(j < k)
  BY <1>1 DEF OpToRel
<1>3. QED BY <1>2

(* The loop of process_introduction finds a path at which there is nothing: *)
(* not all of one more number than there are paths can be taken.            *)
LEMMA FreePathIsFree ==
    ASSUME NEW f \in Files, IsFiniteSet(DOMAIN dir)
    PROVE  ~Exists(FreePath(Name[f]))
<1> DEFINE name == Name[f]
           n == Cardinality(DOMAIN dir)
           free == {k \in 1..(n + 1) : ~Exists(Numbered(k, name))}
<1>1. CASE ~Exists(name)
  BY <1>1 DEF FreePath
<1>2. CASE Exists(name)
  <2>1. n \in Nat
    BY FS_CardinalityType
  <2>2. free # {}
    <3>1. SUFFICES ASSUME free = {} PROVE FALSE
      OBVIOUS
    <3> DEFINE g == [k \in 1..(n + 1) |-> Numbered(k, name)]
    <3>2. g \in [1..(n + 1) -> DOMAIN dir]
      BY <3>1 DEF Exists
    <3>3. IsFiniteSet(1..(n + 1)) /\ Cardinality(1..(n + 1)) = n + 1
      BY <2>1, FS_Interval
    <3>4. Cardinality(DOMAIN dir) < Cardinality(1..(n + 1))
      BY <2>1, <3>3
    <3>5. \E j, k \in 1..(n + 1) : j # k /\ g[j] = g[k]
      <4> HIDE DEF g
      <4>1. QED BY <3>2, <3>3, <3>4, FS_PigeonHole
    <3>6. PICK j \in 1..(n + 1), k \in 1..(n + 1) : j # k /\ g[j] = g[k]
      BY <3>5
    <3>7. Numbered(j, name) = Numbered(k, name) /\ j \in Nat /\ k \in Nat
      BY <2>1, <3>6
    <3>8. QED BY <3>6, <3>7, NumbersDiffer
  <2>3. free \in SUBSET Nat
    BY <2>1
  <2>4. \E k \in free : \A j \in free : k <= j
    BY <2>2, <2>3, LeastNatural
  <2>5. (CHOOSE k \in free : \A j \in free : k <= j) \in free
    BY <2>4
  <2>6. FreePath(name) = Numbered(CHOOSE k \in free : \A j \in free : k <= j, name)
    BY <1>2 DEF FreePath
  <2>7. QED BY <2>5, <2>6
<1>3. QED BY <1>1, <1>2

-----------------------------------------------------------------------------
(* Types. *)

Chunk == Files \cup {"user", "hole"}

(* What TLC needs no invariant for: that dest is a function, dir finite. *)
DownTypes ==
    /\ DownTypeOK /\ dest = [f \in Files |-> dest[f]]
    /\ IsFiniteSet(DOMAIN dir)

LEMMA DestinationsAreFinite ==
    ASSUME DownTypeOK, NEW files \in SUBSET Files
    PROVE  IsFiniteSet(Destinations(files))
<1> DEFINE each == {dest[f] : f \in files}
           d == [f \in files |-> dest[f]]
<1>1. IsFiniteSet(files)
  BY FilesAssumption, FS_Subset
<1>2. d \in Surjection(files, each)
  BY DEF Surjection
<1>3. IsFiniteSet(each)
  <2> HIDE DEF d, each
  <2>1. QED BY <1>1, <1>2, FS_Surjection
<1>4. \A s \in each : IsFiniteSet(s)
  <2>1. \A f \in files : dest[f] = {} \/ \E path : dest[f] = {path}
    BY DEF DownTypeOK
  <2>2. IsFiniteSet({}) /\ \A x : IsFiniteSet({x})
    BY FS_EmptySet, FS_Singleton
  <2>3. \A f \in files : IsFiniteSet(dest[f])
    BY <2>1, <2>2
  <2>4. QED BY <2>3
<1>5. IsFiniteSet(UNION each)
  <2> HIDE DEF each
  <2>1. QED BY <1>3, <1>4, FS_UNION
<1>6. QED BY <1>5 DEF Destinations

LEMMA CreatedKeepsTypes ==
    ASSUME DownTypes, NEW files \in SUBSET Files,
           dir' = Created(Destinations(files))
    PROVE  dir' \in [DOMAIN dir' -> Seq(Chunk)] /\ IsFiniteSet(DOMAIN dir')
<1> DEFINE paths == Destinations(files)
<1>1. IsFiniteSet(paths) /\ IsFiniteSet(DOMAIN dir) /\ dir \in [DOMAIN dir -> Seq(Chunk)]
  BY DestinationsAreFinite DEF DownTypes, DownTypeOK, Chunk
<1>2. DOMAIN dir' = DOMAIN dir \cup paths
  BY DEF Created
<1>3. IsFiniteSet(DOMAIN dir')
  BY <1>1, <1>2, FS_Union
<1>4. dir' = [p \in DOMAIN dir \cup paths |-> IF p \in paths THEN <<>> ELSE dir[p]]
  BY DEF Created
<1>5. <<>> \in Seq(Chunk)
  OBVIOUS
<1>6. dir' \in [DOMAIN dir' -> Seq(Chunk)]
  <2> HIDE DEF paths
  <2>1. QED BY <1>1, <1>2, <1>4, <1>5
<1>7. QED BY <1>3, <1>6

LEMMA WrittenAtIsChunks ==
    ASSUME NEW chunks \in Seq(Chunk), NEW n \in Nat, NEW f \in Files
    PROVE  WrittenAt(chunks, n, f) \in Seq(Chunk)
<1> DEFINE m == IF Len(chunks) > n THEN Len(chunks) ELSE n + 1
           c(i) == IF i = n + 1 THEN f ELSE IF i <= Len(chunks) THEN chunks[i] ELSE "hole"
<1>1. m \in Nat
  OBVIOUS
<1>2. \A i \in 1..m : c(i) \in Chunk
  BY DEF Chunk
<1>3. [i \in 1..m |-> c(i)] \in Seq(Chunk)
  <2> HIDE DEF m, c
  <2>1. QED BY <1>1, <1>2
<1>4. QED BY <1>3 DEF WrittenAt

LEMMA StepKeepsTypes ==
    ASSUME DownTypes, [DownNext]_downVars
    PROVE  DownTypes'
<1> DEFINE Phase == {"quiet", "introduced", "waiting", "receiving", "finished", "gone"}
<1>1. /\ phase \in [Transfers -> Phase] /\ written \in [Files -> Nat]
      /\ dir \in [DOMAIN dir -> Seq(Chunk)] /\ DOMAIN dest = Files
      /\ dest = [f \in Files |-> dest[f]]
      /\ \A f \in Files : dest[f] = {} \/ \E path : dest[f] = {path}
      /\ \A f \in Files : written[f] <= Length[f]
      /\ IsFiniteSet(DOMAIN dir)
  BY DEF DownTypes, DownTypeOK, Chunk
<1>2. ASSUME phase' \in [Transfers -> Phase], UNCHANGED <<dest, written>>,
             dir' \in [DOMAIN dir' -> Seq(Chunk)], IsFiniteSet(DOMAIN dir')
      PROVE  DownTypes'
  BY <1>1, <1>2 DEF DownTypes, DownTypeOK, Chunk
<1>3. ASSUME NEW t \in Transfers, Introduce(t) \/ Finish(t) \/ Drop(t) PROVE DownTypes'
  <2>1. phase' \in [Transfers -> Phase] /\ UNCHANGED <<dest, written, dir>>
    BY <1>1, <1>3 DEF Introduce, Finish, Drop
  <2>2. QED BY <1>1, <1>2, <2>1
<1>4. ASSUME NEW t \in Transfers, AcceptTransfer(t) PROVE DownTypes'
  <2>1. phase' \in [Transfers -> Phase] /\ UNCHANGED <<dest, written>>
    BY <1>1, <1>4 DEF AcceptTransfer
  <2>2. dir' = Created(Destinations(FilesOf(t))) /\ FilesOf(t) \in SUBSET Files
    BY <1>4 DEF AcceptTransfer, FilesOf
  <2>3. QED BY <1>2, <2>1, <2>2, CreatedKeepsTypes
<1>5. ASSUME NEW t \in Transfers, AcceptFails(t) PROVE DownTypes'
  <2>1. phase' \in [Transfers -> Phase] /\ UNCHANGED <<dest, written>>
    BY <1>1, <1>5 DEF AcceptFails
  <2>2. PICK made \in SUBSET Files : dir' = Created(Destinations(made))
    BY <1>5 DEF AcceptFails, FilesOf
  <2>3. QED BY <1>2, <2>1, <2>2, CreatedKeepsTypes
<1>6. ASSUME NEW f \in Files, PickDestination(f) PROVE DownTypes'
  <2>1. dest' = [dest EXCEPT ![f] = {FreePath(Name[f])}] /\ UNCHANGED <<written, dir>>
    BY <1>6 DEF PickDestination
  <2>2. phase' \in [Transfers -> Phase]
    BY <1>1, <1>6 DEF PickDestination
  <2>3. /\ DOMAIN dest' = Files /\ dest' = [g \in Files |-> dest'[g]]
        /\ \A g \in Files : dest'[g] = {} \/ \E path : dest'[g] = {path}
    BY <1>1, <2>1
  <2>4. QED BY <1>1, <2>1, <2>2, <2>3 DEF DownTypes, DownTypeOK, Chunk
<1>7. ASSUME NEW f \in Files, Write(f) PROVE DownTypes'
  <2>1. /\ UNCHANGED <<phase, dest>> /\ written' = [written EXCEPT ![f] = @ + 1]
        /\ written[f] < Length[f]
    BY <1>7 DEF Write
  <2>2. PICK p \in dest[f] : dir' = [dir EXCEPT ![p] = WrittenAt(@, written[f], f)]
    BY <1>7 DEF Write
  <2>3. DOMAIN dir' = DOMAIN dir
    BY <2>2
  <2>4. p \in DOMAIN dir => WrittenAt(dir[p], written[f], f) \in Seq(Chunk)
    BY <1>1, WrittenAtIsChunks
  <2>5. dir' \in [DOMAIN dir' -> Seq(Chunk)]
    BY <1>1, <2>2, <2>3, <2>4
  <2>6. written' \in [Files -> Nat] /\ \A g \in Files : written'[g] <= Length[g]
    <3>1. written[f] \in Nat /\ Length[f] \in Nat
      BY <1>1, LengthAssumption
    <3>2. written[f] + 1 \in Nat /\ written[f] + 1 <= Length[f]
      BY <2>1, <3>1
    <3>3. written' \in [Files -> Nat]
      BY <1>1, <2>1, <3>2
    <3>4. \A g \in Files : written'[g] = IF g = f THEN written[f] + 1 ELSE written[g]
      BY <1>1, <2>1
    <3>5. QED BY <1>1, <3>2, <3>3, <3>4
  <2>7. QED BY <1>1, <2>1, <2>3, <2>5, <2>6 DEF DownTypes, DownTypeOK, Chunk
<1>8. ASSUME NEW p \in Saveable, Save(p) PROVE DownTypes'
  <2>1. /\ UNCHANGED <<phase, dest, written>>
        /\ dir' = [q \in DOMAIN dir \cup {p} |-> IF q = p THEN UserFile ELSE dir[q]]
    BY <1>8 DEF Save
  <2>2. UserFile \in Seq(Chunk)
    BY DEF UserFile, Chunk
  <2>3. dir' \in [DOMAIN dir' -> Seq(Chunk)]
    BY <1>1, <2>1, <2>2
  <2>4. IsFiniteSet(DOMAIN dir')
    BY <1>1, <2>1, FS_AddElement
  <2>5. QED BY <1>1, <1>2, <2>1, <2>3, <2>4
<1>9. CASE UNCHANGED downVars
  BY <1>1, <1>2, <1>9 DEF downVars
<1>10. QED BY <1>3, <1>4, <1>5, <1>6, <1>7, <1>8, <1>9 DEF DownNext, Idle

LEMMA TypesStay == DownSpec => []DownTypes
<1>1. DownInit => DownTypes
  <2> SUFFICES ASSUME DownInit PROVE DownTypes
    OBVIOUS
  <2>1. DOMAIN dir = Existing /\ dir = [p \in Existing |-> UserFile]
    BY DEF DownInit
  <2>2. UserFile \in Seq(Chunk)
    BY DEF UserFile, Chunk
  <2>3. dir \in [DOMAIN dir -> Seq(Chunk)] /\ IsFiniteSet(DOMAIN dir)
    BY <2>1, <2>2, ExistingAssumption
  <2>4. written \in [Files -> Nat] /\ \A f \in Files : written[f] <= Length[f]
    BY LengthAssumption DEF DownInit
  <2>5. QED BY <2>3, <2>4 DEF DownInit, DownTypes, DownTypeOK, Chunk
<1>2. DownTypes /\ [DownNext]_downVars => DownTypes'
  BY StepKeepsTypes
<1>3. QED BY <1>1, <1>2, PTL DEF DownSpec

(* The variables stay in their types: a file has one destination at most,   *)
(* and no more of it is written than it is long.                            *)
THEOREM DownTypeCorrect == DownSpec => []DownTypeOK
<1>1. DownTypes => DownTypeOK
  BY DEF DownTypes
<1>2. QED BY <1>1, TypesStay, PTL

-----------------------------------------------------------------------------
(* What existed is there, and is the destination of no file. *)
Untouched ==
    \A p \in Existing : Exists(p) /\ dir[p] = UserFile /\ \A f \in Files : p \notin dest[f]

LEMMA StepLeavesExisting ==
    ASSUME DownTypes, Untouched, [DownNext]_downVars
    PROVE  Untouched'
<1> USE DEF Untouched, Exists
<1>1. ASSUME UNCHANGED <<dest, dir>> PROVE Untouched'
  BY <1>1
<1>2. ASSUME NEW files \in SUBSET Files, dir' = Created(Destinations(files)), UNCHANGED dest
      PROVE  Untouched'
  <2>1. \A p \in Existing : p \notin Destinations(files)
    BY DEF Destinations
  <2>2. QED BY <1>2, <2>1 DEF Created
<1>3. ASSUME NEW t \in Transfers,
             Introduce(t) \/ AcceptTransfer(t) \/ AcceptFails(t) \/ Finish(t) \/ Drop(t)
      PROVE  Untouched'
  <2>1. CASE Introduce(t) \/ Finish(t) \/ Drop(t)
    BY <1>1, <2>1 DEF Introduce, Finish, Drop
  <2>2. CASE AcceptTransfer(t)
    BY <1>2, <2>2 DEF AcceptTransfer, FilesOf
  <2>3. CASE AcceptFails(t)
    <3>1. PICK made \in SUBSET Files : dir' = Created(Destinations(made))
      BY <2>3 DEF AcceptFails, FilesOf
    <3>2. QED BY <1>2, <2>3, <3>1 DEF AcceptFails
  <2>4. QED BY <1>3, <2>1, <2>2, <2>3
<1>4. ASSUME NEW f \in Files, PickDestination(f) PROVE Untouched'
  <2>1. ~Exists(FreePath(Name[f]))
    BY FreePathIsFree DEF DownTypes
  <2>2. dest' = [dest EXCEPT ![f] = {FreePath(Name[f])}] /\ dir' = dir
    BY <1>4 DEF PickDestination
  <2>3. QED BY <2>1, <2>2 DEF DownTypes, DownTypeOK
<1>5. ASSUME NEW f \in Files, Write(f) PROVE Untouched'
  <2>1. PICK p \in dest[f] : dir' = [dir EXCEPT ![p] = WrittenAt(@, written[f], f)]
    BY <1>5 DEF Write
  <2>2. QED BY <1>5, <2>1 DEF Write
<1>6. ASSUME NEW p \in Saveable, Save(p) PROVE Untouched'
  BY <1>6 DEF Save
<1>7. CASE UNCHANGED downVars
  BY <1>1, <1>7 DEF downVars
<1>8. QED BY <1>3, <1>4, <1>5, <1>6, <1>7 DEF DownNext, Idle

(* The user's files from before the transfers stay as they were, whatever   *)
(* names the peers announce and however their transfers interleave: the     *)
(* number that is looked for is always found, and File::create truncates    *)
(* nothing that was there.                                                  *)
THEOREM ExistingKept == DownSpec => []ExistingFilesAreKept
<1>1. DownInit => Untouched
  BY DEF DownInit, Untouched, Exists
<1>2. DownTypes /\ Untouched /\ [DownNext]_downVars => Untouched'
  BY StepLeavesExisting
<1>3. Untouched => ExistingFilesAreKept
  BY DEF Untouched, ExistingFilesAreKept
<1>4. QED BY <1>1, <1>2, <1>3, TypesStay, PTL DEF DownSpec

-----------------------------------------------------------------------------
(* What is stored of a file: all that was written, unless it shares its     *)
(* destination with another one.                                            *)
Shares(f) == \E g \in Files \ {f} : dest[f] \cap dest[g] # {}
Stored(f) == \A p \in dest[f] : Exists(p) /\ dir[p] = [i \in 1..written[f] |-> f]

UnsharedAreStored ==
    \A f \in Files :
        /\ phase[Of[f]] \in {"quiet", "introduced", "waiting"} => written[f] = 0
        /\ phase[Of[f]] \in {"receiving", "finished"} /\ ~Shares(f) => Stored(f)
        /\ phase[Of[f]] = "finished" => written[f] = Length[f]

(* The next chunk of a handle goes after those it has written. *)
LEMMA NextChunk ==
    ASSUME NEW f \in Files, NEW n \in Nat
    PROVE  WrittenAt([i \in 1..n |-> f], n, f) = [i \in 1..(n + 1) |-> f]
<1> DEFINE chunks == [i \in 1..n |-> f]
<1>1. Len(chunks) = n
  <2>1. chunks \in Seq(Files) /\ DOMAIN chunks = 1..n
    OBVIOUS
  <2> HIDE DEF chunks
  <2>2. QED BY <2>1
<1>2. \A i \in 1..n : chunks[i] = f
  OBVIOUS
<1>3. WrittenAt(chunks, n, f) =
        [i \in 1..(IF Len(chunks) > n THEN Len(chunks) ELSE n + 1) |->
           IF i = n + 1 THEN f ELSE IF i <= Len(chunks) THEN chunks[i] ELSE "hole"]
  BY DEF WrittenAt
<1> HIDE DEF chunks
<1>4. (IF Len(chunks) > n THEN Len(chunks) ELSE n + 1) = n + 1
  BY <1>1
<1>5. \A i \in 1..(n + 1) :
        (IF i = n + 1 THEN f ELSE IF i <= Len(chunks) THEN chunks[i] ELSE "hole") = f
  BY <1>1, <1>2
<1>6. WrittenAt(chunks, n, f) = [i \in 1..(n + 1) |-> f]
  BY <1>3, <1>4, <1>5
<1>7. QED BY <1>6 DEF chunks

LEMMA StepStores ==
    ASSUME DownTypes, UnsharedAreStored, [DownNext]_downVars
    PROVE  UnsharedAreStored'
<1>1. /\ DOMAIN dest = Files /\ written \in [Files -> Nat] /\ DOMAIN phase = Transfers
      /\ \A f \in Files : Of[f] \in Transfers
      /\ \A f \in Files : \A p, q \in dest[f] : p = q
  BY FilesAssumption DEF DownTypes, DownTypeOK
(* What does not touch what is stored of a file. *)
<1>2. ASSUME NEW f \in Files, written'[f] = written[f], dest'[f] = dest[f],
             \A p \in dest[f] : Exists(p) => Exists(p)' /\ dir'[p] = dir[p], Stored(f)
      PROVE  Stored(f)'
  BY <1>2 DEF Stored
<1>3. ASSUME UNCHANGED <<dest, written, dir>>, NEW t \in Transfers, NEW now,
             phase' = [phase EXCEPT ![t] = now],
             \/ now = "introduced" /\ phase[t] = "quiet"
             \/ now = "gone"
             \/ /\ now = "finished" /\ phase[t] = "receiving"
                /\ \A f \in FilesOf(t) : written[f] = Length[f]
      PROVE  UnsharedAreStored'
  <2> SUFFICES ASSUME NEW f \in Files
      PROVE  /\ phase'[Of[f]] \in {"quiet", "introduced", "waiting"} => written[f] = 0
             /\ phase'[Of[f]] \in {"receiving", "finished"} /\ ~Shares(f) => Stored(f)
             /\ phase'[Of[f]] = "finished" => written[f] = Length[f]
    BY <1>3 DEF UnsharedAreStored, Shares, Stored, Exists
  <2>1. phase'[Of[f]] = IF Of[f] = t THEN now ELSE phase[Of[f]]
    BY <1>1, <1>3
  <2>2. CASE Of[f] # t
    BY <2>1, <2>2 DEF UnsharedAreStored
  <2>3. CASE Of[f] = t
    BY <1>3, <2>1, <2>3 DEF UnsharedAreStored, FilesOf
  <2>4. QED BY <2>2, <2>3
<1>4. ASSUME NEW t \in Transfers, Introduce(t) \/ Finish(t) \/ Drop(t)
      PROVE  UnsharedAreStored'
  <2>1. CASE Introduce(t)
    BY <1>3, <2>1 DEF Introduce
  <2>2. CASE Finish(t)
    BY <1>3, <2>2 DEF Finish
  <2>3. CASE Drop(t)
    BY <1>3, <2>3 DEF Drop
  <2>4. QED BY <1>4, <2>1, <2>2, <2>3
(* Files are created at the destinations of these. *)
<1>5. ASSUME NEW t \in Transfers, phase[t] = "waiting", NEW files \in SUBSET FilesOf(t),
             dir' = Created(Destinations(files)), UNCHANGED <<dest, written>>,
             \/ phase' = [phase EXCEPT ![t] = "receiving"] /\ files = FilesOf(t)
             \/ phase' = [phase EXCEPT ![t] = "gone"]
      PROVE  UnsharedAreStored'
  <2> SUFFICES ASSUME NEW f \in Files
      PROVE  /\ phase'[Of[f]] \in {"quiet", "introduced", "waiting"} => written[f] = 0
             /\ phase'[Of[f]] \in {"receiving", "finished"} /\ ~Shares(f) => Stored(f)'
             /\ phase'[Of[f]] = "finished" => written[f] = Length[f]
    BY <1>5 DEF UnsharedAreStored, Shares
  <2>1. CASE Of[f] = t
    <3>1. written[f] = 0 /\ phase'[Of[f]] \in {"receiving", "gone"}
      BY <1>1, <1>5, <2>1 DEF UnsharedAreStored
    <3>2. ASSUME phase'[Of[f]] = "receiving" PROVE Stored(f)'
      <4>1. f \in files
        BY <1>1, <1>5, <2>1, <3>2 DEF FilesOf
      <4>2. \A p \in dest[f] : p \in DOMAIN dir' /\ dir'[p] = <<>>
        BY <1>5, <4>1 DEF Created, Destinations
      <4>3. [i \in 1..0 |-> f] = <<>>
        OBVIOUS
      <4>4. QED BY <1>5, <3>1, <4>2, <4>3 DEF Stored, Exists
    <3>3. QED BY <3>1, <3>2
  <2>2. CASE Of[f] # t
    <3>1. phase'[Of[f]] = phase[Of[f]]
      BY <1>1, <1>5, <2>2
    <3>2. ASSUME Stored(f), ~Shares(f) PROVE Stored(f)'
      <4>1. \A p \in dest[f] : p \notin Destinations(files)
        BY <2>2, <3>2 DEF Shares, Destinations, FilesOf
      <4>2. \A p \in dest[f] : Exists(p) => Exists(p)' /\ dir'[p] = dir[p]
        BY <1>5, <4>1 DEF Created, Exists
      <4>3. QED BY <1>2, <1>5, <3>2, <4>2
    <3>3. QED BY <3>1, <3>2 DEF UnsharedAreStored
  <2>3. QED BY <2>1, <2>2
<1>6. ASSUME NEW t \in Transfers, AcceptTransfer(t) PROVE UnsharedAreStored'
  BY <1>5, <1>6 DEF AcceptTransfer
<1>7. ASSUME NEW t \in Transfers, AcceptFails(t) PROVE UnsharedAreStored'
  <2>1. PICK made \in SUBSET FilesOf(t) : dir' = Created(Destinations(made))
    BY <1>7 DEF AcceptFails
  <2>2. QED BY <1>5, <1>7, <2>1 DEF AcceptFails
<1>8. ASSUME NEW f \in Files, PickDestination(f) PROVE UnsharedAreStored'
  <2> DEFINE t == Of[f]
  <2>1. /\ phase[t] = "introduced" /\ dest[f] = {} /\ UNCHANGED <<written, dir>>
        /\ dest' = [dest EXCEPT ![f] = {FreePath(Name[f])}]
    BY <1>8 DEF PickDestination
  <2>2. PICK now \in {"introduced", "waiting"} : phase' = [phase EXCEPT ![t] = now]
    BY <1>8 DEF PickDestination
  <2> SUFFICES ASSUME NEW g \in Files
      PROVE  /\ phase'[Of[g]] \in {"quiet", "introduced", "waiting"} => written[g] = 0
             /\ phase'[Of[g]] \in {"receiving", "finished"} /\ ~Shares(g)' => Stored(g)'
             /\ phase'[Of[g]] = "finished" => written[g] = Length[g]
    BY <2>1 DEF UnsharedAreStored
  <2>3. CASE Of[g] = t
    <3>1. phase'[Of[g]] \in {"introduced", "waiting"} /\ written[g] = 0
      BY <1>1, <2>1, <2>2, <2>3 DEF UnsharedAreStored
    <3>2. QED BY <3>1
  <2>4. CASE Of[g] # t
    <3>1. phase'[Of[g]] = phase[Of[g]] /\ dest'[g] = dest[g]
      BY <1>1, <2>1, <2>2, <2>4
    <3>2. ASSUME ~Shares(g)' PROVE ~Shares(g)
      <4>1. \A h \in Files : dest[h] = dest'[h] \/ dest[h] = {}
        BY <1>1, <2>1
      <4>2. QED BY <3>1, <3>2, <4>1 DEF Shares
    <3>3. Stored(g) => Stored(g)'
      BY <1>2, <2>1, <3>1 DEF Exists
    <3>4. QED BY <3>1, <3>2, <3>3 DEF UnsharedAreStored
  <2>5. QED BY <2>3, <2>4
<1>9. ASSUME NEW f \in Files, Write(f) PROVE UnsharedAreStored'
  <2>1. /\ phase[Of[f]] = "receiving" /\ UNCHANGED <<phase, dest>>
        /\ written' = [written EXCEPT ![f] = @ + 1]
    BY <1>9 DEF Write
  <2>2. PICK p \in dest[f] : dir' = [dir EXCEPT ![p] = WrittenAt(@, written[f], f)]
    BY <1>9 DEF Write
  <2> SUFFICES ASSUME NEW g \in Files
      PROVE  /\ phase[Of[g]] \in {"quiet", "introduced", "waiting"} => written'[g] = 0
             /\ phase[Of[g]] \in {"receiving", "finished"} /\ ~Shares(g) => Stored(g)'
             /\ phase[Of[g]] = "finished" => written'[g] = Length[g]
    BY <2>1 DEF UnsharedAreStored, Shares
  <2>3. CASE g = f
    <3>1. written'[f] = written[f] + 1 /\ written[f] \in Nat
      BY <1>1, <2>1
    <3>2. ASSUME Stored(f) PROVE Stored(f)'
      <4>1. p \in DOMAIN dir /\ dir[p] = [i \in 1..written[f] |-> f]
        BY <2>2, <3>2 DEF Stored, Exists
      <4>2. p \in DOMAIN dir' /\ dir'[p] = WrittenAt(dir[p], written[f], f)
        BY <2>2, <4>1
      <4>3. dir'[p] = [i \in 1..written'[f] |-> f]
        BY <3>1, <4>1, <4>2, NextChunk
      <4>4. \A q \in dest'[f] : q = p
        BY <1>1, <2>1, <2>2
      <4>5. QED BY <4>2, <4>3, <4>4 DEF Stored, Exists
    <3>3. QED BY <2>1, <2>3, <3>2 DEF UnsharedAreStored
  <2>4. CASE g # f
    <3>1. written'[g] = written[g]
      BY <1>1, <2>1, <2>4
    <3>2. ASSUME ~Shares(g), Stored(g) PROVE Stored(g)'
      <4>1. p \notin dest[g]
        BY <2>2, <2>4, <3>2 DEF Shares
      <4>2. \A q \in dest[g] : Exists(q) => Exists(q)' /\ dir'[q] = dir[q]
        BY <2>2, <4>1 DEF Exists
      <4>3. QED BY <1>2, <2>1, <3>1, <3>2, <4>2
    <3>3. QED BY <3>1, <3>2 DEF UnsharedAreStored
  <2>5. QED BY <2>3, <2>4
<1>10. ASSUME NEW p \in Saveable, Save(p) PROVE UnsharedAreStored'
  <2>1. \A q : Exists(q) => Exists(q)' /\ dir'[q] = dir[q]
    BY <1>10 DEF Save, Exists
  <2>2. \A f \in Files : Stored(f) => Stored(f)'
    BY <1>2, <1>10, <2>1 DEF Save
  <2>3. QED BY <1>10, <2>2 DEF Save, UnsharedAreStored, Shares
<1>11. CASE UNCHANGED downVars
  BY <1>11 DEF downVars, UnsharedAreStored, Shares, Stored, Exists
<1>12. QED BY <1>4, <1>6, <1>7, <1>8, <1>9, <1>10, <1>11 DEF DownNext, Idle

(* Nothing but a shared destination damages a received file, in whatever    *)
(* order the tasks introduce, accept and write, and the user saves files.   *)
THEOREM OnlySharing == DownSpec => []OnlySharingDamages
<1>1. DownInit => UnsharedAreStored
  BY FilesAssumption DEF DownInit, UnsharedAreStored
<1>2. DownTypes /\ UnsharedAreStored /\ [DownNext]_downVars => UnsharedAreStored'
  BY StepStores
<1>3. UnsharedAreStored => OnlySharingDamages
  <2> SUFFICES ASSUME UnsharedAreStored, NEW f \in Files, phase[Of[f]] = "finished",
                      \A g \in Files \ {f} : dest[f] \cap dest[g] = {}
               PROVE  \A p \in dest[f] : Exists(p) /\ dir[p] = Whole(f)
    BY DEF OnlySharingDamages
  <2>1. Stored(f) /\ written[f] = Length[f]
    BY DEF UnsharedAreStored, Shares
  <2>2. QED BY <2>1 DEF Stored, Whole
<1>4. QED BY <1>1, <1>2, <1>3, TypesStay, PTL DEF DownSpec
=============================================================================
