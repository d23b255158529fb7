---------------------------- MODULE KeyExchange ----------------------------
(***************************************************************************)
(* The key exchange between a sender, its client, and a receiver, its      *)
(* server: what becomes of a public key on its way, and the PIN code both  *)
(* users see.  A point of the curve is its two coordinates, any numbers of *)
(* Width bytes.  The curve, the hash functions and HKDF are external.      *)
(***************************************************************************)
EXTENDS Integers, SequencesExt

CONSTANTS
    Base,           \* how many values a byte of a coordinate has (256)
    Width,          \* how many bytes a coordinate has (32)
    Coordinates,    \* the coordinates that keys may have
    Kdf(_)          \* HKDF: auth_string, bytes, from what both ends know

(* Base to the power of k. *)
Power[k \in Nat] == IF k = 0 THEN 1 ELSE Base * Power[k - 1]

Coordinate == 0..(Power[Width] - 1)

ASSUME BaseAssumption == Base \in Nat \ {0} /\ Base % 2 = 0
ASSUME WidthAssumption == Width \in Nat \ {0, 1}
ASSUME CoordinatesAssumption == Coordinates \subseteq Coordinate

Modulo == 9973          \* k_hash_modulo
Multiplier == 31        \* k_hash_base_multiplier

VARIABLES
    cKey, sKey,         \* the public keys of the client and of the server
    cState, sState,     \* how far each end is
    serverInit, clientFinish,   \* the keys that are under way, encoded
    cAuth, sAuth        \* what each derives its keys and its PIN from

keyVars == <<cKey, sKey, cState, sState, serverInit, clientFinish, cAuth, sAuth>>

-----------------------------------------------------------------------------
(* Bytes. *)

Value(bytes) == FoldLeft(LAMBDA n, byte : n * Base + byte, 0, bytes)

(* The n of this many bytes, the most significant one first. *)
BigEndian(n, length) ==
    [i \in 1..length |-> (n \div Power[length - i]) % Base]

(* Mutant of EncodedLength: to_bytes_be, without a sign. *)
UnsignedLength(n) ==
    CHOOSE k \in 1..(Width + 1) :
        n < Power[k] /\ \A j \in 1..(k - 1) : n >= Power[j]

(* BigInt::to_signed_bytes_be: as few bytes as hold n and its sign. *)
EncodedLength(n) ==
    CHOOSE k \in 1..(Width + 1) :
        2 * n < Power[k] /\ \A j \in 1..(k - 1) : 2 * n >= Power[j]

encode_point(n) == BigEndian(n, EncodedLength(n))

Encoded(key) == [x |-> encode_point(key.x), y |-> encode_point(key.y)]

(* Mutant of LastBytes: the bytes at the other end go. *)
FirstBytes(bytes) == IF Len(bytes) > Width THEN SubSeq(bytes, 1, Width) ELSE bytes

(* No more than Width bytes of a coordinate, the last ones; never more than *)
(* were received.                                                           *)
LastBytes(bytes) ==
    IF Len(bytes) > Width THEN SubSeq(bytes, Len(bytes) - Width + 1, Len(bytes))
                          ELSE bytes

(* EncodedPoint::from_bytes takes two coordinates of Width bytes. *)
PointBytes(encoded) == LastBytes(encoded.x) \o LastBytes(encoded.y)
IsPoint(encoded) == Len(PointBytes(encoded)) = 2 * Width
Point(encoded) ==
    [x |-> Value(SubSeq(PointBytes(encoded), 1, Width)),
     y |-> Value(SubSeq(PointBytes(encoded), Width + 1, 2 * Width))]

-----------------------------------------------------------------------------
(* to_four_digit_string *)

(* Mutant of Signed: a byte is not an i8. *)
Unsigned(byte) == byte

Signed(byte) == IF byte < 128 THEN byte ELSE byte - 256

(* The remainder of Rust has the sign of the dividend. *)
Rem(a, m) == IF a >= 0 THEN a % m ELSE -((-a) % m)

NextMultiplier(multiplier) == (multiplier * Multiplier) % Modulo

HashStep(acc, byte) ==
    [hash |-> Rem(acc.hash + Signed(byte) * acc.multiplier, Modulo),
     multiplier |-> NextMultiplier(acc.multiplier)]

Hash(bytes) == FoldLeft(HashStep, [hash |-> 0, multiplier |-> 1], bytes)

Abs(n) == IF n < 0 THEN -n ELSE n
to_four_digit_string(bytes) == Abs(Hash(bytes).hash)

-----------------------------------------------------------------------------
Key == [x : Coordinates, y : Coordinates]

KeyInit ==
    /\ cKey \in Key /\ sKey \in Key
    /\ cState = "SentUkeyClientInit" /\ sState = "ReceivedConnectionRequest"
    /\ serverInit = {} /\ clientFinish = {}
    /\ cAuth = {} /\ sAuth = {}

(* The secret is the same from either side; ukey_info is what both have     *)
(* written, of which the server's key is the part that varies.              *)
Auth(own, peer, info) == [secret |-> {own, peer}, info |-> info]

Byte == 0..255

(* HKDF gives bytes for whatever the two ends can have agreed on. *)
ASSUME KdfAssumption ==
    \A client, server \in Key : Kdf(Auth(client, server, Encoded(server))) \in Seq(Byte)

(* The server answers the ClientInit. *)
ServerInit ==
    /\ sState = "ReceivedConnectionRequest" /\ sState' = "SentUkeyServerInit"
    /\ serverInit' = {Encoded(sKey)}
    /\ UNCHANGED <<cKey, sKey, cState, clientFinish, cAuth, sAuth>>

(* finalize_key_exchange of the client, before it answers. *)
ClientFinish ==
    /\ cState = "SentUkeyClientInit"
    /\ \E key \in serverInit :
         IF IsPoint(key)
           THEN /\ cAuth' = {Auth(cKey, Point(key), key)}
                /\ clientFinish' = {Encoded(cKey)}
                /\ cState' = "SentUkeyClientFinish"
           ELSE cState' = "Disconnected" /\ UNCHANGED <<cAuth, clientFinish>>
    /\ UNCHANGED <<cKey, sKey, sState, serverInit, sAuth>>

(* Mutant of ServerFinish: a key that is no point is waited out. *)
ServerFinishOrWait ==
    /\ sState = "SentUkeyServerInit"
    /\ \E key \in clientFinish :
         /\ IsPoint(key)
         /\ sAuth' = {Auth(sKey, Point(key), Encoded(sKey))}
         /\ sState' = "ReceivedUkeyClientFinish"
    /\ UNCHANGED <<cKey, sKey, cState, serverInit, clientFinish, cAuth>>

(* finalize_key_exchange of the server. *)
ServerFinish ==
    /\ sState = "SentUkeyServerInit"
    /\ \E key \in clientFinish :
         IF IsPoint(key)
           THEN /\ sAuth' = {Auth(sKey, Point(key), Encoded(sKey))}
                /\ sState' = "ReceivedUkeyClientFinish"
           ELSE sState' = "Disconnected" /\ UNCHANGED sAuth
    /\ UNCHANGED <<cKey, sKey, cState, serverInit, clientFinish, cAuth>>

(* An end reads that the other has closed the connection. *)
ClientLost ==
    /\ sState = "Disconnected" /\ cState = "SentUkeyClientFinish"
    /\ cState' = "Disconnected"
    /\ UNCHANGED <<cKey, sKey, sState, serverInit, clientFinish, cAuth, sAuth>>

ServerLost ==
    /\ cState = "Disconnected" /\ sState = "SentUkeyServerInit"
    /\ sState' = "Disconnected"
    /\ UNCHANGED <<cKey, sKey, cState, serverInit, clientFinish, cAuth, sAuth>>

KeyNext == ServerInit \/ ClientFinish \/ ServerFinish \/ ClientLost \/ ServerLost

KeySpec == KeyInit /\ [][KeyNext]_keyVars

(* Both tasks get to run. *)
KeyFairSpec == KeySpec /\ WF_keyVars(KeyNext)

-----------------------------------------------------------------------------
(* Two ends that have exchanged keys have exchanged the same ones, and show *)
(* the same PIN: no key is taken for another on its way, however many bytes *)
(* are added to it or left out.                                             *)
PinsMatch ==
    \A client \in cAuth, server \in sAuth :
        client = server /\ to_four_digit_string(Kdf(client)) = to_four_digit_string(Kdf(server))

(* A byte of this coordinate is missing from what encode_point makes of it. *)
(* With 32 bytes about one exchange in 128 has such a key.                  *)
Short(n) == 2 * n < Power[Width - 1]

HasShort(key) == Short(key.x) \/ Short(key.y)

(* Neither end gives up without a coordinate that is short, and neither     *)
(* goes on with a key that has one: what is missing is noticed, whatever    *)
(* else the key is.                                                         *)
OnlyShortKeysFail ==
    /\ cState = "Disconnected" \/ sState = "Disconnected" =>
         HasShort(cKey) \/ HasShort(sKey)
    /\ cState = "SentUkeyClientFinish" => ~HasShort(sKey)
    /\ sState = "ReceivedUkeyClientFinish" => ~HasShort(cKey) /\ ~HasShort(sKey)

(* A key exchange fails if a coordinate is short, since nobody pads it, and *)
(* only then; it fails for both ends: none is left with keys that the other *)
(* has not, and neither waits for the other.                                *)
BothEndsAgree ==
    <>[](IF \E key \in {cKey, sKey} : HasShort(key)
           THEN cState = "Disconnected" /\ sState = "Disconnected"
           ELSE cState = "SentUkeyClientFinish" /\ sState = "ReceivedUkeyClientFinish")

(* The sum that the hash stands for, computed the other way round: each     *)
(* byte, as a signed number, times a power of the multiplier.               *)
SignedSum(bytes) ==
    FoldRight(LAMBDA byte, sum : (((byte + 128) % 256) - 128 + Multiplier * sum) % Modulo,
              bytes, 0)

(* Half of what an i32 can hold, 2 to the power of 30. *)
Half == 1073741824

(* No step of the hash leaves the range of an i32: neither the hash nor the *)
(* multiplier times a byte takes more than half of it.                      *)
NoOverflow(bytes) ==
    \A i \in 0..(Len(bytes) - 1) :
        LET acc == Hash(SubSeq(bytes, 1, i)) IN
          /\ acc.multiplier \in 0..(Half \div 128)
          /\ acc.hash \in (-Half)..Half

(* The PIN is this sum up to its sign and has four digits, and nothing      *)
(* overflows on the way to it.                                              *)
PinIsTheSignedSum ==
    \A auth \in cAuth :
        LET pin == to_four_digit_string(Kdf(auth))
            sum == SignedSum(Kdf(auth))
        IN  /\ NoOverflow(Kdf(auth))
            /\ pin \in Nat /\ pin <= 9999
            /\ pin = sum \/ pin = Modulo - sum
=============================================================================
