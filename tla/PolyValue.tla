------------------------------ MODULE PolyValue ------------------------------
(***************************************************************************)
(* class PolyValue of reactive/poly_value.h: a value whose type has been      *)
(* erased, on its way from a sender to a receiver that asks for some type. On *)
(* the way it may travel over the network: it is serialized, and what arrives *)
(* is packed as a SerializedValue, and parsed only when it is unpacked.       *)
(*                                                                            *)
(* A SharedMsg (reactive/protobuf.h) and a shared_ptr are shared with the     *)
(* sender, which may go on to write to what they hold; other values are moved. *)
(***************************************************************************)
EXTENDS Status, Naturals

CONSTANTS Types,
          Copyable,      \* is_copy_constructible
          Serializable,  \* SerializationTraits<T>::Available()
          SharedMsgs,    \* SharedMsg<T>
          PointerTo,     \* PointerTo[T]: the type shared_ptr<T>, of a T that
                         \* can be moved only
          Blob,          \* the type SerializedValue
          Garbage,       \* what a message of another type is parsed into
          MaxWrites, MaxTrips

MoveOnly == Types \ Copyable
Pointers == {PointerTo[T] : T \in MoveOnly}

\* A pointer can be copied, and has no serializer.
ASSUME PolyValueAssumption ==
  /\ Copyable \subseteq Types /\ Serializable \subseteq Types
  /\ SharedMsgs \subseteq Copyable \cap Serializable
  /\ Blob \in Types \ (Copyable \cup Serializable)
  /\ PointerTo \in [MoveOnly -> Copyable \ Serializable]
  /\ \A T, U \in MoveOnly : PointerTo[T] = PointerTo[U] => T = U
  /\ Garbage \notin Nat
  /\ NoValue \notin Types
  /\ MaxWrites \in Nat /\ MaxTrips \in Nat

VARIABLES value,    \* the absl::any of the PolyValue, or NoValue: consumed
          origin,   \* the type that was packed first, also as bytes, or NoValue
          content,  \* what the sender's message holds now
          sent,     \* what it held when the value left the sender's memory
          wire,     \* serialized bytes under way, or NoValue
          trips,    \* times the value was packed as bytes, as it is when it
                    \* arrives from the network
          resent,   \* it was to be serialized when it was bytes
          asked,    \* the type the receiver asked for, or NoValue
          result    \* what the receiver got, a StatusOr, or NoValue

polyVars == <<value, origin, content, sent, wire, trips, resent, asked, result>>

PolyInit == /\ value = NoValue /\ origin = NoValue
        /\ content = 0 /\ sent = 0
        /\ wire = NoValue /\ trips = 0 /\ resent = FALSE
        /\ asked = NoValue /\ result = NoValue

-----------------------------------------------------------------------------
(* The operations, as functions of the stored value.                         *)

\* The type of the object in the absl::any of a packed T, lines 122 and 148: a
\* value that cannot be copied goes into a shared_ptr.
Stored(T) == IF T \in Copyable THEN T ELSE PointerTo[T]

\* Pack<T>, lines 119-167: one that can be serialized is stored with a serializer
\* of T.
Pack(T, data) == [stored |-> Stored(T),
                  serializer |-> IF T \in Serializable THEN T ELSE NoValue,
                  shared |-> T \in SharedMsgs \cup Pointers,
                  data |-> data]

\* What the sender shares is read when it is used.
Read(v) == IF v.shared THEN content ELSE v.data

\* Serialize, poly_value.cc:21-31, and the serializers.
Serialize(v) == IF v.serializer = NoValue
                  THEN Failed("INVALID_ARGUMENT")
                  ELSE Ok([of |-> v.serializer, data |-> Read(v)])

\* SerializationTraits<T>::Parse, the possible results: bytes do not tell which
\* message they are of.
Parse(T, bytes) ==
  IF T \notin Serializable THEN {Failed("UNAVAILABLE")}
  ELSE IF bytes.of = T     THEN {Ok(bytes.data)}
                           ELSE {Failed("INTERNAL"), Ok(Garbage)}

\* Mutant: whatever is stored is taken.
AnyType(T, v) == TRUE

\* Is, lines 244-248, of T, or of shared_ptr<T> if T can be moved only.
IsType(T, v) == v.stored = Stored(T)

\* Mutant: a value with a serializer is not looked into.
Wrapped(T, v) == v.serializer = NoValue /\ IsType(T, v)

\* Lines 193-197: a serializer is dropped first.
Matches(T, v) == IsType(T, v)

\* CheckType, lines 234-242.
CheckType(T, v) == IF Matches(T, v) THEN "OK" ELSE "INVALID_ARGUMENT"

\* The value is a shared_ptr<SerializedValue>, lines 185 and 204.
IsBytes(v) == v.stored = PointerTo[Blob]

\* Unpack<T>, lines 182-222, the possible results.
Unpack(T, v) == IF IsBytes(v)
                  THEN Parse(T, v.data)
                  ELSE {ReturnIfError(CheckType(T, v), Ok(Read(v)))}

-----------------------------------------------------------------------------
(* The way of a value.                                                       *)

BytesTypes == {Blob, PointerTo[Blob]}

SenderPacks == /\ origin = NoValue
               /\ \E T \in Types \ BytesTypes :
                    origin' = T /\ value' = Pack(T, content)
               /\ sent' = content
               /\ UNCHANGED <<content, wire, trips, resent, asked, result>>

\* "A value of type SerializedValue can be passed in" (line 116), as it is when it
\* was received; one in a shared_ptr is not told from it.
SenderPacksBytes == /\ origin = NoValue
                    /\ \E T \in Serializable, B \in BytesTypes :
                         /\ origin' = T
                         /\ value' = Pack(B, [of |-> T, data |-> content])
                    /\ sent' = content
                    /\ trips' = trips + 1
                    /\ UNCHANGED <<content, wire, resent, asked, result>>

SenderWrites == /\ content < MaxWrites
                /\ content' = content + 1
                /\ UNCHANGED <<value, origin, sent, wire, trips, resent, asked,
                               result>>

\* The value is consumed; an error goes to whoever waits for the result.
GoesOut == /\ value # NoValue
           /\ trips < MaxTrips
           /\ LET r == Serialize(value)
              IN /\ wire' = IF IsOk(r) THEN r.value ELSE NoValue
                 /\ result' = IF IsOk(r) THEN NoValue ELSE r
                 /\ sent' = IF IsOk(r) THEN r.value.data ELSE sent
           /\ value' = NoValue
           /\ resent' = (trips > 0)
           /\ UNCHANGED <<origin, content, trips, asked>>

Arrives == /\ wire # NoValue
           /\ value' = Pack(Blob, wire)
           /\ wire' = NoValue
           /\ trips' = trips + 1
           /\ UNCHANGED <<origin, content, sent, resent, asked, result>>

\* The receiver asks for a type; the value is consumed, whatever the result.
ReceiverUnpacks == /\ value # NoValue
                   /\ \E T \in Types : /\ asked' = T
                                       /\ result' \in Unpack(T, value)
                   /\ value' = NoValue
                   /\ sent' = IF value.shared /\ ~IsBytes(value) THEN content ELSE sent
                   /\ UNCHANGED <<origin, content, wire, trips, resent>>

Received == result # NoValue /\ UNCHANGED polyVars

PolyNext == SenderPacks \/ SenderPacksBytes \/ SenderWrites \/ GoesOut \/ Arrives
            \/ ReceiverUnpacks \/ Received

PolySpec == PolyInit /\ [][PolyNext]_polyVars

-----------------------------------------------------------------------------
(* Properties.                                                               *)

\* Of T and U, one is the shared_ptr that a value of the other one is stored in.
SameStored(T, U) == T # U /\ Stored(T) = Stored(U)

\* "errors like trying to unpack a value which was packed using T' with T != T'"
\* (line 175): what a receiver gets it has asked for by its type, and it is what
\* was sent; or it was in memory, the two types are stored as the same shared_ptr
\* and no error tells them apart (line 247); or it came as bytes, which do not say
\* what they are, and were parsed into a message of another type (line 271).
TypeSafe == result # NoValue /\ IsOk(result) =>
  \/ asked = origin /\ result.value = sent
  \/ trips = 0 /\ SameStored(asked, origin) /\ result.value = sent
  \/ trips > 0 /\ asked # origin /\ asked \in Serializable /\ result.value = Garbage

\* "which work similar on the network as in memory" (line 70): who asks for the
\* right type gets the value as it left the sender, wherever it has been, and it is
\* lost on the way only if it cannot be serialized, or is bytes already.
RoundTrip == result # NoValue =>
  /\ asked = origin  => result = Ok(sent)
  /\ asked = NoValue => origin \notin Serializable \/ resent

=============================================================================
