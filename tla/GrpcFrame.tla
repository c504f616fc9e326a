----------------------------- MODULE GrpcFrame -----------------------------
(***************************************************************************)
(* The length-prefixed message of a unary gRPC call, as native_api::call   *)
(* of src/sdk_facade.cpp writes and reads it (curl_grpc_transport of       *)
(* src/curl_transport.cpp holds the same code a second time): a byte that  *)
(* says whether the message is compressed, four bytes of length, the       *)
(* message.  A byte has Base values; 256 in the code.                      *)
(***************************************************************************)
EXTENDS Integers, Sequences

CONSTANT Base
ASSUME BaseAssumption == Base \in Nat \ {0, 1}

Wrap == Base * Base * Base * Base     \* one more than the largest uint32_t

LengthBytes(n) == <<(n \div (Base * Base * Base)) % Base, (n \div (Base * Base)) % Base,
                    (n \div Base) % Base, n % Base>>

Frame(payload) == <<0>> \o LengthBytes(Len(payload) % Wrap) \o payload

DeclaredLength(body) ==
    body[2] * Base * Base * Base + body[3] * Base * Base + body[4] * Base + body[5]

Payload(bytes) == [payload |-> bytes]
Failure(code) == [code |-> code]
Undefined == [undefined |-> TRUE]     \* reads behind the end of the body

\* Mutant of Unframe: the five bytes before the message are not counted.
UnframeShort(body) ==
    IF Len(body) < 5 THEN Failure(860)
    ELSE IF body[1] # 0 THEN Failure(861)
    ELSE IF Len(body) < DeclaredLength(body) THEN Failure(862)
    ELSE Payload(SubSeq(body, 6, Len(body)))

\* The sum in the last comparison is a uint32_t and wraps.
Unframe(body) ==
    IF Len(body) < 5 THEN Failure(860)
    ELSE IF body[1] # 0 THEN Failure(861)
    ELSE LET length == DeclaredLength(body)
         IN  IF Len(body) < (5 + length) % Wrap THEN Failure(862)
             ELSE IF Len(body) < 5 + length THEN Undefined
             ELSE Payload(SubSeq(body, 6, 5 + length))
=============================================================================
