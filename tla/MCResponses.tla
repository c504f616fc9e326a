---------------------------- MODULE MCResponses ----------------------------
(* Small exchanges and documents for Responses.  A byte of a gRPC frame    *)
(* has two values, so that lengths wrap at 16; the documents are written   *)
(* in five alphabets, each with the bytes one part of the reader turns on. *)
EXTENDS Responses

MCMessages == {<<>>, <<1>>, <<0, 1>>, [i \in 1..10 |-> 1], [i \in 1..12 |-> 0]}
MCBodies == {Frame(m) : m \in MCMessages} \cup {<<1, 0, 0, 0, 0>>, <<>>}
Numbers == [outside |-> {45, 43, 46, 101, 48, 49}, inside |-> {}, most |-> 6]
Strings == [outside |-> {34}, inside |-> {34, 92, 117, 48, 100, 31}, most |-> 8]
Arrays == [outside |-> {91, 93, 44, 32, 49}, inside |-> {}, most |-> 8]
Objects == [outside |-> {123, 125, 44, 58, 34, 49}, inside |-> {34}, most |-> 12]
Words == [outside |-> {91, 93, 44, 110, 117, 108, 116, 114, 101}, inside |-> {}, most |-> 6]
MCAlphabets == {Numbers, Strings, Arrays, Objects, Words}
=============================================================================
