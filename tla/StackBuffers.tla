---------------------------- MODULE StackBuffers ----------------------------
(***************************************************************************)
(* The buffers of the connections: stack_request, a vector read from the   *)
(* front, stack_response, a vector written at the end, and the encoding of *)
(* the values that pass through them.  A response is a sequence of bytes,  *)
(* a request a record of its bytes and the number already extracted.       *)
(*                                                                         *)
(* A byte is known by where it comes from: byte i of the text of message   *)
(* m, or byte i of the encoding of the number n.                           *)
(***************************************************************************)
EXTENDS Naturals, Sequences

CONSTANT SizeBytes  \* sizeof(unsigned int)

ASSUME SizeBytesAssumption == SizeBytes \in Nat \ {0}

TextByte(m, i) == <<"text", m, i>>
SizeByte(n, i) == <<"size", n, i>>
ZeroByte == <<"zero", 0, 0>>

Text(m, n) == [i \in 1..n |-> TextByte(m, i)]

(* operator<<(unsigned int): the bytes of n, least significant first.      *)
Size(n) == [i \in 1..SizeBytes |-> SizeByte(n, i)]

(* operator>>(unsigned int): bytes that are not those of one number make   *)
(* up some other number, "garbage".                                        *)
Number(bytes, garbage) == IF bytes = Size(bytes[1][2]) THEN bytes[1][2] ELSE garbage

(* operator<<(std::string): the size, then the text.                       *)
String(text) == Size(Len(text)) \o text

Empty == [data |-> <<>>, extracted |-> 0]

(* stack_request::resize, which the vector does at its end: it cuts bytes  *)
(* off or appends zeros.                                                   *)
Resize(request, n) ==
  [request EXCEPT !.data = [i \in 1..n |-> IF i <= Len(@) THEN @[i] ELSE ZeroByte]]

(* A faulty variant: the extracted bytes stay. *)
ShrinkForgotten(request) == request

(* stack_request::shrink drops what was extracted. *)
Shrink(request) ==
  [data |-> SubSeq(request.data, request.extracted + 1, Len(request.data)),
   extracted |-> 0]

(* stack_request::extract_data throws unless n bytes are left. *)
HasData(request, n) == n + request.extracted <= Len(request.data)

(* The bytes a successful extract_data copies, and what it leaves. *)
Extracted(request, n) ==
  SubSeq(request.data, request.extracted + 1, request.extracted + n)

Extract(request, n) == [request EXCEPT !.extracted = @ + n]

(* begin() + i := byte, for the bytes a socket delivers. *)
Store(request, i, bytes) ==
  [request EXCEPT !.data =
     [j \in 1..Len(@) |-> IF j \in i + 1 .. i + Len(bytes) THEN bytes[j - i] ELSE @[j]]]

InsertBytes(response, bytes, i) ==
  SubSeq(response, 1, i) \o bytes \o SubSeq(response, i + 1, Len(response))

(* stack_response::put_data(data, size, pos): a pos past the end appends;  *)
(* any other inserts at begin() + size, whatever pos is.  Where that is    *)
(* past the end the program has undefined behaviour: the bytes may end up  *)
(* anywhere.                                                               *)
PutData(response, bytes, pos) ==
  IF pos >= Len(response)
  THEN {response \o bytes}
  ELSE {InsertBytes(response, bytes, i) :
          i \in IF Len(bytes) <= Len(response) THEN {Len(bytes)} ELSE 0..Len(response)}
=============================================================================
