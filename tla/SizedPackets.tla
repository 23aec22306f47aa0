---------------------------- MODULE SizedPackets ----------------------------
(***************************************************************************)
(* The writing side of tcp_connection, tcp_ssl_connection and              *)
(* udp_connection, the clients that put the size of a packet in front of   *)
(* it: operator<< collects values in response_, and write, called by the   *)
(* first operator>> and by close, sends them.                              *)
(***************************************************************************)
EXTENDS StackBuffers

CONSTANTS
  NumberSizes,  \* bytes of a number: of short, int, long and long double
  MaxText,      \* bound of the model: bytes of a string
  MaxValues     \* bound of the model: values written

VARIABLES
  response_,  \* what is to be sent
  values,     \* values written so far
  packet,     \* the last packet sent
  closed      \* the connection is gone

vars == <<response_, values, packet, closed>>

Init == response_ = <<>> /\ values = 0 /\ packet = <<>> /\ closed = FALSE

(* operator<<: a number, of which only the length matters, or a string.    *)
Write ==
  /\ ~closed /\ values < MaxValues
  /\ values' = values + 1
  /\ \/ \E n \in NumberSizes : response_' = response_ \o Text(values + 1, n)
     \/ \E n \in 0..MaxText : response_' = response_ \o String(Text(values + 1, n))
  /\ UNCHANGED <<packet, closed>>

(* write_with_size: nothing for an empty response.  The number of bytes    *)
(* that are sent is the size computed before put_data, which is the size   *)
(* that results.                                                           *)
WriteWithSize ==
  IF response_ = <<>>
  THEN UNCHANGED <<packet, response_>>
  ELSE /\ packet' \in PutData(response_, Size(Len(response_) + SizeBytes), 0)
       /\ response_' = <<>>

Read == ~closed /\ WriteWithSize /\ UNCHANGED <<values, closed>>

Close == ~closed /\ WriteWithSize /\ closed' = TRUE /\ UNCHANGED values

Next == Write \/ Read \/ Close

Spec == Init /\ [][Next]_vars

-----------------------------------------------------------------------------
(* Every packet begins with its size: what assert_actual_size of the same  *)
(* class and udp_acceptor require of a packet they receive.                *)
PacketStartsWithSize ==
  packet # <<>> => SubSeq(packet, 1, SizeBytes) = Size(Len(packet))
=============================================================================
