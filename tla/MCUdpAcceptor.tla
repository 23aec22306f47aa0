--------------------------- MODULE MCUdpAcceptor ---------------------------
(* UdpAcceptor with values for TLC. *)
EXTENDS UdpAcceptor

CONSTANTS o1, o2, o3, e1, e2

MCOp == {o1, o2, o3}
MCEndpoint == {e1, e2}

(* An honest datagram of each size, and one that pretends to be shorter. *)
MCDatagram ==
  {[size |-> 1, says |-> 1], [size |-> 2, says |-> 2], [size |-> 2, says |-> 1]}

(* Endpoints are only compared, so that of the first start may be fixed:   *)
(* a reload goes to the same or to another.                                *)
MCInit == Init /\ bound[1] = e1

(* Bound of the instance: an acceptor that was stopped is not reloaded. *)
MCNext == Next /\ (phase = "stopped" => owner' = "idle")
MCSpec == MCInit /\ [][MCNext]_vars /\ Fairness
=============================================================================
