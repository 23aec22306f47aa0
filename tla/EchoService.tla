---------------------------- MODULE EchoService ----------------------------
(***************************************************************************)
(* What a connection to an echo processor promises to the client: each     *)
(* read returns the next of the values it has written, entire; a processor *)
(* that closes the connection after its answer answers once; and a client  *)
(* that has left reads nothing more.  EchoConnection.tla, with its buffers *)
(* and streams, is shown to implement this module.                         *)
(***************************************************************************)
EXTENDS Naturals, Sequences

CONSTANT Value  \* what may be written

VARIABLES
  wrote,  \* the values written
  got,    \* the values read back
  once,   \* the processor closes after its first answer
  left    \* the client has closed its end

vars == <<wrote, got, once, left>>

Init == wrote = <<>> /\ got = <<>> /\ once \in BOOLEAN /\ left = FALSE

Write(v) ==
  /\ ~left
  /\ wrote' = Append(wrote, v)
  /\ UNCHANGED <<got, once, left>>

Answer ==
  /\ ~left /\ Len(got) < Len(wrote)
  /\ once => got = <<>>
  /\ got' = Append(got, wrote[Len(got) + 1])
  /\ UNCHANGED <<wrote, once, left>>

Leave == ~left /\ left' = TRUE /\ UNCHANGED <<wrote, got, once>>

Next == (\E v \in Value : Write(v)) \/ Answer \/ Leave

Spec == Init /\ [][Next]_vars
=============================================================================
