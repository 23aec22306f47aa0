---------------------------- MODULE HandlerPool ----------------------------
(***************************************************************************)
(* What a pool of threads promises to those whose handlers it runs: each   *)
(* posted handler runs at most once, only between a start and the end of   *)
(* the stop that follows, and when that stop has returned none is running. *)
(* Nothing is promised about order; what a stop finds in the queue or in   *)
(* progress stays there and runs if the pool is ever started again.        *)
(***************************************************************************)
CONSTANT Task  \* the handlers, each with the operation it completes

VARIABLES
  phase,    \* "stopped", "serving" or "stopping"
  queue,    \* handlers that are to run
  pending,  \* handlers of operations in progress
  running   \* handlers that run

vars == <<phase, queue, pending, running>>

Init == phase = "stopped" /\ queue = {} /\ pending = {} /\ running = {}

Serve ==
  /\ phase = "stopped" /\ phase' = "serving"
  /\ UNCHANGED <<queue, pending, running>>

BeginStop ==
  /\ phase # "stopping" /\ phase' = "stopping"
  /\ UNCHANGED <<queue, pending, running>>

EndStop ==
  /\ phase = "stopping" /\ running = {} /\ phase' = "stopped"
  /\ UNCHANGED <<queue, pending, running>>

Run(t) ==
  /\ phase # "stopped" /\ t \in queue
  /\ queue' = queue \ {t} /\ running' = running \cup {t}
  /\ UNCHANGED <<phase, pending>>

Finish(t) ==
  /\ t \in running /\ running' = running \ {t}
  /\ UNCHANGED <<phase, queue, pending>>

(* Handlers are posted, or the operations they waited for complete. *)
Post(ts) ==
  /\ ts \cap (queue \cup running) = {}
  /\ queue' = queue \cup ts /\ pending' = pending \ ts
  /\ UNCHANGED <<phase, running>>

Begin(ts) ==
  /\ ts \cap (queue \cup running) = {}
  /\ pending' = pending \cup ts
  /\ UNCHANGED <<phase, queue, running>>

Next ==
  \/ Serve \/ BeginStop \/ EndStop
  \/ \E t \in Task : Run(t) \/ Finish(t)
  \/ \E ts \in SUBSET Task : Post(ts) \/ Begin(ts)

Spec == Init /\ [][Next]_vars
=============================================================================
