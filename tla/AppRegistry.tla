---------------------------- MODULE AppRegistry ----------------------------
(***************************************************************************)
(* What the table of named applications promises to the code that calls    *)
(* app::get(): a name keeps denoting the same application object until it  *)
(* is dropped, and an object is bound at most once in its life, to one     *)
(* name.  Nothing is said here of configurations, of failures or of the    *)
(* order of the steps: Server.tla is shown to implement this module.       *)
(***************************************************************************)
CONSTANTS
  Name,     \* the instance names an application may be known by
  Object,   \* the application objects
  none      \* what an unbound name denotes

VARIABLES
  registry, \* the object each name denotes
  known     \* the objects that were ever created

vars == <<registry, known>>

Init ==
  /\ registry = [n \in Name |-> none]
  /\ known = {}

(* A name that denotes nothing is bound to an object never seen before. *)
Bind(n, o) ==
  /\ registry[n] = none
  /\ o \notin known
  /\ registry' = [registry EXCEPT ![n] = o]
  /\ known' = known \cup {o}

(* An object is created and never gets a name. *)
Reject(o) ==
  /\ o \notin known
  /\ known' = known \cup {o}
  /\ UNCHANGED registry

(* Some names stop denoting anything; the others keep their objects. *)
Drop(gone) ==
  /\ registry' = [n \in Name |-> IF n \in gone THEN none ELSE registry[n]]
  /\ UNCHANGED known

Next ==
  \/ \E n \in Name, o \in Object : Bind(n, o)
  \/ \E o \in Object : Reject(o)
  \/ \E gone \in SUBSET Name : Drop(gone)

Spec == Init /\ [][Next]_vars
=============================================================================
