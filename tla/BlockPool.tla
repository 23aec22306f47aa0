----------------------------- MODULE BlockPool -----------------------------
(***************************************************************************)
(* What an allocator over N blocks promises: what it hands out lies inside *)
(* its storage and overlaps nothing still in use, and it turns to the heap *)
(* only for a request that no run of free blocks can hold.                 *)
(***************************************************************************)
EXTENDS Naturals

CONSTANTS
  N,      \* the blocks
  Blocks  \* the sizes, in blocks, that are asked for

VARIABLES
  live,   \* the allocations in use: first block and number of blocks
  answer  \* what the last request got

vars == <<live, answer>>

Span(a) == a.first..(a.first + a.blocks - 1)

Fits(a) ==
  /\ a.first + a.blocks <= N
  /\ \A b \in live : Span(a) \cap Span(b) = {}

Init == live = {} /\ answer = [from |-> "nowhere"]

Give(a) ==
  /\ Fits(a)
  /\ live' = live \cup {a}
  /\ answer' = [from |-> "storages", first |-> a.first, blocks |-> a.blocks]

Delegate(n) ==
  /\ \A f \in 0..(N - 1) : ~Fits([first |-> f, blocks |-> n])
  /\ answer' = [from |-> "heap", blocks |-> n]
  /\ UNCHANGED live

Return(a) == live' = live \ {a} /\ UNCHANGED answer

Next ==
  \/ \E f \in 0..(N - 1), n \in Blocks : Give([first |-> f, blocks |-> n])
  \/ \E n \in Blocks : Delegate(n)
  \/ \E a \in live : Return(a)

Spec == Init /\ [][Next]_vars
=============================================================================
