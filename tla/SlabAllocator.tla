--------------------------- MODULE SlabAllocator ---------------------------
(***************************************************************************)
(* slab_allocator of src/include/cppalls/core/slab_allocator.hpp: the      *)
(* search of allocate() through the in_use_ marks, one loop turn a step,   *)
(* and deallocate().  allocate_single() is the same search for one block.  *)
(* An allocator belongs to one connection or acceptor and is used by one   *)
(* thread at a time.                                                       *)
(***************************************************************************)
EXTENDS Integers

CONSTANTS
  N,         \* storages_count_
  Blocks,    \* values of blocks_required that callers ask for
  Max,       \* numeric_limits<in_use_t>::max(): 255
  SizeRange  \* the number of values of std::size_t

ASSUME SlabAssumption ==
  /\ N \in Nat \ {0} /\ Max \in Nat /\ N < Max - 1
  /\ SizeRange \in Nat /\ 2 * N < SizeRange
  /\ Blocks \subseteq 1..(Max - 1)

VARIABLES
  in_use_,         \* 0: free, Max: inside an allocation, else its length
  pc,              \* "idle", or in allocate at the outer loop, "scan", or
                   \* the inner one, "count"
  blocks_required,
  i, free_blocks,  \* the counters of the two loops
  result           \* what the last allocate() returned

vars == <<in_use_, pc, blocks_required, i, free_blocks, result>>

Block == 0..(N - 1)
Heads == {h \in Block : in_use_[h] \notin {0, Max}}

Init ==
  /\ in_use_ = [b \in Block |-> 0]
  /\ pc = "idle" /\ blocks_required = 0 /\ i = 0 /\ free_blocks = 0
  /\ result = [from |-> "nowhere"]

(* What `!!in_use_[j]' may be; past the array it may be either. *)
Used(j) == j < N => in_use_[j] # 0
Unused(j) == j < N => in_use_[j] = 0

(* A faulty variant: one more block than there is. *)
LastStartPast == (N + 1 - blocks_required) % SizeRange

(* storages_count_ - blocks_required, in std::size_t. *)
LastStart == (N - blocks_required) % SizeRange

Allocate(n) ==
  /\ pc = "idle"
  /\ pc' = "scan" /\ blocks_required' = n /\ i' = 0
  /\ UNCHANGED <<in_use_, free_blocks, result>>

ScanUsed ==
  /\ pc = "scan" /\ i <= LastStart /\ Used(i)
  /\ i' = i + 1
  /\ UNCHANGED <<in_use_, pc, blocks_required, free_blocks, result>>

ScanFree ==
  /\ pc = "scan" /\ i <= LastStart /\ Unused(i)
  /\ pc' = "count" /\ free_blocks' = 1
  /\ UNCHANGED <<in_use_, blocks_required, i, result>>

CountFree ==
  /\ pc = "count" /\ free_blocks < blocks_required
  /\ Unused(i + free_blocks)
  /\ free_blocks' = free_blocks + 1
  /\ UNCHANGED <<in_use_, pc, blocks_required, i, result>>

(* A faulty variant: the search skips as many blocks as it looks for. *)
CountUsedSkipping ==
  /\ pc = "count" /\ free_blocks < blocks_required
  /\ Used(i + free_blocks)
  /\ pc' = "scan" /\ i' = i + blocks_required + 1
  /\ UNCHANGED <<in_use_, blocks_required, free_blocks, result>>

(* A faulty variant: the search does not move on. *)
CountUsedStaying ==
  /\ pc = "count" /\ free_blocks < blocks_required
  /\ Used(i + free_blocks)
  /\ pc' = "scan"
  /\ UNCHANGED <<in_use_, blocks_required, i, free_blocks, result>>

(* The run is too short: `i += free_blocks; continue;' and the loop's ++i. *)
CountUsed ==
  /\ pc = "count" /\ free_blocks < blocks_required
  /\ Used(i + free_blocks)
  /\ pc' = "scan" /\ i' = i + free_blocks + 1
  /\ UNCHANGED <<in_use_, blocks_required, free_blocks, result>>

(* The marks written past the array are in other memory. *)
Take ==
  /\ pc = "count" /\ free_blocks = blocks_required
  /\ in_use_' = [b \in Block |->
       IF b = i THEN blocks_required
       ELSE IF b \in (i + 1)..(i + blocks_required - 1) THEN Max ELSE in_use_[b]]
  /\ result' = [from |-> "storages", first |-> i, blocks |-> blocks_required]
  /\ pc' = "idle"
  /\ UNCHANGED <<blocks_required, i, free_blocks>>

GiveUp ==
  /\ pc = "scan" /\ i > LastStart
  /\ result' = [from |-> "heap", blocks |-> blocks_required]
  /\ pc' = "idle"
  /\ UNCHANGED <<in_use_, blocks_required, i, free_blocks>>

(* A faulty variant: only the first block is freed. *)
DeallocateHead(h) ==
  /\ pc = "idle" /\ h \in Heads
  /\ in_use_' = [in_use_ EXCEPT ![h] = 0]
  /\ UNCHANGED <<pc, blocks_required, i, free_blocks, result>>

(* deallocate() of the pointer to block h; one of heap memory changes       *)
(* nothing here.                                                           *)
Deallocate(h) ==
  /\ pc = "idle" /\ h \in Heads
  /\ in_use_' = [b \in Block |->
       IF b \in h..(h + in_use_[h] - 1) THEN 0 ELSE in_use_[b]]
  /\ UNCHANGED <<pc, blocks_required, i, free_blocks, result>>

Turn == ScanUsed \/ ScanFree \/ CountFree \/ CountUsed \/ Take \/ GiveUp

Next ==
  \/ \E n \in Blocks : Allocate(n)
  \/ \E h \in Block : Deallocate(h)
  \/ Turn

Spec == Init /\ [][Next]_vars
FairSpec == Spec /\ WF_vars(Turn)

-----------------------------------------------------------------------------
Answer ==
  [from : {"nowhere"}] \cup [from : {"heap"}, blocks : Blocks]
    \cup [from : {"storages"}, first : Block, blocks : Blocks]

(* Marks and counters stay in their ranges, for requests that the storages *)
(* could hold: what is read and handed out lies inside the arrays.         *)
TypeOK ==
  /\ in_use_ \in [Block -> 0..Max]
  /\ pc \in {"idle", "scan", "count"}
  /\ blocks_required \in Blocks \cup {0}
  /\ i \in 0..N /\ free_blocks \in 0..N
  /\ result \in Answer

(* The marks describe a set of disjoint allocations and nothing else: each *)
(* begins with its length, and every other used block is inside one.       *)
WellFormed ==
  /\ \A h \in Heads : /\ h + in_use_[h] <= N
                      /\ \A b \in (h + 1)..(h + in_use_[h] - 1) : in_use_[b] = Max
  /\ \A b \in Block : in_use_[b] = Max =>
       \E h \in Heads : h < b /\ b < h + in_use_[h]

(* What the theorems of SlabAllocatorProofs.tla rest on: no request fits at *)
(* a start the search has left behind, and the run it counts is free.      *)
Search ==
  /\ pc # "idle" =>
       /\ blocks_required \in Blocks
       /\ \A f \in 0..(i - 1) : f + blocks_required <= N =>
            \E b \in f..(f + blocks_required - 1) : in_use_[b] # 0
  /\ pc = "count" =>
       /\ i + blocks_required <= N
       /\ free_blocks \in 1..blocks_required
       /\ \A b \in i..(i + free_blocks - 1) : in_use_[b] = 0

IInv == TypeOK /\ WellFormed /\ Search

(* What the storages have no room for comes from the heap: violated by     *)
(* requests larger than all of them, see the README.                       *)
AllocationInside == result.from = "storages" => result.first + result.blocks <= N

(* allocate() returns. *)
AllocateReturns == pc = "scan" ~> pc = "idle"

Pool == INSTANCE BlockPool
  WITH live <- {[first |-> h, blocks |-> in_use_[h]] : h \in Heads},
       answer <- result

(* The allocator implements BlockPool. *)
PoolSpec == Pool!Spec
=============================================================================
