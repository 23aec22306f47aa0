------------------------ MODULE SlabAllocatorProofs ------------------------
(***************************************************************************)
(* For every number of blocks and every set of requests that the storages  *)
(* could hold: the marks of SlabAllocator.tla are well formed and the      *)
(* allocator implements BlockPool.                                         *)
(***************************************************************************)
EXTENDS SlabAllocator, TLAPS

(* The requests the theorems are about; larger ones are out of bounds in   *)
(* the code too.                                                           *)
RequestsFit == Blocks \subseteq 1..N

(* The subtraction of the loop bound does not wrap for such requests. *)
LEMMA LastStartExact ==
  ASSUME RequestsFit, blocks_required \in Blocks
  PROVE  LastStart = N - blocks_required
<1>1. N - blocks_required \in 0..(SizeRange - 1)
  BY SlabAssumption DEF RequestsFit
<1>2. QED
  BY <1>1, SlabAssumption DEF LastStart

LEMMA InitIInv == Init => IInv
BY SlabAssumption DEF Init, IInv, TypeOK, Answer, WellFormed, Search, Heads, Block

-----------------------------------------------------------------------------
LEMMA InvAllocate ==
  ASSUME RequestsFit, IInv, NEW n \in Blocks, Allocate(n)
  PROVE  IInv'
BY SlabAssumption
   DEF IInv, TypeOK, WellFormed, Search, Heads, Block, Allocate

LEMMA InvScan ==
  ASSUME RequestsFit, IInv, ScanUsed \/ ScanFree
  PROVE  IInv'
<1>1. /\ blocks_required \in Blocks /\ blocks_required \in 1..N
      /\ N \in Nat /\ i \in Nat
  BY SlabAssumption DEF RequestsFit, IInv, TypeOK, Search, ScanUsed, ScanFree
<1>2. i + blocks_required <= N
  BY <1>1, LastStartExact DEF ScanUsed, ScanFree
<1>3. CASE ScanUsed
  <2>1. in_use_[i] # 0
    BY <1>1, <1>2, <1>3 DEF Used, ScanUsed
  <2>2. Search'
    <3>1. ASSUME NEW f \in 0..i
          PROVE  \E b \in f..(f + blocks_required - 1) : in_use_[b] # 0
      <4>1. CASE f = i
        BY <1>1, <2>1, <4>1
      <4>2. CASE f \in 0..(i - 1)
        BY <1>1, <1>2, <1>3, <4>2 DEF IInv, Search, ScanUsed
      <4>3. QED
        BY <1>1, <4>1, <4>2
    <3>2. QED
      BY <1>1, <1>3, <3>1 DEF Search, ScanUsed
  <2>3. TypeOK'
    BY <1>1, <1>2, <1>3 DEF IInv, TypeOK, ScanUsed
  <2>4. WellFormed'
    BY <1>3 DEF IInv, WellFormed, Heads, ScanUsed
  <2>5. QED
    BY <2>2, <2>3, <2>4 DEF IInv
<1>4. CASE ScanFree
  <2>1. in_use_[i] = 0
    BY <1>1, <1>2, <1>4 DEF Unused, ScanFree
  <2>2. Search'
    BY <1>1, <1>2, <1>4, <2>1 DEF IInv, Search, ScanFree
  <2>3. TypeOK'
    BY <1>1, <1>4 DEF IInv, TypeOK, ScanFree
  <2>4. WellFormed'
    BY <1>4 DEF IInv, WellFormed, Heads, ScanFree
  <2>5. QED
    BY <2>2, <2>3, <2>4 DEF IInv
<1>5. QED
  BY <1>3, <1>4

LEMMA InvCount ==
  ASSUME RequestsFit, IInv, CountFree \/ CountUsed
  PROVE  IInv'
<1>1. /\ blocks_required \in Blocks /\ blocks_required \in 1..N
      /\ N \in Nat /\ i \in Nat /\ i + blocks_required <= N
      /\ free_blocks \in 1..(blocks_required - 1)
  BY SlabAssumption
     DEF RequestsFit, IInv, TypeOK, Search, CountFree, CountUsed
<1>2. WellFormed'
  BY DEF IInv, WellFormed, Heads, CountFree, CountUsed
<1>3. CASE CountFree
  <2>1. in_use_[i + free_blocks] = 0
    BY <1>1, <1>3 DEF Unused, CountFree
  <2>2. Search'
    BY <1>1, <1>3, <2>1 DEF IInv, Search, CountFree
  <2>3. TypeOK'
    BY <1>1, <1>3 DEF IInv, TypeOK, CountFree
  <2>4. QED
    BY <1>2, <2>2, <2>3 DEF IInv
<1>4. CASE CountUsed
  <2>1. in_use_[i + free_blocks] # 0
    BY <1>1, <1>4 DEF Used, CountUsed
  (* every start the search leaps over would hold the used block *)
  <2>2. ASSUME NEW f \in 0..(i + free_blocks), f + blocks_required <= N
        PROVE  \E b \in f..(f + blocks_required - 1) : in_use_[b] # 0
    <3>1. CASE f \in i..(i + free_blocks)
      <4>1. i + free_blocks \in f..(f + blocks_required - 1)
        BY <1>1, <3>1
      <4>2. QED
        BY <2>1, <4>1
    <3>2. CASE f \in 0..(i - 1)
      BY <1>4, <2>2, <3>2 DEF IInv, Search, CountUsed
    <3>3. QED
      BY <1>1, <3>1, <3>2
  <2>3. Search'
    BY <1>1, <1>4, <2>2 DEF Search, CountUsed
  <2>4. TypeOK'
    BY <1>1, <1>4 DEF IInv, TypeOK, CountUsed
  <2>5. QED
    BY <1>2, <2>3, <2>4 DEF IInv
<1>5. QED
  BY <1>3, <1>4

LEMMA InvTake ==
  ASSUME RequestsFit, IInv, Take
  PROVE  IInv'
<1>1. /\ blocks_required \in 1..N /\ blocks_required \in Blocks
      /\ i \in Block /\ i + blocks_required <= N
      /\ \A b \in i..(i + blocks_required - 1) : in_use_[b] = 0
  BY SlabAssumption DEF RequestsFit, IInv, TypeOK, Search, Take, Block
<1>2. TypeOK'
  BY <1>1, SlabAssumption DEF IInv, TypeOK, Answer, Take, Block
<1>3. Heads' = Heads \cup {i}
  BY <1>1, SlabAssumption DEF IInv, TypeOK, Heads, Block, Take
<1>4. WellFormed'
  <2>1. ASSUME NEW h \in Heads', NEW b \in (h + 1)..(h + in_use_'[h] - 1)
        PROVE  h + in_use_'[h] <= N /\ in_use_'[b] = Max
    <3>1. CASE h = i
      BY <1>1, <2>1, <3>1, SlabAssumption DEF IInv, TypeOK, Take, Block
    <3>2. CASE h \in Heads /\ h # i
      <4>1. in_use_'[h] = in_use_[h]
        BY <1>1, <3>2, SlabAssumption DEF IInv, TypeOK, Take, Block, Heads
      <4>2. QED
        BY <1>1, <2>1, <3>2, <4>1, SlabAssumption
           DEF IInv, TypeOK, WellFormed, Take, Block, Heads
    <3>3. QED
      BY <1>3, <2>1, <3>1, <3>2
  <2>2. ASSUME NEW h \in Heads' PROVE h + in_use_'[h] <= N
    BY <1>1, <1>3, SlabAssumption DEF IInv, TypeOK, WellFormed, Take, Block, Heads
  <2>3. ASSUME NEW b \in Block, in_use_'[b] = Max
        PROVE  \E h \in Heads' : h < b /\ b < h + in_use_'[h]
    <3>1. CASE b \in (i + 1)..(i + blocks_required - 1)
      <4>1. i \in Heads' /\ in_use_'[i] = blocks_required
        BY <1>1, <1>3 DEF Take
      <4>2. i < b /\ b < i + blocks_required
        BY <1>1, <3>1, SlabAssumption DEF Block
      <4>3. QED
        BY <4>1, <4>2
    <3>2. CASE in_use_[b] = Max
      <4>1. PICK h \in Heads : h < b /\ b < h + in_use_[h]
        BY <3>2 DEF IInv, WellFormed
      <4>2. in_use_'[h] = in_use_[h]
        BY <1>1, <4>1, SlabAssumption DEF IInv, TypeOK, Take, Block, Heads
      <4>3. QED
        BY <1>3, <4>1, <4>2
    <3>3. b # i
      BY <1>1, <2>3, SlabAssumption DEF Take
    <3>4. QED
      BY <2>3, <3>1, <3>2, <3>3 DEF Take
  <2>4. QED
    BY <2>1, <2>2, <2>3 DEF WellFormed, Block
<1>5. Search'
  BY DEF Search, Take
<1>6. QED
  BY <1>2, <1>4, <1>5 DEF IInv

LEMMA InvGiveUp ==
  ASSUME RequestsFit, IInv, GiveUp
  PROVE  IInv'
BY SlabAssumption DEF IInv, TypeOK, Answer, WellFormed, Search, Heads, Block, GiveUp

(* No other allocation begins in the one that is freed. *)
LEMMA HeadsAfterFree ==
  ASSUME IInv, NEW h \in Block, Deallocate(h)
  PROVE  /\ Heads' = Heads \ {h}
         /\ in_use_' \in [Block -> 0..Max]
         /\ \A g \in Heads' : in_use_'[g] = in_use_[g]
<1>1. h \in Heads /\ h + in_use_[h] <= N /\ in_use_[h] \in 1..N
  BY SlabAssumption DEF IInv, TypeOK, WellFormed, Deallocate, Heads, Block
<1>2. \A b \in (h + 1)..(h + in_use_[h] - 1) : in_use_[b] = Max
  BY <1>1 DEF IInv, WellFormed
<1>3. in_use_' \in [Block -> 0..Max]
  BY SlabAssumption DEF IInv, TypeOK, Deallocate
<1>4. Heads' = Heads \ {h}
  <2>1. in_use_ \in [Block -> 0..Max]
    BY DEF IInv, TypeOK
  <2>2. h \in Block /\ h \in Nat /\ in_use_[h] \in Nat /\ Max # 0
    BY <1>1, SlabAssumption DEF Block
  <2>3. in_use_'[h] = 0
    BY <2>1, <2>2 DEF Deallocate
  <2>4. ASSUME NEW g \in Block, g # h
        PROVE  g \in Heads' <=> g \in Heads
    <3>1. CASE g \in (h + 1)..(h + in_use_[h] - 1)
      <4>1. in_use_[g] = Max /\ in_use_'[g] = 0
        BY <1>2, <2>1, <2>4, <3>1 DEF Deallocate
      <4>2. QED
        BY <4>1 DEF Heads
    <3>2. CASE g \notin (h + 1)..(h + in_use_[h] - 1)
      <4>1. in_use_'[g] = in_use_[g]
        BY <2>1, <2>2, <2>4, <3>2 DEF Deallocate, Block
      <4>2. QED
        BY <4>1 DEF Heads
    <3>3. QED
      BY <3>1, <3>2
  <2>5. QED
    BY <2>3, <2>4 DEF Heads
<1>5. QED
  BY <1>3, <1>4 DEF Deallocate, Heads

LEMMA InvDeallocate ==
  ASSUME RequestsFit, IInv, NEW h \in Block, Deallocate(h)
  PROVE  IInv'
<1>1. h \in Heads /\ h + in_use_[h] <= N /\ in_use_[h] \in 1..N
  BY SlabAssumption DEF IInv, TypeOK, WellFormed, Deallocate, Heads, Block
<1>2. TypeOK'
  BY HeadsAfterFree DEF IInv, TypeOK, Deallocate
<1>3. ASSUME NEW g \in Heads'
      PROVE  /\ g + in_use_'[g] <= N
             /\ \A b \in (g + 1)..(g + in_use_'[g] - 1) : in_use_'[b] = Max
  <2>1. g \in Heads /\ g # h /\ in_use_'[g] = in_use_[g] /\ g \in Block
    BY <1>3, HeadsAfterFree DEF Heads
  <2>2. /\ g + in_use_[g] <= N
        /\ \A b \in (g + 1)..(g + in_use_[g] - 1) : in_use_[b] = Max
    BY <2>1 DEF IInv, WellFormed
  (* the two allocations share no block: the later would begin in the other *)
  <2>3. ASSUME NEW b \in (g + 1)..(g + in_use_[g] - 1)
        PROVE  b \notin h..(h + in_use_[h] - 1)
    <3>1. in_use_[g] \in Nat /\ in_use_[h] \notin {0, Max} /\ in_use_[g] \notin {0, Max}
      BY <1>1, <2>1, SlabAssumption DEF IInv, TypeOK, Heads
    <3>2. CASE h > g
      BY <1>1, <2>1, <2>2, <3>1, <3>2, SlabAssumption DEF Block, Heads
    <3>3. CASE h < g
      <4>1. \A c \in (h + 1)..(h + in_use_[h] - 1) : in_use_[c] = Max
        BY <1>1 DEF IInv, WellFormed
      <4>2. QED
        BY <1>1, <2>1, <3>1, <3>3, <4>1, SlabAssumption DEF Block, Heads
    <3>4. QED
      BY <2>1, <3>2, <3>3 DEF Block
  <2>4. in_use_[g] \in Nat
    BY <2>1, SlabAssumption DEF IInv, TypeOK
  <2>5. ASSUME NEW b \in (g + 1)..(g + in_use_[g] - 1)
        PROVE  in_use_'[b] = Max
    <3>1. b \in Block
      BY <2>1, <2>2, <2>4, SlabAssumption DEF Block
    <3>2. QED
      BY <2>2, <2>3, <3>1 DEF Deallocate
  <2>6. QED
    BY <2>1, <2>2, <2>5
<1>4. ASSUME NEW b \in Block, in_use_'[b] = Max
      PROVE  \E g \in Heads' : g < b /\ b < g + in_use_'[g]
  <2>1. in_use_[b] = Max /\ b \notin h..(h + in_use_[h] - 1)
    BY <1>4, SlabAssumption DEF Deallocate
  <2>2. PICK g \in Heads : g < b /\ b < g + in_use_[g]
    BY <2>1 DEF IInv, WellFormed
  <2>3. g # h
    BY <1>1, <2>1, <2>2 DEF Block
  <2>4. QED
    BY <2>2, <2>3, HeadsAfterFree
<1>5. QED
  BY <1>2, <1>3, <1>4 DEF IInv, WellFormed, Search, Deallocate, Block

LEMMA NextIInv == RequestsFit /\ IInv /\ [Next]_vars => IInv'
<1> SUFFICES ASSUME RequestsFit, IInv, [Next]_vars PROVE IInv'
  OBVIOUS
<1>1. CASE UNCHANGED vars
  BY <1>1 DEF vars, IInv, TypeOK, WellFormed, Search, Heads
<1>2. CASE Next
  BY <1>2, InvAllocate, InvDeallocate, InvScan, InvCount, InvTake, InvGiveUp
     DEF Next, Turn
<1>3. QED
  BY <1>1, <1>2

(* The marks always describe disjoint allocations inside the storages, and *)
(* no search misses a free run.                                            *)
THEOREM Invariance ==
  ASSUME RequestsFit
  PROVE  Spec => []IInv
<1>1. IInv /\ [Next]_vars => IInv'
  BY NextIInv
<1>2. QED
  BY InitIInv, <1>1, PTL DEF Spec

(* What the search reads and what it hands out lies inside the arrays. *)
THEOREM TypeCorrect ==
  ASSUME RequestsFit
  PROVE  Spec => []TypeOK
<1>1. IInv => TypeOK
  BY DEF IInv
<1>2. QED
  BY <1>1, Invariance, PTL

(* Freeing and searching never leave a mark that belongs to nothing, or    *)
(* two allocations that share a block.                                     *)
THEOREM MarksWellFormed ==
  ASSUME RequestsFit
  PROVE  Spec => []WellFormed
<1>1. IInv => WellFormed
  BY DEF IInv
<1>2. QED
  BY <1>1, Invariance, PTL

-----------------------------------------------------------------------------
(* The refinement.  A block is used exactly when it lies in an allocation. *)
Span(h) == h..(h + in_use_[h] - 1)

LEMMA UsedIsSpanned ==
  ASSUME IInv
  PROVE  /\ \A h \in Heads : \A b \in Span(h) : b \in Block /\ in_use_[b] # 0
         /\ \A b \in Block : in_use_[b] # 0 => \E h \in Heads : b \in Span(h)
<1>1. ASSUME NEW h \in Heads, NEW b \in Span(h)
      PROVE  b \in Block /\ in_use_[b] # 0
  <2>1. h \in Block /\ in_use_[h] \in 1..Max /\ h + in_use_[h] <= N
    BY SlabAssumption DEF IInv, TypeOK, WellFormed, Heads
  <2>2. b = h \/ b \in (h + 1)..(h + in_use_[h] - 1)
    BY <2>1 DEF Span, Block
  <2>3. in_use_[b] # 0
    BY <2>1, <2>2, SlabAssumption DEF IInv, WellFormed
  <2>4. QED
    BY <2>1, <2>3, SlabAssumption DEF Span, Block
<1>2. ASSUME NEW b \in Block, in_use_[b] # 0
      PROVE  \E h \in Heads : b \in Span(h)
  <2>1. CASE b \in Heads
    <3>1. b \in Span(b)
      BY <2>1, SlabAssumption DEF IInv, TypeOK, Heads, Block, Span
    <3>2. QED
      BY <2>1, <3>1
  <2>2. CASE in_use_[b] = Max
    <3>1. PICK h \in Heads : h < b /\ b < h + in_use_[h]
      BY <2>2 DEF IInv, WellFormed
    <3>2. b \in Span(h)
      BY <3>1, SlabAssumption DEF IInv, TypeOK, Heads, Block, Span
    <3>3. QED
      BY <3>2
  <2>3. QED
    BY <1>2, <2>1, <2>2 DEF Heads
<1>3. QED
  BY <1>1, <1>2

LEMMA TakeGives ==
  ASSUME RequestsFit, IInv, Take
  PROVE  Pool!Next
<1> DEFINE live == {[first |-> h, blocks |-> in_use_[h]] : h \in Heads}
           given == [first |-> i, blocks |-> blocks_required]
<1>1. /\ blocks_required \in 1..N /\ blocks_required \in Blocks
      /\ i \in Block /\ i + blocks_required <= N
      /\ \A b \in i..(i + blocks_required - 1) : in_use_[b] = 0
  BY SlabAssumption DEF RequestsFit, IInv, TypeOK, Search, Take, Block
<1>2. Pool!Fits(given)
  <2>1. ASSUME NEW a \in live
        PROVE  Pool!Span(given) \cap Pool!Span(a) = {}
    <3>1. PICK h \in Heads : a = [first |-> h, blocks |-> in_use_[h]]
      BY <2>1
    <3>2. Pool!Span(a) = Span(h)
      BY <3>1 DEF Pool!Span, Span
    <3>3. \A b \in Pool!Span(given) : in_use_[b] = 0
      BY <1>1 DEF Pool!Span
    <3>4. QED
      BY <3>2, <3>3, UsedIsSpanned
  <2>2. QED
    BY <1>1, <2>1 DEF Pool!Fits
<1>3. Heads' = Heads \cup {i}
  BY <1>1, SlabAssumption DEF IInv, TypeOK, Heads, Block, Take
<1>4. in_use_'[i] = blocks_required
  BY <1>1 DEF Take
<1>5. ASSUME NEW h \in Heads PROVE in_use_'[h] = in_use_[h]
  <2>1. h \in Block /\ h \notin i..(i + blocks_required - 1)
    BY <1>1 DEF Heads
  <2>2. h # i /\ h \notin (i + 1)..(i + blocks_required - 1)
    BY <1>1, <2>1 DEF Block
  <2>3. QED
    BY <2>1, <2>2 DEF Take
<1>6. live' = live \cup {given}
  BY <1>3, <1>4, <1>5
<1>7. i \in 0..(N - 1) /\ blocks_required \in Blocks
  BY <1>1 DEF Block
<1>8. result' = [from |-> "storages", first |-> i, blocks |-> blocks_required]
  BY DEF Take
<1>9. QED
  BY <1>2, <1>6, <1>7, <1>8 DEF Pool!Next, Pool!Give

LEMMA GiveUpDelegates ==
  ASSUME RequestsFit, IInv, GiveUp
  PROVE  Pool!Next
<1>1. /\ blocks_required \in Blocks /\ blocks_required \in 1..N
      /\ N \in Nat /\ i \in Nat
  BY SlabAssumption DEF RequestsFit, IInv, TypeOK, Search, GiveUp
<1>2. i > N - blocks_required
  BY <1>1, LastStartExact DEF GiveUp
<1>3. ASSUME NEW f \in 0..(N - 1),
             Pool!Fits([first |-> f, blocks |-> blocks_required])
      PROVE  FALSE
  <2>1. f + blocks_required <= N
    BY <1>3 DEF Pool!Fits
  <2>2. PICK b \in f..(f + blocks_required - 1) : in_use_[b] # 0
    BY <1>1, <1>2, <2>1 DEF IInv, Search, GiveUp
  <2>3. b \in Block
    BY <1>1, <2>1 DEF Block
  <2>4. PICK h \in Heads : b \in Span(h)
    BY <2>2, <2>3, UsedIsSpanned
  <2>5. Pool!Span([first |-> h, blocks |-> in_use_[h]]) = Span(h)
    BY DEF Pool!Span, Span
  <2>6. Pool!Span([first |-> f, blocks |-> blocks_required])
          = f..(f + blocks_required - 1)
    BY DEF Pool!Span
  <2>7. QED
    BY <1>3, <2>4, <2>5, <2>6 DEF Pool!Fits
<1>4. Pool!Delegate(blocks_required)
  BY <1>3 DEF Pool!Delegate, GiveUp, Heads
<1>5. QED
  BY <1>1, <1>4 DEF Pool!Next

LEMMA DeallocateReturns ==
  ASSUME RequestsFit, IInv, NEW h \in Block, Deallocate(h)
  PROVE  Pool!Next
<1> DEFINE live == {[first |-> g, blocks |-> in_use_[g]] : g \in Heads}
           freed == [first |-> h, blocks |-> in_use_[h]]
<1>1. freed \in live
  BY DEF Deallocate
<1>2. live' = live \ {freed}
  BY HeadsAfterFree
<1>3. QED
  BY <1>1, <1>2 DEF Pool!Next, Pool!Return, Deallocate

LEMMA StepRefines ==
  RequestsFit /\ IInv /\ [Next]_vars => [Pool!Next]_(Pool!vars)
<1> SUFFICES ASSUME RequestsFit, IInv, [Next]_vars
             PROVE  [Pool!Next]_(Pool!vars)
  OBVIOUS
<1>1. CASE UNCHANGED <<in_use_, result>>
  BY <1>1 DEF Pool!vars, Heads
<1>2. CASE Take
  BY <1>2, TakeGives
<1>3. CASE GiveUp
  BY <1>3, GiveUpDelegates
<1>4. ASSUME NEW h \in Block, Deallocate(h)
      PROVE  [Pool!Next]_(Pool!vars)
  BY <1>4, DeallocateReturns
<1>5. QED
  BY <1>1, <1>2, <1>3, <1>4
     DEF Next, Turn, vars, Allocate, ScanUsed, ScanFree, CountFree, CountUsed

(* For requests that the storages could hold, the allocator implements     *)
(* BlockPool: what it hands out is inside the storages and overlaps        *)
(* nothing in use, and the heap is asked only when no free run would do.   *)
THEOREM SlabRefinesPool ==
  ASSUME RequestsFit
  PROVE  Spec => PoolSpec
<1>1. Init => Pool!Init
  BY DEF Init, Pool!Init, Heads, Block
<1>2. IInv /\ [Next]_vars => [Pool!Next]_(Pool!vars)
  BY StepRefines
<1>3. QED
  BY Invariance, <1>1, <1>2, PTL DEF Spec, PoolSpec, Pool!Spec
=============================================================================
