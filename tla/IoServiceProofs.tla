-------------------------- MODULE IoServiceProofs --------------------------
(***************************************************************************)
(* For any number of threads, handlers and requested counts: the safety    *)
(* properties of IoService.tla, from the inductive invariant IInv.         *)
(***************************************************************************)
EXTENDS IoService, TLAPS

(* Whatever the configuration asks for, the pool is told to have at least  *)
(* one thread and no more than threads_count_t can count.                  *)
THEOREM CountInRange ==
  ASSUME NEW threads \in Nat
  PROVE  get_threads_count(threads) \in 1..MaxThreads
BY CountAssumption DEF get_threads_count

LEMMA InitIInv == Init => IInv
<1> SUFFICES ASSUME Init PROVE IInv
  OBVIOUS
<1>1. TypeOK
  <2>1. 0 \in 0..MaxThreads /\ 0 \in Nat
    BY CountAssumption
  <2>2. << >> \in Seq(Task \cup {plumber})
    OBVIOUS
  <2>3. QED
    BY <2>1, <2>2 DEF Init, TypeOK
<1>2. Live = {} /\ 0..(Provided - 1) = {}
  BY DEF Init, Live, Looping, InLoop, Provided
<1>3. QED
  BY <1>1, <1>2 DEF Init, IInv, Stopping

-----------------------------------------------------------------------------
(* The owner's steps. *)
LEMMA InvReload ==
  ASSUME IInv, NEW config \in Config, Reload(config)
  PROVE  IInv'
<1> DEFINE new == get_threads_count(config.threads)
<1>0. config.threads \in Nat /\ config.logger \in Logger /\ config.logger # none
  BY CountAssumption, HandlerAssumption
<1>1. new \in 1..MaxThreads
  BY <1>0, CountInRange
<1>2. PlumberTasks * required \in Nat /\ (required > 0 => PlumberTasks * required > 0)
  BY CountAssumption DEF IInv, TypeOK
<1>3. main = "idle" /\ work_' /\ log_' = config.logger /\ required' = new
  BY DEF Reload
<1>4. \/ required < new /\ main' = "grow" /\ next' = required
      \/ required > new /\ main' = "shrink" /\ next' = PlumberTasks * required
      \/ required = new /\ main' = main /\ next' = next
  BY DEF Reload
<1>5. TypeOK'
  <2>1. Written \ {config.logger} \subseteq Logger
    BY DEF IInv, TypeOK, Written
  <2>2. /\ work_' \in BOOLEAN /\ log_' \in Logger \cup {none}
        /\ replaced' \in SUBSET Logger /\ refused' \in SUBSET (0..MaxThreads)
    BY <1>0, <1>3, <2>1 DEF IInv, TypeOK, Reload
  <2>3. UNCHANGED <<asio, at, index, handler, writes>>
    BY DEF Reload
  <2>4. /\ required' \in 0..MaxThreads /\ next' \in Nat
        /\ main' \in {"idle", "grow", "shrink"}
    BY <1>1, <1>2, <1>3, <1>4, CountAssumption DEF IInv, TypeOK
  <2>5. QED
    BY <2>2, <2>3, <2>4 DEF IInv, TypeOK, asio
<1>6. \A k \in 0..(Provided' - 1) : HasThread(k)'
  BY <1>1, <1>3, <1>4, CountAssumption
     DEF IInv, TypeOK, Stopping, Provided, HasThread, Live, Looping, InLoop, Reload
<1>7. ~Stopping' /\ ~stopped' /\ (main' = "grow" => next' < required')
  BY <1>3, <1>4 DEF IInv, Stopping, Reload, asio
<1>8. main' = "shrink" => next' > 0
  BY <1>1, <1>2, <1>4 DEF IInv, TypeOK, Reload
<1>9. QED
  BY <1>0, <1>3, <1>5, <1>6, <1>7, <1>8 DEF IInv, Stopping

LEMMA InvReloadFails ==
  ASSUME IInv, ReloadFails
  PROVE  IInv'
BY DEF IInv, TypeOK, Stopping, Provided, HasThread, Live, Looping, InLoop,
       ReloadFails, asio, pool, lines

LEMMA InvGrow ==
  ASSUME IInv, Grow
  PROVE  IInv'
<1>1. PICK th \in Absent : /\ at' = [at EXCEPT ![th] = "report"]
                           /\ index' = [index EXCEPT ![th] = next]
  BY DEF Grow
<1>2. TypeOK'
  BY <1>1, CountAssumption DEF IInv, TypeOK, Grow, LoopOver, Absent, asio, lines, InLoop
<1>3. \A k \in 0..(Provided' - 1) : HasThread(k)'
  <2>0. Provided' = next + 1
    BY CountAssumption DEF IInv, TypeOK, Grow, LoopOver, Provided
  <2> SUFFICES ASSUME NEW k \in 0..next PROVE HasThread(k)'
    BY <2>0 DEF IInv, TypeOK
  <2>1. CASE k = next
    BY <1>1, <2>1 DEF IInv, TypeOK, HasThread, Live, Looping, InLoop, Absent
  <2>2. CASE k < next
    <3>1. HasThread(k)
      BY <2>2 DEF IInv, TypeOK, Stopping, Provided, Grow
    <3>2. QED
      BY <1>1, <2>2, <3>1 DEF IInv, TypeOK, HasThread, Live, Looping, InLoop, Absent, Grow
  <2>3. QED
    BY <2>1, <2>2 DEF IInv, TypeOK
<1>4. QED
  BY <1>2, <1>3 DEF IInv, TypeOK, Stopping, Grow, LoopOver, asio

LEMMA InvGrowFails ==
  ASSUME IInv, GrowFails
  PROVE  IInv'
<1>1. TypeOK'
  BY CountAssumption DEF IInv, TypeOK, GrowFails, LoopOver, asio, pool, lines
<1>2. \A k \in 0..(Provided' - 1) : HasThread(k)'
  BY CountAssumption
     DEF IInv, TypeOK, Stopping, Provided, HasThread, Live, Looping, InLoop, GrowFails, LoopOver, pool, lines
<1>3. QED
  BY <1>1, <1>2
     DEF IInv, Stopping, Live, Looping, InLoop, GrowFails, LoopOver, asio, pool, lines

LEMMA InvShrink ==
  ASSUME IInv, Shrink
  PROVE  IInv'
<1>1. Append(queue, plumber) \in Seq(Task \cup {plumber})
  BY DEF IInv, TypeOK
<1>2. TypeOK'
  BY <1>1 DEF IInv, TypeOK, Shrink, LoopOver, pool, lines
<1>3. \A k : HasThread(k)' <=> HasThread(k)
  BY DEF HasThread, Looping, Shrink, pool
<1>4. /\ Live' = Live /\ Provided' = Provided /\ ~Stopping /\ ~Stopping'
      /\ main' \in {"shrink", "idle"} /\ (main' = "shrink" => next' > 0)
      /\ main = "shrink" /\ UNCHANGED <<stopped, work_, log_, required>>
  BY DEF IInv, TypeOK, Live, Looping, Provided, Stopping, Shrink, LoopOver, pool
<1>5. \A k \in 0..(Provided' - 1) : HasThread(k)'
  BY <1>3, <1>4 DEF IInv
<1>6. QED
  BY <1>2, <1>4, <1>5 DEF IInv, Stopping

LEMMA InvStop ==
  ASSUME IInv, Stop \/ StopRequired \/ StopService \/ StopJoined
  PROVE  IInv'
<1>1. CASE Stop
  BY <1>1 DEF IInv, TypeOK, Stopping, Live, Looping, InLoop, Stop, pool, lines
<1>2. CASE StopRequired
  BY <1>2, CountAssumption
     DEF IInv, TypeOK, Stopping, Live, Looping, InLoop, StopRequired, asio, pool, lines
<1>3. CASE StopService
  BY <1>3 DEF IInv, TypeOK, Stopping, Live, Looping, InLoop, StopService, pool, lines
<1>4. CASE StopJoined
  <2>1. TypeOK'
    BY <1>4, CountAssumption DEF IInv, TypeOK, StopJoined, lines
  <2>2. Live' = {} /\ 0..(Provided' - 1) = {}
    BY <1>4 DEF IInv, Live, Looping, InLoop, Provided, StopJoined
  <2>3. QED
    BY <1>4, <2>1, <2>2 DEF IInv, Stopping, StopJoined
<1>5. QED
  BY <1>1, <1>2, <1>3, <1>4

-----------------------------------------------------------------------------
(* A step of a thread takes nobody the pool must have: the loop of run()   *)
(* ends only for an index that is not required, or in stop().              *)
LEMMA InvThread ==
  ASSUME IInv, NEW th \in Thread, ThreadStep(th)
  PROVE  IInv'
<1>1. UNCHANGED owner /\ th \in Live
  BY DEF ThreadStep, LineBegins, LineEnds, Check, Take, HandlerDone, RunOneStopped,
         Live, Looping, InLoop, Line
<1>2. \E a \in {"ended", "exited"} \cup InLoop, k \in {index[th], 0} :
        /\ at' = [at EXCEPT ![th] = a] /\ index' = [index EXCEPT ![th] = k]
        /\ a \in InLoop => k = index[th] /\ th \in Looping
        /\ a \notin InLoop => Stopping \/ required <= index[th] \/ th \notin Looping
  <2>1. index \in [Thread -> 0..MaxThreads] /\ required \in 0..MaxThreads
        /\ index = [index EXCEPT ![th] = index[th]]
    BY DEF IInv, TypeOK
  <2>2. at \in [Thread -> {"absent", "ended", "exited"} \cup InLoop]
    BY DEF IInv, TypeOK
  <2>3. CASE LineBegins(th)
    <3>1. at' = [at EXCEPT ![th] = at[th]] /\ index' = [index EXCEPT ![th] = index[th]]
      BY <2>1, <2>2, <2>3 DEF LineBegins
    <3>2. at[th] \in {"report", "ended"}
      BY <2>3 DEF LineBegins, Line
    <3>3. QED
      BY <3>1, <3>2 DEF Looping, InLoop
  <2>4. CASE LineEnds(th)
    BY <2>1, <2>4 DEF LineEnds, Line, Looping, InLoop
  <2>5. CASE Check(th)
    <3>1. index' = [index EXCEPT ![th] = index[th]] /\ th \in Looping
      BY <2>1, <2>5 DEF Check, Looping, InLoop
    <3>2. CASE required > index[th]
      BY <2>5, <3>1, <3>2 DEF Check, InLoop
    <3>3. CASE ~(required > index[th])
      <4>1. required <= index[th]
        BY <2>1, <3>3, CountAssumption
      <4>2. at' = [at EXCEPT ![th] = "ended"] /\ "ended" \notin InLoop
        BY <2>5, <3>3 DEF Check, InLoop
      <4>3. QED
        BY <3>1, <4>1, <4>2
    <3>4. QED
      BY <3>2, <3>3
  <2>6. CASE Take(th) \/ HandlerDone(th)
    BY <2>1, <2>6 DEF Take, HandlerDone, Looping, InLoop
  <2>7. CASE RunOneStopped(th)
    <3>1. th \in Live
      BY <1>1
    <3>2. Stopping
      BY <2>7, <3>1 DEF IInv, RunOneStopped
    <3>3. QED
      BY <2>1, <2>7, <3>2 DEF RunOneStopped, InLoop
  <2>8. QED
    BY <2>3, <2>4, <2>5, <2>6, <2>7 DEF ThreadStep
<1>3. TypeOK'
  <2>1. /\ at' \in [Thread -> {"absent", "ended", "exited"} \cup InLoop]
        /\ index' \in [Thread -> 0..MaxThreads]
    BY <1>2, CountAssumption DEF IInv, TypeOK
  <2>2. writes' \in [Thread -> Logger \cup {none}] /\ replaced' \in SUBSET Logger
    BY DEF IInv, TypeOK, ThreadStep, LineBegins, LineEnds, Check, Take, HandlerDone,
           RunOneStopped, lines
  <2>3. /\ queue' \in Seq(Task \cup {plumber}) /\ pending' \in SUBSET Task
        /\ stopped' \in BOOLEAN /\ handler' \in [Thread -> Task \cup {plumber, none}]
    <3>1. CASE Take(th)
      <4>1. Head(queue) \in Task \cup {plumber} /\ Tail(queue) \in Seq(Task \cup {plumber})
        BY <3>1 DEF IInv, TypeOK, Take
      <4>2. QED
        BY <3>1, <4>1 DEF IInv, TypeOK, Take
    <3>2. CASE ~Take(th)
      BY <3>2 DEF IInv, TypeOK, ThreadStep, LineBegins, LineEnds, Check, HandlerDone,
                  RunOneStopped, asio
    <3>3. QED
      BY <3>1, <3>2
  <2>4. QED
    BY <1>1, <2>1, <2>2, <2>3 DEF IInv, TypeOK, owner
<1>4. Live' \subseteq Live
  BY <1>1, <1>2 DEF IInv, TypeOK, Live, Looping
<1>5. ~Stopping => \A k \in 0..(Provided - 1) : HasThread(k)'
  <2> SUFFICES ASSUME ~Stopping, NEW k \in 0..(Provided - 1)
               PROVE  HasThread(k)'
    OBVIOUS
  <2>1. HasThread(k) /\ k < required
    BY DEF IInv, TypeOK, Provided
  <2>2. CASE k \in refused
    BY <1>1, <2>2 DEF HasThread, owner
  <2>3. CASE \E other \in Looping : index[other] = k
    <3>1. PICK other \in Looping : index[other] = k
      BY <2>3
    <3>2. PICK a \in {"ended", "exited"} \cup InLoop, j \in {index[th], 0} :
            /\ at' = [at EXCEPT ![th] = a] /\ index' = [index EXCEPT ![th] = j]
            /\ a \in InLoop => j = index[th] /\ th \in Looping
            /\ a \notin InLoop => Stopping \/ required <= index[th] \/ th \notin Looping
      BY <1>2
    <3>3. other = th => a \in InLoop /\ j = index[th]
      BY <2>1, <3>1, <3>2 DEF IInv, TypeOK
    <3>4. other \in Thread /\ at'[other] \in InLoop /\ index'[other] = k
      BY <3>1, <3>2, <3>3 DEF IInv, TypeOK, Looping
    <3>5. QED
      BY <3>4 DEF HasThread, Looping
  <2>4. QED
    BY <2>1, <2>2, <2>3 DEF HasThread
<1>6. ~Stopping => stopped' = stopped
  BY <1>1 DEF IInv, TypeOK, ThreadStep, LineBegins, LineEnds, Check, Take,
              HandlerDone, RunOneStopped, asio
<1>7. QED
  BY <1>1, <1>3, <1>4, <1>5, <1>6 DEF IInv, Stopping, Provided, owner

LEMMA InvPost ==
  ASSUME IInv, NEW t \in Task, Post(t)
  PROVE  IInv'
<1>1. Append(queue, t) \in Seq(Task \cup {plumber})
  BY DEF IInv, TypeOK
<1>2. QED
  BY <1>1
     DEF IInv, TypeOK, Stopping, Provided, HasThread, Live, Looping, InLoop,
         Post, owner, pool, lines

LEMMA InvBegin ==
  ASSUME IInv, NEW t \in Task, Begin(t)
  PROVE  IInv'
BY DEF IInv, TypeOK, Stopping, Provided, HasThread, Live, Looping, InLoop,
       Begin, owner, pool, lines

LEMMA NextIInv == IInv /\ [Next]_vars => IInv'
<1> SUFFICES ASSUME IInv, [Next]_vars PROVE IInv'
  OBVIOUS
<1>1. CASE UNCHANGED vars
  BY <1>1
     DEF vars, owner, asio, pool, lines, IInv, TypeOK, Stopping,
         Provided, HasThread, Live, Looping, InLoop
<1>2. CASE Next
  BY <1>2, InvReload, InvReloadFails, InvGrow, InvGrowFails, InvShrink, InvStop,
     InvThread, InvPost, InvBegin DEF Next, OwnerStep
<1>3. QED
  BY <1>1, <1>2

(* IInv holds in every state of the pool. *)
THEOREM Invariance == Spec => []IInv
BY InitIInv, NextIInv, PTL DEF Spec

(* Each variable of the pool keeps its type, required_threads_count_ the   *)
(* sixteen bits of threads_count_t.                                        *)
THEOREM TypeCorrect == Spec => []TypeOK
<1>1. IInv => TypeOK
  BY DEF IInv
<1>2. QED
  BY <1>1, Invariance, PTL

(* Between calls every required index has a thread in its loop, whatever   *)
(* sequence of reloads, exceptions and wake-ups came before.               *)
THEOREM PoolIsProvisioned == Spec => []PoolProvisioned
<1>1. IInv => PoolProvisioned
  BY DEF IInv, PoolProvisioned, Stopping, Provided
<1>2. QED
  BY <1>1, Invariance, PTL

(* A stop that returned leaves no thread, no logger and a service that can *)
(* be run again.                                                           *)
THEOREM StopLeavesNothing == Spec => []QuiescentAfterStop
<1>1. IInv => QuiescentAfterStop
  BY DEF IInv, QuiescentAfterStop, Stopping
<1>2. QED
  BY <1>1, Invariance, PTL

-----------------------------------------------------------------------------
(* The lines of the threads. *)
LEMMA LinesNext == IInv /\ LinesInv /\ [Next]_vars => LinesInv'
<1> SUFFICES ASSUME IInv, LinesInv, [Next]_vars PROVE LinesInv'
  OBVIOUS
<1> TypeOK
  BY DEF IInv
<1>1. CASE UNCHANGED <<at, lines, log_>>
  BY <1>1 DEF LinesInv, Written, lines
<1>2. ASSUME NEW config \in Config, Reload(config) PROVE LinesInv'
  BY <1>2 DEF LinesInv, Written, Reload
<1>3. CASE Grow
  <2>1. PICK th \in Absent : at' = [at EXCEPT ![th] = "report"]
    BY <1>3 DEF Grow
  <2>2. UNCHANGED <<lines, log_>>
    BY <1>3 DEF Grow
  <2>3. QED
    BY <2>1, <2>2 DEF LinesInv, Written, lines, Line, TypeOK
<1>4. CASE StopJoined
  <2>1. \A th \in Thread : writes[th] = none
    BY <1>4 DEF LinesInv, StopJoined, Live, Looping, InLoop, Line
  <2>2. QED
    BY <1>4, <2>1 DEF LinesInv, StopJoined, Written, lines
<1>5. ASSUME NEW th \in Thread, LineBegins(th) PROVE LinesInv'
  BY <1>5 DEF LinesInv, LineBegins, Written, TypeOK, owner
<1>6. ASSUME NEW th \in Thread, LineEnds(th) PROVE LinesInv'
  <2>1. Written' \subseteq Written /\ replaced' = replaced \cap Written' /\ log_' = log_
    BY <1>6 DEF LineEnds, Written, TypeOK, owner
  <2>2. \A other \in Thread : writes'[other] # none => at'[other] \in Line
    BY <1>6 DEF LinesInv, LineEnds, TypeOK
  <2>3. QED
    BY <2>1, <2>2 DEF LinesInv
<1>7. ASSUME NEW th \in Thread, Check(th) \/ Take(th) \/ HandlerDone(th) \/ RunOneStopped(th)
      PROVE  LinesInv'
  <2>1. UNCHANGED <<lines, log_>> /\ at[th] \notin Line
    BY <1>7 DEF Check, Take, HandlerDone, RunOneStopped, owner, Line
  <2>2. \A other \in Thread : other # th => at'[other] = at[other]
    BY <1>7 DEF Check, Take, HandlerDone, RunOneStopped, TypeOK
  <2>3. QED
    BY <2>1, <2>2 DEF LinesInv, Written, lines
<1>8. CASE ReloadFails \/ GrowFails \/ Shrink \/ Stop \/ StopRequired \/ StopService
  BY <1>1, <1>8 DEF ReloadFails, GrowFails, Shrink, Stop, StopRequired, StopService, pool
<1>9. ASSUME NEW t \in Task, Post(t) \/ Begin(t) PROVE LinesInv'
  BY <1>1, <1>9 DEF Post, Begin, owner, pool
<1>10. CASE UNCHANGED vars
  BY <1>1, <1>10 DEF vars, owner, pool
<1>11. QED
  BY <1>2, <1>3, <1>4, <1>5, <1>6, <1>7, <1>8, <1>9, <1>10
     DEF Next, OwnerStep, ThreadStep

(* For any number of threads and loggers: a thread that is alive has a     *)
(* logger to write to, and stop() takes none away that is written to.  It  *)
(* is reload() alone that lets go of a logger in the middle of a line.     *)
THEOREM ThreadsHaveLogger == Spec => []LoggerPresent
<1>1. Init => LinesInv
  BY DEF Init, LinesInv, Written
<1>2. IInv /\ LinesInv => LoggerPresent
  BY DEF IInv, LinesInv, LoggerPresent
<1>3. Spec => []LinesInv
  BY InitIInv, NextIInv, <1>1, LinesNext, PTL DEF Spec
<1>4. QED
  BY <1>2, <1>3, Invariance, PTL

-----------------------------------------------------------------------------
(* The pool implements HandlerPool.                                        *)
LEMMA InitHeldOnce == Init => HeldOnce
<1> SUFFICES ASSUME Init PROVE HeldOnce
  OBVIOUS
<1>1. DOMAIN queue = {} /\ \A th \in Thread : at[th] = "absent" /\ handler[th] = none
  BY DEF Init
<1>2. none \notin Task
  BY HandlerAssumption
<1>3. QED
  BY <1>1, <1>2 DEF HeldOnce

LEMMA HeldOnceTake ==
  ASSUME IInv, HeldOnce, NEW th \in Thread, Take(th)
  PROVE  HeldOnce'
<1>1. /\ queue # << >> /\ queue \in Seq(Task \cup {plumber}) /\ queue' = Tail(queue)
      /\ at \in [Thread -> {"absent", "ended", "exited"} \cup InLoop]
      /\ handler \in [Thread -> Task \cup {plumber, none}]
      /\ at[th] = "waiting"
      /\ at' = [at EXCEPT ![th] = "handler"]
      /\ handler' = [handler EXCEPT ![th] = Head(queue)]
  BY DEF IInv, TypeOK, Take
<1>2. /\ Len(queue) \in Nat \ {0} /\ Head(queue) = queue[1]
      /\ Len(queue') = Len(queue) - 1
      /\ \A i \in DOMAIN queue' : i + 1 \in DOMAIN queue /\ queue'[i] = queue[i + 1] /\ i \in Nat \ {0}
      /\ 1 \in DOMAIN queue /\ queue[1] # none
  BY <1>1, HandlerAssumption
<1>3. \A i, j \in DOMAIN queue' : queue'[i] \in Task /\ queue'[i] = queue'[j] => i = j
  BY <1>2 DEF HeldOnce
<1>4. \A i \in DOMAIN queue' : queue'[i] \in Task => queue'[i] # queue[1]
  BY <1>2 DEF HeldOnce
<1>5. \A other \in Thread : handler'[other] = IF other = th THEN queue[1] ELSE handler[other]
  BY <1>1, <1>2
<1>6. \A other \in Thread : at'[other] = "handler" <=> handler'[other] # none
  BY <1>1, <1>2, <1>5 DEF HeldOnce
<1>7. \A i \in DOMAIN queue', other \in Thread :
        queue'[i] \in Task => handler'[other] # queue'[i]
  BY <1>2, <1>4, <1>5 DEF HeldOnce
<1>8. \A one, other \in Thread :
        handler'[one] \in Task /\ handler'[one] = handler'[other] => one = other
  BY <1>2, <1>5 DEF HeldOnce
<1>9. QED
  BY <1>3, <1>6, <1>7, <1>8 DEF HeldOnce

LEMMA HeldOnceThread ==
  ASSUME IInv, HeldOnce, NEW th \in Thread,
         LineBegins(th) \/ LineEnds(th) \/ Check(th) \/ HandlerDone(th) \/ RunOneStopped(th)
  PROVE  HeldOnce'
<1>1. queue' = queue
  BY DEF LineBegins, LineEnds, Check, HandlerDone, RunOneStopped, asio
<1>2. CASE HandlerDone(th)
  BY <1>1, <1>2, HandlerAssumption DEF IInv, TypeOK, HeldOnce, HandlerDone
<1>3. CASE LineBegins(th) \/ LineEnds(th) \/ Check(th) \/ RunOneStopped(th)
  BY <1>1, <1>3
     DEF IInv, TypeOK, HeldOnce, LineBegins, LineEnds, Line, Check, RunOneStopped
<1>4. QED
  BY <1>2, <1>3

LEMMA HeldOnceAppend ==
  ASSUME IInv, HeldOnce, NEW t \in Task \cup {plumber}, queue' = Append(queue, t),
         UNCHANGED pool,
         t \in Task => t \notin Range(queue) \cup Range(handler)
  PROVE  HeldOnce'
<1>1. /\ DOMAIN queue = 1..Len(queue) /\ DOMAIN queue' = 1..(Len(queue) + 1)
      /\ Len(queue) \in Nat
      /\ \A i \in DOMAIN queue : queue'[i] = queue[i]
      /\ queue'[Len(queue) + 1] = t
  BY DEF IInv, TypeOK
<1>2. DOMAIN handler = Thread
  BY DEF IInv, TypeOK
<1>3. t \in Task => /\ \A i \in DOMAIN queue : queue[i] # t
                   /\ \A th \in Thread : handler[th] # t
  BY <1>2 DEF Range
<1>4. \A i \in DOMAIN queue' : i \in DOMAIN queue \/ i = Len(queue) + 1
  BY <1>1
<1>5. QED
  BY <1>1, <1>3, <1>4 DEF HeldOnce, pool

LEMMA HeldOnceNext == IInv /\ HeldOnce /\ [Next]_vars => HeldOnce'
<1> SUFFICES ASSUME IInv, HeldOnce, [Next]_vars PROVE HeldOnce'
  OBVIOUS
<1>1. ASSUME NEW config \in Config, Reload(config) PROVE HeldOnce'
  BY <1>1 DEF Reload, asio, pool, lines, HeldOnce
<1>2. CASE ReloadFails \/ GrowFails \/ Stop \/ StopRequired \/ StopService
  BY <1>2 DEF ReloadFails, GrowFails, Stop, StopRequired, StopService, asio, pool, lines, HeldOnce
<1>3. CASE Grow
  BY <1>3 DEF IInv, TypeOK, Grow, LoopOver, Absent, asio, lines, InLoop, HeldOnce
<1>4. CASE Shrink
  BY <1>4, HeldOnceAppend, HandlerAssumption DEF Shrink
<1>5. CASE StopJoined
  BY <1>5 DEF IInv, TypeOK, StopJoined, Live, Looping, InLoop, HeldOnce
<1>6. ASSUME NEW th \in Thread, ThreadStep(th) PROVE HeldOnce'
  BY <1>6, HeldOnceTake, HeldOnceThread DEF ThreadStep
<1>7. ASSUME NEW t \in Task, Post(t) PROVE HeldOnce'
  BY <1>7, HeldOnceAppend DEF Post
<1>8. ASSUME NEW t \in Task, Begin(t) PROVE HeldOnce'
  BY <1>8 DEF Begin, pool, HeldOnce
<1>9. CASE UNCHANGED vars
  BY <1>9 DEF vars, asio, pool, lines, HeldOnce
<1>10. QED
  BY <1>1, <1>2, <1>3, <1>4, <1>5, <1>6, <1>7, <1>8, <1>9 DEF Next, OwnerStep

LEMMA PoolInit == Init => Pool!Init
<1> SUFFICES ASSUME Init PROVE Pool!Init
  OBVIOUS
<1>1. Range(queue) \cap Task = {} /\ Range(handler) \cap Task = {}
  BY HandlerAssumption DEF Init, Range
<1>2. QED
  BY <1>1 DEF Init, Stopping, Pool!Init

(* What the users of the pool see of a state. *)
PhaseView == IF Stopping THEN "stopping" ELSE IF work_ THEN "serving" ELSE "stopped"
QueueView == Range(queue) \cap Task
RunningView == Range(handler) \cap Task

LEMMA PoolThread ==
  ASSUME IInv, HeldOnce, NEW th \in Thread, ThreadStep(th)
  PROVE  Pool!Next \/ UNCHANGED Pool!vars
<1>1. UNCHANGED <<pending, PhaseView>>
  BY DEF ThreadStep, LineBegins, LineEnds, Check, Take, HandlerDone, RunOneStopped, owner, asio, PhaseView, Stopping
<1>2. /\ handler \in [Thread -> Task \cup {plumber, none}] /\ queue \in Seq(Task \cup {plumber})
      /\ PhaseView # "stopped"
  BY DEF IInv, TypeOK, PhaseView, Live, Looping, InLoop, Line,
         ThreadStep, LineBegins, LineEnds, Check, Take, HandlerDone, RunOneStopped
<1>3. CASE LineBegins(th) \/ LineEnds(th) \/ Check(th) \/ RunOneStopped(th)
  BY <1>1, <1>3 DEF LineBegins, LineEnds, Check, RunOneStopped, asio, Pool!vars, PhaseView
<1>4. CASE Take(th)
  <2> DEFINE t == Head(queue)
  <2>1. /\ queue # << >> /\ queue' = Tail(queue) /\ handler' = [handler EXCEPT ![th] = t]
        /\ handler[th] = none /\ t \in Task \cup {plumber}
    BY <1>2, <1>4 DEF Take, HeldOnce
  <2>2. /\ DOMAIN queue = 1..Len(queue) /\ Len(queue) \in Nat \ {0} /\ t = queue[1]
        /\ DOMAIN queue' = 1..(Len(queue) - 1)
        /\ \A i \in DOMAIN queue' : queue'[i] = queue[i + 1]
    BY <1>2, <2>1
  <2>3. \A i \in DOMAIN queue : i = 1 \/ (i - 1 \in DOMAIN queue' /\ queue'[i - 1] = queue[i])
    BY <2>2
  <2>4. \A i \in DOMAIN queue' : i + 1 \in DOMAIN queue /\ i + 1 # 1
    BY <2>2
  <2>5. QueueView' = QueueView \ {t}
    <3>1. QueueView' \subseteq QueueView \ {t}
      BY <2>2, <2>4 DEF QueueView, Range, HeldOnce
    <3>2. QueueView \ {t} \subseteq QueueView'
      BY <2>2, <2>3 DEF QueueView, Range
    <3>3. QED
      BY <3>1, <3>2
  <2>6. RunningView' = RunningView \cup ({t} \cap Task)
    BY <1>2, <2>1, HandlerAssumption DEF RunningView, Range
  <2>7. t \in Task => t \in QueueView
    BY <2>2 DEF QueueView, Range
  <2>8. CASE t \in Task
    <3>1. Pool!Run(t)
      BY <1>1, <1>2, <2>5, <2>6, <2>7, <2>8
         DEF Pool!Run, PhaseView, QueueView, RunningView
    <3>2. QED
      BY <2>8, <3>1 DEF Pool!Next
  <2>9. CASE t \notin Task
    BY <1>1, <2>5, <2>6, <2>9 DEF Pool!vars, PhaseView, QueueView, RunningView
  <2>10. QED
    BY <2>8, <2>9
<1>5. CASE HandlerDone(th)
  <2> DEFINE t == handler[th]
  <2>1. queue' = queue /\ handler' = [handler EXCEPT ![th] = none] /\ t \in Task \cup {plumber}
    BY <1>2, <1>5 DEF HandlerDone, HeldOnce
  <2>2. RunningView' = RunningView \ {t}
    BY <1>2, <2>1, HandlerAssumption DEF RunningView, Range, HeldOnce
  <2>3. t \in Task => t \in RunningView
    BY <1>2 DEF RunningView, Range
  <2>4. CASE t \in Task
    <3>1. Pool!Finish(t)
      BY <1>1, <2>1, <2>2, <2>3, <2>4
         DEF Pool!Finish, PhaseView, RunningView
    <3>2. QED
      BY <2>4, <3>1 DEF Pool!Next
  <2>5. CASE t \notin Task
    BY <1>1, <2>1, <2>2, <2>5 DEF Pool!vars, PhaseView, RunningView
  <2>6. QED
    BY <2>1, <2>4, <2>5
<1>6. QED
  BY <1>3, <1>4, <1>5 DEF ThreadStep

LEMMA RangeAppend ==
  ASSUME IInv, NEW t \in Task \cup {plumber}, queue' = Append(queue, t)
  PROVE  Range(queue') = Range(queue) \cup {t}
<1>1. /\ DOMAIN queue = 1..Len(queue) /\ DOMAIN queue' = 1..(Len(queue) + 1)
      /\ Len(queue) \in Nat
      /\ \A i \in DOMAIN queue : queue'[i] = queue[i]
      /\ queue'[Len(queue) + 1] = t
  BY DEF IInv, TypeOK
<1>2. \A i \in DOMAIN queue' : i \in DOMAIN queue \/ i = Len(queue) + 1
  BY <1>1
<1>3. DOMAIN queue \subseteq DOMAIN queue' /\ Len(queue) + 1 \in DOMAIN queue'
  BY <1>1
<1>4. QED
  BY <1>1, <1>2, <1>3 DEF Range

LEMMA PoolPost ==
  ASSUME IInv, NEW t \in Task, Post(t) \/ Begin(t)
  PROVE  Pool!Next
<1>1. {t} \in SUBSET Task /\ {t} \cap (QueueView \cup RunningView) = {}
  BY DEF Post, Begin, QueueView, RunningView
<1>2. CASE Post(t)
  <2>1. QueueView' = QueueView \cup {t} /\ UNCHANGED <<PhaseView, RunningView>>
    BY <1>2, RangeAppend DEF Post, QueueView, RunningView, PhaseView, Stopping, owner, pool, lines
  <2>2. Pool!Post({t})
    BY <1>1, <1>2, <2>1 DEF Post, Pool!Post, QueueView, RunningView, PhaseView
  <2>3. QED
    BY <1>1, <2>2 DEF Pool!Next
<1>3. CASE Begin(t)
  <2>1. Pool!Begin({t})
    BY <1>1, <1>3 DEF Begin, Pool!Begin, QueueView, RunningView, Stopping, owner, pool, lines
  <2>2. QED
    BY <1>1, <2>1 DEF Pool!Next
<1>4. QED
  BY <1>2, <1>3

LEMMA PoolOwner ==
  ASSUME IInv, HeldOnce,
         (\E config \in Config : Reload(config)) \/ ReloadFails \/ Stop \/ OwnerStep
  PROVE  Pool!Next \/ UNCHANGED Pool!vars
<1>1. UNCHANGED <<pending, RunningView>>
  BY DEF Reload, ReloadFails, Stop, OwnerStep, Grow, GrowFails, Shrink, StopRequired,
         StopService, StopJoined, asio, pool, lines, RunningView
<1>2. UNCHANGED QueueView
  <2>1. CASE Shrink
    BY <2>1, RangeAppend, HandlerAssumption DEF Shrink, QueueView
  <2>2. CASE ~Shrink
    BY <2>2 DEF Reload, ReloadFails, Stop, OwnerStep, Grow, GrowFails, StopRequired,
         StopService, StopJoined, asio, QueueView
  <2>3. QED
    BY <2>1, <2>2
<1>3. \/ PhaseView' = PhaseView
      \/ PhaseView = "stopped" /\ PhaseView' = "serving"
      \/ PhaseView # "stopping" /\ PhaseView' = "stopping"
      \/ PhaseView = "stopping" /\ PhaseView' = "stopped" /\ StopJoined
  <2>1. CASE \E config \in Config : Reload(config)
    BY <2>1 DEF Reload, PhaseView, Stopping
  <2>2. CASE ReloadFails
    <3>1. ~Stopping /\ ~Stopping' /\ (work_' = work_ \/ work_' = TRUE)
      BY <2>2 DEF ReloadFails, Stopping
    <3>2. work_ = TRUE \/ work_ = FALSE
      BY DEF IInv, TypeOK
    <3>3. QED
      BY <3>1, <3>2 DEF PhaseView
  <2>3. CASE Stop
    BY <2>3 DEF Stop, PhaseView, Stopping
  <2>4. CASE Grow \/ GrowFails \/ Shrink
    BY <2>4 DEF Grow, GrowFails, Shrink, PhaseView, Stopping
  <2>5. CASE StopRequired \/ StopService
    BY <2>5 DEF StopRequired, StopService, PhaseView, Stopping
  <2>6. CASE StopJoined
    BY <2>6 DEF IInv, StopJoined, PhaseView, Stopping
  <2>7. QED
    BY <2>1, <2>2, <2>3, <2>4, <2>5, <2>6 DEF OwnerStep
<1>4. StopJoined => RunningView = {}
  BY HandlerAssumption DEF StopJoined, IInv, TypeOK, HeldOnce, Live, Looping, InLoop, RunningView, Range
<1>5. CASE PhaseView' = PhaseView
  BY <1>1, <1>2, <1>5 DEF Pool!vars, PhaseView, QueueView, RunningView
<1>6. CASE PhaseView = "stopped" /\ PhaseView' = "serving"
  BY <1>1, <1>2, <1>6 DEF Pool!Next, Pool!Serve, PhaseView, QueueView, RunningView
<1>7. CASE PhaseView # "stopping" /\ PhaseView' = "stopping"
  BY <1>1, <1>2, <1>7 DEF Pool!Next, Pool!BeginStop, PhaseView, QueueView, RunningView
<1>8. CASE PhaseView = "stopping" /\ PhaseView' = "stopped" /\ StopJoined
  BY <1>1, <1>2, <1>4, <1>8 DEF Pool!Next, Pool!EndStop, PhaseView, QueueView, RunningView
<1>9. QED
  BY <1>3, <1>5, <1>6, <1>7, <1>8

LEMMA PoolNext == IInv /\ HeldOnce /\ [Next]_vars => [Pool!Next]_(Pool!vars)
<1> SUFFICES ASSUME IInv, HeldOnce, [Next]_vars PROVE Pool!Next \/ UNCHANGED Pool!vars
  OBVIOUS
<1>1. CASE UNCHANGED vars
  BY <1>1 DEF vars, owner, asio, pool, lines, Pool!vars, Stopping
<1>2. CASE Next
  BY <1>2, PoolOwner, PoolThread, PoolPost DEF Next
<1>3. QED
  BY <1>1, <1>2

(* For any number of threads and handlers, through any sequence of reloads *)
(* and stops: whatever the pool does, HandlerPool allows.  Every handler   *)
(* runs at most once per post, and none after the stop that followed.      *)
THEOREM ImplementsHandlerPool == Spec => PoolSpec
<1>1. Spec => []HeldOnce
  BY InitIInv, NextIInv, InitHeldOnce, HeldOnceNext, PTL DEF Spec
<1>2. QED
  BY <1>1, Invariance, PoolInit, PoolNext, PTL DEF Spec, PoolSpec, Pool!Spec
=============================================================================
