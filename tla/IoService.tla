----------------------------- MODULE IoService -----------------------------
(***************************************************************************)
(* boost_io_service of src/src/apps/boost_io_service: a pool of threads    *)
(* that run the handlers of one boost::asio::io_service.  The owner of the *)
(* application starts, reloads and stops it from a thread that is none of  *)
(* the pool's, one call at a time; the pool threads, and whoever posts     *)
(* handlers, run concurrently with these calls.                            *)
(*                                                                         *)
(* asio itself is external and modelled by what this code relies on: a     *)
(* queue of handlers, the stopped flag, and the count of outstanding work  *)
(* whose fall to zero sets that flag.                                      *)
(***************************************************************************)
EXTENDS Naturals, Sequences, FiniteSets, Functions

CONSTANTS
  Thread,              \* thread objects the pool may come to hold
  Task,                \* handlers that users of the pool post
  plumber,             \* the empty handler a shrinking reload posts
  Logger,              \* loggers a configuration may name
  none,                \* no handler, no logger
  Config,              \* configurations: [threads |-> ..., logger |-> ...]
  hardware_concurrency,
  MaxThreads,          \* the limit of threads_count_t: 65535
  PlumberTasks,        \* plumber_tasks_per_thread: 10
  MaxQueue             \* bound of the model: the longest queue shrinking may make

ASSUME CountAssumption ==
  /\ Config \subseteq [threads : Nat, logger : Logger] /\ hardware_concurrency \in Nat
  /\ MaxThreads \in Nat \ {0, 1} /\ PlumberTasks \in Nat \ {0}

ASSUME HandlerAssumption ==
  plumber \notin Task /\ none \notin Task \cup Thread \cup {plumber} \cup Logger

VARIABLES
  work_,       \* whether work_ holds an io_service::work
  log_,        \* the logger of the pool
  required,    \* required_threads_count_
  main,        \* where the owner is: "idle", in reload "grow" or "shrink",
               \* in stop "unworked", "unrequired" or "joining"
  next,        \* the counter of the loop of reload
  queue,       \* posted handlers, in order
  pending,     \* handlers of asynchronous operations that are in progress
  stopped,     \* asio's flag, sticky until io_service::reset()
  at,          \* where each thread is: "absent"; at a "report": the line it logs
               \* when it has started or a handler has thrown; at the "check" of
               \* its loop; in run_one: "waiting" or in a "handler"; at the line
               \* it logs when its loop has "ended"; or "exited"
  index,       \* the thread_index of each thread
  handler,     \* the handler each thread runs
  writes,      \* the logger a thread writes to: a raw pointer got from log_
  refused,     \* history: the indexes whose thread could not be created
  replaced     \* history: the loggers that a reload took out of log_ while a
               \* thread wrote to them, as long as it does

owner == <<work_, log_, required, main, next, refused>>
asio == <<queue, pending, stopped>>
lines == <<writes, replaced>>
pool == <<at, index, handler, lines>>
vars == <<owner, asio, pool>>

Line == {"report", "ended"}
InLoop == {"report", "check", "waiting", "handler"}

Absent == {th \in Thread : at[th] = "absent"}
Looping == {th \in Thread : at[th] \in InLoop}
Live == Looping \cup {th \in Thread : at[th] = "ended"}
Written == {writes[th] : th \in Thread} \ {none}
Running == {th \in Thread : at[th] = "handler"}

(* asio: what outstanding_work_ counts beside the handler that runs in `th'. *)
Outstanding(th) == queue # << >> \/ pending # {} \/ Running \ {th} # {}

(* A faulty variant: the count is not limited. *)
get_threads_count_unlimited(threads) ==
  IF threads # 0 THEN threads ELSE hardware_concurrency

(* get_threads_count: zero means one per core, and two when that is unknown. *)
get_threads_count(threads) ==
  LET cores == IF hardware_concurrency # 0 THEN hardware_concurrency ELSE 2
      asked == IF threads # 0 THEN threads ELSE cores
  IN IF asked > MaxThreads THEN MaxThreads ELSE asked

Init ==
  /\ work_ = FALSE /\ log_ = none /\ required = 0
  /\ main = "idle" /\ next = 0 /\ refused = {}
  /\ queue = << >> /\ pending = {} /\ stopped = FALSE
  /\ at = [th \in Thread |-> "absent"]
  /\ index = [th \in Thread |-> 0]
  /\ handler = [th \in Thread |-> none]
  /\ writes = [th \in Thread |-> none] /\ replaced = {}

-----------------------------------------------------------------------------
(* reload, which start is, up to the loop it enters if the counts differ.  *)
(* The new logger may be another one, and the old one is then let go while *)
(* the threads write to it.  The two guards after the first are bounds of  *)
(* the model: the thread objects there are, and MaxQueue.                  *)
Reload(config) ==
  LET old == required
      new == get_threads_count(config.threads)
  IN /\ main = "idle"
     /\ new > old => Cardinality(Absent) >= new - old
     /\ new < old => Len(queue) + PlumberTasks * old <= MaxQueue
     /\ work_' = TRUE /\ log_' = config.logger /\ required' = new
     /\ replaced' = Written \ {config.logger}
     /\ \/ old < new /\ main' = "grow" /\ next' = old
        \/ old > new /\ main' = "shrink" /\ next' = PlumberTasks * old
        \/ old = new /\ UNCHANGED <<main, next>>
     /\ refused' = refused \cap 0..(new - 1)
     /\ UNCHANGED <<asio, at, index, handler, writes>>

(* get_threads_count throws, or app::get does after work_ was made. *)
ReloadFails ==
  /\ main = "idle"
  /\ work_' \in {work_, TRUE}
  /\ UNCHANGED <<log_, required, main, next, refused, asio, pool>>

LoopOver == main' = "idle" /\ next' = 0

(* One turn of the loop that creates threads. *)
Grow ==
  /\ main = "grow"
  /\ \E th \in Absent :
       /\ at' = [at EXCEPT ![th] = "report"]
       /\ index' = [index EXCEPT ![th] = next]
  /\ refused' = refused \ {next}
  /\ IF next + 1 < required THEN next' = next + 1 /\ UNCHANGED main ELSE LoopOver
  /\ UNCHANGED <<work_, log_, required, asio, handler, lines>>

(* create_thread throws out of reload: required_threads_count_ keeps its   *)
(* new value.                                                              *)
GrowFails ==
  /\ main = "grow"
  /\ refused' = refused \cup next..(required - 1)
  /\ LoopOver
  /\ UNCHANGED <<work_, log_, required, asio, pool>>

(* One turn of the loops that post empty tasks to wake excess threads. *)
Shrink ==
  /\ main = "shrink"
  /\ queue' = Append(queue, plumber)
  /\ IF next > 1 THEN next' = next - 1 /\ UNCHANGED main ELSE LoopOver
  /\ UNCHANGED <<work_, log_, required, refused, pending, stopped, pool>>

-----------------------------------------------------------------------------
(* stop, and the destructor: work_.reset() ends the last outstanding work  *)
(* if there is no other.                                                   *)
Stop ==
  /\ main = "idle"
  /\ work_' = FALSE
  /\ stopped' = (stopped \/ (work_ /\ ~Outstanding(none)))
  /\ main' = "unworked"
  /\ UNCHANGED <<log_, required, next, refused, queue, pending, pool>>

StopRequired ==
  /\ main = "unworked"
  /\ required' = 0
  /\ main' = "unrequired"
  /\ UNCHANGED <<work_, log_, next, refused, asio, pool>>

(* A faulty variant: the threads are not waited for. *)
StopUnwaited ==
  /\ main = "unrequired"
  /\ stopped' = FALSE /\ log_' = none /\ main' = "idle"
  /\ UNCHANGED <<work_, required, next, refused, queue, pending, pool>>

(* io_service_.stop() *)
StopService ==
  /\ main = "unrequired"
  /\ stopped' = TRUE
  /\ main' = "joining"
  /\ UNCHANGED <<work_, log_, required, next, refused, queue, pending, pool>>

(* A faulty variant: io_service_.reset() and log_.reset() come before      *)
(* join_all().                                                             *)
StopUnjoined ==
  /\ main = "joining"
  /\ stopped' = FALSE /\ log_' = none
  /\ main' = IF Live = {} THEN "idle" ELSE "joining"
  /\ UNCHANGED <<work_, required, next, refused, queue, pending, pool>>

(* threads_.join_all() returns; io_service_.reset() and log_.reset() follow. *)
StopJoined ==
  /\ main = "joining"
  /\ Live = {}
  /\ at' = [th \in Thread |-> "absent"]
  /\ stopped' = FALSE /\ log_' = none
  /\ refused' = {}
  /\ main' = "idle"
  /\ UNCHANGED <<work_, required, next, queue, pending, index, handler, lines>>

-----------------------------------------------------------------------------
(* A line of a thread begins: logger_stream takes the pointer out of log_. *)
(* The read races with the assignment in reload() and yields the old or    *)
(* the new logger.                                                         *)
LineBegins(th) ==
  /\ at[th] \in Line /\ writes[th] = none /\ log_ # none
  /\ writes' = [writes EXCEPT ![th] = log_]
  /\ UNCHANGED <<owner, asio, at, index, handler, replaced>>

(* The logger has written the line, or thrown, which the destructor of     *)
(* logger_stream swallows; without a logger nothing is written.            *)
LineEnds(th) ==
  /\ at[th] \in Line /\ (writes[th] # none \/ log_ = none)
  /\ writes' = [writes EXCEPT ![th] = none]
  /\ replaced' = replaced \cap Written'
  /\ IF at[th] = "ended"
       THEN /\ at' = [at EXCEPT ![th] = "exited"]
            /\ index' = [index EXCEPT ![th] = 0]
       ELSE at' = [at EXCEPT ![th] = "check"] /\ UNCHANGED index
  /\ UNCHANGED <<owner, asio, handler>>

(* A faulty variant: indexes counted from one. *)
CheckOffByOne(th) ==
  /\ at[th] = "check"
  /\ at' = [at EXCEPT ![th] = IF required > index[th] + 1 THEN "waiting" ELSE "ended"]
  /\ UNCHANGED <<owner, asio, index, handler, lines>>

(* The test of the loop of run(). *)
Check(th) ==
  /\ at[th] = "check"
  /\ at' = [at EXCEPT ![th] = IF required > index[th] THEN "waiting" ELSE "ended"]
  /\ UNCHANGED <<owner, asio, index, handler, lines>>

(* run_one takes the first handler. *)
Take(th) ==
  /\ at[th] = "waiting" /\ ~stopped /\ queue # << >>
  /\ at' = [at EXCEPT ![th] = "handler"]
  /\ handler' = [handler EXCEPT ![th] = Head(queue)]
  /\ queue' = Tail(queue)
  /\ UNCHANGED <<owner, pending, stopped, index, lines>>

(* A faulty variant: an exception of a handler leaves the loop. *)
HandlerThrows(th) ==
  /\ at[th] = "handler"
  /\ \E where \in {"check", "ended"} : at' = [at EXCEPT ![th] = where]
  /\ handler' = [handler EXCEPT ![th] = none]
  /\ stopped' = (stopped \/ (~work_ /\ ~Outstanding(th)))
  /\ UNCHANGED <<owner, queue, pending, index, lines>>

(* The handler returns, or throws and the exception is logged: the loop    *)
(* goes on either way.  asio sets its flag when no work is outstanding.    *)
HandlerDone(th) ==
  /\ at[th] = "handler"
  /\ \E where \in {"check", "report"} : at' = [at EXCEPT ![th] = where]
  /\ handler' = [handler EXCEPT ![th] = none]
  /\ stopped' = (stopped \/ (~work_ /\ ~Outstanding(th)))
  /\ UNCHANGED <<owner, queue, pending, index, lines>>

(* run_one returns zero: stopped, or nothing to wait for, which stops.  The *)
(* loop ends.                                                              *)
RunOneStopped(th) ==
  /\ at[th] = "waiting"
  /\ stopped \/ (~work_ /\ ~Outstanding(th))
  /\ stopped' = TRUE
  /\ at' = [at EXCEPT ![th] = "ended"]
  /\ UNCHANGED <<owner, queue, pending, index, handler, lines>>

(* A user posts a handler, or an operation that was pending completes. *)
Post(t) ==
  /\ t \notin Range(queue) \cup Range(handler)
  /\ queue' = Append(queue, t)
  /\ pending' = pending \ {t}
  /\ UNCHANGED <<owner, stopped, pool>>

(* A user starts an asynchronous operation. *)
Begin(t) ==
  /\ t \notin Range(queue) \cup Range(handler)
  /\ pending' = pending \cup {t}
  /\ UNCHANGED <<owner, queue, stopped, pool>>

-----------------------------------------------------------------------------
OwnerStep == Grow \/ GrowFails \/ Shrink \/ StopRequired \/ StopService \/ StopJoined
ThreadStep(th) ==
  \/ LineBegins(th) \/ LineEnds(th)
  \/ Check(th) \/ Take(th) \/ HandlerDone(th) \/ RunOneStopped(th)

Next ==
  \/ \E config \in Config : Reload(config)
  \/ ReloadFails \/ Stop
  \/ OwnerStep
  \/ \E th \in Thread : ThreadStep(th)
  \/ \E t \in Task : Post(t) \/ Begin(t)

Spec == Init /\ [][Next]_vars

(* The owner, once in a call, and each thread of the pool are scheduled;   *)
(* handlers and loggers return.  Nobody has to call or to post.            *)
FairSpec == Spec /\ WF_vars(OwnerStep) /\ \A th \in Thread : WF_vars(ThreadStep(th))

-----------------------------------------------------------------------------
(* Each variable keeps its type; required_threads_count_ fits its own. *)
TypeOK ==
  /\ work_ \in BOOLEAN /\ log_ \in Logger \cup {none}
  /\ required \in 0..MaxThreads
  /\ main \in {"idle", "grow", "shrink", "unworked", "unrequired", "joining"}
  /\ next \in Nat
  /\ queue \in Seq(Task \cup {plumber})
  /\ pending \in SUBSET Task /\ stopped \in BOOLEAN
  /\ at \in [Thread -> {"absent", "ended", "exited"} \cup InLoop]
  /\ index \in [Thread -> 0..MaxThreads]
  /\ handler \in [Thread -> Task \cup {plumber, none}]
  /\ writes \in [Thread -> Logger \cup {none}] /\ replaced \in SUBSET Logger
  /\ refused \in SUBSET (0..MaxThreads)

(* Whenever no call is in progress, every index below the required count   *)
(* has a thread in its loop, unless that thread could not be created: a    *)
(* shrink followed by a grow, while the excess threads leave or linger,    *)
(* does not lose one, and no handler's exception ends one.                 *)
HasThread(k) == k \in refused \/ \E th \in Looping : index[th] = k
PoolProvisioned == main = "idle" => \A k \in 0..(required - 1) : HasThread(k)

(* After stop() nothing of the pool is left: no thread, no logger, no      *)
(* required thread, and an io_service a later start can run again.         *)
QuiescentAfterStop ==
  main = "idle" /\ ~work_ =>
    Live = {} /\ ~stopped /\ log_ = none /\ required = 0

(* As long as a thread of the pool is alive there is a logger for its next *)
(* line, and what it writes to is the logger the pool holds, with one      *)
(* exception: a logger that a reload() replaced while the line was under   *)
(* way, which the pool keeps alive no longer (the server's table may).     *)
(* stop() never lets go of a logger that is being written to.              *)
LoggerPresent ==
  /\ Live # {} => log_ # none
  /\ Written \subseteq {log_} \cup replaced

(* What the theorems of IoServiceProofs.tla rest on: outside stop() the     *)
(* service is not stopped and whoever lives has work to wait for; reload   *)
(* has provided every index up to its counter.                             *)
Stopping == main \in {"unworked", "unrequired", "joining"}
Provided == IF main = "grow" THEN next ELSE required

IInv ==
  /\ TypeOK
  /\ Live # {} => log_ # none
  /\ ~Stopping => /\ ~stopped /\ (Live # {} => work_)
                  /\ \A k \in 0..(Provided - 1) : HasThread(k)
                  /\ ~work_ => required = 0 /\ log_ = none
  /\ main \in {"grow", "shrink"} => work_ /\ log_ # none
  /\ main = "grow" => next < required
  /\ main = "shrink" => next > 0
  /\ main \in {"unrequired", "joining"} => required = 0
  /\ Stopping => ~work_

(* What the theorem about the logger rests on beside IInv. *)
LinesInv ==
  /\ \A th \in Thread : writes[th] # none => at[th] \in Line
  /\ Written \subseteq {log_} \cup replaced

(* The pool implements HandlerPool.  The empty tasks are its own affair.    *)
Pool == INSTANCE HandlerPool
  WITH phase <- IF Stopping THEN "stopping" ELSE IF work_ THEN "serving" ELSE "stopped",
       queue <- Range(queue) \cap Task,
       running <- Range(handler) \cap Task
PoolSpec == Pool!Spec

(* What that rests on beside IInv: a thread holds a handler exactly while   *)
(* it runs one, and no handler of a user is in two places.                 *)
HeldOnce ==
  /\ \A th \in Thread : at[th] = "handler" <=> handler[th] # none
  /\ \A i, j \in DOMAIN queue : queue[i] \in Task /\ queue[i] = queue[j] => i = j
  /\ \A i \in DOMAIN queue, th \in Thread : queue[i] \in Task => handler[th] # queue[i]
  /\ \A th, other \in Thread :
       handler[th] \in Task /\ handler[th] = handler[other] => th = other

(* stop() returns: every thread learns of it, whatever it is doing. *)
StopCompletes == main = "unworked" ~> main = "idle"

(* A handler posted while the pool has its first thread, which no reload   *)
(* dismisses, runs, unless the pool is stopped first.                      *)
Serving == required > 0 /\ \E th \in Looping : index[th] = 0
TasksServed ==
  \A t \in Task :
    Serving /\ t \in Range(queue) ~> (t \notin Range(queue) \/ main = "unworked")
=============================================================================
