----------------------------- MODULE Deployment -----------------------------
(***************************************************************************)
(* A server with the applications of its tests: an io_service pool, a TCP  *)
(* and a UDP acceptor that run on it.  The module composes the calls of    *)
(* the server with what they do to the three applications, the handlers    *)
(* that the pool runs meanwhile, and the shared_ptrs by which each of them *)
(* keeps others alive.  The pool is the one of HandlerPool, which          *)
(* IoService implements.  What TcpAcceptor and UdpAcceptor do step by step *)
(* inside start, stop and on_accpet is one step here; so are the starts    *)
(* and stops of one application.                                           *)
(*                                                                         *)
(* A configuration names some of the three, in any order; a name that the  *)
(* server has dropped does not come back; there is one UDP port; nothing   *)
(* follows server::stop().                                                 *)
(***************************************************************************)
EXTENDS Naturals

CONSTANTS
  Op,        \* handler objects
  Socket,    \* UDP sockets
  MaxCalls,  \* bound of the model: calls of start and reload
  none       \* no socket

ASSUME NoneAssumption == none \notin Socket
ASSUME CallsAssumption == MaxCalls \in Nat \ {0}

Acceptor == {"tcp", "udp"}
App == Acceptor \cup {"pool"}
Needs(a) == IF a = "pool" THEN {} ELSE {"pool"}

VARIABLES
  call,        \* the call of the server that runs: "none", "start",
               \* "reload", "sweep" for its second loop, "stop"; "ended"
  calls,       \* calls of start and reload so far
  kept,        \* the names its configuration lists
  todo,        \* those its loop has not come to
  to_stop,     \* the names the loop that stops has not come to
  registered,  \* the names in instances_
  started,     \* the acceptors whose members are set
  socket_,     \* the UDP acceptor's; none is null
  closed,      \* UDP sockets that were closed
  handler,     \* what each handler is bound to
  phase, queue, pending, running,  \* the pool
  seen,        \* history: names that were ever registered
  freed,       \* history: names given to app::free
  threw,       \* history: whether a reload threw
  crashed      \* a null pointer was dereferenced: the process is gone

server == <<call, calls, kept, todo, to_stop, registered>>
members == <<started, socket_>>
pool == <<phase, queue, pending, running>>
history == <<seen, freed, threw>>
vars == <<server, members, closed, handler, pool, history, crashed>>

Pool == INSTANCE HandlerPool WITH Task <- Op

(* A handler is "accept", "serve" for one of a TCP client's connection,    *)
(* "peek", "read" or "close" of a UDP socket, or "done": about to return.  *)
Bound(does, app, socket) ==
  [does |-> does, app |-> app, socket |-> socket, aborted |-> FALSE]
Idle == Bound("done", "none", none)

Init ==
  /\ call = "none" /\ calls = 0 /\ kept = {} /\ todo = {} /\ to_stop = {}
  /\ registered = {} /\ started = {} /\ socket_ = none /\ closed = {}
  /\ handler = [o \in Op |-> Idle]
  /\ Pool!Init
  /\ seen = {} /\ freed = {} /\ threw = FALSE /\ crashed = FALSE

-----------------------------------------------------------------------------
(* Who is kept alive by whom.  instances_ holds applications; each thread  *)
(* of the pool and every connection hold the pool, and so does an acceptor *)
(* whose members are set; a handler holds its acceptor; and the pool, as   *)
(* long as it exists, holds the handlers queued or in progress.            *)
Held == queue \cup pending \cup running

(* Connections hold the pool; "peek" and "close" hold no connection. *)
WithConnection == {o \in Op : handler[o].does \in {"accept", "serve", "read"}}

ByAcceptor ==
  \E a \in started : a \in registered \/ \E o \in Held : handler[o].app = a

(* A faulty variant: the threads do not hold the pool. *)
PoolHeldByOthers ==
  "pool" \in registered \/ Held \cap WithConnection # {} \/ ByAcceptor

PoolAlive ==
  \/ "pool" \in registered \/ phase # "stopped"
  \/ Held \cap WithConnection # {} \/ ByAcceptor

(* The handlers that exist: those of a pool that is gone went with it. *)
Existing == IF PoolAlive THEN Held ELSE {}

AcceptorAlive(a) == a \in registered \/ \E o \in Existing : handler[o].app = a

(* The sockets that occupy the UDP port. *)
BoundSockets ==
  {s \in Socket \ closed : s = socket_ \/ \E o \in Existing : handler[o].socket = s}

(* Any handler object or socket that is not in use will do. *)
NewOp == CHOOSE o \in Op : o \notin Held
OtherOp == CHOOSE o \in Op : o \notin Held \cup {NewOp}
Fresh == {s \in Socket \ closed : s # socket_ /\ \A o \in Held : handler[o].socket # s}
NewSocket == CHOOSE s \in Fresh : TRUE

(* An operation is started, a handler posted, operations are aborted. *)
Begins(h) ==
  /\ Op \ Held # {}
  /\ handler' = [handler EXCEPT ![NewOp] = h]
  /\ Pool!Begin({NewOp})

Aborts(ts) ==
  /\ handler' = [o \in Op |-> IF o \in ts THEN [handler[o] EXCEPT !.aborted = TRUE]
                                          ELSE handler[o]]
  /\ Pool!Post(ts)

-----------------------------------------------------------------------------
(* What the calls do to an acceptor. *)

(* tcp::stop(): the acceptor is closed at once. *)
StopTcp ==
  /\ started' = started \ {"tcp"}
  /\ Aborts({o \in pending : handler[o].does = "accept"})
  /\ UNCHANGED <<socket_, closed>>

(* A faulty variant: the members are left as they are. *)
StopUdpKept ==
  /\ IF socket_ # none
     THEN /\ Op \ Held # {}
          /\ handler' = [handler EXCEPT ![NewOp] = Bound("close", "none", socket_)]
          /\ Pool!Post({NewOp})
     ELSE UNCHANGED <<handler, pool>>
  /\ UNCHANGED <<started, socket_, closed>>

(* udp::stop(): a handler is posted that closes the socket. *)
StopUdp ==
  /\ IF socket_ # none
     THEN /\ Op \ Held # {}
          /\ handler' = [handler EXCEPT ![NewOp] = Bound("close", "none", socket_)]
          /\ Pool!Post({NewOp})
     ELSE UNCHANGED <<handler, pool>>
  /\ started' = started \ {"udp"} /\ socket_' = none
  /\ UNCHANGED closed

(* The first half of a reload: tcp stops, udp only resets its members. *)
Unset(a) ==
  \/ a = "tcp" /\ StopTcp
  \/ /\ a = "udp" /\ started' = started \ {"udp"} /\ socket_' = none
     /\ UNCHANGED <<closed, handler, pool>>

(* start(), where app::get finds the pool and the port is free. *)
StartAcceptor(a) ==
  /\ started' = started \cup {a}
  /\ \/ /\ a = "tcp"
        /\ Begins(Bound("accept", "tcp", none))
        /\ UNCHANGED socket_
     \/ /\ a = "udp" /\ BoundSockets = {} /\ Fresh # {}
        /\ socket_' = NewSocket
        /\ Begins(Bound("peek", "udp", NewSocket))
  /\ UNCHANGED closed

(* The pool's start and reload; the change of its number of threads is     *)
(* left to IoService.                                                      *)
StartPool ==
  /\ \/ Pool!Serve
     \/ phase # "stopped" /\ UNCHANGED pool
  /\ UNCHANGED <<members, closed, handler>>

-----------------------------------------------------------------------------
(* server::start() and the first loop of server::reload(). *)
Configure ==
  /\ call = "none" /\ calls < MaxCalls
  /\ call' = IF calls = 0 THEN "start" ELSE "reload"
  /\ calls' = calls + 1
  /\ \E names \in SUBSET (App \ (seen \ registered)) : kept' = names /\ todo' = names
  /\ UNCHANGED <<to_stop, registered, members, closed, handler, pool, history>>

(* An application of a name that is new, or that is given its new          *)
(* configuration: an acceptor that runs is stopped in a step of its own.   *)
ConfigureOne(a) ==
  /\ call \in {"start", "reload"} /\ a \in todo
  /\ \/ /\ a \in registered \cap started
        /\ Unset(a)
        /\ UNCHANGED <<server, seen>>
     \/ /\ a \notin registered \cap started /\ Needs(a) \subseteq registered
        /\ IF a = "pool" THEN StartPool ELSE StartAcceptor(a)
        /\ todo' = todo \ {a}
        /\ registered' = registered \cup {a} /\ seen' = seen \cup {a}
        /\ UNCHANGED <<call, calls, kept, to_stop>>
  /\ UNCHANGED <<freed, threw>>

(* app::get does not find the pool, or udp finds the port taken, which     *)
(* leaves one that was registered with its other members set.              *)
Throws(a) ==
  /\ call \in {"start", "reload"} /\ a \in todo
  /\ a \notin registered \cap started
  /\ \/ ~(Needs(a) \subseteq registered) /\ UNCHANGED started
     \/ /\ a = "udp" /\ Needs(a) \subseteq registered /\ BoundSockets # {}
        /\ started' = IF a \in registered THEN started \cup {a} ELSE started
  /\ threw' = (threw \/ call = "reload")
  /\ call' = "none" /\ kept' = {} /\ todo' = {}
  /\ UNCHANGED <<calls, to_stop, registered, socket_, closed, handler, pool, seen, freed>>

Configured ==
  /\ call \in {"start", "reload"} /\ todo = {}
  /\ \/ call = "start" /\ call' = "none" /\ kept' = {} /\ UNCHANGED to_stop
     \/ call = "reload" /\ call' = "sweep" /\ to_stop' = registered /\ UNCHANGED kept
  /\ UNCHANGED <<calls, todo, registered, members, closed, handler, pool, history>>

(* server::stop(). *)
Stop ==
  /\ call = "none" /\ call' = "stop" /\ to_stop' = registered
  /\ UNCHANGED <<calls, kept, todo, registered, members, closed, handler, pool, history>>

(* A faulty variant: the threads are not joined. *)
StopPoolUnjoined ==
  /\ \/ phase = "serving" /\ Pool!BeginStop
     \/ phase # "serving" /\ UNCHANGED pool
  /\ to_stop' = to_stop \ {"pool"}
  /\ UNCHANGED <<members, closed, handler>>

(* The pool's stop() ends when its threads have ended. *)
StopPool ==
  /\ \/ phase = "serving" /\ Pool!BeginStop /\ UNCHANGED to_stop
     \/ Pool!EndStop /\ UNCHANGED to_stop
     \/ phase = "stopped" /\ UNCHANGED pool /\ to_stop' = to_stop \ {"pool"}
  /\ UNCHANGED <<members, closed, handler>>

(* The loops that stop visit every instance, in the order of a hash table. *)
StopOne(a) ==
  /\ call \in {"sweep", "stop"} /\ a \in to_stop
  /\ ("pool" \in to_stop /\ phase = "stopping") => a = "pool"
  /\ \/ a = "pool" /\ StopPool
     \/ a = "tcp" /\ StopTcp /\ to_stop' = to_stop \ {a}
     \/ a = "udp" /\ StopUdp /\ to_stop' = to_stop \ {a}
  /\ UNCHANGED <<call, calls, kept, todo, registered, history>>

Stopped ==
  /\ call \in {"sweep", "stop"} /\ to_stop = {}
  /\ call' = IF call = "sweep" THEN "none" ELSE "ended"
  /\ registered' = kept /\ kept' = {}
  /\ UNCHANGED <<calls, todo, to_stop, members, closed, handler, pool, history>>

(* app::free(): the instance is only dropped. *)
Free(a) ==
  /\ call = "none" /\ a \in registered
  /\ registered' = registered \ {a} /\ freed' = freed \cup {a}
  /\ UNCHANGED <<call, calls, kept, todo, to_stop, members, closed, handler, pool, seen, threw>>

OwnerStep ==
  /\ \/ Configure \/ Configured \/ Stop \/ Stopped
     \/ \E a \in App : ConfigureOne(a) \/ Throws(a) \/ StopOne(a) \/ Free(a)
  /\ UNCHANGED crashed

-----------------------------------------------------------------------------
(* The handlers, in the threads of the pool. *)
Crash == crashed' = TRUE /\ UNCHANGED <<handler, pool, closed>>

Returns(o) == handler' = [handler EXCEPT ![o] = Idle] /\ UNCHANGED pool

(* A faulty variant: the operation gets the memory of the handler that     *)
(* starts it before that has returned.                                     *)
GoesOnInPlace(o, h) ==
  /\ handler' = [handler EXCEPT ![o] = h]
  /\ pending' = pending \cup {o}
  /\ UNCHANGED <<phase, queue, running>>

(* The handler starts an operation and is about to return. *)
GoesOn(o, h) ==
  /\ Op \ Held # {}
  /\ handler' = [handler EXCEPT ![o] = Idle, ![NewOp] = h]
  /\ Pool!Begin({NewOp})

(* tcp::on_accpet: the next accept; a connection that is good is served. *)
OnTcpAccept(o) ==
  /\ handler[o].does = "accept"
  /\ \/ handler[o].aborted /\ Returns(o) /\ UNCHANGED <<closed, crashed>>
     \/ ~handler[o].aborted /\ "tcp" \notin started /\ Crash
     \/ /\ ~handler[o].aborted /\ "tcp" \in started
        /\ \/ GoesOn(o, Bound("accept", "tcp", none))
           \/ /\ \E o1, o2 \in Op \ Held : o1 # o2
              /\ handler' = [handler EXCEPT ![o] = Idle,
                   ![NewOp] = Bound("accept", "tcp", none),
                   ![OtherOp] = Bound("serve", "tcp", none)]
              /\ Pool!Begin({NewOp, OtherOp})
        /\ UNCHANGED <<closed, crashed>>

(* A callback of a processor: it reads or writes again, or does not. *)
OnServe(o) ==
  /\ handler[o].does = "serve"
  /\ Returns(o) \/ GoesOn(o, Bound("serve", "tcp", none))
  /\ UNCHANGED <<closed, crashed>>

(* udp::on_accpet: an operation that failed is started again; available()  *)
(* throws for a socket that was closed; else the datagram is read.         *)
OnPeek(o) ==
  LET h == handler[o]
  IN /\ h.does = "peek"
     /\ \/ /\ h.aborted \/ ("udp" \in started /\ h.socket \in closed)
           /\ Returns(o)
           /\ UNCHANGED <<closed, crashed>>
        \/ ~h.aborted /\ socket_ = none /\ Crash
        \/ /\ ~h.aborted /\ socket_ # none
           /\ \/ GoesOn(o, Bound("peek", "udp", socket_))
              \/ h.socket \notin closed /\ GoesOn(o, Bound("read", "udp", h.socket))
           /\ UNCHANGED <<closed, crashed>>

(* The callback of the read, which looks at no error: accept() again. *)
OnRead(o) ==
  /\ handler[o].does = "read"
  /\ \/ socket_ = none /\ Crash
     \/ /\ socket_ # none
        /\ GoesOn(o, Bound("peek", "udp", socket_))
        /\ UNCHANGED <<closed, crashed>>

(* The handler that udp::stop() posts. *)
OnClose(o) ==
  LET s == handler[o].socket
      ts == {p \in pending : handler[p].socket = s}
  IN /\ handler[o].does = "close"
     /\ closed' = closed \cup {s}
     /\ handler' = [p \in Op |-> IF p = o THEN Idle
                                 ELSE IF p \in ts THEN [handler[p] EXCEPT !.aborted = TRUE]
                                 ELSE handler[p]]
     /\ Pool!Post(ts)
     /\ UNCHANGED crashed

HandlerStep ==
  /\ \E o \in running :
       OnTcpAccept(o) \/ OnServe(o) \/ OnPeek(o) \/ OnRead(o) \/ OnClose(o)
  /\ UNCHANGED <<server, members, history>>

(* asio runs a handler, and destroys it when it has returned; operations   *)
(* complete: a client connects, data comes.                                *)
PoolStep ==
  /\ \E o \in Op :
       \/ Pool!Run(o)
       \/ handler[o].does = "done" /\ Pool!Finish(o)
       \/ o \in Existing \cap pending /\ Pool!Post({o})
  /\ UNCHANGED <<server, members, closed, handler, history, crashed>>

Next == ~crashed /\ (OwnerStep \/ HandlerStep \/ PoolStep)

Spec == Init /\ [][Next]_vars

-----------------------------------------------------------------------------
Handler ==
  [does : {"accept", "serve", "peek", "read", "close", "done"},
   app : Acceptor \cup {"none"}, socket : Socket \cup {none}, aborted : BOOLEAN]

(* The types of the variables; handlers are held once. *)
TypeOK ==
  /\ call \in {"none", "start", "reload", "sweep", "stop", "ended"}
  /\ calls \in 0..MaxCalls
  /\ kept \subseteq App /\ todo \subseteq App /\ to_stop \subseteq App
  /\ registered \subseteq App /\ seen \subseteq App /\ freed \subseteq App
  /\ started \subseteq Acceptor /\ socket_ \in Socket \cup {none}
  /\ closed \subseteq Socket
  /\ handler \in [Op -> Handler]
  /\ phase \in {"stopped", "serving", "stopping"}
  /\ Held \subseteq Op
  /\ queue \cap pending = {} /\ (queue \cup pending) \cap running = {}
  /\ threw \in BOOLEAN /\ crashed \in BOOLEAN

(* After server::stop(), whatever the order of its loop and whatever the   *)
(* pool left undone, the applications are destroyed and the UDP port is    *)
(* free.  There are three exceptions, each a circle of shared_ptrs that    *)
(* stop() does not come to: a handler that is still queued or in progress  *)
(* and is of a connection holds the pool, which holds it; a pool that was  *)
(* given to app::free is held by its own threads, which nobody stops; and  *)
(* a UDP acceptor that was freed is held by its peek, and holds the pool.  *)
StopReleasesAll ==
  (call = "ended" /\ freed \subseteq {"tcp"} /\ queue \cap WithConnection = {}
     /\ pending \cap WithConnection = {})
  => /\ ~PoolAlive /\ BoundSockets = {}
     /\ \A a \in Acceptor : ~AcceptorAlive(a)

(* A handler that was in flight when its acceptor was stopped or reloaded  *)
(* meets null members only while the call of the server runs that did it,  *)
(* or after a reload that threw or a pool that was freed: never once       *)
(* start, reload or stop has returned.                                     *)
CrashesDuringCalls ==
  crashed => call \in {"reload", "sweep", "stop"} \/ threw \/ "pool" \in freed

(* The last reference to the pool is never dropped while a handler runs:   *)
(* its destructor would join the thread that the handler runs in.          *)
ReleasedByOwner ==
  [][PoolAlive /\ ~PoolAlive' => running = {}]_vars
=============================================================================
