-------------------------- MODULE DeploymentProofs --------------------------
(***************************************************************************)
(* Theorems about Deployment.  The inductive invariant says which handlers *)
(* exist (HandlersSound), which acceptors the loop of a stop has yet to    *)
(* come to (SweepReaches), where the pool is registered while it serves    *)
(* (PoolReached), and that outside of reload and stop each handler in      *)
(* flight finds the members it will use (Served).                          *)
(***************************************************************************)
EXTENDS Deployment, TLAPS

CallTypes ==
  /\ call \in {"none", "start", "reload", "sweep", "stop", "ended"}
  /\ calls \in 0..MaxCalls
  /\ kept \subseteq App /\ todo \subseteq App /\ to_stop \subseteq App
  /\ registered \subseteq App /\ seen \subseteq App /\ freed \subseteq App
  /\ threw \in BOOLEAN /\ crashed \in BOOLEAN

MemberTypes ==
  /\ started \subseteq Acceptor /\ socket_ \in Socket \cup {none}
  /\ closed \subseteq Socket
  /\ socket_ # none => "udp" \in started

HandlersSound ==
  /\ handler \in [Op -> Handler]
  /\ \A o \in Op : handler[o].does = "close" => handler[o].socket \in Socket

PoolSound ==
  /\ phase \in {"stopped", "serving", "stopping"}
  /\ Held \subseteq Op
  /\ queue \cap pending = {} /\ (queue \cup pending) \cap running = {}
  /\ phase = "stopped" => running = {}

(* Before the first start there is nothing. *)
FreshServer ==
  /\ calls = 0 =>
       /\ call \in {"none", "stop", "ended"}
       /\ Held = {} /\ registered = {} /\ to_stop = {} /\ started = {}
  /\ call \in {"none", "stop", "ended"} => kept = {}
  /\ call = "start" => todo \cap registered = {}

(* What is set is registered or freed; what a loop of stops has passed is  *)
(* no longer set.                                                          *)
SweepReaches ==
  /\ started \subseteq registered \cup freed
  /\ call \in {"sweep", "stop"} => started \subseteq to_stop \cup freed
  /\ call = "ended" => started \subseteq freed /\ registered = {}

(* A pool that serves is registered, and a loop of stops has yet to come   *)
(* to it.                                                                  *)
PoolReached ==
  phase # "stopped" /\ "pool" \notin freed =>
    /\ "pool" \in registered
    /\ call \in {"sweep", "stop"} => "pool" \in to_stop
    /\ call # "ended"

Served ==
  \A o \in Held :
    /\ handler[o].does = "accept" => "tcp" \in started
    /\ handler[o].does \in {"peek", "read"} => socket_ # none

ServedOutsideOfCalls ==
  ~threw /\ "pool" \notin freed =>
    /\ call = "start" => Served
    /\ call = "none" => phase = "stopped" \/ Served

IInv ==
  /\ CallTypes /\ MemberTypes /\ HandlersSound /\ PoolSound /\ FreshServer
  /\ SweepReaches /\ PoolReached /\ ServedOutsideOfCalls /\ CrashesDuringCalls

-----------------------------------------------------------------------------
LEMMA NewOpFree ==
  ASSUME Op \ Held # {}
  PROVE  NewOp \in Op /\ NewOp \notin Held
BY DEF NewOp

LEMMA OtherOpFree ==
  ASSUME NEW o1 \in Op \ Held, NEW o2 \in Op \ Held, o1 # o2
  PROVE  OtherOp \in Op /\ OtherOp \notin Held /\ OtherOp # NewOp
<1>1. \E o \in Op : o \notin Held \cup {NewOp}
  OBVIOUS
<1> QED BY <1>1 DEF OtherOp

LEMMA NewSocketFresh ==
  ASSUME Fresh # {}
  PROVE  NewSocket \in Socket
BY DEF NewSocket, Fresh

LEMMA BoundIsHandler ==
  ASSUME NEW does \in {"accept", "serve", "peek", "read", "close", "done"},
         NEW app \in Acceptor \cup {"none"}, NEW socket \in Socket \cup {none}
  PROVE  Bound(does, app, socket) \in Handler
BY DEF Bound, Handler

LEMMA IdleIsHandler == Idle \in Handler
BY BoundIsHandler DEF Idle

LEMMA InitIInv == Init => IInv
<1> SUFFICES ASSUME Init PROVE IInv
  OBVIOUS
<1>1. Held = {}
  BY DEF Init, Pool!Init, Held
<1>2. CallTypes
  <2>1. 0 \in 0..MaxCalls
    BY CallsAssumption
  <2> QED BY <2>1 DEF Init, CallTypes
<1>3. MemberTypes
  BY DEF Init, MemberTypes
<1>4. HandlersSound
  BY IdleIsHandler DEF Init, HandlersSound, Idle, Bound
<1>5. PoolSound
  BY <1>1 DEF Init, Pool!Init, PoolSound
<1>6. FreshServer /\ SweepReaches /\ PoolReached
  BY <1>1 DEF Init, Pool!Init, FreshServer, SweepReaches, PoolReached
<1>7. ServedOutsideOfCalls /\ CrashesDuringCalls
  BY <1>1 DEF Init, Pool!Init, Served, ServedOutsideOfCalls, CrashesDuringCalls
<1> QED BY <1>2, <1>3, <1>4, <1>5, <1>6, <1>7 DEF IInv

-----------------------------------------------------------------------------
(* What a step does to the handlers: those of ts are new, of the others    *)
(* some may have come to their end.                                        *)
Grows(ts) ==
  /\ handler' \in [Op -> Handler]
  /\ Held' \subseteq Held \cup ts /\ ts \subseteq Op
  /\ \A o \in Op \ ts :
       \/ handler'[o].does = handler[o].does /\ handler'[o].socket = handler[o].socket
       \/ handler'[o] = Idle
  /\ \A o \in ts : handler'[o].does = "close" => handler'[o].socket \in Socket

LEMMA GrowsKeepsSound ==
  ASSUME HandlersSound, NEW ts, Grows(ts)
  PROVE  HandlersSound'
BY DEF HandlersSound, Grows, Idle, Bound

(* The members that the new handlers will use are set. *)
LEMMA GrowsKeepsServed ==
  ASSUME Held \subseteq Op, Served, NEW ts, Grows(ts),
         started \subseteq started', socket_ # none => socket_' # none,
         \A o \in ts : /\ handler'[o].does = "accept" => "tcp" \in started'
                       /\ handler'[o].does \in {"peek", "read"} => socket_' # none
  PROVE  Served'
BY DEF Served, Grows, Idle, Bound

LEMMA BeginsGrows ==
  ASSUME HandlersSound, PoolSound, NEW h \in Handler, Begins(h),
         h.does = "close" => h.socket \in Socket
  PROVE  Grows({NewOp}) /\ PoolSound' /\ phase' = phase /\ handler'[NewOp] = h
<1>1. NewOp \in Op /\ NewOp \notin Held
  BY NewOpFree DEF Begins
<1>2. handler' = [handler EXCEPT ![NewOp] = h] /\ handler' \in [Op -> Handler]
  BY <1>1 DEF Begins, HandlersSound
<1>3. phase' = phase /\ queue' = queue /\ running' = running
       /\ pending' = pending \cup {NewOp}
  BY DEF Begins, Pool!Begin
<1>4. PoolSound'
  BY <1>1, <1>3 DEF PoolSound, Held
<1>5. Grows({NewOp})
  BY <1>1, <1>2, <1>3 DEF Grows, Held, HandlersSound
<1> QED BY <1>1, <1>2, <1>3, <1>4, <1>5 DEF HandlersSound

LEMMA AbortsGrows ==
  ASSUME HandlersSound, PoolSound, NEW ts \in SUBSET pending, Aborts(ts)
  PROVE  Grows({}) /\ PoolSound' /\ phase' = phase
<1>1. \A o \in Op : [handler[o] EXCEPT !.aborted = TRUE] \in Handler
  BY DEF HandlersSound, Handler
<1>2. handler' \in [Op -> Handler]
  BY <1>1 DEF Aborts, HandlersSound
<1>3. \A o \in Op : handler'[o].does = handler[o].does /\ handler'[o].socket = handler[o].socket
  BY DEF Aborts, HandlersSound, Handler
<1>4. phase' = phase /\ queue' = queue \cup ts /\ pending' = pending \ ts /\ running' = running
  BY DEF Aborts, Pool!Post
<1>5. PoolSound'
  BY <1>4 DEF PoolSound, Held
<1> QED BY <1>2, <1>3, <1>4, <1>5 DEF Grows, Held

LEMMA ReturnsGrows ==
  ASSUME HandlersSound, PoolSound, NEW o \in Op, Returns(o)
  PROVE  Grows({}) /\ PoolSound' /\ phase' = phase
<1>1. handler' = [handler EXCEPT ![o] = Idle] /\ handler' \in [Op -> Handler]
  BY IdleIsHandler DEF Returns, HandlersSound
<1>2. UNCHANGED <<phase, queue, pending, running>>
  BY DEF Returns, pool
<1> QED BY <1>1, <1>2 DEF Grows, Held, PoolSound, HandlersSound

LEMMA GoesOnGrows ==
  ASSUME HandlersSound, PoolSound, NEW o \in running, NEW h \in Handler, GoesOn(o, h),
         h.does = "close" => h.socket \in Socket
  PROVE  Grows({NewOp}) /\ PoolSound' /\ phase' = phase /\ handler'[NewOp] = h
<1>1. NewOp \in Op /\ NewOp \notin Held /\ o \in Op /\ o # NewOp
  BY NewOpFree DEF GoesOn, PoolSound, Held
<1>2. handler' = [handler EXCEPT ![o] = Idle, ![NewOp] = h] /\ handler' \in [Op -> Handler]
  BY <1>1, IdleIsHandler DEF GoesOn, HandlersSound
<1>3. phase' = phase /\ queue' = queue /\ running' = running
       /\ pending' = pending \cup {NewOp}
  BY DEF GoesOn, Pool!Begin
<1>4. PoolSound'
  BY <1>1, <1>3 DEF PoolSound, Held
<1>5. Grows({NewOp})
  BY <1>1, <1>2, <1>3 DEF Grows, Held, HandlersSound
<1> QED BY <1>1, <1>2, <1>3, <1>4, <1>5 DEF HandlersSound

(* The handler o starts two operations. *)
Serves(o, h1, h2) ==
  /\ \E o1, o2 \in Op \ Held : o1 # o2
  /\ handler' = [handler EXCEPT ![o] = Idle, ![NewOp] = h1, ![OtherOp] = h2]
  /\ Pool!Begin({NewOp, OtherOp})
  /\ h1.does # "close" /\ h2.does # "close"

LEMMA ServesGrows ==
  ASSUME HandlersSound, PoolSound, NEW o \in running, NEW h1 \in Handler, NEW h2 \in Handler,
         Serves(o, h1, h2)
  PROVE  /\ Grows({NewOp, OtherOp}) /\ PoolSound' /\ phase' = phase
         /\ handler'[NewOp] = h1 /\ handler'[OtherOp] = h2
<1>1. /\ NewOp \in Op /\ NewOp \notin Held /\ o \in Op /\ o # NewOp
      /\ OtherOp \in Op /\ OtherOp \notin Held /\ OtherOp # NewOp /\ o # OtherOp
  BY NewOpFree, OtherOpFree DEF PoolSound, Held, Serves
<1>2. handler' \in [Op -> Handler]
  BY <1>1, IdleIsHandler DEF HandlersSound, Serves
<1>3. phase' = phase /\ queue' = queue /\ running' = running
       /\ pending' = pending \cup {NewOp, OtherOp}
  BY DEF Pool!Begin, Serves
<1>4. PoolSound'
  BY <1>1, <1>3 DEF PoolSound, Held
<1>5. handler'[NewOp] = h1 /\ handler'[OtherOp] = h2
  BY <1>1 DEF HandlersSound, Serves
<1>6. Grows({NewOp, OtherOp})
  BY <1>1, <1>2, <1>3, <1>5 DEF Grows, Held, HandlersSound, Serves
<1> QED BY <1>3, <1>4, <1>5, <1>6

LEMMA ClosesGrows ==
  ASSUME HandlersSound, PoolSound, NEW o \in running, OnClose(o)
  PROVE  Grows({}) /\ PoolSound' /\ phase' = phase
<1> DEFINE s == handler[o].socket
           ts == {p \in pending : handler[p].socket = s}
<1>1. /\ phase' = phase /\ queue' = queue \cup ts
      /\ pending' = pending \ ts /\ running' = running
  BY DEF OnClose, Pool!Post
<1>2. handler' = [p \in Op |-> IF p = o THEN Idle
                               ELSE IF p \in ts THEN [handler[p] EXCEPT !.aborted = TRUE]
                               ELSE handler[p]]
  BY DEF OnClose
<1>3. \A p \in Op : [handler[p] EXCEPT !.aborted = TRUE] \in Handler
  BY DEF HandlersSound, Handler
<1>4. \A p \in Op : handler'[p] \in Handler
  BY <1>2, <1>3, IdleIsHandler DEF HandlersSound
<1>5. handler' \in [Op -> Handler]
  BY <1>2, <1>4
<1>6. \A p \in Op : \/ handler'[p].does = handler[p].does /\ handler'[p].socket = handler[p].socket
                    \/ handler'[p] = Idle
  BY <1>2 DEF HandlersSound, Handler
<1>7. PoolSound'
  BY <1>1 DEF PoolSound, Held
<1> QED BY <1>1, <1>5, <1>6, <1>7 DEF Grows, Held

-----------------------------------------------------------------------------
(* What a step of the pool or of a handler leaves as it is. *)
PoolSide ==
  /\ UNCHANGED <<server, members, history, phase>>
  /\ closed' \subseteq Socket /\ PoolSound' /\ HandlersSound'
  /\ Served => Served'
  /\ Held = {} => Held' = {}
  /\ \/ crashed' = crashed
     \/ crashed' = TRUE /\ phase # "stopped" /\ ~Served

LEMMA PoolSideKeepsIInv == IInv /\ PoolSide => IInv'
<1> SUFFICES ASSUME IInv, PoolSide PROVE IInv'
  OBVIOUS
<1> USE DEF IInv, PoolSide, server, members, history
<1>1. CallTypes' /\ MemberTypes'
  BY DEF CallTypes, MemberTypes
<1>2. FreshServer' /\ SweepReaches' /\ PoolReached'
  BY DEF FreshServer, SweepReaches, PoolReached
<1>3. ServedOutsideOfCalls'
  BY DEF ServedOutsideOfCalls
<1>4. CrashesDuringCalls'
  BY DEF CrashesDuringCalls, ServedOutsideOfCalls, PoolReached, CallTypes
<1> QED BY <1>1, <1>2, <1>3, <1>4

LEMMA HandlerStepKeepsIInv == IInv /\ HandlerStep => IInv'
<1> SUFFICES ASSUME IInv, UNCHANGED <<server, members, history>>, NEW o \in running,
                    OnTcpAccept(o) \/ OnServe(o) \/ OnPeek(o) \/ OnRead(o) \/ OnClose(o)
             PROVE  IInv'
  BY DEF HandlerStep
<1>0. /\ HandlersSound /\ PoolSound /\ crashed \in BOOLEAN /\ closed \subseteq Socket
      /\ o \in Op /\ handler[o] \in Handler /\ socket_ \in Socket \cup {none}
      /\ o \in Held /\ phase # "stopped" /\ Held \subseteq Op
      /\ UNCHANGED <<started, socket_>>
  BY DEF IInv, PoolSound, Held, HandlersSound, CallTypes, MemberTypes, members
<1>1. CASE Crash /\ ~Served
  <2>1. HandlersSound' /\ PoolSound'
    BY <1>0, <1>1 DEF Crash, HandlersSound, PoolSound, Held, pool
  <2> QED BY <1>0, <1>1, <2>1, PoolSideKeepsIInv DEF PoolSide, Crash, pool
<1>2. CASE Grows({}) /\ PoolSound' /\ UNCHANGED <<phase, crashed>> /\ closed' \subseteq Socket
  <2>1. Served => Served'
    BY <1>0, <1>2, GrowsKeepsServed
  <2>2. HandlersSound'
    BY <1>0, <1>2, GrowsKeepsSound
  <2> QED BY <1>0, <1>2, <2>1, <2>2, PoolSideKeepsIInv DEF PoolSide
<1>3. ASSUME NEW h \in Handler, GoesOn(o, h), UNCHANGED <<closed, crashed>>,
             h.does # "close", h.does = "accept" => "tcp" \in started,
             h.does \in {"peek", "read"} => socket_ # none
      PROVE  IInv'
  <2>1. Grows({NewOp}) /\ PoolSound' /\ phase' = phase /\ handler'[NewOp] = h
    BY <1>0, <1>3, GoesOnGrows
  <2>2. Served => Served'
    BY <1>0, <1>3, <2>1, GrowsKeepsServed
  <2>3. HandlersSound'
    BY <1>0, <2>1, GrowsKeepsSound
  <2> QED BY <1>0, <1>3, <2>1, <2>2, <2>3, PoolSideKeepsIInv DEF PoolSide
<1>4. CASE Returns(o) /\ UNCHANGED <<closed, crashed>>
  BY <1>0, <1>2, <1>4, ReturnsGrows
<1>5. CASE OnTcpAccept(o)
  <2>1. CASE ~handler[o].aborted /\ "tcp" \notin started /\ Crash
    BY <1>0, <1>1, <1>5, <2>1 DEF OnTcpAccept, Served
  <2>2. CASE GoesOn(o, Bound("accept", "tcp", none)) /\ "tcp" \in started
             /\ UNCHANGED <<closed, crashed>>
    BY <1>3, <2>2, BoundIsHandler DEF Bound, Acceptor
  <2>3. CASE /\ \E o1, o2 \in Op \ Held : o1 # o2
             /\ handler' = [handler EXCEPT ![o] = Idle,
                  ![NewOp] = Bound("accept", "tcp", none),
                  ![OtherOp] = Bound("serve", "tcp", none)]
             /\ Pool!Begin({NewOp, OtherOp})
             /\ "tcp" \in started /\ UNCHANGED <<closed, crashed>>
    <3>1. /\ Bound("accept", "tcp", none) \in Handler
          /\ Bound("serve", "tcp", none) \in Handler
      BY BoundIsHandler DEF Acceptor
    <3>2. /\ Grows({NewOp, OtherOp}) /\ PoolSound' /\ phase' = phase
          /\ handler'[NewOp] = Bound("accept", "tcp", none)
          /\ handler'[OtherOp] = Bound("serve", "tcp", none)
      <4> DEFINE h1 == Bound("accept", "tcp", none)
                 h2 == Bound("serve", "tcp", none)
      <4>1. Serves(o, h1, h2)
        BY <2>3 DEF Serves, Bound
      <4>2. h1 \in Handler /\ h2 \in Handler
        BY <3>1
      <4> HIDE DEF h1, h2
      <4>3. /\ Grows({NewOp, OtherOp}) /\ PoolSound' /\ phase' = phase
            /\ handler'[NewOp] = h1 /\ handler'[OtherOp] = h2
        BY <1>0, <4>1, <4>2, ServesGrows
      <4> QED BY <4>3 DEF h1, h2
    <3>3. \A p \in {NewOp, OtherOp} : handler'[p].does \notin {"peek", "read"}
      BY <3>2 DEF Bound
    <3>4. Served => Served'
      <4>1. Held \subseteq Op /\ started \subseteq started' /\ socket_' = socket_
        BY <1>0
      <4>2. "tcp" \in started'
        BY <1>0, <2>3
      <4> QED BY <3>2, <3>3, <4>1, <4>2, GrowsKeepsServed
    <3>5. HandlersSound' /\ closed' = closed /\ crashed' = crashed
      BY <1>0, <2>3, <3>2, GrowsKeepsSound
    <3>6. Held = {} => Held' = {}
      BY <1>0
    <3> QED BY <1>0, <3>2, <3>4, <3>5, <3>6, PoolSideKeepsIInv DEF PoolSide
  <2> QED BY <1>4, <1>5, <2>1, <2>2, <2>3 DEF OnTcpAccept
<1>6. CASE OnServe(o)
  <2>1. CASE GoesOn(o, Bound("serve", "tcp", none)) /\ UNCHANGED <<closed, crashed>>
    BY <1>3, <2>1, BoundIsHandler DEF Bound, Acceptor
  <2> QED BY <1>4, <1>6, <2>1 DEF OnServe
<1>7. CASE OnPeek(o)
  <2>1. CASE socket_ = none /\ Crash
    BY <1>0, <1>1, <1>7, <2>1 DEF OnPeek, Served
  <2>2. CASE GoesOn(o, Bound("peek", "udp", socket_)) /\ socket_ # none
             /\ UNCHANGED <<closed, crashed>>
    BY <1>0, <1>3, <2>2, BoundIsHandler DEF Bound, Acceptor
  <2>3. CASE GoesOn(o, Bound("read", "udp", handler[o].socket)) /\ socket_ # none
             /\ UNCHANGED <<closed, crashed>>
    <3>1. handler[o].socket \in Socket \cup {none}
      BY <1>0 DEF Handler
    <3> QED BY <1>3, <2>3, <3>1, BoundIsHandler DEF Bound, Acceptor
  <2> QED BY <1>4, <1>7, <2>1, <2>2, <2>3 DEF OnPeek
<1>8. CASE OnRead(o)
  <2>1. CASE socket_ = none /\ Crash
    BY <1>0, <1>1, <1>8, <2>1 DEF OnRead, Served
  <2>2. CASE GoesOn(o, Bound("peek", "udp", socket_)) /\ socket_ # none
             /\ UNCHANGED <<closed, crashed>>
    BY <1>0, <1>3, <2>2, BoundIsHandler DEF Bound, Acceptor
  <2> QED BY <1>8, <2>1, <2>2 DEF OnRead
<1>9. CASE OnClose(o)
  <2>1. closed' \subseteq Socket /\ crashed' = crashed
    BY <1>0, <1>9 DEF OnClose, HandlersSound
  <2> QED BY <1>0, <1>2, <1>9, <2>1, ClosesGrows
<1> QED BY <1>5, <1>6, <1>7, <1>8, <1>9

LEMMA PoolStepKeepsIInv == IInv /\ PoolStep => IInv'
<1> SUFFICES ASSUME IInv, NEW o \in Op,
                    UNCHANGED <<server, members, closed, handler, history, crashed>>,
                    \/ Pool!Run(o)
                    \/ handler[o].does = "done" /\ Pool!Finish(o)
                    \/ o \in Existing \cap pending /\ Pool!Post({o})
             PROVE  IInv'
  BY DEF PoolStep
<1>1. HandlersSound' /\ closed' \subseteq Socket /\ crashed' \in BOOLEAN
  BY DEF IInv, HandlersSound, MemberTypes, CallTypes
<1>2. PoolSound' /\ phase' = phase /\ Held' \subseteq Held
  BY DEF IInv, PoolSound, Held, Pool!Run, Pool!Finish, Pool!Post
<1>3. Served => Served'
  BY <1>2 DEF Served, members
<1>4. UNCHANGED <<server, members, history>> /\ (Held = {} => Held' = {})
  BY <1>2
<1>5. crashed' = crashed
  OBVIOUS
<1> QED BY <1>1, <1>2, <1>3, <1>4, <1>5, PoolSideKeepsIInv DEF PoolSide

-----------------------------------------------------------------------------
(* The calls of the server, between two of which nothing has crashed. *)
LEMMA QuietKeepsSound ==
  ASSUME HandlersSound, PoolSound, UNCHANGED <<handler, pool>>
  PROVE  HandlersSound' /\ PoolSound' /\ Held' = Held /\ phase' = phase
BY DEF HandlersSound, PoolSound, Held, pool

LEMMA ConfigureKeepsIInv ==
  ASSUME IInv, Configure, crashed' = FALSE
  PROVE  IInv'
<1> USE DEF IInv, Configure
<1>1. HandlersSound' /\ PoolSound' /\ Held' = Held /\ phase' = phase
  BY QuietKeepsSound
<1>2. calls \in Nat /\ calls' \in 0..MaxCalls /\ calls' # 0
  BY CallsAssumption DEF CallTypes
<1>3. CallTypes' /\ MemberTypes'
  BY <1>2 DEF CallTypes, MemberTypes, members, history
<1>4. FreshServer'
  BY <1>2 DEF FreshServer, members
<1>5. SweepReaches' /\ PoolReached'
  BY <1>1 DEF SweepReaches, PoolReached, members, history
<1>6. ServedOutsideOfCalls'
  BY <1>1, <1>2 DEF ServedOutsideOfCalls, FreshServer, Served, members, history
<1> QED BY <1>1, <1>3, <1>4, <1>5, <1>6 DEF CrashesDuringCalls

LEMMA ConfiguredKeepsIInv ==
  ASSUME IInv, Configured, crashed' = FALSE
  PROVE  IInv'
<1> USE DEF IInv, Configured
<1>1. HandlersSound' /\ PoolSound' /\ Held' = Held /\ phase' = phase
  BY QuietKeepsSound
<1>2. CallTypes' /\ MemberTypes'
  BY DEF CallTypes, MemberTypes, members, history
<1>3. FreshServer'
  BY <1>1 DEF FreshServer, members
<1>4. SweepReaches' /\ PoolReached'
  BY <1>1 DEF SweepReaches, PoolReached, members, history
<1>5. ServedOutsideOfCalls'
  BY <1>1 DEF ServedOutsideOfCalls, Served, members, history
<1> QED BY <1>1, <1>2, <1>3, <1>4, <1>5 DEF CrashesDuringCalls

LEMMA StopKeepsIInv ==
  ASSUME IInv, Stop, crashed' = FALSE
  PROVE  IInv'
<1> USE DEF IInv, Stop
<1>1. HandlersSound' /\ PoolSound' /\ Held' = Held /\ phase' = phase
  BY QuietKeepsSound
<1>2. CallTypes' /\ MemberTypes'
  BY DEF CallTypes, MemberTypes, members, history
<1>3. FreshServer'
  BY <1>1 DEF FreshServer, members
<1>4. SweepReaches' /\ PoolReached'
  BY <1>1 DEF SweepReaches, PoolReached, members, history
<1>5. ServedOutsideOfCalls'
  BY DEF ServedOutsideOfCalls
<1> QED BY <1>1, <1>2, <1>3, <1>4, <1>5 DEF CrashesDuringCalls

(* The pool was among those to stop, so it is stopped or freed. *)
LEMMA StoppedKeepsIInv ==
  ASSUME IInv, Stopped, crashed' = FALSE
  PROVE  IInv'
<1> USE DEF IInv, Stopped
<1>1. HandlersSound' /\ PoolSound' /\ Held' = Held /\ phase' = phase
  BY QuietKeepsSound
<1>2. CallTypes' /\ MemberTypes'
  BY DEF CallTypes, MemberTypes, members, history
<1>3. FreshServer'
  BY <1>1 DEF FreshServer, members
<1>4. SweepReaches' /\ PoolReached'
  BY <1>1 DEF SweepReaches, PoolReached, FreshServer, members, history
<1>5. phase' = "stopped" \/ "pool" \in freed'
  BY <1>1 DEF PoolReached, history
<1>6. ServedOutsideOfCalls'
  BY <1>5 DEF ServedOutsideOfCalls
<1> QED BY <1>1, <1>2, <1>3, <1>4, <1>6 DEF CrashesDuringCalls

LEMMA FreeKeepsIInv ==
  ASSUME IInv, NEW a \in App, Free(a), crashed' = FALSE
  PROVE  IInv'
<1> USE DEF IInv, Free
<1>1. HandlersSound' /\ PoolSound' /\ Held' = Held /\ phase' = phase
  BY QuietKeepsSound
<1>2. CallTypes' /\ MemberTypes'
  BY DEF CallTypes, MemberTypes, members
<1>3. FreshServer'
  BY <1>1 DEF FreshServer, members
<1>4. SweepReaches' /\ PoolReached'
  BY <1>1 DEF SweepReaches, PoolReached, members
<1>5. ServedOutsideOfCalls'
  BY <1>1 DEF ServedOutsideOfCalls, Served, members
<1> QED BY <1>1, <1>2, <1>3, <1>4, <1>5 DEF CrashesDuringCalls

LEMMA ThrowsKeepsIInv ==
  ASSUME IInv, NEW a \in App, Throws(a), crashed' = FALSE
  PROVE  IInv'
<1> USE DEF IInv, Throws
<1>1. HandlersSound' /\ PoolSound' /\ Held' = Held /\ phase' = phase
  BY QuietKeepsSound
<1>2. started \subseteq started' /\ started' \subseteq started \cup (registered \cap Acceptor)
  BY DEF Acceptor
<1>3. CallTypes' /\ MemberTypes'
  BY <1>2 DEF CallTypes, MemberTypes
<1>4. FreshServer'
  BY <1>1, <1>2 DEF FreshServer
<1>5. SweepReaches' /\ PoolReached'
  BY <1>1, <1>2 DEF SweepReaches, PoolReached
<1>6. ServedOutsideOfCalls'
  BY <1>1, <1>2 DEF ServedOutsideOfCalls, Served, CallTypes
<1> QED BY <1>1, <1>3, <1>4, <1>5, <1>6 DEF CrashesDuringCalls

LEMMA StopTcpSound ==
  ASSUME HandlersSound, PoolSound, StopTcp
  PROVE  HandlersSound' /\ PoolSound' /\ phase' = phase /\ (Held = {} => Held' = {})
<1>1. Grows({}) /\ PoolSound' /\ phase' = phase
  BY AbortsGrows DEF StopTcp
<1>2. HandlersSound'
  BY <1>1, GrowsKeepsSound
<1> QED BY <1>1, <1>2 DEF Grows

LEMMA StopUdpSound ==
  ASSUME HandlersSound, PoolSound, MemberTypes, StopUdp
  PROVE  HandlersSound' /\ PoolSound' /\ phase' = phase
<1>1. CASE socket_ = none
  BY <1>1, QuietKeepsSound DEF StopUdp
<1>2. CASE socket_ # none
  <2> DEFINE h == Bound("close", "none", socket_)
  <2>1. h \in Handler /\ h.socket = socket_ /\ socket_ \in Socket
    BY <1>2, BoundIsHandler DEF Bound, MemberTypes
  <2>2. handler' = [handler EXCEPT ![NewOp] = h] /\ NewOp \in Op /\ NewOp \notin Held
    BY <1>2, NewOpFree DEF StopUdp
  <2> HIDE DEF h
  <2>3. HandlersSound'
    BY <2>1, <2>2 DEF HandlersSound
  <2>4. /\ phase' = phase /\ queue' = queue \cup {NewOp}
        /\ pending' = pending \ {NewOp} /\ running' = running
    BY <1>2 DEF StopUdp, Pool!Post
  <2>5. PoolSound'
    BY <2>2, <2>4 DEF PoolSound, Held
  <2> QED BY <2>3, <2>4, <2>5
<1> QED BY <1>1, <1>2

LEMMA StopOneKeepsIInv ==
  ASSUME IInv, NEW a \in App, StopOne(a), crashed' = FALSE
  PROVE  IInv'
<1> USE DEF IInv, StopOne
<1>1. CallTypes'
  BY DEF CallTypes, StopPool, history
<1>2. call \in {"sweep", "stop"} /\ call' = call /\ registered' = registered
  OBVIOUS
<1>3. calls' = calls /\ calls # 0 /\ kept' = kept /\ todo' = todo
  BY DEF FreshServer
<1>4. FreshServer'
  BY <1>2, <1>3 DEF FreshServer
<1>5. ServedOutsideOfCalls' /\ CrashesDuringCalls'
  BY <1>2 DEF ServedOutsideOfCalls, CrashesDuringCalls
<1>6. CASE a = "pool" /\ StopPool
  <2>1. PoolSound' /\ Held' = Held
    BY <1>6 DEF StopPool, PoolSound, Held, Pool!BeginStop, Pool!EndStop, pool
  <2>2. HandlersSound' /\ MemberTypes'
    BY <1>6 DEF StopPool, HandlersSound, MemberTypes, members
  <2>3. SweepReaches'
    BY <1>6, <1>2 DEF SweepReaches, StopPool, members, history, MemberTypes, Acceptor
  <2>4. PoolReached'
    BY <1>6, <1>2 DEF PoolReached, StopPool, Pool!BeginStop, Pool!EndStop, pool, history
  <2> QED BY <1>1, <1>4, <1>5, <2>1, <2>2, <2>3, <2>4
<1>7. CASE a = "tcp" /\ StopTcp /\ to_stop' = to_stop \ {a}
  <2>1. HandlersSound' /\ PoolSound' /\ phase' = phase
    BY <1>7, StopTcpSound
  <2>2. MemberTypes' /\ SweepReaches' /\ PoolReached'
    BY <1>7, <1>2, <2>1 DEF StopTcp, MemberTypes, SweepReaches, PoolReached, history
  <2> QED BY <1>1, <1>4, <1>5, <2>1, <2>2
<1>8. CASE a = "udp" /\ StopUdp /\ to_stop' = to_stop \ {a}
  <2>1. HandlersSound' /\ PoolSound' /\ phase' = phase
    BY <1>8, StopUdpSound
  <2>2. MemberTypes' /\ SweepReaches' /\ PoolReached'
    BY <1>8, <1>2, <2>1 DEF StopUdp, MemberTypes, SweepReaches, PoolReached, history
  <2> QED BY <1>1, <1>4, <1>5, <2>1, <2>2
<1> QED BY <1>6, <1>7, <1>8

LEMMA ConfigureOneKeepsIInv ==
  ASSUME IInv, NEW a \in App, ConfigureOne(a), crashed' = FALSE
  PROVE  IInv'
<1> USE DEF IInv
<1>1. /\ call \in {"start", "reload"} /\ call' = call /\ calls' = calls /\ calls # 0
      /\ kept' = kept /\ to_stop' = to_stop
      /\ freed' = freed /\ threw' = threw
  BY DEF ConfigureOne, FreshServer, server
<1>2. /\ registered' \subseteq registered \cup {a} /\ registered \subseteq registered'
      /\ todo' \subseteq todo /\ a \in todo
      /\ seen' \subseteq seen \cup {a}
      /\ a \notin todo' \/ registered' = registered
  BY DEF ConfigureOne, server
<1>3. CallTypes'
  BY <1>1, <1>2 DEF CallTypes
<1>4. FreshServer'
  BY <1>1, <1>2 DEF FreshServer
<1>5. CrashesDuringCalls'
  BY DEF CrashesDuringCalls
<1>6. CASE a \in registered \cap started /\ Unset(a)
  <2>1. call = "reload"
    BY <1>1, <1>2, <1>6 DEF FreshServer
  <2>2. ServedOutsideOfCalls'
    BY <1>1, <2>1 DEF ServedOutsideOfCalls
  <2>3. HandlersSound' /\ PoolSound' /\ phase' = phase
    <3>1. CASE a = "tcp" /\ StopTcp
      BY <3>1, StopTcpSound
    <3>2. CASE UNCHANGED <<handler, pool>>
      BY <3>2, QuietKeepsSound
    <3> QED BY <1>6, <3>1, <3>2 DEF Unset
  <2>4. MemberTypes' /\ started' \subseteq started
    BY <1>6 DEF Unset, StopTcp, MemberTypes
  <2>5. SweepReaches' /\ PoolReached'
    BY <1>1, <1>2, <2>1, <2>3, <2>4 DEF SweepReaches, PoolReached
  <2> QED BY <1>3, <1>4, <1>5, <2>2, <2>3, <2>4, <2>5
<1>7. CASE a = "pool" /\ StartPool /\ registered' = registered \cup {a}
  <2>1. HandlersSound' /\ PoolSound' /\ MemberTypes' /\ Held' = Held
    BY <1>7 DEF StartPool, HandlersSound, PoolSound, MemberTypes, Held, Pool!Serve, pool, members
  <2>2. SweepReaches' /\ PoolReached'
    BY <1>1, <1>7 DEF StartPool, SweepReaches, PoolReached, members
  <2>3. ServedOutsideOfCalls'
    BY <1>1, <1>7, <2>1 DEF StartPool, ServedOutsideOfCalls, Served, members
  <2> QED BY <1>3, <1>4, <1>5, <2>1, <2>2, <2>3
<1>8. ASSUME NEW h \in Handler, Begins(h), h.does # "close",
             started' = started \cup {a}, registered' = registered \cup {a},
             a \in Acceptor, socket_' = socket_ \/ a = "udp",
             socket_' \in Socket \cup {none}, socket_ # none => socket_' # none,
             closed' = closed,
             h.does = "accept" => a = "tcp",
             h.does \in {"peek", "read"} => socket_' # none
      PROVE  IInv'
  <2>1. Grows({NewOp}) /\ PoolSound' /\ phase' = phase /\ handler'[NewOp] = h
    BY <1>8, BeginsGrows
  <2>2. HandlersSound'
    BY <2>1, GrowsKeepsSound
  <2>3. MemberTypes'
    BY <1>8 DEF MemberTypes
  <2>4. SweepReaches' /\ PoolReached'
    BY <1>1, <1>8, <2>1 DEF SweepReaches, PoolReached
  <2>5. Served => Served'
    BY <1>8, <2>1, GrowsKeepsServed DEF PoolSound
  <2>6. ServedOutsideOfCalls'
    BY <1>1, <2>5 DEF ServedOutsideOfCalls
  <2> QED BY <1>3, <1>4, <1>5, <2>1, <2>2, <2>3, <2>4, <2>6
<1>9. CASE a # "pool" /\ StartAcceptor(a) /\ registered' = registered \cup {a}
  <2>1. CASE a = "tcp" /\ Begins(Bound("accept", "tcp", none)) /\ UNCHANGED socket_
    <3> DEFINE h == Bound("accept", "tcp", none)
    <3>1. h \in Handler /\ h.does = "accept"
      BY BoundIsHandler DEF Bound, Acceptor
    <3>2. started' = started \cup {a} /\ closed' = closed /\ Begins(h)
      BY <1>9, <2>1 DEF StartAcceptor
    <3> HIDE DEF h
    <3> QED BY <1>8, <1>9, <2>1, <3>1, <3>2 DEF Acceptor, MemberTypes
  <2>2. CASE /\ a = "udp" /\ Fresh # {} /\ socket_' = NewSocket
             /\ Begins(Bound("peek", "udp", NewSocket))
    <3> DEFINE h == Bound("peek", "udp", NewSocket)
    <3>1. NewSocket \in Socket /\ NewSocket # none
      BY <2>2, NewSocketFresh, NoneAssumption
    <3>2. h \in Handler /\ h.does = "peek"
      BY <3>1, BoundIsHandler DEF Bound, Acceptor
    <3>3. started' = started \cup {a} /\ closed' = closed /\ Begins(h)
      BY <1>9, <2>2 DEF StartAcceptor
    <3> HIDE DEF h
    <3> QED BY <1>8, <1>9, <2>2, <3>1, <3>2, <3>3 DEF Acceptor
  <2> QED BY <1>9, <2>1, <2>2 DEF StartAcceptor
<1> QED BY <1>6, <1>7, <1>9 DEF ConfigureOne

LEMMA NextKeepsIInv == IInv /\ [Next]_vars => IInv'
<1> SUFFICES ASSUME IInv, [Next]_vars PROVE IInv'
  OBVIOUS
<1>1. CASE UNCHANGED vars
  <2>1. /\ UNCHANGED <<server, members, history, phase, crashed>>
        /\ UNCHANGED <<handler, pool, closed>>
    BY <1>1 DEF vars, pool
  <2>2. HandlersSound' /\ PoolSound' /\ Held' = Held
    BY <2>1, QuietKeepsSound DEF IInv
  <2>3. Served => Served'
    BY <2>1, <2>2 DEF Served, members
  <2> QED BY <2>1, <2>2, <2>3, PoolSideKeepsIInv DEF PoolSide, IInv, MemberTypes
<1>2. CASE ~crashed /\ OwnerStep
  <2>1. crashed' = FALSE
    BY <1>2 DEF OwnerStep, IInv, CallTypes
  <2> QED BY <1>2, <2>1, ConfigureKeepsIInv, ConfiguredKeepsIInv, StopKeepsIInv,
             StoppedKeepsIInv, ConfigureOneKeepsIInv, ThrowsKeepsIInv,
             StopOneKeepsIInv, FreeKeepsIInv DEF OwnerStep
<1> QED BY <1>1, <1>2, HandlerStepKeepsIInv, PoolStepKeepsIInv DEF Next

LEMMA IInvHolds == Spec => []IInv
BY InitIInv, NextKeepsIInv, PTL DEF Spec

-----------------------------------------------------------------------------
(* The types of the variables: no handler is held twice, whatever calls    *)
(* and handlers do meanwhile.                                              *)
THEOREM TypeCorrect == Spec => []TypeOK
<1>1. IInv => TypeOK
  BY DEF IInv, TypeOK, CallTypes, MemberTypes, HandlersSound, PoolSound
<1> QED BY <1>1, IInvHolds, PTL

(* Every handler of the TCP acceptor has a connection. *)
TcpConnected == \A o \in Op : handler[o].app = "tcp" => o \in WithConnection

(* How a step may change handler o: it is replaced, or its operation is    *)
(* aborted.                                                                *)
Connected(h) == h.app = "tcp" => h.does \in {"accept", "serve", "read"}
Changes(o) ==
  handler'[o] = handler[o] \/ handler'[o] = [handler[o] EXCEPT !.aborted = TRUE]
    \/ Connected(handler'[o])

LEMMA TcpConnectedKept == ASSUME IInv, TcpConnected, [Next]_vars PROVE TcpConnected'
<1> USE DEF Changes, Connected, Bound, Idle
<1>0. handler \in [Op -> Handler]
  BY DEF IInv, HandlersSound
<1>1. CASE UNCHANGED handler
  BY <1>1 DEF TcpConnected, WithConnection
<1>2. SUFFICES ASSUME NEW o \in Op PROVE Changes(o)
  BY <1>0, <1>2 DEF TcpConnected, WithConnection, Handler
<1>3. CASE OwnerStep
  <2>1. ASSUME NEW ts, Aborts(ts) PROVE Changes(o)
    BY <1>0, <2>1 DEF Aborts
  <2>2. ASSUME NEW h, Begins(h), Connected(h) PROVE Changes(o)
    BY <1>0, <2>2 DEF Begins
  <2>3. StopTcp => Changes(o)
    BY <2>1 DEF StopTcp
  <2>4. StopUdp => Changes(o)
    BY <1>0 DEF StopUdp
  <2>5. ASSUME NEW a \in App, ConfigureOne(a) PROVE Changes(o)
    <3>1. CASE Unset(a)
      BY <2>3, <3>1 DEF Unset
    <3>2. CASE StartPool
      BY <3>2 DEF StartPool
    <3>3. CASE StartAcceptor(a)
      BY <2>2, <3>3 DEF StartAcceptor
    <3> QED BY <2>5, <3>1, <3>2, <3>3 DEF ConfigureOne
  <2>6. ASSUME NEW a \in App, StopOne(a) PROVE Changes(o)
    BY <2>3, <2>4, <2>6 DEF StopOne, StopPool
  <2> QED BY <1>3, <2>5, <2>6 DEF OwnerStep, Configure, Configured, Stop, Stopped, Throws, Free
<1>4. CASE HandlerStep
  <2> PICK p \in running : OnTcpAccept(p) \/ OnServe(p) \/ OnPeek(p) \/ OnRead(p) \/ OnClose(p)
    BY <1>4 DEF HandlerStep
  <2>1. Returns(p) \/ Crash => Changes(o)
    BY <1>0 DEF Returns, Crash
  <2>2. ASSUME NEW h, GoesOn(p, h), Connected(h) PROVE Changes(o)
    BY <1>0, <2>2 DEF GoesOn
  <2>3. CASE OnTcpAccept(p)
    <3>1. CASE handler' = [handler EXCEPT ![p] = Idle,
                 ![NewOp] = Bound("accept", "tcp", none),
                 ![OtherOp] = Bound("serve", "tcp", none)]
      <4> DEFINE h1 == Bound("accept", "tcp", none)
                 h2 == Bound("serve", "tcp", none)
      <4>1. Connected(h1) /\ Connected(h2) /\ Connected(Idle)
        OBVIOUS
      <4>2. handler' = [handler EXCEPT ![p] = Idle, ![NewOp] = h1, ![OtherOp] = h2]
        BY <3>1
      <4> HIDE DEF h1, h2, Idle, Connected
      <4> QED BY <1>0, <4>1, <4>2
    <3>2. CASE GoesOn(p, Bound("accept", "tcp", none))
      BY <2>2, <3>2
    <3> QED BY <2>1, <2>3, <3>1, <3>2 DEF OnTcpAccept
  <2>4. CASE OnServe(p)
    BY <2>1, <2>2, <2>4 DEF OnServe
  <2>5. CASE OnPeek(p)
    BY <2>1, <2>2, <2>5 DEF OnPeek
  <2>6. CASE OnRead(p)
    BY <2>1, <2>2, <2>6 DEF OnRead
  <2>7. CASE OnClose(p)
    BY <1>0, <2>7 DEF OnClose
  <2> QED BY <2>3, <2>4, <2>5, <2>6, <2>7
<1>5. CASE PoolStep \/ UNCHANGED vars
  BY <1>5 DEF PoolStep, vars
<1> QED BY <1>3, <1>4, <1>5 DEF Next

LEMMA TcpConnectedHolds == Spec => []TcpConnected
<1>1. Init => TcpConnected
  BY DEF Init, TcpConnected, Idle, Bound
<1> QED BY <1>1, TcpConnectedKept, IInvHolds, PTL DEF Spec

(* After server::stop() what is left of the applications is what handlers  *)
(* of connections hold, or the pool or the UDP acceptor that app::free was *)
(* given.                                                                  *)
THEOREM StopReleases == Spec => []StopReleasesAll
<1>1. IInv /\ TcpConnected => StopReleasesAll
  <2> SUFFICES ASSUME IInv, TcpConnected, call = "ended", freed \subseteq {"tcp"},
                      queue \cap WithConnection = {}, pending \cap WithConnection = {}
               PROVE  /\ ~PoolAlive /\ BoundSockets = {}
                      /\ \A a \in Acceptor : ~AcceptorAlive(a)
    BY DEF StopReleasesAll
  <2>1. registered = {} /\ started \subseteq {"tcp"} /\ phase = "stopped" /\ running = {}
        /\ socket_ = none /\ Held \subseteq Op
    BY DEF IInv, SweepReaches, PoolReached, PoolSound, MemberTypes
  <2>2. Held \cap WithConnection = {}
    BY <2>1 DEF Held
  <2>3. ~PoolAlive
    BY <2>1, <2>2 DEF PoolAlive, ByAcceptor, TcpConnected
  <2>4. Existing = {}
    BY <2>3 DEF Existing
  <2>5. BoundSockets = {}
    BY <2>1, <2>4, NoneAssumption DEF BoundSockets
  <2> QED BY <2>1, <2>3, <2>4, <2>5 DEF AcceptorAlive
<1> QED BY <1>1, IInvHolds, TcpConnectedHolds, PTL

(* No handler meets null members once start, reload or stop has returned.  *)
THEOREM CallsAreFollowedByNoCrash == Spec => []CrashesDuringCalls
<1>1. IInv => CrashesDuringCalls
  BY DEF IInv
<1> QED BY <1>1, IInvHolds, PTL

(* Only the join of its threads stops the pool. *)
LEMMA PoolStopsJoined ==
  ASSUME Next, phase' # phase, phase' = "stopped"
  PROVE  running = {}
<1>1. CASE OwnerStep
  <2>1. phase' = phase \/ \E a \in App : ConfigureOne(a) \/ StopOne(a)
    BY <1>1 DEF OwnerStep, Configure, Configured, Stop, Stopped, Throws, Free, pool
  <2>2. ASSUME NEW a \in App, ConfigureOne(a) PROVE phase' = phase \/ phase' = "serving"
    BY <2>2 DEF ConfigureOne, Unset, StopTcp, Aborts, Pool!Post, StartPool, Pool!Serve,
                StartAcceptor, Begins, Pool!Begin, pool
  <2>3. ASSUME NEW a \in App, StopOne(a) PROVE phase' # "stopped" \/ running = {} \/ phase' = phase
    BY <2>3 DEF StopOne, StopPool, Pool!BeginStop, Pool!EndStop, StopTcp, Aborts, StopUdp,
                Pool!Post, pool
  <2> QED BY <2>1, <2>2, <2>3
<1>2. CASE HandlerStep
  BY <1>2 DEF HandlerStep, OnTcpAccept, OnServe, OnPeek, OnRead, OnClose, Returns, GoesOn,
              Crash, Pool!Begin, Pool!Post, pool
<1>3. CASE PoolStep
  BY <1>3 DEF PoolStep, Pool!Run, Pool!Finish, Pool!Post
<1> QED BY <1>1, <1>2, <1>3 DEF Next

(* No handler drops the last reference to the pool whose thread it uses.   *)
THEOREM OwnerReleasesPool == Spec => ReleasedByOwner
<1>1. IInv /\ IInv' /\ [Next]_vars => [PoolAlive /\ ~PoolAlive' => running = {}]_vars
  <2> SUFFICES ASSUME IInv, IInv', Next, PoolAlive, ~PoolAlive'
               PROVE  running = {}
    OBVIOUS
  <2>1. phase' = "stopped" /\ running' = {}
    BY DEF PoolAlive, IInv, PoolSound
  <2>2. CASE phase = "stopped"
    BY <2>2 DEF IInv, PoolSound
  <2> QED BY <2>1, <2>2, PoolStopsJoined
<1> QED BY <1>1, IInvHolds, PTL DEF Spec, ReleasedByOwner
=============================================================================
