-------------------------- MODULE UdpAcceptorProofs --------------------------
(***************************************************************************)
(* Theorems about UdpAcceptor.  The inductive invariant says of each       *)
(* handler what it has read so far (Sound), of the chains of accepts that  *)
(* a start that has yet to begin its own is counted already                *)
(* (ChainsCounted), and of the owner which members it has set (MembersSet).*)
(***************************************************************************)
EXTENDS UdpAcceptor, FiniteSetTheorems, TLAPS

(* A request is empty until the read; one datagram is all it has or the    *)
(* first was too short.                                                    *)
RequestSound(h) ==
  /\ h.stage \notin {"reading", "read", "called", "allocating"} => h.request = Unread
  /\ h.request.datagrams = 0 => h.request.first.size = 0 /\ h.request.bytes = 0
  /\ h.request.datagrams = 1 => h.request.bytes = h.request.first.size
  /\ h.request.datagrams > 1 => h.request.first.size < h.available
  /\ h.stage = "reading" /\ h.request.datagrams > 0 =>
       h.request.first.size <= h.request.bytes /\ h.request.bytes < h.available

Sound(h) ==
  /\ h \in Handler
  /\ h.stage # "free" => h.sock # 0 /\ h.strand # 0
  /\ h.stage = "allocating" => h.target[1] # 0 /\ h.target[2] # 0
  /\ RequestSound(h)

HandlersSound ==
  /\ handler \in [Op -> Handler]
  /\ \A o \in Op : Sound(handler[o])

Starting == {"get_processor", "get_io_service", "make_socket", "make_strand",
             "first_accept", "allocating"}
Resetting == {"reset_processor", "reset_strand", "reset_socket", "reset_io_service"}

ChainsCounted ==
  /\ IsFiniteSet(Used)
  /\ Cardinality(Used) + (IF owner \in Starting THEN 1 ELSE 0) <= starts

MembersSet ==
  /\ owner \in {"make_strand", "first_accept", "allocating"} => this.socket_ # 0
  /\ owner \in {"first_accept", "allocating"} => this.socket_strand_ # 0
  /\ owner = "idle" /\ phase = "new" => starts = 0
  /\ owner \in Resetting /\ reloading => starts < MaxStarts

IInv ==
  /\ CallTypes /\ NetworkTypes /\ HandlersSound
  /\ crashed \in BOOLEAN /\ ChainsCounted /\ MembersSet

-----------------------------------------------------------------------------
LEMMA NewOpFree ==
  ASSUME HandlersSound, Used # Op
  PROVE  NewOp \in Op /\ handler[NewOp].stage = "free"
<1>1. \E o \in Op : handler[o].stage = "free"
  BY DEF Used
<1> QED BY <1>1 DEF NewOp

(* A step of one handler, of no concern to the others. *)
Moves(o) ==
  /\ handler[o].stage # "free"
  /\ handler' = [handler EXCEPT ![o] = handler'[o]]
  /\ Sound(handler'[o])

LEMMA MovesKeepSound ==
  ASSUME HandlersSound, NEW o \in Op, Moves(o)
  PROVE  HandlersSound' /\ Used' \subseteq Used
<1>1. handler'[o] \in Handler
  BY DEF Moves, Sound
<1>2. \A p \in Op : p # o => handler'[p] = handler[p]
  BY DEF Moves, HandlersSound
<1>3. handler' \in [Op -> Handler]
  BY <1>1 DEF Moves, HandlersSound
<1>4. \A p \in Op : Sound(handler'[p])
  BY <1>2 DEF Moves, HandlersSound
<1>5. Used' \subseteq Used
  BY <1>2 DEF Moves, Used
<1> QED BY <1>3, <1>4, <1>5 DEF HandlersSound

LEMMA SubsetCounted ==
  ASSUME ChainsCounted, starts \in Nat, Used' \subseteq Used, UNCHANGED <<owner, starts>>
  PROVE  ChainsCounted'
<1>1. IsFiniteSet(Used') /\ Cardinality(Used') <= Cardinality(Used)
  BY FS_Subset DEF ChainsCounted
<1>2. Cardinality(Used) \in Nat /\ Cardinality(Used') \in Nat
  BY <1>1, FS_CardinalityType DEF ChainsCounted
<1> QED BY <1>1, <1>2 DEF ChainsCounted

LEMMA EndMoves ==
  ASSUME HandlersSound, NEW o \in Op, handler[o].stage # "free", End(o)
  PROVE  Moves(o)
<1>1. handler'[o] = Unused
  BY DEF End, HandlersSound
<1>2. Sound(Unused)
  BY BoundAssumption DEF Sound, RequestSound, Unused, Unread, Handler, Request, Gen0, InHandler
<1> QED BY <1>1, <1>2 DEF Moves, End

(* on_accpet and the callback, up to accept(). *)
LEMMA HandlersMove ==
  ASSUME CallTypes, NetworkTypes, HandlersSound, NEW o \in Op,
         \/ Completed(o) \/ Dispatch(o) \/ OnAborted(o) \/ OnPeeked(o)
         \/ AvailableThrows(o) \/ Allocate(o)
  PROVE  Moves(o)
<1> DEFINE h == handler[o]
<1>t. h \in Handler /\ Sound(h)
  BY DEF HandlersSound
<1>1. CASE Completed(o)
  <2>1. handler'[o] = [h EXCEPT !.stage = "peeked"] /\ h.stage = "completing"
    BY <1>1 DEF Completed, Step, HandlersSound
  <2>2. Sound([h EXCEPT !.stage = "peeked"])
    BY <1>t, <2>1 DEF Sound, RequestSound, Handler, InHandler
  <2> QED BY <1>1, <2>1, <2>2 DEF Moves, Completed, Step
<1>2. CASE Dispatch(o)
  <2>1. CASE Step(o, "peeked", "entered")
    <3>1. handler'[o] = [h EXCEPT !.stage = "entered"] /\ h.stage = "peeked"
      BY <2>1 DEF Step, HandlersSound
    <3>2. Sound([h EXCEPT !.stage = "entered"])
      BY <1>t, <3>1 DEF Sound, RequestSound, Handler, InHandler
    <3> QED BY <2>1, <3>1, <3>2 DEF Moves, Step
  <2>2. CASE Step(o, "read", "called")
    <3>1. handler'[o] = [h EXCEPT !.stage = "called"] /\ h.stage = "read"
      BY <2>2 DEF Step, HandlersSound
    <3>2. Sound([h EXCEPT !.stage = "called"])
      BY <1>t, <3>1 DEF Sound, RequestSound, Handler, InHandler
    <3> QED BY <2>2, <3>1, <3>2 DEF Moves, Step
  <2> QED BY <1>2, <2>1, <2>2 DEF Dispatch
<1>3. CASE OnAborted(o) \/ AvailableThrows(o)
  BY <1>3, EndMoves DEF OnAborted, AvailableThrows
<1>4. CASE OnPeeked(o)
  <2> DEFINE r == [h EXCEPT !.stage = "reading", !.available = Waiting(h.sock),
                            !.strand = this.socket_strand_, !.processor = this.processor_]
  <2>1. handler'[o] = r /\ h.stage = "entered" /\ this.socket_strand_ # 0
    BY <1>4 DEF OnPeeked, HandlersSound
  <2>2. Waiting(h.sock) \in Nat
    <3>1. h.sock \in Gen
      BY <1>t, <2>1, BoundAssumption DEF Sound, Handler, Gen, Gen0
    <3>2. inbox[h.sock] \in Seq(Datagram)
      BY <3>1 DEF NetworkTypes
    <3>3. inbox[h.sock] # << >> => Head(inbox[h.sock]) \in Datagram
      BY <3>2
    <3> QED BY <3>3, DatagramAssumption DEF Waiting
  <2>3. this.socket_strand_ \in Gen0 /\ this.processor_ \in Gen0
    BY DEF CallTypes
  <2>4. r \in Handler
    BY <1>t, <2>2, <2>3 DEF Handler, InHandler
  <2>5. Sound(r)
    BY <1>t, <2>1, <2>2, <2>4 DEF Sound, RequestSound, Handler, Unread, InHandler
  <2> QED BY <1>4, <2>1, <2>5 DEF Moves, OnPeeked
<1>5. CASE Allocate(o)
  <2> DEFINE r == [h EXCEPT !.stage = "allocating",
                            !.target = <<this.socket_, this.socket_strand_>>]
  <2>1. /\ handler'[o] = r /\ h.stage \in {"called", "entered"}
        /\ this.socket_ # 0 /\ this.socket_strand_ # 0
    BY <1>5 DEF Allocate, Accepting, HandlersSound
  <2>2. <<this.socket_, this.socket_strand_>> \in Gen0 \X Gen0
    BY DEF CallTypes
  <2>3. r \in Handler
    BY <1>t, <2>2 DEF Handler, InHandler
  <2>4. Sound(r)
    BY <1>t, <2>1, <2>3 DEF Sound, RequestSound, Handler, Unread, InHandler
  <2> QED BY <1>5, <2>1, <2>4 DEF Moves, Allocate
<1> QED BY <1>1, <1>2, <1>3, <1>4, <1>5

(* The operations of asio. *)
LEMMA OperationsMove ==
  ASSUME NetworkTypes, HandlersSound, NEW o \in Op,
         PeekCompletes(o) \/ Read(o) \/ OperationFails(o)
  PROVE  Moves(o) /\ NetworkTypes'
<1> DEFINE h == handler[o]
<1>t. h \in Handler /\ Sound(h)
  BY DEF HandlersSound
<1>s. h.stage # "free" => h.sock \in Gen
  BY <1>t, BoundAssumption DEF Sound, Handler, Gen, Gen0
<1>1. CASE PeekCompletes(o)
  <2>1. handler'[o] = [h EXCEPT !.stage = "completing"] /\ h.stage = "peeking"
    BY <1>1 DEF PeekCompletes, Step, HandlersSound
  <2>2. Sound([h EXCEPT !.stage = "completing"])
    BY <1>t, <2>1 DEF Sound, RequestSound, Handler, InHandler
  <2>3. NetworkTypes'
    BY <1>1 DEF PeekCompletes, NetworkTypes, network
  <2> QED BY <1>1, <2>1, <2>2, <2>3 DEF Moves, PeekCompletes, Step
<1>2. CASE Read(o)
  <2> DEFINE d == Head(inbox[h.sock])
             size == d.size
             bytes == h.request.bytes + size
             q == [datagrams |-> h.request.datagrams + 1, bytes |-> bytes,
                   first |-> IF h.request.datagrams = 0 THEN d ELSE h.request.first]
             r == [h EXCEPT !.request = q,
                            !.stage = IF bytes >= h.available \/ size = 0
                                     THEN "read" ELSE "reading"]
  <2>1. handler'[o] = r /\ h.stage = "reading" /\ inbox[h.sock] # << >>
    BY <1>2 DEF Read, HandlersSound
  <2>2. inbox[h.sock] \in Seq(Datagram)
    BY <1>s, <2>1 DEF NetworkTypes
  <2>d. d \in [size : Nat, says : Nat] /\ Tail(inbox[h.sock]) \in Seq(Datagram)
    BY <2>1, <2>2, DatagramAssumption
  <2>3. size \in Nat
    BY <2>d
  <2>4. /\ h.request.datagrams \in Nat /\ h.request.first \in [size : Nat, says : Nat]
        /\ h.request.bytes \in Nat /\ h.available \in Nat /\ h.request.first.size \in Nat
    BY <1>t DEF Handler, Request
  <2>5. q \in Request
    <3>1. bytes \in Nat /\ h.request.datagrams + 1 \in Nat
      BY <2>3, <2>4
    <3> HIDE DEF bytes, d
    <3> QED BY <2>d, <2>4, <3>1 DEF Request
  <2>6. r \in Handler
    BY <1>t, <2>5 DEF Handler, InHandler
  <2>7. /\ q.datagrams # 0 /\ q.bytes >= q.first.size
        /\ q.datagrams = 1 => q.bytes = q.first.size
        /\ q.datagrams > 1 => q.first.size < h.available
    <3>1. CASE h.request.datagrams = 0
      BY <1>t, <2>3, <2>4, <3>1 DEF Sound, RequestSound
    <3>2. CASE h.request.datagrams # 0
      <4>1. h.request.first.size <= h.request.bytes /\ h.request.bytes < h.available
        BY <1>t, <2>1, <2>4, <3>2 DEF Sound, RequestSound
      <4>2. /\ q.first = h.request.first /\ q.bytes = h.request.bytes + size
            /\ q.datagrams = h.request.datagrams + 1
        BY <3>2
      <4> HIDE DEF d, size, bytes, q, h
      <4> QED BY <2>3, <2>4, <3>2, <4>1, <4>2
    <3> QED BY <3>1, <3>2
  <2>a. bytes \in Nat /\ q.bytes = bytes /\ q.datagrams \in Nat /\ q.first.size \in Nat
    BY <2>5 DEF Request
  <2>b. /\ r.request = q /\ r.available = h.available
        /\ r.stage = IF bytes >= h.available \/ size = 0 THEN "read" ELSE "reading"
    BY <1>t DEF Handler
  <2>c. RequestSound(r)
    <3> HIDE DEF r, q, bytes, size, d
    <3> QED BY <2>4, <2>7, <2>a, <2>b DEF RequestSound
  <2>8. Sound(r)
    BY <1>t, <2>1, <2>6, <2>c DEF Sound, Handler
  <2>9. NetworkTypes'
    BY <1>2, <1>s, <2>1, <2>d DEF Read, NetworkTypes
  <2> QED BY <1>2, <2>1, <2>8, <2>9 DEF Moves, Read
<1>3. CASE OperationFails(o)
  <2> DEFINE r == [h EXCEPT !.outcome = "error",
                            !.stage = IF h.stage = "peeking" THEN "completing" ELSE "read"]
  <2>1. handler'[o] = r /\ h.stage \in {"peeking", "reading"}
    BY <1>3 DEF OperationFails, HandlersSound
  <2>2. Sound(r)
    BY <1>t, <2>1 DEF Sound, RequestSound, Handler, InHandler
  <2>3. NetworkTypes'
    BY <1>3, BoundAssumption DEF OperationFails, NetworkTypes
  <2> QED BY <1>3, <2>1, <2>2, <2>3 DEF Moves, OperationFails
<1> QED BY <1>1, <1>2, <1>3

LEMMA ClosingKeepsSound ==
  ASSUME NetworkTypes, HandlersSound, NEW g \in Gen, CloseSocket(g)
  PROVE  NetworkTypes' /\ HandlersSound' /\ Used' \subseteq Used
<1>1. NetworkTypes'
  <2>1. << >> \in Seq(Datagram)
    OBVIOUS
  <2>2. inbox' \in [Gen -> Seq(Datagram)]
    BY <2>1 DEF CloseSocket, NetworkTypes
  <2> QED BY <2>2 DEF CloseSocket, NetworkTypes
<1>2. ASSUME NEW o \in Op
      PROVE  Sound(handler'[o]) /\ (handler[o].stage = "free" => handler'[o] = handler[o])
  <2> DEFINE h == handler[o]
             r == [h EXCEPT !.outcome = "aborted",
                            !.stage = IF h.stage = "peeking" THEN "completing" ELSE "read"]
  <2>1. h \in Handler /\ Sound(h)
    BY DEF HandlersSound
  <2>2. handler'[o] = h \/ (h.stage \in {"peeking", "reading"} /\ handler'[o] = r)
    BY DEF CloseSocket
  <2>3. h.stage \in {"peeking", "reading"} => Sound(r)
    BY <2>1 DEF Sound, RequestSound, Handler, InHandler
  <2> QED BY <2>1, <2>2, <2>3
<1>3. handler' \in [Op -> Handler]
  <2>1. \A o \in Op : handler'[o] \in Handler
    BY <1>2 DEF Sound
  <2>2. handler' = [o \in Op |-> handler'[o]]
    BY DEF CloseSocket
  <2> QED BY <2>1, <2>2
<1>4. Used' \subseteq Used
  BY <1>2 DEF Used
<1> QED BY <1>1, <1>2, <1>3, <1>4 DEF HandlersSound

-----------------------------------------------------------------------------
(* The two steps that begin a chain's next operation. *)
LEMMA PeekingSound ==
  ASSUME NEW g \in Gen0 \ {0}, NEW s \in Gen0 \ {0}
  PROVE  Sound(Peeking(g, s)) /\ Peeking(g, s).stage # "free"
<1>1. Unused \in Handler
  BY BoundAssumption DEF Unused, Unread, Handler, Request, Gen0, InHandler
<1>2. CASE g \in closed
  <2>1. Peeking(g, s) = [Unused EXCEPT !.stage = "completing", !.outcome = "error",
                                       !.sock = g, !.strand = s]
    BY <1>2 DEF Peeking
  <2>2. Peeking(g, s) \in Handler
    BY <1>1, <2>1 DEF Handler
  <2> QED BY <2>1, <2>2 DEF Unused, Unread, Sound, RequestSound
<1>3. CASE g \notin closed
  <2>1. Peeking(g, s) = [Unused EXCEPT !.stage = "peeking", !.outcome = "ok",
                                       !.sock = g, !.strand = s]
    BY <1>3 DEF Peeking
  <2>2. Peeking(g, s) \in Handler
    BY <1>1, <2>1 DEF Handler
  <2> QED BY <2>1, <2>2 DEF Unused, Unread, Sound, RequestSound
<1> QED BY <1>2, <1>3

LEMMA FirstAcceptCounted ==
  ASSUME CallTypes, HandlersSound, ChainsCounted, MembersSet, FirstAccept, UNCHANGED reloading
  PROVE  HandlersSound' /\ ChainsCounted' /\ MembersSet' /\ CallTypes'
<1> DEFINE n == NewOp
           r == Peeking(this.socket_, this.socket_strand_)
<1>1. n \in Op /\ handler[n].stage = "free"
  BY NewOpFree DEF FirstAccept
<1>2. this.socket_ \in Gen0 \ {0} /\ this.socket_strand_ \in Gen0 \ {0}
  BY DEF FirstAccept, MembersSet, CallTypes
<1>3. Sound(r) /\ r \in Handler /\ r.stage # "free"
  BY <1>2, PeekingSound DEF Sound
<1>4. handler' = [handler EXCEPT ![n] = r]
  BY DEF FirstAccept
<1> HIDE DEF n, r
<1>5. handler'[n] = r /\ \A o \in Op : o # n => handler'[o] = handler[o]
  BY <1>1, <1>4 DEF HandlersSound
<1>6. HandlersSound'
  BY <1>1, <1>3, <1>4, <1>5 DEF HandlersSound
<1>7. Used' = Used \cup {n} /\ n \notin Used
  BY <1>1, <1>3, <1>5 DEF Used
<1>8. IsFiniteSet(Used') /\ Cardinality(Used') = Cardinality(Used) + 1
  BY <1>7, FS_AddElement DEF ChainsCounted
<1>9. Cardinality(Used) \in Nat
  BY FS_CardinalityType DEF ChainsCounted
<1>10. ChainsCounted'
  BY <1>8, <1>9 DEF ChainsCounted, FirstAccept, Starting, CallTypes, Gen0
<1>11. MembersSet' /\ CallTypes'
  BY DEF MembersSet, CallTypes, FirstAccept, Resetting
<1> QED BY <1>6, <1>10, <1>11

LEMMA AcceptAgainCounted ==
  ASSUME HandlersSound, ChainsCounted, starts \in Nat,
         NEW o \in Op, AcceptAgain(o), UNCHANGED <<owner, starts>>
  PROVE  HandlersSound' /\ ChainsCounted'
<1> DEFINE n == NewOp
           h == handler[o]
           r == Peeking(h.target[1], h.target[2])
<1>1. n \in Op /\ handler[n].stage = "free" /\ h.stage = "allocating" /\ n # o
  BY NewOpFree DEF AcceptAgain
<1>2. h \in Handler /\ Sound(h)
  BY DEF HandlersSound
<1>3. h.target[1] \in Gen0 \ {0} /\ h.target[2] \in Gen0 \ {0}
  BY <1>1, <1>2 DEF Sound, Handler
<1>4. Sound(r) /\ r \in Handler /\ r.stage # "free"
  BY <1>3, PeekingSound DEF Sound
<1>5. Sound(Unused) /\ Unused \in Handler /\ Unused.stage = "free"
  BY BoundAssumption DEF Sound, RequestSound, Unused, Unread, Handler, Request, Gen0, InHandler
<1>6. handler' = [handler EXCEPT ![n] = r, ![o] = Unused]
  BY DEF AcceptAgain
<1> HIDE DEF n, r, h
<1>11. /\ handler'[n] = r /\ handler'[o] = Unused
       /\ \A p \in Op : p # n /\ p # o => handler'[p] = handler[p]
  BY <1>1, <1>6 DEF HandlersSound
<1>12. HandlersSound'
  BY <1>1, <1>4, <1>5, <1>6, <1>11 DEF HandlersSound
<1>13. Used' = (Used \ {o}) \cup {n} /\ n \notin Used \ {o} /\ o \in Used
  BY <1>1, <1>4, <1>5, <1>11 DEF Used, h
<1>14. /\ IsFiniteSet(Used \ {o})
       /\ Cardinality(Used \ {o}) = Cardinality(Used) - 1
  BY <1>13, FS_RemoveElement DEF ChainsCounted
<1>15. /\ IsFiniteSet(Used')
       /\ Cardinality(Used') = Cardinality(Used \ {o}) + 1
  BY <1>13, <1>14, FS_AddElement
<1>16. Cardinality(Used) \in Nat /\ Cardinality(Used') = Cardinality(Used)
  BY <1>14, <1>15, FS_CardinalityType DEF ChainsCounted
<1>17. ChainsCounted'
  BY <1>15, <1>16 DEF ChainsCounted
<1> QED BY <1>12, <1>17

-----------------------------------------------------------------------------
(* The owner. *)
LEMMA CallsKeepInv ==
  ASSUME IInv, Start \/ Reload \/ Stop, UNCHANGED <<this, handler, crashed>>
  PROVE  IInv'
<1>1. HandlersSound' /\ Used' = Used
  BY DEF IInv, HandlersSound, Used
<1>2. NetworkTypes'
  <2>1. {this.socket_} \ {0} \subseteq Gen
    BY BoundAssumption DEF IInv, CallTypes, Gen, Gen0
  <2> QED BY <2>1 DEF IInv, Start, Reload, Stop, NetworkTypes, network
<1>3. Cardinality(Used) \in Nat /\ starts \in Nat
  BY FS_CardinalityType DEF IInv, ChainsCounted, CallTypes, Gen0
<1>4. ChainsCounted'
  BY <1>1, <1>3 DEF IInv, ChainsCounted, Start, Reload, Stop, Starting
<1>5. CASE Start
  <2>1. starts' = 1 /\ 1 \in Gen0
    BY <1>5, BoundAssumption DEF IInv, MembersSet, Start, Gen0
  <2> QED BY <1>1, <1>2, <1>4, <1>5, <2>1 DEF IInv, CallTypes, MembersSet, Start, Resetting
<1>6. CASE Reload \/ Stop
  BY <1>1, <1>2, <1>4, <1>6 DEF IInv, CallTypes, MembersSet, Reload, Stop, Resetting
<1> QED BY <1>5, <1>6

LEMMA MembersKeepInv ==
  ASSUME IInv, MemberStep, UNCHANGED <<handler, reloading, network, crashed>>
  PROVE  IInv'
<1>1. HandlersSound' /\ NetworkTypes' /\ Used' = Used
  BY DEF IInv, HandlersSound, NetworkTypes, network, Used
<1>2. Cardinality(Used) \in Nat /\ starts \in Gen0 /\ starts \in Nat /\ 0 \in Gen0
  BY FS_CardinalityType, BoundAssumption DEF IInv, ChainsCounted, CallTypes, Gen0
<1>3. owner \in Starting => starts # 0
  BY <1>2 DEF IInv, ChainsCounted
<1>4. CASE ResetProcessor \/ ResetStrand \/ ResetSocket
  BY <1>1, <1>2, <1>4
  DEF IInv, CallTypes, MembersSet, ChainsCounted, Starting, Resetting,
      ResetProcessor, ResetStrand, ResetSocket
<1>5. CASE ResetIoService
  <2>1. starts' \in Gen0
    BY <1>2, <1>5, BoundAssumption DEF IInv, MembersSet, Resetting, ResetIoService, Gen0
  <2>2. CallTypes' /\ MembersSet'
    BY <1>2, <1>5, <2>1 DEF IInv, CallTypes, MembersSet, Resetting, ResetIoService
  <2>3. ChainsCounted'
    BY <1>1, <1>2, <1>5 DEF IInv, ChainsCounted, Starting, ResetIoService
  <2> QED BY <1>1, <2>2, <2>3 DEF IInv
<1>6. CASE GetProcessor \/ GetIoService \/ MakeSocket \/ MakeStrand
  <2>1. starts # 0
    BY <1>3, <1>6 DEF GetProcessor, GetIoService, MakeSocket, MakeStrand, Starting
  <2>2. CallTypes' /\ MembersSet'
    BY <1>2, <1>6, <2>1
    DEF IInv, CallTypes, MembersSet, Resetting, GetProcessor, GetIoService, MakeSocket, MakeStrand
  <2>3. ChainsCounted'
    BY <1>1, <1>2, <1>6
    DEF IInv, ChainsCounted, Starting, GetProcessor, GetIoService, MakeSocket, MakeStrand
  <2> QED BY <1>1, <2>2, <2>3 DEF IInv
<1>7. CASE StartFails \/ FirstAllocate
  BY <1>1, <1>2, <1>7
  DEF IInv, CallTypes, MembersSet, ChainsCounted, Starting, Resetting, StartFails, FirstAllocate
<1> QED BY <1>4, <1>5, <1>6, <1>7 DEF MemberStep

LEMMA InitInv == ASSUME Init PROVE IInv
<1>1. Unused \in Handler /\ Sound(Unused)
  BY BoundAssumption DEF Sound, RequestSound, Unused, Unread, Handler, Request, Gen0, InHandler
<1>2. handler = [o \in Op |-> Unused]
  BY DEF Init
<1>3. Used = {}
  BY <1>2 DEF Used, Unused
<1>4. HandlersSound
  BY <1>1, <1>2 DEF HandlersSound
<1>5. ChainsCounted
  BY <1>3, FS_EmptySet DEF ChainsCounted, Init, Starting
<1>6. CallTypes
  <2>1. 0 \in Gen0
    BY BoundAssumption DEF Gen0
  <2> QED BY <2>1 DEF Init, CallTypes
<1>7. NetworkTypes
  <2>1. << >> \in Seq(Datagram)
    OBVIOUS
  <2> QED BY <2>1, BoundAssumption DEF Init, NetworkTypes
<1> QED BY <1>4, <1>5, <1>6, <1>7 DEF IInv, Init, MembersSet, Resetting

LEMMA MovesKeepInv ==
  ASSUME IInv, HandlersSound', Used' \subseteq Used, NetworkTypes',
         UNCHANGED <<call, this>>, crashed' \in BOOLEAN
  PROVE  IInv'
<1>1. starts \in Nat
  BY DEF IInv, CallTypes, Gen0
<1>2. ChainsCounted'
  BY <1>1, SubsetCounted DEF IInv, call
<1> QED BY <1>2 DEF IInv, CallTypes, MembersSet, call

LEMMA NextInv == ASSUME IInv, [Next]_vars PROVE IInv'
<1>1. CASE (Start \/ Reload \/ Stop) /\ UNCHANGED <<this, handler, crashed>>
  BY <1>1, CallsKeepInv
<1>2. CASE OwnerStep
  <2>1. CASE MemberStep /\ UNCHANGED handler
    BY <1>2, <2>1, MembersKeepInv DEF OwnerStep
  <2>2. CASE FirstAccept
    <3>1. HandlersSound' /\ ChainsCounted' /\ MembersSet' /\ CallTypes'
      BY <1>2, <2>2, FirstAcceptCounted DEF IInv, OwnerStep
    <3> QED BY <1>2, <3>1 DEF IInv, OwnerStep, NetworkTypes, network
  <2> QED BY <1>2, <2>1, <2>2 DEF OwnerStep
<1>3. ASSUME NEW o \in Op, HandlerStep(o)
      PROVE  IInv'
  <2>1. NetworkTypes' /\ CallTypes' /\ MembersSet'
    BY <1>3 DEF HandlerStep, IInv, NetworkTypes, CallTypes, MembersSet, network, call
  <2>2. CASE /\ Completed(o) \/ Dispatch(o) \/ OnAborted(o) \/ OnPeeked(o)
                \/ AvailableThrows(o) \/ Allocate(o)
             /\ UNCHANGED crashed
    <3>1. HandlersSound' /\ Used' \subseteq Used
      BY <2>2, HandlersMove, MovesKeepSound DEF IInv
    <3> QED BY <1>3, <2>1, <2>2, <3>1, MovesKeepInv DEF HandlerStep, IInv
  <2>3. CASE AcceptAgain(o) /\ UNCHANGED crashed
    <3>1. starts \in Nat /\ UNCHANGED <<owner, starts>>
      BY <1>3 DEF IInv, CallTypes, Gen0, HandlerStep, call
    <3>2. HandlersSound' /\ ChainsCounted'
      BY <2>3, <3>1, AcceptAgainCounted DEF IInv
    <3> QED BY <2>1, <2>3, <3>2 DEF IInv
  <2>4. CASE Dereference(o)
    <3>1. HandlersSound' /\ Used' \subseteq Used
      BY <2>4 DEF Dereference, IInv, HandlersSound, Used
    <3> QED BY <1>3, <2>1, <2>4, <3>1, MovesKeepInv DEF HandlerStep, Dereference
  <2> QED BY <1>3, <2>2, <2>3, <2>4 DEF HandlerStep
<1>4. CASE Network
  <2>1. UNCHANGED <<call, this, crashed>> /\ crashed' \in BOOLEAN
    BY <1>4 DEF Network, IInv
  <2>2. ASSUME NEW g \in Gen, NEW d \in Datagram, Arrives(g, d)
        PROVE  HandlersSound' /\ Used' \subseteq Used /\ NetworkTypes'
    <3>1. Append(inbox[g], d) \in Seq(Datagram)
      BY DEF IInv, NetworkTypes
    <3>2. inbox' \in [Gen -> Seq(Datagram)]
      BY <2>2, <3>1 DEF Arrives, IInv, NetworkTypes
    <3> QED BY <2>2, <3>2, BoundAssumption DEF Arrives, IInv, NetworkTypes, HandlersSound, Used
  <2>3. ASSUME NEW o \in Op, Completes(o) \/ OperationFails(o)
        PROVE  HandlersSound' /\ Used' \subseteq Used /\ NetworkTypes'
    BY <2>3, OperationsMove, MovesKeepSound DEF IInv, Completes
  <2>4. ASSUME NEW g \in Gen, CloseSocket(g)
        PROVE  HandlersSound' /\ Used' \subseteq Used /\ NetworkTypes'
    BY <2>4, ClosingKeepsSound DEF IInv
  <2>5. HandlersSound' /\ Used' \subseteq Used /\ NetworkTypes'
    BY <1>4, <2>2, <2>3, <2>4 DEF Network
  <2> QED BY <2>1, <2>5, MovesKeepInv
<1>5. CASE UNCHANGED vars
  <2>1. HandlersSound' /\ Used' \subseteq Used /\ NetworkTypes' /\ crashed' \in BOOLEAN
    BY <1>5 DEF vars, network, IInv, HandlersSound, Used, NetworkTypes
  <2> QED BY <1>5, <2>1, MovesKeepInv DEF vars
<1> QED BY <1>1, <1>2, <1>3, <1>4, <1>5 DEF Next

-----------------------------------------------------------------------------
(* Each variable keeps its type, and every handler that is in use has the  *)
(* socket and the strand that udp::accept() bound it to.                   *)
THEOREM TypeCorrect == Spec => []TypeOK
<1>1. IInv => TypeOK
  BY DEF IInv, TypeOK, HandlerTypes, HandlersSound, Sound, Used
<1> QED BY <1>1, InitInv, NextInv, PTL DEF Spec

(* However often the acceptor is reloaded, there are no more chains of     *)
(* accepts than calls of start(): on_accpet and its callback add none.     *)
THEOREM ChainsAreBounded == Spec => []ChainsBounded
<1>1. IInv => ChainsBounded
  <2>1. ASSUME IInv PROVE ChainsBounded
    <3>1. Cardinality(Used) \in Nat /\ starts \in Nat
      BY <2>1, FS_CardinalityType DEF IInv, ChainsCounted, CallTypes, Gen0
    <3> QED BY <2>1, <3>1 DEF IInv, ChainsCounted, ChainsBounded
  <2> QED BY <2>1
<1> QED BY <1>1, InitInv, NextInv, PTL DEF Spec

(* The comment of udp.cpp holds until the first reload: whoever is in      *)
(* allocator_ is alone, be it a handler of any thread or the owner.        *)
THEOREM AllocatorIsExclusive == Spec => []ExclusiveUntilReload
<1>1. ASSUME IInv, starts <= 1, NEW a \in Allocating, NEW b \in Allocating
      PROVE  a = b
  <2> DEFINE InIt == {o \in Op : handler[o].stage \in {"allocating", "completing"}}
  <2>1. Cardinality(Used) \in Nat /\ IsFiniteSet(Used) /\ starts \in Nat
    BY <1>1, FS_CardinalityType DEF IInv, ChainsCounted, CallTypes, Gen0
  <2>2. InIt \subseteq Used
    BY DEF Used
  <2>3. CASE owner = "allocating"
    <3>1. Cardinality(Used) = 0
      BY <1>1, <2>1, <2>3 DEF IInv, ChainsCounted, Starting
    <3>2. Used = {}
      BY <2>1, <3>1, FS_EmptySet
    <3> QED BY <2>2, <3>2 DEF Allocating
  <2>4. CASE owner # "allocating"
    <3>1. Cardinality(Used) <= 1
      BY <1>1, <2>1 DEF IInv, ChainsCounted
    <3>2. a \in Used /\ b \in Used
      BY <1>1, <2>2, <2>4 DEF Allocating
    <3>3. Cardinality(Used) = 1
      BY <2>1, <3>1, <3>2, FS_EmptySet
    <3>4. PICK x : Used = {x}
      BY <2>1, <3>3, FS_Singleton
    <3> QED BY <3>2, <3>4
  <2> QED BY <2>3, <2>4
<1>2. IInv => ExclusiveUntilReload
  BY <1>1 DEF ExclusiveUntilReload, AllocatorExclusive
<1> QED BY <1>2, InitInv, NextInv, PTL DEF Spec

(* Whatever the headers say, and however many chains read from the same    *)
(* socket: the callback of on_accpet passes a request that begins with an  *)
(* honest datagram to a processor whole and alone, or not at all.          *)
THEOREM DatagramsStayWhole == Spec => []ProcessedIntact
<1>1. ASSUME IInv, NEW o \in Op, handler[o].stage = "allocating", Processes(o),
             handler[o].request.first.says = handler[o].request.first.size
      PROVE  handler[o].request.datagrams = 1 /\ handler[o].request.bytes = handler[o].available
  <2> DEFINE h == handler[o]
  <2>1. h \in Handler /\ RequestSound(h)
    BY <1>1 DEF IInv, HandlersSound, Sound
  <2>2. /\ h.request.datagrams \in Nat /\ h.request.bytes \in Nat
        /\ h.request.first.size \in Nat /\ h.available \in Nat
    BY <2>1 DEF Handler, Request
  <2>3. h.request.first.size = h.available /\ h.available # 0
    BY <1>1 DEF Processes
  <2> HIDE DEF h
  <2>4. h.request.datagrams = 1 /\ h.request.bytes = h.available
    BY <2>1, <2>2, <2>3 DEF RequestSound
  <2> QED BY <2>4 DEF h
<1>2. IInv => ProcessedIntact
  BY <1>1 DEF ProcessedIntact
<1> QED BY <1>2, InitInv, NextInv, PTL DEF Spec
=============================================================================
