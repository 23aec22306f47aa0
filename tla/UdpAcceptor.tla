---------------------------- MODULE UdpAcceptor ----------------------------
(***************************************************************************)
(* The acceptor of src/src/apps/boost_tcp/udp.cpp.  A chain of handlers    *)
(* peeks at the next datagram, reads it into a connection, peeks again and *)
(* then processes what was read.  Handlers run in the pool's threads, one  *)
(* at a time for each strand; the owner, who starts, reloads and stops the *)
(* application, is on no strand.  A socket, its strand and the pointers    *)
(* that one start looks up are named by the number of that start; 0 is     *)
(* null.  A reload leaves the old socket open, kept by its handlers.       *)
(*                                                                         *)
(* asio and the network are external: operations on a socket complete with *)
(* a datagram, with an error, or with operation_aborted once it is closed. *)
(***************************************************************************)
EXTENDS Naturals, Sequences, FiniteSets

CONSTANTS
  Op,            \* handlers with what they are bound to
  Endpoint,      \* addresses a configuration may name
  Datagram,      \* datagrams: their size and what their header says it is
  MaxStarts,     \* bound of the model: calls that start the acceptor
  MaxDatagrams,  \* bound of the model: datagrams sent
  MaxErrors      \* bound of the model: failed operations

ASSUME DatagramAssumption == Datagram \subseteq [size : Nat, says : Nat]
ASSUME BoundAssumption ==
  MaxStarts \in Nat \ {0} /\ MaxDatagrams \in Nat /\ MaxErrors \in Nat

Gen == 1..MaxStarts
Gen0 == 0..MaxStarts

VARIABLES
  owner, phase,  \* what the owner does next; what its last call came to
  reloading,     \* whether the reset in progress is the first half of a reload
  starts,        \* calls that started the acceptor
  this,          \* the members of the application
  bound,         \* the endpoint of each socket
  closing,       \* sockets that a posted handler will close
  closed,        \* sockets that were closed
  inbox,         \* the datagrams that wait at each socket
  sent, errors,  \* how many there were
  handler,       \* the handlers
  crashed        \* a null pointer was dereferenced: the process is gone

call == <<owner, phase, reloading, starts>>
network == <<bound, closing, closed, inbox, sent, errors>>
vars == <<call, this, network, handler, crashed>>

(* A handler is "peeking", "completing" its peek, "peeked", in on_accpet   *)
(* "entered", "reading", "read", in the callback "called", or in accept()  *)
(* "allocating" memory for the next operation.  It has the error_code of   *)
(* its operation, the socket and the strand it is on, the socket and       *)
(* strand it took from the members for the next one, and the connection's  *)
(* processor, the size it reads and what it has read: of how many          *)
(* datagrams, the first of them, and the sizes of all together.  The       *)
(* header is written by the sender, who may say anything; a datagram too   *)
(* short to have one says what the request that it begins turns out to     *)
(* say, or 0, which no request of any size is accepted with.               *)
Unread == [datagrams |-> 0, first |-> [size |-> 0, says |-> 0], bytes |-> 0]

Unused ==
  [stage |-> "free", outcome |-> "ok", sock |-> 0, strand |-> 0, target |-> <<0, 0>>,
   processor |-> 0, available |-> 0, request |-> Unread]

Init ==
  /\ owner = "idle" /\ phase = "new" /\ reloading = FALSE /\ starts = 0
  /\ this = [processor_ |-> 0, io_service_ |-> 0, socket_strand_ |-> 0, socket_ |-> 0]
  /\ bound \in [Gen -> Endpoint] /\ closing = {} /\ closed = {}
  /\ inbox = [g \in Gen |-> << >>] /\ sent = 0 /\ errors = 0
  /\ handler = [o \in Op |-> Unused]
  /\ crashed = FALSE

Used == {o \in Op : handler[o].stage # "free"}

(* Any free name will do. *)
NewOp == CHOOSE o \in Op : handler[o].stage = "free"

(* The sockets that hold their endpoint: somebody keeps them. *)
Open ==
  {g \in Gen \ closed :
     g = this.socket_ \/ g \in closing \/ \E o \in Used : handler[o].sock = g}

InHandler == {"entered", "called", "allocating"}
StrandFree(g) == \A o \in Used : handler[o].strand = g => handler[o].stage \notin InHandler

-----------------------------------------------------------------------------
(* The calls of the owner. *)
Start ==
  /\ owner = "idle" /\ phase = "new"
  /\ owner' = "get_processor" /\ starts' = starts + 1
  /\ UNCHANGED <<phase, reloading, network>>

Reload ==
  /\ owner = "idle" /\ phase # "new" /\ starts < MaxStarts
  /\ owner' = "reset_processor" /\ reloading' = TRUE
  /\ UNCHANGED <<phase, starts, network>>

(* stop posts the closing of the socket to its strand. *)
Stop ==
  /\ owner = "idle" /\ phase \in {"running", "failed"}
  /\ closing' = closing \cup ({this.socket_} \ {0})
  /\ owner' = "reset_processor" /\ reloading' = FALSE
  /\ UNCHANGED <<phase, starts, bound, closed, inbox, sent, errors>>

(* reset_ptrs_common. *)
ResetProcessor ==
  /\ owner = "reset_processor"
  /\ this' = [this EXCEPT !.processor_ = 0] /\ owner' = "reset_strand"
  /\ UNCHANGED <<phase, starts>>

ResetStrand ==
  /\ owner = "reset_strand"
  /\ this' = [this EXCEPT !.socket_strand_ = 0] /\ owner' = "reset_socket"
  /\ UNCHANGED <<phase, starts>>

ResetSocket ==
  /\ owner = "reset_socket"
  /\ this' = [this EXCEPT !.socket_ = 0] /\ owner' = "reset_io_service"
  /\ UNCHANGED <<phase, starts>>

(* The end of stop(); in reload(), start() follows. *)
ResetIoService ==
  /\ owner = "reset_io_service"
  /\ this' = [this EXCEPT !.io_service_ = 0]
  /\ owner' = IF reloading THEN "get_processor" ELSE "idle"
  /\ phase' = IF reloading THEN phase ELSE "stopped"
  /\ starts' = IF reloading THEN starts + 1 ELSE starts

(* start. *)
GetProcessor ==
  /\ owner = "get_processor"
  /\ this' = [this EXCEPT !.processor_ = starts] /\ owner' = "get_io_service"
  /\ UNCHANGED <<phase, starts>>

GetIoService ==
  /\ owner = "get_io_service"
  /\ this' = [this EXCEPT !.io_service_ = starts] /\ owner' = "make_socket"
  /\ UNCHANGED <<phase, starts>>

(* The endpoint must be free: reuse_address is set after the socket was bound. *)
MakeSocket ==
  /\ owner = "make_socket"
  /\ \A g \in Open : bound[g] # bound[starts]
  /\ this' = [this EXCEPT !.socket_ = starts] /\ owner' = "make_strand"
  /\ UNCHANGED <<phase, starts>>

MakeStrand ==
  /\ owner = "make_strand"
  /\ this' = [this EXCEPT !.socket_strand_ = starts] /\ owner' = "first_accept"
  /\ UNCHANGED <<phase, starts>>

(* A missing application, one that is no processor, an address that is     *)
(* taken, a bad value: start() throws.                                     *)
StartFails ==
  /\ owner \in {"get_processor", "get_io_service", "make_socket", "first_accept"}
  /\ owner' = "idle" /\ phase' = "failed"
  /\ UNCHANGED <<starts, this>>

(* accept() of the owner: it allocates in allocator_, then the operation begins. *)
FirstAllocate ==
  /\ owner = "first_accept" /\ owner' = "allocating"
  /\ UNCHANGED <<phase, starts, this>>

(* A handler that peeks at socket g; on a closed one it fails at once. *)
Peeking(g, s) ==
  [Unused EXCEPT !.stage = IF g \in closed THEN "completing" ELSE "peeking",
                 !.outcome = IF g \in closed THEN "error" ELSE "ok",
                 !.sock = g, !.strand = s]

FirstAccept ==
  /\ owner = "allocating" /\ Used # Op
  /\ handler' = [handler EXCEPT ![NewOp] = Peeking(this.socket_, this.socket_strand_)]
  /\ owner' = "idle" /\ phase' = "running"
  /\ UNCHANGED <<starts, this>>

MemberStep ==
  \/ ResetProcessor \/ ResetStrand \/ ResetSocket \/ ResetIoService
  \/ GetProcessor \/ GetIoService \/ MakeSocket \/ MakeStrand
  \/ StartFails \/ FirstAllocate

OwnerStep ==
  /\ (MemberStep /\ UNCHANGED handler) \/ FirstAccept
  /\ UNCHANGED <<reloading, network, crashed>>

-----------------------------------------------------------------------------
(* The handlers.  First asio frees the memory the operation had in         *)
(* allocator_, on the thread that completes it and outside of the strand;  *)
(* then the strand lets the handler run.                                   *)
Step(o, from, to) ==
  /\ handler[o].stage = from
  /\ handler' = [handler EXCEPT ![o].stage = to]

Completed(o) == Step(o, "completing", "peeked")

Dispatch(o) ==
  /\ StrandFree(handler[o].strand)
  /\ Step(o, "peeked", "entered") \/ Step(o, "read", "called")

(* A handler's end releases what it is bound to. *)
End(o) == handler' = [handler EXCEPT ![o] = Unused]

(* A faulty variant: any error ends the chain. *)
OnError(o) ==
  /\ handler[o].stage = "entered" /\ handler[o].outcome # "ok"
  /\ End(o)

(* on_accpet: a closed socket ends the chain. *)
OnAborted(o) ==
  /\ handler[o].stage = "entered" /\ handler[o].outcome = "aborted"
  /\ End(o)

(* The size of the datagram that waits at a socket. *)
Waiting(g) == IF inbox[g] = << >> THEN 0 ELSE Head(inbox[g]).size

(* A faulty variant: on_accpet accepts, as in tcp.cpp, and the callback too. *)
OnPeekedAccepting(o) ==
  LET h == handler[o]
  IN /\ h.stage = "entered" /\ h.outcome = "ok" /\ h.sock \notin closed
     /\ this.io_service_ # 0 /\ this.socket_strand_ # 0 /\ this.socket_ # 0
     /\ Used # Op
     /\ handler' = [handler EXCEPT
          ![NewOp] = Peeking(this.socket_, this.socket_strand_),
          ![o] = [h EXCEPT !.stage = "reading", !.available = Waiting(h.sock),
                    !.strand = this.socket_strand_, !.processor = this.processor_]]

(* A faulty variant: the socket is moved from before it is used. *)
OnPeekedMoved(o) ==
  LET h == handler[o]
  IN /\ h.stage = "entered" /\ h.outcome = "ok" /\ h.sock \notin closed
     /\ this.io_service_ # 0 /\ this.socket_strand_ # 0
     /\ handler' = [handler EXCEPT ![o] = [h EXCEPT !.stage = "reading", !.sock = 0,
          !.available = Waiting(h.sock), !.strand = this.socket_strand_,
          !.processor = this.processor_]]

(* on_accpet creates a connection on the socket it was bound to and reads  *)
(* as much as is available, through the strand of the members.             *)
OnPeeked(o) ==
  LET h == handler[o]
  IN /\ h.stage = "entered" /\ h.outcome = "ok" /\ h.sock \notin closed
     /\ this.io_service_ # 0 /\ this.socket_strand_ # 0
     /\ handler' = [handler EXCEPT ![o] = [h EXCEPT !.stage = "reading",
          !.available = Waiting(h.sock), !.strand = this.socket_strand_,
          !.processor = this.processor_]]

(* available() of a closed socket throws: the handler ends. *)
AvailableThrows(o) ==
  /\ handler[o].stage = "entered" /\ handler[o].outcome = "ok"
  /\ handler[o].sock \in closed /\ this.io_service_ # 0
  /\ End(o)

(* accept(), called by on_accpet after an error other than the closing,    *)
(* and by the callback in any case: allocator_ is in use until the         *)
(* operation has begun.                                                    *)
Accepting(o) ==
  \/ handler[o].stage = "called"
  \/ handler[o].stage = "entered" /\ handler[o].outcome = "error"

Allocate(o) ==
  /\ Accepting(o) /\ this.socket_ # 0 /\ this.socket_strand_ # 0
  /\ handler' = [handler EXCEPT ![o].stage = "allocating",
                                ![o].target = <<this.socket_, this.socket_strand_>>]

(* A faulty variant: the size is not compared. *)
ProcessesUnchecked(o) == handler[o].outcome = "ok"

(* What the callback read is one whole datagram as far as it can tell: the *)
(* header it begins with says the size that was available.  It is          *)
(* processed; an error or a mismatch is only logged.                       *)
Processes(o) ==
  /\ handler[o].outcome = "ok"
  /\ handler[o].request.first.says = handler[o].available /\ handler[o].available # 0

(* The operation begins; what follows in the callback looks at nothing     *)
(* that others change.                                                     *)
AcceptAgain(o) ==
  LET h == handler[o]
  IN /\ h.stage = "allocating" /\ Used # Op
     /\ Processes(o) => h.processor # 0
     /\ handler' = [handler EXCEPT ![NewOp] = Peeking(h.target[1], h.target[2]), ![o] = Unused]

Dereference(o) ==
  LET h == handler[o]
  IN /\ \/ h.stage = "entered" /\ h.outcome = "ok" /\ this.io_service_ = 0
        \/ h.stage = "entered" /\ h.outcome = "ok" /\ h.sock \notin closed
             /\ this.socket_strand_ = 0
        \/ Accepting(o) /\ (this.socket_ = 0 \/ this.socket_strand_ = 0)
        \/ h.stage = "allocating" /\ Processes(o) /\ h.processor = 0
     /\ crashed' = TRUE /\ UNCHANGED handler

HandlerStep(o) ==
  /\ \/ /\ \/ Completed(o) \/ Dispatch(o) \/ OnAborted(o) \/ OnPeeked(o)
           \/ AvailableThrows(o) \/ Allocate(o) \/ AcceptAgain(o)
        /\ UNCHANGED crashed
     \/ Dereference(o)
  /\ UNCHANGED <<call, this, network>>

-----------------------------------------------------------------------------
(* asio and the network. *)
Arrives(g, d) ==
  /\ g \in Open /\ sent < MaxDatagrams
  /\ inbox' = [inbox EXCEPT ![g] = Append(@, d)] /\ sent' = sent + 1
  /\ UNCHANGED <<bound, closing, closed, errors, handler>>

PeekCompletes(o) ==
  /\ Step(o, "peeking", "completing") /\ inbox[handler[o].sock] # << >>
  /\ UNCHANGED network

(* async_read goes on until it has its bytes, or receives an empty         *)
(* datagram; what does not fit is lost.                                    *)
Read(o) ==
  LET h == handler[o]
      d == Head(inbox[h.sock])
      bytes == h.request.bytes + d.size
  IN /\ h.stage = "reading" /\ inbox[h.sock] # << >>
     /\ inbox' = [inbox EXCEPT ![h.sock] = Tail(@)]
     /\ handler' = [handler EXCEPT ![o] = [h EXCEPT
          !.request = [datagrams |-> h.request.datagrams + 1, bytes |-> bytes,
                       first |-> IF h.request.datagrams = 0 THEN d ELSE h.request.first],
          !.stage = IF bytes >= h.available \/ d.size = 0 THEN "read" ELSE "reading"]]
     /\ UNCHANGED <<bound, closing, closed, sent, errors>>

OperationFails(o) ==
  LET h == handler[o]
  IN /\ errors < MaxErrors /\ errors' = errors + 1
     /\ h.stage \in {"peeking", "reading"}
     /\ handler' = [handler EXCEPT ![o] = [h EXCEPT !.outcome = "error",
          !.stage = IF h.stage = "peeking" THEN "completing" ELSE "read"]]
     /\ UNCHANGED <<bound, closing, closed, inbox, sent>>

(* The handler that stop posted. *)
CloseSocket(g) ==
  LET aborted == {o \in Op : handler[o].sock = g /\ handler[o].stage \in {"peeking", "reading"}}
  IN /\ g \in closing /\ StrandFree(g)
     /\ closing' = closing \ {g} /\ closed' = closed \cup {g}
     /\ inbox' = [inbox EXCEPT ![g] = << >>]
     /\ handler' = [o \in Op |->
          IF o \in aborted
          THEN [handler[o] EXCEPT !.outcome = "aborted",
                  !.stage = IF @ = "peeking" THEN "completing" ELSE "read"]
          ELSE handler[o]]
     /\ UNCHANGED <<bound, sent, errors>>

Completes(o) == PeekCompletes(o) \/ Read(o)

Network ==
  /\ \/ \E g \in Gen, d \in Datagram : Arrives(g, d)
     \/ \E o \in Op : Completes(o) \/ OperationFails(o)
     \/ \E g \in Gen : CloseSocket(g)
  /\ UNCHANGED <<call, this, crashed>>

Next ==
  /\ ~crashed
  /\ \/ (Start \/ Reload \/ Stop) /\ UNCHANGED <<this, handler, crashed>>
     \/ OwnerStep
     \/ \E o \in Op : HandlerStep(o)
     \/ Network

Spec == Init /\ [][Next]_vars

(* A call that began goes on, the pool runs its handlers, each strand lets *)
(* them in, and an operation on a socket that has a datagram completes.    *)
Fairness ==
  /\ WF_vars(~crashed /\ OwnerStep)
  /\ \A o \in Op :
       /\ WF_vars(~crashed /\ HandlerStep(o))
       /\ WF_vars(~crashed /\ Completes(o) /\ UNCHANGED <<call, this, crashed>>)

FairSpec == Spec /\ Fairness

-----------------------------------------------------------------------------
CallTypes ==
  /\ owner \in {"idle", "reset_processor", "reset_strand", "reset_socket",
                "reset_io_service", "get_processor", "get_io_service", "make_socket",
                "make_strand", "first_accept", "allocating"}
  /\ phase \in {"new", "running", "failed", "stopped"}
  /\ reloading \in BOOLEAN /\ starts \in Gen0
  /\ this \in [processor_ : Gen0, io_service_ : Gen0, socket_strand_ : Gen0, socket_ : Gen0]

NetworkTypes ==
  /\ bound \in [Gen -> Endpoint] /\ closing \subseteq Gen /\ closed \subseteq Gen
  /\ inbox \in [Gen -> Seq(Datagram)]
  /\ sent \in 0..MaxDatagrams /\ errors \in 0..MaxErrors

Request == [datagrams : Nat, first : [size : Nat, says : Nat], bytes : Nat]

Handler ==
  [stage : InHandler \cup {"free", "peeking", "completing", "peeked", "reading", "read"},
   outcome : {"ok", "error", "aborted"}, sock : Gen0, strand : Gen0, target : Gen0 \X Gen0,
   processor : Gen0, available : Nat, request : Request]

HandlerTypes ==
  /\ handler \in [Op -> Handler]
  /\ \A o \in Used : handler[o].sock # 0 /\ handler[o].strand # 0
  /\ crashed \in BOOLEAN

(* Each variable keeps its type, and a handler has the socket and the      *)
(* strand it works on.                                                     *)
TypeOK == CallTypes /\ NetworkTypes /\ HandlerTypes

(* Who is in allocator_, which no mutex protects. *)
Allocating ==
  {o \in Op : handler[o].stage \in {"allocating", "completing"}}
  \cup (IF owner = "allocating" THEN {"owner"} ELSE {})

(* "only single acceptor thread exists and operates on allocator_".        *)
(* Violated after a reload, see the README.                                *)
AllocatorExclusive == \A a, b \in Allocating : a = b

(* Until the first reload it is true, although the thread changes with     *)
(* every handler and the owner stops the acceptor meanwhile.               *)
ExclusiveUntilReload == starts <= 1 => AllocatorExclusive

(* A chain of accepts is a handler that is to call accept(), or has an     *)
(* operation of it outstanding.  Each start may add one, and nothing else: *)
(* no callback doubles its chain.  (A reload does leave the old chain.)    *)
ChainsBounded == Cardinality(Used) <= starts

(* A second chain may read what this one has peeked at, so that a request  *)
(* is made of a part of a datagram, or of several.  A processor is given   *)
(* such a request only if the datagram it begins with lies: of one whose   *)
(* header says its own size, the processor is given the whole, and no byte *)
(* of another.  (With a header that lies, a part and a merge do reach it.) *)
ProcessedIntact ==
  \A o \in Op :
    LET h == handler[o]
        first == h.request.first
    IN h.stage = "allocating" /\ Processes(o) /\ first.says = first.size =>
         h.request.datagrams = 1 /\ h.request.bytes = h.available

(* An acceptor that runs is never deaf: what reaches its socket is read,   *)
(* unless the acceptor is reloaded or stopped or the process ends.         *)
DatagramsAreRead ==
  \A g \in Gen :
    phase = "running" /\ this.socket_ = g /\ inbox[g] # << >>
      ~> inbox[g] = << >> \/ phase # "running" \/ this.socket_ # g \/ crashed
=============================================================================
