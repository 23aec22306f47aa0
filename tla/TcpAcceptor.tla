---------------------------- MODULE TcpAcceptor ----------------------------
(***************************************************************************)
(* The acceptors of src/src/apps/boost_tcp/tcp.cpp and tcp_ssl.cpp.  The   *)
(* owner of the application starts, reloads and stops it; each call writes *)
(* the members one after the other.  Meanwhile the threads of the          *)
(* io_service run on_accpet, which reads those members to set up the next  *)
(* connection and to hand over the one it got.  Nothing orders the two     *)
(* sides; each step reads or writes one member, or two that the model      *)
(* would not tell apart, and goes on as far as no other is looked at.      *)
(*                                                                         *)
(* asio's acceptor is external: operations on it complete with a client,   *)
(* with an error, or with operation_aborted once it is closed.             *)
(***************************************************************************)
EXTENDS Naturals, FiniteSets

CONSTANTS
  Thread,      \* threads of the io_service
  Conn,        \* connection objects
  MaxStarts,   \* bound of the model: calls that start the acceptor
  MaxClients,  \* bound of the model: clients that connect
  MaxErrors,   \* bound of the model: failures of accept
  none         \* no connection

ASSUME BoundAssumption ==
  MaxStarts \in Nat \ {0} /\ MaxClients \in Nat /\ MaxErrors \in Nat

ASSUME NoneAssumption == none \notin Conn

(* What a start makes or looks up is named by its number; 0 is null. *)
Gen == 1..MaxStarts
Gen0 == 0..MaxStarts

VARIABLES
  kind,        \* "tcp" or "tcp_ssl": the class of the application
  owner,       \* what the owner does next
  reloading,   \* whether the stop in progress is the first half of a reload
  phase,       \* "new", "running", "failed" or "stopped"
  starts,      \* calls that started the acceptor
  this,        \* the members of the application
  open,        \* the acceptors that are open
  backlog,     \* the clients that wait at each acceptor
  clients,     \* clients so far
  errors,      \* failures so far
  connection,  \* the connection objects
  at,          \* where each thread is in on_accpet: "idle", "created" the
               \* next connection, "reaccepted"
  conn,        \* the connection on_accpet was called for
  next,        \* the connection it has created
  crashed      \* a null pointer was dereferenced: the process is gone

call == <<owner, reloading, phase, starts>>
network == <<open, backlog, clients, errors>>
threads == <<at, conn, next>>
vars == <<kind, call, this, network, connection, threads, crashed>>

(* A connection object: how far it is ("handled" by on_accpet), the        *)
(* acceptor it is accepted by and the error_code of that, the processor it *)
(* returns from connection_processor() and the one it was handed to.       *)
Connection ==
  [status : {"free", "made", "accepting", "completed", "handled", "handshaking", "serving"},
   listener : Gen0, outcome : {"none", "ok", "failed", "aborted", "reset"},
   own : Gen0, server : Gen0]

Unused == [status |-> "free", listener |-> 0, outcome |-> "none", own |-> 0, server |-> 0]

(* What is left of a connection that its peer has reset before set_option, *)
(* which throws then; outcome is history.                                  *)
Reset == [Unused EXCEPT !.outcome = "reset"]

Init ==
  /\ kind \in {"tcp", "tcp_ssl"}
  /\ owner = "idle" /\ reloading = FALSE /\ phase = "new" /\ starts = 0
  /\ this = [acceptor_ |-> 0, context_ |-> 0, processor_ |-> 0, io_service_ |-> 0]
  /\ open = {} /\ backlog = [g \in Gen |-> 0] /\ clients = 0 /\ errors = 0
  /\ connection = [c \in Conn |-> Unused]
  /\ at = [t \in Thread |-> "idle"]
  /\ conn = [t \in Thread |-> none] /\ next = [t \in Thread |-> none]
  /\ crashed = FALSE

Free == {c \in Conn : connection[c].status = "free"}

(* Any free object will do: they differ in name only. *)
NewConn == CHOOSE c \in Free : TRUE

-----------------------------------------------------------------------------
(* The calls.  reload() is application::reload(): stop(), then start(). *)
Start ==
  /\ owner = "idle" /\ phase = "new"
  /\ owner' = "get_processor" /\ starts' = starts + 1
  /\ UNCHANGED <<reloading, phase>>

Reload ==
  /\ owner = "idle" /\ phase # "new" /\ starts < MaxStarts
  /\ owner' = "close_acceptor" /\ reloading' = TRUE
  /\ UNCHANGED <<phase, starts>>

Stop ==
  /\ owner = "idle" /\ phase \in {"running", "failed"}
  /\ owner' = "close_acceptor" /\ reloading' = FALSE
  /\ UNCHANGED <<phase, starts>>

(* A faulty variant: the acceptor is left open. *)
CloseAcceptorForgotten ==
  /\ owner = "close_acceptor"
  /\ owner' = "reset_acceptor"
  /\ UNCHANGED <<reloading, phase, starts, this, network, connection>>

(* stop: the operations on the acceptor complete with operation_aborted    *)
(* and the clients in its backlog are turned away.  close() may throw even *)
(* so, and the call ends with the members as they are.                     *)
CloseAcceptor ==
  LET aborted == {c \in Conn : /\ connection[c].status = "accepting"
                               /\ connection[c].listener = this.acceptor_}
  IN /\ owner = "close_acceptor"
     /\ \/ owner' = "reset_acceptor" /\ UNCHANGED phase
        \/ this.acceptor_ # 0 /\ owner' = "idle" /\ phase' = "failed"
     /\ open' = open \ {this.acceptor_}
     /\ backlog' = [g \in Gen |-> IF g = this.acceptor_ THEN 0 ELSE backlog[g]]
     /\ connection' = [c \in Conn |->
          IF c \in aborted
          THEN [connection[c] EXCEPT !.status = "completed", !.outcome = "aborted"]
          ELSE connection[c]]
     /\ UNCHANGED <<reloading, starts, this, clients, errors>>

ResetAcceptor ==
  /\ owner = "reset_acceptor"
  /\ this' = [this EXCEPT !.acceptor_ = 0]
  /\ owner' = IF kind = "tcp" THEN "reset_processor" ELSE "reset_context"
  /\ UNCHANGED <<phase, starts, open>>

ResetContext ==
  /\ owner = "reset_context"
  /\ this' = [this EXCEPT !.context_ = 0]
  /\ owner' = "reset_processor"
  /\ UNCHANGED <<phase, starts, open>>

ResetProcessor ==
  /\ owner = "reset_processor"
  /\ this' = [this EXCEPT !.processor_ = 0]
  /\ owner' = "reset_io_service"
  /\ UNCHANGED <<phase, starts, open>>

(* The end of stop(); in reload(), start() follows. *)
ResetIoService ==
  /\ owner = "reset_io_service"
  /\ this' = [this EXCEPT !.io_service_ = 0]
  /\ owner' = IF reloading THEN "get_processor" ELSE "idle"
  /\ phase' = IF reloading THEN phase ELSE "stopped"
  /\ starts' = IF reloading THEN starts + 1 ELSE starts
  /\ UNCHANGED open

(* start. *)
GetProcessor ==
  /\ owner = "get_processor"
  /\ this' = [this EXCEPT !.processor_ = starts]
  /\ owner' = "get_io_service"
  /\ UNCHANGED <<phase, starts, open>>

GetIoService ==
  /\ owner = "get_io_service"
  /\ this' = [this EXCEPT !.io_service_ = starts]
  /\ owner' = "make_acceptor"
  /\ UNCHANGED <<phase, starts, open>>

MakeAcceptor ==
  /\ owner = "make_acceptor"
  /\ this' = [this EXCEPT !.acceptor_ = starts]
  /\ open' = open \cup {starts}
  /\ owner' = IF kind = "tcp" THEN "first_accept" ELSE "make_context"
  /\ UNCHANGED <<phase, starts>>

MakeContext ==
  /\ owner = "make_context"
  /\ this' = [this EXCEPT !.context_ = starts]
  /\ owner' = "first_accept"
  /\ UNCHANGED <<phase, starts, open>>

(* An application is missing, the address is taken, a certificate or a     *)
(* value of the configuration is bad: start() throws.                      *)
StartFails ==
  /\ owner \in {"get_processor", "get_io_service", "make_acceptor",
                "make_context", "first_accept"}
  /\ owner' = "idle" /\ phase' = "failed"
  /\ UNCHANGED <<starts, this, open>>

MemberStep ==
  /\ \/ ResetAcceptor \/ ResetContext \/ ResetProcessor \/ ResetIoService
     \/ GetProcessor \/ GetIoService \/ MakeAcceptor \/ MakeContext \/ StartFails
  /\ UNCHANGED <<reloading, backlog, clients, errors, connection>>

(* A faulty variant: a failure is taken for a success. *)
AcceptingUnchecked(processor, g) ==
  [status |-> "completed", outcome |-> "ok", listener |-> g, own |-> processor, server |-> 0]

(* accept(): what becomes of a connection with the given processor when an *)
(* operation on acceptor g is started: it fails at once when g is closed.  *)
Accepting(processor, g) ==
  [status |-> IF g \in open THEN "accepting" ELSE "completed",
   outcome |-> IF g \in open THEN "none" ELSE "failed",
   listener |-> g, own |-> processor, server |-> 0]

FirstAccept ==
  /\ owner = "first_accept" /\ Free # {}
  /\ connection' = [connection EXCEPT ![NewConn] = Accepting(this.processor_, this.acceptor_)]
  /\ owner' = "idle" /\ phase' = "running"
  /\ UNCHANGED <<reloading, starts, this, network>>

OwnerStep ==
  /\ CloseAcceptor \/ MemberStep \/ FirstAccept
  /\ UNCHANGED <<kind, threads, crashed>>

-----------------------------------------------------------------------------
(* on_accpet, in the thread that asio calls it on. *)
Called(t, c) == at[t] = "idle" /\ connection[c].status = "completed"

(* A faulty variant: any error ends the chain of accepts. *)
OnAbortedOrFailed(t, c) ==
  /\ Called(t, c) /\ connection[c].outcome # "ok"
  /\ connection' = [connection EXCEPT ![c] = Unused]
  /\ UNCHANGED <<threads, crashed>>

OnAborted(t, c) ==
  /\ Called(t, c) /\ connection[c].outcome = "aborted"
  /\ connection' = [connection EXCEPT ![c] = Unused]
  /\ UNCHANGED <<threads, crashed>>

(* The constructor of a connection dereferences io_service_, and in        *)
(* tcp_ssl context_.                                                       *)
Creatable == this.io_service_ # 0 /\ (kind = "tcp_ssl" => this.context_ # 0)

(* A faulty variant: the connection is moved from before it is used. *)
CreateNextMoved(t, c) ==
  /\ Called(t, c) /\ connection[c].outcome # "aborted" /\ Creatable /\ Free # {}
  /\ connection' = [connection EXCEPT ![c].status = "handled"]
  /\ at' = [at EXCEPT ![t] = "created"]
  /\ conn' = [conn EXCEPT ![t] = c]
  /\ UNCHANGED <<next, crashed>>

(* accept(), up to the creation of the connection. *)
CreateNext(t, c) ==
  /\ Called(t, c) /\ connection[c].outcome # "aborted" /\ Creatable /\ Free # {}
  /\ connection' = [connection EXCEPT
       ![c].status = "handled",
       ![NewConn] = [Unused EXCEPT !.status = "made", !.own = this.processor_]]
  /\ at' = [at EXCEPT ![t] = "created"]
  /\ conn' = [conn EXCEPT ![t] = c]
  /\ next' = [next EXCEPT ![t] = NewConn]
  /\ UNCHANGED crashed

(* on_accpet returns and asio destroys the handler. *)
Leave(t) ==
  /\ at' = [at EXCEPT ![t] = "idle"]
  /\ conn' = [conn EXCEPT ![t] = none]
  /\ next' = [next EXCEPT ![t] = none]

(* The end of accept(): the operation on acceptor_.  on_accpet goes on: a  *)
(* failure is only logged; set_option may throw; in tcp_ssl the handshake  *)
(* begins.                                                                 *)
AcceptNext(t) ==
  LET c == conn[t]
      reaccepted == [connection EXCEPT ![next[t]] = Accepting(@.own, this.acceptor_)]
  IN /\ at[t] = "created" /\ this.acceptor_ # 0
     /\ \/ /\ connection[c].outcome = "failed"
           /\ connection' = [reaccepted EXCEPT ![c] = Unused] /\ Leave(t)
        \/ /\ connection[c].outcome = "ok"
           /\ connection' = [reaccepted EXCEPT ![c] = Reset] /\ Leave(t)
        \/ /\ connection[c].outcome = "ok" /\ kind = "tcp_ssl"
           /\ connection' = [reaccepted EXCEPT ![c].status = "handshaking"] /\ Leave(t)
        \/ /\ connection[c].outcome = "ok" /\ kind = "tcp"
           /\ connection' = reaccepted
           /\ at' = [at EXCEPT ![t] = "reaccepted"]
           /\ next' = [next EXCEPT ![t] = none]
           /\ UNCHANGED conn
     /\ UNCHANGED crashed

(* A faulty variant: the connection is dropped if the members changed. *)
ServeIfUnchanged(t) ==
  LET c == conn[t]
  IN /\ at[t] = "reaccepted" /\ this.processor_ # 0
     /\ connection' = [connection EXCEPT ![c] =
          IF @.own = this.processor_
          THEN [@ EXCEPT !.status = "serving", !.server = this.processor_] ELSE Unused]
     /\ Leave(t) /\ UNCHANGED crashed

(* async_read_generic looks for the class of its member function in the    *)
(* connection's own processor, which may be an earlier one of another      *)
(* class, or null, and throws: the connection is destroyed.                *)
MayThrow(c) == connection[c].own # this.processor_

(* tcp: the connection goes to the processor of the application, which     *)
(* starts to read with a member function.                                  *)
Serve(t) ==
  LET c == conn[t]
  IN /\ at[t] = "reaccepted" /\ this.processor_ # 0
     /\ \/ connection' = [connection EXCEPT
             ![c].status = "serving", ![c].server = this.processor_]
        \/ /\ MayThrow(c)
           /\ connection' = [connection EXCEPT ![c] = [Unused EXCEPT !.server = this.processor_]]
     /\ Leave(t) /\ UNCHANGED crashed

(* on_accpet meets a member that is null. *)
Dereference(t) ==
  /\ \/ /\ ~Creatable
        /\ \E c \in Conn : Called(t, c) /\ connection[c].outcome # "aborted"
     \/ at[t] = "created" /\ this.acceptor_ = 0
     \/ at[t] = "reaccepted" /\ this.processor_ = 0
  /\ crashed' = TRUE
  /\ UNCHANGED <<threads, connection>>

ThreadStep(t) ==
  /\ \/ \E c \in Conn : OnAborted(t, c) \/ CreateNext(t, c)
     \/ AcceptNext(t) \/ Serve(t) \/ Dereference(t)
  /\ UNCHANGED <<kind, call, this, network>>

(* A faulty variant: the processor of the application is taken. *)
HandshakenByApplication(c) ==
  /\ connection[c].status = "handshaking" /\ this.processor_ # 0
  /\ connection' = [connection EXCEPT
       ![c].status = "serving", ![c].server = this.processor_]
  /\ UNCHANGED crashed

(* handle_handshake: the connection goes to its own processor. *)
Handshaken(c) ==
  /\ connection[c].status = "handshaking"
  /\ \/ /\ connection[c].own # 0
        /\ connection' = [connection EXCEPT
             ![c].status = "serving", ![c].server = connection[c].own]
        /\ UNCHANGED crashed
     \/ connection[c].own = 0 /\ crashed' = TRUE /\ UNCHANGED connection
     \/ /\ connection' = [connection EXCEPT ![c] = Unused]  \* the handshake failed
        /\ UNCHANGED crashed

-----------------------------------------------------------------------------
(* asio and the network. *)
ClientConnects(g) ==
  /\ g \in open /\ clients < MaxClients
  /\ backlog' = [backlog EXCEPT ![g] = @ + 1]
  /\ clients' = clients + 1
  /\ UNCHANGED <<open, errors, connection>>

AcceptCompletes(c) ==
  LET g == connection[c].listener
  IN /\ connection[c].status = "accepting" /\ backlog[g] > 0
     /\ backlog' = [backlog EXCEPT ![g] = @ - 1]
     /\ connection' = [connection EXCEPT ![c].status = "completed", ![c].outcome = "ok"]
     /\ UNCHANGED <<open, clients, errors>>

AcceptFails(c) ==
  /\ connection[c].status = "accepting" /\ errors < MaxErrors
  /\ errors' = errors + 1
  /\ connection' = [connection EXCEPT ![c].status = "completed", ![c].outcome = "failed"]
  /\ UNCHANGED <<open, backlog, clients>>

Network ==
  /\ \/ \E g \in Gen : ClientConnects(g)
     \/ \E c \in Conn : AcceptCompletes(c) \/ AcceptFails(c)
  /\ UNCHANGED <<kind, call, this, threads, crashed>>

Next ==
  /\ ~crashed
  /\ \/ (Start \/ Reload \/ Stop) /\ UNCHANGED <<kind, this, network, connection, threads, crashed>>
     \/ OwnerStep
     \/ \E t \in Thread : ThreadStep(t)
     \/ \E c \in Conn : Handshaken(c) /\ UNCHANGED <<kind, call, this, network, threads>>
     \/ Network

Spec == Init /\ [][Next]_vars

(* A call that began goes on, the pool's threads are scheduled, and an     *)
(* accept that has a client completes; nobody has to call, to connect or   *)
(* to finish a handshake.  The pool takes completed handlers in turn: one  *)
(* with a client is not passed over for ever by those that fail at once on *)
(* an acceptor that is closed.                                             *)
Fairness ==
  /\ WF_vars(~crashed /\ OwnerStep)
  /\ \A t \in Thread : WF_vars(~crashed /\ ThreadStep(t))
  /\ SF_vars(/\ ~crashed
             /\ \E t \in Thread, c \in Conn : connection[c].outcome = "ok" /\ CreateNext(t, c)
             /\ UNCHANGED <<kind, call, this, network>>)
  /\ \A c \in Conn :
       WF_vars(~crashed /\ AcceptCompletes(c) /\ UNCHANGED <<kind, call, this, threads, crashed>>)

FairSpec == Spec /\ Fairness

-----------------------------------------------------------------------------
CallTypes ==
  /\ kind \in {"tcp", "tcp_ssl"}
  /\ owner \in {"idle", "close_acceptor", "reset_acceptor", "reset_context",
                "reset_processor", "reset_io_service", "get_processor",
                "get_io_service", "make_acceptor", "make_context", "first_accept"}
  /\ reloading \in BOOLEAN /\ phase \in {"new", "running", "failed", "stopped"}
  /\ starts \in Gen0
  /\ this \in [acceptor_ : Gen0, context_ : Gen0, processor_ : Gen0, io_service_ : Gen0]

NetworkTypes ==
  /\ open \in SUBSET Gen /\ backlog \in [Gen -> Nat]
  /\ clients \in 0..MaxClients /\ errors \in 0..MaxErrors

ConnectionTypes == connection \in [Conn -> Connection]

ThreadTypes ==
  /\ at \in [Thread -> {"idle", "created", "reaccepted"}]
  /\ conn \in [Thread -> Conn \cup {none}] /\ next \in [Thread -> Conn \cup {none}]
  /\ \A t \in Thread : /\ at[t] # "idle" => conn[t] \in Conn
                       /\ at[t] = "created" => next[t] \in Conn
  /\ crashed \in BOOLEAN

(* Each variable keeps its type, and a handler has the connections it uses. *)
TypeOK == CallTypes /\ NetworkTypes /\ ConnectionTypes /\ ThreadTypes

(* A handler that will call accept() again, or has yet to issue it. *)
WillAccept ==
  \/ \E c \in Conn : connection[c].status = "completed" /\ connection[c].outcome # "aborted"
  \/ \E t \in Thread : at[t] = "created"

(* An acceptor that runs is never deaf: an accept is outstanding on it, or *)
(* a handler is about to start one.  No error, reload or race of the two   *)
(* ends the chain of accepts.                                              *)
Listening ==
  ~crashed /\ owner = "idle" /\ phase = "running" =>
    \/ WillAccept
    \/ \E c \in Conn : /\ connection[c].status = "accepting"
                       /\ connection[c].listener = this.acceptor_

(* stop() and reload() leave nothing behind that waits on an earlier       *)
(* acceptor: its address is free and its operations have ended.            *)
(* (A start that failed may leave the acceptor of the moment open with no  *)
(* accept on it.)                                                          *)
NothingStale ==
  /\ open \subseteq {this.acceptor_}
  /\ \A c \in Conn : connection[c].status = "accepting" => connection[c].listener \in open

(* What the theorems of TcpAcceptorProofs.tla rest on.  A connection in a   *)
(* handler has been accepted, or failed to be, and is that handler's       *)
(* alone; the acceptor is open from its creation to stop() and no acceptor *)
(* is open in between; starts are counted.                                 *)
HandlersApart ==
  /\ \A c \in Conn : connection[c].status = "completed" =>
                       connection[c].outcome \in {"ok", "failed", "aborted"}
  /\ \A t \in Thread :
       /\ at[t] # "idle" => /\ connection[conn[t]].status = "handled"
                            /\ connection[conn[t]].outcome \in {"ok", "failed"}
       /\ at[t] = "created" => connection[next[t]].status = "made"
       /\ at[t] = "reaccepted" => kind = "tcp" /\ connection[conn[t]].outcome = "ok"
  /\ \A t, u \in Thread : t # u =>
       /\ at[t] # "idle" /\ at[u] # "idle" => conn[t] # conn[u]
       /\ at[t] = "created" /\ at[u] = "created" => next[t] # next[u]

Stopping == {"reset_acceptor", "reset_context", "reset_processor", "reset_io_service"}

OpenWhileUsed ==
  /\ owner \in Stopping \cup {"get_processor", "get_io_service", "make_acceptor"} => open = {}
  /\ owner \in {"make_context", "first_accept"} => this.acceptor_ \in open
  /\ owner = "idle" /\ phase = "new" => open = {}
  /\ owner = "idle" /\ phase = "running" => this.acceptor_ \in open

StartsCounted ==
  /\ owner = "idle" /\ phase = "new" => starts = 0
  /\ owner \in Stopping \cup {"close_acceptor"} /\ reloading = TRUE => starts < MaxStarts
  /\ owner \notin Stopping \cup {"close_acceptor", "idle"} => starts > 0

IInv ==
  /\ TypeOK /\ NothingStale /\ Listening
  /\ HandlersApart /\ OpenWhileUsed /\ StartsCounted

(* Only a connection whose accept succeeded reaches a processor, and      *)
(* no more of them are alive than clients have connected.                  *)
Accepted == {c \in Conn : connection[c].outcome = "ok" /\ connection[c].status # "free"}
ServedOnce ==
  /\ \A c \in Conn : connection[c].status \in {"handshaking", "serving"} => c \in Accepted
  /\ Cardinality(Accepted) <= clients

(* The processor that serves a connection is there; in tcp_ssl it is the   *)
(* one connection_processor() returns, in tcp it may be one of a later     *)
(* reload but never of an earlier.                                         *)
ServedByOwn ==
  \A c \in Conn : connection[c].status = "serving" =>
    /\ connection[c].server # 0 /\ connection[c].server >= connection[c].own
    /\ kind = "tcp_ssl" => connection[c].server = connection[c].own

(* What the theorems on the last two rest on: no earlier processor than a  *)
(* connection's own is ever found in the members, and a client is either   *)
(* in the backlog of the acceptor or one of the accepted.                  *)
WellServed(c) ==
  LET r == connection[c]
  IN /\ r.own <= starts /\ (this.processor_ # 0 => r.own <= this.processor_)
     /\ r.status \in {"handshaking", "serving"} => r.outcome = "ok"
     /\ r.status = "serving" =>
          r.server # 0 /\ r.server >= r.own /\ (kind = "tcp_ssl" => r.server = r.own)

ClientsCounted ==
  /\ IsFiniteSet(Accepted)
  /\ \A g \in Gen : /\ Cardinality(Accepted) + backlog[g] <= clients
                    /\ g \notin open => backlog[g] = 0

ServeInv ==
  this.processor_ <= starts /\ ClientsCounted /\ \A c \in Conn : WellServed(c)

(* Whoever connects to an acceptor is handed over, unless the acceptor is  *)
(* stopped or the process ends.                                            *)
ClientsAreAccepted ==
  \A g \in Gen : backlog[g] > 0 ~> (backlog[g] = 0 \/ phase # "running" \/ crashed)

(* An accepted connection gets to a processor, or into the handshake that  *)
(* precedes it, whatever happens to the acceptor meanwhile, unless its     *)
(* peer resets it.                                                         *)
AcceptedAreServed ==
  \A c \in Conn :
    connection[c].status = "completed" /\ connection[c].outcome = "ok"
      ~> \/ connection[c].status = "handshaking" \/ connection[c].server # 0
         \/ connection[c].outcome = "reset" \/ crashed

(* The acceptor that on_accpet was bound to is kept "to correctly work     *)
(* during reload calls": no call of the owner makes a handler of an accept *)
(* meet a null member.  Violated, see the README.                          *)
NoNullMember == ~crashed
=============================================================================
