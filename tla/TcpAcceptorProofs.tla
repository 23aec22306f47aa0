------------------------- MODULE TcpAcceptorProofs -------------------------
(***************************************************************************)
(* Proofs about TcpAcceptor.tla, for any threads and connections and any   *)
(* number of reloads: IInv is inductive, so the acceptor keeps listening   *)
(* and nothing is left behind on an acceptor that was closed.  With it     *)
(* ServeInv is inductive: who is served, and by which processor.           *)
(***************************************************************************)
EXTENDS TcpAcceptor, FiniteSetTheorems, TLAPS

(* There is a start, and null is a value of every member. *)
LEMMA Bounds ==
  MaxStarts \in Nat /\ MaxStarts > 0 /\ 0 \in Gen0 /\ 0 \in 0..MaxClients /\ 0 \in 0..MaxErrors
BY BoundAssumption DEF Gen0

LEMMA UnusedType == Unused \in Connection /\ Reset \in Connection
BY Bounds DEF Unused, Reset, Connection

(* The invariant holds before the acceptor is started. *)
LEMMA InitIInv == Init => IInv
<1> SUFFICES ASSUME Init PROVE IInv
  OBVIOUS
<1>1. TypeOK
  <2>1. CallTypes /\ NetworkTypes
    BY Bounds DEF Init, CallTypes, NetworkTypes
  <2>2. ConnectionTypes /\ ThreadTypes
    BY UnusedType DEF Init, ConnectionTypes, ThreadTypes
  <2>3. QED
    BY <2>1, <2>2 DEF TypeOK
<1>2. NothingStale /\ Listening /\ HandlersApart /\ OpenWhileUsed /\ StartsCounted
  BY DEF Init, Unused, NothingStale, Listening, HandlersApart, OpenWhileUsed, StartsCounted, Stopping
<1>3. QED
  BY <1>1, <1>2 DEF IInv

(* The connection that is created is an unused one. *)
LEMMA NewConnIsFree ==
  ASSUME Free # {}
  PROVE  NewConn \in Conn /\ connection[NewConn].status = "free"
BY DEF Free, NewConn

-----------------------------------------------------------------------------
(* The steps of the owner that leave the connections alone. *)
Quiet ==
  \/ (Start \/ Reload \/ Stop) /\ UNCHANGED <<this, network, connection>>
  \/ MemberStep

(* They keep their own variables typed and count the starts. *)
LEMMA QuietTypes ==
  ASSUME IInv, Quiet, UNCHANGED <<kind, threads, crashed>>
  PROVE  CallTypes' /\ NetworkTypes' /\ StartsCounted'
<1>0. CallTypes /\ NetworkTypes /\ StartsCounted /\ kind' = kind
  BY DEF IInv, TypeOK
<1> USE <1>0, Bounds
    DEF CallTypes, NetworkTypes, StartsCounted, Stopping, Gen, Gen0, network
<1>1. CASE (Start \/ Reload \/ Stop) /\ UNCHANGED <<this, network, connection>>
  <2>1. CASE Start
    <3>1. starts' = 1 /\ starts' \in Gen0
      BY <2>1 DEF Start
    <3>2. QED
      BY <1>1, <2>1, <3>1 DEF Start
  <2>2. CASE Reload \/ Stop
    BY <1>1, <2>2 DEF Reload, Stop
  <2>3. QED
    BY <1>1, <2>1, <2>2
<1>2. CASE MemberStep
  <2> USE <1>2 DEF MemberStep
  <2>1. CASE ResetAcceptor
    BY <2>1 DEF ResetAcceptor
  <2>2. CASE ResetContext
    BY <2>2 DEF ResetContext
  <2>3. CASE ResetProcessor
    BY <2>3 DEF ResetProcessor
  <2>4. CASE ResetIoService
    <3>1. starts' \in Gen0 /\ (owner' # "idle" => starts' > 0)
      BY <2>4 DEF ResetIoService
    <3>2. StartsCounted'
      BY <2>4, <3>1 DEF ResetIoService
    <3>3. QED
      BY <2>4, <3>1, <3>2 DEF ResetIoService
  <2>5. CASE GetProcessor
    BY <2>5 DEF GetProcessor
  <2>6. CASE GetIoService
    BY <2>6 DEF GetIoService
  <2>7. CASE MakeAcceptor
    <3>1. starts \in Gen
      BY <2>7 DEF MakeAcceptor
    <3>2. NetworkTypes'
      BY <2>7, <3>1 DEF MakeAcceptor
    <3>3. QED
      BY <2>7, <3>2 DEF MakeAcceptor
  <2>8. CASE MakeContext
    BY <2>8 DEF MakeContext
  <2>9. CASE StartFails
    BY <2>9 DEF StartFails
  <2>10. QED
    BY <2>1, <2>2, <2>3, <2>4, <2>5, <2>6, <2>7, <2>8, <2>9
<1>3. QED
  BY <1>1, <1>2 DEF Quiet

(* They keep the invariant: none of them ends in a running acceptor. *)
LEMMA QuietInv ==
  ASSUME IInv, Quiet, UNCHANGED <<kind, threads, crashed>>
  PROVE  IInv'
<1>1. CallTypes' /\ NetworkTypes' /\ StartsCounted'
  BY QuietTypes
<1>2. UNCHANGED <<kind, connection, threads, crashed>>
  BY DEF Quiet, MemberStep
<1>3. HandlersApart'
  BY <1>2 DEF IInv, HandlersApart, threads
<1>4. NothingStale' /\ OpenWhileUsed' /\ ~(owner' = "idle" /\ phase' = "running")
  BY <1>2 DEF IInv, TypeOK, CallTypes, NothingStale, OpenWhileUsed, Stopping, StartsCounted,
         Quiet, MemberStep, Start, Reload, Stop, ResetAcceptor, ResetContext, ResetProcessor,
         ResetIoService, GetProcessor, GetIoService, MakeAcceptor, MakeContext, StartFails,
         network
<1>5. ConnectionTypes' /\ ThreadTypes'
  BY <1>2 DEF IInv, TypeOK, ConnectionTypes, ThreadTypes, threads
<1>6. QED
  BY <1>1, <1>3, <1>4, <1>5 DEF IInv, TypeOK, Listening

(* stop() closes the only acceptor that is open, and every accept that is  *)
(* outstanding is outstanding on it.                                       *)
LEMMA CloseAcceptorInv ==
  ASSUME IInv, CloseAcceptor, UNCHANGED <<kind, threads, crashed>>
  PROVE  IInv'
<1>0. ConnectionTypes /\ ThreadTypes /\ HandlersApart /\ NothingStale
  BY DEF IInv, TypeOK
<1> USE DEF CloseAcceptor
<1>1. CallTypes' /\ StartsCounted'
  BY DEF IInv, TypeOK, CallTypes, StartsCounted, Stopping
<1>2. NetworkTypes'
  BY DEF IInv, TypeOK, NetworkTypes
<1>3. ConnectionTypes'
  <2>1. \A c \in Conn :
          [connection[c] EXCEPT !.status = "completed", !.outcome = "aborted"] \in Connection
    BY <1>0 DEF ConnectionTypes, Connection
  <2>2. QED
    BY <1>0, <2>1 DEF ConnectionTypes
<1>4. ThreadTypes'
  BY <1>0 DEF ThreadTypes, threads
<1>5. open' = {} /\ \A c \in Conn : connection'[c].status # "accepting"
  BY <1>0 DEF NothingStale, ConnectionTypes, Connection
<1>6. \A c \in Conn : connection[c].status # "accepting" => connection'[c] = connection[c]
  OBVIOUS
<1>7. \A c \in Conn : connection'[c].status = "completed" => connection'[c].outcome \in {"ok", "failed", "aborted"}
  <2> TAKE c \in Conn
  <2>1. CASE connection'[c] = connection[c]
    BY <1>0, <2>1 DEF HandlersApart
  <2>2. CASE connection'[c] # connection[c]
    <3>1. connection'[c] = [connection[c] EXCEPT !.status = "completed", !.outcome = "aborted"]
      BY <2>2
    <3>2. connection[c] \in Connection
      BY <1>0 DEF ConnectionTypes
    <3>3. connection'[c].outcome = "aborted"
      BY <3>1, <3>2 DEF Connection
    <3>4. QED
      BY <3>3
  <2>3. QED
    BY <2>1, <2>2
<1>8. NothingStale' /\ OpenWhileUsed' /\ Listening'
  BY <1>5 DEF NothingStale, OpenWhileUsed, Listening, Stopping
<1> HIDE DEF CloseAcceptor
<1>9. HandlersApart'
  <2>1. \A t \in Thread :
          /\ at[t] # "idle" => connection'[conn[t]] = connection[conn[t]]
          /\ at[t] = "created" => connection'[next[t]] = connection[next[t]]
    BY <1>0, <1>6 DEF HandlersApart, ThreadTypes
  <2>2. QED
    BY <1>0, <1>7, <2>1 DEF HandlersApart, threads
<1>10. QED
  BY <1>1, <1>2, <1>3, <1>4, <1>8, <1>9 DEF IInv, TypeOK

(* start() ends with an accept on the acceptor it has just opened. *)
LEMMA FirstAcceptInv ==
  ASSUME IInv, FirstAccept, UNCHANGED <<kind, threads, crashed>>
  PROVE  IInv'
<1> DEFINE n == NewConn
           r == Accepting(this.processor_, this.acceptor_)
<1>0. /\ ConnectionTypes /\ ThreadTypes /\ HandlersApart /\ NothingStale
      /\ n \in Conn /\ connection[n].status = "free" /\ this.acceptor_ \in open
      /\ connection' = [connection EXCEPT ![n] = r]
      /\ UNCHANGED <<this, network, at, conn, next, kind>>
  BY NewConnIsFree DEF IInv, TypeOK, OpenWhileUsed, FirstAccept, threads
<1>1. CallTypes' /\ StartsCounted'
  BY DEF FirstAccept, IInv, TypeOK, CallTypes, StartsCounted, Stopping
<1>2. NetworkTypes'
  BY <1>0 DEF IInv, TypeOK, NetworkTypes, network
<1>3. r \in Connection /\ r.status = "accepting" /\ r.listener = this.acceptor_
  BY <1>0, Bounds DEF IInv, TypeOK, CallTypes, Accepting, Connection
<1> HIDE DEF r, n
<1>4. ConnectionTypes'
  BY <1>0, <1>3 DEF ConnectionTypes
<1>5. connection'[n] = r /\ \A d \in Conn : d # n => connection'[d] = connection[d]
  BY <1>0 DEF ConnectionTypes
<1>6. ThreadTypes'
  BY <1>0 DEF IInv, TypeOK, ThreadTypes, threads
<1>7. HandlersApart'
  <2>1. \A t \in Thread : /\ at[t] # "idle" => conn[t] \in Conn /\ conn[t] # n
                          /\ at[t] = "created" => next[t] \in Conn /\ next[t] # n
    BY <1>0 DEF ThreadTypes, HandlersApart
  <2>2. QED
    BY <1>0, <1>3, <1>5, <2>1 DEF HandlersApart
<1>8. NothingStale' /\ Listening'
  BY <1>0, <1>3, <1>5 DEF NothingStale, Listening, network
<1>9. OpenWhileUsed'
  BY <1>0 DEF FirstAccept, OpenWhileUsed, Stopping, network
<1>10. QED
  BY <1>1, <1>2, <1>4, <1>6, <1>7, <1>8, <1>9 DEF IInv, TypeOK

-----------------------------------------------------------------------------
(* What is left to show for a step that leaves the owner and the network   *)
(* alone.                                                                  *)
LEMMA OwnerUntouched ==
  ASSUME IInv, UNCHANGED <<kind, call, this, network>>,
         ConnectionTypes', ThreadTypes', HandlersApart', Listening',
         \A c \in Conn : connection'[c].status = "accepting" => connection'[c].listener \in open
  PROVE  IInv'
<1>1. CallTypes' /\ NetworkTypes'
  BY DEF IInv, TypeOK, CallTypes, NetworkTypes, call, network
<1>2. NothingStale'
  BY DEF IInv, NothingStale, network
<1>3. OpenWhileUsed' /\ StartsCounted'
  BY DEF IInv, OpenWhileUsed, StartsCounted, call, network
<1>4. QED
  BY <1>1, <1>2, <1>3 DEF IInv, TypeOK

(* A connection that no handler has, and on which nothing is waited for,   *)
(* changes for another such state.                                         *)
LEMMA ReleasedInv ==
  ASSUME IInv, NEW c \in Conn, NEW r \in Connection,
         connection' = [connection EXCEPT ![c] = r],
         connection[c].status \notin {"handled", "made", "accepting"},
         connection[c].status = "completed" => connection[c].outcome = "aborted",
         r.status \notin {"completed", "accepting"},
         UNCHANGED <<kind, call, this, network, threads>>,
         crashed' = crashed
  PROVE  IInv'
<1>0. /\ ConnectionTypes /\ ThreadTypes /\ HandlersApart /\ NothingStale /\ Listening
      /\ UNCHANGED <<at, conn, next>>
  BY DEF IInv, TypeOK, threads
<1>1. connection'[c] = r /\ \A d \in Conn : d # c => connection'[d] = connection[d]
  BY <1>0 DEF ConnectionTypes
<1>2. ConnectionTypes' /\ ThreadTypes'
  BY <1>0 DEF ConnectionTypes, ThreadTypes, threads
<1>3. HandlersApart'
  <2>1. \A t \in Thread : /\ at[t] # "idle" => conn[t] \in Conn /\ conn[t] # c
                          /\ at[t] = "created" => next[t] \in Conn /\ next[t] # c
    BY <1>0 DEF ThreadTypes, HandlersApart
  <2>2. QED
    BY <1>0, <1>1, <2>1 DEF HandlersApart
<1>4. Listening'
  <2>1. WillAccept => WillAccept'
    BY <1>0, <1>1 DEF WillAccept
  <2>2. QED
    BY <1>0, <1>1, <2>1 DEF Listening, call
<1>5. \A d \in Conn : connection'[d].status = "accepting" => connection'[d].listener \in open
  BY <1>0, <1>1 DEF NothingStale
<1>6. QED
  BY <1>2, <1>3, <1>4, <1>5, OwnerUntouched

(* A handler takes a completed accept for itself and creates a connection  *)
(* that nobody else has.                                                   *)
LEMMA CreateNextInv ==
  ASSUME IInv, NEW t \in Thread, NEW c \in Conn, CreateNext(t, c),
         UNCHANGED <<kind, call, this, network>>
  PROVE  IInv'
<1> DEFINE n == NewConn
           made == [Unused EXCEPT !.status = "made", !.own = this.processor_]
           handled == [connection[c] EXCEPT !.status = "handled"]
<1>0. /\ ConnectionTypes /\ ThreadTypes /\ HandlersApart /\ NothingStale
      /\ n \in Conn /\ connection[n].status = "free" /\ this.processor_ \in Gen0
      /\ at[t] = "idle" /\ connection[c].status = "completed" /\ connection[c].outcome # "aborted"
      /\ at' = [at EXCEPT ![t] = "created"] /\ conn' = [conn EXCEPT ![t] = c]
      /\ next' = [next EXCEPT ![t] = n] /\ crashed' = crashed
  BY NewConnIsFree DEF IInv, TypeOK, CallTypes, CreateNext, Called
<1>1. c # n /\ connection[c].outcome \in {"ok", "failed"}
  BY <1>0 DEF HandlersApart
<1>2. connection' = [connection EXCEPT ![c] = handled, ![n] = made]
  BY DEF CreateNext
<1>3. handled \in Connection /\ made \in Connection
  BY <1>0, UnusedType DEF ConnectionTypes, Connection, Unused
<1>4. /\ handled.status = "handled" /\ handled.outcome \in {"ok", "failed"}
      /\ made.status = "made"
  BY <1>0, <1>1, <1>3 DEF ConnectionTypes, Connection, Unused
<1> HIDE DEF n, made, handled
<1>5. /\ connection'[c] = handled /\ connection'[n] = made
      /\ \A d \in Conn : d \notin {c, n} => connection'[d] = connection[d]
  BY <1>0, <1>1, <1>2 DEF ConnectionTypes
<1>6. ConnectionTypes'
  BY <1>0, <1>2, <1>3 DEF ConnectionTypes
<1>7. /\ at'[t] = "created" /\ conn'[t] = c /\ next'[t] = n
      /\ \A u \in Thread : u # t => at'[u] = at[u] /\ conn'[u] = conn[u] /\ next'[u] = next[u]
  BY <1>0 DEF ThreadTypes
<1>8. ThreadTypes'
  BY <1>0 DEF ThreadTypes
<1>9. HandlersApart'
  <2>1. \A u \in Thread :
          /\ at[u] # "idle" => conn[u] \in Conn /\ conn[u] \notin {c, n}
          /\ at[u] = "created" => next[u] \in Conn /\ next[u] \notin {c, n}
    BY <1>0 DEF ThreadTypes, HandlersApart
  <2>2. QED
    BY <1>0, <1>4, <1>5, <1>7, <2>1 DEF HandlersApart
<1>10. Listening'
  BY <1>7 DEF Listening, WillAccept
<1>11. \A d \in Conn : connection'[d].status = "accepting" => connection'[d].listener \in open
  BY <1>0, <1>4, <1>5 DEF NothingStale
<1>12. QED
  BY <1>6, <1>8, <1>9, <1>10, <1>11, OwnerUntouched

(* The next accept is on the acceptor of the moment: outstanding when that *)
(* is open, and it is open in an acceptor that runs.                       *)
LEMMA AcceptNextInv ==
  ASSUME IInv, NEW t \in Thread, AcceptNext(t),
         UNCHANGED <<kind, call, this, network>>
  PROVE  IInv'
<1> DEFINE n == next[t]
           c == conn[t]
           rn == Accepting(connection[n].own, this.acceptor_)
<1>0. /\ ConnectionTypes /\ ThreadTypes /\ HandlersApart /\ NothingStale
      /\ n \in Conn /\ connection[n].status = "made"
      /\ c \in Conn /\ connection[c].status = "handled"
      /\ at[t] = "created" /\ crashed' = crashed
  BY DEF IInv, TypeOK, ThreadTypes, HandlersApart, AcceptNext
<1>1. /\ rn \in Connection /\ rn.status \in {"accepting", "completed"}
      /\ this.acceptor_ \in open <=> rn.status = "accepting"
      /\ rn.listener = this.acceptor_ /\ (rn.status = "completed" => rn.outcome = "failed")
  BY <1>0, Bounds DEF IInv, TypeOK, CallTypes, ConnectionTypes, Accepting, Connection
<1> HIDE DEF rn
<1>2. PICK rc \in Connection :
        /\ connection' = [connection EXCEPT ![n] = rn, ![c] = rc]
        /\ \/ rc.status \in {"free", "handshaking"} /\ Leave(t)
           \/ /\ rc = connection[c] /\ rc.outcome = "ok" /\ kind = "tcp"
              /\ at' = [at EXCEPT ![t] = "reaccepted"]
              /\ next' = [next EXCEPT ![t] = none] /\ conn' = conn
  <2> DEFINE hs == [connection[c] EXCEPT !.status = "handshaking"]
  <2>1. \/ connection' = [connection EXCEPT ![n] = rn, ![c] = Unused] /\ Leave(t)
        \/ connection' = [connection EXCEPT ![n] = rn, ![c] = Reset] /\ Leave(t)
        \/ connection' = [connection EXCEPT ![n] = rn, ![c] = hs] /\ Leave(t)
        \/ /\ connection' = [connection EXCEPT ![n] = rn]
           /\ connection[c].outcome = "ok" /\ kind = "tcp"
           /\ at' = [at EXCEPT ![t] = "reaccepted"]
           /\ next' = [next EXCEPT ![t] = none] /\ conn' = conn
    BY <1>0 DEF AcceptNext, rn, ConnectionTypes
  <2>2. /\ Unused \in Connection /\ Unused.status = "free"
        /\ Reset \in Connection /\ Reset.status = "free"
        /\ hs \in Connection /\ hs.status = "handshaking"
    BY <1>0, UnusedType DEF Unused, Reset, ConnectionTypes, Connection
  <2> HIDE DEF n, c, hs
  <2>3. connection[c] \in Connection
    BY <1>0 DEF ConnectionTypes
  <2>4. ASSUME connection' = [connection EXCEPT ![n] = rn]
        PROVE  connection' = [connection EXCEPT ![n] = rn, ![c] = connection[c]]
    BY <1>0, <2>4 DEF ConnectionTypes
  <2>5. QED
    BY <2>1, <2>2, <2>3, <2>4
<1>3. /\ n # c /\ connection'[n] = rn /\ connection'[c] = rc
      /\ \A d \in Conn : d \notin {c, n} => connection'[d] = connection[d]
  BY <1>0, <1>2 DEF ConnectionTypes
<1>4. ConnectionTypes' /\ rc.status \notin {"accepting", "completed"}
  BY <1>0, <1>1, <1>2 DEF ConnectionTypes
<1>5. ThreadTypes'
  BY <1>0, <1>2 DEF ThreadTypes, Leave
<1>6. /\ \/ rc.status \in {"free", "handshaking"} /\ at'[t] = "idle"
         \/ /\ rc = connection[c] /\ rc.outcome = "ok" /\ kind = "tcp"
            /\ at'[t] = "reaccepted" /\ conn'[t] = c
      /\ \A u \in Thread : u # t => at'[u] = at[u] /\ conn'[u] = conn[u] /\ next'[u] = next[u]
  BY <1>0, <1>2 DEF ThreadTypes, Leave
<1>7. HandlersApart'
  <2>1. \A u \in Thread : u # t =>
          /\ at[u] # "idle" => conn[u] \in Conn /\ conn[u] \notin {c, n}
          /\ at[u] = "created" => next[u] \in Conn /\ next[u] \notin {c, n}
    BY <1>0 DEF ThreadTypes, HandlersApart
  <2>2. \A d \in Conn : connection'[d].status = "completed" => connection'[d].outcome \in {"ok", "failed", "aborted"}
    BY <1>0, <1>1, <1>3, <1>4 DEF HandlersApart
  <2>3. QED
    BY <1>0, <1>3, <1>6, <2>1, <2>2 DEF HandlersApart
<1>8. Listening'
  <2>1. owner' = "idle" /\ phase' = "running" => this.acceptor_ \in open
    BY DEF IInv, OpenWhileUsed, call
  <2>2. QED
    BY <1>0, <1>1, <1>3, <2>1 DEF Listening
<1>9. \A d \in Conn : connection'[d].status = "accepting" => connection'[d].listener \in open
  BY <1>0, <1>1, <1>3, <1>4 DEF NothingStale
<1>10. QED
  BY <1>4, <1>5, <1>7, <1>8, <1>9, OwnerUntouched

(* The end of a handler: it lets go of its connection, which nobody else   *)
(* has and which is not needed to keep listening.                          *)
LEMMA ServeInvStep ==
  ASSUME IInv, NEW t \in Thread, Serve(t),
         UNCHANGED <<kind, call, this, network>>
  PROVE  IInv'
<1> DEFINE c == conn[t]
<1>0. /\ ConnectionTypes /\ ThreadTypes /\ HandlersApart /\ NothingStale /\ Listening
      /\ this.processor_ \in Gen0 /\ c \in Conn /\ connection[c].status = "handled"
      /\ at[t] = "reaccepted" /\ Leave(t) /\ crashed' = crashed
  BY DEF IInv, TypeOK, CallTypes, ThreadTypes, HandlersApart, Serve
<1>1. PICK r \in Connection : /\ connection' = [connection EXCEPT ![c] = r]
                               /\ r.status \in {"free", "serving"}
  <2> DEFINE served == [connection[c] EXCEPT !.status = "serving", !.server = this.processor_]
             dropped == [Unused EXCEPT !.server = this.processor_]
  <2>1. served \in Connection /\ served.status = "serving"
    BY <1>0 DEF ConnectionTypes, Connection
  <2>2. dropped \in Connection /\ dropped.status = "free"
    BY <1>0, UnusedType DEF Connection, Unused
  <2>3. \/ connection' = [connection EXCEPT ![c] = served]
        \/ connection' = [connection EXCEPT ![c] = dropped]
    BY <1>0 DEF Serve, ConnectionTypes
  <2>4. QED
    BY <2>1, <2>2, <2>3
<1>2. connection'[c] = r /\ \A d \in Conn : d # c => connection'[d] = connection[d]
  BY <1>0, <1>1 DEF ConnectionTypes
<1>3. ConnectionTypes' /\ ThreadTypes'
  BY <1>0, <1>1 DEF ConnectionTypes, ThreadTypes, Leave
<1>4. /\ at'[t] = "idle"
      /\ \A u \in Thread : u # t => at'[u] = at[u] /\ conn'[u] = conn[u] /\ next'[u] = next[u]
  BY <1>0 DEF ThreadTypes, Leave
<1>5. HandlersApart'
  <2>1. \A u \in Thread : u # t =>
          /\ at[u] # "idle" => conn[u] \in Conn /\ conn[u] # c
          /\ at[u] = "created" => next[u] \in Conn /\ next[u] # c
    BY <1>0 DEF ThreadTypes, HandlersApart
  <2>2. QED
    BY <1>0, <1>1, <1>2, <1>4, <2>1 DEF HandlersApart
<1>6. Listening'
  <2>1. WillAccept => WillAccept'
    BY <1>0, <1>2, <1>4 DEF WillAccept
  <2>2. QED
    BY <1>0, <1>2, <2>1 DEF Listening, call
<1>7. \A d \in Conn : connection'[d].status = "accepting" => connection'[d].listener \in open
  BY <1>0, <1>1, <1>2 DEF NothingStale
<1>8. QED
  BY <1>3, <1>5, <1>6, <1>7, OwnerUntouched

(* Whatever a thread of the io_service does. *)
LEMMA ThreadStepInv ==
  ASSUME IInv, NEW t \in Thread, ThreadStep(t)
  PROVE  IInv'
<1>1. ASSUME NEW c \in Conn, OnAborted(t, c) PROVE IInv'
  BY <1>1, ReleasedInv, UnusedType DEF OnAborted, Called, Unused, ThreadStep
<1>2. ASSUME NEW c \in Conn, CreateNext(t, c) PROVE IInv'
  BY <1>2, CreateNextInv DEF ThreadStep
<1>3. CASE AcceptNext(t)
  BY <1>3, AcceptNextInv DEF ThreadStep
<1>4. CASE Serve(t)
  BY <1>4, ServeInvStep DEF ThreadStep
<1>5. CASE Dereference(t)
  <2> USE <1>5 DEF Dereference
  <2>1. ConnectionTypes' /\ ThreadTypes' /\ HandlersApart'
    BY DEF IInv, TypeOK, ConnectionTypes, ThreadTypes, HandlersApart, threads, ThreadStep
  <2>2. \A d \in Conn : connection'[d].status = "accepting" => connection'[d].listener \in open
    BY DEF IInv, NothingStale
  <2>3. QED
    BY <2>1, <2>2, OwnerUntouched DEF ThreadStep, Listening
<1>6. QED
  BY <1>1, <1>2, <1>3, <1>4, <1>5 DEF ThreadStep

(* The end of a handshake concerns no handler and no accept. *)
LEMMA HandshakenInv ==
  ASSUME IInv, NEW c \in Conn, Handshaken(c),
         UNCHANGED <<kind, call, this, network, threads>>
  PROVE  IInv'
<1>0. ConnectionTypes /\ connection[c].status = "handshaking"
  BY DEF IInv, TypeOK, Handshaken
<1>1. CASE crashed' = crashed /\ connection' = [connection EXCEPT ![c] = Unused]
  BY <1>0, <1>1, ReleasedInv, UnusedType DEF Unused
<1>2. CASE /\ crashed' = crashed
           /\ connection' = [connection EXCEPT
                ![c].status = "serving", ![c].server = connection[c].own]
  <2> DEFINE r == [connection[c] EXCEPT !.status = "serving", !.server = connection[c].own]
  <2>1. r \in Connection /\ r.status = "serving" /\ connection' = [connection EXCEPT ![c] = r]
    BY <1>0, <1>2 DEF ConnectionTypes, Connection
  <2>2. QED
    BY <1>0, <1>2, <2>1, ReleasedInv
<1>3. CASE crashed' = TRUE /\ connection' = connection
  <2>1. ConnectionTypes' /\ ThreadTypes' /\ HandlersApart'
    BY <1>3 DEF IInv, TypeOK, ConnectionTypes, ThreadTypes, HandlersApart, threads
  <2>2. \A d \in Conn : connection'[d].status = "accepting" => connection'[d].listener \in open
    BY <1>3 DEF IInv, NothingStale
  <2>3. QED
    BY <1>3, <2>1, <2>2, OwnerUntouched DEF Listening
<1>4. QED
  BY <1>1, <1>2, <1>3 DEF Handshaken

(* A client or an error completes an accept, whose handler will start the  *)
(* next one.                                                               *)
LEMMA NetworkInv ==
  ASSUME IInv, Network
  PROVE  IInv'
<1>0. /\ CallTypes /\ NetworkTypes /\ ConnectionTypes /\ ThreadTypes
      /\ HandlersApart /\ NothingStale /\ Listening /\ OpenWhileUsed /\ StartsCounted
  BY DEF IInv, TypeOK
<1>1. UNCHANGED <<kind, call, this, threads, crashed, open>>
  BY DEF Network, ClientConnects, AcceptCompletes, AcceptFails
<1>2. CallTypes' /\ ThreadTypes' /\ OpenWhileUsed' /\ StartsCounted'
  BY <1>0, <1>1 DEF CallTypes, ThreadTypes, OpenWhileUsed, StartsCounted, call, threads
<1>3. CASE \E g \in Gen : ClientConnects(g)
  <2> USE <1>3 DEF ClientConnects
  <2>1. NetworkTypes'
    BY <1>0, BoundAssumption DEF NetworkTypes
  <2>2. ConnectionTypes' /\ HandlersApart' /\ NothingStale'
    BY <1>0, <1>1 DEF ConnectionTypes, HandlersApart, NothingStale, threads
  <2>3. Listening'
    BY <1>0, <1>1 DEF Listening, WillAccept, threads, call
  <2>4. QED
    BY <1>2, <2>1, <2>2, <2>3 DEF IInv, TypeOK
<1>4. CASE \E c \in Conn : AcceptCompletes(c) \/ AcceptFails(c)
  <2>1. PICK c \in Conn : AcceptCompletes(c) \/ AcceptFails(c)
    BY <1>4
  <2>2. PICK o \in {"ok", "failed"} :
          connection' = [connection EXCEPT ![c].status = "completed", ![c].outcome = o]
    BY <2>1 DEF AcceptCompletes, AcceptFails
  <2> DEFINE r == [connection[c] EXCEPT !.status = "completed", !.outcome = o]
  <2>3. /\ r \in Connection /\ r.status = "completed" /\ r.outcome \in {"ok", "failed"}
        /\ connection[c].status = "accepting"
        /\ connection'[c] = r /\ \A d \in Conn : d # c => connection'[d] = connection[d]
    BY <1>0, <2>1, <2>2 DEF ConnectionTypes, Connection, AcceptCompletes, AcceptFails
  <2>4. ConnectionTypes'
    BY <1>0, <2>2, <2>3 DEF ConnectionTypes
  <2> HIDE DEF r
  <2>5. NetworkTypes'
    <3>1. connection[c].listener \in Gen
      BY <1>0, <2>3 DEF NothingStale, NetworkTypes
    <3>2. CASE AcceptCompletes(c)
      BY <1>0, <3>1, <3>2 DEF NetworkTypes, AcceptCompletes
    <3>3. CASE AcceptFails(c)
      BY <1>0, <3>3, BoundAssumption DEF NetworkTypes, AcceptFails
    <3>4. QED
      BY <2>1, <3>2, <3>3
  <2>6. HandlersApart'
    <3>1. \A t \in Thread : /\ at[t] # "idle" => conn[t] \in Conn /\ conn[t] # c
                            /\ at[t] = "created" => next[t] \in Conn /\ next[t] # c
      BY <1>0, <2>3 DEF ThreadTypes, HandlersApart
    <3>2. QED
      BY <1>0, <1>1, <2>3, <3>1 DEF HandlersApart, threads
  <2>7. NothingStale'
    BY <1>0, <1>1, <2>3 DEF NothingStale
  <2>8. Listening'
    BY <2>3 DEF Listening, WillAccept
  <2>9. QED
    BY <1>2, <2>4, <2>5, <2>6, <2>7, <2>8 DEF IInv, TypeOK
<1>5. QED
  BY <1>3, <1>4 DEF Network

-----------------------------------------------------------------------------
(* Every step keeps the invariant. *)
LEMMA NextIInv == IInv /\ [Next]_vars => IInv'
<1> SUFFICES ASSUME IInv, [Next]_vars PROVE IInv'
  OBVIOUS
<1>1. CASE (Start \/ Reload \/ Stop) /\ UNCHANGED <<kind, this, network, connection, threads, crashed>>
  BY <1>1, QuietInv DEF Quiet
<1>2. CASE OwnerStep
  BY <1>2, QuietInv, CloseAcceptorInv, FirstAcceptInv DEF OwnerStep, Quiet
<1>3. CASE \E t \in Thread : ThreadStep(t)
  BY <1>3, ThreadStepInv
<1>4. CASE \E c \in Conn : Handshaken(c) /\ UNCHANGED <<kind, call, this, network, threads>>
  BY <1>4, HandshakenInv
<1>5. CASE Network
  BY <1>5, NetworkInv
<1>6. CASE UNCHANGED vars
  <2> USE <1>6 DEF vars
  <2>1. ConnectionTypes' /\ ThreadTypes' /\ HandlersApart'
    BY DEF IInv, TypeOK, ConnectionTypes, ThreadTypes, HandlersApart, threads
  <2>2. \A d \in Conn : connection'[d].status = "accepting" => connection'[d].listener \in open
    BY DEF IInv, NothingStale
  <2>3. Listening'
    BY DEF IInv, Listening, WillAccept, threads, call
  <2>4. QED
    BY <2>1, <2>2, <2>3, OwnerUntouched
<1>7. QED
  BY <1>1, <1>2, <1>3, <1>4, <1>5, <1>6 DEF Next
-----------------------------------------------------------------------------
(* Who is served.  A step that accepts nobody keeps the count.             *)
LEMMA NobodyAccepted ==
  ASSUME IInv, ClientsCounted, Accepted' \subseteq Accepted,
         UNCHANGED <<backlog, clients>>, open \subseteq open'
  PROVE  ClientsCounted'
<1>1. IsFiniteSet(Accepted') /\ Cardinality(Accepted') <= Cardinality(Accepted)
  BY FS_Subset DEF ClientsCounted
<1>2. Cardinality(Accepted) \in Nat /\ Cardinality(Accepted') \in Nat
  BY <1>1, FS_CardinalityType DEF ClientsCounted
<1>3. backlog \in [Gen -> Nat] /\ clients \in Nat
  BY BoundAssumption DEF IInv, TypeOK, NetworkTypes
<1>4. QED
  BY <1>1, <1>2, <1>3 DEF ClientsCounted

(* A record that is as well served as the connection c it takes the place  *)
(* of, and a step that makes it do so.                                     *)
AsWellServed(c, r) ==
  /\ r.outcome = "ok" /\ r.status # "free" => c \in Accepted
  /\ r.own <= starts /\ (this.processor_ # 0 => r.own <= this.processor_)
  /\ r.status \in {"handshaking", "serving"} => r.outcome = "ok"
  /\ r.status = "serving" =>
       r.server # 0 /\ r.server >= r.own /\ (kind = "tcp_ssl" => r.server = r.own)

LEMMA OneChanged ==
  ASSUME IInv, ServeInv, NEW c \in Conn, NEW r \in Connection,
         connection' = [connection EXCEPT ![c] = r], AsWellServed(c, r),
         UNCHANGED <<kind, this, starts, network>>
  PROVE  ServeInv'
<1>1. connection'[c] = r /\ \A d \in Conn : d # c => connection'[d] = connection[d]
  BY DEF IInv, TypeOK, ConnectionTypes
<1>2. \A d \in Conn : WellServed(d)'
  BY <1>1 DEF ServeInv, WellServed, AsWellServed
<1>3. Accepted' \subseteq Accepted
  BY <1>1 DEF Accepted, AsWellServed
<1>4. ClientsCounted'
  BY <1>3, NobodyAccepted DEF ServeInv, network
<1>5. QED
  BY <1>2, <1>4 DEF ServeInv

LEMMA ServeOwner ==
  ASSUME IInv, ServeInv, Quiet \/ CloseAcceptor \/ FirstAccept, kind' = kind
  PROVE  ServeInv'
<1>0. /\ this.processor_ \in Nat /\ starts \in Nat /\ ConnectionTypes
      /\ \A c \in Conn : connection[c].own \in Nat
  BY DEF IInv, TypeOK, CallTypes, ConnectionTypes, Connection, Gen0
<1>1. CASE Quiet
  <2>1. /\ UNCHANGED <<connection, backlog, clients>> /\ open \subseteq open'
        /\ starts' >= starts /\ starts' \in Nat
    BY <1>0, <1>1 DEF Quiet, MemberStep, Start, Reload, Stop, ResetAcceptor, ResetContext,
          ResetProcessor, ResetIoService, GetProcessor, GetIoService, MakeAcceptor,
          MakeContext, StartFails, network
  <2>2. this'.processor_ \in {0, starts, this.processor_}
    BY <1>0, <1>1 DEF IInv, TypeOK, CallTypes, Quiet, MemberStep, Start, Reload, Stop,
          ResetAcceptor, ResetContext, ResetProcessor, ResetIoService, GetProcessor,
          GetIoService, MakeAcceptor, MakeContext, StartFails
  <2>3. Accepted' = Accepted
    BY <2>1 DEF Accepted
  <2>4. ClientsCounted'
    BY <2>1, <2>3, NobodyAccepted DEF ServeInv
  <2>5. \A c \in Conn : WellServed(c)'
    BY <1>0, <2>1, <2>2 DEF ServeInv, WellServed
  <2>6. QED
    BY <1>0, <2>1, <2>2, <2>4, <2>5 DEF ServeInv
<1>2. CASE CloseAcceptor
  <2>1. UNCHANGED <<this, starts, clients>>
    BY <1>2 DEF CloseAcceptor
  <2>2. \A c \in Conn :
          \/ connection'[c] = connection[c]
          \/ /\ connection'[c].status = "completed" /\ connection'[c].outcome = "aborted"
             /\ connection'[c].own = connection[c].own
    BY <1>0, <1>2 DEF CloseAcceptor, ConnectionTypes, Connection
  <2>3. Accepted' \subseteq Accepted /\ \A c \in Conn : WellServed(c)'
    BY <2>1, <2>2 DEF Accepted, ServeInv, WellServed
  <2>4. backlog \in [Gen -> Nat] /\ clients \in Nat /\ open \subseteq {this.acceptor_}
    BY BoundAssumption DEF IInv, TypeOK, NetworkTypes, NothingStale
  <2>5. \A g \in Gen : backlog'[g] = 0
    BY <1>2, <2>4 DEF CloseAcceptor, ServeInv, ClientsCounted
  <2>6. IsFiniteSet(Accepted') /\ Cardinality(Accepted') <= Cardinality(Accepted)
    BY <2>3, FS_Subset DEF ServeInv, ClientsCounted
  <2>7. Cardinality(Accepted) \in Nat /\ Cardinality(Accepted') \in Nat
    BY <2>6, FS_CardinalityType DEF ServeInv, ClientsCounted
  <2>8. ClientsCounted'
    BY <2>1, <2>4, <2>5, <2>6, <2>7 DEF ServeInv, ClientsCounted
  <2>9. QED
    BY <2>1, <2>3, <2>8 DEF ServeInv
<1>3. CASE FirstAccept
  <2> DEFINE r == Accepting(this.processor_, this.acceptor_)
  <2>1. r \in Connection /\ r.own = this.processor_ /\ r.outcome # "ok"
        /\ r.status \notin {"handshaking", "serving"}
    BY Bounds DEF IInv, TypeOK, CallTypes, Accepting, Connection
  <2>2. connection' = [connection EXCEPT ![NewConn] = r] /\ UNCHANGED <<this, starts, network>>
        /\ NewConn \in Conn
    BY <1>3, NewConnIsFree DEF FirstAccept
  <2> HIDE DEF r
  <2>3. AsWellServed(NewConn, r)
    BY <1>0, <2>1 DEF ServeInv, AsWellServed
  <2>4. QED
    BY <2>1, <2>2, <2>3, OneChanged
<1>4. QED
  BY <1>1, <1>2, <1>3

(* The handlers and the handshake: they hand over a connection that was    *)
(* accepted, and create one that has the processor of the moment.          *)
LEMMA ServeThread ==
  ASSUME IInv, ServeInv, NEW t \in Thread, ThreadStep(t)
  PROVE  ServeInv'
<1>0. /\ this.processor_ \in Gen0 /\ this.processor_ \in Nat /\ starts \in Nat
      /\ ConnectionTypes /\ ThreadTypes /\ HandlersApart
      /\ \A c \in Conn : connection[c] \in Connection /\ connection[c].own \in Nat
      /\ UNCHANGED <<kind, this, starts, network, backlog, clients, open>>
  BY DEF IInv, TypeOK, CallTypes, ConnectionTypes, Connection, Gen0, ThreadStep, call, network
<1>1. ASSUME NEW c \in Conn, OnAborted(t, c) PROVE ServeInv'
  <2>1. Unused.own = 0 /\ Unused.status = "free" /\ Unused.outcome = "none"
    BY DEF Unused
  <2>2. AsWellServed(c, Unused)
    BY <1>0, <2>1 DEF AsWellServed
  <2>3. connection' = [connection EXCEPT ![c] = Unused]
    BY <1>1 DEF OnAborted
  <2>4. QED
    BY <1>0, <2>2, <2>3, UnusedType, OneChanged
<1>2. ASSUME NEW c \in Conn, CreateNext(t, c) PROVE ServeInv'
  <2> DEFINE n == NewConn
             made == [Unused EXCEPT !.status = "made", !.own = this.processor_]
             handled == [connection[c] EXCEPT !.status = "handled"]
  <2>1. /\ n \in Conn /\ c # n /\ connection[c].status = "completed"
        /\ connection' = [connection EXCEPT ![c] = handled, ![n] = made]
    BY <1>2, NewConnIsFree DEF CreateNext, Called
  <2>2. /\ made.status = "made" /\ made.own = this.processor_ /\ made.outcome = "none"
        /\ handled.status = "handled" /\ handled.own = connection[c].own
        /\ handled.outcome = connection[c].outcome
    BY <1>0 DEF Unused, Connection
  <2> HIDE DEF n, made, handled
  <2>3. /\ connection'[c] = handled /\ connection'[n] = made
        /\ \A d \in Conn : d \notin {c, n} => connection'[d] = connection[d]
    BY <1>0, <2>1 DEF ConnectionTypes
  <2>4. Accepted' \subseteq Accepted
    <3> SUFFICES ASSUME NEW d \in Conn, connection'[d].outcome = "ok", connection'[d].status # "free"
                 PROVE  connection[d].outcome = "ok" /\ connection[d].status # "free"
      BY DEF Accepted
    <3>1. d # n
      BY <2>2, <2>3
    <3>2. QED
      BY <2>1, <2>2, <2>3, <3>1
  <2>5. ClientsCounted'
    BY <1>0, <2>4, NobodyAccepted DEF ServeInv
  <2>6. \A d \in Conn : WellServed(d)'
    BY <1>0, <2>2, <2>3 DEF ServeInv, WellServed
  <2>7. QED
    BY <1>0, <2>5, <2>6 DEF ServeInv
<1>3. CASE AcceptNext(t)
  <2> DEFINE n == next[t]
             c == conn[t]
             rn == Accepting(connection[n].own, this.acceptor_)
  <2>1. /\ n \in Conn /\ c \in Conn /\ n # c
        /\ connection[n].status = "made" /\ connection[c].status = "handled"
    BY <1>0, <1>3 DEF ThreadTypes, HandlersApart, AcceptNext
  <2>2. rn.own = connection[n].own /\ rn.outcome # "ok" /\ rn.status \notin {"handshaking", "serving"}
    BY DEF Accepting
  <2>3. /\ connection'[n] = rn
        /\ \A d \in Conn : d \notin {c, n} => connection'[d] = connection[d]
        /\ \/ connection'[c] \in {Unused, Reset}
           \/ /\ connection[c].outcome = "ok"
              /\ connection'[c] = [connection[c] EXCEPT !.status = "handshaking"]
           \/ connection'[c] = connection[c]
    BY <1>0, <1>3, <2>1 DEF AcceptNext, ConnectionTypes
  <2> HIDE DEF rn, n, c
  <2>4. \/ connection'[c].status = "free" /\ connection'[c].own = 0
        \/ /\ connection[c].outcome = "ok" /\ connection'[c].outcome = "ok"
           /\ connection'[c].status = "handshaking"
           /\ connection'[c].own = connection[c].own
        \/ connection'[c] = connection[c]
    BY <1>0, <2>1, <2>3 DEF Unused, Reset, Connection
  <2>5. Accepted' \subseteq Accepted
    BY <2>1, <2>2, <2>3, <2>4 DEF Accepted
  <2>6. ClientsCounted'
    BY <1>0, <2>5, NobodyAccepted DEF ServeInv
  <2>7. \A d \in Conn : WellServed(d)'
    BY <1>0, <2>1, <2>2, <2>3, <2>4 DEF ServeInv, WellServed
  <2>8. QED
    BY <1>0, <2>6, <2>7 DEF ServeInv
<1>4. CASE Serve(t)
  <2> DEFINE c == conn[t]
             served == [connection[c] EXCEPT !.status = "serving", !.server = this.processor_]
             dropped == [Unused EXCEPT !.server = this.processor_]
  <2>1. /\ c \in Conn /\ connection[c].status = "handled" /\ connection[c].outcome = "ok"
        /\ kind = "tcp" /\ this.processor_ # 0
    BY <1>0, <1>4 DEF ThreadTypes, HandlersApart, Serve
  <2>2. /\ served \in Connection /\ served.status = "serving" /\ served.outcome = "ok"
        /\ served.own = connection[c].own /\ served.server = this.processor_
    BY <1>0, <2>1 DEF Connection
  <2>3. dropped \in Connection /\ dropped.status = "free" /\ dropped.own = 0
    BY <1>0, UnusedType DEF Connection, Unused
  <2>4. \/ connection' = [connection EXCEPT ![c] = served]
        \/ connection' = [connection EXCEPT ![c] = dropped]
    BY <1>0, <1>4, <2>1 DEF Serve, ConnectionTypes
  <2>5. c \in Accepted /\ connection[c].own <= this.processor_ /\ connection[c].own <= starts
    BY <2>1 DEF Accepted, ServeInv, WellServed
  <2> HIDE DEF c, served, dropped
  <2>6. AsWellServed(c, served) /\ AsWellServed(c, dropped)
    BY <1>0, <2>1, <2>2, <2>3, <2>5 DEF AsWellServed
  <2>7. QED
    BY <1>0, <2>1, <2>2, <2>3, <2>4, <2>6, OneChanged
<1>5. CASE Dereference(t)
  <2>1. connection' = connection
    BY <1>5 DEF Dereference
  <2>2. Accepted' = Accepted /\ \A c \in Conn : WellServed(c)'
    BY <1>0, <2>1 DEF Accepted, ServeInv, WellServed
  <2>3. QED
    BY <1>0, <2>2, NobodyAccepted DEF ServeInv
<1>6. QED
  BY <1>1, <1>2, <1>3, <1>4, <1>5 DEF ThreadStep

LEMMA ServeHandshaken ==
  ASSUME IInv, ServeInv, NEW c \in Conn, Handshaken(c),
         UNCHANGED <<kind, call, this, network, threads>>
  PROVE  ServeInv'
<1>0. /\ connection[c] \in Connection /\ connection[c].own \in Nat /\ starts \in Nat
      /\ connection[c].status = "handshaking" /\ connection[c].outcome = "ok"
      /\ UNCHANGED <<starts, backlog, clients, open>> /\ this.processor_ \in Nat
  BY DEF IInv, TypeOK, CallTypes, ConnectionTypes, Connection, Gen0, Handshaken, ServeInv,
         WellServed, call, network
<1> DEFINE r == [connection[c] EXCEPT !.status = "serving", !.server = connection[c].own]
<1>1. /\ r \in Connection /\ r.status = "serving" /\ r.outcome = "ok"
      /\ r.own = connection[c].own /\ r.server = connection[c].own
  BY <1>0 DEF Connection
<1>2. Unused.own = 0 /\ Unused.status = "free"
  BY DEF Unused
<1>3. /\ c \in Accepted /\ connection[c].own <= starts
      /\ this.processor_ # 0 => connection[c].own <= this.processor_
  BY <1>0 DEF Accepted, ServeInv, WellServed
<1>4. \/ connection' = [connection EXCEPT ![c] = r] /\ connection[c].own # 0
      \/ connection' = [connection EXCEPT ![c] = Unused]
      \/ connection' = connection
  BY DEF Handshaken, IInv, TypeOK, ConnectionTypes
<1> HIDE DEF r
<1>5. CASE connection' = connection
  <2>1. Accepted' = Accepted /\ \A d \in Conn : WellServed(d)'
    BY <1>0, <1>5 DEF Accepted, ServeInv, WellServed
  <2>2. QED
    BY <1>0, <2>1, NobodyAccepted DEF ServeInv
<1>6. CASE connection' = [connection EXCEPT ![c] = r] /\ connection[c].own # 0
  <2>1. AsWellServed(c, r)
    BY <1>0, <1>1, <1>3, <1>6 DEF AsWellServed
  <2>2. QED
    BY <1>0, <1>1, <1>6, <2>1, OneChanged
<1>7. CASE connection' = [connection EXCEPT ![c] = Unused]
  <2>1. AsWellServed(c, Unused)
    BY <1>0, <1>2 DEF AsWellServed
  <2>2. QED
    BY <1>0, <1>7, <2>1, UnusedType, OneChanged
<1>8. QED
  BY <1>4, <1>5, <1>6, <1>7

(* A client enters the backlog when it connects and leaves it when it is   *)
(* accepted.                                                               *)
LEMMA ServeNetwork ==
  ASSUME IInv, ServeInv, Network
  PROVE  ServeInv'
<1>0. /\ UNCHANGED <<kind, starts, this, open>> /\ ConnectionTypes
      /\ backlog \in [Gen -> Nat] /\ clients \in Nat
      /\ IsFiniteSet(Accepted) /\ Cardinality(Accepted) \in Nat
  <2>1. UNCHANGED <<kind, starts, this, open>>
    BY DEF Network, ClientConnects, AcceptCompletes, AcceptFails, call
  <2>2. ConnectionTypes /\ backlog \in [Gen -> Nat] /\ clients \in Nat
    BY BoundAssumption DEF IInv, TypeOK, NetworkTypes
  <2>3. IsFiniteSet(Accepted) /\ Cardinality(Accepted) \in Nat
    BY FS_CardinalityType DEF ServeInv, ClientsCounted
  <2>4. QED
    BY <2>1, <2>2, <2>3
<1>1. ASSUME NEW g \in Gen, ClientConnects(g) PROVE ServeInv'
  <2>1. Accepted' = Accepted /\ \A c \in Conn : WellServed(c)'
    BY <1>0, <1>1 DEF ClientConnects, Accepted, ServeInv, WellServed
  <2>2. ClientsCounted'
    BY <1>0, <1>1, <2>1 DEF ClientConnects, ServeInv, ClientsCounted
  <2>3. QED
    BY <1>0, <2>1, <2>2 DEF ServeInv
<1>2. ASSUME NEW c \in Conn, AcceptCompletes(c) \/ AcceptFails(c) PROVE ServeInv'
  <2>1. /\ \A d \in Conn : d # c => connection'[d] = connection[d]
        /\ connection'[c].status = "completed" /\ connection'[c].own = connection[c].own
        /\ connection[c].status = "accepting"
        /\ AcceptFails(c) => connection'[c].outcome = "failed"
    BY <1>0, <1>2 DEF AcceptCompletes, AcceptFails, ConnectionTypes, Connection
  <2>2. \A d \in Conn : WellServed(d)'
    BY <1>0, <2>1 DEF ServeInv, WellServed
  <2>3. CASE AcceptFails(c)
    <3>1. Accepted' \subseteq Accepted
      BY <2>1, <2>3 DEF Accepted
    <3>2. QED
      BY <1>0, <2>2, <2>3, <3>1, NobodyAccepted DEF AcceptFails, ServeInv
  <2>4. CASE AcceptCompletes(c)
    <3> DEFINE g == connection[c].listener
    <3>1. /\ g \in Gen /\ g \in open /\ \A h \in Gen : h # g => h \notin open
          /\ backlog[g] > 0 /\ backlog' = [backlog EXCEPT ![g] = @ - 1] /\ clients' = clients
      BY <2>1, <2>4 DEF AcceptCompletes, IInv, TypeOK, NetworkTypes, NothingStale
    <3>2. Accepted' \subseteq Accepted \cup {c}
      BY <2>1 DEF Accepted
    <3>3. IsFiniteSet(Accepted \cup {c}) /\ Cardinality(Accepted \cup {c}) <= Cardinality(Accepted) + 1
          /\ Cardinality(Accepted \cup {c}) \in Nat
      <4>1. /\ IsFiniteSet(Accepted \cup {c})
            /\ \/ Cardinality(Accepted \cup {c}) = Cardinality(Accepted)
               \/ Cardinality(Accepted \cup {c}) = Cardinality(Accepted) + 1
        BY <1>0, FS_AddElement
      <4>2. QED
        BY <1>0, <4>1
    <3>4. IsFiniteSet(Accepted') /\ Cardinality(Accepted') <= Cardinality(Accepted) + 1
          /\ Cardinality(Accepted') \in Nat
      BY <1>0, <3>2, <3>3, FS_Subset, FS_CardinalityType
    <3>5. \A h \in Gen : Cardinality(Accepted) + 1 + backlog'[h] <= clients
      BY <1>0, <3>1 DEF ServeInv, ClientsCounted
    <3>6. \A h \in Gen : backlog'[h] \in Nat /\ (h \notin open => backlog'[h] = 0)
      BY <1>0, <3>1 DEF ServeInv, ClientsCounted
    <3>7. ClientsCounted'
      BY <1>0, <3>1, <3>4, <3>5, <3>6 DEF ClientsCounted
    <3>8. QED
      BY <1>0, <2>2, <3>7 DEF ServeInv
  <2>5. QED
    BY <1>2, <2>3, <2>4
<1>3. QED
  BY <1>1, <1>2 DEF Network

LEMMA NextServeInv == IInv /\ ServeInv /\ [Next]_vars => ServeInv'
<1> SUFFICES ASSUME IInv, ServeInv, [Next]_vars PROVE ServeInv'
  OBVIOUS
<1>1. CASE (Start \/ Reload \/ Stop) /\ UNCHANGED <<kind, this, network, connection, threads, crashed>>
  BY <1>1, ServeOwner DEF Quiet
<1>2. CASE OwnerStep
  BY <1>2, ServeOwner DEF OwnerStep, Quiet
<1>3. CASE \E t \in Thread : ThreadStep(t)
  BY <1>3, ServeThread
<1>4. CASE \E c \in Conn : Handshaken(c) /\ UNCHANGED <<kind, call, this, network, threads>>
  BY <1>4, ServeHandshaken
<1>5. CASE Network
  BY <1>5, ServeNetwork
<1>6. CASE UNCHANGED vars
  <2>1. Accepted' = Accepted /\ \A c \in Conn : WellServed(c)'
    BY <1>6 DEF vars, call, Accepted, ServeInv, WellServed
  <2>2. QED
    BY <1>6, <2>1, NobodyAccepted DEF vars, call, network, ServeInv
<1>7. QED
  BY <1>1, <1>2, <1>3, <1>4, <1>5, <1>6 DEF Next

LEMMA InitServeInv == Init => ServeInv
<1> SUFFICES ASSUME Init PROVE ServeInv
  OBVIOUS
<1>1. Accepted = {}
  BY DEF Init, Accepted, Unused
<1>2. ClientsCounted
  BY <1>1, FS_EmptySet DEF Init, ClientsCounted
<1>3. QED
  BY <1>2 DEF Init, ServeInv, WellServed, Unused

-----------------------------------------------------------------------------
(* The invariants hold throughout. *)
THEOREM Invariance == Spec => [](IInv /\ ServeInv)
BY InitIInv, NextIInv, InitServeInv, NextServeInv, PTL DEF Spec

(* Every variable keeps its type, and a handler has the connections that   *)
(* on_accpet uses.                                                         *)
THEOREM TypeCorrect == Spec => []TypeOK
<1>1. IInv => TypeOK
  BY DEF IInv
<1>2. QED
  BY <1>1, Invariance, PTL

(* The chain of accepts of on_accpet never breaks: however errors, reloads *)
(* and the threads of the io_service interleave, an acceptor that runs has *)
(* an accept outstanding or a handler that will start one.                 *)
THEOREM KeepsListening == Spec => []Listening
<1>1. IInv => Listening
  BY DEF IInv
<1>2. QED
  BY <1>1, Invariance, PTL

(* stop() and reload() leave no acceptor open but the one of the moment,   *)
(* and no accept outstanding on another.                                   *)
THEOREM NothingIsStale == Spec => []NothingStale
<1>1. IInv => NothingStale
  BY DEF IInv
<1>2. QED
  BY <1>1, Invariance, PTL

(* on_accpet and handle_handshake hand over only connections whose accept  *)
(* succeeded, and never more of them than clients have connected.          *)
THEOREM ClientsServedOnce == Spec => []ServedOnce
<1>1. IInv /\ ServeInv => ServedOnce
  <2> SUFFICES ASSUME IInv, ServeInv PROVE ServedOnce
    OBVIOUS
  <2>1. \A c \in Conn : connection[c].status \in {"handshaking", "serving"} => c \in Accepted
    BY DEF ServeInv, WellServed, Accepted
  <2>2. 1 \in Gen /\ backlog[1] \in Nat /\ clients \in Nat /\ Cardinality(Accepted) \in Nat
    BY Bounds, FS_CardinalityType, BoundAssumption
       DEF Gen, IInv, TypeOK, NetworkTypes, ServeInv, ClientsCounted
  <2>3. Cardinality(Accepted) + backlog[1] <= clients
    BY <2>2 DEF ServeInv, ClientsCounted
  <2>4. QED
    BY <2>1, <2>2, <2>3 DEF ServedOnce
<1>2. QED
  BY <1>1, Invariance, PTL

(* The processor that a connection is handed to is there, and is not an    *)
(* earlier one than the connection's own.                                  *)
THEOREM ServedByAProcessor == Spec => []ServedByOwn
<1>1. ServeInv => ServedByOwn
  BY DEF ServeInv, WellServed, ServedByOwn
<1>2. QED
  BY <1>1, Invariance, PTL
=============================================================================
