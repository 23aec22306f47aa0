# Formal models of cpp-alls

TLA+ models of `cpp-alls`, a small application server in C++: a process reads a
YAML configuration, loads applications from plugin binaries, and runs them on a
shared pool of threads around a `boost::asio::io_service`. The models are
checked with TLC on small instances; every safety invariant of the passing runs,
and four refinements, are also proved with TLAPS for every value of the
constants. Paths are relative to the root of the repository, which
`PROJECT.json` calls `src/`.

Run a model with `tlc -config <file>.cfg <module>.tla`, a proof with
`tlapm <module>.tla`.

## 1. The system

| component | state | operations | works with |
|---|---|---|---|
| server, `src/core/server.cpp` | `instances_` (name to application), `app_to_path_` (type to plugin), `config_path_`, `log_` | `start`, `reload`, `stop`, `app::get`, `app::construct`, `app::free`, destructor | calls `start/reload/stop` of each application, which call `app::get` back |
| server logger, `src/core/cpp_logger.cpp` | the records kept until a logger is known | `log`, `reset`, destructor | the server; the application named as its logger |
| io_service pool, `src/apps/boost_io_service` | `work_`, `log_`, `required_threads_count_`, the threads | `start` = `reload`, `stop`, `on_run` of each thread | asio; runs every handler of the network applications |
| slab allocator, `include/cppalls/core/slab_allocator.hpp` | `in_use_` marks of four blocks | `allocate`, `deallocate` | holds the handlers of one connection or acceptor |
| TCP and TLS acceptors, `src/apps/boost_tcp/tcp.cpp`, `tcp_ssl.cpp` | `acceptor_`, `context_`, `processor_`, `io_service_` | `start`, `reload`, `stop`, `accept`, `on_accpet`, handshake | owner thread against pool threads, without a lock |
| UDP acceptor, `src/apps/boost_tcp/udp.cpp` | `socket_`, `socket_strand_`, `processor_`, `io_service_`, `allocator_` | `start`, `reload`, `stop`, `accept`, `on_accpet`, the read callback | owner thread against strands |
| asynchronous connection, `src/apps/boost_tcp/async_connection_fast.hpp` | `request_`, `response_`, its socket, the references to it | `async_read`, `async_write`, their callbacks | a processor, which starts the next operation from a callback |
| synchronous connections, `src/core/sync_connection.ipp` | `request_t`, `response_`, its socket | `<<`, `>>`, `close` | the peer; `>>` first sends what was written |
| requests and responses, `src/core/stack_re*.cpp`, `request.cpp`, `response.cpp` | a byte vector; how much of it was extracted | `put_data`, `extract_data`, `resize`, `shrink`, the operators | the connections |
| echo processors, `tests/application_echo_connection_processor.cpp` | none | `on_read`, `on_write` | the only users of asynchronous connections here |
| `boost_logger`, error codes, interfaces, forward declarations | none of their own | | not modelled, see section 8 |

What makes the system hard to test:

* The server's calls are long sequences in which each application may throw;
  what was done before the exception stays.
* Start, reload and stop run in the owner's thread while handlers run in the
  pool's threads and read the same members. There are almost no locks: the code
  relies on the order of its steps, on strands, and on `shared_ptr`s bound to
  handlers.
* Everything network-facing is a chain of callbacks in which a path that starts
  nothing ends the service silently, and one that starts too much never ends.
* Buffers and allocators are re-used for every value and every handler.

The properties each component needs follow from this: the server's table stays
consistent through failures; the pool keeps the threads it owes and a stop gets
them all; acceptors neither go deaf nor multiply; nothing is used that is gone;
bytes come out as they went in. `PROJECT.json` lists the hazards with the line
at which each bites and the properties that would notice.

## 2. Modules

| module | models | abstract specification | MC module, runs | proofs |
|---|---|---|---|---|
| `Server` | server and its logger | `AppRegistry` | `MCServer`: `server`, `server_reload` | `ServerProofs`, `ServerCallProofs` |
| `IoService` | the pool | `HandlerPool` | `MCIoService`: `io_service` | `IoServiceProofs` |
| `SlabAllocator` | the allocator's search, turn by turn | `BlockPool` | `slab`, `slab_large` | `SlabAllocatorProofs` |
| `TcpAcceptor` | TCP and TLS acceptors | | `MCTcpAcceptor`: `tcp`, `tcp_null` | `TcpAcceptorProofs` |
| `UdpAcceptor` | UDP acceptor | | `MCUdpAcceptor`: `udp`, `udp_reload` | `UdpAcceptorProofs` |
| `Deployment` | a server with a pool, a TCP and a UDP acceptor; an instance of `HandlerPool` | | `MCDeployment`: `deployment` | `DeploymentProofs` |
| `EchoConnection` | raw client, streams, asynchronous connection, echo processor | `EchoService` | `echo` | `EchoConnectionProofs` |
| `SizedPackets` | writing side of the clients with a size | | `sized_packet` | |
| `StackBuffers` | operators on requests and responses, used by `EchoConnection` and `SizedPackets` | | | |

Correspondence with the code:

**Server.** One step is one turn of the loop over the applications, because each
turn runs foreign code and may throw. `StartNext` is `start_instance` inside
`start()`, with its three outcomes: registered, thrown before the object exists
or while it starts (`StartThrows`), or refused because the name was taken after
the object started. `reload()` is `ReloadStarts`/`ReloadKeeps` per entry,
`ReloadSweep`,
`StopNext` per object of the old table in any order (an `unordered_map`), and
`ReloadDone`, the swaps and `init_logger`. `stop()` of an application may throw
as well, and ends the loop (`StopThrows`); so may the logger to which the kept
records are handed over (`FlushThrows`): the records it took stay taken, and the
destructor of `delayed_logger`, which the exception reaches, writes all of them
once more. What an application looks up with
`app::get` while starting is the field `needs` of its entry. The server object
is unsynchronised, so calls are made one at a time. An object's `status` records
what has been called on it. History variables (`base`, `escaped`, `created`,
`delivered`, `replayed`) appear in properties only and in no guard.

**IoService.** Each thread is at the test of its loop (`Check`), in `run_one`
waiting, in a handler, or writing a line of the log; the owner is at one of the
lines of `reload` or `stop`. A configuration names a count of threads and a
logger. A line takes the pointer out of `log_` when it begins (`LineBegins`) and
uses it until it ends (`LineEnds`), while a reload may put another logger into
`log_`: `writes` is what each thread writes to, and the history variable
`replaced` the loggers that a reload took away under such a line.
asio is external: a queue, the sticky stopped flag, and the outstanding work
whose fall to zero sets that flag. The empty tasks of a shrink are queued like
others. `HandlerPool` is what the rest of the system may rely on: a posted
handler runs at most once, only between a start and the end of the stop that
follows, and none runs when that stop has returned.

**SlabAllocator.** `ScanUsed`, `ScanFree`, `Count*` are the turns of the two
loops, `Deallocate` the release. `std::size_t` arithmetic is modulo `SizeRange`;
a read outside the array yields either answer.

**TcpAcceptor.** `owner` is the line at which the owner's call is; every
assignment of a member in `this` is a step. A pool thread goes through
`on_accpet` in the steps of `at`: each reads a member, or the two that no
property tells apart, as it is then. A record of `connection` is one connection
object from its creation to its destruction, with the outcome of its accept; a
peer may have reset it, then `set_option` throws out of the handler. What one
start creates or looks up is named by its number, so that "stale" means a
smaller number, and 0 is a null pointer; dereferencing it sets `crashed` and the
model ends. `kind` chooses between the two classes.

**UdpAcceptor.** The same for UDP: `this` holds the members, `handler[o]` the
life of one handler object in `stage`, the socket and the strand it is bound to
and what it has read; a datagram has a size and a header, the size it says it has,
which is the sender's word and may be false. Handlers of one strand do not
overlap; those of the strands of two starts do. `allocating` and `completing`
are the moments inside the unprotected `allocator_`.

**Deployment.** What the modules above do inside one call of one application is
one step here; what is left is the order of the calls. `ConfigureOne` is a turn
of the loop of `start()` or of the first loop of `reload()`, `StopOne` one of the
loop that stops, in any order, as the table is an `unordered_map`; `Throws` is an
application that does not find the pool, or a UDP port still taken. A handler is
bound to what it will do (`accept`, `serve`, `peek`, `read`, `close`). Who is
alive is not a variable but follows from who holds a `shared_ptr` to whom: the
table, the threads, the connections and the set members hold the pool, handlers
hold their acceptor, and the pool holds the handlers it has not run. So a cycle
in which only pool and handlers hold each other is seen as a leak.

**EchoConnection.** The client is inside one call of `>>` or `close`; `Send` and
`Receive` are single turns of its loops and move any number of bytes that fits.
A byte is named by its origin (byte *i* of text *m*, or of the encoding of the
number *n*), so that bytes out of place are seen. A callback and the operation
that completes it are one step: nothing else touches an asynchronous connection
between the two. Either end may close; a close with unread bytes, or a write to
a closed peer, resets the connection, after which bytes may be lost. `EchoService`
is what the client may rely on, with none of this: it writes values, reads the
next of them back entire, gets one answer from a processor with `Close`, and
nothing once it has left.

## 3. What the runs check

| run | properties | bounds | size |
|---|---|---|---|
| `server` | `TypeOK`, `NoAliasing`, `RunningAccounted`, `SuccessMatchesConfig`, `DependenciesFirst`, `ReloadAllOrNothing`, `NoRecordLost`, refinement `RegistrySpec` | 3 names, 2 types, 2 binaries, 3 objects, 3 files | 257 000 states |
| `io_service` | `TypeOK`, `PoolProvisioned`, `QuiescentAfterStop`, `LoggerPresent`, `StopCompletes`, `TasksServed`, refinement `PoolSpec` | 3 thread objects, 1 or 2 required, 2 loggers, 1 handler, queue of 2 | 488 000 |
| `slab` | `TypeOK`, `WellFormed`, `AllocateReturns`, refinement `PoolSpec` | the 4 blocks and 255 of the code | small |
| `tcp` | `TypeOK`, `Listening`, `NothingStale`, `ServedOnce`, `ServedByOwn`, `ClientsAreAccepted`, `AcceptedAreServed` | 2 threads, 5 connections, 2 starts, 1 client, 1 error | 221 000 |
| `udp` | `TypeOK`, `ExclusiveUntilReload`, `ChainsBounded`, `ProcessedIntact`, `DatagramsAreRead` | 3 handlers, 2 endpoints, 2 starts, 2 datagrams of 1 or 2 bytes, one of them with a false header, 1 error | 487 000 |
| `deployment` | `TypeOK`, `StopReleasesAll`, `CrashesDuringCalls`, `ReleasedByOwner` | 4 handlers, 2 sockets, a start and 2 reloads | 1 240 000 |
| `echo` | `TypeOK`, `NothingLeftOver`, `RoundTripsEnd`, `ConnectionReleased`, refinement `EchoSpec` | 3 values, texts of 0 to 4 bytes, streams of 5 bytes, sizes of 2 | 29 000 |

Five more runs, `server_reload`, `slab_large`, `tcp_null`, `udp_reload` and
`sized_packet`, check one property each and find it violated: section 6.

Why the bounds are enough:

* `server`: the three files are chosen so that every branch is met. `full` has a
  logger and an application that needs it; `swap` drops a name, adds one and has
  a dependency that only a reload can satisfy; `twice` repeats a name, names a
  logger that is none, has a type nobody exports and comes from other binaries.
  One object is a logger and two are workers, so that a worker's name can be
  dropped and bound again to another object.
* `io_service`: two required threads and a third object are what a shrink
  followed by a grow needs to have a thread that leaves beside its successor. An
  excess thread, once dismissed, differs from another only by its index. Two
  loggers are the one in use and the one a reload puts in its place.
* `tcp`, `udp`: two starts are one reload; two threads are one handler of each
  start at once. A second reload adds no kind of pair. Connections suffice for
  all that two chains hold at a time; two UDP chains hold two handlers, and the
  third is the successor that one begins before it has returned. Endpoints
  are only compared, so `MCSpec` fixes that of the first start; and it leaves
  out reloads of a UDP acceptor that is stopped, which the theorems include.
  The datagrams are a short one, a long one, and a long one that claims to be
  short, for which a piece of the others is mistaken. An empty datagram, which
  the module and the theorems allow, is not among them.
* `deployment`: two reloads leave a name out in the first and have its handlers
  in flight in the second. Two handlers of the TCP acceptor, one of the UDP
  acceptor and the one that closes its socket are four. `Op` and `Socket` are
  interchangeable names, hence the symmetry; the run states no liveness.
* `echo`: a value longer than a part of a stream is cut at every place; three
  values re-use each buffer twice; an echo is as long as what the stream holds
  and as long as nothing.
* Sizes in `echo` are two bytes instead of four: the code nowhere depends on the
  number, and two can be cut.

`CHECK_DEADLOCK` is off where the program may rightly stop: the server process
exits, an acceptor is stopped for good or the bounds of the environment are
used up, a connection is closed. `slab` and `io_service` check deadlock.

## 4. Fairness

* `IoService`: weak fairness of the owner inside a call and of each thread:
  threads are scheduled, handlers return. Nobody has to post or to call.
* `SlabAllocator`: weak fairness of a turn of the loop, which is sequential code.
* `TcpAcceptor`: weak fairness of the owner inside a call, of each thread, and of
  the completion of an accept with a client in the backlog, which the kernel
  guarantees. A handler whose accept succeeded is moreover not passed over for
  ever by handlers that complete at once because the acceptor is closed (strong
  fairness of its `CreateNext`): asio's queue of completed handlers is first in,
  first out. The case is an `accept()` on the acceptor of a `stop()` that threw,
  which fails, is answered by another `accept()`, and so on. No client is
  obliged to connect or to finish a TLS handshake.
* `UdpAcceptor`: weak fairness of the owner inside a call, of each handler, which
  its strand lets in at some time, and of the completion of an operation on a
  socket that holds a datagram. Nobody is obliged to send.
* `EchoConnection`: weak fairness of a client inside a call, as far as its
  socket lets it, and of the operations and callbacks of the server. The user is
  never obliged to write, read or close.
* `Server` and `Deployment` state safety only.

`TasksServed` is stated for a pool that keeps its first thread, which is the one
no reload dismisses. `RoundTripsEnd` is stated for clients that keep what is
under way within one stream, the guard `Fits`; the code does not ask for that,
and without the guard TLC finds client and server both blocked in a write. The
clients of the tests write one value at a time and satisfy it.

## 5. What is proved

| module | theorems | assumptions |
|---|---|---|
| `ServerProofs` | `TypeCorrect`, `NamesDoNotAlias`, `NothingRunsUnseen`, `ServerRefinesRegistry` | the types of the constants: any names, types, objects and configurations |
| `ServerCallProofs` | `CallProgress`, `CallsDoWhatTheConfigurationSays`, `DependenciesPrecede`, `ReloadIsAllOrNothing`, `RecordsKept` | the same |
| `IoServiceProofs` | `CountInRange`, `TypeCorrect`, `PoolIsProvisioned`, `StopLeavesNothing`, `ThreadsHaveLogger`, `ImplementsHandlerPool` | counts are naturals; any set of threads and handlers |
| `SlabAllocatorProofs` | `TypeCorrect`, `MarksWellFormed`, `SlabRefinesPool` | `RequestsFit`: no request is larger than all the storages (section 6 shows why) |
| `TcpAcceptorProofs` | `TypeCorrect`, `KeepsListening`, `NothingIsStale`, `ClientsServedOnce`, `ServedByAProcessor` | at least one start; any threads and connections, any number of clients, errors and reloads |
| `UdpAcceptorProofs` | `TypeCorrect`, `ChainsAreBounded`, `AllocatorIsExclusive`, `DatagramsStayWhole` | at least one start; any handlers, endpoints and sizes, any number of datagrams, errors and reloads |
| `DeploymentProofs` | `TypeCorrect`, `StopReleases`, `CallsAreFollowedByNoCrash`, `OwnerReleasesPool` | `none` is no socket; any handlers and sockets, any number of reloads |
| `EchoConnectionProofs` | `BuffersInvariant`, `ConnectionTypes`, `NothingIsLeftOver`, `EchoInvariant`, `EchoComesBackIntact`, `EchoImplementsService` | sizes are positive naturals; any number of values, any capacity of the streams |

Each is proved from an inductive invariant, a conjunction of named parts in the
module of the component or at the head of its proofs: `IInv`, and where one more
is named below, that one on top of it. TLC found the properties to hold
on the instance of the component's run before they were proved.

* *Server.* `NoAliasing` alone is not inductive: a new object has to be fresh
  (`NamedWasCreated`), and while `reload()` builds its table each entry of the
  new one equals that of the old (`TablesAgree`), so that the swap keeps both
  properties. `RunningAccounted` needs that the loop that stops still has to
  visit every object that runs (`SweepReachesAll`), because the tables are
  cleared after it. The refinement maps the known objects to those whose status
  is not "new"; a turn of a loop is `Bind`, `Reject`, `Drop` or a stutter.
* *What a call of the server has done* is stated at its return, so the invariant,
  `CallInv`, says how far its loop has come (`LoopProgress`): the table in use
  is the one the call found plus the entries so far, with every binding it
  found, and each of those entries had found its `needs` there. The table that a
  reload builds holds the entries so far and nothing else (`LoopOfReload`); a
  start has met no name twice and none that was there before (`LoopOfStart`).
  The swap of the tables is the only moment at which a reload that throws may
  have changed a binding. `NoRecordLost` is inductive by the types alone: a step
  leaves the log, adds a record or hands over those that wait (`LogStep`), all of
  them once, or some of them and then all: `replayed` says how many came twice.
* *IoService.* `PoolProvisioned` speaks of idle moments; the invariant says
  what holds inside `reload`: the indexes below `Provided`, the counter of the
  loop, have their threads. No thread is lost because the service is not stopped
  outside `stop()` and because an excess thread is one whose index is at least
  `required`. The owner joins all threads before it resets `log_`, and a line
  that is under way writes to `log_` as it is, unless a reload has replaced it.
  `ImplementsHandlerPool` maps `work_` and the owner's line to the phase and the
  threads' handlers to those that run; it needs that a handler is in one place
  only (`HeldOnce`): a thread has one exactly while it runs it, and neither the
  queue nor another thread has it too.
* *SlabAllocator.* The invariant `Search` says that no start the outer loop has
  left behind has room, and that the run the inner loop counts is free. With
  `WellFormed` this gives both halves of `BlockPool`: what is handed out is
  inside and overlaps nothing, and the heap is asked only when no run would do.
* *TcpAcceptor.* `Listening` breaks without `OpenWhileUsed`: the accept that a
  handler starts keeps the chain going only if the `acceptor_` it reads is open,
  which holds whenever the owner is between calls. It also needs that handlers
  do not share connections (`HandlersApart`), so that one that ends takes no
  other's pending accept along. `NothingStale` needs that each start opens its
  acceptor after `stop()` has closed the one before. While a call of the owner
  is under way nothing is promised about listening; when a null member ends the
  process (section 6) `Listening` says nothing more. The last two theorems need
  `ServeInv`, which counts each client once, in a backlog or among the accepted,
  and says that the members never hold a processor older than a connection's.
* *UdpAcceptor.* `ChainsBounded` is not inductive: a start that is under way has
  been counted and has yet to begin its chain, so it is added to those in use
  (`ChainsCounted`). One chain is one user of `allocator_` besides a start, which
  gives `ExclusiveUntilReload`. `Sound` says of each handler what it may have
  read: a request of one datagram has its bytes, as many as fit, and one of
  several began with a datagram shorter than `available()`. If the header of the
  first is true, only the datagram that was as long as `available()` passes the
  comparison; `ProcessedIntact` follows. With a false header
  the comparison says nothing, and the property promises nothing. `MembersSet` says
  which members the owner has set at which line.
* *Deployment.* `SweepReaches` says that an acceptor whose members are set is
  registered or freed, and while a loop of stops runs is still ahead of it;
  `PoolReached` the same of a pool that serves. Hence, if neither the pool nor
  the UDP acceptor was freed, nothing but handlers of connections holds the pool
  when `stop()` has returned; a freed TCP acceptor is no exception, because each
  of its handlers has a connection (`TcpConnected`), which that antecedent
  excludes. And the stop of the pool, wherever in the loop it comes, ends every
  thread in which a handler could meet a stopped acceptor. Before that,
  `Served`: each handler in flight finds the members it will use.
  `ReleasedByOwner` holds because each
  thread keeps the pool until the join (`PoolStopsJoined`).
* *EchoConnection*, in two invariants. `BufferInv` ties the fill of each buffer to
  the operation under way: a request is extracted to its end when the client is
  idle, has exactly `need` bytes when they were received, and the server's is as
  long as what it reads. `NothingLeftOver` and the bounds of `TypeOK` follow.
  `EchoInv` says where each byte is. There are a sequence `W`, all that the client
  has written, and positions `off`, the ends of its values in it, such that the
  client's request, the stream to the client, the server's response or request,
  the stream to the server and the client's response hold consecutive parts of
  `W` (`Pipeline`). A loop over send or receive moves a boundary between two
  parts; a callback that echoes puts back the bytes it took; a write makes `W`
  longer. So the bytes an extraction takes stand in `W` where the next value
  stands, and they are that value (`WholeText`, `WholeSize`). `W` and `off` are
  bound by a quantifier and not computed from `wrote`: computing them would be
  a recursion over the values, which no step needs, as each step says how they
  change. `Pipeline` is promised while the client lives: when it is gone
  nothing is read any more, and a reset may drop bytes anywhere.
  For `EchoImplementsService` the end of a write maps to `Write`, the extraction
  of a number or a text to `Answer`, `Fail` and `Closed` to `Leave`, every other
  step to a stutter. That a processor with `Close` answers once needs a bound on
  what has come back (`OneAnswer`): its only answer ends at the end of the first
  value, and the extraction of a second would need a byte behind that.
  `EchoComesBackIntact` says of the states what the refinement says of the steps.

Only model-checked: all liveness properties (`RoundTripsEnd`,
`ConnectionReleased`, `StopCompletes`, `TasksServed`, `AllocateReturns`,
`ClientsAreAccepted`, `AcceptedAreServed`, `DatagramsAreRead`), which rest on
fairness and so are beyond the prover. The violations of section 6 are TLC's.

## 6. Disagreements found

| run | where | what |
|---|---|---|
| `server_reload` | `src/core/server.cpp:336` | the loop that should stop the applications a reload drops runs over a table that holds the kept and the new ones too: after a successful reload everything registered is stopped |
| `slab_large` | `include/cppalls/core/slab_allocator.hpp:46` | `storages_count_ - blocks_required` wraps for a request larger than the storages; the search leaves the array instead of delegating to the heap |
| `tcp_null` | `src/apps/boost_tcp/tcp.cpp:73` | a handler whose accept completed before `stop()` or `reload()` closed the acceptor calls `accept()` on members that are null by then |
| `udp_reload` | `src/apps/boost_tcp/udp.cpp:254` | a reload starts a second chain of accepts while the first is pending: `allocator_`, which has no mutex because "only single acceptor thread exists", has two users |
| `sized_packet` | `src/core/stack_response.cpp:13` | `put_data` inserts at `size` instead of `pos`: the size that `write_with_size` puts in front of a packet lands behind its first four bytes |

The properties of the passing runs are stated so that they hold beside these:
`ExclusiveUntilReload` is the promise of the allocator up to the first reload,
`NothingStale` and `Listening` hold as long as the process has not crashed,
`CrashesDuringCalls` bounds the null members of `tcp_null` to the calls that
reset them, to a reload that threw half-way and to a pool that was freed,
`StopReleasesAll` names who is left alive (a freed pool by its own threads, a
freed UDP acceptor by its peek, and whatever handlers of connections hold),
`LoggerPresent` excepts a logger that a reload replaced under a line,
`PoolProvisioned` excepts the indexes whose thread could not be created,
`NoRecordLost` says which records come twice when the hand-over throws,
`ReloadAllOrNothing` what a failed reload adds to the old table,
`ProcessedIntact` promises nothing of a datagram whose header is false,
`ChainsBounded` leaves each reload one more chain,
`RunningAccounted` says that what runs is accounted for, not that all runs.

## 7. Abstractions worth knowing

* YAML, plugin loading and symbol lookup are outcomes: success, or an exception
  at the place where the code can throw.
* `app::get` by a handler while the server changes its table, and the reset of
  `shared_ptr` members that another thread copies, are data races. The models of
  the acceptors let the reader see the old or the new value, not a torn one.
* TLS adds the handshake and its own context; its record layer is a byte stream.
  The end of a TLS connection, which waits in a pool thread for the peer's
  `close_notify` (`tcp_ssl.cpp:84-92`, `sync_connection.ipp:173-176`), is the
  same immediate close as that of a TCP connection.
* `close()` of an acceptor closes it and may throw all the same (`tcp.cpp:141`):
  then the call ends there, with the members as they were.
* A stopped or failed acceptor can be reloaded, as `server::reload` does after
  its own loop of stops. The TLC instance of `UdpAcceptor` leaves out the
  reloads of a stopped one, see section 3; the proofs do not.
* Byte order is left out: writer and reader both convert to little-endian.
* A client gives a connection up after an exception, as the tests do.
* In `Deployment` a name that was dropped does not come back, nothing follows
  `server::stop()`, there is one UDP port, which every start of the UDP acceptor
  asks for (`UdpAcceptor` has several), and the pool's change of its number of
  threads is left to
  `IoService`. A connection that is being served may go on for ever, which is why
  `StopReleasesAll` excepts those that are queued or in progress at the stop.

## 8. Not modelled

* `boost_logger` and `boost_logger_core`: pass-throughs to Boost.Log.
* `to_std_error_code`: a stateless conversion. The API interfaces, exceptions,
  forward declarations and `stack_pimpl`: no behaviour over time.
* `read_with_size` of the clients with a size: nothing in the repository answers
  them (the UDP acceptor never writes its response).
* `bool`, `char`, floating point and vector overloads of the operators.
* The hazards of `PROJECT.json` without properties, each with its reason.

## 9. Plan

Done: `Server` with `AppRegistry`, `IoService` with `HandlerPool`,
`SlabAllocator` with `BlockPool`, `TcpAcceptor`, `UdpAcceptor`, `Deployment`,
`StackBuffers`, `EchoConnection` with `EchoService`, `SizedPackets`; theorems for all safety
invariants of the passing runs and for the four refinements.

Next, in this order:

1. `HandlerPool` as the pool of `TcpAcceptor` and `UdpAcceptor` too, with threads
   that end while their handlers are queued.
2. A client that goes on after an exception, and `read_with_size` with a peer
   that answers.
