------------------------------- MODULE Server -------------------------------
(***************************************************************************)
(* server_impl_t of src/src/core/server.cpp: the table of named            *)
(* applications, the table of the binaries that implement their types, and *)
(* the server's own logger, as start(), reload(), stop(), app::construct(),*)
(* app::free() and the exit of the process change them.  The object is not *)
(* synchronised, so one thread runs one call at a time; within a call, one *)
(* step handles one application, because each of them runs code of its own *)
(* and may throw.  An std::unordered_map is a total function with `none'   *)
(* for the keys it does not hold.                                          *)
(***************************************************************************)
EXTENDS Naturals, Sequences, FiniteSets

CONSTANTS
  Name,           \* instance names
  Type,           \* application types, the aliases a plugin exports
  Binary,         \* plugin files
  Object,         \* application objects
  TypeOf,         \* the type each object is constructed by
  LoggerType,     \* the type whose objects are loggers
  Path,           \* paths of configuration files
  File,           \* what each of them says once its dependent files are read
  Node,           \* the entries given to app::construct()
  none,           \* absence
  delayed_logger, \* the logger that keeps records until another one is known
  cpp_logger      \* the logger made when the configuration names none

(* An entry of the `applications' section; `needs' are the names that      *)
(* the application looks up with app::get() while it starts.               *)
AppNode == [name : Name, type : Type, needs : SUBSET Name]

ASSUME ConfigAssumption ==
  File \in [Path -> [apps : Seq(AppNode),
                     bins : [Type -> Binary \cup {none}],
                     logger : Name \cup {none}]]

ASSUME NodeAssumption == Node \subseteq AppNode

ASSUME TypeAssumption == TypeOf \in [Object -> Type] /\ LoggerType \in Type

ASSUME NoneAssumption ==
  /\ none \notin Object \cup Binary \cup Name \cup Path
  /\ {delayed_logger, cpp_logger} \cap Object = {}
  /\ delayed_logger # cpp_logger

VARIABLES
  instances_,     \* the application each name denotes
  app_to_path_,   \* the binary each type is loaded from
  config_path_,   \* the configuration file last given
  log_,           \* the server's logger
  records,        \* what delayed_logger holds: the objects whose start it noted
  status,         \* "new", "running", "stopped" or "dead": its start threw
  pc,             \* "idle", "apps": in the loop over the entries,
                  \* "sweep": in the loop that stops, "gone": process ended
  call,           \* the call that runs, or the start() or reload() just made
  result,         \* how that start() or reload() ended
  i,              \* the entry the loop is at
  new_instances,  \* reload(): the table under construction
  to_stop,        \* the objects the stopping loop has yet to visit
  base,           \* history: instances_ when start() or reload() began
  escaped,        \* history: objects that ran and are not, or no longer, named
  created,        \* history: the objects whose start was logged, in order
  delivered,      \* history: the records that reached a real logger
  replayed        \* history: how many of them a failed hand-over repeated

table == <<instances_, app_to_path_>>
logging == <<log_, records, created, delivered, replayed>>
loop == <<i, new_instances, to_stop>>
vars == <<table, config_path_, logging, status, pc, call, result, loop,
          base, escaped>>

Empty == [n \in Name |-> none]
Bound(m) == {n \in Name : m[n] # none}
(* A faulty variant: a loop that also visits the empty slots. *)
ObjectsAndHoles(m) == {m[n] : n \in Name}
Objects(m) == {m[n] : n \in Bound(m)}
Config == File[config_path_]
Apps == Config.apps

Init ==
  /\ instances_ = Empty /\ app_to_path_ = [t \in Type |-> none]
  /\ config_path_ = none
  /\ log_ = delayed_logger /\ records = << >>
  /\ status = [o \in Object |-> "new"]
  /\ pc = "idle" /\ call = "none" /\ result = "none"
  /\ i = 1 /\ new_instances = Empty /\ to_stop = {}
  /\ base = Empty /\ escaped = {}
  /\ created = << >> /\ delivered = << >> /\ replayed = 0

(* A call returns or throws; the variables of its loop die with it. *)
Finish(how) ==
  /\ pc' = "idle" /\ result' = how
  /\ i' = 1 /\ new_instances' = Empty /\ to_stop' = {}

-----------------------------------------------------------------------------
(* api::logger::log of the line that announces the start of an object. *)
Log(o) ==
  /\ created' = Append(created, o)
  /\ IF log_ = delayed_logger
       THEN records' = Append(records, o) /\ UNCHANGED delivered
       ELSE delivered' = Append(delivered, o) /\ UNCHANGED records
  /\ UNCHANGED <<log_, replayed>>

(* A faulty variant: the constructor hands out an object made before. *)
LaunchShared(node, paths, o) ==
  paths[node.type] # none /\ TypeOf[o] = node.type /\ Log(o)

(* start_instance up to the call of application::start. *)
Launch(node, paths, o) ==
  /\ paths[node.type] # none
  /\ status[o] = "new" /\ TypeOf[o] = node.type
  /\ Log(o)

(* A faulty variant: an application that runs without what it looked up. *)
StartedAnyway(node, paths, o) ==
  Launch(node, paths, o) /\ status' = [status EXCEPT ![o] = "running"]

(* start_instance returns from application::start: what it looks up with   *)
(* app::get() was there.                                                   *)
Started(node, paths, o) ==
  /\ Launch(node, paths, o)
  /\ node.needs \subseteq Bound(instances_)
  /\ status' = [status EXCEPT ![o] = "running"]

(* start_instance throws before there is a running object: the entry has   *)
(* no type, no binary exports it, or the binary cannot be loaded, and then *)
(* there is no object at all; or application::start throws.                *)
StartThrows(node, paths) ==
  \/ UNCHANGED <<status, logging>>
  \/ \E o \in Object :
       Launch(node, paths, o) /\ status' = [status EXCEPT ![o] = "dead"]

(* start_instance finds the name taken only after application::start: the  *)
(* object is released without being stopped.                               *)
NameTaken(node, paths) ==
  /\ instances_[node.name] # none
  /\ \E o \in Object : Started(node, paths, o) /\ escaped' = escaped \cup {o}

(* init_logger: `m' is the table app::get() looks the logger up in. *)
LoggerFound(m) ==
  Config.logger # none =>
    /\ m[Config.logger] # none
    /\ TypeOf[m[Config.logger]] = LoggerType

(* A faulty variant: the records are not cleared. *)
FlushAgain ==
  /\ delivered' = IF log_ = delayed_logger THEN delivered \o records ELSE delivered
  /\ UNCHANGED <<records, replayed>>

(* delayed_logger::reset hands its records over in their order. *)
Flush ==
  /\ IF log_ = delayed_logger
       THEN delivered' = delivered \o records /\ records' = << >>
       ELSE UNCHANGED <<records, delivered>>
  /\ UNCHANGED replayed

(* The new logger throws after it took k of the records.  None was cleared *)
(* and log_ is replaced, so the delayed_logger dies as init_logger unwinds *)
(* and its destructor writes them all through a cpp_logger.                *)
FlushThrows ==
  /\ log_ = delayed_logger /\ Config.logger # none /\ records # << >>
  /\ \E k \in 0..Len(records) :
       /\ delivered' = delivered \o SubSeq(records, 1, k) \o records
       /\ replayed' = k
  /\ records' = << >>

init_logger(m) ==
  \/ /\ LoggerFound(m)
     /\ log_' = IF Config.logger = none THEN cpp_logger ELSE m[Config.logger]
     /\ UNCHANGED created
     /\ \/ Flush /\ Finish("ok")
        \/ FlushThrows /\ Finish("throw")
  \/ /\ ~LoggerFound(m)
     /\ UNCHANGED logging /\ Finish("throw")

-----------------------------------------------------------------------------
(* fill_apps_to_path adds the types that the binaries in `seen' export;    *)
(* emplace() keeps the entries that are there.                             *)
Emplace(old, bins, seen) ==
  [t \in Type |-> IF old[t] = none /\ bins[t] \in seen THEN bins[t] ELSE old[t]]

Begin(name) ==
  /\ pc = "idle"
  /\ call' = name
  /\ base' = IF name \in {"start", "reload"} THEN instances_ ELSE Empty
  /\ UNCHANGED <<status, escaped>>

(* server::start up to the loop over the applications. *)
Start(p) ==
  /\ Begin("start")
  /\ config_path_' = p
  /\ app_to_path_' = Emplace(app_to_path_, File[p].bins, Binary)
  /\ pc' = "apps" /\ result' = "none"
  /\ UNCHANGED <<instances_, logging, loop>>

(* read_config throws, or fill_apps_to_path does after some binaries. *)
StartFails(p) ==
  /\ Begin("start")
  /\ config_path_' = p
  /\ \E seen \in SUBSET Binary :
       app_to_path_' = Emplace(app_to_path_, File[p].bins, seen)
  /\ Finish("throw")
  /\ UNCHANGED <<instances_, logging>>

(* One turn of the loop of start(). *)
StartNext ==
  /\ pc = "apps" /\ call = "start" /\ i <= Len(Apps)
  /\ \/ /\ instances_[Apps[i].name] = none
        /\ \E o \in Object :
             /\ Started(Apps[i], app_to_path_, o)
             /\ instances_' = [instances_ EXCEPT ![Apps[i].name] = o]
        /\ i' = i + 1
        /\ UNCHANGED <<pc, result, new_instances, to_stop, escaped>>
     \/ /\ NameTaken(Apps[i], app_to_path_)
        /\ Finish("throw") /\ UNCHANGED instances_
     \/ /\ StartThrows(Apps[i], app_to_path_)
        /\ Finish("throw") /\ UNCHANGED <<instances_, escaped>>
  /\ UNCHANGED <<app_to_path_, config_path_, call, base>>

(* The loop of start() is over. *)
StartDone ==
  /\ pc = "apps" /\ call = "start" /\ i > Len(Apps)
  /\ init_logger(instances_)
  /\ UNCHANGED <<table, config_path_, status, call, base, escaped>>
-----------------------------------------------------------------------------
(* reload() of a path, or of config_path_ again, refuses: the file cannot  *)
(* be read or the binaries are not those the running server uses.          *)
SameBinaries(p) ==
  app_to_path_ = [t \in Type |-> none] \/ app_to_path_ = File[p].bins

ReloadFails(p) ==
  /\ Begin("reload")
  /\ config_path_' = p
  /\ Finish("throw")
  /\ UNCHANGED <<table, logging>>

(* A faulty variant: the old table is taken away before the new one is made. *)
ReloadFromNothing(p) ==
  /\ p # none /\ SameBinaries(p)
  /\ Begin("reload")
  /\ config_path_' = p /\ instances_' = Empty
  /\ pc' = "apps" /\ result' = "none"
  /\ UNCHANGED <<app_to_path_, logging, loop>>

Reload(p) ==
  /\ p # none /\ SameBinaries(p)
  /\ Begin("reload")
  /\ config_path_' = p
  /\ pc' = "apps" /\ result' = "none"
  /\ UNCHANGED <<table, logging, loop>>

(* One turn of the loop of reload() for a name that is not registered: the *)
(* object enters both tables, the old one so that the entries that follow  *)
(* find it.                                                                *)
ReloadStarts ==
  /\ pc = "apps" /\ call = "reload" /\ i <= Len(Apps)
  /\ instances_[Apps[i].name] = none
  /\ \/ /\ \E o \in Object :
             /\ Started(Apps[i], Config.bins, o)
             /\ instances_' = [instances_ EXCEPT ![Apps[i].name] = o]
             /\ new_instances' = [new_instances EXCEPT ![Apps[i].name] = o]
        /\ i' = i + 1
        /\ UNCHANGED <<pc, result, to_stop>>
     \/ /\ StartThrows(Apps[i], Config.bins)
        /\ Finish("throw") /\ UNCHANGED instances_
  /\ UNCHANGED <<app_to_path_, config_path_, call, base, escaped>>

(* A faulty variant: the entry of a registered name starts another object, *)
(* which takes the name at once.                                           *)
ReloadKeepsReplacing ==
  /\ pc = "apps" /\ call = "reload" /\ i <= Len(Apps)
  /\ instances_[Apps[i].name] # none
  /\ \E o \in Object :
       /\ Started(Apps[i], Config.bins, o)
       /\ instances_' = [instances_ EXCEPT ![Apps[i].name] = o]
       /\ new_instances' = [new_instances EXCEPT ![Apps[i].name] = o]
  /\ i' = i + 1
  /\ UNCHANGED <<app_to_path_, config_path_, pc, call, result, to_stop, base, escaped>>

(* One turn of the loop of reload() for a name that is registered: its     *)
(* object is kept, whatever the type in the entry, and told to reload.  If *)
(* application::reload throws it did so before or after its stop().        *)
ReloadKeeps ==
  /\ pc = "apps" /\ call = "reload" /\ i <= Len(Apps)
  /\ LET n == Apps[i].name
         o == instances_[n]
     IN /\ o # none
        /\ \/ /\ Apps[i].needs \subseteq Bound(instances_)
              /\ status' = [status EXCEPT ![o] = "running"]
              /\ new_instances' = [new_instances EXCEPT ![n] = o]
              /\ i' = i + 1
              /\ UNCHANGED <<pc, result, to_stop>>
           \/ /\ \E s \in {status[o], "stopped"} :
                   status' = [status EXCEPT ![o] = s]
              /\ Finish("throw")
  /\ UNCHANGED <<table, config_path_, logging, call, base, escaped>>

(* A faulty variant: only what the new table holds is stopped. *)
ReloadSweepKept ==
  /\ pc = "apps" /\ call = "reload" /\ i > Len(Apps)
  /\ pc' = "sweep" /\ to_stop' = Objects(new_instances)
  /\ UNCHANGED <<table, config_path_, logging, status, call, result, i,
                 new_instances, base, escaped>>

(* The loop of reload() is over: every object of the old table will be     *)
(* stopped, the ones that stay included.                                   *)
ReloadSweep ==
  /\ pc = "apps" /\ call = "reload" /\ i > Len(Apps)
  /\ pc' = "sweep" /\ to_stop' = Objects(instances_)
  /\ UNCHANGED <<table, config_path_, logging, status, call, result, i,
                 new_instances, base, escaped>>

(* A faulty variant: the tables of the instances are not swapped. *)
ReloadDoneUnswapped ==
  /\ pc = "sweep" /\ call = "reload" /\ to_stop = {}
  /\ app_to_path_' = Config.bins
  /\ init_logger(new_instances)
  /\ UNCHANGED <<instances_, config_path_, status, call, base, escaped>>

(* The swap at the end of reload(); init_logger may still throw. *)
ReloadDone ==
  /\ pc = "sweep" /\ call = "reload" /\ to_stop = {}
  /\ instances_' = new_instances /\ app_to_path_' = Config.bins
  /\ init_logger(new_instances)
  /\ UNCHANGED <<config_path_, status, call, base, escaped>>

-----------------------------------------------------------------------------
(* server::stop(), and the destructor of the server, which calls it. *)
StopSweep(name) ==
  /\ Begin(name)
  /\ pc' = "sweep" /\ result' = "none" /\ to_stop' = Objects(instances_)
  /\ UNCHANGED <<table, config_path_, logging, i, new_instances>>

(* One turn of a loop that stops; the order is the hash table's. *)
StopNext ==
  /\ pc = "sweep"
  /\ \E o \in to_stop :
       /\ status' = [status EXCEPT ![o] = "stopped"]
       /\ to_stop' = to_stop \ {o}
  /\ UNCHANGED <<table, config_path_, logging, pc, call, result, i,
                 new_instances, base, escaped>>

(* application::stop() throws, before or after it stopped what it runs:    *)
(* the loop is left and the tables stay as they are.  Out of the server's  *)
(* destructor the exception ends the process.                              *)
StopThrows ==
  /\ pc = "sweep"
  /\ \E o \in to_stop : \E s \in {status[o], "stopped"} :
       status' = [status EXCEPT ![o] = s]
  /\ \/ call = "stop" /\ call' = "none" /\ Finish("none")
     \/ call = "reload" /\ Finish("throw") /\ UNCHANGED call
     \/ /\ call = "exit" /\ pc' = "gone" /\ result' = "throw"
        /\ UNCHANGED <<call, loop>>
  /\ UNCHANGED <<table, config_path_, logging, base, escaped>>

(* instances_.clear() and app_to_path_.clear(). *)
StopDone ==
  /\ pc = "sweep" /\ call = "stop" /\ to_stop = {}
  /\ instances_' = Empty /\ app_to_path_' = [t \in Type |-> none]
  /\ call' = "none" /\ Finish("none")
  /\ UNCHANGED <<config_path_, logging, status, base, escaped>>

(* The same in the destructor; then log_ dies, and a delayed_logger writes *)
(* what it still holds through a cpp_logger.                               *)
ExitDone ==
  /\ pc = "sweep" /\ call = "exit" /\ to_stop = {}
  /\ instances_' = Empty /\ app_to_path_' = [t \in Type |-> none]
  /\ Flush /\ UNCHANGED <<log_, created>>
  /\ pc' = "gone"
  /\ UNCHANGED <<config_path_, status, call, result, loop, base, escaped>>

-----------------------------------------------------------------------------
(* app::construct() *)
Construct(node) ==
  /\ pc = "idle"
  /\ call' = "none" /\ base' = Empty
  /\ \/ /\ instances_[node.name] = none
        /\ \E o \in Object :
             /\ Started(node, app_to_path_, o)
             /\ instances_' = [instances_ EXCEPT ![node.name] = o]
        /\ UNCHANGED escaped
     \/ NameTaken(node, app_to_path_) /\ UNCHANGED instances_
     \/ StartThrows(node, app_to_path_) /\ UNCHANGED <<instances_, escaped>>
  /\ Finish("none")
  /\ UNCHANGED <<app_to_path_, config_path_>>

(* app::free(): the table forgets the object and nobody stops it. *)
Free(n) ==
  /\ pc = "idle"
  /\ call' = "none" /\ base' = Empty
  /\ instances_' = [instances_ EXCEPT ![n] = none]
  /\ escaped' = escaped \cup ({instances_[n]} \cap Object)
  /\ Finish("none")
  /\ UNCHANGED <<app_to_path_, config_path_, logging, status>>

Next ==
  \/ \E p \in Path : Start(p) \/ StartFails(p)
  \/ StartNext \/ StartDone
  \/ \E p \in Path \cup {config_path_} : Reload(p) \/ ReloadFails(p)
  \/ ReloadStarts \/ ReloadKeeps \/ ReloadSweep \/ ReloadDone
  \/ \E name \in {"stop", "exit"} : StopSweep(name)
  \/ StopNext \/ StopThrows \/ StopDone \/ ExitDone
  \/ \E node \in Node : Construct(node)
  \/ \E n \in Name : Free(n)

Spec == Init /\ [][Next]_vars

-----------------------------------------------------------------------------
(* Each variable holds what its declaration in the code says, and the      *)
(* bookkeeping of a call in progress is in range.                          *)
TypeOK ==
  /\ instances_ \in [Name -> Object \cup {none}]
  /\ app_to_path_ \in [Type -> Binary \cup {none}]
  /\ config_path_ \in Path \cup {none}
  /\ log_ \in Object \cup {delayed_logger, cpp_logger}
  /\ records \in Seq(Object) /\ created \in Seq(Object)
  /\ delivered \in Seq(Object) /\ replayed \in Nat
  /\ status \in [Object -> {"new", "running", "stopped", "dead"}]
  /\ pc \in {"idle", "apps", "sweep", "gone"}
  /\ call \in {"none", "start", "reload", "stop", "exit"}
  /\ result \in {"none", "ok", "throw"}
  /\ i \in Nat \ {0}
  /\ new_instances \in [Name -> Object \cup {none}]
  /\ to_stop \in SUBSET Object
  /\ base \in [Name -> Object \cup {none}]
  /\ escaped \in SUBSET Object

(* No two names denote one application, in the table in use and in the one *)
(* that reload() is building.                                              *)
NoAliasing ==
  \A m \in {instances_, new_instances} : \A n1, n2 \in Bound(m) :
    m[n1] = m[n2] => n1 = n2

(* Whatever fails, in whatever order, an application that runs is either   *)
(* still registered, where stop() will find it, or one of the two kinds    *)
(* the code lets go: freed by its user, or started under a taken name.     *)
RunningAccounted ==
  \A o \in Object : status[o] = "running" => o \in Objects(instances_) \cup escaped

Listed == {Apps[k].name : k \in 1..Len(Apps)}
Returned(name) == pc = "idle" /\ call = name /\ result = "ok"

(* A start() that returns has added exactly the listed names to the table; *)
(* a reload() that returns has made them the whole table, and kept the     *)
(* objects of the names that were there.                                   *)
SuccessMatchesConfig ==
  /\ Returned("start") => /\ Bound(instances_) = Bound(base) \cup Listed
                          /\ Bound(base) \cap Listed = {}
                          /\ Cardinality(Listed) = Len(Apps)
  /\ Returned("reload") => Bound(instances_) = Listed
  /\ Returned("start") \/ Returned("reload") =>
       \A n \in Bound(instances_) \cap Bound(base) : instances_[n] = base[n]

(* A start() or a reload() that returns had every application find, when   *)
(* its turn came, the ones it needs: registered before the call or listed  *)
(* earlier.                                                                *)
DependenciesFirst ==
  Returned("start") \/ Returned("reload") =>
    \A k \in 1..Len(Apps) :
      Apps[k].needs \subseteq Bound(base) \cup {Apps[j].name : j \in 1..(k - 1)}

ListedBefore(k) == {Apps[j].name : j \in 1..(k - 1)}

(* A reload() that throws has switched to the new table, entirely, or has  *)
(* unbound nothing and stays with the old one.  The old one is then not    *)
(* what it was: each new name listed before the entry that failed has been *)
(* added to it, and no other.  In both, a name that stays keeps its object.*)
ReloadAllOrNothing ==
  pc = "idle" /\ call = "reload" /\ result = "throw" =>
    /\ \A n \in Bound(instances_) \cap Bound(base) : instances_[n] = base[n]
    /\ \/ instances_ = base
       \/ \E k \in 1..(Len(Apps) + 1) :
            Bound(instances_) = Bound(base) \cup ListedBefore(k)
       \/ Bound(instances_) = Listed

(* Across the changes of logger no record of a start is lost or overtaken. *)
(* Records come twice only when a hand-over to the configured logger threw:*)
(* then those it had taken are followed by all of them from the beginning. *)
(* None waits once a logger is known or the server was destroyed, unless   *)
(* an application's stop() ended the process.                              *)
NoRecordLost ==
  /\ delivered \o records = SubSeq(created, 1, replayed) \o created
  /\ log_ # delayed_logger => records = << >>
  /\ pc = "gone" /\ result # "throw" => records = << >>

(* What the theorems of ServerProofs.tla rest on.  The two tables agree    *)
(* while reload() builds the second; a named object was created; the loop  *)
(* that stops will reach all that run; the configuration in use exists.    *)
NamedWasCreated ==
  \A o \in Objects(instances_) \cup to_stop : status[o] # "new"

TablesAgree ==
  /\ \A n \in Name : new_instances[n] \in {none, instances_[n]}
  /\ call # "reload" \/ pc = "idle" => new_instances = Empty

SweepReachesAll ==
  pc = "sweep" =>
    \A o \in Objects(instances_) : status[o] = "running" => o \in to_stop

ConfigKnown ==
  pc = "apps" \/ (call = "reload" /\ pc # "idle") => config_path_ \in Path

(* What RecordsKept rests on: a delayed_logger that is in use has handed    *)
(* nothing over, and no more records were repeated than made.              *)
DelayedHasAll ==
  /\ log_ = delayed_logger /\ pc # "gone" => delivered = << >> /\ replayed = 0
  /\ replayed <= Len(created)

IInv ==
  /\ TypeOK /\ NoAliasing /\ RunningAccounted
  /\ NamedWasCreated /\ TablesAgree /\ SweepReachesAll /\ ConfigKnown

(* What the theorems of ServerCallProofs.tla rest on: how far the loop of   *)
(* start() or reload() has come.  The table in use is the one the call     *)
(* found plus the entries so far, the other table holds only those, and    *)
(* each entry had found what it needs; start() met no name twice.          *)
InLoop == pc = "apps" \/ (pc = "sweep" /\ call = "reload")

LoopProgress ==
  InLoop =>
    /\ i <= Len(Apps) + 1 /\ (pc = "sweep" => i > Len(Apps))
    /\ Bound(instances_) = Bound(base) \cup ListedBefore(i)
    /\ \A n \in Bound(base) : instances_[n] = base[n]
    /\ \A k \in 1..(i - 1) : Apps[k].needs \subseteq Bound(base) \cup ListedBefore(k)

LoopOfStart ==
  pc = "apps" /\ call = "start" =>
    /\ Bound(base) \cap ListedBefore(i) = {}
    /\ \A j, k \in 1..(i - 1) : Apps[j].name = Apps[k].name => j = k

LoopOfReload ==
  InLoop /\ call = "reload" => Bound(new_instances) = ListedBefore(i)

LoopReset == pc = "idle" => i = 1

CallInv ==
  /\ LoopProgress /\ LoopOfStart /\ LoopOfReload /\ LoopReset
  /\ SuccessMatchesConfig /\ DependenciesFirst /\ ReloadAllOrNothing

(* What a reload leaves registered is running: violated, see the README. *)
ReloadLeavesRunning ==
  Returned("reload") => \A o \in Objects(instances_) : status[o] = "running"

(* The table implements the promise of AppRegistry. *)
Registry == INSTANCE AppRegistry
  WITH registry <- instances_, known <- {o \in Object : status[o] # "new"}
RegistrySpec == Registry!Spec
=============================================================================
