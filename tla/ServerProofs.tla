---------------------------- MODULE ServerProofs ----------------------------
(***************************************************************************)
(* For every set of names, types and objects and every configuration: the  *)
(* invariants of Server.tla hold, and the table of applications implements *)
(* AppRegistry.  All follow from IInv, which is inductive.                 *)
(***************************************************************************)
EXTENDS Server, SequenceTheorems, TLAPS

(* Each entry of the configuration in use is an AppNode, so the loops over *)
(* the entries name instances, types and needs that exist.                 *)
LEMMA EntryType ==
  ASSUME IInv, pc = "apps", i <= Len(Apps)
  PROVE  Apps[i] \in AppNode /\ config_path_ \in Path
<1>1. config_path_ \in Path
  BY DEF IInv, ConfigKnown
<1>2. Apps \in Seq(AppNode)
  BY <1>1, ConfigAssumption DEF Apps, Config
<1>3. i \in 1..Len(Apps)
  BY <1>2 DEF IInv, TypeOK
<1>4. QED
  BY <1>1, <1>2, <1>3

(* The three sequences of the log keep their types under Log... *)
LEMMA LogType ==
  ASSUME TypeOK, NEW o \in Object, Log(o)
  PROVE  /\ records' \in Seq(Object) /\ created' \in Seq(Object)
         /\ delivered' \in Seq(Object) /\ replayed' \in Nat
         /\ log_' = log_
<1>1. /\ Append(records, o) \in Seq(Object)
      /\ Append(created, o) \in Seq(Object)
      /\ Append(delivered, o) \in Seq(Object)
  BY DEF TypeOK
<1>2. QED
  BY <1>1 DEF Log, TypeOK

(* ... and when they are handed over, whether or not that throws. *)
LEMMA FlushType ==
  ASSUME TypeOK, Flush \/ FlushThrows
  PROVE  /\ records' \in Seq(Object) /\ delivered' \in Seq(Object)
         /\ replayed' \in Nat
<1>1. delivered \o records \in Seq(Object) /\ << >> \in Seq(Object)
  BY ConcatProperties DEF TypeOK
<1>2. CASE Flush
  BY <1>1, <1>2 DEF Flush, TypeOK
<1>3. CASE FlushThrows
  <2>1. PICK k \in 0..Len(records) :
          /\ delivered' = delivered \o SubSeq(records, 1, k) \o records
          /\ replayed' = k
    BY <1>3 DEF FlushThrows
  <2>2. SubSeq(records, 1, k) \in Seq(Object)
    BY SubSeqProperties, LenProperties DEF TypeOK
  <2>3. delivered \o SubSeq(records, 1, k) \in Seq(Object)
    BY <2>2, ConcatProperties DEF TypeOK
  <2>4. (delivered \o SubSeq(records, 1, k)) \o records \in Seq(Object)
    BY <2>3, ConcatProperties DEF TypeOK
  <2>5. QED
    BY <1>1, <1>3, <2>1, <2>4 DEF FlushThrows
<1>4. QED
  BY <1>2, <1>3

(* init_logger leaves every variable of the log, and what Finish sets, in  *)
(* its type, whatever table the logger is looked up in.                    *)
LEMMA InitLoggerType ==
  ASSUME TypeOK, config_path_ \in Path, NEW m \in [Name -> Object \cup {none}],
         init_logger(m)
  PROVE  /\ log_' \in Object \cup {delayed_logger, cpp_logger}
         /\ records' \in Seq(Object) /\ created' \in Seq(Object)
         /\ delivered' \in Seq(Object) /\ replayed' \in Nat
         /\ pc' = "idle" /\ result' \in {"ok", "throw"}
         /\ i' = 1 /\ new_instances' = Empty /\ to_stop' = {}
<1>1. Config.logger \in Name \cup {none}
  BY ConfigAssumption DEF Config
<1>2. CASE /\ LoggerFound(m)
           /\ log_' = IF Config.logger = none THEN cpp_logger ELSE m[Config.logger]
           /\ UNCHANGED created
           /\ \/ Flush /\ Finish("ok")
              \/ FlushThrows /\ Finish("throw")
  <2>1. log_' \in Object \cup {delayed_logger, cpp_logger}
    BY <1>1, <1>2 DEF LoggerFound
  <2>2. /\ records' \in Seq(Object) /\ delivered' \in Seq(Object)
        /\ replayed' \in Nat
    BY <1>2, FlushType
  <2>3. QED
    BY <1>2, <2>1, <2>2 DEF Finish, TypeOK
<1>3. CASE UNCHANGED logging /\ Finish("throw")
  BY <1>3 DEF logging, Finish, TypeOK
<1>4. QED
  BY <1>2, <1>3 DEF init_logger

(* What a start of an instance does to the objects, however it ends: it    *)
(* makes running or dead one that was new, and touches no other.           *)
LEMMA LaunchType ==
  ASSUME TypeOK, NEW node \in AppNode, NEW paths, NEW o \in Object,
         Launch(node, paths, o)
  PROVE  /\ records' \in Seq(Object) /\ created' \in Seq(Object)
         /\ delivered' \in Seq(Object) /\ replayed' \in Nat
         /\ log_' = log_
         /\ status[o] = "new"
  BY LogType DEF Launch

LEMMA StartThrowsType ==
  ASSUME TypeOK, NEW node \in AppNode, NEW paths, StartThrows(node, paths)
  PROVE  /\ records' \in Seq(Object) /\ created' \in Seq(Object)
         /\ delivered' \in Seq(Object) /\ replayed' \in Nat
         /\ log_' = log_
         /\ \/ status' = status
            \/ \E o \in Object : /\ status[o] = "new"
                                 /\ status' = [status EXCEPT ![o] = "dead"]
<1>1. CASE UNCHANGED <<status, logging>>
  BY <1>1 DEF TypeOK, logging
<1>2. CASE \E o \in Object :
             Launch(node, paths, o) /\ status' = [status EXCEPT ![o] = "dead"]
  BY <1>2, LaunchType
<1>3. QED
  BY <1>1, <1>2 DEF StartThrows

-----------------------------------------------------------------------------
(* The facts about calls that register an application, in start() and in   *)
(* app::construct() alike: a new object under a free name.                 *)
LEMMA RegisterKeeps ==
  ASSUME IInv, pc # "sweep", call # "reload" \/ pc = "idle",
         NEW node \in AppNode, NEW o \in Object,
         instances_[node.name] = none,
         Started(node, app_to_path_, o),
         instances_' = [instances_ EXCEPT ![node.name] = o],
         new_instances' = Empty, to_stop' \in {to_stop, {}}, escaped' = escaped
  PROVE  /\ instances_' \in [Name -> Object \cup {none}]
         /\ status' \in [Object -> {"new", "running", "stopped", "dead"}]
         /\ NoAliasing' /\ RunningAccounted' /\ NamedWasCreated'
         /\ \A n \in Name : new_instances'[n] \in {none, instances_'[n]}
<1>1. status[o] = "new" /\ status' = [status EXCEPT ![o] = "running"]
  BY DEF Started, Launch
<1>2. node.name \in Name
  BY DEF AppNode
<1>3. /\ instances_' \in [Name -> Object \cup {none}]
      /\ status' \in [Object -> {"new", "running", "stopped", "dead"}]
  BY <1>1, <1>2 DEF IInv, TypeOK
<1>4. NoAliasing'
  BY <1>1, <1>2, NoneAssumption
     DEF IInv, TypeOK, NoAliasing, NamedWasCreated, Objects, Bound, Empty
<1>5. RunningAccounted'
  BY <1>1, <1>2, NoneAssumption
     DEF IInv, TypeOK, RunningAccounted, Objects, Bound
<1>6. NamedWasCreated'
  BY <1>1, <1>2, NoneAssumption
     DEF IInv, TypeOK, NamedWasCreated, Objects, Bound
<1>7. QED
  BY <1>3, <1>4, <1>5, <1>6 DEF Empty

(* A start of an instance that throws leaves the tables alone, whether or  *)
(* not it made an object.                                                  *)
LEMMA ThrowKeeps ==
  ASSUME IInv, NEW node \in AppNode, NEW paths,
         \/ StartThrows(node, paths) /\ escaped' = escaped
         \/ NameTaken(node, paths),
         Finish("throw") \/ Finish("none"),
         instances_' = instances_
  PROVE  /\ records' \in Seq(Object) /\ created' \in Seq(Object)
         /\ delivered' \in Seq(Object) /\ replayed' \in Nat
         /\ log_' = log_
         /\ status' \in [Object -> {"new", "running", "stopped", "dead"}]
         /\ escaped' \in SUBSET Object
         /\ NoAliasing' /\ RunningAccounted' /\ NamedWasCreated'
         /\ TablesAgree' /\ SweepReachesAll' /\ ConfigKnown'
<1> TypeOK
  BY DEF IInv
<1>1. /\ records' \in Seq(Object) /\ created' \in Seq(Object)
      /\ delivered' \in Seq(Object) /\ replayed' \in Nat
      /\ log_' = log_
      /\ escaped \subseteq escaped' /\ escaped' \in SUBSET Object
      /\ \/ status' = status
         \/ \E o \in Object : /\ status[o] = "new"
                              /\ status' = [status EXCEPT ![o] = "dead"]
         \/ \E o \in Object : /\ status[o] = "new" /\ o \in escaped'
                              /\ status' = [status EXCEPT ![o] = "running"]
  <2>1. CASE StartThrows(node, paths) /\ escaped' = escaped
    BY <2>1, StartThrowsType DEF TypeOK
  <2>2. CASE NameTaken(node, paths)
    BY <2>2, LaunchType DEF NameTaken, Started, TypeOK
  <2>3. QED
    BY <2>1, <2>2
<1>2. /\ pc' = "idle" /\ new_instances' = Empty /\ to_stop' = {}
  BY DEF Finish
<1>3. /\ status' \in [Object -> {"new", "running", "stopped", "dead"}]
      /\ \A x \in Object : status[x] # "new" => status'[x] = status[x]
      /\ \A x \in Object : status'[x] = "running" /\ status[x] = "new"
                            => x \in escaped'
  BY <1>1 DEF TypeOK
<1>4. Objects(instances_) \subseteq Object
  BY NoneAssumption DEF TypeOK, Objects, Bound
<1>5. RunningAccounted'
  BY <1>1, <1>3, <1>4 DEF IInv, RunningAccounted, Objects, Bound, TypeOK
<1>6. NamedWasCreated'
  BY <1>2, <1>3, <1>4 DEF IInv, NamedWasCreated, Objects, Bound
<1>7. NoAliasing' /\ TablesAgree' /\ SweepReachesAll' /\ ConfigKnown'
  BY <1>2 DEF IInv, NoAliasing, TablesAgree, SweepReachesAll, ConfigKnown, Bound, Empty
<1>8. QED
  BY <1>1, <1>3, <1>5, <1>6, <1>7

-----------------------------------------------------------------------------
LEMMA InitIInv == Init => IInv
<1> SUFFICES ASSUME Init PROVE IInv
  OBVIOUS
<1>1. TypeOK
  BY DEF Init, TypeOK, Empty
<1>2. QED
  BY <1>1 DEF Init, IInv, NoAliasing, RunningAccounted, NamedWasCreated,
              TablesAgree, SweepReachesAll, ConfigKnown, Objects, Bound, Empty

(* A call that begins, or whose loop is over, touches neither the table in *)
(* use nor the objects.                                                    *)
LEMMA UntouchedKeeps ==
  ASSUME IInv, UNCHANGED <<instances_, status, escaped>>,
         new_instances' \in {new_instances, Empty},
         to_stop' \in {to_stop, {}, Objects(instances_)}
  PROVE  NoAliasing' /\ RunningAccounted' /\ NamedWasCreated'
<1>1. NoAliasing'
  BY DEF IInv, NoAliasing, Bound, Empty
<1>2. RunningAccounted' /\ NamedWasCreated'
  BY DEF IInv, RunningAccounted, NamedWasCreated, Objects, Bound
<1>3. QED
  BY <1>1, <1>2

LEMMA BeginType ==
  ASSUME TypeOK, NEW name \in {"start", "reload", "stop", "exit"}, Begin(name)
  PROVE  /\ call' \in {"none", "start", "reload", "stop", "exit"}
         /\ base' \in [Name -> Object \cup {none}]
  BY DEF Begin, TypeOK, Empty

LEMMA EmplaceType ==
  ASSUME TypeOK, NEW p \in Path, NEW seen
  PROVE  Emplace(app_to_path_, File[p].bins, seen) \in [Type -> Binary \cup {none}]
  BY ConfigAssumption DEF TypeOK, Emplace

-----------------------------------------------------------------------------
LEMMA InvStart ==
  ASSUME IInv, NEW p \in Path, Start(p)
  PROVE  IInv'
<1>1. TypeOK'
  BY BeginType, EmplaceType DEF IInv, TypeOK, Start, Begin, logging, loop
<1>2. TablesAgree' /\ SweepReachesAll' /\ ConfigKnown'
  BY DEF IInv, TablesAgree, SweepReachesAll, ConfigKnown, Start, Begin, loop
<1>3. QED
  BY <1>1, <1>2, UntouchedKeeps DEF IInv, Start, Begin, loop

LEMMA InvStartFails ==
  ASSUME IInv, NEW p \in Path, StartFails(p)
  PROVE  IInv'
<1>0. app_to_path_' \in [Type -> Binary \cup {none}]
  BY EmplaceType DEF IInv, StartFails
<1>1. TypeOK'
  BY <1>0, BeginType DEF IInv, TypeOK, StartFails, Begin, Finish, logging, Empty
<1>2. TablesAgree' /\ SweepReachesAll' /\ ConfigKnown'
  BY DEF IInv, TypeOK, TablesAgree, SweepReachesAll, ConfigKnown, StartFails,
         Begin, Finish, Empty
<1>3. QED
  BY <1>1, <1>2, UntouchedKeeps DEF IInv, StartFails, Begin, Finish

LEMMA InvStartNext ==
  ASSUME IInv, StartNext
  PROVE  IInv'
<1>1. Apps[i] \in AppNode
  BY EntryType DEF StartNext
<1>2. new_instances = Empty
  BY DEF IInv, TablesAgree, StartNext
<1>3. CASE /\ instances_[Apps[i].name] = none
           /\ \E o \in Object :
                /\ Started(Apps[i], app_to_path_, o)
                /\ instances_' = [instances_ EXCEPT ![Apps[i].name] = o]
           /\ i' = i + 1
           /\ UNCHANGED <<pc, result, new_instances, to_stop, escaped>>
  <2>1. PICK o \in Object :
          /\ Started(Apps[i], app_to_path_, o)
          /\ instances_' = [instances_ EXCEPT ![Apps[i].name] = o]
    BY <1>3
  <2>2. /\ instances_' \in [Name -> Object \cup {none}]
        /\ status' \in [Object -> {"new", "running", "stopped", "dead"}]
        /\ NoAliasing' /\ RunningAccounted' /\ NamedWasCreated'
        /\ \A n \in Name : new_instances'[n] \in {none, instances_'[n]}
    BY <1>1, <1>2, <1>3, <2>1, RegisterKeeps DEF StartNext
  <2>3. TypeOK'
    BY <1>1, <1>3, <2>1, <2>2, LaunchType DEF IInv, TypeOK, StartNext, Started
  <2>4. TablesAgree' /\ SweepReachesAll' /\ ConfigKnown'
    BY <1>2, <1>3, <2>2
       DEF IInv, TablesAgree, SweepReachesAll, ConfigKnown, StartNext, Empty
  <2>5. QED
    BY <2>2, <2>3, <2>4 DEF IInv
<1>4. CASE /\ \/ NameTaken(Apps[i], app_to_path_)
              \/ StartThrows(Apps[i], app_to_path_) /\ UNCHANGED escaped
           /\ Finish("throw") /\ UNCHANGED instances_
  BY <1>1, <1>4, ThrowKeeps DEF IInv, TypeOK, StartNext, Finish, Empty
<1>5. QED
  BY <1>3, <1>4 DEF StartNext

LEMMA InvStartDone ==
  ASSUME IInv, StartDone
  PROVE  IInv'
<1>1. config_path_ \in Path /\ instances_ \in [Name -> Object \cup {none}]
  BY DEF IInv, TypeOK, ConfigKnown, StartDone
<1>2. TypeOK' /\ pc' = "idle" /\ new_instances' = Empty /\ to_stop' = {}
  BY <1>1, InitLoggerType DEF IInv, TypeOK, StartDone, table, Empty
<1>3. TablesAgree' /\ SweepReachesAll' /\ ConfigKnown'
  BY <1>2 DEF IInv, TypeOK, TablesAgree, SweepReachesAll, ConfigKnown, Empty
<1>4. QED
  BY <1>2, <1>3, UntouchedKeeps DEF IInv, StartDone, table

-----------------------------------------------------------------------------
LEMMA InvReload ==
  ASSUME IInv, NEW p \in Path \cup {config_path_}, Reload(p)
  PROVE  IInv'
<1>1. p \in Path
  BY DEF IInv, TypeOK, Reload
<1>2. TypeOK'
  BY <1>1, BeginType DEF IInv, TypeOK, Reload, Begin, table, logging, loop
<1>3. TablesAgree' /\ SweepReachesAll' /\ ConfigKnown'
  BY <1>1 DEF IInv, TablesAgree, SweepReachesAll, ConfigKnown, Reload, Begin,
              table, loop
<1>4. QED
  BY <1>2, <1>3, UntouchedKeeps DEF IInv, Reload, Begin, table, loop

LEMMA InvReloadFails ==
  ASSUME IInv, NEW p \in Path \cup {config_path_}, ReloadFails(p)
  PROVE  IInv'
<1>1. TypeOK'
  BY BeginType DEF IInv, TypeOK, ReloadFails, Begin, Finish, Empty, table, logging
<1>2. TablesAgree' /\ SweepReachesAll' /\ ConfigKnown'
  BY DEF IInv, TypeOK, TablesAgree, SweepReachesAll, ConfigKnown, ReloadFails,
         Begin, Finish, Empty, table
<1>3. QED
  BY <1>1, <1>2, UntouchedKeeps DEF IInv, ReloadFails, Begin, Finish, table

LEMMA InvReloadStarts ==
  ASSUME IInv, ReloadStarts
  PROVE  IInv'
<1>1. Apps[i] \in AppNode /\ Apps[i].name \in Name
  BY EntryType DEF ReloadStarts, AppNode
<1>2. CASE /\ \E o \in Object :
                /\ Started(Apps[i], Config.bins, o)
                /\ instances_' = [instances_ EXCEPT ![Apps[i].name] = o]
                /\ new_instances' = [new_instances EXCEPT ![Apps[i].name] = o]
           /\ i' = i + 1
           /\ UNCHANGED <<pc, result, to_stop>>
  <2>1. PICK o \in Object :
          /\ Started(Apps[i], Config.bins, o)
          /\ instances_' = [instances_ EXCEPT ![Apps[i].name] = o]
          /\ new_instances' = [new_instances EXCEPT ![Apps[i].name] = o]
    BY <1>2
  <2>2. status[o] = "new" /\ status' = [status EXCEPT ![o] = "running"]
    BY <2>1 DEF Started, Launch
  <2>3. TypeOK'
    BY <1>1, <1>2, <2>1, <2>2, LaunchType
       DEF IInv, TypeOK, ReloadStarts, Started
  <2>4. TablesAgree'
    BY <1>1, <1>2, <2>1 DEF IInv, TypeOK, TablesAgree, ReloadStarts
  <2>5. NoAliasing'
    <3>1. /\ instances_ \in [Name -> Object \cup {none}]
          /\ new_instances \in [Name -> Object \cup {none}]
      BY DEF IInv, TypeOK
    <3>2. \A n \in Name : instances_[n] # o /\ new_instances[n] # o
      BY <2>1, <2>2, <3>1, NoneAssumption
         DEF IInv, NamedWasCreated, TablesAgree, Objects, Bound
    <3>3. \A m \in {instances_, new_instances} : \A n1, n2 \in Name :
            m[n1] # none /\ m[n1] = m[n2] => n1 = n2
      BY DEF IInv, NoAliasing, Bound
    <3>4. \A m \in {instances_', new_instances'} : \A n1, n2 \in Name :
            m[n1] # none /\ m[n1] = m[n2] => n1 = n2
      BY <1>1, <2>1, <3>1, <3>2, <3>3
    <3>5. QED
      BY <3>4 DEF NoAliasing, Bound
  <2>6. RunningAccounted'
    BY <1>1, <2>1, <2>2, NoneAssumption
       DEF IInv, TypeOK, RunningAccounted, Objects, Bound, ReloadStarts
  <2>7. NamedWasCreated'
    BY <1>1, <1>2, <2>1, <2>2, NoneAssumption
       DEF IInv, TypeOK, NamedWasCreated, Objects, Bound
  <2>8. SweepReachesAll' /\ ConfigKnown'
    BY <1>2 DEF IInv, SweepReachesAll, ConfigKnown, ReloadStarts
  <2>9. QED
    BY <2>3, <2>4, <2>5, <2>6, <2>7, <2>8 DEF IInv
<1>3. CASE /\ StartThrows(Apps[i], Config.bins)
           /\ Finish("throw") /\ UNCHANGED instances_
  BY <1>1, <1>3, ThrowKeeps DEF IInv, TypeOK, ReloadStarts, Finish, Empty
<1>4. QED
  BY <1>2, <1>3 DEF ReloadStarts

LEMMA InvReloadKeeps ==
  ASSUME IInv, ReloadKeeps
  PROVE  IInv'
<1> DEFINE o == instances_[Apps[i].name]
<1>1. Apps[i].name \in Name
  BY EntryType DEF ReloadKeeps, AppNode
<1>2. o \in Object /\ status[o] # "new" /\ o \in Objects(instances_)
  BY <1>1 DEF IInv, TypeOK, NamedWasCreated, Objects, Bound, ReloadKeeps
<1>3. /\ status' \in [Object -> {"new", "running", "stopped", "dead"}]
      /\ \A x \in Object : status'[x] # "new" <=> status[x] # "new"
      /\ \A x \in Object : status'[x] = "running" => x = o \/ status[x] = "running"
  <2>1. PICK s \in {status[o], "running", "stopped"} : status' = [status EXCEPT ![o] = s]
    BY DEF ReloadKeeps
  <2>2. /\ status \in [Object -> {"new", "running", "stopped", "dead"}]
        /\ s \in {"running", "stopped", "dead"}
    BY <1>2 DEF IInv, TypeOK
  <2> HIDE DEF o
  <2>3. QED
    BY <1>2, <2>1, <2>2
<1>4. /\ new_instances' \in [Name -> Object \cup {none}]
      /\ i' \in Nat \ {0} /\ result' \in {"none", "ok", "throw"}
      /\ pc' \in {"apps", "idle"} /\ to_stop' \in {to_stop, {}}
      /\ pc' = "idle" => new_instances' = Empty
      /\ \A n \in Name : new_instances'[n] \in {none, instances_[n]}
  <2>1. CASE /\ new_instances' = [new_instances EXCEPT ![Apps[i].name] = o]
             /\ i' = i + 1
             /\ UNCHANGED <<pc, result, to_stop>>
    BY <1>1, <1>2, <2>1 DEF IInv, TypeOK, TablesAgree, ReloadKeeps
  <2>2. CASE Finish("throw")
    BY <2>2 DEF Finish, Empty
  <2>3. QED
    BY <2>1, <2>2 DEF ReloadKeeps
<1>5. TypeOK'
  <2>1. UNCHANGED <<table, config_path_, logging, call, base, escaped>>
    BY DEF ReloadKeeps
  <2>2. QED
    BY <1>3, <1>4, <2>1 DEF IInv, TypeOK, table, logging
<1>6. NoAliasing'
  BY <1>4 DEF IInv, NoAliasing, Bound, ReloadKeeps, table
<1>7. RunningAccounted'
  BY <1>2, <1>3 DEF IInv, RunningAccounted, Objects, Bound, ReloadKeeps, table
<1>8. NamedWasCreated'
  BY <1>2, <1>3, <1>4, NoneAssumption
     DEF IInv, TypeOK, NamedWasCreated, Objects, Bound, ReloadKeeps, table
<1>9. TablesAgree' /\ SweepReachesAll' /\ ConfigKnown'
  BY <1>4 DEF IInv, TablesAgree, SweepReachesAll, ConfigKnown, ReloadKeeps, table
<1>10. QED
  BY <1>5, <1>6, <1>7, <1>8, <1>9 DEF IInv

LEMMA InvReloadSweep ==
  ASSUME IInv, ReloadSweep
  PROVE  IInv'
<1>1. TypeOK'
  BY NoneAssumption DEF IInv, TypeOK, ReloadSweep, table, logging, Objects, Bound
<1>2. TablesAgree' /\ SweepReachesAll' /\ ConfigKnown'
  BY DEF IInv, TablesAgree, SweepReachesAll, ConfigKnown, ReloadSweep, table,
         Objects, Bound
<1>3. QED
  BY <1>1, <1>2, UntouchedKeeps DEF IInv, ReloadSweep, table

(* What the swap drops has been stopped: SweepReachesAll, with nothing left *)
(* to visit.                                                               *)
LEMMA InvReloadDone ==
  ASSUME IInv, ReloadDone
  PROVE  IInv'
<1>1. config_path_ \in Path /\ new_instances \in [Name -> Object \cup {none}]
  BY DEF IInv, TypeOK, ConfigKnown, ReloadDone
<1>2. Config.bins \in [Type -> Binary \cup {none}]
  BY <1>1, ConfigAssumption DEF Config
<1>3. TypeOK' /\ pc' = "idle" /\ new_instances' = Empty /\ to_stop' = {}
  BY <1>1, <1>2, InitLoggerType DEF IInv, TypeOK, ReloadDone, Empty
<1>4. NoAliasing'
  BY <1>3 DEF IInv, NoAliasing, Bound, Empty, ReloadDone
<1>5. RunningAccounted'
  BY DEF IInv, RunningAccounted, SweepReachesAll, ReloadDone
<1>6. NamedWasCreated'
  BY <1>3, NoneAssumption
     DEF IInv, TypeOK, NamedWasCreated, TablesAgree, Objects, Bound, ReloadDone
<1>7. TablesAgree' /\ SweepReachesAll' /\ ConfigKnown'
  BY <1>3 DEF TablesAgree, SweepReachesAll, ConfigKnown, Empty, TypeOK
<1>8. QED
  BY <1>3, <1>4, <1>5, <1>6, <1>7 DEF IInv

-----------------------------------------------------------------------------
LEMMA InvStopSweep ==
  ASSUME IInv, NEW name \in {"stop", "exit"}, StopSweep(name)
  PROVE  IInv'
<1>1. TypeOK'
  BY BeginType, NoneAssumption
     DEF IInv, TypeOK, StopSweep, Begin, table, logging, Objects, Bound
<1>2. TablesAgree' /\ SweepReachesAll' /\ ConfigKnown'
  BY DEF IInv, TablesAgree, SweepReachesAll, ConfigKnown, StopSweep, Begin,
         table, Objects, Bound
<1>3. QED
  BY <1>1, <1>2, UntouchedKeeps DEF IInv, StopSweep, Begin, table

LEMMA InvStopNext ==
  ASSUME IInv, StopNext
  PROVE  IInv'
<1>1. PICK o \in to_stop : /\ status' = [status EXCEPT ![o] = "stopped"]
                           /\ to_stop' = to_stop \ {o}
  BY DEF StopNext
<1>2. TypeOK'
  BY <1>1 DEF IInv, TypeOK, StopNext, table, logging
<1>3. NoAliasing' /\ TablesAgree' /\ ConfigKnown'
  BY DEF IInv, NoAliasing, TablesAgree, ConfigKnown, Bound, StopNext, table
<1>4. RunningAccounted' /\ NamedWasCreated'
  BY <1>1, NoneAssumption
     DEF IInv, TypeOK, RunningAccounted, NamedWasCreated, Objects, Bound,
         StopNext, table
<1>5. SweepReachesAll'
  BY <1>1, NoneAssumption
     DEF IInv, TypeOK, SweepReachesAll, Objects, Bound, StopNext, table
<1>6. QED
  BY <1>2, <1>3, <1>4, <1>5 DEF IInv

(* A stop() that throws: what the call holds dies, the tables stay. *)
LEMMA InvStopThrows ==
  ASSUME IInv, StopThrows
  PROVE  IInv'
<1>1. PICK o \in to_stop : \E s \in {status[o], "stopped"} :
        status' = [status EXCEPT ![o] = s]
  BY DEF StopThrows
<1>2. /\ status' \in [Object -> {"new", "running", "stopped", "dead"}]
      /\ \A x \in Object : status'[x] = "running" => status[x] = "running"
      /\ \A x \in Object : status[x] # "new" => status'[x] # "new"
  BY <1>1 DEF IInv, TypeOK, NamedWasCreated
<1>3. /\ UNCHANGED <<table, config_path_, logging, base, escaped>>
      /\ pc' \in {"idle", "gone"} /\ result' \in {"none", "throw"}
      /\ call' \in {call, "none"}
      /\ i' \in {1, i} /\ new_instances' \in {Empty, new_instances}
      /\ to_stop' \in {{}, to_stop}
      /\ pc' = "gone" => call' = "exit" /\ call = "exit"
      /\ pc' = "idle" => new_instances' = Empty
  BY DEF StopThrows, Finish, loop
<1>4. TypeOK'
  BY <1>2, <1>3 DEF IInv, TypeOK, table, logging, Empty
<1>5. NoAliasing'
  BY <1>3 DEF IInv, NoAliasing, Bound, Empty, table
<1>6. RunningAccounted'
  BY <1>2, <1>3 DEF IInv, RunningAccounted, Objects, Bound, table
<1>7. NamedWasCreated'
  BY <1>2, <1>3, NoneAssumption
     DEF IInv, TypeOK, NamedWasCreated, Objects, Bound, table
<1>8. TablesAgree' /\ SweepReachesAll' /\ ConfigKnown'
  BY <1>3 DEF IInv, TypeOK, TablesAgree, SweepReachesAll, ConfigKnown, Empty, table
<1>9. QED
  BY <1>4, <1>5, <1>6, <1>7, <1>8 DEF IInv

LEMMA InvStopDone ==
  ASSUME IInv, StopDone
  PROVE  IInv'
<1>1. TypeOK'
  BY DEF IInv, TypeOK, StopDone, Finish, Empty, logging
<1>2. RunningAccounted'
  BY DEF IInv, RunningAccounted, SweepReachesAll, StopDone
<1>3. QED
  BY <1>1, <1>2
     DEF IInv, NoAliasing, NamedWasCreated, TablesAgree, SweepReachesAll,
         ConfigKnown, Objects, Bound, Empty, StopDone, Finish

LEMMA InvExitDone ==
  ASSUME IInv, ExitDone
  PROVE  IInv'
<1>1. TypeOK'
  BY FlushType DEF IInv, TypeOK, ExitDone, Empty, loop
<1>2. RunningAccounted'
  BY DEF IInv, RunningAccounted, SweepReachesAll, ExitDone
<1>3. QED
  BY <1>1, <1>2
     DEF IInv, NoAliasing, NamedWasCreated, TablesAgree, SweepReachesAll,
         ConfigKnown, Objects, Bound, Empty, ExitDone, loop

LEMMA InvConstruct ==
  ASSUME IInv, NEW node \in Node, Construct(node)
  PROVE  IInv'
<1>1. node \in AppNode
  BY NodeAssumption
<1>2. pc' = "idle" /\ i' = 1 /\ new_instances' = Empty /\ to_stop' = {}
  BY DEF Construct, Finish
<1>3. CASE /\ instances_[node.name] = none
           /\ \E o \in Object :
                /\ Started(node, app_to_path_, o)
                /\ instances_' = [instances_ EXCEPT ![node.name] = o]
           /\ UNCHANGED escaped
  <2>1. PICK o \in Object :
          /\ Started(node, app_to_path_, o)
          /\ instances_' = [instances_ EXCEPT ![node.name] = o]
    BY <1>3
  <2>2. /\ instances_' \in [Name -> Object \cup {none}]
        /\ status' \in [Object -> {"new", "running", "stopped", "dead"}]
        /\ NoAliasing' /\ RunningAccounted' /\ NamedWasCreated'
    BY <1>1, <1>2, <1>3, <2>1, RegisterKeeps DEF Construct
  <2>3. TypeOK'
    BY <1>1, <1>2, <1>3, <2>1, <2>2, LaunchType
       DEF IInv, TypeOK, Construct, Started, Finish, Empty
  <2>4. QED
    BY <1>2, <2>2, <2>3
       DEF IInv, TypeOK, TablesAgree, SweepReachesAll, ConfigKnown, Empty
<1>4. CASE /\ \/ NameTaken(node, app_to_path_)
              \/ StartThrows(node, app_to_path_) /\ UNCHANGED escaped
           /\ UNCHANGED instances_
  BY <1>1, <1>4, ThrowKeeps DEF IInv, TypeOK, Construct, Finish, Empty
<1>5. QED
  BY <1>3, <1>4 DEF Construct

LEMMA InvFree ==
  ASSUME IInv, NEW n \in Name, Free(n)
  PROVE  IInv'
<1>1. TypeOK'
  BY DEF IInv, TypeOK, Free, Finish, Empty, logging
<1>2. RunningAccounted'
  BY NoneAssumption DEF IInv, TypeOK, RunningAccounted, Objects, Bound, Free
<1>3. NamedWasCreated' /\ NoAliasing'
  BY NoneAssumption
     DEF IInv, TypeOK, NamedWasCreated, NoAliasing, Objects, Bound, Empty,
         Free, Finish
<1>4. QED
  BY <1>1, <1>2, <1>3
     DEF IInv, TypeOK, TablesAgree, SweepReachesAll, ConfigKnown, Empty,
         Free, Finish

-----------------------------------------------------------------------------
(* Every call of the server, step by step, preserves IInv. *)
LEMMA NextIInv == IInv /\ [Next]_vars => IInv'
<1> SUFFICES ASSUME IInv, [Next]_vars PROVE IInv'
  OBVIOUS
<1>1. CASE UNCHANGED vars
  BY <1>1
     DEF vars, table, logging, loop, IInv, TypeOK, NoAliasing, RunningAccounted,
         NamedWasCreated, TablesAgree, SweepReachesAll, ConfigKnown, Objects, Bound
<1>2. CASE \E p \in Path : Start(p) \/ StartFails(p)
  BY <1>2, InvStart, InvStartFails
<1>3. CASE StartNext \/ StartDone
  BY <1>3, InvStartNext, InvStartDone
<1>4. CASE \E p \in Path \cup {config_path_} : Reload(p) \/ ReloadFails(p)
  BY <1>4, InvReload, InvReloadFails
<1>5. CASE ReloadStarts \/ ReloadKeeps \/ ReloadSweep \/ ReloadDone
  BY <1>5, InvReloadStarts, InvReloadKeeps, InvReloadSweep, InvReloadDone
<1>6. CASE \E name \in {"stop", "exit"} : StopSweep(name)
  BY <1>6, InvStopSweep
<1>7. CASE StopNext \/ StopThrows \/ StopDone \/ ExitDone
  BY <1>7, InvStopNext, InvStopThrows, InvStopDone, InvExitDone
<1>8. CASE \E node \in Node : Construct(node)
  BY <1>8, InvConstruct
<1>9. CASE \E n \in Name : Free(n)
  BY <1>9, InvFree
<1>10. QED
  BY <1>1, <1>2, <1>3, <1>4, <1>5, <1>6, <1>7, <1>8, <1>9 DEF Next

(* IInv holds in every state the server reaches. *)
THEOREM Invariance == Spec => []IInv
<1>1. QED
  BY InitIInv, NextIInv, PTL DEF Spec

(* Each variable of the server keeps its type. *)
THEOREM TypeCorrect == Spec => []TypeOK
<1>1. IInv => TypeOK
  BY DEF IInv
<1>2. QED
  BY <1>1, Invariance, PTL

(* No two names ever denote the same application, neither in the table in  *)
(* use nor in the one a reload is building.                                *)
THEOREM NamesDoNotAlias == Spec => []NoAliasing
<1>1. IInv => NoAliasing
  BY DEF IInv
<1>2. QED
  BY <1>1, Invariance, PTL

(* No start, reload or stop, failed or not, loses track of an application  *)
(* that runs: it is registered, or it is one the code lets go by design.   *)
THEOREM NothingRunsUnseen == Spec => []RunningAccounted
<1>1. IInv => RunningAccounted
  BY DEF IInv
<1>2. QED
  BY <1>1, Invariance, PTL

-----------------------------------------------------------------------------
(* The objects AppRegistry knows of. *)
Known == {o \in Object : status[o] # "new"}

(* A start of an instance that throws is a Reject of the registry, or      *)
(* nothing at all.                                                         *)
LEMMA ThrowRefines ==
  ASSUME IInv, NEW node \in AppNode, NEW paths,
         StartThrows(node, paths) \/ NameTaken(node, paths),
         instances_' = instances_
  PROVE  Registry!Next \/ UNCHANGED <<instances_, Known>>
<1>1. \/ status' = status
      \/ \E o \in Object, s \in {"dead", "running"} :
           status[o] = "new" /\ status' = [status EXCEPT ![o] = s]
  BY StartThrowsType DEF IInv, NameTaken, Started, Launch
<1>2. CASE status' = status
  BY <1>2 DEF Known
<1>3. ASSUME NEW o \in Object, NEW s \in {"dead", "running"},
             status[o] = "new", status' = [status EXCEPT ![o] = s]
      PROVE  Registry!Reject(o)
  BY <1>3 DEF IInv, TypeOK, Registry!Reject
<1>4. QED
  BY <1>1, <1>2, <1>3 DEF Registry!Next

(* A start of an instance that registers it is a Bind. *)
LEMMA RegisterRefines ==
  ASSUME IInv, NEW node \in AppNode, NEW paths, NEW o \in Object,
         instances_[node.name] = none,
         Started(node, paths, o),
         instances_' = [instances_ EXCEPT ![node.name] = o]
  PROVE  Registry!Next
<1>1. node.name \in Name /\ status[o] = "new"
  BY DEF AppNode, Started, Launch
<1>2. Registry!Bind(node.name, o)
  BY <1>1 DEF IInv, TypeOK, Started, Registry!Bind
<1>3. QED
  BY <1>1, <1>2 DEF Registry!Next

(* Removing names, whatever the call, is a Drop. *)
LEMMA DropRefines ==
  ASSUME NEW gone \in SUBSET Name, UNCHANGED status,
         instances_' = [n \in Name |-> IF n \in gone THEN none ELSE instances_[n]]
  PROVE  Registry!Next
<1>1. Registry!Drop(gone)
  BY DEF Registry!Drop
<1>2. QED
  BY <1>1 DEF Registry!Next

(* Every step of the server is a step of the registry or changes nothing   *)
(* of what it promises.                                                    *)
LEMMA StepRefines ==
  ASSUME IInv, [Next]_vars
  PROVE  [Registry!Next]_<<instances_, Known>>
<1>1. CASE UNCHANGED vars
  BY <1>1 DEF vars, table, Known
<1>2. CASE \E p \in Path : Start(p) \/ StartFails(p)
  BY <1>2 DEF Start, StartFails, Begin, Known
<1>3. CASE StartNext
  <2>1. Apps[i] \in AppNode
    BY <1>3, EntryType DEF StartNext
  <2>2. QED
    BY <1>3, <2>1, RegisterRefines, ThrowRefines DEF StartNext
<1>4. CASE StartDone \/ ReloadSweep
  BY <1>4 DEF StartDone, ReloadSweep, table, Known
<1>5. CASE \E p \in Path \cup {config_path_} : Reload(p) \/ ReloadFails(p)
  BY <1>5 DEF Reload, ReloadFails, Begin, table, Known
<1>6. CASE ReloadStarts
  <2>1. Apps[i] \in AppNode
    BY <1>6, EntryType DEF ReloadStarts
  <2>2. QED
    BY <1>6, <2>1, RegisterRefines, ThrowRefines DEF ReloadStarts
<1>7. CASE ReloadKeeps
  <2>1. Apps[i].name \in Name
    BY <1>7, EntryType DEF ReloadKeeps, AppNode
  <2>2. status[instances_[Apps[i].name]] # "new"
    BY <1>7, <2>1
       DEF IInv, TypeOK, NamedWasCreated, Objects, Bound, ReloadKeeps
  <2>3. \A x \in Object : status'[x] # "new" <=> status[x] # "new"
    BY <1>7, <2>2 DEF IInv, TypeOK, ReloadKeeps
  <2>4. QED
    BY <1>7, <2>3 DEF ReloadKeeps, table, Known
<1>8. CASE ReloadDone
  <2>1. instances_' = [n \in Name |-> IF n \in {m \in Name : new_instances[m] = none}
                                       THEN none ELSE instances_[n]]
    BY <1>8 DEF IInv, TypeOK, TablesAgree, ReloadDone
  <2>2. QED
    BY <1>8, <2>1, DropRefines DEF ReloadDone
<1>9. CASE \E name \in {"stop", "exit"} : StopSweep(name)
  BY <1>9 DEF StopSweep, Begin, table, Known
<1>10. CASE StopNext \/ StopThrows
  <2>1. \A x \in Object : status'[x] # "new" <=> status[x] # "new"
    BY <1>10 DEF IInv, TypeOK, NamedWasCreated, StopNext, StopThrows
  <2>2. QED
    BY <1>10, <2>1 DEF StopNext, StopThrows, table, Known
<1>11. CASE StopDone \/ ExitDone
  <2>1. instances_' = [n \in Name |-> IF n \in Name THEN none ELSE instances_[n]]
    BY <1>11 DEF StopDone, ExitDone, Empty
  <2>2. QED
    BY <1>11, <2>1, DropRefines DEF StopDone, ExitDone
<1>12. CASE \E node \in Node : Construct(node)
  BY <1>12, NodeAssumption, RegisterRefines, ThrowRefines DEF Construct
<1>13. CASE \E n \in Name : Free(n)
  <2>1. PICK n \in Name : Free(n)
    BY <1>13
  <2>2. instances_' = [m \in Name |-> IF m \in {n} THEN none ELSE instances_[m]]
    BY <2>1 DEF IInv, TypeOK, Free
  <2>3. QED
    BY <2>1, <2>2, DropRefines DEF Free
<1>14. QED
  BY <1>1, <1>2, <1>3, <1>4, <1>5, <1>6, <1>7, <1>8, <1>9, <1>10, <1>11,
     <1>12, <1>13 DEF Next

(* The server implements AppRegistry: a name keeps denoting one object     *)
(* until it is dropped, and an object gets at most one name in its life.   *)
THEOREM ServerRefinesRegistry == Spec => RegistrySpec
<1>1. Init => Registry!Init
  BY DEF Init, Registry!Init, Empty
<1>2. IInv /\ [Next]_vars => [Registry!Next]_<<instances_, Known>>
  BY StepRefines
<1>3. QED
  BY <1>1, <1>2, Invariance, PTL DEF Spec, RegistrySpec, Registry!Spec, Registry!vars, Known
=============================================================================
