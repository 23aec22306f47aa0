-------------------------- MODULE ServerCallProofs --------------------------
(***************************************************************************)
(* What a call of the server has done when it returns or throws, for every *)
(* configuration: the tables after a start() and a reload(), the order of  *)
(* dependencies, and the records of the log.  NoRecordLost is inductive by *)
(* the types; the others rest on CallInv, which says how far the loop of   *)
(* the call has come and is inductive together with IInv.                  *)
(***************************************************************************)
EXTENDS ServerProofs, FiniteSetTheorems

(* What a step does to the log: nothing; one more record; the logger is    *)
(* replaced, or dies, and its records are handed over; or that throws.     *)
LogStep ==
  \/ UNCHANGED logging /\ (pc' = "gone" => result' = "throw")
  \/ \E o \in Object : Log(o) /\ pc' # "gone"
  \/ Flush /\ UNCHANGED created /\ (log_' # delayed_logger \/ pc' = "gone")
  \/ FlushThrows /\ UNCHANGED created /\ log_' # delayed_logger /\ pc' # "gone"

LEMMA InitLoggerLog ==
  ASSUME TypeOK, config_path_ \in Path, NEW m \in [Name -> Object \cup {none}],
         init_logger(m)
  PROVE  LogStep
<1>1. Config.logger \in Name \cup {none}
  BY ConfigAssumption DEF Config
<1>2. pc' = "idle"
  BY DEF init_logger, Finish
<1>3. CASE /\ LoggerFound(m)
           /\ log_' = IF Config.logger = none THEN cpp_logger ELSE m[Config.logger]
           /\ UNCHANGED created
           /\ Flush \/ FlushThrows
  <2>1. log_' # delayed_logger
    BY <1>1, <1>3, NoneAssumption DEF LoggerFound
  <2>2. QED
    BY <1>2, <1>3, <2>1 DEF LogStep
<1>4. CASE UNCHANGED logging
  BY <1>2, <1>4 DEF LogStep
<1>5. QED
  BY <1>3, <1>4 DEF init_logger

(* A start of an instance, however it ends, logs at most one line. *)
LEMMA StartLogs ==
  ASSUME NEW node, NEW paths, pc' # "gone",
         \/ \E o \in Object : Started(node, paths, o)
         \/ NameTaken(node, paths)
         \/ StartThrows(node, paths)
  PROVE  LogStep
<1>1. UNCHANGED logging \/ \E o \in Object : Log(o)
  BY DEF Started, NameTaken, StartThrows, Launch
<1>2. QED
  BY <1>1 DEF LogStep

LEMMA NextLogs ==
  ASSUME IInv, Next
  PROVE  LogStep
<1> TypeOK
  BY DEF IInv
<1>1. CASE \E p \in Path : Start(p) \/ StartFails(p)
  BY <1>1 DEF Start, StartFails, Finish, LogStep
<1>2. CASE StartNext
  BY <1>2, StartLogs DEF StartNext, Finish
<1>3. CASE StartDone
  BY <1>3, InitLoggerLog DEF IInv, TypeOK, ConfigKnown, StartDone
<1>4. CASE \E p \in Path \cup {config_path_} : Reload(p) \/ ReloadFails(p)
  BY <1>4 DEF Reload, ReloadFails, Finish, LogStep
<1>5. CASE ReloadStarts
  BY <1>5, StartLogs DEF ReloadStarts, Finish
<1>6. CASE ReloadKeeps
  BY <1>6 DEF ReloadKeeps, Finish, LogStep
<1>7. CASE ReloadSweep
  BY <1>7 DEF ReloadSweep, LogStep
<1>8. CASE ReloadDone
  BY <1>8, InitLoggerLog DEF IInv, TypeOK, ConfigKnown, ReloadDone
<1>9. CASE \E name \in {"stop", "exit"} : StopSweep(name)
  BY <1>9 DEF StopSweep, LogStep
<1>10. CASE StopNext \/ StopThrows
  BY <1>10 DEF StopNext, StopThrows, Finish, LogStep
<1>11. CASE StopDone
  BY <1>11 DEF StopDone, Finish, LogStep
<1>12. CASE ExitDone
  BY <1>12 DEF ExitDone, LogStep
<1>13. CASE \E node \in Node : Construct(node)
  BY <1>13, StartLogs DEF Construct, Finish
<1>14. CASE \E n \in Name : Free(n)
  BY <1>14 DEF Free, Finish, LogStep
<1>15. QED
  BY <1>1, <1>2, <1>3, <1>4, <1>5, <1>6, <1>7, <1>8, <1>9, <1>10, <1>11,
     <1>12, <1>13, <1>14 DEF Next

(* A record more at the end does not change the beginning. *)
LEMMA PrefixOfAppend ==
  ASSUME NEW s \in Seq(Object), NEW o \in Object, NEW k \in Nat, k <= Len(s)
  PROVE  SubSeq(Append(s, o), 1, k) = SubSeq(s, 1, k)
<1> DEFINE t == Append(s, o)
<1>1. t \in Seq(Object) /\ Len(t) = Len(s) + 1 /\ Len(s) \in Nat
  BY LenProperties
<1>2. \A j \in 1..k : t[j] = s[j] /\ s[j] \in Object
  BY <1>1, ElementOfSeq
<1> HIDE DEF t
<1>3. /\ SubSeq(s, 1, k) \in Seq(Object)
      /\ Len(SubSeq(s, 1, k)) = IF 1 <= k THEN k - 1 + 1 ELSE 0
      /\ \A j \in 1..(k - 1 + 1) : SubSeq(s, 1, k)[j] = s[1 + j - 1]
  BY <1>2, SubSeqProperties
<1>4. /\ SubSeq(t, 1, k) \in Seq(Object)
      /\ Len(SubSeq(t, 1, k)) = IF 1 <= k THEN k - 1 + 1 ELSE 0
      /\ \A j \in 1..(k - 1 + 1) : SubSeq(t, 1, k)[j] = t[1 + j - 1]
  BY <1>2, SubSeqProperties
<1> DEFINE s1 == SubSeq(s, 1, k)
           t1 == SubSeq(t, 1, k)
<1> HIDE DEF s1, t1
<1>5. Len(s1) = k /\ Len(t1) = k /\ s1 \in Seq(Object) /\ t1 \in Seq(Object)
  BY <1>3, <1>4 DEF s1, t1
<1>6. \A j \in 1..k : s1[j] = s[j] /\ t1[j] = t[j]
  BY <1>3, <1>4 DEF s1, t1
<1>7. \A j \in 1..k : s1[j] = t1[j]
  BY <1>2, <1>6
<1>8. t1 = s1
  BY <1>5, <1>7, SeqEqual
<1>9. QED
  BY <1>8 DEF s1, t1, t

(* One more record goes to the end of what was written or waits, whichever *)
(* logger is in use.                                                       *)
LEMMA LogLosesNothing ==
  ASSUME TypeOK, NoRecordLost, DelayedHasAll, pc # "gone",
         NEW o \in Object, Log(o), pc' # "gone"
  PROVE  NoRecordLost' /\ DelayedHasAll'
<1>1. /\ created' = Append(created, o) /\ created' \in Seq(Object)
      /\ Len(created') = Len(created) + 1 /\ Len(created) \in Nat
      /\ replayed' = replayed /\ replayed \in Nat /\ replayed <= Len(created)
  BY LenProperties DEF TypeOK, Log, DelayedHasAll
<1>2. replayed' <= Len(created')
  BY <1>1
<1>3. CASE log_ = delayed_logger
  <2>1. delivered = << >> /\ replayed = 0
    BY <1>3 DEF DelayedHasAll
  <2>2. SubSeq(created, 1, 0) = << >> /\ SubSeq(created', 1, 0) = << >>
    BY SubSeqEmpty
  <2>3. records = created
    BY <2>1, <2>2, ConcatEmptySeq DEF NoRecordLost, TypeOK
  <2>4. QED
    BY <1>1, <1>2, <1>3, <2>1, <2>2, <2>3 DEF NoRecordLost, DelayedHasAll, Log
<1>4. CASE log_ # delayed_logger
  <2> DEFINE again == SubSeq(created, 1, replayed)
  <2>1. again \in Seq(Object)
    BY <1>1, SubSeqProperties, ElementOfSeq DEF TypeOK
  <2>2. again = SubSeq(created', 1, replayed')
    BY <1>1, PrefixOfAppend DEF TypeOK
  <2> HIDE DEF again
  <2>3. records = << >> /\ delivered = again \o created
    BY <1>4, ConcatEmptySeq DEF NoRecordLost, TypeOK, again
  <2>4. Append(delivered, o) \o << >> = Append(delivered, o)
    BY AppendProperties, ConcatEmptySeq DEF TypeOK
  <2>5. Append(delivered, o) = delivered \o <<o>> /\ created' = created \o <<o>>
    BY <1>1, AppendIsConcat DEF TypeOK
  <2>6. <<o>> \in Seq(Object) /\ created \in Seq(Object)
    BY DEF TypeOK
  <2>7. (again \o created) \o <<o>> = again \o (created \o <<o>>)
    BY <2>1, <2>6, ConcatAssociative
  <2>8. delivered' \o records' = again \o created'
    BY <1>4, <2>3, <2>4, <2>5, <2>7 DEF Log
  <2>9. QED
    BY <1>1, <1>2, <1>4, <2>2, <2>3, <2>8 DEF NoRecordLost, DelayedHasAll, Log
<1>5. QED
  BY <1>3, <1>4

LEMMA NextLosesNothing ==
  IInv /\ NoRecordLost /\ DelayedHasAll /\ [Next]_vars
    => NoRecordLost' /\ DelayedHasAll'
<1> SUFFICES ASSUME IInv, NoRecordLost, DelayedHasAll, [Next]_vars
             PROVE  NoRecordLost' /\ DelayedHasAll'
  OBVIOUS
<1> TypeOK
  BY DEF IInv
<1>1. CASE UNCHANGED vars
  BY <1>1 DEF vars, logging, NoRecordLost, DelayedHasAll
<1>2. CASE Next
  <2>1. pc # "gone"
    BY <1>2 DEF Next, Start, StartFails, Begin, StartNext, StartDone, Reload,
                ReloadFails, ReloadStarts, ReloadKeeps, ReloadSweep, ReloadDone,
                StopSweep, StopNext, StopThrows, StopDone, ExitDone, Construct, Free
  <2>2. CASE UNCHANGED logging /\ (pc' = "gone" => result' = "throw")
    BY <2>1, <2>2 DEF logging, NoRecordLost, DelayedHasAll
  <2>3. CASE \E o \in Object : Log(o) /\ pc' # "gone"
    BY <2>1, <2>3, LogLosesNothing
  <2>4. CASE Flush /\ UNCHANGED created /\ (log_' # delayed_logger \/ pc' = "gone")
    <3>1. (delivered \o records) \o << >> = delivered \o records
      BY ConcatProperties, ConcatEmptySeq DEF TypeOK
    <3>2. QED
      BY <2>4, <3>1 DEF Flush, NoRecordLost, DelayedHasAll
  <2>5. CASE FlushThrows /\ UNCHANGED created /\ log_' # delayed_logger /\ pc' # "gone"
    <3>1. PICK k \in 0..Len(records) :
            /\ delivered' = delivered \o SubSeq(records, 1, k) \o records
            /\ replayed' = k
      BY <2>5 DEF FlushThrows
    <3>2. delivered = << >> /\ replayed = 0
      BY <2>1, <2>5 DEF FlushThrows, DelayedHasAll
    <3>3. SubSeq(created, 1, 0) = << >>
      BY SubSeqEmpty
    <3>4. records = created
      BY <3>2, <3>3, ConcatEmptySeq DEF NoRecordLost, TypeOK
    <3>5. SubSeq(created, 1, k) \in Seq(Object)
      BY <3>4, SubSeqProperties, LenProperties DEF TypeOK
    <3>6. delivered' = SubSeq(created, 1, k) \o created
      BY <3>1, <3>2, <3>4, <3>5, ConcatEmptySeq
    <3>7. SubSeq(created, 1, k) \o created \in Seq(Object)
      BY <3>5, ConcatProperties DEF TypeOK
    <3>8. delivered' \o << >> = delivered'
      BY <3>6, <3>7, ConcatEmptySeq
    <3>9. k <= Len(created)
      BY <3>4, LenProperties DEF TypeOK
    <3>10. QED
      BY <2>5, <3>1, <3>6, <3>8, <3>9 DEF FlushThrows, NoRecordLost, DelayedHasAll
  <2>6. QED
    BY <1>2, <2>2, <2>3, <2>4, <2>5, NextLogs DEF LogStep
<1>3. QED
  BY <1>1, <1>2

(* Whatever loggers the configurations name, whatever they throw and       *)
(* however often a reload changes them: what reached a logger, then what   *)
(* waits, are the records made, in their order, preceded by those that a   *)
(* hand-over had delivered before it threw, if one did.                    *)
THEOREM RecordsKept == Spec => []NoRecordLost
<1>1. Init => NoRecordLost /\ DelayedHasAll
  <2>1. SubSeq(<< >>, 1, 0) = << >>
    BY SubSeqEmpty
  <2>2. QED
    BY <2>1, ConcatEmptySeq, EmptySeq, LenProperties DEF Init, NoRecordLost, DelayedHasAll
<1>2. QED
  BY <1>1, NextLosesNothing, Invariance, PTL DEF Spec

-----------------------------------------------------------------------------
(* The entries before the next one are those before this one, and this one. *)
LEMMA ListedNext ==
  ASSUME NEW k \in Nat \ {0}
  PROVE  ListedBefore(k + 1) = ListedBefore(k) \cup {Apps[k].name}
<1>1. 1..((k + 1) - 1) = (1..(k - 1)) \cup {k}
  OBVIOUS
<1>2. QED
  BY <1>1 DEF ListedBefore

LEMMA ListedFirst == ListedBefore(1) = {}
<1>1. 1..(1 - 1) = {}
  OBVIOUS
<1>2. QED
  BY <1>1 DEF ListedBefore

(* When the loop is over its entries are all the entries. *)
LEMMA ListedAll ==
  ASSUME TypeOK, config_path_ \in Path, i <= Len(Apps) + 1, i > Len(Apps)
  PROVE  ListedBefore(i) = Listed /\ i - 1 = Len(Apps)
<1>1. Len(Apps) \in Nat
  BY ConfigAssumption, LenProperties DEF Apps, Config
<1>2. i \in Nat
  BY DEF TypeOK
<1>3. i - 1 = Len(Apps)
  BY <1>1, <1>2
<1>4. QED
  BY <1>3 DEF ListedBefore, Listed

(* Distinct names in the entries: as many names as entries. *)
LEMMA DistinctNamesCounted ==
  ASSUME config_path_ \in Path,
         \A j, k \in 1..Len(Apps) : Apps[j].name = Apps[k].name => j = k
  PROVE  Cardinality(Listed) = Len(Apps)
<1> DEFINE nameOf == [k \in 1..Len(Apps) |-> Apps[k].name]
<1>1. Len(Apps) \in Nat
  BY ConfigAssumption, LenProperties DEF Apps, Config
<1>2. nameOf \in [1..Len(Apps) -> Listed]
  BY DEF Listed
<1>3. IsInjective(nameOf)
  BY DEF IsInjective
<1>4. \A n \in Listed : \E k \in 1..Len(Apps) : nameOf[k] = n
  BY DEF Listed
<1>5. nameOf \in Bijection(1..Len(Apps), Listed)
  BY <1>2, <1>3, <1>4 DEF Bijection, Injection, Surjection
<1>6. QED
  BY <1>1, <1>5, FS_CountingElements DEF ExistsBijection

-----------------------------------------------------------------------------
(* One turn of either loop that registers or keeps its entry. *)
Turn ==
  /\ pc = "apps" /\ i <= Len(Apps) /\ pc' = "apps" /\ i' = i + 1
  /\ UNCHANGED <<config_path_, call, base>>
  /\ Apps[i].needs \subseteq Bound(instances_)
  /\ Bound(instances_)' = Bound(instances_) \cup {Apps[i].name}
  /\ \A n \in Bound(instances_) : instances_'[n] = instances_[n]
  /\ call = "start" => instances_[Apps[i].name] = none
  /\ call = "reload" =>
       Bound(new_instances)' = Bound(new_instances) \cup {Apps[i].name}

LEMMA TurnKeeps ==
  ASSUME IInv, CallInv, Turn
  PROVE  CallInv'
<1>1. /\ i \in Nat \ {0} /\ InLoop /\ InLoop' /\ pc # "sweep"
      /\ config_path_ \in Path
  BY DEF IInv, TypeOK, ConfigKnown, Turn, InLoop
<1>2. Apps' = Apps /\ Len(Apps) \in Nat
  BY <1>1, ConfigAssumption, LenProperties DEF Apps, Config, Turn
<1>3. \A k : ListedBefore(k)' = ListedBefore(k)
  BY <1>2 DEF ListedBefore
<1>4. ListedBefore(i)' = ListedBefore(i) \cup {Apps[i].name}
  BY <1>1, <1>2, ListedNext DEF ListedBefore, Turn
<1>5. Bound(base)' = Bound(base)
  BY DEF Turn, Bound
<1>6. /\ Bound(instances_) = Bound(base) \cup ListedBefore(i)
      /\ \A n \in Bound(base) : instances_[n] = base[n]
      /\ \A k \in 1..(i - 1) : Apps[k].needs \subseteq Bound(base) \cup ListedBefore(k)
  BY <1>1 DEF CallInv, LoopProgress
<1>7. LoopProgress'
  <2>1. i' <= Len(Apps)' + 1 /\ (pc' = "sweep" => i' > Len(Apps)')
    BY <1>1, <1>2 DEF Turn
  <2>2. Bound(instances_)' = Bound(base)' \cup ListedBefore(i)'
    BY <1>4, <1>5, <1>6 DEF Turn
  <2>3. \A n \in Bound(base)' : instances_'[n] = base'[n]
    BY <1>5, <1>6 DEF Turn
  <2>4. \A k \in 1..(i' - 1) :
          Apps'[k].needs \subseteq Bound(base)' \cup ListedBefore(k)'
    <3>1. 1..(i' - 1) = (1..(i - 1)) \cup {i}
      BY <1>1 DEF Turn
    <3>2. Apps[i].needs \subseteq Bound(base) \cup ListedBefore(i)
      BY <1>6 DEF Turn
    <3>3. QED
      BY <1>2, <1>3, <1>5, <1>6, <3>1, <3>2
  <2>5. QED
    BY <2>1, <2>2, <2>3, <2>4 DEF LoopProgress
<1>8. LoopOfStart'
  <2> SUFFICES ASSUME call = "start" PROVE LoopOfStart'
    BY DEF LoopOfStart, Turn
  <2>1. /\ Bound(base) \cap ListedBefore(i) = {}
        /\ \A j, k \in 1..(i - 1) : Apps[j].name = Apps[k].name => j = k
    BY DEF CallInv, LoopOfStart, Turn
  <2>2. Apps[i].name \notin Bound(base) \cup ListedBefore(i)
    BY <1>6 DEF Turn, Bound
  <2>3. (Bound(base) \cap ListedBefore(i))' = {}
    BY <1>4, <1>5, <2>1, <2>2
  <2>4. \A j, k \in 1..(i' - 1) : Apps'[j].name = Apps'[k].name => j = k
    <3>1. 1..(i' - 1) = (1..(i - 1)) \cup {i}
      BY <1>1 DEF Turn
    <3>2. \A j \in 1..(i - 1) : Apps[j].name # Apps[i].name
      BY <2>2 DEF ListedBefore
    <3>3. QED
      BY <1>2, <2>1, <3>1, <3>2
  <2>5. QED
    BY <2>3, <2>4 DEF LoopOfStart
<1>9. LoopOfReload'
  BY <1>1, <1>4 DEF CallInv, LoopOfReload, Turn
<1>10. QED
  BY <1>7, <1>8, <1>9
     DEF CallInv, Turn, LoopReset, SuccessMatchesConfig, DependenciesFirst,
         ReloadAllOrNothing, Returned

(* A loop that throws leaves the names that were there as they were, and   *)
(* has added those of the entries before this one.                         *)
LEMMA ThrowsKeeps ==
  ASSUME IInv, CallInv, InLoop, Finish("throw"),
         UNCHANGED <<call, base, instances_, config_path_>>
  PROVE  CallInv'
<1>1. /\ i \in Nat \ {0} /\ i <= Len(Apps) + 1
      /\ Bound(instances_) = Bound(base) \cup ListedBefore(i)
      /\ \A n \in Bound(base) : instances_[n] = base[n]
  BY DEF CallInv, LoopProgress, IInv, TypeOK
<1>2. config_path_ \in Path
  BY DEF IInv, ConfigKnown, InLoop
<1>3. Len(Apps) \in Nat /\ Apps' = Apps
  BY <1>2, ConfigAssumption, LenProperties DEF Apps, Config
<1>4. i \in 1..(Len(Apps) + 1)
  BY <1>1, <1>3
<1>5. /\ Bound(instances_)' = Bound(instances_) /\ Bound(base)' = Bound(base)
      /\ \A k : ListedBefore(k)' = ListedBefore(k)
  BY <1>3 DEF Bound, ListedBefore
<1>6. \E k \in 1..(Len(Apps)' + 1) :
        Bound(instances_)' = Bound(base)' \cup ListedBefore(k)'
  BY <1>1, <1>3, <1>4, <1>5
<1>7. ReloadAllOrNothing'
  BY <1>1, <1>5, <1>6 DEF ReloadAllOrNothing
<1>8. QED
  BY <1>7 DEF CallInv, Finish, InLoop, LoopProgress, LoopOfStart, LoopOfReload,
              LoopReset, SuccessMatchesConfig, DependenciesFirst, Returned

(* Calls that promise nothing when they end. *)
LEMMA OtherCallsKeep ==
  ASSUME Finish("none") \/ pc' = "gone"
  PROVE  CallInv'
BY DEF CallInv, Finish, InLoop, LoopProgress, LoopOfStart, LoopOfReload,
       LoopReset, SuccessMatchesConfig, DependenciesFirst, ReloadAllOrNothing,
       Returned

(* The loop of start() or reload() begins. *)
LEMMA BeginKeeps ==
  ASSUME IInv, CallInv, pc = "idle", pc' = "apps", base' = instances_,
         config_path_' \in Path, UNCHANGED <<instances_, new_instances, i>>
  PROVE  CallInv'
<1>1. i' = 1 /\ i = 1 /\ new_instances = Empty
  BY DEF CallInv, LoopReset, IInv, TablesAgree
<1>2. Len(Apps)' \in Nat
  BY ConfigAssumption, LenProperties DEF Apps, Config
<1>3. 1..(i' - 1) = {}
  BY <1>1
<1>4. ListedBefore(i)' = {}
  BY <1>3 DEF ListedBefore
<1>5. LoopProgress'
  BY <1>1, <1>2, <1>3, <1>4 DEF LoopProgress, Bound
<1>6. LoopOfStart'
  BY <1>3, <1>4 DEF LoopOfStart
<1>7. LoopOfReload'
  BY <1>1, <1>4 DEF LoopOfReload, Bound, Empty
<1>8. QED
  BY <1>5, <1>6, <1>7
     DEF CallInv, LoopReset, SuccessMatchesConfig, DependenciesFirst,
         ReloadAllOrNothing, Returned

-----------------------------------------------------------------------------
(* The name of an entry that starts is one more name in the table. *)
LEMMA BoundByStart ==
  ASSUME NEW m \in [Name -> Object \cup {none}], NEW n \in Name, NEW o \in Object
  PROVE  Bound([m EXCEPT ![n] = o]) = Bound(m) \cup {n}
BY NoneAssumption DEF Bound

LEMMA CallStartNext ==
  ASSUME IInv, CallInv, StartNext
  PROVE  CallInv'
<1>1. Apps[i].name \in Name /\ instances_ \in [Name -> Object \cup {none}]
  BY EntryType DEF StartNext, AppNode, IInv, TypeOK
<1>2. CASE /\ instances_[Apps[i].name] = none
           /\ \E o \in Object :
                /\ Started(Apps[i], app_to_path_, o)
                /\ instances_' = [instances_ EXCEPT ![Apps[i].name] = o]
           /\ i' = i + 1
           /\ UNCHANGED <<pc, result, new_instances, to_stop, escaped>>
  <2>1. PICK o \in Object :
          /\ Started(Apps[i], app_to_path_, o)
          /\ instances_' = [instances_ EXCEPT ![Apps[i].name] = o]
    BY <1>2
  <2>2. Bound(instances_)' = Bound(instances_) \cup {Apps[i].name}
    BY <1>1, <2>1, BoundByStart DEF Bound
  <2>3. \A n \in Bound(instances_) : instances_'[n] = instances_[n]
    BY <1>1, <1>2, <2>1 DEF Bound
  <2>4. QED
    BY <1>2, <2>1, <2>2, <2>3, TurnKeeps DEF StartNext, Started, Turn
<1>3. CASE Finish("throw") /\ UNCHANGED instances_
  BY <1>3, ThrowsKeeps DEF StartNext, InLoop
<1>4. QED
  BY <1>2, <1>3 DEF StartNext

LEMMA CallReloadStarts ==
  ASSUME IInv, CallInv, ReloadStarts
  PROVE  CallInv'
<1>1. /\ Apps[i].name \in Name /\ instances_ \in [Name -> Object \cup {none}]
      /\ new_instances \in [Name -> Object \cup {none}]
  BY EntryType DEF ReloadStarts, AppNode, IInv, TypeOK
<1>2. CASE /\ \E o \in Object :
                /\ Started(Apps[i], Config.bins, o)
                /\ instances_' = [instances_ EXCEPT ![Apps[i].name] = o]
                /\ new_instances' = [new_instances EXCEPT ![Apps[i].name] = o]
           /\ i' = i + 1
           /\ UNCHANGED <<pc, result, to_stop>>
  <2>1. PICK o \in Object :
          /\ Started(Apps[i], Config.bins, o)
          /\ instances_' = [instances_ EXCEPT ![Apps[i].name] = o]
          /\ new_instances' = [new_instances EXCEPT ![Apps[i].name] = o]
    BY <1>2
  <2>2. Bound(instances_)' = Bound(instances_) \cup {Apps[i].name}
    BY <1>1, <2>1, BoundByStart DEF Bound
  <2>3. Bound(new_instances)' = Bound(new_instances) \cup {Apps[i].name}
    BY <1>1, <2>1, BoundByStart DEF Bound
  <2>4. \A n \in Bound(instances_) : instances_'[n] = instances_[n]
    BY <1>1, <2>1 DEF Bound, ReloadStarts
  <2>5. QED
    BY <1>2, <2>1, <2>2, <2>3, <2>4, TurnKeeps DEF ReloadStarts, Started, Turn
<1>3. CASE Finish("throw") /\ UNCHANGED instances_
  BY <1>3, ThrowsKeeps DEF ReloadStarts, InLoop
<1>4. QED
  BY <1>2, <1>3 DEF ReloadStarts

LEMMA CallReloadKeeps ==
  ASSUME IInv, CallInv, ReloadKeeps
  PROVE  CallInv'
<1> DEFINE n == Apps[i].name
<1>1. /\ n \in Name /\ instances_ \in [Name -> Object \cup {none}]
      /\ new_instances \in [Name -> Object \cup {none}]
      /\ instances_[n] # none
  BY EntryType DEF ReloadKeeps, AppNode, IInv, TypeOK
<1>2. CASE /\ Apps[i].needs \subseteq Bound(instances_)
           /\ new_instances' = [new_instances EXCEPT ![n] = instances_[n]]
           /\ i' = i + 1
           /\ UNCHANGED <<pc, result, to_stop>>
  <2>1. Bound(instances_)' = Bound(instances_) \cup {n}
    BY <1>1 DEF Bound, ReloadKeeps, table
  <2>2. Bound(new_instances)' = Bound(new_instances) \cup {n}
    BY <1>1, <1>2, BoundByStart DEF Bound
  <2>3. QED
    BY <1>2, <2>1, <2>2, TurnKeeps DEF ReloadKeeps, Turn, table
<1>3. CASE Finish("throw")
  BY <1>3, ThrowsKeeps DEF ReloadKeeps, InLoop, table
<1>4. QED
  BY <1>2, <1>3 DEF ReloadKeeps

(* start() is over: its names are in the table, its logger may be missing. *)
LEMMA CallStartDone ==
  ASSUME IInv, CallInv, StartDone
  PROVE  CallInv'
<1>1. /\ TypeOK /\ config_path_ \in Path /\ InLoop
      /\ UNCHANGED <<instances_, base, config_path_, call>>
      /\ call = "start" /\ pc = "apps"
  BY DEF IInv, ConfigKnown, StartDone, InLoop, table
<1>2. /\ i <= Len(Apps) + 1 /\ i > Len(Apps)
      /\ Bound(instances_) = Bound(base) \cup ListedBefore(i)
      /\ \A n \in Bound(base) : instances_[n] = base[n]
      /\ \A k \in 1..(i - 1) : Apps[k].needs \subseteq Bound(base) \cup ListedBefore(k)
  BY <1>1 DEF CallInv, LoopProgress, StartDone
<1>3. /\ Bound(base) \cap ListedBefore(i) = {}
      /\ \A j, k \in 1..(i - 1) : Apps[j].name = Apps[k].name => j = k
  BY <1>1 DEF CallInv, LoopOfStart
<1>4. ListedBefore(i) = Listed /\ i - 1 = Len(Apps)
  BY <1>1, <1>2, ListedAll
<1>5. Cardinality(Listed) = Len(Apps)
  BY <1>1, <1>3, <1>4, DistinctNamesCounted
<1>6. /\ Bound(instances_)' = Bound(instances_) /\ Bound(base)' = Bound(base)
      /\ Listed' = Listed /\ Apps' = Apps
      /\ \A k : ListedBefore(k)' = ListedBefore(k)
  BY <1>1 DEF Bound, Listed, Apps, Config, ListedBefore
<1>7. SuccessMatchesConfig'
  BY <1>1, <1>2, <1>3, <1>4, <1>5, <1>6 DEF SuccessMatchesConfig, Returned
<1>8. DependenciesFirst'
  <2>1. \A k \in 1..Len(Apps) : Apps[k].needs \subseteq Bound(base) \cup ListedBefore(k)
    BY <1>2, <1>4
  <2>2. QED
    BY <1>6, <2>1 DEF DependenciesFirst, ListedBefore
<1>9. QED
  BY <1>1, <1>7, <1>8
     DEF CallInv, StartDone, init_logger, Finish, InLoop, LoopProgress,
         LoopOfStart, LoopOfReload, LoopReset, ReloadAllOrNothing

(* The loop of reload() is over and the old objects wait for their stop. *)
LEMMA SweepKeeps ==
  ASSUME IInv, CallInv, pc = "apps" \/ pc = "sweep", pc' = "sweep",
         pc = "apps" => i > Len(Apps) /\ call = "reload",
         UNCHANGED <<instances_, new_instances, base, config_path_, call, i>>
  PROVE  CallInv'
<1>1. InLoop' <=> InLoop
  BY DEF InLoop
<1>2. /\ Bound(instances_)' = Bound(instances_) /\ Bound(base)' = Bound(base)
      /\ Bound(new_instances)' = Bound(new_instances)
      /\ Apps' = Apps /\ \A k : ListedBefore(k)' = ListedBefore(k)
  BY DEF Bound, Apps, Config, ListedBefore
<1>3. ListedBefore(i)' = ListedBefore(i)
  BY DEF Apps, Config, ListedBefore
<1>4. LoopProgress'
  BY <1>1, <1>2, <1>3 DEF CallInv, LoopProgress
<1>5. LoopOfReload'
  BY <1>1, <1>2, <1>3 DEF CallInv, LoopOfReload
<1>6. QED
  BY <1>4, <1>5
     DEF CallInv, LoopOfStart, LoopReset, SuccessMatchesConfig,
         DependenciesFirst, ReloadAllOrNothing, Returned

(* reload() switches to the new table, and may still miss its logger. *)
LEMMA CallReloadDone ==
  ASSUME IInv, CallInv, ReloadDone
  PROVE  CallInv'
<1>1. /\ TypeOK /\ config_path_ \in Path /\ InLoop
      /\ UNCHANGED <<base, config_path_, call>> /\ instances_' = new_instances
      /\ call = "reload" /\ pc = "sweep"
  BY DEF IInv, ConfigKnown, ReloadDone, InLoop
<1>2. /\ i <= Len(Apps) + 1 /\ i > Len(Apps)
      /\ Bound(new_instances) = ListedBefore(i)
      /\ \A n \in Bound(base) : instances_[n] = base[n]
      /\ \A k \in 1..(i - 1) : Apps[k].needs \subseteq Bound(base) \cup ListedBefore(k)
  BY <1>1 DEF CallInv, LoopProgress, LoopOfReload
<1>3. ListedBefore(i) = Listed /\ i - 1 = Len(Apps)
  BY <1>1, <1>2, ListedAll
<1>4. /\ Bound(instances_)' = Bound(new_instances) /\ Bound(base)' = Bound(base)
      /\ Listed' = Listed /\ Apps' = Apps
      /\ \A k : ListedBefore(k)' = ListedBefore(k)
  BY <1>1 DEF Bound, Listed, Apps, Config, ListedBefore
<1>5. \A n \in Bound(new_instances) \cap Bound(base) : new_instances[n] = base[n]
  BY <1>2 DEF IInv, TablesAgree, Bound
<1>6. SuccessMatchesConfig'
  BY <1>1, <1>2, <1>3, <1>4, <1>5 DEF SuccessMatchesConfig, Returned
<1>7. DependenciesFirst'
  <2>1. \A k \in 1..Len(Apps) : Apps[k].needs \subseteq Bound(base) \cup ListedBefore(k)
    BY <1>2, <1>3
  <2>2. QED
    BY <1>4, <2>1 DEF DependenciesFirst, ListedBefore
<1>8. ReloadAllOrNothing'
  BY <1>1, <1>2, <1>3, <1>4, <1>5 DEF ReloadAllOrNothing, Bound
<1>9. QED
  BY <1>1, <1>6, <1>7, <1>8
     DEF CallInv, ReloadDone, init_logger, Finish, InLoop, LoopProgress,
         LoopOfStart, LoopOfReload, LoopReset

LEMMA CallStopSweep ==
  ASSUME IInv, CallInv, NEW name \in {"stop", "exit"}, StopSweep(name)
  PROVE  CallInv'
BY DEF StopSweep, Begin, CallInv, InLoop, LoopProgress, LoopOfStart,
       LoopOfReload, LoopReset, SuccessMatchesConfig, DependenciesFirst,
       ReloadAllOrNothing, Returned

(* A start() or a reload() that fails before its loop. *)
LEMMA CallFailsEarly ==
  ASSUME CallInv, Finish("throw"), call' \in {"start", "reload"},
         base' = instances_, UNCHANGED instances_
  PROVE  CallInv'
BY DEF Finish, CallInv, InLoop, LoopProgress, LoopOfStart, LoopOfReload,
       LoopReset, SuccessMatchesConfig, DependenciesFirst, ReloadAllOrNothing,
       Returned, Bound

(* The loop that stops, whichever call runs it. *)
LEMMA CallStopNext ==
  ASSUME IInv, CallInv, StopNext
  PROVE  CallInv'
BY SweepKeeps DEF StopNext, table

(* An application's stop() throws: reload() keeps the old table, to which   *)
(* it has added every name of the configuration.                           *)
LEMMA CallStopThrows ==
  ASSUME IInv, CallInv, StopThrows
  PROVE  CallInv'
<1>1. CASE call = "reload" /\ Finish("throw") /\ UNCHANGED call
  BY <1>1, ThrowsKeeps DEF StopThrows, InLoop, table
<1>2. CASE Finish("none") \/ pc' = "gone"
  BY <1>2, OtherCallsKeep
<1>3. QED
  BY <1>1, <1>2 DEF StopThrows

-----------------------------------------------------------------------------
(* Every step of every call preserves CallInv. *)
LEMMA NextCallInv == IInv /\ CallInv /\ [Next]_vars => CallInv'
<1> SUFFICES ASSUME IInv, CallInv, [Next]_vars PROVE CallInv'
  OBVIOUS
<1>1. CASE UNCHANGED vars
  <2>1. Apps' = Apps /\ (InLoop' <=> InLoop) /\ UNCHANGED <<table, loop>>
    BY <1>1 DEF vars, table, loop, InLoop, Apps, Config
  <2>2. LoopProgress'
    BY <1>1, <2>1 DEF vars, table, loop, CallInv, LoopProgress, Bound, ListedBefore
  <2>3. LoopOfStart' /\ LoopOfReload' /\ LoopReset'
    BY <1>1, <2>1 DEF vars, table, loop, CallInv, LoopOfStart, LoopOfReload,
                      LoopReset, Bound, ListedBefore
  <2>4. SuccessMatchesConfig' /\ DependenciesFirst' /\ ReloadAllOrNothing'
    BY <1>1, <2>1 DEF vars, table, loop, CallInv, SuccessMatchesConfig,
                      DependenciesFirst, ReloadAllOrNothing, Returned, Bound,
                      Listed, ListedBefore
  <2>5. QED
    BY <2>2, <2>3, <2>4 DEF CallInv
<1>2. CASE \E p \in Path : Start(p) \/ StartFails(p)
  BY <1>2, BeginKeeps, CallFailsEarly DEF Start, StartFails, Begin, loop
<1>3. CASE StartNext \/ StartDone
  BY <1>3, CallStartNext, CallStartDone
<1>4. CASE \E p \in Path \cup {config_path_} : Reload(p) \/ ReloadFails(p)
  <2>1. PICK p \in Path \cup {config_path_} : Reload(p) \/ ReloadFails(p)
    BY <1>4
  <2>2. CASE Reload(p)
    <3>1. p \in Path
      BY <2>2 DEF IInv, TypeOK, Reload
    <3>2. QED
      BY <2>2, <3>1, BeginKeeps DEF Reload, Begin, table, loop
  <2>3. CASE ReloadFails(p)
    BY <2>3, CallFailsEarly DEF ReloadFails, Begin, table
  <2>4. QED
    BY <2>1, <2>2, <2>3
<1>5. CASE ReloadStarts \/ ReloadKeeps \/ ReloadDone
  BY <1>5, CallReloadStarts, CallReloadKeeps, CallReloadDone
<1>6. CASE ReloadSweep
  BY <1>6, SweepKeeps DEF ReloadSweep, table
<1>7. CASE \E name \in {"stop", "exit"} : StopSweep(name)
  BY <1>7, CallStopSweep
<1>8. CASE StopNext \/ StopThrows
  BY <1>8, CallStopNext, CallStopThrows
<1>9. CASE StopDone \/ ExitDone
  BY <1>9, OtherCallsKeep DEF StopDone, ExitDone
<1>10. CASE \E node \in Node : Construct(node)
  BY <1>10, OtherCallsKeep DEF Construct
<1>11. CASE \E n \in Name : Free(n)
  BY <1>11, OtherCallsKeep DEF Free
<1>12. QED
  BY <1>1, <1>2, <1>3, <1>4, <1>5, <1>6, <1>7, <1>8, <1>9, <1>10, <1>11 DEF Next

LEMMA InitCallInv == Init => CallInv
BY DEF Init, CallInv, InLoop, LoopProgress, LoopOfStart, LoopOfReload,
       LoopReset, SuccessMatchesConfig, DependenciesFirst, ReloadAllOrNothing,
       Returned

(* The progress of every call, in every state the server reaches. *)
THEOREM CallProgress == Spec => []CallInv
<1>1. QED
  BY InitCallInv, NextCallInv, Invariance, PTL DEF Spec

(* A start() that returns added exactly the listed names, all distinct and *)
(* all free before; a reload() that returns made them the whole table; and *)
(* a name that was there and is there still denotes the same object.       *)
THEOREM CallsDoWhatTheConfigurationSays == Spec => []SuccessMatchesConfig
<1>1. CallInv => SuccessMatchesConfig
  BY DEF CallInv
<1>2. QED
  BY <1>1, CallProgress, PTL

(* When a start() or a reload() returns, every application had found what  *)
(* it needs among the names registered before the call or listed earlier.  *)
THEOREM DependenciesPrecede == Spec => []DependenciesFirst
<1>1. CallInv => DependenciesFirst
  BY DEF CallInv
<1>2. QED
  BY <1>1, CallProgress, PTL

(* A reload() that throws kept every binding it found and added the new    *)
(* names listed before the entry that failed, or switched to the           *)
(* configuration's table entirely; a name that stays keeps its object.     *)
THEOREM ReloadIsAllOrNothing == Spec => []ReloadAllOrNothing
<1>1. CallInv => ReloadAllOrNothing
  BY DEF CallInv
<1>2. QED
  BY <1>1, CallProgress, PTL
=============================================================================
