--------------------------- MODULE ZlogEnvProofs ---------------------------
(***************************************************************************)
(* Proofs about ZlogEnv, for any threads, categories, configurations, keys *)
(* and records: what InForce, OutputSafe, UserStateKept and                *)
(* AutoReloadEarned say.                                                   *)
(*                                                                         *)
(* None of them is inductive: each speaks of the moments at which nobody   *)
(* writes, and needs to know what the thread with the write lock has done  *)
(* so far.  The invariant adds where the lock is (Locks), what the         *)
(* configuration, the categories and the hooks are in the middle of a      *)
(* reload (Confs, CatsBetween, HooksSet), what a message in progress works   *)
(* on (Messages) and how far the counter can be behind (Counted).          *)
(***************************************************************************)
EXTENDS ZlogEnv, TLAPS

StartPlaces == {"start", "get", "failed"}
ReadPlaces == {"fetch", "output", "count", "unlock", "unlock_reload"}
WritePlaces == {"reload", "update", "obtain", "err"}
RunPlaces == {"idle", "rdlock", "wrlock"} \cup ReadPlaces \cup WritePlaces
Places == StartPlaces \cup RunPlaces \cup {"off", "dead"}

Bufs == {0} \cup {BufOf[c] : c \in Contents}
Jobs == [cat : Cats \cup {0}, n : Nat, auto : BOOLEAN,
         todo : SUBSET Cats, gen : Nat]
Datas == [version : Nat, buf : Bufs, mdc : SUBSET Keys]

EnvTypes ==
  /\ contents \in Seq(Contents)
  /\ env_conf \in Nat /\ init_version \in Nat
  /\ reload_count \in Nat /\ since \in Nat
  /\ is_init \in BOOLEAN /\ torn \in BOOLEAN
  /\ handles \subseteq Cats
  /\ tsd \in [Threads -> Datas]
  /\ mdcGhost \in [Threads -> SUBSET Keys]
  /\ pc \in [Threads -> Places]
  /\ job \in [Threads -> Jobs]

\* Before the threads are started main is alone, and holds no lock; afterwards the
\* environment is there, until the process dies.  Who is where in its code is who
\* holds the lock.
Alone == pc[Main] \in StartPlaces /\ \A t \in Threads \ {Main} : pc[t] = "off"

Locks ==
  /\ \/ Alone
     \/ \A t \in Threads : pc[t] \in RunPlaces
     \/ \A t \in Threads : pc[t] = "dead"
  /\ is_init <=> pc[Main] \notin {"start", "failed"}
  /\ readers = {t \in Threads : pc[t] \in ReadPlaces}
  /\ \A t \in Threads : pc[t] \in WritePlaces <=> writer = t
  /\ writer \in Threads \cup {NoThread}
  /\ writer # NoThread => readers = {}

\* The configuration in force, and the one a reload works on, which the error exit may
\* still have to free.
Updating(t) == pc[t] \in {"update", "obtain"}
Confs ==
  /\ is_init => env_conf \in 1 .. Len(contents)
  /\ is_init /\ (\A t \in Threads : ~Updating(t) /\ pc[t] # "err") => live = {env_conf}
  /\ ~is_init => live = {} /\ handles = {}
  /\ \A t \in Threads : pc[t] \in {"update", "obtain", "err"} =>
       job[t].gen = Len(contents) /\ env_conf < Len(contents)
  /\ \A t \in Threads : Updating(t) => live = {env_conf, job[t].gen}
  /\ \A t \in Threads : pc[t] = "err" => live \ {job[t].gen} = {env_conf}

\* A category with the rules of a configuration and their bitmap.
Entry(c, g, backup) ==
  [fit |-> ObtainRules(c, g), backup |-> backup, bits |-> BitsOf(ObtainRules(c, g))]

\* A category as it may be after an update that failed half-way.
Record(e) == e = [fit |-> e.fit, backup |-> e.backup, bits |-> e.bits]

\* A category has the rules in force unless a reload has got to it or an update failed
\* half-way; those that a reload is through with have the new ones whatever came before.
CatsBetween ==
  /\ handles = DOMAIN categories
  /\ \A c \in handles : Record(categories[c])
  /\ ~torn => \A c \in handles :
       (\A t \in Threads : Updating(t) =>
          c \in job[t].todo /\ (pc[t] = "obtain" => c # job[t].cat))
         => categories[c] = Entry(c, env_conf, NoList)
  /\ \A t \in Threads : Updating(t) =>
       /\ job[t].todo \subseteq handles
       /\ \A c \in handles \ job[t].todo :
            categories[c] = Entry(c, job[t].gen, categories[c].backup)
  /\ \A t \in Threads : pc[t] = "obtain" => job[t].cat \in job[t].todo

\* The rules in force, and those a reload has read, know the records.
HooksSet ==
  /\ pc[Main] \in StartPlaces => records = {} /\ hooked = {}
  /\ is_init => HookedIn(env_conf, records) \subseteq hooked
  /\ \A t \in Threads : Updating(t) => HookedIn(job[t].gen, records) \subseteq hooked

\* A message works on a category of the program, with buffers made since the last reload.
Messages ==
  \A t \in Threads :
    /\ pc[t] \in RunPlaces => handles = Cats
    /\ pc[t] \in {"rdlock", "fetch", "output"} => job[t].cat \in handles
    /\ pc[t] = "output" =>
         tsd[t].version = init_version /\ tsd[t].buf = BufOf[contents[env_conf]]

\* The mdc of a thread is its own business.
MdcKept == \A t \in Threads : tsd[t].mdc = mdcGhost[t]

\* The counter of messages may lose increments and gains none.
Counted ==
  /\ reload_count <= since
  /\ \A t \in Threads : pc[t] = "count" => job[t].n <= since

EnvInv == EnvTypes /\ Locks /\ Confs /\ CatsBetween /\ HooksSet /\ Messages /\ MdcKept /\ Counted

-----------------------------------------------------------------------------
(***************************************************************************)
(* Types.                                                                  *)
(***************************************************************************)

\* The values a job starts from.
LEMMA NoJobType == NoJob \in Jobs /\ NoData \in Datas /\ NoData.mdc = {}
  BY DEF NoJob, Jobs, NoData, Datas, Bufs

\* What zlog_init finds.
LEMMA EnvInitInv == Init => EnvInv
  <1> SUFFICES ASSUME Init PROVE EnvInv
    OBVIOUS
  <1> USE DEF Init
  <1>1. EnvTypes
    <2>1. <<>> \in Seq(Contents)
      OBVIOUS
    <2> QED
      BY <2>1, NoJobType DEF EnvTypes, Places, StartPlaces, RunPlaces
  <1>2. pc[Main] = "start" /\ \A t \in Threads \ {Main} : pc[t] = "off"
    BY ThreadAssumption
  <1>3. Locks
    BY <1>2, ThreadAssumption DEF Locks, Alone, StartPlaces, RunPlaces, ReadPlaces, WritePlaces
  <1>4. \A t \in Threads : ~Updating(t) /\ pc[t] \notin {"obtain", "err", "output", "count", "rdlock", "fetch"}
    BY <1>2 DEF Updating
  <1>5. Confs /\ CatsBetween
    BY <1>4 DEF Confs, CatsBetween, Updating
  <1>6. HooksSet
    BY <1>4 DEF HooksSet
  <1>7. Messages
    BY <1>2 DEF Messages, RunPlaces, ReadPlaces, WritePlaces
  <1>8. MdcKept /\ Counted
    BY <1>4, NoJobType DEF MdcKept, Counted
  <1> QED
    BY <1>1, <1>3, <1>5, <1>6, <1>7, <1>8 DEF EnvInv

\* The thread data zlog_fetch_thread returns: the mdc is kept.
LEMMA FetchedType ==
  ASSUME EnvTypes, NEW t \in Threads, env_conf \in 1 .. Len(contents)
  PROVE  /\ Fetched(t) \in Datas /\ Fetched(t).mdc = tsd[t].mdc
         /\ Fetched(t).version = init_version /\ Fetched(t).buf = BufOf[contents[env_conf]]
  <1>1. tsd[t] \in Datas /\ init_version \in Nat /\ contents[env_conf] \in Contents
    BY DEF EnvTypes
  <1>2. BufOf[contents[env_conf]] \in Bufs
    BY <1>1 DEF Bufs
  <1> QED
    BY <1>1, <1>2 DEF Fetched, Datas

\* The types are kept by start-up.
LEMMA StartTypes == ASSUME EnvInv, StartUp PROVE EnvTypes'
  <1> USE DEF EnvInv, EnvTypes
  <1>1. CASE ZlogInit
    <2>1. contents' \in Seq(Contents) /\ Len(contents) \in Nat
      BY <1>1 DEF ZlogInit
    <2>2. PICK c \in Contents : is_init' = (c \in Parses /\ ~is_init)
      BY <1>1 DEF ZlogInit
    <2>3. is_init' \in BOOLEAN
      BY ONLY <2>2
    <2>4. init_version' \in Nat /\ env_conf' \in Nat
      BY <1>1, <2>1 DEF ZlogInit
    <2>5. pc' \in [Threads -> Places]
      BY <1>1 DEF ZlogInit, Goto, Places, StartPlaces
    <2> QED
      BY <1>1, <2>1, <2>3, <2>4, <2>5 DEF ZlogInit
  <1>2. ASSUME NEW c \in Cats, GetCategory(c)
        PROVE  EnvTypes'
    BY <1>2 DEF GetCategory, envVars
  <1>3. ASSUME NEW c \in Cats, GetCategoryFails(c)
        PROVE  EnvTypes'
    BY <1>3 DEF GetCategoryFails, Goto, Places, StartPlaces
  <1>4. CASE Started
    <2>1. pc' \in [Threads -> Places]
      BY <1>4 DEF Started, Places, RunPlaces
    <2> QED
      BY <1>4, <2>1 DEF Started, envVars
  <1> QED
    BY <1>1, <1>2, <1>3, <1>4 DEF StartUp

\* They are kept by the steps of a message.
LEMMA MessageTypes == ASSUME EnvInv, NEW t \in Threads, Message(t) PROVE EnvTypes'
  <1> USE DEF EnvInv, EnvTypes
  <1>1. job[t] \in Jobs /\ job[t].n \in Nat /\ NoJob \in Jobs
    BY NoJobType DEF Jobs
  <1>2. Places =
          {"start", "get", "failed", "idle", "rdlock", "wrlock", "fetch", "output", "count",
           "unlock", "unlock_reload", "reload", "update", "obtain", "err", "off", "dead"}
    BY DEF Places, StartPlaces, RunPlaces, ReadPlaces, WritePlaces
  <1>3. ASSUME NEW c \in Cats, NEW l \in Levels, LogCheck(t, c, l)
        PROVE  EnvTypes'
    <2>1. [NoJob EXCEPT !.cat = c] \in Jobs
      BY DEF NoJob, Jobs
    <2> QED
      BY <1>2, <1>3, <2>1 DEF LogCheck, Goto, envVars
  <1>4. CASE LogLock(t)
    BY <1>2, <1>4 DEF LogLock, Goto, envVars
  <1>5. CASE LogFetch(t)
    <2>1. pc[t] = "fetch" /\ pc[t] \in RunPlaces /\ pc[t] \notin StartPlaces
      BY <1>5 DEF LogFetch, At, RunPlaces, ReadPlaces, StartPlaces
    <2>2. is_init
      BY <2>1, ThreadAssumption DEF Locks, Alone, StartPlaces, RunPlaces, ReadPlaces, WritePlaces
    <2>3. Fetched(t) \in Datas
      BY <2>2, FetchedType DEF Confs
    <2> QED
      BY <1>2, <1>5, <2>3 DEF LogFetch, Goto, envVars
  <1>6. CASE LogFetchFails(t)
    BY <1>1, <1>2, <1>6 DEF LogFetchFails, Goto, envVars
  <1>7. CASE LogOutput(t)
    <2>1. [job[t] EXCEPT !.n = IF Period = 0 THEN 0 ELSE reload_count] \in Jobs
      BY <1>1 DEF Jobs
    <2>2. job' = [job EXCEPT ![t] = [job[t] EXCEPT !.n = IF Period = 0 THEN 0 ELSE reload_count]]
      BY <1>7 DEF LogOutput
    <2> QED
      BY <1>2, <1>7, <2>1, <2>2 DEF LogOutput, Goto, envVars
  <1>8. CASE LogOutputFails(t)
    BY <1>2, <1>8 DEF LogOutputFails, Goto, envVars
  <1>9. CASE LogCount(t)
    BY <1>1, <1>2, <1>9 DEF LogCount, Goto
  <1>10. CASE LogUnlock(t)
    <2>1. At(t, "unlock_reload") \in BOOLEAN
      BY DEF At
    <2>2. [NoJob EXCEPT !.auto = At(t, "unlock_reload")] \in Jobs
      BY <1>1, <2>1 DEF Jobs
    <2> QED
      BY <1>2, <1>10, <2>2 DEF LogUnlock, Goto, envVars
  <1> QED
    BY <1>3, <1>4, <1>5, <1>6, <1>7, <1>8, <1>9, <1>10 DEF Message

\* They are kept by the steps of a reload.
LEMMA ReloadTypes == ASSUME EnvInv, NEW t \in Threads, Reload(t) PROVE EnvTypes'
  <1> USE DEF EnvInv, EnvTypes
  <1>1. job[t] \in Jobs /\ job[t].n \in Nat /\ job[t].gen \in Nat /\ job[t].todo \in SUBSET Cats
        /\ NoJob \in Jobs
    BY NoJobType DEF Jobs
  <1>2. Places =
          {"start", "get", "failed", "idle", "rdlock", "wrlock", "fetch", "output", "count",
           "unlock", "unlock_reload", "reload", "update", "obtain", "err", "off", "dead"}
    BY DEF Places, StartPlaces, RunPlaces, ReadPlaces, WritePlaces
  <1>3. CASE ReloadAsk(t) \/ ReloadLock(t) \/ ReloadQuit(t) \/ ReloadErr(t)
    BY <1>1, <1>2, <1>3 DEF ReloadAsk, ReloadLock, ReloadQuit, ReloadErr, Goto, envVars
  <1>4. CASE ReloadRead(t)
    <2>1. contents' \in Seq(Contents) /\ Len(contents) + 1 \in Nat
      BY <1>4 DEF ReloadRead
    <2>2. [job[t] EXCEPT !.gen = Len(contents) + 1, !.todo = DOMAIN categories] \in Jobs
      BY <1>1, <2>1 DEF Jobs, CatsBetween
    <2>3. job' = [job EXCEPT ![t] = [job[t] EXCEPT !.gen = Len(contents) + 1,
                                                   !.todo = DOMAIN categories]]
      BY <1>4 DEF ReloadRead
    <2>4. job' \in [Threads -> Jobs]
      BY <2>2, <2>3
    <2>5. pc' \in [Threads -> Places]
      BY <1>2, <1>4 DEF ReloadRead, Goto
    <2> QED
      BY <1>4, <2>1, <2>4, <2>5 DEF ReloadRead
  <1>5. ASSUME NEW c \in Cats, UpdateBegin(t, c)
        PROVE  EnvTypes'
    <2>1. [job[t] EXCEPT !.cat = c, !.n = 1] \in Jobs
      BY <1>1 DEF Jobs
    <2>2. job' = [job EXCEPT ![t] = [job[t] EXCEPT !.cat = c, !.n = 1]]
      BY <1>5 DEF UpdateBegin
    <2> QED
      BY <1>2, <1>5, <2>1, <2>2 DEF UpdateBegin, Goto, envVars
  <1>6. CASE UpdateRule(t)
    <2>1. [job[t] EXCEPT !.n = job[t].n + 1] \in Jobs
      <3> DEFINE k == job[t].n + 1
      <3>1. k \in Nat
        BY <1>1
      <3> HIDE DEF k
      <3>2. [job[t] EXCEPT !.n = k] \in Jobs
        BY <1>1, <3>1 DEF Jobs
      <3> QED
        BY <3>2 DEF k
    <2>2. job' = [job EXCEPT ![t] = [job[t] EXCEPT !.n = job[t].n + 1]]
      BY <1>6 DEF UpdateRule
    <2> QED
      BY <1>6, <2>1, <2>2 DEF UpdateRule, envVars
  <1>7. CASE UpdateEnd(t)
    <2>1. [job[t] EXCEPT !.todo = job[t].todo \ {job[t].cat}] \in Jobs
      BY <1>1 DEF Jobs
    <2>2. job' = [job EXCEPT ![t] = [job[t] EXCEPT !.todo = job[t].todo \ {job[t].cat}]]
      BY <1>7 DEF UpdateEnd
    <2> QED
      BY <1>2, <1>7, <2>1, <2>2 DEF UpdateEnd, Goto, envVars
  <1>8. CASE ReloadCommit(t)
    <2>1. pc' \in [Threads -> Places] /\ job' \in [Threads -> Jobs]
      BY <1>1, <1>2, <1>8 DEF ReloadCommit, Goto
    <2>2. torn' = FALSE /\ is_init' = is_init
      BY <1>8 DEF ReloadCommit
    <2>3. is_init' \in BOOLEAN /\ torn' \in BOOLEAN
      BY <2>2
    <2>4. init_version' \in Nat /\ env_conf' \in Nat
      BY <1>1, <1>8 DEF ReloadCommit
    <2> QED
      BY <1>8, <2>1, <2>3, <2>4 DEF ReloadCommit
  <1>9. CASE UpdateFails(t)
    BY <1>1, <1>2, <1>9 DEF UpdateFails, Goto
  <1> QED
    BY <1>3, <1>4, <1>5, <1>6, <1>7, <1>8, <1>9 DEF Reload

\* They are kept by the short calls.
LEMMA CallsTypes == ASSUME EnvInv, NEW t \in Threads, Calls(t) PROVE EnvTypes'
  <1> USE DEF EnvInv, EnvTypes
  <1>1. tsd[t] \in Datas /\ tsd[t].mdc \in SUBSET Keys
    BY DEF Datas
  <1>2. ASSUME NEW k \in Keys, PutMdc(t, k)
        PROVE  EnvTypes'
    <2>1. Fetched(t) \in Datas /\ Fetched(t).mdc = tsd[t].mdc
      BY <1>2, FetchedType DEF PutMdc, Confs
    <2>2. [Fetched(t) EXCEPT !.mdc = Fetched(t).mdc \cup {k}] \in Datas
      BY <1>1, <2>1 DEF Datas
    <2> QED
      BY <1>2, <2>2 DEF PutMdc, envVars
  <1>3. ASSUME NEW K \in SUBSET Keys, RemoveMdc(t, K)
        PROVE  EnvTypes'
    <2>1. [tsd[t] EXCEPT !.mdc = tsd[t].mdc \ K] \in Datas
      BY <1>1 DEF Datas
    <2>2. tsd' = [tsd EXCEPT ![t] = [tsd[t] EXCEPT !.mdc = tsd[t].mdc \ K]]
      BY <1>3 DEF RemoveMdc
    <2> QED
      BY <1>3, <2>1, <2>2 DEF RemoveMdc, envVars
  <1>4. ASSUME NEW r \in RecNames, SetRecord(t, r)
        PROVE  EnvTypes'
    BY <1>4 DEF SetRecord, envVars
  <1>5. \A k \in Keys : {k} \in SUBSET Keys
    OBVIOUS
  <1>6. Keys \in SUBSET Keys
    OBVIOUS
  <1> QED
    BY <1>2, <1>3, <1>4, <1>5, <1>6 DEF Calls

-----------------------------------------------------------------------------
(***************************************************************************)
(* The lock.                                                               *)
(***************************************************************************)

\* A thread that is anywhere in a call runs when all do.
LEMMA AllRun ==
  ASSUME Locks, NEW t \in Threads, pc[t] \in RunPlaces
  PROVE  (\A u \in Threads : pc[u] \in RunPlaces) /\ is_init
  <1>1. pc[t] \notin StartPlaces /\ pc[t] # "off" /\ pc[t] # "dead"
    BY DEF RunPlaces, ReadPlaces, WritePlaces, StartPlaces
  <1>2. \A u \in Threads : pc[u] \in RunPlaces
    BY <1>1 DEF Locks, Alone
  <1>3. pc[Main] \notin {"start", "failed"}
    BY <1>2, ThreadAssumption DEF RunPlaces, ReadPlaces, WritePlaces
  <1> QED
    BY <1>2, <1>3 DEF Locks

\* The ways in which a thread's place and the lock move together.
LEMMA LockMoves ==
  ASSUME Locks, NEW t \in Threads, pc[t] \in RunPlaces, pc \in [Threads -> Places],
         NEW p \in RunPlaces, pc' = [pc EXCEPT ![t] = p], is_init' = is_init,
         \/ /\ pc[t] \notin ReadPlaces \cup WritePlaces /\ p \notin ReadPlaces \cup WritePlaces
            /\ UNCHANGED <<readers, writer>>
         \/ /\ pc[t] \in ReadPlaces /\ p \in ReadPlaces
            /\ UNCHANGED <<readers, writer>>
         \/ /\ pc[t] \in WritePlaces /\ p \in WritePlaces
            /\ UNCHANGED <<readers, writer>>
         \/ /\ pc[t] \notin ReadPlaces \cup WritePlaces /\ p \in ReadPlaces
            /\ writer = NoThread /\ readers' = readers \cup {t} /\ writer' = writer
         \/ /\ pc[t] \in ReadPlaces /\ p \notin ReadPlaces \cup WritePlaces
            /\ readers' = readers \ {t} /\ writer' = writer
         \/ /\ pc[t] \notin ReadPlaces \cup WritePlaces /\ p \in WritePlaces
            /\ LockFree /\ writer' = t /\ readers' = readers
         \/ /\ pc[t] \in WritePlaces /\ p \notin ReadPlaces \cup WritePlaces
            /\ writer' = NoThread /\ readers' = readers
  PROVE  Locks'
  <1>1. (\A u \in Threads : pc[u] \in RunPlaces) /\ is_init
    BY AllRun
  <1>2. pc'[t] = p /\ \A u \in Threads : u # t => pc'[u] = pc[u]
    OBVIOUS
  <1>3. \A u \in Threads : pc'[u] \in RunPlaces
    BY <1>1, <1>2
  <1>4. pc'[Main] \notin {"start", "failed"}
    BY <1>3, ThreadAssumption DEF RunPlaces, ReadPlaces, WritePlaces
  <1>5. ReadPlaces \cap WritePlaces = {}
    BY DEF ReadPlaces, WritePlaces
  <1>6. readers' = {u \in Threads : pc'[u] \in ReadPlaces}
    BY <1>2, <1>5 DEF Locks
  <1>7. \A u \in Threads : pc'[u] \in WritePlaces <=> writer' = u
    BY <1>2, <1>5, ThreadAssumption DEF Locks, LockFree
  <1>8. writer' \in Threads \cup {NoThread}
    BY DEF Locks
  <1>9. writer' # NoThread => readers' = {}
    BY <1>5 DEF Locks, LockFree
  <1> QED
    BY <1>1, <1>3, <1>4, <1>6, <1>7, <1>8, <1>9 DEF Locks

\* What zlog_init and zlog_get_category do, main being alone.
LEMMA StartLocks == ASSUME EnvInv, StartUp PROVE Locks'
  <1>1. Locks /\ pc \in [Threads -> Places]
    BY DEF EnvInv, EnvTypes
  <1>2. pc[Main] \in StartPlaces /\ Main \in Threads
    BY ThreadAssumption DEF StartUp, ZlogInit, Started, GetCategory, GetCategoryFails, At, StartPlaces
  <1>3. Alone
    BY <1>1, <1>2 DEF Locks, StartPlaces, RunPlaces, ReadPlaces, WritePlaces
  <1>4. readers = {} /\ writer = NoThread
    <2>1. \A t \in Threads : pc[t] \notin ReadPlaces \cup WritePlaces
      BY <1>2, <1>3 DEF Alone, StartPlaces, ReadPlaces, WritePlaces
    <2> QED
      BY <1>1, <2>1 DEF Locks
  <1>5. UNCHANGED <<readers, writer>>
    BY DEF StartUp, ZlogInit, Started, GetCategory, GetCategoryFails
  <1>6. CASE ZlogInit
    <2>1. PICK p \in {"get", "failed"} : pc' = [pc EXCEPT ![Main] = p] /\ (is_init' <=> p = "get")
      BY <1>6 DEF ZlogInit, Goto
    <2>2. pc'[Main] = p /\ \A t \in Threads \ {Main} : pc'[t] = "off"
      BY <1>1, <1>2, <1>3, <2>1 DEF Alone
    <2> QED
      BY <1>2, <1>4, <1>5, <2>1, <2>2, ThreadAssumption
      DEF Locks, Alone, StartPlaces, ReadPlaces, WritePlaces
  <1>7. ASSUME NEW c \in Cats, GetCategory(c)
        PROVE  Locks'
    BY <1>1, <1>5, <1>7 DEF GetCategory, Locks, Alone, envVars
  <1>8. ASSUME NEW c \in Cats, GetCategoryFails(c)
        PROVE  Locks'
    <2>1. pc'[Main] = "failed" /\ \A t \in Threads \ {Main} : pc'[t] = "off"
      BY <1>1, <1>2, <1>3, <1>8 DEF GetCategoryFails, Goto, Alone
    <2>2. is_init' = FALSE
      BY <1>8 DEF GetCategoryFails
    <2> QED
      BY <1>2, <1>4, <1>5, <2>1, <2>2, ThreadAssumption
      DEF Locks, Alone, StartPlaces, ReadPlaces, WritePlaces
  <1>9. CASE Started
    <2>1. (\A t \in Threads : pc'[t] = "idle") /\ is_init' = is_init /\ pc[Main] = "get"
      BY <1>9 DEF Started, envVars, At
    <2> QED
      BY <1>1, <1>2, <1>4, <1>5, <2>1, ThreadAssumption
      DEF Locks, RunPlaces, ReadPlaces, WritePlaces
  <1> QED
    BY <1>6, <1>7, <1>8, <1>9 DEF StartUp

\* A message takes and gives back the read lock.
LEMMA MessageLocks == ASSUME EnvInv, NEW t \in Threads, Message(t) PROVE Locks'
  <1>1. Locks /\ pc \in [Threads -> Places]
    BY DEF EnvInv, EnvTypes
  <1> USE DEF At, Goto, RunPlaces, ReadPlaces, WritePlaces
  <1>2. is_init' = is_init /\ writer' = writer
    BY DEF Message, LogCheck, LogLock, LogFetch, LogFetchFails, LogOutput, LogOutputFails,
           LogCount, LogUnlock, envVars
  <1>3. CASE \E c \in Cats, l \in Levels : LogCheck(t, c, l)
    BY <1>1, <1>2, <1>3, LockMoves DEF LogCheck
  <1>4. CASE LogLock(t)
    BY <1>1, <1>2, <1>4, LockMoves DEF LogLock
  <1>5. CASE LogFetch(t)
    BY <1>1, <1>2, <1>5, LockMoves DEF LogFetch
  <1>6. CASE LogFetchFails(t)
    BY <1>1, <1>2, <1>6, LockMoves DEF LogFetchFails
  <1>7. CASE LogOutput(t)
    BY <1>1, <1>2, <1>7, LockMoves DEF LogOutput
  <1>8. CASE LogOutputFails(t)
    BY <1>1, <1>2, <1>8, LockMoves DEF LogOutputFails
  <1>9. CASE LogCount(t)
    BY <1>1, <1>2, <1>9, LockMoves DEF LogCount
  <1>10. CASE LogUnlock(t)
    BY <1>1, <1>2, <1>10, LockMoves DEF LogUnlock
  <1> QED
    BY <1>3, <1>4, <1>5, <1>6, <1>7, <1>8, <1>9, <1>10 DEF Message

\* A reload takes and gives back the write lock.
LEMMA ReloadLocks == ASSUME EnvInv, NEW t \in Threads, Reload(t) PROVE Locks'
  <1>1. Locks /\ pc \in [Threads -> Places]
    BY DEF EnvInv, EnvTypes
  <1> USE DEF At, Goto, RunPlaces, ReadPlaces, WritePlaces
  <1>2. is_init' = is_init /\ readers' = readers
    BY DEF Reload, ReloadAsk, ReloadLock, ReloadQuit, ReloadRead, UpdateBegin, UpdateRule,
           UpdateFails, UpdateEnd, ReloadCommit, ReloadErr, envVars
  <1>3. CASE ReloadAsk(t)
    BY <1>1, <1>2, <1>3, LockMoves DEF ReloadAsk
  <1>4. CASE ReloadLock(t)
    BY <1>1, <1>2, <1>4, LockMoves DEF ReloadLock
  <1>5. CASE ReloadQuit(t)
    BY <1>1, <1>2, <1>5, LockMoves DEF ReloadQuit
  <1>6. CASE ReloadRead(t)
    BY <1>1, <1>2, <1>6, LockMoves DEF ReloadRead
  <1>7. CASE \E c \in Cats : UpdateBegin(t, c)
    BY <1>1, <1>2, <1>7, LockMoves DEF UpdateBegin
  <1>8. CASE UpdateRule(t)
    BY <1>1, <1>2, <1>8 DEF UpdateRule, Locks, Alone
  <1>9. CASE UpdateEnd(t)
    BY <1>1, <1>2, <1>9, LockMoves DEF UpdateEnd
  <1>10. CASE ReloadCommit(t)
    BY <1>1, <1>2, <1>10, LockMoves DEF ReloadCommit
  <1>11. CASE ReloadErr(t)
    BY <1>1, <1>2, <1>11, LockMoves DEF ReloadErr
  <1>12. CASE UpdateFails(t)
    BY <1>1, <1>2, <1>12, LockMoves DEF UpdateFails
  <1> QED
    BY <1>3, <1>4, <1>5, <1>6, <1>7, <1>8, <1>9, <1>10, <1>11, <1>12 DEF Reload

\* The short calls hold the lock for no longer than their step.
LEMMA CallsLocks == ASSUME EnvInv, NEW t \in Threads, Calls(t) PROVE Locks'
  <1>1. UNCHANGED <<readers, writer, pc, is_init>>
    BY DEF Calls, PutMdc, RemoveMdc, SetRecord, envVars
  <1> QED
    BY <1>1 DEF EnvInv, Locks, Alone

-----------------------------------------------------------------------------
(***************************************************************************)
(* The configuration, the categories and the hooks.                        *)
(***************************************************************************)

\* An entry with the rules of a configuration is a record.
LEMMA EntryRecord == ASSUME NEW c, NEW g, NEW b PROVE Record(Entry(c, g, b))
  <1>1. PICK x, y : x = ObtainRules(c, g) /\ y = BitsOf(ObtainRules(c, g))
    OBVIOUS
  <1>2. Entry(c, g, b) = [fit |-> x, backup |-> b, bits |-> y]
    BY <1>1 DEF Entry
  <1>3. PICK e : e = Entry(c, g, b)
    OBVIOUS
  <1>4. e = [fit |-> e.fit, backup |-> e.backup, bits |-> e.bits]
    BY <1>2, <1>3
  <1> QED
    BY <1>3, <1>4 DEF Record

\* What a generation was read from does not change, and so neither do its rules.
LEMMA EntryKept ==
  ASSUME NEW g, NEW c, NEW b, contents'[g] = contents[g]
  PROVE  Entry(c, g, b)' = Entry(c, g, b)
  <1>1. RulesOf(g)' = RulesOf(g)
    BY DEF RulesOf
  <1>2. ObtainRules(c, g)' = ObtainRules(c, g)
    BY <1>1 DEF ObtainRules
  <1>3. PICK l : l = ObtainRules(c, g)
    OBVIOUS
  <1>4. l.gen = g
    BY <1>3 DEF ObtainRules
  <1>5. BitsOf(l)' = BitsOf(l)
    BY <1>1, <1>4 DEF BitsOf
  <1>6. BitsOf(ObtainRules(c, g))' = BitsOf(l)'
    BY <1>2, <1>3 DEF BitsOf, RulesOf
  <1> QED
    BY <1>2, <1>3, <1>5, <1>6 DEF Entry

\* The same for its hooks.
LEMMA HookedKept ==
  ASSUME NEW g, NEW recs, contents'[g] = contents[g]
  PROVE  HookedIn(g, recs)' = HookedIn(g, recs)
  BY DEF HookedIn, Hooks, RulesOf

\* Only one thread is in the middle of a reload, and then nobody reads.
LEMMA OneWriter ==
  ASSUME Locks, NEW t \in Threads, pc[t] \in WritePlaces
  PROVE  writer = t /\ readers = {} /\ \A u \in Threads : u # t => pc[u] \notin WritePlaces
  BY ThreadAssumption DEF Locks

\* A thread that is not in the middle of a reload, before or after its step, and leaves
\* the environment alone.
LEMMA Untouched ==
  ASSUME EnvInv, NEW t \in Threads,
         pc[t] \notin {"update", "obtain", "err"}, pc'[t] \notin {"update", "obtain", "err"},
         \A u \in Threads : u # t => pc'[u] = pc[u] /\ job'[u] = job[u],
         UNCHANGED <<is_init, env_conf, contents, live, torn, categories, handles>>
  PROVE  Confs' /\ CatsBetween'
  <1>1. Confs /\ CatsBetween
    BY DEF EnvInv
  <1>2. \A u \in Threads : (Updating(u)' <=> Updating(u)) /\ (pc'[u] = "err" <=> pc[u] = "err")
                           /\ (pc'[u] = "obtain" <=> pc[u] = "obtain")
    BY DEF Updating
  <1>3. \A u \in Threads : pc[u] \in {"update", "obtain", "err"} => job'[u] = job[u]
    OBVIOUS
  <1>4. \A u \in Threads : Updating(u) => pc[u] \in {"update", "obtain", "err"}
    BY DEF Updating
  <1>5. Confs'
    BY <1>1, <1>2, <1>3, <1>4 DEF Confs
  <1>6. \A g, c, b : Entry(c, g, b)' = Entry(c, g, b)
    BY EntryKept
  <1>7. \A c \in handles : Entry(c, env_conf, NoList)' = Entry(c, env_conf, NoList)
    BY <1>6 DEF Entry, ObtainRules, BitsOf, RulesOf
  <1>8. \A u \in Threads : Updating(u) => \A c \in handles :
          Entry(c, job[u].gen, categories[c].backup)' = Entry(c, job[u].gen, categories[c].backup)
    <2> SUFFICES ASSUME NEW u \in Threads, Updating(u), NEW c \in handles
                 PROVE  Entry(c, job[u].gen, categories[c].backup)' =
                          Entry(c, job[u].gen, categories[c].backup)
      OBVIOUS
    <2>1. PICK g, b : g = job[u].gen /\ b = categories[c].backup
      OBVIOUS
    <2>2. g = job'[u].gen /\ b = categories'[c].backup
      BY <1>3, <1>4, <2>1
    <2>3. Entry(c, g, b)' = Entry(c, g, b)
      BY <1>6
    <2>4. Entry(c, job[u].gen, categories[c].backup)' = Entry(c, g, b)'
      BY <2>2 DEF Entry, ObtainRules, BitsOf, RulesOf
    <2> QED
      BY <2>1, <2>3, <2>4
  <1>9. \A c \in handles' : Record(categories[c])'
    BY <1>1 DEF CatsBetween, Record
  <1>10. CatsBetween'
    BY <1>1, <1>2, <1>3, <1>4, <1>7, <1>8, <1>9 DEF CatsBetween
  <1> QED
    BY <1>5, <1>10

\* The same for the hooks.
LEMMA UntouchedHooks ==
  ASSUME EnvInv, NEW t \in Threads, pc[t] \in RunPlaces, pc'[t] \in RunPlaces,
         pc[t] \notin {"update", "obtain"}, pc'[t] \notin {"update", "obtain"},
         \A u \in Threads : u # t => pc'[u] = pc[u] /\ job'[u] = job[u],
         UNCHANGED <<is_init, env_conf, contents, records, hooked>>
  PROVE  HooksSet'
  <1>1. \A u \in Threads : pc'[u] \in RunPlaces
    BY AllRun DEF EnvInv
  <1>2. pc'[Main] \notin StartPlaces
    BY <1>1, ThreadAssumption DEF RunPlaces, ReadPlaces, WritePlaces, StartPlaces
  <1>3. HookedIn(env_conf, records)' = HookedIn(env_conf, records)
    BY DEF HookedIn, Hooks, RulesOf
  <1>4. \A u \in Threads : Updating(u)' =>
          Updating(u) /\ HookedIn(job[u].gen, records)' = HookedIn(job[u].gen, records)
    BY DEF Updating, HookedIn, Hooks, RulesOf
  <1> QED
    BY <1>2, <1>3, <1>4 DEF EnvInv, HooksSet

\* Messages leave the environment alone, except for the counter.
LEMMA MessageEnv ==
  ASSUME EnvInv, NEW t \in Threads, Message(t)
  PROVE  Confs' /\ CatsBetween' /\ HooksSet'
  <1>1. pc \in [Threads -> Places] /\ job \in [Threads -> Jobs]
    BY DEF EnvInv, EnvTypes
  <1>2. UNCHANGED <<is_init, env_conf, contents, live, torn, categories, handles, records, hooked>>
    BY DEF Message, LogCheck, LogLock, LogFetch, LogFetchFails, LogOutput, LogOutputFails,
           LogCount, LogUnlock, envVars
  <1>3. \E p : pc' = [pc EXCEPT ![t] = p]
    BY DEF Message, LogCheck, LogLock, LogFetch, LogFetchFails, LogOutput, LogOutputFails,
           LogCount, LogUnlock, Goto
  <1>4. \A u \in Threads : u # t => job'[u] = job[u]
    BY <1>1 DEF Message, LogCheck, LogLock, LogFetch, LogFetchFails, LogOutput,
                LogOutputFails, LogCount, LogUnlock
  <1>5. \A u \in Threads : u # t => pc'[u] = pc[u]
    BY <1>1, <1>3
  <1>6. pc[t] \in {"idle", "rdlock", "fetch", "output", "count", "unlock", "unlock_reload"}
    BY DEF Message, LogCheck, LogLock, LogFetch, LogFetchFails, LogOutput, LogOutputFails,
           LogCount, LogUnlock, At
  <1>7. pc'[t] \in {"rdlock", "fetch", "output", "idle", "count", "unlock", "unlock_reload", "wrlock"}
    BY <1>1 DEF Message, LogCheck, LogLock, LogFetch, LogFetchFails, LogOutput, LogOutputFails,
           LogCount, LogUnlock, Goto
  <1>8. Confs' /\ CatsBetween'
    BY <1>2, <1>4, <1>5, <1>6, <1>7, Untouched
  <1>9. HooksSet'
    BY <1>2, <1>4, <1>5, <1>6, <1>7, UntouchedHooks DEF RunPlaces, ReadPlaces, WritePlaces
  <1> QED
    BY <1>8, <1>9

\* The short calls change a thread's mdc, or the records.
LEMMA CallsEnv ==
  ASSUME EnvInv, NEW t \in Threads, Calls(t)
  PROVE  Confs' /\ CatsBetween' /\ HooksSet'
  <1>1. /\ UNCHANGED <<is_init, env_conf, contents, live, torn, categories, handles, pc, job>>
        /\ pc[t] = "idle"
    BY DEF Calls, PutMdc, RemoveMdc, SetRecord, envVars, At
  <1>2. Confs' /\ CatsBetween'
    BY <1>1, Untouched
  <1>3. CASE UNCHANGED <<records, hooked>>
    BY <1>1, <1>2, <1>3, UntouchedHooks DEF RunPlaces, ReadPlaces, WritePlaces
  <1>4. ASSUME NEW r \in RecNames, SetRecord(t, r)
        PROVE  HooksSet'
    <2>1. \A u \in Threads : pc[u] \in RunPlaces /\ ~Updating(u)
      <3>1. \A u \in Threads : pc[u] \in RunPlaces
        BY <1>1, AllRun DEF EnvInv, RunPlaces
      <3>2. \A u \in Threads : pc[u] \notin WritePlaces
        BY <1>4, ThreadAssumption DEF SetRecord, LockFree, EnvInv, Locks
      <3> QED
        BY <3>1, <3>2 DEF Updating, WritePlaces
    <2>2. pc[Main] \notin StartPlaces
      BY <2>1, ThreadAssumption DEF RunPlaces, ReadPlaces, WritePlaces, StartPlaces
    <2>3. records' = records \cup {r} /\ hooked' = hooked \cup HookedIn(env_conf, records \cup {r})
      BY <1>4 DEF SetRecord
    <2>4. PICK g, recs : g = env_conf /\ recs = records \cup {r}
      OBVIOUS
    <2>5. HookedIn(env_conf, records)' = HookedIn(g, recs)'
      BY <1>1, <2>3, <2>4 DEF HookedIn, Hooks, RulesOf
    <2>6. HookedIn(g, recs)' = HookedIn(g, recs)
      BY <1>1, HookedKept
    <2>7. HookedIn(env_conf, records)' \subseteq hooked'
      BY <2>3, <2>4, <2>5, <2>6
    <2> QED
      BY <1>1, <2>1, <2>2, <2>7 DEF HooksSet, Updating
  <1>5. UNCHANGED <<records, hooked>> \/ \E r \in RecNames : SetRecord(t, r)
    BY DEF Calls, PutMdc, RemoveMdc
  <1> QED
    BY <1>2, <1>3, <1>4, <1>5

\* A reload that begins or is given up.
LEMMA ReloadIdleEnv ==
  ASSUME EnvInv, NEW t \in Threads, ReloadAsk(t) \/ ReloadLock(t) \/ ReloadQuit(t)
  PROVE  Confs' /\ CatsBetween' /\ HooksSet'
  <1>1. pc \in [Threads -> Places] /\ job \in [Threads -> Jobs]
    BY DEF EnvInv, EnvTypes
  <1> USE DEF ReloadAsk, ReloadLock, ReloadQuit
  <1>2. UNCHANGED <<is_init, env_conf, contents, live, torn, categories, handles, records, hooked>>
    BY DEF envVars
  <1>3. \A u \in Threads : u # t => job'[u] = job[u] /\ pc'[u] = pc[u]
    BY <1>1 DEF Goto
  <1>4. pc[t] \in {"idle", "wrlock", "reload"} /\ pc'[t] \in {"idle", "wrlock", "reload"}
    BY <1>1 DEF Goto, At
  <1>5. Confs' /\ CatsBetween'
    BY <1>2, <1>3, <1>4, Untouched
  <1>6. HooksSet'
    BY <1>2, <1>3, <1>4, UntouchedHooks DEF RunPlaces, ReadPlaces, WritePlaces
  <1> QED
    BY <1>5, <1>6

\* What is known of the environment while the thread t has the write lock.
LEMMA WriterAlone ==
  ASSUME EnvInv, NEW t \in Threads, pc[t] \in WritePlaces
  PROVE  /\ is_init /\ env_conf \in 1 .. Len(contents) /\ writer = t
         /\ \A u \in Threads : pc[u] \in RunPlaces
         /\ \A u \in Threads : u # t =>
              ~Updating(u) /\ pc[u] \notin WritePlaces /\ pc[u] \notin ReadPlaces
         /\ pc[Main] \notin StartPlaces
  <1>1. pc[t] \in RunPlaces
    BY DEF RunPlaces
  <1>2. is_init /\ \A u \in Threads : pc[u] \in RunPlaces
    BY <1>1, AllRun DEF EnvInv
  <1>3. writer = t /\ readers = {} /\ \A u \in Threads : u # t => pc[u] \notin WritePlaces
    BY OneWriter DEF EnvInv
  <1>4. \A u \in Threads : pc[u] \notin ReadPlaces
    BY <1>3 DEF EnvInv, Locks
  <1>5. pc[Main] \notin StartPlaces
    BY <1>2, ThreadAssumption DEF RunPlaces, ReadPlaces, WritePlaces, StartPlaces
  <1> QED
    BY <1>2, <1>3, <1>4, <1>5 DEF EnvInv, Confs, Updating, WritePlaces

\* The generations that are there do not change when one is read.
LEMMA AppendKeeps ==
  ASSUME EnvTypes, NEW c \in Contents, contents' = Append(contents, c)
  PROVE  /\ Len(contents) \in Nat /\ Len(contents') = Len(contents) + 1
         /\ contents'[Len(contents) + 1] = c
         /\ \A g \in 1 .. Len(contents) : contents'[g] = contents[g]
  BY DEF EnvTypes

\* A configuration is read: no category is touched yet, and its rules get their hooks.
LEMMA ReloadReadEnv ==
  ASSUME EnvInv, NEW t \in Threads, ReloadRead(t)
  PROVE  Confs' /\ CatsBetween' /\ HooksSet'
  <1> DEFINE g == Len(contents) + 1
  <1>1. pc[t] = "reload" /\ pc[t] \in WritePlaces
    BY DEF ReloadRead, At, WritePlaces
  <1>2. /\ is_init /\ env_conf \in 1 .. Len(contents)
        /\ \A u \in Threads : u # t => ~Updating(u) /\ pc[u] \notin WritePlaces
        /\ pc[Main] \notin StartPlaces
    BY <1>1, WriterAlone
  <1>3. \A u \in Threads : ~Updating(u) /\ pc[u] # "err"
    BY <1>1, <1>2 DEF Updating, WritePlaces
  <1>4. EnvTypes /\ pc \in [Threads -> Places] /\ job \in [Threads -> Jobs] /\ job[t] \in Jobs
    BY DEF EnvInv, EnvTypes
  <1>5. /\ UNCHANGED <<is_init, env_conf, torn, categories, handles, records>>
        /\ job' = [job EXCEPT ![t].gen = g, ![t].todo = DOMAIN categories]
    BY DEF ReloadRead
  <1>6. PICK c \in Contents :
          /\ contents' = Append(contents, c)
          /\ live' = IF c \in Parses THEN live \cup {g} ELSE live
          /\ hooked' = IF c \in Parses THEN hooked \cup ReadHooks(c, g) ELSE hooked
          /\ pc' = [pc EXCEPT ![t] = IF c \in Parses THEN "update" ELSE "err"]
    BY DEF ReloadRead, Goto
  <1>7. /\ Len(contents) \in Nat /\ Len(contents') = g /\ contents'[g] = c
        /\ contents'[env_conf] = contents[env_conf]
    BY <1>2, <1>4, <1>6, AppendKeeps
  <1>8. job'[t].gen = g /\ job'[t].todo = DOMAIN categories
    BY <1>4, <1>5 DEF Jobs
  <1>9. /\ pc'[t] = IF c \in Parses THEN "update" ELSE "err"
        /\ \A u \in Threads : u # t => pc'[u] = pc[u]
    BY <1>4, <1>6
  <1>10. /\ \A u \in Threads : u # t => ~Updating(u)' /\ pc'[u] \notin {"update", "obtain", "err"}
         /\ Updating(t)' <=> c \in Parses
    BY <1>2, <1>9 DEF Updating, WritePlaces
  <1>11. live = {env_conf}
    BY <1>2, <1>3 DEF EnvInv, Confs
  <1>12. env_conf < g /\ env_conf \in Nat
    BY <1>2, <1>7
  <1> HIDE DEF g
  <1>13. Confs'
    <2>1. env_conf' \in 1 .. Len(contents')
      BY <1>2, <1>5, <1>7 DEF g
    <2>2. /\ (\A u \in Threads : ~Updating(u)' /\ pc'[u] # "err") => live' = {env_conf'}
          /\ \A u \in Threads : pc'[u] = "err" => live' \ {job'[u].gen} = {env_conf'}
      <3>1. CASE c \in Parses
        BY <1>9, <1>10, <3>1
      <3>2. CASE c \notin Parses
        <4>1. live' = {env_conf} /\ env_conf' = env_conf
          BY <1>5, <1>6, <1>11, <3>2
        <4>2. live' \ {g} = {env_conf'}
          BY <1>12, <4>1
        <4> QED
          BY <1>8, <1>10, <4>1, <4>2
      <3> QED
        BY <3>1, <3>2
    <2>3. \A u \in Threads : pc'[u] \in {"update", "obtain", "err"} =>
            job'[u].gen = Len(contents') /\ env_conf' < Len(contents')
      BY <1>5, <1>7, <1>8, <1>10, <1>12
    <2>4. \A u \in Threads : Updating(u)' => live' = {env_conf', job'[u].gen}
      BY <1>5, <1>6, <1>8, <1>10, <1>11
    <2> QED
      BY <1>2, <1>5, <2>1, <2>2, <2>3, <2>4 DEF Confs
  <1>14. CatsBetween'
    <2>1. /\ handles = DOMAIN categories /\ \A d \in handles : Record(categories[d])
          /\ ~torn => \A d \in handles : categories[d] = Entry(d, env_conf, NoList)
      BY <1>3 DEF EnvInv, CatsBetween
    <2>2. \A d \in handles : Entry(d, env_conf, NoList)' = Entry(d, env_conf, NoList)
      <3> SUFFICES ASSUME NEW d \in handles
                   PROVE  Entry(d, env_conf, NoList)' = Entry(d, env_conf, NoList)
        OBVIOUS
      <3>1. PICK k : k = env_conf
        OBVIOUS
      <3>2. Entry(d, k, NoList)' = Entry(d, k, NoList)
        BY <1>7, <3>1, EntryKept
      <3>3. Entry(d, env_conf, NoList)' = Entry(d, k, NoList)'
        BY <1>5, <3>1 DEF Entry, ObtainRules, BitsOf, RulesOf
      <3> QED
        BY <3>1, <3>2, <3>3
    <2>3. \A u \in Threads : pc'[u] # "obtain"
      BY <1>9, <1>10
    <2>4. \A d \in handles' : Record(categories[d])'
      BY <1>5, <2>1 DEF Record
    <2> QED
      BY <1>5, <1>8, <1>10, <2>1, <2>2, <2>3, <2>4 DEF CatsBetween
  <1>15. HooksSet'
    <2>1. pc'[Main] \notin StartPlaces
      BY <1>2, <1>9, ThreadAssumption DEF StartPlaces
    <2>2. PICK k, recs : k = env_conf /\ recs = records
      OBVIOUS
    <2>3. HookedIn(env_conf, records)' = HookedIn(k, recs)
      <3>1. HookedIn(env_conf, records)' = HookedIn(k, recs)'
        BY <1>5, <2>2 DEF HookedIn, Hooks, RulesOf
      <3> QED
        BY <1>7, <2>2, <3>1, HookedKept
    <2>4. HookedIn(env_conf, records)' \subseteq hooked'
      BY <1>2, <1>6, <2>2, <2>3 DEF EnvInv, HooksSet
    <2>5. Updating(t)' => HookedIn(job[t].gen, records)' \subseteq hooked'
      <3>1. HookedIn(job[t].gen, records)' = ReadHooks(c, g)
        BY <1>5, <1>7, <1>8 DEF HookedIn, Hooks, RulesOf, ReadHooks
      <3> QED
        BY <1>6, <1>10, <3>1
    <2> QED
      BY <1>10, <2>1, <2>4, <2>5 DEF HooksSet
  <1> QED
    BY <1>13, <1>14, <1>15

\* A step of an update that leaves the configurations and the hooks alone.
LEMMA UpdatingKeeps ==
  ASSUME EnvInv, NEW t \in Threads, Updating(t), Updating(t)',
         \A u \in Threads : u # t => pc'[u] = pc[u] /\ job'[u] = job[u],
         job'[t].gen = job[t].gen,
         UNCHANGED <<is_init, env_conf, contents, live, records, hooked>>
  PROVE  Confs' /\ HooksSet'
  <1>1. pc[t] \in WritePlaces
    BY DEF Updating, WritePlaces
  <1>2. /\ is_init
        /\ \A u \in Threads : u # t => ~Updating(u) /\ pc[u] \notin WritePlaces
        /\ pc[Main] \notin StartPlaces
    BY <1>1, WriterAlone
  <1>3. /\ \A u \in Threads : u # t => ~Updating(u)' /\ pc'[u] \notin {"update", "obtain", "err"}
    BY <1>2 DEF Updating, WritePlaces
  <1>4. Confs'
    BY <1>3 DEF EnvInv, Confs, Updating
  <1>5. pc'[Main] \notin StartPlaces
    BY <1>2, ThreadAssumption DEF Updating, StartPlaces
  <1>6. HookedIn(env_conf, records)' = HookedIn(env_conf, records)
    BY DEF HookedIn, Hooks, RulesOf
  <1>7. HookedIn(job[t].gen, records)' = HookedIn(job[t].gen, records)
    BY DEF HookedIn, Hooks, RulesOf
  <1>8. HooksSet'
    BY <1>3, <1>5, <1>6, <1>7 DEF EnvInv, HooksSet
  <1> QED
    BY <1>4, <1>8

\* The categories while t, and nobody else, updates them.
LEMMA CatsOfWriter ==
  ASSUME NEW t \in Threads, Updating(t)', \A u \in Threads : u # t => ~Updating(u)',
         UNCHANGED <<contents, env_conf>>, handles' = DOMAIN categories',
         \A c \in handles' : Record(categories'[c]),
         NEW g, g = job'[t].gen, NEW todo, todo = job'[t].todo, todo \subseteq handles',
         ~torn' => \A c \in todo : (pc'[t] = "obtain" => c # job'[t].cat) =>
           categories'[c] = Entry(c, env_conf, NoList),
         \A c \in handles' \ todo : categories'[c] = Entry(c, g, categories'[c].backup),
         pc'[t] = "obtain" => job'[t].cat \in todo
  PROVE  CatsBetween'
  <1>1. \A k, c, b : Entry(c, k, b)' = Entry(c, k, b)
    BY EntryKept
  <1>2. \A c \in handles' : Entry(c, env_conf, NoList)' = Entry(c, env_conf, NoList)
    BY <1>1 DEF Entry, ObtainRules, BitsOf, RulesOf
  <1>3. \A c \in handles' :
          Entry(c, job[t].gen, categories[c].backup)' = Entry(c, g, categories'[c].backup)
    <2> SUFFICES ASSUME NEW c \in handles'
                 PROVE  Entry(c, job[t].gen, categories[c].backup)' =
                          Entry(c, g, categories'[c].backup)
      OBVIOUS
    <2>1. PICK b : b = categories'[c].backup
      OBVIOUS
    <2>2. Entry(c, g, b)' = Entry(c, g, b)
      BY <1>1
    <2>3. Entry(c, job[t].gen, categories[c].backup)' = Entry(c, g, b)'
      BY <2>1 DEF Entry, ObtainRules, BitsOf, RulesOf
    <2> QED
      BY <2>1, <2>2, <2>3
  <1>4. \A u \in Threads : pc'[u] = "obtain" => u = t
    BY DEF Updating
  <1>5. \A c \in handles' : Record(categories[c])'
    BY DEF Record
  <1> QED
    BY <1>2, <1>3, <1>4, <1>5 DEF CatsBetween

\* zlog_category_update_rules, from its first line to its last.
LEMMA UpdateEnv ==
  ASSUME EnvInv, NEW t \in Threads,
         (\E c \in Cats : UpdateBegin(t, c)) \/ UpdateRule(t) \/ UpdateEnd(t)
  PROVE  Confs' /\ CatsBetween' /\ HooksSet'
  <1>1. pc \in [Threads -> Places] /\ job \in [Threads -> Jobs] /\ job[t] \in Jobs /\ CatsBetween
    BY DEF EnvInv, EnvTypes
  <1>2. Updating(t) /\ Updating(t)' /\ \A u \in Threads : u # t => pc'[u] = pc[u]
    BY <1>1 DEF UpdateBegin, UpdateRule, UpdateEnd, Updating, At, Goto
  <1>3. UNCHANGED <<is_init, env_conf, contents, live, torn, records, hooked, handles>>
    BY DEF UpdateBegin, UpdateRule, UpdateEnd, envVars
  <1>4. job'[t].gen = job[t].gen /\ \A u \in Threads : u # t => job'[u] = job[u]
    <2>1. CASE \E c \in Cats : UpdateBegin(t, c)
      <3>1. PICK c : job' = [job EXCEPT ![t] = [job[t] EXCEPT !.cat = c, !.n = 1]]
        BY <2>1, ZenonT(60) DEF UpdateBegin
      <3> QED
        BY <1>1, <3>1 DEF Jobs
    <2>2. CASE UpdateRule(t)
      <3>1. PICK n : job' = [job EXCEPT ![t] = [job[t] EXCEPT !.n = n]]
        BY <2>2 DEF UpdateRule
      <3> QED
        BY <1>1, <3>1 DEF Jobs
    <2>3. CASE UpdateEnd(t)
      <3>1. PICK d : job' = [job EXCEPT ![t] = [job[t] EXCEPT !.todo = d]]
        BY <2>3 DEF UpdateEnd
      <3> QED
        BY <1>1, <3>1 DEF Jobs
    <2> QED
      BY <2>1, <2>2, <2>3
  <1>5. Confs' /\ HooksSet'
    BY <1>2, <1>3, <1>4, UpdatingKeeps
  <1>6. \A u \in Threads : u # t => ~Updating(u) /\ ~Updating(u)'
    <2>1. pc[t] \in WritePlaces
      BY <1>2 DEF Updating, WritePlaces
    <2> QED
      BY <1>2, <2>1, WriterAlone DEF Updating
  <1>7. PICK g, todo : g = job[t].gen /\ todo = job[t].todo
    OBVIOUS
  <1>8. /\ handles = DOMAIN categories /\ todo \subseteq handles
        /\ \A c \in handles : Record(categories[c])
        /\ ~torn => \A c \in todo : (pc[t] = "obtain" => c # job[t].cat) =>
             categories[c] = Entry(c, env_conf, NoList)
        /\ \A c \in handles \ todo : categories[c] = Entry(c, g, categories[c].backup)
    BY <1>1, <1>2, <1>6, <1>7 DEF CatsBetween
  <1>9. ASSUME NEW c \in Cats, UpdateBegin(t, c)
        PROVE  CatsBetween'
    <2>1. /\ pc[t] = "update" /\ pc'[t] = "obtain" /\ c \in todo
          /\ categories' = [categories EXCEPT ![c] =
                              [fit |-> [gen |-> job[t].gen, rules |-> {}],
                               backup |-> categories[c].fit, bits |-> {}]]
      BY <1>1, <1>7, <1>9 DEF UpdateBegin, At, Goto
    <2>2. job'[t].cat = c /\ job'[t].todo = todo
      BY <1>1, <1>7, <1>9 DEF UpdateBegin, Jobs
    <2>3. categories'[c] = [fit |-> [gen |-> job[t].gen, rules |-> {}],
                            backup |-> categories[c].fit, bits |-> {}]
      BY <1>8, <2>1
    <2>4. DOMAIN categories' = handles' /\ \A d \in handles : d # c => categories'[d] = categories[d]
      BY <1>3, <1>8, <2>1
    <2>5. \A d \in handles' : Record(categories'[d])
      <3>1. Record(categories'[c])
        BY <2>3 DEF Record
      <3> QED
        BY <1>3, <1>8, <2>4, <3>1
    <2>6. ~torn' => \A d \in todo : d # c => categories'[d] = Entry(d, env_conf, NoList)
      BY <1>3, <1>8, <2>1, <2>4
    <2>7. \A d \in handles' \ todo : categories'[d] = Entry(d, g, categories'[d].backup)
      BY <1>3, <1>8, <2>1, <2>4
    <2> QED
      <3>1. g = job'[t].gen /\ todo = job'[t].todo /\ todo \subseteq handles' /\ handles' = DOMAIN categories'
        BY <1>3, <1>4, <1>7, <1>8, <2>2, <2>4
      <3>2. ~torn' => \A d \in todo : (pc'[t] = "obtain" => d # job'[t].cat) =>
              categories'[d] = Entry(d, env_conf, NoList)
        BY <2>1, <2>2, <2>6
      <3>3. job'[t].cat \in todo
        BY <2>1, <2>2
      <3> QED
        BY <1>2, <1>3, <1>6, <2>5, <2>7, <3>1, <3>2, <3>3, CatsOfWriter
  <1>10. ASSUME pc[t] = "obtain"
         PROVE  /\ job[t].cat \in todo /\ job[t].cat \in handles
                /\ Record(categories[job[t].cat])
    BY <1>1, <1>7, <1>8, <1>10 DEF CatsBetween
  <1>11. CASE UpdateRule(t)
    <2>1. PICK c : c = job[t].cat
      OBVIOUS
    <2>2. /\ pc[t] = "obtain" /\ pc'[t] = "obtain"
          /\ \/ categories' = categories
             \/ \E x, y : categories' = [categories EXCEPT ![c] =
                                           [categories[c] EXCEPT !.fit = x, !.bits = y]]
      <3>1. pc[t] = "obtain" /\ pc' = pc
        BY <1>11 DEF UpdateRule, At
      <3>2. \/ categories' = categories
            \/ \E x, y : categories' = [categories EXCEPT ![c].fit.rules = x, ![c].bits = y]
        BY <1>11, <2>1 DEF UpdateRule
      <3>3. ASSUME NEW x, NEW y,
                   categories' = [categories EXCEPT ![c].fit.rules = x, ![c].bits = y]
            PROVE  \E z, v : categories' = [categories EXCEPT ![c] =
                                              [categories[c] EXCEPT !.fit = z, !.bits = v]]
        <4>1. categories' = [categories EXCEPT ![c] =
                [categories[c] EXCEPT !.fit = [categories[c].fit EXCEPT !.rules = x], !.bits = y]]
          BY <3>3
        <4> QED
          BY <4>1
      <3> QED
        BY <3>1, <3>2, <3>3
    <2>3. job'[t].cat = c /\ job'[t].todo = todo
      BY <1>1, <1>7, <1>11, <2>1 DEF UpdateRule, Jobs
    <2>4. DOMAIN categories' = handles' /\ \A d \in handles : d # c => categories'[d] = categories[d]
      BY <1>3, <1>8, <2>2
    <2>5. Record(categories'[c])
      <3>1. PICK f, b, s : categories[c] = [fit |-> f, backup |-> b, bits |-> s]
        BY <1>10, <2>1, <2>2 DEF Record
      <3>2. c \in DOMAIN categories
        BY <1>8, <1>10, <2>1, <2>2
      <3>3. CASE categories' = categories
        BY <3>1, <3>3 DEF Record
      <3>4. ASSUME NEW x, NEW y,
                   categories' = [categories EXCEPT ![c] = [categories[c] EXCEPT !.fit = x, !.bits = y]]
            PROVE  Record(categories'[c])
        <4>1. categories'[c] = [[fit |-> f, backup |-> b, bits |-> s] EXCEPT !.fit = x, !.bits = y]
          BY <3>1, <3>2, <3>4
        <4>2. categories'[c] = [fit |-> x, backup |-> b, bits |-> y]
          BY <4>1
        <4> QED
          BY <4>2 DEF Record
      <3> QED
        BY <2>2, <3>3, <3>4
    <2>6. ~torn' => \A d \in todo : d # c => categories'[d] = Entry(d, env_conf, NoList)
      BY <1>3, <1>8, <2>1, <2>2, <2>4
    <2>7. \A d \in handles' \ todo : categories'[d] = Entry(d, g, categories'[d].backup)
      BY <1>3, <1>8, <1>10, <2>1, <2>2, <2>4
    <2> QED
      <3>1. g = job'[t].gen /\ todo = job'[t].todo /\ todo \subseteq handles' /\ handles' = DOMAIN categories'
        BY <1>3, <1>4, <1>7, <1>8, <2>3, <2>4
      <3>2. ~torn' => \A d \in todo : (pc'[t] = "obtain" => d # job'[t].cat) =>
              categories'[d] = Entry(d, env_conf, NoList)
        BY <2>2, <2>3, <2>6
      <3>3. job'[t].cat \in todo /\ \A d \in handles' : Record(categories'[d])
        BY <1>3, <1>8, <1>10, <2>1, <2>2, <2>3, <2>4, <2>5
      <3> QED
        BY <1>2, <1>3, <1>5, <1>6, <2>7, <3>1, <3>2, <3>3, CatsOfWriter
  <1>12. CASE UpdateEnd(t)
    <2>1. PICK c : c = job[t].cat
      OBVIOUS
    <2>2. /\ pc[t] = "obtain" /\ pc'[t] = "update"
          /\ categories' = [categories EXCEPT ![c] =
               [categories[c] EXCEPT !.fit = ObtainRules(c, g), !.bits = BitsOf(ObtainRules(c, g))]]
      BY <1>1, <1>7, <1>12, <2>1 DEF UpdateEnd, At, Goto
    <2>3. job'[t].todo = todo \ {c}
      BY <1>1, <1>7, <1>12, <2>1 DEF UpdateEnd, Jobs
    <2>4. DOMAIN categories' = handles' /\ \A d \in handles : d # c => categories'[d] = categories[d]
      BY <1>3, <1>8, <2>2
    <2>5. categories'[c] = Entry(c, g, categories'[c].backup)
      <3>1. PICK f, b, s : categories[c] = [fit |-> f, backup |-> b, bits |-> s]
        BY <1>10, <2>1, <2>2 DEF Record
      <3>2. c \in DOMAIN categories
        BY <1>8, <1>10, <2>1, <2>2
      <3>3. PICK x, y : x = ObtainRules(c, g) /\ y = BitsOf(ObtainRules(c, g))
        OBVIOUS
      <3>4. categories'[c] = [[fit |-> f, backup |-> b, bits |-> s] EXCEPT !.fit = x, !.bits = y]
        BY <2>2, <3>1, <3>2, <3>3
      <3>5. categories'[c] = [fit |-> x, backup |-> b, bits |-> y]
        BY <3>4
      <3> QED
        BY <3>3, <3>5 DEF Entry
    <2>6. ~torn' => \A d \in todo \ {c} : categories'[d] = Entry(d, env_conf, NoList)
      BY <1>3, <1>8, <2>1, <2>2, <2>4
    <2>7. \A d \in handles' \ (todo \ {c}) : categories'[d] = Entry(d, g, categories'[d].backup)
      BY <1>3, <1>8, <2>4, <2>5
    <2> QED
      <3>1. PICK left : left = todo \ {c}
        OBVIOUS
      <3>2. g = job'[t].gen /\ left = job'[t].todo /\ left \subseteq handles' /\ handles' = DOMAIN categories'
        BY <1>3, <1>4, <1>7, <1>8, <2>3, <2>4, <3>1
      <3>3. ~torn' => \A d \in left : (pc'[t] = "obtain" => d # job'[t].cat) =>
              categories'[d] = Entry(d, env_conf, NoList)
        BY <2>6, <3>1
      <3>4. \A d \in handles' \ left : categories'[d] = Entry(d, g, categories'[d].backup)
        BY <2>7, <3>1
      <3>5. pc'[t] # "obtain" /\ \A d \in handles' : Record(categories'[d])
        <4>1. Record(categories'[c])
          <5>1. PICK e : e = categories'[c].backup
            OBVIOUS
          <5> QED
            BY <2>5, <5>1, EntryRecord
        <4> QED
          BY <1>3, <1>8, <2>2, <2>4, <4>1
      <3> QED
        BY <1>2, <1>3, <1>5, <1>6, <3>2, <3>3, <3>4, <3>5, CatsOfWriter
  <1> QED
    BY <1>5, <1>9, <1>11, <1>12

\* The new configuration is put in force: every category has its rules, and the old one
\* goes with its hooks.
LEMMA ReloadCommitEnv ==
  ASSUME EnvInv, NEW t \in Threads, ReloadCommit(t)
  PROVE  Confs' /\ CatsBetween' /\ HooksSet'
  <1>1. pc[t] = "update" /\ pc[t] \in WritePlaces /\ Updating(t) /\ job[t].todo = {}
    BY DEF ReloadCommit, At, WritePlaces, Updating
  <1>2. /\ is_init /\ env_conf \in 1 .. Len(contents)
        /\ \A u \in Threads : u # t => ~Updating(u) /\ pc[u] \notin WritePlaces
        /\ pc[Main] \notin StartPlaces
    BY <1>1, WriterAlone
  <1>3. pc \in [Threads -> Places] /\ contents \in Seq(Contents)
    BY DEF EnvInv, EnvTypes
  <1>4. PICK g : g = job[t].gen
    OBVIOUS
  <1>5. g = Len(contents) /\ env_conf < g /\ g # env_conf /\ live = {env_conf, g}
    BY <1>1, <1>2, <1>3, <1>4 DEF EnvInv, Confs
  <1>6. /\ UNCHANGED <<is_init, contents, handles, records>>
        /\ live' = {g} /\ env_conf' = g /\ torn' = FALSE
        /\ hooked' = {h \in hooked : h[1] # env_conf}
        /\ categories' = [c \in DOMAIN categories |-> [categories[c] EXCEPT !.backup = NoList]]
        /\ pc' = [pc EXCEPT ![t] = "idle"]
    BY <1>4, <1>5 DEF ReloadCommit, Goto
  <1>7. \A u \in Threads : ~Updating(u)' /\ pc'[u] \notin {"update", "obtain", "err"}
    BY <1>2, <1>3, <1>6 DEF Updating, WritePlaces
  <1>8. Confs'
    <2>1. env_conf' \in 1 .. Len(contents')
      BY <1>2, <1>3, <1>5, <1>6
    <2> QED
      BY <1>2, <1>6, <1>7, <2>1 DEF Confs
  <1>9. CatsBetween'
    <2>1. handles = DOMAIN categories /\ \A c \in handles : categories[c] = Entry(c, g, categories[c].backup)
      BY <1>1, <1>4 DEF EnvInv, CatsBetween
    <2>2. ASSUME NEW c \in handles
          PROVE  categories'[c] = Entry(c, env_conf, NoList)'
      <3>1. PICK x, y, b : x = ObtainRules(c, g) /\ y = BitsOf(ObtainRules(c, g)) /\ b = categories[c].backup
        OBVIOUS
      <3>2. categories[c] = [fit |-> x, backup |-> b, bits |-> y]
        BY <2>1, <3>1 DEF Entry
      <3>3. categories'[c] = [[fit |-> x, backup |-> b, bits |-> y] EXCEPT !.backup = NoList]
        BY <1>6, <2>1, <3>2
      <3>4. categories'[c] = [fit |-> x, backup |-> NoList, bits |-> y]
        BY <3>3
      <3>5. categories'[c] = Entry(c, g, NoList)
        BY <3>1, <3>4 DEF Entry
      <3>6. Entry(c, g, NoList)' = Entry(c, g, NoList)
        BY <1>6, EntryKept
      <3>7. Entry(c, env_conf, NoList)' = Entry(c, g, NoList)'
        BY <1>6 DEF Entry, ObtainRules, BitsOf, RulesOf
      <3> QED
        BY <3>5, <3>6, <3>7
    <2>3. \A c \in handles' : Record(categories[c])'
      <3> SUFFICES ASSUME NEW c \in handles PROVE Record(categories'[c])
        BY <1>6 DEF Record
      <3>1. PICK x, y, b : x = ObtainRules(c, g) /\ y = BitsOf(ObtainRules(c, g)) /\ b = categories[c].backup
        OBVIOUS
      <3>2. categories[c] = [fit |-> x, backup |-> b, bits |-> y]
        BY <2>1, <3>1 DEF Entry
      <3>3. categories'[c] = [[fit |-> x, backup |-> b, bits |-> y] EXCEPT !.backup = NoList]
        BY <1>6, <2>1, <3>2
      <3>4. categories'[c] = [fit |-> x, backup |-> NoList, bits |-> y]
        BY <3>3
      <3> QED
        BY <3>4 DEF Record
    <2>4. DOMAIN categories' = handles'
      BY <1>6, <2>1
    <2> QED
      BY <1>6, <1>7, <2>2, <2>3, <2>4 DEF CatsBetween
  <1>10. HooksSet'
    <2>1. pc'[Main] \notin StartPlaces
      BY <1>2, <1>3, <1>6, ThreadAssumption DEF StartPlaces
    <2>2. PICK recs : recs = records
      OBVIOUS
    <2>3. HookedIn(env_conf, records)' = HookedIn(g, recs)
      <3>1. HookedIn(env_conf, records)' = HookedIn(g, recs)'
        BY <1>6, <2>2 DEF HookedIn, Hooks, RulesOf
      <3> QED
        BY <1>6, <3>1, HookedKept
    <2>4. HookedIn(g, recs) \subseteq hooked
      BY <1>1, <1>4, <2>2 DEF EnvInv, HooksSet
    <2>5. \A h \in HookedIn(g, recs) : h[1] = g
      BY DEF HookedIn, Hooks
    <2> QED
      BY <1>5, <1>6, <1>7, <2>1, <2>3, <2>4, <2>5 DEF HooksSet
  <1> QED
    BY <1>8, <1>9, <1>10

\* The list of a category cannot be made: it has none, and what was read is to be freed.
LEMMA UpdateFailsEnv ==
  ASSUME EnvInv, NEW t \in Threads, UpdateFails(t)
  PROVE  Confs' /\ CatsBetween' /\ HooksSet'
  <1>1. pc[t] = "obtain" /\ pc[t] \in WritePlaces /\ Updating(t)
    BY DEF UpdateFails, At, WritePlaces, Updating
  <1>2. /\ is_init /\ env_conf \in 1 .. Len(contents)
        /\ \A u \in Threads : u # t => ~Updating(u) /\ pc[u] \notin WritePlaces
        /\ pc[Main] \notin StartPlaces
    BY <1>1, WriterAlone
  <1>3. pc \in [Threads -> Places] /\ contents \in Seq(Contents)
    BY DEF EnvInv, EnvTypes
  <1>4. PICK c, g : c = job[t].cat /\ g = job[t].gen
    OBVIOUS
  <1>5. g = Len(contents) /\ env_conf < g /\ g # env_conf /\ live = {env_conf, g}
    BY <1>1, <1>2, <1>3, <1>4 DEF EnvInv, Confs
  <1>6. /\ UNCHANGED <<is_init, contents, env_conf, live, handles, records, hooked, job>>
        /\ torn' = TRUE
        /\ categories' = [categories EXCEPT ![c] = [categories[c] EXCEPT !.fit = NoList]]
        /\ pc' = [pc EXCEPT ![t] = "err"]
    BY <1>4 DEF UpdateFails, Goto
  <1>7. /\ \A u \in Threads : ~Updating(u)' /\ pc'[u] # "obtain"
        /\ \A u \in Threads : u # t => pc'[u] # "err"
        /\ pc'[t] = "err"
    BY <1>2, <1>3, <1>6 DEF Updating, WritePlaces
  <1>8. Confs'
    <2>1. live' \ {g} = {env_conf'}
      BY <1>5, <1>6
    <2>2. \A u \in Threads : pc'[u] \in {"update", "obtain", "err"} =>
            job'[u].gen = Len(contents') /\ env_conf' < Len(contents')
      BY <1>4, <1>5, <1>6, <1>7 DEF Updating
    <2>3. \A u \in Threads : pc'[u] = "err" => live' \ {job'[u].gen} = {env_conf'}
      BY <1>4, <1>6, <1>7, <2>1
    <2>4. ~(\A u \in Threads : ~Updating(u)' /\ pc'[u] # "err")
      BY <1>7
    <2> QED
      BY <1>2, <1>6, <1>7, <2>2, <2>3, <2>4 DEF Confs
  <1>9. CatsBetween'
    <2>1. handles = DOMAIN categories /\ c \in handles /\ \A d \in handles : Record(categories[d])
      BY <1>1, <1>4 DEF EnvInv, CatsBetween
    <2>2. Record(categories'[c])
      <3>1. PICK f, b, y : categories[c] = [fit |-> f, backup |-> b, bits |-> y]
        BY <2>1 DEF Record
      <3>2. categories'[c] = [[fit |-> f, backup |-> b, bits |-> y] EXCEPT !.fit = NoList]
        BY <1>6, <2>1, <3>1
      <3>3. categories'[c] = [fit |-> NoList, backup |-> b, bits |-> y]
        BY <3>2
      <3> QED
        BY <3>3 DEF Record
    <2>3. DOMAIN categories' = handles' /\ \A d \in handles : d # c => categories'[d] = categories[d]
      BY <1>6, <2>1
    <2>4. \A d \in handles' : Record(categories[d])'
      <3>1. \A d \in handles : Record(categories'[d])
        BY <2>1, <2>2, <2>3
      <3> QED
        BY <1>6, <3>1 DEF Record
    <2> QED
      BY <1>6, <1>7, <2>3, <2>4 DEF CatsBetween
  <1>10. HooksSet'
    <2>1. pc'[Main] \notin StartPlaces
      BY <1>2, <1>3, <1>6, ThreadAssumption DEF StartPlaces
    <2>2. HookedIn(env_conf, records)' = HookedIn(env_conf, records)
      BY <1>6 DEF HookedIn, Hooks, RulesOf
    <2> QED
      BY <1>2, <1>6, <1>7, <2>1, <2>2 DEF EnvInv, HooksSet
  <1> QED
    BY <1>8, <1>9, <1>10

\* The configuration that was read is freed, if it is there; the categories stay as they are.
LEMMA ReloadErrEnv ==
  ASSUME EnvInv, NEW t \in Threads, ReloadErr(t)
  PROVE  Confs' /\ CatsBetween' /\ HooksSet'
  <1>1. pc[t] = "err" /\ pc[t] \in WritePlaces
    BY DEF ReloadErr, At, WritePlaces
  <1>2. /\ is_init /\ env_conf \in 1 .. Len(contents)
        /\ \A u \in Threads : u # t => ~Updating(u) /\ pc[u] \notin WritePlaces
        /\ pc[Main] \notin StartPlaces
    BY <1>1, WriterAlone
  <1>3. pc \in [Threads -> Places] /\ contents \in Seq(Contents)
    BY DEF EnvInv, EnvTypes
  <1>4. \A u \in Threads : ~Updating(u)
    BY <1>1, <1>2 DEF Updating
  <1>5. live \ {job[t].gen} = {env_conf} /\ job[t].gen # env_conf
    BY <1>1, <1>2, <1>3, <1>4 DEF EnvInv, Confs
  <1>6. /\ UNCHANGED <<is_init, contents, handles, records, env_conf, torn, categories>>
        /\ live' = {env_conf}
        /\ hooked' = {h \in hooked : h[1] # job[t].gen}
        /\ pc' = [pc EXCEPT ![t] = "idle"]
    BY <1>5 DEF ReloadErr, Goto
  <1>7. \A u \in Threads : ~Updating(u)' /\ pc'[u] \notin {"update", "obtain", "err"}
    BY <1>2, <1>3, <1>6 DEF Updating, WritePlaces
  <1>8. Confs'
    BY <1>2, <1>6, <1>7 DEF Confs
  <1>9. CatsBetween'
    <2>1. /\ handles = DOMAIN categories /\ \A c \in handles : Record(categories[c])
          /\ ~torn => \A c \in handles : categories[c] = Entry(c, env_conf, NoList)
      BY <1>4 DEF EnvInv, CatsBetween
    <2>2. \A g, c, b : Entry(c, g, b)' = Entry(c, g, b)
      BY <1>6, EntryKept
    <2>3. \A c \in handles : Entry(c, env_conf, NoList)' = Entry(c, env_conf, NoList)
      BY <1>6, <2>2 DEF Entry, ObtainRules, BitsOf, RulesOf
    <2>4. \A c \in handles' : Record(categories[c])'
      BY <1>6, <2>1 DEF Record
    <2> QED
      BY <1>6, <1>7, <2>1, <2>3, <2>4 DEF CatsBetween
  <1>10. HooksSet'
    <2>1. pc'[Main] \notin StartPlaces
      BY <1>2, <1>3, <1>6, ThreadAssumption DEF StartPlaces
    <2>2. HookedIn(env_conf, records)' = HookedIn(env_conf, records)
      BY <1>6 DEF HookedIn, Hooks, RulesOf
    <2>3. HookedIn(env_conf, records) \subseteq hooked
      BY <1>2 DEF EnvInv, HooksSet
    <2>4. \A h \in HookedIn(env_conf, records) : h[1] = env_conf
      BY DEF HookedIn, Hooks
    <2> QED
      BY <1>5, <1>6, <1>7, <2>1, <2>2, <2>3, <2>4 DEF HooksSet
  <1> QED
    BY <1>8, <1>9, <1>10

\* Start-up: the first configuration, the categories of the program, or nothing.
LEMMA StartEnv == ASSUME EnvInv, StartUp PROVE Confs' /\ CatsBetween' /\ HooksSet'
  <1>1. /\ Locks /\ Confs /\ CatsBetween /\ HooksSet
        /\ pc \in [Threads -> Places] /\ contents \in Seq(Contents) /\ Main \in Threads
    BY ThreadAssumption DEF EnvInv, EnvTypes
  <1>2. pc[Main] \in {"start", "get"} /\ pc[Main] \in StartPlaces
    BY DEF StartUp, ZlogInit, Started, GetCategory, GetCategoryFails, At, StartPlaces
  <1>3. \A u \in Threads : u # Main => pc[u] = "off"
    BY <1>1, <1>2 DEF Locks, Alone, StartPlaces, RunPlaces, ReadPlaces, WritePlaces
  <1>4. (\A u \in Threads : ~Updating(u) /\ pc[u] # "err") /\ records = {} /\ hooked = {}
    BY <1>1, <1>2, <1>3 DEF Updating, HooksSet
  <1>5. /\ is_init => live = {env_conf} /\ env_conf \in 1 .. Len(contents)
        /\ handles = DOMAIN categories /\ \A c \in handles : Record(categories[c])
        /\ ~torn => \A c \in handles : categories[c] = Entry(c, env_conf, NoList)
    BY <1>1, <1>4 DEF Confs, CatsBetween
  <1>6. \A g : HookedIn(g, {})' = {} /\ HookedIn(g, {}) = {}
    BY DEF HookedIn, Hooks
  <1>7. HookedIn(env_conf, {})' = {}
    BY <1>6 DEF HookedIn, Hooks, RulesOf
  <1>8. CASE ZlogInit
    <2>1. PICK c \in Contents :
            /\ contents' = Append(contents, c)
            /\ is_init' = (c \in Parses /\ ~is_init)
            /\ env_conf' = (IF c \in Parses /\ ~is_init THEN Len(contents) + 1 ELSE 0)
            /\ live' = (IF c \in Parses /\ ~is_init THEN live \cup {Len(contents) + 1} ELSE live)
      BY <1>8 DEF ZlogInit
    <2>2. /\ UNCHANGED <<torn, categories, handles, records, hooked, job>>
          /\ \E p \in {"get", "failed"} : pc' = [pc EXCEPT ![Main] = p]
      BY <1>8 DEF ZlogInit, Goto
    <2>3. ~is_init /\ live = {} /\ handles = {}
      BY <1>1, <1>8 DEF ZlogInit, At, Locks, Confs
    <2>4. \A u \in Threads : ~Updating(u)' /\ pc'[u] \notin {"update", "obtain", "err"}
      BY <1>1, <1>3, <2>2 DEF Updating
    <2>5. Len(contents') = Len(contents) + 1 /\ Len(contents) \in Nat
      BY <1>1, <2>1
    <2>6. Confs'
      <3>1. is_init' => env_conf' \in 1 .. Len(contents')
        <4>1. is_init' => env_conf' = Len(contents) + 1
          BY <2>1
        <4>2. Len(contents) + 1 \in 1 .. Len(contents')
          BY <2>5
        <4> QED
          BY <4>1, <4>2
      <3>2. is_init' => live' = {env_conf'}
        BY <2>1, <2>3
      <3>3. ~is_init' => live' = {} /\ handles' = {}
        BY <2>1, <2>2, <2>3
      <3> QED
        BY <2>4, <3>1, <3>2, <3>3 DEF Confs
    <2>7. CatsBetween'
      BY <1>5, <2>2, <2>3, <2>4 DEF CatsBetween
    <2>8. HooksSet'
      BY <1>4, <1>7, <2>2, <2>4 DEF HooksSet
    <2> QED
      BY <2>6, <2>7, <2>8
  <1>9. ASSUME NEW c \in Cats, GetCategory(c)
        PROVE  Confs' /\ CatsBetween' /\ HooksSet'
    <2>1. /\ is_init /\ c \notin handles /\ handles' = handles \cup {c}
          /\ UNCHANGED <<is_init, env_conf, contents, live, torn, records, hooked, pc, job>>
          /\ categories' = [x \in handles \cup {c} |->
                              IF x \in handles THEN categories[x] ELSE NewCategory(c)]
      BY <1>5, <1>9 DEF GetCategory, envVars
    <2>2. Confs'
      BY <1>1, <2>1 DEF Confs, Updating
    <2>3. NewCategory(c) = Entry(c, env_conf, NoList)
      BY DEF NewCategory, Entry
    <2>4. \A g, d, b : Entry(d, g, b)' = Entry(d, g, b)
      BY <2>1, EntryKept
    <2>5. \A d \in handles' : Entry(d, env_conf, NoList)' = Entry(d, env_conf, NoList)
      BY <2>1, <2>4 DEF Entry, ObtainRules, BitsOf, RulesOf
    <2>6. /\ ~torn' => \A d \in handles' : categories'[d] = Entry(d, env_conf, NoList)
          /\ DOMAIN categories' = handles' /\ \A d \in handles' : Record(categories'[d])
      BY <1>5, <2>1, <2>3, EntryRecord
    <2>7. \A u \in Threads : ~Updating(u)' /\ pc'[u] # "obtain"
      BY <1>4, <2>1 DEF Updating
    <2>8. CatsBetween'
      <3>1. \A d \in handles' : Record(categories[d])'
        BY <2>6 DEF Record
      <3> QED
        BY <2>1, <2>5, <2>6, <2>7, <3>1 DEF CatsBetween
    <2>9. HooksSet'
      BY <1>4, <1>7, <2>1, <2>7 DEF HooksSet
    <2> QED
      BY <2>2, <2>8, <2>9
  <1>10. ASSUME NEW c \in Cats, GetCategoryFails(c)
         PROVE  Confs' /\ CatsBetween' /\ HooksSet'
    <2>1. /\ is_init /\ ~is_init' /\ handles' = {} /\ records' = {} /\ hooked' = {}
          /\ live' = live \ {env_conf}
          /\ DOMAIN categories' = {} /\ pc' = [pc EXCEPT ![Main] = "failed"]
      BY <1>10 DEF GetCategoryFails, Goto
    <2>2. \A u \in Threads : ~Updating(u)' /\ pc'[u] \notin {"update", "obtain", "err"}
      BY <1>1, <1>3, <2>1 DEF Updating
    <2>3. live' = {}
      BY <1>5, <2>1
    <2> QED
      BY <2>1, <2>2, <2>3 DEF Confs, CatsBetween, HooksSet
  <1>11. CASE Started
    <2>1. /\ UNCHANGED <<is_init, env_conf, contents, live, torn, records, hooked, job, categories, handles>>
          /\ \A u \in Threads : pc'[u] = "idle"
      BY <1>11 DEF Started, envVars
    <2>2. \A u \in Threads : ~Updating(u)' /\ pc'[u] \notin {"update", "obtain", "err"}
      BY <2>1 DEF Updating
    <2>3. Confs'
      BY <1>1, <1>5, <2>1, <2>2 DEF Confs
    <2>4. \A g, d, b : Entry(d, g, b)' = Entry(d, g, b)
      BY <2>1, EntryKept
    <2>5. \A d \in handles : Entry(d, env_conf, NoList)' = Entry(d, env_conf, NoList)
      BY <2>1, <2>4 DEF Entry, ObtainRules, BitsOf, RulesOf
    <2>6. CatsBetween'
      <3>1. \A d \in handles' : Record(categories[d])'
        BY <1>5, <2>1 DEF Record
      <3> QED
        BY <1>5, <2>1, <2>2, <2>5, <3>1 DEF CatsBetween
    <2>7. HooksSet'
      BY <1>4, <1>7, <2>1, <2>2 DEF HooksSet
    <2> QED
      BY <2>3, <2>6, <2>7
  <1> QED
    BY <1>8, <1>9, <1>10, <1>11 DEF StartUp

-----------------------------------------------------------------------------
(***************************************************************************)
(* Messages in progress, the mdc and the counter.                          *)
(***************************************************************************)

\* Start-up: no message is in progress.
LEMMA StartRest == ASSUME EnvInv, StartUp PROVE Messages' /\ MdcKept' /\ Counted'
  <1>1. /\ Locks /\ MdcKept /\ Counted
        /\ pc \in [Threads -> Places] /\ Main \in Threads
    BY ThreadAssumption DEF EnvInv, EnvTypes
  <1>2. pc[Main] \in StartPlaces
    BY DEF StartUp, ZlogInit, Started, GetCategory, GetCategoryFails, At, StartPlaces
  <1>3. \A u \in Threads : u # Main => pc[u] = "off"
    BY <1>1, <1>2 DEF Locks, Alone, StartPlaces, RunPlaces, ReadPlaces, WritePlaces
  <1>4. UNCHANGED <<tsd, mdcGhost, since, reload_count, job>>
    BY DEF StartUp, ZlogInit, Started, GetCategory, GetCategoryFails, envVars
  <1>5. \/ \A u \in Threads : pc'[u] \in StartPlaces \cup {"off"}
        \/ handles' = Cats /\ \A u \in Threads : pc'[u] = "idle"
    <2>1. CASE Started
      BY <2>1 DEF Started
    <2>2. CASE ~Started
      <3>1. pc' = pc \/ \E p \in {"get", "failed"} : pc' = [pc EXCEPT ![Main] = p]
        BY <2>2 DEF StartUp, ZlogInit, GetCategory, GetCategoryFails, Goto
      <3> QED
        BY <1>1, <1>2, <1>3, <3>1 DEF StartPlaces
    <2> QED
      BY <2>1, <2>2
  <1>6. \A u \in Threads : pc'[u] \notin {"rdlock", "fetch", "output", "count"}
    BY <1>5 DEF StartPlaces
  <1>7. \A u \in Threads : pc'[u] \in RunPlaces => handles' = Cats
    BY <1>5 DEF StartPlaces, RunPlaces, ReadPlaces, WritePlaces
  <1> QED
    BY <1>1, <1>4, <1>6, <1>7 DEF Messages, MdcKept, Counted

\* The steps of a message.
LEMMA MessageRest == ASSUME EnvInv, NEW t \in Threads, Message(t) PROVE Messages' /\ MdcKept' /\ Counted'
  <1>1. /\ Messages /\ MdcKept /\ Counted /\ EnvTypes /\ Locks /\ Confs
        /\ pc \in [Threads -> Places] /\ job \in [Threads -> Jobs] /\ tsd \in [Threads -> Datas]
        /\ reload_count \in Nat /\ since \in Nat /\ \A u \in Threads : job[u].n \in Nat
    BY DEF EnvInv, EnvTypes, Jobs
  <1>2. UNCHANGED <<is_init, init_version, env_conf, contents, handles, mdcGhost>>
    BY DEF Message, LogCheck, LogLock, LogFetch, LogFetchFails, LogOutput, LogOutputFails,
           LogCount, LogUnlock, envVars
  <1>3. /\ \A u \in Threads : u # t => pc'[u] = pc[u]
        /\ \A u \in Threads : u # t => job'[u] = job[u]
        /\ \A u \in Threads : u # t => tsd'[u] = tsd[u]
    BY <1>1 DEF Message, LogCheck, LogLock, LogFetch, LogFetchFails, LogOutput, LogOutputFails,
                LogCount, LogUnlock, Goto
  <1>4. pc[t] \in RunPlaces
    BY DEF Message, LogCheck, LogLock, LogFetch, LogFetchFails, LogOutput, LogOutputFails,
           LogCount, LogUnlock, At, RunPlaces, ReadPlaces
  <1>5. is_init /\ env_conf \in 1 .. Len(contents) /\ handles = Cats
    BY <1>1, <1>4, AllRun DEF Confs, Messages
  <1>6. Messages'
    <2>1. SUFFICES /\ pc'[t] \in {"rdlock", "fetch", "output"} => job'[t].cat \in handles
                   /\ pc'[t] = "output" =>
                        tsd'[t].version = init_version /\ tsd'[t].buf = BufOf[contents[env_conf]]
      BY <1>1, <1>2, <1>3, <1>5 DEF Messages
    <2>2. ASSUME NEW c \in Cats, NEW l \in Levels, LogCheck(t, c, l)
          PROVE  pc'[t] = "rdlock" /\ job'[t].cat \in handles
      BY <1>1, <1>5, <2>2 DEF LogCheck, Goto, NoJob
    <2>3. CASE LogLock(t)
      BY <1>1, <2>3 DEF LogLock, Goto, At, Messages
    <2>4. CASE LogFetch(t)
      <3>1. tsd'[t] = Fetched(t) /\ job' = job /\ pc[t] = "fetch"
        BY <1>1, <2>4 DEF LogFetch, At
      <3> QED
        BY <1>1, <1>5, <3>1, FetchedType DEF Messages
    <2>5. CASE LogFetchFails(t) \/ LogOutput(t) \/ LogOutputFails(t) \/ LogCount(t) \/ LogUnlock(t)
      <3>1. pc'[t] \notin {"rdlock", "fetch", "output"}
        BY <1>1, <2>5 DEF LogFetchFails, LogOutput, LogOutputFails, LogCount, LogUnlock, Goto
      <3> QED
        BY <3>1
    <2> QED
      BY <2>2, <2>3, <2>4, <2>5 DEF Message
  <1>7. MdcKept'
    <2>1. CASE LogFetch(t)
      <3>1. tsd'[t] = Fetched(t)
        BY <1>1, <2>1 DEF LogFetch
      <3>2. tsd'[t].mdc = tsd[t].mdc
        BY <1>1, <1>5, <3>1, FetchedType
      <3> QED
        BY <1>1, <1>2, <1>3, <3>2 DEF MdcKept
    <2>2. CASE ~LogFetch(t)
      <3>1. tsd' = tsd
        BY <2>2 DEF Message, LogCheck, LogLock, LogFetchFails, LogOutput, LogOutputFails,
                    LogCount, LogUnlock
      <3> QED
        BY <1>1, <1>2, <3>1 DEF MdcKept
    <2> QED
      BY <2>1, <2>2
  <1>8. Counted'
    <2>1. CASE LogCount(t)
      <3>1. /\ reload_count' = job[t].n + 1 /\ since' = since + 1 /\ pc[t] = "count" /\ job' = job
            /\ pc'[t] # "count"
        BY <1>1, <2>1 DEF LogCount, At, Goto
      <3>2. job[t].n <= since /\ \A u \in Threads : pc[u] = "count" => job[u].n <= since
        BY <1>1, <3>1 DEF Counted
      <3>3. reload_count' <= since'
        BY <1>1, <3>1, <3>2
      <3>4. \A u \in Threads : pc'[u] = "count" => job'[u].n <= since'
        BY <1>1, <1>3, <3>1, <3>2
      <3> QED
        BY <3>3, <3>4 DEF Counted
    <2>2. CASE LogOutput(t)
      <3>1. UNCHANGED <<reload_count, since>>
        BY <2>2 DEF LogOutput, envVars
      <3>2. job'[t].n = 0 \/ job'[t].n = reload_count
        <4>1. PICK x : x = (IF Period = 0 THEN 0 ELSE reload_count)
          OBVIOUS
        <4>2. job' = [job EXCEPT ![t] = [job[t] EXCEPT !.n = x]]
          BY <2>2, <4>1 DEF LogOutput
        <4>3. job'[t].n = x
          BY <1>1, <4>2 DEF Jobs
        <4> QED
          BY <4>1, <4>3
      <3> QED
        BY <1>1, <1>3, <3>1, <3>2 DEF Counted
    <2>3. CASE ~LogCount(t) /\ ~LogOutput(t)
      <3>1. UNCHANGED <<reload_count, since>>
        BY <2>3 DEF Message, LogCheck, LogLock, LogFetch, LogFetchFails, LogOutputFails,
                    LogUnlock, envVars
      <3>2. pc'[t] # "count"
        BY <1>1, <2>3 DEF Message, LogCheck, LogLock, LogFetch, LogFetchFails, LogOutputFails,
                          LogUnlock, Goto
      <3> QED
        BY <1>1, <1>3, <3>1, <3>2 DEF Counted
    <2> QED
      BY <2>1, <2>2, <2>3
  <1> QED
    BY <1>6, <1>7, <1>8

\* The steps of a reload: while the lock is held for writing nobody is in the middle of a
\* message's output or count.
LEMMA ReloadRest == ASSUME EnvInv, NEW t \in Threads, Reload(t) PROVE Messages' /\ MdcKept' /\ Counted'
  <1>1. /\ Messages /\ MdcKept /\ Counted /\ Locks
        /\ pc \in [Threads -> Places] /\ job \in [Threads -> Jobs]
    BY DEF EnvInv, EnvTypes
  <1>2. UNCHANGED <<handles, mdcGhost, tsd>>
    BY DEF Reload, ReloadAsk, ReloadLock, ReloadQuit, ReloadRead, UpdateBegin, UpdateRule,
           UpdateFails, UpdateEnd, ReloadCommit, ReloadErr
  <1>3. \A u \in Threads : u # t => pc'[u] = pc[u]
    BY <1>1 DEF Reload, ReloadAsk, ReloadLock, ReloadQuit, ReloadRead, UpdateBegin, UpdateRule,
           UpdateFails, UpdateEnd, ReloadCommit, ReloadErr, Goto
  <1>4. \A u \in Threads : u # t => job'[u] = job[u]
    BY <1>1 DEF Reload, ReloadAsk, ReloadLock, ReloadQuit, ReloadRead, UpdateBegin, UpdateRule,
           UpdateFails, UpdateEnd, ReloadCommit, ReloadErr
  <1>5. pc'[t] \in {"idle", "wrlock", "reload", "update", "obtain", "err"}
    BY <1>1 DEF Reload, ReloadAsk, ReloadLock, ReloadQuit, ReloadRead, UpdateBegin, UpdateRule,
           UpdateFails, UpdateEnd, ReloadCommit, ReloadErr, Goto, At
  <1>6. pc[t] \in RunPlaces
    BY DEF Reload, ReloadAsk, ReloadLock, ReloadQuit, ReloadRead, UpdateBegin, UpdateRule,
           UpdateFails, UpdateEnd, ReloadCommit, ReloadErr, At, RunPlaces, WritePlaces
  <1>7. handles = Cats
    BY <1>1, <1>6 DEF Messages
  <1>8. MdcKept'
    BY <1>1, <1>2 DEF MdcKept
  <1>9. CASE UNCHANGED <<init_version, env_conf, contents, reload_count, since>>
    BY <1>1, <1>2, <1>3, <1>4, <1>5, <1>7, <1>8, <1>9 DEF Messages, Counted
  <1>10. CASE ReloadRead(t) \/ ReloadCommit(t)
    <2>1. pc[t] \in WritePlaces
      BY <1>10 DEF ReloadRead, ReloadCommit, At, WritePlaces
    <2>2. \A u \in Threads : u # t => pc[u] \notin ReadPlaces
      BY <2>1, WriterAlone
    <2>3. \A u \in Threads : pc'[u] \notin ReadPlaces
      BY <1>3, <1>5, <2>2 DEF ReadPlaces
    <2>4. \A u \in Threads : pc'[u] \notin {"fetch", "output", "count"}
      BY <2>3 DEF ReadPlaces
    <2>5. Messages'
      BY <1>1, <1>2, <1>3, <1>4, <1>5, <1>7, <2>4 DEF Messages
    <2>6. reload_count' <= since'
      BY <1>1, <1>10 DEF ReloadRead, ReloadCommit, Counted
    <2> QED
      BY <1>8, <2>4, <2>5, <2>6 DEF Counted
  <1>11. UNCHANGED <<init_version, env_conf, contents, reload_count, since>> \/ ReloadRead(t) \/ ReloadCommit(t)
    BY DEF Reload, ReloadAsk, ReloadLock, ReloadQuit, UpdateBegin, UpdateRule, UpdateFails,
           UpdateEnd, ReloadErr, envVars
  <1> QED
    BY <1>9, <1>10, <1>11

\* The short calls: the mdc changes together with what the thread put and removed.
LEMMA CallsRest == ASSUME EnvInv, NEW t \in Threads, Calls(t) PROVE Messages' /\ MdcKept' /\ Counted'
  <1>1. /\ Messages /\ MdcKept /\ Counted /\ EnvTypes /\ Confs
        /\ tsd \in [Threads -> Datas] /\ mdcGhost \in [Threads -> SUBSET Keys]
    BY DEF EnvInv, EnvTypes
  <1>2. /\ UNCHANGED <<is_init, init_version, env_conf, contents, handles, reload_count, since, pc, job>>
        /\ pc[t] = "idle" /\ is_init
    BY DEF Calls, PutMdc, RemoveMdc, SetRecord, envVars, At
  <1>3. \A u \in Threads : u # t => tsd'[u] = tsd[u] /\ mdcGhost'[u] = mdcGhost[u]
    BY <1>1 DEF Calls, PutMdc, RemoveMdc, SetRecord
  <1>4. Messages'
    BY <1>1, <1>2, <1>3 DEF Messages
  <1>5. Counted'
    BY <1>1, <1>2 DEF Counted
  <1>6. tsd'[t].mdc = mdcGhost'[t]
    <2>1. tsd[t].mdc = mdcGhost[t] /\ tsd[t] \in Datas
      BY <1>1 DEF MdcKept
    <2>2. ASSUME NEW k \in Keys, PutMdc(t, k)
          PROVE  tsd'[t].mdc = mdcGhost'[t]
      <3>1. PICK f : f = Fetched(t)
        OBVIOUS
      <3>2. f \in Datas /\ f.mdc = tsd[t].mdc
        BY <1>1, <1>2, <3>1, FetchedType DEF Confs
      <3>3. tsd'[t] = [f EXCEPT !.mdc = f.mdc \cup {k}] /\ mdcGhost'[t] = mdcGhost[t] \cup {k}
        BY <1>1, <2>2, <3>1 DEF PutMdc
      <3> QED
        BY <2>1, <3>2, <3>3 DEF Datas
    <2>3. ASSUME NEW K \in SUBSET Keys, RemoveMdc(t, K)
          PROVE  tsd'[t].mdc = mdcGhost'[t]
      <3>1. tsd'[t] = [tsd[t] EXCEPT !.mdc = tsd[t].mdc \ K] /\ mdcGhost'[t] = mdcGhost[t] \ K
        BY <1>1, <2>3 DEF RemoveMdc
      <3> QED
        BY <2>1, <3>1 DEF Datas
    <2>4. CASE \E r \in RecNames : SetRecord(t, r)
      BY <2>1, <2>4 DEF SetRecord
    <2> QED
      BY <2>2, <2>3, <2>4 DEF Calls
  <1>7. MdcKept'
    BY <1>1, <1>3, <1>6 DEF MdcKept
  <1> QED
    BY <1>4, <1>5, <1>7

-----------------------------------------------------------------------------
(***************************************************************************)
(* The theorems.                                                           *)
(***************************************************************************)

\* The end of the process leaves everything as it is, and nobody in a call.
LEMMA DeathInv == ASSUME EnvInv, NEW t \in Threads, OutputDies(t) PROVE EnvInv'
  <1>1. /\ \A u \in Threads : pc'[u] = "dead"
        /\ pc' \in [Threads -> Places] /\ readers' = {}
        /\ pc[t] \in RunPlaces /\ t \in Threads /\ pc[t] \in ReadPlaces
    BY DEF OutputDies, At, Places, RunPlaces, ReadPlaces
  <1>2. /\ UNCHANGED <<writer, is_init, init_version, env_conf, contents, live, reload_count, torn>>
        /\ UNCHANGED <<categories, handles, records, hooked, tsd, mdcGhost, since, job>>
    BY DEF OutputDies, envVars
  <1>3. is_init /\ writer = NoThread /\ \A u \in Threads : ~Updating(u) /\ pc[u] # "err"
    <2>1. is_init /\ t \in readers
      BY <1>1, AllRun DEF EnvInv, Locks
    <2>2. writer = NoThread
      BY <2>1 DEF EnvInv, Locks
    <2> QED
      BY <2>1, <2>2, ThreadAssumption DEF EnvInv, Locks, Updating, WritePlaces
  <1>4. EnvTypes'
    BY <1>1, <1>2 DEF EnvInv, EnvTypes
  <1>5. Locks'
    BY <1>1, <1>2, <1>3, ThreadAssumption DEF Locks, ReadPlaces, WritePlaces
  <1>6. \A u \in Threads : ~Updating(u)' /\ pc'[u] \notin RunPlaces /\ pc'[u] \notin StartPlaces
    BY <1>1 DEF Updating, RunPlaces, ReadPlaces, WritePlaces, StartPlaces
  <1>7. Confs'
    BY <1>1, <1>2, <1>3, <1>6 DEF EnvInv, Confs
  <1>8. CatsBetween'
    <2>1. \A g, c, b : Entry(c, g, b)' = Entry(c, g, b)
      BY <1>2, EntryKept
    <2>2. \A c \in handles : Entry(c, env_conf, NoList)' = Entry(c, env_conf, NoList)
      BY <1>2, <2>1 DEF Entry, ObtainRules, BitsOf, RulesOf
    <2>3. \A c \in handles' : Record(categories[c])'
      BY <1>2 DEF EnvInv, CatsBetween, Record
    <2> QED
      BY <1>1, <1>2, <1>3, <1>6, <2>2, <2>3 DEF EnvInv, CatsBetween
  <1>9. HooksSet'
    <2>1. HookedIn(env_conf, records)' = HookedIn(env_conf, records)
      BY <1>2 DEF HookedIn, Hooks, RulesOf
    <2> QED
      BY <1>1, <1>2, <1>3, <1>6, <2>1, ThreadAssumption DEF EnvInv, HooksSet
  <1>10. Messages' /\ MdcKept' /\ Counted'
    BY <1>1, <1>2, <1>6 DEF EnvInv, Messages, MdcKept, Counted
  <1> QED
    BY <1>4, <1>5, <1>7, <1>8, <1>9, <1>10 DEF EnvInv

\* EnvInv is kept by every step of every thread.
LEMMA EnvStep == EnvInv /\ [Next]_vars => EnvInv'
  <1> SUFFICES ASSUME EnvInv, [Next]_vars PROVE EnvInv'
    OBVIOUS
  <1>1. CASE StartUp
    BY <1>1, StartTypes, StartLocks, StartEnv, StartRest DEF EnvInv
  <1>2. ASSUME NEW t \in Threads, Message(t)
        PROVE  EnvInv'
    BY <1>2, MessageTypes, MessageLocks, MessageEnv, MessageRest DEF EnvInv
  <1>3. ASSUME NEW t \in Threads, Reload(t)
        PROVE  EnvInv'
    <2>1. Confs' /\ CatsBetween' /\ HooksSet'
      BY <1>3, ReloadIdleEnv, ReloadReadEnv, UpdateEnv, UpdateFailsEnv, ReloadCommitEnv,
         ReloadErrEnv DEF Reload
    <2> QED
      BY <1>3, <2>1, ReloadTypes, ReloadLocks, ReloadRest DEF EnvInv
  <1>4. ASSUME NEW t \in Threads, Calls(t)
        PROVE  EnvInv'
    BY <1>4, CallsTypes, CallsLocks, CallsEnv, CallsRest DEF EnvInv
  <1>5. CASE UNCHANGED vars
    <2> USE <1>5 DEF vars, envVars
    <2>1. EnvTypes' /\ Locks' /\ Messages' /\ MdcKept' /\ Counted'
      BY DEF EnvInv, EnvTypes, Locks, Alone, Messages, MdcKept, Counted
    <2>2. Confs' /\ HooksSet'
      BY DEF EnvInv, Confs, HooksSet, Updating, HookedIn, Hooks, RulesOf
    <2>3. CatsBetween'
      <3>1. \A g, c, b : Entry(c, g, b)' = Entry(c, g, b)
        BY EntryKept
      <3>2. \A c \in handles : Entry(c, env_conf, NoList)' = Entry(c, env_conf, NoList)
        BY <3>1 DEF Entry, ObtainRules, BitsOf, RulesOf
      <3>3. \A u \in Threads : \A c \in handles :
              Entry(c, job[u].gen, categories[c].backup)' = Entry(c, job[u].gen, categories[c].backup)
        BY <3>1 DEF Entry, ObtainRules, BitsOf, RulesOf
      <3>4. \A c \in handles' : Record(categories[c])'
        BY DEF EnvInv, CatsBetween, Record
      <3> QED
        BY <3>2, <3>3, <3>4 DEF EnvInv, CatsBetween, Updating
    <2> QED
      BY <2>1, <2>2, <2>3 DEF EnvInv
  <1>6. ASSUME NEW t \in Threads, OutputDies(t)
        PROVE  EnvInv'
    BY <1>6, DeathInv
  <1> QED
    BY <1>1, <1>2, <1>3, <1>4, <1>5, <1>6 DEF Next

\* EnvInv holds in every state of every behaviour.
THEOREM EnvAlways == Spec => []EnvInv
  BY EnvInitInv, EnvStep, PTL DEF Spec

\* While nobody holds the write lock exactly one configuration is allocated, and every
\* category of the program has its rules and the bitmap of those rules, with no backup
\* left, except from an update that failed half-way to the next reload that succeeds: each
\* exit of zlog_reload but that one leaves the logger consistent.
THEOREM RulesInForce == Spec => []InForce
  <1>1. EnvInv => InForce
    <2> SUFFICES ASSUME EnvInv, writer = NoThread, is_init
                 PROVE  /\ live = {env_conf}
                        /\ torn \/ \A c \in handles : categories[c] = Entry(c, env_conf, NoList)
      BY DEF InForce, CatsInForce, Entry
    <2>1. \A t \in Threads : ~Updating(t) /\ pc[t] # "err"
      BY ThreadAssumption DEF EnvInv, Locks, Updating, WritePlaces
    <2> QED
      BY <2>1 DEF EnvInv, EnvTypes, Confs, CatsBetween
  <1> QED
    BY <1>1, EnvAlways, PTL

\* A message is written with buffers of the size the configuration in force asks for, and
\* through rules that are allocated unless an update failed half-way, whatever was reloaded
\* since its unlocked bitmap test.
THEOREM OutputIsSafe == Spec => []OutputSafe
  <1>1. EnvInv => OutputSafe
    <2> SUFFICES ASSUME EnvInv, NEW t \in Threads, pc[t] = "output"
                 PROVE  /\ torn \/ categories[job[t].cat].fit.gen \in live
                        /\ tsd[t].version = init_version
                        /\ tsd[t].buf = BufOf[contents[env_conf]]
      BY DEF OutputSafe, At, FitOf
    <2>1. is_init
      BY AllRun DEF EnvInv, RunPlaces, ReadPlaces
    <2>2. \A u \in Threads : ~Updating(u) /\ pc[u] # "err"
      <3>1. t \in readers
        BY DEF EnvInv, Locks, ReadPlaces
      <3>2. writer = NoThread
        BY <3>1 DEF EnvInv, Locks
      <3> QED
        BY <3>2, ThreadAssumption DEF EnvInv, Locks, Updating, WritePlaces
    <2>3. job[t].cat \in handles
      BY DEF EnvInv, Messages
    <2>4. /\ torn \/ categories[job[t].cat] = Entry(job[t].cat, env_conf, NoList)
          /\ live = {env_conf}
      BY <2>1, <2>2, <2>3 DEF EnvInv, EnvTypes, CatsBetween, Confs
    <2>5. ASSUME ~torn
          PROVE  categories[job[t].cat].fit.gen = env_conf
      BY <2>4, <2>5 DEF Entry, ObtainRules
    <2> QED
      BY <2>4, <2>5 DEF EnvInv, EnvTypes, Messages
  <1> QED
    BY <1>1, EnvAlways, PTL

\* No reload loses a key of a thread's mdc or a registered record.
THEOREM StateKept == Spec => []UserStateKept
  <1>1. EnvInv => UserStateKept
    BY DEF EnvInv, UserStateKept, MdcKept, HooksSet
  <1> QED
    BY <1>1, EnvAlways, PTL

\* A periodic reload comes only after more than reload_conf_period messages since the last
\* reload, though the counter is incremented by readers that do not exclude each other: it
\* can lose increments and never gains one (Counted), and only the thread with the write
\* lock appends a configuration while it is at "reload".
THEOREM ReloadEarned == Spec => AutoReloadEarned
  <1>1. EnvInv /\ [Next]_vars =>
          \A t \in Threads :
            (At(t, "reload") /\ job[t].auto /\ Len(contents') > Len(contents)) => Due(since)
    <2> SUFFICES ASSUME EnvInv, [Next]_vars, NEW t \in Threads, pc[t] = "reload", job[t].auto,
                        Len(contents') > Len(contents)
                 PROVE  Due(since)
      BY DEF At
    <2>1. contents \in Seq(Contents) /\ Len(contents) \in Nat /\ reload_count \in Nat /\ since \in Nat
      BY DEF EnvInv, EnvTypes
    <2>2. contents' # contents
      BY <2>1
    <2>3. /\ env_conf \in 1 .. Len(contents) /\ pc[Main] \notin StartPlaces
          /\ \A u \in Threads : u # t => pc[u] \notin WritePlaces
      BY WriterAlone DEF WritePlaces
    <2>4. ~StartUp
      BY <2>2, <2>3 DEF StartUp, ZlogInit, Started, GetCategory, GetCategoryFails, At,
                        StartPlaces, envVars
    <2>5. ASSUME NEW u \in Threads, Message(u) \/ Calls(u)
          PROVE  contents' = contents
      BY <2>5 DEF Message, LogCheck, LogLock, LogFetch, LogFetchFails, LogOutput,
                  LogOutputFails, LogCount, LogUnlock, Calls, PutMdc, RemoveMdc, SetRecord, envVars
    <2>6. ASSUME NEW u \in Threads, Reload(u)
          PROVE  ReloadRead(u)
      BY <2>2, <2>6 DEF Reload, ReloadAsk, ReloadLock, ReloadQuit, UpdateBegin, UpdateRule,
                        UpdateFails, UpdateEnd, ReloadCommit, ReloadErr, envVars
    <2>7. PICK u \in Threads : ReloadRead(u)
      BY <2>2, <2>4, <2>5, <2>6 DEF Next, OutputDies, vars, envVars
    <2>8. u = t
      BY <2>3, <2>7 DEF ReloadRead, At, WritePlaces
    <2>9. Due(reload_count)
      BY <2>7, <2>8 DEF ReloadRead, AlreadyDone
    <2>10. Period \in Nat
      BY <2>1, <2>3, ConfAssumption DEF Period
    <2>11. reload_count <= since
      BY DEF EnvInv, Counted
    <2> QED
      BY <2>1, <2>9, <2>10, <2>11 DEF Due
  <1> QED
    BY <1>1, EnvAlways, PTL DEF Spec, AutoReloadEarned

=============================================================================
