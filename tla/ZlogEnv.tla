------------------------------ MODULE ZlogEnv ------------------------------
(***************************************************************************)
(* The logger below every CMM_xxx macro: zlog's process-wide environment.  *)
(* One read-write lock protects the configuration, the table of categories *)
(* and the counter of messages since the last reload.  A message first     *)
(* looks at its category's level bitmap without the lock, then logs under  *)
(* the read lock with buffers kept per thread; a reload (asked for, or     *)
(* every reload_conf_period messages) rebuilds the rules of each category  *)
(* under the write lock and then frees the old configuration.              *)
(*                                                                         *)
(* A configuration is a generation number; a rule is <<generation, index>> *)
(* and is freed with its configuration.  A list of rules is the generation *)
(* it was taken from and a set of indices; generation 0 is a NULL list.    *)
(***************************************************************************)
EXTENDS Naturals, Sequences, FiniteSets

CONSTANTS
  Threads,      \* threads of the program
  NoThread,     \* nobody
  Main,         \* the thread that runs cmmLogInit before it starts the others
  Cats,         \* names of categories
  Levels,       \* log levels
  Contents,     \* what the configuration file may hold when it is read
  RuleOf,       \* Contents -> the sequence of its rules
  Parses,       \* the contents zlog_conf_new accepts
  PeriodOf,     \* Contents -> reload_conf_period, 0 for never
  BufOf,        \* Contents -> buffer sizes
  Keys,         \* keys of the mapped diagnostic context (mdc)
  RecNames,     \* names of user-defined outputs (records)
  MdcThreads,   \* bound: threads that use it
  MayFail,      \* which allocations may fail: subset of {"get", "thread", "update"}
  MaxConf,      \* bound: configurations read
  MaxLog        \* bound: messages between two reloads

ASSUME ThreadAssumption ==
  MayFail \subseteq {"get", "thread", "update"} /\ Main \in Threads /\ NoThread \notin Threads
ASSUME ConfAssumption == Parses \subseteq Contents /\ PeriodOf \in [Contents -> Nat]

VARIABLES
  writer, readers,        \* zlog_env_lock
  is_init, init_version,  \* zlog_env_is_init, zlog_env_init_version
  env_conf,               \* zlog_env_conf: a generation, 0 is NULL
  contents,               \* what each generation was read from
  live,                   \* generations that are allocated
  reload_count,           \* zlog_env_reload_conf_count
  categories,             \* zlog_env_categories, a function on the names in the table
  handles,                \* sLogCatInfo[].zc: the categories the program holds
  records, hooked,        \* zlog_env_records; rules whose record_func is set
  tsd,                    \* zlog_thread_key: each thread's zlog_thread_t
  mdcGhost,               \* history: the keys each thread put and not removed
  since,                  \* history: messages counted since the last reload
  torn,                   \* history: an update of the categories failed half-way, and
                          \* no reload has succeeded since
  pc, job                 \* where each thread is, and what it works on

envVars == <<is_init, init_version, env_conf, contents, live, reload_count, torn>>
vars == <<writer, readers, envVars, categories, handles, records, hooked,
          tsd, mdcGhost, since, pc, job>>

NoList == [gen |-> 0, rules |-> {}]
NoJob == [cat |-> 0, n |-> 0, auto |-> FALSE, todo |-> {}, gen |-> 0]
NoData == [version |-> 0, buf |-> 0, mdc |-> {}]

RulesOf(g) == RuleOf[contents[g]]
Period == PeriodOf[contents[env_conf]]

\* A rule that never matches a category by its name is the waste bin's.
Fits(c, r) == c \in r.cats
Wastebins(rules) == {i \in DOMAIN rules : rules[i].wastebin}

\* zlog_category_obtain_rules when it runs to its end: the rules that fit
\* the category, and if none does the last waste bin rule.
ObtainRules(c, g) ==
  LET rules == RulesOf(g)
      fit == {i \in DOMAIN rules : Fits(c, rules[i])}
      bin == Wastebins(rules)
  IN [gen |-> g,
      rules |-> IF fit = {} /\ bin # {}
                THEN {CHOOSE i \in bin : \A j \in bin : j <= i} ELSE fit]

BitsOf(list) == UNION {RulesOf(list.gen)[i].levels : i \in list.rules}

\* zlog_rule_set_record for every rule of generation g: the rules whose
\* record name is registered get its function.
Hooks(g, rules, recs) == {<<g, i>> : i \in {j \in DOMAIN rules : rules[j].record \in recs}}
HookedIn(g, recs) == Hooks(g, RulesOf(g), recs)

\* zlog_reload does it for the configuration it just read.
ReadHooks_None(c, g) == {}
ReadHooks(c, g) == Hooks(g, RuleOf[c], records)

\* Each thread's lock use: a writer excludes everybody, a reader a writer.
LockFree == writer = NoThread /\ readers = {}
At(t, p) == pc[t] = p
Goto(t, p) == pc' = [pc EXCEPT ![t] = p]

Init ==
  /\ writer = NoThread /\ readers = {}
  /\ is_init = FALSE /\ init_version = 0 /\ env_conf = 0
  /\ contents = <<>> /\ live = {} /\ reload_count = 0
  /\ categories = [c \in {} |-> NoList] /\ handles = {}
  /\ records = {} /\ hooked = {}
  /\ tsd = [t \in Threads |-> NoData] /\ mdcGhost = [t \in Threads |-> {}]
  /\ since = 0 /\ torn = FALSE
  /\ pc = [t \in Threads |-> IF t = Main THEN "start" ELSE "off"]
  /\ job = [t \in Threads |-> NoJob]

-----------------------------------------------------------------------------
(* Start: cmmLogInit, zlog_init, zlog_get_category, zlog_fini.             *)

\* zlog_init reads the configuration file; the key for thread data is
\* created the first time, and that counts as a version of its own.
ZlogInit ==
  /\ At(Main, "start") /\ LockFree /\ Len(contents) < MaxConf
  /\ \E c \in Contents :
       LET ok == c \in Parses /\ ~is_init
           v == IF init_version = 0 THEN 1 ELSE init_version IN
       /\ contents' = Append(contents, c)
       /\ is_init' = ok
       /\ init_version' = v + (IF ok THEN 1 ELSE 0)
       /\ env_conf' = IF ok THEN Len(contents) + 1 ELSE 0
       /\ live' = IF ok THEN live \cup {Len(contents) + 1} ELSE live
       /\ Goto(Main, IF ok THEN "get" ELSE "failed")
  /\ UNCHANGED <<writer, readers, reload_count, torn, categories, handles, records,
                 hooked, tsd, mdcGhost, since, job>>

NewCategory(c) == LET l == ObtainRules(c, env_conf)
                  IN [fit |-> l, backup |-> NoList, bits |-> BitsOf(l)]

\* zlog_get_category: the entry of the table, made if there is none.
GetCategory(c) ==
  /\ At(Main, "get") /\ LockFree /\ is_init /\ c \in Cats \ handles
  /\ categories' = [x \in DOMAIN categories \cup {c} |->
                      IF x \in DOMAIN categories THEN categories[x] ELSE NewCategory(c)]
  /\ handles' = handles \cup {c}
  /\ UNCHANGED <<writer, readers, envVars, records, hooked, tsd, mdcGhost, since, pc, job>>

\* A category that cannot be made: cmmLogInit calls zlog_fini and reports -2.
GetCategoryFails(c) ==
  /\ "get" \in MayFail
  /\ At(Main, "get") /\ LockFree /\ is_init /\ c \in Cats \ handles
  /\ categories' = [x \in {} |-> NoList] /\ handles' = {}
  /\ records' = {} /\ hooked' = {}
  /\ is_init' = FALSE /\ env_conf' = 0 /\ live' = live \ {env_conf}
  /\ Goto(Main, "failed")
  /\ UNCHANGED <<writer, readers, init_version, contents, reload_count, torn, tsd,
                 mdcGhost, since, job>>

\* The program starts its threads when every category is there, and its
\* main function returns when the log could not be set up.
Started ==
  /\ At(Main, "get") /\ handles = Cats
  /\ pc' = [t \in Threads |-> "idle"]
  /\ UNCHANGED <<writer, readers, envVars, categories, handles, records, hooked,
                 tsd, mdcGhost, since, job>>

-----------------------------------------------------------------------------
(* A message: vzlog, hzlog, zlog.                                          *)

\* zlog_category_needless_level: the bitmap is read without the lock.
LogCheck(t, c, l) ==
  /\ At(t, "idle") /\ c \in handles /\ l \in categories[c].bits
  /\ since < MaxLog
  /\ Goto(t, "rdlock")
  /\ job' = [job EXCEPT ![t] = [NoJob EXCEPT !.cat = c]]
  /\ UNCHANGED <<writer, readers, envVars, categories, handles, records, hooked,
                 tsd, mdcGhost, since>>

LogLock(t) ==
  /\ At(t, "rdlock") /\ writer = NoThread
  /\ readers' = readers \cup {t}
  /\ Goto(t, "fetch")
  /\ UNCHANGED <<writer, envVars, categories, handles, records, hooked, tsd,
                 mdcGhost, since, job>>

\* zlog_fetch_thread: the thread's buffers are made once, and made again
\* when the environment has another version; its mdc stays.
Fetched_FirstOnly(t) ==
  IF tsd[t].version # 0 THEN tsd[t]
  ELSE [tsd[t] EXCEPT !.version = init_version, !.buf = BufOf[contents[env_conf]]]

Fetched(t) == [tsd[t] EXCEPT !.version = init_version, !.buf = BufOf[contents[env_conf]]]

LogFetch(t) ==
  /\ At(t, "fetch")
  /\ tsd' = [tsd EXCEPT ![t] = Fetched(t)]
  /\ Goto(t, "output")
  /\ UNCHANGED <<writer, readers, envVars, categories, handles, records, hooked,
                 mdcGhost, since, job>>

\* Buffers that cannot be made: the message is given up.
LogFetchFails(t) ==
  /\ "thread" \in MayFail /\ At(t, "fetch") /\ tsd[t].version # init_version
  /\ readers' = readers \ {t}
  /\ Goto(t, "idle")
  /\ job' = [job EXCEPT ![t] = NoJob]
  /\ UNCHANGED <<writer, envVars, categories, handles, records, hooked, tsd,
                 mdcGhost, since>>

\* The list of rules a message is written through.
FitOf(t) == categories[job[t].cat].fit

\* zlog_category_output goes through the fitting rules; then the counter is
\* read for the increment (several readers are here at the same time).
\* There is no going through a list that is not there.
LogOutput(t) ==
  /\ At(t, "output") /\ FitOf(t).gen # 0
  /\ job' = [job EXCEPT ![t].n = IF Period = 0 THEN 0 ELSE reload_count]
  /\ Goto(t, IF Period = 0 THEN "unlock" ELSE "count")
  /\ UNCHANGED <<writer, readers, envVars, categories, handles, records, hooked,
                 tsd, mdcGhost, since>>

\* An output that failed skips the counter.
LogOutputFails(t) ==
  /\ At(t, "output") /\ FitOf(t).gen # 0
  /\ Goto(t, "unlock")
  /\ UNCHANGED <<writer, readers, envVars, categories, handles, records, hooked,
                 tsd, mdcGhost, since, job>>

\* Without a list, or through rules that are freed, the output may also be the
\* end of the process.
OutputDies(t) ==
  /\ At(t, "output")
  /\ FitOf(t).gen = 0 \/ (FitOf(t).gen \notin live /\ FitOf(t).rules # {})
  /\ pc' = [u \in Threads |-> "dead"] /\ readers' = {}
  /\ UNCHANGED <<writer, envVars, categories, handles, records, hooked, tsd,
                 mdcGhost, since, job>>

Due(n) == n > Period

LogCount(t) ==
  /\ At(t, "count")
  /\ reload_count' = job[t].n + 1
  /\ since' = since + 1
  /\ Goto(t, IF Due(job[t].n + 1) THEN "unlock_reload" ELSE "unlock")
  /\ UNCHANGED <<writer, readers, is_init, init_version, env_conf, contents, live, torn,
                 categories, handles, records, hooked, tsd, mdcGhost, job>>

LogUnlock(t) ==
  /\ pc[t] \in {"unlock", "unlock_reload"}
  /\ readers' = readers \ {t}
  /\ Goto(t, IF At(t, "unlock") THEN "idle" ELSE "wrlock")
  /\ job' = [job EXCEPT ![t] = [NoJob EXCEPT !.auto = At(t, "unlock_reload")]]
  /\ UNCHANGED <<writer, envVars, categories, handles, records, hooked, tsd, mdcGhost, since>>

-----------------------------------------------------------------------------
(* zlog_reload.                                                            *)

\* Somebody asks for a reload of the configuration file.
ReloadAsk(t) ==
  /\ At(t, "idle") /\ Len(contents) < MaxConf
  /\ Goto(t, "wrlock")
  /\ job' = [job EXCEPT ![t] = NoJob]
  /\ UNCHANGED <<writer, readers, envVars, categories, handles, records, hooked,
                 tsd, mdcGhost, since>>

ReloadLock(t) ==
  /\ At(t, "wrlock") /\ LockFree
  /\ writer' = t
  /\ Goto(t, "reload")
  /\ UNCHANGED <<readers, envVars, categories, handles, records, hooked, tsd,
                 mdcGhost, since, job>>

\* The period is tested again: another thread may have reloaded meanwhile.
AlreadyDone_Never(t) == FALSE

AlreadyDone(t) == job[t].auto /\ ~Due(reload_count)

ReloadQuit(t) ==
  /\ At(t, "reload")
  /\ ~is_init \/ AlreadyDone(t) \/ Len(contents) = MaxConf
  /\ writer' = NoThread
  /\ Goto(t, "idle")
  /\ job' = [job EXCEPT ![t] = NoJob]
  /\ UNCHANGED <<readers, envVars, categories, handles, records, hooked, tsd,
                 mdcGhost, since>>

\* The counter starts again and the new configuration is read; its rules
\* get the records registered so far.
ReloadRead(t) ==
  /\ At(t, "reload") /\ is_init /\ ~AlreadyDone(t) /\ Len(contents) < MaxConf
  /\ reload_count' = 0
  /\ since' = 0
  /\ \E c \in Contents :
       LET g == Len(contents) + 1 IN
       /\ contents' = Append(contents, c)
       /\ live' = IF c \in Parses THEN live \cup {g} ELSE live
       /\ hooked' = IF c \in Parses
                    THEN hooked \cup ReadHooks(c, g) ELSE hooked
       /\ job' = [job EXCEPT ![t].gen = g,
                             ![t].todo = DOMAIN categories]
       /\ Goto(t, IF c \in Parses THEN "update" ELSE "err")
  /\ UNCHANGED <<writer, readers, is_init, init_version, env_conf, torn, categories,
                 handles, records, tsd, mdcGhost>>

\* zlog_category_update_rules begins: the old list becomes the backup and
\* the bitmap is cleared, which threads about to log can see.
UpdateBegin(t, c) ==
  /\ At(t, "update") /\ c \in job[t].todo
  /\ categories' = [categories EXCEPT ![c] =
                      [fit |-> [gen |-> job[t].gen, rules |-> {}],
                       backup |-> categories[c].fit, bits |-> {}]]
  /\ job' = [job EXCEPT ![t].cat = c, ![t].n = 1]
  /\ Goto(t, "obtain")
  /\ UNCHANGED <<writer, readers, envVars, handles, records, hooked, tsd, mdcGhost, since>>

\* One rule of the new configuration: added if it fits, its levels put
\* into the bitmap at once.
UpdateRule(t) ==
  LET c == job[t].cat
      n == job[t].n
      r == RulesOf(job[t].gen)[n] IN
  /\ At(t, "obtain") /\ n <= Len(RulesOf(job[t].gen))
  /\ categories' = IF Fits(c, r)
                   THEN [categories EXCEPT ![c].fit.rules = @ \cup {n},
                                           ![c].bits = @ \cup r.levels]
                   ELSE categories
  /\ job' = [job EXCEPT ![t].n = n + 1]
  /\ UNCHANGED <<writer, readers, envVars, handles, records, hooked, tsd, mdcGhost, since, pc>>

\* The rules are through: the waste bin stands in when none did fit.
UpdateEnd_NoBinBits(t) ==
  LET c == job[t].cat IN
  /\ At(t, "obtain") /\ job[t].n > Len(RulesOf(job[t].gen))
  /\ categories' = [categories EXCEPT ![c].fit = ObtainRules(c, job[t].gen)]
  /\ job' = [job EXCEPT ![t].todo = @ \ {c}]
  /\ Goto(t, "update")
  /\ UNCHANGED <<writer, readers, envVars, handles, records, hooked, tsd, mdcGhost, since>>

UpdateEnd(t) ==
  LET c == job[t].cat IN
  /\ At(t, "obtain") /\ job[t].n > Len(RulesOf(job[t].gen))
  /\ categories' = [categories EXCEPT ![c].fit = ObtainRules(c, job[t].gen),
                                      ![c].bits = BitsOf(ObtainRules(c, job[t].gen))]
  /\ job' = [job EXCEPT ![t].todo = @ \ {c}]
  /\ Goto(t, "update")
  /\ UNCHANGED <<writer, readers, envVars, handles, records, hooked, tsd, mdcGhost, since>>

\* The list cannot be made, or not be made longer for a rule that fits: the
\* category has no list, the levels of the rules so far, and its backup.  The
\* update of the table ends there; the categories before keep the new rules.
UpdateFails(t) ==
  LET c == job[t].cat
      rules == RulesOf(job[t].gen) IN
  /\ "update" \in MayFail
  /\ At(t, "obtain")
  /\ job[t].n = 1 \/ (job[t].n <= Len(rules) /\ Fits(c, rules[job[t].n]))
  /\ categories' = [categories EXCEPT ![c].fit = NoList]
  /\ torn' = TRUE
  /\ Goto(t, "err")
  /\ UNCHANGED <<writer, readers, is_init, init_version, env_conf, contents, live,
                 reload_count, handles, records, hooked, tsd, mdcGhost, since, job>>

\* All categories are updated: the backups go, then the old configuration.
ReloadCommit(t) ==
  /\ At(t, "update") /\ job[t].todo = {}
  /\ init_version' = init_version + 1
  /\ categories' = [c \in DOMAIN categories |-> [categories[c] EXCEPT !.backup = NoList]]
  /\ live' = live \ {env_conf}
  /\ hooked' = {h \in hooked : h[1] # env_conf}
  /\ env_conf' = job[t].gen
  /\ torn' = FALSE
  /\ writer' = NoThread
  /\ Goto(t, "idle")
  /\ job' = [job EXCEPT ![t] = NoJob]
  /\ UNCHANGED <<readers, is_init, contents, reload_count, handles, records, tsd,
                 mdcGhost, since>>

\* The error exit: the new configuration is freed.  Categories are rolled back
\* only if all of them have been updated, and no way from there leads here: what
\* an update that failed half-way has done to them stays.
ReloadErr_Locked(t) ==
  /\ At(t, "err")
  /\ live' = live \ {job[t].gen}
  /\ hooked' = {h \in hooked : h[1] # job[t].gen}
  /\ Goto(t, "idle")
  /\ job' = [job EXCEPT ![t] = NoJob]
  /\ UNCHANGED <<writer, readers, is_init, init_version, env_conf, contents, reload_count,
                 torn, categories, handles, records, tsd, mdcGhost, since>>

ReloadErr(t) ==
  /\ At(t, "err")
  /\ live' = live \ {job[t].gen}
  /\ hooked' = {h \in hooked : h[1] # job[t].gen}
  /\ writer' = NoThread
  /\ Goto(t, "idle")
  /\ job' = [job EXCEPT ![t] = NoJob]
  /\ UNCHANGED <<readers, is_init, init_version, env_conf, contents, reload_count,
                 torn, categories, handles, records, tsd, mdcGhost, since>>

-----------------------------------------------------------------------------
(* Short calls: each runs under the lock from its begin to its end.        *)

\* zlog_put_mdc, zlog_remove_mdc and zlog_clean_mdc (K = all keys).
PutMdc(t, k) ==
  /\ At(t, "idle") /\ writer = NoThread /\ is_init
  /\ tsd' = [tsd EXCEPT ![t] = [Fetched(t) EXCEPT !.mdc = @ \cup {k}]]
  /\ mdcGhost' = [mdcGhost EXCEPT ![t] = @ \cup {k}]
  /\ UNCHANGED <<writer, readers, envVars, categories, handles, records, hooked,
                 pc, job, since>>

RemoveMdc(t, K) ==
  /\ At(t, "idle") /\ writer = NoThread /\ is_init /\ tsd[t].version # 0
  /\ tsd' = [tsd EXCEPT ![t].mdc = @ \ K]
  /\ mdcGhost' = [mdcGhost EXCEPT ![t] = @ \ K]
  /\ UNCHANGED <<writer, readers, envVars, categories, handles, records, hooked,
                 pc, job, since>>

\* zlog_set_record: a user-defined output; the rules in force learn of it.
SetRecord(t, r) ==
  /\ At(t, "idle") /\ LockFree /\ is_init
  /\ records' = records \cup {r}
  /\ hooked' = hooked \cup HookedIn(env_conf, records \cup {r})
  /\ UNCHANGED <<writer, readers, envVars, categories, handles, tsd, mdcGhost, since, pc, job>>

-----------------------------------------------------------------------------
StartUp == ZlogInit \/ Started \/ \E c \in Cats : GetCategory(c) \/ GetCategoryFails(c)

Message(t) ==
  \/ \E c \in Cats, l \in Levels : LogCheck(t, c, l)
  \/ LogLock(t) \/ LogFetch(t) \/ LogFetchFails(t) \/ LogOutput(t)
  \/ LogOutputFails(t) \/ LogCount(t) \/ LogUnlock(t)

Reload(t) ==
  \/ ReloadAsk(t) \/ ReloadLock(t) \/ ReloadQuit(t) \/ ReloadRead(t)
  \/ \E c \in Cats : UpdateBegin(t, c)
  \/ UpdateRule(t) \/ UpdateFails(t) \/ UpdateEnd(t)
  \/ ReloadCommit(t) \/ ReloadErr(t)

Calls(t) ==
  \/ t \in MdcThreads /\ \E k \in Keys : PutMdc(t, k) \/ RemoveMdc(t, {k})
  \/ t \in MdcThreads /\ RemoveMdc(t, Keys)
  \/ \E r \in RecNames : SetRecord(t, r)

Next == StartUp \/ \E t \in Threads : Message(t) \/ OutputDies(t) \/ Reload(t) \/ Calls(t)

\* A thread that holds the lock goes on to the end of its call: nothing it
\* does there waits for another thread.
Inside(t) == t \in readers \/ writer = t
Spec == /\ Init /\ [][Next]_vars
        /\ \A t \in Threads : WF_vars(Inside(t) /\ (Message(t) \/ OutputDies(t) \/ Reload(t)))

-----------------------------------------------------------------------------
\* The program's categories have the rules of the configuration in force and the
\* bitmap of exactly those rules, and no backup is left over.
CatsInForce ==
  \A c \in handles :
    categories[c] = [fit |-> ObtainRules(c, env_conf), backup |-> NoList,
                     bits |-> BitsOf(ObtainRules(c, env_conf))]

\* While nobody holds the write lock no configuration but the one in force is
\* allocated, and the categories have its rules, except after an update of the
\* categories that failed half-way: the next reload that succeeds mends them
\* whatever the failed one left, and one that fails earlier adds no damage to
\* categories that are right (the exits of zlog_reload).
InForce ==
  (writer = NoThread /\ is_init) => live = {env_conf} /\ (torn \/ CatsInForce)

\* What zlog_reload says of its error exit: "fail, roll back everything", and "use old
\* conf file, still working".
RollsBack == (writer = NoThread /\ is_init) => CatsInForce

\* A message is written with buffers made for the configuration in force (vzlog
\* from its rdlock on), and through rules that are allocated unless an update
\* failed half-way, however many reloads passed between its unlocked bitmap
\* test and the lock.
OutputSafe ==
  \A t \in Threads : At(t, "output") =>
    /\ torn \/ FitOf(t).gen \in live
    /\ tsd[t].version = init_version
    /\ tsd[t].buf = BufOf[contents[env_conf]]

\* A reload keeps the user's state: a thread's mdc has the keys it put and
\* did not remove, and every rule in force knows the records registered
\* before or after it was read (zlog_rule_set_record in zlog_reload).
UserStateKept ==
  /\ \A t \in Threads : tsd[t].mdc = mdcGhost[t]
  /\ (writer = NoThread /\ is_init) => HookedIn(env_conf, records) \subseteq hooked

\* A periodic reload comes only after more than reload_conf_period messages
\* since the last reload of any kind, though two threads may find the period
\* over at once and though readers increment the counter without exclusion.
AutoReloadEarned ==
  [][\A t \in Threads :
       (At(t, "reload") /\ job[t].auto /\ Len(contents') > Len(contents)) => Due(since)]_vars

\* Every call that takes the lock gives it back, on its error exits too.
Released == \A t \in Threads : Inside(t) ~> ~Inside(t)
=============================================================================
