# Verification of the PC802 test MAC

The repository holds *nr-testMAC*, a test MAC for the Picocom PC802 5G physical
layer: a console program that configures the PHY over PCIe, starts it, and
answers every slot indication with the TTI requests of a prepared test case. It
carries its own copies of *zlog* (logging) and *libev* (event loop). This directory
models its control logic in TLA+, checks the models with TLC and proves, with TLAPS,
the safety of the message ring, the cells and what they send, the builder of PHY
request groups, the trace, the OAM relay, zlog's environment, files and hash tables, and
libev's timers, iteration, descriptors and wake-up for all values of their constants.

## 1. Inventory

| Component | Source | State | Operations | Interacts with |
|---|---|---|---|---|
| Message ring | `common/src/quickMsgRing.c` | `buf`, `in`, `out`, `emptyFlag` | reserve, copy, publish; begin, hand to callback, complete | main thread sends, a real-time thread receives |
| Cell life cycle | `mac/src/mac.c`, `mac_rx.c` | `gMacCtx[dev][cell]`, `gSystemTtiNum`, static `cellNum` | a handler per command and per indication | ring, link, other cells (TC_STOP) |
| Test cases | `mac.c` (macTcLoad), `macTx.c`, `ttiCmm.h` | request tables and sizes, subcarrier spacing, time | load, clear, send the requests of a slot | cell life cycle |
| Packers | `mac.c` (ConfigReqParams, DlttiParams, UlttiParams), `share/l1_api.h` | none | copy part by part | test cases |
| Group builder | `macTx.c`, `macTx.h` | `phyCtrlMsgCtxt[dev][cell]` | start group, allocate, append, end | called by the handlers, calls the link |
| Uplink statistics | `mac_rx.c`, `mac_cell.c`, `mac_ue.c` | counters per cell and UE | a handler per indication, dump and reset | slot handler |
| Trace | `macTrace.c` | 32-entry ring of pointers | add, drain, end | real-time threads, trace thread |
| OAM relay | `mac_feu_fapi.c` | one client address | receive, forward, answer | timer, link |
| Start-up, console, watchdog | `src/main.c` | options, `slaveCore`, split line, `s_tti`, `s_checkTti`, `s_phyState` | parse, launch threads, one sender per command, `tmr_callback` | rings, cell 0 |
| Logger | `cmm_zlog.c`, `third_part/zlog/src` | environment, configuration, categories, rules, thread data, files | init, log, reload, rotate, format | every thread |
| Event loop | `third_part/libev/ev.c`, `ev_epoll.c` | watchers, heaps, pending queues, descriptor table, wake-up flags | start, stop, iterate, wake | main thread; others wake it |
| PHY and link | not in the repository | | | modelled from its use |

What is hard here:

* **Concurrency without locks.** The main thread, one real-time thread per cell, the
  trace thread and the PHY share rings and globals. The ring's `emptyFlag` is written
  by the receiver only, after a second read of `in`; TC_STOP writes to other cells.
* **Late and stale answers.** Handlers do not test the state they are called in, so
  an answer to a request from before a stop acts on the cell that follows.
* **Lost requests.** `START_L1_MSG_PROC` returns from the sender when the link has no
  memory, and the caller goes on as if the request had been sent.
* **State of an earlier case.** Tables, sizes, spacing and configuration of a test case
  are overwritten piecemeal by the next one.
* **Offsets kept by hand** over messages with variable and optional parts.
* **Logging from every thread** while the configuration is reloaded, files are moved
  away by others, and several processes rotate the same file and may be killed.
* **Callbacks that change what is being iterated over** in the event loop, clocks that
  jump, kernel reports for files that are gone, wake-ups that race with going to sleep.
* **Arithmetic at boundaries**: ring, slot counter, frame and slot numbers, bitmaps,
  arrays that grow, buffers with a limit.

`PROJECT.json` lists 40 such hazards at their lines with the properties for each.

## 2. Modules

`MsgFifo` and `KeyMap` are the abstract specifications; modules whose names begin
with `MC` instantiate the others, those that end in `Proofs` hold the theorems (section 4).
Parts that share no state are checked in one run, as
a sum (`MCRings`, `MCCells`, `MCParts`, `MCZlogOut`): the variable `which` says whose behaviour it is,
and the variables of the others rest at an initial state. What is checked is exactly
what separate runs would check.

### QuickMsgRing, MsgFifo

`QuickMsgRing` follows `quickMsgRing.c` access by access. The sending thread goes
`idle -> sampled -> reserved -> copied -> idle`, the receiving thread `idle ->
begun -> called -> outStored -> compared -> idle`. `RecvMsgComplete` is three
steps, because the store of `out`, the read of `in` and the store of `emptyFlag`
interleave with the sender; reservation is two. A message's content is one number that
fills its words, chosen to collide with the placeholder value. The pack function may
fail, the callback may refuse. `pend` is a history variable, the accepted messages with
their place. `MsgFifo` is what the users of a ring rely on: order, content, redelivery of
a refused message. Dropping is a stuttering step of it.

### MacCell, MacTc, Watchdog

`MacCell`: one real-time thread per cell takes, in any order, the next command
(`App...` actions) or the next group of indications (`CtrlRecv`, then one `Dec...`
action per message). Handlers are atomic except where the code sleeps or loops
over cells: TX_CASE has an end of its own (`AppTxCaseSched`, after the sleep) and
TC_STOP is a step per cell. The PHY (`Phy...`, external) answers late, may answer with
an error, may start with or without saying so. The mode is the one `loadCfg` sets and
nothing changes: MANUAL, no PHY stub. The ring is represented by the FIFO it implements.
`ttisRun` and `lost` are history variables: slots scheduled since the case (re)started,
and the cells of which the link lost a request or an answer came behind a parameter
response.

`MacTc` composes that life cycle with what the requests contain: every step of
`MacCell` is a step of `MacTc`, and those that load, configure, indicate or send also
move the tables, the spacing and the time. What a message in flight carries stands beside
it, entry by entry: `cfgq` the configurations beside `toPhy`, `slotq` the times of slot
indications beside `fromPhy`, `slotrx` beside the group being decoded. A file is the case it belongs to; `Files` may
lack some, and a case may lack its configuration file. `Watchdog` composes it with
`tmr_callback`: a tick skips, counts or exits. The first cell is watched, as in the code.

### MacTx

One `phyCtrlMsgCtxt[dev][cell]` and the block of the link that a group is built in. A
thread goes `idle -> clear -> header -> (alloc -> append)* -> end -> idle`. Which request
it is does not matter to the builder, so the send functions and `macTtiTx` are a number
of requests (`GoOn`) of lengths taken from `Lens`, 0 among them: that is the length of a DL
TTI or UL TTI request for a slot without a file, which is appended and counted like any other.
`pcxxCtrlSend` may refuse any part and `pcxxSendEnd` may fail. A failed `ASSERT` ends the
process. `content` is a history variable: what was put into the block, the requests of length
0, and what the link refused. `GroupWhole` says that the header's count and the traced length
exceed what is in the block by exactly those. In `MacCell` the same functions are one step: sound where one thread uses a
context, which the theorems assume (`Alone`). TC_STOP breaks the assumption (`tx_race`).

### MacRx, FapiPack, MacTrace, OamRelay, Console

* `MacRx`: the handlers of CRC, UCI, RACH and data indications, the sums they keep
  per cell, the dump every `DumpPeriod` and its reset. An indication is what the PHY
  packed; the walk of a UCI indication is by offsets, as in the code, so that a part read
  at the wrong place is garbage.
* `FapiPack`: the three packers, copy by copy, over the layouts of `l1_api.h`. A copy is
  the range of the message it read and the range it wrote.
* `MacTrace`: an add is four accesses by any of several threads, the trace thread reads
  both indices, uploads a batch and gives it back. `sendto` may be short or blocked for any
  call: the rest of that item is lost, and the batch is given back all the same. `tried` are the
  items `sendto` was called for, `refused` the calls it failed.
* `OamRelay`: the socket bound on the first poll, requests forwarded to the PHY, answers
  sent to the one address kept.
* `Console`: options in any order, one thread per cell of each device on the next slave
  core, then reads of the console split into columns and sent.

### ZlogEnv, ZlogConf, ZlogRule, ZlogFile, ZlogSingle, ZlogFormat, ZcHashtable, KeyMap

* `ZlogEnv`: `cmmLogInit`, categories, `vzlog` (bitmap without the lock, read lock, thread
  data, rules one by one, count, unlock, perhaps a reload), `zlog_reload` step by step
  with its error exits, records and mdc. A configuration is a generation; `live` are those
  not freed. Memory for a category's list of rules may run out half-way through a reload
  (`UpdateFails`): nothing is rolled back, the new configuration is freed, and the categories
  stay `torn`, a history, until a reload succeeds. A message that goes through a list that is
  not there, or is of a freed configuration, may end the process (`OutputDies`).
* `ZlogConf`: `zlog_conf_new`. Physical lines are sequences of atoms, joined, cut and
  parsed section by section; `cfLive` counts the objects made and not freed.
* `ZlogRule`: levels in their growing array, a rule line turned into a rule, its bitmap,
  its match with a category.
* `ZlogFile`: a file rotated by size, by threads of one process or two, file system call
  by file system call, with both locks; a process may be killed and a rename may fail.
* `ZlogSingle`: a file kept open, compared with the inode at its path before each message.
* `ZlogFormat`: buffers that grow to a limit, specifiers with widths and caches, hex dumps;
  what happens to a message for which the buffer is too small.
* `ZcHashtable`: buckets and links; what the code finds by following them are recursive
  functions (`Walk`, `InOrder`, `Refilled`). It implements `KeyMap` (`ImplementsMap`).

### EvHeap, EvTimers, EvIo, EvLoop, EvWake

* `EvHeap` has the heap operations, `EvTimers` relative and periodic timers over two
  heaps, with a monotonic clock, a wall clock that is set, and the interpolation between for
  `HalfJump` units of time. The wait passed to the backend is at least `timeout_blocktime` and
  `backend_mintime`, also when a watcher is overdue.
* `EvIo`: descriptors opened, duplicated, closed and reused; watchers; the list of changes;
  epoll with registrations that outlive the descriptor; generation counters; fork.
* `EvLoop`: pending queues by priority, prepare, check, idle, fork and cleanup watchers,
  `ev_once`, `ev_break`, destruction; callbacks do anything a program may.
* `EvWake`: senders, signal handlers and the loop. No step accesses more than one shared
  variable: several senders may find a flag clear before one sets it. The three stores of 0
  that the loop makes without a full fence behind them (`pipe_write_wanted`, `sent` of an
  async, `pending` of a signal) stay in a store buffer until it drains or the next such fence.

## 3. Runs

| Run | Question | Instance | Result |
|---|---|---|---|
| `rings` | Is anything overwritten, skipped or mistaken for empty; is it a FIFO that moves? Is what the trace uploads what was added? | ring of 9 words, messages of 2 and 3 words; trace ring of 4 items, 2 adders, 5 adds | passes |
| `cells` | Is a wait ever forgotten, by how much can a test case overrun, when cells stop each other and requests get lost? Can the event loop sleep over an async or a signal? | 2 cells, 3 commands, 2 slots per case, counter wraps at 3; 2 asyncs, 1 signal, 2 raises, 2 stops or starts | passes |
| `cell_live` | Does a test case get its cell running? Is what is sent to an async collected without another event? | all manual commands, groups of 2, no slot limit; 1 async, 1 signal, 2 raises | passes |
| `tc` | Do requests carry the right slot and the right content? | 3 cases, 2 spacings, missing files, refusals, groups of 2 | passes |
| `tc_config` | Does the PHY run with the configuration of the last case? | 2 tc_case commands | **violated** |
| `watchdog` | Does every wait end? | lost requests, errors, limit 2; 3 slots per case, wrap at 8 | passes |
| `tx_race` | Do the ASSERTs hold when TC_STOP uses another cell's context? | 2 threads | **violated** |
| `zlog_env` | Is a rule used after it was freed; does a reload keep what the user set, also one that fails half-way? | 2 threads, one of which uses mdc, 2 categories, 3 files of which one does not parse, 3 configurations | passes |
| `zlog_reload_fails` | Is everything rolled back when memory runs out half-way through a reload? | 2 threads, no mdc | **violated** |
| `zlog_out` | Is a message lost, misplaced or garbled behind the rule? Is a configuration read as written? | see below | passes |
| `zlog_single` | Does a message go to its rule's file when two threads log? | 2 threads, a file moved away | **violated** |
| `parts` | Group builder, indications, packers, relay, console; timers, descriptors, iteration | see below | passes |

**Properties in parts.** Where a part of the system is correct only if several things
hold together, the property of the run is their conjunction, and each has its own
definition and comment beside it:

| Property | Parts |
|---|---|
| `BothDrained` | `HeadTaken`, `TraceSent` |
| `ArchivesInOrder` | `NumbersTellAge`, `CountKept` |
| `FileFollowed` | `NotBehind`, `OneDescriptor`, `SyncedInTime` |
| `MessageBuilt` | `BufsInBounds`, `TextAsMeant`, `CutAndMarked` |
| `RulesAgree` | `LevelsInArray`, `BitmapAgrees`, `MatchesFamily`, `NothingLeftOpen` |
| `ConfSound` | `WrongLineRefused`, `RulesUsable`, `NothingLeaks` |
| `HashSound` | `ListsSound`, `IterationComplete` |
| `ReportsCounted` | `DumpTellsPeriod`, `RachMeansRight`, `WalkStaysInside`, `CsiCounted` |
| `Packed` | `PackedExactly`, `SizesRight` |
| `ConsoleSound` | `LineObeyed`, `ThreadsPlaced` |
| `TimersRight` | `HeapsSound`, `SleepNotPast`, `DueOrder`, `NoneOverlooked`, `PeriodicNear` |
| `FdsSound` | `KernelKnows`, `NoStaleEvent`, `ChangesListed` |
| `LoopRight` | `LoopSound`, `PendingOwed`, `OnceCalledOnce` |
| `WakeSound` | `NoSleepOverSend`, `CallsNotInvented` |

**What the violations show.**

* `tx_race`: the context is cleared between allocate and append of another thread, and
  `ASSERT(pTxCtx->curMsgLen < pTxCtx->maxRemLen)` fails although there is room.
* `tc_config`: a second tc_case that finds the first still being configured sends a stop,
  which the PHY refuses since it is not running; it is then started with the first case's
  configuration and gets the second case's requests for ever.
* `zlog_single`: one thread closes the shared descriptor while another is about to write
  to it; the message is lost, or lands in whatever file was opened next.
* `zlog_reload_fails`: when a category's list of rules cannot be made, the reload gives up with
  `c_up` 0, so that nothing is rolled back (`zlog.c:258-261`, `282`): that category is left
  without a list, those before it keep rules of the configuration that is then freed.

**Bounds.** The ring must be large enough for a rewind with an older message still
unread, and small enough that every pair of `in` and `out` occurs: 9 words with messages
of 2 and 3 do both; the theorems cover the rest. `MaxCmds` 3 gives start-stop-start and
stop-start-stop; `Window` bounds the slots in flight to what lets a slot arrive after a stop
request and after a reconfiguration; `MaxTti` is twice the slots per case or more.
`TtiWrap` is 2^32 in the code; it is 3 and 8 here so that it is reached within a case.
`Limit` (1000000 in the code) has the same two sides at any value. `tc` has frames of 3
slots at 15 kHz and 6 at 30 kHz, 4 frame numbers and a window of 2, so that both wrap.
In `parts`, three of the longest requests and the header leave one byte of the block, the
tightest case `SizesAssumption` allows, and one length is 0; RSSI sums have 8 bits and overflow; the timers are
three relative and two periodic, on a binary heap (the code's 4-heap would not get
below its second level with five), with a least wait of 1; two descriptors are opened as three files under
three watchers; a callback makes at most 4 calls in a behaviour of the loop. In `zlog_out`
four messages reach the second rotation with archives of at most 2 and with a crash at
every step; nine user levels lie at the borders of bytes and of the array; five keys make
the table grow twice; some 200 configuration files combine options in different orders,
continued lines, wrong lines and sections out of order, with and without
`ZLOG_STRICT_INIT`; `JoinMax` is below the longest of the joined lines. In `zlog_env`
three generations allow a reload between the bitmap test and the lock of another thread, and
one that succeeds after one that failed half-way. Two asyncs share a flag in
`cells`, and a source is raised again in both runs of `MCCells`.
Every named bound is a constant of its module.

**Deadlock** is not checked where the bounds (commands, messages, operations) end every
behaviour, or a stopped PHY does.

**Fairness.** A real-time thread loops for ever over its ring and its channel
(`phyRecvThreadMain`), so it never stops (weak fairness) and neither source keeps it from
the other (strong fairness of each). The PHY answers requests and keeps indicating
slots while it runs. The event loop keeps firing the timer. The trace thread loops, and
an add once begun is finished. In `EvWake` the loop thread and a sender once begun go on,
and a store buffer drains. A thread inside zlog goes on,
or its process dies of a list that is gone. The main thread is not assumed to
send anything, and the link is not assumed to deliver in the watchdog's run.

**Limits of the liveness properties.** `TxCaseRuns` is checked with no slot limit per
case. With one it does not hold: a slot that was in flight counts as the last
slot of the new case, and a start indication that precedes the first slot keeps
`macTxStartIndHandle` from resetting the counter and the scheduling state. It excepts
answers that came behind a parameter response in a group. `WaitEnds` excepts `-T 1`.

## 4. Proofs

`QuickMsgRingProofs` proves every safety property of the message ring in `rings`, and
beside them its types (`TypeOK`), that `in = out` only in an empty ring (`RingNeverFull`)
and that the callback is given the oldest message (`DeliversOldest`), for every size of
at least 2 words, all lengths and contents, from `SizeAssumption`,
`LensAssumption` and `PayloadAssumption` only.

The argument measures everything by its cyclic distance from `out`
(`Dist(out, a)`). The inductive invariant `IInv` says that the accepted messages
follow one another without gaps from distance 0 up to `in`, each intact and with
its end where the next begins (a message behind a placeholder includes the rest
of the buffer); that the sender's sample of `out` lies between the true `out` and
`in` seen from `in`, that is, only behind; that what the sender has reserved is
beyond `in` and at least a word short of `out`; and that `emptyFlag`, at the
points where it is read, is 1 only if the ring is empty. None of the properties is
inductive alone: that a reservation destroys nothing needs the bound on the stale
sample, and that `in = out` means empty needs the word to spare, which needs
both.

`MacTxProofs` proves `GroupWhole` and `AssertsHold` for all lengths and block sizes,
from `SizesAssumption`, `FailAssumption` and `Alone` (one thread per context). That a
block holds three of the longest requests is an assumption: the code asserts it
and has no other way to find out. `TxInv` adds what a thread knows in the middle of
a group: before the header the block is empty (`Fresh`); then the bytes committed
are those written, and the count and the length to trace exceed them by the requests of
length 0 and those refused so far (`Agree`); and what is committed leaves room for the
requests to come (`Room`). `GroupWhole` speaks of finished groups only and is not
inductive without `Agree`.

`RingIsFifo` is the refinement of `MsgFifo` without its fairness: the initial states map to
the empty queue, and every step to a step of the queue or to none.

| Module | Theorems | Assumptions |
|---|---|---|
| `QuickMsgRingProofs` | `TypeCorrect`, `Invariance`, `NeverFull`, `EmptyExact`, `Intact`, `Delivery`, `Acceptance`, `RingIsFifo` | `SizeAssumption`, `LensAssumption`, `PayloadAssumption` |
| `MacTxProofs` | `TxInvariance`, `WholeGroups`, `NoAssertFails` | `SizesAssumption`, `FailAssumption`, `Alone` |
| `MacTcProofs`, part 1 | `CellTypes`, `CaseSlots`, `WaitsAnswered` | those of `MacCell`; `CaseSlots`: `WidthAssumption`, a limit below the counter's wrap |
| `MacTcProofs`, part 2 | `TcIsCell`, `StampsRight`, `ContentsRight` | `TcAssumption`: frames of more than 2 slots |
| `MacTcProofs`, part 3 | `ConsoleIsObeyed` | `ConsoleAssumption`: the ten entries of `slaveCore` suffice |
| `PhyLinkProofs` | `TraceIsFaithful`, `AnswersGoHome` | `TraceAssumption` |
| `ZlogEnvProofs` | `EnvAlways`, `RulesInForce`, `OutputIsSafe`, `StateKept`, `ReloadEarned` | `ThreadAssumption`, `ConfAssumption` |
| `ZlogOutProofs`, part 1 | `NothingIsLost`, `ArchivesStayInOrder`, `OldestArePruned` | `FileAssumption`: no bound on threads, processes, sizes or archives |
| `ZlogOutProofs`, part 2 | `FileIsFollowed` | `FileFollowed` for one thread (stated in the theorem) |
| `ZlogOutProofs`, part 3 | `ListsStaySound`, `HashIsMap` | `HashAssumption`: finitely many keys |
| `ZlogOutProofs`, part 4 | `RulesAlwaysAgree` | `RuleAssumption`, a level list of 32 at first |
| `EvLoopProofs`, part 1 | `LoopIsRight` | `EvLoopAssumption`: finitely many watchers, each `ev_once` with two of its own |
| `EvLoopProofs`, part 2 | `WakeIsSound` | `EvWakeAssumption` |
| `EvLoopProofs`, part 3 | `TimersStayRight` | `EvTimersAssumption` |
| `EvIoProofs` | `FdsSoundHolds`, `KernelTracked` | `EvIoAssumption`: finitely many descriptors, watchers that ask for something |

None of the bounds of the runs (commands, messages, operations) matters to a theorem: they
are guards that only take steps away.

**Cells.** `TypeOK` and `WaitAnswered` are inductive together. For the latter each state
waited in is a clause: every handler that enters it sends first, and whatever takes the
request or the answer out of a queue moves the cell on or puts the next one in. A cell of
which the link lost something is left out for good, so nothing is needed of the others.
`RunBounded` says nothing of a case that still runs; `SlotsInv` relates the slots run to
`gSystemTtiNum` in the two ranges the counter can be in: below the limit, where it may just
have wrapped, and above, where the distance to the last multiple of the limit counts.

**Test cases.** `TcIsCell` makes the theorems of the cells available here. `TcInv` adds that
an entry with a size holds the loaded case and one of another case belongs to a file of it
(`Tables`), that configurations in flight are the MAC's (`ConfigsInv`), and that a slot
indication carries a time of the PHY's frames and meets a MAC that has a spacing, in both
queues (`SlotInv`): without it the shifted time would be outside the tables. Slot times are
compared modulo all slots of all frames, which is where `gsfnShift` could be one off.

**Console.** `CellsAfter(n)` gives the cells after n options, those of the greatest mask
in them that is not 0; `Placed` says that the cores up to `cpu_index` have the threads wanted of
the devices passed, counted against `Wanted`, so that start-up can only get stuck with too few
cores. `LineObeyed` is about one read: the words of a read begin with the parameters of its first
line (`WordsBegin`, an induction over the lines), and a number stands in its column
(`MeantIsSent`).

**Trace and relay.** `TraceInv` cuts the ring in three: what was tried and not given back,
what was added and not tried (intact), and the item being added; the calls that `sendto`
refused are among those tried. It is stated up to the first overlap of two adds and the first
overrun. What is proved is what `sendto` is given; a refused item is not tried again. `OamInv`: datagrams are numbered as they
arrive, those received come before those in the socket, the address is the last one's.

**zlog.** Each property speaks of moments at which nobody writes. `EnvInv` says what holds in
between: who has the lock (`Locks`), which configurations are allocated (`Confs`), which
categories were updated, obtained or rolled back so far (`CatsBetween`), which records are
hooked (`HooksSet`), what a message in progress works on (`Messages`), and that the unguarded
counter can only lose increments (`Counted`), from which the action property follows. From an
update that fails half-way to the next commit (`torn`) the clauses about categories are
suspended, those about the lock, the configurations and the records are not; the theorems
include that a commit ends it whatever was left.

**Files.** A rotation is a list of the archives, made once, and a rename per step, so what
must hold in the middle depends on the step. `LocksInv` says that one thread at a time
rotates; `RollingMover` and `SequenceMover` what of its list is done and that the rest is
still in the directory. A rename that fails, or a process killed between two, leaves a gap:
`Gapped` says that there is at most one, wherever it is, and the next rotation closes it from
below, so that no rename lands on a file that is wanted (`NothingLost`). The action property
needs that the list is in the order of the inodes, hence `NumbersTellAge` in the invariant.
For the file that is kept open, `SingleInv` says what a message has seen since its call began
(`HasSeen`) and what the inode that the rule remembers says of the path: where a new file takes
the place of the one moved away inodes only grow (`Replaced`), where the path is left empty only
the rule makes the file (`LeftEmpty`). `RightFile` is proved with it. It needs one thread: the
run `zlog_single` refutes `RightFile` for two.

**Hash table.** The links `next` and `prev` stand for a sequence per bucket. `HashInv` names
them: there are lists `ls`, one per bucket, without repetition, of keys that hash there, such
that the links are those of the lists (`Table`). A put is a prepend (`LinkedKeeps`), a remove
drops a place (`UnlinkedKeeps`), and a rehash, which takes the entries in the order of the
old table and links each into the new one, is a recursive function of which every prefix
keeps the table sound (`RehashedIs`). `CursorAt` places the iteration: what it has seen are
the lists before its bucket and the list up to its place. Then `Get` is a function of the lists,
and the refinement of `KeyMap` follows per operation.

**Rules.** `RuleInv` says that the level list has the standard levels in 256 slots
(`LevelsGood`) and that a rule there is was made of some line (`MadeOf`). `BitsOfBytes` and
`PowIs` turn the masks of the bitmap into the level that is compared, byte by byte, and
`MatchRight` does the same for the category. The size of 32 is in the theorem because it is
needed: `zc_arraylist` grows to twice its size or to the index, not to the index and one
(`zc_arraylist.c:65`), and is safe only as the sizes on the way are 32, 64, 128 and 256; with
121 at first, level 254 would be written behind the array.

**Wake-up.** `NoSleepOverSend` speaks of the sleep only, and of asyncs and signals alike. Its
exception is a signal that `pipecb` found raised while its watcher was stopped: nothing lowers
it, and a watcher started later sleeps over it until the signal comes again. `WakeInv` is the
chain that is kept at every access: a raised source is flagged, has a sender about to flag it,
is about to be looked at, or is lowered by a store on its way; a flag has somebody about to see
to it, or a byte in the pipe; once the loop has decided to sleep, whoever skipped the write is
still there to take it back, because `pipe_write_wanted` is visible to it. That what was
raised is collected is not that every send is followed by a call (Remarks).

**Timers.** The heaps are arrays with indices kept by hand. `upheap` and `downheap` are read as
shifts along a path, so that each only reorders (`MovedPermutes`) and repairs what is out of
order (`UpheapSorts`, `DownheapSorts`); a reify is a walk of steps of which each feeds the
earliest and leaves one fewer late (`RunsDry`). `TimersInv` says that every active watcher is
in its heap once, how the clocks the loop remembers relate to the real ones, and how far the
next time of a periodic may be off (`Grid`); `CallsInv` that what is pending continues the
order of what was called. `SleepNotPast` bounds the wait by the time to each watcher or the
least wait, whichever is more: the code does sleep past a watcher that is nearer than that.

**Iteration.** `LoopInv`: queue entries and `pending` fields agree both ways, arrays and
`active` fields too, `activecnt` counts, and a freed `ev_once` has neither an active watcher
nor an entry. Feeding an array is a recursive function over it. The theorem about it (`FeedAllKeeps`) is
an induction, made without the library's induction rules: a place at which the queues were
wrong would have a smallest one (`UpTo`, from `WFMin`), and the function exists because
every prefix of it does (`StepsExist`).

**Descriptors.** `FdsSound` speaks of the moment the loop polls, and of what it reports.
Between polls the program closes descriptors, opens files on them, keeps files open
elsewhere and starts watchers without `ev_io_set`. `KnownInv` says what survives that: unless
a descriptor is marked as set anew, what the loop believes it told the kernel is registered
for the file open now, under the current generation, and no other file of the descriptor,
in the kernel or in a report not yet processed, has that generation. It rests on the kernel's
side (`GensInv`): a generation is used once per descriptor, and the file open now is
registered under the current one, with the mask the loop remembers or after a stop has
forgotten. So an `EEXIST` with the old mask, the one case in which `epoll_modify` takes back the
generation, can only be the right registration (`ModifiedRight`). `PendInv` is the same for
events fed and not yet called, through the two loops that feed and the one that passes
`epoll_eperms` from its end; they are inductions of the kind above (`FedAllKeeps`,
`EpermsPassed`).

**Only model-checked.**

* Liveness and fairness, out of the prover's reach: `BothDrained`, `TxCaseRuns`, `WaitEnds`,
  `Released`, `SentIsCollected`, and the fairness in `ImplementsFifo`.
* Properties that compare a recursive computation with a definition: `Packed`,
  `ReportsCounted`, `MessageBuilt`, `LinesAsMeant`, `ConfSound`. The inductions of `EvLoopProofs`, `EvIoProofs` and `ZlogOutProofs` show that
  each step keeps an invariant; what these computations return would need a statement about
  every prefix, one by one, for each of them.

## 5. Remarks

What the models show of the code beside the four findings:

* An empty ring whose `out` is stored and whose `emptyFlag` is not yet looks full, and a
  message is dropped (`quickMsgRing.c:83-84`, `213`). `EmptyRingAccepts` is for a settled flag.
* A DL TTI or UL TTI request without a file for the slot is appended with length 0 and counted,
  so the group's header announces more requests than its block has (`macTx.c:116`, `210-220`,
  `238-246`); a request that `pcxxCtrlSend` refuses is counted too.
* A trace item whose `sendto` is short or blocked is lost (`macTrace.c:189-192`).
* `tc_stop` does not leave a cell stopped: every stop indication sends a configuration,
  whose answer starts the PHY again (`mac.c:1237`).
* The watchdog's count goes on where the last wait in the same state ended (`main.c:652`),
  so that short waits add up to a timeout.
* Every configuration with 15 kHz doubles the process-wide timeouts (`mac_cell.c:43`).
* The RACH minimum and maximum are compared with each other's fields, so the maximum
  may be below the minimum (`mac_rx.c:216-220`, printed at `mac_cell.c:84`); the RNTI of a
  CSI report on PUSCH is the one of an earlier PUCCH report.
* The packers are only used when `runMode` is not `RUNMODE_FAPI_GENERATOR`. The loops over
  precoding groups and interfaces reuse the index of the loop around them
  (`mac.c:818`, `824`), and some variable arrays are read where the compiler puts them, at
  size 0: a message with more than one of these is not packed right. `Regular` in `FapiPack`
  are the messages that are.
* `macTcLoad` reads each file with a size taken from an array indexed one level short
  (`mac.c:1160`).
* More than ten slave cores overflow `slaveCore` (`main.c:866`); device and cell numbers of a
  command are not checked (`main.c:391`); of several lines in one read only the first is
  obeyed (`main.c:572`).
* A size given as `1GB` for a rotated file is read as 1 byte (`rule.c:773`).
* A message that fills its buffer is cut and marked there, but `zlog_format_gen_msg` returns -1
  (`format.c:159-160`) and the rule gives it up: it is not written. `format.c:145` says that a
  full buffer is a success, and `UsersGuide-EN.lyx:1445` that the content is truncated. `CutAndMarked`
  is about what is in the buffer, not about what becomes of it.
* The store of `sent = 0` in `pipecb` is followed by a release fence only (`ev.c:2533-2534`), no
  instruction on x86. It may become visible after the callback has begun and undo a send made
  since: the loop wakes for that send and calls nobody. `WakeSound` and `SentIsCollected` do not
  claim otherwise; they are about sources that are still raised.
* A signal whose watcher is stopped between the signal and `pipecb` stays marked as pending; a
  watcher started afterwards learns of it only when the signal comes again (`ev.c:2518`, `2583`).
* In a configuration file, words on both sides of a continuation become one word; a tail
  comment that ends in a backslash takes the next line with it; a continued line at the end
  of the file is forgotten; a line of `[global]` without a value refuses the file even with
  `strict init = false`.

## 6. Not modelled

* Tables of static values (`macLoad.c`), type declarations beyond those the packers and the
  UCI walk use, print wrappers and message descriptions, `cmmUdp.c`, thin wrappers of
  pthread and malloc, DPDK start-up and PCIe set-up: no control, or pure input and output.
* `cmmQuickMsgRing.c`: compiled and never called.
* AUTO mode and the PHY stub, which the build cannot enter; the shared-memory build
  (`ATLL_SHM`), whose branches no longer compile.
* zlog: `zlog_fini`, the `dzlog` functions, dynamic file
  names (they take the steps of the static ones), pipes and syslog; parsing of a pattern is
  abstracted to its result, `zlog_format_new` on a configuration line to whether it is well
  formed; physical lines longer than the buffer.
* libev: `ev_stat`, `ev_child`, `ev_embed`, reschedule callbacks of periodics, signalfd, fork
  in `EvWake`, and the backends other than epoll: not built in, or used by nothing here.
* UCI PDUs that carry both CSI part 2 with TLVs and UCI info: the PHY is assumed not to send
  them.
* Weak memory ordering: steps take effect in program order, except the stores `EvWake`
  buffers. `quickMsgRing.c` has no barriers.
