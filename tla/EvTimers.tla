------------------------------ MODULE EvTimers ------------------------------
(***************************************************************************)
(* Relative timers and periodic timers of a libev loop (ev.c): the clocks  *)
(* the loop remembers, the heaps of active watchers, and how an iteration  *)
(* of ev_run waits, makes overdue watchers pending and calls them.  The    *)
(* watchdog of the program is such a timer.                                *)
(*                                                                         *)
(* Time is in whole units of any size.  The wall clock is read again after *)
(* MIN_TIMEJUMP / 2, which is HalfJump of them, and interpolated before; a *)
(* jump of it is noticed from MIN_TIMEJUMP on.                             *)
(***************************************************************************)
EXTENDS EvHeap

CONSTANTS Timers, Periodics,
          Repeat,     \* repeat of each timer, 0 for a one-shot
          Interval,   \* interval of each periodic, 0 for an absolute time
          Offset,     \* offset of each periodic
          Afters,     \* delays timers are started with
          Steps,      \* how much time one wait or one callback takes
          Jumps,      \* by how much the wall clock may be set
          HalfJump,   \* MIN_TIMEJUMP / 2
          MaxBlocktime,     \* MAX_BLOCKTIME
          TimeoutBlocktime, \* timeout_blocktime, 0 unless a program sets it
          BackendMintime,   \* backend_mintime, the least the backend can wait
          MaxClock,   \* bound: the monotonic clock
          MaxTimerOps \* bound: operations on watchers

ASSUME EvTimersAssumption ==
  /\ Repeat \in [Timers -> Nat] /\ Interval \in [Periodics -> Nat] /\ Offset \in [Periodics -> Int]
  /\ Afters \subseteq Nat /\ Steps \subseteq Nat /\ Jumps \subseteq Int
  /\ HalfJump \in Nat \ {0} /\ MaxBlocktime \in Nat
  /\ TimeoutBlocktime \in Nat /\ BackendMintime \in Nat
  /\ MaxClock \in Nat /\ MaxTimerOps \in Nat
  /\ Timers \cap Periodics = {} /\ "pending_w" \notin Timers \cup Periodics

MinTimejump == 2 * HalfJump

TimerWatchers == Timers \cup Periodics
HeapOf(w) == IF w \in Timers THEN "timers" ELSE "periodics"

VARIABLES
  clock,     \* the monotonic clock
  wall,      \* the wall clock less the monotonic clock
  now,       \* mn_now, ev_rt_now, rtmn_diff, now_floor, and slewed, a history: by how
             \* much the wall clock went back unnoticed since periodics were set anew
  heap,      \* timers and periodics
  at,        \* ev_at of each watcher: absolute while active, relative otherwise
  timerPendings, \* the pending queue; the last entry is called first
  timerPhase, \* "ready" to wait, "wait" in the backend, "invoke" callbacks
  waittime,  \* for how long the backend was asked to wait
  called,    \* when each watcher called in this iteration was due
  overdue,   \* watchers the last call of a callback overlooked
  timerOps

timerVars == <<clock, wall, now, heap, at, timerPendings, timerPhase, waittime, called, overdue, timerOps>>

EvTimersInit ==
  /\ clock = 0 /\ wall = 0
  /\ now = [mn |-> 0, rt |-> 0, diff |-> 0, floor |-> 0, slewed |-> 0]
  /\ heap = [k \in {"timers", "periodics"} |->
               [a |-> <<>>, ix |-> [w \in {v \in TimerWatchers : HeapOf(v) = k} |-> 0]]]
  /\ at = [w \in TimerWatchers |-> 0]
  /\ timerPendings = <<>> /\ timerPhase = "ready" /\ waittime = 0 /\ called = <<>> /\ overdue = {} /\ timerOps = 0

InHeap(w) == heap[HeapOf(w)].ix[w] > 0

----------------------------------------------------------------------------
(* Time. *)

\* The first multiple of the interval after rt, counted from the offset.
PeriodicRecalc(w, rt) ==
  Offset[w] + Interval[w] * (((rt - Offset[w]) \div Interval[w]) + 1)

\* periodics_reschedule: every periodic with an interval is set anew.
RescheduledAt(rt) ==
  [w \in TimerWatchers |-> IF w \in Periodics /\ InHeap(w) /\ Interval[w] > 0
                      THEN PeriodicRecalc(w, rt) ELSE at[w]]

RescheduledHeap(rt) ==
  LET h == heap["periodics"]
  IN Reheap([h EXCEPT !.a = [i \in DOMAIN h.a |-> [at |-> RescheduledAt(rt)[h.a[i].w], w |-> h.a[i].w]]])

\* The clock values time_update takes over at monotonic time c: the wall clock is
\* interpolated until it is time to read it again.
Interpolated(c) == c - now.floor < HalfJump
Jumped(c) == ~Interpolated(c) /\ (wall - now.diff >= MinTimejump \/ now.diff - wall >= MinTimejump)
Slewed(c) == IF Jumped(c) THEN 0 ELSE now.slewed + (IF wall < now.diff THEN now.diff - wall ELSE 0)
NowAt(c) ==
  IF Interpolated(c) THEN [now EXCEPT !.mn = c, !.rt = now.diff + c]
  ELSE [mn |-> c, rt |-> c + wall, diff |-> wall, floor |-> c, slewed |-> Slewed(c)]

\* time_update on a host with a monotonic clock: timers need no adjustment.
TimeUpdate(c) ==
  /\ now' = NowAt(c)
  /\ IF Jumped(c) THEN /\ at' = RescheduledAt(NowAt(c).rt)
                       /\ heap' = [heap EXCEPT !["periodics"] = RescheduledHeap(NowAt(c).rt)]
     ELSE UNCHANGED <<at, heap>>

----------------------------------------------------------------------------
(* What makes watchers pending. *)

Root(h) == h.a[1]
Due(h, t) == Len(h.a) > 0 /\ Root(h).at < t

\* One overdue timer: it is set to its next time, not into the past, or stopped.
\* s carries the heap, the times and the watchers to feed, in order.
TimerStep(s, mn) ==
  LET w == Root(s.h).w
      next == IF s.at[w] + Repeat[w] < mn THEN mn ELSE s.at[w] + Repeat[w]
  IN [feed |-> Append(s.feed, [w |-> w, due |-> s.at[w]]),
      at |-> [s.at EXCEPT ![w] = IF Repeat[w] > 0 THEN next ELSE @ - mn],
      h |-> IF Repeat[w] > 0 THEN Downheap(Retimed(s.h, w, next), Len(s.h.a), 1) ELSE Leave(s.h, w)]

PeriodicStep(s, rt) ==
  LET w == Root(s.h).w
  IN [feed |-> Append(s.feed, [w |-> w, due |-> s.at[w]]),
      at |-> [s.at EXCEPT ![w] = IF Interval[w] > 0 THEN PeriodicRecalc(w, rt) ELSE @],
      h |-> IF Interval[w] > 0
            THEN Downheap(Retimed(s.h, w, PeriodicRecalc(w, rt)), Len(s.h.a), 1) ELSE Leave(s.h, w)]

\* timers_reify and periodics_reify: steps until the root is not overdue; every
\* watcher steps at most once, as its new time is not before t.
Reified(k, t) ==
  LET step(s) == IF k = "timers" THEN TimerStep(s, t) ELSE PeriodicStep(s, t)
      S[i \in 0 .. Len(heap[k].a)] ==
        IF i = 0 THEN [feed |-> <<>>, at |-> at, h |-> heap[k]]
        ELSE IF Due(S[i - 1].h, t) THEN step(S[i - 1]) ELSE S[i - 1]
  IN S[Len(heap[k].a)]

\* feed_reverse_done: the last watcher noted is the first made pending, so the
\* one due first is called first.
Fed(s) == [i \in 1 .. Len(s) |-> s[Len(s) + 1 - i]]

----------------------------------------------------------------------------
(* An iteration of the loop. *)

Min2(a, b) == IF a < b THEN a ELSE b
Max2(a, b) == IF a < b THEN b ELSE a

\* However late a watcher is, the backend is passed a minimum: it cannot wait for
\* less, and timeout_blocktime asks for more.
LeastWait == Max2(TimeoutBlocktime, BackendMintime)

\* How far off the root of a heap is.
RootIn(k, t) == IF Len(heap'[k].a) = 0 THEN MaxBlocktime ELSE Root(heap'[k]).at - t

Waittime_TimersOnly(mn, rt) == Max2(LeastWait, Min2(MaxBlocktime, RootIn("timers", mn)))

\* How long the backend may sleep: to the first timer and the first periodic, but no
\* less than the minimum. With io_blocktime ev_sleep sleeps part of it.
Waittime(mn, rt) ==
  Max2(LeastWait, Min2(MaxBlocktime, Min2(RootIn("timers", mn), RootIn("periodics", rt))))

\* The wait is 0 with EVRUN_NOWAIT, idle watchers, or a wake-up that was skipped.
TimersPrepare ==
  /\ timerPhase = "ready"
  /\ TimeUpdate(clock)
  /\ waittime' \in {0, Waittime(now'.mn, now'.rt)}
  /\ timerPhase' = "wait"
  /\ UNCHANGED <<clock, wall, timerPendings, called, overdue, timerOps>>

\* The backend returns after d, which other events or a busy machine decide.
Wait(d) ==
  /\ timerPhase = "wait" /\ clock + d <= MaxClock
  /\ clock' = clock + d
  /\ TimeUpdate(clock + d)
  /\ timerPhase' = "reify" /\ waittime' = 0
  /\ UNCHANGED <<wall, timerPendings, called, overdue, timerOps>>

\* Timers are fed before periodics, so periodics are called first.
Reify ==
  /\ timerPhase = "reify"
  /\ LET t == Reified("timers", now.mn)
         p == Reified("periodics", now.rt)
     IN /\ heap' = [timers |-> t.h, periodics |-> p.h]
        /\ at' = [w \in TimerWatchers |-> IF w \in Timers THEN t.at[w] ELSE p.at[w]]
        /\ timerPendings' = Fed(t.feed) \o Fed(p.feed)
  /\ called' = <<>>
  /\ overdue' = {w \in TimerWatchers : InHeap(w) /\ at[w] < (IF w \in Timers THEN now.mn ELSE now.rt)}
  /\ timerPhase' = "invoke"
  /\ UNCHANGED <<clock, wall, now, waittime, timerOps>>

\* The callback of the last pending entry is called and takes d; an entry whose
\* watcher was stopped stands for nobody.
TimersInvoke(d) ==
  /\ timerPhase = "invoke" /\ timerPendings # <<>> /\ clock + d <= MaxClock
  /\ LET p == timerPendings[Len(timerPendings)]
     IN /\ called' = IF p.w \in TimerWatchers THEN Append(called, p) ELSE called
        /\ overdue' = overdue \ {p.w}
        /\ p.w \notin TimerWatchers => d = 0
  /\ timerPendings' = SubSeq(timerPendings, 1, Len(timerPendings) - 1)
  /\ clock' = clock + d
  /\ UNCHANGED <<wall, now, heap, at, timerPhase, waittime, timerOps>>

TimersIterate ==
  /\ timerPhase = "invoke" /\ timerPendings = <<>>
  /\ timerPhase' = "ready"
  /\ UNCHANGED <<clock, wall, now, heap, at, timerPendings, waittime, called, overdue, timerOps>>

----------------------------------------------------------------------------
(* Operations, from the program before ev_run or from a callback. *)

MayCallTimer == timerPhase \in {"ready", "invoke"} /\ timerOps < MaxTimerOps /\ timerOps' = timerOps + 1
SetHeap(w, h) == heap' = [heap EXCEPT ![HeapOf(w)] = h]

\* clear_pending: the entry of w stands for nobody.
NoOne == [w |-> "pending_w", due |-> 0]
ClearPending(w) == timerPendings' = [i \in DOMAIN timerPendings |-> IF timerPendings[i].w = w THEN NoOne ELSE timerPendings[i]]

\* ev_timer_start after ev_timer_set, or with what was left when it was stopped.
TimerStart(w, after) ==
  /\ MayCallTimer /\ w \in Timers /\ ~InHeap(w)
  /\ at' = [at EXCEPT ![w] = after + now.mn]
  /\ SetHeap(w, Enter(heap["timers"], w, after + now.mn))
  /\ UNCHANGED <<clock, wall, now, timerPendings, timerPhase, waittime, called, overdue>>

\* ev_periodic_start: the next time in the grid, or the offset itself.
PeriodicAt(w) == IF Interval[w] > 0 THEN PeriodicRecalc(w, now.rt) ELSE Offset[w]

PeriodicStart(w) ==
  /\ MayCallTimer /\ w \in Periodics /\ ~InHeap(w)
  /\ at' = [at EXCEPT ![w] = PeriodicAt(w)]
  /\ SetHeap(w, Enter(heap["periodics"], w, PeriodicAt(w)))
  /\ UNCHANGED <<clock, wall, now, timerPendings, timerPhase, waittime, called, overdue>>

\* What stopping does to the pending entry, and to the heap if w is in it.
StoppedHeap(w) == IF InHeap(w) THEN Leave(heap[HeapOf(w)], w) ELSE heap[HeapOf(w)]
Stopped(w) ==
  /\ MayCallTimer
  /\ ClearPending(w)
  /\ overdue' = overdue \ {w}
  /\ UNCHANGED <<clock, wall, now, timerPhase, waittime, called>>

\* ev_timer_stop: the timer keeps what was left of its time.
TimerStop(w) ==
  /\ Stopped(w)
  /\ at' = [at EXCEPT ![w] = IF InHeap(w) THEN @ - now.mn ELSE @]
  /\ SetHeap(w, StoppedHeap(w))

PeriodicStop(w) ==
  /\ Stopped(w)
  /\ SetHeap(w, StoppedHeap(w))
  /\ UNCHANGED at

\* ev_periodic_again: stopped and started.
PeriodicAgain(w) ==
  /\ Stopped(w)
  /\ at' = [at EXCEPT ![w] = PeriodicAt(w)]
  /\ SetHeap(w, Enter(StoppedHeap(w), w, PeriodicAt(w)))

\* ev_timer_again: a repeating timer runs from now; a one-shot is stopped.
TimerAgain(w) ==
  /\ MayCallTimer /\ w \in Timers
  /\ ClearPending(w)
  /\ overdue' = overdue \ {w}
  /\ LET t == now.mn + Repeat[w]
         h == heap["timers"]
     IN CASE InHeap(w) /\ Repeat[w] > 0 ->
               /\ at' = [at EXCEPT ![w] = t]
               /\ SetHeap(w, Adjustheap(Retimed(h, w, t), Len(h.a), h.ix[w]))
          [] InHeap(w) /\ Repeat[w] = 0 ->
               at' = [at EXCEPT ![w] = @ - now.mn] /\ SetHeap(w, Leave(h, w))
          [] ~InHeap(w) /\ Repeat[w] > 0 ->
               at' = [at EXCEPT ![w] = t] /\ SetHeap(w, Enter(h, w, t))
          [] OTHER -> UNCHANGED <<at, heap>>
  /\ UNCHANGED <<clock, wall, now, timerPhase, waittime, called>>

\* Somebody sets the wall clock.
SetWall(j) ==
  /\ timerPhase = "wait" /\ timerOps < MaxTimerOps /\ timerOps' = timerOps + 1
  /\ wall' = wall + j
  /\ UNCHANGED <<clock, now, heap, at, timerPendings, timerPhase, waittime, called, overdue>>

EvTimersNext ==
  \/ TimersPrepare \/ Reify \/ TimersIterate
  \/ \E d \in Steps : Wait(d) \/ TimersInvoke(d)
  \/ \E w \in Timers : TimerAgain(w) \/ TimerStop(w) \/ \E a \in Afters \cup {at[w]} : TimerStart(w, a)
  \/ \E w \in Periodics : PeriodicStart(w) \/ PeriodicStop(w) \/ PeriodicAgain(w)
  \/ \E j \in Jumps : SetWall(j)

EvTimersSpec == EvTimersInit /\ [][EvTimersNext]_timerVars

----------------------------------------------------------------------------
(* What ev_verify asserts of a heap: every watcher knows where it is, the    *)
(* cached times are the watchers' own, and no element is before its parent. *)
HeapsSound ==
  \A k \in DOMAIN heap : LET h == heap[k] IN
    /\ \A i \in DOMAIN h.a : h.ix[h.a[i].w] = i /\ h.a[i].at = at[h.a[i].w]
    /\ \A i \in 2 .. Len(h.a) : h.a[Parent(i)].at <= h.a[i].at
    /\ \A w \in DOMAIN h.ix : h.ix[w] \in 0 .. Len(h.a)

(* The backend is asked to sleep past the time of an active watcher only    *)
(* when the watcher is overdue, or nearer than the least wait, and then for *)
(* no more than that least wait, by the clocks the loop had read.           *)
SleepNotPast ==
  timerPhase = "wait" => \A w \in TimerWatchers : InHeap(w) =>
    waittime <= Max2(LeastWait, at[w] - (IF w \in Timers THEN now.mn ELSE now.rt))

(* In one iteration, periodics are called before timers, and of each the    *)
(* one that was due first is called first, however many were overdue.       *)
DueOrder ==
  \A i, j \in 1 .. Len(called) : i < j =>
    /\ called[j].w \in Periodics => called[i].w \in Periodics
    /\ HeapOf(called[i].w) = HeapOf(called[j].w) => called[i].due <= called[j].due

(* When the callbacks of an iteration are done, every watcher that was      *)
(* overdue when it began has been called or stopped.                        *)
NoneOverlooked == timerPhase = "ready" => overdue = {}

(* A periodic with an interval is always due at a multiple of it after its  *)
(* offset, never before the present when callbacks are called, and never    *)
(* further off than one interval and what the wall clock was set back       *)
(* without time_update noticing.                                            *)
PeriodicNear ==
  \A w \in Periodics : (InHeap(w) /\ Interval[w] > 0) =>
    /\ (at[w] - Offset[w]) % Interval[w] = 0
    /\ at[w] <= now.rt + Interval[w] + now.slewed
    /\ timerPhase = "invoke" => at[w] >= now.rt

(* No timer is slept over by more than the least wait, overlooked or called *)
(* out of turn, on heaps that stay heaps, however watchers are restarted    *)
(* and the wall clock is set (time_update, timers_reify, periodics_reify,   *)
(* ev_run).                                                                 *)
TimersRight == HeapsSound /\ SleepNotPast /\ DueOrder /\ NoneOverlooked /\ PeriodicNear
=============================================================================
