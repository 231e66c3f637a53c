------------------------------- MODULE EvLoop -------------------------------
(***************************************************************************)
(* The order in which a libev loop calls its watchers (ev.c): the queues   *)
(* of pending events, one per priority; the arrays of prepare, check,      *)
(* idle, fork and cleanup watchers; the iteration of ev_run from forks to  *)
(* callbacks; and ev_once, which waits for a descriptor or a timeout and   *)
(* frees itself.  Where I/O and timer events come from is left open: each  *)
(* poll may report any of the active ones.                                 *)
(***************************************************************************)
EXTENDS Integers, Sequences, FiniteSets

CONSTANTS Sources,     \* I/O and timer watchers
          Onces,       \* ev_once objects
          OnceIo, OnceTo,  \* the two watchers of each, in Sources
          Kinds,       \* "prepare", "check", "idle", "fork", "cleanup": watchers of each
          PriOf,       \* priority of each watcher, from 0
          NumPri,      \* priorities
          MaxLoopOps   \* bound: operations of callbacks

Listed == UNION {Kinds[k] : k \in DOMAIN Kinds}
LoopWatchers == Sources \cup Listed
OnceWatchers == {OnceIo[o] : o \in Onces} \cup {OnceTo[o] : o \in Onces}

ASSUME EvLoopAssumption ==
  /\ NumPri \in Nat \ {0} /\ PriOf \in [LoopWatchers -> 0 .. NumPri - 1] /\ MaxLoopOps \in Nat
  /\ IsFiniteSet(LoopWatchers) /\ "pending_w" \notin LoopWatchers
  /\ OnceWatchers \subseteq Sources /\ OnceWatchers \cap Listed = {}
  /\ \A o \in Onces : \A q \in Onces : OnceIo[o] # OnceTo[q]
  /\ \A o \in Onces, q \in Onces : o # q => OnceIo[o] # OnceIo[q] /\ OnceTo[o] # OnceTo[q]

\* The array a listed watcher is kept in: idle watchers have one for each priority.
ArrayOf(w) == LET k == CHOOSE k \in DOMAIN Kinds : w \in Kinds[k]
              IN <<k, IF k = "idle" THEN PriOf[w] ELSE 0>>
Arrays == {ArrayOf(w) : w \in Listed}

VARIABLES
  arrays,     \* forks, prepares, checks, idles[pri], cleanups
  active,     \* the active field: position in the array, 1 for a source
  pendings,   \* per priority, the pending entries
  pending,    \* the pending field: position among the pending entries, or 0
  pendingpri, \* the priority ev_invoke_pending is at
  activecnt,
  loopDone,   \* loop_done
  postfork,
  phase,      \* where ev_run is
  cb,         \* the watcher whose callback runs, or "none"
  owed,       \* watchers fed and neither called nor stopped since
  armed,      \* ev_once objects not freed
  ops

evVars == <<arrays, active, pendings, pending, pendingpri, activecnt, loopDone, postfork,
            phase, cb, owed, armed, ops>>

EvLoopInit ==
  /\ arrays = [a \in Arrays |-> <<>>]
  /\ active = [w \in LoopWatchers |-> 0]
  /\ pendings = [p \in 0 .. NumPri - 1 |-> <<>>] /\ pending = [w \in LoopWatchers |-> 0]
  /\ pendingpri = NumPri - 1 /\ activecnt = 0 /\ loopDone = "cancel" /\ postfork = FALSE
  /\ phase = "out" /\ cb = "none" /\ owed = {} /\ armed = {} /\ ops = 0

----------------------------------------------------------------------------
(* Pending events.  q is a record of pendings, pending and owed. *)

Q == [pendings |-> pendings, pending |-> pending, owed |-> owed]
SetQ(q) == pendings' = q.pendings /\ pending' = q.pending /\ owed' = q.owed

\* ev_feed_event: an entry at the end, unless the watcher has one.
Feed(q, w) ==
  LET p == PriOf[w]
  IN IF q.pending[w] > 0 THEN q
     ELSE [pendings |-> [q.pendings EXCEPT ![p] = Append(@, w)],
           pending |-> [q.pending EXCEPT ![w] = Len(q.pendings[p]) + 1],
           owed |-> q.owed \cup {w}]

FeedAll(q, ws) ==
  LET F[i \in 0 .. Len(ws)] == IF i = 0 THEN q ELSE Feed(F[i - 1], ws[i])
  IN F[Len(ws)]

\* clear_pending: the entry stays and stands for nobody.
Clear(q, w) ==
  IF q.pending[w] = 0 THEN q
  ELSE [pendings |-> [q.pendings EXCEPT ![PriOf[w]][q.pending[w]] = "pending_w"],
        pending |-> [q.pending EXCEPT ![w] = 0], owed |-> q.owed \ {w}]

----------------------------------------------------------------------------
(* Starting and stopping, from callbacks or while the loop does not run. *)

MayCallLoop == (cb # "none" \/ phase = "out") /\ ops < MaxLoopOps /\ ops' = ops + 1

\* A cleanup watcher does not keep the loop alive.
Ref(w) == IF w \in Listed /\ ArrayOf(w)[1] = "cleanup" THEN 0 ELSE 1

LoopStart(w) ==
  /\ MayCallLoop /\ active[w] = 0 /\ w \notin OnceWatchers
  /\ IF w \in Listed
     THEN /\ arrays' = [arrays EXCEPT ![ArrayOf(w)] = Append(@, w)]
          /\ active' = [active EXCEPT ![w] = Len(arrays[ArrayOf(w)]) + 1]
     ELSE active' = [active EXCEPT ![w] = 1] /\ UNCHANGED arrays
  /\ activecnt' = activecnt + Ref(w)
  /\ UNCHANGED <<pendings, pending, pendingpri, loopDone, postfork, phase, cb, owed, armed>>

\* The last watcher of the array takes the place of the one that leaves, and is told.
Filled(w) == LET a == arrays[ArrayOf(w)]
             IN [[active EXCEPT ![a[Len(a)]] = active[w]] EXCEPT ![w] = 0]

LoopStop(w) ==
  /\ MayCallLoop /\ w \notin OnceWatchers
  /\ SetQ(Clear(Q, w))
  /\ IF active[w] = 0 THEN UNCHANGED <<arrays, active, activecnt>>
     ELSE /\ activecnt' = activecnt - Ref(w)
          /\ IF w \in Listed
             THEN /\ active' = Filled(w)
                  /\ arrays' = [arrays EXCEPT ![ArrayOf(w)] =
                                  [i \in 1 .. Len(@) - 1 |-> IF i = active[w] THEN @[Len(@)] ELSE @[i]]]
             ELSE active' = [active EXCEPT ![w] = 0] /\ UNCHANGED arrays
  /\ UNCHANGED <<pendingpri, loopDone, postfork, phase, cb, armed>>

\* A callback feeds an event itself: what has the highest priority is looked at first.
FeedEvent(w) ==
  /\ MayCallLoop /\ cb # "none" /\ w \notin OnceWatchers
  /\ SetQ(Feed(Q, w))
  /\ pendingpri' = NumPri - 1
  /\ UNCHANGED <<arrays, active, activecnt, loopDone, postfork, phase, cb, armed>>

Break(how) ==
  /\ MayCallLoop /\ loopDone' = how
  /\ UNCHANGED <<arrays, active, pendings, pending, pendingpri, activecnt, postfork, phase, cb, owed, armed>>

\* ev_loop_fork, or a changed process id.
Forked ==
  /\ MayCallLoop /\ postfork' = TRUE
  /\ UNCHANGED <<arrays, active, pendings, pending, pendingpri, activecnt, loopDone, phase, cb, owed, armed>>

\* ev_once with a descriptor and a timeout.
Once(o) ==
  /\ MayCallLoop /\ o \notin armed
  /\ armed' = armed \cup {o}
  /\ active' = [active EXCEPT ![OnceIo[o]] = 1, ![OnceTo[o]] = 1]
  /\ activecnt' = activecnt + 2
  /\ UNCHANGED <<arrays, pendings, pending, pendingpri, loopDone, postfork, phase, cb, owed>>

----------------------------------------------------------------------------
(* ev_invoke_pending, called in the phases below. *)

Invoking == phase \in {"enter", "forks", "prepares", "collected", "cleanups"} /\ cb = "none"

\* The last entry of the highest priority that has one.  The callback of an ev_once
\* watcher drops the event of its twin, stops both and frees the object.
Twin(o, w) == IF w = OnceIo[o] THEN OnceTo[o] ELSE OnceIo[o]

OnceCleared_Not(q, o, w) == q
OnceCleared(q, o, w) == Clear(q, Twin(o, w))

Call ==
  /\ Invoking
  /\ pendings[pendingpri] # <<>>
  /\ LET n == Len(pendings[pendingpri])
         w == pendings[pendingpri][n]
         popped == [pendings |-> [pendings EXCEPT ![pendingpri] = SubSeq(@, 1, n - 1)],
                    pending |-> IF w \in LoopWatchers THEN [pending EXCEPT ![w] = 0] ELSE pending,
                    owed |-> owed \ {w}]
     IN IF \E o \in Onces : w \in {OnceIo[o], OnceTo[o]}
        THEN LET o == CHOOSE o \in Onces : w \in {OnceIo[o], OnceTo[o]}
             IN /\ SetQ(OnceCleared(popped, o, w))
                /\ active' = [active EXCEPT ![OnceIo[o]] = 0, ![OnceTo[o]] = 0]
                /\ activecnt' = activecnt - active[OnceIo[o]] - active[OnceTo[o]]
                /\ armed' = armed \ {o}
                /\ cb' = w
        ELSE /\ SetQ(popped)
             /\ cb' = IF w \in LoopWatchers THEN w ELSE "none"
             /\ UNCHANGED <<active, activecnt, armed>>
  /\ UNCHANGED <<arrays, pendingpri, loopDone, postfork, phase, ops>>

Return ==
  /\ cb # "none" /\ cb' = "none"
  /\ UNCHANGED <<arrays, active, pendings, pending, pendingpri, activecnt, loopDone, postfork,
                 phase, owed, armed, ops>>

Descend ==
  /\ Invoking /\ pendings[pendingpri] = <<>> /\ pendingpri > 0
  /\ pendingpri' = pendingpri - 1
  /\ UNCHANGED <<arrays, active, pendings, pending, activecnt, loopDone, postfork, phase, cb, owed, armed, ops>>

Invoked == Invoking /\ pendings[pendingpri] = <<>> /\ pendingpri = 0

----------------------------------------------------------------------------
(* ev_run. *)

Array(k, p) == IF <<k, p>> \in Arrays THEN arrays[<<k, p>>] ELSE <<>>

\* Go on with phase ph after feeding the watchers ws.
GoesOn(ph, q) ==
  /\ phase' = ph /\ SetQ(q) /\ pendingpri' = NumPri - 1
  /\ UNCHANGED <<arrays, active, activecnt, cb, armed, ops>>

Run ==
  /\ phase = "out" /\ loopDone' = "cancel"
  /\ GoesOn("enter", Q)
  /\ UNCHANGED postfork

\* An iteration begins, with the fork watchers if there was a fork.
LoopIterate ==
  /\ \/ Invoked /\ phase = "enter"
     \/ Invoked /\ phase = "collected" /\ activecnt > 0 /\ loopDone = "cancel"
  /\ GoesOn("forks", IF postfork THEN FeedAll(Q, Array("fork", 0)) ELSE Q)
  /\ UNCHANGED <<loopDone, postfork>>

LoopPrepare ==
  /\ Invoked /\ phase = "forks"
  /\ GoesOn("prepares", FeedAll(Q, Array("prepare", 0)))
  /\ UNCHANGED <<loopDone, postfork>>

\* The idle watchers of the highest priority that has any, unless that or a higher
\* one has events.
IdleReify(q) ==
  LET top == {p \in 0 .. NumPri - 1 : q.pendings[p] # <<>> \/ Array("idle", p) # <<>>}
      p == CHOOSE p \in top : \A r \in top : r <= p
  IN IF top = {} THEN q
     ELSE IF q.pendings[p] # <<>> THEN q ELSE FeedAll(q, Array("idle", p))

\* The backend reports some of the active sources; check watchers are fed last, so
\* those of their priority come first.
Collect ==
  /\ Invoked /\ phase = "prepares" /\ loopDone = "cancel"
  /\ \E ready \in SUBSET {w \in Sources : active[w] # 0} :
       \E order \in [1 .. Cardinality(ready) -> ready] :
          /\ \A w \in ready : \E i \in DOMAIN order : order[i] = w
          /\ GoesOn("collected", FeedAll(IdleReify(FeedAll(Q, order)), Array("check", 0)))
  /\ postfork' = FALSE
  /\ UNCHANGED loopDone

\* ev_run returns: after the prepare watchers of a loop told to stop, or when an
\* iteration finds nothing active or was told to stop.
LoopLeave ==
  /\ \/ Invoked /\ phase = "prepares" /\ loopDone # "cancel"
     \/ Invoked /\ phase = "collected" /\ (activecnt = 0 \/ loopDone # "cancel")
  /\ loopDone' = IF loopDone = "one" THEN "cancel" ELSE loopDone
  /\ GoesOn("out", Q)
  /\ UNCHANGED postfork

\* ev_loop_destroy calls the cleanup watchers before it frees the loop.
Destroy ==
  /\ phase = "out"
  /\ GoesOn("cleanups", FeedAll(Q, Array("cleanup", 0)))
  /\ UNCHANGED <<loopDone, postfork>>

Free ==
  /\ Invoked /\ phase = "cleanups"
  /\ GoesOn("freed", Q)
  /\ UNCHANGED <<loopDone, postfork>>

EvLoopNext ==
  \/ Call \/ Return \/ Descend
  \/ Run \/ LoopIterate \/ LoopPrepare \/ Collect \/ LoopLeave \/ Destroy \/ Free \/ Forked
  \/ \E w \in LoopWatchers : LoopStart(w) \/ LoopStop(w) \/ FeedEvent(w)
  \/ \E how \in {"one", "all"} : Break(how)
  \/ \E o \in Onces : Once(o)

EvLoopSpec == EvLoopInit /\ [][EvLoopNext]_evVars

----------------------------------------------------------------------------
(* What ev_verify asserts: every listed watcher knows its place in its      *)
(* array, every pending watcher its entry; and activecnt, which decides     *)
(* when ev_run returns, counts the active watchers that keep it alive.      *)
LoopSound ==
  /\ \A a \in Arrays : \A i \in DOMAIN arrays[a] : active[arrays[a][i]] = i
  /\ \A w \in LoopWatchers : pending[w] > 0 =>
       pending[w] \in DOMAIN pendings[PriOf[w]] /\ pendings[PriOf[w]][pending[w]] = w
  /\ activecnt = Cardinality({w \in LoopWatchers : active[w] # 0 /\ Ref(w) = 1})

(* No event is lost and none reaches a stopped watcher: the watchers with   *)
(* an entry are those fed and neither called nor stopped since, each once.  *)
PendingOwed ==
  /\ \A w \in LoopWatchers : (pending[w] > 0) <=> (w \in owed)
  /\ \A w \in LoopWatchers, p \in DOMAIN pendings :
       Cardinality({i \in DOMAIN pendings[p] : pendings[p][i] = w}) = (IF w \in owed /\ p = PriOf[w] THEN 1 ELSE 0)

(* An ev_once object frees itself in its first callback: no watcher of a    *)
(* freed one has an entry that would be called later.                       *)
OnceCalledOnce ==
  \A o \in Onces \ armed : pending[OnceIo[o]] = 0 /\ pending[OnceTo[o]] = 0

(* Callbacks that start, stop and feed watchers in the middle of            *)
(* ev_invoke_pending leave lists and queues in which no event is lost,      *)
(* doubled or kept for a watcher that is stopped or freed.                  *)
LoopRight == LoopSound /\ PendingOwed /\ OnceCalledOnce
=============================================================================
