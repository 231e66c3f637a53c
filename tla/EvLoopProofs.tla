---------------------------- MODULE EvLoopProofs ----------------------------
(***************************************************************************)
(* Proofs about the loop of libev.                                         *)
(*                                                                         *)
(* Part 1, EvLoop, for any watchers, arrays, priorities and ev_once        *)
(* objects: LoopRight.  It is not inductive: it does not say that an entry *)
(* of a queue stands for a watcher of that priority that knows it (Agree), *)
(* that an active watcher is found where its active field says             *)
(* (ListsInv), or that an ev_once object that is freed has stopped both    *)
(* its watchers, which is why no poll reports them again (OnceInv).  A     *)
(* pass over an array feeds its watchers one by one.  That each of them    *)
(* keeps the queues right, and so all of them, is an induction over the    *)
(* array; it is made with the smallest counterexample (UpTo).              *)
(*                                                                         *)
(* Part 2, EvWake, for any sets of async and signal watchers and any       *)
(* number of sends: the loop never sleeps over a send, and no callback is  *)
(* called that nobody asked for.  NoSleepOverSend speaks of one moment,    *)
(* the sleep.  What makes it hold is a chain that is kept at every moment: *)
(* a raised source has its flag set, or a sender about to see to it, or is *)
(* about to be looked at, unless a store on its way lowers it              *)
(* (RaisedIsFlagged); a flag that is set has somebody about to see to it,  *)
(* and the only trace of a sender that has gone is pipe_write_skipped, or  *)
(* a byte in the pipe (FlagIsFollowed); and once the loop has decided to   *)
(* sleep, whoever sets pipe_write_skipped is still there to take it back   *)
(* and write (SkipIsTakenBack), because pipe_write_wanted can be seen      *)
(* (WantedSeen).                                                           *)
(*                                                                         *)
(* Part 3, EvTimers, for any timers, periodics, intervals and jumps of the *)
(* wall clock, and heaps of either width: TimersRight.  Its parts speak of *)
(* heaps and of lists of callbacks, and neither kind is inductive.  The    *)
(* heaps need more than order and indices: that every active watcher is in *)
(* the array once (Held), with the clocks and the wait time (TimersInv).   *)
(* upheap and downheap are read as the shifting of elements along a path,  *)
(* so that each only reorders (MovedPermutes) and repairs what is out of   *)
(* order (UpheapSorts, DownheapSorts); reify is a walk of steps each of    *)
(* which feeds the earliest and leaves one fewer late (RunsDry).  The      *)
(* callbacks need what is still pending: it continues the order in which   *)
(* callbacks were called, and holds all that are owed one (CallsInv).      *)
(***************************************************************************)
EXTENDS EvLoop, EvWake, EvTimers, FiniteSetTheorems, SequenceTheorems,
        WellFoundedInduction, TLAPS

(***************************************************************************)
(* Part 1: iteration and watcher lists.                                    *)
(***************************************************************************)

\* What holds of the first, and of the next whenever it holds of one, holds of the last:
\* the smallest number for which it did not would have a smaller one before it.
LEMMA UpTo ==
  ASSUME NEW n \in Nat, NEW S, 0 \in S, \A i \in 1 .. n : i - 1 \in S => i \in S
  PROVE  \A i \in 0 .. n : i \in S
  <1> DEFINE T == {i \in 0 .. n : i \notin S}
  <1> SUFFICES ASSUME T # {} PROVE FALSE
    OBVIOUS
  <1>1. T \subseteq Nat
    OBVIOUS
  <1>2. PICK k \in T : \A m \in T : ~(<<m, k>> \in OpToRel(<, Nat))
    <2> HIDE DEF T
    <2> QED
      BY <1>1, NatLessThanWellFounded, WFMin
  <1>3. ASSUME NEW m \in T PROVE ~(m < k)
    <2>1. m \in Nat /\ k \in Nat /\ <<m, k>> \in Nat \X Nat /\ <<m, k>>[1] = m /\ <<m, k>>[2] = k
      BY <1>1
    <2>2. m < k => <<m, k>> \in OpToRel(<, Nat)
      BY <2>1 DEF OpToRel
    <2> QED
      BY <1>2, <2>2
  <1>4. k \in 0 .. n /\ k \notin S
    OBVIOUS
  <1>5. k # 0
    BY <1>4
  <1>6. k \in 1 .. n /\ k - 1 \in 0 .. n /\ k - 1 < k
    BY <1>4, <1>5
  <1>7. k - 1 \in S
    BY <1>3, <1>6
  <1> QED
    BY <1>4, <1>6, <1>7

\* n steps on X, and the results f of taking them one after the other from q.
StepFcns(X, n, st) == st \in [1 .. n -> [X -> X]]
Walk(X, n, st, q, f) == f \in [0 .. n -> X] /\ f[0] = q /\ \A i \in 1 .. n : f[i] = st[i][f[i - 1]]

\* There are such results.
LEMMA StepsExist ==
  ASSUME NEW X, NEW q \in X, NEW n \in Nat, NEW st, StepFcns(X, n, st)
  PROVE  \E f : Walk(X, n, st, q, f)
  <1> DEFINE Good(k, f) == f[0] = q /\ \A i \in 1 .. k : f[i] = st[i][f[i - 1]]
             S == {k \in 0 .. n : \E f \in [0 .. k -> X] : Good(k, f)}
  <1>0. st \in [1 .. n -> [X -> X]]
    BY DEF StepFcns
  <1>1. 0 \in S
    <2> DEFINE f == [i \in 0 .. 0 |-> q]
    <2>1. f \in [0 .. 0 -> X]
      OBVIOUS
    <2>2. Good(0, f)
      OBVIOUS
    <2> HIDE DEF f, Good
    <2>3. \E g \in [0 .. 0 -> X] : Good(0, g)
      BY <2>1, <2>2
    <2> QED
      BY <2>3
  <1>2. ASSUME NEW k \in 1 .. n, k - 1 \in S PROVE k \in S
    <2>1. PICK f \in [0 .. (k - 1) -> X] : Good(k - 1, f)
      BY <1>2
    <2>2. /\ \A i \in 0 .. (k - 1) : f[i] \in X
          /\ f[0] = q /\ \A i \in 1 .. (k - 1) : f[i] = st[i][f[i - 1]]
      BY <2>1
    <2>3. k - 1 \in 0 .. (k - 1) /\ k \in Nat /\ k \in 0 .. n
      OBVIOUS
    <2>4. PICK y \in X : y = st[k][f[k - 1]]
      BY <1>0, <2>2, <2>3
    <2> DEFINE g == [i \in 0 .. k |-> IF i < k THEN f[i] ELSE y]
    <2>5. \A i \in 0 .. k : g[i] \in X /\ g[i] = IF i < k THEN f[i] ELSE y
      BY <2>2, <2>3
    <2>6. g \in [0 .. k -> X]
      BY <2>5
    <2> HIDE DEF g
    <2>7. ASSUME NEW i \in 1 .. k PROVE g[i] = st[i][g[i - 1]]
      <3>1. CASE i = k
        <4>1. k - 1 \in 0 .. k /\ g[k - 1] = f[k - 1] /\ g[k] = y
          BY <2>3, <2>5
        <4> QED
          BY <2>4, <3>1, <4>1
      <3>2. CASE i # k
        <4>1. i \in 1 .. (k - 1) /\ g[i] = f[i] /\ g[i - 1] = f[i - 1]
          BY <2>3, <2>5, <3>2
        <4> QED
          BY <2>2, <4>1
      <3> QED
        BY <3>1, <3>2
    <2>71. g[0] = q
      BY <2>2, <2>3, <2>5
    <2>8. Good(k, g)
      BY <2>7, <2>71
    <2> HIDE DEF Good
    <2> QED
      BY <2>3, <2>6, <2>8
  <1>3. ASSUME NEW T, T = S PROVE n \in T
    <2> HIDE DEF S
    <2>1. 0 \in T /\ \A i \in 1 .. n : i - 1 \in T => i \in T
      BY <1>1, <1>2, <1>3
    <2>2. \A i \in 0 .. n : i \in T
      BY <2>1, UpTo
    <2> QED
      BY <2>2
  <1> HIDE DEF S, Good
  <1>4. n \in S
    BY <1>3
  <1>5. \E f \in [0 .. n -> X] : Good(n, f)
    BY <1>4 DEF S
  <1> QED
    BY <1>5 DEF Good, Walk

----------------------------------------------------------------------------
(* The inductive invariant.  Queues(D) are the pending entries and fields that agree, *)
(* with no event for a watcher of D: D will be the watchers of the ev_once objects    *)
(* that are freed.                                                                    *)
Pris == 0 .. NumPri - 1
Entries == LoopWatchers \cup {"pending_w"}

Agree(q) ==
  /\ \A w \in LoopWatchers : q.pending[w] > 0 =>
       q.pending[w] \in 1 .. Len(q.pendings[PriOf[w]]) /\ q.pendings[PriOf[w]][q.pending[w]] = w
  /\ \A p \in Pris : \A i \in 1 .. Len(q.pendings[p]) : q.pendings[p][i] \in LoopWatchers =>
       PriOf[q.pendings[p][i]] = p /\ q.pending[q.pendings[p][i]] = i
  /\ \A w \in LoopWatchers : (q.pending[w] > 0) <=> (w \in q.owed)

Queues(D) ==
  {q \in [pendings : [Pris -> Seq(Entries)], pending : [LoopWatchers -> Nat], owed : SUBSET LoopWatchers] :
     Agree(q) /\ \A w \in D : q.pending[w] = 0}

Freed == {OnceIo[o] : o \in Onces \ armed} \cup {OnceTo[o] : o \in Onces \ armed}
QueuesInv == Q \in Queues(Freed) /\ pendingpri \in Pris

\* The arrays and the active field agree both ways.
ListsInv ==
  /\ arrays \in [Arrays -> Seq(Listed)] /\ active \in [LoopWatchers -> Nat]
  /\ \A a \in Arrays : \A i \in 1 .. Len(arrays[a]) : active[arrays[a][i]] = i /\ ArrayOf(arrays[a][i]) = a
  /\ \A w \in Listed : active[w] > 0 =>
       active[w] \in 1 .. Len(arrays[ArrayOf(w)]) /\ arrays[ArrayOf(w)][active[w]] = w

\* The watchers of an ev_once are started together and stopped together.
OnceInv ==
  /\ armed \subseteq Onces
  /\ \A o \in Onces : active[OnceIo[o]] = IF o \in armed THEN 1 ELSE 0
  /\ \A o \in Onces : active[OnceTo[o]] = IF o \in armed THEN 1 ELSE 0

Alive == {w \in LoopWatchers : active[w] # 0 /\ Ref(w) = 1}
CountInv == activecnt = Cardinality(Alive)

LoopInv == QueuesInv /\ ListsInv /\ OnceInv /\ CountInv

----------------------------------------------------------------------------
(* The operations on the queues keep them so. *)

\* The parts of a queue record, for the lemmas below.
LEMMA QueueParts ==
  ASSUME NEW D, NEW q \in Queues(D)
  PROVE  /\ q = [pendings |-> q.pendings, pending |-> q.pending, owed |-> q.owed]
         /\ q.pendings \in [Pris -> Seq(Entries)] /\ q.pending \in [LoopWatchers -> Nat]
         /\ q.owed \subseteq LoopWatchers
         /\ Agree(q) /\ \A w \in D : q.pending[w] = 0
  BY DEF Queues

\* ev_feed_event of a watcher that is not freed.
LEMMA FeedKeeps ==
  ASSUME NEW D, NEW q \in Queues(D), NEW w \in LoopWatchers, w \notin D
  PROVE  Feed(q, w) \in Queues(D)
  <1>1. CASE q.pending[w] > 0
    BY <1>1 DEF Feed
  <1>2. CASE ~(q.pending[w] > 0)
    <2>1. /\ q.pendings \in [Pris -> Seq(Entries)] /\ q.pending \in [LoopWatchers -> Nat]
          /\ q.owed \subseteq LoopWatchers /\ Agree(q) /\ \A v \in D : q.pending[v] = 0
      BY QueueParts
    <2>2. PICK p \in Pris : p = PriOf[w]
      BY EvLoopAssumption DEF Pris
    <2>3. PICK s \in Seq(Entries) : s = q.pendings[p]
      BY <2>1
    <2>4. PICK t \in Seq(Entries) : t = Append(s, w)
      <3>1. w \in Entries
        BY DEF Entries
      <3>2. Append(s, w) \in Seq(Entries)
        BY <2>3, <3>1
      <3> QED
        BY <3>2
    <2>5. Len(s) \in Nat /\ Len(t) = Len(s) + 1 /\ t[Len(s) + 1] = w /\ \A i \in 1 .. Len(s) : t[i] = s[i]
      BY <2>3, <2>4
    <2>6. PICK ps \in [Pris -> Seq(Entries)] : ps = [q.pendings EXCEPT ![p] = t]
      BY <2>1, <2>4
    <2>7. PICK pn \in [LoopWatchers -> Nat] : pn = [q.pending EXCEPT ![w] = Len(s) + 1]
      <3>1. PICK k \in Nat : k = Len(s) + 1
        BY <2>5
      <3> QED
        BY <2>1, <3>1
    <2>8. PICK ow \in SUBSET LoopWatchers : ow = q.owed \cup {w}
      BY <2>1
    <2>9. Feed(q, w) = [pendings |-> ps, pending |-> pn, owed |-> ow]
      BY <1>2, <2>2, <2>3, <2>4, <2>6, <2>7, <2>8 DEF Feed
    <2>10. ps[p] = t /\ \A r \in Pris : r # p => ps[r] = q.pendings[r]
      BY <2>1, <2>6
    <2>11. pn[w] = Len(s) + 1 /\ \A v \in LoopWatchers : v # w => pn[v] = q.pending[v]
      BY <2>1, <2>7
    <2>12. ASSUME NEW v \in LoopWatchers, pn[v] > 0
           PROVE  pn[v] \in 1 .. Len(ps[PriOf[v]]) /\ ps[PriOf[v]][pn[v]] = v
      <3>1. CASE v = w
        BY <2>2, <2>5, <2>10, <2>11, <3>1
      <3>2. CASE v # w
        <4>1. PICK r \in Pris : r = PriOf[v]
          BY EvLoopAssumption DEF Pris
        <4>2. q.pending[v] \in 1 .. Len(q.pendings[r]) /\ q.pendings[r][q.pending[v]] = v /\ pn[v] = q.pending[v]
          BY <2>1, <2>11, <2>12, <3>2, <4>1 DEF Agree
        <4>3. CASE r = p
          BY <2>3, <2>5, <2>10, <4>1, <4>2, <4>3
        <4>4. CASE r # p
          BY <2>10, <4>1, <4>2, <4>4
        <4> QED
          BY <4>3, <4>4
      <3> QED
        BY <3>1, <3>2
    <2>13. ASSUME NEW r \in Pris, NEW i \in 1 .. Len(ps[r]), ps[r][i] \in LoopWatchers
           PROVE  PriOf[ps[r][i]] = r /\ pn[ps[r][i]] = i
      <3>1. CASE r = p /\ i = Len(s) + 1
        BY <2>2, <2>5, <2>10, <2>11, <3>1
      <3>2. CASE ~(r = p /\ i = Len(s) + 1)
        <4>1. i \in 1 .. Len(q.pendings[r]) /\ ps[r][i] = q.pendings[r][i]
          BY <2>3, <2>5, <2>10, <3>2
        <4>2. PriOf[ps[r][i]] = r /\ q.pending[ps[r][i]] = i
          BY <2>1, <2>13, <4>1 DEF Agree
        <4>3. ps[r][i] # w
          BY <1>2, <4>2
        <4> QED
          BY <2>11, <2>13, <4>2, <4>3
      <3> QED
        BY <3>1, <3>2
    <2>14. ASSUME NEW v \in LoopWatchers PROVE (pn[v] > 0) <=> (v \in ow)
      <3>1. (q.pending[v] > 0) <=> (v \in q.owed)
        BY <2>1 DEF Agree
      <3> QED
        BY <2>5, <2>8, <2>11, <3>1
    <2>15. Agree([pendings |-> ps, pending |-> pn, owed |-> ow])
      BY <2>12, <2>13, <2>14 DEF Agree
    <2>16. \A v \in D : pn[v] = 0
      BY <2>1, <2>7
    <2> QED
      BY <2>9, <2>15, <2>16 DEF Queues
  <1> QED
    BY <1>1, <1>2

\* A pass over an array that feeds each of its watchers.
LEMMA FeedAllKeeps ==
  ASSUME NEW D, NEW q \in Queues(D), NEW ws \in Seq(LoopWatchers \ D)
  PROVE  FeedAll(q, ws) \in Queues(D)
  <1> DEFINE n == Len(ws)
             st == [i \in 1 .. n |-> [r \in Queues(D) |-> Feed(r, ws[i])]]
             Passed(f) == f = [i \in 0 .. n |-> IF i = 0 THEN q ELSE Feed(f[i - 1], ws[i])]
  <1>1. n \in Nat /\ \A i \in 1 .. n : ws[i] \in LoopWatchers /\ ws[i] \notin D
    OBVIOUS
  <1>2. \A i \in 1 .. n : \A r \in Queues(D) : Feed(r, ws[i]) \in Queues(D)
    BY <1>1, FeedKeeps
  <1> HIDE DEF n
  <1>3. StepFcns(Queues(D), n, st)
    BY <1>2 DEF StepFcns
  <1>4. \A i \in 1 .. n : \A r \in Queues(D) : st[i][r] = Feed(r, ws[i])
    OBVIOUS
  <1> HIDE DEF st
  <1>5. PICK f \in [0 .. n -> Queues(D)] : f[0] = q /\ \A i \in 1 .. n : f[i] = st[i][f[i - 1]]
    <2>1. \E f : Walk(Queues(D), n, st, q, f)
      BY <1>1, <1>3, StepsExist
    <2> QED
      BY <2>1 DEF Walk
  <1>6. ASSUME NEW i \in 0 .. n PROVE f[i] = IF i = 0 THEN q ELSE Feed(f[i - 1], ws[i])
    <2>1. i # 0 => i \in 1 .. n /\ f[i - 1] \in Queues(D)
      BY <1>1, <1>5
    <2> QED
      BY <1>4, <1>5, <2>1
  <1>7. Passed(f)
    BY <1>5, <1>6
  <1>8. PICK g : g = CHOOSE h : Passed(h)
    OBVIOUS
  <1>9. Passed(g)
    BY <1>7, <1>8
  <1>10. FeedAll(q, ws) = g[n]
    BY <1>8 DEF FeedAll, n
  <1>11. \A i \in 0 .. n : g[i] = IF i = 0 THEN q ELSE Feed(g[i - 1], ws[i])
    BY <1>9
  <1> DEFINE S == {i \in 0 .. n : g[i] \in Queues(D)}
  <1>12. 0 \in S
    BY <1>1, <1>11
  <1>13. ASSUME NEW i \in 1 .. n, i - 1 \in S PROVE i \in S
    <2>1. i \in 0 .. n /\ i # 0 /\ g[i - 1] \in Queues(D)
      BY <1>1, <1>13
    <2>2. g[i] = Feed(g[i - 1], ws[i])
      BY <1>11, <2>1
    <2> QED
      BY <1>2, <2>1, <2>2
  <1>14. ASSUME NEW T, T = S PROVE n \in T
    <2> HIDE DEF S
    <2>1. 0 \in T /\ \A i \in 1 .. n : i - 1 \in T => i \in T
      BY <1>12, <1>13, <1>14
    <2>2. \A i \in 0 .. n : i \in T
      BY <1>1, <2>1, UpTo
    <2> QED
      BY <1>1, <2>2
  <1>15. g[n] \in Queues(D)
    <2>1. n \in S
      <3> HIDE DEF S
      <3> QED
        BY <1>14
    <2> QED
      BY <2>1
  <1> QED
    BY <1>10, <1>15

\* clear_pending: afterwards the watcher has no event.
LEMMA ClearKeeps ==
  ASSUME NEW D, NEW q \in Queues(D), NEW w \in LoopWatchers
  PROVE  Clear(q, w) \in Queues(D \cup {w})
  <1>0. /\ q.pendings \in [Pris -> Seq(Entries)] /\ q.pending \in [LoopWatchers -> Nat]
        /\ q.owed \subseteq LoopWatchers /\ Agree(q) /\ \A v \in D : q.pending[v] = 0
    BY QueueParts
  <1>1. CASE q.pending[w] = 0
    BY <1>0, <1>1 DEF Clear, Queues
  <1>2. CASE q.pending[w] # 0
    <2>1. PICK p \in Pris : p = PriOf[w]
      BY EvLoopAssumption DEF Pris
    <2>2. PICK s \in Seq(Entries) : s = q.pendings[p]
      BY <1>0
    <2>3. PICK k \in Nat : k = q.pending[w]
      BY <1>0
    <2>4. k \in 1 .. Len(s) /\ s[k] = w
      BY <1>0, <1>2, <2>1, <2>2, <2>3 DEF Agree
    <2>5. PICK t \in Seq(Entries) : t = [s EXCEPT ![k] = "pending_w"]
      <3>1. "pending_w" \in Entries
        BY DEF Entries
      <3>2. [s EXCEPT ![k] = "pending_w"] \in Seq(Entries)
        BY <2>2, <2>4, <3>1
      <3> QED
        BY <3>2
    <2>6. Len(t) = Len(s) /\ t[k] = "pending_w" /\ \A i \in 1 .. Len(s) : i # k => t[i] = s[i]
      BY <2>2, <2>4, <2>5
    <2>7. PICK ps \in [Pris -> Seq(Entries)] : ps = [q.pendings EXCEPT ![p] = t]
      BY <1>0, <2>5
    <2>8. PICK pn \in [LoopWatchers -> Nat] : pn = [q.pending EXCEPT ![w] = 0]
      BY <1>0
    <2>9. PICK ow \in SUBSET LoopWatchers : ow = q.owed \ {w}
      BY <1>0
    <2>10. Clear(q, w) = [pendings |-> ps, pending |-> pn, owed |-> ow]
      <3>1. [q.pendings EXCEPT ![PriOf[w]][q.pending[w]] = "pending_w"] = ps
        BY <2>1, <2>2, <2>3, <2>5, <2>7
      <3> QED
        BY <1>2, <2>8, <2>9, <3>1 DEF Clear
    <2>11. ps[p] = t /\ \A r \in Pris : r # p => ps[r] = q.pendings[r]
      BY <1>0, <2>7
    <2>12. pn[w] = 0 /\ \A v \in LoopWatchers : v # w => pn[v] = q.pending[v]
      BY <1>0, <2>8
    <2>13. ASSUME NEW v \in LoopWatchers, pn[v] > 0
           PROVE  pn[v] \in 1 .. Len(ps[PriOf[v]]) /\ ps[PriOf[v]][pn[v]] = v
      <3>0. v # w
        BY <2>12, <2>13
      <3>1. PICK r \in Pris : r = PriOf[v]
        BY EvLoopAssumption DEF Pris
      <3>2. q.pending[v] \in 1 .. Len(q.pendings[r]) /\ q.pendings[r][q.pending[v]] = v /\ pn[v] = q.pending[v]
        BY <1>0, <2>12, <2>13, <3>0, <3>1 DEF Agree
      <3>3. CASE r = p
        BY <2>2, <2>4, <2>6, <2>11, <3>0, <3>1, <3>2, <3>3
      <3>4. CASE r # p
        BY <2>11, <3>1, <3>2, <3>4
      <3> QED
        BY <3>3, <3>4
    <2>14. ASSUME NEW r \in Pris, NEW i \in 1 .. Len(ps[r]), ps[r][i] \in LoopWatchers
           PROVE  PriOf[ps[r][i]] = r /\ pn[ps[r][i]] = i
      <3>1. ~(r = p /\ i = k)
        BY <2>6, <2>11, <2>14, EvLoopAssumption
      <3>2. i \in 1 .. Len(q.pendings[r]) /\ ps[r][i] = q.pendings[r][i]
        BY <2>2, <2>6, <2>11, <3>1
      <3>3. PriOf[ps[r][i]] = r /\ q.pending[ps[r][i]] = i
        BY <1>0, <2>14, <3>2 DEF Agree
      <3>4. ps[r][i] # w
        BY <2>1, <2>3, <3>1, <3>3
      <3> QED
        BY <2>12, <2>14, <3>3, <3>4
    <2>15. ASSUME NEW v \in LoopWatchers PROVE (pn[v] > 0) <=> (v \in ow)
      <3>1. (q.pending[v] > 0) <=> (v \in q.owed)
        BY <1>0 DEF Agree
      <3> QED
        BY <2>9, <2>12, <3>1
    <2>16. Agree([pendings |-> ps, pending |-> pn, owed |-> ow])
      BY <2>13, <2>14, <2>15 DEF Agree
    <2>17. \A v \in D \cup {w} : pn[v] = 0
      BY <1>0, <2>8
    <2> QED
      BY <2>10, <2>16, <2>17 DEF Queues
  <1> QED
    BY <1>1, <1>2

\* The last entry of priority p leaves, and its watcher, if it stands for one, has no event.
Last(q, p) == q.pendings[p][Len(q.pendings[p])]
Popped(q, p) ==
  [pendings |-> [q.pendings EXCEPT ![p] = SubSeq(@, 1, Len(q.pendings[p]) - 1)],
   pending |-> IF Last(q, p) \in LoopWatchers THEN [q.pending EXCEPT ![Last(q, p)] = 0] ELSE q.pending,
   owed |-> q.owed \ {Last(q, p)}]

\* ev_invoke_pending takes the last entry.
LEMMA PopKeeps ==
  ASSUME NEW D, NEW q \in Queues(D), NEW p \in Pris, q.pendings[p] # <<>>
  PROVE  /\ Last(q, p) \in Entries
         /\ Last(q, p) \in LoopWatchers => Last(q, p) \notin D /\ Popped(q, p) \in Queues(D \cup {Last(q, p)})
         /\ Last(q, p) \notin LoopWatchers => Popped(q, p) \in Queues(D)
  <1>0. /\ q.pendings \in [Pris -> Seq(Entries)] /\ q.pending \in [LoopWatchers -> Nat]
        /\ q.owed \subseteq LoopWatchers /\ Agree(q) /\ \A v \in D : q.pending[v] = 0
    BY QueueParts
  <1>1. PICK s \in Seq(Entries) : s = q.pendings[p]
    BY <1>0
  <1>2. PICK n \in Nat : n = Len(s) /\ n \in 1 .. Len(s)
    BY <1>1
  <1>21. PICK w : w = Last(q, p) /\ w = s[n]
    BY <1>1, <1>2 DEF Last
  <1>3. w \in Entries
    BY <1>1, <1>2, <1>21
  <1>4. w \in LoopWatchers => PriOf[w] = p /\ q.pending[w] = n
    BY <1>0, <1>1, <1>2, <1>21 DEF Agree
  <1>5. w \in LoopWatchers => w \notin D
    BY <1>0, <1>2, <1>4
  <1>6. PICK t \in Seq(Entries) : t = SubSeq(s, 1, n - 1)
    <2>1. SubSeq(s, 1, n - 1) \in Seq(Entries)
      BY <1>1, <1>2
    <2> QED
      BY <2>1
  <1>7. Len(t) = n - 1 /\ \A i \in 1 .. (n - 1) : t[i] = s[i]
    BY <1>1, <1>2, <1>6
  <1>8. PICK ps \in [Pris -> Seq(Entries)] : ps = [q.pendings EXCEPT ![p] = t]
    BY <1>0, <1>6
  <1>9. PICK pn \in [LoopWatchers -> Nat] :
          pn = IF w \in LoopWatchers THEN [q.pending EXCEPT ![w] = 0] ELSE q.pending
    BY <1>0
  <1>10. PICK ow \in SUBSET LoopWatchers : ow = q.owed \ {w}
    BY <1>0
  <1>11. Popped(q, p) = [pendings |-> ps, pending |-> pn, owed |-> ow]
    <2>1. [q.pendings EXCEPT ![p] = SubSeq(@, 1, n - 1)] = ps
      BY <1>1, <1>6, <1>8
    <2> QED
      BY <1>1, <1>2, <1>9, <1>10, <1>21, <2>1 DEF Popped, Last
  <1>12. ps[p] = t /\ \A r \in Pris : r # p => ps[r] = q.pendings[r]
    BY <1>0, <1>8
  <1>13. /\ w \in LoopWatchers => pn[w] = 0
         /\ \A v \in LoopWatchers : v # w => pn[v] = q.pending[v]
    BY <1>0, <1>9
  <1>14. ASSUME NEW v \in LoopWatchers, pn[v] > 0
         PROVE  pn[v] \in 1 .. Len(ps[PriOf[v]]) /\ ps[PriOf[v]][pn[v]] = v
    <2>0. v # w
      BY <1>13, <1>14
    <2>1. PICK r \in Pris : r = PriOf[v]
      BY EvLoopAssumption DEF Pris
    <2>2. q.pending[v] \in 1 .. Len(q.pendings[r]) /\ q.pendings[r][q.pending[v]] = v /\ pn[v] = q.pending[v]
      BY <1>0, <1>13, <1>14, <2>0, <2>1 DEF Agree
    <2>3. CASE r = p
      <3>1. q.pending[v] # n
        BY <1>1, <1>21, <2>0, <2>2, <2>3
      <3>2. pn[v] \in 1 .. (n - 1)
        BY <1>1, <1>2, <2>2, <2>3, <3>1
      <3> QED
        BY <1>1, <1>7, <1>12, <2>1, <2>2, <2>3, <3>2
    <2>4. CASE r # p
      BY <1>12, <2>1, <2>2, <2>4
    <2> QED
      BY <2>3, <2>4
  <1>15. ASSUME NEW r \in Pris, NEW i \in 1 .. Len(ps[r]), ps[r][i] \in LoopWatchers
         PROVE  PriOf[ps[r][i]] = r /\ pn[ps[r][i]] = i
    <2>1. ~(r = p /\ i = n)
      BY <1>7, <1>12
    <2>2. i \in 1 .. Len(q.pendings[r]) /\ ps[r][i] = q.pendings[r][i]
      <3>1. CASE r = p
        <4>1. i \in 1 .. (n - 1) /\ i \in 1 .. Len(s)
          BY <1>2, <1>7, <1>12, <3>1
        <4> QED
          BY <1>1, <1>7, <1>12, <3>1, <4>1
      <3>2. CASE r # p
        BY <1>12, <3>2
      <3> QED
        BY <3>1, <3>2
    <2>3. PriOf[ps[r][i]] = r /\ q.pending[ps[r][i]] = i
      BY <1>0, <1>15, <2>2 DEF Agree
    <2>4. ps[r][i] # w
      BY <1>4, <1>15, <2>1, <2>3
    <2> QED
      BY <1>13, <1>15, <2>3, <2>4
  <1>16. ASSUME NEW v \in LoopWatchers PROVE (pn[v] > 0) <=> (v \in ow)
    <2>1. (q.pending[v] > 0) <=> (v \in q.owed)
      BY <1>0 DEF Agree
    <2> QED
      BY <1>10, <1>13, <2>1
  <1>17. Agree([pendings |-> ps, pending |-> pn, owed |-> ow])
    BY <1>14, <1>15, <1>16 DEF Agree
  <1>18. /\ \A v \in D : pn[v] = 0
         /\ w \in LoopWatchers => \A v \in D \cup {w} : pn[v] = 0
    BY <1>0, <1>9
  <1>19. /\ [pendings |-> ps, pending |-> pn, owed |-> ow] \in Queues(D)
         /\ w \in LoopWatchers => [pendings |-> ps, pending |-> pn, owed |-> ow] \in Queues(D \cup {w})
    BY <1>17, <1>18 DEF Queues
  <1> QED
    BY <1>3, <1>5, <1>11, <1>19, <1>21

\* Fewer freed watchers ask for less.
LEMMA QueuesWeaker ==
  ASSUME NEW D, NEW E \in SUBSET D, NEW q \in Queues(D) PROVE q \in Queues(E)
  BY DEF Queues

----------------------------------------------------------------------------
(* What an action does to each part. *)

\* A watcher of an ev_once is a source and in no array, and keeps the loop alive.
LEMMA OnceFacts ==
  ASSUME NEW o \in Onces
  PROVE  /\ OnceIo[o] \in LoopWatchers /\ OnceIo[o] \in OnceWatchers /\ OnceIo[o] \notin Listed
         /\ OnceTo[o] \in LoopWatchers /\ OnceTo[o] \in OnceWatchers /\ OnceTo[o] \notin Listed
         /\ Ref(OnceIo[o]) = 1 /\ Ref(OnceTo[o]) = 1 /\ OnceIo[o] # OnceTo[o]
  <1>1. OnceIo[o] \in OnceWatchers /\ OnceTo[o] \in OnceWatchers
    BY DEF OnceWatchers
  <1>2. OnceWatchers \subseteq Sources /\ OnceWatchers \cap Listed = {} /\ OnceIo[o] # OnceTo[o]
    BY EvLoopAssumption
  <1>3. OnceIo[o] \notin Listed /\ OnceTo[o] \notin Listed
    BY <1>1, <1>2
  <1> QED
    BY <1>1, <1>2, <1>3 DEF LoopWatchers, Ref

\* Different objects have different watchers.
LEMMA OnceApart ==
  ASSUME NEW o \in Onces, NEW r \in Onces, o # r
  PROVE  OnceIo[o] # OnceIo[r] /\ OnceTo[o] # OnceTo[r] /\ OnceIo[o] # OnceTo[r] /\ OnceTo[o] # OnceIo[r]
  BY EvLoopAssumption

\* A listed watcher has an array, among them.
LEMMA ListedFacts ==
  ASSUME NEW w \in Listed
  PROVE  w \in LoopWatchers /\ ArrayOf(w) \in Arrays /\ w \notin OnceWatchers
  BY EvLoopAssumption DEF LoopWatchers, Arrays

\* A watcher counts for one or for none.
LEMMA RefFacts ==
  ASSUME NEW w PROVE Ref(w) \in {0, 1}
  BY DEF Ref

\* The watchers of freed objects are not in an array and not active.
LEMMA FreedFacts ==
  ASSUME OnceInv
  PROVE  /\ Freed \subseteq OnceWatchers /\ Freed \subseteq LoopWatchers /\ Freed \cap Listed = {}
         /\ \A w \in Freed : active[w] = 0
  <1>1. ASSUME NEW w \in Freed
        PROVE  w \in OnceWatchers /\ w \in LoopWatchers /\ w \notin Listed /\ active[w] = 0
    <2>1. PICK o \in Onces \ armed : w = OnceIo[o] \/ w = OnceTo[o]
      BY DEF Freed
    <2>2. active[OnceIo[o]] = 0 /\ active[OnceTo[o]] = 0
      BY <2>1 DEF OnceInv
    <2> QED
      BY <2>1, <2>2, OnceFacts
  <1> QED
    BY <1>1

\* The queues after a step that sets them.
LEMMA QueuesSet ==
  ASSUME NEW D, D = Freed', NEW q \in Queues(D), SetQ(q), pendingpri' \in Pris
  PROVE  QueuesInv'
  <1>1. Q' = [pendings |-> pendings', pending |-> pending', owed |-> owed']
    BY DEF Q
  <1>2. Q' = q
    BY <1>1, QueueParts DEF SetQ
  <1>3. Queues(D) = Queues(Freed)'
    BY DEF Queues, Agree
  <1> QED
    BY <1>2, <1>3 DEF QueuesInv, Pris

\* The array that a pass goes over.
LEMMA ArrayFed ==
  ASSUME ListsInv, OnceInv, NEW k, NEW p
  PROVE  Array(k, p) \in Seq(LoopWatchers \ Freed)
  <1>1. PICK a \in Seq(Listed) : a = Array(k, p)
    <2>1. Array(k, p) \in Seq(Listed)
      BY DEF Array, ListsInv
    <2> QED
      BY <2>1
  <1>2. Listed \subseteq LoopWatchers \ Freed
    BY FreedFacts DEF LoopWatchers
  <1>3. PICK L : L = LoopWatchers \ Freed
    OBVIOUS
  <1>4. a \in Seq(L)
    BY <1>1, <1>2, <1>3
  <1> QED
    BY <1>1, <1>3, <1>4

\* ev_idle, fed or not.
LEMMA IdleKeeps ==
  ASSUME ListsInv, OnceInv, NEW q \in Queues(Freed)
  PROVE  IdleReify(q) \in Queues(Freed)
  <1>1. \A p : FeedAll(q, Array("idle", p)) \in Queues(Freed)
    BY ArrayFed, FeedAllKeeps
  <1> QED
    BY <1>1 DEF IdleReify

\* The sources a poll reports are active, and so not freed.
LEMMA ReadyFed ==
  ASSUME OnceInv, NEW ready \in SUBSET {w \in Sources : active[w] # 0},
         NEW order \in [1 .. Cardinality(ready) -> ready]
  PROVE  order \in Seq(LoopWatchers \ Freed)
  <1>1. ready \subseteq LoopWatchers \ Freed
    BY FreedFacts DEF LoopWatchers
  <1>2. IsFiniteSet(ready)
    <2>1. IsFiniteSet(LoopWatchers) /\ ready \subseteq LoopWatchers
      BY <1>1, EvLoopAssumption
    <2> QED
      BY <2>1, FS_Subset
  <1>3. PICK n \in Nat : n = Cardinality(ready)
    BY <1>2, FS_CardinalityType
  <1>4. PICK L : L = LoopWatchers \ Freed
    OBVIOUS
  <1>5. order \in [1 .. n -> L]
    BY <1>1, <1>3, <1>4
  <1> QED
    BY <1>4, <1>5

\* The watchers that keep the loop alive are finitely many.
LEMMA AliveFinite ==
  /\ IsFiniteSet(Alive) /\ Cardinality(Alive) \in Nat
  /\ Alive \subseteq LoopWatchers
  <1>1. Alive \subseteq LoopWatchers /\ IsFiniteSet(LoopWatchers)
    BY EvLoopAssumption DEF Alive
  <1>2. IsFiniteSet(Alive)
    BY <1>1, FS_Subset
  <1> QED
    BY <1>1, <1>2, FS_CardinalityType

\* One more, when a watcher starts that counts.
LEMMA CountStart ==
  ASSUME CountInv, NEW w \in LoopWatchers, active[w] = 0, active'[w] # 0,
         \A v \in LoopWatchers : v # w => (active'[v] # 0) = (active[v] # 0),
         activecnt' = activecnt + Ref(w)
  PROVE  CountInv'
  <1>1. CASE Ref(w) = 1
    <2>1. Alive' = Alive \cup {w} /\ w \notin Alive
      BY <1>1 DEF Alive, Ref
    <2>2. Cardinality(Alive \cup {w}) = Cardinality(Alive) + 1
      BY <2>1, AliveFinite, FS_AddElement
    <2> QED
      BY <1>1, <2>1, <2>2 DEF CountInv
  <1>2. CASE Ref(w) # 1
    <2>1. Alive' = Alive
      BY <1>2 DEF Alive, Ref
    <2>2. Ref(w) = 0
      BY <1>2, RefFacts
    <2> QED
      BY <2>1, <2>2, AliveFinite DEF CountInv
  <1> QED
    BY <1>1, <1>2

\* One less, when it stops.
LEMMA CountStop ==
  ASSUME CountInv, NEW w \in LoopWatchers, active[w] # 0, active'[w] = 0,
         \A v \in LoopWatchers : v # w => (active'[v] # 0) = (active[v] # 0),
         activecnt' = activecnt - Ref(w)
  PROVE  CountInv'
  <1>1. CASE Ref(w) = 1
    <2>1. Alive' = Alive \ {w} /\ w \in Alive
      BY <1>1 DEF Alive, Ref
    <2>2. Cardinality(Alive \ {w}) = Cardinality(Alive) - 1
      BY <2>1, AliveFinite, FS_RemoveElement
    <2> QED
      BY <1>1, <2>1, <2>2 DEF CountInv
  <1>2. CASE Ref(w) # 1
    <2>1. Alive' = Alive
      BY <1>2 DEF Alive, Ref
    <2>2. Ref(w) = 0
      BY <1>2, RefFacts
    <2> QED
      BY <2>1, <2>2, AliveFinite DEF CountInv
  <1> QED
    BY <1>1, <1>2

\* ev_xxx_start.
LEMMA StartKeeps ==
  ASSUME LoopInv, NEW w \in LoopWatchers, LoopStart(w)
  PROVE  LoopInv'
  <1>0. /\ active[w] = 0 /\ w \notin OnceWatchers /\ activecnt' = activecnt + Ref(w)
        /\ UNCHANGED <<pendings, pending, owed, pendingpri, armed>>
    BY DEF LoopStart
  <1>1. /\ arrays \in [Arrays -> Seq(Listed)] /\ active \in [LoopWatchers -> Nat]
        /\ \A a \in Arrays : \A i \in 1 .. Len(arrays[a]) : active[arrays[a][i]] = i /\ ArrayOf(arrays[a][i]) = a
        /\ \A v \in Listed : active[v] > 0 =>
             active[v] \in 1 .. Len(arrays[ArrayOf(v)]) /\ arrays[ArrayOf(v)][active[v]] = v
    BY DEF LoopInv, ListsInv
  <1>2. QueuesInv'
    BY <1>0 DEF LoopInv, QueuesInv, Q, Queues, Agree, Freed
  <1>3. PICK k \in Nat \ {0} : active' = [active EXCEPT ![w] = k]
    <2>1. CASE w \in Listed
      <3>1. Len(arrays[ArrayOf(w)]) \in Nat
        BY <1>1, <2>1, ListedFacts
      <3>2. PICK k \in Nat \ {0} : k = Len(arrays[ArrayOf(w)]) + 1
        BY <3>1
      <3> QED
        BY <2>1, <3>2 DEF LoopStart
    <2>2. CASE w \notin Listed
      BY <2>2 DEF LoopStart
    <2> QED
      BY <2>1, <2>2
  <1>4. /\ active' \in [LoopWatchers -> Nat] /\ active'[w] = k
        /\ \A v \in LoopWatchers : v # w => active'[v] = active[v]
    BY <1>1, <1>3
  <1>5. CountInv'
    BY <1>0, <1>3, <1>4, CountStart DEF LoopInv
  <1>6. OnceInv'
    <2>1. \A o \in Onces : OnceIo[o] # w /\ OnceTo[o] # w /\ OnceIo[o] \in LoopWatchers /\ OnceTo[o] \in LoopWatchers
      BY <1>0, OnceFacts
    <2> QED
      BY <1>0, <1>4, <2>1 DEF LoopInv, OnceInv
  <1>7. ListsInv'
    <2>1. CASE w \notin Listed
      <3>1. arrays' = arrays
        BY <2>1 DEF LoopStart
      <3>2. \A a \in Arrays : \A i \in 1 .. Len(arrays[a]) : arrays[a][i] \in Listed
        BY <1>1
      <3>3. \A v \in Listed : v # w /\ v \in LoopWatchers
        BY <2>1, ListedFacts
      <3>4. \A v \in Listed : active'[v] = active[v]
        BY <1>4, <3>3
      <3>5. \A a \in Arrays : \A i \in 1 .. Len(arrays[a]) : active'[arrays[a][i]] = i /\ ArrayOf(arrays[a][i]) = a
        BY <1>1, <3>2, <3>4
      <3>6. \A v \in Listed : active'[v] > 0 =>
              active'[v] \in 1 .. Len(arrays[ArrayOf(v)]) /\ arrays[ArrayOf(v)][active'[v]] = v
        BY <1>1, <3>4
      <3> QED
        BY <1>1, <1>4, <3>1, <3>5, <3>6 DEF ListsInv
    <2>2. CASE w \in Listed
      <3>1. PICK b \in Arrays : b = ArrayOf(w)
        BY <2>2, ListedFacts
      <3>2. PICK s \in Seq(Listed) : s = arrays[b]
        BY <1>1
      <3>3. PICK t \in Seq(Listed) : t = Append(s, w)
        <4>1. Append(s, w) \in Seq(Listed)
          BY <2>2, <3>2
        <4> QED
          BY <4>1
      <3>4. Len(s) \in Nat /\ Len(t) = Len(s) + 1 /\ t[Len(s) + 1] = w /\ \A i \in 1 .. Len(s) : t[i] = s[i]
        BY <3>2, <3>3
      <3>5. PICK ar \in [Arrays -> Seq(Listed)] : ar = [arrays EXCEPT ![b] = t]
        BY <1>1, <3>3
      <3>6. arrays' = ar
        BY <2>2, <3>1, <3>2, <3>3, <3>5 DEF LoopStart
      <3>7. ar[b] = t /\ \A a \in Arrays : a # b => ar[a] = arrays[a]
        BY <1>1, <3>5
      <3>8. active'[w] = Len(s) + 1
        BY <1>1, <2>2, <3>1, <3>2 DEF LoopStart
      <3>9. ASSUME NEW a \in Arrays, NEW i \in 1 .. Len(ar[a])
            PROVE  active'[ar[a][i]] = i /\ ArrayOf(ar[a][i]) = a
        <4>1. CASE a = b /\ i = Len(s) + 1
          BY <3>1, <3>4, <3>7, <3>8, <4>1
        <4>2. CASE ~(a = b /\ i = Len(s) + 1)
          <5>1. i \in 1 .. Len(arrays[a]) /\ ar[a][i] = arrays[a][i]
            BY <3>2, <3>4, <3>7, <4>2
          <5>2. PICK v \in Listed : v = ar[a][i]
            BY <1>1, <5>1
          <5>3. active[v] = i /\ ArrayOf(v) = a
            BY <1>1, <5>1, <5>2
          <5>4. v # w /\ v \in LoopWatchers
            BY <1>0, <5>3, <5>2, ListedFacts
          <5> QED
            BY <1>4, <5>2, <5>3, <5>4
        <4> QED
          BY <4>1, <4>2
      <3>10. ASSUME NEW v \in Listed, active'[v] > 0
             PROVE  active'[v] \in 1 .. Len(ar[ArrayOf(v)]) /\ ar[ArrayOf(v)][active'[v]] = v
        <4>1. CASE v = w
          BY <3>1, <3>4, <3>7, <3>8, <4>1
        <4>2. CASE v # w
          <5>1. active'[v] = active[v] /\ ArrayOf(v) \in Arrays
            BY <1>4, <4>2, ListedFacts
          <5>2. active[v] \in 1 .. Len(arrays[ArrayOf(v)]) /\ arrays[ArrayOf(v)][active[v]] = v
            BY <1>1, <3>10, <5>1
          <5>3. PICK a \in Arrays : a = ArrayOf(v)
            BY <5>1
          <5>4. CASE a = b
            BY <3>2, <3>4, <3>7, <5>1, <5>2, <5>3, <5>4
          <5>5. CASE a # b
            BY <3>7, <5>1, <5>2, <5>3, <5>5
          <5> QED
            BY <5>4, <5>5
        <4> QED
          BY <4>1, <4>2
      <3> QED
        BY <1>4, <3>6, <3>9, <3>10 DEF ListsInv
    <2> QED
      BY <2>1, <2>2
  <1> QED
    BY <1>2, <1>5, <1>6, <1>7 DEF LoopInv

\* The array without the watcher at place k, whose place the last one takes.
Shrunk(s, k) == [i \in 1 .. Len(s) - 1 |-> IF i = k THEN s[Len(s)] ELSE s[i]]

\* ev_xxx_stop of an active listed watcher.
LEMMA UnlistKeeps ==
  ASSUME ListsInv, NEW w \in Listed, active[w] # 0, active' = Filled(w),
         arrays' = [arrays EXCEPT ![ArrayOf(w)] = Shrunk(@, active[w])]
  PROVE  /\ ListsInv' /\ active'[w] = 0
         /\ \A v \in LoopWatchers : v # w => (active'[v] # 0) = (active[v] # 0)
         /\ \A v \in LoopWatchers \ Listed : active'[v] = active[v]
  <1>1. /\ arrays \in [Arrays -> Seq(Listed)] /\ active \in [LoopWatchers -> Nat]
        /\ \A a \in Arrays : \A i \in 1 .. Len(arrays[a]) : active[arrays[a][i]] = i /\ ArrayOf(arrays[a][i]) = a
        /\ \A v \in Listed : active[v] > 0 =>
             active[v] \in 1 .. Len(arrays[ArrayOf(v)]) /\ arrays[ArrayOf(v)][active[v]] = v
    BY DEF ListsInv
  <1>2. PICK b \in Arrays : b = ArrayOf(w)
    BY ListedFacts
  <1>3. PICK s \in Seq(Listed) : s = arrays[b]
    BY <1>1
  <1>4. PICK n \in Nat : n = Len(s)
    BY <1>3
  <1>5. PICK k \in Nat : k = active[w]
    BY <1>1, ListedFacts
  <1>6. k \in 1 .. n /\ s[k] = w /\ n \in 1 .. n
    BY <1>1, <1>2, <1>3, <1>4, <1>5
  <1>7. PICK z \in Listed : z = s[n]
    BY <1>3, <1>4, <1>6
  <1>8. \A i \in 1 .. n : s[i] \in Listed /\ active[s[i]] = i /\ ArrayOf(s[i]) = b
    BY <1>1, <1>3, <1>4
  <1>9. active[z] = n /\ ArrayOf(z) = b
    BY <1>6, <1>7, <1>8
  <1>10. PICK t \in Seq(Listed) : t = Shrunk(s, k)
    <2>1. PICK m \in Nat : m = n - 1
      BY <1>6
    <2>2. Shrunk(s, k) = [i \in 1 .. m |-> IF i = k THEN z ELSE s[i]]
      BY <1>4, <1>7, <2>1 DEF Shrunk
    <2>3. \A i \in 1 .. m : (IF i = k THEN z ELSE s[i]) \in Listed
      BY <1>8, <2>1
    <2>4. [i \in 1 .. m |-> IF i = k THEN z ELSE s[i]] \in Seq(Listed)
      BY <2>3
    <2> QED
      BY <2>2, <2>4
  <1>11. Len(t) = n - 1 /\ \A i \in 1 .. n - 1 : t[i] = IF i = k THEN z ELSE s[i]
    <2>1. PICK m \in Nat : m = n - 1
      BY <1>6
    <2>2. t = [i \in 1 .. m |-> IF i = k THEN z ELSE s[i]]
      BY <1>4, <1>7, <1>10, <2>1 DEF Shrunk
    <2> QED
      BY <2>1, <2>2
  <1>12. PICK ar \in [Arrays -> Seq(Listed)] : ar = [arrays EXCEPT ![b] = t]
    BY <1>1, <1>10
  <1>13. arrays' = ar
    BY <1>2, <1>3, <1>5, <1>10, <1>12
  <1>14. ar[b] = t /\ \A a \in Arrays : a # b => ar[a] = arrays[a]
    BY <1>1, <1>12
  <1>15. z \in LoopWatchers /\ w \in LoopWatchers
    BY ListedFacts
  <1>16. PICK ac \in [LoopWatchers -> Nat] : ac = [[active EXCEPT ![z] = k] EXCEPT ![w] = 0]
    BY <1>1, <1>5, <1>15
  <1>17. active' = ac
    BY <1>2, <1>3, <1>4, <1>5, <1>7, <1>16 DEF Filled
  <1>18. /\ ac[w] = 0 /\ (z # w => ac[z] = k)
         /\ \A v \in LoopWatchers : v # w /\ v # z => ac[v] = active[v]
    BY <1>1, <1>15, <1>16
  <1>19. \A v \in LoopWatchers : v # w => (ac[v] # 0) = (active[v] # 0)
    BY <1>6, <1>9, <1>18
  <1>20. \A v \in LoopWatchers \ Listed : ac[v] = active[v]
    BY <1>7, <1>18
  <1>21. ASSUME NEW a \in Arrays, NEW i \in 1 .. Len(ar[a])
         PROVE  ac[ar[a][i]] = i /\ ArrayOf(ar[a][i]) = a
    <2>1. CASE a # b
      <3>1. ar[a] = arrays[a]
        BY <1>14, <2>1
      <3>2. PICK v \in Listed : v = ar[a][i]
        BY <1>1, <3>1
      <3>3. active[v] = i /\ ArrayOf(v) = a /\ v \in LoopWatchers
        BY <1>1, <3>1, <3>2, ListedFacts, ZenonT(60)
      <3>4. v # w /\ v # z
        BY <1>2, <1>9, <2>1, <3>3
      <3> QED
        BY <1>18, <3>2, <3>3, <3>4
    <2>2. CASE a = b /\ i = k
      <3>1. ar[a][i] = z
        BY <1>11, <1>14, <2>2
      <3>2. k \in 1 .. n - 1
        BY <1>11, <1>14, <2>2
      <3>3. z # w
        BY <1>5, <1>9, <3>2
      <3> QED
        BY <1>9, <1>18, <2>2, <3>1, <3>3
    <2>3. CASE a = b /\ i # k
      <3>1. i \in 1 .. n - 1
        BY <1>11, <1>14, <2>3
      <3>2. ar[a][i] = s[i] /\ i \in 1 .. n /\ i # n
        BY <1>11, <1>14, <2>3, <3>1
      <3>3. PICK v \in Listed : v = s[i]
        BY <1>8, <3>2
      <3>4. active[v] = i /\ ArrayOf(v) = b /\ v \in LoopWatchers
        BY <1>8, <3>2, <3>3, ListedFacts
      <3>5. v # w /\ v # z
        BY <1>5, <1>9, <2>3, <3>2, <3>4
      <3> QED
        BY <1>18, <2>3, <3>2, <3>3, <3>4, <3>5
    <2> QED
      BY <2>1, <2>2, <2>3
  <1>22. ASSUME NEW v \in Listed, ac[v] > 0
         PROVE  ac[v] \in 1 .. Len(ar[ArrayOf(v)]) /\ ar[ArrayOf(v)][ac[v]] = v
    <2>0. v # w /\ v \in LoopWatchers
      BY <1>18, <1>22, ListedFacts
    <2>1. CASE v = z
      <3>1. ac[v] = k /\ k # n
        BY <1>6, <1>7, <1>18, <2>0, <2>1
      <3>2. k \in 1 .. n - 1
        BY <1>6, <3>1
      <3> QED
        BY <1>9, <1>11, <1>14, <2>1, <3>1, <3>2
    <2>2. CASE v # z
      <3>1. ac[v] = active[v]
        BY <1>18, <2>0, <2>2
      <3>2. PICK a \in Arrays : a = ArrayOf(v)
        BY ListedFacts
      <3>3. active[v] \in 1 .. Len(arrays[a]) /\ arrays[a][active[v]] = v
        BY <1>1, <1>22, <3>1, <3>2
      <3>4. CASE a # b
        BY <1>14, <3>1, <3>2, <3>3, <3>4
      <3>5. CASE a = b
        <4>1. active[v] \in 1 .. n /\ s[active[v]] = v
          BY <1>3, <1>4, <3>3, <3>5
        <4>2. active[v] # n /\ active[v] # k
          BY <1>6, <1>7, <2>0, <2>2, <4>1
        <4>3. active[v] \in 1 .. n - 1
          BY <4>1, <4>2
        <4> QED
          BY <1>11, <1>14, <3>1, <3>2, <3>5, <4>1, <4>2, <4>3
      <3> QED
        BY <3>4, <3>5
    <2> QED
      BY <2>1, <2>2
  <1>23. ListsInv'
    BY <1>13, <1>17, <1>21, <1>22, ZenonT(60) DEF ListsInv
  <1> QED
    BY <1>17, <1>18, <1>19, <1>20, <1>23

\* A source starts or stops: no array changes.
LEMMA ListsStay ==
  ASSUME ListsInv, arrays' = arrays, active' \in [LoopWatchers -> Nat], \A v \in Listed : active'[v] = active[v]
  PROVE  ListsInv'
  <1>1. /\ arrays \in [Arrays -> Seq(Listed)]
        /\ \A a \in Arrays : \A i \in 1 .. Len(arrays[a]) : active[arrays[a][i]] = i /\ ArrayOf(arrays[a][i]) = a
        /\ \A v \in Listed : active[v] > 0 =>
             active[v] \in 1 .. Len(arrays[ArrayOf(v)]) /\ arrays[ArrayOf(v)][active[v]] = v
    BY DEF ListsInv
  <1>2. \A a \in Arrays : \A i \in 1 .. Len(arrays[a]) : arrays[a][i] \in Listed
    BY <1>1
  <1>3. \A a \in Arrays : \A i \in 1 .. Len(arrays[a]) : active'[arrays[a][i]] = i /\ ArrayOf(arrays[a][i]) = a
    BY <1>1, <1>2
  <1>4. \A v \in Listed : active'[v] > 0 =>
          active'[v] \in 1 .. Len(arrays[ArrayOf(v)]) /\ arrays[ArrayOf(v)][active'[v]] = v
    BY <1>1
  <1> QED
    BY <1>1, <1>3, <1>4 DEF ListsInv

\* ev_xxx_stop: clear_pending, and out of the array.
LEMMA StopKeeps ==
  ASSUME LoopInv, NEW w \in LoopWatchers, LoopStop(w)
  PROVE  LoopInv'
  <1>0. /\ w \notin OnceWatchers /\ SetQ(Clear(Q, w)) /\ UNCHANGED <<pendingpri, armed>>
    BY DEF LoopStop
  <1>1. QueuesInv'
    <2>1. Q \in Queues(Freed) /\ pendingpri' \in Pris
      BY <1>0 DEF LoopInv, QueuesInv
    <2>2. Clear(Q, w) \in Queues(Freed)
      <3>1. PICK D : D = Freed
        OBVIOUS
      <3>2. Clear(Q, w) \in Queues(D \cup {w})
        BY <2>1, <3>1, ClearKeeps
      <3>3. D \in SUBSET (D \cup {w})
        OBVIOUS
      <3> QED
        BY <3>1, <3>2, <3>3, QueuesWeaker
    <2>3. Freed = Freed'
      BY <1>0 DEF Freed
    <2> QED
      BY <1>0, <2>1, <2>2, <2>3, QueuesSet
  <1>2. active \in [LoopWatchers -> Nat]
    BY DEF LoopInv, ListsInv
  <1>3. \A o \in Onces : OnceIo[o] # w /\ OnceTo[o] # w /\ OnceIo[o] \in LoopWatchers \ Listed /\ OnceTo[o] \in LoopWatchers \ Listed
    BY <1>0, OnceFacts
  <1>4. CASE active[w] = 0
    <2>1. UNCHANGED <<arrays, active, activecnt>>
      BY <1>4 DEF LoopStop
    <2> QED
      BY <1>0, <1>1, <2>1 DEF LoopInv, ListsInv, OnceInv, CountInv, Alive, Ref
  <1>5. CASE active[w] # 0 /\ w \in Listed
    <2>1. active' = Filled(w) /\ arrays' = [arrays EXCEPT ![ArrayOf(w)] = Shrunk(@, active[w])]
      BY <1>5 DEF LoopStop, Shrunk
    <2>2. /\ ListsInv' /\ active'[w] = 0
          /\ \A v \in LoopWatchers : v # w => (active'[v] # 0) = (active[v] # 0)
          /\ \A v \in LoopWatchers \ Listed : active'[v] = active[v]
      BY <1>5, <2>1, UnlistKeeps DEF LoopInv
    <2>3. activecnt' = activecnt - Ref(w)
      BY <1>5 DEF LoopStop
    <2>4. CountInv'
      BY <1>5, <2>2, <2>3, CountStop DEF LoopInv
    <2>5. OnceInv'
      BY <1>0, <1>3, <2>2 DEF LoopInv, OnceInv
    <2> QED
      BY <1>1, <2>2, <2>4, <2>5 DEF LoopInv
  <1>6. CASE active[w] # 0 /\ w \notin Listed
    <2>1. active' = [active EXCEPT ![w] = 0] /\ arrays' = arrays /\ activecnt' = activecnt - Ref(w)
      BY <1>6 DEF LoopStop
    <2>2. /\ active' \in [LoopWatchers -> Nat] /\ active'[w] = 0
          /\ \A v \in LoopWatchers : v # w => active'[v] = active[v]
      BY <1>2, <2>1
    <2>3. \A v \in Listed : active'[v] = active[v]
      BY <1>6, <2>2, ListedFacts
    <2>4. ListsInv'
      BY <2>1, <2>2, <2>3, ListsStay DEF LoopInv
    <2>5. CountInv'
      BY <1>6, <2>1, <2>2, CountStop DEF LoopInv
    <2>6. OnceInv'
      BY <1>0, <1>3, <2>2 DEF LoopInv, OnceInv
    <2> QED
      BY <1>1, <2>4, <2>5, <2>6 DEF LoopInv
  <1> QED
    BY <1>4, <1>5, <1>6

\* Both watchers of an ev_once start or stop: what becomes of the arrays, the objects
\* and the count.
LEMMA BothKeep ==
  ASSUME ListsInv, OnceInv, CountInv, NEW o \in Onces, NEW v \in {0, 1},
         armed' = IF v = 1 THEN armed \cup {o} ELSE armed \ {o}, v = 1 <=> o \notin armed,
         active' = [active EXCEPT ![OnceIo[o]] = v, ![OnceTo[o]] = v], arrays' = arrays,
         activecnt' = IF v = 1 THEN activecnt + 2 ELSE activecnt - 2
  PROVE  ListsInv' /\ OnceInv' /\ CountInv'
  <1>1. active \in [LoopWatchers -> Nat]
    BY DEF ListsInv
  <1>2. PICK io \in LoopWatchers : io = OnceIo[o]
    BY OnceFacts
  <1>3. PICK to \in LoopWatchers : to = OnceTo[o]
    BY OnceFacts
  <1>4. io \notin Listed /\ to \notin Listed /\ io # to /\ Ref(io) = 1 /\ Ref(to) = 1
    BY <1>2, <1>3, OnceFacts
  <1>5. /\ active' \in [LoopWatchers -> Nat] /\ active'[io] = v /\ active'[to] = v
        /\ \A x \in LoopWatchers : x # io /\ x # to => active'[x] = active[x]
    BY <1>1, <1>2, <1>3, <1>4
  <1>6. ListsInv'
    <2>1. \A x \in Listed : active'[x] = active[x]
      BY <1>4, <1>5, ListedFacts
    <2> QED
      BY <1>5, <2>1, ListsStay
  <1>7. armed \subseteq Onces /\ armed' \subseteq Onces
    BY DEF OnceInv
  <1>8. ASSUME NEW r \in Onces
        PROVE  /\ active'[OnceIo[r]] = IF r \in armed' THEN 1 ELSE 0
               /\ active'[OnceTo[r]] = IF r \in armed' THEN 1 ELSE 0
    <2>1. CASE r = o
      BY <1>2, <1>3, <1>5, <2>1
    <2>2. CASE r # o
      <3>1. OnceIo[r] # io /\ OnceIo[r] # to /\ OnceTo[r] # io /\ OnceTo[r] # to
        BY <1>2, <1>3, <2>2, OnceApart
      <3>2. active'[OnceIo[r]] = active[OnceIo[r]] /\ active'[OnceTo[r]] = active[OnceTo[r]]
        BY <1>5, <3>1, OnceFacts
      <3>3. r \in armed' <=> r \in armed
        BY <2>2
      <3> QED
        BY <3>2, <3>3 DEF OnceInv
    <2> QED
      BY <2>1, <2>2
  <1>9. OnceInv'
    BY <1>7, <1>8 DEF OnceInv
  <1>10. active[io] = 1 - v /\ active[to] = 1 - v
    BY <1>2, <1>3 DEF OnceInv
  <1>11. activecnt = Cardinality(Alive) /\ IsFiniteSet(Alive) /\ Cardinality(Alive) \in Nat
    BY AliveFinite DEF CountInv
  <1>12. CASE v = 1
    <2>1. Alive' = (Alive \cup {io}) \cup {to} /\ io \notin Alive /\ to \notin Alive
      BY <1>4, <1>5, <1>10, <1>12 DEF Alive, Ref
    <2>2. Cardinality(Alive \cup {io}) = Cardinality(Alive) + 1 /\ IsFiniteSet(Alive \cup {io})
      BY <1>11, <2>1, FS_AddElement
    <2>3. to \notin Alive \cup {io}
      BY <1>4, <2>1
    <2>4. Cardinality((Alive \cup {io}) \cup {to}) = Cardinality(Alive \cup {io}) + 1
      BY <2>2, <2>3, FS_AddElement
    <2>5. CountInv'
      BY <1>11, <1>12, <2>1, <2>2, <2>4 DEF CountInv
    <2> QED
      BY <1>6, <1>9, <2>5
  <1>13. CASE v = 0
    <2>1. Alive' = (Alive \ {io}) \ {to} /\ io \in Alive /\ to \in Alive
      BY <1>4, <1>5, <1>10, <1>13 DEF Alive, Ref
    <2>2. Cardinality(Alive \ {io}) = Cardinality(Alive) - 1 /\ IsFiniteSet(Alive \ {io})
      BY <1>11, <2>1, FS_RemoveElement
    <2>3. to \in Alive \ {io}
      BY <1>4, <2>1
    <2>4. Cardinality((Alive \ {io}) \ {to}) = Cardinality(Alive \ {io}) - 1
      BY <2>2, <2>3, FS_RemoveElement
    <2>5. CountInv'
      BY <1>11, <1>13, <2>1, <2>2, <2>4 DEF CountInv
    <2> QED
      BY <1>6, <1>9, <2>5
  <1> QED
    BY <1>12, <1>13

\* ev_once.
LEMMA OnceKeeps ==
  ASSUME LoopInv, NEW o \in Onces, Once(o)
  PROVE  LoopInv'
  <1>0. /\ o \notin armed /\ armed' = armed \cup {o} /\ arrays' = arrays /\ activecnt' = activecnt + 2
        /\ active' = [active EXCEPT ![OnceIo[o]] = 1, ![OnceTo[o]] = 1]
        /\ UNCHANGED <<pendings, pending, owed, pendingpri>>
    BY DEF Once
  <1>1. ListsInv' /\ OnceInv' /\ CountInv'
    BY <1>0, BothKeep DEF LoopInv
  <1>2. PICK D : D = Freed'
    OBVIOUS
  <1>3. D \subseteq Freed
    BY <1>0, <1>2 DEF Freed
  <1>4. Q \in Queues(Freed) /\ pendingpri' \in Pris
    BY <1>0 DEF LoopInv, QueuesInv
  <1>5. Q \in Queues(D)
    BY <1>3, <1>4, QueuesWeaker
  <1>6. SetQ(Q)
    BY <1>0 DEF SetQ, Q
  <1>7. QueuesInv'
    BY <1>2, <1>4, <1>5, <1>6, QueuesSet
  <1> QED
    BY <1>1, <1>7 DEF LoopInv

\* ev_invoke_pending calls a watcher; the callback of an ev_once stops both its
\* watchers and frees the object.
LEMMA CallKeeps ==
  ASSUME LoopInv, Call
  PROVE  LoopInv'
  <1>0. /\ pendings[pendingpri] # <<>> /\ arrays' = arrays /\ pendingpri' = pendingpri
    BY DEF Call
  <1>1. Q \in Queues(Freed) /\ pendingpri \in Pris
    BY DEF LoopInv, QueuesInv
  <1>2. PICK q \in Queues(Freed) : q = Q
    BY <1>1
  <1>3. q.pendings = pendings /\ q.pending = pending /\ q.owed = owed
    BY <1>2 DEF Q
  <1>4. PICK p \in Pris : p = pendingpri
    BY <1>1
  <1>5. PICK n \in Nat : n = Len(q.pendings[p]) /\ n # 0
    <2>1. q.pendings[p] \in Seq(Entries) /\ q.pendings[p] # <<>>
      BY <1>0, <1>3, <1>4, QueueParts
    <2> QED
      BY <2>1
  <1>6. PICK w : w = q.pendings[p][n]
    OBVIOUS
  <1>7. PICK D : D = Freed
    OBVIOUS
  <1>8. /\ w \in Entries
        /\ w \in LoopWatchers => w \notin D /\ Popped(q, p) \in Queues(D \cup {w})
        /\ w \notin LoopWatchers => Popped(q, p) \in Queues(D)
    <2>1. q \in Queues(D)
      BY <1>7
    <2>2. q.pendings[p] # <<>>
      BY <1>0, <1>3, <1>4
    <2>3. w = Last(q, p)
      BY <1>5, <1>6 DEF Last
    <2> QED
      BY <2>1, <2>2, <2>3, PopKeeps
  <1>9. PICK r : r = Popped(q, p)
    OBVIOUS
  <1>10. r = [pendings |-> [pendings EXCEPT ![pendingpri] = SubSeq(@, 1, n - 1)],
              pending |-> IF w \in LoopWatchers THEN [pending EXCEPT ![w] = 0] ELSE pending,
              owed |-> owed \ {w}]
    BY <1>3, <1>4, <1>5, <1>6, <1>9 DEF Popped, Last
  <1>11. n = Len(pendings[pendingpri]) /\ w = pendings[pendingpri][n]
    BY <1>3, <1>4, <1>5, <1>6
  <1>12. CASE ~\E o \in Onces : w \in {OnceIo[o], OnceTo[o]}
    <2>1. SetQ(r) /\ UNCHANGED <<active, activecnt, armed>>
      BY <1>10, <1>11, <1>12 DEF Call
    <2>2. r \in Queues(D)
      <3>1. D \in SUBSET (D \cup {w})
        OBVIOUS
      <3> QED
        BY <1>8, <1>9, <3>1, QueuesWeaker
    <2>3. D = Freed'
      BY <1>7, <2>1 DEF Freed
    <2>4. QueuesInv'
      BY <1>0, <1>1, <2>1, <2>2, <2>3, QueuesSet
    <2> QED
      BY <1>0, <2>1, <2>4 DEF LoopInv, ListsInv, OnceInv, CountInv, Alive, Ref
  <1>13. CASE \E o \in Onces : w \in {OnceIo[o], OnceTo[o]}
    <2>1. PICK o \in Onces : o = (CHOOSE x \in Onces : w \in {OnceIo[x], OnceTo[x]}) /\ w \in {OnceIo[o], OnceTo[o]}
      BY <1>13
    <2>2. /\ SetQ(OnceCleared(r, o, w))
          /\ active' = [active EXCEPT ![OnceIo[o]] = 0, ![OnceTo[o]] = 0]
          /\ activecnt' = activecnt - active[OnceIo[o]] - active[OnceTo[o]]
          /\ armed' = armed \ {o}
      BY <1>10, <1>11, <1>13, <2>1 DEF Call
    <2>3. w \in LoopWatchers /\ w \notin D
      BY <1>8, <2>1, OnceFacts
    <2>4. o \in armed
      BY <1>7, <2>1, <2>3 DEF Freed
    <2>5. active[OnceIo[o]] = 1 /\ active[OnceTo[o]] = 1 /\ activecnt \in Nat
      BY <2>4, AliveFinite DEF LoopInv, OnceInv, CountInv
    <2>6. activecnt' = activecnt - 2
      BY <2>2, <2>5
    <2>7. ListsInv' /\ OnceInv' /\ CountInv'
      <3>1. PICK v \in {0, 1} : v = 0
        OBVIOUS
      <3>2. armed' = (IF v = 1 THEN armed \cup {o} ELSE armed \ {o}) /\ (v = 1 <=> o \notin armed)
        BY <2>2, <2>4, <3>1
      <3>3. active' = [active EXCEPT ![OnceIo[o]] = v, ![OnceTo[o]] = v]
        BY <2>2, <3>1
      <3>4. activecnt' = IF v = 1 THEN activecnt + 2 ELSE activecnt - 2
        BY <2>6, <3>1
      <3>5. ListsInv /\ OnceInv /\ CountInv
        BY DEF LoopInv
      <3> QED
        BY <1>0, <3>2, <3>3, <3>4, <3>5, BothKeep
    <2>8. PICK x \in LoopWatchers : x = Twin(o, w)
      BY OnceFacts DEF Twin
    <2>9. {w, x} = {OnceIo[o], OnceTo[o]}
      BY <2>1, <2>8, OnceFacts DEF Twin
    <2>10. r \in Queues(D \cup {w})
      BY <1>8, <1>9, <2>3
    <2>11. Clear(r, x) \in Queues((D \cup {w}) \cup {x})
      BY <2>8, <2>10, ClearKeeps
    <2>12. PICK E : E = (D \cup {w}) \cup {x}
      OBVIOUS
    <2>13. E = Freed'
      BY <1>7, <2>2, <2>4, <2>9, <2>12 DEF Freed
    <2>14. OnceCleared(r, o, w) \in Queues(E)
      BY <2>8, <2>11, <2>12 DEF OnceCleared
    <2>15. QueuesInv'
      BY <1>0, <1>1, <2>2, <2>13, <2>14, QueuesSet
    <2> QED
      BY <2>7, <2>15 DEF LoopInv
  <1> QED
    BY <1>12, <1>13

\* A phase of ev_run goes on with queues that are still right.
LEMMA PhaseKeeps ==
  ASSUME LoopInv, NEW q \in Queues(Freed), NEW ph, GoesOn(ph, q)
  PROVE  LoopInv'
  <1>1. UNCHANGED <<arrays, active, activecnt, armed>> /\ SetQ(q) /\ pendingpri' = NumPri - 1
    BY DEF GoesOn
  <1>2. NumPri - 1 \in Pris
    BY EvLoopAssumption DEF Pris
  <1>3. Freed = Freed'
    BY <1>1 DEF Freed
  <1>4. QueuesInv'
    BY <1>1, <1>2, <1>3, QueuesSet
  <1> QED
    BY <1>1, <1>4 DEF LoopInv, ListsInv, OnceInv, CountInv, Alive, Ref

\* The invariant is inductive.
LEMMA LoopStep ==
  ASSUME LoopInv, [EvLoopNext]_evVars
  PROVE  LoopInv'
  <1>0. Q \in Queues(Freed) /\ ListsInv /\ OnceInv
    BY DEF LoopInv, QueuesInv
  <1>1. ASSUME UNCHANGED <<arrays, active, pendings, pending, activecnt, owed, armed>>, pendingpri' \in Pris
        PROVE  LoopInv'
    BY <1>1 DEF LoopInv, QueuesInv, Q, Queues, Agree, Freed, Pris, ListsInv, OnceInv, CountInv, Alive, Ref
  <1>2. pendingpri \in Pris /\ NumPri - 1 \in Pris
    BY EvLoopAssumption DEF LoopInv, QueuesInv, Pris
  <1>3. \A k, p : FeedAll(Q, Array(k, p)) \in Queues(Freed)
    BY <1>0, ArrayFed, FeedAllKeeps
  <1>4. CASE Call
    BY <1>4, CallKeeps
  <1>5. CASE Return
    BY <1>1, <1>2, <1>5 DEF Return
  <1>6. CASE Descend
    BY <1>1, <1>2, <1>6 DEF Descend, Pris
  <1>7. CASE Run
    BY <1>0, <1>7, PhaseKeeps DEF Run
  <1>8. CASE LoopIterate
    <2>1. (IF postfork THEN FeedAll(Q, Array("fork", 0)) ELSE Q) \in Queues(Freed)
      BY <1>0, <1>3
    <2> QED
      BY <1>8, <2>1, PhaseKeeps DEF LoopIterate
  <1>9. CASE LoopPrepare
    BY <1>3, <1>9, PhaseKeeps DEF LoopPrepare
  <1>10. CASE Collect
    <2>0. PICK ready \in SUBSET {w \in Sources : active[w] # 0} :
            \E order \in [1 .. Cardinality(ready) -> ready] :
               GoesOn("collected", FeedAll(IdleReify(FeedAll(Q, order)), Array("check", 0)))
      BY <1>10 DEF Collect
    <2>1. PICK order \in [1 .. Cardinality(ready) -> ready] :
            GoesOn("collected", FeedAll(IdleReify(FeedAll(Q, order)), Array("check", 0)))
      BY <2>0
    <2>2. FeedAll(Q, order) \in Queues(Freed)
      BY <1>0, ReadyFed, FeedAllKeeps
    <2>3. IdleReify(FeedAll(Q, order)) \in Queues(Freed)
      BY <1>0, <2>2, IdleKeeps
    <2>4. FeedAll(IdleReify(FeedAll(Q, order)), Array("check", 0)) \in Queues(Freed)
      BY <1>0, <2>3, ArrayFed, FeedAllKeeps
    <2> QED
      BY <2>1, <2>4, PhaseKeeps
  <1>11. CASE LoopLeave
    BY <1>0, <1>11, PhaseKeeps DEF LoopLeave
  <1>12. CASE Destroy
    BY <1>3, <1>12, PhaseKeeps DEF Destroy
  <1>13. CASE Free
    BY <1>0, <1>13, PhaseKeeps DEF Free
  <1>14. CASE Forked
    BY <1>1, <1>2, <1>14 DEF Forked
  <1>15. ASSUME NEW w \in LoopWatchers, LoopStart(w) PROVE LoopInv'
    BY <1>15, StartKeeps
  <1>16. ASSUME NEW w \in LoopWatchers, LoopStop(w) PROVE LoopInv'
    BY <1>16, StopKeeps
  <1>17. ASSUME NEW w \in LoopWatchers, FeedEvent(w) PROVE LoopInv'
    <2>1. /\ w \notin OnceWatchers /\ SetQ(Feed(Q, w)) /\ pendingpri' = NumPri - 1
          /\ UNCHANGED <<arrays, active, activecnt, armed>>
      BY <1>17 DEF FeedEvent
    <2>2. w \notin Freed
      BY <1>0, <2>1, FreedFacts
    <2>3. Feed(Q, w) \in Queues(Freed)
      BY <1>0, <2>2, FeedKeeps
    <2>4. Freed = Freed'
      BY <2>1 DEF Freed
    <2>5. QueuesInv'
      BY <1>2, <2>1, <2>3, <2>4, QueuesSet
    <2> QED
      BY <2>1, <2>5 DEF LoopInv, ListsInv, OnceInv, CountInv, Alive, Ref
  <1>18. ASSUME NEW how, Break(how) PROVE LoopInv'
    BY <1>1, <1>2, <1>18 DEF Break
  <1>19. ASSUME NEW o \in Onces, Once(o) PROVE LoopInv'
    BY <1>19, OnceKeeps
  <1>20. CASE UNCHANGED evVars
    BY <1>1, <1>2, <1>20 DEF evVars
  <1> QED
    BY <1>4, <1>5, <1>6, <1>7, <1>8, <1>9, <1>10, <1>11, <1>12, <1>13, <1>14, <1>15, <1>16, <1>17,
       <1>18, <1>19, <1>20 DEF EvLoopNext

\* It holds at first: nothing is started, armed or pending.
LEMMA LoopFirst ==
  ASSUME EvLoopInit
  PROVE  LoopInv
  <1>1. QueuesInv
    <2>1. pendings = [p \in Pris |-> <<>>] /\ pending = [w \in LoopWatchers |-> 0] /\ owed = {}
      BY DEF EvLoopInit, Pris
    <2>2. pendings \in [Pris -> Seq(Entries)] /\ pending \in [LoopWatchers -> Nat]
      BY <2>1
    <2>3. Freed \subseteq LoopWatchers
      BY OnceFacts DEF Freed
    <2>4. Agree(Q)
      BY <2>1 DEF Agree, Q
    <2>5. Q \in Queues(Freed)
      BY <2>1, <2>2, <2>3, <2>4 DEF Queues, Q
    <2> QED
      BY <2>5, EvLoopAssumption DEF QueuesInv, EvLoopInit, Pris
  <1>2. ListsInv
    <2>1. \A w \in Listed : w \in LoopWatchers
      BY ListedFacts
    <2> QED
      BY <2>1 DEF ListsInv, EvLoopInit
  <1>3. OnceInv
    BY OnceFacts DEF OnceInv, EvLoopInit
  <1>4. CountInv
    <2>1. Alive = {}
      BY DEF Alive, EvLoopInit
    <2> QED
      BY <2>1, FS_EmptySet DEF CountInv, EvLoopInit
  <1> QED
    BY <1>1, <1>2, <1>3, <1>4 DEF LoopInv

\* What the run checks follows from it.
LEMMA LoopMeans ==
  ASSUME LoopInv
  PROVE  LoopRight
  <1>1. /\ Agree(Q) /\ pendings \in [Pris -> Seq(Entries)] /\ pending \in [LoopWatchers -> Nat]
        /\ \A w \in Freed : pending[w] = 0
    BY QueueParts DEF LoopInv, QueuesInv, Q
  <1>2. /\ \A w \in LoopWatchers : pending[w] > 0 =>
             pending[w] \in 1 .. Len(pendings[PriOf[w]]) /\ pendings[PriOf[w]][pending[w]] = w
        /\ \A p \in Pris : \A i \in 1 .. Len(pendings[p]) : pendings[p][i] \in LoopWatchers =>
             PriOf[pendings[p][i]] = p /\ pending[pendings[p][i]] = i
        /\ \A w \in LoopWatchers : (pending[w] > 0) <=> (w \in owed)
    BY <1>1 DEF Agree, Q
  <1>3. \A w \in LoopWatchers : PriOf[w] \in Pris
    BY EvLoopAssumption DEF Pris
  <1>4. \A p \in Pris : DOMAIN pendings[p] = 1 .. Len(pendings[p])
    BY <1>1
  <1>5. LoopSound
    <2>1. \A a \in Arrays : \A i \in DOMAIN arrays[a] : active[arrays[a][i]] = i
      <3>1. \A a \in Arrays : DOMAIN arrays[a] = 1 .. Len(arrays[a])
        BY DEF LoopInv, ListsInv
      <3> QED
        BY <3>1 DEF LoopInv, ListsInv
    <2>2. \A w \in LoopWatchers : pending[w] > 0 =>
            pending[w] \in DOMAIN pendings[PriOf[w]] /\ pendings[PriOf[w]][pending[w]] = w
      BY <1>2, <1>3, <1>4
    <2>3. activecnt = Cardinality({w \in LoopWatchers : active[w] # 0 /\ Ref(w) = 1})
      BY DEF LoopInv, CountInv, Alive
    <2> QED
      BY <2>1, <2>2, <2>3 DEF LoopSound
  <1>6. PendingOwed
    <2>1. ASSUME NEW w \in LoopWatchers, NEW p \in DOMAIN pendings
          PROVE  Cardinality({i \in DOMAIN pendings[p] : pendings[p][i] = w})
                   = (IF w \in owed /\ p = PriOf[w] THEN 1 ELSE 0)
      <3>1. p \in Pris
        BY <1>1
      <3>2. CASE w \in owed /\ p = PriOf[w]
        <4>1. {i \in DOMAIN pendings[p] : pendings[p][i] = w} = {pending[w]}
          BY <1>2, <1>4, <3>1, <3>2
        <4> QED
          BY <3>2, <4>1, FS_Singleton
      <3>3. CASE ~(w \in owed /\ p = PriOf[w])
        <4>1. {i \in DOMAIN pendings[p] : pendings[p][i] = w} = {}
          BY <1>1, <1>2, <1>4, <3>1, <3>3
        <4> QED
          BY <3>3, <4>1, FS_EmptySet
      <3> QED
        BY <3>2, <3>3
    <2> QED
      BY <1>2, <2>1 DEF PendingOwed
  <1>7. OnceCalledOnce
    BY <1>1 DEF OnceCalledOnce, Freed
  <1> QED
    BY <1>5, <1>6, <1>7 DEF LoopRight

\* Callbacks of libev that start, stop and feed watchers, and ev_once objects that free
\* themselves, in the middle of ev_invoke_pending leave the arrays, the pending queues
\* and activecnt right: no event is lost, doubled or kept for a watcher that is stopped
\* or freed.  For any watchers, priorities and lists.
THEOREM LoopIsRight == EvLoopSpec => []LoopRight
  <1>1. EvLoopInit => LoopInv
    BY LoopFirst
  <1>2. LoopInv /\ [EvLoopNext]_evVars => LoopInv'
    BY LoopStep
  <1>3. LoopInv => LoopRight
    BY LoopMeans
  <1> QED
    BY <1>1, <1>2, <1>3, PTL DEF EvLoopSpec

(***************************************************************************)
(* Part 2: wake-up from threads and signals.                               *)
(***************************************************************************)

WakeKinds == {"async", "sig"}
LoopPlaces == {"top", "look", "poll", "unwant", "skips", "read", "clear", "sig", "clearsig", "scansig",
               "async", "clearasync", "scanasync", "invoke"}
SenderPlaces == {"idle", "found", "raised", "unseen", "flagged", "skipping", "wanted", "writing"}

WakeTypeOK ==
  /\ wanted \in BOOLEAN /\ outgoing \subseteq WakeSources \cup {"pipe_write_wanted"} /\ skipped \in BOOLEAN
  /\ block \in BOOLEAN /\ wakeGot \in BOOLEAN
  /\ flag \in [WakeKinds -> BOOLEAN]
  /\ raised \in [WakeSources -> BOOLEAN]
  /\ pipe \in Nat
  /\ lpc \in LoopPlaces
  /\ unscanned \subseteq WakeSources /\ fed \subseteq WakeSources /\ live \subseteq WakeSources
  /\ leftover \subseteq WakeSources
  /\ spc \in [WakeSources -> SenderPlaces]
  /\ sends \in [WakeSources -> Nat] /\ calls \in [WakeSources -> Nat]

\* From the fenced store to the one after the backend has returned, senders see that a
\* write is wanted, and all the loop thread stored before.
WantedSeen == lpc \in {"look", "poll", "unwant"} => wanted /\ outgoing = {}

\* The loop decided to sleep when no write had been skipped: who skips one now has still
\* to find out that it is wanted.
SkipIsTakenBack ==
  lpc = "poll" /\ block /\ skipped => \E s \in WakeSources : spc[s] \in {"skipping", "wanted"}

\* Where the loop has still to look at the flag of a kind before it may sleep.
Before(k) == IF k = "sig" THEN {"clear", "sig", "clearsig"}
             ELSE {"clear", "sig", "clearsig", "scansig", "async", "clearasync"}

\* A flag that is set is followed by a wake-up.
FlagIsFollowed ==
  \A k \in WakeKinds : flag[k] =>
    \/ \E s \in WakeSources : spc[s] \in {"flagged", "writing"}
    \/ skipped
    \/ pipe > 0
    \/ lpc \in Before(k)

\* A source that is raised, and not lowered by a store on its way, has a sender that has
\* still to see to its flag, or the flag set, or the loop is about to look at it.  Only
\* pipecb leaves some alone: signals, and asyncs, whose watcher is stopped.
RaisedIsFlagged ==
  \A s \in WakeSources : raised[s] /\ s \notin outgoing =>
    \/ spc[s] \in {"raised", "unseen"}
    \/ flag[Kind(s)]
    \/ lpc = ScanOf(Kind(s)) /\ s \in unscanned
    \/ s \in leftover
    \/ s \in Asyncs \ live

\* Calls made, events pending and sources raised come from different sends.
SendsCounted ==
  \A s \in WakeSources :
    calls[s] + (IF s \in fed THEN 1 ELSE 0) + (IF raised[s] /\ s \notin outgoing THEN 1 ELSE 0) <= sends[s]

\* No store on its way lowers a source that is still to be looked at.
TodoFresh == lpc \in {"scansig", "scanasync"} => unscanned \cap outgoing = {}

WakeInv == /\ WakeTypeOK /\ WantedSeen /\ SkipIsTakenBack /\ FlagIsFollowed
           /\ RaisedIsFlagged /\ SendsCounted /\ TodoFresh

-----------------------------------------------------------------------------
\* A source is of one of the two kinds.
LEMMA KindType == \A s \in WakeSources : Kind(s) \in WakeKinds /\ (s \in Asyncs <=> Kind(s) = "async")
  BY EvWakeAssumption DEF WakeSources, Kind, WakeKinds

\* ev_loop_new leaves the loop in a state that satisfies the invariant.
LEMMA WakeInitInv == EvWakeInit => WakeInv
  <1> SUFFICES ASSUME EvWakeInit PROVE WakeInv
    OBVIOUS
  <1> USE DEF EvWakeInit
  <1>1. WakeTypeOK
    BY DEF WakeTypeOK, WakeKinds, LoopPlaces, SenderPlaces
  <1>2. WantedSeen /\ SkipIsTakenBack
    BY DEF WantedSeen, SkipIsTakenBack
  <1>3. FlagIsFollowed /\ RaisedIsFlagged
    BY DEF FlagIsFollowed, RaisedIsFlagged, WakeKinds
  <1>4. SendsCounted /\ TodoFresh
    BY DEF SendsCounted, TodoFresh
  <1> QED
    BY <1>1, <1>2, <1>3, <1>4 DEF WakeInv

\* The invariant says what is wanted of the loop.
LEMMA WakeInvSound == WakeInv => WakeSound
  <1> SUFFICES ASSUME WakeInv PROVE NoSleepOverSend /\ CallsNotInvented
    BY DEF WakeSound
  <1>1. NoSleepOverSend
    <2> SUFFICES ASSUME lpc = "poll", block, pipe = 0, \A s \in WakeSources : spc[s] = "idle",
                        NEW s \in live, raised[s]
                 PROVE  s \in leftover
      BY DEF NoSleepOverSend, Asleep
    <2>1. ~skipped
      BY DEF WakeInv, SkipIsTakenBack
    <2>2. \A k \in WakeKinds : ~flag[k]
      BY <2>1 DEF WakeInv, FlagIsFollowed, WakeKinds, Before
    <2>3. s \in WakeSources /\ spc[s] = "idle" /\ Kind(s) \in WakeKinds
      BY KindType DEF WakeInv, WakeTypeOK
    <2>4. s \notin outgoing
      BY DEF WakeInv, WantedSeen
    <2>5. lpc # ScanOf(Kind(s))
      BY DEF ScanOf
    <2> QED
      BY <2>2, <2>3, <2>4, <2>5 DEF WakeInv, RaisedIsFlagged
  <1>2. CallsNotInvented
    BY DEF WakeInv, SendsCounted, CallsNotInvented, WakeTypeOK
  <1> QED
    BY <1>1, <1>2

-----------------------------------------------------------------------------
(***************************************************************************)
(* The senders.                                                            *)
(***************************************************************************)

\* A source is raised: its sender has still to look at the flag.
LEMMA RaiseStep == ASSUME WakeInv, NEW s \in WakeSources, SignalFind(s) \/ Raise(s) PROVE WakeInv'
  <1> USE DEF SignalFind, Raise, SenderAt, loopVars, WakeInv
  <1>1. WakeTypeOK'
    <2>1. CASE SignalFind(s)
      BY <2>1 DEF WakeTypeOK, SenderPlaces
    <2>2. CASE Raise(s)
      BY <2>2 DEF WakeTypeOK, SenderPlaces
    <2> QED
      BY <2>1, <2>2
  <1>2. WantedSeen' /\ SkipIsTakenBack' /\ FlagIsFollowed'
    BY DEF WakeTypeOK, WantedSeen, SkipIsTakenBack, FlagIsFollowed
  <1>3. RaisedIsFlagged'
    <2>1. CASE SignalFind(s)
      BY <2>1 DEF WakeTypeOK, RaisedIsFlagged
    <2>2. CASE Raise(s)
      BY <2>2 DEF WakeTypeOK, RaisedIsFlagged
    <2> QED
      BY <2>1, <2>2
  <1>4. SendsCounted' /\ TodoFresh'
    BY DEF WakeTypeOK, SendsCounted, TodoFresh
  <1> QED
    BY <1>1, <1>2, <1>3, <1>4

\* evpipe_write, as far as the flag.
LEMMA SenderFlagStep ==
  ASSUME WakeInv, NEW s \in WakeSources, SendSeen(s) \/ SendUnseen(s) \/ SendFlag(s) PROVE WakeInv'
  <1> USE DEF SendSeen, SendUnseen, SendFlag, SenderAt, loopVars, WakeInv
  <1>1. WakeTypeOK'
    <2>1. CASE SendSeen(s) \/ SendUnseen(s)
      BY <2>1 DEF WakeTypeOK, SenderPlaces
    <2>2. CASE SendFlag(s)
      BY <2>2, KindType DEF WakeTypeOK, SenderPlaces
    <2> QED
      BY <2>1, <2>2
  <1>2. WantedSeen' /\ SkipIsTakenBack' /\ SendsCounted' /\ TodoFresh'
    BY DEF WakeTypeOK, WantedSeen, SkipIsTakenBack, SendsCounted, TodoFresh
  <1>3. FlagIsFollowed'
    <2>1. CASE SendSeen(s) \/ SendUnseen(s)
      BY <2>1 DEF WakeTypeOK, FlagIsFollowed
    <2>2. CASE SendFlag(s)
      BY <2>2 DEF WakeTypeOK, FlagIsFollowed
    <2> QED
      BY <2>1, <2>2
  <1>4. RaisedIsFlagged'
    <2>1. CASE SendSeen(s) \/ SendUnseen(s)
      BY <2>1 DEF WakeTypeOK, RaisedIsFlagged
    <2>2. CASE SendFlag(s)
      BY <2>2, KindType DEF WakeTypeOK, RaisedIsFlagged, WakeKinds
    <2> QED
      BY <2>1, <2>2
  <1> QED
    BY <1>1, <1>2, <1>3, <1>4

\* evpipe_write, from pipe_write_skipped to the write.
LEMMA SenderWriteStep ==
  ASSUME WakeInv, NEW s \in WakeSources,
         SendSkip(s) \/ SendNotWanted(s) \/ SendWanted(s) \/ SendUnskip(s) \/ SendWrite(s)
  PROVE  WakeInv'
  <1> USE DEF SendSkip, SendNotWanted, SendWanted, SendUnskip, SendWrite, SenderAt, loopVars, WakeInv
  <1>1. WakeTypeOK'
    <2>1. CASE SendSkip(s)
      BY <2>1 DEF WakeTypeOK, SenderPlaces
    <2>2. CASE SendNotWanted(s) \/ SendWanted(s)
      BY <2>2 DEF WakeTypeOK, SenderPlaces
    <2>3. CASE SendUnskip(s)
      BY <2>3 DEF WakeTypeOK, SenderPlaces
    <2>4. CASE SendWrite(s)
      BY <2>4 DEF WakeTypeOK, SenderPlaces
    <2> QED
      BY <2>1, <2>2, <2>3, <2>4
  <1>2. WantedSeen' /\ SendsCounted' /\ TodoFresh'
    BY DEF WakeTypeOK, WantedSeen, SendsCounted, TodoFresh
  <1>3. SkipIsTakenBack'
    BY DEF WakeTypeOK, SkipIsTakenBack, WantedSeen
  <1>4. FlagIsFollowed'
    BY DEF WakeTypeOK, FlagIsFollowed
  <1>5. RaisedIsFlagged'
    BY DEF WakeTypeOK, RaisedIsFlagged, WakeSources
  <1> QED
    BY <1>1, <1>2, <1>3, <1>4, <1>5

-----------------------------------------------------------------------------
(***************************************************************************)
(* The loop thread.                                                        *)
(***************************************************************************)

\* A store that reaches the other threads is one of pipe_write_wanted, or lowers a source.
LEMMA DrainStep == ASSUME WakeInv, Drain PROVE WakeInv'
  <1> USE DEF WakeInv
  <1>1. PICK x \in outgoing : /\ outgoing' = outgoing \ {x}
                              /\ wanted' = (wanted /\ x # "pipe_write_wanted")
                              /\ raised' = [s \in WakeSources |-> raised[s] /\ s # x]
    BY DEF Drain
  <1>2. UNCHANGED <<skipped, flag, pipe, lpc, block, wakeGot, unscanned, fed, live, calls, spc, sends, leftover>>
    BY DEF Drain, sendVars
  <1>3. raised' \in [WakeSources -> BOOLEAN] /\ wanted' \in BOOLEAN
    <2>1. (wanted /\ x # "pipe_write_wanted") \in BOOLEAN /\ \A s \in WakeSources : (raised[s] /\ s # x) \in BOOLEAN
      OBVIOUS
    <2> QED
      BY ONLY <1>1, <2>1
  <1>4. \A s \in WakeSources : raised'[s] /\ s \notin outgoing' => raised[s] /\ s \notin outgoing
    BY <1>1
  <1>5. WakeTypeOK'
    BY <1>1, <1>2, <1>3 DEF WakeTypeOK
  <1>6. WantedSeen' /\ SkipIsTakenBack' /\ FlagIsFollowed'
    BY <1>1, <1>2 DEF WantedSeen, SkipIsTakenBack, FlagIsFollowed
  <1>7. RaisedIsFlagged'
    BY <1>2, <1>4 DEF RaisedIsFlagged
  <1>8. SendsCounted' /\ TodoFresh'
    BY <1>1, <1>2, <1>4 DEF WakeTypeOK, SendsCounted, TodoFresh
  <1> QED
    BY <1>5, <1>6, <1>7, <1>8

\* After a fence nothing is on its way, and no source is raised that was not before.
LEMMA FenceIs ==
  ASSUME WakeInv, NEW w \in BOOLEAN, Fence(w)
  PROVE  /\ outgoing' = {} /\ wanted' = w /\ raised' \in [WakeSources -> BOOLEAN]
         /\ \A s \in WakeSources : raised'[s] => raised[s] /\ s \notin outgoing
  <1>1. /\ outgoing' = {} /\ wanted' = w
        /\ raised' = [s \in WakeSources |-> raised[s] /\ s \notin outgoing]
    BY DEF Fence
  <1>2. \A s \in WakeSources : (raised[s] /\ s \notin outgoing) \in BOOLEAN
    OBVIOUS
  <1>3. raised' \in [WakeSources -> BOOLEAN]
    BY ONLY <1>1, <1>2
  <1> QED
    BY <1>1, <1>3

\* pipe_write_wanted = 1 at the top of an iteration, pipe_write_skipped = 0 in pipecb.
LEMMA FencedStep == ASSUME WakeInv, Want \/ WakeClear PROVE WakeInv'
  <1> USE DEF WakeInv
  <1>1. /\ outgoing' = {} /\ raised' \in [WakeSources -> BOOLEAN] /\ wanted' \in BOOLEAN
        /\ \A s \in WakeSources : raised'[s] => raised[s] /\ s \notin outgoing
        /\ UNCHANGED <<flag, pipe, block, wakeGot, unscanned, fed, live, calls, spc, sends, leftover>>
    <2>1. CASE Want
      BY <2>1, FenceIs DEF Want, sendVars
    <2>2. CASE WakeClear
      BY <2>2, FenceIs DEF WakeClear, sendVars
    <2> QED
      BY <2>1, <2>2
  <1>2. \/ lpc = "top" /\ lpc' = "look" /\ skipped' = skipped /\ wanted'
        \/ lpc = "clear" /\ lpc' = "sig" /\ skipped' = FALSE
    <2>1. CASE Want
      BY <2>1, FenceIs DEF Want, LoopAt
    <2>2. CASE WakeClear
      BY <2>2 DEF WakeClear, LoopAt
    <2> QED
      BY <2>1, <2>2
  <1>3. WakeTypeOK'
    BY <1>1, <1>2 DEF WakeTypeOK, LoopPlaces
  <1>4. WantedSeen' /\ SkipIsTakenBack'
    BY <1>1, <1>2 DEF WantedSeen, SkipIsTakenBack
  <1>5. FlagIsFollowed'
    BY <1>1, <1>2 DEF FlagIsFollowed, WakeKinds, Before
  <1>6. RaisedIsFlagged'
    BY <1>1, <1>2 DEF RaisedIsFlagged, ScanOf
  <1>7. SendsCounted' /\ TodoFresh'
    BY <1>1 DEF WakeTypeOK, SendsCounted, TodoFresh
  <1> QED
    BY <1>3, <1>4, <1>5, <1>6, <1>7

\* From the decision to sleep to the read of the wake-up descriptor.
LEMMA PollStep ==
  ASSUME WakeInv, Look \/ WakePoll \/ PollOther \/ Unwant \/ Skips \/ Read
  PROVE  WakeInv'
  <1> USE DEF Look, WakePoll, PollOther, Unwant, Skips, Read, LoopAt, sendVars, WakeInv
  <1>1. WakeTypeOK'
    <2>1. CASE Look
      BY <2>1 DEF WakeTypeOK, LoopPlaces
    <2>2. CASE WakePoll
      <3>1. wakeGot' \in BOOLEAN
        <4>1. wakeGot' = (pipe > 0)
          BY <2>2
        <4>2. (pipe > 0) \in BOOLEAN
          OBVIOUS
        <4> QED
          BY ONLY <4>1, <4>2
      <3> QED
        BY <2>2, <3>1 DEF WakeTypeOK, LoopPlaces
    <2>3. CASE PollOther
      BY <2>3 DEF WakeTypeOK, LoopPlaces
    <2>4. CASE Unwant
      BY <2>4 DEF WakeTypeOK, LoopPlaces
    <2>5. CASE Skips
      BY <2>5 DEF WakeTypeOK, LoopPlaces
    <2>6. CASE Read
      BY <2>6 DEF WakeTypeOK, LoopPlaces
    <2> QED
      BY <2>1, <2>2, <2>3, <2>4, <2>5, <2>6
  <1>2. WantedSeen'
    BY DEF WakeTypeOK, WantedSeen
  <1>3. SkipIsTakenBack'
    BY DEF WakeTypeOK, SkipIsTakenBack
  <1>4. FlagIsFollowed'
    BY DEF WakeTypeOK, FlagIsFollowed, WakeKinds, Before
  <1>5. RaisedIsFlagged' /\ SendsCounted' /\ TodoFresh'
    BY DEF WakeTypeOK, RaisedIsFlagged, SendsCounted, ScanOf, TodoFresh
  <1> QED
    BY <1>1, <1>2, <1>3, <1>4, <1>5

\* pipecb looks at a flag.
LEMMA CollectStep ==
  ASSUME WakeInv, WakeCollect("sig", "async") \/ WakeCollect("async", "invoke")
  PROVE  WakeInv'
  <1> USE DEF WakeCollect, LoopAt, ClearOf, sendVars, WakeInv
  <1>1. WakeTypeOK'
    BY DEF WakeTypeOK, LoopPlaces, WakeKinds
  <1>2. WantedSeen' /\ SkipIsTakenBack'
    BY DEF WakeTypeOK, WantedSeen, SkipIsTakenBack
  <1>3. FlagIsFollowed'
    BY DEF WakeTypeOK, FlagIsFollowed, WakeKinds, Before
  <1>4. RaisedIsFlagged' /\ SendsCounted' /\ TodoFresh'
    BY DEF RaisedIsFlagged, SendsCounted, ScanOf, TodoFresh
  <1> QED
    BY <1>1, <1>2, <1>3, <1>4

\* It clears the flag, with a fence, and is to look at every source of the kind that is
\* raised and may be collected.
LEMMA ClearStep == ASSUME WakeInv, NEW k \in WakeKinds, FlagClear(k) PROVE WakeInv'
  <1> USE DEF WakeInv
  <1>1. /\ lpc = ClearOf(k) /\ lpc' = ScanOf(k) /\ flag' = [flag EXCEPT ![k] = FALSE]
        /\ unscanned' = {s \in WakeSources : Kind(s) = k /\ s \in live \cup Signals}
        /\ UNCHANGED <<skipped, pipe, block, wakeGot, fed, live, calls, spc, sends, leftover>>
    BY DEF FlagClear, LoopAt, sendVars
  <1>2. /\ outgoing' = {} /\ raised' \in [WakeSources -> BOOLEAN] /\ wanted' = wanted
        /\ \A s \in WakeSources : raised'[s] => raised[s] /\ s \notin outgoing
    BY FenceIs DEF FlagClear, WakeTypeOK
  <1>3. WakeTypeOK'
    BY <1>1, <1>2 DEF WakeTypeOK, LoopPlaces, WakeKinds, ScanOf
  <1>4. WantedSeen' /\ SkipIsTakenBack'
    BY <1>1 DEF WantedSeen, SkipIsTakenBack, ScanOf
  <1>5. FlagIsFollowed'
    BY <1>1 DEF WakeTypeOK, FlagIsFollowed, WakeKinds, Before, ScanOf, ClearOf
  <1>6. RaisedIsFlagged'
    <2> SUFFICES ASSUME NEW s \in WakeSources, raised'[s], s \notin outgoing'
                 PROVE  \/ spc'[s] \in {"raised", "unseen"}
                        \/ flag'[Kind(s)]
                        \/ lpc' = ScanOf(Kind(s)) /\ s \in unscanned'
                        \/ s \in leftover'
                        \/ s \in Asyncs \ live'
      BY DEF RaisedIsFlagged
    <2>1. raised[s] /\ s \notin outgoing
      BY <1>2
    <2>2. CASE Kind(s) = k
      BY <1>1, <2>2, KindType DEF WakeSources
    <2>3. CASE Kind(s) # k
      <3>1. lpc # ScanOf(Kind(s))
        BY <1>1 DEF ScanOf, ClearOf
      <3>2. flag'[Kind(s)] = flag[Kind(s)]
        BY <1>1, <2>3, KindType DEF WakeTypeOK
      <3> QED
        BY <1>1, <2>1, <3>1, <3>2 DEF RaisedIsFlagged
    <2> QED
      BY <2>2, <2>3
  <1>7. SendsCounted' /\ TodoFresh'
    BY <1>1, <1>2 DEF WakeTypeOK, SendsCounted, TodoFresh
  <1> QED
    BY <1>3, <1>4, <1>5, <1>6, <1>7

\* It lowers a source and feeds its watcher, or is through with the kind.
LEMMA ScanStep ==
  ASSUME WakeInv, Scan("sig", "async") \/ Scan("async", "invoke")
  PROVE  WakeInv'
  <1> USE DEF Scan, ScanOf, sendVars, WakeInv
  <1>1. WakeTypeOK'
    BY DEF WakeTypeOK, LoopPlaces
  <1>2. WantedSeen' /\ SkipIsTakenBack'
    BY DEF WakeTypeOK, WantedSeen, SkipIsTakenBack
  <1>3. FlagIsFollowed'
    BY DEF WakeTypeOK, FlagIsFollowed, WakeKinds, Before
  <1>4. RaisedIsFlagged'
    BY DEF WakeTypeOK, RaisedIsFlagged
  <1>5. SendsCounted'
    <2>1. CASE unscanned = {}
      BY <2>1 DEF SendsCounted
    <2>2. CASE unscanned # {}
      <3>1. PICK s \in unscanned :
              /\ outgoing' = IF raised[s] /\ s \in live THEN outgoing \cup {s} ELSE outgoing
              /\ fed' = IF raised[s] /\ s \in live THEN fed \cup {s} ELSE fed
              /\ UNCHANGED <<raised, calls, sends>>
        BY <2>2
      <3>2. s \notin outgoing
        BY <2>2, <3>1 DEF TodoFresh
      <3> QED
        BY <3>1, <3>2 DEF WakeTypeOK, SendsCounted
    <2> QED
      BY <2>1, <2>2
  <1>6. TodoFresh'
    BY DEF TodoFresh
  <1> QED
    BY <1>1, <1>2, <1>3, <1>4, <1>5, <1>6

\* Callbacks are called, and stop and start watchers.
LEMMA InvokeStep ==
  ASSUME WakeInv, WakeInvoke \/ WakeIterate \/ \E s \in WakeSources : WakeStop(s) \/ WakeStart(s)
  PROVE  WakeInv'
  <1> USE DEF WakeInvoke, WakeIterate, WakeStop, WakeStart, LoopAt, sendVars, WakeInv
  <1>1. WakeTypeOK'
    <2>1. CASE WakeInvoke
      BY <2>1 DEF WakeTypeOK, LoopPlaces
    <2>2. CASE WakeIterate
      BY <2>2 DEF WakeTypeOK, LoopPlaces
    <2>3. CASE \E s \in WakeSources : WakeStop(s)
      BY <2>3 DEF WakeTypeOK, LoopPlaces
    <2>4. CASE \E s \in WakeSources : WakeStart(s)
      BY <2>4 DEF WakeTypeOK, LoopPlaces
    <2> QED
      BY <2>1, <2>2, <2>3, <2>4
  <1>2. WantedSeen' /\ SkipIsTakenBack'
    BY DEF WakeTypeOK, WantedSeen, SkipIsTakenBack
  <1>3. FlagIsFollowed'
    BY DEF WakeTypeOK, FlagIsFollowed, WakeKinds, Before
  <1>4. RaisedIsFlagged'
    BY DEF WakeTypeOK, RaisedIsFlagged, ScanOf
  <1>5. SendsCounted' /\ TodoFresh'
    BY DEF WakeTypeOK, SendsCounted, TodoFresh
  <1> QED
    BY <1>1, <1>2, <1>3, <1>4, <1>5

\* Every step of the loop thread and of the senders keeps the invariant.
LEMMA WakeStep == WakeInv /\ [EvWakeNext]_wakeVars => WakeInv'
  <1> SUFFICES ASSUME WakeInv, [EvWakeNext]_wakeVars PROVE WakeInv'
    OBVIOUS
  <1>1. CASE UNCHANGED wakeVars
    BY <1>1 DEF wakeVars, WakeInv, WakeTypeOK, WantedSeen, SkipIsTakenBack, FlagIsFollowed,
                RaisedIsFlagged, SendsCounted, TodoFresh, loopVars, sendVars
  <1>2. CASE EvWakeNext
    <2>1. "sig" \in WakeKinds /\ "async" \in WakeKinds
      BY DEF WakeKinds
    <2> QED
      BY <1>2, <2>1, RaiseStep, SenderFlagStep, SenderWriteStep, DrainStep, FencedStep, PollStep, CollectStep,
         ClearStep, ScanStep, InvokeStep DEF EvWakeNext, LoopThread, Sender
  <1> QED
    BY <1>1, <1>2

\* Whatever the senders and the loop thread do between any two accesses to what they
\* share, and however long a store the code does not fence is on its way, the loop does
\* not sleep while an active watcher, async or signal, was sent something that pipecb has
\* not collected, but for a signal it passed over while the watcher was stopped; and no
\* callback is made up (evpipe_write, pipecb, ev_run).
THEOREM WakeIsSound == EvWakeSpec => []WakeSound
  BY WakeInitInv, WakeStep, WakeInvSound, PTL DEF EvWakeSpec

(***************************************************************************)
(* Part 3: timers.  First the heap: positions and their parents.           *)
(***************************************************************************)
LEMMA ParentIs ==
  ASSUME NEW i \in Nat, i >= 2
  PROVE  Parent(i) \in Nat /\ Parent(i) >= 1 /\ Parent(i) < i
  BY DHEAPAssumption DEF Parent

\* The children of k are the positions whose parent it is.
LEMMA ChildrenAre ==
  ASSUME NEW n \in Nat, NEW k \in 1 .. n
  PROVE  /\ Children(k, n) \subseteq 2 .. n
         /\ \A i \in 2 .. n : i \in Children(k, n) <=> Parent(i) = k
  <1>1. ASSUME NEW i \in Children(k, n) PROVE i \in 2 .. n
    BY <1>1, DHEAPAssumption DEF Children
  <1>2. ASSUME NEW i \in 2 .. n PROVE i \in Children(k, n) <=> Parent(i) = k
    <2>1. CASE DHEAP = 2
      BY <2>1 DEF Children, Parent
    <2>2. CASE DHEAP = 4
      BY <2>2 DEF Children, Parent
    <2> QED
      BY <2>1, <2>2, DHEAPAssumption
  <1> QED
    BY <1>1, <1>2

\* The first of the smallest: there is one in every set of children.
Sooner(a, c, d) == a[c].at < a[d].at \/ (a[c].at = a[d].at /\ c <= d)
First(a, c, S) == c \in S /\ \A d \in S : Sooner(a, c, d)

\* A set with one more position still has a first.
LEMMA FirstOfMore ==
  ASSUME NEW a, NEW S, NEW d \in Int, a[d].at \in Int, \A i \in S : i \in Int /\ a[i].at \in Int
  PROVE  (S = {} \/ \E c \in S : First(a, c, S)) => \E c \in S \cup {d} : First(a, c, S \cup {d})
  <1>1. CASE S = {}
    BY <1>1 DEF First, Sooner
  <1>2. ASSUME NEW c \in S, First(a, c, S) PROVE \E b \in S \cup {d} : First(a, b, S \cup {d})
    <2>1. CASE Sooner(a, c, d)
      <3>1. First(a, c, S \cup {d})
        BY <1>2, <2>1 DEF First
      <3> QED
        BY <1>2, <3>1
    <2>2. CASE ~Sooner(a, c, d)
      <3>1. Sooner(a, d, d)
        BY DEF Sooner
      <3>2. ASSUME NEW b \in S PROVE Sooner(a, d, b)
        <4>1. Sooner(a, c, b)
          BY <1>2 DEF First
        <4> QED
          BY <2>2, <4>1 DEF Sooner
      <3>3. First(a, d, S \cup {d})
        BY <3>1, <3>2 DEF First
      <3> QED
        BY <3>3
    <2> QED
      BY <2>1, <2>2
  <1> QED
    BY <1>1, <1>2

\* downheap picks a child, and none of the children is before it.
LEMMA MinChildIs ==
  ASSUME NEW a, NEW n \in Nat, \A i \in 1 .. n : a[i].at \in Int,
         NEW k \in 1 .. n, Children(k, n) # {}
  PROVE  /\ MinChild(a, n, k) \in Children(k, n)
         /\ \A d \in Children(k, n) : a[MinChild(a, n, k)].at <= a[d].at
  <1> DEFINE lo == DHEAP * (k - 1) + 2
             hi(j) == (lo .. lo + j - 1) \cap (1 .. n)
             Has(j) == hi(j) = {} \/ \E c \in hi(j) : First(a, c, hi(j))
  <1>1. lo \in Nat /\ lo >= 2 /\ Children(k, n) = hi(DHEAP)
    BY DHEAPAssumption DEF Children
  <1> HIDE DEF lo
  <1>2. Has(0)
    BY <1>1
  <1>3. ASSUME NEW j \in Nat, Has(j) PROVE Has(j + 1)
    <2>1. CASE lo + j <= n
      <3>1. hi(j + 1) = hi(j) \cup {lo + j} /\ lo + j \in Int /\ lo + j \in 1 .. n
        BY <1>1, <2>1
      <3>2. \A i \in hi(j) : i \in Int /\ a[i].at \in Int
        OBVIOUS
      <3>3. a[lo + j].at \in Int
        BY <3>1
      <3> HIDE DEF hi
      <3>4. \E c \in hi(j) \cup {lo + j} : First(a, c, hi(j) \cup {lo + j})
        BY <1>3, <3>1, <3>2, <3>3, FirstOfMore
      <3> QED
        BY <3>1, <3>4
    <2>2. CASE ~(lo + j <= n)
      <3>1. hi(j + 1) = hi(j)
        BY <1>1, <2>2
      <3> HIDE DEF hi
      <3> QED
        BY <1>3, <3>1
    <2> QED
      BY <2>1, <2>2
  <1> HIDE DEF Has
  <1>4. Has(1) /\ Has(2) /\ Has(3) /\ Has(4)
    <2>1. Has(0 + 1)
      BY <1>2, <1>3
    <2>2. Has(0 + 1 + 1)
      BY <1>3, <2>1
    <2>3. Has(0 + 1 + 1 + 1)
      BY <1>3, <2>2
    <2>4. Has(0 + 1 + 1 + 1 + 1)
      BY <1>3, <2>3
    <2> QED
      BY <2>1, <2>2, <2>3, <2>4
  <1>5. Has(DHEAP)
    BY <1>4, DHEAPAssumption
  <1>6. PICK c \in Children(k, n) : First(a, c, Children(k, n))
    BY <1>1, <1>5 DEF Has
  <1>7. \A d \in Children(k, n) : a[c].at < a[d].at \/ (a[c].at = a[d].at /\ c <= d)
    BY <1>6 DEF First, Sooner
  <1>8. PICK m : m = MinChild(a, n, k)
    OBVIOUS
  <1>9. m \in Children(k, n) /\ \A d \in Children(k, n) : a[m].at < a[d].at \/ (a[m].at = a[d].at /\ m <= d)
    BY <1>6, <1>7, <1>8 DEF MinChild
  <1>10. \A d \in Children(k, n) : d \in 1 .. n
    BY ChildrenAre
  <1>11. \A d \in Children(k, n) : a[m].at <= a[d].at
    BY <1>9, <1>10
  <1> QED
    BY <1>8, <1>9, <1>11

(***************************************************************************)
(* A path, as upheap and downheap walk it: position j leads to nx[j] until *)
(* one at which it ends.  There is a function that gives the path from     *)
(* each position, the least set that has j and whatever its members lead   *)
(* to.                                                                     *)
(***************************************************************************)
IsPath(f, n, ends, nx) == f = [j \in 1 .. n |-> IF j \in ends THEN {j} ELSE {j} \cup f[nx[j]]]

\* The function TLA+ chooses for the recursive path is such a function.
LEMMA PathExists ==
  ASSUME NEW n \in Nat, NEW ends, NEW nx, \A j \in 1 .. n : j \notin ends => nx[j] \in 1 .. n
  PROVE  \E f : IsPath(f, n, ends, nx)
  <1> DEFINE Closed(T) == T \subseteq 1 .. n /\ \A x \in T : x \notin ends => nx[x] \in T
             least(j) == {i \in 1 .. n : \A T \in SUBSET (1 .. n) : (j \in T /\ Closed(T)) => i \in T}
             f == [j \in 1 .. n |-> least(j)]
  <1>1. ASSUME NEW j \in 1 .. n PROVE j \in least(j) /\ Closed(least(j)) /\ least(j) \in SUBSET (1 .. n)
    BY <1>1
  <1>2. ASSUME NEW j \in 1 .. n, NEW T, Closed(T), j \in T PROVE least(j) \subseteq T
    BY <1>2
  <1>3. ASSUME NEW j \in 1 .. n PROVE least(j) = IF j \in ends THEN {j} ELSE {j} \cup least(nx[j])
    <2>1. j \in least(j) /\ Closed(least(j))
      BY <1>1
    <2>2. CASE j \in ends
      <3>1. Closed({j})
        BY <2>2
      <3> HIDE DEF least, Closed
      <3>2. least(j) \subseteq {j}
        BY <1>2, <3>1
      <3> QED
        BY <2>1, <2>2, <3>2
    <2>3. CASE j \notin ends
      <3>1. nx[j] \in 1 .. n /\ nx[j] \in least(j)
        BY <2>1, <2>3
      <3>2. nx[j] \in least(nx[j]) /\ Closed(least(nx[j]))
        BY <1>1, <3>1
      <3>3. Closed({j} \cup least(nx[j]))
        BY <3>2
      <3> HIDE DEF least, Closed
      <3>4. least(j) \subseteq {j} \cup least(nx[j])
        BY <1>2, <3>3
      <3>5. least(nx[j]) \subseteq least(j)
        BY <1>2, <2>1, <3>1
      <3> QED
        BY <2>1, <2>3, <3>4, <3>5
    <2> QED
      BY <2>2, <2>3
  <1> HIDE DEF least
  <1>4. IsPath(f, n, ends, nx)
    BY <1>3 DEF IsPath
  <1> QED
    BY <1>4

\* What holds of the positions up to a number holds of the next: then it holds of all.
LEMMA UpFrom ==
  ASSUME NEW n \in Nat, NEW S, \A j \in 1 .. n : (\A i \in 1 .. j - 1 : i \in S) => j \in S
  PROVE  \A j \in 1 .. n : j \in S
  <1> DEFINE T == {i \in 0 .. n : \A j \in 1 .. i : j \in S}
  <1>1. 0 \in T
    OBVIOUS
  <1>2. ASSUME NEW i \in 1 .. n, i - 1 \in T PROVE i \in T
    <2>1. \A j \in 1 .. i - 1 : j \in S
      BY <1>2
    <2>2. i \in S
      BY <2>1
    <2>3. \A j \in 1 .. i : j \in 1 .. i - 1 \/ j = i
      OBVIOUS
    <2> QED
      BY <2>1, <2>2, <2>3
  <1>3. ASSUME NEW U, U = T PROVE n \in U
    <2> HIDE DEF T
    <2>1. 0 \in U /\ \A i \in 1 .. n : i - 1 \in U => i \in U
      BY <1>1, <1>2, <1>3
    <2>2. \A i \in 0 .. n : i \in U
      BY <2>1, UpTo
    <2> QED
      BY <2>2
  <1>4. n \in T
    <2> HIDE DEF T
    <2> QED
      BY <1>3
  <1> QED
    BY <1>4

\* The same from the other end.
LEMMA DownFrom ==
  ASSUME NEW n \in Nat, NEW S, \A j \in 1 .. n : (\A i \in j + 1 .. n : i \in S) => j \in S
  PROVE  \A j \in 1 .. n : j \in S
  <1> DEFINE T == {i \in 1 .. n : n + 1 - i \in S}
  <1>1. ASSUME NEW j \in 1 .. n, \A i \in 1 .. j - 1 : i \in T PROVE j \in T
    <2>1. ASSUME NEW i \in n + 1 - j + 1 .. n PROVE i \in S
      <3>1. n + 1 - i \in 1 .. j - 1 /\ n + 1 - (n + 1 - i) = i
        OBVIOUS
      <3> QED
        BY <1>1, <3>1
    <2>2. n + 1 - j \in 1 .. n
      OBVIOUS
    <2> QED
      BY <2>1, <2>2
  <1>2. ASSUME NEW U, U = T PROVE \A j \in 1 .. n : j \in U
    <2> HIDE DEF T
    <2>1. \A j \in 1 .. n : (\A i \in 1 .. j - 1 : i \in U) => j \in U
      BY <1>1, <1>2
    <2> QED
      BY <2>1, UpFrom
  <1>3. \A j \in 1 .. n : j \in T
    <2> HIDE DEF T
    <2> QED
      BY <1>2
  <1>4. \A j \in 1 .. n : n + 1 - j \in 1 .. n /\ n + 1 - (n + 1 - j) = j
    OBVIOUS
  <1> QED
    BY <1>3, <1>4

\* The positions P that a path from k to fin visits: each but fin leads to another, by nx.
Chain(P, k, fin, nx) ==
  /\ k \in P /\ fin \in P
  /\ \A j \in P \ {fin} : nx[j] \in P \ {k}
  /\ \A i, j \in P \ {fin} : nx[i] = nx[j] => i = j
  /\ \A i \in P \ {k} : \E j \in P \ {fin} : nx[j] = i

\* A path that ends where it begins.
LEMMA ChainStarts ==
  ASSUME NEW i, NEW nx
  PROVE  Chain({i}, i, i, nx)
  BY DEF Chain

\* A path from j is one from i when i leads to j and is not on it.
LEMMA ChainGrows ==
  ASSUME NEW P, NEW i, NEW j, NEW fin, NEW nx, Chain(P, j, fin, nx), i \notin P, nx[i] = j
  PROVE  Chain({i} \cup P, i, fin, nx)
  <1> DEFINE Ps == {i} \cup P
  <1>1. i \in Ps /\ fin \in Ps /\ j \in P /\ i # fin
    BY DEF Chain
  <1>2. ASSUME NEW q \in Ps \ {fin} PROVE nx[q] \in Ps \ {i}
    BY <1>2 DEF Chain
  <1>3. ASSUME NEW q \in Ps \ {fin}, NEW r \in Ps \ {fin}, nx[q] = nx[r] PROVE q = r
    <2>1. q \in P /\ r \in P => q = r
      BY <1>3 DEF Chain
    <2>2. \A x \in P \ {fin} : nx[x] # j
      BY DEF Chain
    <2> QED
      BY <1>3, <2>1, <2>2
  <1>4. ASSUME NEW q \in Ps \ {i} PROVE \E r \in Ps \ {fin} : nx[r] = q
    <2>1. CASE q = j
      BY <1>1, <2>1
    <2>2. CASE q # j
      <3>1. q \in P \ {j}
        BY <1>4, <2>2
      <3>2. PICK r \in P \ {fin} : nx[r] = q
        BY <3>1 DEF Chain
      <3> QED
        BY <3>2
    <2> QED
      BY <2>1, <2>2
  <1> HIDE DEF Ps
  <1>5. Chain(Ps, i, fin, nx)
    BY <1>1, <1>2, <1>3, <1>4 DEF Chain
  <1> QED
    BY <1>5 DEF Ps

\* The paths of upheap, on which positions fall, and of downheap, on which they rise.
PathUp(P, k, fin, nx, ends) ==
  fin \in ends /\ Chain(P, k, fin, nx) /\ \A j \in P : j \in fin .. k /\ (j # fin => j \notin ends)
PathDown(P, k, fin, nx, ends) ==
  fin \in ends /\ Chain(P, k, fin, nx) /\ \A j \in P : j \in k .. fin /\ (j # fin => j \notin ends)

\* The path of upheap from k is a chain to a position at which it ends.
LEMMA PathsUp ==
  ASSUME NEW n \in Nat, NEW ends, NEW nx, \A j \in 1 .. n : j \notin ends => nx[j] \in 1 .. j - 1,
         NEW f, \A j \in 1 .. n : f[j] = IF j \in ends THEN {j} ELSE {j} \cup f[nx[j]],
         NEW k \in 1 .. n
  PROVE  \E fin \in 1 .. n : PathUp(f[k], k, fin, nx, ends)
  <1> DEFINE S == {j \in 1 .. n : \E fin \in 1 .. n : PathUp(f[j], j, fin, nx, ends)}
  <1>1. ASSUME NEW j \in 1 .. n, \A i \in 1 .. j - 1 : i \in S PROVE j \in S
    <2>1. CASE j \in ends
      <3>1. PathUp({j}, j, j, nx, ends)
        BY <2>1, ChainStarts DEF PathUp
      <3> QED
        BY <2>1, <3>1
    <2>2. CASE j \notin ends
      <3>1. nx[j] \in 1 .. j - 1 /\ nx[j] \in 1 .. n
        BY <2>2
      <3>2. PICK fin \in 1 .. n : PathUp(f[nx[j]], nx[j], fin, nx, ends)
        BY <1>1, <3>1
      <3>3. j \notin f[nx[j]]
        BY <3>1, <3>2 DEF PathUp
      <3>4. Chain({j} \cup f[nx[j]], j, fin, nx)
        BY <3>2, <3>3, ChainGrows DEF PathUp
      <3>5. \A i \in {j} \cup f[nx[j]] : i \in fin .. j /\ (i # fin => i \notin ends)
        <4>1. fin \in f[nx[j]]
          BY <3>2 DEF PathUp, Chain
        <4>2. fin <= nx[j]
          BY <3>2, <4>1 DEF PathUp
        <4> QED
          BY <2>2, <3>1, <3>2, <4>2 DEF PathUp
      <3>6. PathUp({j} \cup f[nx[j]], j, fin, nx, ends)
        BY <3>2, <3>4, <3>5 DEF PathUp
      <3> QED
        BY <2>2, <3>6
    <2> QED
      BY <2>1, <2>2
  <1>2. ASSUME NEW T, T = S PROVE k \in T
    <2>1. \A j \in 1 .. n : (\A i \in 1 .. j - 1 : i \in T) => j \in T
      BY <1>1, <1>2
    <2> QED
      BY <2>1, UpFrom
  <1>3. k \in S
    BY <1>2
  <1> QED
    BY <1>3

\* The path of downheap from k is a chain to a position at which it ends.
LEMMA PathsDown ==
  ASSUME NEW n \in Nat, NEW ends, NEW nx, \A j \in 1 .. n : j \notin ends => nx[j] \in j + 1 .. n,
         NEW f, \A j \in 1 .. n : f[j] = IF j \in ends THEN {j} ELSE {j} \cup f[nx[j]],
         NEW k \in 1 .. n
  PROVE  \E fin \in 1 .. n : PathDown(f[k], k, fin, nx, ends)
  <1> DEFINE S == {j \in 1 .. n : \E fin \in 1 .. n : PathDown(f[j], j, fin, nx, ends)}
  <1>1. ASSUME NEW j \in 1 .. n, \A i \in j + 1 .. n : i \in S PROVE j \in S
    <2>1. CASE j \in ends
      <3>1. PathDown({j}, j, j, nx, ends)
        BY <2>1, ChainStarts DEF PathDown
      <3> QED
        BY <2>1, <3>1
    <2>2. CASE j \notin ends
      <3>1. nx[j] \in j + 1 .. n /\ nx[j] \in 1 .. n
        BY <2>2
      <3>2. PICK fin \in 1 .. n : PathDown(f[nx[j]], nx[j], fin, nx, ends)
        BY <1>1, <3>1
      <3>3. j \notin f[nx[j]]
        BY <3>1, <3>2 DEF PathDown
      <3>4. Chain({j} \cup f[nx[j]], j, fin, nx)
        BY <3>2, <3>3, ChainGrows DEF PathDown
      <3>5. \A i \in {j} \cup f[nx[j]] : i \in j .. fin /\ (i # fin => i \notin ends)
        <4>1. fin \in f[nx[j]]
          BY <3>2 DEF PathDown, Chain
        <4>2. nx[j] <= fin
          BY <3>2, <4>1 DEF PathDown
        <4> QED
          BY <2>2, <3>1, <3>2, <4>2 DEF PathDown
      <3>6. PathDown({j} \cup f[nx[j]], j, fin, nx, ends)
        BY <3>2, <3>4, <3>5 DEF PathDown
      <3> QED
        BY <2>2, <3>6
    <2> QED
      BY <2>1, <2>2
  <1>2. ASSUME NEW T, T = S PROVE k \in T
    <2>1. \A j \in 1 .. n : (\A i \in j + 1 .. n : i \in T) => j \in T
      BY <1>1, <1>2
    <2> QED
      BY <2>1, DownFrom
  <1>3. k \in S
    BY <1>2
  <1> QED
    BY <1>3

-----------------------------------------------------------------------------
(***************************************************************************)
(* Elements of the array of a heap of the watchers W, and where they are.  *)
(***************************************************************************)
Elem(W) == [at : Int, w : W]
Arr(x, W, n) == x \in [1 .. n -> Elem(W)] /\ Len(x) = n
Apart(x, n) == \A i, j \in 1 .. n : x[i].w = x[j].w => i = j

\* Every element but that at k is where its watcher thinks.
Loose(h, k, n, W) ==
  /\ Arr(h.a, W, n) /\ Apart(h.a, n) /\ h.ix \in [W -> Nat]
  /\ \A i \in (1 .. n) \ {k} : h.ix[h.a[i].w] = i

\* g has the elements of h in an order of its own, each where its watcher thinks.
Permuted(h, g, n, W) ==
  /\ g = [a |-> g.a, ix |-> g.ix]
  /\ Arr(g.a, W, n) /\ Apart(g.a, n) /\ g.ix \in [W -> Nat]
  /\ \A i \in 1 .. n : g.ix[g.a[i].w] = i
  /\ \A j \in 1 .. n : \E i \in 1 .. n : g.a[j] = h.a[i]
  /\ \A i \in 1 .. n : \E j \in 1 .. n : g.a[j] = h.a[i]
  /\ \A w \in W : (\A i \in 1 .. n : h.a[i].w # w) => g.ix[w] = h.ix[w]

\* A path with the position each of its positions but the last is given the element of.
Route(P, k, fin, nx, n) ==
  P \in SUBSET (1 .. n) /\ DOMAIN nx = P \ {fin} /\ Chain(P, k, fin, nx)

\* g is h with the elements shifted along a path.
Shifted(h, g, n, W, P, k, fin, nx) ==
  /\ g = [a |-> g.a, ix |-> g.ix] /\ Arr(g.a, W, n)
  /\ g.a[fin] = h.a[k] /\ fin \in 1 .. n
  /\ \A j \in P \ {fin} : g.a[j] = h.a[nx[j]] /\ nx[j] \in 1 .. n
  /\ \A j \in (1 .. n) \ P : g.a[j] = h.a[j]

\* An array is a sequence.
LEMMA ArrayLen ==
  ASSUME NEW n \in Nat, NEW X, NEW x \in [1 .. n -> X]
  PROVE  x \in Seq(X) /\ Len(x) = n
  OBVIOUS

\* f is s of n elements of X with e after them.
Grown(f, s, e, n, X) ==
  /\ f \in Seq(X) /\ Len(f) = n + 1 /\ f \in [1 .. n + 1 -> X]
  /\ f[n + 1] = e /\ \A i \in 1 .. n : f[i] = s[i]

\* Append makes such a sequence.
LEMMA AppendIs ==
  ASSUME NEW X, NEW s, s \in Seq(X), NEW e, e \in X, NEW f, f = Append(s, e), NEW n \in Nat, n = Len(s)
  PROVE  Grown(f, s, e, n, X)
  <1>1. f \in Seq(X) /\ Len(s) \in Nat /\ Len(f) = Len(s) + 1
    OBVIOUS
  <1>2. f[Len(s) + 1] = e /\ \A i \in 1 .. Len(s) : f[i] = s[i]
    OBVIOUS
  <1>3. f \in [1 .. Len(f) -> X]
    BY <1>1, LenProperties
  <1> QED
    BY <1>1, <1>2, <1>3 DEF Grown

\* What Moved does to the array, whatever the path.
LEMMA MovedArray ==
  ASSUME NEW W, NEW n \in Nat, NEW h, NEW k \in 1 .. n, Arr(h.a, W, n),
         NEW P, NEW fin, NEW nx, Route(P, k, fin, nx, n),
         NEW g, g = Moved(h, h.a[k], fin, nx)
  PROVE  Shifted(h, g, n, W, P, k, fin, nx)
  <1>1. DOMAIN h.a = 1 .. n /\ \A i \in 1 .. n : h.a[i] \in Elem(W)
    BY DEF Arr
  <1>2. fin \in 1 .. n /\ \A j \in P \ {fin} : nx[j] \in 1 .. n
    BY DEF Route, Chain
  <1>3. PICK b : b = [j \in 1 .. n |-> IF j = fin THEN h.a[k] ELSE IF j \in P \ {fin} THEN h.a[nx[j]] ELSE h.a[j]]
    OBVIOUS
  <1>4. \A j \in 1 .. n : b[j] = IF j = fin THEN h.a[k] ELSE IF j \in P \ {fin} THEN h.a[nx[j]] ELSE h.a[j]
    BY <1>3
  <1>5. b \in [1 .. n -> Elem(W)]
    <2>1. \A j \in 1 .. n : b[j] \in Elem(W)
      BY <1>1, <1>2, <1>4
    <2> QED
      BY <1>3, <2>1
  <1>6. Arr(b, W, n)
    BY <1>5, ArrayLen DEF Arr
  <1>7. PICK y : g = [a |-> b, ix |-> y]
    BY <1>1, <1>3 DEF Moved, Route
  <1>8. g.a = b /\ g = [a |-> g.a, ix |-> g.ix]
    BY <1>7
  <1>9. DOMAIN nx = P \ {fin} /\ P \in SUBSET (1 .. n) /\ fin \in P
    BY DEF Route, Chain
  <1>10. \A j \in P \ {fin} : j \in 1 .. n /\ b[j] = h.a[nx[j]]
    BY <1>4, <1>9
  <1>11. \A j \in (1 .. n) \ P : b[j] = h.a[j]
    BY <1>4, <1>9
  <1> QED
    BY <1>2, <1>4, <1>6, <1>8, <1>10, <1>11 DEF Shifted

Reindexed(h, g, P, W) ==
  g.ix = [w \in W |-> IF \E j \in P : g.a[j].w = w THEN CHOOSE j \in P : g.a[j].w = w ELSE h.ix[w]]

\* What Moved does to the active fields: those of the elements on the path are set.
LEMMA MovedIndex ==
  ASSUME NEW W, NEW n \in Nat, NEW h, NEW k \in 1 .. n, Arr(h.a, W, n), h.ix \in [W -> Nat],
         NEW P, NEW fin, NEW nx, Route(P, k, fin, nx, n),
         NEW g, g = Moved(h, h.a[k], fin, nx)
  PROVE  Reindexed(h, g, P, W)
  <1>1. DOMAIN nx \cup {fin} = P /\ DOMAIN h.ix = W
    BY DEF Route, Chain
  <1>2. PICK b : b = [j \in DOMAIN h.a |-> IF j = fin THEN h.a[k] ELSE IF j \in DOMAIN nx THEN h.a[nx[j]] ELSE h.a[j]]
    OBVIOUS
  <1>3. g = [a |-> b, ix |-> [w \in W |-> IF \E j \in P : b[j].w = w THEN CHOOSE j \in P : b[j].w = w ELSE h.ix[w]]]
    BY <1>1, <1>2 DEF Moved
  <1>4. g.a = b
    BY <1>3
  <1> QED
    BY <1>3, <1>4 DEF Reindexed

\* It only changes the order.
LEMMA MovedPermutes ==
  ASSUME NEW W, NEW n \in Nat, NEW h, NEW k \in 1 .. n, Loose(h, k, n, W),
         NEW P, NEW fin, NEW nx, Route(P, k, fin, nx, n),
         NEW g, g = Moved(h, h.a[k], fin, nx)
  PROVE  Permuted(h, g, n, W)
  <1>1. /\ g = [a |-> g.a, ix |-> g.ix] /\ Arr(g.a, W, n)
        /\ g.a[fin] = h.a[k] /\ fin \in 1 .. n
        /\ \A j \in P \ {fin} : g.a[j] = h.a[nx[j]] /\ nx[j] \in 1 .. n
        /\ \A j \in (1 .. n) \ P : g.a[j] = h.a[j]
    <2>1. Shifted(h, g, n, W, P, k, fin, nx)
      BY MovedArray DEF Loose
    <2> QED
      BY <2>1 DEF Shifted
  <1>2. g.ix = [w \in W |-> IF \E j \in P : g.a[j].w = w THEN CHOOSE j \in P : g.a[j].w = w ELSE h.ix[w]]
    <2>1. Reindexed(h, g, P, W)
      BY MovedIndex DEF Loose
    <2> QED
      BY <2>1 DEF Reindexed
  <1>0. Chain(P, k, fin, nx) /\ P \in SUBSET (1 .. n)
    BY DEF Route
  <1> DEFINE p == [j \in 1 .. n |-> IF j = fin THEN k ELSE IF j \in P THEN nx[j] ELSE j]
  <1>3. \A j \in 1 .. n : p[j] = IF j = fin THEN k ELSE IF j \in P THEN nx[j] ELSE j
    OBVIOUS
  <1> HIDE DEF p
  <1>4. \A j \in 1 .. n : p[j] \in 1 .. n /\ g.a[j] = h.a[p[j]]
    BY <1>1, <1>3
  <1>5. \A j \in 1 .. n : p[j] \in P <=> j \in P
    BY <1>0, <1>3 DEF Chain
  <1>6. ASSUME NEW i \in 1 .. n, NEW j \in 1 .. n, p[i] = p[j] PROVE i = j
    <2>1. CASE i \in P /\ j \in P
      BY <1>0, <1>3, <1>6, <2>1 DEF Chain
    <2>2. CASE ~(i \in P /\ j \in P)
      BY <1>0, <1>3, <1>5, <1>6, <2>2 DEF Chain
    <2> QED
      BY <2>1, <2>2
  <1>7. ASSUME NEW i \in 1 .. n PROVE \E j \in 1 .. n : p[j] = i
    <2>1. CASE i = k
      BY <1>1, <1>3, <2>1
    <2>2. CASE i \in P \ {k}
      <3>1. PICK j \in P \ {fin} : nx[j] = i
        BY <1>0, <2>2 DEF Chain
      <3> QED
        BY <1>0, <1>3, <3>1
    <2>3. CASE i \notin P
      <3>1. i # fin
        BY <1>0, <2>3 DEF Chain
      <3> QED
        BY <1>3, <2>3, <3>1
    <2> QED
      BY <2>1, <2>2, <2>3
  <1>8. Apart(g.a, n)
    <2>1. ASSUME NEW i \in 1 .. n, NEW j \in 1 .. n, g.a[i].w = g.a[j].w PROVE i = j
      <3>1. h.a[p[i]].w = h.a[p[j]].w /\ p[i] \in 1 .. n /\ p[j] \in 1 .. n
        BY <1>4, <2>1
      <3>2. p[i] = p[j]
        BY <3>1 DEF Loose, Apart
      <3> QED
        BY <1>6, <3>2
    <2> QED
      BY <2>1 DEF Apart
  <1>9. \A i \in 1 .. n : h.a[i].w \in W /\ g.a[i].w \in W
    BY <1>1 DEF Loose, Arr, Elem
  <1>10. ASSUME NEW i \in 1 .. n PROVE g.ix[g.a[i].w] = i
    <2>1. CASE i \in P
      <3>1. PICK c : c = CHOOSE j \in P : g.a[j].w = g.a[i].w
        OBVIOUS
      <3>2. c \in P /\ g.a[c].w = g.a[i].w
        BY <2>1, <3>1
      <3>3. c = i
        BY <1>0, <1>8, <3>2 DEF Apart
      <3>4. g.ix[g.a[i].w] = c
        BY <1>2, <1>9, <2>1, <3>1
      <3> QED
        BY <3>3, <3>4
    <2>2. CASE i \notin P
      <3>1. \A j \in P : g.a[j].w # g.a[i].w
        BY <1>0, <1>8, <2>2 DEF Apart
      <3>2. g.ix[g.a[i].w] = h.ix[g.a[i].w]
        BY <1>2, <1>9, <3>1, SMTT(30)
      <3>3. g.a[i] = h.a[i] /\ i # k
        BY <1>0, <1>1, <2>2 DEF Chain
      <3> QED
        BY <3>2, <3>3 DEF Loose
    <2> QED
      BY <2>1, <2>2
  <1>11. g.ix \in [W -> Nat]
    <2>1. ASSUME NEW w \in W PROVE g.ix[w] \in Nat
      <3>1. CASE \E j \in P : g.a[j].w = w
        <4>1. PICK j \in P : g.a[j].w = w
          BY <3>1
        <4>2. j \in 1 .. n /\ j \in Nat
          BY <1>0
        <4> QED
          BY <1>10, <4>1, <4>2
      <3>2. CASE ~\E j \in P : g.a[j].w = w
        <4>1. g.ix[w] = h.ix[w]
          BY <1>2, <3>2
        <4> QED
          BY <4>1 DEF Loose
      <3> QED
        BY <3>1, <3>2
    <2> QED
      BY <1>2, <2>1
  <1>12. ASSUME NEW w \in W, \A i \in 1 .. n : h.a[i].w # w PROVE g.ix[w] = h.ix[w]
    <2>1. \A j \in P : g.a[j].w # w
      BY <1>0, <1>4, <1>12
    <2> QED
      BY <1>2, <2>1
  <1>13. \A i \in 1 .. n : \E j \in 1 .. n : g.a[j] = h.a[i]
    BY <1>4, <1>7
  <1>14. \A j \in 1 .. n : \E i \in 1 .. n : g.a[j] = h.a[i]
    BY <1>4
  <1> QED
    BY <1>1, <1>8, <1>10, <1>11, <1>12, <1>13, <1>14 DEF Permuted

-----------------------------------------------------------------------------
(***************************************************************************)
(* Upheap and downheap repair an array that is in order but for k.         *)
(***************************************************************************)
LEMMA ElemIs ==
  ASSUME NEW W, NEW n, NEW x, Arr(x, W, n)
  PROVE  \A i \in 1 .. n : x[i].at \in Int /\ x[i].w \in W
  BY DEF Arr, Elem

Sorted(x, m) == \A i \in 2 .. m : x[Parent(i)].at <= x[i].at
\* In order but for k and its children, and these are not before the parent of k.
Nearly(x, k, m) ==
  /\ \A i \in 2 .. m : i # k /\ Parent(i) # k => x[Parent(i)].at <= x[i].at
  /\ k > 1 => \A c \in 2 .. m : Parent(c) = k => x[Parent(k)].at <= x[c].at
Below(x, k, m) == \A c \in 2 .. m : Parent(c) = k => x[k].at <= x[c].at

\* g is h with the element at k moved up to fin, along P.
RoseTo(h, g, n, k, P, fin, nx) ==
  /\ g = Moved(h, h.a[k], fin, nx) /\ Route(P, k, fin, nx, n) /\ fin \in 1 .. n
  /\ \A j \in P : j \in fin .. k
  /\ fin = 1 \/ h.a[Parent(fin)].at <= h.a[k].at
  /\ \A j \in P \ {fin} : nx[j] = Parent(j) /\ j > 1 /\ h.a[k].at < h.a[Parent(j)].at

\* upheap shifts what is on its path down and puts the element where the path ends.
LEMMA UpheapWalks ==
  ASSUME NEW W, NEW n \in Nat, NEW h, NEW k \in 1 .. n, Arr(h.a, W, n), NEW g, g = Upheap(h, k)
  PROVE  \E P, fin, nx : RoseTo(h, g, n, k, P, fin, nx)
  <1> DEFINE Is(f) == f = [j \in 1 .. Len(h.a) |->
               IF j = 1 \/ h.a[Parent(j)].at <= h.a[k].at THEN {j} ELSE {j} \cup f[Parent(j)]]
             ends == {j \in 1 .. n : j = 1 \/ h.a[Parent(j)].at <= h.a[k].at}
             up == [j \in 1 .. n |-> Parent(j)]
  <1>1. Len(h.a) = n /\ \A i \in 1 .. n : h.a[i].at \in Int
    BY ElemIs DEF Arr
  <1>2. \A j \in 1 .. n : j # 1 => Parent(j) \in 1 .. j - 1 /\ Parent(j) \in 1 .. n
    BY ParentIs
  <1>3. \A j \in 1 .. n : j \notin ends => up[j] \in 1 .. j - 1 /\ up[j] \in 1 .. n
    BY <1>2
  <1>4. \A j \in 1 .. n : up[j] = Parent(j) /\ (j \in ends <=> (j = 1 \/ h.a[Parent(j)].at <= h.a[k].at))
    OBVIOUS
  <1>5. PICK f : IsPath(f, n, ends, up)
    <2> HIDE DEF ends, up
    <2>1. \A j \in 1 .. n : j \notin ends => up[j] \in 1 .. n
      BY <1>3
    <2> QED
      BY <2>1, PathExists
  <1> HIDE DEF ends, up
  <1>6. Is(f)
    BY <1>1, <1>4, <1>5 DEF IsPath
  <1>7. PICK q : q = CHOOSE p : Is(p)
    OBVIOUS
  <1>8. Is(q)
    BY <1>6, <1>7
  <1>9. \A j \in 1 .. n : q[j] = IF j \in ends THEN {j} ELSE {j} \cup q[up[j]]
    BY <1>1, <1>4, <1>8
  <1>10. PICK fin \in 1 .. n : PathUp(q[k], k, fin, up, ends)
    BY <1>3, <1>9, PathsUp
  <1>11. PICK P : P = q[k]
    OBVIOUS
  <1>12. PICK to : to = CHOOSE j \in P : \A i \in P : j <= i
    OBVIOUS
  <1>13. g = Moved(h, h.a[k], to, [j \in P \ {to} |-> Parent(j)])
    BY <1>7, <1>11, <1>12 DEF Upheap
  <1>14. fin \in P /\ \A i \in P : i \in fin .. k
    BY <1>10, <1>11 DEF PathUp, Chain
  <1>15. to = fin
    <2>1. \A i \in P : fin <= i /\ i \in Int
      BY <1>14
    <2>2. to \in P /\ \A i \in P : to <= i
      BY <1>12, <1>14, <2>1
    <2> QED
      BY <1>14, <2>1, <2>2
  <1>16. PICK nx : nx = [j \in P \ {fin} |-> Parent(j)]
    OBVIOUS
  <1>17. P \in SUBSET (1 .. n)
    BY <1>14
  <1>18. \A j \in P \ {fin} : nx[j] = up[j]
    BY <1>4, <1>16, <1>17
  <1>19. Chain(P, k, fin, nx)
    BY <1>10, <1>11, <1>18 DEF PathUp, Chain
  <1>20. ASSUME NEW j \in P \ {fin} PROVE nx[j] = Parent(j) /\ j > 1 /\ h.a[k].at < h.a[Parent(j)].at
    <2>1. j \in 1 .. n /\ j \notin ends
      BY <1>10, <1>11, <1>17 DEF PathUp
    <2>2. j # 1 /\ ~(h.a[Parent(j)].at <= h.a[k].at)
      BY <1>4, <2>1
    <2> QED
      BY <1>1, <1>2, <1>16, <2>1, <2>2, SMTT(30)
  <1>21. fin = 1 \/ h.a[Parent(fin)].at <= h.a[k].at
    BY <1>4, <1>10 DEF PathUp
  <1>22. RoseTo(h, g, n, k, P, fin, nx)
    BY <1>13, <1>14, <1>15, <1>16, <1>17, <1>19, <1>20, <1>21 DEF RoseTo, Route
  <1> QED
    BY <1>22

\* upheap keeps the elements, and repairs the order up to any m for which only k is out of it.
LEMMA UpheapSorts ==
  ASSUME NEW W, NEW n \in Nat, NEW h, NEW k \in 1 .. n, Loose(h, k, n, W), NEW g, g = Upheap(h, k)
  PROVE  /\ Permuted(h, g, n, W)
         /\ \A m \in k .. n : Nearly(h.a, k, m) /\ Below(h.a, k, m) => Sorted(g.a, m)
  <1>1. PICK P, fin, nx : RoseTo(h, g, n, k, P, fin, nx)
    BY UpheapWalks DEF Loose
  <1>2. Permuted(h, g, n, W)
    BY <1>1, MovedPermutes DEF RoseTo
  <1>3. SUFFICES ASSUME NEW m \in k .. n, Nearly(h.a, k, m), Below(h.a, k, m), NEW i \in 2 .. m
                 PROVE  g.a[Parent(i)].at <= g.a[i].at
    BY <1>2 DEF Sorted
  <1>4. /\ g.a[fin] = h.a[k]
        /\ \A j \in P \ {fin} : g.a[j] = h.a[Parent(j)] /\ Parent(j) \in P \ {k} /\ j > 1 /\ h.a[k].at < h.a[Parent(j)].at
        /\ \A j \in (1 .. n) \ P : g.a[j] = h.a[j]
    <2>1. Shifted(h, g, n, W, P, k, fin, nx)
      BY <1>1, MovedArray DEF Loose, RoseTo
    <2>2. \A j \in P \ {fin} : nx[j] = Parent(j) /\ nx[j] \in P \ {k} /\ j > 1 /\ h.a[k].at < h.a[Parent(j)].at
      BY <1>1 DEF RoseTo, Route, Chain
    <2> QED
      BY <2>1, <2>2 DEF Shifted
  <1>5. k \in P /\ fin \in P /\ \A j \in P : j \in fin .. k
    BY <1>1 DEF RoseTo, Route, Chain
  <1>6. \A j \in 1 .. n : h.a[j].at \in Int
    BY ElemIs DEF Loose
  <1>7. PICK q \in 1 .. n : q = Parent(i) /\ q < i
    BY ParentIs
  <1>8. i \in 1 .. n /\ q \in 1 .. n /\ i \in Nat
    OBVIOUS
  <1>9. i # k /\ q # k => h.a[q].at <= h.a[i].at
    BY <1>3, <1>7 DEF Nearly
  <1>10. q = k => h.a[k].at <= h.a[i].at
    BY <1>3, <1>7 DEF Below
  <1>11. CASE i = fin
    <2>1. q \notin P
      BY <1>5, <1>7, <1>11
    <2>2. g.a[q] = h.a[q] /\ g.a[i] = h.a[k]
      BY <1>4, <1>11, <2>1
    <2>3. h.a[q].at <= h.a[k].at
      BY <1>1, <1>7, <1>11 DEF RoseTo
    <2> QED
      BY <1>7, <2>2, <2>3
  <1>12. CASE i \in P \ {fin}
    <2>1. g.a[i] = h.a[q] /\ q \in P \ {k} /\ h.a[k].at < h.a[q].at
      BY <1>4, <1>7, <1>12
    <2>2. CASE q = fin
      BY <1>4, <1>6, <1>7, <2>1, <2>2
    <2>3. CASE q # fin
      <3>1. g.a[q] = h.a[Parent(q)] /\ Parent(q) \in P \ {k} /\ q > 1
        BY <1>4, <2>1, <2>3
      <3>2. q \in 2 .. m
        BY <1>7, <3>1
      <3>3. h.a[Parent(q)].at <= h.a[q].at
        BY <1>3, <2>1, <3>1, <3>2 DEF Nearly
      <3> QED
        BY <1>7, <2>1, <3>1, <3>3
    <2> QED
      BY <2>2, <2>3
  <1>13. CASE i \notin P /\ q \notin P
    <2>1. g.a[i] = h.a[i] /\ g.a[q] = h.a[q] /\ i # k /\ q # k
      BY <1>4, <1>5, <1>13
    <2> QED
      BY <1>7, <1>9, <2>1
  <1>14. CASE i \notin P /\ q = fin
    <2>1. g.a[i] = h.a[i] /\ g.a[q] = h.a[k] /\ i # k
      BY <1>4, <1>5, <1>14
    <2>2. CASE q = k
      BY <1>7, <1>10, <2>1, <2>2
    <2>3. CASE q # k
      <3>1. PICK j \in P \ {fin} : nx[j] = fin
        BY <1>1, <1>5, <1>14, <2>3 DEF RoseTo, Route, Chain
      <3>2. h.a[k].at < h.a[q].at
        BY <1>1, <1>14, <3>1 DEF RoseTo
      <3> QED
        BY <1>6, <1>7, <1>9, <2>1, <2>3, <3>2
    <2> QED
      BY <2>2, <2>3
  <1>15. CASE i \notin P /\ q \in P \ {fin}
    <2>1. g.a[i] = h.a[i] /\ g.a[q] = h.a[Parent(q)] /\ i # k /\ q > 1 /\ Parent(q) \in P \ {k}
      BY <1>4, <1>5, <1>15
    <2>2. CASE q = k
      <3>1. h.a[Parent(k)].at <= h.a[i].at
        BY <1>3, <1>7, <2>1, <2>2 DEF Nearly
      <3> QED
        BY <1>7, <2>1, <2>2, <3>1
    <2>3. CASE q # k
      <3>1. q \in 2 .. m
        BY <1>7, <2>1
      <3>2. h.a[Parent(q)].at <= h.a[q].at
        BY <1>3, <2>1, <2>3, <3>1 DEF Nearly
      <3>3. Parent(q) \in 1 .. n
        BY <1>1, <2>1 DEF RoseTo, Route
      <3> QED
        BY <1>6, <1>7, <1>9, <2>1, <2>3, <3>2, <3>3
    <2> QED
      BY <2>2, <2>3
  <1> QED
    BY <1>11, <1>12, <1>13, <1>14, <1>15

\* g is h with the element at k moved down to fin, along P.
SankTo(h, g, n, k, P, fin, nx) ==
  /\ g = Moved(h, h.a[k], fin, nx) /\ Route(P, k, fin, nx, n) /\ fin \in 1 .. n
  /\ \A j \in P : j \in k .. fin
  /\ \A c \in Children(fin, n) : h.a[k].at <= h.a[c].at
  /\ \A j \in P \ {fin} : /\ nx[j] \in Children(j, n) /\ h.a[nx[j]].at < h.a[k].at
                          /\ \A c \in Children(j, n) : h.a[nx[j]].at <= h.a[c].at

\* downheap shifts what is on its path up and puts the element where the path ends.
LEMMA DownheapWalks ==
  ASSUME NEW W, NEW n \in Nat, NEW h, NEW k \in 1 .. n, Arr(h.a, W, n), NEW g, g = Downheap(h, n, k)
  PROVE  \E P, fin, nx : SankTo(h, g, n, k, P, fin, nx)
  <1> DEFINE Is(f) == f = [j \in 1 .. Len(h.a) |->
               IF Children(j, n) = {} THEN {j}
               ELSE IF h.a[k].at <= h.a[MinChild(h.a, n, j)].at THEN {j} ELSE {j} \cup f[MinChild(h.a, n, j)]]
             ends == {j \in 1 .. n : Children(j, n) = {} \/ h.a[k].at <= h.a[MinChild(h.a, n, j)].at}
             down == [j \in 1 .. n |-> MinChild(h.a, n, j)]
  <1>1. Len(h.a) = n /\ \A i \in 1 .. n : h.a[i].at \in Int
    BY ElemIs DEF Arr
  <1>2. ASSUME NEW j \in 1 .. n, Children(j, n) # {}
        PROVE  /\ MinChild(h.a, n, j) \in Children(j, n)
               /\ \A c \in Children(j, n) : h.a[MinChild(h.a, n, j)].at <= h.a[c].at
    BY <1>1, <1>2, MinChildIs
  <1>3. ASSUME NEW j \in 1 .. n, NEW c \in Children(j, n) PROVE c \in j + 1 .. n /\ c \in 1 .. n
    <2>1. c \in 2 .. n /\ Parent(c) = j
      BY ChildrenAre
    <2>2. Parent(c) < c
      BY <2>1, ParentIs
    <2> QED
      BY <2>1, <2>2
  <1>4. \A j \in 1 .. n : /\ down[j] = MinChild(h.a, n, j)
                          /\ j \in ends <=> (Children(j, n) = {} \/ h.a[k].at <= h.a[MinChild(h.a, n, j)].at)
    OBVIOUS
  <1>5. \A j \in 1 .. n : j \notin ends => down[j] \in j + 1 .. n /\ down[j] \in 1 .. n
    <2> HIDE DEF ends, down
    <2> QED
      BY <1>2, <1>3, <1>4
  <1>6. PICK f : IsPath(f, n, ends, down)
    <2> HIDE DEF ends, down
    <2>1. \A j \in 1 .. n : j \notin ends => down[j] \in 1 .. n
      BY <1>5
    <2> QED
      BY <2>1, PathExists
  <1> HIDE DEF ends, down
  <1>7. Is(f)
    BY <1>1, <1>4, <1>6 DEF IsPath
  <1>8. PICK q : q = CHOOSE p : Is(p)
    OBVIOUS
  <1>9. Is(q)
    BY <1>7, <1>8
  <1>10. ASSUME NEW j \in 1 .. n PROVE q[j] = IF j \in ends THEN {j} ELSE {j} \cup q[down[j]]
    <2>1. q[j] = IF Children(j, n) = {} THEN {j}
                 ELSE IF h.a[k].at <= h.a[MinChild(h.a, n, j)].at THEN {j} ELSE {j} \cup q[MinChild(h.a, n, j)]
      BY <1>1, <1>9
    <2> HIDE DEF Is
    <2>2. CASE j \in ends
      BY <1>4, <2>1, <2>2
    <2>3. CASE j \notin ends
      BY <1>4, <2>1, <2>3
    <2> QED
      BY <2>2, <2>3
  <1>11. PICK fin \in 1 .. n : PathDown(q[k], k, fin, down, ends)
    BY <1>5, <1>10, PathsDown
  <1>12. PICK P : P = q[k]
    OBVIOUS
  <1>13. PICK to : to = CHOOSE j \in P : \A i \in P : i <= j
    OBVIOUS
  <1>14. g = Moved(h, h.a[k], to, [j \in P \ {to} |-> MinChild(h.a, n, j)])
    BY <1>8, <1>12, <1>13 DEF Downheap
  <1>15. fin \in P /\ \A i \in P : i \in k .. fin
    BY <1>11, <1>12 DEF PathDown, Chain
  <1>16. to = fin
    <2>1. \A i \in P : i <= fin /\ i \in Int
      BY <1>15
    <2>2. to \in P /\ \A i \in P : i <= to
      BY <1>13, <1>15, <2>1
    <2> QED
      BY <1>15, <2>1, <2>2
  <1>17. PICK nx : nx = [j \in P \ {fin} |-> MinChild(h.a, n, j)]
    OBVIOUS
  <1>18. P \in SUBSET (1 .. n)
    BY <1>15
  <1>19. \A j \in P \ {fin} : nx[j] = down[j]
    BY <1>4, <1>17, <1>18
  <1>20. Chain(P, k, fin, nx)
    BY <1>11, <1>12, <1>19 DEF PathDown, Chain
  <1>21. ASSUME NEW j \in P \ {fin}
         PROVE  /\ nx[j] \in Children(j, n) /\ h.a[nx[j]].at < h.a[k].at
                /\ \A c \in Children(j, n) : h.a[nx[j]].at <= h.a[c].at
    <2>1. j \in 1 .. n /\ j \notin ends /\ nx[j] = MinChild(h.a, n, j)
      BY <1>11, <1>12, <1>17, <1>18 DEF PathDown
    <2>2. Children(j, n) # {} /\ ~(h.a[k].at <= h.a[nx[j]].at)
      BY <1>4, <2>1
    <2>3. nx[j] \in Children(j, n) /\ nx[j] \in 1 .. n
      BY <1>2, <1>3, <2>1, <2>2
    <2> QED
      BY <1>1, <1>2, <2>1, <2>2, <2>3
  <1>22. ASSUME NEW c \in Children(fin, n) PROVE h.a[k].at <= h.a[c].at
    <2>1. fin \in ends
      BY <1>11 DEF PathDown
    <2>2. h.a[k].at <= h.a[MinChild(h.a, n, fin)].at
      BY <1>4, <2>1
    <2>3. MinChild(h.a, n, fin) \in 1 .. n /\ c \in 1 .. n /\ h.a[MinChild(h.a, n, fin)].at <= h.a[c].at
      BY <1>2, <1>3
    <2> QED
      BY <1>1, <2>2, <2>3
  <1>23. SankTo(h, g, n, k, P, fin, nx)
    BY <1>14, <1>15, <1>16, <1>17, <1>18, <1>20, <1>21, <1>22 DEF SankTo, Route
  <1> QED
    BY <1>23

\* downheap keeps the elements, and repairs the order when k is not before its parent.
LEMMA DownheapSorts ==
  ASSUME NEW W, NEW n \in Nat, NEW h, NEW k \in 1 .. n, Loose(h, k, n, W), NEW g, g = Downheap(h, n, k)
  PROVE  /\ Permuted(h, g, n, W)
         /\ Nearly(h.a, k, n) /\ (k > 1 => h.a[Parent(k)].at <= h.a[k].at) => Sorted(g.a, n)
  <1>1. PICK P, fin, nx : SankTo(h, g, n, k, P, fin, nx)
    BY DownheapWalks DEF Loose
  <1>2. Permuted(h, g, n, W)
    BY <1>1, MovedPermutes DEF SankTo
  <1>3. SUFFICES ASSUME Nearly(h.a, k, n), k > 1 => h.a[Parent(k)].at <= h.a[k].at, NEW i \in 2 .. n
                 PROVE  g.a[Parent(i)].at <= g.a[i].at
    BY <1>2 DEF Sorted
  <1>4. /\ g.a[fin] = h.a[k]
        /\ \A j \in P \ {fin} : /\ g.a[j] = h.a[nx[j]] /\ nx[j] \in P \ {k} /\ nx[j] \in Children(j, n)
                                /\ h.a[nx[j]].at < h.a[k].at
                                /\ \A c \in Children(j, n) : h.a[nx[j]].at <= h.a[c].at
        /\ \A j \in (1 .. n) \ P : g.a[j] = h.a[j]
    <2>1. Shifted(h, g, n, W, P, k, fin, nx)
      BY <1>1, MovedArray DEF Loose, SankTo
    <2>2. \A j \in P \ {fin} : /\ nx[j] \in P \ {k} /\ nx[j] \in Children(j, n)
                                /\ h.a[nx[j]].at < h.a[k].at
                                /\ \A c \in Children(j, n) : h.a[nx[j]].at <= h.a[c].at
      BY <1>1 DEF SankTo, Route, Chain
    <2> QED
      BY <2>1, <2>2 DEF Shifted
  <1>5. k \in P /\ fin \in P /\ \A j \in P : j \in k .. fin
    BY <1>1 DEF SankTo, Route, Chain
  <1>6. \A j \in 1 .. n : h.a[j].at \in Int
    BY ElemIs DEF Loose
  <1>7. PICK q \in 1 .. n : q = Parent(i) /\ q < i
    BY ParentIs
  <1>8. i \in 1 .. n /\ q \in 1 .. n /\ i \in Nat /\ i \in Children(q, n)
    BY <1>7, ChildrenAre
  <1>9. i # k /\ q # k => h.a[q].at <= h.a[i].at
    BY <1>3, <1>7 DEF Nearly
  <1>10. i = k => q \notin P
    BY <1>5, <1>7
  <1>11. CASE i = k
    <2>1. g.a[q] = h.a[q]
      BY <1>4, <1>10, <1>11
    <2>2. CASE i = fin
      BY <1>3, <1>4, <1>7, <1>11, <2>1, <2>2
    <2>3. CASE i # fin
      <3>1. i \in P \ {fin}
        BY <1>5, <1>11, <2>3
      <3>2. g.a[i] = h.a[nx[i]] /\ nx[i] \in Children(i, n)
        BY <1>4, <3>1
      <3>3. nx[i] \in 2 .. n /\ Parent(nx[i]) = k
        BY <1>8, <1>11, <3>2, ChildrenAre
      <3>4. h.a[q].at <= h.a[nx[i]].at
        BY <1>3, <1>7, <1>11, <3>3 DEF Nearly
      <3> QED
        BY <1>7, <2>1, <3>2, <3>4
    <2> QED
      BY <2>2, <2>3
  <1>12. CASE i \in P /\ i # k
    <2>1. PICK j \in P \ {fin} : nx[j] = i
      BY <1>1, <1>12 DEF SankTo, Route, Chain
    <2>2. j \in 1 .. n /\ i \in Children(j, n)
      BY <1>1, <1>4, <2>1 DEF SankTo, Route
    <2>3. j = q
      BY <1>7, <1>8, <2>2, ChildrenAre
    <2>4. g.a[q] = h.a[i] /\ h.a[i].at < h.a[k].at
      BY <1>4, <2>1, <2>3
    <2>5. CASE i = fin
      BY <1>4, <1>6, <1>7, <1>8, <2>4, <2>5
    <2>6. CASE i # fin
      <3>1. g.a[i] = h.a[nx[i]] /\ nx[i] \in Children(i, n) /\ nx[i] \in P \ {k}
        BY <1>4, <1>12, <2>6
      <3>2. nx[i] \in 2 .. n /\ Parent(nx[i]) = i
        BY <1>8, <3>1, ChildrenAre
      <3>3. h.a[i].at <= h.a[nx[i]].at
        BY <1>3, <1>12, <3>1, <3>2 DEF Nearly
      <3> QED
        BY <1>7, <2>4, <3>1, <3>3
    <2> QED
      BY <2>5, <2>6
  <1>13. CASE i \notin P /\ q \notin P
    <2>1. g.a[i] = h.a[i] /\ g.a[q] = h.a[q] /\ i # k /\ q # k
      BY <1>4, <1>5, <1>8, <1>13
    <2> QED
      BY <1>7, <1>9, <2>1
  <1>14. CASE i \notin P /\ q = fin
    <2>1. g.a[i] = h.a[i] /\ g.a[q] = h.a[k]
      BY <1>4, <1>8, <1>14
    <2>2. h.a[k].at <= h.a[i].at
      BY <1>1, <1>8, <1>14 DEF SankTo
    <2> QED
      BY <1>7, <2>1, <2>2
  <1>15. CASE i \notin P /\ q \in P \ {fin}
    <2>1. g.a[i] = h.a[i] /\ g.a[q] = h.a[nx[q]] /\ h.a[nx[q]].at <= h.a[i].at
      BY <1>4, <1>8, <1>15
    <2> QED
      BY <1>7, <2>1
  <1> QED
    BY <1>11, <1>12, <1>13, <1>14, <1>15

-----------------------------------------------------------------------------
(***************************************************************************)
(* A heap of n of the watchers W, whose times are T.                       *)
(***************************************************************************)
Held(h, n, W) ==
  /\ n \in Nat /\ h = [a |-> h.a, ix |-> h.ix] /\ Arr(h.a, W, n) /\ h.ix \in [W -> Nat]
  /\ \A i \in 1 .. n : h.ix[h.a[i].w] = i
  /\ \A w \in W : h.ix[w] > 0 => h.ix[w] \in 1 .. n /\ h.a[h.ix[w]].w = w
Names(x, n) == {x[i].w : i \in 1 .. n}
Active(h, W) == {w \in W : h.ix[w] > 0}
SameOn(U, T, h, W) == \A v \in Active(h, W) : U[v] = T[v]
SameBut(U, T, h, W, w) == \A v \in Active(h, W) : v # w => U[v] = T[v]
IsAt(U, w, t) == U[w] = t
Timed(h, n, T) == \A i \in 1 .. n : h.a[i].at = T[h.a[i].w]
IsHeap(h, n, W, T) == Held(h, n, W) /\ Timed(h, n, T) /\ Sorted(h.a, n)

\* No watcher is in the array twice, and the active ones are those that are in it.
LEMMA HeldIs ==
  ASSUME NEW W, NEW n \in Nat, NEW h, Held(h, n, W)
  PROVE  /\ Apart(h.a, n) /\ \A k \in 1 .. n : Loose(h, k, n, W)
         /\ Active(h, W) = Names(h.a, n)
         /\ \A w \in W : (\A i \in 1 .. n : h.a[i].w # w) => h.ix[w] = 0
  <1>1. ASSUME NEW i \in 1 .. n PROVE h.a[i].w \in W /\ h.ix[h.a[i].w] = i /\ i > 0
    BY ElemIs DEF Held
  <1>2. Apart(h.a, n)
    <2>1. ASSUME NEW i \in 1 .. n, NEW j \in 1 .. n, h.a[i].w = h.a[j].w PROVE i = j
      <3>1. h.ix[h.a[i].w] = i /\ h.ix[h.a[j].w] = j
        BY <1>1
      <3> QED
        BY <2>1, <3>1
    <2> QED
      BY <2>1 DEF Apart
  <1>3. \A k \in 1 .. n : Loose(h, k, n, W)
    BY <1>1, <1>2 DEF Held, Loose
  <1>4. ASSUME NEW w \in W, h.ix[w] > 0 PROVE \E i \in 1 .. n : h.a[i].w = w
    BY <1>4 DEF Held
  <1>5. ASSUME NEW w \in W, \A i \in 1 .. n : h.a[i].w # w PROVE h.ix[w] = 0
    <2>1. h.ix[w] \in Nat
      BY DEF Held
    <2> QED
      BY <1>4, <1>5, <2>1
  <1>6. ASSUME NEW w \in Active(h, W) PROVE w \in Names(h.a, n)
    BY <1>4 DEF Active, Names
  <1>7. ASSUME NEW i \in 1 .. n PROVE h.a[i].w \in Active(h, W)
    BY <1>1 DEF Active
  <1>8. Active(h, W) = Names(h.a, n)
    BY <1>6, <1>7 DEF Names
  <1> QED
    BY <1>2, <1>3, <1>5, <1>8

\* Elements in another order are held as well, by the same active watchers at the same times.
LEMMA PermutedHeld ==
  ASSUME NEW W, NEW n \in Nat, NEW h, NEW g, Permuted(h, g, n, W),
         \A w \in W : (\A i \in 1 .. n : h.a[i].w # w) => h.ix[w] = 0
  PROVE  /\ Held(g, n, W) /\ Active(g, W) = Names(h.a, n)
         /\ \A T : Timed(h, n, T) => Timed(g, n, T)
  <1>1. ASSUME NEW w \in W, g.ix[w] > 0 PROVE g.ix[w] \in 1 .. n /\ g.a[g.ix[w]].w = w
    <2>1. CASE \E i \in 1 .. n : h.a[i].w = w
      <3>1. PICK i \in 1 .. n : h.a[i].w = w
        BY <2>1
      <3>2. PICK j \in 1 .. n : g.a[j] = h.a[i]
        BY DEF Permuted
      <3>3. g.ix[g.a[j].w] = j
        BY DEF Permuted
      <3> QED
        BY <3>1, <3>2, <3>3
    <2>2. CASE \A i \in 1 .. n : h.a[i].w # w
      <3>1. g.ix[w] = h.ix[w] /\ h.ix[w] = 0
        BY <2>2 DEF Permuted
      <3> QED
        BY <1>1, <3>1
    <2> QED
      BY <2>1, <2>2
  <1>2. Held(g, n, W)
    BY <1>1 DEF Permuted, Held
  <1>3. Active(g, W) = Names(g.a, n)
    BY <1>2, HeldIs
  <1>4. \A j \in 1 .. n : \E i \in 1 .. n : g.a[j] = h.a[i]
    BY DEF Permuted
  <1>5. \A i \in 1 .. n : \E j \in 1 .. n : g.a[j] = h.a[i]
    BY DEF Permuted
  <1>6. Names(g.a, n) = Names(h.a, n)
    <2>1. ASSUME NEW v PROVE v \in Names(g.a, n) <=> v \in Names(h.a, n)
      <3>1. ASSUME v \in Names(g.a, n) PROVE v \in Names(h.a, n)
        <4>1. PICK j \in 1 .. n : v = g.a[j].w
          BY <3>1 DEF Names
        <4>2. PICK i \in 1 .. n : g.a[j] = h.a[i]
          BY <1>4
        <4> QED
          BY <4>1, <4>2 DEF Names
      <3>2. ASSUME v \in Names(h.a, n) PROVE v \in Names(g.a, n)
        <4>1. PICK i \in 1 .. n : v = h.a[i].w
          BY <3>2 DEF Names
        <4>2. PICK j \in 1 .. n : g.a[j] = h.a[i]
          BY <1>5
        <4>3. v = g.a[j].w
          BY <4>1, <4>2
        <4> QED
          BY <4>3 DEF Names
      <3> QED
        BY <3>1, <3>2
    <2> QED
      BY <2>1
  <1>7. ASSUME NEW T, Timed(h, n, T) PROVE Timed(g, n, T)
    BY <1>4, <1>7 DEF Timed
  <1> QED
    BY <1>2, <1>3, <1>6, <1>7

\* Moved either way, an array in order but for k is in order.
LEMMA AdjustSorts ==
  ASSUME NEW W, NEW n \in Nat, NEW h, NEW k \in 1 .. n, Loose(h, k, n, W), Nearly(h.a, k, n),
         NEW g, g = Adjustheap(h, n, k)
  PROVE  Permuted(h, g, n, W) /\ Sorted(g.a, n)
  <1>1. \A i \in 1 .. n : h.a[i].at \in Int
    BY ElemIs DEF Loose
  <1>2. CASE k > 1 /\ h.a[k].at <= h.a[Parent(k)].at
    <2>1. g = Upheap(h, k)
      BY <1>2 DEF Adjustheap
    <2>2. Parent(k) \in 1 .. n
      BY <1>2, ParentIs
    <2>3. ASSUME NEW c \in 2 .. n, Parent(c) = k PROVE h.a[k].at <= h.a[c].at
      <3>1. h.a[Parent(k)].at <= h.a[c].at
        BY <1>2, <2>3 DEF Nearly
      <3>2. c \in 1 .. n
        OBVIOUS
      <3> QED
        BY <1>1, <1>2, <2>2, <3>1, <3>2
    <2>4. Below(h.a, k, n) /\ n \in k .. n
      BY <2>3 DEF Below
    <2> QED
      BY <2>1, <2>4, UpheapSorts
  <1>3. CASE ~(k > 1 /\ h.a[k].at <= h.a[Parent(k)].at)
    <2>1. g = Downheap(h, n, k)
      BY <1>3 DEF Adjustheap
    <2>2. k > 1 => h.a[Parent(k)].at <= h.a[k].at
      <3>1. k > 1 => Parent(k) \in 1 .. n
        BY ParentIs
      <3> QED
        BY <1>1, <1>3, <3>1
    <2> QED
      BY <2>1, <2>2, DownheapSorts
  <1> QED
    BY <1>2, <1>3

\* No element of a heap is before its root.
LEMMA RootLeast ==
  ASSUME NEW W, NEW n \in Nat, NEW x, Arr(x, W, n), Sorted(x, n)
  PROVE  \A i \in 1 .. n : x[1].at <= x[i].at
  <1>1. \A i \in 1 .. n : x[i].at \in Int
    BY ElemIs
  <1> DEFINE S == {i \in 1 .. n : x[1].at <= x[i].at}
  <1>2. ASSUME NEW j \in 1 .. n, \A i \in 1 .. j - 1 : i \in S PROVE j \in S
    <2>1. CASE j = 1
      BY <1>1, <2>1
    <2>2. CASE j # 1
      <3>1. Parent(j) \in 1 .. j - 1 /\ Parent(j) \in 1 .. n /\ 1 \in 1 .. n
        BY <2>2, ParentIs
      <3>2. x[Parent(j)].at <= x[j].at
        BY <2>2 DEF Sorted
      <3>3. x[1].at <= x[Parent(j)].at
        BY <1>2, <3>1
      <3> QED
        BY <1>1, <3>1, <3>2, <3>3
    <2> QED
      BY <2>1, <2>2
  <1>3. ASSUME NEW T, T = S PROVE \A j \in 1 .. n : j \in T
    <2> HIDE DEF S
    <2>1. \A j \in 1 .. n : (\A i \in 1 .. j - 1 : i \in T) => j \in T
      BY <1>2, <1>3
    <2> QED
      BY <2>1, UpFrom
  <1>4. \A j \in 1 .. n : j \in S
    <2> HIDE DEF S
    <2> QED
      BY <1>3
  <1> QED
    BY <1>4

\* A watcher's time is only looked at while it is active.
LEMMA SameTimes ==
  ASSUME NEW W, NEW n \in Nat, NEW h, NEW T, NEW U, IsHeap(h, n, W, T), SameOn(U, T, h, W)
  PROVE  IsHeap(h, n, W, U)
  <1>1. \A i \in 1 .. n : h.a[i].w \in Active(h, W)
    <2>1. Held(h, n, W)
      BY DEF IsHeap
    <2>2. Active(h, W) = Names(h.a, n)
      BY <2>1, HeldIs
    <2> QED
      BY <2>2 DEF Names
  <1> QED
    BY <1>1 DEF IsHeap, Timed, SameOn

\* l is the heap h of n elements with w.
HeapWith(l, h, n, W, U, w) ==
  \E m \in Nat : m = n + 1 /\ IsHeap(l, m, W, U) /\ Active(l, W) = Active(h, W) \cup {w}

\* ev_timer_start and ev_periodic_start: the heap with one more is a heap.
LEMMA EnterKeeps ==
  ASSUME NEW W, NEW n \in Nat, NEW h, NEW T, IsHeap(h, n, W, T), NEW w \in W, h.ix[w] = 0, NEW t \in Int,
         NEW U, IsAt(U, w, t), SameOn(U, T, h, W), NEW g, g = Enter(h, w, t)
  PROVE  HeapWith(g, h, n, W, U, w)
  <1>1. /\ n \in Nat /\ h.ix \in [W -> Nat] /\ h.a \in [1 .. n -> Elem(W)] /\ Len(h.a) = n
        /\ \A i \in 1 .. n : h.ix[h.a[i].w] = i
    BY DEF IsHeap, Held, Arr
  <1>2. PICK e \in Elem(W) : e = [at |-> t, w |-> w]
    BY DEF Elem
  <1>3. PICK x : x = Append(h.a, e)
    OBVIOUS
  <1>4. h.a \in Seq(Elem(W)) /\ n + 1 \in Nat
    BY <1>1, ArrayLen
  <1>5. /\ x \in [1 .. n + 1 -> Elem(W)] /\ Len(x) = n + 1
        /\ x[n + 1] = e /\ \A i \in 1 .. n : x[i] = h.a[i]
    <2>1. Grown(x, h.a, e, n, Elem(W))
      BY <1>1, <1>3, <1>4, AppendIs
    <2> QED
      BY <2>1 DEF Grown
  <1>6. PICK y \in [W -> Nat] : y = [h.ix EXCEPT ![w] = n + 1]
    BY <1>1, <1>4
  <1>7. y[w] = n + 1 /\ \A v \in W : v # w => y[v] = h.ix[v]
    BY <1>1, <1>6
  <1> DEFINE q == [a |-> x, ix |-> y]
  <1>8. q.a = x /\ q.ix = y
    OBVIOUS
  <1>9. Enter(h, w, t) = Upheap(q, n + 1)
    BY <1>1, <1>2, <1>3, <1>6 DEF Enter
  <1> HIDE DEF q
  <1>10. ASSUME NEW i \in 1 .. n PROVE h.a[i].w \in W /\ h.a[i].w # w
    <2>1. h.ix[h.a[i].w] # 0
      BY <1>1
    <2> QED
      BY <1>1, <2>1 DEF Elem
  <1>11. Apart(h.a, n)
    BY HeldIs DEF IsHeap
  <1>12. \A i \in 1 .. n + 1 : i \in 1 .. n \/ i = n + 1
    BY <1>1
  <1>13. x[n + 1].w = w /\ x[n + 1].at = t
    BY <1>2, <1>5
  <1>14. Apart(x, n + 1)
    BY <1>5, <1>10, <1>11, <1>12, <1>13 DEF Apart
  <1>15. Loose(q, n + 1, n + 1, W)
    <2>1. ASSUME NEW i \in (1 .. n + 1) \ {n + 1} PROVE y[x[i].w] = i
      <3>1. i \in 1 .. n
        BY <1>12
      <3>2. x[i].w = h.a[i].w /\ h.a[i].w \in W /\ h.a[i].w # w
        BY <1>5, <1>10, <3>1
      <3> QED
        BY <1>1, <1>7, <3>1, <3>2
    <2> QED
      BY <1>5, <1>8, <1>14, <2>1 DEF Loose, Arr
  <1>16. \A i \in 2 .. n + 1 : Parent(i) \in 1 .. n
    BY <1>1, ParentIs
  <1>17. Nearly(x, n + 1, n + 1) /\ Below(x, n + 1, n + 1)
    <2>1. \A c \in 2 .. n + 1 : Parent(c) # n + 1
      BY <1>1, <1>16
    <2>2. ASSUME NEW i \in 2 .. n + 1, i # n + 1 PROVE x[Parent(i)].at <= x[i].at
      <3>1. i \in 2 .. n /\ i \in 1 .. n
        BY <1>1, <2>2
      <3>2. h.a[Parent(i)].at <= h.a[i].at
        BY <3>1 DEF IsHeap, Sorted
      <3> QED
        BY <1>5, <1>16, <3>1, <3>2
    <2> QED
      BY <2>1, <2>2 DEF Nearly, Below
  <1>19. Permuted(q, g, n + 1, W) /\ Sorted(g.a, n + 1)
    <2>1. n + 1 \in 1 .. n + 1 /\ n + 1 \in n + 1 .. n + 1
      BY <1>1
    <2> QED
      BY <1>4, <1>8, <1>9, <1>15, <1>17, <2>1, UpheapSorts
  <1>20. \A v \in W : (\A i \in 1 .. n : h.a[i].w # v) => h.ix[v] = 0
    BY HeldIs, ZenonT(30) DEF IsHeap
  <1>21. ASSUME NEW v \in W, \A i \in 1 .. n + 1 : x[i].w # v PROVE y[v] = 0
    <2>1. n + 1 \in 1 .. n + 1 /\ \A i \in 1 .. n : i \in 1 .. n + 1
      BY <1>1
    <2>2. v # w /\ \A i \in 1 .. n : h.a[i].w # v
      BY <1>5, <1>13, <1>21, <2>1
    <2> QED
      BY <1>7, <1>20, <2>2
  <1>22. Active(h, W) = Names(h.a, n)
    BY HeldIs DEF IsHeap
  <1>23. Timed(q, n + 1, U)
    <2>1. ASSUME NEW i \in 1 .. n PROVE x[i].at = U[x[i].w]
      <3>1. h.a[i].at = T[h.a[i].w] /\ h.a[i].w \in Active(h, W)
        BY <1>22 DEF IsHeap, Timed, Names
      <3> QED
        BY <1>5, <3>1 DEF SameOn
    <2> QED
      BY <1>8, <1>12, <1>13, <2>1 DEF Timed, IsAt
  <1>24. Held(g, n + 1, W) /\ Timed(g, n + 1, U) /\ Active(g, W) = Names(x, n + 1)
    <2>1. \A v \in W : (\A i \in 1 .. n + 1 : q.a[i].w # v) => q.ix[v] = 0
      BY <1>8, <1>21
    <2> QED
      BY <1>4, <1>8, <1>19, <1>23, <2>1, PermutedHeld
  <1>25. Names(x, n + 1) = Names(h.a, n) \cup {w}
    <2>1. n + 1 \in 1 .. n + 1 /\ \A i \in 1 .. n : i \in 1 .. n + 1
      BY <1>1
    <2>2. \A i \in 1 .. n + 1 : x[i].w \in Names(h.a, n) \cup {w}
      BY <1>5, <1>12, <1>13 DEF Names
    <2>3. \A i \in 1 .. n : h.a[i].w \in Names(x, n + 1)
      BY <1>5, <2>1 DEF Names
    <2>4. w \in Names(x, n + 1)
      BY <1>13, <2>1 DEF Names
    <2> QED
      BY <2>2, <2>3, <2>4 DEF Names
  <1> QED
    BY <1>4, <1>19, <1>22, <1>24, <1>25 DEF IsHeap, HeapWith

Vacated(q, h, k, m) == q = [h EXCEPT !.a = [i \in 1 .. m |-> h.a[IF i = k THEN m + 1 ELSE i]]]

Vacating(h, w, q, g, k, m) ==
  /\ k = h.ix[w] /\ m = Len(h.a) - 1 /\ Vacated(q, h, k, m)
  /\ g = IF k <= m THEN Adjustheap(q, m, k) ELSE q

\* Leave clears the active field in the heap that is left.
LEMMA LeaveIs ==
  ASSUME NEW h, NEW w, NEW k, NEW m, NEW q, NEW g, Vacating(h, w, q, g, k, m)
  PROVE  Leave(h, w) = [g EXCEPT !.ix[w] = 0]
  BY DEF Leave, Vacating, Vacated

\* l is the heap h of n elements without w.
HeapWithout(l, h, n, W, U, w) ==
  \E m \in Nat : n = m + 1 /\ IsHeap(l, m, W, U) /\ Active(l, W) = Active(h, W) \ {w}

\* What leaves is replaced by the last.
LEMMA LeaveKeeps ==
  ASSUME NEW W, NEW n \in Nat, NEW h, NEW T, IsHeap(h, n, W, T), NEW w \in Active(h, W),
         NEW U, SameBut(U, T, h, W, w), NEW l, l = Leave(h, w)
  PROVE  HeapWithout(l, h, n, W, U, w)
  <1>1. /\ n \in Nat /\ h.ix \in [W -> Nat] /\ h.a \in [1 .. n -> Elem(W)] /\ Len(h.a) = n
        /\ h = [a |-> h.a, ix |-> h.ix]
        /\ \A i \in 1 .. n : h.ix[h.a[i].w] = i
    BY DEF IsHeap, Held, Arr
  <1>2. PICK k \in 1 .. n : k = h.ix[w] /\ h.a[k].w = w /\ w \in W
    BY DEF Active, IsHeap, Held
  <1>3. PICK m \in Nat : m = n - 1
    BY <1>1
  <1>4. Len(h.a) - 1 = m /\ m + 1 = n
    BY <1>1, <1>3
  <1>5. PICK x : x = [i \in 1 .. m |-> h.a[IF i = k THEN m + 1 ELSE i]]
    OBVIOUS
  <1>6. \A i \in 1 .. m : x[i] = h.a[IF i = k THEN n ELSE i]
    BY <1>3, <1>4, <1>5
  <1>7. x \in [1 .. m -> Elem(W)]
    BY <1>1, <1>3, <1>4, <1>5
  <1>8. Arr(x, W, m)
    BY <1>7, ArrayLen DEF Arr
  <1> DEFINE q == [a |-> x, ix |-> h.ix]
  <1>9. q.a = x /\ q.ix = h.ix
    OBVIOUS
  <1>10. [h EXCEPT !.a = x] = q
    BY <1>1
  <1>101. Vacated(q, h, k, m)
    BY <1>5, <1>10 DEF Vacated
  <1> HIDE DEF q
  <1>11. PICK g : g = IF k <= m THEN Adjustheap(q, m, k) ELSE q
    OBVIOUS
  <1>12. Leave(h, w) = [g EXCEPT !.ix[w] = 0]
    <2>1. Vacating(h, w, q, g, k, m)
      BY <1>2, <1>4, <1>101, <1>11 DEF Vacating
    <2> QED
      BY <2>1, LeaveIs
  <1>13. Apart(h.a, n) /\ Active(h, W) = Names(h.a, n)
         /\ \A v \in W : (\A i \in 1 .. n : h.a[i].w # v) => h.ix[v] = 0
    BY HeldIs DEF IsHeap
  <1>14. Apart(x, m)
    <2>1. ASSUME NEW i \in 1 .. m, NEW j \in 1 .. m, x[i].w = x[j].w PROVE i = j
      <3>1. PICK r \in 1 .. n : r = (IF i = k THEN n ELSE i)
        BY <1>3, <1>4
      <3>2. PICK s \in 1 .. n : s = (IF j = k THEN n ELSE j)
        BY <1>3, <1>4
      <3>3. h.a[r].w = h.a[s].w
        BY <1>6, <2>1, <3>1, <3>2
      <3>4. r = s
        BY <1>13, <3>3 DEF Apart
      <3> QED
        BY <1>3, <3>1, <3>2, <3>4
    <2> QED
      BY <2>1 DEF Apart
  <1>15. \A i \in (1 .. m) \ {k} : h.ix[x[i].w] = i
    BY <1>1, <1>3, <1>6
  <1>16. Sorted(h.a, n)
    BY DEF IsHeap
  <1>17. Permuted(q, g, m, W) /\ Sorted(g.a, m)
    <2>1. CASE k <= m
      <3>1. k \in 1 .. m
        BY <2>1
      <3>2. Loose(q, k, m, W)
        BY <1>1, <1>8, <1>9, <1>14, <1>15 DEF Loose
      <3>3. ASSUME NEW i \in 2 .. m PROVE i \in 2 .. n /\ i \in 1 .. m /\ Parent(i) \in 1 .. m /\ Parent(i) # i
        <4>1. i \in Nat /\ i >= 2
          OBVIOUS
        <4>2. Parent(i) \in Nat /\ Parent(i) >= 1 /\ Parent(i) < i
          BY <4>1, ParentIs
        <4> QED
          BY <1>1, <1>3, <4>2
      <3>4. ASSUME NEW i \in 2 .. m, i # k, Parent(i) # k PROVE x[Parent(i)].at <= x[i].at
        <4>1. x[i] = h.a[i] /\ x[Parent(i)] = h.a[Parent(i)]
          BY <1>6, <3>3, <3>4
        <4> QED
          BY <1>16, <3>3, <4>1 DEF Sorted
      <3>5. ASSUME k > 1, NEW c \in 2 .. m, Parent(c) = k PROVE x[Parent(k)].at <= x[c].at
        <4>1. k \in 2 .. m
          BY <3>1, <3>5
        <4>2. x[c] = h.a[c] /\ x[Parent(k)] = h.a[Parent(k)] /\ Parent(k) \in 1 .. n /\ c \in 1 .. n
          <5>1. c \in 1 .. m /\ c # k /\ Parent(k) \in 1 .. m /\ Parent(k) # k
            BY <3>3, <3>5, <4>1
          <5> QED
            BY <1>1, <1>3, <1>6, <5>1
        <4>3. h.a[Parent(k)].at <= h.a[k].at /\ h.a[k].at <= h.a[c].at
          BY <1>16, <3>3, <3>5, <4>1 DEF Sorted
        <4>4. h.a[Parent(k)].at \in Int /\ h.a[k].at \in Int /\ h.a[c].at \in Int
          BY <1>1, <4>2, ElemIs DEF Arr
        <4> QED
          BY <4>2, <4>3, <4>4
      <3>6. Nearly(q.a, k, m)
        BY <1>9, <3>4, <3>5 DEF Nearly
      <3>7. g = Adjustheap(q, m, k)
        BY <1>11, <2>1
      <3> QED
        BY <3>1, <3>2, <3>6, <3>7, AdjustSorts
    <2>2. CASE ~(k <= m)
      <3>1. g = q /\ k \notin 1 .. m
        BY <1>11, <2>2
      <3>2. \A i \in 1 .. m : x[i] = h.a[i] /\ h.ix[x[i].w] = i
        BY <1>6, <1>15, <3>1
      <3>3. q = [a |-> q.a, ix |-> q.ix]
        BY DEF q
      <3>4. Permuted(q, g, m, W)
        BY <1>1, <1>8, <1>9, <1>14, <3>1, <3>2, <3>3 DEF Permuted
      <3>5. ASSUME NEW i \in 2 .. m PROVE x[Parent(i)].at <= x[i].at
        <4>1. i \in 2 .. n /\ i \in 1 .. m /\ Parent(i) \in 1 .. m
          <5>1. i \in Nat /\ i >= 2
            OBVIOUS
          <5>2. Parent(i) \in Nat /\ Parent(i) >= 1 /\ Parent(i) < i
            BY <5>1, ParentIs
          <5> QED
            BY <1>1, <1>3, <5>2
        <4> QED
          BY <1>16, <3>2, <4>1 DEF Sorted
      <3> QED
        BY <1>9, <3>1, <3>4, <3>5 DEF Sorted
    <2> QED
      BY <2>1, <2>2
  <1>18. /\ g = [a |-> g.a, ix |-> g.ix] /\ Arr(g.a, W, m) /\ Apart(g.a, m) /\ g.ix \in [W -> Nat]
         /\ \A i \in 1 .. m : g.ix[g.a[i].w] = i
         /\ \A j \in 1 .. m : \E i \in 1 .. m : g.a[j] = x[i]
         /\ \A i \in 1 .. m : \E j \in 1 .. m : g.a[j] = x[i]
         /\ \A v \in W : (\A i \in 1 .. m : x[i].w # v) => g.ix[v] = h.ix[v]
    BY <1>9, <1>17 DEF Permuted
  <1>19. PICK y \in [W -> Nat] : y = [g.ix EXCEPT ![w] = 0]
    BY <1>18
  <1>20. y[w] = 0 /\ \A v \in W : v # w => y[v] = g.ix[v]
    BY <1>2, <1>18, <1>19
  <1>22. l = [a |-> g.a, ix |-> y]
    BY <1>12, <1>18, <1>19
  <1>23. l.a = g.a /\ l.ix = y /\ l = [a |-> l.a, ix |-> l.ix]
    BY <1>22
  <1>24. ASSUME NEW i \in 1 .. m PROVE x[i].w \in W /\ x[i].w # w /\ x[i].w \in Active(h, W) /\ x[i].at = T[x[i].w]
    <2>1. PICK r \in 1 .. n : r = (IF i = k THEN n ELSE i)
      BY <1>3, <1>4
    <2>2. r # k
      BY <1>3, <2>1
    <2>3. x[i] = h.a[r]
      BY <1>6, <2>1
    <2>4. h.a[r].w # h.a[k].w
      BY <1>13, <2>2 DEF Apart
    <2>5. h.a[r].w \in W /\ h.a[r].at = T[h.a[r].w]
      BY <1>1, ElemIs DEF Arr, IsHeap, Timed
    <2> QED
      BY <1>2, <1>13, <2>3, <2>4, <2>5 DEF Names
  <1>25. ASSUME NEW v \in Active(h, W) \ {w} PROVE \E i \in 1 .. m : x[i].w = v
    <2>1. PICK r \in 1 .. n : h.a[r].w = v
      BY <1>13 DEF Names
    <2>2. r # k
      BY <1>2, <2>1
    <2>3. CASE r = n
      <3>1. k \in 1 .. m
        BY <1>1, <1>3, <2>2, <2>3
      <3> QED
        BY <1>6, <2>1, <2>3, <3>1
    <2>4. CASE r # n
      <3>1. r \in 1 .. m
        BY <1>1, <1>3, <2>4
      <3> QED
        BY <1>6, <2>1, <2>2, <3>1
    <2> QED
      BY <2>3, <2>4
  <1>26. ASSUME NEW j \in 1 .. m PROVE g.a[j].w \in Active(h, W) \ {w} /\ g.a[j].at = U[g.a[j].w] /\ l.ix[g.a[j].w] = j
    <2>1. PICK i \in 1 .. m : g.a[j] = x[i]
      BY <1>18
    <2>2. g.a[j].w \in W /\ g.a[j].w # w /\ g.a[j].w \in Active(h, W) /\ g.a[j].at = T[g.a[j].w]
      BY <1>24, <2>1
    <2> QED
      BY <1>18, <1>20, <1>23, <2>2 DEF SameBut
  <1>27. ASSUME NEW v \in W, y[v] > 0 PROVE y[v] \in 1 .. m /\ g.a[y[v]].w = v /\ v \in Active(h, W) \ {w}
    <2>1. v # w /\ y[v] = g.ix[v]
      BY <1>20, <1>27
    <2>2. CASE \E i \in 1 .. m : x[i].w = v
      <3>1. PICK i \in 1 .. m : x[i].w = v
        BY <2>2
      <3>2. PICK j \in 1 .. m : g.a[j] = x[i]
        BY <1>18
      <3>3. y[v] = j
        BY <1>18, <2>1, <3>1, <3>2
      <3> QED
        BY <1>24, <3>1, <3>2, <3>3
    <2>3. CASE \A i \in 1 .. m : x[i].w # v
      <3>1. g.ix[v] = h.ix[v]
        BY <1>18, <2>3
      <3>2. v \notin Active(h, W)
        BY <1>25, <2>1, <2>3
      <3>3. h.ix[v] = 0
        BY <1>1, <3>2 DEF Active
      <3> QED
        BY <1>27, <2>1, <3>1, <3>3
    <2> QED
      BY <2>2, <2>3
  <1>28. Held(l, m, W)
    BY <1>18, <1>23, <1>26, <1>27, <1>19 DEF Held
  <1>29. Timed(l, m, U)
    BY <1>23, <1>26 DEF Timed
  <1>30. Active(l, W) = Active(h, W) \ {w}
    <2>1. ASSUME NEW v \in Active(l, W) PROVE v \in Active(h, W) \ {w}
      BY <1>23, <1>27 DEF Active
    <2>2. ASSUME NEW v \in Active(h, W) \ {w} PROVE v \in Active(l, W)
      <3>1. PICK i \in 1 .. m : x[i].w = v
        BY <1>25
      <3>2. PICK j \in 1 .. m : g.a[j] = x[i]
        BY <1>18
      <3>3. l.ix[v] = j /\ v \in W
        BY <1>24, <1>26, <3>1, <3>2
      <3> QED
        BY <3>3 DEF Active
    <2> QED
      BY <2>1, <2>2
  <1> QED
    BY <1>3, <1>4, <1>17, <1>23, <1>28, <1>29, <1>30 DEF IsHeap, HeapWithout

\* g is h with another time in the element k of w.
Touched(g, h, n, w, t, k) ==
  /\ g.ix = h.ix /\ k = h.ix[w] /\ k \in 1 .. n
  /\ g.a[k].w = w /\ g.a[k].at = t /\ h.a[k].w = w
  /\ \A i \in (1 .. n) \ {k} : g.a[i] = h.a[i] /\ h.a[i].w # w
  /\ \A i \in 1 .. n : g.a[i].w = h.a[i].w

\* Only the cached time of w changes.
LEMMA RetimedIs ==
  ASSUME NEW W, NEW n \in Nat, NEW h, Held(h, n, W), NEW w \in Active(h, W), NEW t \in Int,
         NEW g, g = Retimed(h, w, t)
  PROVE  Held(g, n, W) /\ \E k \in 1 .. n : Touched(g, h, n, w, t, k)
  <1>1. /\ n \in Nat /\ h.ix \in [W -> Nat] /\ h.a \in [1 .. n -> Elem(W)] /\ Len(h.a) = n
        /\ h = [a |-> h.a, ix |-> h.ix]
        /\ \A i \in 1 .. n : h.ix[h.a[i].w] = i
    BY DEF Held, Arr
  <1>2. PICK k \in 1 .. n : k = h.ix[w] /\ h.a[k].w = w /\ w \in W
    BY DEF Active, Held
  <1>3. PICK e \in Elem(W) : e = [at |-> t, w |-> w]
    BY <1>2 DEF Elem
  <1>4. [h.a[k] EXCEPT !.at = t] = e
    <2>1. PICK f \in Elem(W) : f = h.a[k]
      BY <1>1
    <2>2. [f EXCEPT !.at = t] = [at |-> t, w |-> f.w]
      BY DEF Elem
    <2> QED
      BY <1>2, <1>3, <2>1, <2>2
  <1>5. PICK x : x = [h.a EXCEPT ![k] = e]
    OBVIOUS
  <1>6. x \in [1 .. n -> Elem(W)] /\ x[k] = e /\ \A i \in (1 .. n) \ {k} : x[i] = h.a[i]
    BY <1>1, <1>5
  <1>7. g = [a |-> x, ix |-> h.ix]
    BY <1>1, <1>2, <1>4, <1>5 DEF Retimed
  <1>8. g.a = x /\ g.ix = h.ix /\ g = [a |-> g.a, ix |-> g.ix]
    BY <1>7
  <1>9. Arr(x, W, n)
    BY <1>1, <1>6, ArrayLen DEF Arr
  <1>10. \A i \in 1 .. n : x[i].w = h.a[i].w
    BY <1>2, <1>3, <1>6
  <1>11. \A i \in (1 .. n) \ {k} : h.a[i].w # w
    BY <1>1, <1>2
  <1>12. Held(g, n, W)
    <2>1. \A i \in 1 .. n : g.ix[g.a[i].w] = i
      BY <1>1, <1>8, <1>10
    <2>2. ASSUME NEW v \in W, g.ix[v] > 0 PROVE g.ix[v] \in 1 .. n /\ g.a[g.ix[v]].w = v
      <3>1. h.ix[v] \in 1 .. n /\ h.a[h.ix[v]].w = v
        BY <1>8, <2>2 DEF Held
      <3> QED
        BY <1>8, <1>10, <3>1
    <2> QED
      BY <1>1, <1>8, <1>9, <2>1, <2>2 DEF Held
  <1>13. x[k].w = w /\ x[k].at = t
    BY <1>3, <1>6
  <1>14. Touched(g, h, n, w, t, k)
    BY <1>2, <1>6, <1>8, <1>10, <1>11, <1>13 DEF Touched
  <1> QED
    BY <1>12, <1>14

\* A watcher in the heap gets another time and its element is moved to where it belongs.
Resettled(g, h, n, w, t) ==
  \/ g = Adjustheap(Retimed(h, w, t), n, h.ix[w])
  \/ h.ix[w] = 1 /\ g = Downheap(Retimed(h, w, t), n, 1)

\* adjustheap, or downheap from the root, makes it a heap of the same watchers.
LEMMA ReadjustKeeps ==
  ASSUME NEW W, NEW n \in Nat, NEW h, NEW T, IsHeap(h, n, W, T), NEW w \in Active(h, W), NEW t \in Int,
         NEW U, IsAt(U, w, t), SameBut(U, T, h, W, w),
         NEW g, Resettled(g, h, n, w, t)
  PROVE  IsHeap(g, n, W, U) /\ Active(g, W) = Active(h, W)
  <1>1. Held(h, n, W) /\ n \in Nat /\ Sorted(h.a, n) /\ Timed(h, n, T)
    BY DEF IsHeap, Held
  <1>2. PICK q : q = Retimed(h, w, t)
    OBVIOUS
  <1>3. Held(q, n, W) /\ \E k \in 1 .. n : Touched(q, h, n, w, t, k)
    BY <1>1, <1>2, RetimedIs
  <1>31. PICK k \in 1 .. n : Touched(q, h, n, w, t, k)
    BY <1>3
  <1>4. /\ Held(q, n, W) /\ q.ix = h.ix /\ k \in 1 .. n /\ k = h.ix[w]
        /\ q.a[k].w = w /\ q.a[k].at = t /\ h.a[k].w = w
        /\ \A i \in (1 .. n) \ {k} : q.a[i] = h.a[i] /\ h.a[i].w # w
        /\ \A i \in 1 .. n : q.a[i].w = h.a[i].w
    BY <1>3, <1>31 DEF Touched
  <1>5. Active(q, W) = Active(h, W) /\ Active(q, W) = Names(q.a, n)
    <2>1. Active(q, W) = Active(h, W)
      BY <1>4 DEF Active
    <2>2. Active(q, W) = Names(q.a, n)
      BY <1>3, HeldIs
    <2> QED
      BY <2>1, <2>2
  <1>6. Timed(q, n, U)
    <2>1. ASSUME NEW i \in 1 .. n PROVE q.a[i].at = U[q.a[i].w]
      <3>1. CASE i = k
        BY <1>4, <3>1 DEF IsAt
      <3>2. CASE i # k
        <4>1. q.a[i] = h.a[i] /\ h.a[i].w # w
          BY <1>4, <3>2
        <4>2. h.a[i].w \in Active(h, W)
          BY <1>5, <4>1 DEF Names
        <4>3. h.a[i].at = T[h.a[i].w]
          BY <1>1 DEF Timed
        <4> QED
          BY <4>1, <4>2, <4>3 DEF SameBut
      <3> QED
        BY <3>1, <3>2
    <2> QED
      BY <2>1 DEF Timed
  <1>7. \A i \in 1 .. n : h.a[i].at \in Int
    BY <1>1, ElemIs DEF Held
  <1>8. ASSUME NEW i \in 2 .. n PROVE i \in 1 .. n /\ Parent(i) \in 1 .. n /\ Parent(i) # i /\ h.a[Parent(i)].at <= h.a[i].at
    <2>1. i \in Nat /\ i >= 2
      OBVIOUS
    <2> QED
      BY <1>1, <2>1, ParentIs DEF Sorted
  <1>9. Nearly(q.a, k, n)
    <2>1. ASSUME NEW i \in 2 .. n, i # k, Parent(i) # k PROVE q.a[Parent(i)].at <= q.a[i].at
      BY <1>4, <1>8, <2>1
    <2>2. ASSUME k > 1, NEW c \in 2 .. n, Parent(c) = k PROVE q.a[Parent(k)].at <= q.a[c].at
      <3>1. k \in 2 .. n /\ c # k
        BY <1>4, <1>8, <2>2
      <3>2. q.a[Parent(k)] = h.a[Parent(k)] /\ q.a[c] = h.a[c]
        BY <1>4, <1>8, <3>1
      <3>3. h.a[Parent(k)].at <= h.a[k].at /\ h.a[k].at <= h.a[c].at
        BY <1>8, <2>2, <3>1
      <3> QED
        BY <1>7, <1>8, <3>1, <3>2, <3>3
    <2> QED
      BY <2>1, <2>2 DEF Nearly
  <1>10. Loose(q, k, n, W)
    BY <1>4, HeldIs
  <1>11. Permuted(q, g, n, W) /\ Sorted(g.a, n)
    <2>1. CASE g = Adjustheap(q, n, k)
      BY <1>1, <1>4, <1>9, <1>10, <2>1, AdjustSorts
    <2>2. CASE k = 1 /\ g = Downheap(q, n, 1)
      <3>1. ~(k > 1)
        BY <2>2
      <3> QED
        BY <1>1, <1>4, <1>9, <1>10, <2>2, <3>1, DownheapSorts
    <2> QED
      BY <1>2, <1>4, <2>1, <2>2 DEF Resettled
  <1>12. \A v \in W : (\A i \in 1 .. n : q.a[i].w # v) => q.ix[v] = 0
    <2>1. Held(q, n, W)
      BY <1>4
    <2> QED
      BY <2>1, HeldIs
  <1>13. Held(g, n, W) /\ Timed(g, n, U) /\ Active(g, W) = Names(q.a, n)
    BY <1>1, <1>6, <1>11, <1>12, PermutedHeld
  <1> QED
    BY <1>5, <1>11, <1>13 DEF IsHeap

\* reheap makes a heap of any array: upheap puts one position after the other in order.
LEMMA ReheapKeeps ==
  ASSUME NEW W, NEW n \in Nat, NEW h, NEW T, Held(h, n, W), Timed(h, n, T)
  PROVE  IsHeap(Reheap(h), n, W, T) /\ Active(Reheap(h), W) = Active(h, W)
  <1> DEFINE X == {g \in [a : [1 .. n -> Elem(W)], ix : [W -> Nat]] :
                     Held(g, n, W) /\ Timed(g, n, T) /\ Active(g, W) = Active(h, W)}
             st == [i \in 1 .. n |-> [g \in X |-> Upheap(g, i)]]
             Is(f) == f = [i \in 0 .. Len(h.a) |-> IF i = 0 THEN h ELSE Upheap(f[i - 1], i)]
  <1>1. n \in Nat /\ Len(h.a) = n
    BY DEF Held, Arr
  <1>2. ASSUME NEW g, Held(g, n, W), Timed(g, n, T), Active(g, W) = Active(h, W) PROVE g \in X
    <2>1. g.a \in [1 .. n -> Elem(W)] /\ g.ix \in [W -> Nat] /\ g = [a |-> g.a, ix |-> g.ix]
      BY <1>2 DEF Held, Arr
    <2>2. g \in [a : [1 .. n -> Elem(W)], ix : [W -> Nat]]
      BY <2>1
    <2> QED
      BY <1>2, <2>2
  <1>3. h \in X
    BY <1>2
  <1>4. \A g \in X : Held(g, n, W) /\ Timed(g, n, T) /\ Active(g, W) = Active(h, W)
    OBVIOUS
  <1> HIDE DEF X
  <1>5. ASSUME NEW g \in X, NEW i \in 1 .. n
        PROVE  /\ Upheap(g, i) \in X
               /\ Sorted(g.a, i - 1) => Sorted(Upheap(g, i).a, i)
    <2>1. PICK l : l = Upheap(g, i)
      OBVIOUS
    <2>2. Loose(g, i, n, W) /\ Active(g, W) = Names(g.a, n)
          /\ \A w \in W : (\A j \in 1 .. n : g.a[j].w # w) => g.ix[w] = 0
      BY <1>4, HeldIs
    <2>3. /\ Permuted(g, l, n, W)
          /\ \A m \in i .. n : Nearly(g.a, i, m) /\ Below(g.a, i, m) => Sorted(l.a, m)
      BY <1>1, <2>1, <2>2, UpheapSorts
    <2>4. Held(l, n, W) /\ Timed(l, n, T) /\ Active(l, W) = Names(g.a, n)
      BY <1>1, <1>4, <2>2, <2>3, PermutedHeld
    <2>5. l \in X
      BY <1>2, <1>4, <2>2, <2>4
    <2>6. ASSUME Sorted(g.a, i - 1) PROVE Sorted(l.a, i)
      <3>1. \A j \in 2 .. i : Parent(j) # i
        BY ParentIs
      <3>2. \A j \in 2 .. i : j # i => j \in 2 .. i - 1
        OBVIOUS
      <3>3. Nearly(g.a, i, i) /\ Below(g.a, i, i)
        BY <2>6, <3>1, <3>2 DEF Sorted, Nearly, Below
      <3>4. i \in i .. n
        OBVIOUS
      <3> QED
        BY <2>3, <3>3, <3>4
    <2> QED
      BY <2>1, <2>5, <2>6
  <1>6. StepFcns(X, n, st)
    BY <1>5 DEF StepFcns
  <1>7. \A i \in 1 .. n : \A g \in X : st[i][g] = Upheap(g, i)
    OBVIOUS
  <1> HIDE DEF st
  <1>8. PICK f \in [0 .. n -> X] : f[0] = h /\ \A i \in 1 .. n : f[i] = st[i][f[i - 1]]
    <2>1. \E f : Walk(X, n, st, h, f)
      BY <1>1, <1>3, <1>6, StepsExist
    <2> QED
      BY <2>1 DEF Walk
  <1>9. ASSUME NEW i \in 0 .. n PROVE f[i] = IF i = 0 THEN h ELSE Upheap(f[i - 1], i)
    <2>1. i # 0 => i \in 1 .. n /\ f[i - 1] \in X
      BY <1>1, <1>8
    <2> QED
      BY <1>7, <1>8, <2>1
  <1>10. Is(f)
    BY <1>1, <1>8, <1>9
  <1>11. PICK u : u = CHOOSE f_1 : Is(f_1)
    OBVIOUS
  <1>12. Is(u)
    BY <1>10, <1>11
  <1>13. Reheap(h) = u[n]
    BY <1>1, <1>11 DEF Reheap
  <1>14. \A i \in 0 .. n : u[i] = IF i = 0 THEN h ELSE Upheap(u[i - 1], i)
    BY <1>1, <1>12
  <1> DEFINE S == {i \in 0 .. n : u[i] \in X /\ Sorted(u[i].a, i)}
  <1>15. 0 \in S
    BY <1>1, <1>3, <1>14 DEF Sorted
  <1>16. ASSUME NEW i \in 1 .. n, i - 1 \in S PROVE i \in S
    <2>1. i \in 0 .. n /\ i # 0 /\ u[i - 1] \in X /\ Sorted(u[i - 1].a, i - 1)
      BY <1>1, <1>16
    <2>2. u[i] = Upheap(u[i - 1], i)
      BY <1>14, <2>1
    <2> QED
      BY <1>5, <2>1, <2>2
  <1>17. ASSUME NEW V, V = S PROVE n \in V
    <2> HIDE DEF S
    <2>1. 0 \in V /\ \A i \in 1 .. n : i - 1 \in V => i \in V
      BY <1>15, <1>16, <1>17
    <2>2. \A i \in 0 .. n : i \in V
      BY <1>1, <2>1, UpTo
    <2> QED
      BY <1>1, <2>2
  <1>18. u[n] \in X /\ Sorted(u[n].a, n)
    <2>1. n \in S
      <3> HIDE DEF S
      <3> QED
        BY <1>17
    <2> QED
      BY <2>1
  <1> QED
    BY <1>4, <1>13, <1>18 DEF IsHeap

-----------------------------------------------------------------------------
(***************************************************************************)
(* Reifying: watchers are fed in the order in which they were due, until   *)
(* none is overdue.  Near is where a watcher that stays may be set to.     *)
(***************************************************************************)
Feedings(W) == [w : W, due : Int]

\* The fields of a fed watcher.
LEMMA EntryIs ==
  ASSUME NEW W, NEW f \in Seq(Feedings(W))
  PROVE  Len(f) \in Nat /\ \A i \in 1 .. Len(f) : f[i].w \in W /\ f[i].due \in Int
  <1>1. \A i \in 1 .. Len(f) : f[i] \in Feedings(W)
    OBVIOUS
  <1>2. \A e \in Feedings(W) : e.w \in W /\ e.due \in Int
    BY DEF Feedings
  <1> QED
    BY <1>1, <1>2

Reifying(s, b, W, t, Near) ==
  /\ s = [feed |-> s.feed, at |-> s.at, h |-> s.h]
  /\ s.feed \in Seq(Feedings(W)) /\ s.at \in [TimerWatchers -> Int]
  /\ \E m \in Nat : IsHeap(s.h, m, W, s.at)
  /\ \A v \in Active(s.h, W) : <<v, s.at[v]>> \in Near
  /\ \A i, j \in 1 .. Len(s.feed) : i < j => s.feed[i].due <= s.feed[j].due
  /\ \A i \in 1 .. Len(s.feed) : \A v \in Active(s.h, W) : s.feed[i].due <= s.at[v]
  /\ \A v \in Active(b.h, W) : b.at[v] < t =>
       (v \in Active(s.h, W) /\ s.at[v] < t) \/ \E i \in 1 .. Len(s.feed) : s.feed[i].w = v
Late(s, W, t) == {v \in Active(s.h, W) : s.at[v] < t}

RootOf(h, m, W, T, t) ==
  /\ Len(h.a) = m
  /\ m > 0 => /\ h.a[1].w \in Active(h, W) /\ h.a[1].at = T[h.a[1].w] /\ h.ix[h.a[1].w] = 1
              /\ \A v \in Active(h, W) : T[h.a[1].w] <= T[v]
  /\ m = 0 => Active(h, W) = {}
  /\ Due(h, t) => m > 0
  /\ Due(h, t) <=> \E v \in Active(h, W) : T[v] < t

\* What Due reads is the earliest active watcher.
LEMMA RootIs ==
  ASSUME NEW W \in SUBSET TimerWatchers, NEW h, NEW T \in [TimerWatchers -> Int], NEW t \in Int,
         NEW m \in Nat, IsHeap(h, m, W, T)
  PROVE  RootOf(h, m, W, T, t)
  <1>1. Held(h, m, W) /\ Timed(h, m, T) /\ Sorted(h.a, m) /\ Arr(h.a, W, m) /\ Len(h.a) = m
    BY DEF IsHeap, Held, Arr
  <1>2. Active(h, W) = Names(h.a, m)
    BY <1>1, HeldIs
  <1>3. \A i \in 1 .. m : h.a[1].at <= h.a[i].at /\ h.a[i].at = T[h.a[i].w]
    BY <1>1, RootLeast DEF Timed
  <1>4. ASSUME m > 0
        PROVE  /\ 1 \in 1 .. m /\ h.a[1].w \in Active(h, W) /\ h.a[1].at = T[h.a[1].w] /\ h.ix[h.a[1].w] = 1
               /\ \A v \in Active(h, W) : T[h.a[1].w] <= T[v]
    <2>1. 1 \in 1 .. m
      BY <1>4
    <2>2. \A v \in Active(h, W) : T[h.a[1].w] <= T[v]
      <3>1. ASSUME NEW v \in Active(h, W) PROVE T[h.a[1].w] <= T[v]
        <4>1. PICK i \in 1 .. m : v = h.a[i].w
          BY <1>2 DEF Names
        <4> QED
          BY <1>3, <2>1, <4>1
      <3> QED
        BY <3>1
    <2> QED
      BY <1>1, <1>2, <1>3, <2>1, <2>2 DEF Held, Names
  <1>5. m = 0 => Active(h, W) = {}
    BY <1>2 DEF Names
  <1>6. Active(h, W) \subseteq TimerWatchers
    BY DEF Active
  <1>7. CASE m > 0
    <2>1. Due(h, t) <=> T[h.a[1].w] < t
      BY <1>1, <1>4, <1>7 DEF Due, Root
    <2>2. ASSUME NEW v \in Active(h, W), T[v] < t PROVE T[h.a[1].w] < t
      <3>1. T[h.a[1].w] <= T[v] /\ T[v] \in Int /\ T[h.a[1].w] \in Int
        BY <1>4, <1>6, <1>7
      <3> QED
        BY <2>2, <3>1
    <2> QED
      BY <1>1, <1>4, <1>7, <2>1, <2>2 DEF RootOf
  <1>8. CASE m = 0
    BY <1>1, <1>5, <1>8 DEF Due, RootOf
  <1> QED
    BY <1>7, <1>8

\* z is what a step makes of s: w is fed, and set to x or taken out of the heap.
Stepped(z, s, w, x, g, t, Near) ==
  /\ w = s.h.a[1].w
  /\ \/ x >= t /\ <<w, x>> \in Near /\ g = Downheap(Retimed(s.h, w, x), Len(s.h.a), 1)
     \/ g = Leave(s.h, w)
  /\ z = [feed |-> Append(s.feed, [w |-> w, due |-> s.at[w]]), at |-> [s.at EXCEPT ![w] = x], h |-> g]
\* None is overdue after as many steps as the heap has elements, as each leaves one less.
Steady(s, b, W, t, Near, z) ==
  Reifying(z, b, W, t, Near) /\ \E w \in Late(s, W, t) : Late(z, W, t) = Late(s, W, t) \ {w}

\* One step of reifying keeps the heap and the order, and leaves one fewer watcher late.
LEMMA FeedStep ==
  ASSUME NEW W \in SUBSET TimerWatchers, NEW t \in Int, NEW Near, NEW b, NEW s, Reifying(s, b, W, t, Near),
         Due(s.h, t), NEW w, NEW x \in Int, NEW g, NEW z, Stepped(z, s, w, x, g, t, Near)
  PROVE  Steady(s, b, W, t, Near, z)
  <1>0. /\ w = s.h.a[1].w
        /\ \/ x >= t /\ <<w, x>> \in Near /\ g = Downheap(Retimed(s.h, w, x), Len(s.h.a), 1)
           \/ g = Leave(s.h, w)
        /\ z = [feed |-> Append(s.feed, [w |-> w, due |-> s.at[w]]), at |-> [s.at EXCEPT ![w] = x], h |-> g]
    BY DEF Stepped
  <1>1. s.feed \in Seq(Feedings(W)) /\ s.at \in [TimerWatchers -> Int]
    BY DEF Reifying
  <1>2. PICK m \in Nat : IsHeap(s.h, m, W, s.at)
    BY DEF Reifying
  <1>3. /\ Len(s.h.a) = m /\ m > 0
        /\ w \in Active(s.h, W) /\ s.h.ix[w] = 1 /\ s.h.a[1].at = s.at[w]
        /\ \A v \in Active(s.h, W) : s.at[w] <= s.at[v]
    <2>1. RootOf(s.h, m, W, s.at, t)
      BY <1>1, <1>2, RootIs
    <2> QED
      BY <1>0, <2>1 DEF RootOf
  <1>4. s.at[w] < t
    BY <1>0, <1>3 DEF Due, Root
  <1>5. w \in W /\ w \in TimerWatchers /\ s.at[w] \in Int /\ Active(s.h, W) \subseteq TimerWatchers
    BY <1>1, <1>3 DEF Active
  <1>6. PICK T : T = [s.at EXCEPT ![w] = x]
    OBVIOUS
  <1>7. T \in [TimerWatchers -> Int] /\ T[w] = x /\ \A v \in TimerWatchers : v # w => T[v] = s.at[v]
    BY <1>1, <1>5, <1>6
  <1>8. /\ \E l \in Nat : IsHeap(g, l, W, T)
        /\ \/ Active(g, W) = Active(s.h, W) /\ x >= t /\ <<w, x>> \in Near
           \/ Active(g, W) = Active(s.h, W) \ {w}
    <2>1. SameBut(T, s.at, s.h, W, w) /\ IsAt(T, w, x)
      BY <1>5, <1>7 DEF SameBut, IsAt
    <2>2. CASE x >= t /\ <<w, x>> \in Near /\ g = Downheap(Retimed(s.h, w, x), Len(s.h.a), 1)
      <3>1. IsHeap(g, m, W, T) /\ Active(g, W) = Active(s.h, W)
        <4>1. Resettled(g, s.h, m, w, x)
          BY <1>3, <2>2 DEF Resettled
        <4> QED
          BY <1>2, <1>3, <2>1, <4>1, ReadjustKeeps
      <3> QED
        BY <2>2, <3>1
    <2>3. CASE g = Leave(s.h, w)
      <3>1. PICK l \in Nat : m = l + 1 /\ IsHeap(g, l, W, T) /\ Active(g, W) = Active(s.h, W) \ {w}
        <4>1. HeapWithout(g, s.h, m, W, T, w)
          BY <1>2, <1>3, <2>1, <2>3, LeaveKeeps
        <4> QED
          BY <4>1 DEF HeapWithout
      <3> QED
        BY <3>1
    <2> QED
      BY <1>0, <2>2, <2>3
  <1>9. PICK p \in Feedings(W) : p = [w |-> w, due |-> s.at[w]]
    BY <1>5 DEF Feedings
  <1>10. p.w = w /\ p.due = s.at[w]
    BY <1>9
  <1>11. PICK n \in Nat : n = Len(s.feed)
    BY <1>1
  <1>12. PICK f : f = Append(s.feed, p)
    OBVIOUS
  <1>121. Grown(f, s.feed, p, n, Feedings(W))
    BY <1>1, <1>11, <1>12, AppendIs
  <1>13. /\ f \in Seq(Feedings(W)) /\ Len(f) = n + 1 /\ f[n + 1] = p /\ \A i \in 1 .. n : f[i] = s.feed[i]
         /\ \A i \in 1 .. n + 1 : i \in 1 .. n \/ i = n + 1
    BY <1>11, <1>121 DEF Grown
  <1>14. z = [feed |-> f, at |-> T, h |-> g]
    BY <1>0, <1>6, <1>9, <1>12
  <1>15. z.feed = f /\ z.at = T /\ z.h = g /\ z = [feed |-> z.feed, at |-> z.at, h |-> z.h]
    BY <1>14
  <1>16. \A i \in 1 .. n : s.feed[i].due \in Int
    BY <1>1, <1>11, EntryIs
  <1>17. \A i \in 1 .. n : \A v \in Active(s.h, W) : s.feed[i].due <= s.at[v]
    BY <1>11 DEF Reifying
  <1>18. ASSUME NEW i \in 1 .. n + 1, NEW j \in 1 .. n + 1, i < j PROVE f[i].due <= f[j].due
    <2>1. i \in 1 .. n
      BY <1>13, <1>18
    <2>2. CASE j \in 1 .. n
      BY <1>11, <1>13, <1>18, <2>1, <2>2 DEF Reifying
    <2>3. CASE j = n + 1
      BY <1>3, <1>10, <1>13, <1>17, <2>1, <2>3
    <2> QED
      BY <1>13, <2>2, <2>3
  <1>19. ASSUME NEW v \in Active(g, W)
         PROVE  /\ v \in Active(s.h, W) /\ <<v, T[v]>> \in Near
                /\ v = w => x >= t
    <2>1. v \in Active(s.h, W) /\ (v = w => x >= t /\ <<w, x>> \in Near)
      BY <1>8
    <2>2. v # w => <<v, s.at[v]>> \in Near
      BY <2>1 DEF Reifying
    <2> QED
      BY <1>5, <1>7, <2>1, <2>2
  <1>20. ASSUME NEW i \in 1 .. n + 1, NEW v \in Active(g, W) PROVE f[i].due <= T[v]
    <2>1. v \in Active(s.h, W) /\ v \in TimerWatchers /\ s.at[v] \in Int
      BY <1>1, <1>5, <1>19
    <2>2. f[i].due <= s.at[v] /\ f[i].due <= s.at[w] /\ f[i].due \in Int
      <3>1. CASE i \in 1 .. n
        BY <1>3, <1>13, <1>16, <1>17, <2>1, <3>1
      <3>2. CASE i = n + 1
        BY <1>3, <1>5, <1>10, <1>13, <2>1, <3>2
      <3> QED
        BY <1>13, <3>1, <3>2
    <2>3. CASE v = w
      <3>1. x >= t
        BY <1>19, <2>3
      <3>2. T[v] = x
        BY <1>7, <2>3
      <3> QED
        BY <1>4, <1>5, <2>2, <3>1, <3>2
    <2>4. CASE v # w
      BY <1>7, <2>1, <2>2, <2>4
    <2> QED
      BY <2>3, <2>4
  <1>21. ASSUME NEW v \in Active(b.h, W), b.at[v] < t
         PROVE  (v \in Active(g, W) /\ T[v] < t) \/ \E i \in 1 .. n + 1 : f[i].w = v
    <2>1. CASE v \in Active(s.h, W) /\ s.at[v] < t /\ v # w
      BY <1>5, <1>7, <1>8, <2>1
    <2>2. CASE v = w
      <3>1. n + 1 \in 1 .. n + 1
        BY <1>11
      <3> QED
        BY <1>10, <1>13, <2>2, <3>1
    <2>3. CASE \E i \in 1 .. n : s.feed[i].w = v
      <3>1. PICK i \in 1 .. n : s.feed[i].w = v
        BY <2>3
      <3>2. i \in 1 .. n + 1
        OBVIOUS
      <3> QED
        BY <1>13, <3>1, <3>2
    <2>4. (v \in Active(s.h, W) /\ s.at[v] < t) \/ \E i \in 1 .. n : s.feed[i].w = v
      BY <1>11, <1>21 DEF Reifying
    <2> QED
      BY <2>1, <2>2, <2>3, <2>4
  <1>22. Reifying(z, b, W, t, Near)
    <2>1. z.feed \in Seq(Feedings(W)) /\ Len(z.feed) = n + 1 /\ z.at \in [TimerWatchers -> Int]
      BY <1>7, <1>13, <1>15
    <2>2. \E l \in Nat : IsHeap(z.h, l, W, z.at)
      BY <1>8, <1>15
    <2>3. \A v \in Active(z.h, W) : <<v, z.at[v]>> \in Near
      BY <1>15, <1>19
    <2>4. \A i, j \in 1 .. Len(z.feed) : i < j => z.feed[i].due <= z.feed[j].due
      <3>1. ASSUME NEW i \in 1 .. Len(z.feed), NEW j \in 1 .. Len(z.feed), i < j PROVE z.feed[i].due <= z.feed[j].due
        <4>1. i \in 1 .. n + 1 /\ j \in 1 .. n + 1
          BY <2>1
        <4>2. f[i].due <= f[j].due
          BY <1>18, <3>1, <4>1
        <4> QED
          BY <1>15, <4>2
      <3> QED
        BY <3>1
    <2>5. \A i \in 1 .. Len(z.feed) : \A v \in Active(z.h, W) : z.feed[i].due <= z.at[v]
      BY <1>15, <1>20, <2>1
    <2>6. \A v \in Active(b.h, W) : b.at[v] < t =>
            (v \in Active(z.h, W) /\ z.at[v] < t) \/ \E i \in 1 .. Len(z.feed) : z.feed[i].w = v
      BY <1>15, <1>21, <2>1
    <2> QED
      BY <1>15, <2>1, <2>2, <2>3, <2>4, <2>5, <2>6 DEF Reifying
  <1>23. ASSUME NEW v PROVE v \in Late(z, W, t) <=> v \in Late(s, W, t) \ {w}
    <2>1. CASE v = w
      <3>1. w \in Active(g, W) => x >= t
        BY <1>19
      <3>2. T[w] = x
        BY <1>7
      <3>3. w \in Active(g, W) => ~(T[w] < t)
        BY <3>1, <3>2
      <3> QED
        BY <1>15, <2>1, <3>3 DEF Late
    <2>2. CASE v # w
      <3>1. v \in Active(g, W) <=> v \in Active(s.h, W)
        BY <1>8, <2>2
      <3>2. v \in Active(s.h, W) => T[v] = s.at[v]
        BY <1>5, <1>7, <2>2
      <3> QED
        BY <1>15, <2>2, <3>1, <3>2 DEF Late
    <2> QED
      BY <2>1, <2>2
  <1>24. Late(z, W, t) = Late(s, W, t) \ {w}
    BY <1>23
  <1>25. w \in Late(s, W, t)
    BY <1>3, <1>4 DEF Late
  <1> QED
    BY <1>22, <1>24, <1>25 DEF Steady

\* As many steps as the heap has elements leave none late.
LEMMA RunsDry ==
  ASSUME NEW W \in SUBSET TimerWatchers, NEW t \in Int, NEW Near, NEW b, NEW n \in Nat,
         IsHeap(b.h, n, W, b.at), Reifying(b, b, W, t, Near),
         NEW u, u[0] = b,
         \A i \in 1 .. n : /\ ~Due(u[i - 1].h, t) => u[i] = u[i - 1]
                           /\ Due(u[i - 1].h, t) /\ Reifying(u[i - 1], b, W, t, Near)
                              => Steady(u[i - 1], b, W, t, Near, u[i])
  PROVE  Reifying(u[n], b, W, t, Near) /\ Late(u[n], W, t) = {}
  <1> DEFINE Left(i, m) == LET D == Late(u[i], W, t) IN IsFiniteSet(D) /\ Cardinality(D) \in Nat /\ Cardinality(D) <= m
             S == {i \in 0 .. n : Reifying(u[i], b, W, t, Near) /\ Left(i, n - i)}
  <1>1. 0 \in S
    <2> DEFINE D == Late(b, W, t)
               f == [v \in D |-> b.h.ix[v]]
    <2>1. D \subseteq Active(b.h, W)
      BY DEF Late
    <2>2. \A v \in Active(b.h, W) : b.h.ix[v] \in 1 .. n /\ b.h.a[b.h.ix[v]].w = v
      BY DEF Active, IsHeap, Held
    <2>3. f \in [D -> 1 .. n] /\ \A v, w \in D : f[v] = f[w] => v = w
      BY <2>1, <2>2
    <2> HIDE DEF f, D
    <2>4. f \in Injection(D, 1 .. n)
      BY <2>3 DEF Injection, IsInjective
    <2>5. IsFiniteSet(1 .. n) /\ Cardinality(1 .. n) = n
      BY FS_Interval
    <2>6. IsFiniteSet(D) /\ Cardinality(D) <= n
      BY <2>4, <2>5, FS_Injection
    <2>7. Cardinality(D) \in Nat
      BY <2>6, FS_CardinalityType
    <2>8. Left(0, n)
      BY <2>6, <2>7 DEF D
    <2>9. n - 0 = n /\ 0 \in 0 .. n
      OBVIOUS
    <2> HIDE DEF Left
    <2> QED
      BY <2>8, <2>9
  <1>2. ASSUME NEW i \in 1 .. n, i - 1 \in S PROVE i \in S
    <2>1. PICK k \in 0 .. n : k = i - 1 /\ k + 1 = i
      OBVIOUS
    <2>2. Reifying(u[k], b, W, t, Near) /\ Left(k, n - k)
      BY <1>2, <2>1
    <2>3. PICK m \in Nat : IsHeap(u[k].h, m, W, u[k].at)
      BY <2>2 DEF Reifying
    <2>4. u[k].at \in [TimerWatchers -> Int]
      BY <2>2 DEF Reifying
    <2>5. CASE ~Due(u[k].h, t)
      <3>1. Late(u[k], W, t) = {}
        BY <2>3, <2>4, <2>5, RootIs DEF Late, RootOf
      <3>2. u[i] = u[k]
        BY <2>1, <2>5
      <3>3. IsFiniteSet({}) /\ Cardinality({}) = 0 /\ n - i \in Nat
        BY FS_EmptySet
      <3>4. Left(i, n - i)
        BY <3>1, <3>2, <3>3
      <3> HIDE DEF Left
      <3> QED
        BY <2>2, <3>2, <3>4
    <2>6. CASE Due(u[k].h, t)
      <3>1. Steady(u[k], b, W, t, Near, u[i])
        BY <2>1, <2>2, <2>6
      <3>2. PICK w \in Late(u[k], W, t) : Late(u[i], W, t) = Late(u[k], W, t) \ {w}
        BY <3>1 DEF Steady
      <3>3. PICK D : D = Late(u[k], W, t)
        OBVIOUS
      <3>4. IsFiniteSet(D) /\ Cardinality(D) \in Nat /\ Cardinality(D) <= n - k
        BY <2>2, <3>3
      <3>5. IsFiniteSet(D \ {w}) /\ Cardinality(D \ {w}) = Cardinality(D) - 1
        BY <3>2, <3>3, <3>4, FS_RemoveElement
      <3>6. Cardinality(D \ {w}) \in Nat
        BY <3>5, FS_CardinalityType
      <3>7. Cardinality(D \ {w}) <= n - i
        BY <2>1, <3>4, <3>5
      <3>8. Left(i, n - i)
        BY <3>2, <3>3, <3>5, <3>6, <3>7
      <3>9. Reifying(u[i], b, W, t, Near)
        BY <3>1 DEF Steady
      <3> HIDE DEF Left
      <3> QED
        BY <3>8, <3>9
    <2> QED
      BY <2>5, <2>6
  <1>3. ASSUME NEW V, V = S PROVE n \in V
    <2> HIDE DEF S
    <2>1. 0 \in V /\ \A i \in 1 .. n : i - 1 \in V => i \in V
      BY <1>1, <1>2, <1>3
    <2>2. \A i \in 0 .. n : i \in V
      BY <2>1, UpTo
    <2> QED
      BY <2>2
  <1>4. Reifying(u[n], b, W, t, Near) /\ Left(n, n - n)
    <2>1. n \in S
      <3> HIDE DEF S
      <3> QED
        BY <1>3
    <2> QED
      BY <2>1
  <1>5. PICK D : D = Late(u[n], W, t)
    OBVIOUS
  <1>6. IsFiniteSet(D) /\ Cardinality(D) = 0
    BY <1>4, <1>5
  <1>7. D = {}
    BY <1>6, FS_EmptySet
  <1> QED
    BY <1>4, <1>5, <1>7

-----------------------------------------------------------------------------
(***************************************************************************)
(* The grid of a periodic, and what timers_reify and periodics_reify leave.*)
(***************************************************************************)
Watch(k) == {w \in TimerWatchers : HeapOf(w) = k}
OnGrid(w, x) == (x - Offset[w]) % Interval[w] = 0
NearIn(k, t) ==
  {p \in Watch(k) \X Int :
     p[1] \in Periodics /\ Interval[p[1]] > 0 => OnGrid(p[1], p[2]) /\ p[2] <= t + now.slewed + Interval[p[1]]}

\* The watchers of a heap are all timers or all periodics: this needs that none is both.
LEMMA WatchIs ==
  /\ Watch("timers") = Timers /\ Watch("periodics") = Periodics
  /\ \A w \in Timers : w \in TimerWatchers /\ HeapOf(w) = "timers" /\ w \notin Periodics
  /\ \A w \in Periodics : w \in TimerWatchers /\ HeapOf(w) = "periodics" /\ w \notin Timers
  /\ \A w \in TimerWatchers : w \in Timers \/ w \in Periodics
  /\ \A k : Watch(k) \in SUBSET TimerWatchers
  <1>1. \A w \in Timers : w \in TimerWatchers /\ HeapOf(w) = "timers" /\ w \notin Periodics
    BY EvTimersAssumption DEF TimerWatchers, HeapOf
  <1>2. \A w \in Periodics : w \in TimerWatchers /\ HeapOf(w) = "periodics" /\ w \notin Timers
    BY EvTimersAssumption DEF TimerWatchers, HeapOf
  <1>3. \A w \in TimerWatchers : w \in Timers \/ w \in Periodics
    BY DEF TimerWatchers
  <1>4. "timers" # "periodics"
    OBVIOUS
  <1>5. Watch("timers") = Timers
    BY <1>1, <1>2, <1>3, <1>4 DEF Watch
  <1>6. Watch("periodics") = Periodics
    BY <1>1, <1>2, <1>3, <1>4 DEF Watch
  <1>7. \A k : Watch(k) \in SUBSET TimerWatchers
    BY DEF Watch
  <1> QED
    BY <1>1, <1>2, <1>3, <1>5, <1>6, <1>7

\* What a periodic with an interval may be set to: a time of its grid, not too far away.
LEMMA NearIs ==
  ASSUME NEW k, NEW t, NEW w \in Watch(k), NEW x \in Int
  PROVE  <<w, x>> \in NearIn(k, t) <=>
           (w \in Periodics /\ Interval[w] > 0 => OnGrid(w, x) /\ x <= t + now.slewed + Interval[w])
  <1>1. <<w, x>> \in Watch(k) \X Int /\ <<w, x>>[1] = w /\ <<w, x>>[2] = x
    OBVIOUS
  <1> QED
    BY <1>1 DEF NearIn

\* A product between 0 and its factor i, without i, is 0.
LEMMA Product ==
  ASSUME NEW i \in Nat, i > 0, NEW j \in Int, i * j >= 0, i * j < i
  PROVE  j = 0
  <1>1. ASSUME j >= 1 PROVE FALSE
    <2>1. PICK l \in Nat : l = j - 1
      BY <1>1
    <2>2. i * l >= 0 /\ i * j = i * l + i
      BY <2>1
    <2> QED
      BY <2>2
  <1>2. ASSUME j <= -1 PROVE FALSE
    <2>1. PICK l \in Nat : l = -1 - j
      BY <1>2
    <2>2. i * l >= 0 /\ i * j = -(i * l) - i
      BY <2>1
    <2> QED
      BY <2>2
  <1> QED
    BY <1>1, <1>2

\* What division by a positive number gives.
LEMMA Division ==
  ASSUME NEW i \in Nat, i > 0, NEW x \in Int
  PROVE  /\ x \div i \in Int /\ x % i \in Int
         /\ x = i * (x \div i) + (x % i) /\ 0 <= x % i /\ x % i < i
  OBVIOUS

\* periodic_recalc gives the first time of the grid after t, at most one interval away.
LEMMA RecalcIs ==
  ASSUME NEW w \in Periodics, Interval[w] > 0, NEW t \in Int
  PROVE  /\ PeriodicRecalc(w, t) \in Int
         /\ PeriodicRecalc(w, t) > t /\ PeriodicRecalc(w, t) <= t + Interval[w]
         /\ OnGrid(w, PeriodicRecalc(w, t))
  <1>1. PICK i \in Nat : i = Interval[w] /\ i > 0
    BY EvTimersAssumption
  <1>2. PICK o \in Int : o = Offset[w]
    BY EvTimersAssumption
  <1>3. PICK x \in Int : x = t - o
    OBVIOUS
  <1>4. PICK q \in Int : q = x \div i
    BY <1>1, Division
  <1>5. PICK r \in Int : r = x % i
    BY <1>1, Division
  <1>6. x = i * q + r /\ 0 <= r /\ r < i
    BY <1>1, <1>4, <1>5, Division
  <1>7. PICK y \in Int : y = i * (q + 1)
    OBVIOUS
  <1>8. y = i * q + i
    BY <1>7
  <1>9. PeriodicRecalc(w, t) = o + y
    BY <1>1, <1>2, <1>3, <1>4, <1>7 DEF PeriodicRecalc
  <1>10. x < y /\ y <= x + i
    BY <1>6, <1>8
  <1>11. y % i = 0
    <2>1. PICK d \in Int : d = y \div i
      BY <1>1, Division
    <2>2. PICK m \in Int : m = y % i
      BY <1>1, Division
    <2>3. y = i * d + m /\ 0 <= m /\ m < i
      BY <1>1, <2>1, <2>2, Division
    <2>4. PICK j \in Int : j = q + 1 - d
      OBVIOUS
    <2>5. i * j = m
      <3>1. i * j = i * (q + 1) - i * d
        BY <2>4
      <3> QED
        BY <1>7, <2>3, <3>1
    <2>6. j = 0
      BY <1>1, <2>3, <2>5, Product
    <2> QED
      BY <2>2, <2>5, <2>6
  <1>12. (o + y) - o = y
    OBVIOUS
  <1> QED
    BY <1>1, <1>2, <1>3, <1>9, <1>10, <1>11, <1>12 DEF OnGrid

StepOf(k, s, t) == IF k = "timers" THEN TimerStep(s, t) ELSE PeriodicStep(s, t)

\* A turn of timers_reify or of periodics_reify is such a step.
LEMMA StepKeeps ==
  ASSUME NEW k \in {"timers", "periodics"}, NEW t \in Int, NEW b, NEW s, now.slewed \in Nat,
         Reifying(s, b, Watch(k), t, NearIn(k, t)), Due(s.h, t)
  PROVE  Steady(s, b, Watch(k), t, NearIn(k, t), StepOf(k, s, t))
  <1>1. PICK w : w = s.h.a[1].w
    OBVIOUS
  <1>2. s.at \in [TimerWatchers -> Int] /\ \E m \in Nat : IsHeap(s.h, m, Watch(k), s.at)
    BY DEF Reifying
  <1>3. PICK m \in Nat : IsHeap(s.h, m, Watch(k), s.at)
    BY <1>2
  <1>4. w \in Watch(k)
    <2>1. RootOf(s.h, m, Watch(k), s.at, t)
      BY <1>2, <1>3, RootIs, WatchIs
    <2> QED
      BY <1>1, <2>1 DEF RootOf, Active
  <1>5. w \in TimerWatchers /\ s.at[w] \in Int
    BY <1>2, <1>4 DEF Watch
  <1>6. PICK z : z = StepOf(k, s, t)
    OBVIOUS
  <1>7. Root(s.h).w = w
    BY <1>1 DEF Root
  <1>8. \E x \in Int : \E g : Stepped(z, s, w, x, g, t, NearIn(k, t))
    <2>1. CASE k = "timers"
      <3>1. w \in Timers /\ Repeat[w] \in Nat /\ w \notin Periodics
        BY <1>4, <2>1, WatchIs, EvTimersAssumption
      <3>2. z = TimerStep(s, t)
        BY <1>6, <2>1 DEF StepOf
      <3>3. PICK y \in Int : y = (IF s.at[w] + Repeat[w] < t THEN t ELSE s.at[w] + Repeat[w]) /\ y >= t
        BY <1>5, <3>1
      <3>4. <<w, y>> \in NearIn(k, t)
        BY <1>4, <3>1, NearIs
      <3>5. CASE Repeat[w] > 0
        <4>1. PICK g : g = Downheap(Retimed(s.h, w, y), Len(s.h.a), 1)
          OBVIOUS
        <4>2. z = [feed |-> Append(s.feed, [w |-> w, due |-> s.at[w]]), at |-> [s.at EXCEPT ![w] = y], h |-> g]
          BY <1>7, <3>2, <3>3, <3>5, <4>1 DEF TimerStep
        <4> QED
          BY <1>1, <3>3, <3>4, <4>1, <4>2 DEF Stepped
      <3>6. CASE ~(Repeat[w] > 0)
        <4>1. PICK g : g = Leave(s.h, w)
          OBVIOUS
        <4>2. PICK x \in Int : x = s.at[w] - t
          BY <1>5
        <4>3. z = [feed |-> Append(s.feed, [w |-> w, due |-> s.at[w]]), at |-> [s.at EXCEPT ![w] = x], h |-> g]
          BY <1>7, <3>2, <3>6, <4>1, <4>2 DEF TimerStep
        <4> QED
          BY <1>1, <4>1, <4>3 DEF Stepped
      <3> QED
        BY <3>5, <3>6
    <2>2. CASE k = "periodics"
      <3>1. w \in Periodics /\ Interval[w] \in Nat
        BY <1>4, <2>2, WatchIs, EvTimersAssumption
      <3>2. z = PeriodicStep(s, t)
        BY <1>6, <2>2 DEF StepOf
      <3>3. CASE Interval[w] > 0
        <4>1. PICK y \in Int : y = PeriodicRecalc(w, t) /\ y > t /\ y <= t + Interval[w] /\ OnGrid(w, y)
          BY <3>1, <3>3, RecalcIs
        <4>11. PICK e \in Nat, i \in Nat : e = now.slewed /\ i = Interval[w]
          BY <3>1
        <4>12. y <= t + e + i
          BY <4>1, <4>11
        <4>2. <<w, y>> \in NearIn(k, t) /\ y >= t
          BY <1>4, <4>1, <4>11, <4>12, NearIs
        <4>3. PICK g : g = Downheap(Retimed(s.h, w, y), Len(s.h.a), 1)
          OBVIOUS
        <4>4. z = [feed |-> Append(s.feed, [w |-> w, due |-> s.at[w]]), at |-> [s.at EXCEPT ![w] = y], h |-> g]
          BY <1>7, <3>2, <3>3, <4>1, <4>3 DEF PeriodicStep
        <4> QED
          BY <1>1, <4>2, <4>3, <4>4 DEF Stepped
      <3>4. CASE ~(Interval[w] > 0)
        <4>1. PICK g : g = Leave(s.h, w)
          OBVIOUS
        <4>2. PICK x \in Int : x = s.at[w]
          BY <1>5
        <4>3. z = [feed |-> Append(s.feed, [w |-> w, due |-> s.at[w]]), at |-> [s.at EXCEPT ![w] = x], h |-> g]
          BY <1>7, <3>2, <3>4, <4>1, <4>2 DEF PeriodicStep
        <4> QED
          BY <1>1, <4>1, <4>3 DEF Stepped
      <3> QED
        BY <3>3, <3>4
    <2> QED
      BY <2>1, <2>2
  <1>9. PICK x \in Int : \E g : Stepped(z, s, w, x, g, t, NearIn(k, t))
    BY <1>8
  <1>10. PICK g : Stepped(z, s, w, x, g, t, NearIn(k, t))
    BY <1>9
  <1>11. Steady(s, b, Watch(k), t, NearIn(k, t), z)
    BY <1>10, FeedStep, WatchIs
  <1> QED
    BY <1>6, <1>11

\* What Reified gives of the heap k at time t: the heap with nothing overdue, and in
\* order of their times the watchers that were.
Untouched(k) == [feed |-> <<>>, at |-> at, h |-> heap[k]]
Done(s, k, t) ==
  Reifying(s, Untouched(k), Watch(k), t, NearIn(k, t)) /\ Late(s, Watch(k), t) = {}

\* timers_reify and periodics_reify leave a heap with nothing overdue.
LEMMA ReifiedKeeps ==
  ASSUME NEW k \in {"timers", "periodics"}, NEW t \in Int, at \in [TimerWatchers -> Int], now.slewed \in Nat,
         NEW n \in Nat, IsHeap(heap[k], n, Watch(k), at),
         \A v \in Active(heap[k], Watch(k)) : <<v, at[v]>> \in NearIn(k, t)
  PROVE  Done(Reified(k, t), k, t)
  <1> DEFINE W == Watch(k)
             Near == NearIn(k, t)
             b == Untouched(k)
             Y == [feed : Seq(Feedings(W)), at : [TimerWatchers -> Int], h : [a : Seq(Elem(W)), ix : [W -> Nat]]]
             X == {s \in Y : Reifying(s, b, W, t, Near)}
             Next1(s) == IF Due(s.h, t) THEN StepOf(k, s, t) ELSE s
             st == [i \in 1 .. n |-> [s \in X |-> Next1(s)]]
             Is(f) == f = [i \in 0 .. Len(heap[k].a) |->
                        IF i = 0 THEN [feed |-> <<>>, at |-> at, h |-> heap[k]]
                        ELSE IF Due(f[i - 1].h, t)
                             THEN IF k = "timers" THEN TimerStep(f[i - 1], t) ELSE PeriodicStep(f[i - 1], t)
                             ELSE f[i - 1]]
  <1>1. Len(heap[k].a) = n
    BY DEF IsHeap, Held, Arr
  <1>2. b.feed = <<>> /\ b.at = at /\ b.h = heap[k] /\ b = [feed |-> b.feed, at |-> b.at, h |-> b.h]
    BY DEF Untouched
  <1>3. Reifying(b, b, W, t, Near)
    <2>1. b.feed \in Seq(Feedings(W)) /\ Len(b.feed) = 0
      BY <1>2
    <2>2. 1 .. Len(b.feed) = {}
      BY <2>1
    <2>3. \E m \in Nat : IsHeap(b.h, m, W, b.at)
      BY <1>2
    <2> QED
      BY <1>2, <2>1, <2>2, <2>3 DEF Reifying
  <1>4. ASSUME NEW s, Reifying(s, b, W, t, Near) PROVE s \in X
    <2>1. /\ s = [feed |-> s.feed, at |-> s.at, h |-> s.h]
          /\ s.feed \in Seq(Feedings(W)) /\ s.at \in [TimerWatchers -> Int]
          /\ \E m \in Nat : IsHeap(s.h, m, W, s.at)
      BY <1>4 DEF Reifying
    <2>2. PICK m \in Nat : IsHeap(s.h, m, W, s.at)
      BY <2>1
    <2>3. s.h = [a |-> s.h.a, ix |-> s.h.ix] /\ Arr(s.h.a, W, m) /\ s.h.ix \in [W -> Nat]
      BY <2>2 DEF IsHeap, Held
    <2>4. s.h.a \in Seq(Elem(W))
      BY <2>3, ArrayLen DEF Arr
    <2>5. s.h \in [a : Seq(Elem(W)), ix : [W -> Nat]]
      BY <2>3, <2>4
    <2>6. s \in Y
      BY <2>1, <2>5
    <2> QED
      BY <1>4, <2>6
  <1>5. \A s \in X : Reifying(s, b, W, t, Near)
    OBVIOUS
  <1> HIDE DEF X, Y, b
  <1>6. ASSUME NEW s \in X, Due(s.h, t) PROVE Steady(s, b, W, t, Near, StepOf(k, s, t))
    BY <1>5, <1>6, StepKeeps DEF b
  <1>7. b \in X
    BY <1>3, <1>4
  <1>8. ASSUME NEW s \in X PROVE Next1(s) \in X
    <2>1. CASE Due(s.h, t)
      <3>1. Reifying(StepOf(k, s, t), b, W, t, Near)
        BY <1>6, <2>1 DEF Steady
      <3>2. StepOf(k, s, t) \in X
        BY <1>4, <3>1
      <3> QED
        BY <2>1, <3>2
    <2>2. CASE ~Due(s.h, t)
      BY <2>2
    <2> QED
      BY <2>1, <2>2
  <1>9. \A i \in 1 .. n : \A s \in X : st[i][s] = Next1(s)
    OBVIOUS
  <1>10. StepFcns(X, n, st)
    <2> HIDE DEF Next1
    <2> QED
      BY <1>8 DEF StepFcns
  <1> HIDE DEF st
  <1>11. \E f : Walk(X, n, st, b, f)
    BY <1>7, <1>10, StepsExist
  <1>12. PICK f \in [0 .. n -> X] : f[0] = b /\ \A i \in 1 .. n : f[i] = st[i][f[i - 1]]
    BY <1>11 DEF Walk
  <1>13. Is(f)
    <2>1. ASSUME NEW i \in 0 .. n, i # 0 PROVE f[i] = Next1(f[i - 1])
      <3>1. i \in 1 .. n /\ i - 1 \in 0 .. n
        BY <2>1
      <3>2. f[i - 1] \in X
        BY <1>12, <3>1
      <3> HIDE DEF Next1
      <3> QED
        BY <1>9, <1>12, <3>1, <3>2
    <2>2. f[0] = [feed |-> <<>>, at |-> at, h |-> heap[k]]
      BY <1>12 DEF b, Untouched
    <2>3. f = [i \in 0 .. n |-> IF i = 0 THEN [feed |-> <<>>, at |-> at, h |-> heap[k]] ELSE Next1(f[i - 1])]
      <3> HIDE DEF Next1
      <3>1. \A i \in 0 .. n : f[i] = IF i = 0 THEN [feed |-> <<>>, at |-> at, h |-> heap[k]] ELSE Next1(f[i - 1])
        BY <2>1, <2>2
      <3> QED
        BY <1>12, <3>1
    <2> QED
      BY <1>1, <2>3 DEF StepOf
  <1>14. PICK u : u = CHOOSE S : Is(S)
    OBVIOUS
  <1>15. Is(u)
    BY <1>13, <1>14
  <1>16. Reified(k, t) = u[n]
    BY <1>1, <1>14 DEF Reified
  <1>17. u[0] = b /\ \A i \in 1 .. n : u[i] = Next1(u[i - 1])
    <2>1. \A i \in 0 .. n : u[i] = IF i = 0 THEN [feed |-> <<>>, at |-> at, h |-> heap[k]] ELSE Next1(u[i - 1])
      BY <1>1, <1>15 DEF StepOf
    <2>2. 0 \in 0 .. n /\ \A i \in 1 .. n : i \in 0 .. n /\ i # 0
      OBVIOUS
    <2> HIDE DEF Next1
    <2> QED
      BY <2>1, <2>2 DEF b, Untouched
  <1>18. ASSUME NEW i \in 1 .. n
         PROVE  /\ ~Due(u[i - 1].h, t) => u[i] = u[i - 1]
                /\ Due(u[i - 1].h, t) /\ Reifying(u[i - 1], b, W, t, Near) => Steady(u[i - 1], b, W, t, Near, u[i])
    <2>1. u[i] = Next1(u[i - 1])
      BY <1>17
    <2>2. Reifying(u[i - 1], b, W, t, Near) => u[i - 1] \in X
      BY <1>4
    <2> QED
      BY <1>6, <2>1, <2>2
  <1>19. W \in SUBSET TimerWatchers
    BY WatchIs
  <1>20. IsHeap(b.h, n, W, b.at)
    BY <1>2
  <1> HIDE DEF W, Near
  <1>21. Reifying(u[n], b, W, t, Near) /\ Late(u[n], W, t) = {}
    BY <1>3, <1>17, <1>18, <1>19, <1>20, RunsDry
  <1> QED
    BY <1>16, <1>21 DEF Done, W, Near, b

-----------------------------------------------------------------------------
(***************************************************************************)
(* The invariant of the timers: heaps, grid and sleep.                     *)
(***************************************************************************)
HeapKinds == {"timers", "periodics"}
NowOf(k) == IF k = "timers" THEN now.mn ELSE now.rt

\* The clocks, the times of the watchers and the wait time are numbers.
TimesTyped ==
  /\ clock \in Int /\ wall \in Int /\ waittime \in Int /\ at \in [TimerWatchers -> Int]
  /\ timerPhase \in {"ready", "wait", "reify", "invoke"}
\* The monotonic clock is read at once with the wall clock, whose difference is kept.
NowRight ==
  /\ now = [mn |-> now.mn, rt |-> now.rt, diff |-> now.diff, floor |-> now.floor, slewed |-> now.slewed]
  /\ now.mn \in Int /\ now.diff \in Int /\ now.rt \in Int
  /\ now.floor \in Int /\ now.slewed \in Nat /\ now.rt = now.mn + now.diff /\ now.mn <= clock

\* Both heaps are heaps of their own watchers at the times T.
Heaps(H, T) ==
  /\ H = [k \in HeapKinds |-> H[k]]
  /\ \A k \in HeapKinds : \E n \in Nat : IsHeap(H[k], n, Watch(k), T)

\* Every active periodic with an interval is on its grid, at most an interval after b.
Grid(H, T, b) ==
  \A w \in Active(H["periodics"], Periodics) : Interval[w] > 0 => OnGrid(w, T[w]) /\ T[w] <= b + Interval[w]

\* After reifying, no such periodic is due before the wall clock the loop has read.
NoneLate ==
  timerPhase = "invoke" => \A w \in Active(heap["periodics"], Periodics) : Interval[w] > 0 => at[w] >= now.rt

\* The wait time is no longer than any active watcher allows.
Slept ==
  timerPhase = "wait" =>
    \A k \in HeapKinds : \A w \in Active(heap[k], Watch(k)) : waittime <= LeastWait \/ waittime <= at[w] - NowOf(k)
\* How far the wall clock is, or was before it went back unnoticed.
Horizon == now.rt + now.slewed

\* The inductive invariant of the heaps and clocks.
TimersInv == TimesTyped /\ NowRight /\ Heaps(heap, at) /\ Grid(heap, at, Horizon) /\ NoneLate /\ Slept

\* One heap changes, and the times of its watchers.
Replaced(G, H, k, g) == G = [H EXCEPT ![k] = g]
Elsewhere(U, T, k) == \A v \in TimerWatchers : HeapOf(v) # k => U[v] = T[v]

\* Replacing one of the two heaps by a heap of the same kind leaves two heaps.
LEMMA OneHeap ==
  ASSUME NEW H, NEW T, Heaps(H, T), NEW k \in HeapKinds, NEW g, NEW m \in Nat, NEW U, IsHeap(g, m, Watch(k), U),
         Elsewhere(U, T, k),
         NEW G, Replaced(G, H, k, g)
  PROVE  Heaps(G, U) /\ G[k] = g /\ \A j \in HeapKinds : j # k => G[j] = H[j]
  <1>1. H = [j \in HeapKinds |-> H[j]]
    BY DEF Heaps
  <1>2. G = [j \in HeapKinds |-> G[j]] /\ G[k] = g /\ \A j \in HeapKinds : j # k => G[j] = H[j]
    BY <1>1 DEF Replaced
  <1>3. ASSUME NEW j \in HeapKinds PROVE \E n \in Nat : IsHeap(G[j], n, Watch(j), U)
    <2>1. CASE j = k
      BY <1>2, <2>1
    <2>2. CASE j # k
      <3>1. PICK n \in Nat : IsHeap(H[j], n, Watch(j), T)
        BY DEF Heaps
      <3>2. SameOn(U, T, H[j], Watch(j))
        BY <2>2 DEF SameOn, Active, Watch, Elsewhere
      <3> QED
        BY <1>2, <2>2, <3>1, <3>2, SameTimes
    <2> QED
      BY <2>1, <2>2
  <1> QED
    BY <1>2, <1>3 DEF Heaps

\* A watcher belongs to the heap of its kind.
LEMMA HeapMembers ==
  ASSUME NEW w \in TimerWatchers
  PROVE  /\ HeapOf(w) \in HeapKinds /\ w \in Watch(HeapOf(w))
         /\ InHeap(w) <=> w \in Active(heap[HeapOf(w)], Watch(HeapOf(w)))
  BY DEF HeapOf, HeapKinds, Watch, InHeap, Active

\* An operation on w: its heap changes, and its time; others stay where they are.
Operated(w, g, x, m) ==
  /\ heap' = [heap EXCEPT ![HeapOf(w)] = g] /\ at' = [at EXCEPT ![w] = x] /\ x \in Int
  /\ IsHeap(g, m, Watch(HeapOf(w)), at')
  /\ \A v \in Active(g, Watch(HeapOf(w))) : v # w => v \in Active(heap[HeapOf(w)], Watch(HeapOf(w)))
  /\ w \in Periodics /\ w \in Active(g, Watch(HeapOf(w))) => x = PeriodicAt(w)

\* An operation on one watcher keeps the invariant.
LEMMA OperationKeeps ==
  ASSUME TimersInv, NEW w \in TimerWatchers, NEW g, NEW x, NEW m \in Nat, Operated(w, g, x, m),
         timerPhase \in {"ready", "invoke"}, UNCHANGED <<clock, wall, now, timerPhase, waittime>>
  PROVE  TimersInv'
  <1>1. HeapOf(w) \in HeapKinds /\ at \in [TimerWatchers -> Int] /\ Heaps(heap, at)
    BY HeapMembers DEF TimersInv, TimesTyped
  <1>2. at' \in [TimerWatchers -> Int] /\ at'[w] = x /\ x \in Int /\ \A v \in TimerWatchers : v # w => at'[v] = at[v]
    BY <1>1 DEF Operated
  <1>3. Heaps(heap', at') /\ heap'[HeapOf(w)] = g /\ \A j \in HeapKinds : j # HeapOf(w) => heap'[j] = heap[j]
    <2>1. Elsewhere(at', at, HeapOf(w))
      BY <1>2 DEF Elsewhere
    <2>2. IsHeap(g, m, Watch(HeapOf(w)), at') /\ Replaced(heap', heap, HeapOf(w), g)
      BY DEF Operated, Replaced
    <2> QED
      BY <1>1, <2>1, <2>2, OneHeap
  <1>4. ASSUME NEW v \in Active(heap'["periodics"], Periodics)
        PROVE  /\ v \in Periodics
               /\ v = w => at'[v] = PeriodicAt(w)
               /\ v # w => v \in Active(heap["periodics"], Periodics) /\ at'[v] = at[v]
    <2>0. v \in Periodics /\ v \in TimerWatchers /\ HeapOf(v) = "periodics" /\ Watch("periodics") = Periodics
          /\ "periodics" \in HeapKinds
      BY WatchIs DEF Active, HeapKinds
    <2>1. CASE HeapOf(w) = "periodics"
      <3>1. v \in Active(g, Watch(HeapOf(w)))
        BY <1>3, <2>0, <2>1
      <3> QED
        BY <1>2, <2>0, <2>1, <3>1 DEF Operated
    <2>2. CASE HeapOf(w) # "periodics"
      BY <1>2, <1>3, <2>0, <2>2
    <2> QED
      BY <2>1, <2>2
  <1>5. now.rt \in Int /\ now.slewed \in Nat /\ Horizon \in Int /\ Horizon >= now.rt /\ Horizon' = Horizon
    BY DEF TimersInv, NowRight, Horizon
  <1>6. ASSUME NEW v \in Active(heap'["periodics"], Periodics), Interval[v] > 0
        PROVE  /\ OnGrid(v, at'[v]) /\ at'[v] <= Horizon + Interval[v]
               /\ timerPhase = "invoke" => at'[v] >= now.rt
    <2>1. CASE v = w
      <3>1. at'[v] = PeriodicRecalc(v, now.rt) /\ v \in Periodics
        BY <1>4, <1>6, <2>1 DEF PeriodicAt
      <3>2. at'[v] \in Int /\ at'[v] > now.rt /\ at'[v] <= now.rt + Interval[v] /\ OnGrid(v, at'[v])
        BY <1>5, <1>6, <3>1, RecalcIs
      <3>3. PICK i \in Nat : i = Interval[v]
        BY <3>1, EvTimersAssumption
      <3>4. at'[v] <= Horizon + i
        BY <1>5, <3>2, <3>3
      <3> QED
        BY <1>5, <3>2, <3>3, <3>4
    <2>2. CASE v # w
      <3>1. v \in Active(heap["periodics"], Periodics) /\ at'[v] = at[v]
        BY <1>4, <2>2
      <3>2. OnGrid(v, at[v]) /\ at[v] <= Horizon + Interval[v]
        BY <1>6, <3>1 DEF TimersInv, Grid
      <3>3. timerPhase = "invoke" => at[v] >= now.rt
        BY <1>6, <3>1, WatchIs DEF TimersInv, NoneLate, HeapKinds
      <3> QED
        BY <3>1, <3>2, <3>3
    <2> QED
      BY <2>1, <2>2
  <1>7. TimesTyped'
    BY <1>2 DEF TimersInv, TimesTyped
  <1>8. NowRight'
    BY DEF TimersInv, NowRight
  <1>9. Grid(heap', at', Horizon')
    BY <1>5, <1>6 DEF Grid
  <1>10. NoneLate'
    BY <1>6, WatchIs DEF NoneLate, HeapKinds
  <1>11. Slept'
    BY DEF Slept
  <1> QED
    BY <1>3, <1>7, <1>8, <1>9, <1>10, <1>11 DEF TimersInv

\* What the operations do to the heap and the time of w is such an operation.
OperatesOn(w) == \E x : \E m \in Nat : \E g : Operated(w, g, x, m)
TimeSet(w, x) == at' = [at EXCEPT ![w] = x] /\ x \in Int
HeapSet(w, g) == heap' = [heap EXCEPT ![HeapOf(w)] = g]

\* Setting the time of w leaves the times of the others.
LEMMA TimeSetIs ==
  ASSUME TimersInv, NEW w \in TimerWatchers, NEW x, TimeSet(w, x)
  PROVE  IsAt(at', w, x) /\ \A h : SameBut(at', at, h, Watch(HeapOf(w)), w)
  <1>1. at'[w] = x /\ \A v \in TimerWatchers : v # w => at'[v] = at[v]
    BY DEF TimersInv, TimesTyped, TimeSet
  <1> QED
    BY <1>1 DEF IsAt, SameBut, Active, Watch

\* By the invariant, the heap of w is a heap.
LEMMA HeapIs ==
  ASSUME TimersInv, NEW w \in TimerWatchers
  PROVE  /\ w \in Watch(HeapOf(w))
         /\ \E n \in Nat : IsHeap(heap[HeapOf(w)], n, Watch(HeapOf(w)), at)
         /\ ~InHeap(w) => heap[HeapOf(w)].ix[w] = 0
  <1>1. HeapOf(w) \in HeapKinds /\ w \in Watch(HeapOf(w))
    BY HeapMembers
  <1>2. PICK n \in Nat : IsHeap(heap[HeapOf(w)], n, Watch(HeapOf(w)), at)
    BY <1>1 DEF TimersInv, Heaps
  <1>3. heap[HeapOf(w)].ix[w] \in Nat
    BY <1>1, <1>2 DEF IsHeap, Held
  <1> QED
    BY <1>1, <1>2, <1>3 DEF InHeap

\* ev_timer_start and ev_periodic_start are such operations.
LEMMA Entering ==
  ASSUME TimersInv, NEW w \in TimerWatchers, ~InHeap(w), NEW x \in Int, TimeSet(w, x),
         NEW g, g = Enter(heap[HeapOf(w)], w, x), HeapSet(w, g), w \in Periodics => x = PeriodicAt(w)
  PROVE  OperatesOn(w)
  <1> DEFINE W == Watch(HeapOf(w))
             h == heap[HeapOf(w)]
  <1>1. w \in W /\ h.ix[w] = 0
    BY HeapIs
  <1>2. PICK n \in Nat : IsHeap(h, n, W, at)
    BY HeapIs
  <1>3. IsAt(at', w, x) /\ SameBut(at', at, h, W, w)
    BY TimeSetIs
  <1>4. SameOn(at', at, h, W)
    BY <1>1, <1>3 DEF SameBut, SameOn, Active
  <1>5. g = Enter(h, w, x)
    OBVIOUS
  <1> HIDE DEF W, h
  <1>6. HeapWith(g, h, n, W, at', w)
    BY <1>1, <1>2, <1>3, <1>4, <1>5, EnterKeeps
  <1>7. PICK m \in Nat : IsHeap(g, m, W, at') /\ Active(g, W) = Active(h, W) \cup {w}
    BY <1>6 DEF HeapWith
  <1>8. Operated(w, g, x, m)
    BY <1>7 DEF Operated, TimeSet, HeapSet, W, h
  <1> QED
    BY <1>8 DEF OperatesOn

\* So is stopping an active watcher.
LEMMA Leaving ==
  ASSUME TimersInv, NEW w \in TimerWatchers, InHeap(w), NEW x \in Int, TimeSet(w, x),
         NEW g, g = Leave(heap[HeapOf(w)], w), HeapSet(w, g)
  PROVE  OperatesOn(w)
  <1> DEFINE W == Watch(HeapOf(w))
             h == heap[HeapOf(w)]
  <1>1. w \in Active(h, W)
    BY HeapMembers
  <1>2. PICK n \in Nat : IsHeap(h, n, W, at)
    BY HeapIs
  <1>3. SameBut(at', at, h, W, w)
    BY TimeSetIs
  <1>4. g = Leave(h, w)
    OBVIOUS
  <1> HIDE DEF W, h
  <1>5. HeapWithout(g, h, n, W, at', w)
    BY <1>1, <1>2, <1>3, <1>4, LeaveKeeps
  <1>6. PICK m \in Nat : IsHeap(g, m, W, at') /\ Active(g, W) = Active(h, W) \ {w}
    BY <1>5 DEF HeapWithout
  <1>7. Operated(w, g, x, m)
    BY <1>6 DEF Operated, TimeSet, HeapSet, W, h
  <1> QED
    BY <1>7 DEF OperatesOn

\* So is stopping one that is not active.
LEMMA StayingOut ==
  ASSUME TimersInv, NEW w \in TimerWatchers, ~InHeap(w), NEW x \in Int, TimeSet(w, x),
         NEW g, g = heap[HeapOf(w)], HeapSet(w, g)
  PROVE  OperatesOn(w)
  <1> DEFINE W == Watch(HeapOf(w))
  <1>1. w \notin Active(g, W)
    BY HeapMembers
  <1>2. PICK n \in Nat : IsHeap(g, n, W, at)
    BY HeapIs
  <1>3. SameBut(at', at, g, W, w)
    BY TimeSetIs
  <1> HIDE DEF W
  <1>4. SameOn(at', at, g, W)
    BY <1>1, <1>3 DEF SameBut, SameOn
  <1>5. IsHeap(g, n, W, at')
    BY <1>2, <1>4, SameTimes
  <1>6. Operated(w, g, x, n)
    BY <1>1, <1>5 DEF Operated, TimeSet, HeapSet, W
  <1> QED
    BY <1>6 DEF OperatesOn

\* Stopped, if it was active, and started.
LEMMA Reentering ==
  ASSUME TimersInv, NEW w \in TimerWatchers, NEW x \in Int, TimeSet(w, x),
         NEW g, g = Enter(StoppedHeap(w), w, x), HeapSet(w, g), w \in Periodics => x = PeriodicAt(w)
  PROVE  OperatesOn(w)
  <1>1. CASE ~InHeap(w)
    BY <1>1, Entering DEF StoppedHeap
  <1>2. CASE InHeap(w)
    <2> DEFINE W == Watch(HeapOf(w))
               h == heap[HeapOf(w)]
    <2>1. w \in Active(h, W) /\ w \in W
      BY <1>2, HeapMembers
    <2>2. PICK n \in Nat : IsHeap(h, n, W, at)
      BY HeapIs
    <2>3. IsAt(at', w, x) /\ SameBut(at', at, h, W, w)
      BY TimeSetIs
    <2>4. PICK l : l = Leave(h, w)
      OBVIOUS
    <2>5. g = Enter(l, w, x)
      BY <1>2, <2>4 DEF StoppedHeap
    <2> HIDE DEF W, h
    <2>6. HeapWithout(l, h, n, W, at', w)
      BY <2>1, <2>2, <2>3, <2>4, LeaveKeeps
    <2>7. PICK m \in Nat : IsHeap(l, m, W, at') /\ Active(l, W) = Active(h, W) \ {w}
      BY <2>6 DEF HeapWithout
    <2>8. l.ix[w] = 0
      <3>1. l.ix[w] \in Nat
        BY <2>1, <2>7 DEF IsHeap, Held
      <3>2. w \notin Active(l, W)
        BY <2>7
      <3> QED
        BY <2>1, <3>1, <3>2 DEF Active
    <2>9. SameOn(at', at', l, W)
      BY DEF SameOn
    <2>10. HeapWith(g, l, m, W, at', w)
      BY <2>1, <2>3, <2>5, <2>7, <2>8, <2>9, EnterKeeps
    <2>11. PICK o \in Nat : IsHeap(g, o, W, at') /\ Active(g, W) = Active(l, W) \cup {w}
      BY <2>10 DEF HeapWith
    <2>12. Operated(w, g, x, o)
      BY <2>7, <2>11 DEF Operated, TimeSet, HeapSet, W, h
    <2> QED
      BY <2>12 DEF OperatesOn
  <1> QED
    BY <1>1, <1>2

\* A timer that runs again.
LEMMA Rerunning ==
  ASSUME TimersInv, NEW w \in Timers, InHeap(w), NEW x \in Int, TimeSet(w, x), NEW h, h = heap["timers"],
         NEW g, g = Adjustheap(Retimed(h, w, x), Len(h.a), h.ix[w]), HeapSet(w, g)
  PROVE  OperatesOn(w)
  <1> DEFINE W == Watch(HeapOf(w))
  <1>1. w \in TimerWatchers /\ HeapOf(w) = "timers" /\ h = heap[HeapOf(w)] /\ w \notin Periodics
    BY WatchIs
  <1>2. w \in Active(h, W)
    BY <1>1, HeapMembers
  <1>3. PICK n \in Nat : IsHeap(h, n, W, at)
    BY <1>1, HeapIs
  <1>4. IsAt(at', w, x) /\ SameBut(at', at, h, W, w)
    BY <1>1, TimeSetIs
  <1> HIDE DEF W
  <1>5. Resettled(g, h, n, w, x)
    BY <1>3 DEF Resettled, IsHeap, Held, Arr
  <1>6. IsHeap(g, n, W, at') /\ Active(g, W) = Active(h, W)
    BY <1>2, <1>3, <1>4, <1>5, ReadjustKeeps
  <1>7. Operated(w, g, x, n)
    BY <1>1, <1>6 DEF Operated, TimeSet, HeapSet, W
  <1> QED
    BY <1>7 DEF OperatesOn

-----------------------------------------------------------------------------
(***************************************************************************)
(* time_update, and the steps of an iteration.                             *)
(***************************************************************************)
\* R and g are the times and the heap of the periodics set anew at t.
Reset(g, R, t) ==
  /\ R \in [TimerWatchers -> Int] /\ \A v \in Timers : R[v] = at[v]
  /\ \E n \in Nat : IsHeap(g, n, Periodics, R)
  /\ \A v \in Active(g, Periodics) : Interval[v] > 0 => R[v] = PeriodicRecalc(v, t)

\* periodics_reschedule sets every periodic with an interval to its grid and reheaps.
LEMMA ResetIs ==
  ASSUME TimersInv, NEW t \in Int, NEW R, R = RescheduledAt(t), NEW g, g = RescheduledHeap(t)
  PROVE  Reset(g, R, t)
  <1> DEFINE W == Periodics
             h == heap["periodics"]
  <1>1. at \in [TimerWatchers -> Int] /\ Watch("periodics") = W /\ "periodics" \in HeapKinds
    BY WatchIs DEF TimersInv, TimesTyped, HeapKinds
  <1>2. PICK n \in Nat : IsHeap(h, n, W, at)
    BY <1>1 DEF TimersInv, Heaps
  <1>3. /\ n \in Nat /\ h = [a |-> h.a, ix |-> h.ix] /\ h.a \in [1 .. n -> Elem(W)] /\ h.ix \in [W -> Nat]
        /\ \A i \in 1 .. n : h.ix[h.a[i].w] = i
        /\ \A w \in W : h.ix[w] > 0 => h.ix[w] \in 1 .. n /\ h.a[h.ix[w]].w = w
    BY <1>2 DEF IsHeap, Held, Arr
  <1>4. \A i \in 1 .. n : h.a[i].w \in W
    BY <1>2, ElemIs DEF IsHeap, Held
  <1>5. ASSUME NEW v \in TimerWatchers
        PROVE  R[v] = (IF v \in Periodics /\ InHeap(v) /\ Interval[v] > 0 THEN PeriodicRecalc(v, t) ELSE at[v]) /\ R[v] \in Int
    <2>1. R[v] = (IF v \in Periodics /\ InHeap(v) /\ Interval[v] > 0 THEN PeriodicRecalc(v, t) ELSE at[v])
      BY DEF RescheduledAt
    <2>2. v \in Periodics /\ Interval[v] > 0 => PeriodicRecalc(v, t) \in Int
      BY RecalcIs
    <2>3. at[v] \in Int
      BY <1>1
    <2> QED
      BY <2>1, <2>2, <2>3
  <1>6. R \in [TimerWatchers -> Int]
    BY <1>5 DEF RescheduledAt
  <1>7. \A v \in Timers : R[v] = at[v]
    BY <1>5, WatchIs
  <1>8. PICK x : x = [i \in 1 .. n |-> [at |-> R[h.a[i].w], w |-> h.a[i].w]]
    OBVIOUS
  <1>9. ASSUME NEW i \in 1 .. n PROVE x[i] \in Elem(W) /\ x[i].at = R[h.a[i].w] /\ x[i].w = h.a[i].w
    <2>1. h.a[i].w \in W /\ h.a[i].w \in TimerWatchers
      BY <1>4, WatchIs
    <2>2. R[h.a[i].w] \in Int
      BY <1>5, <2>1
    <2>3. x[i] = [at |-> R[h.a[i].w], w |-> h.a[i].w]
      BY <1>8
    <2> QED
      BY <2>1, <2>2, <2>3 DEF Elem
  <1>10. x \in [1 .. n -> Elem(W)]
    BY <1>8, <1>9
  <1>11. Arr(x, W, n)
    BY <1>10, ArrayLen DEF Arr
  <1>12. PICK q : q = [a |-> x, ix |-> h.ix]
    OBVIOUS
  <1>13. q.a = x /\ q.ix = h.ix /\ q = [a |-> q.a, ix |-> q.ix]
    BY <1>12
  <1>14. g = Reheap(q)
    <2>1. DOMAIN h.a = 1 .. n
      BY <1>3
    <2>2. [h EXCEPT !.a = x] = q
      BY <1>3, <1>12
    <2> QED
      BY <1>8, <2>1, <2>2 DEF RescheduledHeap
  <1> HIDE DEF h
  <1>15. Held(q, n, W)
    <2>1. \A i \in 1 .. n : q.ix[q.a[i].w] = i
      BY <1>3, <1>9, <1>13
    <2>2. ASSUME NEW w \in W, q.ix[w] > 0 PROVE q.ix[w] \in 1 .. n /\ q.a[q.ix[w]].w = w
      <3>1. h.ix[w] \in 1 .. n /\ h.a[h.ix[w]].w = w
        BY <1>3, <1>13, <2>2
      <3> QED
        BY <1>9, <1>13, <3>1
    <2> QED
      BY <1>3, <1>11, <1>13, <2>1, <2>2 DEF Held
  <1>16. Timed(q, n, R)
    BY <1>9, <1>13 DEF Timed
  <1>17. IsHeap(g, n, W, R) /\ Active(g, W) = Active(q, W)
    BY <1>14, <1>15, <1>16, ReheapKeeps
  <1>18. ASSUME NEW v \in Active(g, W), Interval[v] > 0 PROVE R[v] = PeriodicRecalc(v, t)
    <2>1. v \in W /\ h.ix[v] > 0
      BY <1>13, <1>17 DEF Active
    <2>2. v \in TimerWatchers /\ HeapOf(v) = "periodics"
      BY <2>1, WatchIs
    <2>3. InHeap(v)
      BY <2>1, <2>2 DEF InHeap, h
    <2> QED
      BY <1>5, <1>18, <2>1, <2>2, <2>3
  <1> QED
    BY <1>6, <1>7, <1>17, <1>18 DEF Reset

\* After time_update at c: the clocks are right, the heaps are heaps, periodics are on
\* their grid and no further off than an interval.
Updated(c) ==
  /\ now' = [mn |-> now'.mn, rt |-> now'.rt, diff |-> now'.diff, floor |-> now'.floor, slewed |-> now'.slewed]
  /\ now'.mn \in Int /\ now'.diff \in Int /\ now'.rt \in Int /\ now'.floor \in Int /\ now'.slewed \in Nat
  /\ now'.rt = now'.mn + now'.diff /\ now'.mn = c
  /\ at' \in [TimerWatchers -> Int] /\ Heaps(heap', at') /\ Grid(heap', at', Horizon')

\* time_update does this whether or not it notices that the wall clock was set.
LEMMA UpdateKeeps ==
  ASSUME TimersInv, NEW c \in Int, now.mn <= c, TimeUpdate(c)
  PROVE  Updated(c)
  <1>1. /\ now = [mn |-> now.mn, rt |-> now.rt, diff |-> now.diff, floor |-> now.floor, slewed |-> now.slewed]
        /\ now.mn \in Int /\ now.diff \in Int /\ now.rt \in Int /\ now.floor \in Int /\ now.slewed \in Nat
        /\ now.rt = now.mn + now.diff
        /\ wall \in Int /\ at \in [TimerWatchers -> Int] /\ Heaps(heap, at) /\ Grid(heap, at, Horizon)
    BY DEF TimersInv, NowRight, TimesTyped
  <1>2. PICK m \in Int, d \in Int, e \in Nat : m = now.mn /\ d = now.diff /\ e = now.slewed
    BY <1>1
  <1>3. now.rt = m + d /\ Horizon = m + d + e /\ m <= c
    BY <1>1, <1>2 DEF Horizon
  <1>4. now' = NowAt(c)
    BY DEF TimeUpdate
  <1>5. /\ now' = [mn |-> now'.mn, rt |-> now'.rt, diff |-> now'.diff, floor |-> now'.floor, slewed |-> now'.slewed]
        /\ now'.mn \in Int /\ now'.diff \in Int /\ now'.rt \in Int /\ now'.floor \in Int /\ now'.slewed \in Nat
        /\ now'.rt = now'.mn + now'.diff /\ now'.mn = c
        /\ Horizon' \in Int /\ now'.rt <= Horizon'
        /\ ~Jumped(c) => Horizon' >= Horizon
    <2>1. CASE Interpolated(c)
      <3>1. now' = [mn |-> c, rt |-> d + c, diff |-> d, floor |-> now.floor, slewed |-> e]
        BY <1>1, <1>2, <1>4, <2>1 DEF NowAt
      <3>2. Horizon' = d + c + e
        BY <3>1 DEF Horizon
      <3> QED
        BY <1>1, <1>3, <3>1, <3>2
    <2>2. CASE ~Interpolated(c)
      <3>1. PICK f : f = Slewed(c)
        OBVIOUS
      <3>2. f \in Nat /\ (~Jumped(c) => f >= e /\ f >= e + (d - wall))
        BY <1>1, <1>2, <3>1 DEF Slewed
      <3>3. now' = [mn |-> c, rt |-> c + wall, diff |-> wall, floor |-> c, slewed |-> f]
        BY <1>4, <2>2, <3>1 DEF NowAt
      <3>4. Horizon' = c + wall + f
        BY <3>3 DEF Horizon
      <3> QED
        BY <1>1, <1>3, <3>2, <3>3, <3>4
    <2> QED
      BY <2>1, <2>2
  <1>6. CASE ~Jumped(c)
    <2>1. at' = at /\ heap' = heap
      BY <1>6 DEF TimeUpdate
    <2>2. ASSUME NEW w \in Active(heap["periodics"], Periodics), Interval[w] > 0
          PROVE  OnGrid(w, at[w]) /\ at[w] <= Horizon' + Interval[w]
      <3>1. OnGrid(w, at[w]) /\ at[w] <= Horizon + Interval[w]
        BY <1>1, <2>2 DEF Grid
      <3>2. w \in Periodics /\ w \in TimerWatchers
        BY WatchIs DEF Active
      <3>3. Interval[w] \in Nat /\ at[w] \in Int
        BY <1>1, <3>2, EvTimersAssumption
      <3> QED
        BY <1>1, <1>3, <1>5, <1>6, <3>1, <3>3
    <2>3. Grid(heap', at', Horizon')
      BY <2>1, <2>2 DEF Grid
    <2> QED
      BY <1>1, <1>5, <2>1, <2>3 DEF Updated
  <1>7. CASE Jumped(c)
    <2>1. at' = RescheduledAt(now'.rt) /\ heap' = [heap EXCEPT !["periodics"] = RescheduledHeap(now'.rt)]
      BY <1>4, <1>7 DEF TimeUpdate
    <2>2. PICK g : g = RescheduledHeap(now'.rt)
      OBVIOUS
    <2>3. PICK t \in Int : t = now'.rt
      BY <1>5
    <2>4. Reset(g, at', t)
      BY <2>1, <2>2, <2>3, ResetIs
    <2>5. PICK n \in Nat : IsHeap(g, n, Watch("periodics"), at')
      BY <2>4, WatchIs DEF Reset
    <2>6. Elsewhere(at', at, "periodics")
      BY <2>4, WatchIs DEF Reset, Elsewhere
    <2>7. Replaced(heap', heap, "periodics", g) /\ "periodics" \in HeapKinds
      BY <2>1, <2>2 DEF Replaced, HeapKinds
    <2>8. Heaps(heap', at') /\ heap'["periodics"] = g
      <3>1. Heaps(heap, at)
        BY <1>1
      <3>2. PICK G, U, k : G = heap' /\ U = at' /\ k = "periodics"
        OBVIOUS
      <3>3. k \in HeapKinds /\ IsHeap(g, n, Watch(k), U) /\ Elsewhere(U, at, k) /\ Replaced(G, heap, k, g)
        BY <2>5, <2>6, <2>7, <3>2
      <3>4. Heaps(G, U) /\ G[k] = g
        BY <3>1, <3>3, OneHeap
      <3> QED
        BY <3>2, <3>4
    <2>9. ASSUME NEW w \in Active(heap'["periodics"], Periodics), Interval[w] > 0
          PROVE  OnGrid(w, at'[w]) /\ at'[w] <= Horizon' + Interval[w]
      <3>1. at'[w] = PeriodicRecalc(w, t)
        BY <2>4, <2>8, <2>9 DEF Reset
      <3>2. w \in Periodics
        BY DEF Active
      <3>3. at'[w] \in Int /\ at'[w] <= t + Interval[w] /\ OnGrid(w, at'[w])
        BY <2>9, <3>1, <3>2, RecalcIs
      <3>4. PICK i \in Nat : i = Interval[w]
        BY <3>2, EvTimersAssumption
      <3>5. at'[w] <= Horizon' + i
        BY <1>5, <2>3, <3>3, <3>4
      <3> QED
        BY <3>3, <3>4, <3>5
    <2>10. Grid(heap', at', Horizon')
      BY <2>9 DEF Grid
    <2> QED
      BY <1>5, <2>4, <2>8, <2>10 DEF Updated, Reset
  <1> QED
    BY <1>6, <1>7

\* The invariant holds of a new loop.
LEMMA TimersStart == EvTimersInit => TimersInv
  <1> SUFFICES ASSUME EvTimersInit PROVE TimersInv
    OBVIOUS
  <1>1. at = [w \in TimerWatchers |-> 0] /\ at \in [TimerWatchers -> Int]
    BY DEF EvTimersInit
  <1>2. \A k \in HeapKinds : heap[k] = [a |-> <<>>, ix |-> [w \in Watch(k) |-> 0]]
    BY DEF EvTimersInit, HeapKinds, Watch
  <1>3. ASSUME NEW k \in HeapKinds PROVE IsHeap(heap[k], 0, Watch(k), at) /\ Active(heap[k], Watch(k)) = {}
    <2>1. PICK h : h = heap[k]
      OBVIOUS
    <2>2. PICK y : y = [w \in Watch(k) |-> 0]
      OBVIOUS
    <2>3. h.a = <<>> /\ h.ix = y /\ h = [a |-> h.a, ix |-> h.ix]
      <3>1. h = [a |-> <<>>, ix |-> y]
        BY <1>2, <2>1, <2>2
      <3> QED
        BY <3>1
    <2>4. y \in [Watch(k) -> Nat] /\ \A w \in Watch(k) : y[w] = 0
      BY <2>2
    <2>5. Len(h.a) = 0 /\ h.a \in [1 .. 0 -> Elem(Watch(k))]
      BY <2>3
    <2>6. Held(h, 0, Watch(k))
      BY <2>3, <2>4, <2>5 DEF Held, Arr
    <2>7. Timed(h, 0, at) /\ Sorted(h.a, 0)
      BY DEF Timed, Sorted
    <2>8. Active(h, Watch(k)) = {}
      BY <2>3, <2>4 DEF Active
    <2> QED
      BY <2>1, <2>6, <2>7, <2>8 DEF IsHeap
  <1>4. Heaps(heap, at)
    <2>1. heap = [k \in HeapKinds |-> heap[k]]
      BY DEF EvTimersInit, HeapKinds
    <2> QED
      BY <1>3, <2>1 DEF Heaps
  <1>5. Grid(heap, at, Horizon)
    <2>1. Active(heap["periodics"], Periodics) = {}
      BY <1>3, WatchIs DEF HeapKinds
    <2> QED
      BY <2>1 DEF Grid
  <1>6. timerPhase = "ready" /\ now = [mn |-> 0, rt |-> 0, diff |-> 0, floor |-> 0, slewed |-> 0] /\ clock = 0 /\ wall = 0 /\ waittime = 0
    BY DEF EvTimersInit
  <1>7. NoneLate /\ Slept
    BY <1>6 DEF NoneLate, Slept
  <1>8. TimesTyped /\ NowRight
    BY <1>1, <1>6 DEF TimesTyped, NowRight
  <1> QED
    BY <1>4, <1>5, <1>7, <1>8 DEF TimersInv

\* How long the backend may sleep.
LEMMA SleptIs ==
  ASSUME NEW H, NEW T \in [TimerWatchers -> Int], Heaps(H, T), NEW k \in HeapKinds, NEW t \in Int, NEW x,
         x = (IF Len(H[k].a) = 0 THEN MaxBlocktime ELSE Root(H[k]).at - t)
  PROVE  x \in Int /\ \A v \in Active(H[k], Watch(k)) : x <= T[v] - t
  <1>1. PICK n \in Nat : IsHeap(H[k], n, Watch(k), T)
    BY DEF Heaps
  <1>2. RootOf(H[k], n, Watch(k), T, t)
    BY <1>1, RootIs, WatchIs
  <1>3. Active(H[k], Watch(k)) \subseteq TimerWatchers
    BY DEF Active, Watch
  <1>4. CASE n = 0
    <2>1. x = MaxBlocktime /\ MaxBlocktime \in Int /\ Active(H[k], Watch(k)) = {}
      BY <1>2, <1>4, EvTimersAssumption DEF RootOf
    <2> QED
      BY <2>1
  <1>5. CASE n > 0
    <2>1. PICK w : w = H[k].a[1].w
      OBVIOUS
    <2>2. x = T[w] - t /\ w \in TimerWatchers /\ \A v \in Active(H[k], Watch(k)) : T[w] <= T[v]
      BY <1>2, <1>3, <1>5, <2>1 DEF RootOf, Root
    <2>3. PICK y \in Int : y = T[w]
      BY <2>2
    <2>4. ASSUME NEW v \in Active(H[k], Watch(k)) PROVE x <= T[v] - t
      <3>1. PICK z \in Int : z = T[v]
        BY <1>3
      <3>2. y <= z
        BY <2>2, <2>3, <3>1
      <3> QED
        BY <2>2, <2>3, <3>1, <3>2
    <2> QED
      BY <2>2, <2>3, <2>4
  <1> QED
    BY <1>4, <1>5

\* ev_run until it waits: time_update and the wait time of the earliest watchers.
LEMMA PrepareKeeps ==
  ASSUME TimersInv, TimersPrepare
  PROVE  TimersInv'
  <1>1. clock \in Int /\ wall \in Int /\ now.mn <= clock
    BY DEF TimersInv, TimesTyped, NowRight
  <1>2. Updated(clock)
    BY <1>1, UpdateKeeps DEF TimersPrepare
  <1>3. /\ clock' = clock /\ wall' = wall /\ timerPhase' = "wait"
        /\ waittime' = 0 \/ waittime' = Waittime(now'.mn, now'.rt)
    BY DEF TimersPrepare
  <1>4. at' \in [TimerWatchers -> Int] /\ Heaps(heap', at') /\ now'.mn \in Int /\ now'.rt \in Int
    BY <1>2 DEF Updated
  <1>5. PICK p : p = (IF Len(heap'["timers"].a) = 0 THEN MaxBlocktime ELSE Root(heap'["timers"]).at - now'.mn)
    OBVIOUS
  <1>6. PICK q : q = (IF Len(heap'["periodics"].a) = 0 THEN MaxBlocktime ELSE Root(heap'["periodics"]).at - now'.rt)
    OBVIOUS
  <1>7. p \in Int /\ \A v \in Active(heap'["timers"], Watch("timers")) : p <= at'[v] - now'.mn
    <2>1. "timers" \in HeapKinds
      BY DEF HeapKinds
    <2> QED
      BY <1>4, <1>5, <2>1, SleptIs
  <1>8. q \in Int /\ \A v \in Active(heap'["periodics"], Watch("periodics")) : q <= at'[v] - now'.rt
    <2>1. "periodics" \in HeapKinds
      BY DEF HeapKinds
    <2> QED
      BY <1>4, <1>6, <2>1, SleptIs
  <1>9. PICK m : m = Min2(MaxBlocktime, Min2(p, q))
    OBVIOUS
  <1>10. m \in Int /\ m <= p /\ m <= q
    BY <1>7, <1>8, <1>9, EvTimersAssumption DEF Min2
  <1>11. LeastWait \in Nat /\ (waittime' = 0 \/ waittime' = IF LeastWait < m THEN m ELSE LeastWait)
    <2>1. LeastWait \in Nat
      BY EvTimersAssumption DEF LeastWait, Max2
    <2>2. Waittime(now'.mn, now'.rt) = Max2(LeastWait, m)
      BY <1>5, <1>6, <1>9 DEF Waittime, RootIn
    <2> QED
      BY <1>3, <2>1, <2>2 DEF Max2
  <1>12. ASSUME NEW k \in HeapKinds, NEW w \in Active(heap'[k], Watch(k))
         PROVE  waittime' <= LeastWait \/ waittime' <= at'[w] - (IF k = "timers" THEN now'.mn ELSE now'.rt)
    <2>1. w \in TimerWatchers
      BY DEF Active, Watch
    <2>2. PICK z \in Int : z = at'[w]
      BY <1>4, <2>1
    <2>3. CASE k = "timers"
      BY <1>4, <1>7, <1>10, <1>11, <1>12, <2>2, <2>3
    <2>4. CASE k = "periodics"
      BY <1>4, <1>8, <1>10, <1>11, <1>12, <2>2, <2>4
    <2> QED
      BY <2>3, <2>4 DEF HeapKinds
  <1>13. Slept'
    BY <1>12 DEF Slept, NowOf
  <1>14. TimesTyped'
    BY <1>1, <1>3, <1>4, <1>10, <1>11 DEF TimesTyped
  <1>15. NowRight'
    BY <1>1, <1>2, <1>3 DEF NowRight, Updated
  <1>16. NoneLate'
    BY <1>3 DEF NoneLate
  <1>17. Heaps(heap', at') /\ Grid(heap', at', Horizon')
    BY <1>2 DEF Updated
  <1> QED
    BY <1>13, <1>14, <1>15, <1>16, <1>17 DEF TimersInv

\* The backend returns, and time_update again.
LEMMA WaitKeeps ==
  ASSUME TimersInv, NEW d \in Steps, Wait(d)
  PROVE  TimersInv'
  <1>1. clock \in Int /\ wall \in Int /\ now.mn <= clock /\ now.mn \in Int /\ d \in Nat
    BY EvTimersAssumption DEF TimersInv, TimesTyped, NowRight
  <1>2. PICK c \in Int : c = clock + d /\ now.mn <= c
    BY <1>1
  <1>3. /\ clock' = c /\ wall' = wall /\ timerPhase' = "reify" /\ waittime' = 0 /\ TimeUpdate(c)
    BY <1>2 DEF Wait
  <1>4. Updated(c)
    BY <1>2, <1>3, UpdateKeeps
  <1>5. TimesTyped'
    BY <1>1, <1>3, <1>4 DEF TimesTyped, Updated
  <1>6. NowRight'
    BY <1>2, <1>3, <1>4 DEF NowRight, Updated
  <1>7. NoneLate' /\ Slept'
    BY <1>3 DEF NoneLate, Slept
  <1>8. Heaps(heap', at') /\ Grid(heap', at', Horizon')
    BY <1>4 DEF Updated
  <1> QED
    BY <1>5, <1>6, <1>7, <1>8 DEF TimersInv

\* What Reify makes of the loop: t are the timers and p the periodics.
Reifies(t, p) ==
  /\ Done(t, "timers", now.mn) /\ Done(p, "periodics", now.rt)
  /\ heap' = [timers |-> t.h, periodics |-> p.h]
  /\ at' = [w \in TimerWatchers |-> IF w \in Timers THEN t.at[w] ELSE p.at[w]]
  /\ timerPendings' = Fed(t.feed) \o Fed(p.feed)

\* timers_reify and periodics_reify of a loop for which the invariant holds.
LEMMA ReifyIs ==
  ASSUME TimersInv, Reify
  PROVE  \E t, p : Reifies(t, p)
  <1>1. PICK t : t = Reified("timers", now.mn)
    OBVIOUS
  <1>2. PICK p : p = Reified("periodics", now.rt)
    OBVIOUS
  <1>3. at \in [TimerWatchers -> Int] /\ Heaps(heap, at) /\ now.mn \in Int /\ now.rt \in Int /\ now.slewed \in Nat
        /\ Grid(heap, at, Horizon)
    BY DEF TimersInv, TimesTyped, NowRight
  <1>4. Done(t, "timers", now.mn)
    <2>1. "timers" \in HeapKinds
      BY DEF HeapKinds
    <2>2. PICK n \in Nat : IsHeap(heap["timers"], n, Watch("timers"), at)
      BY <1>3, <2>1 DEF Heaps
    <2>3. ASSUME NEW v \in Active(heap["timers"], Watch("timers")) PROVE <<v, at[v]>> \in NearIn("timers", now.mn)
      <3>1. v \in Watch("timers") /\ v \in TimerWatchers /\ v \notin Periodics
        BY WatchIs DEF Active
      <3>2. at[v] \in Int
        BY <1>3, <3>1
      <3> QED
        BY <3>1, <3>2, NearIs
    <2> QED
      BY <1>1, <1>3, <2>1, <2>2, <2>3, ReifiedKeeps DEF HeapKinds
  <1>5. Done(p, "periodics", now.rt)
    <2>1. "periodics" \in HeapKinds
      BY DEF HeapKinds
    <2>2. PICK n \in Nat : IsHeap(heap["periodics"], n, Watch("periodics"), at)
      BY <1>3, <2>1 DEF Heaps
    <2>3. ASSUME NEW v \in Active(heap["periodics"], Watch("periodics")) PROVE <<v, at[v]>> \in NearIn("periodics", now.rt)
      <3>1. v \in Watch("periodics") /\ v \in TimerWatchers /\ v \in Active(heap["periodics"], Periodics)
        BY WatchIs DEF Active
      <3>2. at[v] \in Int
        BY <1>3, <3>1
      <3>3. Interval[v] > 0 => OnGrid(v, at[v]) /\ at[v] <= now.rt + now.slewed + Interval[v]
        BY <1>3, <3>1 DEF Grid, Horizon
      <3> QED
        BY <3>1, <3>2, <3>3, NearIs
    <2> QED
      BY <1>2, <1>3, <2>1, <2>2, <2>3, ReifiedKeeps DEF HeapKinds
  <1>6. Reifies(t, p)
    BY <1>1, <1>2, <1>4, <1>5 DEF Reifies, Reify
  <1> QED
    BY <1>6

\* What is done at t leaves a heap none of whose watchers is overdue.
LEMMA DoneIs ==
  ASSUME NEW k, NEW t \in Int, NEW s, Done(s, k, t)
  PROVE  /\ s.at \in [TimerWatchers -> Int] /\ \E m \in Nat : IsHeap(s.h, m, Watch(k), s.at)
         /\ \A v \in Active(s.h, Watch(k)) : s.at[v] >= t /\ <<v, s.at[v]>> \in NearIn(k, t)
  <1>1. /\ s.at \in [TimerWatchers -> Int] /\ \E m \in Nat : IsHeap(s.h, m, Watch(k), s.at)
        /\ \A v \in Active(s.h, Watch(k)) : <<v, s.at[v]>> \in NearIn(k, t)
    BY DEF Done, Reifying
  <1>2. ASSUME NEW v \in Active(s.h, Watch(k)) PROVE s.at[v] >= t
    <2>1. ~(s.at[v] < t)
      BY DEF Done, Late
    <2>2. s.at[v] \in Int
      BY <1>1 DEF Active, Watch
    <2> QED
      BY <2>1, <2>2
  <1> QED
    BY <1>1, <1>2

\* After it the heaps are heaps and no periodic with an interval is behind the wall clock.
LEMMA ReifyKeeps ==
  ASSUME TimersInv, Reify
  PROVE  TimersInv'
  <1>1. PICK t, p : Reifies(t, p)
    BY ReifyIs
  <1>2. /\ clock' = clock /\ wall' = wall /\ now' = now /\ waittime' = waittime /\ timerPhase' = "invoke"
    BY DEF Reify
  <1>3. now.mn \in Int /\ now.rt \in Int
    BY DEF TimersInv, NowRight
  <1>4. /\ t.at \in [TimerWatchers -> Int] /\ \E m \in Nat : IsHeap(t.h, m, Watch("timers"), t.at)
        /\ p.at \in [TimerWatchers -> Int] /\ \E m \in Nat : IsHeap(p.h, m, Watch("periodics"), p.at)
        /\ \A v \in Active(p.h, Watch("periodics")) : p.at[v] >= now.rt /\ <<v, p.at[v]>> \in NearIn("periodics", now.rt)
    BY <1>1, <1>3, DoneIs DEF Reifies
  <1>5. at' = [w \in TimerWatchers |-> IF w \in Timers THEN t.at[w] ELSE p.at[w]]
    BY <1>1 DEF Reifies
  <1>6. at' \in [TimerWatchers -> Int] /\ (\A v \in Timers : at'[v] = t.at[v]) /\ (\A v \in Periodics : at'[v] = p.at[v])
    BY <1>4, <1>5, WatchIs
  <1>7. heap' = [timers |-> t.h, periodics |-> p.h]
    BY <1>1 DEF Reifies
  <1>8. heap' = [k \in HeapKinds |-> heap'[k]] /\ heap'["timers"] = t.h /\ heap'["periodics"] = p.h
    BY <1>7 DEF HeapKinds
  <1>9. PICK m \in Nat : IsHeap(t.h, m, Watch("timers"), t.at)
    BY <1>4
  <1>10. IsHeap(t.h, m, Watch("timers"), at')
    <2>1. SameOn(at', t.at, t.h, Watch("timers"))
      BY <1>6, WatchIs DEF SameOn, Active
    <2> QED
      BY <1>9, <2>1, SameTimes
  <1>11. PICK n \in Nat : IsHeap(p.h, n, Watch("periodics"), p.at)
    BY <1>4
  <1>12. IsHeap(p.h, n, Watch("periodics"), at')
    <2>1. SameOn(at', p.at, p.h, Watch("periodics"))
      BY <1>6, WatchIs DEF SameOn, Active
    <2> QED
      BY <1>11, <2>1, SameTimes
  <1>13. Heaps(heap', at')
    <2>1. ASSUME NEW k \in HeapKinds PROVE \E l \in Nat : IsHeap(heap'[k], l, Watch(k), at')
      <3>1. CASE k = "timers"
        BY <1>8, <1>10, <3>1
      <3>2. CASE k = "periodics"
        BY <1>8, <1>12, <3>2
      <3> QED
        BY <3>1, <3>2 DEF HeapKinds
    <2> QED
      BY <1>8, <2>1 DEF Heaps
  <1>14. ASSUME NEW w \in Active(heap'["periodics"], Periodics), Interval[w] > 0
         PROVE  OnGrid(w, at'[w]) /\ at'[w] <= now.rt + now.slewed + Interval[w] /\ at'[w] >= now.rt
    <2>1. w \in Active(p.h, Watch("periodics")) /\ w \in Watch("periodics") /\ w \in Periodics /\ w \in TimerWatchers
      BY <1>8, WatchIs DEF Active
    <2>2. at'[w] = p.at[w] /\ p.at[w] \in Int
      BY <1>4, <1>6, <2>1
    <2>3. <<w, p.at[w]>> \in NearIn("periodics", now.rt) /\ p.at[w] >= now.rt
      BY <1>4, <2>1
    <2> QED
      BY <1>3, <1>14, <2>1, <2>2, <2>3, NearIs
  <1>15. Grid(heap', at', Horizon')
    BY <1>2, <1>14 DEF Grid, Horizon
  <1>16. NoneLate'
    <2>1. \A w \in Active(heap'["periodics"], Periodics) : Interval[w] > 0 => at'[w] >= now.rt
      BY <1>14
    <2> QED
      BY <1>2, <2>1 DEF NoneLate
  <1>17. Slept'
    BY <1>2 DEF Slept
  <1>18. TimesTyped'
    BY <1>2, <1>6 DEF TimersInv, TimesTyped
  <1>19. NowRight'
    BY <1>2 DEF TimersInv, NowRight
  <1> QED
    BY <1>13, <1>15, <1>16, <1>17, <1>18, <1>19 DEF TimersInv

\* Callbacks, the end of an iteration and setting the wall clock touch none of this.
LEMMA RestKeeps ==
  ASSUME TimersInv,
         (\E d \in Steps : TimersInvoke(d)) \/ TimersIterate \/ (\E j \in Jumps : SetWall(j)) \/ UNCHANGED timerVars
  PROVE  TimersInv'
  <1>1. now' = now /\ heap' = heap /\ at' = at /\ waittime' = waittime
    BY DEF TimersInvoke, TimersIterate, SetWall, timerVars
  <1>2. clock' \in Int /\ clock <= clock' /\ clock \in Int /\ wall' \in Int
    BY EvTimersAssumption DEF TimersInvoke, TimersIterate, SetWall, timerVars, TimersInv, TimesTyped
  <1>3. timerPhase' = timerPhase \/ timerPhase' = "ready"
    BY DEF TimersInvoke, TimersIterate, SetWall, timerVars
  <1>4. TimesTyped'
    BY <1>1, <1>2, <1>3 DEF TimersInv, TimesTyped
  <1>5. NowRight'
    BY <1>1, <1>2 DEF TimersInv, NowRight
  <1>6. NoneLate'
    BY <1>1, <1>3 DEF TimersInv, NoneLate
  <1>7. Slept'
    BY <1>1, <1>3 DEF TimersInv, Slept, NowOf
  <1>8. Heaps(heap', at') /\ Grid(heap', at', Horizon')
    BY <1>1 DEF TimersInv, Horizon
  <1> QED
    BY <1>4, <1>5, <1>6, <1>7, <1>8 DEF TimersInv

\* What every operation leaves alone, and when it may run.
Meanwhile == timerPhase \in {"ready", "invoke"} /\ UNCHANGED <<clock, wall, now, timerPhase, waittime>>

\* ev_timer_start, ev_timer_stop and ev_timer_again are operations on one watcher.
LEMMA TimerOperations ==
  ASSUME TimersInv, NEW w \in Timers, TimerAgain(w) \/ TimerStop(w) \/ \E a \in Afters \cup {at[w]} : TimerStart(w, a)
  PROVE  Meanwhile /\ (OperatesOn(w) \/ UNCHANGED <<heap, at>>)
  <1>1. w \in TimerWatchers /\ HeapOf(w) = "timers" /\ w \notin Periodics /\ Repeat[w] \in Nat
    BY WatchIs, EvTimersAssumption
  <1>2. at[w] \in Int /\ now.mn \in Int
    BY <1>1 DEF TimersInv, TimesTyped, NowRight
  <1>3. CASE \E a \in Afters \cup {at[w]} : TimerStart(w, a)
    <2>1. PICK a \in Afters \cup {at[w]} : TimerStart(w, a)
      BY <1>3
    <2>2. PICK x \in Int : x = a + now.mn
      BY <1>2, EvTimersAssumption
    <2>3. PICK g : g = Enter(heap["timers"], w, a + now.mn)
      OBVIOUS
    <2>4. TimeSet(w, x) /\ HeapSet(w, g) /\ ~InHeap(w) /\ g = Enter(heap[HeapOf(w)], w, x)
      BY <1>1, <2>1, <2>2, <2>3 DEF TimerStart, TimeSet, HeapSet, SetHeap
    <2>5. OperatesOn(w)
      BY <1>1, <2>4, Entering
    <2>6. Meanwhile
      BY <2>1 DEF TimerStart, MayCallTimer, Meanwhile
    <2> QED
      BY <2>5, <2>6
  <1>4. CASE TimerStop(w)
    <2>1. Meanwhile
      BY <1>4 DEF TimerStop, Stopped, MayCallTimer, Meanwhile
    <2>2. PICK g : g = StoppedHeap(w)
      OBVIOUS
    <2>3. HeapSet(w, g) /\ at' = [at EXCEPT ![w] = IF InHeap(w) THEN at[w] - now.mn ELSE at[w]]
      BY <1>4, <2>2 DEF TimerStop, HeapSet, SetHeap
    <2>4. CASE InHeap(w)
      <3>1. PICK x \in Int : x = at[w] - now.mn
        BY <1>2
      <3>2. TimeSet(w, x) /\ g = Leave(heap[HeapOf(w)], w)
        BY <2>2, <2>3, <2>4, <3>1 DEF TimeSet, StoppedHeap
      <3> QED
        BY <1>1, <2>1, <2>3, <2>4, <3>2, Leaving
    <2>5. CASE ~InHeap(w)
      <3>1. PICK x \in Int : x = at[w]
        BY <1>2
      <3>2. TimeSet(w, x) /\ g = heap[HeapOf(w)]
        BY <2>2, <2>3, <2>5, <3>1 DEF TimeSet, StoppedHeap
      <3> QED
        BY <1>1, <2>1, <2>3, <2>5, <3>2, StayingOut
    <2> QED
      BY <2>4, <2>5
  <1>5. CASE TimerAgain(w)
    <2>1. Meanwhile
      BY <1>5 DEF TimerAgain, MayCallTimer, Meanwhile
    <2>2. PICK t \in Int : t = now.mn + Repeat[w]
      BY <1>1, <1>2
    <2>3. PICK h : h = heap["timers"] /\ h = heap[HeapOf(w)]
      BY <1>1
    <2>4. CASE InHeap(w) /\ Repeat[w] > 0
      <3>1. PICK g : g = Adjustheap(Retimed(h, w, t), Len(h.a), h.ix[w])
        OBVIOUS
      <3>2. TimeSet(w, t) /\ HeapSet(w, g)
        BY <1>5, <2>2, <2>3, <2>4, <3>1 DEF TimerAgain, TimeSet, HeapSet, SetHeap
      <3> QED
        BY <2>1, <2>3, <2>4, <3>1, <3>2, Rerunning
    <2>5. CASE InHeap(w) /\ Repeat[w] = 0
      <3>1. PICK g : g = Leave(h, w)
        OBVIOUS
      <3>2. PICK x \in Int : x = at[w] - now.mn
        BY <1>2
      <3>3. TimeSet(w, x) /\ HeapSet(w, g)
        BY <1>5, <2>3, <2>5, <3>1, <3>2 DEF TimerAgain, TimeSet, HeapSet, SetHeap
      <3>4. g = Leave(heap[HeapOf(w)], w)
        BY <2>3, <3>1
      <3> QED
        BY <1>1, <2>1, <2>5, <3>3, <3>4, Leaving
    <2>6. CASE ~InHeap(w) /\ Repeat[w] > 0
      <3>1. PICK g : g = Enter(h, w, t)
        OBVIOUS
      <3>2. TimeSet(w, t) /\ HeapSet(w, g)
        BY <1>5, <2>2, <2>3, <2>6, <3>1 DEF TimerAgain, TimeSet, HeapSet, SetHeap
      <3>3. g = Enter(heap[HeapOf(w)], w, t)
        BY <2>3, <3>1
      <3> QED
        BY <1>1, <2>1, <2>6, <3>2, <3>3, Entering
    <2>7. CASE ~InHeap(w) /\ ~(Repeat[w] > 0)
      <3>1. UNCHANGED <<heap, at>>
        BY <1>5, <2>7 DEF TimerAgain
      <3> QED
        BY <2>1, <3>1
    <2> QED
      BY <1>1, <2>4, <2>5, <2>6, <2>7
  <1> QED
    BY <1>3, <1>4, <1>5

\* ev_periodic_start, ev_periodic_stop and ev_periodic_again are, too.
LEMMA PeriodicOperations ==
  ASSUME TimersInv, NEW w \in Periodics, PeriodicStart(w) \/ PeriodicStop(w) \/ PeriodicAgain(w)
  PROVE  Meanwhile /\ OperatesOn(w)
  <1>1. w \in TimerWatchers /\ HeapOf(w) = "periodics"
    BY WatchIs
  <1>2. at[w] \in Int /\ at \in [TimerWatchers -> Int] /\ now.rt \in Int
    BY <1>1 DEF TimersInv, TimesTyped, NowRight
  <1>3. PICK x \in Int : x = PeriodicAt(w)
    BY <1>2, RecalcIs, EvTimersAssumption DEF PeriodicAt
  <1>4. CASE PeriodicStart(w)
    <2>1. PICK g : g = Enter(heap["periodics"], w, PeriodicAt(w))
      OBVIOUS
    <2>2. TimeSet(w, x) /\ HeapSet(w, g) /\ ~InHeap(w) /\ g = Enter(heap[HeapOf(w)], w, x)
      BY <1>1, <1>3, <1>4, <2>1 DEF PeriodicStart, TimeSet, HeapSet, SetHeap
    <2>3. Meanwhile
      BY <1>4 DEF PeriodicStart, MayCallTimer, Meanwhile
    <2> QED
      BY <1>1, <1>3, <2>2, <2>3, Entering
  <1>5. CASE PeriodicStop(w)
    <2>1. Meanwhile
      BY <1>5 DEF PeriodicStop, Stopped, MayCallTimer, Meanwhile
    <2>2. PICK y \in Int : y = at[w]
      BY <1>2
    <2>3. PICK g : g = StoppedHeap(w)
      OBVIOUS
    <2>4. TimeSet(w, y)
      <3>1. at' = at
        BY <1>5 DEF PeriodicStop
      <3>2. at = [at EXCEPT ![w] = y]
        BY <1>1, <1>2, <2>2
      <3> QED
        BY <3>1, <3>2 DEF TimeSet
    <2>5. HeapSet(w, g)
      BY <1>5, <2>3 DEF PeriodicStop, HeapSet, SetHeap
    <2>6. CASE InHeap(w)
      <3>1. g = Leave(heap[HeapOf(w)], w)
        BY <2>3, <2>6 DEF StoppedHeap
      <3> QED
        BY <1>1, <2>1, <2>4, <2>5, <2>6, <3>1, Leaving
    <2>7. CASE ~InHeap(w)
      <3>1. g = heap[HeapOf(w)]
        BY <2>3, <2>7 DEF StoppedHeap
      <3> QED
        BY <1>1, <2>1, <2>4, <2>5, <2>7, <3>1, StayingOut
    <2> QED
      BY <2>6, <2>7
  <1>6. CASE PeriodicAgain(w)
    <2>1. Meanwhile
      BY <1>6 DEF PeriodicAgain, Stopped, MayCallTimer, Meanwhile
    <2>2. PICK g : g = Enter(StoppedHeap(w), w, x)
      OBVIOUS
    <2>3. TimeSet(w, x) /\ HeapSet(w, g)
      BY <1>3, <1>6, <2>2 DEF PeriodicAgain, TimeSet, HeapSet, SetHeap
    <2> QED
      BY <1>1, <1>3, <2>1, <2>2, <2>3, Reentering
  <1> QED
    BY <1>4, <1>5, <1>6

\* What such operations do keeps the invariant.
LEMMA OperationsKeep ==
  ASSUME TimersInv, NEW w \in TimerWatchers, Meanwhile, OperatesOn(w) \/ UNCHANGED <<heap, at>>
  PROVE  TimersInv'
  <1>1. CASE OperatesOn(w)
    <2>1. PICK x : \E m \in Nat : \E g : Operated(w, g, x, m)
      BY <1>1 DEF OperatesOn
    <2>2. PICK m \in Nat : \E g : Operated(w, g, x, m)
      BY <2>1
    <2>3. PICK g : Operated(w, g, x, m)
      BY <2>2
    <2> QED
      BY <2>3, OperationKeeps DEF Meanwhile
  <1>2. CASE UNCHANGED <<heap, at>>
    <2>1. TimesTyped' /\ NowRight' /\ NoneLate' /\ Slept'
      BY <1>2 DEF Meanwhile, TimersInv, TimesTyped, NowRight, NoneLate, Slept, NowOf
    <2>2. Heaps(heap', at') /\ Grid(heap', at', Horizon')
      BY <1>2 DEF Meanwhile, TimersInv, Horizon
    <2> QED
      BY <2>1, <2>2 DEF TimersInv
  <1> QED
    BY <1>1, <1>2

\* Every step keeps the invariant of the timers.
LEMMA TimersKeep == TimersInv /\ [EvTimersNext]_timerVars => TimersInv'
  <1> SUFFICES ASSUME TimersInv, [EvTimersNext]_timerVars PROVE TimersInv'
    OBVIOUS
  <1>1. CASE TimersPrepare
    BY <1>1, PrepareKeeps
  <1>2. CASE Reify
    BY <1>2, ReifyKeeps
  <1>3. CASE \E d \in Steps : Wait(d)
    BY <1>3, WaitKeeps
  <1>4. CASE (\E d \in Steps : TimersInvoke(d)) \/ TimersIterate \/ (\E j \in Jumps : SetWall(j)) \/ UNCHANGED timerVars
    BY <1>4, RestKeeps
  <1>5. CASE \E w \in Timers : TimerAgain(w) \/ TimerStop(w) \/ \E a \in Afters \cup {at[w]} : TimerStart(w, a)
    <2>1. PICK w \in Timers : TimerAgain(w) \/ TimerStop(w) \/ \E a \in Afters \cup {at[w]} : TimerStart(w, a)
      BY <1>5
    <2> QED
      BY <2>1, WatchIs, TimerOperations, OperationsKeep
  <1>6. CASE \E w \in Periodics : PeriodicStart(w) \/ PeriodicStop(w) \/ PeriodicAgain(w)
    <2>1. PICK w \in Periodics : PeriodicStart(w) \/ PeriodicStop(w) \/ PeriodicAgain(w)
      BY <1>6
    <2> QED
      BY <2>1, WatchIs, PeriodicOperations, OperationsKeep
  <1> QED
    BY <1>1, <1>2, <1>3, <1>4, <1>5, <1>6 DEF EvTimersNext

-----------------------------------------------------------------------------
(***************************************************************************)
(* The callbacks of an iteration: in which order they are, and who is still *)
(* owed one.                                                               *)
(***************************************************************************)
Waiting == [w : TimerWatchers \cup {"pending_w"}, due : Int]
Stands(e) == e.w \in TimerWatchers

\* x may be called before y.
CalledBefore(x, y) ==
  /\ y.w \in Periodics => x.w \in Periodics
  /\ HeapOf(x.w) = HeapOf(y.w) => x.due <= y.due

\* What has been called, was called in an order that is allowed.
InTurn(c) == \A i, j \in 1 .. Len(c) : i < j => CalledBefore(c[i], c[j])

\* What is pending will be: the last entry is called first.
Backwards(p) == \A i, j \in 1 .. Len(p) : i < j /\ Stands(p[i]) /\ Stands(p[j]) => CalledBefore(p[j], p[i])

\* Nothing still pending should have been called before what was called.
Ahead(c, p) == \A i \in 1 .. Len(c) : \A j \in 1 .. Len(p) : Stands(p[j]) => CalledBefore(c[i], p[j])

\* Every watcher that was overdue and is neither called nor stopped is pending.
Owed(S, p) == \A v \in S : v \in TimerWatchers /\ \E j \in 1 .. Len(p) : p[j].w = v

\* Outside the callbacks nothing is pending or owed a call.
Idle == timerPhase # "invoke" => timerPendings = <<>> /\ overdue = {}

\* The inductive invariant of the callbacks.
CallsInv ==
  /\ timerPendings \in Seq(Waiting) /\ called \in Seq(Feedings(TimerWatchers)) /\ Idle
  /\ InTurn(called) /\ Backwards(timerPendings) /\ Ahead(called, timerPendings) /\ Owed(overdue, timerPendings)

\* The lists the steps make of a list s of n elements of S.
ButLast(r, s, n) == Len(r) = n - 1 /\ \A i \in 1 .. n - 1 : r[i] = s[i]
Alike(f, s, n) == Len(f) = n /\ DOMAIN f = 1 .. n /\ \A i \in 1 .. n : f[i] = s[n + 1 - i]

\* The queue without its last entry.
LEMMA ButLastIs ==
  ASSUME NEW S, NEW s, s \in Seq(S), s # <<>>, NEW r, r = SubSeq(s, 1, Len(s) - 1), NEW n \in Nat, n = Len(s)
  PROVE  n > 0 /\ r \in Seq(S) /\ ButLast(r, s, n)
  <1>1. n \in Nat /\ n > 0 /\ \A i \in 1 .. n - 1 : s[i] \in S
    BY EmptySeq
  <1>2. r = SubSeq(s, 1, n - 1) /\ 1 \in Int /\ n - 1 \in Int
    OBVIOUS
  <1>3. /\ r \in Seq(S) /\ Len(r) = (IF 1 <= n - 1 THEN (n - 1) - 1 + 1 ELSE 0)
        /\ \A i \in 1 .. (n - 1) - 1 + 1 : r[i] = s[1 + i - 1]
    BY <1>1, <1>2, SubSeqProperties
  <1>4. Len(r) = n - 1
    BY <1>1, <1>3
  <1>5. \A i \in 1 .. n - 1 : r[i] = s[i]
    <2>1. ASSUME NEW i \in 1 .. n - 1 PROVE r[i] = s[i]
      <3>1. i \in 1 .. (n - 1) - 1 + 1 /\ 1 + i - 1 = i
        OBVIOUS
      <3> QED
        BY <1>3, <3>1
    <2> QED
      BY <2>1
  <1> QED
    BY <1>1, <1>3, <1>4, <1>5 DEF ButLast

\* feed_reverse_done turns the order around.
LEMMA FedIs ==
  ASSUME NEW S, NEW s, s \in Seq(S), NEW n \in Nat, n = Len(s), NEW f, f = Fed(s)
  PROVE  f \in Seq(S) /\ Alike(f, s, n)
  <1>1. f = [i \in 1 .. n |-> s[n + 1 - i]]
    BY DEF Fed
  <1>2. ASSUME NEW i \in 1 .. n PROVE s[n + 1 - i] \in S
    <2>1. n + 1 - i \in 1 .. n
      OBVIOUS
    <2> QED
      BY <2>1
  <1>3. f \in [1 .. n -> S]
    BY <1>1, <1>2
  <1>4. f \in Seq(S) /\ Len(f) = n
    BY <1>3, ArrayLen
  <1> QED
    BY <1>1, <1>4 DEF Alike

\* f are n watchers of the heap k, the first due last, all that are overdue at t among them.
FedFrom(f, n, k, t) ==
  /\ f \in Seq(Waiting) /\ Len(f) = n
  /\ \A i \in 1 .. n : f[i].w \in Watch(k) /\ f[i].due \in Int
  /\ \A i, j \in 1 .. n : i < j => f[j].due <= f[i].due
  /\ \A v \in Active(heap[k], Watch(k)) : at[v] < t => \E i \in 1 .. n : f[i].w = v

\* What one of the two reify functions feeds: the watcher that was due last comes first.
LEMMA FedOrder ==
  ASSUME NEW k, NEW t, NEW s, Done(s, k, t), NEW n \in Nat, n = Len(s.feed), NEW f, f = Fed(s.feed)
  PROVE  FedFrom(f, n, k, t)
  <1>1. /\ s.feed \in Seq(Feedings(Watch(k)))
        /\ \A i, j \in 1 .. n : i < j => s.feed[i].due <= s.feed[j].due
        /\ \A v \in Active(heap[k], Watch(k)) : at[v] < t =>
              (v \in Active(s.h, Watch(k)) /\ s.at[v] < t) \/ \E i \in 1 .. n : s.feed[i].w = v
    BY DEF Done, Reifying, Untouched
  <1>2. Alike(f, s.feed, n) /\ f \in Seq(Feedings(Watch(k)))
    BY <1>1, FedIs
  <1>3. Len(f) = n /\ \A i \in 1 .. n : f[i] = s.feed[n + 1 - i] /\ n + 1 - i \in 1 .. n
    BY <1>2 DEF Alike
  <1>4. \A i \in 1 .. n : f[i].w \in Watch(k) /\ f[i].due \in Int
    BY <1>2, <1>3, EntryIs
  <1>5. f \in Seq(Waiting)
    <2>1. ASSUME NEW e \in Feedings(Watch(k)) PROVE e \in Waiting
      BY DEF Feedings, Waiting, Watch
    <2>2. \A i \in 1 .. n : f[i] \in Waiting
      BY <1>2, <1>3, <2>1
    <2>3. f \in [1 .. n -> Feedings(Watch(k))]
      BY <1>2, <1>3, LenProperties
    <2>4. f \in [1 .. n -> Waiting]
      BY <2>2, <2>3
    <2> QED
      BY <2>4, ArrayLen
  <1>6. ASSUME NEW i \in 1 .. n, NEW j \in 1 .. n, i < j PROVE f[j].due <= f[i].due
    <2>0. n + 1 - j \in 1 .. n /\ n + 1 - i \in 1 .. n
      OBVIOUS
    <2>1. PICK a \in 1 .. n : a = n + 1 - j
      BY <2>0
    <2>2. PICK c \in 1 .. n : c = n + 1 - i
      BY <2>0
    <2>3. s.feed[a].due <= s.feed[c].due
      BY <1>1, <1>6, <2>1, <2>2, SMTT(30)
    <2> QED
      BY <1>3, <2>1, <2>2, <2>3
  <1>7. ASSUME NEW v \in Active(heap[k], Watch(k)), at[v] < t PROVE \E i \in 1 .. n : f[i].w = v
    <2>1. ~(v \in Active(s.h, Watch(k)) /\ s.at[v] < t)
      BY DEF Done, Late
    <2>2. PICK i \in 1 .. n : s.feed[i].w = v
      BY <1>1, <1>7, <2>1
    <2>30. n + 1 - i \in 1 .. n
      OBVIOUS
    <2>3. PICK j \in 1 .. n : j = n + 1 - i
      BY <2>30
    <2>31. n + 1 - j = i
      BY <2>3
    <2>4. f[j].w = v
      BY <1>3, <2>2, <2>31
    <2> QED
      BY <2>4
  <1> QED
    BY <1>3, <1>4, <1>5, <1>6, <1>7 DEF FedFrom

\* In a new loop nothing is pending.
LEMMA CallsStart == EvTimersInit => CallsInv
  <1> SUFFICES ASSUME EvTimersInit PROVE CallsInv
    OBVIOUS
  <1>1. timerPendings = <<>> /\ called = <<>> /\ overdue = {}
    BY DEF EvTimersInit
  <1>2. timerPendings \in Seq(Waiting) /\ called \in Seq(Feedings(TimerWatchers)) /\ Len(timerPendings) = 0 /\ Len(called) = 0
    BY <1>1, EmptySeq
  <1>3. InTurn(called) /\ Backwards(timerPendings) /\ Ahead(called, timerPendings)
    BY <1>2 DEF InTurn, Backwards, Ahead
  <1> QED
    BY <1>1, <1>2, <1>3 DEF CallsInv, Idle, Owed

\* Timers are fed before periodics, so that periodics are called first, each in order.
LEMMA ReifyCalls ==
  ASSUME TimersInv, Reify
  PROVE  CallsInv'
  <1>1. PICK t, p : Reifies(t, p)
    BY ReifyIs
  <1>2. /\ Done(t, "timers", now.mn) /\ Done(p, "periodics", now.rt)
        /\ timerPendings' = Fed(t.feed) \o Fed(p.feed)
    BY <1>1 DEF Reifies
  <1>3. /\ called' = <<>> /\ timerPhase' = "invoke"
        /\ overdue' = {w \in TimerWatchers : InHeap(w) /\ at[w] < (IF w \in Timers THEN now.mn ELSE now.rt)}
    BY DEF Reify
  <1>4. PICK f : f = Fed(t.feed)
    OBVIOUS
  <1>5. PICK g : g = Fed(p.feed)
    OBVIOUS
  <1>60. t.feed \in Seq(Feedings(Watch("timers"))) /\ p.feed \in Seq(Feedings(Watch("periodics")))
    BY <1>2 DEF Done, Reifying
  <1>6. PICK n \in Nat : n = Len(t.feed)
    BY <1>60
  <1>7. PICK m \in Nat : m = Len(p.feed)
    BY <1>60
  <1>70. FedFrom(f, n, "timers", now.mn)
    BY <1>2, <1>4, <1>6, FedOrder
  <1>71. FedFrom(g, m, "periodics", now.rt)
    BY <1>2, <1>5, <1>7, FedOrder
  <1>8. /\ f \in Seq(Waiting) /\ Len(f) = n
        /\ \A i \in 1 .. n : f[i].w \in Watch("timers") /\ f[i].due \in Int
        /\ \A i, j \in 1 .. n : i < j => f[j].due <= f[i].due
        /\ \A v \in Active(heap["timers"], Watch("timers")) : at[v] < now.mn => \E i \in 1 .. n : f[i].w = v
    BY <1>70 DEF FedFrom
  <1>9. /\ g \in Seq(Waiting) /\ Len(g) = m
        /\ \A i \in 1 .. m : g[i].w \in Watch("periodics") /\ g[i].due \in Int
        /\ \A i, j \in 1 .. m : i < j => g[j].due <= g[i].due
        /\ \A v \in Active(heap["periodics"], Watch("periodics")) : at[v] < now.rt => \E i \in 1 .. m : g[i].w = v
    BY <1>71 DEF FedFrom
  <1>10. PICK q : q = timerPendings'
    OBVIOUS
  <1>11. q = f \o g
    BY <1>2, <1>4, <1>5, <1>10
  <1>12. q \in Seq(Waiting) /\ Len(q) = n + m /\ \A i \in 1 .. n + m : q[i] = IF i <= n THEN f[i] ELSE g[i - n]
    <2>1. f \in Seq(Waiting) /\ g \in Seq(Waiting) /\ Len(f) = n /\ Len(g) = m
      BY <1>8, <1>9
    <2>2. /\ f \o g \in Seq(Waiting) /\ Len(f \o g) = Len(f) + Len(g)
          /\ \A i \in 1 .. Len(f) + Len(g) : (f \o g)[i] = IF i <= Len(f) THEN f[i] ELSE g[i - Len(f)]
      BY <2>1, ConcatProperties
    <2> QED
      BY <1>11, <2>1, <2>2
  <1>13. ASSUME NEW i \in 1 .. n PROVE i \in 1 .. n + m /\ q[i] = f[i]
    <2>1. i \in 1 .. n + m /\ i <= n
      OBVIOUS
    <2> QED
      BY <1>12, <2>1
  <1>14. ASSUME NEW i \in 1 .. m PROVE n + i \in 1 .. n + m /\ q[n + i] = g[i]
    <2>1. n + i \in 1 .. n + m /\ ~(n + i <= n) /\ (n + i) - n = i
      OBVIOUS
    <2> QED
      BY <1>12, <2>1
  <1>15. ASSUME NEW i \in 1 .. n + m
         PROVE  (i \in 1 .. n /\ q[i] = f[i]) \/ (i - n \in 1 .. m /\ q[i] = g[i - n] /\ i > n)
    <2>1. CASE i <= n
      BY <1>13, <2>1
    <2>2. CASE i > n
      <3>1. i - n \in 1 .. m /\ n + (i - n) = i
        BY <2>2
      <3> QED
        BY <1>14, <2>2, <3>1
    <2> QED
      BY <2>1, <2>2
  <1>16. ASSUME NEW i \in 1 .. n + m, NEW j \in 1 .. n + m, i < j PROVE CalledBefore(q[j], q[i])
    <2>1. CASE i \in 1 .. n /\ j \in 1 .. n
      <3>1. q[i] = f[i] /\ q[j] = f[j]
        BY <1>13, <2>1
      <3>2. f[i].w \notin Periodics
        BY <1>8, <2>1, WatchIs
      <3>3. f[j].due <= f[i].due
        BY <1>8, <1>16, <2>1
      <3> QED
        BY <3>1, <3>2, <3>3 DEF CalledBefore
    <2>2. CASE i \in 1 .. n /\ j - n \in 1 .. m /\ q[j] = g[j - n]
      <3>1. q[i] = f[i] /\ f[i].w \in Timers /\ g[j - n].w \in Periodics
        BY <1>8, <1>9, <1>13, <2>2, WatchIs
      <3>2. q[i].w \notin Periodics /\ HeapOf(q[i].w) = "timers" /\ HeapOf(q[j].w) = "periodics"
        BY <2>2, <3>1, WatchIs
      <3> QED
        BY <3>2 DEF CalledBefore
    <2>3. CASE i - n \in 1 .. m /\ q[i] = g[i - n] /\ j - n \in 1 .. m /\ q[j] = g[j - n]
      <3>1. PICK a \in 1 .. m : a = i - n
        BY <2>3
      <3>2. PICK c \in 1 .. m : c = j - n
        BY <2>3
      <3>3. g[c].due <= g[a].due
        BY <1>9, <1>16, <3>1, <3>2
      <3>4. g[c].w \in Periodics
        BY <1>9, WatchIs
      <3>5. q[i] = g[a] /\ q[j] = g[c]
        BY <2>3, <3>1, <3>2
      <3> QED
        BY <3>3, <3>4, <3>5 DEF CalledBefore
    <2> QED
      BY <1>15, <1>16, <2>1, <2>2, <2>3
  <1>17. Backwards(q)
    BY <1>12, <1>16 DEF Backwards
  <1>18. ASSUME NEW v \in overdue' PROVE v \in TimerWatchers /\ \E j \in 1 .. n + m : q[j].w = v
    <2>1. v \in TimerWatchers /\ InHeap(v) /\ at[v] < (IF v \in Timers THEN now.mn ELSE now.rt)
      BY <1>3
    <2>2. v \in Active(heap[HeapOf(v)], Watch(HeapOf(v)))
      BY <2>1, HeapMembers
    <2>3. CASE v \in Timers
      <3>1. HeapOf(v) = "timers"
        BY <2>3, WatchIs
      <3>2. PICK i \in 1 .. n : f[i].w = v
        BY <1>8, <2>1, <2>2, <2>3, <3>1
      <3> QED
        BY <1>13, <2>1, <3>2
    <2>4. CASE v \notin Timers
      <3>1. HeapOf(v) = "periodics"
        BY <2>1, <2>4, WatchIs
      <3>2. PICK i \in 1 .. m : g[i].w = v
        BY <1>9, <2>1, <2>2, <2>4, <3>1
      <3> QED
        BY <1>14, <2>1, <3>2
    <2> QED
      BY <2>3, <2>4
  <1>19. Owed(overdue', q)
    BY <1>12, <1>18 DEF Owed
  <1>20. called' \in Seq(Feedings(TimerWatchers)) /\ Len(called') = 0
    BY <1>3, EmptySeq
  <1>21. InTurn(called') /\ Ahead(called', q)
    BY <1>20 DEF InTurn, Ahead
  <1>22. Idle'
    BY <1>3 DEF Idle
  <1> QED
    BY <1>10, <1>12, <1>17, <1>19, <1>20, <1>21, <1>22 DEF CallsInv

\* The last entry is called: nothing that may come before it is still pending.
LEMMA InvokeCalls ==
  ASSUME CallsInv, NEW d \in Steps, TimersInvoke(d)
  PROVE  CallsInv'
  <1>1. PICK n \in Nat : n = Len(timerPendings)
    BY DEF CallsInv
  <1>2. /\ timerPendings \in Seq(Waiting) /\ timerPendings # <<>> /\ timerPhase = "invoke" /\ timerPhase' = "invoke"
        /\ called \in Seq(Feedings(TimerWatchers)) /\ InTurn(called) /\ Backwards(timerPendings)
        /\ Ahead(called, timerPendings) /\ Owed(overdue, timerPendings)
    BY DEF CallsInv, TimersInvoke
  <1>3. PICK r : r = timerPendings' /\ r = SubSeq(timerPendings, 1, Len(timerPendings) - 1)
    BY DEF TimersInvoke
  <1>4. n > 0 /\ r \in Seq(Waiting) /\ ButLast(r, timerPendings, n)
    BY <1>1, <1>2, <1>3, ButLastIs
  <1>5. Len(r) = n - 1 /\ \A i \in 1 .. n - 1 : r[i] = timerPendings[i] /\ i \in 1 .. n /\ i < n
    BY <1>4 DEF ButLast
  <1>6. PICK p \in Waiting : p = timerPendings[n]
    BY <1>1, <1>2, <1>4
  <1>7. overdue' = overdue \ {p.w} /\ called' = (IF p.w \in TimerWatchers THEN Append(called, p) ELSE called)
    BY <1>1, <1>6 DEF TimersInvoke
  <1>8. n \in 1 .. n
    BY <1>4
  <1>9. Backwards(r)
    <2>1. ASSUME NEW i \in 1 .. n - 1, NEW j \in 1 .. n - 1, i < j, Stands(r[i]), Stands(r[j]) PROVE CalledBefore(r[j], r[i])
      <3>1. Stands(timerPendings[i]) /\ Stands(timerPendings[j])
        BY <1>5, <2>1
      <3>2. CalledBefore(timerPendings[j], timerPendings[i])
        BY <1>1, <1>2, <1>5, <2>1, <3>1 DEF Backwards
      <3> QED
        BY <1>5, <3>2
    <2> QED
      BY <1>5, <2>1 DEF Backwards
  <1>10. Owed(overdue', r)
    <2>1. ASSUME NEW v \in overdue' PROVE v \in TimerWatchers /\ \E j \in 1 .. n - 1 : r[j].w = v
      <3>1. PICK j \in 1 .. n : timerPendings[j].w = v
        BY <1>1, <1>2, <1>7 DEF Owed
      <3>2. j # n
        BY <1>6, <1>7, <3>1
      <3>3. j \in 1 .. n - 1
        BY <3>2
      <3>4. v \in TimerWatchers
        BY <1>2, <1>7 DEF Owed
      <3> QED
        BY <1>5, <3>1, <3>3, <3>4
    <2> QED
      BY <1>5, <2>1 DEF Owed
  <1>11. ASSUME NEW i \in 1 .. Len(called), NEW j \in 1 .. n - 1, Stands(r[j]) PROVE CalledBefore(called[i], r[j])
    BY <1>1, <1>2, <1>5, <1>11 DEF Ahead
  <1>12. CASE p.w \notin TimerWatchers
    <2>1. called' = called
      BY <1>7, <1>12
    <2>2. Ahead(called, r)
      BY <1>5, <1>11 DEF Ahead
    <2> QED
      BY <1>2, <1>3, <1>4, <1>9, <1>10, <2>1, <2>2 DEF CallsInv, Idle
  <1>13. CASE p.w \in TimerWatchers
    <2>1. p \in Feedings(TimerWatchers)
      BY <1>13 DEF Waiting, Feedings
    <2>2. PICK m \in Nat : m = Len(called)
      BY <1>2
    <2>3. PICK c : c = called' /\ c = Append(called, p)
      BY <1>7, <1>13
    <2>4. Grown(c, called, p, m, Feedings(TimerWatchers))
      BY <1>2, <2>1, <2>2, <2>3, AppendIs
    <2>5. c \in Seq(Feedings(TimerWatchers)) /\ Len(c) = m + 1 /\ c[m + 1] = p /\ \A i \in 1 .. m : c[i] = called[i]
      BY <2>4 DEF Grown
    <2>6. \A i \in 1 .. m + 1 : i \in 1 .. m \/ i = m + 1
      OBVIOUS
    <2>7. ASSUME NEW i \in 1 .. m PROVE CalledBefore(called[i], p)
      BY <1>1, <1>2, <1>6, <1>8, <1>13, <2>2 DEF Ahead, Stands
    <2>8. ASSUME NEW i \in 1 .. m + 1, NEW j \in 1 .. m + 1, i < j PROVE CalledBefore(c[i], c[j])
      <3>1. i \in 1 .. m
        BY <2>8
      <3>2. CASE j \in 1 .. m
        BY <1>2, <2>2, <2>5, <2>8, <3>1, <3>2 DEF InTurn
      <3>3. CASE j = m + 1
        BY <2>5, <2>7, <3>1, <3>3
      <3> QED
        BY <2>6, <3>2, <3>3
    <2>9. InTurn(c)
      BY <2>5, <2>8 DEF InTurn
    <2>10. ASSUME NEW j \in 1 .. n - 1, Stands(r[j]) PROVE CalledBefore(p, r[j])
      <3>1. Stands(timerPendings[j]) /\ Stands(timerPendings[n])
        BY <1>5, <1>6, <1>13, <2>10 DEF Stands
      <3>2. CalledBefore(timerPendings[n], timerPendings[j])
        BY <1>1, <1>2, <1>5, <1>8, <3>1 DEF Backwards
      <3> QED
        BY <1>5, <1>6, <3>2
    <2>11. ASSUME NEW i \in 1 .. m + 1, NEW j \in 1 .. n - 1, Stands(r[j]) PROVE CalledBefore(c[i], r[j])
      <3>1. CASE i \in 1 .. m
        BY <1>11, <2>2, <2>5, <2>11, <3>1
      <3>2. CASE i = m + 1
        BY <2>5, <2>10, <2>11, <3>2
      <3> QED
        BY <2>6, <3>1, <3>2
    <2>12. Ahead(c, r)
      BY <1>5, <2>5, <2>11 DEF Ahead
    <2> QED
      BY <1>2, <1>3, <1>4, <1>9, <1>10, <2>3, <2>5, <2>9, <2>12 DEF CallsInv, Idle
  <1> QED
    BY <1>12, <1>13

\* An operation makes an entry nobody's, or leaves the queue as it is.
LEMMA ClearCalls ==
  ASSUME CallsInv, NEW w, ClearPending(w), overdue' = overdue \ {w}, called' = called, timerPhase' = timerPhase
  PROVE  CallsInv'
  <1>1. /\ timerPendings \in Seq(Waiting)
        /\ called \in Seq(Feedings(TimerWatchers)) /\ InTurn(called) /\ Backwards(timerPendings)
        /\ Ahead(called, timerPendings) /\ Owed(overdue, timerPendings)
        /\ timerPhase # "invoke" => timerPendings = <<>> /\ overdue = {}
    BY DEF CallsInv, Idle
  <1>2. PICK n \in Nat : n = Len(timerPendings)
    BY <1>1
  <1>3. PICK r : r = timerPendings'
    OBVIOUS
  <1>4. DOMAIN timerPendings = 1 .. n
    BY <1>1, <1>2
  <1>5. r = [i \in 1 .. n |-> IF timerPendings[i].w = w THEN NoOne ELSE timerPendings[i]]
    BY <1>3, <1>4 DEF ClearPending
  <1>6. NoOne \in Waiting /\ ~Stands(NoOne) /\ NoOne.w = "pending_w"
    <2>1. "pending_w" \notin TimerWatchers
      BY EvTimersAssumption DEF TimerWatchers
    <2> QED
      BY <2>1 DEF NoOne, Waiting, Stands
  <1>7. \A i \in 1 .. n : timerPendings[i] \in Waiting
    BY <1>1, <1>2
  <1>8. r \in [1 .. n -> Waiting]
    BY <1>5, <1>6, <1>7
  <1>9. r \in Seq(Waiting) /\ Len(r) = n
    BY <1>8, ArrayLen
  <1>10. ASSUME NEW i \in 1 .. n PROVE /\ Stands(r[i]) => r[i] = timerPendings[i] /\ Stands(timerPendings[i])
                                       /\ timerPendings[i].w # w => r[i] = timerPendings[i]
    BY <1>5, <1>6
  <1>11. Backwards(r)
    BY <1>1, <1>2, <1>9, <1>10 DEF Backwards
  <1>12. Ahead(called, r)
    BY <1>1, <1>2, <1>9, <1>10 DEF Ahead
  <1>13. Owed(overdue', r)
    <2>1. ASSUME NEW v \in overdue' PROVE v \in TimerWatchers /\ \E j \in 1 .. n : r[j].w = v
      <3>1. v \in overdue /\ v # w
        OBVIOUS
      <3>2. PICK j \in 1 .. n : timerPendings[j].w = v
        BY <1>1, <1>2, <3>1 DEF Owed
      <3>3. v \in TimerWatchers
        BY <1>1, <3>1 DEF Owed
      <3> QED
        BY <1>10, <3>1, <3>2, <3>3
    <2> QED
      BY <1>9, <2>1 DEF Owed
  <1>14. Idle'
    <2>1. ASSUME timerPhase' # "invoke" PROVE r = <<>> /\ overdue' = {}
      <3>1. timerPendings = <<>> /\ overdue = {}
        BY <1>1, <2>1
      <3>2. Len(r) = 0
        BY <1>2, <1>9, <3>1
      <3> QED
        BY <1>9, <3>1, <3>2, EmptySeq
    <2> QED
      BY <1>3, <2>1 DEF Idle
  <1> QED
    BY <1>1, <1>3, <1>9, <1>11, <1>12, <1>13, <1>14 DEF CallsInv

\* Steps that touch neither the queue nor who was called.
LEMMA SameCalls ==
  ASSUME CallsInv, UNCHANGED <<timerPendings, called, overdue>>,
         timerPhase' = timerPhase \/ (timerPendings = <<>> /\ timerPhase' # "invoke")
  PROVE  CallsInv'
  <1>1. Idle'
    <2>1. CASE timerPhase' = timerPhase
      BY <2>1 DEF CallsInv, Idle
    <2>2. CASE timerPendings = <<>>
      <3>1. Len(timerPendings) = 0
        BY <2>2
      <3>2. overdue = {}
        BY <3>1 DEF CallsInv, Owed
      <3> QED
        BY <2>2, <3>2 DEF Idle
    <2> QED
      BY <2>1, <2>2
  <1> QED
    BY <1>1 DEF CallsInv

\* Every step keeps the invariant of the callbacks.
LEMMA CallsKeep == TimersInv /\ CallsInv /\ [EvTimersNext]_timerVars => CallsInv'
  <1> SUFFICES ASSUME TimersInv, CallsInv, [EvTimersNext]_timerVars PROVE CallsInv'
    OBVIOUS
  <1>1. CASE TimersPrepare
    <2>1. timerPendings = <<>>
      BY <1>1 DEF CallsInv, Idle, TimersPrepare
    <2> QED
      BY <1>1, <2>1, SameCalls DEF TimersPrepare
  <1>2. CASE Reify
    BY <1>2, ReifyCalls
  <1>3. CASE \E d \in Steps : Wait(d)
    <2>1. PICK d \in Steps : Wait(d)
      BY <1>3
    <2>2. timerPendings = <<>>
      BY <2>1 DEF CallsInv, Idle, Wait
    <2> QED
      BY <2>1, <2>2, SameCalls DEF Wait
  <1>4. CASE \E d \in Steps : TimersInvoke(d)
    BY <1>4, InvokeCalls
  <1>5. CASE TimersIterate
    BY <1>5, SameCalls DEF TimersIterate
  <1>6. CASE \E j \in Jumps : SetWall(j)
    BY <1>6, SameCalls DEF SetWall
  <1>7. CASE \E w \in Timers : TimerAgain(w) \/ TimerStop(w) \/ \E a \in Afters \cup {at[w]} : TimerStart(w, a)
    <2>1. PICK w \in Timers : TimerAgain(w) \/ TimerStop(w) \/ \E a \in Afters \cup {at[w]} : TimerStart(w, a)
      BY <1>7
    <2>2. CASE TimerAgain(w) \/ TimerStop(w)
      <3>1. ClearPending(w) /\ overdue' = overdue \ {w} /\ called' = called /\ timerPhase' = timerPhase
        BY <2>2 DEF TimerAgain, TimerStop, Stopped
      <3> QED
        BY <3>1, ClearCalls
    <2>3. CASE \E a \in Afters \cup {at[w]} : TimerStart(w, a)
      <3>1. UNCHANGED <<timerPendings, called, overdue>> /\ timerPhase' = timerPhase
        BY <2>3 DEF TimerStart
      <3> QED
        BY <3>1, SameCalls
    <2> QED
      BY <2>1, <2>2, <2>3
  <1>8. CASE \E w \in Periodics : PeriodicStart(w) \/ PeriodicStop(w) \/ PeriodicAgain(w)
    <2>1. PICK w \in Periodics : PeriodicStart(w) \/ PeriodicStop(w) \/ PeriodicAgain(w)
      BY <1>8
    <2>2. CASE PeriodicStop(w) \/ PeriodicAgain(w)
      <3>1. ClearPending(w) /\ overdue' = overdue \ {w} /\ called' = called /\ timerPhase' = timerPhase
        BY <2>2 DEF PeriodicStop, PeriodicAgain, Stopped
      <3> QED
        BY <3>1, ClearCalls
    <2>3. CASE PeriodicStart(w)
      <3>1. UNCHANGED <<timerPendings, called, overdue>> /\ timerPhase' = timerPhase
        BY <2>3 DEF PeriodicStart
      <3> QED
        BY <3>1, SameCalls
    <2> QED
      BY <2>1, <2>2, <2>3
  <1>9. CASE UNCHANGED timerVars
    BY <1>9, SameCalls DEF timerVars
  <1> QED
    BY <1>1, <1>2, <1>3, <1>4, <1>5, <1>6, <1>7, <1>8, <1>9 DEF EvTimersNext

\* The two invariants are what TimersRight promises.
LEMMA RightWhen == TimersInv /\ CallsInv => TimersRight
  <1> SUFFICES ASSUME TimersInv, CallsInv PROVE TimersRight
    OBVIOUS
  <1>1. HeapsSound
    <2>1. heap = [k \in HeapKinds |-> heap[k]]
      BY DEF TimersInv, Heaps
    <2>2. DOMAIN heap = HeapKinds
      BY <2>1
    <2>3. ASSUME NEW k \in HeapKinds, NEW h, h = heap[k]
          PROVE  /\ \A i \in DOMAIN h.a : h.ix[h.a[i].w] = i /\ h.a[i].at = at[h.a[i].w]
                 /\ \A i \in 2 .. Len(h.a) : h.a[Parent(i)].at <= h.a[i].at
                 /\ \A w \in DOMAIN h.ix : h.ix[w] \in 0 .. Len(h.a)
      <3>1. PICK n \in Nat : IsHeap(h, n, Watch(k), at)
        BY <2>3 DEF TimersInv, Heaps
      <3>2. h.a \in [1 .. n -> Elem(Watch(k))] /\ Len(h.a) = n /\ h.ix \in [Watch(k) -> Nat]
        BY <3>1 DEF IsHeap, Held, Arr
      <3>3. \A i \in 1 .. n : h.ix[h.a[i].w] = i /\ h.a[i].at = at[h.a[i].w]
        BY <3>1 DEF IsHeap, Held, Timed
      <3>4. \A i \in 2 .. n : h.a[Parent(i)].at <= h.a[i].at
        BY <3>1 DEF IsHeap, Sorted
      <3>5. ASSUME NEW w \in Watch(k) PROVE h.ix[w] \in 0 .. n
        <4>1. h.ix[w] \in Nat
          BY <3>2
        <4>2. h.ix[w] > 0 => h.ix[w] \in 1 .. n
          BY <3>1 DEF IsHeap, Held
        <4> QED
          BY <4>1, <4>2
      <3>6. DOMAIN h.a = 1 .. n /\ DOMAIN h.ix = Watch(k)
        BY <3>2
      <3> QED
        BY <3>2, <3>3, <3>4, <3>5, <3>6
    <2> QED
      BY <2>2, <2>3 DEF HeapsSound
  <1>2. SleepNotPast
    <2>1. ASSUME timerPhase = "wait", NEW w \in TimerWatchers, InHeap(w)
          PROVE  waittime <= Max2(LeastWait, at[w] - (IF w \in Timers THEN now.mn ELSE now.rt))
      <3>1. HeapOf(w) \in HeapKinds /\ w \in Active(heap[HeapOf(w)], Watch(HeapOf(w)))
        BY <2>1, HeapMembers
      <3>2. waittime <= LeastWait \/ waittime <= at[w] - NowOf(HeapOf(w))
        BY <2>1, <3>1 DEF TimersInv, Slept
      <3>3. NowOf(HeapOf(w)) = IF w \in Timers THEN now.mn ELSE now.rt
        BY WatchIs DEF NowOf, HeapOf
      <3>4. at[w] \in Int /\ now.mn \in Int /\ now.rt \in Int /\ waittime \in Int
        BY DEF TimersInv, TimesTyped, NowRight
      <3>5. LeastWait \in Nat
        BY EvTimersAssumption DEF LeastWait, Max2
      <3>6. PICK t \in Int : t = at[w] - NowOf(HeapOf(w))
        BY <3>3, <3>4
      <3> QED
        BY <3>2, <3>3, <3>4, <3>5, <3>6 DEF Max2
    <2> QED
      BY <2>1 DEF SleepNotPast
  <1>3. DueOrder
    BY DEF CallsInv, InTurn, CalledBefore, DueOrder
  <1>4. NoneOverlooked
    BY DEF CallsInv, Idle, NoneOverlooked
  <1>5. PeriodicNear
    <2>1. ASSUME NEW w \in Periodics, InHeap(w), Interval[w] > 0
          PROVE  /\ (at[w] - Offset[w]) % Interval[w] = 0
                 /\ at[w] <= now.rt + Interval[w] + now.slewed
                 /\ timerPhase = "invoke" => at[w] >= now.rt
      <3>1. w \in TimerWatchers /\ HeapOf(w) = "periodics" /\ "periodics" \in HeapKinds /\ Watch("periodics") = Periodics
        BY WatchIs DEF HeapKinds
      <3>2. w \in Active(heap["periodics"], Periodics)
        BY <2>1, <3>1, HeapMembers
      <3>3. OnGrid(w, at[w]) /\ at[w] <= now.rt + now.slewed + Interval[w]
        BY <2>1, <3>2 DEF TimersInv, Grid, Horizon
      <3>4. timerPhase = "invoke" => at[w] >= now.rt
        BY <2>1, <3>1, <3>2 DEF TimersInv, NoneLate
      <3>5. at[w] \in Int /\ now.rt \in Int /\ now.slewed \in Nat /\ Interval[w] \in Nat
        BY <3>1, EvTimersAssumption DEF TimersInv, TimesTyped, NowRight
      <3>6. at[w] <= now.rt + Interval[w] + now.slewed
        BY <3>3, <3>5
      <3> QED
        BY <3>3, <3>4, <3>6 DEF OnGrid
    <2> QED
      BY <2>1 DEF PeriodicNear
  <1> QED
    BY <1>1, <1>2, <1>3, <1>4, <1>5 DEF TimersRight

(***************************************************************************)
(* No timer is slept over, overlooked or called out of turn: the heaps of  *)
(* timers and periodics are what ev_verify asserts of them, the backend is *)
(* asked to sleep past an active watcher by no more than the least wait,   *)
(* watchers are called in the order in which they were due, periodics      *)
(* first, every overdue watcher is called or stopped, and periodics keep   *)
(* to their grid when the wall clock is set (time_update, timers_reify,    *)
(* periodics_reify, upheap, downheap, ev_run), for any watchers,           *)
(* intervals, delays, least waits and jumps of the clock.                  *)
(***************************************************************************)
THEOREM TimersStayRight == EvTimersSpec => []TimersRight
  <1>1. EvTimersInit => TimersInv /\ CallsInv
    BY TimersStart, CallsStart
  <1>2. TimersInv /\ CallsInv /\ [EvTimersNext]_timerVars => (TimersInv /\ CallsInv)'
    BY TimersKeep, CallsKeep
  <1>3. TimersInv /\ CallsInv => TimersRight
    BY RightWhen
  <1> QED
    BY <1>1, <1>2, <1>3, PTL DEF EvTimersSpec
=============================================================================
