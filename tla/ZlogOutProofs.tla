--------------------------- MODULE ZlogOutProofs ---------------------------
(***************************************************************************)
(* Proofs about zlog's rules and what is behind them: files, hash tables.  *)
(*                                                                         *)
(* Part 1, ZlogFile, for any threads, processes, sizes and numbers of      *)
(* messages and of faults: no message is lost, the archives are in order,  *)
(* and only the oldest are removed.  Part 2, ZlogSingle, for one thread    *)
(* that logs: the messages follow the path of the log file.  Part 3,       *)
(* ZcHashtable, for any finite set of keys and any hash: the lists are     *)
(* sound, an iteration misses nothing, and the table is a map (KeyMap).    *)
(* Part 4, ZlogRule, for any levels, rule lines and categories: a rule's   *)
(* bitmap and its comparison agree, and it holds nothing once it is gone.  *)
(*                                                                         *)
(* None of the three theorems of part 1 is about an inductive property.    *)
(* What a rotation does to the directory depends on a list that it made    *)
(* before, so the invariant says what of the list is still true            *)
(* (RollingMover, SequenceMover): nobody else touches the archives,        *)
(* because one thread at a time has both locks (LocksInv).  A rolling      *)
(* archive that was cut off is whole but for one number, and the next      *)
(* rotation moves that gap down (Gapped).  Part 2 follows the inodes: what *)
(* the rule has open has been at the path since its stat (HasSeen).  In    *)
(* part 3 the links next and prev stand for one sequence per bucket, which *)
(* the invariant names (Table); put, remove, rehash and clean are changes  *)
(* of sequences.  Part 4 is arithmetic: bits of bytes against levels.      *)
(***************************************************************************)
EXTENDS ZlogFile, ZlogSingle, ZcHashtable, ZlogRule,
        FiniteSetTheorems, SequenceTheorems, WellFoundedInduction, TLAPS

(***************************************************************************)
(* Part 1: the file that is rotated.                                       *)
(***************************************************************************)

Names == Nat \cup {Base, Bak}
Message == [id : Nat, len : Lens]
Places == {"idle", "write", "check", "mutex", "fcntl", "stat", "move", "unfcntl", "unmutex"}

FileTypeOK ==
  /\ conf \in Rules
  /\ dir \in [DOMAIN dir -> 1 .. Len(content)] /\ DOMAIN dir \subseteq Names /\ IsFiniteSet(DOMAIN dir)
  /\ content \in Seq(Seq(Message))
  /\ th \in [Threads -> [pc : Places, len : Lens \cup {0}, ino : Nat]]
  /\ rot \in [Procs -> [files : Seq(Names), i : Nat]]
  /\ mutex \in [Procs -> Threads \cup {Free}]
  /\ flock \in Procs \cup {NoProc}
  /\ written \subseteq Message /\ IsFiniteSet(written)

\* Who rotates has the mutex of its process and its process the lock of the file.
LocksInv ==
  \A t \in Threads :
    /\ th[t].pc \in {"fcntl", "stat", "move", "unfcntl", "unmutex"} => mutex[proc(t)] = t
    /\ th[t].pc \in {"stat", "move", "unfcntl"} => flock = proc(t)

\* Every file ever made is in the directory, or was removed as an archive too many.
KeptInv ==
  /\ \A ino \in 1 .. Len(content) : ino \in pruned \/ \E n \in DOMAIN dir : dir[n] = ino
  /\ \A m \in written : \E ino \in 1 .. Len(content) : m \in ToSet(content[ino])
  /\ \A t \in Threads : At(t, "write") => th[t].len \in Lens /\ th[t].ino \in 1 .. Len(content)

\* No file has two names; the base file is the newest and the stray file the oldest.
AgeInv ==
  /\ \A a, b \in DOMAIN dir : dir[a] = dir[b] => a = b
  /\ Base \in DOMAIN dir => \A a \in Archives : dir[a] < dir[Base]
  /\ Bak \in DOMAIN dir => dir[Bak] = 1
  /\ NumbersTellAge

\* The archives have the numbers up to m without g, and are not too many.
Gapped(m, g) ==
  /\ Archives = (0 .. m) \ {g}
  /\ MaxCount > 0 => m <= MaxCount

\* Archives as a rotation may find them.
RollingShape == Archives = {Bak} \/ \E m \in Nat : \E g \in 0 .. m : Gapped(m, g)
ShapeInv == IF Rolling THEN RollingShape ELSE CountKept

\* A rotation has moved the archives after its place up, and with them the gap: the
\* places up to its own hold what they held.
RollingMover(files, i) ==
  \/ files = <<Bak>> /\ i = 1 /\ Archives = {Bak}
  \/ \E m \in Nat : \E g \in 0 .. m :
       /\ Gapped(m, g)
       /\ g <= i /\ i <= m /\ i <= Len(files)
       /\ \A j \in 1 .. i : files[j] = IF j <= g THEN j - 1 ELSE j
       /\ MaxCount > 0 => m <= i \/ m < MaxCount

\* In a sequence the archives before its place are gone, as far as they were too many.
FirstLeft(files, i) ==
  IF MaxCount > 0 /\ Len(files) > MaxCount
    THEN IF i <= Len(files) - MaxCount THEN i ELSE Len(files) - MaxCount + 1
    ELSE 1
Numbered(files) ==
  /\ \A a, b \in 1 .. Len(files) : files[a] = files[b] => a = b
  /\ \A a, b \in 1 .. Len(files) : a < b => index(files[a]) <= index(files[b])
SequenceMover(files, i) ==
  /\ i \in 1 .. Len(files) + 1
  /\ Numbered(files)
  /\ \A n \in Names : n \in Archives <=> \E j \in FirstLeft(files, i) .. Len(files) : files[j] = n

Mover(files, i) ==
  /\ Base \in DOMAIN dir
  /\ IF Rolling THEN RollingMover(files, i) ELSE SequenceMover(files, i)
MoverInv == \A t \in Threads : At(t, "move") => Mover(rot[proc(t)].files, rot[proc(t)].i)

FileInv == FileTypeOK /\ LocksInv /\ KeptInv /\ AgeInv /\ ShapeInv /\ MoverInv

\* What holds of the first, and of the next whenever it holds of one, holds of the last:
\* the smallest number for which it did not would have a smaller one before it.
LEMMA UpTo ==
  ASSUME NEW n \in Nat, NEW S, 0 \in S, \A i \in 1 .. n : i - 1 \in S => i \in S
  PROVE  \A i \in 0 .. n : i \in S
  <1> DEFINE T == {i \in 0 .. n : i \notin S}
  <1> SUFFICES ASSUME T # {} PROVE FALSE
    OBVIOUS
  <1>1. T \subseteq Nat
    OBVIOUS
  <1>2. PICK k \in T : \A m \in T : ~(<<m, k>> \in OpToRel(<, Nat))
    <2> HIDE DEF T
    <2> QED
      BY <1>1, NatLessThanWellFounded, WFMin
  <1>3. ASSUME NEW m \in T PROVE ~(m < k)
    <2>1. m \in Nat /\ k \in Nat /\ <<m, k>> \in Nat \X Nat /\ <<m, k>>[1] = m /\ <<m, k>>[2] = k
      BY <1>1
    <2>2. m < k => <<m, k>> \in OpToRel(<, Nat)
      BY <2>1 DEF OpToRel
    <2> QED
      BY <1>2, <2>2
  <1>4. k \in 1 .. n /\ k - 1 \in 0 .. n /\ k - 1 < k
    OBVIOUS
  <1> QED
    BY <1>3, <1>4

\* sscanf's number of an archive: 0 where the name has none.
LEMMA IndexIs == \A n \in Names : index(n) \in Nat /\ index(n) = IF n > 0 THEN n ELSE 0
  <1> SUFFICES ASSUME NEW n \in Int PROVE index(n) \in Nat /\ index(n) = IF n > 0 THEN n ELSE 0
    BY DEF Names, Base, Bak
  <1>1. \A x \in {n, 0} : (\A y \in {n, 0} : x >= y) => x = IF n > 0 THEN n ELSE 0
    OBVIOUS
  <1>2. \E x \in {n, 0} : \A y \in {n, 0} : x >= y
    OBVIOUS
  <1>3. index(n) = IF n > 0 THEN n ELSE 0
    BY <1>1, <1>2 DEF index, Max
  <1> QED
    BY <1>3

\* The number after the largest of two.
LEMMA LargerIs == \A a, b \in Int : Max({a, b}) = IF a > b THEN a ELSE b
  <1> SUFFICES ASSUME NEW a \in Int, NEW b \in Int PROVE Max({a, b}) = IF a > b THEN a ELSE b
    OBVIOUS
  <1>1. \A x \in {a, b} : (\A y \in {a, b} : x >= y) => x = IF a > b THEN a ELSE b
    OBVIOUS
  <1>2. \E x \in {a, b} : \A y \in {a, b} : x >= y
    OBVIOUS
  <1> QED
    BY <1>1, <1>2 DEF Max

\* n things listed once each in a set: the set has as many.
LEMMA AsMany ==
  ASSUME NEW S, IsFiniteSet(S), NEW n \in Nat, NEW f \in [1 .. n -> S],
         \A a, b \in 1 .. n : f[a] = f[b] => a = b
  PROVE  Cardinality(S) \in Nat /\ n <= Cardinality(S)
  <1>1. f \in Injection(1 .. n, S)
    BY DEF Injection, IsInjective
  <1>2. Cardinality(1 .. n) = n
    BY FS_Interval
  <1> QED
    BY <1>1, <1>2, FS_Injection, FS_CardinalityType

\* n numbers up to n, each larger than the one before, are 1 to n.
LEMMA OneByOne ==
  ASSUME NEW n \in Nat, NEW f \in [1 .. n -> 1 .. n],
         \A a, b \in 1 .. n : a < b => f[a] < f[b]
  PROVE  \A a \in 1 .. n : f[a] = a
  <1> DEFINE Low == {a \in 0 .. n : a = 0 \/ f[a] >= a}
             High == {a \in 0 .. n : a = 0 \/ f[n + 1 - a] <= n + 1 - a}
  <1>1. \A a \in 0 .. n : a \in Low
    <2>1. ASSUME NEW i \in 1 .. n, i - 1 \in Low PROVE i \in Low
      <3>1. CASE i = 1
        BY <3>1
      <3>2. CASE i > 1
        <4>1. i - 1 \in 1 .. n /\ f[i - 1] >= i - 1 /\ f[i - 1] < f[i]
          BY <2>1, <3>2
        <4> QED
          BY <4>1
      <3> QED
        BY <3>1, <3>2
    <2>2. 0 \in Low
      OBVIOUS
    <2> HIDE DEF Low
    <2> QED
      BY <2>1, <2>2, UpTo
  <1>2. \A a \in 0 .. n : a \in High
    <2>1. ASSUME NEW i \in 1 .. n, i - 1 \in High PROVE i \in High
      <3>1. CASE i = 1
        BY <3>1
      <3>2. CASE i > 1
        <4>1. PICK k \in 1 .. n : k = n + 1 - i
          BY <3>2
        <4>2. k + 1 \in 1 .. n /\ n + 1 - (i - 1) = k + 1
          BY <3>2, <4>1
        <4>3. f[k + 1] <= k + 1 /\ f[k] < f[k + 1]
          BY <2>1, <3>2, <4>1, <4>2
        <4>4. f[k] <= k
          BY <4>1, <4>2, <4>3
        <4> QED
          BY <4>1, <4>4
      <3> QED
        BY <3>1, <3>2
    <2>2. 0 \in High
      OBVIOUS
    <2> HIDE DEF High
    <2> QED
      BY <2>1, <2>2, UpTo
  <1>3. ASSUME NEW a \in 1 .. n PROVE f[a] = a
    <2>1. a \in Low /\ n + 1 - a \in High
      BY <1>1, <1>2
    <2>2. f[a] >= a
      BY <2>1
    <2>3. PICK k \in 1 .. n : k = n + 1 - a
      OBVIOUS
    <2>4. n + 1 - k = a /\ f[n + 1 - k] <= n + 1 - k
      BY <2>1, <2>3
    <2>5. f[a] <= a /\ f[a] \in Int
      BY <2>4
    <2> QED
      BY <2>2, <2>5
  <1> QED
    BY <1>3

\* The rotater's list has every archive once, in the order of the numbers.
LEMMA ListingIs ==
  ASSUME FileTypeOK, NEW s \in Listings
  PROVE  /\ s \in Seq(Names) /\ Len(s) = Cardinality(Archives)
         /\ Numbered(s)
         /\ \A a \in 1 .. Len(s) : s[a] \in Archives
         /\ \A n \in Archives : \E j \in 1 .. Len(s) : s[j] = n
  <1>1. IsFiniteSet(Archives) /\ Archives \subseteq Names
    BY FS_Difference DEF FileTypeOK, Archives
  <1>2. PICK c \in Nat : c = Cardinality(Archives)
    BY <1>1, FS_CardinalityType
  <1>3. /\ s \in [1 .. c -> Archives]
        /\ \A i, j \in 1 .. c : i # j => s[i] # s[j]
        /\ \A a, b \in 1 .. Len(s) : a < b => index(s[a]) <= index(s[b])
    BY <1>2 DEF Listings, SetToSeqs
  <1>4. s \in Seq(Names) /\ Len(s) = c
    BY <1>1, <1>3
  <1>5. s \in Injection(1 .. c, Archives)
    BY <1>3 DEF Injection, IsInjective
  <1>6. Cardinality(1 .. c) = c
    BY FS_Interval
  <1>7. s \in Surjection(1 .. c, Archives)
    BY <1>1, <1>2, <1>5, <1>6, FS_Injection
  <1>8. \A n \in Archives : \E j \in 1 .. Len(s) : s[j] = n
    BY <1>4, <1>7 DEF Surjection
  <1>9. Numbered(s)
    BY <1>3, <1>4 DEF Numbered
  <1> QED
    BY <1>2, <1>3, <1>4, <1>8, <1>9

\* The numbers up to m without g are m numbers.
LEMMA GapCount ==
  ASSUME NEW m \in Nat, NEW g \in 0 .. m
  PROVE  IsFiniteSet((0 .. m) \ {g}) /\ Cardinality((0 .. m) \ {g}) = m
  <1>1. PICK S : S = 0 .. m
    OBVIOUS
  <1>2. IsFiniteSet(S) /\ Cardinality(S) = m + 1 /\ g \in S
    BY <1>1, FS_Interval
  <1>3. IsFiniteSet(S \ {g}) /\ Cardinality(S \ {g}) = Cardinality(S) - 1
    BY <1>2, FS_RemoveElement
  <1> QED
    BY <1>1, <1>2, <1>3

\* The list of archives numbered up to m without g.
LEMMA GappedList ==
  ASSUME FileTypeOK, NEW m \in Nat, NEW g \in 0 .. m, Archives = (0 .. m) \ {g}, NEW s \in Listings
  PROVE  Len(s) = m /\ \A j \in 1 .. m : s[j] = IF j <= g THEN j - 1 ELSE j
  <1>1. /\ Len(s) = m /\ Numbered(s) /\ s \in Seq(Names)
        /\ \A a \in 1 .. m : s[a] \in (0 .. m) \ {g}
    BY ListingIs, GapCount
  <1> DEFINE rank == [j \in 1 .. m |-> IF s[j] < g THEN s[j] + 1 ELSE s[j]]
  <1>2. rank \in [1 .. m -> 1 .. m]
    BY <1>1
  <1>3. ASSUME NEW a \in 1 .. m, NEW b \in 1 .. m, a < b PROVE rank[a] < rank[b]
    <2>1. s[a] \in Names /\ s[b] \in Names /\ s[a] # s[b] /\ index(s[a]) <= index(s[b])
      BY <1>1, <1>3 DEF Numbered
    <2>2. s[a] < s[b]
      BY <1>1, <2>1, IndexIs
    <2>3. PICK x \in (0 .. m) \ {g}, y \in (0 .. m) \ {g} : x = s[a] /\ y = s[b]
      BY <1>1
    <2> QED
      BY <2>2, <2>3
  <1>4. \A a \in 1 .. m : rank[a] = a
    <2> HIDE DEF rank
    <2> QED
      BY <1>2, <1>3, OneByOne
  <1>5. ASSUME NEW j \in 1 .. m PROVE s[j] = IF j <= g THEN j - 1 ELSE j
    <2>1. PICK x \in (0 .. m) \ {g} : x = s[j]
      BY <1>1
    <2>2. j = IF x < g THEN x + 1 ELSE x
      BY <1>4, <2>1
    <2> QED
      BY <2>1, <2>2
  <1> QED
    BY <1>1, <1>5

Record == [pc : Places, len : Lens \cup {0}, ino : Nat]

\* What is known of a rule.
LEMMA RuleFacts ==
  ASSUME FileTypeOK
  PROVE  /\ Rolling \in BOOLEAN /\ MaxCount \in Nat
         /\ \A t \in Threads : proc(t) \in Procs
         /\ \A p \in Procs : p \in Nat \ {0}
  BY FileAssumption DEF FileTypeOK, Rolling, MaxCount, proc, Procs

\* One thread at a time has both locks.
LEMMA OneMover ==
  ASSUME LocksInv, NEW t \in Threads, NEW u \in Threads,
         th[t].pc \in {"stat", "move", "unfcntl"}, th[u].pc \in {"stat", "move", "unfcntl"}
  PROVE  t = u
  BY DEF LocksInv

\* Only the place of one thread changes.
Turned(t, pc) ==
  /\ th' \in [Threads -> Record]
  /\ th'[t].pc = pc
  /\ \A u \in Threads : u # t => th'[u] = th[u]

\* A thread goes on, or is done.
LEMMA GotoIs ==
  ASSUME FileTypeOK, NEW t \in Threads, NEW pc \in Places, Goto(t, pc)
  PROVE  Turned(t, pc)
  BY DEF FileTypeOK, Goto, Turned, Record

LEMMA DoneIs ==
  ASSUME FileTypeOK, NEW t \in Threads, Done(t)
  PROVE  Turned(t, "idle")
  BY DEF FileTypeOK, Done, Turned, Record, Idle, Places

LocksTyped == mutex \in [Procs -> Threads \cup {Free}] /\ flock \in Procs \cup {NoProc}

\* A step of a thread that has no business with the locks.
LEMMA LocksStay ==
  ASSUME FileInv, NEW t \in Threads, NEW pc \in Places, Turned(t, pc), UNCHANGED <<conf, mutex, flock>>,
         pc \in {"fcntl", "stat", "move", "unfcntl", "unmutex"} =>
           /\ th[t].pc \in {"fcntl", "stat", "move", "unfcntl", "unmutex"}
           /\ pc \in {"stat", "move", "unfcntl"} => th[t].pc \in {"stat", "move", "unfcntl"}
  PROVE  LocksTyped' /\ LocksInv'
  <1>1. LocksTyped'
    BY DEF FileInv, FileTypeOK, LocksTyped, Procs, proc
  <1>2. LocksInv'
    BY DEF FileInv, LocksInv, Turned, proc
  <1> QED
    BY <1>1, <1>2

\* A step that leaves files and archives alone.
LEMMA QuietKeeps ==
  ASSUME FileInv, UNCHANGED <<conf, dir, content, written, pruned>>,
         th' \in [Threads -> Record], rot' \in [Procs -> [files : Seq(Names), i : Nat]],
         LocksTyped', LocksInv',
         \A t \in Threads : th'[t].pc = "write" => th'[t] = th[t],
         \A t \in Threads : th'[t].pc = "move" => Mover(rot'[proc(t)].files, rot'[proc(t)].i)
  PROVE  FileInv'
  <1>1. FileTypeOK'
    BY DEF FileInv, FileTypeOK, LocksTyped, Record, Procs, proc
  <1>2. KeptInv'
    BY DEF FileInv, KeptInv, At
  <1>3. AgeInv'
    BY DEF FileInv, AgeInv, Archives, NumbersTellAge, Rolling
  <1>4. ShapeInv'
    BY DEF FileInv, ShapeInv, RollingShape, Gapped, CountKept, Archives, Rolling, MaxCount
  <1>5. ASSUME NEW f, NEW i, Mover(f, i) PROVE Mover(f, i)'
    <2>1. CASE Rolling
      BY <1>5, <2>1 DEF Mover, RollingMover, Gapped, Archives, Rolling, MaxCount
    <2>2. CASE ~Rolling
      BY <1>5, <2>2 DEF Mover, SequenceMover, FirstLeft, Archives, Rolling, MaxCount
    <2> QED
      BY <2>1, <2>2
  <1>6. MoverInv'
    BY <1>5 DEF MoverInv, At, proc
  <1> QED
    BY <1>1, <1>2, <1>3, <1>4, <1>6 DEF FileInv

\* A step of one thread that leaves files, archives and the rotater alone.
LEMMA PlainKeeps ==
  ASSUME FileInv, UNCHANGED <<conf, dir, content, rot, written, pruned>>,
         NEW t \in Threads, NEW pc \in Places \ {"write", "move"}, Turned(t, pc),
         LocksTyped', LocksInv'
  PROVE  FileInv'
  <1>1. th' \in [Threads -> Record] /\ rot' \in [Procs -> [files : Seq(Names), i : Nat]]
    BY DEF Turned, FileInv, FileTypeOK
  <1>2. \A u \in Threads : th'[u].pc = "write" => th'[u] = th[u]
    BY DEF Turned
  <1>3. \A u \in Threads : th'[u].pc = "move" => Mover(rot'[proc(u)].files, rot'[proc(u)].i)
    BY DEF Turned, FileInv, MoverInv, At
  <1> QED
    BY <1>1, <1>2, <1>3, QuietKeeps

\* The steps before the rotation: the size, the mutex and the lock of the file.
LEMMA ApproachKeeps ==
  ASSUME FileInv, UNCHANGED conf, NEW t \in Threads,
         WriteFails(t) \/ Check(t) \/ TryMutex(t) \/ TryFcntl(t)
  PROVE  FileInv'
  <1> USE DEF FileInv, Places, At
  <1>1. CASE WriteFails(t)
    <2>1. Turned(t, "idle")
      BY <1>1, DoneIs DEF WriteFails
    <2> QED
      BY <1>1, <2>1, LocksStay, PlainKeeps DEF WriteFails
  <1>2. CASE Check(t)
    <2>1. PICK pc \in {"mutex", "idle"} : Turned(t, pc)
      BY <1>2, GotoIs, DoneIs DEF Check
    <2> QED
      BY <1>2, <2>1, LocksStay, PlainKeeps DEF Check
  <1>3. CASE TryMutex(t)
    <2>1. CASE mutex[proc(t)] = Free
      <3>1. Turned(t, "fcntl") /\ mutex' = [mutex EXCEPT ![proc(t)] = t] /\ UNCHANGED flock
        BY <1>3, <2>1, GotoIs DEF TryMutex
      <3>2. LocksTyped'
        BY <3>1 DEF FileTypeOK, LocksTyped, Procs, proc
      <3>3. LocksInv'
        BY <2>1, <3>1, RuleFacts, FileAssumption, ZenonT(60) DEF LocksInv, Turned, FileTypeOK, proc, Free
      <3> QED
        BY <1>3, <3>1, <3>2, <3>3, PlainKeeps DEF TryMutex
    <2>2. CASE mutex[proc(t)] # Free
      <3>1. Turned(t, "idle")
        BY <1>3, <2>2, DoneIs DEF TryMutex
      <3> QED
        BY <1>3, <2>2, <3>1, LocksStay, PlainKeeps DEF TryMutex
    <2> QED
      BY <2>1, <2>2
  <1>4. CASE TryFcntl(t)
    <2>1. CASE flock \in {NoProc, proc(t)}
      <3>1. Turned(t, "stat") /\ flock' = proc(t) /\ UNCHANGED mutex
        BY <1>4, <2>1, GotoIs DEF TryFcntl
      <3>2. LocksTyped'
        BY <3>1 DEF FileTypeOK, LocksTyped, Procs, proc
      <3>3. LocksInv'
        BY <1>4, <2>1, <3>1, RuleFacts DEF LocksInv, Turned, proc, NoProc, TryFcntl
      <3> QED
        BY <1>4, <3>1, <3>2, <3>3, PlainKeeps DEF TryFcntl
    <2>2. CASE flock \notin {NoProc, proc(t)}
      <3>1. Turned(t, "idle") /\ mutex' = [mutex EXCEPT ![proc(t)] = Free] /\ UNCHANGED flock
        BY <1>4, <2>2, DoneIs DEF TryFcntl
      <3>2. LocksTyped'
        BY <3>1 DEF FileTypeOK, LocksTyped, Procs, proc
      <3>3. LocksInv'
        <4>1. th[t].pc = "fcntl" /\ \A u \in Threads : proc(u) \in Procs /\ proc(u)' = proc(u)
          BY <1>4, RuleFacts DEF TryFcntl, proc
        <4>2. mutex \in [Procs -> Threads \cup {Free}]
          BY DEF FileTypeOK
        <4> QED
          BY <3>1, <4>1, <4>2 DEF LocksInv, Turned
      <3> QED
        BY <1>4, <3>1, <3>2, <3>3, PlainKeeps DEF TryFcntl
    <2> QED
      BY <2>1, <2>2
  <1> QED
    BY <1>1, <1>2, <1>3, <1>4

\* The steps after it: the lock of the file, then the mutex.
LEMMA UnlockKeeps ==
  ASSUME FileInv, UNCHANGED conf, NEW t \in Threads, UnlockFcntl(t) \/ UnlockMutex(t)
  PROVE  FileInv'
  <1> USE DEF FileInv, Places, At
  <1>1. CASE UnlockFcntl(t)
    <2>1. Turned(t, "unmutex") /\ flock' = NoProc /\ UNCHANGED mutex /\ th[t].pc = "unfcntl"
      BY <1>1, GotoIs DEF UnlockFcntl
    <2>2. LocksTyped'
      BY <2>1 DEF FileTypeOK, LocksTyped, Procs, proc
    <2>3. LocksInv'
      BY <2>1, OneMover DEF LocksInv, Turned, proc
    <2> QED
      BY <1>1, <2>1, <2>2, <2>3, PlainKeeps DEF UnlockFcntl
  <1>2. CASE UnlockMutex(t)
    <2>1. Turned(t, "idle") /\ mutex' = [mutex EXCEPT ![proc(t)] = Free] /\ UNCHANGED flock /\ th[t].pc = "unmutex"
      BY <1>2, DoneIs DEF UnlockMutex
    <2>2. LocksTyped'
      BY <2>1 DEF FileTypeOK, LocksTyped, Procs, proc
    <2>3. LocksInv'
      BY <2>1, RuleFacts, ZenonT(60) DEF LocksInv, Turned, FileTypeOK, proc
    <2> QED
      BY <1>2, <2>1, <2>2, <2>3, PlainKeeps DEF UnlockMutex
  <1> QED
    BY <1>1, <1>2

\* A failing unlink or rename ends the rotation.
LEMMA MoveFailsKeeps ==
  ASSUME FileInv, UNCHANGED conf, NEW t \in Threads, MoveFails(t)
  PROVE  FileInv'
  <1>1. /\ th[t].pc = "move" /\ Turned(t, "unfcntl")
        /\ rot' = [rot EXCEPT ![proc(t)] = [files |-> <<>>, i |-> 0]]
        /\ UNCHANGED <<dir, content, mutex, flock, written, pruned>>
    BY GotoIs DEF MoveFails, FileInv, At, Places
  <1>2. LocksTyped' /\ LocksInv'
    BY <1>1, LocksStay DEF Places
  <1>3. rot' \in [Procs -> [files : Seq(Names), i : Nat]]
    <2>1. PICK p \in Procs : p = proc(t)
      BY RuleFacts DEF FileInv
    <2> QED
      BY <1>1, <2>1 DEF FileInv, FileTypeOK
  <1>4. \A u \in Threads : th'[u].pc = "move" => Mover(rot'[proc(u)].files, rot'[proc(u)].i)
    <2> SUFFICES ASSUME NEW u \in Threads, th'[u].pc = "move"
                 PROVE  Mover(rot'[proc(u)].files, rot'[proc(u)].i)
      OBVIOUS
    <2>1. u # t /\ th[u].pc = "move"
      BY <1>1 DEF Turned
    <2> QED
      BY <1>1, <2>1, OneMover DEF FileInv
  <1>5. th' \in [Threads -> Record] /\ \A u \in Threads : th'[u].pc = "write" => th'[u] = th[u]
    BY <1>1 DEF Turned
  <1> QED
    BY <1>1, <1>2, <1>3, <1>4, <1>5, QuietKeeps

\* A process is killed: its threads start again and its locks are free.
LEMMA CrashKeeps ==
  ASSUME FileInv, UNCHANGED conf, NEW p \in Procs, Crash(p)
  PROVE  FileInv'
  <1>1. /\ th' = [t \in Threads |-> IF proc(t) = p THEN Idle ELSE th[t]]
        /\ rot' = [rot EXCEPT ![p] = [files |-> <<>>, i |-> 0]]
        /\ mutex' = [mutex EXCEPT ![p] = Free]
        /\ flock' = IF flock = p THEN NoProc ELSE flock
        /\ UNCHANGED <<dir, content, written, pruned>>
    BY DEF Crash
  <1>2. th' \in [Threads -> Record]
    <2>1. Idle \in Record
      BY DEF Idle, Record, Places
    <2> QED
      BY <1>1, <2>1 DEF FileInv, FileTypeOK, Record
  <1>3. \A u \in Threads : th'[u] = Idle \/ (th'[u] = th[u] /\ proc(u) # p)
    BY <1>1
  <1>4. \A u \in Threads : proc(u) \in Procs /\ proc(u)' = proc(u)
    BY RuleFacts DEF FileInv, proc
  <1>5. LocksTyped'
    BY <1>1 DEF FileInv, FileTypeOK, LocksTyped, Procs, proc
  <1>6. LocksInv'
    <2> SUFFICES ASSUME NEW u \in Threads
                 PROVE  /\ th'[u].pc \in {"fcntl", "stat", "move", "unfcntl", "unmutex"} => mutex'[proc(u)] = u
                        /\ th'[u].pc \in {"stat", "move", "unfcntl"} => flock' = proc(u)
      BY <1>4 DEF LocksInv
    <2>1. CASE th'[u] = Idle
      BY <2>1 DEF Idle
    <2>2. CASE th'[u] = th[u] /\ proc(u) # p
      <3>1. mutex'[proc(u)] = mutex[proc(u)]
        BY <1>1, <1>4, <2>2 DEF FileInv, FileTypeOK
      <3>2. flock = proc(u) => flock' = proc(u)
        BY <1>1, <2>2
      <3> QED
        BY <2>2, <3>1, <3>2 DEF FileInv, LocksInv
    <2> QED
      BY <1>3, <2>1, <2>2
  <1>7. rot' \in [Procs -> [files : Seq(Names), i : Nat]]
    BY <1>1 DEF FileInv, FileTypeOK
  <1>8. \A u \in Threads : th'[u].pc = "move" => Mover(rot'[proc(u)].files, rot'[proc(u)].i)
    <2> SUFFICES ASSUME NEW u \in Threads, th'[u].pc = "move"
                 PROVE  Mover(rot'[proc(u)].files, rot'[proc(u)].i)
      OBVIOUS
    <2>1. th'[u] = th[u] /\ proc(u) # p
      BY <1>3 DEF Idle
    <2>2. rot'[proc(u)] = rot[proc(u)]
      BY <1>1, <1>4, <2>1 DEF FileInv, FileTypeOK
    <2> QED
      BY <2>1, <2>2 DEF FileInv, MoverInv, At
  <1>9. \A u \in Threads : th'[u].pc = "write" => th'[u] = th[u]
    BY <1>3 DEF Idle
  <1> QED
    BY <1>1, <1>2, <1>5, <1>6, <1>7, <1>8, <1>9, QuietKeeps

\* The archives are looked up, and the rotation begins at one end of the list.
LEMMA StatKeeps ==
  ASSUME FileInv, UNCHANGED conf, NEW t \in Threads, RotateStat(t)
  PROVE  FileInv'
  <1>1. CASE Turned(t, "unfcntl") /\ UNCHANGED rot
    BY <1>1, LocksStay, PlainKeeps DEF RotateStat, At, Places
  <1>2. ASSUME NEW s \in Listings, Turned(t, "move"), Base \in DOMAIN dir,
               rot' = [rot EXCEPT ![proc(t)] = [files |-> s, i |-> FirstPlace(s)]]
        PROVE  FileInv'
    <2>1. /\ s \in Seq(Names) /\ Numbered(s) /\ Len(s) = Cardinality(Archives)
          /\ \A a \in 1 .. Len(s) : s[a] \in Archives
          /\ \A n \in Archives : \E j \in 1 .. Len(s) : s[j] = n
      BY ListingIs DEF FileInv
    <2>2. FirstPlace(s) \in Nat
      BY <2>1 DEF FirstPlace
    <2>3. Mover(s, FirstPlace(s))
      <3>1. CASE Rolling
        <4>1. FirstPlace(s) = Len(s)
          BY <3>1 DEF FirstPlace
        <4>2. CASE Archives = {Bak}
          <5>1. Len(s) = 1 /\ s[1] = Bak
            <6>1. Cardinality({Bak}) = 1
              BY FS_Singleton
            <6>2. Cardinality(Archives) = Cardinality({Bak})
              BY <4>2
            <6>3. Len(s) = 1
              BY <2>1, <6>1, <6>2
            <6>4. s[1] \in Archives
              BY <2>1, <6>3
            <6> QED
              BY <4>2, <6>3, <6>4
          <5>2. s = <<Bak>>
            BY <2>1, <5>1
          <5> QED
            BY <1>2, <3>1, <4>1, <4>2, <5>1, <5>2 DEF Mover, RollingMover
        <4>3. CASE \E m \in Nat : \E g \in 0 .. m : Gapped(m, g)
          <5>1. PICK m \in Nat : \E g \in 0 .. m : Gapped(m, g)
            BY <4>3
          <5> PICK g \in 0 .. m : Gapped(m, g)
            BY <5>1
          <5>2. Len(s) = m /\ \A j \in 1 .. m : s[j] = IF j <= g THEN j - 1 ELSE j
            BY GappedList DEF Gapped, FileInv
          <5>3. RollingMover(s, m)
            BY <5>2 DEF RollingMover
          <5> QED
            BY <1>2, <3>1, <4>1, <5>2, <5>3 DEF Mover
        <4> QED
          BY <3>1, <4>2, <4>3 DEF FileInv, ShapeInv, RollingShape
      <3>2. CASE ~Rolling
        <4>1. FirstPlace(s) = 1 /\ FirstLeft(s, 1) = 1
          BY <2>1, <3>2, RuleFacts DEF FirstPlace, FirstLeft, FileInv
        <4>2. SequenceMover(s, 1)
          BY <2>1, <4>1 DEF SequenceMover
        <4> QED
          BY <1>2, <3>2, <4>1, <4>2 DEF Mover
      <3> QED
        BY <3>1, <3>2
    <2>4. \A u \in Threads : proc(u) \in Procs
      BY RuleFacts DEF FileInv
    <2>5. rot' \in [Procs -> [files : Seq(Names), i : Nat]] /\ rot'[proc(t)] = [files |-> s, i |-> FirstPlace(s)]
      BY <1>2, <2>1, <2>2, <2>4 DEF FileInv, FileTypeOK
    <2>6. \A u \in Threads : th'[u].pc = "move" => Mover(rot'[proc(u)].files, rot'[proc(u)].i)
      <3> SUFFICES ASSUME NEW u \in Threads, th'[u].pc = "move"
                   PROVE  Mover(rot'[proc(u)].files, rot'[proc(u)].i)
        OBVIOUS
      <3>1. th[t].pc = "stat"
        BY DEF RotateStat, At
      <3>2. u = t
        BY <1>2, <3>1, OneMover DEF Turned, FileInv
      <3> QED
        BY <2>3, <2>5, <3>2
    <2>7. LocksTyped' /\ LocksInv'
      BY <1>2, LocksStay DEF RotateStat, At, Places
    <2>8. th' \in [Threads -> Record] /\ \A u \in Threads : th'[u].pc = "write" => th'[u] = th[u]
      BY <1>2 DEF Turned
    <2> QED
      BY <2>5, <2>6, <2>7, <2>8, QuietKeeps DEF RotateStat
  <1> QED
    BY <1>1, <1>2, GotoIs DEF RotateStat, FileInv, Places

\* A step that does not touch the archives, or the rotater.
LEMMA ArchivesSame ==
  ASSUME FileInv, UNCHANGED <<conf, rot>>, Archives' = Archives,
         Base \in DOMAIN dir => Base \in DOMAIN dir',
         \A t \in Threads : th'[t].pc = "move" => th[t].pc = "move"
  PROVE  ShapeInv' /\ MoverInv'
  <1>1. ShapeInv'
    BY DEF FileInv, ShapeInv, RollingShape, Gapped, CountKept, Rolling, MaxCount
  <1>2. ASSUME NEW f, NEW i, Mover(f, i) PROVE Mover(f, i)'
    <2>1. CASE Rolling
      BY <1>2, <2>1 DEF Mover, RollingMover, Gapped, Rolling, MaxCount
    <2>2. CASE ~Rolling
      BY <1>2, <2>2 DEF Mover, SequenceMover, FirstLeft, Rolling, MaxCount
    <2> QED
      BY <2>1, <2>2
  <1>3. MoverInv'
    <2>1. \A t \in Threads : rot'[proc(t)'] = rot[proc(t)]
      BY DEF proc
    <2> QED
      BY <1>2, <2>1 DEF FileInv, MoverInv, At
  <1> QED
    BY <1>1, <1>3

\* The base file is made when it is not there; a rotation under way has one.
LEMMA FileOpenKeeps ==
  ASSUME FileInv, UNCHANGED conf, NEW t \in Threads, NEW len \in Lens, Open(t, len)
  PROVE  FileInv'
  <1>1. /\ th[t].pc = "idle"
        /\ th' = [th EXCEPT ![t] = [pc |-> "write", len |-> len, ino |-> dir'[Base]]]
        /\ UNCHANGED <<rot, mutex, flock, written, pruned>>
    BY DEF Open, At
  <1>2. /\ content \in Seq(Seq(Message)) /\ dir \in [DOMAIN dir -> 1 .. Len(content)]
        /\ DOMAIN dir \subseteq Names /\ IsFiniteSet(DOMAIN dir)
    BY DEF FileInv, FileTypeOK
  <1>3. PICK L \in Nat : L = Len(content)
    BY <1>2
  <1> DEFINE Opened ==
        /\ content' \in Seq(Seq(Message)) /\ Len(content') >= L
        /\ \A i \in 1 .. L : content'[i] = content[i]
        /\ \A i \in L + 1 .. Len(content') : i = dir'[Base]
        /\ dir' \in [DOMAIN dir \cup {Base} -> 1 .. Len(content')]
        /\ \A n \in DOMAIN dir : dir'[n] = dir[n]
        /\ Base \notin DOMAIN dir => dir'[Base] > L
  <1>4. Opened
    <2>1. CASE Base \in DOMAIN dir
      <3>1. UNCHANGED <<dir, content>>
        BY <2>1 DEF Open
      <3>2. DOMAIN dir \cup {Base} = DOMAIN dir
        BY <2>1
      <3> QED
        BY <1>2, <1>3, <2>1, <3>1, <3>2
    <2>2. CASE Base \notin DOMAIN dir
      <3>1. content' = Append(content, <<>>) /\ dir' = [n \in DOMAIN dir \cup {Base} |-> IF n = Base THEN Len(content') ELSE dir[n]]
        BY <2>2 DEF Open
      <3>2. <<>> \in Seq(Message)
        OBVIOUS
      <3>3. /\ content' \in Seq(Seq(Message)) /\ Len(content') = L + 1
            /\ \A i \in 1 .. L : content'[i] = content[i]
        BY <1>2, <1>3, <3>1, <3>2
      <3>4. dir' = [n \in DOMAIN dir \cup {Base} |-> IF n = Base THEN L + 1 ELSE dir[n]]
        BY <3>1, <3>3
      <3>5. dir' \in [DOMAIN dir \cup {Base} -> 1 .. L + 1] /\ dir'[Base] = L + 1
        BY <1>2, <1>3, <3>4
      <3>6. \A n \in DOMAIN dir : dir'[n] = dir[n]
        BY <2>2, <3>4
      <3> QED
        BY <1>3, <3>3, <3>5, <3>6
    <2> QED
      BY <2>1, <2>2
  <1>5. PICK K \in Nat : K = Len(content') /\ K >= L
    BY <1>4
  <1>6. PICK b \in 1 .. K : b = dir'[Base]
    BY <1>4, <1>5
  <1> HIDE DEF Opened
  <1>7. DOMAIN dir' = DOMAIN dir \cup {Base} /\ Archives' = Archives
    BY <1>4 DEF Opened, Archives
  <1>8. Turned(t, "write") /\ th'[t].len = len /\ th'[t].ino = b
    BY <1>1, <1>6 DEF Turned, FileInv, FileTypeOK, Record, Places
  <1>9. LocksTyped' /\ LocksInv'
    BY <1>1, <1>8, LocksStay DEF Places
  <1>10. FileTypeOK'
    <2>1. IsFiniteSet(DOMAIN dir')
      BY <1>2, <1>7, FS_AddElement
    <2>2. DOMAIN dir' \subseteq Names
      BY <1>2, <1>7 DEF Names
    <2> QED
      BY <1>1, <1>4, <1>7, <1>8, <1>9, <2>1, <2>2 DEF Opened, FileInv, FileTypeOK, LocksTyped, Turned, Record, Procs, proc
  <1>11. KeptInv'
    <2>1. \A ino \in 1 .. K : ino \in pruned' \/ \E n \in DOMAIN dir' : dir'[n] = ino
      <3> SUFFICES ASSUME NEW ino \in 1 .. K PROVE ino \in pruned' \/ \E n \in DOMAIN dir' : dir'[n] = ino
        OBVIOUS
      <3>1. CASE ino \in 1 .. L
        BY <1>1, <1>3, <1>4, <1>7, <3>1 DEF Opened, FileInv, KeptInv
      <3>2. CASE ino \in L + 1 .. K
        BY <1>4, <1>5, <1>7, <3>2 DEF Opened
      <3> QED
        BY <1>5, <3>1, <3>2
    <2>2. \A m \in written : \E ino \in 1 .. K : m \in ToSet(content'[ino])
      <3>1. \A m \in written : \E ino \in 1 .. L : m \in ToSet(content[ino])
        BY <1>3 DEF FileInv, KeptInv
      <3>2. \A ino \in 1 .. L : ino \in 1 .. K /\ content'[ino] = content[ino]
        BY <1>4, <1>5 DEF Opened
      <3> QED
        BY <3>1, <3>2
    <2>3. \A u \in Threads : th'[u].pc = "write" => th'[u].len \in Lens /\ th'[u].ino \in 1 .. K
      BY <1>3, <1>5, <1>8 DEF Turned, FileInv, KeptInv, At
    <2> QED
      BY <1>1, <1>5, <2>1, <2>2, <2>3 DEF KeptInv, At
  <1>12. AgeInv'
    <2>1. \A n \in DOMAIN dir : dir'[n] = dir[n] /\ dir[n] \in 1 .. L
      BY <1>2, <1>3, <1>4 DEF Opened
    <2>2. Base \notin DOMAIN dir => b > L
      BY <1>4, <1>6 DEF Opened
    <2>3. \A n, k \in DOMAIN dir' : dir'[n] = dir'[k] => n = k
      BY <1>6, <1>7, <2>1, <2>2 DEF FileInv, AgeInv
    <2>4. \A n \in Archives : dir'[n] < dir'[Base]
      BY <1>6, <2>1, <2>2 DEF FileInv, AgeInv, Archives
    <2>5. Bak \in DOMAIN dir' => dir'[Bak] = 1
      BY <1>7, <2>1 DEF FileInv, AgeInv, Bak, Base
    <2>6. NumbersTellAge'
      BY <1>7, <2>1 DEF FileInv, AgeInv, NumbersTellAge, Archives, Rolling
    <2> QED
      BY <1>7, <2>3, <2>4, <2>5, <2>6 DEF AgeInv
  <1>13. ShapeInv' /\ MoverInv'
    <2>1. \A u \in Threads : th'[u].pc = "move" => th[u].pc = "move"
      BY <1>8 DEF Turned
    <2> QED
      BY <1>1, <1>7, <2>1, ArchivesSame
  <1> QED
    BY <1>9, <1>10, <1>11, <1>12, <1>13 DEF FileInv

\* A message is added to the file that was opened.
LEMMA WriteKeeps ==
  ASSUME FileInv, UNCHANGED conf, NEW t \in Threads, Write(t)
  PROVE  FileInv'
  <1>0. content \in Seq(Seq(Message)) /\ IsFiniteSet(written)
    BY DEF FileInv, FileTypeOK
  <1>1. PICK L \in Nat : L = Len(content)
    BY <1>0
  <1>2. PICK ino \in 1 .. L : ino = th[t].ino /\ th[t].len \in Lens
    BY <1>1 DEF Write, FileInv, KeptInv, At
  <1>3. PICK m \in Message : m = [id |-> Cardinality(written) + 1, len |-> th[t].len]
    <2>1. PICK c \in Nat : c = Cardinality(written)
      BY <1>0, FS_CardinalityType
    <2>2. PICK l \in Lens : l = th[t].len
      BY <1>2
    <2>3. [id |-> c + 1, len |-> l] \in Message
      BY DEF Message
    <2> QED
      BY <2>1, <2>2, <2>3
  <1>4. PICK s \in Seq(Message) : s = content[ino]
    BY <1>1 DEF FileInv, FileTypeOK
  <1>5. PICK a \in Seq(Message) : a = Append(s, m)
    BY AppendProperties
  <1>6. /\ content' = [content EXCEPT ![ino] = a]
        /\ written' = written \cup {m}
        /\ Goto(t, "check") /\ UNCHANGED <<dir, rot, mutex, flock, pruned>>
    BY <1>2, <1>3, <1>4, <1>5 DEF Write
  <1>7. content' \in Seq(Seq(Message)) /\ Len(content') = L
    BY <1>1, <1>6 DEF FileInv, FileTypeOK
  <1>8. \A i \in 1 .. L : content'[i] = IF i = ino THEN a ELSE content[i]
    BY <1>1, <1>6 DEF FileInv, FileTypeOK
  <1>9. m \in ToSet(a) /\ \A x \in ToSet(s) : x \in ToSet(a)
    <2>1. Len(a) = Len(s) + 1 /\ a[Len(s) + 1] = m /\ \A i \in 1 .. Len(s) : a[i] = s[i]
      BY <1>5
    <2>2. DOMAIN a = 1 .. Len(s) + 1 /\ DOMAIN s = 1 .. Len(s) /\ Len(s) \in Nat
      BY <2>1
    <2> QED
      BY <2>1, <2>2 DEF ToSet
  <1>10. Turned(t, "check")
    BY <1>6, GotoIs DEF FileInv, Places
  <1>11. LocksTyped' /\ LocksInv'
    BY <1>6, <1>10, LocksStay DEF Places
  <1>12. FileTypeOK'
    <2>1. written' \subseteq Message /\ IsFiniteSet(written')
      BY <1>6, FS_AddElement DEF FileInv, FileTypeOK
    <2> QED
      BY <1>1, <1>6, <1>7, <1>10, <1>11, <2>1 DEF FileInv, FileTypeOK, LocksTyped, Turned, Record, Procs, proc
  <1>13. KeptInv'
    <2>1. \A i \in 1 .. L : i \in pruned' \/ \E n \in DOMAIN dir' : dir'[n] = i
      BY <1>1, <1>6 DEF FileInv, KeptInv
    <2>2. \A x \in written' : \E i \in 1 .. L : x \in ToSet(content'[i])
      <3>1. \A x \in written : \E i \in 1 .. L : x \in ToSet(content[i])
        BY <1>1 DEF FileInv, KeptInv
      <3>2. \A i \in 1 .. L : \A x \in ToSet(content[i]) : x \in ToSet(content'[i])
        BY <1>4, <1>8, <1>9
      <3>3. m \in ToSet(content'[ino])
        BY <1>8, <1>9
      <3> QED
          BY <1>6, <3>1, <3>2, <3>3
    <2>3. \A u \in Threads : th'[u].pc = "write" => th'[u].len \in Lens /\ th'[u].ino \in 1 .. L
      BY <1>1, <1>10 DEF Turned, FileInv, KeptInv, At
    <2> QED
      BY <1>7, <2>1, <2>2, <2>3 DEF KeptInv, At
  <1>14. AgeInv'
    BY <1>6 DEF FileInv, AgeInv, Archives, NumbersTellAge, Rolling
  <1>15. ShapeInv' /\ MoverInv'
    <2>1. Archives' = Archives
      BY <1>6 DEF Archives
    <2>2. \A u \in Threads : th'[u].pc = "move" => th[u].pc = "move"
      BY <1>10 DEF Turned
    <2> QED
      BY <1>6, <2>1, <2>2, ArchivesSame
  <1> QED
    BY <1>11, <1>12, <1>13, <1>14, <1>15 DEF FileInv

\* Who rotates has a list, and a place in it.
LEMMA RotatingIs ==
  ASSUME FileInv, NEW t \in Threads, th[t].pc = "move"
  PROVE  \E files \in Seq(Names) : \E k \in Nat : rot[proc(t)] = [files |-> files, i |-> k] /\ Mover(files, k)
  <1>1. rot[proc(t)] \in [files : Seq(Names), i : Nat]
    BY RuleFacts DEF FileInv, FileTypeOK
  <1>2. PICK f \in Seq(Names), k \in Nat : rot[proc(t)] = [files |-> f, i |-> k]
    BY <1>1
  <1> QED
    BY <1>2 DEF FileInv, MoverInv, At

DirTyped ==
  /\ dir \in [DOMAIN dir -> 1 .. Len(content)] /\ DOMAIN dir \subseteq Names /\ IsFiniteSet(DOMAIN dir)
  /\ \A ino \in 1 .. Len(content) : ino \in pruned \/ \E n \in DOMAIN dir : dir[n] = ino

\* A step of the rotation: what must be shown of it.
LEMMA RotationKeeps ==
  ASSUME FileInv, UNCHANGED <<conf, content, mutex, flock, written>>, NEW t \in Threads, th[t].pc = "move",
         NEW pc \in {"move", "unfcntl"}, Turned(t, pc),
         NEW files \in Seq(Names), NEW k \in Nat,
         rot' = [rot EXCEPT ![proc(t)] = [files |-> files, i |-> k]],
         DirTyped', AgeInv', ShapeInv', pc = "move" => Mover(files, k)'
  PROVE  FileInv'
  <1>1. LocksTyped' /\ LocksInv'
    BY LocksStay DEF Places
  <1>2. proc(t) \in Procs /\ \A u \in Threads : proc(u)' = proc(u)
    BY RuleFacts DEF FileInv, proc
  <1>3. rot' \in [Procs -> [files : Seq(Names), i : Nat]] /\ rot'[proc(t)] = [files |-> files, i |-> k]
    BY <1>2 DEF FileInv, FileTypeOK
  <1>4. FileTypeOK'
    BY <1>1, <1>3 DEF FileInv, FileTypeOK, DirTyped, LocksTyped, Turned, Record, Procs, proc
  <1>5. KeptInv'
    <2>1. \A u \in Threads : th'[u].pc = "write" => th'[u].len \in Lens /\ th'[u].ino \in 1 .. Len(content)
      BY DEF FileInv, KeptInv, Turned, At
    <2> QED
      BY <2>1 DEF FileInv, KeptInv, DirTyped, At
  <1>6. MoverInv'
    <2> SUFFICES ASSUME NEW u \in Threads, th'[u].pc = "move"
                 PROVE  Mover(rot[proc(u)].files, rot[proc(u)].i)'
      BY DEF MoverInv, At
    <2>1. u = t /\ pc = "move"
      BY OneMover DEF Turned, FileInv
    <2>2. rot'[proc(u)'].files = files /\ rot'[proc(u)'].i = k
      BY <1>2, <1>3, <2>1
    <2> QED
      BY <2>1, <2>2
  <1> QED
    BY <1>1, <1>4, <1>5, <1>6 DEF FileInv

\* A step of the rotation that leaves the files alone.
LEMMA PassedOver ==
  ASSUME FileInv, UNCHANGED <<conf, content, dir, pruned>>
  PROVE  DirTyped' /\ AgeInv' /\ ShapeInv' /\ Archives' = Archives /\ DOMAIN dir' = DOMAIN dir
  <1>1. DirTyped'
    BY DEF DirTyped, FileInv, FileTypeOK, KeptInv
  <1>2. AgeInv'
    BY DEF FileInv, AgeInv, Archives, NumbersTellAge, Rolling
  <1>3. ShapeInv'
    BY DEF FileInv, ShapeInv, RollingShape, Gapped, CountKept, Archives, Rolling, MaxCount
  <1> QED
    BY <1>1, <1>2, <1>3 DEF Archives

\* unlink of an archive.
LEMMA RemovedIs ==
  ASSUME FileInv, UNCHANGED <<conf, content>>, NEW n \in Archives, dir' = Removed(n),
         pruned' = pruned \cup {dir[n]}
  PROVE  /\ DirTyped' /\ AgeInv'
         /\ Archives' = Archives \ {n} /\ (Base \in DOMAIN dir => Base \in DOMAIN dir')
  <1>1. DOMAIN dir' = DOMAIN dir \ {n} /\ \A x \in DOMAIN dir' : dir'[x] = dir[x]
    BY DEF Removed
  <1>2. n \in DOMAIN dir /\ n # Base
    BY DEF Archives
  <1>3. DirTyped'
    <2>0. IsFiniteSet(DOMAIN dir \ {n})
      BY FS_RemoveElement DEF FileInv, FileTypeOK
    <2>1. IsFiniteSet(DOMAIN dir')
      BY <1>1, <2>0
    <2>2. dir' \in [DOMAIN dir' -> 1 .. Len(content')] /\ DOMAIN dir' \subseteq Names
      BY <1>1 DEF Removed, FileInv, FileTypeOK
    <2>3. \A ino \in 1 .. Len(content) : ino \in pruned' \/ \E x \in DOMAIN dir' : dir'[x] = ino
      BY <1>1, <1>2 DEF FileInv, KeptInv
    <2> QED
      BY <2>1, <2>2, <2>3 DEF DirTyped
  <1>4. Archives' = Archives \ {n}
    BY <1>1 DEF Archives
  <1>5. NumbersTellAge'
    <2>1. \A x \in Archives' : dir'[x] = dir[x] /\ x \in Archives
      BY <1>1, <1>4 DEF Archives
    <2> QED
      BY <2>1 DEF FileInv, AgeInv, NumbersTellAge, Rolling
  <1>6. AgeInv'
    BY <1>1, <1>2, <1>4, <1>5 DEF FileInv, AgeInv, Archives
  <1> QED
    BY <1>1, <1>2, <1>3, <1>4, <1>6

\* rename to a name that is free.
LEMMA RenamedIs ==
  ASSUME FileInv, UNCHANGED <<conf, content, pruned>>, NEW a \in DOMAIN dir, NEW b \in Names,
         b \notin DOMAIN dir, dir' = Rename(a, b)
  PROVE  /\ DirTyped'
         /\ DOMAIN dir' = (DOMAIN dir \ {a}) \cup {b}
         /\ dir'[b] = dir[a] /\ \A n \in DOMAIN dir \ {a} : dir'[n] = dir[n]
         /\ \A x, y \in DOMAIN dir' : dir'[x] = dir'[y] => x = y
  <1>1. dir' = [n \in (DOMAIN dir \ {a}) \cup {b} |-> IF n = b THEN dir[a] ELSE dir[n]]
    BY DEF Rename
  <1>2. /\ DOMAIN dir' = (DOMAIN dir \ {a}) \cup {b}
        /\ dir'[b] = dir[a] /\ \A n \in DOMAIN dir \ {a} : dir'[n] = dir[n]
    BY <1>1
  <1>3. \A x, y \in DOMAIN dir' : dir'[x] = dir'[y] => x = y
    <2>1. \A x, y \in DOMAIN dir : dir[x] = dir[y] => x = y
      BY DEF FileInv, AgeInv
    <2> QED
      BY <1>2, <2>1
  <1>4. DirTyped'
    <2>1. IsFiniteSet(DOMAIN dir \ {a})
      BY FS_RemoveElement DEF FileInv, FileTypeOK
    <2>2. IsFiniteSet(DOMAIN dir')
      BY <1>2, <2>1, FS_AddElement
    <2>3. dir' \in [DOMAIN dir' -> 1 .. Len(content')]
      BY <1>1, <1>2 DEF FileInv, FileTypeOK
    <2>4. DOMAIN dir' \subseteq Names
      BY <1>2 DEF FileInv, FileTypeOK
    <2>5. \A ino \in 1 .. Len(content) : ino \in pruned' \/ \E n \in DOMAIN dir' : dir'[n] = ino
      BY <1>2 DEF FileInv, KeptInv
    <2> QED
      BY <2>2, <2>3, <2>4, <2>5 DEF DirTyped
  <1> QED
    BY <1>2, <1>3, <1>4

\* What is meant by moving the archive at place k: removing it or renaming it.
MovedOne(files, k) ==
  IF Surplus(k, Len(files))
    THEN dir' = Removed(files[k]) /\ pruned' = pruned \cup {dir[files[k]]}
    ELSE dir' = (IF Rolling THEN Rename(files[k], NewNumber(files, k)) ELSE dir) /\ pruned' = pruned

\* The file without a number, which only the first rotation of a rolling archive finds.
LEMMA StrayMoved ==
  ASSUME FileInv, Rolling, UNCHANGED <<conf, content>>, Base \in DOMAIN dir,
         Archives = {Bak}, MovedOne(<<Bak>>, 1)
  PROVE  DirTyped' /\ AgeInv' /\ ShapeInv' /\ Mover(<<Bak>>, 0)'
  <1>1. Rolling' /\ MaxCount' = MaxCount /\ MaxCount \in Nat
    BY RuleFacts DEF FileInv, Rolling, MaxCount
  <1>2. CASE Surplus(1, 1)
    <2>1. dir' = Removed(Bak) /\ pruned' = pruned \cup {dir[Bak]}
      BY <1>2 DEF MovedOne
    <2>2. DirTyped' /\ AgeInv' /\ Archives' = {} /\ Base \in DOMAIN dir'
      BY <2>1, RemovedIs
    <2>3. Gapped(0, 0)'
      BY <1>1, <2>2 DEF Gapped
    <2>4. RollingMover(<<Bak>>, 0)'
      BY <2>3 DEF RollingMover
    <2> QED
      BY <1>1, <2>2, <2>3, <2>4 DEF ShapeInv, RollingShape, Mover
  <1>3. CASE ~Surplus(1, 1)
    <2>1. dir' = Rename(Bak, 1) /\ pruned' = pruned
      BY <1>3 DEF MovedOne, NewNumber
    <2>2. Bak \in DOMAIN dir /\ DOMAIN dir = {Base, Bak} /\ 1 \in Names /\ 1 \notin DOMAIN dir
      BY DEF Archives, Base, Bak, Names
    <2>3. /\ DirTyped' /\ DOMAIN dir' = {Base, 1}
          /\ dir'[1] = dir[Bak] /\ dir'[Base] = dir[Base]
          /\ \A x, y \in DOMAIN dir' : dir'[x] = dir'[y] => x = y
      BY <2>1, <2>2, RenamedIs DEF Base, Bak
    <2>4. Archives' = {1}
      BY <2>3 DEF Archives, Base
    <2>5. dir[Bak] < dir[Base]
      BY DEF FileInv, AgeInv
    <2>6. AgeInv'
      BY <2>3, <2>4, <2>5 DEF AgeInv, NumbersTellAge, Base, Bak
    <2>7. Gapped(1, 0)' /\ (MaxCount > 0 => 1 < MaxCount)
      BY <1>1, <1>3, <2>4 DEF Gapped, Surplus
    <2>8. RollingMover(<<Bak>>, 0)'
      BY <1>1, <2>7 DEF RollingMover
    <2> QED
      BY <1>1, <2>3, <2>6, <2>7, <2>8 DEF ShapeInv, RollingShape, Mover
  <1> QED
    BY <1>2, <1>3

\* One archive of a rolling archive: the last is removed when there is no room for it,
\* those after the gap stay, and the one before it moves into the gap.
LEMMA RolledOne ==
  ASSUME FileInv, Rolling, UNCHANGED <<conf, content>>, Base \in DOMAIN dir,
         NEW files \in Seq(Names), NEW k \in 1 .. Len(files), MovedOne(files, k),
         NEW m \in Nat, NEW g \in 0 .. m, Gapped(m, g), g <= k, k <= m,
         \A j \in 1 .. k : files[j] = IF j <= g THEN j - 1 ELSE j,
         MaxCount > 0 => m <= k \/ m < MaxCount
  PROVE  DirTyped' /\ AgeInv' /\ ShapeInv' /\ Mover(files, k - 1)'
  <1>1. Rolling' /\ MaxCount' = MaxCount /\ MaxCount \in Nat
    BY RuleFacts DEF FileInv, Rolling, MaxCount
  <1>2. ASSUME NEW M \in Nat, NEW G \in 0 .. M, Gapped(M, G)', Base \in DOMAIN dir', G <= k - 1, k - 1 <= M,
               \A j \in 1 .. k - 1 : files[j] = IF j <= G THEN j - 1 ELSE j,
               MaxCount > 0 => M <= k - 1 \/ M < MaxCount
        PROVE  ShapeInv' /\ Mover(files, k - 1)'
    <2>1. RollingMover(files, k - 1)'
      BY <1>1, <1>2 DEF RollingMover
    <2> QED
      BY <1>1, <1>2, <2>1 DEF ShapeInv, RollingShape, Mover
  <1>3. CASE Surplus(k, Len(files))
    <2>1. k >= MaxCount /\ MaxCount > 0
      BY <1>3 DEF Surplus
    <2>2. k = m /\ m = MaxCount
      BY <1>1, <2>1 DEF Gapped
    <2>3. PICK G \in 0 .. m - 1 : G = IF g = m THEN m - 1 ELSE g
      BY <2>1, <2>2, <1>1
    <2>4. files[k] \in Archives /\ Archives \ {files[k]} = (0 .. m - 1) \ {G}
      BY <2>2, <2>3 DEF Gapped
    <2>5. DirTyped' /\ AgeInv' /\ Archives' = (0 .. m - 1) \ {G} /\ Base \in DOMAIN dir'
      BY <1>3, <2>4, RemovedIs DEF MovedOne
    <2>6. Gapped(m - 1, G)'
      BY <1>1, <2>2, <2>5 DEF Gapped
    <2>7. \A j \in 1 .. k - 1 : files[j] = IF j <= G THEN j - 1 ELSE j
      BY <2>2, <2>3
    <2> QED
      BY <1>2, <2>2, <2>3, <2>5, <2>6, <2>7, <1>1
  <1>4. CASE ~Surplus(k, Len(files)) /\ k > g
    <2>1. files[k] = k /\ dir' = dir /\ pruned' = pruned
      BY <1>4 DEF MovedOne, NewNumber, Rename
    <2>2. DirTyped' /\ AgeInv' /\ Archives' = Archives /\ Base \in DOMAIN dir'
      BY <2>1, PassedOver
    <2>3. Gapped(m, g)'
      BY <1>1, <2>2 DEF Gapped
    <2>4. MaxCount > 0 => k < MaxCount
      BY <1>1, <1>4 DEF Surplus
    <2> QED
      BY <1>1, <1>2, <1>4, <2>2, <2>3, <2>4
  <1>5. CASE ~Surplus(k, Len(files)) /\ k <= g
    <2>1. k = g /\ files[k] = k - 1 /\ dir' = Rename(k - 1, k) /\ pruned' = pruned
      BY <1>5 DEF MovedOne, NewNumber
    <2>0. DOMAIN dir = ((0 .. m) \ {k}) \cup {Base}
      BY <2>1 DEF Gapped, Archives
    <2>2. k - 1 \in DOMAIN dir /\ k \notin DOMAIN dir /\ k \in Names /\ Base \in DOMAIN dir \ {k - 1}
      <3>1. k - 1 \in (0 .. m) \ {k} /\ k # Base /\ k - 1 # Base /\ k \in Nat
        BY DEF Base
      <3> QED
        BY <2>0, <3>1 DEF Names
    <2>3. /\ DirTyped' /\ DOMAIN dir' = (DOMAIN dir \ {k - 1}) \cup {k}
          /\ dir'[k] = dir[k - 1] /\ \A n \in DOMAIN dir \ {k - 1} : dir'[n] = dir[n]
          /\ \A x, y \in DOMAIN dir' : dir'[x] = dir'[y] => x = y
      BY <2>1, <2>2, RenamedIs, ZenonT(60)
    <2>4. Archives' = (0 .. m) \ {k - 1}
      BY <2>1, <2>2, <2>3 DEF Gapped, Archives, Base
    <2>5. \A x, y \in (0 .. m) \ {k} : x < y => dir[x] > dir[y]
      BY <2>1 DEF FileInv, AgeInv, NumbersTellAge, Gapped, Bak
    <2>6. \A x \in (0 .. m) \ {k, k - 1} : x \in DOMAIN dir \ {k - 1}
      BY <2>1 DEF Gapped, Archives
    <2>7. \A x, y \in (0 .. m) \ {k - 1} : x < y => dir'[x] > dir'[y]
      <3> SUFFICES ASSUME NEW x \in (0 .. m) \ {k - 1}, NEW y \in (0 .. m) \ {k - 1}, x < y
                   PROVE  dir'[x] > dir'[y]
        OBVIOUS
      <3>1. CASE x = k
        BY <2>3, <2>5, <2>6, <3>1
      <3>2. CASE y = k
        BY <2>3, <2>5, <2>6, <3>2
      <3>3. CASE x # k /\ y # k
        BY <2>3, <2>5, <2>6, <3>3
      <3> QED
        BY <3>1, <3>2, <3>3
    <2>8. \A x \in Archives' : dir'[x] < dir'[Base]
      <3>1. \A x \in (0 .. m) \ {k} : dir[x] < dir[Base]
        BY <2>1 DEF FileInv, AgeInv, Gapped
      <3>2. dir'[Base] = dir[Base]
        BY <2>2, <2>3
      <3>3. ASSUME NEW x \in (0 .. m) \ {k - 1} PROVE dir'[x] < dir'[Base]
        <4>1. CASE x = k
          BY <2>3, <3>1, <3>2, <4>1
        <4>2. CASE x # k
          BY <2>3, <2>6, <3>1, <3>2, <4>2
        <4> QED
          BY <4>1, <4>2
      <3> QED
        BY <2>4, <3>3
    <2>14. NumbersTellAge'
      BY <1>1, <2>4, <2>7 DEF NumbersTellAge, Bak
    <2>15. Bak \notin DOMAIN dir'
      BY <2>0, <2>3 DEF Bak, Base
    <2>9. AgeInv'
      BY <2>3, <2>8, <2>14, <2>15 DEF AgeInv
    <2>10. Gapped(m, k - 1)'
      BY <1>1, <2>4 DEF Gapped
    <2>11. MaxCount > 0 => k < MaxCount
      BY <1>1, <1>5 DEF Surplus
    <2>12. \A j \in 1 .. k - 1 : files[j] = IF j <= k - 1 THEN j - 1 ELSE j
      BY <2>1
    <2>13. MaxCount > 0 => m < MaxCount
      BY <1>1, <2>11
    <2>16. Base \in DOMAIN dir'
      BY <2>2, <2>3
    <2>17. k - 1 \in 0 .. m
      OBVIOUS
    <2> QED
      BY <1>2, <2>3, <2>9, <2>10, <2>12, <2>13, <2>16, <2>17
  <1> QED
    BY <1>3, <1>4, <1>5

\* One archive of a sequence: it is removed when there is no room for it, or stays.
LEMMA SequencedOne ==
  ASSUME FileInv, ~Rolling, UNCHANGED <<conf, content>>, Base \in DOMAIN dir,
         NEW files \in Seq(Names), NEW k \in 1 .. Len(files), MovedOne(files, k), SequenceMover(files, k)
  PROVE  DirTyped' /\ AgeInv' /\ ShapeInv' /\ Mover(files, k + 1)'
  <1>1. ~Rolling' /\ MaxCount' = MaxCount /\ MaxCount \in Nat
    BY RuleFacts DEF FileInv, Rolling, MaxCount
  <1>2. PICK L \in Nat : L = Len(files)
    OBVIOUS
  <1>3. \A i \in Nat : FirstLeft(files, i)' = FirstLeft(files, i)
    BY <1>1 DEF FirstLeft
  <1>4. CASE Surplus(k, Len(files))
    <2>1. MaxCount > 0 /\ k <= L - MaxCount
      BY <1>1, <1>2, <1>4 DEF Surplus
    <2>2. FirstLeft(files, k) = k /\ FirstLeft(files, k + 1) = k + 1
      BY <1>1, <1>2, <2>1 DEF FirstLeft
    <2>3. /\ \A a, b \in 1 .. L : files[a] = files[b] => a = b
          /\ \A n \in Names : n \in Archives <=> \E j \in k .. L : files[j] = n
      BY <1>2, <2>2 DEF SequenceMover, Numbered
    <2>4. files[k] \in Names /\ files[k] \in Archives
      BY <1>2, <2>3
    <2>5. DirTyped' /\ AgeInv' /\ Archives' = Archives \ {files[k]} /\ Base \in DOMAIN dir'
      BY <1>4, <2>4, RemovedIs DEF MovedOne
    <2>6. \A n \in Names : n \in Archives' <=> \E j \in k + 1 .. L : files[j] = n
      <3>1. ASSUME NEW n \in Names, n \in Archives' PROVE \E j \in k + 1 .. L : files[j] = n
        <4>1. PICK j \in k .. L : files[j] = n
          BY <2>3, <2>5, <3>1
        <4>2. j # k
          BY <2>5, <3>1, <4>1
        <4> QED
          BY <4>1, <4>2
      <3>2. ASSUME NEW j \in k + 1 .. L PROVE files[j] \in Archives'
        <4>1. j \in k .. L /\ j \in 1 .. L /\ j # k /\ files[j] \in Names
          BY <1>2
        <4>2. files[j] \in Archives /\ files[j] # files[k]
          BY <1>2, <2>3, <4>1
        <4> QED
          BY <2>5, <4>2
      <3> QED
        BY <3>1, <3>2
    <2>7. SequenceMover(files, k + 1)'
      BY <1>2, <1>3, <2>2, <2>6 DEF SequenceMover, Numbered
    <2>8. ShapeInv'
      <3>1. IsFiniteSet(Archives) /\ files[k] \in Archives
        BY <2>4, FS_Difference DEF FileInv, FileTypeOK, Archives
      <3>2. Cardinality(Archives \ {files[k]}) = Cardinality(Archives) - 1 /\ Cardinality(Archives) \in Nat
        BY <3>1, FS_RemoveElement, FS_CardinalityType
      <3>3. Cardinality(Archives') = Cardinality(Archives) - 1
        BY <2>5, <3>2
      <3> QED
        BY <1>1, <3>2, <3>3 DEF FileInv, ShapeInv, CountKept
    <2> QED
      BY <1>1, <2>5, <2>7, <2>8 DEF Mover
  <1>5. CASE ~Surplus(k, Len(files))
    <2>1. dir' = dir /\ pruned' = pruned
      BY <1>5 DEF MovedOne
    <2>2. DirTyped' /\ AgeInv' /\ ShapeInv' /\ Archives' = Archives /\ Base \in DOMAIN dir'
      BY <2>1, PassedOver
    <2>3. FirstLeft(files, k + 1) = FirstLeft(files, k)
      BY <1>1, <1>2, <1>5 DEF FirstLeft, Surplus
    <2>4. SequenceMover(files, k + 1)'
      BY <1>2, <1>3, <2>2, <2>3 DEF SequenceMover, Numbered
    <2> QED
      BY <1>1, <2>2, <2>4 DEF Mover
  <1> QED
    BY <1>4, <1>5

\* One turn of either loop of the rotater.
LEMMA MoveOneKeeps ==
  ASSUME FileInv, UNCHANGED conf, NEW t \in Threads, MoveOne(t)
  PROVE  FileInv'
  <1>1. th[t].pc = "move"
    BY DEF MoveOne, At
  <1>2. PICK files \in Seq(Names) : \E k \in Nat : rot[proc(t)] = [files |-> files, i |-> k] /\ Mover(files, k)
    BY <1>1, RotatingIs
  <1>3. PICK k \in Nat : rot[proc(t)] = [files |-> files, i |-> k] /\ Mover(files, k)
    BY <1>2
  <1>4. k \in 1 .. Len(files) /\ MovedOne(files, k) /\ UNCHANGED <<content, th, mutex, flock, written>>
    BY <1>3 DEF MoveOne, MovedOne
  <1>5. PICK i \in Nat : i = IF Rolling THEN k - 1 ELSE k + 1
    BY <1>4
  <1>6. rot' = [rot EXCEPT ![proc(t)] = [files |-> files, i |-> i]]
    <2>1. rot' = [rot EXCEPT ![proc(t)].i = i]
      BY <1>3, <1>5 DEF MoveOne
    <2>2. PICK r \in [files : Seq(Names), i : Nat] : r = [files |-> files, i |-> k]
      OBVIOUS
    <2>3. [r EXCEPT !.i = i] = [files |-> files, i |-> i]
      BY <2>2
    <2>4. rot[proc(t)] = r
      BY <1>3, <2>2
    <2> QED
      BY <2>1, <2>3, <2>4
  <1>7. Base \in DOMAIN dir
    BY <1>3 DEF Mover
  <1>8. DirTyped' /\ AgeInv' /\ ShapeInv' /\ Mover(files, i)'
    <2>1. CASE Rolling /\ files = <<Bak>> /\ k = 1 /\ Archives = {Bak}
      BY <1>4, <1>5, <1>7, <2>1, StrayMoved
    <2>2. CASE ~Rolling
      BY <1>3, <1>4, <1>5, <1>7, <2>2, SequencedOne DEF Mover
    <2>3. CASE Rolling /\ ~(files = <<Bak>> /\ k = 1 /\ Archives = {Bak})
      <3>1. PICK m \in Nat : \E g \in 0 .. m :
                 /\ Gapped(m, g) /\ g <= k /\ k <= m
                 /\ \A j \in 1 .. k : files[j] = IF j <= g THEN j - 1 ELSE j
                 /\ MaxCount > 0 => m <= k \/ m < MaxCount
        BY <1>3, <2>3 DEF Mover, RollingMover
      <3>2. PICK g \in 0 .. m :
                 /\ Gapped(m, g) /\ g <= k /\ k <= m
                 /\ \A j \in 1 .. k : files[j] = IF j <= g THEN j - 1 ELSE j
                 /\ MaxCount > 0 => m <= k \/ m < MaxCount
        BY <3>1
      <3> QED
        BY <1>4, <1>5, <1>7, <2>3, <3>2, RolledOne
    <2> QED
      BY <2>1, <2>2, <2>3
  <1>9. Turned(t, "move")
    BY <1>1, <1>4 DEF Turned, FileInv, FileTypeOK, Record
  <1> QED
    BY <1>1, <1>4, <1>6, <1>8, <1>9, RotationKeeps

\* The base file becomes the newest archive of a rolling archive.
LEMMA BaseRolled ==
  ASSUME FileInv, Rolling, UNCHANGED <<conf, content, pruned>>, Base \in DOMAIN dir,
         NEW files \in Seq(Names), NEW k \in Nat, RollingMover(files, k), k \notin 1 .. Len(files),
         dir' = Rename(Base, 0)
  PROVE  DirTyped' /\ AgeInv' /\ ShapeInv'
  <1>1. Rolling' /\ MaxCount' = MaxCount /\ MaxCount \in Nat
    BY RuleFacts DEF FileInv, Rolling, MaxCount
  <1>2. PICK m \in Nat : \E g \in 0 .. m : Gapped(m, g) /\ g <= k /\ k <= Len(files) /\ (MaxCount > 0 => m <= k \/ m < MaxCount)
    BY SMTT(30) DEF RollingMover
  <1>3. k = 0 /\ Gapped(m, 0) /\ (MaxCount > 0 => m < MaxCount)
    BY <1>1, <1>2
  <1>4. DOMAIN dir = (1 .. m) \cup {Base} /\ Archives = 1 .. m
    <2>1. (0 .. m) \ {0} = 1 .. m
      OBVIOUS
    <2>2. Archives = 1 .. m
      BY <1>3, <2>1 DEF Gapped
    <2> QED
      BY <2>2 DEF Archives
  <1>5. 0 \notin DOMAIN dir /\ 0 \in Names
    BY <1>4 DEF Base, Names
  <1>6. /\ DirTyped' /\ DOMAIN dir' = (DOMAIN dir \ {Base}) \cup {0}
        /\ dir'[0] = dir[Base] /\ \A n \in DOMAIN dir \ {Base} : dir'[n] = dir[n]
        /\ \A x, y \in DOMAIN dir' : dir'[x] = dir'[y] => x = y
    BY <1>5, RenamedIs
  <1>7. DOMAIN dir' = 0 .. m
    BY <1>4, <1>6 DEF Base
  <1>8. Archives' = 0 .. m
    BY <1>7 DEF Archives, Base
  <1>9. \A x \in 1 .. m : dir'[x] = dir[x] /\ dir[x] < dir'[0]
    BY <1>4, <1>6 DEF FileInv, AgeInv, Base
  <1>10. NumbersTellAge'
    <2>1. \A x, y \in 1 .. m : x < y => dir[x] > dir[y]
      BY <1>4 DEF FileInv, AgeInv, NumbersTellAge, Bak
    <2>2. ASSUME NEW x \in 0 .. m, NEW y \in 0 .. m, x < y PROVE dir'[x] > dir'[y]
      <3>1. y \in 1 .. m
        BY <2>2
      <3>2. CASE x = 0
        BY <1>9, <3>1, <3>2
      <3>3. CASE x \in 1 .. m
        BY <1>9, <2>1, <2>2, <3>1, <3>3
      <3> QED
        BY <3>2, <3>3
    <2> QED
      BY <1>1, <1>8, <2>2 DEF NumbersTellAge
  <1>11. AgeInv'
    BY <1>6, <1>7, <1>10 DEF AgeInv, Base, Bak
  <1>12. Gapped(m + 1, m + 1)'
    BY <1>1, <1>3, <1>8 DEF Gapped
  <1>13. ShapeInv'
    BY <1>1, <1>12 DEF ShapeInv, RollingShape
  <1> QED
    BY <1>6, <1>11, <1>13

\* The base file becomes the archive of a sequence with the largest number, also where
\* numbers are missing in the list or the stray file is in it.
LEMMA BaseSequenced ==
  ASSUME FileInv, ~Rolling, UNCHANGED <<conf, content, pruned>>, Base \in DOMAIN dir,
         NEW files \in Seq(Names), NEW k \in Nat, SequenceMover(files, k), k \notin 1 .. Len(files),
         dir' = Rename(Base, BaseNumber(files))
  PROVE  DirTyped' /\ AgeInv' /\ ShapeInv'
  <1>1. ~Rolling' /\ MaxCount' = MaxCount /\ MaxCount \in Nat
    BY RuleFacts DEF FileInv, Rolling, MaxCount
  <1>2. PICK L \in Nat : L = Len(files)
    OBVIOUS
  <1>3. PICK lo \in Nat : lo = FirstLeft(files, k) /\ lo >= 1 /\ (MaxCount > 0 => L - lo + 1 <= MaxCount)
    <2>1. k = L + 1
      BY <1>2 DEF SequenceMover
    <2>2. CASE MaxCount > 0 /\ L > MaxCount
      <3>1. PICK M \in Nat : M = MaxCount
        BY <1>1
      <3>2. FirstLeft(files, k) = L - M + 1
        BY <1>2, <2>1, <2>2, <3>1 DEF FirstLeft
      <3>3. PICK lo \in Nat : lo = L - M + 1 /\ lo >= 1
        BY <2>2, <3>1
      <3> QED
        BY <3>1, <3>2, <3>3
    <2>3. CASE ~(MaxCount > 0 /\ L > MaxCount)
      BY <1>1, <1>2, <2>3 DEF FirstLeft
    <2> QED
      BY <2>2, <2>3
  <1>4. /\ \A a, b \in 1 .. L : files[a] = files[b] => a = b
        /\ \A a, b \in 1 .. L : a < b => index(files[a]) <= index(files[b])
        /\ \A n \in Names : n \in Archives <=> \E j \in lo .. L : files[j] = n
    BY <1>2, <1>3 DEF SequenceMover, Numbered
  <1>5. Archives \subseteq Names \ {Base} /\ IsFiniteSet(Archives)
    BY FS_Difference DEF FileInv, FileTypeOK, Archives
  <1>6. PICK new \in Nat : new = BaseNumber(files) /\ \A a \in 1 .. L : index(files[a]) < new
    <2>1. CASE L = 0
      <3>1. files = <<>>
        BY <1>2, <2>1, EmptySeq
      <3>2. BaseNumber(files) = 0
        BY <3>1 DEF BaseNumber
      <3> QED
        BY <2>1, <3>2
    <2>2. CASE L > 0
      <3>1. files # <<>> /\ Last(files) = files[L] /\ files[L] \in Names
        BY <1>2, <2>2 DEF Last
      <3>2. PICK x \in Nat : x = index(files[L])
        BY <3>1, IndexIs
      <3>3. PICK y \in Nat : y = Max({L - 1, x}) /\ y >= x
        BY <2>2, LargerIs
      <3>4. BaseNumber(files) = y + 1
        BY <1>2, <3>1, <3>2, <3>3 DEF BaseNumber
      <3>5. ASSUME NEW a \in 1 .. L PROVE index(files[a]) < y + 1
        <4>1. files[a] \in Names
          BY <1>2
        <4>2. index(files[a]) \in Nat
          BY <4>1, IndexIs
        <4>3. index(files[a]) <= x
          BY <1>4, <2>2, <3>2, <4>2
        <4> QED
          BY <3>3, <4>2, <4>3
      <3> QED
        BY <3>4, <3>5
    <2> QED
      BY <2>1, <2>2
  <1>7. \A a \in Archives : a < new
    <2> SUFFICES ASSUME NEW a \in Archives PROVE a < new
      OBVIOUS
    <2>1. PICK j \in lo .. L : files[j] = a
      BY <1>4, <1>5
    <2>2. index(a) < new
      BY <1>3, <1>6, <2>1
    <2>3. index(a) = IF a > 0 THEN a ELSE 0
      BY <1>5, IndexIs
    <2> QED
      BY <1>5, <2>2, <2>3 DEF Names, Base, Bak
  <1>8. new \notin DOMAIN dir /\ new \in Names
    BY <1>7 DEF Archives, Names, Base
  <1>9. /\ DirTyped' /\ DOMAIN dir' = (DOMAIN dir \ {Base}) \cup {new}
        /\ dir'[new] = dir[Base] /\ \A n \in DOMAIN dir \ {Base} : dir'[n] = dir[n]
        /\ \A x, y \in DOMAIN dir' : dir'[x] = dir'[y] => x = y
    BY <1>6, <1>8, RenamedIs, ZenonT(60)
  <1>10. DOMAIN dir' = Archives \cup {new} /\ Archives' = Archives \cup {new}
    BY <1>8, <1>9 DEF Archives, Base
  <1>11. \A x \in Archives : dir'[x] = dir[x] /\ dir[x] < dir'[new]
    BY <1>9 DEF FileInv, AgeInv, Archives
  <1>12. NumbersTellAge'
    <2>1. \A x, y \in Archives \ {Bak} : x < y => dir[x] < dir[y]
      BY DEF FileInv, AgeInv, NumbersTellAge
    <2>2. ASSUME NEW x \in Archives \cup {new}, NEW y \in Archives \cup {new}, x # Bak, y # Bak, x < y
          PROVE  dir'[x] < dir'[y]
      <3>1. x \in Archives
        BY <1>5, <1>7, <2>2 DEF Names, Base, Bak
      <3>2. CASE y \in Archives
        BY <1>11, <2>1, <2>2, <3>1, <3>2
      <3>3. CASE y = new
        BY <1>11, <3>1, <3>3
      <3> QED
        BY <3>2, <3>3
    <2> QED
      BY <1>1, <1>10, <2>2 DEF NumbersTellAge
  <1>13. AgeInv'
    <2>1. Base \notin DOMAIN dir'
      BY <1>8, <1>10 DEF Archives, Base
    <2>2. Bak \in DOMAIN dir' => dir'[Bak] = 1
      BY <1>9 DEF FileInv, AgeInv, Bak
    <2> QED
      BY <1>9, <1>12, <2>1, <2>2 DEF AgeInv
  <1>14. ShapeInv'
    <2>1. Cardinality(Archives) \in Nat /\ (MaxCount > 0 => Cardinality(Archives) <= MaxCount)
      <3> DEFINE at == [j \in lo .. L |-> files[j]]
      <3>1. at \in Surjection(lo .. L, Archives)
        <4>1. \A j \in lo .. L : files[j] \in Names /\ files[j] \in Archives
          BY <1>2, <1>3, <1>4
        <4> QED
          BY <1>4, <1>5, <4>1 DEF Surjection
      <3>2. IsFiniteSet(lo .. L) /\ Cardinality(lo .. L) = IF lo > L THEN 0 ELSE L - lo + 1
        <4>1. lo \in Int /\ L \in Int
          OBVIOUS
        <4> QED
          BY <4>1, FS_Interval
      <3>3. Cardinality(Archives) <= Cardinality(lo .. L)
        <4> HIDE DEF at
        <4> QED
          BY <3>1, <3>2, FS_Surjection
      <3>4. Cardinality(Archives) \in Nat
        BY <1>5, FS_CardinalityType
      <3> QED
        BY <1>1, <1>3, <3>2, <3>3, <3>4
    <2>2. Cardinality(Archives \cup {new}) <= Cardinality(Archives) + 1 /\ Cardinality(Archives \cup {new}) \in Nat
      <3>1. PICK c \in Nat : c = Cardinality(Archives)
        BY <2>1
      <3>2. Cardinality(Archives \cup {new}) = c \/ Cardinality(Archives \cup {new}) = c + 1
        BY <1>5, <3>1, FS_AddElement
      <3> QED
        BY <3>1, <3>2
    <2>3. Cardinality(Archives') = Cardinality(Archives \cup {new})
      BY <1>10
    <2> QED
      BY <1>1, <2>1, <2>2, <2>3 DEF ShapeInv, CountKept
  <1> QED
    BY <1>9, <1>13, <1>14

\* The last rename of a rotation.
LEMMA MoveBaseKeeps ==
  ASSUME FileInv, UNCHANGED conf, NEW t \in Threads, MoveBase(t)
  PROVE  FileInv'
  <1>1. th[t].pc = "move"
    BY DEF MoveBase, At
  <1>2. PICK files \in Seq(Names) : \E k \in Nat : rot[proc(t)] = [files |-> files, i |-> k] /\ Mover(files, k)
    BY <1>1, RotatingIs
  <1>3. PICK k \in Nat : rot[proc(t)] = [files |-> files, i |-> k] /\ Mover(files, k)
    BY <1>2
  <1>4. /\ k \notin 1 .. Len(files) /\ Base \in DOMAIN dir /\ dir' = Rename(Base, BaseNumber(files))
        /\ Goto(t, "unfcntl") /\ UNCHANGED <<content, mutex, flock, written, pruned>>
        /\ rot' = [rot EXCEPT ![proc(t)] = [files |-> <<>>, i |-> 0]]
    BY <1>3 DEF MoveBase
  <1>5. DirTyped' /\ AgeInv' /\ ShapeInv'
    <2>1. CASE Rolling
      <3>1. dir' = Rename(Base, 0)
        BY <1>4, <2>1 DEF BaseNumber
      <3> QED
        BY <1>3, <1>4, <2>1, <3>1, BaseRolled DEF Mover
    <2>2. CASE ~Rolling
      BY <1>3, <1>4, <2>2, BaseSequenced DEF Mover
    <2> QED
      BY <2>1, <2>2
  <1>6. Turned(t, "unfcntl")
    BY <1>4, GotoIs DEF FileInv, Places
  <1>7. <<>> \in Seq(Names)
    OBVIOUS
  <1> QED
    BY <1>1, <1>4, <1>5, <1>6, <1>7, RotationKeeps

\* A new log: no file but the stray one, which is an archive to either rotation.
LEMMA FileFirst ==
  FileInit => FileInv
  <1> SUFFICES ASSUME FileInit PROVE FileInv
    OBVIOUS
  <1>1. conf \in Rules
    BY DEF FileInit
  <1>2. /\ \A t \in Threads : proc(t) \in Procs
        /\ Rolling \in BOOLEAN /\ MaxCount \in Nat
    BY <1>1, FileAssumption DEF Rolling, MaxCount, proc, Procs
  <1>3. PICK D : D = IF Stray THEN {Bak} ELSE {}
    OBVIOUS
  <1>4. /\ dir = [n \in D |-> 1] /\ DOMAIN dir = D /\ Archives = D /\ Base \notin D
        /\ IsFiniteSet(D) /\ D \subseteq Names
        /\ (D = {} /\ Cardinality(D) = 0) \/ (D = {Bak} /\ Cardinality(D) = 1)
    <2>1. dir = [n \in D |-> 1]
      BY <1>3 DEF FileInit
    <2>2. Base \notin D /\ D \subseteq Names
      BY <1>3 DEF Base, Bak, Names
    <2>3. IsFiniteSet(D) /\ ((D = {} /\ Cardinality(D) = 0) \/ (D = {Bak} /\ Cardinality(D) = 1))
      BY <1>3, FS_EmptySet, FS_Singleton
    <2> QED
      BY <2>1, <2>2, <2>3 DEF Archives
  <1>5. content \in Seq(Seq(Message)) /\ Len(content) = IF Stray THEN 1 ELSE 0
    <2>1. <<>> \in Seq(Message)
      OBVIOUS
    <2> QED
      BY <2>1 DEF FileInit
  <1>6. FileTypeOK
    <2>1. dir \in [DOMAIN dir -> 1 .. Len(content)]
      BY <1>3, <1>4, <1>5
    <2>2. th \in [Threads -> [pc : Places, len : Lens \cup {0}, ino : Nat]]
      BY DEF FileInit, Idle, Places
    <2>3. IsFiniteSet(written) /\ written \subseteq Message
      BY FS_EmptySet DEF FileInit
    <2>4. rot \in [Procs -> [files : Seq(Names), i : Nat]] /\ mutex \in [Procs -> Threads \cup {Free}]
      BY DEF FileInit
    <2> QED
      BY <1>1, <1>4, <1>5, <2>1, <2>2, <2>3, <2>4 DEF FileTypeOK, FileInit
  <1>7. \A t \in Threads : th[t].pc = "idle"
    BY DEF FileInit, Idle
  <1>8. LocksInv /\ MoverInv
    BY <1>7 DEF LocksInv, MoverInv, At
  <1>9. KeptInv
    <2>1. \A ino \in 1 .. Len(content) : \E n \in DOMAIN dir : dir[n] = ino
      BY <1>3, <1>4, <1>5
    <2> QED
      BY <1>7, <2>1 DEF KeptInv, At, FileInit
  <1>10. AgeInv
    BY <1>3, <1>4 DEF AgeInv, NumbersTellAge
  <1>11. ShapeInv
    <2>1. CASE D = {}
      <3>1. Gapped(0, 0)
        BY <1>2, <1>4, <2>1 DEF Gapped
      <3> QED
        BY <1>2, <1>4, <2>1, <3>1 DEF ShapeInv, RollingShape, CountKept
    <2>2. CASE D = {Bak}
      BY <1>2, <1>4, <2>2 DEF ShapeInv, RollingShape, CountKept, Bak
    <2> QED
      BY <1>4, <2>1, <2>2
  <1> QED
    BY <1>6, <1>8, <1>9, <1>10, <1>11 DEF FileInv

\* Every step of a thread or of whoever kills a process keeps the invariant.
LEMMA FileNextKeeps == FileInv /\ [FileNext]_fileVars => FileInv'
  <1> SUFFICES ASSUME FileInv, [FileNext]_fileVars PROVE FileInv'
    OBVIOUS
  <1>1. CASE UNCHANGED fileVars
    <2>1. UNCHANGED <<conf, dir, content, th, rot, mutex, flock, written, pruned>>
      BY <1>1 DEF fileVars
    <2>2. LocksTyped' /\ LocksInv' /\ th' \in [Threads -> Record] /\ rot' \in [Procs -> [files : Seq(Names), i : Nat]]
      BY <2>1 DEF FileInv, FileTypeOK, LocksTyped, LocksInv, Record, Procs, proc
    <2> QED
      BY <2>1, <2>2, QuietKeeps DEF FileInv, MoverInv, At
  <1>2. ASSUME NEW t \in Threads, NEW len \in Lens, UNCHANGED conf, Open(t, len) PROVE FileInv'
    BY <1>2, FileOpenKeeps
  <1>3. ASSUME NEW t \in Threads, UNCHANGED conf, FileStep(t) \/ WriteFails(t) \/ MoveFails(t) PROVE FileInv'
    BY <1>3, WriteKeeps, ApproachKeeps, StatKeeps, MoveOneKeeps, MoveBaseKeeps, UnlockKeeps, MoveFailsKeeps
       DEF FileStep
  <1>4. ASSUME NEW p \in Procs, UNCHANGED conf, Crash(p) PROVE FileInv'
    BY <1>4, CrashKeeps
  <1> QED
    BY <1>1, <1>2, <1>3, <1>4 DEF FileNext

\* What the invariant means: no message is lost and the archives are in order.
LEMMA FileMeans == FileInv => NothingLost /\ ArchivesInOrder
  <1> SUFFICES ASSUME FileInv PROVE NothingLost /\ ArchivesInOrder
    OBVIOUS
  <1>1. NothingLost
    BY DEF FileInv, KeptInv, NothingLost
  <1>2. CountKept
    <2>1. CASE Rolling /\ Archives = {Bak}
      <3>1. Cardinality(Archives) = 1
        BY <2>1, FS_Singleton
      <3> QED
        BY <2>1, <3>1, RuleFacts DEF CountKept, FileInv
    <2>2. ASSUME Rolling, NEW m \in Nat, NEW g \in 0 .. m, Gapped(m, g) PROVE CountKept
      <3>1. Cardinality(Archives) = m
        BY <2>2, GapCount DEF Gapped
      <3> QED
        BY <2>2, <3>1, RuleFacts DEF CountKept, Gapped, FileInv
    <2>3. CASE ~Rolling
      BY <2>3 DEF FileInv, ShapeInv
    <2> QED
      BY <2>1, <2>2, <2>3 DEF FileInv, ShapeInv, RollingShape
  <1> QED
    BY <1>1, <1>2 DEF ArchivesInOrder, FileInv, AgeInv

\* The invariant holds at every moment.
LEMMA FileInvHolds == FileSpec => []FileInv
  <1>1. FileInit => FileInv
    BY FileFirst
  <1>2. FileInv /\ [FileNext]_fileVars => FileInv'
    BY FileNextKeeps
  <1> QED
    BY <1>1, <1>2, PTL DEF FileSpec

\* A message that was written stays in a file of the directory until the limit on the
\* archives removes that file, whichever rotation is cut off wherever: no rename of
\* zlog_rotater_roll_files or zlog_rotater_seq_files lands on an archive still wanted.
THEOREM NothingIsLost == FileSpec => []NothingLost
  <1>1. FileInv => NothingLost
    BY FileMeans
  <1> QED
    BY <1>1, FileInvHolds, PTL

\* The numbers of the archives tell their age and there are no more of them than
\* archive_max_count asks for (one more in a sequence), at every moment of a rotation.
THEOREM ArchivesStayInOrder == FileSpec => []ArchivesInOrder
  <1>1. FileInv => ArchivesInOrder
    BY FileMeans
  <1> QED
    BY <1>1, FileInvHolds, PTL

\* An archive that a rotation removes is followed by MaxCount newer files: those after it
\* in its list, or before it in a rolling archive, and the base file.
LEMMA NewerMany ==
  ASSUME FileInv, NEW files \in Seq(Names), NEW k \in 1 .. Len(files), Mover(files, k),
         files[k] \in DOMAIN dir, Surplus(k, Len(files))
  PROVE  Cardinality({x \in DOMAIN dir : dir[x] > dir[files[k]]}) >= MaxCount
  <1> DEFINE S == {x \in DOMAIN dir : dir[x] > dir[files[k]]}
  <1> SUFFICES Cardinality(S) >= MaxCount
    OBVIOUS
  <1>1. Base \in DOMAIN dir /\ files[k] # Base
    <2>1. Rolling => files[k] # Base
      BY DEF Mover, RollingMover, Base, Bak
    <2>2. ~Rolling => files[k] # Base
      <3>1. SUFFICES ASSUME ~Rolling PROVE files[k] \in Archives
        BY DEF Archives
      <3>2. FirstLeft(files, k) = k
        BY <3>1, RuleFacts DEF Surplus, FirstLeft, FileInv
      <3> QED
        BY <3>1, <3>2 DEF Mover, SequenceMover
    <2> QED
      BY <2>1, <2>2 DEF Mover
  <1>2. MaxCount \in Nat /\ MaxCount > 0 /\ IsFiniteSet(S)
    <2>1. S \in SUBSET DOMAIN dir
      OBVIOUS
    <2> HIDE DEF S
    <2> QED
      BY <2>1, RuleFacts, FS_Subset DEF Surplus, FileInv, FileTypeOK
  <1>3. /\ files[k] \in Archives /\ Base \in S
        /\ \A x \in Archives : dir[x] < dir[Base]
    BY <1>1 DEF FileInv, AgeInv, FileTypeOK, Archives
  <1>4. ASSUME NEW n \in Nat, NEW f \in [1 .. n -> S], \A a, b \in 1 .. n : f[a] = f[b] => a = b, n >= MaxCount
        PROVE  Cardinality(S) >= MaxCount
    <2>1. Cardinality(S) \in Nat /\ n <= Cardinality(S)
      <3> HIDE DEF S
      <3> QED
        BY <1>2, <1>4, AsMany
    <2> HIDE DEF S
    <2> QED
      BY <1>2, <1>4, <2>1
  <1>5. CASE Rolling /\ files = <<Bak>> /\ k = 1
    <2>1. MaxCount <= 1
      BY <1>2, <1>5 DEF Surplus
    <2>2. PICK f \in [1 .. 1 -> S] : f = [j \in 1 .. 1 |-> Base]
      BY <1>3
    <2>3. 1 >= MaxCount /\ \A a, b \in 1 .. 1 : f[a] = f[b] => a = b
      BY <1>2, <2>1
    <2> HIDE DEF S
    <2> QED
      BY <1>4, <2>3
  <1>6. CASE Rolling /\ ~(files = <<Bak>> /\ k = 1)
    <2>1. PICK m \in Nat : \E g \in 0 .. m :
                 /\ Gapped(m, g) /\ g <= k /\ k <= m
                 /\ \A j \in 1 .. k : files[j] = IF j <= g THEN j - 1 ELSE j
      BY <1>6 DEF Mover, RollingMover
    <2>2. PICK g \in 0 .. m :
                 /\ Gapped(m, g) /\ g <= k /\ k <= m
                 /\ \A j \in 1 .. k : files[j] = IF j <= g THEN j - 1 ELSE j
      BY <2>1
    <2>3. k = m /\ m = MaxCount
      BY <1>2, <1>6, <2>2 DEF Gapped, Surplus
    <2>4. \A j \in 1 .. m - 1 : files[j] \in Archives /\ files[j] < files[k] /\ files[j] \in Nat /\ files[k] \in Nat
      BY <2>2, <2>3 DEF Gapped
    <2>5. \A j \in 1 .. m - 1 : files[j] \in S
      <3>1. \A x, y \in Archives \ {Bak} : x < y => dir[x] > dir[y]
        BY <1>6 DEF FileInv, AgeInv, NumbersTellAge
      <3> QED
        BY <1>3, <2>4, <3>1 DEF Archives, Bak
    <2> DEFINE f == [j \in 1 .. m |-> IF j = m THEN Base ELSE files[j]]
    <2>6. f \in [1 .. m -> S]
      <3> HIDE DEF S
      <3> QED
        BY <1>3, <2>5
    <2>7. \A a, b \in 1 .. m : f[a] = f[b] => a = b
      BY <2>2, <2>3, <2>4 DEF Base
    <2> HIDE DEF f, S
    <2> QED
      BY <1>2, <1>4, <2>3, <2>6, <2>7
  <1>7. CASE ~Rolling
    <2>1. PICK L \in Nat : L = Len(files)
      OBVIOUS
    <2>2. k <= L - MaxCount /\ FirstLeft(files, k) = k
      BY <1>2, <1>7, <2>1 DEF Surplus, FirstLeft
    <2>3. /\ \A a, b \in 1 .. L : files[a] = files[b] => a = b
          /\ \A a, b \in 1 .. L : a < b => index(files[a]) <= index(files[b])
          /\ \A j \in k .. L : files[j] \in Archives
      <3>1. \A j \in k .. L : files[j] \in Names
        BY <2>1
      <3> QED
        BY <1>7, <2>1, <2>2, <3>1 DEF Mover, SequenceMover, Numbered
    <2>4. PICK n \in Nat : n = L - k
      <3>1. k <= L /\ k \in Nat
        BY <2>1
      <3> QED
        BY <3>1
    <2>5. \A j \in 1 .. n : k + j \in k .. L /\ k + j \in 1 .. L /\ k < k + j
      BY <2>1, <2>4
    <2>6. ASSUME NEW j \in 1 .. n, files[k + j] # Bak PROVE files[k + j] \in S
      <3>1. /\ files[k + j] \in Archives /\ files[k + j] # files[k]
            /\ files[k] \in Names /\ files[k + j] \in Names
            /\ index(files[k]) <= index(files[k + j])
        BY <2>1, <2>3, <2>5
      <3>2. CASE files[k] = Bak
        <4>1. dir[Bak] = 1 /\ files[k + j] \in DOMAIN dir /\ dir[files[k + j]] # 1
          BY <1>3, <2>6, <3>1, <3>2 DEF FileInv, AgeInv, Archives
        <4>2. Len(content) \in Nat /\ dir \in [DOMAIN dir -> 1 .. Len(content)]
          BY DEF FileInv, FileTypeOK
        <4>3. dir[files[k + j]] \in 1 .. Len(content)
          <5> HIDE DEF S
          <5> QED
            BY <4>1, <4>2
        <4>4. dir[files[k + j]] \in Nat \ {0}
          BY <4>2, <4>3
        <4> QED
          BY <3>2, <4>1, <4>4
      <3>3. CASE files[k] # Bak
        <4>1. files[k] \in Nat /\ files[k + j] \in Nat
          BY <1>1, <2>6, <3>1, <3>3 DEF Names, Archives
        <4>2. files[k] < files[k + j]
          BY <3>1, <4>1, IndexIs
        <4>3. dir[files[k]] < dir[files[k + j]]
          BY <1>3, <1>7, <2>6, <3>1, <3>3, <4>2 DEF FileInv, AgeInv, NumbersTellAge
        <4>4. dir[files[k]] \in Int /\ dir[files[k + j]] \in Int /\ files[k + j] \in DOMAIN dir
          BY <1>3, <3>1, SMTT(30) DEF FileInv, FileTypeOK, Archives
        <4> QED
          BY <4>3, <4>4
      <3> QED
        BY <3>2, <3>3
    <2> DEFINE f == [j \in 1 .. n |-> IF files[k + j] = Bak THEN Base ELSE files[k + j]]
    <2>7. f \in [1 .. n -> S]
      <3> HIDE DEF S
      <3> QED
        BY <1>3, <2>6
    <2>8. \A a, b \in 1 .. n : f[a] = f[b] => a = b
      <3> SUFFICES ASSUME NEW a \in 1 .. n, NEW b \in 1 .. n, f[a] = f[b] PROVE a = b
        OBVIOUS
      <3>1. files[k + a] # Base /\ files[k + b] # Base
        BY <2>3, <2>5 DEF Archives
      <3>2. files[k + a] = files[k + b]
        BY <3>1
      <3>3. k + a = k + b
        BY <2>3, <2>5, <3>2
      <3> QED
        BY <3>3
    <2>9. n >= MaxCount
      BY <1>2, <2>1, <2>2, <2>4
    <2> HIDE DEF f, S
    <2> QED
      BY <1>4, <2>7, <2>8, <2>9
  <1> QED
    BY <1>5, <1>6, <1>7

\* A step that takes a file away is the removal of an archive too many.
LEMMA OnlySurplus ==
  ASSUME FileInv, FileInv', [FileNext]_fileVars,
         NEW n \in DOMAIN dir \ DOMAIN dir', dir[n] \notin {dir'[x] : x \in DOMAIN dir'}
  PROVE  Cardinality({x \in DOMAIN dir : dir[x] > dir[n]}) >= MaxCount
  <1>1. dir' # dir
    OBVIOUS
  <1>2. ASSUME NEW t \in Threads, MoveOne(t)
        PROVE  Cardinality({x \in DOMAIN dir : dir[x] > dir[n]}) >= MaxCount
    <2>1. th[t].pc = "move"
      BY <1>2 DEF MoveOne, At
    <2>2. PICK files \in Seq(Names) : \E k \in Nat : rot[proc(t)] = [files |-> files, i |-> k] /\ Mover(files, k)
      BY <2>1, RotatingIs
    <2>3. PICK k \in Nat : rot[proc(t)] = [files |-> files, i |-> k] /\ Mover(files, k)
      BY <2>2
    <2>4. k \in 1 .. Len(files) /\ files[k] \in DOMAIN dir /\ MovedOne(files, k)
      BY <1>2, <2>3 DEF MoveOne, MovedOne
    <2>5. Surplus(k, Len(files)) \/ ~Rolling \/ dir' # Rename(files[k], NewNumber(files, k))
      <3> SUFFICES ASSUME dir' = Rename(files[k], NewNumber(files, k)) PROVE FALSE
        BY <2>4 DEF MovedOne
      <3>1. \A x \in DOMAIN dir : x = files[k] \/ x \in DOMAIN dir'
        BY DEF Rename
      <3>2. n = files[k] /\ NewNumber(files, k) \in DOMAIN dir' /\ dir'[NewNumber(files, k)] = dir[files[k]]
        BY <2>4, <3>1 DEF Rename
      <3> QED
        BY <3>2
    <2>6. Surplus(k, Len(files)) /\ dir' = Removed(files[k])
      BY <1>1, <2>4, <2>5 DEF MovedOne
    <2>7. n = files[k]
      BY <2>6 DEF Removed
    <2> QED
      BY <2>3, <2>4, <2>6, <2>7, NewerMany
  <1>3. ASSUME NEW t \in Threads, MoveBase(t) PROVE FALSE
    <2>1. PICK b : dir' = Rename(Base, b)
      BY <1>3 DEF MoveBase
    <2>2. Base # b /\ n = Base /\ b \in DOMAIN dir' /\ dir'[b] = dir[Base]
      BY <1>1, <2>1 DEF Rename
    <2> QED
      BY <2>2
  <1>4. ASSUME NEW t \in Threads, NEW len \in Lens, Open(t, len) PROVE FALSE
    BY <1>1, <1>4 DEF Open
  <1>5. ASSUME NEW t \in Threads,
               WriteFails(t) \/ MoveFails(t) \/ Write(t) \/ Check(t) \/ TryMutex(t) \/ TryFcntl(t)
               \/ RotateStat(t) \/ UnlockFcntl(t) \/ UnlockMutex(t)
        PROVE  FALSE
    BY <1>1, <1>5 DEF WriteFails, MoveFails, Write, Check, TryMutex, TryFcntl, RotateStat, UnlockFcntl, UnlockMutex
  <1>6. ASSUME NEW p \in Procs, Crash(p) PROVE FALSE
    BY <1>1, <1>6 DEF Crash
  <1>7. ~UNCHANGED fileVars
    BY <1>1 DEF fileVars
  <1> QED
    BY <1>2, <1>3, <1>4, <1>5, <1>6, <1>7 DEF FileNext, FileStep

\* A rotation gives up a file only when MaxCount files are newer than it.
THEOREM OldestArePruned == FileSpec => OnlyOldestPruned
  <1> DEFINE Keeps == \A n \in DOMAIN dir \ DOMAIN dir' :
                        dir[n] \notin {dir'[x] : x \in DOMAIN dir'} =>
                          Cardinality({x \in DOMAIN dir : dir[x] > dir[n]}) >= MaxCount
  <1>1. FileInv /\ [FileNext]_fileVars => [Keeps]_fileVars
    <2> SUFFICES ASSUME FileInv, [FileNext]_fileVars PROVE Keeps
      OBVIOUS
    <2>1. FileInv'
      BY FileNextKeeps
    <2> QED
      BY <2>1, OnlySurplus
  <1>2. FileSpec => [][FileNext]_fileVars
    BY DEF FileSpec
  <1> HIDE DEF Keeps
  <1>3. FileSpec => [][Keeps]_fileVars
    BY <1>1, <1>2, FileInvHolds, PTL
  <1> QED
    BY <1>3, PTL DEF OnlyOldestPruned, Keeps

(***************************************************************************)
(* Part 2: the plain file, with one thread that logs.                      *)
(***************************************************************************)

\* The largest of finitely many numbers is one of them.
LEMMA LargestOfList ==
  ASSUME NEW n \in Nat, n # 0, NEW f \in [1 .. n -> Int]
  PROVE  \E a \in 1 .. n : \A b \in 1 .. n : f[b] <= f[a]
  <1> DEFINE Leads(a, i) == \A b \in 1 .. i : f[b] <= f[a]
             Led == {i \in 0 .. n : i = 0 \/ \E a \in 1 .. i : Leads(a, i)}
  <1>1. ASSUME NEW i \in 1 .. n, i - 1 \in Led PROVE i \in Led
    <2>1. i \in 0 .. n /\ i \in 1 .. i /\ \A b \in 1 .. i : f[b] \in Int
      OBVIOUS
    <2> SUFFICES \E a \in 1 .. i : Leads(a, i)
      BY <2>1
    <2>2. CASE i = 1
      <3>1. Leads(i, i)
        BY <2>1, <2>2
      <3> QED
        BY <2>1, <3>1
    <2>3. CASE i # 1
      <3>1. PICK a \in 1 .. i - 1 : Leads(a, i - 1)
        BY <1>1, <2>3
      <3>2. a \in 1 .. i /\ f[a] \in Int /\ f[i] \in Int
        BY <2>1
      <3>3. CASE f[i] <= f[a]
        <4>1. Leads(a, i)
          BY <3>1, <3>2, <3>3
        <4> QED
          BY <3>2, <4>1
      <3>4. CASE f[a] < f[i]
        <4>1. Leads(i, i)
          BY <2>1, <3>1, <3>2, <3>4
        <4> QED
          BY <2>1, <4>1
      <3> QED
        BY <3>2, <3>3, <3>4
    <2> QED
      BY <2>2, <2>3
  <1>2. 0 \in Led
    OBVIOUS
  <1>3. \A i \in 0 .. n : i \in Led
    <2> HIDE DEF Led
    <2> QED
      BY <1>1, <1>2, UpTo
  <1>4. n \in 0 .. n
    OBVIOUS
  <1> QED
    BY <1>3, <1>4

LEMMA LargestIs ==
  ASSUME NEW S, S \subseteq Int, IsFiniteSet(S), S # {}
  PROVE  Max(S) \in S /\ \A x \in S : x <= Max(S)
  <1>1. PICK n \in Nat : n = Cardinality(S)
    BY FS_CardinalityType
  <1>2. PICK f : f \in Bijection(1 .. n, S)
    BY <1>1, FS_CardinalityType DEF ExistsBijection
  <1>3. f \in [1 .. n -> S] /\ \A x \in S : \E i \in 1 .. n : f[i] = x
    BY <1>2 DEF Bijection, Injection, Surjection
  <1>4. f \in [1 .. n -> Int]
    BY <1>3
  <1>5. n # 0
    <2>1. PICK x \in S : TRUE
      OBVIOUS
    <2>2. PICK i \in 1 .. n : f[i] = x
      BY <1>3, <2>1
    <2> QED
      BY <2>2
  <1>6. PICK a \in 1 .. n : \A b \in 1 .. n : f[b] <= f[a]
    BY <1>4, <1>5, LargestOfList
  <1>7. f[a] \in S /\ \A x \in S : f[a] >= x
    <2>1. f[a] \in S /\ f[a] \in Int
      BY <1>3
    <2>2. ASSUME NEW x \in S PROVE f[a] >= x
      <3>1. PICK b \in 1 .. n : f[b] = x
        BY <1>3
      <3> QED
        BY <1>4, <1>6, <2>1, <3>1
    <2> QED
      BY <2>1, <2>2
  <1>8. PICK m \in S : m = Max(S) /\ \A x \in S : m >= x
    BY <1>7 DEF Max
  <1> QED
    BY <1>8

\* The kernel gives a number that is free.
LEMMA LowestIsFree ==
  ASSUME IsFiniteSet(DOMAIN fds)
  PROVE  LowestFree \in Nat /\ LowestFree \notin DOMAIN fds
  <1>1. PICK c \in Nat : c = Cardinality(DOMAIN fds)
    BY FS_CardinalityType
  <1> DEFINE Taken == {n \in 0 .. c + 1 : \A k \in 1 .. n : k \in DOMAIN fds}
  <1>2. PICK n \in 1 .. c + 1 : n \notin DOMAIN fds /\ \A k \in 1 .. n - 1 : k \in DOMAIN fds
    <2> SUFFICES ASSUME \A n \in 1 .. c + 1 : n \in DOMAIN fds \/ ~\A k \in 1 .. n - 1 : k \in DOMAIN fds
                 PROVE  FALSE
      OBVIOUS
    <2>1. \A n \in 0 .. c + 1 : n \in Taken
      <3>1. 0 \in Taken
        OBVIOUS
      <3>2. ASSUME NEW n \in 1 .. c + 1, n - 1 \in Taken PROVE n \in Taken
        BY <3>2
      <3> HIDE DEF Taken
      <3> QED
        BY <3>1, <3>2, UpTo
    <2>2. 1 .. c + 1 \in SUBSET DOMAIN fds
      BY <2>1
    <2>3. Cardinality(1 .. c + 1) = c + 1
      BY FS_Interval
    <2>4. Cardinality(1 .. c + 1) <= Cardinality(DOMAIN fds)
      BY <2>2, FS_Subset
    <2> QED
      BY <1>1, <2>3, <2>4
  <1> QED
    BY <1>1, <1>2 DEF LowestFree

CallerPlaces == {"idle", "close", "open", "restat", "save", "write", "sync"}
CallerRecs == [pc : CallerPlaces, st : Nat \ {Other}, seen : SUBSET Nat]

SingleTypeOK ==
  /\ replaces \in BOOLEAN
  /\ path \in Nat \ {Other}
  /\ fds \in [DOMAIN fds -> Nat] /\ DOMAIN fds \subseteq Nat /\ IsFiniteSet(DOMAIN fds)
  /\ static_fd \in Nat /\ static_ino \in Nat \ {None, Other}
  /\ fsync_count \in Nat /\ unsynced \in Nat
  /\ caller \in [Callers -> CallerRecs]
  /\ hit \subseteq Nat \ {Other} /\ IsFiniteSet(hit)

OwnIno == fds[static_fd]
IsAt(t, pcs) == caller[t].pc \in pcs

\* The rule's descriptor is open but between the close and the open, and no other is.
Owns(t) ==
  /\ \A n \in DOMAIN fds : fds[n] # Other => n = static_fd /\ ~IsAt(t, {"open"})
  /\ ~IsAt(t, {"open"}) => static_fd \in DOMAIN fds /\ OwnIno # Other

\* The file that is open has been at the path since the stat.
HasSeen(t) == IsAt(t, {"restat", "save", "write"}) => OwnIno \in caller[t].seen

\* Where a new file takes the place of the one that is moved away, inodes only grow.
Replaced(t) ==
  replaces =>
    /\ path # None /\ static_ino <= path
    /\ ~IsAt(t, {"open"}) => static_ino <= OwnIno /\ OwnIno <= path
    /\ IsAt(t, {"close", "open", "save"}) => caller[t].st # None /\ caller[t].st <= path
    /\ IsAt(t, {"save"}) => caller[t].st <= OwnIno
    /\ ~IsAt(t, {"restat"})

\* Where the path is left empty, only the rule makes the file, and knows its inode.
LeftEmpty(t) ==
  ~replaces =>
    /\ IsAt(t, {"close", "open"}) => path = None
    /\ IsAt(t, {"close", "open", "restat"}) => caller[t].st = None
    /\ IsAt(t, {"save"}) => caller[t].st = OwnIno /\ OwnIno # None
    /\ ~IsAt(t, {"close", "open"}) /\ path # None => path = OwnIno
    /\ IsAt(t, {"idle", "sync", "write"}) /\ path # None => path = static_ino

\* The count of the rule is that of the messages since the last fsync.
Counted(t) ==
  FsyncPeriod > 0 =>
    fsync_count < FsyncPeriod /\ unsynced = fsync_count + IF IsAt(t, {"sync"}) THEN 1 ELSE 0

CallerInv(t) == Owns(t) /\ HasSeen(t) /\ Replaced(t) /\ LeftEmpty(t) /\ Counted(t)

SingleInv == SingleTypeOK /\ ~behind /\ \A t \in Callers : CallerInv(t)

\* What a step of the thread, or of a tool, may build on.
Before(t) ==
  /\ SingleTypeOK /\ ~behind /\ caller[t] \in CallerRecs /\ t \in Callers
  /\ CallerInv(t) /\ UNCHANGED replaces

\* A new file has an inode that no file had before.
LEMMA NewInoIsNew ==
  ASSUME SingleTypeOK
  PROVE  NewIno \in Nat \ {None, Other} /\ \A x \in Inodes : x < NewIno
  <1> DEFINE Opened == {fds[n] : n \in DOMAIN fds}
  <1>1. IsFiniteSet(Opened)
    <2>1. fds \in [DOMAIN fds -> Opened] /\ \A v \in Opened : \E n \in DOMAIN fds : fds[n] = v
      BY DEF SingleTypeOK
    <2>2. fds \in Surjection(DOMAIN fds, Opened)
      BY <2>1 DEF Surjection
    <2> QED
      BY <2>2, FS_Surjection DEF SingleTypeOK
  <1>2. IsFiniteSet({path, Other, static_ino}) /\ IsFiniteSet(hit)
    <2>1. {path, Other, static_ino} = ({path} \cup {Other}) \cup {static_ino}
      OBVIOUS
    <2>2. IsFiniteSet({path}) /\ IsFiniteSet({Other}) /\ IsFiniteSet({static_ino})
      BY FS_Singleton
    <2>3. IsFiniteSet({path} \cup {Other})
      BY <2>2, FS_Union
    <2>4. IsFiniteSet(({path} \cup {Other}) \cup {static_ino})
      BY <2>2, <2>3, FS_Union
    <2> QED
      BY <2>1, <2>4 DEF SingleTypeOK
  <1>3. IsFiniteSet(Inodes)
    <2> HIDE DEF Opened
    <2>1. Inodes = ({path, Other, static_ino} \cup Opened) \cup hit
      BY DEF Inodes, Opened
    <2>2. IsFiniteSet({path, Other, static_ino} \cup Opened)
      BY <1>1, <1>2, FS_Union
    <2> QED
      BY <1>2, <2>1, <2>2, FS_Union
  <1>4. Inodes \subseteq Int /\ Other \in Inodes
    BY DEF Inodes, SingleTypeOK, Other
  <1>5. Max(Inodes) \in Inodes /\ \A x \in Inodes : x <= Max(Inodes)
    <2>1. Inodes # {}
      BY <1>4
    <2> HIDE DEF Inodes
    <2> QED
      BY <1>3, <1>4, <2>1, LargestIs
  <1>6. Max(Inodes) \in Int /\ Max(Inodes) >= 1
    BY <1>4, <1>5 DEF Other
  <1>7. NewIno = Max(Inodes) + 1
    BY DEF NewIno
  <1> HIDE DEF Inodes
  <1>8. \A x \in Inodes : x < NewIno
    BY <1>4, <1>5, <1>6, <1>7
  <1> QED
    BY <1>6, <1>7, <1>8 DEF None, Other

\* Opening a file adds one descriptor, and leaves the others as they are.
LEMMA WithFdIs ==
  ASSUME SingleTypeOK, NEW ino \in Nat
  PROVE  /\ LowestFree \in Nat /\ LowestFree \notin DOMAIN fds
         /\ WithFd(ino) \in [DOMAIN fds \cup {LowestFree} -> Nat]
         /\ DOMAIN WithFd(ino) = DOMAIN fds \cup {LowestFree}
         /\ IsFiniteSet(DOMAIN fds \cup {LowestFree})
         /\ WithFd(ino)[LowestFree] = ino
         /\ \A n \in DOMAIN fds : WithFd(ino)[n] = fds[n]
  <1>1. LowestFree \in Nat /\ LowestFree \notin DOMAIN fds
    BY LowestIsFree DEF SingleTypeOK
  <1>2. IsFiniteSet(DOMAIN fds \cup {LowestFree})
    BY FS_AddElement DEF SingleTypeOK
  <1> HIDE DEF LowestFree
  <1>3. \A n \in DOMAIN fds : fds[n] \in Nat
    BY DEF SingleTypeOK
  <1> QED
    BY <1>1, <1>2, <1>3 DEF WithFd

LEMMA SingleFirst ==
  ASSUME SingleInit, SingleAssumption PROVE SingleInv
  <1> USE DEF SingleInit, Quiet, None, Other, FirstIno
  <1>1. DOMAIN fds = {1} /\ fds[1] = 2
    OBVIOUS
  <1>2. \A c \in Callers : caller[c] = Quiet
    OBVIOUS
  <1>3. SingleTypeOK
    <2>1. fds \in [DOMAIN fds -> Nat] /\ DOMAIN fds \subseteq Nat
      BY <1>1
    <2>2. IsFiniteSet(DOMAIN fds)
      BY <1>1, FS_Singleton
    <2>3. caller \in [Callers -> CallerRecs]
      BY DEF CallerPlaces, CallerRecs
    <2>4. hit \subseteq Nat \ {Other} /\ IsFiniteSet(hit)
      BY FS_EmptySet
    <2> QED
      BY <2>1, <2>2, <2>3, <2>4 DEF SingleTypeOK
  <1>4. ASSUME NEW t \in Callers PROVE CallerInv(t)
    <2>1. Owns(t)
      BY <1>1, <1>2 DEF Owns, IsAt, OwnIno
    <2>2. HasSeen(t)
      BY <1>2 DEF HasSeen, IsAt
    <2>3. Replaced(t)
      BY <1>1, <1>2 DEF Replaced, IsAt, OwnIno
    <2>4. LeftEmpty(t)
      BY <1>1, <1>2 DEF LeftEmpty, IsAt, OwnIno
    <2>5. Counted(t)
      BY <1>2 DEF Counted, IsAt, SingleAssumption
    <2> QED
      BY <2>1, <2>2, <2>3, <2>4, <2>5 DEF CallerInv
  <1> QED
    BY <1>3, <1>4 DEF SingleInv


LEMMA StatStep ==
  ASSUME NEW t, Before(t), Stat(t) PROVE SingleTypeOK' /\ ~behind' /\ CallerInv(t)'
  <1> USE DEF Before, CallerInv, Stat
  <1>1. /\ caller'[t] = [pc |-> IF path = static_ino THEN "write" ELSE "close", st |-> path, seen |-> {path}]
        /\ caller[t].pc = "idle" /\ OwnIno' = OwnIno
        /\ UNCHANGED <<path, fds, static_fd, static_ino, replaces>>
    BY DEF SingleTypeOK, OwnIno
  <1>2. SingleTypeOK' /\ ~behind'
    BY DEF SingleTypeOK, CallerRecs, CallerPlaces
  <1>3. Owns(t)'
    BY <1>1 DEF Owns, IsAt
  <1>4. path = static_ino => OwnIno = path
    <2>1. OwnIno \in Nat /\ static_ino \in Nat \ {None, Other}
      BY <1>1 DEF Owns, OwnIno, IsAt, SingleTypeOK
    <2>2. CASE replaces
      BY <1>1, <2>1, <2>2 DEF Replaced, IsAt, SingleTypeOK
    <2>3. CASE ~replaces
      BY <1>1, <2>1, <2>3 DEF LeftEmpty, IsAt
    <2> QED
      BY <2>2, <2>3
  <1>5. HasSeen(t)'
    BY <1>1, <1>4 DEF HasSeen, IsAt
  <1>6. Replaced(t)'
    BY <1>1 DEF Replaced, IsAt, SingleTypeOK
  <1>7. LeftEmpty(t)'
    BY <1>1 DEF LeftEmpty, IsAt
  <1>8. Counted(t)'
    BY <1>1 DEF Counted, IsAt
  <1> QED
    BY <1>2, <1>3, <1>5, <1>6, <1>7, <1>8

LEMMA CloseStep ==
  ASSUME NEW t, Before(t), Close(t) PROVE SingleTypeOK' /\ ~behind' /\ CallerInv(t)'
  <1> USE DEF Before, CallerInv, Close
  <1>1. /\ caller'[t] = [caller[t] EXCEPT !.pc = "open"] /\ caller'[t] \in CallerRecs
        /\ caller[t].pc = "close"
        /\ UNCHANGED <<path, static_fd, static_ino, replaces>>
    BY DEF SingleTypeOK, CallerRecs, CallerPlaces
  <1>2. SingleTypeOK'
    <2>1. DOMAIN fds' = DOMAIN fds \ {static_fd} /\ \A n \in DOMAIN fds' : fds'[n] = fds[n]
      BY DEF Closed
    <2>2. fds' \in [DOMAIN fds' -> Nat] /\ DOMAIN fds' \subseteq Nat
      BY <2>1 DEF Closed, SingleTypeOK
    <2>3. IsFiniteSet(DOMAIN fds')
      BY <2>1, FS_Subset DEF SingleTypeOK
    <2>4. caller' \in [Callers -> CallerRecs]
      BY <1>1 DEF SingleTypeOK
    <2> QED
      BY <2>2, <2>3, <2>4 DEF SingleTypeOK
  <1>3. Owns(t)'
    <2>1. caller'[t].pc = "open"
      BY <1>1 DEF CallerRecs
    <2>2. \A n \in DOMAIN fds : n # static_fd => fds[n] = Other
      BY DEF Owns
    <2>3. \A n \in DOMAIN fds' : fds'[n] = Other
      BY <2>2 DEF Closed
    <2> QED
      BY <2>1, <2>3 DEF Owns, IsAt
  <1>4. HasSeen(t)'
    BY <1>1 DEF HasSeen, IsAt, CallerRecs
  <1>5. Replaced(t)'
    BY <1>1 DEF Replaced, IsAt, CallerRecs
  <1>6. LeftEmpty(t)'
    BY <1>1 DEF LeftEmpty, IsAt, CallerRecs
  <1>7. Counted(t)'
    BY <1>1 DEF Counted, IsAt, CallerRecs
  <1> QED
    BY <1>2, <1>3, <1>4, <1>5, <1>6, <1>7

LEMMA ReopenStep ==
  ASSUME NEW t, Before(t), Reopen(t) PROVE SingleTypeOK' /\ ~behind' /\ CallerInv(t)'
  <1> USE DEF Before, CallerInv
  <1>1. /\ caller[t].pc = "open" /\ path' = (IF path = None THEN NewIno ELSE path)
        /\ static_fd' = LowestFree /\ fds' = WithFd(path')
        /\ caller' = Seen([caller EXCEPT ![t].pc = IF caller[t].st = None THEN "restat" ELSE "save"], path')
        /\ UNCHANGED <<static_ino, fsync_count, sent, moves, hit, behind, unsynced>>
    BY DEF Reopen
  <1>2. path' \in Nat \ {None, Other}
    BY <1>1, NewInoIsNew DEF SingleTypeOK
  <1>3. /\ caller'[t].pc = (IF caller[t].st = None THEN "restat" ELSE "save")
        /\ caller'[t].st = caller[t].st /\ path' \in caller'[t].seen
        /\ caller' \in [Callers -> CallerRecs]
    <2>1. DEFINE a == [caller EXCEPT ![t].pc = IF caller[t].st = None THEN "restat" ELSE "save"]
    <2>2. a \in [Callers -> CallerRecs] /\ a[t].st = caller[t].st
          /\ a[t].pc = (IF caller[t].st = None THEN "restat" ELSE "save")
      BY DEF SingleTypeOK, CallerRecs, CallerPlaces
    <2>3. caller' = Seen(a, path')
      BY <1>1
    <2> HIDE DEF a
    <2> QED
      BY <1>2, <2>2, <2>3 DEF Seen, CallerRecs
  <1>4. /\ static_fd' \in Nat /\ DOMAIN fds' = DOMAIN fds \cup {static_fd'} /\ OwnIno' = path'
        /\ \A n \in DOMAIN fds : fds'[n] = fds[n]
        /\ fds' \in [DOMAIN fds' -> Nat] /\ IsFiniteSet(DOMAIN fds')
    BY <1>1, <1>2, WithFdIs DEF OwnIno
  <1>5. SingleTypeOK' /\ ~behind'
    BY <1>1, <1>2, <1>3, <1>4 DEF SingleTypeOK
  <1>6. Owns(t)'
    <2>1. \A n \in DOMAIN fds : fds[n] = Other
      BY <1>1 DEF Owns, IsAt
    <2> QED
      BY <1>2, <1>3, <1>4, <2>1 DEF Owns, IsAt
  <1>7. HasSeen(t)'
    BY <1>3, <1>4 DEF HasSeen, IsAt
  <1>8. Replaced(t)'
    BY <1>1, <1>2, <1>3, <1>4 DEF Replaced, IsAt, SingleTypeOK
  <1>9. LeftEmpty(t)'
    BY <1>1, <1>3, <1>4 DEF LeftEmpty, IsAt
  <1>10. Counted(t)'
    BY <1>1, <1>3 DEF Counted, IsAt
  <1> QED
    BY <1>5, <1>6, <1>7, <1>8, <1>9, <1>10

LEMMA RestatStep ==
  ASSUME NEW t, Before(t), Restat(t) PROVE SingleTypeOK' /\ ~behind' /\ CallerInv(t)'
  <1> USE DEF Before, CallerInv, Restat
  <1>1. /\ caller[t].pc = "restat" /\ OwnIno' = OwnIno
        /\ UNCHANGED <<path, fds, static_fd, static_ino, fsync_count, unsynced, behind, hit, replaces>>
    BY DEF OwnIno
  <1>2. /\ caller' \in [Callers -> CallerRecs]
        /\ IF path = None THEN caller'[t] = Quiet
                          ELSE caller'[t] = [caller[t] EXCEPT !.pc = "save", !.st = path]
    <2>1. CASE path = None
      BY <2>1 DEF SingleTypeOK, CallerRecs, CallerPlaces, Quiet, None, Other
    <2>2. CASE path # None
      <3> DEFINE r == [caller[t] EXCEPT !.pc = "save", !.st = path]
      <3>1. r \in CallerRecs
        BY DEF SingleTypeOK, CallerRecs, CallerPlaces
      <3>2. caller' = [caller EXCEPT ![t] = r]
        BY <2>2 DEF SingleTypeOK
      <3> HIDE DEF r
      <3>3. caller' \in [Callers -> CallerRecs] /\ caller'[t] = r
        BY <3>1, <3>2 DEF SingleTypeOK
      <3> QED
        BY <2>2, <3>3 DEF r
    <2> QED
      BY <2>1, <2>2
  <1>3. /\ caller'[t].pc = IF path = None THEN "idle" ELSE "save"
        /\ path # None => caller'[t].st = path /\ caller'[t].seen = caller[t].seen
    BY <1>2 DEF Quiet, CallerRecs
  <1>4. SingleTypeOK' /\ ~behind'
    BY <1>1, <1>2 DEF SingleTypeOK
  <1>5. Owns(t)'
    BY <1>1, <1>3 DEF Owns, IsAt
  <1>6. HasSeen(t)'
    BY <1>1, <1>3 DEF HasSeen, IsAt
  <1>7. Replaced(t)'
    BY <1>1, <1>3 DEF Replaced, IsAt
  <1>8. LeftEmpty(t)'
    BY <1>1, <1>3 DEF LeftEmpty, IsAt
  <1>9. Counted(t)'
    BY <1>1, <1>3 DEF Counted, IsAt
  <1> QED
    BY <1>4, <1>5, <1>6, <1>7, <1>8, <1>9

LEMMA SaveStep ==
  ASSUME NEW t, Before(t), Save(t) PROVE SingleTypeOK' /\ ~behind' /\ CallerInv(t)'
  <1> USE DEF Before, CallerInv, Save
  <1>1. /\ caller[t].pc = "save" /\ OwnIno' = OwnIno /\ static_ino' = caller[t].st
        /\ UNCHANGED <<path, fds, static_fd, fsync_count, unsynced, behind, hit, replaces>>
    BY DEF OwnIno
  <1>2. /\ caller' \in [Callers -> CallerRecs]
        /\ caller'[t] = [caller[t] EXCEPT !.pc = "write"]
    BY DEF SingleTypeOK, CallerRecs, CallerPlaces
  <1>3. caller'[t].pc = "write" /\ caller'[t].st = caller[t].st /\ caller'[t].seen = caller[t].seen
    BY <1>2 DEF CallerRecs
  <1>4. OwnIno # Other /\ OwnIno \in Nat
    BY <1>1 DEF Owns, IsAt, OwnIno, SingleTypeOK
  <1>5. caller[t].st \in Nat \ {None, Other}
    <2>1. caller[t].st \in Nat \ {Other}
      BY DEF CallerRecs
    <2> QED
      BY <1>1, <2>1 DEF Replaced, LeftEmpty, IsAt
  <1>6. SingleTypeOK' /\ ~behind'
    BY <1>1, <1>2, <1>5 DEF SingleTypeOK
  <1>7. Owns(t)'
    BY <1>1, <1>3 DEF Owns, IsAt
  <1>8. HasSeen(t)'
    BY <1>1, <1>3 DEF HasSeen, IsAt
  <1>9. Replaced(t)'
    BY <1>1, <1>3 DEF Replaced, IsAt
  <1>10. LeftEmpty(t)'
    BY <1>1, <1>3 DEF LeftEmpty, IsAt
  <1>11. Counted(t)'
    BY <1>1, <1>3 DEF Counted, IsAt
  <1> QED
    BY <1>6, <1>7, <1>8, <1>9, <1>10, <1>11

LEMMA WriteStep ==
  ASSUME NEW t, Before(t), WriteFd(t) PROVE SingleTypeOK' /\ ~behind' /\ CallerInv(t)'
  <1> USE DEF Before, CallerInv
  <1>1. caller[t].pc = "write"
    BY DEF WriteFd
  <1>2. static_fd \in DOMAIN fds /\ OwnIno \in caller[t].seen /\ OwnIno \in Nat \ {Other}
    BY <1>1 DEF Owns, HasSeen, IsAt, OwnIno, SingleTypeOK
  <1>3. /\ caller' = [caller EXCEPT ![t].pc = "sync"]
        /\ hit' = hit \cup {OwnIno} /\ ~behind' /\ unsynced' = unsynced + 1 /\ OwnIno' = OwnIno
        /\ UNCHANGED <<path, fds, static_fd, static_ino, fsync_count, replaces>>
    <2> DEFINE ino == IF static_fd \in DOMAIN fds THEN fds[static_fd] ELSE Nowhere
    <2>1. ino = OwnIno /\ ino # Nowhere
      BY <1>2 DEF OwnIno, Nowhere
    <2>2. behind' = (behind \/ ino \notin caller[t].seen)
      BY Zenon DEF WriteFd
    <2>3. ~behind'
      BY Zenon, <1>2, <2>1, <2>2
    <2>4. hit' = hit \cup {ino} /\ unsynced' = unsynced + 1
      BY DEF WriteFd
    <2>5. caller' = [caller EXCEPT ![t].pc = "sync"]
      BY <2>1 DEF WriteFd
    <2>6. UNCHANGED <<path, fds, static_fd, static_ino, fsync_count, replaces>>
      BY DEF WriteFd
    <2> HIDE DEF ino
    <2> QED
      BY <2>1, <2>3, <2>4, <2>5, <2>6 DEF OwnIno
  <1>4. caller' \in [Callers -> CallerRecs] /\ caller'[t].pc = "sync"
    BY <1>3 DEF SingleTypeOK, CallerRecs, CallerPlaces
  <1>5. hit' \subseteq Nat \ {Other} /\ IsFiniteSet(hit')
    BY <1>2, <1>3, FS_AddElement DEF SingleTypeOK
  <1>6. SingleTypeOK' /\ ~behind'
    BY <1>3, <1>4, <1>5 DEF SingleTypeOK
  <1>7. Owns(t)'
    BY <1>1, <1>3, <1>4 DEF Owns, IsAt
  <1>8. HasSeen(t)'
    BY <1>4 DEF HasSeen, IsAt
  <1>9. Replaced(t)'
    BY <1>1, <1>3, <1>4 DEF Replaced, IsAt
  <1>10. LeftEmpty(t)'
    BY <1>1, <1>3, <1>4 DEF LeftEmpty, IsAt
  <1>11. Counted(t)'
    BY <1>1, <1>3, <1>4 DEF Counted, IsAt, SingleTypeOK
  <1> QED
    BY <1>6, <1>7, <1>8, <1>9, <1>10, <1>11

LEMMA SyncStep ==
  ASSUME NEW t, Before(t), Sync(t), SingleAssumption PROVE SingleTypeOK' /\ ~behind' /\ CallerInv(t)'
  <1> USE DEF Before, CallerInv
  <1>1. /\ caller[t].pc = "sync" /\ caller' = [caller EXCEPT ![t] = Quiet] /\ OwnIno' = OwnIno
        /\ UNCHANGED <<path, fds, static_fd, static_ino, behind, hit, replaces>>
    BY DEF Sync, OwnIno
  <1>2. /\ fsync_count' \in Nat /\ unsynced' \in Nat
        /\ FsyncPeriod > 0 => fsync_count' < FsyncPeriod /\ unsynced' = fsync_count'
    <2>1. FsyncPeriod > 0 => fsync_count < FsyncPeriod /\ unsynced = fsync_count + 1
      BY <1>1 DEF Counted, IsAt
    <2> QED
      BY <2>1 DEF Sync, FsyncDue, SingleTypeOK, SingleAssumption
  <1>3. caller' \in [Callers -> CallerRecs] /\ caller'[t].pc = "idle"
    BY <1>1 DEF SingleTypeOK, CallerRecs, CallerPlaces, Quiet, None, Other
  <1>4. SingleTypeOK' /\ ~behind'
    BY <1>1, <1>2, <1>3 DEF SingleTypeOK
  <1>5. Owns(t)'
    BY <1>1, <1>3 DEF Owns, IsAt
  <1>6. HasSeen(t)'
    BY <1>3 DEF HasSeen, IsAt
  <1>7. Replaced(t)'
    BY <1>1, <1>3 DEF Replaced, IsAt
  <1>8. LeftEmpty(t)'
    BY <1>1, <1>3 DEF LeftEmpty, IsAt
  <1>9. Counted(t)'
    BY <1>2, <1>3 DEF Counted, IsAt, SingleTypeOK
  <1> QED
    BY <1>4, <1>5, <1>6, <1>7, <1>8, <1>9

LEMMA MoveAwayStep ==
  ASSUME NEW t, Before(t), MoveAway PROVE SingleTypeOK' /\ ~behind' /\ CallerInv(t)'
  <1> USE DEF Before, CallerInv
  <1>1. /\ path # None /\ path' = (IF replaces THEN NewIno ELSE None)
        /\ caller' = Seen(caller, path') /\ OwnIno' = OwnIno
        /\ UNCHANGED <<fds, static_fd, static_ino, fsync_count, unsynced, behind, hit, replaces>>
    BY DEF MoveAway, OwnIno
  <1>2. path' \in Nat \ {Other}
    BY <1>1, NewInoIsNew DEF None, Other
  <1>3. replaces => path' # None /\ path < path'
    BY <1>1, NewInoIsNew DEF Inodes
  <1>4. /\ caller' \in [Callers -> CallerRecs]
        /\ caller'[t].pc = caller[t].pc /\ caller'[t].st = caller[t].st
        /\ caller[t].seen \subseteq caller'[t].seen
    BY <1>1, <1>2 DEF Seen, SingleTypeOK, CallerRecs
  <1>5. SingleTypeOK' /\ ~behind'
    BY <1>1, <1>2, <1>4 DEF SingleTypeOK
  <1>6. Owns(t)'
    BY <1>1, <1>4 DEF Owns, IsAt
  <1>7. HasSeen(t)'
    BY <1>1, <1>4 DEF HasSeen, IsAt
  <1>8. Replaced(t)'
    <2> SUFFICES ASSUME replaces PROVE Replaced(t)'
      BY <1>1 DEF Replaced
    <2>1. ~IsAt(t, {"open"}) => OwnIno \in Nat
      BY DEF Owns, OwnIno, SingleTypeOK
    <2>2. caller[t].st \in Nat
      BY DEF CallerRecs
    <2> QED
      BY <1>1, <1>2, <1>3, <1>4, <2>1, <2>2 DEF Replaced, IsAt, SingleTypeOK
  <1>9. LeftEmpty(t)'
    BY <1>1, <1>4 DEF LeftEmpty, IsAt
  <1>10. Counted(t)'
    BY <1>1, <1>4 DEF Counted, IsAt
  <1> QED
    BY <1>5, <1>6, <1>7, <1>8, <1>9, <1>10

LEMMA OtherStep ==
  ASSUME NEW t, Before(t), OtherOpens \/ OtherCloses
  PROVE  SingleTypeOK' /\ ~behind' /\ CallerInv(t)'
  <1> USE DEF Before, CallerInv
  <1>1. UNCHANGED <<path, static_fd, static_ino, fsync_count, caller, behind, unsynced, hit, replaces>>
    BY DEF OtherOpens, OtherCloses
  <1>2. /\ fds' \in [DOMAIN fds' -> Nat] /\ DOMAIN fds' \subseteq Nat /\ IsFiniteSet(DOMAIN fds')
        /\ \A n \in DOMAIN fds' : fds'[n] # Other => n \in DOMAIN fds /\ fds'[n] = fds[n]
        /\ \A n \in DOMAIN fds : fds[n] # Other => n \in DOMAIN fds' /\ fds'[n] = fds[n]
    <2>1. CASE OtherOpens
      <3>1. fds' = WithFd(Other) /\ Other \in Nat
        BY <2>1 DEF OtherOpens, Other
      <3> QED
        BY <3>1, WithFdIs DEF SingleTypeOK
    <2>2. CASE OtherCloses
      <3>1. PICK m \in DOMAIN fds : fds[m] = Other /\ fds' = Closed(m)
        BY <2>2 DEF OtherCloses
      <3>2. DOMAIN fds' = DOMAIN fds \ {m} /\ \A n \in DOMAIN fds' : fds'[n] = fds[n]
        BY <3>1 DEF Closed
      <3>3. IsFiniteSet(DOMAIN fds')
        BY <3>2, FS_Subset DEF SingleTypeOK
      <3>4. fds' \in [DOMAIN fds' -> Nat] /\ DOMAIN fds' \subseteq Nat
        BY <3>1, <3>2 DEF Closed, SingleTypeOK
      <3> QED
        BY <3>1, <3>2, <3>3, <3>4
    <2> QED
      BY <2>1, <2>2
  <1>3. SingleTypeOK' /\ ~behind'
    BY <1>1, <1>2 DEF SingleTypeOK
  <1>4. ~IsAt(t, {"open"}) => OwnIno' = OwnIno
    BY <1>1, <1>2 DEF Owns, OwnIno
  <1>5. Owns(t)'
    BY <1>1, <1>2, <1>4 DEF Owns, IsAt, OwnIno
  <1>6. HasSeen(t)'
    BY <1>1, <1>4 DEF HasSeen, IsAt
  <1>7. Replaced(t)'
    BY <1>1, <1>4 DEF Replaced, IsAt
  <1>8. LeftEmpty(t)'
    BY <1>1, <1>4 DEF LeftEmpty, IsAt
  <1>9. Counted(t)'
    BY <1>1 DEF Counted, IsAt
  <1> QED
    BY <1>3, <1>5, <1>6, <1>7, <1>8, <1>9

\* No step of the thread, of a tool or of another rule breaks the invariant.
LEMMA SingleStep ==
  ASSUME \A a, b \in Callers : a = b, SingleAssumption, SingleInv, [SingleNext]_singleVars
  PROVE  SingleInv'
  <1>1. PICK t \in Callers : \A c \in Callers : c = t
    BY DEF SingleAssumption
  <1>2. CASE SingleNext
    <2>1. Before(t)
      BY <1>2 DEF Before, SingleInv, SingleNext, SingleTypeOK
    <2>2. SingleTypeOK' /\ ~behind' /\ CallerInv(t)'
      <3>1. ASSUME NEW c \in Callers,
                   Stat(c) \/ Close(c) \/ Reopen(c) \/ Restat(c) \/ Save(c) \/ WriteFd(c) \/ Sync(c)
            PROVE  Stat(t) \/ Close(t) \/ Reopen(t) \/ Restat(t) \/ Save(t) \/ WriteFd(t) \/ Sync(t)
        <4>1. c = t
          BY <1>1
        <4> QED
          BY <3>1, <4>1, Zenon
      <3>2. Stat(t) \/ Close(t) \/ Reopen(t) \/ Restat(t) \/ Save(t) \/ WriteFd(t) \/ Sync(t)
            \/ MoveAway \/ OtherOpens \/ OtherCloses
        BY <1>2, <3>1 DEF SingleNext
      <3> QED
        BY <2>1, <3>2, StatStep, CloseStep, ReopenStep, RestatStep, SaveStep, WriteStep, SyncStep,
           MoveAwayStep, OtherStep
    <2>3. ASSUME NEW c \in Callers PROVE CallerInv(c)'
      <3>1. c = t
        BY <1>1
      <3> QED
        BY <2>2, <3>1
    <2> QED
      BY <2>2, <2>3 DEF SingleInv
  <1>3. CASE UNCHANGED singleVars
    <2>1. SingleTypeOK' /\ ~behind'
      BY <1>3 DEF SingleInv, SingleTypeOK, singleVars
    <2>2. \A c \in Callers : CallerInv(c)'
      BY <1>3 DEF SingleInv, CallerInv, Owns, HasSeen, Replaced, LeftEmpty, Counted, IsAt, OwnIno, singleVars
    <2> QED
      BY <2>1, <2>2 DEF SingleInv
  <1> QED
    BY <1>2, <1>3

\* The invariant says that at most one descriptor is the rule's.
LEMMA FollowedWhileInv ==
  ASSUME SingleInv, SingleAssumption PROVE FileFollowed /\ RightFile
  <1>1. PICK t \in Callers : CallerInv(t)
    BY DEF SingleAssumption, SingleInv
  <1>2. OneDescriptor
    <2> DEFINE Own == {n \in DOMAIN fds : fds[n] # Other}
    <2>1. Own \subseteq {static_fd}
      BY <1>1 DEF CallerInv, Owns
    <2>2. IsFiniteSet({static_fd}) /\ Cardinality({static_fd}) = 1
      BY FS_Singleton
    <2> HIDE DEF Own
    <2>3. Cardinality(Own) <= 1
      BY <2>1, <2>2, FS_Subset
    <2> QED
      BY <2>3 DEF OneDescriptor, Own
  <1>3. SyncedInTime
    BY <1>1 DEF SyncedInTime, CallerInv, Counted, SingleInv, SingleTypeOK, SingleAssumption
  <1>4. RightFile
    BY DEF RightFile, SingleInv, SingleTypeOK, Nowhere
  <1> QED
    BY <1>2, <1>3, <1>4 DEF FileFollowed, NotBehind, SingleInv

\* One thread that logs through the rule sees every file that is put at its path:
\* no message goes to a file moved away before its call, to another rule's file or
\* to a closed descriptor, no descriptor is leaked, and fsync is never late.
THEOREM FileIsFollowed ==
  ASSUME \A a, b \in Callers : a = b
  PROVE  SingleSpec => [](FileFollowed /\ RightFile)
  <1>1. SingleInit => SingleInv
    BY SingleFirst, SingleAssumption
  <1>2. SingleInv /\ [SingleNext]_singleVars => SingleInv'
    BY SingleStep, SingleAssumption
  <1>3. SingleInv => FileFollowed /\ RightFile
    BY FollowedWhileInv, SingleAssumption
  <1> QED
    BY <1>1, <1>2, <1>3, PTL DEF SingleSpec

(***************************************************************************)
(* Part 3: the hash table, for any keys and any hash.                      *)
(***************************************************************************)

Els(s) == {s[i] : i \in 1 .. Len(s)}

\* The entries of the list s hang together from p on.
Lined(p, nx, pv, s) ==
  /\ p = IF Len(s) = 0 THEN NoKey ELSE s[1]
  /\ \A i \in 1 .. Len(s) : /\ nx[s[i]] = IF i < Len(s) THEN s[i + 1] ELSE NoKey
                            /\ pv[s[i]] = IF i > 1 THEN s[i - 1] ELSE NoKey
  /\ \A i, j \in 1 .. Len(s) : s[i] = s[j] => i = j

\* The bucket i of the table t is the list ls[i], of the keys that are hashed to i.
Table(t, nx, pv, ls) ==
  /\ \E n \in Nat \ {0} : DOMAIN t = 0 .. n - 1
  /\ t \in [DOMAIN t -> HKeys \cup {NoKey}] /\ ls \in [DOMAIN t -> Seq(HKeys)]
  /\ DOMAIN nx = {k \in HKeys : k \in Els(ls[Bucket(t, k)])} /\ DOMAIN pv = DOMAIN nx
  /\ \A i \in DOMAIN t : Lined(t[i], nx, pv, ls[i]) /\ \A k \in Els(ls[i]) : Bucket(t, k) = i

LEMMA BucketIs ==
  ASSUME HashAssumption, NEW t, NEW n \in Nat \ {0}, DOMAIN t = 0 .. n - 1, NEW k \in HKeys
  PROVE  Bucket(t, k) \in DOMAIN t /\ Size(t) = n
  <1>1. Size(t) = n
    <2>1. Cardinality(0 .. n - 1) = n
      BY FS_Interval
    <2> QED
      BY <2>1 DEF Size
  <1>2. Hash[k] \in Nat
    BY DEF HashAssumption
  <1>3. Hash[k] % n \in 0 .. n - 1
    BY <1>2
  <1> QED
    BY <1>1, <1>3 DEF Bucket

LEMMA BucketSame ==
  ASSUME NEW t, NEW u, DOMAIN t = DOMAIN u PROVE \A k : Bucket(t, k) = Bucket(u, k)
  BY DEF Bucket, Size

\* The list with one entry more at its head, and with one entry less.
Longer(k, s) == <<k>> \o s
LEMMA LongerIs ==
  ASSUME NEW k \in HKeys, NEW s \in Seq(HKeys)
  PROVE  /\ Longer(k, s) \in Seq(HKeys) /\ Len(Longer(k, s)) = Len(s) + 1
         /\ Longer(k, s)[1] = k /\ \A i \in 2 .. Len(s) + 1 : Longer(k, s)[i] = s[i - 1]
         /\ Els(Longer(k, s)) = Els(s) \cup {k}
  <1>1. /\ Longer(k, s) \in Seq(HKeys) /\ Len(Longer(k, s)) = Len(s) + 1
        /\ Longer(k, s)[1] = k /\ \A i \in 2 .. Len(s) + 1 : Longer(k, s)[i] = s[i - 1]
    BY DEF Longer
  <1> HIDE DEF Longer
  <1>2. Len(s) \in Nat
    OBVIOUS
  <1>3. ASSUME NEW e \in Els(Longer(k, s)) PROVE e \in Els(s) \cup {k}
    <2>1. PICK i \in 1 .. Len(s) + 1 : e = Longer(k, s)[i]
      BY <1>1, <1>3 DEF Els
    <2>2. CASE i = 1
      BY <1>1, <2>1, <2>2
    <2>3. CASE i # 1
      <3>1. i - 1 \in 1 .. Len(s) /\ e = s[i - 1]
        BY <1>1, <1>2, <2>1, <2>3
      <3> QED
        BY <3>1 DEF Els
    <2> QED
      BY <2>2, <2>3
  <1>4. ASSUME NEW e \in Els(s) PROVE e \in Els(Longer(k, s))
    <2>1. PICK i \in 1 .. Len(s) : e = s[i]
      BY <1>4 DEF Els
    <2>2. i + 1 \in 2 .. Len(s) + 1 /\ i + 1 \in 1 .. Len(s) + 1 /\ Longer(k, s)[i + 1] = s[i]
      BY <1>1, <1>2
    <2> QED
      BY <1>1, <2>1, <2>2 DEF Els
  <1>5. k \in Els(Longer(k, s))
    BY <1>1, <1>2 DEF Els
  <1> QED
    BY <1>1, <1>3, <1>4, <1>5

Cut(s, j) == [i \in 1 .. Len(s) - 1 |-> IF i < j THEN s[i] ELSE s[i + 1]]
LEMMA CutIs ==
  ASSUME NEW s \in Seq(HKeys), NEW j \in 1 .. Len(s), \A a, b \in 1 .. Len(s) : s[a] = s[b] => a = b
  PROVE  /\ Cut(s, j) \in Seq(HKeys) /\ Len(Cut(s, j)) = Len(s) - 1
         /\ \A i \in 1 .. Len(s) - 1 : Cut(s, j)[i] = IF i < j THEN s[i] ELSE s[i + 1]
         /\ Els(Cut(s, j)) = Els(s) \ {s[j]}
  <1>1. Len(s) \in Nat /\ Len(s) >= 1 /\ \A i \in 1 .. Len(s) : s[i] \in HKeys
    OBVIOUS
  <1>2. /\ Cut(s, j) \in Seq(HKeys) /\ Len(Cut(s, j)) = Len(s) - 1
        /\ \A i \in 1 .. Len(s) - 1 : Cut(s, j)[i] = IF i < j THEN s[i] ELSE s[i + 1]
    <2>1. Cut(s, j) \in [1 .. Len(s) - 1 -> HKeys]
      BY <1>1 DEF Cut
    <2>2. Len(s) - 1 \in Nat
      BY <1>1
    <2> QED
      BY <2>1, <2>2 DEF Cut
  <1> HIDE DEF Cut
  <1>3. ASSUME NEW e \in Els(Cut(s, j)) PROVE e \in Els(s) \ {s[j]}
    <2>1. PICK i \in 1 .. Len(s) - 1 : e = Cut(s, j)[i]
      BY <1>2, <1>3 DEF Els
    <2>2. PICK m \in 1 .. Len(s) : m # j /\ e = s[m]
      <3>1. CASE i < j
        BY <1>1, <1>2, <2>1, <3>1
      <3>2. CASE ~(i < j)
        BY <1>1, <1>2, <2>1, <3>2
      <3> QED
        BY <3>1, <3>2
    <2> QED
      BY <2>2 DEF Els
  <1>4. ASSUME NEW e \in Els(s), e # s[j] PROVE e \in Els(Cut(s, j))
    <2>1. PICK m \in 1 .. Len(s) : e = s[m]
      BY <1>4 DEF Els
    <2>2. \E i \in 1 .. Len(s) - 1 : e = Cut(s, j)[i]
      <3>1. CASE m < j
        <4>1. m \in 1 .. Len(s) - 1 /\ Cut(s, j)[m] = s[m]
          BY <1>1, <1>2, <3>1
        <4> QED
          BY <2>1, <4>1
      <3>2. CASE m > j
        <4>1. m - 1 \in 1 .. Len(s) - 1 /\ Cut(s, j)[m - 1] = s[m]
          BY <1>1, <1>2, <3>2
        <4> QED
          BY <2>1, <4>1
      <3> QED
        BY <1>4, <2>1, <3>1, <3>2
    <2> QED
      BY <1>2, <2>2 DEF Els
  <1> QED
    BY <1>2, <1>3, <1>4

\* An entry that is put at the head of its bucket.
LEMMA LinkedKeeps ==
  ASSUME HashAssumption, NEW st, NEW ls, Table(st.tab, st.next, st.prev, ls),
         NEW k \in HKeys, k \notin DOMAIN st.next
  PROVE  /\ Table(Linked(st, k).tab, Linked(st, k).next, Linked(st, k).prev,
                  [ls EXCEPT ![Bucket(st.tab, k)] = Longer(k, @)])
         /\ DOMAIN Linked(st, k).tab = DOMAIN st.tab
         /\ DOMAIN Linked(st, k).next = DOMAIN st.next \cup {k}
  <1> DEFINE b == Bucket(st.tab, k)
             t == st.tab
             nx == st.next
             pv == st.prev
             t2 == Linked(st, k).tab
             nx2 == Linked(st, k).next
             pv2 == Linked(st, k).prev
             ls2 == [ls EXCEPT ![b] = Longer(k, @)]
             s == ls[b]
  <1>1. /\ t2 = [t EXCEPT ![b] = k]
        /\ nx2 = [e \in DOMAIN nx \cup {k} |-> IF e = k THEN t[b] ELSE nx[e]]
        /\ pv2 = [e \in DOMAIN pv \cup {k} |-> IF e = k THEN NoKey ELSE IF e = t[b] THEN k ELSE pv[e]]
    BY DEF Linked
  <1>2. Table(t, nx, pv, ls)
    OBVIOUS
  <1>3. PICK n \in Nat \ {0} : DOMAIN t = 0 .. n - 1
    BY <1>2 DEF Table
  <1>4. b \in DOMAIN t /\ \A e \in HKeys : Bucket(t, e) \in DOMAIN t
    BY <1>3, BucketIs
  <1>5. k \notin DOMAIN nx
    OBVIOUS
  <1>6. \A e : Bucket(t2, e) = Bucket(t, e)
    <2>1. DOMAIN t2 = DOMAIN t
      BY <1>1
    <2> HIDE DEF t2, t
    <2> QED
      BY <2>1, BucketSame
  <1>7. b = Bucket(t, k) /\ ls2 = [ls EXCEPT ![b] = Longer(k, s)]
    OBVIOUS
  <1> HIDE DEF b, t, nx, pv, t2, nx2, pv2, ls2, s
  <1>8. ls \in [DOMAIN t -> Seq(HKeys)] /\ t \in [DOMAIN t -> HKeys \cup {NoKey}] /\ s = ls[b] /\ s \in Seq(HKeys)
    BY <1>2, <1>4 DEF Table, s
  <1>9. /\ Longer(k, s) \in Seq(HKeys) /\ Len(Longer(k, s)) = Len(s) + 1
        /\ Longer(k, s)[1] = k /\ \A i \in 2 .. Len(s) + 1 : Longer(k, s)[i] = s[i - 1]
        /\ Els(Longer(k, s)) = Els(s) \cup {k}
    BY <1>8, LongerIs, ZenonT(60)
  <1> HIDE DEF Longer
  <1>10. /\ DOMAIN t2 = DOMAIN t /\ t2 \in [DOMAIN t2 -> HKeys \cup {NoKey}]
         /\ ls2 \in [DOMAIN t2 -> Seq(HKeys)] /\ DOMAIN nx2 = DOMAIN nx \cup {k} /\ DOMAIN pv2 = DOMAIN nx2
    BY <1>1, <1>2, <1>4, <1>7, <1>8, <1>9 DEF Table
  <1>11. ls2[b] = Longer(k, s) /\ t2[b] = k /\ \A i \in DOMAIN t : i # b => ls2[i] = ls[i] /\ t2[i] = t[i]
    BY <1>1, <1>4, <1>7, <1>8
  <1>12. \A i \in DOMAIN t : Els(ls[i]) \subseteq DOMAIN nx
    <2>1. ASSUME NEW i \in DOMAIN t, NEW e \in Els(ls[i]) PROVE e \in DOMAIN nx
      <3>1. e \in HKeys
        BY <1>8, <2>1 DEF Els
      <3>2. Bucket(t, e) = i
        BY <1>2, <2>1 DEF Table
      <3> QED
        BY <1>2, <2>1, <3>1, <3>2 DEF Table
    <2> QED
      BY <2>1
  <1>13. DOMAIN nx2 = {e \in HKeys : e \in Els(ls2[Bucket(t2, e)])}
    <2>1. DOMAIN nx = {e \in HKeys : e \in Els(ls[Bucket(t, e)])}
      BY <1>2 DEF Table
    <2>2. ASSUME NEW e \in HKeys
          PROVE  e \in Els(ls2[Bucket(t2, e)]) <=> e \in Els(ls[Bucket(t, e)]) \cup {k}
      <3>1. CASE Bucket(t, e) = b
        BY <1>6, <1>8, <1>9, <1>11, <3>1, ZenonT(60)
      <3>2. CASE Bucket(t, e) # b
        BY <1>4, <1>6, <1>7, <1>11, <3>2
      <3> QED
        BY <3>1, <3>2
    <2> QED
      BY <1>10, <2>1, <2>2
  <1>14. ASSUME NEW i \in DOMAIN t PROVE Lined(t2[i], nx2, pv2, ls2[i]) /\ \A e \in Els(ls2[i]) : Bucket(t2, e) = i
    <2>1. Lined(t[i], nx, pv, ls[i]) /\ \A e \in Els(ls[i]) : Bucket(t, e) = i
      BY <1>2 DEF Table
    <2>2. Len(ls[i]) \in Nat /\ \A a \in 1 .. Len(ls[i]) : ls[i][a] \in Els(ls[i]) /\ ls[i][a] \in HKeys /\ ls[i][a] \in DOMAIN nx
      BY <1>8, <1>12 DEF Els
    <2>3. DOMAIN pv = DOMAIN nx /\ NoKey \notin HKeys
      BY <1>2 DEF Table, HashAssumption
    <2>4. CASE i # b
      <3>1. \A a \in 1 .. Len(ls[i]) : ls[i][a] # k /\ ls[i][a] # t[b]
        <4>1. t[b] = IF Len(s) = 0 THEN NoKey ELSE s[1]
          BY <1>2, <1>4, <1>8 DEF Table, Lined
        <4>2. Len(s) # 0 => s[1] \in Els(s) /\ Bucket(t, s[1]) = b
          <5>1. Len(s) \in Nat
            BY <1>8
          <5>2. Len(s) # 0 => s[1] \in Els(s)
            BY <5>1 DEF Els
          <5> QED
            BY <1>2, <1>4, <1>8, <5>2 DEF Table
        <4> QED
          BY <1>5, <2>1, <2>2, <2>3, <2>4, <4>1, <4>2
      <3>2. \A a \in 1 .. Len(ls[i]) : nx2[ls[i][a]] = nx[ls[i][a]] /\ pv2[ls[i][a]] = pv[ls[i][a]]
        BY <1>1, <2>2, <2>3, <3>1
      <3>3. ls2[i] = ls[i] /\ t2[i] = t[i]
        BY <1>11, <2>4
      <3>4. Lined(t[i], nx2, pv2, ls[i])
        BY <2>1, <3>2 DEF Lined
      <3> QED
        BY <1>6, <2>1, <3>3, <3>4
    <2>5. CASE i = b
      <3> DEFINE c == Longer(k, s)
      <3>1. Lined(t[b], nx, pv, s) /\ \A e \in Els(s) : Bucket(t, e) = b
        BY <1>8, <2>1, <2>5
      <3>2. Len(s) \in Nat /\ \A a \in 1 .. Len(s) : s[a] \in HKeys /\ s[a] \in DOMAIN nx /\ s[a] # k
        BY <1>5, <1>8, <2>2, <2>5
      <3>3. Len(c) = Len(s) + 1 /\ c[1] = k /\ \A a \in 2 .. Len(s) + 1 : c[a] = s[a - 1]
        BY <1>9
      <3> HIDE DEF c
      <3>4. \A a \in 1 .. Len(s) : /\ nx2[s[a]] = nx[s[a]]
                                   /\ pv2[s[a]] = IF s[a] = t[b] THEN k ELSE pv[s[a]]
        BY <1>1, <2>3, <3>2
      <3>5. nx2[k] = t[b] /\ pv2[k] = NoKey
        BY <1>1, <1>10
      <3>6. ASSUME NEW a \in 1 .. Len(c)
            PROVE  /\ nx2[c[a]] = IF a < Len(c) THEN c[a + 1] ELSE NoKey
                   /\ pv2[c[a]] = IF a > 1 THEN c[a - 1] ELSE NoKey
        <4>1. CASE a = 1
          <5>1. Len(s) # 0 => c[2] = s[1]
            BY <3>2, <3>3
          <5> QED
            BY <3>1, <3>2, <3>3, <3>5, <4>1, <5>1 DEF Lined
        <4>2. CASE a # 1
          <5>1. a - 1 \in 1 .. Len(s) /\ c[a] = s[a - 1] /\ (a < Len(c) => c[a + 1] = s[a])
            BY <3>2, <3>3, <4>2
          <5>2. nx2[c[a]] = IF a < Len(c) THEN c[a + 1] ELSE NoKey
            <6>1. nx[s[a - 1]] = IF a - 1 < Len(s) THEN s[a - 1 + 1] ELSE NoKey
              BY <3>1, <5>1 DEF Lined
            <6> QED
              BY <3>2, <3>3, <3>4, <5>1, <6>1
          <5>3. CASE a = 2
            <6>1. t[b] = s[1] /\ c[a - 1] = k
              BY <3>1, <3>2, <3>3, <5>1, <5>3 DEF Lined
            <6> QED
              BY <3>4, <5>1, <5>2, <5>3, <6>1
          <5>4. CASE a # 2
            <6>1. a - 1 > 1 /\ a - 2 \in 1 .. Len(s) /\ c[a - 1] = s[a - 2]
              BY <3>2, <3>3, <4>2, <5>4
            <6>2. t[b] = s[1] /\ s[a - 1] # s[1] /\ pv[s[a - 1]] = s[a - 2]
              BY <3>1, <3>2, <5>1, <6>1 DEF Lined
            <6> QED
              BY <3>4, <5>1, <5>2, <6>1, <6>2
          <5> QED
            BY <5>3, <5>4
        <4> QED
          BY <4>1, <4>2
      <3>7. \A a, d \in 1 .. Len(c) : c[a] = c[d] => a = d
        <4>1. \A a \in 1 .. Len(c) : a = 1 \/ (a - 1 \in 1 .. Len(s) /\ c[a] = s[a - 1])
          BY <3>2, <3>3
        <4>2. \A a, d \in 1 .. Len(s) : s[a] = s[d] => a = d
          BY <3>1 DEF Lined
        <4> SUFFICES ASSUME NEW a \in 1 .. Len(c), NEW d \in 1 .. Len(c), c[a] = c[d] PROVE a = d
          OBVIOUS
        <4>3. CASE a = 1 \/ d = 1
          BY <3>2, <3>3, <4>1, <4>3
        <4>4. CASE a # 1 /\ d # 1
          <5>1. a - 1 = d - 1
            BY <4>1, <4>2, <4>4
          <5> QED
            BY <3>2, <3>3, <5>1
        <4> QED
          BY <4>3, <4>4
      <3>8. ls2[i] = c /\ t2[i] = c[1] /\ Len(c) # 0
        BY <1>11, <2>5, <3>2, <3>3 DEF c
      <3>9. Lined(t2[i], nx2, pv2, c)
        BY <3>6, <3>7, <3>8 DEF Lined
      <3>10. \A e \in Els(c) : Bucket(t2, e) = i
        BY <1>6, <1>7, <1>9, <2>5, <3>1 DEF c
      <3> QED
        BY <3>8, <3>9, <3>10
    <2> QED
      BY <2>4, <2>5
  <1>15. Table(t2, nx2, pv2, ls2)
    BY <1>3, <1>10, <1>13, <1>14 DEF Table
  <1> QED
    BY <1>10, <1>15 DEF b, t, nx, pv, t2, nx2, pv2, ls2

\* Every entry is in the list of its bucket, and the lists have no others.
LEMMA EntriesIn ==
  ASSUME NEW t, NEW nx, NEW pv, NEW ls, Table(t, nx, pv, ls)
  PROVE  \A i \in DOMAIN t :
           /\ ls[i] \in Seq(HKeys) /\ Len(ls[i]) \in Nat
           /\ \A a \in 1 .. Len(ls[i]) : /\ ls[i][a] \in HKeys /\ ls[i][a] \in DOMAIN nx
                                         /\ Bucket(t, ls[i][a]) = i
  <1> TAKE i \in DOMAIN t
  <1>1. ls[i] \in Seq(HKeys) /\ Len(ls[i]) \in Nat
    BY DEF Table
  <1>2. ASSUME NEW a \in 1 .. Len(ls[i])
        PROVE  ls[i][a] \in HKeys /\ ls[i][a] \in DOMAIN nx /\ Bucket(t, ls[i][a]) = i
    <2>1. ls[i][a] \in HKeys /\ ls[i][a] \in Els(ls[i])
      BY <1>1 DEF Els
    <2>2. Bucket(t, ls[i][a]) = i
      BY <2>1 DEF Table
    <2> QED
      BY <2>1, <2>2 DEF Table
  <1> QED
    BY <1>1, <1>2

\* A list stays linked when the entry before j and the entry after it are joined.
Joined(p, nx, pv, s, j, p2, nx2, pv2) ==
  /\ p2 = IF pv[s[j]] = NoKey THEN nx[s[j]] ELSE p
  /\ \A a \in 1 .. Len(s) : a # j =>
       /\ nx2[s[a]] = IF s[a] = pv[s[j]] THEN nx[s[j]] ELSE nx[s[a]]
       /\ pv2[s[a]] = IF s[a] = nx[s[j]] THEN pv[s[j]] ELSE pv[s[a]]
LEMMA CutLined ==
  ASSUME NEW p, NEW nx, NEW pv, NEW s \in Seq(HKeys), Lined(p, nx, pv, s), NoKey \notin HKeys,
         NEW j \in 1 .. Len(s), NEW p2, NEW nx2, NEW pv2, Joined(p, nx, pv, s, j, p2, nx2, pv2)
  PROVE  Lined(p2, nx2, pv2, Cut(s, j))
  <1>1. PICK n \in Nat : n = Len(s)
    OBVIOUS
  <1>2. /\ \A a \in 1 .. n : s[a] \in HKeys
        /\ \A a \in 1 .. n : /\ nx[s[a]] = IF a < n THEN s[a + 1] ELSE NoKey
                             /\ pv[s[a]] = IF a > 1 THEN s[a - 1] ELSE NoKey
        /\ \A a, d \in 1 .. n : s[a] = s[d] => a = d
        /\ p = s[1] /\ j \in 1 .. n
    BY <1>1 DEF Lined
  <1>3. Len(Cut(s, j)) = n - 1 /\ \A i \in 1 .. n - 1 : Cut(s, j)[i] = IF i < j THEN s[i] ELSE s[i + 1]
    <2>1. \A a, d \in 1 .. Len(s) : s[a] = s[d] => a = d
      BY <1>1, <1>2
    <2> QED
      BY <1>1, <2>1, CutIs
  <1>4. PICK c : c = Cut(s, j)
    OBVIOUS
  <1>5. n - 1 \in Nat /\ Len(c) = n - 1 /\ \A i \in 1 .. n - 1 : c[i] = IF i < j THEN s[i] ELSE s[i + 1]
    BY <1>1, <1>2, <1>3, <1>4
  <1>6. \A a \in 1 .. n : a # j =>
          /\ nx2[s[a]] = IF a = j - 1 THEN nx[s[j]] ELSE nx[s[a]]
          /\ pv2[s[a]] = IF a = j + 1 THEN pv[s[j]] ELSE pv[s[a]]
    <2> SUFFICES ASSUME NEW a \in 1 .. n, a # j
                 PROVE  (s[a] = pv[s[j]] <=> a = j - 1) /\ (s[a] = nx[s[j]] <=> a = j + 1)
      BY <1>1 DEF Joined
    <2>1. s[a] = pv[s[j]] <=> a = j - 1
      <3>1. CASE j > 1
        <4>1. pv[s[j]] = s[j - 1] /\ j - 1 \in 1 .. n
          BY <1>2, <3>1
        <4> QED
          BY <1>2, <4>1
      <3>2. CASE ~(j > 1)
        BY <1>2, <3>2
      <3> QED
        BY <3>1, <3>2
    <2>2. s[a] = nx[s[j]] <=> a = j + 1
      <3>1. CASE j < n
        <4>1. nx[s[j]] = s[j + 1] /\ j + 1 \in 1 .. n
          BY <1>2, <3>1
        <4> QED
          BY <1>2, <4>1
      <3>2. CASE ~(j < n)
        BY <1>2, <3>2
      <3> QED
        BY <3>1, <3>2
    <2> QED
      BY <2>1, <2>2
  <1>7. p2 = IF n - 1 = 0 THEN NoKey ELSE c[1]
    <2>1. CASE j = 1
      <3>1. p2 = nx[s[1]]
        BY <1>2, <2>1 DEF Joined
      <3>2. n - 1 # 0 => c[1] = s[2]
        BY <1>5, <2>1
      <3> QED
        BY <1>2, <2>1, <3>1, <3>2
    <2>2. CASE j # 1
      <3>1. pv[s[j]] = s[j - 1] /\ s[j - 1] \in HKeys
        BY <1>2, <2>2
      <3>2. n - 1 # 0 /\ c[1] = s[1]
        BY <1>2, <1>5, <2>2
      <3> QED
        BY <1>2, <3>1, <3>2 DEF Joined
    <2> QED
      BY <2>1, <2>2
  <1>8. ASSUME NEW a \in 1 .. n - 1
        PROVE  /\ nx2[c[a]] = IF a < n - 1 THEN c[a + 1] ELSE NoKey
               /\ pv2[c[a]] = IF a > 1 THEN c[a - 1] ELSE NoKey
    <2>1. a < n - 1 => c[a + 1] = IF a + 1 < j THEN s[a + 1] ELSE s[a + 2]
      <3>1. a < n - 1 => a + 1 \in 1 .. n - 1 /\ a + 1 + 1 = a + 2
        OBVIOUS
      <3> QED
        BY <1>5, <3>1
    <2>2. a > 1 => c[a - 1] = IF a - 1 < j THEN s[a - 1] ELSE s[a]
      <3>1. a > 1 => a - 1 \in 1 .. n - 1 /\ a - 1 + 1 = a
        OBVIOUS
      <3> QED
        BY <1>5, <3>1
    <2>3. CASE a < j
      <3>1. a \in 1 .. n /\ a # j /\ c[a] = s[a] /\ a # j + 1
        BY <1>2, <1>5, <2>3
      <3>2. pv2[c[a]] = IF a > 1 THEN c[a - 1] ELSE NoKey
        BY <1>2, <1>6, <2>2, <2>3, <3>1
      <3>3. CASE a = j - 1
        <4>1. nx2[c[a]] = IF j < n THEN s[j + 1] ELSE NoKey
          BY <1>2, <1>6, <3>1, <3>3
        <4> QED
          BY <1>2, <2>1, <3>2, <3>3, <4>1
      <3>4. CASE a # j - 1
        <4>1. nx2[c[a]] = s[a + 1] /\ a + 1 < j
          <5>1. nx2[s[a]] = nx[s[a]] /\ a < n
            BY <1>2, <1>6, <2>3, <3>1, <3>4
          <5>2. nx[s[a]] = s[a + 1]
            BY <1>2, <3>1, <5>1
          <5> QED
            BY <1>2, <2>3, <3>1, <3>4, <5>1, <5>2
        <4> QED
          BY <1>2, <2>1, <3>2, <4>1
      <3> QED
        BY <3>3, <3>4
    <2>4. CASE ~(a < j)
      <3>1. a + 1 \in 1 .. n /\ a + 1 # j /\ c[a] = s[a + 1] /\ a + 1 # j - 1
        BY <1>2, <1>5, <2>4
      <3>2. nx2[c[a]] = IF a < n - 1 THEN c[a + 1] ELSE NoKey
        <4>1. nx2[c[a]] = IF a + 1 < n THEN s[a + 1 + 1] ELSE NoKey
          BY <1>2, <1>6, <3>1
        <4> QED
          BY <1>2, <2>1, <2>4, <4>1
      <3>3. CASE a = j
        BY <1>2, <1>6, <2>2, <3>1, <3>2, <3>3
      <3>4. CASE a # j
        <4>1. pv2[c[a]] = s[a] /\ a > 1
          <5>1. pv2[s[a + 1]] = pv[s[a + 1]] /\ a + 1 > 1 /\ a + 1 - 1 = a
            BY <1>6, <3>1, <3>4
          <5> QED
            BY <1>2, <2>4, <3>1, <3>4, <5>1
        <4> QED
          BY <1>2, <2>2, <2>4, <3>2, <3>4, <4>1
      <3> QED
        BY <3>3, <3>4
    <2> QED
      BY <2>3, <2>4
  <1>9. ASSUME NEW a \in 1 .. n - 1, NEW d \in 1 .. n - 1, c[a] = c[d] PROVE a = d
    <2> DEFINE Was(x) == IF x < j THEN x ELSE x + 1
    <2>1. Was(a) \in 1 .. n /\ c[a] = s[Was(a)]
      BY <1>2, <1>5
    <2>2. Was(d) \in 1 .. n /\ c[d] = s[Was(d)]
      BY <1>2, <1>5
    <2>3. s[Was(a)] = s[Was(d)]
      BY <1>9, <2>1, <2>2
    <2>4. \A x, y \in 1 .. n : s[x] = s[y] => x = y
      BY <1>2
    <2>5. Was(a) = Was(d)
      <3> HIDE DEF Was
      <3> QED
        BY <2>1, <2>2, <2>3, <2>4
    <2> QED
      BY <1>2, <2>5
  <1>10. Lined(p2, nx2, pv2, c)
    BY <1>5, <1>7, <1>8, <1>9 DEF Lined
  <1> QED
    BY <1>4, <1>10

\* An entry that is taken out of the list of its bucket.
LEMMA UnlinkedKeeps ==
  ASSUME HashAssumption, NEW ls, Table(tab, next, prev, ls), NEW k \in DOMAIN next
  PROVE  /\ \E l : Table(Unlinked(k).tab, Unlinked(k).next, Unlinked(k).prev, l)
         /\ DOMAIN Unlinked(k).next = DOMAIN next \ {k}
         /\ DOMAIN Unlinked(k).tab = DOMAIN tab
  <1> DEFINE b == Bucket(tab, k)
             s == ls[b]
             t2 == Unlinked(k).tab
             nx2 == Unlinked(k).next
             pv2 == Unlinked(k).prev
  <1>1. /\ t2 = IF prev[k] = NoKey THEN [tab EXCEPT ![b] = next[k]] ELSE tab
        /\ nx2 = [e \in DOMAIN next \ {k} |-> IF e = prev[k] THEN next[k] ELSE next[e]]
        /\ pv2 = [e \in DOMAIN prev \ {k} |-> IF e = next[k] THEN prev[k] ELSE prev[e]]
    BY DEF Unlinked
  <1>2. PICK n \in Nat \ {0} : DOMAIN tab = 0 .. n - 1
    BY DEF Table
  <1>3. k \in HKeys /\ k \in Els(s)
    BY DEF Table
  <1>4. b \in DOMAIN tab /\ \A e \in HKeys : Bucket(tab, e) \in DOMAIN tab
    BY <1>2, <1>3, BucketIs
  <1> HIDE DEF b, t2, nx2, pv2
  <1>5. PICK j \in 1 .. Len(s) : s[j] = k
    BY <1>3 DEF Els
  <1>6. /\ s = ls[b] /\ s \in Seq(HKeys) /\ Len(s) \in Nat /\ Lined(tab[b], next, prev, s)
        /\ \A a \in 1 .. Len(s) : s[a] \in HKeys /\ s[a] \in DOMAIN next /\ Bucket(tab, s[a]) = b
    <2>1. Lined(tab[b], next, prev, s)
      BY <1>4 DEF Table
    <2> QED
      BY <1>4, <2>1, EntriesIn
  <1> HIDE DEF s
  <1>7. DOMAIN prev = DOMAIN next /\ NoKey \notin HKeys /\ ls \in [DOMAIN tab -> Seq(HKeys)]
        /\ tab \in [DOMAIN tab -> HKeys \cup {NoKey}]
    BY DEF Table, HashAssumption
  <1>8. \A a, d \in 1 .. Len(s) : s[a] = s[d] => a = d
    BY <1>6 DEF Lined
  <1> DEFINE c == Cut(s, j)
             l == [ls EXCEPT ![b] = c]
  <1>9. /\ c \in Seq(HKeys) /\ Len(c) = Len(s) - 1
        /\ \A i \in 1 .. Len(s) - 1 : c[i] = IF i < j THEN s[i] ELSE s[i + 1]
        /\ Els(c) = Els(s) \ {k}
    <2>1. /\ Cut(s, j) \in Seq(HKeys) /\ Len(Cut(s, j)) = Len(s) - 1
          /\ \A i \in 1 .. Len(s) - 1 : Cut(s, j)[i] = IF i < j THEN s[i] ELSE s[i + 1]
          /\ Els(Cut(s, j)) = Els(s) \ {s[j]}
      BY <1>6, <1>8, CutIs
    <2> QED
      BY <1>5, <2>1
  <1> HIDE DEF c
  <1>10. /\ next[k] = IF j < Len(s) THEN s[j + 1] ELSE NoKey
         /\ prev[k] = IF j > 1 THEN s[j - 1] ELSE NoKey
    BY <1>5, <1>6 DEF Lined
  <1>11. next[k] \in HKeys \cup {NoKey}
    BY <1>6, <1>10
  <1>12. /\ DOMAIN t2 = DOMAIN tab /\ t2 \in [DOMAIN t2 -> HKeys \cup {NoKey}]
         /\ DOMAIN nx2 = DOMAIN next \ {k} /\ DOMAIN pv2 = DOMAIN nx2
         /\ l \in [DOMAIN t2 -> Seq(HKeys)]
    BY <1>1, <1>4, <1>7, <1>9, <1>11
  <1>13. l[b] = c /\ \A i \in DOMAIN tab : i # b => l[i] = ls[i] /\ t2[i] = tab[i]
    BY <1>1, <1>4, <1>7
  <1> HIDE DEF l
  <1>14. \A e : Bucket(t2, e) = Bucket(tab, e)
    BY <1>12, BucketSame
  <1>15. DOMAIN nx2 = {e \in HKeys : e \in Els(l[Bucket(t2, e)])}
    <2>1. DOMAIN next = {e \in HKeys : e \in Els(ls[Bucket(tab, e)])}
      BY DEF Table
    <2>2. ASSUME NEW e \in HKeys
          PROVE  e \in Els(l[Bucket(t2, e)]) <=> e \in Els(ls[Bucket(tab, e)]) \ {k}
      <3>1. CASE Bucket(tab, e) = b
        BY <1>6, <1>9, <1>13, <1>14, <3>1
      <3>2. CASE Bucket(tab, e) # b
        <4>1. e # k
          BY <3>2 DEF b
        <4> QED
          BY <1>4, <1>13, <1>14, <3>2, <4>1
      <3> QED
        BY <3>1, <3>2
    <2> QED
      BY <1>12, <2>1, <2>2
  <1>16. ASSUME NEW i \in DOMAIN tab PROVE Lined(t2[i], nx2, pv2, l[i]) /\ \A e \in Els(l[i]) : Bucket(t2, e) = i
    <2>1. Lined(tab[i], next, prev, ls[i]) /\ \A e \in Els(ls[i]) : Bucket(tab, e) = i
      BY DEF Table
    <2>2. CASE i # b
      <3>1. \A a \in 1 .. Len(ls[i]) : ls[i][a] \in HKeys /\ ls[i][a] \in DOMAIN next /\ Bucket(tab, ls[i][a]) = i
        BY EntriesIn
      <3>2. \A a \in 1 .. Len(ls[i]) : ls[i][a] # k /\ ls[i][a] # next[k] /\ ls[i][a] # prev[k]
        <4>1. k \in HKeys /\ Bucket(tab, k) = b
          BY <1>3 DEF b
        <4>2. next[k] = NoKey \/ Bucket(tab, next[k]) = b
          BY <1>6, <1>10
        <4>3. prev[k] = NoKey \/ Bucket(tab, prev[k]) = b
          BY <1>6, <1>10
        <4> QED
          BY <1>7, <2>2, <3>1, <4>1, <4>2, <4>3
      <3>3. \A a \in 1 .. Len(ls[i]) : nx2[ls[i][a]] = next[ls[i][a]] /\ pv2[ls[i][a]] = prev[ls[i][a]]
        BY <1>1, <1>7, <3>1, <3>2
      <3>4. Lined(tab[i], nx2, pv2, ls[i])
        BY <2>1, <3>3 DEF Lined
      <3> QED
        BY <1>13, <1>14, <2>1, <2>2, <3>4
    <2>3. CASE i = b
      <3>1. t2[b] = IF prev[s[j]] = NoKey THEN next[s[j]] ELSE tab[b]
        BY <1>1, <1>4, <1>5, <1>7
      <3>2. \A a \in 1 .. Len(s) : a # j =>
              /\ nx2[s[a]] = IF s[a] = prev[s[j]] THEN next[s[j]] ELSE next[s[a]]
              /\ pv2[s[a]] = IF s[a] = next[s[j]] THEN prev[s[j]] ELSE prev[s[a]]
        BY <1>1, <1>5, <1>6, <1>7, <1>8
      <3>7. Lined(t2[b], nx2, pv2, c)
        <4>1. s \in Seq(HKeys) /\ Lined(tab[b], next, prev, s) /\ NoKey \notin HKeys /\ j \in 1 .. Len(s)
          BY <1>6, <1>7
        <4>2. Joined(tab[b], next, prev, s, j, t2[b], nx2, pv2)
          BY <3>1, <3>2 DEF Joined
        <4> QED
          BY <4>1, <4>2, CutLined DEF c
      <3>8. \A e \in Els(c) : Bucket(t2, e) = b
        <4>1. \A e \in Els(s) : Bucket(tab, e) = b
          BY <1>6, <2>1, <2>3
        <4> QED
          BY <1>9, <1>14, <4>1
      <3> QED
        BY <1>13, <2>3, <3>7, <3>8
    <2> QED
      BY <2>2, <2>3
  <1>17. Table(t2, nx2, pv2, l)
    BY <1>2, <1>12, <1>15, <1>16 DEF Table
  <1> QED
    BY <1>12, <1>17 DEF t2, nx2, pv2

\* The walk along a list is defined, one entry at a time.
LEMMA WalkIs ==
  ASSUME HashAssumption
  PROVE  /\ Cardinality(HKeys) \in Nat
         /\ \A n \in 0 .. Cardinality(HKeys), p \in HKeys \cup {NoKey} :
              Walk[n][p] = IF n = 0 \/ p = NoKey THEN <<>> ELSE <<p>> \o Walk[n - 1][next[p]]
  <1>1. PICK c \in Nat : c = Cardinality(HKeys)
    BY FS_CardinalityType DEF HashAssumption
  <1> DEFINE Row(n, g) == [p \in HKeys \cup {NoKey} |->
                             IF n = 0 \/ p = NoKey THEN <<>> ELSE <<p>> \o g[next[p]]]
             Fills(m, f) == f = [n \in 0 .. m |-> Row(n, f[n - 1])]
             M == {m \in 0 .. c : \E f : Fills(m, f)}
  <1>2. \A g, h : Row(0, g) = Row(0, h)
    OBVIOUS
  <1>3. \A m \in 0 .. c : m \in M
    <2> HIDE DEF Row
    <2>1. 0 \in M
      <3> DEFINE f == [n \in 0 .. 0 |-> Row(0, 0)]
      <3>1. \A n \in 0 .. 0 : n = 0 /\ f[n] = Row(n, f[n - 1])
        BY <1>2
      <3>2. f = [n \in 0 .. 0 |-> Row(n, f[n - 1])]
        BY <3>1
      <3>3. Fills(0, f)
        BY <3>2
      <3> HIDE DEF Fills
      <3> QED
        BY <3>3
    <2>2. ASSUME NEW m \in 1 .. c, m - 1 \in M PROVE m \in M
      <3>1. PICK f : f = [n \in 0 .. m - 1 |-> Row(n, f[n - 1])]
        BY <2>2
      <3> DEFINE h == [n \in 0 .. m |-> IF n = m THEN Row(m, f[m - 1]) ELSE f[n]]
      <3>2. ASSUME NEW n \in 0 .. m PROVE h[n] = Row(n, h[n - 1])
        <4>1. CASE n = 0
          <5>1. h[0] = f[0] /\ f[0] = Row(0, f[0 - 1])
            BY <3>1
          <5>2. Row(0, f[0 - 1]) = Row(0, h[0 - 1])
            BY <1>2
          <5> QED
            BY <4>1, <5>1, <5>2
        <4>2. CASE n = m
          <5>1. h[n - 1] = f[m - 1]
            BY <4>2
          <5> QED
            BY <4>2, <5>1
        <4>3. CASE n # 0 /\ n # m
          <5>1. n \in 0 .. m - 1 /\ n - 1 \in 0 .. m /\ h[n - 1] = f[n - 1] /\ h[n] = f[n]
            BY <4>3
          <5>2. f[n] = Row(n, f[n - 1])
            BY <3>1, <5>1
          <5> QED
            BY <5>1, <5>2
        <4> QED
          BY <4>1, <4>2, <4>3
      <3>3. Fills(m, h)
        BY <3>2
      <3> HIDE DEF Fills, h
      <3> QED
        BY <3>3
    <2> HIDE DEF M
    <2> QED
      BY <2>1, <2>2, UpTo
  <1>4. \E f : f = [n \in 0 .. c |-> Row(n, f[n - 1])]
    <2>1. c \in 0 .. c
      OBVIOUS
    <2> HIDE DEF Row
    <2> QED
      BY <1>3, <2>1
  <1>5. Walk = [n \in 0 .. c |-> Row(n, Walk[n - 1])]
    BY <1>1, <1>4 DEF Walk
  <1>6. \A n \in 0 .. c : Walk[n] = Row(n, Walk[n - 1])
    <2> HIDE DEF Row
    <2> QED
      BY <1>5
  <1>7. \A n, g : \A p \in HKeys \cup {NoKey} :
          Row(n, g)[p] = IF n = 0 \/ p = NoKey THEN <<>> ELSE <<p>> \o g[next[p]]
    OBVIOUS
  <1> HIDE DEF Row
  <1> QED
    BY <1>1, <1>6, <1>7

From(s, a) == [x \in 1 .. Len(s) - a + 1 |-> s[a + x - 1]]
LEMMA FromIs ==
  ASSUME NEW s \in Seq(HKeys)
  PROVE  /\ From(s, 1) = s /\ From(s, Len(s) + 1) = <<>>
         /\ \A a \in 1 .. Len(s) : From(s, a) = <<s[a]>> \o From(s, a + 1)
  <1>1. PICK n \in Nat : n = Len(s) /\ s \in [1 .. n -> HKeys]
    OBVIOUS
  <1>2. ASSUME NEW a \in 1 .. n + 1
        PROVE  \E w \in Seq(HKeys) : w = From(s, a) /\ Len(w) = n - a + 1
                                      /\ \A x \in 1 .. n - a + 1 : w[x] = s[a + x - 1]
    <2>1. PICK k \in Nat : k = n - a + 1
      OBVIOUS
    <2>2. PICK w : w = From(s, a)
      OBVIOUS
    <2>3. w = [x \in 1 .. k |-> s[a + x - 1]]
      BY <1>1, <2>1, <2>2 DEF From
    <2>4. \A x \in 1 .. k : a + x - 1 \in 1 .. n
      BY <2>1
    <2>5. w \in [1 .. k -> HKeys]
      BY <1>1, <2>3, <2>4
    <2>6. w \in Seq(HKeys) /\ Len(w) = k
      BY <2>5
    <2> QED
      BY <2>1, <2>2, <2>3, <2>6
  <1>3. From(s, 1) = s
    BY <1>1 DEF From
  <1>4. From(s, n + 1) = <<>>
    <2>1. PICK w \in Seq(HKeys) : w = From(s, n + 1) /\ Len(w) = n - (n + 1) + 1
      BY <1>2
    <2> QED
      BY <2>1, EmptySeq
  <1>5. ASSUME NEW a \in 1 .. n PROVE From(s, a) = <<s[a]>> \o From(s, a + 1)
    <2> DEFINE v == <<s[a]>> \o From(s, a + 1)
    <2>1. PICK u \in Seq(HKeys) : u = From(s, a) /\ Len(u) = n - a + 1
                                  /\ \A x \in 1 .. n - a + 1 : u[x] = s[a + x - 1]
      <3>1. a \in 1 .. n + 1
        OBVIOUS
      <3> QED
        BY <1>2, <3>1
    <2>2. PICK w \in Seq(HKeys) : w = From(s, a + 1) /\ Len(w) = n - a /\ \A x \in 1 .. n - a : w[x] = s[a + x]
      <3>1. a + 1 \in 1 .. n + 1
        OBVIOUS
      <3>2. PICK w \in Seq(HKeys) : w = From(s, a + 1) /\ Len(w) = n - (a + 1) + 1
                                    /\ \A x \in 1 .. n - (a + 1) + 1 : w[x] = s[a + 1 + x - 1]
        BY <1>2, <3>1
      <3>3. n - (a + 1) + 1 = n - a /\ \A x \in 1 .. n - a : a + 1 + x - 1 = a + x
        OBVIOUS
      <3> QED
        BY <3>2, <3>3
    <2>3. s[a] \in HKeys
      BY <1>1
    <2>4. /\ v \in Seq(HKeys) /\ Len(v) = n - a + 1
          /\ v[1] = s[a] /\ \A x \in 2 .. n - a + 1 : v[x] = w[x - 1]
      <3>1. v = Longer(s[a], w)
        BY <2>2 DEF Longer
      <3>2. /\ Longer(s[a], w) \in Seq(HKeys) /\ Len(Longer(s[a], w)) = Len(w) + 1
            /\ Longer(s[a], w)[1] = s[a] /\ \A i \in 2 .. Len(w) + 1 : Longer(s[a], w)[i] = w[i - 1]
        BY <2>3, LongerIs
      <3> QED
        BY <2>2, <3>1, <3>2
    <2> HIDE DEF v
    <2>5. \A x \in 1 .. n - a + 1 : u[x] = v[x]
      <3> SUFFICES ASSUME NEW x \in 1 .. n - a + 1 PROVE u[x] = v[x]
        OBVIOUS
      <3>1. CASE x = 1
        BY <2>1, <2>4, <3>1
      <3>2. CASE x # 1
        <4>1. x - 1 \in 1 .. n - a /\ x \in 2 .. n - a + 1 /\ a + (x - 1) = a + x - 1
          BY <3>2
        <4> QED
          BY <2>1, <2>2, <2>4, <4>1
      <3> QED
        BY <3>1, <3>2
    <2>6. u = v
      BY <2>1, <2>4, <2>5, SeqEqual
    <2> QED
      BY <2>1, <2>6 DEF v
  <1> QED
    BY <1>1, <1>3, <1>4, <1>5

\* A walk over all of a bucket gives its list.
LEMMA ListIs ==
  ASSUME HashAssumption, NEW ls, Table(tab, next, prev, ls)
  PROVE  \A i \in DOMAIN tab : List(i) = ls[i]
  <1>1. PICK c \in Nat : c = Cardinality(HKeys)
    BY FS_CardinalityType DEF HashAssumption
  <1>2. \A n \in 0 .. c, p \in HKeys \cup {NoKey} :
          Walk[n][p] = IF n = 0 \/ p = NoKey THEN <<>> ELSE <<p>> \o Walk[n - 1][next[p]]
    BY <1>1, WalkIs
  <1>3. NoKey \notin HKeys
    BY DEF HashAssumption
  <1> SUFFICES ASSUME NEW i \in DOMAIN tab PROVE List(i) = ls[i]
    OBVIOUS
  <1>4. PICK s \in Seq(HKeys) : s = ls[i]
    BY EntriesIn
  <1>5. Lined(tab[i], next, prev, s)
    BY <1>4 DEF Table
  <1>6. PICK m \in Nat : m = Len(s)
    OBVIOUS
  <1>7. m <= c
    <2>1. IsFiniteSet(HKeys) /\ s \in [1 .. m -> HKeys]
      BY <1>6 DEF HashAssumption
    <2>2. s \in Injection(1 .. m, HKeys)
      BY <1>5, <1>6, <2>1 DEF Injection, IsInjective, Lined
    <2>3. Cardinality(1 .. m) <= Cardinality(HKeys)
      BY <2>1, <2>2, FS_Injection
    <2>4. Cardinality(1 .. m) = m
      BY FS_Interval
    <2> QED
      BY <1>1, <2>3, <2>4
  <1> DEFINE M == {n \in 0 .. c : \A a \in 1 .. m : m - a + 1 <= n => Walk[n][s[a]] = From(s, a)}
  <1>8. \A n \in 0 .. c : n \in M
    <2>1. 0 \in M
      BY <1>6
    <2>2. ASSUME NEW n \in 1 .. c, n - 1 \in M PROVE n \in M
      <3> SUFFICES \A a \in 1 .. m : m - a + 1 <= n => Walk[n][s[a]] = From(s, a)
        BY <2>2
      <3>1. SUFFICES ASSUME NEW a \in 1 .. m, m - a + 1 <= n PROVE Walk[n][s[a]] = From(s, a)
        OBVIOUS
      <3>2. s[a] \in HKeys /\ n \in 0 .. c /\ n - 1 \in 0 .. c /\ n # 0
        BY <1>6
      <3>3. Walk[n][s[a]] = <<s[a]>> \o Walk[n - 1][next[s[a]]]
        BY <1>2, <1>3, <3>2
      <3>4. Walk[n - 1][next[s[a]]] = From(s, a + 1)
        <4>1. CASE a = m
          <5>1. next[s[a]] = NoKey
            BY <1>5, <1>6, <4>1 DEF Lined
          <5>2. Walk[n - 1][NoKey] = <<>>
            BY <1>2, <3>2
          <5>3. From(s, a + 1) = <<>>
            BY <1>6, <4>1, FromIs
          <5> QED
            BY <5>1, <5>2, <5>3
        <4>2. CASE a # m
          <5>1. next[s[a]] = s[a + 1] /\ a + 1 \in 1 .. m /\ m - (a + 1) + 1 <= n - 1
            BY <1>5, <1>6, <3>1, <4>2 DEF Lined
          <5> QED
            BY <2>2, <5>1
        <4> QED
          BY <4>1, <4>2
      <3>5. From(s, a) = <<s[a]>> \o From(s, a + 1)
        BY <1>6, FromIs
      <3> QED
        BY <3>3, <3>4, <3>5
    <2> HIDE DEF M
    <2> QED
      BY <2>1, <2>2, UpTo
  <1>9. List(i) = Walk[c][tab[i]]
    BY <1>1 DEF List
  <1>10. CASE m = 0
    <2>1. tab[i] = NoKey /\ s = <<>>
      <3>1. tab[i] = NoKey
        BY <1>5, <1>6, <1>10 DEF Lined
      <3>2. s = <<>>
        BY <1>6, <1>10, EmptySeq
      <3> QED
        BY <3>1, <3>2
    <2>2. Walk[c][NoKey] = <<>>
      <3>1. c \in 0 .. c /\ NoKey \in HKeys \cup {NoKey}
        OBVIOUS
      <3> QED
        BY <1>2, <3>1
    <2> QED
      BY <1>4, <1>9, <2>1, <2>2
  <1>11. CASE m # 0
    <2>1. tab[i] = s[1] /\ 1 \in 1 .. m /\ m - 1 + 1 <= c /\ c \in 0 .. c
      BY <1>5, <1>6, <1>7, <1>11 DEF Lined
    <2>2. c \in M
      BY <1>8, <2>1
    <2>3. Walk[c][s[1]] = From(s, 1)
      BY <2>1, <2>2
    <2>4. From(s, 1) = s
      BY FromIs
    <2> QED
      BY <1>4, <1>9, <2>1, <2>3, <2>4
  <1> QED
    BY <1>10, <1>11

\* A key is found if and only if it is in the table.
LEMMA EntryIs ==
  ASSUME HashAssumption, NEW ls, Table(tab, next, prev, ls), NEW k \in HKeys
  PROVE  Entry(k) = IF k \in DOMAIN next THEN k ELSE NoKey
  <1>1. PICK n \in Nat \ {0} : DOMAIN tab = 0 .. n - 1
    BY DEF Table
  <1>2. Bucket(tab, k) \in DOMAIN tab
    BY <1>1, BucketIs
  <1>3. List(Bucket(tab, k)) = ls[Bucket(tab, k)] /\ ls[Bucket(tab, k)] \in Seq(HKeys)
    BY <1>2, ListIs, EntriesIn
  <1>4. k \in DOMAIN next <=> k \in Els(ls[Bucket(tab, k)])
    BY DEF Table
  <1>5. Range(ls[Bucket(tab, k)]) = Els(ls[Bucket(tab, k)])
    <2>1. DOMAIN ls[Bucket(tab, k)] = 1 .. Len(ls[Bucket(tab, k)])
      BY <1>3
    <2> QED
      BY <2>1 DEF Range, Els
  <1> QED
    BY <1>3, <1>4, <1>5 DEF Entry

\* Lists one after the other have the entries of both, once each.
LEMMA ConcatIs ==
  ASSUME NEW s \in Seq(HKeys), NEW u \in Seq(HKeys),
         \A a, d \in 1 .. Len(s) : s[a] = s[d] => a = d,
         \A a, d \in 1 .. Len(u) : u[a] = u[d] => a = d,
         Els(s) \cap Els(u) = {}
  PROVE  /\ s \o u \in Seq(HKeys) /\ Els(s \o u) = Els(s) \cup Els(u)
         /\ \A a, d \in 1 .. Len(s \o u) : (s \o u)[a] = (s \o u)[d] => a = d
  <1>1. PICK m \in Nat : m = Len(s)
    OBVIOUS
  <1>2. PICK n \in Nat : n = Len(u)
    OBVIOUS
  <1>3. PICK w \in Seq(HKeys) : w = s \o u
    <2>1. s \o u \in Seq(HKeys)
      OBVIOUS
    <2> QED
      BY <2>1
  <1>4. Len(w) = m + n /\ \A a \in 1 .. m + n : w[a] = IF a <= m THEN s[a] ELSE u[a - m]
    BY <1>1, <1>2, <1>3
  <1>5. \A a \in 1 .. m : s[a] \in Els(s)
    BY <1>1 DEF Els
  <1>6. \A a \in 1 .. n : u[a] \in Els(u)
    BY <1>2 DEF Els
  <1>7. ASSUME NEW e \in Els(w) PROVE e \in Els(s) \cup Els(u)
    <2>1. PICK a \in 1 .. m + n : e = w[a]
      BY <1>4, <1>7 DEF Els
    <2>2. CASE a <= m
      BY <1>4, <1>5, <2>1, <2>2
    <2>3. CASE ~(a <= m)
      <3>1. a - m \in 1 .. n /\ e = u[a - m]
        BY <1>4, <2>1, <2>3
      <3> QED
        BY <1>6, <3>1
    <2> QED
      BY <2>2, <2>3
  <1>8. ASSUME NEW e \in Els(s) PROVE e \in Els(w)
    <2>1. PICK a \in 1 .. m : e = s[a]
      BY <1>1, <1>8 DEF Els
    <2>2. a \in 1 .. m + n /\ w[a] = e
      BY <1>4, <2>1
    <2> QED
      BY <1>4, <2>2 DEF Els
  <1>9. ASSUME NEW e \in Els(u) PROVE e \in Els(w)
    <2>1. PICK a \in 1 .. n : e = u[a]
      BY <1>2, <1>9 DEF Els
    <2>2. m + a \in 1 .. m + n /\ ~(m + a <= m) /\ m + a - m = a
      OBVIOUS
    <2>3. w[m + a] = e
      BY <1>4, <2>1, <2>2
    <2> QED
      BY <1>4, <2>2, <2>3 DEF Els
  <1>10. ASSUME NEW a \in 1 .. m + n, NEW d \in 1 .. m + n, w[a] = w[d] PROVE a = d
    <2>1. CASE a <= m /\ d <= m
      BY <1>1, <1>4, <1>10, <2>1
    <2>2. CASE ~(a <= m) /\ ~(d <= m)
      <3>1. a - m \in 1 .. n /\ d - m \in 1 .. n /\ u[a - m] = u[d - m]
        BY <1>4, <1>10, <2>2
      <3>2. a - m = d - m
        BY <1>2, <3>1
      <3> QED
        BY <3>2
    <2>3. CASE a <= m /\ ~(d <= m)
      <3>1. a \in 1 .. m /\ d - m \in 1 .. n /\ s[a] = u[d - m]
        BY <1>4, <1>10, <2>3
      <3> QED
        BY <1>5, <1>6, <3>1
    <2>4. CASE ~(a <= m) /\ d <= m
      <3>1. d \in 1 .. m /\ a - m \in 1 .. n /\ s[d] = u[a - m]
        BY <1>4, <1>10, <2>4
      <3> QED
        BY <1>5, <1>6, <3>1
    <2> QED
      BY <2>1, <2>2, <2>3, <2>4
  <1>11. Els(w) = Els(s) \cup Els(u)
    BY <1>7, <1>8, <1>9
  <1> QED
    BY <1>3, <1>4, <1>10, <1>11

LEMMA InOrderIs ==
  ASSUME NEW n \in Nat, n = Size(tab)
  PROVE  \A i \in 0 .. n : InOrder[i] = IF i = 0 THEN <<>> ELSE InOrder[i - 1] \o List(i - 1)
  <1> DEFINE Row(i, g) == IF i = 0 THEN <<>> ELSE g \o List(i - 1)
             Fills(m, f) == f = [i \in 0 .. m |-> Row(i, f[i - 1])]
             M == {m \in 0 .. n : \E f : Fills(m, f)}
  <1>1. \A g, h : Row(0, g) = Row(0, h)
    OBVIOUS
  <1>2. \A m \in 0 .. n : m \in M
    <2> HIDE DEF Row
    <2>1. 0 \in M
      <3> DEFINE f == [i \in 0 .. 0 |-> Row(0, 0)]
      <3>1. \A i \in 0 .. 0 : i = 0 /\ f[i] = Row(i, f[i - 1])
        BY <1>1
      <3>2. Fills(0, f)
        BY <3>1
      <3> HIDE DEF Fills
      <3> QED
        BY <3>2
    <2>2. ASSUME NEW m \in 1 .. n, m - 1 \in M PROVE m \in M
      <3>1. PICK f : f = [i \in 0 .. m - 1 |-> Row(i, f[i - 1])]
        BY <2>2
      <3> DEFINE h == [i \in 0 .. m |-> IF i = m THEN Row(m, f[m - 1]) ELSE f[i]]
      <3>2. ASSUME NEW i \in 0 .. m PROVE h[i] = Row(i, h[i - 1])
        <4>1. CASE i = 0
          <5>1. h[0] = f[0] /\ f[0] = Row(0, f[0 - 1])
            BY <3>1
          <5>2. Row(0, f[0 - 1]) = Row(0, h[0 - 1])
            BY <1>1
          <5> QED
            BY <4>1, <5>1, <5>2
        <4>2. CASE i = m
          <5>1. h[i - 1] = f[m - 1]
            BY <4>2
          <5> QED
            BY <4>2, <5>1
        <4>3. CASE i # 0 /\ i # m
          <5>1. i \in 0 .. m - 1 /\ i - 1 \in 0 .. m /\ h[i - 1] = f[i - 1] /\ h[i] = f[i]
            BY <4>3
          <5>2. f[i] = Row(i, f[i - 1])
            BY <3>1, <5>1
          <5> QED
            BY <5>1, <5>2
        <4> QED
          BY <4>1, <4>2, <4>3
      <3>3. Fills(m, h)
        BY <3>2
      <3> HIDE DEF Fills, h
      <3> QED
        BY <3>3
    <2> HIDE DEF M
    <2> QED
      BY <2>1, <2>2, UpTo
  <1>3. \E f : f = [i \in 0 .. n |-> Row(i, f[i - 1])]
    <2>1. n \in 0 .. n
      OBVIOUS
    <2> HIDE DEF Row
    <2> QED
      BY <1>2, <2>1
  <1>4. InOrder = [i \in 0 .. n |-> Row(i, InOrder[i - 1])]
    BY <1>3 DEF InOrder
  <1>5. \A i \in 0 .. n : InOrder[i] = Row(i, InOrder[i - 1])
    <2> HIDE DEF Row
    <2> QED
      BY <1>4
  <1> QED
    BY <1>5

\* The order of a rehash has every entry once.
LEMMA OrderIs ==
  ASSUME HashAssumption, NEW ls, Table(tab, next, prev, ls)
  PROVE  /\ Order \in Seq(HKeys) /\ Els(Order) = DOMAIN next
         /\ \A a, d \in 1 .. Len(Order) : Order[a] = Order[d] => a = d
  <1>1. PICK n \in Nat \ {0} : DOMAIN tab = 0 .. n - 1
    BY DEF Table
  <1>2. n = Size(tab)
    <2>1. Cardinality(0 .. n - 1) = n
      BY FS_Interval
    <2> QED
      BY <1>1, <2>1 DEF Size
  <1> DEFINE Inj(s) == \A a, d \in 1 .. Len(s) : s[a] = s[d] => a = d
             Sofar(i) == {k \in HKeys : \E x \in 0 .. i - 1 : k \in Els(ls[x])}
             Good(i) == InOrder[i] \in Seq(HKeys) /\ Els(InOrder[i]) = Sofar(i) /\ Inj(InOrder[i])
             M == {i \in 0 .. n : Good(i)}
  <1>3. \A i \in 0 .. n : InOrder[i] = IF i = 0 THEN <<>> ELSE InOrder[i - 1] \o List(i - 1)
    BY <1>2, InOrderIs
  <1>4. \A i \in 0 .. n : i \in M
    <2>1. 0 \in M
      <3>1. InOrder[0] = <<>>
        BY <1>3
      <3>2. InOrder[0] \in Seq(HKeys) /\ Len(InOrder[0]) = 0
        BY <3>1, EmptySeq
      <3>3. Els(InOrder[0]) = {}
        BY <3>2 DEF Els
      <3>5. Sofar(0) = {}
        OBVIOUS
      <3>4. Inj(InOrder[0])
        BY <3>2
      <3> HIDE DEF Inj, Sofar
      <3> QED
        BY <3>2, <3>3, <3>4, <3>5, SMTT(30)
    <2>2. ASSUME NEW i \in 1 .. n, i - 1 \in M PROVE i \in M
      <3>1. Good(i - 1)
        BY <2>2
      <3>2. PICK u \in Seq(HKeys) : u = ls[i - 1]
        BY <1>1, EntriesIn
      <3>3. InOrder[i] = InOrder[i - 1] \o u
        <4>1. i - 1 \in DOMAIN tab /\ i \in 0 .. n /\ i # 0
          BY <1>1
        <4>2. List(i - 1) = u
          BY <3>2, <4>1, ListIs
        <4> QED
          BY <1>3, <4>1, <4>2
      <3>4. Inj(u)
        <4>1. i - 1 \in DOMAIN tab
          BY <1>1
        <4>2. Lined(tab[i - 1], next, prev, u)
          BY <3>2, <4>1 DEF Table
        <4> QED
          BY <4>2 DEF Lined
      <3>5. Els(InOrder[i - 1]) \cap Els(u) = {}
        <4> SUFFICES ASSUME NEW k, k \in Els(InOrder[i - 1]), k \in Els(u) PROVE FALSE
          OBVIOUS
        <4>1. PICK x \in 0 .. i - 2 : k \in Els(ls[x])
          BY <3>1
        <4>2. Bucket(tab, k) = x /\ Bucket(tab, k) = i - 1
          BY <1>1, <3>2, <4>1 DEF Table
        <4> QED
          BY <4>2
      <3>6. PICK s \in Seq(HKeys) : s = InOrder[i - 1] /\ Els(s) = Sofar(i - 1) /\ Inj(s)
        BY <3>1
      <3>7. s \o u \in Seq(HKeys) /\ Els(s \o u) = Els(s) \cup Els(u) /\ Inj(s \o u)
        BY <3>4, <3>5, <3>6, ConcatIs
      <3>8. Sofar(i) = Sofar(i - 1) \cup Els(u)
        <4>1. Els(u) \subseteq HKeys
          BY DEF Els
        <4>2. \A k : (\E x \in 0 .. i - 1 : k \in Els(ls[x]))
                     <=> (\E x \in 0 .. i - 1 - 1 : k \in Els(ls[x])) \/ k \in Els(ls[i - 1])
          <5>1. \A x : x \in 0 .. i - 1 <=> x \in 0 .. i - 1 - 1 \/ x = i - 1
            OBVIOUS
          <5> QED
            BY <5>1, Zenon
        <4> QED
          BY <3>2, <4>1, <4>2
      <3>9. InOrder[i] \in Seq(HKeys) /\ Els(InOrder[i]) = Sofar(i) /\ Inj(InOrder[i])
        <4>1. InOrder[i] = s \o u
          BY <3>3, <3>6
        <4>2. Els(s \o u) = Sofar(i)
          BY <3>6, <3>7, <3>8
        <4> HIDE DEF Inj, Sofar
        <4> QED
          BY <3>7, <4>1, <4>2
      <3> HIDE DEF Good
      <3> QED
        BY <3>9 DEF Good
    <2> HIDE DEF M
    <2> QED
      BY <2>1, <2>2, UpTo
  <1>5. Good(n)
    <2>1. n \in 0 .. n
      OBVIOUS
    <2> HIDE DEF Good
    <2> QED
      BY <1>4, <2>1
  <1>6. Order = InOrder[n]
    BY <1>2 DEF Order
  <1>7. Sofar(n) = DOMAIN next
    <2>1. DOMAIN next = {k \in HKeys : k \in Els(ls[Bucket(tab, k)])}
      BY DEF Table
    <2>2. \A k \in HKeys : Bucket(tab, k) \in 0 .. n - 1
      BY <1>1, BucketIs
    <2>3. \A x \in 0 .. n - 1 : \A k \in Els(ls[x]) : Bucket(tab, k) = x
      BY <1>1 DEF Table
    <2> QED
      BY <2>1, <2>2, <2>3
  <1> QED
    BY <1>5, <1>6, <1>7

\* A table without entries.
LEMMA EmptyTable ==
  ASSUME NEW t, NEW m \in Nat \ {0}, t = [i \in 0 .. m - 1 |-> NoKey],
         HashAssumption
  PROVE  Table(t, <<>>, <<>>, [i \in 0 .. m - 1 |-> <<>>])
  <1> DEFINE l == [i \in 0 .. m - 1 |-> <<>>]
  <1>1. <<>> \in Seq(HKeys) /\ Len(<<>>) = 0 /\ DOMAIN <<>> = {}
    BY EmptySeq
  <1>2. PICK e : e = <<>>
    OBVIOUS
  <1>3. Els(e) = {}
    BY <1>1, <1>2 DEF Els
  <1>4. DOMAIN t = 0 .. m - 1 /\ t \in [DOMAIN t -> HKeys \cup {NoKey}] /\ l \in [DOMAIN t -> Seq(HKeys)]
    BY <1>1
  <1>5. \A i \in DOMAIN t : Lined(t[i], <<>>, <<>>, l[i]) /\ Els(l[i]) = {}
    BY <1>1, <1>2, <1>3 DEF Lined
  <1>6. {k \in HKeys : k \in Els(l[Bucket(t, k)])} = {}
    <2> SUFFICES ASSUME NEW k \in HKeys, k \in Els(l[Bucket(t, k)]) PROVE FALSE
      OBVIOUS
    <2>1. Bucket(t, k) \in DOMAIN t
      BY <1>4, BucketIs
    <2> QED
      BY <1>5, <2>1
  <1> HIDE DEF l
  <1>7. Table(t, <<>>, <<>>, l)
    BY <1>1, <1>4, <1>5, <1>6 DEF Table
  <1> QED
    BY <1>7 DEF l

NewTab == [tab |-> [i \in 0 .. 2 * Size(tab) - 1 |-> NoKey], next |-> <<>>, prev |-> <<>>]

LEMMA RefilledIs ==
  ASSUME NEW c \in Nat, c = Len(Order)
  PROVE  \A n \in 0 .. c : Refilled[n] = IF n = 0 THEN NewTab ELSE Linked(Refilled[n - 1], Order[n])
  <1> DEFINE Row(n, g) == IF n = 0 THEN NewTab ELSE Linked(g, Order[n])
             Fills(m, f) == f = [n \in 0 .. m |-> Row(n, f[n - 1])]
             M == {m \in 0 .. c : \E f : Fills(m, f)}
  <1>1. \A g, h : Row(0, g) = Row(0, h)
    OBVIOUS
  <1>2. \A m \in 0 .. c : m \in M
    <2> HIDE DEF Row
    <2>1. 0 \in M
      <3> DEFINE f == [n \in 0 .. 0 |-> Row(0, 0)]
      <3>1. \A n \in 0 .. 0 : n = 0 /\ f[n] = Row(n, f[n - 1])
        BY <1>1
      <3>2. Fills(0, f)
        BY <3>1
      <3> HIDE DEF Fills
      <3> QED
        BY <3>2
    <2>2. ASSUME NEW m \in 1 .. c, m - 1 \in M PROVE m \in M
      <3>1. PICK f : f = [n \in 0 .. m - 1 |-> Row(n, f[n - 1])]
        BY <2>2
      <3> DEFINE h == [n \in 0 .. m |-> IF n = m THEN Row(m, f[m - 1]) ELSE f[n]]
      <3>2. ASSUME NEW n \in 0 .. m PROVE h[n] = Row(n, h[n - 1])
        <4>1. CASE n = 0
          <5>1. h[0] = f[0] /\ f[0] = Row(0, f[0 - 1])
            BY <3>1, SMTT(30)
          <5>2. Row(0, f[0 - 1]) = Row(0, h[0 - 1])
            BY <1>1
          <5> QED
            BY <4>1, <5>1, <5>2
        <4>2. CASE n = m
          <5>1. h[n - 1] = f[m - 1]
            BY <4>2
          <5> QED
            BY <4>2, <5>1
        <4>3. CASE n # 0 /\ n # m
          <5>1. n \in 0 .. m - 1 /\ n - 1 \in 0 .. m /\ h[n - 1] = f[n - 1] /\ h[n] = f[n]
            BY <4>3
          <5>2. f[n] = Row(n, f[n - 1])
            BY <3>1, <5>1
          <5> QED
            BY <5>1, <5>2
        <4> QED
          BY <4>1, <4>2, <4>3
      <3>3. Fills(m, h)
        BY <3>2
      <3> HIDE DEF Fills, h
      <3> QED
        BY <3>3
    <2> HIDE DEF M
    <2> QED
      BY <2>1, <2>2, UpTo
  <1>3. \E f : f = [n \in 0 .. c |-> Row(n, f[n - 1])]
    <2>1. c \in 0 .. c
      OBVIOUS
    <2> HIDE DEF Row
    <2> QED
      BY <1>2, <2>1
  <1>4. Refilled = [n \in 0 .. c |-> Row(n, Refilled[n - 1])]
    BY <1>3, Zenon DEF Refilled, NewTab
  <1>5. \A n \in 0 .. c : Refilled[n] = Row(n, Refilled[n - 1])
    <2> HIDE DEF Row
    <2> QED
      BY <1>4
  <1> QED
    BY <1>5

\* A rehash keeps the entries.
LEMMA RehashedIs ==
  ASSUME HashAssumption, NEW ls, Table(tab, next, prev, ls)
  PROVE  (\E l : Table(Rehashed.tab, Rehashed.next, Rehashed.prev, l)) /\ DOMAIN Rehashed.next = DOMAIN next
  <1>1. PICK m \in Nat \ {0} : DOMAIN tab = 0 .. m - 1
    BY DEF Table
  <1>2. Size(tab) = m
    <2>1. Cardinality(0 .. m - 1) = m
      BY FS_Interval
    <2> QED
      BY <1>1, <2>1 DEF Size
  <1>3. /\ Order \in Seq(HKeys) /\ Els(Order) = DOMAIN next
        /\ \A a, d \in 1 .. Len(Order) : Order[a] = Order[d] => a = d
    BY OrderIs
  <1>4. PICK c \in Nat : c = Len(Order)
    BY <1>3
  <1>5. \A n \in 0 .. c : Refilled[n] = IF n = 0 THEN NewTab ELSE Linked(Refilled[n - 1], Order[n])
    BY <1>4, RefilledIs
  <1> DEFINE Good(n) == /\ \E l : Table(Refilled[n].tab, Refilled[n].next, Refilled[n].prev, l)
                        /\ DOMAIN Refilled[n].next = {Order[x] : x \in 1 .. n}
             M == {n \in 0 .. c : Good(n)}
  <1>6. \A n \in 0 .. c : n \in M
    <2>1. Good(0)
      <3>1. Refilled[0] = NewTab
        BY <1>5
      <3>2. 2 * m \in Nat \ {0} /\ NewTab.tab = [i \in 0 .. 2 * m - 1 |-> NoKey]
            /\ NewTab.next = <<>> /\ NewTab.prev = <<>>
        BY <1>2 DEF NewTab
      <3>3. Table(NewTab.tab, <<>>, <<>>, [i \in 0 .. 2 * m - 1 |-> <<>>])
        BY <3>2, EmptyTable
      <3>4. DOMAIN <<>> = {} /\ {Order[x] : x \in 1 .. 0} = {}
        OBVIOUS
      <3> QED
        BY <3>1, <3>2, <3>3, <3>4
    <2>2. ASSUME NEW n \in 1 .. c, Good(n - 1) PROVE Good(n)
      <3>1. PICK st : st = Refilled[n - 1]
        OBVIOUS
      <3>2. PICK l : Table(st.tab, st.next, st.prev, l)
        BY <2>2, <3>1
      <3>3. PICK k \in HKeys : k = Order[n]
        BY <1>3, <1>4
      <3>4. DOMAIN st.next = {Order[x] : x \in 1 .. n - 1}
        BY <2>2, <3>1
      <3>5. k \notin DOMAIN st.next
        <4>1. \A x \in 1 .. n - 1 : x \in 1 .. c /\ x # n
          OBVIOUS
        <4> QED
          BY <1>3, <1>4, <3>3, <3>4, <4>1
      <3>6. /\ Table(Linked(st, k).tab, Linked(st, k).next, Linked(st, k).prev,
                     [l EXCEPT ![Bucket(st.tab, k)] = Longer(k, @)])
            /\ DOMAIN Linked(st, k).next = DOMAIN st.next \cup {k}
        BY <3>2, <3>5, LinkedKeeps
      <3>7. Refilled[n] = Linked(st, k)
        BY <1>5, <3>1, <3>3
      <3>8. {Order[x] : x \in 1 .. n} = {Order[x] : x \in 1 .. n - 1} \cup {k}
        BY <3>3
      <3> HIDE DEF Linked
      <3> QED
        BY <3>4, <3>6, <3>7, <3>8
    <2>3. 0 \in M
      BY <2>1
    <2>4. ASSUME NEW n \in 1 .. c, n - 1 \in M PROVE n \in M
      <3> HIDE DEF Good
      <3> QED
        BY <2>2, <2>4
    <2> HIDE DEF M
    <2> QED
      BY <2>3, <2>4, UpTo
  <1>7. Good(c)
    <2>1. c \in 0 .. c
      OBVIOUS
    <2> HIDE DEF Good
    <2> QED
      BY <1>6, <2>1
  <1>8. {Order[x] : x \in 1 .. c} = DOMAIN next
    BY <1>3, <1>4 DEF Els
  <1> QED
    BY <1>4, <1>7, <1>8 DEF Rehashed

LEMMA SmallestIs ==
  ASSUME NEW S, S \subseteq Nat, S # {}
  PROVE  Min(S) \in S /\ \A x \in S : Min(S) <= x
  <1>1. PICK k \in S : \A m \in S : ~(<<m, k>> \in OpToRel(<, Nat))
    BY NatLessThanWellFounded, WFMin
  <1>2. ASSUME NEW m \in S PROVE k =< m
    <2>1. m \in Nat /\ k \in Nat /\ <<m, k>> \in Nat \X Nat /\ <<m, k>>[1] = m /\ <<m, k>>[2] = k
      OBVIOUS
    <2>2. m < k => <<m, k>> \in OpToRel(<, Nat)
      BY <2>1 DEF OpToRel
    <2>3. ~(m < k)
      BY <1>1, <2>2, Zenon
    <2> QED
      BY <2>1, <2>3
  <1>3. PICK m \in S : m = Min(S) /\ \A x \in S : m =< x
    BY <1>2 DEF Min
  <1> QED
    BY <1>3

\* The entries of the first i buckets, and those of a list before its place a.
Below(i) == {k \in DOMAIN next : Bucket(tab, k) < i}
Passed(s, a) == {s[x] : x \in 1 .. a - 1}

\* An iteration has been to the entries before its cursor, and to no other.
CursorAt(ls, c) ==
  \/ c = [at |-> NoKey, seen |-> DOMAIN next]
  \/ \E i \in DOMAIN tab : \E a \in 1 .. Len(ls[i]) :
       c = [at |-> ls[i][a], seen |-> Below(i) \cup Passed(ls[i], a)]

HashInv ==
  /\ value \in [DOMAIN next -> HValues] /\ nelem = Cardinality(DOMAIN next)
  /\ \E ls : Table(tab, next, prev, ls) /\ (cursor = NoCursor \/ CursorAt(ls, cursor))

\* The search for the first entry goes by empty buckets only.
LEMMA FirstFromIs ==
  ASSUME HashAssumption, NEW ls, Table(tab, next, prev, ls), NEW i \in Nat
  PROVE  CursorAt(ls, [at |-> FirstFrom(i), seen |-> Below(i)])
         /\ (Below(i) # DOMAIN next => FirstFrom(i) # NoKey)
  <1> DEFINE full == {j \in DOMAIN tab : j >= i /\ tab[j] # NoKey}
  <1>1. PICK n \in Nat \ {0} : DOMAIN tab = 0 .. n - 1
    BY DEF Table
  <1>2. \A k \in DOMAIN next : k \in HKeys /\ Bucket(tab, k) \in DOMAIN tab /\ tab[Bucket(tab, k)] # NoKey
    <2> SUFFICES ASSUME NEW k \in DOMAIN next
                 PROVE  k \in HKeys /\ Bucket(tab, k) \in DOMAIN tab /\ tab[Bucket(tab, k)] # NoKey
      OBVIOUS
    <2>1. k \in HKeys /\ k \in Els(ls[Bucket(tab, k)])
      BY DEF Table
    <2>2. Bucket(tab, k) \in DOMAIN tab
      BY <1>1, <2>1, BucketIs
    <2>3. PICK j \in DOMAIN tab : j = Bucket(tab, k)
      BY <2>2
    <2>4. Lined(tab[j], next, prev, ls[j]) /\ ls[j] \in Seq(HKeys)
      BY DEF Table
    <2>5. Len(ls[j]) # 0
      BY <2>1, <2>3, <2>4 DEF Els
    <2>6. ls[j][1] \in HKeys
      BY <2>4, <2>5
    <2> QED
      BY <2>1, <2>2, <2>3, <2>4, <2>5, <2>6 DEF Lined, HashAssumption
  <1>3. CASE full = {}
    <2>1. FirstFrom(i) = NoKey
      BY <1>3 DEF FirstFrom
    <2>2. \A k \in DOMAIN next : Bucket(tab, k) < i
      BY <1>1, <1>2, <1>3
    <2>3. Below(i) = DOMAIN next
      BY <2>2 DEF Below
    <2> QED
      BY <2>1, <2>3 DEF CursorAt
  <1>4. CASE full # {}
    <2>1. PICK j \in full : j = Min(full) /\ \A x \in full : j <= x
      <3>1. full \subseteq Nat
        BY <1>1
      <3> HIDE DEF full
      <3> QED
        BY <1>4, <3>1, SmallestIs
    <2>2. FirstFrom(i) = tab[j]
      BY <1>4, <2>1 DEF FirstFrom
    <2>3. Lined(tab[j], next, prev, ls[j]) /\ ls[j] \in Seq(HKeys)
      BY DEF Table
    <2>4. tab[j] = ls[j][1] /\ Len(ls[j]) # 0 /\ Len(ls[j]) \in Nat
      BY <2>3 DEF Lined
    <2>5. Below(j) = Below(i)
      <3>1. \A k \in DOMAIN next : Bucket(tab, k) < j <=> Bucket(tab, k) < i
        <4> SUFFICES ASSUME NEW k \in DOMAIN next PROVE Bucket(tab, k) < j <=> Bucket(tab, k) < i
          OBVIOUS
        <4>1. PICK b \in 0 .. n - 1 : b = Bucket(tab, k) /\ tab[b] # NoKey
          BY <1>1, <1>2
        <4>2. b >= i => b \in full
          BY <1>1, <4>1
        <4>3. b >= i => j <= b
          BY <2>1, <4>2
        <4>4. j \in Nat /\ j >= i
          BY <1>1
        <4> QED
          BY <4>1, <4>3, <4>4
      <3> QED
        BY <3>1 DEF Below
    <2>6. Passed(ls[j], 1) = {}
      BY DEF Passed
    <2>7. 1 \in 1 .. Len(ls[j]) /\ [at |-> FirstFrom(i), seen |-> Below(i)]
                                   = [at |-> ls[j][1], seen |-> Below(j) \cup Passed(ls[j], 1)]
      <3>1. Below(j) \cup Passed(ls[j], 1) = Below(i)
        BY <2>5, <2>6
      <3>2. FirstFrom(i) = ls[j][1]
        BY <2>2, <2>4
      <3>3. 1 \in 1 .. Len(ls[j])
        BY <2>4
      <3> QED
        BY <3>1, <3>2, <3>3
    <2>8. FirstFrom(i) # NoKey
      BY <2>1, <2>2
    <2> QED
      BY <2>7, <2>8 DEF CursorAt
  <1> QED
    BY <1>3, <1>4

LEMMA NextIs ==
  ASSUME HashAssumption, NEW ls, Table(tab, next, prev, ls), cursor.at # NoKey,
         cursor = NoCursor \/ CursorAt(ls, cursor)
  PROVE  CursorAt(ls, [at |-> NextEntry(cursor.at), seen |-> cursor.seen \cup {cursor.at}])
  <1>1. PICK i \in DOMAIN tab : \E a \in 1 .. Len(ls[i]) :
          cursor = [at |-> ls[i][a], seen |-> Below(i) \cup Passed(ls[i], a)]
    BY DEF CursorAt, NoCursor
  <1>2. PICK a \in 1 .. Len(ls[i]) : cursor = [at |-> ls[i][a], seen |-> Below(i) \cup Passed(ls[i], a)]
    BY <1>1
  <1>3. PICK s \in Seq(HKeys) : s = ls[i]
    BY EntriesIn
  <1>4. PICK m \in Nat : m = Len(s)
    OBVIOUS
  <1>5. Lined(tab[i], next, prev, s) /\ Bucket(tab, s[a]) = i /\ a \in 1 .. m /\ s[a] \in HKeys
    <2>1. Bucket(tab, ls[i][a]) = i /\ ls[i][a] \in HKeys
      BY EntriesIn
    <2>2. Lined(tab[i], next, prev, ls[i])
      BY DEF Table
    <2> QED
      BY <1>3, <1>4, <2>1, <2>2
  <1>6. cursor.at = s[a] /\ cursor.seen = Below(i) \cup Passed(s, a)
    BY <1>2, <1>3
  <1>7. Passed(s, a) \cup {s[a]} = Passed(s, a + 1)
    BY DEF Passed
  <1>8. CASE a < m
    <2>1. next[s[a]] = s[a + 1] /\ s[a + 1] \in HKeys /\ a + 1 \in 1 .. m
      BY <1>4, <1>5, <1>8 DEF Lined
    <2>2. NextEntry(cursor.at) = s[a + 1]
      BY <1>6, <2>1 DEF NextEntry, HashAssumption
    <2>3. cursor.seen \cup {cursor.at} = Below(i) \cup Passed(s, a + 1)
      BY <1>6, <1>7
    <2> QED
      BY <1>3, <1>4, <2>1, <2>2, <2>3 DEF CursorAt
  <1>9. CASE ~(a < m)
    <2>1. a = m /\ next[s[a]] = NoKey
      BY <1>4, <1>5, <1>9 DEF Lined
    <2>2. NextEntry(cursor.at) = FirstFrom(i + 1)
      BY <1>5, <1>6, <2>1 DEF NextEntry
    <2>3. Passed(s, a + 1) = Els(s)
      BY <1>4, <2>1 DEF Passed, Els
    <2>4. Below(i) \cup Els(s) = Below(i + 1)
      <3>1. PICK n \in Nat \ {0} : DOMAIN tab = 0 .. n - 1
        BY DEF Table
      <3>2. \A k \in DOMAIN next : k \in HKeys /\ Bucket(tab, k) \in 0 .. n - 1 /\ k \in Els(ls[Bucket(tab, k)])
        BY <3>1, BucketIs DEF Table
      <3>3. \A k \in Els(s) : k \in DOMAIN next /\ Bucket(tab, k) = i
        BY <1>3, EntriesIn DEF Els
      <3>4. i \in 0 .. n - 1
        BY <3>1
      <3>5. ASSUME NEW k \in DOMAIN next PROVE Bucket(tab, k) < i + 1 <=> Bucket(tab, k) < i \/ k \in Els(s)
        BY <1>3, <3>2, <3>3, <3>4
      <3> QED
        BY <3>3, <3>5 DEF Below
    <2>5. cursor.seen \cup {cursor.at} = Below(i + 1)
      BY <1>6, <1>7, <2>3, <2>4
    <2>6. i + 1 \in Nat
      BY DEF Table
    <2> QED
      BY <2>2, <2>5, <2>6, FirstFromIs
  <1> QED
    BY <1>5, <1>8, <1>9

LEMMA HashFirst == HashInit => HashInv
  <1> SUFFICES ASSUME HashInit PROVE HashInv
    OBVIOUS
  <1> USE DEF HashInit
  <1>1. TabSize \in Nat \ {0}
    BY HashAssumption DEF HashAssumption
  <1>2. Table(tab, <<>>, <<>>, [i \in 0 .. TabSize - 1 |-> <<>>])
    BY <1>1, EmptyTable, HashAssumption
  <1>3. DOMAIN next = {} /\ next = <<>> /\ prev = <<>> /\ value = <<>> /\ DOMAIN value = {} /\ cursor = NoCursor
    OBVIOUS
  <1>4. Cardinality({}) = 0
    BY FS_EmptySet
  <1>5. value \in [DOMAIN next -> HValues] /\ nelem = Cardinality(DOMAIN next)
    BY <1>3, <1>4
  <1> QED
    BY <1>2, <1>3, <1>5 DEF HashInv

\* What zc_hashtable_put does to the table.
LEMMA PutStep ==
  ASSUME HashInv, HashAssumption, NEW k \in HKeys, NEW v \in HValues, Put(k, v)
  PROVE  /\ HashInv' /\ DOMAIN next' = DOMAIN next \cup {k}
         /\ freed' = IF k \in DOMAIN next THEN {value[k]} ELSE {}
         /\ value' = [e \in DOMAIN next \cup {k} |-> IF e = k THEN v ELSE value[e]]
  <1>1. PICK ls : Table(tab, next, prev, ls)
    BY DEF HashInv
  <1>2. Entry(k) = IF k \in DOMAIN next THEN k ELSE NoKey
    BY <1>1, EntryIs
  <1>3. NoKey \notin HKeys /\ cursor = NoCursor /\ cursor' = NoCursor /\ DOMAIN value = DOMAIN next
    BY DEF HashAssumption, Put, HashInv
  <1>4. IsFiniteSet(DOMAIN next) /\ DOMAIN next \subseteq HKeys
    <2>1. DOMAIN next \subseteq HKeys
      BY <1>1 DEF Table
    <2> QED
      BY <2>1, FS_Subset DEF HashAssumption
  <1>5. CASE k \in DOMAIN next
    <2>1. /\ value' = [value EXCEPT ![k] = v] /\ freed' = {value[k]}
          /\ UNCHANGED <<tab, next, prev, nelem>>
      BY <1>2, <1>3, <1>5 DEF Put
    <2>2. value' = [e \in DOMAIN next \cup {k} |-> IF e = k THEN v ELSE value[e]]
      BY <1>3, <1>5, <2>1 DEF HashInv
    <2>3. value' \in [DOMAIN next' -> HValues] /\ nelem' = Cardinality(DOMAIN next')
      BY <1>5, <2>1 DEF HashInv
    <2>4. Table(tab', next', prev', ls)
      BY <1>1, <2>1
    <2>5. HashInv'
      BY <1>3, <2>3, <2>4 DEF HashInv
    <2> QED
      BY <1>5, <2>1, <2>2, <2>5
  <1>6. CASE k \notin DOMAIN next
    <2>1. PICK st : st = IF TooFull THEN Rehashed ELSE [tab |-> tab, next |-> next, prev |-> prev]
      OBVIOUS
    <2>2. /\ tab' = Linked(st, k).tab /\ next' = Linked(st, k).next /\ prev' = Linked(st, k).prev
          /\ value' = [e \in DOMAIN value \cup {k} |-> IF e = k THEN v ELSE value[e]]
          /\ nelem' = nelem + 1 /\ freed' = {}
      BY <1>2, <1>3, <1>6, <2>1 DEF Put
    <2>3. (\E l : Table(st.tab, st.next, st.prev, l)) /\ DOMAIN st.next = DOMAIN next
      <3>1. CASE TooFull
        BY <1>1, <2>1, <3>1, RehashedIs
      <3>2. CASE ~TooFull
        BY <1>1, <2>1, <3>2
      <3> QED
        BY <3>1, <3>2
    <2>4. PICK l : Table(st.tab, st.next, st.prev, l)
      BY <2>3
    <2>5. /\ Table(Linked(st, k).tab, Linked(st, k).next, Linked(st, k).prev,
                   [l EXCEPT ![Bucket(st.tab, k)] = Longer(k, @)])
          /\ DOMAIN Linked(st, k).next = DOMAIN st.next \cup {k}
      BY <1>6, <2>3, <2>4, LinkedKeeps
    <2> HIDE DEF Linked
    <2>6. DOMAIN next' = DOMAIN next \cup {k}
      BY <2>2, <2>3, <2>5
    <2>7. nelem' = Cardinality(DOMAIN next')
      <3>1. Cardinality(DOMAIN next \cup {k}) = Cardinality(DOMAIN next) + 1
        BY <1>4, <1>6, FS_AddElement
      <3> QED
        BY <2>2, <2>6, <3>1 DEF HashInv
    <2>8. value' \in [DOMAIN next' -> HValues]
      BY <1>3, <2>2, <2>6 DEF HashInv
    <2>9. \E l2 : Table(tab', next', prev', l2)
      BY <2>2, <2>5
    <2>10. HashInv'
      BY <1>3, <2>7, <2>8, <2>9 DEF HashInv
    <2> QED
      BY <1>3, <1>6, <2>2, <2>6, <2>10
  <1> QED
    BY <1>5, <1>6

LEMMA RemoveStep ==
  ASSUME HashInv, HashAssumption, NEW k \in HKeys, RemoveKey(k)
  PROVE  /\ HashInv' /\ DOMAIN next' = DOMAIN next \ {k}
         /\ freed' = IF k \in DOMAIN next THEN {value[k]} ELSE {}
         /\ value' = [e \in DOMAIN next \ {k} |-> value[e]]
  <1>1. PICK ls : Table(tab, next, prev, ls)
    BY DEF HashInv
  <1>2. Entry(k) = IF k \in DOMAIN next THEN k ELSE NoKey
    BY <1>1, EntryIs
  <1>3. NoKey \notin HKeys /\ cursor = NoCursor /\ cursor' = NoCursor /\ DOMAIN value = DOMAIN next
    BY DEF HashAssumption, RemoveKey, HashInv
  <1>4. IsFiniteSet(DOMAIN next)
    <2>1. DOMAIN next \subseteq HKeys
      BY <1>1 DEF Table
    <2> QED
      BY <2>1, FS_Subset DEF HashAssumption
  <1>5. CASE k \in DOMAIN next
    <2>1. /\ tab' = Unlinked(k).tab /\ next' = Unlinked(k).next /\ prev' = Unlinked(k).prev
          /\ value' = [e \in DOMAIN value \ {k} |-> value[e]]
          /\ nelem' = nelem - 1 /\ freed' = {value[k]}
      BY <1>2, <1>3, <1>5 DEF RemoveKey
    <2>2. /\ \E l : Table(Unlinked(k).tab, Unlinked(k).next, Unlinked(k).prev, l)
          /\ DOMAIN Unlinked(k).next = DOMAIN next \ {k}
      BY <1>1, <1>5, UnlinkedKeeps
    <2> HIDE DEF Unlinked
    <2>3. DOMAIN next' = DOMAIN next \ {k} /\ \E l : Table(tab', next', prev', l)
      BY <2>1, <2>2
    <2>4. nelem' = Cardinality(DOMAIN next')
      <3>1. Cardinality(DOMAIN next \ {k}) = Cardinality(DOMAIN next) - 1
        BY <1>4, <1>5, FS_RemoveElement
      <3> QED
        BY <2>1, <2>3, <3>1 DEF HashInv
    <2>5. value' \in [DOMAIN next' -> HValues]
      BY <1>3, <2>1, <2>3 DEF HashInv
    <2>6. HashInv'
      BY <1>3, <2>3, <2>4, <2>5 DEF HashInv
    <2> QED
      BY <1>3, <1>5, <2>1, <2>3, <2>6
  <1>6. CASE k \notin DOMAIN next
    <2>1. freed' = {} /\ UNCHANGED <<tab, next, prev, value, nelem>>
      BY <1>2, <1>3, <1>6 DEF RemoveKey
    <2>2. DOMAIN next \ {k} = DOMAIN next /\ value = [e \in DOMAIN next |-> value[e]]
      BY <1>3, <1>6 DEF HashInv
    <2>3. Table(tab', next', prev', ls)
      BY <1>1, <2>1
    <2>4. HashInv'
      BY <1>3, <2>1, <2>3 DEF HashInv
    <2> QED
      BY <1>6, <2>1, <2>2, <2>4
  <1> QED
    BY <1>5, <1>6

LEMMA CleanStep ==
  ASSUME HashInv, HashAssumption, Clean
  PROVE  HashInv' /\ DOMAIN next' = {} /\ freed' = {value[k] : k \in DOMAIN next}
  <1>1. PICK ls : Table(tab, next, prev, ls)
    BY DEF HashInv
  <1>2. PICK m \in Nat \ {0} : DOMAIN tab = 0 .. m - 1
    BY <1>1 DEF Table
  <1>3. tab' = [i \in 0 .. m - 1 |-> NoKey] /\ next' = <<>> /\ prev' = <<>> /\ value' = <<>> /\ nelem' = 0
        /\ freed' = Range(value) /\ cursor' = NoCursor
    BY <1>2 DEF Clean
  <1>4. Table(tab', <<>>, <<>>, [i \in 0 .. m - 1 |-> <<>>])
    BY <1>2, <1>3, EmptyTable
  <1>5. DOMAIN next' = {} /\ DOMAIN value' = {}
    BY <1>3
  <1>6. nelem' = Cardinality(DOMAIN next')
    BY <1>3, <1>5, FS_EmptySet
  <1>7. value' \in [DOMAIN next' -> HValues]
    BY <1>3, <1>5
  <1>8. HashInv'
    BY <1>3, <1>4, <1>6, <1>7 DEF HashInv
  <1>9. freed' = {value[k] : k \in DOMAIN next}
    BY <1>3 DEF HashInv, Range
  <1> QED
    BY <1>5, <1>8, <1>9

LEMMA IterStep ==
  ASSUME HashInv, HashAssumption, IterBegin \/ IterNext \/ IterEnd
  PROVE  HashInv' /\ UNCHANGED <<tab, next, prev, value, nelem, freed>>
  <1>1. UNCHANGED <<tab, next, prev, value, nelem, freed>>
    BY DEF IterBegin, IterNext, IterEnd
  <1>2. PICK ls : Table(tab, next, prev, ls) /\ (cursor = NoCursor \/ CursorAt(ls, cursor))
    BY DEF HashInv
  <1>3. cursor' = NoCursor \/ CursorAt(ls, cursor')
    <2>1. CASE IterBegin
      <3>1. cursor' = [at |-> FirstFrom(0), seen |-> {}]
        BY <2>1 DEF IterBegin
      <3>2. Below(0) = {}
        <4>1. \A k \in DOMAIN next : Bucket(tab, k) \in Nat
          <5>1. PICK m \in Nat \ {0} : DOMAIN tab = 0 .. m - 1
            BY <1>2 DEF Table
          <5>2. \A k \in DOMAIN next : k \in HKeys
            BY <1>2 DEF Table
          <5>3. \A k \in HKeys : Bucket(tab, k) \in DOMAIN tab
            BY <5>1, BucketIs
          <5> QED
            BY <5>1, <5>2, <5>3
        <4> QED
          BY <4>1 DEF Below
      <3>3. CursorAt(ls, [at |-> FirstFrom(0), seen |-> Below(0)])
        BY <1>2, FirstFromIs
      <3> QED
        BY <3>1, <3>2, <3>3
    <2>2. CASE IterNext
      BY <1>2, <2>2, NextIs DEF IterNext
    <2>3. CASE IterEnd
      BY <2>3 DEF IterEnd
    <2> QED
      BY <2>1, <2>2, <2>3
  <1>4. HashInv'
    BY <1>1, <1>2, <1>3 DEF HashInv, CursorAt, Below
  <1> QED
    BY <1>1, <1>4

LEMMA HashKeeps == HashInv /\ [HashNext]_hashVars => HashInv'
  <1> SUFFICES ASSUME HashInv, [HashNext]_hashVars PROVE HashInv'
    OBVIOUS
  <1>1. ASSUME NEW k \in HKeys, RemoveKey(k) PROVE HashInv'
    BY <1>1, RemoveStep, HashAssumption
  <1>2. ASSUME NEW k \in HKeys, NEW v \in HValues, Put(k, v) PROVE HashInv'
    BY <1>2, PutStep, HashAssumption
  <1>3. CASE Clean
    BY <1>3, CleanStep, HashAssumption
  <1>4. CASE IterBegin \/ IterNext \/ IterEnd
    BY <1>4, IterStep, HashAssumption
  <1>5. CASE UNCHANGED hashVars
    <2>1. UNCHANGED <<tab, next, prev, value, nelem, cursor>>
      BY <1>5 DEF hashVars
    <2> QED
      BY <2>1 DEF HashInv, CursorAt, Below
  <1> QED
    BY <1>1, <1>2, <1>3, <1>4, <1>5 DEF HashNext

LEMMA HashInvHolds == HashSpec => []HashInv
  BY HashFirst, HashKeeps, PTL DEF HashSpec

LEMMA SoundWhileInv == HashInv => HashSound
  <1> SUFFICES ASSUME HashInv PROVE HashSound
    OBVIOUS
  <1>1. PICK ls : Table(tab, next, prev, ls) /\ (cursor = NoCursor \/ CursorAt(ls, cursor))
    BY DEF HashInv
  <1>2. NoKey \notin HKeys /\ DOMAIN next \subseteq HKeys /\ DOMAIN value = DOMAIN next
    BY <1>1, HashAssumption DEF HashAssumption, Table, HashInv
  <1>3. nelem = Cardinality({k \in HKeys : Entry(k) # NoKey})
    <2>1. \A k \in HKeys : Entry(k) = IF k \in DOMAIN next THEN k ELSE NoKey
      BY <1>1, EntryIs, HashAssumption
    <2>2. {k \in HKeys : Entry(k) # NoKey} = DOMAIN next
      BY <1>2, <2>1
    <2> QED
      BY <2>2 DEF HashInv
  <1>4. ASSUME NEW k \in DOMAIN next
        PROVE  /\ next[k] # NoKey => prev[next[k]] = k
               /\ prev[k] # NoKey => next[prev[k]] = k
    <2>1. PICK n \in Nat \ {0} : DOMAIN tab = 0 .. n - 1
      BY <1>1 DEF Table
    <2>2. k \in HKeys /\ k \in Els(ls[Bucket(tab, k)])
      BY <1>1 DEF Table
    <2>3. PICK i \in DOMAIN tab : i = Bucket(tab, k)
      BY <2>1, <2>2, BucketIs, HashAssumption
    <2>4. PICK s \in Seq(HKeys) : s = ls[i]
      BY <1>1, EntriesIn
    <2>5. Lined(tab[i], next, prev, s)
      BY <1>1, <2>4 DEF Table
    <2>6. PICK m \in Nat : m = Len(s)
      OBVIOUS
    <2>7. PICK a \in 1 .. m : k = s[a]
      BY <2>2, <2>3, <2>4, <2>6 DEF Els
    <2>8. \A x \in 1 .. m : /\ next[s[x]] = IF x < m THEN s[x + 1] ELSE NoKey
                            /\ prev[s[x]] = IF x > 1 THEN s[x - 1] ELSE NoKey
      BY <2>5, <2>6 DEF Lined
    <2>9. next[k] # NoKey => prev[next[k]] = k
      <3>1. a < m => a + 1 \in 1 .. m /\ a + 1 > 1 /\ a + 1 - 1 = a
        OBVIOUS
      <3> QED
        BY <2>7, <2>8, <3>1
    <2>10. prev[k] # NoKey => next[prev[k]] = k
      <3>1. a > 1 => a - 1 \in 1 .. m /\ a - 1 < m /\ a - 1 + 1 = a
        OBVIOUS
      <3> QED
        BY <2>7, <2>8, <3>1
    <2> QED
      BY <2>9, <2>10
  <1>5. IterationComplete
    <2>1. CASE cursor = NoCursor
      BY <2>1 DEF IterationComplete, NoCursor
    <2>2. CASE cursor = [at |-> NoKey, seen |-> DOMAIN next]
      BY <1>2, <2>2 DEF IterationComplete
    <2>3. ASSUME NEW i \in DOMAIN tab, NEW a \in 1 .. Len(ls[i]),
                 cursor = [at |-> ls[i][a], seen |-> Below(i) \cup Passed(ls[i], a)]
          PROVE  IterationComplete
      <3>1. ls[i] \in Seq(HKeys) /\ Bucket(tab, ls[i][a]) = i /\ ls[i][a] \in HKeys
        BY <1>1, EntriesIn
      <3>2. ls[i][a] # NoKey
        BY <1>2, <3>1
      <3>3. ls[i][a] \notin Below(i)
        <4>1. i \in Nat
          BY <1>1 DEF Table
        <4> QED
          BY <3>1, <4>1 DEF Below
      <3>4. ls[i][a] \notin Passed(ls[i], a)
        <4>1. \A x, y \in 1 .. Len(ls[i]) : ls[i][x] = ls[i][y] => x = y
          BY <1>1 DEF Table, Lined
        <4>2. Len(ls[i]) \in Nat
          BY <3>1
        <4>3. \A x \in 1 .. a - 1 : x \in 1 .. Len(ls[i]) /\ x # a
          BY <4>2
        <4> QED
          BY <4>1, <4>3 DEF Passed
      <3>5. cursor.at = ls[i][a] /\ cursor.seen = Below(i) \cup Passed(ls[i], a)
        BY <2>3
      <3> QED
        BY <3>2, <3>3, <3>4, <3>5 DEF IterationComplete
    <2> QED
      BY <1>1, <2>1, <2>2, <2>3 DEF CursorAt
  <1> QED
    BY <1>3, <1>4, <1>5 DEF HashSound, ListsSound

\* The table stays a set of sound lists while entries are put, replaced, removed and
\* rehashed, whatever their hashes, and an iteration comes by each of them once.
THEOREM ListsStaySound == HashSpec => []HashSound
  BY HashInvHolds, SoundWhileInv, PTL

\* A key that was put has the value it was put with.
Holding == \A k \in HKeys : Get(k) = IF k \in DOMAIN next THEN {value[k]} ELSE {}

LEMMA HeldWhileInv == HashInv => Holding
  <1> SUFFICES ASSUME HashInv, NEW k \in HKeys
               PROVE  Get(k) = IF k \in DOMAIN next THEN {value[k]} ELSE {}
    BY DEF Holding
  <1>1. PICK ls : Table(tab, next, prev, ls)
    BY DEF HashInv
  <1>2. Entry(k) = IF k \in DOMAIN next THEN k ELSE NoKey
    BY <1>1, EntryIs, HashAssumption
  <1> QED
    BY <1>2, HashAssumption DEF Get, HashAssumption

LEMMA HashMaps == HashInv /\ Holding /\ Holding' /\ [HashNext]_hashVars => [Map!MapNext]_(Map!mapVars)
  <1> SUFFICES ASSUME HashInv, Holding, Holding', [HashNext]_hashVars
               PROVE  Map!MapNext \/ UNCHANGED Map!mapVars
    OBVIOUS
  <1> DEFINE now == [k \in HKeys |-> Get(k)]
             then == [k \in HKeys |-> Get(k)']
  <1>1. /\ \A k \in HKeys : now[k] = IF k \in DOMAIN next THEN {value[k]} ELSE {}
        /\ \A k \in HKeys : then[k] = IF k \in DOMAIN next' THEN {value'[k]} ELSE {}
    BY DEF Holding
  <1>2. DOMAIN next \subseteq HKeys
    BY DEF HashInv, Table
  <1>3. ASSUME NEW k \in HKeys, NEW v \in HValues, Put(k, v) PROVE Map!MapNext
    <2>1. /\ DOMAIN next' = DOMAIN next \cup {k}
          /\ freed' = IF k \in DOMAIN next THEN {value[k]} ELSE {}
          /\ value' = [e \in DOMAIN next \cup {k} |-> IF e = k THEN v ELSE value[e]]
      BY <1>3, PutStep, HashAssumption
    <2>2. freed' = now[k]
      BY <1>1, <2>1
    <2>3. then = [now EXCEPT ![k] = {v}]
      BY <1>1, <2>1
    <2>4. Map!PutKey(k, v)
      BY <2>2, <2>3 DEF Map!PutKey
    <2> QED
      BY <2>4 DEF Map!MapNext
  <1>4. ASSUME NEW k \in HKeys, RemoveKey(k) PROVE Map!MapNext
    <2>1. /\ DOMAIN next' = DOMAIN next \ {k}
          /\ freed' = IF k \in DOMAIN next THEN {value[k]} ELSE {}
          /\ value' = [e \in DOMAIN next \ {k} |-> value[e]]
      BY <1>4, RemoveStep, HashAssumption
    <2>2. freed' = now[k]
      BY <1>1, <2>1
    <2>3. then = [now EXCEPT ![k] = {}]
      BY <1>1, <2>1
    <2>4. Map!RemoveKey(k)
      BY <2>2, <2>3 DEF Map!RemoveKey
    <2> QED
      BY <2>4 DEF Map!MapNext
  <1>5. CASE Clean
    <2>1. DOMAIN next' = {} /\ freed' = {value[k] : k \in DOMAIN next}
      BY <1>5, CleanStep, HashAssumption
    <2>2. then = [k \in HKeys |-> {}]
      BY <1>1, <2>1
    <2>3. freed' = UNION {now[k] : k \in HKeys}
      <3>1. ASSUME NEW x PROVE x \in freed' <=> \E k \in HKeys : x \in now[k]
        BY <1>1, <1>2, <2>1
      <3> QED
        BY <3>1
    <2>4. Map!RemoveAll
      BY <2>2, <2>3 DEF Map!RemoveAll
    <2> QED
      BY <2>4 DEF Map!MapNext
  <1>6. CASE IterBegin \/ IterNext \/ IterEnd
    <2>1. UNCHANGED <<tab, next, prev, value, nelem, freed>>
      BY <1>6, IterStep, HashAssumption
    <2>2. then = now
      BY <1>1, <2>1
    <2> QED
      BY <2>1, <2>2 DEF Map!mapVars
  <1>7. CASE UNCHANGED hashVars
    <2>1. UNCHANGED <<next, value, freed>>
      BY <1>7 DEF hashVars
    <2>2. then = now
      BY <1>1, <2>1
    <2> QED
      BY <2>1, <2>2 DEF Map!mapVars
  <1> QED
    BY <1>3, <1>4, <1>5, <1>6, <1>7 DEF HashNext

\* The hash table is a map: zc_hashtable_get finds what zc_hashtable_put put there last,
\* through rehashes, collisions and removals, and each value goes to value_del once.
THEOREM HashIsMap == HashSpec => ImplementsMap
  <1>1. HashInit => Map!MapInit
    <2> SUFFICES ASSUME HashInit PROVE Map!MapInit
      OBVIOUS
    <2>1. Holding
      BY HashFirst, HeldWhileInv
    <2>2. DOMAIN next = {} /\ freed = {}
      BY DEF HashInit
    <2>3. [k \in HKeys |-> Get(k)] = [k \in HKeys |-> {}]
      BY <2>1, <2>2 DEF Holding
    <2> QED
      BY <2>2, <2>3 DEF Map!MapInit
  <1>2. HashSpec => []HashInv /\ []Holding
    BY HashInvHolds, HeldWhileInv, PTL
  <1>3. HashSpec => [][Map!MapNext]_(Map!mapVars)
    BY <1>2, HashMaps, PTL DEF HashSpec
  <1> QED
    BY <1>1, <1>3, PTL DEF HashSpec, ImplementsMap, Map!MapSpec

(***************************************************************************)
(* Part 4: levels and rules, for any levels of a configuration and any     *)
(* rule lines.                                                             *)
(***************************************************************************)

LEMMA MaxOfTwo ==
  ASSUME NEW a \in Int, NEW b \in Int
  PROVE  Max({a, b}) = IF a >= b THEN a ELSE b
  <1> DEFINE m == IF a >= b THEN a ELSE b
  <1>1. m \in {a, b} /\ \A y \in {a, b} : m >= y
    OBVIOUS
  <1>2. \A x \in {a, b} : (\A y \in {a, b} : x >= y) => x = m
    OBVIOUS
  <1> HIDE DEF m
  <1>3. Max({a, b}) \in {a, b} /\ \A y \in {a, b} : Max({a, b}) >= y
    BY <1>1 DEF Max
  <1>4. Max({a, b}) = m
    BY <1>2, <1>3
  <1> QED
    BY <1>4 DEF m

\* A level list with room for size levels, of which the last used is len - 1.
Shaped(l, size, len) ==
  /\ l.size = size /\ l.len = len /\ l.past = FALSE
  /\ DOMAIN l.arr \subseteq 0 .. 255

\* What zc_arraylist_set does to it: the index is inside if it is below twice the size.
LEMMA ListSetIs ==
  ASSUME NEW l, NEW size \in Nat, NEW len \in Nat, Shaped(l, size, len),
         NEW idx \in 0 .. 255, NEW v, idx < 2 * size
  PROVE  /\ Shaped(ListSet(l, idx, v), IF idx > size - 1 THEN 2 * size ELSE size,
                   IF idx >= len THEN idx + 1 ELSE len)
         /\ DOMAIN ListSet(l, idx, v).arr = DOMAIN l.arr \cup {idx}
         /\ ListSet(l, idx, v).arr[idx] = v
         /\ \A i \in DOMAIN l.arr : i # idx => ListSet(l, idx, v).arr[i] = l.arr[i]
  <1>1. Max({2 * size, idx}) = 2 * size /\ Max({len, idx + 1}) = IF idx >= len THEN idx + 1 ELSE len
    <2>1. 2 * size \in Int /\ idx \in Int /\ len \in Int /\ idx + 1 \in Int
      OBVIOUS
    <2>2. Max({2 * size, idx}) = IF 2 * size >= idx THEN 2 * size ELSE idx
      BY <2>1, MaxOfTwo
    <2>3. Max({len, idx + 1}) = IF len >= idx + 1 THEN len ELSE idx + 1
      BY <2>1, MaxOfTwo
    <2> QED
      BY <2>2, <2>3
  <1>2. Expanded(l.size, idx) = IF idx > size - 1 THEN 2 * size ELSE size
    BY <1>1 DEF Expanded, Shaped
  <1>3. PICK r : r = ListSet(l, idx, v)
    OBVIOUS
  <1>4. r.arr = [i \in DOMAIN l.arr \cup {idx} |-> IF i = idx THEN v ELSE l.arr[i]]
    BY <1>3 DEF ListSet
  <1>5. r.size = Expanded(l.size, idx) /\ r.len = Max({len, idx + 1}) /\ r.past = (idx >= Expanded(l.size, idx))
    BY <1>3 DEF ListSet, Shaped
  <1>6. r.past = FALSE
    <2>1. ~(idx >= Expanded(l.size, idx))
      BY <1>2
    <2>2. (idx >= Expanded(l.size, idx)) = FALSE
      BY <2>1
    <2> QED
      BY <1>5, <2>2
  <1>7. DOMAIN r.arr = DOMAIN l.arr \cup {idx} /\ r.arr[idx] = v /\ \A i \in DOMAIN l.arr : i # idx => r.arr[i] = l.arr[i]
    BY <1>4
  <1>8. DOMAIN r.arr \subseteq 0 .. 255
    BY <1>7 DEF Shaped
  <1>9. Shaped(r, IF idx > size - 1 THEN 2 * size ELSE size, IF idx >= len THEN idx + 1 ELSE len)
    BY <1>1, <1>2, <1>5, <1>6, <1>8 DEF Shaped
  <1> QED
    BY <1>3, <1>7, <1>9

LEMMA SetDefaultsIs ==
  \A i \in 0 .. 9 : SetDefaults[i] = IF i = 0 THEN ListNew
                                     ELSE ListSet(SetDefaults[i - 1], Defaults[i][1], Defaults[i][2])
  <1> DEFINE Row(i, g) == IF i = 0 THEN ListNew ELSE ListSet(g, Defaults[i][1], Defaults[i][2])
             Fills(m, f) == f = [i \in 0 .. m |-> Row(i, f[i - 1])]
             M == {m \in 0 .. 9 : \E f : Fills(m, f)}
  <1>1. \A g, h : Row(0, g) = Row(0, h)
    OBVIOUS
  <1>0. Len(Defaults) = 9
    BY DEF Defaults
  <1>2. \A m \in 0 .. 9 : m \in M
    <2> HIDE DEF Row
    <2>1. 0 \in M
      <3> DEFINE f == [i \in 0 .. 0 |-> Row(0, 0)]
      <3>1. \A i \in 0 .. 0 : i = 0 /\ f[i] = Row(i, f[i - 1])
        BY <1>1
      <3>2. Fills(0, f)
        BY <3>1
      <3> HIDE DEF Fills
      <3> QED
        BY <3>2
    <2>2. ASSUME NEW m \in 1 .. 9, m - 1 \in M PROVE m \in M
      <3>1. PICK f : f = [i \in 0 .. m - 1 |-> Row(i, f[i - 1])]
        BY <2>2
      <3> DEFINE h == [i \in 0 .. m |-> IF i = m THEN Row(m, f[m - 1]) ELSE f[i]]
      <3>2. ASSUME NEW i \in 0 .. m PROVE h[i] = Row(i, h[i - 1])
        <4>1. CASE i = 0
          <5>1. h[0] = f[0] /\ f[0] = Row(0, f[0 - 1])
            BY <3>1
          <5>2. Row(0, f[0 - 1]) = Row(0, h[0 - 1])
            BY <1>1
          <5> QED
            BY <4>1, <5>1, <5>2
        <4>2. CASE i = m
          <5>1. h[i - 1] = f[m - 1]
            BY <4>2
          <5> QED
            BY <4>2, <5>1
        <4>3. CASE i # 0 /\ i # m
          <5>1. i \in 0 .. m - 1 /\ i - 1 \in 0 .. m /\ h[i - 1] = f[i - 1] /\ h[i] = f[i]
            BY <4>3
          <5>2. f[i] = Row(i, f[i - 1])
            BY <3>1, <5>1
          <5> QED
            BY <5>1, <5>2
        <4> QED
          BY <4>1, <4>2, <4>3
      <3>3. Fills(m, h)
        BY <3>2
      <3> HIDE DEF Fills, h
      <3> QED
        BY <3>3
    <2> HIDE DEF M
    <2> QED
      BY <2>1, <2>2, UpTo
  <1>3. \E f : f = [i \in 0 .. 9 |-> Row(i, f[i - 1])]
    <2>1. 9 \in 0 .. 9
      OBVIOUS
    <2> HIDE DEF Row
    <2> QED
      BY <1>2, <2>1
  <1>4. SetDefaults = [i \in 0 .. 9 |-> Row(i, SetDefaults[i - 1])]
    BY <1>0, <1>3 DEF SetDefaults
  <1>5. \A i \in 0 .. 9 : SetDefaults[i] = Row(i, SetDefaults[i - 1])
    <2> HIDE DEF Row
    <2> QED
      BY <1>4
  <1> QED
    BY <1>5

\* Every configuration starts with a list whose array has 256 slots and grows no more.
LEMMA DefaultLevels ==
  ASSUME ArraySize = 32
  PROVE  /\ Shaped(LevelListNew, 256, 256)
         /\ 254 \in DOMAIN LevelListNew.arr /\ LevelListNew.arr[254] = "unknown"
  <1> DEFINE L(i) == SetDefaults[i]
  <1>1. /\ L(0) = ListNew
        /\ L(1) = ListSet(L(0), 0, "*") /\ L(2) = ListSet(L(1), 20, "debug")
        /\ L(3) = ListSet(L(2), 40, "info") /\ L(4) = ListSet(L(3), 60, "notice")
        /\ L(5) = ListSet(L(4), 80, "warn") /\ L(6) = ListSet(L(5), 100, "error")
        /\ L(7) = ListSet(L(6), 120, "fatal") /\ L(8) = ListSet(L(7), 254, "unknown")
        /\ L(9) = ListSet(L(8), 255, "!")
    BY SetDefaultsIs DEF Defaults
  <1>2. Shaped(ListNew, 32, 0)
    BY DEF Shaped, ListNew
  <1> HIDE DEF L
  <1>3. Shaped(L(1), 32, 1)
    BY <1>1, <1>2, ListSetIs
  <1>4. Shaped(L(2), 32, 21)
    BY <1>1, <1>3, ListSetIs
  <1>5. Shaped(L(3), 64, 41)
    BY <1>1, <1>4, ListSetIs
  <1>6. Shaped(L(4), 64, 61)
    BY <1>1, <1>5, ListSetIs
  <1>7. Shaped(L(5), 128, 81)
    BY <1>1, <1>6, ListSetIs
  <1>8. Shaped(L(6), 128, 101)
    BY <1>1, <1>7, ListSetIs
  <1>9. Shaped(L(7), 128, 121)
    BY <1>1, <1>8, ListSetIs
  <1>10. Shaped(L(8), 256, 255) /\ 254 \in DOMAIN L(8).arr /\ L(8).arr[254] = "unknown"
    BY <1>1, <1>9, ListSetIs
  <1>11. Shaped(L(9), 256, 256) /\ 254 \in DOMAIN L(9).arr /\ L(9).arr[254] = "unknown"
    <2>1. PICK v : v = "!"
      OBVIOUS
    <2>2. L(9) = ListSet(L(8), 255, v)
      BY <1>1, <2>1
    <2>3. Shaped(L(9), 256, 256)
      BY <1>10, <2>2, ListSetIs
    <2>4. DOMAIN L(9).arr = DOMAIN L(8).arr \cup {255} /\ \A i \in DOMAIN L(8).arr : i # 255 => L(9).arr[i] = L(8).arr[i]
      BY <2>2 DEF ListSet
    <2> QED
      BY <1>10, <2>3, <2>4
  <1>12. LevelListNew = L(9)
    BY DEF LevelListNew, L, Defaults
  <1> QED
    BY <1>11, <1>12

\* The level of a rule is a byte, or -1 for a name that is not in the list.
LEMMA AtoiIs ==
  ASSUME NEW name, DOMAIN levels.arr \subseteq 0 .. 255
  PROVE  LevelAtoi(name) \in -1 .. 255
  <1> DEFINE at == {i \in DOMAIN levels.arr : levels.arr[i] = name}
  <1>1. CASE at = {}
    BY <1>1 DEF LevelAtoi
  <1>2. CASE at # {}
    <2>1. at \subseteq Nat /\ at \subseteq 0 .. 255
      OBVIOUS
    <2>2. Min(at) \in at
      <3> HIDE DEF at
      <3> QED
        BY <1>2, <2>1, SmallestIs
    <2>3. LevelAtoi(name) = Min(at)
      BY <1>2 DEF LevelAtoi
    <2> QED
      BY <2>1, <2>2, <2>3
  <1> QED
    BY <1>1, <1>2

-----------------------------------------------------------------------------
\* The powers of two that a byte has.
Pow(e) ==
  IF e = 0 THEN 1 ELSE IF e = 1 THEN 2 ELSE IF e = 2 THEN 4 ELSE IF e = 3 THEN 8 ELSE IF e = 4 THEN 16
  ELSE IF e = 5 THEN 32 ELSE IF e = 6 THEN 64 ELSE IF e = 7 THEN 128 ELSE 256
LEMMA PowIs == ASSUME NEW e \in 0 .. 8 PROVE 2^e = Pow(e)
  <1>1. e = 0 \/ e = 1 \/ e = 2 \/ e = 3 \/ e = 4 \/ e = 5 \/ e = 6 \/ e = 7 \/ e = 8
    OBVIOUS
  <1>2. CASE e = 0
    <2>1. 2^0 = 1
      OBVIOUS
    <2> QED
      BY <1>2, <2>1 DEF Pow
  <1>3. CASE e = 1
    <2>1. 2^1 = 2
      OBVIOUS
    <2> QED
      BY <1>3, <2>1 DEF Pow
  <1>4. CASE e = 2
    <2>1. 2^2 = 4
      OBVIOUS
    <2> QED
      BY <1>4, <2>1 DEF Pow
  <1>5. CASE e = 3
    <2>1. 2^3 = 8
      OBVIOUS
    <2> QED
      BY <1>5, <2>1 DEF Pow
  <1>6. CASE e = 4
    <2>1. 2^4 = 16
      OBVIOUS
    <2> QED
      BY <1>6, <2>1 DEF Pow
  <1>7. CASE e = 5
    <2>1. 2^5 = 32
      OBVIOUS
    <2> QED
      BY <1>7, <2>1 DEF Pow
  <1>8. CASE e = 6
    <2>1. 2^6 = 64
      OBVIOUS
    <2> QED
      BY <1>8, <2>1 DEF Pow
  <1>9. CASE e = 7
    <2>1. 2^7 = 128
      OBVIOUS
    <2> QED
      BY <1>9, <2>1 DEF Pow
  <1>10. CASE e = 8
    <2>1. 2^8 = 256
      OBVIOUS
    <2> QED
      BY <1>10, <2>1 DEF Pow
  <1> QED
    BY <1>1, <1>2, <1>3, <1>4, <1>5, <1>6, <1>7, <1>8, <1>9, <1>10

\* The bit k of a byte, counted from the highest, where only the bit m is set, where only it
\* is clear, and where those from m on are set.
LEMMA BitsOfBytes ==
  ASSUME NEW m \in 0 .. 7, NEW k \in 0 .. 7
  PROVE  /\ (Pow(7 - m) \div Pow(7 - k)) % 2 = (IF k = m THEN 1 ELSE 0)
         /\ ((255 - Pow(7 - m)) \div Pow(7 - k)) % 2 = (IF k = m THEN 0 ELSE 1)
         /\ ((Pow(8 - m) - 1) \div Pow(7 - k)) % 2 = (IF k >= m THEN 1 ELSE 0)
         /\ (255 \div Pow(7 - k)) % 2 = 1 /\ (0 \div Pow(7 - k)) % 2 = 0
  <1>1. (Pow(7 - m) \div Pow(7 - k)) % 2 = (IF k = m THEN 1 ELSE 0)
    BY DEF Pow
  <1>2. ((255 - Pow(7 - m)) \div Pow(7 - k)) % 2 = (IF k = m THEN 0 ELSE 1)
    BY DEF Pow
  <1>3. ((Pow(8 - m) - 1) \div Pow(7 - k)) % 2 = (IF k >= m THEN 1 ELSE 0)
    BY DEF Pow
  <1>4. (255 \div Pow(7 - k)) % 2 = 1 /\ (0 \div Pow(7 - k)) % 2 = 0
    BY DEF Pow
  <1> QED
    BY <1>1, <1>2, <1>3, <1>4

\* The bitmap has the bit of a level exactly if a message of the level goes out.
BitAt(map, l) == (map[l \div 8] \div 2^(7 - (l % 8))) % 2 = 1

GoesOut(cmp, level, l) == Outputs([cmp |-> cmp, level |-> level], l)

LEMMA BitmapRight ==
  ASSUME NEW cmp \in {"*", ".", "=", "!"}, NEW level \in -1 .. 255, NEW l \in 0 .. 255
  PROVE  BitAt(Bitmap(cmp, level), l) <=> GoesOut(cmp, level, l)
  <1>1. PICK b \in 0 .. 31 : b = l \div 8
    OBVIOUS
  <1>2. PICK k \in 0 .. 7 : k = l % 8
    OBVIOUS
  <1>3. l = 8 * b + k /\ 7 - k \in 0 .. 8 /\ 2^(7 - k) = Pow(7 - k)
    <2>1. 7 - k \in 0 .. 8
      OBVIOUS
    <2>2. 2^(7 - k) = Pow(7 - k)
      BY <2>1, PowIs
    <2> QED
      BY <1>1, <1>2, <2>1, <2>2
  <1>4. PICK v : v = Bitmap(cmp, level)[b]
    OBVIOUS
  <1>5. BitAt(Bitmap(cmp, level), l) <=> (v \div Pow(7 - k)) % 2 = 1
    BY <1>1, <1>2, <1>3, <1>4 DEF BitAt
  <1>6. CASE level = -1
    <2>1. CDiv(level, 8) = 0 /\ CMod(level, 8) = -1
      BY <1>6 DEF CDiv, CMod
    <2>2. Bit(level) = 0 /\ BelowMask(level) = 255
      BY <2>1 DEF Bit, BelowMask
    <2>3. v = IF cmp = "=" THEN 0 ELSE 255
      <3>1. CASE cmp = "="
        BY <1>4, <2>1, <2>2, <3>1 DEF Bitmap
      <3>2. CASE cmp = "!"
        BY <1>4, <2>1, <2>2, <3>2 DEF Bitmap
      <3>3. CASE cmp = "*"
        BY <1>4, <2>1, <2>2, <3>3 DEF Bitmap
      <3>4. CASE cmp = "."
        <4>1. v = IF b = 0 THEN BelowMask(level) ELSE IF b > 0 THEN 255 ELSE 0
          BY <1>4, <2>1, <3>4 DEF Bitmap
        <4> QED
          BY <2>2, <3>4, <4>1
      <3> QED
        BY <3>1, <3>2, <3>3, <3>4
    <2>4. (v \div Pow(7 - k)) % 2 = IF cmp = "=" THEN 0 ELSE 1
      BY <2>3, BitsOfBytes
    <2>5. l >= level /\ l # level
      BY <1>6
    <2>6. CASE cmp = "="
      BY <1>5, <2>4, <2>5, <2>6 DEF GoesOut, Outputs
    <2>7. CASE cmp = "!"
      BY <1>5, <2>4, <2>5, <2>7 DEF GoesOut, Outputs
    <2>8. CASE cmp = "*"
      BY <1>5, <2>4, <2>5, <2>8 DEF GoesOut, Outputs
    <2>9. CASE cmp = "."
      BY <1>5, <2>4, <2>5, <2>9 DEF GoesOut, Outputs
    <2> QED
      BY <2>6, <2>7, <2>8, <2>9
  <1>7. CASE level # -1
    <2>1. PICK c \in 0 .. 31 : c = level \div 8
      BY <1>7
    <2>2. PICK m \in 0 .. 7 : m = level - 8 * c
      BY <1>7, <2>1
    <2>3. CDiv(level, 8) = c /\ CMod(level, 8) = m /\ level = 8 * c + m
      BY <1>7, <2>1, <2>2 DEF CDiv, CMod
    <2>4. Bit(level) = Pow(7 - m) /\ BelowMask(level) = Pow(8 - m) - 1
      <3>1. 7 - m \in 0 .. 8 /\ 8 - m \in 0 .. 8
        OBVIOUS
      <3>2. 2^(7 - m) = Pow(7 - m) /\ 2^(8 - m) = Pow(8 - m)
        BY <3>1, PowIs
      <3> QED
        BY <2>3, <3>2 DEF Bit, BelowMask
    <2>5. /\ l = level <=> b = c /\ k = m
          /\ l >= level <=> b > c \/ (b = c /\ k >= m)
      BY <1>3, <2>3
    <2>6. CASE cmp = "="
      <3>1. v = IF b = c THEN Pow(7 - m) ELSE 0
        BY <1>4, <2>3, <2>4, <2>6 DEF Bitmap
      <3>2. (v \div Pow(7 - k)) % 2 = IF b = c /\ k = m THEN 1 ELSE 0
        BY <3>1, BitsOfBytes
      <3> QED
        BY <1>5, <2>5, <2>6, <3>2 DEF GoesOut, Outputs
    <2>7. CASE cmp = "!"
      <3>1. v = IF b = c THEN 255 - Pow(7 - m) ELSE 255
        BY <1>4, <2>3, <2>4, <2>7 DEF Bitmap
      <3>2. (v \div Pow(7 - k)) % 2 = IF b = c /\ k = m THEN 0 ELSE 1
        BY <3>1, BitsOfBytes
      <3> QED
        BY <1>5, <2>5, <2>7, <3>2 DEF GoesOut, Outputs
    <2>8. CASE cmp = "*"
      <3>1. v = 255
        BY <1>4, <2>8 DEF Bitmap
      <3> QED
        BY <1>5, <2>8, <3>1, BitsOfBytes DEF GoesOut, Outputs
    <2>9. CASE cmp = "."
      <3>1. v = IF b = c THEN Pow(8 - m) - 1 ELSE IF b > c THEN 255 ELSE 0
        BY <1>4, <2>3, <2>4, <2>9 DEF Bitmap
      <3>2. (v \div Pow(7 - k)) % 2 = IF b > c \/ (b = c /\ k >= m) THEN 1 ELSE 0
        BY <3>1, BitsOfBytes
      <3> QED
        BY <1>5, <2>5, <2>9, <3>2 DEF GoesOut, Outputs
    <2> QED
      BY <2>6, <2>7, <2>8, <2>9
  <1> QED
    BY <1>6, <1>7

\* A category matches as the comment says.
LEMMA MatchRight ==
  ASSUME NEW r, r.category \in Seq(STRING), r.category # <<>>, NEW cat \in Seq(STRING)
  PROVE  MatchCategory(r, cat) <=>
           \/ r.category = <<"*">>
           \/ cat = r.category
           \/ Last(r.category) = "_" /\ (cat = Front(r.category) \/ IsPrefix(r.category, cat))
  <1>1. PICK p \in Seq(STRING) : p = r.category
    OBVIOUS
  <1>2. PICK n \in Nat \ {0} : n = Len(p)
    BY <1>1, EmptySeq
  <1>3. PICK q \in Nat : q = Len(cat)
    OBVIOUS
  <1>4. CASE q = n - 1
    <2>1. StrNCmp(p, cat, n - 1) <=> \A i \in 1 .. n - 1 : p[i] = cat[i]
      BY <1>2, <1>3, <1>4 DEF StrNCmp
    <2>2. PICK f : f = SubSeq(p, 1, n - 1)
      OBVIOUS
    <2>3. f \in Seq(STRING) /\ Len(f) = n - 1 /\ \A i \in 1 .. n - 1 : f[i] = p[i]
      BY <1>2, <2>2, SubSeqProperties
    <2>4. cat = f <=> \A i \in 1 .. n - 1 : p[i] = cat[i]
      <3>1. PICK m \in Nat : m = n - 1
        BY <1>2
      <3>2. cat \in Seq(STRING) /\ Len(cat) = m /\ Len(f) = m /\ \A i \in 1 .. m : f[i] = p[i]
        BY <1>3, <1>4, <2>3, <3>1
      <3>3. (\A i \in 1 .. m : f[i] = cat[i]) => cat = f
        BY <2>3, <3>2
      <3> QED
        BY <3>1, <3>2, <3>3
    <2>5. ~IsPrefix(p, cat)
      BY <1>2, <1>3, <1>4 DEF IsPrefix
    <2>6. Front(p) = f
      BY <1>2, <2>2 DEF Front
    <2> QED
      BY <1>1, <1>2, <1>3, <1>4, <2>1, <2>4, <2>5, <2>6 DEF MatchCategory
  <1>5. CASE q # n - 1
    <2>1. StrNCmp(p, cat, n) <=> n <= q /\ \A i \in 1 .. n : p[i] = cat[i]
      <3>1. StrNCmp(p, cat, n) <=> \A i \in 1 .. n : i <= q /\ p[i] = cat[i]
        BY <1>2, <1>3 DEF StrNCmp
      <3>2. n \in 1 .. n
        BY <1>2
      <3> QED
        BY <3>1, <3>2
    <2>2. IsPrefix(p, cat) <=> n <= q /\ \A i \in 1 .. n : p[i] = cat[i]
      <3>1. CASE n <= q
        <4>1. PICK f : f = SubSeq(p, 1, n)
          OBVIOUS
        <4>2. PICK g : g = SubSeq(cat, 1, n)
          OBVIOUS
        <4>3. f \in Seq(STRING) /\ Len(f) = n /\ \A i \in 1 .. n : f[i] = p[i]
          BY <1>2, <4>1, SubSeqProperties
        <4>4. g \in Seq(STRING) /\ Len(g) = n /\ \A i \in 1 .. n : g[i] = cat[i]
          BY <1>2, <1>3, <3>1, <4>2, SubSeqProperties
        <4>5. f = g <=> \A i \in 1 .. n : p[i] = cat[i]
          BY <4>3, <4>4
        <4> QED
          BY <1>2, <1>3, <3>1, <4>1, <4>2, <4>5 DEF IsPrefix
      <3>2. CASE ~(n <= q)
        BY <1>2, <1>3, <3>2 DEF IsPrefix
      <3> QED
        BY <3>1, <3>2
    <2>3. cat # Front(p)
      <3>1. Len(SubSeq(p, 1, n - 1)) = n - 1
        BY <1>2, SubSeqProperties
      <3> QED
        BY <1>2, <1>3, <1>5, <3>1 DEF Front
    <2> QED
      BY <1>1, <1>2, <1>3, <1>5, <2>1, <2>2, <2>3 DEF MatchCategory
  <1> QED
    BY <1>4, <1>5

-----------------------------------------------------------------------------
\* A list with a name for every number given to zlog.
LevelsGood(l) == Shaped(l, 256, 256) /\ 254 \in DOMAIN l.arr /\ l.arr[254] # "null"

\* The rule r, for which f descriptors are open, was made of a line.
MadeOf(r, f, line, level, rec) ==
  /\ ~Refused(line)
  /\ r = [out |-> OutputOf(line), category |-> line.category, cmp |-> line.cmp,
          level |-> level, bitmap |-> Bitmap(line.cmp, level), record |-> rec,
          static_fd |-> Held(OutputOf(line)).static_fd, pipe |-> Held(OutputOf(line)).pipe]
  /\ f = Held(OutputOf(line)).open
Made(r, f) == \E line \in Lines, level \in -1 .. 255, rec \in BOOLEAN : MadeOf(r, f, line, level, rec)

RuleInv ==
  /\ LevelsGood(levels)
  /\ (rule = NoRule /\ fdsOf = 0) \/ Made(rule, fdsOf)

LEMMA LineIs ==
  /\ \A line \in Lines :
       /\ line.out \in {"file", "sync", "pipe", "syslog", "stdout", "stderr", "record", "wrong"}
       /\ line.cmp \in {"*", ".", "=", "!"} /\ line.category \in Seq(STRING) /\ line.category # <<>>
  /\ \A cat \in Categories : cat \in Seq(STRING)
  BY RuleAssumption

\* What a line that is not refused is turned into, and what is open for it.
LEMMA OutputIs ==
  ASSUME NEW line \in Lines, ~Refused(line)
  PROVE  OutputOf(line) \in {"dynamic_file_single", "static_file_single", "dynamic_file_rotate", "static_file_rotate",
                             "dynamic_record", "static_record", "pipe", "syslog", "stdout", "stderr"}
  <1>1. line.out \in {"file", "sync", "pipe", "syslog", "stdout", "stderr", "record"}
    BY LineIs DEF Refused
  <1>2. CASE line.out \in {"file", "sync"}
    BY <1>2 DEF OutputOf
  <1>3. CASE line.out = "record"
    BY <1>3 DEF OutputOf
  <1>4. CASE line.out \in {"pipe", "syslog", "stdout", "stderr"}
    BY <1>4 DEF OutputOf
  <1> QED
    BY <1>1, <1>2, <1>3, <1>4

LEMMA HeldIs ==
  ASSUME NEW out
  PROVE  \E a, b \in {0, 1} :
           /\ a = (IF Held(out).static_fd > 0 THEN 1 ELSE 0) /\ b = (IF Held(out).pipe THEN 1 ELSE 0)
           /\ Held(out).open = a + b
  <1>1. CASE out = "static_file_single"
    BY <1>1 DEF Held
  <1>2. CASE out = "static_file_rotate"
    BY <1>2 DEF Held
  <1>3. CASE out = "pipe"
    BY <1>3 DEF Held
  <1>4. CASE out \notin {"static_file_single", "static_file_rotate", "pipe"}
    BY <1>4 DEF Held
  <1> QED
    BY <1>1, <1>2, <1>3, <1>4

LEMMA LevelSet ==
  ASSUME NEW l, LevelsGood(l), NEW n \in 0 .. 255, NEW v, v # "null"
  PROVE  LevelsGood(ListSet(l, n, v))
  <1>1. Shaped(l, 256, 256) /\ 254 \in DOMAIN l.arr /\ l.arr[254] # "null"
    BY DEF LevelsGood
  <1>2. n < 2 * 256 /\ ~(n > 256 - 1) /\ ~(n >= 256)
    OBVIOUS
  <1>3. Shaped(ListSet(l, n, v), 256, 256)
    <2>1. PICK z \in Nat : z = 256
      OBVIOUS
    <2>2. Shaped(l, z, z) /\ n < 2 * z
      BY <1>1, <2>1
    <2>3. Shaped(ListSet(l, n, v), IF n > z - 1 THEN 2 * z ELSE z, IF n >= z THEN n + 1 ELSE z)
      BY <2>2, ListSetIs
    <2>4. ~(n > z - 1) /\ ~(n >= z)
      BY <2>1
    <2>5. Shaped(ListSet(l, n, v), z, z)
      BY <2>3, <2>4
    <2> QED
      BY <2>1, <2>5
  <1>4. ListSet(l, n, v).arr = [i \in DOMAIN l.arr \cup {n} |-> IF i = n THEN v ELSE l.arr[i]]
    BY DEF ListSet
  <1> QED
    BY <1>1, <1>3, <1>4 DEF LevelsGood

LEMMA RuleFirst == ASSUME ArraySize = 32 PROVE RuleInit => RuleInv
  BY DefaultLevels DEF RuleInit, RuleInv, LevelsGood

LEMMA MadeOut == ASSUME NEW r, NEW f, Made(r, f) PROVE r.out # "none"
  <1>1. PICK line \in Lines, level \in -1 .. 255, rec \in BOOLEAN : MadeOf(r, f, line, level, rec)
    BY DEF Made
  <1>2. r.out = OutputOf(line) /\ ~Refused(line)
    BY <1>1 DEF MadeOf
  <1> QED
    BY <1>2, OutputIs

LEMMA RuleStep == RuleInv /\ [RuleNext]_ruleVars => RuleInv'
  <1> SUFFICES ASSUME RuleInv, [RuleNext]_ruleVars PROVE RuleInv'
    OBVIOUS
  <1>0. LevelsGood(levels) /\ ((rule = NoRule /\ fdsOf = 0) \/ Made(rule, fdsOf))
    BY DEF RuleInv
  <1>1. CASE UNCHANGED ruleVars
    BY <1>0, <1>1 DEF ruleVars, RuleInv
  <1>2. ASSUME NEW n \in UserLevels, SetLevel(n) PROVE RuleInv'
    <2>1. LevelsGood(levels')
      <3>1. CASE LevelOk(n)
        <4>1. n \in 0 .. 255 /\ levels' = ListSet(levels, n, "user")
          BY <1>2, <3>1 DEF SetLevel, LevelOk
        <4> QED
          BY <1>0, <4>1, LevelSet
      <3>2. CASE ~LevelOk(n)
        BY <1>0, <1>2, <3>2 DEF SetLevel
      <3> QED
        BY <3>1, <3>2
    <2>2. UNCHANGED <<rule, fdsOf>>
      BY <1>2 DEF SetLevel
    <2> QED
      BY <1>0, <2>1, <2>2 DEF RuleInv
  <1>3. ASSUME NEW line \in Lines, NEW opened \in BOOLEAN, New(line, opened) PROVE RuleInv'
    <2>1. UNCHANGED levels
      BY <1>3 DEF New
    <2>2. CASE UNCHANGED <<rule, fdsOf>>
      BY <1>0, <2>1, <2>2 DEF RuleInv
    <2>3. CASE ~Refused(line) /\ rule' = RuleOf(line) /\ fdsOf' = fdsOf + Held(OutputOf(line)).open
      <3>1. fdsOf = 0
        <4>1. rule.out = "none"
          BY <1>3 DEF New
        <4> QED
          BY <1>0, <4>1, MadeOut
      <3>2. PICK h \in Int : h = Held(OutputOf(line)).open
        <4>1. PICK a \in {0, 1}, b \in {0, 1} : Held(OutputOf(line)).open = a + b
          BY HeldIs
        <4> QED
          BY <4>1
      <3>3. fdsOf' = h
        BY <2>3, <3>1, <3>2
      <3>4. DOMAIN levels.arr \subseteq 0 .. 255
        BY <1>0 DEF LevelsGood, Shaped
      <3>5. PICK level \in -1 .. 255 : level = LevelAtoi(line.level)
        BY <3>4, AtoiIs
      <3>6. MadeOf(rule', fdsOf', line, level, FALSE)
        BY <2>3, <3>2, <3>3, <3>5 DEF MadeOf, RuleOf
      <3>7. Made(rule', fdsOf')
        BY <3>6 DEF Made
      <3> QED
        BY <1>0, <2>1, <3>7 DEF RuleInv
    <2> QED
      BY <1>3, <2>2, <2>3 DEF New
  <1>4. ASSUME rule.out # "none"
        PROVE  \E line \in Lines, level \in -1 .. 255, rec \in BOOLEAN : MadeOf(rule, fdsOf, line, level, rec)
    <2>1. rule # NoRule
      BY <1>4 DEF NoRule
    <2> QED
      BY <1>0, <2>1 DEF Made
  <1>5. CASE RuleSetRecord
    <2>1. PICK line \in Lines, level \in -1 .. 255, rec \in BOOLEAN : MadeOf(rule, fdsOf, line, level, rec)
      BY <1>4, <1>5 DEF RuleSetRecord
    <2>2. PICK more \in BOOLEAN : rule' = [rule EXCEPT !.record = more]
      BY <1>5, Zenon DEF RuleSetRecord
    <2>3. UNCHANGED <<levels, fdsOf>>
      BY <1>5 DEF RuleSetRecord
    <2>4. MadeOf(rule', fdsOf', line, level, more)
      BY <2>1, <2>2, <2>3 DEF MadeOf
    <2>5. Made(rule', fdsOf')
      BY <2>4 DEF Made
    <2> QED
      BY <1>0, <2>3, <2>5 DEF RuleInv
  <1>6. CASE Del
    <2>1. PICK line \in Lines, level \in -1 .. 255, rec \in BOOLEAN : MadeOf(rule, fdsOf, line, level, rec)
      BY <1>4, <1>6 DEF Del
    <2>2. PICK out : out = OutputOf(line)
      OBVIOUS
    <2>3. rule.static_fd = Held(out).static_fd /\ rule.pipe = Held(out).pipe /\ fdsOf = Held(out).open
      BY <2>1, <2>2 DEF MadeOf
    <2>4. PICK a \in {0, 1}, b \in {0, 1} :
            /\ a = (IF Held(out).static_fd > 0 THEN 1 ELSE 0) /\ b = (IF Held(out).pipe THEN 1 ELSE 0)
            /\ Held(out).open = a + b
      BY HeldIs
    <2>5. fdsOf' = fdsOf - (IF rule.static_fd > 0 THEN 1 ELSE 0) - (IF rule.pipe THEN 1 ELSE 0)
      BY <1>6 DEF Del
    <2>6. fdsOf' = fdsOf - a - b
      BY <2>3, <2>4, <2>5, Zenon
    <2>7. fdsOf = a + b
      BY <2>3, <2>4
    <2>8. fdsOf' = 0
      BY <2>6, <2>7
    <2> QED
      BY <1>0, <1>6, <2>8 DEF RuleInv, Del
  <1> QED
    BY <1>1, <1>2, <1>3, <1>5, <1>6 DEF RuleNext

LEMMA AgreeWhileInv == RuleInv => RulesAgree
  <1> SUFFICES ASSUME RuleInv PROVE RulesAgree
    OBVIOUS
  <1>1. LevelsInArray
    <2>1. levels.past = FALSE /\ levels.len = 256 /\ 254 \in DOMAIN levels.arr /\ levels.arr[254] # "null"
      BY DEF RuleInv, LevelsGood, Shaped
    <2>2. 254 < levels.len
      BY <2>1
    <2>3. ListGet(levels, 254) # "null"
      BY <2>1, <2>2 DEF ListGet
    <2> QED
      BY <2>1, <2>3 DEF LevelsInArray, LevelGet
  <1>2. CASE rule = NoRule /\ fdsOf = 0
    BY <1>1, <1>2 DEF RulesAgree, BitmapAgrees, MatchesFamily, NothingLeftOpen, NoRule
  <1>3. CASE Made(rule, fdsOf)
    <2>1. PICK line \in Lines, level \in -1 .. 255, rec \in BOOLEAN : MadeOf(rule, fdsOf, line, level, rec)
      BY <1>3 DEF Made
    <2>2. /\ rule.category = line.category /\ rule.cmp = line.cmp
          /\ rule.level = level /\ rule.bitmap = Bitmap(line.cmp, level)
      BY <2>1 DEF MadeOf
    <2>3. line.cmp \in {"*", ".", "=", "!"} /\ line.category \in Seq(STRING) /\ line.category # <<>>
      BY LineIs
    <2>4. BitmapAgrees
      <3> SUFFICES ASSUME NEW l \in 0 .. 255 PROVE BitSet(rule, l) <=> Outputs(rule, l)
        BY DEF BitmapAgrees
      <3>1. BitSet(rule, l) <=> BitAt(Bitmap(line.cmp, level), l)
        BY <2>2 DEF BitSet, BitAt
      <3>2. PICK cmp \in {"*", ".", "=", "!"} : cmp = line.cmp
        BY <2>3
      <3>3. BitAt(Bitmap(cmp, level), l) <=> GoesOut(cmp, level, l)
        BY BitmapRight
      <3>4. Outputs(rule, l) <=> GoesOut(cmp, level, l)
        BY <2>2, <3>2 DEF GoesOut, Outputs
      <3> QED
        BY <3>1, <3>2, <3>3, <3>4
    <2>5. MatchesFamily
      BY <2>2, <2>3, MatchRight, LineIs DEF MatchesFamily
    <2>6. rule.out # "none"
      BY <1>3, MadeOut
    <2> QED
      BY <1>1, <2>4, <2>5, <2>6 DEF RulesAgree, NothingLeftOpen
  <1> QED
    BY <1>2, <1>3 DEF RuleInv

\* With the array size of the code, 32, no level is written outside the list and 254 keeps
\* its name; and whatever line a rule was made of, its bitmap and its comparison agree on
\* every level, it matches the categories that it should, and it leaves nothing open.
THEOREM RulesAlwaysAgree == ASSUME ArraySize = 32 PROVE RuleSpec => []RulesAgree
  <1>1. RuleInit => RuleInv
    BY RuleFirst
  <1>2. RuleInv /\ [RuleNext]_ruleVars => RuleInv'
    BY RuleStep
  <1>3. RuleInv => RulesAgree
    BY AgreeWhileInv
  <1> QED
    BY <1>1, <1>2, <1>3, PTL DEF RuleSpec
=============================================================================
