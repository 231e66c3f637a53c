----------------------------- MODULE EvIoProofs -----------------------------
(***************************************************************************)
(* Proofs about EvIo, for any descriptors, watchers and events: FdsSound.  *)
(*                                                                         *)
(* FdsSound speaks of the moment the loop polls.  What makes it hold is    *)
(* what the loop keeps at every moment, also while the program closes and  *)
(* opens files behind its back (KnownInv): unless the descriptor is marked *)
(* as set anew, what the loop believes it told the kernel is registered    *)
(* for the file open now, and nothing else carries its generation.  It     *)
(* rests on the kernel's side (GensInv): a generation is used once per     *)
(* descriptor, and the file open now is registered under the current one,  *)
(* with the mask the loop remembers or with one it has forgotten.          *)
(***************************************************************************)
EXTENDS EvIo, EvLoopProofs, SequenceTheorems

Flags == {"iofdset", "reify"}
Anfd == [head : Seq(IoWatchers), events : SUBSET Ev, reify : SUBSET Flags,
         emask : SUBSET {"read", "write", "eperm"}, egen : Nat]
Reg == [fd : Fds, file : Nat, mask : SUBSET Ev, gen : Nat]
Rep == [fd : Fds, file : Nat, gen : Nat, got : SUBSET Ev]
Pend == [w : IoWatchers \cup {"pending_w"}, events : SUBSET {"read", "write", "error"}, file : Nat]
IoPhases == {"ready", "reify", "process", "invoke"}

IoTypeOK ==
  /\ anfds \in [Fds -> Anfd]
  /\ fdchanges \in Seq(Fds) /\ eperms \in Seq(Fds) /\ ioPendings \in Seq(Pend)
  /\ reports \in SUBSET Rep /\ kernel \in SUBSET Reg /\ plain \in SUBSET Nat
  /\ ioPhase \in IoPhases /\ ioPostfork \in BOOLEAN
  /\ file \in [Fds -> Nat] /\ set \in [IoWatchers -> Nat] /\ opened \in Nat

\* A watcher is in one list, the one of its descriptor, and once.
HeadsInv ==
  \A f \in Fds :
    /\ \A i \in 1 .. Len(anfds[f].head) : FdOf[anfds[f].head[i]] = f
    /\ \A i, j \in 1 .. Len(anfds[f].head) : anfds[f].head[i] = anfds[f].head[j] => i = j

\* Files are numbered as they are opened, and epoll has none that it refuses.
FilesInv ==
  /\ \A f \in Fds : file[f] <= opened
  /\ \A x \in plain : x <= opened
  /\ \A w \in IoWatchers : set[w] <= opened
  /\ \A r \in kernel : r.file # 0 /\ r.file <= opened /\ r.file \notin plain

ChangesInv ==
  /\ \A f \in Fds : (anfds[f].reify # {}) <=> (f \in Rng(fdchanges))
  /\ \A i, j \in 1 .. Len(fdchanges) : fdchanges[i] = fdchanges[j] => i = j

GensInv ==
  /\ \A r \in kernel : r.gen <= anfds[r.fd].egen
  /\ \A r \in kernel : r.file = file[r.fd] =>
       r.gen = anfds[r.fd].egen /\ (r.mask = anfds[r.fd].emask \/ anfds[r.fd].emask = {})
  /\ \A r, s \in kernel : r.fd = s.fd /\ r.gen = s.gen => r = s

EpermInv == \A f \in Fds : "eperm" \in anfds[f].emask => f \in Rng(eperms)

\* A watcher was set for the file its descriptor has, unless that was closed.
SetInv == \A f \in Fds : \A w \in ActiveOn(f) : file[f] # 0 => set[w] = file[f]

Wants(f) == UNION {EventsOf[w] : w \in ActiveOn(f)}
EventsInv == \A f \in Fds : anfds[f].reify = {} => anfds[f].events = Wants(f)

\* The loop relies on what it told the kernel about f, and rightly.
Relied(f) ==
  /\ "iofdset" \notin anfds[f].reify /\ anfds[f].events # {} /\ file[f] # 0
  /\ \E w \in IoWatchers : FdOf[w] = f /\ set[w] = file[f]
Known(f) ==
  /\ \A r \in kernel : r.fd = f /\ r.gen = anfds[f].egen => r.file = file[f]
  /\ \A r \in reports : r.fd = f /\ r.gen = anfds[f].egen => r.file = file[f] /\ file[f] \notin plain
  /\ file[f] \in plain => "eperm" \in anfds[f].emask
  /\ file[f] \notin plain =>
       \E r \in kernel : r.fd = f /\ r.file = file[f] /\ r.mask = anfds[f].events /\ r.gen = anfds[f].egen
KnownInv == \A f \in Fds : Relied(f) => Known(f)

PhaseInv ==
  /\ ioPhase # "process" => reports = {}
  /\ ioPhase = "process" => fdchanges = <<>>
  /\ \A r \in reports : r.got # {}

\* NoStaleEvent for one entry, and for sequences of entries, of descriptors a with files fl.
Fresh(p, a, fl) ==
  p.w \in IoWatchers =>
    \/ "error" \in p.events
    \/ p.w \in Rng(a[FdOf[p.w]].head) /\ (fl[FdOf[p.w]] # 0 => p.file = fl[FdOf[p.w]])
FreshPendings(a, fl) == {p \in Seq(Pend) : \A i \in 1 .. Len(p) : Fresh(p[i], a, fl)}
PendInv == ioPendings \in FreshPendings(anfds, file)

IoInv == /\ IoTypeOK /\ HeadsInv /\ FilesInv /\ ChangesInv /\ GensInv /\ EpermInv
         /\ SetInv /\ EventsInv /\ KnownInv /\ PhaseInv /\ PendInv

----------------------------------------------------------------------------
(* The steps that touch neither the descriptors nor the kernel. *)

\* ioOps does not occur in the invariant.
ioState == <<anfds, fdchanges, eperms, ioPostfork, ioPendings, reports, ioPhase, file, plain, kernel, set, opened>>

\* A loop that was just made satisfies the invariant.
LEMMA IoInitInv ==
  ASSUME EvIoInit
  PROVE  IoInv
  <1>0. PICK a \in Anfd : a = [head |-> <<>>, events |-> {}, reify |-> {}, emask |-> {}, egen |-> 0]
    <2>1. <<>> \in Seq(IoWatchers)
      OBVIOUS
    <2>2. [head |-> <<>>, events |-> {}, reify |-> {}, emask |-> {}, egen |-> 0] \in Anfd
      BY <2>1 DEF Anfd
    <2> QED
      BY <2>2
  <1>01. anfds = [f \in Fds |-> a]
    BY <1>0 DEF EvIoInit
  <1>1. IoTypeOK
    <2>1. <<>> \in Seq(Fds) /\ <<>> \in Seq(Pend)
      OBVIOUS
    <2>2. anfds \in [Fds -> Anfd] /\ fdchanges \in Seq(Fds) /\ eperms \in Seq(Fds) /\ ioPendings \in Seq(Pend)
      BY <1>01, <2>1 DEF EvIoInit
    <2> QED
      BY <2>2 DEF EvIoInit, IoTypeOK, IoPhases
  <1>2. \A f \in Fds : anfds[f].head = <<>> /\ anfds[f].events = {} /\ anfds[f].reify = {} /\ anfds[f].emask = {}
    BY DEF EvIoInit
  <1>3. HeadsInv /\ EpermInv /\ PhaseInv /\ PendInv
    BY <1>2 DEF EvIoInit, HeadsInv, EpermInv, PhaseInv, PendInv, FreshPendings
  <1>4. FilesInv /\ GensInv
    BY DEF EvIoInit, FilesInv, GensInv
  <1>5. ChangesInv
    BY <1>2 DEF EvIoInit, ChangesInv, Rng
  <1>6. \A f \in Fds : ActiveOn(f) = {}
    BY <1>2 DEF ActiveOn, Rng
  <1>7. SetInv /\ EventsInv
    BY <1>2, <1>6 DEF SetInv, EventsInv, Wants
  <1>8. KnownInv
    BY <1>2 DEF KnownInv, Relied
  <1> QED
    BY <1>1, <1>3, <1>4, <1>5, <1>7, <1>8 DEF IoInv

\* The parts of the invariant that do not look at the phase, the reports or the pending events.
TableInv == HeadsInv /\ FilesInv /\ ChangesInv /\ GensInv /\ EpermInv /\ SetInv /\ EventsInv

\* What the descriptors, files and registrations satisfy stays if none of them changes.
LEMMA TableSame ==
  ASSUME TableInv, UNCHANGED <<anfds, fdchanges, eperms, file, plain, kernel, set, opened>>
  PROVE  TableInv'
  <1>1. HeadsInv' /\ FilesInv'
    BY DEF TableInv, HeadsInv, FilesInv
  <1>2. ChangesInv' /\ EpermInv'
    BY DEF TableInv, ChangesInv, EpermInv, Rng
  <1>3. GensInv'
    BY DEF TableInv, GensInv
  <1>4. SetInv' /\ EventsInv'
    BY DEF TableInv, SetInv, EventsInv, Wants, ActiveOn
  <1> QED
    BY <1>1, <1>2, <1>3, <1>4 DEF TableInv

\* A step that changes nothing but the count of operations keeps the invariant.
LEMMA IoStutter ==
  ASSUME IoInv, UNCHANGED ioState
  PROVE  IoInv'
  <1>1. TableInv'
    BY TableSame DEF IoInv, TableInv, ioState
  <1>2. IoTypeOK' /\ PhaseInv'
    BY DEF IoInv, IoTypeOK, PhaseInv, ioState
  <1>3. KnownInv'
    BY DEF IoInv, KnownInv, Relied, Known, ioState
  <1>4. PendInv'
    BY DEF IoInv, PendInv, ioState
  <1> QED
    BY <1>1, <1>2, <1>3, <1>4 DEF IoInv, TableInv

\* Entries that were fresh are so in another state, if each of them is.
LEMMA FreshStays ==
  ASSUME NEW a, NEW fl, NEW b, NEW gl, NEW q \in FreshPendings(a, fl),
         \A p \in Pend : Fresh(p, a, fl) => Fresh(p, b, gl)
  PROVE  q \in FreshPendings(b, gl)
  <1>1. q \in Seq(Pend) /\ \A i \in 1 .. Len(q) : Fresh(q[i], a, fl)
    BY DEF FreshPendings
  <1>2. \A i \in 1 .. Len(q) : q[i] \in Pend
    BY <1>1
  <1>3. \A i \in 1 .. Len(q) : Fresh(q[i], b, gl)
    BY <1>1, <1>2
  <1> QED
    BY <1>1, <1>3 DEF FreshPendings

\* An iteration that begins without a fork, or ends.
LEMMA BeginKeeps ==
  ASSUME IoInv, Begin \/ IoIterate
  PROVE  IoInv'
  <1>0. UNCHANGED <<anfds, fdchanges, eperms, ioPostfork, ioPendings, reports, file, plain, kernel, set, opened>>
        /\ ioPhase # "process" /\ ioPhase' \in {"ready", "reify"}
    BY DEF Begin, IoIterate
  <1>1. TableInv'
    BY <1>0, TableSame DEF IoInv, TableInv
  <1>2. IoTypeOK' /\ PhaseInv'
    BY <1>0 DEF IoInv, IoTypeOK, PhaseInv, IoPhases
  <1>3. KnownInv'
    BY <1>0 DEF IoInv, KnownInv, Relied, Known
  <1>4. PendInv'
    BY <1>0 DEF IoInv, PendInv
  <1> QED
    BY <1>1, <1>2, <1>3, <1>4 DEF IoInv, TableInv

\* ev_invoke_pending: what is left of the events is as fresh as it was.
LEMMA IoInvokeKeeps ==
  ASSUME IoInv, IoInvoke
  PROVE  IoInv'
  <1>0. UNCHANGED <<anfds, fdchanges, eperms, ioPostfork, reports, ioPhase, file, plain, kernel, set, opened>>
    BY DEF IoInvoke
  <1>1. TableInv'
    BY <1>0, TableSame DEF IoInv, TableInv
  <1>20. ioPendings \in Seq(Pend) /\ ioPendings # <<>>
    BY DEF IoInv, IoTypeOK, IoInvoke
  <1>21. PICK n \in Nat : n = Len(ioPendings) - 1
    BY <1>20
  <1>22. ioPendings' = SubSeq(ioPendings, 1, n) /\ n <= Len(ioPendings)
    BY <1>20, <1>21 DEF IoInvoke
  <1>23. /\ ioPendings' \in Seq(Pend) /\ Len(ioPendings') = n
         /\ \A i \in 1 .. n : i \in 1 .. Len(ioPendings) /\ ioPendings'[i] = ioPendings[i]
    BY <1>20, <1>21, <1>22
  <1>2. IoTypeOK' /\ PhaseInv'
    BY <1>0, <1>23 DEF IoInv, IoTypeOK, PhaseInv
  <1>3. KnownInv'
    BY <1>0 DEF IoInv, KnownInv, Relied, Known
  <1>4. PendInv'
    BY <1>0, <1>23 DEF IoInv, PendInv, FreshPendings
  <1> QED
    BY <1>1, <1>2, <1>3, <1>4 DEF IoInv, TableInv

\* epoll_wait: a report carries the generation and the file of a registration, so that one of the
\* current generation is for the file open now.
LEMMA IoPollKeeps ==
  ASSUME IoInv, IoPoll
  PROVE  IoInv'
  <1>0. UNCHANGED <<anfds, fdchanges, eperms, ioPostfork, ioPendings, file, plain, kernel, set, opened>>
        /\ ioPhase' = "process" /\ fdchanges = <<>>
    BY DEF IoPoll
  <1>1. TableInv'
    BY <1>0, TableSame DEF IoInv, TableInv
  <1>2. ASSUME NEW p \in reports'
        PROVE  /\ p \in Rep /\ p.got # {}
               /\ \E r \in kernel : p.fd = r.fd /\ p.file = r.file /\ p.gen = r.gen
    <2>1. PICK ready \in [kernel -> SUBSET Ev], hup \in SUBSET kernel :
            reports' = {[fd |-> r.fd, file |-> r.file, gen |-> r.gen,
                         got |-> IF r \in hup THEN Ev ELSE r.mask \cap ready[r]] :
                          r \in {k \in kernel : k \in hup \/ k.mask \cap ready[k] # {}}}
      BY DEF IoPoll
    <2>2. PICK r \in kernel : (r \in hup \/ r.mask \cap ready[r] # {})
            /\ p = [fd |-> r.fd, file |-> r.file, gen |-> r.gen, got |-> IF r \in hup THEN Ev ELSE r.mask \cap ready[r]]
      BY <2>1
    <2>3. r \in Reg
      BY <2>2 DEF IoInv, IoTypeOK
    <2>4. PICK g \in SUBSET Ev : g = IF r \in hup THEN Ev ELSE r.mask \cap ready[r]
      BY <2>1, <2>2
    <2>5. g # {}
      BY <2>2, <2>4 DEF Ev
    <2>6. r.fd \in Fds /\ r.file \in Nat /\ r.gen \in Nat
      BY <2>3 DEF Reg
    <2>7. p = [fd |-> r.fd, file |-> r.file, gen |-> r.gen, got |-> g]
      BY <2>2, <2>4
    <2> HIDE DEF Ev
    <2> QED
      BY <2>2, <2>5, <2>6, <2>7 DEF Rep
  <1>3. reports' \in SUBSET Rep
    BY <1>2
  <1>4. IoTypeOK' /\ PhaseInv'
    BY <1>0, <1>2, <1>3 DEF IoInv, IoTypeOK, PhaseInv, IoPhases
  <1>5. ASSUME NEW f \in Fds, Relied(f)' PROVE Known(f)'
    <2>1. Relied(f)
      BY <1>0, <1>5 DEF Relied
    <2>2. Known(f)
      BY <2>1 DEF IoInv, KnownInv
    <2>3. ASSUME NEW p \in reports', p.fd = f, p.gen = anfds[f].egen
          PROVE  p.file = file[f] /\ file[f] \notin plain
      <3>1. PICK r \in kernel : p.fd = r.fd /\ p.file = r.file /\ p.gen = r.gen
        BY <1>2
      <3>2. r.file = file[f]
        BY <2>2, <2>3, <3>1 DEF Known
      <3> QED
        BY <3>1, <3>2 DEF IoInv, FilesInv
    <2> QED
      BY <1>0, <2>2, <2>3 DEF Known
  <1>6. KnownInv'
    BY <1>5 DEF KnownInv
  <1>7. PendInv'
    BY <1>0 DEF IoInv, PendInv
  <1> QED
    BY <1>1, <1>4, <1>6, <1>7 DEF IoInv, TableInv

----------------------------------------------------------------------------
(* The program opens and closes files. *)

LEMMA CloseKeeps ==
  ASSUME IoInv, NEW d \in Fds, Close(d)
  PROVE  IoInv'
  <1>0. /\ UNCHANGED <<anfds, fdchanges, eperms, ioPostfork, ioPendings, reports, ioPhase, plain, set, opened>>
        /\ file' = [file EXCEPT ![d] = 0] /\ kernel' = kernel \ Registered(kernel, d)
        /\ ioPhase # "process"
    BY DEF Close, MayCallIo
  <1>1. file \in [Fds -> Nat] /\ kernel \in SUBSET Reg /\ reports = {} /\ \A r \in kernel : r.fd \in Fds
    BY <1>0 DEF IoInv, IoTypeOK, PhaseInv, Reg
  <1>2. file' \in [Fds -> Nat] /\ file'[d] = 0 /\ \A f \in Fds : f # d => file'[f] = file[f]
    BY <1>0, <1>1
  <1>3. kernel' \subseteq kernel /\ \A r \in kernel : r.fd # d => r \in kernel'
    BY <1>0 DEF Registered
  <1>4. IoTypeOK' /\ PhaseInv'
    BY <1>0, <1>2, <1>3 DEF IoInv, IoTypeOK, PhaseInv
  <1>5. HeadsInv' /\ ChangesInv' /\ EpermInv' /\ EventsInv'
    BY <1>0 DEF IoInv, HeadsInv, ChangesInv, EpermInv, EventsInv, Wants, ActiveOn
  <1>6. FilesInv'
    <2>1. opened \in Nat /\ \A f \in Fds : file[f] <= opened
      BY DEF IoInv, FilesInv, IoTypeOK
    <2> QED
      BY <1>0, <1>2, <1>3, <2>1 DEF IoInv, FilesInv
  <1>7. GensInv'
    <2>1. ASSUME NEW r \in kernel', r.file = file'[r.fd]
          PROVE  r.gen = anfds[r.fd].egen /\ (r.mask = anfds[r.fd].emask \/ anfds[r.fd].emask = {})
      <3>1. r \in kernel /\ r.fd \in Fds /\ r.file # 0
        BY <1>1, <1>3 DEF IoInv, FilesInv
      <3>2. r.file = file[r.fd]
        BY <1>2, <2>1, <3>1
      <3> QED
        BY <3>1, <3>2 DEF IoInv, GensInv
    <2> QED
      BY <1>0, <1>3, <2>1 DEF IoInv, GensInv
  <1>8. SetInv'
    BY <1>0, <1>2 DEF IoInv, SetInv, ActiveOn
  <1>9. ASSUME NEW f \in Fds, Relied(f)' PROVE Known(f)'
    <2>1. f # d /\ file'[f] = file[f]
      BY <1>2, <1>9 DEF Relied
    <2>2. Relied(f)
      BY <1>0, <1>9, <2>1 DEF Relied
    <2>3. Known(f)
      BY <2>2 DEF IoInv, KnownInv
    <2> QED
      BY <1>0, <1>1, <1>3, <2>1, <2>3 DEF Known
  <1>10. PendInv'
    <2>1. ASSUME NEW p \in Pend, Fresh(p, anfds, file) PROVE Fresh(p, anfds, file')
      <3>1. p.w \in IoWatchers => FdOf[p.w] \in Fds
        BY EvIoAssumption
      <3> QED
        BY <1>2, <2>1, <3>1 DEF Fresh
    <2>2. ioPendings \in FreshPendings(anfds, file')
      BY <2>1, FreshStays DEF IoInv, PendInv
    <2> QED
      BY <1>0, <2>2 DEF PendInv
  <1> QED
    BY <1>4, <1>5, <1>6, <1>7, <1>8, <1>9, <1>10 DEF IoInv, KnownInv

\* The program opens a file at a descriptor nobody watches: the loop relies on it no longer,
\* since no watcher of the descriptor was set for the new file.
LEMMA OpenKeeps ==
  ASSUME IoInv, NEW d \in Fds, NEW refused \in BOOLEAN, NEW leaked \in BOOLEAN, Open(d, refused, leaked)
  PROVE  IoInv'
  <1>0. /\ UNCHANGED <<anfds, fdchanges, eperms, ioPostfork, ioPendings, reports, ioPhase, set>>
        /\ opened' = opened + 1 /\ file' = [file EXCEPT ![d] = opened + 1]
        /\ plain' = IF refused THEN plain \cup {opened + 1} ELSE plain
        /\ kernel' = IF leaked THEN kernel ELSE kernel \ Registered(kernel, d)
        /\ ioPhase # "process" /\ ActiveOn(d) = {}
    BY DEF Open, MayCallIo
  <1>1. /\ file \in [Fds -> Nat] /\ kernel \in SUBSET Reg /\ reports = {} /\ \A r \in kernel : r.fd \in Fds /\ r.file \in Nat
        /\ opened \in Nat /\ plain \in SUBSET Nat /\ set \in [IoWatchers -> Nat]
    BY <1>0 DEF IoInv, IoTypeOK, PhaseInv, Reg
  <1>2. PICK new \in Nat : new = opened + 1
    BY <1>1
  <1>3. file' \in [Fds -> Nat] /\ file'[d] = new /\ \A f \in Fds : f # d => file'[f] = file[f]
    BY <1>0, <1>1, <1>2
  <1>4. kernel' \subseteq kernel /\ \A r \in kernel : r.fd # d => r \in kernel'
    BY <1>0 DEF Registered
  <1>5. plain' \subseteq plain \cup {new} /\ plain \subseteq plain' /\ plain' \in SUBSET Nat
    BY <1>0, <1>1, <1>2
  <1>51. /\ \A f \in Fds : file[f] <= opened /\ file[f] # new
         /\ \A x \in plain : x <= opened
         /\ \A w \in IoWatchers : set[w] <= opened /\ set[w] # new
         /\ \A r \in kernel : r.file # 0 /\ r.file <= opened /\ r.file # new /\ r.file \notin plain'
    BY <1>1, <1>2, <1>5 DEF IoInv, FilesInv
  <1>6. IoTypeOK' /\ PhaseInv'
    BY <1>0, <1>2, <1>3, <1>4, <1>5 DEF IoInv, IoTypeOK, PhaseInv
  <1>7. HeadsInv' /\ ChangesInv' /\ EpermInv' /\ EventsInv'
    BY <1>0 DEF IoInv, HeadsInv, ChangesInv, EpermInv, EventsInv, Wants, ActiveOn
  <1>8. FilesInv'
    <2>1. \A f \in Fds : file'[f] <= new
      BY <1>1, <1>2, <1>3, <1>51
    <2>2. \A x \in plain' : x <= new
      BY <1>1, <1>2, <1>5, <1>51
    <2>3. \A w \in IoWatchers : set[w] <= new
      BY <1>1, <1>2, <1>51
    <2>4. \A r \in kernel' : r.file # 0 /\ r.file <= new /\ r.file \notin plain'
      BY <1>1, <1>2, <1>4, <1>51
    <2> QED
      BY <1>0, <1>2, <2>1, <2>2, <2>3, <2>4 DEF FilesInv
  <1>9. GensInv'
    <2>1. ASSUME NEW r \in kernel', r.file = file'[r.fd]
          PROVE  r.gen = anfds[r.fd].egen /\ (r.mask = anfds[r.fd].emask \/ anfds[r.fd].emask = {})
      <3>1. r \in kernel /\ r.fd \in Fds /\ r.file # new
        BY <1>1, <1>4, <1>51
      <3>2. r.file = file[r.fd]
        BY <1>3, <2>1, <3>1
      <3> QED
        BY <3>1, <3>2 DEF IoInv, GensInv
    <2> QED
      BY <1>0, <1>4, <2>1 DEF IoInv, GensInv
  <1>10. SetInv'
    BY <1>0, <1>3 DEF IoInv, SetInv, ActiveOn
  <1>11. ASSUME NEW f \in Fds, Relied(f)' PROVE Known(f)'
    <2>1. f # d /\ file'[f] = file[f]
      BY <1>0, <1>3, <1>11, <1>51 DEF Relied
    <2>2. Relied(f)
      BY <1>0, <1>11, <2>1 DEF Relied
    <2>3. Known(f)
      BY <2>2 DEF IoInv, KnownInv
    <2>4. file[f] \in plain' <=> file[f] \in plain
      BY <1>5, <1>51
    <2> QED
      BY <1>0, <1>1, <1>4, <2>1, <2>3, <2>4 DEF Known
  <1>12. PendInv'
    <2>1. ASSUME NEW p \in Pend, Fresh(p, anfds, file) PROVE Fresh(p, anfds, file')
      <3>1. p.w \in IoWatchers => FdOf[p.w] \in Fds
        BY EvIoAssumption
      <3> QED
        BY <1>0, <1>3, <2>1, <3>1 DEF Fresh, ActiveOn
    <2>2. ioPendings \in FreshPendings(anfds, file')
      BY <2>1, FreshStays DEF IoInv, PendInv
    <2> QED
      BY <1>0, <2>2 DEF PendInv
  <1> QED
    BY <1>6, <1>7, <1>8, <1>9, <1>10, <1>11, <1>12 DEF IoInv, KnownInv

----------------------------------------------------------------------------
(* A list of descriptors or of watchers that changes. *)

\* Something that is not in a list without repetitions is appended to it.
LEMMA AppendOnce ==
  ASSUME NEW S, NEW c \in Seq(S), NEW x \in S, x \notin Rng(c),
         \A i, j \in 1 .. Len(c) : c[i] = c[j] => i = j
  PROVE  /\ Append(c, x) \in Seq(S) /\ Rng(Append(c, x)) = Rng(c) \cup {x}
         /\ \A i, j \in 1 .. Len(Append(c, x)) : Append(c, x)[i] = Append(c, x)[j] => i = j
  <1>1. PICK e \in Seq(S) : e = Append(c, x)
    <2>1. Append(c, x) \in Seq(S)
      BY AppendProperties
    <2> QED
      BY <2>1
  <1>2. PICK n \in Nat : n = Len(c)
    OBVIOUS
  <1>3. Len(e) = n + 1 /\ e[n + 1] = x /\ \A i \in 1 .. n : e[i] = c[i]
    BY <1>1, <1>2
  <1>4. DOMAIN c = 1 .. n /\ DOMAIN e = 1 .. (n + 1)
    BY <1>1, <1>2, <1>3
  <1>5. \A y : y \in Rng(c) <=> \E i \in 1 .. n : c[i] = y
    BY <1>4 DEF Rng
  <1>6. \A y : y \in Rng(e) <=> \E i \in 1 .. (n + 1) : e[i] = y
    BY <1>4 DEF Rng
  <1>7. \A i \in 1 .. (n + 1) : i \in 1 .. n \/ i = n + 1
    BY <1>2
  <1>8. 1 .. n \subseteq 1 .. (n + 1) /\ n + 1 \in 1 .. (n + 1)
    BY <1>2
  <1>9. \A y : y \in Rng(e) <=> y \in Rng(c) \cup {x}
    BY <1>3, <1>5, <1>6, <1>7, <1>8
  <1>10. \A i, j \in 1 .. (n + 1) : e[i] = e[j] => i = j
    BY <1>2, <1>3, <1>5, <1>7
  <1> QED
    BY <1>1, <1>3, <1>9, <1>10

\* wlist_add: the watcher is the first.
LEMMA FirstOnce ==
  ASSUME NEW S, NEW c \in Seq(S), NEW x \in S, x \notin Rng(c),
         \A i, j \in 1 .. Len(c) : c[i] = c[j] => i = j
  PROVE  /\ <<x>> \o c \in Seq(S) /\ Rng(<<x>> \o c) = Rng(c) \cup {x}
         /\ \A i, j \in 1 .. Len(<<x>> \o c) : (<<x>> \o c)[i] = (<<x>> \o c)[j] => i = j
  <1>1. PICK e \in Seq(S) : e = <<x>> \o c
    <2>1. <<x>> \in Seq(S)
      OBVIOUS
    <2>2. <<x>> \o c \in Seq(S)
      BY <2>1, ConcatProperties
    <2> QED
      BY <2>2
  <1>2. PICK n \in Nat : n = Len(c)
    OBVIOUS
  <1>3. Len(e) = n + 1 /\ e[1] = x /\ \A i \in 2 .. (n + 1) : e[i] = c[i - 1]
    BY <1>1, <1>2
  <1>4. DOMAIN c = 1 .. n /\ DOMAIN e = 1 .. (n + 1)
    BY <1>1, <1>2, <1>3
  <1>5. \A y : y \in Rng(c) <=> \E i \in 1 .. n : c[i] = y
    BY <1>4 DEF Rng
  <1>6. \A y : y \in Rng(e) <=> \E i \in 1 .. (n + 1) : e[i] = y
    BY <1>4 DEF Rng
  <1>7. \A i \in 1 .. (n + 1) : (i \in 2 .. (n + 1) /\ i - 1 \in 1 .. n) \/ i = 1
    BY <1>2
  <1>8. \A i \in 1 .. n : i + 1 \in 2 .. (n + 1) /\ i + 1 \in 1 .. (n + 1) /\ e[i + 1] = c[i]
    BY <1>2, <1>3
  <1>81. 1 \in 1 .. (n + 1)
    BY <1>2
  <1>9. ASSUME NEW y PROVE y \in Rng(e) <=> y \in Rng(c) \cup {x}
    <2>1. ASSUME y \in Rng(e) PROVE y \in Rng(c) \cup {x}
      BY <1>3, <1>5, <1>6, <1>7, <2>1
    <2>2. ASSUME y \in Rng(c) PROVE y \in Rng(e)
      BY <1>5, <1>6, <1>8, <2>2
    <2>3. x \in Rng(e)
      BY <1>3, <1>6, <1>81
    <2> QED
      BY <2>1, <2>2, <2>3
  <1>10. ASSUME NEW i \in 1 .. (n + 1), NEW j \in 1 .. (n + 1), e[i] = e[j] PROVE i = j
    <2>1. i = 1 => j = 1
      BY <1>3, <1>5, <1>7, <1>10
    <2>2. j = 1 => i = 1
      BY <1>3, <1>5, <1>7, <1>10
    <2>3. i # 1 /\ j # 1 => c[i - 1] = c[j - 1] /\ i - 1 \in 1 .. n /\ j - 1 \in 1 .. n
      BY <1>3, <1>7, <1>10
    <2>4. i # 1 /\ j # 1 => i - 1 = j - 1
      BY <1>2, <2>3
    <2> QED
      BY <2>1, <2>2, <2>4
  <1> QED
    BY <1>1, <1>3, <1>9, <1>10

\* wlist_del: the watcher is gone and the others stay.
LEMMA WithoutOnce ==
  ASSUME NEW S, NEW c \in Seq(S), NEW x \in Rng(c),
         \A i, j \in 1 .. Len(c) : c[i] = c[j] => i = j
  PROVE  /\ Without(c, x) \in Seq(S) /\ Rng(Without(c, x)) = Rng(c) \ {x}
         /\ \A i, j \in 1 .. Len(Without(c, x)) : Without(c, x)[i] = Without(c, x)[j] => i = j
  <1>1. PICK n \in Nat : n = Len(c)
    OBVIOUS
  <1>2. DOMAIN c = 1 .. n
    BY <1>1
  <1>3. PICK k \in 1 .. n : k = CHOOSE i \in DOMAIN c : c[i] = x
    BY <1>2 DEF Rng
  <1>4. c[k] = x
    BY <1>2, <1>3 DEF Rng
  <1>5. PICK u \in Seq(S) : u = SubSeq(c, 1, k - 1) /\ Len(u) = k - 1 /\ \A i \in 1 .. (k - 1) : u[i] = c[i]
    <2>1. 1 \in Int /\ k - 1 \in Int /\ \A i \in 1 .. (k - 1) : i \in 1 .. Len(c) /\ c[i] \in S
      BY <1>1
    <2>2. /\ SubSeq(c, 1, k - 1) \in Seq(S) /\ Len(SubSeq(c, 1, k - 1)) = IF 1 <= k - 1 THEN (k - 1) - 1 + 1 ELSE 0
          /\ \A i \in 1 .. ((k - 1) - 1 + 1) : SubSeq(c, 1, k - 1)[i] = c[1 + i - 1]
      BY <2>1, SubSeqProperties
    <2>3. PICK u \in Seq(S) : u = SubSeq(c, 1, k - 1)
      BY <2>2
    <2>4. Len(u) = k - 1
      BY <2>2, <2>3
    <2>5. ASSUME NEW i \in 1 .. (k - 1) PROVE u[i] = c[i]
      <3>1. i \in 1 .. ((k - 1) - 1 + 1) /\ 1 + i - 1 = i
        OBVIOUS
      <3> QED
        BY <2>2, <2>3, <3>1
    <2> QED
      BY <2>3, <2>4, <2>5
  <1>6. PICK v \in Seq(S) : v = SubSeq(c, k + 1, n) /\ Len(v) = n - k /\ \A i \in 1 .. (n - k) : v[i] = c[i + k]
    <2>1. k + 1 \in Int /\ n \in Int /\ \A i \in (k + 1) .. n : i \in 1 .. Len(c) /\ c[i] \in S
      BY <1>1
    <2>2. /\ SubSeq(c, k + 1, n) \in Seq(S) /\ Len(SubSeq(c, k + 1, n)) = IF k + 1 <= n THEN n - (k + 1) + 1 ELSE 0
          /\ \A i \in 1 .. (n - (k + 1) + 1) : SubSeq(c, k + 1, n)[i] = c[(k + 1) + i - 1]
      BY <2>1, SubSeqProperties
    <2>3. PICK v \in Seq(S) : v = SubSeq(c, k + 1, n)
      BY <2>2
    <2>4. Len(v) = n - k
      BY <2>2, <2>3
    <2>5. ASSUME NEW i \in 1 .. (n - k) PROVE v[i] = c[i + k]
      <3>1. i \in 1 .. (n - (k + 1) + 1) /\ (k + 1) + i - 1 = i + k
        OBVIOUS
      <3> QED
        BY <2>2, <2>3, <3>1
    <2> QED
      BY <2>3, <2>4, <2>5
  <1>7. Len(u) = k - 1 /\ \A i \in 1 .. (k - 1) : u[i] = c[i]
    BY <1>5
  <1>8. Len(v) = n - k /\ \A i \in 1 .. (n - k) : v[i] = c[i + k]
    BY <1>6
  <1>9. PICK e \in Seq(S) : e = u \o v
    <2>1. u \o v \in Seq(S)
      BY <1>5, <1>6, ConcatProperties
    <2> QED
      BY <2>1
  <1>91. /\ Len(e) = Len(u) + Len(v)
         /\ \A i \in 1 .. Len(u) + Len(v) : e[i] = IF i <= Len(u) THEN u[i] ELSE v[i - Len(u)]
    BY <1>5, <1>6, <1>9, ConcatProperties
  <1>10. e = Without(c, x)
    BY <1>1, <1>3, <1>5, <1>6, <1>9 DEF Without
  <1> k \in Nat /\ n \in Nat /\ 1 <= k /\ k <= n
    BY <1>1
  <1>11. /\ Len(e) = n - 1
         /\ \A i \in 1 .. (n - 1) : e[i] = IF i < k THEN c[i] ELSE c[i + 1]
    <2>1. Len(e) = (k - 1) + (n - k)
      BY <1>1, <1>7, <1>8, <1>91
    <2>2. ASSUME NEW i \in 1 .. (n - 1) PROVE e[i] = IF i < k THEN c[i] ELSE c[i + 1]
      <3>1. CASE i < k
        <4>1. i \in 1 .. Len(u) + Len(v) /\ i <= Len(u) /\ i \in 1 .. (k - 1)
          BY <1>7, <1>8, <3>1
        <4>2. e[i] = u[i]
          BY <1>91, <4>1
        <4> QED
          BY <1>7, <3>1, <4>1, <4>2
      <3>2. CASE ~(i < k)
        <4>1. i - (k - 1) \in 1 .. (n - k) /\ (i - (k - 1)) + k = i + 1
          BY <1>1, <3>2
        <4>2. e[i] = v[i - (k - 1)]
          BY <1>1, <1>7, <1>8, <1>91, <3>2, SMTT(30)
        <4> QED
          BY <1>8, <3>2, <4>1, <4>2
      <3> QED
        BY <3>1, <3>2
    <2> QED
      BY <1>1, <2>1, <2>2
  <1> DEFINE up(i) == IF i < k THEN i ELSE i + 1
  <1>12. ASSUME NEW i \in 1 .. (n - 1) PROVE up(i) \in 1 .. n /\ up(i) # k /\ e[i] = c[up(i)]
    <2>1. CASE i < k
      BY <1>1, <1>11, <2>1
    <2>2. CASE ~(i < k)
      BY <1>1, <1>11, <2>2
    <2> QED
      BY <2>1, <2>2
  <1>13. \A i, j \in 1 .. (n - 1) : up(i) = up(j) => i = j
    BY <1>1
  <1>14. \A m \in 1 .. n : m # k => \E i \in 1 .. (n - 1) : up(i) = m
    <2>1. ASSUME NEW m \in 1 .. n, m # k PROVE \E i \in 1 .. (n - 1) : up(i) = m
      <3>1. CASE m < k
        <4>1. m \in 1 .. (n - 1) /\ up(m) = m
          BY <1>1, <3>1
        <4> QED
          BY <4>1
      <3>2. CASE m > k
        <4>1. m - 1 \in 1 .. (n - 1) /\ up(m - 1) = m
          BY <1>1, <3>2
        <4> QED
          BY <4>1
      <3>3. m < k \/ m > k
        BY <1>1, <2>1
      <3> QED
        BY <3>1, <3>2, <3>3
    <2> QED
      BY <2>1
  <1> HIDE DEF up
  <1>15. DOMAIN e = 1 .. (n - 1)
    BY <1>9, <1>11
  <1>16. \A y : y \in Rng(e) <=> \E i \in 1 .. (n - 1) : e[i] = y
    BY <1>15 DEF Rng
  <1>17. \A y : y \in Rng(c) <=> \E i \in 1 .. n : c[i] = y
    BY <1>2 DEF Rng
  <1>18. ASSUME NEW y PROVE y \in Rng(e) <=> y \in Rng(c) \ {x}
    <2>1. ASSUME y \in Rng(e) PROVE y \in Rng(c) \ {x}
      <3>1. PICK i \in 1 .. (n - 1) : e[i] = y
        BY <1>16, <2>1
      <3>2. up(i) \in 1 .. n /\ up(i) # k /\ c[up(i)] = y
        BY <1>12, <3>1
      <3> QED
        BY <1>1, <1>4, <1>17, <3>2
    <2>2. ASSUME y \in Rng(c), y # x PROVE y \in Rng(e)
      <3>1. PICK m \in 1 .. n : c[m] = y
        BY <1>17, <2>2
      <3>2. m # k
        BY <1>4, <2>2, <3>1
      <3>3. PICK i \in 1 .. (n - 1) : up(i) = m
        BY <1>14, <3>2
      <3> QED
        BY <1>12, <1>16, <3>1, <3>3
    <2> QED
      BY <2>1, <2>2
  <1>19. \A i, j \in 1 .. (n - 1) : e[i] = e[j] => i = j
    BY <1>1, <1>12, <1>13, SMTT(30)
  <1> QED
    BY <1>10, <1>11, <1>18, <1>19

----------------------------------------------------------------------------
(* The program starts and stops watchers. *)

\* What fd_change leaves after the list of watchers of d has become h.
Relisted(d, h, flags) ==
  LET c == FdChange([anfds EXCEPT ![d].head = h], fdchanges, d, flags)
  IN anfds' = c.anfds /\ fdchanges' = c.changes

\* What it leaves field by field.
LEMMA RelistedTable ==
  ASSUME IoTypeOK, NEW d \in Fds, NEW h \in Seq(IoWatchers), NEW flags \in SUBSET Flags,
         Relisted(d, h, flags)
  PROVE  /\ anfds' \in [Fds -> Anfd]
         /\ anfds'[d].head = h /\ anfds'[d].reify = anfds[d].reify \cup flags
         /\ anfds'[d].events = anfds[d].events /\ anfds'[d].emask = anfds[d].emask
         /\ anfds'[d].egen = anfds[d].egen
         /\ \A f \in Fds : f # d => anfds'[f] = anfds[f]
         /\ fdchanges' = IF anfds[d].reify = {} THEN Append(fdchanges, d) ELSE fdchanges
  <1>1. anfds \in [Fds -> Anfd] /\ anfds[d] \in Anfd
    BY DEF IoTypeOK
  <1>2. PICK a \in Anfd : a = [anfds[d] EXCEPT !.head = h]
    BY <1>1 DEF Anfd
  <1>3. PICK t \in [Fds -> Anfd] : t = [anfds EXCEPT ![d] = a]
    BY <1>1
  <1>4. t = [anfds EXCEPT ![d].head = h]
    BY <1>1, <1>2, <1>3
  <1>5. t[d] = a /\ \A f \in Fds : f # d => t[f] = anfds[f]
    BY <1>1, <1>3
  <1>6. a.head = h /\ a.reify = anfds[d].reify /\ a.events = anfds[d].events
        /\ a.emask = anfds[d].emask /\ a.egen = anfds[d].egen
    BY <1>1, <1>2 DEF Anfd
  <1>7. PICK b \in Anfd : b = [a EXCEPT !.reify = @ \cup flags]
    BY <1>2 DEF Anfd
  <1>8. /\ b.head = a.head /\ b.reify = a.reify \cup flags /\ b.events = a.events
        /\ b.emask = a.emask /\ b.egen = a.egen
    BY <1>2, <1>7 DEF Anfd
  <1>9. anfds' = [t EXCEPT ![d] = b]
    <2>1. anfds' = [t EXCEPT ![d].reify = @ \cup flags]
      BY <1>4 DEF Relisted, FdChange
    <2> QED
      BY <1>5, <1>7, <2>1
  <1>10. anfds' \in [Fds -> Anfd] /\ anfds'[d] = b /\ \A f \in Fds : f # d => anfds'[f] = anfds[f]
    BY <1>3, <1>5, <1>7, <1>9
  <1>11. fdchanges' = IF anfds[d].reify = {} THEN Append(fdchanges, d) ELSE fdchanges
    <2>1. fdchanges' = IF t[d].reify = {} THEN Append(fdchanges, d) ELSE fdchanges
      BY <1>4 DEF Relisted, FdChange
    <2> QED
      BY <1>5, <1>6, <2>1
  <1> QED
    BY <1>6, <1>8, <1>10, <1>11

\* The parts that do not depend on who watches.
LEMMA RelistedKeeps ==
  ASSUME IoInv, NEW d \in Fds, NEW h \in Seq(IoWatchers), NEW flags \in SUBSET Flags, flags # {},
         \A i \in 1 .. Len(h) : FdOf[h[i]] = d,
         \A i, j \in 1 .. Len(h) : h[i] = h[j] => i = j,
         Relisted(d, h, flags), UNCHANGED <<eperms, file, plain, kernel, opened>>
  PROVE  /\ fdchanges' \in Seq(Fds)
         /\ HeadsInv' /\ ChangesInv' /\ GensInv' /\ EpermInv' /\ EventsInv'
  <1>0. /\ anfds \in [Fds -> Anfd] /\ fdchanges \in Seq(Fds)
        /\ \A r \in kernel : r.fd \in Fds
    BY DEF IoInv, IoTypeOK, Reg
  <1>1. /\ anfds' \in [Fds -> Anfd]
        /\ anfds'[d].head = h /\ anfds'[d].reify = anfds[d].reify \cup flags
        /\ anfds'[d].events = anfds[d].events /\ anfds'[d].emask = anfds[d].emask
        /\ anfds'[d].egen = anfds[d].egen
        /\ \A f \in Fds : f # d => anfds'[f] = anfds[f]
        /\ fdchanges' = IF anfds[d].reify = {} THEN Append(fdchanges, d) ELSE fdchanges
    BY RelistedTable DEF IoInv
  <1>2. HeadsInv'
    BY <1>1, SMTT(30) DEF IoInv, HeadsInv
  <1>3. \A f \in Fds : anfds'[f].emask = anfds[f].emask /\ anfds'[f].egen = anfds[f].egen
    BY <1>1
  <1>4. GensInv'
    BY <1>0, <1>3 DEF IoInv, GensInv
  <1>5. EpermInv'
    BY <1>3 DEF IoInv, EpermInv
  <1>6. EventsInv'
    <2>1. ASSUME NEW f \in Fds, anfds'[f].reify = {} PROVE anfds'[f].events = Wants(f)'
      <3>1. f # d
        BY <1>1, <2>1
      <3>2. anfds'[f] = anfds[f]
        BY <1>1, <3>1
      <3>3. anfds[f].events = Wants(f)
        BY <2>1, <3>2 DEF IoInv, EventsInv
      <3>4. Wants(f)' = Wants(f)
        BY <3>2 DEF Wants, ActiveOn
      <3> QED
        BY <3>2, <3>3, <3>4
    <2> QED
      BY <2>1 DEF EventsInv
  <1>7. CASE anfds[d].reify = {}
    <2>1. /\ d \notin Rng(fdchanges) /\ \A i, j \in 1 .. Len(fdchanges) : fdchanges[i] = fdchanges[j] => i = j
          /\ \A f \in Fds : (anfds[f].reify # {}) <=> (f \in Rng(fdchanges))
      BY <1>7 DEF IoInv, ChangesInv
    <2>2. fdchanges' = Append(fdchanges, d)
      BY <1>1, <1>7
    <2>3. /\ fdchanges' \in Seq(Fds) /\ Rng(fdchanges)' = Rng(fdchanges) \cup {d}
          /\ \A i, j \in 1 .. Len(fdchanges') : fdchanges'[i] = fdchanges'[j] => i = j
      <3>1. /\ Append(fdchanges, d) \in Seq(Fds) /\ Rng(Append(fdchanges, d)) = Rng(fdchanges) \cup {d}
            /\ \A i, j \in 1 .. Len(Append(fdchanges, d)) : Append(fdchanges, d)[i] = Append(fdchanges, d)[j] => i = j
        BY <1>0, <2>1, AppendOnce
      <3>2. Rng(fdchanges)' = Rng(fdchanges')
        BY DEF Rng
      <3> QED
        BY <2>2, <3>1, <3>2
    <2>4. \A f \in Fds : (anfds'[f].reify # {}) <=> (f \in Rng(fdchanges)')
      BY <1>1, <2>1, <2>3
    <2>5. ChangesInv'
      BY <2>3, <2>4 DEF ChangesInv
    <2> QED
      BY <1>2, <1>4, <1>5, <1>6, <2>3, <2>5
  <1>8. CASE anfds[d].reify # {}
    <2>1. fdchanges' = fdchanges
      BY <1>1, <1>8
    <2>2. ChangesInv'
      BY <1>1, <1>8, <2>1 DEF IoInv, ChangesInv, Rng
    <2> QED
      BY <1>0, <1>2, <1>4, <1>5, <1>6, <2>1, <2>2
  <1> QED
    BY <1>7, <1>8

\* A watcher is among those of its own descriptor only.
LEMMA ActiveHere ==
  ASSUME IoInv, NEW f \in Fds, NEW w \in ActiveOn(f)
  PROVE  w \in IoWatchers /\ FdOf[w] = f
  <1>1. anfds[f].head \in Seq(IoWatchers)
    BY DEF IoInv, IoTypeOK, Anfd
  <1>2. PICK i \in 1 .. Len(anfds[f].head) : w = anfds[f].head[i]
    BY <1>1 DEF ActiveOn, Rng
  <1> QED
    BY <1>1, <1>2 DEF IoInv, HeadsInv

\* ev_io_start: a watcher set anew marks the descriptor; one that was not is still set for the
\* file open there.
LEMMA IoStartKeeps ==
  ASSUME IoInv, NEW w \in IoWatchers, NEW anew \in BOOLEAN, IoStart(w, anew)
  PROVE  IoInv'
  <1>1. PICK d \in Fds : d = FdOf[w]
    BY EvIoAssumption
  <1>2. /\ anfds \in [Fds -> Anfd] /\ anfds[d].head \in Seq(IoWatchers) /\ file \in [Fds -> Nat]
        /\ set \in [IoWatchers -> Nat] /\ opened \in Nat
    BY DEF IoInv, IoTypeOK, Anfd
  <1>3. /\ UNCHANGED <<eperms, ioPostfork, ioPendings, reports, ioPhase, file, plain, kernel, opened>>
        /\ file[d] # 0 /\ w \notin Rng(anfds[d].head)
        /\ anew \/ set[w] = file[d]
        /\ set' = [set EXCEPT ![w] = file[d]] /\ ioPhase # "process"
    BY <1>1 DEF IoStart, MayCallIo, IoActive, ActiveOn
  <1>4. /\ \A i \in 1 .. Len(anfds[d].head) : FdOf[anfds[d].head[i]] = d
        /\ \A i, j \in 1 .. Len(anfds[d].head) : anfds[d].head[i] = anfds[d].head[j] => i = j
    BY DEF IoInv, HeadsInv
  <1>5. /\ <<w>> \o anfds[d].head \in Seq(IoWatchers)
        /\ Rng(<<w>> \o anfds[d].head) = Rng(anfds[d].head) \cup {w}
        /\ \A i, j \in 1 .. Len(<<w>> \o anfds[d].head) :
             (<<w>> \o anfds[d].head)[i] = (<<w>> \o anfds[d].head)[j] => i = j
    <2>1. PICK s \in Seq(IoWatchers) : s = anfds[d].head
      BY <1>2
    <2>2. w \notin Rng(s) /\ \A i, j \in 1 .. Len(s) : s[i] = s[j] => i = j
      BY <1>3, <1>4, <2>1
    <2>3. /\ <<w>> \o s \in Seq(IoWatchers) /\ Rng(<<w>> \o s) = Rng(s) \cup {w}
          /\ \A i, j \in 1 .. Len(<<w>> \o s) : (<<w>> \o s)[i] = (<<w>> \o s)[j] => i = j
      BY <2>2, FirstOnce
    <2> QED
      BY <2>1, <2>3
  <1>6. PICK h \in Seq(IoWatchers) : h = <<w>> \o anfds[d].head
    BY <1>5
  <1>7. Rng(h) = Rng(anfds[d].head) \cup {w} /\ \A i, j \in 1 .. Len(h) : h[i] = h[j] => i = j
    BY <1>5, <1>6
  <1>8. ASSUME NEW i \in 1 .. Len(h) PROVE FdOf[h[i]] = d
    <2>1. h[i] \in Rng(h)
      BY DEF Rng
    <2>2. h[i] = w \/ h[i] \in ActiveOn(d)
      BY <1>7, <2>1 DEF ActiveOn
    <2> QED
      BY <1>1, <2>2, ActiveHere
  <1>9. Relisted(d, h, StartFlags(anew))
    <2>1. [anfds EXCEPT ![d].head = <<w>> \o @] = [anfds EXCEPT ![d].head = h]
      BY <1>2, <1>6
    <2> QED
      BY <1>1, <2>1 DEF IoStart, Relisted
  <1>10. StartFlags(anew) \in SUBSET Flags /\ StartFlags(anew) # {} /\ (anew => "iofdset" \in StartFlags(anew))
    BY DEF StartFlags, Flags
  <1>11. PICK flags \in SUBSET Flags : flags = StartFlags(anew)
    BY <1>10
  <1>12. /\ anfds' \in [Fds -> Anfd]
         /\ anfds'[d].head = h /\ anfds'[d].reify = anfds[d].reify \cup flags
         /\ anfds'[d].events = anfds[d].events /\ anfds'[d].emask = anfds[d].emask
         /\ anfds'[d].egen = anfds[d].egen
         /\ \A f \in Fds : f # d => anfds'[f] = anfds[f]
    BY <1>9, <1>11, RelistedTable DEF IoInv
  <1>13. fdchanges' \in Seq(Fds) /\ HeadsInv' /\ ChangesInv' /\ GensInv' /\ EpermInv' /\ EventsInv'
    BY <1>3, <1>7, <1>8, <1>9, <1>10, <1>11, RelistedKeeps
  <1>14. set' \in [IoWatchers -> Nat] /\ set'[w] = file[d] /\ \A v \in IoWatchers : v # w => set'[v] = set[v]
    BY <1>2, <1>3
  <1>15. IoTypeOK' /\ PhaseInv'
    BY <1>3, <1>12, <1>13, <1>14 DEF IoInv, IoTypeOK, PhaseInv
  <1>16. FilesInv'
    <2>1. \A v \in IoWatchers : set'[v] <= opened
      BY <1>14 DEF IoInv, FilesInv
    <2> QED
      BY <1>3, <2>1 DEF IoInv, FilesInv
  <1>17. ASSUME NEW f \in Fds, NEW v \in ActiveOn(f)', file[f] # 0 PROVE set'[v] = file[f]
    <2>1. CASE v = w
      <3>1. f = d
        <4>1. f # d => v \in ActiveOn(f)
          BY <1>12, <1>17 DEF ActiveOn
        <4>2. f # d => FdOf[w] = f
          BY <2>1, <4>1, ActiveHere
        <4> QED
          BY <1>1, <4>2
      <3> QED
        BY <1>14, <2>1, <3>1
    <2>2. CASE v # w
      <3>1. v \in ActiveOn(f)
        BY <1>7, <1>12, <1>17, <2>2 DEF ActiveOn
      <3>2. v \in IoWatchers /\ set[v] = file[f]
        BY <1>17, <3>1, ActiveHere DEF IoInv, SetInv
      <3> QED
        BY <1>14, <2>2, <3>2
    <2> QED
      BY <2>1, <2>2
  <1>18. SetInv'
    BY <1>3, <1>17 DEF SetInv
  <1>19. ASSUME NEW f \in Fds, Relied(f)' PROVE Known(f)'
    <2>1. Relied(f)
      <3>1. PICK v \in IoWatchers : FdOf[v] = f /\ set'[v] = file[f]
        BY <1>3, <1>19 DEF Relied
      <3>2. "iofdset" \notin anfds'[f].reify /\ anfds'[f].events # {} /\ file[f] # 0
        BY <1>3, <1>19 DEF Relied
      <3>3. CASE f = d
        <4>1. ~anew
          BY <1>10, <1>11, <1>12, <3>2, <3>3
        <4>2. set[w] = file[f] /\ FdOf[w] = f
          BY <1>1, <1>3, <3>3, <4>1
        <4> QED
          BY <1>12, <3>2, <3>3, <4>2 DEF Relied
      <3>4. CASE f # d
        <4>1. v # w
          BY <1>1, <3>1, <3>4
        <4> QED
          BY <1>12, <1>14, <3>1, <3>2, <3>4, <4>1 DEF Relied
      <3> QED
        BY <3>3, <3>4
    <2>2. Known(f)
      BY <2>1 DEF IoInv, KnownInv
    <2>3. anfds'[f].events = anfds[f].events /\ anfds'[f].emask = anfds[f].emask /\ anfds'[f].egen = anfds[f].egen
      BY <1>12
    <2> QED
      BY <1>3, <2>2, <2>3 DEF Known
  <1>20. PendInv'
    <2>1. ASSUME NEW p \in Pend, Fresh(p, anfds, file) PROVE Fresh(p, anfds', file)
      <3>1. p.w \in IoWatchers => FdOf[p.w] \in Fds
        BY EvIoAssumption
      <3>2. \A f \in Fds : Rng(anfds[f].head) \subseteq Rng(anfds'[f].head)
        BY <1>7, <1>12
      <3> QED
        BY <2>1, <3>1, <3>2 DEF Fresh
    <2>2. ioPendings \in FreshPendings(anfds', file)
      BY <2>1, FreshStays DEF IoInv, PendInv
    <2> QED
      BY <1>3, <2>2 DEF PendInv
  <1> QED
    BY <1>13, <1>15, <1>16, <1>18, <1>19, <1>20 DEF IoInv, KnownInv

\* ev_io_stop: the watcher leaves the list of its descriptor and its event is dropped.
LEMMA IoStopKeeps ==
  ASSUME IoInv, NEW w \in IoWatchers, IoStop(w)
  PROVE  IoInv'
  <1>1. PICK d \in Fds : d = FdOf[w]
    BY EvIoAssumption
  <1>2. /\ anfds \in [Fds -> Anfd] /\ anfds[d].head \in Seq(IoWatchers) /\ file \in [Fds -> Nat]
        /\ ioPendings \in Seq(Pend)
    BY DEF IoInv, IoTypeOK, Anfd
  <1>3. /\ UNCHANGED <<eperms, ioPostfork, reports, ioPhase, file, plain, kernel, set, opened>>
        /\ ioPendings' = Cleared(ioPendings, w) /\ w \in Rng(anfds[d].head) /\ ioPhase # "process"
    BY <1>1 DEF IoStop, MayCallIo, IoActive, ActiveOn
  <1>4. /\ \A i \in 1 .. Len(anfds[d].head) : FdOf[anfds[d].head[i]] = d
        /\ \A i, j \in 1 .. Len(anfds[d].head) : anfds[d].head[i] = anfds[d].head[j] => i = j
    BY DEF IoInv, HeadsInv
  <1>5. /\ Without(anfds[d].head, w) \in Seq(IoWatchers)
        /\ Rng(Without(anfds[d].head, w)) = Rng(anfds[d].head) \ {w}
        /\ \A i, j \in 1 .. Len(Without(anfds[d].head, w)) :
             Without(anfds[d].head, w)[i] = Without(anfds[d].head, w)[j] => i = j
    BY <1>2, <1>3, <1>4, WithoutOnce
  <1>6. PICK h \in Seq(IoWatchers) : h = Without(anfds[d].head, w)
    BY <1>5
  <1>7. Rng(h) = Rng(anfds[d].head) \ {w} /\ \A i, j \in 1 .. Len(h) : h[i] = h[j] => i = j
    BY <1>5, <1>6
  <1>8. ASSUME NEW i \in 1 .. Len(h) PROVE FdOf[h[i]] = d
    <2>1. h[i] \in Rng(h)
      BY DEF Rng
    <2>2. h[i] \in ActiveOn(d)
      BY <1>7, <2>1 DEF ActiveOn
    <2> QED
      BY <1>1, <2>2, ActiveHere
  <1>9. Relisted(d, h, {"reify"})
    <2>1. [anfds EXCEPT ![d].head = Without(@, w)] = [anfds EXCEPT ![d].head = h]
      BY <1>2, <1>6
    <2> QED
      BY <1>1, <2>1 DEF IoStop, Relisted
  <1>11. PICK flags \in SUBSET Flags : flags = {"reify"}
    BY DEF Flags
  <1>12. /\ anfds' \in [Fds -> Anfd]
         /\ anfds'[d].head = h /\ anfds'[d].reify = anfds[d].reify \cup flags
         /\ anfds'[d].events = anfds[d].events /\ anfds'[d].emask = anfds[d].emask
         /\ anfds'[d].egen = anfds[d].egen
         /\ \A f \in Fds : f # d => anfds'[f] = anfds[f]
    BY <1>9, <1>11, RelistedTable DEF IoInv
  <1>13. fdchanges' \in Seq(Fds) /\ HeadsInv' /\ ChangesInv' /\ GensInv' /\ EpermInv' /\ EventsInv'
    BY <1>3, <1>7, <1>8, <1>9, <1>11, RelistedKeeps
  <1>14. \A f \in Fds : Rng(anfds'[f].head) \subseteq Rng(anfds[f].head)
    BY <1>7, <1>12
  <1>15. /\ ioPendings' \in Seq(Pend) /\ Len(ioPendings') = Len(ioPendings)
         /\ \A i \in 1 .. Len(ioPendings) : ioPendings'[i] =
              IF ioPendings[i].w = w THEN [ioPendings[i] EXCEPT !.w = "pending_w"] ELSE ioPendings[i]
    <2>1. DOMAIN ioPendings = 1 .. Len(ioPendings) /\ \A i \in 1 .. Len(ioPendings) : ioPendings[i] \in Pend
      BY <1>2
    <2>2. \A p \in Pend : [p EXCEPT !.w = "pending_w"] \in Pend
      BY DEF Pend
    <2>3. PICK n \in Nat : n = Len(ioPendings)
      BY <1>2
    <2>4. PICK q : q = [i \in 1 .. n |-> IF ioPendings[i].w = w THEN [ioPendings[i] EXCEPT !.w = "pending_w"]
                                         ELSE ioPendings[i]]
      OBVIOUS
    <2>5. ioPendings' = q
      BY <1>3, <2>1, <2>3, <2>4 DEF Cleared
    <2>6. \A i \in 1 .. n : q[i] \in Pend
      BY <2>1, <2>2, <2>3, <2>4
    <2>61. q \in [1 .. n -> Pend]
      BY <2>4, <2>6
    <2>7. q \in Seq(Pend) /\ Len(q) = n
      BY <2>61
    <2> QED
      BY <2>3, <2>4, <2>5, <2>7
  <1>16. IoTypeOK' /\ PhaseInv' /\ FilesInv'
    BY <1>3, <1>12, <1>13, <1>15 DEF IoInv, IoTypeOK, PhaseInv, FilesInv
  <1>17. SetInv'
    BY <1>3, <1>14 DEF IoInv, SetInv, ActiveOn
  <1>18. ASSUME NEW f \in Fds, Relied(f)' PROVE Known(f)'
    <2>1. Relied(f)
      BY <1>3, <1>12, <1>18 DEF Relied
    <2>2. Known(f)
      BY <2>1 DEF IoInv, KnownInv
    <2>3. anfds'[f].events = anfds[f].events /\ anfds'[f].emask = anfds[f].emask /\ anfds'[f].egen = anfds[f].egen
      BY <1>12
    <2> QED
      BY <1>3, <2>2, <2>3 DEF Known
  <1>19. ASSUME NEW i \in 1 .. Len(ioPendings) PROVE Fresh(ioPendings'[i], anfds', file)
    <2>0. PICK p \in Pend : p = ioPendings[i]
      BY <1>2
    <2>01. Fresh(p, anfds, file)
      BY <2>0 DEF IoInv, PendInv, FreshPendings
    <2>1. CASE p.w = w
      <3>1. ioPendings'[i].w = "pending_w"
        BY <1>15, <2>0, <2>1 DEF Pend
      <3> QED
        BY <3>1, EvIoAssumption DEF Fresh
    <2>2. CASE p.w # w
      <3>1. ioPendings'[i] = p
        BY <1>15, <2>0, <2>2
      <3>2. p.w \in IoWatchers => FdOf[p.w] \in Fds
        BY EvIoAssumption
      <3>3. \A f \in Fds, v \in IoWatchers : v # w /\ v \in Rng(anfds[f].head) => v \in Rng(anfds'[f].head)
        BY <1>7, <1>12
      <3> QED
        BY <2>01, <2>2, <3>1, <3>2, <3>3 DEF Fresh
    <2> QED
      BY <2>1, <2>2
  <1>20. PendInv'
    BY <1>3, <1>15, <1>19 DEF PendInv, FreshPendings
  <1> QED
    BY <1>13, <1>16, <1>17, <1>18, <1>20 DEF IoInv, KnownInv

----------------------------------------------------------------------------
(* After a fork the kernel has to be told everything. *)

\* A list of a finite set names each element once.
Order(S) == CHOOSE s \in [1 .. Cardinality(S) -> S] : Rng(s) = S

\* The members of a finite set can be put in a list, each once.
LEMMA OrderOnce ==
  ASSUME NEW S, IsFiniteSet(S)
  PROVE  /\ Order(S) \in Seq(S) /\ Rng(Order(S)) = S
         /\ \A i, j \in 1 .. Len(Order(S)) : Order(S)[i] = Order(S)[j] => i = j
  <1>1. PICK n \in Nat : n = Cardinality(S)
    BY FS_CardinalityType
  <1>2. ExistsBijection(1 .. n, S)
    BY <1>1, FS_CardinalityType
  <1>3. PICK g : g \in Bijection(1 .. n, S)
    BY <1>2 DEF ExistsBijection
  <1>4. g \in [1 .. n -> S] /\ \A t \in S : \E i \in 1 .. n : g[i] = t
    BY <1>3 DEF Bijection, Surjection
  <1>5. Rng(g) = S
    BY <1>4 DEF Rng
  <1>6. PICK e : e = Order(S)
    OBVIOUS
  <1>7. e \in [1 .. n -> S] /\ Rng(e) = S
    BY <1>1, <1>4, <1>5, <1>6 DEF Order
  <1>8. \A t \in S : \E i \in 1 .. n : e[i] = t
    BY <1>7 DEF Rng
  <1>9. e \in Surjection(1 .. n, S)
    BY <1>7, <1>8 DEF Surjection
  <1>10. IsFiniteSet(1 .. n) /\ Cardinality(1 .. n) = n
    BY FS_Interval
  <1>11. e \in Injection(1 .. n, S)
    BY <1>1, <1>9, <1>10, FS_SurjSameCardinalityImpliesInj
  <1>12. \A i, j \in 1 .. n : e[i] = e[j] => i = j
    BY <1>7, <1>11 DEF Injection, IsInjective
  <1>13. e \in Seq(S) /\ Len(e) = n
    BY <1>7
  <1> QED
    BY <1>6, <1>7, <1>12, <1>13

\* Two lists without repetitions and with nothing in common, one after the other.
LEMMA ConcatOnce ==
  ASSUME NEW S, NEW c \in Seq(S), NEW b \in Seq(S), Rng(c) \cap Rng(b) = {},
         \A i, j \in 1 .. Len(c) : c[i] = c[j] => i = j,
         \A i, j \in 1 .. Len(b) : b[i] = b[j] => i = j
  PROVE  /\ c \o b \in Seq(S) /\ Rng(c \o b) = Rng(c) \cup Rng(b)
         /\ \A i, j \in 1 .. Len(c \o b) : (c \o b)[i] = (c \o b)[j] => i = j
  <1>1. PICK m \in Nat : m = Len(c)
    OBVIOUS
  <1>2. PICK n \in Nat : n = Len(b)
    OBVIOUS
  <1>3. PICK e \in Seq(S) : e = c \o b
    <2>1. c \o b \in Seq(S)
      BY ConcatProperties
    <2> QED
      BY <2>1
  <1>4. Len(e) = m + n /\ \A i \in 1 .. m + n : e[i] = IF i <= m THEN c[i] ELSE b[i - m]
    BY <1>1, <1>2, <1>3, ConcatProperties
  <1>5. DOMAIN c = 1 .. m /\ DOMAIN b = 1 .. n /\ DOMAIN e = 1 .. m + n
    BY <1>1, <1>2, <1>4
  <1>6. \A y : y \in Rng(c) <=> \E i \in 1 .. m : c[i] = y
    BY <1>5 DEF Rng
  <1>7. \A y : y \in Rng(b) <=> \E i \in 1 .. n : b[i] = y
    BY <1>5 DEF Rng
  <1>8. \A y : y \in Rng(e) <=> \E i \in 1 .. m + n : e[i] = y
    BY <1>5 DEF Rng
  <1>9. \A i \in 1 .. m + n : (i \in 1 .. m /\ e[i] = c[i]) \/ (i > m /\ i - m \in 1 .. n /\ e[i] = b[i - m])
    BY <1>4
  <1>10. \A i \in 1 .. m : i \in 1 .. m + n /\ e[i] = c[i]
    BY <1>4
  <1>11. ASSUME NEW i \in 1 .. n PROVE i + m \in 1 .. m + n /\ e[i + m] = b[i]
    <2>1. PICK k \in 1 .. m + n : k = i + m
      OBVIOUS
    <2>2. e[k] = b[k - m] /\ k - m = i
      BY <1>4, <2>1
    <2> QED
      BY <2>1, <2>2
  <1>12. ASSUME NEW y PROVE y \in Rng(e) <=> y \in Rng(c) \cup Rng(b)
    <2>1. ASSUME y \in Rng(e) PROVE y \in Rng(c) \cup Rng(b)
      BY <1>6, <1>7, <1>8, <1>9, <2>1
    <2>2. ASSUME y \in Rng(c) PROVE y \in Rng(e)
      BY <1>6, <1>8, <1>10, <2>2
    <2>3. ASSUME y \in Rng(b) PROVE y \in Rng(e)
      BY <1>7, <1>8, <1>11, <2>3
    <2> QED
      BY <2>1, <2>2, <2>3
  <1>13. ASSUME NEW i \in 1 .. m + n, NEW j \in 1 .. m + n, e[i] = e[j] PROVE i = j
    <2>1. CASE i \in 1 .. m /\ j \in 1 .. m
      BY <1>1, <1>10, <1>13, <2>1
    <2>2. CASE i > m /\ j > m
      <3>1. i - m \in 1 .. n /\ j - m \in 1 .. n /\ b[i - m] = b[j - m]
        BY <1>9, <1>13, <2>2
      <3>2. i - m = j - m
        BY <1>2, <3>1
      <3> QED
        BY <3>2
    <2>3. CASE i \in 1 .. m /\ j > m
      <3>1. e[i] \in Rng(c) /\ e[j] \in Rng(b)
        BY <1>6, <1>7, <1>9, <1>10, <2>3, SMTT(30)
      <3> QED
        BY <1>13, <3>1
    <2>4. CASE i > m /\ j \in 1 .. m
      <3>1. e[j] \in Rng(c) /\ e[i] \in Rng(b)
        BY <1>6, <1>7, <1>9, <1>10, <2>4, SMTT(30)
      <3> QED
        BY <1>13, <3>1
    <2>5. (i \in 1 .. m \/ i > m) /\ (j \in 1 .. m \/ j > m)
      OBVIOUS
    <2> QED
      BY <2>1, <2>2, <2>3, <2>4, <2>5
  <1> QED
    BY <1>3, <1>4, <1>12, <1>13

\* loop_fork with epoll_fork: the new epoll descriptor knows nothing, and the loop relies on
\* nothing it told the old one.
LEMMA LoopForkKeeps ==
  ASSUME IoInv, LoopFork
  PROVE  IoInv'
  <1> DEFINE watched == {f \in Fds : anfds[f].events # {}}
             listed == {f \in watched : anfds[f].reify = {}}
  <1>0. /\ UNCHANGED <<eperms, ioPendings, reports, file, plain, set, opened>>
        /\ kernel' = {} /\ ioPostfork' = FALSE /\ ioPhase' = "reify" /\ ioPhase = "ready"
        /\ anfds' = [f \in Fds |-> IF f \in watched
                       THEN [anfds[f] EXCEPT !.events = {}, !.emask = {}, !.reify = @ \cup {"iofdset", "reify"}]
                       ELSE anfds[f]]
        /\ fdchanges' = fdchanges \o Order(listed)
    BY DEF LoopFork, Order
  <1>1. anfds \in [Fds -> Anfd] /\ fdchanges \in Seq(Fds) /\ reports = {}
    BY <1>0 DEF IoInv, IoTypeOK, PhaseInv
  <1>2. \A f \in Fds : f \in watched <=> anfds[f].events # {}
    OBVIOUS
  <1>3. watched \subseteq Fds /\ listed \subseteq Fds /\ \A f \in Fds : f \in listed <=> f \in watched /\ anfds[f].reify = {}
    OBVIOUS
  <1> HIDE DEF watched, listed
  <1>4. ASSUME NEW f \in Fds
        PROVE  /\ anfds'[f] \in Anfd /\ anfds'[f].head = anfds[f].head /\ anfds'[f].egen = anfds[f].egen
               /\ f \in watched => /\ anfds'[f].events = {} /\ anfds'[f].emask = {}
                                   /\ anfds'[f].reify = Flags
               /\ f \notin watched => anfds'[f] = anfds[f]
    <2>1. PICK a \in Anfd : a = anfds[f]
      BY <1>1
    <2>2. CASE f \in watched
      <3>1. anfds'[f] = [a EXCEPT !.events = {}, !.emask = {}, !.reify = @ \cup {"iofdset", "reify"}]
        BY <1>0, <2>1, <2>2
      <3>2. a.reify \cup {"iofdset", "reify"} = Flags
        BY DEF Anfd, Flags
      <3>3. PICK b \in Anfd : b = [a EXCEPT !.events = {}, !.emask = {}, !.reify = Flags]
        BY DEF Anfd
      <3>4. anfds'[f] = b
        BY <3>1, <3>2, <3>3
      <3>5. b.head = a.head /\ b.egen = a.egen /\ b.events = {} /\ b.emask = {} /\ b.reify = Flags
        BY <3>3 DEF Anfd
      <3> QED
        BY <2>1, <2>2, <3>4, <3>5
    <2>3. CASE f \notin watched
      BY <1>0, <2>1, <2>3
    <2> QED
      BY <2>2, <2>3
  <1>5. anfds' \in [Fds -> Anfd]
    <2>1. PICK t : t = anfds'
      OBVIOUS
    <2>2. t = [f \in Fds |-> t[f]]
      BY <1>0, <2>1
    <2>3. \A f \in Fds : t[f] \in Anfd
      BY <1>4, <2>1
    <2> QED
      BY <2>1, <2>2, <2>3
  <1>6. Flags # {} /\ "iofdset" \in Flags
    BY DEF Flags
  <1>7. IsFiniteSet(listed)
    BY <1>3, EvIoAssumption, FS_Subset
  <1>8. /\ Order(listed) \in Seq(listed) /\ Rng(Order(listed)) = listed
        /\ \A i, j \in 1 .. Len(Order(listed)) : Order(listed)[i] = Order(listed)[j] => i = j
    BY <1>7, OrderOnce
  <1>9. PICK o \in Seq(Fds) : o = Order(listed)
    <2>1. Seq(listed) \subseteq Seq(Fds)
      BY <1>3
    <2> QED
      BY <1>8, <2>1
  <1>10. /\ \A f \in Fds : (anfds[f].reify # {}) <=> (f \in Rng(fdchanges))
         /\ \A i, j \in 1 .. Len(fdchanges) : fdchanges[i] = fdchanges[j] => i = j
    BY DEF IoInv, ChangesInv
  <1>11. Rng(fdchanges) \cap Rng(o) = {} /\ Rng(o) = listed
    BY <1>3, <1>8, <1>9, <1>10
  <1>12. PICK c \in Seq(Fds) : c = fdchanges
    BY <1>1
  <1>13. /\ c \o o \in Seq(Fds) /\ Rng(c \o o) = Rng(c) \cup Rng(o)
         /\ \A i, j \in 1 .. Len(c \o o) : (c \o o)[i] = (c \o o)[j] => i = j
    <2>1. /\ Rng(c) \cap Rng(o) = {} /\ \A i, j \in 1 .. Len(c) : c[i] = c[j] => i = j
          /\ \A i, j \in 1 .. Len(o) : o[i] = o[j] => i = j
      BY <1>8, <1>9, <1>10, <1>11, <1>12
    <2> QED
      BY <2>1, ConcatOnce
  <1>14. PICK e \in Seq(Fds) : e = c \o o
    BY <1>13
  <1>15. fdchanges' = e /\ Rng(e) = Rng(fdchanges) \cup listed
    BY <1>0, <1>9, <1>11, <1>12, <1>13, <1>14
  <1>16. ChangesInv'
    <2>1. ASSUME NEW f \in Fds PROVE (anfds'[f].reify # {}) <=> (f \in Rng(e))
      BY <1>3, <1>4, <1>6, <1>10, <1>15
    <2>2. \A i, j \in 1 .. Len(e) : e[i] = e[j] => i = j
      BY <1>13, <1>14
    <2> QED
      BY <1>15, <2>1, <2>2 DEF ChangesInv, Rng
  <1>17. IoTypeOK' /\ PhaseInv'
    BY <1>0, <1>1, <1>5, <1>15 DEF IoInv, IoTypeOK, PhaseInv, IoPhases
  <1>18. HeadsInv'
    <2>1. ASSUME NEW f \in Fds
          PROVE  /\ \A i \in 1 .. Len(anfds'[f].head) : FdOf[anfds'[f].head[i]] = f
                 /\ \A i, j \in 1 .. Len(anfds'[f].head) : anfds'[f].head[i] = anfds'[f].head[j] => i = j
      <3>1. anfds'[f].head = anfds[f].head
        BY <1>4
      <3> QED
        BY <3>1 DEF IoInv, HeadsInv
    <2> QED
      BY <2>1 DEF HeadsInv
  <1>19. FilesInv' /\ GensInv'
    BY <1>0 DEF IoInv, FilesInv, GensInv
  <1>20. EpermInv'
    BY <1>0, <1>4 DEF IoInv, EpermInv
  <1>21. SetInv'
    BY <1>0, <1>4 DEF IoInv, SetInv, ActiveOn
  <1>22. EventsInv'
    <2>1. ASSUME NEW f \in Fds, anfds'[f].reify = {} PROVE anfds'[f].events = Wants(f)'
      <3>1. f \notin watched /\ anfds'[f] = anfds[f]
        BY <1>4, <1>6, <2>1
      <3>2. anfds[f].events = Wants(f)
        BY <2>1, <3>1 DEF IoInv, EventsInv
      <3>3. Wants(f)' = Wants(f)
        BY <3>1 DEF Wants, ActiveOn
      <3> QED
        BY <3>1, <3>2, <3>3
    <2> QED
      BY <2>1 DEF EventsInv
  <1>23. KnownInv'
    BY <1>2, <1>4 DEF KnownInv, Relied
  <1>24. PendInv'
    <2>1. ASSUME NEW p \in Pend, Fresh(p, anfds, file) PROVE Fresh(p, anfds', file)
      <3>1. p.w \in IoWatchers => FdOf[p.w] \in Fds
        BY EvIoAssumption
      <3> QED
        BY <1>4, <2>1, <3>1 DEF Fresh
    <2>2. ioPendings \in FreshPendings(anfds', file)
      BY <2>1, FreshStays DEF IoInv, PendInv
    <2> QED
      BY <1>0, <2>2 DEF PendInv
  <1> QED
    BY <1>16, <1>17, <1>18, <1>19, <1>20, <1>21, <1>22, <1>23, <1>24 DEF IoInv

----------------------------------------------------------------------------
(* Feeding the watchers of a descriptor. *)

\* An event from file src may be fed to w.
Feedable(w, a, fl, src) ==
  /\ w \in IoWatchers /\ src \in Nat /\ w \in Rng(a[FdOf[w]].head)
  /\ fl[FdOf[w]] # 0 => src = fl[FdOf[w]]

\* ev_feed_event: the entry added, or the one the event is added to, is fresh.
LEMMA FedEventKeeps ==
  ASSUME NEW a, NEW fl, NEW q \in FreshPendings(a, fl), NEW w, NEW ev \in SUBSET Ev, NEW src,
         Feedable(w, a, fl, src)
  PROVE  FedEvent(q, w, ev, src) \in FreshPendings(a, fl)
  <1>1. q \in Seq(Pend) /\ \A i \in 1 .. Len(q) : Fresh(q[i], a, fl)
    BY DEF FreshPendings
  <1>2. PICK n \in Nat : n = Len(q)
    BY <1>1
  <1>3. DOMAIN q = 1 .. n /\ \A i \in 1 .. n : q[i] \in Pend
    BY <1>1, <1>2
  <1>4. CASE \E i \in DOMAIN q : q[i].w = w
    <2>1. PICK r : r = [i \in 1 .. n |-> IF q[i].w = w THEN [q[i] EXCEPT !.events = @ \cup ev] ELSE q[i]]
      OBVIOUS
    <2>2. FedEvent(q, w, ev, src) = r
      BY <1>3, <1>4, <2>1 DEF FedEvent
    <2>3. ASSUME NEW i \in 1 .. n PROVE r[i] \in Pend /\ Fresh(r[i], a, fl)
      <3>1. PICK p \in Pend : p = q[i]
        BY <1>3
      <3>2. Fresh(p, a, fl)
        BY <1>1, <1>2, <3>1
      <3>3. PICK e \in SUBSET {"read", "write", "error"} : e = p.events \cup ev
        BY DEF Pend, Ev
      <3>4. PICK t \in Pend : t = [p EXCEPT !.events = e]
        BY DEF Pend
      <3>5. t.w = p.w /\ t.file = p.file /\ t.events = e
        BY <3>4 DEF Pend
      <3>6. Fresh(t, a, fl)
        BY <3>2, <3>3, <3>5 DEF Fresh
      <3>7. r[i] = IF p.w = w THEN t ELSE p
        BY <2>1, <3>1, <3>3, <3>4
      <3> QED
        BY <3>2, <3>6, <3>7
    <2>4. r \in [1 .. n -> Pend]
      BY <2>1, <2>3
    <2>5. r \in Seq(Pend) /\ Len(r) = n
      BY <2>4
    <2> QED
      BY <2>2, <2>3, <2>5 DEF FreshPendings
  <1>5. CASE ~ \E i \in DOMAIN q : q[i].w = w
    <2>1. PICK p \in Pend : p = [w |-> w, events |-> ev, file |-> src]
      BY DEF Feedable, Pend, Ev
    <2>2. FedEvent(q, w, ev, src) = Append(q, p)
      BY <1>5, <2>1 DEF FedEvent
    <2>3. Fresh(p, a, fl)
      <3>1. p.w = w /\ p.file = src
        BY <2>1
      <3> QED
        BY <3>1 DEF Fresh, Feedable
    <2>4. PICK r \in Seq(Pend) : r = Append(q, p)
      <3>1. Append(q, p) \in Seq(Pend)
        BY <1>1, AppendProperties
      <3> QED
        BY <3>1
    <2>5. Len(r) = n + 1 /\ r[n + 1] = p /\ \A i \in 1 .. n : r[i] = q[i]
      BY <1>1, <1>2, <2>4, AppendProperties
    <2>6. \A i \in 1 .. (n + 1) : i \in 1 .. n \/ i = n + 1
      OBVIOUS
    <2>7. \A i \in 1 .. Len(r) : Fresh(r[i], a, fl)
      BY <1>1, <1>2, <2>3, <2>5, <2>6
    <2> QED
      BY <2>2, <2>4, <2>7 DEF FreshPendings
  <1> QED
    BY <1>4, <1>5

\* One watcher of fd_event_nocheck.
LEMMA FedIfKeeps ==
  ASSUME NEW a, NEW fl, NEW q \in FreshPendings(a, fl), NEW w, NEW got \in SUBSET Ev, NEW src,
         Feedable(w, a, fl, src)
  PROVE  FedIf(q, w, got, src) \in FreshPendings(a, fl)
  <1>1. PICK ev \in SUBSET Ev : ev = EventsOf[w] \cap got
    OBVIOUS
  <1>2. FedEvent(q, w, ev, src) \in FreshPendings(a, fl)
    BY FedEventKeeps
  <1> QED
    BY <1>1, <1>2 DEF FedIf

\* fd_event_nocheck passes the list.
LEMMA FedAllKeeps ==
  ASSUME NEW a, NEW fl, NEW q \in FreshPendings(a, fl), NEW ws \in Seq(IoWatchers), NEW got \in SUBSET Ev, NEW src,
         \A i \in 1 .. Len(ws) : Feedable(ws[i], a, fl, src)
  PROVE  FedAll(q, ws, got, src) \in FreshPendings(a, fl)
  <1> DEFINE n == Len(ws)
             X == FreshPendings(a, fl)
             st == [i \in 1 .. n |-> [r \in X |-> FedIf(r, ws[i], got, src)]]
             Passed(f) == f = [i \in 0 .. n |-> IF i = 0 THEN q ELSE FedIf(f[i - 1], ws[i], got, src)]
  <1>1. n \in Nat
    OBVIOUS
  <1>2. \A i \in 1 .. n : \A r \in X : FedIf(r, ws[i], got, src) \in X
    BY <1>1, FedIfKeeps
  <1>20. q \in X
    OBVIOUS
  <1> HIDE DEF n, X
  <1>3. StepFcns(X, n, st)
    BY <1>2 DEF StepFcns
  <1>4. \A i \in 1 .. n : \A r \in X : st[i][r] = FedIf(r, ws[i], got, src)
    OBVIOUS
  <1> HIDE DEF st
  <1>5. PICK f \in [0 .. n -> X] : f[0] = q /\ \A i \in 1 .. n : f[i] = st[i][f[i - 1]]
    <2>1. \E f : Walk(X, n, st, q, f)
      BY <1>1, <1>3, <1>20, StepsExist
    <2> QED
      BY <2>1 DEF Walk
  <1>6. ASSUME NEW i \in 0 .. n PROVE f[i] = IF i = 0 THEN q ELSE FedIf(f[i - 1], ws[i], got, src)
    <2>1. i # 0 => i \in 1 .. n /\ f[i - 1] \in X
      BY <1>1, <1>5
    <2> QED
      BY <1>4, <1>5, <2>1
  <1>7. Passed(f)
    BY <1>5, <1>6
  <1>8. PICK g : g = CHOOSE h : Passed(h)
    OBVIOUS
  <1>9. Passed(g)
    BY <1>7, <1>8
  <1>10. FedAll(q, ws, got, src) = g[n]
    BY <1>8 DEF FedAll, n
  <1>11. \A i \in 0 .. n : g[i] = IF i = 0 THEN q ELSE FedIf(g[i - 1], ws[i], got, src)
    BY <1>9
  <1> DEFINE S == {i \in 0 .. n : g[i] \in X}
  <1>12. 0 \in S
    BY <1>1, <1>11, <1>20
  <1>13. ASSUME NEW i \in 1 .. n, i - 1 \in S PROVE i \in S
    <2>1. i \in 0 .. n /\ i # 0 /\ g[i - 1] \in X
      BY <1>1, <1>13
    <2>2. g[i] = FedIf(g[i - 1], ws[i], got, src)
      BY <1>11, <2>1
    <2> QED
      BY <1>2, <2>1, <2>2
  <1>14. ASSUME NEW T, T = S PROVE n \in T
    <2> HIDE DEF S
    <2>1. 0 \in T /\ \A i \in 1 .. n : i - 1 \in T => i \in T
      BY <1>12, <1>13, <1>14
    <2>2. \A i \in 0 .. n : i \in T
      BY <1>1, <2>1, UpTo
    <2> QED
      BY <1>1, <2>2
  <1>15. g[n] \in X
    <2>1. n \in S
      <3> HIDE DEF S
      <3> QED
        BY <1>14
    <2> QED
      BY <2>1
  <1> QED
    BY <1>10, <1>15 DEF X

\* fd_event of a descriptor, for the file that is open there.
LEMMA FedFdKeeps ==
  ASSUME IoInv, NEW f \in Fds, NEW q \in FreshPendings(anfds, file), NEW got \in SUBSET Ev, NEW src \in Nat,
         ActiveOn(f) # {} /\ file[f] # 0 => src = file[f]
  PROVE  FedFd(q, f, got, src) \in FreshPendings(anfds, file)
  <1>1. PICK ws \in Seq(IoWatchers) : ws = anfds[f].head
    BY DEF IoInv, IoTypeOK, Anfd
  <1>2. ASSUME NEW i \in 1 .. Len(ws) PROVE Feedable(ws[i], anfds, file, src)
    <2>1. ws[i] \in Rng(ws)
      BY DEF Rng
    <2>2. ws[i] \in ActiveOn(f)
      BY <1>1, <2>1 DEF ActiveOn
    <2>3. ws[i] \in IoWatchers /\ FdOf[ws[i]] = f
      BY <2>2, ActiveHere
    <2> QED
      BY <1>1, <2>1, <2>2, <2>3 DEF Feedable
  <1>3. PICK a : a = anfds
    OBVIOUS
  <1>4. PICK fl : fl = file
    OBVIOUS
  <1>5. FedAll(q, ws, got, src) \in FreshPendings(a, fl)
    <2>1. q \in FreshPendings(a, fl) /\ \A i \in 1 .. Len(ws) : Feedable(ws[i], a, fl, src)
      BY <1>2, <1>3, <1>4
    <2> QED
      BY <2>1, FedAllKeeps
  <1> QED
    BY <1>1, <1>3, <1>4, <1>5 DEF FedFd

----------------------------------------------------------------------------
(* The descriptors that epoll refuses. *)

\* The last takes the place of one that leaves: e is s without its k-th element, and the
\* same up to there.
Shorter(s, k, e) ==
  /\ Len(e) = Len(s) - 1
  /\ \A j \in 1 .. (k - 1) : e[j] = s[j]
  /\ \A i \in 1 .. Len(s) : i # k => \E j \in 1 .. (Len(s) - 1) : e[j] = s[i]

\* epoll_poll: the entry that leaves epoll_eperms is the only one that is lost.
LEMMA DroppedList ==
  ASSUME NEW S, NEW s \in Seq(S), NEW k \in Nat
  PROVE  /\ Dropped(s, k) \in Seq(S)
         /\ k \in 1 .. Len(s) => Shorter(s, k, Dropped(s, k))
  <1>1. PICK n \in Nat : n = Len(s)
    OBVIOUS
  <1>2. PICK t : t = [s EXCEPT ![k] = s[Len(s)]]
    OBVIOUS
  <1>3. \A i \in 1 .. n : s[i] \in S
    BY <1>1
  <1>4. \A i \in 1 .. n : t[i] = IF i = k THEN s[n] ELSE s[i]
    BY <1>1, <1>2
  <1>5. \A i \in 1 .. n : t[i] \in S
    BY <1>3, <1>4
  <1>6. \A i \in 1 .. (n - 1) : t[i] \in S
    BY <1>5
  <1>7. PICK m \in Int : m = n - 1
    OBVIOUS
  <1>8. /\ SubSeq(t, 1, m) \in Seq(S) /\ Len(SubSeq(t, 1, m)) = IF 1 <= m THEN m - 1 + 1 ELSE 0
        /\ \A i \in 1 .. m - 1 + 1 : SubSeq(t, 1, m)[i] = t[1 + i - 1]
    BY <1>6, <1>7, SubSeqProperties
  <1>9. PICK e \in Seq(S) : e = SubSeq(t, 1, m)
    BY <1>8
  <1>10. e = Dropped(s, k)
    BY <1>1, <1>2, <1>7, <1>9 DEF Dropped
  <1>11. n > 0 => Len(e) = n - 1
    BY <1>7, <1>8, <1>9
  <1>12. ASSUME NEW i \in 1 .. (n - 1) PROVE e[i] = t[i]
    <2>1. i \in 1 .. m - 1 + 1 /\ 1 + i - 1 = i
      BY <1>7
    <2> QED
      BY <1>8, <1>9, <2>1
  <1>13. ASSUME k \in 1 .. n, NEW j \in 1 .. (k - 1) PROVE e[j] = s[j]
    <2>1. j \in 1 .. (n - 1) /\ j \in 1 .. n /\ j # k
      BY <1>13
    <2> QED
      BY <1>4, <1>12, <2>1
  <1>14. ASSUME k \in 1 .. n, NEW i \in 1 .. n, i # k PROVE \E j \in 1 .. (n - 1) : e[j] = s[i]
    <2>1. CASE i = n
      <3>1. k \in 1 .. (n - 1)
        BY <1>14, <2>1
      <3>2. e[k] = s[n]
        BY <1>4, <1>12, <1>14, <3>1
      <3> QED
        BY <2>1, <3>1, <3>2
    <2>2. CASE i # n
      <3>1. i \in 1 .. (n - 1)
        BY <2>2
      <3>2. e[i] = s[i]
        BY <1>4, <1>12, <1>14, <3>1
      <3> QED
        BY <3>1, <3>2
    <2> QED
      BY <2>1, <2>2
  <1>15. k \in 1 .. n => Shorter(s, k, e)
    <2> SUFFICES ASSUME k \in 1 .. n PROVE Shorter(s, k, e)
      OBVIOUS
    <2>1. Len(e) = n - 1
      BY <1>11
    <2>2. \A j \in 1 .. (k - 1) : e[j] = s[j]
      BY <1>13
    <2>3. \A i \in 1 .. n : i # k => \E j \in 1 .. (n - 1) : e[j] = s[i]
      BY <1>14
    <2> QED
      BY <1>1, <2>1, <2>2, <2>3 DEF Shorter
  <1> QED
    BY <1>1, <1>10, <1>15

\* The list and the entries while the pass is at a descriptor.
Scans == [list : Seq(Fds), fed : FreshPendings(anfds, file)]

\* One entry of epoll_eperms.
LEMMA EpermSeenKeeps ==
  ASSUME IoInv, NEW q \in Scans, NEW k \in 1 .. Len(eperms)
  PROVE  EpermSeen(q, k) \in Scans
  <1>1. PICK f \in Fds : f = eperms[k]
    BY DEF IoInv, IoTypeOK
  <1>2. q.list \in Seq(Fds) /\ q.fed \in FreshPendings(anfds, file)
    BY DEF Scans
  <1>3. PICK got \in SUBSET Ev : got = anfds[f].events
    BY DEF IoInv, IoTypeOK, Anfd
  <1>4. PICK src \in Nat : src = file[f]
    BY DEF IoInv, IoTypeOK
  <1>5. FedFd(q.fed, f, got, src) \in FreshPendings(anfds, file)
    BY <1>2, <1>4, FedFdKeeps
  <1>6. Dropped(q.list, k) \in Seq(Fds)
    <2>1. PICK l \in Seq(Fds) : l = q.list
      BY <1>2
    <2>2. k \in Nat
      BY DEF IoInv, IoTypeOK
    <2>3. Dropped(l, k) \in Seq(Fds)
      BY <2>2, DroppedList
    <2> QED
      BY <2>1, <2>3
  <1>7. EpermSeen(q, k) = IF KeepsEperm(f) THEN [list |-> q.list, fed |-> FedFd(q.fed, f, got, src)]
                          ELSE [list |-> Dropped(q.list, k), fed |-> q.fed]
    BY <1>1, <1>3, <1>4 DEF EpermSeen
  <1>8. CASE KeepsEperm(f)
    BY <1>2, <1>5, <1>7, <1>8 DEF Scans
  <1>9. CASE ~KeepsEperm(f)
    BY <1>2, <1>6, <1>7, <1>9 DEF Scans
  <1> QED
    BY <1>8, <1>9

\* The pass leaves the entries fresh and drops no descriptor that is still refused.
LEMMA EpermsPassed ==
  ASSUME IoInv, Eperms
  PROVE  /\ eperms' \in Seq(Fds) /\ ioPendings' \in FreshPendings(anfds, file)
         /\ \A f \in Rng(eperms) : KeepsEperm(f) => f \in Rng(eperms')
  <1> DEFINE n == Len(eperms)
             q == [list |-> eperms, fed |-> ioPendings]
             X == Scans
             st == [i \in 1 .. n |-> [r \in X |-> EpermSeen(r, n + 1 - i)]]
             Passed(f) == f = [i \in 0 .. n |-> IF i = 0 THEN q ELSE EpermSeen(f[i - 1], n + 1 - i)]
  <1>0. eperms \in Seq(Fds) /\ ioPendings \in FreshPendings(anfds, file)
    BY DEF IoInv, IoTypeOK, PendInv
  <1>1. n \in Nat
    BY <1>0
  <1>2. \A i \in 1 .. n : \A r \in X : EpermSeen(r, n + 1 - i) \in X
    <2>1. ASSUME NEW i \in 1 .. n PROVE n + 1 - i \in 1 .. Len(eperms)
      BY <1>1
    <2> QED
      BY <2>1, EpermSeenKeeps
  <1>20. q \in X
    BY <1>0 DEF Scans
  <1>21. q.list = eperms
    OBVIOUS
  <1> HIDE DEF n, X, q
  <1>3. StepFcns(X, n, st)
    BY <1>2 DEF StepFcns
  <1>4. \A i \in 1 .. n : \A r \in X : st[i][r] = EpermSeen(r, n + 1 - i)
    OBVIOUS
  <1> HIDE DEF st
  <1>5. PICK f \in [0 .. n -> X] : f[0] = q /\ \A i \in 1 .. n : f[i] = st[i][f[i - 1]]
    <2>1. \E f : Walk(X, n, st, q, f)
      BY <1>1, <1>3, <1>20, StepsExist
    <2> QED
      BY <2>1 DEF Walk
  <1>6. ASSUME NEW i \in 0 .. n PROVE f[i] = IF i = 0 THEN q ELSE EpermSeen(f[i - 1], n + 1 - i)
    <2>1. i # 0 => i \in 1 .. n /\ f[i - 1] \in X
      BY <1>1, <1>5
    <2> QED
      BY <1>4, <1>5, <2>1
  <1>7. Passed(f)
    BY <1>5, <1>6
  <1>8. PICK g : g = CHOOSE h : Passed(h)
    OBVIOUS
  <1>9. Passed(g)
    BY <1>7, <1>8
  <1>10. ioPendings' = g[n].fed /\ eperms' = g[n].list
    BY <1>8 DEF Eperms, n, q
  <1>11. \A i \in 0 .. n : g[i] = IF i = 0 THEN q ELSE EpermSeen(g[i - 1], n + 1 - i)
    BY <1>9
  <1> DEFINE Still(l, i) ==
               /\ Len(l) >= n - i /\ \A j \in 1 .. (n - i) : l[j] = eperms[j]
               /\ \A k \in 1 .. n : KeepsEperm(eperms[k]) => eperms[k] \in Rng(l)
             S == {i \in 0 .. n : g[i] \in X /\ Still(g[i].list, i)}
  <1>12. 0 \in S
    <2>1. g[0] = q /\ 0 \in 0 .. n
      BY <1>1, <1>11
    <2>2. Len(eperms) >= n - 0 /\ \A k \in 1 .. n : eperms[k] \in Rng(eperms)
      BY <1>0, <1>1 DEF n, Rng
    <2>3. Still(q.list, 0)
      BY <1>0, <1>1, <1>21, <2>2
    <2> QED
      BY <1>20, <2>1, <2>3
  <1>13. ASSUME NEW i \in 1 .. n, i - 1 \in S PROVE i \in S
    <2>1. i \in 0 .. n /\ i # 0 /\ g[i - 1] \in X /\ Still(g[i - 1].list, i - 1)
      <3> HIDE DEF Still
      <3> QED
        BY <1>1, <1>13
    <2>2. g[i] = EpermSeen(g[i - 1], n + 1 - i)
      BY <1>11, <2>1
    <2>3. g[i] \in X
      BY <1>2, <2>1, <2>2
    <2>4. PICK l \in Seq(Fds) : l = g[i - 1].list
      BY <2>1 DEF X, Scans
    <2>5. PICK k \in 1 .. n : k = n + 1 - i
      BY <1>1
    <2>6. n - (i - 1) = k /\ n - i = k - 1 /\ Len(l) \in Nat
      BY <1>1, <2>5
    <2>7. Len(l) >= k /\ (\A j \in 1 .. k : l[j] = eperms[j])
          /\ \A m \in 1 .. n : KeepsEperm(eperms[m]) => eperms[m] \in Rng(l)
      BY <2>1, <2>4, <2>6
    <2>8. k \in 1 .. Len(l) /\ l[k] = eperms[k] /\ DOMAIN l = 1 .. Len(l)
      BY <2>6, <2>7
    <2>9. CASE KeepsEperm(eperms[k])
      <3>1. g[i].list = l
        BY <2>2, <2>4, <2>5, <2>9 DEF EpermSeen
      <3>2. Still(l, i)
        <4>1. Len(l) >= n - i /\ \A j \in 1 .. n - i : j \in 1 .. k
          BY <1>1, <2>6, <2>7
        <4> QED
          BY <2>7, <4>1
      <3> HIDE DEF Still
      <3> QED
        BY <2>1, <2>3, <3>1, <3>2
    <2>10. CASE ~KeepsEperm(eperms[k])
      <3>1. g[i].list = Dropped(l, k)
        BY <2>2, <2>4, <2>5, <2>10 DEF EpermSeen
      <3>01. Dropped(l, k) \in Seq(Fds) /\ Shorter(l, k, Dropped(l, k))
        BY <1>1, <2>8, DroppedList
      <3>3. PICK e \in Seq(Fds) : e = Dropped(l, k)
        BY <3>01
      <3>2. /\ Len(e) = Len(l) - 1
            /\ \A j \in 1 .. (k - 1) : e[j] = l[j]
            /\ \A m \in 1 .. Len(l) : m # k => \E j \in 1 .. (Len(l) - 1) : e[j] = l[m]
        BY <3>01, <3>3 DEF Shorter
      <3>4. Len(e) >= n - i /\ \A j \in 1 .. (n - i) : e[j] = eperms[j]
        <4>1. Len(e) >= n - i
          BY <2>6, <2>7, <3>2, <3>3
        <4>2. \A j \in 1 .. (k - 1) : j \in 1 .. k /\ e[j] = l[j]
          BY <1>1, <3>2, <3>3
        <4> QED
          BY <2>6, <2>7, <4>1, <4>2
      <3>5. ASSUME NEW m \in 1 .. n, KeepsEperm(eperms[m]) PROVE eperms[m] \in Rng(e)
        <4>1. eperms[m] \in Rng(l)
          BY <2>7, <3>5
        <4>2. PICK j \in 1 .. Len(l) : l[j] = eperms[m]
          BY <2>8, <4>1 DEF Rng
        <4>3. j # k
          BY <2>8, <2>10, <3>5, <4>2
        <4>4. PICK r \in 1 .. (Len(l) - 1) : e[r] = eperms[m]
          BY <3>2, <3>3, <4>2, <4>3
        <4>5. DOMAIN e = 1 .. (Len(l) - 1)
          BY <3>2, <3>3
        <4> QED
          BY <4>4, <4>5 DEF Rng
      <3>6. Still(e, i)
        BY <3>4, <3>5
      <3> QED
        BY <2>1, <2>3, <3>1, <3>3, <3>6
    <2> QED
      BY <2>9, <2>10
  <1>14. ASSUME NEW T, T = S PROVE n \in T
    <2> HIDE DEF S
    <2>1. 0 \in T /\ \A i \in 1 .. n : i - 1 \in T => i \in T
      BY <1>12, <1>13, <1>14
    <2>2. \A i \in 0 .. n : i \in T
      BY <1>1, <2>1, UpTo
    <2> QED
      BY <1>1, <2>2
  <1>15. g[n] \in X /\ Still(g[n].list, n)
    <2>1. n \in S
      <3> HIDE DEF S
      <3> QED
        BY <1>14
    <2> QED
      BY <2>1
  <1>16. eperms' \in Seq(Fds) /\ ioPendings' \in FreshPendings(anfds, file)
    BY <1>10, <1>15 DEF X, Scans
  <1>17. ASSUME NEW f2 \in Rng(eperms), KeepsEperm(f2) PROVE f2 \in Rng(eperms')
    <2>1. PICK k \in 1 .. n : f2 = eperms[k]
      BY <1>0 DEF Rng, n
    <2>2. f2 \in Rng(g[n].list)
      BY <1>15, <1>17, <2>1
    <2> QED
      BY <1>10, <2>2
  <1> QED
    BY <1>16, <1>17

\* The pass over the whole of epoll_eperms.
LEMMA EpermsKeeps ==
  ASSUME IoInv, Eperms
  PROVE  IoInv'
  <1>0. /\ UNCHANGED <<fdchanges, ioPostfork, reports, file, plain, kernel, set, opened>>
        /\ ioPhase' = "invoke" /\ reports = {}
        /\ anfds' = [f \in Fds |-> IF f \in Rng(eperms) /\ ~KeepsEperm(f)
                                   THEN [anfds[f] EXCEPT !.emask = {}] ELSE anfds[f]]
    BY DEF Eperms
  <1>1. anfds \in [Fds -> Anfd] /\ \A r \in kernel : r.fd \in Fds
    BY DEF IoInv, IoTypeOK, Reg
  <1>2. ASSUME NEW f \in Fds
        PROVE  /\ anfds'[f] \in Anfd /\ anfds'[f].head = anfds[f].head /\ anfds'[f].egen = anfds[f].egen
               /\ anfds'[f].events = anfds[f].events /\ anfds'[f].reify = anfds[f].reify
               /\ anfds'[f].emask = IF f \in Rng(eperms) /\ ~KeepsEperm(f) THEN {} ELSE anfds[f].emask
    <2>1. PICK a \in Anfd : a = anfds[f]
      BY <1>1
    <2>2. PICK b \in Anfd : b = [a EXCEPT !.emask = {}]
      BY DEF Anfd
    <2>3. b.head = a.head /\ b.egen = a.egen /\ b.events = a.events /\ b.reify = a.reify /\ b.emask = {}
      BY <2>2 DEF Anfd
    <2>4. anfds'[f] = IF f \in Rng(eperms) /\ ~KeepsEperm(f) THEN b ELSE a
      BY <1>0, <2>1, <2>2
    <2> QED
      BY <2>1, <2>3, <2>4
  <1>3. anfds' \in [Fds -> Anfd]
    <2>1. PICK t : t = anfds'
      OBVIOUS
    <2>2. t = [f \in Fds |-> t[f]]
      BY <1>0, <2>1
    <2>3. \A f \in Fds : t[f] \in Anfd
      BY <1>2, <2>1
    <2> QED
      BY <2>1, <2>2, <2>3
  <1>4. /\ eperms' \in Seq(Fds) /\ ioPendings' \in FreshPendings(anfds, file)
        /\ \A f \in Rng(eperms) : KeepsEperm(f) => f \in Rng(eperms')
    BY EpermsPassed
  <1>5. ioPendings' \in Seq(Pend)
    BY <1>4 DEF FreshPendings
  <1>6. IoTypeOK' /\ PhaseInv'
    BY <1>0, <1>3, <1>4, <1>5 DEF IoInv, IoTypeOK, PhaseInv, IoPhases
  <1>7. HeadsInv'
    <2>1. ASSUME NEW f \in Fds
          PROVE  /\ \A i \in 1 .. Len(anfds'[f].head) : FdOf[anfds'[f].head[i]] = f
                 /\ \A i, j \in 1 .. Len(anfds'[f].head) : anfds'[f].head[i] = anfds'[f].head[j] => i = j
      <3>1. anfds'[f].head = anfds[f].head
        BY <1>2
      <3> QED
        BY <3>1 DEF IoInv, HeadsInv
    <2> QED
      BY <2>1 DEF HeadsInv
  <1>8. FilesInv'
    BY <1>0 DEF IoInv, FilesInv
  <1>9. ChangesInv'
    BY <1>0, <1>2 DEF IoInv, ChangesInv, Rng
  <1>10. GensInv'
    BY <1>0, <1>1, <1>2 DEF IoInv, GensInv
  <1>11. EpermInv'
    <2>1. ASSUME NEW f \in Fds, "eperm" \in anfds'[f].emask PROVE f \in Rng(eperms')
      <3>1. "eperm" \in anfds[f].emask /\ ~(f \in Rng(eperms) /\ ~KeepsEperm(f))
        BY <1>2, <2>1
      <3>2. f \in Rng(eperms)
        BY <3>1 DEF IoInv, EpermInv
      <3> QED
        BY <1>4, <3>1, <3>2
    <2> QED
      BY <2>1 DEF EpermInv, Rng
  <1>12. \A f \in Fds : ActiveOn(f)' = ActiveOn(f)
    BY <1>2 DEF ActiveOn
  <1>13. SetInv'
    BY <1>0, <1>12 DEF IoInv, SetInv
  <1>14. EventsInv'
    <2>1. \A f \in Fds : Wants(f)' = Wants(f)
      BY <1>12 DEF Wants
    <2> QED
      BY <1>2, <2>1 DEF IoInv, EventsInv
  <1>15. ASSUME NEW f \in Fds, Relied(f)' PROVE Known(f)'
    <2>1. Relied(f)
      BY <1>0, <1>2, <1>15 DEF Relied
    <2>2. Known(f)
      BY <2>1 DEF IoInv, KnownInv
    <2>3. file[f] \in plain => "eperm" \in anfds'[f].emask
      BY <1>2, <2>1, <2>2 DEF Known, Relied, KeepsEperm
    <2>4. anfds'[f].events = anfds[f].events /\ anfds'[f].egen = anfds[f].egen
      BY <1>2
    <2> QED
      BY <1>0, <2>2, <2>3, <2>4 DEF Known
  <1>16. PendInv'
    <2>1. ASSUME NEW p \in Pend, Fresh(p, anfds, file) PROVE Fresh(p, anfds', file)
      <3>1. p.w \in IoWatchers => FdOf[p.w] \in Fds
        BY EvIoAssumption
      <3> QED
        BY <1>2, <2>1, <3>1 DEF Fresh
    <2>2. PICK q \in FreshPendings(anfds, file) : q = ioPendings'
      BY <1>4
    <2>3. q \in FreshPendings(anfds', file)
      BY <2>1, FreshStays
    <2> QED
      BY <1>0, <2>2, <2>3 DEF PendInv
  <1> QED
    BY <1>6, <1>7, <1>8, <1>9, <1>10, <1>11, <1>13, <1>14, <1>15, <1>16 DEF IoInv, KnownInv

----------------------------------------------------------------------------
(* A report of the kernel. *)

\* A report that the loop accepts for watchers comes from the file that is open there.
LEMMA AcceptedReport ==
  ASSUME IoInv, NEW r \in reports, ~Stale(r), ioPhase = "process", ActiveOn(r.fd) # {}, file[r.fd] # 0
  PROVE  r.file = file[r.fd] /\ file[r.fd] \notin plain /\ Relied(r.fd)
  <1>1. PICK f \in Fds : f = r.fd
    BY DEF IoInv, IoTypeOK, Rep
  <1>2. anfds[f].reify = {}
    BY DEF IoInv, PhaseInv, ChangesInv, Rng
  <1>3. PICK w \in ActiveOn(f) : TRUE
    BY <1>1
  <1>4. w \in IoWatchers /\ FdOf[w] = f
    BY ActiveHere
  <1>5. set[w] = file[f]
    BY <1>1 DEF IoInv, SetInv
  <1>6. anfds[f].events = Wants(f) /\ EventsOf[w] # {}
    BY <1>2, <1>4, EvIoAssumption DEF IoInv, EventsInv
  <1>7. anfds[f].events # {}
    BY <1>3, <1>6 DEF Wants
  <1>8. Relied(f)
    BY <1>1, <1>2, <1>4, <1>5, <1>7 DEF Relied
  <1>9. Known(f)
    BY <1>8 DEF IoInv, KnownInv
  <1> QED
    BY <1>1, <1>8, <1>9 DEF Known, Stale

\* What an epoll_ctl that succeeds leaves: the registration of the file open now is replaced.
LEMMA CtlKernel ==
  ASSUME IoTypeOK, NEW f \in Fds, NEW op \in {"MOD", "DEL", "ADD"}, NEW mask \in SUBSET Ev, NEW gen \in Nat,
         NEW k, k = CtlDone(kernel, op, f, mask, gen)
  PROVE  /\ k \in SUBSET Reg
         /\ \A r \in k : \/ r \in kernel /\ ~(r.fd = f /\ r.file = file[f])
                         \/ /\ op # "DEL"
                            /\ r = [fd |-> f, file |-> file[f], mask |-> mask, gen |-> gen]
         /\ \A r \in kernel : r.fd # f => r \in k
         /\ op # "DEL" => [fd |-> f, file |-> file[f], mask |-> mask, gen |-> gen] \in k
  <1>1. kernel \in SUBSET Reg /\ file[f] \in Nat
    BY DEF IoTypeOK
  <1>2. PICK n \in Reg : n = [fd |-> f, file |-> file[f], mask |-> mask, gen |-> gen]
    BY <1>1 DEF Reg
  <1>3. k = (kernel \ Registered(kernel, f)) \cup (IF op = "DEL" THEN {} ELSE {n})
    BY <1>2 DEF CtlDone
  <1>4. \A r \in kernel : r \in Registered(kernel, f) <=> r.fd = f /\ r.file = file[f]
    BY DEF Registered
  <1> QED
    BY <1>1, <1>2, <1>3, <1>4

\* One report of epoll_poll: stale, not to be corrected, with events nobody asked for, or fed.
LEMMA ProcessKeeps ==
  ASSUME IoInv, Process
  PROVE  IoInv'
  <1> DEFINE Asked(r) == anfds[r.fd].events
             Op(r) == IF Asked(r) = {} THEN "DEL" ELSE "MOD"
             Unasked(r) == r.got \ Asked(r) # {}
             Refused(r) == Unasked(r) /\ CtlError(kernel, Op(r), r.fd) # "none"
  <1>0. PICK r \in reports :
          /\ reports' = reports \ {r}
          /\ anfds' = IF ~Stale(r) /\ Unasked(r) THEN [anfds EXCEPT ![r.fd].emask = Asked(r)] ELSE anfds
          /\ kernel' = IF ~Stale(r) /\ Unasked(r) /\ ~Refused(r)
                       THEN CtlDone(kernel, Op(r), r.fd, Asked(r), r.gen) ELSE kernel
          /\ ioPostfork' = (ioPostfork \/ Stale(r) \/ Refused(r))
          /\ ioPendings' = IF Stale(r) \/ Refused(r) THEN ioPendings
                           ELSE FedFd(ioPendings, r.fd, r.got, r.file)
    BY DEF Process
  <1>1. UNCHANGED <<fdchanges, eperms, ioPhase, file, plain, set, opened>> /\ ioPhase = "process"
    BY DEF Process
  <1>2. /\ anfds \in [Fds -> Anfd] /\ kernel \in SUBSET Reg /\ reports \in SUBSET Rep /\ file \in [Fds -> Nat]
        /\ \A s \in kernel : s \in Reg /\ s.fd \in Fds
    BY DEF IoInv, IoTypeOK, Reg
  <1>3. PICK f \in Fds : f = r.fd
    BY <1>2 DEF Rep
  <1>4. r.file \in Nat /\ r.gen \in Nat /\ r.got \in SUBSET Ev
    BY <1>2 DEF Rep
  <1>5. PICK want \in SUBSET Ev : want = anfds[f].events
    BY <1>2 DEF Anfd
  <1>6. PICK op \in {"MOD", "DEL", "ADD"} : op = (IF want = {} THEN "DEL" ELSE "MOD")
    OBVIOUS
  <1>7. Asked(r) = want /\ Op(r) = op
    BY <1>3, <1>5, <1>6
  <1> HIDE DEF Asked, Op
  <1>8. PICK un \in BOOLEAN : un = Unasked(r)
    OBVIOUS
  <1>9. PICK no \in BOOLEAN : no = Refused(r)
    OBVIOUS
  <1>10. PICK stale \in BOOLEAN : stale = Stale(r)
    BY DEF Stale
  <1>11. /\ stale <=> anfds[f].egen # r.gen
         /\ no <=> un /\ CtlError(kernel, op, f) # "none"
    BY <1>3, <1>7, <1>8, <1>9, <1>10 DEF Stale
  <1> HIDE DEF Unasked, Refused
  <1>12. ioPendings' \in FreshPendings(anfds, file)
    <2>1. CASE stale \/ no
      BY <1>0, <1>9, <1>10, <2>1 DEF IoInv, PendInv
    <2>2. CASE ~(stale \/ no)
      <3>1. ActiveOn(f) # {} /\ file[f] # 0 => r.file = file[f]
        BY <1>1, <1>3, <1>10, <2>2, AcceptedReport
      <3>2. PICK src \in Nat : src = r.file
        BY <1>4
      <3>3. PICK got \in SUBSET Ev : got = r.got
        BY <1>4
      <3>4. ioPendings \in FreshPendings(anfds, file)
        BY DEF IoInv, PendInv
      <3>5. FedFd(ioPendings, f, got, src) \in FreshPendings(anfds, file)
        <4>1. PICK q \in FreshPendings(anfds, file) : q = ioPendings
          BY <3>4
        <4>2. FedFd(q, f, got, src) \in FreshPendings(anfds, file)
          BY <3>1, <3>2, FedFdKeeps
        <4> QED
          BY <4>1, <4>2
      <3> QED
        BY <1>0, <1>3, <1>9, <1>10, <2>2, <3>2, <3>3, <3>5
    <2> QED
      BY <2>1, <2>2
  <1>13. /\ anfds' \in [Fds -> Anfd]
         /\ \A g \in Fds : /\ anfds'[g].head = anfds[g].head /\ anfds'[g].egen = anfds[g].egen
                           /\ anfds'[g].events = anfds[g].events /\ anfds'[g].reify = anfds[g].reify
                           /\ g # f => anfds'[g].emask = anfds[g].emask
         /\ anfds'[f].emask = IF ~stale /\ un THEN want ELSE anfds[f].emask
    <2>1. CASE ~stale /\ un
      <3>1. PICK a \in Anfd : a = anfds[f]
        BY <1>2
      <3>2. want \in SUBSET {"read", "write", "eperm"}
        BY <1>5 DEF Ev
      <3>3. PICK b \in Anfd : b = [a EXCEPT !.emask = want]
        BY <3>2 DEF Anfd
      <3>4. b.head = a.head /\ b.egen = a.egen /\ b.events = a.events /\ b.reify = a.reify /\ b.emask = want
        BY <3>3 DEF Anfd
      <3>5. anfds' = [anfds EXCEPT ![f].emask = want]
        BY <1>0, <1>3, <1>7, <1>8, <1>10, <2>1
      <3>6. anfds' = [anfds EXCEPT ![f] = b]
        BY <1>2, <3>1, <3>3, <3>5
      <3>7. anfds' \in [Fds -> Anfd] /\ anfds'[f] = b /\ \A g \in Fds : g # f => anfds'[g] = anfds[g]
        BY <1>2, <3>6
      <3> QED
        BY <2>1, <3>1, <3>4, <3>7
    <2>2. CASE ~(~stale /\ un)
      <3>1. anfds' = anfds
        BY <1>0, <1>8, <1>10, <2>2
      <3> QED
        BY <1>2, <2>2, <3>1
    <2> QED
      BY <2>1, <2>2
  <1>14. ioPendings' \in Seq(Pend) /\ reports' \subseteq reports
    BY <1>0, <1>12 DEF FreshPendings
  <1>15. kernel' = IF ~stale /\ un /\ ~no THEN CtlDone(kernel, op, f, want, r.gen) ELSE kernel
    BY <1>0, <1>3, <1>7, <1>8, <1>9, <1>10
  \* A registration that is changed is one of the current generation; one that cannot be
  \* changed is not there, so the loop does not rely on it.
  <1>16. /\ kernel' \in SUBSET Reg /\ FilesInv' /\ GensInv'
         /\ \A g \in Fds : Relied(g)' => Known(g)'
    <2>0. CASE ~stale /\ un /\ ~no
      <3>1. CtlError(kernel, op, f) = "none" /\ r.gen = anfds[f].egen
        BY <1>11, <2>0
      <3>2. file[f] # 0 /\ file[f] \notin plain /\ Registered(kernel, f) # {}
        BY <1>6, <3>1 DEF CtlError
      <3>3. PICK k0 \in kernel : k0.fd = f /\ k0.file = file[f]
        BY <3>2 DEF Registered
      <3>4. k0.gen = anfds[f].egen
        BY <3>3 DEF IoInv, GensInv
      <3>5. PICK n \in Reg : n = [fd |-> f, file |-> file[f], mask |-> want, gen |-> r.gen]
        BY <1>2, <1>4 DEF Reg
      <3>50. n.fd = f /\ n.file = file[f] /\ n.mask = want /\ n.gen = anfds[f].egen
        BY <3>1, <3>5
      <3>6. /\ kernel' \in SUBSET Reg
            /\ \A s \in kernel' : \/ s \in kernel /\ ~(s.fd = f /\ s.file = file[f])
                                  \/ op # "DEL" /\ s = n
            /\ \A s \in kernel : s.fd # f => s \in kernel'
            /\ op # "DEL" => n \in kernel'
        <4>1. PICK gen \in Nat : gen = r.gen
          BY <1>4
        <4>2. PICK k : k = CtlDone(kernel, op, f, want, gen)
          OBVIOUS
        <4>3. kernel' = k /\ n = [fd |-> f, file |-> file[f], mask |-> want, gen |-> gen]
          BY <1>15, <2>0, <3>5, <4>1, <4>2
        <4>4. /\ k \in SUBSET Reg
              /\ \A s \in k : \/ s \in kernel /\ ~(s.fd = f /\ s.file = file[f])
                              \/ /\ op # "DEL"
                                 /\ s = [fd |-> f, file |-> file[f], mask |-> want, gen |-> gen]
              /\ \A s \in kernel : s.fd # f => s \in k
              /\ op # "DEL" => [fd |-> f, file |-> file[f], mask |-> want, gen |-> gen] \in k
          BY <4>2, CtlKernel DEF IoInv
        <4> QED
          BY <4>3, <4>4
      <3>7. ASSUME NEW s \in kernel, s.fd = f, s.gen = anfds[f].egen PROVE s.file = file[f]
        <4>1. s = k0
          BY <3>3, <3>4, <3>7 DEF IoInv, GensInv
        <4> QED
          BY <3>3, <4>1
      <3>8. FilesInv'
        <4>1. ASSUME NEW s \in kernel' PROVE s.file # 0 /\ s.file <= opened /\ s.file \notin plain
          <5>1. CASE s \in kernel
            BY <5>1 DEF IoInv, FilesInv
          <5>2. CASE s = n
            BY <3>2, <3>50, <5>2 DEF IoInv, FilesInv
          <5> QED
            BY <3>6, <5>1, <5>2
        <4> QED
          BY <1>1, <4>1 DEF IoInv, FilesInv
      <3>9. GensInv'
        <4>1. ASSUME NEW s \in kernel' PROVE s.fd \in Fds /\ s.gen <= anfds'[s.fd].egen
          <5>1. CASE s \in kernel
            BY <1>2, <1>13, <5>1 DEF IoInv, GensInv
          <5>2. CASE s = n
            <6>1. anfds[f].egen \in Nat
              BY <1>2 DEF Anfd
            <6> QED
              BY <1>13, <3>50, <5>2, <6>1
          <5> QED
            BY <3>6, <5>1, <5>2
        <4>2. ASSUME NEW s \in kernel', s.file = file[s.fd]
              PROVE  s.gen = anfds'[s.fd].egen /\ (s.mask = anfds'[s.fd].emask \/ anfds'[s.fd].emask = {})
          <5>1. CASE s \in kernel /\ ~(s.fd = f /\ s.file = file[f])
            BY <1>2, <1>13, <4>2, <5>1 DEF IoInv, GensInv
          <5>2. CASE s = n
            BY <1>13, <2>0, <3>50, <5>2
          <5> QED
            BY <3>6, <5>1, <5>2
        <4>3. ASSUME NEW s \in kernel', NEW t \in kernel', s.fd = t.fd, s.gen = t.gen PROVE s = t
          <5>1. CASE s = n /\ t # n
            <6>1. t \in kernel /\ ~(t.fd = f /\ t.file = file[f])
              BY <3>6, <5>1
            <6> QED
              BY <3>7, <3>50, <4>3, <5>1, <6>1
          <5>2. CASE t = n /\ s # n
            <6>1. s \in kernel /\ ~(s.fd = f /\ s.file = file[f])
              BY <3>6, <5>2
            <6> QED
              BY <3>7, <3>50, <4>3, <5>2, <6>1
          <5>3. CASE s # n /\ t # n
            BY <3>6, <4>3, <5>3 DEF IoInv, GensInv
          <5> QED
            BY <5>1, <5>2, <5>3
        <4> QED
          BY <1>1, <4>1, <4>2, <4>3 DEF GensInv
      <3>10. ASSUME NEW g \in Fds, Relied(g)' PROVE Known(g)'
        <4>1. Relied(g)
          BY <1>1, <1>13, <3>10 DEF Relied
        <4>2. Known(g)
          BY <4>1 DEF IoInv, KnownInv
        <4>3. CASE g # f
          <5>1. anfds'[g].egen = anfds[g].egen /\ anfds'[g].emask = anfds[g].emask /\ anfds'[g].events = anfds[g].events
            BY <1>13, <4>3
          <5>2. \A s \in kernel' : s.fd = g => s \in kernel
            BY <3>6, <3>50, <4>3
          <5>3. \A s \in kernel : s.fd = g => s \in kernel'
            BY <3>6, <4>3
          <5> QED
            BY <1>1, <1>14, <4>2, <5>1, <5>2, <5>3 DEF Known
        <4>4. CASE g = f
          <5>1. op # "DEL" /\ n \in kernel'
            BY <1>5, <1>6, <3>6, <4>1, <4>4 DEF Relied
          <5>2. anfds'[f].egen = anfds[f].egen /\ anfds'[f].events = want
            BY <1>5, <1>13
          <5>3. ASSUME NEW s \in kernel', s.fd = f, s.gen = anfds[f].egen PROVE s.file = file[f]
            BY <3>6, <3>7, <3>50, <5>3
          <5>4. \A s \in reports' : s.fd = f /\ s.gen = anfds[f].egen => s.file = file[f] /\ file[f] \notin plain
            BY <1>14, <4>2, <4>4 DEF Known
          <5> QED
            BY <1>1, <3>2, <3>50, <4>4, <5>1, <5>2, <5>3, <5>4 DEF Known
        <4> QED
          BY <4>3, <4>4
      <3> QED
        BY <3>6, <3>8, <3>9, <3>10
    <2>1. CASE ~(~stale /\ un /\ ~no)
      <3>1. kernel' = kernel
        BY <1>15, <2>1
      <3>2. ASSUME ~stale, un
            PROVE  ~Relied(f) /\ \A s \in kernel : s.fd = f => s.file # file[f]
        <4>1. CtlError(kernel, op, f) # "none"
          BY <1>11, <2>1, <3>2
        <4>2. file[f] = 0 \/ file[f] \in plain \/ Registered(kernel, f) = {}
          BY <1>6, <4>1 DEF CtlError
        <4>3. ASSUME NEW s \in kernel, s.fd = f, s.file = file[f] PROVE FALSE
          <5>1. s.file # 0 /\ s.file \notin plain
            BY DEF IoInv, FilesInv
          <5>2. s \in Registered(kernel, f)
            BY <4>3 DEF Registered
          <5> QED
            BY <4>2, <4>3, <5>1, <5>2
        <4>4. ASSUME Relied(f) PROVE FALSE
          <5>1. Known(f)
            BY <4>4 DEF IoInv, KnownInv
          <5>2. file[f] \notin plain
            BY <1>3, <1>11, <3>2, <5>1 DEF Known
          <5>3. \E s \in kernel : s.fd = f /\ s.file = file[f]
            BY <5>1, <5>2 DEF Known
          <5> QED
            BY <4>3, <5>3
        <4> QED
          BY <4>3, <4>4
      <3>3. FilesInv'
        BY <1>1, <3>1 DEF IoInv, FilesInv
      <3>4. GensInv'
        <4>1. ASSUME NEW s \in kernel, s.file = file[s.fd]
              PROVE  s.gen = anfds'[s.fd].egen /\ (s.mask = anfds'[s.fd].emask \/ anfds'[s.fd].emask = {})
          <5>1. s.fd \in Fds /\ (s.fd = f => ~(~stale /\ un))
            BY <1>2, <3>2, <4>1
          <5>2. anfds'[s.fd].egen = anfds[s.fd].egen /\ anfds'[s.fd].emask = anfds[s.fd].emask
            BY <1>13, <5>1
          <5> QED
            BY <4>1, <5>2 DEF IoInv, GensInv
        <4>2. \A s \in kernel : s.gen <= anfds'[s.fd].egen
          BY <1>2, <1>13 DEF IoInv, GensInv
        <4> QED
          BY <1>1, <3>1, <4>1, <4>2 DEF IoInv, GensInv
      <3>5. ASSUME NEW g \in Fds, Relied(g)' PROVE Known(g)'
        <4>1. Relied(g)
          BY <1>1, <1>13, <3>5 DEF Relied
        <4>2. Known(g)
          BY <4>1 DEF IoInv, KnownInv
        <4>3. g = f => ~(~stale /\ un)
          BY <3>2, <4>1
        <4>4. anfds'[g].egen = anfds[g].egen /\ anfds'[g].emask = anfds[g].emask /\ anfds'[g].events = anfds[g].events
          BY <1>13, <4>3
        <4> QED
          BY <1>1, <1>14, <3>1, <4>2, <4>4 DEF Known
      <3> QED
        BY <1>2, <3>1, <3>3, <3>4, <3>5
    <2> QED
      BY <2>0, <2>1
  <1>17. IoTypeOK'
    <2>1. ioPostfork' \in BOOLEAN
      BY <1>0
    <2> QED
      BY <1>1, <1>2, <1>13, <1>14, <1>16, <2>1 DEF IoInv, IoTypeOK
  <1>18. PhaseInv'
    BY <1>1, <1>14 DEF IoInv, PhaseInv
  <1>19. HeadsInv'
    <2>1. ASSUME NEW g \in Fds
          PROVE  /\ \A i \in 1 .. Len(anfds'[g].head) : FdOf[anfds'[g].head[i]] = g
                 /\ \A i, j \in 1 .. Len(anfds'[g].head) : anfds'[g].head[i] = anfds'[g].head[j] => i = j
      <3>1. anfds'[g].head = anfds[g].head
        BY <1>13
      <3> QED
        BY <3>1 DEF IoInv, HeadsInv
    <2> QED
      BY <2>1 DEF HeadsInv
  <1>20. ChangesInv'
    BY <1>1, <1>13 DEF IoInv, ChangesInv, Rng
  <1>21. EpermInv'
    <2>1. "eperm" \notin want
      BY <1>5 DEF Ev
    <2> QED
      BY <1>1, <1>13, <2>1 DEF IoInv, EpermInv, Rng
  <1>22. \A g \in Fds : ActiveOn(g)' = ActiveOn(g)
    BY <1>13 DEF ActiveOn
  <1>23. SetInv'
    BY <1>1, <1>22 DEF IoInv, SetInv
  <1>24. EventsInv'
    <2>1. \A g \in Fds : Wants(g)' = Wants(g)
      BY <1>22 DEF Wants
    <2> QED
      BY <1>13, <2>1 DEF IoInv, EventsInv
  <1>25. PendInv'
    <2>1. ASSUME NEW p \in Pend, Fresh(p, anfds, file) PROVE Fresh(p, anfds', file)
      <3>1. p.w \in IoWatchers => FdOf[p.w] \in Fds
        BY EvIoAssumption
      <3> QED
        BY <1>13, <2>1, <3>1 DEF Fresh
    <2>2. PICK q \in FreshPendings(anfds, file) : q = ioPendings'
      BY <1>12
    <2>3. q \in FreshPendings(anfds', file)
      BY <2>1, FreshStays
    <2> QED
      BY <1>1, <2>2, <2>3 DEF PendInv
  <1> QED
    BY <1>16, <1>17, <1>18, <1>19, <1>20, <1>21, <1>23, <1>24, <1>25 DEF IoInv, KnownInv

----------------------------------------------------------------------------
(* Bringing a change to the kernel. *)

\* The first of a list without repetitions is taken off.
LEMMA TailOnce ==
  ASSUME NEW S, NEW c \in Seq(S), c # <<>>, \A i, j \in 1 .. Len(c) : c[i] = c[j] => i = j
  PROVE  /\ Head(c) \in S /\ Head(c) \in Rng(c)
         /\ Tail(c) \in Seq(S) /\ Rng(Tail(c)) = Rng(c) \ {Head(c)}
         /\ \A i, j \in 1 .. Len(Tail(c)) : Tail(c)[i] = Tail(c)[j] => i = j
  <1>1. PICK n \in Nat : n = Len(c)
    OBVIOUS
  <1>2. n > 0 /\ DOMAIN c = 1 .. n
    BY <1>1
  <1>3. PICK x \in S : x = Head(c)
    BY HeadTailProperties
  <1>4. x = c[1] /\ 1 \in 1 .. n
    BY <1>2, <1>3
  <1>5. PICK e \in Seq(S) : e = Tail(c)
    <2>1. Tail(c) \in Seq(S)
      BY HeadTailProperties
    <2> QED
      BY <2>1
  <1>6. Len(e) = n - 1 /\ \A i \in 1 .. (n - 1) : e[i] = c[i + 1]
    <2>1. /\ Len(Tail(c)) = Len(c) - 1
          /\ \A i \in 1 .. Len(Tail(c)) : Tail(c)[i] = c[i + 1]
      BY HeadTailProperties
    <2> QED
      BY <1>1, <1>5, <2>1
  <1>7. DOMAIN e = 1 .. (n - 1)
    BY <1>5, <1>6
  <1>8. \A y : y \in Rng(c) <=> \E i \in 1 .. n : c[i] = y
    BY <1>2 DEF Rng
  <1>9. \A y : y \in Rng(e) <=> \E i \in 1 .. (n - 1) : e[i] = y
    BY <1>7 DEF Rng
  <1>10. \A i \in 1 .. (n - 1) : i + 1 \in 1 .. n /\ i + 1 # 1
    OBVIOUS
  <1>11. ASSUME NEW y PROVE y \in Rng(e) <=> y \in Rng(c) \ {x}
    <2>1. ASSUME y \in Rng(e) PROVE y \in Rng(c) \ {x}
      <3>1. PICK i \in 1 .. (n - 1) : e[i] = y
        BY <1>9, <2>1
      <3>2. PICK k \in 1 .. n : k = i + 1 /\ k # 1
        BY <1>10
      <3>3. c[k] = y
        BY <1>6, <3>1, <3>2
      <3>4. y # x
        BY <1>1, <1>4, <3>2, <3>3
      <3> QED
        BY <1>8, <3>3, <3>4
    <2>2. ASSUME y \in Rng(c), y # x PROVE y \in Rng(e)
      <3>1. PICK k \in 1 .. n : c[k] = y
        BY <1>8, <2>2
      <3>2. PICK i \in 1 .. (n - 1) : i + 1 = k
        <4>1. k # 1
          BY <1>4, <2>2, <3>1
        <4>2. k - 1 \in 1 .. (n - 1) /\ (k - 1) + 1 = k
          BY <4>1
        <4> QED
          BY <4>2
      <3> QED
        BY <1>6, <1>9, <3>1, <3>2
    <2> QED
      BY <2>1, <2>2
  <1>12. ASSUME NEW i \in 1 .. (n - 1), NEW j \in 1 .. (n - 1), e[i] = e[j] PROVE i = j
    <2>1. c[i + 1] = c[j + 1] /\ i + 1 \in 1 .. n /\ j + 1 \in 1 .. n
      BY <1>6, <1>10, <1>12
    <2>2. i + 1 = j + 1
      BY <1>1, <2>1
    <2> QED
      BY <2>2
  <1>13. x \in Rng(c)
    BY <1>4, <1>8
  <1> QED
    BY <1>3, <1>5, <1>6, <1>11, <1>12, <1>13

\* What epoll_modify leaves of the kernel and in the entry of the descriptor.
ModKernel(f, m) ==
  /\ m.kernel \in SUBSET Reg
  /\ \A s \in m.kernel : s.fd # f => s \in kernel
  /\ \A s \in kernel : s.fd # f => s \in m.kernel
  /\ \A s \in m.kernel : s.file # 0 /\ s.file <= opened /\ s.file \notin plain
  /\ \A s \in m.kernel : s.fd = f => s.gen <= m.egen
  /\ \A s \in m.kernel : s.fd = f /\ s.file = file[f] => s.gen = m.egen /\ s.mask = m.emask
  /\ \A s, t \in m.kernel : s.fd = f /\ t.fd = f /\ s.gen = t.gen => s = t
ModEntry(f, m) ==
  /\ m.emask \in SUBSET {"read", "write", "eperm"} /\ m.egen \in Nat
  /\ m.eperm \in BOOLEAN /\ m.kill \in BOOLEAN
  /\ "eperm" \in m.emask => m.eperm
  /\ m.kill <=> file[f] = 0
ModKnown(f, nev, m) ==
  file[f] # 0 =>
    /\ \A s \in m.kernel : s.fd = f /\ s.gen = m.egen => s.file = file[f]
    /\ file[f] \in plain => "eperm" \in m.emask
    /\ file[f] \notin plain =>
         \E s \in m.kernel : s.fd = f /\ s.file = file[f] /\ s.mask = nev /\ s.gen = m.egen

\* Whatever epoll_ctl answers: the file open now is registered under the generation noted, and if
\* epoll_modify takes the generation back, that is because the right registration was there.
LEMMA ModifiedRight ==
  ASSUME IoInv, NEW f \in Fds, NEW nev \in SUBSET Ev, nev # {}, NEW m,
         m = Modified(f, anfds[f].events, nev, anfds[f].emask)
  PROVE  ModKernel(f, m) /\ ModEntry(f, m) /\ ModKnown(f, nev, m)
  <1>0. /\ kernel \in SUBSET Reg /\ file[f] \in Nat /\ anfds[f] \in Anfd
        /\ \A s \in kernel : s \in Reg /\ s.fd \in Fds /\ s.gen \in Nat
    BY DEF IoInv, IoTypeOK, Reg
  <1>1. PICK g \in Nat : g = anfds[f].egen
    BY <1>0 DEF Anfd
  <1>2. PICK old : old = anfds[f].emask
    OBVIOUS
  <1>3. PICK op \in {"MOD", "ADD"} : op = (IF anfds[f].events # {} /\ old # nev THEN "MOD" ELSE "ADD")
    OBVIOUS
  <1>4. PICK err : err = CtlError(kernel, op, f)
    OBVIOUS
  <1>5. nev \in SUBSET {"read", "write", "eperm"} /\ "eperm" \notin nev
    BY DEF Ev
  <1>6. m = CASE err = "EEXIST" /\ old = nev ->
                   [kernel |-> kernel, emask |-> nev, egen |-> (g + 1) - 1, eperm |-> FALSE, kill |-> FALSE]
              [] err = "EPERM" ->
                   [kernel |-> kernel, emask |-> {"eperm"}, egen |-> g + 1, eperm |-> TRUE, kill |-> FALSE]
              [] err = "EBADF" ->
                   [kernel |-> kernel, emask |-> nev, egen |-> (g + 1) - 1, eperm |-> FALSE, kill |-> TRUE]
              [] OTHER ->
                   [kernel |-> CtlDone(kernel, "ADD", f, nev, g + 1), emask |-> nev, egen |-> g + 1,
                    eperm |-> FALSE, kill |-> FALSE]
    BY <1>1, <1>2, <1>3, <1>4 DEF Modified
  <1>7. /\ \A s \in kernel : s.fd = f => s.gen <= g
        /\ \A s \in kernel : s.fd = f /\ s.file = file[f] => s.gen = g /\ (s.mask = old \/ old = {})
        /\ \A s, t \in kernel : s.fd = f /\ t.fd = f /\ s.gen = t.gen => s = t
        /\ \A s \in kernel : s.file # 0 /\ s.file <= opened /\ s.file \notin plain
    <2>1. \A s \in kernel : s.fd = f => s.gen <= g
      BY <1>1 DEF IoInv, GensInv
    <2>2. \A s \in kernel : s.fd = f /\ s.file = file[f] => s.gen = g /\ (s.mask = old \/ old = {})
      BY <1>1, <1>2 DEF IoInv, GensInv
    <2>3. \A s, t \in kernel : s.fd = f /\ t.fd = f /\ s.gen = t.gen => s = t
      BY DEF IoInv, GensInv
    <2> QED
      BY <2>1, <2>2, <2>3 DEF IoInv, FilesInv
  <1>8. CASE file[f] = 0
    <2>1. err = "EBADF"
      BY <1>4, <1>8 DEF CtlError
    <2>2. m.kernel = kernel /\ m.emask = nev /\ m.egen = g /\ m.eperm = FALSE /\ m.kill = TRUE
      BY <1>1, <1>6, <2>1
    <2>3. ModEntry(f, m) /\ ModKnown(f, nev, m)
      BY <1>1, <1>5, <1>8, <2>2 DEF ModEntry, ModKnown
    <2>4. ModKernel(f, m)
      BY <1>0, <1>7, <1>8, <2>2 DEF ModKernel
    <2> QED
      BY <2>3, <2>4
  <1>9. CASE file[f] # 0 /\ file[f] \in plain
    <2>1. err = "EPERM"
      BY <1>4, <1>9 DEF CtlError
    <2>2. m.kernel = kernel /\ m.emask = {"eperm"} /\ m.egen = g + 1 /\ m.eperm = TRUE /\ m.kill = FALSE
      BY <1>6, <2>1
    <2>3. ModEntry(f, m)
      <3>1. {"eperm"} \in SUBSET {"read", "write", "eperm"}
        OBVIOUS
      <3>2. m.emask \in SUBSET {"read", "write", "eperm"} /\ m.egen \in Nat
        BY <2>2, <3>1
      <3> QED
        BY <1>9, <2>2, <3>2 DEF ModEntry
    <2>4. \A s \in kernel : s.fd = f => s.gen <= g + 1 /\ s.gen # g + 1 /\ s.file # file[f]
      BY <1>0, <1>1, <1>7, <1>9
    <2>5. ModKnown(f, nev, m)
      BY <1>9, <2>2, <2>4 DEF ModKnown
    <2>6. ModKernel(f, m)
      BY <1>0, <1>7, <2>2, <2>4 DEF ModKernel
    <2> QED
      BY <2>3, <2>5, <2>6
  <1>10. CASE file[f] # 0 /\ file[f] \notin plain /\ err = "EEXIST" /\ old = nev
    <2>1. m.kernel = kernel /\ m.emask = nev /\ m.egen = g /\ m.eperm = FALSE /\ m.kill = FALSE
      BY <1>1, <1>6, <1>10
    <2>2. Registered(kernel, f) # {}
      BY <1>3, <1>4, <1>10 DEF CtlError
    <2>3. PICK k \in kernel : k.fd = f /\ k.file = file[f]
      BY <2>2 DEF Registered
    <2>4. k.gen = g /\ k.mask = nev
      BY <1>7, <1>10, <2>3
    <2>5. ModEntry(f, m)
      BY <1>1, <1>5, <1>10, <2>1 DEF ModEntry
    <2>6. \A s \in kernel : s.fd = f /\ s.gen = g => s = k
      BY <1>7, <2>3, <2>4
    <2>7. ModKnown(f, nev, m)
      BY <1>10, <2>1, <2>3, <2>4, <2>6 DEF ModKnown
    <2>8. ModKernel(f, m)
      BY <1>0, <1>7, <1>10, <2>1 DEF ModKernel
    <2> QED
      BY <2>5, <2>7, <2>8
  <1>11. CASE file[f] # 0 /\ file[f] \notin plain /\ ~(err = "EEXIST" /\ old = nev)
    <2>1. err # "EPERM" /\ err # "EBADF"
      BY <1>4, <1>11 DEF CtlError
    <2>2. PICK h \in Nat : h = g + 1
      BY <1>1
    <2>3. PICK k : k = CtlDone(kernel, "ADD", f, nev, h)
      OBVIOUS
    <2>4. m.kernel = k /\ m.emask = nev /\ m.egen = h /\ m.eperm = FALSE /\ m.kill = FALSE
      BY <1>6, <1>11, <2>1, <2>2, <2>3
    <2>5. PICK n \in Reg : n = [fd |-> f, file |-> file[f], mask |-> nev, gen |-> h]
      BY <1>0 DEF Reg
    <2>6. n.fd = f /\ n.file = file[f] /\ n.mask = nev /\ n.gen = h
      BY <2>5
    <2>7. /\ k \in SUBSET Reg
          /\ \A s \in k : (s \in kernel /\ ~(s.fd = f /\ s.file = file[f])) \/ s = n
          /\ \A s \in kernel : s.fd # f => s \in k
          /\ n \in k
      <3>1. PICK ad \in {"MOD", "DEL", "ADD"} : ad = "ADD"
        OBVIOUS
      <3>2. /\ k \in SUBSET Reg
            /\ \A r \in k : \/ r \in kernel /\ ~(r.fd = f /\ r.file = file[f])
                            \/ /\ ad # "DEL"
                               /\ r = [fd |-> f, file |-> file[f], mask |-> nev, gen |-> h]
            /\ \A r \in kernel : r.fd # f => r \in k
            /\ ad # "DEL" => [fd |-> f, file |-> file[f], mask |-> nev, gen |-> h] \in k
        BY <2>3, <3>1, CtlKernel DEF IoInv
      <3> QED
        BY <2>5, <3>1, <3>2
    <2>8. \A s \in kernel : s.fd = f => s.gen <= h /\ s.gen # h
      BY <1>0, <1>1, <1>7, <2>2
    <2>9. ModEntry(f, m)
      BY <1>5, <1>11, <2>4 DEF ModEntry
    <2>10. ModKnown(f, nev, m)
      BY <1>11, <2>4, <2>6, <2>7, <2>8 DEF ModKnown
    <2>11. file[f] <= opened
      BY DEF IoInv, FilesInv
    <2>12. ASSUME NEW s \in k
           PROVE  /\ s.fd # f => s \in kernel
                  /\ s.file # 0 /\ s.file <= opened /\ s.file \notin plain
                  /\ s.fd = f => s.gen <= h
                  /\ s.fd = f /\ s.file = file[f] => s.gen = h /\ s.mask = nev
      BY <1>7, <1>11, <2>2, <2>6, <2>7, <2>8, <2>11
    <2>13. ASSUME NEW s \in k, NEW t \in k, s.fd = f, t.fd = f, s.gen = t.gen PROVE s = t
      BY <1>7, <2>6, <2>7, <2>8, <2>13
    <2>14. ModKernel(f, m)
      BY <2>4, <2>7, <2>12, <2>13 DEF ModKernel
    <2> QED
      BY <2>9, <2>10, <2>14
  <1> QED
    BY <1>8, <1>9, <1>10, <1>11

OtherHeads(f, a, b) == \A g \in Fds : g # f => b[g].head = a[g].head

\* fd_kill: the watchers of f are stopped and have error events only.
LEMMA KilledFresh ==
  ASSUME NEW a, NEW b, NEW fl, NEW q \in FreshPendings(a, fl), NEW f \in Fds, NEW ws \in Seq(IoWatchers), NEW src \in Nat,
         a[f].head = ws, OtherHeads(f, a, b)
  PROVE  Killed(q, ws, src) \in FreshPendings(b, fl)
  <1>1. q \in Seq(Pend) /\ \A i \in 1 .. Len(q) : Fresh(q[i], a, fl)
    BY DEF FreshPendings
  <1>2. PICK n \in Nat : n = Len(q)
    BY <1>1
  <1>3. PICK k \in Nat : k = Len(ws)
    OBVIOUS
  <1>4. DOMAIN q = 1 .. n /\ \A i \in 1 .. n : q[i] \in Pend
    BY <1>1, <1>2
  <1>5. PICK u : u = [i \in 1 .. n |-> IF q[i].w \in Rng(ws) THEN [q[i] EXCEPT !.w = "pending_w"] ELSE q[i]]
    OBVIOUS
  <1>6. PICK v : v = [i \in 1 .. k |-> [w |-> ws[i], events |-> Ev \cup {"error"}, file |-> src]]
    OBVIOUS
  <1>7. Killed(q, ws, src) = u \o v
    BY <1>3, <1>4, <1>5, <1>6 DEF Killed
  <1>8. ASSUME NEW i \in 1 .. n PROVE u[i] \in Pend /\ Fresh(u[i], b, fl)
    <2>1. PICK p \in Pend : p = q[i]
      BY <1>4
    <2>2. Fresh(p, a, fl)
      BY <1>1, <1>2, <2>1
    <2>3. CASE p.w \in Rng(ws)
      <3>1. PICK t \in Pend : t = [p EXCEPT !.w = "pending_w"]
        BY DEF Pend
      <3>2. t.w = "pending_w"
        BY <3>1 DEF Pend
      <3>3. u[i] = t
        BY <1>5, <2>1, <2>3, <3>1
      <3> QED
        BY <3>2, <3>3, EvIoAssumption DEF Fresh
    <2>4. CASE p.w \notin Rng(ws)
      <3>1. u[i] = p
        BY <1>5, <2>1, <2>4
      <3>2. p.w \in IoWatchers => FdOf[p.w] \in Fds
        BY EvIoAssumption
      <3> QED
        BY <2>2, <2>4, <3>1, <3>2 DEF Fresh, OtherHeads
    <2> QED
      BY <2>3, <2>4
  <1>9. ASSUME NEW i \in 1 .. k PROVE v[i] \in Pend /\ Fresh(v[i], b, fl)
    <2>1. ws[i] \in IoWatchers
      BY <1>3
    <2>2. PICK e \in SUBSET {"read", "write", "error"} : e = Ev \cup {"error"}
      BY DEF Ev
    <2>3. PICK p \in Pend : p = [w |-> ws[i], events |-> e, file |-> src]
      BY <2>1 DEF Pend
    <2>4. v[i] = p /\ "error" \in p.events
      BY <1>6, <2>2, <2>3
    <2> QED
      BY <2>4 DEF Fresh
  <1>10. u \in [1 .. n -> Pend] /\ v \in [1 .. k -> Pend]
    BY <1>5, <1>6, <1>8, <1>9
  <1>11. u \in Seq(Pend) /\ v \in Seq(Pend) /\ Len(u) = n /\ Len(v) = k
    BY <1>10
  <1>12. PICK e \in Seq(Pend) : e = u \o v
    <2>1. u \o v \in Seq(Pend)
      BY <1>11, ConcatProperties
    <2> QED
      BY <2>1
  <1>13. Len(e) = n + k /\ \A i \in 1 .. n + k : e[i] = IF i <= n THEN u[i] ELSE v[i - n]
    BY <1>11, <1>12, ConcatProperties
  <1>14. ASSUME NEW i \in 1 .. n + k PROVE Fresh(e[i], b, fl)
    <2>1. CASE i <= n
      <3>1. i \in 1 .. n /\ e[i] = u[i]
        BY <1>13, <2>1
      <3> QED
        BY <1>8, <3>1
    <2>2. CASE ~(i <= n)
      <3>1. i - n \in 1 .. k /\ e[i] = v[i - n]
        BY <1>13, <2>2
      <3>2. Fresh(v[i - n], b, fl)
        BY <1>9, <3>1
      <3> QED
        BY <3>1, <3>2
    <2> QED
      BY <2>1, <2>2
  <1> QED
    BY <1>7, <1>12, <1>13, <1>14 DEF FreshPendings

\* The head of the list of changes is dealt with: b is the new entry of f, which is off
\* the list, or on it again if its watchers were stopped.
LEMMA ReifiedTable ==
  ASSUME IoInv, NEW f \in Fds, fdchanges # <<>>, f = Head(fdchanges), NEW b \in Anfd,
         anfds' = [anfds EXCEPT ![f] = b], b.events = Wants(f), UNCHANGED <<file, set>>,
         \/ b.head = anfds[f].head /\ b.reify = {} /\ fdchanges' = Tail(fdchanges)
         \/ b.head = <<>> /\ b.reify = {"reify"} /\ fdchanges' = Append(Tail(fdchanges), f)
  PROVE  /\ anfds' \in [Fds -> Anfd] /\ anfds'[f] = b /\ \A g \in Fds : g # f => anfds'[g] = anfds[g]
         /\ fdchanges' \in Seq(Fds)
         /\ HeadsInv' /\ ChangesInv' /\ EventsInv' /\ SetInv'
  <1>1. anfds \in [Fds -> Anfd] /\ fdchanges \in Seq(Fds)
    BY DEF IoInv, IoTypeOK
  <1>2. anfds' \in [Fds -> Anfd] /\ anfds'[f] = b /\ \A g \in Fds : g # f => anfds'[g] = anfds[g]
    BY <1>1
  <1>3. PICK t \in Seq(Fds) : t = Tail(fdchanges)
    BY <1>1, HeadTailProperties
  <1>4. /\ \A g \in Fds : (anfds[g].reify # {}) <=> (g \in Rng(fdchanges))
        /\ \A i, j \in 1 .. Len(fdchanges) : fdchanges[i] = fdchanges[j] => i = j
    BY DEF IoInv, ChangesInv
  <1>5. /\ Rng(t) = Rng(fdchanges) \ {f}
        /\ \A i, j \in 1 .. Len(t) : t[i] = t[j] => i = j
    BY <1>1, <1>3, <1>4, TailOnce
  <1>6. fdchanges' \in Seq(Fds) /\ ChangesInv'
    <2>1. CASE b.reify = {} /\ fdchanges' = t
      <3>1. PICK c \in Seq(Fds) : c = fdchanges'
        BY <2>1
      <3>2. \A g \in Fds : (anfds'[g].reify # {}) <=> (g \in Rng(c))
        BY <1>2, <1>4, <1>5, <2>1, <3>1
      <3> QED
        BY <1>5, <2>1, <3>1, <3>2 DEF ChangesInv, Rng
    <2>2. CASE b.reify = {"reify"} /\ fdchanges' = Append(t, f)
      <3>1. f \notin Rng(t)
        BY <1>5
      <3>2. PICK c : c = Append(t, f)
        OBVIOUS
      <3>3. c \in Seq(Fds) /\ Rng(c) = Rng(t) \cup {f} /\ \A i, j \in 1 .. Len(c) : c[i] = c[j] => i = j
        BY <1>5, <3>1, <3>2, AppendOnce
      <3>4. \A g \in Fds : (anfds'[g].reify # {}) <=> (g \in Rng(c))
        BY <1>2, <1>4, <1>5, <2>2, <3>3
      <3> QED
        BY <2>2, <3>2, <3>3, <3>4 DEF ChangesInv, Rng
    <2> QED
      BY <1>3, <2>1, <2>2
  <1>7. \A g \in Fds : anfds'[g].head = anfds[g].head \/ anfds'[g].head = <<>>
    BY <1>2
  <1>8. HeadsInv'
    <2>1. ASSUME NEW g \in Fds, NEW h, h = anfds'[g].head
          PROVE  /\ \A i \in 1 .. Len(h) : FdOf[h[i]] = g
                 /\ \A i, j \in 1 .. Len(h) : h[i] = h[j] => i = j
      <3>1. CASE h = <<>>
        BY <3>1
      <3>2. CASE h = anfds[g].head
        BY <3>2 DEF IoInv, HeadsInv
      <3> QED
        BY <1>7, <2>1, <3>1, <3>2
    <2> QED
      BY <2>1, SMTT(30) DEF HeadsInv
  <1>9. ASSUME NEW g \in Fds, anfds'[g].head = anfds[g].head PROVE ActiveOn(g)' = ActiveOn(g)
    BY <1>9 DEF ActiveOn, Rng
  <1>10. ASSUME NEW g \in Fds, anfds'[g].head = <<>> PROVE ActiveOn(g)' = {}
    BY <1>10 DEF ActiveOn, Rng
  <1>11. SetInv'
    <2>1. \A g \in Fds : \A w \in ActiveOn(g) : file[g] # 0 => set[w] = file[g]
      BY DEF IoInv, SetInv
    <2>2. \A g \in Fds : ActiveOn(g)' = ActiveOn(g) \/ ActiveOn(g)' = {}
      BY <1>7, <1>9, <1>10
    <2> QED
      BY <2>1, <2>2 DEF SetInv
  <1>12. EventsInv'
    <2>1. ASSUME NEW g \in Fds, anfds'[g].reify = {} PROVE anfds'[g].events = Wants(g)'
      <3>1. anfds'[g].head = anfds[g].head
        BY <1>2, <2>1
      <3>2. Wants(g)' = Wants(g)
        BY <1>9, <3>1 DEF Wants
      <3>3. CASE g = f
        BY <1>2, <3>2, <3>3
      <3>4. CASE g # f
        BY <1>2, <2>1, <3>2, <3>4 DEF IoInv, EventsInv
      <3> QED
        BY <3>3, <3>4
    <2> QED
      BY <2>1 DEF EventsInv
  <1> QED
    BY <1>2, <1>6, <1>8, <1>11, <1>12

\* Nothing need be said to the kernel: it knows, or nobody watches.
LEMMA FdReifyQuiet ==
  ASSUME IoInv, NEW f \in Fds, fdchanges # <<>>, f = Head(fdchanges),
         (anfds[f].events = Wants(f) /\ "iofdset" \notin anfds[f].reify) \/ Wants(f) = {},
         anfds' = [anfds EXCEPT ![f].events = Wants(f), ![f].reify = {}],
         fdchanges' = Tail(fdchanges), Wants(f) \in SUBSET Ev, ioPhase = "reify",
         UNCHANGED <<eperms, ioPendings, kernel, ioPostfork, reports, ioPhase, file, plain, set, opened>>
  PROVE  IoInv'
  <1>1. anfds \in [Fds -> Anfd] /\ anfds[f] \in Anfd /\ \A r \in kernel : r.fd \in Fds
    BY DEF IoInv, IoTypeOK, Reg
  <1>2. PICK nev \in SUBSET Ev : nev = Wants(f)
    OBVIOUS
  <1>3. PICK b \in Anfd : b = [anfds[f] EXCEPT !.events = nev, !.reify = {}]
    BY <1>1 DEF Anfd
  <1>4. /\ b.head = anfds[f].head /\ b.events = nev /\ b.reify = {} /\ b.emask = anfds[f].emask
        /\ b.egen = anfds[f].egen
    BY <1>1, <1>3 DEF Anfd
  <1>5. anfds' = [anfds EXCEPT ![f] = b]
    BY <1>1, <1>2, <1>3
  <1>6. /\ anfds' \in [Fds -> Anfd] /\ anfds'[f] = b /\ \A g \in Fds : g # f => anfds'[g] = anfds[g]
        /\ fdchanges' \in Seq(Fds)
        /\ HeadsInv' /\ ChangesInv' /\ EventsInv' /\ SetInv'
    BY <1>2, <1>4, <1>5, ReifiedTable
  <1>7. IoTypeOK'
    BY <1>6 DEF IoInv, IoTypeOK
  <1>8. \A g \in Fds : anfds'[g].emask = anfds[g].emask /\ anfds'[g].egen = anfds[g].egen
                       /\ anfds'[g].head = anfds[g].head
    BY <1>4, <1>6
  <1>9. FilesInv' /\ GensInv' /\ EpermInv'
    <2>1. FilesInv'
      BY DEF IoInv, FilesInv
    <2>2. GensInv'
      BY <1>1, <1>8 DEF IoInv, GensInv
    <2>3. EpermInv'
      BY <1>8 DEF IoInv, EpermInv
    <2> QED
      BY <2>1, <2>2, <2>3
  <1>10. KnownInv'
    <2>1. ASSUME NEW g \in Fds, Relied(g)' PROVE Relied(g) /\ anfds'[g].events = anfds[g].events
      <3>1. CASE g = f
        BY <1>2, <1>4, <1>6, <2>1, <3>1 DEF Relied
      <3>2. CASE g # f
        BY <1>6, <2>1, <3>2 DEF Relied
      <3> QED
        BY <3>1, <3>2
    <2>2. ASSUME NEW g \in Fds, Relied(g)' PROVE Known(g)'
      <3>1. Known(g) /\ anfds'[g].events = anfds[g].events
        BY <2>1, <2>2 DEF IoInv, KnownInv
      <3> QED
        BY <1>8, <3>1 DEF Known
    <2> QED
      BY <2>2 DEF KnownInv
  <1>11. PhaseInv'
    BY DEF IoInv, PhaseInv
  <1>12. PendInv'
    <2>1. ioPendings \in FreshPendings(anfds, file)
      BY DEF IoInv, PendInv
    <2>2. ASSUME NEW p \in Pend, Fresh(p, anfds, file) PROVE Fresh(p, anfds', file)
      <3>1. p.w \in IoWatchers => FdOf[p.w] \in Fds
        BY EvIoAssumption
      <3> QED
        BY <1>8, <2>2, <3>1 DEF Fresh
    <2>3. ioPendings \in FreshPendings(anfds', file)
      BY <2>1, <2>2, FreshStays
    <2> QED
      BY <2>3 DEF PendInv
  <1> QED
    BY <1>6, <1>7, <1>9, <1>10, <1>11, <1>12 DEF IoInv

\* The kernel is told.
LEMMA FdReifyTells ==
  ASSUME IoInv, NEW f \in Fds, fdchanges # <<>>, f = Head(fdchanges),
         NEW nev \in SUBSET Ev, nev # {}, nev = Wants(f), NEW m,
         m = Modified(f, anfds[f].events, nev, anfds[f].emask),
         anfds' = [anfds EXCEPT ![f] = [head |-> IF m.kill THEN <<>> ELSE anfds[f].head,
                                        events |-> nev,
                                        reify |-> IF m.kill THEN {"reify"} ELSE {},
                                        emask |-> m.emask, egen |-> m.egen]],
         fdchanges' = IF m.kill THEN Append(Tail(fdchanges), f) ELSE Tail(fdchanges),
         eperms' = IF m.eperm /\ "eperm" \notin anfds[f].emask THEN Append(eperms, f) ELSE eperms,
         kernel' = m.kernel,
         ioPendings' = IF m.kill THEN Killed(ioPendings, anfds[f].head, file[f]) ELSE ioPendings,
         ioPhase = "reify",
         UNCHANGED <<ioPostfork, reports, ioPhase, file, plain, set, opened>>
  PROVE  IoInv'
  <1>1. /\ anfds \in [Fds -> Anfd] /\ anfds[f] \in Anfd /\ \A r \in kernel : r.fd \in Fds
        /\ anfds[f].head \in Seq(IoWatchers) /\ eperms \in Seq(Fds) /\ file[f] \in Nat
    BY DEF IoInv, IoTypeOK, Reg, Anfd
  <1>2. ModKernel(f, m) /\ ModEntry(f, m) /\ ModKnown(f, nev, m)
    BY ModifiedRight
  <1>3. PICK head \in Seq(IoWatchers) : head = IF m.kill THEN <<>> ELSE anfds[f].head
    <2>1. <<>> \in Seq(IoWatchers)
      OBVIOUS
    <2> QED
      BY <1>1, <2>1
  <1>4. PICK b \in Anfd :
          b = [head |-> head, events |-> nev, reify |-> IF m.kill THEN {"reify"} ELSE {},
               emask |-> m.emask, egen |-> m.egen]
    BY <1>2 DEF Anfd, Flags, ModEntry
  <1>5. /\ b.head = head /\ b.events = nev /\ b.reify = (IF m.kill THEN {"reify"} ELSE {})
        /\ b.emask = m.emask /\ b.egen = m.egen
    BY <1>4
  <1>6. anfds' = [anfds EXCEPT ![f] = b]
    BY <1>3, <1>4
  <1>7. \/ b.head = anfds[f].head /\ b.reify = {} /\ fdchanges' = Tail(fdchanges)
        \/ b.head = <<>> /\ b.reify = {"reify"} /\ fdchanges' = Append(Tail(fdchanges), f)
    BY <1>3, <1>5
  <1>8. /\ anfds' \in [Fds -> Anfd] /\ anfds'[f] = b /\ \A g \in Fds : g # f => anfds'[g] = anfds[g]
        /\ fdchanges' \in Seq(Fds)
        /\ HeadsInv' /\ ChangesInv' /\ EventsInv' /\ SetInv'
    <2>1. b.events = Wants(f) /\ UNCHANGED <<file, set>>
      BY <1>5
    <2> HIDE DEF Wants
    <2> QED
      BY <1>6, <1>7, <2>1, ReifiedTable
  <1>9. /\ kernel' \in SUBSET Reg
        /\ \A s \in kernel' : s.fd # f => s \in kernel
        /\ \A s \in kernel : s.fd # f => s \in kernel'
        /\ \A s \in kernel' : s.file # 0 /\ s.file <= opened /\ s.file \notin plain
        /\ \A s \in kernel' : s.fd = f => s.gen <= b.egen
        /\ \A s \in kernel' : s.fd = f /\ s.file = file[f] => s.gen = b.egen /\ s.mask = b.emask
        /\ \A s, t \in kernel' : s.fd = f /\ t.fd = f /\ s.gen = t.gen => s = t
    BY <1>2, <1>5 DEF ModKernel
  <1>10. FilesInv'
    BY <1>9 DEF IoInv, FilesInv
  <1>11. GensInv'
    <2>1. \A s \in kernel' : s.fd \in Fds
      BY <1>9 DEF Reg
    <2>2. ASSUME NEW s \in kernel' PROVE s.gen <= anfds'[s.fd].egen
      BY <1>8, <1>9, <2>1, ZenonT(60) DEF IoInv, GensInv
    <2>3. ASSUME NEW s \in kernel', s.file = file[s.fd]
          PROVE  s.gen = anfds'[s.fd].egen /\ (s.mask = anfds'[s.fd].emask \/ anfds'[s.fd].emask = {})
      <3>1. CASE s.fd = f
        BY <1>8, <1>9, <2>3, <3>1, ZenonT(60)
      <3>2. CASE s.fd # f
        BY <1>8, <1>9, <2>1, <2>3, <3>2, ZenonT(60) DEF IoInv, GensInv
      <3> QED
        BY <3>1, <3>2
    <2>4. ASSUME NEW s \in kernel', NEW t \in kernel', s.fd = t.fd, s.gen = t.gen PROVE s = t
      <3>1. CASE s.fd = f
        BY <1>9, <2>4, <3>1
      <3>2. CASE s.fd # f
        BY <1>9, <2>4, <3>2 DEF IoInv, GensInv
      <3> QED
        BY <3>1, <3>2
    <2>5. \A s \in kernel' : s.gen <= anfds'[s.fd].egen
      BY <2>2
    <2>6. \A s \in kernel' : s.file = file[s.fd] =>
            s.gen = anfds'[s.fd].egen /\ (s.mask = anfds'[s.fd].emask \/ anfds'[s.fd].emask = {})
      BY <2>3
    <2>7. \A s, t \in kernel' : s.fd = t.fd /\ s.gen = t.gen => s = t
      BY <2>4
    <2>8. file' = file
      BY <1>5
    <2> QED
      BY <2>5, <2>6, <2>7, <2>8, SMTT(60) DEF GensInv
  <1>12. eperms' \in Seq(Fds) /\ EpermInv'
    <2>1. \A g \in Fds : "eperm" \in anfds[g].emask => g \in Rng(eperms)
      BY DEF IoInv, EpermInv
    <2>2. "eperm" \in b.emask => m.eperm
      BY <1>2, <1>5 DEF ModEntry
    <2>3. CASE m.eperm /\ "eperm" \notin anfds[f].emask
      <3>1. PICK e : e = Append(eperms, f)
        OBVIOUS
      <3>2. e \in Seq(Fds) /\ Len(e) = Len(eperms) + 1 /\ e[Len(eperms) + 1] = f
            /\ \A i \in 1 .. Len(eperms) : e[i] = eperms[i]
        BY <1>1, <3>1, AppendProperties
      <3>3. DOMAIN e = 1 .. Len(eperms) + 1 /\ DOMAIN eperms = 1 .. Len(eperms) /\ Len(eperms) \in Nat
        BY <1>1, <3>2
      <3>4. ASSUME NEW x \in Rng(eperms) PROVE x \in Rng(e)
        <4>1. PICK i \in 1 .. Len(eperms) : eperms[i] = x
          BY <3>3 DEF Rng
        <4>2. i \in 1 .. Len(eperms) + 1 /\ e[i] = x
          BY <3>2, <3>3, <4>1
        <4> QED
          BY <3>3, <4>2 DEF Rng
      <3>5. f \in Rng(e)
        <4>1. Len(eperms) + 1 \in 1 .. Len(eperms) + 1
          BY <3>3
        <4> QED
          BY <3>2, <3>3, <4>1 DEF Rng
      <3>6. eperms' = e /\ Rng(eperms)' = Rng(e)
        BY <2>3, <3>1 DEF Rng
      <3>7. \A g \in Fds : "eperm" \in anfds'[g].emask => g \in Rng(e)
        BY <1>8, <2>1, <3>4, <3>5
      <3> QED
        BY <3>2, <3>6, <3>7 DEF EpermInv
    <2>4. CASE ~(m.eperm /\ "eperm" \notin anfds[f].emask)
      <3>1. eperms' = eperms /\ Rng(eperms)' = Rng(eperms)
        BY <2>4 DEF Rng
      <3>2. "eperm" \in b.emask => "eperm" \in anfds[f].emask
        BY <2>2, <2>4
      <3>3. \A g \in Fds : "eperm" \in anfds'[g].emask => g \in Rng(eperms)
        BY <1>8, <2>1, <3>2
      <3> QED
        BY <1>1, <3>1, <3>3 DEF EpermInv
    <2> QED
      BY <2>3, <2>4
  <1>13. reports = {}
    BY DEF IoInv, PhaseInv
  <1>14. KnownInv'
    <2>1. ASSUME NEW g \in Fds, Relied(g)' PROVE Known(g)'
      <3>1. CASE g = f
        <4>1. file[f] # 0
          BY <2>1, <3>1 DEF Relied
        <4>2. /\ \A s \in kernel' : s.fd = f /\ s.gen = b.egen => s.file = file[f]
              /\ file[f] \in plain => "eperm" \in b.emask
              /\ file[f] \notin plain =>
                   \E s \in kernel' : s.fd = f /\ s.file = file[f] /\ s.mask = nev /\ s.gen = b.egen
          BY <1>2, <1>5, <4>1, ZenonT(60) DEF ModKnown
        <4> QED
          BY <1>5, <1>8, <1>13, <3>1, <4>2 DEF Known
      <3>2. CASE g # f
        <4>1. anfds'[g] = anfds[g]
          BY <1>8, <3>2
        <4>2. Known(g)
          BY <2>1, <4>1 DEF Relied, IoInv, KnownInv
        <4> QED
          BY <1>9, <1>13, <3>2, <4>1, <4>2, SMTT(60) DEF Known
      <3> QED
        BY <3>1, <3>2
    <2> QED
      BY <2>1 DEF KnownInv
  <1>15. PendInv' /\ ioPendings' \in Seq(Pend)
    <2>1. ioPendings \in FreshPendings(anfds, file)
      BY DEF IoInv, PendInv
    <2>2. ioPendings' \in FreshPendings(anfds', file)
      <3>1. CASE m.kill
        <4>1. ioPendings' = Killed(ioPendings, anfds[f].head, file[f])
          BY <3>1
        <4>2. OtherHeads(f, anfds, anfds')
          BY <1>8 DEF OtherHeads
        <4>3. PICK ws \in Seq(IoWatchers) : ws = anfds[f].head
          BY <1>1
        <4>4. PICK src \in Nat : src = file[f]
          BY <1>1
        <4>5. PICK q \in FreshPendings(anfds, file) : q = ioPendings
          BY <2>1
        <4>6. Killed(q, ws, src) \in FreshPendings(anfds', file)
          BY <4>2, <4>3, KilledFresh
        <4> QED
          BY <4>1, <4>3, <4>4, <4>5, <4>6
      <3>2. CASE ~m.kill
        <4>1. \A g \in Fds : anfds'[g].head = anfds[g].head
          BY <1>3, <1>5, <1>8, <3>2
        <4>2. ASSUME NEW p \in Pend, Fresh(p, anfds, file) PROVE Fresh(p, anfds', file)
          <5>1. p.w \in IoWatchers => FdOf[p.w] \in Fds
            BY EvIoAssumption
          <5> QED
            BY <4>1, <4>2, <5>1 DEF Fresh
        <4>3. ioPendings \in FreshPendings(anfds', file)
          BY <2>1, <4>2, FreshStays, ZenonT(60)
        <4> QED
          BY <3>2, <4>3
      <3> QED
        BY <3>1, <3>2
    <2>3. ioPendings' \in Seq(Pend)
      BY <2>2 DEF FreshPendings
    <2> QED
      BY <2>2, <2>3 DEF PendInv
  <1>16. IoTypeOK'
    BY <1>8, <1>9, <1>12, <1>15 DEF IoInv, IoTypeOK
  <1>17. PhaseInv'
    BY DEF IoInv, PhaseInv
  <1> QED
    BY <1>8, <1>10, <1>11, <1>12, <1>14, <1>15, <1>16, <1>17 DEF IoInv

\* One descriptor of fd_reify: the kernel is told if it has to be.
LEMMA FdReifyKeeps ==
  ASSUME IoInv, FdReify
  PROVE  IoInv'
  <1>1. /\ ioPhase = "reify" /\ fdchanges # <<>>
        /\ fdchanges \in Seq(Fds) /\ anfds \in [Fds -> Anfd]
        /\ UNCHANGED <<ioPostfork, reports, ioPhase, file, plain, set, opened>>
    BY DEF FdReify, IoInv, IoTypeOK
  <1>2. PICK f \in Fds : f = Head(fdchanges)
    BY <1>1, HeadTailProperties
  <1>3. PICK nev \in SUBSET Ev : nev = Wants(f)
    <2>1. \A w \in ActiveOn(f) : EventsOf[w] \in SUBSET Ev
      BY ActiveHere, EvIoAssumption DEF Ev
    <2> QED
      BY <2>1 DEF Wants
  <1>4. PICK oev \in SUBSET Ev : oev = anfds[f].events
    BY <1>1 DEF Anfd
  <1>5. PICK m : m = Modified(f, anfds[f].events, nev, anfds[f].emask)
    OBVIOUS
  <1>6. PICK tell \in BOOLEAN : tell = (oev # nev \/ "iofdset" \in anfds[f].reify)
    OBVIOUS
  <1>7. IF ~tell \/ nev = {}
        THEN /\ anfds' = [anfds EXCEPT ![f].events = nev, ![f].reify = {}]
             /\ fdchanges' = Tail(fdchanges)
             /\ UNCHANGED <<eperms, ioPendings, kernel>>
        ELSE /\ anfds' = [anfds EXCEPT ![f] = [head |-> IF m.kill THEN <<>> ELSE anfds[f].head,
                                               events |-> nev,
                                               reify |-> IF m.kill THEN {"reify"} ELSE {},
                                               emask |-> m.emask, egen |-> m.egen]]
             /\ fdchanges' = IF m.kill THEN Append(Tail(fdchanges), f) ELSE Tail(fdchanges)
             /\ eperms' = IF m.eperm /\ "eperm" \notin anfds[f].emask THEN Append(eperms, f) ELSE eperms
             /\ kernel' = m.kernel
             /\ ioPendings' = IF m.kill THEN Killed(ioPendings, anfds[f].head, file[f]) ELSE ioPendings
    BY <1>2, <1>3, <1>4, <1>5, <1>6 DEF FdReify, Wants
  <1>8. CASE ~tell \/ nev = {}
    <2>1. (anfds[f].events = Wants(f) /\ "iofdset" \notin anfds[f].reify) \/ Wants(f) = {}
      BY <1>3, <1>4, <1>6, <1>8
    <2>2. /\ anfds' = [anfds EXCEPT ![f].events = Wants(f), ![f].reify = {}]
          /\ fdchanges' = Tail(fdchanges)
          /\ UNCHANGED <<eperms, ioPendings, kernel>>
      BY <1>3, <1>7, <1>8
    <2>3. Wants(f) \in SUBSET Ev
      BY <1>3
    <2> QED
      BY <1>1, <1>2, <2>1, <2>2, <2>3, FdReifyQuiet
  <1>9. CASE tell /\ nev # {}
    <2>1. /\ anfds' = [anfds EXCEPT ![f] = [head |-> IF m.kill THEN <<>> ELSE anfds[f].head,
                                            events |-> nev,
                                            reify |-> IF m.kill THEN {"reify"} ELSE {},
                                            emask |-> m.emask, egen |-> m.egen]]
          /\ fdchanges' = IF m.kill THEN Append(Tail(fdchanges), f) ELSE Tail(fdchanges)
          /\ eperms' = IF m.eperm /\ "eperm" \notin anfds[f].emask THEN Append(eperms, f) ELSE eperms
          /\ kernel' = m.kernel
          /\ ioPendings' = IF m.kill THEN Killed(ioPendings, anfds[f].head, file[f]) ELSE ioPendings
      BY <1>7, <1>9
    <2> QED
      BY <1>1, <1>2, <1>3, <1>5, <1>9, <2>1, FdReifyTells
  <1> QED
    BY <1>8, <1>9

----------------------------------------------------------------------------
(* The theorem. *)

\* Every step of the loop, of the kernel and of the program keeps the invariant.
LEMMA EvIoStep ==
  ASSUME IoInv, [EvIoNext]_ioVars
  PROVE  IoInv'
  <1>1. CASE UNCHANGED ioVars
    BY <1>1, IoStutter DEF ioVars, ioState
  <1>2. CASE FdReify
    BY <1>2, FdReifyKeeps
  <1>3. CASE LoopFork
    BY <1>3, LoopForkKeeps
  <1>4. CASE Begin \/ IoIterate
    BY <1>4, BeginKeeps
  <1>5. CASE IoPoll
    BY <1>5, IoPollKeeps
  <1>6. CASE Process
    BY <1>6, ProcessKeeps
  <1>7. CASE Eperms
    BY <1>7, EpermsKeeps
  <1>8. CASE IoInvoke
    BY <1>8, IoInvokeKeeps
  <1>9. ASSUME NEW w \in IoWatchers, IoStop(w) PROVE IoInv'
    BY <1>9, IoStopKeeps
  <1>10. ASSUME NEW w \in IoWatchers, NEW anew \in BOOLEAN, IoStart(w, anew) PROVE IoInv'
    BY <1>10, IoStartKeeps
  <1>11. ASSUME NEW f \in Fds, Close(f) PROVE IoInv'
    BY <1>11, CloseKeeps
  <1>12. ASSUME NEW f \in Fds, NEW refused \in BOOLEAN, NEW leaked \in BOOLEAN, Open(f, refused, leaked)
         PROVE  IoInv'
    BY <1>12, OpenKeeps
  <1> QED
    BY <1>1, <1>2, <1>3, <1>4, <1>5, <1>6, <1>7, <1>8, <1>9, <1>10, <1>11, <1>12 DEF EvIoNext

\* A list without repetitions has as many members as entries.
LEMMA OnceCounted ==
  ASSUME NEW S, NEW c \in Seq(S), \A i, j \in 1 .. Len(c) : c[i] = c[j] => i = j
  PROVE  Cardinality(Rng(c)) = Len(c)
  <1>1. PICK n \in Nat : n = Len(c)
    OBVIOUS
  <1>2. DOMAIN c = 1 .. n /\ c = [i \in 1 .. n |-> c[i]]
    BY <1>1
  <1>3. c \in [1 .. n -> Rng(c)]
    BY <1>2 DEF Rng
  <1>4. c \in Injection(1 .. n, Rng(c)) /\ c \in Surjection(1 .. n, Rng(c))
    <2>1. \A y \in Rng(c) : \E i \in 1 .. n : c[i] = y
      BY <1>2 DEF Rng
    <2>2. IsInjective(c)
      BY <1>1, <1>2 DEF IsInjective
    <2> QED
      BY <1>3, <2>1, <2>2 DEF Injection, Surjection
  <1>5. IsFiniteSet(1 .. n) /\ Cardinality(1 .. n) = n
    BY FS_Interval
  <1>6. ExistsBijection(1 .. n, Rng(c))
    BY <1>4 DEF ExistsBijection, Bijection
  <1>7. Cardinality(Rng(c)) = Cardinality(1 .. n)
    BY <1>5, <1>6, FS_Bijection
  <1> QED
    BY <1>1, <1>5, <1>7

\* The invariant says at every moment what FdsSound says at its own.
LEMMA IoMeans ==
  ASSUME IoInv
  PROVE  FdsSound
  <1>1. fdchanges \in Seq(Fds)
    BY DEF IoInv, IoTypeOK
  <1>2. ChangesListed
    <2>1. Cardinality(Rng(fdchanges)) = Len(fdchanges)
      BY <1>1, OnceCounted DEF IoInv, ChangesInv
    <2> QED
      BY <2>1 DEF IoInv, ChangesInv, ChangesListed
  <1>3. NoStaleEvent
    <2>1. ioPendings \in Seq(Pend) /\ \A i \in 1 .. Len(ioPendings) : Fresh(ioPendings[i], anfds, file)
      BY DEF IoInv, PendInv, FreshPendings
    <2>2. DOMAIN ioPendings = 1 .. Len(ioPendings)
      BY <2>1
    <2>3. \A w : IoActive(w) <=> w \in Rng(anfds[FdOf[w]].head)
      BY DEF IoActive, ActiveOn
    <2> QED
      BY <2>1, <2>2, <2>3 DEF NoStaleEvent, Fresh
  <1>4. ASSUME fdchanges = <<>>, NEW f \in Fds, ActiveOn(f) # {}, file[f] # 0
        PROVE  IF file[f] \in plain THEN f \in Rng(eperms) /\ "eperm" \in anfds[f].emask
               ELSE \E r \in Registered(kernel, f) : r.mask = Wants(f) /\ r.gen = anfds[f].egen
    <2>1. Rng(fdchanges) = {}
      BY <1>4 DEF Rng
    <2>2. anfds[f].reify = {} /\ anfds[f].events = Wants(f)
      BY <2>1 DEF IoInv, ChangesInv, EventsInv
    <2>3. PICK w \in ActiveOn(f) : TRUE
      BY <1>4
    <2>4. w \in IoWatchers /\ FdOf[w] = f /\ set[w] = file[f]
      BY <1>4, <2>3, ActiveHere DEF IoInv, SetInv
    <2>5. Wants(f) # {}
      <3>1. EventsOf[w] # {}
        BY <2>4, EvIoAssumption
      <3> QED
        BY <2>3, <3>1 DEF Wants
    <2>6. Known(f)
      BY <1>4, <2>2, <2>4, <2>5 DEF IoInv, KnownInv, Relied
    <2> QED
      BY <2>2, <2>6 DEF Known, Registered, IoInv, EpermInv
  <1>5. KernelKnows
    BY <1>4 DEF KernelKnows, Wants
  <1> QED
    BY <1>2, <1>3, <1>5 DEF FdsSound

\* Whatever descriptors the program closes, opens again, duplicates or hands to
\* epoll that refuses them, and however its watchers come and go: what the loop
\* believes the kernel watches is what it watches when the loop polls, and no
\* event reaches a watcher for a file that was closed (fd_reify, epoll_modify,
\* epoll_poll, fd_kill).
THEOREM FdsSoundHolds == EvIoSpec => []FdsSound
  <1>1. EvIoInit => IoInv
    BY IoInitInv
  <1>2. IoInv /\ [EvIoNext]_ioVars => IoInv'
    BY EvIoStep
  <1>3. IoInv => FdsSound
    BY IoMeans
  <1> QED
    BY <1>1, <1>2, <1>3, PTL DEF EvIoSpec

\* The invariant itself, at every moment: what the loop relies on about a descriptor it
\* does not hold for set anew is registered for the file open there (KnownInv).
THEOREM KernelTracked == EvIoSpec => []KnownInv
  <1>1. EvIoInit => IoInv
    BY IoInitInv
  <1>2. IoInv /\ [EvIoNext]_ioVars => IoInv'
    BY EvIoStep
  <1>3. IoInv => KnownInv
    BY DEF IoInv
  <1> QED
    BY <1>1, <1>2, <1>3, PTL DEF EvIoSpec
=============================================================================
