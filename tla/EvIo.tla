-------------------------------- MODULE EvIo --------------------------------
(***************************************************************************)
(* Watching descriptors with libev's epoll backend (ev.c, ev_epoll.c): the *)
(* table of descriptors with their watchers, the list of changed ones that *)
(* is brought to the kernel once per iteration, and the handling of what   *)
(* epoll reports, including reports for files the program closed long ago. *)
(*                                                                         *)
(* The kernel registers a pair of descriptor and open file.  Closing a     *)
(* descriptor ends the registration only if nobody else (a duplicate,      *)
(* another process) keeps the file open; libev never unregisters on stop.  *)
(***************************************************************************)
EXTENDS Integers, Sequences, FiniteSets

CONSTANTS Fds,        \* descriptor numbers
          IoWatchers, \* ev_io watchers
          FdOf,       \* the descriptor of each watcher
          EventsOf,   \* what each watcher asks for, a set of "read" and "write"
          MaxFiles,   \* bound: files opened
          MaxIoOps    \* bound: operations of the program

ASSUME EvIoAssumption ==
  /\ FdOf \in [IoWatchers -> Fds]
  /\ EventsOf \in [IoWatchers -> (SUBSET {"read", "write"}) \ {{}}]
  /\ IsFiniteSet(Fds) /\ "pending_w" \notin IoWatchers
  /\ MaxFiles \in Nat /\ MaxIoOps \in Nat

Ev == {"read", "write"}

VARIABLES
  anfds,     \* per descriptor: its watchers, events, reify, emask, egen
  fdchanges, \* descriptors to bring to the kernel
  eperms,    \* descriptors epoll refuses (epoll_eperms)
  ioPostfork, \* the kernel state has to be built anew
  ioPendings, \* pending events; the last is called first
  reports,   \* what the backend still has to process
  ioPhase,
  file,      \* the file open at each descriptor, 0 if none
  plain,     \* files epoll refuses (regular files)
  kernel,    \* registrations
  set,       \* the file each watcher was last set for (ev_io_set)
  opened, ioOps

ioVars == <<anfds, fdchanges, eperms, ioPostfork, ioPendings, reports, ioPhase, file, plain, kernel, set, opened, ioOps>>

Rng(s) == {s[i] : i \in DOMAIN s}
ActiveOn(f) == Rng(anfds[f].head)
IoActive(w) == w \in ActiveOn(FdOf[w])

EvIoInit ==
  /\ anfds = [f \in Fds |-> [head |-> <<>>, events |-> {}, reify |-> {}, emask |-> {}, egen |-> 0]]
  /\ fdchanges = <<>> /\ eperms = <<>> /\ ioPostfork = FALSE /\ ioPendings = <<>> /\ reports = {}
  /\ ioPhase = "ready"
  /\ file = [f \in Fds |-> 0] /\ plain = {} /\ kernel = {} /\ set = [w \in IoWatchers |-> 0] /\ opened = 0 /\ ioOps = 0

----------------------------------------------------------------------------
(* The kernel, as libev uses it: s carries everything a call may change. *)

Registered(k, f) == {r \in k : r.fd = f /\ r.file = file[f]}

\* The error of an epoll_ctl with operation op on f.
CtlError(k, op, f) ==
  IF file[f] = 0 THEN "EBADF"
  ELSE IF file[f] \in plain THEN "EPERM"
  ELSE CASE op = "ADD" /\ Registered(k, f) # {} -> "EEXIST"
         [] op # "ADD" /\ Registered(k, f) = {} -> "ENOENT"
         [] OTHER -> "none"

CtlDone(k, op, f, mask, gen) ==
  (k \ Registered(k, f)) \cup
  (IF op = "DEL" THEN {} ELSE {[fd |-> f, file |-> file[f], mask |-> mask, gen |-> gen]})

----------------------------------------------------------------------------
(* Changes. *)

\* fd_change: the descriptor is listed once, whatever happens to it.
FdChange(a, c, f, flags) ==
  [anfds |-> [a EXCEPT ![f].reify = @ \cup flags],
   changes |-> IF a[f].reify = {} THEN Append(c, f) ELSE c]

\* wlist_del: the watcher is unlinked where it is found.
Without(s, w) == LET k == CHOOSE i \in DOMAIN s : s[i] = w
                 IN SubSeq(s, 1, k - 1) \o SubSeq(s, k + 1, Len(s))
Cleared(p, w) == [i \in DOMAIN p |-> IF p[i].w = w THEN [p[i] EXCEPT !.w = "pending_w"] ELSE p[i]]

\* ev_feed_event: a watcher that is pending already gets the events added.  The
\* file the event comes from is noted for the properties.
FedEvent(p, w, ev, src) ==
  IF \E i \in DOMAIN p : p[i].w = w
  THEN [i \in DOMAIN p |-> IF p[i].w = w THEN [p[i] EXCEPT !.events = @ \cup ev] ELSE p[i]]
  ELSE Append(p, [w |-> w, events |-> ev, file |-> src])

\* fd_event_nocheck: every watcher ws of the descriptor that asked for some of the
\* events, in the order of the list.
FedIf(p, w, got, src) == IF EventsOf[w] \cap got # {} THEN FedEvent(p, w, EventsOf[w] \cap got, src) ELSE p
FedAll(p, ws, got, src) ==
  LET F[i \in 0 .. Len(ws)] == IF i = 0 THEN p ELSE FedIf(F[i - 1], ws[i], got, src)
  IN F[Len(ws)]

\* fd_event: nothing while a change of the descriptor is listed.
FedFd(p, f, got, src) == IF anfds[f].reify = {} THEN FedAll(p, anfds[f].head, got, src) ELSE p

\* fd_kill: each watcher is stopped, which drops its event, and fed the error event.
Killed(p, ws, src) ==
  [i \in DOMAIN p |-> IF p[i].w \in Rng(ws) THEN [p[i] EXCEPT !.w = "pending_w"] ELSE p[i]]
  \o [i \in 1 .. Len(ws) |-> [w |-> ws[i], events |-> Ev \cup {"error"}, file |-> src]]

----------------------------------------------------------------------------
(* Bringing changes to the kernel. *)

\* epoll_modify for the new events nev.  Nothing is unregistered; an ADD that finds
\* the pair registered with the mask it would set is left at that.
Modified(f, oev, nev, old) ==
  LET gen == anfds[f].egen + 1
      op == IF oev # {} /\ old # nev THEN "MOD" ELSE "ADD"
      err == CtlError(kernel, op, f)
  IN CASE err = "EEXIST" /\ old = nev ->
               [kernel |-> kernel, emask |-> nev, egen |-> gen - 1, eperm |-> FALSE, kill |-> FALSE]
       [] err = "EPERM" ->
               [kernel |-> kernel, emask |-> {"eperm"}, egen |-> gen, eperm |-> TRUE, kill |-> FALSE]
       [] err = "EBADF" ->
               [kernel |-> kernel, emask |-> nev, egen |-> gen - 1, eperm |-> FALSE, kill |-> TRUE]
       [] OTHER ->   \* at once, or after EEXIST by MOD, or after ENOENT by ADD
               [kernel |-> CtlDone(kernel, "ADD", f, nev, gen), emask |-> nev, egen |-> gen,
                eperm |-> FALSE, kill |-> FALSE]

\* One descriptor of fd_reify: the kernel is told if the events its watchers want
\* changed, or if the descriptor may stand for another file.  A descriptor the
\* kernel does not know loses its watchers, who get an error event; stopping them
\* lists it again.
FdReify ==
  /\ ioPhase = "reify" /\ fdchanges # <<>>
  /\ LET f == Head(fdchanges)
         oev == anfds[f].events
         nev == UNION {EventsOf[w] : w \in ActiveOn(f)}
         tell == oev # nev \/ "iofdset" \in anfds[f].reify
         m == Modified(f, oev, nev, anfds[f].emask)
     IN IF ~tell \/ nev = {}
        THEN /\ anfds' = [anfds EXCEPT ![f].events = nev, ![f].reify = {}]
             /\ fdchanges' = Tail(fdchanges)
             /\ UNCHANGED <<eperms, ioPendings, kernel>>
        ELSE /\ anfds' = [anfds EXCEPT ![f] = [head |-> IF m.kill THEN <<>> ELSE @.head,
                                               events |-> nev,
                                               reify |-> IF m.kill THEN {"reify"} ELSE {},
                                               emask |-> m.emask, egen |-> m.egen]]
             /\ fdchanges' = IF m.kill THEN Append(Tail(fdchanges), f) ELSE Tail(fdchanges)
             /\ eperms' = IF m.eperm /\ "eperm" \notin anfds[f].emask THEN Append(eperms, f) ELSE eperms
             /\ kernel' = m.kernel
             /\ ioPendings' = IF m.kill THEN Killed(ioPendings, anfds[f].head, file[f]) ELSE ioPendings
  /\ UNCHANGED <<ioPostfork, reports, ioPhase, file, plain, set, opened, ioOps>>

\* loop_fork with epoll_fork: a new epoll descriptor knows nothing; everything that
\* was watched is listed as changed.
LoopFork ==
  /\ ioPhase = "ready" /\ ioPostfork
  /\ LET watched == {f \in Fds : anfds[f].events # {}}
         listed == {f \in watched : anfds[f].reify = {}}
         order == CHOOSE s \in [1 .. Cardinality(listed) -> listed] : Rng(s) = listed
     IN /\ anfds' = [f \in Fds |->
              IF f \in watched THEN [anfds[f] EXCEPT !.events = {}, !.emask = {},
                                                     !.reify = @ \cup {"iofdset", "reify"}]
              ELSE anfds[f]]
        /\ fdchanges' = fdchanges \o order
  /\ kernel' = {} /\ ioPostfork' = FALSE
  /\ ioPhase' = "reify"
  /\ UNCHANGED <<eperms, ioPendings, reports, file, plain, set, opened, ioOps>>

Begin ==
  /\ ioPhase = "ready" /\ ~ioPostfork
  /\ ioPhase' = "reify"
  /\ UNCHANGED <<anfds, fdchanges, eperms, ioPostfork, ioPendings, reports, file, plain, kernel, set, opened, ioOps>>

----------------------------------------------------------------------------
(* What the kernel reports. *)

\* epoll_wait: any of the registered files may be ready, for any of the events it is
\* registered with, or hung up, which counts as all events.
IoPoll ==
  /\ ioPhase = "reify" /\ fdchanges = <<>>
  /\ \E ready \in [kernel -> SUBSET Ev], hup \in SUBSET kernel :
       reports' = {[fd |-> r.fd, file |-> r.file, gen |-> r.gen,
                    got |-> IF r \in hup THEN Ev ELSE r.mask \cap ready[r]] :
                     r \in {k \in kernel : k \in hup \/ k.mask \cap ready[k] # {}}}
  /\ ioPhase' = "process"
  /\ UNCHANGED <<anfds, fdchanges, eperms, ioPostfork, ioPendings, file, plain, kernel, set, opened, ioOps>>

\* A report of another generation is for a file that is no longer at the descriptor.
Stale_Never(r) == FALSE
Stale(r) == anfds[r.fd].egen # r.gen

\* One report: a stale one, or one that cannot be corrected, makes libev build the
\* kernel state anew; events nobody asked for are unregistered before the watchers
\* get theirs.
Process ==
  /\ ioPhase = "process"
  /\ \E r \in reports :
       LET want == anfds[r.fd].events
           op == IF want = {} THEN "DEL" ELSE "MOD"
           unasked == r.got \ want # {}
           refusedCtl == unasked /\ CtlError(kernel, op, r.fd) # "none"
       IN /\ reports' = reports \ {r}
          /\ anfds' = IF ~Stale(r) /\ unasked THEN [anfds EXCEPT ![r.fd].emask = want] ELSE anfds
          /\ kernel' = IF ~Stale(r) /\ unasked /\ ~refusedCtl
                       THEN CtlDone(kernel, op, r.fd, want, r.gen) ELSE kernel
          /\ ioPostfork' = (ioPostfork \/ Stale(r) \/ refusedCtl)
          /\ ioPendings' = IF Stale(r) \/ refusedCtl THEN ioPendings
                         ELSE FedFd(ioPendings, r.fd, r.got, r.file)
  /\ UNCHANGED <<fdchanges, eperms, ioPhase, file, plain, set, opened, ioOps>>

\* Descriptors epoll refuses are always ready, while it refuses them and somebody asks.
\* The list is passed from its end; the last takes the place of one that leaves.
KeepsEperm(f) == "eperm" \in anfds[f].emask /\ anfds[f].events # {}
Dropped(s, k) == SubSeq([s EXCEPT ![k] = s[Len(s)]], 1, Len(s) - 1)
EpermSeen(q, k) ==
  LET f == eperms[k]
  IN IF KeepsEperm(f) THEN [list |-> q.list, fed |-> FedFd(q.fed, f, anfds[f].events, file[f])]
     ELSE [list |-> Dropped(q.list, k), fed |-> q.fed]

Eperms ==
  /\ ioPhase = "process" /\ reports = {}
  /\ LET n == Len(eperms)
         P[i \in 0 .. n] == IF i = 0 THEN [list |-> eperms, fed |-> ioPendings]
                             ELSE EpermSeen(P[i - 1], n + 1 - i)
     IN ioPendings' = P[n].fed /\ eperms' = P[n].list
  /\ anfds' = [f \in Fds |-> IF f \in Rng(eperms) /\ ~KeepsEperm(f)
                             THEN [anfds[f] EXCEPT !.emask = {}] ELSE anfds[f]]
  /\ ioPhase' = "invoke"
  /\ UNCHANGED <<fdchanges, ioPostfork, reports, file, plain, kernel, set, opened, ioOps>>

\* ev_invoke_pending: the last entry is taken off and its callback called.
IoInvoke ==
  /\ ioPhase = "invoke" /\ ioPendings # <<>>
  /\ ioPendings' = SubSeq(ioPendings, 1, Len(ioPendings) - 1)
  /\ UNCHANGED <<anfds, fdchanges, eperms, ioPostfork, reports, ioPhase, file, plain, kernel, set, opened, ioOps>>

IoIterate ==
  /\ ioPhase = "invoke" /\ ioPendings = <<>>
  /\ ioPhase' = "ready"
  /\ UNCHANGED <<anfds, fdchanges, eperms, ioPostfork, ioPendings, reports, file, plain, kernel, set, opened, ioOps>>

----------------------------------------------------------------------------
(* The program: before ev_run, and in callbacks. *)

MayCallIo == ioPhase \in {"ready", "invoke"} /\ ioOps < MaxIoOps /\ ioOps' = ioOps + 1

\* The change says whether ev_io_set was called since the watcher was last started:
\* the descriptor may then stand for another file.
StartFlags(anew) == IF anew THEN {"iofdset", "reify"} ELSE {"reify"}

\* ev_io_start, after ev_io_set unless the file is the one it was last set for.
IoStart(w, anew) ==
  /\ MayCallIo /\ ~IoActive(w) /\ file[FdOf[w]] # 0
  /\ anew \/ set[w] = file[FdOf[w]]
  /\ set' = [set EXCEPT ![w] = file[FdOf[w]]]
  /\ LET f == FdOf[w]
         c == FdChange([anfds EXCEPT ![f].head = <<w>> \o @], fdchanges, f, StartFlags(anew))
     IN anfds' = c.anfds /\ fdchanges' = c.changes
  /\ UNCHANGED <<eperms, ioPostfork, ioPendings, reports, ioPhase, file, plain, kernel, opened>>

\* ev_io_stop: a pending event is dropped.
IoStop(w) ==
  /\ MayCallIo /\ IoActive(w)
  /\ ioPendings' = Cleared(ioPendings, w)
  /\ LET f == FdOf[w]
         c == FdChange([anfds EXCEPT ![f].head = Without(@, w)], fdchanges, f, {"reify"})
     IN anfds' = c.anfds /\ fdchanges' = c.changes
  /\ UNCHANGED <<eperms, ioPostfork, reports, ioPhase, file, plain, kernel, set, opened>>

\* The program opens a file at a descriptor, closing what was there; it has stopped
\* every watcher of the descriptor.  A file kept open elsewhere stays registered.
Open(f, refused, leaked) ==
  /\ MayCallIo /\ opened < MaxFiles /\ ActiveOn(f) = {}
  /\ opened' = opened + 1
  /\ file' = [file EXCEPT ![f] = opened + 1]
  /\ plain' = IF refused THEN plain \cup {opened + 1} ELSE plain
  /\ kernel' = IF leaked THEN kernel ELSE kernel \ Registered(kernel, f)
  /\ UNCHANGED <<anfds, fdchanges, eperms, ioPostfork, ioPendings, reports, ioPhase, set>>

\* It closes a descriptor while it is still watched: libev finds out when it next
\* tells the kernel about it.
Close(f) ==
  /\ MayCallIo /\ file[f] # 0
  /\ file' = [file EXCEPT ![f] = 0]
  /\ kernel' = kernel \ Registered(kernel, f)
  /\ UNCHANGED <<anfds, fdchanges, eperms, ioPostfork, ioPendings, reports, ioPhase, plain, set, opened>>

EvIoNext ==
  \/ FdReify \/ LoopFork \/ Begin \/ IoPoll \/ Process \/ Eperms \/ IoInvoke \/ IoIterate
  \/ \E w \in IoWatchers : IoStop(w) \/ \E anew \in BOOLEAN : IoStart(w, anew)
  \/ \E f \in Fds : Close(f) \/ \E refused, leaked \in BOOLEAN : Open(f, refused, leaked)

EvIoSpec == EvIoInit /\ [][EvIoNext]_ioVars

----------------------------------------------------------------------------
(* When the loop polls, the kernel watches every open descriptor with       *)
(* watchers for exactly the events they ask for, as the file open now, and  *)
(* its reports will be accepted -- unless epoll refuses the file, which is  *)
(* then on the list of those that are always ready.                         *)
KernelKnows ==
  (ioPhase \in {"reify", "process"} /\ fdchanges = <<>>) =>
    \A f \in Fds : (ActiveOn(f) # {} /\ file[f] # 0) =>
      IF file[f] \in plain THEN f \in Rng(eperms) /\ "eperm" \in anfds[f].emask
      ELSE \E r \in Registered(kernel, f) :
             r.mask = UNION {EventsOf[w] : w \in ActiveOn(f)} /\ r.gen = anfds[f].egen

(* No event reaches a callback for a file that is no longer open at the     *)
(* descriptor, whatever the kernel reports, and none reaches a watcher that *)
(* was stopped, except the error event of a watcher whose descriptor broke. *)
NoStaleEvent ==
  \A i \in DOMAIN ioPendings : ioPendings[i].w \in IoWatchers =>
    \/ "error" \in ioPendings[i].events
    \/ IoActive(ioPendings[i].w) /\ (file[FdOf[ioPendings[i].w]] # 0 => ioPendings[i].file = file[FdOf[ioPendings[i].w]])

(* A descriptor is on the list of changes exactly when it is marked, and    *)
(* once (fd_change relies on the mark alone).                               *)
ChangesListed ==
  /\ \A f \in Fds : (anfds[f].reify # {}) <=> (f \in Rng(fdchanges))
  /\ Cardinality(Rng(fdchanges)) = Len(fdchanges)

(* Loop and kernel agree on what is watched, although descriptors are       *)
(* closed, opened again and passed on by fork behind the loop's back        *)
(* (fd_reify, epoll_modify, epoll_poll).                                    *)
FdsSound == KernelKnows /\ NoStaleEvent /\ ChangesListed
=============================================================================
