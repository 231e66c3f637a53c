----------------------------- MODULE ZlogSingle -----------------------------
(***************************************************************************)
(* A zlog rule that writes to one file without rotating it                 *)
(* (zlog_rule_output_static_file_single in rule.c).  The rule keeps the    *)
(* file open; before each message it compares the inode at its path with   *)
(* the one it opened and opens the file again when an external tool has    *)
(* moved it away.  The descriptor and the inode belong to the rule and are *)
(* shared by all the threads that log, which hold only a read lock.  The   *)
(* other rules of the process open and close files of their own, so a      *)
(* descriptor number that was closed is soon used again.                   *)
(***************************************************************************)
EXTENDS Integers, FiniteSets, FiniteSetsExt

CONSTANTS Callers,        \* the threads that log through the rule
          FsyncPeriod,    \* fsync_period, 0 for never
          MaxMsgs, MaxMoves       \* bounds of the model

ASSUME SingleAssumption ==
  FsyncPeriod \in Nat /\ MaxMsgs \in Nat /\ MaxMoves \in Nat /\ Callers # {}

VARIABLES replaces,       \* the external tool puts a new file in the place of the one
                          \* it moves away (else the path stays empty)
          path,           \* inode at file_path, None when there is no file
          fds,            \* open descriptors: number -> inode
          static_fd, static_ino, fsync_count,
          caller,         \* caller -> [pc, st, seen]: the result of its stat and,
                          \* for the properties, the inodes at the path since then
          sent, moves,
          hit,            \* inodes the messages went to; Nowhere when the write failed
          behind,         \* a message went to an inode that was not at the path
          unsynced        \* messages since the last fsync

singleVars == <<replaces, path, fds, static_fd, static_ino, fsync_count, caller, sent, moves,
                hit, behind, unsynced>>

None == 0
Other == 1                \* the file of another rule
Nowhere == -1
FirstIno == 2
Quiet == [pc |-> "idle", st |-> None, seen |-> {}]
Inodes == {path, Other, static_ino} \cup {fds[n] : n \in DOMAIN fds} \cup hit
NewIno == Max(Inodes) + 1
\* The kernel gives the lowest free number.
LowestFree == CHOOSE n \in 1..Cardinality(DOMAIN fds) + 1 :
                n \notin DOMAIN fds /\ \A k \in 1..n - 1 : k \in DOMAIN fds
WithFd(ino) == [k \in DOMAIN fds \cup {LowestFree} |-> IF k = LowestFree THEN ino ELSE fds[k]]
Closed(n) == [k \in DOMAIN fds \ {n} |-> fds[k]]

\* zlog_rule_new has opened the file.
SingleInit ==
  /\ replaces \in BOOLEAN
  /\ path = FirstIno /\ static_fd = 1 /\ static_ino = FirstIno
  /\ fds = [n \in {1} |-> FirstIno]
  /\ fsync_count = 0 /\ sent = 0 /\ moves = 0 /\ unsynced = 0
  /\ caller = [t \in Callers |-> Quiet]
  /\ hit = {} /\ behind = FALSE

\* Every caller under way sees what is now at the path.
Seen(a, ino) == [t \in Callers |->
                  IF a[t].pc = "idle" THEN a[t] ELSE [a[t] EXCEPT !.seen = @ \cup {ino}]]

\* stat(file_path): must the file be opened again?
Stat_Blind(t) ==
  /\ caller[t].pc = "idle" /\ sent < MaxMsgs
  /\ sent' = sent + 1
  /\ caller' = [caller EXCEPT ![t] = [pc |-> IF path = None THEN "close" ELSE "write",
                              st |-> path, seen |-> {path}]]
  /\ UNCHANGED <<path, fds, static_fd, static_ino, fsync_count, moves, hit, behind, unsynced>>
Stat(t) ==
  /\ caller[t].pc = "idle" /\ sent < MaxMsgs
  /\ sent' = sent + 1
  /\ caller' = [caller EXCEPT ![t] = [pc |-> IF path = static_ino THEN "write" ELSE "close",
                              st |-> path, seen |-> {path}]]
  /\ UNCHANGED <<path, fds, static_fd, static_ino, fsync_count, moves, hit, behind, unsynced>>

Close(t) ==
  /\ caller[t].pc = "close"
  /\ fds' = Closed(static_fd)
  /\ caller' = [caller EXCEPT ![t].pc = "open"]
  /\ UNCHANGED <<path, static_fd, static_ino, fsync_count, sent, moves, hit, behind, unsynced>>

\* open(file_path, O_APPEND | O_CREAT).
Reopen(t) ==
  /\ caller[t].pc = "open"
  /\ path' = IF path = None THEN NewIno ELSE path
  /\ static_fd' = LowestFree
  /\ fds' = WithFd(path')
  /\ caller' = Seen([caller EXCEPT ![t].pc = IF caller[t].st = None THEN "restat" ELSE "save"], path')
  /\ UNCHANGED <<static_ino, fsync_count, sent, moves, hit, behind, unsynced>>

\* The stat of the file just created; it fails when the file is gone again.
Restat(t) ==
  /\ caller[t].pc = "restat"
  /\ IF path = None
       THEN caller' = [caller EXCEPT ![t] = Quiet]
       ELSE caller' = [caller EXCEPT ![t].pc = "save", ![t].st = path]
  /\ UNCHANGED <<path, fds, static_fd, static_ino, fsync_count, sent, moves, hit, behind, unsynced>>

Save(t) ==
  /\ caller[t].pc = "save"
  /\ static_ino' = caller[t].st
  /\ caller' = [caller EXCEPT ![t].pc = "write"]
  /\ UNCHANGED <<path, fds, static_fd, fsync_count, sent, moves, hit, behind, unsynced>>

\* write(static_fd), to whatever that number stands for at this moment.
WriteFd(t) ==
  LET ino == IF static_fd \in DOMAIN fds THEN fds[static_fd] ELSE Nowhere
  IN /\ caller[t].pc = "write"
     /\ hit' = hit \cup {ino}
     /\ behind' = (behind \/ ino \notin caller[t].seen)
     /\ unsynced' = unsynced + 1
     /\ caller' = IF ino = Nowhere THEN [caller EXCEPT ![t] = Quiet] ELSE [caller EXCEPT ![t].pc = "sync"]
     /\ UNCHANGED <<path, fds, static_fd, static_ino, fsync_count, sent, moves>>

\* The period of fsync is counted per rule.
FsyncDue(n) == FsyncPeriod > 0 /\ n >= FsyncPeriod
Sync(t) ==
  LET n == IF FsyncPeriod > 0 THEN fsync_count + 1 ELSE 0
  IN /\ caller[t].pc = "sync"
     /\ IF FsyncDue(n) THEN fsync_count' = 0 /\ unsynced' = 0
                       ELSE fsync_count' = n /\ UNCHANGED unsynced
     /\ caller' = [caller EXCEPT ![t] = Quiet]
     /\ UNCHANGED <<path, fds, static_fd, static_ino, sent, moves, hit, behind>>

\* External: a tool such as logrotate moves the file away.  (A tool that
\* moves it away twice within one call and puts a new file there the second
\* time makes Restat save the inode of a file that is not the one opened.)
MoveAway ==
  /\ path # None /\ moves < MaxMoves
  /\ path' = (IF replaces THEN NewIno ELSE None) /\ moves' = moves + 1
  /\ caller' = Seen(caller, path')
  /\ UNCHANGED <<fds, static_fd, static_ino, fsync_count, sent, hit, behind, unsynced>>

\* Another rule of the process opens its file, and closes it again.
OtherOpens ==
  /\ \A n \in DOMAIN fds : fds[n] # Other
  /\ fds' = WithFd(Other)
  /\ UNCHANGED <<path, static_fd, static_ino, fsync_count, caller, sent, moves, hit, behind, unsynced>>
OtherCloses ==
  /\ \E n \in DOMAIN fds : fds[n] = Other /\ fds' = Closed(n)
  /\ UNCHANGED <<path, static_fd, static_ino, fsync_count, caller, sent, moves, hit, behind, unsynced>>

SingleNext ==
  /\ UNCHANGED replaces
  /\ \/ \E t \in Callers : Stat(t) \/ Close(t) \/ Reopen(t) \/ Restat(t) \/ Save(t)
                           \/ WriteFd(t) \/ Sync(t)
     \/ MoveAway \/ OtherOpens \/ OtherCloses

SingleSpec == SingleInit /\ [][SingleNext]_singleVars

-----------------------------------------------------------------------------
\* "All zlog APIs are thread safe." (the users' guide): a message of the rule
\* goes to its log file, never to a file of another rule and never to a
\* closed descriptor (zlog_rule_output_static_file_single).
RightFile == hit \cap {Other, Nowhere} = {}

\* A message goes to a file that was at the path at some moment since its
\* call began: an external tool that moved the file away gets no message of
\* a call that began later.
NotBehind == ~behind

\* One descriptor of the rule is open, however often the file was moved and
\* opened again and whichever open or stat failed on the way.
OneDescriptor == Cardinality({n \in DOMAIN fds : fds[n] # Other}) <= 1

\* The file is synced at least every FsyncPeriod messages (fsync_period), also
\* across reopenings: the count belongs to the rule, not to the descriptor.
SyncedInTime == FsyncPeriod > 0 => unsynced <= FsyncPeriod

\* The log follows its path: whoever moves the file away gets no later message, the
\* descriptors do not pile up, and what was written is synced in time, across all
\* reopenings (zlog_rule_output_static_file_single with one thread).
FileFollowed == NotBehind /\ OneDescriptor /\ SyncedInTime
=============================================================================
