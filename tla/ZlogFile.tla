------------------------------ MODULE ZlogFile ------------------------------
(***************************************************************************)
(* A zlog rule that writes to a file and rotates it by size                *)
(* (zlog_rule_output_static_file_rotate in rule.c, rotater.c), as run by   *)
(* the threads of several processes that log to the same file.             *)
(*                                                                         *)
(* Every message opens the file, appends, closes, and looks whether the    *)
(* file has grown too big; the thread that finds it too big and gets the   *)
(* two locks lists the archives and moves them one by one.  A process may  *)
(* be killed between any two of these steps: the kernel then drops its     *)
(* lock, and the next rotation starts from whatever was left behind.       *)
(***************************************************************************)
EXTENDS Integers, Sequences, FiniteSets, FiniteSetsExt, SequencesExt

CONSTANTS Threads,      \* the threads that log to the file
          Rules,        \* the rules considered, see conf
          MaxSize,      \* archive_max_size
          Lens,         \* lengths of a formatted message
          MaxFileMsgs, MaxFaults  \* bounds of the model

ASSUME FileAssumption ==
  /\ Rules \subseteq [rolling : BOOLEAN, count : Nat, stray : BOOLEAN, proc : [Threads -> Nat \ {0}]]
  /\ 0 \notin Threads
  /\ MaxSize \in Nat \ {0} /\ Lens \subseteq Nat \ {0}
  /\ MaxFileMsgs \in Nat /\ MaxFaults \in Nat

VARIABLES conf,         \* the rule: rolling or in sequence, its limit (0: none),
                        \* whether a file without a number, as aa.log.bak, is about,
                        \* and the process of each thread
          dir,          \* name -> inode, the names present in the directory
          content,      \* inode -> the messages in it, inodes in order of creation
          th,           \* thread -> where it is in the output function
          rot,          \* process -> the rotater's list of files and its place in it
          mutex,        \* process -> the thread that holds lock_mutex
          flock,        \* the process that holds the fcntl lock of the lock file
          written,      \* messages written so far
          pruned,       \* the archives (inodes) removed because of MaxCount
          faults        \* processes killed and calls failed so far

fileVars == <<conf, dir, content, th, rot, mutex, flock, written, pruned, faults>>

Rolling == conf.rolling           \* mv_type
MaxCount == conf.count            \* archive_max_count
Stray == conf.stray

proc(t) == conf.proc[t]
Procs == {proc(t) : t \in Threads}
Free == 0                      \* no thread
NoProc == 0                       \* no process; processes are numbered from 1

\* An archive is named by its number; the base path and the stray file are
\* negative.  sscanf leaves index 0 for a name without a number.
Base == -1
Bak == -2
index(n) == Max({n, 0})

Archives == DOMAIN dir \ {Base}
FileSize(ino) == FoldLeft(LAMBDA s, m : s + m.len, 0, content[ino])
Idle == [pc |-> "idle", len |-> 0, ino |-> 0]

FileInit ==
  /\ conf \in Rules
  /\ dir = [n \in (IF Stray THEN {Bak} ELSE {}) |-> 1]
  /\ content = IF Stray THEN << <<>> >> ELSE <<>>
  /\ th = [t \in Threads |-> Idle]
  /\ rot = [p \in Procs |-> [files |-> <<>>, i |-> 0]]
  /\ mutex = [p \in Procs |-> Free]
  /\ flock = NoProc
  /\ written = {} /\ pruned = {}
  /\ faults = 0

At(t, pc) == th[t].pc = pc
Goto(t, pc) == th' = [th EXCEPT ![t].pc = pc]
Done(t) == th' = [th EXCEPT ![t] = Idle]

\* open(file_path, O_WRONLY | O_APPEND | O_CREAT).
Open(t, len) ==
  /\ At(t, "idle")
  /\ Cardinality(written) + Cardinality({u \in Threads : At(u, "write")}) < MaxFileMsgs
  /\ IF Base \in DOMAIN dir
       THEN UNCHANGED <<dir, content>>
       ELSE /\ content' = Append(content, <<>>)
            /\ dir' = [n \in DOMAIN dir \cup {Base} |-> IF n = Base THEN Len(content') ELSE dir[n]]
  /\ th' = [th EXCEPT ![t] = [pc |-> "write", len |-> len, ino |-> dir'[Base]]]
  /\ UNCHANGED <<rot, mutex, flock, written, pruned, faults>>

\* write(fd): to the file that was opened, whatever its name is by now.
Write(t) ==
  /\ At(t, "write")
  /\ LET m == [id |-> Cardinality(written) + 1, len |-> th[t].len]
     IN  /\ content' = [content EXCEPT ![th[t].ino] = Append(@, m)]
         /\ written' = written \cup {m}
  /\ Goto(t, "check")
  /\ UNCHANGED <<dir, rot, mutex, flock, pruned, faults>>

\* A failing write closes the file and reports the error.
WriteFails(t) ==
  /\ At(t, "write") /\ faults < MaxFaults
  /\ faults' = faults + 1
  /\ Done(t)
  /\ UNCHANGED <<dir, content, rot, mutex, flock, written, pruned>>

\* Does the output function call zlog_rotater_rotate?
TooBig(len) ==
  /\ len <= MaxSize
  /\ Base \in DOMAIN dir
  /\ FileSize(dir[Base]) + len >= MaxSize

Check(t) ==
  /\ At(t, "check")
  /\ IF TooBig(th[t].len) THEN Goto(t, "mutex") ELSE Done(t)
  /\ UNCHANGED <<dir, content, rot, mutex, flock, written, pruned, faults>>

\* zlog_rotater_trylock, in its two halves.
TryMutex(t) ==
  /\ At(t, "mutex")
  /\ IF mutex[proc(t)] = Free
       THEN mutex' = [mutex EXCEPT ![proc(t)] = t] /\ Goto(t, "fcntl")
       ELSE UNCHANGED mutex /\ Done(t)
  /\ UNCHANGED <<dir, content, rot, flock, written, pruned, faults>>

TryFcntl(t) ==
  /\ At(t, "fcntl")
  /\ IF flock \in {NoProc, proc(t)}
       THEN flock' = proc(t) /\ Goto(t, "stat") /\ UNCHANGED mutex
       ELSE mutex' = [mutex EXCEPT ![proc(t)] = Free] /\ Done(t) /\ UNCHANGED flock
  /\ UNCHANGED <<dir, content, rot, written, pruned, faults>>

\* zlog_rotater_add_archive_files: sorted by number, in any order where two
\* files have the same one.
Listings ==
  {s \in SetToSeqs(Archives) :
     \A a, b \in 1..Len(s) : a < b => index(s[a]) <= index(s[b])}

\* The first place of the list that lsmv works on.
FirstPlace(files) == IF Rolling THEN Len(files) ELSE 1

\* The second look at the size, under the locks, and the listing.
RotateStat(t) ==
  /\ At(t, "stat")
  /\ IF Base \in DOMAIN dir /\ FileSize(dir[Base]) + th[t].len > MaxSize
       THEN /\ \E s \in Listings : rot' = [rot EXCEPT ![proc(t)] =
                 [files |-> s, i |-> FirstPlace(s)]]
            /\ Goto(t, "move")
       ELSE UNCHANGED rot /\ Goto(t, "unfcntl")
  /\ UNCHANGED <<dir, content, mutex, flock, written, pruned, faults>>

\* rename(old, new) and unlink(name).
Rename(old, new) ==
  IF old = new THEN dir
  ELSE [n \in (DOMAIN dir \ {old}) \cup {new} |-> IF n = new THEN dir[old] ELSE dir[n]]
Removed(n) == [x \in DOMAIN dir \ {n} |-> dir[x]]

\* The archive at place k (from 1) of a list of len is beyond the limit.
Surplus_Newest(k, len) ==
  MaxCount > 0 /\ IF Rolling THEN k < len - MaxCount + 2 ELSE k > MaxCount
Surplus(k, len) ==
  MaxCount > 0 /\ IF Rolling THEN k >= MaxCount ELSE k <= len - MaxCount

\* The new name of the archive at place k: counted from its place in the
\* list, not from its number.
NewNumber_Same(files, k) == k - 1
NewNumber(files, k) == k

\* One turn of the loop of zlog_rotater_roll_files (from the last archive to
\* the first) or of zlog_rotater_seq_files (from the first to the last).
MoveOne(t) ==
  LET r == rot[proc(t)]
      k == r.i
      n == r.files[k]
  IN /\ At(t, "move") /\ k \in 1..Len(r.files) /\ n \in DOMAIN dir
     /\ IF Surplus(k, Len(r.files))
          THEN /\ dir' = Removed(n)
               /\ pruned' = pruned \cup {dir[n]}
          ELSE /\ dir' = IF Rolling THEN Rename(n, NewNumber(r.files, k)) ELSE dir
               /\ UNCHANGED pruned
     /\ rot' = [rot EXCEPT ![proc(t)].i = IF Rolling THEN k - 1 ELSE k + 1]
     /\ UNCHANGED <<content, th, mutex, flock, written, faults>>

\* The number the base file gets.
BaseNumber_Len(files) == IF Rolling THEN 0 ELSE Len(files)
BaseNumber(files) ==
  IF Rolling \/ files = <<>> THEN 0
  ELSE Max({Len(files) - 1, index(Last(files))}) + 1

\* The last rename: the base file becomes an archive.
MoveBase(t) ==
  LET r == rot[proc(t)]
  IN /\ At(t, "move") /\ r.i \notin 1..Len(r.files) /\ Base \in DOMAIN dir
     /\ dir' = Rename(Base, BaseNumber(r.files))
     /\ rot' = [rot EXCEPT ![proc(t)] = [files |-> <<>>, i |-> 0]]
     /\ Goto(t, "unfcntl")
     /\ UNCHANGED <<content, mutex, flock, written, pruned, faults>>

\* The file that the rotation is to move next.
NextFile(r) == IF r.i \in 1..Len(r.files) THEN r.files[r.i] ELSE Base

\* A failing unlink or rename ends the rotation where it is; it fails when
\* the file is not there, and may fail at any other time.
MoveFails(t) ==
  LET gone == NextFile(rot[proc(t)]) \notin DOMAIN dir
  IN /\ At(t, "move") /\ faults < MaxFaults + (IF gone THEN 1 ELSE 0)
     /\ faults' = IF gone THEN faults ELSE faults + 1
     /\ rot' = [rot EXCEPT ![proc(t)] = [files |-> <<>>, i |-> 0]]
     /\ Goto(t, "unfcntl")
     /\ UNCHANGED <<dir, content, mutex, flock, written, pruned>>

\* zlog_rotater_unlock.
UnlockFcntl(t) ==
  /\ At(t, "unfcntl")
  /\ flock' = NoProc /\ Goto(t, "unmutex")
  /\ UNCHANGED <<dir, content, rot, mutex, written, pruned, faults>>

UnlockMutex(t) ==
  /\ At(t, "unmutex")
  /\ mutex' = [mutex EXCEPT ![proc(t)] = Free] /\ Done(t)
  /\ UNCHANGED <<dir, content, rot, flock, written, pruned, faults>>

\* A process is killed and started again.
Crash(p) ==
  /\ faults < MaxFaults
  /\ faults' = faults + 1
  /\ th' = [t \in Threads |-> IF proc(t) = p THEN Idle ELSE th[t]]
  /\ rot' = [rot EXCEPT ![p] = [files |-> <<>>, i |-> 0]]
  /\ mutex' = [mutex EXCEPT ![p] = Free]
  /\ flock' = IF flock = p THEN NoProc ELSE flock
  /\ UNCHANGED <<dir, content, written, pruned>>

FileStep(t) == \/ Write(t) \/ Check(t) \/ TryMutex(t) \/ TryFcntl(t) \/ RotateStat(t)
           \/ MoveOne(t) \/ MoveBase(t) \/ UnlockFcntl(t) \/ UnlockMutex(t)

FileNext ==
  /\ UNCHANGED conf
  /\ \/ \E t \in Threads : \E len \in Lens : Open(t, len)
     \/ \E t \in Threads : FileStep(t) \/ WriteFails(t) \/ MoveFails(t)
     \/ \E p \in Procs : Crash(p)

FileSpec == FileInit /\ [][FileNext]_fileVars

-----------------------------------------------------------------------------
\* A message that was written is in a file of the directory for good, unless
\* the limit on the number of archives removed that file: no rename lands on
\* an archive that is still wanted, although a killed process or a failing
\* rename leaves a gap in the numbers and two files may have the same number
\* (rotater.c:311, "using i, as index in list maybe repeat").
NothingLost ==
  \A m \in written : \E ino \in pruned \cup {dir[n] : n \in DOMAIN dir} :
     m \in ToSet(content[ino])

\* The numbers of the archives tell their age: in a rolling archive the
\* lower number is the newer file, in a sequence the older.
NumbersTellAge ==
  \A a, b \in Archives \ {Bak} :
     a < b => IF Rolling THEN dir[a] > dir[b] ELSE dir[a] < dir[b]

\* No more archives than MaxCount are kept by a rolling archive, one more by
\* a sequence, where zlog_rotater_seq_files makes room before it adds one.
CountKept ==
  MaxCount > 0 => Cardinality(Archives) <= MaxCount + (IF Rolling THEN 0 ELSE 1)

\* What the archives are for: as many as asked for, numbered by age, although a
\* rotation may be cut off by a crash and numbers by place in the list (rotater.c:311).
ArchivesInOrder == NumbersTellAge /\ CountKept

\* Only archives beyond the limit are removed: a message is given up only
\* when MaxCount files hold newer ones (a file counts as new as its inode).
OnlyOldestPruned ==
  [][\A n \in DOMAIN dir \ DOMAIN dir' :
       dir[n] \notin {dir'[x] : x \in DOMAIN dir'} =>
         Cardinality({x \in DOMAIN dir : dir[x] > dir[n]}) >= MaxCount]_fileVars
=============================================================================
