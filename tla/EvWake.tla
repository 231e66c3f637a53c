------------------------------- MODULE EvWake -------------------------------
(***************************************************************************)
(* Waking a libev loop from another thread or from a signal handler        *)
(* (ev.c): ev_async_send and ev_feed_signal raise a source, set the flag   *)
(* of its kind and write to the wake-up descriptor only if the loop says   *)
(* it wants that; ev_run decides whether it may sleep and pipecb collects  *)
(* what was raised.  No step reads or writes more than one variable the    *)
(* threads share.  A store of 0 that the loop thread makes without a full  *)
(* fence after it (pipe_write_wanted, sent of an async, pending of a       *)
(* signal) waits in its store buffer until it drains or the next such      *)
(* fence: a release fence is none on the hosts this is built for.          *)
(***************************************************************************)
EXTENDS Integers, Sequences

LOCAL INSTANCE Functions

CONSTANTS Asyncs,      \* ev_async watchers
          Signals,     \* signals, each with one ev_signal watcher
          MaxSends,    \* bound: raises of all sources together
          MaxToggles   \* bound: watchers stopped and started by callbacks

ASSUME EvWakeAssumption ==
  /\ Asyncs \cap Signals = {} /\ "pipe_write_wanted" \notin Asyncs \cup Signals
  /\ MaxSends \in Nat /\ MaxToggles \in Nat

WakeSources == Asyncs \cup Signals

\* The flag of a source: async_pending or sig_pending.
Kind(s) == IF s \in Asyncs THEN "async" ELSE "sig"

VARIABLES
  wanted,   \* pipe_write_wanted as the other threads see it
  outgoing, \* to what the loop thread has stored 0 that the others do not see yet
  skipped,  \* pipe_write_skipped
  flag,     \* sig_pending and async_pending
  raised,   \* w->sent of an async, signals[i].pending of a signal
  pipe,     \* bytes, or the eventfd counter, not read yet
  lpc,      \* where the loop thread is
  block,    \* this iteration may sleep in the backend
  wakeGot,  \* the backend reported the wake-up descriptor readable
  unscanned,     \* sources pipecb has still to look at
  fed,      \* watchers with a pending event
  live,     \* watchers that are active
  spc,      \* where the sender of each source is
  sends,    \* raises of each source that began
  calls,    \* invocations of each watcher's callback
  leftover, \* signals pipecb found raised when their watcher was stopped, not raised since
  toggles

wakeVars == <<wanted, outgoing, skipped, flag, raised, pipe, lpc, block, wakeGot, unscanned,
              fed, live, spc, sends, calls, leftover, toggles>>
loopVars == <<outgoing, lpc, block, wakeGot, unscanned, fed, live, calls, toggles>>
sendVars == <<spc, sends>>

EvWakeInit ==
  /\ wanted = FALSE /\ outgoing = {} /\ skipped = FALSE
  /\ flag = [k \in {"async", "sig"} |-> FALSE]
  /\ raised = [s \in WakeSources |-> FALSE]
  /\ pipe = 0 /\ lpc = "top" /\ block = FALSE /\ wakeGot = FALSE
  /\ unscanned = {} /\ fed = {} /\ live = WakeSources
  /\ spc = [s \in WakeSources |-> "idle"]
  /\ sends = [s \in WakeSources |-> 0] /\ calls = [s \in WakeSources |-> 0]
  /\ leftover = {} /\ toggles = 0

----------------------------------------------------------------------------
(* The sender: another thread, or the handler of a signal. *)

RaisesBegun == SumFunction(sends)

SenderAt(s, from, to) == spc[s] = from /\ spc' = [spc EXCEPT ![s] = to]

\* A signal nobody waits for in this loop is not raised (signals[i].loop is 0).
SignalFind(s) ==
  /\ s \in Signals \cap live /\ RaisesBegun < MaxSends
  /\ SenderAt(s, "idle", "found")
  /\ UNCHANGED <<wanted, skipped, flag, raised, pipe, sends, loopVars, leftover>>

Raise(s) ==
  /\ RaisesBegun < MaxSends
  /\ SenderAt(s, IF s \in Signals THEN "found" ELSE "idle", "raised")
  /\ sends' = [sends EXCEPT ![s] = @ + 1]
  /\ raised' = [raised EXCEPT ![s] = TRUE]
  /\ leftover' = leftover \ {s}
  /\ UNCHANGED <<wanted, skipped, flag, pipe, loopVars>>

\* Somebody else's wake-up of this kind is on its way.
SendSeen(s) ==
  /\ flag[Kind(s)]
  /\ SenderAt(s, "raised", "idle")
  /\ UNCHANGED <<wanted, skipped, flag, raised, pipe, sends, loopVars, leftover>>

\* Several senders may find the flag clear before one of them sets it.
SendUnseen(s) ==
  /\ ~flag[Kind(s)]
  /\ SenderAt(s, "raised", "unseen")
  /\ UNCHANGED <<wanted, skipped, flag, raised, pipe, sends, loopVars, leftover>>

SendFlag(s) ==
  /\ SenderAt(s, "unseen", "flagged")
  /\ flag' = [flag EXCEPT ![Kind(s)] = TRUE]
  /\ UNCHANGED <<wanted, skipped, raised, pipe, sends, loopVars, leftover>>

SendSkip(s) ==
  /\ SenderAt(s, "flagged", "skipping")
  /\ skipped' = TRUE
  /\ UNCHANGED <<wanted, flag, raised, pipe, sends, loopVars, leftover>>

SendNotWanted(s) ==
  /\ ~wanted
  /\ SenderAt(s, "skipping", "idle")
  /\ UNCHANGED <<wanted, skipped, flag, raised, pipe, sends, loopVars, leftover>>

SendWanted(s) ==
  /\ wanted
  /\ SenderAt(s, "skipping", "wanted")
  /\ UNCHANGED <<wanted, skipped, flag, raised, pipe, sends, loopVars, leftover>>

SendUnskip(s) ==
  /\ SenderAt(s, "wanted", "writing")
  /\ skipped' = FALSE
  /\ UNCHANGED <<wanted, flag, raised, pipe, sends, loopVars, leftover>>

SendWrite(s) ==
  /\ SenderAt(s, "writing", "idle")
  /\ pipe' = pipe + 1
  /\ UNCHANGED <<wanted, skipped, flag, raised, sends, loopVars, leftover>>

Sender(s) == \/ SendSeen(s) \/ SendUnseen(s) \/ SendFlag(s) \/ SendSkip(s) \/ SendNotWanted(s)
             \/ SendWanted(s) \/ SendUnskip(s) \/ SendWrite(s)

----------------------------------------------------------------------------
(* The loop thread: one iteration of ev_run. *)

LoopAt(from, to) == lpc = from /\ lpc' = to

\* One of its stores reaches the other threads; after a fence all have.
Drain ==
  /\ \E x \in outgoing :
       /\ outgoing' = outgoing \ {x}
       /\ wanted' = (wanted /\ x # "pipe_write_wanted")
       /\ raised' = [s \in WakeSources |-> raised[s] /\ s # x]
  /\ UNCHANGED <<skipped, flag, pipe, lpc, block, wakeGot, unscanned, fed, live, calls, toggles, sendVars, leftover>>

Fence(w) ==
  /\ outgoing' = {} /\ wanted' = w
  /\ raised' = [s \in WakeSources |-> raised[s] /\ s \notin outgoing]

\* pipe_write_wanted = 1 and the fence after it.
Want_Late ==
  /\ LoopAt("top", "look")
  /\ Fence(FALSE)
  /\ UNCHANGED <<skipped, flag, pipe, block, wakeGot, unscanned, fed, live, calls, toggles, sendVars, leftover>>

Want ==
  /\ LoopAt("top", "look")
  /\ Fence(TRUE)
  /\ UNCHANGED <<skipped, flag, pipe, block, wakeGot, unscanned, fed, live, calls, toggles, sendVars, leftover>>

Look ==
  /\ LoopAt("look", "poll")
  /\ block' = ~skipped
  /\ UNCHANGED <<wanted, outgoing, skipped, flag, raised, pipe, wakeGot, unscanned, fed, live, calls, toggles, sendVars, leftover>>

\* The backend returns because the wake-up descriptor is readable, or at once.
WakePoll ==
  /\ ~block \/ pipe > 0
  /\ LoopAt("poll", "unwant")
  /\ wakeGot' = (pipe > 0) /\ block' = FALSE
  /\ UNCHANGED <<wanted, outgoing, skipped, flag, raised, pipe, unscanned, fed, live, calls, toggles, sendVars, leftover>>

\* It returns for another descriptor, a timer or an interrupted call.
PollOther ==
  /\ block /\ pipe = 0
  /\ LoopAt("poll", "unwant")
  /\ wakeGot' = FALSE /\ block' = FALSE
  /\ UNCHANGED <<wanted, outgoing, skipped, flag, raised, pipe, unscanned, fed, live, calls, toggles, sendVars, leftover>>

\* The store is not fenced: it becomes visible later.
Unwant ==
  /\ LoopAt("unwant", "skips")
  /\ outgoing' = outgoing \cup {"pipe_write_wanted"}
  /\ UNCHANGED <<wanted, skipped, flag, raised, pipe, block, wakeGot, unscanned, fed, live, calls, toggles, sendVars, leftover>>

\* pipe_w gets an event from the backend, or from here when a write was skipped.
Skips ==
  /\ LoopAt("skips", IF wakeGot \/ skipped THEN "read" ELSE "invoke")
  /\ UNCHANGED <<wanted, outgoing, skipped, flag, raised, pipe, block, wakeGot, unscanned, fed, live, calls, toggles, sendVars, leftover>>

\* pipecb reads the descriptor only for a read event.
Read ==
  /\ LoopAt("read", "clear")
  /\ pipe' = IF wakeGot THEN 0 ELSE pipe
  /\ wakeGot' = FALSE
  /\ UNCHANGED <<wanted, outgoing, skipped, flag, raised, block, unscanned, fed, live, calls, toggles, sendVars, leftover>>

\* pipe_write_skipped = 0 and the fence after it.
WakeClear ==
  /\ LoopAt("clear", "sig")
  /\ skipped' = FALSE
  /\ Fence(FALSE)
  /\ UNCHANGED <<flag, pipe, block, wakeGot, unscanned, fed, live, calls, toggles, sendVars, leftover>>

\* Where the loop thread clears the flag of kind k and looks at its sources.
ClearOf(k) == IF k = "sig" THEN "clearsig" ELSE "clearasync"
ScanOf(k) == IF k = "sig" THEN "scansig" ELSE "scanasync"

\* Without the flag of kind k there is nothing to collect.
WakeCollect(k, after) ==
  /\ LoopAt(k, IF flag[k] THEN ClearOf(k) ELSE after)
  /\ UNCHANGED <<wanted, outgoing, skipped, flag, raised, pipe, block, wakeGot, unscanned, fed, live, calls, toggles,
                 sendVars, leftover>>

\* The flag is cleared, and the store fenced, before the sources are looked at.
FlagClear_Kept(k) ==
  /\ LoopAt(ClearOf(k), ScanOf(k))
  /\ Fence(wanted)
  /\ unscanned' = {s \in WakeSources : Kind(s) = k /\ s \in live \cup Signals}
  /\ UNCHANGED <<skipped, flag, pipe, block, wakeGot, fed, live, calls, toggles, sendVars, leftover>>

FlagClear(k) ==
  /\ LoopAt(ClearOf(k), ScanOf(k))
  /\ flag' = [flag EXCEPT ![k] = FALSE]
  /\ Fence(wanted)
  /\ unscanned' = {s \in WakeSources : Kind(s) = k /\ s \in live \cup Signals}
  /\ UNCHANGED <<skipped, pipe, block, wakeGot, fed, live, calls, toggles, sendVars, leftover>>

\* A source that is found raised is lowered, by a store not fenced, and its watcher gets
\* its event.  A signal whose watcher was stopped belongs to no loop: it is left raised.
Scan(k, after) ==
  /\ lpc = ScanOf(k)
  /\ IF unscanned = {} THEN lpc' = after /\ UNCHANGED <<outgoing, unscanned, fed, leftover>>
     ELSE \E s \in unscanned :
            /\ unscanned' = unscanned \ {s}
            /\ outgoing' = IF raised[s] /\ s \in live THEN outgoing \cup {s} ELSE outgoing
            /\ fed' = IF raised[s] /\ s \in live THEN fed \cup {s} ELSE fed
            /\ leftover' = IF raised[s] /\ s \notin live THEN leftover \cup {s} ELSE leftover
            /\ UNCHANGED lpc
  /\ UNCHANGED <<wanted, skipped, flag, raised, pipe, block, wakeGot, live, calls, toggles, sendVars>>

\* ev_invoke_pending: the callback of a watcher with an event.
WakeInvoke ==
  /\ lpc = "invoke"
  /\ \E s \in fed : fed' = fed \ {s} /\ calls' = [calls EXCEPT ![s] = @ + 1]
  /\ UNCHANGED <<wanted, outgoing, skipped, flag, raised, pipe, lpc, block, wakeGot, unscanned, live, toggles, sendVars,
                 leftover>>

WakeIterate ==
  /\ fed = {}
  /\ LoopAt("invoke", "top")
  /\ UNCHANGED <<wanted, outgoing, skipped, flag, raised, pipe, block, wakeGot, unscanned, fed, live, calls, toggles,
                 sendVars, leftover>>

\* A callback stops a watcher: its pending event is dropped.
WakeStop(s) ==
  /\ lpc = "invoke" /\ toggles < MaxToggles /\ s \in live
  /\ live' = live \ {s} /\ fed' = fed \ {s} /\ toggles' = toggles + 1
  /\ UNCHANGED <<wanted, outgoing, skipped, flag, raised, pipe, lpc, block, wakeGot, unscanned, calls, sendVars, leftover>>

\* It starts one: an async forgets what was sent to it before, a signal does not.
WakeStart(s) ==
  /\ lpc = "invoke" /\ toggles < MaxToggles /\ s \notin live
  /\ live' = live \cup {s} /\ toggles' = toggles + 1
  /\ outgoing' = IF s \in Asyncs THEN outgoing \cup {s} ELSE outgoing
  /\ UNCHANGED <<wanted, skipped, flag, raised, pipe, lpc, block, wakeGot, unscanned, fed, calls, sendVars, leftover>>

LoopThread == \/ Want \/ Look \/ WakePoll \/ Unwant \/ Skips \/ Read \/ WakeClear
              \/ WakeCollect("sig", "async") \/ FlagClear("sig") \/ Scan("sig", "async")
              \/ WakeCollect("async", "invoke") \/ FlagClear("async") \/ Scan("async", "invoke")
              \/ WakeInvoke \/ WakeIterate

EvWakeNext == \/ LoopThread \/ Drain \/ PollOther
              \/ \E s \in WakeSources : SignalFind(s) \/ Raise(s) \/ Sender(s) \/ WakeStop(s) \/ WakeStart(s)

EvWakeSpec == EvWakeInit /\ [][EvWakeNext]_wakeVars

(* A thread that can take a step takes one; the store buffer drains.  What  *)
(* else may end a sleep (a timer, another descriptor) is not counted on.    *)
EvWakeFair == EvWakeSpec /\ WF_wakeVars(LoopThread) /\ WF_wakeVars(Drain)
              /\ \A s \in WakeSources : WF_wakeVars(Sender(s))

----------------------------------------------------------------------------
(* The loop sleeps with nothing to read and no sender on its way to write.  *)
Asleep == lpc = "poll" /\ block /\ pipe = 0 /\ \A s \in WakeSources : spc[s] = "idle"

(* The wake-up protocol of evpipe_write and ev_run: no active watcher that  *)
(* was sent something, async or signal, is slept over before it was         *)
(* collected.  The one exception is a signal that was raised when pipecb    *)
(* looked at it and its watcher was stopped: its pending mark outlives a    *)
(* restart of the watcher until the signal comes again.                     *)
NoSleepOverSend == Asleep => \A s \in live : raised[s] => s \in leftover

(* A callback runs at most once for each ev_async_send or signal (several   *)
(* may be folded into one call; none is made up).                           *)
CallsNotInvented ==
  \A s \in WakeSources : calls[s] + (IF s \in fed THEN 1 ELSE 0)
                     + (IF raised[s] /\ s \notin outgoing THEN 1 ELSE 0) <= sends[s]

(* Neither is a send slept over nor a callback called that nobody asked     *)
(* for (evpipe_write, pipecb, ev_run).                                      *)
WakeSound == NoSleepOverSend /\ CallsNotInvented

(* What is sent to an active async watcher is collected by pipecb, unless   *)
(* the watcher is stopped first, without any other event to wake the loop.  *)
SentIsCollected == \A s \in Asyncs : (raised[s] /\ s \in live) ~> (~raised[s] \/ s \notin live)
=============================================================================
