---------------------------- MODULE QuickMsgRing ----------------------------
(***************************************************************************)
(* common/src/quickMsgRing.c: the single-producer single-consumer ring of  *)
(* 32-bit words that carries commands from the main thread (macAppMgrSend) *)
(* to the real-time thread of a cell (macRevAppCtrlMsg).                   *)
(*                                                                         *)
(* A message occupies a header word holding its length in words, then its  *)
(* body.  A header equal to Size is a placeholder: the rest of the buffer  *)
(* is unused and the message starts at word 0.  in = out does not tell     *)
(* full from empty; emptyFlag, which only the consumer writes, does.       *)
(*                                                                         *)
(* Every access to a word the two threads share is a step of its own; a    *)
(* thread's accesses to words the other one cannot be using are merged     *)
(* with the neighbouring step, and the invariants below show that it       *)
(* cannot be.                                                              *)
(***************************************************************************)
EXTENDS Integers, Sequences

\* (Definitions with an underscore in their name are deliberate mistakes: no
\* specification uses them, and each breaks the property it was written for.)

CONSTANTS
  Size,        \* words in buf
  MsgLens,     \* message lengths in bytes that senders use
  Payloads,    \* contents of a message: the value every word of it holds
  Unhandled    \* the contents the receiver's callback returns non-zero for

ASSUME SizeAssumption == Size \in Nat /\ Size >= 2
ASSUME LensAssumption == MsgLens \subseteq Nat
ASSUME PayloadAssumption == Payloads \subseteq Nat /\ Unhandled \subseteq Payloads

VARIABLES
  buf, in, out, emptyFlag, nextIn, nextOut,  \* struct stQuickMsgRing
  ppc,      \* where the sending thread is
  msg,      \* its message: [len |-> bytes, val |-> content]
  tmpOut,   \* its sample of out
  hdr,      \* where the header of the reserved message is
  cpc,      \* where the receiving thread is
  cur,      \* the message its callback is given: [hdr |->, cnt |->]
  handed,   \* <<>>, or what the callback reads there
  isEmpty,  \* its evaluation of out == in
  pend      \* history: the messages accepted and not yet taken

prodVars == <<ppc, msg, tmpOut, hdr, nextIn>>
consVars == <<cpc, cur, handed, isEmpty, nextOut>>
vars == <<buf, in, out, emptyFlag, prodVars, consVars, pend>>

RESERV_LEN == 1
Index == 0 .. Size - 1

-----------------------------------------------------------------------------
(***************************************************************************)
(* The arithmetic of QuickMsgRingGetBufBulk.                               *)
(***************************************************************************)

\* Bytes rounded up to 32-bit words.
WordCnt(bytes) ==
  IF bytes % 4 > 0 THEN (bytes \div 4) + 1 ELSE bytes \div 4

\* An index past the last word starts again at word 0.
Wrap(i) == i % Size

\* Free words as the sender computes them from its samples.
Unused_FlagIgnored(i, o, flag) ==
  IF i > o THEN (Size - i) + o ELSE o - i
Unused(i, o, flag) ==
  IF i > o THEN (Size - i) + o
  ELSE IF i < o THEN o - i
  ELSE IF flag = 1 THEN Size ELSE 0

\* Room for the header, the body and at least one word to spare.
EnoughSpace(i, o, flag, cnt) ==
  ~(Unused(i, o, flag) <= cnt + RESERV_LEN)

\* The message fits where in points.
FitsHere(i, o, flag, cnt) ==
  /\ EnoughSpace(i, o, flag, cnt)
  /\ (i >= o => Size - i >= cnt + RESERV_LEN)

\* It does not, but it fits at word 0 behind a placeholder.
FitsRewound_TailOnly(i, o, flag, cnt) ==
  /\ EnoughSpace(i, o, flag, cnt)
  /\ i >= o
  /\ Size - i < cnt + RESERV_LEN
FitsRewound(i, o, flag, cnt) ==
  /\ EnoughSpace(i, o, flag, cnt)
  /\ i >= o
  /\ Size - i < cnt + RESERV_LEN
  /\ Unused(i, o, flag) >= (Size - i) + cnt + 3 * RESERV_LEN

\* Whether GetBuf finds a buffer.
Fits(i, o, flag, cnt) ==
  FitsHere(i, o, flag, cnt) \/ FitsRewound(i, o, flag, cnt)

\* The body of the message whose header is at h, as the set of its words.
Body(b, h, cnt) == { b[a] : a \in Index \cap (h + RESERV_LEN .. h + cnt) }

\* b with the body of the message at h set to v.
Filled(b, h, cnt, v) ==
  [a \in Index |-> IF a \in h + RESERV_LEN .. h + cnt THEN v ELSE b[a]]

-----------------------------------------------------------------------------
\* init_quickMsgRing
Init ==
  /\ buf = [a \in Index |-> 0]
  /\ in = 0 /\ out = 0 /\ nextIn = 0 /\ nextOut = 0
  /\ emptyFlag = 1
  /\ ppc = "idle" /\ cpc = "idle"
  /\ msg = [len |-> 0, val |-> 0]
  /\ tmpOut = 0 /\ hdr = 0
  /\ cur = [hdr |-> 0, cnt |-> 0]
  /\ handed = <<>>
  /\ isEmpty = 1
  /\ pend = <<>>

(***************************************************************************)
(* The sending thread: QuickMsgRingSendMsg and SendMsgWithPackFunc.        *)
(***************************************************************************)

\* GetBufBulk samples out (in is its own).
GetBufSample ==
  /\ ppc = "idle"
  /\ \E l \in MsgLens, v \in Payloads : msg' = [len |-> l, val |-> v]
  /\ tmpOut' = out
  /\ ppc' = "sampled"
  /\ UNCHANGED <<buf, in, out, emptyFlag, hdr, nextIn, consVars, pend>>

\* It samples emptyFlag, writes the header at in and clears the body.
GetBufHere ==
  LET cnt == WordCnt(msg.len) IN
  /\ ppc = "sampled"
  /\ FitsHere(in, tmpOut, emptyFlag, cnt)
  /\ hdr' = in
  /\ buf' = [Filled(buf, in, cnt, 0) EXCEPT ![in] = cnt]
  /\ nextIn' = Wrap(in + cnt + RESERV_LEN)
  /\ ppc' = "reserved"
  /\ UNCHANGED <<in, out, emptyFlag, msg, tmpOut, consVars, pend>>

\* It samples emptyFlag, writes the placeholder and starts again at word 0.
GetBufRewind ==
  LET cnt == WordCnt(msg.len) IN
  /\ ppc = "sampled"
  /\ FitsRewound(in, tmpOut, emptyFlag, cnt)
  /\ hdr' = 0
  /\ buf' = [Filled(buf, 0, cnt, 0) EXCEPT ![in] = Size, ![0] = cnt]
  /\ nextIn' = Wrap(RESERV_LEN + cnt)
  /\ ppc' = "reserved"
  /\ UNCHANGED <<in, out, emptyFlag, msg, tmpOut, consVars, pend>>

\* No buffer: the send fails and the message is gone.
GetBufFail ==
  /\ ppc = "sampled"
  /\ ~Fits(in, tmpOut, emptyFlag, WordCnt(msg.len))
  /\ nextIn' = in
  /\ ppc' = "idle"
  /\ UNCHANGED <<buf, in, out, emptyFlag, msg, tmpOut, hdr, consVars, pend>>

\* The body is copied in (SendMsg) or written by the pack function.
CopyMsg ==
  /\ ppc = "reserved"
  /\ buf' = Filled(buf, hdr, WordCnt(msg.len), msg.val)
  /\ ppc' = "copied"
  /\ UNCHANGED <<in, out, emptyFlag, msg, tmpOut, hdr, nextIn, consVars, pend>>

\* The pack function fails: the reservation is abandoned as it stands.
PackFail ==
  /\ ppc = "reserved"
  /\ ppc' = "idle"
  /\ UNCHANGED <<buf, in, out, emptyFlag, msg, tmpOut, hdr, nextIn, consVars, pend>>

\* in = nextIn: the consumer can see the message from here on.
PublishIn ==
  /\ ppc = "copied"
  /\ in' = nextIn
  /\ ppc' = "idle"
  /\ pend' = Append(pend, [at |-> in, hdr |-> hdr, cnt |-> WordCnt(msg.len), val |-> msg.val])
  /\ UNCHANGED <<buf, out, emptyFlag, msg, tmpOut, hdr, nextIn, consVars>>

(***************************************************************************)
(* The receiving thread: QuickMsgRingRecvMsgWithUnpackFunc.                *)
(***************************************************************************)

\* BeginRecvMsgBulk's test for an empty ring.
LooksEmpty_FlagOnly == emptyFlag = 1
LooksEmpty == out = in /\ emptyFlag = 1

\* Nothing to receive.
BeginRecvEmpty ==
  /\ cpc = "idle"
  /\ LooksEmpty
  /\ nextOut' = out
  /\ UNCHANGED <<buf, in, out, emptyFlag, prodVars, cpc, cur, handed, isEmpty, pend>>

\* The header at out, or at word 0 when a placeholder is there.
HeadHdr == IF buf[out] = Size THEN 0 ELSE out

\* BeginRecvMsgBulk finds the oldest message and where the next one starts.
BeginRecvMsg ==
  /\ cpc = "idle"
  /\ ~LooksEmpty
  /\ cur' = [hdr |-> HeadHdr, cnt |-> buf[HeadHdr]]
  /\ nextOut' = Wrap(HeadHdr + buf[HeadHdr] + RESERV_LEN)
  /\ cpc' = "begun"
  /\ UNCHANGED <<buf, in, out, emptyFlag, prodVars, handed, isEmpty, pend>>

\* The callback reads the message.
UnpackRead ==
  /\ cpc = "begun"
  /\ handed' = <<[cnt |-> cur.cnt, words |-> Body(buf, cur.hdr, cur.cnt)]>>
  /\ cpc' = "called"
  /\ UNCHANGED <<buf, in, out, emptyFlag, prodVars, cur, isEmpty, nextOut, pend>>

\* It returns non-zero: RecvMsgWithUnpackFunc returns without completing.
UnpackRefuse_Completes ==
  /\ cpc = "called"
  /\ handed[1].words \cap Unhandled # {}
  /\ handed' = <<>>
  /\ out' = nextOut
  /\ cpc' = "outStored"
  /\ pend' = Tail(pend)
  /\ UNCHANGED <<buf, in, emptyFlag, prodVars, cur, isEmpty, nextOut>>
UnpackRefuse ==
  /\ cpc = "called"
  /\ handed[1].words \cap Unhandled # {}
  /\ handed' = <<>>
  /\ cpc' = "idle"
  /\ UNCHANGED <<buf, in, out, emptyFlag, prodVars, cur, isEmpty, nextOut, pend>>

\* It returns 0 and RecvMsgComplete stores out ...
CompleteOut ==
  /\ cpc = "called"
  /\ handed[1].words \cap Unhandled = {}
  /\ handed' = <<>>
  /\ out' = nextOut
  /\ cpc' = "outStored"
  /\ pend' = IF pend = <<>> THEN pend ELSE Tail(pend)
  /\ UNCHANGED <<buf, in, emptyFlag, prodVars, cur, isEmpty, nextOut>>

\* ... reads in back to compare the two ...
CompleteCompare ==
  /\ cpc = "outStored"
  /\ isEmpty' = IF out = in THEN 1 ELSE 0
  /\ cpc' = "compared"
  /\ UNCHANGED <<buf, in, out, emptyFlag, prodVars, cur, handed, nextOut, pend>>

\* ... and stores the outcome.
CompleteFlag ==
  /\ cpc = "compared"
  /\ emptyFlag' = isEmpty
  /\ cpc' = "idle"
  /\ UNCHANGED <<buf, in, out, prodVars, cur, handed, isEmpty, nextOut, pend>>

-----------------------------------------------------------------------------
Producer ==
  GetBufSample \/ GetBufHere \/ GetBufRewind \/ GetBufFail \/ CopyMsg \/ PackFail \/ PublishIn

Consumer ==
  \/ BeginRecvEmpty \/ BeginRecvMsg \/ UnpackRead \/ UnpackRefuse
  \/ CompleteOut \/ CompleteCompare \/ CompleteFlag

Next == Producer \/ Consumer

Spec == Init /\ [][Next]_vars

\* The receiving thread polls for ever (run_mac_rt); the sender may stop.
FairSpec == Spec /\ WF_vars(Consumer)

-----------------------------------------------------------------------------
Messages == [at : Index, hdr : Index, cnt : Nat, val : Nat]

TypeOK ==
  /\ buf \in [Index -> Nat]
  /\ in \in Index /\ out \in Index /\ nextIn \in Index /\ nextOut \in Index
  /\ emptyFlag \in {0, 1} /\ isEmpty \in {0, 1}
  /\ tmpOut \in Index /\ hdr \in Index
  /\ ppc \in {"idle", "sampled", "reserved", "copied"}
  /\ msg \in [len : Nat, val : Nat]
  /\ cpc \in {"idle", "begun", "called", "outStored", "compared"}
  /\ cur \in [hdr : Index, cnt : Nat]
  /\ handed \in Seq([cnt : Nat, words : SUBSET Nat])
  /\ pend \in Seq(Messages)

-----------------------------------------------------------------------------
(***************************************************************************)
(* Safety.                                                                 *)
(***************************************************************************)

\* The two indices coincide exactly when no message is outstanding: whatever
\* the sender's stale sample of out, GetBufBulk never lets in catch up with out
\* from behind, so in = out never means "full".
RingNeverFull == (in = out) <=> (pend = <<>>)

\* Whenever the receiver polls, BeginRecvMsgBulk reports "empty" exactly when
\* there is nothing to receive: the flag RecvMsgComplete computes from a second
\* read of in is right again before the next poll, however publishing of new
\* messages interleaves with it.
EmptyTestExact == cpc = "idle" => (LooksEmpty <=> pend = <<>>)

\* No accepted message is disturbed before it is taken: its placeholder, header
\* and body survive every later reservation, clearing and copy of the sender,
\* including those it abandons, and no body or length is taken for a placeholder.
UnreadIntact ==
  \A k \in DOMAIN pend :
    LET m == pend[k] IN
    /\ IF m.hdr = m.at THEN m.cnt # Size ELSE m.hdr = 0 /\ buf[m.at] = Size
    /\ buf[m.hdr] = m.cnt
    /\ Body(buf, m.hdr, m.cnt) \subseteq {m.val}

\* What BeginRecvMsgBulk gives the callback is the oldest accepted message, at
\* its place and length, until the callback returns.
DeliversOldest ==
  cpc \in {"begun", "called"} =>
    /\ pend # <<>>
    /\ cur = [hdr |-> pend[1].hdr, cnt |-> pend[1].cnt]
    /\ nextOut = Wrap(cur.hdr + cur.cnt + RESERV_LEN)

\* An empty ring whose flag has settled takes every message of up to about half
\* of it, wherever in and out stand: the rewind rule of GetBufBulk never wedges
\* an empty ring.
EmptyRingAccepts ==
  pend = <<>> /\ emptyFlag = 1 =>
    \A l \in MsgLens :
      2 * WordCnt(l) + 3 * RESERV_LEN <= Size => Fits(in, out, emptyFlag, WordCnt(l))

(***************************************************************************)
(* Liveness and refinement.                                                *)
(***************************************************************************)

\* The oldest message, if the callback takes it, is consumed: out moves on.
\* (UnpackRefuse is the other case: the refused message stays at the head.)
HeadTaken ==
  \A a \in Index :
    (out = a /\ pend # <<>> /\ pend[1].val \notin Unhandled) ~> (out # a)

\* What the receiver can see of an accepted message.
View(m) == [cnt |-> m.cnt, words |-> IF m.cnt = 0 THEN {} ELSE {m.val}]

FifoMsgs ==
  { View([cnt |-> WordCnt(l), val |-> v]) : l \in MsgLens, v \in Payloads }

Fifo == INSTANCE MsgFifo WITH
  Msgs <- FifoMsgs,
  Rejects <- { m \in FifoMsgs : m.words \cap Unhandled # {} },
  queue <- [k \in DOMAIN pend |-> View(pend[k])]

\* The ring is a lossy FIFO with redelivery: the callback reads, from the words
\* of the buffer, exactly the accepted messages in order and unchanged.
ImplementsFifo == Fifo!FifoSpec
=============================================================================
