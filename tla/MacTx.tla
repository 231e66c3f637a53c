------------------------------- MODULE MacTx -------------------------------
(***************************************************************************)
(* mac/src/macTx.c and mac/inc/macTx.h: how a group of requests to the PHY  *)
(* is built.  START_L1_MSG_PROC opens a block of the link and writes the    *)
(* group's header, each request is allocated, filled and appended, and      *)
(* END_L1_MSG_PROC hands the block over and traces it.  What is known of    *)
(* the group in between is kept in phyCtrlMsgCtxt[dev][cell].               *)
(*                                                                         *)
(* One context is modelled, with the threads that use it: the real-time     *)
(* thread of its cell, and any other one that handles TC_STOP for it.       *)
(* A function of macTx.c is a step, but for setL1CtrlMsgGrpHeader, which is *)
(* two: it clears the context before it asks the link for memory.           *)
(*                                                                         *)
(* A DL TTI or UL TTI request for a slot that has no file has length 0:     *)
(* size 0, less the 8 bytes the file would begin with, plus the header's 8. *)
(* It is appended and counted like any other.                               *)
(***************************************************************************)
EXTENDS Integers

CONSTANTS
  Threads,     \* the threads that build groups in this context
  Lens,        \* lengths of a request, its header included, or 0
  Cap,         \* bytes in a block of the link
  LinkFails    \* whether pcxxCtrlSend and pcxxSendEnd may fail

HdrLen == 4        \* sizeof(FAPI_MSG_HDR)
MsgHdrLen == 8     \* sizeof(L1GeneralMsgHdr_t)
MaxMsgs == 3       \* requests in a group: DL TTI, UL TTI and TX data

\* A block holds the largest group, and the 32 bytes setL1CtrlMsgGrpHeader asks for.
ASSUME SizesAssumption ==
  /\ Lens \subseteq Nat
  /\ Cap \in Nat /\ Cap > 32
  /\ \A l \in Lens : HdrLen + MaxMsgs * l < Cap

ASSUME FailAssumption == LinkFails \in BOOLEAN

VARIABLES
  pc,        \* where each thread is
  todo,      \* how many requests each has still to append
  ctx,       \* phyCtrlMsgCtxt[dev][cell]
  used,      \* external: bytes of the block that pcxxCtrlSend has committed
  msgNum,    \* the count in the block's group header
  failed,    \* an ASSERT has failed, and with it the process
  content,   \* history: the bytes and requests put into the block, the requests
             \* of length 0, and the bytes and requests the link refused
  sent       \* the last block handed over: its length, its count, the length traced
             \* and what was put into it

vars == <<pc, todo, ctx, used, msgNum, failed, content, sent>>

ZeroCtx == [curMsgLen |-> 0, maxRemLen |-> 0, totalLen |-> 0]
Nothing == [bytes |-> 0, msgs |-> 0, empty |-> 0, lostBytes |-> 0, lostMsgs |-> 0]

Init ==
  /\ pc = [t \in Threads |-> "idle"]
  /\ todo = [t \in Threads |-> 0]
  /\ ctx = ZeroCtx
  /\ used = 0
  /\ msgNum = 0
  /\ failed = FALSE
  /\ content = Nothing
  /\ sent = [len |-> 0, num |-> 0, traced |-> 0, content |-> Nothing]

-----------------------------------------------------------------------------
At(t, place) == ~failed /\ pc[t] = place
Go(t, place) == pc' = [pc EXCEPT ![t] = place]

\* After n more requests the group ends.
GoOn(t, n) ==
  /\ todo' = [todo EXCEPT ![t] = n]
  /\ Go(t, IF n = 0 THEN "end" ELSE "alloc")

\* What a part of l bytes that holds m requests adds to the block, or to what was
\* refused.  A request of length 0 puts nothing there.
PutThere(l, m) ==
  [bytes |-> content.bytes + l, msgs |-> content.msgs + (IF l = 0 THEN 0 ELSE m),
   empty |-> content.empty + (IF l = 0 THEN m ELSE 0),
   lostBytes |-> content.lostBytes, lostMsgs |-> content.lostMsgs]
TurnedDown(l, m) ==
  [bytes |-> content.bytes, msgs |-> content.msgs, empty |-> content.empty,
   lostBytes |-> content.lostBytes + l, lostMsgs |-> content.lostMsgs + m]

\* External: pcxxCtrlSend commits len bytes of the block, l of them put there for
\* m requests, or fails; its callers go on in either case.
CtrlSend(len, l, m) ==
  \/ used' = used + len /\ content' = PutThere(l, m)
  \/ LinkFails /\ content' = TurnedDown(l, m) /\ UNCHANGED used

\* External: pcxxSendStart opens a block.  (When it fails the sender returns at
\* once, and nothing has happened.)
SendStart(t) ==
  /\ At(t, "idle")
  /\ \E n \in 0 .. MaxMsgs : todo' = [todo EXCEPT ![t] = n]
  /\ used' = 0
  /\ content' = Nothing
  /\ Go(t, "clear")
  /\ UNCHANGED <<ctx, msgNum, failed, sent>>

\* setL1CtrlMsgGrpHeader: memset of the context ...
GrpClear(t) ==
  /\ At(t, "clear")
  /\ ctx' = ZeroCtx
  /\ Go(t, "header")
  /\ UNCHANGED <<todo, used, msgNum, failed, content, sent>>

\* ... and the header, of which it commits its own length.
GrpHeader(t) ==
  /\ At(t, "header")
  /\ failed' = ~(Cap - used > 32)
  /\ msgNum' = 0
  /\ ctx' = [curMsgLen |-> HdrLen, maxRemLen |-> Cap - used, totalLen |-> HdrLen]
  /\ CtrlSend(HdrLen, HdrLen, 0)
  /\ GoOn(t, todo[t])
  /\ UNCHANGED sent

\* The length allocL1CtrlMsgMem leaves for the request to start with.
\* Mutant: it is not reset.
LenAtAlloc_Kept == ctx.curMsgLen
LenAtAlloc == 0

\* allocL1CtrlMsgMem
AllocMsg(t) ==
  /\ At(t, "alloc")
  /\ failed' = ~(Cap - used >= MsgHdrLen)
  /\ ctx' = [curMsgLen |-> LenAtAlloc, maxRemLen |-> Cap - used,
             totalLen |-> ctx.totalLen]
  /\ Go(t, "append")
  /\ UNCHANGED <<todo, used, msgNum, content, sent>>

\* The ASSERT of appendL1MsgToList on the request's length.
\* Mutant: the whole group is compared with what is left for the request.
Enough_Total(l) == ctx.totalLen + l < ctx.maxRemLen
Enough(l) == ctx.curMsgLen + l < ctx.maxRemLen

\* The request is filled in, and appendL1MsgToList commits it.
AppendMsg(t) ==
  /\ At(t, "append")
  /\ \E l \in Lens :
       LET len == ctx.curMsgLen + l IN
       /\ ctx' = [curMsgLen |-> len, maxRemLen |-> ctx.maxRemLen, totalLen |-> ctx.totalLen + l]
       /\ IF Enough(l)
          THEN /\ CtrlSend(len, l, 1)
               /\ msgNum' = msgNum + 1
               /\ GoOn(t, todo[t] - 1)
               /\ UNCHANGED failed
          ELSE /\ failed' = TRUE
               /\ UNCHANGED <<pc, todo, used, msgNum, content>>
  /\ UNCHANGED sent

\* END_L1_MSG_PROC: the block is handed over and traceL1CtrlMsg notes it.
SendEnd(t) ==
  /\ At(t, "end")
  /\ sent' = [len |-> used, num |-> msgNum, traced |-> ctx.totalLen, content |-> content]
  /\ Go(t, "idle")
  /\ UNCHANGED <<todo, ctx, used, msgNum, failed, content>>

\* pcxxSendEnd fails: the sender returns before the trace.
SendEndFail(t) ==
  /\ LinkFails
  /\ At(t, "end")
  /\ Go(t, "idle")
  /\ UNCHANGED <<todo, ctx, used, msgNum, failed, content, sent>>

ThreadStep(t) ==
  \/ SendStart(t) \/ GrpClear(t) \/ GrpHeader(t) \/ AllocMsg(t)
  \/ AppendMsg(t) \/ SendEnd(t) \/ SendEndFail(t)

Next == \E t \in Threads : ThreadStep(t)

Spec == Init /\ [][Next]_vars

-----------------------------------------------------------------------------
Contexts == [curMsgLen : Nat, maxRemLen : Nat, totalLen : Nat]
Contents == [bytes : Nat, msgs : Nat, empty : Nat, lostBytes : Nat, lostMsgs : Nat]

TypeOK ==
  /\ pc \in [Threads -> {"idle", "clear", "header", "alloc", "append", "end"}]
  /\ todo \in [Threads -> 0 .. MaxMsgs]
  /\ ctx \in Contexts
  /\ used \in Nat
  /\ msgNum \in Nat
  /\ failed \in BOOLEAN
  /\ content \in Contents
  /\ sent \in [len : Nat, num : Nat, traced : Nat, content : Contents]

\* What the PHY and the trace are given: the block is as long as what was put into
\* it, piece by piece; the count in its header, which appendL1MsgToList increments for
\* every request, and the length kept for the trace exceed what is in the block by the
\* requests of length 0 (slots without a file) and by what pcxxCtrlSend refused, and
\* by nothing else.
GroupWhole ==
  LET c == sent.content IN
  /\ sent.len = c.bytes
  /\ sent.num = c.msgs + c.empty + c.lostMsgs
  /\ sent.traced = sent.len + c.lostBytes

\* The ASSERTs of macTx.c, which end the process: the link's memory is enough for
\* the request that is being written, however many precede it in its group.
AssertsHold == ~failed
=============================================================================
