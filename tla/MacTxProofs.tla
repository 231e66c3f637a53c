---------------------------- MODULE MacTxProofs ----------------------------
(***************************************************************************)
(* With one thread in a context, the group builder of macTx.c hands over   *)
(* groups whose count and trace are off only by refused and empty requests *)
(* and none of its ASSERTs fails, for all lengths, 0 included, and blocks. *)
(***************************************************************************)
EXTENDS MacTx, TLAPS

\* The longest request that a block has room for MaxMsgs of.
MaxLen == (Cap - HdrLen - 1) \div MaxMsgs

\* What a thread knows of the block at each place of a group.
Before(t) == pc[t] \in {"clear", "header"}
Inside(t) == pc[t] \in {"alloc", "append", "end"}

\* The block is new until the header is written.
Fresh(t) == Before(t) => used = 0 /\ content = Nothing

\* Afterwards context, header and link agree on what is in it.
Agree(t) ==
  Inside(t) =>
    /\ used = content.bytes
    /\ msgNum = content.msgs + content.empty + content.lostMsgs
    /\ ctx.totalLen = used + content.lostBytes

\* There is room for what is still to come.
Room(t) ==
  /\ Inside(t) => used <= HdrLen + (MaxMsgs - todo[t]) * MaxLen
  /\ pc[t] \in {"alloc", "append"} => todo[t] > 0
  /\ pc[t] = "append" => ctx.curMsgLen = 0 /\ ctx.maxRemLen = Cap - used

TxInv ==
  /\ TypeOK
  /\ AssertsHold
  /\ GroupWhole
  /\ \A t \in Threads : Fresh(t) /\ Agree(t) /\ Room(t)

Alone == \A t, u \in Threads : t = u

\* The sizes in numbers: every request is at most MaxLen long, and MaxMsgs of them
\* fit behind the header.
LEMMA Sizes ==
  /\ MaxLen \in Nat /\ MaxLen > 8 /\ 3 * MaxLen + 4 < Cap
  /\ Lens \subseteq Nat /\ Cap \in Nat
  /\ \A l \in Lens : l <= MaxLen
  BY SizesAssumption, SMT DEF MaxLen, HdrLen, MaxMsgs

\* What is left of a block while there are requests to come (todo is n).
LEMMA RoomLeft ==
  ASSUME NEW u \in Nat, NEW n \in 0 .. MaxMsgs,
         u <= HdrLen + (MaxMsgs - n) * MaxLen
  PROVE  /\ u < Cap
         /\ n > 0 => Cap - u > MaxLen
         /\ n > 0 => u + MaxLen <= HdrLen + (MaxMsgs - (n - 1)) * MaxLen
  <1>1. n \in {0, 1, 2, 3}
    BY DEF MaxMsgs
  <1>2. CASE n = 0
    BY <1>2, Sizes DEF HdrLen, MaxMsgs
  <1>3. CASE n = 1
    BY <1>3, Sizes DEF HdrLen, MaxMsgs
  <1>4. CASE n = 2
    BY <1>4, Sizes DEF HdrLen, MaxMsgs
  <1>5. CASE n = 3
    BY <1>5, Sizes DEF HdrLen, MaxMsgs
  <1> QED
    BY <1>1, <1>2, <1>3, <1>4, <1>5

\* A cleared context and an empty block.
LEMMA Zeros ==
  /\ ZeroCtx \in Contexts
  /\ Nothing \in Contents
  BY DEF Contexts, Contents, ZeroCtx, Nothing

\* A part of l bytes with m requests, in the block or refused.
LEMMA Parts ==
  ASSUME NEW l \in Nat, NEW m \in {0, 1}, content \in Contents
  PROVE  /\ PutThere(l, m) \in Contents /\ TurnedDown(l, m) \in Contents
         /\ PutThere(l, m).bytes = content.bytes + l
         /\ PutThere(l, m).lostBytes = content.lostBytes
         /\ PutThere(l, m).msgs + PutThere(l, m).empty + PutThere(l, m).lostMsgs
              = content.msgs + content.empty + content.lostMsgs + m
         /\ TurnedDown(l, m).bytes = content.bytes
         /\ TurnedDown(l, m).lostBytes = content.lostBytes + l
         /\ TurnedDown(l, m).msgs + TurnedDown(l, m).empty + TurnedDown(l, m).lostMsgs
              = content.msgs + content.empty + content.lostMsgs + m
  <1>1. /\ content.bytes \in Nat /\ content.msgs \in Nat /\ content.empty \in Nat
        /\ content.lostBytes \in Nat /\ content.lostMsgs \in Nat
    BY DEF Contents
  <1> QED
    BY <1>1 DEF Contents, PutThere, TurnedDown

\* Every group starts from nothing.
LEMMA TxInit == Init => TxInv
  <1> SUFFICES ASSUME Init PROVE TxInv
    OBVIOUS
  <1>1. TypeOK
    <2>1. sent \in [len : Nat, num : Nat, traced : Nat, content : Contents]
      BY Zeros DEF Init
    <2>2. pc \in [Threads -> {"idle", "clear", "header", "alloc", "append", "end"}]
      BY DEF Init
    <2>3. todo \in [Threads -> 0 .. MaxMsgs]
      BY DEF Init, MaxMsgs
    <2> QED
      BY Zeros, <2>1, <2>2, <2>3 DEF Init, TypeOK
  <1>2. AssertsHold
    BY DEF Init, AssertsHold
  <1>3. GroupWhole
    BY DEF Init, GroupWhole, Nothing
  <1>4. \A t \in Threads : Fresh(t) /\ Agree(t) /\ Room(t)
    BY DEF Init, Fresh, Agree, Room, Before, Inside
  <1> QED
    BY <1>1, <1>2, <1>3, <1>4 DEF TxInv

\* A step of the only thread keeps context, header and link in agreement: one step
\* of the proof per function of macTx.c.
LEMMA TxStep == Alone /\ TxInv /\ [Next]_vars => TxInv'
  <1> SUFFICES ASSUME Alone, TxInv, [Next]_vars
               PROVE  TxInv'
    OBVIOUS
  <1> USE DEF TxInv, TypeOK, AssertsHold, GroupWhole, Fresh, Agree, Room,
              Before, Inside, At, Go
  <1>1. CASE UNCHANGED vars
    BY <1>1 DEF vars
  <1>2. ASSUME NEW t \in Threads, ThreadStep(t)
        PROVE  TxInv'
    <2>0. \A u \in Threads : u = t
      BY DEF Alone
    <2>a. /\ todo[t] \in 0 .. 3 /\ MaxMsgs = 3
          /\ Inside(t) => /\ used < Cap
                          /\ todo[t] > 0 => Cap - used > MaxLen
                          /\ todo[t] > 0 =>
                               used + MaxLen <= HdrLen + (MaxMsgs - (todo[t] - 1)) * MaxLen
      <3>1. todo[t] \in 0 .. MaxMsgs /\ used \in Nat
        OBVIOUS
      <3>2. Inside(t) => used <= HdrLen + (MaxMsgs - todo[t]) * MaxLen
        OBVIOUS
      <3> QED
        BY ONLY <3>1, <3>2, RoomLeft DEF MaxMsgs
    <2>1. CASE SendStart(t)
      BY <2>0, <2>1, Zeros DEF SendStart
    <2>2. CASE GrpClear(t)
      BY <2>0, <2>2, Zeros DEF GrpClear
    <2>3. CASE GrpHeader(t)
      <3>1. used = 0 /\ content = Nothing
        BY <2>3 DEF GrpHeader
      <3>2. \/ used' = 4 /\ content' = PutThere(4, 0)
            \/ used' = 0 /\ content' = TurnedDown(4, 0)
        BY <2>3, <3>1 DEF GrpHeader, CtrlSend, HdrLen
      <3>3. /\ content' \in Contents /\ used' = content'.bytes
            /\ content'.msgs + content'.empty + content'.lostMsgs = 0
            /\ used' + content'.lostBytes = 4
        <4>1. content \in Contents /\ content.bytes = 0 /\ content.lostBytes = 0
              /\ content.msgs + content.empty + content.lostMsgs = 0
          BY <3>1, Zeros DEF Nothing
        <4> QED
          BY ONLY <3>2, <4>1, Parts
      <3>4. /\ ctx' = [curMsgLen |-> 4, maxRemLen |-> Cap, totalLen |-> 4]
            /\ msgNum' = 0 /\ sent' = sent
        BY <2>3, <3>1, SizesAssumption DEF GrpHeader, HdrLen
      <3>5. Cap - used > 32
        BY <3>1, SizesAssumption
      <3>6. failed' = FALSE
        BY <2>3, <3>5 DEF GrpHeader
      <3>7. /\ todo' = todo
            /\ pc' = [pc EXCEPT ![t] = IF todo[t] = 0 THEN "end" ELSE "alloc"]
        BY <2>3 DEF GrpHeader, GoOn
      <3>8. ctx' \in Contexts /\ ctx'.totalLen = 4
        BY <3>4, Sizes DEF Contexts
      <3>9. used' \in Nat /\ used' <= 4
        BY <3>2
      <3>10. TypeOK'
        BY <3>3, <3>4, <3>6, <3>7, <3>8, <3>9
      <3>11. (Fresh(t) /\ Agree(t))'
        BY <3>3, <3>4, <3>7, <3>8
      <3>12. used' <= HdrLen + (MaxMsgs - todo'[t]) * MaxLen
        <4>1. (3 - todo[t]) * MaxLen >= 0
          BY <2>a, Sizes, SMT
        <4>2. (3 - todo[t]) * MaxLen \in Int
          BY <2>a, Sizes
        <4> QED
          BY <3>7, <3>9, <4>1, <4>2, <2>a DEF HdrLen
      <3>13. Room(t)'
        BY <3>7, <3>12, <2>a
      <3> QED
        BY <2>0, <3>4, <3>6, <3>10, <3>11, <3>13
    <2>4. CASE AllocMsg(t)
      <3>1. failed' = FALSE
        <4>1. Cap - used >= MsgHdrLen
          BY <2>4, <2>a, Sizes DEF AllocMsg, MsgHdrLen
        <4> QED
          BY <2>4, <4>1 DEF AllocMsg
      <3>2. ctx' = [curMsgLen |-> 0, maxRemLen |-> Cap - used, totalLen |-> ctx.totalLen]
        BY <2>4 DEF AllocMsg, LenAtAlloc
      <3>3. UNCHANGED <<todo, used, msgNum, content, sent>> /\ pc' = [pc EXCEPT ![t] = "append"]
        BY <2>4 DEF AllocMsg
      <3>4. Cap - used \in Nat /\ pc[t] = "alloc"
        BY <2>4, <2>a, Sizes DEF AllocMsg
      <3>5. /\ ctx' \in Contexts /\ ctx'.curMsgLen = 0 /\ ctx'.maxRemLen = Cap - used
            /\ ctx'.totalLen = ctx.totalLen
        <4>1. ctx \in Contexts
          OBVIOUS
        <4> QED
          BY ONLY <3>2, <3>4, <4>1 DEF Contexts
      <3>6. TypeOK'
        BY <3>1, <3>3, <3>5
      <3>7. (Fresh(t) /\ Agree(t) /\ Room(t))'
        BY <3>3, <3>4, <3>5
      <3> QED
        BY <2>0, <3>1, <3>3, <3>6, <3>7
    <2>5. CASE AppendMsg(t)
      <3>1. PICK l \in Lens :
              LET len == ctx.curMsgLen + l IN
              /\ ctx' = [curMsgLen |-> len, maxRemLen |-> ctx.maxRemLen,
                         totalLen |-> ctx.totalLen + l]
              /\ IF Enough(l)
                 THEN /\ CtrlSend(len, l, 1)
                      /\ msgNum' = msgNum + 1
                      /\ GoOn(t, todo[t] - 1)
                      /\ UNCHANGED failed
                 ELSE /\ failed' = TRUE
                      /\ UNCHANGED <<pc, todo, used, msgNum, content>>
        BY <2>5 DEF AppendMsg
      <3>2. pc[t] = "append" /\ ~failed /\ sent' = sent
        BY <2>5 DEF AppendMsg
      <3>3. /\ ctx.curMsgLen = 0 /\ ctx.maxRemLen = Cap - used /\ todo[t] \in 1 .. 3
            /\ used = content.bytes
            /\ msgNum = content.msgs + content.empty + content.lostMsgs
            /\ ctx.totalLen = used + content.lostBytes
        BY <3>2, <2>a
      <3>4. l \in Nat /\ l <= MaxLen /\ Cap - used > MaxLen
        BY <3>2, <3>3, <2>a, Sizes
      <3>5. ctx.curMsgLen + l = l /\ l < ctx.maxRemLen
        BY <3>3, <3>4, Sizes
      <3>6. /\ ctx' = [curMsgLen |-> l, maxRemLen |-> ctx.maxRemLen, totalLen |-> ctx.totalLen + l]
            /\ CtrlSend(l, l, 1)
            /\ msgNum' = msgNum + 1 /\ failed' = failed
            /\ todo' = [todo EXCEPT ![t] = todo[t] - 1]
            /\ pc' = [pc EXCEPT ![t] = IF todo[t] - 1 = 0 THEN "end" ELSE "alloc"]
        BY <3>1, <3>5 DEF Enough, GoOn
      <3>7. \/ used' = used + l /\ content' = PutThere(l, 1)
            \/ used' = used /\ content' = TurnedDown(l, 1)
        BY <3>6 DEF CtrlSend
      <3>8. /\ used' \in Nat /\ used' <= used + MaxLen
            /\ content' \in Contents /\ used' = content'.bytes
            /\ content'.msgs + content'.empty + content'.lostMsgs = msgNum + 1
            /\ used' + content'.lostBytes = ctx.totalLen + l
        <4>1. /\ used \in Nat /\ content \in Contents /\ content.lostBytes \in Nat
              /\ content.msgs \in Nat /\ content.empty \in Nat /\ content.lostMsgs \in Nat
          BY DEF Contents
        <4>2. /\ PutThere(l, 1) \in Contents /\ TurnedDown(l, 1) \in Contents
              /\ PutThere(l, 1).bytes = content.bytes + l
              /\ PutThere(l, 1).lostBytes = content.lostBytes
              /\ PutThere(l, 1).msgs + PutThere(l, 1).empty + PutThere(l, 1).lostMsgs
                   = content.msgs + content.empty + content.lostMsgs + 1
              /\ TurnedDown(l, 1).bytes = content.bytes
              /\ TurnedDown(l, 1).lostBytes = content.lostBytes + l
              /\ TurnedDown(l, 1).msgs + TurnedDown(l, 1).empty + TurnedDown(l, 1).lostMsgs
                   = content.msgs + content.empty + content.lostMsgs + 1
          BY ONLY <3>4, <4>1, Parts
        <4> QED
          BY ONLY <3>3, <3>4, <3>7, <4>1, <4>2, Sizes
      <3>9. todo[t] - 1 \in 0 .. MaxMsgs
        BY <3>3 DEF MaxMsgs
      <3>10. ctx' \in Contexts /\ ctx'.totalLen = ctx.totalLen + l
        <4>1. ctx \in Contexts /\ ctx.totalLen + l \in Nat
          BY <3>4 DEF Contexts
        <4> QED
          BY ONLY <3>4, <3>6, <4>1 DEF Contexts
      <3>11. TypeOK'
        BY <3>2, <3>6, <3>8, <3>9, <3>10
      <3>12. Agree(t)'
        BY <3>3, <3>6, <3>8, <3>10
      <3>13. used' <= HdrLen + (MaxMsgs - todo'[t]) * MaxLen
        <4>1. todo'[t] = todo[t] - 1
          BY <3>6
        <4>2. used + MaxLen <= HdrLen + (MaxMsgs - (todo[t] - 1)) * MaxLen
          BY <3>2, <3>3, <2>a
        <4>3. HdrLen + (MaxMsgs - (todo[t] - 1)) * MaxLen \in Int
          BY <3>3, Sizes DEF HdrLen, MaxMsgs
        <4>4. used \in Nat /\ MaxLen \in Nat
          BY Sizes
        <4> QED
          BY ONLY <3>8, <4>1, <4>2, <4>3, <4>4
      <3>14. (Fresh(t) /\ Room(t))'
        BY <3>3, <3>6, <3>13
      <3> QED
        BY <2>0, <3>2, <3>6, <3>11, <3>12, <3>14
    <2>6. CASE SendEnd(t)
      <3>1. /\ sent' = [len |-> used, num |-> msgNum, traced |-> ctx.totalLen,
                       content |-> content]
            /\ pc' = [pc EXCEPT ![t] = "idle"]
            /\ UNCHANGED <<todo, ctx, used, msgNum, failed, content>>
        BY <2>6 DEF SendEnd
      <3>2. ctx.totalLen \in Nat
        BY DEF Contexts
      <3>3. sent' \in [len : Nat, num : Nat, traced : Nat, content : Contents]
        BY <3>1, <3>2
      <3>4. GroupWhole'
        BY <2>6, <3>1 DEF SendEnd
      <3>5. TypeOK'
        BY <3>1, <3>3
      <3> QED
        BY <2>0, <3>1, <3>4, <3>5
    <2>7. CASE SendEndFail(t)
      BY <2>0, <2>7 DEF SendEndFail
    <2> QED
      BY <1>2, <2>1, <2>2, <2>3, <2>4, <2>5, <2>6, <2>7 DEF ThreadStep
  <1> QED
    BY <1>1, <1>2 DEF Next

\* One thread per context: TxInv is an invariant of the group builder.
THEOREM TxInvariance == ASSUME Alone PROVE Spec => []TxInv
  <1>1. TxInv /\ [Next]_vars => TxInv'
    BY TxStep
  <1> QED
    BY <1>1, TxInit, PTL DEF Spec

\* One thread per context: the groups handed to the PHY by END_L1_MSG_PROC hold what was
\* put into them, and count and trace that and the requests that were refused or of length 0.
THEOREM WholeGroups == ASSUME Alone PROVE Spec => []GroupWhole
  BY TxInvariance, PTL DEF TxInv

\* One thread per context: no ASSERT of macTx.c fails, however long the requests of a
\* group are.
THEOREM NoAssertFails == ASSUME Alone PROVE Spec => []AssertsHold
  BY TxInvariance, PTL DEF TxInv
=============================================================================
