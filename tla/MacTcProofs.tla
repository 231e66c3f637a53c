---------------------------- MODULE MacTcProofs ----------------------------
(***************************************************************************)
(* Proofs about MacCell, MacTc, which extends it with tables and times,    *)
(* and Console, from which the cells get their threads and commands.       *)
(*                                                                         *)
(* Part 1, MacCell, for any number of cells, commands, slots per test case *)
(* and groups, and with or without a link that loses requests: the state   *)
(* stays well-typed, a cell that waits is never forgotten, and a test case *)
(* does not run for more slots than it may.  TypeOK and WaitAnswered are   *)
(* inductive.  RunBounded is not: it says nothing of how far a case that   *)
(* still runs has come, which is what the next slot depends on.  SlotsInv  *)
(* relates the slots run to gSystemTtiNum.                                 *)
(*                                                                         *)
(* Part 2, MacTc, for any number of cells, cases, files, slots and frames: *)
(* its steps are steps of MacCell, so that what is proved there holds of   *)
(* it; the requests of a slot are for the second slot after the one        *)
(* indicated; and they are the ones of the case loaded last.  Neither      *)
(* property is inductive.  The invariant adds what the tables hold beside  *)
(* their sizes (Tables), and that a slot indication carries a time of the  *)
(* PHY's frames and finds a MAC that has a spacing (SlotInv), on its way   *)
(* through both queues: without a spacing the time computed from it would  *)
(* be outside the tables.                                                  *)
(*                                                                         *)
(* Part 3, Console, for any options, devices and reads: the cells asked    *)
(* for get their threads, and a line becomes the message its help          *)
(* describes.  The invariant follows the prefix of the options that was    *)
(* read (CellsAfter) and the devices that macInit has passed (Placed).     *)
(***************************************************************************)
EXTENDS MacTc, Console, FiniteSetTheorems, WellFoundedInduction, TLAPS

(***************************************************************************)
(* Part 1: the life cycle of a cell.                                       *)
(***************************************************************************)

\* While slots are scheduled, the slots run are bounded by the counter: in the
\* first runttiPerTc values of the counter (just started, or just wrapped) by the
\* counter and what was run before it wrapped, and later by the distance to the
\* last multiple of runttiPerTc, at which the case would have stopped.
SlotsBound(n, r) == IF n <= RunTti THEN r < n + RunTti ELSE r <= (n - 1) % RunTti

SlotsOf(c) ==
  /\ ttiNum[c] < TtiWrap
  /\ ttisRun[c] < 2 * RunTti
  /\ schState[c] = "SCH_NORMAL" => SlotsBound(ttiNum[c], ttisRun[c])

SlotsInv == RunTti # 0 => \A c \in Cells : SlotsOf(c)

-----------------------------------------------------------------------------
(***************************************************************************)
(* Division with remainder.                                                *)
(***************************************************************************)

\* What % and \div mean.
LEMMA Euclid ==
  \A n \in Nat, r \in Nat \ {0} :
    /\ n % r \in 0 .. r - 1
    /\ n \div r \in Nat
    /\ n = r * (n \div r) + (n % r)
  OBVIOUS

\* A larger factor makes a product larger by at least the other factor.
LEMMA ProductGrows == \A r, a, b \in Nat : a < b => r * a + r <= r * b
  <1> SUFFICES ASSUME NEW r \in Nat, NEW a \in Nat, NEW b \in Nat, a < b
               PROVE  r * a + r <= r * b
    OBVIOUS
  <1>1. PICK d \in Nat : b = a + 1 + d
    BY b - a - 1 \in Nat
  <1>2. r * b = r * a + r + r * d /\ r * d \in Nat
    BY <1>1
  <1> QED
    BY <1>2

\* There is only one remainder.
LEMMA RemainderUnique ==
  ASSUME NEW r \in Nat \ {0}, NEW q \in Nat, NEW s \in Nat,
         NEW a \in 0 .. r - 1, NEW b \in 0 .. r - 1,
         r * q + a = r * s + b
  PROVE  a = b
  <1>1. r * q \in Nat /\ r * s \in Nat
    OBVIOUS
  <1>2. CASE q < s
    <2>1. r * q + r <= r * s
      BY <1>2, ProductGrows
    <2> QED
      BY <1>1, <2>1
  <1>3. CASE s < q
    <2>1. r * s + r <= r * q
      BY <1>3, ProductGrows
    <2> QED
      BY <1>1, <2>1
  <1>4. CASE s = q
    BY <1>1, <1>4
  <1> QED
    BY <1>2, <1>3, <1>4

\* Counting up from anything but a multiple adds one to the remainder before it.
LEMMA RemainderBefore ==
  ASSUME NEW n \in Nat \ {0}, NEW r \in Nat \ {0}, n % r # 0
  PROVE  (n - 1) % r = (n % r) - 1
  <1> DEFINE q == n \div r   s == (n - 1) \div r   a == (n % r) - 1   b == (n - 1) % r
  <1>1. n = r * q + (a + 1) /\ q \in Nat /\ a \in 0 .. r - 1
    <2>1. n = r * q + (n % r) /\ q \in Nat /\ n % r \in 0 .. r - 1
      BY Euclid
    <2>2. r * q \in Nat
      BY <2>1
    <2> HIDE DEF q
    <2> QED
      BY <2>1, <2>2
  <1>2. n - 1 = r * s + b /\ s \in Nat /\ b \in 0 .. r - 1
    BY Euclid, n - 1 \in Nat
  <1> HIDE DEF q, s, a, b
  <1>3. r * q \in Nat /\ r * s \in Nat
    BY <1>1, <1>2
  <1>4. r * q + a = r * s + b
    BY <1>1, <1>2, <1>3
  <1>5. a = b
    BY <1>1, <1>2, <1>4, RemainderUnique
  <1> QED
    BY <1>5 DEF a, b

-----------------------------------------------------------------------------
(***************************************************************************)
(* Queues.                                                                 *)
(***************************************************************************)

\* What is appended joins what was there.
LEMMA RangeAppend ==
  ASSUME NEW S, NEW s \in Seq(S), NEW e \in S
  PROVE  Append(s, e) \in Seq(S) /\ SeqRange(Append(s, e)) = SeqRange(s) \cup {e}
  <1> DEFINE t == Append(s, e)
  <1>1. /\ t \in Seq(S) /\ DOMAIN s = 1 .. Len(s) /\ Len(s) \in Nat
        /\ DOMAIN t = 1 .. Len(s) + 1
        /\ \A i \in DOMAIN t : t[i] = IF i <= Len(s) THEN s[i] ELSE e
    OBVIOUS
  <1> HIDE DEF t
  <1>2. SeqRange(t) = SeqRange(s) \cup {e}
    BY <1>1 DEF SeqRange
  <1> QED
    BY <1>1, <1>2 DEF t

\* The same for several requests.
LEMMA RangeConcat ==
  ASSUME NEW S, NEW s \in Seq(S), NEW t \in Seq(S)
  PROVE  s \o t \in Seq(S) /\ SeqRange(s \o t) = SeqRange(s) \cup SeqRange(t)
  <1> DEFINE u == s \o t
  <1>1. /\ u \in Seq(S)
        /\ DOMAIN s = 1 .. Len(s) /\ Len(s) \in Nat
        /\ DOMAIN t = 1 .. Len(t) /\ Len(t) \in Nat
        /\ DOMAIN u = 1 .. Len(s) + Len(t)
        /\ \A i \in DOMAIN u : u[i] = IF i <= Len(s) THEN s[i] ELSE t[i - Len(s)]
    OBVIOUS
  <1>2. \A i \in DOMAIN t : i + Len(s) \in DOMAIN u /\ u[i + Len(s)] = t[i]
    BY <1>1
  <1> HIDE DEF u
  <1>3. SeqRange(u) = SeqRange(s) \cup SeqRange(t)
    BY <1>1, <1>2, SMTT(60) DEF SeqRange
  <1> QED
    BY <1>1, <1>3 DEF u

\* What is taken from a queue is its head.
LEMMA RangeTail ==
  ASSUME NEW S, NEW s \in Seq(S), s # <<>>
  PROVE  /\ Head(s) \in S /\ Tail(s) \in Seq(S)
         /\ SeqRange(s) = {Head(s)} \cup SeqRange(Tail(s))
  <1> DEFINE t == Tail(s)
  <1>1. /\ t \in Seq(S)
        /\ DOMAIN s = 1 .. Len(s) /\ Len(s) \in Nat \ {0}
        /\ DOMAIN t = 1 .. Len(s) - 1
        /\ \A i \in DOMAIN t : t[i] = s[i + 1]
        /\ Head(s) = s[1]
    OBVIOUS
  <1>2. \A i \in DOMAIN s : i = 1 \/ (i - 1 \in DOMAIN t /\ t[i - 1] = s[i])
    BY <1>1
  <1> HIDE DEF t
  <1>3. SeqRange(s) = {Head(s)} \cup SeqRange(t)
    BY <1>1, <1>2, SMTT(60) DEF SeqRange
  <1> QED
    BY <1>1, <1>3 DEF t

-----------------------------------------------------------------------------
(***************************************************************************)
(* Types.                                                                  *)
(***************************************************************************)

\* What is known of the constants, in the form the steps use it.
LEMMA Constants ==
  /\ Cells \subseteq 0 .. 1
  /\ CellNums \subseteq Nat
  /\ RunTti \in Nat /\ TtiWrap \in Nat \ {0} /\ RunTti < TtiWrap
  BY CellAssumption, CmdAssumption, BoundAssumption, WidthAssumption
  DEF Cells, MAC_MAX_CELL_NUM

\* The next value of gSystemTtiNum, wrapped or not.
LEMMA NextTti == \A n \in Nat : (n + 1) % TtiWrap \in 0 .. TtiWrap - 1
  BY Constants, Euclid

\* main's initialisation gives every variable a value of its type.
LEMMA TypeInit == Init => TypeOK
  <1> SUFFICES ASSUME Init PROVE TypeOK
    OBVIOUS
  <1>1. \A S : <<>> \in Seq(S)
    OBVIOUS
  <1> QED
    BY <1>1, Constants
    DEF Init, TypeOK, PhyStates, SchStates, NoJob, MAC_MAX_CELL_NUM

\* An indication added to the last group or to a new one leaves groups of
\* indications, and so do the requests that are sent and taken.
LEMMA EmitType ==
  ASSUME TypeOK, NEW c \in Cells, NEW msg \in Indications, Emit(c, msg)
  PROVE  fromPhy' \in [Cells -> Seq(Seq(Indications))]
  <1>1. fromPhy \in [Cells -> Seq(Seq(Indications))] /\ fromPhy[c] \in Seq(Seq(Indications))
    BY DEF TypeOK
  <1>2. <<msg>> \in Seq(Indications)
    OBVIOUS
  <1>3. CASE fromPhy' = [fromPhy EXCEPT ![c] = Append(@, <<msg>>)]
    BY <1>1, <1>2, <1>3
  <1>4. CASE /\ fromPhy[c] # <<>>
             /\ fromPhy' = [fromPhy EXCEPT ![c][Len(fromPhy[c])] = Append(@, msg)]
    <2> DEFINE f == fromPhy[c]   n == Len(f)   g == Append(f[n], msg)
    <2>1. n \in 1 .. Len(f) /\ f[n] \in Seq(Indications)
      BY <1>1, <1>4
    <2>2. g \in Seq(Indications)
      BY <2>1
    <2>3. [f EXCEPT ![n] = g] \in Seq(Seq(Indications))
      BY <1>1, <2>1, <2>2
    <2>4. fromPhy' = [fromPhy EXCEPT ![c] = [f EXCEPT ![n] = g]]
      BY <1>4
    <2> QED
      BY <1>1, <2>3, <2>4
  <1> QED
    BY <1>3, <1>4 DEF Emit

\* Every step of the main thread, of a cell's thread, of the PHY or of the link
\* keeps the types.
LEMMA TypeStep == TypeOK /\ [Next]_cellVars => TypeOK'
  <1> SUFFICES ASSUME TypeOK, [Next]_cellVars PROVE TypeOK'
    OBVIOUS
  <1> USE Constants DEF TypeOK, MAC_MAX_CELL_NUM, macVars, threadVars, phyVars
  <1>1. CASE UNCHANGED cellVars
    BY <1>1 DEF cellVars
  <1>2. ASSUME NEW c \in Cells, NEW m \in Cmd, IssueCmd(c, m)
        PROVE  TypeOK'
    <2>1. Append(appq[c], m) \in Seq(Cmd)
      OBVIOUS
    <2>2. appq' \in [Cells -> Seq(Cmd)] /\ nCmds' \in Nat
      BY <1>2, <2>1 DEF IssueCmd
    <2> QED
      BY <1>2, <2>2 DEF IssueCmd
  <1>3. ASSUME NEW c \in Cells, RtThread(c)
        PROVE  TypeOK'
    <2>1. \A d \in Cells : appq[d] # <<>> => Tail(appq[d]) \in Seq(Cmd) /\ Head(appq[d]) \in Cmd
      BY RangeTail
    <2>2. \A d \in Cells : rx[d] # <<>> =>
             Tail(rx[d]) \in Seq(Indications) /\ Head(rx[d]) \in Indications
      BY RangeTail
    <2>3. \A d \in Cells : \A reqs \in Seq(Requests) : toPhy[d] \o reqs \in Seq(Requests)
      OBVIOUS
    <2>4. /\ <<>> \in Seq(Requests) /\ <<"tti">> \in Seq(Requests)
          /\ <<"stop">> \in Seq(Requests) /\ <<"start">> \in Seq(Requests)
          /\ <<"config">> \in Seq(Requests) /\ <<"param", "config">> \in Seq(Requests)
      BY DEF Requests
    <2>5. {"PHY_IDLE", "PHY_CFG", "PHY_INIT", "PHY_ACTIVE"} = PhyStates
      BY DEF PhyStates
    <2>6. {"SCH_STOP", "SCH_NORMAL"} = SchStates
      BY DEF SchStates
    <2>7. NoJob \in [id : {"none", "TX_CASE", "TC_STOP"}, cell : 0 .. MAC_MAX_CELL_NUM]
      BY DEF NoJob
    <2>8. \A id \in {"TX_CASE", "TC_STOP"}, k \in 0 .. 2 :
            [id |-> id, cell |-> k] \in
               [id : {"none", "TX_CASE", "TC_STOP"}, cell : 0 .. MAC_MAX_CELL_NUM]
      OBVIOUS
    <2> USE DEF Receives, Send, SetJob, SetPhyState, SetSchState, Restart, Decodes
    <2>10. CASE AppTcConfigCase(c)
      BY <2>10, <2>1, <2>3, <2>4, <2>5 DEF AppTcConfigCase
    <2>11. CASE AppTcSingleCase(c)
      BY <2>11, <2>1, <2>3, <2>4 DEF AppTcSingleCase
    <2>12. CASE AppTxCase(c)
      <3>1. Head(appq[c]).cells \in Nat
        BY <2>12, <2>1 DEF AppTxCase, Cmd
      <3>2. cellNum' = NewCellNum(Head(appq[c]).cells) /\ cellNum \in 1 .. 2
        BY <2>12 DEF AppTxCase
      <3>3. \/ phyState' = phyState /\ toPhy' = [toPhy EXCEPT ![c] = @ \o <<"stop">>]
            \/ /\ phyState' = [phyState EXCEPT ![c] = "PHY_CFG"]
               /\ toPhy' = [toPhy EXCEPT ![c] = @ \o <<"config">>]
        BY <2>12 DEF AppTxCase
      <3>4. job' = [job EXCEPT ![c] = [id |-> "TX_CASE", cell |-> c]] /\ c \in 0 .. 2
        BY <2>12 DEF AppTxCase
      <3>5. appq' = [appq EXCEPT ![c] = Tail(@)] /\ appq[c] # <<>>
        BY <2>12 DEF AppTxCase
      <3>6. UNCHANGED <<schState, ttiNum, rx, phyVars, nCmds, lost, ttisRun>>
        BY <2>12 DEF AppTxCase
      <3>7. cellNum' \in 1 .. 2
        <4> HIDE DEF TypeOK
        <4> QED
          BY <3>1, <3>2 DEF NewCellNum
      <3>8. toPhy' \in [Cells -> Seq(Requests)] /\ phyState' \in [Cells -> PhyStates]
        <4>1. toPhy[c] \o <<"stop">> \in Seq(Requests) /\ toPhy[c] \o <<"config">> \in Seq(Requests)
          BY <2>3, <2>4
        <4>2. toPhy' \in [Cells -> Seq(Requests)]
          BY <3>3, <4>1, ZenonT(60)
        <4>3. phyState' \in [Cells -> PhyStates]
          BY <3>3, <2>5
        <4> QED
          BY <4>2, <4>3
      <3>9. job' \in [Cells -> [id : {"none", "TX_CASE", "TC_STOP"}, cell : 0 .. 2]]
        BY <3>4, <2>8
      <3> QED
        BY <2>1, <3>5, <3>6, <3>7, <3>8, <3>9
    <2>13. CASE AppTxCaseSched(c)
      BY <2>13, <2>6, <2>7 DEF AppTxCaseSched
    <2>14. CASE AppTcStop(c)
      BY <2>14, <2>1, <2>8, 0 \in 0 .. 2 DEF AppTcStop
    <2>15. CASE TcStopCell(c)
      <3> DEFINE k == job[c].cell
      <3>1. k \in Cells
        BY <2>15 DEF TcStopCell
      <3> HIDE DEF k
      <3>5. k + 1 \in 0 .. 2
        <4> HIDE DEF TypeOK
        <4> QED
          BY <3>1
      <3>2. job' = [job EXCEPT ![c] = [id |-> "TC_STOP", cell |-> k + 1]]
        BY <2>15 DEF TcStopCell, k
      <3>3. toPhy' = [toPhy EXCEPT ![k] = @ \o <<"stop">>]
        BY <2>15 DEF TcStopCell, k
      <3>4. schState' = [schState EXCEPT ![k] = "SCH_STOP"]
        BY <2>15 DEF TcStopCell, k
      <3> QED
        <4>1. job' \in [Cells -> [id : {"none", "TX_CASE", "TC_STOP"}, cell : 0 .. 2]]
          BY <2>8, <3>2, <3>5
        <4>2. toPhy' \in [Cells -> Seq(Requests)] /\ schState' \in [Cells -> SchStates]
          BY <2>3, <2>4, <2>6, <3>1, <3>3, <3>4
        <4> QED
          BY <2>15, <4>1, <4>2 DEF TcStopCell
    <2>16. CASE TcStopEnd(c)
      BY <2>16, <2>7 DEF TcStopEnd
    <2>17. CASE CtrlRecv(c)
      <3>1. Head(fromPhy[c]) \in Seq(Indications) /\ Tail(fromPhy[c]) \in Seq(Seq(Indications))
        BY <2>17, RangeTail DEF CtrlRecv
      <3> QED
        BY <2>17, <3>1 DEF CtrlRecv
    <2>18. CASE DecUnknown(c)
      <3>1. <<>> \in Seq(Indications)
        OBVIOUS
      <3> QED
        BY <2>18, <3>1 DEF DecUnknown
    <2>19. CASE DecConfigRsp(c)
      <3>1. toPhy' \in [Cells -> Seq(Requests)]
        <4>1. \/ toPhy' = toPhy
              \/ toPhy' = [toPhy EXCEPT ![c] = @ \o <<"start">>]
          BY <2>19 DEF DecConfigRsp
        <4>2. toPhy[c] \o <<"start">> \in Seq(Requests)
          BY <2>3, <2>4
        <4> QED
          BY <4>1, <4>2
      <3>3. phyState' \in [Cells -> PhyStates]
        BY <2>19, <2>5 DEF DecConfigRsp
      <3>2. rx' \in [Cells -> Seq(Indications)]
        BY <2>19, <2>2 DEF DecConfigRsp
      <3> QED
        BY <2>19, <3>1, <3>2, <3>3 DEF DecConfigRsp
    <2>20. CASE DecStopInd(c)
      BY <2>20, <2>2, <2>3, <2>4, <2>5 DEF DecStopInd
    <2>21. CASE DecErrorInd(c)
      BY <2>21, <2>2, <2>5 DEF DecErrorInd
    <2>22. CASE DecSlot(c)
      <3>1. ttiNum' \in [Cells -> Nat]
        <4>1. ttiNum[c] \in Nat /\ (ttiNum[c] + 1) % TtiWrap \in Nat /\ (0 + 1) % TtiWrap \in Nat
          BY NextTti
        <4> QED
          BY <2>22, <4>1 DEF DecSlot
      <3>2. ttisRun' \in [Cells -> Nat]
        <4>1. PICK on \in BOOLEAN, run \in {0, ttisRun[c]} :
                ttisRun' = [ttisRun EXCEPT ![c] = IF on THEN run + 1 ELSE run]
          <5> DEFINE starts == phyState[c] = "PHY_INIT"
                     n == IF starts THEN 0 ELSE ttiNum[c]
                     sch == IF starts THEN "SCH_NORMAL" ELSE schState[c]
                     schedules == phyState[c] \in {"PHY_INIT", "PHY_ACTIVE"} /\ ~SlotsUp(n) /\ sch # "SCH_STOP"
                     ran == IF starts THEN 0 ELSE ttisRun[c]
          <5>1. ttisRun' = [ttisRun EXCEPT ![c] = IF schedules /\ ran < 2 * RunTti THEN ran + 1 ELSE ran]
            BY <2>22 DEF DecSlot
          <5>2. ran \in {0, ttisRun[c]} /\ (schedules /\ ran < 2 * RunTti) \in BOOLEAN
            OBVIOUS
          <5> QED
            BY <5>1, <5>2
        <4>2. (IF on THEN run + 1 ELSE run) \in Nat
          OBVIOUS
        <4> QED
          BY <4>1, <4>2
      <3>3. schState' \in [Cells -> SchStates] /\ phyState' \in [Cells -> PhyStates]
        BY <2>22, <2>5, <2>6 DEF DecSlot
      <3>4. toPhy' \in [Cells -> Seq(Requests)] /\ rx' \in [Cells -> Seq(Indications)]
        BY <2>22, <2>2, <2>3, <2>4 DEF DecSlot
      <3> QED
        BY <2>22, <3>1, <3>2, <3>3, <3>4 DEF DecSlot
    <2> QED
      BY <1>3, <2>10, <2>11, <2>12, <2>13, <2>14, <2>15, <2>16, <2>17, <2>18, <2>19, <2>20,
         <2>21, <2>22 DEF RtThread
  <1>4. ASSUME NEW c \in Cells, PhyRequest(c)
        PROVE  TypeOK'
    <2>1. toPhy' \in [Cells -> Seq(Requests)]
      <3>1. toPhy[c] # <<>> => Tail(toPhy[c]) \in Seq(Requests)
        BY RangeTail
      <3> QED
        BY <1>4, <3>1
        DEF PhyRequest, PhyParam, PhyConfig, PhyStart, PhyStop, PhyTti, PhyTakes
    <2>2. fromPhy' \in [Cells -> Seq(Seq(Indications))]
      <3>1. {"paramRsp", "cfgOk", "cfgErr", "startOk", "startErr", "stopInd", "stopErr"}
              \subseteq Indications
        BY DEF Indications, Answers, CfgRsps, ErrorInds
      <3>2. \/ \E msg \in Indications : Emit(c, msg)
            \/ UNCHANGED fromPhy
        BY <1>4, <3>1 DEF PhyRequest, PhyParam, PhyConfig, PhyStart, PhyStop, PhyTti
      <3> QED
        BY <3>2, EmitType
    <2>3. l1' \in [Cells -> {"idle", "configured", "running"}]
      BY <1>4
      DEF PhyRequest, PhyParam, PhyConfig, PhyStart, PhyStop, PhyTti, BecomesL1
    <2> QED
      BY <1>4, <2>1, <2>2, <2>3 DEF PhyRequest
  <1>5. ASSUME NEW c \in Cells, PhySlot(c)
        PROVE  TypeOK'
    <2>1. fromPhy' \in [Cells -> Seq(Seq(Indications))]
      BY <1>5, EmitType DEF PhySlot, Indications
    <2> QED
      BY <1>5, <2>1 DEF PhySlot
  <1>6. ASSUME NEW c \in Cells, LinkLoses(c)
        PROVE  TypeOK'
    <2>1. toPhy[c] # <<>> => Tail(toPhy[c]) \in Seq(Requests)
      BY RangeTail
    <2> QED
      BY <1>6, <2>1 DEF LinkLoses
  <1> QED
    BY <1>1, <1>2, <1>3, <1>4, <1>5, <1>6 DEF Next

\* The state of the MAC's cells, of their queues and of the PHY keeps its types,
\* whatever commands are given and however the PHY answers (mac.c, mac_rx.c).
THEOREM CellTypes == Spec => []TypeOK
  BY TypeInit, TypeStep, PTL DEF Spec

-----------------------------------------------------------------------------
(***************************************************************************)
(* The slots of a test case.                                               *)
(***************************************************************************)

\* The counter after a slot.
LEMMA TtiSteps ==
  \A n \in 0 .. TtiWrap - 1 :
    (n + 1) % TtiWrap = IF n + 1 = TtiWrap THEN 0 ELSE n + 1
  BY Constants

\* One more slot, at a count at which macTxStartIndHandle does not stop the case.
LEMMA OneMoreSlot ==
  ASSUME RunTti # 0, NEW n \in 0 .. TtiWrap - 1, NEW r \in Nat, SlotsBound(n, r), ~SlotsUp(n)
  PROVE  r + 1 < 2 * RunTti /\ SlotsBound((n + 1) % TtiWrap, r + 1)
  <1>1. RunTti \in Nat \ {0} /\ TtiWrap \in Nat /\ RunTti < TtiWrap
    BY Constants
  <1>2. n % RunTti = 0 => n = 0
    BY <1>1 DEF SlotsUp
  <1>3. CASE n < RunTti
    <2>1. (n + 1) % TtiWrap = n + 1
      BY <1>1, <1>3, TtiSteps
    <2> QED
      BY <1>1, <1>3, <2>1 DEF SlotsBound
  <1>4. CASE n = RunTti
    <2>1. n % RunTti = 0
      BY <1>1, <1>4
    <2> QED
      BY <1>1, <1>2, <1>4, <2>1
  <1>5. CASE n > RunTti
    <2>1. n % RunTti # 0 /\ n \in Nat \ {0}
      BY <1>1, <1>2, <1>5
    <2>2. (n - 1) % RunTti = (n % RunTti) - 1
      BY <1>1, <2>1, RemainderBefore
    <2>3. n % RunTti \in 0 .. RunTti - 1
      BY <1>1, <2>1, Euclid
    <2>4. r + 1 <= n % RunTti
      BY <1>1, <1>5, <2>2, <2>3 DEF SlotsBound
    <2>5. CASE n + 1 = TtiWrap
      <3>1. (n + 1) % TtiWrap = 0
        BY <2>5, TtiSteps
      <3> QED
        BY <1>1, <2>3, <2>4, <3>1 DEF SlotsBound
    <2>6. CASE n + 1 # TtiWrap
      <3>1. (n + 1) % TtiWrap = n + 1
        BY <2>6, TtiSteps
      <3>2. (n + 1) - 1 = n /\ ~(n + 1 <= RunTti)
        BY <1>1, <1>5
      <3> QED
        BY <1>1, <2>3, <2>4, <3>1, <3>2 DEF SlotsBound
    <2> QED
      BY <2>5, <2>6
  <1> QED
    BY <1>1, <1>3, <1>4, <1>5

\* No slot has been run at first.
LEMMA SlotsInit == Init => SlotsInv
  BY Constants DEF Init, SlotsInv, SlotsOf, SlotsBound

\* What a slot indication does to the counter, to the schedule and to the slots run.
LEMMA SlotStep ==
  ASSUME TypeOK, RunTti # 0, NEW c \in Cells, SlotsOf(c), DecSlot(c)
  PROVE  SlotsOf(c)'
  <1> DEFINE starts == phyState[c] = "PHY_INIT"
             active == phyState[c] \in {"PHY_INIT", "PHY_ACTIVE"}
             n == IF starts THEN 0 ELSE ttiNum[c]
             sch == IF starts THEN "SCH_NORMAL" ELSE schState[c]
             run == IF starts THEN 0 ELSE ttisRun[c]
             schedules == active /\ ~SlotsUp(n) /\ sch # "SCH_STOP"
  <1>1. RunTti \in Nat \ {0} /\ TtiWrap \in Nat \ {0} /\ RunTti < TtiWrap
    BY Constants
  <1>2. /\ ttiNum[c] \in Nat /\ ttisRun[c] \in Nat
        /\ schState[c] \in {"SCH_STOP", "SCH_NORMAL"}
    BY DEF TypeOK, SchStates
  <1>3. /\ ttiNum'[c] = IF active THEN (n + 1) % TtiWrap ELSE n
        /\ schState'[c] = IF active /\ SlotsUp(n) THEN "SCH_STOP" ELSE sch
        /\ ttisRun'[c] = IF schedules /\ run < 2 * RunTti THEN run + 1 ELSE run
    BY DEF DecSlot, SetSchState, TypeOK
  <1>4. /\ n \in 0 .. TtiWrap - 1 /\ run \in Nat /\ run < 2 * RunTti
        /\ sch \in {"SCH_STOP", "SCH_NORMAL"}
        /\ sch = "SCH_NORMAL" => SlotsBound(n, run)
    BY <1>1, <1>2 DEF SlotsOf, SlotsBound
  <1>5. starts => active
    OBVIOUS
  <1> HIDE DEF starts, active, n, sch, run
  <1>6. (n + 1) % TtiWrap \in 0 .. TtiWrap - 1
    BY <1>4, NextTti
  <1>7. CASE schedules
    <2>1. /\ ttiNum'[c] = (n + 1) % TtiWrap
          /\ ttisRun'[c] = run + 1
      BY <1>3, <1>4, <1>7
    <2>2. run + 1 < 2 * RunTti /\ SlotsBound((n + 1) % TtiWrap, run + 1)
      BY <1>4, <1>7, OneMoreSlot
    <2> QED
      BY <1>1, <1>6, <2>1, <2>2 DEF SlotsOf
  <1>8. CASE active /\ ~schedules
    <2>1. schState'[c] = "SCH_STOP" /\ ttisRun'[c] = run /\ ttiNum'[c] = (n + 1) % TtiWrap
      BY <1>3, <1>8
    <2> QED
      BY <1>1, <1>4, <1>6, <2>1 DEF SlotsOf
  <1>9. CASE ~active
    <2>1. schState'[c] = sch /\ ttisRun'[c] = run /\ ttiNum'[c] = n
      BY <1>3, <1>9
    <2> QED
      BY <1>1, <1>4, <2>1 DEF SlotsOf
  <1> QED
    BY <1>7, <1>8, <1>9

\* The relation between the slots run and the counter is kept by every step.
LEMMA SlotsStep == TypeOK /\ SlotsInv /\ [Next]_cellVars => SlotsInv'
  <1> SUFFICES ASSUME TypeOK, SlotsInv, [Next]_cellVars, RunTti # 0, NEW d \in Cells
               PROVE  SlotsOf(d)'
    BY DEF SlotsInv
  <1>1. SlotsOf(d)
    BY DEF SlotsInv
  <1>2. /\ ttiNum \in [Cells -> Nat] /\ ttisRun \in [Cells -> Nat]
        /\ schState \in [Cells -> SchStates] /\ RunTti \in Nat \ {0} /\ TtiWrap \in Nat
    BY Constants DEF TypeOK
  <1>3. CASE UNCHANGED <<ttiNum, ttisRun, schState>>
    BY <1>1, <1>3 DEF SlotsOf
  <1>4. ASSUME NEW c \in Cells, AppTxCaseSched(c)
        PROVE  SlotsOf(d)'
    <2>1. /\ ttiNum' = ttiNum /\ schState' = [schState EXCEPT ![c] = "SCH_NORMAL"]
          /\ ttisRun' = [ttisRun EXCEPT ![c] = 0]
      BY <1>4 DEF AppTxCaseSched, SetSchState, Restart
    <2>2. CASE c = d
      <3>1. ttisRun'[d] = 0 /\ ttiNum'[d] = ttiNum[d] /\ ttiNum[d] \in Nat
        BY <1>2, <2>1, <2>2
      <3>2. ASSUME ~(ttiNum[d] <= RunTti) PROVE (ttiNum[d] - 1) % RunTti \in Nat
        <4>1. PICK m \in Nat : m = ttiNum[d] - 1
          BY <1>2, <3>1, <3>2
        <4>2. m % RunTti \in 0 .. RunTti - 1
          BY <1>2, Euclid
        <4> QED
          BY <1>2, <4>1, <4>2
      <3> QED
        BY <1>1, <1>2, <3>1, <3>2 DEF SlotsOf, SlotsBound
    <2>3. CASE c # d
      BY <1>1, <1>2, <2>1, <2>3 DEF SlotsOf
    <2> QED
      BY <2>2, <2>3
  <1>5. ASSUME NEW c \in Cells, TcStopCell(c)
        PROVE  SlotsOf(d)'
    <2>1. PICK k \in Cells : schState' = [schState EXCEPT ![k] = "SCH_STOP"]
      BY <1>5 DEF TcStopCell, SetSchState
    <2>2. ttiNum' = ttiNum /\ ttisRun' = ttisRun
      BY <1>5 DEF TcStopCell
    <2>3. schState'[d] = schState[d] \/ schState'[d] = "SCH_STOP"
      BY <1>2, <2>1
    <2> QED
      BY <1>1, <2>2, <2>3 DEF SlotsOf
  <1>6. ASSUME NEW c \in Cells, DecSlot(c)
        PROVE  SlotsOf(d)'
    <2>1. CASE c = d
      BY <1>1, <1>6, <2>1, SlotStep
    <2>2. CASE c # d
      <3>1. ttiNum'[d] = ttiNum[d] /\ ttisRun'[d] = ttisRun[d] /\ schState'[d] = schState[d]
        BY <1>2, <1>6, <2>2 DEF DecSlot, SetSchState
      <3> QED
        BY <1>1, <3>1 DEF SlotsOf
    <2> QED
      BY <2>1, <2>2
  <1>7. ASSUME NEW c \in Cells,
               \/ \E m \in Cmd : IssueCmd(c, m)
               \/ AppTcConfigCase(c) \/ AppTcSingleCase(c) \/ AppTxCase(c) \/ AppTcStop(c)
               \/ TcStopEnd(c) \/ CtrlRecv(c) \/ DecUnknown(c) \/ DecConfigRsp(c)
               \/ DecStopInd(c) \/ DecErrorInd(c) \/ PhyRequest(c) \/ PhySlot(c) \/ LinkLoses(c)
        PROVE  UNCHANGED <<ttiNum, ttisRun, schState>>
    BY <1>7
    DEF IssueCmd, AppTcConfigCase, AppTcSingleCase, AppTxCase, AppTcStop, TcStopEnd, CtrlRecv,
        DecUnknown, DecConfigRsp, DecStopInd, DecErrorInd, PhyRequest, PhySlot, LinkLoses,
        macVars
  <1>8. CASE UNCHANGED cellVars
    BY <1>3, <1>8 DEF cellVars, macVars
  <1> QED
    BY <1>3, <1>4, <1>5, <1>6, <1>7, <1>8 DEF Next, RtThread

\* A test case that wraps the counter runs fewer than twice its slots, any other no
\* more than its slots.
LEMMA SlotsBounded == TypeOK /\ SlotsInv => RunBounded
  <1> SUFFICES ASSUME TypeOK, SlotsInv, RunTti # 0, NEW c \in Cells
               PROVE  \/ ttisRun[c] <= RunTti
                      \/ /\ ttisRun[c] < 2 * RunTti
                         /\ schState[c] = "SCH_NORMAL" => ttiNum[c] < ttisRun[c]
    BY DEF RunBounded
  <1>1. ttiNum[c] \in Nat /\ ttisRun[c] \in Nat /\ RunTti \in Nat \ {0}
    BY Constants DEF TypeOK
  <1>2. ~(ttiNum[c] <= RunTti) => (ttiNum[c] - 1) % RunTti \in 0 .. RunTti - 1
    <2> SUFFICES ASSUME ~(ttiNum[c] <= RunTti)
                 PROVE  (ttiNum[c] - 1) % RunTti \in 0 .. RunTti - 1
      OBVIOUS
    <2>1. ttiNum[c] - 1 \in Nat
      BY <1>1
    <2> QED
      BY <1>1, <2>1, Euclid
  <1> QED
    BY <1>1, <1>2 DEF SlotsInv, SlotsOf, SlotsBound

\* A test case gets no more slots than runttiPerTc allows, and fewer than twice as
\* many where gSystemTtiNum wraps within it, for every limit that fits the counter's
\* width and however commands, stops of other cells and late slots interleave
\* (macTxStartIndHandle, APP_TX_CASE, APP_TC_STOP).
THEOREM CaseSlots == Spec => []RunBounded
  <1>1. TypeOK /\ SlotsInv /\ [Next]_cellVars => TypeOK' /\ SlotsInv'
    BY TypeStep, SlotsStep
  <1> QED
    BY <1>1, TypeInit, SlotsInit, SlotsBounded, PTL DEF Spec

-----------------------------------------------------------------------------
(***************************************************************************)
(* A waiting cell is not forgotten.                                        *)
(***************************************************************************)

\* What keeps a cell's wait from being forgotten: WaitAnswered for one cell.
CfgComing(c) == "config" \in SeqRange(toPhy[c]) \/ Incoming(c) \cap CfgRsps # {}
StartComing(c) ==
  \/ "start" \in SeqRange(toPhy[c])
  \/ l1[c] = "running"
  \/ Incoming(c) \cap (ErrorInds \cup {"stopInd"}) # {}
WaitOf(c) ==
  /\ phyState[c] = "PHY_CFG" => CfgComing(c)
  /\ phyState[c] = "PHY_INIT" => StartComing(c)

\* A step that leaves a cell's state alone, drops none of its requests and none of its
\* answers, and does not stop its PHY leaves what it waits for.
LEMMA WaitKept ==
  ASSUME NEW c \in Cells, WaitOf(c), phyState'[c] = phyState[c],
         SeqRange(toPhy[c]) \subseteq SeqRange(toPhy'[c]),
         Incoming(c) \cap Answers \subseteq Incoming(c)',
         l1[c] = "running" => l1'[c] = "running"
  PROVE  WaitOf(c)'
  BY DEF WaitOf, CfgComing, StartComing, Answers

\* The indications under way after one is emitted.
LEMMA EmitIncoming ==
  ASSUME TypeOK, NEW c \in Cells, NEW msg \in Indications, Emit(c, msg), UNCHANGED rx
  PROVE  /\ \A d \in Cells : Incoming(d) \subseteq Incoming(d)'
         /\ msg \in Incoming(c)'
  <1>1. fromPhy \in [Cells -> Seq(Seq(Indications))] /\ fromPhy[c] \in Seq(Seq(Indications))
    BY DEF TypeOK
  <1>2. \A d \in Cells : d # c => fromPhy'[d] = fromPhy[d]
    BY <1>1 DEF Emit
  <1>3. \A d \in Cells : d # c => Incoming(d)' = Incoming(d)
    BY <1>2 DEF Incoming
  <1> DEFINE f == fromPhy[c]
  <1>4. CASE fromPhy' = [fromPhy EXCEPT ![c] = Append(@, <<msg>>)]
    <2>1. <<msg>> \in Seq(Indications) /\ SeqRange(<<msg>>) = {msg}
      BY DEF SeqRange
    <2>2. fromPhy'[c] = Append(f, <<msg>>)
      BY <1>1, <1>4
    <2>3. SeqRange(fromPhy'[c]) = SeqRange(f) \cup {<<msg>>}
      <3> DEFINE e == <<msg>>
      <3>1. e \in Seq(Indications) /\ fromPhy'[c] = Append(f, e) /\ f \in Seq(Seq(Indications))
        BY <1>1, <2>1, <2>2
      <3> HIDE DEF e, f
      <3>2. SeqRange(fromPhy'[c]) = SeqRange(f) \cup {e}
        BY <3>1, RangeAppend
      <3> QED
        BY <3>2 DEF e, f
    <2> QED
      BY <1>3, <2>1, <2>3 DEF Incoming
  <1>5. CASE /\ fromPhy[c] # <<>>
             /\ fromPhy' = [fromPhy EXCEPT ![c][Len(fromPhy[c])] = Append(@, msg)]
    <2> DEFINE n == Len(f)   g == Append(f[n], msg)
    <2>1. n \in DOMAIN f /\ f[n] \in Seq(Indications)
      BY <1>1, <1>5
    <2>2. SeqRange(g) = SeqRange(f[n]) \cup {msg}
      BY <2>1, RangeAppend
    <2>3. fromPhy'[c] = [f EXCEPT ![n] = g]
      BY <1>1, <1>5
    <2> HIDE DEF n, g
    <2>4. g \in SeqRange(fromPhy'[c])
      BY <2>1, <2>3 DEF SeqRange
    <2>5. \A h \in SeqRange(f) : h = f[n] \/ h \in SeqRange(fromPhy'[c])
      BY <2>1, <2>3 DEF SeqRange
    <2>6. msg \in Incoming(c)'
      BY <2>2, <2>4 DEF Incoming
    <2>7. Incoming(c) \subseteq Incoming(c)'
      BY <2>2, <2>4, <2>5 DEF Incoming
    <2> QED
      BY <1>3, <2>6, <2>7
  <1> QED
    BY <1>4, <1>5 DEF Emit

\* What is still under way once an indication has been decoded.
LEMMA DecodeIncoming ==
  ASSUME TypeOK, NEW c \in Cells, NEW inds, Decodes(c, inds), UNCHANGED fromPhy
  PROVE  /\ Head(rx[c]) \in inds
         /\ Incoming(c) \subseteq {Head(rx[c])} \cup Incoming(c)'
         /\ \A d \in Cells \ {c} : Incoming(d)' = Incoming(d)
  <1>1. rx \in [Cells -> Seq(Indications)] /\ rx[c] # <<>> /\ rx' = [rx EXCEPT ![c] = Tail(@)]
    BY DEF TypeOK, Decodes
  <1>2. SeqRange(rx[c]) = {Head(rx[c])} \cup SeqRange(rx'[c])
    BY <1>1, RangeTail
  <1>3. \A d \in Cells \ {c} : rx'[d] = rx[d]
    BY <1>1
  <1> QED
    BY <1>2, <1>3 DEF Decodes, Incoming

\* What is on its way to the PHY once requests are sent.
LEMMA SendRange ==
  ASSUME TypeOK, NEW k \in Cells, NEW reqs \in Seq(Requests), Send(k, reqs)
  PROVE  /\ \A d \in Cells : SeqRange(toPhy[d]) \subseteq SeqRange(toPhy'[d])
         /\ SeqRange(reqs) \subseteq SeqRange(toPhy'[k])
  <1>1. toPhy \in [Cells -> Seq(Requests)] /\ toPhy' = [toPhy EXCEPT ![k] = @ \o reqs]
    BY DEF TypeOK, Send
  <1>2. SeqRange(toPhy'[k]) = SeqRange(toPhy[k]) \cup SeqRange(reqs)
    BY <1>1, RangeConcat
  <1>3. \A d \in Cells \ {k} : toPhy'[d] = toPhy[d]
    BY <1>1
  <1> QED
    BY <1>2, <1>3

\* What is on its way to the PHY once it has taken a request.
LEMMA TakeRange ==
  ASSUME TypeOK, NEW c \in Cells, NEW req, PhyTakes(c, req)
  PROVE  /\ SeqRange(toPhy[c]) \subseteq {req} \cup SeqRange(toPhy'[c])
         /\ \A d \in Cells \ {c} : toPhy'[d] = toPhy[d]
  <1>1. /\ toPhy \in [Cells -> Seq(Requests)] /\ toPhy[c] # <<>> /\ Head(toPhy[c]) = req
        /\ toPhy' = [toPhy EXCEPT ![c] = Tail(@)]
    BY DEF TypeOK, PhyTakes
  <1>2. SeqRange(toPhy[c]) = {req} \cup SeqRange(toPhy'[c])
    BY <1>1, RangeTail
  <1> QED
    BY <1>1, <1>2

\* WaitAnswered cell by cell.
LEMMA WaitByCell == WaitAnswered <=> \A c \in Cells \ lost : WaitOf(c)
  BY DEF WaitAnswered, WaitOf, CfgComing, StartComing

\* No cell waits at first.
LEMMA WaitInit == Init => WaitAnswered
  BY DEF Init, WaitAnswered

\* The handlers of commands: they add requests, and a cell they put into PHY_CFG has its
\* configuration sent.
LEMMA WaitCommand ==
  ASSUME TypeOK, NEW c \in Cells, NEW d \in Cells, WaitOf(d),
         \/ AppTcConfigCase(c) \/ AppTcSingleCase(c) \/ AppTxCase(c) \/ AppTxCaseSched(c)
         \/ AppTcStop(c) \/ TcStopCell(c) \/ TcStopEnd(c)
  PROVE  WaitOf(d)'
  <1>1. UNCHANGED <<rx, fromPhy, l1>>
    BY DEF AppTcConfigCase, AppTcSingleCase, AppTxCase, AppTxCaseSched, AppTcStop, TcStopCell,
           TcStopEnd, phyVars
  <1>2. Incoming(d)' = Incoming(d)
    BY <1>1 DEF Incoming
  <1>3. phyState \in [Cells -> PhyStates]
    BY DEF TypeOK
  <1>4. /\ <<"tti">> \in Seq(Requests) /\ <<"stop">> \in Seq(Requests)
        /\ <<"config">> \in Seq(Requests) /\ <<"param", "config">> \in Seq(Requests)
    BY DEF Requests
  <1>5. "config" \in SeqRange(<<"config">>) /\ "config" \in SeqRange(<<"param", "config">>)
    <2>1. <<"config">>[1] = "config" /\ 1 \in DOMAIN <<"config">>
      OBVIOUS
    <2>2. <<"param", "config">>[2] = "config" /\ 2 \in DOMAIN <<"param", "config">>
      OBVIOUS
    <2> QED
      BY <2>1, <2>2 DEF SeqRange
  <1>6. CASE UNCHANGED <<phyState, toPhy>>
    BY <1>1, <1>2, <1>6, WaitKept
  <1>7. ASSUME NEW k \in Cells, Send(k, <<"tti">>) \/ Send(k, <<"stop">>), UNCHANGED phyState
        PROVE  WaitOf(d)'
    <2>1. SeqRange(toPhy[d]) \subseteq SeqRange(toPhy'[d])
      BY <1>4, <1>7, SendRange
    <2> QED
      BY <1>1, <1>2, <1>7, <2>1, WaitKept
  <1>8. ASSUME NEW reqs \in Seq(Requests), "config" \in SeqRange(reqs), Send(c, reqs),
               SetPhyState(c, "PHY_CFG")
        PROVE  WaitOf(d)'
    <2>1. /\ SeqRange(toPhy[d]) \subseteq SeqRange(toPhy'[d])
          /\ "config" \in SeqRange(toPhy'[c])
      BY <1>8, SendRange
    <2>2. CASE d = c
      <3>1. phyState'[d] = "PHY_CFG"
        BY <1>3, <1>8, <2>2 DEF SetPhyState
      <3> QED
        BY <2>1, <2>2, <3>1 DEF WaitOf, CfgComing
    <2>3. CASE d # c
      <3>1. phyState'[d] = phyState[d]
        BY <1>3, <1>8, <2>3 DEF SetPhyState
      <3> QED
        BY <1>1, <1>2, <2>1, <3>1, WaitKept
    <2> QED
      BY <2>2, <2>3
  <1>9. CASE AppTcConfigCase(c)
    BY <1>4, <1>5, <1>8, <1>9 DEF AppTcConfigCase
  <1>10. CASE AppTcSingleCase(c)
    BY <1>7, <1>10 DEF AppTcSingleCase, macVars
  <1>11. CASE AppTxCase(c)
    <2>1. \/ Send(c, <<"stop">>) /\ UNCHANGED phyState
          \/ Send(c, <<"config">>) /\ SetPhyState(c, "PHY_CFG")
      BY <1>11 DEF AppTxCase
    <2> QED
      BY <1>4, <1>5, <1>7, <1>8, <2>1
  <1>12. CASE TcStopCell(c)
    BY <1>7, <1>12 DEF TcStopCell
  <1>13. CASE AppTxCaseSched(c) \/ AppTcStop(c) \/ TcStopEnd(c)
    BY <1>6, <1>13 DEF AppTxCaseSched, AppTcStop, TcStopEnd, macVars
  <1> QED
    BY <1>9, <1>10, <1>11, <1>12, <1>13

\* The handlers of indications: the state they leave the cell in waits for what they send,
\* or for nothing.
LEMMA WaitDecode ==
  ASSUME TypeOK, NEW c \in Cells, NEW d \in Cells, WaitOf(d),
         DecConfigRsp(c) \/ DecStopInd(c) \/ DecErrorInd(c) \/ DecSlot(c)
  PROVE  WaitOf(d)'
  <1> USE DEF DecConfigRsp, DecStopInd, DecErrorInd, DecSlot
  <1>1. UNCHANGED <<fromPhy, l1>>
    BY DEF phyVars
  <1>2. \E inds : Decodes(c, inds)
    OBVIOUS
  <1>3. \A k \in Cells \ {c} : Incoming(k)' = Incoming(k)
    BY <1>1, <1>2, DecodeIncoming
  <1>4. phyState \in [Cells -> PhyStates]
    BY DEF TypeOK
  <1>5. PICK reqs \in Seq(Requests) : Send(c, reqs)
    <2>1. /\ <<>> \in Seq(Requests) /\ <<"start">> \in Seq(Requests) /\ <<"config">> \in Seq(Requests)
          /\ <<"stop">> \in Seq(Requests) /\ <<"tti">> \in Seq(Requests)
      BY DEF Requests
    <2>2. UNCHANGED toPhy => Send(c, <<>>)
      <3>1. toPhy \in [Cells -> Seq(Requests)] /\ toPhy[c] \o <<>> = toPhy[c]
        BY DEF TypeOK
      <3> QED
        BY <3>1 DEF Send
    <2> QED
      BY <2>1, <2>2
  <1>6. \A k \in Cells : SeqRange(toPhy[k]) \subseteq SeqRange(toPhy'[k])
    BY <1>5, SendRange
  <1>7. PICK s : phyState' = [phyState EXCEPT ![c] = s]
    BY DEF SetPhyState
  <1>8. CASE d # c
    BY <1>1, <1>3, <1>4, <1>6, <1>7, <1>8, WaitKept
  <1>9. CASE d = c
    <2>1. CASE DecConfigRsp(c)
      <3>1. CASE Head(rx[c]) = "cfgOk"
        <4>1. phyState'[c] = "PHY_INIT" /\ Send(c, <<"start">>)
          BY <1>4, <2>1, <3>1 DEF SetPhyState
        <4>2. <<"start">> \in Seq(Requests) /\ "start" \in SeqRange(<<"start">>)
          BY DEF Requests, SeqRange
        <4>3. "start" \in SeqRange(toPhy'[c])
          BY <4>1, <4>2, SendRange
        <4> QED
          BY <1>9, <4>1, <4>3 DEF WaitOf, StartComing
      <3>2. CASE Head(rx[c]) # "cfgOk"
        <4>1. phyState'[c] = "PHY_IDLE"
          BY <1>4, <2>1, <3>2 DEF SetPhyState
        <4> QED
          BY <1>9, <4>1 DEF WaitOf
      <3> QED
        BY <3>1, <3>2
    <2>2. CASE DecStopInd(c)
      <3>1. phyState'[c] = "PHY_CFG" /\ Send(c, <<"config">>)
        BY <1>4, <2>2 DEF SetPhyState
      <3>2. <<"config">> \in Seq(Requests) /\ "config" \in SeqRange(<<"config">>)
        BY DEF Requests, SeqRange
      <3>3. "config" \in SeqRange(toPhy'[c])
        BY <3>1, <3>2, SendRange
      <3> QED
        BY <1>9, <3>1, <3>3 DEF WaitOf, CfgComing
    <2>3. CASE DecErrorInd(c) \/ DecSlot(c)
      <3>1. phyState'[c] \in {"PHY_ACTIVE", "PHY_IDLE"}
        BY <1>4, <2>3 DEF SetPhyState
      <3> QED
        BY <1>9, <3>1 DEF WaitOf
    <2> QED
      BY <2>1, <2>2, <2>3
  <1> QED
    BY <1>8, <1>9

\* The PHY: it answers the configuration or the start it takes, and its own stop.
LEMMA WaitPhy ==
  ASSUME TypeOK, NEW c \in Cells, NEW d \in Cells, WaitOf(d), PhyRequest(c)
  PROVE  WaitOf(d)'
  <1>1. UNCHANGED <<phyState, rx>>
    BY DEF PhyRequest, macVars, threadVars
  <1>2. l1 \in [Cells -> {"idle", "configured", "running"}] /\ fromPhy \in [Cells -> Seq(Seq(Indications))]
    BY DEF TypeOK
  <1>3. /\ {"paramRsp", "cfgOk", "cfgErr", "startOk", "startErr", "stopInd", "stopErr"}
             \subseteq Indications
        /\ {"cfgOk", "cfgErr"} = CfgRsps /\ {"startOk", "startErr", "stopErr"} = ErrorInds
    BY DEF Indications, Answers, CfgRsps, ErrorInds
  <1>4. UNCHANGED fromPhy \/ \E msg \in Indications : Emit(c, msg)
    BY <1>3 DEF PhyRequest, PhyParam, PhyConfig, PhyStart, PhyStop, PhyTti, phyVars
  <1>5. \A k \in Cells : Incoming(k) \subseteq Incoming(k)'
    <2>1. CASE UNCHANGED fromPhy
      BY <1>1, <2>1 DEF Incoming
    <2>2. CASE \E msg \in Indications : Emit(c, msg)
      BY <1>1, <2>2, EmitIncoming
    <2> QED
      BY <1>4, <2>1, <2>2
  <1>6. \E req \in Requests : PhyTakes(c, req)
    BY DEF PhyRequest, PhyParam, PhyConfig, PhyStart, PhyStop, PhyTti, Requests
  <1>7. CASE d # c
    <2>1. toPhy'[d] = toPhy[d]
      BY <1>6, <1>7, TakeRange
    <2>2. l1'[d] = l1[d]
      BY <1>2, <1>7
      DEF PhyRequest, PhyParam, PhyConfig, PhyStart, PhyStop, PhyTti, BecomesL1, phyVars
    <2> QED
      BY <1>1, <1>5, <2>1, <2>2, WaitKept
  <1>8. CASE d = c
    <2>1. CASE PhyParam(c) \/ PhyTti(c)
      <3>1. PICK req \in {"param", "tti"} : PhyTakes(c, req)
        BY <2>1 DEF PhyParam, PhyTti
      <3>2. SeqRange(toPhy[c]) \subseteq {req} \cup SeqRange(toPhy'[c])
        BY <3>1, TakeRange
      <3>3. UNCHANGED l1
        BY <2>1 DEF PhyParam, PhyTti, phyVars
      <3> QED
        BY <1>1, <1>5, <1>8, <3>2, <3>3 DEF WaitOf, CfgComing, StartComing
    <2>2. CASE PhyConfig(c)
      <3>1. SeqRange(toPhy[c]) \subseteq {"config"} \cup SeqRange(toPhy'[c])
        BY <2>2, TakeRange DEF PhyConfig
      <3>2. Emit(c, "cfgOk") \/ Emit(c, "cfgErr")
        BY <2>2 DEF PhyConfig
      <3>3. Incoming(c)' \cap CfgRsps # {}
        BY <1>1, <1>3, <3>2, EmitIncoming
      <3>4. l1[c] = "running" => l1'[c] = "running"
        BY <1>2, <2>2 DEF PhyConfig, BecomesL1
      <3> QED
        BY <1>1, <1>5, <1>8, <3>1, <3>3, <3>4 DEF WaitOf, CfgComing, StartComing
    <2>3. CASE PhyStart(c)
      <3>1. SeqRange(toPhy[c]) \subseteq {"start"} \cup SeqRange(toPhy'[c])
        BY <2>3, TakeRange DEF PhyStart
      <3>2. l1'[c] = "running" \/ Emit(c, "startErr")
        BY <1>2, <2>3 DEF PhyStart, BecomesL1
      <3>3. l1'[c] = "running" \/ Incoming(c)' \cap ErrorInds # {}
        BY <1>1, <1>3, <3>2, EmitIncoming
      <3> QED
        BY <1>1, <1>5, <1>8, <3>1, <3>3 DEF WaitOf, CfgComing, StartComing
    <2>4. CASE PhyStop(c)
      <3>1. SeqRange(toPhy[c]) \subseteq {"stop"} \cup SeqRange(toPhy'[c])
        BY <2>4, TakeRange DEF PhyStop
      <3>2. Emit(c, "stopInd") \/ Emit(c, "stopErr")
        BY <2>4 DEF PhyStop
      <3>3. Incoming(c)' \cap (ErrorInds \cup {"stopInd"}) # {}
        BY <1>1, <1>3, <3>2, EmitIncoming
      <3> QED
        BY <1>1, <1>5, <1>8, <3>1, <3>3 DEF WaitOf, CfgComing, StartComing
    <2> QED
      BY <2>1, <2>2, <2>3, <2>4 DEF PhyRequest
  <1> QED
    BY <1>7, <1>8

\* The steps that only move messages: a command is given, a group is received, an unknown
\* message ends it, a slot is indicated, the link loses a request.
LEMMA WaitMoves ==
  ASSUME TypeOK, NEW c \in Cells, NEW d \in Cells \ lost', d \notin lost => WaitOf(d),
         \/ \E m \in Cmd : IssueCmd(c, m)
         \/ CtrlRecv(c) \/ DecUnknown(c) \/ PhySlot(c) \/ LinkLoses(c)
  PROVE  WaitOf(d)'
  <1>1. phyState' = phyState /\ l1' = l1 /\ lost \subseteq lost'
    BY DEF IssueCmd, CtrlRecv, DecUnknown, PhySlot, LinkLoses, macVars, phyVars
  <1>2. WaitOf(d)
    BY <1>1
  <1>3. CASE \E m \in Cmd : IssueCmd(c, m)
    <2>1. UNCHANGED <<toPhy, fromPhy, rx>>
      BY <1>3 DEF IssueCmd, phyVars
    <2> QED
      BY <1>1, <1>2, <2>1, WaitKept DEF Incoming
  <1>4. CASE CtrlRecv(c)
    <2>1. /\ fromPhy \in [Cells -> Seq(Seq(Indications))] /\ rx \in [Cells -> Seq(Indications)]
          /\ fromPhy[c] # <<>> /\ toPhy' = toPhy /\ rx[c] = <<>>
          /\ rx' = [rx EXCEPT ![c] = Head(fromPhy[c])]
          /\ fromPhy' = [fromPhy EXCEPT ![c] = Tail(@)]
      BY <1>4 DEF TypeOK, CtrlRecv
    <2>2. CASE d = c
      <3>1. SeqRange(fromPhy[c]) = {Head(fromPhy[c])} \cup SeqRange(Tail(fromPhy[c]))
        BY <2>1, RangeTail
      <3>2. rx'[c] = Head(fromPhy[c]) /\ fromPhy'[c] = Tail(fromPhy[c]) /\ SeqRange(rx[c]) = {}
        BY <2>1 DEF SeqRange
      <3>3. Incoming(c) \subseteq Incoming(c)'
        BY <3>1, <3>2 DEF Incoming
      <3> QED
        BY <1>1, <1>2, <2>1, <2>2, <3>3, WaitKept
    <2>3. CASE d # c
      <3>1. rx'[d] = rx[d] /\ fromPhy'[d] = fromPhy[d]
        BY <2>1, <2>3
      <3> QED
        BY <1>1, <1>2, <2>1, <3>1, WaitKept DEF Incoming
    <2> QED
      BY <2>2, <2>3
  <1>5. CASE DecUnknown(c)
    <2>1. /\ rx \in [Cells -> Seq(Indications)] /\ rx[c] # <<>> /\ Head(rx[c]) = "paramRsp"
          /\ rx' = [rx EXCEPT ![c] = <<>>] /\ UNCHANGED <<toPhy, fromPhy>>
          /\ SeqRange(Tail(rx[c])) \cap Answers # {} => c \in lost'
      BY <1>5 DEF TypeOK, DecUnknown, phyVars
    <2>2. CASE d = c
      <3>1. SeqRange(rx[c]) = {"paramRsp"} \cup SeqRange(Tail(rx[c]))
        BY <2>1, RangeTail
      <3>2. SeqRange(rx[c]) \cap Answers = {}
        BY <2>1, <2>2, <3>1 DEF Answers, CfgRsps, ErrorInds
      <3>3. Incoming(c) \cap Answers \subseteq Incoming(c)'
        BY <2>1, <3>2 DEF Incoming
      <3> QED
        BY <1>1, <1>2, <2>1, <2>2, <3>3, WaitKept
    <2>3. CASE d # c
      <3>1. rx'[d] = rx[d]
        BY <2>1, <2>3
      <3> QED
        BY <1>1, <1>2, <2>1, <3>1, WaitKept DEF Incoming
    <2> QED
      BY <2>2, <2>3
  <1>6. CASE PhySlot(c)
    <2>1. Emit(c, "slot") /\ "slot" \in Indications /\ UNCHANGED <<rx, toPhy>>
      BY <1>6 DEF PhySlot, Indications, threadVars
    <2>2. Incoming(d) \subseteq Incoming(d)'
      BY <2>1, EmitIncoming
    <2> QED
      BY <1>1, <1>2, <2>1, <2>2, WaitKept
  <1>7. CASE LinkLoses(c)
    <2>1. c \in lost' /\ d # c
      BY <1>7 DEF LinkLoses
    <2>2. toPhy'[d] = toPhy[d] /\ UNCHANGED <<rx, fromPhy>>
      BY <1>7, <2>1 DEF LinkLoses, TypeOK, phyVars, threadVars
    <2> QED
      BY <1>1, <1>2, <2>2, WaitKept DEF Incoming
  <1> QED
    BY <1>3, <1>4, <1>5, <1>6, <1>7

\* No step leaves a cell waiting for nothing.
LEMMA WaitStep == TypeOK /\ WaitAnswered /\ [Next]_cellVars => WaitAnswered'
  <1> SUFFICES ASSUME TypeOK, WaitAnswered, [Next]_cellVars, NEW d \in Cells \ lost'
               PROVE  WaitOf(d)'
    <2>1. (\A c \in Cells \ lost' : WaitOf(c)') => WaitAnswered'
      BY DEF WaitAnswered, WaitOf, CfgComing, StartComing
    <2> QED
      BY <2>1
  <1>1. d \notin lost => WaitOf(d)
    BY WaitByCell
  <1>2. CASE UNCHANGED cellVars
    <2>1. UNCHANGED <<phyState, toPhy, rx, fromPhy, l1, lost>>
      BY <1>2 DEF cellVars, macVars, threadVars, phyVars
    <2> QED
      BY <1>1, <2>1, WaitKept DEF Incoming
  <1>3. ASSUME NEW c \in Cells,
               \/ AppTcConfigCase(c) \/ AppTcSingleCase(c) \/ AppTxCase(c) \/ AppTxCaseSched(c)
               \/ AppTcStop(c) \/ TcStopCell(c) \/ TcStopEnd(c)
        PROVE  WaitOf(d)'
    <2>1. lost' = lost
      BY <1>3 DEF AppTcConfigCase, AppTcSingleCase, AppTxCase, AppTxCaseSched, AppTcStop,
                  TcStopCell, TcStopEnd
    <2> QED
      BY <1>1, <1>3, <2>1, WaitCommand
  <1>4. ASSUME NEW c \in Cells, DecConfigRsp(c) \/ DecStopInd(c) \/ DecErrorInd(c) \/ DecSlot(c)
        PROVE  WaitOf(d)'
    <2>1. lost' = lost
      BY <1>4 DEF DecConfigRsp, DecStopInd, DecErrorInd, DecSlot
    <2> QED
      BY <1>1, <1>4, <2>1, WaitDecode
  <1>5. ASSUME NEW c \in Cells, PhyRequest(c)
        PROVE  WaitOf(d)'
    BY <1>1, <1>5, WaitPhy DEF PhyRequest
  <1>6. ASSUME NEW c \in Cells,
               \/ \E m \in Cmd : IssueCmd(c, m)
               \/ CtrlRecv(c) \/ DecUnknown(c) \/ PhySlot(c) \/ LinkLoses(c)
        PROVE  WaitOf(d)'
    BY <1>1, <1>6, WaitMoves
  <1> QED
    BY <1>2, <1>3, <1>4, <1>5, <1>6 DEF Next, RtThread

\* A cell in PHY_CFG or PHY_INIT always has coming what takes it out of that state,
\* unless the link or fapiMsgDec lost a message of its own: for any number of commands
\* to any cells, groups of any size and answers as late as they like (mac.c, mac_rx.c).
THEOREM WaitsAnswered == Spec => []WaitAnswered
  <1>1. TypeOK /\ WaitAnswered /\ [Next]_cellVars => TypeOK' /\ WaitAnswered'
    BY TypeStep, WaitStep
  <1> QED
    BY <1>1, TypeInit, WaitInit, PTL DEF Spec

(***************************************************************************)
(* Part 2: tables, times and contents.                                     *)
(***************************************************************************)

Content == Cases \cup {NoCase}
Spacing == Scs \cup {0}
SlotInds == [time : Time, scs : Spacing]

LoadTypes ==
  /\ scs \in [Cells -> Spacing] /\ cfg \in [Cells -> Content]
  /\ table \in [Cells -> [Kinds -> [Rows -> Content]]]
  /\ size \in [Cells -> [Kinds -> SUBSET Rows]]
  /\ gen \in [Cells -> BOOLEAN] /\ loaded \in [Cells -> Content]
SentTypes ==
  /\ txTime \in [Cells -> Time]
  /\ sent \in [Cells -> SUBSET [kind : Kinds, time : Time, of : Content]]
  /\ ind \in [Cells -> [time : Time, scs : Spacing, mac : Spacing, case : Content]]
SlotTypes == slotq \in [Cells -> Seq(Seq(SlotInds))] /\ slotrx \in [Cells -> Seq(SlotInds)]
PhyTypes == phyCfg \in [Cells -> Content] /\ phyTime \in [Cells -> Time]

\* A request of an entry is the one of its file, the entries with a size are the ones of
\* the case loaded last, and it has one wherever that case has a file.
Tables(c) ==
  /\ cfg[c] \in Cases => scs[c] \in Scs
  /\ ~gen[c] => loaded[c] = NoCase
  /\ \A k \in Kinds, e \in Rows :
       /\ table[c][k][e] \in Cases => <<table[c][k][e], k, e[1], e[2]>> \in Files
       /\ e \in size[c][k] => table[c][k][e] = loaded[c]
       /\ gen[c] /\ FileOf(k, loaded[c], e, scs[c]) => e \in size[c][k]
LoadInv == LoadTypes /\ \A c \in Cells : Tables(c)

SentInv == SentTypes /\ StampRight /\ ContentRight

\* A configuration in flight is one the MAC holds; it never loses it again.
ConfigsInv ==
  /\ cfgq \in [Cells -> Seq(Content)]
  /\ \A c \in Cells : /\ Len(cfgq[c]) = Len(toPhy[c])
                      /\ \A i \in 1 .. Len(cfgq[c]) : cfgq[c][i] \in Cases => cfg[c] \in Cases

\* A slot indication carries a time of the frames it was counted in, and finds a MAC that
\* has a configuration.
InFrame(at) == at.scs \in Scs /\ at.time.slot < SlotNum(at.scs)
Beside(msgs, ats, configured) ==
  /\ Len(ats) = Len(msgs)
  /\ \A i \in 1 .. Len(msgs) : msgs[i] = "slot" => InFrame(ats[i]) /\ configured
SlotInv ==
  /\ SlotTypes
  /\ \A c \in Cells :
       /\ Beside(rx[c], slotrx[c], cfg[c] \in Cases)
       /\ Len(slotq[c]) = Len(fromPhy[c])
       /\ \A g \in 1 .. Len(slotq[c]) : Beside(fromPhy[c][g], slotq[c][g], cfg[c] \in Cases)

\* The PHY that was configured has a configuration of the MAC's, and counts in its frames.
PhyInv ==
  /\ PhyTypes
  /\ \A c \in Cells :
       /\ l1[c] # "idle" => phyCfg[c] \in Cases /\ cfg[c] \in Cases
       /\ l1[c] = "running" => phyTime[c].slot < SlotNum(PhyScs(c))

TcInv == TypeOK /\ LoadInv /\ SentInv /\ ConfigsInv /\ SlotInv /\ PhyInv

-----------------------------------------------------------------------------
(***************************************************************************)
(* Slot arithmetic.                                                        *)
(***************************************************************************)

\* The slots of a frame.
LEMMA SlotNums ==
  /\ Slots15 \in Nat /\ Slots15 > 2 /\ Sfns \in Nat \ {0} /\ SfnWindow \in Nat \ {0}
  /\ SlotNum(0) = 0 /\ SlotNum(15) = Slots15 /\ SlotNum(30) = RowSlots
  /\ RowSlots \in Nat /\ RowSlots = Slots15 + Slots15
  /\ \A s \in Scs : SlotNum(s) \in Nat /\ SlotNum(s) > 2 /\ SlotNum(s) <= RowSlots
                      /\ RowSlots <= SlotNum(s) + Slots15 /\ SlotNum(s) >= Slots15
  <1>1. Slots15 \in Nat /\ Slots15 > 2 /\ Sfns \in Nat \ {0} /\ SfnWindow \in Nat \ {0}
    BY TcAssumption
  <1>2. 0 \div 15 = 0 /\ 15 \div 15 = 1 /\ 30 \div 15 = 2
    OBVIOUS
  <1>3. SlotNum(0) = 0 /\ SlotNum(15) = Slots15 /\ SlotNum(30) = RowSlots
    BY <1>1, <1>2 DEF SlotNum, RowSlots
  <1>4. RowSlots \in Nat /\ RowSlots = Slots15 + Slots15
    BY <1>1 DEF RowSlots
  <1> QED
    BY <1>1, <1>3, <1>4 DEF Scs

\* A frame number and the slots of whole frames.
LEMMA FrameProducts ==
  ASSUME NEW f \in 0 .. Sfns - 1, NEW n \in Nat, NEW x \in 0 .. n - 1
  PROVE  /\ f * n \in Nat /\ Sfns * n \in Nat
         /\ f * n + x < Sfns * n
         /\ (f + 1) * n = f * n + n
  <1>1. Sfns \in Nat /\ f \in Nat /\ f < Sfns
    BY SlotNums
  <1>2. n * f + n <= n * Sfns
    BY <1>1, ProductGrows
  <1>3. n * f = f * n /\ n * Sfns = Sfns * n /\ f * n \in Nat /\ Sfns * n \in Nat /\ (f + 1) * n = f * n + n
    BY <1>1
  <1> QED
    BY <1>1, <1>2, <1>3

\* A remainder below and one above the divisor.
LEMMA Remainders ==
  ASSUME NEW m \in Nat \ {0}, NEW x \in 0 .. m - 1
  PROVE  x % m = x /\ (m + x) % m = x
  OBVIOUS

\* The time that gsfnShift computes: it is one of the tables', whatever the spacing of the
\* frames it is given, and with the spacing it was counted in it is the slot so many later.
LEMMA Shifted ==
  ASSUME NEW t \in Time, NEW d \in {1, 2}, NEW s \in Scs
  PROVE  /\ GsfnShift(t, d, s) \in Time
         /\ t.slot < SlotNum(s) =>
              /\ GsfnShift(t, d, s).slot < SlotNum(s)
              /\ Abs(GsfnShift(t, d, s), s) = (Abs(t, s) + d) % (Sfns * SlotNum(s))
  <1>1. PICK n \in Nat : n = SlotNum(s)
    BY SlotNums
  <1>2. n > 2 /\ n <= RowSlots /\ RowSlots <= n + n /\ Sfns \in Nat /\ Sfns > 0 /\ RowSlots \in Nat
    BY <1>1, SlotNums
  <1>3. PICK f \in 0 .. Sfns - 1, x \in 0 .. RowSlots - 1 : t = [sfn |-> f, slot |-> x]
    BY DEF Time
  <1>4. f \in Nat /\ x \in Nat /\ t.sfn = f /\ t.slot = x
    BY <1>3, <1>2
  <1>5. CASE d + x < n
    <2>1. GsfnShift(t, d, s) = [sfn |-> f, slot |-> x + d]
      BY <1>1, <1>4, <1>5 DEF GsfnShift
    <2>2. x + d \in 0 .. n - 1 /\ x + d \in 0 .. RowSlots - 1
      BY <1>2, <1>4, <1>5
    <2>3. f * n \in Nat /\ Sfns * n \in Nat /\ f * n + (x + d) < Sfns * n
      BY <2>2, FrameProducts
    <2>4. (f * n + (x + d)) % (Sfns * n) = f * n + (x + d)
      BY <1>4, <2>2, <2>3, Remainders
    <2>5. (f * n + x) + d = f * n + (x + d)
      BY <1>4, <2>3
    <2> QED
      BY <1>1, <1>2, <1>4, <2>1, <2>2, <2>4, <2>5 DEF Abs, Time
  <1>6. CASE d + x >= n
    <2>1. GsfnShift(t, d, s) = [sfn |-> (f + 1) % Sfns, slot |-> x + d - n]
      BY <1>1, <1>2, <1>4, <1>6 DEF GsfnShift
    <2>2. PICK y \in Nat : y = x + d - n
      BY <1>2, <1>4, <1>6
    <2>3. y \in 0 .. RowSlots - 1 /\ (x < n => y \in 0 .. n - 1)
      BY <1>2, <1>4, <1>6, <2>2
    <2>4. PICK h \in 0 .. Sfns - 1 : h = (f + 1) % Sfns
      BY <1>2, <1>4, Euclid
    <2>5. GsfnShift(t, d, s) \in Time
      BY <2>1, <2>2, <2>3, <2>4 DEF Time
    <2>6. ASSUME x < n
          PROVE  Abs(GsfnShift(t, d, s), s) = (Abs(t, s) + d) % (Sfns * n)
      <3>1. y \in 0 .. n - 1 /\ x + d = n + y
        BY <1>2, <1>4, <2>2, <2>3, <2>6
      <3>2. /\ f * n \in Nat /\ Sfns * n \in Nat /\ (f + 1) * n = f * n + n
        BY <2>6, FrameProducts, <1>4, <1>2
      <3>3. (f * n + x) + d = (f + 1) * n + y
        BY <1>4, <3>1, <3>2
      <3>4. CASE f + 1 < Sfns
        <4>1. h = f + 1 /\ f + 1 \in 0 .. Sfns - 1
          BY <1>2, <1>4, <2>4, <3>4
        <4>2. (f + 1) * n + y < Sfns * n /\ (f + 1) * n \in Nat
          BY <3>1, <4>1, FrameProducts
        <4>3. ((f + 1) * n + y) % (Sfns * n) = (f + 1) * n + y
          BY <3>1, <3>2, <4>2, Remainders
        <4> QED
          BY <1>1, <1>4, <2>1, <2>2, <2>4, <3>3, <4>1, <4>3 DEF Abs
      <3>5. CASE f + 1 = Sfns
        <4>1. h = 0
          BY <1>2, <2>4, <3>5
        <4>2. 0 * n + y < Sfns * n /\ 0 * n = 0
          BY <1>2, <3>1, FrameProducts
        <4>3. (Sfns * n + y) % (Sfns * n) = y
          BY <3>1, <3>2, <4>2, Remainders
        <4> QED
          BY <1>1, <1>4, <2>1, <2>2, <2>4, <3>3, <3>5, <4>1, <4>2, <4>3 DEF Abs
      <3> QED
        BY <1>2, <1>4, <3>4, <3>5
    <2> QED
      BY <1>1, <1>2, <1>4, <2>1, <2>2, <2>3, <2>5, <2>6
  <1> QED
    BY <1>2, <1>4, <1>5, <1>6

-----------------------------------------------------------------------------
(***************************************************************************)
(* The steps of MacTc are steps of MacCell.                                *)
(***************************************************************************)

\* Every step, or none.
LEMMA CellStep == [TcNext]_vars => [Next]_cellVars
  <1> SUFFICES ASSUME [TcNext]_vars PROVE [Next]_cellVars
    OBVIOUS
  <1>1. CASE TcNext
    <2>1. PICK c \in Cells : MacSteps(c) \/ PhySteps(c)
      BY <1>1 DEF TcNext
    <2>2. CASE MacSteps(c)
      <3>1. RtThread(c) \/ \E m \in Cmd : IssueCmd(c, m)
        BY <2>2 DEF MacSteps, TcTxCase, TcSingle, TcSlot, TcOther, TcRecv, TcDecode, TcUnknown, RtThread
      <3> QED
        BY <3>1 DEF Next
    <2>3. CASE PhySteps(c)
      <3>1. PhyRequest(c) \/ PhySlot(c)
        BY <2>3 DEF PhySteps
      <3> QED
        BY <3>1 DEF Next
    <2> QED
      BY <2>1, <2>2, <2>3
  <1>2. CASE UNCHANGED vars
    BY <1>2 DEF vars
  <1> QED
    BY <1>1, <1>2

\* What requests contain is added to the life cycle without changing it: every behaviour of
\* MacTc is one of MacCell, and what holds of every behaviour of that holds of it (every step
\* of mac.c's handlers is taken with the loads and sends it makes).
THEOREM TcIsCell == TcSpec => Spec
  <1>1. TcInit => Init
    BY DEF TcInit
  <1> QED
    BY <1>1, CellStep, PTL DEF TcSpec, Spec

\* Nothing loaded, nothing in flight.
LEMMA TcInitInv == TcInit => TcInv
  <1> SUFFICES ASSUME TcInit PROVE TcInv
    OBVIOUS
  <1>1. TypeOK
    BY TypeInit DEF TcInit
  <1>2. NoCase \in Content /\ NoCase \notin Cases /\ 0 \in Spacing /\ 0 \notin Scs
    BY TcAssumption DEF Content, Spacing, Scs
  <1>3. Time0 \in Time /\ NoInd \in [time : Time, scs : Spacing, mac : Spacing, case : Content]
    BY <1>2, SlotNums DEF Time0, Time, NoInd
  <1>4. LoadInv
    <2>1. LoadTypes
      BY <1>2 DEF TcInit, LoadTypes
    <2>2. \A c \in Cells : Tables(c)
      BY <1>2 DEF TcInit, Tables
    <2> QED
      BY <2>1, <2>2 DEF LoadInv
  <1>5. SentInv
    <2>1. SentTypes
      BY <1>3 DEF TcInit, SentTypes
    <2> QED
      BY <2>1 DEF SentInv, StampRight, ContentRight, TcInit
  <1>6. ConfigsInv
    BY DEF TcInit, Init, ConfigsInv
  <1>7. SlotInv
    BY DEF TcInit, Init, SlotInv, SlotTypes, Beside
  <1>8. PhyInv
    BY <1>2, <1>3 DEF TcInit, Init, PhyInv, PhyTypes
  <1> QED
    BY <1>1, <1>4, <1>5, <1>6, <1>7, <1>8 DEF TcInv

-----------------------------------------------------------------------------
(***************************************************************************)
(* Loading a case.                                                         *)
(***************************************************************************)

\* Only macTcLoad changes the tables; after it they hold the case, and the configuration
\* is never lost.
LEMMA LoadStep ==
  ASSUME TcInv, TcNext
  PROVE  LoadInv' /\ \A c \in Cells : cfg[c] \in Cases => cfg'[c] \in Cases
  <1>1. LoadInv /\ LoadTypes /\ \A d \in Cells : Tables(d)
    BY DEF TcInv, LoadInv
  <1>2. PICK c \in Cells : MacSteps(c) \/ PhySteps(c)
    BY DEF TcNext
  <1>3. CASE UNCHANGED <<scs, cfg, table, size, gen, loaded>>
    BY <1>1, <1>3 DEF LoadInv, LoadTypes, Tables
  <1>4. CASE TcTxCase(c)
    <2>1. PICK case \in Cases : MacTcLoad(c, case)
      BY <1>4 DEF TcTxCase
    <2>2. PICK held, s :
            /\ held = (IF case \in HasConfig THEN case ELSE cfg[c])
            /\ s \in ScsFrom(c, held)
            /\ cfg' = [cfg EXCEPT ![c] = held]
            /\ scs' = [scs EXCEPT ![c] = s]
            /\ table' = [table EXCEPT ![c] = Contents(c, case, s)]
            /\ size' = [size EXCEPT ![c] = Sizes(c, case, s)]
            /\ loaded' = [loaded EXCEPT ![c] = case]
      BY <2>1 DEF MacTcLoad
    <2>3. gen' = [gen EXCEPT ![c] = TRUE]
      BY <1>4 DEF TcTxCase
    <2>4. held \in Content /\ (cfg[c] \in Cases => held \in Cases) /\ case \in Content
      BY <1>1, <2>2, TcAssumption DEF LoadTypes, Content
    <2>5. s \in Spacing /\ (held \in Cases => s \in Scs)
      BY <1>1, <2>2, <2>4, TcAssumption DEF LoadTypes, ScsFrom, Spacing, Content
    <2>6. Contents(c, case, s) \in [Kinds -> [Rows -> Content]]
      BY <1>1, <2>4 DEF LoadTypes, Contents
    <2>7. Sizes(c, case, s) \in [Kinds -> SUBSET Rows]
      BY DEF Sizes
    <2>8. LoadTypes'
      BY <1>1, <2>2, <2>3, <2>4, <2>5, <2>6, <2>7 DEF LoadTypes
    <2>9. \A d \in Cells : cfg[d] \in Cases => cfg'[d] \in Cases
      BY <1>1, <2>2, <2>4 DEF LoadTypes
    <2>10. ASSUME NEW d \in Cells, d # c PROVE Tables(d)'
      <3>1. /\ cfg'[d] = cfg[d] /\ scs'[d] = scs[d] /\ table'[d] = table[d] /\ size'[d] = size[d]
            /\ loaded'[d] = loaded[d] /\ gen'[d] = gen[d]
        BY <1>1, <2>2, <2>3, <2>10 DEF LoadTypes
      <3> QED
        BY <1>1, <3>1 DEF Tables
    <2>11. Tables(c)'
      <3>1. /\ cfg'[c] = held /\ scs'[c] = s /\ table'[c] = Contents(c, case, s)
            /\ size'[c] = Sizes(c, case, s) /\ loaded'[c] = case /\ gen'[c] = TRUE
        BY <1>1, <2>2, <2>3 DEF LoadTypes
      <3>2. ASSUME NEW k \in Kinds, NEW e \in Rows
            PROVE  /\ table'[c][k][e] \in Cases => <<table'[c][k][e], k, e[1], e[2]>> \in Files
                   /\ e \in size'[c][k] <=> FileOf(k, case, e, s)
                   /\ e \in size'[c][k] => table'[c][k][e] = case
        <4>1. table'[c][k][e] = IF FileOf(k, case, e, s) THEN case ELSE table[c][k][e]
          BY <3>1 DEF Contents
        <4>2. e \in size'[c][k] <=> FileOf(k, case, e, s)
          BY <3>1 DEF Sizes
        <4>3. table[c][k][e] \in Cases => <<table[c][k][e], k, e[1], e[2]>> \in Files
          BY <1>1 DEF Tables
        <4>4. FileOf(k, case, e, s) => <<case, k, e[1], e[2]>> \in Files
          BY DEF FileOf
        <4> QED
          BY <4>1, <4>2, <4>3, <4>4
      <3> QED
        BY <2>5, <3>1, <3>2 DEF Tables
    <2> QED
      BY <2>8, <2>9, <2>10, <2>11 DEF LoadInv
  <1> QED
    BY <1>2, <1>3, <1>4 DEF MacSteps, PhySteps, TcSingle, TcSlot, TcOther, TcRecv, TcDecode, TcUnknown, Keep

-----------------------------------------------------------------------------
(***************************************************************************)
(* What is sent.                                                           *)
(***************************************************************************)

\* The entry of a time is one of the tables'.
LEMMA EntryInRows == ASSUME NEW t \in Time PROVE Entry(t) \in Rows /\ Entry(t)[1] = t.sfn % SfnWindow /\ Entry(t)[2] = t.slot
  <1>1. t.sfn \in Nat /\ t.slot \in 0 .. RowSlots - 1
    BY SlotNums DEF Time
  <1>2. t.sfn % SfnWindow \in 0 .. SfnWindow - 1
    BY <1>1, SlotNums, Euclid
  <1> QED
    BY <1>1, <1>2 DEF Entry, Rows

\* A request is a request, for a slot's group and for a command's.
LEMMA ReqType ==
  ASSUME LoadInv, NEW c \in Cells, NEW k \in Kinds, NEW t \in Time, txTime'[c] \in Time
  PROVE  Req(c, k, t) \in [kind : Kinds, time : Time, of : Content]
  <1>1. table[c][k][Entry(t)] \in Content
    BY EntryInRows DEF LoadInv, LoadTypes
  <1>2. NoCase \in Content
    BY DEF Content
  <1>3. TtiReq(c, k, t) \in [kind : Kinds, time : Time, of : Content]
    BY <1>1, <1>2 DEF TtiReq
  <1>4. k = "txdata" => TxdataReq(c, t) \in [kind : Kinds, time : Time, of : Content]
    BY <1>1, <1>2 DEF TxdataReq, Kinds
  <1> QED
    BY <1>3, <1>4 DEF Req

\* What a request of a slot's group carries.
LEMMA SlotReq ==
  ASSUME LoadInv, NEW c \in Cells, NEW k \in Kinds, NEW t \in Time, txTime'[c] = t
  PROVE  /\ Req(c, k, t).kind = k /\ Req(c, k, t).time = t
         /\ Req(c, k, t).of \in Cases => Defines(Req(c, k, t).of, k, t)
         /\ k # "txdata" => Req(c, k, t).of \in {loaded[c], NoCase}
         /\ Defines(loaded[c], k, t) /\ t.slot < SlotNum(scs[c]) => Req(c, k, t).of = loaded[c]
  <1>1. PICK e \in Rows : e = Entry(t) /\ e[1] = t.sfn % SfnWindow /\ e[2] = t.slot
    BY EntryInRows
  <1>2. Req(c, k, t).kind = k /\ Req(c, k, t).time = t
    BY DEF Req, TtiReq, TxdataReq
  <1>3. Req(c, k, t).of = IF gen[c] /\ (k = "txdata" \/ e \in size[c][k]) THEN table[c][k][e] ELSE NoCase
    BY <1>1 DEF Req, TtiReq, TxdataReq
  <1>4. /\ ~gen[c] => loaded[c] = NoCase
        /\ table[c][k][e] \in Cases => <<table[c][k][e], k, e[1], e[2]>> \in Files
        /\ e \in size[c][k] => table[c][k][e] = loaded[c]
        /\ gen[c] /\ FileOf(k, loaded[c], e, scs[c]) => e \in size[c][k]
    BY DEF LoadInv, Tables
  <1>5. NoCase \notin Cases
    BY TcAssumption
  <1>6. \A x : Defines(x, k, t) <=> <<x, k, e[1], e[2]>> \in Files
    BY <1>1 DEF Defines
  <1>7. Defines(loaded[c], k, t) /\ t.slot < SlotNum(scs[c]) => FileOf(k, loaded[c], e, scs[c])
    BY <1>1, <1>6 DEF FileOf
  <1> QED
    BY <1>2, <1>3, <1>4, <1>5, <1>6, <1>7

\* Slots and single requests.
LEMMA SentStep == ASSUME TcInv, TcNext PROVE SentInv'
  <1>1. LoadInv /\ LoadTypes /\ SentTypes /\ StampRight /\ ContentRight /\ SlotInv /\ TypeOK
    BY DEF TcInv, LoadInv, SentInv
  <1>2. PICK c \in Cells : MacSteps(c) \/ PhySteps(c)
    BY DEF TcNext
  <1>3. CASE UNCHANGED <<txTime, sent, ind>>
    BY <1>1, <1>3 DEF SentInv, SentTypes, StampRight, ContentRight
  <1>4. CASE TcSingle(c)
    <2>1. PICK k \in Kinds, t \in StartTimes : sent' = [sent EXCEPT ![c] = {Req(c, k, t)}]
      BY <1>4 DEF TcSingle
    <2>2. t \in Time /\ txTime' = txTime /\ txTime'[c] \in Time /\ ind' = [ind EXCEPT ![c] = NoInd]
      BY <1>1, <1>4, TcAssumption DEF TcSingle, SentTypes, Time
    <2>3. Req(c, k, t) \in [kind : Kinds, time : Time, of : Content]
      BY <1>1, <2>2, ReqType
    <2>4. NoInd \in [time : Time, scs : Spacing, mac : Spacing, case : Content]
      BY SlotNums DEF NoInd, Time0, Time, Spacing, Content
    <2>5. SentTypes'
      BY <1>1, <2>1, <2>2, <2>3, <2>4 DEF SentTypes
    <2>6. ind'[c] = NoInd /\ \A d \in Cells : d # c => ind'[d] = ind[d] /\ sent'[d] = sent[d]
      BY <1>1, <2>1, <2>2 DEF SentTypes
    <2> QED
      BY <1>1, <2>5, <2>6 DEF SentInv, StampRight, ContentRight
  <1>5. CASE TcSlot(c)
    <2>1. PICK at : at = Head(slotrx[c])
      OBVIOUS
    <2>2. PICK t : t = GsfnShift(at.time, 2, scs[c])
      OBVIOUS
    <2>3. rx[c] # <<>> /\ Head(rx[c]) = "slot"
      BY <1>5 DEF TcSlot, DecSlot, Decodes
    <2>4. at \in SlotInds /\ InFrame(at) /\ cfg[c] \in Cases
      <3>1. rx[c] \in Seq(Indications) /\ slotrx[c] \in Seq(SlotInds) /\ Beside(rx[c], slotrx[c], cfg[c] \in Cases)
        BY <1>1 DEF TypeOK, SlotInv, SlotTypes
      <3>2. Len(slotrx[c]) = Len(rx[c]) /\ Len(rx[c]) \in Nat /\ Len(rx[c]) > 0 /\ rx[c][1] = "slot"
        BY <2>3, <3>1 DEF Beside
      <3>3. 1 \in 1 .. Len(rx[c]) /\ at = slotrx[c][1] /\ slotrx[c][1] \in SlotInds
        BY <2>1, <3>1, <3>2
      <3> QED
        BY <3>1, <3>2, <3>3 DEF Beside
    <2>5. scs[c] \in Scs /\ at.time \in Time /\ at.scs \in Scs
      BY <1>1, <2>4 DEF LoadInv, Tables, SlotInds, InFrame
    <2>6. t \in Time
      BY <2>2, <2>5, Shifted
    <2>7. CASE UNCHANGED <<sent, ind>>
      <3>1. txTime' = txTime \/ txTime' = [txTime EXCEPT ![c] = t]
        BY <1>5, <2>1, <2>2 DEF TcSlot
      <3>2. SentTypes'
        BY <1>1, <2>6, <2>7, <3>1 DEF SentTypes
      <3> QED
        BY <1>1, <2>7, <3>2 DEF SentInv, StampRight, ContentRight
    <2>8. CASE /\ sent' = [sent EXCEPT ![c] = TtiGroup(c, t)]
               /\ txTime' = [txTime EXCEPT ![c] = t]
               /\ ind' = [ind EXCEPT ![c] = [time |-> at.time, scs |-> at.scs, mac |-> scs[c], case |-> loaded[c]]]
      <3>1. txTime'[c] = t
        BY <1>1, <2>8 DEF SentTypes
      <3>2. PICK i : i = [time |-> at.time, scs |-> at.scs, mac |-> scs[c], case |-> loaded[c]]
        OBVIOUS
      <3>3. /\ i \in [time : Time, scs : Spacing, mac : Spacing, case : Content]
            /\ i.time = at.time /\ i.scs = at.scs /\ i.mac = scs[c] /\ i.case = loaded[c]
        BY <1>1, <2>5, <3>2 DEF LoadTypes, Spacing
      <3>4. \A k \in TxCfg : Req(c, k, t) \in [kind : Kinds, time : Time, of : Content]
        BY <1>1, <2>6, <3>1, TcAssumption, ReqType
      <3>5. TtiGroup(c, t) \in SUBSET [kind : Kinds, time : Time, of : Content]
        BY <3>4 DEF TtiGroup
      <3>6. SentTypes'
        BY <1>1, <2>6, <2>8, <3>2, <3>3, <3>5 DEF SentTypes
      <3>7. /\ ind'[c] = i /\ sent'[c] = TtiGroup(c, t)
            /\ \A d \in Cells : d # c => ind'[d] = ind[d] /\ sent'[d] = sent[d]
        BY <1>1, <2>8, <3>2 DEF SentTypes
      <3>8. \A r \in sent'[c] :
              /\ r.time = t
              /\ r.of \in Cases => Defines(r.of, r.kind, t)
              /\ r.kind # "txdata" => r.of \in {loaded[c], NoCase}
              /\ Defines(loaded[c], r.kind, t) /\ t.slot < SlotNum(scs[c]) => r.of = loaded[c]
        <4>1. SUFFICES ASSUME NEW k \in Kinds, NEW r, r = Req(c, k, t)
                       PROVE  /\ r.time = t
                              /\ r.of \in Cases => Defines(r.of, r.kind, t)
                              /\ r.kind # "txdata" => r.of \in {loaded[c], NoCase}
                              /\ Defines(loaded[c], r.kind, t) /\ t.slot < SlotNum(scs[c]) => r.of = loaded[c]
          BY <3>7, TcAssumption DEF TtiGroup
        <4> QED
          BY <1>1, <2>6, <3>1, <4>1, SlotReq
      <3>9. at.scs = scs[c] => Abs(t, at.scs) = (Abs(at.time, at.scs) + 2) % (Sfns * SlotNum(at.scs))
        BY <2>2, <2>4, <2>5, Shifted DEF InFrame
      <3>10. StampRight'
        BY <1>1, <3>3, <3>7, <3>8, <3>9 DEF StampRight
      <3>11. ContentRight'
        BY <1>1, <3>3, <3>7, <3>8 DEF ContentRight
      <3> QED
        BY <3>6, <3>10, <3>11 DEF SentInv
    <2> QED
      BY <1>5, <2>1, <2>2, <2>7, <2>8 DEF TcSlot
  <1> QED
    BY <1>2, <1>3, <1>4, <1>5 DEF MacSteps, PhySteps, TcTxCase, TcOther, TcRecv, TcDecode, TcUnknown, Keep

-----------------------------------------------------------------------------
(***************************************************************************)
(* What is in flight.                                                      *)
(***************************************************************************)

\* A function on 1 .. n is a sequence.
LEMMA FunctionSeq ==
  ASSUME NEW S, NEW n \in Nat, NEW f \in [1 .. n -> S]
  PROVE  f \in Seq(S) /\ Len(f) = n /\ DOMAIN f = 1 .. n
  OBVIOUS

\* Sequences, element by element.
LEMMA TailElements ==
  ASSUME NEW S, NEW s \in Seq(S), Len(s) > 0
  PROVE  /\ Tail(s) \in Seq(S) /\ Len(s) \in Nat /\ Len(Tail(s)) = Len(s) - 1
         /\ Head(s) = s[1] /\ s[1] \in S
         /\ \A i \in 1 .. Len(s) - 1 : Tail(s)[i] = s[i + 1] /\ i + 1 \in 1 .. Len(s)
  OBVIOUS

\* The PHY takes a request for every answer.
LEMMA RequestTaken ==
  ASSUME NEW c \in Cells, PhyRequest(c)
  PROVE  toPhy[c] # <<>> /\ toPhy' = [toPhy EXCEPT ![c] = Tail(@)]
  BY DEF PhyRequest, PhyParam, PhyConfig, PhyStart, PhyStop, PhyTti, PhyTakes

\* Requests and the configurations they carry.
LEMMA ConfigsStep ==
  ASSUME TcInv, TcNext, TypeOK', LoadInv', \A c \in Cells : cfg[c] \in Cases => cfg'[c] \in Cases
  PROVE  ConfigsInv'
  <1>1. ConfigsInv /\ TypeOK
    BY DEF TcInv
  <1>2. toPhy \in [Cells -> Seq(Requests)] /\ toPhy' \in [Cells -> Seq(Requests)]
    BY <1>1 DEF TypeOK
  <1>3. NoCase \in Content /\ NoCase \notin Cases /\ \A d \in Cells : cfg'[d] \in Content
    BY TcAssumption DEF Content, LoadInv, LoadTypes
  <1>4. PICK c \in Cells : MacSteps(c) \/ PhySteps(c)
    BY DEF TcNext
  <1>5. CASE MacSteps(c)
    <2>1. SendsConfigs
      BY <1>5 DEF MacSteps
    <2>2. ASSUME NEW d \in Cells
          PROVE  /\ cfgq'[d] \in Seq(Content) /\ Len(cfgq'[d]) = Len(toPhy'[d])
                 /\ \A i \in 1 .. Len(cfgq'[d]) : cfgq'[d][i] \in Cases => cfg'[d] \in Cases
      <3>1. PICK n \in Nat : n = Len(toPhy'[d]) /\ DOMAIN toPhy'[d] = 1 .. n
        <4>1. PICK s \in Seq(Requests) : s = toPhy'[d]
          BY <1>2
        <4>2. Len(s) \in Nat /\ DOMAIN s = 1 .. Len(s)
          OBVIOUS
        <4> QED
          BY <4>1, <4>2
      <3>2. PICK m \in Nat : m = Len(toPhy[d])
        BY <1>2
      <3>3. cfgq[d] \in Seq(Content) /\ Len(cfgq[d]) = m
        BY <1>1, <3>2 DEF ConfigsInv
      <3>4. cfgq'[d] = [i \in 1 .. n |-> IF i <= m THEN cfgq[d][i]
                                         ELSE IF toPhy'[d][i] = "config" THEN ConfigIn(d) ELSE NoCase]
        BY <2>1, <3>1, <3>2 DEF SendsConfigs
      <3>5. ConfigIn(d) \in Content /\ (ConfigIn(d) \in Cases => cfg'[d] \in Cases)
        BY <1>3 DEF ConfigIn
      <3>6. ASSUME NEW i \in 1 .. n
            PROVE  cfgq'[d][i] \in Content /\ (cfgq'[d][i] \in Cases => cfg'[d] \in Cases)
        <4>1. CASE i <= m
          <5>1. i \in 1 .. Len(cfgq[d]) /\ cfgq'[d][i] = cfgq[d][i] /\ cfgq[d][i] \in Content
            BY <3>3, <3>4, <4>1
          <5> QED
            BY <1>1, <5>1 DEF ConfigsInv
        <4>2. CASE ~(i <= m)
          BY <1>3, <3>4, <3>5, <4>2
        <4> QED
          BY <4>1, <4>2
      <3>7. cfgq'[d] \in [1 .. n -> Content]
        BY <3>4, <3>6
      <3> QED
        BY <3>1, <3>6, <3>7, FunctionSeq
    <2>3. cfgq' \in [Cells -> Seq(Content)]
      <3>1. cfgq' = [d \in Cells |-> cfgq'[d]]
        BY <2>1 DEF SendsConfigs
      <3> QED
        BY <2>2, <3>1
    <2> QED
      BY <2>2, <2>3 DEF ConfigsInv
  <1>6. CASE PhySteps(c) /\ PhyRequest(c) /\ cfgq' = [cfgq EXCEPT ![c] = Tail(@)]
    <2>1. cfg' = cfg /\ toPhy[c] # <<>> /\ toPhy' = [toPhy EXCEPT ![c] = Tail(@)]
      BY <1>6, RequestTaken DEF PhySteps, Keep
    <2>2. cfgq[c] \in Seq(Content) /\ toPhy[c] \in Seq(Requests) /\ Len(cfgq[c]) = Len(toPhy[c]) /\ Len(toPhy[c]) > 0
      BY <1>1, <1>2, <2>1 DEF ConfigsInv
    <2>3. cfgq'[c] = Tail(cfgq[c]) /\ toPhy'[c] = Tail(toPhy[c])
      BY <1>1, <1>2, <1>6, <2>1 DEF ConfigsInv
    <2>4. /\ Tail(cfgq[c]) \in Seq(Content) /\ Len(Tail(cfgq[c])) = Len(Tail(toPhy[c]))
          /\ \A i \in 1 .. Len(Tail(cfgq[c])) : Tail(cfgq[c])[i] = cfgq[c][i + 1] /\ i + 1 \in 1 .. Len(cfgq[c])
      BY <2>2, TailElements
    <2>5. \A i \in 1 .. Len(cfgq'[c]) : cfgq'[c][i] \in Cases => cfg'[c] \in Cases
      BY <1>1, <2>1, <2>3, <2>4 DEF ConfigsInv
    <2>6. cfgq' \in [Cells -> Seq(Content)]
      BY <1>1, <1>6, <2>4 DEF ConfigsInv
    <2>7. \A d \in Cells : d # c => cfgq'[d] = cfgq[d] /\ toPhy'[d] = toPhy[d]
      BY <1>1, <1>2, <1>6, <2>1 DEF ConfigsInv
    <2> QED
      BY <1>1, <2>1, <2>3, <2>4, <2>5, <2>6, <2>7 DEF ConfigsInv
  <1>7. CASE PhySteps(c) /\ PhySlot(c) /\ cfgq' = cfgq
    BY <1>1, <1>7 DEF PhySteps, PhySlot, Keep, ConfigsInv
  <1> QED
    BY <1>4, <1>5, <1>6, <1>7 DEF PhySteps

\* Taking the first message of a group.
LEMMA BesideTail ==
  ASSUME NEW msgs \in Seq(Indications), NEW ats \in Seq(SlotInds), msgs # <<>>, NEW b, Beside(msgs, ats, b)
  PROVE  Beside(Tail(msgs), Tail(ats), b) /\ Tail(ats) \in Seq(SlotInds)
  <1>1. Len(msgs) > 0 /\ Len(ats) = Len(msgs)
    BY DEF Beside
  <1>2. /\ Len(Tail(msgs)) = Len(msgs) - 1 /\ Len(msgs) \in Nat
        /\ \A i \in 1 .. Len(msgs) - 1 : Tail(msgs)[i] = msgs[i + 1] /\ i + 1 \in 1 .. Len(msgs)
    BY <1>1, TailElements
  <1>3. /\ Len(Tail(ats)) = Len(msgs) - 1 /\ Tail(ats) \in Seq(SlotInds)
        /\ \A i \in 1 .. Len(msgs) - 1 : Tail(ats)[i] = ats[i + 1]
    BY <1>1, TailElements
  <1> QED
    BY <1>2, <1>3 DEF Beside

\* An indication is added behind the others.
LEMMA EmitElements ==
  ASSUME TypeOK, TypeOK', NEW c \in Cells, NEW m \in Indications, Emit(c, m)
  PROVE  /\ \A d \in Cells : d # c => fromPhy'[d] = fromPhy[d]
         /\ Len(fromPhy'[c]) >= Len(fromPhy[c])
         /\ \A g \in 1 .. Len(fromPhy'[c]) : \A i \in 1 .. Len(fromPhy'[c][g]) :
              IF g <= Len(fromPhy[c]) /\ i <= Len(fromPhy[c][g])
              THEN fromPhy'[c][g][i] = fromPhy[c][g][i]
              ELSE fromPhy'[c][g][i] = m
  <1>1. fromPhy \in [Cells -> Seq(Seq(Indications))] /\ fromPhy' \in [Cells -> Seq(Seq(Indications))]
    BY DEF TypeOK
  <1>2. \A d \in Cells : d # c => fromPhy'[d] = fromPhy[d]
    BY <1>1 DEF Emit
  <1>3. PICK f \in Seq(Seq(Indications)) : f = fromPhy[c]
    BY <1>1
  <1>4. PICK n \in Nat : n = Len(f)
    BY <1>3
  <1>5. CASE fromPhy' = [fromPhy EXCEPT ![c] = Append(@, <<m>>)]
    <2>1. fromPhy'[c] = Append(f, <<m>>)
      BY <1>1, <1>3, <1>5
    <2>2. PICK e \in Seq(Indications) : e = <<m>> /\ Len(e) = 1 /\ e[1] = m
      <3>1. <<m>> \in Seq(Indications) /\ Len(<<m>>) = 1 /\ <<m>>[1] = m
        OBVIOUS
      <3> QED
        BY <3>1
    <2>3. /\ Len(fromPhy'[c]) = n + 1 /\ fromPhy'[c][n + 1] = e
          /\ \A g \in 1 .. n : fromPhy'[c][g] = f[g]
      BY <1>3, <1>4, <2>1, <2>2
    <2>4. ASSUME NEW g \in 1 .. n + 1, NEW i \in 1 .. Len(fromPhy'[c][g])
          PROVE  IF g <= n /\ i <= Len(f[g]) THEN fromPhy'[c][g][i] = f[g][i] ELSE fromPhy'[c][g][i] = m
      <3>1. CASE g = n + 1
        BY <2>2, <2>3, <2>4, <3>1
      <3>2. CASE g # n + 1
        <4>1. g \in 1 .. n
          BY <3>2
        <4> QED
          BY <2>3, <4>1
      <3> QED
        BY <3>1, <3>2
    <2> QED
      BY <1>2, <1>3, <1>4, <2>3, <2>4
  <1>6. CASE fromPhy[c] # <<>> /\ fromPhy' = [fromPhy EXCEPT ![c][Len(fromPhy[c])] = Append(@, m)]
    <2>1. n \in 1 .. Len(f) /\ f[n] \in Seq(Indications)
      BY <1>3, <1>4, <1>6
    <2>2. PICK h \in Seq(Indications) : h = Append(f[n], m)
      <3>1. Append(f[n], m) \in Seq(Indications)
        BY <2>1
      <3> QED
        BY <3>1
    <2>3. /\ Len(h) = Len(f[n]) + 1 /\ Len(f[n]) \in Nat /\ h[Len(f[n]) + 1] = m
          /\ \A i \in 1 .. Len(f[n]) : h[i] = f[n][i]
      BY <2>1, <2>2
    <2>4. fromPhy'[c] = [f EXCEPT ![n] = h]
      BY <1>1, <1>3, <1>4, <1>6, <2>2
    <2>5. Len(fromPhy'[c]) = n /\ fromPhy'[c][n] = h /\ \A g \in 1 .. n : g # n => fromPhy'[c][g] = f[g]
      BY <1>3, <1>4, <2>1, <2>4
    <2>6. ASSUME NEW g \in 1 .. n, NEW i \in 1 .. Len(fromPhy'[c][g])
          PROVE  IF g <= n /\ i <= Len(f[g]) THEN fromPhy'[c][g][i] = f[g][i] ELSE fromPhy'[c][g][i] = m
      <3>1. CASE g = n
        <4>1. i \in 1 .. Len(f[n]) + 1 /\ fromPhy'[c][g][i] = h[i]
          BY <2>3, <2>5, <2>6, <3>1
        <4> QED
          BY <2>3, <3>1, <4>1
      <3>2. CASE g # n
        BY <2>5, <2>6, <3>2
      <3> QED
        BY <3>1, <3>2
    <2> QED
      BY <1>2, <1>3, <1>4, <2>5, <2>6
  <1> QED
    BY <1>5, <1>6 DEF Emit

\* The PHY adds slots only while it runs.
LEMMA PhyAdds ==
  ASSUME TypeOK, TypeOK', NEW c \in Cells, PhyRequest(c) \/ PhySlot(c)
  PROVE  /\ \A d \in Cells : d # c => fromPhy'[d] = fromPhy[d]
         /\ \A g \in 1 .. Len(fromPhy'[c]) : \A i \in 1 .. Len(fromPhy'[c][g]) :
              IF g <= Len(fromPhy[c]) /\ i <= Len(fromPhy[c][g])
              THEN fromPhy'[c][g][i] = fromPhy[c][g][i]
              ELSE fromPhy'[c][g][i] = "slot" => l1[c] = "running"
  <1>1. ASSUME NEW m \in Indications, Emit(c, m), m = "slot" => l1[c] = "running"
        PROVE  /\ \A d \in Cells : d # c => fromPhy'[d] = fromPhy[d]
               /\ \A g \in 1 .. Len(fromPhy'[c]) : \A i \in 1 .. Len(fromPhy'[c][g]) :
                    IF g <= Len(fromPhy[c]) /\ i <= Len(fromPhy[c][g])
                    THEN fromPhy'[c][g][i] = fromPhy[c][g][i]
                    ELSE fromPhy'[c][g][i] = "slot" => l1[c] = "running"
    BY <1>1, EmitElements
  <1>2. CASE fromPhy' = fromPhy
    <2>1. fromPhy[c] \in Seq(Seq(Indications))
      BY DEF TypeOK
    <2> QED
      BY <1>2, <2>1
  <1>3. CASE \E m \in Indications \ {"slot"} : Emit(c, m)
    BY <1>1, <1>3
  <1>4. CASE PhySlot(c)
    <2>1. Emit(c, "slot") /\ l1[c] = "running" /\ "slot" \in Indications
      BY <1>4 DEF PhySlot, Indications
    <2> QED
      BY <1>1, <2>1
  <1>5. CASE PhyRequest(c)
    <2>1. \A m \in {"paramRsp", "cfgOk", "cfgErr", "startOk", "startErr", "stopInd", "stopErr"} :
            m \in Indications \ {"slot"}
      BY DEF Indications, Answers, CfgRsps, ErrorInds
    <2> QED
      BY <1>2, <1>3, <1>5, <2>1 DEF PhyRequest, PhyParam, PhyConfig, PhyStart, PhyStop, PhyTti, phyVars
  <1> QED
    BY <1>4, <1>5

\* The times beside the indications, from the PHY to the handlers.
LEMMA SlotsFlow ==
  ASSUME TcInv, TcNext, TypeOK', LoadInv', \A c \in Cells : cfg[c] \in Cases => cfg'[c] \in Cases
  PROVE  SlotInv'
  <1>1. SlotInv /\ SlotTypes /\ TypeOK /\ PhyInv
    BY DEF TcInv, SlotInv
  <1>2. /\ rx \in [Cells -> Seq(Indications)] /\ rx' \in [Cells -> Seq(Indications)]
        /\ fromPhy \in [Cells -> Seq(Seq(Indications))] /\ fromPhy' \in [Cells -> Seq(Seq(Indications))]
    BY <1>1 DEF TypeOK
  <1>3. PICK c \in Cells : MacSteps(c) \/ PhySteps(c)
    BY DEF TcNext
  <1>4. \A d \in Cells : Beside(rx[d], slotrx[d], cfg'[d] \in Cases)
    BY <1>1 DEF SlotInv, Beside
  <1>5. \A d \in Cells : \A g \in 1 .. Len(slotq[d]) : Beside(fromPhy[d][g], slotq[d][g], cfg'[d] \in Cases)
    BY <1>1 DEF SlotInv, Beside
  <1>6. CASE UNCHANGED <<rx, fromPhy, slotrx, slotq>>
    BY <1>1, <1>4, <1>5, <1>6 DEF SlotInv, SlotTypes
  <1>7. ASSUME UNCHANGED <<fromPhy, slotq>>, NEW ms \in Seq(Indications), NEW ts \in Seq(SlotInds),
               rx' = [rx EXCEPT ![c] = ms], slotrx' = [slotrx EXCEPT ![c] = ts],
               Beside(ms, ts, cfg'[c] \in Cases)
        PROVE  SlotInv'
    <2>1. SlotTypes'
      BY <1>1, <1>7 DEF SlotTypes
    <2>2. rx'[c] = ms /\ slotrx'[c] = ts /\ \A d \in Cells : d # c => rx'[d] = rx[d] /\ slotrx'[d] = slotrx[d]
      BY <1>1, <1>2, <1>7 DEF SlotTypes
    <2>3. \A d \in Cells : Beside(rx'[d], slotrx'[d], cfg'[d] \in Cases)
      BY <1>4, <1>7, <2>2
    <2>4. \A d \in Cells : Len(slotq[d]) = Len(fromPhy[d])
      BY <1>1 DEF SlotInv
    <2> QED
      BY <1>5, <1>7, <2>1, <2>3, <2>4 DEF SlotInv
  <1>8. CASE TcSlot(c) \/ TcDecode(c)
    <2>1. /\ rx[c] # <<>> /\ rx' = [rx EXCEPT ![c] = Tail(rx[c])]
          /\ slotrx' = [slotrx EXCEPT ![c] = Tail(slotrx[c])] /\ UNCHANGED <<fromPhy, slotq>>
      BY <1>8 DEF TcSlot, TcDecode, DecSlot, DecConfigRsp, DecStopInd, DecErrorInd, Decodes, phyVars
    <2>2. rx[c] \in Seq(Indications) /\ slotrx[c] \in Seq(SlotInds)
      BY <1>1, <1>2 DEF SlotTypes
    <2>3. Beside(Tail(rx[c]), Tail(slotrx[c]), cfg'[c] \in Cases) /\ Tail(slotrx[c]) \in Seq(SlotInds)
      BY <1>4, <2>1, <2>2, BesideTail
    <2>4. Tail(rx[c]) \in Seq(Indications)
      BY <2>1, <2>2
    <2> QED
      BY <1>7, <2>1, <2>3, <2>4
  <1>9. CASE TcUnknown(c)
    <2>1. /\ rx' = [rx EXCEPT ![c] = <<>>] /\ slotrx' = [slotrx EXCEPT ![c] = <<>>] /\ UNCHANGED <<fromPhy, slotq>>
      BY <1>9 DEF TcUnknown, DecUnknown, phyVars
    <2>2. Beside(<<>>, <<>>, cfg'[c] \in Cases)
      BY DEF Beside
    <2>3. <<>> \in Seq(Indications) /\ <<>> \in Seq(SlotInds)
      OBVIOUS
    <2> QED
      BY <1>7, <2>1, <2>2, <2>3
  <1>10. CASE TcRecv(c)
    <2>1. /\ fromPhy[c] # <<>> /\ rx' = [rx EXCEPT ![c] = Head(fromPhy[c])]
          /\ fromPhy' = [fromPhy EXCEPT ![c] = Tail(fromPhy[c])]
          /\ slotrx' = [slotrx EXCEPT ![c] = Head(slotq[c])] /\ slotq' = [slotq EXCEPT ![c] = Tail(slotq[c])]
      BY <1>10 DEF TcRecv, CtrlRecv
    <2>2. PICK f \in Seq(Seq(Indications)) : f = fromPhy[c]
      BY <1>2
    <2>3. PICK q \in Seq(Seq(SlotInds)) : q = slotq[c]
      BY <1>1 DEF SlotTypes
    <2>4. Len(f) > 0 /\ Len(q) = Len(f)
      BY <1>1, <2>1, <2>2, <2>3 DEF SlotInv
    <2>5. /\ Tail(f) \in Seq(Seq(Indications)) /\ Len(f) \in Nat /\ Len(Tail(f)) = Len(f) - 1 /\ Head(f) = f[1]
          /\ \A i \in 1 .. Len(f) - 1 : Tail(f)[i] = f[i + 1] /\ i + 1 \in 1 .. Len(f)
      BY <2>4, TailElements
    <2>6. /\ Tail(q) \in Seq(Seq(SlotInds)) /\ Len(Tail(q)) = Len(f) - 1 /\ Head(q) = q[1] /\ q[1] \in Seq(SlotInds)
          /\ \A i \in 1 .. Len(f) - 1 : Tail(q)[i] = q[i + 1]
      BY <2>4, TailElements
    <2>7. \A g \in 1 .. Len(f) : Beside(f[g], q[g], cfg'[c] \in Cases)
      BY <1>5, <2>2, <2>3, <2>4
    <2>8. SlotTypes'
      BY <1>1, <2>1, <2>3, <2>6 DEF SlotTypes
    <2>9. /\ rx'[c] = f[1] /\ slotrx'[c] = q[1] /\ fromPhy'[c] = Tail(f) /\ slotq'[c] = Tail(q)
          /\ \A d \in Cells : d # c => rx'[d] = rx[d] /\ slotrx'[d] = slotrx[d] /\ fromPhy'[d] = fromPhy[d] /\ slotq'[d] = slotq[d]
      BY <1>1, <1>2, <2>1, <2>2, <2>3, <2>5, <2>6 DEF SlotTypes
    <2>10. \A d \in Cells : Beside(rx'[d], slotrx'[d], cfg'[d] \in Cases)
      <3>1. 1 \in 1 .. Len(f)
        BY <2>4, <2>5
      <3> QED
        BY <1>4, <2>7, <2>9, <3>1
    <2>11. /\ Len(slotq'[c]) = Len(fromPhy'[c])
           /\ \A g \in 1 .. Len(slotq'[c]) : Beside(fromPhy'[c][g], slotq'[c][g], cfg'[c] \in Cases)
      BY <2>5, <2>6, <2>7, <2>9
    <2>12. \A d \in Cells : d # c =>
             /\ Len(slotq'[d]) = Len(fromPhy'[d])
             /\ \A g \in 1 .. Len(slotq'[d]) : Beside(fromPhy'[d][g], slotq'[d][g], cfg'[d] \in Cases)
      BY <1>1, <1>5, <2>9 DEF SlotInv
    <2> QED
      BY <2>8, <2>10, <2>11, <2>12 DEF SlotInv
  <1>11. CASE PhySteps(c)
    <2>1. Stamps(c) /\ UNCHANGED <<slotrx, cfg, rx>> /\ (PhyRequest(c) \/ PhySlot(c))
      BY <1>11 DEF PhySteps, Keep, PhyRequest, PhySlot, threadVars
    <2>2. /\ \A d \in Cells : d # c => fromPhy'[d] = fromPhy[d]
          /\ \A g \in 1 .. Len(fromPhy'[c]) : \A i \in 1 .. Len(fromPhy'[c][g]) :
               IF g <= Len(fromPhy[c]) /\ i <= Len(fromPhy[c][g])
               THEN fromPhy'[c][g][i] = fromPhy[c][g][i]
               ELSE fromPhy'[c][g][i] = "slot" => l1[c] = "running"
      BY <1>1, <2>1, PhyAdds
    <2>3. PICK f \in Seq(Seq(Indications)) : f = fromPhy[c]
      BY <1>2
    <2>4. PICK h \in Seq(Seq(Indications)) : h = fromPhy'[c]
      BY <1>2
    <2>5. PICK now : now = [time |-> phyTime[c], scs |-> PhyScs(c)]
      OBVIOUS
    <2>6. l1[c] = "running" => now \in SlotInds /\ InFrame(now) /\ cfg[c] \in Cases
      <3>1. ASSUME l1[c] = "running" PROVE now \in SlotInds /\ InFrame(now) /\ cfg[c] \in Cases
        <4>1. phyCfg[c] \in Cases /\ cfg[c] \in Cases /\ phyTime[c].slot < SlotNum(PhyScs(c)) /\ phyTime[c] \in Time
          BY <1>1, <3>1 DEF PhyInv, PhyTypes
        <4>2. PhyScs(c) \in Scs
          BY <4>1, TcAssumption DEF PhyScs
        <4> QED
          BY <2>5, <4>1, <4>2 DEF SlotInds, InFrame, Spacing
      <3> QED
        BY <3>1
    <2>7. NoSlot \in SlotInds
      BY SlotNums DEF NoSlot, SlotInds, Time0, Time, Spacing
    <2>8. slotq' = [slotq EXCEPT ![c] = [g \in DOMAIN h |-> [i \in DOMAIN h[g] |->
              IF g <= Len(f) /\ i <= Len(f[g]) THEN slotq[c][g][i]
              ELSE IF h[g][i] = "slot" THEN now ELSE NoSlot]]]
      BY <2>1, <2>3, <2>4, <2>5 DEF Stamps
    <2>9. slotq'[c] = [g \in DOMAIN h |-> [i \in DOMAIN h[g] |->
              IF g <= Len(f) /\ i <= Len(f[g]) THEN slotq[c][g][i]
              ELSE IF h[g][i] = "slot" THEN now ELSE NoSlot]]
      BY <1>1, <2>8 DEF SlotTypes
    <2>10. DOMAIN h = 1 .. Len(h) /\ Len(h) \in Nat /\ Len(f) \in Nat
      BY <2>3, <2>4
    <2>11. ASSUME NEW g \in 1 .. Len(h)
           PROVE  slotq'[c][g] \in Seq(SlotInds) /\ Beside(h[g], slotq'[c][g], cfg[c] \in Cases)
      <3>1. PICK n \in Nat : n = Len(h[g]) /\ DOMAIN h[g] = 1 .. n
        <4>1. h[g] \in Seq(Indications)
          OBVIOUS
        <4>2. Len(h[g]) \in Nat /\ DOMAIN h[g] = 1 .. Len(h[g])
          BY <4>1
        <4> QED
          BY <4>2
      <3>2. slotq'[c][g] = [i \in 1 .. n |->
              IF g <= Len(f) /\ i <= Len(f[g]) THEN slotq[c][g][i]
              ELSE IF h[g][i] = "slot" THEN now ELSE NoSlot]
        BY <2>9, <2>10, <3>1
      <3>3. ASSUME NEW i \in 1 .. n
            PROVE  /\ slotq'[c][g][i] \in SlotInds
                   /\ h[g][i] = "slot" => InFrame(slotq'[c][g][i]) /\ cfg[c] \in Cases
        <4>1. IF g <= Len(f) /\ i <= Len(f[g]) THEN h[g][i] = f[g][i] ELSE h[g][i] = "slot" => l1[c] = "running"
          BY <2>2, <2>3, <2>4, <3>1
        <4>2. CASE g <= Len(f) /\ i <= Len(f[g])
          <5>1. g \in 1 .. Len(slotq[c]) /\ g \in 1 .. Len(f) /\ slotq[c] \in Seq(Seq(SlotInds))
            BY <1>1, <2>3, <2>10, <4>2 DEF SlotInv, SlotTypes
          <5>2. slotq[c][g] \in Seq(SlotInds) /\ f[g] \in Seq(Indications) /\ Beside(f[g], slotq[c][g], cfg[c] \in Cases)
            BY <1>1, <2>3, <5>1 DEF SlotInv
          <5>3. i \in 1 .. Len(f[g]) /\ Len(slotq[c][g]) = Len(f[g])
            BY <4>2, <5>2 DEF Beside
          <5>4. slotq[c][g][i] \in SlotInds /\ slotq'[c][g][i] = slotq[c][g][i]
            BY <3>2, <4>2, <5>2, <5>3, SMTT(60)
          <5> QED
            BY <4>1, <4>2, <5>2, <5>3, <5>4 DEF Beside
        <4>3. CASE ~(g <= Len(f) /\ i <= Len(f[g]))
          <5>1. slotq'[c][g][i] = IF h[g][i] = "slot" THEN now ELSE NoSlot
            BY <3>2, <4>3
          <5> QED
            BY <2>6, <2>7, <4>1, <4>3, <5>1
        <4> QED
          BY <4>2, <4>3
      <3>4. slotq'[c][g] \in [1 .. n -> SlotInds]
        BY <3>2, <3>3
      <3>5. slotq'[c][g] \in Seq(SlotInds) /\ Len(slotq'[c][g]) = n
        BY <3>4, FunctionSeq
      <3> QED
        BY <3>1, <3>3, <3>5 DEF Beside
    <2>12. slotq'[c] \in Seq(Seq(SlotInds)) /\ Len(slotq'[c]) = Len(h)
      <3>1. slotq'[c] \in [1 .. Len(h) -> Seq(SlotInds)]
        BY <2>9, <2>10, <2>11
      <3> QED
        BY <2>10, <3>1, FunctionSeq
    <2>13. slotq' \in [Cells -> Seq(Seq(SlotInds))] /\ \A d \in Cells : d # c => slotq'[d] = slotq[d]
      BY <1>1, <2>8, <2>9, <2>12 DEF SlotTypes
    <2>14. SlotTypes'
      BY <1>1, <2>1, <2>13 DEF SlotTypes
    <2> QED
      BY <1>1, <2>1, <2>2, <2>4, <2>11, <2>12, <2>13, <2>14 DEF SlotInv
  <1>12. TcTxCase(c) \/ TcSingle(c) \/ TcOther(c) => UNCHANGED <<rx, fromPhy, slotrx, slotq>>
    BY DEF TcTxCase, TcSingle, TcOther, AppTxCase, AppTcSingleCase, AppTcConfigCase, AppTxCaseSched, AppTcStop,
           TcStopCell, TcStopEnd, IssueCmd, phyVars
  <1> QED
    BY <1>3, <1>6, <1>8, <1>9, <1>10, <1>11, <1>12 DEF MacSteps

\* The PHY's configuration and its count of slots.
LEMMA PhyStep == ASSUME TcInv, TcNext, \A c \in Cells : cfg[c] \in Cases => cfg'[c] \in Cases PROVE PhyInv'
  <1>1. PhyInv /\ PhyTypes /\ TypeOK /\ ConfigsInv
    BY DEF TcInv, PhyInv
  <1>2. PICK c \in Cells : MacSteps(c) \/ PhySteps(c)
    BY DEF TcNext
  <1>3. CASE UNCHANGED <<l1, phyCfg, phyTime>>
    BY <1>1, <1>3 DEF PhyInv, PhyTypes, PhyScs
  <1>4. CASE MacSteps(c)
    <2>1. UNCHANGED <<l1, phyCfg, phyTime>>
      BY <1>4 DEF MacSteps, TcTxCase, TcSingle, TcSlot, TcOther, TcRecv, TcDecode, TcUnknown, AppTxCase,
         AppTcSingleCase, DecSlot, AppTcConfigCase, AppTxCaseSched, AppTcStop, TcStopCell, TcStopEnd, IssueCmd,
         CtrlRecv, DecConfigRsp, DecStopInd, DecErrorInd, DecUnknown, phyVars
    <2> QED
      BY <1>3, <2>1
  <1>5. l1 \in [Cells -> {"idle", "configured", "running"}]
    BY <1>1 DEF TypeOK
  <1>6. ASSUME NEW s \in {"idle", "configured", "running"}, NEW p \in Content, NEW t \in Time,
               l1' = [l1 EXCEPT ![c] = s], phyCfg' = [phyCfg EXCEPT ![c] = p], phyTime' = [phyTime EXCEPT ![c] = t],
               s # "idle" => p \in Cases /\ cfg'[c] \in Cases,
               s = "running" => t.slot < SlotNum(ScsOf[p])
        PROVE  PhyInv'
    <2>1. PhyTypes'
      BY <1>1, <1>6 DEF PhyTypes
    <2>2. /\ l1'[c] = s /\ phyCfg'[c] = p /\ phyTime'[c] = t
          /\ \A d \in Cells : d # c => l1'[d] = l1[d] /\ phyCfg'[d] = phyCfg[d] /\ phyTime'[d] = phyTime[d]
      BY <1>1, <1>5, <1>6 DEF PhyTypes
    <2> QED
      BY <1>1, <1>6, <2>1, <2>2 DEF PhyInv, PhyScs
  <1>7. /\ phyCfg[c] \in Content /\ phyTime[c] \in Time /\ l1[c] \in {"idle", "configured", "running"}
        /\ l1[c] # "idle" => phyCfg[c] \in Cases /\ cfg'[c] \in Cases
        /\ l1[c] = "running" => phyTime[c].slot < SlotNum(ScsOf[phyCfg[c]])
        /\ phyCfg = [phyCfg EXCEPT ![c] = phyCfg[c]] /\ phyTime = [phyTime EXCEPT ![c] = phyTime[c]]
        /\ l1 = [l1 EXCEPT ![c] = l1[c]]
    BY <1>1, <1>5 DEF PhyInv, PhyTypes, PhyScs
  <1>8. CASE PhySlot(c) /\ phyTime' = [phyTime EXCEPT ![c] = GsfnShift(@, 1, PhyScs(c))] /\ UNCHANGED phyCfg
    <2>1. l1[c] = "running" /\ l1' = l1 /\ phyTime' = [phyTime EXCEPT ![c] = GsfnShift(phyTime[c], 1, ScsOf[phyCfg[c]])]
      BY <1>8 DEF PhySlot, PhyScs
    <2>2. ScsOf[phyCfg[c]] \in Scs
      BY <1>7, <2>1, TcAssumption
    <2>3. /\ GsfnShift(phyTime[c], 1, ScsOf[phyCfg[c]]) \in Time
          /\ GsfnShift(phyTime[c], 1, ScsOf[phyCfg[c]]).slot < SlotNum(ScsOf[phyCfg[c]])
      BY <1>7, <2>1, <2>2, Shifted
    <2>4. PICK p \in Content : p = phyCfg[c] /\ phyCfg' = [phyCfg EXCEPT ![c] = p]
      BY <1>7, <1>8
    <2>5. PICK t \in Time : phyTime' = [phyTime EXCEPT ![c] = t] /\ t.slot < SlotNum(ScsOf[p])
      BY <2>1, <2>3, <2>4
    <2>6. p \in Cases /\ cfg'[c] \in Cases /\ l1' = [l1 EXCEPT ![c] = "running"]
      BY <1>7, <2>1, <2>4
    <2> QED
      BY <1>6, <2>4, <2>5, <2>6
  <1>9. CASE PhySteps(c) /\ PhyRequest(c)
    <2>1. /\ IF l1[c] = "idle" /\ l1'[c] = "configured"
             THEN Head(cfgq[c]) # NoCase /\ phyCfg' = [phyCfg EXCEPT ![c] = Head(cfgq[c])]
             ELSE phyCfg' = phyCfg
          /\ IF l1[c] = "configured" /\ l1'[c] = "running"
             THEN \E t \in StartTimes :
                    phyTime' = [phyTime EXCEPT ![c] = [t EXCEPT !.slot = @ % SlotNum(PhyScs(c))]]
             ELSE phyTime' = phyTime
      <3>1. ~PhySlot(c)
        <4>1. toPhy' # toPhy
          <5>1. toPhy[c] # <<>> /\ toPhy' = [toPhy EXCEPT ![c] = Tail(@)] /\ toPhy \in [Cells -> Seq(Requests)]
            BY <1>1, <1>9, RequestTaken DEF TypeOK
          <5>2. Len(Tail(toPhy[c])) # Len(toPhy[c])
            BY <5>1
          <5> QED
            BY <5>1, <5>2
        <4> QED
          BY <4>1 DEF PhySlot
      <3> QED
        BY <1>9, <3>1 DEF PhySteps
    <2>2. PICK s \in {"idle", "configured", "running"} :
            /\ l1' = [l1 EXCEPT ![c] = s]
            /\ l1[c] = "idle" => s \in {"idle", "configured"}
      <3>1. \/ l1' = [l1 EXCEPT ![c] = l1[c]]
            \/ l1' = [l1 EXCEPT ![c] = IF l1[c] = "idle" THEN "configured" ELSE l1[c]]
            \/ l1[c] # "idle" /\ l1' = [l1 EXCEPT ![c] = "running"]
            \/ l1' = [l1 EXCEPT ![c] = "idle"]
        BY <1>7, <1>9 DEF PhyRequest, PhyParam, PhyConfig, PhyStart, PhyStop, PhyTti, BecomesL1, phyVars
      <3> QED
        BY <1>7, <3>1
    <2>3. l1'[c] = s
      BY <1>5, <2>2
    <2>4. CASE l1[c] = "idle" /\ s = "configured"
      <3>1. Head(cfgq[c]) \in Cases /\ cfg[c] \in Cases
        <4>1. toPhy[c] # <<>> /\ toPhy[c] \in Seq(Requests)
          BY <1>1, <1>9, RequestTaken DEF TypeOK
        <4>2. cfgq[c] \in Seq(Content) /\ Len(cfgq[c]) = Len(toPhy[c]) /\ Len(cfgq[c]) > 0
          BY <1>1, <4>1 DEF ConfigsInv
        <4>3. Head(cfgq[c]) = cfgq[c][1] /\ cfgq[c][1] \in Content /\ Len(cfgq[c]) \in Nat
          BY <4>2, TailElements
        <4>4. Head(cfgq[c]) # NoCase
          BY <2>1, <2>3, <2>4
        <4>5. 1 \in 1 .. Len(cfgq[c])
          BY <4>2, <4>3
        <4> QED
          BY <1>1, <4>3, <4>4, <4>5 DEF ConfigsInv, Content
      <3>2. phyTime' = phyTime /\ phyCfg' = [phyCfg EXCEPT ![c] = Head(cfgq[c])]
        BY <2>1, <2>3, <2>4
      <3>3. PICK p \in Content : phyCfg' = [phyCfg EXCEPT ![c] = p] /\ p \in Cases /\ cfg'[c] \in Cases
        BY <3>1, <3>2 DEF Content
      <3>4. PICK t \in Time : phyTime' = [phyTime EXCEPT ![c] = t]
        BY <1>7, <3>2
      <3> QED
        BY <1>6, <2>2, <2>4, <3>3, <3>4
    <2>5. CASE l1[c] = "configured" /\ s = "running"
      <3>1. PICK t \in StartTimes : phyTime' = [phyTime EXCEPT ![c] = [t EXCEPT !.slot = @ % SlotNum(ScsOf[phyCfg[c]])]]
        BY <2>1, <2>3, <2>5 DEF PhyScs
      <3>2. phyCfg' = phyCfg /\ ScsOf[phyCfg[c]] \in Scs
        BY <1>7, <2>1, <2>5, TcAssumption
      <3>3. PICK n \in Nat : n = SlotNum(ScsOf[phyCfg[c]]) /\ n > 0 /\ n <= RowSlots
        BY <3>2, SlotNums
      <3>4. t \in Time /\ t.slot \in Nat
        BY SlotNums, TcAssumption DEF Time
      <3>5. t.slot % n \in 0 .. n - 1 /\ t.slot % n \in 0 .. RowSlots - 1
        <4>1. t.slot % n \in 0 .. n - 1
          <5>1. n \in Nat \ {0}
            BY <3>3
          <5> QED
            BY <3>4, <5>1, Euclid
        <4>2. RowSlots \in Nat
          BY SlotNums
        <4> QED
          BY <3>3, <4>1, <4>2
      <3>6. [t EXCEPT !.slot = @ % n] \in Time /\ [t EXCEPT !.slot = @ % n].slot < n
        BY <3>3, <3>4, <3>5 DEF Time
      <3>7. PICK p \in Content : p = phyCfg[c] /\ phyCfg' = [phyCfg EXCEPT ![c] = p]
        BY <1>7, <3>2
      <3>8. PICK u \in Time : phyTime' = [phyTime EXCEPT ![c] = u] /\ u.slot < SlotNum(ScsOf[p])
        BY <3>1, <3>3, <3>6, <3>7
      <3>9. p \in Cases /\ cfg'[c] \in Cases
        BY <1>7, <2>5, <3>7
      <3> QED
        BY <1>6, <2>2, <3>7, <3>8, <3>9
    <2>6. CASE ~(l1[c] = "idle" /\ s = "configured") /\ ~(l1[c] = "configured" /\ s = "running")
      <3>1. phyCfg' = phyCfg /\ phyTime' = phyTime
        BY <2>1, <2>3, <2>6
      <3>2. s # "idle" => l1[c] # "idle"
        BY <2>2, <2>6
      <3>3. s = "running" => l1[c] = "running"
        BY <1>7, <2>2, <2>6
      <3>4. PICK p \in Content : p = phyCfg[c] /\ phyCfg' = [phyCfg EXCEPT ![c] = p]
        BY <1>7, <3>1
      <3>5. PICK t \in Time : t = phyTime[c] /\ phyTime' = [phyTime EXCEPT ![c] = t]
        BY <1>7, <3>1
      <3>6. /\ s # "idle" => p \in Cases /\ cfg'[c] \in Cases
            /\ s = "running" => t.slot < SlotNum(ScsOf[p])
        BY <1>7, <3>2, <3>3, <3>4, <3>5
      <3> QED
        BY <1>6, <2>2, <3>4, <3>5, <3>6
    <2> QED
      BY <2>4, <2>5, <2>6
  <1> QED
    BY <1>2, <1>4, <1>8, <1>9 DEF PhySteps

-----------------------------------------------------------------------------
\* The invariant holds after every step.
LEMMA TcStep == TcInv /\ [TcNext]_vars => TcInv'
  <1> SUFFICES ASSUME TcInv, [TcNext]_vars PROVE TcInv'
    OBVIOUS
  <1>1. TypeOK'
    BY CellStep, TypeStep DEF TcInv
  <1>2. CASE TcNext
    <2>1. LoadInv' /\ \A c \in Cells : cfg[c] \in Cases => cfg'[c] \in Cases
      BY <1>2, LoadStep
    <2> QED
      BY <1>1, <1>2, <2>1, SentStep, ConfigsStep, SlotsFlow, PhyStep DEF TcInv
  <1>3. CASE UNCHANGED vars
    <2>1. UNCHANGED <<rx, toPhy, fromPhy, l1>> /\ UNCHANGED tcVars
      BY <1>3 DEF vars, cellVars, threadVars, phyVars
    <2>2. LoadInv' /\ SentInv'
      BY <2>1 DEF tcVars, TcInv, LoadInv, LoadTypes, Tables, SentInv, SentTypes, StampRight, ContentRight
    <2>3. ConfigsInv' /\ SlotInv' /\ PhyInv'
      BY <2>1 DEF tcVars, TcInv, ConfigsInv, SlotInv, SlotTypes, PhyInv, PhyTypes, PhyScs
    <2> QED
      BY <1>1, <2>2, <2>3 DEF TcInv
  <1> QED
    BY <1>2, <1>3

\* The requests of a slot are for the second slot after the one indicated, across the end of
\* a frame and of the frame numbers, for any number of frames and of slots
\* (macTxStartIndHandle, gsfnShift).
THEOREM StampsRight == TcSpec => []StampRight
  <1>1. TcInv => StampRight
    BY DEF TcInv, SentInv
  <1> QED
    BY <1>1, TcInitInv, TcStep, PTL DEF TcSpec

\* The requests of a slot are what the case loaded last has for it, after any sequence of
\* loads and with any spacing (macTcLoad, macTtiTx).
THEOREM ContentsRight == TcSpec => []ContentRight
  <1>1. TcInv => ContentRight
    BY DEF TcInv, SentInv
  <1> QED
    BY <1>1, TcInitInv, TcStep, PTL DEF TcSpec

(***************************************************************************)
(* Part 3: start-up and console, for any option list, devices present,     *)
(* slave cores and reads.                                                  *)
(***************************************************************************)

\* What holds of the first, and of the next whenever it holds of one, holds of the last:
\* the smallest number for which it did not would have a smaller one before it.
LEMMA UpTo ==
  ASSUME NEW n \in Nat, NEW S, 0 \in S, \A i \in 1 .. n : i - 1 \in S => i \in S
  PROVE  \A i \in 0 .. n : i \in S
  <1> DEFINE T == {i \in 0 .. n : i \notin S}
  <1> SUFFICES ASSUME T # {} PROVE FALSE
    OBVIOUS
  <1>1. T \subseteq Nat
    OBVIOUS
  <1>2. PICK k \in T : \A m \in T : ~(<<m, k>> \in OpToRel(<, Nat))
    <2> HIDE DEF T
    <2> QED
      BY <1>1, NatLessThanWellFounded, WFMin
  <1>3. ASSUME NEW m \in T PROVE ~(m < k)
    <2>1. m \in Nat /\ k \in Nat /\ <<m, k>> \in Nat \X Nat /\ <<m, k>>[1] = m /\ <<m, k>>[2] = k
      BY <1>1
    <2>2. m < k => <<m, k>> \in OpToRel(<, Nat)
      BY <2>1 DEF OpToRel
    <2> QED
      BY <1>2, <2>2
  <1>4. k \in 0 .. n /\ k \notin S
    OBVIOUS
  <1>5. k # 0
    BY <1>4
  <1>6. k \in 1 .. n /\ k - 1 \in 0 .. n /\ k - 1 < k
    BY <1>4, <1>5
  <1>7. k - 1 \in S
    BY <1>3, <1>6
  <1> QED
    BY <1>4, <1>6, <1>7

-----------------------------------------------------------------------------
(***************************************************************************)
(* The words of a read begin with the parameters of its first line.        *)
(***************************************************************************)
BeginsWith(t, u) ==
  /\ t \in Seq(Nat) /\ Len(u) <= Len(t)
  /\ \A k \in 1 .. Len(u) : t[k] = u[k]

\* The first sequences of ss, one after the other, as far as the k-th.
Joined(ss, k, f) ==
  /\ f \in [1 .. k -> Seq(Nat)]
  /\ \A i \in 1 .. k : f[i] = IF i = 1 THEN ss[i] ELSE f[i - 1] \o ss[i]

\* There is such a joining up to any of them.
LEMMA JoinedExists ==
  ASSUME NEW ss \in Seq(Seq(Nat)), ss # <<>>
  PROVE  \E f : Joined(ss, Len(ss), f)
  <1> DEFINE n == Len(ss) - 1
             S == {k \in 0 .. n : \E f : Joined(ss, k + 1, f)}
  <1>0. n \in Nat /\ n + 1 = Len(ss) /\ \A i \in 1 .. n + 1 : ss[i] \in Seq(Nat)
    OBVIOUS
  <1> HIDE DEF n
  <1>1. 0 \in S
    <2> DEFINE f == [i \in 1 .. 1 |-> ss[1]]
    <2>1. Joined(ss, 1, f)
      BY <1>0 DEF Joined
    <2> HIDE DEF f
    <2> QED
      BY <1>0, <2>1
  <1>2. ASSUME NEW k \in 1 .. n, k - 1 \in S PROVE k \in S
    <2>1. PICK f : Joined(ss, k, f)
      <3>1. k - 1 + 1 = k
        BY <1>0
      <3> QED
        BY <1>2, <3>1
    <2>2. f \in [1 .. k -> Seq(Nat)] /\ \A i \in 1 .. k : f[i] = IF i = 1 THEN ss[i] ELSE f[i - 1] \o ss[i]
      BY <2>1 DEF Joined
    <2>3. k \in Nat /\ k \in 1 .. k /\ k + 1 \in 1 .. n + 1 /\ k + 1 # 1
      BY <1>0
    <2>4. PICK y \in Seq(Nat) : y = f[k] \o ss[k + 1]
      <3>1. PICK t \in Seq(Nat), u \in Seq(Nat) : t = f[k] /\ u = ss[k + 1]
        BY <1>0, <2>2, <2>3
      <3>2. t \o u \in Seq(Nat)
        OBVIOUS
      <3> QED
        BY <3>1, <3>2
    <2> DEFINE g == [i \in 1 .. k + 1 |-> IF i <= k THEN f[i] ELSE y]
    <2>5. \A i \in 1 .. k + 1 : g[i] \in Seq(Nat) /\ g[i] = IF i <= k THEN f[i] ELSE y
      BY <2>2, <2>3
    <2>6. g \in [1 .. k + 1 -> Seq(Nat)]
      BY <2>5
    <2> HIDE DEF g
    <2>7. ASSUME NEW i \in 1 .. k + 1 PROVE g[i] = IF i = 1 THEN ss[i] ELSE g[i - 1] \o ss[i]
      <3>1. CASE i = k + 1
        <4>1. k \in 1 .. k + 1 /\ i - 1 = k /\ i # 1 /\ ~(i <= k) /\ k <= k
          BY <2>3, <3>1
        <4>2. g[i] = y /\ g[i - 1] = f[k]
          BY <2>5, <4>1
        <4> QED
          BY <2>4, <3>1, <4>1, <4>2
      <3>2. CASE i # k + 1
        <4>1. i \in 1 .. k /\ i <= k /\ g[i] = f[i]
          BY <2>3, <2>5, <3>2
        <4>2. i # 1 => i - 1 \in 1 .. k + 1 /\ i - 1 <= k
          BY <2>3, <4>1
        <4>3. i # 1 => g[i - 1] = f[i - 1]
          BY <2>5, <4>2
        <4> QED
          BY <2>2, <4>1, <4>3
      <3> QED
        BY <3>1, <3>2
    <2>8. Joined(ss, k + 1, g)
      BY <2>6, <2>7 DEF Joined
    <2>9. k \in 0 .. n
      BY <1>0
    <2> QED
      BY <2>8, <2>9
  <1>3. ASSUME NEW T, T = S PROVE n \in T
    <2> HIDE DEF S
    <2>1. 0 \in T /\ \A i \in 1 .. n : i - 1 \in T => i \in T
      BY <1>1, <1>2, <1>3
    <2>2. \A i \in 0 .. n : i \in T
      BY <1>0, <2>1, UpTo
    <2> QED
      BY <1>0, <2>2
  <1>4. n \in S
    <2> HIDE DEF S
    <2> QED
      BY <1>3
  <1> QED
    BY <1>0, <1>4

LEMMA FlatBegins ==
  ASSUME NEW ss \in Seq(Seq(Nat)), ss # <<>>
  PROVE  BeginsWith(FlattenSeq(ss), ss[1]) /\ (Len(ss) = 1 => FlattenSeq(ss) = ss[1])
  <1> DEFINE n == Len(ss)
             Flat(h) == h = [i \in 1 .. n |-> IF i = 1 THEN ss[i] ELSE h[i - 1] \o ss[i]]
  <1>0. n \in Nat /\ n >= 1 /\ \A i \in 1 .. n : ss[i] \in Seq(Nat)
    OBVIOUS
  <1>1. PICK f : Joined(ss, n, f)
    BY JoinedExists
  <1>2. Flat(f)
    BY <1>1 DEF Joined
  <1>3. PICK g : g = CHOOSE h : Flat(h)
    OBVIOUS
  <1>4. Flat(g)
    BY <1>2, <1>3
  <1>5. FlattenSeq(ss) = g[n]
    BY <1>0, <1>3 DEF FlattenSeq
  <1>6. \A i \in 1 .. n : g[i] = IF i = 1 THEN ss[i] ELSE g[i - 1] \o ss[i]
    BY <1>4
  <1> DEFINE m == n - 1
             S == {i \in 0 .. m : BeginsWith(g[i + 1], ss[1])}
  <1> HIDE DEF n, Flat
  <1>7. m \in Nat /\ m + 1 = n
    BY <1>0
  <1>8. 1 \in 1 .. n /\ g[1] = ss[1]
    BY <1>0, <1>6
  <1>9. 0 \in S
    <2>1. BeginsWith(g[1], ss[1])
      BY <1>0, <1>8 DEF BeginsWith
    <2> QED
      BY <1>7, <2>1
  <1>10. ASSUME NEW i \in 1 .. m, i - 1 \in S PROVE i \in S
    <2>1. i - 1 + 1 = i /\ i + 1 \in 1 .. n /\ i + 1 # 1 /\ i + 1 - 1 = i /\ i \in 0 .. m
      BY <1>7
    <2>2. BeginsWith(g[i], ss[1])
      BY <1>10, <2>1
    <2>3. g[i + 1] = g[i] \o ss[i + 1]
      <3>1. PICK j : j = i + 1
        OBVIOUS
      <3>2. j \in 1 .. n /\ j # 1 /\ j - 1 = i
        BY <1>7, <2>1, <3>1
      <3>3. g[j] = g[j - 1] \o ss[j]
        BY <1>6, <3>2, Zenon
      <3> QED
        BY <3>1, <3>2, <3>3
    <2>4. ss[i + 1] \in Seq(Nat) /\ ss[1] \in Seq(Nat)
      BY <1>0, <1>8, <2>1
    <2>5. BeginsWith(g[i] \o ss[i + 1], ss[1])
      <3>1. PICK t \in Seq(Nat), u \in Seq(Nat), v \in Seq(Nat) : t = g[i] /\ u = ss[i + 1] /\ v = ss[1]
        BY <2>2, <2>4 DEF BeginsWith
      <3>2. Len(v) <= Len(t) /\ \A k \in 1 .. Len(v) : t[k] = v[k]
        BY <2>2, <3>1 DEF BeginsWith
      <3>3. t \o u \in Seq(Nat) /\ Len(t \o u) = Len(t) + Len(u) /\ \A k \in 1 .. Len(t) : (t \o u)[k] = t[k]
        OBVIOUS
      <3>4. BeginsWith(t \o u, v)
        BY <3>2, <3>3 DEF BeginsWith
      <3> QED
        BY <3>1, <3>4
    <2> QED
      BY <2>1, <2>3, <2>5
  <1>11. ASSUME NEW T, T = S PROVE m \in T
    <2> HIDE DEF S, m
    <2>1. 0 \in T /\ \A i \in 1 .. m : i - 1 \in T => i \in T
      BY <1>9, <1>10, <1>11
    <2>2. \A i \in 0 .. m : i \in T
      BY <1>7, <2>1, UpTo
    <2> QED
      BY <1>7, <2>2
  <1>12. m \in S
    <2> HIDE DEF S, m
    <2> QED
      BY <1>11
  <1>13. BeginsWith(g[n], ss[1])
    BY <1>7, <1>12
  <1> QED
    BY <1>5, <1>8, <1>13 DEF n

ReadLine == [name : STRING, params : Seq(Nat)]
LEMMA LineIs == ASSUME NEW line \in ReadLine PROVE line.params \in Seq(Nat)
  BY DEF ReadLine

LEMMA WordsBegin ==
  ASSUME NEW lines \in Seq(ReadLine), lines # <<>>
  PROVE  /\ BeginsWith(Words(lines), lines[1].params)
         /\ Len(lines) = 1 => Words(lines) = lines[1].params
  <1> DEFINE ss == [i \in DOMAIN lines |->
                      IF i = 1 THEN lines[i].params ELSE WordsOf(lines[i].name) \o lines[i].params]
  <1>1. \A i \in 1 .. Len(lines) : lines[i].params \in Seq(Nat)
    <2>1. \A i \in 1 .. Len(lines) : lines[i] \in ReadLine
      OBVIOUS
    <2> QED
      BY <2>1, LineIs
  <1>2. \A w : WordsOf(w) \in Seq(Nat)
    <2> SUFFICES ASSUME NEW w PROVE WordsOf(w) \in Seq(Nat)
      OBVIOUS
    <2>1. <<0, 0>> \in Seq(Nat) /\ <<0, 0, 0>> \in Seq(Nat) /\ <<0>> \in Seq(Nat)
      OBVIOUS
    <2>2. WordsOf(w) \in {<<0, 0>>, <<0, 0, 0>>, <<0>>}
      BY DEF WordsOf
    <2> QED
      BY <2>1, <2>2
  <1>3. \A i \in 1 .. Len(lines) : WordsOf(lines[i].name) \o lines[i].params \in Seq(Nat)
    BY <1>1, <1>2
  <1>4. DOMAIN lines = 1 .. Len(lines) /\ Len(lines) \in Nat /\ Len(lines) >= 1
    OBVIOUS
  <1>5. \A i \in 1 .. Len(lines) : ss[i] = IF i = 1 THEN lines[i].params
                                                 ELSE WordsOf(lines[i].name) \o lines[i].params
    BY <1>4
  <1>6. ss \in [1 .. Len(lines) -> Seq(Nat)]
    BY <1>1, <1>3, <1>4
  <1>7. Words(lines) = FlattenSeq(ss)
    BY DEF Words
  <1> HIDE DEF ss
  <1>8. ss \in Seq(Seq(Nat)) /\ Len(ss) = Len(lines) /\ ss # <<>>
    BY <1>4, <1>6
  <1>9. ss[1] = lines[1].params
    BY <1>4, <1>5
  <1> QED
    BY <1>7, <1>8, <1>9, FlatBegins

-----------------------------------------------------------------------------
\* What the parameters found make of a command is what its help says of the line.
LEMMA ColumnsOf ==
  ASSUME NEW name \in CmdNames \ {"help"}
  PROVE  IF name \in {"tc_config_case", "tc_stop"} THEN Columns(name) = <<"id", "dev", "cell">>
                                                     ELSE Columns(name) = <<"id", "more", "dev", "cell">>
  BY DEF Columns, CmdNames

LEMMA ShortSeqs ==
  ASSUME NEW S, NEW a \in S, NEW b \in S, NEW c \in S, NEW d \in S
  PROVE  /\ <<a, b, c>> \in Seq(S) /\ Len(<<a, b, c>>) \in 0 .. 4
         /\ <<a, b, c, d>> \in Seq(S) /\ Len(<<a, b, c, d>>) \in 0 .. 4
  OBVIOUS

ColumnNames == {"id", "more", "dev", "cell"}
LEMMA ColumnsTyped ==
  ASSUME NEW name \in CmdNames \ {"help"}
  PROVE  Columns(name) \in Seq(ColumnNames) /\ Len(Columns(name)) \in 0 .. 4
  <1>1. <<"id", "dev", "cell">> \in Seq(ColumnNames) /\ Len(<<"id", "dev", "cell">>) \in 0 .. 4
    BY ShortSeqs DEF ColumnNames
  <1>2. <<"id", "more", "dev", "cell">> \in Seq(ColumnNames) /\ Len(<<"id", "more", "dev", "cell">>) \in 0 .. 4
    BY ShortSeqs DEF ColumnNames
  <1>3. Columns(name) = <<"id", "dev", "cell">> \/ Columns(name) = <<"id", "more", "dev", "cell">>
    BY ColumnsOf
  <1> QED
    BY <1>1, <1>2, <1>3

\* The place of a column, if the line gets that far.
LEMMA ColumnAt ==
  ASSUME NEW cols, NEW n \in Nat, cols \in Seq(ColumnNames), NEW k \in 1 .. Len(cols),
         \A i \in 1 .. Len(cols) : i # k => cols[i] # cols[k]
  PROVE  /\ (\E i \in 1 .. n : i <= Len(cols) /\ cols[i] = cols[k]) <=> k <= n
         /\ (CHOOSE i \in DOMAIN cols : cols[i] = cols[k]) = k
  <1>1. DOMAIN cols = 1 .. Len(cols) /\ Len(cols) \in Nat
    OBVIOUS
  <1>2. \A i \in DOMAIN cols : cols[i] = cols[k] <=> i = k
    BY <1>1
  <1>3. (CHOOSE i \in DOMAIN cols : cols[i] = cols[k]) = k
    BY <1>1, <1>2
  <1>4. (\E i \in 1 .. n : i <= Len(cols) /\ cols[i] = cols[k]) <=> k <= n
    BY <1>1, <1>2
  <1> QED
    BY <1>3, <1>4

LEMMA MeantIsSent ==
  ASSUME NEW line \in ReadLine, line.name \in CmdNames \ {"help"}, NEW p,
         \A k \in 1 .. 4 : k <= Len(Columns(line.name)) =>
           p[k] = IF k <= Len(line.params) THEN line.params[k] ELSE 0
  PROVE  Message(line.name, p) = Meant(line)
  <1> DEFINE cols == Columns(line.name)
             n == Len(line.params)
             At(c) == IF \E k \in DOMAIN line.params : k <= Len(cols) /\ cols[k] = c
                      THEN line.params[CHOOSE k \in DOMAIN cols : cols[k] = c] ELSE 0
  <1>1. n \in Nat /\ DOMAIN line.params = 1 .. n
    BY DEF ReadLine
  <1>2. Meant(line) = [id |-> line.name,
                       paras |-> <<At("id") % 65536, At("more") % 65536, At("dev") % 256, At("cell") % 256>>]
    BY DEF Meant
  <1>3. cols \in Seq(ColumnNames) /\ Len(cols) \in 0 .. 4
    BY ColumnsTyped
  <1>4. ASSUME NEW k \in 1 .. 4, k <= Len(cols), \A i \in 1 .. Len(cols) : i # k => cols[i] # cols[k]
        PROVE  At(cols[k]) = p[k]
    <2>1. k \in 1 .. Len(cols)
      BY <1>3, <1>4
    <2> HIDE DEF cols
    <2>2. /\ (\E i \in 1 .. n : i <= Len(cols) /\ cols[i] = cols[k]) <=> k <= n
          /\ (CHOOSE i \in DOMAIN cols : cols[i] = cols[k]) = k
      BY <1>1, <1>3, <1>4, <2>1, ColumnAt
    <2>3. At(cols[k]) = IF k <= n THEN line.params[k] ELSE 0
      <3>1. (\E i \in DOMAIN line.params : i <= Len(cols) /\ cols[i] = cols[k]) <=> k <= n
        BY <1>1, <2>2
      <3>2. PICK j : j = CHOOSE i \in DOMAIN cols : cols[i] = cols[k]
        OBVIOUS
      <3>3. At(cols[k]) = IF \E i \in DOMAIN line.params : i <= Len(cols) /\ cols[i] = cols[k]
                          THEN line.params[j] ELSE 0
        BY <3>2
      <3>4. j = k
        BY <2>2, <3>2
      <3> QED
        BY <3>1, <3>3, <3>4
    <2>4. p[k] = IF k <= n THEN line.params[k] ELSE 0
      BY <1>4 DEF cols
    <2> QED
      BY <2>3, <2>4
  <1>5. CASE line.name \in {"tc_config_case", "tc_stop"}
    <2>1. cols = <<"id", "dev", "cell">> /\ Len(cols) = 3
      BY <1>5, ColumnsOf
    <2>2. cols[1] = "id" /\ cols[2] = "dev" /\ cols[3] = "cell" /\ 1 .. Len(cols) = {1, 2, 3}
      BY <2>1
    <2>3. At("more") = 0
      <3>1. \A k \in DOMAIN line.params : ~(k <= Len(cols) /\ cols[k] = "more")
        BY <1>1, <2>1, <2>2
      <3> QED
        BY <3>1
    <2> HIDE DEF At, cols
    <2>4. At("id") = p[1] /\ At("dev") = p[2] /\ At("cell") = p[3]
      <3>1. At(cols[1]) = p[1]
        BY <1>4, <2>1, <2>2
      <3>2. At(cols[2]) = p[2]
        BY <1>4, <2>1, <2>2
      <3>3. At(cols[3]) = p[3]
        BY <1>4, <2>1, <2>2
      <3> QED
        BY <2>2, <3>1, <3>2, <3>3
    <2>5. Message(line.name, p) = [id |-> line.name, paras |-> <<p[1] % 65536, 0, p[2] % 256, p[3] % 256>>]
      BY <1>5 DEF Message
    <2>6. 0 % 65536 = 0
      OBVIOUS
    <2> QED
      BY <1>2, <2>3, <2>4, <2>5, <2>6
  <1>6. CASE line.name \notin {"tc_config_case", "tc_stop"}
    <2>1. cols = <<"id", "more", "dev", "cell">> /\ Len(cols) = 4
      BY <1>6, ColumnsOf
    <2>2. /\ cols[1] = "id" /\ cols[2] = "more" /\ cols[3] = "dev" /\ cols[4] = "cell"
          /\ 1 .. Len(cols) = {1, 2, 3, 4}
      BY <2>1
    <2> HIDE DEF At, cols
    <2>3. At("id") = p[1] /\ At("more") = p[2] /\ At("dev") = p[3] /\ At("cell") = p[4]
      <3>1. At(cols[1]) = p[1]
        BY <1>4, <2>1, <2>2
      <3>2. At(cols[2]) = p[2]
        BY <1>4, <2>1, <2>2
      <3>3. At(cols[3]) = p[3]
        BY <1>4, <2>1, <2>2
      <3>4. At(cols[4]) = p[4]
        BY <1>4, <2>1, <2>2
      <3> QED
        BY <2>2, <3>1, <3>2, <3>3, <3>4
    <2>4. Message(line.name, p)
            = [id |-> line.name, paras |-> <<p[1] % 65536, p[2] % 65536, p[3] % 256, p[4] % 256>>]
      BY <1>6 DEF Message
    <2> QED
      BY <1>2, <2>3, <2>4
  <1> QED
    BY <1>5, <1>6

LEMMA OneOrMore == ASSUME NEW S, NEW s \in Seq(S), s # <<>> PROVE Len(s) = 1 \/ Len(s) > 1
  <1>1. PICK l \in Nat : l = Len(s) /\ l >= 1
    OBVIOUS
  <1> QED
    BY <1>1

LEMMA ReadsAre == Reads \subseteq Seq(ReadLine) /\ \A r \in Reads : r # <<>>
  BY ConsoleAssumption DEF ReadLine

\* A read is obeyed, whatever was read before it.
LEMMA ReadObeyed == ASSUME NEW lines \in Reads, ReadCmd(lines) PROVE LineObeyed'
  <1> DEFINE line == lines[1]
             p == SplitStr(Words(lines))
             parsed == CmdOf(lines) \in CmdNames \ {"help"}
  <1>1. last' = [lines |-> lines, sent |-> IF parsed THEN <<Message(CmdOf(lines), p)>> ELSE <<>>]
    BY DEF ReadCmd
  <1>2. lines \in Seq(ReadLine) /\ lines # <<>> /\ line \in ReadLine /\ line.params \in Seq(Nat)
    <2>1. lines \in Seq(ReadLine) /\ lines # <<>>
      BY ReadsAre
    <2>2. line \in ReadLine
      BY <2>1
    <2> QED
      BY <2>1, <2>2, LineIs
  <1>21. Len(lines) = 1 \/ Len(lines) > 1
    BY <1>2, OneOrMore
  <1> SUFFICES ASSUME Len(lines) = 1 \/ Len(line.params) >= Len(Columns(line.name)),
                      Len(lines) > 1 => line.params # <<>>
               PROVE  last'.sent = IF line.name \in CmdNames \ {"help"} THEN <<Meant(line)>> ELSE <<>>
    BY <1>1 DEF LineObeyed
  <1>3. CmdOf(lines) = line.name
    BY <1>21 DEF CmdOf
  <1>4. CASE line.name \notin CmdNames \ {"help"}
    BY <1>1, <1>3, <1>4
  <1>5. CASE line.name \in CmdNames \ {"help"}
    <2>1. ASSUME NEW k \in 1 .. 4, k <= Len(Columns(line.name))
          PROVE  p[k] = IF k <= Len(line.params) THEN line.params[k] ELSE 0
      <3>1. BeginsWith(Words(lines), line.params) /\ (Len(lines) = 1 => Words(lines) = line.params)
        BY <1>2, WordsBegin
      <3>2. p[k] = IF k <= Len(Words(lines)) THEN Words(lines)[k] ELSE 0
        BY DEF SplitStr, SplitNum
      <3>3. PICK c \in Nat : c = Len(Columns(line.name))
        BY <1>5, ColumnsTyped
      <3>4. PICK n \in Nat, m \in Nat : n = Len(line.params) /\ m = Len(Words(lines))
        BY <1>2, <3>1 DEF BeginsWith
      <3>5. n <= m /\ \A i \in 1 .. n : Words(lines)[i] = line.params[i]
        BY <3>1, <3>4 DEF BeginsWith
      <3>6. CASE Len(lines) = 1
        BY <3>1, <3>2, <3>6
      <3>7. CASE n >= c
        <4>1. k \in 1 .. n /\ k <= n /\ k <= m
          BY <2>1, <3>3, <3>5, <3>7
        <4> QED
          BY <3>2, <3>4, <3>5, <4>1
      <3> QED
        BY <3>3, <3>4, <3>6, <3>7
    <2>2. Message(line.name, p) = Meant(line)
      <3> HIDE DEF p
      <3> QED
        BY <1>2, <1>5, <2>1, MeantIsSent
    <2> QED
      BY <1>1, <1>3, <1>5, <2>2
  <1> QED
    BY <1>4, <1>5

-----------------------------------------------------------------------------
(***************************************************************************)
(* The options, and the threads.  What has been read of the options is a   *)
(* prefix, and the cells are those of the greatest mask in it that is not  *)
(* 0; while macInit runs, the cores up to cpu_index have the threads       *)
(* wanted of the devices before launchDev.                                 *)
(***************************************************************************)
Options == [opt : STRING, num : Nat \cup {-1}]

\* g_cellNum after n options.
CellsAfter(n) ==
  \/ (\A k \in Masks : ~(k <= n)) /\ g_cellNum = [d \in Devs |-> 1]
  \/ \E m \in Masks : /\ m <= n /\ \A k \in Masks : k <= n => k <= m
                      /\ g_cellNum = CellsOf(options[m].num)

WantedBefore(d) == {dc \in Wanted : dc[1] < d}
\* The cores up to the n-th have the threads of ws, one each.
Serves(ts, n, ws) ==
  /\ n \in Nat /\ IsFiniteSet(ws) /\ n = Cardinality(ws)
  /\ DOMAIN ts = 1 .. n
  /\ \A i \in 1 .. n : ts[i] \in ws
  /\ \A dc \in ws : \E i \in 1 .. n : ts[i] = dc
Placed ==
  /\ launchDev \in 0 .. Devices /\ cpu_index <= 2 * launchDev
  /\ Serves(threads, cpu_index, WantedBefore(launchDev))

BootInv ==
  /\ boot \in {"args", "launch", "run", "exit", "stuck"}
  /\ options \in Seq(Options) /\ g_devMapPort \subseteq Devs
  /\ \E n \in 0 .. 10 : slaveCore = [i \in 0 .. 9 |-> IF i < n THEN i + 1 ELSE 0]
  /\ boot = "args" =>
       /\ \E n \in 0 .. Len(options) : args = SubSeq(options, n + 1, Len(options)) /\ CellsAfter(n)
       /\ launchDev = 0 /\ cpu_index = 0 /\ threads = <<>>
  /\ boot \in {"launch", "run"} => CellsAfter(Len(options)) /\ Placed
  /\ boot = "run" => launchDev = Devices
  /\ boot = "stuck" => Cardinality({i \in 0 .. 9 : slaveCore[i] # 0}) < Cardinality(Wanted)

ConInv == BootInv /\ LineObeyed

LEMMA ConsoleIs ==
  /\ Devices \in 1 .. 5 /\ \A b \in Boards : b \subseteq Devs
  /\ \A l \in ArgLists : l \in Seq(Options)
  /\ \A n \in CoreNums : n \in 0 .. 10
  BY ConsoleAssumption DEF Devs, Options

\* Two bits are a number below 4.
LEMMA PairIs == ASSUME NEW n \in Nat, NEW d \in 0 .. 4 PROVE (n \div (4^d)) % 4 \in 0 .. 3
  <1>1. 4^0 = 1 /\ 4^1 = 4 /\ 4^2 = 16 /\ 4^3 = 64 /\ 4^4 = 256
    OBVIOUS
  <1>2. PICK p \in Nat \ {0} : p = 4^d
    <2>1. d = 0 \/ d = 1 \/ d = 2 \/ d = 3 \/ d = 4
      OBVIOUS
    <2>2. 4^d \in {1, 4, 16, 64, 256}
      <3>1. CASE d = 0
        BY <1>1, <3>1
      <3>2. CASE d = 1
        BY <1>1, <3>2
      <3>3. CASE d = 2
        BY <1>1, <3>3
      <3>4. CASE d = 3
        BY <1>1, <3>4
      <3>5. CASE d = 4
        BY <1>1, <3>5
      <3> QED
        BY <2>1, <3>1, <3>2, <3>3, <3>4, <3>5
    <2> QED
      BY <2>2
  <1>3. PICK q \in Int : q = n \div p
    OBVIOUS
  <1>4. q % 4 \in 0 .. 3
    OBVIOUS
  <1> QED
    BY <1>2, <1>3, <1>4

LEMMA MasksAre ==
  ASSUME options \in Seq(Options)
  PROVE  Masks \subseteq 1 .. Len(options) /\ \A k \in Masks : options[k].num \in Nat /\ options[k].num > 0
  <1>1. \A k \in 1 .. Len(options) : options[k].num \in Nat \cup {-1}
    <2>1. \A k \in 1 .. Len(options) : options[k] \in Options
      OBVIOUS
    <2>2. \A o \in Options : o.num \in Nat \cup {-1}
      BY DEF Options
    <2> QED
      BY <2>1, <2>2
  <1> QED
    BY <1>1 DEF Masks

\* Once the options are read, a device has two cells where two are asked for.
LEMMA TwoAsked ==
  ASSUME options \in Seq(Options), CellsAfter(Len(options)), NEW d \in Devs
  PROVE  TwoCells(d) <=> AskedTwo(d)
  <1>1. d \in 0 .. 4
    BY ConsoleIs DEF Devs
  <1>2. CASE Masks = {}
    <2>1. g_cellNum = [e \in Devs |-> 1]
      BY <1>2 DEF CellsAfter
    <2> QED
      BY <1>2, <2>1 DEF TwoCells, AskedTwo
  <1>3. CASE Masks # {}
    <2>1. PICK m \in Masks : (\A k \in Masks : k <= m) /\ g_cellNum = CellsOf(options[m].num)
      <3>1. \A k \in Masks : k <= Len(options)
        BY MasksAre
      <3> QED
        BY <1>3, <3>1 DEF CellsAfter
    <2>2. Max(Masks) = m
      <3>1. Masks \subseteq Nat
        BY MasksAre
      <3>2. \A x \in Masks : (\A y \in Masks : x >= y) => x = m
        BY <2>1, <3>1
      <3>3. m \in Masks /\ \A y \in Masks : m >= y
        BY <2>1, <3>1
      <3>4. Max(Masks) \in Masks /\ \A y \in Masks : Max(Masks) >= y
        BY <3>3 DEF Max
      <3> QED
        BY <3>2, <3>4
    <2>3. g_cellNum[d] = (options[m].num \div (4^d)) % 4
      BY <2>1 DEF CellsOf
    <2>4. options[m].num \in Nat
      BY MasksAre
    <2>5. g_cellNum[d] \in 0 .. 3
      BY <1>1, <2>3, <2>4, PairIs
    <2>6. AskedTwo(d) <=> g_cellNum[d] >= 2
      BY <1>3, <2>2, <2>3 DEF AskedTwo
    <2> QED
      BY <2>5, <2>6 DEF TwoCells
  <1> QED
    BY <1>2, <1>3

LEMMA ConFirst == ConInit => ConInv
  <1> SUFFICES ASSUME ConInit PROVE ConInv
    OBVIOUS
  <1>1. /\ boot = "args" /\ options \in Seq(Options) /\ args = options /\ g_devMapPort \subseteq Devs
        /\ g_cellNum = [d \in Devs |-> 1] /\ launchDev = 0 /\ cpu_index = 0 /\ threads = <<>>
    BY ConsoleIs DEF ConInit
  <1>2. \E n \in 0 .. 10 : slaveCore = [i \in 0 .. 9 |-> IF i < n THEN i + 1 ELSE 0]
    BY ConsoleIs DEF ConInit
  <1>3. CellsAfter(0)
    <2>1. \A k \in Masks : k \in 1 .. Len(options)
      BY <1>1, MasksAre
    <2> QED
      BY <1>1, <2>1 DEF CellsAfter
  <1>4. args = SubSeq(options, 0 + 1, Len(options)) /\ 0 \in 0 .. Len(options)
    BY <1>1
  <1>5. LineObeyed
    BY DEF ConInit, LineObeyed
  <1>6. BootInv
    BY <1>1, <1>2, <1>3, <1>4 DEF BootInv
  <1> QED
    BY <1>5, <1>6 DEF ConInv

\* Whatever leaves these alone keeps what is built of them.
LEMMA SameOptions ==
  ASSUME UNCHANGED <<options, g_devMapPort>>
  PROVE  /\ Masks' = Masks /\ Wanted' = Wanted
         /\ \A d : WantedBefore(d)' = WantedBefore(d)
  BY DEF Masks, Wanted, AskedTwo, WantedBefore

LEMMA ParseKeeps == ASSUME ConInv, ParseOption PROVE ConInv'
  <1>1. /\ boot = "args" /\ args # <<>> /\ boot' \in {"args", "exit"} /\ args' = Tail(args)
        /\ UNCHANGED <<g_devMapPort, slaveCore, launchDev, cpu_index, threads, options, last>>
    BY DEF ParseOption, cmdVars
  <1>2. /\ options \in Seq(Options) /\ g_devMapPort \subseteq Devs
        /\ launchDev = 0 /\ cpu_index = 0 /\ threads = <<>>
        /\ \E n \in 0 .. 10 : slaveCore = [i \in 0 .. 9 |-> IF i < n THEN i + 1 ELSE 0]
    BY <1>1 DEF ConInv, BootInv
  <1>3. PICK n \in 0 .. Len(options) : args = SubSeq(options, n + 1, Len(options)) /\ CellsAfter(n)
    BY <1>1 DEF ConInv, BootInv
  <1>4. /\ n + 1 \in 0 .. Len(options) /\ n + 1 \in 1 .. Len(options) /\ Head(args) = options[n + 1]
        /\ Tail(args) = SubSeq(options, n + 1 + 1, Len(options))
    <2>1. PICK l \in Nat : l = Len(options)
      BY <1>2
    <2>2. n < l
      <3> SUFFICES ASSUME n = l PROVE FALSE
        BY <2>1
      <3>1. SubSeq(options, n + 1, Len(options)) = <<>>
        BY <1>2, <2>1
      <3> QED
        BY <1>1, <1>3, <3>1
    <2> QED
      BY <1>2, <1>3, <2>1, <2>2
  <1>5. Masks' = Masks
    BY <1>1, SameOptions
  <1>6. CellsAfter(n + 1)'
    <2>1. \A k \in Masks : k \in 1 .. Len(options) /\ (k <= n + 1 <=> k <= n \/ k = n + 1)
      BY <1>2, MasksAre
    <2>2. options[n + 1] \in Options
      BY <1>2, <1>4
    <2>3. options[n + 1].num \in Nat \cup {-1}
      BY <2>2 DEF Options
    <2>4. g_cellNum' = IF options[n + 1].opt = "C" /\ Number(options[n + 1].num) # 0
                       THEN CellsOf(Number(options[n + 1].num)) ELSE g_cellNum
      BY <1>4 DEF ParseOption
    <2>5. CASE n + 1 \in Masks
      <3>1. options[n + 1].opt = "C" /\ options[n + 1].num > 0
        BY <2>5 DEF Masks
      <3>2. Number(options[n + 1].num) = options[n + 1].num /\ options[n + 1].num # 0
        BY <2>3, <3>1 DEF Number
      <3>3. g_cellNum' = CellsOf(options[n + 1].num)
        BY <2>4, <3>1, <3>2
      <3>4. CellsOf(options[n + 1].num)' = CellsOf(options[n + 1].num)
        BY <1>1 DEF CellsOf
      <3>5. \A k \in Masks : k <= n + 1 => k <= n + 1
        OBVIOUS
      <3>6. n + 1 <= n + 1
        BY <1>3
      <3> QED
        BY <1>5, <2>5, <3>3, <3>4, <3>5, <3>6 DEF CellsAfter
    <2>6. CASE n + 1 \notin Masks
      <3>1. ~(options[n + 1].opt = "C" /\ options[n + 1].num > 0)
        BY <1>4, <2>6 DEF Masks
      <3>2. g_cellNum' = g_cellNum
        BY <2>3, <2>4, <3>1 DEF Number
      <3>3. \A k \in Masks : k <= n + 1 <=> k <= n
        BY <2>1, <2>6
      <3>4. \A m \in Masks : CellsOf(options[m].num)' = CellsOf(options[m].num)
        BY <1>1 DEF CellsOf
      <3>5. CASE (\A k \in Masks : ~(k <= n)) /\ g_cellNum = [d \in Devs |-> 1]
        BY <1>5, <3>2, <3>3, <3>5 DEF CellsAfter
      <3>6. ASSUME NEW m \in Masks, m <= n, \A k \in Masks : k <= n => k <= m, g_cellNum = CellsOf(options[m].num)
            PROVE  CellsAfter(n + 1)'
        <4>1. g_cellNum' = CellsOf(options'[m].num)
          BY <1>1, <3>2, <3>6
        <4>2. m <= n + 1 /\ \A k \in Masks : k <= n + 1 => k <= m
          BY <3>3, <3>6
        <4> QED
          BY <1>5, <4>1, <4>2 DEF CellsAfter
      <3> QED
        BY <1>3, <3>5, <3>6 DEF CellsAfter
    <2> QED
      BY <2>5, <2>6
  <1>7. BootInv'
    <2>1. \E k \in 0 .. Len(options)' : args' = SubSeq(options', k + 1, Len(options')) /\ CellsAfter(k)'
      BY <1>1, <1>4, <1>6
    <2> QED
      BY <1>1, <1>2, <2>1 DEF BootInv
  <1>8. LineObeyed'
    BY <1>1 DEF ConInv, LineObeyed
  <1> QED
    BY <1>7, <1>8 DEF ConInv

LEMMA NoneBefore == ASSUME g_devMapPort \subseteq Devs PROVE WantedBefore(0) = {}
  <1>1. \A dc \in Wanted : dc[1] \in Devs
    BY DEF Wanted
  <1> QED
    BY <1>1 DEF WantedBefore, Devs

LEMMA ArgsDoneKeeps == ASSUME ConInv, ArgsDone PROVE ConInv'
  <1>1. /\ boot = "args" /\ args = <<>> /\ boot' = "launch"
        /\ UNCHANGED <<g_cellNum, g_devMapPort, slaveCore, launchDev, cpu_index, threads, options, last>>
    BY DEF ArgsDone, bootVars, cmdVars
  <1>2. /\ options \in Seq(Options) /\ g_devMapPort \subseteq Devs
        /\ launchDev = 0 /\ cpu_index = 0 /\ threads = <<>>
        /\ \E n \in 0 .. 10 : slaveCore = [i \in 0 .. 9 |-> IF i < n THEN i + 1 ELSE 0]
    BY <1>1 DEF ConInv, BootInv
  <1>3. PICK n \in 0 .. Len(options) : args = SubSeq(options, n + 1, Len(options)) /\ CellsAfter(n)
    BY <1>1 DEF ConInv, BootInv
  <1>4. n = Len(options)
    <2>1. PICK l \in Nat : l = Len(options)
      BY <1>2
    <2>2. n < l => Len(SubSeq(options, n + 1, l)) = l - n
      BY <1>2, <2>1
    <2>3. ~(n < l)
      <3>1. SubSeq(options, n + 1, l) = <<>>
        BY <1>1, <1>3, <2>1
      <3>2. Len(SubSeq(options, n + 1, l)) = 0
        <4>1. Len(<<>>) = 0
          OBVIOUS
        <4> QED
          BY <3>1, <4>1
      <3> QED
        BY <2>1, <2>2, <3>2
    <2> QED
      BY <2>1, <2>3
  <1>5. CellsAfter(Len(options))'
    <2>1. CellsAfter(Len(options))
      BY <1>3, <1>4
    <2> QED
      BY <1>1, <2>1 DEF CellsAfter, Masks, CellsOf
  <1>6. Placed'
    <2>1. WantedBefore(0)' = {}
      BY <1>1, <1>2, NoneBefore, SameOptions
    <2>2. launchDev' = 0 /\ cpu_index' = 0 /\ threads' = <<>> /\ 0 \in 0 .. Devices /\ DOMAIN threads' = 1 .. 0
      BY <1>1, <1>2, ConsoleIs
    <2>3. WantedBefore(launchDev)' = {}
      BY <2>1, <2>2 DEF WantedBefore
    <2>4. IsFiniteSet({}) /\ Cardinality({}) = 0
      BY FS_EmptySet
    <2>5. Serves(<<>>, 0, {})
      BY <2>4 DEF Serves
    <2>6. Serves(threads', cpu_index', WantedBefore(launchDev)')
      BY <2>2, <2>3, <2>5
    <2> QED
      BY <2>2, <2>6 DEF Placed
  <1>7. BootInv'
    BY <1>1, <1>2, <1>5, <1>6 DEF BootInv
  <1>8. LineObeyed'
    BY <1>1 DEF ConInv, LineObeyed
  <1> QED
    BY <1>7, <1>8 DEF ConInv

\* A thread more on the next core.
LEMMA ServesMore ==
  ASSUME NEW ts, NEW n \in Nat, NEW ws, Serves(ts, n, ws), NEW dc, dc \notin ws
  PROVE  Serves(Launched(ts, n + 1, dc), n + 1, ws \cup {dc})
  <1>1. PICK t : t = Launched(ts, n + 1, dc)
    OBVIOUS
  <1>2. DOMAIN ts = 1 .. n /\ (\A i \in 1 .. n : ts[i] \in ws) /\ \A w \in ws : \E i \in 1 .. n : ts[i] = w
    BY DEF Serves
  <1>3. n + 1 \notin 1 .. n /\ n + 1 # 0 /\ (1 .. n) \cup {n + 1} = 1 .. n + 1
    OBVIOUS
  <1>4. t = [c \in 1 .. n + 1 |-> IF c = n + 1 THEN dc ELSE ts[c]]
    BY <1>1, <1>2, <1>3 DEF Launched
  <1>5. DOMAIN t = 1 .. n + 1 /\ t[n + 1] = dc /\ \A i \in 1 .. n : t[i] = ts[i]
    BY <1>3, <1>4
  <1>6. \A i \in 1 .. n + 1 : t[i] \in ws \cup {dc}
    BY <1>2, <1>3, <1>5
  <1>7. \A w \in ws \cup {dc} : \E i \in 1 .. n + 1 : t[i] = w
    BY <1>2, <1>3, <1>5
  <1>8. IsFiniteSet(ws \cup {dc}) /\ Cardinality(ws \cup {dc}) = n + 1
    BY FS_AddElement DEF Serves
  <1>9. n + 1 \in Nat
    BY DEF Serves
  <1>10. Serves(t, n + 1, ws \cup {dc})
    BY <1>5, <1>6, <1>7, <1>8, <1>9 DEF Serves
  <1> QED
    BY <1>1, <1>10

LEMMA WantedFinite == ASSUME g_devMapPort \subseteq Devs PROVE IsFiniteSet(Wanted)
  <1>1. IsFiniteSet(0 .. Devices - 1) /\ IsFiniteSet(0 .. 1)
    <2>1. Devices - 1 \in Int /\ 0 \in Int /\ 1 \in Int
      BY ConsoleIs
    <2> QED
      BY <2>1, FS_Interval
  <1>2. 0 .. 1 = {0, 1}
    OBVIOUS
  <1>3. IsFiniteSet(Devs \X {0, 1})
    BY <1>1, <1>2, FS_Product DEF Devs
  <1>4. Wanted \subseteq Devs \X {0, 1}
    BY DEF Wanted
  <1> QED
    BY <1>3, <1>4, FS_Subset

LEMMA CoresAre ==
  ASSUME NEW n \in 0 .. 10, slaveCore = [i \in 0 .. 9 |-> IF i < n THEN i + 1 ELSE 0]
  PROVE  /\ \A i \in 0 .. 9 : slaveCore[i] = IF i < n THEN i + 1 ELSE 0
         /\ Cardinality({i \in 0 .. 9 : slaveCore[i] # 0}) = n
  <1>1. \A i \in 0 .. 9 : slaveCore[i] = IF i < n THEN i + 1 ELSE 0
    OBVIOUS
  <1>2. {i \in 0 .. 9 : slaveCore[i] # 0} = 0 .. n - 1
    BY <1>1
  <1>3. Cardinality(0 .. n - 1) = n
    BY FS_Interval
  <1> QED
    BY <1>1, <1>2, <1>3

\* The threads wanted of one device more.
LEMMA WantedNext ==
  ASSUME g_devMapPort \subseteq Devs, NEW d \in Devs
  PROVE  /\ d \notin g_devMapPort => WantedBefore(d + 1) = WantedBefore(d)
         /\ d \in g_devMapPort =>
              WantedBefore(d + 1) = IF AskedTwo(d) THEN (WantedBefore(d) \cup {<<d, 0>>}) \cup {<<d, 1>>}
                                                   ELSE WantedBefore(d) \cup {<<d, 0>>}
         /\ <<d, 0>> \notin WantedBefore(d) /\ <<d, 1>> \notin WantedBefore(d) \cup {<<d, 0>>}
  <1>1. \A dc \in Wanted : /\ dc \in g_devMapPort \X {0, 1} /\ dc[1] \in Nat /\ dc = <<dc[1], dc[2]>>
                           /\ dc[1] < d + 1 <=> (dc[1] < d \/ dc[1] = d)
    <2> SUFFICES ASSUME NEW dc \in Wanted
                 PROVE  /\ dc \in g_devMapPort \X {0, 1} /\ dc[1] \in Nat /\ dc = <<dc[1], dc[2]>>
                        /\ dc[1] < d + 1 <=> (dc[1] < d \/ dc[1] = d)
      OBVIOUS
    <2>1. dc \in g_devMapPort \X {0, 1}
      BY DEF Wanted
    <2>2. dc[1] \in g_devMapPort /\ dc = <<dc[1], dc[2]>>
      BY <2>1
    <2>3. dc[1] \in Nat /\ d \in Nat
      BY <2>2 DEF Devs
    <2> QED
      BY <2>1, <2>2, <2>3
  <1>2. d \in Nat /\ ~(d < d)
    BY DEF Devs
  <1>3. \A c : <<d, c>> \in Wanted <=> d \in g_devMapPort /\ c \in {0, 1} /\ (c = 0 \/ AskedTwo(d))
    BY DEF Wanted
  <1>4. WantedBefore(d + 1) = WantedBefore(d) \cup {dc \in Wanted : dc[1] = d}
    BY <1>1 DEF WantedBefore
  <1>5. {dc \in Wanted : dc[1] = d} = IF d \notin g_devMapPort THEN {}
                                      ELSE IF AskedTwo(d) THEN {<<d, 0>>, <<d, 1>>} ELSE {<<d, 0>>}
    <2>1. \A dc : dc \in Wanted /\ dc[1] = d <=> \E c \in {0, 1} : dc = <<d, c>> /\ <<d, c>> \in Wanted
      BY <1>1
    <2>2. d \notin g_devMapPort => \A c : <<d, c>> \notin Wanted
      BY <1>3
    <2>3. d \in g_devMapPort => <<d, 0>> \in Wanted /\ (<<d, 1>> \in Wanted <=> AskedTwo(d))
      BY <1>3
    <2>4. CASE d \notin g_devMapPort
      BY <2>1, <2>2, <2>4
    <2>5. CASE d \in g_devMapPort /\ AskedTwo(d)
      BY <2>1, <2>3, <2>5
    <2>6. CASE d \in g_devMapPort /\ ~AskedTwo(d)
      BY <2>1, <2>3, <2>6
    <2> QED
      BY <2>4, <2>5, <2>6
  <1>6. \A c : <<d, c>> \notin WantedBefore(d)
    BY <1>2 DEF WantedBefore
  <1>7. <<d, 0>> # <<d, 1>>
    OBVIOUS
  <1> QED
    BY <1>4, <1>5, <1>6, <1>7

LEMMA LaunchKeeps == ASSUME ConInv, LaunchDevice PROVE ConInv'
  <1> DEFINE d == launchDev
             first == Launched(threads, slaveCore[cpu_index], <<launchDev, 0>>)
             second == Launched(first, slaveCore[cpu_index + 1], <<launchDev, 1>>)
             none == slaveCore[cpu_index] = 0 \/ (TwoCells(launchDev) /\ slaveCore[cpu_index + 1] = 0)
  <1>1. /\ boot = "launch" /\ d \in Devs /\ launchDev' = d + 1
        /\ UNCHANGED <<g_cellNum, g_devMapPort, slaveCore, options, last>>
        /\ d \in g_devMapPort =>
             /\ threads' = IF TwoCells(d) THEN second ELSE first
             /\ cpu_index' = IF TwoCells(d) THEN cpu_index + 2 ELSE cpu_index + 1
             /\ boot' = IF none THEN "stuck" ELSE "launch"
        /\ d \notin g_devMapPort => UNCHANGED <<threads, cpu_index, boot>>
    BY DEF LaunchDevice, bootVars, cmdVars, NextCpu
  <1>2. /\ options \in Seq(Options) /\ g_devMapPort \subseteq Devs /\ CellsAfter(Len(options)) /\ Placed
        /\ \E n \in 0 .. 10 : slaveCore = [i \in 0 .. 9 |-> IF i < n THEN i + 1 ELSE 0]
    BY <1>1 DEF ConInv, BootInv
  <1>3. /\ Serves(threads, cpu_index, WantedBefore(d)) /\ cpu_index <= 2 * d
        /\ cpu_index \in Nat /\ d \in 0 .. 4 /\ d + 1 \in 0 .. Devices
    BY <1>1, <1>2, ConsoleIs DEF Placed, Serves, Devs
  <1>4. PICK n \in 0 .. 10 : slaveCore = [i \in 0 .. 9 |-> IF i < n THEN i + 1 ELSE 0]
    BY <1>2
  <1>5. cpu_index \in 0 .. 9 /\ cpu_index + 1 \in 0 .. 9
    BY <1>3
  <1>6. /\ slaveCore[cpu_index] = IF cpu_index < n THEN cpu_index + 1 ELSE 0
        /\ slaveCore[cpu_index + 1] = IF cpu_index + 1 < n THEN cpu_index + 2 ELSE 0
        /\ Cardinality({i \in 0 .. 9 : slaveCore[i] # 0}) = n
    <2>1. /\ \A i \in 0 .. 9 : slaveCore[i] = IF i < n THEN i + 1 ELSE 0
          /\ Cardinality({i \in 0 .. 9 : slaveCore[i] # 0}) = n
      BY <1>4, CoresAre
    <2>2. cpu_index + 1 + 1 = cpu_index + 2
      BY <1>3
    <2> QED
      BY <1>5, <2>1, <2>2
  <1>7. TwoCells(d) <=> AskedTwo(d)
    BY <1>1, <1>2, TwoAsked
  <1>8. /\ Wanted' = Wanted /\ \A e : WantedBefore(e)' = WantedBefore(e)
        /\ CellsAfter(Len(options))'
    <2>1. Masks' = Masks /\ Wanted' = Wanted /\ \A e : WantedBefore(e)' = WantedBefore(e)
      BY <1>1, SameOptions
    <2>2. CellsAfter(Len(options))'
      BY <1>1, <1>2, <2>1 DEF CellsAfter, CellsOf
    <2> QED
      BY <2>1, <2>2
  <1> HIDE DEF first, second, none
  <1>9. LineObeyed'
    BY <1>1 DEF ConInv, LineObeyed
  <1>10. /\ <<d, 0>> \notin WantedBefore(d) /\ <<d, 1>> \notin WantedBefore(d) \cup {<<d, 0>>}
         /\ d \notin g_devMapPort => WantedBefore(d + 1) = WantedBefore(d)
         /\ d \in g_devMapPort =>
              WantedBefore(d + 1) = IF AskedTwo(d) THEN (WantedBefore(d) \cup {<<d, 0>>}) \cup {<<d, 1>>}
                                                   ELSE WantedBefore(d) \cup {<<d, 0>>}
    BY <1>1, <1>2, WantedNext
  <1>11. ASSUME boot' = "launch", cpu_index' <= 2 * (d + 1), Serves(threads', cpu_index', WantedBefore(d + 1))
         PROVE  ConInv'
    <2>1. Placed'
      <3>1. WantedBefore(launchDev)' = WantedBefore(d + 1)
        BY <1>1 DEF WantedBefore, Wanted, AskedTwo, Masks
      <3> QED
        BY <1>1, <1>3, <1>11, <3>1 DEF Placed
    <2>2. BootInv'
      BY <1>1, <1>2, <1>8, <1>11, <2>1 DEF BootInv
    <2> QED
      BY <1>9, <2>2 DEF ConInv
  <1>12. CASE d \notin g_devMapPort
    <2>1. boot' = "launch" /\ cpu_index' = cpu_index /\ threads' = threads
      BY <1>1, <1>12
    <2>2. Serves(threads', cpu_index', WantedBefore(d + 1))
      BY <1>3, <1>10, <1>12, <2>1
    <2>3. cpu_index' <= 2 * (d + 1)
      BY <1>3, <2>1
    <2> QED
      BY <1>11, <2>1, <2>2, <2>3
  <1>13. CASE d \in g_devMapPort /\ ~none
    <2>1. boot' = "launch"
      BY <1>1, <1>13
    <2>2. slaveCore[cpu_index] = cpu_index + 1
      BY <1>6, <1>13 DEF none
    <2>3. Serves(first, cpu_index + 1, WantedBefore(d) \cup {<<d, 0>>})
      BY <1>3, <1>10, <2>2, ServesMore DEF first
    <2>4. CASE ~TwoCells(d)
      <3>1. threads' = first /\ cpu_index' = cpu_index + 1
        BY <1>1, <1>13, <2>4
      <3>2. WantedBefore(d + 1) = WantedBefore(d) \cup {<<d, 0>>}
        BY <1>7, <1>10, <1>13, <2>4
      <3>3. cpu_index' <= 2 * (d + 1)
        BY <1>3, <3>1
      <3> QED
        BY <1>11, <2>1, <2>3, <3>1, <3>2, <3>3
    <2>5. CASE TwoCells(d)
      <3>1. threads' = second /\ cpu_index' = cpu_index + 1 + 1 /\ cpu_index + 1 \in Nat
        BY <1>1, <1>3, <1>13, <2>5
      <3>2. slaveCore[cpu_index + 1] = cpu_index + 1 + 1
        BY <1>3, <1>6, <1>13, <2>5 DEF none
      <3>3. Serves(second, cpu_index + 1 + 1, (WantedBefore(d) \cup {<<d, 0>>}) \cup {<<d, 1>>})
        BY <1>10, <2>3, <3>1, <3>2, ServesMore DEF second
      <3>4. WantedBefore(d + 1) = (WantedBefore(d) \cup {<<d, 0>>}) \cup {<<d, 1>>}
        BY <1>7, <1>10, <1>13, <2>5
      <3>5. cpu_index' <= 2 * (d + 1)
        BY <1>3, <3>1
      <3> QED
        BY <1>11, <2>1, <3>1, <3>3, <3>4, <3>5
    <2> QED
      BY <2>4, <2>5
  <1>14. CASE d \in g_devMapPort /\ none
    <2>1. boot' = "stuck"
      BY <1>1, <1>14
    <2>2. IsFiniteSet(WantedBefore(d)) /\ cpu_index = Cardinality(WantedBefore(d))
      BY <1>3 DEF Serves
    <2>3. /\ IsFiniteSet(WantedBefore(d) \cup {<<d, 0>>})
          /\ Cardinality(WantedBefore(d) \cup {<<d, 0>>}) = cpu_index + 1
      BY <1>10, <2>2, FS_AddElement
    <2>4. /\ IsFiniteSet((WantedBefore(d) \cup {<<d, 0>>}) \cup {<<d, 1>>})
          /\ Cardinality((WantedBefore(d) \cup {<<d, 0>>}) \cup {<<d, 1>>}) = cpu_index + 1 + 1
      BY <1>10, <2>3, FS_AddElement
    <2>5. IsFiniteSet(Wanted) /\ WantedBefore(d + 1) \subseteq Wanted
      BY <1>2, WantedFinite DEF WantedBefore
    <2>6. Cardinality(WantedBefore(d + 1)) <= Cardinality(Wanted) /\ Cardinality(Wanted) \in Nat
      BY <2>5, FS_Subset, FS_CardinalityType
    <2>7. n < Cardinality(WantedBefore(d + 1)) /\ Cardinality(WantedBefore(d + 1)) \in Nat
      <3>1. CASE slaveCore[cpu_index] = 0
        <4>1. n <= cpu_index
          BY <1>3, <1>6, <3>1
        <4>2. Cardinality(WantedBefore(d + 1)) \in {cpu_index + 1, cpu_index + 1 + 1}
          BY <1>10, <1>14, <2>3, <2>4
        <4> QED
          BY <1>3, <4>1, <4>2
      <3>2. CASE TwoCells(launchDev) /\ slaveCore[cpu_index + 1] = 0
        <4>1. n <= cpu_index + 1
          BY <1>3, <1>6, <3>2
        <4>2. Cardinality(WantedBefore(d + 1)) = cpu_index + 1 + 1
          BY <1>7, <1>10, <1>14, <2>4, <3>2
        <4> QED
          BY <1>3, <4>1, <4>2
      <3> QED
        BY <1>14, <3>1, <3>2 DEF none
    <2>8. n < Cardinality(Wanted)
      BY <2>6, <2>7
    <2>9. (Cardinality({i \in 0 .. 9 : slaveCore[i] # 0}) < Cardinality(Wanted))'
      BY <1>1, <1>6, <1>8, <2>8
    <2>10. BootInv'
      BY <1>1, <1>2, <2>1, <2>9 DEF BootInv
    <2> QED
      BY <1>9, <2>10 DEF ConInv
  <1> QED
    BY <1>12, <1>13, <1>14

LEMMA KeptAlone ==
  ASSUME UNCHANGED <<g_cellNum, g_devMapPort, launchDev, cpu_index, threads, options>>
  PROVE  Wanted' = Wanted /\ (Placed' <=> Placed) /\ \A n : CellsAfter(n)' <=> CellsAfter(n)
  <1>1. Masks' = Masks /\ Wanted' = Wanted
    BY SameOptions
  <1>2. Placed' <=> Placed
    BY <1>1 DEF Placed, WantedBefore
  <1>3. \A n : CellsAfter(n)' <=> CellsAfter(n)
    BY <1>1 DEF CellsAfter, CellsOf
  <1> QED
    BY <1>1, <1>2, <1>3

LEMMA ConStep == ConInv /\ [ConNext]_conVars => ConInv'
  <1> SUFFICES ASSUME ConInv, [ConNext]_conVars PROVE ConInv'
    OBVIOUS
  <1>1. CASE ParseOption
    BY <1>1, ParseKeeps
  <1>2. CASE ArgsDone
    BY <1>2, ArgsDoneKeeps
  <1>3. CASE LaunchDevice
    BY <1>3, LaunchKeeps
  <1>4. CASE LaunchDone
    <2>1. /\ boot = "launch" /\ launchDev = Devices /\ boot' = "run"
          /\ UNCHANGED <<g_cellNum, g_devMapPort, slaveCore, launchDev, cpu_index, threads, options, last>>
      BY <1>4 DEF LaunchDone, bootVars, cmdVars
    <2>2. BootInv'
      BY <2>1, KeptAlone DEF ConInv, BootInv
    <2>3. LineObeyed'
      BY <2>1 DEF ConInv, LineObeyed
    <2> QED
      BY <2>2, <2>3 DEF ConInv
  <1>5. ASSUME NEW r \in Reads, ReadCmd(r) PROVE ConInv'
    <2>1. /\ boot = "run"
          /\ UNCHANGED <<boot, args, g_cellNum, g_devMapPort, slaveCore, launchDev, cpu_index, threads, options>>
      BY <1>5 DEF ReadCmd, bootVars
    <2>2. BootInv'
      BY <2>1, KeptAlone DEF ConInv, BootInv
    <2>3. LineObeyed'
      BY <1>5, ReadObeyed
    <2> QED
      BY <2>2, <2>3 DEF ConInv
  <1>6. CASE UNCHANGED conVars
    <2>1. UNCHANGED <<boot, args, g_cellNum, g_devMapPort, slaveCore, launchDev, cpu_index, threads, options, last>>
      BY <1>6 DEF conVars
    <2>2. BootInv'
      BY <2>1, KeptAlone DEF ConInv, BootInv
    <2>3. LineObeyed'
      BY <2>1 DEF ConInv, LineObeyed
    <2> QED
      BY <2>2, <2>3 DEF ConInv
  <1> QED
    BY <1>1, <1>2, <1>3, <1>4, <1>5, <1>6 DEF ConNext

LEMMA ConInvSound == ConInv => ConsoleSound
  <1> SUFFICES ASSUME ConInv PROVE ThreadsPlaced
    BY DEF ConInv, ConsoleSound
  <1>1. ASSUME boot = "run" PROVE Range(threads) = Wanted /\ Cardinality(DOMAIN threads) = Cardinality(Wanted)
    <2>1. /\ g_devMapPort \subseteq Devs
          /\ Serves(threads, cpu_index, WantedBefore(Devices))
      BY <1>1 DEF ConInv, BootInv, Placed
    <2>2. WantedBefore(Devices) = Wanted
      <3>1. \A dc \in Wanted : dc[1] < Devices
        <4>1. \A dc \in Wanted : dc[1] \in Devs
          BY <2>1 DEF Wanted
        <4>2. \A d \in Devs : d < Devices
          BY ConsoleIs DEF Devs
        <4> QED
          BY <4>1, <4>2
      <3> QED
        BY <3>1 DEF WantedBefore
    <2>3. /\ cpu_index \in Nat /\ cpu_index = Cardinality(Wanted) /\ DOMAIN threads = 1 .. cpu_index
          /\ \A i \in 1 .. cpu_index : threads[i] \in Wanted
          /\ \A dc \in Wanted : \E i \in 1 .. cpu_index : threads[i] = dc
      BY <2>1, <2>2 DEF Serves
    <2>4. Range(threads) = Wanted
      BY <2>3 DEF Range
    <2>5. Cardinality(1 .. cpu_index) = cpu_index
      BY <2>3, FS_Interval
    <2> QED
      BY <2>3, <2>4, <2>5
  <1> QED
    BY <1>1 DEF ConInv, BootInv, ThreadsPlaced

\* For any option list, devices, cores and reads: when the program runs, each cell asked
\* for has one thread on a core of its own, start-up gets stuck only if there are fewer
\* cores than threads wanted, and a line that is read alone or complete becomes the
\* message that its help describes (macInit, testmac_parse_cellmask, cmd_callback).
THEOREM ConsoleIsObeyed == ConSpec => []ConsoleSound
  BY ConFirst, ConStep, ConInvSound, PTL DEF ConSpec
=============================================================================
