------------------------------ MODULE MacCell ------------------------------
(***************************************************************************)
(* mac/src/mac.c and mac/src/mac_rx.c: the test MAC's life cycle of a cell. *)
(* One real-time thread per cell polls the ring of commands from the main   *)
(* thread (macRevAppCtrlMsg) and the channel from the PHY (pcxxCtrlRecv,    *)
(* macRevL1Ctrl, fapiMsgDec).  gMacCtx[dev][cell].state follows the PHY     *)
(* through PHY_IDLE, PHY_CFG, PHY_INIT and PHY_ACTIVE; schState says        *)
(* whether slot indications make macSchedule send TTI requests.            *)
(*                                                                         *)
(* The ring is the FIFO that QuickMsgRing implements.  The PHY and the      *)
(* PCIe link are external: modelled by what the handlers here expect of     *)
(* them, with answers arbitrarily late.  One device is modelled; a device   *)
(* shares nothing with another but the static cellNum.  The mode is the one *)
(* the build runs in: loadCfg sets operMode to MANUAL and phyStub to false, *)
(* and nothing changes them.                                                *)
(***************************************************************************)
EXTENDS Naturals, Sequences

CONSTANTS
  NumCells,    \* cells with a running thread (MAC_MAX_CELL_NUM is 2)
  RunTti,      \* runttiPerTc: slots per test case, 0 for no limit
  TtiWrap,     \* gSystemTtiNum wraps to 0 here (2^32 in the code)
  CmdIds,      \* the commands the main thread issues
  CellNums,    \* the numbers of cells the user names in tc_case
  LinkFails,   \* whether a request can get lost (pcxxSendStart fails)
  PhyErrors,   \* whether the PHY may answer with an error code
  MaxGroup,    \* messages the PHY puts in one group
  MaxCmds,     \* bound: commands issued
  Window,      \* bound: messages in flight per cell when the PHY adds a slot
  MaxTti       \* bound: gSystemTtiNum at which the PHY stops adding slots

MAC_MAX_CELL_NUM == 2

\* The commands of the console, by what their handlers do.
Ids == {"TC_CONFIG_CASE", "TC_SINGLE_CASE", "TX_CASE", "TC_STOP"}

ASSUME CellAssumption == NumCells \in 1 .. MAC_MAX_CELL_NUM
ASSUME CmdAssumption == CmdIds \subseteq Ids /\ CellNums \subseteq Nat
ASSUME PhyAssumption == {LinkFails, PhyErrors} \subseteq BOOLEAN
ASSUME BoundAssumption ==
  /\ {RunTti, MaxCmds, Window, MaxTti} \subseteq Nat
  /\ {TtiWrap, MaxGroup} \subseteq Nat \ {0}
\* runttiPerTc has the width of the counter (both are uint32_t).
ASSUME WidthAssumption == RunTti < TtiWrap

Cells == 0 .. NumCells - 1

\* paras[1] of APP_TX_CASE: the number of cells it names, valid or not.
Cmd == [id : {"TX_CASE"}, cells : CellNums] \cup [id : Ids \ {"TX_CASE"}, cells : {0}]

PhyStates == {"PHY_IDLE", "PHY_CFG", "PHY_INIT", "PHY_ACTIVE"}
SchStates == {"SCH_STOP", "SCH_NORMAL"}
Requests == {"param", "config", "start", "stop", "tti"}
CfgRsps == {"cfgOk", "cfgErr"}
ErrorInds == {"startOk", "startErr", "stopErr"}
Answers == CfgRsps \cup ErrorInds \cup {"stopInd"}
Indications == Answers \cup {"slot", "paramRsp"}

VARIABLES
  phyState, schState,   \* gMacCtx[0][c].state and .schState
  ttiNum,               \* gSystemTtiNum[0][c]
  cellNum,              \* static in appMgrMsgqHRecv, shared by all threads
  appq,                 \* msgqApp of each cell
  job,                  \* a handler the thread is in the middle of: id and cell
  rx,                   \* what macRevL1Ctrl has still to decode of a group
  toPhy, fromPhy,       \* requests, and groups of indications, in flight
  l1,                   \* external: what the PHY does
  nCmds,                \* commands issued so far
  lost,                 \* history: the cells that lost a request on the link, or
                        \* an answer behind a message fapiMsgDec does not know
  ttisRun               \* history: TTIs scheduled since a test case (re)started,
                        \* counted up to 2 * RunTti

macVars == <<phyState, schState, ttiNum, cellNum>>
threadVars == <<appq, job, rx>>
phyVars == <<fromPhy, l1>>
cellVars == <<macVars, threadVars, phyVars, toPhy, nCmds, lost, ttisRun>>

NoJob == [id |-> "none", cell |-> 0]
SeqRange(s) == { s[i] : i \in DOMAIN s }

Init ==
  /\ phyState = [c \in Cells |-> "PHY_IDLE"]
  /\ schState = [c \in Cells |-> "SCH_STOP"]
  /\ ttiNum = [c \in Cells |-> 0]
  /\ cellNum = 1
  /\ appq = [c \in Cells |-> <<>>]
  /\ job = [c \in Cells |-> NoJob]
  /\ rx = [c \in Cells |-> <<>>]
  /\ toPhy = [c \in Cells |-> <<>>]
  /\ fromPhy = [c \in Cells |-> <<>>]
  /\ l1 = [c \in Cells |-> "idle"]
  /\ nCmds = 0
  /\ lost = {}
  /\ ttisRun = [c \in Cells |-> 0]

-----------------------------------------------------------------------------
(***************************************************************************)
(* Pieces of the handlers.                                                 *)
(***************************************************************************)

\* macTx.c: a group of requests is handed to the link.
Send(c, reqs) == toPhy' = [toPhy EXCEPT ![c] = @ \o reqs]

Busy(c) == job[c] # NoJob
InJob(c, id) == job[c].id = id
SetJob(c, j) == job' = [job EXCEPT ![c] = j]

SetPhyState(c, s) == phyState' = [phyState EXCEPT ![c] = s]
SetSchState(c, s) == schState' = [schState EXCEPT ![c] = s]

\* A test case (re)starts: the history counts its slots from here.
Restart(c) == ttisRun' = [ttisRun EXCEPT ![c] = 0]

-----------------------------------------------------------------------------
(***************************************************************************)
(* The main thread.                                                        *)
(***************************************************************************)

\* One of the app...() functions of main.c sends a command to a cell's ring.
\* One that the ring refuses is gone, since macAppMgrSend does not look: it is
\* as if it had not been given.
IssueCmd(c, m) ==
  /\ nCmds < MaxCmds
  /\ m.id \in CmdIds
  /\ nCmds' = nCmds + 1
  /\ appq' = [appq EXCEPT ![c] = Append(@, m)]
  /\ UNCHANGED <<macVars, job, rx, phyVars, toPhy, lost, ttisRun>>

-----------------------------------------------------------------------------
(***************************************************************************)
(* A real-time thread: appMgrMsgqHRecv.                                    *)
(***************************************************************************)

\* The thread is at the top of its loop and the oldest command is an id.
Receives(c, id) ==
  /\ ~Busy(c)
  /\ rx[c] = <<>>
  /\ appq[c] # <<>>
  /\ Head(appq[c]).id = id
  /\ appq' = [appq EXCEPT ![c] = Tail(@)]

AppTcConfigCase(c) ==
  /\ Receives(c, "TC_CONFIG_CASE")
  /\ Send(c, <<"param", "config">>)
  /\ SetPhyState(c, "PHY_CFG")
  /\ UNCHANGED <<schState, ttiNum, cellNum, job, rx, phyVars, nCmds, lost, ttisRun>>

\* APP_TC_DL_CASE, APP_TC_UL_CASE, APP_TC_TX_CASE: one request, in any state.
AppTcSingleCase(c) ==
  /\ Receives(c, "TC_SINGLE_CASE")
  /\ Send(c, <<"tti">>)
  /\ UNCHANGED <<macVars, job, rx, phyVars, nCmds, lost, ttisRun>>

\* The number of cells a test case names is taken if the device has so many.
\* Mutant: only 0 is refused.
NewCellNum_Unchecked(n) == IF n # 0 THEN n ELSE cellNum
NewCellNum(n) == IF n # 0 /\ n <= MAC_MAX_CELL_NUM THEN n ELSE cellNum

\* APP_TX_CASE: load a test case; stop the PHY, or configure an idle one.
AppTxCase(c) ==
  /\ Receives(c, "TX_CASE")
  /\ cellNum' = NewCellNum(Head(appq[c]).cells)
  /\ IF phyState[c] # "PHY_IDLE"
     THEN Send(c, <<"stop">>) /\ UNCHANGED phyState
     ELSE Send(c, <<"config">>) /\ SetPhyState(c, "PHY_CFG")
  /\ SetJob(c, [id |-> "TX_CASE", cell |-> c])
  /\ UNCHANGED <<schState, ttiNum, rx, phyVars, nCmds, lost, ttisRun>>

\* Its end, after a sleep: slots are scheduled, whatever happened meanwhile.
AppTxCaseSched(c) ==
  /\ InJob(c, "TX_CASE")
  /\ SetSchState(c, "SCH_NORMAL")
  /\ Restart(c)
  /\ SetJob(c, NoJob)
  /\ UNCHANGED <<phyState, ttiNum, cellNum, appq, rx, phyVars, toPhy, nCmds, lost>>

\* APP_TC_STOP loops over cells 0 .. cellNum - 1, whichever cell's thread runs it.
AppTcStop(c) ==
  /\ Receives(c, "TC_STOP")
  /\ SetJob(c, [id |-> "TC_STOP", cell |-> 0])
  /\ UNCHANGED <<macVars, rx, phyVars, toPhy, nCmds, lost, ttisRun>>

TcStopCell(c) ==
  LET k == job[c].cell IN
  /\ InJob(c, "TC_STOP")
  /\ k < cellNum /\ k \in Cells
  /\ Send(k, <<"stop">>)
  /\ SetSchState(k, "SCH_STOP")
  /\ SetJob(c, [id |-> "TC_STOP", cell |-> k + 1])
  /\ UNCHANGED <<phyState, ttiNum, cellNum, appq, rx, phyVars, nCmds, lost, ttisRun>>

\* (A cell of the device without a thread is of no consequence.)
TcStopEnd(c) ==
  /\ InJob(c, "TC_STOP")
  /\ job[c].cell >= cellNum \/ job[c].cell \notin Cells
  /\ SetJob(c, NoJob)
  /\ UNCHANGED <<macVars, appq, rx, phyVars, toPhy, nCmds, lost, ttisRun>>

-----------------------------------------------------------------------------
(***************************************************************************)
(* A real-time thread: macRevL1Ctrl and fapiMsgDec.                        *)
(***************************************************************************)

\* Mutant: the first message of the group is decoded and the rest is not.
CtrlRecv_FirstOnly(c) ==
  /\ ~Busy(c)
  /\ rx[c] = <<>>
  /\ fromPhy[c] # <<>>
  /\ rx' = [rx EXCEPT ![c] = <<Head(Head(fromPhy[c]))>>]
  /\ fromPhy' = [fromPhy EXCEPT ![c] = Tail(@)]
  /\ UNCHANGED <<macVars, appq, job, toPhy, l1, nCmds, lost, ttisRun>>

\* pcxxCtrlRecv hands macRevL1Ctrl the next group.
CtrlRecv(c) ==
  /\ ~Busy(c)
  /\ rx[c] = <<>>
  /\ fromPhy[c] # <<>>
  /\ rx' = [rx EXCEPT ![c] = Head(fromPhy[c])]
  /\ fromPhy' = [fromPhy EXCEPT ![c] = Tail(@)]
  /\ UNCHANGED <<macVars, appq, job, toPhy, l1, nCmds, lost, ttisRun>>

Decodes(c, inds) ==
  /\ rx[c] # <<>>
  /\ Head(rx[c]) \in inds
  /\ rx' = [rx EXCEPT ![c] = Tail(@)]

\* A message fapiMsgDec does not know ends the group: the rest is not decoded.
DecUnknown(c) ==
  /\ rx[c] # <<>>
  /\ Head(rx[c]) = "paramRsp"
  /\ rx' = [rx EXCEPT ![c] = <<>>]
  /\ lost' = IF SeqRange(Tail(rx[c])) \cap Answers # {} THEN lost \cup {c} ELSE lost
  /\ UNCHANGED <<macVars, appq, job, phyVars, toPhy, nCmds, ttisRun>>

\* Mutant: an error code is ignored.
DecConfigRsp_ErrIgnored(c) ==
  /\ Decodes(c, CfgRsps)
  /\ IF Head(rx[c]) = "cfgOk"
     THEN SetPhyState(c, "PHY_INIT") /\ Send(c, <<"start">>)
     ELSE UNCHANGED <<phyState, toPhy>>
  /\ UNCHANGED <<schState, ttiNum, cellNum, appq, job, phyVars, nCmds, lost, ttisRun>>

\* macRevCfgResonse, in whatever state the answer finds the cell.
DecConfigRsp(c) ==
  /\ Decodes(c, CfgRsps)
  /\ IF Head(rx[c]) = "cfgOk"
     THEN SetPhyState(c, "PHY_INIT") /\ Send(c, <<"start">>)
     ELSE SetPhyState(c, "PHY_IDLE") /\ UNCHANGED toPhy
  /\ UNCHANGED <<schState, ttiNum, cellNum, appq, job, phyVars, nCmds, lost, ttisRun>>

\* Mutant: the configuration is not sent again.
DecStopInd_NoSend(c) ==
  /\ Decodes(c, {"stopInd"})
  /\ SetPhyState(c, "PHY_CFG")
  /\ UNCHANGED <<schState, ttiNum, cellNum, appq, job, phyVars, toPhy, nCmds, lost, ttisRun>>

\* macRevStopIndication: the PHY is configured again, whoever had it stopped.
DecStopInd(c) ==
  /\ Decodes(c, {"stopInd"})
  /\ Send(c, <<"config">>)
  /\ SetPhyState(c, "PHY_CFG")
  /\ UNCHANGED <<schState, ttiNum, cellNum, appq, job, phyVars, nCmds, lost, ttisRun>>

\* macRevErrorIndication
DecErrorInd(c) ==
  /\ Decodes(c, ErrorInds)
  /\ SetPhyState(c, IF Head(rx[c]) = "startOk" THEN "PHY_ACTIVE" ELSE "PHY_IDLE")
  /\ UNCHANGED <<schState, ttiNum, cellNum, appq, job, phyVars, toPhy, nCmds, lost, ttisRun>>

\* Mutant: one slot late.
SlotsUp_Late(n) == RunTti # 0 /\ n # 0 /\ n % (RunTti + 1) = 0

\* The test macTxStartIndHandle makes for the last slot of a test case.
SlotsUp(n) == RunTti # 0 /\ n # 0 /\ n % RunTti = 0

\* FAPI_SLOT_INDICATION: macTxStartIndHandle, then PHY_ACTIVE in any case.
DecSlot(c) ==
  LET starts == phyState[c] = "PHY_INIT"
      active == phyState[c] \in {"PHY_INIT", "PHY_ACTIVE"}
      n == IF starts THEN 0 ELSE ttiNum[c]
      sch == IF starts THEN "SCH_NORMAL" ELSE schState[c]
      run == IF starts THEN 0 ELSE ttisRun[c]
      schedules == active /\ ~SlotsUp(n) /\ sch # "SCH_STOP"
  IN
  /\ Decodes(c, {"slot"})
  /\ SetPhyState(c, "PHY_ACTIVE")
  /\ ttiNum' = [ttiNum EXCEPT ![c] = IF active THEN (n + 1) % TtiWrap ELSE n]
  /\ SetSchState(c, IF active /\ SlotsUp(n) THEN "SCH_STOP" ELSE sch)
  /\ Send(c, IF active /\ SlotsUp(n) THEN <<"stop">>
             ELSE IF schedules THEN <<"tti">> ELSE <<>>)
  /\ ttisRun' = [ttisRun EXCEPT ![c] = IF schedules /\ run < 2 * RunTti THEN run + 1 ELSE run]
  /\ UNCHANGED <<cellNum, appq, job, phyVars, nCmds, lost>>

-----------------------------------------------------------------------------
(***************************************************************************)
(* External: the PHY and the link.                                         *)
(***************************************************************************)

\* The PHY adds an indication, to a group of its own or to the last one.
Emit(c, ind) ==
  \/ fromPhy' = [fromPhy EXCEPT ![c] = Append(@, <<ind>>)]
  \/ /\ fromPhy[c] # <<>>
     /\ Len(fromPhy[c][Len(fromPhy[c])]) < MaxGroup
     /\ fromPhy' = [fromPhy EXCEPT ![c][Len(fromPhy[c])] = Append(@, ind)]

PhyTakes(c, req) ==
  /\ toPhy[c] # <<>>
  /\ Head(toPhy[c]) = req
  /\ toPhy' = [toPhy EXCEPT ![c] = Tail(@)]

BecomesL1(c, s) == l1' = [l1 EXCEPT ![c] = s]

PhyParam(c) ==
  /\ PhyTakes(c, "param")
  /\ Emit(c, "paramRsp")
  /\ UNCHANGED l1

\* A configuration is accepted, without effect on a PHY that runs, or refused.
PhyConfig(c) ==
  /\ PhyTakes(c, "config")
  /\ \/ Emit(c, "cfgOk") /\ BecomesL1(c, IF l1[c] = "idle" THEN "configured" ELSE l1[c])
     \/ PhyErrors /\ Emit(c, "cfgErr") /\ UNCHANGED l1

\* A configured PHY starts, with or without an indication; an idle one refuses.
PhyStart(c) ==
  /\ PhyTakes(c, "start")
  /\ \/ l1[c] # "idle" /\ BecomesL1(c, "running") /\ (Emit(c, "startOk") \/ UNCHANGED fromPhy)
     \/ (l1[c] = "idle" \/ PhyErrors) /\ Emit(c, "startErr") /\ UNCHANGED l1

\* A running PHY stops; one that does not run refuses.
PhyStop(c) ==
  /\ PhyTakes(c, "stop")
  /\ \/ l1[c] = "running" /\ BecomesL1(c, "idle") /\ Emit(c, "stopInd")
     \/ (l1[c] # "running" \/ PhyErrors) /\ Emit(c, "stopErr") /\ UNCHANGED l1

PhyTti(c) == PhyTakes(c, "tti") /\ UNCHANGED phyVars

PhyRequest(c) ==
  /\ PhyParam(c) \/ PhyConfig(c) \/ PhyStart(c) \/ PhyStop(c) \/ PhyTti(c)
  /\ UNCHANGED <<macVars, threadVars, nCmds, lost, ttisRun>>

PhySlot(c) ==
  /\ l1[c] = "running"
  /\ Len(toPhy[c]) + Len(fromPhy[c]) < Window
  /\ ttiNum[c] < MaxTti
  /\ Emit(c, "slot")
  /\ UNCHANGED <<macVars, threadVars, toPhy, l1, nCmds, lost, ttisRun>>

\* A request that never gets to the PHY: pcxxSendStart failed, the sender
\* returned early and its caller went on as if it had been sent.
LinkLoses(c) ==
  /\ LinkFails
  /\ toPhy[c] # <<>>
  /\ toPhy' = [toPhy EXCEPT ![c] = Tail(@)]
  /\ lost' = lost \cup {c}
  /\ UNCHANGED <<macVars, threadVars, phyVars, nCmds, ttisRun>>

-----------------------------------------------------------------------------
RtThread(c) ==
  \/ AppTcConfigCase(c) \/ AppTcSingleCase(c)
  \/ AppTxCase(c) \/ AppTxCaseSched(c)
  \/ AppTcStop(c) \/ TcStopCell(c) \/ TcStopEnd(c)
  \/ CtrlRecv(c) \/ DecUnknown(c)
  \/ DecConfigRsp(c) \/ DecStopInd(c) \/ DecErrorInd(c) \/ DecSlot(c)

Next ==
  \E c \in Cells :
    \/ \E m \in Cmd : IssueCmd(c, m)
    \/ RtThread(c)
    \/ PhyRequest(c)
    \/ PhySlot(c)
    \/ LinkLoses(c)

Spec == Init /\ [][Next]_cellVars

\* The thread's loop polls the ring and the channel in turn, for ever; a PHY
\* answers what reaches it and, while it runs, keeps indicating slots.
TakesCmd(c) ==
  AppTcConfigCase(c) \/ AppTcSingleCase(c) \/ AppTxCase(c) \/ AppTcStop(c)

Fairness ==
  \A c \in Cells :
    /\ WF_cellVars(RtThread(c))
    /\ SF_cellVars(TakesCmd(c))
    /\ SF_cellVars(CtrlRecv(c))
    /\ WF_cellVars(PhyRequest(c))
    /\ WF_cellVars(PhySlot(c))

FairSpec == Spec /\ Fairness

-----------------------------------------------------------------------------
TypeOK ==
  /\ phyState \in [Cells -> PhyStates]
  /\ schState \in [Cells -> SchStates]
  /\ ttiNum \in [Cells -> Nat]
  /\ cellNum \in 1 .. MAC_MAX_CELL_NUM
  /\ appq \in [Cells -> Seq(Cmd)]
  /\ job \in [Cells -> [id : {"none", "TX_CASE", "TC_STOP"}, cell : 0 .. MAC_MAX_CELL_NUM]]
  /\ rx \in [Cells -> Seq(Indications)]
  /\ toPhy \in [Cells -> Seq(Requests)]
  /\ fromPhy \in [Cells -> Seq(Seq(Indications))]
  /\ l1 \in [Cells -> {"idle", "configured", "running"}]
  /\ nCmds \in Nat
  /\ lost \subseteq Cells
  /\ ttisRun \in [Cells -> Nat]

-----------------------------------------------------------------------------
(***************************************************************************)
(* Safety.                                                                 *)
(***************************************************************************)

\* The indications on their way to a cell's handlers.
Incoming(c) == SeqRange(rx[c]) \cup UNION { SeqRange(g) : g \in SeqRange(fromPhy[c]) }

\* A cell that waits is never forgotten: in PHY_CFG a configuration or its answer
\* is under way, and in PHY_INIT a start, its effect, or an answer that will take
\* the cell out of that state.  setPhyState is called after the send, by handlers
\* that do not look at the state they leave, with stale answers still in flight.
\* It takes a link that has lost nothing of this cell's, and answers that did not
\* come behind a parameter response in a group; what happens to the requests of
\* other cells does not matter, although TC_STOP sends for all of them.
WaitAnswered ==
  \A c \in Cells \ lost :
    /\ phyState[c] = "PHY_CFG" =>
         "config" \in SeqRange(toPhy[c]) \/ Incoming(c) \cap CfgRsps # {}
    /\ phyState[c] = "PHY_INIT" =>
         \/ "start" \in SeqRange(toPhy[c])
         \/ l1[c] = "running"
         \/ Incoming(c) \cap (ErrorInds \cup {"stopInd"}) # {}

\* A test case gets no more slots than runttiPerTc from the moment it is
\* (re)started, by a command or by the first slot after a start request, although
\* gSystemTtiNum is reset in only one of the two cases and slots keep coming in
\* between the stop request and the stop indication.  Only where the counter wraps
\* within the case to 0, which the test for the last slot excludes (so that it is
\* behind the slots that were run), are there more, and never twice as many.
RunBounded ==
  RunTti # 0 =>
    \A c \in Cells :
      \/ ttisRun[c] <= RunTti
      \/ /\ ttisRun[c] < 2 * RunTti
         /\ schState[c] = "SCH_NORMAL" => ttiNum[c] < ttisRun[c]

(***************************************************************************)
(* Liveness.                                                               *)
(***************************************************************************)

\* The PHY runs and slots are scheduled.
Runs(c) ==
  phyState[c] = "PHY_ACTIVE" /\ schState[c] = "SCH_NORMAL" /\ l1[c] = "running"

\* A test case command that reaches the head of the ring gets its cell running,
\* from whatever state it finds the MAC and the PHY in, unless a stop command
\* follows it or an answer was lost behind a parameter response.
TxCaseRuns ==
  \A c \in Cells :
    (appq[c] # <<>> /\ Head(appq[c]).id = "TX_CASE")
      ~> (Runs(c) \/ c \in lost \/ \E d \in Cells : InJob(d, "TC_STOP"))

=============================================================================
