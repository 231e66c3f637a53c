------------------------------- MODULE MacTc -------------------------------
(***************************************************************************)
(* Test cases on a cell: macTcLoad of mac/src/mac.c fills the cell's tables *)
(* of TTI requests, one entry per slot of a window of frames, from the      *)
(* files of a case; every slot indication then makes macTxStartIndHandle    *)
(* send the entries of the slot two slots ahead.                            *)
(*                                                                         *)
(* MacCell gives the life cycle.  This module composes it with what the     *)
(* requests contain: each step of MacCell is a step here, and the ones that *)
(* load, configure, indicate or send also move the tables, the subcarrier   *)
(* spacing and the time.  A file's content is the case it belongs to.       *)
(***************************************************************************)
EXTENDS MacCell

CONSTANTS
  Sfns,        \* frame numbers (1024)
  SfnWindow,   \* MAX_PRE_SCHEDULE_SFN_WINDOW (4)
  Slots15,     \* slots of a frame at 15 kHz (10)
  Cases,       \* test cases
  NoCase,      \* no content: never loaded
  ScsOf,       \* the subcarrier spacing in the configuration of a case
  HasConfig,   \* the cases with a configuration file
  Files,       \* the TTI request files: <<case, kind, sfn, slot>>
  TxCfg,       \* the kinds of request that loadTxCfg enables
  StartTimes   \* bound: the times at which the PHY may start to count

\* The tables have room for 20 slots, the frame of a spacing of 30 kHz.
Scs == {15, 30}
Kinds == {"dltti", "ultti", "txdata"}
RowSlots == 2 * Slots15

ASSUME TcAssumption ==
  /\ {Sfns, SfnWindow} \subseteq Nat \ {0} /\ Slots15 \in Nat /\ Slots15 > 2
  /\ NoCase \notin Cases /\ HasConfig \subseteq Cases /\ TxCfg \subseteq Kinds
  /\ ScsOf \in [Cases -> Scs]
  /\ StartTimes \subseteq [sfn : 0 .. Sfns - 1, slot : 0 .. RowSlots - 1]

Time == [sfn : 0 .. Sfns - 1, slot : 0 .. RowSlots - 1]

VARIABLES
  scs,       \* gcurrentScs
  cfg,       \* gL1ConfigRequest: whose configuration it holds
  table,     \* gL1DLTTIReq, gL1ULTTI, gL1TXDATAREQ: whose request each entry holds
  size,      \* gL1DlttiReqSize, ...: whether the size of an entry is not 0
  gen,       \* runMode = RUNMODE_FAPI_GENERATOR
  txTime,    \* gMacTxRfn, gMacTxSlot (gMacRxRfn, gMacRxSlot are the same)
  sent,      \* the TTI requests of the last group: kind, stamp and content
  loaded,    \* history: the case loaded last
  ind,       \* history: the slot indication they answer, and the spacing and
             \* the case the MAC had then
  cfgq,      \* beside toPhy: whose configuration a config request carries
  slotq,     \* beside fromPhy: the time a slot indication carries
  slotrx,    \* beside rx: the same for the group being decoded
  phyCfg,    \* external: the configuration the PHY has
  phyTime    \* external: the slot it will indicate next

tcVars == <<scs, cfg, table, size, gen, txTime, sent, loaded, ind, cfgq, slotq, slotrx, phyCfg, phyTime>>
vars == <<cellVars, tcVars>>

Time0 == [sfn |-> 0, slot |-> 0]
NoSlot == [time |-> Time0, scs |-> 0]
NoInd == [time |-> Time0, scs |-> 0, mac |-> 0, case |-> NoCase]
Rows == (0 .. SfnWindow - 1) \X (0 .. RowSlots - 1)

TcInit ==
  /\ Init
  /\ scs = [c \in Cells |-> 0]
  /\ cfg = [c \in Cells |-> NoCase]
  /\ table = [c \in Cells |-> [k \in Kinds |-> [e \in Rows |-> NoCase]]]
  /\ size = [c \in Cells |-> [k \in Kinds |-> {}]]
  /\ gen = [c \in Cells |-> FALSE]
  /\ txTime = [c \in Cells |-> Time0]
  /\ sent = [c \in Cells |-> {}]
  /\ loaded = [c \in Cells |-> NoCase] /\ ind = [c \in Cells |-> NoInd]
  /\ cfgq = [c \in Cells |-> <<>>]
  /\ slotq = [c \in Cells |-> <<>>] /\ slotrx = [c \in Cells |-> <<>>]
  /\ phyCfg = [c \in Cells |-> NoCase] /\ phyTime = [c \in Cells |-> Time0]

-----------------------------------------------------------------------------
(* Slot arithmetic.                                                        *)

\* macGetSlotNumPerSfn, and the mask of gsfnShift.
SlotNum(s) == (s \div 15) * Slots15

\* Mutant: the frame number is not wrapped.
GsfnShift_NoWrap(t, shift, s) ==
  IF shift + t.slot < SlotNum(s)
  THEN [sfn |-> t.sfn, slot |-> t.slot + shift]
  ELSE [sfn |-> t.sfn + 1, slot |-> t.slot + shift - SlotNum(s)]

GsfnShift(t, shift, s) ==
  IF shift + t.slot < SlotNum(s)
  THEN [sfn |-> t.sfn, slot |-> t.slot + shift]
  ELSE [sfn |-> (t.sfn + 1) % Sfns, slot |-> t.slot + shift - SlotNum(s)]

-----------------------------------------------------------------------------
(* macTcLoad.                                                              *)

\* The files of a case, for the slots of its frames.
FileOf(k, case, e, s) == <<case, k, e[1], e[2]>> \in Files /\ e[2] < SlotNum(s)

\* Mutant: the sizes are not cleared.
Sizes_Kept(c, case, s) == [k \in Kinds |-> size[c][k] \cup {e \in Rows : FileOf(k, case, e, s)}]
\* clearDltti, clearUltti, clearTxdata, then the size of every file found.
Sizes(c, case, s) == [k \in Kinds |-> {e \in Rows : FileOf(k, case, e, s)}]

\* A file is read over what the entry held; the entries without one keep it,
\* since what is cleared of them is not where the requests are taken from.
Contents(c, case, s) ==
  [k \in Kinds |-> [e \in Rows |-> IF FileOf(k, case, e, s) THEN case ELSE table[c][k][e]]]

\* getCarrierConfig takes the spacing from whatever configuration is there:
\* the file's, or the one of an earlier case.  Memory that never held one may
\* look like any, or like none, which leaves the spacing as it is.
ScsFrom(c, case) == IF case = NoCase THEN Scs \cup {scs[c]} ELSE {ScsOf[case]}

MacTcLoad(c, case) ==
  LET held == IF case \in HasConfig THEN case ELSE cfg[c] IN
  \E s \in ScsFrom(c, held) :
    /\ cfg' = [cfg EXCEPT ![c] = held]
    /\ scs' = [scs EXCEPT ![c] = s]
    /\ table' = [table EXCEPT ![c] = Contents(c, case, s)]
    /\ size' = [size EXCEPT ![c] = Sizes(c, case, s)]
    /\ loaded' = [loaded EXCEPT ![c] = case]

-----------------------------------------------------------------------------
(* macTx.c: what a request carries.                                        *)

Entry(t) == <<t.sfn % SfnWindow, t.slot>>

\* sendDlTTIReq and sendUlTTIReq: the entry's bytes, as many as its size says,
\* stamped with the slot; none are sent of an entry without a file.
TtiReq(c, k, t) ==
  [kind |-> k,
   time |-> IF gen[c] THEN t ELSE txTime'[c],
   of |-> IF gen[c] /\ Entry(t) \in size[c][k] THEN table[c][k][Entry(t)] ELSE NoCase]

\* sendTxdataReq: TxdataParams walks the entry without looking at its size and
\* stamps it with the time of the last slot, even where a command names one.
TxdataReq(c, t) ==
  [kind |-> "txdata", time |-> txTime'[c],
   of |-> IF gen[c] THEN table[c]["txdata"][Entry(t)] ELSE NoCase]

Req(c, k, t) == IF k = "txdata" THEN TxdataReq(c, t) ELSE TtiReq(c, k, t)

\* macTtiTx
TtiGroup(c, t) == {Req(c, k, t) : k \in TxCfg}

\* Whose configuration a config request carries: the one in the buffer, once
\* a case has been loaded.
ConfigIn(c) == IF gen'[c] THEN cfg'[c] ELSE NoCase

\* Beside the requests in flight, what the ones this step sends carry.
SendsConfigs ==
  cfgq' = [c \in Cells |-> [i \in DOMAIN toPhy'[c] |->
             IF i <= Len(toPhy[c]) THEN cfgq[c][i]
             ELSE IF toPhy'[c][i] = "config" THEN ConfigIn(c) ELSE NoCase]]

Keep == UNCHANGED <<scs, cfg, table, size, gen, txTime, sent, loaded, ind>>

-----------------------------------------------------------------------------
(* The steps of MacCell, with what they do here.                           *)

\* APP_TX_CASE: load, and from then on generate requests from the tables.
TcTxCase(c) ==
  /\ AppTxCase(c)
  /\ \E case \in Cases : MacTcLoad(c, case)
  /\ gen' = [gen EXCEPT ![c] = TRUE]
  /\ UNCHANGED <<txTime, sent, ind, slotq, slotrx, phyCfg, phyTime>>

\* APP_TC_DL_CASE, APP_TC_UL_CASE and APP_TC_TX_CASE name a slot of their own.
TcSingle(c) ==
  /\ AppTcSingleCase(c)
  /\ UNCHANGED txTime
  /\ \E k \in Kinds, t \in StartTimes : sent' = [sent EXCEPT ![c] = {Req(c, k, t)}]
  /\ ind' = [ind EXCEPT ![c] = NoInd]
  /\ UNCHANGED <<scs, cfg, table, size, gen, loaded, slotq, slotrx, phyCfg, phyTime>>

\* macTxStartIndHandle and macSchedule.
TcSlot(c) ==
  LET at == Head(slotrx[c])
      n == IF phyState[c] = "PHY_INIT" THEN 0 ELSE ttiNum[c]
      goesOn == phyState[c] \in {"PHY_INIT", "PHY_ACTIVE"} /\ ~SlotsUp(n)
      t == GsfnShift(at.time, 2, scs[c]) IN
  /\ DecSlot(c)
  /\ txTime' = IF goesOn THEN [txTime EXCEPT ![c] = t] ELSE txTime
  /\ IF goesOn /\ schState'[c] # "SCH_STOP"
     THEN /\ sent' = [sent EXCEPT ![c] = TtiGroup(c, t)]
          /\ ind' = [ind EXCEPT ![c] = [time |-> at.time, scs |-> at.scs,
                                        mac |-> scs[c], case |-> loaded[c]]]
     ELSE UNCHANGED <<sent, ind>>
  /\ slotrx' = [slotrx EXCEPT ![c] = Tail(@)]
  /\ UNCHANGED <<scs, cfg, table, size, gen, loaded, slotq, phyCfg, phyTime>>

\* The other steps of the MAC; some of them send a configuration.
TcOther(c) ==
  /\ \/ AppTcConfigCase(c) \/ AppTxCaseSched(c) \/ AppTcStop(c) \/ TcStopCell(c) \/ TcStopEnd(c)
     \/ \E m \in Cmd : IssueCmd(c, m)
  /\ Keep /\ UNCHANGED <<slotq, slotrx, phyCfg, phyTime>>

TcRecv(c) ==
  /\ CtrlRecv(c)
  /\ slotrx' = [slotrx EXCEPT ![c] = Head(slotq[c])]
  /\ slotq' = [slotq EXCEPT ![c] = Tail(@)]
  /\ Keep /\ UNCHANGED <<phyCfg, phyTime>>

TcDecode(c) ==
  /\ DecConfigRsp(c) \/ DecStopInd(c) \/ DecErrorInd(c)
  /\ slotrx' = [slotrx EXCEPT ![c] = Tail(@)]
  /\ Keep /\ UNCHANGED <<slotq, phyCfg, phyTime>>

\* An unknown message: the slots behind it in the group are not looked at.
TcUnknown(c) ==
  /\ DecUnknown(c)
  /\ slotrx' = [slotrx EXCEPT ![c] = <<>>]
  /\ Keep /\ UNCHANGED <<slotq, phyCfg, phyTime>>

MacSteps(c) ==
  /\ TcTxCase(c) \/ TcSingle(c) \/ TcSlot(c) \/ TcOther(c) \/ TcRecv(c) \/ TcDecode(c) \/ TcUnknown(c)
  /\ SendsConfigs

\* External: the PHY takes the configuration of a request when it is idle,
\* but not one without content; it picks a time to start and counts its slots
\* in the frames it has.
PhyScs(c) == ScsOf[phyCfg[c]]

\* Beside the indications in flight, the time of the one it adds.
Stamps(c) ==
  slotq' = [slotq EXCEPT ![c] = [g \in DOMAIN fromPhy'[c] |-> [i \in DOMAIN fromPhy'[c][g] |->
              IF g <= Len(fromPhy[c]) /\ i <= Len(fromPhy[c][g]) THEN slotq[c][g][i]
              ELSE IF fromPhy'[c][g][i] = "slot" THEN [time |-> phyTime[c], scs |-> PhyScs(c)]
              ELSE NoSlot]]]

PhySteps(c) ==
  /\ Keep /\ UNCHANGED slotrx
  /\ \/ /\ PhyRequest(c)
        /\ cfgq' = [cfgq EXCEPT ![c] = Tail(@)]
        /\ IF l1[c] = "idle" /\ l1'[c] = "configured"
           THEN Head(cfgq[c]) # NoCase /\ phyCfg' = [phyCfg EXCEPT ![c] = Head(cfgq[c])]
           ELSE UNCHANGED phyCfg
        /\ IF l1[c] = "configured" /\ l1'[c] = "running"
           THEN \E t \in StartTimes :
                  phyTime' = [phyTime EXCEPT ![c] = [t EXCEPT !.slot = @ % SlotNum(PhyScs(c))]]
           ELSE UNCHANGED phyTime
     \/ /\ PhySlot(c)
        /\ phyTime' = [phyTime EXCEPT ![c] = GsfnShift(@, 1, PhyScs(c))]
        /\ UNCHANGED <<cfgq, phyCfg>>
  /\ Stamps(c)

TcNext == \E c \in Cells : MacSteps(c) \/ PhySteps(c)

TcSpec == TcInit /\ [][TcNext]_vars

TcFairSpec ==
  /\ TcSpec
  /\ \A c \in Cells :
       /\ WF_vars(MacSteps(c) /\ RtThread(c))
       /\ SF_vars(MacSteps(c) /\ TakesCmd(c))
       /\ SF_vars(MacSteps(c) /\ CtrlRecv(c))
       /\ WF_vars(PhySteps(c) /\ PhyRequest(c))
       /\ WF_vars(PhySteps(c) /\ PhySlot(c))

-----------------------------------------------------------------------------
\* Slots counted from the first of frame 0, in frames of a spacing.
Abs(t, s) == t.sfn * SlotNum(s) + t.slot

\* A slot's requests are for the second slot after the one indicated, across
\* the end of a frame and of the frame numbers, whenever the PHY's frames are
\* the ones of the case that is loaded (gsfnShift, macTxStartIndHandle).
StampRight ==
  \A c \in Cells : (ind[c] # NoInd /\ ind[c].scs = ind[c].mac) =>
    \A r \in sent[c] :
      Abs(r.time, ind[c].scs) = (Abs(ind[c].time, ind[c].scs) + 2) % (Sfns * SlotNum(ind[c].scs))

\* Whether the files of a case have a request of a kind for a time's entry.
Defines(case, k, t) == <<case, k, t.sfn % SfnWindow, t.slot>> \in Files

\* What a slot sends is what the case loaded last has for that slot: its own
\* requests, and no DL or UL request where it has none, whatever was loaded
\* before, and although the spacing may be another than the PHY's.  Only TX
\* data of an earlier case may stay, in slots for which the case has no file
\* (macTcLoad, clearDltti, clearUltti, clearTxdata, TxdataParams).
ContentRight ==
  \A c \in Cells : ind[c] # NoInd =>
    \A r \in sent[c] :
      /\ r.of \in Cases => Defines(r.of, r.kind, r.time)
      /\ r.kind # "txdata" => r.of \in {ind[c].case, NoCase}
      /\ (Defines(ind[c].case, r.kind, r.time) /\ r.time.slot < SlotNum(ind[c].mac)) => r.of = ind[c].case

\* "Tc Star Test Case", the help text of tc_case: once the last command is a
\* test case, the PHY ends up running with the configuration of that case.
CaseConfigured ==
  \A c \in Cells :
    (nCmds = MaxCmds /\ appq[c] = <<>> /\ InJob(c, "TX_CASE"))
      ~> (phyCfg[c] = loaded[c] /\ l1[c] = "running")
=============================================================================
