-------------------------------- MODULE MacRx --------------------------------
(***************************************************************************)
(* What the MAC does with the uplink indications of the PHY (mac_rx.c) and *)
(* the statistics it keeps of them (mac_cell.c, mac_ue.c).                 *)
(*                                                                         *)
(* An indication is what the PHY packed; Uci walks its bytes by offsets as *)
(* the code does, so a part read where the PHY did not put it is garbage.  *)
(* told and csiTold record what the PHY reported, for the properties.      *)
(***************************************************************************)
EXTENDS Integers, Sequences, SequencesExt, FiniteSets

CONSTANTS RxCells,      \* cell numbers of device 0
          DumpPeriod,   \* slots between two dumps; 20000 in the code
          UeMask,       \* number of UE entries the RNTI selects; 4096 in the code
          RssiWidth,    \* 2^16, the range of rssiAvgPRACH
          CrcInds,      \* the CRC, UCI, RACH and data indications of the PHY,
          UciInds,      \* each a sequence of the indication's elements
          RachInds,
          DataInds,
          MaxTold,      \* bound: indications of all cells not yet dumped
          MaxCsi        \* bound: CSI part 1 reports

ASSUME RxAssumption ==
    /\ DumpPeriod \in Nat \ {0}
    /\ RssiWidth \in Nat \ {0}
    /\ UeMask \in Nat \ {0}

VARIABLES
    cellStats,   \* sMacCellCtx[].cellStatsInfo
    ueStats,     \* sMacUeCtxt[].ueStatsInfo: numCsiPart1CrcPass / Fail
    sSlotNum,    \* slots since the last dump
    dumped,      \* what a dump has just printed, and of which indications
    asserted,    \* an ASSERT of the walk failed
    told,        \* indications of each cell since its last dump
    csiTold      \* CSI part 1 reports so far, by CRC status

rxVars == <<cellStats, ueStats, sSlotNum, dumped, asserted, told, csiTold>>

(* The counters memset by macCellStatsReset. *)
NoStats ==
    [pass |-> 0, fail |-> 0, sumTa |-> 0, sumFailTa |-> 0, sumRssi |-> 0, sumSnr |-> 0,
     pucchPass |-> 0, pucchFail |-> 0, uciDet |-> 0, uciNotDet |-> 0,
     numTa |-> 0, taMax |-> 0, taMin |-> 0, taAvg |-> 0,
     numRssi |-> 0, rssiMax |-> 0, rssiMin |-> 0, rssiAvg |-> 0, preamble |-> 0]

NoDump == [now |-> FALSE, stats |-> NoStats, of |-> << >>]

(* macUeStatsResetAll. *)
NoUe == [u \in 0..(UeMask - 1) |-> [pass |-> 0, fail |-> 0]]

(* macGetUeByCrnti: the low bits of the RNTI. *)
UeOf(rnti) == rnti % UeMask

(* macGetCellById. *)
CellOf(c) == c % 2

(* Integer division of C, towards zero. *)
Div(a, b) == IF a >= 0 THEN a \div b ELSE -((-a) \div b)

RxInit ==
    /\ cellStats = [c \in 0..1 |-> NoStats]
    /\ ueStats = NoUe
    /\ sSlotNum = [c \in RxCells |-> 0]
    /\ dumped = NoDump
    /\ asserted = FALSE
    /\ told = [c \in RxCells |-> << >>]
    /\ csiTold = [pass |-> 0, fail |-> 0]

Tell(c, kind, ind) ==
    /\ FoldLeft(LAMBDA n, d : n + Len(told[d]), 0, SetToSeq(RxCells)) < MaxTold
    /\ dumped' = NoDump
    /\ told' = [told EXCEPT ![c] = Append(@, [kind |-> kind, ind |-> ind])]

----------------------------------------------------------------------------
(* CRC indications.                                                        *)

(* macCrcInHdlr: a passed block adds to the sums of the signal quality.    *)
CrcIn(st, crc) ==
    CASE crc.status = 0 ->
            [st EXCEPT !.pass = @ + 1, !.sumTa = @ + crc.ta,
                       !.sumRssi = @ + Div(crc.rssi - 1280, 10), !.sumSnr = @ + crc.sinr]
      [] crc.status = 1 -> [st EXCEPT !.sumFailTa = @ + crc.ta, !.fail = @ + 1]
      [] OTHER -> st

CrcIndication(c) ==
    \E ind \in CrcInds :
        /\ Tell(c, "crc", ind)
        /\ cellStats' = [cellStats EXCEPT ![CellOf(c)] = FoldLeft(CrcIn, @, ind)]
        /\ UNCHANGED <<ueStats, sSlotNum, asserted, csiTold>>

----------------------------------------------------------------------------
(* RACH indications.                                                       *)

(* macRachPduInHdlr. *)
RachPduIn(st, rssi) ==
    LET first == st.numRssi = 0
    IN  [st EXCEPT !.numRssi = @ + 1,
                   !.rssiMin = IF first \/ rssi > st.taMax THEN rssi ELSE @,
                   !.rssiMax = IF first \/ rssi < st.rssiMax THEN rssi ELSE @,
                   !.rssiAvg = (@ + rssi) % RssiWidth]

(* macPreambleInHdlr. *)
PreambleIn(st, pre) ==
    LET first == st.numTa = 0
    IN  [st EXCEPT !.preamble = pre.id,
                   !.numTa = @ + 1,
                   !.taMin = IF first \/ pre.ta > st.taMax THEN pre.ta ELSE @,
                   !.taMax = IF first \/ pre.ta < st.taMax THEN pre.ta ELSE @,
                   !.taAvg = @ + pre.ta]

RachPdu(st, pdu) == FoldLeft(PreambleIn, RachPduIn(st, pdu.rssi), pdu.preambles)

RachIndication(c) ==
    \E ind \in RachInds :
        /\ Tell(c, "rach", ind)
        /\ cellStats' = [cellStats EXCEPT ![CellOf(c)] = FoldLeft(RachPdu, @, ind)]
        /\ UNCHANGED <<ueStats, sSlotNum, asserted, csiTold>>

----------------------------------------------------------------------------
(* UCI indications. A PDU is [type, rnti, parts], its parts in the order   *)
(* of the bitmap: [part, status, ext], ext the TLVs of CSI part 2 or the   *)
(* bits of the UCI information.                                            *)

(* The bytes of the parts as the structures of l1_api.h lay them out.      *)
PartBytes(p) ==
    CASE p.part = "sr"    -> 4
      [] p.part = "harq"  -> 20
      [] p.part = "harq1" -> 4
      [] p.part = "csi1"  -> 36
      [] p.part = "csi2"  -> 4 + 8 * p.ext
      [] p.part = "uci"   -> 4 + ((p.ext + 7) \div 8)

PduHead == 4      \* PDUType and PDUSize
PduFixed == 16    \* the PDU up to its first optional part

Bytes(parts) == FoldLeft(LAMBDA n, p : n + PartBytes(p), 0, parts)

(* The PDUSize the PHY announces: all of the PDU. *)
PduSize(pdu) == PduHead + PduFixed + Bytes(pdu.parts)

(* How far uciIndicationProcDecHdlr moves over a part: the variable tails   *)
(* of CSI part 2 and of the last bits are left out.                        *)
Advance(p) ==
    CASE p.part = "csi2" -> 4
      [] p.part = "uci"  -> 4 + (p.ext \div 8)
      [] OTHER -> PartBytes(p)

(* What is read at the decoder's offset, the PHY's offset being other:     *)
(* the part itself, or garbage.                                            *)
Status(p, offset, other) == IF offset = other THEN p.status ELSE 9

(* macCSIPart1InfoUciInPuschPduFmt234PduHdlr and the one for PUCCH: the    *)
(* CRC status of CSI part 1 counts for the UE, on PUCCH for the cell too.  *)
CsiPart1(acc, status, pucch) ==
    LET u == UeOf(acc.rnti)
    IN  CASE status = 0 -> [acc EXCEPT !.ue[u].pass = @ + 1,
                                       !.st.pucchPass = IF pucch THEN @ + 1 ELSE @]
          [] status = 1 -> [acc EXCEPT !.ue[u].fail = @ + 1]
          [] OTHER -> acc

(* macUciInfoInPucchPduFmt234PduHdlr. *)
UciInfo(acc, status) ==
    CASE status = 0 -> [acc EXCEPT !.st.pucchPass = @ + 1]
      [] status = 1 -> [acc EXCEPT !.st.pucchFail = @ + 1]
      [] status = 2 -> [acc EXCEPT !.st.uciDet = @ + 1]
      [] status = 3 -> [acc EXCEPT !.st.uciNotDet = @ + 1]
      [] OTHER -> acc

(* One part of a PDU, read at acc.offset; the PHY put it at acc.put.       *)
UciPart(acc, p) ==
    LET status == Status(p, acc.offset, acc.put)
        read == CASE p.part = "csi1" -> CsiPart1(acc, status, acc.type = 2)
                  [] p.part = "uci"  -> UciInfo(acc, status)
                  [] OTHER -> acc
    IN  [read EXCEPT !.offset = @ + Advance(p), !.put = @ + PartBytes(p)]

(* One PDU of the indication: the RNTI is taken from a PUCCH PDU of format *)
(* 2, 3 or 4 and kept for the PUSCH PDUs that follow it. The next PDU is   *)
(* found by PDUSize.                                                       *)
UciPdu(acc, pdu) ==
    LET start == [acc EXCEPT !.type = pdu.type,
                             !.rnti = IF pdu.type = 2 THEN pdu.rnti ELSE @,
                             !.offset = @ + PduHead + PduFixed,
                             !.put = @ + PduHead + PduFixed]
        walked == FoldLeft(UciPart, start, pdu.parts)
        next == acc.offset + PduSize(pdu)
    IN  [walked EXCEPT !.offset = next, !.put = next,
                       !.bad = @ \/ walked.offset - acc.offset > PduSize(pdu)]

Csi1Of(ind, status) ==
    FoldLeft(LAMBDA n, pdu : n + Len(SelectSeq(pdu.parts, LAMBDA p : p.part = "csi1" /\ p.status = status)),
             0, ind)

UciIndication(c) ==
    \E ind \in UciInds :
        LET acc == FoldLeft(UciPdu, [st |-> cellStats[CellOf(c)], ue |-> ueStats, type |-> 0,
                                     rnti |-> 0, offset |-> 8, put |-> 8, bad |-> FALSE], ind)
        IN  /\ csiTold.pass + csiTold.fail < MaxCsi
            /\ Tell(c, "uci", ind)
            /\ cellStats' = [cellStats EXCEPT ![CellOf(c)] = acc.st]
            /\ ueStats' = acc.ue
            /\ asserted' = (asserted \/ acc.bad)
            /\ csiTold' = [pass |-> csiTold.pass + Csi1Of(ind, 0), fail |-> csiTold.fail + Csi1Of(ind, 1)]
            /\ UNCHANGED sSlotNum

(* rxDataIndicationProcDecHdlr fetches the buffers of the TLVs with tag 2  *)
(* and srsIndicationProcDecHdlr only walks: neither keeps anything.        *)
DataIndication(c) ==
    \E ind \in DataInds : Tell(c, "data", ind)
                          /\ UNCHANGED <<cellStats, ueStats, sSlotNum, asserted, csiTold>>

----------------------------------------------------------------------------
(* Slot indications and the dump.                                          *)

Reset_TaKept(st) == [NoStats EXCEPT !.sumFailTa = st.sumFailTa]

(* The end of macDumpCellUlInfo: every printed counter starts again.       *)
Reset(st) == NoStats

Slot(c) ==
    /\ sSlotNum[c] + 1 < DumpPeriod
    /\ sSlotNum' = [sSlotNum EXCEPT ![c] = @ + 1]
    /\ dumped' = NoDump
    /\ UNCHANGED <<cellStats, ueStats, asserted, told, csiTold>>

(* macDumpCellUlInfo in the slot that completes a period. *)
Dump(c) ==
    /\ sSlotNum[c] + 1 >= DumpPeriod
    /\ sSlotNum' = [sSlotNum EXCEPT ![c] = 0]
    /\ dumped' = [now |-> TRUE, stats |-> cellStats[CellOf(c)], of |-> told[c]]
    /\ cellStats' = [cellStats EXCEPT ![CellOf(c)] = Reset(@)]
    /\ told' = [told EXCEPT ![c] = << >>]
    /\ UNCHANGED <<ueStats, asserted, csiTold>>

RxNext == \E c \in RxCells :
    \/ CrcIndication(c)
    \/ RachIndication(c)
    \/ UciIndication(c)
    \/ DataIndication(c)
    \/ Slot(c)
    \/ Dump(c)

RxSpec == RxInit /\ [][RxNext]_rxVars

----------------------------------------------------------------------------
(* What the PHY reported of a kind, as one sequence of elements. *)
Reported(log, kind) ==
    FoldLeft(LAMBDA s, r : IF r.kind = kind THEN s \o r.ind ELSE s, << >>, log)

CountOf(s, Test(_)) == Len(SelectSeq(s, Test))
SumOf(s, F(_)) == FoldLeft(LAMBDA n, x : n + F(x), 0, s)
PartsOf(pdus) == FoldLeft(LAMBDA s, pdu : s \o SelectSeq(pdu.parts, LAMBDA p : pdu.type = 2), << >>, pdus)

(* A dump tells what the PHY reported of this cell since the dump before,  *)
(* and only that: the blocks that passed and failed with their timing      *)
(* advance, and the PUCCH reports by their CRC status, each counted in     *)
(* exactly one dump although two cells, their indications and their dumps  *)
(* interleave (macCrcInHdlr, uciIndicationProcDecHdlr, macDumpCellUlInfo). *)
DumpTellsPeriod ==
    dumped.now =>
        LET crcs == Reported(dumped.of, "crc")
            parts == PartsOf(Reported(dumped.of, "uci"))
            st == dumped.stats
            Passed(x) == x.status = 0
            Failed(x) == x.status = 1
            Ta(x) == x.ta
            PucchPass(p) == p.part \in {"csi1", "uci"} /\ p.status = 0
            PucchFail(p) == p.part = "uci" /\ p.status = 1
            Detected(p) == p.part = "uci" /\ p.status = 2
        IN  /\ st.pass = CountOf(crcs, Passed)
            /\ st.fail = CountOf(crcs, Failed)
            /\ st.sumTa = SumOf(SelectSeq(crcs, Passed), Ta)
            /\ st.sumFailTa = SumOf(SelectSeq(crcs, Failed), Ta)
            /\ st.pucchPass = CountOf(parts, PucchPass)
            /\ st.pucchFail = CountOf(parts, PucchFail)
            /\ st.uciDet = CountOf(parts, Detected)

(* The walk of an indication the PHY packed as announced never runs past   *)
(* PDUSize, where the MAC would end in ASSERT(0), whatever optional parts  *)
(* the PDU carries (mac_rx.c, the test after the switch).                  *)
WalkStaysInside == ~asserted

(* Every CSI part 1 report is counted once for some UE: none is lost when  *)
(* PDUs of several types share an indication. The RNTI of a PUSCH PDU is   *)
(* the one of an earlier PUCCH PDU, so which UE is not promised.           *)
CsiCounted ==
    /\ csiTold.pass = FoldLeft(LAMBDA n, u : n + ueStats[u].pass, 0, [i \in 1..UeMask |-> i - 1])
    /\ csiTold.fail = FoldLeft(LAMBDA n, u : n + ueStats[u].fail, 0, [i \in 1..UeMask |-> i - 1])

(* The averages of a RACH dump are those of the preambles and PDUs of the  *)
(* period; the RSSI sum is kept in 16 bits and right only modulo them.     *)
RachMeansRight ==
    dumped.now =>
        LET pdus == Reported(dumped.of, "rach")
            pres == FoldLeft(LAMBDA s, p : s \o p.preambles, << >>, pdus)
            st == dumped.stats
            TaOf(x) == x.ta
            RssiOf(x) == x.rssi
        IN  /\ st.numTa = Len(pres)
            /\ st.taAvg = SumOf(pres, TaOf)
            /\ st.numRssi = Len(pdus)
            /\ st.rssiAvg = SumOf(pdus, RssiOf) % RssiWidth

(* What the PHY reports is walked without leaving the PDU and counted      *)
(* exactly once: by the cell in the dump of the period, and by a UE        *)
(* (uciIndicationProcDecHdlr, macCrcInHdlr, macPreambleInHdlr and the      *)
(* dump).                                                                  *)
ReportsCounted == DumpTellsPeriod /\ RachMeansRight /\ WalkStaysInside /\ CsiCounted
=============================================================================
