------------------------------ MODULE FapiPack ------------------------------
(***************************************************************************)
(* How a request is packed for the PHY (ConfigReqParams, DlttiParams and   *)
(* UlttiParams of mac.c) when it is not taken ready from a test case file. *)
(* A message is the structures of l1_api.h one after the other, with       *)
(* variable-size arrays (declared [] or [0], so of size 0 to the compiler) *)
(* and optional parts in between.  Each packer goes through it once: a     *)
(* part is copied either from the place the compiler gives it in its       *)
(* structure or from where the packer has got to, and offset and Output    *)
(* move on by its size.                                                    *)
(*                                                                         *)
(* Contents are abstracted to where they come from: a copy is the range of *)
(* the message it read and the range of the output it wrote.               *)
(***************************************************************************)
EXTENDS Integers, Sequences, SequencesExt, FiniteSetsExt, Folds

CONSTANTS
  Messages,   \* the messages to pack
  MaxVisits   \* bound: how often one loop over the DCIs of a PDU may turn

VARIABLES
  message,    \* what is packed
  copies,     \* the copies still to make
  packed,     \* bytes packed so far
  pduStart,   \* where the current PDU or group starts in the message
  output,     \* the copies made: [to, at, size]
  pduSizes    \* the PDUSize fields written

packVars == <<message, copies, packed, pduStart, output, pduSizes>>

-----------------------------------------------------------------------------
(* Bytes of the fixed parts, field by field.                               *)

L1PrachFdOccasionConfigInfo == 3 * 2 + 2 + 3 * 2 + 2
L1TxRu == 2 * 2
L1DigBeam == 2 * 2
L1PrecoderInfo == 2 * 2
L1CarriConfigInfo == 2 * 4 + 2 * 2 + 4 * (5 * 2) + 2 * 2 + 2 + 2
L1CellConfigInfo == 2 + 2
L1SsbConfigInfo == 2 + 2
L1PrachConfiguration == 2 + 8 + 2
L1PrachConfigInfo == 2 * 2
L1SsbTableConfigInfo == 3 * 2 + 8 + 2 + 2 * 4 + 64
L1TddTableConfigInfo == 2 + 2 + 80 * 14
L1MeasurementConfigInfo == 2 + 2
L1DBTConfigInfo == 2 * 2
L1PMConfigInfo == 4 * 2
L1PMCfgTableInfo == 2 * 2
L1MapIndex == 2 + 2 * 2
L1UciConfigurationInfo == 2 * 2
L1CoresetRmPattern == 2 + 6 + 2 + 2
L1PrbSymbRateMatchPatterns == 1 + 35 + 2 + 2 + 4
L1PrbSym == 2 + 2
L1UlBwpIds == 2 + 2
L1PucchSSConfig == 2 + 2
L1PdschConfig == 2 + 2
L1GroupUeInfo == 2 + 2
L1DlGroupInfo == 2 + 2
L1PdcchBwpInfo == 2 * 2 + 2 + 2
L1BwpInfo == 2 * 2 + 2 + 2
L1TxPrecodingBeamformingPdu == 2 * 2 + 2 + 2
L1DlDciInfo == 4 * 2 + 2 + 2 + 2 * 2 + 20 + L1TxPrecodingBeamformingPdu
L1CoresetInfo == 2 + 2 + 6 + 6
L1Codeword == 2 * 4 + 2 + 6
L1CodewordInfo == 2 + 2 + 2 * L1Codeword
L1PdschDmrsInfo == 3 * 2 + 4 + 2
L1PdschAllocationFdInfo == 4 * 2 + 4 + 36
L1PxschAllocationTdInfo == 2 + 2
L1PtrsInfo == 2 + 4 + 2
L1TxPowerInfo == 2 * 2
L1CsiTxPowerInfo == 2 * 2
L1CbgFeildInfo == 2 + 2 + 8
L1PdcchPduInfo == 2 * 2 + L1PdcchBwpInfo + L1CoresetInfo
L1RateMatchingInformation == 2 + 2
L1CsiRsPduInfo == 5 * 2 + 6 + L1BwpInfo + L1CsiTxPowerInfo + L1TxPrecodingBeamformingPdu
L1SsbPduInfo == 4 + 4 + L1TxPrecodingBeamformingPdu
L1DlPduInfo == 2 * 2
L1DLTTIReq == 3 * 2 + 2 + 2 + 5 * 2
L1UlGroupInfo == 2 + 2
L1PuschDmrsInfo == 4 * 2 + 6 + 2
L1PuschAllocationFdInfo == 6 * 2 + 6 + 2 + 36
L1PuschData == 4 + 2 + 4 + 2 + 128
L1UCIPart2Types == 2 * 2 + 2 + 2 + 4 * 2 + 4
L1Uci1ToUci2Info == 2 * 2
L1PuschUciFixed == 3 * 2 + 4 + 2
L1PtrsPortInfo == 2 + 2
L1PuschPtrs == 4
L1DftsOfdm == 2 + 4 + 2
L1PucchAllocationFdInfo == 2 * 2
L1PucchHoppingInfo == 4 * 2 + 6 + 2
L1PucchDMRSFixed == 2 + 2
L1PrachPdu == 4 + 3 * 2 + 8 + 2 + 4
L1SrsResource == 4 * 2 + 16 + 4 + 2 + 2 + 2 * 2 + 4
L1SrsPdu == 4 + 2 * 2 + L1SrsResource + L1BwpInfo
L1UlPduInfo == 2 * 2
L1ULTTI == 3 * 2 + 2 + 5 * 2 + 2

\* The part of a PDSCH PDU before its code words, of a PUSCH PDU before its
\* optional parts and of a PUCCH PDU before its DMRS information.
PdschHead == 4 * 2 + L1BwpInfo
PuschHead == 4 + 2 * 2 + 4 + 2 * 2 + 6 + 2 + 4 + L1BwpInfo + L1PuschDmrsInfo
             + L1PuschAllocationFdInfo + L1PxschAllocationTdInfo
PucchHead == 4 + 2 + 4 + 2 * 2 + 2 + 4 + L1BwpInfo + L1PucchAllocationFdInfo
             + L1PxschAllocationTdInfo + L1PucchHoppingInfo

-----------------------------------------------------------------------------
(* The copies of a packer.  AtAddr(a, n) copies n bytes from address a of  *)
(* a structure, Here(n) from the message at the packer's offset; Mark      *)
(* starts a PDU or a group, Skip leaves room for a PDU's head and CloseOf  *)
(* fills it in.                                                            *)

AtAddr(a, n) == <<[op |-> "at", a |-> a, n |-> n]>>
Here(n) == <<[op |-> "here", a |-> 0, n |-> n]>>
Mark == <<[op |-> "mark", a |-> 0, n |-> 0]>>
Skip(n) == <<[op |-> "skip", a |-> 0, n |-> n]>>
CloseOf(n) == <<[op |-> "close", a |-> 0, n |-> n]>>

Loop(n, Body(_)) == FlattenSeq([i \in 1..n |-> Body(i)])

\* Elements of n bytes addressed as an array at a.
Elements(a, count, n) == Loop(count, LAMBDA i : AtAddr(a + (i - 1) * n, n))

\* Addresses in L1ConfigRequest_t and in the PDUs, as the compiler has them.
PrachAt == L1CarriConfigInfo + L1CellConfigInfo + L1SsbConfigInfo
SsbTableAt == PrachAt + L1PrachConfigInfo
TddTableAt == SsbTableAt + L1SsbTableConfigInfo
MeasurementAt == TddTableAt + L1TddTableConfigInfo
UciAt == MeasurementAt + L1MeasurementConfigInfo
PrbSymAt == UciAt + L1UciConfigurationInfo
PucchAt == PrbSymAt + L1PrbSym
PdschAt == PucchAt + L1PucchSSConfig
DbtAt == PdschAt + L1PdschConfig
PmAt == DbtAt + L1DBTConfigInfo

\* The PRACH configurations, each with its occasions in frequency.
PrachParts(m) ==
  AtAddr(0, PrachAt + L1PrachConfigInfo) \o
  Loop(Len(m.prach), LAMBDA i :
    LET a == SsbTableAt + (i - 1) * L1PrachConfiguration
    IN AtAddr(a, L1PrachConfiguration)
       \o Elements(a + L1PrachConfiguration, m.prach[i], L1PrachFdOccasionConfigInfo))

UciMapParts(m) ==
  AtAddr(UciAt, L1UciConfigurationInfo) \o
  Loop(Len(m.maps), LAMBDA i :
    LET a == PrbSymAt + (i - 1) * L1MapIndex
    IN AtAddr(a, L1MapIndex) \o Elements(a + L1MapIndex, m.maps[i], 1))

\* Both arrays of L1PrbSym_t have the same address.
PrbSymParts(m) ==
  AtAddr(PrbSymAt, L1PrbSym)
  \o Elements(PucchAt, m.coresets, L1CoresetRmPattern)
  \o Elements(PucchAt, m.prbs, L1PrbSymbRateMatchPatterns)

PucchSSParts(m) == AtAddr(PucchAt, L1PucchSSConfig) \o Elements(PdschAt, m.bwps, L1UlBwpIds)

DbtParts(m) ==
  AtAddr(DbtAt, L1DBTConfigInfo) \o
  Loop(m.beams, LAMBDA i : Here(L1DigBeam) \o Loop(m.ports, LAMBDA j : Here(L1TxRu)))

PmParts(m) ==
  AtAddr(PmAt, L1PMCfgTableInfo) \o
  Loop(Len(m.pms), LAMBDA i :
    Here(L1PMConfigInfo) \o Loop(m.pms[i].layers * m.pms[i].ants, LAMBDA k : Here(L1PrecoderInfo)))

ConfigReqParams(m) ==
  PrachParts(m)
  \o AtAddr(SsbTableAt, L1SsbTableConfigInfo)
  \o AtAddr(TddTableAt, L1TddTableConfigInfo)
  \o AtAddr(MeasurementAt, L1MeasurementConfigInfo)
  \o UciMapParts(m) \o PrbSymParts(m) \o PucchSSParts(m)
  \o AtAddr(PdschAt, L1PdschConfig)
  \o DbtParts(m) \o PmParts(m)

-----------------------------------------------------------------------------
\* The indices behind a precoding and beamforming part, 2 bytes each.
Indices(b) == Loop(b.prgs + b.digs, LAMBDA i : Here(2))

\* Which DCIs the loop of a PDCCH PDU visits.  The loops over the indices
\* of a DCI count with the same i, so the next DCI is the one after its
\* digBFInterfaces; the loop need not end.
Visits(p) ==
  LET visit[k \in 1..MaxVisits] ==
        IF k = 1 THEN 0
        ELSE IF visit[k - 1] >= Len(p.dcis) THEN visit[k - 1]
        ELSE p.dcis[visit[k - 1] + 1].digs + 1
  IN SelectSeq([k \in 1..MaxVisits |-> visit[k]], LAMBDA i : i < Len(p.dcis))

Head4 == L1DlPduInfo

PdcchParts(p) ==
  AtAddr(Head4, L1PdcchPduInfo) \o
  Loop(Len(Visits(p)), LAMBDA k :
    AtAddr(Head4 + L1PdcchPduInfo + Visits(p)[k] * L1DlDciInfo, L1DlDciInfo)
    \o Indices(p.dcis[Visits(p)[k] + 1]))

\* Eight bytes are copied from nIdPdsch on, which with nrOfLayers and
\* refPoint has four; the rest of the PDU is addressed by the structure.
PdschParts(p) ==
  LET nid == Head4 + PdschHead + L1CodewordInfo
      dmrs == nid + 4
      fd == dmrs + L1PdschDmrsInfo
      rm == fd + L1PdschAllocationFdInfo
      td == rm + L1RateMatchingInformation
      pow == td + L1PxschAllocationTdInfo
      ptrs == pow + L1TxPowerInfo
      cbg == ptrs + L1PtrsInfo
  IN AtAddr(Head4, PdschHead) \o AtAddr(Head4 + PdschHead, L1CodewordInfo) \o AtAddr(nid, 8)
     \o AtAddr(dmrs, L1PdschDmrsInfo) \o AtAddr(fd, L1PdschAllocationFdInfo)
     \o AtAddr(rm, L1RateMatchingInformation)
     \o Elements(td, p.coresets, 1) \o Elements(td, p.csis, 2)
     \o AtAddr(td, L1PxschAllocationTdInfo) \o AtAddr(pow, L1TxPowerInfo)
     \o (IF 1 \in p.bitmap THEN AtAddr(ptrs, L1PtrsInfo) ELSE <<>>)
     \o (IF 2 \in p.bitmap THEN AtAddr(cbg, L1CbgFeildInfo) ELSE <<>>)
     \o AtAddr(cbg + L1CbgFeildInfo, L1TxPrecodingBeamformingPdu) \o Indices(p)

CsiRsParts(p) == AtAddr(Head4, L1CsiRsPduInfo) \o Indices(p)
SsbParts(p) == AtAddr(Head4, L1SsbPduInfo) \o Indices(p)

DlPduParts(p) ==
  CASE p.type = "PDCCH" -> PdcchParts(p)
    [] p.type = "PDSCH" -> PdschParts(p)
    [] p.type = "CSI_RS" -> CsiRsParts(p)
    [] p.type = "SSB" -> SsbParts(p)

PrachPduParts(p) == AtAddr(Head4, L1PrachPdu)
SrsParts(p) == AtAddr(Head4, L1SrsPdu)

\* Optional parts by pduBitmap: data, UCI, PTRS and DFT-s-OFDM.
PuschParts_NoUci(p) ==
  LET data == Head4 + PuschHead
      uci == data + L1PuschData
      ptrs == uci + L1PuschUciFixed + L1Uci1ToUci2Info
  IN AtAddr(Head4, PuschHead)
     \o (IF 1 \in p.bitmap THEN AtAddr(data, L1PuschData) ELSE <<>>)
     \o (IF 4 \in p.bitmap THEN AtAddr(ptrs, L1PuschPtrs) ELSE <<>>)

PuschParts(p) ==
  LET data == Head4 + PuschHead
      uci == data + L1PuschData
      ptrs == uci + L1PuschUciFixed + L1Uci1ToUci2Info
      dfts == ptrs + L1PuschPtrs
  IN AtAddr(Head4, PuschHead)
     \o (IF 1 \in p.bitmap THEN AtAddr(data, L1PuschData) ELSE <<>>)
     \o (IF 2 \in p.bitmap
         THEN AtAddr(uci, L1PuschUciFixed) \o AtAddr(uci + L1PuschUciFixed, L1Uci1ToUci2Info)
              \o Elements(ptrs, p.part2, L1UCIPart2Types) ELSE <<>>)
     \o (IF 4 \in p.bitmap
         THEN AtAddr(ptrs, L1PuschPtrs) \o Elements(dfts, p.ports, L1PtrsPortInfo) ELSE <<>>)
     \o (IF 8 \in p.bitmap THEN AtAddr(dfts, L1DftsOfdm) ELSE <<>>)

PucchParts(p) ==
  LET dmrs == Head4 + PucchHead
      uci == dmrs + L1PucchDMRSFixed
  IN AtAddr(Head4, PucchHead) \o AtAddr(dmrs, L1PucchDMRSFixed) \o AtAddr(uci, L1Uci1ToUci2Info)
     \o Elements(uci + L1Uci1ToUci2Info, p.part2, L1UCIPart2Types)

UlPduParts(p) ==
  CASE p.type = "PRACH" -> PrachPduParts(p)
    [] p.type = "PUSCH" -> PuschParts(p)
    [] p.type = "PUCCH" -> PucchParts(p)
    [] p.type = "SRS" -> SrsParts(p)

\* A PDU leaves room for its type and size, which are filled in when its
\* size is known.
Pdu(n, parts) == Mark \o Skip(n) \o parts \o CloseOf(n)

\* A group and its UEs: the same in both directions.
DlGroupParts(ues) == Mark \o AtAddr(0, L1DlGroupInfo) \o Elements(L1DlGroupInfo, ues, L1GroupUeInfo)
UlGroupParts(ues) == Mark \o AtAddr(0, L1UlGroupInfo) \o Elements(L1UlGroupInfo, ues, L1GroupUeInfo)

DlttiParams(m) ==
  AtAddr(0, L1DLTTIReq)
  \o Loop(Len(m.pdus), LAMBDA j : Pdu(L1DlPduInfo, DlPduParts(m.pdus[j])))
  \o Loop(Len(m.groups), LAMBDA j : DlGroupParts(m.groups[j]))

UlttiParams(m) ==
  AtAddr(0, L1ULTTI)
  \o Loop(Len(m.pdus), LAMBDA j : Pdu(L1UlPduInfo, UlPduParts(m.pdus[j])))
  \o Loop(Len(m.groups), LAMBDA j : UlGroupParts(m.groups[j]))

Params(m) == CASE m.kind = "config" -> ConfigReqParams(m)
               [] m.kind = "dl" -> DlttiParams(m)
               [] m.kind = "ul" -> UlttiParams(m)

-----------------------------------------------------------------------------
PackInit ==
  /\ message \in Messages /\ copies = Params(message)
  /\ packed = 0 /\ pduStart = 0 /\ output = <<>> /\ pduSizes = <<>>

\* One memcpy, or one of the assignments between two of them.
PackStep ==
  /\ copies # <<>>
  /\ LET p == Head(copies) IN
     /\ pduStart' = IF p.op = "mark" THEN packed ELSE pduStart
     /\ packed' = IF p.op = "close" THEN packed ELSE packed + p.n
     /\ output' = CASE p.op = "at" -> Append(output, [to |-> packed, at |-> pduStart + p.a, size |-> p.n])
                    [] p.op = "here" -> Append(output, [to |-> packed, at |-> packed, size |-> p.n])
                    [] p.op = "close" -> Append(output, [to |-> pduStart, at |-> pduStart, size |-> p.n])
                    [] OTHER -> output
     /\ pduSizes' = IF p.op = "close" THEN Append(pduSizes, packed - pduStart) ELSE pduSizes
  /\ copies' = Tail(copies)
  /\ UNCHANGED message

PackSpec == PackInit /\ [][PackStep]_packVars

-----------------------------------------------------------------------------
(* What l1_api.h says a message is: every array has as many elements as    *)
(* its count, every optional part is there if its bit is.                  *)

SumOver(S, F(_)) == FoldSet(LAMBDA x, acc : F(x) + acc, 0, S)
IfIn(b, S, n) == IF b \in S THEN n ELSE 0

SizeOfPdu(p) ==
  LET beams == IF "prgs" \in DOMAIN p THEN 2 * (p.prgs + p.digs) ELSE 0 IN
  4 + beams +
  CASE p.type = "PDCCH" ->
         L1PdcchPduInfo + SumOver(DOMAIN p.dcis, LAMBDA i : L1DlDciInfo + 2 * (p.dcis[i].prgs + p.dcis[i].digs))
    [] p.type = "PDSCH" ->
         PdschHead + L1CodewordInfo + 4 + L1PdschDmrsInfo + L1PdschAllocationFdInfo
         + L1RateMatchingInformation + p.coresets + 2 * p.csis + L1PxschAllocationTdInfo
         + L1TxPowerInfo + IfIn(1, p.bitmap, L1PtrsInfo) + IfIn(2, p.bitmap, L1CbgFeildInfo)
         + L1TxPrecodingBeamformingPdu
    [] p.type = "CSI_RS" -> L1CsiRsPduInfo
    [] p.type = "SSB" -> L1SsbPduInfo
    [] p.type = "PRACH" -> L1PrachPdu
    [] p.type = "SRS" -> L1SrsPdu
    [] p.type = "PUSCH" ->
         PuschHead + IfIn(1, p.bitmap, L1PuschData)
         + IfIn(2, p.bitmap, L1PuschUciFixed + L1Uci1ToUci2Info + p.part2 * L1UCIPart2Types)
         + IfIn(4, p.bitmap, L1PuschPtrs + p.ports * L1PtrsPortInfo) + IfIn(8, p.bitmap, L1DftsOfdm)
    [] p.type = "PUCCH" ->
         PucchHead + L1PucchDMRSFixed + L1Uci1ToUci2Info + p.part2 * L1UCIPart2Types

HeadOf(m) == IF m.kind = "dl" THEN L1DLTTIReq ELSE L1ULTTI

SizeOf(m) ==
  IF m.kind = "config"
  THEN PmAt + L1PMCfgTableInfo
       + SumOver(DOMAIN m.prach, LAMBDA i : L1PrachConfiguration + m.prach[i] * L1PrachFdOccasionConfigInfo)
       + SumOver(DOMAIN m.maps, LAMBDA i : L1MapIndex + m.maps[i])
       + m.coresets * L1CoresetRmPattern + m.prbs * L1PrbSymbRateMatchPatterns
       + m.bwps * L1UlBwpIds + m.beams * (L1DigBeam + m.ports * L1TxRu)
       + SumOver(DOMAIN m.pms, LAMBDA i : L1PMConfigInfo + m.pms[i].layers * m.pms[i].ants * L1PrecoderInfo)
  ELSE HeadOf(m) + SumOver(DOMAIN m.pdus, LAMBDA j : SizeOfPdu(m.pdus[j]))
       + SumOver(DOMAIN m.groups, LAMBDA j : 4 + 4 * m.groups[j])

\* Nothing of variable size, and no absent part, comes before a part that is
\* addressed by its structure.  A PDSCH PDU is never so.
RegularPdu(p) ==
  CASE p.type = "PDCCH" -> Len(p.dcis) <= 1
    [] p.type = "PDSCH" -> FALSE
    [] p.type = "PUSCH" ->
         /\ \A b \in {2, 4, 8} \cap p.bitmap : {c \in {1, 2, 4} : c < b} \subseteq p.bitmap
         /\ p.bitmap \cap {4, 8} # {} => p.part2 = 0
         /\ 8 \in p.bitmap => p.ports = 0
    [] OTHER -> TRUE

Regular(m) ==
  IF m.kind = "config"
  THEN m.prach = <<>> /\ m.maps = <<>> /\ m.coresets = 0 /\ m.prbs = 0 /\ m.bwps = 0 /\ m.beams = 0
  ELSE \A j \in DOMAIN m.pdus : RegularPdu(m.pdus[j])

\* A regular message is packed byte for byte: what was read at an offset is
\* written at that offset, and no byte of the message is left out.
PackedExactly ==
  (copies = <<>> /\ Regular(message)) =>
    /\ \A k \in DOMAIN output : output[k].to = output[k].at
    /\ packed = SizeOf(message)
    /\ SumOver(DOMAIN output, LAMBDA k : output[k].size) = packed

\* Messages whose size the packers get right, wherever they copy from: all
\* but those with a PDSCH PDU or with several DCIs in one PDU.
Sized(m) == m.kind = "config" \/ \A j \in DOMAIN m.pdus :
              m.pdus[j].type # "PDSCH" /\ (m.pdus[j].type = "PDCCH" => Len(m.pdus[j].dcis) <= 1)

\* The size a packer returns is the one the declarations of l1_api.h give
\* the message, and the PDUSize fields (by which the PHY walks the PDUs)
\* lead over every PDU from the message's head to its groups.
SizesRight ==
  copies = <<>> =>
    /\ Sized(message) => packed = SizeOf(message)
    /\ message.kind # "config" =>
         /\ Len(pduSizes) = Len(message.pdus)
         /\ HeadOf(message) + SumOver(DOMAIN pduSizes, LAMBDA j : pduSizes[j])
            + SumOver(DOMAIN message.groups, LAMBDA j : 4 + 4 * message.groups[j]) = packed

\* What the PHY is handed: the bytes of the message, in the size the packer says, with
\* PDU sizes that lead from one PDU to the next (ConfigReqParams, DlttiParams,
\* UlttiParams).
Packed == PackedExactly /\ SizesRight
=============================================================================
