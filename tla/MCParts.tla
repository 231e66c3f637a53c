------------------------------- MODULE MCParts -------------------------------
(***************************************************************************)
(* Parts of the program that share no state with one another, checked      *)
(* together.  Of the MAC: the group of requests of one thread (MacTx), the *)
(* indications (MacRx), the OAM requests (OamRelay), the packing of        *)
(* messages (FapiPack), start-up and console (Console).  Of the event      *)
(* loop: the timers (EvTimers), the descriptors and epoll (EvIo), the      *)
(* iteration and its watchers (EvLoop), of which each has its own pending  *)
(* events.  A behaviour is one of one part; the others rest.               *)
(***************************************************************************)
EXTENDS MacTx, MacRx, OamRelay, FapiPack, Console, EvTimers, EvIo, EvLoop

VARIABLE which
macVars == <<vars, rxVars, oamVars, packVars, conVars>>
libevVars == <<timerVars, ioVars, evVars>>

OneThread == {"rt0"}

\* Indications of CRC, UCI with every part a PDU may have, and RACH.
MCCrcInds == {<<[status |-> 0, ta |-> 3, rssi |-> 1305, sinr |-> 2], [status |-> 1, ta |-> 5, rssi |-> 0, sinr |-> 0]>>,
              <<[status |-> 0, ta |-> 1, rssi |-> 1200, sinr |-> 1]>>}
P(part, status, ext) == [part |-> part, status |-> status, ext |-> ext]
MCUciInds ==
  {<<[type |-> 2, rnti |-> 4097, parts |-> <<P("sr", 0, 0), P("csi1", 0, 0), P("csi2", 0, 2)>>],
     [type |-> 0, rnti |-> 4098, parts |-> <<P("harq", 0, 0), P("csi1", 1, 0), P("csi2", 0, 1)>>]>>,
   <<[type |-> 0, rnti |-> 4099, parts |-> <<P("csi1", 0, 0)>>],
     [type |-> 1, rnti |-> 4097, parts |-> <<P("sr", 0, 0), P("harq1", 0, 0)>>],
     [type |-> 2, rnti |-> 4098, parts |-> <<P("harq", 0, 0), P("uci", 1, 11)>>]>>,
   <<[type |-> 2, rnti |-> 4098, parts |-> <<P("csi1", 0, 0), P("uci", 2, 8)>>],
     [type |-> 2, rnti |-> 4099, parts |-> <<P("uci", 0, 20)>>]>>}
MCRachInds ==
  {<<[rssi |-> 3, preambles |-> <<[ta |-> 2, id |-> 1], [ta |-> 5, id |-> 2]>>]>>,
   <<[rssi |-> 6, preambles |-> <<[ta |-> 1, id |-> 0]>>], [rssi |-> 1, preambles |-> << >>]>>}
MCDataInds == {<<"tag2">>}

\* Messages to pack: every kind of PDU, each array empty and not.
Beam(a, b) == [prgs |-> a, digs |-> b]
Config(prach, maps, n, beams, pms) ==
  [kind |-> "config", prach |-> prach, maps |-> maps, coresets |-> n, prbs |-> n, bwps |-> n,
   beams |-> beams, ports |-> 2, pms |-> pms]
Configs == {Config(p, m, n, b, t) : p \in {<<>>, <<1>>, <<0, 2>>}, m \in {<<>>, <<2>>},
                                    n \in {0, 1}, b \in {0, 2},
                                    t \in {<<>>, <<[layers |-> 2, ants |-> 2]>>}}
DlPdus ==
  {[type |-> "PDCCH", dcis |-> d] : d \in {<<>>, <<Beam(1, 1)>>, <<Beam(2, 0)>>, <<Beam(1, 0), Beam(0, 0)>>,
                                           <<Beam(0, 1), Beam(1, 1)>>}}
  \cup {[type |-> "PDSCH", coresets |-> c, csis |-> 1, bitmap |-> b, prgs |-> 1, digs |-> 0] :
          c \in {0, 1}, b \in SUBSET {1, 2}}
  \cup {[type |-> t, prgs |-> 1, digs |-> d] : t \in {"CSI_RS", "SSB"}, d \in {0, 2}}
UlPdus ==
  {[type |-> t] : t \in {"PRACH", "SRS"}}
  \cup {[type |-> "PUCCH", part2 |-> n] : n \in 0..2}
  \cup {[type |-> "PUSCH", bitmap |-> b, part2 |-> n, ports |-> n] : b \in SUBSET {1, 2, 4, 8}, n \in {0, 1}}
Tti(k, pdus) ==
  {[kind |-> k, pdus |-> <<p>>, groups |-> g] : p \in pdus, g \in {<<>>, <<0, 2>>}}
  \cup {[kind |-> k, pdus |-> <<p, q>>, groups |-> <<1>>] : p \in pdus, q \in pdus}
MCMessages == Configs \cup Tti("dl", DlPdus) \cup Tti("ul", UlPdus)

\* Options right, malformed, overridden and refused; devices in the first, the last
\* and both places; enough cores and too few.
Opt(o, n) == [opt |-> o, num |-> n]
OptionLists == {<<>>, <<Opt("C", 10)>>, <<Opt("T", 5), Opt("C", 11)>>, <<Opt("C", 2), Opt("C", 8), Opt("C", 0)>>,
                <<Opt("C", 10), Opt("C", -1), Opt("p", -1), Opt("trace_ip", -1)>>,
                <<Opt("T", 2048), Opt("C", 10)>>, <<Opt("x", -1)>>}
BoardSets == {{0}, {1}, {0, 1}}
CmdLine(name, params) == [name |-> name, params |-> params]
CmdLines == {CmdLine("tc_case", <<7, 1, 1, 1>>), CmdLine("tc_case", <<65540>>), CmdLine("tc_case", <<3, 2, 1>>),
             CmdLine("tc_stop", <<>>), CmdLine("tc_stop", <<9, 1, 257>>), CmdLine("tc_config_case", <<4, 0, 1, 5>>),
             CmdLine("tc_dl_case", <<2, 3, 0, 1>>), CmdLine("help", <<>>), CmdLine("hlep", <<1>>)}
CmdReads == {<<l>> : l \in CmdLines} \cup {<<l, CmdLine("tc_stop", <<1, 1, 1>>)>> : l \in CmdLines}

\* One-shot timers, one that repeats, an interval and an absolute periodic.
RepeatOf == [w \in Timers |-> IF w = "r1" THEN 1 ELSE 0]
IntervalOf == [w \in Periodics |-> IF w = "i1" THEN 3 ELSE 0]
OffsetOf == [w \in Periodics |-> IF w = "i1" THEN 1 ELSE 2]
JumpSet == {-3, 5}

\* A reader and a writer of the same descriptor, and one of another.
FdMap == [w \in IoWatchers |-> IF w = "w3" THEN "f2" ELSE "f1"]
EventMap == [w \in IoWatchers |-> IF w = "w2" THEN {"write"} ELSE {"read"}]

\* A source, an ev_once and watchers of every list, in two priorities.
KindSets == [prepare |-> {"p1"}, check |-> {"c1"}, idle |-> {"i1", "i2", "i3"},
             fork |-> {"k1"}, cleanup |-> {"u1"}]
PriMap == [w \in LoopWatchers |-> IF w \in {"s1", "c1", "to"} THEN 1 ELSE 0]
IoMap == [o \in Onces |-> "io"]
ToMap == [o \in Onces |-> "to"]

\* The parts that rest start in one of their states.
PartsInit ==
  /\ which \in {"tx", "rx", "oam", "pack", "con", "timers", "io", "loop"}
  /\ IF which = "pack" THEN message \in Messages ELSE message = Config(<<>>, <<>>, 0, 0, <<>>)
  /\ IF which = "con" THEN g_devMapPort \in Boards ELSE g_devMapPort = {0}
  /\ IF which = "con" THEN args \in ArgLists ELSE args = <<>>
  /\ Init /\ RxInit /\ OamInit /\ PackInit /\ EvTimersInit /\ EvIoInit /\ EvLoopInit
  /\ ConInit /\ (which # "con" => slaveCore[0] = 0)

MacPart ==
  \/ which = "tx" /\ Next /\ UNCHANGED <<rxVars, oamVars, packVars, conVars>>
  \/ which = "rx" /\ RxNext /\ UNCHANGED <<vars, oamVars, packVars, conVars>>
  \/ which = "oam" /\ OamNext /\ UNCHANGED <<vars, rxVars, packVars, conVars>>
  \/ which = "pack" /\ PackStep /\ UNCHANGED <<vars, rxVars, oamVars, conVars>>
  \/ which = "con" /\ ConNext /\ UNCHANGED <<vars, rxVars, oamVars, packVars>>

LibevPart ==
  \/ which = "timers" /\ EvTimersNext /\ UNCHANGED <<ioVars, evVars>>
  \/ which = "io" /\ EvIoNext /\ UNCHANGED <<timerVars, evVars>>
  \/ which = "loop" /\ EvLoopNext /\ UNCHANGED <<timerVars, ioVars>>

PartsNext ==
  /\ UNCHANGED which
  /\ \/ MacPart /\ UNCHANGED libevVars
     \/ LibevPart /\ UNCHANGED macVars

PartsSpec == PartsInit /\ [][PartsNext]_<<which, macVars, libevVars>>
=============================================================================
