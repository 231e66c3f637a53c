------------------------------ MODULE Console ------------------------------
(***************************************************************************)
(* Start-up and console of the program (main.c): the options are read one  *)
(* by one, macInit starts a real-time thread for each cell of each device  *)
(* on the next slave core, and then every read of the console is taken for *)
(* one command and sent to the ring of the cell it names.                  *)
(*                                                                         *)
(* A line is a name and its parameters, numbers after one space each.  A   *)
(* terminal gives a read one line; a pipe or a file may give it several.   *)
(* What happens to the message in the ring is the matter of QuickMsgRing.  *)
(***************************************************************************)
EXTENDS Integers, Sequences, SequencesExt, FiniteSets, FiniteSetsExt, Functions

CONSTANTS Devices,      \* MAC_PC802_INDEX_MAX devices, from 0
          Boards,       \* the sets of devices that may be present
          CoreNums,     \* numbers of slave cores the process may be given
          ArgLists,     \* option lists: sequences of [opt, num], num -1 if malformed
          IntSign,      \* 2^31: a number of that size is negative as an int
          Reads,        \* what a read may return, a sequence of lines
          MaxReads      \* bound: reads of the console

\* The array slaveCore has ten entries, enough for two cells of each device; the code
\* relies on being given no more cores than that.
ASSUME ConsoleAssumption ==
  /\ Devices \in 1 .. 5 /\ IntSign \in Nat \ {0} /\ MaxReads \in Nat
  /\ Boards \subseteq SUBSET (0 .. Devices - 1) /\ CoreNums \subseteq 0 .. 10
  /\ ArgLists \subseteq Seq([opt : STRING, num : Nat \cup {-1}])
  /\ Reads \subseteq Seq([name : STRING, params : Seq(Nat)]) /\ <<>> \notin Reads

VARIABLES
  boot,        \* "args", "launch", "run", or "exit" when the options are refused
               \* and "stuck" in a launch on a core that takes none
  args,        \* options still to read
  sAppCfg,     \* runtimePerTc, cellMask and the address of the trace
  g_cellNum,   \* cells of each device
  g_devMapPort, \* the devices with a port
  slaveCore,   \* the array of slave cores, 0 where there is none
  launchDev, cpu_index,      \* how far macInit has got
  threads,     \* slave core -> the device and cell its thread serves
  resultStr,   \* the parameters splitStr found
  options,        \* history: the option list given
  last,        \* history: the lines of the last read and the message sent for it
  reads

conVars == <<boot, args, sAppCfg, g_cellNum, g_devMapPort, slaveCore, launchDev, cpu_index,
             threads, resultStr, options, last, reads>>
bootVars == <<args, sAppCfg, g_cellNum>>
cmdVars == <<resultStr, last, reads>>

Devs == 0 .. Devices - 1
SplitNum == 10
NoCfg == [runtimePerTc |-> 0, cellMask |-> 0, trace |-> FALSE]

ConInit ==
  /\ boot = "args"
  /\ args \in ArgLists /\ options = args
  /\ sAppCfg = NoCfg /\ g_cellNum = [d \in Devs |-> 1]
  /\ g_devMapPort \in Boards
  /\ \E n \in CoreNums : slaveCore = [i \in 0 .. 9 |-> IF i < n THEN i + 1 ELSE 0]
  /\ launchDev = 0 /\ cpu_index = 0 /\ threads = <<>>
  /\ resultStr = <<>> /\ last = [lines |-> <<>>, sent |-> <<>>] /\ reads = 0

-----------------------------------------------------------------------------
\* What the numeric options make of their argument, and the int they return.
Number(num) == IF num = -1 THEN 0 ELSE num
AsInt(n) == LET m == n % (2 * IntSign) IN IF m >= IntSign THEN m - 2 * IntSign ELSE m

\* Two bits of the mask for each device.
CellsOf(mask) == [d \in Devs |-> (mask \div (4^d)) % 4]

\* testmac_parse_args: one option; a mask of 0 leaves the cells as they are, and an
\* argument that is negative as an int ends the program, as does an unknown option.
ParseOption ==
  /\ boot = "args" /\ args # <<>>
  /\ LET o == Head(args) IN
       /\ sAppCfg' = CASE o.opt = "T" -> [sAppCfg EXCEPT !.runtimePerTc = Number(o.num)]
                       [] o.opt = "C" -> [sAppCfg EXCEPT !.cellMask = Number(o.num)]
                       [] o.opt \in {"p", "trace_ip"} -> [sAppCfg EXCEPT !.trace = TRUE]
                       [] OTHER -> sAppCfg
       /\ g_cellNum' = IF o.opt = "C" /\ Number(o.num) # 0 THEN CellsOf(Number(o.num)) ELSE g_cellNum
       /\ boot' = IF \/ o.opt \in {"T", "C"} /\ AsInt(Number(o.num)) < 0
                     \/ o.opt \notin {"T", "C", "p", "trace_ip"}
                  THEN "exit" ELSE "args"
  /\ args' = Tail(args)
  /\ UNCHANGED <<g_devMapPort, slaveCore, launchDev, cpu_index, threads, options, cmdVars>>

ArgsDone ==
  /\ boot = "args" /\ args = <<>>
  /\ boot' = "launch"
  /\ UNCHANGED <<bootVars, g_devMapPort, slaveCore, launchDev, cpu_index, threads, options, cmdVars>>

-----------------------------------------------------------------------------
\* The second cell of a device gets a thread only if it has more than one.
TwoCells(d) == g_cellNum[d] > 1

\* rte_eal_remote_launch: a slave core starts the function unless it runs another
\* one already; the result is ignored.
Launched(ts, core, dc) ==
  IF core = 0 \/ core \in DOMAIN ts THEN ts
  ELSE [c \in DOMAIN ts \cup {core} |-> IF c = core THEN dc ELSE ts[c]]

\* cpu_index after the threads of a device.
NextCpu(i, d) == IF TwoCells(d) THEN i + 2 ELSE i + 1

\* macInit: one turn of the loop over the devices.
LaunchDevice ==
  /\ boot = "launch" /\ launchDev \in Devs
  /\ LET cell0 == Launched(threads, slaveCore[cpu_index], <<launchDev, 0>>)
         cell1 == Launched(cell0, slaveCore[cpu_index + 1], <<launchDev, 1>>)
         none == slaveCore[cpu_index] = 0 \/ (TwoCells(launchDev) /\ slaveCore[cpu_index + 1] = 0)
     IN IF launchDev \in g_devMapPort
        THEN /\ threads' = IF TwoCells(launchDev) THEN cell1 ELSE cell0
             /\ cpu_index' = NextCpu(cpu_index, launchDev)
             /\ boot' = IF none THEN "stuck" ELSE "launch"
        ELSE UNCHANGED <<threads, cpu_index, boot>>
  /\ launchDev' = launchDev + 1
  /\ UNCHANGED <<bootVars, g_devMapPort, slaveCore, options, cmdVars>>

LaunchDone ==
  /\ boot = "launch" /\ launchDev = Devices
  /\ boot' = "run"
  /\ UNCHANGED <<bootVars, g_devMapPort, slaveCore, launchDev, cpu_index, threads, options, cmdVars>>

-----------------------------------------------------------------------------
\* The commands, and the words splitStr makes of their names when they turn up in
\* the middle of a read ("_" separates words too): not numbers, so strtoul gives 0.
CmdNames == {"help", "tc_config_case", "tc_dl_case", "tc_ul_case", "tc_tx_case", "tc_case", "tc_stop"}
WordsOf(name) == CASE name \in {"tc_case", "tc_stop"} -> <<0, 0>>
                   [] name \in {"tc_config_case", "tc_dl_case", "tc_ul_case", "tc_tx_case"} -> <<0, 0, 0>>
                   [] OTHER -> <<0>>

\* All words after the first, which strtok cut off at the first space.
Words(lines) == FlattenSeq([i \in DOMAIN lines |->
                  IF i = 1 THEN lines[i].params ELSE WordsOf(lines[i].name) \o lines[i].params])

SplitStr_Kept(words) == [i \in 1 .. SplitNum |-> IF i <= Len(words) THEN words[i]
                                                  ELSE IF i <= Len(resultStr) THEN resultStr[i] ELSE 0]
\* At most ten words; the array is cleared before.
SplitStr(words) == [i \in 1 .. SplitNum |-> IF i <= Len(words) THEN words[i] ELSE 0]

\* CmdTcConfigCase, CmdTcStop: three numbers; the others four.  Narrowed to 16 and 8 bits.
Message(name, p) ==
  LET three == name \in {"tc_config_case", "tc_stop"}
      dev == IF three THEN p[2] ELSE p[3]
      cell == IF three THEN p[3] ELSE p[4]
  IN [id |-> name, paras |-> <<p[1] % 65536, IF three THEN 0 ELSE p[2] % 65536, dev % 256, cell % 256>>]

\* The command a read names: the text up to the first space, which spans lines when
\* the first has no parameters.
CmdOf(lines) == IF lines[1].params # <<>> \/ Len(lines) = 1 THEN lines[1].name ELSE "unknown"

\* cmd_callback.
ReadCmd(lines) ==
  /\ boot = "run" /\ reads < MaxReads
  /\ LET cmd == CmdOf(lines)
         p == SplitStr(Words(lines))
         parsed == cmd \in CmdNames \ {"help"}
     IN /\ resultStr' = IF parsed THEN p ELSE resultStr
        /\ last' = [lines |-> lines, sent |-> IF parsed THEN <<Message(cmd, p)>> ELSE <<>>]
  /\ reads' = reads + 1
  /\ UNCHANGED <<boot, bootVars, g_devMapPort, slaveCore, launchDev, cpu_index, threads, options>>

ConNext == ParseOption \/ ArgsDone \/ LaunchDevice \/ LaunchDone \/ \E r \in Reads : ReadCmd(r)
ConSpec == ConInit /\ [][ConNext]_conVars

-----------------------------------------------------------------------------
\* The columns of the commands in the console's help.
Columns(name) == CASE name \in {"tc_config_case", "tc_stop"} -> <<"id", "dev", "cell">>
                   [] name = "help" -> <<>>
                   [] OTHER -> <<"id", "more", "dev", "cell">>
\* What a line means by the help: each number stands in its column, what is
\* left out is 0.
Meant(line) ==
  LET cols == Columns(line.name)
      At(c) == IF \E k \in DOMAIN line.params : k <= Len(cols) /\ cols[k] = c
               THEN line.params[CHOOSE k \in DOMAIN cols : cols[k] = c] ELSE 0
  IN [id |-> line.name, paras |-> <<At("id") % 65536, At("more") % 65536, At("dev") % 256, At("cell") % 256>>]

\* A line that is read alone, or of which all the columns are filled, becomes the
\* message its help text describes, with nothing left over from an earlier line or
\* taken from the line that follows; a line that names no command sends nothing
\* (cmd_callback, splitStr).
LineObeyed ==
  LET line == last.lines[1] IN
  (last.lines # <<>> /\ (Len(last.lines) = 1 \/ Len(line.params) >= Len(Columns(line.name)))
     /\ (Len(last.lines) > 1 => line.params # <<>>)) =>
    last.sent = IF line.name \in CmdNames \ {"help"} THEN <<Meant(line)>> ELSE <<>>

\* The threads asked for: one for each device present, and a second where the last
\* mask other than 0 gives the device two cells or three.
Masks == {k \in DOMAIN options : options[k].opt = "C" /\ options[k].num > 0}
AskedTwo(d) == Masks # {} /\ (options[Max(Masks)].num \div (4^d)) % 4 >= 2
Wanted == {dc \in g_devMapPort \X {0, 1} : dc[2] = 0 \/ AskedTwo(dc[1])}
\* Once the program runs, each cell asked for has one thread, on a core of its own,
\* and with a slave core for each of them start-up does not get stuck, whatever
\* the order of the options and wherever the devices are (macInit,
\* testmac_parse_cellmask).
ThreadsPlaced ==
  /\ boot = "run" => Range(threads) = Wanted /\ Cardinality(DOMAIN threads) = Cardinality(Wanted)
  /\ boot = "stuck" => Cardinality({i \in 0 .. 9 : slaveCore[i] # 0}) < Cardinality(Wanted)

\* From the command line of the program to that of the console: the cells asked for
\* have their threads, and what is typed reaches them as typed (macInit, cmd_callback).
ConsoleSound == LineObeyed /\ ThreadsPlaced
=============================================================================
