-------------------------------- MODULE MCCells --------------------------------
(***************************************************************************)
(* Two parts that share no state: the life cycle of cells (MacCell) and    *)
(* the wake-up of the event loop (EvWake).  A behaviour is one of one      *)
(* part; the other rests.                                                  *)
(***************************************************************************)
EXTENDS MacCell, EvWake

VARIABLE which
partVars == <<which, cellVars, wakeVars>>

StartStop == {"TX_CASE", "TC_STOP"}
Manual == {"TX_CASE", "TC_STOP", "TC_CONFIG_CASE", "TC_SINGLE_CASE"}

CellsInit == which \in {"cell", "wake"} /\ Init /\ EvWakeInit

CellsNext ==
  /\ UNCHANGED which
  /\ \/ which = "cell" /\ Next /\ UNCHANGED wakeVars
     \/ which = "wake" /\ EvWakeNext /\ UNCHANGED cellVars

CellsSpec == CellsInit /\ [][CellsNext]_partVars

\* The fairness of MacCell's FairSpec and of EvWake's EvWakeFair.
CellsFair ==
  LET Cell(A) == which = "cell" /\ A /\ UNCHANGED <<which, wakeVars>>
      Wake(A) == which = "wake" /\ A /\ UNCHANGED <<which, cellVars>>
  IN /\ \A c \in Cells :
          /\ WF_partVars(Cell(RtThread(c)))
          /\ SF_partVars(Cell(TakesCmd(c)))
          /\ SF_partVars(Cell(CtrlRecv(c)))
          /\ WF_partVars(Cell(PhyRequest(c)))
          /\ WF_partVars(Cell(PhySlot(c)))
     /\ WF_partVars(Wake(LoopThread)) /\ WF_partVars(Wake(Drain))
     /\ \A s \in WakeSources : WF_partVars(Wake(Sender(s)))

CellsFairSpec == CellsSpec /\ CellsFair
===============================================================================
