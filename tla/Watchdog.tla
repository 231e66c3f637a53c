------------------------------ MODULE Watchdog ------------------------------
(***************************************************************************)
(* src/main.c: tmr_callback, the timer of the main thread, watching cell 0  *)
(* of device 0 while MacCell runs.  A tick every 100 ms counts how long the *)
(* cell has been waiting for the PHY, and gives the process up when that is *)
(* too long.  The time-per-case option (-T) is the same number that MacCell *)
(* takes as RunTti; a tick it divides ends early, before the check.         *)
(*                                                                         *)
(* The build has no PHY stub and no total run time (loadCfg), so the code   *)
(* for those in tmr_callback is never reached.                              *)
(***************************************************************************)
EXTENDS MacCell

CONSTANT Limit      \* ticks that a wait may last (1000000 in the code)

ASSUME LimitAssumption == Limit \in Nat

VARIABLES
  sTti,       \* s_tti, of which only the remainder by RunTti matters
  checkTti,   \* s_checkTti
  sPhyState,  \* s_phyState
  exited      \* exit(0) was called

dogVars == <<sTti, checkTti, sPhyState, exited>>
sysVars == <<cellVars, dogVars>>

Waiting == {"PHY_CFG", "PHY_INIT"}

DogInit ==
  /\ Init
  /\ sTti = 0
  /\ checkTti = 0
  /\ sPhyState = "PHY_IDLE"
  /\ exited = FALSE

-----------------------------------------------------------------------------
\* s_tti++ and its remainder; with no time per case it is not used.
NextTti == IF RunTti = 0 THEN 0 ELSE (sTti + 1) % RunTti

\* Mutant: every tick returns early once a time per case is set.
TimeIsUp_Always == RunTti # 0

\* The tick returns early: time is up, and the PHY is not a stub.
TimeIsUp == RunTti # 0 /\ NextTti = 0

\* A tick that does not look.
TickSkips ==
  /\ TimeIsUp \/ phyState[0] \notin Waiting
  /\ UNCHANGED <<checkTti, sPhyState, exited>>

\* The wait has lasted too long: "Wait PHY timeout".
TickExits ==
  /\ ~TimeIsUp
  /\ phyState[0] \in Waiting
  /\ checkTti > Limit
  /\ exited' = TRUE
  /\ UNCHANGED <<checkTti, sPhyState>>

\* The count starts, or goes on: also from an earlier wait in the same state,
\* since s_phyState is not set where the cell does not wait.
TickCounts ==
  /\ ~TimeIsUp
  /\ phyState[0] \in Waiting
  /\ checkTti <= Limit
  /\ checkTti' = IF sPhyState # phyState[0] THEN 0 ELSE checkTti + 1
  /\ sPhyState' = phyState[0]
  /\ UNCHANGED exited

Tick ==
  /\ TickSkips \/ TickExits \/ TickCounts
  /\ sTti' = NextTti
  /\ UNCHANGED cellVars

\* The cells go on meanwhile, until the process exits.
CellStep == Next /\ UNCHANGED dogVars

DogNext == ~exited /\ (CellStep \/ Tick)

DogSpec == DogInit /\ [][DogNext]_sysVars

\* The event loop keeps firing the timer; threads and PHY are those of MacCell.
DogFairSpec ==
  /\ DogSpec
  /\ WF_sysVars(~exited /\ Tick)
  /\ WF_sysVars(~exited /\ RtThread(0) /\ UNCHANGED dogVars)
  /\ SF_sysVars(~exited /\ TakesCmd(0) /\ UNCHANGED dogVars)
  /\ SF_sysVars(~exited /\ CtrlRecv(0) /\ UNCHANGED dogVars)
  /\ WF_sysVars(~exited /\ PhyRequest(0) /\ UNCHANGED dogVars)

-----------------------------------------------------------------------------
\* Whatever gets lost between MAC and PHY, nobody waits for ever: cell 0 leaves
\* the state it waits in or tmr_callback ends the process, although every tick
\* that -T divides is not checked.  (With -T 1 no tick is.)
WaitEnds ==
  \A s \in Waiting :
    phyState[0] = s ~> (phyState[0] # s \/ exited)
=============================================================================
