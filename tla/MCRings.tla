------------------------------- MODULE MCRings -------------------------------
(***************************************************************************)
(* The two rings between threads, which share no state: the message ring   *)
(* (QuickMsgRing) and the trace of PHY messages (MacTrace).  A behaviour   *)
(* is one of one ring; the other rests.                                    *)
(***************************************************************************)
EXTENDS QuickMsgRing, MacTrace

VARIABLE which
ringVars == <<which, vars, traceVars>>

\* Lengths in bytes that give 2 and 3 words.
Lens23 == {8, 10}

RingsInit == which \in {"msg", "trace"} /\ Init /\ TraceInit

RingsNext ==
  /\ UNCHANGED which
  /\ \/ which = "msg" /\ Next /\ UNCHANGED traceVars
     \/ which = "trace" /\ TraceNext /\ UNCHANGED vars

\* The fairness of QuickMsgRing's FairSpec and of MacTrace's TraceFair.
RingsFair ==
  LET Msg(A) == which = "msg" /\ A /\ UNCHANGED <<which, traceVars>>
      Trace(A) == which = "trace" /\ A /\ UNCHANGED <<which, vars>>
  IN /\ WF_ringVars(Msg(Consumer))
     /\ WF_ringVars(Trace(DrainStep))
     /\ \A a \in Adders : WF_ringVars(Trace(AddEnd(a) \/ AddLen(a) \/ AddData(a)))

RingsSpec == RingsInit /\ [][RingsNext]_ringVars /\ RingsFair

\* Both readers catch up: the oldest message the callback takes is taken, and every
\* item traced is given to the socket unless tracing ended or the trace was disturbed
\* (QuickMsgRingRecvMsgWithUnpackFunc, _phyTraceCheckProcess, phyTrace).
BothDrained == HeadTaken /\ TraceSent
=============================================================================
