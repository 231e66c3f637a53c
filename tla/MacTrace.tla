------------------------------- MODULE MacTrace -------------------------------
(***************************************************************************)
(* The ring through which real-time threads hand PHY messages to the trace *)
(* thread (macTrace.c). There is no test for a full ring and no lock: an   *)
(* add is four separate accesses, the trace thread takes a batch by        *)
(* reading both indices and gives it back when it has walked all of it,    *)
(* also when the socket refused some of its items: those are lost.         *)
(***************************************************************************)
EXTENDS Integers, Sequences

CONSTANTS Adders,     \* threads that call addPhyTraceItem
          TraceItems, \* MAX_PHY_TRACE_ITEM
          MaxAdds     \* bound: items added

ASSUME TraceAssumption == TraceItems \in Nat \ {0}

VARIABLES
    traceStart, end, item, \* _PhyTraceBuf
    itemType,           \* platformCfg.phyTrace.type is TRACE_UDP
    sock,               \* _ptFd: "none", "open", or "closed" with the number kept
    add,                \* each adder: its step, its copy of end, its message
    drain,              \* the trace thread: its step, start, count and index
    adds,               \* items given to addPhyTraceItem so far
    added,              \* messages in the order in which end passed them, and
    tried,              \* <<data, octCnt>> of each call of sendto, and
    refused,            \* the calls whose datagram did not go out, until
    disturbed           \* two adds overlapped or an add filled the ring

traceVars == <<traceStart, end, item, itemType, sock, add, drain, adds, added, tried, refused, disturbed>>

Slots == 0..(TraceItems - 1)
Calm == [step |-> "out", end |-> 0, msg |-> 0]

TraceInit ==
    /\ traceStart = 0 /\ end = 0
    /\ item = [i \in Slots |-> <<0, 0>>]
    /\ itemType = TRUE
    /\ sock = "none"
    /\ add = [a \in Adders |-> Calm]
    /\ drain = [step |-> "sleep", start |-> 0, cnt |-> 0, i |-> 0]
    /\ adds = 0 /\ added = << >> /\ tried = << >> /\ refused = {}
    /\ disturbed = FALSE

(* The record of the properties ends with the first disturbance. *)
Log(seq, over) == IF over THEN << >> ELSE seq
LogSet(calls, over) == IF over THEN {} ELSE calls

Adding == {a \in Adders : add[a].step # "out"}

(* addPhyTraceItem: with tracing off nothing is added; the copy of end.    *)
AddBegin(a) ==
    /\ add[a].step = "out" /\ itemType
    /\ adds < MaxAdds
    /\ adds' = adds + 1
    /\ add' = [add EXCEPT ![a] = [step |-> "data", end |-> end, msg |-> adds + 1]]
    /\ disturbed' = (disturbed \/ Adding # {})
    /\ added' = Log(added, disturbed') /\ tried' = Log(tried, disturbed') /\ refused' = LogSet(refused, disturbed')
    /\ UNCHANGED <<traceStart, end, item, itemType, sock, drain>>

AddData(a) ==
    /\ add[a].step = "data"
    /\ item' = [item EXCEPT ![add[a].end][1] = add[a].msg]
    /\ add' = [add EXCEPT ![a].step = "len"]
    /\ UNCHANGED <<traceStart, end, itemType, sock, drain, adds, added, tried, refused, disturbed>>

AddLen(a) ==
    /\ add[a].step = "len"
    /\ item' = [item EXCEPT ![add[a].end][2] = add[a].msg]
    /\ add' = [add EXCEPT ![a].step = "end"]
    /\ UNCHANGED <<traceStart, end, itemType, sock, drain, adds, added, tried, refused, disturbed>>

AddEnd(a) ==
    /\ add[a].step = "end"
    /\ end' = (add[a].end + 1) % TraceItems
    /\ add' = [add EXCEPT ![a] = Calm]
    /\ disturbed' = (disturbed \/ end' = traceStart)
    /\ added' = Log(Append(added, add[a].msg), disturbed') /\ tried' = Log(tried, disturbed') /\ refused' = LogSet(refused, disturbed')
    /\ UNCHANGED <<traceStart, item, itemType, sock, drain, adds>>

----------------------------------------------------------------------------
(* PHY_TRACE_ITEM_CNT *)
ItemCnt(s, e) == (e + TraceItems - s) % TraceItems

(* _phyTraceCheckProcess: the copy of start, then the count from end. *)
DrainStart ==
    /\ drain.step = "sleep"
    /\ drain' = [drain EXCEPT !.step = "count", !.start = traceStart]
    /\ UNCHANGED <<traceStart, end, item, itemType, sock, add, adds, added, tried, refused, disturbed>>

DrainCount ==
    /\ drain.step = "count"
    /\ LET cnt == ItemCnt(drain.start, end)
       IN  drain' = [drain EXCEPT !.step = IF cnt = 0 THEN "sleep" ELSE "send", !.cnt = cnt, !.i = 0]
    /\ UNCHANGED <<traceStart, end, item, itemType, sock, add, adds, added, tried, refused, disturbed>>

(* phyTrace for one item of the batch: the sockets are made on first use,  *)
(* sendto takes the item or is short and the item is lost (socket() may    *)
(* have failed before), and the batch is walked on. When connect fails the *)
(* sockets are closed and tracing ends for good.                           *)
DrainSend ==
    /\ drain.step = "send" /\ drain.i < drain.cnt
    /\ LET it == item[(drain.start + drain.i) % TraceItems]
       IN  \/ /\ itemType /\ sock' = "open"
              /\ tried' = Log(Append(tried, it), disturbed) /\ refused' = LogSet(refused, disturbed)
              /\ UNCHANGED itemType
           \/ /\ itemType /\ sock' \in {sock, "open"}
              /\ tried' = Log(Append(tried, it), disturbed)
              /\ refused' = LogSet(refused \cup {Len(tried) + 1}, disturbed)
              /\ UNCHANGED itemType
           \/ /\ itemType /\ sock = "none"
              /\ sock' = "closed" /\ itemType' = FALSE
              /\ UNCHANGED <<tried, refused>>
           \/ /\ ~itemType /\ UNCHANGED <<itemType, sock, tried, refused>>
    /\ drain' = [drain EXCEPT !.i = @ + 1]
    /\ UNCHANGED <<traceStart, end, item, add, adds, added, disturbed>>

DrainDone_Catches ==
    /\ drain.step = "send" /\ drain.i = drain.cnt
    /\ traceStart' = end
    /\ drain' = [drain EXCEPT !.step = "sleep"]
    /\ UNCHANGED <<end, item, itemType, sock, add, adds, added, tried, refused, disturbed>>

DrainDone ==
    /\ drain.step = "send" /\ drain.i = drain.cnt
    /\ traceStart' = (drain.start + drain.cnt) % TraceItems
    /\ drain' = [drain EXCEPT !.step = "sleep"]
    /\ UNCHANGED <<end, item, itemType, sock, add, adds, added, tried, refused, disturbed>>

AddStep == \E a \in Adders : AddBegin(a) \/ AddData(a) \/ AddLen(a) \/ AddEnd(a)
DrainStep == DrainStart \/ DrainCount \/ DrainSend \/ DrainDone
TraceNext == AddStep \/ DrainStep

(* The threads are scheduled; a sendto returns.                            *)
TraceFair == WF_traceVars(DrainStep) /\ \A a \in Adders : WF_traceVars(AddEnd(a) \/ AddLen(a) \/ AddData(a))
TraceSpec == TraceInit /\ [][TraceNext]_traceVars /\ TraceFair

----------------------------------------------------------------------------
(* As long as no two adds overlapped and the ring was never filled, what   *)
(* goes out is what was added, whole, once and in order, without the items *)
(* whose own upload the socket refused: sendto is called for the items in  *)
(* the order of the adds and for none twice, although the trace thread     *)
(* reads the indices and the items between the steps of an add and gives a *)
(* batch back with the refused items in it (addPhyTraceItem,               *)
(* _phyTraceCheckProcess, phyTrace).                                       *)
TraceFaithful ==
    \/ disturbed \/ ~itemType
    \/ /\ Len(tried) <= Len(added)
       /\ \A n \in 1..Len(tried) : tried[n] = <<added[n], added[n]>>
       /\ refused \subseteq 1..Len(tried)

(* The trace thread catches up: once the adds come to an end (MaxAdds)     *)
(* every item added has been given to sendto, also when the indices have   *)
(* wrapped and when uploads were refused, unless tracing ended or the ring *)
(* was disturbed. Whether it went out is the socket's affair: a refused    *)
(* item is not tried again.                                                *)
TraceSent ==
    (Len(tried) < Len(added)) ~> (Len(tried) = Len(added) \/ disturbed \/ ~itemType)
===============================================================================
