------------------------------ MODULE MsgFifo ------------------------------
(***************************************************************************)
(* What a message ring promises its two users, whatever the layout of its  *)
(* buffer: messages come out in the order they were accepted, unchanged,   *)
(* one at a time; the oldest message is shown to the receiver's callback   *)
(* and leaves the queue only when the callback accepts it.  A message the  *)
(* sender could not place is dropped, which is a stuttering step here.     *)
(***************************************************************************)
EXTENDS Naturals, Sequences

CONSTANTS Msgs,     \* what a receiver can see of a message
          Rejects   \* the messages the receiver's callback refuses

VARIABLES queue,    \* accepted messages, oldest first
          handed    \* <<>>, or <<m>> while the callback looks at m

fifoVars == <<queue, handed>>

FifoInit == queue = <<>> /\ handed = <<>>

\* The sender's message is accepted.
Accept(m) ==
  /\ queue' = Append(queue, m)
  /\ UNCHANGED handed

\* The oldest message is shown to the callback.
HandOver ==
  /\ handed = <<>>
  /\ queue # <<>>
  /\ handed' = <<Head(queue)>>
  /\ UNCHANGED queue

\* The callback refuses it: it stays the oldest message.
Refuse ==
  /\ handed # <<>>
  /\ handed[1] \in Rejects
  /\ handed' = <<>>
  /\ UNCHANGED queue

\* The callback takes it.
Take ==
  /\ handed # <<>>
  /\ handed[1] \notin Rejects
  /\ handed' = <<>>
  /\ queue' = Tail(queue)

FifoNext ==
  \/ \E m \in Msgs : Accept(m)
  \/ HandOver
  \/ Refuse
  \/ Take

\* The receiver never stops polling.
FifoSpec ==
  /\ FifoInit
  /\ [][FifoNext]_fifoVars
  /\ WF_fifoVars(HandOver)
  /\ WF_fifoVars(Refuse \/ Take)
=============================================================================
