------------------------- MODULE QuickMsgRingProofs -------------------------
(***************************************************************************)
(* The ring is correct for every size, message length and content.  The     *)
(* argument is about distances: Dist(out, a) is how far a word is ahead of   *)
(* out.  Accepted messages lie at increasing distances, one where the other  *)
(* ends; the last one ends at in; the message being written lies between in  *)
(* and out.  The sender's sample of out can only be further back than out,   *)
(* so what it takes for free is free.                                        *)
(***************************************************************************)
EXTENDS QuickMsgRing, SequenceTheorems, TLAPS

\* How many words a is ahead of o.
Dist(o, a) == IF a >= o THEN a - o ELSE (a - o) + Size

\* Words a message takes up, the unused ones behind a placeholder included.
Span(m) ==
  IF m.hdr = m.at THEN m.cnt + RESERV_LEN ELSE (Size - m.at) + m.cnt + RESERV_LEN

\* Where the message after m starts.
After(m) == Wrap(m.hdr + m.cnt + RESERV_LEN)

\* A message lies where in was, in one piece, or at word 0 behind a placeholder.
WellPlaced(m) ==
  IF m.hdr = m.at
  THEN m.at + m.cnt + RESERV_LEN <= Size /\ m.cnt + RESERV_LEN < Size
  ELSE m.hdr = 0

\* The words of m hold m.
HeaderStored(b, m) ==
  /\ m.hdr # m.at => b[m.at] = Size
  /\ b[m.hdr] = m.cnt
Stored(b, m) ==
  /\ HeaderStored(b, m)
  /\ \A a \in m.hdr + RESERV_LEN .. m.hdr + m.cnt : b[a] = m.val

\* The message the sender is writing.
NewMsg == [at |-> in, hdr |-> hdr, cnt |-> WordCnt(msg.len), val |-> msg.val]

(***************************************************************************)
(* The inductive invariant.                                                *)
(***************************************************************************)

\* Each accepted message is stored between out and in ...
PendStored ==
  \A k \in DOMAIN pend :
    /\ WellPlaced(pend[k])
    /\ Stored(buf, pend[k])
    /\ Dist(out, pend[k].at) + Span(pend[k]) <= Dist(out, in)

\* ... they do not overlap ...
PendApart ==
  \A j, k \in DOMAIN pend :
    j < k => Dist(out, pend[j].at) + Span(pend[j]) <= Dist(out, pend[k].at)

\* ... and each starts where the one before it ends.
PendChained ==
  /\ \A k \in DOMAIN pend : pend[k].at = IF k = 1 THEN out ELSE After(pend[k - 1])
  /\ in = IF pend = <<>> THEN out ELSE After(pend[Len(pend)])

\* The sample of out is no further ahead than out.
SampleBehind ==
  ppc = "sampled" =>
    IF tmpOut = in THEN pend = <<>> ELSE Dist(out, in) <= Dist(tmpOut, in)

\* What is reserved is free, short of one word, and holds what was written.
Reserved ==
  ppc \in {"reserved", "copied"} =>
    /\ WellPlaced(NewMsg)
    /\ Dist(out, in) + Span(NewMsg) < Size
    /\ nextIn = After(NewMsg)
    /\ HeaderStored(buf, NewMsg)
    /\ ppc = "copied" => Stored(buf, NewMsg)

\* An empty ring is flagged so by the time the receiver polls again.
FlagSettles ==
  /\ cpc = "idle" /\ pend = <<>> => emptyFlag = 1
  /\ cpc = "compared" /\ pend = <<>> => isEmpty = 1

IInv ==
  /\ TypeOK
  /\ PendStored
  /\ PendApart
  /\ PendChained
  /\ SampleBehind
  /\ Reserved
  /\ FlagSettles
  /\ DeliversOldest

-----------------------------------------------------------------------------
(***************************************************************************)
(* Arithmetic.                                                             *)
(***************************************************************************)

\* Wrap (tmpIn % size in the code) yields an index, and changes none.
LEMMA WrapType == \A x \in Nat : Wrap(x) \in Index
  BY SizeAssumption DEF Wrap, Index

\* An index below size is not wrapped.
LEMMA WrapSmall == \A x \in Nat : x < Size => Wrap(x) = x
  BY SizeAssumption DEF Wrap

\* An index that lands exactly on size goes back to word 0.
LEMMA WrapSize == Wrap(Size) = 0
  BY SizeAssumption DEF Wrap

\* The length in words that GetBufBulk computes is a natural number.
LEMMA WordCntType == \A x \in Nat : WordCnt(x) \in Nat
  BY DEF WordCnt

\* Indices are the numbers below size, 0 among them.
LEMMA IndexFacts == 0 \in Index /\ \A a \in Index : a \in Nat /\ a < Size
  BY SizeAssumption DEF Index

\* Distances lie below Size, and only o itself is at distance 0.
LEMMA DistType ==
  \A o, a \in Index : Dist(o, a) \in Index /\ (Dist(o, a) = 0 <=> a = o)
  BY SizeAssumption DEF Index, Dist

\* Different words are at different distances.
LEMMA DistInjective ==
  \A o, a, b \in Index : Dist(o, a) = Dist(o, b) => a = b
  BY SizeAssumption DEF Index, Dist

\* Distances from a word further ahead.
LEMMA DistShift ==
  ASSUME NEW o \in Index, NEW p \in Index, NEW a \in Index, Dist(o, a) >= Dist(o, p)
  PROVE  Dist(p, a) = Dist(o, a) - Dist(o, p)
  BY SizeAssumption DEF Index, Dist

\* A message takes up at least a word.
LEMMA SpanType == \A m \in Messages : Span(m) \in Nat /\ Span(m) > 0
  BY SizeAssumption DEF Messages, Index, Span, RESERV_LEN

\* The words of a message are those from its first one to its end.
LEMMA CellsWithin ==
  ASSUME NEW o \in Index, NEW m \in Messages, WellPlaced(m),
         Dist(o, m.at) + Span(m) < Size
  PROVE  /\ m.hdr + m.cnt \in Index
         /\ \A a \in Index :
              a = m.at \/ a \in m.hdr .. m.hdr + m.cnt =>
                Dist(o, a) \in Dist(o, m.at) .. Dist(o, m.at) + Span(m) - 1
  <1>1. m.at \in Index /\ m.hdr \in Index /\ m.cnt \in Nat
    BY DEF Messages
  <1>2. CASE m.hdr = m.at
    BY <1>1, <1>2, SizeAssumption DEF Index, Dist, Span, WellPlaced, RESERV_LEN
  <1>3. CASE m.hdr # m.at
    BY <1>1, <1>3, SizeAssumption DEF Index, Dist, Span, WellPlaced, RESERV_LEN
  <1> QED
    BY <1>2, <1>3

\* The message after it starts at its end.
LEMMA AfterDist ==
  ASSUME NEW o \in Index, NEW m \in Messages, WellPlaced(m),
         Dist(o, m.at) + Span(m) < Size
  PROVE  After(m) \in Index /\ Dist(o, After(m)) = Dist(o, m.at) + Span(m)
  <1>1. m.at \in Index /\ m.hdr \in Index /\ m.cnt \in Nat
    BY DEF Messages
  <1> DEFINE e == m.hdr + m.cnt + 1
  <1>2. After(m) = Wrap(e) /\ e \in Nat
    BY <1>1, IndexFacts DEF After, RESERV_LEN
  <1>3. After(m) \in Index
    BY <1>2, WrapType
  <1>4. CASE e < Size
    <2>1. After(m) = e
      BY <1>2, <1>4, WrapSmall
    <2> QED
      BY <1>1, <1>3, <1>4, <2>1, SizeAssumption
      DEF Index, Dist, Span, WellPlaced, RESERV_LEN
  <1>5. CASE e >= Size
    <2>1. e = Size
      <3>1. m.hdr + m.cnt < Size
        BY CellsWithin, IndexFacts
      <3> QED
        BY <1>1, <1>5, <3>1, SizeAssumption DEF Index
    <2>2. After(m) = 0
      BY <1>2, <2>1, WrapSize
    <2> QED
      BY <1>1, <1>3, <2>1, <2>2, SizeAssumption
      DEF Index, Dist, Span, WellPlaced, RESERV_LEN
  <1> QED
    BY <1>1, <1>2, <1>4, <1>5, SizeAssumption DEF Index

\* What the sender finds room for is free, short of one word, in the ring as it
\* is, although it looked at an older out.
LEMMA FitsHereFree ==
  ASSUME NEW i \in Index, NEW o \in Index, NEW t \in Index, NEW f \in {0, 1}, NEW n \in Nat,
         IF t = i THEN o = i ELSE Dist(o, i) <= Dist(t, i),
         FitsHere(i, t, f, n)
  PROVE  /\ i + n + RESERV_LEN <= Size
         /\ Dist(o, i) + n + RESERV_LEN < Size
  BY SizeAssumption DEF Index, Dist, FitsHere, EnoughSpace, Unused, RESERV_LEN

\* The same for a reservation that starts again at word 0: the rest of the buffer and
\* the words it takes at the front are free.
LEMMA FitsRewoundFree ==
  ASSUME NEW i \in Index, NEW o \in Index, NEW t \in Index, NEW f \in {0, 1}, NEW n \in Nat,
         IF t = i THEN o = i ELSE Dist(o, i) <= Dist(t, i),
         FitsRewound(i, t, f, n)
  PROVE  /\ i # 0
         /\ n + RESERV_LEN < i
         /\ Dist(o, i) + (Size - i) + n + RESERV_LEN < Size
  BY SizeAssumption DEF Index, Dist, FitsRewound, EnoughSpace, Unused, RESERV_LEN

\* Writing one message leaves another one alone when they are apart.
LEMMA WriteApart ==
  ASSUME NEW o \in Index, NEW m \in Messages, NEW n \in Messages,
         WellPlaced(m), WellPlaced(n),
         Dist(o, m.at) + Span(m) <= Dist(o, n.at),
         Dist(o, n.at) + Span(n) < Size,
         NEW b \in [Index -> Nat], NEW c \in [Index -> Nat],
         \A a \in Index : a # n.at /\ a \notin n.hdr .. n.hdr + n.cnt => c[a] = b[a],
         Stored(b, m)
  PROVE  Stored(c, m)
  <1>1. m.at \in Index /\ m.hdr \in Index /\ m.cnt \in Nat /\ n.at \in Index
    BY DEF Messages
  <1>2. /\ Dist(o, m.at) \in Nat /\ Dist(o, n.at) \in Nat
        /\ Span(m) \in Nat /\ Span(n) \in Nat
        /\ Dist(o, m.at) + Span(m) < Size
    <2>1. Dist(o, m.at) \in Nat /\ Dist(o, n.at) \in Nat /\ Dist(o, n.at) < Size
      BY <1>1, DistType, IndexFacts
    <2>2. Span(m) \in Nat /\ Span(n) \in Nat
      BY SpanType
    <2> QED
      BY <2>1, <2>2, SizeAssumption
  <1>3. m.hdr + m.cnt \in Index
    BY <1>2, CellsWithin
  <1>4. ASSUME NEW a \in Index, a = m.at \/ a \in m.hdr .. m.hdr + m.cnt
        PROVE  c[a] = b[a]
    <2>1. Dist(o, a) < Dist(o, n.at)
      <3>1. Dist(o, a) \in Dist(o, m.at) .. Dist(o, m.at) + Span(m) - 1
        BY <1>2, <1>4, CellsWithin
      <3> QED
        BY <1>2, <3>1
    <2>2. ~(a = n.at \/ a \in n.hdr .. n.hdr + n.cnt)
      <3>1. \A d \in Index :
              d = n.at \/ d \in n.hdr .. n.hdr + n.cnt =>
                Dist(o, d) \in Dist(o, n.at) .. Dist(o, n.at) + Span(n) - 1
        BY CellsWithin
      <3>2. Dist(o, a) \in Nat
        BY DistType, IndexFacts
      <3> QED
        BY <1>2, <2>1, <3>1, <3>2
    <2> QED
      BY <2>2
  <1>5. \A a \in m.hdr .. m.hdr + m.cnt : a \in Index
    BY <1>1, <1>3, SizeAssumption, SMTT(60) DEF Index
  <1> QED
    BY <1>1, <1>4, <1>5, SMTT(60) DEF Stored, HeaderStored, RESERV_LEN, Index

-----------------------------------------------------------------------------
(***************************************************************************)
(* Type correctness.                                                       *)
(***************************************************************************)

\* Every value the ring's fields take is in range, whichever step is taken.
LEMMA TypeInit == Init => TypeOK
  BY IndexFacts, SizeAssumption, EmptySeq DEF Init, TypeOK

\* The same after any step of either thread.
LEMMA TypeStep == TypeOK /\ [Next]_vars => TypeOK'
  <1> SUFFICES ASSUME TypeOK, [Next]_vars PROVE TypeOK'
    OBVIOUS
  <1> USE DEF TypeOK
  <1>1. WordCnt(msg.len) \in Nat
    BY WordCntType
  <1>2. \A h, n, v \in Nat : Filled(buf, h, n, v) \in [Index -> Nat]
    BY DEF Filled
  <1>3. 1 \in Nat /\ 0 \in Index /\ Size \in Nat /\ RESERV_LEN = 1
    BY IndexFacts, SizeAssumption DEF RESERV_LEN
  <1>4. CASE GetBufSample
    BY <1>4, LensAssumption, PayloadAssumption DEF GetBufSample, consVars
  <1>5. CASE GetBufHere
    <2>1. in + WordCnt(msg.len) + RESERV_LEN \in Nat
      BY <1>1, <1>3, SizeAssumption, SMTT(60) DEF Index
    <2>2. nextIn' \in Index
      BY <1>5, <2>1, WrapType DEF GetBufHere
    <2>3. buf' \in [Index -> Nat]
      BY <1>1, <1>2, <1>3, <1>5, IndexFacts DEF GetBufHere
    <2> QED
      BY <1>5, <2>2, <2>3 DEF GetBufHere, consVars
  <1>6. CASE GetBufRewind
    <2>1. RESERV_LEN + WordCnt(msg.len) \in Nat
      BY <1>1, <1>3
    <2>2. nextIn' \in Index
      BY <1>6, <2>1, WrapType DEF GetBufRewind
    <2>3. buf' \in [Index -> Nat]
      BY <1>1, <1>2, <1>3, <1>6, IndexFacts DEF GetBufRewind
    <2> QED
      BY <1>3, <1>6, <2>2, <2>3 DEF GetBufRewind, consVars
  <1>7. CASE GetBufFail
    BY <1>7 DEF GetBufFail, consVars
  <1>8. CASE CopyMsg
    <2>1. buf' \in [Index -> Nat]
      BY <1>1, <1>2, <1>8, IndexFacts DEF CopyMsg
    <2> QED
      BY <1>8, <2>1 DEF CopyMsg, consVars
  <1>9. CASE PackFail
    BY <1>9 DEF PackFail, consVars
  <1>10. CASE PublishIn
    <2>1. [at |-> in, hdr |-> hdr, cnt |-> WordCnt(msg.len), val |-> msg.val] \in Messages
      BY <1>1 DEF Messages
    <2>2. pend' \in Seq(Messages)
      BY <1>10, <2>1, AppendProperties DEF PublishIn
    <2> QED
      BY <1>10, <2>2 DEF PublishIn, consVars
  <1>11. CASE BeginRecvEmpty
    BY <1>11 DEF BeginRecvEmpty, prodVars
  <1>12. CASE BeginRecvMsg
    <2>1. HeadHdr \in Index
      BY <1>3 DEF HeadHdr
    <2>2. HeadHdr + buf[HeadHdr] + RESERV_LEN \in Nat
      BY <1>3, <2>1, SizeAssumption DEF Index
    <2>3. nextOut' \in Index
      BY <1>12, <2>2, WrapType DEF BeginRecvMsg
    <2> QED
      BY <1>12, <2>1, <2>3 DEF BeginRecvMsg, prodVars
  <1>13. CASE UnpackRead
    <2>1. Body(buf, cur.hdr, cur.cnt) \in SUBSET Nat
      BY DEF Body
    <2>2. handed' \in Seq([cnt : Nat, words : SUBSET Nat])
      BY <1>13, <2>1 DEF UnpackRead
    <2> QED
      BY <1>13, <2>2 DEF UnpackRead, prodVars
  <1>14. CASE UnpackRefuse
    BY <1>14, EmptySeq DEF UnpackRefuse, prodVars
  <1>15. CASE CompleteOut
    <2>1. pend' \in Seq(Messages)
      BY <1>15, HeadTailProperties DEF CompleteOut
    <2> QED
      BY <1>15, <2>1, EmptySeq DEF CompleteOut, prodVars
  <1>16. CASE CompleteCompare
    BY <1>16 DEF CompleteCompare, prodVars
  <1>17. CASE CompleteFlag
    BY <1>17 DEF CompleteFlag, prodVars
  <1>18. CASE UNCHANGED vars
    BY <1>18 DEF vars, prodVars, consVars
  <1> QED
    BY <1>4, <1>5, <1>6, <1>7, <1>8, <1>9, <1>10, <1>11, <1>12, <1>13, <1>14,
       <1>15, <1>16, <1>17, <1>18 DEF Next, Producer, Consumer

\* in, out, nextIn, nextOut, the flag and the words of the ring stay in range for ever.
THEOREM TypeCorrect == Spec => []TypeOK
  BY TypeInit, TypeStep, PTL DEF Spec

-----------------------------------------------------------------------------
(***************************************************************************)
(* The inductive invariant: initial states, and what it says of a state.   *)
(***************************************************************************)

\* init_quickMsgRing establishes the inductive invariant.
LEMMA InvInit == Init => IInv
  <1> SUFFICES ASSUME Init PROVE IInv
    OBVIOUS
  <1>1. TypeOK
    BY TypeInit
  <1>2. pend = <<>> /\ DOMAIN pend = {}
    BY DEF Init
  <1> QED
    BY <1>1, <1>2 DEF Init, IInv, PendStored, PendApart, PendChained, SampleBehind, Reserved,
      FlagSettles, DeliversOldest

\* The accepted messages are messages, numbered from 1.
LEMMA PendTypes ==
  ASSUME TypeOK
  PROVE  /\ pend \in Seq(Messages)
         /\ Len(pend) \in Nat
         /\ DOMAIN pend = 1 .. Len(pend)
         /\ \A k \in DOMAIN pend : pend[k] \in Messages /\ pend[k].at \in Index
         /\ pend # <<>> => 1 \in DOMAIN pend /\ Len(pend) \in DOMAIN pend /\ Len(pend) > 0
  <1>1. pend \in Seq(Messages)
    BY DEF TypeOK
  <1>2. Len(pend) \in Nat /\ DOMAIN pend = 1 .. Len(pend)
    BY <1>1
  <1>3. \A k \in DOMAIN pend : pend[k] \in Messages /\ pend[k].at \in Index
    <2> SUFFICES ASSUME NEW k \in DOMAIN pend
                 PROVE  pend[k] \in Messages /\ pend[k].at \in Index
      OBVIOUS
    <2>1. pend[k] \in Messages
      BY <1>1, <1>2, ElementOfSeq
    <2> QED
      BY <2>1 DEF Messages
  <1>4. pend # <<>> => Len(pend) > 0
    BY <1>1, EmptySeq
  <1> QED
    BY <1>1, <1>2, <1>3, <1>4

\* in and out coincide exactly in an empty ring.
LEMMA InvNeverFull == IInv => RingNeverFull
  <1> SUFFICES ASSUME IInv PROVE RingNeverFull
    OBVIOUS
  <1>1. TypeOK /\ in \in Index /\ out \in Index
    BY DEF IInv, TypeOK
  <1>2. CASE pend = <<>>
    BY <1>2 DEF IInv, PendChained, RingNeverFull
  <1>3. CASE pend # <<>>
    <2>1. 1 \in DOMAIN pend /\ pend[1] \in Messages /\ pend[1].at \in Index
      BY <1>1, <1>3, PendTypes
    <2>2. Dist(out, pend[1].at) + Span(pend[1]) <= Dist(out, in)
      BY <2>1 DEF IInv, PendStored
    <2>3. Dist(out, pend[1].at) \in Nat /\ Span(pend[1]) \in Nat /\ Span(pend[1]) > 0
      BY <1>1, <2>1, DistType, SpanType, IndexFacts
    <2>4. Dist(out, in) # 0
      BY <1>1, <2>2, <2>3, DistType, IndexFacts
    <2>5. in # out
      BY <1>1, <2>4, DistType
    <2> QED
      BY <1>3, <2>5 DEF RingNeverFull
  <1> QED
    BY <1>2, <1>3

\* A poll reports "empty" exactly when the ring is.
LEMMA InvEmptyTest == IInv => EmptyTestExact
  BY InvNeverFull DEF IInv, FlagSettles, EmptyTestExact, LooksEmpty, RingNeverFull

\* Accepted messages are intact.
LEMMA InvUnread == IInv => UnreadIntact
  <1> SUFFICES ASSUME IInv, NEW k \in DOMAIN pend
               PROVE  LET m == pend[k] IN
                      /\ IF m.hdr = m.at THEN m.cnt # Size ELSE m.hdr = 0 /\ buf[m.at] = Size
                      /\ buf[m.hdr] = m.cnt
                      /\ Body(buf, m.hdr, m.cnt) \subseteq {m.val}
    BY DEF UnreadIntact
  <1>1. TypeOK /\ WellPlaced(pend[k]) /\ Stored(buf, pend[k])
    BY DEF IInv, PendStored
  <1>2. pend[k].cnt \in Nat
    BY <1>1, PendTypes DEF Messages
  <1> QED
    BY <1>1, <1>2, SizeAssumption DEF WellPlaced, Stored, HeaderStored, Body, RESERV_LEN

\* An empty ring takes messages of up to about half its size.
LEMMA InvAccepts == IInv => EmptyRingAccepts
  <1> SUFFICES ASSUME IInv, pend = <<>>, emptyFlag = 1, NEW l \in MsgLens,
                      2 * WordCnt(l) + 3 * RESERV_LEN <= Size
               PROVE  Fits(in, out, emptyFlag, WordCnt(l))
    BY DEF EmptyRingAccepts
  <1>1. in = out /\ in \in Index
    BY DEF IInv, PendChained, TypeOK
  <1>2. WordCnt(l) \in Nat
    BY WordCntType, LensAssumption
  <1> QED
    BY <1>1, <1>2, SizeAssumption
    DEF Index, Fits, FitsHere, FitsRewound, EnoughSpace, Unused, RESERV_LEN

-----------------------------------------------------------------------------
(***************************************************************************)
(* The inductive step, one lemma per kind of step.                         *)
(***************************************************************************)

\* What is accepted stays so while the ring itself is not touched.
LEMMA PendKept ==
  ASSUME PendStored, PendApart, PendChained, UNCHANGED <<buf, in, out, pend>>
  PROVE  PendStored' /\ PendApart' /\ PendChained'
  BY DEF PendStored, PendApart, PendChained

\* The receiver's side stays as it is while only the sender acts on the buffer.
LEMMA ConsumerKept ==
  ASSUME DeliversOldest, FlagSettles, UNCHANGED <<consVars, emptyFlag, pend>>
  PROVE  DeliversOldest' /\ FlagSettles'
  BY DEF DeliversOldest, FlagSettles, consVars

\* GetBufBulk's sample of out is exact when taken.
LEMMA SampleStep ==
  ASSUME IInv, GetBufSample, TypeOK'
  PROVE  IInv'
  <1>1. UNCHANGED <<buf, in, out, pend, consVars, emptyFlag>>
    BY DEF GetBufSample
  <1>2. PendStored' /\ PendApart' /\ PendChained'
    BY <1>1, PendKept DEF IInv
  <1>3. DeliversOldest' /\ FlagSettles'
    BY <1>1, ConsumerKept DEF IInv
  <1>4. Dist(out, in) \in Nat
    BY DistType, IndexFacts DEF IInv, TypeOK
  <1>5. SampleBehind'
    BY <1>1, <1>4, InvNeverFull DEF GetBufSample, SampleBehind, RingNeverFull
  <1>6. Reserved'
    BY DEF GetBufSample, Reserved
  <1> QED
    BY <1>2, <1>3, <1>5, <1>6 DEF IInv

\* The sender gives up, because nothing fits or because the pack function fails.
LEMMA GiveUpStep ==
  ASSUME IInv, GetBufFail \/ PackFail, TypeOK'
  PROVE  IInv'
  <1>1. UNCHANGED <<buf, in, out, pend, consVars, emptyFlag>> /\ ppc' = "idle"
    BY DEF GetBufFail, PackFail
  <1>2. PendStored' /\ PendApart' /\ PendChained'
    BY <1>1, PendKept DEF IInv
  <1>3. DeliversOldest' /\ FlagSettles'
    BY <1>1, ConsumerKept DEF IInv
  <1>4. SampleBehind' /\ Reserved'
    BY <1>1 DEF SampleBehind, Reserved
  <1> QED
    BY <1>2, <1>3, <1>4 DEF IInv

\* Writing a message into free words leaves the accepted ones intact.
LEMMA PendAfterWrite ==
  ASSUME IInv, TypeOK', UNCHANGED <<in, out, pend>>,
         NEW n \in Messages, n.at = in, WellPlaced(n), Dist(out, in) + Span(n) < Size,
         \A a \in Index : a # n.at /\ a \notin n.hdr .. n.hdr + n.cnt => buf'[a] = buf[a]
  PROVE  PendStored' /\ PendApart' /\ PendChained'
  <1>1. TypeOK /\ out \in Index /\ buf \in [Index -> Nat] /\ buf' \in [Index -> Nat]
    BY DEF IInv, TypeOK
  <1>2. PendApart' /\ PendChained'
    BY DEF IInv, PendApart, PendChained
  <1>3. ASSUME NEW k \in DOMAIN pend
        PROVE  Stored(buf', pend[k])
    <2>1. pend[k] \in Messages
      BY <1>1, PendTypes
    <2>2. WellPlaced(pend[k]) /\ Stored(buf, pend[k])
          /\ Dist(out, pend[k].at) + Span(pend[k]) <= Dist(out, n.at)
      BY DEF IInv, PendStored
    <2> QED
      BY <1>1, <2>1, <2>2, WriteApart
  <1>4. PendStored'
    BY <1>3 DEF IInv, PendStored
  <1> QED
    BY <1>2, <1>4

\* The message being written is one, wherever its header is put.
LEMMA NewMsgTypes ==
  ASSUME TypeOK
  PROVE  /\ NewMsg \in Messages
         /\ NewMsg.at = in /\ NewMsg.hdr = hdr
         /\ NewMsg.cnt = WordCnt(msg.len) /\ NewMsg.cnt \in Nat /\ NewMsg.val = msg.val
  BY WordCntType DEF TypeOK, NewMsg, Messages

\* The sample the sender decides on bounds the ring as it is.
LEMMA SampleUsed ==
  ASSUME IInv, ppc = "sampled"
  PROVE  IF tmpOut = in THEN out = in ELSE Dist(out, in) <= Dist(tmpOut, in)
  BY InvNeverFull DEF IInv, SampleBehind, RingNeverFull

\* GetBufBulk reserves words at in.
LEMMA HereStep ==
  ASSUME IInv, GetBufHere, TypeOK'
  PROVE  IInv'
  <1> DEFINE cnt == WordCnt(msg.len)
  <1>1. /\ TypeOK /\ in \in Index /\ out \in Index /\ tmpOut \in Index
        /\ emptyFlag \in {0, 1} /\ buf \in [Index -> Nat]
    BY DEF IInv, TypeOK
  <1>2. /\ UNCHANGED <<in, out, pend, consVars, emptyFlag, msg>>
        /\ ppc = "sampled" /\ ppc' = "reserved" /\ hdr' = in
    BY DEF GetBufHere
  <1>3. cnt \in Nat
    BY <1>1, WordCntType DEF TypeOK
  <1>4. in + cnt + RESERV_LEN <= Size /\ Dist(out, in) + cnt + RESERV_LEN < Size
    BY <1>1, <1>2, <1>3, SampleUsed, FitsHereFree DEF GetBufHere
  <1>5. /\ NewMsg' \in Messages /\ (NewMsg').at = in /\ (NewMsg').hdr = in
        /\ (NewMsg').cnt = cnt /\ (NewMsg').val = msg.val
    BY <1>1, <1>2, <1>3 DEF NewMsg, Messages, TypeOK
  <1>6. Span(NewMsg') = cnt + RESERV_LEN
    BY <1>5 DEF Span
  <1>7. Dist(out, in) \in Nat
    BY <1>1, DistType, IndexFacts
  <1>8. Dist(out, in) + Span(NewMsg') < Size
    BY <1>3, <1>4, <1>6, <1>7 DEF RESERV_LEN
  <1>9. WellPlaced(NewMsg')
    BY <1>3, <1>4, <1>5, <1>7, SizeAssumption DEF WellPlaced, RESERV_LEN
  <1>10. \A a \in Index : a # in /\ a \notin in .. in + cnt => buf'[a] = buf[a]
    BY <1>1, <1>3, SizeAssumption DEF GetBufHere, Filled, RESERV_LEN, Index
  <1>11. PendStored' /\ PendApart' /\ PendChained'
    BY <1>2, <1>5, <1>8, <1>9, <1>10, PendAfterWrite
  <1>12. DeliversOldest' /\ FlagSettles'
    BY <1>2, ConsumerKept DEF IInv
  <1>13. SampleBehind'
    BY <1>2 DEF SampleBehind
  <1>14. nextIn' = After(NewMsg')
    BY <1>5 DEF GetBufHere, After
  <1>15. HeaderStored(buf', NewMsg')
    BY <1>1, <1>5 DEF GetBufHere, HeaderStored, Filled
  <1>16. Reserved'
    BY <1>2, <1>8, <1>9, <1>14, <1>15 DEF Reserved
  <1> QED
    BY <1>11, <1>12, <1>13, <1>16 DEF IInv

\* GetBufBulk writes a placeholder and reserves words at 0.
LEMMA RewindStep ==
  ASSUME IInv, GetBufRewind, TypeOK'
  PROVE  IInv'
  <1> DEFINE cnt == WordCnt(msg.len)
  <1>1. /\ TypeOK /\ in \in Index /\ out \in Index /\ tmpOut \in Index
        /\ emptyFlag \in {0, 1} /\ buf \in [Index -> Nat]
    BY DEF IInv, TypeOK
  <1>2. /\ UNCHANGED <<in, out, pend, consVars, emptyFlag, msg>>
        /\ ppc = "sampled" /\ ppc' = "reserved" /\ hdr' = 0
    BY DEF GetBufRewind
  <1>3. cnt \in Nat
    BY <1>1, WordCntType DEF TypeOK
  <1>4. /\ in # 0 /\ cnt + RESERV_LEN < in
        /\ Dist(out, in) + (Size - in) + cnt + RESERV_LEN < Size
    BY <1>1, <1>2, <1>3, SampleUsed, FitsRewoundFree DEF GetBufRewind
  <1>5. /\ NewMsg' \in Messages /\ (NewMsg').at = in /\ (NewMsg').hdr = 0
        /\ (NewMsg').cnt = cnt /\ (NewMsg').val = msg.val
    BY <1>1, <1>2, <1>3, IndexFacts DEF NewMsg, Messages, TypeOK
  <1>6. Span(NewMsg') = (Size - in) + cnt + RESERV_LEN
    BY <1>4, <1>5 DEF Span
  <1>7. Dist(out, in) \in Nat /\ in \in Nat
    BY <1>1, DistType, IndexFacts
  <1>8. Dist(out, in) + Span(NewMsg') < Size
    BY <1>3, <1>4, <1>6, <1>7, SizeAssumption DEF RESERV_LEN
  <1>9. WellPlaced(NewMsg')
    BY <1>4, <1>5 DEF WellPlaced
  <1>10. \A a \in Index : a # in /\ a \notin 0 .. 0 + cnt => buf'[a] = buf[a]
    <2> SUFFICES ASSUME NEW a \in Index, a # in, a \notin 0 .. 0 + cnt
                 PROVE  buf'[a] = buf[a]
      OBVIOUS
    <2>1. a # 0 /\ a \notin 0 + RESERV_LEN .. 0 + cnt
      BY <1>3 DEF RESERV_LEN
    <2>2. buf' = [Filled(buf, 0, cnt, 0) EXCEPT ![in] = Size, ![0] = cnt]
      BY DEF GetBufRewind
    <2>3. Filled(buf, 0, cnt, 0)[a] = buf[a]
      BY <2>1 DEF Filled
    <2> QED
      BY <2>1, <2>2, <2>3 DEF Filled
  <1>11. PendStored' /\ PendApart' /\ PendChained'
    BY <1>2, <1>5, <1>8, <1>9, <1>10, PendAfterWrite
  <1>12. DeliversOldest' /\ FlagSettles'
    BY <1>2, ConsumerKept DEF IInv
  <1>13. SampleBehind'
    BY <1>2 DEF SampleBehind
  <1>14. nextIn' = After(NewMsg')
    <2>1. RESERV_LEN + cnt = 0 + cnt + RESERV_LEN
      BY <1>3 DEF RESERV_LEN
    <2> QED
      BY <1>5, <2>1 DEF GetBufRewind, After
  <1>15. HeaderStored(buf', NewMsg')
    BY <1>1, <1>4, <1>5, IndexFacts DEF GetBufRewind, HeaderStored, Filled
  <1>16. Reserved'
    BY <1>2, <1>8, <1>9, <1>14, <1>15 DEF Reserved
  <1> QED
    BY <1>11, <1>12, <1>13, <1>16 DEF IInv

\* The body of the message is written.
LEMMA CopyStep ==
  ASSUME IInv, CopyMsg, TypeOK'
  PROVE  IInv'
  <1> DEFINE cnt == WordCnt(msg.len)
  <1>1. TypeOK /\ in \in Index /\ out \in Index /\ hdr \in Index /\ buf \in [Index -> Nat]
    BY DEF IInv, TypeOK
  <1>2. /\ UNCHANGED <<in, out, pend, consVars, emptyFlag, msg, hdr, nextIn>>
        /\ ppc = "reserved" /\ ppc' = "copied"
    BY DEF CopyMsg
  <1>3. NewMsg' = NewMsg
    BY <1>2 DEF NewMsg
  <1>4. /\ WellPlaced(NewMsg) /\ Dist(out, in) + Span(NewMsg) < Size
        /\ nextIn = After(NewMsg) /\ HeaderStored(buf, NewMsg)
    BY <1>2 DEF IInv, Reserved
  <1>5. \A a \in Index : a # in /\ a \notin hdr .. hdr + cnt => buf'[a] = buf[a]
    BY <1>1, NewMsgTypes, SizeAssumption DEF CopyMsg, Filled, RESERV_LEN, Index
  <1>6. PendStored' /\ PendApart' /\ PendChained'
    BY <1>1, <1>2, <1>4, <1>5, NewMsgTypes, PendAfterWrite
  <1>7. DeliversOldest' /\ FlagSettles'
    BY <1>2, ConsumerKept DEF IInv
  <1>8. SampleBehind'
    BY <1>2 DEF SampleBehind
  <1>9. Dist(out, NewMsg.at) + Span(NewMsg) < Size
    BY <1>1, <1>4, NewMsgTypes
  <1>10. hdr + cnt \in Index
    BY <1>1, <1>4, <1>9, CellsWithin, NewMsgTypes
  <1>11. in \notin hdr + RESERV_LEN .. hdr + cnt
    <2>1. Dist(out, in) \in Nat /\ in \in Nat /\ cnt \in Nat
      BY <1>1, DistType, IndexFacts, NewMsgTypes
    <2>2. CASE hdr = in
      BY <2>1, <2>2 DEF RESERV_LEN
    <2>3. CASE hdr # in
      <3>1. hdr = 0 /\ Span(NewMsg) = (Size - in) + cnt + 1
        BY <1>1, <1>4, <2>3, NewMsgTypes DEF WellPlaced, Span, RESERV_LEN
      <3> QED
        BY <1>4, <2>1, <3>1, SizeAssumption
    <2> QED
      BY <2>2, <2>3
  <1>12. Stored(buf', NewMsg)
    <2>1. buf'[in] = buf[in] /\ buf'[hdr] = buf[hdr]
      BY <1>1, <1>11, NewMsgTypes, SizeAssumption DEF CopyMsg, Filled, RESERV_LEN, Index
    <2>2. \A a \in hdr + RESERV_LEN .. hdr + cnt : buf'[a] = msg.val
      BY <1>1, <1>10, NewMsgTypes, SizeAssumption DEF CopyMsg, Filled, RESERV_LEN, Index
    <2> QED
      BY <1>1, <1>4, <2>1, <2>2, NewMsgTypes DEF Stored, HeaderStored
  <1>13. Reserved'
    BY <1>2, <1>3, <1>4, <1>12 DEF Reserved, Stored
  <1> QED
    BY <1>6, <1>7, <1>8, <1>13 DEF IInv

\* in = nextIn: the message written becomes the last accepted one.
LEMMA PublishStep ==
  ASSUME IInv, PublishIn, TypeOK'
  PROVE  IInv'
  <1> DEFINE n == Len(pend)
  <1>1. TypeOK /\ in \in Index /\ out \in Index
    BY DEF IInv, TypeOK
  <1>2. /\ UNCHANGED <<buf, out, consVars, emptyFlag>>
        /\ ppc = "copied" /\ ppc' = "idle" /\ in' = nextIn /\ pend' = Append(pend, NewMsg)
    BY DEF PublishIn, NewMsg
  <1>3. /\ WellPlaced(NewMsg) /\ Dist(out, in) + Span(NewMsg) < Size
        /\ nextIn = After(NewMsg) /\ Stored(buf, NewMsg)
    BY <1>2 DEF IInv, Reserved
  <1>4. NewMsg \in Messages /\ NewMsg.at = in
    BY <1>1, NewMsgTypes
  <1>5. Dist(out, in') = Dist(out, in) + Span(NewMsg)
    BY <1>1, <1>2, <1>3, <1>4, AfterDist
  <1>6. /\ n \in Nat /\ DOMAIN pend = 1 .. n
        /\ \A k \in DOMAIN pend : pend[k] \in Messages /\ pend[k].at \in Index
        /\ pend # <<>> => n > 0
    BY <1>1, PendTypes
  <1>7. /\ pend' # <<>> /\ DOMAIN pend' = 1 .. n + 1 /\ Len(pend') = n + 1
        /\ \A k \in DOMAIN pend : pend'[k] = pend[k]
        /\ pend'[n + 1] = NewMsg
    <2>1. pend \in Seq(Messages)
      BY <1>1, PendTypes
    <2> QED
      BY <1>2, <1>4, <1>6, <2>1, AppendProperties
  <1>8. /\ Dist(out, in) \in Nat /\ Span(NewMsg) \in Nat
        /\ \A k \in DOMAIN pend : Dist(out, pend[k].at) \in Nat /\ Span(pend[k]) \in Nat
    BY <1>1, <1>4, <1>6, DistType, SpanType, IndexFacts
  <1>9. \A k \in DOMAIN pend' : k = n + 1 \/ k \in DOMAIN pend
    BY <1>6, <1>7
  <1>10. PendStored'
    <2> SUFFICES ASSUME NEW k \in DOMAIN pend'
                 PROVE  /\ WellPlaced(pend'[k]) /\ Stored(buf, pend'[k])
                        /\ Dist(out, pend'[k].at) + Span(pend'[k]) <= Dist(out, in')
      BY <1>2 DEF PendStored
    <2>1. CASE k = n + 1
      BY <1>3, <1>4, <1>5, <1>7, <1>8, <2>1
    <2>2. CASE k \in DOMAIN pend
      <3>1. /\ WellPlaced(pend[k]) /\ Stored(buf, pend[k])
            /\ Dist(out, pend[k].at) + Span(pend[k]) <= Dist(out, in)
        BY <2>2 DEF IInv, PendStored
      <3> QED
        BY <1>5, <1>7, <1>8, <2>2, <3>1
    <2> QED
      BY <1>9, <2>1, <2>2
  <1>11. PendApart'
    <2> SUFFICES ASSUME NEW j \in DOMAIN pend', NEW k \in DOMAIN pend', j < k
                 PROVE  Dist(out, pend'[j].at) + Span(pend'[j]) <= Dist(out, pend'[k].at)
      BY <1>2 DEF PendApart
    <2>1. j \in DOMAIN pend
      BY <1>6, <1>7
    <2>2. CASE k = n + 1
      BY <1>4, <1>7, <2>1, <2>2 DEF IInv, PendStored
    <2>3. CASE k \in DOMAIN pend
      BY <1>7, <2>1, <2>3 DEF IInv, PendApart
    <2> QED
      BY <1>9, <2>2, <2>3
  <1>12. PendChained'
    <2>1. in' = After(pend'[Len(pend')])
      BY <1>2, <1>3, <1>7
    <2>2. ASSUME NEW k \in DOMAIN pend'
          PROVE  pend'[k].at = IF k = 1 THEN out ELSE After(pend'[k - 1])
      <3>1. CASE k \in DOMAIN pend
        <4>1. pend[k].at = IF k = 1 THEN out ELSE After(pend[k - 1])
          BY <3>1 DEF IInv, PendChained
        <4>2. k # 1 => k - 1 \in DOMAIN pend
          BY <1>6, <3>1
        <4> QED
          BY <1>7, <3>1, <4>1, <4>2
      <3>2. CASE k = n + 1
        <4>1. in = IF pend = <<>> THEN out ELSE After(pend[n])
          BY DEF IInv, PendChained
        <4>2. CASE pend = <<>>
          BY <1>4, <1>7, <3>2, <4>1, <4>2
        <4>3. CASE pend # <<>>
          <5>1. k # 1 /\ k - 1 = n /\ n \in DOMAIN pend
            BY <1>6, <3>2, <4>3
          <5> QED
            BY <1>4, <1>7, <3>2, <4>1, <4>3, <5>1
        <4> QED
          BY <4>2, <4>3
      <3> QED
        BY <1>9, <3>1, <3>2
    <2> QED
      BY <1>2, <1>7, <2>1, <2>2 DEF PendChained
  <1>13. DeliversOldest'
    <2>1. pend # <<>> => pend'[1] = pend[1]
      BY <1>1, <1>7, PendTypes
    <2> QED
      BY <1>2, <1>7, <2>1 DEF IInv, DeliversOldest, consVars
  <1>14. FlagSettles' /\ SampleBehind' /\ Reserved'
    BY <1>2, <1>7 DEF FlagSettles, SampleBehind, Reserved
  <1> QED
    BY <1>10, <1>11, <1>12, <1>13, <1>14 DEF IInv

\* The sender's side stays as it is while the receiver does not move out.
LEMMA ProducerKept ==
  ASSUME SampleBehind, Reserved, UNCHANGED <<prodVars, buf, in, out, pend>>
  PROVE  SampleBehind' /\ Reserved'
  BY DEF SampleBehind, Reserved, prodVars, NewMsg

\* The header BeginRecvMsgBulk reads is that of the oldest message.
LEMMA HeadIsOldest ==
  ASSUME IInv, pend # <<>>
  PROVE  HeadHdr = pend[1].hdr /\ buf[HeadHdr] = pend[1].cnt
  <1>1. /\ 1 \in DOMAIN pend /\ pend[1] \in Messages
        /\ pend[1].at = out /\ WellPlaced(pend[1]) /\ Stored(buf, pend[1])
    BY PendTypes DEF IInv, PendStored, PendChained
  <1>2. pend[1].cnt \in Nat
    BY <1>1 DEF Messages
  <1>3. CASE pend[1].hdr = pend[1].at
    BY <1>1, <1>2, <1>3, SizeAssumption
    DEF HeadHdr, WellPlaced, Stored, HeaderStored, RESERV_LEN
  <1>4. CASE pend[1].hdr # pend[1].at
    BY <1>1, <1>4 DEF HeadHdr, WellPlaced, Stored, HeaderStored
  <1> QED
    BY <1>3, <1>4

\* The receiver's steps other than the store to out.
LEMMA ReceiveStep ==
  ASSUME IInv, TypeOK',
         \/ BeginRecvEmpty \/ BeginRecvMsg \/ UnpackRead \/ UnpackRefuse
         \/ CompleteCompare \/ CompleteFlag
  PROVE  IInv'
  <1>1. UNCHANGED <<prodVars, buf, in, out, pend>>
    BY DEF BeginRecvEmpty, BeginRecvMsg, UnpackRead, UnpackRefuse, CompleteCompare, CompleteFlag
  <1>2. PendStored' /\ PendApart' /\ PendChained'
    BY <1>1, PendKept DEF IInv
  <1>3. SampleBehind' /\ Reserved'
    BY <1>1, ProducerKept DEF IInv
  <1>4. DeliversOldest' /\ FlagSettles'
    <2>1. CASE BeginRecvEmpty
      BY <2>1 DEF IInv, BeginRecvEmpty, DeliversOldest, FlagSettles
    <2>2. CASE BeginRecvMsg
      <3>1. pend # <<>>
        BY <2>2, InvEmptyTest DEF BeginRecvMsg, EmptyTestExact
      <3>2. cur' = [hdr |-> pend[1].hdr, cnt |-> pend[1].cnt]
        BY <2>2, <3>1, HeadIsOldest DEF BeginRecvMsg
      <3>3. nextOut' = Wrap(cur'.hdr + cur'.cnt + RESERV_LEN)
        BY <2>2 DEF BeginRecvMsg
      <3> QED
        BY <1>1, <2>2, <3>1, <3>2, <3>3 DEF BeginRecvMsg, DeliversOldest, FlagSettles
    <2>3. CASE UnpackRead
      BY <2>3 DEF IInv, UnpackRead, DeliversOldest, FlagSettles
    <2>4. CASE UnpackRefuse
      BY <2>4 DEF IInv, UnpackRefuse, DeliversOldest, FlagSettles
    <2>5. CASE CompleteCompare
      BY <2>5, InvNeverFull DEF IInv, CompleteCompare, DeliversOldest, FlagSettles, RingNeverFull
    <2>6. CASE CompleteFlag
      BY <2>6 DEF IInv, CompleteFlag, DeliversOldest, FlagSettles
    <2> QED
      BY <2>1, <2>2, <2>3, <2>4, <2>5, <2>6
  <1> QED
    BY <1>2, <1>3, <1>4 DEF IInv

\* out = nextOut: the oldest message is released.
LEMMA ReleaseStep ==
  ASSUME IInv, CompleteOut, TypeOK'
  PROVE  IInv'
  <1> DEFINE n == Len(pend)
             d == Span(pend[1])
  <1>1. TypeOK /\ in \in Index /\ out \in Index
    BY DEF IInv, TypeOK
  <1>2. /\ UNCHANGED <<buf, in, prodVars>> /\ cpc' = "outStored"
        /\ pend # <<>> /\ out' = After(pend[1]) /\ pend' = Tail(pend)
    BY DEF IInv, CompleteOut, DeliversOldest, After
  <1>3. /\ n \in Nat /\ n > 0 /\ DOMAIN pend = 1 .. n /\ 1 \in DOMAIN pend
        /\ \A k \in DOMAIN pend : pend[k] \in Messages /\ pend[k].at \in Index
    BY <1>1, <1>2, PendTypes
  <1>4. /\ Len(pend') = n - 1 /\ DOMAIN pend' = 1 .. n - 1
        /\ \A k \in DOMAIN pend' : pend'[k] = pend[k + 1]
        /\ pend' = <<>> <=> n = 1
    <2>1. pend \in Seq(Messages)
      BY <1>1, PendTypes
    <2>2. /\ pend' \in Seq(Messages) /\ Len(pend') = n - 1
          /\ \A k \in 1 .. Len(pend') : pend'[k] = pend[k + 1]
      BY <1>2, <2>1, HeadTailProperties
    <2> QED
      BY <1>3, <2>2, EmptySeq
  <1>5. /\ Dist(out, in) \in Nat /\ Dist(out, in) < Size
        /\ \A k \in DOMAIN pend : Dist(out, pend[k].at) \in Nat /\ Span(pend[k]) \in Nat
    BY <1>1, <1>3, DistType, SpanType, IndexFacts
  <1>6. pend[1].at = out /\ Dist(out, pend[1].at) = 0
    <2>1. pend[1].at = out
      BY <1>3 DEF IInv, PendChained
    <2> QED
      BY <1>1, <2>1, DistType
  <1>7. d \in Nat /\ d <= Dist(out, in)
    <2>1. Dist(out, pend[1].at) + d <= Dist(out, in)
      BY <1>3 DEF IInv, PendStored
    <2> QED
      BY <1>3, <1>5, <1>6, <2>1
  <1>8. out' \in Index /\ Dist(out, out') = d
    <2>1. WellPlaced(pend[1]) /\ Dist(out, pend[1].at) + Span(pend[1]) < Size
      BY <1>3, <1>5, <1>6, <1>7, SizeAssumption DEF IInv, PendStored
    <2>2. After(pend[1]) \in Index /\ Dist(out, After(pend[1])) = Dist(out, pend[1].at) + d
      BY <1>1, <1>3, <2>1, AfterDist
    <2> QED
      BY <1>2, <1>6, <1>7, <2>2
  <1>9. Dist(out', in) = Dist(out, in) - d
    BY <1>1, <1>7, <1>8, DistShift
  <1>10. ASSUME NEW k \in DOMAIN pend'
         PROVE  /\ k + 1 \in DOMAIN pend /\ pend'[k] = pend[k + 1]
                /\ Dist(out', pend[k + 1].at) = Dist(out, pend[k + 1].at) - d
    <2>1. k + 1 \in DOMAIN pend /\ 1 < k + 1
      BY <1>3, <1>4
    <2>2. d <= Dist(out, pend[k + 1].at)
      <3>1. Dist(out, pend[1].at) + Span(pend[1]) <= Dist(out, pend[k + 1].at)
        BY <1>3, <2>1 DEF IInv, PendApart
      <3> QED
        BY <1>5, <1>6, <1>7, <2>1, <3>1
    <2>3. pend[k + 1].at \in Index
      BY <1>3, <2>1
    <2> QED
      BY <1>1, <1>4, <1>8, <2>1, <2>2, <2>3, DistShift
  <1>11. PendStored'
    <2> SUFFICES ASSUME NEW k \in DOMAIN pend'
                 PROVE  /\ WellPlaced(pend'[k]) /\ Stored(buf, pend'[k])
                        /\ Dist(out', pend'[k].at) + Span(pend'[k]) <= Dist(out', in)
      BY <1>2 DEF PendStored
    <2>1. k + 1 \in DOMAIN pend /\ pend'[k] = pend[k + 1]
          /\ Dist(out', pend[k + 1].at) = Dist(out, pend[k + 1].at) - d
      BY <1>10
    <2>2. /\ WellPlaced(pend[k + 1]) /\ Stored(buf, pend[k + 1])
          /\ Dist(out, pend[k + 1].at) + Span(pend[k + 1]) <= Dist(out, in)
      BY <2>1 DEF IInv, PendStored
    <2> QED
      BY <1>5, <1>7, <1>9, <2>1, <2>2
  <1>12. PendApart'
    <2> SUFFICES ASSUME NEW j \in DOMAIN pend', NEW k \in DOMAIN pend', j < k
                 PROVE  Dist(out', pend'[j].at) + Span(pend'[j]) <= Dist(out', pend'[k].at)
      BY DEF PendApart
    <2>1. /\ j + 1 \in DOMAIN pend /\ k + 1 \in DOMAIN pend /\ j + 1 < k + 1
      BY <1>4, <1>10
    <2>2. Dist(out, pend[j + 1].at) + Span(pend[j + 1]) <= Dist(out, pend[k + 1].at)
      BY <2>1 DEF IInv, PendApart
    <2> QED
      BY <1>5, <1>7, <1>10, <2>1, <2>2
  <1>13. PendChained'
    <2>1. in = After(pend[n])
      BY <1>2 DEF IInv, PendChained
    <2>2. in = IF pend' = <<>> THEN out' ELSE After(pend'[Len(pend')])
      <3>1. CASE n = 1
        BY <1>2, <1>4, <2>1, <3>1
      <3>2. CASE n # 1
        <4>1. n - 1 \in DOMAIN pend' /\ (n - 1) + 1 = n
          BY <1>3, <1>4, <3>2
        <4> QED
          BY <1>4, <2>1, <3>2, <4>1
      <3> QED
        BY <3>1, <3>2
    <2>3. ASSUME NEW k \in DOMAIN pend'
          PROVE  pend'[k].at = IF k = 1 THEN out' ELSE After(pend'[k - 1])
      <3>1. /\ k + 1 \in DOMAIN pend /\ k + 1 # 1 /\ (k + 1) - 1 = k /\ pend'[k] = pend[k + 1]
        BY <1>4, <1>10
      <3>2. pend[k + 1].at = After(pend[k])
        BY <3>1 DEF IInv, PendChained
      <3>3. k # 1 => k - 1 \in DOMAIN pend' /\ (k - 1) + 1 = k
        BY <1>4
      <3> QED
        BY <1>2, <1>4, <3>1, <3>2, <3>3
    <2> QED
      BY <1>2, <2>2, <2>3 DEF PendChained
  <1>14. SampleBehind'
    <2> SUFFICES ASSUME ppc = "sampled"
                 PROVE  tmpOut # in /\ Dist(out', in) <= Dist(tmpOut, in)
      BY <1>2 DEF SampleBehind, prodVars
    <2>1. tmpOut # in /\ Dist(out, in) <= Dist(tmpOut, in)
      BY <1>2 DEF IInv, SampleBehind
    <2>2. Dist(tmpOut, in) \in Nat
      BY <1>1, DistType, IndexFacts DEF TypeOK
    <2> QED
      BY <1>5, <1>7, <1>9, <2>1, <2>2
  <1>15. Reserved'
    <2>1. NewMsg' = NewMsg /\ UNCHANGED <<ppc, nextIn>>
      BY <1>2 DEF NewMsg, prodVars
    <2>2. Span(NewMsg) \in Nat
      BY <1>1, NewMsgTypes, SpanType
    <2>3. Dist(out, in) + Span(NewMsg) < Size => Dist(out', in) + Span(NewMsg) < Size
      BY <1>5, <1>7, <1>9, <2>2, SizeAssumption
    <2> QED
      BY <1>2, <2>1, <2>3 DEF IInv, Reserved
  <1>16. DeliversOldest' /\ FlagSettles'
    BY <1>2 DEF DeliversOldest, FlagSettles
  <1> QED
    BY <1>11, <1>12, <1>13, <1>14, <1>15, <1>16 DEF IInv

\* Every step of quickMsgRing.c, of either thread, keeps it.
LEMMA InvStep == IInv /\ [Next]_vars => IInv'
  <1> SUFFICES ASSUME IInv, [Next]_vars PROVE IInv'
    OBVIOUS
  <1>1. TypeOK'
    BY TypeStep DEF IInv
  <1>2. CASE Producer
    BY <1>1, <1>2, SampleStep, HereStep, RewindStep, GiveUpStep, CopyStep, PublishStep DEF Producer
  <1>3. CASE Consumer
    BY <1>1, <1>3, ReceiveStep, ReleaseStep DEF Consumer
  <1>4. CASE UNCHANGED vars
    <2>1. UNCHANGED <<buf, in, out, pend, emptyFlag, consVars, prodVars>>
      BY <1>4 DEF vars
    <2> QED
      BY <1>1, <2>1, PendKept, ConsumerKept, ProducerKept DEF IInv
  <1> QED
    BY <1>2, <1>3, <1>4 DEF Next

-----------------------------------------------------------------------------
(***************************************************************************)
(* The theorems.                                                           *)
(***************************************************************************)

\* The inductive invariant of quickMsgRing.c: accepted messages lie one behind the other
\* from out to in, and what the sender has reserved is free, whatever the receiver does.
THEOREM Invariance == Spec => []IInv
  BY InvInit, InvStep, PTL DEF Spec

\* in = out never means "full": GetBufBulk leaves a word free, whatever out it saw.
THEOREM NeverFull == Spec => []RingNeverFull
  BY Invariance, InvNeverFull, PTL

\* BeginRecvMsgBulk's test for an empty ring is exact at every poll.
THEOREM EmptyExact == Spec => []EmptyTestExact
  BY Invariance, InvEmptyTest, PTL

\* No send disturbs an accepted message before it is taken.
THEOREM Intact == Spec => []UnreadIntact
  BY Invariance, InvUnread, PTL

\* The callback of RecvMsgWithUnpackFunc is given the oldest accepted message.
THEOREM Delivery == Spec => []DeliversOldest
  <1>1. IInv => DeliversOldest
    BY DEF IInv
  <1> QED
    BY <1>1, Invariance, PTL

\* GetBufBulk never wedges an empty ring whose flag has settled.
THEOREM Acceptance == Spec => []EmptyRingAccepts
  BY Invariance, InvAccepts, PTL

-----------------------------------------------------------------------------
(***************************************************************************)
(* The ring implements the FIFO of MsgFifo, step by step.                  *)
(***************************************************************************)

\* What the receiver can see of the accepted messages: the abstract queue.
Views(p) == [k \in DOMAIN p |-> View(p[k])]

\* What else the refinement needs to know: the sender's message is one a sender has,
\* every accepted message can be seen as one, and while the callback runs it has read
\* the oldest one, word for word.
SendsMsgs == ppc # "idle" => msg.len \in MsgLens /\ msg.val \in Payloads
PendAreMsgs == \A k \in DOMAIN pend : View(pend[k]) \in FifoMsgs
HandedIsOldest ==
  IF cpc = "called" THEN handed = <<View(pend[1])>> ELSE handed = <<>>

RefInv == IInv /\ SendsMsgs /\ PendAreMsgs /\ HandedIsOldest

\* The view of an accepted message is its length and the words the callback finds.
LEMMA BodySeen ==
  ASSUME IInv, NEW k \in DOMAIN pend
  PROVE  View(pend[k]) = [cnt |-> pend[k].cnt, words |-> Body(buf, pend[k].hdr, pend[k].cnt)]
  <1>1. PICK m \in Messages : m = pend[k]
    BY PendTypes DEF IInv
  <1>2. /\ WellPlaced(m) /\ Stored(buf, m) /\ Dist(out, m.at) + Span(m) <= Dist(out, in)
    BY <1>1 DEF IInv, PendStored
  <1>3. m.at \in Index /\ m.hdr \in Index /\ m.cnt \in Nat /\ out \in Index /\ in \in Index
    BY DEF IInv, TypeOK, Messages
  <1>4. Dist(out, m.at) + Span(m) < Size
    <2>1. Dist(out, in) \in Nat /\ Dist(out, in) < Size /\ Dist(out, m.at) \in Nat /\ Span(m) \in Nat
      BY <1>3, DistType, IndexFacts, SpanType
    <2> QED
      BY <1>2, <2>1, SizeAssumption
  <1>5. m.hdr + m.cnt \in Index
    BY <1>2, <1>3, <1>4, CellsWithin
  <1>6. \A a \in m.hdr + RESERV_LEN .. m.hdr + m.cnt : a \in Index /\ buf[a] = m.val
    <2>1. \A a \in m.hdr + RESERV_LEN .. m.hdr + m.cnt : buf[a] = m.val
      BY <1>2 DEF Stored
    <2>2. \A a \in m.hdr + RESERV_LEN .. m.hdr + m.cnt : a \in Index
      BY <1>3, <1>5, SizeAssumption DEF Index, RESERV_LEN
    <2> QED
      BY <2>1, <2>2
  <1>7. CASE m.cnt = 0
    <2>1. m.hdr + RESERV_LEN .. m.hdr + m.cnt = {}
      BY <1>3, <1>7, IndexFacts DEF RESERV_LEN
    <2>2. Body(buf, m.hdr, m.cnt) = {}
      BY <2>1 DEF Body
    <2> QED
      BY <1>1, <1>7, <2>2 DEF View
  <1>8. CASE m.cnt # 0
    <2>1. m.hdr + RESERV_LEN \in m.hdr + RESERV_LEN .. m.hdr + m.cnt
      BY <1>3, <1>8, IndexFacts DEF RESERV_LEN
    <2>2. Body(buf, m.hdr, m.cnt) = {m.val}
      BY <1>6, <2>1 DEF Body
    <2> QED
      BY <1>1, <1>8, <2>2 DEF View
  <1> QED
    BY <1>7, <1>8

\* The abstract queue is a sequence as long as the concrete one.
LEMMA ViewsSeq ==
  ASSUME NEW p \in Seq(Messages)
  PROVE  /\ Views(p) \in Seq({View(m) : m \in Messages}) /\ Len(Views(p)) = Len(p)
         /\ \A k \in 1 .. Len(p) : Views(p)[k] = View(p[k])
  <1>1. Len(p) \in Nat /\ DOMAIN p = 1 .. Len(p) /\ \A k \in 1 .. Len(p) : p[k] \in Messages
    BY ElementOfSeq
  <1>2. Views(p) = [k \in 1 .. Len(p) |-> View(p[k])]
    BY <1>1 DEF Views
  <1>3. \A k \in 1 .. Len(p) : View(p[k]) \in {View(m) : m \in Messages}
    BY <1>1
  <1>4. Views(p) \in Seq({View(m) : m \in Messages})
    BY <1>1, <1>2, <1>3, IsASeq
  <1>5. DOMAIN Views(p) = 1 .. Len(p)
    BY <1>2
  <1> QED
    BY <1>1, <1>2, <1>4, <1>5, LenProperties

\* A message that is accepted is the last one of the abstract queue ...
LEMMA ViewsAppend ==
  ASSUME NEW p \in Seq(Messages), NEW m \in Messages
  PROVE  Views(Append(p, m)) = Append(Views(p), View(m))
  <1> DEFINE S == {View(x) : x \in Messages}
  <1>1. /\ Append(p, m) \in Seq(Messages) /\ Len(Append(p, m)) = Len(p) + 1 /\ Len(p) \in Nat
        /\ \A k \in 1 .. Len(p) : Append(p, m)[k] = p[k]
        /\ Append(p, m)[Len(p) + 1] = m
    BY AppendProperties
  <1>2. Views(p) \in Seq(S) /\ Len(Views(p)) = Len(p) /\ View(m) \in S
        /\ \A k \in 1 .. Len(p) : Views(p)[k] = View(p[k])
    BY ViewsSeq
  <1>3. /\ Views(Append(p, m)) \in Seq(S) /\ Len(Views(Append(p, m))) = Len(p) + 1
        /\ \A k \in 1 .. Len(p) + 1 : Views(Append(p, m))[k] = View(Append(p, m)[k])
    BY <1>1, ViewsSeq
  <1> HIDE DEF S
  <1>4. /\ Append(Views(p), View(m)) \in Seq(S) /\ Len(Append(Views(p), View(m))) = Len(p) + 1
        /\ \A k \in 1 .. Len(p) : Append(Views(p), View(m))[k] = Views(p)[k]
        /\ Append(Views(p), View(m))[Len(p) + 1] = View(m)
    BY <1>2, AppendProperties
  <1>5. \A k \in 1 .. Len(p) + 1 : Views(Append(p, m))[k] = Append(Views(p), View(m))[k]
    <2> SUFFICES ASSUME NEW k \in 1 .. Len(p) + 1
                 PROVE  Views(Append(p, m))[k] = Append(Views(p), View(m))[k]
      OBVIOUS
    <2>1. k \in 1 .. Len(p) \/ k = Len(p) + 1
      BY <1>1
    <2> QED
      BY <1>1, <1>2, <1>3, <1>4, <2>1
  <1> QED
    BY <1>3, <1>4, <1>5, SeqEqual

\* ... and one that is taken was its first.
LEMMA ViewsTail ==
  ASSUME NEW p \in Seq(Messages), p # <<>>
  PROVE  Views(Tail(p)) = Tail(Views(p)) /\ Head(Views(p)) = View(p[1]) /\ Views(p) # <<>>
  <1> DEFINE S == {View(x) : x \in Messages}
  <1>1. /\ Tail(p) \in Seq(Messages) /\ Len(Tail(p)) = Len(p) - 1 /\ Len(p) \in Nat /\ Len(p) > 0
        /\ \A k \in 1 .. Len(Tail(p)) : Tail(p)[k] = p[k + 1]
    BY HeadTailProperties, EmptySeq
  <1>2. Views(p) \in Seq(S) /\ Len(Views(p)) = Len(p)
        /\ \A k \in 1 .. Len(p) : Views(p)[k] = View(p[k])
    BY ViewsSeq
  <1>3. /\ Views(Tail(p)) \in Seq(S) /\ Len(Views(Tail(p))) = Len(p) - 1
        /\ \A k \in 1 .. Len(p) - 1 : Views(Tail(p))[k] = View(Tail(p)[k])
    BY <1>1, ViewsSeq
  <1> HIDE DEF S
  <1>4. Views(p) # <<>>
    BY <1>1, <1>2, EmptySeq
  <1>5. /\ Tail(Views(p)) \in Seq(S) /\ Len(Tail(Views(p))) = Len(p) - 1
        /\ \A k \in 1 .. Len(p) - 1 : Tail(Views(p))[k] = Views(p)[k + 1]
        /\ Head(Views(p)) = Views(p)[1]
    BY <1>2, <1>4, HeadTailProperties
  <1>6. \A k \in 1 .. Len(p) - 1 : Views(Tail(p))[k] = Tail(Views(p))[k]
    <2> SUFFICES ASSUME NEW k \in 1 .. Len(p) - 1
                 PROVE  Views(Tail(p))[k] = Tail(Views(p))[k]
      OBVIOUS
    <2>1. k + 1 \in 1 .. Len(p)
      BY <1>1
    <2> QED
      BY <1>1, <1>2, <1>3, <1>5, <2>1
  <1>7. Views(Tail(p)) = Tail(Views(p))
    BY <1>3, <1>5, <1>6, SeqEqual
  <1>8. 1 \in 1 .. Len(p)
    BY <1>1
  <1> QED
    BY <1>2, <1>4, <1>5, <1>7, <1>8

\* The message a sender is writing is one the receiver can be shown.
LEMMA NewMsgSeen == ASSUME SendsMsgs, ppc # "idle" PROVE View(NewMsg) \in FifoMsgs
  <1>1. PICK l \in MsgLens, v \in Payloads : l = msg.len /\ v = msg.val
    BY DEF SendsMsgs
  <1>2. PICK m : m = [cnt |-> WordCnt(l), val |-> v]
    OBVIOUS
  <1>3. NewMsg.cnt = m.cnt /\ NewMsg.val = m.val
    BY <1>1, <1>2 DEF NewMsg
  <1>4. View(NewMsg) = View(m)
    BY <1>3 DEF View
  <1>5. View(m) \in FifoMsgs
    BY <1>2 DEF FifoMsgs
  <1> QED
    BY <1>4, <1>5

\* RefInv holds initially ...
LEMMA RefInit == Init => RefInv
  BY InvInit DEF Init, RefInv, SendsMsgs, PendAreMsgs, HandedIsOldest

\* ... and is kept by every step.
LEMMA RefStep == RefInv /\ [Next]_vars => RefInv'
  <1> SUFFICES ASSUME RefInv, [Next]_vars PROVE RefInv'
    OBVIOUS
  <1>1. IInv /\ IInv' /\ TypeOK /\ DeliversOldest
    BY InvStep DEF RefInv, IInv
  <1>2. SendsMsgs'
    <2>1. CASE GetBufSample
      BY <2>1 DEF GetBufSample, SendsMsgs
    <2>2. CASE ~GetBufSample
      <3>1. msg' = msg /\ (ppc' # "idle" => ppc # "idle")
        BY <2>2 DEF Next, Producer, Consumer, GetBufHere, GetBufRewind, GetBufFail, CopyMsg,
                    PackFail, PublishIn, BeginRecvEmpty, BeginRecvMsg, UnpackRead, UnpackRefuse,
                    CompleteOut, CompleteCompare, CompleteFlag, vars, prodVars
      <3> QED
        BY <3>1 DEF RefInv, SendsMsgs
    <2> QED
      BY <2>1, <2>2
  <1>3. CASE PublishIn
    <2>1. pend' = Append(pend, NewMsg) /\ UNCHANGED <<cpc, handed>> /\ ppc # "idle"
      BY <1>3 DEF PublishIn, NewMsg, consVars
    <2>2. NewMsg \in Messages /\ pend \in Seq(Messages)
      BY <1>1, NewMsgTypes, PendTypes
    <2>3. View(NewMsg) \in FifoMsgs
      BY <2>1, NewMsgSeen DEF RefInv
    <2>4. /\ Len(pend) \in Nat /\ DOMAIN pend = 1 .. Len(pend) /\ DOMAIN pend' = 1 .. Len(pend) + 1
          /\ \A k \in 1 .. Len(pend) : pend'[k] = pend[k]
          /\ pend'[Len(pend) + 1] = NewMsg
      BY <2>1, <2>2, AppendProperties
    <2>5. PendAreMsgs'
      <3> SUFFICES ASSUME NEW k \in DOMAIN pend' PROVE View(pend'[k]) \in FifoMsgs
        BY DEF PendAreMsgs
      <3>1. k \in 1 .. Len(pend) \/ k = Len(pend) + 1
        BY <2>4
      <3> QED
        BY <2>3, <2>4, <3>1 DEF RefInv, PendAreMsgs
    <2>6. HandedIsOldest'
      <3>1. cpc = "called" => pend # <<>>
        BY <1>1 DEF DeliversOldest
      <3>2. pend # <<>> => pend'[1] = pend[1]
        BY <1>1, <2>4, PendTypes
      <3> QED
        BY <2>1, <3>1, <3>2 DEF RefInv, HandedIsOldest, View
    <2> QED
      BY <1>1, <1>2, <2>5, <2>6 DEF RefInv
  <1>4. CASE CompleteOut
    <2>1. cpc = "called" /\ pend # <<>> /\ pend' = Tail(pend) /\ cpc' = "outStored" /\ handed' = <<>>
      BY <1>1, <1>4 DEF CompleteOut, DeliversOldest
    <2>2. /\ Len(pend) \in Nat /\ DOMAIN pend = 1 .. Len(pend) /\ DOMAIN pend' = 1 .. Len(pend) - 1
          /\ \A k \in 1 .. Len(pend) - 1 : pend'[k] = pend[k + 1]
      <3>1. pend \in Seq(Messages)
        BY <1>1, PendTypes
      <3> QED
        BY <2>1, <3>1, HeadTailProperties
    <2>3. PendAreMsgs'
      <3> SUFFICES ASSUME NEW k \in DOMAIN pend' PROVE View(pend'[k]) \in FifoMsgs
        BY DEF PendAreMsgs
      <3>1. k + 1 \in DOMAIN pend /\ pend'[k] = pend[k + 1]
        BY <2>2
      <3> QED
        BY <3>1 DEF RefInv, PendAreMsgs
    <2>4. HandedIsOldest'
      BY <2>1 DEF HandedIsOldest
    <2> QED
      BY <1>1, <1>2, <2>3, <2>4 DEF RefInv
  <1>5. CASE UnpackRead
    <2>1. /\ cpc = "begun" /\ cpc' = "called" /\ pend' = pend
          /\ handed' = <<[cnt |-> cur.cnt, words |-> Body(buf, cur.hdr, cur.cnt)]>>
      BY <1>5 DEF UnpackRead
    <2>2. pend # <<>> /\ cur.hdr = pend[1].hdr /\ cur.cnt = pend[1].cnt
      BY <1>1, <2>1 DEF DeliversOldest
    <2>3. View(pend[1]) = [cnt |-> pend[1].cnt, words |-> Body(buf, pend[1].hdr, pend[1].cnt)]
      BY <1>1, <2>2, PendTypes, BodySeen
    <2>4. HandedIsOldest'
      BY <2>1, <2>2, <2>3 DEF HandedIsOldest, View
    <2>5. PendAreMsgs'
      BY <2>1 DEF RefInv, PendAreMsgs
    <2> QED
      BY <1>1, <1>2, <2>4, <2>5 DEF RefInv
  <1>6. CASE ~PublishIn /\ ~CompleteOut /\ ~UnpackRead
    <2>1. /\ pend' = pend
          /\ \/ handed' = <<>> /\ cpc' # "called"
             \/ handed' = handed /\ (cpc' = "called" <=> cpc = "called")
      BY <1>6 DEF Next, Producer, Consumer, GetBufSample, GetBufHere, GetBufRewind, GetBufFail,
                  CopyMsg, PackFail, BeginRecvEmpty, BeginRecvMsg, UnpackRefuse,
                  CompleteCompare, CompleteFlag, vars, consVars
    <2>2. HandedIsOldest' /\ PendAreMsgs'
      BY <2>1 DEF RefInv, HandedIsOldest, PendAreMsgs
    <2> QED
      BY <1>1, <1>2, <2>2 DEF RefInv
  <1> QED
    BY <1>3, <1>4, <1>5, <1>6

\* Each step of the ring is a step of the FIFO or none: the store to in accepts, the
\* callback's read hands over, its return refuses or takes.
LEMMA FifoStep == RefInv /\ [Next]_vars => [Fifo!FifoNext]_(Fifo!fifoVars)
  <1> SUFFICES ASSUME RefInv, [Next]_vars PROVE Fifo!FifoNext \/ UNCHANGED Fifo!fifoVars
    OBVIOUS
  <1>1. IInv /\ TypeOK /\ DeliversOldest /\ pend \in Seq(Messages)
    BY PendTypes DEF RefInv, IInv
  <1>2. CASE PublishIn
    <2>1. pend' = Append(pend, NewMsg) /\ handed' = handed /\ ppc # "idle"
      BY <1>2 DEF PublishIn, NewMsg, consVars
    <2>2. NewMsg \in Messages
      BY <1>1, NewMsgTypes
    <2>3. View(NewMsg) \in FifoMsgs
      BY <2>1, NewMsgSeen DEF RefInv
    <2>4. Views(pend') = Append(Views(pend), View(NewMsg))
      BY <1>1, <2>1, <2>2, ViewsAppend
    <2>5. Fifo!Accept(View(NewMsg))
      BY <2>1, <2>4 DEF Fifo!Accept, Views
    <2> QED
      BY <2>3, <2>5 DEF Fifo!FifoNext
  <1>3. CASE UnpackRead
    <2>1. /\ cpc = "begun" /\ cpc' = "called" /\ pend' = pend
      BY <1>3 DEF UnpackRead
    <2>2. pend # <<>> /\ handed = <<>>
      BY <1>1, <2>1 DEF DeliversOldest, RefInv, HandedIsOldest
    <2>3. handed' = <<View(pend[1])>>
      <3>1. RefInv'
        BY RefStep
      <3> QED
        BY <2>1, <3>1 DEF RefInv, HandedIsOldest, View
    <2>4. Views(pend) # <<>> /\ Head(Views(pend)) = View(pend[1])
      BY <1>1, <2>2, ViewsTail
    <2>5. Views(pend)' = Views(pend)
      BY <2>1 DEF Views, View
    <2>6. Fifo!HandOver
      BY <2>2, <2>3, <2>4, <2>5 DEF Fifo!HandOver, Views
    <2> QED
      BY <2>6 DEF Fifo!FifoNext
  <1>4. ASSUME cpc = "called"
        PROVE  /\ pend # <<>> /\ handed # <<>> /\ handed[1] = View(pend[1])
               /\ handed[1] \in FifoMsgs
    <2>1. pend # <<>> /\ handed = <<View(pend[1])>>
      BY <1>1, <1>4 DEF DeliversOldest, RefInv, HandedIsOldest
    <2>2. View(pend[1]) \in FifoMsgs
      BY <1>1, <2>1, PendTypes DEF RefInv, PendAreMsgs
    <2> QED
      BY <2>1, <2>2
  <1>5. CASE UnpackRefuse
    <2>1. /\ cpc = "called" /\ handed[1].words \cap Unhandled # {} /\ handed' = <<>> /\ pend' = pend
      BY <1>5 DEF UnpackRefuse
    <2>2. Views(pend)' = Views(pend)
      BY <2>1 DEF Views, View
    <2>3. Fifo!Refuse
      BY <1>4, <2>1, <2>2 DEF Fifo!Refuse, Views
    <2> QED
      BY <2>3 DEF Fifo!FifoNext
  <1>6. CASE CompleteOut
    <2>1. /\ cpc = "called" /\ handed[1].words \cap Unhandled = {} /\ handed' = <<>>
          /\ pend' = IF pend = <<>> THEN pend ELSE Tail(pend)
      BY <1>6 DEF CompleteOut
    <2>2. pend' = Tail(pend)
      BY <1>4, <2>1
    <2>3. Views(pend') = Tail(Views(pend))
      BY <1>1, <1>4, <2>1, <2>2, ViewsTail
    <2>4. Fifo!Take
      BY <1>4, <2>1, <2>3 DEF Fifo!Take, Views
    <2> QED
      BY <2>4 DEF Fifo!FifoNext
  <1>7. CASE ~PublishIn /\ ~UnpackRead /\ ~UnpackRefuse /\ ~CompleteOut
    <2>1. UNCHANGED <<pend, handed>>
      BY <1>7 DEF Next, Producer, Consumer, GetBufSample, GetBufHere, GetBufRewind, GetBufFail,
                  CopyMsg, PackFail, BeginRecvEmpty, BeginRecvMsg, CompleteCompare,
                  CompleteFlag, vars, consVars
    <2> QED
      BY <2>1 DEF Fifo!fifoVars, View
  <1> QED
    BY <1>2, <1>3, <1>5, <1>6, <1>7

\* The ring of quickMsgRing.c implements the initial states and the steps of MsgFifo, for
\* every size, message length and content: what the callback reads from the words of the
\* buffer is exactly the accepted messages, in order and unchanged, each until it is taken.
\* (The fairness of FifoSpec, the rest of ImplementsFifo, is left to TLC.)
THEOREM RingIsFifo == Spec => Fifo!FifoInit /\ [][Fifo!FifoNext]_(Fifo!fifoVars)
  <1>1. Init => Fifo!FifoInit
    <2> SUFFICES ASSUME Init PROVE Fifo!FifoInit
      OBVIOUS
    <2>1. pend = <<>> /\ handed = <<>>
      BY DEF Init
    <2>2. [k \in DOMAIN pend |-> View(pend[k])] = <<>>
      <3>1. pend \in Seq(Messages) /\ Len(pend) = 0
        BY <2>1, EmptySeq
      <3>2. Len(Views(pend)) = 0 /\ Views(pend) \in Seq({View(m) : m \in Messages})
        BY <3>1, ViewsSeq
      <3> QED
        BY <3>2, EmptySeq DEF Views
    <2> QED
      BY <2>1, <2>2 DEF Fifo!FifoInit
  <1>2. Spec => []RefInv
    BY RefInit, RefStep, PTL DEF Spec
  <1> QED
    BY <1>1, <1>2, FifoStep, PTL DEF Spec
=============================================================================
