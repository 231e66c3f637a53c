---------------------------- MODULE PhyLinkProofs ----------------------------
(***************************************************************************)
(* Proofs about what stands beside the link to the PHY: the trace of its   *)
(* messages (MacTrace, TraceFaithful) and the relay of OAM requests        *)
(* (OamRelay, RepliesHome), for any number of threads, clients and slots.  *)
(***************************************************************************)
EXTENDS MacTrace, OamRelay, SequenceTheorems, TLAPS

(***************************************************************************)
(* The relay: datagrams are numbered in the order in which they arrive, so *)
(* those received come before those in the socket, and the address kept is *)
(* that of the last one received.                                          *)
(***************************************************************************)

Ids == P19Requests \cup OamRequests \cup {"dfe_start"}
Datagrams == [from : Clients, id : Ids, n : Nat]
Requests == [type : {"p19", "oam"}, body : {"whole", "tail"}, msg : Datagrams]
OamTypes ==
  /\ queue \in Seq(Datagrams) /\ recvd \subseteq Datagrams
  /\ serial \in Nat
  /\ client \in Clients \cup {Tracer}
  /\ chan \subseteq Requests
  /\ replies \in Seq(Clients \X (Clients \cup {Tracer}) \X Requests)
  /\ server = "none" => queue = <<>> /\ recvd = {}

\* What is on the PHY's channel was received.
ChanReceived == \A m \in chan : m.msg \in recvd

\* The numbers rise from the datagrams received over those in the socket to serial, and
\* no two are the same.
Numbered ==
  /\ \A d \in recvd : d.n <= serial
  /\ \A i \in 1 .. Len(queue) : queue[i].n <= serial /\ \A d \in recvd : d.n < queue[i].n
  /\ \A i, j \in 1 .. Len(queue) : i < j => queue[i].n < queue[j].n
  /\ \A d, e \in recvd : d.n = e.n => d = e

\* The address kept.
ClientIsLast ==
  recvd # {} => \E d \in recvd : d.from = client /\ \A e \in recvd : e.n <= d.n

OamInv == OamTypes /\ ChanReceived /\ Numbered /\ ClientIsLast

\* The first poll finds nothing received.
LEMMA OamInitInv == OamInit => OamInv
  BY EmptySeq DEF OamInit, OamInv, OamTypes, ChanReceived, Numbered, ClientIsLast

\* A datagram that arrives is the last one in the socket.
LEMMA OamSends ==
  ASSUME OamInv, NEW c \in Clients, NEW id \in Ids, ClientSends(c, id)
  PROVE  OamInv'
  <1>1. UNCHANGED <<server, client, chan, recvd, replies>> /\ serial' = serial + 1 /\ serial \in Nat
    BY DEF ClientSends, OamInv, OamTypes
  <1>2. queue \in Seq(Datagrams) /\ Len(queue) \in Nat
    BY DEF OamInv, OamTypes
  <1>3. \A d \in recvd : d.n \in Nat
    BY DEF OamInv, OamTypes, Datagrams
  <1>4. \A i \in 1 .. Len(queue) : queue[i].n \in Nat
    <2>1. \A i \in 1 .. Len(queue) : queue[i] \in Datagrams
      BY <1>2, ElementOfSeq
    <2> QED
      BY <2>1 DEF Datagrams
  <1>5. ChanReceived' /\ ClientIsLast'
    BY <1>1 DEF OamInv, ChanReceived, ClientIsLast
  <1>6. CASE queue' = queue
    <2>1. OamTypes'
      BY <1>1, <1>6 DEF OamInv, OamTypes
    <2>2. Numbered'
      BY <1>1, <1>2, <1>3, <1>4, <1>6 DEF OamInv, Numbered
    <2> QED
      BY <1>5, <2>1, <2>2 DEF OamInv
  <1>7. CASE queue' = Append(queue, [from |-> c, id |-> id, n |-> serial']) /\ server = "bound"
    <2>1. PICK m \in Datagrams : m = [from |-> c, id |-> id, n |-> serial']
      <3>1. serial' \in Nat
        BY <1>1
      <3>2. [from |-> c, id |-> id, n |-> serial'] \in Datagrams
        BY <3>1 DEF Datagrams
      <3> QED
        BY <3>2
    <2>2. m.n = serial + 1
      BY <1>1, <2>1
    <2>3. /\ queue' \in Seq(Datagrams) /\ Len(queue') = Len(queue) + 1
          /\ \A i \in 1 .. Len(queue) : queue'[i] = queue[i]
          /\ queue'[Len(queue) + 1] = m
      BY <1>2, <1>7, <2>1, AppendProperties
    <2>4. OamTypes'
      BY <1>1, <1>7, <2>3 DEF OamInv, OamTypes
    <2>5. \A i \in 1 .. Len(queue') : i \in 1 .. Len(queue) \/ i = Len(queue) + 1
      BY <1>2, <2>3
    <2>6. \A d \in recvd : d.n <= serial'
      BY <1>1, <1>3 DEF OamInv, Numbered
    <2>7. ASSUME NEW i \in 1 .. Len(queue')
          PROVE  queue'[i].n <= serial' /\ \A d \in recvd : d.n < queue'[i].n
      <3>1. CASE i \in 1 .. Len(queue)
        <4>1. queue[i].n <= serial /\ \A d \in recvd : d.n < queue[i].n
          BY <3>1 DEF OamInv, Numbered
        <4> QED
          BY <1>1, <1>4, <2>3, <3>1, <4>1
      <3>2. CASE i = Len(queue) + 1
        <4>1. \A d \in recvd : d.n <= serial
          BY DEF OamInv, Numbered
        <4> QED
          BY <1>1, <1>3, <2>2, <2>3, <3>2, <4>1
      <3> QED
        BY <2>5, <3>1, <3>2
    <2>8. ASSUME NEW i \in 1 .. Len(queue'), NEW j \in 1 .. Len(queue'), i < j
          PROVE  queue'[i].n < queue'[j].n
      <3>1. i \in 1 .. Len(queue)
        BY <1>2, <2>3, <2>8
      <3>2. queue[i].n <= serial
        BY <3>1 DEF OamInv, Numbered
      <3>3. CASE j \in 1 .. Len(queue)
        BY <2>3, <2>8, <3>1, <3>3 DEF OamInv, Numbered
      <3>4. CASE j = Len(queue) + 1
        BY <1>1, <1>4, <2>2, <2>3, <3>1, <3>2, <3>4
      <3> QED
        BY <2>5, <3>3, <3>4
    <2>9. Numbered'
      BY <1>1, <2>6, <2>7, <2>8 DEF OamInv, Numbered
    <2> QED
      BY <1>5, <2>4, <2>9 DEF OamInv
  <1> QED
    BY <1>6, <1>7 DEF ClientSends

\* A datagram that is received is the last one received.
LEMMA OamReceives == ASSUME OamInv, Receive PROVE OamInv'
  <1>1. /\ UNCHANGED <<server, serial, replies>> /\ server = "bound" /\ queue # <<>>
        /\ client' = Head(queue).from /\ queue' = Tail(queue)
        /\ chan' = chan \cup Forwarded(Head(queue)) /\ recvd' = recvd \cup {Head(queue)}
    BY DEF Receive
  <1>2. queue \in Seq(Datagrams) /\ Len(queue) \in Nat /\ Len(queue) > 0 /\ serial \in Nat
    BY <1>1, EmptySeq DEF OamInv, OamTypes
  <1>3. PICK h \in Datagrams : h = Head(queue) /\ h = queue[1]
    BY <1>1, <1>2, HeadTailProperties
  <1>4. /\ queue' \in Seq(Datagrams) /\ Len(queue') = Len(queue) - 1
        /\ \A i \in 1 .. Len(queue') : queue'[i] = queue[i + 1]
    BY <1>1, <1>2, HeadTailProperties
  <1>5. OamTypes'
    <2>1. client' \in Clients
      BY <1>1, <1>3 DEF Datagrams
    <2>2. Forwarded(h) \subseteq Requests
      BY DEF Forwarded, Requests
    <2> QED
      BY <1>1, <1>2, <1>3, <1>4, <2>1, <2>2 DEF OamInv, OamTypes
  <1>6. ChanReceived'
    <2>1. \A m \in Forwarded(h) : m.msg = h
      BY DEF Forwarded
    <2> QED
      BY <1>1, <1>3, <2>1 DEF OamInv, ChanReceived
  <1>7. 1 \in 1 .. Len(queue) /\ \A i \in 1 .. Len(queue') : i + 1 \in 1 .. Len(queue) /\ 1 < i + 1
    BY <1>2, <1>4
  <1>8. h.n <= serial /\ h.n \in Nat /\ \A d \in recvd : d.n < h.n /\ d.n \in Nat
    BY <1>3, <1>7 DEF OamInv, Numbered, OamTypes, Datagrams
  <1>9. Numbered'
    <2>1. \A d \in recvd' : d.n <= serial'
      BY <1>1, <1>3, <1>8 DEF OamInv, Numbered
    <2>2. ASSUME NEW i \in 1 .. Len(queue')
          PROVE  queue'[i].n <= serial' /\ \A d \in recvd' : d.n < queue'[i].n
      <3>1. /\ queue[i + 1].n <= serial /\ h.n < queue[i + 1].n
            /\ \A d \in recvd : d.n < queue[i + 1].n
        BY <1>3, <1>7, <2>2 DEF OamInv, Numbered
      <3> QED
        BY <1>1, <1>3, <1>4, <2>2, <3>1
    <2>3. ASSUME NEW i \in 1 .. Len(queue'), NEW j \in 1 .. Len(queue'), i < j
          PROVE  queue'[i].n < queue'[j].n
      <3>1. i + 1 \in 1 .. Len(queue) /\ j + 1 \in 1 .. Len(queue) /\ i + 1 < j + 1
        BY <1>7, <2>3
      <3> QED
        BY <1>4, <3>1 DEF OamInv, Numbered
    <2>4. \A d, e \in recvd' : d.n = e.n => d = e
      BY <1>1, <1>3, <1>8 DEF OamInv, Numbered
    <2> QED
      BY <2>1, <2>2, <2>3, <2>4 DEF Numbered
  <1>10. ClientIsLast'
    BY <1>1, <1>3, <1>8 DEF ClientIsLast
  <1> QED
    BY <1>5, <1>6, <1>9, <1>10 DEF OamInv

\* OamInv is kept by every step of the relay and of its clients.
LEMMA OamStep == OamInv /\ [OamNext]_oamVars => OamInv'
  <1> SUFFICES ASSUME OamInv, [OamNext]_oamVars PROVE OamInv'
    OBVIOUS
  <1>1. ASSUME NEW c \in Clients, NEW id \in {"config", "ecpri_get", "dfe_start"}, ClientSends(c, id)
        PROVE  OamInv'
    <2>1. id \in Ids
      BY DEF Ids, P19Requests, OamRequests
    <2> QED
      BY <1>1, <2>1, OamSends
  <1>2. CASE Bind
    BY <1>2, EmptySeq DEF Bind, OamInv, OamTypes, ChanReceived, Numbered, ClientIsLast
  <1>3. CASE Receive
    BY <1>3, OamReceives
  <1>4. CASE Answer
    <2>1. PICK m \in chan : replies' = Append(replies, <<m.msg.from, client, m>>) /\ chan' = chan \ {m}
      BY <1>4 DEF Answer, Reply
    <2>2. UNCHANGED <<server, queue, client, recvd, serial>>
      BY <1>4 DEF Answer
    <2>3. m.msg.from \in Clients
      BY DEF OamInv, OamTypes, Requests, Datagrams
    <2>4. replies' \in Seq(Clients \X (Clients \cup {Tracer}) \X Requests)
      BY <2>1, <2>3, AppendProperties DEF OamInv, OamTypes
    <2>5. OamTypes'
      BY <2>1, <2>2, <2>4 DEF OamInv, OamTypes
    <2> QED
      BY <2>1, <2>2, <2>5 DEF OamInv, ChanReceived, Numbered, ClientIsLast
  <1>5. CASE UNCHANGED oamVars
    BY <1>5 DEF oamVars, OamInv, OamTypes, ChanReceived, Numbered, ClientIsLast
  <1> QED
    BY <1>1, <1>2, <1>3, <1>4, <1>5 DEF OamNext

\* An answer goes to the client that asked, unless a later datagram of the one it goes to
\* had been received: oamSendAppRsp uses the address of the last recvfrom, and of no other.
THEOREM AnswersGoHome == OamSpec => RepliesHome
  <1>1. OamInv /\ [OamNext]_oamVars =>
          (Len(replies') > Len(replies) =>
            LET r == replies'[Len(replies')]
            IN  r[1] # r[2] => \E d \in recvd : d.n > r[3].msg.n /\ d.from = r[2])
    <2> SUFFICES ASSUME OamInv, [OamNext]_oamVars, Len(replies') > Len(replies)
                 PROVE  LET r == replies'[Len(replies')]
                        IN  r[1] # r[2] => \E d \in recvd : d.n > r[3].msg.n /\ d.from = r[2]
      OBVIOUS
    <2>1. replies \in Seq(Clients \X (Clients \cup {Tracer}) \X Requests) /\ Len(replies) \in Nat
      BY DEF OamInv, OamTypes
    <2>2. replies' # replies
      BY <2>1
    <2>3. Answer
      BY <2>2 DEF OamNext, ClientSends, Bind, Receive, oamVars
    <2>4. PICK m \in chan : replies' = Append(replies, <<m.msg.from, client, m>>)
      BY <2>3 DEF Answer, Reply
    <2>5. m.msg.from \in Clients /\ m \in Requests /\ client \in Clients \cup {Tracer}
      BY DEF OamInv, OamTypes, Requests, Datagrams
    <2>6. replies'[Len(replies')] = <<m.msg.from, client, m>>
      BY <2>1, <2>4, <2>5, AppendProperties
    <2>7. m.msg \in recvd
      BY DEF OamInv, ChanReceived
    <2>8. PICK d \in recvd : d.from = client /\ \A e \in recvd : e.n <= d.n
      BY <2>7 DEF OamInv, ClientIsLast
    <2>9. m.msg.n <= d.n /\ m.msg.n \in Nat /\ d.n \in Nat /\ (d.n = m.msg.n => d = m.msg)
      BY <2>7, <2>8 DEF OamInv, OamTypes, Numbered, Datagrams
    <2>10. m.msg.from # client => d.n > m.msg.n
      BY <2>8, <2>9
    <2> QED
      BY <2>6, <2>8, <2>10
  <1>2. OamSpec => []OamInv
    BY OamInitInv, OamStep, PTL DEF OamSpec
  <1> QED
    BY <1>1, <1>2, PTL DEF OamSpec, RepliesHome

-----------------------------------------------------------------------------
(***************************************************************************)
(* The trace.  The n-th item added is that of the n-th sendto, refused or  *)
(* not.  Of the items added, those from Given + 1 on have not been given   *)
(* back: they lie from traceStart on, one slot after the other, up to end, *)
(* and an add writes the slot at end only.                                 *)
(***************************************************************************)

\* The slot k places after slot s.
Ahead(s, k) == IF s + k < TraceItems THEN s + k ELSE (s + k) - TraceItems

\* How many items the trace thread has walked and given back.
Given == IF drain.step = "send" THEN Len(tried) - drain.i ELSE Len(tried)
Held == Len(added) - Given

AddSteps == {"out", "data", "len", "end"}
TraceTypes ==
  /\ traceStart \in Slots /\ end \in Slots
  /\ item \in [Slots -> Nat \X Nat]
  /\ itemType \in BOOLEAN /\ disturbed \in BOOLEAN
  /\ add \in [Adders -> [step : AddSteps, end : Slots, msg : Nat]]
  /\ drain \in [step : {"sleep", "count", "send"}, start : Slots, cnt : Nat, i : Nat]
  /\ adds \in Nat /\ added \in Seq(Nat) /\ tried \in Seq(Nat \X Nat)

\* The copy of start stays right: only the trace thread moves it.
StartKept == drain.step # "sleep" => drain.start = traceStart

\* Adds that did not overlap: there is one, its copy of end is right, and the slot at end
\* holds what it has written.
OneAdder ==
  /\ \A a, b \in Adders : add[a].step # "out" /\ add[b].step # "out" => a = b
  /\ \A a \in Adders : add[a].step # "out" => add[a].end = end
  /\ \A a \in Adders : add[a].step \in {"len", "end"} => item[end][1] = add[a].msg
  /\ \A a \in Adders : add[a].step = "end" => item[end][2] = add[a].msg

\* The ring between traceStart and end.
Between ==
  /\ Given \in Nat /\ Held \in 0 .. TraceItems - 1
  /\ end = Ahead(traceStart, Held)
  /\ \A k \in 0 .. Held - 1 :
       item[Ahead(traceStart, k)] = <<added[Given + k + 1], added[Given + k + 1]>>
  /\ drain.step = "send" => drain.i <= drain.cnt /\ drain.cnt <= Held

\* What sendto was given.
Sent == \A n \in 1 .. Len(tried) : tried[n] = <<added[n], added[n]>>

\* Only a call that was made is refused.
RefusedCalls == refused \subseteq 1 .. Len(tried)

TraceInv ==
  TraceTypes /\ StartKept /\ RefusedCalls /\ (disturbed \/ OneAdder) /\ (disturbed \/ ~itemType \/ (Between /\ Sent))

\* The remainder that the macros of macTrace.c compute.
LEMMA AheadMod ==
  ASSUME NEW x \in Nat, x < 2 * TraceItems
  PROVE  x % TraceItems = IF x < TraceItems THEN x ELSE x - TraceItems
  <1>1. TraceItems \in Nat /\ TraceItems > 0
    BY TraceAssumption
  <1>2. CASE x < TraceItems
    BY <1>1, <1>2
  <1>3. CASE x >= TraceItems
    <2> DEFINE y == x - TraceItems
    <2>1. y \in 0 .. TraceItems - 1
      BY <1>1, <1>3
    <2>2. x = TraceItems + y
      BY <1>1, <1>3
    <2> HIDE DEF y
    <2>3. (TraceItems + y) % TraceItems = y
      BY <1>1, <2>1
    <2>4. x % TraceItems = y
      BY <2>2, <2>3
    <2> QED
      BY <1>1, <1>3, <2>4 DEF y
  <1> QED
    BY <1>1, <1>2, <1>3

\* Slots.
LEMMA AheadFacts ==
  ASSUME NEW s \in Slots
  PROVE  /\ TraceItems \in Nat /\ TraceItems > 0
         /\ \A k \in 0 .. TraceItems : Ahead(s, k) \in Slots /\ (s + k) % TraceItems = Ahead(s, k)
         /\ Ahead(s, 0) = s /\ Ahead(s, TraceItems) = s
         /\ \A j, k \in 0 .. TraceItems - 1 : Ahead(s, j) = Ahead(s, k) => j = k
         /\ \A j \in 0 .. TraceItems - 1, k \in Nat :
              j + k <= TraceItems => Ahead(Ahead(s, j), k) = Ahead(s, j + k)
  <1>1. TraceItems \in Nat /\ TraceItems > 0 /\ s \in Nat /\ s < TraceItems
    BY TraceAssumption DEF Slots
  <1>2. ASSUME NEW k \in 0 .. TraceItems
        PROVE  Ahead(s, k) \in Slots /\ (s + k) % TraceItems = Ahead(s, k)
    <2>1. s + k \in Nat /\ s + k < 2 * TraceItems
      BY <1>1
    <2>2. (s + k) % TraceItems = Ahead(s, k)
      BY <2>1, AheadMod DEF Ahead
    <2>3. Ahead(s, k) \in Slots
      BY <1>1 DEF Ahead, Slots
    <2> QED
      BY <2>2, <2>3
  <1>3. Ahead(s, 0) = s /\ Ahead(s, TraceItems) = s
    BY <1>1 DEF Ahead
  <1>4. \A j, k \in 0 .. TraceItems - 1 : Ahead(s, j) = Ahead(s, k) => j = k
    BY <1>1 DEF Ahead
  <1>5. \A j \in 0 .. TraceItems - 1, k \in Nat :
          j + k <= TraceItems => Ahead(Ahead(s, j), k) = Ahead(s, j + k)
    BY <1>1 DEF Ahead
  <1> QED
    BY <1>1, <1>2, <1>3, <1>4, <1>5

\* The count of PHY_TRACE_ITEM_CNT.
LEMMA ItemCntIs ==
  ASSUME NEW s \in Slots, NEW k \in 0 .. TraceItems - 1
  PROVE  ItemCnt(s, Ahead(s, k)) = k
  <1>1. TraceItems \in Nat /\ TraceItems > 0 /\ s \in Nat /\ s < TraceItems
    BY TraceAssumption DEF Slots
  <1> DEFINE x == Ahead(s, k) + TraceItems - s
  <1>2. x \in Nat /\ x < 2 * TraceItems /\ (x = k + TraceItems \/ x = k)
    BY <1>1 DEF Ahead
  <1> HIDE DEF x
  <1>3. x % TraceItems = k
    BY <1>1, <1>2, AheadMod
  <1> QED
    BY <1>3 DEF ItemCnt, x

\* An empty ring.
LEMMA TraceInitInv == TraceInit => TraceInv
  <1> SUFFICES ASSUME TraceInit PROVE TraceInv
    OBVIOUS
  <1>1. TraceItems \in Nat /\ TraceItems > 0 /\ 0 \in Slots
    BY TraceAssumption DEF Slots
  <1>2. TraceTypes
    BY <1>1, EmptySeq DEF TraceInit, TraceTypes, AddSteps, Calm
  <1>3. StartKept /\ OneAdder
    BY DEF TraceInit, StartKept, OneAdder, Calm
  <1>4. Given = 0 /\ Held = 0
    BY DEF TraceInit, Given, Held
  <1>5. Between
    BY <1>1, <1>4 DEF Between, Ahead, TraceInit
  <1>6. Sent
    BY DEF Sent, TraceInit
  <1>7. RefusedCalls
    BY DEF RefusedCalls, TraceInit
  <1> QED
    BY <1>2, <1>3, <1>5, <1>6, <1>7 DEF TraceInv

\* A store to one half of an item.
LEMMA HalfStored ==
  ASSUME NEW p \in Nat \X Nat, NEW x \in Nat
  PROVE  /\ [p EXCEPT ![1] = x] = <<x, p[2]>> /\ [p EXCEPT ![1] = x] \in Nat \X Nat
         /\ [p EXCEPT ![2] = x] = <<p[1], x>> /\ [p EXCEPT ![2] = x] \in Nat \X Nat
  <1>1. PICK a, b \in Nat : p = <<a, b>>
    OBVIOUS
  <1>2. [<<a, b>> EXCEPT ![1] = x] = <<x, b>>
    OBVIOUS
  <1>3. [<<a, b>> EXCEPT ![2] = x] = <<a, x>>
    OBVIOUS
  <1> QED
    BY <1>1, <1>2, <1>3

\* The types, whatever the adders and the trace thread do.
LEMMA TraceTypesStep == ASSUME TraceInv, TraceNext PROVE TraceTypes'
  <1> USE DEF TraceInv, TraceTypes
  <1>1. TraceItems \in Nat /\ TraceItems > 0 /\ 0 \in Slots
    BY TraceAssumption DEF Slots
  <1>2. \A x \in Nat : x % TraceItems \in Slots
    BY <1>1 DEF Slots
  <1>3. \A s \in Slots : s \in Nat
    BY <1>1 DEF Slots
  <1>4. \A q, b : q \in Seq(Nat) => Log(q, b) \in Seq(Nat)
    BY EmptySeq DEF Log
  <1>5. \A q, b : q \in Seq(Nat \X Nat) => Log(q, b) \in Seq(Nat \X Nat)
    BY EmptySeq DEF Log
  <1>6. ASSUME NEW a \in Adders, AddBegin(a) \/ AddData(a) \/ AddLen(a) \/ AddEnd(a)
        PROVE  TraceTypes'
    <2>1. PICK r \in [step : AddSteps, end : Slots, msg : Nat] : r = add[a]
      OBVIOUS
    <2>2. r.end \in Slots /\ r.end \in Nat /\ r.msg \in Nat
      BY <1>3
    <2>3. CASE AddBegin(a)
      <3>1. [step |-> "data", end |-> end, msg |-> adds + 1] \in [step : AddSteps, end : Slots, msg : Nat]
        BY DEF AddSteps
      <3>2. add' \in [Adders -> [step : AddSteps, end : Slots, msg : Nat]]
        BY <2>3, <3>1 DEF AddBegin
      <3>3. disturbed' \in BOOLEAN /\ added' \in Seq(Nat) /\ tried' \in Seq(Nat \X Nat)
        <4>1. disturbed' = (disturbed \/ Adding # {})
          BY <2>3 DEF AddBegin
        <4>2. disturbed' \in BOOLEAN
          BY ONLY <4>1
        <4> QED
          BY <1>4, <1>5, <2>3, <4>2 DEF AddBegin
      <3> QED
        BY <2>3, <3>2, <3>3 DEF AddBegin
    <2>4. CASE AddData(a)
      <3>1. add' \in [Adders -> [step : AddSteps, end : Slots, msg : Nat]]
        BY <2>4 DEF AddData, AddSteps
      <3>2. item' = [item EXCEPT ![r.end] = [item[r.end] EXCEPT ![1] = r.msg]]
        BY <2>1, <2>4 DEF AddData
      <3>3. [item[r.end] EXCEPT ![1] = r.msg] \in Nat \X Nat
        <4>1. item[r.end] \in Nat \X Nat
          BY <2>2
        <4> QED
          BY <2>2, <4>1, HalfStored
      <3>4. item' \in [Slots -> Nat \X Nat]
        BY <2>2, <3>2, <3>3
      <3> QED
        BY <2>4, <3>1, <3>4 DEF AddData
    <2>5. CASE AddLen(a)
      <3>1. add' \in [Adders -> [step : AddSteps, end : Slots, msg : Nat]]
        BY <2>5 DEF AddLen, AddSteps
      <3>2. item' = [item EXCEPT ![r.end] = [item[r.end] EXCEPT ![2] = r.msg]]
        BY <2>1, <2>5 DEF AddLen
      <3>3. [item[r.end] EXCEPT ![2] = r.msg] \in Nat \X Nat
        <4>1. item[r.end] \in Nat \X Nat
          BY <2>2
        <4> QED
          BY <2>2, <4>1, HalfStored
      <3>4. item' \in [Slots -> Nat \X Nat]
        BY <2>2, <3>2, <3>3
      <3> QED
        BY <2>5, <3>1, <3>4 DEF AddLen
    <2>6. CASE AddEnd(a)
      <3>1. Calm \in [step : AddSteps, end : Slots, msg : Nat]
        BY <1>1 DEF Calm, AddSteps
      <3>2. add' \in [Adders -> [step : AddSteps, end : Slots, msg : Nat]]
        BY <2>6, <3>1 DEF AddEnd
      <3>3. end' \in Slots
        BY <1>2, <2>1, <2>2, <2>6 DEF AddEnd
      <3>4. disturbed' = (disturbed \/ end' = traceStart)
        BY <2>6 DEF AddEnd
      <3>5. disturbed' \in BOOLEAN
        BY ONLY <3>4
      <3>6. Append(added, r.msg) \in Seq(Nat)
        BY <2>2, AppendProperties
      <3>7. added' \in Seq(Nat) /\ tried' \in Seq(Nat \X Nat)
        BY <1>4, <1>5, <2>1, <2>6, <3>6 DEF AddEnd
      <3> QED
        BY <2>6, <3>2, <3>3, <3>5, <3>7 DEF AddEnd
    <2> QED
      BY <1>6, <2>3, <2>4, <2>5, <2>6
  <1>7. CASE DrainStart
    BY <1>7 DEF DrainStart
  <1>8. CASE DrainCount
    <2>1. ItemCnt(drain.start, end) \in Nat
      <3>1. PICK x \in Nat : x = end + TraceItems - drain.start
        BY <1>1 DEF Slots
      <3>2. x % TraceItems \in Nat
        BY <1>2, <1>3
      <3> QED
        BY <3>1, <3>2 DEF ItemCnt
    <2> QED
      BY <1>8, <2>1 DEF DrainCount
  <1>9. CASE DrainSend
    <2>1. drain.start + drain.i \in Nat
      BY <1>3
    <2>2. item[(drain.start + drain.i) % TraceItems] \in Nat \X Nat
      BY <1>2, <2>1
    <2>3. tried' \in Seq(Nat \X Nat)
      <3>1. Append(tried, item[(drain.start + drain.i) % TraceItems]) \in Seq(Nat \X Nat)
        BY <2>2, AppendProperties
      <3> QED
        <4>1. Log(Append(tried, item[(drain.start + drain.i) % TraceItems]), disturbed) \in Seq(Nat \X Nat)
          BY <1>5, <3>1
        <4>2. \/ tried' = Log(Append(tried, item[(drain.start + drain.i) % TraceItems]), disturbed)
              \/ tried' = tried
          BY <1>9 DEF DrainSend
        <4> QED
          BY <4>1, <4>2
    <2>4. itemType' \in BOOLEAN
      BY <1>9 DEF DrainSend
    <2>5. drain' \in [step : {"sleep", "count", "send"}, start : Slots, cnt : Nat, i : Nat]
      <3>1. PICK k \in Nat : drain' = [drain EXCEPT !.i = k]
        <4>1. drain.i + 1 \in Nat
          OBVIOUS
        <4> QED
          BY <1>9, <4>1 DEF DrainSend
      <3> QED
        BY <3>1
    <2> QED
      BY <1>9, <2>3, <2>4, <2>5 DEF DrainSend
  <1>10. CASE DrainDone
    <2>1. drain.start + drain.cnt \in Nat
      BY <1>3
    <2>2. traceStart' \in Slots
      BY <1>2, <1>10, <2>1 DEF DrainDone
    <2> QED
      BY <1>10, <2>2 DEF DrainDone
  <1> QED
    BY <1>6, <1>7, <1>8, <1>9, <1>10 DEF TraceNext, AddStep, DrainStep

\* The trace thread's copy of start.
LEMMA StartKeptStep == ASSUME TraceInv, TraceNext PROVE StartKept'
  <1>1. CASE AddStep
    <2>1. UNCHANGED <<drain, traceStart>>
      BY <1>1 DEF AddStep, AddBegin, AddData, AddLen, AddEnd
    <2> QED
      BY <2>1 DEF TraceInv, StartKept
  <1>2. CASE DrainStep
    BY <1>2 DEF DrainStep, DrainStart, DrainCount, DrainSend, DrainDone, TraceInv, TraceTypes, StartKept
  <1> QED
    BY <1>1, <1>2 DEF TraceNext

\* The calls that were refused.
LEMMA RefusedStep == ASSUME TraceInv, TraceNext PROVE RefusedCalls'
  <1> USE DEF RefusedCalls
  <1>1. tried \in Seq(Nat \X Nat) /\ Len(tried) \in Nat /\ refused \subseteq 1 .. Len(tried)
    BY DEF TraceInv, TraceTypes
  <1>2. CASE UNCHANGED <<tried, refused>>
    BY <1>1, <1>2
  <1>3. CASE tried' = Log(tried, disturbed') /\ refused' = LogSet(refused, disturbed')
    BY <1>1, <1>3 DEF Log, LogSet
  <1>4. ASSUME DrainSend, ~UNCHANGED <<tried, refused>>
        PROVE  RefusedCalls'
    <2> DEFINE x == item[(drain.start + drain.i) % TraceItems]
    <2>1. /\ tried' = Log(Append(tried, x), disturbed)
          /\ \/ refused' = LogSet(refused, disturbed)
             \/ refused' = LogSet(refused \cup {Len(tried) + 1}, disturbed)
      BY <1>4 DEF DrainSend
    <2> HIDE DEF x
    <2>2. CASE disturbed
      BY <2>1, <2>2 DEF Log, LogSet
    <2>3. CASE ~disturbed
      <3>1. tried' = Append(tried, x) /\ refused' \subseteq refused \cup {Len(tried) + 1}
        BY <2>1, <2>3 DEF Log, LogSet
      <3>2. Len(tried') = Len(tried) + 1
        <4>1. tried \in Seq((Nat \X Nat) \cup {x})
          BY <1>1
        <4> QED
          BY <3>1, <4>1, AppendProperties
      <3> QED
        BY <1>1, <3>1, <3>2
    <2> QED
      BY <2>2, <2>3
  <1>5. CASE AddStep
    BY <1>2, <1>3, <1>5 DEF AddStep, AddBegin, AddData, AddLen, AddEnd
  <1>6. CASE DrainStep
    BY <1>2, <1>4, <1>6 DEF DrainStep, DrainStart, DrainCount, DrainDone
  <1> QED
    BY <1>5, <1>6 DEF TraceNext

\* The state of the ring in constants: from slot s on there are h items, those that were
\* added after the g-th.
LEMMA BetweenIs ==
  ASSUME TraceTypes
  PROVE  Between <=> \E s \in Slots, g \in Nat, h \in 0 .. TraceItems - 1 :
           /\ traceStart = s /\ Given = g /\ Len(added) = g + h
           /\ end = Ahead(s, h)
           /\ \A k \in 0 .. h - 1 : item[Ahead(s, k)] = <<added[g + k + 1], added[g + k + 1]>>
           /\ drain.step = "send" => drain.i <= drain.cnt /\ drain.cnt <= h
  <1>1. Len(added) \in Nat /\ Len(tried) \in Nat /\ drain.i \in Nat /\ traceStart \in Slots
    BY DEF TraceTypes
  <1>2. TraceItems \in Nat
    BY TraceAssumption
  <1>3. ASSUME Between
        PROVE  \E s \in Slots, g \in Nat, h \in 0 .. TraceItems - 1 :
                 /\ traceStart = s /\ Given = g /\ Len(added) = g + h
                 /\ end = Ahead(s, h)
                 /\ \A k \in 0 .. h - 1 : item[Ahead(s, k)] = <<added[g + k + 1], added[g + k + 1]>>
                 /\ drain.step = "send" => drain.i <= drain.cnt /\ drain.cnt <= h
    <2>1. Given \in Nat /\ Held \in 0 .. TraceItems - 1
      BY <1>3 DEF Between
    <2>2. Len(added) = Given + Held
      BY <1>1, <2>1 DEF Held
    <2> QED
      BY <1>1, <1>3, <2>1, <2>2 DEF Between
  <1>4. ASSUME NEW s \in Slots, NEW g \in Nat, NEW h \in 0 .. TraceItems - 1,
               traceStart = s, Given = g, Len(added) = g + h, end = Ahead(s, h),
               \A k \in 0 .. h - 1 : item[Ahead(s, k)] = <<added[g + k + 1], added[g + k + 1]>>,
               drain.step = "send" => drain.i <= drain.cnt /\ drain.cnt <= h
        PROVE  Between
    <2>1. Held = h
      BY <1>1, <1>2, <1>4 DEF Held
    <2> QED
      BY <1>4, <2>1 DEF Between
  <1> QED
    BY <1>3, <1>4

\* An adder's steps keep the other adders out of the ring, or disturb it.
LEMMA OneAdderStep ==
  ASSUME TraceInv, AddStep, ~disturbed'
  PROVE  OneAdder' /\ ~disturbed
  <1>1. TraceTypes /\ \A b \in Adders : add[b] \in [step : AddSteps, end : Slots, msg : Nat]
    BY DEF TraceInv, TraceTypes
  <1>2. ~disturbed
    BY DEF AddStep, AddBegin, AddData, AddLen, AddEnd
  <1>3. OneAdder
    BY <1>2 DEF TraceInv
  <1>4. PICK a \in Adders : AddBegin(a) \/ AddData(a) \/ AddLen(a) \/ AddEnd(a)
    BY DEF AddStep
  <1>5. CASE AddBegin(a)
    <2>1. \A b \in Adders : add[b].step = "out"
      BY <1>5 DEF AddBegin, Adding
    <2>2. /\ \A b \in Adders : b # a => add'[b] = add[b]
          /\ add'[a] = [step |-> "data", end |-> end, msg |-> adds + 1] /\ end' = end
      BY <1>1, <1>5 DEF AddBegin, TraceTypes
    <2> QED
      BY <1>2, <2>1, <2>2 DEF OneAdder
  <1>6. ASSUME add[a].step # "out"
        PROVE  (\A b \in Adders : b # a => add[b].step = "out") /\ add[a].end = end
    BY <1>3, <1>6 DEF OneAdder
  <1>7. CASE AddData(a)
    <2>1. /\ \A b \in Adders : b # a => add'[b] = add[b]
          /\ add'[a].step = "len" /\ add'[a].end = add[a].end /\ add'[a].msg = add[a].msg
          /\ end' = end /\ add[a].step = "data"
      BY <1>1, <1>7 DEF AddData, TraceTypes
    <2>2. item' = [item EXCEPT ![end] = [item[end] EXCEPT ![1] = add[a].msg]]
      BY <1>6, <1>7, <2>1 DEF AddData
    <2>3. item[end] \in Nat \X Nat /\ add[a].msg \in Nat
      BY <1>1 DEF TraceTypes
    <2>4. item'[end] = [item[end] EXCEPT ![1] = add[a].msg]
      BY <1>1, <2>2 DEF TraceTypes
    <2>5. item'[end][1] = add[a].msg
      BY <2>3, <2>4, HalfStored
    <2> QED
      BY <1>2, <1>6, <2>1, <2>5 DEF OneAdder
  <1>8. CASE AddLen(a)
    <2>1. /\ \A b \in Adders : b # a => add'[b] = add[b]
          /\ add'[a].step = "end" /\ add'[a].end = add[a].end /\ add'[a].msg = add[a].msg
          /\ end' = end /\ add[a].step = "len"
      BY <1>1, <1>8 DEF AddLen, TraceTypes
    <2>2. item' = [item EXCEPT ![end] = [item[end] EXCEPT ![2] = add[a].msg]]
      BY <1>6, <1>8, <2>1 DEF AddLen
    <2>3. item[end] \in Nat \X Nat /\ add[a].msg \in Nat /\ item[end][1] = add[a].msg
      BY <1>1, <1>3, <2>1 DEF TraceTypes, OneAdder
    <2>4. item'[end] = [item[end] EXCEPT ![2] = add[a].msg]
      BY <1>1, <2>2 DEF TraceTypes
    <2>5. item'[end][1] = add[a].msg /\ item'[end][2] = add[a].msg
      BY <2>3, <2>4, HalfStored
    <2> QED
      BY <1>2, <1>6, <2>1, <2>5 DEF OneAdder
  <1>9. CASE AddEnd(a)
    <2>1. (\A b \in Adders : b # a => add'[b] = add[b]) /\ add'[a] = Calm /\ add[a].step = "end"
      BY <1>1, <1>9 DEF AddEnd, TraceTypes
    <2>2. \A b \in Adders : add'[b].step = "out"
      BY <1>6, <2>1 DEF Calm
    <2> QED
      BY <1>2, <2>2 DEF OneAdder
  <1> QED
    BY <1>4, <1>5, <1>7, <1>8, <1>9

\* An add writes behind the items the ring holds, and makes its own one of them.
LEMMA AddBetween ==
  ASSUME TraceInv, TraceTypes', AddStep, ~disturbed', itemType'
  PROVE  Between' /\ Sent'
  <1>1. TraceTypes /\ ~disturbed /\ itemType /\ UNCHANGED <<traceStart, drain>> /\ tried' = tried
    BY OneAdderStep DEF TraceInv, AddStep, AddBegin, AddData, AddLen, AddEnd, Log
  <1>2. OneAdder /\ Between /\ Sent
    BY <1>1 DEF TraceInv
  <1>3. PICK s \in Slots, g \in Nat, h \in 0 .. TraceItems - 1 :
          /\ traceStart = s /\ Given = g /\ Len(added) = g + h
          /\ end = Ahead(s, h)
          /\ \A k \in 0 .. h - 1 : item[Ahead(s, k)] = <<added[g + k + 1], added[g + k + 1]>>
          /\ drain.step = "send" => drain.i <= drain.cnt /\ drain.cnt <= h
    BY <1>1, <1>2, BetweenIs
  <1>4. Given' = g
    BY <1>1, <1>3 DEF Given
  <1>5. PICK a \in Adders : AddBegin(a) \/ AddData(a) \/ AddLen(a) \/ AddEnd(a)
    BY DEF AddStep
  <1>6. TraceItems \in Nat /\ h \in Nat /\ h < TraceItems
    BY TraceAssumption
  <1>7. CASE AddBegin(a) \/ AddData(a) \/ AddLen(a)
    <2>1. added' = added /\ end' = end
      BY <1>1, <1>7 DEF AddBegin, AddData, AddLen, Log
    <2>2. \A x \in Slots : x # end => item'[x] = item[x]
      <3>1. AddData(a) \/ AddLen(a) => add[a].end = end
        BY <1>2 DEF OneAdder, AddData, AddLen
      <3>2. CASE AddBegin(a)
        BY <3>2 DEF AddBegin
      <3>3. ASSUME NEW v, item' = [item EXCEPT ![end] = v]
            PROVE  \A x \in Slots : x # end => item'[x] = item[x]
        <4>1. item \in [Slots -> Nat \X Nat]
          BY <1>1 DEF TraceTypes
        <4> QED
          BY <3>3, <4>1
      <3>4. CASE AddData(a)
        <4>1. item' = [item EXCEPT ![end] = [item[end] EXCEPT ![1] = add[a].msg]]
          BY <3>1, <3>4 DEF AddData
        <4> QED
          BY <3>3, <4>1
      <3>5. CASE AddLen(a)
        <4>1. item' = [item EXCEPT ![end] = [item[end] EXCEPT ![2] = add[a].msg]]
          BY <3>1, <3>5 DEF AddLen
        <4> QED
          BY <3>3, <4>1
      <3> QED
        BY <1>7, <3>2, <3>4, <3>5
    <2>3. \A k \in 0 .. h - 1 : item'[Ahead(s, k)] = item[Ahead(s, k)]
      <3> SUFFICES ASSUME NEW k \in 0 .. h - 1
                   PROVE  Ahead(s, k) \in Slots /\ Ahead(s, k) # Ahead(s, h)
        BY <1>3, <2>2
      <3>1. k \in 0 .. TraceItems - 1 /\ k \in 0 .. TraceItems /\ k # h
        BY <1>6
      <3> QED
        BY <3>1, AheadFacts
    <2>4. Between'
      <3>1. \A k \in 0 .. h - 1 : item'[Ahead(s, k)] = <<added'[g + k + 1], added'[g + k + 1]>>
        BY <1>3, <2>1, <2>3
      <3>2. Held' = h /\ Held = h
        <4>1. Len(added) \in Nat
          BY <1>1 DEF TraceTypes
        <4> QED
          BY <1>3, <1>4, <1>6, <2>1, <4>1 DEF Held
      <3> QED
        BY <1>1, <1>3, <1>4, <2>1, <3>1, <3>2 DEF Between
    <2>5. Sent'
      BY <1>1, <1>2, <2>1 DEF Sent
    <2> QED
      BY <2>4, <2>5
  <1>8. CASE AddEnd(a)
    <2>1. /\ add[a].step = "end" /\ end' = (add[a].end + 1) % TraceItems /\ end' # traceStart
          /\ added' = Append(added, add[a].msg) /\ item' = item
      BY <1>1, <1>8 DEF AddEnd, Log
    <2>2. PICK m \in Nat : m = add[a].msg
      BY <1>1 DEF TraceTypes
    <2>3. add[a].end = end /\ item[end] = <<m, m>>
      <3>1. add[a].end = end /\ item[end][1] = m /\ item[end][2] = m /\ item[end] \in Nat \X Nat
        BY <1>1, <1>2, <2>1, <2>2 DEF OneAdder, TraceTypes
      <3> QED
        BY <3>1
    <2>4. end' = Ahead(s, h + 1)
      <3>1. end \in Slots /\ 1 \in 0 .. TraceItems
        BY <1>1, <1>6 DEF TraceTypes
      <3>2. end' = Ahead(end, 1)
        BY <2>1, <2>3, <3>1, AheadFacts
      <3>3. h + 1 <= TraceItems /\ 1 \in Nat
        BY <1>6
      <3> QED
        BY <1>3, <3>2, <3>3, AheadFacts
    <2>5. h + 1 \in 0 .. TraceItems - 1
      <3>1. h + 1 # TraceItems
        BY <1>3, <2>1, <2>4, AheadFacts
      <3> QED
        BY <1>6, <3>1
    <2>6. /\ added \in Seq(Nat) /\ Len(added) \in Nat /\ Len(added') = Len(added) + 1
          /\ \A n \in 1 .. Len(added) : added'[n] = added[n]
          /\ added'[Len(added) + 1] = m
      <3>1. added \in Seq(Nat) /\ added' = Append(added, m)
        BY <1>1, <2>1, <2>2 DEF TraceTypes
      <3> QED
        BY <3>1, AppendProperties
    <2>7. ASSUME NEW k \in 0 .. (h + 1) - 1
          PROVE  item'[Ahead(s, k)] = <<added'[g + k + 1], added'[g + k + 1]>>
      <3>1. CASE k = h
        <4>1. g + k + 1 = Len(added) + 1
          BY <1>3, <1>6, <3>1
        <4> QED
          BY <1>3, <2>1, <2>3, <2>6, <3>1, <4>1
      <3>2. CASE k # h
        <4>1. k \in 0 .. h - 1 /\ g + k + 1 \in 1 .. Len(added)
          BY <1>3, <1>6, <3>2
        <4>2. added'[g + k + 1] = added[g + k + 1]
          BY <2>6, <4>1
        <4> QED
          BY <1>3, <2>1, <4>1, <4>2
      <3> QED
        BY <3>1, <3>2
    <2>8. Between'
      <3>1. Held' = h + 1
        BY <1>3, <1>4, <1>6, <2>6, SMTT(60) DEF Held
      <3>2. drain.step = "send" => drain.cnt <= h + 1
        <4>1. drain.cnt \in Nat
          BY <1>1 DEF TraceTypes
        <4> QED
          BY <1>3, <1>6, <4>1
      <3> QED
        BY <1>1, <1>3, <1>4, <2>4, <2>5, <2>7, <3>1, <3>2 DEF Between
    <2>9. Sent'
      <3>1. Len(tried) \in Nat /\ Len(tried) <= Len(added)
        <4>1. drain.i \in Nat /\ drain.cnt \in Nat /\ Len(tried) \in Nat
          BY <1>1 DEF TraceTypes
        <4> QED
          BY <1>3, <1>6, <4>1 DEF Given
      <3>2. \A n \in 1 .. Len(tried) : n \in 1 .. Len(added)
        BY <2>6, <3>1
      <3> QED
        BY <1>1, <1>2, <2>6, <3>2 DEF Sent
    <2> QED
      BY <2>8, <2>9
  <1> QED
    BY <1>5, <1>7, <1>8


\* The trace thread's steps: a batch is what the ring held when it was counted, and adds
\* behind it do not change it.
LEMMA DrainBetween ==
  ASSUME TraceInv, TraceTypes', DrainStep, ~disturbed', itemType'
  PROVE  Between' /\ Sent'
  <1>1. TraceTypes /\ ~disturbed /\ UNCHANGED <<end, item, add, added, disturbed>>
    <2>1. UNCHANGED <<end, item, add, added, disturbed>>
      BY DEF DrainStep, DrainStart, DrainCount, DrainSend, DrainDone
    <2> QED
      BY <2>1 DEF TraceInv
  <1>2. itemType
    BY DEF DrainStep, DrainStart, DrainCount, DrainSend, DrainDone
  <1>3. Between /\ Sent /\ StartKept
    BY <1>1, <1>2 DEF TraceInv
  <1>4. PICK s \in Slots, g \in Nat, h \in 0 .. TraceItems - 1 :
          /\ traceStart = s /\ Given = g /\ Len(added) = g + h
          /\ end = Ahead(s, h)
          /\ \A k \in 0 .. h - 1 : item[Ahead(s, k)] = <<added[g + k + 1], added[g + k + 1]>>
          /\ drain.step = "send" => drain.i <= drain.cnt /\ drain.cnt <= h
    BY <1>1, <1>3, BetweenIs
  <1>5. PICK dr \in [step : {"sleep", "count", "send"}, start : Slots, cnt : Nat, i : Nat] : dr = drain
    BY <1>1 DEF TraceTypes
  <1>6. TraceItems \in Nat /\ h \in Nat /\ h < TraceItems /\ Len(tried) \in Nat
    BY <1>1, TraceAssumption DEF TraceTypes
  <1>7. ASSUME NEW s2 \in Slots, NEW g2 \in Nat, NEW h2 \in 0 .. TraceItems - 1,
               traceStart' = s2, Given' = g2, Len(added) = g2 + h2, end = Ahead(s2, h2),
               \A k \in 0 .. h2 - 1 : item[Ahead(s2, k)] = <<added[g2 + k + 1], added[g2 + k + 1]>>,
               drain'.step = "send" => drain'.i <= drain'.cnt /\ drain'.cnt <= h2
        PROVE  Between'
    <2>1. Held' = h2
      <3>1. Held' = Len(added) - g2
        BY <1>1, <1>7 DEF Held
      <3> QED
        BY <1>6, <1>7, <3>1
    <2> QED
      BY <1>1, <1>7, <2>1 DEF Between
  <1>8. CASE DrainStart
    <2>1. dr.step = "sleep" /\ drain' = [dr EXCEPT !.step = "count", !.start = s] /\ traceStart' = s /\ tried' = tried
      BY <1>4, <1>5, <1>8 DEF DrainStart
    <2>2. drain'.step = "count"
      BY <2>1
    <2>3. Given' = g
      BY <1>4, <1>5, <2>1, <2>2 DEF Given
    <2>4. Between'
      BY <1>4, <1>7, <2>1, <2>2, <2>3
    <2> QED
      BY <1>1, <1>3, <2>1, <2>4 DEF Sent
  <1>9. CASE DrainCount
    <2>1. /\ dr.step = "count" /\ traceStart' = s /\ tried' = tried /\ dr.start = s
          /\ drain' = [dr EXCEPT !.step = IF ItemCnt(dr.start, end) = 0 THEN "sleep" ELSE "send",
                                 !.cnt = ItemCnt(dr.start, end), !.i = 0]
      BY <1>3, <1>4, <1>5, <1>9 DEF DrainCount, StartKept
    <2>2. ItemCnt(dr.start, end) = h
      BY <1>4, <2>1, ItemCntIs
    <2>3. drain'.step \in {"sleep", "send"} /\ drain'.cnt = h /\ drain'.i = 0
      BY <2>1, <2>2
    <2>4. Given' = g
      BY <1>4, <1>5, <1>6, <2>1, <2>3 DEF Given
    <2>5. drain'.step = "send" => drain'.i <= drain'.cnt /\ drain'.cnt <= h
      BY <1>6, <2>3
    <2>6. Between'
      BY <1>4, <1>7, <2>1, <2>4, <2>5
    <2> QED
      BY <1>1, <1>3, <2>1, <2>6 DEF Sent
  <1>10. CASE DrainSend
    <2>1. /\ dr.step = "send" /\ dr.i < dr.cnt /\ traceStart' = s /\ dr.start = s
          /\ drain' = [dr EXCEPT !.i = dr.i + 1]
          /\ tried' = Log(Append(tried, item[(dr.start + dr.i) % TraceItems]), disturbed)
      BY <1>2, <1>3, <1>4, <1>5, <1>10 DEF DrainSend, StartKept
    <2>2. dr.i \in Nat /\ dr.cnt \in Nat /\ dr.i < h /\ dr.i <= TraceItems
      BY <1>4, <1>5, <1>6, <2>1
    <2>3. Ahead(s, dr.i) \in Slots /\ (s + dr.i) % TraceItems = Ahead(s, dr.i)
      BY <2>2, <1>6, AheadFacts
    <2>4. Len(tried) = g + dr.i
      BY <1>4, <1>5, <1>6, <2>1, <2>2 DEF Given
    <2>5. PICK n \in Nat : n = Len(tried) + 1
      BY <1>6
    <2>6. item[Ahead(s, dr.i)] = <<added[n], added[n]>>
      <3>1. dr.i \in 0 .. h - 1 /\ g + dr.i + 1 = n
        BY <1>6, <2>2, <2>4, <2>5
      <3> QED
        BY <1>4, <3>1
    <2>7. tried' = Append(tried, item[Ahead(s, dr.i)])
      BY <1>1, <2>1, <2>3 DEF Log
    <2>8. tried \in Seq(Nat \X Nat) /\ item[Ahead(s, dr.i)] \in Nat \X Nat
      BY <1>1, <2>3 DEF TraceTypes
    <2>9. /\ Len(tried') = n /\ tried'[n] = <<added[n], added[n]>>
          /\ \A m \in 1 .. Len(tried) : tried'[m] = tried[m]
      BY <2>5, <2>6, <2>7, <2>8, AppendProperties
    <2>10. Sent'
      <3>1. \A m \in 1 .. n : m \in 1 .. Len(tried) \/ m = n
        BY <1>6, <2>5
      <3> QED
        BY <1>1, <1>3, <2>9, <3>1 DEF Sent
    <2>11. drain'.step = "send" /\ drain'.i = dr.i + 1 /\ drain'.cnt = dr.cnt
      BY <2>1
    <2>12. Given' = g
      BY <1>6, <2>2, <2>4, <2>5, <2>9, <2>11 DEF Given
    <2>13. drain'.i <= drain'.cnt /\ drain'.cnt <= h
      BY <1>4, <1>5, <2>1, <2>2, <2>11
    <2>14. Between'
      BY <1>4, <1>7, <2>1, <2>12, <2>13
    <2> QED
      BY <2>10, <2>14
  <1>11. CASE DrainDone
    <2>1. /\ dr.step = "send" /\ dr.i = dr.cnt /\ dr.start = s /\ tried' = tried
          /\ traceStart' = (dr.start + dr.cnt) % TraceItems /\ drain' = [dr EXCEPT !.step = "sleep"]
      BY <1>3, <1>4, <1>5, <1>11 DEF DrainDone, StartKept
    <2>2. PICK c \in Nat : c = dr.cnt
      BY <1>5
    <2>3. c <= h /\ c \in 0 .. TraceItems /\ c \in 0 .. TraceItems - 1
      BY <1>4, <1>5, <1>6, <2>1, <2>2
    <2>4. traceStart' = Ahead(s, c) /\ Ahead(s, c) \in Slots
      BY <2>1, <2>2, <2>3, AheadFacts
    <2>5. drain'.step = "sleep"
      BY <2>1
    <2>6. Given' = g + c
      BY <1>4, <1>5, <1>6, <2>1, <2>2, <2>5 DEF Given
    <2>7. PICK g2 \in Nat, h2 \in 0 .. TraceItems - 1 : g2 = g + c /\ h2 = h - c
      BY <1>6, <2>3
    <2>8. Len(added) = g2 + h2 /\ h2 \in Nat /\ c + h2 = h
      BY <1>4, <1>6, <2>7
    <2>9. end = Ahead(Ahead(s, c), h2)
      <3>1. c + h2 <= TraceItems
        BY <1>6, <2>8
      <3>2. Ahead(Ahead(s, c), h2) = Ahead(s, c + h2)
        BY <2>3, <2>8, <3>1, AheadFacts
      <3> QED
        BY <1>4, <2>8, <3>2
    <2>10. ASSUME NEW k \in 0 .. h2 - 1
           PROVE  item[Ahead(Ahead(s, c), k)] = <<added[g2 + k + 1], added[g2 + k + 1]>>
      <3>1. k \in Nat /\ c + k \in 0 .. h - 1 /\ c + k <= TraceItems /\ g + (c + k) + 1 = g2 + k + 1
        BY <1>6, <2>3, <2>7
      <3>2. Ahead(Ahead(s, c), k) = Ahead(s, c + k)
        BY <2>3, <3>1, AheadFacts
      <3> QED
        BY <1>4, <3>1, <3>2
    <2>11. Between'
      BY <1>7, <2>4, <2>5, <2>6, <2>7, <2>8, <2>9, <2>10
    <2> QED
      BY <1>1, <1>3, <2>1, <2>11 DEF Sent
  <1> QED
    BY <1>8, <1>9, <1>10, <1>11 DEF DrainStep

\* Every step of either thread.
LEMMA TraceStep == TraceInv /\ [TraceNext]_traceVars => TraceInv'
  <1> SUFFICES ASSUME TraceInv, [TraceNext]_traceVars PROVE TraceInv'
    OBVIOUS
  <1>1. CASE TraceNext
    <2>1. TraceTypes' /\ StartKept' /\ RefusedCalls'
      BY <1>1, TraceTypesStep, StartKeptStep, RefusedStep
    <2>2. CASE AddStep
      <3>1. ~disturbed' => OneAdder'
        BY <2>2, OneAdderStep
      <3>2. ~disturbed' /\ itemType' => Between' /\ Sent'
        BY <2>1, <2>2, AddBetween
      <3> QED
        BY <2>1, <3>1, <3>2 DEF TraceInv
    <2>3. CASE DrainStep
      <3>1. UNCHANGED <<end, item, add, disturbed>>
        BY <2>3 DEF DrainStep, DrainStart, DrainCount, DrainSend, DrainDone
      <3>2. ~disturbed' => OneAdder'
        BY <3>1 DEF TraceInv, OneAdder
      <3>3. ~disturbed' /\ itemType' => Between' /\ Sent'
        BY <2>1, <2>3, DrainBetween
      <3> QED
        BY <2>1, <3>2, <3>3 DEF TraceInv
    <2> QED
      BY <1>1, <2>2, <2>3 DEF TraceNext
  <1>2. CASE UNCHANGED traceVars
    BY <1>2 DEF traceVars, TraceInv, TraceTypes, StartKept, RefusedCalls, OneAdder, Between, Sent, Given, Held
  <1> QED
    BY <1>1, <1>2

\* What the invariant is for.
LEMMA TraceInvFaithful == TraceInv => TraceFaithful
  <1> SUFFICES ASSUME TraceInv, ~disturbed, itemType PROVE TraceFaithful
    BY DEF TraceFaithful
  <1>1. TraceTypes /\ Between /\ Sent /\ RefusedCalls
    BY DEF TraceInv
  <1>2. PICK g \in Nat, h \in 0 .. TraceItems - 1 :
          /\ Given = g /\ Len(added) = g + h
          /\ drain.step = "send" => drain.i <= drain.cnt /\ drain.cnt <= h
    BY <1>1, BetweenIs
  <1>3. TraceItems \in Nat /\ drain.i \in Nat /\ drain.cnt \in Nat /\ Len(tried) \in Nat
    BY <1>1, TraceAssumption DEF TraceTypes
  <1>4. Len(tried) <= Len(added)
    BY <1>2, <1>3 DEF Given
  <1> QED
    BY <1>1, <1>4 DEF TraceFaithful, Sent, RefusedCalls

\* Without overlapping adds and without a full ring, the calls of sendto are given what was
\* added, whole, once and in order, refused uploads among them, for any ring size and any number of adders, although it
\* reads start, end and the items between the steps of an add (addPhyTraceItem,
\* _phyTraceCheckProcess).
THEOREM TraceIsFaithful == TraceSpec => []TraceFaithful
  BY TraceInitInv, TraceStep, TraceInvFaithful, PTL DEF TraceSpec
=============================================================================
