---------------------- MODULE TcpSerialAdapter2_proofs ----------------------
(***************************************************************************)
(* Proofs about TcpSerialAdapter2, for any number of requests, any mailbox *)
(* size, any pool of connection blocks and all faults.                     *)
(*                                                                         *)
(* The inductive invariant says of the object a and the callback counts c  *)
(* that everything the object holds was handed in (is at most top), has    *)
(* not been called back, and stands in the order of the requests: slots    *)
(* before the mailbox, the mailbox ascending.                              *)
(*                                                                         *)
(* The second part relates the object to lwIP's blocks: Linked is what     *)
(* _connected, _connecting, _timed_out and _pcb say of them, and with it   *)
(* follows which steps lose a request and which do not.                    *)
(***************************************************************************)
EXTENDS TcpSerialAdapter2, TLAPS

HeldBy(a) == Range(a.send_queue) \cup ({a.ack_slot, a.recv_slot} \ {0})

Bump(c, done) == [m \in Msgs |-> IF m \in done THEN c[m] + 1 ELSE c[m]]

Ordered(a) ==
    /\ \A i, j \in 1..Len(a.send_queue) : i < j => a.send_queue[i] < a.send_queue[j]
    /\ \A i \in 1..Len(a.send_queue) :
          /\ a.ack_slot < a.send_queue[i]
          /\ a.recv_slot < a.send_queue[i]

ObjectInv(a, c, top) ==
    /\ a \in AdapterType
    /\ Len(a.send_queue) <= QueueSize
    /\ a.ack_slot = 0 \/ a.recv_slot = 0
    /\ Ordered(a)
    /\ \A m \in HeldBy(a) : m <= top /\ c[m] = 0

CountInv(c, top) ==
    /\ c \in [Msgs -> 0..1]
    /\ \A m \in Msgs : m > top => c[m] = 0

(* Requests in e are neither held nor called back yet.                     *)
Loose(e, a, c, top) ==
    /\ e \subseteq Msgs
    /\ \A m \in e : m <= top /\ c[m] = 0 /\ m \notin HeldBy(a)

-----------------------------------------------------------------------------
(* Callbacks of requests that were not called back keep the counts at most *)
(* one.                                                                    *)
LEMMA BumpCounts ==
    ASSUME NEW c, NEW top \in Nat, NEW done \in SUBSET Msgs, CountInv(c, top),
           \A m \in done : m <= top /\ c[m] = 0
    PROVE  CountInv(Bump(c, done), top)
<1>1. \A m \in Msgs : Bump(c, done)[m] = IF m \in done THEN c[m] + 1 ELSE c[m]
  BY DEF Bump
<1>2. Bump(c, done) \in [Msgs -> 0..1]
  <2>1. \A m \in Msgs : (IF m \in done THEN c[m] + 1 ELSE c[m]) \in 0..1
    BY DEF CountInv
  <2>2. QED BY <2>1 DEF Bump
<1>3. \A m \in Msgs : m > top => Bump(c, done)[m] = 0
  BY <1>1 DEF CountInv, Msgs
<1>4. QED BY <1>2, <1>3 DEF CountInv

(* What an object holds are requests.                                      *)
LEMMA HeldAreMsgs ==
    ASSUME NEW a \in AdapterType
    PROVE  HeldBy(a) \subseteq Msgs
BY DEF HeldBy, AdapterType, Slots, Range

(* _reset() keeps the invariant: the callbacks it runs are those of        *)
(* requests it no longer holds afterwards.                                 *)
LEMMA ResetKeepsInv ==
    ASSUME NEW a, NEW c, NEW top \in Nat, NEW e,
           ObjectInv(a, c, top), CountInv(c, top), Loose(e, a, c, top)
    PROVE  /\ ObjectInv(Reset(a), Bump(c, Dropped(a) \cup e), top)
           /\ CountInv(Bump(c, Dropped(a) \cup e), top)
<1> DEFINE b == Reset(a)
           d == Dropped(a) \cup e
<1>1. a \in AdapterType
  BY DEF ObjectInv
<1>2. Dropped(a) \subseteq HeldBy(a)
  BY DEF Dropped, HeldBy, AckDropped
<1>3. d \in SUBSET Msgs /\ \A m \in d : m <= top /\ c[m] = 0
  BY <1>1, <1>2, HeldAreMsgs DEF Loose, ObjectInv
<1>4. CountInv(Bump(c, d), top)
  BY <1>3, BumpCounts
<1>5. b \in AdapterType
  <2>1. (IF a.connecting THEN TRUE ELSE a.timed_out) \in BOOLEAN
    BY <1>1 DEF AdapterType
  <2>2. 0 \in 0..(ByteMod - 1)
    BY TimeoutAssumption
  <2>3. (IF AckDropped(a) THEN 0 ELSE a.ack_slot) \in Slots
    BY <1>1 DEF AdapterType, Slots
  <2>4. <<>> \in Seq(Msgs) /\ 0 \in Slots
    BY DEF Slots
  <2>5. QED BY <1>1, <2>1, <2>2, <2>3, <2>4 DEF Reset, AdapterType
<1>6. b.send_queue = <<>> /\ b.recv_slot = 0
  BY <1>1 DEF Reset, AdapterType
<1>7. b.ack_slot # 0 => b.ack_slot = a.ack_slot /\ a.ack_slot \notin d
  <2> SUFFICES ASSUME b.ack_slot # 0
               PROVE  b.ack_slot = a.ack_slot /\ a.ack_slot \notin d
    OBVIOUS
  <2>1. ~AckDropped(a) /\ b.ack_slot = a.ack_slot
    BY <1>1 DEF Reset, AdapterType
  <2>2. a.recv_slot = 0
    BY <2>1 DEF ObjectInv
  <2>3. a.ack_slot \notin Range(a.send_queue)
    BY <1>1 DEF ObjectInv, Ordered, Range, AdapterType, Slots, Msgs
  <2>4. a.ack_slot \in HeldBy(a)
    BY <2>1 DEF HeldBy
  <2>5. QED BY <2>1, <2>2, <2>3, <2>4 DEF Dropped, Loose
<1>8. HeldBy(b) = {b.ack_slot} \ {0}
  BY <1>6 DEF HeldBy, Range
<1>9. \A m \in HeldBy(b) : m <= top /\ Bump(c, d)[m] = 0
  <2> TAKE m \in HeldBy(b)
  <2>1. m = a.ack_slot /\ m \notin d /\ m # 0
    BY <1>7, <1>8
  <2>2. m \in HeldBy(a) /\ m \in Msgs
    BY <2>1, <1>1, HeldAreMsgs DEF HeldBy
  <2>3. QED BY <2>1, <2>2 DEF ObjectInv, Bump
<1>10. Ordered(b)
  BY <1>6 DEF Ordered
<1>11. Len(b.send_queue) <= QueueSize
  BY <1>6, QueueAssumption
<1>12. QED
  BY <1>4, <1>5, <1>6, <1>9, <1>10, <1>11 DEF ObjectInv

(* _processRecvQueue() keeps the invariant: it calls back the request it   *)
(* takes out of the receive slot and no other.                             *)
LEMMA RecvQueueKeepsInv ==
    ASSUME NEW a, NEW c, NEW top \in Nat, NEW e,
           ObjectInv(a, c, top), CountInv(c, top), Loose(e, a, c, top)
    PROVE  /\ ObjectInv(ProcessRecvQueue(a), Bump(c, Finished(a) \cup e), top)
           /\ CountInv(Bump(c, Finished(a) \cup e), top)
<1> DEFINE b == ProcessRecvQueue(a)
           d == Finished(a) \cup e
<1>1. a \in AdapterType
  BY DEF ObjectInv
<1>2. Finished(a) \subseteq HeldBy(a)
  BY DEF Finished, Due, HeldBy
<1>3. d \in SUBSET Msgs /\ \A m \in d : m <= top /\ c[m] = 0
  BY <1>1, <1>2, HeldAreMsgs DEF Loose, ObjectInv
<1>4. CountInv(Bump(c, d), top)
  BY <1>3, BumpCounts
<1>5. b \in AdapterType
  BY <1>1 DEF ProcessRecvQueue, AdapterType, Slots
<1>6. b.send_queue = a.send_queue /\ b.ack_slot = a.ack_slot
      /\ b.recv_slot = IF Due(a) THEN 0 ELSE a.recv_slot
  BY <1>1 DEF ProcessRecvQueue, AdapterType
<1>7. HeldBy(b) \subseteq HeldBy(a)
  BY <1>6 DEF HeldBy
<1>8. \A m \in HeldBy(b) : m \notin d
  <2> TAKE m \in HeldBy(b)
  <2>1. m \notin e
    BY <1>7 DEF Loose
  <2>2. CASE ~Due(a)
    BY <2>1, <2>2 DEF Finished
  <2>3. CASE Due(a)
    <3>1. a.recv_slot # 0 /\ a.ack_slot = 0
      BY <2>3 DEF Due, ObjectInv
    <3>2. a.recv_slot \notin Range(a.send_queue)
      BY <1>1 DEF ObjectInv, Ordered, Range, AdapterType, Slots, Msgs
    <3>3. m # a.recv_slot
      BY <1>6, <3>1, <3>2, <2>3 DEF HeldBy
    <3>4. QED BY <2>1, <2>3, <3>3 DEF Finished
  <2>4. QED BY <2>2, <2>3
<1>9. \A m \in HeldBy(b) : m <= top /\ Bump(c, d)[m] = 0
  <2> TAKE m \in HeldBy(b)
  <2>1. m \in HeldBy(a) /\ m \in Msgs
    BY <1>7, <1>1, HeldAreMsgs
  <2>2. QED BY <2>1, <1>8 DEF ObjectInv, Bump
<1>10. Ordered(b)
  BY <1>1, <1>6 DEF ObjectInv, Ordered, AdapterType, Slots, Msgs
<1>11. QED
  BY <1>4, <1>5, <1>6, <1>9, <1>10 DEF ObjectInv

(* Only the mailbox and the two slots matter for the invariant.            *)
LEMMA SameHoldings ==
    ASSUME NEW a, NEW b, NEW c, NEW top \in Nat,
           ObjectInv(a, c, top), b \in AdapterType,
           b.send_queue = a.send_queue,
           b.ack_slot = a.ack_slot, b.recv_slot = a.recv_slot
    PROVE  ObjectInv(b, c, top)
<1>1. HeldBy(b) = HeldBy(a)
  BY DEF HeldBy
<1>2. Ordered(b)
  BY DEF ObjectInv, Ordered
<1>3. QED BY <1>1, <1>2 DEF ObjectInv

(* A request may be taken without touching the object.                     *)
LEMMA HigherTop ==
    ASSUME NEW a, NEW c, NEW top \in Nat, ObjectInv(a, c, top), CountInv(c, top)
    PROVE  ObjectInv(a, c, top + 1) /\ CountInv(c, top + 1)
<1>1. HeldBy(a) \subseteq Msgs
  BY HeldAreMsgs DEF ObjectInv
<1>2. \A m \in Msgs : (m <= top => m <= top + 1) /\ (m > top + 1 => m > top)
  BY DEF Msgs
<1>3. QED BY <1>1, <1>2 DEF ObjectInv, CountInv

(* post() of the next request keeps the invariant.                         *)
LEMMA PostKeepsInv ==
    ASSUME NEW a, NEW c, NEW top \in Nat,
           ObjectInv(a, c, top), CountInv(c, top),
           top + 1 \in Msgs, Len(a.send_queue) < QueueSize
    PROVE  LET b == [a EXCEPT !.send_queue = Append(@, top + 1)]
           IN  ObjectInv(b, c, top + 1) /\ CountInv(c, top + 1)
<1> DEFINE m == top + 1
           q == Append(a.send_queue, m)
           b == [a EXCEPT !.send_queue = q]
<1>1. a \in AdapterType /\ a.send_queue \in Seq(Msgs)
  BY DEF ObjectInv, AdapterType
<1>2. q \in Seq(Msgs) /\ Len(q) = Len(a.send_queue) + 1
      /\ \A i \in 1..Len(q) : q[i] = IF i <= Len(a.send_queue) THEN a.send_queue[i] ELSE m
  BY <1>1
<1>3. b \in AdapterType
  BY <1>1, <1>2 DEF AdapterType
<1>4. b.send_queue = q /\ b.ack_slot = a.ack_slot /\ b.recv_slot = a.recv_slot
  BY <1>1 DEF AdapterType
<1>5. Len(b.send_queue) <= QueueSize
  BY <1>1, <1>2, <1>4, QueueAssumption
<1>6. \A k \in HeldBy(a) : k \in Msgs /\ k <= top
  BY <1>1, HeldAreMsgs DEF ObjectInv
<1>7. \A i \in 1..Len(a.send_queue) : a.send_queue[i] \in HeldBy(a)
  BY <1>1 DEF HeldBy, Range
<1>8. a.ack_slot < m /\ a.recv_slot < m
  BY <1>1, <1>6 DEF HeldBy, AdapterType, Slots, Msgs
<1>9. Ordered(b)
  <2>1. \A i, j \in 1..Len(q) : i < j => q[i] < q[j]
    BY <1>1, <1>2, <1>6, <1>7 DEF ObjectInv, Ordered, Msgs
  <2>2. \A i \in 1..Len(q) : a.ack_slot < q[i] /\ a.recv_slot < q[i]
    BY <1>1, <1>2, <1>8 DEF ObjectInv, Ordered
  <2>3. QED BY <1>4, <2>1, <2>2 DEF Ordered
<1>10. HeldBy(b) \subseteq HeldBy(a) \cup {m}
  BY <1>1, <1>2, <1>4 DEF HeldBy, Range
<1>11. c[m] = 0
  BY DEF CountInv
<1>12. \A k \in HeldBy(b) : k <= m /\ c[k] = 0
  BY <1>6, <1>10, <1>11 DEF ObjectInv, Msgs
<1>13. ObjectInv(b, c, m)
  BY <1>3, <1>4, <1>5, <1>9, <1>12 DEF ObjectInv
<1>14. QED BY <1>13, HigherTop

(* _processSendQueue() keeps the invariant: the oldest request of the      *)
(* mailbox goes to the empty ack slot, or is lost.                         *)
LEMMA SendQueueKeepsInv ==
    ASSUME NEW a, NEW c, NEW top \in Nat, NEW u \in [Pcbs -> Int], NEW ok \in BOOLEAN,
           ObjectInv(a, c, top), WriteOutcome(a, ok)
    PROVE  ObjectInv(SendQueue(a, u, ok), c, top)
<1> DEFINE b == SendQueue(a, u, ok)
           q == a.send_queue
<1>1. a \in AdapterType /\ q \in Seq(Msgs)
  BY DEF ObjectInv, AdapterType
<1>2. CASE ~Fetches(a)
  BY <1>2 DEF SendQueue
<1>3. CASE Fetches(a)
  <2>1. q # <<>> /\ a.ack_slot = 0 /\ a.recv_slot = 0
    BY <1>3 DEF Fetches
  <2>2. /\ Len(q) > 0 /\ Head(q) = q[1] /\ Head(q) \in Msgs
        /\ Tail(q) \in Seq(Msgs) /\ Len(Tail(q)) = Len(q) - 1
        /\ \A i \in 1..Len(Tail(q)) : Tail(q)[i] = q[i + 1]
    BY <1>1, <2>1
  <2>3. Head(q) \in Slots /\ <<>> \in Seq(Msgs) /\ 0 \in 0..(ByteMod - 1)
    BY <2>2, TimeoutAssumption DEF Slots
  <2>4. /\ b \in AdapterType
        /\ b.send_queue = Tail(q) /\ b.recv_slot = 0
        /\ b.ack_slot \in {0, Head(q)}
    <3>1. CASE ok
      <4>1. a.pcb \in Pcbs
        BY <1>1, <1>3, <3>1 DEF WriteOutcome, Writable, AdapterType
      <4>2. PICK w \in Int : w = WriteLen(a, u)
        BY <2>2, <4>1, LengthAssumption, BufferAssumption DEF WriteLen
      <4>3. b = [a EXCEPT !.send_queue = Tail(q), !.ack_slot = Head(q),
                          !.ptr = w, !.acked = 0, !.recv_buf = <<>>,
                          !.late = FALSE, !.timeout_count = 0]
        BY <1>3, <3>1, <4>2 DEF SendQueue
      <4>4. b \in AdapterType
        <5>1. PICK t \in Seq(Msgs), h \in Slots, r \in Seq(Msgs), z \in 0..(ByteMod - 1), x \in Nat :
                 t = Tail(q) /\ h = Head(q) /\ r = <<>> /\ z = 0 /\ x = 0
          BY <2>2, <2>3
        <5>2. b = [a EXCEPT !.send_queue = t, !.ack_slot = h, !.ptr = w, !.acked = x,
                            !.recv_buf = r, !.late = FALSE, !.timeout_count = z]
          BY <4>3, <5>1
        <5>3. QED BY <1>1, <5>2 DEF AdapterType
      <4>5. /\ b.send_queue = Tail(q) /\ b.recv_slot = a.recv_slot
            /\ b.ack_slot = Head(q)
        BY <1>1, <4>3 DEF AdapterType
      <4>6. QED BY <2>1, <4>4, <4>5
    <3>2. CASE ~ok
      <4>1. (IF Writable(a.pcb) THEN 0 ELSE a.timeout_count) \in 0..(ByteMod - 1)
        BY <1>1, <2>3 DEF AdapterType
      <4>2. b = [a EXCEPT !.send_queue = Tail(q),
                          !.timeout_count = IF Writable(a.pcb) THEN 0 ELSE @]
        BY <1>3, <3>2 DEF SendQueue
      <4>3. QED BY <1>1, <2>1, <2>2, <4>1, <4>2 DEF AdapterType
    <3>3. QED BY <3>1, <3>2
  <2>5. HeldBy(b) \subseteq HeldBy(a)
    BY <1>1, <2>2, <2>4 DEF HeldBy, Range
  <2>6. Ordered(b)
    <3>1. \A i \in 1..Len(Tail(q)) : i + 1 \in 1..Len(q) /\ 1 < i + 1
      BY <1>1, <2>2
    <3>2. 1 \in 1..Len(q)
      BY <1>1, <2>2
    <3>3. \A i, j \in 1..Len(Tail(q)) : i < j => Tail(q)[i] < Tail(q)[j]
      BY <1>1, <2>2, <3>1 DEF ObjectInv, Ordered
    <3>4. \A i \in 1..Len(Tail(q)) : 0 < Tail(q)[i] /\ Head(q) < Tail(q)[i]
      BY <1>1, <2>1, <2>2, <3>1, <3>2 DEF ObjectInv, Ordered
    <3>5. QED BY <2>4, <3>3, <3>4 DEF Ordered
  <2>7. Len(b.send_queue) <= QueueSize
    BY <1>1, <2>2, <2>4, QueueAssumption DEF ObjectInv
  <2>8. QED BY <2>4, <2>5, <2>6, <2>7 DEF ObjectInv
<1>4. QED BY <1>2, <1>3

(* Crediting acknowledged bytes keeps the invariant: at most the request   *)
(* moves from the ack slot to the receive slot.                            *)
LEMMA AcknowledgeKeepsInv ==
    ASSUME NEW a, NEW c, NEW top \in Nat, NEW n \in Nat, ObjectInv(a, c, top)
    PROVE  ObjectInv(Acknowledge(a, n), c, top)
<1> DEFINE b == Acknowledge(a, n)
<1>1. a \in AdapterType
  BY DEF ObjectInv
<1>2. CASE a.ack_slot = 0
  BY <1>2 DEF Acknowledge
<1>3. CASE a.ack_slot # 0
  <2>1. a.recv_slot = 0
    BY <1>3 DEF ObjectInv
  <2>2. /\ b \in AdapterType /\ b.send_queue = a.send_queue
        /\ \/ b.recv_slot = a.ack_slot /\ b.ack_slot = 0
           \/ b.recv_slot = 0 /\ b.ack_slot = a.ack_slot
    <3>1. a.acked + n \in Nat /\ 0 \in Slots /\ a.ack_slot \in Slots
      BY <1>1 DEF AdapterType, Slots
    <3>2. CASE a.acked + n >= Length[a.ack_slot]
      <4>1. b = [a EXCEPT !.acked = @ + n, !.recv_slot = a.ack_slot, !.ack_slot = 0]
        BY <1>3, <3>2 DEF Acknowledge
      <4>2. QED BY <1>1, <3>1, <4>1 DEF AdapterType
    <3>3. CASE ~(a.acked + n >= Length[a.ack_slot])
      <4>1. b = [a EXCEPT !.acked = @ + n]
        BY <1>3, <3>3 DEF Acknowledge
      <4>2. QED BY <1>1, <2>1, <3>1, <4>1 DEF AdapterType
    <3>4. QED BY <3>2, <3>3
  <2>3. HeldBy(b) = HeldBy(a)
    BY <2>1, <2>2 DEF HeldBy
  <2>4. Ordered(b)
    BY <2>1, <2>2 DEF ObjectInv, Ordered
  <2>5. QED BY <2>2, <2>3, <2>4 DEF ObjectInv
<1>4. QED BY <1>2, <1>3

-----------------------------------------------------------------------------
(* The inductive invariant.  A request waiting in post() is taken but not  *)
(* yet handed to the object.                                               *)
Top == IF app = "blocked" THEN posted - 1 ELSE posted

ClientInv ==
    /\ app \in {"idle", "blocked", "halted"}
    /\ posted \in 0..N
    /\ app = "blocked" => posted > 0 /\ Length[posted] > 0
    /\ refused \subseteq Msgs

NetworkInv ==
    /\ tcp \in [Pcbs -> PcbStates]
    /\ unacked \in [Pcbs -> Int]
    /\ owed \in [Pcbs -> Seq(Msgs)]
    /\ wire \in [Pcbs -> Seq(Msgs)]

Inv ==
    /\ ClientInv
    /\ NetworkInv
    /\ ObjectInv(adapter, calls, Top)
    /\ CountInv(calls, Top)

LEMMA TopIsNat == ASSUME ClientInv PROVE Top \in Nat /\ Top <= posted
BY NAssumption DEF ClientInv, Top

LEMMA NothingLoose == \A a, c, top : Loose({}, a, c, top)
BY DEF Loose

LEMMA CalledIsBump == ASSUME NEW done, Called(done) PROVE calls' = Bump(calls, done)
BY DEF Called, Bump

(* The writes of _processSendQueue() leave the network well typed.         *)
LEMMA TransmitTyped ==
    ASSUME NEW a \in AdapterType, NEW u \in [Pcbs -> Int], NEW o \in [Pcbs -> Seq(Msgs)],
           NEW ok \in BOOLEAN, WriteOutcome(a, ok), Transmit(a, u, o, ok)
    PROVE  unacked' \in [Pcbs -> Int] /\ owed' \in [Pcbs -> Seq(Msgs)]
<1>1. CASE ~(Fetches(a) /\ ok)
  BY <1>1 DEF Transmit
<1>2. CASE Fetches(a) /\ ok
  <2>1. a.pcb \in Pcbs
    BY <1>2 DEF WriteOutcome, Writable, AdapterType
  <2>2. Head(a.send_queue) \in Msgs
    BY <1>2 DEF Fetches, AdapterType
  <2>3. WriteLen(a, u) \in Int
    BY <2>1, <2>2, LengthAssumption, BufferAssumption DEF WriteLen
  <2>4. unacked' = [u EXCEPT ![a.pcb] = @ + WriteLen(a, u)]
    BY <1>2 DEF Transmit
  <2>5. unacked' \in [Pcbs -> Int]
    BY <2>1, <2>3, <2>4
  <2>6. [i \in 1..ReplyLen[Head(a.send_queue)] |-> Head(a.send_queue)] \in Seq(Msgs)
    <3>1. PICK h \in Msgs : h = Head(a.send_queue)
      BY <2>2
    <3>2. PICK r \in Nat : r = ReplyLen[h]
      BY LengthAssumption
    <3>3. [i \in 1..r |-> h] \in Seq(Msgs)
      OBVIOUS
    <3>4. QED BY <3>1, <3>2, <3>3
  <2>7. o[a.pcb] \o [i \in 1..ReplyLen[Head(a.send_queue)] |-> Head(a.send_queue)] \in Seq(Msgs)
    BY <2>1, <2>6
  <2>8. \/ owed' = [o EXCEPT ![a.pcb] =
                      @ \o [i \in 1..ReplyLen[Head(a.send_queue)] |-> Head(a.send_queue)]]
        \/ owed' = [o EXCEPT ![a.pcb] = @]
    BY <1>2 DEF Transmit
  <2>9. owed' \in [Pcbs -> Seq(Msgs)]
    BY <2>1, <2>7, <2>8
  <2>10. QED BY <2>5, <2>9
<1>3. QED BY <1>1, <1>2

LEMMA InitInv == Init => Inv
<1> SUFFICES ASSUME Init PROVE Inv
  OBVIOUS
<1>1. adapter \in AdapterType
  <2>1. <<>> \in Seq(Msgs) /\ 0 \in Slots /\ 0 \in 0..(ByteMod - 1) /\ 0 \in Int /\ 0 \in Nat
    BY TimeoutAssumption DEF Slots
  <2>2. QED BY <2>1 DEF Init, AdapterType
<1>2. adapter.send_queue = <<>> /\ adapter.ack_slot = 0 /\ adapter.recv_slot = 0
  BY DEF Init
<1>3. HeldBy(adapter) = {}
  BY <1>2 DEF HeldBy, Range
<1>4. Ordered(adapter) /\ Len(adapter.send_queue) <= QueueSize
  BY <1>2, QueueAssumption DEF Ordered
<1>5. ObjectInv(adapter, calls, Top)
  BY <1>1, <1>2, <1>3, <1>4 DEF ObjectInv
<1>6. CountInv(calls, Top)
  BY DEF Init, CountInv
<1>7. ClientInv /\ NetworkInv
  BY NAssumption DEF Init, ClientInv, NetworkInv, PcbStates, Active
<1>8. QED BY <1>5, <1>6, <1>7 DEF Inv

(* The part of send() after the mailbox: a is the object with request m    *)
(* posted (or m is empty and answered at once).                            *)
LEMMA SubmitKeepsInv ==
    ASSUME NEW a, NEW m \in Msgs, NEW t \in [Pcbs -> PcbStates],
           ObjectInv(a, calls, m), CountInv(calls, m), refused \subseteq Msgs,
           Length[m] = 0 => Loose({m}, a, calls, m),
           Submit(a, m, t)
    PROVE  /\ ObjectInv(adapter', calls', m) /\ CountInv(calls', m)
           /\ tcp' \in [Pcbs -> PcbStates]
           /\ refused' \subseteq Msgs
<1> DEFINE e == IF Length[m] = 0 THEN {m} ELSE {}
<1>1. m \in Nat /\ a \in AdapterType
  BY DEF Msgs, ObjectInv
<1>2. Loose(e, a, calls, m)
  BY NothingLoose
<1>3. CASE a.connected \/ a.connecting
  <2>1. /\ adapter' = ProcessRecvQueue(a)
        /\ calls' = Bump(calls, Finished(a) \cup e)
        /\ tcp' = t /\ refused' = refused
    BY <1>3, CalledIsBump DEF Submit
  <2>2. QED BY <1>1, <1>2, <2>1, RecvQueueKeepsInv
<1>4. CASE ~(a.connected \/ a.connecting) /\ a.pcb # NULL /\ t[a.pcb] = "closed"
  <2> DEFINE b == [a EXCEPT !.connecting = TRUE]
  <2>1. /\ adapter' = ProcessRecvQueue(b)
        /\ calls' = Bump(calls, Finished(a) \cup e)
        /\ refused' = refused
        /\ tcp' = [t EXCEPT ![a.pcb] = "synsent"] \/ tcp' = t
    BY <1>4, CalledIsBump DEF Submit
  <2>2. b \in AdapterType
    BY <1>1 DEF AdapterType
  <2>3. b.send_queue = a.send_queue /\ b.ack_slot = a.ack_slot /\ b.recv_slot = a.recv_slot
        /\ b.late = a.late /\ b.recv_buf = a.recv_buf
    BY <1>1 DEF AdapterType
  <2>4. ObjectInv(b, calls, m)
    BY <1>1, <2>2, <2>3, SameHoldings
  <2>5. Finished(b) = Finished(a) /\ Loose(e, b, calls, m)
    BY <1>2, <2>3 DEF Finished, Due, Loose, HeldBy
  <2>6. tcp' \in [Pcbs -> PcbStates]
    BY <2>1 DEF PcbStates, Active
  <2>7. QED BY <1>1, <2>1, <2>4, <2>5, <2>6, RecvQueueKeepsInv
<1>5. CASE /\ ~(a.connected \/ a.connecting)
           /\ ~(a.pcb # NULL /\ t[a.pcb] = "closed")
  <2>1. /\ adapter' = Reset(a)
        /\ calls' = Bump(calls, Dropped(a) \cup e)
        /\ tcp' = t /\ refused' = refused \cup {m}
    BY <1>5, CalledIsBump DEF Submit
  <2>2. QED BY <1>1, <1>2, <2>1, ResetKeepsInv
<1>6. QED BY <1>3, <1>4, <1>5

(* One step of the client, a handler, lwIP or the clock.                   *)
LEMMA NextKeepsInv == Inv /\ [Next]_vars => Inv'
<1> SUFFICES ASSUME Inv, [Next]_vars PROVE Inv'
  OBVIOUS
<1> USE DEF Inv
<1>a. /\ Top \in Nat /\ posted \in Nat /\ adapter \in AdapterType
      /\ 0 \in Slots /\ 0 \in 0..(ByteMod - 1)
  BY TopIsNat, NAssumption, TimeoutAssumption DEF ObjectInv, ClientInv, Slots
<1>1. CASE SendNoMem
  <2> DEFINE b == [adapter EXCEPT !.timeout_count = 0]
  <2>1. /\ adapter' = b /\ calls' = calls /\ posted' = posted + 1
        /\ posted + 1 \in Msgs /\ Top = posted /\ Top' = Top + 1
        /\ app' \in {"idle", "halted"}
    BY <1>1, <1>a, NAssumption DEF SendNoMem, Top, ClientInv, Msgs
  <2>2. b \in AdapterType /\ b.send_queue = adapter.send_queue
        /\ b.ack_slot = adapter.ack_slot /\ b.recv_slot = adapter.recv_slot
    BY <1>a DEF AdapterType
  <2>3. ObjectInv(b, calls, Top)
    BY <1>a, <2>2, SameHoldings
  <2>4. ObjectInv(adapter', calls', Top') /\ CountInv(calls', Top')
    BY <1>a, <2>1, <2>3, HigherTop
  <2>5. ClientInv'
    BY <1>1, <2>1 DEF SendNoMem, ClientInv, Msgs
  <2>6. NetworkInv'
    BY <1>1 DEF SendNoMem, NetworkInv, network
  <2>7. QED BY <2>4, <2>5, <2>6
<1>2. CASE Send
  <2> DEFINE new == adapter.pcb = NULL
             m == posted + 1
             Obj(p) == IF new THEN CreateConnection(adapter, p) ELSE adapter
             Net(p) == IF new THEN [tcp EXCEPT ![p] = "closed"] ELSE tcp
             Posted(p) == [Obj(p) EXCEPT !.send_queue = Append(@, m)]
  <2>1. /\ app = "idle" /\ Top = posted /\ posted' = m
        /\ m \in Msgs /\ m \in Nat
    BY <1>2, <1>a, NAssumption DEF Send, Top, Msgs
  <2>2. PICK p \in Pcbs :
          /\ \/ /\ Length[m] > 0 /\ Len(Obj(p).send_queue) = QueueSize
                /\ app' = "blocked"
                /\ adapter' = Obj(p) /\ tcp' = Net(p)
                /\ UNCHANGED <<calls, refused>>
             \/ /\ Length[m] > 0 /\ Len(Obj(p).send_queue) < QueueSize
                /\ Submit(Posted(p), m, Net(p))
                /\ UNCHANGED app
             \/ /\ Length[m] = 0
                /\ Submit(Obj(p), m, Net(p))
                /\ UNCHANGED app
          /\ unacked' = IF new THEN [unacked EXCEPT ![p] = 0] ELSE unacked
    BY <1>2, <1>a DEF Send, AdapterType
  <2>3. owed' = owed /\ wire' = wire
    BY <1>2 DEF Send
  <2> HIDE DEF m
  <2>4. /\ Obj(p) \in AdapterType /\ Obj(p).send_queue = adapter.send_queue
        /\ Obj(p).ack_slot = adapter.ack_slot /\ Obj(p).recv_slot = adapter.recv_slot
    BY <1>a DEF CreateConnection, AdapterType
  <2>5. ObjectInv(Obj(p), calls, posted)
    BY <1>a, <2>1, <2>4, SameHoldings
  <2>6. Net(p) \in [Pcbs -> PcbStates]
    BY DEF NetworkInv, PcbStates, Active
  <2>7. unacked' \in [Pcbs -> Int]
    BY <2>2 DEF NetworkInv
  <2>8. CASE /\ Length[m] > 0 /\ Len(Obj(p).send_queue) = QueueSize
             /\ app' = "blocked"
             /\ adapter' = Obj(p) /\ tcp' = Net(p)
             /\ UNCHANGED <<calls, refused>>
    <3>1. Top' = posted
      BY <1>a, <2>1, <2>8 DEF Top, m
    <3>2. ObjectInv(adapter', calls', Top') /\ CountInv(calls', Top')
      BY <2>1, <2>5, <2>8, <3>1
    <3>3. ClientInv'
      BY <1>a, <2>1, <2>8 DEF ClientInv, Msgs, m
    <3>4. NetworkInv'
      BY <2>3, <2>6, <2>7, <2>8 DEF NetworkInv
    <3>5. QED BY <3>2, <3>3, <3>4
  <2>9. ASSUME \/ /\ Length[m] > 0 /\ Len(Obj(p).send_queue) < QueueSize
                  /\ Submit(Posted(p), m, Net(p))
                  /\ UNCHANGED app
               \/ /\ Length[m] = 0
                  /\ Submit(Obj(p), m, Net(p))
                  /\ UNCHANGED app
        PROVE  Inv'
    <3>1. ObjectInv(adapter', calls', m) /\ CountInv(calls', m)
          /\ tcp' \in [Pcbs -> PcbStates] /\ refused' \subseteq Msgs
      <4>1. CASE Length[m] > 0
        <5>1. Len(Obj(p).send_queue) < QueueSize /\ Submit(Posted(p), m, Net(p))
          BY <2>9, <4>1
        <5>2. ObjectInv(Posted(p), calls, m) /\ CountInv(calls, m)
          BY <1>a, <2>1, <2>5, <5>1, PostKeepsInv DEF m
        <5>3. (Length[m] = 0 => Loose({m}, Posted(p), calls, m)) /\ refused \subseteq Msgs
          BY <4>1 DEF ClientInv
        <5> HIDE DEF Posted, Net
        <5>4. QED BY <2>1, <2>6, <5>1, <5>2, <5>3, SubmitKeepsInv
      <4>2. CASE Length[m] = 0
        <5>1. Submit(Obj(p), m, Net(p))
          BY <2>9, <4>2
        <5>2. ObjectInv(Obj(p), calls, m) /\ CountInv(calls, m)
          BY <1>a, <2>1, <2>5, HigherTop DEF m
        <5>3. Loose({m}, Obj(p), calls, m)
          <6>1. calls[m] = 0
            BY <1>a, <2>1 DEF CountInv, m
          <6>2. \A k \in HeldBy(Obj(p)) : k <= posted
            BY <2>5 DEF ObjectInv
          <6>3. m \notin HeldBy(Obj(p))
            BY <1>a, <6>2 DEF m
          <6>4. QED BY <2>1, <6>1, <6>3 DEF Loose
        <5>4. refused \subseteq Msgs
          BY DEF ClientInv
        <5> HIDE DEF Obj, Net
        <5>5. QED BY <2>1, <2>6, <5>1, <5>2, <5>3, <5>4, SubmitKeepsInv
      <4>3. Length[m] \in Nat
        BY <2>1, LengthAssumption
      <4>4. QED BY <4>1, <4>2, <4>3
    <3>2. app' = "idle" /\ Top' = m
      BY <2>1, <2>9 DEF Top
    <3>3. ClientInv'
      BY <2>1, <3>1, <3>2 DEF ClientInv, Msgs
    <3>4. NetworkInv'
      BY <2>3, <2>7, <3>1 DEF NetworkInv
    <3>5. QED BY <3>1, <3>2, <3>3, <3>4
  <2>10. QED BY <2>2, <2>8, <2>9
<1>3. CASE SendResume
  <2> DEFINE a == [adapter EXCEPT !.send_queue = Append(@, posted)]
  <2>1. /\ app = "blocked" /\ app' = "idle" /\ posted' = posted
        /\ Top + 1 = posted /\ Top' = posted /\ posted \in Msgs
        /\ Len(adapter.send_queue) < QueueSize
        /\ unacked' = unacked /\ owed' = owed /\ wire' = wire
    BY <1>3, <1>a DEF SendResume, Top, ClientInv, Msgs
  <2>2. ObjectInv(a, calls, posted) /\ CountInv(calls, posted)
    BY <1>a, <2>1, PostKeepsInv
  <2>3. Length[posted] > 0
    BY <2>1 DEF ClientInv
  <2>4. Submit(a, posted, tcp)
    BY <1>3 DEF SendResume
  <2>5. ObjectInv(adapter', calls', posted) /\ CountInv(calls', posted)
        /\ tcp' \in [Pcbs -> PcbStates] /\ refused' \subseteq Msgs
    <3>1. Length[posted] = 0 => Loose({posted}, a, calls, posted)
      BY <2>3
    <3>2. tcp \in [Pcbs -> PcbStates] /\ refused \subseteq Msgs
      BY DEF NetworkInv, ClientInv
    <3> HIDE DEF a
    <3>3. QED BY <2>1, <2>2, <2>4, <3>1, <3>2, SubmitKeepsInv
  <2>6. ClientInv' /\ NetworkInv'
    BY <1>a, <2>1, <2>5 DEF ClientInv, NetworkInv
  <2>7. QED BY <2>1, <2>5, <2>6
<1>4. ASSUME NEW p \in Pcbs, TcpConnected(p)
      PROVE  Inv'
  <2> DEFINE b == [adapter EXCEPT !.connected = TRUE, !.connecting = FALSE,
                                  !.timed_out = FALSE, !.timeout_count = 0]
  <2>1. adapter' = b /\ UNCHANGED <<app, posted, calls, refused, unacked, owed, wire>>
        /\ tcp' = [tcp EXCEPT ![p] = "open"]
    BY <1>4 DEF TcpConnected
  <2>2. b \in AdapterType /\ b.send_queue = adapter.send_queue
        /\ b.ack_slot = adapter.ack_slot /\ b.recv_slot = adapter.recv_slot
    BY <1>a DEF AdapterType
  <2>3. ObjectInv(b, calls, Top)
    BY <1>a, <2>2, SameHoldings
  <2>4. Top' = Top /\ ClientInv'
    BY <2>1 DEF Top, ClientInv
  <2>5. NetworkInv'
    BY <2>1 DEF NetworkInv, PcbStates, Active
  <2>6. QED BY <2>1, <2>3, <2>4, <2>5
<1>5. ASSUME NEW p \in Pcbs, TcpSent(p)
      PROVE  Inv'
  <2> DEFINE a == [adapter EXCEPT !.timed_out = FALSE]
  <2>1. PICK n \in 1..unacked[p], ok \in BOOLEAN :
          LET u == [unacked EXCEPT ![p] = @ - n]
              o == IF u[p] = 0 THEN [owed EXCEPT ![p] = <<>>] ELSE owed
          IN  /\ WriteOutcome(a, ok)
              /\ adapter' = Acknowledge(SendQueue(a, u, ok), n)
              /\ Transmit(a, u, o, ok)
              /\ wire' = [wire EXCEPT ![p] = @ \o owed[p]] \/ wire' = wire
    BY <1>5 DEF TcpSent
  <2> DEFINE u == [unacked EXCEPT ![p] = @ - n]
             o == IF u[p] = 0 THEN [owed EXCEPT ![p] = <<>>] ELSE owed
  <2>2. UNCHANGED <<app, posted, calls, refused, tcp>>
    BY <1>5 DEF TcpSent
  <2>3. a \in AdapterType /\ a.send_queue = adapter.send_queue
        /\ a.ack_slot = adapter.ack_slot /\ a.recv_slot = adapter.recv_slot
    BY <1>a DEF AdapterType
  <2>4. n \in Nat /\ u \in [Pcbs -> Int]
    BY DEF NetworkInv
  <2>5. o \in [Pcbs -> Seq(Msgs)]
    <3>1. <<>> \in Seq(Msgs)
      OBVIOUS
    <3>2. QED BY <3>1 DEF NetworkInv
  <2>6. ObjectInv(a, calls, Top)
    BY <1>a, <2>3, SameHoldings
  <2>7. WriteOutcome(a, ok) /\ adapter' = Acknowledge(SendQueue(a, u, ok), n)
        /\ Transmit(a, u, o, ok)
    BY <2>1
  <2> HIDE DEF a, u, o
  <2>8. ObjectInv(SendQueue(a, u, ok), calls, Top)
    BY <1>a, <2>4, <2>6, <2>7, SendQueueKeepsInv
  <2>9. ObjectInv(adapter', calls, Top)
    BY <1>a, <2>4, <2>7, <2>8, AcknowledgeKeepsInv
  <2>10. unacked' \in [Pcbs -> Int] /\ owed' \in [Pcbs -> Seq(Msgs)]
    BY <2>3, <2>4, <2>5, <2>7, TransmitTyped
  <2>11. wire' \in [Pcbs -> Seq(Msgs)]
    <3>1. wire[p] \o owed[p] \in Seq(Msgs)
      BY DEF NetworkInv
    <3>2. QED BY <2>1, <3>1 DEF NetworkInv
  <2>12. Top' = Top /\ ClientInv' /\ NetworkInv'
    BY <2>2, <2>10, <2>11 DEF Top, ClientInv, NetworkInv
  <2>13. QED BY <2>2, <2>9, <2>12
<1>6. ASSUME NEW p \in Pcbs, TcpRecv(p)
      PROVE  Inv'
  <2> DEFINE a == [adapter EXCEPT !.timeout_count = 0, !.timed_out = FALSE]
             B(n) == IF a.recv_slot = 0 THEN a
                     ELSE IF Len(a.recv_buf) + n <= RcvBuf
                     THEN [a EXCEPT !.recv_buf = @ \o SubSeq(wire[p], 1, n), !.late = FALSE]
                     ELSE [a EXCEPT !.late = TRUE]
  <2>1. PICK n \in 1..Len(wire[p]) :
          /\ adapter' = ProcessRecvQueue(B(n))
          /\ Called(Finished(B(n)))
          /\ wire' = [wire EXCEPT ![p] = SubSeq(@, n + 1, Len(@))]
    BY <1>6 DEF TcpRecv
  <2> DEFINE b == B(n)
  <2>2. UNCHANGED <<app, posted, refused, tcp, unacked, owed>>
    BY <1>6 DEF TcpRecv
  <2>3. wire[p] \in Seq(Msgs) /\ Len(wire[p]) \in Nat
    BY DEF NetworkInv
  <2>4. SubSeq(wire[p], 1, n) \in Seq(Msgs) /\ SubSeq(wire[p], n + 1, Len(wire[p])) \in Seq(Msgs)
    BY <2>3
  <2>5. a \in AdapterType /\ a.send_queue = adapter.send_queue
        /\ a.ack_slot = adapter.ack_slot /\ a.recv_slot = adapter.recv_slot
        /\ a.recv_buf \in Seq(Msgs)
    BY <1>a DEF AdapterType
  <2>6. b \in AdapterType /\ b.send_queue = adapter.send_queue
        /\ b.ack_slot = adapter.ack_slot /\ b.recv_slot = adapter.recv_slot
    <3>1. PICK r \in Seq(Msgs) : r = a.recv_buf \o SubSeq(wire[p], 1, n)
      <4> HIDE DEF a
      <4>1. a.recv_buf \o SubSeq(wire[p], 1, n) \in Seq(Msgs)
        BY <2>4, <2>5
      <4>2. QED BY <4>1
    <3>2. \/ b = a
          \/ b = [a EXCEPT !.recv_buf = r, !.late = FALSE]
          \/ b = [a EXCEPT !.late = TRUE]
      BY <3>1
    <3> HIDE DEF a, b
    <3>3. QED BY <2>5, <3>2 DEF AdapterType
  <2>7. ObjectInv(b, calls, Top)
    BY <1>a, <2>6, SameHoldings
  <2>8. adapter' = ProcessRecvQueue(b) /\ calls' = Bump(calls, Finished(b) \cup {})
    BY <2>1, CalledIsBump
  <2> HIDE DEF b
  <2>9. ObjectInv(adapter', calls', Top) /\ CountInv(calls', Top)
    BY <1>a, <2>7, <2>8, NothingLoose, RecvQueueKeepsInv
  <2>10. wire' \in [Pcbs -> Seq(Msgs)]
    BY <2>1, <2>4 DEF NetworkInv
  <2>11. Top' = Top /\ ClientInv' /\ NetworkInv'
    BY <2>2, <2>10 DEF Top, ClientInv, NetworkInv
  <2>12. QED BY <2>9, <2>11
<1>7. ASSUME NEW p \in Pcbs, TcpRecvClosed(p)
      PROVE  Inv'
  <2> DEFINE a == [adapter EXCEPT !.timeout_count = 0, !.timed_out = FALSE,
                                  !.connected = FALSE]
  <2>1. /\ adapter' = Reset(a)
        /\ calls' = Bump(calls, Dropped(a) \cup {})
        /\ tcp' = [tcp EXCEPT ![p] = "closewait"]
        /\ owed' = [owed EXCEPT ![p] = <<>>]
        /\ UNCHANGED <<app, posted, refused, unacked, wire>>
    BY <1>7, CalledIsBump DEF TcpRecvClosed
  <2>2. a \in AdapterType /\ a.send_queue = adapter.send_queue
        /\ a.ack_slot = adapter.ack_slot /\ a.recv_slot = adapter.recv_slot
    BY <1>a DEF AdapterType
  <2>3. ObjectInv(a, calls, Top)
    BY <1>a, <2>2, SameHoldings
  <2> HIDE DEF a
  <2>4. ObjectInv(adapter', calls', Top) /\ CountInv(calls', Top)
    BY <1>a, <2>1, <2>3, NothingLoose, ResetKeepsInv
  <2>5. <<>> \in Seq(Msgs)
    OBVIOUS
  <2>6. Top' = Top /\ ClientInv' /\ NetworkInv'
    BY <2>1, <2>5 DEF Top, ClientInv, NetworkInv, PcbStates, Active
  <2>7. QED BY <2>4, <2>6
<1>8. ASSUME NEW p \in Pcbs, TcpPoll(p)
      PROVE  Inv'
  <2> DEFINE a == ProcessRecvQueue(adapter)
             fin == Finished(adapter)
             cs == Bump(calls, fin \cup {})
  <2>1. UNCHANGED <<app, posted, refused>>
    BY <1>8 DEF TcpPoll
  <2>2. ObjectInv(a, cs, Top) /\ CountInv(cs, Top)
    BY <1>a, NothingLoose, RecvQueueKeepsInv
  <2>3. Top' = Top /\ ClientInv'
    BY <2>1 DEF Top, ClientInv
  <2>4. CASE adapter' = a /\ Called(fin) /\ UNCHANGED network
    <3>1. calls' = cs
      BY <2>4, CalledIsBump
    <3>2. NetworkInv'
      BY <2>4 DEF NetworkInv, network
    <3>3. QED BY <2>2, <2>3, <2>4, <3>1, <3>2
  <2>5. ASSUME NEW ok \in BOOLEAN, WriteOutcome(a, ok), Transmit(a, unacked, owed, ok),
               NEW c,
               c = IF Timeout = 0 THEN SendQueue(a, unacked, ok)
                   ELSE [SendQueue(a, unacked, ok) EXCEPT
                           !.timeout_count = (@ + 1) % ByteMod],
               \/ /\ adapter' = c
                  /\ Called(fin)
                  /\ UNCHANGED <<tcp, wire>>
               \/ /\ adapter' = Reset(c)
                  /\ Called(fin \cup Dropped(c))
                  /\ tcp' = Closed(p)
                  /\ wire' = [wire EXCEPT ![p] = <<>>]
        PROVE  Inv'
    <3> DEFINE b == SendQueue(a, unacked, ok)
    <3>1. ObjectInv(b, cs, Top)
      BY <1>a, <2>2, <2>5, SendQueueKeepsInv DEF NetworkInv
    <3> HIDE DEF a, b
    <3>2. b \in AdapterType
      BY <3>1 DEF ObjectInv
    <3>3. c \in AdapterType /\ c.send_queue = b.send_queue
          /\ c.ack_slot = b.ack_slot /\ c.recv_slot = b.recv_slot
      <4>1. PICK k \in 0..(ByteMod - 1) : k = (b.timeout_count + 1) % ByteMod
        BY <3>2, TimeoutAssumption DEF AdapterType
      <4>2. c = b \/ c = [b EXCEPT !.timeout_count = k]
        BY <2>5, <4>1 DEF b
      <4>3. QED BY <3>2, <4>1, <4>2 DEF AdapterType
    <3>4. ObjectInv(c, cs, Top)
      BY <1>a, <3>1, <3>3, SameHoldings
    <3>5. unacked' \in [Pcbs -> Int] /\ owed' \in [Pcbs -> Seq(Msgs)]
      <4>1. a \in AdapterType
        BY <2>2 DEF ObjectInv
      <4>2. unacked \in [Pcbs -> Int] /\ owed \in [Pcbs -> Seq(Msgs)]
        BY DEF NetworkInv
      <4>3. QED BY <2>5, <4>1, <4>2, TransmitTyped
    <3>6. CASE adapter' = c /\ Called(fin) /\ UNCHANGED <<tcp, wire>>
      <4>1. calls' = cs
        BY <3>6, CalledIsBump
      <4>2. NetworkInv'
        BY <3>5, <3>6 DEF NetworkInv
      <4>3. QED BY <2>2, <2>3, <3>4, <3>6, <4>1, <4>2
    <3>7. CASE /\ adapter' = Reset(c)
               /\ Called(fin \cup Dropped(c))
               /\ tcp' = Closed(p)
               /\ wire' = [wire EXCEPT ![p] = <<>>]
      <4>1. calls' = Bump(cs, Dropped(c) \cup {})
        <5>1. \A m \in fin : m \in Msgs /\ cs[m] = 1
          <6>1. fin \subseteq HeldBy(adapter) /\ fin \subseteq Msgs
            BY <1>a, HeldAreMsgs DEF Finished, Due, HeldBy
          <6>2. \A m \in fin : calls[m] = 0
            BY <6>1 DEF ObjectInv
          <6>3. QED BY <6>1, <6>2 DEF Bump
        <5>2. Dropped(c) \subseteq HeldBy(c)
          BY DEF Dropped, HeldBy, AckDropped
        <5>3. \A m \in Dropped(c) : cs[m] = 0
          BY <3>4, <5>2 DEF ObjectInv
        <5>4. \A m \in Msgs : ~(m \in fin /\ m \in Dropped(c))
          BY <5>1, <5>3
        <5>5. calls' = [m \in Msgs |-> IF m \in fin \cup Dropped(c) THEN calls[m] + 1 ELSE calls[m]]
          BY <3>7 DEF Called
        <5>6. \A m \in Msgs : cs[m] = IF m \in fin THEN calls[m] + 1 ELSE calls[m]
          BY DEF Bump
        <5>7. \A m \in Msgs : Bump(cs, Dropped(c) \cup {})[m]
                                = IF m \in Dropped(c) THEN cs[m] + 1 ELSE cs[m]
          BY DEF Bump
        <5>8. \A m \in Msgs : calls'[m] = Bump(cs, Dropped(c) \cup {})[m]
          BY <5>4, <5>5, <5>6, <5>7
        <5>9. QED BY <5>5, <5>8 DEF Bump
      <4>2. ObjectInv(adapter', calls', Top) /\ CountInv(calls', Top)
        BY <1>a, <2>2, <3>4, <3>7, <4>1, NothingLoose, ResetKeepsInv
      <4>3. tcp' \in [Pcbs -> PcbStates] /\ wire' \in [Pcbs -> Seq(Msgs)]
        <5>1. <<>> \in Seq(Msgs)
          OBVIOUS
        <5>2. QED BY <3>7, <5>1 DEF Closed, NetworkInv, PcbStates, Active
      <4>4. NetworkInv'
        BY <3>5, <4>3 DEF NetworkInv
      <4>5. QED BY <2>3, <4>2, <4>4
    <3>8. QED BY <2>5, <3>6, <3>7
  <2>6. QED BY <1>8, <2>4, <2>5 DEF TcpPoll
<1>9. ASSUME NEW p \in Pcbs, TcpErr(p)
      PROVE  Inv'
  <2>1. /\ adapter' = Reset(adapter)
        /\ calls' = Bump(calls, Dropped(adapter) \cup {})
        /\ tcp' = [tcp EXCEPT ![p] = "free"]
        /\ unacked' = [unacked EXCEPT ![p] = 0]
        /\ owed' = [owed EXCEPT ![p] = <<>>]
        /\ wire' = [wire EXCEPT ![p] = <<>>]
        /\ UNCHANGED <<app, posted, refused>>
    BY <1>9, CalledIsBump DEF TcpErr
  <2>2. ObjectInv(adapter', calls', Top) /\ CountInv(calls', Top)
    BY <1>a, <2>1, NothingLoose, ResetKeepsInv
  <2>3. <<>> \in Seq(Msgs)
    OBVIOUS
  <2>4. Top' = Top /\ ClientInv' /\ NetworkInv'
    BY <2>1, <2>3 DEF Top, ClientInv, NetworkInv, PcbStates, Active
  <2>5. QED BY <2>2, <2>4
<1>10. ASSUME NEW p \in Pcbs, TcpGone(p)
       PROVE  Inv'
  <2>1. <<>> \in Seq(Msgs)
    OBVIOUS
  <2>2. Top' = Top /\ ClientInv' /\ NetworkInv' /\ adapter' = adapter /\ calls' = calls
    BY <1>10, <2>1 DEF TcpGone, Top, ClientInv, NetworkInv, PcbStates, Active
  <2>3. QED BY <2>2
<1>11. CASE Elapse
  <2> DEFINE b == [adapter EXCEPT !.late = TRUE]
  <2>1. adapter' = b /\ UNCHANGED <<app, posted, calls, refused, network>>
    BY <1>11 DEF Elapse
  <2>2. b \in AdapterType /\ b.send_queue = adapter.send_queue
        /\ b.ack_slot = adapter.ack_slot /\ b.recv_slot = adapter.recv_slot
    BY <1>a DEF AdapterType
  <2>3. ObjectInv(b, calls, Top)
    BY <1>a, <2>2, SameHoldings
  <2>4. Top' = Top /\ ClientInv' /\ NetworkInv'
    BY <2>1 DEF Top, ClientInv, NetworkInv, network
  <2>5. QED BY <2>1, <2>3, <2>4
<1>12. CASE UNCHANGED vars
  <2>1. Top' = Top /\ ClientInv' /\ NetworkInv' /\ adapter' = adapter /\ calls' = calls
    BY <1>12 DEF vars, Top, ClientInv, NetworkInv
  <2>2. QED BY <2>1
<1>13. QED
  BY <1>1, <1>2, <1>3, <1>4, <1>5, <1>6, <1>7, <1>8, <1>9, <1>10, <1>11, <1>12
     DEF Next, Handler

(* The inductive invariant holds in every reachable state.                 *)
LEMMA InvHolds == Spec => []Inv
BY InitInv, NextKeepsInv, PTL DEF Spec

-----------------------------------------------------------------------------
(* The fields of the adapter, the counters and the network keep their      *)
(* types; in particular the mailbox never holds more than QueueSize        *)
(* requests and timeout_count stays within its byte.                       *)
THEOREM TypeCorrect == Spec => []TypeOK
<1>1. Inv => TypeOK
  BY DEF Inv, TypeOK, ClientInv, NetworkInv, ObjectInv, CountInv
<1>2. QED BY InvHolds, <1>1, PTL

(* The device never has two requests to answer: the ack slot and the       *)
(* receive slot are not both taken, and the request in them is older than  *)
(* everything in the mailbox.                                              *)
THEOREM OneOutstandingHolds == Spec => []OneOutstanding
<1>1. Inv => OneOutstanding
  BY DEF Inv, ObjectInv, Ordered, OneOutstanding
<1>2. QED BY InvHolds, <1>1, PTL

(* No callback runs twice, whatever connections, answers, time-outs and    *)
(* resets there are: the argument freed in it is freed once.               *)
THEOREM CalledOnce == Spec => []CalledAtMostOnce
<1>1. Inv => CalledAtMostOnce
  BY DEF Inv, CountInv, CalledAtMostOnce
<1>2. QED BY InvHolds, <1>1, PTL

(* A message the adapter still holds, or send() is still posting, has not  *)
(* been called back, so the adapter reads no freed message.                *)
THEOREM HeldNotCalledHolds == Spec => []HeldNotCalled
<1>1. ASSUME Inv PROVE HeldNotCalled
  <2>1. \A m \in Held : calls[m] = 0
    BY <1>1 DEF Inv, ObjectInv, Held, HeldBy
  <2>2. app = "blocked" => calls[posted] = 0
    <3> SUFFICES ASSUME app = "blocked" PROVE calls[posted] = 0
      OBVIOUS
    <3>1. posted \in Msgs /\ posted > Top
      BY <1>1, NAssumption DEF Inv, ClientInv, Top, Msgs
    <3>2. QED BY <1>1, <3>1 DEF Inv, CountInv
  <2>3. QED BY <2>1, <2>2 DEF HeldNotCalled, InPost
<1>2. QED BY InvHolds, <1>1, PTL

-----------------------------------------------------------------------------
(* The connection, and the requests it loses.                              *)

(* The object a and the blocks t agree: connected means an open block, the *)
(* block in _pcb is new, on its way or open, and _connected and _connecting*)
(* know which.                                                             *)
Linked(a, t) ==
    /\ a.timed_out => ~a.connected
    /\ a.connected => \E p \in Pcbs : t[p] = "open"
    /\ a.pcb # NULL =>
          /\ a.pcb \in Pcbs /\ t[a.pcb] \in {"closed", "synsent", "open"}
          /\ t[a.pcb] = "open" => a.connected
          /\ t[a.pcb] = "synsent" => a.connected \/ a.connecting

(* _connecting speaks of the block in _pcb, as long as tcp_connect() works.*)
Dialling(a, t) == a.connecting => a.pcb # NULL /\ t[a.pcb] = "synsent"

(* Requests wait in the mailbox only while something may carry them.       *)
Carried(a, t) ==
    a.send_queue # <<>> => \/ a.connected
                           \/ a.pcb # NULL /\ t[a.pcb] \in {"synsent", "open"}

(* b has the connection of a and no time-out of its own.                   *)
SameLink(a, b) ==
    /\ b.pcb = a.pcb /\ b.connected = a.connected /\ b.connecting = a.connecting
    /\ b.timed_out => a.timed_out

(* Only the fields of the connection matter.                               *)
LEMMA LinkedSame ==
    ASSUME NEW a, NEW b, NEW t, SameLink(a, b)
    PROVE  /\ Linked(a, t) => Linked(b, t)
           /\ Dialling(a, t) => Dialling(b, t)
BY DEF SameLink, Linked, Dialling

(* The same for the mailbox, when it only empties.                         *)
LEMMA CarriedSame ==
    ASSUME NEW a, NEW b, NEW t, SameLink(a, b), Carried(a, t),
           b.send_queue # <<>> => a.send_queue # <<>>
    PROVE  Carried(b, t)
BY DEF SameLink, Carried

(* A block that is not open may change its state, unless it is the one in  *)
(* _pcb.                                                                   *)
LEMMA OtherBlock ==
    ASSUME NEW a, NEW t \in [Pcbs -> PcbStates], NEW p \in Pcbs, NEW s,
           p # a.pcb, t[p] # "open"
    PROVE  LET u == [t EXCEPT ![p] = s]
           IN  /\ Linked(a, t) => Linked(a, u)
               /\ Linked(a, t) /\ Dialling(a, t) => Dialling(a, u)
               /\ Linked(a, t) /\ Carried(a, t) => Carried(a, u)
<1> DEFINE u == [t EXCEPT ![p] = s]
<1>1. \A q \in Pcbs : q # p => u[q] = t[q]
  OBVIOUS
<1>2. \A q \in Pcbs : t[q] = "open" => u[q] = "open"
  BY <1>1
<1> HIDE DEF u
<1>3. Linked(a, t) => Linked(a, u)
  BY <1>1, <1>2 DEF Linked
<1>4. Linked(a, t) /\ Dialling(a, t) => Dialling(a, u)
  BY <1>1 DEF Linked, Dialling
<1>5. Linked(a, t) /\ Carried(a, t) => Carried(a, u)
  BY <1>1 DEF Linked, Carried
<1>6. QED BY <1>3, <1>4, <1>5 DEF u

(* After _reset() the adapter has no connection and nothing waits.  What it*)
(* held was dropped, or stays in the ack slot, not called back.            *)
LEMMA ResetLinks ==
    ASSUME NEW a \in AdapterType, NEW t
    PROVE  LET b == Reset(a)
           IN  /\ Linked(b, t) /\ Dialling(b, t) /\ Carried(b, t)
               /\ HeldBy(a) \subseteq HeldBy(b) \cup Dropped(a)
               /\ HeldBy(b) \subseteq HeldBy(a)
               /\ Dropped(a) \subseteq HeldBy(a)
               /\ Range(a.send_queue) \subseteq Dropped(a)
<1> DEFINE b == Reset(a)
<1>1. /\ b.pcb = NULL /\ b.connected = FALSE /\ b.connecting = FALSE
      /\ b.send_queue = <<>> /\ b.recv_slot = 0
      /\ b.ack_slot = IF AckDropped(a) THEN 0 ELSE a.ack_slot
  BY DEF Reset, AdapterType
<1> HIDE DEF b
<1>2. Linked(b, t) /\ Dialling(b, t) /\ Carried(b, t)
  BY <1>1 DEF Linked, Dialling, Carried
<1>3. HeldBy(b) = {b.ack_slot} \ {0}
  BY <1>1 DEF HeldBy, Range
<1>4. HeldBy(a) \subseteq HeldBy(b) \cup Dropped(a)
  BY <1>1, <1>3 DEF HeldBy, Dropped
<1>5. HeldBy(b) \subseteq HeldBy(a)
  BY <1>1, <1>3 DEF HeldBy
<1>6. Dropped(a) \subseteq HeldBy(a) /\ Range(a.send_queue) \subseteq Dropped(a)
  BY DEF HeldBy, Dropped, AckDropped
<1>7. QED BY <1>2, <1>4, <1>5, <1>6 DEF b

(* _processRecvQueue() leaves the connection and the mailbox alone.        *)
LEMMA RecvQueueLinks ==
    ASSUME NEW a \in AdapterType
    PROVE  LET b == ProcessRecvQueue(a)
           IN  /\ SameLink(a, b)
               /\ b.send_queue = a.send_queue
               /\ b.ack_slot = a.ack_slot /\ b.ptr = a.ptr
               /\ HeldBy(a) \subseteq HeldBy(b) \cup Finished(a)
               /\ HeldBy(b) \subseteq HeldBy(a)
               /\ Finished(a) \subseteq HeldBy(a)
<1> DEFINE b == ProcessRecvQueue(a)
<1>1. /\ SameLink(a, b) /\ b.send_queue = a.send_queue
      /\ b.ack_slot = a.ack_slot /\ b.ptr = a.ptr
      /\ b.recv_slot = IF Due(a) THEN 0 ELSE a.recv_slot
  BY DEF ProcessRecvQueue, AdapterType, SameLink
<1> HIDE DEF b
<1>2. HeldBy(a) \subseteq HeldBy(b) \cup Finished(a) /\ HeldBy(b) \subseteq HeldBy(a)
  BY <1>1 DEF HeldBy, Finished
<1>3. Finished(a) \subseteq HeldBy(a)
  BY DEF Finished, Due, HeldBy
<1>4. QED BY <1>1, <1>2, <1>3 DEF b

(* _processSendQueue() does so too, and loses a request only if tcp_write()*)
(* failed.                                                                 *)
LEMMA SendQueueLinks ==
    ASSUME NEW a \in AdapterType, NEW u \in [Pcbs -> Int], NEW ok \in BOOLEAN
    PROVE  LET b == SendQueue(a, u, ok)
           IN  /\ SameLink(a, b)
               /\ b.send_queue # <<>> => a.send_queue # <<>>
               /\ HeldBy(b) \subseteq HeldBy(a)
               /\ ok \/ ~Fetches(a) => HeldBy(a) \subseteq HeldBy(b)
<1> DEFINE b == SendQueue(a, u, ok)
           q == a.send_queue
<1>1. CASE ~Fetches(a)
  BY <1>1 DEF SendQueue, SameLink
<1>2. CASE Fetches(a)
  <2>1. q # <<>> /\ a.ack_slot = 0 /\ a.recv_slot = 0 /\ q \in Seq(Msgs)
    BY <1>2 DEF Fetches, AdapterType
  <2>2. /\ SameLink(a, b)
        /\ b.send_queue = Tail(q) /\ b.recv_slot = 0
        /\ b.ack_slot = IF ok THEN Head(q) ELSE 0
    BY <1>2, <2>1 DEF SendQueue, AdapterType, SameLink
  <2>3. /\ Head(q) # 0 /\ Range(Tail(q)) \cup {Head(q)} = Range(q)
    <3>1. /\ Len(q) > 0 /\ Head(q) = q[1] /\ Head(q) \in Msgs
          /\ Tail(q) \in Seq(Msgs) /\ Len(Tail(q)) = Len(q) - 1
          /\ \A i \in 1..Len(Tail(q)) : Tail(q)[i] = q[i + 1]
      BY <2>1
    <3>2. DOMAIN q = 1..Len(q) /\ DOMAIN Tail(q) = 1..Len(Tail(q))
      BY <2>1, <3>1
    <3>3. \A i \in 1..Len(q) : i = 1 \/ (i - 1 \in 1..Len(Tail(q)) /\ q[i] = Tail(q)[i - 1])
      <4> TAKE i \in 1..Len(q)
      <4>1. CASE i # 1
        <5>1. i - 1 \in 1..Len(Tail(q)) /\ (i - 1) + 1 = i
          BY <2>1, <3>1, <4>1
        <5>2. QED BY <3>1, <5>1
      <4>2. QED BY <4>1
    <3>4. Range(q) \subseteq Range(Tail(q)) \cup {Head(q)}
      <4> SUFFICES ASSUME NEW i \in 1..Len(q)
                   PROVE  q[i] \in Range(Tail(q)) \cup {Head(q)}
        BY <3>2 DEF Range
      <4>1. CASE i = 1
        BY <3>1, <4>1
      <4>2. CASE i # 1
        <5>1. PICK j \in DOMAIN Tail(q) : q[i] = Tail(q)[j]
          BY <3>2, <3>3, <4>2
        <5>2. QED BY <5>1 DEF Range
      <4>3. QED BY <4>1, <4>2
    <3>5. \A i \in 1..Len(Tail(q)) : i + 1 \in 1..Len(q)
      BY <2>1, <3>1
    <3>6. Range(Tail(q)) \cup {Head(q)} \subseteq Range(q)
      BY <2>1, <3>1, <3>2, <3>5 DEF Range
    <3>7. QED BY <3>1, <3>4, <3>6 DEF Msgs
  <2> HIDE DEF b
  <2>4. HeldBy(b) \subseteq HeldBy(a)
    BY <2>1, <2>2, <2>3 DEF HeldBy
  <2>5. ok => HeldBy(a) \subseteq HeldBy(b)
    BY <2>1, <2>2, <2>3 DEF HeldBy
  <2>6. QED BY <1>2, <2>1, <2>2, <2>4, <2>5 DEF b
<1>3. QED BY <1>1, <1>2

(* An acknowledgement moves a request and nothing else.                    *)
LEMMA AcknowledgeLinks ==
    ASSUME NEW a \in AdapterType, a.ack_slot = 0 \/ a.recv_slot = 0, NEW n \in Nat
    PROVE  LET b == Acknowledge(a, n)
           IN  /\ SameLink(a, b)
               /\ b.send_queue = a.send_queue
               /\ HeldBy(b) = HeldBy(a)
               /\ b.ack_slot # 0 => b.ack_slot = a.ack_slot /\ b.ptr = a.ptr
<1> DEFINE b == Acknowledge(a, n)
<1>1. CASE a.ack_slot = 0
  BY <1>1 DEF Acknowledge, SameLink
<1>2. CASE a.ack_slot # 0 /\ ~(a.acked + n >= Length[a.ack_slot])
  <2>1. b = [a EXCEPT !.acked = @ + n]
    BY <1>2 DEF Acknowledge
  <2>2. SameLink(a, b) /\ b.send_queue = a.send_queue /\ b.ack_slot = a.ack_slot
        /\ b.recv_slot = a.recv_slot /\ b.ptr = a.ptr
    BY <2>1 DEF AdapterType, SameLink
  <2>3. QED BY <2>2 DEF HeldBy
<1>3. CASE a.ack_slot # 0 /\ a.acked + n >= Length[a.ack_slot]
  <2>1. b = [a EXCEPT !.acked = @ + n, !.recv_slot = a.ack_slot, !.ack_slot = 0]
    BY <1>3 DEF Acknowledge
  <2>2. SameLink(a, b) /\ b.send_queue = a.send_queue /\ b.ack_slot = 0
        /\ b.recv_slot = a.ack_slot /\ a.recv_slot = 0
    BY <1>3, <2>1 DEF AdapterType, SameLink
  <2>3. QED BY <2>2 DEF HeldBy
<1>4. QED BY <1>1, <1>2, <1>3
-----------------------------------------------------------------------------
(* The connection in every step, under all faults.                         *)
LinkInv == Linked(adapter, tcp)

(* The rest of send(): the connection, the requests held and those called. *)
LEMMA SubmitLinks ==
    ASSUME NEW a, NEW m \in Msgs, NEW t \in [Pcbs -> PcbStates],
           ObjectInv(a, calls, m), CountInv(calls, m), Linked(a, t),
           Length[m] = 0 \/ m \in Range(a.send_queue),
           Submit(a, m, t)
    PROVE  /\ Linked(adapter', tcp')
           /\ \A k \in HeldBy(a) \cup {m} : k \in HeldBy(adapter') \/ calls'[k] > 0
           /\ HeldBy(adapter') \subseteq HeldBy(a)
           /\ \A k \in Msgs \ (HeldBy(a) \cup {m}) : calls'[k] = calls[k]
           /\ \/ refused' = refused
              \/ /\ a.pcb = NULL /\ refused' = refused \cup {m}
                 /\ Length[m] = 0 \/ m \notin HeldBy(adapter')
           /\ "connect" \notin Faults /\ Dialling(a, t) =>
                 Dialling(adapter', tcp') /\ Carried(adapter', tcp')
<1> DEFINE e == IF Length[m] = 0 THEN {m} ELSE {}
<1>1. a \in AdapterType /\ HeldBy(a) \subseteq Msgs
  BY HeldAreMsgs DEF ObjectInv
<1>2. m \in HeldBy(a) \/ m \in e
  BY DEF HeldBy
<1>3. ASSUME NEW b, NEW d, HeldBy(a) \subseteq HeldBy(b) \cup d, d \subseteq HeldBy(a),
             HeldBy(b) \subseteq HeldBy(a),
             adapter' = b, Called(d \cup e)
      PROVE  /\ \A k \in HeldBy(a) \cup {m} : k \in HeldBy(adapter') \/ calls'[k] > 0
             /\ HeldBy(adapter') \subseteq HeldBy(a)
             /\ \A k \in Msgs \ (HeldBy(a) \cup {m}) : calls'[k] = calls[k]
  <2>1. \A k \in Msgs : calls'[k] = IF k \in d \cup e THEN calls[k] + 1 ELSE calls[k]
    BY <1>3 DEF Called
  <2>2. \A k \in Msgs : calls[k] \in 0..1
    BY DEF CountInv
  <2>3. \A k \in d \cup e : calls'[k] > 0
    BY <1>1, <1>3, <2>1, <2>2
  <2>4. QED BY <1>1, <1>2, <1>3, <2>1, <2>3
<1>4. CASE a.connected \/ a.connecting
  <2>1. /\ adapter' = ProcessRecvQueue(a) /\ Called(Finished(a) \cup e)
        /\ tcp' = t /\ refused' = refused
    BY <1>4 DEF Submit
  <2>2. /\ SameLink(a, adapter') /\ adapter'.send_queue = a.send_queue
        /\ HeldBy(a) \subseteq HeldBy(adapter') \cup Finished(a)
        /\ HeldBy(adapter') \subseteq HeldBy(a) /\ Finished(a) \subseteq HeldBy(a)
    BY <1>1, <2>1, RecvQueueLinks
  <2>3. Linked(adapter', tcp')
    BY <2>1, <2>2, LinkedSame
  <2>4. Dialling(a, t) => Dialling(adapter', tcp') /\ Carried(adapter', tcp')
    <3>1. Dialling(a, t) => Carried(a, t)
      BY <1>4 DEF Dialling, Carried
    <3>2. QED BY <2>1, <2>2, <3>1, LinkedSame, CarriedSame
  <2>5. QED BY <1>3, <2>1, <2>2, <2>3, <2>4
<1>5. CASE ~(a.connected \/ a.connecting) /\ a.pcb # NULL /\ t[a.pcb] = "closed"
  <2> DEFINE b == [a EXCEPT !.connecting = TRUE]
             u == [t EXCEPT ![a.pcb] = "synsent"]
  <2>1. /\ adapter' = ProcessRecvQueue(b) /\ Called(Finished(a) \cup e)
        /\ refused' = refused
        /\ tcp' = u \/ ("connect" \in Faults /\ tcp' = t)
    BY <1>5 DEF Submit
  <2>2. /\ b \in AdapterType /\ b.pcb = a.pcb /\ b.connected = FALSE /\ b.connecting = TRUE
        /\ b.timed_out = a.timed_out
        /\ b.send_queue = a.send_queue /\ b.ack_slot = a.ack_slot /\ b.recv_slot = a.recv_slot
        /\ b.late = a.late /\ b.recv_buf = a.recv_buf
    BY <1>1, <1>5 DEF AdapterType
  <2>3. HeldBy(b) = HeldBy(a) /\ Finished(b) = Finished(a)
    BY <2>2 DEF HeldBy, Finished, Due
  <2>4. a.pcb \in Pcbs /\ u[a.pcb] = "synsent"
    BY <1>5 DEF Linked
  <2>5. Linked(b, t) /\ Linked(b, u)
    BY <1>5, <2>2, <2>4 DEF Linked
  <2>6. Dialling(b, u) /\ Carried(b, u)
    BY <1>5, <2>2, <2>4 DEF Dialling, Carried
  <2> HIDE DEF b, u
  <2>7. /\ SameLink(b, adapter') /\ adapter'.send_queue = b.send_queue
        /\ HeldBy(b) \subseteq HeldBy(adapter') \cup Finished(b)
        /\ HeldBy(adapter') \subseteq HeldBy(b) /\ Finished(b) \subseteq HeldBy(b)
    BY <2>1, <2>2, RecvQueueLinks
  <2>8. Linked(adapter', tcp')
    BY <2>1, <2>5, <2>7, LinkedSame
  <2>9. "connect" \notin Faults => Dialling(adapter', tcp') /\ Carried(adapter', tcp')
    BY <2>1, <2>6, <2>7, LinkedSame, CarriedSame
  <2>10. QED BY <1>3, <2>1, <2>3, <2>7, <2>8, <2>9
<1>6. CASE /\ ~(a.connected \/ a.connecting)
           /\ ~(a.pcb # NULL /\ t[a.pcb] = "closed")
  <2>1. /\ adapter' = Reset(a) /\ Called(Dropped(a) \cup e)
        /\ tcp' = t /\ refused' = refused \cup {m}
    BY <1>6 DEF Submit
  <2>2. a.pcb = NULL
    BY <1>6 DEF Linked
  <2>3. /\ Linked(adapter', t) /\ Dialling(adapter', t) /\ Carried(adapter', t)
        /\ HeldBy(a) \subseteq HeldBy(adapter') \cup Dropped(a)
        /\ HeldBy(adapter') \subseteq HeldBy(a) /\ Dropped(a) \subseteq HeldBy(a)
        /\ Range(a.send_queue) \subseteq Dropped(a)
    BY <1>1, <2>1, ResetLinks
  <2>4. ASSUME Length[m] # 0 PROVE m \notin HeldBy(adapter')
    <3>1. m \in Dropped(a)
      BY <2>3, <2>4
    <3>2. ObjectInv(adapter', Bump(calls, Dropped(a) \cup {}), m)
      <4>1. m \in Nat
        BY DEF Msgs
      <4>2. QED BY <2>1, <4>1, NothingLoose, ResetKeepsInv
    <3>3. Bump(calls, Dropped(a) \cup {})[m] = calls[m] + 1 /\ calls[m] \in 0..1
      BY <3>1 DEF Bump, CountInv
    <3>4. \A k \in HeldBy(adapter') : Bump(calls, Dropped(a) \cup {})[k] = 0
      BY <3>2 DEF ObjectInv
    <3>5. QED BY <3>3, <3>4
  <2>5. QED BY <1>3, <2>1, <2>2, <2>3, <2>4
<1>7. QED BY <1>4, <1>5, <1>6

-----------------------------------------------------------------------------
(* A refused request is in nobody's hands any more.                        *)
RefusedInv ==
    /\ refused \subseteq 1..posted
    /\ \A m \in refused : m \notin HeldBy(adapter) \cup InPost

WaitInv == Dialling(adapter, tcp) /\ Carried(adapter, tcp)

(* A request is fetched and not written only while a block is astray.      *)
LEMMA LostOnlyAstray ==
    ASSUME NEW a, NEW ok \in BOOLEAN, a.pcb = adapter.pcb,
           Linked(a, tcp), Carried(a, tcp), "write" \notin Faults, WriteOutcome(a, ok)
    PROVE  ok \/ ~Fetches(a) \/ Astray
<1> SUFFICES ASSUME ~ok, Fetches(a) PROVE Astray
  OBVIOUS
<1>1. ~Writable(a.pcb) /\ a.send_queue # <<>>
  BY DEF WriteOutcome, Fetches
<1>2. a.connected /\ (a.pcb # NULL => tcp[a.pcb] # "open")
  BY <1>1 DEF Carried, Writable
<1>3. PICK p \in Pcbs : tcp[p] = "open"
  BY <1>2 DEF Linked
<1>4. p # a.pcb
  BY <1>2, <1>3, NullAssumption
<1>5. QED BY <1>3, <1>4 DEF Astray

(* What a step of a handler does to the requests.                          *)
LEMMA HandlerLoses ==
    ASSUME Inv, RefusedInv, UNCHANGED <<app, posted, refused>>,
           NEW d, d \subseteq HeldBy(adapter), Called(d),
           HeldBy(adapter') \subseteq HeldBy(adapter)
    PROVE  /\ RefusedInv' /\ RefusedOrCalled
           /\ HeldBy(adapter) \subseteq HeldBy(adapter') \cup d => NoneVanishes
<1>1. HeldBy(adapter) \subseteq Msgs /\ refused \subseteq Msgs
  BY HeldAreMsgs DEF Inv, ObjectInv, ClientInv
<1>2. Held = HeldBy(adapter) /\ Held' = HeldBy(adapter') /\ InPost' = InPost
  BY DEF Held, HeldBy, InPost
<1>3. \A m \in Msgs : calls[m] \in 0..1
  BY DEF Inv, CountInv
<1>4. \A m \in Msgs : calls'[m] = IF m \in d THEN calls[m] + 1 ELSE calls[m]
  BY DEF Called
<1>5. \A m \in d : calls'[m] > 0
  BY <1>1, <1>3, <1>4
<1>6. RefusedInv'
  BY <1>2 DEF RefusedInv
<1>7. RefusedOrCalled
  <2> SUFFICES ASSUME NEW m \in refused
               PROVE  calls'[m] = 0 \/ (m \in refused /\ calls[m] > 0)
    BY DEF RefusedOrCalled
  <2>1. m \notin d
    BY DEF RefusedInv
  <2>2. calls'[m] = calls[m]
    BY <1>1, <1>4, <2>1
  <2>3. QED BY <1>1, <1>3, <2>2
<1>8. ASSUME HeldBy(adapter) \subseteq HeldBy(adapter') \cup d PROVE NoneVanishes
  <2>1. (posted + 1)..posted' = {}
    BY <1>1, NAssumption DEF Inv, ClientInv
  <2>2. QED BY <1>2, <1>5, <1>8, <2>1 DEF NoneVanishes
<1>9. QED BY <1>6, <1>7, <1>8

(* While a block is astray the property says nothing.                      *)
LEMMA AstrayStep == Astray => NoneVanishes
BY DEF NoneVanishes

Reliable == "connect" \notin Faults /\ "write" \notin Faults

(* What a step keeps and what it may not do.                               *)
Careful ==
    /\ LinkInv' /\ RefusedInv' /\ RefusedOrCalled
    /\ Reliable /\ WaitInv => WaitInv' /\ NoneVanishes

(* A handler that leaves the blocks alone.                                 *)
LEMMA CarefulSame ==
    ASSUME Inv, LinkInv, RefusedInv, UNCHANGED <<app, posted, refused, tcp>>,
           SameLink(adapter, adapter'),
           adapter'.send_queue # <<>> => adapter.send_queue # <<>>,
           NEW d, d \subseteq HeldBy(adapter), Called(d),
           HeldBy(adapter') \subseteq HeldBy(adapter),
           Reliable /\ WaitInv => \/ HeldBy(adapter) \subseteq HeldBy(adapter') \cup d
                                  \/ Astray
    PROVE  Careful
<1>1. RefusedInv' /\ RefusedOrCalled
      /\ (HeldBy(adapter) \subseteq HeldBy(adapter') \cup d => NoneVanishes)
  BY HandlerLoses
<1>2. LinkInv' /\ (WaitInv => WaitInv')
  <2>1. Linked(adapter', tcp)
    BY LinkedSame DEF LinkInv
  <2>2. WaitInv => Dialling(adapter', tcp) /\ Carried(adapter', tcp)
    BY LinkedSame, CarriedSame DEF WaitInv
  <2>3. QED BY <2>1, <2>2 DEF LinkInv, WaitInv
<1>3. QED BY <1>1, <1>2, AstrayStep DEF Careful

(* A handler that ends in _reset(), with c the object it resets.           *)
LEMMA CarefulReset ==
    ASSUME Inv, RefusedInv, UNCHANGED <<app, posted, refused>>,
           NEW c \in AdapterType, adapter' = Reset(c),
           NEW d, d \subseteq HeldBy(adapter), Called(d \cup Dropped(c)),
           HeldBy(c) \subseteq HeldBy(adapter),
           Reliable /\ WaitInv => \/ HeldBy(adapter) \subseteq HeldBy(c) \cup d
                                  \/ Astray
    PROVE  Careful
<1>1. /\ Linked(adapter', tcp') /\ Dialling(adapter', tcp') /\ Carried(adapter', tcp')
      /\ HeldBy(c) \subseteq HeldBy(adapter') \cup Dropped(c)
      /\ HeldBy(adapter') \subseteq HeldBy(c) /\ Dropped(c) \subseteq HeldBy(c)
  BY ResetLinks
<1>2. /\ RefusedInv' /\ RefusedOrCalled
      /\ HeldBy(adapter) \subseteq HeldBy(adapter') \cup (d \cup Dropped(c)) => NoneVanishes
  <2>1. d \cup Dropped(c) \subseteq HeldBy(adapter) /\ HeldBy(adapter') \subseteq HeldBy(adapter)
    BY <1>1
  <2>2. QED BY <2>1, HandlerLoses
<1>3. Reliable /\ WaitInv => NoneVanishes
  BY <1>1, <1>2, AstrayStep
<1>4. LinkInv' /\ WaitInv'
  BY <1>1 DEF LinkInv, WaitInv
<1>5. QED BY <1>2, <1>3, <1>4 DEF Careful

(* send() from the mailbox on, with a the object that holds request m or   *)
(* answered it at once.                                                    *)
LEMMA CarefulSubmit ==
    ASSUME Inv, RefusedInv, NEW a, NEW m \in Msgs, NEW t \in [Pcbs -> PcbStates],
           ObjectInv(a, calls, m), CountInv(calls, m), Linked(a, t),
           Length[m] = 0 \/ m \in Range(a.send_queue),
           Submit(a, m, t),
           HeldBy(adapter) \subseteq HeldBy(a), HeldBy(a) \subseteq HeldBy(adapter) \cup {m},
           m \notin refused, posted' = m, posted <= m,
           InPost \cup (posted + 1)..posted' \subseteq {m},
           app' = "idle",
           a.pcb = NULL => app = "blocked" /\ adapter.pcb = NULL /\ Length[m] # 0,
           WaitInv => Dialling(a, t)
    PROVE  Careful
<1>1. /\ Linked(adapter', tcp')
      /\ \A k \in HeldBy(a) \cup {m} : k \in HeldBy(adapter') \/ calls'[k] > 0
      /\ HeldBy(adapter') \subseteq HeldBy(a)
      /\ \A k \in Msgs \ (HeldBy(a) \cup {m}) : calls'[k] = calls[k]
      /\ \/ refused' = refused
         \/ /\ a.pcb = NULL /\ refused' = refused \cup {m}
            /\ Length[m] = 0 \/ m \notin HeldBy(adapter')
      /\ "connect" \notin Faults /\ Dialling(a, t) =>
            Dialling(adapter', tcp') /\ Carried(adapter', tcp')
  BY SubmitLinks
<1>2. Held = HeldBy(adapter) /\ Held' = HeldBy(adapter') /\ InPost' = {}
  BY DEF Held, HeldBy, InPost
<1>3. refused \subseteq Msgs /\ \A k \in Msgs : calls[k] \in 0..1
  BY DEF Inv, ClientInv, CountInv
<1>4. \A k \in refused : k \notin HeldBy(a) \cup {m}
  BY DEF RefusedInv
<1>5. RefusedInv'
  <2>1. refused' \subseteq 1..posted'
    <3>1. refused \subseteq 1..m /\ m \in 1..m
      BY DEF RefusedInv, Inv, ClientInv, Msgs
    <3>2. QED BY <1>1, <3>1
  <2>2. \A k \in refused' : k \notin HeldBy(adapter')
    BY <1>1, <1>4
  <2>3. QED BY <1>2, <2>1, <2>2 DEF RefusedInv
<1>6. RefusedOrCalled
  <2>1. CASE refused' = refused
    <3>1. \A k \in refused : calls'[k] = calls[k]
      BY <1>1, <1>3, <1>4
    <3>2. QED BY <1>3, <2>1, <3>1 DEF RefusedOrCalled
  <2>2. CASE a.pcb = NULL
    BY <2>2 DEF RefusedOrCalled
  <2>3. QED BY <1>1, <2>1, <2>2
<1>7. NoneVanishes
  BY <1>1, <1>2 DEF NoneVanishes
<1>8. Reliable /\ WaitInv => WaitInv'
  BY <1>1 DEF Reliable, WaitInv
<1>9. QED BY <1>1, <1>5, <1>6, <1>7, <1>8 DEF Careful, LinkInv

(* What an object holds after post().                                      *)
LEMMA AppendHolds ==
    ASSUME NEW a \in AdapterType, NEW b, NEW m \in Msgs,
           b.send_queue = Append(a.send_queue, m),
           b.ack_slot = a.ack_slot, b.recv_slot = a.recv_slot
    PROVE  /\ m \in Range(b.send_queue)
           /\ HeldBy(a) \subseteq HeldBy(b) /\ HeldBy(b) \subseteq HeldBy(a) \cup {m}
<1>1. PICK q \in Seq(Msgs) : q = a.send_queue
  BY DEF AdapterType
<1>2. /\ Append(q, m)[Len(q) + 1] = m
      /\ DOMAIN Append(q, m) = 1..(Len(q) + 1) /\ DOMAIN q = 1..Len(q) /\ Len(q) \in Nat
      /\ \A i \in 1..Len(q) : Append(q, m)[i] = q[i]
  BY <1>1
<1>3. Range(Append(q, m)) = Range(q) \cup {m}
  <2>1. \A i \in 1..(Len(q) + 1) : i \in 1..Len(q) \/ i = Len(q) + 1
    BY <1>2
  <2>2. \A i \in 1..Len(q) : i \in 1..(Len(q) + 1)
    BY <1>2
  <2>3. Len(q) + 1 \in 1..(Len(q) + 1)
    BY <1>2
  <2>4. Range(q) \subseteq Range(Append(q, m)) /\ m \in Range(Append(q, m))
    BY <1>2, <2>2, <2>3 DEF Range
  <2>5. Range(Append(q, m)) \subseteq Range(q) \cup {m}
    BY <1>2, <2>1 DEF Range
  <2>6. QED BY <2>4, <2>5
<1>4. QED BY <1>1, <1>3 DEF HeldBy

(* Every step keeps what the property needs.                               *)
LEMMA NextCareful ==
    ASSUME Inv, LinkInv, RefusedInv, Next
    PROVE  Careful
<1>a. /\ adapter \in AdapterType /\ (adapter.ack_slot = 0 \/ adapter.recv_slot = 0)
      /\ tcp \in [Pcbs -> PcbStates] /\ unacked \in [Pcbs -> Int]
      /\ posted \in Nat /\ Top \in Nat /\ 0 \in 0..(ByteMod - 1)
  BY TopIsNat, NAssumption, TimeoutAssumption DEF Inv, ObjectInv, NetworkInv, ClientInv
<1>b. \A b : b.send_queue = adapter.send_queue /\ b.ack_slot = adapter.ack_slot
                /\ b.recv_slot = adapter.recv_slot => HeldBy(b) = HeldBy(adapter)
  BY DEF HeldBy
<1>c. calls' = calls => Called({})
  BY DEF Inv, CountInv, Called
<1>1. CASE SendNoMem
  <2>1. /\ adapter' = [adapter EXCEPT !.timeout_count = 0] /\ calls' = calls /\ tcp' = tcp
        /\ posted' = posted + 1 /\ refused' = refused \cup {posted + 1}
        /\ app = "idle" /\ app' \in {"idle", "halted"} /\ posted + 1 \in Msgs
    BY <1>1, <1>a, NAssumption DEF SendNoMem, network, Msgs
  <2>2. /\ adapter'.send_queue = adapter.send_queue /\ adapter'.ack_slot = adapter.ack_slot
        /\ adapter'.recv_slot = adapter.recv_slot /\ SameLink(adapter, adapter')
    BY <1>a, <2>1 DEF AdapterType, SameLink
  <2>3. HeldBy(adapter') = HeldBy(adapter) /\ Top = posted
    BY <1>b, <2>1, <2>2 DEF Top
  <2>4. Held = HeldBy(adapter) /\ Held' = HeldBy(adapter') /\ InPost = {} /\ InPost' = {}
    BY <2>1 DEF Held, HeldBy, InPost
  <2>5. posted + 1 \notin HeldBy(adapter) /\ calls[posted + 1] = 0
    <3>1. \A k \in HeldBy(adapter) : k <= posted
      BY <2>3 DEF Inv, ObjectInv
    <3>2. QED BY <1>a, <2>1, <2>3, <3>1 DEF Inv, CountInv
  <2>6. RefusedInv'
    <3>1. refused' \subseteq 1..(posted + 1)
      BY <1>a, <2>1 DEF RefusedInv
    <3>2. QED BY <2>1, <2>3, <2>4, <2>5, <3>1 DEF RefusedInv
  <2>7. RefusedOrCalled
    <3>1. \A m \in refused : calls[m] \in 0..1
      BY DEF Inv, ClientInv, CountInv
    <3>2. QED BY <2>1, <2>5, <3>1 DEF RefusedOrCalled
  <2>8. NoneVanishes
    <3>1. (posted + 1)..posted' = {posted + 1}
      BY <1>a, <2>1
    <3>2. QED BY <2>1, <2>3, <2>4, <3>1 DEF NoneVanishes
  <2>9. LinkInv' /\ (WaitInv => WaitInv')
    BY <2>1, <2>2, LinkedSame, CarriedSame DEF LinkInv, WaitInv
  <2>10. QED BY <2>6, <2>7, <2>8, <2>9 DEF Careful
<1>2. CASE Send
  <2> DEFINE new == adapter.pcb = NULL
             m == posted + 1
             Obj(p) == IF new THEN CreateConnection(adapter, p) ELSE adapter
             Net(p) == IF new THEN [tcp EXCEPT ![p] = "closed"] ELSE tcp
             Posted(p) == [Obj(p) EXCEPT !.send_queue = Append(@, m)]
  <2>1. /\ app = "idle" /\ Top = posted /\ posted' = m /\ m \in Msgs /\ m \in Nat
        /\ InPost = {} /\ (posted + 1)..posted' = {m}
    BY <1>2, <1>a, NAssumption DEF Send, Top, Msgs, InPost
  <2>2. PICK p \in IF new THEN {q \in Pcbs : tcp[q] = "free"} ELSE {adapter.pcb} :
          \/ /\ Length[m] > 0 /\ Len(Obj(p).send_queue) = QueueSize
             /\ app' = "blocked"
             /\ adapter' = Obj(p) /\ tcp' = Net(p)
             /\ UNCHANGED <<calls, refused>>
          \/ /\ Length[m] > 0 /\ Len(Obj(p).send_queue) < QueueSize
             /\ Submit(Posted(p), m, Net(p))
             /\ UNCHANGED app
          \/ /\ Length[m] = 0
             /\ Submit(Obj(p), m, Net(p))
             /\ UNCHANGED app
    BY <1>2 DEF Send
  <2> HIDE DEF m
  <2>3. p \in Pcbs /\ (new => tcp[p] = "free")
    BY <1>a, <2>2 DEF AdapterType
  <2>4. /\ Obj(p) \in AdapterType /\ Obj(p).send_queue = adapter.send_queue
        /\ Obj(p).ack_slot = adapter.ack_slot /\ Obj(p).recv_slot = adapter.recv_slot
        /\ Obj(p).pcb = p /\ Obj(p).connected = adapter.connected
        /\ Obj(p).connecting = adapter.connecting /\ Obj(p).timed_out = adapter.timed_out
    <3>1. 0 \in 0..(ByteMod - 1)
      BY TimeoutAssumption
    <3>2. QED BY <1>a, <2>2, <2>3, <3>1 DEF CreateConnection, AdapterType
  <2>5. Net(p) \in [Pcbs -> PcbStates]
    BY <1>a DEF PcbStates, Active
  <2>6. Linked(Obj(p), Net(p)) /\ (WaitInv => Dialling(Obj(p), Net(p)) /\ Carried(Obj(p), Net(p)))
    <3>1. CASE new
      <4>1. \A q \in Pcbs : tcp[q] = "open" => Net(p)[q] = "open"
        BY <1>a, <2>3, <3>1
      <4>2. Net(p)[p] = "closed"
        BY <1>a, <2>3, <3>1
      <4>3. Linked(Obj(p), Net(p))
        BY <2>3, <2>4, <4>1, <4>2 DEF LinkInv, Linked
      <4>4. WaitInv => ~adapter.connecting /\ (adapter.send_queue # <<>> => adapter.connected)
        BY <3>1 DEF WaitInv, Dialling, Carried
      <4>5. QED BY <2>4, <4>3, <4>4 DEF Dialling, Carried
    <3>2. CASE ~new
      BY <3>2 DEF LinkInv, WaitInv
    <3>3. QED BY <3>1, <3>2
  <2>7. HeldBy(Obj(p)) = HeldBy(adapter)
    BY <1>b, <2>4
  <2>8. m \notin refused
    BY <1>a DEF RefusedInv, m
  <2>9. ObjectInv(Obj(p), calls, posted)
    BY <1>a, <2>1, <2>4, SameHoldings DEF Inv
  <2>10. p # NULL /\ posted <= m
    BY <1>a, <2>3, NullAssumption DEF m
  <2>11. CASE /\ Length[m] > 0 /\ Len(Obj(p).send_queue) = QueueSize
              /\ app' = "blocked"
              /\ adapter' = Obj(p) /\ tcp' = Net(p)
              /\ UNCHANGED <<calls, refused>>
    <3>1. Held = HeldBy(adapter) /\ Held' = HeldBy(adapter') /\ InPost' = {m}
      BY <2>1, <2>11 DEF Held, HeldBy, InPost
    <3>2. HeldBy(adapter') = HeldBy(adapter)
      BY <2>7, <2>11
    <3>3. RefusedInv'
      <4>1. refused \subseteq 1..m
        BY <1>a DEF RefusedInv, m
      <4>2. QED BY <2>1, <2>8, <2>11, <3>1, <3>2, <4>1 DEF RefusedInv
    <3>4. RefusedOrCalled
      <4>1. \A k \in refused : calls[k] \in 0..1
        BY DEF Inv, ClientInv, CountInv
      <4>2. QED BY <2>11, <4>1 DEF RefusedOrCalled
    <3>5. NoneVanishes
      BY <2>1, <3>1, <3>2 DEF NoneVanishes
    <3>6. LinkInv' /\ (WaitInv => WaitInv')
      BY <2>6, <2>11 DEF LinkInv, WaitInv
    <3>7. QED BY <3>3, <3>4, <3>5, <3>6 DEF Careful
  <2>12. CASE /\ Length[m] > 0 /\ Len(Obj(p).send_queue) < QueueSize
              /\ Submit(Posted(p), m, Net(p))
              /\ UNCHANGED app
    <3> DEFINE a == Posted(p)
    <3>1. ObjectInv(a, calls, m) /\ CountInv(calls, m)
      BY <1>a, <2>1, <2>9, <2>12, PostKeepsInv DEF m, Inv
    <3>2. /\ a.send_queue = Append(adapter.send_queue, m) /\ a.ack_slot = adapter.ack_slot
          /\ a.recv_slot = adapter.recv_slot /\ SameLink(Obj(p), a) /\ a.pcb = p
      BY <2>4 DEF AdapterType, SameLink
    <3> HIDE DEF a
    <3>3. m \in Range(a.send_queue) /\ HeldBy(adapter) \subseteq HeldBy(a)
          /\ HeldBy(a) \subseteq HeldBy(adapter) \cup {m}
      BY <1>a, <2>1, <3>2, AppendHolds
    <3>4. Linked(a, Net(p)) /\ (WaitInv => Dialling(a, Net(p)))
      BY <2>6, <3>2, LinkedSame
    <3>5. Submit(a, m, Net(p))
      BY <2>12 DEF a
    <3> HIDE DEF Net, Obj
    <3>6. QED
      BY <2>1, <2>5, <2>8, <2>10, <2>12, <3>1, <3>2, <3>3, <3>4, <3>5, CarefulSubmit
  <2>13. CASE /\ Length[m] = 0
              /\ Submit(Obj(p), m, Net(p))
              /\ UNCHANGED app
    <3> DEFINE a == Obj(p)
    <3>1. ObjectInv(a, calls, m) /\ CountInv(calls, m)
      BY <1>a, <2>1, <2>9, HigherTop DEF m, Inv
    <3>2. Linked(a, Net(p)) /\ (WaitInv => Dialling(a, Net(p))) /\ a.pcb = p
      BY <2>4, <2>6
    <3>3. HeldBy(a) = HeldBy(adapter)
      BY <2>7
    <3> HIDE DEF a, Net
    <3>4. QED
      BY <2>1, <2>5, <2>8, <2>10, <2>13, <3>1, <3>2, <3>3, CarefulSubmit DEF a
  <2>14. QED BY <2>2, <2>11, <2>12, <2>13
<1>3. CASE SendResume
  <2> DEFINE a == [adapter EXCEPT !.send_queue = Append(@, posted)]
  <2>1. /\ app = "blocked" /\ app' = "idle" /\ posted' = posted
        /\ Top + 1 = posted /\ posted \in Msgs
        /\ Len(adapter.send_queue) < QueueSize
        /\ Submit(a, posted, tcp)
        /\ InPost = {posted} /\ (posted + 1)..posted' = {}
    BY <1>3, <1>a DEF SendResume, Top, Inv, ClientInv, Msgs, InPost
  <2>2. ObjectInv(a, calls, posted) /\ CountInv(calls, posted)
    BY <1>a, <2>1, PostKeepsInv DEF Inv
  <2>3. /\ a.send_queue = Append(adapter.send_queue, posted) /\ a.ack_slot = adapter.ack_slot
        /\ a.recv_slot = adapter.recv_slot /\ SameLink(adapter, a)
    BY <1>a DEF AdapterType, SameLink
  <2> HIDE DEF a
  <2>4. posted \in Range(a.send_queue) /\ HeldBy(adapter) \subseteq HeldBy(a)
        /\ HeldBy(a) \subseteq HeldBy(adapter) \cup {posted}
    BY <1>a, <2>1, <2>3, AppendHolds
  <2>5. Linked(a, tcp) /\ (WaitInv => Dialling(a, tcp))
    BY <2>3, LinkedSame DEF LinkInv, WaitInv
  <2>6. Length[posted] # 0 /\ posted \notin refused /\ posted <= posted
    <3>1. Length[posted] > 0 /\ Length[posted] \in Nat
      BY <2>1, LengthAssumption DEF Inv, ClientInv
    <3>2. QED BY <1>a, <2>1, <3>1 DEF RefusedInv
  <2>7. a.pcb = NULL => app = "blocked" /\ adapter.pcb = NULL /\ Length[posted] # 0
    BY <2>1, <2>3, <2>6 DEF SameLink
  <2>8. QED BY <1>a, <2>1, <2>2, <2>4, <2>5, <2>6, <2>7, CarefulSubmit
<1>4. ASSUME NEW p \in Pcbs, TcpConnected(p) PROVE Careful
  <2>1. /\ adapter' = [adapter EXCEPT !.connected = TRUE, !.connecting = FALSE,
                                      !.timed_out = FALSE, !.timeout_count = 0]
        /\ UNCHANGED <<app, posted, calls, refused>>
        /\ tcp' = [tcp EXCEPT ![p] = "open"]
    BY <1>4 DEF TcpConnected
  <2>2. /\ adapter'.send_queue = adapter.send_queue /\ adapter'.ack_slot = adapter.ack_slot
        /\ adapter'.recv_slot = adapter.recv_slot /\ adapter'.pcb = adapter.pcb
        /\ adapter'.connected = TRUE /\ adapter'.connecting = FALSE /\ adapter'.timed_out = FALSE
    BY <1>a, <2>1 DEF AdapterType
  <2>3. HeldBy(adapter') = HeldBy(adapter)
    BY <1>b, <2>2
  <2>4. RefusedInv' /\ RefusedOrCalled /\ NoneVanishes
    BY <1>c, <2>1, <2>3, HandlerLoses
  <2>5. LinkInv'
    <3>1. tcp'[p] = "open" /\ \A q \in Pcbs : q = p \/ tcp'[q] = tcp[q]
      BY <1>a, <2>1
    <3>2. QED BY <2>2, <3>1 DEF LinkInv, Linked
  <2>6. WaitInv'
    BY <2>2 DEF WaitInv, Dialling, Carried
  <2>7. QED BY <2>4, <2>5, <2>6 DEF Careful
<1>5. ASSUME NEW p \in Pcbs, TcpSent(p) PROVE Careful
  <2> DEFINE a == [adapter EXCEPT !.timed_out = FALSE]
             U(n) == [unacked EXCEPT ![p] = @ - n]
  <2>1. PICK n \in 1..unacked[p], ok \in BOOLEAN :
          /\ WriteOutcome(a, ok)
          /\ adapter' = Acknowledge(SendQueue(a, U(n), ok), n)
    BY <1>5 DEF TcpSent
  <2>2. UNCHANGED <<app, posted, calls, refused, tcp>>
    BY <1>5 DEF TcpSent
  <2>3. /\ a \in AdapterType /\ a.send_queue = adapter.send_queue
        /\ a.ack_slot = adapter.ack_slot /\ a.recv_slot = adapter.recv_slot
        /\ SameLink(adapter, a) /\ HeldBy(a) = HeldBy(adapter)
    BY <1>a, <1>b DEF AdapterType, SameLink
  <2>4. n \in Nat /\ U(n) \in [Pcbs -> Int]
    BY <1>a
  <2> DEFINE b == SendQueue(a, U(n), ok)
  <2> HIDE DEF a, U
  <2>5. /\ SameLink(a, b) /\ (b.send_queue # <<>> => a.send_queue # <<>>)
        /\ HeldBy(b) \subseteq HeldBy(a)
        /\ ok \/ ~Fetches(a) => HeldBy(a) \subseteq HeldBy(b)
    BY <2>3, <2>4, SendQueueLinks
  <2>6. ObjectInv(b, calls, Top)
    <3>1. ObjectInv(a, calls, Top)
      BY <1>a, <2>3, SameHoldings DEF Inv
    <3>2. QED BY <1>a, <2>1, <2>4, <3>1, SendQueueKeepsInv
  <2>7. adapter' = Acknowledge(b, n) /\ b \in AdapterType /\ (b.ack_slot = 0 \/ b.recv_slot = 0)
    BY <2>1, <2>6 DEF ObjectInv
  <2>8. Reliable /\ WaitInv => HeldBy(a) \subseteq HeldBy(b) \/ Astray
    <3>1. WaitInv => Linked(a, tcp) /\ Carried(a, tcp)
      BY <2>3, LinkedSame, CarriedSame DEF LinkInv, WaitInv
    <3>2. QED BY <2>1, <2>3, <2>5, <3>1, LostOnlyAstray DEF Reliable, SameLink
  <2> HIDE DEF b
  <2>9. SameLink(b, adapter') /\ adapter'.send_queue = b.send_queue
        /\ HeldBy(adapter') = HeldBy(b)
    BY <2>4, <2>7, AcknowledgeLinks
  <2>10. SameLink(adapter, adapter')
    BY <2>3, <2>5, <2>9 DEF SameLink
  <2>11. Called({})
    BY <1>c, <2>2
  <2>12. QED
    BY <2>2, <2>3, <2>5, <2>8, <2>9, <2>10, <2>11, CarefulSame
<1>6. ASSUME NEW p \in Pcbs, TcpRecv(p) PROVE Careful
  <2> DEFINE a == [adapter EXCEPT !.timeout_count = 0, !.timed_out = FALSE]
             B(n) == IF a.recv_slot = 0 THEN a
                     ELSE IF Len(a.recv_buf) + n <= RcvBuf
                     THEN [a EXCEPT !.recv_buf = @ \o SubSeq(wire[p], 1, n), !.late = FALSE]
                     ELSE [a EXCEPT !.late = TRUE]
  <2>1. PICK n \in 1..Len(wire[p]) :
          adapter' = ProcessRecvQueue(B(n)) /\ Called(Finished(B(n)))
    BY <1>6 DEF TcpRecv
  <2> DEFINE b == B(n)
  <2>2. UNCHANGED <<app, posted, refused, tcp>>
    BY <1>6 DEF TcpRecv
  <2>3. a \in AdapterType /\ a.recv_buf \in Seq(Msgs)
        /\ a.send_queue = adapter.send_queue /\ a.ack_slot = adapter.ack_slot
        /\ a.recv_slot = adapter.recv_slot /\ SameLink(adapter, a)
    BY <1>a DEF AdapterType, SameLink
  <2>4. /\ b \in AdapterType /\ b.send_queue = adapter.send_queue
        /\ b.ack_slot = adapter.ack_slot /\ b.recv_slot = adapter.recv_slot
        /\ SameLink(adapter, b)
    <3>1. PICK r \in Seq(Msgs) : r = a.recv_buf \o SubSeq(wire[p], 1, n)
      <4>1. wire[p] \in Seq(Msgs) /\ Len(wire[p]) \in Nat
        BY DEF Inv, NetworkInv
      <4>2. SubSeq(wire[p], 1, n) \in Seq(Msgs)
        BY <4>1
      <4> HIDE DEF a
      <4>3. a.recv_buf \o SubSeq(wire[p], 1, n) \in Seq(Msgs)
        BY <2>3, <4>2
      <4>4. QED BY <4>3
    <3>2. \/ b = a
          \/ b = [a EXCEPT !.recv_buf = r, !.late = FALSE]
          \/ b = [a EXCEPT !.late = TRUE]
      BY <3>1
    <3> HIDE DEF a, b
    <3>3. QED BY <2>3, <3>2 DEF AdapterType, SameLink
  <2>5. adapter' = ProcessRecvQueue(b) /\ Called(Finished(b))
    BY <2>1
  <2> HIDE DEF a, b
  <2>6. HeldBy(b) = HeldBy(adapter)
    BY <2>4 DEF HeldBy
  <2>7. /\ SameLink(b, adapter') /\ adapter'.send_queue = b.send_queue
        /\ HeldBy(b) \subseteq HeldBy(adapter') \cup Finished(b)
        /\ HeldBy(adapter') \subseteq HeldBy(b) /\ Finished(b) \subseteq HeldBy(b)
    BY <2>4, <2>5, RecvQueueLinks
  <2>8. SameLink(adapter, adapter')
    BY <2>4, <2>7 DEF SameLink
  <2>9. QED BY <2>2, <2>4, <2>5, <2>6, <2>7, <2>8, CarefulSame
<1>7. ASSUME NEW p \in Pcbs, TcpRecvClosed(p) PROVE Careful
  <2> DEFINE a == [adapter EXCEPT !.timeout_count = 0, !.timed_out = FALSE,
                                  !.connected = FALSE]
  <2>1. adapter' = Reset(a) /\ Called({} \cup Dropped(a)) /\ UNCHANGED <<app, posted, refused>>
    BY <1>7 DEF TcpRecvClosed
  <2>2. a \in AdapterType /\ a.send_queue = adapter.send_queue
        /\ a.ack_slot = adapter.ack_slot /\ a.recv_slot = adapter.recv_slot
    BY <1>a DEF AdapterType
  <2>3. HeldBy(a) = HeldBy(adapter)
    BY <1>b, <2>2
  <2> HIDE DEF a
  <2>4. PICK d : d = {} /\ Called(d \cup Dropped(a))
    BY <2>1
  <2>5. d \subseteq HeldBy(adapter) /\ HeldBy(adapter) \subseteq HeldBy(a) \cup d
    BY <2>3, <2>4
  <2>6. QED BY <2>1, <2>2, <2>3, <2>4, <2>5, CarefulReset
<1>8. ASSUME NEW p \in Pcbs, TcpPoll(p) PROVE Careful
  <2> DEFINE a == ProcessRecvQueue(adapter)
             fin == Finished(adapter)
  <2>1. UNCHANGED <<app, posted, refused>>
    BY <1>8 DEF TcpPoll
  <2>2. /\ SameLink(adapter, a) /\ a.send_queue = adapter.send_queue
        /\ HeldBy(adapter) \subseteq HeldBy(a) \cup fin
        /\ HeldBy(a) \subseteq HeldBy(adapter) /\ fin \subseteq HeldBy(adapter)
    BY <1>a, RecvQueueLinks
  <2>3. CASE adapter' = a /\ Called(fin) /\ UNCHANGED network
    BY <2>1, <2>2, <2>3, CarefulSame DEF network
  <2>4. ASSUME NEW ok \in BOOLEAN, WriteOutcome(a, ok), NEW c,
               c = IF Timeout = 0 THEN SendQueue(a, unacked, ok)
                   ELSE [SendQueue(a, unacked, ok) EXCEPT
                           !.timeout_count = (@ + 1) % ByteMod],
               \/ adapter' = c /\ Called(fin) /\ UNCHANGED <<tcp, wire>>
               \/ adapter' = Reset(c) /\ Called(fin \cup Dropped(c))
        PROVE  Careful
    <3> DEFINE b == SendQueue(a, unacked, ok)
    <3>1. ObjectInv(a, Bump(calls, fin \cup {}), Top)
      BY <1>a, NothingLoose, RecvQueueKeepsInv DEF Inv
    <3>2. ObjectInv(b, Bump(calls, fin \cup {}), Top)
      BY <1>a, <2>4, <3>1, SendQueueKeepsInv
    <3>3. a \in AdapterType /\ b \in AdapterType
      BY <3>1, <3>2 DEF ObjectInv
    <3> HIDE DEF a
    <3>4. /\ SameLink(a, b) /\ (b.send_queue # <<>> => a.send_queue # <<>>)
          /\ HeldBy(b) \subseteq HeldBy(a)
          /\ ok \/ ~Fetches(a) => HeldBy(a) \subseteq HeldBy(b)
      BY <1>a, <3>3, SendQueueLinks
    <3> HIDE DEF b
    <3>5. /\ c \in AdapterType /\ c.send_queue = b.send_queue
          /\ c.ack_slot = b.ack_slot /\ c.recv_slot = b.recv_slot /\ SameLink(b, c)
      <4>1. PICK k \in 0..(ByteMod - 1) : k = (b.timeout_count + 1) % ByteMod
        BY <3>3, TimeoutAssumption DEF AdapterType
      <4>2. c = b \/ c = [b EXCEPT !.timeout_count = k]
        BY <2>4, <4>1 DEF b
      <4>3. QED BY <3>3, <4>1, <4>2 DEF AdapterType, SameLink
    <3>6. HeldBy(c) = HeldBy(b)
      BY <3>5 DEF HeldBy
    <3>7. SameLink(adapter, c) /\ (c.send_queue # <<>> => adapter.send_queue # <<>>)
          /\ HeldBy(c) \subseteq HeldBy(adapter)
      BY <2>2, <3>4, <3>5, <3>6 DEF SameLink
    <3>8. Reliable /\ WaitInv => \/ HeldBy(adapter) \subseteq HeldBy(c) \cup fin
                                 \/ Astray
      <4>1. WaitInv => Linked(a, tcp) /\ Carried(a, tcp)
        BY <2>2, LinkedSame, CarriedSame DEF LinkInv, WaitInv
      <4>2. Reliable /\ WaitInv => ok \/ ~Fetches(a) \/ Astray
        BY <2>2, <2>4, <4>1, LostOnlyAstray DEF Reliable, SameLink
      <4>3. QED BY <2>2, <3>4, <3>6, <4>2
    <3>9. CASE adapter' = c /\ Called(fin) /\ UNCHANGED <<tcp, wire>>
      BY <2>1, <2>2, <3>7, <3>8, <3>9, CarefulSame
    <3>10. CASE adapter' = Reset(c) /\ Called(fin \cup Dropped(c))
      BY <2>1, <2>2, <3>5, <3>7, <3>8, <3>10, CarefulReset
    <3>11. QED BY <2>4, <3>9, <3>10
  <2>5. QED BY <1>8, <2>3, <2>4 DEF TcpPoll
<1>9. ASSUME NEW p \in Pcbs, TcpErr(p) PROVE Careful
  <2>1. adapter' = Reset(adapter) /\ Called({} \cup Dropped(adapter))
        /\ UNCHANGED <<app, posted, refused>>
    BY <1>9 DEF TcpErr
  <2>2. PICK d : d = {} /\ Called(d \cup Dropped(adapter))
    BY <2>1
  <2>3. d \subseteq HeldBy(adapter) /\ HeldBy(adapter) \subseteq HeldBy(adapter) \cup d
    BY <2>2
  <2>4. QED BY <1>a, <2>1, <2>2, <2>3, CarefulReset
<1>10. ASSUME NEW p \in Pcbs, TcpGone(p) PROVE Careful
  <2>1. /\ tcp[p] = "closing" /\ tcp' = [tcp EXCEPT ![p] = "free"]
        /\ UNCHANGED <<adapter, app, posted, calls, refused>>
    BY <1>10 DEF TcpGone
  <2>2. p # adapter.pcb
    <3>1. adapter.pcb # NULL => tcp[adapter.pcb] # "closing"
      BY DEF LinkInv, Linked
    <3>2. QED BY <2>1, <3>1, NullAssumption
  <2>3. LinkInv' /\ (WaitInv => WaitInv')
    BY <1>a, <2>1, <2>2, OtherBlock DEF LinkInv, WaitInv
  <2>4. RefusedInv' /\ RefusedOrCalled /\ NoneVanishes
    BY <1>c, <2>1, HandlerLoses
  <2>5. QED BY <2>3, <2>4 DEF Careful
<1>11. CASE Elapse
  <2>1. adapter' = [adapter EXCEPT !.late = TRUE]
        /\ UNCHANGED <<app, posted, calls, refused, tcp>>
    BY <1>11 DEF Elapse, network
  <2>2. /\ adapter'.send_queue = adapter.send_queue /\ adapter'.ack_slot = adapter.ack_slot
        /\ adapter'.recv_slot = adapter.recv_slot /\ SameLink(adapter, adapter')
    BY <1>a, <2>1 DEF AdapterType, SameLink
  <2>3. HeldBy(adapter') = HeldBy(adapter)
    BY <1>b, <2>2
  <2>4. QED BY <1>c, <2>1, <2>2, <2>3, CarefulSame
<1>12. QED
  BY <1>1, <1>2, <1>3, <1>4, <1>5, <1>6, <1>7, <1>8, <1>9, <1>10, <1>11 DEF Next, Handler

-----------------------------------------------------------------------------
(* The three invariants and, without failing connects and writes, WaitInv. *)
LEMMA LinksHold == Spec => [](Inv /\ LinkInv /\ RefusedInv)
<1>1. Init => LinkInv /\ RefusedInv
  <2> SUFFICES ASSUME Init PROVE LinkInv /\ RefusedInv
    OBVIOUS
  <2>1. LinkInv
    BY DEF Init, LinkInv, Linked
  <2>2. RefusedInv
    BY DEF Init, RefusedInv
  <2>3. QED BY <2>1, <2>2
<1>2. Inv /\ LinkInv /\ RefusedInv /\ [Next]_vars => LinkInv' /\ RefusedInv'
  <2>1. Inv /\ LinkInv /\ RefusedInv /\ Next => LinkInv' /\ RefusedInv'
    BY NextCareful DEF Careful
  <2>2. LinkInv /\ RefusedInv /\ UNCHANGED vars => LinkInv' /\ RefusedInv'
    BY DEF vars, LinkInv, RefusedInv, InPost
  <2>3. QED BY <2>1, <2>2
<1>3. QED BY InvHolds, <1>1, <1>2, PTL DEF Spec

(* The flags and the block in _pcb agree, in every state and under every   *)
(* fault: an adapter that says it is connected has an open block, its own  *)
(* unless one is astray, it reports no time-out then, and it knows of its  *)
(* own block that it is open or on its way.                                *)
THEOREM FlagsHold == Spec => []FlagsTrue
<1>1. LinkInv => FlagsTrue
  BY DEF LinkInv, Linked, FlagsTrue, Astray
<1>2. QED BY LinksHold, <1>1, PTL

(* lwIP's send buffer has room for each of the requests that wait, as it   *)
(* has for the few bytes of the devices' commands.                         *)
Room ==
    adapter.pcb # NULL =>
        \A m \in Range(adapter.send_queue) : unacked[adapter.pcb] + Length[m] <= SndBuf

Whole(a) == a.ack_slot # 0 => a.ptr >= Length[a.ack_slot]

(* A request is written whole when the block has room for it.              *)
LEMMA SendQueueWhole ==
    ASSUME NEW a \in AdapterType, NEW u \in [Pcbs -> Int], NEW ok \in BOOLEAN,
           Whole(a), WriteOutcome(a, ok),
           a.pcb # NULL => \A m \in Range(a.send_queue) : u[a.pcb] + Length[m] <= SndBuf
    PROVE  Whole(SendQueue(a, u, ok))
<1> DEFINE b == SendQueue(a, u, ok)
           q == a.send_queue
<1>1. CASE ~Fetches(a)
  BY <1>1 DEF SendQueue
<1>2. CASE Fetches(a) /\ ok
  <2>1. q # <<>> /\ q \in Seq(Msgs) /\ a.pcb \in Pcbs /\ a.pcb # NULL
    BY <1>2 DEF Fetches, WriteOutcome, Writable, AdapterType
  <2>2. Head(q) \in Msgs /\ Head(q) \in Range(q)
    <3>1. Head(q) = q[1] /\ 1 \in DOMAIN q /\ q[1] \in Msgs
      BY <2>1
    <3>2. QED BY <3>1 DEF Range
  <2>3. u[a.pcb] \in Int /\ Length[Head(q)] \in Nat /\ u[a.pcb] + Length[Head(q)] <= SndBuf
    BY <2>1, <2>2, LengthAssumption
  <2>4. WriteLen(a, u) = Length[Head(q)]
    BY <2>3, BufferAssumption DEF WriteLen
  <2>5. b.ack_slot = Head(q) /\ b.ptr = WriteLen(a, u)
    BY <1>2 DEF SendQueue, AdapterType
  <2> HIDE DEF b, q
  <2>6. QED BY <2>3, <2>4, <2>5 DEF Whole, b
<1>3. CASE Fetches(a) /\ ~ok
  <2>1. b.ack_slot = a.ack_slot /\ b.ptr = a.ptr
    BY <1>3 DEF SendQueue, AdapterType
  <2>2. QED BY <2>1 DEF Whole
<1>4. QED BY <1>1, <1>2, <1>3

(* The rest of a step keeps it.                                            *)
LEMMA OthersWhole ==
    ASSUME NEW a \in AdapterType, Whole(a), a.ack_slot = 0 \/ a.recv_slot = 0
    PROVE  /\ Whole(ProcessRecvQueue(a)) /\ Whole(Reset(a))
           /\ \A n \in Nat : Whole(Acknowledge(a, n))
<1>1. Whole(ProcessRecvQueue(a))
  BY RecvQueueLinks DEF Whole
<1>2. Whole(Reset(a))
  BY DEF Reset, AdapterType, Whole
<1>3. \A n \in Nat : Whole(Acknowledge(a, n))
  BY AcknowledgeLinks DEF Whole
<1>4. QED BY <1>1, <1>2, <1>3

(* The rest of send() keeps it.                                            *)
LEMMA SubmitWhole ==
    ASSUME NEW a \in AdapterType, a.ack_slot = 0 \/ a.recv_slot = 0, Whole(a),
           NEW m, NEW t, Submit(a, m, t)
    PROVE  Whole(adapter')
<1>1. CASE adapter' = ProcessRecvQueue(a) \/ adapter' = Reset(a)
  BY <1>1, OthersWhole
<1>2. CASE adapter' = ProcessRecvQueue([a EXCEPT !.connecting = TRUE])
  <2> DEFINE b == [a EXCEPT !.connecting = TRUE]
  <2>1. b \in AdapterType /\ b.ack_slot = a.ack_slot /\ b.recv_slot = a.recv_slot /\ b.ptr = a.ptr
    BY DEF AdapterType
  <2>2. Whole(b)
    BY <2>1 DEF Whole
  <2> HIDE DEF b
  <2>3. QED BY <1>2, <2>1, <2>2, OthersWhole DEF b
<1>3. QED BY <1>1, <1>2 DEF Submit

(* Every step keeps it while there is room.                                *)
LEMMA NextWhole ==
    ASSUME Inv, Room, Whole(adapter), [Next]_vars
    PROVE  Whole(adapter')
<1>a. /\ adapter \in AdapterType /\ (adapter.ack_slot = 0 \/ adapter.recv_slot = 0)
      /\ unacked \in [Pcbs -> Int] /\ Top \in Nat /\ 0 \in 0..(ByteMod - 1)
      /\ posted \in Nat
  BY TopIsNat, NAssumption, TimeoutAssumption DEF Inv, ObjectInv, NetworkInv, ClientInv
<1>b. ASSUME NEW b, b.ack_slot = adapter.ack_slot, b.ptr = adapter.ptr
      PROVE  Whole(b)
  BY <1>b DEF Whole
<1>1. CASE SendNoMem \/ Elapse \/ UNCHANGED vars \/ \E p \in Pcbs : TcpConnected(p) \/ TcpGone(p)
  <2>1. adapter'.ack_slot = adapter.ack_slot /\ adapter'.ptr = adapter.ptr
    BY <1>1, <1>a DEF SendNoMem, Elapse, vars, TcpConnected, TcpGone, AdapterType
  <2>2. QED BY <1>b, <2>1
<1>2. CASE Send
  <2> DEFINE Obj(p) == IF adapter.pcb = NULL THEN CreateConnection(adapter, p) ELSE adapter
             Net(p) == IF adapter.pcb = NULL THEN [tcp EXCEPT ![p] = "closed"] ELSE tcp
             Posted(p) == [Obj(p) EXCEPT !.send_queue = Append(@, posted + 1)]
  <2>1. PICK p \in Pcbs : \/ adapter' = Obj(p)
                          \/ Submit(Posted(p), posted + 1, Net(p))
                          \/ Submit(Obj(p), posted + 1, Net(p))
    BY <1>2, <1>a DEF Send, AdapterType
  <2>2. posted + 1 \in Msgs
    BY <1>2, <1>a, NAssumption DEF Send, Msgs
  <2>3. /\ Obj(p) \in AdapterType /\ Obj(p).ack_slot = adapter.ack_slot
        /\ Obj(p).recv_slot = adapter.recv_slot /\ Obj(p).ptr = adapter.ptr
    BY <1>a DEF CreateConnection, AdapterType
  <2> HIDE DEF Obj
  <2>4. /\ Posted(p) \in AdapterType /\ Posted(p).ack_slot = adapter.ack_slot
        /\ Posted(p).recv_slot = adapter.recv_slot /\ Posted(p).ptr = adapter.ptr
    <3>1. PICK s \in Seq(Msgs) : s = Obj(p).send_queue
      BY <2>3 DEF AdapterType
    <3>2. Append(s, posted + 1) \in Seq(Msgs)
      BY <2>2
    <3>3. PICK q \in Seq(Msgs) : q = Append(Obj(p).send_queue, posted + 1)
      BY <3>1, <3>2
    <3>4. QED BY <2>3, <3>3 DEF AdapterType
  <2> HIDE DEF Posted, Net
  <2>5. Whole(Obj(p)) /\ Whole(Posted(p))
    BY <1>b, <2>3, <2>4
  <2>6. QED BY <1>a, <2>1, <2>3, <2>4, <2>5, SubmitWhole
<1>3. CASE SendResume
  <2> DEFINE a == [adapter EXCEPT !.send_queue = Append(@, posted)]
  <2>1. Submit(a, posted, tcp) /\ posted \in Msgs
    BY <1>3, <1>a DEF SendResume, Inv, ClientInv, Msgs
  <2>2. /\ a \in AdapterType /\ a.ack_slot = adapter.ack_slot
        /\ a.recv_slot = adapter.recv_slot /\ a.ptr = adapter.ptr
    <3>1. PICK s \in Seq(Msgs) : s = adapter.send_queue
      BY <1>a DEF AdapterType
    <3>2. Append(s, posted) \in Seq(Msgs)
      BY <2>1
    <3>3. PICK q \in Seq(Msgs) : q = Append(adapter.send_queue, posted)
      BY <3>1, <3>2
    <3>4. QED BY <1>a, <3>3 DEF AdapterType
  <2> HIDE DEF a
  <2>3. QED BY <1>a, <1>b, <2>1, <2>2, SubmitWhole
<1>4. ASSUME NEW p \in Pcbs, TcpSent(p) PROVE Whole(adapter')
  <2> DEFINE a == [adapter EXCEPT !.timed_out = FALSE]
             U(n) == [unacked EXCEPT ![p] = @ - n]
  <2>1. PICK n \in 1..unacked[p], ok \in BOOLEAN :
          /\ WriteOutcome(a, ok)
          /\ adapter' = Acknowledge(SendQueue(a, U(n), ok), n)
    BY <1>4 DEF TcpSent
  <2>2. /\ a \in AdapterType /\ a.send_queue = adapter.send_queue /\ a.pcb = adapter.pcb
        /\ a.ack_slot = adapter.ack_slot /\ a.recv_slot = adapter.recv_slot /\ a.ptr = adapter.ptr
    BY <1>a DEF AdapterType
  <2>3. n \in Nat /\ U(n) \in [Pcbs -> Int] /\ \A q \in Pcbs : U(n)[q] <= unacked[q]
    BY <1>a
  <2>4. a.pcb # NULL => \A m \in Range(a.send_queue) : U(n)[a.pcb] + Length[m] <= SndBuf
    <3> SUFFICES ASSUME a.pcb # NULL, NEW m \in Range(a.send_queue)
                 PROVE  U(n)[a.pcb] + Length[m] <= SndBuf
      OBVIOUS
    <3>1. m \in Msgs /\ a.pcb \in Pcbs
      BY <2>2 DEF AdapterType, Range
    <3>2. unacked[a.pcb] + Length[m] <= SndBuf
      BY <2>2 DEF Room
    <3> HIDE DEF a, U
    <3>3. U(n)[a.pcb] \in Int /\ unacked[a.pcb] \in Int /\ Length[m] \in Nat
          /\ U(n)[a.pcb] <= unacked[a.pcb]
      BY <1>a, <2>3, <3>1, LengthAssumption
    <3>4. QED BY <3>2, <3>3, BufferAssumption
  <2> HIDE DEF a, U
  <2>5. Whole(SendQueue(a, U(n), ok))
    BY <1>b, <2>1, <2>2, <2>3, <2>4, SendQueueWhole
  <2>6. ObjectInv(SendQueue(a, U(n), ok), calls, Top)
    BY <1>a, <2>1, <2>2, <2>3, SameHoldings, SendQueueKeepsInv DEF Inv
  <2>7. QED BY <2>1, <2>3, <2>5, <2>6, OthersWhole DEF ObjectInv
<1>5. ASSUME NEW p \in Pcbs, TcpRecv(p) PROVE Whole(adapter')
  <2> DEFINE a == [adapter EXCEPT !.timeout_count = 0, !.timed_out = FALSE]
             B(n) == IF a.recv_slot = 0 THEN a
                     ELSE IF Len(a.recv_buf) + n <= RcvBuf
                     THEN [a EXCEPT !.recv_buf = @ \o SubSeq(wire[p], 1, n), !.late = FALSE]
                     ELSE [a EXCEPT !.late = TRUE]
  <2>1. PICK n \in 1..Len(wire[p]) : adapter' = ProcessRecvQueue(B(n))
    BY <1>5 DEF TcpRecv
  <2> DEFINE b == B(n)
  <2>2. a \in AdapterType /\ a.ack_slot = adapter.ack_slot /\ a.recv_slot = adapter.recv_slot
        /\ a.ptr = adapter.ptr /\ a.recv_buf \in Seq(Msgs)
    BY <1>a DEF AdapterType
  <2>3. b \in AdapterType /\ b.ack_slot = adapter.ack_slot /\ b.recv_slot = adapter.recv_slot
        /\ b.ptr = adapter.ptr
    <3>1. PICK r \in Seq(Msgs) : r = a.recv_buf \o SubSeq(wire[p], 1, n)
      <4>1. wire[p] \in Seq(Msgs) /\ Len(wire[p]) \in Nat
        BY DEF Inv, NetworkInv
      <4>2. SubSeq(wire[p], 1, n) \in Seq(Msgs)
        BY <4>1
      <4> HIDE DEF a
      <4>3. a.recv_buf \o SubSeq(wire[p], 1, n) \in Seq(Msgs)
        BY <2>2, <4>2
      <4>4. QED BY <4>3
    <3>2. \/ b = a
          \/ b = [a EXCEPT !.recv_buf = r, !.late = FALSE]
          \/ b = [a EXCEPT !.late = TRUE]
      BY <3>1
    <3> HIDE DEF a, b
    <3>3. QED BY <2>2, <3>2 DEF AdapterType
  <2>4. adapter' = ProcessRecvQueue(b)
    BY <2>1
  <2> HIDE DEF b
  <2>5. QED BY <1>a, <1>b, <2>3, <2>4, OthersWhole
<1>6. ASSUME NEW p \in Pcbs, TcpRecvClosed(p) PROVE Whole(adapter')
  <2> DEFINE a == [adapter EXCEPT !.timeout_count = 0, !.timed_out = FALSE,
                                  !.connected = FALSE]
  <2>1. adapter' = Reset(a)
    BY <1>6 DEF TcpRecvClosed
  <2>2. a \in AdapterType /\ a.ack_slot = adapter.ack_slot /\ a.recv_slot = adapter.recv_slot
        /\ a.ptr = adapter.ptr
    BY <1>a DEF AdapterType
  <2> HIDE DEF a
  <2>3. QED BY <1>a, <1>b, <2>1, <2>2, OthersWhole
<1>7. ASSUME NEW p \in Pcbs, TcpPoll(p) PROVE Whole(adapter')
  <2> DEFINE a == ProcessRecvQueue(adapter)
  <2>1. SameLink(adapter, a) /\ a.send_queue = adapter.send_queue /\ Whole(a)
    BY <1>a, RecvQueueLinks, OthersWhole
  <2>2. ObjectInv(a, Bump(calls, Finished(adapter) \cup {}), Top)
    BY <1>a, NothingLoose, RecvQueueKeepsInv DEF Inv
  <2>3. CASE adapter' = a
    BY <2>1, <2>3
  <2>4. ASSUME NEW ok \in BOOLEAN, WriteOutcome(a, ok), NEW c,
               c = IF Timeout = 0 THEN SendQueue(a, unacked, ok)
                   ELSE [SendQueue(a, unacked, ok) EXCEPT
                           !.timeout_count = (@ + 1) % ByteMod],
               adapter' = c \/ adapter' = Reset(c)
        PROVE  Whole(adapter')
    <3> DEFINE b == SendQueue(a, unacked, ok)
    <3>1. a.pcb # NULL => \A m \in Range(a.send_queue) : unacked[a.pcb] + Length[m] <= SndBuf
      BY <2>1 DEF Room, SameLink
    <3>2. a \in AdapterType
      BY <2>2 DEF ObjectInv
    <3>3. ObjectInv(b, Bump(calls, Finished(adapter) \cup {}), Top)
      BY <1>a, <2>2, <2>4, SendQueueKeepsInv
    <3> HIDE DEF a
    <3>4. Whole(b)
      BY <1>a, <2>1, <2>4, <3>1, <3>2, SendQueueWhole
    <3> HIDE DEF b
    <3>5. b \in AdapterType /\ (b.ack_slot = 0 \/ b.recv_slot = 0)
      BY <3>3 DEF ObjectInv
    <3>6. /\ c \in AdapterType /\ c.ack_slot = b.ack_slot /\ c.recv_slot = b.recv_slot
          /\ c.ptr = b.ptr
      <4>1. PICK k \in 0..(ByteMod - 1) : k = (b.timeout_count + 1) % ByteMod
        BY <3>5, TimeoutAssumption DEF AdapterType
      <4>2. c = b \/ c = [b EXCEPT !.timeout_count = k]
        BY <2>4, <4>1 DEF b
      <4>3. QED BY <3>5, <4>1, <4>2 DEF AdapterType
    <3>7. Whole(c)
      BY <3>4, <3>6 DEF Whole
    <3>8. QED BY <2>4, <3>5, <3>6, <3>7, OthersWhole
  <2>5. QED BY <1>7, <2>3, <2>4 DEF TcpPoll
<1>8. ASSUME NEW p \in Pcbs, TcpErr(p) PROVE Whole(adapter')
  <2>1. adapter' = Reset(adapter)
    BY <1>8 DEF TcpErr
  <2>2. QED BY <1>a, <2>1, OthersWhole
<1>9. QED
  BY <1>1, <1>2, <1>3, <1>4, <1>5, <1>6, <1>7, <1>8 DEF Next, Handler

(* With room in lwIP's send buffer every request is written whole.         *)
LEMMA WholeHolds == Spec /\ []Room => []WrittenWhole
<1>1. Init => WrittenWhole
  BY DEF Init, WrittenWhole
<1>2. Inv /\ Room /\ WrittenWhole /\ [Next]_vars => WrittenWhole'
  BY NextWhole DEF WrittenWhole, Whole
<1>3. QED BY InvHolds, <1>1, <1>2, PTL DEF Spec

(* No request is lost, whatever the device and the network do, as long as  *)
(* tcp_connect() and tcp_write() do not fail on a good block: each request *)
(* is written whole, none vanishes while no block is astray, and one that  *)
(* send() refused is called back only if the connection was reset while    *)
(* post() waited.                                                          *)
THEOREM NothingIsLost ==
    ASSUME Reliable
    PROVE  Spec /\ []Room => NoSilentLoss
<1>1. Init => WaitInv
  BY DEF Init, WaitInv, Dialling, Carried
<1>2. Inv /\ LinkInv /\ RefusedInv /\ WaitInv /\ [Next]_vars
        => WaitInv' /\ [NoneVanishes /\ RefusedOrCalled]_vars
  <2>1. Inv /\ LinkInv /\ RefusedInv /\ WaitInv /\ Next
          => WaitInv' /\ NoneVanishes /\ RefusedOrCalled
    BY NextCareful DEF Careful
  <2>2. WaitInv /\ UNCHANGED vars => WaitInv'
    BY DEF vars, WaitInv
  <2>3. QED BY <2>1, <2>2
<1>3. QED BY LinksHold, WholeHolds, <1>1, <1>2, PTL DEF Spec, NoSilentLoss

=============================================================================
