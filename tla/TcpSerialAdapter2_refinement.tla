-------------------- MODULE TcpSerialAdapter2_refinement --------------------
(***************************************************************************)
(* TcpSerialAdapter2 implements RequestFifo, proved for all values of the  *)
(* constants.                                                              *)
(*                                                                         *)
(* What the object holds is a line of requests: the one in a slot, then    *)
(* the mailbox.  Each member function takes a part off its front and calls *)
(* back some of it; a handler is a sequence of such functions, and so does *)
(* the same as a whole.                                                    *)
(***************************************************************************)
EXTENDS TcpSerialAdapter2_proofs

Line(a) == One(a.recv_slot) \o One(a.ack_slot) \o a.send_queue

(* t is what is left of s when some requests at its front, among them      *)
(* those in d, have left.                                                  *)
Gone(s, t, d) ==
    \E k \in 0..Len(s) :
        /\ Len(t) = Len(s) - k
        /\ \A i \in 1..Len(t) : t[i] = s[k + i]
        /\ \A m \in d : \E i \in 1..k : s[i] = m

(* None leaves.                                                            *)
LEMMA GoneNothing == ASSUME NEW s \in Seq(Msgs) PROVE Gone(s, s, {})
<1>1. Len(s) \in Nat
  OBVIOUS
<1>2. 0 \in 0..Len(s) /\ Len(s) = Len(s) - 0 /\ \A i \in 1..Len(s) : s[i] = s[0 + i]
  BY <1>1
<1>3. QED BY <1>2 DEF Gone

(* All leave, and any of them may be called back.                          *)
LEMMA GoneAll ==
    ASSUME NEW s \in Seq(Msgs), NEW d, d \subseteq Range(s)
    PROVE  Gone(s, <<>>, d)
<1>1. Len(s) \in Nat /\ Len(s) \in 0..Len(s)
  OBVIOUS
<1>2. Len(<<>>) = Len(s) - Len(s) /\ \A i \in 1..Len(<<>>) : <<>>[i] = s[Len(s) + i]
  BY <1>1
<1>3. \A m \in d : \E i \in 1..Len(s) : s[i] = m
  BY DEF Range
<1>4. QED BY <1>1, <1>2, <1>3 DEF Gone

(* One part leaves after the other.                                        *)
LEMMA GoneTwice ==
    ASSUME NEW s \in Seq(Msgs), NEW t \in Seq(Msgs), NEW u \in Seq(Msgs), NEW d, NEW e,
           Gone(s, t, d), Gone(t, u, e)
    PROVE  Gone(s, u, d \cup e)
<1>1. PICK k \in 0..Len(s) :
        /\ Len(t) = Len(s) - k
        /\ \A i \in 1..Len(t) : t[i] = s[k + i]
        /\ \A m \in d : \E i \in 1..k : s[i] = m
  BY DEF Gone
<1>2. PICK l \in 0..Len(t) :
        /\ Len(u) = Len(t) - l
        /\ \A i \in 1..Len(u) : u[i] = t[l + i]
        /\ \A m \in e : \E i \in 1..l : t[i] = m
  BY DEF Gone
<1>3. Len(s) \in Nat /\ Len(t) \in Nat /\ Len(u) \in Nat
  OBVIOUS
<1>4. k + l \in 0..Len(s) /\ Len(u) = Len(s) - (k + l)
  BY <1>1, <1>2, <1>3
<1>5. \A i \in 1..Len(u) : u[i] = s[(k + l) + i]
  <2> TAKE i \in 1..Len(u)
  <2>1. l + i \in 1..Len(t) /\ k + (l + i) = (k + l) + i
    BY <1>1, <1>2, <1>3
  <2>2. QED BY <1>1, <1>2, <2>1
<1>6. \A m \in d \cup e : \E i \in 1..(k + l) : s[i] = m
  <2> TAKE m \in d \cup e
  <2>1. CASE m \in d
    <3>1. PICK i \in 1..k : s[i] = m
      BY <1>1, <2>1
    <3>2. i \in 1..(k + l)
      BY <1>3
    <3>3. QED BY <3>1, <3>2
  <2>2. CASE m \in e
    <3>1. PICK i \in 1..l : t[i] = m
      BY <1>2, <2>2
    <3>2. k + i \in 1..(k + l) /\ i \in 1..Len(t)
      BY <1>3
    <3>3. s[k + i] = m
      BY <1>1, <3>1, <3>2
    <3>4. QED BY <3>2, <3>3
  <2>3. QED BY <2>1, <2>2
<1>7. QED BY <1>4, <1>5, <1>6 DEF Gone

(* Requests leave in front of one that waits in post().                    *)
LEMMA GoneBefore ==
    ASSUME NEW s \in Seq(Msgs), NEW t \in Seq(Msgs), NEW m \in Msgs, NEW d, Gone(s, t, d)
    PROVE  Gone(s \o <<m>>, t \o <<m>>, d)
<1>1. PICK k \in 0..Len(s) :
        /\ Len(t) = Len(s) - k
        /\ \A i \in 1..Len(t) : t[i] = s[k + i]
        /\ \A n \in d : \E i \in 1..k : s[i] = n
  BY DEF Gone
<1>2. Len(s) \in Nat /\ Len(t) \in Nat
  OBVIOUS
<1> DEFINE v == s \o <<m>>
           w == t \o <<m>>
<1>3. /\ Len(v) = Len(s) + 1 /\ Len(w) = Len(t) + 1
      /\ \A i \in 1..Len(s) : v[i] = s[i]
      /\ \A i \in 1..Len(t) : w[i] = t[i]
      /\ v[Len(s) + 1] = m /\ w[Len(t) + 1] = m
  OBVIOUS
<1> HIDE DEF v, w
<1>4. k \in 0..Len(v) /\ Len(w) = Len(v) - k
  BY <1>1, <1>2, <1>3
<1>5. \A i \in 1..Len(w) : w[i] = v[k + i]
  <2> TAKE i \in 1..Len(w)
  <2>1. CASE i = Len(t) + 1
    <3>1. k + i = Len(s) + 1
      BY <1>1, <1>2, <2>1
    <3>2. QED BY <1>3, <2>1, <3>1
  <2>2. CASE i # Len(t) + 1
    <3>1. i \in 1..Len(t) /\ k + i \in 1..Len(s)
      BY <1>1, <1>2, <1>3, <2>2
    <3>2. QED BY <1>1, <1>3, <3>1
  <2>3. QED BY <2>1, <2>2
<1>6. \A n \in d : \E i \in 1..k : v[i] = n
  <2>1. \A i \in 1..k : i \in 1..Len(s)
    BY <1>2
  <2>2. QED BY <1>1, <1>3, <2>1
<1>7. QED BY <1>4, <1>5, <1>6 DEF Gone, v, w

(* As RequestFifo says it.                                                 *)
LEMMA GoneIsFinish ==
    ASSUME NEW s \in Seq(Msgs), NEW t \in Seq(Msgs), NEW d, Gone(s, t, d)
    PROVE  \E k \in 0..Len(s) : /\ t = SubSeq(s, k + 1, Len(s))
                                /\ d \in SUBSET Fifo!Range(SubSeq(s, 1, k))
                                /\ k = 0 => t = s /\ d = {}
<1>1. PICK k \in 0..Len(s) :
        /\ Len(t) = Len(s) - k
        /\ \A i \in 1..Len(t) : t[i] = s[k + i]
        /\ \A m \in d : \E i \in 1..k : s[i] = m
  BY DEF Gone
<1>2. Len(s) \in Nat /\ Len(t) \in Nat
  OBVIOUS
<1>3. t = SubSeq(s, k + 1, Len(s))
  BY <1>1, <1>2
<1>4. /\ SubSeq(s, 1, k) \in Seq(Msgs) /\ Len(SubSeq(s, 1, k)) = k
      /\ \A i \in 1..k : SubSeq(s, 1, k)[i] = s[i]
  BY <1>2
<1>5. d \subseteq Fifo!Range(SubSeq(s, 1, k))
  <2> SUFFICES ASSUME NEW m \in d PROVE m \in Fifo!Range(SubSeq(s, 1, k))
    OBVIOUS
  <2>1. PICK i \in 1..k : s[i] = m
    BY <1>1
  <2>2. DOMAIN SubSeq(s, 1, k) = 1..k
    BY <1>4
  <2>3. QED BY <1>4, <2>1, <2>2 DEF Fifo!Range
<1>6. k = 0 => t = s /\ d = {}
  BY <1>1, <1>2
<1>7. QED BY <1>3, <1>5, <1>6

-----------------------------------------------------------------------------
(* What an object holds, as a line.                                        *)
LEMMA LineOf ==
    ASSUME NEW a \in AdapterType, a.ack_slot = 0 \/ a.recv_slot = 0
    PROVE  /\ a.send_queue \in Seq(Msgs) /\ Line(a) \in Seq(Msgs)
           /\ a.ack_slot = 0 /\ a.recv_slot = 0 => Line(a) = a.send_queue
           /\ a.ack_slot # 0 => /\ a.ack_slot \in Msgs
                                /\ Line(a) = <<a.ack_slot>> \o a.send_queue
           /\ a.recv_slot # 0 => /\ a.recv_slot \in Msgs
                                 /\ Line(a) = <<a.recv_slot>> \o a.send_queue
<1> DEFINE q == a.send_queue
<1>1. q \in Seq(Msgs) /\ a.ack_slot \in Slots /\ a.recv_slot \in Slots
  BY DEF AdapterType
<1>2. a.ack_slot \in Msgs \/ a.ack_slot = 0
  BY <1>1 DEF Slots
<1>3. a.recv_slot \in Msgs \/ a.recv_slot = 0
  BY <1>1 DEF Slots
<1>4. CASE a.ack_slot = 0 /\ a.recv_slot = 0
  BY <1>1, <1>4 DEF Line, One
<1>5. CASE a.ack_slot # 0
  <2>1. a.recv_slot = 0 /\ a.ack_slot \in Msgs
    BY <1>2, <1>5
  <2>2. Line(a) = <<>> \o <<a.ack_slot>> \o q
    BY <1>5, <2>1 DEF Line, One
  <2>3. QED BY <1>1, <1>5, <2>1, <2>2
<1>6. CASE a.recv_slot # 0
  <2>1. a.ack_slot = 0 /\ a.recv_slot \in Msgs
    BY <1>3, <1>6
  <2>2. Line(a) = <<a.recv_slot>> \o <<>> \o q
    BY <1>6, <2>1 DEF Line, One
  <2>3. QED BY <1>1, <1>6, <2>1, <2>2
<1>7. QED BY <1>4, <1>5, <1>6

(* Only the slots and the mailbox matter for the line.                     *)
LEMMA SameLine ==
    ASSUME NEW a, NEW b, b.send_queue = a.send_queue,
           b.ack_slot = a.ack_slot, b.recv_slot = a.recv_slot
    PROVE  Line(b) = Line(a)
BY DEF Line

(* What is held stands in the line.                                        *)
LEMMA LineHolds ==
    ASSUME NEW a \in AdapterType, a.ack_slot = 0 \/ a.recv_slot = 0
    PROVE  HeldBy(a) \subseteq Range(Line(a))
<1> DEFINE q == a.send_queue
<1>1. q \in Seq(Msgs) /\ a.ack_slot \in Slots /\ a.recv_slot \in Slots
  BY DEF AdapterType
<1>2. CASE a.ack_slot = 0 /\ a.recv_slot = 0
  BY <1>2, LineOf DEF HeldBy
<1>3. ASSUME NEW m \in Msgs, Line(a) = <<m>> \o q, HeldBy(a) \subseteq Range(q) \cup {m}
      PROVE  HeldBy(a) \subseteq Range(Line(a))
  <2> DEFINE l == <<m>> \o q
  <2>1. l \in Seq(Msgs) /\ Len(l) = Len(q) + 1 /\ l[1] = m
        /\ Len(q) \in Nat /\ \A i \in 1..Len(q) : l[i + 1] = q[i]
    BY <1>1, <1>3
  <2> HIDE DEF l
  <2>2. DOMAIN l = 1..Len(l) /\ DOMAIN q = 1..Len(q)
    BY <1>1, <2>1
  <2>3. 1 \in DOMAIN l /\ \A i \in DOMAIN q : i + 1 \in DOMAIN l
    BY <2>1, <2>2
  <2>4. m \in Range(l) /\ Range(q) \subseteq Range(l)
    BY <2>1, <2>2, <2>3 DEF Range
  <2>5. QED BY <1>3, <2>4 DEF l
<1>4. CASE a.ack_slot # 0
  BY <1>3, <1>4, LineOf DEF HeldBy
<1>5. CASE a.recv_slot # 0
  BY <1>3, <1>5, LineOf DEF HeldBy
<1>6. QED BY <1>2, <1>4, <1>5

(* _reset() drops the whole line, if what it finds in the ack slot was     *)
(* written whole.                                                          *)
LEMMA ResetGone ==
    ASSUME NEW a \in AdapterType, a.ack_slot = 0 \/ a.recv_slot = 0,
           a.ack_slot # 0 => AckDropped(a)
    PROVE  Line(Reset(a)) = <<>> /\ Gone(Line(a), Line(Reset(a)), Dropped(a))
<1> DEFINE b == Reset(a)
<1>1. b.send_queue = <<>> /\ b.recv_slot = 0 /\ b.ack_slot = 0
  BY DEF Reset, AdapterType
<1>2. Line(b) = <<>>
  <2>1. Line(b) = <<>> \o <<>> \o <<>>
    BY <1>1 DEF Line, One
  <2>2. QED BY <2>1
<1>3. Dropped(a) \subseteq Range(Line(a))
  <2>1. Dropped(a) \subseteq HeldBy(a)
    BY DEF Dropped, HeldBy, AckDropped
  <2>2. QED BY <2>1, LineHolds
<1>4. QED BY <1>2, <1>3, LineOf, GoneAll

(* A line without its head.                                                *)
LEMMA GoneHead ==
    ASSUME NEW m \in Msgs, NEW q \in Seq(Msgs), NEW d, d \subseteq {m}
    PROVE  Gone(<<m>> \o q, q, d)
<1> DEFINE l == <<m>> \o q
<1>1. l \in Seq(Msgs) /\ Len(l) = Len(q) + 1 /\ l[1] = m
      /\ Len(q) \in Nat /\ \A i \in 1..Len(q) : q[i] = l[1 + i]
  OBVIOUS
<1> HIDE DEF l
<1>2. 1 \in 0..Len(l) /\ Len(q) = Len(l) - 1
  BY <1>1
<1>3. \A n \in d : \E i \in 1..1 : l[i] = n
  BY <1>1
<1>4. QED BY <1>1, <1>2, <1>3 DEF Gone, l

(* _processRecvQueue() takes at most the head out of the line.             *)
LEMMA RecvQueueGone ==
    ASSUME NEW a \in AdapterType, a.ack_slot = 0 \/ a.recv_slot = 0
    PROVE  Gone(Line(a), Line(ProcessRecvQueue(a)), Finished(a))
<1> DEFINE b == ProcessRecvQueue(a)
<1>1. CASE ~Due(a)
  BY <1>1, LineOf, GoneNothing DEF ProcessRecvQueue, Finished
<1>2. CASE Due(a)
  <2>1. /\ b \in AdapterType /\ b.send_queue = a.send_queue
        /\ b.ack_slot = a.ack_slot /\ b.recv_slot = 0
    BY <1>2 DEF ProcessRecvQueue, AdapterType, Slots
  <2>2. a.recv_slot # 0 /\ a.ack_slot = 0
    BY <1>2 DEF Due
  <2>3. Line(b) = a.send_queue
    BY <2>1, <2>2, LineOf
  <2>4. Line(a) = <<a.recv_slot>> \o a.send_queue /\ a.recv_slot \in Msgs
    BY <2>2, LineOf
  <2>5. Finished(a) = {a.recv_slot}
    BY <1>2 DEF Finished
  <2>6. QED BY <2>3, <2>4, <2>5, LineOf, GoneHead
<1>3. QED BY <1>1, <1>2

(* _processSendQueue() moves the head of the line to the ack slot, or      *)
(* loses it without calling it back.                                       *)
LEMMA SendQueueGone ==
    ASSUME NEW a \in AdapterType, a.ack_slot = 0 \/ a.recv_slot = 0,
           NEW u \in [Pcbs -> Int], NEW ok \in BOOLEAN
    PROVE  Gone(Line(a), Line(SendQueue(a, u, ok)), {})
<1> DEFINE b == SendQueue(a, u, ok)
           q == a.send_queue
<1>1. CASE ~Fetches(a)
  BY <1>1, LineOf, GoneNothing DEF SendQueue
<1>2. CASE Fetches(a)
  <2>1. q # <<>> /\ a.ack_slot = 0 /\ a.recv_slot = 0 /\ q \in Seq(Msgs)
    BY <1>2 DEF Fetches, AdapterType
  <2>2. /\ Head(q) \in Msgs /\ Tail(q) \in Seq(Msgs) /\ q = <<Head(q)>> \o Tail(q)
    BY <2>1
  <2>3. Line(a) = q /\ Head(q) # 0
    <3>1. Line(a) = q
      BY <2>1, LineOf
    <3>2. Head(q) # 0
      BY <2>2 DEF Msgs
    <3>3. QED BY <3>1, <3>2
  <2>4. b.send_queue = Tail(q) /\ b.recv_slot = 0 /\ b.ack_slot = IF ok THEN Head(q) ELSE 0
    BY <1>2, <2>1 DEF SendQueue, AdapterType
  <2>5. CASE ok
    <3>1. Line(b) = <<>> \o <<Head(q)>> \o Tail(q)
      BY <2>2, <2>3, <2>4, <2>5 DEF Line, One
    <3>2. Line(b) = q
      BY <2>2, <3>1
    <3>3. QED BY <2>1, <2>3, <3>2, GoneNothing
  <2>6. CASE ~ok
    <3>1. Line(b) = <<>> \o <<>> \o Tail(q)
      BY <2>4, <2>6 DEF Line, One
    <3>2. Line(b) = Tail(q)
      BY <2>2, <3>1
    <3>3. Gone(<<Head(q)>> \o Tail(q), Tail(q), {})
      BY <2>2, GoneHead
    <3>4. QED BY <2>2, <2>3, <3>2, <3>3
  <2>7. QED BY <2>5, <2>6
<1>3. QED BY <1>1, <1>2

(* An acknowledgement moves the request from slot to slot.                 *)
LEMMA AcknowledgeLine ==
    ASSUME NEW a \in AdapterType, a.ack_slot = 0 \/ a.recv_slot = 0, NEW n \in Nat
    PROVE  Line(Acknowledge(a, n)) = Line(a)
<1> DEFINE b == Acknowledge(a, n)
<1>1. CASE a.ack_slot = 0
  BY <1>1 DEF Acknowledge
<1>2. CASE a.ack_slot # 0 /\ ~(a.acked + n >= Length[a.ack_slot])
  <2>1. b.send_queue = a.send_queue /\ b.ack_slot = a.ack_slot /\ b.recv_slot = a.recv_slot
    BY <1>2 DEF Acknowledge, AdapterType
  <2>2. QED BY <2>1, SameLine
<1>3. CASE a.ack_slot # 0 /\ a.acked + n >= Length[a.ack_slot]
  <2>1. b.send_queue = a.send_queue /\ b.ack_slot = 0 /\ b.recv_slot = a.ack_slot
    BY <1>3 DEF Acknowledge, AdapterType
  <2>2. a.recv_slot = 0 /\ a.ack_slot \in Msgs
    BY <1>3, LineOf
  <2>3. Line(b) = <<a.ack_slot>> \o <<>> \o a.send_queue
    BY <1>3, <2>1 DEF Line, One
  <2>4. Line(a) = <<a.ack_slot>> \o a.send_queue /\ a.send_queue \in Seq(Msgs)
    BY <1>3, LineOf
  <2>5. \A m \in Msgs, q \in Seq(Msgs) : <<m>> \o <<>> \o q = <<m>> \o q
    OBVIOUS
  <2>6. Line(b) = <<a.ack_slot>> \o a.send_queue
    BY <2>2, <2>3, <2>4, <2>5
  <2>7. QED BY <2>4, <2>6
<1>4. QED BY <1>1, <1>2, <1>3

-----------------------------------------------------------------------------
(* Steps of the adapter as steps of the FIFO.                              *)
(* The line of the FIFO is that of the object and the request in post().   *)
LEMMA PendingIs ==
    Inv => /\ Pending \in Seq(Msgs) /\ Line(adapter) \in Seq(Msgs)
           /\ app = "blocked" => Pending = Line(adapter) \o <<posted>> /\ posted \in Msgs
           /\ app # "blocked" => Pending = Line(adapter)
<1> SUFFICES ASSUME Inv
             PROVE  /\ Pending \in Seq(Msgs) /\ Line(adapter) \in Seq(Msgs)
                    /\ app = "blocked" => Pending = Line(adapter) \o <<posted>> /\ posted \in Msgs
                    /\ app # "blocked" => Pending = Line(adapter)
  OBVIOUS
<1>1. adapter \in AdapterType /\ (adapter.ack_slot = 0 \/ adapter.recv_slot = 0)
  BY DEF Inv, ObjectInv
<1>2. Line(adapter) \in Seq(Msgs)
  BY <1>1, LineOf
<1>3. app = "blocked" => posted \in Msgs
  BY NAssumption DEF Inv, ClientInv, Msgs
<1>4. Pending = Line(adapter) \o (IF app = "blocked" THEN <<posted>> ELSE <<>>)
  BY DEF Pending, Line
<1>5. QED BY <1>2, <1>3, <1>4

(* The same after a step.                                                  *)
LEMMA PendingIsNext ==
    Inv' => /\ Pending' \in Seq(Msgs) /\ Line(adapter') \in Seq(Msgs)
            /\ app' = "blocked" => Pending' = Line(adapter') \o <<posted'>> /\ posted' \in Msgs
            /\ app' # "blocked" => Pending' = Line(adapter')
<1>1. (Inv => /\ Pending \in Seq(Msgs) /\ Line(adapter) \in Seq(Msgs)
              /\ app = "blocked" => Pending = Line(adapter) \o <<posted>> /\ posted \in Msgs
              /\ app # "blocked" => Pending = Line(adapter))'
  BY PendingIs, PTL
<1>2. Line(adapter)' = Line(adapter')
  BY DEF Line, One
<1>3. QED BY <1>1, <1>2

(* Counts that stay are those of nobody being called back.                 *)
LEMMA NobodyCalled == ASSUME Inv, calls' = calls PROVE Called({})
BY DEF Inv, CountInv, Called

(* Requests finish.                                                        *)
LEMMA ServeStep ==
    ASSUME Pending \in Seq(Msgs), Pending' \in Seq(Msgs), posted' = posted, Inv,
           NEW done, Gone(Pending, Pending', done), Called(done)
    PROVE  [Fifo!Next]_(Fifo!vars)
<1>1. PICK k \in 0..Len(Pending) :
        /\ Pending' = SubSeq(Pending, k + 1, Len(Pending))
        /\ done \in SUBSET Fifo!Range(SubSeq(Pending, 1, k))
        /\ k = 0 => Pending' = Pending /\ done = {}
  BY GoneIsFinish
<1>2. CASE k = 0
  <2>1. calls' = calls
    BY <1>1, <1>2 DEF Called, Inv, CountInv
  <2>2. QED BY <1>1, <1>2, <2>1 DEF Fifo!vars
<1>3. CASE k # 0
  <2>1. k \in 1..Len(Pending)
    BY <1>3
  <2>2. Fifo!Finish(Pending, k, done)
    BY <1>1 DEF Fifo!Finish, Called, Msgs
  <2>3. Fifo!Serve
    BY <1>1, <2>1, <2>2 DEF Fifo!Serve
  <2>4. QED BY <2>3 DEF Fifo!Next
<1>4. QED BY <1>2, <1>3

(* A request is taken, and then some finish.                               *)
LEMMA TakeStep ==
    ASSUME Pending \in Seq(Msgs), Pending' \in Seq(Msgs), Inv,
           posted < N, posted' = posted + 1,
           NEW done, Gone(Pending \o <<posted + 1>>, Pending', done), Called(done)
    PROVE  Fifo!Next
<1>1. posted + 1 \in Msgs
  BY NAssumption DEF Inv, ClientInv, Msgs
<1>2. PICK line \in Seq(Msgs) :
        line = Append(Pending, posted + 1) /\ line = Pending \o <<posted + 1>>
  <2>1. \A s \in Seq(Msgs), m \in Msgs : Append(s, m) = s \o <<m>> /\ Append(s, m) \in Seq(Msgs)
    OBVIOUS
  <2>2. QED BY <1>1, <2>1
<1>3. Gone(line, Pending', done)
  BY <1>2
<1>4. PICK k \in 0..Len(line) :
        /\ Pending' = SubSeq(line, k + 1, Len(line))
        /\ done \in SUBSET Fifo!Range(SubSeq(line, 1, k))
  BY <1>3, GoneIsFinish
<1>5. Fifo!Finish(line, k, done)
  BY <1>4 DEF Fifo!Finish, Called, Msgs
<1>6. \E j \in 0..Len(line) : \E answered \in SUBSET Fifo!Range(SubSeq(line, 1, j)) :
          Fifo!Finish(line, j, answered)
  BY <1>4, <1>5
<1>7. Fifo!Take
  BY <1>2, <1>6 DEF Fifo!Take
<1>8. QED BY <1>7 DEF Fifo!Next

(* A request is turned away, or answered at once; others finish.           *)
LEMMA TurnAwayStep ==
    ASSUME Pending \in Seq(Msgs), Pending' \in Seq(Msgs), Inv,
           posted < N, posted' = posted + 1,
           NEW done, NEW e \in SUBSET {posted + 1},
           Gone(Pending, Pending', done), Called(done \cup e)
    PROVE  Fifo!Next
<1>1. PICK k \in 0..Len(Pending) :
        /\ Pending' = SubSeq(Pending, k + 1, Len(Pending))
        /\ done \in SUBSET Fifo!Range(SubSeq(Pending, 1, k))
  BY GoneIsFinish
<1>2. calls' = [m \in 1..N |-> IF m \in done \cup e THEN calls[m] + 1 ELSE calls[m]]
  BY DEF Called, Msgs
<1>3. Fifo!TurnAway
  BY <1>1, <1>2 DEF Fifo!TurnAway
<1>4. QED BY <1>3 DEF Fifo!Next

(* A handler finishes requests; the request waiting in post() stays last.  *)
LEMMA HandlerStep ==
    ASSUME Inv, Inv', posted' = posted, app' = app,
           NEW done, Gone(Line(adapter), Line(adapter'), done), Called(done)
    PROVE  [Fifo!Next]_(Fifo!vars)
<1>1. Gone(Pending, Pending', done)
  <2>1. CASE app = "blocked"
    BY <2>1, PendingIs, PendingIsNext, GoneBefore
  <2>2. CASE app # "blocked"
    BY <2>2, PendingIs, PendingIsNext
  <2>3. QED BY <2>1, <2>2
<1>2. QED BY <1>1, PendingIs, PendingIsNext, ServeStep

(* A step that leaves slots, mailbox and counts alone is none of the FIFO. *)
LEMMA QuietStep ==
    ASSUME Inv, Inv', posted' = posted, app' = app, calls' = calls,
           Line(adapter') = Line(adapter)
    PROVE  [Fifo!Next]_(Fifo!vars)
<1>1. Gone(Line(adapter), Line(adapter'), {}) /\ Called({})
  BY PendingIs, GoneNothing, NobodyCalled
<1>2. QED BY <1>1, HandlerStep

-----------------------------------------------------------------------------
(* When a request still in the ack slot after _reset() was written whole,  *)
(* _reset() has dropped the whole line.                                    *)
LEMMA ResetWhole ==
    ASSUME NEW a \in AdapterType, a.ack_slot = 0 \/ a.recv_slot = 0,
           adapter' = Reset(a), WrittenWhole'
    PROVE  Gone(Line(a), Line(adapter'), Dropped(a))
<1>1. a.ack_slot # 0 => AckDropped(a)
  <2> SUFFICES ASSUME a.ack_slot # 0, ~AckDropped(a) PROVE FALSE
    OBVIOUS
  <2>1. adapter'.ack_slot = a.ack_slot /\ adapter'.ptr = a.ptr
    BY DEF Reset, AdapterType
  <2>2. a.ptr >= Length[a.ack_slot]
    BY <2>1 DEF WrittenWhole
  <2>3. QED BY <2>2 DEF AckDropped
<1>2. QED BY <1>1, ResetGone

(* post() puts a request at the end of the line.                           *)
LEMMA LineAppend ==
    ASSUME NEW a \in AdapterType, a.ack_slot = 0 \/ a.recv_slot = 0, NEW m \in Msgs
    PROVE  LET b == [a EXCEPT !.send_queue = Append(@, m)]
           IN  /\ b \in AdapterType /\ (b.ack_slot = 0 \/ b.recv_slot = 0)
               /\ Line(b) = Line(a) \o <<m>>
<1> DEFINE b == [a EXCEPT !.send_queue = Append(@, m)]
           q == a.send_queue
<1>1. q \in Seq(Msgs) /\ Append(q, m) \in Seq(Msgs)
  BY DEF AdapterType
<1>2. /\ b \in AdapterType /\ b.send_queue = Append(q, m)
      /\ b.ack_slot = a.ack_slot /\ b.recv_slot = a.recv_slot
  BY <1>1 DEF AdapterType
<1>3. \A n \in Msgs : <<n>> \o Append(q, m) = (<<n>> \o q) \o <<m>>
  BY <1>1
<1>4. Append(q, m) = q \o <<m>>
  BY <1>1
<1>5. Line(b) = Line(a) \o <<m>>
  <2> HIDE DEF b
  <2>1. CASE a.ack_slot = 0 /\ a.recv_slot = 0
    BY <1>2, <1>4, <2>1, LineOf
  <2>2. CASE a.ack_slot # 0
    <3>1. /\ a.ack_slot \in Msgs /\ Line(a) = <<a.ack_slot>> \o q
          /\ Line(b) = <<a.ack_slot>> \o Append(q, m)
      BY <1>2, <2>2, LineOf
    <3>2. QED BY <1>3, <3>1
  <2>3. CASE a.recv_slot # 0
    <3>1. /\ a.recv_slot \in Msgs /\ Line(a) = <<a.recv_slot>> \o q
          /\ Line(b) = <<a.recv_slot>> \o Append(q, m)
      BY <1>2, <2>3, LineOf
    <3>2. QED BY <1>3, <3>1
  <2>4. QED BY <2>1, <2>2, <2>3
<1>6. QED BY <1>2, <1>5

(* The rest of send() finishes some of the line.                           *)
LEMMA SubmitGone ==
    ASSUME NEW a \in AdapterType, a.ack_slot = 0 \/ a.recv_slot = 0,
           NEW m \in Msgs, NEW t, Submit(a, m, t), WrittenWhole'
    PROVE  \E done : /\ Gone(Line(a), Line(adapter'), done)
                     /\ Called(done \cup (IF Length[m] = 0 THEN {m} ELSE {}))
<1>1. CASE a.connected \/ a.connecting
  <2>1. /\ adapter' = ProcessRecvQueue(a)
        /\ Called(Finished(a) \cup (IF Length[m] = 0 THEN {m} ELSE {}))
    BY <1>1 DEF Submit
  <2>2. QED BY <2>1, RecvQueueGone
<1>2. CASE ~(a.connected \/ a.connecting) /\ a.pcb # NULL /\ t[a.pcb] = "closed"
  <2> DEFINE b == [a EXCEPT !.connecting = TRUE]
  <2>1. /\ adapter' = ProcessRecvQueue(b)
        /\ Called(Finished(a) \cup (IF Length[m] = 0 THEN {m} ELSE {}))
    BY <1>2 DEF Submit
  <2>2. /\ b \in AdapterType /\ b.send_queue = a.send_queue
        /\ b.ack_slot = a.ack_slot /\ b.recv_slot = a.recv_slot
        /\ b.late = a.late /\ b.recv_buf = a.recv_buf
    BY DEF AdapterType
  <2> HIDE DEF b
  <2>3. Finished(b) = Finished(a)
    BY <2>2 DEF Finished, Due
  <2>4. Line(b) = Line(a)
    BY <2>2, SameLine
  <2>5. Gone(Line(b), Line(adapter'), Finished(b))
    BY <2>1, <2>2, RecvQueueGone
  <2>6. QED BY <2>1, <2>3, <2>4, <2>5
<1>3. CASE /\ ~(a.connected \/ a.connecting)
           /\ ~(a.pcb # NULL /\ t[a.pcb] = "closed")
  <2>1. /\ adapter' = Reset(a)
        /\ Called(Dropped(a) \cup (IF Length[m] = 0 THEN {m} ELSE {}))
    BY <1>3 DEF Submit
  <2>2. QED BY <2>1, ResetWhole
<1>4. QED BY <1>1, <1>2, <1>3

(* The empty adapter is the empty FIFO.                                    *)
LEMMA InitFifo == Init => Fifo!Init
<1> SUFFICES ASSUME Init PROVE Fifo!Init
  OBVIOUS
<1>1. Pending = <<>> \o <<>> \o <<>> \o <<>>
  BY DEF Init, Pending, One
<1>2. Pending = <<>>
  BY <1>1
<1>3. QED BY <1>2 DEF Init, Fifo!Init, Msgs

(* Every step is a step of the FIFO or none.                               *)
LEMMA NextFifo ==
    ASSUME Inv, Inv', WrittenWhole', [Next]_vars
    PROVE  [Fifo!Next]_(Fifo!vars)
<1>a. /\ adapter \in AdapterType /\ (adapter.ack_slot = 0 \/ adapter.recv_slot = 0)
      /\ 0 \in Slots /\ 0 \in 0..(ByteMod - 1) /\ posted \in Nat
  BY NAssumption, TimeoutAssumption DEF Inv, ObjectInv, ClientInv, Slots
<1>b. Called({}) <=> calls' = calls
  BY NobodyCalled DEF Called, Inv, CountInv
<1>1. CASE SendNoMem
  <2>1. /\ app = "idle" /\ app' # "blocked" /\ posted < N /\ posted' = posted + 1
        /\ calls' = calls /\ adapter' = [adapter EXCEPT !.timeout_count = 0]
    BY <1>1 DEF SendNoMem
  <2>2. Line(adapter') = Line(adapter)
    BY <1>a, <2>1, SameLine DEF AdapterType
  <2>3. Gone(Pending, Pending', {}) /\ Called({} \cup {})
    BY <1>b, <2>1, <2>2, PendingIs, PendingIsNext, GoneNothing
  <2>4. QED BY <2>1, <2>3, PendingIs, PendingIsNext, TurnAwayStep
<1>2. CASE Send
  <2> DEFINE new == adapter.pcb = NULL
             m == posted + 1
             Obj(p) == IF new THEN CreateConnection(adapter, p) ELSE adapter
             Net(p) == IF new THEN [tcp EXCEPT ![p] = "closed"] ELSE tcp
             Posted(p) == [Obj(p) EXCEPT !.send_queue = Append(@, m)]
  <2>1. app = "idle" /\ posted < N /\ posted' = m /\ m \in Msgs
    BY <1>2, <1>a, NAssumption DEF Send, Msgs
  <2>2. PICK p \in Pcbs :
             \/ /\ Length[m] > 0
                /\ app' = "blocked" /\ adapter' = Obj(p) /\ calls' = calls
             \/ /\ Length[m] > 0
                /\ Submit(Posted(p), m, Net(p))
                /\ app' = app
             \/ /\ Length[m] = 0
                /\ Submit(Obj(p), m, Net(p))
                /\ app' = app
    BY <1>2, <1>a DEF Send, AdapterType
  <2>3. /\ Obj(p) \in AdapterType /\ Obj(p).send_queue = adapter.send_queue
        /\ Obj(p).ack_slot = adapter.ack_slot /\ Obj(p).recv_slot = adapter.recv_slot
    BY <1>a DEF CreateConnection, AdapterType
  <2>4. Line(Obj(p)) = Line(adapter) /\ Pending = Line(adapter)
    BY <2>1, <2>3, SameLine, PendingIs
  <2> HIDE DEF Obj, Net
  <2>5. CASE app' = "blocked" /\ adapter' = Obj(p) /\ calls' = calls
    <3>1. Pending' = Pending \o <<posted + 1>>
      BY <2>1, <2>4, <2>5, PendingIsNext
    <3>2. Gone(Pending \o <<posted + 1>>, Pending', {}) /\ Called({})
      BY <1>b, <2>5, <3>1, PendingIsNext, GoneNothing
    <3>3. QED BY <2>1, <3>2, PendingIs, PendingIsNext, TakeStep
  <2>6. CASE Length[m] > 0 /\ Submit(Posted(p), m, Net(p)) /\ app' = app
    <3>1. /\ Posted(p) \in AdapterType /\ (Posted(p).ack_slot = 0 \/ Posted(p).recv_slot = 0)
          /\ Line(Posted(p)) = Pending \o <<posted + 1>>
      BY <1>a, <2>1, <2>3, <2>4, LineAppend
    <3> HIDE DEF Posted
    <3>2. PICK done : /\ Gone(Line(Posted(p)), Line(adapter'), done)
                      /\ Called(done \cup (IF Length[m] = 0 THEN {m} ELSE {}))
      BY <2>1, <2>6, <3>1, SubmitGone
    <3>3. Called(done)
      <4>1. done \cup (IF Length[m] = 0 THEN {m} ELSE {}) = done
        BY <2>6
      <4>2. QED BY <3>2, <4>1
    <3>4. Gone(Pending \o <<posted + 1>>, Pending', done)
      BY <2>1, <2>6, <3>1, <3>2, PendingIsNext
    <3>5. QED BY <2>1, <3>3, <3>4, PendingIs, PendingIsNext, TakeStep
  <2>7. CASE Length[m] = 0 /\ Submit(Obj(p), m, Net(p)) /\ app' = app
    <3>1. PICK done : /\ Gone(Line(Obj(p)), Line(adapter'), done)
                      /\ Called(done \cup (IF Length[m] = 0 THEN {m} ELSE {}))
      BY <1>a, <2>1, <2>3, <2>7, SubmitGone
    <3>2. Called(done \cup {posted + 1})
      BY <2>7, <3>1
    <3>3. Gone(Pending, Pending', done)
      BY <2>1, <2>4, <2>7, <3>1, PendingIsNext
    <3>4. QED BY <2>1, <3>2, <3>3, PendingIs, PendingIsNext, TurnAwayStep
  <2>8. QED BY <2>2, <2>5, <2>6, <2>7
<1>3. CASE SendResume
  <2> DEFINE a == [adapter EXCEPT !.send_queue = Append(@, posted)]
  <2>1. /\ app = "blocked" /\ app' = "idle" /\ posted' = posted /\ Submit(a, posted, tcp)
        /\ posted \in Msgs /\ Length[posted] > 0
    BY <1>3, PendingIs DEF SendResume, Inv, ClientInv
  <2>2. /\ a \in AdapterType /\ (a.ack_slot = 0 \/ a.recv_slot = 0)
        /\ Line(a) = Pending
    BY <1>a, <2>1, LineAppend, PendingIs
  <2> HIDE DEF a
  <2>3. PICK done : /\ Gone(Line(a), Line(adapter'), done)
                    /\ Called(done \cup (IF Length[posted] = 0 THEN {posted} ELSE {}))
    BY <2>1, <2>2, SubmitGone
  <2>4. Called(done)
    <3>1. done \cup (IF Length[posted] = 0 THEN {posted} ELSE {}) = done
      BY <2>1
    <3>2. QED BY <2>3, <3>1
  <2>5. Gone(Pending, Pending', done)
    BY <2>1, <2>2, <2>3, PendingIsNext
  <2>6. QED BY <2>1, <2>4, <2>5, PendingIs, PendingIsNext, ServeStep
<1>4. ASSUME NEW p \in Pcbs, TcpConnected(p)
      PROVE  [Fifo!Next]_(Fifo!vars)
  <2>1. /\ adapter' = [adapter EXCEPT !.connected = TRUE, !.connecting = FALSE,
                                      !.timed_out = FALSE, !.timeout_count = 0]
        /\ UNCHANGED <<app, posted, calls>>
    BY <1>4 DEF TcpConnected
  <2>2. Line(adapter') = Line(adapter)
    BY <1>a, <2>1, SameLine DEF AdapterType
  <2>3. QED BY <2>1, <2>2, QuietStep
<1>5. ASSUME NEW p \in Pcbs, TcpSent(p)
      PROVE  [Fifo!Next]_(Fifo!vars)
  <2> DEFINE a == [adapter EXCEPT !.timed_out = FALSE]
  <2>1. PICK n \in 1..unacked[p], ok \in BOOLEAN :
          /\ WriteOutcome(a, ok)
          /\ adapter' = Acknowledge(SendQueue(a, [unacked EXCEPT ![p] = @ - n], ok), n)
    BY <1>5 DEF TcpSent
  <2> DEFINE u == [unacked EXCEPT ![p] = @ - n]
             b == SendQueue(a, u, ok)
  <2>2. UNCHANGED <<app, posted, calls>>
    BY <1>5 DEF TcpSent
  <2>3. /\ a \in AdapterType /\ a.send_queue = adapter.send_queue
        /\ a.ack_slot = adapter.ack_slot /\ a.recv_slot = adapter.recv_slot
    BY <1>a DEF AdapterType
  <2>4. n \in Nat /\ u \in [Pcbs -> Int] /\ adapter' = Acknowledge(b, n)
    BY <2>1 DEF Inv, NetworkInv
  <2>5. Line(a) = Line(adapter) /\ ObjectInv(a, calls, Top)
    <3>1. Top \in Nat
      BY TopIsNat DEF Inv
    <3>2. QED BY <2>3, <3>1, SameLine, SameHoldings DEF Inv
  <2> HIDE DEF a, u
  <2>6. Gone(Line(a), Line(b), {})
    BY <1>a, <2>3, <2>4, SendQueueGone
  <2>7. ObjectInv(b, calls, Top)
    BY <2>1, <2>4, <2>5, TopIsNat, SendQueueKeepsInv DEF Inv, u
  <2>8. b \in AdapterType /\ (b.ack_slot = 0 \/ b.recv_slot = 0)
    BY <2>7 DEF ObjectInv
  <2> HIDE DEF b
  <2>9. Line(adapter') = Line(b)
    BY <2>4, <2>8, AcknowledgeLine
  <2>10. QED BY <1>b, <2>2, <2>5, <2>6, <2>9, HandlerStep
<1>6. ASSUME NEW p \in Pcbs, TcpRecv(p)
      PROVE  [Fifo!Next]_(Fifo!vars)
  <2> DEFINE a == [adapter EXCEPT !.timeout_count = 0, !.timed_out = FALSE]
             B(n) == IF a.recv_slot = 0 THEN a
                     ELSE IF Len(a.recv_buf) + n <= RcvBuf
                     THEN [a EXCEPT !.recv_buf = @ \o SubSeq(wire[p], 1, n), !.late = FALSE]
                     ELSE [a EXCEPT !.late = TRUE]
  <2>1. PICK n \in 1..Len(wire[p]) :
          adapter' = ProcessRecvQueue(B(n)) /\ Called(Finished(B(n)))
    BY <1>6 DEF TcpRecv
  <2> DEFINE b == B(n)
  <2>2. UNCHANGED <<app, posted>>
    BY <1>6 DEF TcpRecv
  <2>3. wire[p] \in Seq(Msgs) /\ SubSeq(wire[p], 1, n) \in Seq(Msgs)
    <3>1. wire[p] \in Seq(Msgs) /\ Len(wire[p]) \in Nat
      BY DEF Inv, NetworkInv
    <3>2. QED BY <3>1
  <2>4. a \in AdapterType /\ a.send_queue = adapter.send_queue
        /\ a.ack_slot = adapter.ack_slot /\ a.recv_slot = adapter.recv_slot
        /\ a.recv_buf \in Seq(Msgs)
    BY <1>a DEF AdapterType
  <2>5. b \in AdapterType /\ b.send_queue = adapter.send_queue
        /\ b.ack_slot = adapter.ack_slot /\ b.recv_slot = adapter.recv_slot
    <3>1. PICK r \in Seq(Msgs) : r = a.recv_buf \o SubSeq(wire[p], 1, n)
      <4> HIDE DEF a
      <4>1. a.recv_buf \o SubSeq(wire[p], 1, n) \in Seq(Msgs)
        BY <2>3, <2>4
      <4>2. QED BY <4>1
    <3>2. \/ b = a
          \/ b = [a EXCEPT !.recv_buf = r, !.late = FALSE]
          \/ b = [a EXCEPT !.late = TRUE]
      BY <3>1
    <3> HIDE DEF a, b
    <3>3. QED BY <2>4, <3>2 DEF AdapterType
  <2>6. adapter' = ProcessRecvQueue(b) /\ Called(Finished(b))
    BY <2>1
  <2> HIDE DEF b
  <2>7. Line(b) = Line(adapter) /\ Gone(Line(b), Line(adapter'), Finished(b))
    BY <1>a, <2>5, <2>6, SameLine, RecvQueueGone
  <2>8. QED BY <2>2, <2>6, <2>7, HandlerStep
<1>7. ASSUME NEW p \in Pcbs, TcpRecvClosed(p)
      PROVE  [Fifo!Next]_(Fifo!vars)
  <2> DEFINE a == [adapter EXCEPT !.timeout_count = 0, !.timed_out = FALSE,
                                  !.connected = FALSE]
  <2>1. adapter' = Reset(a) /\ Called(Dropped(a)) /\ UNCHANGED <<app, posted>>
    BY <1>7 DEF TcpRecvClosed
  <2>2. a \in AdapterType /\ a.send_queue = adapter.send_queue
        /\ a.ack_slot = adapter.ack_slot /\ a.recv_slot = adapter.recv_slot
    BY <1>a DEF AdapterType
  <2> HIDE DEF a
  <2>3. Line(a) = Line(adapter) /\ Gone(Line(a), Line(adapter'), Dropped(a))
    BY <1>a, <2>1, <2>2, SameLine, ResetWhole
  <2>4. QED BY <2>1, <2>3, HandlerStep
<1>8. ASSUME NEW p \in Pcbs, TcpPoll(p)
      PROVE  [Fifo!Next]_(Fifo!vars)
  <2> DEFINE a == ProcessRecvQueue(adapter)
             fin == Finished(adapter)
  <2>1. UNCHANGED <<app, posted>>
    BY <1>8 DEF TcpPoll
  <2>2. Gone(Line(adapter), Line(a), fin)
    BY <1>a, RecvQueueGone
  <2>3. a \in AdapterType /\ (a.ack_slot = 0 \/ a.recv_slot = 0)
    BY <1>a DEF ProcessRecvQueue, AdapterType
  <2>4. CASE adapter' = a /\ Called(fin)
    BY <2>1, <2>2, <2>4, HandlerStep
  <2>5. ASSUME NEW ok \in BOOLEAN, WriteOutcome(a, ok),
               NEW c,
               c = IF Timeout = 0 THEN SendQueue(a, unacked, ok)
                   ELSE [SendQueue(a, unacked, ok) EXCEPT
                           !.timeout_count = (@ + 1) % ByteMod],
               \/ adapter' = c /\ Called(fin)
               \/ adapter' = Reset(c) /\ Called(fin \cup Dropped(c))
        PROVE  [Fifo!Next]_(Fifo!vars)
    <3> DEFINE b == SendQueue(a, unacked, ok)
    <3>1. unacked \in [Pcbs -> Int]
      BY DEF Inv, NetworkInv
    <3>2. b \in AdapterType /\ (b.ack_slot = 0 \/ b.recv_slot = 0)
      <4> DEFINE cs == Bump(calls, fin \cup {})
      <4>1. ObjectInv(a, cs, Top)
        BY TopIsNat, NothingLoose, RecvQueueKeepsInv DEF Inv
      <4>2. ObjectInv(b, cs, Top)
        BY <2>5, <3>1, <4>1, TopIsNat, SendQueueKeepsInv DEF Inv
      <4>3. QED BY <4>2 DEF ObjectInv
    <3>3. Gone(Line(a), Line(b), {})
      BY <2>3, <3>1, SendQueueGone
    <3> HIDE DEF a, b
    <3>4. c \in AdapterType /\ c.send_queue = b.send_queue
          /\ c.ack_slot = b.ack_slot /\ c.recv_slot = b.recv_slot
      <4>1. PICK k \in 0..(ByteMod - 1) : k = (b.timeout_count + 1) % ByteMod
        BY <3>2, TimeoutAssumption DEF AdapterType
      <4>2. c = b \/ c = [b EXCEPT !.timeout_count = k]
        BY <2>5, <4>1 DEF b
      <4>3. QED BY <3>2, <4>1, <4>2 DEF AdapterType
    <3>5. /\ Line(adapter) \in Seq(Msgs) /\ Line(a) \in Seq(Msgs) /\ Line(b) \in Seq(Msgs)
          /\ Line(c) = Line(b) /\ Line(adapter') \in Seq(Msgs)
      BY <1>a, <2>3, <3>2, <3>4, LineOf, SameLine, PendingIsNext
    <3>6. Gone(Line(adapter), Line(c), fin)
      <4>1. Gone(Line(adapter), Line(b), fin \cup {})
        BY <2>2, <3>3, <3>5, GoneTwice
      <4>2. fin \cup {} = fin
        OBVIOUS
      <4>3. QED BY <3>5, <4>1, <4>2
    <3>7. CASE adapter' = c /\ Called(fin)
      BY <2>1, <3>6, <3>7, HandlerStep
    <3>8. CASE adapter' = Reset(c) /\ Called(fin \cup Dropped(c))
      <4>1. Gone(Line(c), Line(adapter'), Dropped(c))
        BY <3>2, <3>4, <3>8, ResetWhole
      <4>2. Gone(Line(adapter), Line(adapter'), fin \cup Dropped(c))
        BY <3>5, <3>6, <4>1, GoneTwice
      <4>3. QED BY <2>1, <3>8, <4>2, HandlerStep
    <3>9. QED BY <2>5, <3>7, <3>8
  <2>6. QED BY <1>8, <2>4, <2>5 DEF TcpPoll
<1>9. ASSUME NEW p \in Pcbs, TcpErr(p)
      PROVE  [Fifo!Next]_(Fifo!vars)
  <2>1. adapter' = Reset(adapter) /\ Called(Dropped(adapter)) /\ UNCHANGED <<app, posted>>
    BY <1>9 DEF TcpErr
  <2>2. QED BY <1>a, <2>1, ResetWhole, HandlerStep
<1>10. ASSUME NEW p \in Pcbs, TcpGone(p)
       PROVE  [Fifo!Next]_(Fifo!vars)
  BY <1>10, QuietStep DEF TcpGone
<1>11. CASE Elapse
  <2>1. adapter' = [adapter EXCEPT !.late = TRUE] /\ UNCHANGED <<app, posted, calls>>
    BY <1>11 DEF Elapse
  <2>2. Line(adapter') = Line(adapter)
    BY <1>a, <2>1, SameLine DEF AdapterType
  <2>3. QED BY <2>1, <2>2, QuietStep
<1>12. CASE UNCHANGED vars
  BY <1>12, QuietStep DEF vars
<1>13. QED
  BY <1>1, <1>2, <1>3, <1>4, <1>5, <1>6, <1>7, <1>8, <1>9, <1>10, <1>11, <1>12
     DEF Next, Handler

-----------------------------------------------------------------------------
(* For any number of requests, any mailbox, pool, buffers and faults: the  *)
(* adapter implements the FIFO its clients rely on, as long as tcp_write() *)
(* has room for a whole request.  Whatever order the handlers run in,      *)
(* whatever is reset half way: requests leave in the order of send(), and  *)
(* a callback runs when its request leaves and not again.                  *)
THEOREM Refinement == Spec /\ []WrittenWhole => ImplementsFifo
<1>1. Inv /\ Inv' /\ WrittenWhole' /\ [Next]_vars => [Fifo!Next]_(Fifo!vars)
  BY NextFifo
<1>2. QED BY InitFifo, InvHolds, <1>1, PTL DEF Spec, ImplementsFifo, Fifo!Spec
=============================================================================
