--------------------- MODULE TcpAdapterPreemption_proofs ---------------------
(***************************************************************************)
(* Proofs about TcpAdapterPreemption, for any number of requests and any   *)
(* faults.                                                                 *)
(*                                                                         *)
(* send() may run between any two steps of a handler, but all it does to a *)
(* slot is to empty it, and as long as no flag is lost it only appends to  *)
(* the mailbox.  The invariant says for each step of the handlers what must*)
(* still hold when it is reached: of the slots (SlotInv, ResetInv), of the *)
(* flags (FlagInv), of what _reset() reads again (LimitInv), and of the    *)
(* order (OrderInv): the requests were fetched one after the other, and all*)
(* but the last one fetched were called back.                              *)
(***************************************************************************)
EXTENDS TcpAdapterPreemption, SequenceTheorems, TLAPS

Resetting == {"resetRecv", "resetAck", "drain", "resetPcb", "resetFlags"}
Steps == {"idle", "call", "clear", "load", "fetch", "store", "credit", "credited", "fill", "poll",
          "lastPoll", "polled", "connected", "follow", "free", "lost"} \cup Resetting
Taking == {"call", "follow", "free", "clear"}

Types ==
    /\ TypeOK
    /\ handler \in [at : Steps, m : Slots, from : {"none", "ack", "recv"}, then : Steps]
    /\ Len(queue) <= posted

(* The slots: both are taken only while a request moves from one to the    *)
(* other; a fetched request finds them empty; what a handler is about to   *)
(* take out of a slot is in it, if send() did not.                         *)
SlotInv ==
    /\ slot.ack # 0 /\ slot.recv # 0 => handler.at = "credited"
    /\ handler.at = "credited" =>
           slot.ack = 0 \/ slot.recv = slot.ack \/ calls[slot.ack] > 0
    /\ handler.at = "store" => slot.ack = 0 /\ slot.recv = 0
    /\ handler.at = "call" => handler.from = "none" \/ slot[handler.from] \in {0, handler.m}
    /\ handler.at \in {"follow", "free", "clear"} => /\ handler.from \in {"ack", "recv"}
                                                    /\ slot[handler.from] \in {0, handler.m}
    /\ handler.at \in {"free", "clear"} => calls[handler.m] > 0

(* _reset() has emptied the slots it has gone past.                        *)
ResetInv ==
    /\ handler.at \in Resetting \ {"resetRecv"} => slot.recv = 0
    /\ handler.at \in Resetting \ {"resetRecv", "resetAck"} => slot.ack = 0
    /\ handler.at \in Taking /\ handler.then = "drain" =>
           slot.recv = 0 /\ (handler.from = "none" => slot.ack = 0) /\ handler.from # "recv"
    /\ handler.then \in {"resetAck", "drain"} => handler.at \in Taking
    /\ handler.at \in {"follow", "free"} => handler.then \in {"resetAck", "drain"}
    /\ handler.at \in Taking /\ handler.then # "drain" => handler.from = "recv"
    /\ handler.then = "lastPoll" => handler.at \in {"load", "call", "clear"}
    /\ handler.then \in {"idle", "credit", "poll", "lastPoll", "polled", "resetAck", "drain"}

(* As long as the device closes no connection, flags are only cleared when *)
(* there is none, so that send() has no reason to reset.                   *)
FlagInv ==
    ~closed =>
        /\ flags = {} => pcb \in {"none", "closed"}
        /\ handler.at = "connected" => "connected" \in flags
        /\ {handler.at, handler.then} \cap (Resetting \cup {"polled"}) # {} => "connected" \in flags
        /\ handler.at = "resetFlags" => pcb \in {"none", "closed"}
        /\ refused = {}

(* As long as the device closes no connection, _reset() runs after the last*)
(* poll only.  By then the receive slot is empty, so that send() takes away*)
(* nothing that _reset() reads again.                                      *)
LimitInv ==
    ~closed =>
        /\ handler.at = "load" /\ handler.then = "lastPoll" => slot.recv \in due \cup {0}
        /\ handler.at \in Resetting \cup {"lastPoll", "polled"} => slot.recv = 0
        /\ handler.then \in {"polled", "resetAck", "drain"} => slot.recv = 0
        /\ handler.at \in {"follow", "free"} => slot[handler.from] = handler.m
        /\ handler.at # "lost"

(* The last request that left the mailbox.                                 *)
Fetched == posted - Len(queue)

OrderInv ==
    ~closed =>
        /\ \A i \in 1..Len(queue) : queue[i] = Fetched + i
        /\ slot.ack \in {0, Fetched} /\ slot.recv \in {0, Fetched}
        /\ handler.at \in {"call", "store"} => handler.m = Fetched
        /\ \A m \in Msgs : /\ m < Fetched => calls[m] > 0
                           /\ m > Fetched => calls[m] = 0
        /\ \/ Fetched = 0 \/ calls[Fetched] > 0
           \/ Fetched \in {slot.ack, slot.recv} \/ handler.at \in {"call", "store"}

Inv == Types /\ SlotInv /\ ResetInv /\ FlagInv /\ LimitInv /\ OrderInv

-----------------------------------------------------------------------------
LEMMA InitInv == Init => Inv
<1> SUFFICES ASSUME Init PROVE Inv
  OBVIOUS
<1>1. N \in Nat /\ <<>> \in Seq(Msgs) /\ Len(<<>>) = 0
  BY NAssumption
<1>2. TypeOK
  <2>1. slot \in [ack : Slots, recv : Slots] /\ posted \in 0..N /\ calls \in [Msgs -> Nat]
    BY <1>1 DEF Init, Slots
  <2>2. handler.m \in IF handler.at \in Holding THEN Msgs ELSE {0}
    BY DEF Init, Idle, Holding
  <2>3. Len(queue) <= N /\ inflight \in Slots /\ handler.from \in {"none", "ack", "recv"}
    BY <1>1 DEF Init, Idle, Slots
  <2>4. QED BY <1>1, <2>1, <2>2, <2>3 DEF Init, TypeOK
<1>3. Types
  BY <1>1, <1>2 DEF Init, Types, Slots, Steps, Idle
<1>4. SlotInv /\ ResetInv /\ FlagInv /\ LimitInv
  BY DEF Init, SlotInv, ResetInv, FlagInv, LimitInv, Resetting, Taking, Idle
<1>5. OrderInv
  <2>0. posted = 0 /\ Len(queue) = 0
    BY <1>1 DEF Init
  <2>1. Fetched = 0 /\ Len(queue) = 0
    BY <2>0 DEF Fetched
  <2>2. QED BY <1>1, <2>1 DEF Init, OrderInv, Msgs, Idle
<1>6. QED BY <1>3, <1>4, <1>5 DEF Inv

(* Callbacks are counted.                                                  *)
LEMMA CallsGrow ==
    ASSUME Types, NEW done, Called(done)
    PROVE  /\ calls' \in [Msgs -> Nat]
           /\ \A m \in Msgs : /\ calls'[m] >= calls[m]
                              /\ m \in done => calls'[m] > 0
                              /\ m \notin done => calls'[m] = calls[m]
  BY DEF Types, TypeOK, Called

(* What the types say of the parts.                                        *)
LEMMA TypesAre ==
    ASSUME Types
    PROVE  /\ N \in Nat /\ Msgs = 1..N /\ Slots = 0..N
           /\ posted \in 0..N /\ Len(queue) \in Nat /\ Fetched \in 0..posted
           /\ calls \in [Msgs -> Nat] /\ queue \in Seq(Msgs)
           /\ slot \in [ack : Slots, recv : Slots] /\ slot.ack \in Slots /\ slot.recv \in Slots
           /\ slot = [ack |-> slot.ack, recv |-> slot.recv]
           /\ handler.m \in Slots
           /\ handler.at \in Holding => handler.m \in Msgs
  BY NAssumption DEF Types, TypeOK, Msgs, Slots, Fetched, Holding

(* send() with a flag set, or with no connection to lose.                  *)
LEMMA AppendKeeps ==
    ASSUME Inv, posted < N, posted' = posted + 1, queue' = Append(queue, posted + 1), FinishDue,
           UNCHANGED <<refused, due, handler, closed>>,
           inflight' = IF pcb = "none" THEN 0 ELSE inflight,
           flags # {} => flags' = flags /\ pcb' = IF pcb = "none" THEN "closed" ELSE pcb,
           flags = {} => /\ pcb \in {"none", "closed"} /\ pcb' = "synsent" /\ flags' = {"connecting"}
    PROVE  Inv'
<1>1. /\ N \in Nat /\ Msgs = 1..N /\ Slots = 0..N /\ posted \in 0..N /\ Len(queue) \in Nat
      /\ Fetched \in 0..posted /\ queue \in Seq(Msgs) /\ slot.ack \in Slots /\ slot.recv \in Slots
  BY TypesAre DEF Inv
<1>2. posted' \in Msgs /\ posted' \in 0..N /\ posted + 1 \in Msgs
  BY <1>1
<1>3. /\ queue' \in Seq(Msgs) /\ Len(queue') = Len(queue) + 1 /\ queue'[Len(queue) + 1] = posted + 1
      /\ \A i \in 1..Len(queue) : queue'[i] = queue[i]
  BY <1>1, <1>2, AppendProperties
<1>4. Fetched' = Fetched
  BY <1>1, <1>3 DEF Fetched
<1>5. PICK done : /\ done = {slot.recv} \cap due /\ Called(done)
                  /\ slot' = IF done # {} THEN [slot EXCEPT !.recv = 0] ELSE slot
  BY DEF FinishDue
<1>6. /\ calls' \in [Msgs -> Nat]
      /\ \A m \in Msgs : calls'[m] >= calls[m] /\ (m \in done => calls'[m] > 0)
                         /\ (m \notin done => calls'[m] = calls[m])
  BY <1>5, CallsGrow DEF Inv
<1>7. /\ slot' \in [ack : Slots, recv : Slots] /\ slot'.ack = slot.ack
      /\ slot'.recv \in {0, slot.recv}
      /\ slot'.recv = 0 /\ slot.recv # 0 => calls'[slot.recv] > 0
  BY <1>1, <1>5, <1>6 DEF Inv, Types, TypeOK
<1>8. Types'
  <2>1. Len(queue') <= posted' /\ Len(queue') <= N
    BY <1>1, <1>3 DEF Inv, Types
  <2>2. pcb' \in {"none", "closed", "synsent", "open", "closewait", "closing"}
        /\ flags' \subseteq {"connected", "connecting"}
    BY DEF Inv, Types, TypeOK
  <2>3. inflight' \in Slots
    BY <1>1 DEF Inv, Types, TypeOK
  <2>4. QED BY <1>2, <1>3, <1>6, <1>7, <2>1, <2>2, <2>3 DEF Inv, Types, TypeOK
<1>9. SlotInv'
  <2>1. \A m \in Msgs : calls[m] > 0 => calls'[m] > 0
    BY <1>6 DEF Inv, Types, TypeOK
  <2>2. slot'.ack # 0 /\ slot'.recv # 0 => handler.at = "credited"
    BY <1>7 DEF Inv, SlotInv
  <2>3. handler.at = "credited" => slot'.ack = 0 \/ slot'.recv = slot'.ack \/ calls'[slot'.ack] > 0
    BY <1>1, <1>7, <2>1 DEF Inv, SlotInv
  <2>4. handler.at = "store" => slot'.ack = 0 /\ slot'.recv = 0
    BY <1>7 DEF Inv, SlotInv
  <2>5. handler.from \in {"ack", "recv"} => slot'[handler.from] \in {0, slot[handler.from]}
    BY <1>7
  <2>6. handler.from \in {"none", "ack", "recv"}
    BY DEF Inv, Types, TypeOK
  <2>7. handler.at = "call" => handler.from = "none" \/ slot'[handler.from] \in {0, handler.m}
    BY <2>5, <2>6 DEF Inv, SlotInv
  <2>8. /\ handler.at \in {"follow", "free", "clear"} =>
               handler.from \in {"ack", "recv"} /\ slot'[handler.from] \in {0, handler.m}
        /\ handler.at \in {"free", "clear"} => calls'[handler.m] > 0
    BY <2>1, <2>5, TypesAre DEF Inv, SlotInv, Holding
  <2>9. QED BY <2>2, <2>3, <2>4, <2>7, <2>8 DEF SlotInv
<1>10. ResetInv'
  BY <1>7 DEF Inv, ResetInv
<1>11. FlagInv'
  BY DEF Inv, FlagInv, Resetting
<1>12. OrderInv'
  <2> SUFFICES ASSUME ~closed PROVE OrderInv'
    BY DEF OrderInv
  <2>1. \A i \in 1..Len(queue') : queue'[i] = Fetched' + i
    <3>1. \A i \in 1..Len(queue) : queue'[i] = Fetched + i
      BY <1>3 DEF Inv, OrderInv
    <3>2. queue'[Len(queue) + 1] = Fetched + (Len(queue) + 1)
      BY <1>1, <1>3 DEF Fetched
    <3>3. QED BY <1>1, <1>3, <1>4, <3>1, <3>2
  <2>2. slot'.ack \in {0, Fetched} /\ slot'.recv \in {0, Fetched}
    BY <1>7 DEF Inv, OrderInv
  <2>3. done \cap Msgs \subseteq {Fetched}
    BY <1>5, <1>1 DEF Inv, OrderInv
  <2>4. ASSUME NEW m \in Msgs PROVE (m < Fetched => calls'[m] > 0) /\ (m > Fetched => calls'[m] = 0)
    <3>1. CASE m < Fetched
      <4>1. calls[m] > 0 /\ calls'[m] >= calls[m] /\ calls[m] \in Nat /\ calls'[m] \in Nat
        BY <3>1, <1>6 DEF Inv, OrderInv, Types, TypeOK
      <4>2. QED BY <4>1, <3>1, <1>1
    <3>2. CASE m > Fetched
      <4>1. m \notin done
        BY <3>2, <2>3, <1>1
      <4>2. QED BY <3>2, <4>1, <1>1, <1>6 DEF Inv, OrderInv
    <3>3. QED BY <3>1, <3>2, <1>1
  <2>5. \/ Fetched = 0 \/ calls'[Fetched] > 0
        \/ Fetched \in {slot'.ack, slot'.recv} \/ handler.at \in {"call", "store"}
    <3>1. CASE Fetched # 0 /\ calls[Fetched] > 0
      <4>1. Fetched \in Msgs
        BY <3>1, <1>1
      <4>2. calls'[Fetched] >= calls[Fetched] /\ calls[Fetched] \in Nat /\ calls'[Fetched] \in Nat
        BY <4>1, <1>6 DEF Inv, Types, TypeOK
      <4>3. QED BY <3>1, <4>2
    <3>2. CASE Fetched = slot.recv
      BY <3>2, <1>7
    <3>3. QED BY <3>1, <3>2, <1>7 DEF Inv, OrderInv
  <2>6. QED BY <1>4, <2>1, <2>2, <2>4, <2>5 DEF Inv, OrderInv
<1>13. LimitInv'
  <2> SUFFICES ASSUME ~closed PROVE LimitInv'
    BY DEF LimitInv
  <2>1. slot.recv \in due \cup {0} => slot'.recv \in due' \cup {0}
    BY <1>7
  <2>2. handler.at \in {"follow", "free"} => slot'[handler.from] = handler.m
    <3>1. SUFFICES ASSUME handler.at \in {"follow", "free"} PROVE slot'[handler.from] = handler.m
      OBVIOUS
    <3>2. slot.recv = 0 /\ slot[handler.from] = handler.m /\ handler.from \in {"ack", "recv"}
      BY <3>1 DEF Inv, LimitInv, ResetInv, SlotInv
    <3>3. slot'.recv = slot.recv
      BY <1>7, <3>2
    <3>4. QED BY <1>7, <3>2, <3>3
  <2>3. QED BY <1>7, <2>1, <2>2 DEF Inv, LimitInv
<1>14. QED BY <1>8, <1>9, <1>10, <1>11, <1>12, <1>13 DEF Inv

(* send() with a connection to lose: only after the device closed one.     *)
LEMMA DroppedKeeps ==
    ASSUME Inv, posted < N, posted' = posted + 1, Reset(posted + 1), closed,
           UNCHANGED <<due, handler, closed>>,
           inflight' = IF pcb = "none" THEN 0 ELSE inflight
    PROVE  Inv'
<1>1. /\ N \in Nat /\ Msgs = 1..N /\ Slots = 0..N /\ posted \in 0..N
  BY TypesAre DEF Inv
<1>2. /\ slot' = [ack |-> 0, recv |-> 0] /\ queue' = <<>> /\ pcb' = "none" /\ flags' = {}
      /\ refused' = refused \cup {posted + 1}
  BY DEF Reset
<1>3. PICK done : Called(done)
  BY DEF Reset
<1>4. /\ calls' \in [Msgs -> Nat] /\ \A m \in Msgs : calls'[m] >= calls[m]
  BY <1>3, CallsGrow DEF Inv
<1>5. queue' \in Seq(Msgs) /\ Len(queue') = 0 /\ posted' \in 0..N /\ posted + 1 \in Msgs
  BY <1>1, <1>2
<1>6. Types'
  <2>1. inflight' \in Slots
    BY <1>1 DEF Inv, Types, TypeOK
  <2>2. slot' \in [ack : Slots, recv : Slots]
    BY <1>1, <1>2
  <2>3. Len(queue') <= N /\ Len(queue') <= posted'
    BY <1>1, <1>5
  <2>4. QED BY <1>2, <1>4, <1>5, <2>1, <2>2, <2>3 DEF Inv, Types, TypeOK
<1>7. SlotInv'
  <2>1. handler.at \in {"free", "clear"} => calls'[handler.m] > 0
    <3>1. handler.at \in {"free", "clear"} => handler.m \in Msgs /\ calls[handler.m] > 0
      BY TypesAre DEF Inv, SlotInv, Holding
    <3>2. \A m \in Msgs : calls[m] > 0 => calls'[m] > 0
      BY <1>4 DEF Inv, Types, TypeOK
    <3>3. QED BY <3>1, <3>2
  <2>2. handler.from \in {"none", "ack", "recv"}
    BY DEF Inv, Types, TypeOK
  <2>3. QED BY <1>2, <2>1, <2>2 DEF Inv, SlotInv
<1>8. ResetInv'
  BY <1>2 DEF Inv, ResetInv
<1>9. FlagInv' /\ LimitInv' /\ OrderInv'
  BY DEF FlagInv, LimitInv, OrderInv
<1>10. QED BY <1>6, <1>7, <1>8, <1>9 DEF Inv

LEMMA SendKeeps == ASSUME Inv, Send PROVE Inv'
<1>1. CASE flags # {}
  BY <1>1, AppendKeeps DEF Send, Reset
<1>2. CASE flags = {} /\ pcb \in {"none", "closed"}
  BY <1>2, AppendKeeps DEF Send
<1>3. CASE flags = {} /\ pcb \notin {"none", "closed"}
  <2>1. closed
    BY <1>3 DEF Inv, FlagInv, Types, TypeOK
  <2>2. Reset(posted + 1)
    BY <1>3 DEF Send
  <2>3. QED BY <2>1, <2>2, DroppedKeeps DEF Send
<1>4. QED BY <1>1, <1>2, <1>3
-----------------------------------------------------------------------------
(* A step of a handler that leaves the slots, the mailbox and the counts.  *)
LEMMA QuietKeeps ==
    ASSUME Inv, UNCHANGED <<queue, slot, calls, posted, refused>>,
           pcb' \in {"none", "closed", "synsent", "open", "closewait", "closing"},
           flags' \subseteq {"connected", "connecting"}, due' \subseteq Msgs, inflight' \in Slots,
           closed' \in BOOLEAN, closed => closed',
           handler' \in [at : Steps, m : Slots, from : {"none", "ack", "recv"}, then : Steps],
           handler'.m \in IF handler'.at \in Holding THEN Msgs ELSE {0},
           handler.at \notin {"call", "store", "credited"},
           handler'.at \notin {"free", "clear", "store", "credited"},
           handler'.at \in {"call", "follow"} => /\ handler'.from \in {"ack", "recv"}
                                   /\ handler'.m = slot[handler'.from] /\ handler'.m # 0,
           ResetInv', FlagInv', LimitInv'
    PROVE  Inv'
<1>1. Types'
  BY DEF Inv, Types, TypeOK
<1>2. SlotInv'
  BY DEF Inv, SlotInv
<1>3. OrderInv'
  <2>1. Fetched' = Fetched
    BY DEF Fetched
  <2> SUFFICES ASSUME ~closed' PROVE OrderInv'
    BY DEF OrderInv
  <2>2. ~closed
    OBVIOUS
  <2>3. handler'.at = "call" => handler'.m = Fetched
    BY <2>2 DEF Inv, OrderInv
  <2>4. QED BY <2>1, <2>2, <2>3 DEF Inv, OrderInv
<1>4. QED BY <1>1, <1>2, <1>3 DEF Inv

(* The handlers but _reset(), where they only look or set a flag.          *)
LEMMA LookKeeps ==
    ASSUME Inv,
           \/ Connected \/ LoadRecv \/ Recv \/ Poll \/ Polled \/ Closed
           \/ Fetch /\ UNCHANGED queue
           \/ Sent /\ UNCHANGED slot /\ handler.at # "credited"
    PROVE  Inv'
<1>1. /\ N \in Nat /\ Msgs = 1..N /\ Slots = 0..N /\ slot.recv \in Slots /\ Len(queue) \in Nat
      /\ slot \in [ack : Slots, recv : Slots] /\ due \subseteq Msgs /\ handler.m \in Slots
      /\ handler.then \in Steps /\ inflight \in Slots /\ queue \in Seq(Msgs)
      /\ handler.then \in {"idle", "credit", "poll", "lastPoll", "polled", "resetAck", "drain"}
      /\ handler.at = "fill" => handler.m \in Msgs
      /\ pcb \in {"none", "closed", "synsent", "open", "closewait", "closing"}
      /\ flags \subseteq {"connected", "connecting"} /\ closed \in BOOLEAN
  BY TypesAre DEF Inv, Types, TypeOK, ResetInv, Holding
<1>2. CASE Connected
  <2>1. /\ UNCHANGED <<queue, slot, due, inflight, posted, calls, refused, closed>>
        /\ pcb' \in {pcb, "open"} /\ flags' \subseteq {"connected", "connecting"}
        /\ handler'.at \in {"connected", "idle"} /\ handler'.then = "idle" /\ handler'.m = 0
        /\ handler.at \in {"connected", "idle"}
        /\ handler' \in [at : Steps, m : Slots, from : {"none", "ack", "recv"}, then : Steps]
    BY <1>1, <1>2 DEF Connected, Goto, Idle, Steps, client
  <2>2. ResetInv'
    BY <2>1 DEF ResetInv, Resetting, Taking
  <2>3. ~closed => "connected" \in flags'
    BY <1>2, <2>1 DEF Connected, Inv, FlagInv, LimitInv
  <2>4. FlagInv' /\ LimitInv'
    BY <2>1, <2>3 DEF Inv, FlagInv, LimitInv, Resetting, Taking
  <2>5. QED BY <1>1, <2>1, <2>2, <2>4, QuietKeeps DEF Holding
<1>3. CASE LoadRecv
  <2>1. /\ handler.at = "load" /\ UNCHANGED <<pcb, flags, queue, slot, due, inflight, posted, calls, refused, closed>>
    BY <1>3 DEF LoadRecv, adapter, client
  <2>2. handler.then \in {"idle", "credit", "poll", "lastPoll", "polled"}
    BY <1>1, <2>1 DEF Inv, ResetInv, Taking
  <2>3. CASE slot.recv \in due
    <3>1. handler' = [at |-> "call", m |-> slot.recv, from |-> "recv", then |-> handler.then]
      BY <1>3, <2>3 DEF LoadRecv, Finish
    <3>2. slot.recv \in Msgs /\ slot.recv # 0
      BY <1>1, <2>3
    <3>3. handler' \in [at : Steps, m : Slots, from : {"none", "ack", "recv"}, then : Steps]
      BY <1>1, <3>1 DEF Steps, Holding
    <3>4. ResetInv'
      BY <2>1, <2>2, <3>1 DEF Inv, ResetInv, Resetting, Taking
    <3>5. FlagInv' /\ LimitInv'
      BY <2>1, <3>1 DEF Inv, FlagInv, LimitInv, Resetting, Taking
    <3>6. QED BY <1>1, <2>1, <3>1, <3>2, <3>3, <3>4, <3>5, QuietKeeps DEF Holding
  <2>4. CASE slot.recv \notin due
    <3>1. handler' = [at |-> handler.then, m |-> 0, from |-> "none", then |-> "idle"]
      BY <1>3, <2>4 DEF LoadRecv, Goto, Idle
    <3>2. handler' \in [at : Steps, m : Slots, from : {"none", "ack", "recv"}, then : Steps]
      BY <1>1, <3>1 DEF Steps, Holding
    <3>3. ResetInv'
      BY <2>1, <2>2, <3>1 DEF Inv, ResetInv, Resetting, Taking
    <3>4. FlagInv' /\ LimitInv'
      BY <2>1, <2>2, <2>4, <3>1 DEF Inv, FlagInv, LimitInv, Resetting, Taking
    <3>5. QED BY <1>1, <2>1, <2>2, <3>1, <3>2, <3>3, <3>4, QuietKeeps DEF Holding
  <2>5. QED BY <2>3, <2>4
<1>4. CASE Recv
  <2>1. /\ UNCHANGED <<pcb, flags, queue, slot, inflight, posted, calls, refused, closed>>
        /\ due' \subseteq Msgs /\ handler.at \in {"idle", "fill"}
        /\ \/ handler' = [at |-> "fill", m |-> slot.recv, from |-> "none", then |-> "idle"] /\ slot.recv # 0
           \/ handler' = [at |-> "load", m |-> 0, from |-> "none", then |-> "idle"]
    BY <1>1, <1>4 DEF Recv, Idle, adapter, client
  <2>2. /\ handler' \in [at : Steps, m : Slots, from : {"none", "ack", "recv"}, then : Steps]
        /\ handler'.m \in IF handler'.at \in Holding THEN Msgs ELSE {0}
        /\ handler'.at \in {"fill", "load"} /\ handler'.then = "idle"
    BY <1>1, <2>1 DEF Steps, Holding
  <2>3. ResetInv' /\ FlagInv' /\ LimitInv'
    BY <2>1, <2>2 DEF Inv, ResetInv, FlagInv, LimitInv, Resetting, Taking
  <2>4. QED BY <1>1, <2>1, <2>2, <2>3, QuietKeeps DEF Holding
<1>5. CASE Poll
  <2>1. /\ UNCHANGED <<pcb, flags, queue, slot, due, inflight, posted, calls, refused, closed>>
        /\ \/ handler.at = "idle" /\ handler' = [at |-> "load", m |-> 0, from |-> "none", then |-> "poll"]
           \/ /\ handler.at = "idle" /\ slot.recv \in due \cup {0}
              /\ handler' = [at |-> "load", m |-> 0, from |-> "none", then |-> "lastPoll"]
           \/ /\ handler.at = "poll" /\ "connected" \in flags
              /\ handler' = [at |-> "fetch", m |-> 0, from |-> "none", then |-> "idle"]
           \/ /\ handler.at = "lastPoll" /\ "connected" \in flags
              /\ handler' = [at |-> "fetch", m |-> 0, from |-> "none", then |-> "polled"]
           \/ /\ handler.at \in {"poll", "lastPoll"}
              /\ handler' = [at |-> "idle", m |-> 0, from |-> "none", then |-> "idle"]
    BY <1>5 DEF Poll, Idle, adapter, client
  <2>2. /\ handler' \in [at : Steps, m : Slots, from : {"none", "ack", "recv"}, then : Steps]
        /\ handler'.m = 0 /\ handler'.at \in {"load", "fetch", "idle"}
        /\ handler'.then \in {"poll", "lastPoll", "polled", "idle"}
        /\ handler'.then = "polled" => "connected" \in flags /\ handler.at = "lastPoll"
        /\ handler'.then = "lastPoll" => slot.recv \in due \cup {0} /\ handler'.at = "load"
    BY <1>1, <2>1 DEF Steps, Holding
  <2>3. ResetInv' /\ FlagInv' /\ LimitInv'
    BY <2>1, <2>2 DEF Inv, ResetInv, FlagInv, LimitInv, Resetting, Taking
  <2>4. QED BY <1>1, <2>1, <2>2, <2>3, QuietKeeps DEF Holding
<1>6. CASE Polled
  <2>1. /\ UNCHANGED <<flags, queue, slot, due, inflight, posted, calls, refused, closed>>
        /\ handler.at = "polled"
        /\ \/ handler' = [at |-> "idle", m |-> 0, from |-> "none", then |-> "idle"] /\ UNCHANGED pcb
           \/ handler' = [at |-> "resetRecv", m |-> 0, from |-> "none", then |-> "idle"] /\ pcb' = "closing"
    BY <1>6 DEF Polled, Goto, Idle, client
  <2>2. /\ handler' \in [at : Steps, m : Slots, from : {"none", "ack", "recv"}, then : Steps]
        /\ handler'.m = 0 /\ handler'.at \in {"idle", "resetRecv"} /\ handler'.then = "idle"
    BY <1>1, <2>1 DEF Steps, Holding, Resetting, Taking
  <2>3. ResetInv'
    BY <2>1, <2>2 DEF Inv, ResetInv, Resetting, Taking
  <2>4. FlagInv' /\ LimitInv'
    BY <2>1, <2>2 DEF Inv, FlagInv, LimitInv, Resetting, Taking
  <2>5. QED BY <1>1, <2>1, <2>2, <2>3, <2>4, QuietKeeps DEF Holding
<1>7. CASE Closed
  <2>1. /\ UNCHANGED <<queue, slot, due, inflight, posted, calls, refused>>
        /\ handler.at = "idle" /\ pcb' = "closewait" /\ flags' \subseteq flags /\ closed' = TRUE
        /\ handler' = [at |-> "resetRecv", m |-> 0, from |-> "none", then |-> "idle"]
    BY <1>7 DEF Closed, Goto, Idle
  <2>2. handler' \in [at : Steps, m : Slots, from : {"none", "ack", "recv"}, then : Steps]
    BY <1>1, <2>1 DEF Steps, Holding, Resetting, Taking
  <2>3. ResetInv' /\ FlagInv' /\ LimitInv'
    BY <2>1 DEF ResetInv, FlagInv, LimitInv, Resetting, Taking
  <2>4. QED BY <1>1, <2>1, <2>2, <2>3, QuietKeeps DEF Holding
<1>8. CASE Fetch /\ UNCHANGED queue
  <2>1. ~(slot.ack = 0 /\ slot.recv = 0 /\ queue # <<>>)
    <3>1. SUFFICES ASSUME queue # <<>>, queue' = Tail(queue) PROVE FALSE
      BY <1>8 DEF Fetch
    <3>2. Len(queue') = Len(queue) - 1
      BY <1>1, <3>1, HeadTailProperties
    <3>3. QED BY <1>1, <1>8, <3>2
  <2>2. /\ UNCHANGED <<pcb, flags, queue, slot, due, inflight, posted, calls, refused, closed>>
        /\ handler.at = "fetch"
        /\ handler' = [at |-> handler.then, m |-> 0, from |-> "none", then |-> "idle"]
    BY <1>8, <2>1 DEF Fetch, Goto, Idle, client
  <2>3. handler.then \in {"idle", "credit", "poll", "polled"}
    BY <1>1, <2>2 DEF Inv, ResetInv, Taking
  <2>4. handler' \in [at : Steps, m : Slots, from : {"none", "ack", "recv"}, then : Steps]
    BY <1>1, <2>2 DEF Steps, Holding
  <2>5. ResetInv'
    BY <2>2, <2>3 DEF Inv, ResetInv, Resetting, Taking
  <2>6. FlagInv' /\ LimitInv'
    BY <2>2, <2>3 DEF Inv, FlagInv, LimitInv, Resetting, Taking
  <2>7. QED BY <1>1, <2>2, <2>3, <2>4, <2>5, <2>6, QuietKeeps DEF Holding
<1>9. CASE Sent /\ UNCHANGED slot /\ handler.at # "credited"
  <2>1. /\ UNCHANGED <<pcb, flags, queue, slot, due, posted, calls, refused, closed>>
        /\ inflight' \in {0, inflight} /\ handler.at \in {"idle", "credit"}
        /\ \/ handler' = [at |-> "fetch", m |-> 0, from |-> "none", then |-> "credit"]
           \/ handler' = [at |-> "idle", m |-> 0, from |-> "none", then |-> "idle"]
    <3>1. CASE handler.at = "idle"
      BY <1>9, <3>1 DEF Sent, Idle, adapter, client
    <3>2. CASE handler.at = "credit"
      <4>1. slot.ack = 0
        <5>1. SUFFICES ASSUME slot.ack # 0, slot' = [slot EXCEPT !.recv = slot.ack] PROVE FALSE
          BY <1>9, <3>2 DEF Sent
        <5>2. slot'.recv = slot.ack
          BY <1>1, <5>1
        <5>3. QED BY <1>9, <3>2, <5>1, <5>2 DEF Inv, SlotInv
      <4>2. QED BY <1>9, <3>2, <4>1 DEF Sent, Goto, Idle, client
    <3>3. QED BY <1>9, <3>1, <3>2 DEF Sent
  <2>2. /\ handler' \in [at : Steps, m : Slots, from : {"none", "ack", "recv"}, then : Steps]
        /\ handler'.m = 0 /\ handler'.at \in {"fetch", "idle"} /\ handler'.then \in {"credit", "idle"}
    BY <1>1, <2>1 DEF Steps, Holding
  <2>3. ResetInv' /\ FlagInv' /\ LimitInv'
    BY <2>1, <2>2 DEF Inv, ResetInv, FlagInv, LimitInv, Resetting, Taking
  <2>4. QED BY <1>1, <2>1, <2>2, <2>3, QuietKeeps DEF Holding
<1>10. QED BY <1>2, <1>3, <1>4, <1>5, <1>6, <1>7, <1>8, <1>9

(* _reset(), except for the mailbox.                                       *)
LEMMA ResetKeeps ==
    ASSUME Inv, ResetSteps, UNCHANGED queue
    PROVE  Inv'
<1>1. /\ N \in Nat /\ Msgs = 1..N /\ Slots = 0..N /\ slot.recv \in Slots /\ slot.ack \in Slots
      /\ slot \in [ack : Slots, recv : Slots] /\ due \subseteq Msgs /\ inflight \in Slots
      /\ queue \in Seq(Msgs) /\ Len(queue) \in Nat
      /\ pcb \in {"none", "closed", "synsent", "open", "closewait", "closing"}
      /\ flags \subseteq {"connected", "connecting"} /\ closed \in BOOLEAN
  BY TypesAre DEF Inv, Types, TypeOK
<1>2. CASE handler.at \in {"resetRecv", "resetAck"}
  <2>1. PICK from \in {"ack", "recv"}, next \in {"resetAck", "drain"} :
          /\ \/ handler.at = "resetRecv" /\ from = "recv" /\ next = "resetAck"
             \/ handler.at = "resetAck" /\ from = "ack" /\ next = "drain"
          /\ UNCHANGED <<pcb, flags, queue, slot, due, inflight, posted, calls, refused, closed>>
          /\ \/ slot[from] # 0 /\ handler' = [at |-> "follow", m |-> slot[from], from |-> from, then |-> next]
             \/ slot[from] = 0 /\ handler' = [at |-> next, m |-> 0, from |-> "none", then |-> "idle"]
    BY <1>2 DEF ResetSteps, TakeOut, Goto, Idle, adapter, client
  <2>2. /\ handler' \in [at : Steps, m : Slots, from : {"none", "ack", "recv"}, then : Steps]
        /\ handler'.m \in IF handler'.at \in Holding THEN Msgs ELSE {0}
        /\ handler'.at = "follow" => handler'.from = from /\ handler'.m = slot[from] /\ slot[from] # 0
        /\ handler'.at # "call"
    BY <1>1, <2>1 DEF Steps, Holding, Resetting, Taking
  <2>3. ResetInv'
    BY <2>1 DEF Inv, ResetInv, Resetting, Taking
  <2>4. FlagInv' /\ LimitInv'
    BY <2>1 DEF Inv, FlagInv, LimitInv, Resetting, Taking
  <2>5. QED BY <1>1, <1>2, <2>1, <2>2, <2>3, <2>4, QuietKeeps DEF Holding
<1>3. CASE handler.at \in {"drain", "resetPcb", "resetFlags"}
  <2>0. handler.at = "drain" => queue = <<>>
    <3>1. SUFFICES ASSUME queue # <<>>, queue' = Tail(queue) PROVE FALSE
      BY <1>3 DEF ResetSteps
    <3>2. Len(queue') = Len(queue) - 1
      BY <1>1, <3>1, HeadTailProperties
    <3>3. QED BY <1>1, <3>2
  <2>1. PICK next \in {"resetPcb", "resetFlags", "idle"} :
          /\ UNCHANGED <<queue, slot, due, inflight, posted, calls, refused, closed>>
          /\ handler' = [at |-> next, m |-> 0, from |-> "none", then |-> "idle"]
          /\ \/ handler.at = "drain" /\ next = "resetPcb" /\ UNCHANGED <<pcb, flags>>
             \/ handler.at = "resetPcb" /\ next = "resetFlags" /\ pcb' = "none" /\ UNCHANGED flags
             \/ handler.at = "resetFlags" /\ next = "idle" /\ flags' = {} /\ UNCHANGED pcb
    BY <1>3, <2>0 DEF ResetSteps, Goto, Idle, adapter, client
  <2>2. handler' \in [at : Steps, m : Slots, from : {"none", "ack", "recv"}, then : Steps]
    BY <1>1, <2>1 DEF Steps, Holding, Resetting, Taking
  <2>3. ResetInv'
    BY <2>1 DEF Inv, ResetInv, Resetting, Taking
  <2>4. FlagInv' /\ LimitInv'
    BY <2>1 DEF Inv, FlagInv, LimitInv, Resetting, Taking
  <2>5. QED BY <1>1, <1>3, <2>1, <2>2, <2>3, <2>4, QuietKeeps DEF Holding
<1>4. QED BY <1>2, <1>3 DEF ResetSteps

(* TCP_SERIAL_RCV_TMO passes.                                              *)
LEMMA ElapseKeeps == ASSUME Inv, Elapse PROVE Inv'
<1>1. /\ UNCHANGED <<pcb, flags, queue, slot, inflight, handler, posted, calls, refused, closed>>
      /\ due' \subseteq Msgs /\ due \subseteq due'
  <2>1. PICK m \in (Range(slot) \ {0}) \ due : due' = due \cup {m}
    BY DEF Elapse
  <2>2. Range(slot) \subseteq Slots
    BY TypesAre DEF Inv, Range
  <2>3. m \in Msgs
    BY <2>1, <2>2, TypesAre DEF Inv
  <2>4. QED BY <2>1, <2>3 DEF Elapse, Inv, Types, TypeOK, adapter, client
<1>2. Types'
  BY <1>1 DEF Inv, Types, TypeOK
<1>3. SlotInv' /\ ResetInv' /\ FlagInv' /\ OrderInv'
  BY <1>1 DEF Inv, SlotInv, ResetInv, FlagInv, OrderInv, Fetched
<1>4. LimitInv'
  BY <1>1 DEF Inv, LimitInv
<1>5. QED BY <1>2, <1>3, <1>4 DEF Inv
-----------------------------------------------------------------------------
(* The steps that call back, and that change a slot or the mailbox.        *)
LEMMA CallKeeps == ASSUME Inv, Call PROVE Inv'
<1>1. /\ N \in Nat /\ Msgs = 1..N /\ Slots = 0..N /\ handler.m \in Msgs /\ Fetched \in 0..N
      /\ handler \in [at : Steps, m : Slots, from : {"none", "ack", "recv"}, then : Steps]
      /\ handler.at = "call"
      /\ UNCHANGED <<pcb, flags, queue, slot, due, inflight, posted, refused, closed>>
  BY TypesAre DEF Inv, Types, Call, adapter, Holding
<1>2. /\ calls' \in [Msgs -> Nat]
      /\ \A m \in Msgs : calls'[m] >= calls[m] /\ (m = handler.m => calls'[m] > 0)
                         /\ (m # handler.m => calls'[m] = calls[m])
  <2>1. Called({handler.m})
    BY DEF Call
  <2>2. QED BY <2>1, CallsGrow DEF Inv
<1>3. \/ /\ handler.from = "none"
         /\ handler' = [at |-> handler.then, m |-> 0, from |-> "none", then |-> "idle"]
      \/ /\ handler.from # "none"
         /\ handler' = [at |-> "clear", m |-> handler.m, from |-> handler.from, then |-> handler.then]
  BY <1>1 DEF Call, Idle
<1>4. handler.then \in {"idle", "credit", "poll", "lastPoll", "polled", "resetAck", "drain"}
  BY DEF Inv, ResetInv
<1>5. Types'
  <2>1. handler' \in [at : Steps, m : Slots, from : {"none", "ack", "recv"}, then : Steps]
    BY <1>1, <1>3, <1>4 DEF Steps, Holding, Resetting, Taking
  <2>2. handler'.m \in IF handler'.at \in Holding THEN Msgs ELSE {0}
    BY <1>1, <1>3, <1>4 DEF Holding
  <2>3. QED BY <1>1, <1>2, <2>1, <2>2 DEF Inv, Types, TypeOK
<1>6. SlotInv'
  BY <1>1, <1>2, <1>3, <1>4 DEF Inv, SlotInv
<1>7. ResetInv'
  BY <1>1, <1>3, <1>4 DEF Inv, ResetInv, Resetting, Taking
<1>8. FlagInv' /\ LimitInv'
  BY <1>1, <1>3, <1>4 DEF Inv, FlagInv, LimitInv, ResetInv, Resetting, Taking
<1>9. OrderInv'
  <2> SUFFICES ASSUME ~closed PROVE OrderInv'
    BY <1>1 DEF OrderInv
  <2>1. handler.m = Fetched /\ Fetched' = Fetched /\ Fetched \in Msgs
    BY <1>1 DEF Inv, OrderInv, Fetched
  <2>2. ASSUME NEW m \in Msgs PROVE (m < Fetched => calls'[m] > 0) /\ (m > Fetched => calls'[m] = 0)
    <3>1. m # Fetched => calls'[m] = calls[m]
      BY <1>2, <2>1
    <3>2. QED BY <1>1, <2>1, <3>1 DEF Inv, OrderInv
  <2>3. calls'[Fetched] > 0
    BY <1>2, <2>1
  <2>4. handler'.at \notin {"call", "store"}
    BY <1>3, <1>4
  <2>5. QED BY <1>1, <2>1, <2>2, <2>3, <2>4 DEF Inv, OrderInv
<1>10. QED BY <1>5, <1>6, <1>7, <1>8, <1>9 DEF Inv

LEMMA ClearKeeps == ASSUME Inv, Clear PROVE Inv'
<1>1. /\ N \in Nat /\ Msgs = 1..N /\ Slots = 0..N /\ slot \in [ack : Slots, recv : Slots]
      /\ handler.m \in Msgs /\ handler.at = "clear" /\ handler.from \in {"ack", "recv"}
      /\ slot[handler.from] \in {0, handler.m} /\ calls[handler.m] > 0
      /\ handler.then \in {"idle", "credit", "poll", "lastPoll", "polled", "resetAck", "drain"}
      /\ UNCHANGED <<pcb, flags, queue, due, inflight, posted, calls, refused, closed>>
      /\ handler' = [at |-> handler.then, m |-> 0, from |-> "none", then |-> "idle"]
  BY TypesAre DEF Inv, SlotInv, ResetInv, Clear, Goto, Idle, client, Holding
<1>2. /\ slot' \in [ack : Slots, recv : Slots] /\ slot'[handler.from] = 0
      /\ \A f \in {"ack", "recv"} : f # handler.from => slot'[f] = slot[f]
  BY <1>1 DEF Clear
<1>3. slot'.ack \in {0, slot.ack} /\ slot'.recv \in {0, slot.recv}
  BY <1>1, <1>2
<1>4. Types'
  BY <1>1, <1>2 DEF Inv, Types, TypeOK, Steps, Resetting, Holding
<1>5. SlotInv'
  BY <1>1, <1>3 DEF Inv, SlotInv
<1>6. ResetInv'
  <2>1. handler.then = "drain" => slot'.recv = 0 /\ slot'.ack = 0
    BY <1>1, <1>2, <1>3 DEF Inv, ResetInv
  <2>2. handler.then = "resetAck" => slot'.recv = 0
    BY <1>1, <1>2 DEF Inv, ResetInv
  <2>3. QED BY <1>1, <2>1, <2>2 DEF Inv, ResetInv, Resetting, Taking
<1>7. FlagInv' /\ LimitInv'
  BY <1>1, <1>2, <1>3 DEF Inv, FlagInv, LimitInv, ResetInv, Resetting, Taking
<1>8. OrderInv'
  <2> SUFFICES ASSUME ~closed PROVE OrderInv'
    BY <1>1 DEF OrderInv
  <2>1. Fetched' = Fetched
    BY <1>1 DEF Fetched
  <2>2. \/ Fetched = 0 \/ calls[Fetched] > 0 \/ Fetched \in {slot.ack, slot.recv}
    BY <1>1 DEF Inv, OrderInv
  <2>3. Fetched = slot[handler.from] => Fetched = 0 \/ calls[Fetched] > 0
    BY <1>1
  <2>4. \/ Fetched = 0 \/ calls[Fetched] > 0 \/ Fetched \in {slot'.ack, slot'.recv}
    BY <1>1, <1>2, <2>2, <2>3
  <2>5. QED BY <1>1, <1>3, <2>1, <2>4 DEF Inv, OrderInv
<1>9. QED BY <1>4, <1>5, <1>6, <1>7, <1>8 DEF Inv

(* _reset() goes through the slot it has tested, or is lost.               *)
LEMMA FollowKeeps == ASSUME Inv, FollowSlot PROVE Inv'
<1>1. /\ N \in Nat /\ Msgs = 1..N /\ Slots = 0..N /\ handler.m \in Msgs /\ Fetched \in 0..N
      /\ handler \in [at : Steps, m : Slots, from : {"none", "ack", "recv"}, then : Steps]
      /\ handler.at \in {"follow", "free"} /\ handler.from \in {"ack", "recv"}
      /\ slot[handler.from] \in {0, handler.m} /\ calls \in [Msgs -> Nat]
      /\ handler.then \in {"resetAck", "drain"}
      /\ UNCHANGED <<pcb, flags, queue, slot, due, inflight, posted, refused, closed>>
  BY TypesAre DEF Inv, Types, SlotInv, ResetInv, FollowSlot, adapter, client, Holding
<1>2. CASE handler' = [at |-> "lost", m |-> 0, from |-> "none", then |-> "idle"]
                  /\ slot[handler.from] = 0 /\ UNCHANGED calls
  <2>1. closed
    BY <1>1, <1>2 DEF Inv, LimitInv
  <2>2. Types'
    BY <1>1, <1>2 DEF Inv, Types, TypeOK, Steps, Holding
  <2>3. SlotInv' /\ ResetInv'
    BY <1>1, <1>2 DEF Inv, SlotInv, ResetInv, Resetting, Taking
  <2>4. FlagInv' /\ LimitInv' /\ OrderInv'
    BY <1>1, <2>1 DEF FlagInv, LimitInv, OrderInv
  <2>5. QED BY <2>2, <2>3, <2>4 DEF Inv
<1>3. CASE handler.at = "follow" /\ Called({handler.m}) /\ handler' = [handler EXCEPT !.at = "free"]
  <2>1. /\ calls' \in [Msgs -> Nat]
        /\ \A m \in Msgs : calls'[m] >= calls[m] /\ (m = handler.m => calls'[m] > 0)
                           /\ (m # handler.m => calls'[m] = calls[m])
    BY <1>3, CallsGrow DEF Inv
  <2>2. handler' = [at |-> "free", m |-> handler.m, from |-> handler.from, then |-> handler.then]
    BY <1>1, <1>3
  <2>3. Types'
    BY <1>1, <2>1, <2>2 DEF Inv, Types, TypeOK, Steps, Holding
  <2>4. SlotInv' /\ ResetInv'
    BY <1>1, <1>3, <2>1, <2>2 DEF Inv, SlotInv, ResetInv, Resetting, Taking
  <2>5. FlagInv' /\ LimitInv'
    BY <1>1, <1>3, <2>2 DEF Inv, FlagInv, LimitInv, Resetting
  <2>6. OrderInv'
    <3> SUFFICES ASSUME ~closed PROVE OrderInv'
      BY <1>1 DEF OrderInv
    <3>1. Fetched' = Fetched /\ handler.m = Fetched /\ Fetched \in Msgs
      BY <1>1, <1>3 DEF Inv, LimitInv, OrderInv, Fetched
    <3>2. ASSUME NEW m \in Msgs PROVE (m < Fetched => calls'[m] > 0) /\ (m > Fetched => calls'[m] = 0)
      <4>1. m # Fetched => calls'[m] = calls[m]
        BY <2>1, <3>1
      <4>2. QED BY <1>1, <3>1, <4>1 DEF Inv, OrderInv
    <3>3. calls'[Fetched] > 0
      BY <2>1, <3>1
    <3>4. QED BY <1>1, <2>2, <3>1, <3>2, <3>3 DEF Inv, OrderInv
  <2>7. QED BY <2>3, <2>4, <2>5, <2>6 DEF Inv
<1>4. CASE handler.at = "free" /\ handler' = [handler EXCEPT !.at = "clear"] /\ UNCHANGED calls
  <2>1. handler' = [at |-> "clear", m |-> handler.m, from |-> handler.from, then |-> handler.then]
    BY <1>1, <1>4
  <2>2. Types'
    BY <1>1, <1>4, <2>1 DEF Inv, Types, TypeOK, Steps, Holding
  <2>3. SlotInv' /\ ResetInv'
    BY <1>1, <1>4, <2>1 DEF Inv, SlotInv, ResetInv, Resetting, Taking
  <2>4. FlagInv' /\ LimitInv'
    BY <1>1, <1>4, <2>1 DEF Inv, FlagInv, LimitInv, Resetting
  <2>5. OrderInv'
    <3>1. Fetched' = Fetched
      BY <1>1 DEF Fetched
    <3>2. QED BY <1>1, <1>4, <2>1, <3>1 DEF Inv, OrderInv
  <2>6. QED BY <2>2, <2>3, <2>4, <2>5 DEF Inv
<1>5. QED BY <1>1, <1>2, <1>3, <1>4 DEF FollowSlot, Goto, Idle, client

(* Taking a request out of the mailbox: it is the next one.                *)
LEMMA TakeNext ==
    ASSUME Inv, queue # <<>>, queue' = Tail(queue), UNCHANGED <<posted, closed>>
    PROVE  /\ Head(queue) \in Msgs /\ queue' \in Seq(Msgs) /\ Len(queue') = Len(queue) - 1
           /\ Len(queue') <= posted' /\ Len(queue') <= N /\ Fetched' = Fetched + 1
           /\ ~closed => /\ Head(queue) = Fetched'
                         /\ \A i \in 1..Len(queue') : queue'[i] = Fetched' + i
<1>1. /\ N \in Nat /\ queue \in Seq(Msgs) /\ posted \in 0..N /\ Len(queue) \in Nat
      /\ Len(queue) <= posted /\ Len(queue) <= N
  BY TypesAre DEF Inv, Types, TypeOK
<1>2. /\ Head(queue) \in Msgs /\ queue' \in Seq(Msgs) /\ Len(queue') = Len(queue) - 1
      /\ Len(queue) > 0 /\ Head(queue) = queue[1]
      /\ \A i \in 1..Len(queue') : queue'[i] = queue[i + 1]
  BY <1>1, HeadTailProperties
<1>3. Fetched' = Fetched + 1 /\ Fetched \in Int
  BY <1>1, <1>2 DEF Fetched
<1>4. ASSUME ~closed
      PROVE  Head(queue) = Fetched' /\ \A i \in 1..Len(queue') : queue'[i] = Fetched' + i
  <2>1. \A i \in 1..Len(queue) : queue[i] = Fetched + i
    BY <1>4 DEF Inv, OrderInv
  <2>2. QED BY <1>1, <1>2, <1>3, <2>1
<1>5. QED BY <1>1, <1>2, <1>3, <1>4

(* The request taken is called or stored next: all before it were called.  *)
LEMMA TakeKeepsOrder ==
    ASSUME Inv, queue # <<>>, queue' = Tail(queue), UNCHANGED <<posted, closed, slot, calls>>,
           slot.ack = 0, slot.recv = 0, handler.at \in {"fetch", "drain"},
           handler'.at \in {"call", "store"}, handler'.m = Head(queue)
    PROVE  OrderInv'
<1> SUFFICES ASSUME ~closed PROVE OrderInv'
  BY DEF OrderInv
<1>1. /\ Fetched' = Fetched + 1 /\ handler'.m = Fetched'
      /\ \A i \in 1..Len(queue') : queue'[i] = Fetched' + i
  BY TakeNext
<1>2. Fetched \in Nat /\ Msgs \subseteq Nat
  BY TypesAre DEF Inv
<1>3. /\ \A m \in Msgs : (m < Fetched => calls[m] > 0) /\ (m > Fetched => calls[m] = 0)
      /\ Fetched = 0 \/ calls[Fetched] > 0
  BY DEF Inv, OrderInv
<1>4. ASSUME NEW m \in Msgs PROVE (m < Fetched' => calls'[m] > 0) /\ (m > Fetched' => calls'[m] = 0)
  <2>1. m \in 1..N /\ m \in Nat /\ m # 0
    BY <1>2, TypesAre DEF Inv
  <2>2. m < Fetched' => m < Fetched \/ m = Fetched
    BY <1>1, <1>2, <2>1
  <2>3. m > Fetched' => m > Fetched
    BY <1>1, <1>2, <2>1
  <2>4. QED BY <1>3, <2>1, <2>2, <2>3
<1>5. QED BY <1>1, <1>4 DEF OrderInv

LEMMA FetchKeeps == ASSUME Inv, Fetch PROVE Inv'
<1>1. CASE UNCHANGED queue
  BY <1>1, LookKeeps
<1>2. CASE ~UNCHANGED queue
  <2>1. /\ handler.at = "fetch" /\ slot.ack = 0 /\ slot.recv = 0 /\ queue # <<>> /\ queue' = Tail(queue)
        /\ handler' = [handler EXCEPT !.at = "store", !.m = Head(queue)]
        /\ UNCHANGED <<pcb, flags, slot, due, inflight, posted, calls, refused, closed>>
    BY <1>2 DEF Fetch, client
  <2>2. /\ Head(queue) \in Msgs /\ queue' \in Seq(Msgs) /\ Len(queue') <= posted' /\ Len(queue') <= N
    BY <2>1, TakeNext
  <2>3. /\ handler \in [at : Steps, m : Slots, from : {"none", "ack", "recv"}, then : Steps]
        /\ Slots = Msgs \cup {0}
    BY DEF Inv, Types, Slots
  <2>4. /\ handler' \in [at : Steps, m : Slots, from : {"none", "ack", "recv"}, then : Steps]
        /\ handler'.at = "store" /\ handler'.m = Head(queue)
        /\ handler'.from = handler.from /\ handler'.then = handler.then
    BY <2>1, <2>2, <2>3 DEF Steps, Holding
  <2>5. Types'
    BY <2>1, <2>2, <2>4 DEF Inv, Types, TypeOK, Holding
  <2>6. SlotInv'
    BY <2>1, <2>4 DEF SlotInv
  <2>7. ResetInv' /\ FlagInv' /\ LimitInv'
    BY <2>1, <2>4 DEF Inv, ResetInv, FlagInv, LimitInv, Resetting, Taking
  <2>8. OrderInv'
    BY <2>1, <2>4, TakeKeepsOrder
  <2>9. QED BY <2>5, <2>6, <2>7, <2>8 DEF Inv
<1>3. QED BY <1>1, <1>2

(* _reset() takes a request out of the mailbox and calls it back next.     *)
LEMMA DrainKeeps == ASSUME Inv, ResetSteps PROVE Inv'
<1>1. CASE UNCHANGED queue
  BY <1>1, ResetKeeps
<1>2. CASE ~UNCHANGED queue
  <2>1. /\ handler.at = "drain" /\ queue # <<>> /\ queue' = Tail(queue)
        /\ handler' = [at |-> "call", m |-> Head(queue), from |-> "none", then |-> "drain"]
        /\ UNCHANGED <<pcb, flags, slot, due, inflight, posted, calls, refused, closed>>
    BY <1>2 DEF ResetSteps, Finish, adapter, client
  <2>2. /\ Head(queue) \in Msgs /\ queue' \in Seq(Msgs) /\ Len(queue') <= posted' /\ Len(queue') <= N
    BY <2>1, TakeNext
  <2>3. slot.ack = 0 /\ slot.recv = 0
    BY <2>1 DEF Inv, ResetInv, Resetting, Taking
  <2>4. handler' \in [at : Steps, m : Slots, from : {"none", "ack", "recv"}, then : Steps]
    BY <2>1, <2>2 DEF Steps, Holding, Slots, Resetting, Taking
  <2>5. Types'
    BY <2>1, <2>2, <2>4 DEF Inv, Types, TypeOK, Holding
  <2>6. SlotInv' /\ ResetInv'
    BY <2>1, <2>3 DEF SlotInv, ResetInv, Resetting, Taking
  <2>7. FlagInv' /\ LimitInv'
    BY <2>1 DEF Inv, FlagInv, LimitInv, Resetting, Taking
  <2>8. OrderInv'
    BY <2>1, <2>3, TakeKeepsOrder
  <2>9. QED BY <2>5, <2>6, <2>7, <2>8 DEF Inv
<1>3. QED BY <1>1, <1>2

LEMMA StoreKeeps == ASSUME Inv, Store PROVE Inv'
<1>1. /\ N \in Nat /\ Msgs = 1..N /\ Slots = 0..N /\ slot = [ack |-> 0, recv |-> 0]
      /\ handler.m \in Msgs /\ handler.at = "store" /\ inflight' = handler.m
      /\ slot' = [ack |-> handler.m, recv |-> 0]
      /\ UNCHANGED <<pcb, flags, queue, due, posted, calls, refused, closed>>
      /\ handler' = [at |-> Onwards, m |-> 0, from |-> "none", then |-> "idle"]
  BY TypesAre DEF Inv, SlotInv, Store, Goto, Idle, client, Holding
<1>2. Onwards \in {"idle", "credit", "poll"}
  BY <1>1 DEF Inv, ResetInv, Onwards, Taking
<1>3. Types'
  BY <1>1, <1>2 DEF Inv, Types, TypeOK, Steps, Holding
<1>4. SlotInv' /\ ResetInv'
  BY <1>1, <1>2 DEF SlotInv, ResetInv, Resetting, Taking
<1>5. FlagInv' /\ LimitInv'
  BY <1>1, <1>2 DEF Inv, FlagInv, LimitInv, Resetting, Taking
<1>6. OrderInv'
  <2>1. Fetched' = Fetched
    BY <1>1 DEF Fetched
  <2>2. QED BY <1>1, <1>2, <2>1 DEF Inv, OrderInv
<1>7. QED BY <1>3, <1>4, <1>5, <1>6 DEF Inv

(* The move from _ack_slot to _recv_slot, in two steps.                    *)
LEMMA SentKeeps == ASSUME Inv, Sent PROVE Inv'
<1>1. /\ N \in Nat /\ Msgs = 1..N /\ Slots = 0..N /\ slot.ack \in Slots /\ slot.recv \in Slots
      /\ slot = [ack |-> slot.ack, recv |-> slot.recv]
  BY TypesAre DEF Inv
<1>2. CASE UNCHANGED slot /\ handler.at # "credited"
  BY <1>2, LookKeeps
<1>3. CASE handler.at = "credited"
  <2>1. /\ slot' = [ack |-> 0, recv |-> slot.recv]
        /\ handler' = [at |-> "idle", m |-> 0, from |-> "none", then |-> "idle"]
        /\ UNCHANGED <<pcb, flags, queue, due, inflight, posted, calls, refused, closed>>
    BY <1>1, <1>3 DEF Sent, Goto, Idle, client
  <2>2. Types'
    BY <1>1, <2>1 DEF Inv, Types, TypeOK, Steps, Holding
  <2>3. SlotInv' /\ ResetInv'
    BY <2>1 DEF SlotInv, ResetInv, Resetting, Taking
  <2>4. FlagInv' /\ LimitInv'
    BY <2>1 DEF Inv, FlagInv, LimitInv, Resetting, Taking
  <2>5. OrderInv'
    <3> SUFFICES ASSUME ~closed PROVE OrderInv'
      BY <2>1 DEF OrderInv
    <3>1. Fetched' = Fetched
      BY <2>1 DEF Fetched
    <3>2. \/ Fetched = 0 \/ calls[Fetched] > 0 \/ Fetched \in {slot.ack, slot.recv}
      BY <1>3 DEF Inv, OrderInv
    <3>3. slot.ack = 0 \/ slot.recv = slot.ack \/ calls[slot.ack] > 0
      BY <1>3 DEF Inv, SlotInv
    <3>4. Fetched = 0 \/ calls[Fetched] > 0 \/ Fetched = slot.recv
      BY <3>2, <3>3
    <3>5. QED BY <2>1, <3>1, <3>4 DEF Inv, OrderInv
  <2>6. QED BY <2>2, <2>3, <2>4, <2>5 DEF Inv
<1>4. CASE ~UNCHANGED slot /\ handler.at # "credited"
  <2>1. /\ handler.at = "credit" /\ slot.ack # 0
        /\ slot' = [ack |-> slot.ack, recv |-> slot.ack]
        /\ handler' = [at |-> "credited", m |-> 0, from |-> "none", then |-> "idle"]
        /\ UNCHANGED <<pcb, flags, queue, due, inflight, posted, calls, refused, closed>>
    BY <1>1, <1>4 DEF Sent, Goto, Idle, adapter, client
  <2>2. slot.recv = 0
    BY <2>1 DEF Inv, SlotInv
  <2>3. Types'
    BY <1>1, <2>1 DEF Inv, Types, TypeOK, Steps, Holding
  <2>4. SlotInv' /\ ResetInv'
    BY <2>1 DEF SlotInv, ResetInv, Resetting, Taking
  <2>5. FlagInv' /\ LimitInv'
    BY <2>1 DEF Inv, FlagInv, LimitInv, Resetting, Taking
  <2>6. OrderInv'
    <3>1. Fetched' = Fetched
      BY <2>1 DEF Fetched
    <3>2. QED BY <2>1, <2>2, <3>1 DEF Inv, OrderInv
  <2>7. QED BY <2>3, <2>4, <2>5, <2>6 DEF Inv
<1>5. QED BY <1>2, <1>3, <1>4

LEMMA NextKeeps == ASSUME Inv, [Next]_vars PROVE Inv'
<1>1. CASE UNCHANGED vars
  BY <1>1 DEF vars, Inv, Types, TypeOK, SlotInv, ResetInv, FlagInv, LimitInv, OrderInv, Fetched
<1>2. CASE LwipThread
  <2>1. CASE Connected \/ LoadRecv \/ Recv \/ Poll \/ Polled \/ Closed
    BY <2>1, LookKeeps
  <2>2. QED BY <1>2, <2>1, CallKeeps, ClearKeeps, FetchKeeps, StoreKeeps, FollowKeeps, DrainKeeps,
            SentKeeps
            DEF LwipThread
<1>3. QED BY <1>1, <1>2, SendKeeps, ElapseKeeps DEF Next

-----------------------------------------------------------------------------
(* The strengthened invariant: what must hold of the slots, the flags, the *)
(* mailbox and the counts wherever send() interrupts a handler.            *)
THEOREM Invariant == Spec => []Inv
<1>1. QED BY InitInv, NextKeeps, PTL DEF Spec

(* For any number of requests, with send() between any two steps of a      *)
(* handler: until the device closes a connection, the callbacks come in the*)
(* order of the requests, a refused request is not called back, and _reset()*)
(* goes through no slot that has become NULL since it tested it.           *)
THEOREM CallsAreSound == Spec => []CallsSound
<1>1. ASSUME Inv PROVE CallsSound
  <2>1. TypeOK
    BY <1>1 DEF Inv, Types
  <2>2. RefusedNotCalled
    BY <1>1 DEF Inv, FlagInv, LimitInv, RefusedNotCalled
  <2>3. FirstCallsInOrder
    <3>1. SUFFICES ASSUME ~closed, NEW m \in Msgs, NEW n \in Msgs, m < n, calls[n] > 0 PROVE calls[m] > 0
      BY DEF FirstCallsInOrder
    <3>2. calls[n] # 0
      BY <1>1, <3>1 DEF Inv, Types, TypeOK
    <3>3. n <= Fetched /\ m < Fetched
      BY <1>1, <3>1, <3>2, TypesAre DEF Inv, OrderInv
    <3>4. QED BY <1>1, <3>1, <3>3 DEF Inv, OrderInv
  <2>4. ~closed => NeverFollowsNull
    BY <1>1 DEF Inv, LimitInv, NeverFollowsNull
  <2>5. QED BY <2>1, <2>2, <2>3, <2>4 DEF CallsSound
<1>2. QED BY <1>1, Invariant, PTL

(* send() resets no connection that is being made or open, whatever step of*)
(* a handler it interrupts.                                                *)
THEOREM LiveIsKept == Spec => LiveNotReset
<1>1. ASSUME Inv, [Next]_vars, pcb \in {"synsent", "open"}, ~closed PROVE refused' = refused
  <2>1. flags # {}
    BY <1>1 DEF Inv, FlagInv, LimitInv
  <2>2. CASE Send
    BY <2>1, <2>2 DEF Send
  <2>3. CASE ~Send
    BY <1>1, <2>3 DEF Next, LwipThread, Elapse, Call, Clear, LoadRecv, Fetch, Store, FollowSlot, ResetSteps,
                  Connected, Sent, Recv, Poll, Polled, Closed, vars, client
  <2>4. QED BY <2>2, <2>3
<1>2. QED BY <1>1, Invariant, PTL DEF Spec, LiveNotReset

(* The request in the receive slot leaves it only once it was called back, *)
(* and no other one is put over it.                                        *)
THEOREM SlotIsKept == Spec => SlotKeptUntilCalled
<1>1. ASSUME Inv, [Next]_vars, slot.recv # 0, slot'.recv # slot.recv
      PROVE  slot'.recv = 0 /\ calls'[slot.recv] > 0
  <2>1. /\ slot = [ack |-> slot.ack, recv |-> slot.recv] /\ slot.recv \in Msgs
        /\ slot.ack \in Slots /\ calls \in [Msgs -> Nat]
    BY <1>1, TypesAre DEF Inv, Slots
  <2>2. CASE Send /\ FinishDue
    <3>1. PICK done : /\ done = {slot.recv} \cap due /\ Called(done)
                      /\ slot' = IF done # {} THEN [slot EXCEPT !.recv = 0] ELSE slot
      BY <2>2 DEF FinishDue
    <3>2. done = {slot.recv} /\ slot'.recv = 0
      BY <1>1, <2>1, <3>1
    <3>3. QED BY <1>1, <2>1, <3>1, <3>2, CallsGrow DEF Inv
  <2>3. CASE Send /\ Reset(posted + 1)
    <3>1. PICK done : slot.recv \in done /\ Called(done)
      <4>1. slot.recv \in {posted + 1} \cup Range(queue) \cup (Range(slot) \ {0})
        BY <1>1, <2>1 DEF Range
      <4>2. QED BY <2>3, <4>1 DEF Reset
    <3>2. slot'.recv = 0
      BY <2>3 DEF Reset
    <3>3. QED BY <1>1, <2>1, <3>1, <3>2, CallsGrow DEF Inv
  <2>4. CASE Clear
    <3>1. /\ handler.from \in {"ack", "recv"} /\ slot' = [slot EXCEPT ![handler.from] = 0]
          /\ slot[handler.from] \in {0, handler.m} /\ calls[handler.m] > 0 /\ calls' = calls
      BY <1>1, <2>4 DEF Inv, SlotInv, Clear, client
    <3>2. handler.from = "recv"
      BY <1>1, <2>1, <3>1
    <3>3. QED BY <1>1, <2>1, <3>1, <3>2
  <2>5. CASE Sent
    <3>1. slot.ack # 0 /\ handler.at = "credit"
      BY <1>1, <2>1, <2>5 DEF Sent, adapter
    <3>2. QED BY <1>1, <3>1 DEF Inv, SlotInv
  <2>6. CASE Store
    BY <1>1, <2>6 DEF Inv, SlotInv, Store
  <2>7. CASE UNCHANGED slot
    BY <1>1, <2>7
  <2>8. Elapse \/ Call \/ LoadRecv \/ Fetch \/ FollowSlot \/ ResetSteps \/ Connected \/ Recv \/ Poll \/ Polled \/ Closed
          \/ UNCHANGED vars => UNCHANGED slot
    BY DEF Elapse, Call, LoadRecv, Fetch, FollowSlot, ResetSteps, Connected, Recv, Poll, Polled, Closed, adapter, vars
  <2>9. Send => FinishDue \/ Reset(posted + 1)
    BY DEF Send
  <2>10. QED BY <1>1, <2>2, <2>3, <2>4, <2>5, <2>6, <2>7, <2>8, <2>9 DEF Next, LwipThread
<1>2. QED BY <1>1, Invariant, PTL DEF Spec, SlotKeptUntilCalled
==============================================================================
