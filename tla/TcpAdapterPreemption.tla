------------------------- MODULE TcpAdapterPreemption -------------------------
(***************************************************************************)
(* The TCP adapter while the main thread preempts the lwIP thread.         *)
(*                                                                         *)
(* The lwIP thread has a lower priority than the main thread and the       *)
(* adapter holds no lock: send() runs, as one step, between any two steps  *)
(* of a handler, never the other way round.  A handler is a chain of steps,*)
(* each reading or writing the shared fields once; where the compiler may  *)
(* keep a field it has read, both values are possible.  A handler that goes*)
(* through a NULL it reads is lost: what happens then is undefined, and the*)
(* model stops.  A message is one packet and fits all buffers; send() never*)
(* finds the mailbox full (N requests).  Blocks left behind by a remote    *)
(* close are the subject of TcpSerialAdapter2.                             *)
(***************************************************************************)
EXTENDS Integers, Sequences, Functions

CONSTANTS
    N,      \* number of requests the application makes (bound)
    Faults  \* "remoteClose": the device may close the connection,
            \* "keepAlive": the adapter may, for silence

Msgs == 1..N

ASSUME NAssumption == N \in Nat
ASSUME FaultAssumption == Faults \subseteq {"remoteClose", "keepAlive"}

VARIABLES
    pcb,      \* state of the block in _pcb, "none" when _pcb is NULL
    flags,    \* the members of {"connected", "connecting"} that are set
    queue,    \* _send_queue
    slot,     \* _ack_slot and _recv_slot, 0 for NULL
    due,      \* messages whose answer is complete or late
    inflight, \* message on the wire, not acknowledged; 0 for none
    handler,  \* the lwIP thread: next step, local packet, slot it came from,
              \* and the step after the packet is done with
    posted, calls, refused,
    closed    \* whether the device ever closed a connection (history)

vars == <<pcb, flags, queue, slot, due, inflight, handler, posted, calls, refused, closed>>
adapter == <<pcb, flags, queue, slot>>
client == <<posted, calls, refused, closed>>

Idle == [at |-> "idle", m |-> 0, from |-> "none", then |-> "idle"]

Init ==
    /\ pcb = "none" /\ flags = {} /\ queue = <<>>
    /\ slot = [ack |-> 0, recv |-> 0]
    /\ due = {} /\ inflight = 0 /\ handler = Idle
    /\ posted = 0 /\ calls = [m \in Msgs |-> 0] /\ refused = {} /\ closed = FALSE

-----------------------------------------------------------------------------
(* send(), in one step on the main thread.                                 *)

Called(done) ==
    calls' = [m \in Msgs |-> IF m \in done THEN calls[m] + 1 ELSE calls[m]]

(* _processRecvQueue() within send().                                      *)
FinishDue ==
    LET done == {slot.recv} \cap due
    IN  /\ Called(done)
        /\ slot' = IF done # {} THEN [slot EXCEPT !.recv = 0] ELSE slot

(* _reset() within send(), which drops the new request m as well.          *)
Reset(m) ==
    /\ Called({m} \cup Range(queue) \cup (Range(slot) \ {0}))
    /\ slot' = [ack |-> 0, recv |-> 0]
    /\ queue' = <<>>
    /\ pcb' = "none"
    /\ flags' = {}
    /\ refused' = refused \cup {m}

Send ==
    /\ posted < N /\ handler.at # "lost"
    /\ posted' = posted + 1
    /\ LET state == IF pcb = "none" THEN "closed" ELSE pcb
       IN  \/ /\ flags # {}
              /\ queue' = Append(queue, posted + 1)
              /\ pcb' = state
              /\ FinishDue
              /\ UNCHANGED <<flags, refused>>
           \/ /\ flags = {} /\ state = "closed"
              /\ queue' = Append(queue, posted + 1)
              /\ pcb' = "synsent"
              /\ flags' = {"connecting"}
              /\ FinishDue
              /\ UNCHANGED refused
           \/ /\ flags = {} /\ state # "closed"
              /\ Reset(posted + 1)
    /\ inflight' = IF pcb = "none" THEN 0 ELSE inflight
    /\ UNCHANGED <<due, handler, closed>>

-----------------------------------------------------------------------------
(* Steps of the handlers.                                                  *)

Goto(step) == handler' = [Idle EXCEPT !.at = step]

(* The packet m, held in a local, is called back and deleted; as next step *)
(* the slot it was read from, if any, is set to NULL.                      *)
Finish(m, from, then) == handler' = [at |-> "call", m |-> m, from |-> from, then |-> then]

Call ==
    /\ handler.at = "call"
    /\ Called({handler.m})
    /\ handler' = IF handler.from = "none" THEN [Idle EXCEPT !.at = handler.then]
                                           ELSE [handler EXCEPT !.at = "clear"]
    /\ UNCHANGED <<adapter, due, inflight, posted, refused, closed>>

Clear ==
    /\ handler.at = "clear"
    /\ slot' = [slot EXCEPT ![handler.from] = 0]
    /\ Goto(handler.then)
    /\ UNCHANGED <<pcb, flags, queue, due, inflight, client>>

(* _tcp_connected(): _connected is set before _connecting is cleared.      *)
ConnectedSwapped ==  \* mutant: _connecting is cleared first
    \/ /\ handler.at = "idle" /\ pcb = "synsent"
       /\ pcb' = "open" /\ flags' = flags \ {"connecting"} /\ Goto("connected")
       /\ UNCHANGED <<queue, slot, due, inflight, client>>
    \/ /\ handler.at = "connected"
       /\ flags' = flags \cup {"connected"} /\ Goto("idle")
       /\ UNCHANGED <<pcb, queue, slot, due, inflight, client>>

Connected ==
    \/ /\ handler.at = "idle" /\ pcb = "synsent"
       /\ pcb' = "open" /\ flags' = flags \cup {"connected"} /\ Goto("connected")
       /\ UNCHANGED <<queue, slot, due, inflight, client>>
    \/ /\ handler.at = "connected"
       /\ flags' = flags \ {"connecting"} /\ Goto("idle")
       /\ UNCHANGED <<pcb, queue, slot, due, inflight, client>>

(* _processRecvQueue(): reads _recv_slot and tests whether it is due.      *)
LoadRecvUntested ==  \* mutant: packet == NULL is not tested
    /\ handler.at = "load"
    /\ IF slot.recv \in due \cup {0} THEN Finish(slot.recv, "recv", handler.then)
                                     ELSE Goto(handler.then)
    /\ UNCHANGED <<adapter, due, inflight, client>>

LoadRecv ==
    /\ handler.at = "load"
    /\ IF slot.recv \in due THEN Finish(slot.recv, "recv", handler.then)
                            ELSE Goto(handler.then)
    /\ UNCHANGED <<adapter, due, inflight, client>>

(* _processSendQueue(), first half: fetches when both slots are empty.     *)
FetchEarly ==  \* mutant: _recv_slot is not tested
    /\ handler.at = "fetch"
    /\ IF slot.ack = 0 /\ queue # <<>>
       THEN queue' = Tail(queue) /\ handler' = [handler EXCEPT !.at = "store", !.m = Head(queue)]
       ELSE UNCHANGED queue /\ Goto(handler.then)
    /\ UNCHANGED <<pcb, flags, slot, due, inflight, client>>

Fetch ==
    /\ handler.at = "fetch"
    /\ IF slot.ack = 0 /\ slot.recv = 0 /\ queue # <<>>
       THEN queue' = Tail(queue) /\ handler' = [handler EXCEPT !.at = "store", !.m = Head(queue)]
       ELSE UNCHANGED queue /\ Goto(handler.then)
    /\ UNCHANGED <<pcb, flags, slot, due, inflight, client>>

(* Second half: tcp_write() and _ack_slot = packet.  Data that is written  *)
(* sets _timeout_count to 0, so the poll that writes it is not the last.   *)
Onwards == IF handler.then = "polled" THEN "idle" ELSE handler.then

StoreNowhere ==  \* mutant: _ack_slot is not set
    /\ handler.at = "store"
    /\ inflight' = handler.m
    /\ Goto(Onwards)
    /\ UNCHANGED <<adapter, due, client>>

Store ==
    /\ handler.at = "store"
    /\ slot' = [slot EXCEPT !.ack = handler.m]
    /\ inflight' = handler.m
    /\ Goto(Onwards)
    /\ UNCHANGED <<pcb, flags, queue, due, client>>

(* _tcp_sent(): tries to send, then moves the packet between the slots.    *)
Sent ==
    \/ /\ handler.at = "idle" /\ pcb = "open" /\ inflight # 0
       /\ inflight' = 0
       /\ handler' = [Idle EXCEPT !.at = "fetch", !.then = "credit"]
       /\ UNCHANGED <<adapter, due, client>>
    \/ /\ handler.at = "credit"
       /\ IF slot.ack = 0 THEN Goto("idle") /\ UNCHANGED slot
          ELSE slot' = [slot EXCEPT !.recv = slot.ack] /\ Goto("credited")
       /\ UNCHANGED <<pcb, flags, queue, due, inflight, client>>
    \/ /\ handler.at = "credited"
       /\ slot' = [slot EXCEPT !.ack = 0]
       /\ Goto("idle")
       /\ UNCHANGED <<pcb, flags, queue, due, inflight, client>>

(* _tcp_recv() with data: the packet is read from the slot, then filled.   *)
Recv ==
    \/ /\ handler.at = "idle" /\ pcb = "open" /\ slot.recv # 0
       /\ handler' = [Idle EXCEPT !.at = "fill", !.m = slot.recv]
       /\ UNCHANGED <<adapter, due, inflight, client>>
    \/ /\ handler.at = "fill"
       /\ due' = due \cup {handler.m}
       /\ handler' = [Idle EXCEPT !.at = "load"]
       /\ UNCHANGED <<adapter, inflight, client>>

(* _tcp_poll().  The last poll is the one that finds the keep-alive limit: *)
(* ten polls, half a second apart, since data last came or went, so that an*)
(* answer still awaited (TCP_SERIAL_RCV_TMO, 500 ms) is late by then.      *)
PollSoon ==  \* mutant: the keep-alive limit is shorter than TCP_SERIAL_RCV_TMO
    \/ /\ handler.at = "idle" /\ pcb \in {"synsent", "open"}
       /\ \E then \in {"poll", "lastPoll"} : handler' = [Idle EXCEPT !.at = "load", !.then = then]
       /\ UNCHANGED <<adapter, due, inflight, client>>
    \/ /\ handler.at \in {"poll", "lastPoll"}
       /\ handler' = IF "connected" \notin flags THEN Idle
                     ELSE [Idle EXCEPT !.at = "fetch",
                                       !.then = IF handler.at = "poll" THEN "idle" ELSE "polled"]
       /\ UNCHANGED <<adapter, due, inflight, client>>

Poll ==
    \/ /\ handler.at = "idle" /\ pcb \in {"synsent", "open"}
       /\ \/ handler' = [Idle EXCEPT !.at = "load", !.then = "poll"]
          \/ /\ "keepAlive" \in Faults /\ slot.recv \in due \cup {0}
             /\ handler' = [Idle EXCEPT !.at = "load", !.then = "lastPoll"]
       /\ UNCHANGED <<adapter, due, inflight, client>>
    \/ /\ handler.at \in {"poll", "lastPoll"}
       /\ handler' = IF "connected" \notin flags THEN Idle
                     ELSE [Idle EXCEPT !.at = "fetch",
                                       !.then = IF handler.at = "poll" THEN "idle" ELSE "polled"]
       /\ UNCHANGED <<adapter, due, inflight, client>>

(* The last poll closes the block, if tcp_close() finds memory to.         *)
PolledDisconnecting ==  \* mutant: _connected is cleared before _reset()
    /\ handler.at = "polled" /\ pcb' = "closing" /\ flags' = {} /\ Goto("resetRecv")
    /\ UNCHANGED <<queue, slot, due, inflight, client>>

Polled ==
    /\ handler.at = "polled"
    /\ \/ Goto("idle") /\ UNCHANGED pcb
       \/ pcb' = "closing" /\ Goto("resetRecv")
    /\ UNCHANGED <<flags, queue, slot, due, inflight, client>>

(* _tcp_recv() for a closed connection.                                    *)
Closed ==
    /\ handler.at = "idle" /\ pcb = "open" /\ "remoteClose" \in Faults
    /\ pcb' = "closewait" /\ flags' = flags \ {"connected"} /\ Goto("resetRecv")
    /\ closed' = TRUE
    /\ UNCHANGED <<queue, slot, due, inflight, posted, calls, refused>>

(* _reset() reads a slot anew each time it needs it: to test it, to call   *)
(* back, to delete the data, to delete the packet.  The callback goes      *)
(* through the value tested or a newer one; deleting NULL does nothing.    *)
TakeOut(s, then) ==
    IF slot[s] = 0 THEN Goto(then)
    ELSE handler' = [at |-> "follow", m |-> slot[s], from |-> s, then |-> then]

FollowSlot ==
    \/ /\ handler.at = "follow"
       /\ \/ Called({handler.m}) /\ handler' = [handler EXCEPT !.at = "free"]
          \/ slot[handler.from] = 0 /\ Goto("lost") /\ UNCHANGED calls
       /\ UNCHANGED <<adapter, due, inflight, posted, refused, closed>>
    \/ /\ handler.at = "free"
       /\ IF slot[handler.from] = 0 THEN Goto("lost") ELSE handler' = [handler EXCEPT !.at = "clear"]
       /\ UNCHANGED <<adapter, due, inflight, client>>

(* _reset() step by step: the receive slot, the ack slot, the mailbox, _pcb*)
(* and the flags.                                                          *)
ResetSteps ==
    \/ /\ handler.at = "resetRecv"
       /\ TakeOut("recv", "resetAck")
       /\ UNCHANGED <<adapter, due, inflight, client>>
    \/ /\ handler.at = "resetAck"
       /\ TakeOut("ack", "drain")
       /\ UNCHANGED <<adapter, due, inflight, client>>
    \/ /\ handler.at = "drain"
       /\ IF queue # <<>> THEN queue' = Tail(queue) /\ Finish(Head(queue), "none", "drain")
                          ELSE UNCHANGED queue /\ Goto("resetPcb")
       /\ UNCHANGED <<pcb, flags, slot, due, inflight, client>>
    \/ /\ handler.at = "resetPcb"
       /\ pcb' = "none" /\ Goto("resetFlags")
       /\ UNCHANGED <<flags, queue, slot, due, inflight, client>>
    \/ /\ handler.at = "resetFlags"
       /\ flags' = {} /\ Goto("idle")
       /\ UNCHANGED <<pcb, queue, slot, due, inflight, client>>

(* TCP_SERIAL_RCV_TMO passes for the outstanding message.                  *)
Elapse ==
    /\ \E m \in (Range(slot) \ {0}) \ due : due' = due \cup {m}
    /\ UNCHANGED <<adapter, inflight, handler, client>>

LwipThread ==
    \/ Call \/ Clear \/ LoadRecv \/ Fetch \/ Store \/ FollowSlot \/ ResetSteps
    \/ Connected \/ Sent \/ Recv \/ Poll \/ Polled \/ Closed

Next == Send \/ Elapse \/ LwipThread

Spec == Init /\ [][Next]_vars

(* The main loop sleeps, so the lwIP thread gets to run, and makes requests*)
(* up to the bound (it polls the devices); lwIP polls twice a second, data *)
(* is acknowledged and connections are made in the end.                    *)
FairSpec ==
    /\ Spec
    /\ WF_vars(Send)
    /\ WF_vars(LwipThread)
    /\ SF_vars(Poll) /\ SF_vars(Sent) /\ SF_vars(Connected)
    /\ WF_vars(Elapse)

-----------------------------------------------------------------------------
Slots == Msgs \cup {0}

Holding == {"call", "follow", "free", "clear", "store", "fill"}

(* The type invariant of the adapter, the preempted thread and the client. *)
TypeOK ==
    /\ pcb \in {"none", "closed", "synsent", "open", "closewait", "closing"}
    /\ flags \subseteq {"connected", "connecting"}
    /\ queue \in Seq(Msgs) /\ Len(queue) <= N
    /\ slot \in [ack : Slots, recv : Slots]
    /\ due \subseteq Msgs
    /\ inflight \in Slots
    /\ handler.m \in IF handler.at \in Holding THEN Msgs ELSE {0}
    /\ handler.from \in {"none", "ack", "recv"}
    /\ closed \in BOOLEAN
    /\ posted \in 0..N /\ calls \in [Msgs -> Nat] /\ refused \subseteq Msgs

(* Wherever send() interrupts a handler, it never resets the adapter of a  *)
(* connection that is being made or open (_tcp_connected() and send()),    *)
(* unless the device closed one before.                                    *)
LiveNotReset ==
    [][(pcb \in {"synsent", "open"} /\ ~closed) => refused' = refused]_vars

(* A request in the receive slot stays there until its callback ran, and no*)
(* other request is put over it, although send() empties the slot while a  *)
(* handler is about to (_tcp_sent() and _processRecvQueue()).              *)
SlotKeptUntilCalled ==
    [][slot.recv # 0 /\ slot'.recv # slot.recv => slot'.recv = 0 /\ calls'[slot.recv] > 0]_vars

(* Requests are called back in the order they were made, even when a       *)
(* handler is preempted between fetching a request and storing it, as long *)
(* as the device closes no connection.                                     *)
FirstCallsInOrder ==
    ~closed => \A m, n \in Msgs : m < n /\ calls[n] > 0 => calls[m] > 0

(* Preemption loses no request: each one is called back in the end, or, if *)
(* send() posted it in the middle of a _reset(), it waits in the mailbox   *)
(* for the next send() to connect again; or the device closed a connection.*)
AllAnswered ==
    \A m \in Msgs : posted >= m ~>
        \/ calls[m] > 0 \/ closed
        \/ posted = N /\ flags = {} /\ m \in Range(queue)

(* The callback of a request runs at most once (_processRecvQueue() in both*)
(* threads); it frees the argument of the client.                          *)
CalledAtMostOnce == \A m \in Msgs : calls[m] <= 1

(* A request that send() refused is not called back (send() and _reset()), *)
(* unless the device closed a connection.                                  *)
RefusedNotCalled == ~closed => \A m \in refused : calls[m] = 0

(* _reset() clears a queue it has found not to be empty: it never goes     *)
(* through a slot that has become NULL since.                              *)
NeverFollowsNull == handler.at # "lost"

(* The state of the adapter is sound wherever send() preempts a handler;   *)
(* only after the device closed a connection may _reset() follow NULL.     *)
CallsSound ==
    /\ TypeOK /\ FirstCallsInOrder /\ RefusedNotCalled
    /\ ~closed => NeverFollowsNull
===============================================================================
