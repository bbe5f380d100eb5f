-------------------------- MODULE TcpSerialAdapter2 --------------------------
(***************************************************************************)
(* The request/response adapter every TCP device of the desk talks through *)
(* (net/TcpSerialAdapter2.cpp).  The main thread hands requests to send(); *)
(* the lwIP thread calls the static handlers _tcp_connected, _tcp_sent,    *)
(* _tcp_recv, _tcp_poll and _tcp_err.                                      *)
(*                                                                         *)
(* Granularity: a handler, and a send() that does not block, is one step.  *)
(* A send() that finds the mailbox full is two steps with handlers in      *)
(* between.  What happens when the main thread preempts a handler half way *)
(* is the subject of TcpAdapterPreemption.                                 *)
(*                                                                         *)
(* Requests are numbered 1..N in the order send() is called; 0 stands for  *)
(* a NULL slot.  lwIP itself is not part of the repository: tcp, unacked,  *)
(* owed and wire model it and the device from how the adapter uses them.*)
(***************************************************************************)
EXTENDS Integers, Sequences, Functions

CONSTANTS
    N,          \* number of requests the application makes (bound)
    Pcbs,       \* the pool of lwIP connection blocks (MEMP_NUM_TCP_PCB)
    NULL,       \* no connection block
    QueueSize,  \* slots of the _send_queue mailbox (8)
    Length,     \* bytes of each request
    Expected,   \* expected_max_length of each request, negative: unknown
    ReplyLen,   \* bytes the device answers to each request
    SndBuf,     \* TCP_SND_BUF
    RcvBuf,     \* TCP_SERIAL_RCV_BUF (255)
    Timeout,    \* keep-alive limit in polls given to begin(), 0 is off
    ByteMod,    \* 2^8, the width of _timeout_count
    Faults      \* what may go wrong below the adapter

Msgs == 1..N

FaultKinds == {"alloc", "connect", "write", "close", "remoteClose", "abort", "silent"}

ASSUME NAssumption == N \in Nat
ASSUME NullAssumption == NULL \notin Pcbs
ASSUME QueueAssumption == QueueSize \in Nat \ {0}
ASSUME LengthAssumption == /\ Length \in [Msgs -> Nat]
                           /\ Expected \in [Msgs -> Int]
                           /\ ReplyLen \in [Msgs -> Nat]
ASSUME BufferAssumption == SndBuf \in Nat /\ RcvBuf \in Nat
ASSUME TimeoutAssumption == ByteMod \in Nat \ {0} /\ Timeout \in 0..(ByteMod - 1)
ASSUME FaultAssumption == Faults \subseteq FaultKinds

VARIABLES
    adapter,  \* the fields of the TcpSerialAdapter2 object
    app,      \* the main thread: "idle", "blocked" in post(), or "halted"
    posted,   \* number of requests handed to _createMsg so far
    calls,    \* history: how often the callback of each request ran
    refused,  \* history: requests whose send() returned an error
    tcp,      \* lwIP: the state of every connection block
    unacked,  \* lwIP: bytes written to a block and not acknowledged yet
    owed,     \* device: reply bytes to requests that are still on their way
    wire      \* lwIP: reply bytes under way, tagged with their request

vars == <<adapter, app, posted, calls, refused, tcp, unacked, owed, wire>>
network == <<tcp, unacked, owed, wire>>

(* States in which lwIP still runs the handlers registered for a block.    *)
Active == {"synsent", "open", "closewait", "closing"}
PcbStates == Active \cup {"free", "closed"}

Init ==
    /\ adapter = [pcb |-> NULL, connected |-> FALSE, connecting |-> FALSE,
                  timed_out |-> FALSE, timeout_count |-> 0, send_queue |-> <<>>,
                  ack_slot |-> 0, recv_slot |-> 0, ptr |-> 0, acked |-> 0,
                  recv_buf |-> <<>>, late |-> FALSE]
    /\ app = "idle"
    /\ posted = 0
    /\ calls = [m \in Msgs |-> 0]
    /\ refused = {}
    /\ tcp = [p \in Pcbs |-> "free"]
    /\ unacked = [p \in Pcbs |-> 0]
    /\ owed = [p \in Pcbs |-> <<>>]
    /\ wire = [p \in Pcbs |-> <<>>]

-----------------------------------------------------------------------------
(* The member functions, as functions from the object to the object.       *)

CreateConnection(a, p) == [a EXCEPT !.timeout_count = 0, !.pcb = p]

(* Requests _reset() drops.  A request in the ack slot is dropped only when*)
(* it was written completely.                                              *)
AckDroppedNever(a) == FALSE  \* mutant: _reset forgets the ack slot

AckDropped(a) == a.ack_slot # 0 /\ a.ptr >= Length[a.ack_slot]

DroppedQueueForgotten(a) ==  \* mutant: the mailbox is emptied without callbacks
    ({a.recv_slot} \ {0}) \cup (IF AckDropped(a) THEN {a.ack_slot} ELSE {})

Dropped(a) ==
    Range(a.send_queue) \cup ({a.recv_slot} \ {0})
        \cup (IF AckDropped(a) THEN {a.ack_slot} ELSE {})

ResetKeepingRecv(a) ==  \* mutant: _recv_slot is not set to NULL
    [a EXCEPT !.ack_slot = IF AckDropped(a) THEN 0 ELSE @, !.send_queue = <<>>,
              !.pcb = NULL, !.connected = FALSE, !.connecting = FALSE]

ResetStaysConnected(a) ==  \* mutant: _connected survives
    [a EXCEPT !.recv_slot = 0, !.ack_slot = IF AckDropped(a) THEN 0 ELSE @,
              !.send_queue = <<>>, !.pcb = NULL, !.connecting = FALSE]

Reset(a) ==
    [a EXCEPT !.timed_out = IF a.connecting THEN TRUE ELSE @,
              !.recv_slot = 0,
              !.ack_slot = IF AckDropped(a) THEN 0 ELSE @,
              !.send_queue = <<>>,
              !.pcb = NULL,
              !.timeout_count = 0,
              !.connected = FALSE,
              !.connecting = FALSE]

(* The request in the receive slot is due: 500 ms without data, or at least*)
(* as many bytes as it expects.                                            *)
Due(a) ==
    /\ a.recv_slot # 0
    /\ \/ a.late
       \/ Expected[a.recv_slot] >= 0 /\ Len(a.recv_buf) >= Expected[a.recv_slot]

ProcessRecvQueueKeeping(a) == a  \* mutant: _recv_slot is not set to NULL

ProcessRecvQueue(a) == IF Due(a) THEN [a EXCEPT !.recv_slot = 0] ELSE a

Finished(a) == IF Due(a) THEN {a.recv_slot} ELSE {}

(* _processSendQueue() fetches only when no request is outstanding.        *)
FetchesEarly(a) == a.ack_slot = 0 /\ a.send_queue # <<>>  \* mutant: _recv_slot not tested

Fetches(a) == a.ack_slot = 0 /\ a.recv_slot = 0 /\ a.send_queue # <<>>

(* tcp_write() is refused by lwIP unless the block can carry data.         *)
Writable(p) == p # NULL /\ tcp[p] \in {"synsent", "open", "closewait"}

(* Bytes written of the fetched request when u bytes per block are unacked.*)
WriteLen(a, u) ==
    LET m == Head(a.send_queue)
        avail == SndBuf - u[a.pcb]
    IN  IF avail < Length[m] THEN avail ELSE Length[m]

(* Can the tcp_write() of _processSendQueue() end with outcome ok?         *)
WriteOutcome(a, ok) ==
    IF ~Fetches(a) THEN ok
    ELSE IF ok THEN Writable(a.pcb)
    ELSE ~Writable(a.pcb) \/ "write" \in Faults

(* _processSendQueue(): the fetched request is written as far as the send  *)
(* buffer allows, or is gone because tcp_write() failed (after four        *)
(* attempts, each resetting the keep-alive count, when out of memory).     *)
SendQueue(a, u, ok) ==
    IF ~Fetches(a) THEN a
    ELSE IF ok
    THEN [a EXCEPT !.send_queue = Tail(@), !.ack_slot = Head(a.send_queue),
                   !.ptr = WriteLen(a, u), !.acked = 0, !.recv_buf = <<>>,
                   !.late = FALSE, !.timeout_count = 0]
    ELSE [a EXCEPT !.send_queue = Tail(@),
                   !.timeout_count = IF Writable(a.pcb) THEN 0 ELSE @]

(* What the write does to lwIP; the device will owe the reply of a request *)
(* that was written as a whole.                                            *)
Transmit(a, u, o, ok) ==
    IF Fetches(a) /\ ok
    THEN LET m == Head(a.send_queue)
             n == WriteLen(a, u)
             whole == n = Length[m]
         IN  /\ unacked' = [u EXCEPT ![a.pcb] = @ + n]
             /\ owed' = [o EXCEPT ![a.pcb] =
                            IF whole THEN @ \o [i \in 1..ReplyLen[m] |-> m] ELSE @]
    ELSE unacked' = u /\ owed' = o

(* The callbacks of the requests in done run, each once.                   *)
Called(done) ==
    calls' = [m \in Msgs |-> IF m \in done THEN calls[m] + 1 ELSE calls[m]]

-----------------------------------------------------------------------------
(* send(), on the main thread.                                             *)

(* tcp_new() failed: the setters of _createConnection() write through NULL *)
(* before send() tests it, so the firmware faults or send() gives up.      *)
SendNoMem ==
    /\ app = "idle" /\ posted < N /\ adapter.pcb = NULL
    /\ "alloc" \in Faults \/ \A p \in Pcbs : tcp[p] # "free"
    /\ app' \in {"idle", "halted"}
    /\ posted' = posted + 1
    /\ refused' = refused \cup {posted + 1}
    /\ adapter' = [adapter EXCEPT !.timeout_count = 0]
    /\ UNCHANGED <<calls, network>>

(* The rest of send() once request m is in the mailbox (or was answered    *)
(* ERR_ARG at once, being empty).  Reading _pcb->state through NULL yields *)
(* a word of the vector table, which is not CLOSED.                        *)
Submit(a, m, t) ==
    LET empty == IF Length[m] = 0 THEN {m} ELSE {}
        joins == a.connected \/ a.connecting
        connects == ~joins /\ a.pcb # NULL /\ t[a.pcb] = "closed"
    IN  \/ /\ joins
           /\ adapter' = ProcessRecvQueue(a)
           /\ Called(Finished(a) \cup empty)
           /\ tcp' = t
           /\ UNCHANGED refused
        \/ /\ connects
           /\ adapter' = ProcessRecvQueue([a EXCEPT !.connecting = TRUE])
           /\ Called(Finished(a) \cup empty)
           /\ \/ tcp' = [t EXCEPT ![a.pcb] = "synsent"]
              \/ "connect" \in Faults /\ tcp' = t
           /\ UNCHANGED refused
        \/ /\ ~joins /\ ~connects
           /\ adapter' = Reset(a)
           /\ Called(Dropped(a) \cup empty)
           /\ tcp' = t
           /\ refused' = refused \cup {m}

Send ==
    /\ app = "idle" /\ posted < N
    /\ \E p \in IF adapter.pcb = NULL THEN {q \in Pcbs : tcp[q] = "free"}
                                      ELSE {adapter.pcb} :
         LET new == adapter.pcb = NULL
             a == IF new THEN CreateConnection(adapter, p) ELSE adapter
             t == IF new THEN [tcp EXCEPT ![p] = "closed"] ELSE tcp
             m == posted + 1
         IN  /\ posted' = m
             /\ \/ /\ Length[m] > 0 /\ Len(a.send_queue) = QueueSize
                   /\ app' = "blocked"
                   /\ adapter' = a
                   /\ tcp' = t
                   /\ UNCHANGED <<calls, refused>>
                \/ /\ Length[m] > 0 /\ Len(a.send_queue) < QueueSize
                   /\ Submit([a EXCEPT !.send_queue = Append(@, m)], m, t)
                   /\ UNCHANGED app
                \/ /\ Length[m] = 0
                   /\ Submit(a, m, t)
                   /\ UNCHANGED app
             /\ unacked' = IF new THEN [unacked EXCEPT ![p] = 0] ELSE unacked
    /\ UNCHANGED <<owed, wire>>

(* post() found room again and send() goes on with what it finds.          *)
SendResumeAnyway ==  \* mutant: post() does not wait for room
    /\ app = "blocked"
    /\ Submit([adapter EXCEPT !.send_queue = Append(@, posted)], posted, tcp)
    /\ app' = "idle"
    /\ UNCHANGED <<posted, unacked, owed, wire>>

SendResume ==
    /\ app = "blocked" /\ Len(adapter.send_queue) < QueueSize
    /\ Submit([adapter EXCEPT !.send_queue = Append(@, posted)], posted, tcp)
    /\ app' = "idle"
    /\ UNCHANGED <<posted, unacked, owed, wire>>

-----------------------------------------------------------------------------
(* The handlers, on the lwIP thread, for the block p.                      *)

TcpConnectedSilently(p) ==  \* mutant: _connected is not set
    /\ tcp[p] = "synsent"
    /\ tcp' = [tcp EXCEPT ![p] = "open"]
    /\ adapter' = [adapter EXCEPT !.connecting = FALSE, !.timed_out = FALSE]
    /\ UNCHANGED <<app, posted, calls, refused, unacked, owed, wire>>

TcpConnectedSticky(p) ==  \* mutant: _timed_out is not cleared
    /\ tcp[p] = "synsent"
    /\ tcp' = [tcp EXCEPT ![p] = "open"]
    /\ adapter' = [adapter EXCEPT !.connected = TRUE, !.connecting = FALSE,
                                  !.timeout_count = 0]
    /\ UNCHANGED <<app, posted, calls, refused, unacked, owed, wire>>

TcpConnected(p) ==
    /\ tcp[p] = "synsent"
    /\ tcp' = [tcp EXCEPT ![p] = "open"]
    /\ adapter' = [adapter EXCEPT !.connected = TRUE, !.connecting = FALSE,
                                  !.timed_out = FALSE, !.timeout_count = 0]
    /\ UNCHANGED <<app, posted, calls, refused, unacked, owed, wire>>

(* The acknowledged bytes are credited to whatever request is in the ack   *)
(* slot after more data was sent.                                          *)
Acknowledge(a, n) ==
    IF a.ack_slot = 0 THEN a
    ELSE IF a.acked + n >= Length[a.ack_slot]
    THEN [a EXCEPT !.acked = @ + n, !.recv_slot = a.ack_slot, !.ack_slot = 0]
    ELSE [a EXCEPT !.acked = @ + n]

TcpSent(p) ==
    /\ tcp[p] \in {"open", "closewait", "closing"}
    /\ \E n \in 1..unacked[p], ok \in BOOLEAN :
         LET a == [adapter EXCEPT !.timed_out = FALSE]
             u == [unacked EXCEPT ![p] = @ - n]
             received == u[p] = 0
             o == IF received THEN [owed EXCEPT ![p] = <<>>] ELSE owed
         IN  /\ WriteOutcome(a, ok)
             /\ adapter' = Acknowledge(SendQueue(a, u, ok), n)
             /\ Transmit(a, u, o, ok)
             /\ \/ /\ received /\ tcp[p] = "open"
                   /\ wire' = [wire EXCEPT ![p] = @ \o owed[p]]
                \/ /\ ~received \/ tcp[p] # "open" \/ "silent" \in Faults
                   /\ UNCHANGED wire
    /\ UNCHANGED <<app, posted, calls, refused, tcp>>

(* n reply bytes arrive.  lwIP reports no error with data, so the branch   *)
(* for err # ERR_OK is never taken.                                        *)
TcpRecv(p) ==
    /\ tcp[p] = "open"
    /\ \E n \in 1..Len(wire[p]) :
         LET a == [adapter EXCEPT !.timeout_count = 0, !.timed_out = FALSE]
             fits == Len(a.recv_buf) + n <= RcvBuf
             b == IF a.recv_slot = 0 THEN a
                  ELSE IF fits THEN [a EXCEPT !.recv_buf = @ \o SubSeq(wire[p], 1, n),
                                              !.late = FALSE]
                  ELSE [a EXCEPT !.late = TRUE]
         IN  /\ adapter' = ProcessRecvQueue(b)
             /\ Called(Finished(b))
             /\ wire' = [wire EXCEPT ![p] = SubSeq(@, n + 1, Len(@))]
    /\ UNCHANGED <<app, posted, refused, tcp, unacked, owed>>

TcpRecvClosedBriefly(p) ==  \* mutant: _tcp_recv() does not call _reset()
    /\ tcp[p] = "open" /\ wire[p] = <<>> /\ "remoteClose" \in Faults
    /\ adapter' = [adapter EXCEPT !.timeout_count = 0, !.timed_out = FALSE,
                                  !.connected = FALSE]
    /\ tcp' = [tcp EXCEPT ![p] = "closewait"]
    /\ UNCHANGED <<app, posted, calls, refused, unacked, owed, wire>>

(* _tcp_recv() with p == NULL: the device closed the connection.  The block*)
(* itself is neither closed nor detached from the adapter.                 *)
TcpRecvClosed(p) ==
    /\ tcp[p] = "open" /\ wire[p] = <<>> /\ "remoteClose" \in Faults
    /\ LET a == [adapter EXCEPT !.timeout_count = 0, !.timed_out = FALSE,
                                !.connected = FALSE]
       IN  /\ adapter' = Reset(a)
           /\ Called(Dropped(a))
    /\ tcp' = [tcp EXCEPT ![p] = "closewait"]
    /\ owed' = [owed EXCEPT ![p] = <<>>]
    /\ UNCHANGED <<app, posted, refused, unacked, wire>>

(* tcp_close() on the polled block.                                        *)
Closed(p) == [tcp EXCEPT ![p] = IF @ = "synsent" THEN "free" ELSE "closing"]

TcpPoll(p) ==
    /\ tcp[p] \in Active
    /\ LET a == ProcessRecvQueue(adapter)
       IN  \/ /\ ~a.connected
              /\ adapter' = a
              /\ Called(Finished(adapter))
              /\ UNCHANGED network
           \/ /\ a.connected
              /\ \E ok \in BOOLEAN :
                   LET b == SendQueue(a, unacked, ok)
                       c == IF Timeout = 0 THEN b
                            ELSE [b EXCEPT !.timeout_count = (@ + 1) % ByteMod]
                       expired == Timeout > 0 /\ c.timeout_count >= Timeout
                   IN  /\ WriteOutcome(a, ok)
                       /\ Transmit(a, unacked, owed, ok)
                       /\ \/ /\ ~expired \/ "close" \in Faults
                             /\ adapter' = c
                             /\ Called(Finished(adapter))
                             /\ UNCHANGED <<tcp, wire>>
                          \/ /\ expired
                             /\ adapter' = Reset(c)
                             /\ Called(Finished(adapter) \cup Dropped(c))
                             /\ tcp' = Closed(p)
                             /\ wire' = [wire EXCEPT ![p] = <<>>]
    /\ UNCHANGED <<app, posted, refused>>

(* The block was aborted, or the connection attempt failed; lwIP has       *)
(* already freed it.                                                       *)
TcpErr(p) ==
    /\ tcp[p] \in Active /\ "abort" \in Faults
    /\ adapter' = Reset(adapter)
    /\ Called(Dropped(adapter))
    /\ tcp' = [tcp EXCEPT ![p] = "free"]
    /\ unacked' = [unacked EXCEPT ![p] = 0]
    /\ owed' = [owed EXCEPT ![p] = <<>>]
    /\ wire' = [wire EXCEPT ![p] = <<>>]
    /\ UNCHANGED <<app, posted, refused>>

-----------------------------------------------------------------------------
(* lwIP and time.                                                          *)

(* A closed connection is finally forgotten, without a callback.           *)
TcpGone(p) ==
    /\ tcp[p] = "closing"
    /\ tcp' = [tcp EXCEPT ![p] = "free"]
    /\ unacked' = [unacked EXCEPT ![p] = 0]
    /\ owed' = [owed EXCEPT ![p] = <<>>]
    /\ UNCHANGED <<adapter, app, posted, calls, refused, wire>>

(* TCP_SERIAL_RCV_TMO has passed since recv_time of the request in a slot. *)
Elapse ==
    /\ adapter.ack_slot # 0 \/ adapter.recv_slot # 0
    /\ ~adapter.late
    /\ adapter' = [adapter EXCEPT !.late = TRUE]
    /\ UNCHANGED <<app, posted, calls, refused, network>>

Handler(p) ==
    \/ TcpConnected(p) \/ TcpSent(p) \/ TcpRecv(p) \/ TcpRecvClosed(p)
    \/ TcpPoll(p) \/ TcpErr(p) \/ TcpGone(p)

Next ==
    /\ app # "halted"
    /\ \/ SendNoMem \/ Send \/ SendResume \/ Elapse
       \/ \E p \in Pcbs : Handler(p)

Spec == Init /\ [][Next]_vars

(* Every sequence of steps the firmware's priorities allow, with a network *)
(* that answers or gives up and a clock that runs: lwIP polls an active    *)
(* block twice a second, retransmits until data is acknowledged or the     *)
(* block aborted, and a connection attempt succeeds or fails.              *)
Fairness ==
    /\ WF_vars(Elapse)
    /\ WF_vars(SendResume)
    /\ \A p \in Pcbs :
         /\ WF_vars(TcpPoll(p))
         /\ WF_vars(TcpSent(p))
         /\ WF_vars(TcpConnected(p))
         /\ WF_vars(TcpGone(p))

FairSpec == Spec /\ Fairness

-----------------------------------------------------------------------------
(* Properties.                                                             *)

Slots == Msgs \cup {0}

AdapterType ==
    [pcb : Pcbs \cup {NULL}, connected : BOOLEAN, connecting : BOOLEAN,
     timed_out : BOOLEAN, timeout_count : 0..(ByteMod - 1),
     send_queue : Seq(Msgs), ack_slot : Slots, recv_slot : Slots,
     ptr : Int, acked : Nat, recv_buf : Seq(Msgs), late : BOOLEAN]

(* The type invariant of the adapter, its client and the network.          *)
TypeOK ==
    /\ adapter \in AdapterType
    /\ Len(adapter.send_queue) <= QueueSize
    /\ app \in {"idle", "blocked", "halted"}
    /\ posted \in 0..N
    /\ calls \in [Msgs -> Nat]
    /\ refused \subseteq Msgs
    /\ tcp \in [Pcbs -> PcbStates]
    /\ unacked \in [Pcbs -> Int]
    /\ owed \in [Pcbs -> Seq(Msgs)]
    /\ wire \in [Pcbs -> Seq(Msgs)]

(* Requests the adapter still holds, in the mailbox or in a slot.          *)
Held == Range(adapter.send_queue) \cup ({adapter.ack_slot, adapter.recv_slot} \ {0})

(* The request whose send() is waiting for room in the mailbox.            *)
InPost == IF app = "blocked" THEN {posted} ELSE {}

(* At most one request is between the mailbox and its callback: the device *)
(* never gets a second command before the first was answered or given up,  *)
(* whatever order _tcp_sent, _tcp_recv and _tcp_poll come in.              *)
OneOutstanding ==
    /\ adapter.ack_slot = 0 \/ adapter.recv_slot = 0
    /\ \A m \in Held : \A k \in 1..Len(adapter.send_queue) :
         m \in {adapter.ack_slot, adapter.recv_slot} => m < adapter.send_queue[k]

(* The callback of a request runs at most once.  The clients free their    *)
(* argument in it, so a second run frees it twice.                         *)
CalledAtMostOnce == \A m \in Msgs : calls[m] <= 1

(* A request that is still held has not been called back: its message is   *)
(* not used after _processRecvQueue or _reset freed it.                    *)
HeldNotCalled == \A m \in Held \cup InPost : calls[m] = 0

(* The request in the ack slot was written whole.  Nothing would write the *)
(* rest of one that was not, and _reset() keeps it while it drops those    *)
(* behind it.                                                              *)
WrittenWhole == adapter.ack_slot # 0 => adapter.ptr >= Length[adapter.ack_slot]

(* A block the adapter has let go of while it can still connect or deliver.*)
(* The keep-alive close of _tcp_poll() is that of the block it polls, and  *)
(* _reset() forgets the block in _pcb: the two are not always the same.    *)
Astray == \E p \in Pcbs \ {adapter.pcb} : tcp[p] \in {"synsent", "open"}

(* A step leaves a request that is held or waits in post() where it is, or *)
(* it is called back or refused by send(); only while a block is astray can*)
(* _processSendQueue() fetch a request and fail to write it.               *)
NoneVanishes ==
    Astray \/ \A m \in Held \cup InPost \cup (posted + 1)..posted' :
                 m \in Held' \cup InPost' \cup refused' \/ calls'[m] > 0

(* A request that send() refused is not called back as well, unless the    *)
(* connection was reset while post() waited.                               *)
RefusedOrCalled ==
    \A m \in refused' :
        \/ calls'[m] = 0
        \/ m \in refused /\ calls[m] > 0
        \/ app = "blocked" /\ adapter.pcb = NULL

(* No request is lost: none is stuck half written, none vanishes, and the  *)
(* client, which frees its argument both when send() refuses and in the    *)
(* callback, gets one of the two.                                          *)
NoSilentLoss == []WrittenWhole /\ [][NoneVanishes /\ RefusedOrCalled]_vars

(* The flags are true.  isTimedout(), which drives the "device             *)
(* unavailable" LEDs, never speaks of a device the adapter is connected    *)
(* to; _connected speaks of a block that is open, the one in _pcb unless   *)
(* another is astray; and the adapter knows when the block in _pcb is open *)
(* or about to be.                                                         *)
FlagsTrue ==
    /\ adapter.timed_out => ~adapter.connected
    /\ adapter.connected => \E p \in Pcbs : tcp[p] = "open" /\ (Astray \/ p = adapter.pcb)
    /\ adapter.pcb # NULL =>
          /\ tcp[adapter.pcb] = "open" => adapter.connected
          /\ tcp[adapter.pcb] = "synsent" => adapter.connected \/ adapter.connecting

(* The bytes collected for a request are bytes the device sent in answer   *)
(* to this request.                                                        *)
RepliesMatch ==
    adapter.recv_slot # 0 =>
        \A k \in 1..Len(adapter.recv_buf) : adapter.recv_buf[k] = adapter.recv_slot

(* Every request that send() took is eventually called back, unless a block*)
(* goes astray: then it may be lost.                                       *)
AllAnswered ==
    \A m \in Msgs :
        m \in Held \cup InPost ~> calls[m] > 0 \/ m \in refused \/ Astray

-----------------------------------------------------------------------------
(* The adapter as a FIFO of requests.                                      *)

One(m) == IF m = 0 THEN <<>> ELSE <<m>>

Pending ==
    One(adapter.recv_slot) \o One(adapter.ack_slot) \o adapter.send_queue
        \o (IF app = "blocked" THEN <<posted>> ELSE <<>>)

Fifo == INSTANCE RequestFifo WITH pending <- Pending, taken <- posted

(* The adapter implements the FIFO its clients rely on.                    *)
ImplementsFifo == Fifo!Spec

=============================================================================
