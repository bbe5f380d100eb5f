---------------------------- MODULE AtemSession ----------------------------
(***************************************************************************)
(* The connection to the ATEM video switcher: lib/ATEM.cpp (handshake,     *)
(* answering, timeouts), net/UdpClient.cpp (the mailbox between the lwIP   *)
(* thread and the control thread) and the part of Videoswitcher::run that  *)
(* decides between waiting, reconnecting and sending commands.             *)
(*                                                                         *)
(* A datagram is a record; the switcher's state is one growing number, of  *)
(* which the desk holds a copy (the _ATEM_* fields).  The local port is    *)
(* taken to be the same after a reconnect, so packets of an old session    *)
(* still reach the desk (or are lost).  The switcher is external: it       *)
(* opens a new session at every hello, numbers it, repeats what was not    *)
(* answered, and obeys only commands of its session.                       *)
(***************************************************************************)
EXTENDS Naturals, Sequences, FiniteSets, SequencesExt

CONSTANTS
    MailboxSize,    \* UdpClient::_mbox (16 in the code)
    MaxNet,         \* bound: datagrams in flight in one direction
    MaxChange,      \* bound: changes made at the switcher itself
    MaxPress,       \* bound: button presses at the desk
    MaxFault,       \* bound: faults of the network or the switcher
    Faults          \* what may go wrong: "lose", "late", "drop"

ASSUME AtemAssumption ==
    /\ MailboxSize \in Nat \ {0}
    /\ MaxNet \in Nat \ {0, 1}
    /\ {MaxChange, MaxPress, MaxFault} \subseteq Nat
    /\ Faults \subseteq {"lose", "late", "drop"}

VARIABLES
    phase,          \* "sleep"; "loop": in runLoop; "decide": the rest of run()
    connecting,     \* _isConnectingTime > 0
    silent,         \* isConnectionTimedOut(): 5 s since _lastContact
    expired,        \* 20 s since _isConnectingTime
    initialized,    \* _hasInitialized
    session,        \* _sessionID
    cache,          \* the _ATEM_* fields, filled by _parsePacket
    pressed,        \* a button is down and run() has not seen it yet
    mailbox,        \* UdpClient::_mbox
    toDesk,         \* datagrams on their way to the desk
    toSwitcher,     \* datagrams on their way to the switcher
    peer,           \* the switcher: status, session, value, acked
    joined,         \* history: the session offered in the last handshake
    missed,         \* history: the states lost since the dump and not sent again
    changes, presses, faults

desk  == <<phase, connecting, silent, expired, initialized, session, cache, joined>>
net   == <<mailbox, toDesk, toSwitcher>>
bounds == <<changes, presses, faults>>
vars  == <<desk, pressed, net, peer, missed, bounds>>

Greeting == 0       \* the session number of the handshake packets (0x53ab)

\* What the switcher sends.  hello: 20 bytes, offers a session in its body;
\* state: longer than 12 bytes; ping: 12 bytes.
Hello(offer)    == [kind |-> "hello", session |-> Greeting, value |-> offer]
State(s, value) == [kind |-> "state", session |-> s, value |-> value]
Ping(s)         == [kind |-> "ping", session |-> s, value |-> 0]

\* What the desk sends.
Connect       == [kind |-> "connect", session |-> Greeting, value |-> 0]
HelloAnswer   == [kind |-> "helloAnswer", session |-> Greeting, value |-> 0]
Ack(s, value) == [kind |-> "ack", session |-> s, value |-> value]
Command(s)    == [kind |-> "command", session |-> s, value |-> 0]

\* A state of the session that is (or was last) open.
Current(p) == p.kind = "state" /\ p.session = peer.session

Room(channel, n) == Len(channel) + n <= MaxNet

\* UdpClient::send: one datagram, built from the parts written before.
Send(p) ==
    /\ Room(toSwitcher, 1)
    /\ toSwitcher' = Append(toSwitcher, p)

\* UdpClient::begin: stop() resets the mailbox, a new pcb takes over.
Reopen == mailbox' = <<>>

Spend(fault) ==
    /\ fault \in Faults
    /\ faults < MaxFault
    /\ faults' = faults + 1

(***************************************************************************)
(* The control thread.                                                     *)
(***************************************************************************)

\* connect(): the first call comes from main, before the thread starts.
Init ==
    /\ phase = "sleep" /\ connecting = TRUE /\ silent = FALSE /\ expired = FALSE
    /\ initialized = FALSE /\ session = Greeting /\ cache = 0 /\ joined = Greeting
    /\ pressed = FALSE
    /\ mailbox = <<>> /\ toDesk = <<>> /\ toSwitcher = <<Connect>>
    /\ peer \in {[status |-> "closed", session |-> 0, value |-> v, acked |-> v] : v \in {0, 1}}
    /\ missed = {} /\ changes = 0 /\ presses = 0 /\ faults = 0

\* The thread sleeps 1 ms between two calls of run() (main.cpp:107).
Wake ==
    /\ phase = "sleep"
    /\ phase' = "loop"
    /\ UNCHANGED <<connecting, silent, expired, initialized, session, cache, joined,
                   pressed, net, peer, missed, bounds>>

\* Mutant: the 20 s limit is forgotten.
ShakePatient ==
    /\ phase = "loop" /\ connecting
    /\ phase' = "decide"
    /\ mailbox' = IF mailbox = <<>> THEN <<>> ELSE Tail(mailbox)
    /\ IF mailbox # <<>> /\ Head(mailbox).kind = "hello"
       THEN /\ Send(HelloAnswer)
            /\ connecting' = FALSE
            /\ joined' = Head(mailbox).value
       ELSE UNCHANGED <<connecting, toSwitcher, joined>>
    /\ UNCHANGED <<silent, expired, initialized, session, cache, pressed, toDesk, peer, missed, bounds>>

\* runLoop while connecting: at most one packet is read; the answer to our
\* hello ends the handshake, any other packet is thrown away.
Shake ==
    /\ phase = "loop" /\ connecting
    /\ phase' = "decide"
    /\ mailbox' = IF mailbox = <<>> THEN <<>> ELSE Tail(mailbox)
    /\ IF mailbox # <<>> /\ Head(mailbox).kind = "hello"
       THEN /\ Send(HelloAnswer)
            /\ connecting' = FALSE
            /\ joined' = Head(mailbox).value
       ELSE /\ connecting' = ~expired
            /\ UNCHANGED <<toSwitcher, joined>>
    /\ UNCHANGED <<silent, expired, initialized, session, cache, pressed, toDesk, peer, missed, bounds>>

\* Mutant: only what is answered is read, not the initial dump.
ParsedAfterDump(p) == IF p.kind = "state" /\ initialized THEN p.value ELSE cache

\* What _parsePacket makes of the copy: only packets longer than their header,
\* and none of the handshake, carry a state.
Parsed(p) == IF p.kind = "state" THEN p.value ELSE cache

\* runLoop when not connecting, one round of its loop: the session number is
\* taken from every packet, a packet of 12 bytes ends the initial dump, and
\* from then on what asks for an answer gets one (the answer to a ping, which
\* changes nothing at the switcher, is left out).
Handle ==
    /\ phase = "loop" /\ ~connecting /\ mailbox # <<>>
    /\ LET p == Head(mailbox)
       IN  /\ session' = p.session
           /\ silent' = FALSE
           /\ initialized' = (initialized \/ p.kind = "ping")
           /\ cache' = Parsed(p)
           /\ missed' = IF Current(p) THEN missed \ {p.value} ELSE missed
           /\ IF initialized' /\ p.kind = "state"
              THEN /\ Send(Ack(p.session, p.value))
              ELSE UNCHANGED toSwitcher
    /\ mailbox' = Tail(mailbox)
    /\ UNCHANGED <<phase, connecting, expired, joined, pressed, toDesk, peer, bounds>>

\* runLoop when not connecting: the mailbox is empty.
HandledAll ==
    /\ phase = "loop" /\ ~connecting /\ mailbox = <<>>
    /\ phase' = "decide"
    /\ UNCHANGED <<connecting, silent, expired, initialized, session, cache, joined,
                   pressed, net, peer, missed, bounds>>

\* Mutant: connect() keeps _hasInitialized.
ReconnectInitialized ==
    /\ phase = "decide" /\ silent /\ ~connecting
    /\ phase' = "sleep"
    /\ connecting' = TRUE /\ silent' = FALSE /\ expired' = FALSE
    /\ Reopen
    /\ Send(Connect)
    /\ UNCHANGED <<initialized, session, cache, joined, pressed, toDesk, peer, missed, bounds>>

\* run: the connection timed out and no attempt is under way: connect(), which
\* empties the mailbox and forgets that the dump was received.
Reconnect ==
    /\ phase = "decide" /\ silent /\ ~connecting
    /\ phase' = "sleep"
    /\ connecting' = TRUE /\ silent' = FALSE /\ expired' = FALSE
    /\ initialized' = FALSE
    /\ Reopen
    /\ Send(Connect)
    /\ UNCHANGED <<session, cache, joined, pressed, toDesk, peer, missed, bounds>>

\* run: still connecting, nothing to do.
Wait ==
    /\ phase = "decide" /\ connecting
    /\ phase' = "sleep"
    /\ UNCHANGED <<connecting, silent, expired, initialized, session, cache, joined,
                   pressed, net, peer, missed, bounds>>

\* run: online, a button found down becomes a command, once.
Operate ==
    /\ phase = "decide" /\ ~silent /\ ~connecting
    /\ phase' = "sleep"
    /\ pressed' = FALSE
    /\ IF pressed
       THEN /\ Send(Command(session))
       ELSE UNCHANGED toSwitcher
    /\ UNCHANGED <<connecting, silent, expired, initialized, session, cache, joined,
                   mailbox, toDesk, peer, missed, bounds>>

\* The button is pressed, and let go, perhaps before run() looks.
Press ==
    /\ presses < MaxPress
    /\ presses' = presses + 1
    /\ pressed' = TRUE
    /\ UNCHANGED <<desk, net, peer, missed, changes, faults>>

Release ==
    /\ pressed
    /\ pressed' = FALSE
    /\ UNCHANGED <<desk, net, peer, missed, bounds>>

\* Mutant: a full mailbox does not hold the lwIP thread.
DeliverAlways ==
    /\ phase = "sleep"
    /\ toDesk # <<>>
    /\ mailbox' = Append(mailbox, Head(toDesk))
    /\ toDesk' = Tail(toDesk)
    /\ UNCHANGED <<desk, pressed, toSwitcher, peer, missed, bounds>>

\* UdpClient::_recv in the lwIP thread; it waits while the mailbox is full, and
\* runs, with its lower priority, only while the control thread sleeps.
Deliver ==
    /\ phase = "sleep"
    /\ toDesk # <<>>
    /\ Len(mailbox) < MailboxSize
    /\ mailbox' = Append(mailbox, Head(toDesk))
    /\ toDesk' = Tail(toDesk)
    /\ UNCHANGED <<desk, pressed, toSwitcher, peer, missed, bounds>>

(***************************************************************************)
(* Time.  A packet that is on its way arrives in time, unless a fault      *)
(* ("late") delays it; when none is to be expected the time simply passes. *)
(***************************************************************************)

Holds(channel, kind) == \E p \in ToSet(channel) : p.kind = kind

Quiet ==
    IF connecting
    THEN /\ ~Holds(mailbox, "hello") /\ ~Holds(toDesk, "hello") /\ ~Holds(toSwitcher, "connect")
         /\ peer.status \in {"closed", "open"}
    ELSE /\ mailbox = <<>> /\ toDesk = <<>> /\ toSwitcher = <<>>
         /\ peer.status = "closed"

PassTime ==
    /\ \/ ~silent /\ silent' = TRUE /\ UNCHANGED expired
       \/ silent /\ connecting /\ ~expired /\ expired' = TRUE /\ UNCHANGED silent
    /\ UNCHANGED <<phase, connecting, initialized, session, cache, joined, pressed, net, peer,
                   missed, changes, presses>>

Silence == Quiet /\ PassTime /\ UNCHANGED faults
Late    == ~Quiet /\ PassTime /\ Spend("late")

(***************************************************************************)
(* The switcher and the network (external).                                *)
(***************************************************************************)

Take(kind) ==
    /\ toSwitcher # <<>>
    /\ Head(toSwitcher).kind = kind
    /\ toSwitcher' = Tail(toSwitcher)
    /\ UNCHANGED <<desk, pressed, mailbox, bounds>>

Obeys(p) == peer.status = "open" /\ p.session = peer.session

\* "Two packets immediately follow each other." (ATEM.cpp:114)
TakeConnect ==
    /\ Take("connect")
    /\ Room(toDesk, 2)
    /\ peer' = [peer EXCEPT !.status = "greeted", !.session = @ + 1]
    /\ toDesk' = toDesk \o <<Hello(peer'.session), Hello(peer'.session)>>
    /\ UNCHANGED missed

TakeHelloAnswer ==
    /\ Take("helloAnswer")
    /\ IF peer.status \in {"greeted", "insisted"}
       THEN /\ Room(toDesk, 2)
            /\ peer' = [peer EXCEPT !.status = "open", !.acked = peer.value]
            /\ toDesk' = toDesk \o <<State(peer.session, peer.value), Ping(peer.session)>>
            /\ missed' = {}
       ELSE UNCHANGED <<peer, toDesk, missed>>

TakeAck ==
    /\ Take("ack")
    /\ peer' = IF Obeys(Head(toSwitcher)) /\ Head(toSwitcher).value > peer.acked
               THEN [peer EXCEPT !.acked = Head(toSwitcher).value]
               ELSE peer
    /\ UNCHANGED <<toDesk, missed>>

\* The state of the switcher changes; an open session is told.
Changed ==
    /\ peer' = [peer EXCEPT !.value = @ + 1]
    /\ IF peer.status = "open"
       THEN /\ Room(toDesk, 1)
            /\ toDesk' = Append(toDesk, State(peer.session, peer'.value))
       ELSE UNCHANGED toDesk

TakeCommand ==
    /\ Take("command")
    /\ IF Obeys(Head(toSwitcher)) THEN Changed ELSE UNCHANGED <<peer, toDesk>>
    /\ UNCHANGED missed

ByOthers ==
    /\ changes < MaxChange
    /\ changes' = changes + 1
    /\ Changed
    /\ UNCHANGED <<desk, pressed, mailbox, toSwitcher, missed, presses, faults>>

\* What the switcher sends on its own, after 200 ms with nothing under way.
Sends(packets) ==
    /\ mailbox = <<>> /\ toDesk = <<>> /\ toSwitcher = <<>>
    /\ Room(toDesk, Len(packets))
    /\ toDesk' = packets
    /\ UNCHANGED <<desk, pressed, mailbox, toSwitcher, missed, bounds>>

\* The heartbeat: everything not yet acknowledged, in order, and a ping.
Beat ==
    /\ peer.status = "open"
    /\ Sends([i \in 1..(peer.value - peer.acked) |-> State(peer.session, peer.acked + i)]
             \o <<Ping(peer.session)>>)
    /\ UNCHANGED peer

\* "a sort of re-sent because it gets impatient" (ATEM.cpp:115)
Insist ==
    /\ peer.status = "greeted"
    /\ Sends(<<Hello(peer.session)>>)
    /\ peer' = [peer EXCEPT !.status = "insisted"]

GiveUp ==
    /\ peer.status = "insisted"
    /\ Sends(<<>>)
    /\ peer' = [peer EXCEPT !.status = "closed"]

\* The switcher restarts or drops the session.
Drop ==
    /\ peer.status # "closed"
    /\ Spend("drop")
    /\ peer' = [peer EXCEPT !.status = "closed"]
    /\ UNCHANGED <<desk, pressed, net, missed, changes, presses>>

\* A packet is lost: one of an old session (the port may have changed), or, as
\* a fault, any other.
Stale(p) == p.kind # "hello" /\ p.session # peer.session

Lose ==
    /\ \/ /\ toDesk # <<>>
          /\ \/ Stale(Head(toDesk)) /\ UNCHANGED faults
             \/ Spend("lose")
          /\ missed' = IF Current(Head(toDesk)) THEN missed \cup {Head(toDesk).value} ELSE missed
          /\ toDesk' = Tail(toDesk)
          /\ UNCHANGED toSwitcher
       \/ /\ toSwitcher # <<>>
          /\ Spend("lose")
          /\ toSwitcher' = Tail(toSwitcher)
          /\ UNCHANGED <<toDesk, missed>>
    /\ UNCHANGED <<desk, pressed, mailbox, peer, changes, presses>>

Run      == Wake \/ Shake \/ Handle \/ HandledAll \/ Reconnect \/ Wait \/ Operate
Switcher == TakeConnect \/ TakeHelloAnswer \/ TakeAck \/ TakeCommand \/ Beat \/ Insist \/ GiveUp

Next == Run \/ Deliver \/ Silence \/ Switcher \/ Press \/ Release \/ ByOthers \/ Late \/ Drop \/ Lose

Spec == Init /\ [][Next]_vars

\* The control thread runs every millisecond, the lwIP thread while it sleeps
\* (again and again, hence SF); time passes; the switcher answers and sends its heartbeat.
Fairness ==
    /\ WF_vars(Run)
    /\ SF_vars(Deliver)
    /\ WF_vars(Silence)
    /\ WF_vars(TakeConnect \/ TakeHelloAnswer \/ TakeAck \/ TakeCommand)
    /\ WF_vars(Beat)
    /\ WF_vars(Insist)
    /\ WF_vars(GiveUp)

FairSpec == Spec /\ Fairness

-----------------------------------------------------------------------------
(***************************************************************************)
(* Properties.                                                             *)
(***************************************************************************)

\* Every variable has its type and the mailbox keeps its size.
TypeOK ==
    /\ phase \in {"sleep", "loop", "decide"}
    /\ {connecting, silent, expired, initialized, pressed} \subseteq BOOLEAN
    /\ {session, cache, joined} \subseteq Nat
    /\ Len(mailbox) <= MailboxSize /\ Len(toDesk) <= MaxNet /\ Len(toSwitcher) <= MaxNet
    /\ peer.status \in {"closed", "greeted", "insisted", "open"}
    /\ peer.acked <= peer.value

\* What the getters of ATEM return is the state of the switcher whenever the
\* desk takes itself for initialized, the switcher has a session open, nothing is
\* on its way, and every state the network lost since the dump was sent again:
\* no reconnection makes the desk miss a state of the session it joins
\* (ATEM::runLoop throws away what comes before the hello), and a state that is
\* sent again until it is acknowledged is taken.
Synced ==
    peer.status = "open" /\ initialized /\ mailbox = <<>> /\ toDesk = <<>> /\ missed = {} =>
        cache = peer.value

\* While the desk takes itself for initialized (and so answers packets), the
\* number it answers with is that of the session of its last handshake or of a
\* later one, never one of a session before (ATEM::connect must forget the old).
AnswersInSession ==
    initialized /\ ~connecting /\ session # Greeting => session >= joined

\* When the faults are over, the desk ends up connected to the switcher, and it
\* shows its state unless one lost since the dump is never sent again: no
\* sequence of lost, late or repeated packets leaves connect, the 20 s and the
\* 5 s timeout in a state that is never left.
Converges ==
    <>[](~connecting /\ ~silent /\ initialized /\ (missed = {} => cache = peer.value))

\* The session is sound: the mailbox keeps its size, and no answer is one of a
\* session before.
SessionSound == TypeOK /\ AnswersInSession
=============================================================================
