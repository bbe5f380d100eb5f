------------------------- MODULE AtemSession_proofs -------------------------
(***************************************************************************)
(* Proofs about AtemSession, for any size of the mailbox and the network   *)
(* and any number of presses, changes and faults.                          *)
(*                                                                         *)
(* What is on its way to the desk is one line, the mailbox before the      *)
(* network (Fifo).  The proof rests on its order: the numbers of sessions  *)
(* never fall, and a hello stands before all other packets of the session  *)
(* it offers.  So a desk that joins a session has missed none of its       *)
(* states, although it throws away what comes before the hello.  The       *)
(* states of a session come in the order in which the switcher was in them,*)
(* so the last one to arrive is the newest, also after it was lost once.   *)
(***************************************************************************)
EXTENDS AtemSession, SequenceTheorems, TLAPS

Heard == [kind : {"hello"}, session : {Greeting}, value : Nat]
             \cup [kind : {"state", "ping"}, session : Nat, value : Nat]
Said == [kind : {"connect", "helloAnswer", "ack", "command"}, session : Nat, value : Nat]

Fifo == mailbox \o toDesk

Types ==
    /\ phase \in {"sleep", "loop", "decide"}
    /\ connecting \in BOOLEAN /\ silent \in BOOLEAN /\ expired \in BOOLEAN
    /\ initialized \in BOOLEAN /\ pressed \in BOOLEAN
    /\ session \in Nat /\ cache \in Nat /\ joined \in Nat /\ missed \subseteq Nat
    /\ mailbox \in Seq(Heard) /\ toDesk \in Seq(Heard) /\ toSwitcher \in Seq(Said)
    /\ Len(mailbox) <= MailboxSize /\ Len(toDesk) <= MaxNet /\ Len(toSwitcher) <= MaxNet
    /\ peer \in [status : {"closed", "greeted", "insisted", "open"},
                 session : Nat, value : Nat, acked : Nat]

(* The session a packet belongs to; a hello belongs to the one it offers.  *)
Num(p) == IF p.kind = "hello" THEN p.value ELSE p.session

(* Of two states of a session, the first one to come is not the newer one. *)
InTime(p, q) ==
    p.kind = "state" /\ q.kind = "state" /\ p.session = q.session => p.value <= q.value

OrderInv ==
    /\ joined <= peer.session
    /\ \A k \in 1..Len(Fifo) : joined <= Num(Fifo[k]) /\ Num(Fifo[k]) <= peer.session
    /\ \A j, k \in 1..Len(Fifo) : j < k =>
           /\ Num(Fifo[j]) <= Num(Fifo[k])
           /\ Fifo[k].kind = "hello" /\ Fifo[j].kind # "hello" => Num(Fifo[j]) < Num(Fifo[k])
           /\ InTime(Fifo[j], Fifo[k])

(* No packet tells of a state the switcher was not in yet.                 *)
ValueInv ==
    /\ \A k \in 1..Len(Fifo) : Fifo[k].kind = "state" => Fifo[k].value <= peer.value
    /\ \A k \in 1..Len(toSwitcher) : toSwitcher[k].kind = "ack" => toSwitcher[k].value <= peer.value
    /\ peer.acked <= peer.value
    /\ \A v \in missed : v <= peer.value

(* A connect that is given up after 20 s is followed by another at once.   *)
DeskInv ==
    /\ connecting => ~initialized
    /\ initialized /\ session # Greeting => session >= joined
    /\ expired => silent /\ (connecting \/ phase = "decide")

(* The desk reads what comes, unless it waits for a hello or is about to   *)
(* connect anew.                                                           *)
Able == ~connecting /\ (initialized \/ ~(phase = "decide" /\ silent))

HasHello == \E k \in 1..Len(Fifo) : Fifo[k].kind = "hello"

(* The last state of the session is on its way, or was read; then only     *)
(* pings are.                                                              *)
Latest == \E k \in 1..Len(Fifo) : Current(Fifo[k]) /\ Fifo[k].value = peer.value
Shown == /\ cache = peer.value
         /\ \A k \in 1..Len(Fifo) : Fifo[k].kind = "ping" /\ Fifo[k].session = peer.session

SyncInv ==
    peer.status = "open" /\ peer.value \notin missed =>
        /\ Able => Latest \/ Shown
        /\ ~Able /\ HasHello => Latest

Inv == Types /\ OrderInv /\ ValueInv /\ DeskInv /\ SyncInv

-----------------------------------------------------------------------------
(* What is on its way, piece by piece.                                     *)
LEMMA LineIs ==
    ASSUME NEW m \in Seq(Heard), NEW d \in Seq(Heard)
    PROVE  /\ m \o d \in Seq(Heard) /\ Len(m) \in Nat /\ Len(d) \in Nat
           /\ Len(m \o d) = Len(m) + Len(d)
           /\ \A k \in 1..Len(m \o d) :
                  /\ (m \o d)[k] \in Heard
                  /\ (m \o d)[k] = IF k <= Len(m) THEN m[k] ELSE d[k - Len(m)]
<1>1. m \o d \in Seq(Heard) /\ Len(m) \in Nat /\ Len(d) \in Nat /\ Len(m \o d) = Len(m) + Len(d)
  BY ConcatProperties
<1>2. \A k \in 1..Len(m \o d) : (m \o d)[k] \in Heard
  BY <1>1, ElementOfSeq
<1>3. QED BY <1>1, <1>2, ConcatProperties

(* d packets behind the first i - 1 are gone.                              *)
Cut(i, d) ==
    /\ i \in 1..Len(Fifo) + 1 /\ d \in 0..Len(Fifo) - i + 1
    /\ Len(Fifo') = Len(Fifo) - d
    /\ \A k \in 1..Len(Fifo') : Fifo'[k] = IF k < i THEN Fifo[k] ELSE Fifo[k + d]

LEMMA HeadTaken ==
    ASSUME Types, mailbox # <<>>, mailbox' = Tail(mailbox), UNCHANGED toDesk
    PROVE  /\ mailbox' \in Seq(Heard) /\ Len(mailbox') <= MailboxSize
           /\ Len(Fifo) \in Nat /\ Len(Fifo) > 0 /\ Head(mailbox) = Fifo[1] /\ Fifo[1] \in Heard
           /\ Cut(1, 1)
<1>1. mailbox \in Seq(Heard) /\ toDesk \in Seq(Heard)
  BY DEF Types
<1>2. /\ mailbox' \in Seq(Heard) /\ Len(mailbox') = Len(mailbox) - 1 /\ Len(mailbox) \in Nat
      /\ Head(mailbox) = mailbox[1] /\ Len(mailbox) > 0
      /\ \A k \in 1..Len(mailbox') : mailbox'[k] = mailbox[k + 1]
  BY <1>1, HeadTailProperties, EmptySeq
<1>3. /\ Len(Fifo) = Len(mailbox) + Len(toDesk) /\ Len(toDesk) \in Nat
      /\ \A k \in 1..Len(Fifo) : /\ Fifo[k] \in Heard
                                 /\ Fifo[k] = IF k <= Len(mailbox) THEN mailbox[k] ELSE toDesk[k - Len(mailbox)]
  BY <1>1, LineIs DEF Fifo
<1>4. /\ Len(Fifo') = Len(mailbox') + Len(toDesk)
      /\ \A k \in 1..Len(Fifo') :
            Fifo'[k] = IF k <= Len(mailbox') THEN mailbox'[k] ELSE toDesk[k - Len(mailbox')]
  BY <1>1, <1>2, LineIs DEF Fifo
<1>5. Cut(1, 1)
  <2>1. ASSUME NEW k \in 1..Len(Fifo') PROVE Fifo'[k] = Fifo[k + 1]
    <3>1. k + 1 \in 1..Len(Fifo) /\ k \in Nat
      BY <1>2, <1>3, <1>4
    <3>2. CASE k <= Len(mailbox')
      <4>1. Fifo'[k] = mailbox[k + 1] /\ k + 1 <= Len(mailbox)
        BY <1>2, <1>3, <1>4, <3>1, <3>2
      <4>2. QED BY <1>3, <3>1, <4>1
    <3>3. CASE ~(k <= Len(mailbox'))
      <4>1. ~(k + 1 <= Len(mailbox)) /\ k - Len(mailbox') = (k + 1) - Len(mailbox)
        BY <1>2, <3>1, <3>3
      <4>2. QED BY <1>3, <1>4, <3>1, <3>3, <4>1
    <3>4. QED BY <3>2, <3>3
  <2>2. QED BY <1>2, <1>3, <1>4, <2>1 DEF Cut
<1>6. Fifo[1] = mailbox[1] /\ Fifo[1] \in Heard /\ Len(Fifo) > 0 /\ Len(Fifo) \in Nat
  BY <1>2, <1>3
<1>7. Len(mailbox') <= MailboxSize
  BY <1>2, AtemAssumption DEF Types
<1>8. QED BY <1>2, <1>5, <1>6, <1>7

LEMMA MailboxEmptied ==
    ASSUME Types, mailbox' = <<>>, UNCHANGED toDesk
    PROVE  /\ mailbox' \in Seq(Heard) /\ Len(mailbox') <= MailboxSize
           /\ Cut(1, Len(mailbox)) /\ Len(mailbox) \in Nat
<1>1. mailbox \in Seq(Heard) /\ toDesk \in Seq(Heard) /\ MailboxSize \in Nat
  BY AtemAssumption DEF Types
<1>2. <<>> \in Seq(Heard) /\ Len(<<>>) = 0
  BY EmptySeq
<1>3. /\ Len(Fifo) = Len(mailbox) + Len(toDesk) /\ Len(toDesk) \in Nat /\ Len(mailbox) \in Nat
      /\ \A k \in 1..Len(Fifo) :
            Fifo[k] = IF k <= Len(mailbox) THEN mailbox[k] ELSE toDesk[k - Len(mailbox)]
  BY <1>1, LineIs DEF Fifo
<1>4. Fifo' = toDesk
  BY <1>1, <1>2, ConcatEmptySeq DEF Fifo
<1>5. ASSUME NEW k \in 1..Len(Fifo') PROVE Fifo'[k] = Fifo[k + Len(mailbox)]
  <2>1. k + Len(mailbox) \in 1..Len(Fifo) /\ ~(k + Len(mailbox) <= Len(mailbox))
        /\ (k + Len(mailbox)) - Len(mailbox) = k
    BY <1>3, <1>4
  <2>2. QED BY <1>3, <1>4, <2>1
<1>6. QED BY <1>1, <1>2, <1>3, <1>4, <1>5 DEF Cut

(* The lwIP thread puts a packet into the mailbox: the line is the same.   *)
LEMMA Moved ==
    ASSUME Types, toDesk # <<>>, mailbox' = Append(mailbox, Head(toDesk)), toDesk' = Tail(toDesk),
           Len(mailbox) < MailboxSize
    PROVE  /\ mailbox' \in Seq(Heard) /\ Len(mailbox') <= MailboxSize
           /\ toDesk' \in Seq(Heard) /\ Len(toDesk') <= MaxNet
           /\ Fifo' = Fifo
<1>1. mailbox \in Seq(Heard) /\ toDesk \in Seq(Heard) /\ MailboxSize \in Nat /\ MaxNet \in Nat
      /\ Len(toDesk) <= MaxNet
  BY AtemAssumption DEF Types
<1>2. /\ Head(toDesk) \in Heard /\ toDesk' \in Seq(Heard) /\ Len(toDesk') = Len(toDesk) - 1
      /\ Head(toDesk) = toDesk[1] /\ Len(toDesk) \in Nat /\ Len(toDesk) > 0
      /\ \A k \in 1..Len(toDesk') : toDesk'[k] = toDesk[k + 1]
  BY <1>1, HeadTailProperties, EmptySeq
<1>3. /\ mailbox' \in Seq(Heard) /\ Len(mailbox') = Len(mailbox) + 1 /\ Len(mailbox) \in Nat
      /\ mailbox'[Len(mailbox) + 1] = toDesk[1]
      /\ \A k \in 1..Len(mailbox) : mailbox'[k] = mailbox[k]
  BY <1>1, <1>2, AppendProperties
<1>4. /\ Fifo \in Seq(Heard) /\ Len(Fifo) = Len(mailbox) + Len(toDesk)
      /\ \A k \in 1..Len(Fifo) :
            Fifo[k] = IF k <= Len(mailbox) THEN mailbox[k] ELSE toDesk[k - Len(mailbox)]
  BY <1>1, LineIs DEF Fifo
<1>5. /\ Fifo' \in Seq(Heard) /\ Len(Fifo') = Len(mailbox') + Len(toDesk')
      /\ \A k \in 1..Len(Fifo') :
            Fifo'[k] = IF k <= Len(mailbox') THEN mailbox'[k] ELSE toDesk'[k - Len(mailbox')]
  BY <1>2, <1>3, LineIs DEF Fifo
<1>6. Len(Fifo') = Len(Fifo)
  BY <1>2, <1>3, <1>4, <1>5
<1>7. ASSUME NEW k \in 1..Len(Fifo) PROVE Fifo'[k] = Fifo[k]
  <2>1. CASE k <= Len(mailbox)
    <3>1. k \in 1..Len(mailbox) /\ k \in 1..Len(Fifo') /\ k <= Len(mailbox')
      BY <1>3, <1>6, <2>1
    <3>2. Fifo[k] = mailbox[k] /\ Fifo'[k] = mailbox'[k] /\ mailbox'[k] = mailbox[k]
      BY <1>3, <1>4, <1>5, <2>1, <3>1
    <3>3. QED BY <3>2
  <2>2. CASE k = Len(mailbox) + 1
    <3>1. Fifo'[k] = mailbox'[k] /\ mailbox'[k] = toDesk[1]
      <4>1. k \in 1..Len(Fifo') /\ k <= Len(mailbox')
        BY <1>3, <1>6, <2>2
      <4>2. Fifo'[k] = mailbox'[k]
        BY <1>5, <4>1
      <4>3. mailbox'[k] = toDesk[1]
        BY <1>3, <2>2
      <4>4. QED BY <4>2, <4>3
    <3>2. Fifo[k] = toDesk[1]
      <4>1. ~(k <= Len(mailbox)) /\ k - Len(mailbox) = 1
        BY <1>3, <2>2
      <4>2. QED BY <1>4, <4>1
    <3>3. QED BY <3>1, <3>2
  <2>3. CASE k > Len(mailbox) + 1
    <3>1. k - Len(mailbox') \in 1..Len(toDesk') /\ (k - Len(mailbox')) + 1 = k - Len(mailbox)
          /\ ~(k <= Len(mailbox')) /\ ~(k <= Len(mailbox))
      BY <1>2, <1>3, <1>4, <2>3
    <3>2. QED BY <1>2, <1>4, <1>5, <1>6, <3>1
  <2>4. QED BY <1>3, <1>4, <2>1, <2>2, <2>3
<1>8. Fifo' = Fifo
  BY <1>4, <1>5, <1>6, <1>7, SeqEqual
<1>9. QED BY <1>1, <1>2, <1>3, <1>8

(* The network loses the packet that would come next.                      *)
LEMMA HeadLost ==
    ASSUME Types, toDesk # <<>>, toDesk' = Tail(toDesk), UNCHANGED mailbox
    PROVE  /\ toDesk' \in Seq(Heard) /\ Len(toDesk') <= MaxNet
           /\ Len(mailbox) + 1 \in 1..Len(Fifo) /\ Fifo[Len(mailbox) + 1] = Head(toDesk)
           /\ Cut(Len(mailbox) + 1, 1)
<1>1. mailbox \in Seq(Heard) /\ toDesk \in Seq(Heard) /\ MaxNet \in Nat /\ Len(toDesk) <= MaxNet
  BY AtemAssumption DEF Types
<1>2. /\ toDesk' \in Seq(Heard) /\ Len(toDesk') = Len(toDesk) - 1
      /\ Head(toDesk) = toDesk[1] /\ Len(toDesk) \in Nat /\ Len(toDesk) > 0
      /\ \A k \in 1..Len(toDesk') : toDesk'[k] = toDesk[k + 1]
  BY <1>1, HeadTailProperties, EmptySeq
<1>3. /\ Len(Fifo) = Len(mailbox) + Len(toDesk) /\ Len(mailbox) \in Nat
      /\ \A k \in 1..Len(Fifo) :
            Fifo[k] = IF k <= Len(mailbox) THEN mailbox[k] ELSE toDesk[k - Len(mailbox)]
  BY <1>1, LineIs DEF Fifo
<1>4. /\ Len(Fifo') = Len(mailbox) + Len(toDesk')
      /\ \A k \in 1..Len(Fifo') :
            Fifo'[k] = IF k <= Len(mailbox) THEN mailbox[k] ELSE toDesk'[k - Len(mailbox)]
  BY <1>1, <1>2, LineIs DEF Fifo
<1>5. ASSUME NEW k \in 1..Len(Fifo')
      PROVE  Fifo'[k] = IF k < Len(mailbox) + 1 THEN Fifo[k] ELSE Fifo[k + 1]
  <2>1. CASE k <= Len(mailbox)
    BY <1>2, <1>3, <1>4, <2>1
  <2>2. CASE ~(k <= Len(mailbox))
    <3>1. k - Len(mailbox) \in 1..Len(toDesk') /\ (k - Len(mailbox)) + 1 = (k + 1) - Len(mailbox)
          /\ ~(k + 1 <= Len(mailbox)) /\ k + 1 \in 1..Len(Fifo) /\ ~(k < Len(mailbox) + 1)
      BY <1>2, <1>3, <1>4, <2>2
    <3>2. QED BY <1>2, <1>3, <1>4, <2>2, <3>1
  <2>3. QED BY <2>1, <2>2
<1>6. Len(mailbox) + 1 \in 1..Len(Fifo) /\ Fifo[Len(mailbox) + 1] = Head(toDesk)
  <2>1. Len(mailbox) + 1 \in 1..Len(Fifo) /\ (Len(mailbox) + 1) - Len(mailbox) = 1
        /\ ~(Len(mailbox) + 1 <= Len(mailbox))
    BY <1>2, <1>3
  <2>2. QED BY <1>2, <1>3, <2>1
<1>7. QED BY <1>1, <1>2, <1>3, <1>4, <1>5, <1>6 DEF Cut

(* The switcher sends packets.                                             *)
LEMMA Sent ==
    ASSUME Types, NEW packets \in Seq(Heard), toDesk' = toDesk \o packets, UNCHANGED mailbox,
           Len(toDesk) + Len(packets) <= MaxNet
    PROVE  /\ toDesk' \in Seq(Heard) /\ Len(toDesk') <= MaxNet
           /\ Len(packets) \in Nat /\ Len(Fifo) \in Nat /\ Len(Fifo') = Len(Fifo) + Len(packets)
           /\ \A k \in 1..Len(Fifo) : Fifo'[k] = Fifo[k]
           /\ \A k \in 1..Len(packets) : Fifo'[Len(Fifo) + k] = packets[k]
<1>1. mailbox \in Seq(Heard) /\ toDesk \in Seq(Heard)
  BY DEF Types
<1>2. /\ Fifo \in Seq(Heard) /\ Fifo' = Fifo \o packets /\ toDesk' \in Seq(Heard)
      /\ Len(toDesk') = Len(toDesk) + Len(packets)
  BY <1>1, LineIs, ConcatAssociative DEF Fifo
<1>3. /\ Len(Fifo) \in Nat /\ Len(packets) \in Nat /\ Len(Fifo') = Len(Fifo) + Len(packets)
      /\ \A k \in 1..Len(Fifo') : Fifo'[k] = IF k <= Len(Fifo) THEN Fifo[k] ELSE packets[k - Len(Fifo)]
  BY <1>2, LineIs
<1>4. ASSUME NEW k \in 1..Len(packets) PROVE Fifo'[Len(Fifo) + k] = packets[k]
  <2>1. Len(Fifo) + k \in 1..Len(Fifo') /\ ~(Len(Fifo) + k <= Len(Fifo)) /\ (Len(Fifo) + k) - Len(Fifo) = k
    BY <1>3
  <2>2. QED BY <1>3, <2>1
<1>5. QED BY <1>2, <1>3, <1>4

(* Where a packet of the line was before a cut.                            *)
LEMMA CutIs ==
    ASSUME Types, NEW i, NEW d, Cut(i, d)
    PROVE  /\ i \in Nat /\ d \in Nat /\ Len(Fifo) \in Nat /\ Len(Fifo') \in Nat
           /\ \A k \in 1..Len(Fifo) : Fifo[k] \in Heard
           /\ \A k \in 1..Len(Fifo') : k < i => k \in 1..Len(Fifo) /\ Fifo'[k] = Fifo[k]
           /\ \A k \in 1..Len(Fifo') : k >= i => k + d \in 1..Len(Fifo) /\ Fifo'[k] = Fifo[k + d]
           /\ \A k \in 1..Len(Fifo) : k < i => k \in 1..Len(Fifo') /\ Fifo'[k] = Fifo[k]
           /\ \A k \in 1..Len(Fifo) : k >= i + d => k - d \in 1..Len(Fifo') /\ Fifo'[k - d] = Fifo[k]
<1>1. /\ Len(Fifo) \in Nat /\ \A k \in 1..Len(Fifo) : Fifo[k] \in Heard
  BY LineIs DEF Types, Fifo
<1>2. /\ i \in 1..Len(Fifo) + 1 /\ d \in 0..Len(Fifo) - i + 1 /\ Len(Fifo') = Len(Fifo) - d
      /\ \A k \in 1..Len(Fifo') : Fifo'[k] = IF k < i THEN Fifo[k] ELSE Fifo[k + d]
  BY DEF Cut
<1>3. i \in Nat /\ d \in Nat /\ Len(Fifo') \in Nat
  BY <1>1, <1>2
<1>4. ASSUME NEW k \in 1..Len(Fifo'), k < i PROVE k \in 1..Len(Fifo) /\ Fifo'[k] = Fifo[k]
  BY <1>1, <1>2, <1>4
<1>5. ASSUME NEW k \in 1..Len(Fifo'), k >= i PROVE k + d \in 1..Len(Fifo) /\ Fifo'[k] = Fifo[k + d]
  BY <1>1, <1>2, <1>3, <1>5
<1>6. ASSUME NEW k \in 1..Len(Fifo), k < i PROVE k \in 1..Len(Fifo') /\ Fifo'[k] = Fifo[k]
  BY <1>1, <1>2, <1>3, <1>6
<1>7. ASSUME NEW k \in 1..Len(Fifo), k >= i + d
      PROVE  k - d \in 1..Len(Fifo') /\ Fifo'[k - d] = Fifo[k]
  <2>1. k - d \in 1..Len(Fifo') /\ ~(k - d < i) /\ (k - d) + d = k
    BY <1>1, <1>2, <1>3, <1>7
  <2>2. QED BY <1>2, <2>1
<1>8. QED BY <1>1, <1>3, <1>4, <1>5, <1>6, <1>7

(* A cut leaves what remains in order.                                     *)
LEMMA CutKeepsOrder ==
    ASSUME Types, OrderInv, NEW i, NEW d, Cut(i, d), peer'.session = peer.session,
           joined' <= peer.session,
           joined' = joined \/ \A k \in 1..Len(Fifo') : joined' <= Num(Fifo'[k])
    PROVE  OrderInv'
<1> DEFINE at(k) == IF k < i THEN k ELSE k + d
<1>1. /\ i \in Nat /\ d \in Nat /\ Len(Fifo') \in Nat
      /\ \A k \in 1..Len(Fifo') : at(k) \in 1..Len(Fifo) /\ Fifo'[k] = Fifo[at(k)]
  BY CutIs
<1>2. \A j, k \in 1..Len(Fifo') : j < k => at(j) < at(k)
  BY <1>1
<1> HIDE DEF at
<1>3. ASSUME NEW k \in 1..Len(Fifo') PROVE joined' <= Num(Fifo'[k]) /\ Num(Fifo'[k]) <= peer'.session
  BY <1>1 DEF OrderInv
<1>4. ASSUME NEW j \in 1..Len(Fifo'), NEW k \in 1..Len(Fifo'), j < k
      PROVE  /\ Num(Fifo'[j]) <= Num(Fifo'[k])
             /\ Fifo'[k].kind = "hello" /\ Fifo'[j].kind # "hello" => Num(Fifo'[j]) < Num(Fifo'[k])
             /\ InTime(Fifo'[j], Fifo'[k])
  <2>1. at(j) \in 1..Len(Fifo) /\ at(k) \in 1..Len(Fifo) /\ at(j) < at(k)
        /\ Fifo'[j] = Fifo[at(j)] /\ Fifo'[k] = Fifo[at(k)]
    BY <1>1, <1>2, <1>4
  <2>2. QED BY <2>1 DEF OrderInv
<1>5. QED BY <1>3, <1>4 DEF OrderInv

(* A cut spares the last state of the session if it is not cut out.        *)
LEMMA CutKeepsLatest ==
    ASSUME Types, NEW i, NEW d, Cut(i, d), peer'.session = peer.session, peer'.value = peer.value,
           \A k \in i..i + d - 1 : Current(Fifo[k]) => Fifo[k].value # peer.value, Latest
    PROVE  Latest'
<1>1. /\ i \in Nat /\ d \in Nat /\ Len(Fifo) \in Nat /\ Len(Fifo') \in Nat
      /\ \A k \in 1..Len(Fifo) : k < i => k \in 1..Len(Fifo') /\ Fifo'[k] = Fifo[k]
      /\ \A k \in 1..Len(Fifo) : k >= i + d => k - d \in 1..Len(Fifo') /\ Fifo'[k - d] = Fifo[k]
  BY CutIs
<1>2. PICK k \in 1..Len(Fifo) : Current(Fifo[k]) /\ Fifo[k].value = peer.value
  BY DEF Latest
<1>3. PICK l \in 1..Len(Fifo') : Fifo'[l] = Fifo[k]
  <2>1. k < i \/ k >= i + d
    BY <1>1, <1>2
  <2>2. QED BY <1>1, <2>1
<1>4. QED BY <1>2, <1>3 DEF Latest, Current

(* Nothing new comes by a cut.                                             *)
LEMMA CutIsLess ==
    ASSUME Types, NEW i, NEW d, Cut(i, d), peer'.session = peer.session, peer'.value = peer.value
    PROVE  /\ HasHello' => HasHello
           /\ Shown /\ cache' = cache => Shown'
           /\ /\ ValueInv /\ UNCHANGED toSwitcher /\ peer'.acked = peer.acked
              /\ \A v \in missed' : v <= peer.value
              => ValueInv'
<1>1. ASSUME NEW k \in 1..Len(Fifo') PROVE \E l \in 1..Len(Fifo) : Fifo'[k] = Fifo[l]
  <2>1. CASE k < i
    BY <2>1, CutIs
  <2>2. CASE k >= i
    BY <2>2, CutIs
  <2>3. k \in Nat /\ i \in Nat
    BY CutIs
  <2>4. QED BY <2>1, <2>2, <2>3
<1>2. QED BY <1>1 DEF HasHello, Shown, ValueInv

(* The switcher, in the session it says, sends packets of that session: no *)
(* hello, or the first ones of a session.                                  *)
LEMMA SentInOrder ==
    ASSUME Types, OrderInv, NEW packets \in Seq(Heard), toDesk' = toDesk \o packets, UNCHANGED <<mailbox, joined>>,
           Len(toDesk) + Len(packets) <= MaxNet, peer'.session \in Nat, peer'.session >= peer.session,
           \A k \in 1..Len(packets) : /\ Num(packets[k]) = peer'.session
                                      /\ packets[k].kind = "hello" =>
                                             /\ peer'.session > peer.session \/ Len(Fifo) = 0
                                             /\ \A j \in 1..Len(packets) : packets[j].kind = "hello"
                                      /\ \A l \in 1..Len(Fifo) : InTime(Fifo[l], packets[k])
                                      /\ \A l \in 1..Len(packets) : l < k => InTime(packets[l], packets[k])
    PROVE  OrderInv'
<1>1. /\ Len(packets) \in Nat /\ Len(Fifo) \in Nat /\ Len(Fifo') = Len(Fifo) + Len(packets)
      /\ \A k \in 1..Len(Fifo) : Fifo'[k] = Fifo[k]
      /\ \A k \in 1..Len(packets) : Fifo'[Len(Fifo) + k] = packets[k]
  BY Sent
<1>2. peer.session \in Nat /\ joined \in Nat
  BY DEF Types
<1>3. \A k \in 1..Len(Fifo) : Fifo[k] \in Heard /\ Num(Fifo[k]) \in Nat
  <2>1. \A k \in 1..Len(Fifo) : Fifo[k] \in Heard
    BY LineIs DEF Types, Fifo
  <2>2. \A p \in Heard : Num(p) \in Nat
    BY DEF Heard, Num, Greeting
  <2>3. QED BY <2>1, <2>2
<1>4. ASSUME NEW k \in 1..Len(Fifo'), k > Len(Fifo)
      PROVE  /\ Num(Fifo'[k]) = peer'.session
             /\ Fifo'[k].kind = "hello" =>
                  /\ peer'.session > peer.session \/ Len(Fifo) = 0
                  /\ \A j \in 1..Len(Fifo') : j > Len(Fifo) => Fifo'[j].kind = "hello"
             /\ \A j \in 1..Len(Fifo') : j < k => InTime(Fifo'[j], Fifo'[k])
  <2>1. ASSUME NEW j \in 1..Len(Fifo'), j > Len(Fifo)
        PROVE  j - Len(Fifo) \in 1..Len(packets) /\ Fifo'[j] = packets[j - Len(Fifo)]
    <3>1. j - Len(Fifo) \in 1..Len(packets) /\ Len(Fifo) + (j - Len(Fifo)) = j
      BY <1>1, <2>1
    <3>2. QED BY <1>1, <3>1
  <2>2. k - Len(Fifo) \in 1..Len(packets) /\ Fifo'[k] = packets[k - Len(Fifo)]
    BY <1>4, <2>1
  <2>3. ASSUME NEW j \in 1..Len(Fifo'), j < k PROVE InTime(Fifo'[j], Fifo'[k])
    <3>1. CASE j > Len(Fifo)
      <4>1. j - Len(Fifo) \in 1..Len(packets) /\ j - Len(Fifo) < k - Len(Fifo)
            /\ Fifo'[j] = packets[j - Len(Fifo)]
        BY <1>1, <2>1, <2>3, <3>1
      <4>2. QED BY <2>2, <4>1
    <3>2. CASE j \in 1..Len(Fifo)
      BY <1>1, <2>2, <3>2
    <3>3. QED BY <1>1, <3>1, <3>2
  <2>4. QED BY <2>1, <2>2, <2>3
<1>5. ASSUME NEW k \in 1..Len(Fifo') PROVE joined' <= Num(Fifo'[k]) /\ Num(Fifo'[k]) <= peer'.session
  <2>1. CASE k > Len(Fifo)
    BY <1>2, <1>4, <2>1 DEF OrderInv
  <2>2. CASE k \in 1..Len(Fifo)
    <3>1. Fifo'[k] = Fifo[k] /\ joined <= Num(Fifo[k]) /\ Num(Fifo[k]) <= peer.session /\ Num(Fifo[k]) \in Nat
      BY <1>1, <1>3, <2>2 DEF OrderInv
    <3>2. QED BY <1>2, <3>1
  <2>3. QED BY <1>1, <2>1, <2>2
<1>6. ASSUME NEW j \in 1..Len(Fifo'), NEW k \in 1..Len(Fifo'), j < k
      PROVE  /\ Num(Fifo'[j]) <= Num(Fifo'[k])
             /\ Fifo'[k].kind = "hello" /\ Fifo'[j].kind # "hello" => Num(Fifo'[j]) < Num(Fifo'[k])
             /\ InTime(Fifo'[j], Fifo'[k])
  <2>0. k > Len(Fifo) => InTime(Fifo'[j], Fifo'[k])
    BY <1>4, <1>6
  <2>1. CASE k \in 1..Len(Fifo)
    <3>1. j \in 1..Len(Fifo) /\ Fifo'[j] = Fifo[j] /\ Fifo'[k] = Fifo[k]
      BY <1>1, <1>6, <2>1
    <3>2. QED BY <1>6, <2>1, <3>1 DEF OrderInv
  <2>2. CASE k > Len(Fifo) /\ j > Len(Fifo)
    <3>1. Num(Fifo'[j]) = peer'.session /\ Num(Fifo'[k]) = peer'.session
          /\ (Fifo'[k].kind = "hello" => Fifo'[j].kind = "hello")
      BY <1>4, <2>2
    <3>2. Num(Fifo'[j]) <= Num(Fifo'[k])
      BY <1>2, <3>1
    <3>3. QED BY <2>0, <2>2, <3>1, <3>2
  <2>3. CASE k > Len(Fifo) /\ j \in 1..Len(Fifo)
    <3>1. Fifo'[j] = Fifo[j] /\ Num(Fifo[j]) <= peer.session /\ Num(Fifo[j]) \in Nat /\ Len(Fifo) # 0
      BY <1>1, <1>3, <2>3 DEF OrderInv
    <3>2. /\ Num(Fifo'[k]) = peer'.session
          /\ Fifo'[k].kind = "hello" => peer'.session > peer.session
      BY <1>4, <2>3, <3>1
    <3>3. QED BY <1>2, <2>0, <2>3, <3>1, <3>2
  <2>4. QED BY <1>1, <2>1, <2>2, <2>3
<1>7. joined' <= peer'.session
  BY <1>2 DEF OrderInv
<1>8. QED BY <1>5, <1>6, <1>7 DEF OrderInv

(* A step that changes nothing on the line.                                *)
LEMMA SameLineKeeps ==
    ASSUME Inv, Fifo' = Fifo, UNCHANGED <<peer, joined, cache, missed>>,
           \A k \in 1..Len(toSwitcher') : toSwitcher'[k].kind = "ack" => toSwitcher'[k].value <= peer.value,
           Able' => Able
    PROVE  OrderInv' /\ ValueInv' /\ SyncInv'
<1>1. OrderInv' /\ ValueInv'
  BY DEF Inv, OrderInv, ValueInv
<1>2. (Latest' <=> Latest) /\ (Shown' <=> Shown) /\ (HasHello' <=> HasHello)
  BY DEF Latest, Shown, HasHello, Current
<1>3. ~(Shown /\ HasHello)
  BY DEF Shown, HasHello
<1>4. QED BY <1>1, <1>2, <1>3 DEF Inv, SyncInv
-----------------------------------------------------------------------------
LEMMA InitInv == Init => Inv
<1> SUFFICES ASSUME Init PROVE Inv
  OBVIOUS
<1>1. /\ <<>> \in Seq(Heard) /\ Len(<<>>) = 0
      /\ <<Connect>> \in Seq(Said) /\ Len(<<Connect>>) = 1 /\ <<Connect>>[1] = Connect
  <2>1. Connect \in Said
    BY DEF Connect, Said, Greeting
  <2>2. QED BY <2>1, EmptySeq
<1>2. PICK v \in {0, 1} : peer = [status |-> "closed", session |-> 0, value |-> v, acked |-> v]
  BY DEF Init
<1>3. Fifo = <<>>
  BY <1>1, ConcatEmptySeq DEF Init, Fifo
<1>4. Types
  <2>1. MailboxSize \in Nat /\ MaxNet \in Nat /\ MaxNet >= 1
    BY AtemAssumption
  <2>2. peer \in [status : {"closed", "greeted", "insisted", "open"}, session : Nat, value : Nat, acked : Nat]
    BY <1>2
  <2>3. /\ phase \in {"sleep", "loop", "decide"}
        /\ connecting \in BOOLEAN /\ silent \in BOOLEAN /\ expired \in BOOLEAN
        /\ initialized \in BOOLEAN /\ pressed \in BOOLEAN
        /\ session \in Nat /\ cache \in Nat /\ joined \in Nat /\ missed \subseteq Nat
    BY DEF Init, Greeting
  <2>4. /\ mailbox \in Seq(Heard) /\ toDesk \in Seq(Heard) /\ toSwitcher \in Seq(Said)
        /\ Len(mailbox) <= MailboxSize /\ Len(toDesk) <= MaxNet /\ Len(toSwitcher) <= MaxNet
    BY <1>1, <2>1 DEF Init
  <2>5. QED BY <2>2, <2>3, <2>4 DEF Types
<1>5. OrderInv /\ SyncInv /\ DeskInv
  BY <1>1, <1>2, <1>3 DEF Init, OrderInv, SyncInv, DeskInv, Greeting
<1>6. ValueInv
  BY <1>1, <1>2, <1>3 DEF Init, ValueInv, Connect
<1>7. QED BY <1>4, <1>5, <1>6 DEF Inv

(* What goes the other way.                                                *)
LEMMA Says ==
    ASSUME Types, NEW p \in Said, Send(p)
    PROVE  /\ toSwitcher' \in Seq(Said) /\ Len(toSwitcher') <= MaxNet
           /\ \A k \in 1..Len(toSwitcher') :
                 toSwitcher'[k] = p \/ (k \in 1..Len(toSwitcher) /\ toSwitcher'[k] = toSwitcher[k])
<1>1. toSwitcher \in Seq(Said) /\ Len(toSwitcher) + 1 <= MaxNet /\ toSwitcher' = Append(toSwitcher, p)
  BY DEF Types, Send, Room
<1>2. /\ toSwitcher' \in Seq(Said) /\ Len(toSwitcher') = Len(toSwitcher) + 1 /\ Len(toSwitcher) \in Nat
      /\ toSwitcher'[Len(toSwitcher) + 1] = p
      /\ \A k \in 1..Len(toSwitcher) : toSwitcher'[k] = toSwitcher[k]
  BY <1>1, AppendProperties
<1>3. QED BY <1>1, <1>2

LEMMA Takes ==
    ASSUME Types, toSwitcher # <<>>, toSwitcher' = Tail(toSwitcher)
    PROVE  /\ toSwitcher' \in Seq(Said) /\ Len(toSwitcher') <= MaxNet
           /\ 1 \in 1..Len(toSwitcher) /\ Head(toSwitcher) = toSwitcher[1] /\ Head(toSwitcher) \in Said
           /\ \A k \in 1..Len(toSwitcher') :
                 k + 1 \in 1..Len(toSwitcher) /\ toSwitcher'[k] = toSwitcher[k + 1]
<1>1. toSwitcher \in Seq(Said) /\ Len(toSwitcher) <= MaxNet /\ MaxNet \in Nat
  BY AtemAssumption DEF Types
<1>2. /\ toSwitcher' \in Seq(Said) /\ Len(toSwitcher') = Len(toSwitcher) - 1 /\ Len(toSwitcher) \in Nat
      /\ Len(toSwitcher) > 0 /\ Head(toSwitcher) = toSwitcher[1] /\ Head(toSwitcher) \in Said
      /\ \A k \in 1..Len(toSwitcher') : toSwitcher'[k] = toSwitcher[k + 1]
  BY <1>1, HeadTailProperties, EmptySeq
<1>3. QED BY <1>1, <1>2

-----------------------------------------------------------------------------
(* The steps that leave the line as it is.                                 *)
LEMMA RunKeeps == ASSUME Inv, Wake \/ HandledAll \/ Wait \/ Operate PROVE Inv'
<1>1. /\ UNCHANGED <<connecting, silent, expired, initialized, session, cache, joined, missed, mailbox, toDesk, peer>>
      /\ phase' \in {"sleep", "loop", "decide"} /\ pressed' \in BOOLEAN
      /\ phase' = "decide" => phase = "loop" /\ ~connecting
      /\ phase = "decide" => connecting \/ ~silent
  BY DEF Wake, HandledAll, Wait, Operate, net, Inv, Types
<1>2. /\ toSwitcher' \in Seq(Said) /\ Len(toSwitcher') <= MaxNet
      /\ \A k \in 1..Len(toSwitcher') : toSwitcher'[k].kind = "ack" => toSwitcher'[k].value <= peer.value
  <2>1. CASE UNCHANGED toSwitcher
    BY <2>1 DEF Inv, Types, ValueInv
  <2>2. CASE Send(Command(session))
    <3>1. Command(session) \in Said /\ Command(session).kind = "command"
      BY DEF Command, Said, Inv, Types
    <3>2. QED BY <2>2, <3>1, Says DEF Inv, ValueInv
  <2>3. QED BY <2>1, <2>2 DEF Wake, HandledAll, Wait, Operate, net
<1>3. Types'
  BY <1>1, <1>2 DEF Inv, Types
<1>4. DeskInv'
  BY <1>1 DEF Inv, DeskInv
<1>5. Fifo' = Fifo
  BY <1>1 DEF Fifo
<1>6. Able' => Able
  BY <1>1 DEF Able, Inv, DeskInv
<1>7. QED BY <1>1, <1>2, <1>3, <1>4, <1>5, <1>6, SameLineKeeps DEF Inv

LEMMA TimeKeeps == ASSUME Inv, PassTime PROVE Inv'
<1>1. /\ UNCHANGED <<phase, connecting, initialized, session, cache, joined, missed, pressed, mailbox, toDesk, toSwitcher, peer>>
      /\ silent' = TRUE /\ expired' \in BOOLEAN /\ (expired' => expired \/ connecting)
  <2>1. UNCHANGED <<phase, connecting, initialized, session, cache, joined, missed, pressed, mailbox, toDesk, toSwitcher, peer>>
    BY DEF PassTime, net
  <2>2. silent \in BOOLEAN /\ expired \in BOOLEAN
    BY DEF Inv, Types
  <2>3. CASE ~silent /\ silent' = TRUE /\ UNCHANGED expired
    BY <2>1, <2>2, <2>3
  <2>4. CASE silent /\ connecting /\ ~expired /\ expired' = TRUE /\ UNCHANGED silent
    <3>1. silent' = TRUE
      BY <2>2, <2>4
    <3>2. QED BY <2>1, <2>4, <3>1
  <2>5. QED BY <2>3, <2>4 DEF PassTime
<1>2. Types'
  BY <1>1 DEF Inv, Types
<1>3. DeskInv'
  BY <1>1 DEF Inv, DeskInv
<1>4. Fifo' = Fifo /\ (Able' => Able)
  BY <1>1 DEF Fifo, Able
<1>5. QED BY <1>1, <1>2, <1>3, <1>4, SameLineKeeps DEF Inv, ValueInv

LEMMA ButtonKeeps == ASSUME Inv, Press \/ Release PROVE Inv'
<1>1. /\ UNCHANGED <<phase, connecting, silent, expired, initialized, session, cache, joined, missed>>
      /\ UNCHANGED <<mailbox, toDesk, toSwitcher, peer>> /\ pressed' \in BOOLEAN
  BY DEF Press, Release, desk, net
<1>2. Types'
  BY <1>1 DEF Inv, Types
<1>3. DeskInv'
  BY <1>1 DEF Inv, DeskInv
<1>4. Fifo' = Fifo /\ (Able' => Able)
  BY <1>1 DEF Fifo, Able
<1>5. QED BY <1>1, <1>2, <1>3, <1>4, SameLineKeeps DEF Inv, ValueInv

LEMMA DeliverKeeps == ASSUME Inv, Deliver PROVE Inv'
<1>1. /\ UNCHANGED <<phase, connecting, silent, expired, initialized, session, cache, joined, missed>>
      /\ UNCHANGED <<pressed, toSwitcher, peer>>
  BY DEF Deliver, desk
<1>2. /\ mailbox' \in Seq(Heard) /\ Len(mailbox') <= MailboxSize
      /\ toDesk' \in Seq(Heard) /\ Len(toDesk') <= MaxNet /\ Fifo' = Fifo
  BY Moved DEF Inv, Deliver
<1>3. Types'
  BY <1>1, <1>2 DEF Inv, Types
<1>4. DeskInv' /\ (Able' => Able)
  BY <1>1 DEF Inv, DeskInv, Able
<1>5. QED BY <1>1, <1>2, <1>3, <1>4, SameLineKeeps DEF Inv, ValueInv

(* The switcher takes an answer, or ends the session.                      *)
LEMMA PeerKeeps ==
    ASSUME Inv, UNCHANGED <<desk, pressed, mailbox, toDesk, missed>>,
           peer' \in [status : {"closed", "greeted", "insisted", "open"}, session : Nat, value : Nat, acked : Nat],
           peer'.session = peer.session, peer'.value = peer.value, peer'.acked <= peer.value,
           peer'.status = "open" => peer.status = "open",
           toSwitcher' = toSwitcher \/ (toSwitcher # <<>> /\ toSwitcher' = Tail(toSwitcher))
    PROVE  Inv'
<1>1. UNCHANGED <<phase, connecting, silent, expired, initialized, session, cache, joined, missed>> /\ Fifo' = Fifo
  BY DEF desk, Fifo
<1>2. /\ toSwitcher' \in Seq(Said) /\ Len(toSwitcher') <= MaxNet
      /\ \A k \in 1..Len(toSwitcher') : toSwitcher'[k].kind = "ack" => toSwitcher'[k].value <= peer.value
  <2>1. CASE toSwitcher' = toSwitcher
    BY <2>1 DEF Inv, Types, ValueInv
  <2>2. CASE toSwitcher # <<>> /\ toSwitcher' = Tail(toSwitcher)
    BY <2>2, Takes DEF Inv, ValueInv
  <2>3. QED BY <2>1, <2>2
<1>3. Types'
  BY <1>1, <1>2 DEF Inv, Types
<1>4. DeskInv'
  BY <1>1 DEF Inv, DeskInv
<1>5. OrderInv'
  BY <1>1 DEF Inv, OrderInv
<1>6. ValueInv'
  BY <1>1, <1>2 DEF Inv, ValueInv
<1>7. SyncInv'
  <2>1. (Latest' <=> Latest) /\ (Shown' <=> Shown) /\ (HasHello' <=> HasHello) /\ (Able' <=> Able)
    BY <1>1 DEF Latest, Shown, HasHello, Current, Able
  <2>2. QED BY <2>1 DEF Inv, SyncInv
<1>8. QED BY <1>3, <1>4, <1>5, <1>6, <1>7 DEF Inv
-----------------------------------------------------------------------------
(* The steps that take packets off the line.                               *)

(* A hello still to come means that every state of the session is behind it.*)
LEMMA HelloFirst ==
    ASSUME Inv, NEW j \in 1..Len(Fifo), Fifo[j].kind = "hello", NEW k \in 1..Len(Fifo), Current(Fifo[k])
    PROVE  j < k
<1>1. Len(Fifo) \in Nat /\ \A p \in Heard : Num(p) \in Nat
  BY LineIs DEF Inv, Types, Fifo, Heard, Num, Greeting
<1>2. Fifo[j] \in Heard /\ Num(Fifo[j]) \in Nat /\ peer.session \in Nat
  BY <1>1, LineIs DEF Inv, Types, Fifo
<1>3. Num(Fifo[k]) = peer.session /\ Fifo[k].kind = "state"
  BY DEF Current, Num
<1>4. Num(Fifo[j]) <= peer.session
  BY DEF Inv, OrderInv
<1>5. k < j => Num(Fifo[k]) < Num(Fifo[j])
  BY <1>3 DEF Inv, OrderInv
<1>6. j # k
  BY <1>3
<1>7. QED BY <1>1, <1>2, <1>3, <1>4, <1>5, <1>6

LEMMA ShakeKeeps == ASSUME Inv, Shake PROVE Inv'
<1>1. /\ phase = "loop" /\ connecting /\ ~initialized /\ phase' = "decide"
      /\ UNCHANGED <<silent, expired, initialized, session, cache, missed, pressed, toDesk, peer>>
  BY DEF Shake, Inv, DeskInv
<1>2. HelloAnswer \in Said /\ HelloAnswer.kind = "helloAnswer"
  BY DEF HelloAnswer, Said, Greeting
<1>3. ~Able /\ (expired => silent)
  BY <1>1 DEF Able, Inv, DeskInv
<1>4. CASE mailbox # <<>> /\ Head(mailbox).kind = "hello"
  <2>1. /\ mailbox' = Tail(mailbox) /\ Send(HelloAnswer) /\ connecting' = FALSE
        /\ joined' = Head(mailbox).value
    BY <1>4 DEF Shake
  <2>2. /\ mailbox' \in Seq(Heard) /\ Len(mailbox') <= MailboxSize /\ Head(mailbox) = Fifo[1]
        /\ Fifo[1] \in Heard /\ Cut(1, 1) /\ Len(Fifo) \in Nat /\ Len(Fifo) > 0
    BY <1>1, <1>4, <2>1, HeadTaken DEF Inv
  <2>3. joined' = Num(Fifo[1]) /\ joined' \in Nat
    BY <1>4, <2>1, <2>2 DEF Num, Heard
  <2>4. /\ toSwitcher' \in Seq(Said) /\ Len(toSwitcher') <= MaxNet
        /\ \A k \in 1..Len(toSwitcher') : toSwitcher'[k].kind = "ack" => toSwitcher'[k].value <= peer.value
    BY <1>2, <2>1, Says DEF Inv, ValueInv
  <2>5. Types'
    BY <1>1, <2>1, <2>2, <2>3, <2>4 DEF Inv, Types
  <2>6. OrderInv'
    <3>1. joined' <= peer.session
      BY <2>2, <2>3 DEF Inv, OrderInv
    <3>2. \A k \in 1..Len(Fifo') : joined' <= Num(Fifo'[k])
      <4>1. ASSUME NEW k \in 1..Len(Fifo') PROVE joined' <= Num(Fifo'[k])
        <5>1. k + 1 \in 1..Len(Fifo) /\ 1 \in 1..Len(Fifo) /\ 1 < k + 1 /\ Fifo'[k] = Fifo[k + 1]
          BY <2>2, CutIs DEF Inv
        <5>2. QED BY <2>3, <5>1 DEF Inv, OrderInv
      <4>2. QED BY <4>1
    <3>3. QED BY <1>1, <2>2, <3>1, <3>2, CutKeepsOrder DEF Inv
  <2>7. ValueInv'
    <3>1. \A k \in 1..Len(Fifo') : k + 1 \in 1..Len(Fifo) /\ Fifo'[k] = Fifo[k + 1]
      BY <2>2, CutIs DEF Inv
    <3>2. QED BY <1>1, <2>4, <3>1 DEF Inv, ValueInv
  <2>8. DeskInv'
    BY <1>1, <1>3, <2>1 DEF DeskInv
  <2>9. SyncInv'
    <3>1. SUFFICES ASSUME peer.status = "open", peer.value \notin missed PROVE Latest'
      BY <1>1 DEF SyncInv
    <3>2. HasHello /\ Latest
      BY <1>3, <1>4, <2>2, <3>1 DEF HasHello, Inv, SyncInv
    <3>3. \A k \in 1..1 + 1 - 1 : Current(Fifo[k]) => Fifo[k].value # peer.value
      BY <1>4, <2>2 DEF Current
    <3>4. QED BY <1>1, <2>2, <3>2, <3>3, CutKeepsLatest DEF Inv
  <2>10. QED BY <2>5, <2>6, <2>7, <2>8, <2>9 DEF Inv
<1>5. CASE ~(mailbox # <<>> /\ Head(mailbox).kind = "hello")
  <2>1. /\ UNCHANGED <<toSwitcher, joined>> /\ connecting' = ~expired
        /\ mailbox' = IF mailbox = <<>> THEN <<>> ELSE Tail(mailbox)
    BY <1>5 DEF Shake
  <2>2. ~Able' /\ connecting' \in BOOLEAN
    BY <1>1, <1>3, <2>1 DEF Able, Inv, Types
  <2>3. DeskInv'
    BY <1>1, <1>3, <2>1 DEF Inv, DeskInv
  <2>4. CASE mailbox = <<>>
    <3>1. Fifo' = Fifo /\ UNCHANGED mailbox
      BY <1>1, <2>1, <2>4 DEF Fifo
    <3>2. Types'
      BY <1>1, <2>1, <2>2, <3>1 DEF Inv, Types
    <3>3. QED BY <1>1, <2>1, <2>2, <2>3, <3>1, <3>2, SameLineKeeps DEF Inv, ValueInv
  <2>5. CASE mailbox # <<>>
    <3>1. /\ mailbox' \in Seq(Heard) /\ Len(mailbox') <= MailboxSize /\ Head(mailbox) = Fifo[1]
          /\ Fifo[1] \in Heard /\ Cut(1, 1) /\ Len(Fifo) \in Nat /\ Len(Fifo) > 0
      BY <1>1, <2>1, <2>5, HeadTaken DEF Inv
    <3>2. Types'
      BY <1>1, <2>1, <2>2, <3>1 DEF Inv, Types
    <3>3. OrderInv' /\ ValueInv'
      BY <1>1, <2>1, <3>1, CutKeepsOrder, CutIsLess DEF Inv, OrderInv, ValueInv
    <3>4. SyncInv'
      <4>1. SUFFICES ASSUME peer.status = "open", peer.value \notin missed, HasHello' PROVE Latest'
        BY <1>1, <2>2 DEF SyncInv
      <4>2. PICK l \in 1..Len(Fifo') : Fifo'[l].kind = "hello"
        BY <4>1 DEF HasHello
      <4>3. l + 1 \in 1..Len(Fifo) /\ Fifo[l + 1].kind = "hello"
        BY <3>1, <4>2, CutIs DEF Inv
      <4>4. Latest
        BY <1>3, <4>1, <4>3 DEF Inv, SyncInv, HasHello
      <4>5. \A k \in 1..1 + 1 - 1 : Current(Fifo[k]) => Fifo[k].value # peer.value
        <5>1. ~Current(Fifo[1])
          <6>1. SUFFICES ASSUME Current(Fifo[1]) PROVE FALSE
            OBVIOUS
          <6>2. l + 1 < 1 /\ l \in Nat
            BY <3>1, <4>3, <6>1, HelloFirst
          <6>3. QED BY <6>2
        <5>2. QED BY <5>1
      <4>6. QED BY <1>1, <3>1, <4>4, <4>5, CutKeepsLatest DEF Inv
    <3>5. QED BY <2>3, <3>2, <3>3, <3>4 DEF Inv
  <2>6. QED BY <2>4, <2>5
<1>6. QED BY <1>4, <1>5

LEMMA HandleKeeps == ASSUME Inv, Handle PROVE Inv'
<1> DEFINE p == Head(mailbox)
<1>1. /\ phase = "loop" /\ ~connecting /\ mailbox # <<>> /\ mailbox' = Tail(mailbox)
      /\ session' = p.session /\ silent' = FALSE /\ initialized' = (initialized \/ p.kind = "ping")
      /\ cache' = IF p.kind = "state" THEN p.value ELSE cache
      /\ missed' = IF Current(p) THEN missed \ {p.value} ELSE missed
      /\ UNCHANGED <<phase, connecting, expired, joined, pressed, toDesk, peer>>
  BY DEF Handle, Parsed
<1>2. /\ mailbox' \in Seq(Heard) /\ Len(mailbox') <= MailboxSize /\ p = Fifo[1]
      /\ p \in Heard /\ Cut(1, 1) /\ Len(Fifo) \in Nat /\ Len(Fifo) > 0
  BY <1>1, HeadTaken DEF Inv
<1>rest. \A k \in 1..Len(Fifo') : k + 1 \in 1..Len(Fifo) /\ Fifo'[k] = Fifo[k + 1] /\ Fifo[k + 1] \in Heard
  BY <1>2, CutIs DEF Inv
<1>3. p.session \in Nat /\ p.value \in Nat /\ p.kind \in {"hello", "state", "ping"}
      /\ (p.kind = "hello" => p.session = Greeting)
  BY <1>2 DEF Heard, Greeting
<1>4. p.kind = "state" => p.value <= peer.value
  BY <1>2 DEF Inv, ValueInv
<1>5. /\ toSwitcher' \in Seq(Said) /\ Len(toSwitcher') <= MaxNet
      /\ \A k \in 1..Len(toSwitcher') : toSwitcher'[k].kind = "ack" => toSwitcher'[k].value <= peer.value
  <2>1. CASE UNCHANGED toSwitcher
    BY <2>1 DEF Inv, Types, ValueInv
  <2>2. CASE Send(Ack(p.session, p.value)) /\ p.kind = "state"
    <3>1. Ack(p.session, p.value) \in Said /\ Ack(p.session, p.value).value = p.value
      BY <1>3 DEF Ack, Said
    <3>2. QED BY <1>4, <2>2, <3>1, Says DEF Inv, ValueInv
  <2>3. QED BY <2>1, <2>2 DEF Handle
<1>6. Types'
  <2>1. initialized' \in BOOLEAN /\ cache' \in Nat /\ session' \in Nat /\ missed' \subseteq Nat
    BY <1>1, <1>3 DEF Inv, Types
  <2>2. QED BY <1>1, <1>2, <1>5, <2>1 DEF Inv, Types
<1>7. OrderInv'
  BY <1>1, <1>2, CutKeepsOrder DEF Inv, OrderInv
<1>8. ValueInv'
  BY <1>1, <1>5, <1>rest DEF Inv, ValueInv
<1>9. DeskInv'
  <2>1. ASSUME p.session # Greeting PROVE p.session >= joined
    <3>1. p.kind # "hello"
      BY <1>3, <2>1
    <3>2. Num(p) = p.session
      BY <3>1 DEF Num
    <3>3. 1 \in 1..Len(Fifo)
      BY <1>2
    <3>4. joined <= Num(Fifo[1]) /\ joined \in Nat
      BY <3>3 DEF Inv, Types, OrderInv
    <3>5. joined <= p.session
      BY <1>2, <3>2, <3>4
    <3>6. QED BY <1>3, <3>4, <3>5
  <2>2. ~expired
    BY <1>1 DEF Inv, DeskInv
  <2>3. QED BY <1>1, <2>1, <2>2 DEF DeskInv
<1>10. SyncInv'
  <2>1. Able /\ Able'
    BY <1>1 DEF Able
  <2>2. SUFFICES ASSUME peer.status = "open", peer.value \notin missed' PROVE Latest' \/ Shown'
    BY <1>1, <2>1 DEF SyncInv
  <2>3. CASE Current(Fifo[1]) /\ Fifo[1].value = peer.value
    <3>1. cache' = peer'.value
      BY <1>1, <1>2, <2>3 DEF Current
    <3>2. ASSUME NEW j \in 1..Len(Fifo'), ~Latest'
          PROVE  Fifo'[j].kind = "ping" /\ Fifo'[j].session = peer'.session
      <4>1. /\ j + 1 \in 1..Len(Fifo) /\ Fifo'[j] = Fifo[j + 1] /\ 1 \in 1..Len(Fifo) /\ 1 < j + 1
            /\ Fifo[j + 1] \in Heard
        BY <1>2, <1>rest
      <4>2. Fifo[j + 1].kind # "hello"
        <5>1. SUFFICES ASSUME Fifo[j + 1].kind = "hello" PROVE FALSE
          OBVIOUS
        <5>2. j + 1 < 1
          BY <2>3, <4>1, <5>1, HelloFirst
        <5>3. QED BY <4>1, <5>2
      <4>3. Num(Fifo[1]) = peer.session /\ Num(Fifo[j + 1]) = Fifo[j + 1].session
        BY <2>3, <4>2 DEF Current, Num
      <4>4. /\ Num(Fifo[1]) <= Num(Fifo[j + 1]) /\ Num(Fifo[j + 1]) <= peer.session
            /\ InTime(Fifo[1], Fifo[j + 1])
        BY <4>1 DEF Inv, OrderInv
      <4>5. Fifo[j + 1].session \in Nat /\ peer.session \in Nat
            /\ Fifo[j + 1].value \in Nat /\ peer.value \in Nat
        BY <4>1 DEF Heard, Greeting, Inv, Types
      <4>6. Fifo[j + 1].session = peer.session
        BY <4>3, <4>4, <4>5
      <4>7. Fifo[j + 1].kind # "state"
        <5>1. SUFFICES ASSUME Fifo[j + 1].kind = "state" PROVE FALSE
          OBVIOUS
        <5>2. peer.value <= Fifo[j + 1].value
          BY <2>3, <4>4, <4>6, <5>1 DEF InTime, Current
        <5>3. Fifo[j + 1].value <= peer.value
          BY <4>1, <5>1 DEF Inv, ValueInv
        <5>4. Fifo[j + 1].value = peer.value
          BY <4>5, <5>2, <5>3
        <5>5. Latest'
          BY <1>1, <4>1, <4>6, <5>1, <5>4 DEF Latest, Current
        <5>6. QED BY <3>2, <5>5
      <4>8. Fifo[j + 1].kind \in {"hello", "state", "ping"}
        BY <4>1 DEF Heard
      <4>9. QED BY <1>1, <4>1, <4>2, <4>6, <4>7, <4>8
    <3>3. QED BY <3>1, <3>2 DEF Shown
  <2>4. CASE ~(Current(Fifo[1]) /\ Fifo[1].value = peer.value)
    <3>1. peer.value \notin missed
      BY <1>1, <1>2, <2>2, <2>4
    <3>2. CASE Shown
      <4>1. cache' = cache
        BY <1>1, <1>2, <3>2 DEF Shown
      <4>2. QED BY <1>1, <1>2, <3>2, <4>1, CutIsLess DEF Inv
    <3>3. CASE Latest
      <4>1. \A k \in 1..1 + 1 - 1 : Current(Fifo[k]) => Fifo[k].value # peer.value
        BY <2>4
      <4>2. QED BY <1>1, <1>2, <3>3, <4>1, CutKeepsLatest DEF Inv
    <3>4. QED BY <2>1, <2>2, <3>1, <3>2, <3>3 DEF Inv, SyncInv
  <2>5. QED BY <2>3, <2>4
<1>11. QED BY <1>6, <1>7, <1>8, <1>9, <1>10 DEF Inv

LEMMA ReconnectKeeps == ASSUME Inv, Reconnect PROVE Inv'
<1>1. /\ phase' = "sleep" /\ connecting' = TRUE /\ silent' = FALSE /\ expired' = FALSE
      /\ initialized' = FALSE /\ mailbox' = <<>> /\ Send(Connect)
      /\ UNCHANGED <<session, cache, joined, missed, pressed, toDesk, peer>>
  BY DEF Reconnect, Reopen
<1>2. /\ mailbox' \in Seq(Heard) /\ Len(mailbox') <= MailboxSize
      /\ Cut(1, Len(mailbox)) /\ Len(mailbox) \in Nat
  BY <1>1, MailboxEmptied DEF Inv
<1>3. /\ toSwitcher' \in Seq(Said) /\ Len(toSwitcher') <= MaxNet
      /\ \A k \in 1..Len(toSwitcher') : toSwitcher'[k].kind = "ack" => toSwitcher'[k].value <= peer.value
  <2>1. Connect \in Said /\ Connect.kind = "connect"
    BY DEF Connect, Said, Greeting
  <2>2. QED BY <1>1, <2>1, Says DEF Inv, ValueInv
<1>4. Types'
  BY <1>1, <1>2, <1>3 DEF Inv, Types
<1>5. OrderInv'
  BY <1>1, <1>2, CutKeepsOrder DEF Inv, OrderInv
<1>rest. \A k \in 1..Len(Fifo') : /\ k + Len(mailbox) \in 1..Len(Fifo)
                                  /\ Fifo'[k] = Fifo[k + Len(mailbox)]
  BY <1>2, CutIs DEF Inv
<1>6. ValueInv'
  BY <1>1, <1>3, <1>rest DEF Inv, ValueInv
<1>7. DeskInv'
  BY <1>1 DEF DeskInv
<1>8. SyncInv'
  <2>1. ~Able'
    BY <1>1 DEF Able
  <2>2. SUFFICES ASSUME peer.status = "open", peer.value \notin missed, HasHello' PROVE Latest'
    BY <1>1, <2>1 DEF SyncInv
  <2>3. PICK l \in 1..Len(Fifo') : Fifo'[l].kind = "hello"
    BY <2>2 DEF HasHello
  <2>4. l + Len(mailbox) \in 1..Len(Fifo) /\ Fifo[l + Len(mailbox)].kind = "hello"
    BY <1>rest, <2>3
  <2>5. HasHello /\ ~Shown
    BY <2>4 DEF HasHello, Shown
  <2>6. Latest
    BY <2>2, <2>5 DEF Inv, SyncInv
  <2>7. \A k \in 1..1 + Len(mailbox) - 1 : Current(Fifo[k]) => Fifo[k].value # peer.value
    <3>1. ASSUME NEW k \in 1..Len(mailbox), Current(Fifo[k]) PROVE FALSE
      <4>1. k \in 1..Len(Fifo)
        BY <1>2, <2>4
      <4>2. l + Len(mailbox) < k
        BY <2>4, <3>1, <4>1, HelloFirst
      <4>3. QED BY <1>2, <4>2
    <3>2. 1 + Len(mailbox) - 1 = Len(mailbox)
      BY <1>2
    <3>3. QED BY <3>1, <3>2
  <2>8. QED BY <1>1, <1>2, <2>6, <2>7, CutKeepsLatest DEF Inv
<1>9. QED BY <1>4, <1>5, <1>6, <1>7, <1>8 DEF Inv

(* A state of the session is lost and counted as missed, or another packet.*)
LEMMA LoseKeeps == ASSUME Inv, Lose PROVE Inv'
<1>1. /\ UNCHANGED <<phase, connecting, silent, expired, initialized, session, cache, joined>>
      /\ UNCHANGED <<desk, pressed, mailbox, peer>> /\ (Able' <=> Able)
  BY DEF Lose, desk, Able
<1>2. peer.acked <= peer.value /\ DeskInv'
  BY <1>1 DEF Inv, ValueInv, DeskInv
<1>3. CASE toSwitcher # <<>> /\ toSwitcher' = Tail(toSwitcher) /\ UNCHANGED <<toDesk, missed>>
  BY <1>1, <1>2, <1>3, PeerKeeps DEF Inv, Types
<1>4. CASE /\ toDesk # <<>> /\ toDesk' = Tail(toDesk) /\ UNCHANGED toSwitcher
           /\ missed' = IF Current(Head(toDesk)) THEN missed \cup {Head(toDesk).value} ELSE missed
  <2> DEFINE i == Len(mailbox) + 1
  <2>1. /\ toDesk' \in Seq(Heard) /\ Len(toDesk') <= MaxNet
        /\ i \in 1..Len(Fifo) /\ Fifo[i] = Head(toDesk) /\ Cut(i, 1)
    BY <1>1, <1>4, HeadLost DEF Inv
  <2>2. Fifo[i].value \in Nat /\ (Current(Fifo[i]) => Fifo[i].value <= peer.value)
    <3>1. Fifo[i] \in Heard
      BY <2>1, CutIs DEF Inv
    <3>2. QED BY <2>1, <3>1 DEF Heard, Current, Inv, ValueInv
  <2>3. Types'
    BY <1>1, <1>4, <2>1, <2>2 DEF Inv, Types
  <2>4. OrderInv' /\ ValueInv'
    <3>1. \A v \in missed' : v <= peer.value
      BY <1>4, <2>1, <2>2 DEF Inv, ValueInv
    <3>2. QED BY <1>1, <1>4, <2>1, <3>1, CutKeepsOrder, CutIsLess DEF Inv, OrderInv
  <2>5. SyncInv'
    <3>1. SUFFICES ASSUME peer.value \notin missed'
                   PROVE  /\ peer.value \notin missed
                          /\ (Latest => Latest') /\ (HasHello' => HasHello) /\ (Shown => Shown')
      BY <1>1 DEF Inv, SyncInv
    <3>2. \A k \in i..i + 1 - 1 : Current(Fifo[k]) => Fifo[k].value # peer.value
      BY <1>4, <2>1, <3>1
    <3>3. Latest => Latest'
      BY <1>1, <2>1, <3>2, CutKeepsLatest DEF Inv
    <3>4. (HasHello' => HasHello) /\ (Shown => Shown')
      BY <1>1, <2>1, CutIsLess DEF Inv
    <3>5. QED BY <1>4, <3>1, <3>3, <3>4
  <2>6. QED BY <1>2, <2>3, <2>4, <2>5 DEF Inv
<1>5. QED BY <1>3, <1>4 DEF Lose

-----------------------------------------------------------------------------
(* The steps of the switcher that send something.                          *)
LEMMA SentKeeps ==
    ASSUME Inv, NEW packets \in Seq(Heard), toDesk' = toDesk \o packets,
           UNCHANGED <<desk, pressed, mailbox>>, Len(toDesk) + Len(packets) <= MaxNet,
           missed' \subseteq missed,
           toSwitcher' = toSwitcher \/ (toSwitcher # <<>> /\ toSwitcher' = Tail(toSwitcher)),
           peer' \in [status : {"closed", "greeted", "insisted", "open"}, session : Nat, value : Nat, acked : Nat],
           peer'.session >= peer.session, peer'.value >= peer.value, peer'.acked <= peer'.value,
           \A k \in 1..Len(packets) :
               /\ Num(packets[k]) = peer'.session
               /\ packets[k].kind = "state" => /\ packets[k].value <= peer'.value
                                               /\ packets[k].value >= peer.value \/ Len(Fifo) = 0
               /\ \A l \in 1..Len(packets) : l < k => InTime(packets[l], packets[k])
               /\ packets[k].kind = "hello" =>
                      /\ peer'.session > peer.session \/ Len(Fifo) = 0
                      /\ \A j \in 1..Len(packets) : packets[j].kind = "hello",
           SyncInv'
    PROVE  Inv'
<1>1. UNCHANGED <<phase, connecting, silent, expired, initialized, session, cache, joined>>
  BY DEF desk
<1>2. /\ toDesk' \in Seq(Heard) /\ Len(toDesk') <= MaxNet
      /\ Len(packets) \in Nat /\ Len(Fifo) \in Nat /\ Len(Fifo') = Len(Fifo) + Len(packets)
      /\ \A k \in 1..Len(Fifo) : Fifo'[k] = Fifo[k]
      /\ \A k \in 1..Len(packets) : Fifo'[Len(Fifo) + k] = packets[k]
  BY Sent DEF Inv
<1>3. /\ peer.value \in Nat /\ peer'.value \in Nat
      /\ \A k \in 1..Len(Fifo) : Fifo[k].value \in Nat
      /\ \A k \in 1..Len(toSwitcher) : toSwitcher[k].value \in Nat
  <2>1. \A k \in 1..Len(Fifo) : Fifo[k] \in Heard
    BY LineIs DEF Inv, Types, Fifo
  <2>2. \A k \in 1..Len(toSwitcher) : toSwitcher[k] \in Said
    BY ElementOfSeq DEF Inv, Types
  <2>3. QED BY <2>1, <2>2 DEF Heard, Said, Inv, Types
<1>4. /\ toSwitcher' \in Seq(Said) /\ Len(toSwitcher') <= MaxNet
      /\ \A k \in 1..Len(toSwitcher') : toSwitcher'[k].kind = "ack" => toSwitcher'[k].value <= peer'.value
  <2>1. \A k \in 1..Len(toSwitcher) : toSwitcher[k].kind = "ack" => toSwitcher[k].value <= peer'.value
    <3>1. ASSUME NEW k \in 1..Len(toSwitcher), toSwitcher[k].kind = "ack"
          PROVE  toSwitcher[k].value <= peer'.value
      <4>1. toSwitcher[k].value <= peer.value
        BY <3>1 DEF Inv, ValueInv
      <4>2. QED BY <1>3, <4>1
    <3>2. QED BY <3>1
  <2>2. CASE toSwitcher' = toSwitcher
    BY <2>1, <2>2 DEF Inv, Types
  <2>3. CASE toSwitcher # <<>> /\ toSwitcher' = Tail(toSwitcher)
    BY <2>1, <2>3, Takes DEF Inv
  <2>4. QED BY <2>2, <2>3
<1>5. Types'
  BY <1>1, <1>2, <1>4 DEF Inv, Types
<1>6. OrderInv'
  <2>1. peer'.session \in Nat
    OBVIOUS
  <2>2. ASSUME NEW k \in 1..Len(packets), NEW l \in 1..Len(Fifo) PROVE InTime(Fifo[l], packets[k])
    <3>1. SUFFICES ASSUME packets[k].kind = "state", Fifo[l].kind = "state"
                   PROVE  Fifo[l].value <= packets[k].value
      BY DEF InTime
    <3>2. packets[k] \in Heard
      BY ElementOfSeq
    <3>3. Fifo[l].value <= peer.value /\ peer.value <= packets[k].value
      BY <1>2, <3>1 DEF Inv, ValueInv
    <3>4. QED BY <1>3, <3>2, <3>3 DEF Heard
  <2>3. QED BY <1>1, <2>1, <2>2, SentInOrder DEF Inv
<1>7. ValueInv'
  <2>1. ASSUME NEW k \in 1..Len(Fifo'), Fifo'[k].kind = "state" PROVE Fifo'[k].value <= peer'.value
    <3>1. CASE k \in 1..Len(Fifo)
      <4>1. Fifo'[k] = Fifo[k] /\ Fifo[k].value <= peer.value
        BY <1>2, <2>1, <3>1 DEF Inv, ValueInv
      <4>2. QED BY <1>3, <3>1, <4>1
    <3>2. CASE k \notin 1..Len(Fifo)
      <4>1. k - Len(Fifo) \in 1..Len(packets) /\ Len(Fifo) + (k - Len(Fifo)) = k
        BY <1>2, <3>2
      <4>2. Fifo'[k] = packets[k - Len(Fifo)]
        BY <1>2, <4>1
      <4>3. QED BY <2>1, <4>1, <4>2
    <3>3. QED BY <3>1, <3>2
  <2>2. \A v \in missed' : v <= peer'.value
    <3>1. \A v \in missed : v \in Nat /\ v <= peer.value
      BY DEF Inv, Types, ValueInv
    <3>2. QED BY <1>3, <3>1
  <2>3. QED BY <1>4, <2>1, <2>2 DEF ValueInv
<1>8. DeskInv'
  BY <1>1 DEF Inv, DeskInv
<1>9. QED BY <1>5, <1>6, <1>7, <1>8 DEF Inv

LEMMA LatestSent ==
    ASSUME Types, NEW packets \in Seq(Heard), toDesk' = toDesk \o packets, UNCHANGED mailbox,
           Len(toDesk) + Len(packets) <= MaxNet,
           NEW l \in 1..Len(packets), packets[l] = State(peer'.session, peer'.value)
    PROVE  Latest'
<1>1. /\ Len(packets) \in Nat /\ Len(Fifo) \in Nat /\ Len(Fifo') = Len(Fifo) + Len(packets)
      /\ \A k \in 1..Len(packets) : Fifo'[Len(Fifo) + k] = packets[k]
  BY Sent
<1>2. /\ Len(Fifo) + l \in 1..Len(Fifo') /\ Fifo'[Len(Fifo) + l] = State(peer'.session, peer'.value)
  BY <1>1
<1>3. PICK last \in 1..Len(Fifo') : Fifo'[last] = State(peer'.session, peer'.value)
  BY <1>2
<1>4. QED BY <1>3 DEF Latest, Current, State

LEMMA TakeConnectKeeps == ASSUME Inv, TakeConnect PROVE Inv'
<1> DEFINE packets == <<Hello(peer'.session), Hello(peer'.session)>>
<1>1. /\ toSwitcher # <<>> /\ toSwitcher' = Tail(toSwitcher) /\ UNCHANGED <<desk, pressed, mailbox, missed>>
      /\ peer' = [peer EXCEPT !.status = "greeted", !.session = peer.session + 1]
      /\ toDesk' = toDesk \o packets /\ Len(toDesk) + 2 <= MaxNet
  BY DEF TakeConnect, Take, Room
<1>2. peer.session \in Nat /\ peer.value \in Nat /\ peer.acked <= peer.value
  BY DEF Inv, Types, ValueInv
<1>3. /\ peer'.session = peer.session + 1 /\ peer'.value = peer.value /\ peer'.acked = peer.acked
      /\ peer'.status = "greeted"
      /\ peer' \in [status : {"closed", "greeted", "insisted", "open"}, session : Nat, value : Nat, acked : Nat]
  <2>1. peer \in [status : {"closed", "greeted", "insisted", "open"}, session : Nat, value : Nat, acked : Nat]
    BY DEF Inv, Types
  <2>2. peer.session + 1 \in Nat
    BY <1>2
  <2>3. QED BY <1>1, <2>1, <2>2
<1>4. Hello(peer'.session) \in Heard /\ Hello(peer'.session).kind = "hello" /\ Num(Hello(peer'.session)) = peer'.session
  BY <1>2, <1>3 DEF Hello, Heard, Num
<1>5. /\ packets \in Seq(Heard) /\ Len(packets) = 2
      /\ \A k \in 1..Len(packets) : packets[k] = Hello(peer'.session)
  BY <1>4
<1>6. SyncInv'
  BY <1>3 DEF SyncInv
<1> HIDE DEF packets
<1>7. peer'.session > peer.session /\ peer'.session >= peer.session /\ peer'.value >= peer.value
  BY <1>2, <1>3
<1>8. \A k \in 1..Len(packets) :
         /\ Num(packets[k]) = peer'.session
         /\ packets[k].kind = "hello"
         /\ \A l \in 1..Len(packets) : InTime(packets[l], packets[k])
  BY <1>4, <1>5 DEF InTime
<1>9. QED BY <1>1, <1>2, <1>3, <1>5, <1>6, <1>7, <1>8, SentKeeps

LEMMA TakeHelloAnswerKeeps == ASSUME Inv, TakeHelloAnswer PROVE Inv'
<1>0. peer.session \in Nat /\ peer.value \in Nat /\ peer.acked <= peer.value
  BY DEF Inv, Types, ValueInv
<1>1. CASE peer.status \in {"greeted", "insisted"}
  <2> DEFINE packets == <<State(peer.session, peer.value), Ping(peer.session)>>
  <2>1. /\ toSwitcher # <<>> /\ toSwitcher' = Tail(toSwitcher) /\ UNCHANGED <<desk, pressed, mailbox>>
        /\ missed' = {}
        /\ peer' = [peer EXCEPT !.status = "open", !.acked = peer.value]
        /\ toDesk' = toDesk \o packets /\ Len(toDesk) + 2 <= MaxNet
    BY <1>1 DEF TakeHelloAnswer, Take, Room
  <2>2. /\ peer'.session = peer.session /\ peer'.value = peer.value /\ peer'.acked = peer.value
        /\ peer' \in [status : {"closed", "greeted", "insisted", "open"}, session : Nat, value : Nat, acked : Nat]
    BY <1>0, <2>1 DEF Inv, Types
  <2>3. /\ packets \in Seq(Heard) /\ Len(packets) = 2
        /\ packets[1] = State(peer'.session, peer'.value) /\ packets[2] = Ping(peer.session)
    <3>1. State(peer.session, peer.value) \in Heard /\ Ping(peer.session) \in Heard
      BY <1>0 DEF State, Ping, Heard
    <3>2. QED BY <2>2, <3>1
  <2> HIDE DEF packets
  <2>4. ASSUME NEW k \in 1..Len(packets)
        PROVE  /\ Num(packets[k]) = peer'.session /\ packets[k].kind # "hello"
               /\ packets[k].kind = "state" => packets[k].value <= peer'.value /\ packets[k].value >= peer.value
               /\ \A l \in 1..Len(packets) : l < k => InTime(packets[l], packets[k])
    <3>1. k = 1 \/ k = 2
      BY <2>3
    <3>2. CASE k = 1
      BY <1>0, <2>2, <2>3, <3>2 DEF Num, State, InTime
    <3>3. CASE k = 2
      BY <1>0, <2>2, <2>3, <3>3 DEF Num, Ping, InTime
    <3>4. QED BY <3>1, <3>2, <3>3
  <2>5. Latest'
    <3>1. 1 \in 1..Len(packets)
      BY <2>3
    <3>2. QED BY <2>1, <2>3, <3>1, LatestSent DEF Inv
  <2>6. SyncInv'
    BY <2>5 DEF SyncInv
  <2>7. peer'.session >= peer.session /\ peer'.value >= peer.value /\ peer'.acked <= peer'.value
    BY <1>0, <2>2
  <2>8. QED BY <2>1, <2>2, <2>3, <2>4, <2>6, <2>7, SentKeeps
<1>2. CASE peer.status \notin {"greeted", "insisted"}
  <2>1. /\ UNCHANGED <<desk, pressed, mailbox, toDesk, peer, missed>>
        /\ toSwitcher # <<>> /\ toSwitcher' = Tail(toSwitcher)
    BY <1>2 DEF TakeHelloAnswer, Take
  <2>2. QED BY <1>0, <2>1, PeerKeeps DEF Inv, Types
<1>3. QED BY <1>1, <1>2

LEMMA TakeAckKeeps == ASSUME Inv, TakeAck PROVE Inv'
<1>1. /\ toSwitcher # <<>> /\ toSwitcher' = Tail(toSwitcher) /\ UNCHANGED <<desk, pressed, mailbox, toDesk, missed>>
      /\ Head(toSwitcher).kind = "ack"
      /\ peer' = peer \/ peer' = [peer EXCEPT !.acked = Head(toSwitcher).value]
  BY DEF TakeAck, Take
<1>2. Head(toSwitcher) \in Said /\ Head(toSwitcher).value <= peer.value
  BY <1>1, Takes DEF Inv, ValueInv
<1>3. /\ peer' \in [status : {"closed", "greeted", "insisted", "open"}, session : Nat, value : Nat, acked : Nat]
      /\ peer'.session = peer.session /\ peer'.value = peer.value /\ peer'.status = peer.status
      /\ peer'.acked <= peer.value
  <2>1. Head(toSwitcher).value \in Nat
    BY <1>2 DEF Said
  <2>2. QED BY <1>1, <1>2, <2>1 DEF Inv, Types, ValueInv
<1>4. QED BY <1>1, <1>3, PeerKeeps

(* A change made by a command or at the switcher itself.                   *)
LEMMA ChangedKeeps ==
    ASSUME Inv, Changed, UNCHANGED <<desk, pressed, mailbox, missed>>,
           toSwitcher' = toSwitcher \/ (toSwitcher # <<>> /\ toSwitcher' = Tail(toSwitcher))
    PROVE  Inv'
<1>0. /\ peer.session \in Nat /\ peer.value \in Nat /\ peer.acked \in Nat /\ peer.acked <= peer.value
      /\ toDesk \in Seq(Heard) /\ Len(toDesk) <= MaxNet /\ <<>> \in Seq(Heard) /\ Len(<<>>) = 0
      /\ Len(toDesk) \in Nat
  BY EmptySeq, LenProperties DEF Inv, Types, ValueInv
<1>1. /\ peer' = [peer EXCEPT !.value = peer.value + 1]
      /\ peer' \in [status : {"closed", "greeted", "insisted", "open"}, session : Nat, value : Nat, acked : Nat]
      /\ peer'.session = peer.session /\ peer'.value = peer.value + 1 /\ peer'.acked = peer.acked
      /\ peer'.status = peer.status
  <2>1. peer \in [status : {"closed", "greeted", "insisted", "open"}, session : Nat, value : Nat, acked : Nat]
    BY DEF Inv, Types
  <2>2. peer.value + 1 \in Nat
    BY <1>0
  <2>3. peer' = [peer EXCEPT !.value = peer.value + 1]
    BY DEF Changed
  <2>4. QED BY <2>1, <2>2, <2>3
<1>2. peer'.session >= peer.session /\ peer'.value >= peer.value /\ peer'.acked <= peer'.value
  BY <1>0, <1>1
<1>3. CASE peer.status = "open"
  <2> DEFINE packets == <<State(peer.session, peer'.value)>>
  <2>1. /\ Len(toDesk) + 1 <= MaxNet /\ toDesk' = Append(toDesk, State(peer.session, peer'.value))
    BY <1>3 DEF Changed, Room
  <2>2. State(peer.session, peer'.value) \in Heard
    BY <1>0, <1>1 DEF State, Heard
  <2>3. /\ packets \in Seq(Heard) /\ Len(packets) = 1 /\ packets[1] = State(peer'.session, peer'.value)
    BY <1>1, <2>2
  <2>4. toDesk' = toDesk \o packets
    BY <1>0, <2>1, <2>2, AppendIsConcat
  <2> HIDE DEF packets
  <2>5. ASSUME NEW k \in 1..Len(packets)
        PROVE  /\ Num(packets[k]) = peer'.session /\ packets[k].kind # "hello"
               /\ packets[k].kind = "state" => packets[k].value <= peer'.value /\ packets[k].value >= peer.value
               /\ \A l \in 1..Len(packets) : l < k => InTime(packets[l], packets[k])
    <3>0. ~\E l \in 1..Len(packets) : l < k
      BY <2>3
    <3>1. packets[k] = [kind |-> "state", session |-> peer'.session, value |-> peer'.value]
      BY <2>3 DEF State
    <3>2. QED BY <1>0, <1>1, <3>0, <3>1 DEF Num
  <2>6. Latest'
    <3>1. 1 \in 1..Len(packets)
      BY <2>3
    <3>2. QED BY <2>1, <2>3, <2>4, <3>1, LatestSent DEF Inv
  <2>7. SyncInv'
    BY <2>6 DEF SyncInv
  <2>8. QED BY <1>1, <1>2, <2>1, <2>3, <2>4, <2>5, <2>7, SentKeeps
<1>4. CASE peer.status # "open"
  <2>1. toDesk' = toDesk /\ toDesk' = toDesk \o <<>>
    BY <1>0, <1>4, ConcatEmptySeq DEF Changed
  <2>2. SyncInv'
    BY <1>1, <1>4 DEF SyncInv
  <2>3. Len(toDesk) + Len(<<>>) <= MaxNet /\ 1..Len(<<>>) = {}
    BY <1>0
  <2>4. QED BY <1>0, <1>1, <1>2, <2>1, <2>2, <2>3, SentKeeps
<1>5. QED BY <1>3, <1>4

(* The heartbeat repeats all that is not acknowledged, in order.           *)
LEMMA BeatKeeps == ASSUME Inv, Beat PROVE Inv'
<1> DEFINE n == peer.value - peer.acked
<1> DEFINE states == [i \in 1..n |-> State(peer.session, peer.acked + i)]
<1> DEFINE packets == states \o <<Ping(peer.session)>>
<1>0. /\ peer.session \in Nat /\ peer.value \in Nat /\ peer.acked \in Nat /\ peer.acked <= peer.value
      /\ n \in Nat
  BY DEF Inv, Types, ValueInv
<1>1. /\ peer.status = "open" /\ mailbox = <<>> /\ toDesk = <<>>
      /\ Len(toDesk) + Len(packets) <= MaxNet /\ toDesk' = packets
      /\ UNCHANGED <<desk, pressed, mailbox, toSwitcher, missed, peer>>
  BY DEF Beat, Sends, Room
<1>2. /\ states \in Seq(Heard) /\ Len(states) = n
      /\ \A k \in 1..n : states[k] = State(peer.session, peer.acked + k)
  <2>1. states \in [1..n -> Heard]
    BY <1>0 DEF State, Heard
  <2>2. states \in Seq(Heard)
    BY <1>0, <2>1, SeqDef
  <2>3. Len(states) = n
    <3>1. DOMAIN states = 1..n /\ DOMAIN states = 1..Len(states) /\ Len(states) \in Nat
      BY <2>2, LenProperties
    <3>2. QED BY <1>0, <3>1
  <2>4. QED BY <2>2, <2>3
<1>3. <<Ping(peer.session)>> \in Seq(Heard) /\ Len(<<Ping(peer.session)>>) = 1
      /\ <<Ping(peer.session)>>[1] = Ping(peer.session)
  <2>1. Ping(peer.session) \in Heard
    BY <1>0 DEF Ping, Heard
  <2>2. QED BY <2>1
<1> HIDE DEF states
<1>4. /\ packets \in Seq(Heard) /\ Len(packets) = n + 1
      /\ \A k \in 1..n : packets[k] = State(peer.session, peer.acked + k)
      /\ packets[n + 1] = Ping(peer.session)
  BY <1>0, <1>2, <1>3, LineIs
<1>5. Len(toDesk) = 0 /\ Fifo = <<>> /\ Len(Fifo) = 0 /\ toDesk' = toDesk \o packets
  BY <1>1, <1>4, EmptySeq, ConcatEmptySeq DEF Fifo
<1> HIDE DEF packets
<1>6. ASSUME NEW k \in 1..Len(packets)
      PROVE  /\ Num(packets[k]) = peer.session /\ packets[k].kind # "hello"
             /\ packets[k].kind = "state" => packets[k].value <= peer.value
             /\ \A l \in 1..Len(packets) : l < k => InTime(packets[l], packets[k])
  <2>1. CASE k \in 1..n
    <3>1. packets[k] = [kind |-> "state", session |-> peer.session, value |-> peer.acked + k]
      BY <1>4, <2>1 DEF State
    <3>2. peer.acked + k <= peer.value
      BY <1>0, <2>1
    <3>3. ASSUME NEW l \in 1..Len(packets), l < k PROVE InTime(packets[l], packets[k])
      <4>1. l \in 1..n /\ peer.acked + l <= peer.acked + k
        BY <1>0, <1>4, <2>1, <3>3
      <4>2. packets[l] = [kind |-> "state", session |-> peer.session, value |-> peer.acked + l]
        BY <1>4, <4>1 DEF State
      <4>3. QED BY <3>1, <4>1, <4>2 DEF InTime
    <3>4. QED BY <3>1, <3>2, <3>3 DEF Num
  <2>2. CASE k = n + 1
    BY <1>4, <2>2 DEF Ping, Num, InTime
  <2>3. QED BY <1>0, <1>4, <2>1, <2>2
<1>7. SyncInv'
  <2>1. CASE n > 0
    <3>1. n \in 1..Len(packets) /\ packets[n] = State(peer'.session, peer'.value)
      <4>1. n \in 1..n /\ n \in 1..Len(packets) /\ peer.acked + n = peer.value
        BY <1>0, <1>4, <2>1
      <4>2. QED BY <1>1, <1>4, <4>1
    <3>2. Latest'
      BY <1>1, <1>4, <1>5, <3>1, LatestSent DEF Inv
    <3>3. QED BY <3>2 DEF SyncInv
  <2>2. CASE n = 0
    <3>1. Fifo' = packets /\ Len(packets) = 1 /\ packets[1] = Ping(peer.session)
      BY <1>0, <1>1, <1>4, <2>2, ConcatEmptySeq DEF Fifo
    <3>2. ~Latest
      BY <1>5 DEF Latest
    <3>3. Able /\ peer.value \notin missed => cache = peer.value
      BY <1>1, <3>2 DEF Inv, SyncInv, Shown
    <3>4. (Able' <=> Able) /\ cache' = cache /\ peer' = peer /\ missed' = missed
      BY <1>1 DEF Able, desk
    <3>5. \A k \in 1..Len(Fifo') : Fifo'[k] = Ping(peer.session)
      BY <3>1
    <3>6. ~HasHello'
      BY <3>5 DEF HasHello, Ping
    <3>7. Able /\ peer.value \notin missed => Shown'
      BY <3>3, <3>4, <3>5 DEF Shown, Ping
    <3>8. QED BY <3>4, <3>6, <3>7 DEF SyncInv
  <2>3. QED BY <1>0, <2>1, <2>2
<1>8. peer' \in [status : {"closed", "greeted", "insisted", "open"}, session : Nat, value : Nat, acked : Nat]
      /\ peer' = peer
  BY <1>1 DEF Inv, Types
<1>9. /\ peer'.session >= peer.session /\ peer'.value >= peer.value /\ peer'.acked <= peer'.value
  BY <1>0, <1>8
<1>10. QED BY <1>1, <1>4, <1>5, <1>6, <1>7, <1>8, <1>9, SentKeeps

LEMMA InsistKeeps == ASSUME Inv, Insist PROVE Inv'
<1> DEFINE packets == <<Hello(peer.session)>>
<1>1. /\ mailbox = <<>> /\ toDesk = <<>> /\ Len(toDesk) + Len(packets) <= MaxNet /\ toDesk' = packets
      /\ UNCHANGED <<desk, pressed, mailbox, toSwitcher, missed>> /\ peer' = [peer EXCEPT !.status = "insisted"]
  BY DEF Insist, Sends, Room
<1>2. /\ peer.session \in Nat /\ peer.value \in Nat /\ peer.acked <= peer.value
      /\ peer' \in [status : {"closed", "greeted", "insisted", "open"}, session : Nat, value : Nat, acked : Nat]
      /\ peer'.session = peer.session /\ peer'.value = peer.value /\ peer'.acked = peer.acked
      /\ peer'.status = "insisted"
  BY <1>1 DEF Inv, Types, ValueInv
<1>3. /\ packets \in Seq(Heard) /\ Len(packets) = 1 /\ packets[1] = Hello(peer.session)
  <2>1. Hello(peer.session) \in Heard
    BY <1>2 DEF Hello, Heard
  <2>2. QED BY <2>1
<1> HIDE DEF packets
<1>4. Len(Fifo) = 0 /\ toDesk' = toDesk \o packets
  BY <1>1, <1>3, EmptySeq, ConcatEmptySeq DEF Fifo
<1>5. \A k \in 1..Len(packets) : /\ Num(packets[k]) = peer.session /\ packets[k].kind = "hello"
                                 /\ \A l \in 1..Len(packets) : InTime(packets[l], packets[k])
  BY <1>3 DEF Hello, Num, InTime
<1>6. SyncInv'
  BY <1>2 DEF SyncInv
<1>7. peer'.session >= peer.session /\ peer'.value >= peer.value /\ peer'.acked <= peer'.value
  BY <1>2
<1>8. QED BY <1>1, <1>2, <1>3, <1>4, <1>5, <1>6, <1>7, SentKeeps

(* The switcher gives up an attempt or drops the session.                  *)
LEMMA ClosedKeeps == ASSUME Inv, GiveUp \/ Drop PROVE Inv'
<1>1. /\ UNCHANGED <<desk, pressed, mailbox, toDesk, toSwitcher, missed>> /\ peer' = [peer EXCEPT !.status = "closed"]
  BY DEF GiveUp, Drop, Sends, net
<1>2. /\ peer' \in [status : {"closed", "greeted", "insisted", "open"}, session : Nat, value : Nat, acked : Nat]
      /\ peer'.session = peer.session /\ peer'.value = peer.value /\ peer'.acked <= peer.value
      /\ peer'.status # "open"
  BY <1>1 DEF Inv, Types, ValueInv
<1>3. toSwitcher' = toSwitcher
  BY <1>1
<1>4. QED BY <1>1, <1>2, <1>3, PeerKeeps

LEMMA NextKeeps == ASSUME Inv, [Next]_vars PROVE Inv'
<1>1. CASE UNCHANGED vars
  <2>1. UNCHANGED <<phase, connecting, silent, expired, initialized, session, cache, joined,
                    pressed, mailbox, toDesk, toSwitcher, missed, peer>>
    BY <1>1 DEF vars, desk, net
  <2>2. Types' /\ DeskInv' /\ (Able' => Able) /\ Fifo' = Fifo
    BY <2>1 DEF Inv, Types, DeskInv, Able, Fifo
  <2>3. \A k \in 1..Len(toSwitcher') : toSwitcher'[k].kind = "ack" => toSwitcher'[k].value <= peer.value
    BY <2>1 DEF Inv, ValueInv
  <2>4. OrderInv' /\ ValueInv' /\ SyncInv'
    BY <2>1, <2>2, <2>3, SameLineKeeps
  <2>5. QED BY <2>2, <2>4 DEF Inv
<1>2. CASE Run
  <2>1. CASE Wake \/ HandledAll \/ Wait \/ Operate
    BY <2>1, RunKeeps
  <2>2. QED BY <1>2, <2>1, ShakeKeeps, HandleKeeps, ReconnectKeeps DEF Run
<1>3. CASE Switcher
  <2>1. CASE TakeCommand
    <3>1. /\ UNCHANGED <<desk, pressed, mailbox, missed>> /\ toSwitcher # <<>> /\ toSwitcher' = Tail(toSwitcher)
          /\ Changed \/ UNCHANGED <<peer, toDesk>>
      BY <2>1 DEF TakeCommand, Take
    <3>2. CASE Changed
      BY <3>1, <3>2, ChangedKeeps
    <3>3. CASE UNCHANGED <<peer, toDesk>>
      BY <3>1, <3>3, PeerKeeps DEF Inv, Types, ValueInv
    <3>4. QED BY <3>1, <3>2, <3>3
  <2>2. QED BY <1>3, <2>1, TakeConnectKeeps, TakeHelloAnswerKeeps, TakeAckKeeps, BeatKeeps, InsistKeeps,
               ClosedKeeps DEF Switcher
<1>4. CASE Deliver \/ Silence \/ Late \/ Press \/ Release \/ Drop \/ Lose
  BY <1>4, DeliverKeeps, TimeKeeps, ButtonKeeps, ClosedKeeps, LoseKeeps DEF Silence, Late
<1>5. CASE ByOthers
  BY <1>5, ChangedKeeps DEF ByOthers
<1>6. QED BY <1>1, <1>2, <1>3, <1>4, <1>5 DEF Next

-----------------------------------------------------------------------------
(* The strengthened invariant: the order of what is on its way, and where  *)
(* the last state of the session is.                                       *)
THEOREM Invariant == Spec => []Inv
<1>1. QED BY InitInv, NextKeeps, PTL DEF Spec

(* For any size of the mailbox and any faults: no queue grows beyond its   *)
(* limit, and the desk answers in no session before the one it joined.     *)
THEOREM SessionHolds == Spec => []SessionSound
<1>1. ASSUME Inv PROVE SessionSound
  <2>1. TypeOK
    BY <1>1 DEF Inv, Types, ValueInv, TypeOK
  <2>2. AnswersInSession
    BY <1>1 DEF Inv, DeskInv, AnswersInSession
  <2>3. QED BY <2>1, <2>2 DEF SessionSound
<1>2. QED BY <1>1, Invariant, PTL

(* For any loss, delay and repetition of packets, dropped sessions and      *)
(* reconnections: an initialized desk shows the state of the switcher's    *)
(* open session once nothing is on its way, as long as no state lost since *)
(* the dump is still missed (missed = {}).  So a state may be lost, and is *)
(* then sent again and taken; one that is never sent again, because a later*)
(* one was acknowledged, is the exception.                                 *)
THEOREM SyncedHolds == Spec => []Synced
<1>1. ASSUME Inv PROVE Synced
  <2>1. SUFFICES ASSUME peer.status = "open", initialized, mailbox = <<>>, toDesk = <<>>, missed = {}
                 PROVE  cache = peer.value
    BY DEF Synced
  <2>2. Fifo = <<>> /\ Len(Fifo) = 0
    BY <2>1, EmptySeq, ConcatEmptySeq DEF Fifo
  <2>3. Able /\ ~Latest
    BY <1>1, <2>1, <2>2 DEF Inv, DeskInv, Able, Latest
  <2>4. QED BY <1>1, <2>1, <2>3 DEF Inv, SyncInv, Shown
<1>2. QED BY <1>1, Invariant, PTL
=============================================================================
