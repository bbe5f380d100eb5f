---------------------------- MODULE Boards_proofs ----------------------------
(***************************************************************************)
(* What the devices of the board and its lines promise, for every number   *)
(* of lamps, threads, boards, keys and packets and without the bounds of   *)
(* the run of MCBoards: the lamps (LampInv), the camera (CameraInv), the   *)
(* inputs (InputInv), the fader (FaderInv), the settings (SettingsInv) and *)
(* the packets of the switcher (PacketInv) each have an inductive          *)
(* invariant and a step lemma per action.                                  *)
(***************************************************************************)
EXTENDS BoardLamps, PtzCamera, InputReader, Fader, Memory, AtemPacket,
        WellFoundedInduction, SequenceTheorems, TLAPS

Task == [at : {"idle", "first", "second"}, button : LpButtons, color : 0..5]
Amounts == {0, 5, 10, 50, 100}

(* The output of the first half of a lamp, and what the halves are to show.*)
FirstLed(b) == (b - 1) * 2
FirstAmount(b, c) == IF RedFirst(b) THEN colorBalanceRed[c] ELSE colorBalanceGreen[c]
SecondAmount(b, c) == IF RedFirst(b) THEN colorBalanceGreen[c] ELSE colorBalanceRed[c]
Shows(o, amount) == Duty(o) = Level(amount)

(* A lamp that was not damaged has one thread at most that writes it, with *)
(* the colour of the cache; what this thread has written shows, and all of *)
(* it when nobody writes.                                                  *)
LampAsWritten(b) ==
    /\ \A t, u \in Writers(b) : t = u
    /\ \A t \in Writers(b) :
         /\ writer[t].color = buttonColorCache[b]
         /\ writer[t].at = "second" /\ b <= 8 =>
              Shows(leds[FirstLed(b)], FirstAmount(b, buttonColorCache[b]))
    /\ Writers(b) = {} /\ b <= 8 =>
         /\ Shows(leds[FirstLed(b)], FirstAmount(b, buttonColorCache[b]))
         /\ Shows(leds[FirstLed(b) + 1], SecondAmount(b, buttonColorCache[b]))

LampInv ==
    /\ buttonColorCache \in [LpButtons -> 0..5] /\ leds \in [0..15 -> LedOutput]
    /\ writer \in [LpThreads -> Task] /\ damaged \subseteq LpButtons
    /\ \A b \in LpButtons \ damaged : LampAsWritten(b)

LEMMA ButtonsAre ==
    ASSUME NEW b \in LpButtons
    PROVE  b \in 1..10 /\ FirstLed(b) \in Nat /\ (b <= 8 => FirstLed(b) \in 0..14)
BY LampAssumption DEF FirstLed

LEMMA AmountsAre ==
    ASSUME NEW b, NEW c \in 0..5
    PROVE  FirstAmount(b, c) \in Amounts /\ SecondAmount(b, c) \in Amounts
<1>1. colorBalanceRed[c] \in Amounts
  BY DEF colorBalanceRed, Amounts
<1>2. colorBalanceGreen[c] \in Amounts
  BY DEF colorBalanceGreen, Amounts
<1>3. QED BY <1>1, <1>2 DEF FirstAmount, SecondAmount

(* An output that was set to an amount is on for this part of a cycle.     *)
LEMMA DimmedShows ==
    ASSUME NEW led \in 0..15, NEW amount \in Amounts
    PROVE  Dimmed(led, amount) \in LedOutput /\ Shows(Dimmed(led, amount), amount)
<1>1. CASE amount = 0
  BY <1>1 DEF Dimmed, LedOutput, Shows, Duty, Level
<1>2. CASE amount = 100
  BY <1>2 DEF Dimmed, LedOutput, Shows, Duty, Level
<1>3. CASE amount \in {5, 10, 50}
  <2> DEFINE o == Dimmed(led, amount)
  <2>1. o = [on |-> led * 256, off |-> (amount * 41 + led * 256) % 4096]
    BY <1>3 DEF Dimmed
  <2>2. led * 256 \in 0..3840 /\ amount * 41 \in {205, 410, 2050}
    BY <1>3
  <2>3. (amount * 41 + led * 256) % 4096 \in 0..4095
    BY <2>2
  <2>4. (((amount * 41 + led * 256) % 4096) - led * 256) % 4096 = amount * 41
    BY <2>2
  <2>5. o \in LedOutput /\ o.on = led * 256 /\ o.off = (amount * 41 + led * 256) % 4096
    <3> DEFINE from == led * 256
               to == (amount * 41 + led * 256) % 4096
    <3>1. from \in 0..4096
      BY <2>2
    <3>2. to \in 0..4096
      BY <2>3
    <3>3. o = [on |-> from, off |-> to]
      BY <2>1
    <3> HIDE DEF o, from, to
    <3>4. o \in LedOutput /\ o.on = from /\ o.off = to
      BY <3>1, <3>2, <3>3 DEF LedOutput
    <3>5. QED BY <3>4 DEF from, to
  <2>6. Duty(o) = amount * 41
    BY <2>2, <2>3, <2>4, <2>5 DEF Duty
  <2>7. QED BY <1>3, <2>5, <2>6 DEF Shows, Level
<1>4. QED BY <1>1, <1>2, <1>3 DEF Amounts

LEMMA LampInvSound == LampInv => LampsSound
<1> SUFFICES ASSUME LampInv PROVE LampsSound
  OBVIOUS
<1>1. LpTypeOK
  <2>1. \A t \in LpThreads : writer[t] \in Task
    BY DEF LampInv
  <2>2. buttonColorCache \in [LpButtons -> 0..5] /\ leds \in [0..15 -> LedOutput]
        /\ damaged \subseteq LpButtons
    BY DEF LampInv
  <2>3. \A t \in LpThreads : writer[t] \in [at : {"idle", "first", "second"},
                                           button : LpButtons, color : 0..5]
    BY <2>1 DEF Task
  <2>4. QED BY <2>2, <2>3 DEF LpTypeOK
<1>2. ASSUME NEW b \in LpButtons, b <= 8, b \notin damaged, Writers(b) = {}
      PROVE  /\ Duty(leds[(b - 1) * 2 + IF RedFirst(b) THEN 0 ELSE 1])
                  = Level(colorBalanceRed[buttonColorCache[b]])
             /\ Duty(leds[(b - 1) * 2 + IF RedFirst(b) THEN 1 ELSE 0])
                  = Level(colorBalanceGreen[buttonColorCache[b]])
  <2>1. /\ Shows(leds[FirstLed(b)], FirstAmount(b, buttonColorCache[b]))
        /\ Shows(leds[FirstLed(b) + 1], SecondAmount(b, buttonColorCache[b]))
    BY <1>2 DEF LampInv, LampAsWritten
  <2>2. (b - 1) * 2 + 0 = FirstLed(b) /\ (b - 1) * 2 + 1 = FirstLed(b) + 1
    BY ButtonsAre DEF FirstLed
  <2>3. CASE RedFirst(b)
    BY <2>1, <2>2, <2>3 DEF FirstAmount, SecondAmount, Shows
  <2>4. CASE ~RedFirst(b)
    BY <2>1, <2>2, <2>4 DEF FirstAmount, SecondAmount, Shows
  <2>5. QED BY <2>3, <2>4
<1>3. QED BY <1>1, <1>2 DEF LampsSound, LampShown

LEMMA LampInit == LpInit => LampInv
<1> SUFFICES ASSUME LpInit PROVE LampInv
  OBVIOUS
<1>1. NoButton \in LpButtons
  BY LampAssumption DEF NoButton
<1>2. writer \in [LpThreads -> Task] /\ \A b : Writers(b) = {}
  BY <1>1 DEF LpInit, Idle, Task, Writers
<1>3. buttonColorCache = [b \in LpButtons |-> 5] /\ damaged = {}
  BY DEF LpInit
<1> DEFINE amount(l) == IF (l % 2 = 0) = RedFirst((l \div 2) + 1)
                        THEN colorBalanceRed[5] ELSE colorBalanceGreen[5]
<1>4. leds = [l \in 0..15 |-> Dimmed(l, amount(l))]
  BY DEF LpInit
<1>5. \A l \in 0..15 : amount(l) \in Amounts
  BY DEF colorBalanceRed, colorBalanceGreen, Amounts
<1>6. ASSUME NEW b \in LpButtons, b <= 8
      PROVE  amount(FirstLed(b)) = FirstAmount(b, 5) /\ amount(FirstLed(b) + 1) = SecondAmount(b, 5)
  <2>1. FirstLed(b) % 2 = 0 /\ (FirstLed(b) \div 2) + 1 = b
    BY <1>6, ButtonsAre DEF FirstLed
  <2>2. (FirstLed(b) + 1) % 2 # 0 /\ ((FirstLed(b) + 1) \div 2) + 1 = b
    BY <1>6, ButtonsAre DEF FirstLed
  <2>3. amount(FirstLed(b)) = IF TRUE = RedFirst(b) THEN colorBalanceRed[5] ELSE colorBalanceGreen[5]
    BY <2>1, Zenon
  <2>4. amount(FirstLed(b) + 1) = IF FALSE = RedFirst(b) THEN colorBalanceRed[5] ELSE colorBalanceGreen[5]
    BY <2>2, Zenon
  <2>5. RedFirst(b) \in BOOLEAN
    BY Zenon DEF RedFirst
  <2> HIDE DEF amount
  <2>6. CASE RedFirst(b)
    BY <2>3, <2>4, <2>6, Zenon DEF FirstAmount, SecondAmount
  <2>7. CASE ~RedFirst(b)
    BY <2>3, <2>4, <2>5, <2>7, Zenon DEF FirstAmount, SecondAmount
  <2>8. QED BY <2>6, <2>7
<1> HIDE DEF amount
<1>7. \A l \in 0..15 : leds[l] \in LedOutput /\ Shows(leds[l], amount(l))
  BY <1>4, <1>5, DimmedShows
<1>8. leds \in [0..15 -> LedOutput]
  BY <1>4, <1>7
<1>9. ASSUME NEW b \in LpButtons PROVE LampAsWritten(b)
  <2>1. buttonColorCache[b] = 5
    BY <1>3
  <2>2. ASSUME b <= 8 PROVE /\ Shows(leds[FirstLed(b)], FirstAmount(b, 5))
                            /\ Shows(leds[FirstLed(b) + 1], SecondAmount(b, 5))
    <3>1. FirstLed(b) \in 0..15 /\ FirstLed(b) + 1 \in 0..15
      BY <2>2, ButtonsAre
    <3>2. QED BY <1>6, <1>7, <2>2, <3>1
  <2>3. QED BY <1>2, <2>1, <2>2 DEF LampAsWritten
<1>10. QED BY <1>2, <1>3, <1>8, <1>9 DEF LampInv

(* A colour is wanted.                                                     *)
LEMMA SetButtonColorStep ==
    ASSUME LampInv, NEW t \in LpThreads, NEW b \in LpButtons, NEW c \in LpColors,
           SetButtonColor(t, b, c)
    PROVE  LampInv'
<1>1. c \in 0..5
  BY LampAssumption
<1>2. /\ buttonColorCache' = [buttonColorCache EXCEPT ![b] = c]
      /\ writer' = [writer EXCEPT ![t] = [at |-> "first", button |-> b, color |-> c]]
      /\ leds' = leds /\ writer[t].at = "idle"
      /\ damaged' = IF Writers(b) = {} THEN damaged \ {b} ELSE damaged \cup {b}
  BY DEF SetButtonColor
<1>3. /\ buttonColorCache' \in [LpButtons -> 0..5] /\ leds' \in [0..15 -> LedOutput]
      /\ writer' \in [LpThreads -> Task] /\ damaged' \subseteq LpButtons
  BY <1>1, <1>2 DEF LampInv, Task
<1>4. ASSUME NEW d \in LpButtons \ damaged' PROVE LampAsWritten(d)'
  <2>1. CASE d = b
    <3>1. Writers(b) = {}
      BY <1>2, <2>1
    <3>2. Writers(b)' = {t}
      BY <1>2, <3>1 DEF Writers, LampInv
    <3>3. writer'[t].color = c /\ writer'[t].at = "first" /\ buttonColorCache'[b] = c
      BY <1>2 DEF LampInv
    <3>4. QED BY <2>1, <3>2, <3>3 DEF LampAsWritten
  <2>2. CASE d # b
    <3>1. d \notin damaged /\ LampAsWritten(d)
      BY <1>2, <2>2 DEF LampInv
    <3>2. Writers(d)' = Writers(d) /\ \A u \in Writers(d) : writer'[u] = writer[u]
      BY <1>2, <2>2 DEF Writers, LampInv
    <3>3. buttonColorCache'[d] = buttonColorCache[d]
      BY <1>2, <2>2 DEF LampInv
    <3>4. QED BY <1>2, <3>1, <3>2, <3>3 DEF LampAsWritten
  <2>3. QED BY <2>1, <2>2
<1>5. QED BY <1>3, <1>4 DEF LampInv

(* The transfer of one output, which belongs to the lamp the thread writes.*)
LEMMA TransferIs ==
    ASSUME LampInv, NEW t \in LpThreads, NEW led \in Nat, NEW amount \in Amounts, NEW next \in Task,
           Transfer(t, led, amount, next)
    PROVE  /\ buttonColorCache' = buttonColorCache
           /\ writer' = [writer EXCEPT ![t] = next] /\ writer' \in [LpThreads -> Task]
           /\ leds' \in [0..15 -> LedOutput]
           /\ \A l \in 0..15 : l # led => leds'[l] = leds[l]
           /\ damaged \subseteq damaged' /\ damaged' \subseteq damaged \cup {writer[t].button}
           /\ damaged' \subseteq LpButtons
           /\ writer[t].button \in damaged' \/ (led \in 0..15 => Shows(leds'[led], amount))
<1>1. writer[t].button \in LpButtons
  BY DEF LampInv, Task
<1>2. CASE /\ leds' = [l \in DOMAIN leds |-> IF l = led THEN Dimmed(l, amount) ELSE leds[l]]
           /\ UNCHANGED <<lpFailed, damaged>>
  <2>1. \A l \in 0..15 : Dimmed(l, amount) \in LedOutput /\ Shows(Dimmed(l, amount), amount)
    BY DimmedShows
  <2>2. leds' = [l \in 0..15 |-> IF l = led THEN Dimmed(l, amount) ELSE leds[l]]
    BY <1>2 DEF LampInv
  <2>3. QED BY <1>1, <1>2, <2>1, <2>2 DEF LampInv, Transfer
<1>3. CASE damaged' = damaged \cup {writer[t].button} /\ UNCHANGED leds
  BY <1>1, <1>3 DEF LampInv, Transfer
<1>4. QED BY <1>2, <1>3 DEF Transfer

(* The halves of different lamps are different outputs.                    *)
LEMMA LedsApart ==
    ASSUME NEW b \in LpButtons, NEW d \in LpButtons, b # d
    PROVE  /\ FirstLed(b) # FirstLed(d) /\ FirstLed(b) # FirstLed(d) + 1
           /\ FirstLed(b) + 1 # FirstLed(d) /\ FirstLed(b) + 1 # FirstLed(d) + 1
<1>1. b \in 1..10 /\ d \in 1..10
  BY ButtonsAre
<1>2. QED BY <1>1 DEF FirstLed

(* What both transfers leave true of the other lamps.                      *)
LEMMA OtherLamps ==
    ASSUME LampInv, NEW t \in LpThreads, NEW led \in Nat, NEW amount \in Amounts, NEW next \in Task,
           Transfer(t, led, amount, next), writer[t].at # "idle",
           led \in {FirstLed(writer[t].button), FirstLed(writer[t].button) + 1},
           next.at = "idle" \/ next.button = writer[t].button,
           NEW d \in LpButtons \ damaged', d # writer[t].button
    PROVE  LampAsWritten(d)'
<1>1. writer' = [writer EXCEPT ![t] = next] /\ buttonColorCache' = buttonColorCache
      /\ d \notin damaged /\ \A l \in 0..15 : l # led => leds'[l] = leds[l]
  BY TransferIs
<1>2. LampAsWritten(d) /\ writer[t].button \in LpButtons
  BY <1>1 DEF LampInv, Task
<1>3. Writers(d)' = Writers(d) /\ \A u \in Writers(d) : writer'[u] = writer[u]
  BY <1>1 DEF Writers, LampInv
<1>4. d <= 8 => leds'[FirstLed(d)] = leds[FirstLed(d)] /\ leds'[FirstLed(d) + 1] = leds[FirstLed(d) + 1]
  <2>1. FirstLed(d) # led /\ FirstLed(d) + 1 # led
    BY <1>2, LedsApart
  <2>2. d <= 8 => FirstLed(d) \in 0..15 /\ FirstLed(d) + 1 \in 0..15
    BY ButtonsAre
  <2>3. QED BY <1>1, <2>1, <2>2
<1>5. QED BY <1>1, <1>2, <1>3, <1>4 DEF LampAsWritten

LEMMA FirstHalfStep ==
    ASSUME LampInv, NEW t \in LpThreads, FirstHalf(t)
    PROVE  LampInv'
<1> DEFINE w == writer[t]
           amount == FirstAmount(w.button, w.color)
           next == [w EXCEPT !.at = "second"]
<1>1. w \in Task /\ next \in Task /\ next.at = "second" /\ next.button = w.button
      /\ next.color = w.color /\ w.at = "first" /\ w.button \in LpButtons /\ w.color \in 0..5
  BY DEF LampInv, Task, FirstHalf
<1>2. Transfer(t, FirstLed(w.button), amount, next)
  BY DEF FirstHalf, FirstLed, FirstAmount
<1>3. amount \in Amounts /\ FirstLed(w.button) \in Nat
      /\ (w.button <= 8 => FirstLed(w.button) \in 0..15)
  BY <1>1, AmountsAre, ButtonsAre
<1> HIDE DEF amount, next
<1>4. /\ buttonColorCache' = buttonColorCache
      /\ writer' = [writer EXCEPT ![t] = next] /\ writer' \in [LpThreads -> Task]
      /\ leds' \in [0..15 -> LedOutput]
      /\ damaged \subseteq damaged' /\ damaged' \subseteq LpButtons
      /\ w.button \in damaged' \/ (FirstLed(w.button) \in 0..15 => Shows(leds'[FirstLed(w.button)], amount))
  BY <1>1, <1>2, <1>3, TransferIs
<1>5. ASSUME NEW d \in LpButtons \ damaged' PROVE LampAsWritten(d)'
  <2>1. CASE d # w.button
    BY <1>1, <1>2, <1>3, <2>1, OtherLamps
  <2>2. CASE d = w.button
    <3>1. LampAsWritten(d) /\ t \in Writers(d)
      BY <1>1, <1>4, <2>2 DEF LampInv, Writers
    <3>2. Writers(d) = {t}
      BY <3>1 DEF LampAsWritten
    <3>3. Writers(d)' = {t}
      BY <1>1, <1>4, <2>2, <3>2 DEF Writers, LampInv
    <3>4. writer'[t] = next /\ w.color = buttonColorCache'[d]
      BY <1>4, <3>1 DEF LampAsWritten, LampInv
    <3>5. d <= 8 => Shows(leds'[FirstLed(d)], FirstAmount(d, buttonColorCache'[d]))
      BY <1>3, <1>4, <2>2, <3>4 DEF amount
    <3>6. QED BY <1>1, <3>3, <3>4, <3>5 DEF LampAsWritten
  <2>3. QED BY <2>1, <2>2
<1>6. QED BY <1>4, <1>5 DEF LampInv

LEMMA SecondHalfStep ==
    ASSUME LampInv, NEW t \in LpThreads, SecondHalf(t)
    PROVE  LampInv'
<1> DEFINE w == writer[t]
           amount == SecondAmount(w.button, w.color)
           led == FirstLed(w.button) + 1
<1>1. w \in Task /\ w.at = "second" /\ w.button \in LpButtons /\ w.color \in 0..5
  BY DEF LampInv, Task, SecondHalf
<1>2. Idle \in Task /\ Idle.at = "idle"
  BY LampAssumption DEF Idle, Task, NoButton
<1>3. Transfer(t, led, amount, Idle)
  BY DEF SecondHalf, FirstLed, SecondAmount
<1>4. amount \in Amounts /\ led \in Nat /\ (w.button <= 8 => led \in 0..15 /\ FirstLed(w.button) \in 0..15)
      /\ led # FirstLed(w.button)
  BY <1>1, AmountsAre, ButtonsAre
<1> HIDE DEF amount
<1>5. /\ buttonColorCache' = buttonColorCache
      /\ writer' = [writer EXCEPT ![t] = Idle] /\ writer' \in [LpThreads -> Task]
      /\ leds' \in [0..15 -> LedOutput] /\ \A l \in 0..15 : l # led => leds'[l] = leds[l]
      /\ damaged \subseteq damaged' /\ damaged' \subseteq LpButtons
      /\ w.button \in damaged' \/ (led \in 0..15 => Shows(leds'[led], amount))
  BY <1>1, <1>2, <1>3, <1>4, TransferIs
<1>6. ASSUME NEW d \in LpButtons \ damaged' PROVE LampAsWritten(d)'
  <2>1. CASE d # w.button
    BY <1>1, <1>2, <1>3, <1>4, <2>1, OtherLamps
  <2>2. CASE d = w.button
    <3>1. LampAsWritten(d) /\ t \in Writers(d)
      BY <1>1, <1>5, <2>2 DEF LampInv, Writers
    <3>2. Writers(d)' = {}
      BY <1>2, <1>5, <3>1 DEF Writers, LampInv, LampAsWritten
    <3>3. w.color = buttonColorCache'[d]
          /\ (d <= 8 => Shows(leds[FirstLed(d)], FirstAmount(d, buttonColorCache'[d])))
      BY <1>1, <1>5, <3>1 DEF LampAsWritten
    <3>4. d <= 8 => /\ Shows(leds'[FirstLed(d)], FirstAmount(d, buttonColorCache'[d]))
                    /\ Shows(leds'[FirstLed(d) + 1], SecondAmount(d, buttonColorCache'[d]))
      BY <1>4, <1>5, <2>2, <3>3 DEF amount
    <3>5. QED BY <3>2, <3>4 DEF LampAsWritten
  <2>3. QED BY <2>1, <2>2
<1>7. QED BY <1>5, <1>6 DEF LampInv

(* A lamp at rest has the colour the cache says, whichever threads wrote   *)
(* it and whatever transfers of other lamps failed (lib/SkaarhojBI8.cpp,   *)
(* lib/hw/PCA9685.cpp).                                                    *)
THEOREM LampsHold == LpSpec => []LampsSound
<1>1. LpInit => LampInv
  BY LampInit
<1>2. LampInv /\ [LpNext]_lpVars => LampInv'
  <2> SUFFICES ASSUME LampInv, [LpNext]_lpVars PROVE LampInv'
    OBVIOUS
  <2>1. ASSUME NEW t \in LpThreads, NEW b \in LpButtons, NEW c \in LpColors, SetButtonColor(t, b, c)
        PROVE  LampInv'
    BY <2>1, SetButtonColorStep
  <2>2. ASSUME NEW t \in LpThreads, FirstHalf(t) PROVE LampInv'
    BY <2>2, FirstHalfStep
  <2>3. ASSUME NEW t \in LpThreads, SecondHalf(t) PROVE LampInv'
    BY <2>3, SecondHalfStep
  <2>4. CASE UNCHANGED lpVars
    BY <2>4 DEF lpVars, LampInv, LampAsWritten, Writers
  <2>5. QED BY <2>1, <2>2, <2>3, <2>4 DEF LpNext
<1>3. LampInv => LampsSound
  BY LampInvSound
<1>4. QED BY <1>1, <1>2, <1>3, PTL DEF LpSpec

-----------------------------------------------------------------------------
(* A set of natural numbers that is not empty has a smallest one.          *)
LEMMA SmallestExists ==
    ASSUME NEW S \in SUBSET Nat, S # {}
    PROVE  \E x \in S : \A y \in S : x <= y
<1>1. IsWellFoundedOn(OpToRel(<, Nat), Nat)
  BY NatLessThanWellFounded
<1>2. PICK x \in S : \A y \in S : ~(<<y, x>> \in OpToRel(<, Nat))
  BY <1>1, WFMin
<1>3. ASSUME NEW y \in S PROVE x <= y
  <2>1. ~(y < x)
    BY <1>2 DEF OpToRel
  <2>2. x \in Nat /\ y \in Nat
    OBVIOUS
  <2>3. QED BY <2>1, <2>2
<1>4. QED BY <1>3

LEMMA MinIs ==
    ASSUME NEW S \in SUBSET Nat, S # {}
    PROVE  Min(S) \in S
BY SmallestExists DEF Min

Places == {<<"visca", 0>>, <<"store", 0>>, <<"drive", 0>>, <<"focus", 0>>, <<"lens", 0>>}
          \cup {<<"mem", i>> : i \in PtMemories}

Motion == [speed : 0..10, direction : {-1, 0, 1}]
Object == [setMem : BOOLEAN, initialized : BOOLEAN, focusAuto : BOOLEAN,
           x : 0..10, y : 0..10, z : -6..6, fo : -6..6]
Camera == [x : Motion, y : Motion, zoom : -6..6, focus : -6..6, stores : Nat, addressed : 0..2]

CameraTypes ==
    /\ ctl \in Object /\ camera \in Camera
    /\ stick \in [Axes -> -PtRange..PtRange] /\ looked \in [Axes -> -PtRange..PtRange]
    /\ jumped \subseteq Axes /\ focusPin \in BOOLEAN /\ pinMoved \in BOOLEAN
    /\ ptDown \subseteq PtKeys /\ ptSeen \subseteq PtKeys /\ ptAt \in Places
    /\ storePresses \in Nat

(* A press of "store" that run() did not see yet.                          *)
Pending(down, seen) == IF MemStore \in down \ seen THEN 1 ELSE 0
Armed(set) == IF set THEN 1 ELSE 0

StoreInv == camera.stores + Armed(ctl.setMem) + Pending(ptDown, ptSeen) <= storePresses

LEMMA CameraConstants == PtMemories \subseteq 1..6 /\ PtRange \in 1..20
BY PtzAssumption, Zenon

LEMMA AfterKeyIs ==
    ASSUME NEW i \in Nat
    PROVE  AfterKey(i) \in Places /\ AfterKey(i)[1] \notin {"focus", "lens"}
<1> DEFINE rest == {j \in PtMemories : j > i}
<1>1. rest \in SUBSET Nat /\ rest \subseteq PtMemories
  <2>1. rest \subseteq PtMemories
    OBVIOUS
  <2>2. \A j \in PtMemories : j \in Nat
    BY CameraConstants
  <2>3. QED BY <2>1, <2>2, Zenon
<1>2. CASE rest = {}
  BY <1>2 DEF AfterKey, Places
<1>3. CASE rest # {}
  <2>1. Min(rest) \in PtMemories
    BY <1>1, <1>3, MinIs
  <2>2. AfterKey(i) = <<"mem", Min(rest)>>
    BY <1>3 DEF AfterKey
  <2>3. QED BY <2>1, <2>2 DEF Places
<1>4. QED BY <1>2, <1>3

LEMMA PlacesAre ==
    ASSUME NEW at \in Places, at[1] = "mem"
    PROVE  at[2] \in PtMemories /\ at[2] \in 1..6
BY PtzAssumption DEF Places

(* Arithmetic of the stick.                                                *)
Near(p, n) == Size(Size(p) - 2 * n - 1) <= 1

LEMMA SpeedIs ==
    ASSUME NEW p \in Int, NEW q \in Int, NEW n \in Nat,
           Size(q) % 2 = 1 => n = Size(q) \div 2
    PROVE  /\ Speed(p, n) \in Nat
           /\ Size(p) % 2 = 1 => Speed(p, n) = Size(p) \div 2 /\ Near(p, Speed(p, n))
           /\ Near(q, n) /\ Size(p - q) <= 1 => Near(p, Speed(p, n))
<1>1. CASE Size(p) % 2 = 1
  BY <1>1 DEF Speed, Size, Near
<1>2. CASE Size(p) % 2 # 1
  <2>1. Speed(p, n) = n
    BY <1>2 DEF Speed
  <2>2. ASSUME Near(q, n), Size(p - q) <= 1 PROVE Near(p, n)
    <3>1. CASE Size(q) % 2 = 1
      BY <2>2, <3>1 DEF Size, Near
    <3>2. CASE Size(q) % 2 # 1
      <4>1. p = q
        BY <1>2, <2>2, <3>2 DEF Size
      <4>2. QED BY <2>2, <4>1
    <3>3. QED BY <3>1, <3>2
  <2>3. QED BY <1>2, <2>1, <2>2
<1>3. QED BY <1>1, <1>2

LEMMA DirectionIs ==
    ASSUME NEW p \in Int, NEW q \in Int, NEW n \in Nat \ {0}, Near(p, n)
    PROVE  /\ Direction(p) = Sign(p) /\ Size(Sign(p)) = 1
           /\ Near(q, n) /\ Size(p - q) <= 1 => Sign(q) = Sign(p)
<1>1. CASE p > 0
  <2>1. p >= 2
    BY <1>1 DEF Near, Size
  <2>2. Direction(p) = 1 /\ Sign(p) = 1
    BY <2>1 DEF Size, Direction, Sign
  <2>3. ASSUME Near(q, n), Size(p - q) <= 1 PROVE q > 0
    BY <2>1, <2>3 DEF Size
  <2>4. QED BY <2>2, <2>3 DEF Size, Sign
<1>2. CASE p < 0
  <2>1. p <= -2
    BY <1>2 DEF Near, Size
  <2>2. Direction(p) = -1 /\ Sign(p) = -1
    BY <2>1 DEF Size, Direction, Sign
  <2>3. ASSUME Near(q, n), Size(p - q) <= 1 PROVE Sign(q) = -1
    BY <2>1, <2>3 DEF Size, Sign
  <2>4. \A m \in Int : m + 1 = 0 => Size(m) = 1
    BY DEF Size
  <2>5. Sign(p) \in Int /\ Sign(p) + 1 = 0
    BY <2>2
  <2>6. QED BY <2>2, <2>3, <2>4, <2>5
<1>3. CASE p = 0
  BY <1>3 DEF Near, Size
<1>4. QED BY <1>1, <1>2, <1>3

LEMMA CodeIs ==
    ASSUME NEW p \in -20..20, NEW q \in Int, NEW n \in -6..6
    PROVE  /\ Code(p, n) \in -6..6
           /\ Code(p, n) # n => 3 * Code(p, n) = p
           /\ Size(3 * n - q) <= 2 /\ Size(p - q) <= 1 => Size(3 * Code(p, n) - p) <= 2
<1>1. CASE Size(p) % 3 = 0
  BY <1>1 DEF Code, Size, Sign
<1>2. CASE Size(p) % 3 # 0
  <2>1. Code(p, n) = n
    BY <1>2 DEF Code
  <2>2. 3 * n + 3 # p
    <3>1. CASE p >= 0
      BY <1>2, <3>1 DEF Size
    <3>2. CASE p < 0
      BY <1>2, <3>2 DEF Size
    <3>3. QED BY <3>1, <3>2
  <2>3. 3 * n - 3 # p
    <3>1. CASE p >= 0
      BY <1>2, <3>1 DEF Size
    <3>2. CASE p < 0
      BY <1>2, <3>2 DEF Size
    <3>3. QED BY <3>1, <3>2
  <2>4. ASSUME Size(3 * n - q) <= 2, Size(p - q) <= 1 PROVE Size(3 * n - p) <= 2
    BY <2>2, <2>3, <2>4 DEF Size
  <2>5. QED BY <2>1, <2>4
<1>3. QED BY <1>1, <1>2

(* A seen odd position sets the speed; an axis that did not jump since has *)
(* the speed of its position or of the next one, and its direction.        *)
Seen(p, n) == Size(p) % 2 = 1 => n = Size(p) \div 2
Follows(p, n, m) == Near(p, n) /\ (n > 0 => m.direction = Sign(p))

DriveInv ==
    /\ camera.x.speed = ctl.x /\ Seen(looked["x"], ctl.x)
    /\ "x" \notin jumped => Follows(looked["x"], ctl.x, camera.x)
    /\ camera.y.speed = ctl.y /\ Seen(looked["y"], ctl.y)
    /\ "y" \notin jumped => Follows(looked["y"], ctl.y, camera.y)

(* The lens has the code it was told last, and between the look at the     *)
(* stick and the command the code it will be told is the position's.       *)
Looking == ptAt[1] \in {"focus", "lens"}

LensInv ==
    /\ ~pinMoved => /\ focusPin => camera.focus = ctl.z /\ camera.zoom = 0
                    /\ ~focusPin => camera.zoom = ctl.z /\ camera.focus = 0
    /\ Looking => /\ ctl.fo # ctl.z => 3 * ctl.fo = looked["z"]
                  /\ "z" \notin jumped => Size(3 * ctl.fo - looked["z"]) <= 2
    /\ ~Looking /\ "z" \notin jumped => Size(3 * ctl.z - looked["z"]) <= 2

(* A controller.                                                           *)
Controllers == [state : {"Initial", "NetworkChangeReq", "AddressSet", "Active"}, addr : Int,
                sockets : [1..2 -> {"Empty", "Executing"}]]

CameraInv ==
    /\ CameraTypes /\ StoreInv /\ DriveInv /\ LensInv
    /\ visca \in Controllers /\ iqueue \in Seq(PtPacketKinds)

LEMMA PositionsAre == ASSUME CameraTypes, NEW a \in Axes
                      PROVE  looked[a] \in -20..20 /\ stick[a] \in -20..20
BY CameraConstants DEF CameraTypes

(* The line of the camera.                                                 *)
LEMMA SocketKeeps ==
    ASSUME NEW v \in Controllers, NEW s, NEW value \in {"Empty", "Executing"}
    PROVE  WithSocket(v, s, value) \in Controllers
BY DEF WithSocket, Controllers

LEMMA ByteOf ==
    ASSUME NEW p \in Seq(0..254), Len(p) = 3
    PROVE  p[1] \in 0..254
<1>1. 1 \in 1..Len(p)
  OBVIOUS
<1>2. QED BY <1>1, ElementOfSeq

LEMMA ParseKeeps ==
    ASSUME NEW v \in Controllers, NEW p \in PtPacketKinds
    PROVE  ParsePacket(v, p) \in Controllers
<1>1. p \in Seq(0..254)
  BY PtzAssumption, Zenon
<1>2. CASE Len(p) = 3 /\ Low(p[1]) = 0
  <2>1. p[1] \in 0..254
    BY <1>1, <1>2, ByteOf
  <2>2. CASE p[2] = 56
    <3>1. ParsePacket(v, p) = [v EXCEPT !.state = "NetworkChangeReq", !.addr = (p[1] \div 16) - 8]
      <4>1. High(p[2]) # 64 /\ High(p[2]) # 80
        BY <2>2 DEF High
      <4>2. ~(Len(p) = 4)
        BY <1>2
      <4>3. QED BY <1>2, <2>2, <4>1, <4>2 DEF ParsePacket
    <3>2. (p[1] \div 16) - 8 \in Int
      BY <2>1
    <3>3. QED BY <3>1, <3>2 DEF Controllers
  <2>3. CASE p[2] # 56
    <3>1. ParsePacket(v, p) \in {WithSocket(v, Low(p[2]), "Executing"), WithSocket(v, Low(p[2]), "Empty"), v}
      BY <1>2, <2>3 DEF ParsePacket
    <3>2. QED BY <3>1, SocketKeeps
  <2>4. QED BY <2>2, <2>3
<1>3. CASE ~(Len(p) = 3 /\ Low(p[1]) = 0)
  <2>1. CASE Len(p) = 4 /\ p[2] = 48 /\ High(p[3]) = 0
    <3>1. Low(p[3]) - 1 \in Int
      <4>1. 3 \in 1..Len(p)
        BY <2>1
      <4>2. p[3] \in 0..254
        BY <1>1, <4>1, ElementOfSeq
      <4>3. QED BY <4>2 DEF Low
    <3>2. ParsePacket(v, p) = [v EXCEPT !.state = "Active", !.addr = Low(p[3]) - 1]
      <4>1. High(p[2]) # 96
        BY <2>1 DEF High
      <4>2. ~(Len(p) = 3)
        BY <2>1
      <4>3. QED BY <2>1, <4>1, <4>2 DEF ParsePacket
    <3>3. QED BY <3>1, <3>2 DEF Controllers
  <2>2. CASE ~(Len(p) = 4 /\ p[2] = 48 /\ High(p[3]) = 0)
    <3>1. ParsePacket(v, p) \in {WithSocket(v, Low(p[2]), "Empty"), v}
      BY <1>3, <2>2 DEF ParsePacket
    <3>2. QED BY <3>1, SocketKeeps
  <2>3. QED BY <2>1, <2>2
<1>4. QED BY <1>2, <1>3

LEMMA PacketKeeps ==
    ASSUME NEW v \in Controllers, NEW p \in PtPacketKinds
    PROVE  GetPacket(v, p) \in Controllers
BY ParseKeeps DEF GetPacket

(* What processPackets() makes of the first n packets.                     *)
After(v, queue, n, f) ==
    f = [k \in 0..n |-> IF k = 0 THEN v ELSE GetPacket(f[k - 1], queue[k])]

LEMMA AfterExtends ==
    ASSUME NEW v, NEW queue, NEW n \in Nat, NEW f, After(v, queue, n, f)
    PROVE  \E g : After(v, queue, n + 1, g)
<1> DEFINE g == [k \in 0..(n + 1) |-> IF k = n + 1 THEN GetPacket(f[n], queue[n + 1]) ELSE f[k]]
<1>1. ASSUME NEW k \in 0..(n + 1)
      PROVE  g[k] = IF k = 0 THEN v ELSE GetPacket(g[k - 1], queue[k])
  <2>1. CASE k = n + 1
    <3>1. g[k - 1] = f[n]
      BY <2>1
    <3>2. k - 1 = n /\ k # 0
      BY <2>1
    <3>3. g[k] = GetPacket(f[n], queue[n + 1])
      BY <2>1
    <3>4. QED BY <2>1, <3>1, <3>2, <3>3
  <2>2. CASE k # n + 1
    <3>1. k \in 0..n /\ (k # 0 => k - 1 \in 0..n)
      BY <2>2
    <3>2. g[k] = f[k] /\ (k # 0 => g[k - 1] = f[k - 1])
      BY <2>2, <3>1
    <3>3. f[k] = IF k = 0 THEN v ELSE GetPacket(f[k - 1], queue[k])
      BY <3>1 DEF After
    <3>4. QED BY <3>2, <3>3
  <2>3. QED BY <2>1, <2>2
<1>2. g = [k \in 0..(n + 1) |-> IF k = 0 THEN v ELSE GetPacket(g[k - 1], queue[k])]
  BY <1>1
<1>3. After(v, queue, n + 1, g)
  BY <1>2 DEF After
<1>4. QED BY <1>3

LEMMA AfterExists ==
    ASSUME NEW v, NEW queue, NEW n \in Nat
    PROVE  \E f : After(v, queue, n, f)
<1> DEFINE Bad == {m \in Nat : ~\E f : After(v, queue, m, f)}
<1>1. SUFFICES ASSUME Bad # {} PROVE FALSE
  OBVIOUS
<1>2. PICK m \in Bad : \A y \in Bad : m <= y
  BY <1>1, SmallestExists
<1>3. CASE m = 0
  <2> DEFINE f == [k \in 0..0 |-> v]
  <2>1. f = [k \in 0..0 |-> IF k = 0 THEN v ELSE GetPacket(f[k - 1], queue[k])]
    OBVIOUS
  <2>2. After(v, queue, 0, f)
    BY <2>1 DEF After
  <2>3. QED BY <1>2, <1>3, <2>2
<1>4. CASE m # 0
  <2>1. m - 1 \in Nat /\ (m - 1) + 1 = m
    BY <1>2, <1>4
  <2>2. m - 1 \notin Bad
    BY <1>2, <2>1
  <2>3. PICK f : After(v, queue, m - 1, f)
    BY <2>1, <2>2
  <2>4. \E g : After(v, queue, (m - 1) + 1, g)
    BY <2>1, <2>3, AfterExtends
  <2>5. QED BY <1>2, <2>1, <2>4
<1>5. QED BY <1>3, <1>4

LEMMA ReceivedKeeps ==
    ASSUME NEW v \in Controllers, NEW queue \in Seq(PtPacketKinds)
    PROVE  Received(v, queue) \in Controllers
<1> DEFINE n == Len(queue)
<1> DEFINE f == CHOOSE g : After(v, queue, n, g)
<1>1. n \in Nat
  OBVIOUS
<1>2. After(v, queue, n, f)
  BY <1>1, AfterExists, Zenon
<1>3. Received(v, queue) = f[n]
  BY DEF Received, After
<1> DEFINE Bad == {m \in 0..n : f[m] \notin Controllers}
<1> HIDE DEF f
<1>4. \A k \in 0..n : f[k] = IF k = 0 THEN v ELSE GetPacket(f[k - 1], queue[k])
  BY <1>2 DEF After
<1>5. ASSUME Bad # {} PROVE FALSE
  <2>0. Bad \in SUBSET Nat
    BY <1>1
  <2>1. PICK m \in Bad : \A y \in Bad : m <= y
    <3> HIDE DEF Bad
    <3>1. QED BY <1>5, <2>0, SmallestExists
  <2>2. m # 0
    BY <1>4, <2>1
  <2>3. m \in 1..n /\ m - 1 \in 0..n
    BY <1>1, <2>1, <2>2
  <2>4. f[m - 1] \in Controllers
    BY <2>1, <2>3
  <2>5. queue[m] \in PtPacketKinds
    BY <2>3
  <2>6. f[m] = GetPacket(f[m - 1], queue[m])
    BY <1>4, <2>2, <2>3
  <2>7. QED BY <2>1, <2>4, <2>5, <2>6, PacketKeeps
<1>6. QED BY <1>1, <1>3, <1>5


(* What the invariant says of the properties.                              *)
LEMMA CameraInvSound ==
    ASSUME CameraInv
    PROVE  CameraSound /\ StoredOnlyWhenArmed
<1>1. PtTypeOK
  BY DEF CameraInv, CameraTypes, Object, Controllers, PtTypeOK
<1>2. ASSUME NEW p \in Int, NEW m \in Motion, Follows(p, m.speed, m)
      PROVE  LET v == m.speed * Size(m.direction)
             IN  Near(p, v) /\ (v > 0 => m.direction = Sign(p))
  <2>1. m.speed \in 0..10 /\ Near(p, m.speed) /\ (m.speed > 0 => m.direction = Sign(p))
    BY <1>2 DEF Motion, Follows
  <2>2. CASE m.speed = 0
    <3>1. Size(m.direction) \in Int
      BY DEF Size, Motion
    <3>2. m.speed * Size(m.direction) = 0
      BY <2>2, <3>1
    <3>3. QED BY <2>1, <2>2, <3>2
  <2>3. CASE m.speed # 0
    <3>1. m.speed \in Nat \ {0} /\ m.direction = Sign(p)
      BY <2>1, <2>3
    <3>2. Size(Sign(p)) = 1
      BY <2>1, <3>1, DirectionIs
    <3>3. m.speed * Size(m.direction) = m.speed
      BY <2>1, <3>1, <3>2
    <3>4. QED BY <2>1, <3>1, <3>3
  <2>4. QED BY <2>2, <2>3
<1>3. DriveFollows
  <2>1. camera.x \in Motion /\ camera.y \in Motion /\ looked["x"] \in Int /\ looked["y"] \in Int
    BY PositionsAre DEF CameraInv, CameraTypes, Camera, Axes
  <2>2. /\ "x" \notin jumped => Follows(looked["x"], camera.x.speed, camera.x)
        /\ "y" \notin jumped => Follows(looked["y"], camera.y.speed, camera.y)
    BY DEF CameraInv, DriveInv
  <2>3. ASSUME NEW a \in {"x", "y"} \ jumped
        PROVE  camera[a] \in Motion /\ looked[a] \in Int /\ Follows(looked[a], camera[a].speed, camera[a])
    BY <2>1, <2>2
  <2>4. QED BY <1>2, <2>3 DEF DriveFollows, Near
<1>4. LensFollows
  <2>1. ptAt[1] = "visca" => ~Looking
    BY DEF Looking
  <2>2. camera.zoom \in -6..6 /\ camera.focus \in -6..6 /\ ctl.z \in -6..6
    BY DEF CameraInv, CameraTypes, Camera, Object
  <2>3. focusPin \in BOOLEAN
    BY DEF CameraInv, CameraTypes
  <2>4. ~pinMoved => (camera.zoom = 0 \/ camera.focus = 0) /\ camera.zoom + camera.focus = ctl.z
    BY <2>2, <2>3 DEF CameraInv, LensInv
  <2>5. ~Looking /\ "z" \notin jumped => Size(3 * ctl.z - looked["z"]) <= 2
    BY DEF CameraInv, LensInv
  <2>6. QED BY <2>1, <2>4, <2>5 DEF LensFollows
<1>6. StoredOnlyWhenArmed
  <2>1. camera.stores \in Nat /\ storePresses \in Nat /\ Armed(ctl.setMem) \in 0..1 /\ Pending(ptDown, ptSeen) \in 0..1
    BY DEF CameraInv, CameraTypes, Camera, Armed, Pending
  <2>2. QED BY <2>1 DEF CameraInv, StoreInv, Armed, StoredOnlyWhenArmed
<1>7. QED BY <1>1, <1>3, <1>4, <1>6 DEF CameraSound

LEMMA CameraInit ==
    ASSUME PtInit
    PROVE  CameraInv
<1>1. PtStart \subseteq -PtRange..PtRange /\ PtRange \in 1..20
  BY PtzAssumption, Zenon
<1>2. CameraTypes
  <2>1. ctl \in Object /\ camera \in Camera
    BY DEF PtInit, Object, Camera, Motion, Still
  <2>2. stick \in [Axes -> -PtRange..PtRange] /\ looked \in [Axes -> -PtRange..PtRange]
    <3>1. stick \in [Axes -> PtStart] /\ looked = [a \in Axes |-> 0]
      BY DEF PtInit
    <3>2. 0 \in -PtRange..PtRange
      BY <1>1
    <3>3. looked \in [Axes -> -PtRange..PtRange]
      BY <3>1, <3>2
    <3>4. stick \in [Axes -> -PtRange..PtRange]
      BY <1>1, <3>1, Zenon
    <3>5. QED BY <3>3, <3>4
  <2>3. QED BY <2>1, <2>2 DEF PtInit, CameraTypes, Places
<1>3. StoreInv
  BY DEF PtInit, StoreInv, Armed, Pending
<1>4. DriveInv
  BY DEF PtInit, DriveInv, Seen, Follows, Near, Size, Axes, Still
<1>5. LensInv
  BY DEF PtInit, LensInv, Looking, Size, Axes
<1>6. visca \in Controllers /\ iqueue \in Seq(PtPacketKinds)
  BY DEF PtInit, Controllers
<1>7. QED BY <1>2, <1>3, <1>4, <1>5, <1>6 DEF CameraInv

LEMMA StepProcessPackets ==
    ASSUME CameraInv, ProcessPackets
    PROVE  CameraInv'
<1> DEFINE v == Received(visca, iqueue)
<1>1. v \in Controllers
  BY ReceivedKeeps DEF CameraInv
<1>2. /\ visca' = IF AutoReply(v) THEN [v EXCEPT !.state = "AddressSet"] ELSE v
      /\ camera' = IF AutoReply(v) THEN [camera EXCEPT !.addressed = 1] ELSE camera
      /\ ctl' = [ctl EXCEPT !.initialized = @ \/ v.state = "Active"]
      /\ iqueue' = <<>> /\ ptAt[1] = "visca" /\ ptAt' = <<"store", 0>>
  BY DEF ProcessPackets
<1> HIDE DEF v
<1>3. UNCHANGED <<stick, focusPin, ptDown, ptEvents, storePresses, jumped, looked, ptSeen, pinMoved>>
  BY DEF ProcessPackets, outside
<1>4. visca' \in Controllers
  BY <1>1, <1>2 DEF Controllers
<1>5. ctl \in Object /\ camera \in Camera
  BY DEF CameraInv, CameraTypes
<1>6. /\ ctl' \in Object /\ ctl'.setMem = ctl.setMem
      /\ ctl'.x = ctl.x /\ ctl'.y = ctl.y /\ ctl'.z = ctl.z /\ ctl'.fo = ctl.fo
  BY <1>2, <1>5 DEF Object
<1>7. /\ camera' \in Camera /\ camera'.x = camera.x /\ camera'.y = camera.y /\ camera'.stores = camera.stores
      /\ camera'.zoom = camera.zoom /\ camera'.focus = camera.focus
  <2>1. CASE AutoReply(v)
    <3>1. camera' = [camera EXCEPT !.addressed = 1]
      BY <1>2, <2>1
    <3>2. QED BY <1>5, <3>1 DEF Camera
  <2>2. CASE ~AutoReply(v)
    BY <1>2, <1>5, <2>2
  <2>3. QED BY <2>1, <2>2
<1>8. CameraTypes'
  BY <1>2, <1>3, <1>6, <1>7 DEF CameraInv, CameraTypes, Places
<1>9. StoreInv'
  BY <1>3, <1>6, <1>7 DEF CameraInv, StoreInv
<1>10. DriveInv'
  BY <1>3, <1>6, <1>7 DEF CameraInv, DriveInv
<1>11. LensInv'
  <2>1. ~Looking /\ ~Looking'
    BY <1>2 DEF Looking
  <2>2. QED BY <1>3, <1>6, <1>7, <2>1 DEF CameraInv, LensInv
<1>12. iqueue' \in Seq(PtPacketKinds)
  BY <1>2
<1>13. QED BY <1>4, <1>8, <1>9, <1>10, <1>11, <1>12, Zenon DEF CameraInv


(* The keys.                                                               *)
LEMMA StepStoreKey ==
    ASSUME CameraInv, StoreKey
    PROVE  CameraInv'
<1>1. /\ ptAt[1] = "store" /\ ptAt' = AfterKey(0)
      /\ ptSeen' = (ptSeen \ {MemStore}) \cup (ptDown \cap {MemStore})
      /\ ctl' = [ctl EXCEPT !.setMem = IF Down(MemStore) THEN ~@ ELSE @]
      /\ UNCHANGED <<visca, iqueue, camera, stick, focusPin, ptDown, ptEvents, storePresses, jumped, looked, pinMoved>>
  BY DEF StoreKey, LookAt, outside
<1>2. ctl \in Object /\ ctl.setMem \in BOOLEAN /\ camera.stores \in Nat /\ storePresses \in Nat
  BY DEF CameraInv, CameraTypes, Object, Camera
<1> DEFINE set == IF Down(MemStore) THEN ~ctl.setMem ELSE ctl.setMem
<1>3. set \in BOOLEAN /\ ctl' = [ctl EXCEPT !.setMem = set]
  BY <1>1, <1>2
<1>4. Armed(set) <= Armed(ctl.setMem) + Pending(ptDown, ptSeen)
  BY <1>2 DEF Armed, Pending, Down
<1> HIDE DEF set
<1>5. ctl' \in Object /\ ctl'.setMem = set
  BY <1>2, <1>3 DEF Object
<1>6. /\ ctl'.initialized = ctl.initialized /\ ctl'.x = ctl.x /\ ctl'.y = ctl.y
      /\ ctl'.z = ctl.z /\ ctl'.fo = ctl.fo
  BY <1>2, <1>3 DEF Object
<1>7. ptAt' \in Places /\ ~Looking /\ ~Looking'
  BY <1>1, AfterKeyIs DEF Looking
<1>8. CameraTypes'
  <2>1. ptSeen' \subseteq PtKeys
    BY <1>1 DEF CameraInv, CameraTypes
  <2>2. QED BY <1>1, <1>5, <1>7, <2>1 DEF CameraInv, CameraTypes
<1>9. StoreInv'
  <2>1. Pending(ptDown, ptSeen)' = 0
    BY <1>1 DEF Pending
  <2>2. Armed(set) \in 0..1 /\ Armed(ctl.setMem) \in 0..1 /\ Pending(ptDown, ptSeen) \in 0..1
    BY DEF Armed, Pending
  <2>3. camera.stores + Armed(ctl.setMem) + Pending(ptDown, ptSeen) <= storePresses
    BY DEF CameraInv, StoreInv
  <2>4. camera.stores + Armed(set) + 0 <= storePresses
    BY <1>2, <1>4, <2>2, <2>3
  <2>5. QED BY <1>1, <1>5, <2>1, <2>4 DEF StoreInv
<1>10. DriveInv'
  BY <1>1, <1>6 DEF CameraInv, DriveInv
<1>11. LensInv'
  BY <1>1, <1>6, <1>7 DEF CameraInv, LensInv
<1>12. visca' \in Controllers /\ iqueue' \in Seq(PtPacketKinds)
  BY <1>1, <1>6 DEF CameraInv
<1>13. QED BY <1>8, <1>9, <1>10, <1>11, <1>12, Zenon DEF CameraInv

LEMMA StepMemKey ==
    ASSUME CameraInv, MemKey
    PROVE  CameraInv'
<1> DEFINE k == ptAt[2]
<1>1. /\ ptAt[1] = "mem" /\ ptAt' = AfterKey(k)
      /\ ptSeen' = (ptSeen \ {k}) \cup (ptDown \cap {k})
      /\ \/ camera' = CamMemory(ctl.setMem) /\ ctl' = [ctl EXCEPT !.setMem = FALSE]
         \/ camera' = camera /\ ctl' = ctl
      /\ UNCHANGED <<visca, iqueue, stick, focusPin, ptDown, ptEvents, storePresses, jumped, looked, pinMoved>>
  BY DEF MemKey, LookAt, outside
<1>2. k \in PtMemories /\ k \in 1..6
  BY <1>1, PlacesAre DEF CameraInv, CameraTypes
<1>3. /\ ctl \in Object /\ ctl.setMem \in BOOLEAN /\ camera \in Camera
      /\ camera.stores \in Nat /\ storePresses \in Nat
  BY DEF CameraInv, CameraTypes, Object, Camera
<1> HIDE DEF k
<1>4. ptAt' \in Places /\ ~Looking /\ ~Looking'
  BY <1>1, <1>2, AfterKeyIs DEF Looking
<1>5. /\ camera' \in Camera /\ camera'.x = camera.x /\ camera'.y = camera.y
      /\ camera'.zoom = camera.zoom /\ camera'.focus = camera.focus
      /\ ctl' \in Object /\ ctl'.initialized = ctl.initialized /\ ctl'.x = ctl.x /\ ctl'.y = ctl.y
      /\ ctl'.z = ctl.z /\ ctl'.fo = ctl.fo
      /\ camera'.stores + Armed(ctl'.setMem) = camera.stores + Armed(ctl.setMem)
  <2>1. CASE camera' = camera /\ ctl' = ctl
    BY <1>3, <2>1
  <2>2. CASE camera' = CamMemory(ctl.setMem) /\ ctl' = [ctl EXCEPT !.setMem = FALSE]
    <3>1. /\ ctl' \in Object /\ ctl'.initialized = ctl.initialized /\ ctl'.x = ctl.x /\ ctl'.y = ctl.y
          /\ ctl'.z = ctl.z /\ ctl'.fo = ctl.fo /\ ctl'.setMem = FALSE
      BY <1>3, <2>2 DEF Object
    <3>2. CASE ctl.setMem
      <4>1. camera' = [camera EXCEPT !.stores = camera.stores + 1]
        BY <2>2, <3>2 DEF CamMemory
      <4>2. /\ camera' \in Camera /\ camera'.x = camera.x /\ camera'.y = camera.y
            /\ camera'.zoom = camera.zoom /\ camera'.focus = camera.focus /\ camera'.stores = camera.stores + 1
        BY <1>3, <4>1 DEF Camera
      <4>3. Armed(ctl'.setMem) = 0 /\ Armed(ctl.setMem) = 1
        BY <3>1, <3>2 DEF Armed
      <4>4. QED BY <1>3, <3>1, <4>2, <4>3
    <3>3. CASE ~ctl.setMem
      <4>1. camera' = camera
        BY <2>2, <3>3 DEF CamMemory
      <4>2. Armed(ctl'.setMem) = 0 /\ Armed(ctl.setMem) = 0
        BY <3>1, <3>3 DEF Armed
      <4>3. QED BY <1>3, <3>1, <4>1, <4>2
    <3>4. QED BY <1>3, <3>2, <3>3
  <2>3. QED BY <1>1, <2>1, <2>2
<1>6. CameraTypes'
  <2>1. ptSeen' \subseteq PtKeys
    BY <1>1 DEF CameraInv, CameraTypes
  <2>2. QED BY <1>1, <1>4, <1>5, <2>1 DEF CameraInv, CameraTypes
<1>7. StoreInv'
  <2>1. Pending(ptDown, ptSeen)' = Pending(ptDown, ptSeen)
    <3>1. k # MemStore
      BY <1>2 DEF MemStore
    <3>2. QED BY <1>1, <3>1 DEF Pending
  <2>2. camera.stores + Armed(ctl.setMem) + Pending(ptDown, ptSeen) <= storePresses
    BY DEF CameraInv, StoreInv
  <2>3. QED BY <1>1, <1>5, <2>1, <2>2 DEF StoreInv
<1>8. DriveInv'
  BY <1>1, <1>5 DEF CameraInv, DriveInv
<1>9. LensInv'
  BY <1>1, <1>4, <1>5 DEF CameraInv, LensInv
<1>10. visca' \in Controllers /\ iqueue' \in Seq(PtPacketKinds)
  BY <1>1, <1>5 DEF CameraInv
<1>11. QED BY <1>6, <1>7, <1>8, <1>9, <1>10, Zenon DEF CameraInv

LEMMA StepFocusKey ==
    ASSUME CameraInv, FocusKey
    PROVE  CameraInv'
<1>1. /\ ptAt[1] = "focus" /\ ptAt' = <<"lens", 0>>
      /\ \/ ctl.setMem /\ ctl' = [ctl EXCEPT !.setMem = FALSE, !.focusAuto = TRUE]
         \/ ctl' = ctl
      /\ UNCHANGED <<visca, iqueue, camera, stick, focusPin, ptDown, ptEvents, storePresses, jumped, looked,
                     ptSeen, pinMoved>>
  BY DEF FocusKey, outside
<1>2. ctl \in Object /\ ctl.setMem \in BOOLEAN /\ camera.stores \in Nat /\ storePresses \in Nat
  BY DEF CameraInv, CameraTypes, Object, Camera
<1>3. /\ ctl' \in Object /\ ctl'.initialized = ctl.initialized /\ ctl'.x = ctl.x /\ ctl'.y = ctl.y
      /\ ctl'.z = ctl.z /\ ctl'.fo = ctl.fo
      /\ Armed(ctl'.setMem) <= Armed(ctl.setMem)
  <2>1. CASE ctl' = ctl
    BY <1>2, <2>1 DEF Armed
  <2>2. CASE ctl.setMem /\ ctl' = [ctl EXCEPT !.setMem = FALSE, !.focusAuto = TRUE]
    <3>1. /\ ctl' \in Object /\ ctl'.initialized = ctl.initialized /\ ctl'.x = ctl.x /\ ctl'.y = ctl.y
          /\ ctl'.z = ctl.z /\ ctl'.fo = ctl.fo /\ ctl'.setMem = FALSE
      BY <1>2, <2>2 DEF Object
    <3>2. QED BY <2>2, <3>1 DEF Armed
  <2>3. QED BY <1>1, <2>1, <2>2
<1>4. ptAt' \in Places /\ Looking /\ Looking'
  BY <1>1 DEF Looking, Places
<1>5. CameraTypes'
  BY <1>1, <1>3, <1>4 DEF CameraInv, CameraTypes
<1>6. StoreInv'
  <2>1. camera.stores + Armed(ctl.setMem) + Pending(ptDown, ptSeen) <= storePresses
    BY DEF CameraInv, StoreInv
  <2>2. Armed(ctl'.setMem) \in 0..1 /\ Armed(ctl.setMem) \in 0..1 /\ Pending(ptDown, ptSeen) \in 0..1
    BY DEF Armed, Pending
  <2>3. camera.stores + Armed(ctl'.setMem) + Pending(ptDown, ptSeen) <= storePresses
    BY <1>2, <1>3, <2>1, <2>2
  <2>4. QED BY <1>1, <2>3 DEF StoreInv
<1>7. DriveInv'
  BY <1>1, <1>3 DEF CameraInv, DriveInv
<1>8. LensInv'
  BY <1>1, <1>3, <1>4 DEF CameraInv, LensInv
<1>9. visca' \in Controllers /\ iqueue' \in Seq(PtPacketKinds)
  BY <1>1, <1>3 DEF CameraInv
<1>10. QED BY <1>5, <1>6, <1>7, <1>8, <1>9, Zenon DEF CameraInv


(* The stick and the lens.                                                 *)
LEMMA AxisFollows ==
    ASSUME NEW p \in Int, NEW q \in Int, NEW n \in Nat, NEW m, Seen(q, n)
    PROVE  LET s == Speed(p, n)
               told == [speed |-> s, direction |-> Direction(p)]
           IN  /\ Seen(p, s)
               /\ Size(p) % 2 = 1 => Follows(p, s, told)
               /\ Follows(q, n, m) /\ Size(p - q) <= 1 =>
                    Follows(p, s, told) /\ (s = n => Follows(p, s, m))
<1> DEFINE s == Speed(p, n)
           told == [speed |-> s, direction |-> Direction(p)]
<1>1. /\ s \in Nat
      /\ Size(p) % 2 = 1 => s = Size(p) \div 2 /\ Near(p, s)
      /\ Near(q, n) /\ Size(p - q) <= 1 => Near(p, s)
  BY SpeedIs DEF Seen
<1> HIDE DEF s
<1>2. ASSUME Near(p, s) PROVE Follows(p, s, told)
  <2>1. ASSUME s > 0 PROVE Direction(p) = Sign(p)
    <3>1. s \in Nat \ {0}
      BY <1>1, <2>1
    <3>2. QED BY <1>2, <3>1, DirectionIs
  <2>2. QED BY <1>2, <2>1 DEF Follows
<1>3. ASSUME Follows(q, n, m), Size(p - q) <= 1, s = n PROVE Follows(p, s, m)
  <2>1. Near(p, s) /\ Near(q, s)
    BY <1>1, <1>3 DEF Follows
  <2>2. ASSUME s > 0 PROVE m.direction = Sign(p)
    <3>1. s \in Nat \ {0}
      BY <1>1, <2>2
    <3>2. Sign(q) = Sign(p)
      BY <1>3, <2>1, <3>1, DirectionIs
    <3>3. QED BY <1>3, <2>2, <3>2 DEF Follows
  <2>3. QED BY <2>1, <2>2 DEF Follows
<1>4. Seen(p, s)
  BY <1>1 DEF Seen
<1>5. ASSUME Follows(q, n, m), Size(p - q) <= 1 PROVE Near(p, s)
  BY <1>1, <1>5 DEF Follows
<1>6. QED BY <1>1, <1>2, <1>3, <1>4, <1>5 DEF s

LEMMA SpeedAtMost ==
    ASSUME NEW p \in -20..20, NEW n \in 0..10
    PROVE  Speed(p, n) \in 0..10 /\ Direction(p) \in {-1, 0, 1}
<1>1. Speed(p, n) \in 0..10
  <2>1. CASE p >= 0
    BY <2>1 DEF Speed, Size
  <2>2. CASE p < 0
    BY <2>2 DEF Speed, Size
  <2>3. QED BY <2>1, <2>2
<1>2. Direction(p) \in {-1, 0, 1}
  BY DEF Direction, Sign, Size
<1>3. QED BY <1>1, <1>2

LEMMA StepDrive ==
    ASSUME CameraInv, Drive
    PROVE  CameraInv'
<1> DEFINE p == stick["x"]
           q == stick["y"]
           x == Speed(p, ctl.x)
           y == Speed(q, ctl.y)
           new == x # ctl.x \/ y # ctl.y
           fo == Code(stick["z"], ctl.z)
<1>1. /\ ptAt[1] = "drive" /\ ptAt' = <<"focus", 0>>
      /\ looked' = stick
      /\ jumped' = JumpedNow \ {a \in {"x", "y"} : new /\ Size(stick[a]) % 2 = 1}
      /\ camera' = IF new THEN CamDrive(x, y, Direction(p), Direction(q)) ELSE camera
      /\ ctl' = [ctl EXCEPT !.x = x, !.y = y, !.fo = fo]
      /\ UNCHANGED <<visca, iqueue, stick, focusPin, ptDown, ptEvents, storePresses, ptSeen, pinMoved>>
  BY DEF Drive, outside
<1>2. /\ ctl \in Object /\ camera \in Camera
      /\ camera.x \in Motion /\ camera.y \in Motion
      /\ ctl.x \in 0..10 /\ ctl.y \in 0..10 /\ ctl.z \in -6..6 /\ ctl.fo \in -6..6
  BY DEF CameraInv, CameraTypes, Object, Camera
<1>3. \A a \in Axes : looked[a] \in -20..20 /\ stick[a] \in -20..20
  BY PositionsAre DEF CameraInv
<1>4. p \in -20..20 /\ q \in -20..20 /\ looked["x"] \in Int /\ looked["y"] \in Int
  BY <1>3 DEF Axes
<1>5. /\ x \in 0..10 /\ y \in 0..10
      /\ Direction(p) \in {-1, 0, 1} /\ Direction(q) \in {-1, 0, 1}
  BY <1>2, <1>4, SpeedAtMost
<1>6. fo \in -6..6
  BY <1>2, <1>3, CodeIs DEF Axes
<1>7. \A a \in Axes : a \notin JumpedNow => a \notin jumped /\ Size(stick[a] - looked[a]) <= 1
  <2>1. \A a \in Axes : Size(stick[a] - looked[a]) \in Int
    BY <1>3 DEF Size
  <2>2. QED BY <2>1 DEF JumpedNow
<1>8. new \in BOOLEAN
  OBVIOUS
<1>9. /\ Seen(p, x)
      /\ "x" \notin jumped' => Follows(p, x, IF new THEN [speed |-> x, direction |-> Direction(p)] ELSE camera.x)
  <2> DEFINE told == [speed |-> x, direction |-> Direction(p)]
  <2>1. Seen(looked["x"], ctl.x) /\ ("x" \notin jumped => Follows(looked["x"], ctl.x, camera.x))
    BY DEF CameraInv, DriveInv
  <2>2. ctl.x \in Nat /\ p \in Int /\ looked["x"] \in Int
    BY <1>2, <1>4
  <2>3. /\ Seen(p, x)
        /\ Size(p) % 2 = 1 => Follows(p, x, told)
        /\ Follows(looked["x"], ctl.x, camera.x) /\ Size(p - looked["x"]) <= 1 =>
             Follows(p, x, told) /\ (x = ctl.x => Follows(p, x, camera.x))
    BY <2>1, <2>2, AxisFollows, Zenon
  <2>4. ASSUME "x" \notin jumped'
        PROVE  \/ new /\ Size(p) % 2 = 1
               \/ "x" \notin jumped /\ Size(p - looked["x"]) <= 1
    BY <1>1, <1>7, <2>4 DEF Axes
  <2>5. ~new => x = ctl.x
    OBVIOUS
  <2> HIDE DEF p, x, new
  <2>6. ASSUME "x" \notin jumped' PROVE Follows(p, x, IF new THEN told ELSE camera.x)
    BY <2>1, <2>3, <2>4, <2>5, <2>6
  <2>7. QED BY <2>3, <2>6
<1>10. /\ Seen(q, y)
       /\ "y" \notin jumped' => Follows(q, y, IF new THEN [speed |-> y, direction |-> Direction(q)] ELSE camera.y)
  <2> DEFINE told == [speed |-> y, direction |-> Direction(q)]
  <2>1. Seen(looked["y"], ctl.y) /\ ("y" \notin jumped => Follows(looked["y"], ctl.y, camera.y))
    BY DEF CameraInv, DriveInv
  <2>2. ctl.y \in Nat /\ q \in Int /\ looked["y"] \in Int
    BY <1>2, <1>4
  <2>3. /\ Seen(q, y)
        /\ Size(q) % 2 = 1 => Follows(q, y, told)
        /\ Follows(looked["y"], ctl.y, camera.y) /\ Size(q - looked["y"]) <= 1 =>
             Follows(q, y, told) /\ (y = ctl.y => Follows(q, y, camera.y))
    BY <2>1, <2>2, AxisFollows, Zenon
  <2>4. ASSUME "y" \notin jumped'
        PROVE  \/ new /\ Size(q) % 2 = 1
               \/ "y" \notin jumped /\ Size(q - looked["y"]) <= 1
    BY <1>1, <1>7, <2>4 DEF Axes
  <2>5. ~new => y = ctl.y
    OBVIOUS
  <2> HIDE DEF q, y, new
  <2>6. ASSUME "y" \notin jumped' PROVE Follows(q, y, IF new THEN told ELSE camera.y)
    BY <2>1, <2>3, <2>4, <2>5, <2>6
  <2>7. QED BY <2>3, <2>6
<1>11. fo # ctl.z => 3 * fo = stick["z"]
  BY <1>2, <1>3, CodeIs DEF Axes
<1>12. "z" \notin jumped' => Size(3 * fo - stick["z"]) <= 2
  <2>1. SUFFICES ASSUME "z" \notin jumped' PROVE Size(3 * fo - stick["z"]) <= 2
    OBVIOUS
  <2>2. "z" \notin JumpedNow
    BY <1>1, <2>1
  <2>3. "z" \notin jumped /\ Size(stick["z"] - looked["z"]) <= 1
    BY <1>7, <2>2 DEF Axes
  <2>4. ~Looking
    BY <1>1 DEF Looking
  <2>5. Size(3 * ctl.z - looked["z"]) <= 2
    BY <2>3, <2>4 DEF CameraInv, LensInv
  <2>6. stick["z"] \in -20..20 /\ looked["z"] \in Int
    BY <1>3 DEF Axes
  <2>7. QED BY <1>2, <2>3, <2>5, <2>6, CodeIs
<1> HIDE DEF p, q, x, y, new, fo
<1>13. /\ ctl' \in Object /\ ctl'.initialized = ctl.initialized /\ ctl'.setMem = ctl.setMem
       /\ ctl'.x = x /\ ctl'.y = y /\ ctl'.z = ctl.z /\ ctl'.fo = fo
  BY <1>1, <1>2, <1>5, <1>6 DEF Object
<1>14. /\ camera' \in Camera /\ camera'.stores = camera.stores
       /\ camera'.zoom = camera.zoom /\ camera'.focus = camera.focus
       /\ camera'.x = IF new THEN [speed |-> x, direction |-> Direction(p)] ELSE camera.x
       /\ camera'.y = IF new THEN [speed |-> y, direction |-> Direction(q)] ELSE camera.y
       /\ camera'.x.speed = x /\ camera'.y.speed = y
  <2>1. CASE new
    <3>1. camera' = [camera EXCEPT !.x = [speed |-> x, direction |-> Direction(p)],
                                   !.y = [speed |-> y, direction |-> Direction(q)]]
      BY <1>1, <2>1 DEF CamDrive
    <3>2. /\ [speed |-> x, direction |-> Direction(p)] \in Motion
          /\ [speed |-> y, direction |-> Direction(q)] \in Motion
      BY <1>5 DEF Motion
    <3>3. QED BY <1>2, <2>1, <3>1, <3>2 DEF Camera
  <2>2. CASE ~new
    <3>1. camera' = camera
      BY <1>1, <2>2
    <3>2. x = ctl.x /\ y = ctl.y
      BY <2>2 DEF new
    <3>3. camera.x.speed = ctl.x /\ camera.y.speed = ctl.y
      BY DEF CameraInv, DriveInv
    <3>4. QED BY <1>2, <2>2, <3>1, <3>2, <3>3
  <2>3. QED BY <2>1, <2>2
<1>15. ptAt' \in Places /\ Looking'
  BY <1>1 DEF Looking, Places
<1>16. CameraTypes'
  <2>1. looked' \in [Axes -> -PtRange..PtRange] /\ stick' \in [Axes -> -PtRange..PtRange]
    BY <1>1 DEF CameraInv, CameraTypes
  <2>2. jumped' \subseteq Axes
    <3>1. jumped \subseteq Axes
      BY DEF CameraInv, CameraTypes
    <3>2. QED BY <1>1, <3>1 DEF JumpedNow
  <2>3. UNCHANGED <<focusPin, pinMoved, ptDown, ptSeen, storePresses>>
    BY <1>1
  <2>4. QED BY <1>13, <1>14, <1>15, <2>1, <2>2, <2>3 DEF CameraInv, CameraTypes
<1>17. StoreInv'
  BY <1>1, <1>13, <1>14 DEF CameraInv, StoreInv
<1>18. DriveInv'
  <2>1. looked'["x"] = p /\ looked'["y"] = q
    BY <1>1 DEF p, q
  <2>2. QED BY <1>9, <1>10, <1>13, <1>14, <2>1 DEF DriveInv
<1>19. LensInv'
  <2>1. /\ ~pinMoved => /\ focusPin => camera.focus = ctl.z /\ camera.zoom = 0
                        /\ ~focusPin => camera.zoom = ctl.z /\ camera.focus = 0
    BY DEF CameraInv, LensInv
  <2>2. looked'["z"] = stick["z"]
    BY <1>1
  <2>3. focusPin' = focusPin /\ pinMoved' = pinMoved
    BY <1>1
  <2>4. QED BY <1>11, <1>12, <1>13, <1>14, <1>15, <2>1, <2>2, <2>3 DEF LensInv
<1>20. visca' \in Controllers /\ iqueue' \in Seq(PtPacketKinds)
  BY <1>1, <1>13 DEF CameraInv
<1>21. QED BY <1>16, <1>17, <1>18, <1>19, <1>20, Zenon DEF CameraInv

LEMMA StepLens ==
    ASSUME CameraInv, Lens
    PROVE  CameraInv'
<1>1. /\ ptAt[1] = "lens" /\ ptAt' = <<"visca", 0>>
      /\ UNCHANGED <<visca, iqueue, stick, focusPin, ptDown, ptEvents, storePresses, looked, ptSeen, pinMoved>>
  BY DEF Lens, outside
<1>2. /\ ctl \in Object /\ camera \in Camera /\ jumped \subseteq Axes /\ focusPin \in BOOLEAN
      /\ ctl.z \in -6..6 /\ ctl.fo \in -6..6 /\ looked["z"] \in Int
  BY PositionsAre DEF CameraInv, CameraTypes, Object, Camera, Axes
<1>3. /\ ~pinMoved => /\ focusPin => camera.focus = ctl.z /\ camera.zoom = 0
                      /\ ~focusPin => camera.zoom = ctl.z /\ camera.focus = 0
      /\ ctl.fo # ctl.z => 3 * ctl.fo = looked["z"]
      /\ "z" \notin jumped => Size(3 * ctl.fo - looked["z"]) <= 2
  BY <1>1 DEF CameraInv, LensInv, Looking
<1>4. /\ ctl' \in Object /\ ctl'.initialized = ctl.initialized /\ ctl'.setMem = ctl.setMem
      /\ ctl'.x = ctl.x /\ ctl'.y = ctl.y /\ ctl'.z = ctl.fo
      /\ camera' \in Camera /\ camera'.x = camera.x /\ camera'.y = camera.y /\ camera'.stores = camera.stores
      /\ jumped' \subseteq Axes /\ ("x" \in jumped' <=> "x" \in jumped) /\ ("y" \in jumped' <=> "y" \in jumped)
      /\ "z" \notin jumped' => Size(3 * ctl.fo - looked["z"]) <= 2
      /\ ~pinMoved => /\ focusPin => camera'.focus = ctl.fo /\ camera'.zoom = 0
                      /\ ~focusPin => camera'.zoom = ctl.fo /\ camera'.focus = 0
  <2>1. CASE ctl.fo = ctl.z
    <3>1. ctl' = ctl /\ camera' = camera /\ jumped' = jumped
      BY <2>1 DEF Lens
    <3>2. QED BY <1>2, <1>3, <2>1, <3>1
  <2>2. CASE ctl.fo # ctl.z
    <3>1. jumped' = jumped \ {"z"} /\ Size(3 * ctl.fo - looked["z"]) <= 2
      <4>1. jumped' = jumped \ {"z"}
        BY <2>2 DEF Lens
      <4>2. QED BY <1>2, <1>3, <2>2, <4>1 DEF Size
    <3>2. jumped' \subseteq Axes /\ ("x" \in jumped' <=> "x" \in jumped) /\ ("y" \in jumped' <=> "y" \in jumped)
      BY <1>2, <3>1
    <3>3. CASE focusPin
      <4>1. camera' = [camera EXCEPT !.focus = ctl.fo] /\ ctl' = [ctl EXCEPT !.z = ctl.fo, !.focusAuto = FALSE]
        BY <2>2, <3>3 DEF Lens, CamFocus
      <4>2. /\ ctl' \in Object /\ ctl'.initialized = ctl.initialized /\ ctl'.setMem = ctl.setMem
            /\ ctl'.x = ctl.x /\ ctl'.y = ctl.y /\ ctl'.z = ctl.fo
        BY <1>2, <4>1 DEF Object
      <4>3. /\ camera' \in Camera /\ camera'.x = camera.x /\ camera'.y = camera.y
            /\ camera'.stores = camera.stores /\ camera'.focus = ctl.fo /\ camera'.zoom = camera.zoom
        BY <1>2, <4>1 DEF Camera
      <4>4. QED BY <1>3, <3>1, <3>2, <3>3, <4>2, <4>3
    <3>4. CASE ~focusPin
      <4>1. camera' = [camera EXCEPT !.zoom = ctl.fo] /\ ctl' = [ctl EXCEPT !.z = ctl.fo]
        BY <2>2, <3>4 DEF Lens, CamZoom
      <4>2. /\ ctl' \in Object /\ ctl'.initialized = ctl.initialized /\ ctl'.setMem = ctl.setMem
            /\ ctl'.x = ctl.x /\ ctl'.y = ctl.y /\ ctl'.z = ctl.fo
        BY <1>2, <4>1 DEF Object
      <4>3. /\ camera' \in Camera /\ camera'.x = camera.x /\ camera'.y = camera.y
            /\ camera'.stores = camera.stores /\ camera'.zoom = ctl.fo /\ camera'.focus = camera.focus
        BY <1>2, <4>1 DEF Camera
      <4>4. QED BY <1>3, <3>1, <3>2, <3>4, <4>2, <4>3
    <3>5. QED BY <3>3, <3>4
  <2>3. QED BY <2>1, <2>2
<1>5. ptAt' \in Places /\ ~Looking'
  BY <1>1 DEF Looking, Places
<1>6. CameraTypes'
  <2>1. UNCHANGED <<stick, looked, focusPin, pinMoved, ptDown, ptSeen, storePresses>>
    BY <1>1
  <2>2. QED BY <1>4, <1>5, <2>1 DEF CameraInv, CameraTypes
<1>7. StoreInv'
  BY <1>1, <1>4 DEF CameraInv, StoreInv
<1>8. DriveInv'
  BY <1>1, <1>4 DEF CameraInv, DriveInv
<1>9. LensInv'
  BY <1>1, <1>4, <1>5 DEF LensInv
<1>10. visca' \in Controllers /\ iqueue' \in Seq(PtPacketKinds)
  BY <1>1, <1>4 DEF CameraInv
<1>11. QED BY <1>6, <1>7, <1>8, <1>9, <1>10, Zenon DEF CameraInv


(* The operator, and the packets that come.                                *)
LEMMA StepMoveStick ==
    ASSUME CameraInv, NEW a \in PtMoved, NEW p \in -PtRange..PtRange, MoveStick(a, p)
    PROVE  CameraInv'
<1>1. /\ stick' = [stick EXCEPT ![a] = p]
      /\ UNCHANGED <<visca, iqueue, ctl, camera, jumped, looked, focusPin, ptDown, ptSeen, ptAt, pinMoved, storePresses>>
  BY DEF MoveStick
<1>2. stick' \in [Axes -> -PtRange..PtRange]
  BY <1>1 DEF CameraInv, CameraTypes
<1>3. CameraTypes'
  BY <1>1, <1>2 DEF CameraInv, CameraTypes
<1>4. StoreInv' /\ DriveInv' /\ LensInv' /\ Looking' = Looking
  BY <1>1 DEF CameraInv, StoreInv, DriveInv, LensInv, Looking
<1>5. visca' \in Controllers /\ iqueue' \in Seq(PtPacketKinds)
  BY <1>1 DEF CameraInv
<1>6. QED BY <1>3, <1>4, <1>5, Zenon DEF CameraInv

LEMMA StepTurnPin ==
    ASSUME CameraInv, TurnPin
    PROVE  CameraInv'
<1>1. /\ focusPin' = ~focusPin /\ pinMoved' = (pinMoved \/ ctl.z # 0)
      /\ UNCHANGED <<visca, iqueue, ctl, camera, stick, jumped, looked, ptDown, ptSeen, ptAt, storePresses>>
  BY DEF TurnPin
<1>2. focusPin \in BOOLEAN /\ pinMoved \in BOOLEAN
  BY DEF CameraInv, CameraTypes
<1>3. CameraTypes'
  BY <1>1, <1>2 DEF CameraInv, CameraTypes
<1>4. StoreInv' /\ DriveInv'
  BY <1>1 DEF CameraInv, StoreInv, DriveInv
<1>5. LensInv'
  <2>1. /\ ~pinMoved => /\ focusPin => camera.focus = ctl.z /\ camera.zoom = 0
                        /\ ~focusPin => camera.zoom = ctl.z /\ camera.focus = 0
    BY DEF CameraInv, LensInv
  <2>2. ~pinMoved' => camera.focus = 0 /\ camera.zoom = 0 /\ ctl.z = 0
    BY <1>1, <1>2, <2>1
  <2>3. Looking' <=> Looking
    BY <1>1 DEF Looking
  <2>4. QED BY <1>1, <2>2, <2>3 DEF CameraInv, LensInv
<1>6. visca' \in Controllers /\ iqueue' \in Seq(PtPacketKinds)
  BY <1>1 DEF CameraInv
<1>7. QED BY <1>3, <1>4, <1>5, <1>6, Zenon DEF CameraInv

LEMMA StepKey ==
    ASSUME CameraInv, NEW k \in PtKeys, PtPress(k) \/ PtRelease(k)
    PROVE  CameraInv'
<1>1. UNCHANGED <<visca, iqueue, ctl, camera, stick, jumped, looked, focusPin, ptSeen, ptAt, pinMoved>>
  BY DEF PtPress, PtRelease
<1>2. ptDown' \subseteq PtKeys /\ storePresses' \in Nat
  BY DEF PtPress, PtRelease, CameraInv, CameraTypes
<1>3. Pending(ptDown, ptSeen)' + storePresses <= Pending(ptDown, ptSeen) + storePresses'
  <2>1. storePresses \in Nat
    BY DEF CameraInv, CameraTypes
  <2>2. CASE PtPress(k)
    BY <1>1, <2>1, <2>2 DEF PtPress, Pending
  <2>3. CASE PtRelease(k)
    BY <1>1, <2>1, <2>3 DEF PtRelease, Pending
  <2>4. QED BY <2>2, <2>3
<1>4. CameraTypes'
  BY <1>1, <1>2 DEF CameraInv, CameraTypes
<1>5. StoreInv'
  <2>1. camera.stores \in Nat /\ storePresses \in Nat /\ Armed(ctl.setMem) \in 0..1
    BY DEF CameraInv, CameraTypes, Camera, Armed
  <2>2. Pending(ptDown, ptSeen) \in 0..1 /\ Pending(ptDown, ptSeen)' \in 0..1
    BY DEF Pending
  <2>3. camera.stores + Armed(ctl.setMem) + Pending(ptDown, ptSeen) <= storePresses
    BY DEF CameraInv, StoreInv
  <2>4. camera.stores + Armed(ctl.setMem) + Pending(ptDown, ptSeen)' <= storePresses'
    BY <1>2, <1>3, <2>1, <2>2, <2>3
  <2>5. QED BY <1>1, <2>4 DEF StoreInv
<1>6. DriveInv'
  BY <1>1 DEF CameraInv, DriveInv
<1>7. LensInv'
  BY <1>1 DEF CameraInv, LensInv, Looking
<1>8. visca' \in Controllers /\ iqueue' \in Seq(PtPacketKinds)
  BY <1>1 DEF CameraInv
<1>9. QED BY <1>4, <1>5, <1>6, <1>7, <1>8, Zenon DEF CameraInv

LEMMA StepPacketComes ==
    ASSUME CameraInv, NEW p \in PtPacketKinds, PacketComes(p)
    PROVE  CameraInv'
<1>1. /\ iqueue' = Append(iqueue, p)
      /\ camera' = camera \/ camera' = [camera EXCEPT !.addressed = 2]
      /\ UNCHANGED <<visca, ctl, stick, jumped, looked, focusPin, ptDown, ptSeen, ptAt, pinMoved, storePresses>>
  BY DEF PacketComes
<1>2. camera \in Camera
  BY DEF CameraInv, CameraTypes
<1>3. /\ camera' \in Camera /\ camera'.x = camera.x /\ camera'.y = camera.y /\ camera'.stores = camera.stores
      /\ camera'.zoom = camera.zoom /\ camera'.focus = camera.focus
  <2>1. CASE camera' = camera
    BY <1>2, <2>1
  <2>2. CASE camera' = [camera EXCEPT !.addressed = 2]
    BY <1>2, <2>2 DEF Camera
  <2>3. QED BY <1>1, <2>1, <2>2
<1>4. CameraTypes'
  BY <1>1, <1>3 DEF CameraInv, CameraTypes
<1>5. StoreInv' /\ DriveInv'
  BY <1>1, <1>3 DEF CameraInv, StoreInv, DriveInv
<1>6. LensInv'
  BY <1>1, <1>3 DEF CameraInv, LensInv, Looking
<1>7. visca' \in Controllers
  BY <1>1 DEF CameraInv
<1>8. iqueue' \in Seq(PtPacketKinds)
  BY <1>1 DEF CameraInv
<1>9. QED BY <1>4, <1>5, <1>6, <1>7, <1>8, Zenon DEF CameraInv

LEMMA CameraStays ==
    ASSUME CameraInv, UNCHANGED ptVars
    PROVE  CameraInv'
BY DEF ptVars, CameraInv, CameraTypes, StoreInv, DriveInv, LensInv, Looking

LEMMA CameraAlways == PtSpec => []CameraInv
<1>1. PtInit => CameraInv
  BY CameraInit
<1>2. ASSUME CameraInv, [PtNext]_ptVars PROVE CameraInv'
  <2>1. CASE PtNext
    BY <1>2, <2>1, StepProcessPackets, StepStoreKey, StepMemKey, StepDrive, StepFocusKey, StepLens,
       StepMoveStick, StepTurnPin, StepKey, StepPacketComes, Zenon DEF PtNext
  <2>2. CASE UNCHANGED ptVars
    BY <1>2, <2>2, CameraStays, Zenon
  <2>3. QED BY <1>2, <2>1, <2>2
<1>3. QED BY <1>1, <1>2, PTL DEF PtSpec

(* The camera moves as the stick was last seen, but for an axis that jumped*)
(* or a switch turned while the lens moved, whatever packets and pauses    *)
(* come in between (app/PtzCamera.cpp, lib/ViscaController.cpp).           *)
THEOREM CameraHolds == PtSpec => []CameraSound
<1>1. CameraInv => CameraSound
  BY CameraInvSound
<1>2. QED BY <1>1, CameraAlways, PTL

(* No preset is overwritten without a press of "store" of its own          *)
(* (app/PtzCamera.cpp).                                                    *)
THEOREM StoresOnlyWhenArmed == PtSpec => []StoredOnlyWhenArmed
<1>1. CameraInv => StoredOnlyWhenArmed
  BY CameraInvSound
<1>2. QED BY <1>1, CameraAlways, PTL

-----------------------------------------------------------------------------
Powers == {1, 2, 4, 8, 16, 32, 64, 128}

LEMMA PowerOf ==
    ASSUME NEW e \in 0..7
    PROVE  2^e \in Powers
<1>1. CASE e = 0
  BY <1>1 DEF Powers
<1>2. CASE e = 1
  BY <1>2 DEF Powers
<1>3. CASE e = 2
  BY <1>3 DEF Powers
<1>4. CASE e = 3
  BY <1>4 DEF Powers
<1>5. CASE e = 4
  BY <1>5 DEF Powers
<1>6. CASE e = 5
  BY <1>6 DEF Powers
<1>7. CASE e = 6
  BY <1>7 DEF Powers
<1>8. CASE e = 7
  BY <1>8 DEF Powers
<1>9. QED BY <1>1, <1>2, <1>3, <1>4, <1>5, <1>6, <1>7, <1>8

LEMMA FreqIs == ASSUME NEW i PROVE Freq(i) \in Powers
<1>1. RdDisplayExp \in 0..7 /\ RdBoardExp \in 0..7
  BY ReaderAssumption
<1>2. QED BY <1>1, PowerOf DEF Freq

(* The values of an encoder are those of W bits.                           *)
W == 2^RdWidth
Half == 2^(RdWidth - 1)

LEMMA WidthIs == W \in {4, 8, 16, 32, 64, 128, 256} /\ W = 2 * Half /\ Half \in Powers \ {1}
<1>1. RdWidth \in 2..8
  BY ReaderAssumption
<1>2. CASE RdWidth = 2
  BY <1>2 DEF W, Half, Powers
<1>3. CASE RdWidth = 3
  BY <1>3 DEF W, Half, Powers
<1>4. CASE RdWidth = 4
  BY <1>4 DEF W, Half, Powers
<1>5. CASE RdWidth = 5
  BY <1>5 DEF W, Half, Powers
<1>6. CASE RdWidth = 6
  BY <1>6 DEF W, Half, Powers
<1>7. CASE RdWidth = 7
  BY <1>7 DEF W, Half, Powers
<1>8. CASE RdWidth = 8
  BY <1>8 DEF W, Half, Powers
<1>9. QED BY <1>1, <1>2, <1>3, <1>4, <1>5, <1>6, <1>7, <1>8

LEMMA MaxOf ==
    ASSUME NEW a \in Int, NEW b \in Int
    PROVE  /\ Max({a, b}) \in {a, b} /\ Max({a, b}) >= a /\ Max({a, b}) >= b
<1>1. PICK m \in {a, b} : \A y \in {a, b} : m >= y
  <2>1. CASE a >= b
    BY <2>1
  <2>2. CASE ~(a >= b)
    BY <2>2
  <2>3. QED BY <2>1, <2>2
<1>2. QED BY <1>1 DEF Max

LEMMA MinOf ==
    ASSUME NEW a \in Int, NEW b \in Int
    PROVE  /\ Min({a, b}) \in {a, b} /\ Min({a, b}) <= a /\ Min({a, b}) <= b
<1>1. PICK m \in {a, b} : \A y \in {a, b} : m <= y
  <2>1. CASE a <= b
    BY <2>1
  <2>2. CASE ~(a <= b)
    BY <2>2
  <2>3. QED BY <2>1, <2>2
<1>2. QED BY <1>1 DEF Min

(* Intervals.                                                              *)
LEMMA IntervalIs ==
    ASSUME NEW f \in Powers, NEW m \in Powers, f <= m
    PROVE  m \div f \in Powers /\ f * (m \div f) = m
BY DEF Powers

(* One tick more: an item whose interval divides it is read once more.     *)
Even(r, n, t) == r * t >= n /\ (r - 1) * t < n

LEMMA OneMore ==
    ASSUME NEW t \in Powers, NEW r \in Nat, NEW n \in Nat, Even(r, n, t)
    PROVE  /\ n % t = 0 => Even(r + 1, n + 1, t)
           /\ n % t # 0 => Even(r, n + 1, t)
BY DEF Powers, Even

LEMMA Cong ==
    ASSUME NEW a \in Int, NEW b \in Int, a % W = 0, b % W = 0
    PROVE  (a + b) % W = 0 /\ (a - b) % W = 0
<1>1. W \in {4, 8, 16, 32, 64, 128, 256}
  BY WidthIs
<1> HIDE DEF W
<1>2. QED BY <1>1

LEMMA WrapsTo ==
    ASSUME NEW v \in Int, NEW h \in {2, 4, 8, 16, 32, 64, 128}
    PROVE  LET r == ((v + h) % (2 * h)) - h
           IN  r \in -h..h - 1 /\ (r - v) % (2 * h) = 0
<1>1. CASE h = 2
  BY <1>1
<1>2. CASE h = 4
  BY <1>2
<1>3. CASE h = 8
  BY <1>3
<1>4. CASE h = 16
  BY <1>4
<1>5. CASE h = 32
  BY <1>5
<1>6. CASE h = 64
  BY <1>6
<1>7. CASE h = 128
  BY <1>7
<1>8. QED BY <1>1, <1>2, <1>3, <1>4, <1>5, <1>6, <1>7

LEMMA WrappedIs ==
    ASSUME NEW v \in Int
    PROVE  Wrapped(v) \in -Half..Half - 1 /\ (Wrapped(v) - v) % W = 0
<1>1. W = 2 * Half /\ Half \in {2, 4, 8, 16, 32, 64, 128}
  BY WidthIs DEF Powers
<1>2. Wrapped(v) = ((v + Half) % W) - Half
  BY DEF Wrapped, W, Half
<1>3. Wrapped(v) = ((v + Half) % (2 * Half)) - Half
  BY <1>1, <1>2, Zenon
<1>4. LET r == ((v + Half) % (2 * Half)) - Half
      IN  r \in -Half..Half - 1 /\ (r - v) % (2 * Half) = 0
  BY <1>1, WrapsTo, Zenon
<1>5. QED BY <1>1, <1>3, <1>4, Zenon

LEMMA NearZero ==
    ASSUME NEW a \in Int, NEW e \in Int, (a - e) % W = 0
    PROVE  Min({a % W, W - (a % W)}) <= Abs(e)
<1>1. W \in {4, 8, 16, 32, 64, 128, 256}
  BY WidthIs
<1> DEFINE r == a % W
           m == Min({r, W - r})
<1> HIDE DEF W
<1>2. r \in 0..W - 1 /\ W - r \in Int
  BY <1>1
<1>3. m <= r /\ m <= W - r /\ m \in {r, W - r}
  <2>1. r \in Int
    BY <1>1
  <2>2. QED BY <1>2, <2>1, MinOf, Zenon
<1>4. e >= 0 => r <= e
  BY <1>1
<1>5. e < 0 => W - r <= -e
  BY <1>1
<1>6. W \in Int
  BY <1>1
<1>7. m <= Abs(e)
  <2> HIDE DEF r, m
  <2>1. QED BY <1>2, <1>3, <1>4, <1>5, <1>6 DEF Abs
<1>8. QED BY <1>7

(* Steps of the knob.                                                      *)
(* What a failed read counts at a position: it takes the contacts for 0.   *)
Lead(p) == IF p % 4 = 3 THEN 1 ELSE 0

LEMMA TurnedBy ==
    ASSUME NEW s \in Int, NEW p \in Int
    PROVE  LET moved == (p \div 2) - (s \div 2)
               read == Table[Contacts(s) * 4 + Contacts(p) + 1] - moved
               again == Table[Contacts(p) + 1] - moved + Lead(s)
           IN  /\ read \in Int /\ again \in Int
               /\ Abs(read) <= 0 \/ Abs(read) <= Abs(p - s) - 1
               /\ Abs(again) <= 1 \/ Abs(again) <= Abs(p - s)
<1>1. s % 4 \in 0..3 /\ p % 4 \in 0..3
  OBVIOUS
<1> DEFINE a == s \div 4
           b == p \div 4
<1>2. a \in Int /\ s = 4 * a + (s % 4)
  OBVIOUS
<1>3. b \in Int /\ p = 4 * b + (p % 4)
  OBVIOUS
<1> HIDE DEF a, b
<1>4. CASE s % 4 = 0
  <2>1. CASE p % 4 = 0
    BY <1>2, <1>3, <1>4, <2>1 DEF Contacts, Table, Abs, Lead
  <2>2. CASE p % 4 = 1
    BY <1>2, <1>3, <1>4, <2>2 DEF Contacts, Table, Abs, Lead
  <2>3. CASE p % 4 = 2
    BY <1>2, <1>3, <1>4, <2>3 DEF Contacts, Table, Abs, Lead
  <2>4. CASE p % 4 = 3
    BY <1>2, <1>3, <1>4, <2>4 DEF Contacts, Table, Abs, Lead
  <2>5. QED BY <1>1, <2>1, <2>2, <2>3, <2>4
<1>5. CASE s % 4 = 1
  <2>1. CASE p % 4 = 0
    BY <1>2, <1>3, <1>5, <2>1 DEF Contacts, Table, Abs, Lead
  <2>2. CASE p % 4 = 1
    BY <1>2, <1>3, <1>5, <2>2 DEF Contacts, Table, Abs, Lead
  <2>3. CASE p % 4 = 2
    BY <1>2, <1>3, <1>5, <2>3 DEF Contacts, Table, Abs, Lead
  <2>4. CASE p % 4 = 3
    BY <1>2, <1>3, <1>5, <2>4 DEF Contacts, Table, Abs, Lead
  <2>5. QED BY <1>1, <2>1, <2>2, <2>3, <2>4
<1>6. CASE s % 4 = 2
  <2>1. CASE p % 4 = 0
    BY <1>2, <1>3, <1>6, <2>1 DEF Contacts, Table, Abs, Lead
  <2>2. CASE p % 4 = 1
    BY <1>2, <1>3, <1>6, <2>2 DEF Contacts, Table, Abs, Lead
  <2>3. CASE p % 4 = 2
    BY <1>2, <1>3, <1>6, <2>3 DEF Contacts, Table, Abs, Lead
  <2>4. CASE p % 4 = 3
    BY <1>2, <1>3, <1>6, <2>4 DEF Contacts, Table, Abs, Lead
  <2>5. QED BY <1>1, <2>1, <2>2, <2>3, <2>4
<1>7. CASE s % 4 = 3
  <2>1. CASE p % 4 = 0
    BY <1>2, <1>3, <1>7, <2>1 DEF Contacts, Table, Abs, Lead
  <2>2. CASE p % 4 = 1
    BY <1>2, <1>3, <1>7, <2>2 DEF Contacts, Table, Abs, Lead
  <2>3. CASE p % 4 = 2
    BY <1>2, <1>3, <1>7, <2>3 DEF Contacts, Table, Abs, Lead
  <2>4. CASE p % 4 = 3
    BY <1>2, <1>3, <1>7, <2>4 DEF Contacts, Table, Abs, Lead
  <2>5. QED BY <1>1, <2>1, <2>2, <2>3, <2>4
<1>8. QED BY <1>1, <1>4, <1>5, <1>6, <1>7

LEMMA ContactsAre ==
    ASSUME NEW p \in Int
    PROVE  /\ Contacts(p) \in 0..3 /\ Lead(p) \in 0..1 /\ Lead(p) = Table[Contacts(p) * 4 + 1]
           /\ Contacts(p) = 0 => Lead(p) = 0
<1>1. p % 4 \in 0..3
  OBVIOUS
<1>2. QED BY <1>1 DEF Contacts, Table, Lead

(* Each item has its interval, is in the list once, and was read as often  *)
(* as it was due; no item is read before all are in the list.              *)
Item == [item : Items, intervall : Powers]
Complete == Len(list.items) = RdBoards + 1
Done(k) == tick.n + (IF tick.at >= k THEN 1 ELSE 0)

ListInv ==
    /\ list.items \in Seq(Item) /\ list.max \in Powers /\ Len(list.items) <= RdBoards + 1
    /\ \A k \in 1..Len(list.items) : Freq(list.items[k].item) * list.items[k].intervall = list.max
    /\ \A j, k \in 1..Len(list.items) : list.items[j].item = list.items[k].item => j = k

ReadInv ==
    /\ tick \in [n : Nat, at : Nat] /\ tick.n < list.max /\ tick.at <= RdBoards + 1
    /\ reads \in [Items -> Nat]
    /\ ~Complete => tick.n = 0 /\ tick.at = 0 /\ \A i \in Items : reads[i] = 0
    /\ \A k \in 1..Len(list.items) : Even(reads[list.items[k].item], Done(k), list.items[k].intervall)

(* The steps counted differ from the position by no more than was missed;  *)
(* after a failed read the contacts count as 0.                            *)
Off(lead, slack) ==
    \E e \in -missed..missed : /\ (handed + encoder.value - (seenAt \div 2) - lead - e) % W = 0
                               /\ Abs(e) + slack <= missed

CountInv ==
    \/ encoder.last % 4 = Contacts(seenAt) /\ Off(0, 0)
    \/ encoder.last % 4 = 0 /\ Off(Lead(seenAt), 1)

(* A press that the words show, or that they are still to show, is one that*)
(* the menu did not get yet.                                               *)
One(b) == IF b THEN 1 ELSE 0

KeysInv ==
    \A k \in RdKeys :
        forwarded[k] + One(k \in lastUp \cup buttonStatus) + One(k \in fingers \ buttonStatus)
            <= presses[k] + rdFailed

WordTypes ==
    /\ fingers \subseteq RdKeys /\ buttonStatus \subseteq RdKeys /\ lastUp \subseteq RdKeys
    /\ encoder \in [value : -Half..Half - 1, last : 0..15] /\ mainAt \in {"keys", "knob"}
    /\ position \in Int /\ handed \in Int /\ seenAt \in Int /\ missed \in Nat /\ rdFailed \in Nat
    /\ forwarded \in [RdKeys -> Nat] /\ presses \in [RdKeys -> Nat]

InputInv == ListInv /\ ReadInv /\ CountInv /\ KeysInv /\ WordTypes


LEMMA FactorIs ==
    ASSUME NEW f \in Powers, NEW t \in Powers, NEW m \in Powers, f * t = m
    PROVE  f <= m
BY DEF Powers

LEMMA EvenAtStart == ASSUME NEW t \in Powers PROVE Even(0, 0, t)
BY DEF Powers, Even

LEMMA ReaderConstants == RdBoards \in Nat
BY ReaderAssumption, Zenon

LEMMA ListIs ==
    ASSUME ListInv
    PROVE  /\ Len(list.items) \in Nat /\ DOMAIN list.items = 1..Len(list.items)
           /\ \A k \in 1..Len(list.items) : /\ list.items[k] \in Item
                                            /\ list.items[k].item \in Items
                                            /\ list.items[k].intervall \in Powers
<1>1. list.items \in Seq(Item)
  BY DEF ListInv
<1>2. Len(list.items) \in Nat /\ DOMAIN list.items = 1..Len(list.items)
  BY <1>1
<1>3. \A k \in 1..Len(list.items) : list.items[k] \in Item
  BY <1>1
<1>4. QED BY <1>2, <1>3 DEF Item

LEMMA AppendIs ==
    ASSUME NEW T, NEW s \in Seq(T), NEW x \in T
    PROVE  /\ s \o <<x>> \in Seq(T) /\ Len(s \o <<x>>) = Len(s) + 1
           /\ \A k \in 1..Len(s) : (s \o <<x>>)[k] = s[k]
           /\ (s \o <<x>>)[Len(s) + 1] = x
OBVIOUS

LEMMA StepSetScheduler ==
    ASSUME ListInv, ReadInv, SetScheduler
    PROVE  ListInv' /\ ReadInv'
<1> DEFINE n == Len(list.items)
<1>1. PICK i \in Items : i \notin {list.items[k].item : k \in DOMAIN list.items} /\ Add(i)
  BY DEF SetScheduler
<1>2. n <= RdBoards /\ tick' = tick /\ reads' = reads
  BY DEF SetScheduler
<1>3. /\ n \in Nat /\ DOMAIN list.items = 1..n
      /\ \A k \in 1..n : list.items[k] \in Item /\ list.items[k].item \in Items
      /\ \A k \in 1..n : list.items[k].intervall \in Powers
  BY ListIs
<1> DEFINE m == Max({list.max, Freq(i)})
           old == [k \in DOMAIN list.items |-> [list.items[k] EXCEPT !.intervall = m \div Freq(list.items[k].item)]]
           last == [item |-> i, intervall |-> m \div Freq(i)]
<1>4. m \in Powers /\ m >= list.max /\ m >= Freq(i)
  <2>1. list.max \in Powers /\ Freq(i) \in Powers
    BY FreqIs DEF ListInv
  <2>2. list.max \in Int /\ Freq(i) \in Int
    BY <2>1 DEF Powers
  <2>3. m \in {list.max, Freq(i)} /\ m >= list.max /\ m >= Freq(i)
    BY <2>2, MaxOf
  <2>4. QED BY <2>1, <2>3
<1>5. list' = [items |-> old \o <<last>>, max |-> m]
  BY <1>1 DEF Add
<1> HIDE DEF m
<1>6. ASSUME NEW j \in Items, Freq(j) <= m
      PROVE  m \div Freq(j) \in Powers /\ Freq(j) * (m \div Freq(j)) = m
  BY <1>4, <1>6, FreqIs, IntervalIs
<1>7. ASSUME NEW k \in 1..n PROVE Freq(list.items[k].item) <= m
  <2>1. Freq(list.items[k].item) * list.items[k].intervall = list.max /\ list.max \in Powers
    BY DEF ListInv
  <2>2. Freq(list.items[k].item) <= list.max
    BY <1>3, <2>1, FreqIs, FactorIs
  <2>3. Freq(list.items[k].item) \in Int /\ list.max \in Int /\ m \in Int
    BY <1>4, <2>1, FreqIs DEF Powers
  <2>4. QED BY <1>4, <2>2, <2>3
<1>8. ASSUME NEW k \in 1..n
      PROVE  /\ old[k] \in Item /\ old[k].item = list.items[k].item
             /\ Freq(old[k].item) * old[k].intervall = m
  <2>1. old[k] = [list.items[k] EXCEPT !.intervall = m \div Freq(list.items[k].item)]
    BY <1>3
  <2>2. list.items[k] \in Item /\ list.items[k].item \in Items
    BY <1>3
  <2>3. old[k].item = list.items[k].item /\ old[k].intervall = m \div Freq(list.items[k].item)
    BY <2>1, <2>2 DEF Item
  <2>4. old[k].intervall \in Powers /\ Freq(list.items[k].item) * old[k].intervall = m
    BY <1>6, <1>7, <2>2, <2>3
  <2>5. old[k] \in Item
    BY <2>1, <2>2, <2>3, <2>4 DEF Item
  <2>6. QED BY <2>3, <2>4, <2>5
<1>9. old \in Seq(Item) /\ Len(old) = n
  <2>1. old \in [1..n -> Item]
    BY <1>3, <1>8
  <2>2. QED BY <1>3, <2>1
<1>10. last \in Item /\ Freq(last.item) * last.intervall = m
  BY <1>4, <1>6 DEF Item
<1>11. \A k \in 1..n : list.items[k].item # i
  BY <1>1, <1>3
<1>12. last.item = i
  OBVIOUS
<1> HIDE DEF old, last, n
<1> DEFINE s == old \o <<last>>
<1>13. /\ s \in Seq(Item) /\ Len(s) = n + 1
       /\ \A k \in 1..n : s[k] = old[k]
       /\ s[n + 1] = last
  BY <1>9, <1>10, AppendIs
<1>14. list'.items = s /\ list'.max = m
  BY <1>5
<1> HIDE DEF s
<1>15. ASSUME NEW k \in 1..n + 1
       PROVE  /\ Freq(s[k].item) * s[k].intervall = m
              /\ s[k].intervall \in Powers
              /\ s[k].item = IF k = n + 1 THEN i ELSE list.items[k].item
  <2>1. CASE k = n + 1
    BY <1>10, <1>12, <1>13, <2>1 DEF Item
  <2>2. CASE k # n + 1
    <3>1. k \in 1..n
      BY <1>3, <2>2
    <3>2. s[k] = old[k]
      BY <1>13, <3>1
    <3>3. QED BY <1>8, <2>2, <3>1, <3>2 DEF Item
  <2>3. QED BY <2>1, <2>2
<1>16. ListInv'
  <2>1. \A k \in 1..n + 1 : Freq(s[k].item) * s[k].intervall = m
    BY <1>15
  <2>2. ASSUME NEW j \in 1..n + 1, NEW k \in 1..n + 1, s[j].item = s[k].item PROVE j = k
    <3>1. \A a, b \in 1..n : list.items[a].item = list.items[b].item => a = b
      BY DEF ListInv, n
    <3>2. (j # n + 1 => j \in 1..n) /\ (k # n + 1 => k \in 1..n)
      BY <1>3
    <3>3. QED BY <1>11, <1>15, <2>2, <3>1, <3>2
  <2>3. n + 1 <= RdBoards + 1
    BY <1>2, <1>3, ReaderConstants
  <2>4. QED BY <1>4, <1>13, <1>14, <2>1, <2>2, <2>3 DEF ListInv
<1>17. ReadInv'
  <2>1. tick.n = 0 /\ tick.at = 0 /\ \A j \in Items : reads[j] = 0
    <3>1. ~Complete
      BY <1>2, <1>3, ReaderConstants DEF Complete, n
    <3>2. QED BY <3>1 DEF ReadInv
  <2>2. ASSUME NEW k \in 1..n + 1 PROVE Even(reads[s[k].item], Done(k), s[k].intervall)
    <3>1. Done(k) = 0
      BY <1>3, <2>1 DEF Done
    <3>2. s[k].item \in Items
      BY <1>3, <1>15
    <3>3. QED BY <1>15, <2>1, <3>1, <3>2, EvenAtStart
  <2>3. \A k : Done(k)' = Done(k)
    BY <1>2 DEF Done
  <2>4. 0 < m
    BY <1>4 DEF Powers
  <2>5. \A k \in 1..Len(list'.items) :
          Even(reads'[list'.items[k].item], Done(k)', list'.items[k].intervall)
    BY <1>2, <1>13, <1>14, <2>2, <2>3
  <2>6. QED BY <1>2, <1>14, <2>1, <2>4, <2>5 DEF ReadInv
<1>18. QED BY <1>16, <1>17

LEMMA StepTick ==
    ASSUME ListInv, ReadInv, Tick
    PROVE  ListInv' /\ ReadInv'
<1> DEFINE n == Len(list.items)
           k == tick.at + 1
           i == list.items[k].item
           t == list.items[k].intervall
<1>1. /\ n = RdBoards + 1 /\ tick.at < RdBoards + 1 /\ list' = list
      /\ tick' = [tick EXCEPT !.at = @ + 1]
      /\ reads' = IF Due(k) THEN [reads EXCEPT ![i] = @ + 1] ELSE reads
  BY DEF Tick
<1>2. /\ tick \in [n : Nat, at : Nat] /\ tick.n \in Nat /\ tick.at \in Nat /\ tick.n < list.max
      /\ reads \in [Items -> Nat]
  BY DEF ReadInv
<1>3. tick'.n = tick.n /\ tick'.at = tick.at + 1 /\ tick' \in [n : Nat, at : Nat]
  BY <1>1, <1>2
<1>4. k \in 1..n /\ tick.at + 1 <= RdBoards + 1
  BY <1>1, <1>2, ReaderConstants
<1>5. /\ \A j \in 1..n : list.items[j].item \in Items /\ list.items[j].intervall \in Powers
      /\ \A j \in 1..n : list.items[j].item = i => j = k
      /\ n \in Nat
  BY <1>4, ListIs DEF ListInv
<1>6. reads' \in [Items -> Nat] /\ \A j \in Items \ {i} : reads'[j] = reads[j]
  BY <1>1, <1>2, <1>4, <1>5
<1>7. ListInv'
  BY <1>1 DEF ListInv
<1>8. ASSUME NEW j \in 1..n
      PROVE  Even(reads'[list.items[j].item], Done(j)', list.items[j].intervall)
  <2>1. Even(reads[list.items[j].item], Done(j), list.items[j].intervall)
    BY DEF ReadInv
  <2>2. CASE j # k
    <3>1. Done(j)' = Done(j)
      BY <1>2, <1>3, <2>2 DEF Done
    <3>2. reads'[list.items[j].item] = reads[list.items[j].item]
      BY <1>5, <1>6, <2>2
    <3>3. QED BY <2>1, <3>1, <3>2
  <2>3. CASE j = k
    <3>1. Done(j) = tick.n /\ Done(j)' = tick.n + 1
      BY <1>2, <1>3, <2>3 DEF Done
    <3>2. reads[i] \in Nat /\ t \in Powers
      BY <1>2, <1>4, <1>5
    <3>3. reads'[i] = IF tick.n % t = 0 THEN reads[i] + 1 ELSE reads[i]
      BY <1>1, <1>2, <1>4, <1>5 DEF Due
    <3>4. Even(reads[i], tick.n, t)
      BY <2>1, <2>3, <3>1
    <3> HIDE DEF i, t
    <3>5. Even(reads'[i], tick.n + 1, t)
      BY <1>2, <3>2, <3>3, <3>4, OneMore
    <3>6. QED BY <2>3, <3>1, <3>5 DEF i, t
  <2>4. QED BY <2>2, <2>3
<1>9. ReadInv'
  <2>1. Complete'
    BY <1>1 DEF Complete
  <2>2. QED BY <1>1, <1>2, <1>3, <1>4, <1>6, <1>8, <2>1 DEF ReadInv
<1>10. QED BY <1>7, <1>9

LEMMA NextTick ==
    ASSUME NEW m \in Powers, NEW n \in Nat, n < m
    PROVE  /\ (n + 1) % m \in Nat /\ (n + 1) % m < m
           /\ (n + 1) % m # 0 => (n + 1) % m = n + 1
BY DEF Powers

LEMMA StepSleepUntil ==
    ASSUME ListInv, ReadInv, SleepUntil
    PROVE  ListInv' /\ ReadInv'
<1> DEFINE n == Len(list.items)
<1>1. /\ tick.at = RdBoards + 1 /\ list' = list
      /\ tick' = [n |-> (tick.n + 1) % list.max, at |-> 0]
      /\ reads' = IF tick'.n = 0 THEN [i \in Items |-> 0] ELSE reads
  BY DEF SleepUntil
<1>2. /\ tick.n \in Nat /\ tick.at \in Nat /\ tick.n < list.max /\ list.max \in Powers
      /\ reads \in [Items -> Nat]
  BY DEF ReadInv, ListInv
<1>3. Complete /\ Complete' /\ n = RdBoards + 1
  <2>1. Complete
    BY <1>1, ReaderConstants DEF ReadInv
  <2>2. QED BY <1>1, <2>1 DEF Complete
<1>4. /\ tick'.n \in Nat /\ tick'.n < list.max /\ tick'.at = 0
      /\ tick'.n # 0 => tick'.n = tick.n + 1
  BY <1>1, <1>2, NextTick
<1>5. ListInv'
  BY <1>1 DEF ListInv
<1>6. ASSUME NEW j \in 1..n
      PROVE  Even(reads'[list.items[j].item], Done(j)', list.items[j].intervall)
  <2>1. list.items[j].item \in Items /\ list.items[j].intervall \in Powers
    BY ListIs
  <2>2. Done(j)' = tick'.n
    BY <1>4 DEF Done
  <2>3. CASE tick'.n = 0
    <3>1. reads'[list.items[j].item] = 0
      BY <1>1, <2>1, <2>3
    <3>2. QED BY <2>1, <2>2, <2>3, <3>1, EvenAtStart
  <2>4. CASE tick'.n # 0
    <3>1. Done(j) = tick.n + 1
      BY <1>1, <1>3, ReaderConstants DEF Done
    <3>2. Done(j)' = Done(j) /\ reads' = reads
      BY <1>1, <1>4, <2>2, <2>4, <3>1
    <3>3. QED BY <3>2 DEF ReadInv
  <2>5. QED BY <2>3, <2>4
<1>7. ReadInv'
  <2>1. reads' \in [Items -> Nat]
    BY <1>1, <1>2
  <2>2. tick' \in [n : Nat, at : Nat] /\ tick'.at <= RdBoards + 1
    BY <1>1, <1>4, ReaderConstants
  <2>3. QED BY <1>1, <1>3, <1>4, <1>6, <2>1, <2>2 DEF ReadInv
<1>8. QED BY <1>5, <1>7


(* The words: what a read does to the encoder and to the keys.             *)
LEMMA TableIs ==
    ASSUME NEW c \in 0..3, NEW b \in 0..3
    PROVE  Table[c * 4 + b + 1] \in {-1, 0, 1}
BY DEF Table

LEMMA UpdateValueIs ==
    ASSUME WordTypes, NEW b \in 0..3, UpdateValue(b)
    PROVE  /\ encoder' \in [value : -Half..Half - 1, last : 0..15]
           /\ encoder'.last % 4 = b
           /\ Table[(encoder.last % 4) * 4 + b + 1] \in Int
           /\ (encoder'.value - (encoder.value + Table[(encoder.last % 4) * 4 + b + 1])) % W = 0
<1> DEFINE c == encoder.last % 4
           last == c * 4 + b
           v == encoder.value + Table[last + 1]
<1>1. encoder.value \in -Half..Half - 1 /\ encoder.last \in 0..15 /\ Half \in Int
  BY WidthIs DEF WordTypes, Powers
<1>2. c \in 0..3
  BY <1>1
<1> HIDE DEF c
<1>3. last \in 0..15 /\ last % 4 = b
  BY <1>2
<1>4. Table[last + 1] \in Int
  BY <1>2, TableIs
<1>5. v \in Int
  BY <1>1, <1>4
<1>6. encoder' = [value |-> Wrapped(v), last |-> last]
  BY DEF UpdateValue, c
<1>7. Wrapped(v) \in -Half..Half - 1 /\ (Wrapped(v) - v) % W = 0
  BY <1>5, WrappedIs
<1> HIDE DEF v, last
<1>8. encoder'.value = Wrapped(v) /\ encoder'.last = last
  BY <1>6
<1>9. encoder' \in [value : -Half..Half - 1, last : 0..15]
  BY <1>3, <1>6, <1>7
<1>10. QED BY <1>3, <1>4, <1>7, <1>8, <1>9 DEF v, last, c

LEMMA RangeIs ==
    ASSUME NEW e \in Int, NEW slack \in Nat, NEW m \in Nat, Abs(e) + slack <= m
    PROVE  e \in -m..m
BY DEF Abs

LEMMA AbsNat == ASSUME NEW a \in Int PROVE Abs(a) \in Nat
BY DEF Abs

LEMMA AbsIs ==
    ASSUME NEW a \in Int, NEW b \in Int
    PROVE  Abs(a) \in Nat /\ Abs(a + b) <= Abs(a) + Abs(b)
BY DEF Abs

LEMMA GoodReadCounts ==
    ASSUME CountInv, WordTypes, UpdateValue(Contacts(position)), seenAt' = position,
           missed' = missed + Max({0, Abs(position - seenAt) - 1}), handed' = handed
    PROVE  CountInv' /\ missed' \in Nat
<1> DEFINE s == seenAt
           p == position
           c == encoder.last % 4
           d == Table[c * 4 + Contacts(p) + 1]
           more == Max({0, Abs(p - s) - 1})
<1>1. /\ s \in Int /\ p \in Int /\ missed \in Nat /\ handed \in Int
      /\ encoder.value \in -Half..Half - 1 /\ Half \in Int
  BY WidthIs DEF WordTypes, Powers
<1>2. encoder.value \in Int
  BY <1>1
<1>3. Contacts(s) \in 0..3 /\ Contacts(p) \in 0..3 /\ Lead(s) \in 0..1
  BY <1>1, ContactsAre
<1>4. /\ encoder' \in [value : -Half..Half - 1, last : 0..15]
      /\ encoder'.last % 4 = Contacts(p)
      /\ d \in Int
      /\ (encoder'.value - (encoder.value + d)) % W = 0
  BY <1>3, UpdateValueIs
<1>5. encoder'.value \in Int
  BY <1>1, <1>4
<1>6. more \in Nat /\ more >= Abs(p - s) - 1
  <2>1. Abs(p - s) - 1 \in Int
    <3>1. p - s \in Int
      BY <1>1
    <3>2. Abs(p - s) \in Nat
      BY <3>1, AbsNat
    <3>3. QED BY <3>2
  <2>2. more \in {0, Abs(p - s) - 1} /\ more >= 0 /\ more >= Abs(p - s) - 1
    BY <2>1, MaxOf
  <2>3. QED BY <2>1, <2>2
<1>7. missed' = missed + more /\ missed' \in Nat
  BY <1>1, <1>6
<1>8. PICK e \in Int, lead \in {0, 1}, slack \in {0, 1} :
          /\ (handed + encoder.value - (s \div 2) - lead - e) % W = 0
          /\ Abs(e) + slack <= missed
          /\ \/ lead = 0 /\ slack = 0 /\ c = Contacts(s)
             \/ lead = Lead(s) /\ slack = 1 /\ c = 0
  <2>1. CASE c = Contacts(s) /\ Off(0, 0)
    BY <1>1, <2>1 DEF Off
  <2>2. CASE c = 0 /\ Off(Lead(s), 1)
    BY <1>1, <1>3, <2>2 DEF Off
  <2>3. QED BY <2>1, <2>2 DEF CountInv
<1> DEFINE moved == (p \div 2) - (s \div 2)
           f == d - moved + lead
           g == e + f
<1>9. moved \in Int /\ f \in Int /\ g \in Int
  BY <1>1, <1>4
<1>10. Abs(f) <= slack + more
  <2>1. LET read == Table[Contacts(s) * 4 + Contacts(p) + 1] - moved
            again == Table[Contacts(p) + 1] - moved + Lead(s)
        IN  /\ read \in Int /\ again \in Int
            /\ Abs(read) <= 0 \/ Abs(read) <= Abs(p - s) - 1
            /\ Abs(again) <= 1 \/ Abs(again) <= Abs(p - s)
    BY <1>1, TurnedBy
  <2>2. CASE lead = 0 /\ slack = 0 /\ c = Contacts(s)
    <3>1. f = Table[Contacts(s) * 4 + Contacts(p) + 1] - moved
      BY <1>4, <1>9, <2>2
    <3>2. Abs(f) <= 0 \/ Abs(f) <= Abs(p - s) - 1
      BY <2>1, <3>1
    <3> HIDE DEF f, more, moved
    <3>3. Abs(f) \in Nat /\ Abs(p - s) \in Nat
      <4>1. p - s \in Int
        BY <1>1
      <4>2. QED BY <1>9, <4>1, AbsNat
    <3>4. QED BY <1>6, <2>2, <3>2, <3>3
  <2>3. CASE lead = Lead(s) /\ slack = 1 /\ c = 0
    <3>1. d = Table[Contacts(p) + 1]
      <4>1. 0 * 4 + Contacts(p) + 1 = Contacts(p) + 1
        BY <1>3
      <4>2. QED BY <2>3, <4>1
    <3>2. f = Table[Contacts(p) + 1] - moved + Lead(s)
      BY <2>3, <3>1
    <3>3. Abs(f) <= 1 \/ Abs(f) <= Abs(p - s)
      BY <2>1, <3>2
    <3> HIDE DEF f, more, moved
    <3>4. Abs(f) \in Nat /\ Abs(p - s) \in Nat
      <4>1. p - s \in Int
        BY <1>1
      <4>2. QED BY <1>9, <4>1, AbsNat
    <3>5. QED BY <1>6, <2>3, <3>3, <3>4
  <2>4. QED BY <1>8, <2>2, <2>3
<1>11. Abs(g) <= missed'
  <2> HIDE DEF f, more
  <2>1. Abs(e + f) <= Abs(e) + Abs(f) /\ Abs(e) \in Nat /\ Abs(f) \in Nat /\ Abs(e + f) \in Nat
    BY <1>9, AbsIs
  <2>2. QED BY <1>1, <1>6, <1>7, <1>8, <1>10, <2>1
<1>12. (handed + encoder'.value - (p \div 2) - g) % W = 0
  <2> DEFINE a == (s \div 2) + lead
             b == p \div 2
  <2>1. a \in Int /\ b \in Int
    BY <1>1
  <2>2. handed + encoder.value - a - e = handed + encoder.value - (s \div 2) - lead - e
    BY <1>1, <1>2
  <2>3. g = e + d + a - b
    BY <1>1, <1>4
  <2>4. (handed + encoder.value - a - e) % W = 0
    BY <1>8, <2>2
  <2> HIDE DEF a, b, g, d
  <2>5. (handed + encoder'.value - b - g) % W = 0
    <3>1. d \in Int /\ (encoder'.value - (encoder.value + d)) % W = 0
      BY <1>4 DEF d
    <3>2. handed \in Int /\ encoder.value \in Int /\ encoder'.value \in Int /\ e \in Int /\ g \in Int
      BY <1>1, <1>2, <1>5, <1>9
    <3> DEFINE x == handed + encoder.value - a - e
               y == encoder'.value - (encoder.value + d)
    <3>3. x \in Int /\ y \in Int /\ x % W = 0 /\ y % W = 0
      BY <2>1, <2>4, <3>1, <3>2
    <3>4. x + y = handed + encoder'.value - b - g
      BY <2>1, <2>3, <3>1, <3>2
    <3> HIDE DEF x, y
    <3>5. (x + y) % W = 0
      BY <3>3, Cong
    <3>6. QED BY <3>4, <3>5
  <2>6. QED BY <2>5 DEF b
<1>13. Off(0, 0)'
  <2> HIDE DEF g, more
  <2>1. Abs(g) \in Nat
    BY <1>9, AbsIs
  <2>2. Abs(g) + 0 <= missed' /\ g \in -missed'..missed'
    BY <1>7, <1>9, <1>11, <2>1, RangeIs
  <2>3. handed + encoder'.value - (p \div 2) - 0 - g = handed + encoder'.value - (p \div 2) - g
    BY <1>1, <1>5, <1>9
  <2>4. (handed' + encoder'.value - (seenAt' \div 2) - 0 - g) % W = 0
    BY <1>12, <2>3
  <2>5. QED BY <2>2, <2>4 DEF Off, W
<1>14. encoder'.last % 4 = Contacts(seenAt')
  BY <1>4
<1>15. QED BY <1>7, <1>13, <1>14 DEF CountInv, Contacts

LEMMA FailedReadCounts ==
    ASSUME CountInv, WordTypes, UpdateValue(0) \/ encoder' = encoder, seenAt' = seenAt,
           missed' = missed + 1, handed' = handed
    PROVE  CountInv' /\ missed' \in Nat
<1> DEFINE s == seenAt
           c == encoder.last % 4
           sum == handed + encoder.value - (s \div 2)
           sum2 == handed + encoder'.value - (s \div 2)
<1>1. /\ s \in Int /\ missed \in Nat /\ handed \in Int
      /\ encoder.value \in -Half..Half - 1 /\ Half \in Int
  BY WidthIs DEF WordTypes, Powers
<1>2. encoder.value \in Int /\ sum \in Int /\ missed' \in Nat
  BY <1>1
<1>3. Contacts(s) \in 0..3 /\ Lead(s) \in 0..1 /\ Lead(s) = Table[Contacts(s) * 4 + 1]
  BY <1>1, ContactsAre
<1>4. PICK e \in Int, lead \in {0, 1}, slack \in {0, 1} :
          /\ (sum - lead - e) % W = 0
          /\ Abs(e) + slack <= missed
          /\ \/ lead = 0 /\ slack = 0 /\ c = Contacts(s)
             \/ lead = Lead(s) /\ slack = 1 /\ c = 0
  <2>1. CASE c = Contacts(s) /\ Off(0, 0)
    BY <1>1, <2>1 DEF Off
  <2>2. CASE c = 0 /\ Off(Lead(s), 1)
    BY <1>1, <1>3, <2>2 DEF Off
  <2>3. QED BY <2>1, <2>2 DEF CountInv
<1>5. Abs(e) \in Nat
  BY AbsNat
<1>6. \A n \in {0, 1} : n <= slack + 1 => Abs(e) + n <= missed' /\ e \in -missed'..missed'
  <2>1. ASSUME NEW n \in {0, 1}, n <= slack + 1 PROVE Abs(e) + n <= missed'
    BY <1>1, <1>4, <1>5, <2>1
  <2>2. ASSUME NEW n \in {0, 1}, Abs(e) + n <= missed' PROVE e \in -missed'..missed'
    BY <1>2, <2>2, RangeIs
  <2>3. QED BY <2>1, <2>2
<1>7. CASE encoder' = encoder
  <2>1. Off(lead, slack)'
    <3>1. Abs(e) + slack <= missed' /\ e \in -missed'..missed'
      BY <1>6
    <3>2. (handed' + encoder'.value - (seenAt' \div 2) - lead - e) % W = 0
      <4>1. handed' = handed /\ encoder'.value = encoder.value /\ seenAt' = s
        BY <1>7
      <4>2. handed' + encoder'.value - (seenAt' \div 2) - lead - e = sum - lead - e
        BY <1>1, <1>2, <4>1
      <4>3. QED BY <1>4, <4>2
    <3>3. QED BY <3>1, <3>2 DEF Off, W
  <2>2. \/ Off(0, 0)' /\ c = Contacts(s)
        \/ Off(Lead(s), 1)' /\ c = 0
    BY <1>4, <2>1
  <2>3. encoder'.last % 4 = c /\ seenAt' = s
    BY <1>7
  <2>4. QED BY <1>2, <2>2, <2>3 DEF CountInv, Off, Contacts, Lead
<1>8. CASE UpdateValue(0)
  <2> DEFINE d == Table[c * 4 + 0 + 1]
  <2>1. /\ encoder' \in [value : -Half..Half - 1, last : 0..15]
        /\ encoder'.last % 4 = 0
        /\ d \in Int
        /\ (encoder'.value - (encoder.value + d)) % W = 0
    BY <1>8, UpdateValueIs
  <2>2. encoder'.value \in Int
    BY <1>1, <2>1
  <2>3. d = Lead(s) - lead
    <3>1. CASE lead = 0 /\ c = Contacts(s)
      <4>1. Contacts(s) * 4 + 0 + 1 = Contacts(s) * 4 + 1
        BY <1>3
      <4>2. QED BY <1>3, <3>1, <4>1
    <3>2. CASE lead = Lead(s) /\ c = 0
      <4>1. d = 0
        BY <3>2 DEF Table
      <4>2. QED BY <1>3, <3>2, <4>1
    <3>3. QED BY <1>4, <3>1, <3>2
  <2>4. (sum2 - Lead(s) - e) % W = 0
    <3> DEFINE x == sum - lead - e
               y == encoder'.value - (encoder.value + d)
    <3>1. x \in Int /\ y \in Int /\ x % W = 0 /\ y % W = 0
      BY <1>2, <1>4, <2>1, <2>2
    <3>2. x + y = sum2 - Lead(s) - e
      <4>1. d \in Int /\ lead \in Int /\ Lead(s) \in Int /\ e \in Int
        BY <1>3, <1>4, <2>1
      <4> HIDE DEF d
      <4>2. QED BY <1>1, <1>2, <2>2, <2>3, <4>1
    <3> HIDE DEF x, y
    <3>3. (x + y) % W = 0
      BY <3>1, Cong
    <3>4. QED BY <3>2, <3>3
  <2>5. Abs(e) + 1 <= missed' /\ e \in -missed'..missed'
    BY <1>6
  <2>6. Off(Lead(s), 1)'
    <3>1. (handed' + encoder'.value - (seenAt' \div 2) - Lead(seenAt') - e) % W = 0
      <4>1. handed' = handed /\ seenAt' = s /\ Lead(seenAt') = Lead(s) /\ Lead(s) \in Int
        BY <1>3
      <4>2. handed' + encoder'.value - (seenAt' \div 2) - Lead(seenAt') - e = sum2 - Lead(s) - e
        BY <1>1, <2>2, <4>1
      <4>3. QED BY <2>4, <4>2
    <3>2. QED BY <2>5, <3>1 DEF Off, W, Lead
  <2>7. QED BY <1>2, <2>1, <2>6 DEF CountInv, Off, Lead
<1>9. QED BY <1>7, <1>8

LEMMA CountStays ==
    ASSUME CountInv, UNCHANGED <<handed, encoder, seenAt, missed>>
    PROVE  CountInv'
<1>1. \A lead, slack : Off(lead, slack)' = Off(lead, slack)
  BY DEF Off, W
<1>2. encoder' = encoder /\ Contacts(seenAt)' = Contacts(seenAt) /\ Lead(seenAt)' = Lead(seenAt)
  BY DEF Contacts, Lead
<1>3. (Off(0, 0)' <=> Off(0, 0)) /\ (Off(Lead(seenAt), 1)' <=> Off(Lead(seenAt), 1))
  BY DEF Off, W, Lead
<1>4. QED BY <1>2, <1>3 DEF CountInv

LEMMA ListStays ==
    ASSUME ListInv, ReadInv, UNCHANGED reader
    PROVE  ListInv' /\ ReadInv'
BY DEF reader, ListInv, ReadInv, Complete, Done

LEMMA KeysAre ==
    ASSUME WordTypes, NEW k \in RdKeys
    PROVE  forwarded[k] \in Nat /\ presses[k] \in Nat /\ rdFailed \in Nat
BY DEF WordTypes

(* A read of the keys, good or failed.                                     *)
LEMMA KeysRead ==
    ASSUME KeysInv, WordTypes, UNCHANGED <<fingers, lastUp, forwarded, presses>>,
           \/ buttonStatus' = fingers /\ rdFailed' = rdFailed
           \/ buttonStatus' \in {{}, buttonStatus} /\ rdFailed' = rdFailed + 1
    PROVE  KeysInv'
<1> SUFFICES ASSUME NEW k \in RdKeys
             PROVE  forwarded[k] + One(k \in lastUp \cup buttonStatus') + One(k \in fingers \ buttonStatus')
                        <= presses[k] + rdFailed'
  BY DEF KeysInv
<1>1. forwarded[k] \in Nat /\ presses[k] \in Nat /\ rdFailed \in Nat
  BY KeysAre
<1>2. forwarded[k] + One(k \in lastUp \cup buttonStatus) + One(k \in fingers \ buttonStatus)
        <= presses[k] + rdFailed
  BY DEF KeysInv
<1>3. CASE buttonStatus' = fingers /\ rdFailed' = rdFailed
  BY <1>1, <1>2, <1>3 DEF One
<1>4. CASE buttonStatus' \in {{}, buttonStatus} /\ rdFailed' = rdFailed + 1
  BY <1>1, <1>2, <1>4 DEF One
<1>5. QED BY <1>3, <1>4

LEMMA StepRead ==
    ASSUME CountInv, KeysInv, WordTypes, ReadButtonStatus,
           UNCHANGED <<fingers, position, lastUp, mainAt, handed, forwarded, presses>>
    PROVE  CountInv' /\ KeysInv' /\ WordTypes'
<1>1. CASE /\ buttonStatus' = fingers /\ UpdateValue(Contacts(position))
           /\ seenAt' = position
           /\ missed' = missed + Max({0, Abs(position - seenAt) - 1})
           /\ UNCHANGED rdFailed
  <2>1. CountInv' /\ missed' \in Nat
    BY <1>1, GoodReadCounts
  <2>2. KeysInv'
    BY <1>1, KeysRead
  <2>3. encoder' \in [value : -Half..Half - 1, last : 0..15]
    <3>1. Contacts(position) \in 0..3
      BY ContactsAre DEF WordTypes
    <3>2. QED BY <1>1, <3>1, UpdateValueIs
  <2>4. WordTypes'
    BY <1>1, <2>1, <2>3 DEF WordTypes, Half
  <2>5. QED BY <2>1, <2>2, <2>4
<1>2. CASE /\ rdFailed' = rdFailed + 1
           /\ \/ buttonStatus' = {} /\ UpdateValue(0)
              \/ UNCHANGED <<buttonStatus, encoder>>
           /\ missed' = missed + 1 /\ UNCHANGED seenAt
  <2>1. CountInv' /\ missed' \in Nat
    BY <1>2, FailedReadCounts
  <2>2. KeysInv'
    <3>1. buttonStatus' \in {{}, buttonStatus}
      BY <1>2
    <3>2. QED BY <1>2, <3>1, KeysRead
  <2>3. encoder' \in [value : -Half..Half - 1, last : 0..15]
    <3>1. CASE UpdateValue(0)
      BY <3>1, UpdateValueIs
    <3>2. CASE encoder' = encoder
      BY <3>2 DEF WordTypes
    <3>3. QED BY <1>2, <3>1, <3>2
  <2>4. buttonStatus' \subseteq RdKeys /\ rdFailed' \in Nat
    BY <1>2 DEF WordTypes
  <2>5. WordTypes'
    BY <1>2, <2>1, <2>3, <2>4 DEF WordTypes, Half
  <2>6. QED BY <2>1, <2>2, <2>5
<1>3. QED BY <1>1, <1>2 DEF ReadButtonStatus

LEMMA WordsStay ==
    ASSUME CountInv, KeysInv, WordTypes,
           UNCHANGED <<fingers, position, buttonStatus, lastUp, encoder, mainAt, handed, forwarded,
                       presses, rdFailed, seenAt, missed>>
    PROVE  CountInv' /\ KeysInv' /\ WordTypes'
<1>1. CountInv'
  BY CountStays
<1>2. KeysInv' /\ WordTypes'
  BY DEF KeysInv, WordTypes, Half
<1>3. QED BY <1>1, <1>2

(* The fingers, the knob and the main loop.                                *)
LEMMA StepFinger ==
    ASSUME CountInv, KeysInv, WordTypes, NEW k \in RdKeys, RdPress(k) \/ RdRelease(k)
    PROVE  CountInv' /\ KeysInv' /\ WordTypes' /\ UNCHANGED reader
<1>1. UNCHANGED <<list, tick, reads, position, buttonStatus, lastUp, encoder, mainAt, handed, forwarded,
                  rdFailed, seenAt, missed>>
  BY DEF RdPress, RdRelease, reader, words, menuSide, rdHistory
<1>2. /\ fingers' \subseteq RdKeys /\ presses' \in [RdKeys -> Nat]
      /\ \A j \in RdKeys : One(j \in fingers' \ buttonStatus) + presses[j] <= One(j \in fingers \ buttonStatus) + presses'[j]
  <2>1. CASE RdPress(k)
    <3>1. fingers' = fingers \cup {k} /\ presses' = [presses EXCEPT ![k] = @ + 1]
      BY <2>1 DEF RdPress
    <3>2. presses \in [RdKeys -> Nat] /\ fingers \subseteq RdKeys
      BY DEF WordTypes
    <3>3. presses' \in [RdKeys -> Nat] /\ fingers' \subseteq RdKeys
      BY <3>1, <3>2
    <3>4. ASSUME NEW j \in RdKeys
          PROVE  One(j \in fingers' \ buttonStatus) + presses[j] <= One(j \in fingers \ buttonStatus) + presses'[j]
      <4>1. CASE j = k
        <5>1. presses'[j] = presses[j] + 1 /\ presses[j] \in Nat
          BY <3>1, <3>2, <4>1
        <5>2. QED BY <5>1 DEF One
      <4>2. CASE j # k
        <5>1. presses'[j] = presses[j] /\ presses[j] \in Nat
          BY <3>1, <3>2, <4>2
        <5>2. (j \in fingers') = (j \in fingers)
          BY <3>1, <4>2
        <5>3. QED BY <5>1, <5>2 DEF One
      <4>3. QED BY <4>1, <4>2
    <3>5. QED BY <3>3, <3>4
  <2>2. CASE RdRelease(k)
    <3>1. fingers' = fingers \ {k} /\ presses' = presses
      BY <2>2 DEF RdRelease
    <3>2. QED BY <3>1 DEF WordTypes, One
  <2>3. QED BY <2>1, <2>2
<1>3. CountInv'
  BY <1>1, CountStays
<1>4. KeysInv'
  <2> SUFFICES ASSUME NEW j \in RdKeys
               PROVE  forwarded[j] + One(j \in lastUp \cup buttonStatus) + One(j \in fingers' \ buttonStatus)
                          <= presses'[j] + rdFailed
    BY <1>1 DEF KeysInv
  <2>1. forwarded[j] \in Nat /\ presses[j] \in Nat /\ rdFailed \in Nat /\ presses'[j] \in Nat
    BY <1>2, KeysAre
  <2>2. forwarded[j] + One(j \in lastUp \cup buttonStatus) + One(j \in fingers \ buttonStatus)
          <= presses[j] + rdFailed
    BY DEF KeysInv
  <2>3. QED BY <1>2, <2>1, <2>2 DEF One
<1>5. WordTypes'
  BY <1>1, <1>2 DEF WordTypes, Half
<1>6. QED BY <1>1, <1>3, <1>4, <1>5 DEF reader

LEMMA StepTurnKnob ==
    ASSUME CountInv, KeysInv, WordTypes, NEW d \in {-1, 1}, TurnKnob(d)
    PROVE  CountInv' /\ KeysInv' /\ WordTypes' /\ UNCHANGED reader
<1>1. /\ position' = position + d
      /\ UNCHANGED <<list, tick, reads, fingers, buttonStatus, lastUp, encoder, mainAt, handed, forwarded,
                     presses, rdFailed, seenAt, missed>>
  BY DEF TurnKnob, reader, words, menuSide, rdHistory
<1>2. CountInv'
  BY <1>1, CountStays
<1>3. KeysInv'
  BY <1>1 DEF KeysInv
<1>4. WordTypes'
  BY <1>1 DEF WordTypes, Half
<1>5. QED BY <1>1, <1>2, <1>3, <1>4 DEF reader

LEMMA StepForwardKeys ==
    ASSUME CountInv, KeysInv, WordTypes, ForwardKeys
    PROVE  CountInv' /\ KeysInv' /\ WordTypes' /\ UNCHANGED reader
<1>1. /\ mainAt' = "knob"
      /\ forwarded' = [k \in RdKeys |->
            IF k \in (Asked \cap lastUp) \ buttonStatus THEN forwarded[k] + 1 ELSE forwarded[k]]
      /\ lastUp' = (lastUp \ Asked) \cup (buttonStatus \cap Asked)
      /\ UNCHANGED <<list, tick, reads, fingers, position, buttonStatus, encoder, handed, presses, rdFailed,
                     seenAt, missed>>
  BY DEF ForwardKeys, reader, words, rdHistory
<1>2. CountInv'
  BY <1>1, CountStays
<1>3. forwarded' \in [RdKeys -> Nat] /\ lastUp' \subseteq RdKeys
  BY <1>1 DEF WordTypes, Asked
<1>4. KeysInv'
  <2> SUFFICES ASSUME NEW k \in RdKeys
               PROVE  forwarded'[k] + One(k \in lastUp' \cup buttonStatus) + One(k \in fingers \ buttonStatus)
                          <= presses[k] + rdFailed
    BY <1>1 DEF KeysInv
  <2>1. forwarded[k] \in Nat /\ presses[k] \in Nat /\ rdFailed \in Nat
    BY KeysAre
  <2>2. forwarded[k] + One(k \in lastUp \cup buttonStatus) + One(k \in fingers \ buttonStatus)
          <= presses[k] + rdFailed
    BY DEF KeysInv
  <2>3. forwarded'[k] + One(k \in lastUp' \cup buttonStatus) <= forwarded[k] + One(k \in lastUp \cup buttonStatus)
    <3>1. forwarded'[k] = IF k \in (Asked \cap lastUp) \ buttonStatus THEN forwarded[k] + 1 ELSE forwarded[k]
      BY <1>1
    <3>2. QED BY <1>1, <2>1, <3>1 DEF One
  <2>4. /\ forwarded'[k] \in Nat
        /\ One(k \in fingers \ buttonStatus) \in 0..1 /\ One(k \in lastUp \cup buttonStatus) \in 0..1
        /\ One(k \in lastUp' \cup buttonStatus) \in 0..1
    BY <1>3 DEF One
  <2>5. QED BY <2>1, <2>2, <2>3, <2>4
<1>5. WordTypes'
  BY <1>1, <1>3 DEF WordTypes, Half
<1>6. QED BY <1>1, <1>2, <1>4, <1>5 DEF reader

LEMMA StepRotaryChange ==
    ASSUME CountInv, KeysInv, WordTypes, RotaryChange
    PROVE  CountInv' /\ KeysInv' /\ WordTypes' /\ UNCHANGED reader
<1>1. /\ mainAt' = "keys" /\ handed' = handed + encoder.value
      /\ encoder' = [encoder EXCEPT !.value = 0]
      /\ UNCHANGED <<list, tick, reads, fingers, position, buttonStatus, lastUp, forwarded, presses, rdFailed,
                     seenAt, missed>>
  BY DEF RotaryChange, reader, rdHistory
<1>2. /\ encoder \in [value : -Half..Half - 1, last : 0..15] /\ Half \in Nat \ {0} /\ handed \in Int
      /\ seenAt \in Int /\ missed \in Nat /\ encoder.value \in Int
  BY WidthIs DEF WordTypes, Powers
<1>3. /\ encoder' \in [value : -Half..Half - 1, last : 0..15] /\ encoder'.value = 0
      /\ encoder'.last = encoder.last /\ handed' \in Int /\ handed' + encoder'.value = handed + encoder.value
  <2>1. 0 \in -Half..Half - 1
    BY <1>2
  <2>2. QED BY <1>1, <1>2, <2>1
<1>4. CountInv'
  <2>1. ASSUME NEW lead \in Int, NEW slack, Off(lead, slack)
        PROVE  \E e \in -missed..missed :
                  /\ (handed' + encoder'.value - (seenAt \div 2) - lead - e) % W = 0
                  /\ Abs(e) + slack <= missed
    <3>1. PICK e \in -missed..missed : /\ (handed + encoder.value - (seenAt \div 2) - lead - e) % W = 0
                                       /\ Abs(e) + slack <= missed
      BY <2>1 DEF Off
    <3>2. handed' + encoder'.value - (seenAt \div 2) - lead - e = handed + encoder.value - (seenAt \div 2) - lead - e
      BY <1>2, <1>3
    <3>3. QED BY <3>1, <3>2
  <2>2. Lead(seenAt) \in Int
    BY DEF Lead
  <2>3. ASSUME Off(0, 0) PROVE Off(0, 0)'
    BY <1>1, <2>1, <2>3 DEF Off, W
  <2>4. ASSUME Off(Lead(seenAt), 1) PROVE Off(Lead(seenAt), 1)'
    BY <1>1, <2>1, <2>2, <2>4 DEF Off, W, Lead
  <2>5. encoder'.last % 4 = encoder.last % 4 /\ Contacts(seenAt)' = Contacts(seenAt)
    BY <1>1, <1>3 DEF Contacts
  <2>6. QED BY <2>3, <2>4, <2>5 DEF CountInv
<1>5. KeysInv'
  BY <1>1 DEF KeysInv
<1>6. WordTypes'
  BY <1>1, <1>3 DEF WordTypes, Half
<1>7. QED BY <1>1, <1>4, <1>5, <1>6 DEF reader

LEMMA InputInit ==
    ASSUME RdInit
    PROVE  InputInv
<1>1. ListInv
  <2>1. list.items = <<>> /\ list.max = 1
    BY DEF RdInit
  <2>2. list.items \in Seq(Item) /\ Len(list.items) = 0
    BY <2>1
  <2>3. 0 <= RdBoards + 1 /\ 1..0 = {}
    BY ReaderConstants
  <2>4. QED BY <2>1, <2>2, <2>3 DEF ListInv, Powers
<1>2. ReadInv
  <2>1. list.items = <<>> /\ list.max = 1 /\ tick = [n |-> 0, at |-> 0] /\ reads = [i \in Items |-> 0]
    BY DEF RdInit
  <2>2. Len(list.items) = 0 /\ 1..0 = {}
    BY <2>1
  <2>3. QED BY <2>1, <2>2, ReaderConstants DEF ReadInv
<1>3. CountInv
  <2>1. handed = 0 /\ encoder = [value |-> 0, last |-> 0] /\ seenAt = 0 /\ missed = 0
    BY DEF RdInit
  <2>2. encoder.last % 4 = 0 /\ Contacts(seenAt) = 0
    BY <2>1 DEF Contacts
  <2>3. handed + encoder.value - (seenAt \div 2) - 0 - 0 = 0
    BY <2>1
  <2>4. 0 % W = 0
    BY WidthIs
  <2>5. Off(0, 0)
    <3>1. 0 \in -missed..missed /\ Abs(0) + 0 <= missed
      BY <2>1 DEF Abs
    <3>2. QED BY <2>3, <2>4, <3>1 DEF Off
  <2>6. QED BY <2>2, <2>5 DEF CountInv
<1>4. WordTypes
  <2>1. Half \in Nat \ {0}
    BY WidthIs DEF Powers
  <2>2. 0 \in -Half..Half - 1
    BY <2>1
  <2>3. QED BY <2>2 DEF RdInit, WordTypes
<1>5. KeysInv
  BY DEF RdInit, KeysInv, One
<1>6. QED BY <1>1, <1>2, <1>3, <1>4, <1>5 DEF InputInv

LEMMA InputStep ==
    ASSUME InputInv, [RdNext]_rdVars
    PROVE  InputInv'
<1> USE DEF InputInv
<1>1. CASE SetScheduler
  <2>1. UNCHANGED <<fingers, position, buttonStatus, lastUp, encoder, mainAt, handed, forwarded, presses,
                    rdFailed, seenAt, missed>>
    BY <1>1 DEF SetScheduler, words, menuSide, rdHistory
  <2>2. QED BY <1>1, <2>1, StepSetScheduler, WordsStay
<1>2. CASE Tick
  <2>1. UNCHANGED <<fingers, position, lastUp, mainAt, handed, forwarded, presses>>
    BY <1>2 DEF Tick, menuSide
  <2>2. CASE ReadButtonStatus
    BY <1>2, <2>1, <2>2, StepTick, StepRead
  <2>3. CASE UNCHANGED <<words, rdFailed, rdHistory>>
    <3>1. UNCHANGED <<buttonStatus, encoder, rdFailed, seenAt, missed>>
      BY <2>3 DEF words, rdHistory
    <3>2. QED BY <1>2, <2>1, <3>1, StepTick, WordsStay
  <2>4. QED BY <1>2, <2>2, <2>3 DEF Tick
<1>3. CASE SleepUntil
  <2>1. UNCHANGED <<fingers, position, buttonStatus, lastUp, encoder, mainAt, handed, forwarded, presses,
                    rdFailed, seenAt, missed>>
    BY <1>3 DEF SleepUntil, words, menuSide, rdHistory
  <2>2. QED BY <1>3, <2>1, StepSleepUntil, WordsStay
<1>4. ASSUME NEW k \in RdKeys, RdPress(k) \/ RdRelease(k) PROVE InputInv'
  BY <1>4, StepFinger, ListStays
<1>5. ASSUME NEW d \in {-1, 1}, TurnKnob(d) PROVE InputInv'
  BY <1>5, StepTurnKnob, ListStays
<1>6. CASE ForwardKeys
  BY <1>6, StepForwardKeys, ListStays
<1>7. CASE RotaryChange
  BY <1>7, StepRotaryChange, ListStays
<1>8. CASE UNCHANGED rdVars
  <2>1. UNCHANGED reader /\ UNCHANGED <<fingers, position, buttonStatus, lastUp, encoder, mainAt, handed,
                                        forwarded, presses, rdFailed, seenAt, missed>>
    BY <1>8 DEF rdVars, reader
  <2>2. QED BY <2>1, ListStays, WordsStay
<1>9. QED BY <1>1, <1>2, <1>3, <1>4, <1>5, <1>6, <1>7, <1>8 DEF RdNext

(* The schedule by intervals, in terms of frequencies.                     *)
LEMMA TimesIs ==
    ASSUME NEW f \in Powers, NEW t \in Powers, NEW r \in Nat, NEW n \in Nat, Even(r, n, t)
    PROVE  r * (f * t) >= n * f /\ (r - 1) * (f * t) < n * f
BY DEF Powers, Even

LEMMA InputInvSound ==
    ASSUME InputInv
    PROVE  InputsSound
<1>1. RdTypeOK
  <2>1. \A k \in DOMAIN list.items : list.items[k] \in [item : Items, intervall : 1..128]
    <3>1. \A k \in 1..Len(list.items) : list.items[k] \in Item
      BY ListIs DEF InputInv
    <3>2. \A x \in Item : x \in [item : Items, intervall : 1..128]
      BY DEF Item, Powers
    <3>3. QED BY <3>1, <3>2, ListIs DEF InputInv
  <2>2. list.max \in 1..128
    BY DEF InputInv, ListInv, Powers
  <2>3. tick \in [n : 0..127, at : 0..RdBoards + 1]
    <3>1. /\ tick \in [n : Nat, at : Nat] /\ tick.n \in Nat /\ tick.at \in Nat
          /\ tick.n < list.max /\ tick.at <= RdBoards + 1
      BY DEF InputInv, ReadInv
    <3>2. tick.n \in 0..127
      BY <2>2, <3>1
    <3>3. tick.at \in 0..RdBoards + 1
      BY <3>1, ReaderConstants
    <3>4. QED BY <3>1, <3>2, <3>3
  <2>4. QED BY <2>1, <2>2, <2>3 DEF InputInv, WordTypes, RdTypeOK, Half
<1>2. ReadEvenly
  <2> SUFFICES ASSUME NEW k \in DOMAIN list.items
               PROVE  LET i == list.items[k].item
                          done == tick.n + IF tick.at >= k THEN 1 ELSE 0
                      IN  reads[i] * list.max >= done * Freq(i) /\ (reads[i] - 1) * list.max < done * Freq(i)
    BY DEF ReadEvenly
  <2> DEFINE i == list.items[k].item
             t == list.items[k].intervall
             f == Freq(i)
  <2>1. k \in 1..Len(list.items) /\ i \in Items /\ t \in Powers /\ f \in Powers
    BY ListIs, FreqIs DEF InputInv
  <2>2. f * t = list.max /\ Even(reads[i], Done(k), t)
    BY <2>1 DEF InputInv, ListInv, ReadInv
  <2>3. reads[i] \in Nat /\ Done(k) \in Nat
    BY <2>1 DEF InputInv, ReadInv, Done
  <2>4. Done(k) = tick.n + IF tick.at >= k THEN 1 ELSE 0
    BY DEF Done
  <2> HIDE DEF i, t, f
  <2>5. reads[i] * (f * t) >= Done(k) * f /\ (reads[i] - 1) * (f * t) < Done(k) * f
    BY <2>1, <2>2, <2>3, TimesIs
  <2>6. QED BY <2>2, <2>4, <2>5 DEF i, f
<1>3. Counted
  <2>1. /\ handed \in Int /\ encoder.value \in Int /\ seenAt \in Int /\ missed \in Nat
    <3>1. encoder.value \in -Half..Half - 1 /\ Half \in Int
      BY WidthIs DEF InputInv, WordTypes, Powers
    <3>2. QED BY <3>1 DEF InputInv, WordTypes
  <2>2. Lead(seenAt) \in 0..1
    BY <2>1, ContactsAre
  <2>3. PICK e \in Int, lead \in 0..1, slack \in 0..1 :
           /\ (handed + encoder.value - (seenAt \div 2) - lead - e) % W = 0
           /\ Abs(e) + slack <= missed /\ lead <= slack
    <3>1. CASE Off(0, 0)
      BY <2>1, <3>1 DEF Off
    <3>2. CASE Off(Lead(seenAt), 1)
      BY <2>1, <2>2, <3>2 DEF Off
    <3>3. QED BY <3>1, <3>2 DEF InputInv, CountInv
  <2> DEFINE a == handed + encoder.value - (seenAt \div 2)
             g == e + lead
  <2>4. a \in Int /\ g \in Int
    BY <2>1
  <2>5. (a - g) % W = 0
    <3>1. a - g = handed + encoder.value - (seenAt \div 2) - lead - e
      BY <2>1
    <3>2. QED BY <2>3, <3>1
  <2>6. Abs(g) <= missed
    BY <2>1, <2>3 DEF Abs
  <2> DEFINE m == Min({a % W, W - (a % W)})
  <2>7. m <= Abs(g)
    <3> HIDE DEF a, g
    <3>1. QED BY <2>4, <2>5, NearZero
  <2>8. m \in Int
    <3>1. a % W \in Int /\ W - (a % W) \in Int
      <4>1. W \in {4, 8, 16, 32, 64, 128, 256}
        BY WidthIs
      <4> HIDE DEF a
      <4>2. QED BY <2>4, <4>1
    <3> HIDE DEF a
    <3>2. QED BY <3>1, MinOf
  <2>9. m <= missed
    <3>1. Abs(g) \in Int
      <4> HIDE DEF g
      <4>1. QED BY <2>4, AbsNat
    <3> HIDE DEF m, g
    <3>2. QED BY <2>1, <2>6, <2>7, <2>8, <3>1
  <2>10. Counted <=> m <= missed
    <3>1. a = handed + encoder.value - (seenAt \div 2)
      OBVIOUS
    <3>2. QED BY DEF Counted, W
  <2>11. QED BY <2>9, <2>10
<1>4. ForwardedOnce
  <2> SUFFICES ASSUME NEW k \in RdKeys PROVE forwarded[k] <= presses[k] + rdFailed
    BY DEF ForwardedOnce
  <2>1. forwarded[k] \in Nat /\ presses[k] \in Nat /\ rdFailed \in Nat
    BY KeysAre DEF InputInv
  <2>2. forwarded[k] + One(k \in lastUp \cup buttonStatus) + One(k \in fingers \ buttonStatus)
          <= presses[k] + rdFailed
    BY DEF InputInv, KeysInv
  <2>3. QED BY <2>1, <2>2 DEF One
<1>5. QED BY <1>1, <1>2, <1>3, <1>4 DEF InputsSound

(* Each board is read evenly in whatever order it was added, no step of the*)
(* knob is lost or counted twice but for what no read saw, and no press    *)
(* doubled but for failed reads (app/ReaderThread.cpp, lib/Encoder.cpp,    *)
(* lib/Display.cpp, main.cpp).                                             *)
THEOREM InputsHold == RdSpec => []InputsSound
<1>1. RdInit => InputInv
  BY InputInit
<1>2. InputInv /\ [RdNext]_rdVars => InputInv'
  BY InputStep
<1>3. InputInv => InputsSound
  BY InputInvSound
<1>4. QED BY <1>1, <1>2, <1>3, PTL DEF RdSpec

-----------------------------------------------------------------------------
(* The fader.                                                              *)

(* OneLamp speaks of the moments between two calls of doBlink() and is not *)
(* inductive: the invariant says in addition what the lamps written so far *)
(* by the call under way show.                                             *)
SideOf(l) == IF l <= 2 THEN "low" ELSE "high"

LampsWritten ==
    /\ blinking.led = 0 => blinking = Quiet
    /\ \A l \in 1..4 : l < blinking.led /\ lit[l] => SideOf(l) = blinking.end
    /\ blinking.led > 2 => ~(lit[1] /\ lit[2])

FaderInv ==
    /\ FdTypeOK
    /\ LampsWritten
    /\ OneLamp
    /\ GreenMeansLocked

-----------------------------------------------------------------------------
(* The start: nothing is lit or locked.                                    *)
LEMMA FaderInit == FdInit => FaderInv
<1> SUFFICES ASSUME FdInit PROVE FaderInv
  OBVIOUS
<1>1. FdTypeOK
  <2>1. transition \in [position : FdPositions, bottom : BOOLEAN, online : BOOLEAN]
    BY FaderAssumption DEF FdInit
  <2>2. lit \in [1..4 -> BOOLEAN]
    BY DEF FdInit
  <2>3. blinking \in [led : 0..4, end : {"none", "low", "high"}]
    BY DEF FdInit, Quiet
  <2>4. fdEvents \in Nat
    BY DEF FdInit
  <2>5. QED BY <2>1, <2>2, <2>3, <2>4 DEF FdInit, FdTypeOK
<1>2. LampsWritten /\ OneLamp
  BY DEF FdInit, LampsWritten, OneLamp, Quiet
<1>3. GreenMeansLocked
  BY DEF FdInit, GreenMeansLocked
<1>4. QED BY <1>1, <1>2, <1>3 DEF FaderInv

(* A lock stays.                                                           *)
LEMMA ProcessFaderKeeps ==
    ASSUME FaderInv, ProcessFader
    PROVE  FaderInv' /\ (faderLocked => faderLocked')
<1> USE DEF FaderInv, ProcessFader
<1>0. Met \in BOOLEAN
  BY DEF Met
<1>1. faderLocked' \in BOOLEAN
  BY <1>0 DEF FdTypeOK
<1>2. faderLocked => faderLocked'
  BY <1>0 DEF FdTypeOK
<1>3. FdTypeOK'
  BY <1>1 DEF FdTypeOK
<1>4. (LampsWritten /\ OneLamp)'
  BY DEF LampsWritten, OneLamp, SideOf, Quiet
<1>5. GreenMeansLocked'
  BY <1>2 DEF GreenMeansLocked
<1>6. QED BY <1>2, <1>3, <1>4, <1>5

(* A call of doBlink() begins with no lamp written.                        *)
LEMMA BlinkBeginsKeeps ==
    ASSUME FaderInv, BlinkBegins
    PROVE  FaderInv' /\ faderLocked' = faderLocked
<1> USE DEF FaderInv, BlinkBegins
<1>1. blinking'.led = 1 /\ blinking' \in [led : 0..4, end : {"none", "low", "high"}]
  BY DEF End
<1>2. autoStatus' \in BOOLEAN
  BY DEF FdTypeOK
<1>3. FdTypeOK'
  BY <1>1, <1>2 DEF FdTypeOK
<1>4. (LampsWritten /\ OneLamp)'
  BY <1>1 DEF LampsWritten, OneLamp, Quiet
<1>5. GreenMeansLocked'
  BY DEF GreenMeansLocked
<1>6. QED BY <1>3, <1>4, <1>5

(* A write: red is lit only where green, written before, was not, since    *)
(* green tells of a lock that is still there.                              *)
LEMMA WriteLedKeeps ==
    ASSUME FaderInv, WriteLed
    PROVE  FaderInv' /\ faderLocked' = faderLocked
<1> USE DEF FaderInv, WriteLed
<1> DEFINE n == blinking.led
<1>1. n \in 1..4 /\ lit \in [1..4 -> BOOLEAN] /\ faderLocked \in BOOLEAN
  BY DEF FdTypeOK
<1>2. lit'[n] = (blinking.end = SideOf(n) /\ faderLocked = (n \in {1, 3}))
  BY <1>1 DEF SideOf
<1>3. \A l \in 1..4 : l # n => lit'[l] = lit[l]
  BY <1>1
<1>4. lit' \in [1..4 -> BOOLEAN]
  BY <1>1
<1>5. blinking' \in [led : 0..4, end : {"none", "low", "high"}]
  BY <1>1 DEF FdTypeOK, Quiet
<1>6. FdTypeOK'
  BY <1>4, <1>5 DEF FdTypeOK
<1>7. GreenMeansLocked'
  BY <1>1, <1>2, <1>3 DEF GreenMeansLocked
<1>8. \A l \in 1..4 : l <= n /\ lit'[l] => SideOf(l) = blinking.end
  <2> SUFFICES ASSUME NEW l \in 1..4, l <= n, lit'[l] PROVE SideOf(l) = blinking.end
    OBVIOUS
  <2>1. CASE l = n
    BY <1>2, <2>1
  <2>2. CASE l < n
    BY <1>1, <1>3, <2>2 DEF LampsWritten
  <2>3. QED BY <1>1, <2>1, <2>2
<1>9. n >= 2 => ~(lit'[1] /\ lit'[2])
  BY <1>1, <1>2, <1>3 DEF LampsWritten, GreenMeansLocked
<1>10. n = 4 => ~(lit'[3] /\ lit'[4])
  BY <1>1, <1>2, <1>3 DEF GreenMeansLocked
<1>11. LampsWritten'
  <2>1. CASE n = 4
    BY <2>1 DEF LampsWritten, Quiet
  <2>2. CASE n # 4
    <3>1. blinking'.led = n + 1 /\ blinking'.end = blinking.end
      BY <1>1, <2>2 DEF FdTypeOK
    <3>2. QED BY <1>1, <1>8, <1>9, <3>1 DEF LampsWritten
  <2>3. QED BY <2>1, <2>2
<1>12. OneLamp'
  <2>1. CASE n = 4
    <3>1. \A k, l \in 1..4 : lit'[k] /\ lit'[l] => SideOf(k) = SideOf(l)
      BY <1>8, <2>1
    <3>2. \A k, l \in 1..4 : lit'[k] /\ lit'[l] => k = l
      BY <1>4, <1>9, <1>10, <2>1, <3>1 DEF SideOf
    <3>3. QED BY <3>2 DEF OneLamp
  <2>2. CASE n # 4
    <3>1. blinking'.led = n + 1
      BY <1>1, <2>2 DEF FdTypeOK
    <3>2. QED BY <1>1, <3>1 DEF OneLamp, Quiet
  <2>3. QED BY <2>1, <2>2
<1>13. QED BY <1>6, <1>7, <1>11, <1>12

(* The fader moves, or a packet comes: neither touches lamps or lock.      *)
LEMMA OutsideKeeps ==
    ASSUME FaderInv,
           \/ \E v \in FdReadings : MoveFader(v)
           \/ \E p \in FdPositions, bottom \in BOOLEAN, online \in BOOLEAN :
                 TransitionComes(p, bottom, online)
    PROVE  FaderInv' /\ faderLocked' = faderLocked
<1>1. FdTypeOK'
  BY FaderAssumption DEF FaderInv, FdTypeOK, MoveFader, TransitionComes
<1>2. UNCHANGED <<faderLocked, lit, blinking>>
  BY DEF MoveFader, TransitionComes
<1>3. QED
  BY <1>1, <1>2 DEF FaderInv, LampsWritten, OneLamp, GreenMeansLocked, SideOf, Quiet

(* Every step keeps the invariant and never undoes the lock.               *)
LEMMA FaderStep ==
    ASSUME FaderInv, [FdNext]_fdVars
    PROVE  FaderInv' /\ (faderLocked => faderLocked')
<1>1. CASE ProcessFader
  BY <1>1, ProcessFaderKeeps
<1>2. CASE BlinkBegins
  BY <1>2, BlinkBeginsKeeps
<1>3. CASE WriteLed
  BY <1>3, WriteLedKeeps
<1>4. CASE \/ \E v \in FdReadings : MoveFader(v)
           \/ \E p \in FdPositions, bottom \in BOOLEAN, online \in BOOLEAN :
                 TransitionComes(p, bottom, online)
  BY <1>4, OutsideKeeps
<1>5. CASE UNCHANGED fdVars
  BY <1>5 DEF fdVars, FaderInv, FdTypeOK, LampsWritten, OneLamp, GreenMeansLocked, SideOf, Quiet
<1>6. QED BY <1>1, <1>2, <1>3, <1>4, <1>5 DEF FdNext

(* The invariant holds always.                                             *)
THEOREM FaderAlways == FdSpec => []FaderInv
<1>1. FdInit => FaderInv BY FaderInit
<1>2. FaderInv /\ [FdNext]_fdVars => FaderInv' BY FaderStep
<1>3. QED BY <1>1, <1>2, PTL DEF FdSpec

(* Between two calls of doBlink() at most one of the four lamps is lit,    *)
(* wherever the lock came between its writes, and a green lamp tells of a  *)
(* lock.                                                                   *)
THEOREM FaderHolds == FdSpec => []FaderSound
<1>1. FaderInv => FaderSound BY DEF FaderInv, FaderSound
<1>2. QED BY <1>1, FaderAlways, PTL

(* The lock of _processFader() is never undone, though the fader is moved  *)
(* away or the switcher goes offline.                                      *)
THEOREM LockStays == FdSpec => LockedForGood
<1>1. FaderInv /\ [FdNext]_fdVars => [faderLocked => faderLocked']_fdVars BY FaderStep
<1>2. QED BY <1>1, FaderAlways, PTL DEF FdSpec, LockedForGood

-----------------------------------------------------------------------------
(* The settings.                                                           *)

(* The properties speak of a desk that runs; what makes them true happens  *)
(* in the writes of migrate() before.  The invariant therefore says what   *)
(* the writes still to be made will do: which cells they reach, that the   *)
(* new version is followed by all of them, and that a desk with settings of*)
(* the user at the newest version has none to make.                        *)
CellWrites == [cell : {"version"}, value : {1, Newest}]
                \cup [cell : Cells, value : {"default", "user"}]

SettingsTypes ==
    /\ eeprom \in [version : Versions, data : [Cells -> Data]]
    /\ ram \in [version : Versions, ip : Data, mapping : Data]
    /\ pc \in {"off", "version", "migrate", "load", "running"}
    /\ todo \in Seq(CellWrites)
    /\ kept \subseteq Cells /\ misread \in BOOLEAN
    /\ lost \subseteq Cells \cup {"version"} /\ stale \subseteq Cells \cup {"version"}

(* Writes are made by migrate() and, one at a time, by a running desk.     *)
TodoInv ==
    /\ pc \notin {"migrate", "running"} => todo = <<>>
    /\ pc = "running" => /\ Len(todo) <= 1
                         /\ todo # <<>> => todo[1].cell \in Cells /\ todo[1].value = "user"
    /\ \A j \in 1..Len(todo) : todo[j].cell = "version" /\ todo[j].value = Newest =>
           \A c \in Cells : \E k \in j + 1..Len(todo) : todo[k].cell = c

(* The user's settings are there, and were made at the newest version,     *)
(* which needs no migration.                                               *)
KeptInv ==
    /\ \A c \in kept : eeprom.data[c] = "user"
    /\ ~misread /\ kept # {} => /\ eeprom.version = Newest
                                /\ pc = "migrate" => todo = <<>>

CompleteInv ==
    eeprom.version = Newest /\ "version" \notin lost =>
        \A c \in Cells : \/ c \in lost
                        \/ eeprom.data[c] \in {"default", "user"}
                        \/ \E k \in 1..Len(todo) : todo[k].cell = c

CacheInv ==
    /\ pc = "version" => ram.ip = "zero"
    /\ "version" \notin stale /\ pc \in {"migrate", "load", "running"} => ram.version = eeprom.version
    /\ "ip" \notin stale =>
           /\ pc \in {"load", "running"} => ram.ip = eeprom.data["ip"]
           /\ pc = "migrate" /\ ram.ip # "zero" => ram.ip = eeprom.data["ip"]

SettingsInv == SettingsTypes /\ TodoInv /\ KeptInv /\ CompleteInv /\ CacheInv

-----------------------------------------------------------------------------
(* The cells by name.                                                      *)
LEMMA CellsAre == Cells = {"mapping0", "mapping1", "mapping2", "mapping3", "ip"}
<1>1. DOMAIN Mappings = 1..4
  BY DEF Mappings
<1>2. Range(Mappings) = {Mappings[1], Mappings[2], Mappings[3], Mappings[4]}
  BY <1>1 DEF Range
<1>3. QED BY <1>2 DEF Cells, Mappings

(* One sequence behind the other.                                          *)
LEMMA Joined ==
    ASSUME NEW s \in Seq(CellWrites), NEW t \in Seq(CellWrites)
    PROVE  /\ s \o t \in Seq(CellWrites) /\ Len(s \o t) = Len(s) + Len(t)
           /\ \A i \in 1..Len(s) : (s \o t)[i] = s[i]
           /\ \A i \in Len(s) + 1..Len(s) + Len(t) : (s \o t)[i] = t[i - Len(s)]
<1>1. /\ s \o t \in Seq(CellWrites) /\ Len(s \o t) = Len(s) + Len(t)
      /\ \A i \in 1..Len(s) + Len(t) : (s \o t)[i] = IF i <= Len(s) THEN s[i] ELSE t[i - Len(s)]
  BY ConcatProperties
<1>2. Len(s) \in Nat /\ Len(t) \in Nat
  OBVIOUS
<1>3. QED BY <1>1, <1>2

(* The writes of a migration reach every cell.                             *)
LEMMA DataWritesReach ==
    /\ DataWrites \in Seq(CellWrites) /\ Len(DataWrites) = 5
    /\ \A k \in 1..5 : DataWrites[k].cell \in Cells
    /\ \A c \in Cells : \E k \in 1..5 : DataWrites[k].cell = c
<1>1. \A k \in 1..5 : DataWrites[k] = [cell |-> IF k = 1 THEN "ip" ELSE Mappings[k - 1], value |-> "default"]
  BY DEF DataWrites
<1>2. \A k \in 1..4 : Mappings[k] \in Cells
  BY CellsAre DEF Mappings
<1>3. \A k \in 1..5 : DataWrites[k] \in CellWrites
  <2>1. TAKE k \in 1..5
  <2>2. CASE k = 1
    BY <2>2, <1>1, CellsAre DEF CellWrites
  <2>3. CASE k # 1
    <3>1. k - 1 \in 1..4
      BY <2>3
    <3>2. Mappings[k - 1] \in Cells
      BY <3>1, <1>2
    <3>3. QED BY <2>3, <3>2, <1>1 DEF CellWrites
  <2>4. QED BY <2>2, <2>3
<1>4. DataWrites \in Seq(CellWrites) /\ Len(DataWrites) = 5
  <2>1. DataWrites = [k \in 1..5 |-> DataWrites[k]]
    BY DEF DataWrites
  <2>2. DataWrites \in [1..5 -> CellWrites]
    BY <2>1, <1>3
  <2>3. DataWrites \in Seq(CellWrites)
    BY <2>2, SeqDef
  <2>4. DOMAIN DataWrites = 1..5 /\ DOMAIN DataWrites = 1..Len(DataWrites) /\ Len(DataWrites) \in Nat
    BY <2>2, <2>3, LenProperties
  <2>5. QED BY <2>3, <2>4
<1>5. \A c \in Cells : \E k \in 1..5 : DataWrites[k].cell = c
  <2>1. /\ DataWrites[1].cell = "ip" /\ DataWrites[2].cell = "mapping0" /\ DataWrites[3].cell = "mapping1"
        /\ DataWrites[4].cell = "mapping2" /\ DataWrites[5].cell = "mapping3"
    BY <1>1 DEF Mappings
  <2>2. QED BY <2>1, CellsAre
<1>6. \A k \in 1..5 : DataWrites[k].cell \in Cells
  <2>1. /\ DataWrites[1].cell = "ip" /\ DataWrites[2].cell = "mapping0" /\ DataWrites[3].cell = "mapping1"
        /\ DataWrites[4].cell = "mapping2" /\ DataWrites[5].cell = "mapping3"
    BY <1>1 DEF Mappings
  <2>2. QED BY <2>1, CellsAre
<1>7. QED BY <1>4, <1>5, <1>6

(* A migration writes the new version before all cells, and the newest     *)
(* version is not migrated.                                                *)
LEMMA MigrationInv ==
    ASSUME NEW v \in Versions
    PROVE  /\ Migration(v) \in Seq(CellWrites)
           /\ \A j \in 1..Len(Migration(v)) :
                  Migration(v)[j].cell = "version" /\ Migration(v)[j].value = Newest =>
                      \A c \in Cells : \E k \in j + 1..Len(Migration(v)) : Migration(v)[k].cell = c
           /\ v = Newest => Migration(v) = <<>>
<1>1. PICK one \in CellWrites, new \in CellWrites :
        one = [cell |-> "version", value |-> 1] /\ new = [cell |-> "version", value |-> Newest]
  BY DEF CellWrites
<1>2. one.value = 1 /\ new.cell = "version" /\ new.value = Newest /\ Newest = 4
  BY <1>1 DEF Newest
<1>0. /\ \A w \in CellWrites : <<w>> \in Seq(CellWrites) /\ Len(<<w>>) = 1 /\ <<w>>[1] = w
      /\ <<>> \in Seq(CellWrites) /\ Len(<<>>) = 0 /\ \A s \in Seq(CellWrites) : Len(s) \in Nat /\ s \o <<>> = s
  OBVIOUS
<1>7. PICK first \in Seq(CellWrites) : first = IF v = 0 \/ v > 200 THEN <<one>> ELSE <<>>
  BY <1>0
<1>8. Len(first) \in {0, 1} /\ (Len(first) = 1 => first[1] = one) /\ (v = Newest => first = <<>>)
  BY <1>7, <1>0, <1>2
<1>3. PICK all \in Seq(CellWrites) : all = DataWrites
  BY DataWritesReach
<1>4. Len(all) = 5 /\ (\A k \in 1..5 : all[k].cell \in Cells) /\ \A c \in Cells : \E k \in 1..5 : all[k].cell = c
  BY <1>3, DataWritesReach
<1>5. CASE v <= 3
  <2>0. PICK head \in Seq(CellWrites) : head = <<new>> /\ Len(head) = 1 /\ head[1] = new
    BY <1>0
  <2>1. PICK rest \in Seq(CellWrites) :
          /\ rest = head \o all /\ Len(rest) = Len(head) + Len(all)
          /\ \A i \in 1..Len(head) : rest[i] = head[i]
          /\ \A i \in Len(head) + 1..Len(head) + Len(all) : rest[i] = all[i - Len(head)]
    BY Joined
  <2>2. PICK m \in Seq(CellWrites) :
          /\ m = first \o rest /\ Len(m) = Len(first) + Len(rest)
          /\ \A i \in 1..Len(first) : m[i] = first[i]
          /\ \A i \in Len(first) + 1..Len(first) + Len(rest) : m[i] = rest[i - Len(first)]
    BY Joined
  <2>3. /\ Len(rest) = 6
        /\ rest[1] = new /\ \A i \in 2..6 : rest[i] = all[i - 1]
    BY <2>0, <2>1, <1>4
  <2>5. Migration(v) = m
    BY <2>0, <2>1, <2>2, <1>1, <1>3, <1>5, <1>7 DEF Migration
  <2>6. /\ Len(m) = Len(first) + 6
        /\ \A i \in 1..Len(first) : m[i] = first[i]
        /\ \A i \in Len(first) + 1..Len(first) + 6 : m[i] = rest[i - Len(first)]
    BY <2>2, <2>3, <1>8
  <2>8. ASSUME NEW j \in 1..Len(m), m[j].cell = "version", m[j].value = Newest
        PROVE  \A c \in Cells : \E k \in j + 1..Len(m) : m[k].cell = c
    <3>1. j > Len(first)
      <4>1. SUFFICES ASSUME j <= Len(first) PROVE FALSE
        BY <2>6, <1>8
      <4>2. j = 1 /\ Len(first) = 1
        BY <4>1, <1>8, <2>6
      <4>3. m[j] = one
        BY <4>2, <2>6, <1>8
      <4>4. QED BY <4>3, <2>8, <1>2
    <3>2. j = Len(first) + 1
      <4>1. SUFFICES ASSUME j # Len(first) + 1 PROVE FALSE
        OBVIOUS
      <4>2. PICK k \in 1..5 : k = j - Len(first) - 1
        BY <3>1, <4>1, <2>6, <1>8
      <4>3. m[j] = all[k]
        <5>1. j \in Len(first) + 1..Len(first) + 6 /\ j - Len(first) = k + 1 /\ k + 1 \in 2..6 /\ (k + 1) - 1 = k
          BY <4>1, <4>2, <3>1, <2>6, <1>8
        <5>2. m[j] = rest[k + 1]
          BY <5>1, <2>6
        <5>3. rest[k + 1] = all[k]
          BY <5>1, <2>3
        <5>4. QED BY <5>2, <5>3
      <4>4. "version" \notin Cells
        BY CellsAre
      <4>5. QED BY <4>3, <4>4, <1>4, <2>8
    <3>3. TAKE c \in Cells
    <3>4. PICK k \in 1..5 : all[k].cell = c
      BY <1>4
    <3>5. PICK i \in 1..Len(m) : i = Len(first) + k + 1 /\ i - Len(first) = k + 1
      BY <2>6, <1>8
    <3>6. m[i] = all[k] /\ i \in j + 1..Len(m)
      <4>1. i \in Len(first) + 1..Len(first) + 6 /\ k + 1 \in 2..6 /\ (k + 1) - 1 = k
        BY <3>5, <2>6, <1>8
      <4>2. m[i] = rest[k + 1]
        BY <4>1, <3>5, <2>6
      <4>3. rest[k + 1] = all[k]
        BY <4>1, <2>3
      <4>4. i \in j + 1..Len(m)
        BY <3>2, <3>5, <2>6, <1>8
      <4>5. QED BY <4>2, <4>3, <4>4
    <3>7. QED BY <3>4, <3>6
  <2>9. QED BY <2>5, <2>8, <1>2, <1>5
<1>6. CASE ~(v <= 3)
  <2>1. Migration(v) = first
    BY <1>0, <1>1, <1>6, <1>7 DEF Migration
  <2>2. \A j \in 1..Len(first) : first[j].value # Newest
    BY <1>2, <1>8
  <2>3. QED BY <2>1, <2>2, <1>8
<1>9. QED BY <1>5, <1>6

(* What holds of the writes still to be made holds when the first is made. *)
LEMMA TailOf ==
    ASSUME NEW s \in Seq(CellWrites), s # <<>>
    PROVE  /\ Tail(s) \in Seq(CellWrites) /\ Len(Tail(s)) = Len(s) - 1 /\ Len(s) \in Nat \ {0}
           /\ Head(s) = s[1] /\ Head(s) \in CellWrites
           /\ \A k \in 1..Len(Tail(s)) : Tail(s)[k] = s[k + 1]
  OBVIOUS

-----------------------------------------------------------------------------
LEMMA SettingsInit == MeInit => SettingsInv
<1> SUFFICES ASSUME MeInit PROVE SettingsInv
  OBVIOUS
<1>1. SettingsTypes
  <2>1. <<>> \in Seq(CellWrites)
    OBVIOUS
  <2>2. eeprom \in [version : Versions, data : [Cells -> Data]]
    BY DEF MeInit, Versions, Data
  <2>3. ram \in [version : Versions, ip : Data, mapping : Data]
    BY DEF MeInit, Versions, Data
  <2>4. QED BY <2>1, <2>2, <2>3 DEF MeInit, SettingsTypes
<1>2. TodoInv
  BY DEF MeInit, TodoInv
<1>3. KeptInv /\ CompleteInv /\ CacheInv
  BY DEF MeInit, KeptInv, CompleteInv, CacheInv, Newest
<1>4. QED BY <1>1, <1>2, <1>3 DEF SettingsInv

LEMMA PowerOnKeeps == ASSUME SettingsInv, PowerOn PROVE SettingsInv'
<1> USE DEF PowerOn, SettingsInv
<1>1. SettingsTypes'
  <2>1. <<>> \in Seq(CellWrites)
    OBVIOUS
  <2>2. QED BY <2>1 DEF SettingsTypes, Versions, Data
<1>2. TodoInv'
  BY DEF TodoInv
<1>3. KeptInv'
  BY DEF KeptInv
<1>4. CompleteInv' /\ CacheInv'
  BY DEF CompleteInv, CacheInv, TodoInv
<1>5. QED BY <1>1, <1>2, <1>3, <1>4

LEMMA ReadVersionKeeps == ASSUME SettingsInv, ReadVersion PROVE SettingsInv'
<1>1. PICK v \in Versions :
        /\ \/ v = eeprom.version /\ Works /\ UNCHANGED <<misread, stale>>
           \/ Fails /\ misread' = TRUE /\ stale' = stale \cup {"version"}
        /\ ram' = [ram EXCEPT !.version = v]
        /\ todo' = Migration(v)
  BY DEF ReadVersion
<1>2. /\ pc = "version" /\ pc' = "migrate" /\ UNCHANGED <<eeprom, kept, lost>> /\ todo = <<>>
      /\ v # eeprom.version => misread' /\ "version" \in stale'
      /\ misread' \in BOOLEAN /\ (misread => misread')
      /\ stale' \subseteq Cells \cup {"version"} /\ ("ip" \in stale => "ip" \in stale')
  <2>1. pc = "version" /\ pc' = "migrate" /\ UNCHANGED <<eeprom, kept, lost>>
    BY DEF ReadVersion
  <2>2. misread \in BOOLEAN /\ stale \subseteq Cells \cup {"version"} /\ todo = <<>>
    BY <2>1 DEF SettingsInv, SettingsTypes, TodoInv
  <2>3. CASE UNCHANGED <<misread, stale>> /\ v = eeprom.version
    BY <2>1, <2>2, <2>3
  <2>4. CASE misread' = TRUE /\ stale' = stale \cup {"version"}
    BY <2>1, <2>2, <2>4
  <2>5. QED BY <1>1, <2>3, <2>4
<1>3. /\ todo' \in Seq(CellWrites) /\ (v = Newest => todo' = <<>>)
      /\ \A j \in 1..Len(todo') : todo'[j].cell = "version" /\ todo'[j].value = Newest =>
             \A c \in Cells : \E k \in j + 1..Len(todo') : todo'[k].cell = c
  BY <1>1, MigrationInv
<1>4. SettingsTypes'
  BY <1>1, <1>2, <1>3 DEF SettingsInv, SettingsTypes
<1>5. TodoInv'
  BY <1>2, <1>3 DEF TodoInv
<1>6. ram'.version = v /\ ram'.ip = ram.ip
  BY <1>1 DEF SettingsInv, SettingsTypes
<1>7. KeptInv'
  BY <1>2, <1>3 DEF SettingsInv, KeptInv
<1>8. CompleteInv'
  BY <1>2 DEF SettingsInv, CompleteInv
<1>9. CacheInv'
  BY <1>2, <1>6 DEF SettingsInv, CacheInv
<1>10. QED BY <1>4, <1>5, <1>7, <1>8, <1>9 DEF SettingsInv

LEMMA WriteKeeps == ASSUME SettingsInv, Write PROVE SettingsInv'
<1>1. PICK w \in CellWrites : w = Head(todo)
  BY TailOf DEF SettingsInv, SettingsTypes, Write
<1>2. /\ todo \in Seq(CellWrites) /\ todo # <<>> /\ todo' = Tail(todo) /\ ram' = Cached(w)
      /\ UNCHANGED <<pc, misread>> /\ pc \in {"migrate", "running"}
  BY <1>1 DEF SettingsInv, SettingsTypes, TodoInv, Write
<1>3. /\ Len(todo) \in Nat \ {0} /\ w = todo[1] /\ todo' \in Seq(CellWrites) /\ Len(todo') = Len(todo) - 1
      /\ \A k \in 1..Len(todo') : todo'[k] = todo[k + 1]
  BY <1>1, <1>2, TailOf
<1>4. \/ w.cell = "version" /\ w.value \in {1, Newest}
      \/ w.cell \in Cells /\ w.value \in {"default", "user"}
  BY DEF CellWrites
<1>5. "version" \notin Cells /\ "ip" \in Cells /\ {1, Newest} \subseteq Versions /\ {"default", "user"} \subseteq Data
  BY CellsAre DEF Newest, Versions, Data
<1>6. /\ ram' \in [version : Versions, ip : Data, mapping : Data]
      /\ ram'.version = IF w.cell = "version" THEN w.value ELSE ram.version
      /\ ram'.ip = IF w.cell = "ip" THEN w.value ELSE ram.ip
  BY <1>2, <1>4, <1>5 DEF SettingsInv, SettingsTypes, Cached
<1>7. \/ /\ eeprom' = Written(w)
         /\ kept' = IF pc = "running" /\ eeprom.version = Newest THEN kept \cup {w.cell} ELSE kept \ {w.cell}
         /\ lost' = lost \ {w.cell} /\ stale' = stale \ {w.cell}
      \/ /\ lost' = lost \cup {w.cell} /\ stale' = stale \cup {w.cell} /\ UNCHANGED <<eeprom, kept>>
  BY <1>1 DEF Write
<1>8. eeprom' = Written(w) =>
        /\ eeprom' \in [version : Versions, data : [Cells -> Data]]
        /\ eeprom'.version = IF w.cell = "version" THEN w.value ELSE eeprom.version
        /\ \A c \in Cells : eeprom'.data[c] = IF c = w.cell THEN w.value ELSE eeprom.data[c]
  BY <1>4, <1>5 DEF SettingsInv, SettingsTypes, Written
<1>9. pc = "running" => w.cell \in Cells /\ w.value = "user" /\ todo' = <<>>
  BY <1>3 DEF SettingsInv, TodoInv
<1>10. /\ lost' \subseteq Cells \cup {"version"} /\ stale' \subseteq Cells \cup {"version"} /\ kept' \subseteq Cells
  BY <1>4, <1>7, <1>9 DEF SettingsInv, SettingsTypes
<1>11. SettingsTypes'
  BY <1>2, <1>3, <1>6, <1>7, <1>8, <1>10 DEF SettingsInv, SettingsTypes
<1>12. TodoInv'
  <2>1. ASSUME NEW j \in 1..Len(todo'), todo'[j].cell = "version", todo'[j].value = Newest, NEW c \in Cells
        PROVE  \E k \in j + 1..Len(todo') : todo'[k].cell = c
    <3>1. j + 1 \in 1..Len(todo) /\ todo[j + 1] = todo'[j]
      BY <1>3
    <3>2. PICK k \in (j + 1) + 1..Len(todo) : todo[k].cell = c
      BY <2>1, <3>1 DEF SettingsInv, TodoInv
    <3>3. k - 1 \in j + 1..Len(todo') /\ todo'[k - 1] = todo[k]
      BY <3>2, <1>3
    <3>4. QED BY <3>2, <3>3
  <2>2. pc' \notin {"migrate", "running"} => todo' = <<>>
    BY <1>2
  <2>3. pc' = "running" => todo' = <<>> /\ Len(todo') <= 1
    <3>1. pc' = "running" => todo' = <<>>
      BY <1>2, <1>9
    <3>2. todo' = <<>> => Len(todo') <= 1
      OBVIOUS
    <3>3. QED BY <3>1, <3>2
  <2>4. QED BY <2>1, <2>2, <2>3 DEF TodoInv
<1>13. KeptInv'
  <2>1. ASSUME NEW c \in kept' PROVE eeprom'.data[c] = "user"
    BY <1>7, <1>8, <1>9, <1>10 DEF SettingsInv, KeptInv
  <2>2. ASSUME ~misread', kept' # {} PROVE eeprom'.version = Newest /\ (pc' = "migrate" => todo' = <<>>)
    <3>1. pc = "migrate" => kept = {}
      BY <2>2, <1>2 DEF SettingsInv, KeptInv
    <3>2. pc = "running"
      BY <3>1, <2>2, <1>2, <1>7
    <3>3. eeprom.version = Newest
      BY <3>2, <2>2, <1>2, <1>7 DEF SettingsInv, KeptInv
    <3>4. QED BY <3>2, <3>3, <1>2, <1>5, <1>7, <1>8, <1>9
  <2>3. QED BY <2>1, <2>2 DEF KeptInv
<1>14. CompleteInv'
  <2>1. SUFFICES ASSUME eeprom'.version = Newest, "version" \notin lost', NEW c \in Cells, c \notin lost'
                 PROVE  \/ eeprom'.data[c] \in {"default", "user"}
                        \/ \E k \in 1..Len(todo') : todo'[k].cell = c
    BY DEF CompleteInv
  <2>2. CASE w.cell = "version"
    <3>1. eeprom' = Written(w)
      BY <1>7, <2>1, <2>2
    <3>2. w.value = Newest
      BY <1>8, <2>1, <2>2, <3>1
    <3>3. PICK k \in 1 + 1..Len(todo) : todo[k].cell = c
      BY <1>3, <2>2, <3>2 DEF SettingsInv, TodoInv
    <3>4. k - 1 \in 1..Len(todo') /\ todo'[k - 1] = todo[k]
      BY <1>3, <3>3
    <3>5. QED BY <3>3, <3>4
  <2>3. CASE w.cell = c
    <3>1. eeprom' = Written(w)
      BY <1>7, <2>1, <2>3
    <3>2. QED BY <1>4, <1>5, <1>8, <2>3, <3>1
  <2>4. CASE w.cell # "version" /\ w.cell # c
    <3>1. /\ eeprom.version = Newest /\ eeprom'.data[c] = eeprom.data[c]
          /\ "version" \notin lost /\ c \notin lost
      BY <1>7, <1>8, <2>1, <2>4
    <3>2. CASE \E k \in 1..Len(todo) : todo[k].cell = c
      <4>1. PICK k \in 1..Len(todo) : todo[k].cell = c
        BY <3>2
      <4>2. k # 1
        BY <1>3, <2>4, <4>1
      <4>3. k - 1 \in 1..Len(todo') /\ todo'[k - 1] = todo[k]
        BY <1>3, <4>1, <4>2
      <4>4. QED BY <4>1, <4>3
    <3>3. QED BY <3>1, <3>2 DEF SettingsInv, CompleteInv
  <2>5. QED BY <2>2, <2>3, <2>4
<1>15. CacheInv'
  <2>1. ASSUME "version" \notin stale' PROVE ram'.version = eeprom'.version
    BY <1>2, <1>6, <1>7, <1>8, <2>1 DEF SettingsInv, CacheInv
  <2>2. ASSUME "ip" \notin stale'
        PROVE  /\ pc = "running" => ram'.ip = eeprom'.data["ip"]
               /\ pc = "migrate" /\ ram'.ip # "zero" => ram'.ip = eeprom'.data["ip"]
    BY <1>2, <1>5, <1>6, <1>7, <1>8, <2>2 DEF SettingsInv, CacheInv
  <2>3. QED BY <1>2, <2>1, <2>2 DEF CacheInv
<1>16. QED BY <1>11, <1>12, <1>13, <1>14, <1>15 DEF SettingsInv

LEMMA GetIpAddressKeeps == ASSUME SettingsInv, GetIpAddress PROVE SettingsInv'
<1>1. /\ pc = "migrate" /\ pc' = "load" /\ todo = <<>> /\ todo' = todo
      /\ UNCHANGED <<eeprom, kept, lost, misread>> /\ eeprom.data["ip"] \in Data
      /\ ram' \in [version : Versions, ip : Data, mapping : Data] /\ ram'.version = ram.version
      /\ stale' \in {stale, stale \cup {"ip"}} /\ "ip" \in Cells \cup {"version"}
      /\ "ip" \notin stale' => ram'.ip = IF ram.ip = "zero" THEN eeprom.data["ip"] ELSE ram.ip
  BY CellsAre DEF SettingsInv, SettingsTypes, GetIpAddress
<1>2. SettingsTypes'
  BY <1>1 DEF SettingsInv, SettingsTypes
<1>3. TodoInv' /\ KeptInv' /\ CompleteInv' /\ CacheInv'
  BY <1>1 DEF SettingsInv, TodoInv, KeptInv, CompleteInv, CacheInv
<1>4. QED BY <1>2, <1>3 DEF SettingsInv

LEMMA LoadKeeps == ASSUME SettingsInv, Load PROVE SettingsInv'
<1>1. /\ pc = "load" /\ pc' = "running" /\ todo = <<>> /\ todo' = todo
      /\ UNCHANGED <<eeprom, kept, lost, misread, stale>> /\ eeprom.data["mapping0"] \in Data
      /\ ram' \in [version : Versions, ip : Data, mapping : Data] /\ ram'.version = ram.version
      /\ ram'.ip = ram.ip
  BY CellsAre DEF SettingsInv, SettingsTypes, TodoInv, Load, meHistory
<1>2. SettingsTypes'
  BY <1>1 DEF SettingsInv, SettingsTypes
<1>3. TodoInv' /\ KeptInv' /\ CompleteInv' /\ CacheInv'
  BY <1>1 DEF SettingsInv, TodoInv, KeptInv, CompleteInv, CacheInv
<1>4. QED BY <1>2, <1>3 DEF SettingsInv

(* setIpAddress() and store() put one write of the user's before them.     *)
LEMMA ChangeKeeps ==
    ASSUME SettingsInv, SetIpAddress \/ \E mapping \in Range(Mappings) : Store(mapping)
    PROVE  SettingsInv'
<1>1. PICK c \in Cells : todo' = <<[cell |-> c, value |-> "user"]>>
  BY CellsAre DEF SetIpAddress, Store, Cells
<1>2. /\ pc = "running" /\ todo = <<>> /\ UNCHANGED <<eeprom, pc, kept, lost, misread, stale>>
      /\ ram' \in [version : Versions, ip : Data, mapping : Data]
      /\ ram'.version = ram.version /\ ram'.ip = ram.ip
  BY DEF SettingsInv, SettingsTypes, SetIpAddress, Store, meHistory, Data
<1>3. [cell |-> c, value |-> "user"] \in CellWrites
  BY DEF CellWrites
<1>4. /\ todo' \in Seq(CellWrites) /\ Len(todo') = 1 /\ todo'[1] = [cell |-> c, value |-> "user"]
      /\ todo'[1].cell = c /\ todo'[1].value = "user"
  BY <1>1, <1>3
<1>5. SettingsTypes'
  BY <1>2, <1>4 DEF SettingsInv, SettingsTypes
<1>6. TodoInv'
  <2>1. c # "version"
    BY CellsAre
  <2>2. QED BY <2>1, <1>2, <1>4 DEF TodoInv
<1>7. KeptInv' /\ CompleteInv' /\ CacheInv'
  BY <1>2 DEF SettingsInv, KeptInv, CompleteInv, CacheInv
<1>8. QED BY <1>5, <1>6, <1>7 DEF SettingsInv

LEMMA CrashKeeps == ASSUME SettingsInv, Crash PROVE SettingsInv'
<1>1. /\ pc # "off" /\ pc' = "off" /\ todo' = <<>> /\ lost' = lost \cup ToBeWritten
      /\ UNCHANGED <<ram, misread, stale>>
  BY DEF Crash
<1>2. \/ UNCHANGED <<eeprom, kept>>
      \/ /\ todo # <<>> /\ kept' = kept \ {todo[1].cell}
         /\ \/ todo[1].cell = "version" /\ \E v \in Versions : eeprom' = [eeprom EXCEPT !.version = v]
            \/ /\ todo[1].cell # "version"
               /\ eeprom' = [eeprom EXCEPT !.data[todo[1].cell] = "torn"]
  BY TailOf DEF SettingsInv, SettingsTypes, Crash
<1>3. /\ eeprom' \in [version : Versions, data : [Cells -> Data]]
      /\ \A c \in kept' : c \in kept /\ eeprom'.data[c] = eeprom.data[c]
      /\ eeprom'.version # eeprom.version => todo # <<>> /\ todo[1].cell = "version"
  BY <1>2 DEF SettingsInv, SettingsTypes, Data
<1>4. SettingsTypes'
  <2>1. \A k \in 1..Len(todo) : todo[k].cell \in Cells \cup {"version"}
    BY DEF SettingsInv, SettingsTypes, CellWrites
  <2>2. QED BY <1>1, <1>3, <2>1 DEF SettingsInv, SettingsTypes, ToBeWritten
<1>5. TodoInv'
  BY <1>1 DEF TodoInv
<1>6. KeptInv'
  <2>1. ASSUME ~misread', kept' # {} PROVE eeprom'.version = Newest
    <3>1. eeprom.version = Newest /\ (pc = "migrate" => todo = <<>>)
      BY <2>1, <1>1, <1>3 DEF SettingsInv, KeptInv
    <3>2. todo # <<>> => todo[1].cell \in Cells
      BY <3>1 DEF SettingsInv, TodoInv
    <3>3. QED BY <3>1, <3>2, <1>3, CellsAre
  <2>2. QED BY <2>1, <1>1, <1>3 DEF SettingsInv, KeptInv
<1>7. CompleteInv'
  <2>1. SUFFICES ASSUME eeprom'.version = Newest, "version" \notin lost', NEW c \in Cells, c \notin lost'
                 PROVE  eeprom'.data[c] \in {"default", "user"}
    BY DEF CompleteInv
  <2>2. /\ "version" \notin lost /\ c \notin lost
        /\ \A k \in 1..Len(todo) : todo[k].cell # "version" /\ todo[k].cell # c
    BY <1>1, <2>1 DEF ToBeWritten
  <2>3. todo # <<>> => 1 \in 1..Len(todo)
    BY TailOf DEF SettingsInv, SettingsTypes
  <2>4. eeprom'.version = eeprom.version /\ eeprom'.data[c] = eeprom.data[c]
    BY <1>2, <1>3, <2>2, <2>3 DEF SettingsInv, SettingsTypes
  <2>5. QED BY <2>1, <2>2, <2>4 DEF SettingsInv, CompleteInv
<1>8. CacheInv'
  BY <1>1 DEF CacheInv
<1>9. QED BY <1>4, <1>5, <1>6, <1>7, <1>8 DEF SettingsInv

LEMMA SettingsStep == ASSUME SettingsInv, [MeNext]_meVars PROVE SettingsInv'
<1>1. CASE PowerOn
  BY <1>1, PowerOnKeeps
<1>2. CASE ReadVersion
  BY <1>2, ReadVersionKeeps
<1>3. CASE Write
  BY <1>3, WriteKeeps
<1>4. CASE GetIpAddress
  BY <1>4, GetIpAddressKeeps
<1>5. CASE Load
  BY <1>5, LoadKeeps
<1>6. CASE SetIpAddress \/ \E mapping \in Range(Mappings) : Store(mapping)
  BY <1>6, ChangeKeeps
<1>7. CASE Crash
  BY <1>7, CrashKeeps
<1>8. CASE UNCHANGED meVars
  BY <1>8 DEF meVars, SettingsInv, SettingsTypes, TodoInv, KeptInv, CompleteInv, CacheInv
<1>9. QED BY <1>1, <1>2, <1>3, <1>4, <1>5, <1>6, <1>7, <1>8 DEF MeNext

(* The strengthened invariant: what the writes still to be made will do,   *)
(* after any failures of power and of accesses.                            *)
THEOREM SettingsAlways == MeSpec => []SettingsInv
<1>1. SettingsInv /\ [MeNext]_meVars => SettingsInv'
  BY SettingsStep
<1>2. QED BY SettingsInit, <1>1, PTL DEF MeSpec

(* Whatever failures of power and of accesses came before: a chip that     *)
(* says the newest version has settings of that version in every cell but  *)
(* those of which just the last write failed or was cut off (lost), or that*)
(* migrate() still has to write, unless the version itself was not written *)
(* whole; and each cached field is what the next start will read unless the*)
(* last access to its cell failed (stale).  At the newest version no later *)
(* start repairs a cell in lost: the theorem says how far such a failure   *)
(* reaches, not that the code makes it good.                               *)
THEOREM SettingsHold == MeSpec => []SettingsSound
<1>1. SettingsInv => SettingsSound
  <2> SUFFICES ASSUME SettingsInv PROVE SettingsSound
    OBVIOUS
  <2>1. \A k \in 1..Len(todo) : todo[k].cell \in Cells \cup {"version"}
    <3>1. \A k \in 1..Len(todo) : todo[k] \in CellWrites
      BY DEF SettingsInv, SettingsTypes
    <3>2. QED BY <3>1 DEF CellWrites
  <2>2. MeTypeOK
    BY <2>1 DEF SettingsInv, SettingsTypes, MeTypeOK
  <2>3. NewestIsComplete
    BY DEF SettingsInv, CompleteInv, NewestIsComplete, ToBeWritten
  <2>4. CachesAreStored
    BY DEF SettingsInv, CacheInv, CachesAreStored
  <2>5. QED BY <2>2, <2>3, <2>4 DEF SettingsSound
<1>2. QED BY <1>1, SettingsAlways, PTL

(* No start touches what the user stored at the newest version, however    *)
(* often power fails (migrate() at Memory.cpp:26).                         *)
THEOREM UserDataIsKept == MeSpec => UserDataKept
<1>1. ASSUME SettingsInv, [MeNext]_meVars
      PROVE  [pc # "running" /\ ~misread => \A c \in kept : eeprom'.data[c] = "user"]_meVars
  <2>1. SUFFICES ASSUME MeNext, pc # "running", ~misread, NEW c \in kept PROVE eeprom'.data[c] = "user"
    BY <1>1
  <2>2. eeprom.data[c] = "user" /\ todo = <<>>
    BY <1>1, <2>1 DEF SettingsInv, SettingsTypes, TodoInv, KeptInv
  <2>3. UNCHANGED eeprom
    BY <2>1, <2>2 DEF MeNext, PowerOn, ReadVersion, Write, GetIpAddress, Load, SetIpAddress, Store, Crash
  <2>4. QED BY <2>2, <2>3
<1>2. QED BY <1>1, SettingsAlways, PTL DEF MeSpec, UserDataKept

-----------------------------------------------------------------------------
(* The packets of the switcher.  A packet is a sequence of segments made   *)
(* flat, and its walk knows only words: the invariant (PacketInv) remembers*)
(* the state and the version the switcher had when it sent (Walks), and    *)
(* where the segments start that are read one by one (Path).  That a packet*)
(* has such a path is an induction over its segments, by the first segment *)
(* for which it would fail (NoLeast).                                      *)
FieldNames == {"PrgI", "PrvI", "AuxS", "TrSS", "DskS", "DskP", "KeOn"}

\* A word of a stream, as the head of a segment and as payload.
Word == [name : FieldNames \union {"none", "TlSr", "_ver"}, length : Nat,
         b : Nat \X Nat \X Nat \X Nat]

(* The width of a field, and of the fields of a state.                     *)
Fits(f, x) == /\ x \in Wide
              /\ f[1] = "TrSS" => x \in 0..31
              /\ f[1] \in {"KeOn", "DskS", "DskP"} => x \in {0, 1}
FieldsFit(m) == m \in [PkFields -> Wide] /\ \A f \in PkFields : Fits(f, m[f])

(* The payload of a field when the switcher had state m and version v.     *)
PayloadOf(m, v, f) ==
    CASE f[1] \in {"PrgI", "PrvI"} -> IF ver42(v) THEN <<0, 0, Hi(m[f]), Lo(m[f])>> ELSE <<0, m[f], 0, 0>>
      [] f[1] = "AuxS" -> IF ver42(v) THEN <<f[2] - 1, 0, Hi(m[f]), Lo(m[f])>> ELSE <<f[2] - 1, m[f], 0, 0>>
      [] f[1] = "TrSS" -> <<0, 0, m[f], 0>>
      [] f[1] = "KeOn" -> <<0, f[2] - 1, m[f], 0>>
      [] f[1] \in {"DskS", "DskP"} -> <<f[2] - 1, m[f], 0, 0>>

(* Word n of a stream is the head of a field or of the version, and what   *)
(* follows is what the switcher had.                                       *)
HeadIn(t, n, m, v) ==
    /\ n < Len(t)
    /\ \/ t[n].name = "_ver" /\ t[n + 1].b = <<0, v[1], 0, v[2]>>
       \/ \E f \in PkFields : t[n].name = f[1] /\ t[n + 1].b = PayloadOf(m, v, f)
StreamOf(t, m, v) ==
    /\ t \in Seq(Word)
    /\ \A n \in 1..Len(t) : t[n].name \in {"none", "TlSr"} \/ HeadIn(t, n, m, v)

LEMMA FieldsAre ==
    ASSUME NEW f \in PkFields
    PROVE  /\ f = <<f[1], f[2]>> /\ f[1] \in FieldNames
           /\ f[1] \in {"PrgI", "PrvI", "TrSS"} => f[2] = 0
           /\ f[1] = "AuxS" => f[2] \in 1..3
           /\ f[1] \in {"DskS", "DskP"} => f[2] \in 1..2
           /\ f[1] = "KeOn" => f[2] \in 1..4
           /\ f \in InputFields <=> f[1] \in {"PrgI", "PrvI", "AuxS"}
<1>1. f \in AllFields
  BY PacketAssumption
<1>2. CASE f \in {<<"PrgI", 0>>, <<"PrvI", 0>>}
  BY <1>2 DEF InputFields, FieldNames
<1>3. CASE f \in {<<"AuxS", n>> : n \in 1..3}
  BY <1>3 DEF InputFields, FieldNames
<1>4. CASE f = <<"TrSS", 0>>
  BY <1>4 DEF InputFields, FieldNames
<1>5. CASE f \in {<<name, n>> : name \in {"DskS", "DskP"}, n \in 1..2}
  BY <1>5 DEF InputFields, FieldNames
<1>6. CASE f \in {<<"KeOn", n>> : n \in 1..4}
  BY <1>6 DEF InputFields, FieldNames
<1>7. QED BY <1>1, <1>2, <1>3, <1>4, <1>5, <1>6 DEF AllFields, InputFields

LEMMA BytesOf ==
    ASSUME NEW x \in Wide
    PROVE  Hi(x) \in Nat /\ Lo(x) \in Nat /\ Hi(x) * 256 + Lo(x) = x
<1>1. x \in Nat /\ x <= 65535
  BY SMT DEF Wide
<1>2. PICK d \in Nat : d = x \div 256
  BY <1>1, SMT
<1>3. d <= 255 /\ x = 256 * d + (x % 256) /\ x % 256 \in Nat
  BY <1>1, <1>2, SMT
<1>4. d % 256 = d
  BY <1>3, SMT
<1>5. QED BY <1>2, <1>3, <1>4, SMT DEF Hi, Lo

(* The fields that a segment with this name goes to.                       *)
LEMMA StoredIs ==
    ASSUME NEW name, NEW b
    PROVE  /\ name \in {"PrgI", "PrvI"} =>
                 Stored(name, b) = Put(<<name, 0>>, Input(b, ver42(version)))
           /\ name = "AuxS" /\ b[1] <= 2 =>
                 Stored(name, b) = Put(<<name, b[1] + 1>>, Input(b, ver42(version)))
           /\ name = "TrSS" => Stored(name, b) = Put(<<name, 0>>, b[3] % 32)
           /\ name = "KeOn" /\ b[2] <= 3 =>
                 Stored(name, b) = Put(<<name, b[2] + 1>>, IF b[3] > 0 THEN 1 ELSE 0)
           /\ name \in {"DskS", "DskP"} /\ b[1] <= 1 =>
                 Stored(name, b) = Put(<<name, b[1] + 1>>, IF b[2] > 0 THEN 1 ELSE 0)
           /\ name \notin FieldNames => Stored(name, b) = copy
<1>1. CASE name \in {"PrgI", "PrvI"}
  BY <1>1 DEF Stored, FieldNames
<1>2. CASE name = "AuxS"
  BY <1>2 DEF Stored, FieldNames
<1>3. CASE name = "TrSS"
  BY <1>3 DEF Stored, FieldNames
<1>4. CASE name = "KeOn"
  BY <1>4 DEF Stored, FieldNames
<1>5. CASE name \in {"DskS", "DskP"}
  BY <1>5 DEF Stored, FieldNames
<1>6. CASE name \notin FieldNames
  BY <1>6 DEF Stored, FieldNames
<1>7. QED BY <1>1, <1>2, <1>3, <1>4, <1>5, <1>6 DEF FieldNames

LEMMA WideHas == \A n \in 0..31 : n \in Wide
BY SMT DEF Wide

(* An input is read as it was written in the same layout, as nothing in    *)
(* the other one.                                                          *)
LEMMA InputRead ==
    ASSUME NEW x \in Wide, NEW a, NEW new \in BOOLEAN, NEW as \in BOOLEAN,
           NEW b, b = IF new THEN <<a, 0, Hi(x), Lo(x)>> ELSE <<a, x, 0, 0>>
    PROVE  Input(b, as) \in Wide /\ (as = new => Input(b, as) = x)
<1>1. CASE new /\ as
  BY <1>1, BytesOf DEF Input
<1>2. CASE new /\ ~as
  <2>1. b[2] = 0 /\ Input(b, as) = b[2]
    BY <1>2 DEF Input
  <2>2. 0 \in Wide
    BY WideHas
  <2>3. QED BY <1>2, <2>1, <2>2
<1>3. CASE ~new /\ as
  <2>1. b[3] = 0 /\ b[4] = 0 /\ Input(b, as) = b[3] * 256 + b[4]
    BY <1>3 DEF Input
  <2>2. Input(b, as) = 0 * 256 + 0
    BY <2>1
  <2>3. 0 * 256 + 0 = 0 /\ 0 \in Wide
    BY WideHas
  <2>4. QED BY <1>3, <2>2, <2>3
<1>4. CASE ~new /\ ~as
  BY <1>4 DEF Input
<1>5. QED BY <1>1, <1>2, <1>3, <1>4

(* A payload that is read, in the layout of the version the desk knows.    *)
LEMMA PayloadRead ==
    ASSUME NEW m, FieldsFit(m), NEW v \in PkVersions, NEW f \in PkFields, FieldsFit(copy)
    PROVE  \E x : /\ Stored(f[1], PayloadOf(m, v, f)) = [copy EXCEPT ![f] = x]
                  /\ Fits(f, x)
                  /\ (f \in InputFields => version = v) => x = m[f]
<1>0. PICK b : b = PayloadOf(m, v, f)
  OBVIOUS
<1>1. m[f] \in Wide /\ Fits(f, m[f]) /\ f = <<f[1], f[2]>>
  BY FieldsAre DEF FieldsFit
<1>2. CASE f[1] \in {"PrgI", "PrvI"}
  <2>1. f = <<f[1], 0>> /\ f \in InputFields
    BY <1>2, FieldsAre
  <2>2. b = IF ver42(v) THEN <<0, 0, Hi(m[f]), Lo(m[f])>> ELSE <<0, m[f], 0, 0>>
    BY <1>2, <1>0 DEF PayloadOf
  <2> DEFINE x == Input(b, ver42(version))
  <2>3. Stored(f[1], b) = [copy EXCEPT ![f] = x]
    BY <1>2, <2>1, StoredIs DEF Put
  <2>4. x \in Wide
    BY <1>1, <2>2, InputRead DEF ver42
  <2>5. version = v => x = m[f]
    BY <1>1, <2>2, InputRead DEF ver42
  <2>6. Fits(f, x)
    BY <1>2, <2>4 DEF Fits
  <2>7. QED BY <1>0, <2>1, <2>3, <2>5, <2>6
<1>3. CASE f[1] = "AuxS"
  <2>1. f[2] \in 1..3 /\ f \in InputFields
    BY <1>3, FieldsAre
  <2>2. b = IF ver42(v) THEN <<f[2] - 1, 0, Hi(m[f]), Lo(m[f])>> ELSE <<f[2] - 1, m[f], 0, 0>>
    BY <1>3, <1>0 DEF PayloadOf
  <2> DEFINE x == Input(b, ver42(version))
  <2>3. b[1] <= 2 /\ <<"AuxS", b[1] + 1>> = f
    BY <1>1, <1>3, <2>1, <2>2
  <2>4. Stored(f[1], b) = [copy EXCEPT ![f] = x]
    BY <1>3, <2>3, StoredIs DEF Put
  <2>5. x \in Wide
    BY <1>1, <2>2, InputRead DEF ver42
  <2>6. version = v => x = m[f]
    BY <1>1, <2>2, InputRead DEF ver42
  <2>7. Fits(f, x)
    BY <1>3, <2>5 DEF Fits
  <2>8. QED BY <1>0, <2>1, <2>4, <2>6, <2>7
<1>4. CASE f[1] = "TrSS"
  <2>1. f = <<"TrSS", 0>> /\ m[f] \in 0..31
    BY <1>1, <1>4, FieldsAre DEF Fits
  <2>2. b = <<0, 0, m[f], 0>>
    BY <1>4, <1>0 DEF PayloadOf
  <2>3. b[3] % 32 = m[f]
    BY <2>1, <2>2
  <2>4. Stored(f[1], b) = Put(f, b[3] % 32)
    BY <1>4, <2>1, StoredIs
  <2>5. Stored(f[1], b) = [copy EXCEPT ![f] = m[f]]
    BY <2>3, <2>4 DEF Put
  <2>6. QED BY <1>0, <1>1, <2>5
<1>5. CASE f[1] = "KeOn"
  <2>1. f[2] \in 1..4 /\ m[f] \in {0, 1}
    BY <1>1, <1>5, FieldsAre DEF Fits
  <2>2. b = <<0, f[2] - 1, m[f], 0>>
    BY <1>5, <1>0 DEF PayloadOf
  <2>3. b[2] <= 3 /\ <<"KeOn", b[2] + 1>> = f /\ (IF b[3] > 0 THEN 1 ELSE 0) = m[f]
    BY <1>1, <1>5, <2>1, <2>2
  <2>4. Stored(f[1], b) = [copy EXCEPT ![f] = m[f]]
    BY <1>5, <2>3, StoredIs DEF Put
  <2>5. QED BY <1>0, <1>1, <2>4
<1>6. CASE f[1] \in {"DskS", "DskP"}
  <2>1. f[2] \in 1..2 /\ m[f] \in {0, 1}
    BY <1>1, <1>6, FieldsAre DEF Fits
  <2>2. b = <<f[2] - 1, m[f], 0, 0>>
    BY <1>6, <1>0 DEF PayloadOf
  <2>3. b[1] <= 1 /\ <<f[1], b[1] + 1>> = f /\ (IF b[2] > 0 THEN 1 ELSE 0) = m[f]
    BY <1>1, <1>6, <2>1, <2>2
  <2>4. Stored(f[1], b) = [copy EXCEPT ![f] = m[f]]
    BY <1>6, <2>3, StoredIs DEF Put
  <2>5. QED BY <1>0, <1>1, <2>4
<1>7. f[1] \in FieldNames
  BY FieldsAre
<1>8. QED BY <1>0, <1>2, <1>3, <1>4, <1>5, <1>6, <1>7 DEF FieldNames

(* What holds of 0 and, with a number, of the next one holds of all.  The  *)
(* numbers it does not hold of have no least one.                          *)
LEMMA NoLeast ==
    ASSUME NEW T \in SUBSET Nat, 0 \notin T, \A n \in Nat : n \notin T => n + 1 \notin T
    PROVE  T = {}
<1> SUFFICES ASSUME T # {} PROVE FALSE
  OBVIOUS
<1>1. PICK x \in T : \A y \in T : x <= y
  BY SmallestExists
<1>2. x # 0
  OBVIOUS
<1>3. x - 1 \in Nat /\ x - 1 < x /\ (x - 1) + 1 = x
  BY <1>2
<1>4. QED BY <1>1, <1>3

LEMMA LenIs ==
    ASSUME NEW n \in Nat, NEW S, NEW s \in [1..n -> S]
    PROVE  s \in Seq(S) /\ Len(s) = n
OBVIOUS

(* What the recursion of FlattenSeq stands for.                            *)
Flat(g, s, n) == g = [i \in 1..n |-> IF i = 1 THEN s[i] ELSE g[i - 1] \o s[i]]

LEMMA FlatExists ==
    ASSUME NEW s, NEW n \in Nat
    PROVE  \E g : Flat(g, s, n)
<1> DEFINE T == {m \in Nat : ~(\E g : Flat(g, s, m))}
<1>1. 0 \notin T
  <2>1. Flat([i \in 1..0 |-> {}], s, 0)
    BY DEF Flat
  <2>2. QED BY <2>1
<1>2. ASSUME NEW m \in Nat, m \notin T PROVE m + 1 \notin T
  <2>1. PICK g : Flat(g, s, m)
    BY <1>2
  <2>2. PICK h : h = [i \in 1..m + 1 |-> IF i = m + 1 THEN (IF i = 1 THEN s[i] ELSE g[i - 1] \o s[i]) ELSE g[i]]
    OBVIOUS
  <2>3. ASSUME NEW i \in 1..m + 1
        PROVE  h[i] = IF i = 1 THEN s[i] ELSE h[i - 1] \o s[i]
    <3>1. CASE i = m + 1
      <4>1. CASE i = 1
        BY <2>2, <3>1, <4>1
      <4>2. CASE i # 1
        <5>1. i - 1 \in 1..m + 1 /\ i - 1 # m + 1
          BY <3>1, <4>2
        <5>2. h[i - 1] = g[i - 1]
          BY <2>2, <5>1
        <5>3. QED BY <2>2, <3>1, <4>2, <5>2
      <4>3. QED BY <4>1, <4>2
    <3>2. CASE i # m + 1
      <4>1. i \in 1..m /\ h[i] = g[i]
        BY <2>2, <3>2
      <4>2. g[i] = IF i = 1 THEN s[i] ELSE g[i - 1] \o s[i]
        BY <2>1, <4>1 DEF Flat
      <4>3. i # 1 => i - 1 \in 1..m + 1 /\ i - 1 # m + 1
        BY <3>2
      <4>4. i # 1 => h[i - 1] = g[i - 1]
        BY <2>2, <4>3
      <4>5. QED BY <4>1, <4>2, <4>4
    <3>3. QED BY <3>1, <3>2
  <2>4. h = [i \in 1..m + 1 |-> h[i]]
    BY <2>2
  <2>5. Flat(h, s, m + 1)
    BY <2>3, <2>4 DEF Flat
  <2>6. QED BY <2>5
<1>3. T = {}
  <2>1. T \in SUBSET Nat
    OBVIOUS
  <2> HIDE DEF T
  <2>2. QED BY <1>1, <1>2, <2>1, NoLeast
<1>4. QED BY <1>3

LEMMA FlattenIs ==
    ASSUME NEW S, NEW n \in Nat \ {0}, NEW s \in [1..n -> S]
    PROVE  \E g : Flat(g, s, n) /\ FlattenSeq(s) = g[n]
<1>1. Len(s) = n
  BY LenIs
<1>2. PICK g : g = CHOOSE f : f = [i \in 1..n |-> IF i = 1 THEN s[i] ELSE f[i - 1] \o s[i]]
  OBVIOUS
<1>3. Flat(g, s, n)
  <2>1. \E f : f = [i \in 1..n |-> IF i = 1 THEN s[i] ELSE f[i - 1] \o s[i]]
    BY FlatExists DEF Flat
  <2>2. QED BY <1>2, <2>1, Zenon DEF Flat
<1>4. FlattenSeq(s) = g[n]
  BY <1>1, <1>2 DEF FlattenSeq
<1>5. QED BY <1>3, <1>4

LEMMA PayloadIs ==
    ASSUME NEW f \in PkFields
    PROVE  Payload(f) = PayloadOf(mixer, mixerVersion, f)
BY DEF Payload, PayloadOf

LEMMA WideIsNat == \A x \in Wide : x \in Nat
BY SMT DEF Wide

LEMMA PayloadBytes ==
    ASSUME NEW m, FieldsFit(m), NEW v, NEW f \in PkFields
    PROVE  PayloadOf(m, v, f) \in Nat \X Nat \X Nat \X Nat
<1>1. m[f] \in Nat /\ Hi(m[f]) \in Nat /\ Lo(m[f]) \in Nat
  <2>1. m[f] \in Wide
    BY DEF FieldsFit
  <2>2. m[f] \in Nat
    BY <2>1, WideIsNat
  <2>3. QED BY <2>1, <2>2, BytesOf
<1>2. f[1] \in FieldNames /\ (f[1] \in {"AuxS", "KeOn", "DskS", "DskP"} => f[2] - 1 \in Nat)
  BY FieldsAre
<1>3. CASE f[1] \in {"PrgI", "PrvI"}
  BY <1>1, <1>3 DEF PayloadOf
<1>4. CASE f[1] = "AuxS"
  BY <1>1, <1>2, <1>4 DEF PayloadOf
<1>5. CASE f[1] = "TrSS"
  BY <1>1, <1>5 DEF PayloadOf
<1>6. CASE f[1] = "KeOn"
  BY <1>1, <1>2, <1>6 DEF PayloadOf
<1>7. CASE f[1] \in {"DskS", "DskP"}
  BY <1>1, <1>2, <1>7 DEF PayloadOf
<1>8. QED BY <1>2, <1>3, <1>4, <1>5, <1>6, <1>7 DEF FieldNames

(* A segment is a stream, and its head tells of its length.                *)
SegmentIs(s) == /\ StreamOf(s, mixer, mixerVersion)
                /\ Len(s) \in Nat \ {0} /\ s[1].length = Len(s)

LEMMA SegmentsAre ==
    ASSUME FieldsFit(mixer), mixerVersion \in PkVersions, NEW s \in Segments
    PROVE  SegmentIs(s)
<1>1. \A a, x : WordOf(a, x).name = "none" /\ WordOf(a, x).length = x /\ WordOf(a, x).b = a
  BY DEF WordOf
<1>2. \A a \in Nat \X Nat \X Nat \X Nat, x \in Nat : WordOf(a, x) \in Word
  BY DEF WordOf, Word
<1>3. ASSUME NEW name, NEW n \in Nat
      PROVE  /\ HeadOf(name, n).name = name /\ HeadOf(name, n).length = n + 1
             /\ name \in FieldNames \union {"TlSr", "_ver"} => HeadOf(name, n) \in Word
  <2>1. NoBytes \in Nat \X Nat \X Nat \X Nat /\ n + 1 \in Nat
    BY DEF NoBytes
  <2>2. QED BY <2>1 DEF HeadOf, Word
<1>4. CASE \E f \in PkFields : s = <<HeadOf(f[1], 1), WordOf(Payload(f), 0)>>
  <2>1. PICK f \in PkFields : s = <<HeadOf(f[1], 1), WordOf(Payload(f), 0)>>
    BY <1>4
  <2>2. PICK b \in Nat \X Nat \X Nat \X Nat : b = Payload(f) /\ b = PayloadOf(mixer, mixerVersion, f)
    BY PayloadIs, PayloadBytes
  <2>3. PICK h, w \in Word : h = HeadOf(f[1], 1) /\ w = WordOf(b, 0)
    BY <1>2, <1>3, <2>2, FieldsAre
  <2>4. s = <<h, w>> /\ h.name = f[1] /\ h.length = 2 /\ w.name = "none" /\ w.b = b
    BY <1>1, <1>3, <2>1, <2>2, <2>3
  <2>5. s \in Seq(Word) /\ Len(s) = 2 /\ s[1] = h /\ s[2] = w
    BY <2>3, <2>4
  <2>6. HeadIn(s, 1, mixer, mixerVersion)
    BY <2>2, <2>4, <2>5 DEF HeadIn
  <2>7. QED BY <2>4, <2>5, <2>6 DEF SegmentIs, StreamOf
<1>5. CASE s = <<HeadOf("_ver", 1), WordOf(<<0, mixerVersion[1], 0, mixerVersion[2]>>, 0)>>
  <2>1. PICK b \in Nat \X Nat \X Nat \X Nat : b = <<0, mixerVersion[1], 0, mixerVersion[2]>>
    BY PacketAssumption
  <2>2. PICK h, w \in Word : h = HeadOf("_ver", 1) /\ w = WordOf(b, 0)
    BY <1>2, <1>3, <2>1
  <2>3. s = <<h, w>> /\ h.name = "_ver" /\ h.length = 2 /\ w.name = "none" /\ w.b = b
    BY <1>1, <1>3, <1>5, <2>1, <2>2
  <2>4. s \in Seq(Word) /\ Len(s) = 2 /\ s[1] = h /\ s[2] = w
    BY <2>2, <2>3
  <2>5. HeadIn(s, 1, mixer, mixerVersion)
    BY <2>1, <2>3, <2>4 DEF HeadIn
  <2>6. QED BY <2>3, <2>4, <2>5 DEF SegmentIs, StreamOf
<1>6. CASE \E u \in PkOther \X PkJunk :
               s = <<HeadOf("TlSr", u[1])>> \o [i \in 1..u[1] |-> WordOf(NoBytes, u[2])]
  <2>1. PICK n \in Nat, as \in Nat :
                 s = <<HeadOf("TlSr", n)>> \o [i \in 1..n |-> WordOf(NoBytes, as)]
    BY <1>6, PacketAssumption
  <2>2. NoBytes \in Nat \X Nat \X Nat \X Nat
    BY DEF NoBytes
  <2>3. PICK h, w \in Word : h = HeadOf("TlSr", n) /\ w = WordOf(NoBytes, as)
    BY <1>2, <1>3, <2>2
  <2>4. h.name = "TlSr" /\ h.length = n + 1 /\ w.name = "none"
    BY <1>1, <1>3, <2>3
  <2>5. PICK r : r = [i \in 1..n |-> w]
    OBVIOUS
  <2>6. r \in Seq(Word) /\ Len(r) = n /\ \A i \in 1..n : r[i] = w
    <3>1. r \in [1..n -> Word] /\ \A i \in 1..n : r[i] = w
      BY <2>3, <2>5
    <3>2. QED BY <3>1, LenIs
  <2>7. s = <<h>> \o r
    BY <2>1, <2>3, <2>5
  <2>8. s \in Seq(Word) /\ Len(s) = n + 1 /\ s[1] = h /\ \A i \in 2..(n + 1) : s[i] = w
    <3>1. <<h>> \in Seq(Word) /\ Len(<<h>>) = 1 /\ <<h>>[1] = h
      BY <2>3
    <3>2. /\ s \in Seq(Word) /\ Len(s) = 1 + n
          /\ \A i \in 1..(1 + n) : s[i] = IF i <= 1 THEN <<h>>[i] ELSE r[i - 1]
      BY <2>6, <2>7, <3>1, ConcatProperties
    <3>3. \A i \in 2..(n + 1) : i \in 1..(1 + n) /\ ~(i <= 1) /\ i - 1 \in 1..n
      OBVIOUS
    <3>4. QED BY <2>6, <3>1, <3>2, <3>3
  <2>9. \A i \in 1..Len(s) : s[i].name \in {"none", "TlSr"}
    <3>1. \A i \in 1..(n + 1) : i = 1 \/ i \in 2..(n + 1)
      OBVIOUS
    <3>2. QED BY <2>4, <2>8, <3>1
  <2>10. n + 1 \in Nat \ {0}
    OBVIOUS
  <2>11. StreamOf(s, mixer, mixerVersion)
    BY <2>8, <2>9 DEF StreamOf
  <2>12. s[1].length = Len(s) /\ Len(s) \in Nat \ {0}
    BY <2>4, <2>8, <2>10
  <2>13. QED BY <2>11, <2>12 DEF SegmentIs
<1>7. QED
  <2> DEFINE A(f) == <<HeadOf(f[1], 1), WordOf(Payload(f), 0)>>
             B == <<HeadOf("_ver", 1), WordOf(<<0, mixerVersion[1], 0, mixerVersion[2]>>, 0)>>
             C(u) == <<HeadOf("TlSr", u[1])>> \o [i \in 1..u[1] |-> WordOf(NoBytes, u[2])]
  <2>1. Segments = {A(f) : f \in PkFields} \union {B} \union {C(u) : u \in PkOther \X PkJunk}
    BY DEF Segments
  <2>2. /\ (\E f \in PkFields : s = A(f)) => SegmentIs(s)
        /\ s = B => SegmentIs(s)
        /\ (\E u \in PkOther \X PkJunk : s = C(u)) => SegmentIs(s)
    BY <1>4, <1>5, <1>6
  <2> HIDE DEF A, B, C
  <2>3. QED BY <2>1, <2>2

(* Streams that follow each other are a stream.                            *)
LEMMA StreamsJoin ==
    ASSUME NEW m, NEW v, NEW t, NEW s, StreamOf(t, m, v), StreamOf(s, m, v)
    PROVE  StreamOf(t \o s, m, v)
<1>1. t \in Seq(Word) /\ s \in Seq(Word)
  BY DEF StreamOf
<1>2. PICK u \in Seq(Word) : u = t \o s
  BY <1>1, ConcatProperties
<1>3. /\ Len(u) = Len(t) + Len(s) /\ Len(t) \in Nat /\ Len(s) \in Nat
      /\ \A i \in 1..Len(t) : u[i] = t[i]
      /\ \A i \in 1..Len(s) : u[Len(t) + i] = s[i]
  BY <1>1, <1>2, SMT
<1>4. ASSUME NEW n \in 1..Len(u) PROVE u[n].name \in {"none", "TlSr"} \/ HeadIn(u, n, m, v)
  <2>1. CASE n <= Len(t)
    <3>1. n \in 1..Len(t) /\ u[n] = t[n]
      BY <1>3, <2>1
    <3>2. CASE HeadIn(t, n, m, v)
      <4>1. n + 1 \in 1..Len(t) /\ n < Len(u)
        BY <1>3, <3>1, <3>2 DEF HeadIn
      <4>2. u[n + 1] = t[n + 1]
        BY <1>3, <4>1
      <4>3. QED BY <3>1, <3>2, <4>1, <4>2 DEF HeadIn
    <3>3. QED BY <3>1, <3>2 DEF StreamOf
  <2>2. CASE n > Len(t)
    <3>1. PICK k \in 1..Len(s) : n = Len(t) + k
      <4>1. n - Len(t) \in 1..Len(s) /\ n = Len(t) + (n - Len(t))
        BY <1>3, <2>2
      <4>2. QED BY <4>1
    <3>2. u[n] = s[k]
      BY <1>3, <3>1
    <3>3. CASE HeadIn(s, k, m, v)
      <4>1. k + 1 \in 1..Len(s) /\ n < Len(u) /\ n + 1 = Len(t) + (k + 1)
        BY <1>3, <3>1, <3>3 DEF HeadIn
      <4>2. u[n + 1] = s[k + 1]
        BY <1>3, <4>1
      <4>3. QED BY <3>2, <3>3, <4>1, <4>2 DEF HeadIn
    <3>4. QED BY <3>2, <3>3 DEF StreamOf
  <2>3. QED BY <1>3, <2>1, <2>2
<1>5. QED BY <1>2, <1>4 DEF StreamOf

(* Where segment k starts in a packet.                                     *)
Start(g, k) == IF k = 1 THEN 0 ELSE Len(g[k - 1])

LEMMA FlatStep ==
    ASSUME NEW n \in Nat, NEW s, NEW g, Flat(g, s, n)
    PROVE  /\ 1 \in 1..n => g[1] = s[1]
           /\ \A k \in 1..n : k + 1 \in 1..n => g[k + 1] = g[k] \o s[k + 1]
<1>1. \A i \in 1..n : g[i] = IF i = 1 THEN s[i] ELSE g[i - 1] \o s[i]
  BY DEF Flat
<1>2. ASSUME NEW k \in 1..n, k + 1 \in 1..n PROVE g[k + 1] = g[k] \o s[k + 1]
  <2>1. k + 1 # 1 /\ (k + 1) - 1 = k
    OBVIOUS
  <2>2. QED BY <1>1, <1>2, <2>1
<1>3. QED BY <1>1, <1>2

(* The beginnings of a packet are streams.                                 *)
LEMMA PacketIs ==
    ASSUME FieldsFit(mixer), mixerVersion \in PkVersions,
           NEW n \in Nat, NEW p \in [1..n -> Segments], NEW g, Flat(g, p, n)
    PROVE  \A k \in 1..n : StreamOf(g[k], mixer, mixerVersion)
<1>0. /\ 1 \in 1..n => g[1] = p[1]
      /\ \A i \in 1..n : i + 1 \in 1..n => g[i + 1] = g[i] \o p[i + 1]
  BY FlatStep
<1>1. \A k \in 1..n : StreamOf(p[k], mixer, mixerVersion)
  BY SegmentsAre DEF SegmentIs
<1> DEFINE T == {k \in 1..n : ~StreamOf(g[k], mixer, mixerVersion)}
<1>2. ASSUME NEW k \in Nat, k \notin T PROVE k + 1 \notin T
  <2>1. SUFFICES ASSUME k + 1 \in 1..n PROVE StreamOf(g[k + 1], mixer, mixerVersion)
    OBVIOUS
  <2>2. CASE k = 0
    <3>1. 1 \in 1..n /\ k + 1 = 1
      BY <2>1, <2>2
    <3>2. g[1] = p[1]
      BY <1>0, <3>1
    <3>3. StreamOf(g[1], mixer, mixerVersion)
      BY <1>1, <3>1, <3>2
    <3>4. QED BY <3>1, <3>3
  <2>3. CASE k # 0
    <3>1. k \in 1..n
      BY <2>1, <2>3
    <3>2. StreamOf(g[k], mixer, mixerVersion) /\ StreamOf(p[k + 1], mixer, mixerVersion)
      BY <1>1, <1>2, <2>1, <3>1
    <3>3. g[k + 1] = g[k] \o p[k + 1]
      BY <1>0, <2>1, <3>1
    <3>4. QED BY <3>2, <3>3, StreamsJoin
  <2>4. QED BY <2>2, <2>3
<1>3. T \in SUBSET Nat /\ 0 \notin T
  OBVIOUS
<1>4. T = {}
  <2> HIDE DEF T
  <2>1. QED BY <1>2, <1>3, NoLeast
<1>5. QED BY <1>4

(* A segment follows the beginning before it.                              *)
LEMMA Follow ==
    ASSUME FieldsFit(mixer), mixerVersion \in PkVersions,
           NEW n \in Nat, NEW p \in [1..n -> Segments], NEW g, Flat(g, p, n), NEW k \in 1..n
    PROVE  /\ Len(p[k]) \in Nat /\ Len(g[k]) \in Nat /\ Start(g, k) \in Nat
           /\ Len(g[k]) = Start(g, k) + Len(p[k])
           /\ \A j \in 1..Len(p[k]) : g[k][Start(g, k) + j] = p[k][j]
           /\ k # 1 => \A j \in 1..Start(g, k) : g[k][j] = g[k - 1][j]
<1>0. /\ 1 \in 1..n => g[1] = p[1]
      /\ \A i \in 1..n : i + 1 \in 1..n => g[i + 1] = g[i] \o p[i + 1]
  BY FlatStep
<1>1. p[k] \in Seq(Word) /\ g[k] \in Seq(Word)
  BY PacketIs, SegmentsAre DEF SegmentIs, StreamOf
<1>2. CASE k = 1
  <2>1. g[k] = p[k] /\ Start(g, k) = 0
    BY <1>0, <1>2 DEF Start
  <2>2. \A j \in 1..Len(p[k]) : 0 + j = j
    OBVIOUS
  <2>3. QED BY <1>1, <1>2, <2>1, <2>2
<1>3. CASE k # 1
  <2>1. PICK h : h = k - 1 /\ h \in 1..n /\ k = h + 1
    BY <1>3
  <2>2. g[h] \in Seq(Word) /\ Start(g, k) = Len(g[h])
    BY <1>3, <2>1, PacketIs DEF StreamOf, Start
  <2>3. g[k] = g[h] \o p[k]
    BY <1>0, <2>1
  <2>4. /\ Len(g[k]) = Len(g[h]) + Len(p[k]) /\ Len(g[h]) \in Nat /\ Len(p[k]) \in Nat
        /\ \A j \in 1..Len(g[h]) : g[k][j] = g[h][j]
        /\ \A j \in 1..Len(p[k]) : g[k][Len(g[h]) + j] = p[k][j]
    BY <1>1, <2>2, <2>3, SMT
  <2>5. k - 1 = h
    BY <2>1
  <2>6. QED BY <1>1, <2>2, <2>4, <2>5
<1>4. QED BY <1>2, <1>3

(* What a packet begins with stays where it is.                            *)
LEMMA Begins ==
    ASSUME FieldsFit(mixer), mixerVersion \in PkVersions,
           NEW n \in Nat, NEW p \in [1..n -> Segments], NEW g, Flat(g, p, n), NEW k \in 1..n
    PROVE  \A l \in k..n : Len(g[k]) <= Len(g[l]) /\ \A j \in 1..Len(g[k]) : g[l][j] = g[k][j]
<1> DEFINE Same(l) == Len(g[k]) <= Len(g[l]) /\ \A j \in 1..Len(g[k]) : g[l][j] = g[k][j]
           T == {l \in k..n : ~Same(l)}
<1>1. Len(g[k]) \in Nat
  BY Follow
<1>2. ASSUME NEW l \in Nat, l \notin T PROVE l + 1 \notin T
  <2>1. SUFFICES ASSUME l + 1 \in k..n PROVE Same(l + 1)
    OBVIOUS
  <2>2. CASE l + 1 = k
    BY <1>1, <2>2
  <2>3. CASE l + 1 # k
    <3>1. l \in k..n /\ l \in 1..n /\ l + 1 \in 1..n /\ l + 1 # 1 /\ (l + 1) - 1 = l
      BY <2>1, <2>3
    <3>2. Same(l)
      BY <1>2, <3>1
    <3>3. Len(g[l]) \in Nat /\ Len(p[l + 1]) \in Nat /\ Start(g, l + 1) = Len(g[l])
      BY <3>1, Follow DEF Start
    <3>4. Len(g[l + 1]) = Len(g[l]) + Len(p[l + 1]) /\ \A j \in 1..Len(g[l]) : g[l + 1][j] = g[l][j]
      <4>1. /\ Len(g[l + 1]) = Start(g, l + 1) + Len(p[l + 1])
            /\ \A j \in 1..Start(g, l + 1) : g[l + 1][j] = g[(l + 1) - 1][j]
        BY <3>1, Follow
      <4>2. QED BY <3>1, <3>3, <4>1
    <3>5. \A j \in 1..Len(g[k]) : j \in 1..Len(g[l])
      BY <1>1, <3>2, <3>3
    <3>6. \A j \in 1..Len(g[k]) : g[l + 1][j] = g[k][j]
      BY <3>2, <3>4, <3>5
    <3>7. Len(g[k]) <= Len(g[l + 1])
      <4>1. PICK x, y, z, u : x = Len(g[k]) /\ y = Len(g[l]) /\ z = Len(p[l + 1]) /\ u = Len(g[l + 1])
        OBVIOUS
      <4>2. x \in Nat /\ y \in Nat /\ z \in Nat /\ x <= y /\ u = y + z
        BY <1>1, <3>2, <3>3, <3>4, <4>1
      <4>3. x <= u
        BY <4>2
      <4>4. QED BY <4>1, <4>3
    <3>8. QED BY <3>6, <3>7
  <2>4. QED BY <2>2, <2>3
<1>3. T \in SUBSET Nat /\ 0 \notin T
  OBVIOUS
<1>4. T = {}
  <2> HIDE DEF T
  <2>1. QED BY <1>2, <1>3, NoLeast
<1> HIDE DEF Same
<1>5. \A l \in k..n : Same(l)
  BY <1>4
<1>6. QED BY <1>5 DEF Same

LEMMA SegmentAt ==
    ASSUME FieldsFit(mixer), mixerVersion \in PkVersions,
           NEW n \in Nat, NEW p \in [1..n -> Segments], NEW g, Flat(g, p, n), NEW k \in 1..n
    PROVE  /\ Start(g, k) + Len(p[k]) <= Len(g[n]) /\ Len(g[n]) \in Nat
           /\ \A j \in 1..Len(p[k]) : g[n][Start(g, k) + j] = p[k][j]
           /\ \A l \in 1..n : k < l => Start(g, k) + Len(p[k]) <= Start(g, l)
<1>1. n \in k..n /\ n \in 1..n
  OBVIOUS
<1>2. /\ Len(p[k]) \in Nat /\ Len(g[k]) \in Nat /\ Start(g, k) \in Nat
      /\ Len(g[k]) = Start(g, k) + Len(p[k])
      /\ \A j \in 1..Len(p[k]) : g[k][Start(g, k) + j] = p[k][j]
  BY Follow
<1>3. Len(g[k]) <= Len(g[n]) /\ \A j \in 1..Len(g[k]) : g[n][j] = g[k][j]
  BY <1>1, Begins
<1>4. \A j \in 1..Len(p[k]) : Start(g, k) + j \in 1..Len(g[k])
  BY <1>2
<1>5. ASSUME NEW l \in 1..n, k < l PROVE Start(g, k) + Len(p[k]) <= Start(g, l)
  <2>1. l - 1 \in k..n /\ l # 1
    BY <1>5
  <2>2. Len(g[k]) <= Len(g[l - 1])
    BY <2>1, Begins
  <2>3. QED BY <1>2, <2>1, <2>2 DEF Start
<1>6. Len(g[n]) \in Nat
  BY <1>1, Follow
<1>7. QED BY <1>2, <1>3, <1>4, <1>5, <1>6

(* The segments that are read one by one: A has where each starts, and e   *)
(* is where the last one ends.                                             *)
Path(t, A, e) ==
    /\ A \in SUBSET Nat /\ e \in Nat
    /\ \A a \in A : /\ a < e /\ a < Len(t) /\ t[a + 1].length - 1 \in 1..PkBuffer
                    /\ a + t[a + 1].length \in A \union {e}
    /\ \A a, b \in A : a < b => a + t[a + 1].length <= b

(* The first segments of a packet are on it.                               *)
Laid(t, p, last, A, e) ==
    /\ Path(t, A, e) /\ 0 \in A \union {e}
    /\ last # 0 => 0 \in A /\ t[1] = p[1][1]
    /\ \A i \in 1..last : \E a \in A : /\ a + 2 <= Len(t)
                                      /\ t[a + 1] = p[i][1] /\ t[a + 2] = p[i][2]

LEMMA PathExists ==
    ASSUME FieldsFit(mixer), mixerVersion \in PkVersions,
           NEW n \in Nat \ {0}, NEW p \in [1..n -> Segments], NEW t, t = FlattenSeq(p),
           NEW last \in 0..n, \A i \in 1..last : Len(p[i]) - 1 \in 1..PkBuffer
    PROVE  StreamOf(t, mixer, mixerVersion) /\ Len(t) # 0 /\ \E A, e : Laid(t, p, last, A, e)
<1>1. PICK g : Flat(g, p, n) /\ FlattenSeq(p) = g[n]
  BY FlattenIs
<1>2. t = g[n]
  BY <1>1
<1>3. StreamOf(t, mixer, mixerVersion) /\ Len(t) \in Nat
  BY <1>1, <1>2, PacketIs DEF StreamOf
<1>4. ASSUME NEW k \in 1..n
      PROVE  /\ Len(p[k]) \in Nat \ {0} /\ p[k][1].length = Len(p[k])
             /\ Start(g, k) \in Nat /\ Len(g[k]) = Start(g, k) + Len(p[k])
             /\ Start(g, k) + Len(p[k]) <= Len(t)
             /\ \A j \in 1..Len(p[k]) : t[Start(g, k) + j] = p[k][j]
             /\ \A l \in 1..n : k < l => Start(g, k) + Len(p[k]) <= Start(g, l)
  <2>1. Len(p[k]) \in Nat \ {0} /\ p[k][1].length = Len(p[k])
    BY SegmentsAre DEF SegmentIs
  <2>2. Start(g, k) \in Nat /\ Len(g[k]) = Start(g, k) + Len(p[k])
    BY <1>1, Follow
  <2>3. QED BY <1>1, <1>2, <2>1, <2>2, SegmentAt
<1>5. t[Start(g, 1) + 1] = p[1][1] /\ Start(g, 1) = 0
  BY <1>4 DEF Start
<1>6. Len(t) # 0
  BY <1>3, <1>4, <1>5
<1>7. PICK A : A = {Start(g, k) : k \in 1..last}
  OBVIOUS
<1>8. PICK e : e = IF last = 0 THEN 0 ELSE Len(g[last])
  OBVIOUS
<1>9. last # 0 => last \in 1..n
  OBVIOUS
<1>10. \A k \in 1..last : k \in 1..n
  OBVIOUS
<1>11. A \in SUBSET Nat
  <2>1. \A k \in 1..last : Start(g, k) \in Nat
    BY <1>4, <1>10
  <2>2. QED BY <1>7, <2>1
<1>12. e \in Nat
  BY <1>4, <1>8, <1>9
<1>13. ASSUME NEW k \in 1..last
       PROVE  /\ Start(g, k) < e /\ Start(g, k) < Len(t)
              /\ t[Start(g, k) + 1] = p[k][1] /\ t[Start(g, k) + 1].length = Len(p[k])
              /\ Start(g, k) + Len(p[k]) \in A \union {e}
              /\ Start(g, k) + 2 <= Len(t) /\ t[Start(g, k) + 2] = p[k][2]
  <2>1. Len(p[k]) - 1 \in 1..PkBuffer /\ Len(p[k]) \in Nat
    BY <1>4, <1>10
  <2>2. 2 <= Len(p[k]) /\ 1 \in 1..Len(p[k]) /\ 2 \in 1..Len(p[k])
    BY <2>1, PacketAssumption
  <2>3. t[Start(g, k) + 1] = p[k][1] /\ t[Start(g, k) + 2] = p[k][2] /\ p[k][1].length = Len(p[k])
    BY <1>4, <1>10, <2>2
  <2>4. Start(g, k) < Len(t) /\ Start(g, k) + 2 <= Len(t)
    BY <1>3, <1>4, <1>10, <2>2
  <2>5. last # 0 /\ e = Len(g[last]) /\ last \in 1..n
    BY <1>8, <1>9
  <2>6. CASE k = last
    <3>1. Start(g, k) + Len(p[k]) = e
      BY <1>4, <1>10, <2>5, <2>6
    <3>2. Start(g, k) < e
      BY <1>4, <1>10, <2>2, <3>1
    <3>3. QED BY <2>3, <2>4, <3>1, <3>2
  <2>7. CASE k # last
    <3>1. k + 1 \in 1..last /\ k + 1 # 1 /\ (k + 1) - 1 = k /\ k < last
      BY <2>7
    <3>2. Start(g, k + 1) = Len(g[k])
      BY <3>1 DEF Start
    <3>3. Start(g, k) + Len(p[k]) \in A
      BY <1>4, <1>7, <1>10, <3>1, <3>2
    <3>4. Start(g, k) + Len(p[k]) <= Start(g, last) /\ Start(g, last) + Len(p[last]) = e
      BY <1>4, <1>10, <2>5, <3>1
    <3>5. Start(g, k) < e
      <4>1. PICK x, y, z, u : x = Start(g, k) /\ y = Len(p[k]) /\ z = Start(g, last) /\ u = Len(p[last])
        OBVIOUS
      <4>2. x \in Nat /\ y \in Nat /\ z \in Nat /\ u \in Nat /\ 2 <= y /\ x + y <= z /\ z + u = e
        BY <1>4, <1>10, <2>2, <2>5, <3>4, <4>1
      <4>3. x < e
        BY <4>2
      <4>4. QED BY <4>1, <4>3
    <3>6. QED BY <2>3, <2>4, <3>3, <3>5
  <2>8. QED BY <2>6, <2>7
<1>14. ASSUME NEW a \in A
       PROVE  /\ a < e /\ a < Len(t) /\ t[a + 1].length - 1 \in 1..PkBuffer
              /\ a + t[a + 1].length \in A \union {e}
  <2>1. PICK k \in 1..last : a = Start(g, k)
    BY <1>7
  <2>2. Len(p[k]) - 1 \in 1..PkBuffer
    OBVIOUS
  <2>3. QED BY <1>13, <2>1, <2>2
<1>15. ASSUME NEW a \in A, NEW b \in A, a < b PROVE a + t[a + 1].length <= b
  <2>1. PICK k \in 1..last, l \in 1..last : a = Start(g, k) /\ b = Start(g, l)
    BY <1>7
  <2>2. k < l
    <3>1. CASE l < k
      <4>1. Start(g, l) + Len(p[l]) <= Start(g, k)
        BY <1>4, <1>10, <3>1
      <4>2. Start(g, l) \in Nat /\ Len(p[l]) \in Nat /\ Start(g, k) \in Nat
        BY <1>4, <1>10
      <4>3. QED BY <1>15, <2>1, <4>1, <4>2
    <3>2. CASE l = k
      BY <1>11, <1>15, <2>1, <3>2
    <3>3. QED BY <3>1, <3>2
  <2>3. QED BY <1>4, <1>10, <1>13, <2>1, <2>2
<1>16. Path(t, A, e)
  BY <1>11, <1>12, <1>14, <1>15 DEF Path
<1>17. last # 0 => 0 \in A
  <2>1. last # 0 => 1 \in 1..last
    OBVIOUS
  <2>2. QED BY <1>5, <1>7, <2>1
<1>18. 0 \in A \union {e}
  BY <1>8, <1>17
<1>19. \A i \in 1..last : \E a \in A : a + 2 <= Len(t) /\ t[a + 1] = p[i][1] /\ t[a + 2] = p[i][2]
  BY <1>7, <1>13
<1>20. t[1] = p[1][1]
  BY <1>5
<1>21. Laid(t, p, last, A, e)
  BY <1>16, <1>17, <1>18, <1>19, <1>20 DEF Laid
<1>22. QED BY <1>3, <1>6, <1>21

(* An expected field that is still to come.                                *)
Ahead(m, v, f, A) == \E a \in A : /\ a >= offset /\ a + 2 <= Len(stream)
                                  /\ stream[a + 1].name = f[1]
                                  /\ stream[a + 2].b = PayloadOf(m, v, f)

(* Everything expected was read; or the walk is at a head it was meant to  *)
(* be at, and what was not read is ahead.  The inputs are expected when    *)
(* the version is known or comes first.                                    *)
Settled(m, v) == \A f \in DOMAIN expected : copy[f] = m[f] /\ (f \in InputFields => version = v)
VersionFirst(A) == offset = 0 /\ 0 \in A /\ stream[1].name = "_ver"
OnPath(m, v) ==
    \E A, e :
       /\ Path(stream, A, e) /\ offset = index /\ offset \in A \union {e}
       /\ \A f \in DOMAIN expected : /\ copy[f] = m[f] \/ Ahead(m, v, f, A)
                                     /\ f \in InputFields => version = v \/ VersionFirst(A)

(* The switcher had state m and version v when it sent; when a command is  *)
(* not answered yet, what it was for has not changed since.                *)
Walks(m, v) ==
    /\ FieldsFit(m) /\ v \in PkVersions /\ StreamOf(stream, m, v)
    /\ \A f \in DOMAIN expected : f \in PkFields /\ expected[f] = m[f]
    /\ Settled(m, v) \/ OnPath(m, v)
    /\ asked.field \in PkFields => v = mixerVersion /\ m[asked.field] = mixer[asked.field]

(* What a command was for, and what the desk knows of it.                  *)
Effect(f, x, m) == IF f[1] = "TrSS" THEN HasBit(m[f], x[1]) = x[2] ELSE m[f] = x
AskedIs(f, x, s) ==
    /\ asked = [field |-> f, value |-> x, seen |-> s] /\ s \in BOOLEAN
    /\ \/ f = <<"none", 0>> /\ ~s
       \/ /\ f \in PkFields /\ version = mixerVersion /\ Effect(f, x, mixer)
          /\ s => copy[f] = mixer[f]

PacketTypes ==
    /\ FieldsFit(copy) /\ FieldsFit(mixer)
    /\ version \in PkVersions \union {<<0, 0>>} /\ mixerVersion \in PkVersions
    /\ offset \in Nat /\ index \in Nat /\ offset <= index
    /\ pkEvents \in 0..PkMaxEvents
PacketDone == \A f \in DOMAIN expected : f \in PkFields /\ copy[f] = expected[f]
PacketInv ==
    /\ PacketTypes
    /\ stream = <<>> => PacketDone
    /\ stream # <<>> => \E m, v : Walks(m, v)
    /\ \E f, x, s : AskedIs(f, x, s)

LEMMA NoneIsNoField == <<"none", 0>> \notin PkFields
BY FieldsAre DEF FieldNames

LEMMA PacketInvSound == PacketInv => PacketsSound /\ EchoAgrees
<1> SUFFICES ASSUME PacketInv PROVE PacketsSound /\ EchoAgrees
  OBVIOUS
<1>1. copy \in [PkFields -> Wide] /\ mixer \in [PkFields -> Wide]
  BY DEF PacketInv, PacketTypes, FieldsFit
<1>2. PacketTypes
  BY DEF PacketInv
<1>3. PkTypeOK
  BY <1>1, <1>2 DEF PkTypeOK, PacketTypes
<1>4. PacketRead
  BY DEF PacketRead, PacketInv, PacketDone
<1>5. PICK f, x, s : AskedIs(f, x, s)
  BY DEF PacketInv
<1>6. asked.field = f /\ asked.value = x /\ asked.seen = s
  BY <1>5 DEF AskedIs
<1>7. EchoAgrees
  <2>1. SUFFICES ASSUME s PROVE IF f[1] = "TrSS" THEN HasBit(copy[f], x[1]) = x[2] ELSE copy[f] = x
    BY <1>6 DEF EchoAgrees
  <2>2. Effect(f, x, mixer) /\ copy[f] = mixer[f]
    BY <1>5, <2>1 DEF AskedIs
  <2>3. QED BY <2>2 DEF Effect
<1>8. QED BY <1>3, <1>4, <1>7 DEF PacketsSound

LEMMA PacketInit == PkInit => PacketInv
<1> SUFFICES ASSUME PkInit PROVE PacketInv
  OBVIOUS
<1>1. \A f \in PkFields : Fits(f, 0)
  BY WideHas DEF Fits
<1>2. FieldsFit(copy) /\ FieldsFit(mixer)
  BY <1>1, WideHas DEF PkInit, FieldsFit
<1>3. PacketTypes
  BY <1>2, PacketAssumption DEF PkInit, PacketTypes
<1>4. PacketDone
  BY DEF PkInit, PacketDone
<1>5. AskedIs(<<"none", 0>>, 0, FALSE)
  BY DEF PkInit, NotAsked, AskedIs
<1>6. QED BY <1>3, <1>4, <1>5 DEF PkInit, PacketInv

(* At the end of the path nothing is ahead.                                *)
LEMMA PathEnds ==
    ASSUME PacketInv, NEW m, NEW v, Walks(m, v),
           index >= Len(stream) \/ WordAt(offset).length <= 1
    PROVE  Settled(m, v)
<1>1. SUFFICES ASSUME OnPath(m, v) PROVE Settled(m, v)
  BY DEF Walks
<1>2. PICK A, e :
         /\ Path(stream, A, e) /\ offset = index /\ offset \in A \union {e}
         /\ \A f \in DOMAIN expected : /\ copy[f] = m[f] \/ Ahead(m, v, f, A)
                                       /\ f \in InputFields => version = v \/ VersionFirst(A)
  BY <1>1 DEF OnPath
<1>3. A \in SUBSET Nat /\ e \in Nat /\ offset \in Nat /\ Len(stream) \in Nat
  BY <1>2 DEF Path, PacketInv, PacketTypes, Walks, StreamOf
<1>4. offset \notin A
  <2>1. SUFFICES ASSUME offset \in A PROVE FALSE
    OBVIOUS
  <2>2. offset < Len(stream) /\ stream[offset + 1].length - 1 \in 1..PkBuffer
    BY <1>2, <2>1 DEF Path
  <2>3. WordAt(offset) = stream[offset + 1]
    BY <2>2 DEF WordAt
  <2>4. stream[offset + 1] \in Word
    BY <1>3, <2>2 DEF Walks, StreamOf
  <2>5. stream[offset + 1].length \in Nat
    BY <2>4 DEF Word
  <2>6. QED BY <1>2, <1>3, <2>2, <2>3, <2>5, PacketAssumption
<1>5. offset = e /\ \A a \in A : ~(a >= offset)
  <2>1. offset = e
    BY <1>2, <1>4
  <2>2. \A a \in A : a \in Nat /\ a < e
    BY <1>2, <1>3 DEF Path
  <2>3. QED BY <1>3, <2>1, <2>2
<1>6. QED BY <1>2, <1>4, <1>5 DEF Settled, Ahead, VersionFirst

LEMMA StepWalkEnds ==
    ASSUME PacketInv, stream # <<>>,
           index >= Len(stream) \/ WordAt(offset).length <= 1, WalkEnds,
           UNCHANGED <<copy, version, mixer, mixerVersion, expected, pkEvents>>
    PROVE  PacketInv'
<1>1. PICK m, v : Walks(m, v)
  BY DEF PacketInv
<1>2. Settled(m, v)
  BY <1>1, PathEnds
<1>3. \A f \in DOMAIN expected : f \in PkFields /\ copy[f] = expected[f] /\ copy[f] = m[f]
  BY <1>1, <1>2 DEF Walks, Settled
<1>4. stream' = <<>> /\ offset' = 0 /\ index' = 0
  BY DEF WalkEnds
<1>5. PacketTypes'
  BY <1>4 DEF PacketInv, PacketTypes, FieldsFit, Fits
<1>6. PacketDone'
  BY <1>3 DEF PacketDone
<1>7. PICK f, x, s : AskedIs(f, x, s)
  BY DEF PacketInv
<1>8. AskedIs(f, x, s \/ f \in DOMAIN expected)'
  <2>1. asked = [field |-> f, value |-> x, seen |-> s] /\ s \in BOOLEAN /\ asked.field = f
    BY <1>7 DEF AskedIs
  <2>2. asked' = [field |-> f, value |-> x, seen |-> (s \/ f \in DOMAIN expected)]
    BY <2>1 DEF WalkEnds
  <2>3. CASE f = <<"none", 0>> /\ ~s
    <3>1. f \notin DOMAIN expected
      BY <1>3, <2>3, NoneIsNoField
    <3>2. QED BY <2>2, <2>3, <3>1 DEF AskedIs
  <2>4. CASE f \in PkFields /\ version = mixerVersion /\ Effect(f, x, mixer) /\ (s => copy[f] = mixer[f])
    <3>1. m[f] = mixer[f]
      BY <1>1, <2>1, <2>4 DEF Walks
    <3>2. s \/ f \in DOMAIN expected => copy[f] = mixer[f]
      BY <1>3, <2>4, <3>1
    <3>3. Effect(f, x, mixer)'
      BY <2>4 DEF Effect, HasBit
    <3>4. QED BY <2>2, <2>4, <3>2, <3>3 DEF AskedIs
  <2>5. QED BY <1>7, <2>3, <2>4 DEF AskedIs
<1>9. QED BY <1>4, <1>5, <1>6, <1>8 DEF PacketInv

(* What a round changes when it reads at a word of the packet.             *)
LEMMA RoundReads ==
    ASSUME PacketTypes, NEW m, NEW v, Walks(m, v), offset < Len(stream),
           NEW name, name = WordAt(offset).name, NEW b, b = WordAt(offset + 1).b,
           copy' = Stored(name, b),
           version' = IF name = "_ver" THEN <<b[2], b[4]>> ELSE version
    PROVE  /\ FieldsFit(copy') /\ version' \in {version, v}
           /\ name = "_ver" => copy' = copy /\ version' = v
           /\ \A g \in PkFields : \/ copy'[g] = copy[g] \/ copy'[g] = m[g]
                                  \/ g \in InputFields /\ version # v
           /\ \A f \in PkFields : name = f[1] /\ b = PayloadOf(m, v, f) /\ (f \in InputFields => version = v)
                  => copy'[f] = m[f]
<1>1. FieldsFit(copy) /\ FieldsFit(m) /\ v \in PkVersions /\ offset \in Nat
      /\ stream \in Seq(Word) /\ Len(stream) \in Nat
  BY DEF PacketTypes, Walks, StreamOf
<1>2. name = stream[offset + 1].name /\ offset + 1 \in 1..Len(stream)
  BY <1>1 DEF WordAt
<1>3. ASSUME NEW f \in PkFields, name = f[1], b = PayloadOf(m, v, f)
      PROVE  \E x : copy' = [copy EXCEPT ![f] = x] /\ Fits(f, x) /\ ((f \in InputFields => version = v) => x = m[f])
  <2>1. copy' = Stored(f[1], PayloadOf(m, v, f))
    BY <1>3
  <2>2. PICK x : /\ Stored(f[1], PayloadOf(m, v, f)) = [copy EXCEPT ![f] = x] /\ Fits(f, x)
                 /\ (f \in InputFields => version = v) => x = m[f]
    BY <1>1, PayloadRead
  <2>3. QED BY <2>1, <2>2
<1>4. \A f \in PkFields : f[1] # "_ver" /\ f[1] # "none" /\ f[1] # "TlSr"
  BY FieldsAre DEF FieldNames
<1>5. ASSUME NEW f \in PkFields, name = f[1], b = PayloadOf(m, v, f)
      PROVE  /\ FieldsFit(copy') /\ version' = version
             /\ \A g \in PkFields : \/ copy'[g] = copy[g] \/ copy'[g] = m[g]
                                    \/ g \in InputFields /\ version # v
             /\ (f \in InputFields => version = v) => copy'[f] = m[f]
  <2>1. PICK x : copy' = [copy EXCEPT ![f] = x] /\ Fits(f, x) /\ ((f \in InputFields => version = v) => x = m[f])
    BY <1>3, <1>5
  <2>2. version' = version
    BY <1>4, <1>5
  <2>3. copy \in [PkFields -> Wide] /\ x \in Wide
    BY <1>1, <2>1 DEF FieldsFit, Fits
  <2>4. \A g \in PkFields : copy'[g] = IF g = f THEN x ELSE copy[g]
    BY <2>1, <2>3
  <2>5. copy' \in [PkFields -> Wide]
    BY <2>1, <2>3
  <2>6. FieldsFit(copy')
    BY <1>1, <2>1, <2>4, <2>5 DEF FieldsFit
  <2>7. QED BY <2>1, <2>2, <2>4, <2>6
<1>6. CASE name \in {"none", "TlSr"}
  <2>1. copy' = copy /\ version' = version
    BY <1>6, StoredIs DEF FieldNames
  <2>2. QED BY <1>1, <1>4, <1>6, <2>1
<1>7. CASE HeadIn(stream, offset + 1, m, v)
  <2>1. offset + 1 < Len(stream)
    BY <1>7 DEF HeadIn
  <2>2. (offset + 1) + 1 = offset + 2
    BY <1>1
  <2>3. b = stream[(offset + 1) + 1].b
    BY <1>1, <2>1 DEF WordAt
  <2>4. CASE name = "_ver" /\ b = <<0, v[1], 0, v[2]>>
    <3>1. v = <<v[1], v[2]>>
      BY <1>1, PacketAssumption
    <3>2. copy' = copy
      <4>1. name \notin FieldNames
        BY <2>4 DEF FieldNames
      <4>2. QED BY <4>1, StoredIs
    <3>3. b[2] = v[1] /\ b[4] = v[2]
      BY <2>4
    <3>4. version' = v
      BY <2>4, <3>1, <3>3
    <3>5. QED BY <1>1, <1>4, <2>4, <3>2, <3>4
  <2>5. CASE \E f \in PkFields : name = f[1] /\ b = PayloadOf(m, v, f)
    <3>1. PICK f \in PkFields : name = f[1] /\ b = PayloadOf(m, v, f)
      BY <2>5
    <3>2. /\ FieldsFit(copy') /\ version' = version
          /\ \A g \in PkFields : \/ copy'[g] = copy[g] \/ copy'[g] = m[g]
                                 \/ g \in InputFields /\ version # v
      BY <1>5, <3>1
    <3>3. name # "_ver"
      BY <1>4, <3>1
    <3>4. \A g \in PkFields : name = g[1] /\ b = PayloadOf(m, v, g) /\ (g \in InputFields => version = v)
                                 => copy'[g] = m[g]
      BY <1>5
    <3>5. QED BY <3>2, <3>3, <3>4
  <2>6. QED BY <1>2, <1>7, <2>3, <2>4, <2>5 DEF HeadIn
<1>8. QED BY <1>2, <1>6, <1>7 DEF Walks, StreamOf

(* One round: what was expected and read stays, and the next head on the   *)
(* path is met, or the path is at its end.                                 *)
LEMMA StepRound ==
    ASSUME PacketInv, stream # <<>>,
           ~(index >= Len(stream) \/ WordAt(offset).length <= 1),
           copy' = Stored(WordAt(offset).name, WordAt(offset + 1).b),
           version' = IF WordAt(offset).name = "_ver"
                        THEN <<WordAt(offset + 1).b[2], WordAt(offset + 1).b[4]>> ELSE version,
           offset' = offset + 1 + ReadToPacketBuffer(WordAt(offset).length),
           index' = index + WordAt(offset).length,
           UNCHANGED <<stream, asked, mixer, mixerVersion, expected, pkEvents>>
    PROVE  PacketInv'
<1>1. PICK m, v : Walks(m, v)
  BY DEF PacketInv
<1>2. PacketTypes
  BY DEF PacketInv
<1>3. offset \in Nat /\ index \in Nat /\ offset <= index /\ Len(stream) \in Nat /\ stream \in Seq(Word)
  BY <1>1, <1>2 DEF PacketTypes, Walks, StreamOf
<1>4. offset < Len(stream)
  BY <1>3
<1>5. PICK h : h = WordAt(offset)
  OBVIOUS
<1>6. h = stream[offset + 1] /\ h \in Word
  BY <1>3, <1>4, <1>5 DEF WordAt
<1>7. PICK length \in Nat : length = h.length
  BY <1>6 DEF Word
<1>8. PICK b : b = WordAt(offset + 1).b
  OBVIOUS
<1>9. ~(length <= 1) /\ index < Len(stream) /\ index' = index + length
      /\ offset' = offset + 1 + ReadToPacketBuffer(length)
  BY <1>3, <1>5, <1>7
<1>10. /\ FieldsFit(copy') /\ version' \in {version, v}
       /\ h.name = "_ver" => copy' = copy /\ version' = v
       /\ \A g \in PkFields : \/ copy'[g] = copy[g] \/ copy'[g] = m[g]
                              \/ g \in InputFields /\ version # v
       /\ \A f \in PkFields : h.name = f[1] /\ b = PayloadOf(m, v, f) /\ (f \in InputFields => version = v)
              => copy'[f] = m[f]
  <2>1. PICK name : name = WordAt(offset).name /\ name = h.name
    BY <1>5
  <2>2. copy' = Stored(name, b) /\ version' = IF name = "_ver" THEN <<b[2], b[4]>> ELSE version
    BY <1>8, <2>1
  <2>3. QED BY <1>1, <1>2, <1>4, <1>8, <2>1, <2>2, RoundReads
<1>11. PacketTypes'
  <2>1. ReadToPacketBuffer(length) \in Nat /\ ReadToPacketBuffer(length) <= length - 1
    BY <1>9, PacketAssumption DEF ReadToPacketBuffer
  <2>2. offset' \in Nat /\ index' \in Nat /\ offset' <= index'
    BY <1>3, <1>9, <2>1
  <2>3. version' \in PkVersions \union {<<0, 0>>}
    BY <1>1, <1>2, <1>10 DEF PacketTypes, Walks
  <2>4. QED BY <1>2, <1>10, <2>2, <2>3 DEF PacketTypes, FieldsFit, Fits
<1>12. \A f \in DOMAIN expected : f \in PkFields
  BY <1>1 DEF Walks
<1>13. ASSUME Settled(m, v) PROVE Settled(m, v)'
  <2>1. \A f \in DOMAIN expected : copy'[f] = m[f] /\ (f \in InputFields => version' = v)
    BY <1>10, <1>12, <1>13 DEF Settled
  <2>2. QED BY <2>1 DEF Settled
<1>14. ASSUME OnPath(m, v) PROVE (Settled(m, v) \/ OnPath(m, v))'
  <2>1. PICK A, e :
           /\ Path(stream, A, e) /\ offset = index /\ offset \in A \union {e}
           /\ \A f \in DOMAIN expected : /\ copy[f] = m[f] \/ Ahead(m, v, f, A)
                                         /\ f \in InputFields => version = v \/ VersionFirst(A)
    BY <1>14 DEF OnPath
  <2>2. A \in SUBSET Nat /\ e \in Nat /\ \A a \in A : a < e
    BY <2>1 DEF Path
  <2>3. CASE offset \notin A
    <3>1. offset = e
      BY <2>1, <2>3
    <3>2. \A a \in A : a \in Nat /\ a < e
      BY <2>2
    <3>3. \A a \in A : ~(a >= offset)
      BY <2>2, <3>1, <3>2
    <3>4. Settled(m, v)
      BY <2>1, <2>3, <3>3 DEF Settled, Ahead, VersionFirst
    <3>5. QED BY <1>13, <3>4
  <2>4. CASE offset \in A
    <3>1. /\ length - 1 \in 1..PkBuffer /\ offset + length \in A \union {e}
          /\ \A a \in A : offset < a => offset + length <= a
      BY <1>6, <1>7, <2>1, <2>4 DEF Path
    <3>2. offset' = offset + length /\ index' = offset + length
      <4>1. ReadToPacketBuffer(length) = length - 1
        BY <1>3, <3>1, PacketAssumption DEF ReadToPacketBuffer
      <4>2. QED BY <1>3, <1>9, <2>1, <4>1
    <3>3. ASSUME NEW f \in DOMAIN expected
          PROVE  /\ copy'[f] = m[f] \/ Ahead(m, v, f, A)'
                 /\ f \in InputFields => version' = v
      <4>1. f \in PkFields
        BY <1>12
      <4>2. f \in InputFields => version = v \/ h.name = "_ver"
        BY <1>6, <2>1, <3>3 DEF VersionFirst
      <4>3. CASE copy[f] = m[f]
        BY <1>10, <4>1, <4>2, <4>3
      <4>4. CASE Ahead(m, v, f, A)
        <5>1. PICK a \in A : /\ a >= offset /\ a + 2 <= Len(stream)
                             /\ stream[a + 1].name = f[1] /\ stream[a + 2].b = PayloadOf(m, v, f)
          BY <4>4 DEF Ahead
        <5>2. CASE a = offset
          <6>1. h.name = f[1] /\ h.name # "_ver"
            BY <1>6, <4>1, <5>1, <5>2, FieldsAre DEF FieldNames
          <6>2. (offset + 1) + 1 = offset + 2 /\ offset + 1 < Len(stream)
            BY <1>3, <5>1, <5>2
          <6>3. b = stream[offset + 2].b
            BY <1>8, <6>2 DEF WordAt
          <6>4. b = PayloadOf(m, v, f)
            BY <5>1, <5>2, <6>3
          <6>5. QED BY <1>10, <4>1, <4>2, <6>1, <6>4
        <5>3. CASE a # offset
          <6>1. a >= offset'
            BY <1>3, <2>2, <3>1, <3>2, <5>1, <5>3
          <6>2. Ahead(m, v, f, A)'
            BY <5>1, <6>1 DEF Ahead, PayloadOf
          <6>3. QED BY <1>10, <4>2, <6>2
        <5>4. QED BY <5>2, <5>3
      <4>5. QED BY <2>1, <3>3, <4>3, <4>4
    <3>4. Path(stream', A, e) /\ offset' = index' /\ offset' \in A \union {e}
      BY <2>1, <3>1, <3>2
    <3>5. OnPath(m, v)'
      BY <3>3, <3>4 DEF OnPath
    <3>6. QED BY <3>5
  <2>5. QED BY <2>3, <2>4
<1>15. Walks(m, v)'
  <2>1. (Settled(m, v) \/ OnPath(m, v))'
    BY <1>1, <1>13, <1>14 DEF Walks
  <2>2. StreamOf(stream', m, v) /\ FieldsFit(m) /\ v \in PkVersions
    BY <1>1 DEF Walks
  <2>3. QED BY <1>1, <2>1, <2>2 DEF Walks
<1>16. PICK f, x, s : AskedIs(f, x, s)
  BY DEF PacketInv
<1>17. AskedIs(f, x, s)'
  <2>1. asked = [field |-> f, value |-> x, seen |-> s] /\ asked.field = f
    BY <1>16 DEF AskedIs
  <2>2. ASSUME f \in PkFields, version = mixerVersion, Effect(f, x, mixer), s => copy[f] = mixer[f]
        PROVE  version' = mixerVersion /\ (s => copy'[f] = mixer[f]) /\ Effect(f, x, mixer')
    <3>1. v = mixerVersion /\ m[f] = mixer[f]
      BY <1>1, <2>1, <2>2 DEF Walks
    <3>2. version' = mixerVersion
      BY <1>10, <2>2, <3>1
    <3>3. s => copy'[f] = mixer[f]
      BY <1>10, <2>2, <3>1
    <3>4. QED BY <2>2, <3>2, <3>3
  <2>3. QED BY <1>16, <2>2 DEF AskedIs
<1>18. stream' # <<>>
  OBVIOUS
<1>19. QED BY <1>11, <1>15, <1>17, <1>18 DEF PacketInv

LEMMA StepParseSegment == ASSUME PacketInv, ParseSegment PROVE PacketInv'
<1>1. CASE index >= Len(stream) \/ WordAt(offset).length <= 1
  BY <1>1, StepWalkEnds DEF ParseSegment
<1>2. CASE ~(index >= Len(stream) \/ WordAt(offset).length <= 1)
  BY <1>2, StepRound DEF ParseSegment
<1>3. QED BY <1>1, <1>2

(* The segments before the first odd one are whole.                        *)
LastWhole(p) == IF Odd(p) = 0 THEN Len(p) ELSE Odd(p) - 1

LEMMA WholeAre ==
    ASSUME NEW n \in Nat, NEW p \in [1..n -> Segments]
    PROVE  LastWhole(p) \in 0..n /\ \A i \in 1..LastWhole(p) : Len(p[i]) - 1 \in 1..PkBuffer
<1>1. Len(p) = n
  BY LenIs
<1>2. PICK I : I = {i \in 1..n : Len(p[i]) - 1 \notin 1..PkBuffer}
  OBVIOUS
<1>3. Odd(p) = IF I # {} THEN Min(I) ELSE 0
  BY <1>1, <1>2 DEF Odd, SelectInSeq
<1>4. CASE I = {}
  <2>1. LastWhole(p) = n
    BY <1>1, <1>3, <1>4 DEF LastWhole
  <2>2. \A i \in 1..n : Len(p[i]) - 1 \in 1..PkBuffer
    BY <1>2, <1>4
  <2>3. QED BY <2>1, <2>2
<1>5. CASE I # {}
  <2>1. \E x \in I : \A y \in I : x <= y
    <3>1. I \in SUBSET Nat
      BY <1>2
    <3>2. QED BY <1>5, <3>1, SmallestExists
  <2>2. Min(I) \in I /\ \A y \in I : Min(I) <= y
    BY <2>1 DEF Min
  <2>3. PICK k \in 1..n : k = Min(I)
    BY <1>2, <2>2
  <2>4. LastWhole(p) = k - 1
    BY <1>3, <1>5, <2>3 DEF LastWhole
  <2>5. \A i \in 1..(k - 1) : i \in 1..n /\ ~(k <= i)
    OBVIOUS
  <2>6. \A i \in 1..(k - 1) : i \notin I
    BY <2>2, <2>3, <2>5
  <2>7. \A i \in 1..(k - 1) : Len(p[i]) - 1 \in 1..PkBuffer
    BY <1>2, <2>5, <2>6
  <2>8. k - 1 \in 0..n
    OBVIOUS
  <2>9. QED BY <2>4, <2>7, <2>8
<1>6. QED BY <1>4, <1>5

(* What is bound to be read is in one of them.                             *)
LEMMA BoundIs ==
    ASSUME NEW p, NEW f \in DOMAIN BoundToBeRead(p)
    PROVE  /\ f \in PkFields /\ BoundToBeRead(p)[f] = mixer[f]
           /\ \E i \in 1..LastWhole(p) : p[i] = <<HeadOf(f[1], 1), WordOf(Payload(f), 0)>>
           /\ f \in InputFields => version = mixerVersion \/ p[1][1].name = "_ver"
<1> DEFINE named == {g \in PkFields : \E i \in 1..LastWhole(p) :
                        p[i] = <<HeadOf(g[1], 1), WordOf(Payload(g), 0)>>}
           sure == version = mixerVersion \/ p[1][1].name = "_ver"
<1>1. BoundToBeRead(p) = [g \in {k \in named : sure \/ k \notin InputFields} |-> mixer[g]]
  BY DEF BoundToBeRead, LastWhole
<1>2. f \in named /\ (sure \/ f \notin InputFields) /\ BoundToBeRead(p)[f] = mixer[f]
  <2> HIDE DEF named, sure
  <2>1. QED BY <1>1
<1>3. QED BY <1>2

LEMMA StepSwitcherSends ==
    ASSUME PacketInv, NEW p \in Packets, SwitcherSends(p)
    PROVE  PacketInv'
<1>1. PICK n \in Nat \ {0} : p \in [1..n -> Segments]
  <2>1. PICK n \in 1..PkSegments : p \in [1..n -> Segments]
    BY DEF Packets
  <2>2. n \in Nat \ {0}
    BY PacketAssumption
  <2>3. QED BY <2>1, <2>2
<1>2. PICK last \in 0..n : last = LastWhole(p) /\ \A i \in 1..last : Len(p[i]) - 1 \in 1..PkBuffer
  BY <1>1, WholeAre
<1>3. FieldsFit(mixer) /\ mixerVersion \in PkVersions
  BY DEF PacketInv, PacketTypes
<1>4. PICK t : t = FlattenSeq(p)
  OBVIOUS
<1>5. StreamOf(t, mixer, mixerVersion) /\ Len(t) # 0 /\ \E A, e : Laid(t, p, last, A, e)
  BY <1>1, <1>2, <1>3, <1>4, PathExists
<1>6. PICK A, e : /\ Path(t, A, e) /\ 0 \in A \union {e}
                  /\ last # 0 => 0 \in A /\ t[1] = p[1][1]
                  /\ \A i \in 1..last : \E a \in A : /\ a + 2 <= Len(t)
                                                    /\ t[a + 1] = p[i][1] /\ t[a + 2] = p[i][2]
  BY <1>5 DEF Laid
<1>7. /\ stream' = t /\ offset' = 0 /\ index' = 0 /\ expected' = BoundToBeRead(p)
      /\ pkEvents < PkMaxEvents /\ pkEvents' = pkEvents + 1
      /\ UNCHANGED <<copy, version, mixer, mixerVersion, asked>>
  BY <1>4 DEF SwitcherSends
<1>8. stream' # <<>>
  BY <1>5, <1>7
<1>9. PacketTypes'
  BY <1>7, PacketAssumption DEF PacketInv, PacketTypes, FieldsFit, Fits
<1>10. ASSUME NEW f \in DOMAIN BoundToBeRead(p)
       PROVE  /\ f \in PkFields /\ BoundToBeRead(p)[f] = mixer[f]
              /\ Ahead(mixer, mixerVersion, f, A)'
              /\ f \in InputFields => version = mixerVersion \/ VersionFirst(A)'
  <2>1. f \in PkFields /\ BoundToBeRead(p)[f] = mixer[f]
    BY BoundIs
  <2>2. PICK i \in 1..last : p[i] = <<HeadOf(f[1], 1), WordOf(Payload(f), 0)>>
    BY <1>2, BoundIs
  <2>3. PICK a \in A : a + 2 <= Len(t) /\ t[a + 1] = p[i][1] /\ t[a + 2] = p[i][2]
    BY <1>6
  <2>4. t[a + 1].name = f[1] /\ t[a + 2].b = PayloadOf(mixer, mixerVersion, f)
    BY <2>1, <2>2, <2>3, PayloadIs DEF HeadOf, WordOf
  <2>5. a >= 0
    BY <1>6 DEF Path
  <2>6. Ahead(mixer, mixerVersion, f, A)'
    <3>1. PayloadOf(mixer', mixerVersion', f) = PayloadOf(mixer, mixerVersion, f)
      BY <1>7
    <3>2. a >= offset' /\ a + 2 <= Len(stream') /\ stream'[a + 1].name = f[1]
          /\ stream'[a + 2].b = PayloadOf(mixer', mixerVersion', f)
      BY <1>7, <2>3, <2>4, <2>5, <3>1
    <3>3. QED BY <3>2 DEF Ahead
  <2>7. f \in InputFields => version = mixerVersion \/ p[1][1].name = "_ver"
    BY BoundIs
  <2>8. last # 0
    BY <2>2
  <2>9. f \in InputFields => version = mixerVersion \/ VersionFirst(A)'
    BY <1>6, <1>7, <2>7, <2>8 DEF VersionFirst
  <2>10. QED BY <2>1, <2>6, <2>9
<1>11. OnPath(mixer, mixerVersion)'
  BY <1>6, <1>7, <1>10 DEF OnPath
<1>12. Walks(mixer, mixerVersion)'
  <2>1. FieldsFit(mixer') /\ mixerVersion' \in PkVersions /\ StreamOf(stream', mixer', mixerVersion')
    BY <1>3, <1>5, <1>7
  <2>2. \A f \in DOMAIN expected' : f \in PkFields /\ expected'[f] = mixer'[f]
    BY <1>7, <1>10
  <2>3. QED BY <1>11, <2>1, <2>2 DEF Walks
<1>13. PICK f, x, s : AskedIs(f, x, s)
  BY DEF PacketInv
<1>14. AskedIs(f, x, s)'
  BY <1>7, <1>13 DEF AskedIs, Effect, HasBit
<1>15. \E m, v : Walks(m, v)'
  BY <1>12
<1>16. QED BY <1>8, <1>9, <1>14, <1>15 DEF PacketInv

(* What the switcher takes a command for, by its name.                     *)
LEMMA TakenIs ==
    ASSUME NEW c, NEW b, b = c.b
    PROVE  LET new == ver42(mixerVersion)
           IN  /\ c.name = "CPgI" => Taken(c) = [field |-> <<"PrgI", 0>>, value |-> Input(b, new)]
               /\ c.name = "CPvI" => Taken(c) = [field |-> <<"PrvI", 0>>, value |-> Input(b, new)]
               /\ c.name = "CAuS" => Taken(c) = [field |-> <<"AuxS", (IF new THEN b[2] ELSE b[1]) + 1>>,
                                                 value |-> Input(b, new)]
               /\ c.name = "CTTp" => Taken(c) = [field |-> <<"TrSS", 0>>, value |-> b[4]]
               /\ c.name = "CKOn" => Taken(c) = [field |-> <<"KeOn", b[2] + 1>>, value |-> b[3]]
               /\ c.name = "CDsL" => Taken(c) = [field |-> <<"DskS", b[1] + 1>>, value |-> b[2]]
               /\ c.name = "CDsT" => Taken(c) = [field |-> <<"DskP", b[1] + 1>>, value |-> b[2]]
<1>1. CASE c.name = "CPgI"
  BY <1>1 DEF Taken
<1>2. CASE c.name = "CPvI"
  BY <1>2 DEF Taken
<1>3. CASE c.name = "CAuS"
  BY <1>3 DEF Taken
<1>4. CASE c.name = "CTTp"
  BY <1>4 DEF Taken
<1>5. CASE c.name = "CKOn"
  BY <1>5 DEF Taken
<1>6. CASE c.name = "CDsL"
  BY <1>6 DEF Taken
<1>7. CASE c.name = "CDsT"
  BY <1>7 DEF Taken
<1>8. QED BY <1>1, <1>2, <1>3, <1>4, <1>5, <1>6, <1>7

(* A command for a keyer is taken for this keyer, whatever the versions.   *)
LEMMA KeyerTaken ==
    ASSUME NEW f \in PkFields, f \notin InputFields, NEW w
    PROVE  Taken(Command(f, w)) = [field |-> f, value |-> IF f[1] = "TrSS" THEN w % 32 ELSE w]
<1>1. f = <<f[1], f[2]>> /\ f[1] \in {"TrSS", "KeOn", "DskS", "DskP"}
  BY FieldsAre DEF FieldNames
<1>2. PICK c : c = Command(f, w) /\ c = KeyerCommand(f, w)
  BY DEF Command
<1>3. CASE f[1] = "TrSS"
  <2>1. f = <<"TrSS", 0>> /\ c = [name |-> "CTTp", b |-> <<2, 0, 106, w % 32>>]
    BY <1>1, <1>2, <1>3, FieldsAre DEF KeyerCommand
  <2>2. PICK b : b = c.b /\ b[4] = w % 32
    BY <2>1
  <2>3. Taken(c) = [field |-> <<"TrSS", 0>>, value |-> b[4]]
    BY <2>1, <2>2, TakenIs
  <2>4. QED BY <1>2, <1>3, <2>1, <2>2, <2>3
<1>4. CASE f[1] = "KeOn"
  <2>1. f[2] \in 1..4 /\ c = [name |-> "CKOn", b |-> <<0, f[2] - 1, w, 144>>]
    BY <1>2, <1>4, FieldsAre DEF KeyerCommand
  <2>2. PICK b : b = c.b /\ b[2] = f[2] - 1 /\ b[3] = w
    BY <2>1
  <2>3. Taken(c) = [field |-> <<"KeOn", b[2] + 1>>, value |-> b[3]]
    BY <2>1, <2>2, TakenIs
  <2>4. b[2] + 1 = f[2]
    BY <2>1, <2>2
  <2>5. QED BY <1>1, <1>2, <1>4, <2>2, <2>3, <2>4
<1>5. CASE f[1] = "DskS"
  <2>1. f[2] \in 1..2 /\ c = [name |-> "CDsL", b |-> <<f[2] - 1, w, 255, 255>>]
    BY <1>2, <1>5, FieldsAre DEF KeyerCommand
  <2>2. PICK b : b = c.b /\ b[1] = f[2] - 1 /\ b[2] = w
    BY <2>1
  <2>3. Taken(c) = [field |-> <<"DskS", b[1] + 1>>, value |-> b[2]]
    BY <2>1, <2>2, TakenIs
  <2>4. b[1] + 1 = f[2]
    BY <2>1, <2>2
  <2>5. QED BY <1>1, <1>2, <1>5, <2>2, <2>3, <2>4
<1>6. CASE f[1] = "DskP"
  <2>1. f[2] \in 1..2 /\ c = [name |-> "CDsT", b |-> <<f[2] - 1, w, 255, 255>>]
    BY <1>2, <1>6, FieldsAre DEF KeyerCommand
  <2>2. PICK b : b = c.b /\ b[1] = f[2] - 1 /\ b[2] = w
    BY <2>1
  <2>3. Taken(c) = [field |-> <<"DskP", b[1] + 1>>, value |-> b[2]]
    BY <2>1, <2>2, TakenIs
  <2>4. b[1] + 1 = f[2]
    BY <2>1, <2>2
  <2>5. QED BY <1>1, <1>2, <1>6, <2>2, <2>3, <2>4
<1>7. QED BY <1>1, <1>3, <1>4, <1>5, <1>6

LEMMA NumbersFit ==
    ASSUME NEW i \in PkInputs, NEW new \in BOOLEAN
    PROVE  InputNumber(i, new) \in Wide /\ (~new => InputNumber(i, new) \in 0..255)
<1>1. i \in {"InBlack", "In1", "In8", "InBars", "InColor1", "InColor2",
             "InMedia1", "InMedia2", "Program", "Preview"}
  BY PacketAssumption
<1>2. CASE i = "InBlack"
  BY <1>2, SMT DEF InputNumber, Wide
<1>3. CASE i = "In1"
  BY <1>3, SMT DEF InputNumber, Wide
<1>4. CASE i = "In8"
  BY <1>4, SMT DEF InputNumber, Wide
<1>5. CASE i = "InBars"
  BY <1>5, SMT DEF InputNumber, Wide
<1>6. CASE i = "InColor1"
  BY <1>6, SMT DEF InputNumber, Wide
<1>7. CASE i = "InColor2"
  BY <1>7, SMT DEF InputNumber, Wide
<1>8. CASE i = "InMedia1"
  BY <1>8, SMT DEF InputNumber, Wide
<1>9. CASE i = "InMedia2"
  BY <1>9, SMT DEF InputNumber, Wide
<1>10. CASE i = "Program"
  BY <1>10, SMT DEF InputNumber, Wide
<1>11. CASE i = "Preview"
  BY <1>11, SMT DEF InputNumber, Wide
<1>12. QED BY <1>1, <1>2, <1>3, <1>4, <1>5, <1>6, <1>7, <1>8, <1>9, <1>10, <1>11

(* A command for an input is taken for it when the desk and the switcher   *)
(* have the same layout, and for an input all the same when they have not. *)
LEMMA InputTaken ==
    ASSUME NEW f \in PkFields, f \in InputFields,
           NEW w \in Wide, ~ver42(version) => w \in 0..255
    PROVE  LET taken == Taken(Command(f, w))
           IN  /\ taken.field[1] \in {"PrgI", "PrvI", "AuxS"} /\ taken.value \in Wide
               /\ version = mixerVersion => taken = [field |-> f, value |-> w]
<1>1. f = <<f[1], f[2]>> /\ f[1] \in {"PrgI", "PrvI", "AuxS"}
  BY FieldsAre
<1>2. ver42(version) \in BOOLEAN /\ ver42(mixerVersion) \in BOOLEAN
  BY DEF ver42
<1>3. PICK new \in BOOLEAN : new = ver42(mixerVersion)
  BY <1>2
<1>4. ~ver42(version) => Lo(w) = w
  <2>1. \A n \in 0..255 : n % 256 = n
    BY SMT
  <2>2. QED BY <2>1 DEF Lo
<1>5. PICK c : c = Command(f, w)
  OBVIOUS
<1>6. CASE f[1] \in {"PrgI", "PrvI"}
  <2>1. f[2] = 0 /\ f = <<f[1], 0>>
    BY <1>1, <1>6, FieldsAre
  <2>2. c = [name |-> IF f[1] = "PrgI" THEN "CPgI" ELSE "CPvI",
             b |-> IF ver42(version) THEN <<0, 0, Hi(w), Lo(w)>> ELSE <<0, Lo(w), 0, 0>>]
    BY <1>5, <1>6 DEF Command, InputCommand
  <2>3. PICK b : b = c.b /\ b = IF ver42(version) THEN <<0, 0, Hi(w), Lo(w)>> ELSE <<0, w, 0, 0>>
    BY <1>4, <2>2
  <2>4. Taken(c) = [field |-> f, value |-> Input(b, new)]
    BY <1>3, <1>6, <2>1, <2>2, <2>3, TakenIs
  <2>5. Input(b, new) \in Wide /\ (new = ver42(version) => Input(b, new) = w)
    BY <1>2, <2>3, InputRead
  <2>6. QED BY <1>3, <1>5, <1>6, <2>4, <2>5
<1>7. CASE f[1] = "AuxS"
  <2>1. f[2] \in 1..3
    BY <1>7, FieldsAre
  <2>2. c = [name |-> "CAuS",
             b |-> IF ver42(version) THEN <<1, f[2] - 1, Hi(w), Lo(w)>> ELSE <<f[2] - 1, Lo(w), 0, 0>>]
    BY <1>5, <1>7 DEF Command, AuxCommand
  <2>3. PICK b : b = c.b /\ b = IF ver42(version) THEN <<1, f[2] - 1, Hi(w), Lo(w)>> ELSE <<f[2] - 1, w, 0, 0>>
    BY <1>4, <2>2
  <2>4. Taken(c) = [field |-> <<"AuxS", (IF new THEN b[2] ELSE b[1]) + 1>>, value |-> Input(b, new)]
    BY <1>3, <2>2, <2>3, TakenIs
  <2>5. CASE new = ver42(version)
    <3>1. (IF new THEN b[2] ELSE b[1]) + 1 = f[2]
      BY <2>1, <2>3, <2>5
    <3>2. Input(b, new) = w
      BY <2>3, <2>5, BytesOf DEF Input
    <3>3. QED BY <1>1, <1>3, <1>5, <1>7, <2>4, <3>1, <3>2
  <2>6. CASE new /\ ~ver42(version)
    <3>1. b[3] = 0 /\ b[4] = 0 /\ Input(b, new) = b[3] * 256 + b[4]
      BY <2>3, <2>6 DEF Input
    <3>2. Input(b, new) = 0 * 256 + 0
      BY <3>1
    <3>3. 0 * 256 + 0 = 0 /\ 0 \in Wide
      BY WideHas
    <3>4. Input(b, new) \in Wide
      BY <3>2, <3>3
    <3>5. version # mixerVersion
      BY <1>3, <2>6
    <3>6. Taken(c).field[1] = "AuxS" /\ Taken(c).value \in Wide
      BY <2>4, <3>4
    <3>7. QED BY <1>5, <3>5, <3>6
  <2>7. CASE ~new /\ ver42(version)
    <3>1. Input(b, new) = f[2] - 1 /\ f[2] - 1 \in 0..31
      BY <2>1, <2>3, <2>7 DEF Input
    <3>2. Input(b, new) \in Wide
      BY <3>1, WideHas
    <3>3. version # mixerVersion
      BY <1>3, <2>7
    <3>4. Taken(c).field[1] = "AuxS" /\ Taken(c).value \in Wide
      BY <2>4, <3>2
    <3>5. QED BY <1>5, <3>3, <3>4
  <2>8. QED BY <1>2, <2>5, <2>6, <2>7
<1>8. QED BY <1>1, <1>6, <1>7

(* A bit of a mask of five, set and cleared.                               *)
LEMMA Bit2 ==
    \A m \in 0..31 :
        /\ ~((m \div 2) % 2 = 1) => m + 2 \in 0..31 /\ ((m + 2) \div 2) % 2 = 1
        /\ (m \div 2) % 2 = 1 => m - 2 \in 0..31 /\ ~(((m - 2) \div 2) % 2 = 1)
OBVIOUS

LEMMA Bit4 ==
    \A m \in 0..31 :
        /\ ~((m \div 4) % 2 = 1) => m + 4 \in 0..31 /\ ((m + 4) \div 4) % 2 = 1
        /\ (m \div 4) % 2 = 1 => m - 4 \in 0..31 /\ ~(((m - 4) \div 4) % 2 = 1)
OBVIOUS

LEMMA Bit8 ==
    \A m \in 0..31 :
        /\ ~((m \div 8) % 2 = 1) => m + 8 \in 0..31 /\ ((m + 8) \div 8) % 2 = 1
        /\ (m \div 8) % 2 = 1 => m - 8 \in 0..31 /\ ~(((m - 8) \div 8) % 2 = 1)
OBVIOUS

LEMMA Bit16 ==
    \A m \in 0..31 :
        /\ ~((m \div 16) % 2 = 1) => m + 16 \in 0..31 /\ ((m + 16) \div 16) % 2 = 1
        /\ (m \div 16) % 2 = 1 => m - 16 \in 0..31 /\ ~(((m - 16) \div 16) % 2 = 1)
OBVIOUS

(* The mask of the next transition with one bit turned.                    *)
LEMMA MaskTurned ==
    ASSUME copy[<<"TrSS", 0>>] \in 0..31, NEW k \in 1..4,
           NEW on \in BOOLEAN, on = ~HasBit(copy[<<"TrSS", 0>>], k)
    PROVE  /\ NextMask(k, on) \in 0..31 /\ NextMask(k, on) % 32 = NextMask(k, on)
           /\ HasBit(NextMask(k, on), k) = on
<1>1. PICK mask \in 0..31 : mask = copy[<<"TrSS", 0>>]
  OBVIOUS
<1>2. NextMask(k, on) = IF on THEN mask + 2 ^ k ELSE mask - 2 ^ k
  BY <1>1 DEF NextMask, HasBit
<1>3. 2^1 = 2 /\ 2^2 = 4 /\ 2^3 = 8 /\ 2^4 = 16
  BY SMT
<1>4. PICK bit \in {2, 4, 8, 16} : bit = 2 ^ k
  <2>1. k = 1 \/ k = 2 \/ k = 3 \/ k = 4
    OBVIOUS
  <2>2. 2 ^ k \in {2, 4, 8, 16}
    BY <1>3, <2>1
  <2>3. QED BY <2>2
<1>5. on = ~((mask \div bit) % 2 = 1)
  BY <1>1, <1>4 DEF HasBit
<1>6. /\ on => mask + bit \in 0..31 /\ ((mask + bit) \div bit) % 2 = 1
      /\ ~on => mask - bit \in 0..31 /\ ~(((mask - bit) \div bit) % 2 = 1)
  <2>1. CASE bit = 2
    BY <1>5, <2>1, Bit2
  <2>2. CASE bit = 4
    BY <1>5, <2>2, Bit4
  <2>3. CASE bit = 8
    BY <1>5, <2>3, Bit8
  <2>4. CASE bit = 16
    BY <1>5, <2>4, Bit16
  <2>5. QED BY <2>1, <2>2, <2>3, <2>4
<1>7. \A n \in 0..31 : n % 32 = n
  OBVIOUS
<1>8. CASE on
  BY <1>2, <1>4, <1>6, <1>7, <1>8 DEF HasBit
<1>9. CASE ~on
  BY <1>2, <1>4, <1>6, <1>7, <1>9 DEF HasBit
<1>10. QED BY <1>8, <1>9

LEMMA WithField ==
    ASSUME NEW m, FieldsFit(m), NEW f \in PkFields, NEW x, Fits(f, x),
           NEW n \in [PkFields -> Wide], n[f] = x, \A g \in PkFields \ {f} : n[g] = m[g]
    PROVE  FieldsFit(n)
BY DEF FieldsFit

(* What the switcher changes during a walk does not change what it sent.   *)
LEMMA WalkStays ==
    ASSUME PacketInv, mixer' \in [PkFields -> Wide], mixerVersion' \in PkVersions,
           asked'.field \in PkFields => /\ asked'.field = asked.field /\ mixerVersion' = mixerVersion
                                        /\ mixer'[asked.field] = mixer[asked.field],
           UNCHANGED <<copy, version, walk>>
    PROVE  /\ stream' = <<>> => PacketDone'
           /\ stream' # <<>> => (\E m, v : Walks(m, v))'
<1>1. UNCHANGED <<copy, version, stream, offset, index, expected>>
  BY DEF walk
<1>2. ASSUME stream' = <<>> PROVE PacketDone'
  BY <1>1, <1>2 DEF PacketInv, PacketDone
<1>3. ASSUME stream' # <<>> PROVE (\E m, v : Walks(m, v))'
  <2>1. PICK m, v : Walks(m, v)
    BY <1>1, <1>3 DEF PacketInv
  <2>2. Settled(m, v) => Settled(m, v)'
    BY <1>1 DEF Settled
  <2>3. OnPath(m, v) => OnPath(m, v)'
    BY <1>1 DEF OnPath, Ahead, VersionFirst, Path
  <2>4. StreamOf(stream', m, v)
    BY <1>1, <2>1 DEF Walks
  <2>5. Walks(m, v)'
    BY <1>1, <2>1, <2>2, <2>3, <2>4 DEF Walks
  <2>6. QED BY <2>5
<1>4. QED BY <1>2, <1>3

LEMMA StepByOthers ==
    ASSUME PacketInv, NEW f \in PkFields, NEW x, Fits(f, x), ByOthers(f, x)
    PROVE  PacketInv'
<1>1. /\ pkEvents < PkMaxEvents /\ pkEvents' = pkEvents + 1 /\ mixer' = [mixer EXCEPT ![f] = x]
      /\ asked' = IF asked.field[1] = f[1] THEN NotAsked ELSE asked
      /\ UNCHANGED <<copy, version, mixerVersion, walk>>
  BY DEF ByOthers
<1>2. PacketTypes
  BY DEF PacketInv
<1>3. FieldsFit(mixer') /\ \A g \in PkFields : mixer'[g] = IF g = f THEN x ELSE mixer[g]
  <2>1. PICK m, n : m = mixer /\ n = mixer'
    OBVIOUS
  <2>2. FieldsFit(m) /\ n = [m EXCEPT ![f] = x]
    BY <1>1, <1>2, <2>1 DEF PacketTypes
  <2>3. n \in [PkFields -> Wide] /\ n[f] = x /\ \A g \in PkFields \ {f} : n[g] = m[g]
    BY <2>2 DEF FieldsFit, Fits
  <2>4. FieldsFit(n)
    BY <2>2, <2>3, WithField
  <2>5. QED BY <2>1, <2>3, <2>4
<1>4. PacketTypes'
  BY <1>1, <1>2, <1>3, PacketAssumption DEF PacketTypes, walk, FieldsFit, Fits
<1>5. NotAsked.field \notin PkFields
  BY NoneIsNoField DEF NotAsked
<1>6. asked'.field \in PkFields => asked' = asked /\ mixer'[asked.field] = mixer[asked.field]
  BY <1>1, <1>3, <1>5
<1>7. mixer' \in [PkFields -> Wide] /\ mixerVersion' \in PkVersions
  BY <1>1, <1>2, <1>3 DEF FieldsFit, PacketTypes
<1>8. /\ stream' = <<>> => PacketDone'
      /\ stream' # <<>> => (\E m, v : Walks(m, v))'
  BY <1>1, <1>6, <1>7, WalkStays
<1>9. PICK g, y, s : AskedIs(g, y, s)
  BY DEF PacketInv
<1>10. (\E h, z, u : AskedIs(h, z, u))'
  <2>1. CASE asked' = NotAsked
    <3>1. AskedIs(<<"none", 0>>, 0, FALSE)'
      BY <2>1 DEF NotAsked, AskedIs
    <3>2. QED BY <3>1
  <2>2. CASE asked' # NotAsked
    <3>1. asked' = asked /\ g[1] # f[1]
      BY <1>1, <1>9, <2>2 DEF AskedIs
    <3>2. g \in PkFields => mixer'[g] = mixer[g]
      BY <1>3, <3>1
    <3>3. g \in PkFields /\ Effect(g, y, mixer) => Effect(g, y, mixer')
      BY <3>2 DEF Effect
    <3>4. AskedIs(g, y, s)'
      BY <1>1, <1>9, <3>1, <3>2, <3>3 DEF AskedIs
    <3>5. QED BY <3>4
  <2>3. QED BY <2>1, <2>2
<1>11. QED BY <1>4, <1>8, <1>10 DEF PacketInv

LEMMA StepUpdated ==
    ASSUME PacketInv, NEW w \in PkVersions, Updated(w)
    PROVE  PacketInv'
<1>1. /\ pkEvents < PkMaxEvents /\ pkEvents' = pkEvents + 1 /\ mixer' = [f \in PkFields |-> 0]
      /\ mixerVersion' = w /\ asked' = NotAsked /\ UNCHANGED <<copy, version, walk>>
  BY DEF Updated
<1>2. PacketTypes
  BY DEF PacketInv
<1>3. FieldsFit(mixer')
  <2>1. \A f \in PkFields : mixer'[f] = 0
    BY <1>1
  <2>2. mixer' \in [PkFields -> Wide]
    BY <1>1, WideHas
  <2>3. \A f \in PkFields : Fits(f, 0)
    BY WideHas DEF Fits
  <2>4. QED BY <2>1, <2>2, <2>3 DEF FieldsFit
<1>4. PacketTypes'
  BY <1>1, <1>2, <1>3, PacketAssumption DEF PacketTypes, walk, FieldsFit, Fits
<1>5. asked'.field \notin PkFields
  BY <1>1, NoneIsNoField DEF NotAsked
<1>6. /\ stream' = <<>> => PacketDone'
      /\ stream' # <<>> => (\E m, v : Walks(m, v))'
  <2>1. mixer' \in [PkFields -> Wide]
    BY <1>3 DEF FieldsFit
  <2>2. QED BY <1>1, <1>5, <2>1, WalkStays
<1>7. AskedIs(<<"none", 0>>, 0, FALSE)'
  BY <1>1 DEF NotAsked, AskedIs
<1>8. QED BY <1>4, <1>6, <1>7 DEF PacketInv

(* A command: what it is taken for has its width, and is what was asked    *)
(* for when the desk knows the version.                                    *)
LEMMA StepAsk ==
    ASSUME PacketInv, NEW f \in PkFields, NEW w, NEW value, Ask(f, w, value),
           NEW taken, taken = Taken(Command(f, w)),
           taken.field \in PkFields => Fits(taken.field, taken.value),
           version = mixerVersion =>
               /\ taken.field = f
               /\ IF f[1] = "TrSS" THEN HasBit(taken.value, value[1]) = value[2] ELSE taken.value = value
    PROVE  PacketInv'
<1>1. /\ stream = <<>> /\ pkEvents < PkMaxEvents /\ pkEvents' = pkEvents + 1
      /\ mixer' = IF taken.field \in PkFields THEN [mixer EXCEPT ![taken.field] = taken.value] ELSE mixer
      /\ asked' = IF version = mixerVersion THEN [field |-> f, value |-> value, seen |-> FALSE] ELSE NotAsked
      /\ UNCHANGED <<copy, version, mixerVersion, walk>>
  BY DEF Ask
<1>2. PacketTypes
  BY DEF PacketInv
<1>3. FieldsFit(mixer') /\ (taken.field \in PkFields => mixer'[taken.field] = taken.value)
  <2>1. CASE taken.field \in PkFields
    <3>1. PICK g \in PkFields : g = taken.field
      BY <2>1
    <3>2. PICK x : x = taken.value /\ Fits(g, x)
      BY <2>1, <3>1
    <3>3. PICK m, n : m = mixer /\ n = mixer'
      OBVIOUS
    <3>4. FieldsFit(m) /\ n = [m EXCEPT ![g] = x]
      BY <1>1, <1>2, <3>1, <3>2, <3>3 DEF PacketTypes
    <3>5. n \in [PkFields -> Wide] /\ n[g] = x /\ \A h \in PkFields \ {g} : n[h] = m[h]
      BY <3>2, <3>4 DEF FieldsFit, Fits
    <3>6. FieldsFit(n)
      BY <3>2, <3>4, <3>5, WithField
    <3>7. QED BY <3>1, <3>2, <3>3, <3>5, <3>6
  <2>2. CASE taken.field \notin PkFields
    BY <1>1, <1>2, <2>2 DEF PacketTypes
  <2>3. QED BY <2>1, <2>2
<1>4. PacketTypes'
  BY <1>1, <1>2, <1>3, PacketAssumption DEF PacketTypes, walk, FieldsFit, Fits
<1>5. stream' = <<>> /\ PacketDone'
  BY <1>1 DEF PacketInv, PacketDone, walk
<1>6. (\E g, y, s : AskedIs(g, y, s))'
  <2>1. CASE version = mixerVersion
    <3>1. Effect(f, value, mixer')
      BY <1>3, <2>1 DEF Effect
    <3>2. AskedIs(f, value, FALSE)'
      BY <1>1, <2>1, <3>1 DEF AskedIs
    <3>3. QED BY <3>2
  <2>2. CASE version # mixerVersion
    <3>1. AskedIs(<<"none", 0>>, 0, FALSE)'
      BY <1>1, <2>2 DEF NotAsked, AskedIs
    <3>2. QED BY <3>1
  <2>3. QED BY <2>1, <2>2
<1>7. QED BY <1>4, <1>5, <1>6 DEF PacketInv

LEMMA StepChooseInput ==
    ASSUME PacketInv, NEW f \in PkFields, NEW i \in PkInputs, ChooseInput(f, i)
    PROVE  PacketInv'
<1>1. PICK w : w = InputNumber(i, ver42(version))
  OBVIOUS
<1>2. f \in InputFields /\ Ask(f, w, w)
  BY <1>1 DEF ChooseInput
<1>3. w \in Wide /\ (~ver42(version) => w \in 0..255)
  BY <1>1, NumbersFit DEF ver42
<1>4. PICK taken : taken = Taken(Command(f, w))
  OBVIOUS
<1>5. /\ taken.field[1] \in {"PrgI", "PrvI", "AuxS"} /\ taken.value \in Wide
      /\ version = mixerVersion => taken = [field |-> f, value |-> w]
  BY <1>2, <1>3, <1>4, InputTaken
<1>6. Fits(taken.field, taken.value)
  BY <1>5 DEF Fits
<1>7. f[1] # "TrSS"
  BY <1>2, FieldsAre
<1>8. version = mixerVersion => taken.field = f /\ taken.value = w
  BY <1>5
<1>9. QED BY <1>2, <1>4, <1>6, <1>7, <1>8, StepAsk

LEMMA StepToggleKeyer ==
    ASSUME PacketInv, NEW f \in PkFields, ToggleKeyer(f)
    PROVE  PacketInv'
<1>1. PICK w : w = 1 - copy[f]
  OBVIOUS
<1>2. f[1] \in {"KeOn", "DskS", "DskP"} /\ Ask(f, w, w)
  BY <1>1 DEF ToggleKeyer
<1>3. f \notin InputFields
  BY <1>2, FieldsAre
<1>4. w \in {0, 1}
  <2>1. copy[f] \in {0, 1}
    BY <1>2 DEF PacketInv, PacketTypes, FieldsFit, Fits
  <2>2. QED BY <1>1, <2>1
<1>5. PICK taken : taken = Taken(Command(f, w)) /\ taken = [field |-> f, value |-> w]
  BY <1>2, <1>3, KeyerTaken
<1>6. taken.field = f /\ taken.value = w
  BY <1>5
<1>7. Fits(taken.field, taken.value)
  BY <1>2, <1>4, <1>6, WideHas DEF Fits
<1>8. f[1] # "TrSS"
  BY <1>2
<1>9. QED BY <1>2, <1>5, <1>6, <1>7, <1>8, StepAsk

LEMMA StepToggleNext ==
    ASSUME PacketInv, NEW k \in 1..4, ToggleNext(k)
    PROVE  PacketInv'
<1>1. PICK f \in PkFields : f = <<"TrSS", 0>>
  BY PacketAssumption
<1>2. PICK on \in BOOLEAN : on = ~HasBit(copy[<<"TrSS", 0>>], k)
  BY DEF HasBit
<1>3. PICK w : w = NextMask(k, on)
  OBVIOUS
<1>4. Ask(f, w, <<k, on>>)
  BY <1>1, <1>2, <1>3 DEF ToggleNext
<1>5. copy[<<"TrSS", 0>>] \in 0..31
  BY <1>1 DEF PacketInv, PacketTypes, FieldsFit, Fits
<1>6. w \in 0..31 /\ w % 32 = w /\ HasBit(w, k) = on
  BY <1>2, <1>3, <1>5, MaskTurned
<1>7. f \notin InputFields
  BY <1>1, FieldsAre
<1>8. PICK taken : taken = Taken(Command(f, w)) /\ taken = [field |-> f, value |-> w]
  BY <1>1, <1>6, <1>7, KeyerTaken
<1>9. taken.field = f /\ taken.value = w
  BY <1>8
<1>10. Fits(taken.field, taken.value)
  BY <1>1, <1>6, <1>9, WideHas DEF Fits
<1>11. PICK value : value = <<k, on>>
  OBVIOUS
<1>12. HasBit(taken.value, value[1]) = value[2]
  BY <1>6, <1>9, <1>11
<1>13. Ask(f, w, value)
  BY <1>4, <1>11
<1>14. /\ taken.field = f
       /\ IF f[1] = "TrSS" THEN HasBit(taken.value, value[1]) = value[2] ELSE taken.value = value
  BY <1>1, <1>9, <1>12
<1>15. taken = Taken(Command(f, w))
  BY <1>8
<1>16. QED BY <1>10, <1>13, <1>14, <1>15, StepAsk

LEMMA PacketStays == PacketInv /\ [PkNext]_pkVars => PacketInv'
<1> SUFFICES ASSUME PacketInv, [PkNext]_pkVars PROVE PacketInv'
  OBVIOUS
<1>1. CASE ParseSegment
  BY <1>1, StepParseSegment
<1>2. CASE \E p \in Packets : SwitcherSends(p)
  BY <1>2, StepSwitcherSends
<1>3. CASE \E f \in PkFields, i \in PkInputs : ChooseInput(f, i)
  BY <1>3, StepChooseInput
<1>4. CASE \E f \in PkFields : ToggleKeyer(f)
  BY <1>4, StepToggleKeyer
<1>5. CASE \E k \in 1..4 : ToggleNext(k)
  BY <1>5, StepToggleNext
<1>6. CASE \E f \in PkFields \ InputFields : ByOthers(f, 1)
  <2>1. PICK f \in PkFields \ InputFields : ByOthers(f, 1)
    BY <1>6
  <2>2. Fits(f, 1)
    BY WideHas DEF Fits
  <2>3. QED BY <2>1, <2>2, StepByOthers
<1>7. CASE \E f \in PkFields \intersect InputFields, i \in PkInputs :
               ByOthers(f, InputNumber(i, ver42(mixerVersion)))
  <2>1. PICK f \in PkFields \intersect InputFields, i \in PkInputs :
               ByOthers(f, InputNumber(i, ver42(mixerVersion)))
    BY <1>7
  <2>2. PICK x \in Wide : x = InputNumber(i, ver42(mixerVersion))
    BY NumbersFit DEF ver42
  <2>3. Fits(f, x)
    BY <2>2, FieldsAre DEF Fits
  <2>4. QED BY <2>1, <2>2, <2>3, StepByOthers
<1>8. CASE \E v \in PkVersions : Updated(v)
  BY <1>8, StepUpdated
<1>9. CASE UNCHANGED pkVars
  <2>1. UNCHANGED <<copy, version, mixer, mixerVersion, stream, offset, index, expected, asked, pkEvents>>
    BY <1>9 DEF pkVars
  <2>2. PacketTypes'
    BY <2>1 DEF PacketInv, PacketTypes, FieldsFit, Fits
  <2>3. UNCHANGED <<copy, version, walk>> /\ mixer' \in [PkFields -> Wide] /\ mixerVersion' \in PkVersions
    BY <2>1 DEF PacketInv, PacketTypes, FieldsFit, walk
  <2>4. /\ stream' = <<>> => PacketDone'
        /\ stream' # <<>> => (\E m, v : Walks(m, v))'
    BY <2>1, <2>3, WalkStays
  <2>5. PICK f, x, s : AskedIs(f, x, s)
    BY DEF PacketInv
  <2>6. AskedIs(f, x, s)'
    BY <2>1, <2>5 DEF AskedIs, Effect, HasBit
  <2>7. QED BY <2>2, <2>4, <2>6 DEF PacketInv
<1>10. QED BY <1>1, <1>2, <1>3, <1>4, <1>5, <1>6, <1>7, <1>8, <1>9 DEF PkNext

LEMMA PacketAlways == PkSpec => []PacketInv
BY PacketInit, PacketStays, PTL DEF PkSpec

(* Every packet that was read is in the copy, up to the first segment that *)
(* is empty or too long, whatever the packets are and however the switcher *)
(* and the desk go on: _parsePacket.                                       *)
THEOREM PacketsHold == PkSpec => []PacketsSound
BY PacketAlways, PacketInvSound, PTL

(* What was asked for is what the desk reads afterwards, in both layouts:  *)
(* the commands of ATEM.cpp and _parsePacket.                              *)
THEOREM EchoHolds == PkSpec => []EchoAgrees
BY PacketAlways, PacketInvSound, PTL
=============================================================================
