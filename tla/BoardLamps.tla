----------------------------- MODULE BoardLamps ------------------------------
(***************************************************************************)
(* The two-coloured lamps of a board (lib/SkaarhojBI8.cpp): a cache that   *)
(* keeps a colour from being written twice, in front of a driver with one  *)
(* register for each half of a lamp (lib/hw/PCA9685.cpp), written one after*)
(* the other over the bus (lib/I2cBus.cpp).  The thread of the blinker and *)
(* the time critical thread both write lamps of the switcher; the bus lets *)
(* one transfer pass at a time, and threads change while they wait for it. *)
(***************************************************************************)
EXTENDS Integers

CONSTANTS
    LpThreads,   \* threads that write lamps
    LpButtons,   \* keys, of 1..10; the driver has lamps for 1..8
    LpColors,    \* colours used, of 0..5
    LpOldBoard,  \* _oldBI8: the halves of the upper keys are swapped
    LpMaxFail    \* bound on failed transfers

ASSUME LampAssumption ==
    /\ LpButtons \subseteq 1..10 /\ LpButtons # {} /\ LpColors \subseteq 0..5
    /\ LpOldBoard \in BOOLEAN /\ LpMaxFail \in Nat

VARIABLES
    buttonColorCache,  \* _buttonColorCache
    leds,      \* the outputs of the driver, two for each key
    writer,    \* what each thread is writing
    lpFailed,  \* number of failed transfers
    damaged    \* history: lamps whose last change failed or met another

lpVars == <<buttonColorCache, leds, writer, lpFailed, damaged>>

NoButton == CHOOSE b \in LpButtons : TRUE
Idle == [at |-> "idle", button |-> NoButton, color |-> 0]

(* setButtonType(1) *)
colorBalanceRed == [c \in 0..5 |-> <<0, 100, 100, 0, 100, 10>>[c + 1]]
colorBalanceGreen == [c \in 0..5 |-> <<0, 100, 0, 100, 50, 5>>[c + 1]]

(* The halves of the upper keys of an old board are the other way round.   *)
RedFirst(b) == b <= 4 \/ ~LpOldBoard

(* PCA9685::setLEDDimmed(): when in a cycle of 4096 the output goes on and *)
(* off; 4096 stands for never.  Outputs start one after another.           *)
Dimmed(led, amount) ==
    IF amount = 0 THEN [on |-> 0, off |-> 4096]
    ELSE IF amount >= 100 THEN [on |-> 4096, off |-> 0]
    ELSE [on |-> led * 256, off |-> (amount * 41 + led * 256) % 4096]

LedOutput == [on : 0..4096, off : 0..4096]

(* begin() writes the default colour to all lamps before threads start.    *)
LpInit ==
    /\ buttonColorCache = [b \in LpButtons |-> 5]
    /\ leds = [l \in 0..15 |->
                Dimmed(l, IF (l % 2 = 0) = RedFirst((l \div 2) + 1)
                          THEN colorBalanceRed[5] ELSE colorBalanceGreen[5])]
    /\ writer = [t \in LpThreads |-> Idle]
    /\ lpFailed = 0
    /\ damaged = {}

-----------------------------------------------------------------------------
(* setLEDDimmed() and writeLED(): a transfer, which may fail; nobody looks *)
(* at the result.  There are 16 outputs; a lamp beyond them is not written.*)
Transfer(t, led, amount, next) ==
    /\ writer' = [writer EXCEPT ![t] = next]
    /\ \/ /\ leds' = [l \in DOMAIN leds |-> IF l = led THEN Dimmed(l, amount) ELSE leds[l]]
          /\ UNCHANGED <<lpFailed, damaged>>
       \/ /\ lpFailed < LpMaxFail
          /\ lpFailed' = lpFailed + 1
          /\ damaged' = damaged \cup {writer[t].button}
          /\ UNCHANGED leds
    /\ UNCHANGED buttonColorCache

(* _writeButtonLed(): the cache comes first, and is what the next call     *)
(* compares with.                                                          *)
Writers(b) == {t \in LpThreads : writer[t].at # "idle" /\ writer[t].button = b}

SetButtonColor(t, b, c) ==
    /\ writer[t].at = "idle"
    /\ buttonColorCache[b] # c
    /\ buttonColorCache' = [buttonColorCache EXCEPT ![b] = c]
    /\ writer' = [writer EXCEPT ![t] = [at |-> "first", button |-> b, color |-> c]]
    /\ damaged' = IF Writers(b) = {} THEN damaged \ {b} ELSE damaged \cup {b}
    /\ UNCHANGED <<leds, lpFailed>>

(* The two writes of _writeButtonLed().                                    *)
FirstHalf(t) ==
    LET w == writer[t]
    IN  /\ w.at = "first"
        /\ Transfer(t, (w.button - 1) * 2,
                    IF RedFirst(w.button) THEN colorBalanceRed[w.color] ELSE colorBalanceGreen[w.color],
                    [w EXCEPT !.at = "second"])

SecondHalfStraight(t) ==  \* mutant: green on every board
    LET w == writer[t]
    IN  /\ w.at = "second"
        /\ Transfer(t, (w.button - 1) * 2 + 1, colorBalanceGreen[w.color], Idle)

SecondHalf(t) ==
    LET w == writer[t]
    IN  /\ w.at = "second"
        /\ Transfer(t, (w.button - 1) * 2 + 1,
                    IF RedFirst(w.button) THEN colorBalanceGreen[w.color] ELSE colorBalanceRed[w.color],
                    Idle)

LpNext ==
    \E t \in LpThreads :
        \/ \E b \in LpButtons, c \in LpColors : SetButtonColor(t, b, c)
        \/ FirstHalf(t) \/ SecondHalf(t)

LpSpec == LpInit /\ [][LpNext]_lpVars

-----------------------------------------------------------------------------
(* The type invariant of the cache, the outputs and the threads.           *)
LpTypeOK ==
    /\ buttonColorCache \in [LpButtons -> 0..5]
    /\ leds \in [0..15 -> LedOutput]
    /\ \A t \in LpThreads : writer[t] \in [at : {"idle", "first", "second"},
                                           button : LpButtons, color : 0..5]
    /\ damaged \subseteq LpButtons

(* The part of a cycle in which an output is on.                           *)
Duty(o) == IF o.on = 4096 THEN 4096 ELSE IF o.off = 4096 THEN 0 ELSE (o.off - o.on) % 4096

Level(amount) == IF amount = 100 THEN 4096 ELSE 41 * amount

(* A lamp at rest has the colour the cache says, both halves in the right  *)
(* place and the outputs of other lamps untouched, unless a transfer of its*)
(* last change failed or two threads changed it at the same time: then it  *)
(* stays wrong until another colour is wanted.                             *)
LampShown ==
    \A b \in LpButtons :
        b <= 8 /\ b \notin damaged /\ Writers(b) = {} =>
            LET red == (b - 1) * 2 + IF RedFirst(b) THEN 0 ELSE 1
                green == (b - 1) * 2 + IF RedFirst(b) THEN 1 ELSE 0
            IN  /\ Duty(leds[red]) = Level(colorBalanceRed[buttonColorCache[b]])
                /\ Duty(leds[green]) = Level(colorBalanceGreen[buttonColorCache[b]])

(* The lamps are sound: types, and what a lamp at rest shows.              *)
LampsSound == LpTypeOK /\ LampShown
=============================================================================
