-------------------------------- MODULE Fader --------------------------------
(***************************************************************************)
(* The fader of the desk and its lamps (app/Videoswitcher.cpp): the time   *)
(* critical thread compares the fader with the transition of the switcher  *)
(* and locks it when they meet (_processFader); the blinker shows at which *)
(* end of the fader the transition is, green when locked and red when not  *)
(* (doBlink), in four writes over the bus, in which the other thread runs. *)
(***************************************************************************)
EXTENDS Integers

CONSTANTS
    FdReadings,   \* values of the analogue input that occur
    FdPositions,  \* transition positions that occur
    FdMaxEvents   \* bound on moves of the fader, on packets and on lost connections

ASSUME FaderAssumption ==
    /\ FdReadings \subseteq 0..4095 /\ FdReadings # {}
    /\ FdPositions \subseteq 0..10000 /\ 0 \in FdPositions
    /\ FdMaxEvents \in Nat

VARIABLES
    reading,      \* _fader->getValue()
    transition,   \* the copy: position, whether the base is the bottom, online
    faderLocked,  \* _faderLocked
    autoStatus,   \* _autoLedStatus
    lit,          \* the lamps 1..4: low green, low red, high green, high red
    blinking,     \* the next lamp doBlink() writes, and the end it shows
    fdEvents      \* number of moves, packets and lost connections

fdVars == <<reading, transition, faderLocked, autoStatus, lit, blinking, fdEvents>>

Quiet == [led |-> 0, end |-> "none"]

FdInit ==
    /\ reading \in FdReadings
    /\ transition = [position |-> 0, bottom |-> FALSE, online |-> FALSE]
    /\ faderLocked = FALSE /\ autoStatus = FALSE
    /\ lit = [l \in 1..4 |-> FALSE]
    /\ blinking = Quiet
    /\ fdEvents = 0

-----------------------------------------------------------------------------
(* 4096 values become 10000, less 48 at the end where the fader starts.    *)
FaderPosition(value, bottom) ==
    LET v == IF bottom THEN 4096 - value ELSE value
        moved == IF v < 48 THEN 0 ELSE v - 48
        position == moved * 2 + (moved \div 4)
    IN  IF position > 10000 THEN 10000 ELSE position

(* The difference without its last two bits is zero.                       *)
Met == FaderPosition(reading, transition.bottom) - transition.position \in 0..3

\* mutant: a fader that is moved away is not locked any more
ProcessFaderRelease ==
    /\ transition.online
    /\ faderLocked' = Met
    /\ UNCHANGED <<reading, transition, autoStatus, lit, blinking, fdEvents>>

(* _processFader(): what a locked fader would do is commented out.         *)
ProcessFader ==
    /\ transition.online
    /\ IF faderLocked /\ ~Met THEN UNCHANGED faderLocked ELSE faderLocked' = Met
    /\ UNCHANGED <<reading, transition, autoStatus, lit, blinking, fdEvents>>

(* doBlink() begins: the end to show, none in every other call while the   *)
(* transition runs, and none when the switcher is not there.               *)
Running == transition.position > 0 /\ transition.position < 10000
End == IF (transition.position >= 5000) # transition.bottom THEN "high" ELSE "low"

BlinkBegins ==
    /\ blinking = Quiet
    /\ blinking' = [led |-> 1, end |-> IF ~transition.online \/ (Running /\ autoStatus) THEN "none" ELSE End]
    /\ autoStatus' = IF transition.online /\ Running THEN ~autoStatus ELSE autoStatus
    /\ UNCHANGED <<reading, transition, faderLocked, lit, fdEvents>>

(* The writes: each looks at _faderLocked anew.                            *)
\* mutant: the lamps in the other order, red first
WriteLedRedFirst ==
    /\ blinking.led \in 1..4
    /\ LET l == 5 - blinking.led
       IN  lit' = [lit EXCEPT ![l] = /\ blinking.end = IF l <= 2 THEN "low" ELSE "high"
                                     /\ faderLocked = (l \in {1, 3})]
    /\ blinking' = IF blinking.led = 4 THEN Quiet ELSE [blinking EXCEPT !.led = @ + 1]
    /\ UNCHANGED <<reading, transition, faderLocked, autoStatus, fdEvents>>

WriteLed ==
    /\ blinking.led \in 1..4
    /\ LET l == blinking.led
       IN  lit' = [lit EXCEPT ![l] = /\ blinking.end = IF l <= 2 THEN "low" ELSE "high"
                                     /\ faderLocked = (l \in {1, 3})]
    /\ blinking' = IF blinking.led = 4 THEN Quiet ELSE [blinking EXCEPT !.led = @ + 1]
    /\ UNCHANGED <<reading, transition, faderLocked, autoStatus, fdEvents>>

(* The hand at the fader, and what the switcher says (external).           *)
MoveFader(v) ==
    /\ fdEvents < FdMaxEvents /\ fdEvents' = fdEvents + 1
    /\ reading' = v
    /\ UNCHANGED <<transition, faderLocked, autoStatus, lit, blinking>>

TransitionComes(position, bottom, online) ==
    /\ fdEvents < FdMaxEvents /\ fdEvents' = fdEvents + 1
    /\ transition' = [position |-> position, bottom |-> bottom, online |-> online]
    /\ UNCHANGED <<reading, faderLocked, autoStatus, lit, blinking>>

FdNext ==
    \/ ProcessFader \/ BlinkBegins \/ WriteLed
    \/ \E v \in FdReadings : MoveFader(v)
    \/ \E p \in FdPositions, bottom \in BOOLEAN, online \in BOOLEAN : TransitionComes(p, bottom, online)

FdSpec == FdInit /\ [][FdNext]_fdVars

-----------------------------------------------------------------------------
(* The type invariant of the fader, the copy and the lamps.                *)
FdTypeOK ==
    /\ reading \in FdReadings
    /\ transition \in [position : FdPositions, bottom : BOOLEAN, online : BOOLEAN]
    /\ faderLocked \in BOOLEAN /\ autoStatus \in BOOLEAN
    /\ lit \in [1..4 -> BOOLEAN]
    /\ blinking \in [led : 0..4, end : {"none", "low", "high"}]
    /\ fdEvents \in Nat

(* Between two calls of doBlink() no end of the fader is both green and    *)
(* red and not both ends are lit, although the lock may come between two   *)
(* of its writes: green is written first and a lock is never undone.       *)
OneLamp ==
    blinking = Quiet => \A k, l \in 1..4 : lit[k] /\ lit[l] => k = l

(* A green lamp never tells of a lock that there is not.                   *)
GreenMeansLocked == lit[1] \/ lit[3] => faderLocked

(* The fader that once met the transition counts as locked for good, also  *)
(* when it is moved away, the transition goes on without it or the         *)
(* connection is lost: nothing in _processFader() or run() takes it back.  *)
LockedForGood == [][faderLocked => faderLocked']_fdVars

(* The fader is sound: its lamps and its lock.                             *)
FaderSound == FdTypeOK /\ OneLamp /\ GreenMeansLocked
=============================================================================
