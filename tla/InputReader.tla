----------------------------- MODULE InputReader -----------------------------
(***************************************************************************)
(* The thread that reads the boards and the display in turn                *)
(* (app/ReaderThread.cpp), the word of keys and the rotary encoder of the  *)
(* display (lib/Display.cpp, lib/Encoder.cpp), and the main loop that      *)
(* takes both (main.cpp).                                                  *)
(*                                                                         *)
(* The reader has the highest priority: a read is one step for the main    *)
(* loop.  Fingers move between any two reads.                              *)
(***************************************************************************)
EXTENDS Integers, Sequences, SequencesExt, FiniteSetsExt

CONSTANTS
    RdBoards,    \* number of boards (7)
    RdBoardExp,  \* their exponent (3)
    RdDisplayExp,\* that of the display (5)
    RdKeys,      \* keys of the display that are pressed, of 1..4
    RdWidth,     \* bits of Encoder::_value (8)
    RdMaxPress, RdMaxTurn,  \* bounds on presses and on positions turned
    RdMaxFail    \* bound on reads that fail and on resets of the chip

ASSUME ReaderAssumption ==
    /\ RdBoards \in Nat /\ RdBoardExp \in 0..7 /\ RdDisplayExp \in 0..7
    /\ RdKeys \subseteq 1..4 /\ RdWidth \in 2..8
    /\ RdMaxPress \in Nat /\ RdMaxTurn \in Nat /\ RdMaxFail \in Nat

VARIABLES
    list,      \* _list: the items, and _max_freq
    tick,      \* n, and the place in the list
    reads,     \* history: reads of each item in this cycle
    fingers,   \* keys really down
    position,  \* where the knob really is
    buttonStatus, lastUp,  \* words of the display
    encoder,   \* _value and _last
    mainAt,    \* what the main loop looks at next
    handed,    \* history: sum of the changes given to the menu
    forwarded, \* history: actions of keys given to the menu
    presses, turned, rdFailed,  \* numbers of presses, turns and failures
    seenAt,    \* history: the position of the last good read
    missed     \* history: positions that no read saw, and failed reads

rdVars == <<list, tick, reads, fingers, position, buttonStatus, lastUp, encoder, mainAt, handed,
            forwarded, presses, turned, rdFailed, seenAt, missed>>
reader == <<list, tick, reads>>
words == <<buttonStatus, encoder>>
rdHistory == <<seenAt, missed>>
menuSide == <<lastUp, mainAt, handed, forwarded>>

Items == 0..RdBoards  \* the display is item 0
Freq(i) == 2^(IF i = 0 THEN RdDisplayExp ELSE RdBoardExp)

RdInit ==
    /\ list = [items |-> <<>>, max |-> 1]
    /\ tick = [n |-> 0, at |-> 0]
    /\ reads = [i \in Items |-> 0]
    /\ fingers = {} /\ position = 0
    /\ buttonStatus = {} /\ lastUp = {}
    /\ encoder = [value |-> 0, last |-> 0]
    /\ mainAt = "keys" /\ handed = 0
    /\ forwarded = [k \in RdKeys |-> 0]
    /\ presses = [k \in RdKeys |-> 0] /\ turned = 0 /\ rdFailed = 0 /\ seenAt = 0 /\ missed = 0

-----------------------------------------------------------------------------
(* add(): the highest frequency so far decides the interval of every item. *)
(* The items may come in any order.                                        *)
AddLast(i) ==  \* mutant: only the new item gets its interval
    LET max == Max({list.max, Freq(i)})
    IN  list' = [items |-> Append(list.items, [item |-> i, intervall |-> max \div Freq(i)]), max |-> max]

Add(i) ==
    LET max == Max({list.max, Freq(i)})
    IN  list' = [items |-> [k \in DOMAIN list.items |->
                               [list.items[k] EXCEPT !.intervall = max \div Freq(list.items[k].item)]]
                           \o <<[item |-> i, intervall |-> max \div Freq(i)]>>,
                 max |-> max]

SetScheduler ==
    /\ Len(list.items) <= RdBoards
    /\ \E i \in Items \ {list.items[k].item : k \in DOMAIN list.items} : Add(i)
    /\ UNCHANGED <<tick, reads, fingers, position, words, menuSide, presses, turned, rdFailed, rdHistory>>

(* updateValue(): half of the four changes of a cycle count.               *)
Table == <<0, 0, -1, 0, 0, 0, 0, 1, 1, 0, 0, 0, 0, -1, 0, 0>>

(* An int8_t in the code.                                                  *)
Wrapped(v) == ((v + 2^(RdWidth - 1)) % 2^RdWidth) - 2^(RdWidth - 1)

UpdateValue(bits) ==
    LET last == (encoder.last % 4) * 4 + bits
    IN  encoder' = [value |-> Wrapped(encoder.value + Table[last + 1]), last |-> last]

Abs(d) == IF d < 0 THEN -d ELSE d

(* The contacts of the knob, A twice B: they change one at a time.         *)
Contacts(p) == <<0, 1, 3, 2>>[(p % 4) + 1]

(* Display::readButtonStatus().  A failed transfer leaves the word zero    *)
(* and nobody looks at the result; a chip that was reset shows wrong LEDs  *)
(* and is set up again, and its word is not used.                          *)
ReadButtonStatus ==
    \/ /\ buttonStatus' = fingers
       /\ UpdateValue(Contacts(position))
       /\ seenAt' = position
       /\ missed' = missed + Max({0, Abs(position - seenAt) - 1})
       /\ UNCHANGED rdFailed
    \/ /\ rdFailed < RdMaxFail /\ rdFailed' = rdFailed + 1
       /\ \/ buttonStatus' = {} /\ UpdateValue(0)
          \/ UNCHANGED <<buttonStatus, encoder>>
       /\ missed' = missed + 1 /\ UNCHANGED seenAt

(* _tick(): one item of the list.                                          *)
Due(k) == tick.n % list.items[k].intervall = 0

Tick ==
    /\ Len(list.items) = RdBoards + 1 /\ tick.at < RdBoards + 1
    /\ tick' = [tick EXCEPT !.at = @ + 1]
    /\ LET k == tick.at + 1
           i == list.items[k].item
       IN  /\ reads' = IF Due(k) THEN [reads EXCEPT ![i] = @ + 1] ELSE reads
           /\ IF Due(k) /\ i = 0 THEN ReadButtonStatus ELSE UNCHANGED <<words, rdFailed, rdHistory>>
    /\ UNCHANGED <<list, fingers, position, menuSide, presses, turned>>

(* main(): the list is through, and the thread sleeps until the next tick. *)
SleepUntil ==
    /\ tick.at = RdBoards + 1
    /\ tick' = [n |-> (tick.n + 1) % list.max, at |-> 0]
    /\ reads' = IF tick'.n = 0 THEN [i \in Items |-> 0] ELSE reads
    /\ UNCHANGED <<list, fingers, position, words, menuSide, presses, turned, rdFailed, rdHistory>>

-----------------------------------------------------------------------------
(* Fingers.                                                                *)
RdPress(k) ==
    /\ k \notin fingers /\ FoldFunction(+, 0, presses) < RdMaxPress
    /\ fingers' = fingers \cup {k}
    /\ presses' = [presses EXCEPT ![k] = @ + 1]
    /\ UNCHANGED <<reader, position, words, menuSide, turned, rdFailed, rdHistory>>

RdRelease(k) ==
    /\ k \in fingers /\ fingers' = fingers \ {k}
    /\ UNCHANGED <<reader, position, words, menuSide, presses, turned, rdFailed, rdHistory>>

TurnKnob(d) ==
    /\ turned < RdMaxTurn /\ turned' = turned + 1
    /\ position' = position + d
    /\ UNCHANGED <<reader, fingers, words, menuSide, presses, rdFailed, rdHistory>>

-----------------------------------------------------------------------------
(* The main loop: the numbers 0 to 3 are asked for, of which 0 is no key,  *)
(* and key 4 is never asked for; what was let go is an action of the menu. *)
(* (One look at a time, but no key depends on another.)                    *)
Asked == RdKeys \cap 0..3

ForwardKeysKept ==  \* mutant: the change is not kept
    /\ mainAt = "keys" /\ mainAt' = "knob"
    /\ forwarded' = [k \in RdKeys |->
          IF k \in (Asked \cap lastUp) \ buttonStatus THEN forwarded[k] + 1 ELSE forwarded[k]]
    /\ lastUp' = lastUp \cup (buttonStatus \cap Asked)
    /\ UNCHANGED <<reader, fingers, position, words, handed, presses, turned, rdFailed, rdHistory>>

ForwardKeys ==
    /\ mainAt = "keys" /\ mainAt' = "knob"
    /\ forwarded' = [k \in RdKeys |->
          IF k \in (Asked \cap lastUp) \ buttonStatus THEN forwarded[k] + 1 ELSE forwarded[k]]
    /\ lastUp' = (lastUp \ Asked) \cup (buttonStatus \cap Asked)
    /\ UNCHANGED <<reader, fingers, position, words, handed, presses, turned, rdFailed, rdHistory>>

(* getEncoder1(true): the value is taken and set to zero under a lock.     *)
RotaryChangeKeep ==  \* mutant: the value is not set to zero
    /\ mainAt = "knob" /\ mainAt' = "keys"
    /\ handed' = handed + encoder.value
    /\ UNCHANGED <<reader, fingers, position, words, lastUp, forwarded, presses, turned, rdFailed, rdHistory>>

RotaryChange ==
    /\ mainAt = "knob" /\ mainAt' = "keys"
    /\ handed' = handed + encoder.value
    /\ encoder' = [encoder EXCEPT !.value = 0]
    /\ UNCHANGED <<reader, fingers, position, buttonStatus, lastUp, forwarded, presses, turned, rdFailed,
                   rdHistory>>

RdNext ==
    \/ SetScheduler \/ Tick \/ SleepUntil
    \/ \E k \in RdKeys : RdPress(k) \/ RdRelease(k)
    \/ \E d \in {-1, 1} : TurnKnob(d)
    \/ ForwardKeys \/ RotaryChange

RdSpec == RdInit /\ [][RdNext]_rdVars

-----------------------------------------------------------------------------
(* The type invariant of the list, the words and the encoder.              *)
RdTypeOK ==
    /\ \A k \in DOMAIN list.items : list.items[k] \in [item : Items, intervall : 1..128]
    /\ list.max \in 1..128 /\ tick \in [n : 0..127, at : 0..RdBoards + 1]
    /\ buttonStatus \subseteq RdKeys /\ lastUp \subseteq RdKeys
    /\ encoder \in [value : -2^(RdWidth - 1)..2^(RdWidth - 1) - 1, last : 0..15]
    /\ mainAt \in {"keys", "knob"}

(* Whatever order the items were added in, each is read as often in a cycle*)
(* as its exponent says, and evenly: never more than the part of the cycle *)
(* that has gone, rounded up.                                              *)
ReadEvenly ==
    Len(list.items) = RdBoards + 1 =>
        \A k \in DOMAIN list.items :
            LET i == list.items[k].item
                done == tick.n + IF tick.at >= k THEN 1 ELSE 0
            IN  reads[i] * list.max >= done * Freq(i) /\ (reads[i] - 1) * list.max < done * Freq(i)

(* The changes given to the menu and those to come are half the position   *)
(* the knob was seen in, whichever way it is turned, up to multiples of the*)
(* width (a main loop that waits for long); each position that no read saw *)
(* and each read that failed can cost one of them.                         *)
Counted ==
    LET error == (handed + encoder.value - (seenAt \div 2)) % 2^RdWidth
    IN  Min({error, 2^RdWidth - error}) <= missed

(* A key that is pressed and let go acts on the menu once at most; a read  *)
(* that fails while it is down makes it act once more.                     *)
ForwardedOnce == \A k \in RdKeys : forwarded[k] <= presses[k] + rdFailed

(* The inputs are sound: read in turn, no step of the knob lost or counted *)
(* twice, no press doubled.                                                *)
InputsSound == RdTypeOK /\ ReadEvenly /\ Counted /\ ForwardedOnce
=============================================================================
