--------------------------- MODULE Videoswitcher ---------------------------
(***************************************************************************)
(* The keys of the switcher's desk: app/Videoswitcher.cpp (choice of the   *)
(* bus, inputs, keyers, cut), lib/Buttons.cpp (edges) and the reader       *)
(* thread, which replaces the words of pressed keys between any two calls  *)
(* of one round of run().  The build (-O2) reads the word once in a call   *)
(* of Buttons, so a call is one step.                                      *)
(*                                                                         *)
(* The switcher itself and the connection (AtemSession) are external:      *)
(* commands are only recorded.  Left out are the lamps, the fader and the  *)
(* picture-in-picture sequence.                                            *)
(***************************************************************************)
EXTENDS Naturals, FiniteSets

CONSTANTS
    NumAux,         \* aux busses (3 in the code)
    NumInput,       \* input keys (12 in the code)
    NumSpecial,     \* keyers of _processSpecials (6 in the code)
    NumOp,          \* FadeToBlack, Cut, Auto (3 in the code)
    MaxPress,       \* bound: key presses
    MaxDrop         \* bound: lost connections

ASSUME DeskAssumption ==
    /\ {NumAux, NumInput, NumSpecial, NumOp} \subseteq Nat
    /\ {MaxPress, MaxDrop} \subseteq Nat

VARIABLES
    status,         \* _buttonStatus: the keys that are down, as last read
    lastUp,         \* _buttonStatusLastUp
    lastDown,       \* _buttonStatusLastDown
    bus,            \* _currentBus
    at,             \* where run() is: a stage and an index
    held,           \* auxPressed of _setBusMode
    online,         \* connected, and not timed out
    sent,           \* the command the last step of run() gave, or NoCommand
    armed,          \* history: keys held since a press that gave no command
    presses, drops

keys   == <<status, armed, presses>>
link   == <<online, drops>>
edges  == <<lastUp, lastDown>>
vsVars == <<keys, link, edges, bus, at, held, sent>>

Program == 1
Preview == 2
Busses  == 1..(2 + NumAux)
Auxes   == Busses \ {Program, Preview}

Bank(b)    == <<"bank", b>>
Input(i)   == <<"input", i>>
Special(i) == <<"special", i>>
Op(i)      == <<"op", i>>

\* The keys of inputButtons: the inputs, then Program and Preview.
InputButtons == 1..(NumInput + 2)
InputButton(i) == IF i <= NumInput THEN Input(i) ELSE Bank(i - NumInput)

Keys == {Bank(b) : b \in Busses} \union {Input(i) : i \in 1..NumInput}
          \union {Special(i) : i \in 1..NumSpecial} \union {Op(i) : i \in 1..NumOp}

NoCommand == [key |-> <<"none", 0>>, bus |-> 0]
Command(k) == [key |-> k, bus |-> bus]

At(stage, i) == [stage |-> stage, i |-> i]
Stages == [wait |-> 1, aux |-> NumAux + 1, bank |-> NumAux + 3, input |-> NumInput + 3,
           auxInput |-> NumInput + 2, special |-> NumSpecial + 1, op |-> NumOp + 1]

VsInit ==
    /\ status = {} /\ armed = {} /\ presses = 0
    /\ lastUp = {} /\ lastDown = {}
    /\ bus = Preview
    /\ at = At("wait", 1) /\ held = FALSE
    /\ online = FALSE /\ drops = 0
    /\ sent = NoCommand

-----------------------------------------------------------------------------
(* Buttons: an edge is the difference to the word kept from the last call. *)

ButtonUp(k)   == k \in lastUp \ status
ButtonDown(k) == k \in status \ lastDown

SeeUp(k)   == lastUp' = (lastUp \ {k}) \union ({k} \intersect status)

\* A slip: the whole word is kept where only one key was asked for.
SeeDownAll(k) == lastDown' = status
\* A slip: a press is not kept, only a release.
SeeDownRelease(k) == lastDown' = lastDown \ ({k} \ status)
SeeDown(k) == lastDown' = (lastDown \ {k}) \union ({k} \intersect status)

\* handleUp, as called by _buttonUpClear.
HandleUp(k) == lastUp' = lastUp \union {k}

\* The key run() is about to decide on after its press was taken.
Deciding == IF at.stage = "auxInput" THEN {InputButton(at.i)} ELSE {}

\* ReaderThread: the words become what the boards show now.
ReadButtonStatus(now) ==
    /\ presses + Cardinality(now \ status) <= MaxPress
    /\ presses' = presses + Cardinality(now \ status)
    /\ status' = now
    /\ armed' = (armed \intersect (now \union Deciding)) \union (now \ status)
    /\ UNCHANGED <<link, edges, bus, at, held, sent>>

-----------------------------------------------------------------------------
(* Videoswitcher::run.                                                     *)

GoTo(stage, i) == at' = At(stage, i)

Give(k) ==
    /\ sent' = Command(k)
    /\ armed' = armed \ {k}

Silent == sent' = NoCommand /\ UNCHANGED armed

\* run() goes on only while the connection is up.
Run ==
    /\ at.stage = "wait"
    /\ online
    /\ GoTo("aux", 1)
    /\ held' = FALSE
    /\ Silent
    /\ UNCHANGED <<status, presses, link, edges, bus>>

\* auxPressed: one call of _buttonIsPressed for each aux key.
AuxPressed ==
    /\ at.stage = "aux"
    /\ IF at.i \in 1..NumAux
         THEN /\ held' = (held \/ Bank(at.i + 2) \in status)
              /\ GoTo("aux", at.i + 1)
         ELSE /\ GoTo("bank", 1)
              /\ UNCHANGED held
    /\ Silent
    /\ UNCHANGED <<status, presses, link, edges, bus>>

\* A slip: the release is taken before auxPressed is asked for.
BankUpTaken(b) == /\ SeeUp(Bank(b))
                  /\ IF ButtonUp(Bank(b)) /\ ~(held /\ b \notin Auxes)
                       THEN bus' = b /\ GoTo("input", 1)
                       ELSE GoTo("bank", b + 1) /\ UNCHANGED bus

\* A slip: the busses are counted from zero where the release is taken.
BankUpFromZero(b) == /\ SeeUp(Bank(b))
                     /\ IF ButtonUp(Bank(b)) /\ ~(held /\ b \notin Auxes)
                          THEN bus' = b - 1 /\ GoTo("input", 1)
                          ELSE GoTo("bank", b + 1) /\ UNCHANGED bus

\* One condition of the chain of _setBusMode; && does not call _buttonUp
\* for Program and Preview while an aux key is down.
BankUp(b) ==
    IF held /\ b \notin Auxes
      THEN GoTo("bank", b + 1) /\ UNCHANGED <<lastUp, bus>>
      ELSE /\ SeeUp(Bank(b))
           /\ IF ButtonUp(Bank(b))
                THEN bus' = b /\ GoTo("input", 1)
                ELSE GoTo("bank", b + 1) /\ UNCHANGED bus

SetBusMode ==
    /\ at.stage = "bank"
    /\ \/ at.i \in Busses /\ BankUp(at.i)
       \/ at.i \notin Busses /\ GoTo("input", 1) /\ UNCHANGED <<lastUp, bus>>
    /\ Silent
    /\ UNCHANGED <<status, presses, link, lastDown, held>>

\* "Skip program and preview inputs for non-aux busses": only the key of the
\* selected bus is skipped.
Skipped(i) == bus \in {Program, Preview} /\ InputButton(i) = Bank(bus)

NextInput(i) == GoTo("input", i + 1)

InputSkipped ==
    /\ at.stage = "input" /\ at.i \in InputButtons /\ Skipped(at.i)
    /\ NextInput(at.i)
    /\ Silent
    /\ UNCHANGED <<status, presses, link, edges, bus, held>>

InputIdle ==
    /\ at.stage = "input" /\ at.i \in InputButtons /\ ~Skipped(at.i)
    /\ ~ButtonDown(InputButton(at.i))
    /\ SeeDown(InputButton(at.i))
    /\ NextInput(at.i)
    /\ Silent
    /\ UNCHANGED <<status, presses, link, lastUp, bus, held>>

\* changeProgramInput, changePreviewInput or changeAuxState; on an aux bus the
\* keys of Program and Preview need a second look.
InputDown ==
    /\ at.stage = "input" /\ at.i \in InputButtons /\ ~Skipped(at.i)
    /\ ButtonDown(InputButton(at.i))
    /\ SeeDown(InputButton(at.i))
    /\ IF bus \in Auxes /\ at.i > NumInput
         THEN GoTo("auxInput", at.i) /\ Silent
         ELSE NextInput(at.i) /\ Give(InputButton(at.i))
    /\ UNCHANGED <<status, presses, link, lastUp, bus, held>>

InputsDone ==
    /\ at.stage = "input" /\ at.i \notin InputButtons
    /\ GoTo("special", 1)
    /\ Silent
    /\ UNCHANGED <<status, presses, link, edges, bus, held>>

\* _processInputToAux for Program and Preview: the aux bus follows them only
\* while its own key is down.
InputToAux ==
    /\ at.stage = "auxInput"
    /\ IF Bank(bus) \in status
         THEN Give(InputButton(at.i)) /\ HandleUp(Bank(bus))
         ELSE Silent /\ UNCHANGED lastUp
    /\ NextInput(at.i)
    /\ UNCHANGED <<status, presses, link, lastDown, bus, held>>

\* Asks for key k and gives its command if it was pressed.
Operate(k, done, else) ==
    /\ SeeDown(k)
    /\ IF ButtonDown(k) THEN Give(k) /\ done ELSE Silent /\ else

\* Keyers are asked for on the program and the preview bus only.
ProcessSpecials ==
    /\ at.stage = "special"
    /\ IF at.i \in 1..NumSpecial /\ bus \in {Program, Preview}
         THEN Operate(Special(at.i), GoTo("special", at.i + 1), GoTo("special", at.i + 1))
         ELSE GoTo("op", 1) /\ Silent /\ UNCHANGED lastDown
    /\ UNCHANGED <<status, presses, link, lastUp, bus, held>>

\* The chain of run(): the first pressed key ends it.
ProcessOps ==
    /\ at.stage = "op"
    /\ IF at.i \in 1..NumOp
         THEN Operate(Op(at.i), GoTo("wait", 1), GoTo("op", at.i + 1))
         ELSE GoTo("wait", 1) /\ Silent /\ UNCHANGED lastDown
    /\ UNCHANGED <<status, presses, link, lastUp, bus, held>>

Step == \/ Run \/ AuxPressed \/ SetBusMode \/ InputSkipped \/ InputIdle \/ InputDown
        \/ InputsDone \/ InputToAux \/ ProcessSpecials \/ ProcessOps

-----------------------------------------------------------------------------
(* The connection comes and goes (external).                               *)

Found ==
    /\ ~online
    /\ online' = TRUE
    /\ UNCHANGED <<keys, drops, edges, bus, at, held, sent>>

Lost ==
    /\ online
    /\ drops < MaxDrop
    /\ online' = FALSE
    /\ drops' = drops + 1
    /\ UNCHANGED <<keys, edges, bus, at, held, sent>>

VsNext ==
    \/ Step
    \/ \E now \in SUBSET Keys : ReadButtonStatus(now)
    \/ Found \/ Lost

VsSpec == VsInit /\ [][VsNext]_vsVars

\* The time critical thread runs run() for ever; lost connections come back.
VsFairSpec == VsSpec /\ WF_vsVars(Step) /\ WF_vsVars(Found)

-----------------------------------------------------------------------------
VsTypeOK ==
    /\ {status, lastUp, lastDown, armed} \subseteq SUBSET Keys
    /\ bus \in Busses
    /\ at.stage \in DOMAIN Stages /\ at.i \in 1..Stages[at.stage]
    /\ {held, online} \subseteq BOOLEAN
    /\ sent.key \in Keys \union {NoCommand.key} /\ sent.bus \in {0} \union Busses
    /\ presses \in 0..MaxPress /\ drops \in 0..MaxDrop

\* Every command comes from a press of its key that the reader thread saw, that
\* gave no command before, and whose key was not let go since: whatever busses
\* were selected, keys skipped and connections lost in between, no press counts
\* twice and none that ended while the desk was offline is caught up with later.
OncePerPress == [][sent' # sent /\ sent' # NoCommand => sent'.key \in armed]_vsVars

Pressed(k) == ButtonDown(k) /\ online
GivenUp(k) == k \notin status \/ ~online

\* A key that run() saw up and that is then held gives its command, however many
\* other keys come before it in run(); a keyer only while its bus is selected.
PressActs ==
    /\ \A i \in 1..NumInput : Pressed(Input(i)) ~> (sent.key = Input(i) \/ GivenUp(Input(i)))
    /\ \A i \in 1..NumOp : Pressed(Op(i)) ~> (sent.key = Op(i) \/ GivenUp(Op(i)))
    /\ \A i \in 1..NumSpecial : Pressed(Special(i)) ~>
          (sent.key = Special(i) \/ GivenUp(Special(i)) \/ bus \in Auxes)

NoAuxHeld == \A b \in Auxes : Bank(b) \notin status

\* The release of a bus key selects its bus in the end, unless the key is pressed
\* again.  A release of Program or Preview that falls into the time an aux
\* key is down is not lost: it counts when the aux key is up.
ReleaseSelects ==
    \A b \in Busses :
        (ButtonUp(Bank(b)) /\ <>[](online /\ (b \in Auxes \/ NoAuxHeld)))
            ~> (bus = b \/ Bank(b) \in status)
=============================================================================
