------------------------ MODULE Videoswitcher_proofs ------------------------
(***************************************************************************)
(* Proofs about Videoswitcher, for any numbers of keys, presses and lost   *)
(* connections: the types of the round and its history, and that a press   *)
(* gives one command at most.                                              *)
(***************************************************************************)
EXTENDS Videoswitcher, FiniteSetTheorems, TLAPS

(* The numbers of keys and the bounds are natural numbers.                 *)
LEMMA Numbers == /\ NumAux \in Nat /\ NumInput \in Nat /\ NumSpecial \in Nat /\ NumOp \in Nat
                 /\ MaxPress \in Nat /\ MaxDrop \in Nat
BY DeskAssumption

(* The desk has finitely many keys, so presses can be counted.             *)
LEMMA KeysFinite == IsFiniteSet(Keys)
<1> DEFINE Names == {"bank", "input", "special", "op"}
           Top == NumAux + NumInput + NumSpecial + NumOp + 2
<1>1. IsFiniteSet(0..Top)
  <2>1. Top \in Int /\ 0 \in Int
    BY Numbers
  <2>2. QED BY <2>1, FS_Interval
<1>2. IsFiniteSet(Names)
  <2>1. IsFiniteSet({"bank"} \cup {"input"})
    BY FS_Singleton, FS_Union
  <2>2. IsFiniteSet(({"bank"} \cup {"input"}) \cup {"special"})
    BY <2>1, FS_Singleton, FS_Union
  <2>3. IsFiniteSet((({"bank"} \cup {"input"}) \cup {"special"}) \cup {"op"})
    BY <2>2, FS_Singleton, FS_Union
  <2>4. Names = (({"bank"} \cup {"input"}) \cup {"special"}) \cup {"op"}
    OBVIOUS
  <2>5. QED BY <2>3, <2>4
<1>3. IsFiniteSet(Names \X (0..Top))
  BY <1>1, <1>2, FS_Product
<1>4. Keys \in SUBSET (Names \X (0..Top))
  BY Numbers DEF Keys, Bank, Input, Special, Op, Busses
<1>5. QED BY <1>3, <1>4, FS_Subset

(* A number of keys is a natural number.                                   *)
LEMMA CountIs == ASSUME NEW S \in SUBSET Keys PROVE Cardinality(S) \in Nat
BY KeysFinite, FS_Subset, FS_CardinalityType

(* The keys that run() asks for.                                           *)
LEMMA KeysAre ==
    /\ \A b \in Busses : Bank(b) \in Keys
    /\ \A i \in 1..NumInput : Input(i) \in Keys
    /\ \A i \in 1..NumSpecial : Special(i) \in Keys
    /\ \A i \in 1..NumOp : Op(i) \in Keys
    /\ \A i \in InputButtons : InputButton(i) \in Keys
<1>1. /\ \A b \in Busses : Bank(b) \in Keys
      /\ \A i \in 1..NumInput : Input(i) \in Keys
      /\ \A i \in 1..NumSpecial : Special(i) \in Keys
      /\ \A i \in 1..NumOp : Op(i) \in Keys
  BY DEF Keys
<1>2. ASSUME NEW i \in InputButtons PROVE InputButton(i) \in Keys
  <2>1. CASE i <= NumInput
    BY <1>1, <2>1, Numbers DEF InputButtons, InputButton
  <2>2. CASE ~(i <= NumInput)
    <3>1. i - NumInput \in Busses
      BY <2>2, Numbers DEF InputButtons, Busses
    <3>2. QED BY <1>1, <2>2, <3>1 DEF InputButton
  <2>3. QED BY <2>1, <2>2
<1>3. QED BY <1>1, <1>2

-----------------------------------------------------------------------------
(* A key that is down and that run() did not see down yet was pressed and  *)
(* gave no command; neither did the one run() is deciding on, which it saw.*)
ArmedInv ==
    /\ status \ lastDown \subseteq armed
    /\ at.stage = "auxInput" => InputButton(at.i) \in armed \cap lastDown

(* Where run() is.                                                         *)
PlaceInv == at \in [stage : DOMAIN Stages, i : Nat] /\ at.i \in 1..Stages[at.stage]

KeyInv ==
    /\ status \subseteq Keys /\ lastUp \subseteq Keys /\ lastDown \subseteq Keys /\ armed \subseteq Keys
    /\ bus \in Busses
    /\ held \in BOOLEAN /\ online \in BOOLEAN
    /\ sent = NoCommand \/ sent \in [key : Keys, bus : Busses]
    /\ presses \in 0..MaxPress /\ drops \in 0..MaxDrop

Inv == KeyInv /\ PlaceInv /\ ArmedInv

(* A step leads to a stage of run().                                       *)
LEMMA StagesAre ==
    /\ DOMAIN Stages = {"wait", "aux", "bank", "input", "auxInput", "special", "op"}
    /\ Stages["wait"] = 1 /\ Stages["aux"] = NumAux + 1 /\ Stages["bank"] = NumAux + 3
    /\ Stages["input"] = NumInput + 3 /\ Stages["auxInput"] = NumInput + 2
    /\ Stages["special"] = NumSpecial + 1 /\ Stages["op"] = NumOp + 1
BY DEF Stages

(* run() goes on at a place that exists.                                   *)
LEMMA GoToIs ==
    ASSUME NEW stage \in DOMAIN Stages, NEW i \in 1..Stages[stage], GoTo(stage, i)
    PROVE  PlaceInv' /\ at'.stage = stage /\ at'.i = i
<1>1. Stages[stage] \in Nat
  BY StagesAre, Numbers
<1>2. at' = [stage |-> stage, i |-> i] /\ i \in Nat
  BY <1>1 DEF GoTo, At
<1>3. QED BY <1>2 DEF PlaceInv

(* The first place of each stage, and the one that follows.                *)
LEMMA PlacesFollow ==
    /\ \A stage \in DOMAIN Stages \ {"auxInput"} : 1 \in 1..Stages[stage]
    /\ \A i \in 1..NumAux : i + 1 \in 1..Stages["aux"]
    /\ \A i \in Busses : i + 1 \in 1..Stages["bank"]
    /\ \A i \in InputButtons : i + 1 \in 1..Stages["input"] /\ i \in 1..Stages["auxInput"]
    /\ \A i \in 1..NumSpecial : i + 1 \in 1..Stages["special"]
    /\ \A i \in 1..NumOp : i + 1 \in 1..Stages["op"]
BY StagesAre, Numbers DEF Busses, InputButtons

(* A step that asks for no press and gives no command keeps what is armed. *)
LEMMA QuietStep ==
    ASSUME Inv, Silent, UNCHANGED <<status, presses, link, lastDown>>,
           lastUp' \in SUBSET Keys, bus' \in Busses, held' \in BOOLEAN,
           PlaceInv', at'.stage # "auxInput"
    PROVE  Inv' /\ sent' = NoCommand
<1>1. ArmedInv'
  BY DEF Inv, ArmedInv, Silent
<1>2. KeyInv'
  BY DEF Inv, KeyInv, Silent, link
<1>3. QED BY <1>1, <1>2 DEF Inv, Silent

(* A step that asks whether k was pressed keeps a press of another key.    *)
LEMMA SeeDownKeeps ==
    ASSUME Inv, NEW k \in Keys, SeeDown(k), status' = status
    PROVE  /\ lastDown' \in SUBSET Keys
           /\ ButtonDown(k) => k \in armed
           /\ status' \ lastDown' \subseteq armed \ {k}
BY DEF Inv, KeyInv, ArmedInv, SeeDown, ButtonDown

(* A step that asks for k and gives its command, or gives none.            *)
LEMMA AskStep ==
    ASSUME Inv, NEW k \in Keys, SeeDown(k), UNCHANGED <<status, presses, link, lastUp, bus, held>>,
           Silent \/ (Give(k) /\ ButtonDown(k)),
           PlaceInv', at'.stage = "auxInput" => ButtonDown(k) /\ Silent /\ k = InputButton(at'.i)
    PROVE  Inv' /\ (sent' # NoCommand => sent'.key \in armed)
<1>1. /\ lastDown' \in SUBSET Keys
      /\ ButtonDown(k) => k \in armed
      /\ status' \ lastDown' \subseteq armed \ {k}
  BY SeeDownKeeps
<1>2. CASE Silent
  <2>1. ArmedInv'
    BY <1>1, <1>2 DEF ArmedInv, Silent, SeeDown, ButtonDown
  <2>2. KeyInv'
    BY <1>1, <1>2 DEF Inv, KeyInv, Silent, link
  <2>3. QED BY <1>2, <2>1, <2>2 DEF Inv, Silent
<1>3. CASE Give(k) /\ ButtonDown(k) /\ ~Silent
  <2>1. ArmedInv'
    BY <1>1, <1>3 DEF ArmedInv, Give
  <2>2. sent' = [key |-> k, bus |-> bus]
    BY <1>3 DEF Give, Command
  <2>3. KeyInv'
    BY <1>1, <1>3, <2>2 DEF Inv, KeyInv, Give, link
  <2>4. QED BY <1>1, <1>3, <2>1, <2>2, <2>3 DEF Inv
<1>4. QED BY <1>2, <1>3

-----------------------------------------------------------------------------
(* The steps of run().                                                     *)

Fine == Inv' /\ (sent' # NoCommand => sent'.key \in armed)

(* run() begins: the edges stay as they are.                               *)
LEMMA RunStep == ASSUME Inv, Run PROVE Fine
<1>1. PlaceInv' /\ at'.stage # "auxInput"
  BY GoToIs, PlacesFollow, StagesAre DEF Run
<1>2. QED BY <1>1, QuietStep DEF Run, Inv, KeyInv, edges, Fine

(* An aux key held down: no edge is asked for.                             *)
LEMMA AuxPressedStep == ASSUME Inv, AuxPressed PROVE Fine
<1>1. PlaceInv' /\ at'.stage # "auxInput"
  BY GoToIs, PlacesFollow, StagesAre DEF AuxPressed
<1>2. held' \in BOOLEAN
  BY DEF AuxPressed, Inv, KeyInv
<1>3. QED BY <1>1, <1>2, QuietStep DEF AuxPressed, Inv, KeyInv, edges, Fine

(* The keys of the busses are asked for releases only.                     *)
LEMMA SetBusModeStep == ASSUME Inv, SetBusMode PROVE Fine
<1>1. /\ PlaceInv' /\ at'.stage # "auxInput"
      /\ lastUp' \in SUBSET Keys /\ bus' \in Busses
  <2>1. lastUp \in SUBSET Keys /\ bus \in Busses
    BY DEF Inv, KeyInv
  <2>2. CASE at.i \notin Busses /\ GoTo("input", 1) /\ UNCHANGED <<lastUp, bus>>
    BY <2>1, <2>2, GoToIs, PlacesFollow, StagesAre
  <2>3. CASE at.i \in Busses /\ BankUp(at.i)
    <3>1. /\ GoTo("bank", at.i + 1) \/ GoTo("input", 1)
          /\ lastUp' = lastUp \/ SeeUp(Bank(at.i))
          /\ bus' = bus \/ bus' = at.i
      BY <2>3 DEF BankUp
    <3>2. SeeUp(Bank(at.i)) => lastUp' \in SUBSET Keys
      BY <2>1, <2>3, KeysAre DEF SeeUp
    <3>3. PlaceInv' /\ at'.stage # "auxInput"
      BY <2>3, <3>1, GoToIs, PlacesFollow, StagesAre
    <3>4. QED BY <2>1, <2>3, <3>1, <3>2, <3>3
  <2>4. QED BY <2>2, <2>3 DEF SetBusMode
<1>2. QED BY <1>1, QuietStep DEF SetBusMode, Inv, KeyInv, Fine

(* A key is passed over, or the last one was looked at.                    *)
LEMMA InputSkippedStep == ASSUME Inv, InputSkipped \/ InputsDone PROVE Fine
<1>1. PlaceInv' /\ at'.stage # "auxInput"
  BY GoToIs, PlacesFollow, StagesAre DEF InputSkipped, InputsDone, NextInput
<1>2. QED BY <1>1, QuietStep DEF InputSkipped, InputsDone, Inv, KeyInv, edges, Fine

(* A key that gives nothing is asked for all the same.                     *)
LEMMA InputIdleStep == ASSUME Inv, InputIdle PROVE Fine
<1>1. PlaceInv' /\ at'.stage # "auxInput"
  BY GoToIs, PlacesFollow, StagesAre DEF InputIdle, NextInput
<1>2. InputButton(at.i) \in Keys
  BY KeysAre DEF InputIdle
<1>3. QED BY <1>1, <1>2, AskStep DEF InputIdle, Fine

(* A key that was pressed gives its command, or is decided on next.        *)
LEMMA InputDownStep == ASSUME Inv, InputDown PROVE Fine
<1>1. InputButton(at.i) \in Keys /\ at.i \in InputButtons
  BY KeysAre DEF InputDown
<1>2. CASE bus \in Auxes /\ at.i > NumInput
  <2>1. GoTo("auxInput", at.i) /\ Silent
    BY <1>2 DEF InputDown
  <2>2. PlaceInv' /\ at'.i = at.i
    BY <1>1, <2>1, GoToIs, PlacesFollow, StagesAre
  <2>3. QED BY <1>1, <2>1, <2>2, AskStep DEF InputDown, Fine
<1>3. CASE ~(bus \in Auxes /\ at.i > NumInput)
  <2>1. NextInput(at.i) /\ Give(InputButton(at.i))
    BY <1>3 DEF InputDown
  <2>2. PlaceInv' /\ at'.stage # "auxInput"
    BY <1>1, <2>1, GoToIs, PlacesFollow, StagesAre DEF NextInput
  <2>3. QED BY <1>1, <2>1, <2>2, AskStep DEF InputDown, Fine
<1>4. QED BY <1>2, <1>3

(* The key of Program or Preview was down when run() decided to look again,*)
(* so its command has a press of its own, even if it was let go since.     *)
LEMMA InputToAuxStep == ASSUME Inv, InputToAux PROVE Fine
<1> DEFINE k == InputButton(at.i)
<1>1. at.i \in InputButtons
  BY StagesAre, Numbers DEF InputToAux, Inv, PlaceInv, InputButtons
<1>2. PlaceInv' /\ at'.stage # "auxInput"
  BY <1>1, GoToIs, PlacesFollow, StagesAre DEF InputToAux, NextInput
<1>3. k \in Keys /\ k \in armed
  BY <1>1, KeysAre DEF InputToAux, Inv, ArmedInv
<1>4. CASE Bank(bus) \in status
  <2>1. Give(k) /\ HandleUp(Bank(bus))
    BY <1>4 DEF InputToAux
  <2>2. lastUp' \in SUBSET Keys
    BY <1>4, <2>1 DEF HandleUp, Inv, KeyInv
  <2>3. sent' = [key |-> k, bus |-> bus] /\ armed' = armed \ {k}
    BY <2>1 DEF Give, Command
  <2>4. k \in lastDown
    BY DEF InputToAux, Inv, ArmedInv
  <2>5. ArmedInv'
    BY <1>2, <2>3, <2>4 DEF InputToAux, Inv, ArmedInv
  <2>6. KeyInv'
    BY <1>3, <2>2, <2>3 DEF InputToAux, Inv, KeyInv, link
  <2>7. QED BY <1>2, <1>3, <2>3, <2>5, <2>6 DEF Fine, Inv
<1>5. CASE Bank(bus) \notin status
  <2>1. Silent /\ UNCHANGED lastUp
    BY <1>5 DEF InputToAux
  <2>2. QED BY <1>2, <2>1, QuietStep DEF InputToAux, Fine, Inv, KeyInv
<1>6. QED BY <1>4, <1>5

(* The keys of the specials.                                               *)
LEMMA ProcessSpecialsStep == ASSUME Inv, ProcessSpecials PROVE Fine
<1>1. CASE at.i \in 1..NumSpecial /\ bus \in {Program, Preview}
  <2>1. /\ SeeDown(Special(at.i)) /\ GoTo("special", at.i + 1)
        /\ Silent \/ (Give(Special(at.i)) /\ ButtonDown(Special(at.i)))
    BY <1>1 DEF ProcessSpecials, Operate
  <2>2. PlaceInv' /\ at'.stage # "auxInput"
    BY <1>1, <2>1, GoToIs, PlacesFollow, StagesAre
  <2>3. Special(at.i) \in Keys
    BY <1>1, KeysAre
  <2>4. QED BY <2>1, <2>2, <2>3, AskStep DEF ProcessSpecials, Fine
<1>2. CASE ~(at.i \in 1..NumSpecial /\ bus \in {Program, Preview})
  <2>1. GoTo("op", 1) /\ Silent /\ UNCHANGED lastDown
    BY <1>2 DEF ProcessSpecials
  <2>2. PlaceInv' /\ at'.stage # "auxInput"
    BY <2>1, GoToIs, PlacesFollow, StagesAre
  <2>3. QED BY <2>1, <2>2, QuietStep DEF ProcessSpecials, Inv, KeyInv, Fine
<1>3. QED BY <1>1, <1>2

(* The keys of cut, auto and the keyers.                                   *)
LEMMA ProcessOpsStep == ASSUME Inv, ProcessOps PROVE Fine
<1>1. CASE at.i \in 1..NumOp
  <2>1. /\ SeeDown(Op(at.i)) /\ (GoTo("op", at.i + 1) \/ GoTo("wait", 1))
        /\ Silent \/ (Give(Op(at.i)) /\ ButtonDown(Op(at.i)))
    BY <1>1 DEF ProcessOps, Operate
  <2>2. PlaceInv' /\ at'.stage # "auxInput"
    BY <1>1, <2>1, GoToIs, PlacesFollow, StagesAre
  <2>3. Op(at.i) \in Keys
    BY <1>1, KeysAre
  <2>4. QED BY <2>1, <2>2, <2>3, AskStep DEF ProcessOps, Fine
<1>2. CASE at.i \notin 1..NumOp
  <2>1. GoTo("wait", 1) /\ Silent /\ UNCHANGED lastDown
    BY <1>2 DEF ProcessOps
  <2>2. PlaceInv' /\ at'.stage # "auxInput"
    BY <2>1, GoToIs, PlacesFollow, StagesAre
  <2>3. QED BY <2>1, <2>2, QuietStep DEF ProcessOps, Inv, KeyInv, Fine
<1>3. QED BY <1>1, <1>2

-----------------------------------------------------------------------------
(* The reader thread, between any two looks of run(): new presses are      *)
(* armed, and keys let go are not, but for the one being decided on.       *)
LEMMA ReadStep ==
    ASSUME Inv, NEW now \in SUBSET Keys, ReadButtonStatus(now)
    PROVE  Inv'
<1>1. now \ status \in SUBSET Keys
  OBVIOUS
<1>2. Cardinality(now \ status) \in Nat
  BY <1>1, CountIs
<1>3. presses' \in 0..MaxPress
  BY <1>2, Numbers DEF ReadButtonStatus, Inv, KeyInv
<1>4. KeyInv'
  BY <1>3 DEF ReadButtonStatus, Inv, KeyInv, link, edges
<1>5. ArmedInv'
  <2>1. status' \ lastDown' \subseteq armed'
    BY DEF ReadButtonStatus, Inv, ArmedInv, edges
  <2>2. at'.stage = "auxInput" => InputButton(at'.i) \in armed' \cap lastDown'
    BY DEF ReadButtonStatus, Inv, ArmedInv, edges, Deciding
  <2>3. QED BY <2>1, <2>2 DEF ArmedInv
<1>6. PlaceInv'
  BY DEF ReadButtonStatus, Inv, PlaceInv
<1>7. QED BY <1>4, <1>5, <1>6 DEF Inv

(* The connection comes and goes; the edges stay.                          *)
LEMMA LinkStep == ASSUME Inv, Found \/ Lost PROVE Inv'
<1>1. online' \in BOOLEAN /\ drops' \in 0..MaxDrop
  <2>1. online \in BOOLEAN /\ drops \in 0..MaxDrop
    BY DEF Inv, KeyInv
  <2>2. CASE Found
    BY <2>1, <2>2 DEF Found
  <2>3. CASE Lost
    <3>1. online' = FALSE /\ drops' = drops + 1 /\ drops < MaxDrop
      BY <2>3 DEF Lost
    <3>2. drops' \in 0..MaxDrop
      BY <2>1, <3>1, Numbers
    <3>3. QED BY <3>1, <3>2
  <2>4. QED BY <2>2, <2>3
<1>2. UNCHANGED <<status, armed, presses, lastUp, lastDown, bus, at, held, sent>>
  BY DEF Found, Lost, keys, edges
<1>3. QED BY <1>1, <1>2 DEF Inv, KeyInv, PlaceInv, ArmedInv

(* No key is down at first.                                                *)
LEMMA DeskInit == VsInit => Inv
<1> SUFFICES ASSUME VsInit PROVE Inv
  OBVIOUS
<1>1. PlaceInv
  BY StagesAre DEF VsInit, At, PlaceInv
<1>2. KeyInv
  <2>1. 2 \in 1..(2 + NumAux) /\ 0 \in 0..MaxPress /\ 0 \in 0..MaxDrop
    BY Numbers
  <2>2. QED BY <2>1 DEF VsInit, KeyInv, Busses, Preview
<1>3. ArmedInv
  BY DEF VsInit, At, ArmedInv
<1>4. QED BY <1>1, <1>2, <1>3 DEF Inv

(* Every step keeps the invariant and commands only keys that are armed.   *)
LEMMA DeskStep ==
    ASSUME Inv, [VsNext]_vsVars
    PROVE  /\ Inv'
           /\ sent' # sent /\ sent' # NoCommand => sent'.key \in armed
<1>1. CASE Step
  <2>1. Fine
    BY <1>1, RunStep, AuxPressedStep, SetBusModeStep, InputSkippedStep, InputIdleStep,
       InputDownStep, InputToAuxStep, ProcessSpecialsStep, ProcessOpsStep DEF Step
  <2>2. QED BY <2>1 DEF Fine
<1>2. ASSUME NEW now \in SUBSET Keys, ReadButtonStatus(now)
      PROVE  Inv' /\ sent' = sent
  BY <1>2, ReadStep DEF ReadButtonStatus
<1>3. CASE Found \/ Lost
  BY <1>3, LinkStep DEF Found, Lost
<1>4. CASE UNCHANGED vsVars
  BY <1>4 DEF vsVars, keys, link, edges, Inv, KeyInv, PlaceInv, ArmedInv
<1>5. QED BY <1>1, <1>2, <1>3, <1>4 DEF VsNext

(* The invariant holds of every behaviour.                                 *)
LEMMA DeskAlways == VsSpec => []Inv
<1>1. Inv /\ [VsNext]_vsVars => Inv'
  BY DeskStep
<1>2. QED BY DeskInit, <1>1, PTL DEF VsSpec

(* The words of the keys, the bus and the place in run() keep their types, *)
(* whatever is pressed between any two looks (app/Videoswitcher.cpp,       *)
(* lib/Buttons.cpp).                                                       *)
THEOREM DeskTypes == VsSpec => []VsTypeOK
<1>1. Inv => VsTypeOK
  <2> SUFFICES ASSUME Inv PROVE VsTypeOK
    OBVIOUS
  <2>1. sent.key \in Keys \union {NoCommand.key} /\ sent.bus \in {0} \union Busses
    BY DEF Inv, KeyInv, NoCommand
  <2>2. at.stage \in DOMAIN Stages /\ at.i \in 1..Stages[at.stage]
    BY DEF Inv, PlaceInv
  <2>3. QED BY <2>1, <2>2 DEF Inv, KeyInv, VsTypeOK
<1>2. QED BY DeskAlways, <1>1, PTL

(* No press gives two commands, and none that ended unseen, or while the   *)
(* desk was offline, gives one later (app/Videoswitcher.cpp,               *)
(* lib/Buttons.cpp).                                                       *)
THEOREM PressesCountOnce == VsSpec => OncePerPress
<1>1. Inv /\ [VsNext]_vsVars => [sent' # sent /\ sent' # NoCommand => sent'.key \in armed]_vsVars
  BY DeskStep
<1>2. QED BY DeskAlways, <1>1, PTL DEF VsSpec, OncePerPress
=============================================================================
