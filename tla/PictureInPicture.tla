-------------------------- MODULE PictureInPicture --------------------------
(***************************************************************************)
(* The desk and the switcher's state: app/Videoswitcher.cpp toggles keyers *)
(* and shows them on lamps, both from the copy of the state that           *)
(* lib/ATEM.cpp keeps, and _tooglePictureInPicture waits for that copy in  *)
(* five loops.                                                             *)
(*                                                                         *)
(* The time-critical thread runs the steps; packets reach its mailbox on   *)
(* the lwIP thread, of lower priority, so only while the first one sleeps: *)
(* 1 ms between two calls of run() and in the transfers that set lamps.    *)
(* The wait loops never sleep.  The connection is up (see AtemSession) and *)
(* every press of a key is seen once (see Videoswitcher).  A packet        *)
(* carries the whole state.  Downstream keyers are as the upstream ones,   *)
(* but tied by a command of their own.                                     *)
(***************************************************************************)
EXTENDS Naturals, Sequences, FiniteSets, SequencesExt

CONSTANTS
    PpInputs,     \* numbers of the inputs
    PpUsks,       \* upstream keyers (1..4 in the code)
    PpDsks,       \* downstream keyers (1..2 in the code)
    PpMaxEvents   \* bound on presses at the desk and changes made elsewhere

VARIABLES
    ppAt,       \* where the time-critical thread is
    ppBus,      \* _currentBus: "program", "preview" or "aux"
    ppPressed,  \* keys whose press run() has not seen
    known,      \* the _ATEM_* fields
    saved,      \* tempPreviewInput and tempOnNextTransitionStatus; history: the
                \* change known when the first loop ended
    inputLamp, keyerLamp, autoLamp, \* what the lamps show
    ppMailbox, toDesk, toMixer,     \* states and commands under way
    mixer,      \* the switcher
    ppEvents    \* number of presses and changes made elsewhere

ppVars == <<ppAt, ppBus, ppPressed, known, saved, inputLamp, keyerLamp, autoLamp,
            ppMailbox, toDesk, toMixer, mixer, ppEvents>>
lamps == <<inputLamp, keyerLamp, autoLamp>>
user  == <<ppPressed, ppEvents>>

Usk(i) == <<"usk", i>>
Dsk(i) == <<"dsk", i>>
Keyers == {Usk(i) : i \in PpUsks} \union {Dsk(i) : i \in PpDsks}
Macro  == <<"macro", 1>>
Auto   == <<"auto", 1>>
PpKeys == Keyers \union {Macro, Auto}

Loops == {"same", "tied", "begun", "ended", "reset", "restored"}

PpInit ==
    /\ ppAt = "sleep" /\ ppBus \in {"program", "preview"} /\ ppPressed = {}
    /\ mixer \in [program : PpInputs, preview : PpInputs, on : {{}}, tied : {{}, {Usk(1)}},
                  position : {0}, changes : {0}]
    /\ known = mixer
    /\ saved = [preview |-> 0, tied |-> FALSE, seen |-> 0]
    /\ inputLamp = [i \in PpInputs |-> "none"] /\ keyerLamp = [k \in Keyers |-> "none"]
    /\ autoLamp = FALSE
    /\ ppMailbox = <<>> /\ toDesk = <<>> /\ toMixer = <<>>
    /\ ppEvents = 0

-----------------------------------------------------------------------------
(* Commands.  seen: the change of the state the desk knew when sending; for*)
(* the transition of the picture in picture, when its first loop ended.    *)

Cmd(what, arg, key) == [what |-> what, arg |-> arg, key |-> key, seen |-> known.changes]

TiedUsks == {u \in known.tied : u[1] = "usk"}

Flipped(set, k) == IF k \in set THEN set \ {k} ELSE set \union {k}

\* changeUpstreamKeyNextTransition: set is the mask it starts from.
NextUsk(set, i, on, key) ==
    Cmd("next", IF on THEN set \union {Usk(i)} ELSE set \ {Usk(i)}, key)

\* mutant: the command names the pressed keyer alone
ToggleAlone(k) ==
    IF ppBus = "program" THEN Cmd("on", {k} \ known.on, k)
    ELSE IF k[1] = "dsk" THEN Cmd("tie", {k} \ known.tied, k)
    ELSE NextUsk({}, k[2], k \notin known.tied, k)

\* A keyer is toggled against the copy.  The keyers of the next transition are
\* one mask, the other commands name one keyer and its new state.
Toggle(k) ==
    IF ppBus = "program" THEN Cmd("on", {k} \ known.on, k)
    ELSE IF k[1] = "dsk" THEN Cmd("tie", {k} \ known.tied, k)
    ELSE NextUsk(TiedUsks, k[2], k \notin known.tied, k)

\* _processSpecials asks for the downstream keyers first.
Before(k, l) == IF k[1] = l[1] THEN k[2] < l[2] ELSE k[1] = "dsk"

\* The keys in this order; there is one such sequence.
Ordered(keys) == {s \in [1..Cardinality(keys) -> keys] :
                     \A i, j \in 1..Cardinality(keys) : i < j => Before(s[i], s[j])}

Toggles == {[i \in DOMAIN hit |-> Toggle(hit[i])] : hit \in Ordered(ppPressed \intersect Keyers)}

-----------------------------------------------------------------------------
(* The time-critical thread.                                               *)

Goto(from, to) == ppAt = from /\ ppAt' = to

Send(commands) == toMixer' = toMixer \o commands

\* runLoop reads until the mailbox is empty.
Drained == /\ known' = IF ppMailbox = <<>> THEN known ELSE Last(ppMailbox)
           /\ ppMailbox' = <<>>

Wake == /\ Goto("sleep", "lamps")
        /\ Drained
        /\ UNCHANGED <<ppBus, user, saved, lamps, toDesk, toMixer, mixer>>

\* The colour of an input's lamp; on an aux bus that of the bus (not modelled).
InputColor(i) == IF i = known.program THEN "red"
                 ELSE IF i = known.preview THEN "green" ELSE "off"

\* _setBusMode and _setInputLedColors; the transfers sleep.
SetInputLedColors ==
    /\ Goto("lamps", "keys")
    /\ inputLamp' = [i \in PpInputs |-> IF ppBus = "aux" THEN "off" ELSE InputColor(i)]
    /\ UNCHANGED <<ppBus, user, known, saved, keyerLamp, autoLamp, ppMailbox, toDesk,
                   toMixer, mixer>>

\* mutant: the preview input is left as it is
ToogleAtOnce ==
    /\ ppAt' = "tied"
    /\ saved' = [preview |-> known.preview % 256, tied |-> Usk(1) \in known.tied,
                 seen |-> known.changes]
    /\ \E t \in Toggles : Send(t \o <<NextUsk(TiedUsks, 1, TRUE, Macro)>>)

\* _tooglePictureInPicture up to its first loop; tempPreviewInput has 8 bits.
TooglePictureInPicture ==
    /\ ppAt' = "same"
    /\ saved' = [saved EXCEPT !.preview = known.preview % 256]
    /\ \E t \in Toggles : Send(t \o <<Cmd("preview", known.program, Macro)>>)

\* _processSpecials, the keys; on an aux bus it asks for none.
ProcessSpecials ==
    /\ ppAt = "keys"
    /\ IF ppBus = "aux"
         THEN ppAt' = "show" /\ UNCHANGED <<ppPressed, saved, toMixer>>
         ELSE IF ppBus = "program" /\ Macro \in ppPressed
           THEN TooglePictureInPicture /\ ppPressed' = ppPressed \ (Keyers \union {Macro})
           ELSE /\ ppAt' = "show" /\ (\E t \in Toggles : Send(t))
                /\ ppPressed' = ppPressed \ Keyers
                /\ UNCHANGED saved
    /\ UNCHANGED <<ppBus, ppEvents, known, lamps, ppMailbox, toDesk, mixer>>

\* The copy has what the loop waits for.
Arrived(loop) ==
    CASE loop = "same"     -> known.program = known.preview
      [] loop = "tied"     -> Usk(1) \in known.tied
      [] loop = "begun"    -> known.position # 0
      [] loop = "ended"    -> known.position = 0
      [] loop = "reset"    -> saved.tied = (Usk(1) \in known.tied)
      [] loop = "restored" -> saved.preview = known.preview

After == [same |-> "tied", tied |-> "begun", begun |-> "ended", ended |-> "reset",
          reset |-> "restored", restored |-> "show"]

\* What is sent between this loop and the next.
Then(loop) ==
    CASE loop = "same"  -> <<NextUsk(TiedUsks, 1, TRUE, Macro)>>
      [] loop = "tied"  -> <<[Cmd("auto", {}, Macro) EXCEPT !.seen = saved.seen]>>
      [] loop = "ended" -> <<NextUsk(TiedUsks, 1, saved.tied, Macro)>>
      [] loop = "reset" -> <<Cmd("preview", saved.preview, Macro)>>
      [] OTHER          -> <<>>

LeaveLoop ==
    /\ ppAt \in Loops /\ Arrived(ppAt)
    /\ ppAt' = After[ppAt]
    /\ Send(Then(ppAt))
    /\ saved' = IF ppAt = "same"
                THEN [saved EXCEPT !.tied = Usk(1) \in known.tied, !.seen = known.changes]
                ELSE saved
    /\ UNCHANGED <<ppBus, user, known, lamps, ppMailbox, toDesk, mixer>>

\* The loop goes round: runLoop, without a moment of sleep.
GoRound ==
    /\ ppAt \in Loops /\ ~Arrived(ppAt)
    /\ Drained
    /\ UNCHANGED <<ppAt, ppBus, user, saved, lamps, toDesk, toMixer, mixer>>

\* mutant: red while the program bus is selected
KeyerColorRed(k) ==
    IF ppBus = "aux" THEN "none"
    ELSE IF ppBus = "program" /\ k \in known.on THEN "red"
    ELSE IF ppBus = "preview" /\ k \in known.tied THEN "yellow" ELSE "off"

\* mutant: a lamp is only ever switched on
KeyerColorKept(k) ==
    IF ppBus = "aux" THEN "none"
    ELSE IF k \in (IF ppBus = "program" THEN known.on ELSE known.tied) THEN "yellow"
    ELSE keyerLamp[k]

KeyerColor(k) ==
    IF ppBus = "aux" THEN "none"
    ELSE IF k \in (IF ppBus = "program" THEN known.on ELSE known.tied) THEN "yellow"
    ELSE "off"

\* _processSpecials, the lamps; the transfers sleep.
ShowKeyers ==
    /\ Goto("show", "operate")
    /\ keyerLamp' = [k \in Keyers |-> KeyerColor(k)]
    /\ UNCHANGED <<ppBus, user, known, saved, inputLamp, autoLamp, ppMailbox, toDesk,
                   toMixer, mixer>>

\* The last lines of run(): doAuto (doCut and the fade to black are alike).
Operate ==
    /\ Goto("operate", "sleep")
    /\ Send(IF Auto \in ppPressed THEN <<Cmd("auto", {}, Auto)>> ELSE <<>>)
    /\ ppPressed' = ppPressed \ {Auto}
    /\ UNCHANGED <<ppBus, ppEvents, known, saved, lamps, ppMailbox, toDesk, mixer>>

\* doBlink on the blinker's thread: the lamp of Auto blinks during a transition.
DoBlink ==
    /\ autoLamp' = (known.position = 1 /\ ~autoLamp)
    /\ UNCHANGED <<ppAt, ppBus, user, known, saved, inputLamp, keyerLamp, ppMailbox, toDesk,
                   toMixer, mixer>>

-----------------------------------------------------------------------------
(* The user, the lwIP thread and the switcher (external).                  *)

PressKey(k) ==
    /\ ppEvents < PpMaxEvents /\ k \notin ppPressed
    /\ ppPressed' = ppPressed \union {k} /\ ppEvents' = ppEvents + 1
    /\ UNCHANGED <<ppAt, ppBus, known, saved, lamps, ppMailbox, toDesk, toMixer, mixer>>

\* A key is let go before run() asks for it, say on an aux bus.
LetGo(k) ==
    /\ k \in ppPressed /\ ppPressed' = ppPressed \ {k}
    /\ UNCHANGED <<ppAt, ppBus, ppEvents, known, saved, lamps, ppMailbox, toDesk, toMixer, mixer>>

\* The release of a bus key, as run() sees it in _setBusMode.
SelectBus(bus) ==
    /\ ppAt = "lamps" /\ ppEvents < PpMaxEvents /\ bus # ppBus
    /\ ppBus' = bus /\ ppEvents' = ppEvents + 1
    /\ UNCHANGED <<ppAt, ppPressed, known, saved, lamps, ppMailbox, toDesk, toMixer, mixer>>

Asleep == ppAt \in {"sleep", "lamps", "show"}

Deliver ==
    /\ Asleep /\ toDesk # <<>>
    /\ ppMailbox' = Append(ppMailbox, Head(toDesk)) /\ toDesk' = Tail(toDesk)
    /\ UNCHANGED <<ppAt, ppBus, user, known, saved, lamps, toMixer, mixer>>

\* The switcher tells the desk of a change.
Become(new) ==
    IF new = mixer
      THEN UNCHANGED <<mixer, toDesk>>
      ELSE /\ mixer' = [new EXCEPT !.changes = @ + 1]
           /\ toDesk' = Append(toDesk, mixer')

Put(set, c) == (set \ {c.key}) \union c.arg

Effect(c) ==
    CASE c.what = "on"      -> [mixer EXCEPT !.on = Put(@, c)]
      [] c.what = "tie"     -> [mixer EXCEPT !.tied = Put(@, c)]
      [] c.what = "next"    -> [mixer EXCEPT !.tied = {k \in @ : k[1] = "dsk"} \union c.arg]
      [] c.what = "preview" -> IF c.arg \in PpInputs THEN [mixer EXCEPT !.preview = c.arg]
                               ELSE mixer
      [] c.what = "auto"    -> [mixer EXCEPT !.position = 1]

TakeCommand ==
    /\ toMixer # <<>>
    /\ toMixer' = Tail(toMixer)
    /\ Become(Effect(Head(toMixer)))
    /\ UNCHANGED <<ppAt, ppBus, user, known, saved, lamps, ppMailbox>>

\* A transition ends: program and preview change places, tied keyers go on or off.
EndTransition ==
    /\ mixer.position = 1
    /\ Become([mixer EXCEPT !.position = 0, !.program = mixer.preview, !.preview = mixer.program,
                            !.on = {k \in Keyers : (k \in @) # (k \in mixer.tied)}])
    /\ UNCHANGED <<ppAt, ppBus, user, known, saved, lamps, ppMailbox, toMixer>>

\* Someone else works at the switcher.
ByOthers(i) ==
    /\ ppEvents < PpMaxEvents /\ ppEvents' = ppEvents + 1
    /\ Become([mixer EXCEPT !.preview = i])
    /\ UNCHANGED <<ppAt, ppBus, ppPressed, known, saved, lamps, ppMailbox, toMixer>>

TimeCritical == \/ Wake \/ SetInputLedColors \/ ProcessSpecials \/ LeaveLoop \/ GoRound
                \/ ShowKeyers \/ Operate
Mixer == TakeCommand \/ EndTransition

PpNext == \/ TimeCritical \/ DoBlink \/ Deliver \/ Mixer
          \/ \E k \in PpKeys : PressKey(k) \/ LetGo(k)
          \/ \E bus \in {"program", "preview", "aux"} : SelectBus(bus)
          \/ \E i \in PpInputs : ByOthers(i)

\* The threads and the switcher go on; the lwIP thread again and again gets
\* its turn while the other one sleeps.
PpFairness == WF_ppVars(TimeCritical) /\ WF_ppVars(DoBlink) /\ SF_ppVars(Deliver)
              /\ WF_ppVars(Mixer)

PpSpec == PpInit /\ [][PpNext]_ppVars /\ PpFairness

-----------------------------------------------------------------------------
PpTypeOK ==
    /\ ppAt \in {"sleep", "lamps", "keys", "show", "operate"} \union Loops
    /\ ppBus \in {"program", "preview", "aux"} /\ ppPressed \subseteq PpKeys
    /\ known.program \in PpInputs /\ known.preview \in PpInputs
    /\ {known.on, known.tied, mixer.on, mixer.tied} \subseteq SUBSET Keyers
    /\ known.changes <= mixer.changes
    /\ keyerLamp \in [Keyers -> {"none", "off", "yellow"}]

\* A keyer command, built from the copy, changes the pressed keyer and no other
\* one, if the switcher still is in the state the desk knew when sending it:
\* "preserve all other states when changing the one we want to change".
OnlyItsKeyer ==
    [][LET c == Head(toMixer)
       IN  TakeCommand /\ c.what \in {"on", "tie", "next"} /\ c.key \in Keyers
               /\ c.seen = mixer.changes =>
             \/ mixer'.on = Flipped(mixer.on, c.key) /\ mixer'.tied = mixer.tied
             \/ mixer'.tied = Flipped(mixer.tied, c.key) /\ mixer'.on = mixer.on]_ppVars

\* "set preview=program (so auto doesn't change input)": the transition of the
\* sequence finds the program input on the preview bus, unless the switcher
\* was changed since the desk saw it there.  (The desk does not look again: a
\* state it reads in its second loop may have another program input.)
ProgramKept ==
    [][LET c == Head(toMixer)
       IN  TakeCommand /\ c.what = "auto" /\ c.key = Macro /\ c.seen = mixer.changes =>
             mixer.program = mixer.preview]_ppVars

Shown == /\ \A i \in PpInputs : inputLamp[i] =
              (IF ppBus = "aux" THEN "off" ELSE IF i = mixer.program THEN "red"
               ELSE IF i = mixer.preview THEN "green" ELSE "off")
         /\ \A k \in Keyers : keyerLamp[k] =
              (IF ppBus = "aux" THEN "none"
               ELSE IF k \in (IF ppBus = "program" THEN mixer.on ELSE mixer.tied)
               THEN "yellow" ELSE "off")
         /\ ~autoLamp

\* Whatever was pressed here and changed elsewhere, the lamps end up showing
\* the switcher's state, unless the sequence never ends.
LampsAgree == <>[](Shown \/ ppAt \in Loops)

\* "process packets": the loops of the sequence get what they wait for, and
\* the desk works again.
SequenceEnds == (ppAt \in Loops) ~> (ppAt \notin Loops)
=============================================================================
