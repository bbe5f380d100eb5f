------------------------------ MODULE MCPanel ------------------------------
(***************************************************************************)
(* What the panel switches and shows, for TLC: the outputs of the matrix,  *)
(* the projector, the keyers of the switcher, and the menu with the start  *)
(* of the program.  They share no state: a behaviour runs one, the others  *)
(* rest.                                                                   *)
(***************************************************************************)
EXTENDS Naturals

CONSTANTS
    Outputs, Inputs, MxMaxPress, MxMaxFault,
    PrMaxWait, PrMaxPress, PrMaxSwitch, PrMaxFault, PrFaults,
    PpInputs, PpUsks, PpDsks, PpMaxEvents,
    MnBanks, MnLines, MnMaxNews

\* The matrix has a first input, which an output starts with; upstream keyer 1
\* is that of the picture in picture; a line of the log, and the bank it
\* reaches into, are on the display.
ASSUME PanelAssumption ==
    /\ Outputs \in Nat /\ Inputs \in Nat \ {0} /\ MxMaxFault \in Nat
    /\ PrMaxWait \in Nat /\ PrMaxPress \in Nat
    /\ PpInputs \subseteq Nat /\ 1 \in PpUsks
    /\ MnLines \in Nat \ {0} /\ MnBanks \in Nat /\ MnLines < MnBanks

VARIABLES
    part,  \* "matrix", "projector", "keyers" or "menu"
    keys, round, mxLine, slot, status, lamp, toMatrix, matrix, answers, freed, closed, mxPressed,
    mxFailed, wanted, last, refused,
    proj, vmute, prLine, device, held, lastDown, fresh, missed, enabled, led, blink,
    prPressed, switched, prFailed,
    ppAt, ppBus, ppPressed, known, saved, inputLamp, keyerLamp, autoLamp,
    ppMailbox, toDesk, toMixer, mixer, ppEvents,
    pc, begun, published, used, blinker, selected, frame, box, shows, logLine, swapToMenu,
    toggles, opened, seen, news

matrixVars == <<keys, round, mxLine, slot, status, lamp, toMatrix, matrix, answers, freed, closed,
                mxPressed, mxFailed, wanted, last, refused>>
projVars   == <<proj, vmute, prLine, device, held, lastDown, fresh, missed, enabled, led, blink,
                prPressed, switched, prFailed>>
keyerVars  == <<ppAt, ppBus, ppPressed, known, saved, inputLamp, keyerLamp, autoLamp,
                ppMailbox, toDesk, toMixer, mixer, ppEvents>>
menuVars   == <<pc, begun, published, used, blinker, selected, frame, box, shows, logLine,
                swapToMenu, toggles, opened, seen, news>>
vars == <<part, matrixVars, projVars, keyerVars, menuVars>>

Matrix == INSTANCE VideoMatrix
Proj   == INSTANCE Projector
Keyer  == INSTANCE PictureInPicture
Menu   == INSTANCE StartUp

\* What rests starts in one way; inputs are alike, so the program input may be
\* the first one.
Init == /\ part \in {"matrix", "projector", "keyers", "menu"}
        /\ Matrix!MxInit /\ Proj!PrInit /\ Keyer!PpInit /\ Menu!MnInit
        /\ part = "projector" \/ device = "on"
        /\ mixer.program = 1
        /\ part = "keyers" \/ (mixer.preview = 1 /\ mixer.tied = {} /\ ppBus = "preview")

InMatrix == part = "matrix" /\ UNCHANGED <<part, projVars, keyerVars, menuVars>>
InProj   == part = "projector" /\ UNCHANGED <<part, matrixVars, keyerVars, menuVars>>
InKeyer  == part = "keyers" /\ UNCHANGED <<part, matrixVars, projVars, menuVars>>
InMenu   == part = "menu" /\ UNCHANGED <<part, matrixVars, projVars, keyerVars>>

Next == \/ InMatrix /\ Matrix!MxNext
        \/ InProj /\ Proj!PrNext
        \/ InKeyer /\ Keyer!PpNext
        \/ InMenu /\ Menu!MnNext

\* The fairness of the four modules, of each in its part.
Fairness ==
    /\ WF_vars(\/ InMatrix /\ Matrix!Choose(1)
               \/ InProj /\ Proj!ReadStatus
               \/ InKeyer /\ Keyer!TimeCritical
               \/ InMenu /\ (Menu!Begin \/ Menu!Publish \/ Menu!DrawMenu \/ Menu!LogStart))
    /\ WF_vars(\/ InMatrix /\ Matrix!Choose(2)
               \/ InProj /\ Proj!Keys
               \/ InKeyer /\ Keyer!Mixer
               \/ InMenu /\ Menu!Round)
    /\ WF_vars(\/ InMatrix /\ Matrix!Show
               \/ InProj /\ Proj!doBlink
               \/ InKeyer /\ Keyer!DoBlink
               \/ InMenu /\ (\/ Menu!LiveToggle \/ Menu!WriteBank
                             \/ Menu!DoBlink("first", "second")
                             \/ Menu!DoBlink("second", "menu")))
    /\ WF_vars(\/ InMatrix /\ Matrix!Network
               \/ InProj /\ Proj!PrAnswer)
    /\ WF_vars(InProj /\ Proj!Warm)
    /\ SF_vars(\/ InKeyer /\ Keyer!Deliver
               \/ InMenu /\ blinker.at = "second" /\ Menu!Round)

Spec == Init /\ [][Next]_vars /\ Fairness

-----------------------------------------------------------------------------
(* The properties, which the modules state and explain.                    *)

\* Every request's object is freed once, that of one refused half way through
\* a reset twice; what is believed of an output of the matrix was asked for
\* last, and is connected when its command has been carried out.
MatrixSound == Matrix!MatrixSound

\* The projector has one request for its status under way at most; no thread
\* uses what main() has not set up; a message that opens the log is shown.
PanelSound ==
    /\ Proj!PrTypeOK /\ Proj!OneStatusRequest
    /\ Keyer!PpTypeOK
    /\ Menu!MnTypeOK /\ Menu!UsedWhenReady /\ Menu!OpenerSeen

\* A key does what it says and nothing else: one that was pressed while it was
\* disabled nothing, one of a keyer changes this keyer, and the transition of
\* the picture in picture leaves the program input.
KeysAct == Proj!NoDelayedPress /\ Keyer!OnlyItsKeyer /\ Keyer!ProgramKept

\* What is believed of the projector ends up as what it does.
StatusFollowed == part = "projector" => Proj!StatusFollowed

\* The lamps end up showing what is: the choices of the matrix, the state of
\* the projector, the inputs and keyers of the switcher.
LampsAgree ==
    /\ part = "matrix" => Matrix!Settles
    /\ part = "projector" => Proj!LampsFollow
    /\ part = "keyers" => Keyer!LampsAgree

\* After the messages the selected page comes back.
PageReturns == part = "menu" => Menu!PageReturns
=============================================================================
