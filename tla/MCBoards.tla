------------------------------ MODULE MCBoards ------------------------------
(***************************************************************************)
(* The devices of the board and its lines, for TLC: the settings, the      *)
(* reader thread, the lamps of the keys, the camera's stick and keys, the  *)
(* fader, and the packets of the switcher.  They share no state: a         *)
(* behaviour runs one of them and the others rest.  The properties are     *)
(* those of the six modules.                                               *)
(***************************************************************************)
EXTENDS Memory, InputReader, BoardLamps, PtzCamera, Fader, AtemPacket

VARIABLE part   \* "settings", "reader", "lamps", "camera", "fader" or "packets"

\* The answer to an address, a network change and an acknowledgement, as they
\* are sent but for the terminator.
CameraPackets == {<<136, 48, 2>>, <<136, 56>>, <<144, 65>>}

\* Fields of each layout; the highest number of each kind.
FieldKinds == {<<"PrgI", 0>>, <<"AuxS", 3>>, <<"TrSS", 0>>, <<"KeOn", 4>>, <<"DskS", 2>>}

\* The last version with the old layout and the first with the new one.
BothLayouts == {<<2, 11>>, <<2, 12>>}

vars == <<part, meVars, rdVars, lpVars, ptVars, fdVars, pkVars>>

Parts == {"settings", "reader", "lamps", "camera", "fader", "packets"}

\* What rests starts in one way only.
Init == /\ part \in Parts
        /\ MeInit /\ RdInit /\ LpInit /\ PtInit /\ FdInit /\ PkInit
        /\ part = "settings" \/ eeprom.version = 255
        /\ part = "camera" \/ focusPin
        /\ part = "fader" \/ reading = 0
        /\ part = "packets" \/ mixerVersion = <<2, 12>>

Next ==
    \/ /\ part = "settings" /\ MeNext
       /\ UNCHANGED <<part, rdVars, lpVars, ptVars, fdVars, pkVars>>
    \/ /\ part = "reader" /\ RdNext
       /\ UNCHANGED <<part, meVars, lpVars, ptVars, fdVars, pkVars>>
    \/ /\ part = "lamps" /\ LpNext
       /\ UNCHANGED <<part, meVars, rdVars, ptVars, fdVars, pkVars>>
    \/ /\ part = "camera" /\ PtNext
       /\ UNCHANGED <<part, meVars, rdVars, lpVars, fdVars, pkVars>>
    \/ /\ part = "fader" /\ FdNext
       /\ UNCHANGED <<part, meVars, rdVars, lpVars, ptVars, pkVars>>
    \/ /\ part = "packets" /\ PkNext
       /\ UNCHANGED <<part, meVars, rdVars, lpVars, ptVars, fdVars>>

Spec == Init /\ [][Next]_vars
=============================================================================
