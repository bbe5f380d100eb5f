------------------------------ MODULE Projector ------------------------------
(***************************************************************************)
(* A projector (lib/ProjectorCtrl.cpp), its keys and lamps                 *)
(* (app/OutputDisplays.cpp; the second projector is treated alike) and the *)
(* switch that enables the keys.                                           *)
(*                                                                         *)
(* run() is on the main thread, doBlink() on that of the blinker, the keys *)
(* are read by the reader thread and callbacks come on the lwIP thread.    *)
(***************************************************************************)
EXTENDS Integers, Sequences

CONSTANTS
    PrMaxWait,   \* bound on requests waiting when a poll is due
    PrMaxPress,  \* bound on presses of the two keys
    PrMaxSwitch, \* bound on turns of the enable switch
    PrMaxFault,  \* bound on failed requests and power failures of the lamp
    PrFaults     \* "bad" answer, "null" result, "lost" or "refused" request

VARIABLES
    proj,     \* the ProjectorCtrl object
    vmute,    \* _projetorLi_vmute
    prLine,   \* requests sent and not finished, oldest first
    device,   \* phase of the projector
    held, lastDown,  \* words of the key board
    fresh,    \* history: keys pressed since the last look
    missed,   \* history: a request for the status had no callback
    enabled,  \* the enable switch
    led,      \* _led_color of the power and the mute key
    blink,    \* _blink
    prPressed, switched, prFailed  \* numbers of presses, turns and faults

prVars == <<proj, vmute, prLine, device, held, lastDown, fresh, missed, enabled, led, blink,
            prPressed, switched, prFailed>>
board == <<held, lastDown, fresh, enabled>>
lamps == <<led, blink>>
prCounters == <<prPressed, switched, prFailed>>

PrKeys == {"power", "mute"}

(* The status codes, by what the code makes of them: 00, 40, the four of   *)
(* cooling down, those of standby and those of an error.                   *)
Phases == {"on", "countdown", "cooling", "standby", "error"}

hasPower(status) == status \in {"on", "countdown", "cooling"}

PrInit ==
    /\ proj = [status |-> "invalid", reading |-> FALSE, online |-> TRUE]
    /\ vmute = FALSE
    /\ prLine = <<>>
    /\ device \in {"standby", "on"}
    /\ held = {} /\ lastDown = {} /\ fresh = {} /\ enabled = FALSE /\ missed = FALSE
    /\ led = [k \in PrKeys |-> "off"] /\ blink = 0
    /\ prPressed = 0 /\ switched = 0 /\ prFailed = 0

-----------------------------------------------------------------------------
(* The reader thread: a key goes down or up, the switch is turned.         *)
PrPress(k) ==
    /\ k \notin held /\ prPressed < PrMaxPress
    /\ prPressed' = prPressed + 1
    /\ held' = held \cup {k} /\ fresh' = fresh \cup {k}
    /\ UNCHANGED <<proj, vmute, prLine, device, lastDown, enabled, lamps, missed, switched, prFailed>>

PrRelease(k) ==
    /\ k \in held
    /\ held' = held \ {k}
    /\ UNCHANGED <<proj, vmute, prLine, device, lastDown, fresh, enabled, lamps, missed, prCounters>>

Turn ==
    /\ switched < PrMaxSwitch
    /\ switched' = switched + 1
    /\ enabled' = ~enabled
    /\ UNCHANGED <<proj, vmute, prLine, device, held, lastDown, fresh, lamps, missed, prPressed, prFailed>>

-----------------------------------------------------------------------------
(* OutputDisplays::run(), on the main thread.                              *)

(* readStatus(): _reading_stat is set after send(), whatever it returned;  *)
(* a refused request has no callback, or had it inside send().             *)
ReadStatusAlways ==  \* mutant: the flag is not tested
    /\ Len(prLine) <= PrMaxWait
    /\ proj' = [proj EXCEPT !.reading = TRUE]
    /\ prLine' = Append(prLine, <<"stat", "?">>)
    /\ UNCHANGED <<vmute, device, board, lamps, missed, prCounters>>

ReadStatus ==
    /\ ~proj.reading /\ Len(prLine) <= PrMaxWait
    /\ proj' = [proj EXCEPT !.reading = TRUE]
    /\ \/ prLine' = Append(prLine, <<"stat", "?">>) /\ UNCHANGED <<missed, prFailed>>
       \/ /\ "refused" \in PrFaults /\ prFailed < PrMaxFault
          /\ prFailed' = prFailed + 1
          /\ missed' = TRUE
          /\ UNCHANGED prLine
    /\ UNCHANGED <<vmute, device, board, lamps, prPressed, switched>>

(* buttonDownAll(): keys that went down since the last look, which is taken*)
(* in any case, enabled or not.                                            *)
LookEnabled ==  \* mutant: the keys are only read when they are enabled
    IF enabled THEN lastDown' = held /\ fresh' = {} ELSE UNCHANGED lastDown /\ fresh' = {}

Look == lastDown' = held /\ fresh' = {}

Keys ==
    LET down == IF enabled /\ proj.online THEN held \ lastDown ELSE {}
        muted == vmute /\ hasPower(proj.status)
        power == IF hasPower(proj.status) THEN "off" ELSE "on"
        mute == IF muted THEN "show" ELSE "hide"
    IN  /\ Look
        /\ prLine' = prLine \o (IF "power" \in down THEN <<<<"power", power>>>> ELSE <<>>)
                            \o (IF "mute" \in down THEN <<<<"mute", mute>>>> ELSE <<>>)
        /\ vmute' = IF "mute" \in down THEN ~muted ELSE muted
        /\ UNCHANGED <<proj, device, held, enabled, lamps, missed, prCounters>>

-----------------------------------------------------------------------------
(* OutputDisplays::doBlink(), on the thread of the blinker.                *)

(* _processProjectorLeds()                                                 *)
PowerLedNoError ==  \* mutant: an error is no case of its own
    CASE ~proj.online \/ proj.status = "invalid" -> "off"
      [] OTHER -> IF hasPower(proj.status) THEN "green" ELSE "backlight"

Blinked(color) ==
    CASE blink = 3 -> "backlight"
      [] blink = 1 -> color
      [] OTHER -> led["power"]

PowerLed ==
    CASE ~proj.online \/ proj.status = "invalid" -> "off"
      [] proj.online /\ proj.status = "error" -> IF led["power"] = "red" THEN "backlight" ELSE "red"
      [] proj.online /\ proj.status = "countdown" -> Blinked("green")
      [] proj.online /\ proj.status = "cooling" -> Blinked("red")
      [] proj.online /\ proj.status = "on" -> "green"
      [] proj.online /\ proj.status = "standby" -> "backlight"

MuteLed ==
    IF proj.online /\ hasPower(proj.status) THEN IF vmute THEN "red" ELSE "backlight" ELSE "off"

doBlink ==
    /\ blink' = (blink + 1) % 4
    /\ led' = [power |-> PowerLed, mute |-> MuteLed]
    /\ UNCHANGED <<proj, vmute, prLine, device, board, missed, prCounters>>

-----------------------------------------------------------------------------
(* The projector and the callback _recv_cb(), on the lwIP thread.          *)

(* The phase after a command; it takes commands for the other state only.  *)
Commanded(r) ==
    CASE r = <<"power", "on">> /\ device = "standby" -> "countdown"
      [] r = <<"power", "off">> /\ device = "on" -> "cooling"
      [] OTHER -> device

(* Time passes: the lamp is on, or cold.                                   *)
Warm ==
    /\ device \in {"countdown", "cooling"}
    /\ device' = IF device = "countdown" THEN "on" ELSE "standby"
    /\ UNCHANGED <<proj, vmute, prLine, board, lamps, missed, prCounters>>

Break ==
    /\ device # "error" /\ prFailed < PrMaxFault
    /\ prFailed' = prFailed + 1
    /\ device' = "error"
    /\ UNCHANGED <<proj, vmute, prLine, board, lamps, missed, prPressed, switched>>

RecvStatForget(online, status) ==  \* mutant: _reading_stat is cleared by an answer only
    IF Head(prLine)[1] = "stat"
    THEN [status |-> status, reading |-> proj.reading /\ ~online, online |-> online]
    ELSE [proj EXCEPT !.online = online]

RecvStat(online, status) ==
    IF Head(prLine)[1] = "stat" THEN [status |-> status, reading |-> FALSE, online |-> online]
    ELSE [proj EXCEPT !.online = online]

PrAnswer ==
    /\ prLine # <<>>
    /\ device' = Commanded(Head(prLine))
    /\ proj' = RecvStat(TRUE, device')
    /\ prLine' = Tail(prLine)
    /\ UNCHANGED <<vmute, board, lamps, missed, prCounters>>

(* _parseStatus(): characters that are no hexadecimal digit count as zero, *)
(* and 00 is "on"; other codes that it does not know change nothing.       *)
PrFail ==
    /\ prLine # <<>> /\ prFailed < PrMaxFault
    /\ prFailed' = prFailed + 1
    /\ device' \in {device, Commanded(Head(prLine))}
    /\ \/ /\ "bad" \in PrFaults
          /\ proj' \in {RecvStat(TRUE, s) : s \in {proj.status, "on"}}
          /\ UNCHANGED missed
       \/ /\ "null" \in PrFaults
          /\ proj' \in {RecvStat(o, proj.status) : o \in {FALSE, proj.online}}
          /\ UNCHANGED missed
       \/ /\ "lost" \in PrFaults
          /\ missed' = (missed \/ Head(prLine)[1] = "stat")
          /\ UNCHANGED proj
    /\ prLine' = Tail(prLine)
    /\ UNCHANGED <<vmute, board, lamps, prPressed, switched>>

PrNext ==
    \/ \E k \in PrKeys : PrPress(k) \/ PrRelease(k)
    \/ Turn \/ ReadStatus \/ Keys \/ doBlink
    \/ PrAnswer \/ PrFail \/ Warm \/ Break

(* The main loop and the blinker run and poll for ever; the projector      *)
(* answers and gets warm or cold in the end.                               *)
PrFairness ==
    /\ WF_prVars(ReadStatus) /\ WF_prVars(Keys) /\ WF_prVars(doBlink)
    /\ WF_prVars(PrAnswer) /\ WF_prVars(Warm)

PrSpec == PrInit /\ [][PrNext]_prVars /\ PrFairness

-----------------------------------------------------------------------------
(* The type invariant of the object, the keys and the lamps.               *)
PrTypeOK ==
    /\ proj \in [status : Phases \cup {"invalid"}, reading : BOOLEAN, online : BOOLEAN]
    /\ device \in Phases
    /\ held \subseteq PrKeys /\ lastDown \subseteq PrKeys
    /\ led \in [PrKeys -> {"off", "red", "green", "backlight"}]
    /\ Len(prLine) <= PrMaxWait + 1 + PrMaxPress

(* "Always read button data (also if not enabled).  Otherwise pressed      *)
(* buttons are processed delayed (when switch is enabled)."                *)
(* A command is only sent for a key pressed since the last round, however  *)
(* the keys and the switch moved before.                                   *)
Commands == {<<"power", "on">>, <<"power", "off">>, <<"mute", "hide">>, <<"mute", "show">>}

NoDelayedPress ==
    [][\A k \in Len(prLine) + 1..Len(prLine') :
          prLine'[k] \in Commands => prLine'[k][1] \in fresh]_prVars

(* readStatus() and _recv_cb(): what is believed of the projector ends up  *)
(* as what it does, whatever was misread or lost, or a request for the     *)
(* status never had its callback, and none is made any more.               *)
StatusFollowed == <>[](proj.status = device \/ missed)

(* At most one request for the status is under way, so that polls cannot   *)
(* fill the mailbox while the projector does not answer.                   *)
OneStatusRequest ==
    \A i, j \in 1..Len(prLine) : prLine[i][1] = "stat" /\ prLine[j][1] = "stat" => i = j /\ proj.reading

(* doBlink(): the lamps end up showing what is believed, although the      *)
(* callback changes it between two reads of the same round; an error does  *)
(* not stop blinking.                                                      *)
LampsFollow ==
    /\ <>[](/\ led["mute"] = MuteLed
            /\ proj.online /\ proj.status = "on" => led["power"] = "green"
            /\ proj.online /\ proj.status = "standby" => led["power"] = "backlight")
    /\ <>[](proj.online /\ proj.status = "error") =>
           []<>(led["power"] = "red") /\ []<>(led["power"] = "backlight")
=============================================================================
