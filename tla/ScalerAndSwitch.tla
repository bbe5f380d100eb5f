--------------------------- MODULE ScalerAndSwitch ---------------------------
(***************************************************************************)
(* The keys of one board for the HDMI switch and the scaler                *)
(* (app/ScalerAndSwitchModule.cpp), and the two devices behind their       *)
(* adapters (lib/HdmiSwitch.cpp, lib/TvOneScaler.cpp).  The scaler is      *)
(* polled, and follows the video format of the switcher once a second.     *)
(*                                                                         *)
(* The main loop goes on while there is room in the adapter's mailbox and  *)
(* waits in send() when there is none.  It counts rounds, not time, so any *)
(* of the regular polls may be due in a round.                             *)
(***************************************************************************)
EXTENDS Integers, Sequences, SequencesExt, FiniteSetsExt

CONSTANTS
    ScFormats,     \* formats the switcher is set to in turn
    ScQueueSize,   \* requests an adapter holds before send() waits (8 and slots)
    ScKeys,        \* the keys that are used: <<"power", 0>>, <<"source", n>>, <<"input", n>>
    ScMaxPress,    \* bound on key presses
    ScMaxHand,     \* bound on changes at the scaler itself and of the format
    ScMaxFault,    \* bound on failed requests
    ScFaults,      \* how: "bad" answer or a late one, "null" result, "lost" callback
    ScTrailers     \* what the scaler may add to an answer

ASSUME ScalerAssumption ==
    /\ ScFormats \subseteq 0..7 /\ ScQueueSize \in 2..8
    /\ ScMaxPress \in Nat /\ ScMaxHand \in Nat /\ ScMaxFault \in Nat
    /\ ScFaults \subseteq {"bad", "null", "lost"}

VARIABLES
    scaler,    \* the TvOneScaler object
    real,      \* what the scaler really does
    trailer,   \* what this scaler adds to its answers
    scLine,    \* requests to the scaler, oldest first
    hdmi,      \* the HdmiSwitch object
    hdLine,    \* requests to the switch, oldest first
    connected, \* the input the switch really shows
    spoiled,   \* history: the last input the switch took was not confirmed
    down,      \* presses run() did not take yet
    at,        \* where the main loop is
    shown,     \* the lamps of both halves of the board
    vidM,      \* video format of the switcher
    scPressed, scHand, scFailed  \* numbers of presses, changes and faults

scVars == <<scaler, real, trailer, scLine, hdmi, hdLine, connected, spoiled, down, at, shown, vidM,
            scPressed, scHand, scFailed>>
switch == <<hdmi, hdLine, connected, spoiled>>
scCounters == <<scPressed, scHand, scFailed>>

-----------------------------------------------------------------------------
(* The names in the answers, and how they are read.                        *)

(* _outputs, cut where two names differ.                                   *)
Outputs ==
    <<<<"NATIVE">>, <<"VGA">>, <<"SVGA">>, <<"XGA">>, <<"SXGA">>, <<"UXGA">>, <<"480", "I">>,
      <<"480", "P">>, <<"720", "P">>, <<"1080", "I">>, <<"1080", "P">>, <<"576", "I">>,
      <<"576", "P">>, <<"720", "P">>, <<"1080", "I", "50">>, <<"1080", "P", "50">>, <<"WXGA">>,
      <<"WSXGA">>, <<"WUXGA">>, <<"WXGA", "+">>>>

(* _sources                                                                *)
Sources == <<<<"CV">>, <<"SV">>, <<"COMP">>, <<"PC">>, <<"HDMI">>>>

(* One name against an answer: character by character until the name ends, *)
(* which is a match unless it is empty; a difference is a match, too, when *)
(* it comes at the end of the answer.                                      *)
Matches(name, answer) ==
    LET differs == {j \in 1..Len(answer) : j > Len(name) \/ name[j] # answer[j]}
        j == IF differs = {} THEN Len(answer) + 1 ELSE Min(differs)
    IN  j > Len(name) \/ j = Len(answer) + 1

(* _parseOutput(): the last name that matches, _parseSource(): the first.  *)
ParseOutputForward(answer) ==  \* mutant: the first one
    LET hits == {i \in 1..Len(Outputs) : Matches(Outputs[i], answer)}
    IN  IF hits = {} THEN -1 ELSE Min(hits) - 1

ParseOutput(answer) ==
    LET hits == {i \in 1..Len(Outputs) : Matches(Outputs[i], answer)}
    IN  IF hits = {} THEN -1 ELSE Max(hits) - 1

ParseSource(answer) ==
    LET hits == {i \in 1..Len(Sources) : Matches(Sources[i], answer)}
    IN  IF hits = {} THEN -1 ELSE Min(hits) - 1

(* How the full name of an output or a source is read back.                *)
OutputRead == [t \in ScTrailers |-> [o \in 0..19 |-> ParseOutput(Outputs[o + 1] \o t)]]
SourceRead == [t \in ScTrailers |-> [s \in 0..4 |-> ParseSource(Sources[s + 1] \o t)]]

(* setFormatFromAtem(): the output for a format of the switcher.           *)
OutputFor(f) == <<6, 11, 6, 11, 13, 8, 14, 9>>[f + 1]

-----------------------------------------------------------------------------
Dark == <<>>
Lamps(power, source) == IF power THEN <<"source", source>> ELSE <<"red", 0>>

ScInit ==
    /\ scaler = [power |-> FALSE, source |-> -1, output |-> -1, online |-> TRUE]
    /\ real = [power |-> TRUE, source |-> 3, output |-> 13]
    /\ trailer \in ScTrailers
    /\ hdmi = [status |-> 0, online |-> TRUE] /\ connected = 1 /\ spoiled = FALSE
    /\ scLine = <<>> /\ hdLine = <<>>
    /\ down = {} /\ at = "switch"
    /\ shown = [switch |-> 0, scaler |-> Dark]
    /\ vidM \in ScFormats
    /\ scPressed = 0 /\ scHand = 0 /\ scFailed = 0

(* The requests are sent as soon as there is room for all of them; the     *)
(* main loop reads nothing between them.                                   *)
SendAnyway(requests) ==  \* mutant: a full mailbox takes more
    scLine' = scLine \o requests

Send(requests) ==
    /\ Len(scLine) + Len(requests) <= ScQueueSize
    /\ scLine' = scLine \o requests

(* Somebody presses a key.                                                 *)
ScPress(k) ==
    /\ scPressed < ScMaxPress
    /\ scPressed' = scPressed + 1
    /\ down' = down \cup {k}
    /\ UNCHANGED <<scaler, real, trailer, scLine, switch, at, shown, vidM, scHand, scFailed>>

(* run(), the keys and lamps of the switch.  One that is not available is  *)
(* sent "button on" at times.                                              *)
InputDown(i) == IF <<"input", i>> \in down THEN <<i>> ELSE <<>>
InputsDown == InputDown(1) \o InputDown(2) \o InputDown(3) \o InputDown(4)

Switch ==
    /\ at = "switch" /\ at' = "power"
    /\ IF hdmi.online
       THEN /\ Len(hdLine) + Len(InputsDown) <= ScQueueSize
            /\ hdLine' = hdLine \o InputsDown
            /\ shown' = [shown EXCEPT !.switch = hdmi.status]
       ELSE \/ UNCHANGED <<hdLine, shown>>
            \/ /\ Len(hdLine) < ScQueueSize
               /\ hdLine' = Append(hdLine, 0)
               /\ shown' = [shown EXCEPT !.switch = 0]
    /\ UNCHANGED <<scaler, real, trailer, scLine, hdmi, connected, spoiled, down, vidM, scCounters>>

(* run(), the power key: the opposite of what is believed.                 *)
PowerKey ==
    /\ at = "power" /\ at' = "source"
    /\ Send(IF scaler.online /\ <<"power", 0>> \in down
            THEN <<<<"power", ~scaler.power>>, <<"R", "power">>>> ELSE <<>>)
    /\ UNCHANGED <<scaler, real, trailer, switch, down, shown, vidM, scCounters>>

(* run(), the source keys (VGA, HDMI, COMP) and the lamps; the counter of  *)
(* rounds says which update comes next.                                    *)
SourceDown(n) == IF <<"source", n>> \in down THEN <<<<"source", n>>, <<"R", "source">>>> ELSE <<>>

SourceKeys(next) ==
    /\ at = "source" /\ at' = next
    /\ Send(IF scaler.online /\ scaler.power
            THEN SourceDown(3) \o SourceDown(4) \o SourceDown(2) ELSE <<>>)
    /\ shown' = [shown EXCEPT !.scaler = IF ~scaler.online THEN @
                                         ELSE Lamps(scaler.power, scaler.source)]
    /\ down' = {}
    /\ UNCHANGED <<scaler, real, trailer, switch, vidM, scCounters>>

(* run(), the regular updates.  Those of power and output that fall in one *)
(* round (every 1500th) are two rounds here, the second one without a key: *)
(* the requests, their order and what they depend on are the same.         *)
Updates == {"read power", "read output", "read size", "no update"}

UpdateRequests ==
    CASE at = "read power" -> IF scaler.power THEN <<<<"R", "power">>, <<"R", "source">>>>
                                              ELSE <<<<"R", "power">>>>
      [] at = "read output" /\ scaler.power -> <<<<"R", "output">>>>
      [] at = "read size" /\ scaler.power -> <<<<"R", "size">>>>
      [] OTHER -> <<>>

(* A scaler that is not available is asked again now and then.             *)
UpdateOnline(due) ==  \* mutant: a scaler that is not available is not asked again
    /\ at \in Updates
    /\ at' = IF due THEN "format" ELSE "switch"
    /\ IF scaler.online THEN Send(UpdateRequests) ELSE UNCHANGED scLine
    /\ UNCHANGED <<scaler, real, trailer, switch, down, shown, vidM, scCounters>>

Update(due) ==
    /\ at \in Updates
    /\ at' = IF due THEN "format" ELSE "switch"
    /\ IF scaler.online
       THEN Send(UpdateRequests) /\ UNCHANGED shown
       ELSE IF at = "read power"
            THEN Send(<<<<"R", "power">>>>) /\ shown' = [shown EXCEPT !.scaler = Dark]
            ELSE UNCHANGED <<scLine, shown>>
    /\ UNCHANGED <<scaler, real, trailer, switch, down, vidM, scCounters>>

(* setFormatFromAtem(), once a second.                                     *)
Adjust ==
    /\ at = "format" /\ at' = "switch"
    /\ Send(IF scaler.power /\ scaler.output # OutputFor(vidM)
            THEN <<<<"output", OutputFor(vidM)>>, <<"R", "output">>>> ELSE <<>>)
    /\ UNCHANGED <<scaler, real, trailer, switch, down, shown, vidM, scCounters>>

-----------------------------------------------------------------------------
(* The devices, and the callbacks on the lwIP thread.                      *)

(* The scaler does what a command asks for.                                *)
Done(r) == IF r[1] = "R" THEN real ELSE [real EXCEPT ![r[1]] = r[2]]

(* _recv_cb(): by the kind of the request, not of the answer.              *)
ReadAnswer(r) ==
    CASE r = <<"R", "power">> -> [scaler EXCEPT !.power = real.power, !.online = TRUE]
      [] r = <<"R", "source">> -> [scaler EXCEPT !.source = SourceRead[trailer][real.source], !.online = TRUE]
      [] r = <<"R", "output">> -> [scaler EXCEPT !.output = OutputRead[trailer][real.output], !.online = TRUE]
      [] OTHER -> [scaler EXCEPT !.online = TRUE]

ScAnswer ==
    /\ scLine # <<>>
    /\ real' = Done(Head(scLine))
    /\ scaler' = ReadAnswer(Head(scLine))
    /\ scLine' = Tail(scLine)
    /\ UNCHANGED <<trailer, switch, down, at, shown, vidM, scCounters>>

(* Another text is read as "off" or as no name, a late answer as any; a    *)
(* reset that gives up connecting makes the scaler unavailable.            *)
Misread(r, failure) ==
    IF failure # "bad"
    THEN {scaler} \cup (IF failure = "null" THEN {[scaler EXCEPT !.online = FALSE]} ELSE {})
    ELSE CASE r = <<"R", "power">> -> {[scaler EXCEPT !.power = FALSE]}
           [] r = <<"R", "source">> -> {[scaler EXCEPT !.source = -1]}
           [] r = <<"R", "output">> ->
                {[scaler EXCEPT !.output = i] : i \in {-1} \cup {OutputFor(f) : f \in ScFormats}}
           [] OTHER -> {scaler}

ScFail ==
    /\ scLine # <<>> /\ scFailed < ScMaxFault
    /\ scFailed' = scFailed + 1
    /\ real' \in {real, Done(Head(scLine))}
    /\ \E failure \in ScFaults : scaler' \in Misread(Head(scLine), failure)
    /\ scLine' = Tail(scLine)
    /\ UNCHANGED <<trailer, switch, down, at, shown, vidM, scPressed, scHand>>

(* HdmiSwitch::_recv_cb(); input 0 stands for "button on".                 *)
HdRecvAnyway(done, ok, online) ==  \* mutant: "Command OK" is not looked for
    LET i == Head(hdLine)
    IN  /\ hdLine' = Tail(hdLine)
        /\ connected' = IF done /\ i # 0 THEN i ELSE connected
        /\ hdmi' = [status |-> i, online |-> online]

HdRecv(done, ok, online) ==
    LET i == Head(hdLine)
    IN  /\ hdLine' = Tail(hdLine)
        /\ connected' = IF done /\ i # 0 THEN i ELSE connected
        /\ hdmi' = [status |-> IF ok /\ i # 0 THEN i ELSE hdmi.status, online |-> online]

HdAnswer ==
    /\ hdLine # <<>>
    /\ HdRecv(TRUE, TRUE, TRUE)
    /\ spoiled' = (spoiled /\ Head(hdLine) = 0)
    /\ UNCHANGED <<scaler, real, trailer, scLine, down, at, shown, vidM, scCounters>>

HdFail ==
    /\ hdLine # <<>> /\ scFailed < ScMaxFault
    /\ scFailed' = scFailed + 1
    /\ \E done \in BOOLEAN, online \in {FALSE, hdmi.online} :
          /\ HdRecv(done, FALSE, online)
          /\ spoiled' = (spoiled \/ (done /\ Head(hdLine) # 0))
    /\ UNCHANGED <<scaler, real, trailer, scLine, down, at, shown, vidM, scPressed, scHand>>

(* Somebody works at the scaler, or the switcher gets another format.      *)
ScByHand ==
    /\ scHand < ScMaxHand
    /\ scHand' = scHand + 1
    /\ \/ real' = [real EXCEPT !.power = ~@] /\ UNCHANGED vidM
       \/ real' = [real EXCEPT !.output = 9] /\ UNCHANGED vidM
       \/ vidM' \in ScFormats \ {vidM} /\ UNCHANGED real
    /\ UNCHANGED <<scaler, trailer, scLine, switch, down, at, shown, scPressed, scFailed>>

ScNext ==
    \/ \E k \in ScKeys : ScPress(k)
    \/ Switch \/ PowerKey \/ Adjust
    \/ \E u \in Updates : SourceKeys(u)
    \/ \E due \in BOOLEAN : Update(due)
    \/ ScAnswer \/ ScFail \/ HdAnswer \/ HdFail \/ ScByHand

(* The main loop runs for ever and its counters come round to each update; *)
(* the devices answer in the end.                                          *)
ScFairness ==
    /\ WF_scVars(Switch \/ PowerKey \/ Adjust)
    /\ WF_scVars(\E u \in Updates : SourceKeys(u))
    /\ WF_scVars(\E due \in BOOLEAN : Update(due))
    /\ SF_scVars(SourceKeys("read power")) /\ SF_scVars(SourceKeys("read output"))
    /\ SF_scVars(Update(TRUE))
    /\ WF_scVars(ScAnswer) /\ WF_scVars(HdAnswer)

ScSpec == ScInit /\ [][ScNext]_scVars /\ ScFairness

-----------------------------------------------------------------------------
(* The type invariant of the objects, the devices and the requests.        *)
ScTypeOK ==
    /\ scaler \in [power : BOOLEAN, source : -1..4, output : -1..19, online : BOOLEAN]
    /\ real \in [power : BOOLEAN, source : 0..4, output : 0..19]
    /\ hdmi \in [status : 0..4, online : BOOLEAN]
    /\ down \subseteq ScKeys
    /\ Len(scLine) <= ScQueueSize /\ Len(hdLine) <= ScQueueSize

(* Any part of a name that is enough to tell the outputs apart, and the    *)
(* whole name with more text behind, is read as the last output whose name *)
(* it can be.                                                              *)
ReadAsLast(o, t) ==
    \A p \in Prefixes(Outputs[o + 1]) \ {<<>>} :
        LET candidates == {i \in 1..Len(Outputs) : p \in Prefixes(Outputs[i])}
        IN  /\ ParseOutput(p) = Max(candidates) - 1
            /\ p = Outputs[o + 1] =>
                  ParseOutput(p \o t \o <<"STD">>) =
                      Max({i \in candidates : Outputs[i] \in Prefixes(p)}) - 1

ReadingAsLast == [t \in ScTrailers |-> \A o \in 0..19 : ReadAsLast(o, t)]

(* _parseOutput(): "longer strings are at end & prefer 50 Hz": so is what  *)
(* this scaler answers. (Outputs 8 and 13 have one name, and the names of  *)
(* 9, 10 and 16 begin another.)                                            *)
ReadsLast == ReadingAsLast[trailer]

(* "adjust TvOne Scaler video format to ATEM video format" (main.cpp), as  *)
(* far as it holds: whatever was misread, lost or changed by hand, a scaler*)
(* that is on ends with the output for the format of the switcher, or with *)
(* one that answers the same.                                              *)
FormatLooksRight ==
    <>[](real.power => \/ real.output = OutputFor(vidM)
                       \/ OutputRead[trailer][real.output] = OutputFor(vidM))

(* And then the desk sends no more changes: it reads back what it set,     *)
(* unless the answer is the name of another output too (formats 5, 7).     *)
Readable(f) == OutputRead[trailer][OutputFor(f)] = OutputFor(f)

AdjustmentEnds ==
    <>[](real.power /\ Readable(vidM) => scaler.output = OutputFor(vidM))

(* The lamps end up showing what the devices do: the source or standby of  *)
(* the scaler, and the input of the switch, unless the switch took one and *)
(* its answer was spoilt.                                                  *)
LampsAgree ==
    /\ <>[](shown.scaler = Lamps(real.power, real.source))
    /\ <>[](shown.switch \in {0, connected} \/ spoiled)

(* The requests under way leave the mailbox room, and answers are read as  *)
(* the table of the outputs wants it.                                      *)
ScSound == ScTypeOK /\ ReadsLast

(* The format of the scaler follows that of the switcher, and then there is*)
(* nothing more to change.                                                 *)
FormatFollowed == FormatLooksRight /\ AdjustmentEnds
=============================================================================
