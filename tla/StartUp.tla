------------------------------- MODULE StartUp --------------------------------
(***************************************************************************)
(* The start of the desk (main.cpp) and its display: the main thread sets  *)
(* up one part after the other and logs it (lib/menu/MenuController.cpp),  *)
(* while the blinker already runs and writes to the display what was drawn *)
(* (liveToggle).  The threads meet in the pointers main.cpp publishes, in  *)
(* the frame that is selected and in the box of what changed.              *)
(*                                                                         *)
(* Both threads have one priority.  They change where one of them sleeps,  *)
(* the blinker between two banks it sends, the main thread between two     *)
(* rounds, and where one has run for the time quantum of 20 ms while the   *)
(* other was ready (chconf.h, CH_TIME_QUANTUM): here between any two steps *)
(* of the start, but not inside of one.  That a step, a page or a line     *)
(* drawn in memory, takes less and does not happen to be cut by the end of *)
(* a quantum that earlier steps used up is assumed.                        *)
(***************************************************************************)
EXTENDS Integers, Sequences, FiniteSets, FiniteSetsExt

CONSTANTS
    MnBanks,   \* banks of the display (8); the highest bank is MnBanks - 1
    MnLines,   \* lines of the log (7)
    MnMaxNews  \* bound on messages of the main loop

VARIABLES
    pc,        \* next step of main()
    begun,     \* objects that are set up
    published, \* pointers and flags the threads look at, and threads that run
    used,      \* history: objects a thread called
    blinker,   \* where the blinker is
    selected,  \* glcd_buffer_selected: the page or the log
    frame,     \* what is drawn in each bank of both buffers
    box,       \* glcd_bbox: banks to be written
    shows,     \* what each bank of the display shows
    logLine, swapToMenu,  \* _line; whether _swapToMenu is set
    toggles,   \* liveToggle() calls since then, up to 4
    opened,    \* history: the log was opened while nothing was being written
    seen,      \* history: since then all of it was on the display
    news       \* number of messages of the main loop

mnVars == <<pc, begun, published, used, blinker, selected, frame, box, shows, logLine, swapToMenu,
            toggles, opened, seen, news>>
screen == <<selected, frame, box, logLine, swapToMenu, toggles, opened, news>>

Banks == 0..MnBanks - 1

(* main(), up to its loop: the boards and the network, then what they     *)
(* control.                                                                *)
StartBoards == <<
    <<"begin", "hwModules">>, <<"begin", "menu">>, <<"draw", "menu">>, <<"publish", "s_menu">>,
    <<"log", "HwModules">>, <<"begin", "memory">>, <<"log", "Memory">>, <<"log", "ADC">>,
    <<"publish", "readerThread">>, <<"log", "ReaderThread">>, <<"publish", "lwip">>, <<"log", "Network">>,
    <<"begin", "camera">>, <<"log", "Camera">> >>

StartDevices == <<
    <<"begin", "displays">>, <<"begin", "scalerAndSwitch">>, <<"begin", "matrix">>, <<"log", "Matrix">>,
    <<"begin", "atem">>, <<"begin", "mapper">>, <<"log", "ATEM">>, <<"log", "Tests">>,
    <<"publish", "blink_enable">>, <<"log", "Starting">>, <<"publish", "s_atem">>,
    <<"publish", "TimeCriticalThread">> >>

Program == StartBoards \o StartDevices

(* The pointers to the displays and the camera are set before all.         *)
MnInit ==
    /\ pc = 1
    /\ begun = {} /\ published = {"s_displays", "s_camera"} /\ used = {}
    /\ blinker = [at |-> "menu", bank |-> 0]
    /\ selected = "page" /\ frame = [s \in {"page", "log"} |-> [b \in Banks |-> "start"]]
    /\ box = {} /\ shows = [b \in Banks |-> "start"]
    /\ logLine = 0 /\ swapToMenu = FALSE /\ toggles = 0
    /\ opened = FALSE /\ seen = TRUE /\ news = 0

Step(kind) == pc <= Len(Program) /\ Program[pc][1] = kind /\ pc' = pc + 1

Begin ==
    /\ Step("begin")
    /\ begun' = begun \cup {Program[pc][2]}
    /\ UNCHANGED <<published, used, blinker, screen, shows, seen>>

Publish ==
    /\ Step("publish")
    /\ published' = published \cup {Program[pc][2]}
    /\ UNCHANGED <<begun, used, blinker, screen, shows, seen>>

-----------------------------------------------------------------------------
(* What is drawn grows the box; glcd_bbox_refresh() makes it all of the    *)
(* display (external).                                                     *)
Writing == blinker.at = "write"

(* MenuController::draw(), once a round: back to the page after 2 seconds, *)
(* which are between three and four calls of liveToggle(); the page is     *)
(* drawn anew.                                                             *)
DrawEarly ==  \* mutant: the time is not compared with the clock
    /\ swapToMenu' = FALSE
    /\ selected' = "page"
    /\ IF selected' = "page"
       THEN box' = Banks /\ frame' = [frame EXCEPT !["page"] = [b \in Banks |-> "page"]]
       ELSE UNCHANGED <<box, frame>>
    /\ UNCHANGED <<logLine, toggles>>

DrawOnce ==  \* mutant: the swap does not select the page's buffer
    /\ \/ swapToMenu /\ toggles >= 3 /\ swapToMenu' = FALSE
       \/ ~(swapToMenu /\ toggles = 4) /\ UNCHANGED swapToMenu
    /\ UNCHANGED selected
    /\ IF selected = "page"
       THEN box' = Banks /\ frame' = [frame EXCEPT !["page"] = [b \in Banks |-> "page"]]
       ELSE UNCHANGED <<box, frame>>
    /\ UNCHANGED <<logLine, toggles>>

Draw ==
    /\ \/ swapToMenu /\ toggles >= 3 /\ swapToMenu' = FALSE /\ selected' = "page"
       \/ ~(swapToMenu /\ toggles = 4) /\ UNCHANGED <<swapToMenu, selected>>
    /\ IF selected' = "page"
       THEN box' = Banks /\ frame' = [frame EXCEPT !["page"] = [b \in Banks |-> "page"]]
       ELSE UNCHANGED <<box, frame>>
    /\ UNCHANGED <<logLine, toggles>>

(* log(): the first message opens the log; seven lines, then over the first*)
(* again.  A line reaches into two banks.                                  *)
Log ==
    /\ IF ~swapToMenu
       THEN /\ frame' = [frame EXCEPT !["log"] = [b \in Banks |-> "log"]]
            /\ selected' = "log" /\ swapToMenu' = TRUE
            /\ box' = Banks
            /\ logLine' = 1 /\ toggles' = 0
            /\ opened' = ~Writing /\ seen' = FALSE
       ELSE /\ LET l == IF logLine = MnLines THEN 0 ELSE logLine
               IN  logLine' = l + 1 /\ box' = box \cup {l, l + 1}
            /\ UNCHANGED <<frame, selected, swapToMenu, toggles, opened, seen>>

DrawMenu ==
    /\ Step("draw")
    /\ Draw
    /\ UNCHANGED <<begun, published, used, blinker, shows, opened, seen, news>>

LogStart ==
    /\ Step("log")
    /\ Log
    /\ UNCHANGED <<begun, published, used, blinker, shows, news>>

(* The migration of the settings is logged if there was one.               *)
LogMigration ==
    /\ pc <= Len(Program) /\ Program[pc] = <<"log", "Memory">> /\ news < MnMaxNews
    /\ news' = news + 1
    /\ Log
    /\ UNCHANGED <<pc, begun, published, used, blinker, shows>>

(* The main loop: "ATEM online." or "ATEM offline.", and the menu.         *)
LogNews ==
    /\ pc = Len(Program) + 1 /\ pc' = pc + 1
    /\ news < MnMaxNews /\ news' = news + 1
    /\ Log
    /\ UNCHANGED <<begun, published, used, blinker, shows>>

Round ==
    /\ pc > Len(Program) /\ pc' = Len(Program) + 1
    /\ Draw
    /\ UNCHANGED <<begun, published, used, blinker, shows, opened, seen, news>>

-----------------------------------------------------------------------------
(* The blinker: liveToggle() marks two points of the first bank and writes *)
(* the box, bank by bank; then there is nothing to write (external).       *)
LiveToggle ==
    /\ blinker.at = "menu"
    /\ IF "s_menu" \in published
       THEN /\ used' = used \cup {"menu"}
            /\ blinker' = [at |-> "write", bank |-> 0]
            /\ box' = IF box = {} THEN {} ELSE 0..Max(box)
            /\ toggles' = Min({toggles + 1, 4})
       ELSE /\ blinker' = [blinker EXCEPT !.at = "first"]
            /\ UNCHANGED <<used, box, toggles>>
    /\ UNCHANGED <<pc, begun, published, selected, frame, shows, logLine, swapToMenu, opened, seen, news>>

WriteBank ==
    /\ Writing
    /\ shows' = IF blinker.bank \in box
                THEN [shows EXCEPT ![blinker.bank] = frame[selected][blinker.bank]] ELSE shows
    /\ IF blinker.bank = MnBanks - 1
       THEN blinker' = [at |-> "first", bank |-> 0] /\ box' = {}
       ELSE blinker' = [blinker EXCEPT !.bank = @ + 1] /\ UNCHANGED box
    /\ seen' = (seen \/ \A b \in Banks : shows'[b] = "log")
    /\ UNCHANGED <<pc, begun, published, used, selected, frame, logLine, swapToMenu, toggles, opened, news>>

(* doBlink() of the switcher's keys and of the displays, twice a period.   *)
DoBlinkEager(here, next) ==  \* mutant: the displays' pointer is enough
    /\ blinker.at = here /\ blinker' = [blinker EXCEPT !.at = next]
    /\ used' = used \cup {"displays"} \cup IF "s_atem" \in published THEN {"atem"} ELSE {}
    /\ UNCHANGED <<pc, begun, published, screen, shows, seen>>

DoBlink(here, next) ==
    /\ blinker.at = here /\ blinker' = [blinker EXCEPT !.at = next]
    /\ used' = used \cup IF "blink_enable" \notin published THEN {}
                         ELSE {"displays"} \cup IF "s_atem" \in published THEN {"atem"} ELSE {}
    /\ UNCHANGED <<pc, begun, published, screen, shows, seen>>

(* The thread of the switcher and the camera, and the reader.              *)
RunThreads ==
    /\ used' = used \cup (IF "TimeCriticalThread" \in published
                          THEN {"camera"} \cup IF "s_atem" \in published THEN {"atem"} ELSE {} ELSE {})
                    \cup (IF "readerThread" \in published THEN {"hwModules"} ELSE {})
    /\ used' # used
    /\ UNCHANGED <<pc, begun, published, blinker, screen, shows, seen>>

MnNext ==
    \/ Begin \/ Publish \/ DrawMenu \/ LogStart \/ LogMigration \/ LogNews \/ Round
    \/ LiveToggle \/ WriteBank \/ DoBlink("first", "second") \/ DoBlink("second", "menu")
    \/ RunThreads

(* The threads run for ever; a message is an event.  A round takes 5 ms and*)
(* the blinker sleeps 300 ms: again and again there is one in a sleep.     *)
MnFairness ==
    /\ WF_mnVars(Begin \/ Publish \/ DrawMenu \/ LogStart)
    /\ WF_mnVars(Round) /\ SF_mnVars(blinker.at = "second" /\ Round)
    /\ WF_mnVars(LiveToggle \/ WriteBank \/ DoBlink("first", "second") \/ DoBlink("second", "menu"))

MnSpec == MnInit /\ [][MnNext]_mnVars /\ MnFairness

-----------------------------------------------------------------------------
(* The type invariant of the display, the log and the threads.             *)
MnTypeOK ==
    /\ pc \in 1..Len(Program) + 2
    /\ blinker \in [at : {"menu", "write", "first", "second"}, bank : Banks]
    /\ selected \in {"page", "log"} /\ box \subseteq Banks
    /\ shows \in [Banks -> {"start", "page", "log"}]
    /\ logLine \in 0..MnLines /\ toggles \in 0..4

(* No thread calls an object that is not set up yet, although the blinker  *)
(* runs from the start and the pointers to displays and camera are set then.*)
UsedWhenReady == used \subseteq begun

(* The message that opens the log is on the display, with the whole of the *)
(* log, before the page comes back, if nothing was being written when it   *)
(* was opened.  (Otherwise the write clears the box at its end, and what   *)
(* was drawn into banks already sent is never written.)                    *)
OpenerSeen == opened /\ selected = "page" => seen

(* The page comes back in the end, whole, whatever was being written when  *)
(* it was drawn.                                                           *)
PageReturns == <>[](\A b \in Banks : shows[b] = "page")
=============================================================================
