------------------------------ MODULE PtzCamera -------------------------------
(***************************************************************************)
(* The camera: one round of PtzCamera::run() (app/PtzCamera.cpp) on the    *)
(* time critical thread, and the serial protocol (lib/ViscaController.cpp).*)
(*                                                                         *)
(* Stick and keys move between any two looks at them, the more so as a     *)
(* round sleeps for up to a second when a memory key is pressed.           *)
(***************************************************************************)
EXTENDS Integers, Sequences, FiniteSetsExt

CONSTANTS
    PtRange,    \* positions of an axis of the stick are -PtRange..PtRange (20)
    PtStart,    \* positions the stick may have at the start
    PtMoved,    \* axes of the stick that move (x and y are treated alike)
    PtMemories, \* memory keys in use, of 1..6
    PtPacketKinds,  \* packets that may come, without the terminator
    PtBuffer,   \* VISCA_BUFFER
    PtMaxEvents \* bound on moves, presses and packets, and turns of the switch

\* The answer to a new address is laid out as autoReply() lays out the address.
ASSUME PtzAssumption ==
    /\ PtRange \in 1..20 /\ PtStart \subseteq -PtRange..PtRange /\ PtMoved \subseteq {"x", "y", "z"}
    /\ PtMemories \subseteq 1..6
    /\ PtPacketKinds \subseteq Seq(0..254) /\ PtBuffer \in Nat \ {0}
    /\ \A p \in PtPacketKinds : p[2] = 48 => Len(p) = 3
    /\ PtMaxEvents \in Nat

VARIABLES
    visca,     \* the ViscaController: state, address, sockets
    iqueue,    \* packets of the camera that were not read yet
    ctl,       \* the PtzCamera object
    camera,    \* what the camera really does, and the presets it stored
    stick,     \* the position of each axis
    jumped,    \* history: axes that moved by more than one between two looks
    looked,    \* history: the positions of the last look
    focusPin,  \* the switch between zoom and focus
    ptDown, ptSeen,  \* words of the keys: now, and as last looked at
    ptAt,      \* where the round is, and the next memory key
    pinMoved,  \* history: the switch was turned while the lens was moving
    ptEvents,  \* number of moves, presses, packets and turns
    storePresses  \* history: number of presses of "store"

ptVars == <<visca, iqueue, ctl, camera, stick, jumped, looked, focusPin, ptDown, ptSeen, ptAt, pinMoved,
            ptEvents, storePresses>>
outside == <<stick, focusPin, ptDown, ptEvents, storePresses>>

(* PTZ_Functions: the memories are 1..6.                                   *)
MemStore == 7
FocusAuto == 8
PtKeys == PtMemories \cup {MemStore, FocusAuto}

Axes == {"x", "y", "z"}
Size(p) == IF p < 0 THEN -p ELSE p
Sign(p) == IF p < 0 THEN -1 ELSE IF p > 0 THEN 1 ELSE 0
Still == [speed |-> 0, direction |-> 0]

PtInit ==
    /\ visca = [state |-> "Initial", addr |-> 1, sockets |-> <<"Empty", "Empty">>]
    /\ iqueue = <<>>
    /\ ctl = [setMem |-> FALSE, initialized |-> FALSE, focusAuto |-> TRUE, x |-> 0, y |-> 0, z |-> 0, fo |-> 0]
    /\ camera = [x |-> Still, y |-> Still, zoom |-> 0, focus |-> 0, stores |-> 0, addressed |-> 0]
    /\ stick \in [Axes -> PtStart] /\ looked = [a \in Axes |-> 0] /\ jumped = {}
    /\ focusPin \in BOOLEAN /\ pinMoved = FALSE
    /\ ptDown = {} /\ ptSeen = {}
    /\ ptAt = <<"visca", 0>>
    /\ ptEvents = 0 /\ storePresses = 0

-----------------------------------------------------------------------------
(* The operator, and the camera's side of the line.                        *)
MoveStick(a, p) ==
    /\ ptEvents < PtMaxEvents /\ ptEvents' = ptEvents + 1
    /\ p \in {stick[a] - 1, 0, stick[a] + 1} \cap (-PtRange..PtRange)
    /\ p # stick[a]
    /\ stick' = [stick EXCEPT ![a] = p]
    /\ UNCHANGED <<visca, iqueue, ctl, camera, jumped, looked, focusPin, ptDown, ptSeen, ptAt, pinMoved, storePresses>>

TurnPin ==
    /\ ptEvents < PtMaxEvents /\ ptEvents' = ptEvents + 1
    /\ focusPin' = ~focusPin
    /\ pinMoved' = (pinMoved \/ ctl.z # 0)
    /\ UNCHANGED <<visca, iqueue, ctl, camera, stick, jumped, looked, ptDown, ptSeen, ptAt, storePresses>>

PtPress(k) ==
    /\ k \notin ptDown /\ ptEvents < PtMaxEvents /\ ptEvents' = ptEvents + 1
    /\ storePresses' = IF k = MemStore THEN storePresses + 1 ELSE storePresses
    /\ ptDown' = ptDown \cup {k}
    /\ UNCHANGED <<visca, iqueue, ctl, camera, stick, jumped, looked, focusPin, ptSeen, ptAt, pinMoved>>

PtRelease(k) ==
    /\ k \in ptDown /\ ptDown' = ptDown \ {k}
    /\ UNCHANGED <<visca, iqueue, ctl, camera, stick, jumped, looked, focusPin, ptSeen, ptAt, pinMoved,
                   ptEvents, storePresses>>

(* The camera answers an address that was set, and sends what else it sends.*)
PacketComes(p) ==
    /\ IF p[2] = 48 THEN camera.addressed = 1 ELSE ptEvents < PtMaxEvents
    /\ camera' = IF p[2] = 48 THEN [camera EXCEPT !.addressed = 2] ELSE camera
    /\ ptEvents' = IF p[2] = 48 THEN ptEvents ELSE ptEvents + 1
    /\ iqueue' = Append(iqueue, p)
    /\ UNCHANGED <<visca, ctl, stick, jumped, looked, focusPin, ptDown, ptSeen, ptAt, pinMoved,
                   storePresses>>

-----------------------------------------------------------------------------
(* _parsePacket(), with the number of bytes getPacket() gives it, which is *)
(* that before the terminator.                                             *)
High(b) == (b \div 16) * 16
Low(b) == b % 16

WithSocket(v, s, value) == IF s \in 1..2 THEN [v EXCEPT !.sockets[s] = value] ELSE v

ParsePacket(v, p) ==
    CASE Len(p) = 3 /\ Low(p[1]) = 0 ->
            CASE p[2] = 56 -> [v EXCEPT !.state = "NetworkChangeReq", !.addr = (p[1] \div 16) - 8]
              [] High(p[2]) = 64 -> WithSocket(v, Low(p[2]), "Executing")
              [] High(p[2]) = 80 -> WithSocket(v, Low(p[2]), "Empty")
              [] OTHER -> v
      [] Len(p) = 4 /\ p[2] = 48 /\ High(p[3]) = 0 -> [v EXCEPT !.state = "Active", !.addr = Low(p[3]) - 1]
      [] Len(p) = 4 /\ Low(p[1]) = 0 /\ High(p[2]) = 96 /\ Low(p[3]) \in {4, 5} ->
            WithSocket(v, Low(p[2]), "Empty")
      [] OTHER -> v

(* getPacket() and _clearIQ(): a packet that fills the buffer is dropped   *)
(* up to its terminator, which the length does not count.                  *)
GetPacket(v, p) == IF Len(p) >= PtBuffer THEN v ELSE ParsePacket(v, p)

(* processPackets(): all that came.                                        *)
Received(v, queue) ==
    LET after[k \in 0..Len(queue)] == IF k = 0 THEN v ELSE GetPacket(after[k - 1], queue[k])
    IN  after[Len(queue)]

(* autoReply(), and the display of the camera.                            *)
AutoReply(v) == v.state \in {"NetworkChangeReq", "Initial"}

ProcessPackets ==
    /\ ptAt[1] = "visca" /\ ptAt' = <<"store", 0>>
    /\ LET v == Received(visca, iqueue)
       IN  /\ visca' = IF AutoReply(v) THEN [v EXCEPT !.state = "AddressSet"] ELSE v
           /\ camera' = IF AutoReply(v) THEN [camera EXCEPT !.addressed = 1] ELSE camera
           /\ ctl' = [ctl EXCEPT !.initialized = @ \/ v.state = "Active"]
    /\ iqueue' = <<>>
    /\ UNCHANGED <<outside, jumped, looked, ptSeen, pinMoved>>

(* buttonDown(): a change to down since the last look.                     *)
Down(k) == k \in ptDown \ ptSeen
LookAt(k) == ptSeen' = (ptSeen \ {k}) \cup (ptDown \cap {k})

AfterKey(i) ==
    LET rest == {j \in PtMemories : j > i}
    IN  IF rest = {} THEN <<"drive", 0>> ELSE <<"mem", Min(rest)>>

StoreKey ==
    /\ ptAt[1] = "store" /\ ptAt' = AfterKey(0)
    /\ LookAt(MemStore)
    /\ ctl' = [ctl EXCEPT !.setMem = IF Down(MemStore) THEN ~@ ELSE @]
    /\ UNCHANGED <<visca, iqueue, camera, outside, jumped, looked, pinMoved>>

(* What the commands make the camera do.                                   *)
CamMemory(set) == IF set THEN [camera EXCEPT !.stores = @ + 1] ELSE camera
CamDrive(x, y, d1, d2) == [camera EXCEPT !.x = [speed |-> x, direction |-> d1],
                                         !.y = [speed |-> y, direction |-> d2]]
CamZoom(z) == [camera EXCEPT !.zoom = z]
CamFocus(z) == [camera EXCEPT !.focus = z]

(* A memory key stores or recalls, and the thread sleeps.                  *)
MemKeyArmed ==  \* mutant: "store" stays armed
    /\ ptAt[1] = "mem"
    /\ ptAt' = AfterKey(ptAt[2])
    /\ LookAt(ptAt[2])
    /\ camera' = IF Down(ptAt[2]) THEN CamMemory(ctl.setMem) ELSE camera
    /\ UNCHANGED <<ctl, visca, iqueue, outside, jumped, looked, pinMoved>>

MemKey ==
    /\ ptAt[1] = "mem"
    /\ ptAt' = AfterKey(ptAt[2])
    /\ LookAt(ptAt[2])
    /\ IF Down(ptAt[2])
       THEN camera' = CamMemory(ctl.setMem) /\ ctl' = [ctl EXCEPT !.setMem = FALSE]
       ELSE UNCHANGED <<camera, ctl>>
    /\ UNCHANGED <<visca, iqueue, outside, jumped, looked, pinMoved>>

-----------------------------------------------------------------------------
(* The drive: only an odd position gives another speed, and only another   *)
(* speed sends a command, with the directions of now.                      *)
Direction(p) == IF Size(p) < 2 THEN 0 ELSE Sign(p)
Speed(p, current) == IF Size(p) % 2 = 1 THEN Size(p) \div 2 ELSE current

(* The lens: a position that is a multiple of three gives another code.    *)
Code(p, current) == IF Size(p) % 3 = 0 /\ Size(p) <= 18 THEN Sign(p) * (Size(p) \div 3) ELSE current

(* History: which axes were seen to jump, until a command from an odd      *)
(* position says what they do.                                             *)
JumpedNow == jumped \cup {a \in Axes : Size(stick[a] - looked[a]) > 1}

DriveAtOdd ==  \* mutant: a speed of zero is no new speed
    LET x == Speed(stick.x, ctl.x)
        y == Speed(stick.y, ctl.y)
        new == (x # ctl.x /\ x > 0) \/ (y # ctl.y /\ y > 0)
    IN  /\ ptAt[1] = "drive" /\ ptAt' = <<"focus", 0>>
        /\ looked' = stick
        /\ jumped' = JumpedNow \ {a \in {"x", "y"} : new /\ Size(stick[a]) % 2 = 1}
        /\ camera' = IF new THEN CamDrive(x, y, Direction(stick.x), Direction(stick.y)) ELSE camera
        /\ ctl' = [(IF new THEN [ctl EXCEPT !.x = x, !.y = y] ELSE ctl) EXCEPT !.fo = Code(stick.z, ctl.z)]
        /\ UNCHANGED <<visca, iqueue, outside, ptSeen, pinMoved>>

Drive ==
    LET x == Speed(stick.x, ctl.x)
        y == Speed(stick.y, ctl.y)
        new == x # ctl.x \/ y # ctl.y
    IN  /\ ptAt[1] = "drive" /\ ptAt' = <<"focus", 0>>
        /\ looked' = stick
        /\ jumped' = JumpedNow \ {a \in {"x", "y"} : new /\ Size(stick[a]) % 2 = 1}
        /\ camera' = IF new THEN CamDrive(x, y, Direction(stick.x), Direction(stick.y)) ELSE camera
        /\ ctl' = [ctl EXCEPT !.x = x, !.y = y, !.fo = Code(stick.z, ctl.z)]
        /\ UNCHANGED <<visca, iqueue, outside, ptSeen, pinMoved>>

(* "store" and the key of the focus: the focus is automatic again.         *)
FocusKey ==
    /\ ptAt[1] = "focus" /\ ptAt' = <<"lens", 0>>
    /\ ctl' = IF FocusAuto \in ptDown /\ ctl.setMem
              THEN [ctl EXCEPT !.setMem = FALSE, !.focusAuto = TRUE] ELSE ctl
    /\ UNCHANGED <<visca, iqueue, camera, outside, jumped, looked, ptSeen, pinMoved>>

(* The code goes to zoom or focus as the switch stands now.                *)
LensBoth ==  \* mutant: the lens is told although it has the code
    /\ ptAt[1] = "lens" /\ ptAt' = <<"visca", 0>>
    /\ jumped' = jumped \ {"z"}
    /\ IF focusPin
       THEN camera' = CamFocus(ctl.fo) /\ ctl' = [ctl EXCEPT !.z = ctl.fo, !.focusAuto = FALSE]
       ELSE camera' = CamZoom(ctl.fo) /\ ctl' = [ctl EXCEPT !.z = ctl.fo]
    /\ UNCHANGED <<visca, iqueue, outside, looked, ptSeen, pinMoved>>

Lens ==
    /\ ptAt[1] = "lens" /\ ptAt' = <<"visca", 0>>
    /\ IF ctl.fo = ctl.z THEN UNCHANGED <<ctl, camera, jumped>>
       ELSE /\ jumped' = jumped \ {"z"}
            /\ IF focusPin
               THEN /\ camera' = CamFocus(ctl.fo)
                    /\ ctl' = [ctl EXCEPT !.z = ctl.fo, !.focusAuto = FALSE]
               ELSE /\ camera' = CamZoom(ctl.fo)
                    /\ ctl' = [ctl EXCEPT !.z = ctl.fo]
    /\ UNCHANGED <<visca, iqueue, outside, looked, ptSeen, pinMoved>>

PtNext ==
    \/ ProcessPackets \/ StoreKey \/ MemKey \/ Drive \/ FocusKey \/ Lens
    \/ \E a \in PtMoved, p \in -PtRange..PtRange : MoveStick(a, p)
    \/ TurnPin
    \/ \E k \in PtKeys : PtPress(k) \/ PtRelease(k)
    \/ \E p \in PtPacketKinds : PacketComes(p)

PtSpec == PtInit /\ [][PtNext]_ptVars

-----------------------------------------------------------------------------
(* The type invariant of the controller, the object and the keys.          *)
PtTypeOK ==
    /\ visca.state \in {"Initial", "NetworkChangeReq", "AddressSet", "Active"}
    /\ visca.sockets \in [1..2 -> {"Empty", "Executing"}]
    /\ ctl.x \in 0..10 /\ ctl.y \in 0..10 /\ ctl.z \in -6..6 /\ ctl.fo \in -6..6
    /\ ptSeen \subseteq PtKeys /\ jumped \subseteq Axes

(* Between rounds the camera pans and tilts as the stick was last seen: in *)
(* its direction, and as fast as its position or the one next to it says;  *)
(* a centred stick stops it.  An axis that jumped over a position may keep *)
(* its motion, at the centre too (a stick let go while run() sleeps).      *)
DriveFollows ==
    ptAt[1] = "visca" =>
        \A a \in {"x", "y"} \ jumped :
            LET v == camera[a].speed * Size(camera[a].direction)
            IN  /\ Size(Size(looked[a]) - 2 * v - 1) <= 1
                /\ v > 0 => camera[a].direction = Sign(looked[a])

(* So does the lens, and one of zoom and focus only, unless the switch was *)
(* turned while it moved: what was moving then moves on.                   *)
LensFollows ==
    ptAt[1] = "visca" /\ "z" \notin jumped /\ ~pinMoved =>
        /\ camera.zoom = 0 \/ camera.focus = 0
        /\ Size(3 * (camera.zoom + camera.focus) - looked.z) <= 2

(* A preset is overwritten only by the first key after "store", whatever   *)
(* keys are pressed while the thread sleeps.                               *)
StoredOnlyWhenArmed == camera.stores + (IF ctl.setMem THEN 1 ELSE 0) <= storePresses

(* The camera is sound: it does what the stick says.                       *)
CameraSound == PtTypeOK /\ DriveFollows /\ LensFollows
=============================================================================
