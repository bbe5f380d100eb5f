------------------------------- MODULE SplitTv -------------------------------
(***************************************************************************)
(* Two LG monitors that show one picture (lib/LgTv.cpp) and the executer   *)
(* that keeps them together (lib/SplitTvExecuter.cpp).  Power and video    *)
(* mute are treated alike, so every definition is for an aspect of these.  *)
(*                                                                         *)
(* A monitor is behind the FIFO that the TCP adapter promises (RequestFifo)*)
(* and answers one request at a time.  send() posts to the adapter's       *)
(* mailbox and waits there for room.  The main thread (run(), the buttons, *)
(* the polls) has the higher priority: the lwIP thread, which runs the     *)
(* callback, gets its turn between two calls of the main loop and while    *)
(* send() waits; the main thread may preempt it between any two assignments*)
(* of the callback.                                                        *)
(***************************************************************************)
EXTENDS Integers, Sequences, Functions, FiniteSetsExt

CONSTANTS
    Aspects,     \* "power" and "mute"
    QueueSize,   \* slots of the adapter's mailbox (8)
    MaxPress,    \* bound on button presses
    MaxFault,    \* bound on failed requests and changes with the own remote of
                 \* a monitor, taken together
    Faults       \* how a request may fail: "bad" answer or none within the
                 \* timeout, "null" result after a reset, "lost" callback

ASSUME SizeAssumption == QueueSize \in Nat /\ MaxPress \in Nat /\ MaxFault \in Nat
ASSUME FaultAssumption == Faults \subseteq {"bad", "null", "lost"}

VARIABLES
    tv,        \* the LgTv objects _tv1 and _tv2
    exec,      \* the SplitTvExecuter object
    main,      \* the call the main thread is in, Idle between two calls
    line,      \* requests sent to each monitor and not answered: one in the
               \* slots of the adapter, the others in its mailbox
    callback,  \* callback the lwIP thread is in the middle of
    monitor,   \* what each monitor really does
    lost,      \* monitors a callback of which was lost (history)
    pressed, failed  \* numbers of presses, and of faults and changes by hand

vars == <<tv, exec, main, line, callback, monitor, lost, pressed, failed>>
counters == <<lost, pressed, failed>>
device == <<callback, monitor>>

Tvs == 1..2
States == {"off", "on"}
Other(v) == IF v = "on" THEN "off" ELSE "on"
Off == [a \in Aspects |-> "off"]
None == [a \in Aspects |-> FALSE]
NoCallback == [tv |-> 0]
Idle == [tv |-> 0]

Init ==
    /\ tv = [i \in Tvs |-> [value |-> Off, read |-> None, setting |-> None,
                            query |-> FALSE, online |-> TRUE]]
    /\ exec = [next |-> [a \in Aspects |-> IF a = "power" THEN "on" ELSE "off"],
               stable |-> Off, ready |-> None]
    /\ main = Idle
    /\ line = [i \in Tvs |-> <<>>]
    /\ callback = NoCallback
    /\ monitor \in [Tvs -> [Aspects -> States]]
    /\ lost = {} /\ pressed = 0 /\ failed = 0

-----------------------------------------------------------------------------
(* The main thread: SplitTvExecuter, LgTv and the polls of OutputDisplays. *)

(* send() posts to the adapter of monitor i when there is room, and else   *)
(* the call waits: main is then the call, at monitor tv, and seen is what  *)
(* run() has read of the monitors before.                                  *)
Room(i) == Len(line[i]) <= QueueSize
Nothing == [i \in Tvs |-> "off"]

(* The requests op of a call to the monitors in to, one after the other up *)
(* to one that has no room; after each one the in-progress flag is set.    *)
Stuck(to) == {i \in to : ~Room(i)}
Posted(to) == {i \in to : \A j \in Stuck(to) : i < j}

PostFlagFirst(task, a, op, to, seen) ==  \* mutant: the flag is set before the request is sent
    /\ line' = [i \in Tvs |-> IF i \in Posted(to) THEN Append(line[i], [aspect |-> a, op |-> op])
                                                  ELSE line[i]]
    /\ tv' = [i \in Tvs |-> IF i \notin to THEN tv[i]
                            ELSE IF task = "read" THEN [tv[i] EXCEPT !.query = TRUE]
                            ELSE [tv[i] EXCEPT !.setting[a] = TRUE]]
    /\ main' = IF Stuck(to) = {} THEN Idle
               ELSE [task |-> task, aspect |-> a, op |-> op, tv |-> Min(Stuck(to)), seen |-> seen]

Post(task, a, op, to, seen) ==
    /\ line' = [i \in Tvs |-> IF i \in Posted(to) THEN Append(line[i], [aspect |-> a, op |-> op])
                                                  ELSE line[i]]
    /\ tv' = [i \in Tvs |-> IF i \notin Posted(to) THEN tv[i]
                            ELSE IF task = "read" THEN [tv[i] EXCEPT !.query = TRUE]
                            ELSE [tv[i] EXCEPT !.setting[a] = TRUE]]
    /\ main' = IF Stuck(to) = {} THEN Idle
               ELSE [task |-> task, aspect |-> a, op |-> op, tv |-> Min(Stuck(to)), seen |-> seen]

(* setPower() and setVideoMute() send nothing while a command for the      *)
(* aspect is in progress.                                                  *)
Unset(a) == {i \in Tvs : ~tv[i].setting[a]}

(* run(), the half for aspect a: commands the monitors that are online and *)
(* not as asked for; a call that had to wait for room goes on with the     *)
(* requests owed, and looks at the later monitors then.                    *)
Behind(a) == {i \in Tvs : exec.ready[a] /\ exec.next[a] # tv[i].value[a] /\ tv[i].online}

(* The end of run(): the first decision, or the state both have reached.   *)
Decide(a, seen) ==
    exec' = IF ~exec.ready[a] /\ \E i \in Tvs : tv[i].read[a]
            THEN [exec EXCEPT !.next[a] = IF "on" \in Range(seen) THEN "on" ELSE "off",
                              !.ready[a] = TRUE]
            ELSE IF Range(seen) = {exec.next[a]}
            THEN [exec EXCEPT !.stable[a] = exec.next[a]]
            ELSE exec

RunOnce(a, owed, before, later) ==  \* mutant: run() does not send the command again
    LET seen == [i \in Tvs |-> IF i \in later THEN tv[i].value[a] ELSE before[i]]
    IN  Post("run", a, exec.next[a], owed, seen) /\ Decide(a, seen)

RunOn(a, owed, before, later) ==
    LET to == owed \cup (later \cap Behind(a) \cap Unset(a))
        seen == [i \in Tvs |-> IF i \in later THEN tv[i].value[a] ELSE before[i]]
    IN  /\ Post("run", a, exec.next[a], to, seen)
        /\ IF Stuck(to) = {} THEN Decide(a, seen) ELSE UNCHANGED exec

Run(a) ==
    /\ main = Idle
    /\ RunOn(a, {}, Nothing, Tvs)
    /\ UNCHANGED <<device, counters>>

(* A button: setPower(!getPower()) or setVideoMute(!getVideoMute()).       *)
Press(a) ==
    /\ main = Idle /\ pressed < MaxPress
    /\ pressed' = pressed + 1
    /\ LET v == Other(exec.stable[a])
       IN  /\ exec' = [exec EXCEPT !.next[a] = v, !.ready[a] = TRUE]
           /\ Post("press", a, v, Unset(a), Nothing)
    /\ UNCHANGED <<device, lost, failed>>

(* readPower() and readVideoMute(), as OutputDisplays polls them: at       *)
(* certain counts of the main loop, whatever waits in the mailbox.         *)
Read(i, a) ==
    /\ main = Idle /\ ~tv[i].query
    /\ Post("read", a, "query", {i}, Nothing)
    /\ UNCHANGED <<exec, device, counters>>

(* There is room now: the call that waited in send() goes on.              *)
Resume ==
    /\ main # Idle /\ Room(main.tv)
    /\ LET owed == {main.tv}
           later == IF main.task = "read" THEN {} ELSE {i \in Tvs : i > main.tv}
       IN  IF main.task = "run" THEN RunOn(main.aspect, owed, main.seen, later)
           ELSE /\ Post(main.task, main.aspect, main.op, owed \cup (later \cap Unset(main.aspect)), Nothing)
                /\ UNCHANGED exec
    /\ UNCHANGED <<device, counters>>

-----------------------------------------------------------------------------
(* The monitors and the callback _recv_cb(), on the lwIP thread.           *)

(* The oldest request is executed, or not when it fails, and its callback  *)
(* begins: _query_in_progress is cleared and, if there is a result, the    *)
(* aspect is marked as read before the result is looked at.  A reset gives *)
(* no result; if it gave up connecting, isRemoteAvailable() is false then. *)
Reply(i, outcome, done, online) ==
    LET r == Head(line[i])
        value == IF done /\ r.op # "query" THEN r.op ELSE monitor[i][r.aspect]
    IN  /\ monitor' = [monitor EXCEPT ![i][r.aspect] = value]
        /\ line' = [line EXCEPT ![i] = Tail(@)]
        /\ IF outcome = "lost" THEN UNCHANGED <<tv, callback>>
           ELSE /\ callback' = [tv |-> i, aspect |-> r.aspect, outcome |-> outcome, value |-> value]
                /\ tv' = [tv EXCEPT ![i].query = FALSE,
                                    ![i].online = online,
                                    ![i].read[r.aspect] = IF outcome = "null" THEN @ ELSE TRUE]

(* The main thread sleeps, or waits in send().                             *)
LwipRuns == main # Idle => ~Room(main.tv)

Answer(i) ==
    /\ LwipRuns /\ callback = NoCallback /\ line[i] # <<>>
    /\ Reply(i, "ok", TRUE, TRUE)
    /\ UNCHANGED <<exec, main, counters>>

Fail(i) ==
    /\ LwipRuns /\ callback = NoCallback /\ line[i] # <<>> /\ failed < MaxFault
    /\ \E outcome \in Faults, done, online \in BOOLEAN :
         /\ outcome = "null" \/ online
         /\ Reply(i, outcome, done, online)
         /\ lost' = IF outcome = "lost" THEN lost \cup {i} ELSE lost
    /\ failed' = failed + 1
    /\ UNCHANGED <<exec, main, pressed>>

(* The rest of _recv_cb().                                                 *)
FinishRaw ==  \* mutant: what was asked for is stored without a look at the answer
    /\ LwipRuns /\ callback # NoCallback
    /\ LET i == callback.tv  a == callback.aspect
       IN  tv' = [tv EXCEPT ![i].value[a] = IF callback.outcome = "ok" THEN callback.value ELSE "bad",
                            ![i].setting[a] = FALSE]
    /\ callback' = NoCallback
    /\ UNCHANGED <<exec, main, line, monitor, counters>>

Finish ==
    /\ LwipRuns /\ callback # NoCallback
    /\ LET i == callback.tv
           a == callback.aspect
       IN  tv' = [tv EXCEPT
                     ![i].value[a] = IF callback.outcome = "ok" THEN callback.value ELSE @,
                     ![i].read[a] = IF callback.outcome = "bad" THEN FALSE ELSE @,
                     ![i].setting[a] = FALSE]
    /\ callback' = NoCallback
    /\ UNCHANGED <<exec, main, line, monitor, counters>>

(* Somebody uses the monitor's own remote control.                         *)
ByHand(i, a) ==
    /\ failed < MaxFault
    /\ failed' = failed + 1
    /\ monitor' = [monitor EXCEPT ![i][a] = Other(@)]
    /\ UNCHANGED <<tv, exec, main, line, callback, lost, pressed>>

Next ==
    \/ Resume \/ Finish
    \/ \E i \in Tvs : Answer(i) \/ Fail(i)
    \/ \E a \in Aspects :
         \/ Run(a) \/ Press(a)
         \/ \E i \in Tvs : Read(i, a) \/ ByHand(i, a)

Spec == Init /\ [][Next]_vars

(* The main loop makes each of its calls again and again (OutputDisplays   *)
(* polls at moments when no query is under way) and sleeps in each round,  *)
(* so the lwIP thread gets to run; a monitor answers in the end.           *)
Ends(tasks) == main # Idle /\ main.task \in tasks /\ Resume

FairSpec ==
    /\ Spec
    /\ \A i \in Tvs : SF_vars(Answer(i) \/ (callback.tv = i /\ Finish))
    /\ \A a \in Aspects : /\ SF_vars(Run(a) \/ Ends({"run", "press"}))
                          /\ \A i \in Tvs : SF_vars(Read(i, a) \/ (Ends({"read"}) /\ main.tv = i))

-----------------------------------------------------------------------------
Objects == [value : [Aspects -> States], read : [Aspects -> BOOLEAN],
            setting : [Aspects -> BOOLEAN], query : BOOLEAN, online : BOOLEAN]
Requests == [aspect : Aspects, op : States \cup {"query"}]
Calls == [task : {"run", "press"}, aspect : Aspects, op : States, tv : Tvs, seen : [Tvs -> States]]
         \cup [task : {"read"}, aspect : Aspects, op : {"query"}, tv : Tvs, seen : [Tvs -> States]]
Callbacks == [tv : Tvs, aspect : Aspects, outcome : {"ok", "bad", "null"}, value : States]

(* The type invariant of the objects, the call and the requests under way. *)
TypeOK ==
    /\ tv \in [Tvs -> Objects]
    /\ exec \in [next : [Aspects -> States], stable : [Aspects -> States],
                 ready : [Aspects -> BOOLEAN]]
    /\ main \in Calls \cup {Idle}
    /\ line \in [Tvs -> Seq(Requests)]
    /\ \A i \in Tvs : Len(line[i]) <= QueueSize + 1
    /\ callback \in Callbacks \cup {NoCallback}
    /\ monitor \in [Tvs -> [Aspects -> States]]

(* An in-progress flag of LgTv is only set while the answer that will clear*)
(* it is still to come, however long send() waited: a command in progress  *)
(* has a request of its aspect under way, a query in progress a query.  So *)
(* neither stops the polls or the commands, unless a callback was lost.    *)
Underway(i, a) ==
    \/ \E k \in 1..Len(line[i]) : line[i][k].aspect = a
    \/ (callback # NoCallback /\ callback.tv = i /\ callback.aspect = a)

Queried(i) == \E k \in 1..Len(line[i]) : line[i][k].op = "query"

FlagsBacked ==
    \A i \in Tvs \ lost :
        /\ \A a \in Aspects : tv[i].setting[a] => Underway(i, a)
        /\ tv[i].query => Queried(i)

(* What is under way has its types and backs the flags of LgTv.            *)
LinesSound == TypeOK /\ FlagsBacked

(* The two monitors end up doing what the desk asked for last, and the desk*)
(* knows it, whatever was answered badly, cut off or changed by hand; or   *)
(* the callback of a query was lost (as the adapter may do) and with it the*)
(* polling of that monitor.                                                *)
Converges ==
    \/ <>[](\A a \in Aspects : exec.ready[a] =>
              \A i \in Tvs : monitor[i][a] = exec.next[a] /\ exec.stable[a] = exec.next[a])
    \/ \E i \in Tvs : <>[](tv[i].query /\ ~Queried(i))

(* "If one is ON the other one should follow": the first decision of run() *)
(* is "on" when a monitor it has marked as read has answered that it is on.*)
Answered(i, a) ==
    \/ tv[i].value[a] = "on"
    \/ /\ callback # NoCallback /\ callback.tv = i /\ callback.aspect = a
       /\ callback.outcome = "ok" /\ callback.value = "on"

FollowsOne ==
    [][\A a \in Aspects : pressed' = pressed /\ ~exec.ready[a] /\ exec'.ready[a] =>
          \A i \in Tvs : tv[i].read[a] /\ Answered(i, a) => exec'.next[a] = "on"]_vars
=============================================================================
