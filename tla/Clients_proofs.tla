--------------------------- MODULE Clients_proofs ---------------------------
(***************************************************************************)
(* Proofs about two clients of the TCP adapter.  SplitTv, for any aspects, *)
(* size of the mailbox and numbers of presses, changes by hand and faults: *)
(* what the in-progress flags stand for.  ScalerAndSwitch, for any keys,   *)
(* formats and trailers: what an answer is read as, and that the mailbox   *)
(* has room.                                                               *)
(***************************************************************************)
EXTENDS SplitTv, ScalerAndSwitch, FiniteSetTheorems, SequenceTheorems,
        WellFoundedInduction, TLAPS

(* The objects keep their types when one field is set.                     *)
LEMMA QuerySet ==
    ASSUME NEW o \in Objects, NEW b \in BOOLEAN
    PROVE  /\ [o EXCEPT !.query = b] \in Objects
           /\ [o EXCEPT !.query = b].query = b
           /\ [o EXCEPT !.query = b].setting = o.setting
BY DEF Objects

LEMMA SettingSet ==
    ASSUME NEW o \in Objects, NEW a \in Aspects, NEW b \in BOOLEAN
    PROVE  /\ [o EXCEPT !.setting[a] = b] \in Objects
           /\ [o EXCEPT !.setting[a] = b].query = o.query
           /\ [o EXCEPT !.setting[a] = b].setting[a] = b
           /\ \A c \in Aspects \ {a} : [o EXCEPT !.setting[a] = b].setting[c] = o.setting[c]
<1>1. PICK f : f = [o.setting EXCEPT ![a] = b]
  OBVIOUS
<1>2. f \in [Aspects -> BOOLEAN] /\ f[a] = b /\ \A c \in Aspects \ {a} : f[c] = o.setting[c]
  BY <1>1 DEF Objects
<1>3. [o EXCEPT !.setting[a] = b] = [o EXCEPT !.setting = f]
  BY <1>1
<1>4. /\ [o EXCEPT !.setting = f] \in Objects /\ [o EXCEPT !.setting = f].query = o.query
      /\ [o EXCEPT !.setting = f].setting = f
  BY <1>2 DEF Objects
<1>5. QED BY <1>2, <1>3, <1>4

(* A set of monitors that is not empty has a first one.                    *)
LEMMA FirstOf ==
    ASSUME NEW S \in SUBSET Tvs, S # {}
    PROVE  Min(S) \in S
<1>1. CASE 1 \in S
  <2>1. \A y \in S : 1 =< y
    BY DEF Tvs
  <2>2. QED BY <1>1, <2>1 DEF Min
<1>2. CASE 1 \notin S
  <2>1. \A y \in S : y = 2
    BY <1>2 DEF Tvs
  <2>2. 2 \in S /\ \A y \in S : 2 =< y
    BY <2>1
  <2>3. QED BY <2>2 DEF Min
<1>3. QED BY <1>1, <1>2

-----------------------------------------------------------------------------
(* What a call sends.                                                      *)

(* A line that only grew, by a request for every flag that was set, backs  *)
(* the flags as before.                                                    *)
LEMMA Backed ==
    ASSUME TypeOK, FlagsBacked, NEW i \in Tvs, i \notin lost, callback' = callback,
           NEW a \in Aspects, NEW op \in States \cup {"query"},
           \/ line'[i] = line[i] /\ tv'[i] = tv[i]
           \/ /\ line'[i] = Append(line[i], [aspect |-> a, op |-> op])
              /\ \A c \in Aspects \ {a} : tv'[i].setting[c] = tv[i].setting[c]
              /\ tv'[i].query => tv[i].query \/ op = "query"
    PROVE  /\ \A c \in Aspects : tv'[i].setting[c] => Underway(i, c)'
           /\ tv'[i].query => Queried(i)'
<1>1. /\ \A c \in Aspects : tv[i].setting[c] => Underway(i, c)
      /\ tv[i].query => Queried(i)
  BY DEF FlagsBacked
<1>2. CASE line'[i] = line[i] /\ tv'[i] = tv[i]
  BY <1>1, <1>2 DEF Underway, Queried
<1>3. CASE /\ line'[i] = Append(line[i], [aspect |-> a, op |-> op])
           /\ \A c \in Aspects \ {a} : tv'[i].setting[c] = tv[i].setting[c]
           /\ tv'[i].query => tv[i].query \/ op = "query"
  <2>1. PICK r \in Requests : r = [aspect |-> a, op |-> op]
    BY DEF Requests
  <2>2. PICK s \in Seq(Requests) : s = line[i]
    BY DEF TypeOK
  <2>3. /\ Len(line'[i]) = Len(s) + 1 /\ line'[i][Len(s) + 1] = r
        /\ \A k \in 1..Len(s) : line'[i][k] = s[k]
        /\ Len(s) \in Nat
    BY <1>3, <2>1, <2>2
  <2>4. r.aspect = a /\ r.op = op
    BY <2>1
  <2>5. ASSUME NEW c \in Aspects, tv'[i].setting[c] PROVE Underway(i, c)'
    <3>1. CASE c = a
      BY <2>3, <2>4, <3>1 DEF Underway
    <3>2. CASE c # a
      BY <1>1, <1>3, <2>2, <2>3, <2>5, <3>2 DEF Underway
    <3>3. QED BY <3>1, <3>2
  <2>6. ASSUME tv'[i].query PROVE Queried(i)'
    <3>1. CASE op = "query"
      BY <2>3, <2>4, <3>1 DEF Queried
    <3>2. CASE tv[i].query
      BY <1>1, <2>2, <2>3, <3>2 DEF Queried
    <3>3. QED BY <1>3, <2>6, <3>1, <3>2
  <2>7. QED BY <2>5, <2>6
<1>4. QED BY <1>2, <1>3

(* A call posts where there is room, and sets the flags of what it posted. *)
LEMMA PostStep ==
    ASSUME TypeOK, NEW a \in Aspects, NEW to \in SUBSET Tvs, NEW seen \in [Tvs -> States],
           NEW task \in {"run", "press", "read"}, NEW op \in States \cup {"query"},
           IF task = "read" THEN op = "query" ELSE op \in States,
           Post(task, a, op, to, seen), callback' = callback, lost' = lost
    PROVE  /\ tv' \in [Tvs -> Objects] /\ main' \in Calls \cup {Idle}
           /\ line' \in [Tvs -> Seq(Requests)]
           /\ \A i \in Tvs : Len(line'[i]) <= QueueSize + 1
           /\ FlagsBacked => FlagsBacked'
<1> DEFINE r == [aspect |-> a, op |-> op]
<1>1. r \in Requests
  BY DEF Requests
<1>2. ASSUME NEW i \in Tvs
      PROVE  /\ tv'[i] \in Objects /\ line'[i] \in Seq(Requests)
             /\ Len(line'[i]) <= QueueSize + 1
             /\ \/ line'[i] = line[i] /\ tv'[i] = tv[i]
                \/ /\ line'[i] = Append(line[i], r)
                   /\ \A c \in Aspects \ {a} : tv'[i].setting[c] = tv[i].setting[c]
                   /\ tv'[i].query => tv[i].query \/ op = "query"
  <2>1. tv[i] \in Objects /\ line[i] \in Seq(Requests) /\ Len(line[i]) <= QueueSize + 1
    BY DEF TypeOK
  <2>2. CASE i \notin Posted(to)
    <3>1. line'[i] = line[i] /\ tv'[i] = tv[i]
      BY <2>2 DEF Post
    <3>2. QED BY <2>1, <3>1
  <2>3. CASE i \in Posted(to)
    <3>1. Room(i)
      BY <2>3 DEF Posted, Stuck, Tvs
    <3>2. PICK s \in Seq(Requests) : s = line[i]
      BY <2>1
    <3>3. /\ Append(s, r) \in Seq(Requests) /\ Len(Append(s, r)) = Len(s) + 1
          /\ Len(s) \in Nat
      BY <1>1
    <3>4. Len(s) <= QueueSize /\ QueueSize \in Nat
      BY <3>1, <3>2, SizeAssumption DEF Room
    <3>5. line'[i] = Append(s, r)
      BY <2>3, <3>2 DEF Post
    <3>6. Len(line'[i]) <= QueueSize + 1
      BY <3>3, <3>4, <3>5
    <3>7. /\ tv'[i] \in Objects
          /\ \A c \in Aspects \ {a} : tv'[i].setting[c] = tv[i].setting[c]
          /\ tv'[i].query => tv[i].query \/ op = "query"
      <4>1. CASE task = "read"
        <5>1. tv'[i] = [tv[i] EXCEPT !.query = TRUE]
          BY <2>3, <4>1 DEF Post
        <5>2. QED BY <2>1, <4>1, <5>1, QuerySet
      <4>2. CASE task # "read"
        <5>1. tv'[i] = [tv[i] EXCEPT !.setting[a] = TRUE]
          BY <2>3, <4>2 DEF Post
        <5>2. PICK o \in Objects : o = tv[i]
          BY <2>1
        <5>3. /\ [o EXCEPT !.setting[a] = TRUE] \in Objects
              /\ [o EXCEPT !.setting[a] = TRUE].query = o.query
              /\ \A c \in Aspects \ {a} : [o EXCEPT !.setting[a] = TRUE].setting[c] = o.setting[c]
          BY SettingSet, Zenon
        <5>4. tv'[i] = [o EXCEPT !.setting[a] = TRUE]
          BY <5>1, <5>2
        <5>5. QED BY <5>2, <5>3, <5>4
      <4>3. QED BY <4>1, <4>2
    <3>8. QED BY <3>2, <3>3, <3>5, <3>6, <3>7
  <2>4. QED BY <2>2, <2>3
<1>3. tv' \in [Tvs -> Objects] /\ line' \in [Tvs -> Seq(Requests)]
  <2>1. tv' = [i \in Tvs |-> tv'[i]] /\ line' = [i \in Tvs |-> line'[i]]
    BY DEF Post
  <2>2. QED BY <1>2, <2>1
<1>4. main' \in Calls \cup {Idle}
  <2>1. CASE Stuck(to) = {}
    BY <2>1 DEF Post
  <2>2. CASE Stuck(to) # {}
    <3>1. Min(Stuck(to)) \in Tvs
      <4>1. Stuck(to) \in SUBSET Tvs
        BY DEF Stuck
      <4>2. QED BY <2>2, <4>1, FirstOf
    <3>2. main' = [task |-> task, aspect |-> a, op |-> op, tv |-> Min(Stuck(to)), seen |-> seen]
      BY <2>2 DEF Post
    <3>3. QED BY <3>1, <3>2 DEF Calls
  <2>3. QED BY <2>1, <2>2
<1>5. ASSUME FlagsBacked PROVE FlagsBacked'
  <2> SUFFICES ASSUME NEW i \in Tvs, i \notin lost
               PROVE  /\ \A c \in Aspects : tv'[i].setting[c] => Underway(i, c)'
                      /\ tv'[i].query => Queried(i)'
    BY DEF FlagsBacked
  <2>1. QED BY <1>2, <1>5, Backed
<1>6. QED BY <1>2, <1>3, <1>4, <1>5

(* run() decides on one of the states.                                     *)
Executers == [next : [Aspects -> States], stable : [Aspects -> States],
              ready : [Aspects -> BOOLEAN]]

LEMMA DecideTypes ==
    ASSUME exec \in Executers, NEW a \in Aspects, NEW seen, Decide(a, seen)
    PROVE  exec' \in Executers
<1>1. ASSUME NEW v \in States
      PROVE  /\ [exec EXCEPT !.next[a] = v, !.ready[a] = TRUE] \in Executers
             /\ [exec EXCEPT !.stable[a] = v] \in Executers
  <2>1. /\ [exec.next EXCEPT ![a] = v] \in [Aspects -> States]
        /\ [exec.stable EXCEPT ![a] = v] \in [Aspects -> States]
        /\ [exec.ready EXCEPT ![a] = TRUE] \in [Aspects -> BOOLEAN]
    BY DEF Executers
  <2>2. QED BY <2>1 DEF Executers
<1>2. exec.next[a] \in States /\ "on" \in States /\ "off" \in States
  BY DEF Executers, States
<1>3. \/ exec' = exec
      \/ \E v \in States : \/ exec' = [exec EXCEPT !.next[a] = v, !.ready[a] = TRUE]
                           \/ exec' = [exec EXCEPT !.stable[a] = v]
  <2>1. PICK u \in States : u = IF "on" \in Range(seen) THEN "on" ELSE "off"
    BY <1>2
  <2>2. PICK w \in States : w = exec.next[a]
    BY <1>2
  <2>3. \/ exec' = exec
        \/ exec' = [exec EXCEPT !.next[a] = u, !.ready[a] = TRUE]
        \/ exec' = [exec EXCEPT !.stable[a] = w]
    BY <2>1, <2>2, Zenon DEF Decide
  <2>4. QED BY <2>3, Zenon
<1>4. QED BY <1>1, <1>3, Zenon

(* One round of run(), or what is left of it after a wait.                 *)
LEMMA RunOnStep ==
    ASSUME TypeOK, NEW a \in Aspects, NEW owed \in SUBSET Tvs, NEW later \in SUBSET Tvs,
           NEW before \in [Tvs -> States], RunOn(a, owed, before, later),
           UNCHANGED <<device, counters>>
    PROVE  TypeOK' /\ (FlagsBacked => FlagsBacked')
<1> DEFINE to == owed \cup (later \cap Behind(a) \cap Unset(a))
           seen == [i \in Tvs |-> IF i \in later THEN tv[i].value[a] ELSE before[i]]
<1>1. seen \in [Tvs -> States] /\ to \in SUBSET Tvs /\ exec.next[a] \in States
  BY DEF TypeOK, Objects
<1>2. exec \in Executers
  BY DEF TypeOK, Executers
<1>3. Post("run", a, exec.next[a], to, seen)
  BY DEF RunOn
<1>4. exec' \in Executers
  <2>1. Decide(a, seen) \/ exec' = exec
    BY DEF RunOn
  <2> HIDE DEF seen
  <2>2. QED BY <1>2, <2>1, DecideTypes
<1>5. callback' = callback /\ lost' = lost /\ monitor' = monitor
  BY DEF device, counters
<1> HIDE DEF seen, to
<1>6. /\ tv' \in [Tvs -> Objects] /\ main' \in Calls \cup {Idle}
      /\ line' \in [Tvs -> Seq(Requests)]
      /\ \A i \in Tvs : Len(line'[i]) <= QueueSize + 1
      /\ FlagsBacked => FlagsBacked'
  BY <1>1, <1>3, <1>5, PostStep
<1>7. QED BY <1>4, <1>5, <1>6 DEF TypeOK, Executers

LEMMA RunStep ==
    ASSUME TypeOK, NEW a \in Aspects, Run(a)
    PROVE  TypeOK' /\ (FlagsBacked => FlagsBacked')
<1>1. Nothing \in [Tvs -> States]
  BY DEF Nothing, States
<1>2. RunOn(a, {}, Nothing, Tvs) /\ UNCHANGED <<device, counters>>
  BY DEF Run
<1>3. QED BY <1>1, <1>2, RunOnStep

LEMMA PressStep ==
    ASSUME TypeOK, NEW a \in Aspects, Press(a)
    PROVE  TypeOK' /\ (FlagsBacked => FlagsBacked')
<1>1. PICK v \in States : /\ exec' = [exec EXCEPT !.next[a] = v, !.ready[a] = TRUE]
                          /\ Post("press", a, v, Unset(a), Nothing)
  <2>1. PICK v \in States : v = Other(exec.stable[a])
    BY DEF Other, States
  <2>2. QED BY <2>1, Zenon DEF Press
<1>2. callback' = callback /\ lost' = lost /\ monitor' = monitor
  BY DEF Press, device
<1>3. exec' \in Executers
  <2>1. /\ [exec.next EXCEPT ![a] = v] \in [Aspects -> States]
        /\ [exec.ready EXCEPT ![a] = TRUE] \in [Aspects -> BOOLEAN]
    BY DEF TypeOK
  <2>2. QED BY <1>1, <2>1 DEF TypeOK, Executers
<1>4. Nothing \in [Tvs -> States] /\ Unset(a) \in SUBSET Tvs
  BY DEF Nothing, States, Unset
<1>5. /\ tv' \in [Tvs -> Objects] /\ main' \in Calls \cup {Idle}
      /\ line' \in [Tvs -> Seq(Requests)]
      /\ \A i \in Tvs : Len(line'[i]) <= QueueSize + 1
      /\ FlagsBacked => FlagsBacked'
  BY <1>1, <1>2, <1>4, PostStep
<1>6. QED BY <1>2, <1>3, <1>5 DEF TypeOK, Executers

LEMMA ReadStep ==
    ASSUME TypeOK, NEW i \in Tvs, NEW a \in Aspects, Read(i, a)
    PROVE  TypeOK' /\ (FlagsBacked => FlagsBacked')
<1>1. Nothing \in [Tvs -> States] /\ {i} \in SUBSET Tvs
  BY DEF Nothing, States
<1>2. /\ Post("read", a, "query", {i}, Nothing)
      /\ callback' = callback /\ lost' = lost /\ monitor' = monitor /\ exec' = exec
  BY DEF Read, device, counters
<1>3. /\ tv' \in [Tvs -> Objects] /\ main' \in Calls \cup {Idle}
      /\ line' \in [Tvs -> Seq(Requests)]
      /\ \A j \in Tvs : Len(line'[j]) <= QueueSize + 1
      /\ FlagsBacked => FlagsBacked'
  BY <1>1, <1>2, PostStep
<1>4. QED BY <1>2, <1>3 DEF TypeOK

(* A call that waited goes on.                                             *)
LEMMA ResumeStep ==
    ASSUME TypeOK, Resume
    PROVE  TypeOK' /\ (FlagsBacked => FlagsBacked')
<1>1. main \in Calls
  BY DEF Resume, TypeOK
<1>2. PICK a \in Aspects, i \in Tvs, seen \in [Tvs -> States] :
        main.aspect = a /\ main.tv = i /\ main.seen = seen
  BY <1>1 DEF Calls
<1>3. PICK later \in SUBSET Tvs :
        later = IF main.task = "read" THEN {} ELSE {j \in Tvs : j > i}
  OBVIOUS
<1>4. /\ IF main.task = "run" THEN RunOn(a, {i}, seen, later)
         ELSE /\ Post(main.task, a, main.op, {i} \cup (later \cap Unset(a)), Nothing)
              /\ UNCHANGED exec
      /\ UNCHANGED <<device, counters>>
  BY <1>2, <1>3 DEF Resume
<1>5. CASE main.task = "run"
  <2>1. {i} \in SUBSET Tvs
    OBVIOUS
  <2>2. QED BY <1>4, <1>5, <2>1, RunOnStep
<1>6. CASE main.task # "run"
  <2>1. PICK to \in SUBSET Tvs : to = {i} \cup (later \cap Unset(a))
    OBVIOUS
  <2>2. /\ Post(main.task, a, main.op, to, Nothing) /\ exec' = exec
        /\ callback' = callback /\ lost' = lost /\ monitor' = monitor
    BY <1>4, <1>6, <2>1 DEF device, counters
  <2>3. /\ main.task \in {"run", "press", "read"} /\ main.op \in States \cup {"query"}
        /\ IF main.task = "read" THEN main.op = "query" ELSE main.op \in States
    BY <1>1 DEF Calls
  <2>4. Nothing \in [Tvs -> States]
    BY DEF Nothing, States
  <2>5. /\ tv' \in [Tvs -> Objects] /\ main' \in Calls \cup {Idle}
        /\ line' \in [Tvs -> Seq(Requests)]
        /\ \A j \in Tvs : Len(line'[j]) <= QueueSize + 1
        /\ FlagsBacked => FlagsBacked'
    BY <2>2, <2>3, <2>4, PostStep
  <2>6. QED BY <2>2, <2>5 DEF TypeOK
<1>7. QED BY <1>5, <1>6

-----------------------------------------------------------------------------
(* The monitors and the callback.                                          *)

(* The oldest request leaves the line; its callback, if it has one, backs  *)
(* the flag of its aspect.                                                 *)
LEMMA ReplyStep ==
    ASSUME TypeOK, NEW i \in Tvs, line[i] # <<>>, callback = NoCallback,
           NEW outcome \in {"ok", "bad", "null", "lost"},
           NEW done \in BOOLEAN, NEW online \in BOOLEAN,
           Reply(i, outcome, done, online), exec' = exec, main' = main,
           lost' = IF outcome = "lost" THEN lost \cup {i} ELSE lost
    PROVE  TypeOK' /\ (FlagsBacked => FlagsBacked')
<1>1. PICK s \in Seq(Requests) : s = line[i] /\ s # <<>>
  BY DEF TypeOK
<1>2. /\ Head(s) \in Requests /\ Head(s) = s[1] /\ Tail(s) \in Seq(Requests)
      /\ Len(Tail(s)) = Len(s) - 1 /\ \A k \in 1..(Len(s) - 1) : Tail(s)[k] = s[k + 1]
      /\ Len(s) \in Nat \ {0}
  BY <1>1
<1>3. line' = [line EXCEPT ![i] = Tail(s)]
  BY <1>1 DEF Reply
<1>4. PICK r \in Requests, value \in States :
        /\ r = s[1]
        /\ monitor' = [monitor EXCEPT ![i][r.aspect] = value]
        /\ IF outcome = "lost" THEN UNCHANGED <<tv, callback>>
           ELSE /\ callback' = [tv |-> i, aspect |-> r.aspect, outcome |-> outcome, value |-> value]
                /\ tv' = [tv EXCEPT ![i].query = FALSE,
                                    ![i].online = online,
                                    ![i].read[r.aspect] = IF outcome = "null" THEN @ ELSE TRUE]
  <2>1. PICK r \in Requests : r = Head(s)
    BY <1>2
  <2>2. (IF done /\ r.op # "query" THEN r.op ELSE monitor[i][r.aspect]) \in States
    BY DEF Requests, TypeOK
  <2>3. QED BY <1>1, <1>2, <2>1, <2>2 DEF Reply
<1>5. r.aspect \in Aspects
  BY <1>4 DEF Requests
<1>6. monitor' \in [Tvs -> [Aspects -> States]]
  BY <1>4, <1>5 DEF TypeOK
<1>7. /\ line' \in [Tvs -> Seq(Requests)] /\ line'[i] = Tail(s)
      /\ \A j \in Tvs \ {i} : line'[j] = line[j]
      /\ \A j \in Tvs : Len(line'[j]) <= QueueSize + 1
  <2>1. Len(s) <= QueueSize + 1 /\ QueueSize \in Nat
    BY <1>1, SizeAssumption DEF TypeOK
  <2>2. Len(Tail(s)) <= QueueSize + 1
    BY <1>2, <2>1
  <2>3. /\ line' \in [Tvs -> Seq(Requests)] /\ line'[i] = Tail(s)
        /\ \A j \in Tvs \ {i} : line'[j] = line[j]
    BY <1>2, <1>3 DEF TypeOK
  <2>4. QED BY <2>2, <2>3 DEF TypeOK
<1>8. CASE outcome = "lost"
  <2>1. tv' = tv /\ callback' = callback /\ lost' = lost \cup {i}
    BY <1>4, <1>8
  <2>2. TypeOK'
    BY <1>6, <1>7, <2>1 DEF TypeOK
  <2>3. FlagsBacked => FlagsBacked'
    <3>1. ASSUME FlagsBacked, NEW j \in Tvs, j \notin lost'
          PROVE  /\ \A c \in Aspects : tv'[j].setting[c] => Underway(j, c)'
                 /\ tv'[j].query => Queried(j)'
      <4>1. j \notin lost /\ j # i /\ line'[j] = line[j]
        BY <1>7, <2>1, <3>1
      <4>2. QED BY <2>1, <3>1, <4>1 DEF FlagsBacked, Underway, Queried
    <3>2. QED BY <3>1 DEF FlagsBacked
  <2>4. QED BY <2>2, <2>3
<1>9. CASE outcome # "lost"
  <2>1. callback' \in Callbacks /\ callback'.tv = i /\ callback'.aspect = r.aspect
        /\ callback' # NoCallback
    BY <1>4, <1>5, <1>9 DEF Callbacks, NoCallback, Tvs
  <2>2. PICK b \in BOOLEAN : tv' = [tv EXCEPT ![i].query = FALSE, ![i].online = online,
                                               ![i].read[r.aspect] = b]
    <3>1. tv[i].read[r.aspect] \in BOOLEAN
      BY <1>5 DEF TypeOK, Objects
    <3>2. QED BY <1>4, <1>9, <3>1
  <2>3. ASSUME NEW j \in Tvs
        PROVE  /\ tv'[j] \in Objects /\ tv'[j].setting = tv[j].setting
               /\ IF j = i THEN ~tv'[j].query ELSE tv'[j] = tv[j]
    <3>1. tv[j] \in Objects
      BY DEF TypeOK
    <3>2. CASE j # i
      BY <2>2, <3>1, <3>2 DEF TypeOK
    <3>3. CASE j = i
      <4>1. PICK f : f = [tv[i].read EXCEPT ![r.aspect] = b]
        OBVIOUS
      <4>2. f \in [Aspects -> BOOLEAN]
        BY <1>5, <3>1, <3>3, <4>1 DEF Objects
      <4>3. tv'[i] = [tv[i] EXCEPT !.query = FALSE, !.online = online, !.read = f]
        BY <2>2, <4>1 DEF TypeOK, Objects
      <4>4. QED BY <3>1, <3>3, <4>2, <4>3 DEF Objects
    <3>4. QED BY <3>2, <3>3
  <2>4. tv' \in [Tvs -> Objects]
    BY <2>2, <2>3 DEF TypeOK
  <2>5. TypeOK'
    BY <1>6, <1>7, <2>1, <2>4 DEF TypeOK
  <2>6. ASSUME FlagsBacked, NEW j \in Tvs, j \notin lost
        PROVE  /\ \A c \in Aspects : tv'[j].setting[c] => Underway(j, c)'
               /\ tv'[j].query => Queried(j)'
    <3>1. /\ \A c \in Aspects : tv[j].setting[c] => \E k \in 1..Len(line[j]) : line[j][k].aspect = c
          /\ tv[j].query => Queried(j)
      BY <2>6 DEF FlagsBacked, Underway
    <3>2. CASE j # i
      BY <1>7, <2>3, <3>1, <3>2 DEF Underway, Queried
    <3>3. CASE j = i
      <4>1. ~tv'[i].query /\ tv'[i].setting = tv[i].setting
        BY <2>3
      <4>2. ASSUME NEW c \in Aspects, tv[i].setting[c] PROVE Underway(i, c)'
        <5>1. PICK k \in 1..Len(s) : s[k].aspect = c
          BY <1>1, <3>1, <3>3, <4>2
        <5>2. CASE k = 1
          BY <1>4, <2>1, <5>1, <5>2 DEF Underway
        <5>3. CASE k # 1
          <6>1. k - 1 \in 1..(Len(s) - 1) /\ k - 1 + 1 = k
            BY <1>2, <5>3
          <6>2. Tail(s)[k - 1] = s[k]
            BY <1>2, <6>1
          <6>3. k - 1 \in 1..Len(line'[i]) /\ line'[i][k - 1].aspect = c
            BY <1>2, <1>7, <5>1, <6>1, <6>2
          <6>4. QED BY <6>3 DEF Underway
        <5>4. QED BY <5>2, <5>3
      <4>3. QED BY <3>3, <4>1, <4>2
    <3>4. QED BY <3>2, <3>3
  <2>7. lost' = lost
    BY <1>9
  <2>8. FlagsBacked => FlagsBacked'
    BY <2>6, <2>7 DEF FlagsBacked
  <2>9. QED BY <2>5, <2>8
<1>10. QED BY <1>8, <1>9

(* A monitor answers, or fails to.                                         *)
LEMMA AnswerStep ==
    ASSUME TypeOK, NEW i \in Tvs, Answer(i) \/ Fail(i)
    PROVE  TypeOK' /\ (FlagsBacked => FlagsBacked')
<1>1. CASE Answer(i)
  <2>1. /\ line[i] # <<>> /\ callback = NoCallback /\ Reply(i, "ok", TRUE, TRUE)
        /\ exec' = exec /\ main' = main /\ lost' = lost
    BY <1>1 DEF Answer, counters
  <2>2. QED BY <2>1, ReplyStep
<1>2. CASE Fail(i)
  <2>1. PICK outcome \in Faults, done \in BOOLEAN, online \in BOOLEAN :
            /\ Reply(i, outcome, done, online)
            /\ lost' = IF outcome = "lost" THEN lost \cup {i} ELSE lost
    BY <1>2 DEF Fail
  <2>2. outcome \in {"ok", "bad", "null", "lost"}
    BY FaultAssumption
  <2>3. line[i] # <<>> /\ callback = NoCallback /\ exec' = exec /\ main' = main
    BY <1>2 DEF Fail
  <2>4. QED BY <2>1, <2>2, <2>3, ReplyStep
<1>3. QED BY <1>1, <1>2

(* The rest of the callback clears the flag of its aspect.                 *)
LEMMA FinishStep ==
    ASSUME TypeOK, Finish
    PROVE  TypeOK' /\ (FlagsBacked => FlagsBacked')
<1>1. PICK i \in Tvs, a \in Aspects : /\ callback \in Callbacks /\ callback.tv = i
                                      /\ callback.aspect = a
  BY DEF Finish, TypeOK, Callbacks
<1>2. PICK v \in [Aspects -> States], r \in [Aspects -> BOOLEAN] :
        tv' = [tv EXCEPT ![i].value = v, ![i].read = r, ![i].setting[a] = FALSE]
  <2>1. tv[i].value \in [Aspects -> States] /\ tv[i].read \in [Aspects -> BOOLEAN]
    BY DEF TypeOK, Objects
  <2>2. PICK x \in States : x = IF callback.outcome = "ok" THEN callback.value ELSE tv[i].value[a]
    BY <1>1, <2>1 DEF Callbacks
  <2>3. PICK y \in BOOLEAN : y = IF callback.outcome = "bad" THEN FALSE ELSE tv[i].read[a]
    BY <2>1
  <2>4. PICK v \in [Aspects -> States], r \in [Aspects -> BOOLEAN] :
          v = [tv[i].value EXCEPT ![a] = x] /\ r = [tv[i].read EXCEPT ![a] = y]
    BY <2>1
  <2>5. tv' = [tv EXCEPT ![i].value[a] = x, ![i].read[a] = y, ![i].setting[a] = FALSE]
    <3>1. tv' = [tv EXCEPT ![i].value[a] = IF callback.outcome = "ok" THEN callback.value ELSE @,
                           ![i].read[a] = IF callback.outcome = "bad" THEN FALSE ELSE @,
                           ![i].setting[a] = FALSE]
      BY <1>1 DEF Finish
    <3>2. tv \in [Tvs -> Objects]
      BY DEF TypeOK
    <3>3. QED BY <2>2, <2>3, <3>1, <3>2 DEF Objects
  <2>6. tv' = [tv EXCEPT ![i].value = v, ![i].read = r, ![i].setting[a] = FALSE]
    BY <2>4, <2>5 DEF TypeOK, Objects
  <2>7. QED BY <2>4, <2>6, Zenon
<1>3. callback' = NoCallback /\ UNCHANGED <<exec, main, line, monitor, lost>>
  BY DEF Finish, counters
<1>4. ASSUME NEW j \in Tvs
      PROVE  /\ tv'[j] \in Objects /\ tv'[j].query = tv[j].query
             /\ IF j = i THEN tv'[j].setting = [tv[j].setting EXCEPT ![a] = FALSE]
                ELSE tv'[j].setting = tv[j].setting
  <2>1. tv[j] \in Objects
    BY DEF TypeOK
  <2>2. CASE j # i
    BY <1>2, <2>1, <2>2 DEF TypeOK
  <2>3. CASE j = i
    <3>1. PICK f : f = [tv[i].setting EXCEPT ![a] = FALSE]
      OBVIOUS
    <3>2. f \in [Aspects -> BOOLEAN]
      BY <2>1, <2>3, <3>1 DEF Objects
    <3>3. tv'[i] = [tv[i] EXCEPT !.value = v, !.read = r, !.setting = f]
      BY <1>2, <3>1 DEF TypeOK
    <3>4. tv'[i] = [value |-> v, read |-> r, setting |-> f,
                    query |-> tv[i].query, online |-> tv[i].online]
      BY <2>1, <2>3, <3>3 DEF Objects
    <3>5. /\ tv[i].query \in BOOLEAN /\ tv[i].online \in BOOLEAN
          /\ v \in [Aspects -> States] /\ r \in [Aspects -> BOOLEAN]
      BY <1>2, <2>1, <2>3 DEF Objects
    <3>6. tv'[i] \in Objects
      BY <3>2, <3>4, <3>5 DEF Objects
    <3>7. QED BY <2>3, <3>1, <3>4, <3>6
  <2>4. QED BY <2>2, <2>3
<1>5. TypeOK'
  <2>1. tv' \in [Tvs -> Objects]
    BY <1>2, <1>4 DEF TypeOK
  <2>2. QED BY <1>3, <2>1 DEF TypeOK
<1>6. ASSUME FlagsBacked PROVE FlagsBacked'
  <2> SUFFICES ASSUME NEW j \in Tvs, j \notin lost
               PROVE  /\ \A c \in Aspects : tv'[j].setting[c] => Underway(j, c)'
                      /\ tv'[j].query => Queried(j)'
    BY <1>3 DEF FlagsBacked
  <2>1. /\ \A c \in Aspects : tv[j].setting[c] => Underway(j, c)
        /\ tv[j].query => Queried(j)
    BY <1>6 DEF FlagsBacked
  <2>2. line'[j] = line[j]
    BY <1>3
  <2>3. tv'[j].query => Queried(j)'
    BY <1>4, <2>1, <2>2 DEF Queried
  <2>4. ASSUME NEW c \in Aspects, tv'[j].setting[c] PROVE Underway(j, c)'
    <3>1. tv[j].setting \in [Aspects -> BOOLEAN]
      BY DEF TypeOK, Objects
    <3>2. tv[j].setting[c] /\ ~(j = i /\ c = a)
      BY <1>4, <2>4, <3>1
    <3>3. QED BY <1>1, <2>1, <2>2, <3>2 DEF Underway
  <2>5. QED BY <2>3, <2>4
<1>7. QED BY <1>5, <1>6

(* The monitor's own remote changes the monitor alone.                     *)
LEMMA HandStep ==
    ASSUME TypeOK, NEW i \in Tvs, NEW a \in Aspects, ByHand(i, a)
    PROVE  TypeOK' /\ (FlagsBacked => FlagsBacked')
<1>1. Other(monitor[i][a]) \in States
  BY DEF Other, States
<1>2. monitor' \in [Tvs -> [Aspects -> States]]
  BY <1>1 DEF ByHand, TypeOK
<1>3. QED BY <1>2 DEF ByHand, TypeOK, FlagsBacked, Underway, Queried

(* Nothing is in line at first, and no flag is set.                        *)
LEMMA SplitTvInit == Init => LinesSound
<1> SUFFICES ASSUME Init PROVE LinesSound
  OBVIOUS
<1>1. /\ Off \in [Aspects -> States] /\ None \in [Aspects -> BOOLEAN]
      /\ "on" \in States /\ "off" \in States
  BY DEF Off, None, States
<1>2. tv \in [Tvs -> Objects]
  BY <1>1 DEF Init, Objects
<1>3. exec \in [next : [Aspects -> States], stable : [Aspects -> States],
                ready : [Aspects -> BOOLEAN]]
  BY <1>1 DEF Init
<1>4. line \in [Tvs -> Seq(Requests)] /\ \A i \in Tvs : Len(line[i]) <= QueueSize + 1
  <2>1. <<>> \in Seq(Requests) /\ Len(<<>>) = 0
    OBVIOUS
  <2>2. QED BY <2>1, SizeAssumption DEF Init
<1>5. TypeOK
  BY <1>2, <1>3, <1>4 DEF Init, TypeOK
<1>6. FlagsBacked
  BY DEF Init, FlagsBacked, None
<1>7. QED BY <1>5, <1>6 DEF LinesSound

(* However full the mailbox gets and whatever is pressed, read, answered or*)
(* lost, a flag of LgTv (lib/LgTv.cpp) is only set while a callback that   *)
(* clears it is still to come: a set that waits in send() sets it when the *)
(* request is in the mailbox, an answer takes the place of its request, and*)
(* an early answer that clears the flag of a later query does no harm.     *)
THEOREM LinesHold == Spec => []LinesSound
<1>1. LinesSound /\ [Next]_vars => LinesSound'
  <2> SUFFICES ASSUME TypeOK, FlagsBacked, [Next]_vars PROVE TypeOK' /\ FlagsBacked'
    BY DEF LinesSound
  <2>1. CASE Resume
    BY <2>1, ResumeStep
  <2>2. CASE Finish
    BY <2>2, FinishStep
  <2>3. ASSUME NEW i \in Tvs, Answer(i) \/ Fail(i) PROVE TypeOK' /\ FlagsBacked'
    BY <2>3, AnswerStep
  <2>4. ASSUME NEW a \in Aspects, Run(a) PROVE TypeOK' /\ FlagsBacked'
    BY <2>4, RunStep
  <2>5. ASSUME NEW a \in Aspects, Press(a) PROVE TypeOK' /\ FlagsBacked'
    BY <2>5, PressStep
  <2>6. ASSUME NEW i \in Tvs, NEW a \in Aspects, Read(i, a) PROVE TypeOK' /\ FlagsBacked'
    BY <2>6, ReadStep
  <2>7. ASSUME NEW i \in Tvs, NEW a \in Aspects, ByHand(i, a) PROVE TypeOK' /\ FlagsBacked'
    BY <2>7, HandStep
  <2>8. CASE UNCHANGED vars
    BY <2>8 DEF vars, TypeOK, FlagsBacked, Underway, Queried
  <2>9. QED BY <2>1, <2>2, <2>3, <2>4, <2>5, <2>6, <2>7, <2>8 DEF Next
<1>2. QED BY SplitTvInit, <1>1, PTL DEF Spec

-----------------------------------------------------------------------------
(* The scaler and its switch.                                             *)

(* The words of names and answers.                                         *)
Words == {"STD"} \cup UNION {Range(s) : s \in Range(Outputs) \cup ScTrailers}
Texts == Seq(Words)

(* No trailer goes on where the name of an output could.                   *)
CleanTrailers ==
    /\ ScTrailers \subseteq Texts
    /\ \A t \in ScTrailers : t # <<>> => t[1] \notin {"50", "+"}

(* One text is the beginning of another.                                  *)
Begins(s, t) == Len(s) <= Len(t) /\ \A j \in 1..Len(s) : s[j] = t[j]

(* A set of numbers that is not empty has a smallest one, and Min is it.   *)
LEMMA LeastIs ==
    ASSUME NEW S \in SUBSET Nat, S # {}
    PROVE  Min(S) \in S /\ \A y \in S : Min(S) <= y
<1>1. IsWellFoundedOn(OpToRel(<, Nat), Nat)
  BY NatLessThanWellFounded
<1>2. PICK x \in S : \A y \in S : ~(<<y, x>> \in OpToRel(<, Nat))
  BY <1>1, WFMin
<1>3. ASSUME NEW y \in S PROVE x <= y
  <2>1. ~(y < x)
    BY <1>2 DEF OpToRel
  <2>2. QED BY <2>1
<1>4. QED BY <1>3 DEF Min

(* The largest one of a set of outputs is its maximum.                     *)
LEMMA LastIs ==
    ASSUME NEW S \in SUBSET (1..20), S # {}
    PROVE  /\ Max(S) \in S /\ \A y \in S : y <= Max(S)
           /\ \A x \in S : (\A y \in S : y <= x) => x = Max(S)
<1> DEFINE T == {21 - y : y \in S}
<1>1. T \in SUBSET Nat /\ T # {}
  <2>1. \A y \in S : 21 - y \in Nat
    OBVIOUS
  <2>2. QED BY <2>1
<1>2. PICK z \in T : \A y \in T : z <= y
  <2> HIDE DEF T
  <2>1. Min(T) \in T /\ \A y \in T : Min(T) <= y
    BY <1>1, LeastIs
  <2>2. QED BY <2>1
<1>3. PICK x \in S : z = 21 - x
  OBVIOUS
<1>4. \A y \in S : y <= x
  <2>1. ASSUME NEW y \in S PROVE y <= x
    <3>1. 21 - y \in T
      OBVIOUS
    <3>2. z <= 21 - y
      BY <1>2, <3>1
    <3>3. QED BY <1>3, <3>2
  <2>2. QED BY <2>1
<1>5. Max(S) \in S /\ \A y \in S : y <= Max(S)
  BY <1>4 DEF Max
<1>6. ASSUME NEW w \in S, \A y \in S : y <= w PROVE w = Max(S)
  <2>1. Max(S) <= w /\ w <= Max(S)
    BY <1>5, <1>6
  <2>2. Max(S) \in 1..20 /\ w \in 1..20
    BY <1>5
  <2>3. QED BY <2>1, <2>2
<1>7. QED BY <1>5, <1>6

(* A name and an answer match when one is the beginning of the other.      *)
LEMMA MatchesIs ==
    ASSUME NEW n \in Texts, NEW a \in Texts
    PROVE  Matches(n, a) <=> Begins(n, a) \/ Begins(a, n)
<1> DEFINE differs == {j \in 1..Len(a) : j > Len(n) \/ n[j] # a[j]}
<1>1. Len(n) \in Nat /\ Len(a) \in Nat
  BY DEF Texts
<1>2. CASE differs = {}
  <2>1. \A j \in 1..Len(a) : j <= Len(n) /\ n[j] = a[j]
    BY <1>1, <1>2
  <2>2. Len(a) <= Len(n)
    BY <1>1, <2>1
  <2>3. Begins(a, n)
    BY <2>1, <2>2 DEF Begins
  <2>4. Matches(n, a)
    BY <1>2 DEF Matches
  <2>5. QED BY <2>3, <2>4
<1>3. CASE differs # {}
  <2>1. PICK m : m = Min(differs)
    OBVIOUS
  <2>2. m \in differs /\ \A y \in differs : m <= y
    <3>1. differs \in SUBSET Nat
      BY <1>1
    <3> HIDE DEF differs
    <3>2. QED BY <1>3, <2>1, <3>1, LeastIs
  <2>3. Matches(n, a) <=> m > Len(n) \/ m = Len(a) + 1
    BY <1>3, <2>1 DEF Matches
  <2>4. Matches(n, a) <=> m > Len(n)
    BY <1>1, <2>2, <2>3
  <2>5. ~Begins(a, n)
    BY <1>1, <2>2 DEF Begins
  <2>6. ASSUME m > Len(n) PROVE Begins(n, a)
    <3>1. Len(n) <= Len(a)
      BY <1>1, <2>2, <2>6
    <3>2. ASSUME NEW j \in 1..Len(n) PROVE n[j] = a[j]
      <4>1. j \notin differs /\ j \in 1..Len(a)
        BY <1>1, <2>2, <2>6, <3>1
      <4>2. QED BY <1>1, <4>1
    <3>3. QED BY <3>1, <3>2 DEF Begins
  <2>7. ASSUME Begins(n, a) PROVE m > Len(n)
    BY <1>1, <2>2, <2>7 DEF Begins
  <2>8. QED BY <2>4, <2>5, <2>6, <2>7
<1>4. QED BY <1>2, <1>3

(* The prefixes of a text are the texts it begins with.                    *)
LEMMA PrefixIs ==
    ASSUME NEW s \in Texts
    PROVE  /\ Prefixes(s) \in SUBSET Texts
           /\ \A p \in Texts : p \in Prefixes(s) <=> Begins(p, s)
<1>1. Len(s) \in Nat /\ \A i \in 1..Len(s) : s[i] \in Words
  BY DEF Texts
<1>2. ASSUME NEW l \in 0..Len(s)
      PROVE  /\ SubSeq(s, 1, l) \in Texts /\ Len(SubSeq(s, 1, l)) = l
             /\ \A i \in 1..l : SubSeq(s, 1, l)[i] = s[i]
  <2>1. l \in Int /\ 1 \in Int /\ \A i \in 1..l : s[i] \in Words
    BY <1>1
  <2>2. /\ SubSeq(s, 1, l) \in Seq(Words)
        /\ Len(SubSeq(s, 1, l)) = IF 1 <= l THEN l - 1 + 1 ELSE 0
        /\ \A i \in 1..l - 1 + 1 : SubSeq(s, 1, l)[i] = s[1 + i - 1]
    BY <2>1, SubSeqProperties
  <2>3. QED BY <1>1, <2>2 DEF Texts
<1>3. Prefixes(s) \in SUBSET Texts
  BY <1>2 DEF Prefixes
<1>4. ASSUME NEW p \in Texts, p \in Prefixes(s) PROVE Begins(p, s)
  BY <1>1, <1>2, <1>4 DEF Prefixes, Begins
<1>5. ASSUME NEW p \in Texts, Begins(p, s) PROVE p \in Prefixes(s)
  <2>1. Len(p) \in 0..Len(s)
    BY <1>1, <1>5 DEF Begins, Texts
  <2>2. \A i \in 1..Len(p) : SubSeq(s, 1, Len(p))[i] = p[i]
    BY <1>2, <1>5, <2>1 DEF Begins
  <2>3. p = SubSeq(s, 1, Len(p))
    BY <1>2, <2>1, <2>2, SeqEqual DEF Texts
  <2>4. QED BY <2>1, <2>3 DEF Prefixes
<1>6. QED BY <1>3, <1>4, <1>5

(* The names one by one.                                                   *)
LEMMA Rows ==
    /\ Outputs[1] = <<"NATIVE">> /\ Outputs[2] = <<"VGA">>
    /\ Outputs[3] = <<"SVGA">> /\ Outputs[4] = <<"XGA">>
    /\ Outputs[5] = <<"SXGA">> /\ Outputs[6] = <<"UXGA">>
    /\ Outputs[7] = <<"480", "I">> /\ Outputs[8] = <<"480", "P">>
    /\ Outputs[9] = <<"720", "P">> /\ Outputs[10] = <<"1080", "I">>
    /\ Outputs[11] = <<"1080", "P">> /\ Outputs[12] = <<"576", "I">>
    /\ Outputs[13] = <<"576", "P">> /\ Outputs[14] = <<"720", "P">>
    /\ Outputs[15] = <<"1080", "I", "50">> /\ Outputs[16] = <<"1080", "P", "50">>
    /\ Outputs[17] = <<"WXGA">> /\ Outputs[18] = <<"WSXGA">>
    /\ Outputs[19] = <<"WUXGA">> /\ Outputs[20] = <<"WXGA", "+">>
BY DEF Outputs

(* The number of words of each name.                                       *)
LEMMA Lengths ==
    /\ \A i \in {1, 2, 3, 4, 5, 6, 17, 18, 19} : Len(Outputs[i]) = 1
    /\ \A i \in {7, 8, 9, 10, 11, 12, 13, 14, 20} : Len(Outputs[i]) = 2
    /\ \A i \in {15, 16} : Len(Outputs[i]) = 3
<1>1. \A i \in {1, 2, 3, 4, 5, 6, 17, 18, 19} : Len(Outputs[i]) = 1
  <2>1. Len(Outputs[1]) = 1 /\ Len(Outputs[2]) = 1 /\ Len(Outputs[3]) = 1
    BY Rows
  <2>2. Len(Outputs[4]) = 1 /\ Len(Outputs[5]) = 1 /\ Len(Outputs[6]) = 1
    BY Rows
  <2>3. Len(Outputs[17]) = 1 /\ Len(Outputs[18]) = 1 /\ Len(Outputs[19]) = 1
    BY Rows
  <2>4. QED BY <2>1, <2>2, <2>3
<1>2. \A i \in {7, 8, 9, 10, 11, 12, 13, 14, 20} : Len(Outputs[i]) = 2
  <2>1. Len(Outputs[7]) = 2 /\ Len(Outputs[8]) = 2 /\ Len(Outputs[9]) = 2
    BY Rows
  <2>2. Len(Outputs[10]) = 2 /\ Len(Outputs[11]) = 2 /\ Len(Outputs[12]) = 2
    BY Rows
  <2>3. Len(Outputs[13]) = 2 /\ Len(Outputs[14]) = 2 /\ Len(Outputs[20]) = 2
    BY Rows
  <2>4. QED BY <2>1, <2>2, <2>3
<1>3. \A i \in {15, 16} : Len(Outputs[i]) = 3
  <2>1. Len(Outputs[15]) = 3 /\ Len(Outputs[16]) = 3
    BY Rows
  <2>2. QED BY <2>1
<1>4. QED BY <1>1, <1>2, <1>3

(* The words of the names.                                                 *)
LEMMA FirstWords ==
    /\ Outputs[1][1] = "NATIVE" /\ Outputs[2][1] = "VGA" /\ Outputs[3][1] = "SVGA"
    /\ Outputs[4][1] = "XGA" /\ Outputs[5][1] = "SXGA" /\ Outputs[6][1] = "UXGA"
    /\ Outputs[7][1] = "480" /\ Outputs[8][1] = "480" /\ Outputs[9][1] = "720"
    /\ Outputs[10][1] = "1080" /\ Outputs[11][1] = "1080" /\ Outputs[12][1] = "576"
    /\ Outputs[13][1] = "576" /\ Outputs[14][1] = "720" /\ Outputs[15][1] = "1080"
    /\ Outputs[16][1] = "1080" /\ Outputs[17][1] = "WXGA" /\ Outputs[18][1] = "WSXGA"
    /\ Outputs[19][1] = "WUXGA" /\ Outputs[20][1] = "WXGA"
BY Rows

(* The words behind the first one.                                         *)
LEMMA LaterWords ==
    /\ Outputs[7][2] = "I" /\ Outputs[8][2] = "P" /\ Outputs[9][2] = "P"
    /\ Outputs[10][2] = "I" /\ Outputs[11][2] = "P" /\ Outputs[12][2] = "I"
    /\ Outputs[13][2] = "P" /\ Outputs[14][2] = "P" /\ Outputs[15][2] = "I"
    /\ Outputs[16][2] = "P" /\ Outputs[20][2] = "+" /\ Outputs[15][3] = "50"
    /\ Outputs[16][3] = "50"
BY Rows

(* The outputs one by one.                                                 *)
LEMMA Twenty ==
    ASSUME NEW i \in 1..20
    PROVE  \/ i = 1 \/ i = 2 \/ i = 3 \/ i = 4 \/ i = 5 \/ i = 6 \/ i = 7 \/ i = 8 \/ i = 9 \/ i = 10
           \/ i = 11 \/ i = 12 \/ i = 13 \/ i = 14 \/ i = 15 \/ i = 16 \/ i = 17 \/ i = 18
           \/ i = 19 \/ i = 20
OBVIOUS

(* All names are texts of one to three words.                              *)
LEMMA OutputsAre ==
    /\ Len(Outputs) = 20
    /\ \A i \in 1..20 : Outputs[i] \in Texts /\ Len(Outputs[i]) \in 1..3
<1>1. Len(Outputs) = 20 /\ DOMAIN Outputs = 1..20
  BY DEF Outputs
<1>2. ASSUME NEW i \in 1..20 PROVE Outputs[i] \in Texts /\ Len(Outputs[i]) \in 1..3
  <2>1. PICK s : s = Outputs[i]
    OBVIOUS
  <2>2. Range(s) \subseteq Words
    BY <1>1, <2>1 DEF Words, Range
  <2>3. \/ \E a : s = <<a>>
        \/ \E a, b : s = <<a, b>>
        \/ \E a, b, c : s = <<a, b, c>>
    <3>1. CASE Outputs[i] \in {Outputs[1], Outputs[2], Outputs[3], Outputs[4], Outputs[5], Outputs[6],
                               Outputs[17], Outputs[18], Outputs[19]}
      BY <2>1, <3>1, Rows, Zenon
    <3>2. CASE i \in {7, 8, 9, 10, 11, 12, 13, 14, 20}
      <4>1. CASE i \in {7, 8, 9}
        <5>1. s = Outputs[7] \/ s = Outputs[8] \/ s = Outputs[9]
          BY <2>1, <4>1
        <5>2. QED BY <5>1, Rows, Zenon
      <4>2. CASE i \in {10, 11, 12}
        <5>1. s = Outputs[10] \/ s = Outputs[11] \/ s = Outputs[12]
          BY <2>1, <4>2
        <5>2. QED BY <5>1, Rows, Zenon
      <4>3. CASE i \in {13, 14, 20}
        <5>1. s = Outputs[13] \/ s = Outputs[14] \/ s = Outputs[20]
          BY <2>1, <4>3
        <5>2. QED BY <5>1, Rows, Zenon
      <4>4. QED BY <3>2, <4>1, <4>2, <4>3
    <3>3. CASE i \in {15, 16}
      <4>1. \E a, b, c : s = <<a, b, c>>
        <5>1. i = 15 \/ i = 16
          BY <3>3
        <5>2. QED BY <2>1, <5>1, Rows, Zenon
      <4>2. QED BY <4>1
    <3>4. QED BY <3>1, <3>2, <3>3, Twenty
  <2>4. CASE \E a : s = <<a>>
    <3>1. PICK a : s = <<a>>
      BY <2>4
    <3>2. a \in Words
      BY <2>2, <3>1 DEF Range
    <3>3. QED BY <2>1, <3>1, <3>2 DEF Texts
  <2>5. CASE \E a, b : s = <<a, b>>
    <3>1. PICK a, b : s = <<a, b>>
      BY <2>5
    <3>2. a \in Words /\ b \in Words
      BY <2>2, <3>1 DEF Range
    <3>3. QED BY <2>1, <3>1, <3>2 DEF Texts
  <2>6. CASE \E a, b, c : s = <<a, b, c>>
    <3>1. PICK a, b, c : s = <<a, b, c>>
      BY <2>6
    <3>2. a \in Words /\ b \in Words /\ c \in Words
      BY <2>2, <3>1 DEF Range
    <3>3. QED BY <2>1, <3>1, <3>2 DEF Texts
  <2>7. QED BY <2>3, <2>4, <2>5, <2>6
<1>3. QED BY <1>1, <1>2

(* Longer names stand behind those they continue.                          *)
LEMMA LongerLater ==
    ASSUME NEW i \in 1..20, NEW k \in 1..20, Begins(Outputs[i], Outputs[k]),
           Len(Outputs[i]) < Len(Outputs[k])
    PROVE  i < k /\ Outputs[k][Len(Outputs[i]) + 1] \in {"50", "+"}
<1>0. PICK m, n : m = Len(Outputs[i]) /\ n = Len(Outputs[k])
  OBVIOUS
<1>1. m \in 1..3 /\ n \in 1..3 /\ m < n /\ n # 1 /\ Outputs[i][1] = Outputs[k][1]
  <2>1. m \in 1..3 /\ n \in 1..3 /\ m < n
    BY <1>0, OutputsAre
  <2>2. 1 \in 1..m /\ n # 1
    BY <2>1
  <2>3. \A j \in 1..m : Outputs[i][j] = Outputs[k][j]
    BY <1>0 DEF Begins
  <2>4. QED BY <2>1, <2>2, <2>3
<1>2. k \in {7, 8, 9, 10, 11, 12, 13, 14, 15, 16, 20}
  <2>1. k \notin {1, 2, 3, 4, 5, 6, 17, 18, 19}
    BY <1>0, <1>1, Lengths
  <2>2. QED BY <2>1, Twenty
<1>3. CASE k \in {7, 8}
  <2>1. i \in {7, 8}
    <3>1. Outputs[i][1] = "480"
      BY <1>1, <1>3, FirstWords
    <3>2. i \notin {1, 2, 3, 4, 5, 6, 9, 10, 11, 12, 13, 14, 15, 16, 17, 18, 19, 20}
      BY <3>1, FirstWords
    <3>3. QED BY <3>2, Twenty
  <2>2. m = 2 /\ n = 2
    BY <1>0, <1>3, <2>1, Lengths
  <2>3. QED BY <1>1, <2>2
<1>4. CASE k \in {9, 14}
  <2>1. i \in {9, 14}
    <3>1. Outputs[i][1] = "720"
      BY <1>1, <1>4, FirstWords
    <3>2. i \notin {1, 2, 3, 4, 5, 6, 7, 8, 10, 11, 12, 13, 15, 16, 17, 18, 19, 20}
      BY <3>1, FirstWords
    <3>3. QED BY <3>2, Twenty
  <2>2. m = 2 /\ n = 2
    BY <1>0, <1>4, <2>1, Lengths
  <2>3. QED BY <1>1, <2>2
<1>5. CASE k \in {12, 13}
  <2>1. i \in {12, 13}
    <3>1. Outputs[i][1] = "576"
      BY <1>1, <1>5, FirstWords
    <3>2. i \notin {1, 2, 3, 4, 5, 6, 7, 8, 9, 10, 11, 14, 15, 16, 17, 18, 19, 20}
      BY <3>1, FirstWords
    <3>3. QED BY <3>2, Twenty
  <2>2. m = 2 /\ n = 2
    BY <1>0, <1>5, <2>1, Lengths
  <2>3. QED BY <1>1, <2>2
<1>6. CASE k \in {10, 11, 15, 16}
  <2>1. i \in {10, 11, 15, 16}
    <3>1. Outputs[i][1] = "1080"
      BY <1>1, <1>6, FirstWords
    <3>2. i \notin {1, 2, 3, 4, 5, 6, 7, 8, 9, 12, 13, 14, 17, 18, 19, 20}
      BY <3>1, FirstWords
    <3>3. QED BY <3>2, Twenty
  <2>2. /\ Len(Outputs[10]) = 2 /\ Len(Outputs[11]) = 2
        /\ Len(Outputs[15]) = 3 /\ Len(Outputs[16]) = 3
    BY Lengths
  <2>3. i \in {10, 11} /\ k \in {15, 16}
    <3>1. i \in {15, 16} => m = 3
      BY <1>0, <2>2
    <3>2. i \in {10, 11} => m = 2
      BY <1>0, <2>2
    <3>3. k \in {10, 11} => n = 2
      BY <1>0, <2>2
    <3>4. QED BY <1>1, <1>6, <2>1, <3>1, <3>2, <3>3
  <2>4. m = 2
    BY <1>0, <2>2, <2>3
  <2>5. Outputs[k][3] = "50"
    BY <2>3, LaterWords
  <2>6. QED BY <1>0, <2>3, <2>4, <2>5
<1>7. CASE k \in {20}
  <2>1. i \in {17, 20}
    <3>1. Outputs[i][1] = "WXGA"
      BY <1>1, <1>7, FirstWords
    <3>2. i \notin {1, 2, 3, 4, 5, 6, 7, 8, 9, 10, 11, 12, 13, 14, 15, 16, 18, 19}
      BY <3>1, FirstWords
    <3>3. QED BY <3>2, Twenty
  <2>2. i = 17 \/ i = 20
    BY <2>1
  <2>3. Len(Outputs[17]) = 1 /\ Len(Outputs[20]) = 2
    BY Lengths
  <2>4. i = 17 /\ k = 20
    BY <1>0, <1>1, <1>7, <2>2, <2>3
  <2>5. m = 1 /\ Outputs[20][2] = "+"
    BY <1>0, <2>3, <2>4, LaterWords
  <2>6. m + 1 = 2
    BY <2>5
  <2>7. i < k /\ Outputs[k][m + 1] = "+"
    BY <2>4, <2>5, <2>6
  <2>8. QED BY <1>0, <2>7
<1>8. QED BY <1>2, <1>3, <1>4, <1>5, <1>6, <1>7

(* The outputs whose names an answer may be.                               *)
Hits(a) == {i \in 1..20 : Begins(Outputs[i], a) \/ Begins(a, Outputs[i])}

(* An answer is read as the last output whose name it may be.              *)
LEMMA ParseIs ==
    ASSUME NEW a \in Texts
    PROVE  ParseOutput(a) = IF Hits(a) = {} THEN -1 ELSE Max(Hits(a)) - 1
<1>1. Hits(a) = {i \in 1..Len(Outputs) : Matches(Outputs[i], a)}
  BY OutputsAre, MatchesIs DEF Hits
<1>2. QED BY <1>1 DEF ParseOutput

(* The last of the outputs whose names begin so is read, since those that  *)
(* match besides are shorter and stand before.                             *)
LEMMA ReadsPart ==
    ASSUME NEW o \in 1..20, NEW p \in Prefixes(Outputs[o]) \ {<<>>}
    PROVE  LET candidates == {i \in 1..Len(Outputs) : p \in Prefixes(Outputs[i])}
           IN  ParseOutput(p) = Max(candidates) - 1
<1> DEFINE candidates == {i \in 1..Len(Outputs) : p \in Prefixes(Outputs[i])}
<1>1. p \in Texts /\ Begins(p, Outputs[o])
  BY OutputsAre, PrefixIs
<1>2. candidates = {i \in 1..20 : Begins(p, Outputs[i])}
  BY <1>1, OutputsAre, PrefixIs
<1>3. candidates \subseteq Hits(p) /\ o \in candidates /\ Hits(p) \subseteq 1..20
  BY <1>1, <1>2 DEF Hits
<1> HIDE DEF candidates
<1>4. Max(candidates) \in candidates /\ \A y \in candidates : y <= Max(candidates)
  BY <1>3, LastIs
<1>5. ASSUME NEW i \in Hits(p) PROVE i <= Max(candidates)
  <2>1. CASE i \in candidates
    BY <1>4, <2>1
  <2>2. CASE i \notin candidates
    <3>1. Begins(Outputs[i], p) /\ ~Begins(p, Outputs[i]) /\ i \in 1..20
      BY <1>2, <2>2 DEF Hits
    <3>2. Begins(Outputs[i], Outputs[o]) /\ Len(Outputs[i]) < Len(Outputs[o])
      <4>1. PICK l, m, n : l = Len(Outputs[i]) /\ m = Len(p) /\ n = Len(Outputs[o])
        OBVIOUS
      <4>2. l \in Nat /\ m \in Nat /\ n \in Nat
        <5>1. l \in 1..3 /\ n \in 1..3
          BY <3>1, <4>1, OutputsAre
        <5>2. m \in Nat
          BY <1>1, <4>1 DEF Texts
        <5>3. QED BY <5>1, <5>2
      <4>3. l <= m /\ m <= n
        BY <1>1, <3>1, <4>1 DEF Begins
      <4>4. l # m
        BY <3>1, <4>1, <4>2 DEF Begins
      <4>5. QED BY <1>1, <3>1, <4>1, <4>2, <4>3, <4>4 DEF Begins
    <3>3. i < o
      BY <3>1, <3>2, LongerLater
    <3>4. o <= Max(candidates) /\ Max(candidates) \in 1..20
      BY <1>3, <1>4
    <3>5. QED BY <3>1, <3>3, <3>4
  <2>3. QED BY <2>1, <2>2
<1>6. Max(candidates) = Max(Hits(p))
  BY <1>3, <1>4, <1>5, LastIs
<1>7. ParseOutput(p) = Max(candidates) - 1
  BY <1>1, <1>3, <1>6, ParseIs
<1>8. QED BY <1>7 DEF candidates

(* With more text behind, the last output of exactly that name is read.    *)
LEMMA ReadsWhole ==
    ASSUME CleanTrailers, NEW o \in 1..20, NEW t \in ScTrailers
    PROVE  LET p == Outputs[o]
               candidates == {i \in 1..Len(Outputs) : p \in Prefixes(Outputs[i])}
           IN  ParseOutput(p \o t \o <<"STD">>) =
                 Max({i \in candidates : Outputs[i] \in Prefixes(p)}) - 1
<1> DEFINE p == Outputs[o]
           candidates == {i \in 1..Len(Outputs) : p \in Prefixes(Outputs[i])}
           named == {i \in candidates : Outputs[i] \in Prefixes(p)}
           a == p \o t \o <<"STD">>
<1>1. p \in Texts /\ t \in Texts /\ <<"STD">> \in Texts
  <2>1. p \in Texts /\ t \in Texts
    BY OutputsAre DEF CleanTrailers
  <2>2. "STD" \in Words
    BY DEF Words
  <2>3. QED BY <2>1, <2>2 DEF Texts
<1>2. named = {i \in 1..20 : Begins(p, Outputs[i]) /\ Begins(Outputs[i], p)}
  BY <1>1, OutputsAre, PrefixIs
<1>3. /\ a \in Texts /\ Len(a) > Len(p) /\ Len(p) \in Nat
      /\ \A j \in 1..Len(p) : a[j] = p[j]
      /\ a[Len(p) + 1] \notin {"50", "+"}
  <2>1. PICK u : u = t \o <<"STD">>
    OBVIOUS
  <2>2. /\ u \in Texts /\ Len(u) = Len(t) + 1 /\ Len(t) \in Nat
        /\ \A i \in 1..Len(t) + 1 : u[i] = IF i <= Len(t) THEN t[i] ELSE <<"STD">>[i - Len(t)]
    BY <1>1, <2>1, ConcatProperties DEF Texts
  <2>3. u[1] \notin {"50", "+"}
    <3>1. CASE t = <<>>
      BY <2>2, <3>1
    <3>2. CASE t # <<>>
      BY <1>1, <2>2, <3>2 DEF CleanTrailers, Texts
    <3>3. QED BY <3>1, <3>2
  <2>4. a = p \o u
    <3>1. (p \o t) \o <<"STD">> = p \o (t \o <<"STD">>)
      <4> HIDE DEF p
      <4>1. QED BY <1>1, ConcatAssociative DEF Texts
    <3>2. QED BY <2>1, <3>1
  <2>5. /\ a \in Texts /\ Len(a) = Len(p) + Len(u) /\ Len(p) \in Nat
        /\ \A i \in 1..Len(p) + Len(u) : a[i] = IF i <= Len(p) THEN p[i] ELSE u[i - Len(p)]
    <3> HIDE DEF p, a
    <3>1. /\ p \o u \in Seq(Words) /\ Len(p \o u) = Len(p) + Len(u)
          /\ \A i \in 1..Len(p) + Len(u) : (p \o u)[i] = IF i <= Len(p) THEN p[i] ELSE u[i - Len(p)]
      <4>1. p \in Seq(Words) /\ u \in Seq(Words)
        BY <1>1, <2>2 DEF Texts
      <4>2. QED BY <4>1, ConcatProperties
    <3>2. Len(p) \in Nat
      BY <1>1 DEF Texts
    <3>3. QED BY <2>4, <3>1, <3>2 DEF Texts
  <2> HIDE DEF p, a
  <2>6. QED BY <2>2, <2>3, <2>5
<1>4. Begins(p, a)
  <2> HIDE DEF p, a
  <2>1. QED BY <1>1, <1>3 DEF Begins, Texts
<1>5. Begins(p, p)
  BY <1>1 DEF Begins, Texts
<1>6. named \subseteq Hits(a) /\ o \in named /\ Hits(a) \subseteq 1..20
  <2>1. o \in named /\ Hits(a) \subseteq 1..20
    BY <1>2, <1>5 DEF Hits
  <2>2. ASSUME NEW i \in named PROVE i \in Hits(a)
    <3>1. i \in 1..20 /\ Begins(Outputs[i], p)
      BY <1>2, <2>2
    <3>2. Begins(Outputs[i], a)
      <4> HIDE DEF p, a
      <4>1. Len(Outputs[i]) \in Nat
        BY <3>1, OutputsAre
      <4>2. QED BY <1>3, <1>4, <3>1, <4>1 DEF Begins, Texts
    <3>3. QED BY <3>1, <3>2 DEF Hits
  <2>3. QED BY <2>1, <2>2
<1>7. ASSUME NEW i \in 1..20, Begins(p, Outputs[i]), Len(p) < Len(Outputs[i]) PROVE i \notin Hits(a)
  <2>1. Outputs[i][Len(p) + 1] \in {"50", "+"}
    BY <1>7, LongerLater
  <2>2. PICK l, m, n : l = Len(p) /\ m = Len(Outputs[i]) /\ n = Len(a)
    OBVIOUS
  <2>3. l \in Nat /\ m \in Nat /\ n \in Nat /\ l < m /\ l < n
    <3> HIDE DEF p, a
    <3>1. m \in 1..3
      BY <2>2, OutputsAre
    <3>2. QED BY <1>3, <1>7, <2>2, <3>1
  <2>4. l + 1 \in 1..m /\ l + 1 \in 1..n
    BY <2>3
  <2> HIDE DEF p, a
  <2>5. QED BY <1>3, <2>1, <2>2, <2>4 DEF Hits, Begins
<1>8. ASSUME NEW i \in Hits(a), i \notin named PROVE i < o
  <2>1. i \in 1..20 /\ ~(Begins(p, Outputs[i]) /\ Begins(Outputs[i], p))
    BY <1>2, <1>8 DEF Hits
  <2>2. PICK l, m, n : l = Len(p) /\ m = Len(Outputs[i]) /\ n = Len(a)
    OBVIOUS
  <2> HIDE DEF p, a
  <2>3. l \in Nat /\ m \in Nat /\ n \in Nat /\ l < n
    <3>1. m \in 1..3
      BY <2>1, <2>2, OutputsAre
    <3>2. QED BY <1>3, <2>2, <3>1
  <2>4. CASE m > l
    <3>1. \A j \in 1..l : Outputs[i][j] = a[j]
      BY <1>8, <2>2, <2>3, <2>4 DEF Hits, Begins
    <3>2. Begins(p, Outputs[i]) /\ Len(p) < Len(Outputs[i])
      BY <1>3, <2>2, <2>3, <2>4, <3>1 DEF Begins
    <3>3. QED BY <1>7, <1>8, <2>1, <3>2
  <2>5. CASE m <= l
    <3>1. \A j \in 1..m : Outputs[i][j] = a[j]
      BY <1>8, <2>2, <2>3, <2>5 DEF Hits, Begins
    <3>2. Begins(Outputs[i], p)
      BY <1>3, <2>2, <2>3, <2>5, <3>1 DEF Begins
    <3>3. m # l
      BY <2>1, <2>2, <2>3, <3>2 DEF Begins
    <3>4. m < l
      BY <2>3, <2>5, <3>3
    <3>5. QED BY <2>1, <2>2, <3>2, <3>4, LongerLater DEF p
  <2>6. QED BY <2>3, <2>4, <2>5
<1> HIDE DEF named, candidates, p, a
<1>9. Max(named) \in named /\ (\A y \in named : y <= Max(named)) /\ named \subseteq 1..20
  BY <1>6, LastIs
<1>10. ASSUME NEW i \in Hits(a) PROVE i <= Max(named)
  <2>1. i \in 1..20 /\ o <= Max(named) /\ Max(named) \in 1..20
    BY <1>6, <1>9
  <2>2. QED BY <1>8, <1>9, <2>1
<1>11. Max(named) = Max(Hits(a))
  BY <1>6, <1>9, <1>10, LastIs
<1>12. ParseOutput(a) = Max(named) - 1
  BY <1>3, <1>6, <1>11, ParseIs
<1>13. QED BY <1>12 DEF named, candidates, p, a

(* Every scaler whose trailer is clean is read as the table wants it.      *)
LEMMA TableIsRead ==
    ASSUME CleanTrailers, NEW t \in ScTrailers
    PROVE  ReadingAsLast[t]
<1>1. ASSUME NEW o \in 0..19 PROVE ReadAsLast(o, t)
  <2>1. o + 1 \in 1..20
    OBVIOUS
  <2>2. PICK s : s = o + 1
    OBVIOUS
  <2>3. ASSUME NEW p \in Prefixes(Outputs[s]) \ {<<>>}
        PROVE  LET candidates == {i \in 1..Len(Outputs) : p \in Prefixes(Outputs[i])}
               IN  ParseOutput(p) = Max(candidates) - 1
    BY <2>1, <2>2, ReadsPart
  <2>4. LET candidates == {i \in 1..Len(Outputs) : Outputs[s] \in Prefixes(Outputs[i])}
        IN  ParseOutput(Outputs[s] \o t \o <<"STD">>) =
              Max({i \in candidates : Outputs[i] \in Prefixes(Outputs[s])}) - 1
    BY <2>1, <2>2, ReadsWhole
  <2>5. QED BY <2>2, <2>3, <2>4, Zenon DEF ReadAsLast
<1>2. QED BY <1>1 DEF ReadingAsLast

-----------------------------------------------------------------------------
(* Types.                                                                  *)

ScRequests == {<<"R", x>> : x \in {"power", "source", "output", "size"}}
            \cup {<<"power", b>> : b \in BOOLEAN}
            \cup {<<"source", n>> : n \in 2..4}
            \cup {<<"output", n>> : n \in 0..19}

Scalers == [power : BOOLEAN, source : -1..4, output : -1..19, online : BOOLEAN]
Screens == [power : BOOLEAN, source : 0..4, output : 0..19]

ScInv ==
    /\ scaler \in Scalers /\ real \in Screens
    /\ hdmi \in [status : 0..4, online : BOOLEAN]
    /\ down \subseteq ScKeys
    /\ scLine \in Seq(ScRequests) /\ Len(scLine) <= ScQueueSize
    /\ hdLine \in Seq(0..4) /\ Len(hdLine) <= ScQueueSize
    /\ vidM \in ScFormats /\ trailer \in ScTrailers

(* Every answer is read as an index of the table or as none.               *)
LEMMA ReadsAre ==
    ASSUME NEW t \in ScTrailers
    PROVE  /\ \A o \in 0..19 : OutputRead[t][o] \in -1..19
           /\ \A s \in 0..4 : SourceRead[t][s] \in -1..4
<1>1. ASSUME NEW a PROVE ParseOutput(a) \in -1..19
  <2> DEFINE hits == {i \in 1..Len(Outputs) : Matches(Outputs[i], a)}
  <2>1. hits \in SUBSET (1..20)
    BY OutputsAre
  <2>2. ParseOutput(a) = IF hits = {} THEN -1 ELSE Max(hits) - 1
    BY DEF ParseOutput
  <2> HIDE DEF hits
  <2>3. hits # {} => Max(hits) \in 1..20
    BY <2>1, LastIs
  <2>4. QED BY <2>2, <2>3
<1>2. ASSUME NEW a PROVE ParseSource(a) \in -1..4
  <2> DEFINE hits == {i \in 1..Len(Sources) : Matches(Sources[i], a)}
  <2>1. Len(Sources) = 5
    BY DEF Sources
  <2>2. hits \in SUBSET (1..5)
    BY <2>1
  <2>3. ParseSource(a) = IF hits = {} THEN -1 ELSE Min(hits) - 1
    BY DEF ParseSource
  <2> HIDE DEF hits
  <2>4. hits # {} => Min(hits) \in 1..5
    <3>1. hits \in SUBSET Nat
      BY <2>2
    <3>2. QED BY <2>2, <3>1, LeastIs
  <2>5. QED BY <2>3, <2>4
<1>3. ASSUME NEW o \in 0..19 PROVE OutputRead[t][o] \in -1..19
  <2>1. OutputRead[t][o] = ParseOutput(Outputs[o + 1] \o t)
    BY DEF OutputRead
  <2>2. QED BY <1>1, <2>1
<1>4. ASSUME NEW s \in 0..4 PROVE SourceRead[t][s] \in -1..4
  <2>1. SourceRead[t][s] = ParseSource(Sources[s + 1] \o t)
    BY DEF SourceRead
  <2>2. QED BY <1>2, <2>1
<1>5. QED BY <1>3, <1>4

(* The formats of the switcher have outputs.                               *)
LEMMA FormatsAre == \A f \in ScFormats : OutputFor(f) \in 0..19
<1>1. ASSUME NEW f \in 0..7 PROVE OutputFor(f) \in 0..19
  <2>1. \/ f = 0 \/ f = 1 \/ f = 2 \/ f = 3 \/ f = 4 \/ f = 5 \/ f = 6 \/ f = 7
    OBVIOUS
  <2>2. QED BY <2>1 DEF OutputFor
<1>2. QED BY <1>1, ScalerAssumption

(* Whatever of the requests is sent, the line holds it.                    *)
LEMMA SendTypes ==
    ASSUME ScInv, NEW s \in Seq(ScRequests), Send(s)
    PROVE  scLine' \in Seq(ScRequests) /\ Len(scLine') <= ScQueueSize
<1>1. PICK l : l = scLine
  OBVIOUS
<1>2. l \in Seq(ScRequests) /\ Len(l) + Len(s) <= ScQueueSize /\ scLine' = l \o s
  BY <1>1 DEF ScInv, Send
<1>3. QED BY <1>2, ConcatProperties

(* The requests of the scaler.                                             *)
LEMMA RequestsAre ==
    /\ \A x \in {"power", "source", "output", "size"} : <<"R", x>> \in ScRequests
    /\ \A b \in BOOLEAN : <<"power", b>> \in ScRequests
    /\ \A n \in 2..4 : <<"source", n>> \in ScRequests
    /\ \A n \in 0..19 : <<"output", n>> \in ScRequests
BY DEF ScRequests

(* Sequences of one and two requests.                                      *)
LEMMA FewRequests ==
    /\ <<>> \in Seq(ScRequests)
    /\ \A r \in ScRequests : <<r>> \in Seq(ScRequests)
    /\ \A r, q \in ScRequests : <<r, q>> \in Seq(ScRequests)
OBVIOUS

(* Nothing is in line at first.                                            *)
LEMMA ScalerInit == ScInit => ScInv
<1> SUFFICES ASSUME ScInit PROVE ScInv
  OBVIOUS
<1>1. scaler \in Scalers /\ real \in Screens /\ hdmi \in [status : 0..4, online : BOOLEAN]
  BY DEF ScInit, Scalers, Screens
<1>2. scLine \in Seq(ScRequests) /\ hdLine \in Seq(0..4) /\ Len(scLine) = 0 /\ Len(hdLine) = 0
  BY DEF ScInit
<1>3. QED BY <1>1, <1>2, ScalerAssumption DEF ScInit, ScInv

(* The keys of the switch.                                                 *)
LEMMA SwitchStep == ASSUME ScInv, Switch PROVE ScInv'
<1>1. \A i \in 1..4 : InputDown(i) \in Seq(0..4)
  <2>1. ASSUME NEW i \in 0..4 PROVE <<i>> \in Seq(0..4) /\ <<>> \in Seq(0..4)
    OBVIOUS
  <2>2. ASSUME NEW i \in 1..4 PROVE InputDown(i) \in Seq(0..4)
    <3>1. i \in 0..4
      OBVIOUS
    <3>2. <<i>> \in Seq(0..4) /\ <<>> \in Seq(0..4)
      BY <2>1, <3>1
    <3>3. QED BY <3>2, Zenon DEF InputDown
  <2>3. QED BY <2>2
<1>2. InputsDown \in Seq(0..4)
  <2>1. InputDown(1) \o InputDown(2) \in Seq(0..4)
    BY <1>1, ConcatProperties
  <2>2. (InputDown(1) \o InputDown(2)) \o InputDown(3) \in Seq(0..4)
    BY <1>1, <2>1, ConcatProperties
  <2>3. ((InputDown(1) \o InputDown(2)) \o InputDown(3)) \o InputDown(4) \in Seq(0..4)
    BY <1>1, <2>2, ConcatProperties
  <2>4. QED BY <2>3 DEF InputsDown
<1>3. hdLine' \in Seq(0..4) /\ Len(hdLine') <= ScQueueSize
  <2>1. PICK l, s : l = hdLine /\ s = InputsDown
    OBVIOUS
  <2>2. l \in Seq(0..4) /\ s \in Seq(0..4) /\ Len(l) <= ScQueueSize /\ ScQueueSize \in Nat
    BY <1>2, <2>1, ScalerAssumption DEF ScInv
  <2>3. CASE hdLine' = l \o s /\ Len(l) + Len(s) <= ScQueueSize
    BY <2>2, <2>3, ConcatProperties
  <2>4. CASE hdLine' = l
    BY <2>2, <2>4
  <2>5. CASE hdLine' = Append(l, 0) /\ Len(l) < ScQueueSize
    <3>1. Append(l, 0) \in Seq(0..4) /\ Len(Append(l, 0)) = Len(l) + 1 /\ Len(l) \in Nat
      BY <2>2
    <3>2. QED BY <2>2, <2>5, <3>1
  <2>6. QED BY <2>1, <2>3, <2>4, <2>5 DEF Switch
<1>4. QED BY <1>3 DEF Switch, ScInv

(* The power key.                                                          *)
LEMMA PowerKeyStep == ASSUME ScInv, PowerKey PROVE ScInv'
<1>1. scaler.power \in BOOLEAN
  BY DEF ScInv, Scalers
<1>2. (IF scaler.online /\ <<"power", 0>> \in down
         THEN <<<<"power", ~scaler.power>>, <<"R", "power">>>> ELSE <<>>) \in Seq(ScRequests)
  <2>1. <<"power", ~scaler.power>> \in ScRequests /\ <<"R", "power">> \in ScRequests
    BY <1>1, RequestsAre
  <2>2. QED BY <2>1, FewRequests
<1>3. scLine' \in Seq(ScRequests) /\ Len(scLine') <= ScQueueSize
  BY <1>2, SendTypes DEF PowerKey
<1>4. QED BY <1>3 DEF PowerKey, ScInv, switch, scCounters

(* The keys of the sources.                                                *)
LEMMA SourceKeysStep == ASSUME ScInv, NEW u \in Updates, SourceKeys(u) PROVE ScInv'
<1>1. \A n \in 2..4 : SourceDown(n) \in Seq(ScRequests)
  <2>1. ASSUME NEW n \in 2..4 PROVE SourceDown(n) \in Seq(ScRequests)
    <3>1. <<"source", n>> \in ScRequests /\ <<"R", "source">> \in ScRequests
      BY RequestsAre
    <3>2. QED BY <3>1, FewRequests DEF SourceDown
  <2>2. QED BY <2>1
<1>2. SourceDown(3) \o SourceDown(4) \o SourceDown(2) \in Seq(ScRequests)
  <2>1. SourceDown(3) \o SourceDown(4) \in Seq(ScRequests)
    BY <1>1, ConcatProperties
  <2>2. QED BY <1>1, <2>1, ConcatProperties
<1>3. scLine' \in Seq(ScRequests) /\ Len(scLine') <= ScQueueSize
  BY <1>2, FewRequests, SendTypes DEF SourceKeys
<1>4. QED BY <1>3 DEF SourceKeys, ScInv, switch, scCounters

(* The regular updates.                                                    *)
LEMMA UpdateStep == ASSUME ScInv, NEW due \in BOOLEAN, Update(due) PROVE ScInv'
<1>1. /\ <<"R", "power">> \in ScRequests /\ <<"R", "source">> \in ScRequests
      /\ <<"R", "output">> \in ScRequests /\ <<"R", "size">> \in ScRequests
  BY RequestsAre
<1>2. UpdateRequests \in Seq(ScRequests) /\ <<<<"R", "power">>>> \in Seq(ScRequests)
  BY <1>1, FewRequests DEF UpdateRequests
<1>3. scLine' \in Seq(ScRequests) /\ Len(scLine') <= ScQueueSize
  <2>1. CASE Send(UpdateRequests)
    BY <1>2, <2>1, SendTypes
  <2>2. CASE Send(<<<<"R", "power">>>>)
    BY <1>2, <2>2, SendTypes
  <2>3. CASE UNCHANGED scLine
    BY <2>3 DEF ScInv
  <2>4. QED BY <2>1, <2>2, <2>3 DEF Update
<1>4. QED BY <1>3 DEF Update, ScInv, switch, scCounters

(* The format of the switcher is followed.                                 *)
LEMMA AdjustStep == ASSUME ScInv, Adjust PROVE ScInv'
<1>1. OutputFor(vidM) \in 0..19
  BY FormatsAre DEF ScInv
<1>2. (IF scaler.power /\ scaler.output # OutputFor(vidM)
         THEN <<<<"output", OutputFor(vidM)>>, <<"R", "output">>>> ELSE <<>>) \in Seq(ScRequests)
  <2>1. <<"output", OutputFor(vidM)>> \in ScRequests /\ <<"R", "output">> \in ScRequests
    BY <1>1, RequestsAre
  <2>2. QED BY <2>1, FewRequests
<1>3. scLine' \in Seq(ScRequests) /\ Len(scLine') <= ScQueueSize
  BY <1>2, SendTypes DEF Adjust
<1>4. QED BY <1>3 DEF Adjust, ScInv, switch, scCounters

(* The request at the head, and what is left when it is done.              *)
LEMMA HeadTypes ==
    ASSUME ScInv, scLine # <<>>, scLine' = Tail(scLine)
    PROVE  /\ Head(scLine) \in ScRequests
           /\ scLine' \in Seq(ScRequests) /\ Len(scLine') <= ScQueueSize
<1>1. PICK l : l = scLine
  OBVIOUS
<1>2. l \in Seq(ScRequests) /\ l # <<>> /\ Len(l) <= ScQueueSize /\ ScQueueSize \in Nat
  BY <1>1, ScalerAssumption DEF ScInv
<1>3. Head(l) \in ScRequests /\ Tail(l) \in Seq(ScRequests) /\ Len(Tail(l)) = Len(l) - 1 /\ Len(l) \in Nat
  BY <1>2
<1>4. QED BY <1>1, <1>2, <1>3

(* A command leaves the scaler in a state it has.                          *)
LEMMA DoneTypes ==
    ASSUME real \in Screens, NEW r \in ScRequests
    PROVE  Done(r) \in Screens
<1>1. CASE r \in {<<"R", x>> : x \in {"power", "source", "output", "size"}}
  BY <1>1 DEF Done
<1>2. CASE r \in {<<"power", b>> : b \in BOOLEAN}
  <2>1. PICK b \in BOOLEAN : r = <<"power", b>>
    BY <1>2
  <2>2. r[1] = "power" /\ r[2] = b
    BY <2>1
  <2>3. Done(r) = [real EXCEPT !["power"] = b]
    BY <2>2 DEF Done
  <2>4. QED BY <2>3 DEF Screens
<1>3. CASE r \in {<<"source", n>> : n \in 2..4}
  <2>1. PICK n \in 2..4 : r = <<"source", n>>
    BY <1>3
  <2>2. r[1] = "source" /\ r[2] = n
    BY <2>1
  <2>3. Done(r) = [real EXCEPT !["source"] = n]
    BY <2>2 DEF Done
  <2>4. QED BY <2>3 DEF Screens
<1>4. CASE r \in {<<"output", n>> : n \in 0..19}
  <2>1. PICK n \in 0..19 : r = <<"output", n>>
    BY <1>4
  <2>2. r[1] = "output" /\ r[2] = n
    BY <2>1
  <2>3. Done(r) = [real EXCEPT !["output"] = n]
    BY <2>2 DEF Done
  <2>4. QED BY <2>3 DEF Screens
<1>5. QED BY <1>1, <1>2, <1>3, <1>4 DEF ScRequests

(* An answer of the scaler.                                                *)
LEMMA ScAnswerStep == ASSUME ScInv, ScAnswer PROVE ScInv'
<1>1. /\ Head(scLine) \in ScRequests
      /\ scLine' \in Seq(ScRequests) /\ Len(scLine') <= ScQueueSize
  BY HeadTypes DEF ScAnswer
<1>2. real' \in Screens
  BY <1>1, DoneTypes DEF ScAnswer, ScInv
<1>3. scaler' \in Scalers
  <2>1. scaler \in Scalers /\ real \in Screens /\ trailer \in ScTrailers
    BY DEF ScInv
  <2>2. real.source \in 0..4 /\ real.output \in 0..19 /\ real.power \in BOOLEAN
    BY <2>1 DEF Screens
  <2>3. OutputRead[trailer][real.output] \in -1..19 /\ SourceRead[trailer][real.source] \in -1..4
    BY <2>1, <2>2, ReadsAre
  <2>4. scaler' = ReadAnswer(Head(scLine))
    BY DEF ScAnswer
  <2>5. QED BY <2>1, <2>2, <2>3, <2>4 DEF ReadAnswer, Scalers
<1>4. QED BY <1>1, <1>2, <1>3 DEF ScAnswer, ScInv, switch, scCounters

(* A request that fails.                                                   *)
LEMMA ScFailStep == ASSUME ScInv, ScFail PROVE ScInv'
<1>1. /\ Head(scLine) \in ScRequests
      /\ scLine' \in Seq(ScRequests) /\ Len(scLine') <= ScQueueSize
  BY HeadTypes DEF ScFail
<1>2. real' \in Screens
  BY <1>1, DoneTypes DEF ScFail, ScInv
<1>3. scaler' \in Scalers
  <2>1. PICK failure \in ScFaults : scaler' \in Misread(Head(scLine), failure)
    BY DEF ScFail
  <2>2. scaler \in Scalers
    BY DEF ScInv
  <2>3. \A f \in ScFormats : OutputFor(f) \in -1..19
    BY FormatsAre
  <2>4. \/ scaler' = scaler
        \/ scaler' = [scaler EXCEPT !.online = FALSE]
        \/ scaler' = [scaler EXCEPT !.power = FALSE]
        \/ scaler' = [scaler EXCEPT !.source = -1]
        \/ \E i \in -1..19 : scaler' = [scaler EXCEPT !.output = i]
    BY <2>1, <2>3 DEF Misread
  <2>5. CASE \/ scaler' = scaler
             \/ scaler' = [scaler EXCEPT !.online = FALSE]
             \/ scaler' = [scaler EXCEPT !.power = FALSE]
    BY <2>2, <2>5 DEF Scalers
  <2>6. CASE scaler' = [scaler EXCEPT !.source = -1]
    BY <2>2, <2>6 DEF Scalers
  <2>7. CASE \E i \in -1..19 : scaler' = [scaler EXCEPT !.output = i]
    <3>1. PICK i \in -1..19 : scaler' = [scaler EXCEPT !.output = i]
      BY <2>7
    <3>2. QED BY <2>2, <3>1 DEF Scalers
  <2>8. QED BY <2>4, <2>5, <2>6, <2>7
<1>4. QED BY <1>1, <1>2, <1>3 DEF ScFail, ScInv, switch

(* An answer of the switch, or none.                                       *)
LEMMA HdStep == ASSUME ScInv, HdAnswer \/ HdFail PROVE ScInv'
<1>1. PICK done \in BOOLEAN, ok \in BOOLEAN, online \in BOOLEAN : hdLine # <<>> /\ HdRecv(done, ok, online)
  <2>1. hdmi.online \in BOOLEAN
    BY DEF ScInv
  <2>2. QED BY <2>1 DEF HdAnswer, HdFail
<1>2. PICK l : l = hdLine
  OBVIOUS
<1>3. l \in Seq(0..4) /\ l # <<>> /\ Len(l) <= ScQueueSize /\ ScQueueSize \in Nat
  BY <1>1, <1>2, ScalerAssumption DEF ScInv
<1>4. Head(l) \in 0..4 /\ Tail(l) \in Seq(0..4) /\ Len(Tail(l)) = Len(l) - 1 /\ Len(l) \in Nat
  BY <1>3
<1>5. hdLine' \in Seq(0..4) /\ Len(hdLine') <= ScQueueSize
  BY <1>1, <1>2, <1>3, <1>4 DEF HdRecv
<1>6. hdmi' \in [status : 0..4, online : BOOLEAN]
  BY <1>1, <1>2, <1>4 DEF HdRecv, ScInv
<1>7. QED BY <1>5, <1>6 DEF HdAnswer, HdFail, ScInv, scCounters

(* Changes by hand and of the switcher's format.                           *)
LEMMA ByHandStep == ASSUME ScInv, ScByHand PROVE ScInv'
<1>1. real' \in Screens /\ vidM' \in ScFormats
  <2>1. real \in Screens /\ vidM \in ScFormats
    BY DEF ScInv
  <2>2. CASE real' = [real EXCEPT !.power = ~@] /\ UNCHANGED vidM
    <3>1. PICK b \in BOOLEAN : b = ~real.power
      OBVIOUS
    <3>2. real' = [real EXCEPT !.power = b]
      BY <2>2, <3>1
    <3>3. QED BY <2>1, <2>2, <3>2 DEF Screens
  <2>3. CASE real' = [real EXCEPT !.output = 9] /\ UNCHANGED vidM
    BY <2>1, <2>3 DEF Screens
  <2>4. CASE vidM' \in ScFormats \ {vidM} /\ UNCHANGED real
    BY <2>1, <2>4
  <2>5. QED BY <2>2, <2>3, <2>4 DEF ScByHand
<1>2. QED BY <1>1 DEF ScByHand, ScInv, switch

(* Every step keeps the invariant.                                         *)
LEMMA ScalerStep == ScInv /\ [ScNext]_scVars => ScInv'
<1> SUFFICES ASSUME ScInv, [ScNext]_scVars PROVE ScInv'
  OBVIOUS
<1>1. ASSUME NEW k \in ScKeys, ScPress(k) PROVE ScInv'
  BY <1>1 DEF ScPress, ScInv, switch
<1>2. CASE UNCHANGED scVars
  BY <1>2 DEF scVars, ScInv
<1>3. QED BY <1>1, <1>2, SwitchStep, PowerKeyStep, SourceKeysStep, UpdateStep, AdjustStep,
            ScAnswerStep, ScFailStep, HdStep, ByHandStep DEF ScNext

(* Whatever is pressed, lost, misread or changed, the mailbox has room for *)
(* what the main loop sends, what is read is an index of the tables or     *)
(* none, and of several outputs whose names an answer may be the last is   *)
(* read (lib/TvOneScaler.cpp, app/ScalerAndSwitchModule.cpp).              *)
THEOREM ScalerHolds == ASSUME CleanTrailers PROVE ScSpec => []ScSound
<1>1. ScInv => ScSound
  <2> SUFFICES ASSUME ScInv PROVE ScSound
    OBVIOUS
  <2>1. ScTypeOK
    BY DEF ScInv, ScTypeOK, Scalers, Screens
  <2>2. ReadsLast
    BY TableIsRead DEF ScInv, ReadsLast
  <2>3. QED BY <2>1, <2>2 DEF ScSound
<1>2. QED BY <1>1, ScalerInit, ScalerStep, PTL DEF ScSpec
=============================================================================
