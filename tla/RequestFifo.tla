----------------------------- MODULE RequestFifo -----------------------------
(***************************************************************************)
(* What the TCP adapter promises its clients, without connections, slots or*)
(* timers: requests are taken in order, leave in the same order, and the   *)
(* callback of a request runs at most once, at the moment it leaves.       *)
(***************************************************************************)
EXTENDS Integers, Sequences, Functions

CONSTANT N  \* number of requests made

VARIABLES
    pending,  \* requests taken and not finished, oldest first
    taken,    \* number of requests handed in so far
    calls     \* how often each callback ran

vars == <<pending, taken, calls>>

Init ==
    /\ pending = <<>>
    /\ taken = 0
    /\ calls = [m \in 1..N |-> 0]

(* The first k of line finish; those in answered are called back, the      *)
(* others are given up without a word.                                     *)
Finish(line, k, answered) ==
    /\ answered \subseteq Range(SubSeq(line, 1, k))
    /\ pending' = SubSeq(line, k + 1, Len(line))
    /\ calls' = [m \in 1..N |-> IF m \in answered THEN calls[m] + 1 ELSE calls[m]]

(* Some of the oldest requests finish, as when an answer arrives (one) or  *)
(* the connection is reset (all).                                          *)
Serve ==
    \E k \in 1..Len(pending) : \E answered \in SUBSET Range(SubSeq(pending, 1, k)) :
        Finish(pending, k, answered) /\ UNCHANGED taken

(* A request is taken; this may also be the moment older ones, or all of   *)
(* them, finish.                                                           *)
Take ==
    /\ taken < N
    /\ taken' = taken + 1
    /\ LET line == Append(pending, taken + 1)
       IN  \E k \in 0..Len(line) : \E answered \in SUBSET Range(SubSeq(line, 1, k)) :
               Finish(line, k, answered)

(* A request is turned away, or answered at once because it is empty.      *)
TurnAway ==
    /\ taken < N
    /\ taken' = taken + 1
    /\ \E k \in 0..Len(pending) :
         \E answered \in SUBSET Range(SubSeq(pending, 1, k)), empty \in SUBSET {taken + 1} :
             /\ pending' = SubSeq(pending, k + 1, Len(pending))
             /\ calls' = [m \in 1..N |->
                            IF m \in answered \cup empty THEN calls[m] + 1 ELSE calls[m]]

Next == Serve \/ Take \/ TurnAway

Spec == Init /\ [][Next]_vars
=============================================================================
