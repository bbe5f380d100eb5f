----------------------------- MODULE VideoMatrix -----------------------------
(***************************************************************************)
(* The keys that connect the inputs of the HDMI matrix to its outputs      *)
(* (app/VideoMatrix.cpp) and the matrix behind its adapter                 *)
(* (lib/MatrixSwitch.cpp).                                                 *)
(*                                                                         *)
(* Each request carries an object that the callback frees, or the caller   *)
(* when send() refuses the request.  The adapter finishes requests in      *)
(* order, but hands whatever bytes come to the request that is outstanding:*)
(* an answer that is late belongs to the next one, which is then believed  *)
(* before the matrix has carried it out, or although it never will.  The   *)
(* handlers of the adapter run as a whole here, except where a send() finds*)
(* it half way through a reset; TcpAdapterPreemption splits them further.  *)
(***************************************************************************)
EXTENDS Integers, Sequences, SequencesExt, FiniteSetsExt

CONSTANTS
    Outputs, Inputs,  \* 1..4 each
    MxMaxPress,       \* bound on key presses
    MxMaxFault        \* bound on faults of requests

VARIABLES
    keys,      \* presses the reader thread saw and run() did not take yet
    round,     \* output run() looks at next; the lamps come last
    mxLine,    \* requests in the adapter's mailbox, oldest first
    slot,      \* the request that was written and waits for its answer, if any
    status,    \* _status: the input of each output as far as it is known
    lamp,      \* the green lamp of each output, 0 if all are dim
    toMatrix,  \* commands the matrix has not carried out yet
    matrix,    \* the connections really made
    answers,   \* answers under way
    freed,     \* how often each inout object was freed
    closed,    \* the device has closed a connection
    mxPressed, mxFailed,  \* numbers of presses and of faults
    wanted,    \* history: input chosen last for an output
    last,      \* history: the request for it, 0 once something went wrong with it
    refused    \* history: objects of requests that a reset called back and refused

mxVars == <<keys, round, mxLine, slot, status, lamp, toMatrix, matrix, answers, freed, closed,
            mxPressed, mxFailed, wanted, last, refused>>
requests == <<mxLine, slot, freed, last>>
device == <<toMatrix, matrix, answers>>

Outs == 1..Outputs
Ins == 1..Inputs
Nothing == [o \in Outs |-> 0]

MxInit ==
    /\ keys = {} /\ round = 1
    /\ mxLine = <<>> /\ slot = {}
    /\ status = Nothing /\ lamp = Nothing
    /\ toMatrix = <<>> /\ matrix = [o \in Outs |-> 1] /\ answers = <<>>
    /\ freed = <<>>
    /\ closed = FALSE
    /\ mxPressed = 0 /\ mxFailed = 0
    /\ wanted = Nothing /\ last = Nothing /\ refused = {}

(* The requests without their callback yet.                                *)
Open == slot \cup ToSet(mxLine)

Fault == mxFailed < MxMaxFault /\ mxFailed' = mxFailed + 1

-----------------------------------------------------------------------------
(* The keys and VideoMatrix::run(), on the main thread.                    *)

Press(o, i) ==
    /\ mxPressed < MxMaxPress
    /\ mxPressed' = mxPressed + 1
    /\ keys' = keys \cup {<<o, i>>}
    /\ UNCHANGED <<round, requests, status, lamp, device, closed, mxFailed, wanted, refused>>

(* All keys of an output are looked at, which takes their presses; the     *)
(* last one wins.                                                          *)
Pressed(o) == {i \in Ins : <<o, i>> \in keys}

FirstPressed(o) ==  \* mutant: the loop stops at the first key
    IF Pressed(o) = {} THEN 0 ELSE Min(Pressed(o))

LastPressed(o) == IF Pressed(o) = {} THEN 0 ELSE Max(Pressed(o))

Freed(rs) == [k \in DOMAIN freed |-> IF \E r \in rs : r.id = k THEN freed[k] + 1 ELSE freed[k]]

(* Something goes wrong with these requests.                               *)
Spoilt(rs) == [o \in Outs |-> IF \E r \in rs : r.id = last[o] THEN 0 ELSE last[o]]

(* MatrixSwitch::setInput(): what send() makes of the new request.         *)
New == Len(freed) + 1

Taken(o, i) ==
    /\ mxLine' = Append(mxLine, [output |-> o, input |-> i, id |-> New])
    /\ freed' = Append(freed, 0)
    /\ last' = [last EXCEPT ![o] = New]
    /\ UNCHANGED <<slot, device, mxFailed, refused>>

(* There is no connection block: refused, and freed by the caller.         *)
RefusedLeak(o) ==  \* mutant: the refused request is not freed
    /\ Fault
    /\ freed' = Append(freed, 0)
    /\ last' = [last EXCEPT ![o] = 0]
    /\ UNCHANGED <<mxLine, slot, device, refused>>

Refused(o) ==
    /\ Fault
    /\ freed' = Append(freed, 1)
    /\ last' = [last EXCEPT ![o] = 0]
    /\ UNCHANGED <<mxLine, slot, device, refused>>

(* What a reset leaves: the requests are called back, and what is on the   *)
(* wire is lost.                                                           *)
Gone == mxLine' = <<>> /\ slot' = {} /\ toMatrix' = <<>> /\ answers' = <<>> /\ UNCHANGED matrix

(* The adapter is seen half way through a reset: it calls back all its     *)
(* requests, the new one too, and refuses it all the same, so that the     *)
(* caller frees what the callback has freed.                               *)
RefusedByReset(o) ==
    /\ closed
    /\ freed' = Append(Freed(Open), 1 + 1)
    /\ last' = [Spoilt(Open \cup ToSet(toMatrix)) EXCEPT ![o] = 0]
    /\ refused' = refused \cup {New}
    /\ Gone
    /\ UNCHANGED mxFailed

SetInput(o, i) == Taken(o, i) \/ Refused(o) \/ RefusedByReset(o)

(* The first loop of run(), one output.                                    *)
Choose(o) ==
    /\ round = o
    /\ round' = o + 1
    /\ keys' = keys \ ({o} \X Ins)
    /\ IF LastPressed(o) > 0
       THEN SetInput(o, LastPressed(o)) /\ wanted' = [wanted EXCEPT ![o] = Max(Pressed(o))]
       ELSE UNCHANGED <<requests, device, mxFailed, wanted, refused>>
    /\ UNCHANGED <<status, lamp, closed, mxPressed>>

(* The second loop of run(): the lamps of all outputs.                     *)
ShowShort ==  \* mutant: the loop is one output short
    /\ round = Outputs + 1
    /\ round' = 1
    /\ lamp' = [status EXCEPT ![Outputs] = lamp[Outputs]]
    /\ UNCHANGED <<keys, requests, status, device, closed, mxPressed, mxFailed, wanted, refused>>

Show ==
    /\ round = Outputs + 1
    /\ round' = 1
    /\ lamp' = status
    /\ UNCHANGED <<keys, requests, status, device, closed, mxPressed, mxFailed, wanted, refused>>

-----------------------------------------------------------------------------
(* The adapter and the callback _recv_cb(), on the lwIP thread.            *)

onPanel == <<keys, round, lamp, mxPressed, wanted, refused>>

(* The oldest request is written; it waits for its answer.                 *)
Transmit ==
    /\ slot = {} /\ mxLine # <<>>
    /\ slot' = {Head(mxLine)} /\ mxLine' = Tail(mxLine)
    /\ toMatrix' = Append(toMatrix, Head(mxLine))
    /\ UNCHANGED <<onPanel, status, matrix, answers, freed, closed, mxFailed, last>>

(* The request leaves; its callback stores the input if "Command OK" came, *)
(* whichever command that was the answer of.                               *)
RecvCb(r, result) ==
    /\ slot = {r}
    /\ slot' = {}
    /\ status' = IF result = "Command OK"
                  THEN [status EXCEPT ![r.output] = r.input]
                  ELSE status
    /\ freed' = Freed({r})
    /\ last' = IF result = "Command OK" THEN last ELSE Spoilt({r})

(* An answer comes while a request waits.                                  *)
Answer ==
    /\ answers # <<>> /\ answers' = Tail(answers)
    /\ \E r \in slot : RecvCb(r, Head(answers))
    /\ UNCHANGED <<onPanel, mxLine, toMatrix, matrix, closed, mxFailed>>

(* A late one comes while none waits or its bytes are not acknowledged yet.*)
Discard ==
    /\ answers # <<>> /\ answers' = Tail(answers)
    /\ slot = {} \/ toMatrix # <<>>
    /\ UNCHANGED <<onPanel, requests, status, toMatrix, matrix, closed, mxFailed>>

(* No answer within the timeout, for there is none or it is late.          *)
TimedOut ==
    /\ \E r \in slot : RecvCb(r, "none")
    /\ UNCHANGED <<onPanel, mxLine, device, closed>>

Silent == toMatrix = <<>> /\ answers = <<>> /\ TimedOut /\ UNCHANGED mxFailed

TooLate == Fault /\ TimedOut

(* The connection is lost, and the requests with it: every callback runs.  *)
Drop ==
    /\ Open # {} \/ toMatrix # <<>>
    /\ Fault
    /\ closed' \in {closed, TRUE}
    /\ freed' = Freed(Open)
    /\ last' = Spoilt(Open \cup ToSet(toMatrix))
    /\ Gone
    /\ UNCHANGED <<onPanel, status>>

-----------------------------------------------------------------------------
(* The matrix.                                                             *)

(* The next command arrives and is carried out.                            *)
Execute ==
    /\ toMatrix # <<>> /\ toMatrix' = Tail(toMatrix)
    /\ matrix' = [matrix EXCEPT ![Head(toMatrix).output] = Head(toMatrix).input]
    /\ answers' = Append(answers, "Command OK")
    /\ UNCHANGED <<onPanel, requests, status, closed, mxFailed>>

(* It is not carried out, or its answer is another one or none.            *)
Fail ==
    /\ toMatrix # <<>> /\ toMatrix' = Tail(toMatrix)
    /\ Fault
    /\ matrix' \in {matrix, [matrix EXCEPT ![Head(toMatrix).output] = Head(toMatrix).input]}
    /\ answers' \in {answers, Append(answers, "error")}
    /\ last' = Spoilt({Head(toMatrix)})
    /\ UNCHANGED <<onPanel, mxLine, slot, status, freed, closed>>

MxNext ==
    \/ \E o \in Outs, i \in Ins : Press(o, i)
    \/ \E o \in Outs : Choose(o)
    \/ Show
    \/ Transmit \/ Answer \/ Discard \/ Silent \/ TooLate \/ Drop
    \/ Execute \/ Fail

(* The main loop runs for ever; the adapter, its poll timer and the matrix *)
(* do not stop altogether.                                                 *)
Network == Transmit \/ Answer \/ Silent \/ Execute

MxFairness ==
    /\ \A o \in Outs : WF_mxVars(Choose(o))
    /\ WF_mxVars(Show) /\ WF_mxVars(Network)

MxSpec == MxInit /\ [][MxNext]_mxVars /\ MxFairness

-----------------------------------------------------------------------------
(* The type invariant of the keys, the object and the requests.            *)
MxTypeOK ==
    /\ keys \subseteq Outs \X Ins /\ round \in 1..Outputs + 1
    /\ status \in [Outs -> 0..Inputs] /\ lamp \in [Outs -> 0..Inputs]
    /\ \A r \in Open \cup ToSet(toMatrix) : r \in [output : Outs, input : Ins, id : DOMAIN freed]
    /\ \A r, s \in slot : r = s

(* Every inout object is freed once, by the callback or by the caller of a *)
(* refused send(), and not before, whatever the device closes or refuses.  *)
(* Those of a request that a reset called back and send() refused too are  *)
(* freed once more, and no others: setInput() cannot tell the two refusals *)
(* apart.                                                                  *)
FreedOnce ==
    \A id \in DOMAIN freed :
        freed[id] = IF \E r \in Open : r.id = id THEN 0 ELSE IF id \in refused THEN 2 ELSE 1

(* _recv_cb(): what is believed of an output is what was asked for last as *)
(* soon as no request for it is open, and what is connected as soon as no  *)
(* command for it is under way, unless something went wrong with the last  *)
(* one itself: answers taken for another request, and faults of others, do *)
(* not change that.                                                        *)
LampTruth ==
    \A o \in Outs :
        last[o] # 0 /\ (\A r \in Open : r.output # o) =>
            /\ status[o] = wanted[o]
            /\ (\A r \in ToSet(toMatrix) : r.output # o) => matrix[o] = wanted[o]

(* Whatever keys are pressed in whatever order, the choice made last for an*)
(* output is in the end connected and shown, or its request met a fault;   *)
(* then another press repairs it.                                          *)
Settles ==
    \A o \in Outs : <>[](last[o] # 0 => matrix[o] = wanted[o] /\ lamp[o] = wanted[o])

(* The matrix is sound: every object is freed as often as said, and what is*)
(* believed is what was asked for and is connected.                        *)
MatrixSound == MxTypeOK /\ FreedOnce /\ LampTruth
=============================================================================
