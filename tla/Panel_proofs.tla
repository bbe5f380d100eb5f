---------------------------- MODULE Panel_proofs ----------------------------
(***************************************************************************)
(* What MCPanel promises, for every number of outputs, inputs, keyers and  *)
(* lines and without the bounds of its run: the matrix (MatrixInv), the    *)
(* start and the display (MenuInv), the projector (ProjInv) and the keyers *)
(* (KeyerInv) each have an inductive invariant, a step lemma per action,   *)
(* and share nothing (PanelStep).                                          *)
(***************************************************************************)
EXTENDS MCPanel, Integers, Sequences, FiniteSetTheorems, WellFoundedInduction, TLAPS

(* A set of natural numbers that is not empty has a smallest one.          *)
LEMMA SmallestExists ==
    ASSUME NEW S \in SUBSET Nat, S # {}
    PROVE  \E x \in S : \A y \in S : x <= y
<1>1. IsWellFoundedOn(OpToRel(<, Nat), Nat)
  BY NatLessThanWellFounded
<1>2. PICK x \in S : \A y \in S : ~(<<y, x>> \in OpToRel(<, Nat))
  BY <1>1, WFMin
<1>3. ASSUME NEW y \in S PROVE x <= y
  <2>1. ~(y < x)
    BY <1>2 DEF OpToRel
  <2>2. x \in Nat /\ y \in Nat
    OBVIOUS
  <2>3. QED BY <2>1, <2>2
<1>4. QED BY <1>3

(* A set of numbers up to n that is not empty has a largest one.           *)
LEMMA LargestExists ==
    ASSUME NEW n \in Nat, NEW S \in SUBSET (0..n), S # {}
    PROVE  \E x \in S : \A y \in S : x >= y
<1> DEFINE T == {n - x : x \in S}
<1>1. T # {}
  OBVIOUS
<1>2. ASSUME NEW t \in T PROVE t \in Nat
  <2>1. PICK x \in S : t = n - x
    OBVIOUS
  <2>2. x \in 0..n
    OBVIOUS
  <2>3. QED BY <2>1, <2>2
<1>3. PICK t \in T : \A y \in T : t <= y
  <2>1. T \in SUBSET Nat
    BY <1>2
  <2>2. QED BY <1>1, <2>1, SmallestExists
<1>4. PICK x \in S : t = n - x
  OBVIOUS
<1>5. ASSUME NEW y \in S PROVE x >= y
  <2>1. n - x <= n - y
    BY <1>3, <1>4
  <2>2. x \in 0..n /\ y \in 0..n
    OBVIOUS
  <2>3. QED BY <2>1, <2>2
<1>6. QED BY <1>5

(* Max() of such a set is its largest element.                             *)
LEMMA MaxIs ==
    ASSUME NEW n \in Nat, NEW S \in SUBSET (0..n), S # {}
    PROVE  Matrix!Max(S) \in S /\ \A y \in S : Matrix!Max(S) >= y
BY LargestExists DEF Matrix!Max

-----------------------------------------------------------------------------
(* The matrix.                                                             *)

(* The types of its variables.                                             *)
Request == [output : Matrix!Outs, input : Matrix!Ins, id : Nat]

MatrixTypes ==
    /\ keys \subseteq Matrix!Outs \X Matrix!Ins /\ round \in 1..Outputs + 1
    /\ mxLine \in Seq(Request) /\ slot \subseteq Request /\ toMatrix \in Seq(Request)
    /\ status \in [Matrix!Outs -> 0..Inputs] /\ lamp \in [Matrix!Outs -> 0..Inputs]
    /\ matrix \in [Matrix!Outs -> Matrix!Ins]
    /\ freed \in Seq(Nat)
    /\ wanted \in [Matrix!Outs -> 0..Inputs] /\ last \in [Matrix!Outs -> Nat]

Waiting == Matrix!ToSet(mxLine)
Sent == Matrix!ToSet(toMatrix)

(* Requests are numbered as they were made; they wait, are written and are *)
(* carried out in this order.                                              *)
Rising(s) == \A j, k \in DOMAIN s : j < k => s[j].id < s[k].id

InOrder ==
    /\ Rising(mxLine) /\ Rising(toMatrix)
    /\ \A r, s \in slot : r = s
    /\ \A m \in Waiting, r \in slot \cup Sent : r.id < m.id

(* Every request has an object, which no reset has freed twice.            *)
OwnObject ==
    /\ \A r \in slot \cup Waiting \cup Sent : r.id \in DOMAIN freed \ refused
    /\ refused \subseteq DOMAIN freed
    /\ \A o \in Matrix!Outs : last[o] = 0 \/ last[o] \in DOMAIN freed

(* The request made last for an output asks for what was chosen last.      *)
LastIsWanted ==
    \A o \in Matrix!Outs : last[o] # 0 =>
        \A r \in slot \cup Waiting \cup Sent :
            /\ r.output = o => r.id <= last[o]
            /\ r.id = last[o] => r.output = o /\ r.input = wanted[o]

(* It has no callback yet, or it is believed and none for its output is    *)
(* open; its command is not carried out yet, or what it asks for is        *)
(* connected and no command for its output is left.                        *)
LastIsShown ==
    \A o \in Matrix!Outs : last[o] # 0 =>
        \/ \E r \in slot \cup Waiting : r.id = last[o]
        \/ status[o] = wanted[o] /\ \A r \in slot \cup Waiting : r.output # o

LastIsMade ==
    \A o \in Matrix!Outs : last[o] # 0 =>
        \/ \E r \in Waiting \cup Sent : r.id = last[o]
        \/ matrix[o] = wanted[o] /\ \A r \in Waiting \cup Sent : r.output # o

(* The inductive invariant of the matrix.                                  *)
MatrixInv == MatrixTypes /\ InOrder /\ OwnObject /\ LastIsWanted /\ LastIsShown /\ LastIsMade
             /\ Matrix!FreedOnce

LEMMA MatrixInvSound == MatrixInv => Matrix!MatrixSound
<1> SUFFICES ASSUME MatrixInv PROVE Matrix!MatrixSound
  OBVIOUS
<1>1. Waiting \subseteq Request /\ Sent \subseteq Request /\ Matrix!Open = slot \cup Waiting
  BY DEF MatrixInv, MatrixTypes, Waiting, Sent, Matrix!ToSet, Matrix!Open
<1>2. ASSUME NEW r \in Matrix!Open \cup Matrix!ToSet(toMatrix)
      PROVE  r \in [output : Matrix!Outs, input : Matrix!Ins, id : DOMAIN freed]
  <2>1. r \in Request /\ r.id \in DOMAIN freed
    BY <1>1, <1>2 DEF MatrixInv, MatrixTypes, OwnObject, Sent
  <2>2. QED BY <2>1 DEF Request
<1>3. Matrix!MxTypeOK
  BY <1>2 DEF MatrixInv, MatrixTypes, InOrder, Matrix!MxTypeOK
<1>4. Matrix!LampTruth
  BY <1>1 DEF MatrixInv, LastIsWanted, LastIsShown, LastIsMade, Sent, Matrix!LampTruth
<1>5. QED BY <1>3, <1>4 DEF MatrixInv, Matrix!MatrixSound

LEMMA MatrixInit == Matrix!MxInit => MatrixInv
<1> SUFFICES ASSUME Matrix!MxInit PROVE MatrixInv
  OBVIOUS
<1> USE PanelAssumption
<1>1. /\ 1 \in Matrix!Ins /\ 1 \in 1..Outputs + 1
      /\ Matrix!Nothing \in [Matrix!Outs -> 0..Inputs] /\ Matrix!Nothing \in [Matrix!Outs -> Nat]
      /\ \A o \in Matrix!Outs : Matrix!Nothing[o] = 0
  BY DEF Matrix!Ins, Matrix!Nothing
<1>2. /\ [o \in Matrix!Outs |-> 1] \in [Matrix!Outs -> Matrix!Ins]
      /\ <<>> \in Seq(Request) /\ <<>> \in Seq(Nat)
  BY <1>1
<1>3. MatrixTypes
  BY <1>1, <1>2 DEF MatrixTypes, Matrix!MxInit
<1>4. InOrder
  BY DEF InOrder, Rising, Waiting, Sent, Matrix!ToSet, Matrix!MxInit
<1>5. slot = {} /\ Waiting = {} /\ Sent = {} /\ refused = {}
  BY DEF Waiting, Sent, Matrix!ToSet, Matrix!MxInit
<1>6. \A o \in Matrix!Outs : last[o] = 0
  BY <1>1 DEF Matrix!MxInit
<1>7. OwnObject /\ LastIsWanted /\ LastIsShown /\ LastIsMade
  BY <1>5, <1>6 DEF OwnObject, LastIsWanted, LastIsShown, LastIsMade
<1>8. Matrix!FreedOnce
  BY DEF Matrix!FreedOnce, Matrix!MxInit
<1>9. QED BY <1>3, <1>4, <1>7, <1>8 DEF MatrixInv

(* What run() reads of the keys of an output: none, or the last key.       *)
LEMMA LastPressedIs ==
    ASSUME NEW o \in Matrix!Outs, Matrix!LastPressed(o) > 0
    PROVE  Matrix!LastPressed(o) \in Matrix!Ins /\ Matrix!LastPressed(o) = Matrix!Max(Matrix!Pressed(o))
<1> USE PanelAssumption
<1>1. Matrix!Pressed(o) # {}
  BY DEF Matrix!LastPressed
<1>2. Matrix!Pressed(o) \in SUBSET (0..Inputs)
  BY DEF Matrix!Pressed, Matrix!Ins
<1>3. Matrix!Max(Matrix!Pressed(o)) \in Matrix!Pressed(o)
  BY <1>1, <1>2, MaxIs
<1>4. QED BY <1>1, <1>3 DEF Matrix!LastPressed, Matrix!Pressed

(* Freed() of requests' objects keeps the others and their number.         *)
LEMMA FreedIs ==
    ASSUME freed \in Seq(Nat), NEW rs
    PROVE  /\ Matrix!Freed(rs) \in Seq(Nat)
           /\ DOMAIN Matrix!Freed(rs) = DOMAIN freed /\ Len(Matrix!Freed(rs)) = Len(freed)
           /\ \A k \in DOMAIN freed :
                 Matrix!Freed(rs)[k] = IF \E r \in rs : r.id = k THEN freed[k] + 1 ELSE freed[k]
<1>1. DOMAIN freed = 1..Len(freed) /\ Len(freed) \in Nat
  OBVIOUS
<1>2. Matrix!Freed(rs) \in [1..Len(freed) -> Nat]
  BY <1>1 DEF Matrix!Freed
<1>3. QED BY <1>1, <1>2 DEF Matrix!Freed

(* Spoilt() leaves the outputs whose last request is not among those.      *)
LEMMA SpoiltIs ==
    ASSUME last \in [Matrix!Outs -> Nat], NEW rs
    PROVE  /\ Matrix!Spoilt(rs) \in [Matrix!Outs -> Nat]
           /\ \A o \in Matrix!Outs : Matrix!Spoilt(rs)[o] # 0 =>
                 Matrix!Spoilt(rs)[o] = last[o] /\ \A r \in rs : r.id # last[o]
BY DEF Matrix!Spoilt

(* The first element of a sequence, and what is left of it.                *)
LEMMA TailIs ==
    ASSUME NEW T, NEW s \in Seq(T), s # <<>>
    PROVE  /\ Tail(s) \in Seq(T) /\ Head(s) = s[1] /\ s[1] \in T /\ 1 \in DOMAIN s
           /\ \A k \in DOMAIN s : k \in Nat \ {0}
           /\ \A k \in DOMAIN Tail(s) : k \in Nat \ {0} /\ k + 1 \in DOMAIN s /\ Tail(s)[k] = s[k + 1]
           /\ \A k \in DOMAIN s : k # 1 => k - 1 \in DOMAIN Tail(s) /\ Tail(s)[k - 1] = s[k]
OBVIOUS

LEMMA TailElements ==
    ASSUME NEW s \in Seq(Request), s # <<>>
    PROVE  /\ Head(s) \in Request /\ Matrix!ToSet(s) = {Head(s)} \cup Matrix!ToSet(Tail(s))
           /\ Rising(s) => Rising(Tail(s)) /\ \A r \in Matrix!ToSet(Tail(s)) : Head(s).id < r.id
<1>1. /\ Head(s) = s[1] /\ s[1] \in Request /\ 1 \in DOMAIN s
      /\ \A k \in DOMAIN s : k \in Nat \ {0}
      /\ \A k \in DOMAIN Tail(s) : k \in Nat \ {0} /\ k + 1 \in DOMAIN s /\ Tail(s)[k] = s[k + 1]
      /\ \A k \in DOMAIN s : k # 1 => k - 1 \in DOMAIN Tail(s) /\ Tail(s)[k - 1] = s[k]
  BY TailIs
<1>2. ASSUME NEW k \in DOMAIN s PROVE s[k] \in {Head(s)} \cup Matrix!ToSet(Tail(s))
  BY <1>1 DEF Matrix!ToSet
<1>3. ASSUME NEW k \in DOMAIN Tail(s) PROVE Tail(s)[k] \in Matrix!ToSet(s)
  BY <1>1 DEF Matrix!ToSet
<1>4. Matrix!ToSet(s) = {Head(s)} \cup Matrix!ToSet(Tail(s))
  BY <1>1, <1>2, <1>3 DEF Matrix!ToSet
<1>5. ASSUME Rising(s)
      PROVE  Rising(Tail(s)) /\ \A r \in Matrix!ToSet(Tail(s)) : Head(s).id < r.id
  <2>1. ASSUME NEW j \in DOMAIN Tail(s), NEW k \in DOMAIN Tail(s), j < k
        PROVE  Tail(s)[j].id < Tail(s)[k].id
    <3>1. j + 1 \in DOMAIN s /\ k + 1 \in DOMAIN s /\ j + 1 < k + 1
      BY <1>1, <2>1
    <3>2. s[j + 1].id < s[k + 1].id
      BY <1>5, <3>1 DEF Rising
    <3>3. QED BY <1>1, <3>2
  <2>2. ASSUME NEW k \in DOMAIN Tail(s) PROVE Head(s).id < Tail(s)[k].id
    <3>1. k + 1 \in DOMAIN s /\ 1 < k + 1
      BY <1>1
    <3>2. QED BY <1>1, <1>5, <3>1 DEF Rising
  <2>3. QED BY <2>1, <2>2 DEF Rising, Matrix!ToSet
<1>6. QED BY <1>1, <1>4, <1>5

LEMMA AppendIs ==
    ASSUME NEW T, NEW s \in Seq(T), NEW x \in T
    PROVE  /\ Append(s, x) \in Seq(T) /\ Append(s, x) # <<>>
           /\ DOMAIN Append(s, x) = DOMAIN s \cup {Len(s) + 1} /\ Len(s) + 1 \notin DOMAIN s
           /\ \A k \in DOMAIN s : Append(s, x)[k] = s[k] /\ k <= Len(s)
           /\ Append(s, x)[Len(s) + 1] = x
OBVIOUS

LEMMA AppendElements ==
    ASSUME NEW s \in Seq(Request), NEW x \in Request
    PROVE  /\ Append(s, x) \in Seq(Request)
           /\ Matrix!ToSet(Append(s, x)) = Matrix!ToSet(s) \cup {x}
           /\ Rising(s) /\ (\A r \in Matrix!ToSet(s) : r.id < x.id) => Rising(Append(s, x))
<1> DEFINE n == Len(s) + 1
<1>1. /\ Append(s, x) \in Seq(Request) /\ DOMAIN Append(s, x) = DOMAIN s \cup {n} /\ n \notin DOMAIN s
      /\ \A k \in DOMAIN s : Append(s, x)[k] = s[k] /\ k <= Len(s) /\ k \in Nat
      /\ Append(s, x)[n] = x /\ n \in Nat /\ Len(s) \in Nat
  BY AppendIs
<1>2. \A k \in DOMAIN s : k < n
  BY <1>1
<1> HIDE DEF n
<1>3. Matrix!ToSet(Append(s, x)) = Matrix!ToSet(s) \cup {x}
  BY <1>1 DEF Matrix!ToSet
<1>4. ASSUME Rising(s), \A r \in Matrix!ToSet(s) : r.id < x.id,
             NEW j \in DOMAIN Append(s, x), NEW k \in DOMAIN Append(s, x), j < k
      PROVE  Append(s, x)[j].id < Append(s, x)[k].id
  <2>1. j \in DOMAIN s
    <3>1. CASE j = n
      <4>1. k \in DOMAIN s \/ k = n
        BY <1>1
      <4>2. k \in Nat /\ k <= n
        BY <1>1, <1>2, <4>1
      <4>3. QED BY <1>1, <1>4, <3>1, <4>2
    <3>2. QED BY <1>1, <3>1
  <2>2. CASE k = n
    BY <1>1, <1>4, <2>1, <2>2 DEF Matrix!ToSet
  <2>3. CASE k \in DOMAIN s
    BY <1>1, <1>4, <2>1, <2>3 DEF Rising
  <2>4. QED BY <1>1, <2>2, <2>3
<1>5. QED BY <1>1, <1>3, <1>4 DEF Rising

(* What the requests under way are, and that their numbers are.            *)
LEMMA RequestsAre ==
    ASSUME MatrixInv
    PROVE  /\ Waiting \subseteq Request /\ Sent \subseteq Request /\ slot \subseteq Request
           /\ Matrix!Open = slot \cup Waiting
           /\ \A r \in Request : r.id \in Nat /\ r.output \in Matrix!Outs /\ r.input \in Matrix!Ins
<1>1. ASSUME NEW s \in Seq(Request) PROVE Matrix!ToSet(s) \subseteq Request
  BY <1>1 DEF Matrix!ToSet
<1>2. Waiting \subseteq Request /\ Sent \subseteq Request /\ slot \subseteq Request
  BY <1>1 DEF MatrixInv, MatrixTypes, Waiting, Sent
<1>3. Matrix!Open = slot \cup Waiting
  BY DEF Matrix!Open, Waiting
<1>4. QED BY <1>2, <1>3 DEF Request

(* What a step that leaves the requests, the connections and the choices   *)
(* alone has to show.                                                      *)
LEMMA MatrixSame ==
    ASSUME MatrixInv,
           UNCHANGED <<mxLine, slot, status, toMatrix, matrix, freed, wanted, last, refused>>,
           keys' \subseteq Matrix!Outs \X Matrix!Ins, round' \in 1..Outputs + 1,
           lamp' \in [Matrix!Outs -> 0..Inputs]
    PROVE  MatrixInv'
<1>1. Waiting' = Waiting /\ Sent' = Sent /\ Matrix!Open' = Matrix!Open
  BY DEF Waiting, Sent, Matrix!Open, Matrix!ToSet
<1>2. MatrixTypes' /\ InOrder' /\ OwnObject'
  BY <1>1 DEF MatrixInv, MatrixTypes, InOrder, Rising, OwnObject
<1>3. LastIsWanted' /\ LastIsShown' /\ LastIsMade'
  BY <1>1 DEF MatrixInv, LastIsWanted, LastIsShown, LastIsMade
<1>4. Matrix!FreedOnce'
  BY <1>1 DEF MatrixInv, Matrix!FreedOnce
<1>5. QED BY <1>2, <1>3, <1>4 DEF MatrixInv

LEMMA PressStep ==
    ASSUME MatrixInv, NEW o \in Matrix!Outs, NEW i \in Matrix!Ins, Matrix!Press(o, i)
    PROVE  MatrixInv'
<1>1. keys' \subseteq Matrix!Outs \X Matrix!Ins
  BY DEF MatrixInv, MatrixTypes, Matrix!Press
<1>2. QED
  BY <1>1, MatrixSame DEF MatrixInv, MatrixTypes, Matrix!Press, Matrix!device, Matrix!requests

LEMMA ShowStep ==
    ASSUME MatrixInv, Matrix!Show
    PROVE  MatrixInv'
<1>1. round' \in 1..Outputs + 1 /\ lamp' \in [Matrix!Outs -> 0..Inputs]
  BY PanelAssumption DEF MatrixInv, MatrixTypes, Matrix!Show
<1>2. QED
  BY <1>1, MatrixSame DEF MatrixInv, MatrixTypes, Matrix!Show, Matrix!device, Matrix!requests

LEMMA DiscardStep ==
    ASSUME MatrixInv, Matrix!Discard
    PROVE  MatrixInv'
BY MatrixSame DEF MatrixInv, MatrixTypes, Matrix!Discard, Matrix!onPanel, Matrix!requests

(* The oldest request moves from the mailbox to the wire.                  *)
LEMMA TransmitStep ==
    ASSUME MatrixInv, Matrix!Transmit
    PROVE  MatrixInv'
<1> DEFINE h == Head(mxLine)
<1>1. /\ slot = {} /\ mxLine # <<>> /\ mxLine \in Seq(Request) /\ toMatrix \in Seq(Request)
      /\ slot' = {h} /\ mxLine' = Tail(mxLine) /\ toMatrix' = Append(toMatrix, h)
      /\ UNCHANGED <<keys, round, lamp, wanted, refused, status, matrix, freed, last>>
  BY DEF MatrixInv, MatrixTypes, Matrix!Transmit, Matrix!onPanel
<1>2. /\ h \in Request /\ Waiting = {h} \cup Waiting' /\ mxLine' \in Seq(Request)
      /\ Rising(mxLine') /\ \A r \in Waiting' : h.id < r.id
  BY <1>1, TailIs, TailElements DEF MatrixInv, InOrder, Waiting
<1> HIDE DEF h
<1>3. toMatrix' \in Seq(Request) /\ Sent' = Sent \cup {h} /\ Rising(toMatrix')
  BY <1>1, <1>2, AppendElements DEF MatrixInv, InOrder, Sent
<1>4. slot' \cup Waiting' = slot \cup Waiting /\ Waiting' \cup Sent' = Waiting \cup Sent
  BY <1>1, <1>2, <1>3
<1>5. MatrixTypes' /\ InOrder'
  BY <1>1, <1>2, <1>3 DEF MatrixInv, MatrixTypes, InOrder
<1>6. OwnObject'
  BY <1>1, <1>4, <1>2, <1>3 DEF MatrixInv, OwnObject
<1>7. LastIsWanted'
  BY <1>1, <1>2, <1>3 DEF MatrixInv, LastIsWanted
<1>8. LastIsShown' /\ LastIsMade'
  BY <1>1, <1>4 DEF MatrixInv, LastIsShown, LastIsMade
<1>9. Matrix!FreedOnce'
  BY <1>1, <1>4 DEF MatrixInv, Matrix!FreedOnce, Matrix!Open, Waiting
<1>10. QED BY <1>5, <1>6, <1>7, <1>8, <1>9 DEF MatrixInv

(* What the callback of the written request changes, whatever it is told.  *)
LEMMA RecvCbIs ==
    ASSUME MatrixInv, NEW r \in slot, NEW result, Matrix!RecvCb(r, result)
    PROVE  /\ slot = {r} /\ slot' = {} /\ freed' = Matrix!Freed({r})
           /\ status' \in [Matrix!Outs -> 0..Inputs] /\ last' \in [Matrix!Outs -> Nat]
           /\ \A o \in Matrix!Outs : o # r.output => status'[o] = status[o]
           /\ \A o \in Matrix!Outs : last'[o] # 0 =>
                 last'[o] = last[o] /\ (r.id = last[o] => status'[r.output] = r.input)
<1>1. /\ r.output \in Matrix!Outs /\ r.input \in 0..Inputs
      /\ status \in [Matrix!Outs -> 0..Inputs] /\ last \in [Matrix!Outs -> Nat]
  BY RequestsAre, PanelAssumption DEF MatrixInv, MatrixTypes, Matrix!Ins
<1>2. slot = {r} /\ slot' = {} /\ freed' = Matrix!Freed({r})
  BY Zenon DEF Matrix!RecvCb
<1>3. \/ status' = [status EXCEPT ![r.output] = r.input] /\ last' = last
      \/ status' = status /\ last' = Matrix!Spoilt({r})
  BY Zenon DEF Matrix!RecvCb
<1>4. PICK o, i : o = r.output /\ i = r.input
  BY Zenon
<1>5. CASE status' = [status EXCEPT ![r.output] = r.input] /\ last' = last
  <2>1. status' = [status EXCEPT ![o] = i]
    BY <1>4, <1>5, Zenon
  <2>2. /\ status' \in [Matrix!Outs -> 0..Inputs] /\ status'[o] = i
        /\ \A p \in Matrix!Outs : p # o => status'[p] = status[p]
    BY <1>1, <1>4, <2>1
  <2>3. QED BY <1>1, <1>2, <1>4, <1>5, <2>2, Zenon
<1>6. CASE status' = status /\ last' = Matrix!Spoilt({r})
  BY <1>1, <1>2, <1>6, SpoiltIs
<1>7. QED BY <1>3, <1>5, <1>6

LEMMA RecvCbStep ==
    ASSUME MatrixInv, NEW r \in slot, slot = {r}, slot' = {}, freed' = Matrix!Freed({r}),
           status' \in [Matrix!Outs -> 0..Inputs], last' \in [Matrix!Outs -> Nat],
           \A o \in Matrix!Outs : o # r.output => status'[o] = status[o],
           \A o \in Matrix!Outs : last'[o] # 0 =>
                last'[o] = last[o] /\ (r.id = last[o] => status'[r.output] = r.input),
           UNCHANGED <<keys, round, lamp, wanted, refused, mxLine, toMatrix, matrix>>
    PROVE  MatrixInv'
<1>1. /\ Waiting \subseteq Request /\ Sent \subseteq Request /\ r \in Request
      /\ \A s \in Request : s.id \in Nat /\ s.output \in Matrix!Outs /\ s.input \in Matrix!Ins
      /\ Matrix!Open = slot \cup Waiting
  BY RequestsAre
<1>2. /\ Waiting' = Waiting /\ Sent' = Sent /\ Matrix!Open' = Waiting
      /\ \A m \in Waiting : r.id < m.id
  BY <1>1 DEF Matrix!Open, Waiting, Sent, MatrixInv, InOrder, Matrix!ToSet
<1>3. /\ freed' \in Seq(Nat) /\ DOMAIN freed' = DOMAIN freed
      /\ \A k \in DOMAIN freed : freed'[k] = IF r.id = k THEN freed[k] + 1 ELSE freed[k]
  <2>1. freed \in Seq(Nat)
    BY DEF MatrixInv, MatrixTypes
  <2>2. /\ freed' \in Seq(Nat) /\ DOMAIN freed' = DOMAIN freed
        /\ \A k \in DOMAIN freed :
              freed'[k] = IF \E s \in {r} : s.id = k THEN freed[k] + 1 ELSE freed[k]
    BY <2>1, FreedIs
  <2>3. QED BY <2>2
<1>4. MatrixTypes'
  BY <1>2, <1>3 DEF MatrixInv, MatrixTypes
<1>5. InOrder'
  BY <1>2 DEF MatrixInv, InOrder, Rising
<1>6. OwnObject'
  BY <1>1, <1>2, <1>3 DEF MatrixInv, OwnObject
<1>7. LastIsWanted'
  BY <1>1, <1>2 DEF MatrixInv, LastIsWanted
<1>8. LastIsShown'
  <2>1. ASSUME NEW o \in Matrix!Outs, last'[o] # 0
        PROVE  \/ \E s \in Waiting : s.id = last[o]
               \/ status'[o] = wanted[o] /\ \A s \in Waiting : s.output # o
    <3>1. last[o] # 0 /\ last[o] \in Nat /\ (r.id = last[o] => status'[r.output] = r.input)
      BY <2>1 DEF MatrixInv, MatrixTypes
    <3>2. /\ \A s \in slot \cup Waiting : s.output = o => s.id <= last[o]
          /\ r.id = last[o] => r.output = o /\ r.input = wanted[o]
      BY <3>1 DEF MatrixInv, LastIsWanted
    <3>3. \/ \E s \in slot \cup Waiting : s.id = last[o]
          \/ status[o] = wanted[o] /\ \A s \in slot \cup Waiting : s.output # o
      BY <3>1 DEF MatrixInv, LastIsShown
    <3>4. CASE r.id = last[o]
      <4>1. status'[o] = wanted[o]
        BY <3>1, <3>2, <3>4
      <4>2. \A s \in Waiting : s.output # o
        <5>1. ASSUME NEW s \in Waiting, s.output = o PROVE FALSE
          <6>1. s.id <= r.id /\ r.id < s.id /\ s.id \in Nat /\ r.id \in Nat
            BY <1>1, <1>2, <3>2, <3>4, <5>1
          <6>2. QED BY <6>1
        <5>2. QED BY <5>1
      <4>3. QED BY <4>1, <4>2
    <3>5. CASE r.id # last[o]
      BY <1>1, <3>3, <3>5
    <3>6. QED BY <3>4, <3>5
  <2>2. QED BY <1>2, <2>1 DEF LastIsShown
<1>9. LastIsMade'
  BY <1>2 DEF MatrixInv, LastIsMade
<1>10. Matrix!FreedOnce'
  <2>1. ASSUME NEW id \in DOMAIN freed
        PROVE  freed'[id] = IF \E s \in Waiting : s.id = id THEN 0 ELSE IF id \in refused THEN 2 ELSE 1
    <3>1. freed[id] = IF \E s \in slot \cup Waiting : s.id = id
                      THEN 0 ELSE IF id \in refused THEN 2 ELSE 1
      BY <1>1 DEF MatrixInv, Matrix!FreedOnce
    <3>2. CASE id = r.id
      <4>1. freed[id] = 0 /\ freed'[id] = freed[id] + 1
        BY <1>1, <1>3, <3>1, <3>2
      <4>2. ~\E s \in Waiting : s.id = id
        <5>1. ASSUME NEW s \in Waiting, s.id = id PROVE FALSE
          <6>1. r.id < s.id /\ s.id = r.id /\ r.id \in Nat
            BY <1>1, <1>2, <3>2, <5>1
          <6>2. QED BY <6>1
        <5>2. QED BY <5>1
      <4>3. id \notin refused
        BY <1>1, <3>2 DEF MatrixInv, OwnObject
      <4>4. QED BY <4>1, <4>2, <4>3
    <3>3. CASE id # r.id
      BY <1>1, <1>3, <3>1, <3>3
    <3>4. QED BY <3>2, <3>3
  <2>2. QED BY <1>2, <1>3, <2>1 DEF Matrix!FreedOnce
<1>11. QED BY <1>4, <1>5, <1>6, <1>7, <1>8, <1>9, <1>10 DEF MatrixInv

LEMMA AnswerStep ==
    ASSUME MatrixInv, Matrix!Answer
    PROVE  MatrixInv'
<1>1. PICK r \in slot : Matrix!RecvCb(r, Head(answers))
  BY DEF Matrix!Answer
<1>2. UNCHANGED <<keys, round, lamp, wanted, refused, mxLine, toMatrix, matrix>>
  BY DEF Matrix!Answer, Matrix!onPanel
<1>3. QED BY <1>1, <1>2, RecvCbIs, RecvCbStep

LEMMA TimedOutStep ==
    ASSUME MatrixInv, Matrix!TimedOut
    PROVE  MatrixInv'
<1>1. PICK r \in slot : Matrix!RecvCb(r, "none")
  BY DEF Matrix!TimedOut
<1>2. UNCHANGED <<keys, round, lamp, wanted, refused, mxLine, toMatrix, matrix>>
  BY DEF Matrix!TimedOut, Matrix!onPanel, Matrix!device
<1>3. QED BY <1>1, <1>2, RecvCbIs, RecvCbStep

(* The oldest command leaves the wire: it is carried out, or something went*)
(* wrong with it.                                                          *)
LEMMA CommandStep ==
    ASSUME MatrixInv, toMatrix # <<>>, toMatrix' = Tail(toMatrix),
           NEW t, t = Head(toMatrix),
           matrix' \in {matrix, [matrix EXCEPT ![t.output] = t.input]},
           \/ matrix' = [matrix EXCEPT ![t.output] = t.input] /\ last' = last
           \/ last' = Matrix!Spoilt({t}),
           UNCHANGED <<keys, round, lamp, wanted, refused, mxLine, slot, status, freed>>
    PROVE  MatrixInv'
<1>1. /\ Waiting \subseteq Request /\ Sent \subseteq Request /\ slot \subseteq Request
      /\ \A s \in Request : s.id \in Nat /\ s.output \in Matrix!Outs /\ s.input \in Matrix!Ins
  BY RequestsAre
<1>2. /\ t \in Request /\ Sent = {t} \cup Sent' /\ toMatrix' \in Seq(Request) /\ Rising(toMatrix')
      /\ \A r \in Sent' : t.id < r.id
  BY TailIs, TailElements DEF MatrixInv, MatrixTypes, InOrder, Sent
<1>3. \A r \in Waiting : t.id < r.id
  BY <1>2 DEF MatrixInv, InOrder
<1>4. Waiting' = Waiting /\ Matrix!Open' = Matrix!Open
  BY DEF Waiting, Matrix!Open, Matrix!ToSet
<1>5. /\ matrix' \in [Matrix!Outs -> Matrix!Ins]
      /\ \A o \in Matrix!Outs \ {t.output} : matrix'[o] = matrix[o]
      /\ matrix' = [matrix EXCEPT ![t.output] = t.input] => matrix'[t.output] = t.input
  BY <1>1, <1>2 DEF MatrixInv, MatrixTypes
<1>6. /\ last' \in [Matrix!Outs -> Nat]
      /\ \A o \in Matrix!Outs : last'[o] # 0 =>
            /\ last'[o] = last[o]
            /\ t.id = last[o] => matrix' = [matrix EXCEPT ![t.output] = t.input]
  BY SpoiltIs DEF MatrixInv, MatrixTypes
<1>7. MatrixTypes'
  BY <1>2, <1>5, <1>6 DEF MatrixInv, MatrixTypes
<1>8. InOrder'
  BY <1>2, <1>4 DEF MatrixInv, InOrder, Rising
<1>9. OwnObject'
  BY <1>2, <1>4, <1>6 DEF MatrixInv, OwnObject
<1>10. LastIsWanted' /\ LastIsShown'
  BY <1>2, <1>4, <1>6 DEF MatrixInv, LastIsWanted, LastIsShown
<1>11. LastIsMade'
  <2>1. ASSUME NEW o \in Matrix!Outs, last'[o] # 0
        PROVE  \/ \E s \in Waiting \cup Sent' : s.id = last[o]
               \/ matrix'[o] = wanted[o] /\ \A s \in Waiting \cup Sent' : s.output # o
    <3>1. /\ last[o] # 0 /\ last[o] \in Nat
          /\ t.id = last[o] => matrix' = [matrix EXCEPT ![t.output] = t.input]
      BY <1>6, <2>1 DEF MatrixInv, MatrixTypes
    <3>2. /\ \A s \in Waiting \cup Sent : s.output = o => s.id <= last[o]
          /\ t.id = last[o] => t.output = o /\ t.input = wanted[o]
      BY <1>2, <3>1 DEF MatrixInv, LastIsWanted
    <3>3. \/ \E s \in Waiting \cup Sent : s.id = last[o]
          \/ matrix[o] = wanted[o] /\ \A s \in Waiting \cup Sent : s.output # o
      BY <3>1 DEF MatrixInv, LastIsMade
    <3>4. CASE t.id = last[o]
      <4>1. matrix'[o] = wanted[o]
        BY <1>5, <3>1, <3>2, <3>4
      <4>2. ASSUME NEW s \in Waiting \cup Sent', s.output = o PROVE FALSE
        <5>1. s.id <= t.id /\ t.id < s.id /\ s.id \in Nat /\ t.id \in Nat
          BY <1>1, <1>2, <1>3, <3>2, <3>4, <4>2
        <5>2. QED BY <5>1
      <4>3. QED BY <4>1, <4>2
    <3>5. CASE t.id # last[o]
      <4>1. CASE \E s \in Waiting \cup Sent : s.id = last[o]
        BY <1>2, <3>5, <4>1
      <4>2. CASE matrix[o] = wanted[o] /\ \A s \in Waiting \cup Sent : s.output # o
        BY <1>2, <1>5, <4>2
      <4>3. QED BY <3>3, <4>1, <4>2
    <3>6. QED BY <3>4, <3>5
  <2>2. QED BY <1>4, <1>6, <2>1 DEF LastIsMade
<1>12. Matrix!FreedOnce'
  BY <1>4 DEF MatrixInv, Matrix!FreedOnce
<1>13. QED BY <1>7, <1>8, <1>9, <1>10, <1>11, <1>12 DEF MatrixInv

LEMMA ExecuteStep ==
    ASSUME MatrixInv, Matrix!Execute
    PROVE  MatrixInv'
<1>1. PICK t : t = Head(toMatrix)
  OBVIOUS
<1>2. /\ toMatrix # <<>> /\ toMatrix' = Tail(toMatrix) /\ last' = last
      /\ matrix' = [matrix EXCEPT ![t.output] = t.input]
      /\ UNCHANGED <<keys, round, lamp, wanted, refused, mxLine, slot, status, freed>>
  BY <1>1, Zenon DEF Matrix!Execute, Matrix!onPanel, Matrix!requests
<1>3. QED BY <1>1, <1>2, CommandStep, Zenon

LEMMA FailStep ==
    ASSUME MatrixInv, Matrix!Fail
    PROVE  MatrixInv'
BY CommandStep DEF Matrix!Fail, Matrix!onPanel

(* All requests are called back and gone, and the wire is empty.  What is  *)
(* still claimed of an output is no matter of theirs.                      *)
LEMMA AllGone ==
    ASSUME MatrixInv, Matrix!Gone, UNCHANGED status,
           NEW l, l \in [Matrix!Outs -> Nat], last' = l,
           \A o \in Matrix!Outs : l[o] # 0 =>
                /\ l[o] = last[o] /\ wanted'[o] = wanted[o]
                /\ \A r \in Matrix!Open \cup Matrix!ToSet(toMatrix) : r.id # last[o]
    PROVE  /\ mxLine' \in Seq(Request) /\ slot' \subseteq Request /\ toMatrix' \in Seq(Request)
           /\ matrix' \in [Matrix!Outs -> Matrix!Ins] /\ Matrix!Open' = {}
           /\ slot' \cup Waiting' \cup Sent' = {}
           /\ InOrder' /\ LastIsWanted' /\ LastIsShown' /\ LastIsMade'
<1>1. /\ mxLine' = <<>> /\ slot' = {} /\ toMatrix' = <<>> /\ matrix' = matrix
      /\ Waiting' = {} /\ Sent' = {} /\ Matrix!Open' = {}
  BY DEF Matrix!Gone, Waiting, Sent, Matrix!Open, Matrix!ToSet
<1>2. /\ mxLine' \in Seq(Request) /\ slot' \subseteq Request /\ toMatrix' \in Seq(Request)
      /\ matrix' \in [Matrix!Outs -> Matrix!Ins]
  BY <1>1 DEF MatrixInv, MatrixTypes
<1>3. InOrder' /\ LastIsWanted'
  BY <1>1 DEF InOrder, Rising, LastIsWanted
<1>4. Matrix!Open = slot \cup Waiting
  BY RequestsAre
<1>5. LastIsShown' /\ LastIsMade'
  BY <1>1, <1>4 DEF MatrixInv, LastIsShown, LastIsMade, Sent
<1>6. QED BY <1>1, <1>2, <1>3, <1>5

LEMMA DropStep ==
    ASSUME MatrixInv, Matrix!Drop
    PROVE  MatrixInv'
<1> DEFINE rs == Matrix!Open \cup Matrix!ToSet(toMatrix)
           l == Matrix!Spoilt(rs)
<1>1. /\ freed' = Matrix!Freed(Matrix!Open) /\ last' = l /\ Matrix!Gone
      /\ UNCHANGED <<keys, round, lamp, wanted, refused, status>>
  BY DEF Matrix!Drop, Matrix!onPanel
<1>2. /\ freed' \in Seq(Nat) /\ DOMAIN freed' = DOMAIN freed
      /\ \A k \in DOMAIN freed :
            freed'[k] = IF \E r \in Matrix!Open : r.id = k THEN freed[k] + 1 ELSE freed[k]
  BY <1>1, FreedIs DEF MatrixInv, MatrixTypes
<1>3. /\ l \in [Matrix!Outs -> Nat]
      /\ \A o \in Matrix!Outs : l[o] # 0 => l[o] = last[o] /\ \A r \in rs : r.id # last[o]
  BY SpoiltIs DEF MatrixInv, MatrixTypes
<1> HIDE DEF l
<1>4. /\ mxLine' \in Seq(Request) /\ slot' \subseteq Request /\ toMatrix' \in Seq(Request)
      /\ matrix' \in [Matrix!Outs -> Matrix!Ins] /\ Matrix!Open' = {}
      /\ slot' \cup Waiting' \cup Sent' = {}
      /\ InOrder' /\ LastIsWanted' /\ LastIsShown' /\ LastIsMade'
  BY <1>1, <1>3, AllGone
<1>5. MatrixTypes'
  BY <1>1, <1>2, <1>3, <1>4 DEF MatrixInv, MatrixTypes
<1>6. OwnObject'
  BY <1>1, <1>2, <1>3, <1>4 DEF MatrixInv, OwnObject
<1>7. Matrix!FreedOnce'
  <2>1. ASSUME NEW id \in DOMAIN freed
        PROVE  freed'[id] = IF id \in refused THEN 2 ELSE 1
    <3>1. freed[id] = IF \E r \in Matrix!Open : r.id = id
                      THEN 0 ELSE IF id \in refused THEN 2 ELSE 1
      BY DEF MatrixInv, Matrix!FreedOnce
    <3>2. (\E r \in Matrix!Open : r.id = id) => id \notin refused
      BY RequestsAre DEF MatrixInv, OwnObject
    <3>3. QED BY <1>2, <3>1, <3>2
  <2>2. QED BY <1>1, <1>2, <1>4, <2>1 DEF Matrix!FreedOnce
<1>8. QED BY <1>4, <1>5, <1>6, <1>7 DEF MatrixInv

(* A new request is taken: it is the last one for its output, with a new   *)
(* object.                                                                 *)
LEMMA TakenStep ==
    ASSUME MatrixInv, NEW o \in Matrix!Outs, NEW i \in Matrix!Ins, Matrix!Taken(o, i),
           wanted' = [wanted EXCEPT ![o] = i], UNCHANGED <<status>>
    PROVE  /\ mxLine' \in Seq(Request) /\ freed' \in Seq(Nat)
           /\ last' \in [Matrix!Outs -> Nat]
           /\ InOrder' /\ OwnObject' /\ LastIsWanted' /\ LastIsShown' /\ LastIsMade'
           /\ Matrix!FreedOnce'
<1> DEFINE n == Len(freed) + 1
           r == [output |-> o, input |-> i, id |-> n]
<1>1. /\ mxLine \in Seq(Request) /\ freed \in Seq(Nat) /\ last \in [Matrix!Outs -> Nat]
      /\ wanted \in [Matrix!Outs -> 0..Inputs]
  BY DEF MatrixInv, MatrixTypes
<1>2. /\ mxLine' = Append(mxLine, r) /\ freed' = Append(freed, 0)
      /\ last' = [last EXCEPT ![o] = n] /\ UNCHANGED <<slot, toMatrix, matrix, refused>>
  BY DEF Matrix!Taken, Matrix!New, Matrix!device
<1>3. /\ freed' \in Seq(Nat) /\ DOMAIN freed' = DOMAIN freed \cup {n} /\ n \notin DOMAIN freed
      /\ \A k \in DOMAIN freed : freed'[k] = freed[k] /\ k < n
      /\ freed'[n] = 0 /\ n \in Nat \ {0}
  BY <1>1, <1>2, AppendIs
<1>4. r \in Request /\ r.id = n /\ r.output = o /\ r.input = i
  BY <1>3 DEF Request
<1>5. /\ last' \in [Matrix!Outs -> Nat] /\ last'[o] = n /\ wanted'[o] = i
      /\ \A p \in Matrix!Outs \ {o} : last'[p] = last[p] /\ wanted'[p] = wanted[p]
  BY <1>1, <1>2, <1>3
<1> HIDE DEF n, r
<1>6. /\ Waiting \subseteq Request /\ Sent \subseteq Request /\ slot \subseteq Request
      /\ \A s \in Request : s.id \in Nat /\ s.output \in Matrix!Outs /\ s.input \in Matrix!Ins
      /\ Matrix!Open = slot \cup Waiting
  BY RequestsAre
<1>7. \A s \in slot \cup Waiting \cup Sent : s.id \in DOMAIN freed \ refused /\ s.id < n /\ s.id # n
  <2>1. \A s \in slot \cup Waiting \cup Sent : s.id \in DOMAIN freed \ refused
    BY DEF MatrixInv, OwnObject
  <2>2. QED BY <1>3, <2>1
<1>8. mxLine' \in Seq(Request) /\ Waiting' = Waiting \cup {r} /\ Rising(mxLine')
  BY <1>1, <1>2, <1>4, <1>7, AppendElements DEF MatrixInv, InOrder, Waiting
<1>9. Sent' = Sent /\ slot' = slot /\ Matrix!Open' = Matrix!Open \cup {r}
  BY <1>2, <1>6, <1>8 DEF Sent, Waiting, Matrix!Open, Matrix!ToSet
<1>10. InOrder'
  BY <1>2, <1>4, <1>7, <1>8, <1>9 DEF MatrixInv, InOrder, Rising
<1>11. OwnObject'
  BY <1>2, <1>3, <1>4, <1>5, <1>7, <1>8, <1>9 DEF MatrixInv, OwnObject
<1>12. LastIsWanted'
  <2>1. ASSUME NEW p \in Matrix!Outs, last'[p] # 0, NEW s \in slot \cup Waiting \cup Sent \cup {r}
        PROVE  /\ s.output = p => s.id <= last'[p]
               /\ s.id = last'[p] => s.output = p /\ s.input = wanted'[p]
    <3>1. CASE p = o
      <4>1. s.id <= n /\ (s.id = n => s = r)
        <5>1. CASE s = r
          BY <1>3, <1>4, <5>1
        <5>2. CASE s # r
          <6>1. s.id < n /\ s.id # n /\ s.id \in Nat
            BY <1>6, <1>7, <2>1, <5>2
          <6>2. QED BY <1>3, <6>1
        <5>3. QED BY <5>1, <5>2
      <4>2. QED BY <1>4, <1>5, <3>1, <4>1
    <3>2. CASE p # o
      <4>1. last'[p] = last[p] /\ wanted'[p] = wanted[p] /\ last[p] \in DOMAIN freed
        BY <1>5, <2>1, <3>2 DEF MatrixInv, OwnObject
      <4>2. CASE s = r
        BY <1>3, <1>4, <3>2, <4>1, <4>2
      <4>3. CASE s # r
        BY <2>1, <4>1, <4>3 DEF MatrixInv, LastIsWanted
      <4>4. QED BY <4>2, <4>3
    <3>3. QED BY <3>1, <3>2
  <2>2. QED BY <1>8, <1>9, <2>1 DEF LastIsWanted
<1>13. LastIsShown'
  <2>1. ASSUME NEW p \in Matrix!Outs, last'[p] # 0
        PROVE  \/ \E s \in slot \cup Waiting \cup {r} : s.id = last'[p]
               \/ status[p] = wanted'[p] /\ \A s \in slot \cup Waiting \cup {r} : s.output # p
    <3>1. CASE p = o
      BY <1>4, <1>5, <3>1
    <3>2. CASE p # o
      BY <1>4, <1>5, <2>1, <3>2 DEF MatrixInv, LastIsShown
    <3>3. QED BY <3>1, <3>2
  <2>2. QED BY <1>8, <1>9, <2>1 DEF LastIsShown
<1>14. LastIsMade'
  <2>1. ASSUME NEW p \in Matrix!Outs, last'[p] # 0
        PROVE  \/ \E s \in Waiting \cup {r} \cup Sent : s.id = last'[p]
               \/ matrix[p] = wanted'[p] /\ \A s \in Waiting \cup {r} \cup Sent : s.output # p
    <3>1. CASE p = o
      BY <1>4, <1>5, <3>1
    <3>2. CASE p # o
      BY <1>4, <1>5, <2>1, <3>2 DEF MatrixInv, LastIsMade
    <3>3. QED BY <3>1, <3>2
  <2>2. QED BY <1>2, <1>8, <1>9, <2>1 DEF LastIsMade
<1>15. Matrix!FreedOnce'
  <2>1. ASSUME NEW id \in DOMAIN freed \cup {n}
        PROVE  freed'[id] = IF \E s \in Matrix!Open \cup {r} : s.id = id
                            THEN 0 ELSE IF id \in refused THEN 2 ELSE 1
    <3>1. CASE id = n
      BY <1>3, <1>4, <3>1
    <3>2. CASE id # n
      <4>1. (\E s \in Matrix!Open \cup {r} : s.id = id) <=> (\E s \in Matrix!Open : s.id = id)
        BY <1>4, <3>2
      <4>2. freed'[id] = freed[id] /\ id \in DOMAIN freed
        BY <1>3, <2>1, <3>2
      <4>3. QED BY <4>1, <4>2 DEF MatrixInv, Matrix!FreedOnce
    <3>3. QED BY <3>1, <3>2
  <2>2. QED BY <1>2, <1>3, <1>9, <2>1 DEF Matrix!FreedOnce
<1>16. QED BY <1>3, <1>5, <1>8, <1>10, <1>11, <1>12, <1>13, <1>14, <1>15

(* A refused request is freed by the caller, and nothing is claimed of its *)
(* output until the next choice.                                           *)
LEMMA RefusedStep ==
    ASSUME MatrixInv, NEW o \in Matrix!Outs, NEW i \in Matrix!Ins, Matrix!Refused(o),
           wanted' = [wanted EXCEPT ![o] = i], UNCHANGED <<status>>
    PROVE  /\ freed' \in Seq(Nat) /\ last' \in [Matrix!Outs -> Nat]
           /\ InOrder' /\ OwnObject' /\ LastIsWanted' /\ LastIsShown' /\ LastIsMade'
           /\ Matrix!FreedOnce'
<1> DEFINE n == Len(freed) + 1
<1>1. /\ freed \in Seq(Nat) /\ last \in [Matrix!Outs -> Nat]
      /\ wanted \in [Matrix!Outs -> 0..Inputs]
  BY DEF MatrixInv, MatrixTypes
<1>2. /\ freed' = Append(freed, 1) /\ last' = [last EXCEPT ![o] = 0]
      /\ UNCHANGED <<mxLine, slot, toMatrix, matrix, refused>>
  BY DEF Matrix!Refused, Matrix!device
<1>3. /\ freed' \in Seq(Nat) /\ DOMAIN freed' = DOMAIN freed \cup {n} /\ n \notin DOMAIN freed
      /\ \A k \in DOMAIN freed : freed'[k] = freed[k]
      /\ freed'[n] = 1
  BY <1>1, <1>2, AppendIs
<1>4. /\ last' \in [Matrix!Outs -> Nat]
      /\ \A p \in Matrix!Outs : last'[p] # 0 =>
            p # o /\ last'[p] = last[p] /\ wanted'[p] = wanted[p]
  BY <1>1, <1>2
<1> HIDE DEF n
<1>5. /\ Waiting' = Waiting /\ Sent' = Sent /\ Matrix!Open' = Matrix!Open
      /\ Matrix!Open = slot \cup Waiting
  BY <1>2, RequestsAre DEF Waiting, Sent, Matrix!Open, Matrix!ToSet
<1>6. InOrder'
  BY <1>2, <1>5 DEF MatrixInv, InOrder, Rising
<1>7. OwnObject'
  BY <1>2, <1>3, <1>4, <1>5 DEF MatrixInv, OwnObject
<1>8. LastIsWanted' /\ LastIsShown' /\ LastIsMade'
  BY <1>2, <1>4, <1>5 DEF MatrixInv, LastIsWanted, LastIsShown, LastIsMade
<1>9. Matrix!FreedOnce'
  <2>1. n \notin refused /\ \A r \in Matrix!Open : r.id # n
    BY <1>3, <1>5 DEF MatrixInv, OwnObject
  <2>2. QED BY <1>2, <1>3, <1>5, <2>1 DEF MatrixInv, Matrix!FreedOnce
<1>10. QED BY <1>3, <1>4, <1>6, <1>7, <1>8, <1>9

(* A request that a reset finds in the mailbox is called back and refused. *)
LEMMA RefusedByResetStep ==
    ASSUME MatrixInv, NEW o \in Matrix!Outs, NEW i \in Matrix!Ins, Matrix!RefusedByReset(o),
           wanted' = [wanted EXCEPT ![o] = i], UNCHANGED <<status>>
    PROVE  /\ mxLine' \in Seq(Request) /\ slot' \subseteq Request /\ toMatrix' \in Seq(Request)
           /\ matrix' \in [Matrix!Outs -> Matrix!Ins]
           /\ freed' \in Seq(Nat) /\ last' \in [Matrix!Outs -> Nat]
           /\ InOrder' /\ OwnObject' /\ LastIsWanted' /\ LastIsShown' /\ LastIsMade'
           /\ Matrix!FreedOnce'
<1> DEFINE n == Len(freed) + 1
           rs == Matrix!Open \cup Matrix!ToSet(toMatrix)
           f == Matrix!Freed(Matrix!Open)
           l == [Matrix!Spoilt(rs) EXCEPT ![o] = 0]
<1>1. /\ freed \in Seq(Nat) /\ last \in [Matrix!Outs -> Nat]
      /\ wanted \in [Matrix!Outs -> 0..Inputs]
  BY DEF MatrixInv, MatrixTypes
<1>2. /\ freed' = Append(f, 1 + 1) /\ last' = l /\ refused' = refused \cup {n} /\ Matrix!Gone
  BY DEF Matrix!RefusedByReset, Matrix!New
<1>3. /\ f \in Seq(Nat) /\ DOMAIN f = DOMAIN freed /\ Len(f) = Len(freed)
      /\ \A k \in DOMAIN freed :
            f[k] = IF \E r \in Matrix!Open : r.id = k THEN freed[k] + 1 ELSE freed[k]
  BY <1>1, FreedIs
<1>4. /\ l \in [Matrix!Outs -> Nat]
      /\ \A p \in Matrix!Outs : l[p] # 0 =>
            p # o /\ l[p] = last[p] /\ \A r \in rs : r.id # last[p]
  <2>1. /\ Matrix!Spoilt(rs) \in [Matrix!Outs -> Nat]
        /\ \A p \in Matrix!Outs : Matrix!Spoilt(rs)[p] # 0 =>
              Matrix!Spoilt(rs)[p] = last[p] /\ \A r \in rs : r.id # last[p]
    BY <1>1, SpoiltIs
  <2> DEFINE s == Matrix!Spoilt(rs)
  <2> HIDE DEF s
  <2>2. l = [s EXCEPT ![o] = 0]
    BY DEF s
  <2>3. s \in [Matrix!Outs -> Nat] /\ \A p \in Matrix!Outs : s[p] # 0 =>
              s[p] = last[p] /\ \A r \in rs : r.id # last[p]
    BY <2>1 DEF s
  <2> HIDE DEF l, rs
  <2>4. QED BY <2>2, <2>3
<1> HIDE DEF f, l
<1>5. /\ freed' \in Seq(Nat) /\ DOMAIN freed' = DOMAIN freed \cup {n} /\ n \notin DOMAIN freed
      /\ \A k \in DOMAIN freed : freed'[k] = f[k]
      /\ freed'[n] = 2
  BY <1>1, <1>2, <1>3, AppendIs
<1> HIDE DEF n
<1>6. \A p \in Matrix!Outs : l[p] # 0 => wanted'[p] = wanted[p]
  BY <1>1, <1>4
<1>7. /\ mxLine' \in Seq(Request) /\ slot' \subseteq Request /\ toMatrix' \in Seq(Request)
      /\ matrix' \in [Matrix!Outs -> Matrix!Ins] /\ Matrix!Open' = {}
      /\ slot' \cup Waiting' \cup Sent' = {}
      /\ InOrder' /\ LastIsWanted' /\ LastIsShown' /\ LastIsMade'
  BY <1>2, <1>4, <1>6, AllGone
<1>8. OwnObject'
  BY <1>2, <1>4, <1>5, <1>7 DEF MatrixInv, OwnObject
<1>9. Matrix!FreedOnce'
  <2>1. ASSUME NEW id \in DOMAIN freed
        PROVE  freed'[id] = IF id \in refused' THEN 2 ELSE 1
    <3>1. freed[id] = IF \E r \in Matrix!Open : r.id = id
                      THEN 0 ELSE IF id \in refused THEN 2 ELSE 1
      BY DEF MatrixInv, Matrix!FreedOnce
    <3>2. (\E r \in Matrix!Open : r.id = id) => id \notin refused
      BY RequestsAre DEF MatrixInv, OwnObject
    <3>3. id # n
      BY <1>5, <2>1
    <3>4. QED BY <1>2, <1>3, <1>5, <3>1, <3>2, <3>3
  <2>2. QED BY <1>2, <1>5, <1>7, <2>1 DEF Matrix!FreedOnce
<1>10. QED BY <1>2, <1>4, <1>5, <1>7, <1>8, <1>9

(* One output in the first loop of run().                                  *)
LEMMA ChooseStep ==
    ASSUME MatrixInv, NEW o \in Matrix!Outs, Matrix!Choose(o)
    PROVE  MatrixInv'
<1> USE PanelAssumption
<1> DEFINE i == Matrix!LastPressed(o)
<1>1. keys' \subseteq Matrix!Outs \X Matrix!Ins /\ round' \in 1..Outputs + 1
  BY DEF Matrix!Choose, MatrixInv, MatrixTypes, Matrix!Outs
<1>2. UNCHANGED <<status, lamp>>
  BY DEF Matrix!Choose
<1>3. CASE ~(i > 0)
  <2>1. UNCHANGED <<mxLine, slot, freed, last, toMatrix, matrix, wanted, refused>>
    BY <1>3 DEF Matrix!Choose, Matrix!requests, Matrix!device
  <2>2. lamp' \in [Matrix!Outs -> 0..Inputs]
    BY <1>2 DEF MatrixInv, MatrixTypes
  <2>3. QED BY <1>1, <1>2, <2>1, <2>2, MatrixSame
<1>4. CASE i > 0
  <2>1. i \in Matrix!Ins /\ wanted' = [wanted EXCEPT ![o] = i] /\ Matrix!SetInput(o, i)
    BY <1>4, LastPressedIs DEF Matrix!Choose
  <2> HIDE DEF i
  <2>2. wanted' \in [Matrix!Outs -> 0..Inputs]
    <3>1. i \in 0..Inputs
      BY <2>1 DEF Matrix!Ins
    <3>2. QED BY <2>1, <3>1 DEF MatrixInv, MatrixTypes
  <2>3. CASE Matrix!Taken(o, i)
    <3>1. /\ mxLine' \in Seq(Request) /\ freed' \in Seq(Nat) /\ last' \in [Matrix!Outs -> Nat]
          /\ InOrder' /\ OwnObject' /\ LastIsWanted' /\ LastIsShown' /\ LastIsMade'
          /\ Matrix!FreedOnce'
      BY <1>2, <2>1, <2>3, TakenStep
    <3>2. UNCHANGED <<slot, toMatrix, matrix>>
      BY <2>3 DEF Matrix!Taken, Matrix!device
    <3>3. MatrixTypes'
      BY <1>1, <1>2, <2>2, <3>1, <3>2 DEF MatrixInv, MatrixTypes
    <3>4. QED BY <3>1, <3>3 DEF MatrixInv
  <2>4. CASE Matrix!Refused(o)
    <3>1. /\ freed' \in Seq(Nat) /\ last' \in [Matrix!Outs -> Nat]
          /\ InOrder' /\ OwnObject' /\ LastIsWanted' /\ LastIsShown' /\ LastIsMade'
          /\ Matrix!FreedOnce'
      BY <1>2, <2>1, <2>4, RefusedStep
    <3>2. UNCHANGED <<mxLine, slot, toMatrix, matrix>>
      BY <2>4 DEF Matrix!Refused, Matrix!device
    <3>3. MatrixTypes'
      BY <1>1, <1>2, <2>2, <3>1, <3>2 DEF MatrixInv, MatrixTypes
    <3>4. QED BY <3>1, <3>3 DEF MatrixInv
  <2>5. CASE Matrix!RefusedByReset(o)
    <3>1. /\ mxLine' \in Seq(Request) /\ slot' \subseteq Request /\ toMatrix' \in Seq(Request)
          /\ matrix' \in [Matrix!Outs -> Matrix!Ins]
          /\ freed' \in Seq(Nat) /\ last' \in [Matrix!Outs -> Nat]
          /\ InOrder' /\ OwnObject' /\ LastIsWanted' /\ LastIsShown' /\ LastIsMade'
          /\ Matrix!FreedOnce'
      BY <1>2, <2>1, <2>5, RefusedByResetStep
    <3>2. MatrixTypes'
      BY <1>1, <1>2, <2>2, <3>1 DEF MatrixInv, MatrixTypes
    <3>3. QED BY <3>1, <3>2 DEF MatrixInv
  <2>6. QED BY <2>1, <2>3, <2>4, <2>5 DEF Matrix!SetInput
<1>5. QED BY <1>3, <1>4

LEMMA MatrixStep == MatrixInv /\ [Matrix!MxNext]_(Matrix!mxVars) => MatrixInv'
<1> SUFFICES ASSUME MatrixInv, [Matrix!MxNext]_(Matrix!mxVars) PROVE MatrixInv'
  OBVIOUS
<1>1. ASSUME NEW o \in Matrix!Outs, NEW i \in Matrix!Ins, Matrix!Press(o, i) PROVE MatrixInv'
  BY <1>1, PressStep
<1>2. ASSUME NEW o \in Matrix!Outs, Matrix!Choose(o) PROVE MatrixInv'
  BY <1>2, ChooseStep
<1>3. CASE Matrix!Show
  BY <1>3, ShowStep
<1>4. CASE Matrix!Transmit
  BY <1>4, TransmitStep
<1>5. CASE Matrix!Answer
  BY <1>5, AnswerStep
<1>6. CASE Matrix!Discard
  BY <1>6, DiscardStep
<1>7. CASE Matrix!Silent \/ Matrix!TooLate
  BY <1>7, TimedOutStep DEF Matrix!Silent, Matrix!TooLate
<1>8. CASE Matrix!Drop
  BY <1>8, DropStep
<1>9. CASE Matrix!Execute
  BY <1>9, ExecuteStep
<1>10. CASE Matrix!Fail
  BY <1>10, FailStep
<1>11. CASE UNCHANGED Matrix!mxVars
  BY <1>11, MatrixSame DEF Matrix!mxVars, MatrixInv, MatrixTypes
<1>12. QED BY <1>1, <1>2, <1>3, <1>4, <1>5, <1>6, <1>7, <1>8, <1>9, <1>10, <1>11 DEF Matrix!MxNext

-----------------------------------------------------------------------------
(* The start and the display.                                              *)

LEMMA MenuMaxIs ==
    ASSUME NEW n \in Nat, NEW S \in SUBSET (0..n), S # {}
    PROVE  Menu!Max(S) \in S /\ \A y \in S : Menu!Max(S) >= y
BY LargestExists DEF Menu!Max

LEMMA MenuMinIs ==
    ASSUME NEW a \in Int, NEW b \in Int
    PROVE  Menu!Min({a, b}) = IF a <= b THEN a ELSE b
<1>1. CASE a <= b
  BY <1>1 DEF Menu!Min
<1>2. CASE ~(a <= b)
  BY <1>2 DEF Menu!Min
<1>3. QED BY <1>1, <1>2

(* The steps of main() on which the threads depend.                        *)
LEMMA ProgramIs ==
    /\ Len(Menu!Program) = 26
    /\ Menu!Program[1] = <<"begin", "hwModules">> /\ Menu!Program[2] = <<"begin", "menu">>
    /\ Menu!Program[13] = <<"begin", "camera">> /\ Menu!Program[15] = <<"begin", "displays">>
    /\ Menu!Program[19] = <<"begin", "atem">>
BY SMTT(30) DEF Menu!Program, Menu!StartBoards, Menu!StartDevices

LEMMA PublishedAt ==
    ASSUME NEW k \in 1..26, Menu!Program[k][1] = "publish"
    PROVE  <<k, Menu!Program[k][2]>> \in {<<4, "s_menu">>, <<9, "readerThread">>, <<11, "lwip">>,
               <<23, "blink_enable">>, <<25, "s_atem">>, <<26, "TimeCriticalThread">>}
BY SMTT(30) DEF Menu!Program, Menu!StartBoards, Menu!StartDevices

(* The types of the variables of the display.                              *)
MenuTypes ==
    /\ pc \in 1..28 /\ blinker \in [at : {"menu", "write", "first", "second"}, bank : Menu!Banks]
    /\ selected \in {"page", "log"} /\ box \subseteq Menu!Banks
    /\ frame \in [{"page", "log"} -> [Menu!Banks -> {"start", "page", "log"}]]
    /\ shows \in [Menu!Banks -> {"start", "page", "log"}]
    /\ logLine \in 0..MnLines /\ swapToMenu \in BOOLEAN /\ toggles \in 0..4
    /\ opened \in BOOLEAN /\ seen \in BOOLEAN

(* What main() has set up when it comes to a step, and how far it is when  *)
(* a thread can see a pointer.                                             *)
SetUpInOrder ==
    /\ pc > 1 => "hwModules" \in begun
    /\ pc > 2 => "menu" \in begun
    /\ pc > 13 => "camera" \in begun
    /\ pc > 15 => "displays" \in begun
    /\ pc > 19 => "atem" \in begun
    /\ "s_menu" \in published => pc > 4
    /\ "readerThread" \in published => pc > 9
    /\ "blink_enable" \in published => pc > 23
    /\ "s_atem" \in published => pc > 25
    /\ "TimeCriticalThread" \in published => pc > 26

(* A log that was opened while nothing was being written and is not on the *)
(* display yet is selected, and is being written for the first time: the   *)
(* banks so far show it.                                                   *)
OpenedIsWritten ==
    opened /\ ~seen =>
        /\ swapToMenu /\ selected = "log" /\ box = Menu!Banks
        /\ \A b \in Menu!Banks : frame["log"][b] = "log"
        /\ \/ toggles = 0 /\ blinker.at # "write"
           \/ /\ toggles = 1 /\ blinker.at = "write"
              /\ \A b \in Menu!Banks : b < blinker.bank => shows[b] = "log"

MenuInv == MenuTypes /\ SetUpInOrder /\ Menu!UsedWhenReady /\ OpenedIsWritten

LEMMA MenuInvSound == MenuInv => Menu!MnTypeOK /\ Menu!UsedWhenReady /\ Menu!OpenerSeen
<1> SUFFICES ASSUME MenuInv PROVE Menu!MnTypeOK /\ Menu!UsedWhenReady /\ Menu!OpenerSeen
  OBVIOUS
<1>1. Menu!MnTypeOK
  BY ProgramIs DEF MenuInv, MenuTypes, Menu!MnTypeOK
<1>2. Menu!OpenerSeen
  BY DEF MenuInv, MenuTypes, OpenedIsWritten, Menu!OpenerSeen
<1>3. QED BY <1>1, <1>2 DEF MenuInv

LEMMA MenuInit == Menu!MnInit => MenuInv
<1> SUFFICES ASSUME Menu!MnInit PROVE MenuInv
  OBVIOUS
<1>1. 0 \in Menu!Banks /\ 0 \in 0..MnLines
  BY PanelAssumption DEF Menu!Banks
<1>2. MenuTypes
  <2>1. /\ blinker \in [at : {"menu", "write", "first", "second"}, bank : Menu!Banks]
        /\ shows \in [Menu!Banks -> {"start", "page", "log"}]
        /\ frame \in [{"page", "log"} -> [Menu!Banks -> {"start", "page", "log"}]]
    BY <1>1 DEF Menu!MnInit
  <2>2. /\ pc \in 1..28 /\ selected \in {"page", "log"} /\ box \subseteq Menu!Banks
        /\ logLine \in 0..MnLines /\ swapToMenu \in BOOLEAN /\ toggles \in 0..4
        /\ opened \in BOOLEAN /\ seen \in BOOLEAN
    <3>1. swapToMenu = FALSE /\ opened = FALSE /\ seen = TRUE
      BY DEF Menu!MnInit
    <3>2. pc = 1 /\ selected = "page" /\ box = {} /\ logLine = 0 /\ toggles = 0
      BY DEF Menu!MnInit
    <3>3. swapToMenu \in BOOLEAN /\ opened \in BOOLEAN /\ seen \in BOOLEAN
      BY <3>1
    <3>4. pc \in 1..28 /\ toggles \in 0..4 /\ box \subseteq Menu!Banks
      BY <3>2
    <3>5. QED BY <1>1, <3>2, <3>3, <3>4
  <2>3. QED BY <2>1, <2>2 DEF MenuTypes
<1>3. SetUpInOrder /\ Menu!UsedWhenReady /\ OpenedIsWritten
  BY DEF SetUpInOrder, Menu!UsedWhenReady, OpenedIsWritten, Menu!MnInit
<1>4. QED BY <1>2, <1>3 DEF MenuInv

(* A step of main() goes on by one.                                        *)
LEMMA StepIs ==
    ASSUME MenuInv, NEW kind, Menu!Step(kind)
    PROVE  pc \in 1..26 /\ pc' = pc + 1 /\ pc' \in 1..28 /\ Menu!Program[pc][1] = kind
BY ProgramIs DEF MenuInv, MenuTypes, Menu!Step

(* Only a step that sets something up adds what may be needed later.       *)
LEMMA OtherStepOrder ==
    ASSUME MenuInv, pc' = pc + 1, UNCHANGED <<begun, published>>,
           pc \in 1..26 => Menu!Program[pc][1] # "begin"
    PROVE  SetUpInOrder'
<1>1. pc \in 1..28 /\ SetUpInOrder
  BY DEF MenuInv, MenuTypes
<1>2. pc \notin {1, 2, 13, 15, 19}
  BY <1>1, ProgramIs
<1>3. QED BY <1>1, <1>2 DEF SetUpInOrder

LEMMA BeginStep ==
    ASSUME MenuInv, Menu!Begin
    PROVE  MenuInv'
<1>1. /\ pc \in 1..26 /\ pc' = pc + 1 /\ pc' \in 1..28 /\ Menu!Program[pc][1] = "begin"
      /\ begun' = begun \cup {Menu!Program[pc][2]}
      /\ UNCHANGED <<published, used, blinker, selected, frame, box, logLine, swapToMenu, toggles,
                     opened, news, shows, seen>>
  BY StepIs DEF Menu!Begin, Menu!screen
<1>2. MenuTypes'
  BY <1>1 DEF MenuInv, MenuTypes
<1>3. SetUpInOrder'
  <2>1. /\ pc = 1 => "hwModules" \in begun'
        /\ pc = 2 => "menu" \in begun'
        /\ pc = 13 => "camera" \in begun'
        /\ pc = 15 => "displays" \in begun'
        /\ pc = 19 => "atem" \in begun'
    BY <1>1, ProgramIs
  <2>2. begun \subseteq begun' /\ SetUpInOrder
    BY <1>1 DEF MenuInv
  <2>3. QED BY <1>1, <2>1, <2>2 DEF SetUpInOrder
<1>4. Menu!UsedWhenReady' /\ OpenedIsWritten'
  BY <1>1 DEF MenuInv, Menu!UsedWhenReady, OpenedIsWritten
<1>5. QED BY <1>2, <1>3, <1>4 DEF MenuInv

LEMMA PublishStep ==
    ASSUME MenuInv, Menu!Publish
    PROVE  MenuInv'
<1> DEFINE x == Menu!Program[pc][2]
<1>1. /\ pc \in 1..26 /\ pc' = pc + 1 /\ pc' \in 1..28 /\ Menu!Program[pc][1] = "publish"
      /\ published' = published \cup {x}
      /\ UNCHANGED <<begun, used, blinker, selected, frame, box, logLine, swapToMenu, toggles,
                     opened, news, shows, seen>>
  BY StepIs DEF Menu!Publish, Menu!screen
<1>2. <<pc, x>> \in {<<4, "s_menu">>, <<9, "readerThread">>, <<11, "lwip">>,
                     <<23, "blink_enable">>, <<25, "s_atem">>, <<26, "TimeCriticalThread">>}
  BY <1>1, PublishedAt
<1> HIDE DEF x
<1>3. MenuTypes'
  BY <1>1 DEF MenuInv, MenuTypes
<1>4. SetUpInOrder'
  <2>1. SetUpInOrder
    BY DEF MenuInv
  <2>2. QED BY <1>1, <1>2, <2>1 DEF SetUpInOrder
<1>5. Menu!UsedWhenReady' /\ OpenedIsWritten'
  BY <1>1 DEF MenuInv, Menu!UsedWhenReady, OpenedIsWritten
<1>6. QED BY <1>3, <1>4, <1>5 DEF MenuInv

(* MenuController::draw() on the display.                                  *)
LEMMA DrawIs ==
    ASSUME MenuInv, Menu!Draw, pc' \in 1..28, UNCHANGED <<blinker, shows, opened, seen>>
    PROVE  MenuTypes' /\ OpenedIsWritten'
<1> DEFINE p == [b \in Menu!Banks |-> "page"]
<1>1. /\ selected' \in {"page", "log"} /\ swapToMenu' \in BOOLEAN /\ UNCHANGED <<logLine, toggles>>
      /\ selected' = "page" \/ selected' = selected
  BY DEF Menu!Draw, MenuInv, MenuTypes
<1>2. \/ box' = Menu!Banks /\ frame' = [frame EXCEPT !["page"] = p]
      \/ UNCHANGED <<box, frame>>
  BY DEF Menu!Draw
<1>3. box' \subseteq Menu!Banks /\ frame' \in [{"page", "log"} -> [Menu!Banks -> {"start", "page", "log"}]]
  <2>1. p \in [Menu!Banks -> {"start", "page", "log"}]
    OBVIOUS
  <2> HIDE DEF p
  <2>2. QED BY <1>2, <2>1 DEF MenuInv, MenuTypes
<1>4. MenuTypes'
  BY <1>1, <1>3 DEF MenuInv, MenuTypes
<1>5. ASSUME opened, ~seen
      PROVE  UNCHANGED <<selected, swapToMenu, box, frame>>
  <2>1. swapToMenu /\ selected = "log" /\ toggles < 3 /\ toggles \in 0..4
    BY <1>5 DEF MenuInv, MenuTypes, OpenedIsWritten
  <2>2. ~(swapToMenu /\ toggles >= 3)
    BY <2>1
  <2>3. UNCHANGED <<swapToMenu, selected>>
    BY <2>2 DEF Menu!Draw
  <2>4. QED BY <2>1, <2>3 DEF Menu!Draw
<1>6. OpenedIsWritten'
  BY <1>1, <1>5 DEF MenuInv, OpenedIsWritten
<1>7. QED BY <1>4, <1>6

(* MenuController::log() on the display.                                   *)
LEMMA LogIs ==
    ASSUME MenuInv, Menu!Log, pc' \in 1..28, UNCHANGED <<blinker, shows>>
    PROVE  MenuTypes' /\ OpenedIsWritten'
<1> USE PanelAssumption
<1>1. CASE ~swapToMenu
  <2> DEFINE l == [b \in Menu!Banks |-> "log"]
  <2>1. /\ frame' = [frame EXCEPT !["log"] = l]
        /\ selected' = "log" /\ swapToMenu' = TRUE /\ box' = Menu!Banks
        /\ logLine' = 1 /\ toggles' = 0 /\ opened' = (blinker.at # "write") /\ seen' = FALSE
    BY <1>1 DEF Menu!Log, Menu!Writing
  <2>2. l \in [Menu!Banks -> {"start", "page", "log"}] /\ \A b \in Menu!Banks : l[b] = "log"
    OBVIOUS
  <2> HIDE DEF l
  <2>3. /\ frame' \in [{"page", "log"} -> [Menu!Banks -> {"start", "page", "log"}]]
        /\ frame'["log"] = l
    BY <2>1, <2>2 DEF MenuInv, MenuTypes
  <2>4. 1 \in 0..MnLines
    OBVIOUS
  <2>5. MenuTypes'
    <3>1. opened' \in BOOLEAN
      BY <2>1
    <3>2. logLine' \in 0..MnLines /\ toggles' \in 0..4
      BY <2>1, <2>4
    <3>3. QED BY <2>1, <2>3, <3>1, <3>2 DEF MenuInv, MenuTypes
  <2>6. OpenedIsWritten'
    BY <2>1, <2>2, <2>3 DEF OpenedIsWritten
  <2>7. QED BY <2>5, <2>6
<1>2. CASE swapToMenu
  <2> DEFINE l == IF logLine = MnLines THEN 0 ELSE logLine
  <2>1. /\ logLine' = l + 1 /\ box' = box \cup {l, l + 1}
        /\ UNCHANGED <<frame, selected, swapToMenu, toggles, opened, seen>>
    BY <1>2 DEF Menu!Log
  <2>2. l \in 0..MnLines - 1
    BY DEF MenuInv, MenuTypes
  <2> HIDE DEF l
  <2>3. l + 1 \in 0..MnLines /\ l \in Menu!Banks /\ l + 1 \in Menu!Banks
    BY <2>2 DEF Menu!Banks
  <2>4. MenuTypes'
    BY <2>1, <2>3 DEF MenuInv, MenuTypes
  <2>5. box = Menu!Banks => box' = Menu!Banks
    BY <2>1, <2>3
  <2>6. OpenedIsWritten'
    BY <2>1, <2>5 DEF MenuInv, OpenedIsWritten
  <2>7. QED BY <2>4, <2>6
<1>3. QED BY <1>1, <1>2 DEF MenuInv, MenuTypes

LEMMA DrawMenuStep ==
    ASSUME MenuInv, Menu!DrawMenu
    PROVE  MenuInv'
<1>1. /\ pc \in 1..26 /\ pc' = pc + 1 /\ pc' \in 1..28 /\ Menu!Program[pc][1] = "draw"
      /\ Menu!Draw /\ UNCHANGED <<begun, published, used, blinker, shows, opened, seen>>
  BY StepIs DEF Menu!DrawMenu
<1>2. MenuTypes' /\ OpenedIsWritten'
  BY <1>1, DrawIs
<1>3. SetUpInOrder'
  BY <1>1, OtherStepOrder
<1>4. QED BY <1>1, <1>2, <1>3 DEF MenuInv, Menu!UsedWhenReady

LEMMA RoundStep ==
    ASSUME MenuInv, Menu!Round
    PROVE  MenuInv'
<1>1. /\ pc > 26 /\ pc' = 27 /\ Menu!Draw
      /\ UNCHANGED <<begun, published, used, blinker, shows, opened, seen>>
  BY ProgramIs DEF Menu!Round
<1>2. MenuTypes' /\ OpenedIsWritten'
  BY <1>1, DrawIs
<1>3. SetUpInOrder'
  <2>1. SetUpInOrder /\ pc \in 1..28
    BY DEF MenuInv, MenuTypes
  <2>2. QED BY <1>1, <2>1 DEF SetUpInOrder
<1>4. QED BY <1>1, <1>2, <1>3 DEF MenuInv, Menu!UsedWhenReady

(* A message of the start, one about the migration, and one of the loop.   *)
LEMMA LogStep ==
    ASSUME MenuInv, Menu!LogStart \/ Menu!LogMigration \/ Menu!LogNews
    PROVE  MenuInv'
<1>1. Menu!Log /\ UNCHANGED <<begun, published, used, blinker, shows>>
  BY DEF Menu!LogStart, Menu!LogMigration, Menu!LogNews
<1>2. pc' \in 1..28 /\ SetUpInOrder'
  <2>1. CASE Menu!LogStart
    <3>1. /\ pc \in 1..26 /\ pc' = pc + 1 /\ pc' \in 1..28 /\ Menu!Program[pc][1] = "log"
      BY <2>1, StepIs DEF Menu!LogStart
    <3>2. QED BY <1>1, <3>1, OtherStepOrder
  <2>2. CASE Menu!LogMigration
    <3>1. UNCHANGED pc
      BY <2>2 DEF Menu!LogMigration
    <3>2. QED BY <1>1, <3>1 DEF MenuInv, MenuTypes, SetUpInOrder
  <2>3. CASE Menu!LogNews
    <3>1. pc = 27 /\ pc' = pc + 1
      BY <2>3, ProgramIs DEF Menu!LogNews
    <3>2. QED BY <1>1, <3>1, OtherStepOrder
  <2>4. QED BY <2>1, <2>2, <2>3
<1>3. MenuTypes' /\ OpenedIsWritten'
  BY <1>1, <1>2, LogIs
<1>4. QED BY <1>1, <1>2, <1>3 DEF MenuInv, Menu!UsedWhenReady

(* The box from the first bank to the last one that changed is all of the  *)
(* display when the log was opened.                                        *)
LEMMA BoxIs ==
    ASSUME box \subseteq Menu!Banks, box # {}
    PROVE  /\ 0..Menu!Max(box) \subseteq Menu!Banks
           /\ box = Menu!Banks => 0..Menu!Max(box) = Menu!Banks
<1> USE PanelAssumption
<1>1. box \in SUBSET (0..MnBanks)
  BY DEF Menu!Banks
<1>2. Menu!Max(box) \in box /\ \A b \in box : Menu!Max(box) >= b
  BY <1>1, MenuMaxIs
<1>3. Menu!Max(box) \in 0..MnBanks - 1
  BY <1>2 DEF Menu!Banks
<1>4. 0..Menu!Max(box) \subseteq Menu!Banks
  BY <1>3 DEF Menu!Banks
<1>5. ASSUME box = Menu!Banks PROVE Menu!Max(box) = MnBanks - 1
  BY <1>2, <1>3, <1>5 DEF Menu!Banks
<1>6. QED BY <1>4, <1>5 DEF Menu!Banks

LEMMA LiveToggleStep ==
    ASSUME MenuInv, Menu!LiveToggle
    PROVE  MenuInv'
<1>1. /\ blinker.at = "menu"
      /\ UNCHANGED <<pc, begun, published, selected, frame, shows, logLine, swapToMenu, opened, seen>>
  BY DEF Menu!LiveToggle
<1>2. SetUpInOrder'
  BY <1>1 DEF MenuInv, SetUpInOrder
<1>3. 0 \in Menu!Banks
  BY PanelAssumption DEF Menu!Banks
<1>4. CASE "s_menu" \in published
  <2>1. /\ used' = used \cup {"menu"} /\ blinker' = [at |-> "write", bank |-> 0]
        /\ box' = IF box = {} THEN {} ELSE 0..Menu!Max(box)
        /\ toggles' = Menu!Min({toggles + 1, 4})
    BY <1>4 DEF Menu!LiveToggle
  <2>2. toggles \in 0..4 /\ toggles' = IF toggles + 1 <= 4 THEN toggles + 1 ELSE 4
    BY <2>1, MenuMinIs DEF MenuInv, MenuTypes
  <2>3. box' \subseteq Menu!Banks /\ (box = Menu!Banks => box' = Menu!Banks)
    BY <1>3, <2>1, BoxIs DEF MenuInv, MenuTypes
  <2>4. MenuTypes'
    BY <1>1, <1>3, <2>1, <2>2, <2>3 DEF MenuInv, MenuTypes
  <2>5. Menu!UsedWhenReady'
    <3>1. "menu" \in begun
      BY <1>4 DEF MenuInv, MenuTypes, SetUpInOrder
    <3>2. QED BY <1>1, <2>1, <3>1 DEF MenuInv, Menu!UsedWhenReady
  <2>6. OpenedIsWritten'
    <3>1. blinker'.at = "write" /\ ~\E b \in Menu!Banks : b < blinker'.bank
      BY <2>1 DEF Menu!Banks
    <3>2. ASSUME opened, ~seen PROVE toggles' = 1
      BY <1>1, <2>2, <3>2 DEF MenuInv, OpenedIsWritten
    <3>3. QED BY <1>1, <2>3, <3>1, <3>2 DEF MenuInv, OpenedIsWritten
  <2>7. QED BY <1>2, <2>4, <2>5, <2>6 DEF MenuInv
<1>5. CASE "s_menu" \notin published
  <2>1. blinker' = [blinker EXCEPT !.at = "first"] /\ UNCHANGED <<used, box, toggles>>
    BY <1>5 DEF Menu!LiveToggle
  <2>2. /\ blinker' \in [at : {"menu", "write", "first", "second"}, bank : Menu!Banks]
        /\ blinker'.at = "first"
    BY <2>1 DEF MenuInv, MenuTypes
  <2>3. MenuTypes' /\ Menu!UsedWhenReady'
    BY <1>1, <2>1, <2>2 DEF MenuInv, MenuTypes, Menu!UsedWhenReady
  <2>4. OpenedIsWritten'
    BY <1>1, <2>1, <2>2 DEF MenuInv, OpenedIsWritten
  <2>5. QED BY <1>2, <2>3, <2>4 DEF MenuInv
<1>6. QED BY <1>4, <1>5

LEMMA WriteBankStep ==
    ASSUME MenuInv, Menu!WriteBank
    PROVE  MenuInv'
<1> DEFINE k == blinker.bank
<1>1. /\ blinker.at = "write"
      /\ shows' = IF k \in box THEN [shows EXCEPT ![k] = frame[selected][k]] ELSE shows
      /\ seen' = (seen \/ \A b \in Menu!Banks : shows'[b] = "log")
      /\ UNCHANGED <<pc, begun, published, used, selected, frame, logLine, swapToMenu, toggles, opened>>
  BY DEF Menu!WriteBank, Menu!Writing
<1>2. k \in Menu!Banks /\ k \in 0..MnBanks - 1
  BY DEF MenuInv, MenuTypes, Menu!Banks
<1>3. SetUpInOrder' /\ Menu!UsedWhenReady'
  BY <1>1 DEF MenuInv, SetUpInOrder, Menu!UsedWhenReady
<1>4. shows' \in [Menu!Banks -> {"start", "page", "log"}]
  <2>1. frame[selected][k] \in {"start", "page", "log"}
    BY <1>2 DEF MenuInv, MenuTypes
  <2>2. QED BY <1>1, <2>1 DEF MenuInv, MenuTypes
<1>5. ASSUME opened, ~seen, NEW b \in Menu!Banks, b <= k
      PROVE  shows'[b] = "log"
  <2>1. /\ box = Menu!Banks /\ selected = "log" /\ frame["log"][k] = "log"
        /\ b < k => shows[b] = "log"
    BY <1>1, <1>2, <1>5 DEF MenuInv, OpenedIsWritten
  <2>2. shows' = [shows EXCEPT ![k] = "log"]
    BY <1>1, <1>2, <2>1
  <2>3. CASE b = k
    BY <1>2, <2>2, <2>3 DEF MenuInv, MenuTypes
  <2>4. CASE b < k
    BY <2>1, <2>2, <2>4 DEF MenuInv, MenuTypes
  <2>5. QED BY <1>2, <1>5, <2>3, <2>4 DEF Menu!Banks
<1>6. seen' \in BOOLEAN
  BY <1>1 DEF MenuInv, MenuTypes
<1>7. CASE k = MnBanks - 1
  <2>1. blinker' = [at |-> "first", bank |-> 0] /\ box' = {}
    BY <1>7 DEF Menu!WriteBank
  <2>2. 0 \in Menu!Banks
    BY PanelAssumption DEF Menu!Banks
  <2>3. MenuTypes'
    BY <1>1, <1>4, <1>6, <2>1, <2>2 DEF MenuInv, MenuTypes
  <2>4. ASSUME opened', ~seen' PROVE FALSE
    <3>1. opened /\ ~seen /\ ~\A b \in Menu!Banks : shows'[b] = "log"
      BY <1>1, <2>4
    <3>2. \A b \in Menu!Banks : b <= k
      BY <1>7, PanelAssumption DEF Menu!Banks
    <3>3. QED BY <1>5, <3>1, <3>2
  <2>5. OpenedIsWritten'
    BY <2>4 DEF OpenedIsWritten
  <2>6. QED BY <1>3, <2>3, <2>5 DEF MenuInv
<1>8. CASE k # MnBanks - 1
  <2>1. blinker' = [blinker EXCEPT !.bank = k + 1] /\ UNCHANGED box
    BY <1>8 DEF Menu!WriteBank
  <2>2. k + 1 \in Menu!Banks
    BY <1>2, <1>8, PanelAssumption DEF Menu!Banks
  <2>3. /\ blinker' \in [at : {"menu", "write", "first", "second"}, bank : Menu!Banks]
        /\ blinker'.at = "write" /\ blinker'.bank = k + 1
    BY <1>1, <2>1, <2>2 DEF MenuInv, MenuTypes
  <2>4. MenuTypes'
    BY <1>1, <1>4, <1>6, <2>1, <2>3 DEF MenuInv, MenuTypes
  <2>5. OpenedIsWritten'
    <3>1. ASSUME opened', ~seen' PROVE opened /\ ~seen
      BY <1>1, <3>1
    <3>2. \A b \in Menu!Banks : b < k + 1 => b <= k
      BY <1>2 DEF Menu!Banks
    <3>3. QED BY <1>1, <1>5, <2>1, <2>3, <3>1, <3>2 DEF MenuInv, OpenedIsWritten
  <2>6. QED BY <1>3, <2>4, <2>5 DEF MenuInv
<1>9. QED BY <1>7, <1>8

LEMMA MenuDoBlinkStep ==
    ASSUME MenuInv, NEW here \in {"first", "second"}, NEW next \in {"second", "menu"},
           Menu!DoBlink(here, next)
    PROVE  MenuInv'
<1>1. /\ blinker.at = here /\ blinker' = [blinker EXCEPT !.at = next]
      /\ UNCHANGED <<pc, begun, published, selected, frame, box, logLine, swapToMenu, toggles, opened,
                     shows, seen>>
      /\ used' = used \cup IF "blink_enable" \notin published THEN {}
                           ELSE {"displays"} \cup IF "s_atem" \in published THEN {"atem"} ELSE {}
  BY DEF Menu!DoBlink, Menu!screen
<1>2. /\ blinker' \in [at : {"menu", "write", "first", "second"}, bank : Menu!Banks]
      /\ blinker'.at # "write"
  BY <1>1 DEF MenuInv, MenuTypes
<1>3. MenuTypes' /\ SetUpInOrder' /\ OpenedIsWritten'
  BY <1>1, <1>2 DEF MenuInv, MenuTypes, SetUpInOrder, OpenedIsWritten
<1>4. Menu!UsedWhenReady'
  <2>1. /\ "blink_enable" \in published => "displays" \in begun
        /\ "s_atem" \in published => "atem" \in begun
    BY DEF MenuInv, MenuTypes, SetUpInOrder
  <2>2. QED BY <1>1, <2>1 DEF MenuInv, Menu!UsedWhenReady
<1>5. QED BY <1>3, <1>4 DEF MenuInv

LEMMA RunThreadsStep ==
    ASSUME MenuInv, Menu!RunThreads
    PROVE  MenuInv'
<1>1. UNCHANGED <<pc, begun, published, blinker, selected, frame, box, logLine, swapToMenu, toggles,
                  opened, shows, seen>>
  BY DEF Menu!RunThreads, Menu!screen
<1>2. MenuTypes' /\ SetUpInOrder' /\ OpenedIsWritten'
  BY <1>1 DEF MenuInv, MenuTypes, SetUpInOrder, OpenedIsWritten
<1>3. Menu!UsedWhenReady'
  <2>1. /\ "TimeCriticalThread" \in published => "camera" \in begun
        /\ "s_atem" \in published => "atem" \in begun
        /\ "readerThread" \in published => "hwModules" \in begun
    BY DEF MenuInv, MenuTypes, SetUpInOrder
  <2>2. QED BY <1>1, <2>1 DEF MenuInv, Menu!UsedWhenReady, Menu!RunThreads
<1>4. QED BY <1>2, <1>3 DEF MenuInv

LEMMA MenuStep == MenuInv /\ [Menu!MnNext]_(Menu!mnVars) => MenuInv'
<1> SUFFICES ASSUME MenuInv, [Menu!MnNext]_(Menu!mnVars) PROVE MenuInv'
  OBVIOUS
<1>1. CASE Menu!Begin
  BY <1>1, BeginStep
<1>2. CASE Menu!Publish
  BY <1>2, PublishStep
<1>3. CASE Menu!DrawMenu
  BY <1>3, DrawMenuStep
<1>4. CASE Menu!LogStart \/ Menu!LogMigration \/ Menu!LogNews
  BY <1>4, LogStep
<1>5. CASE Menu!Round
  BY <1>5, RoundStep
<1>6. CASE Menu!LiveToggle
  BY <1>6, LiveToggleStep
<1>7. CASE Menu!WriteBank
  BY <1>7, WriteBankStep
<1>8. CASE Menu!DoBlink("first", "second") \/ Menu!DoBlink("second", "menu")
  BY <1>8, MenuDoBlinkStep
<1>9. CASE Menu!RunThreads
  BY <1>9, RunThreadsStep
<1>10. CASE UNCHANGED Menu!mnVars
  BY <1>10 DEF Menu!mnVars, MenuInv, MenuTypes, SetUpInOrder, Menu!UsedWhenReady, OpenedIsWritten
<1>11. QED
  BY <1>1, <1>2, <1>3, <1>4, <1>5, <1>6, <1>7, <1>8, <1>9, <1>10 DEF Menu!MnNext

-----------------------------------------------------------------------------
(* The projector.                                                          *)

Requests == Proj!Commands \cup {<<"stat", "?">>}

(* The number of keys in a set.  Those in held and not in lastDown are     *)
(* presses that run() did not take yet.                                    *)
KeysIn(S) == (IF "power" \in S THEN 1 ELSE 0) + (IF "mute" \in S THEN 1 ELSE 0)

(* Each request in the line is the one for the status or of a press of its *)
(* own, and a key that would send one was pressed since the last look.     *)
ProjInv ==
    /\ proj \in [status : Proj!Phases \cup {"invalid"}, reading : BOOLEAN, online : BOOLEAN]
    /\ device \in Proj!Phases /\ vmute \in BOOLEAN /\ enabled \in BOOLEAN
    /\ held \subseteq Proj!PrKeys /\ lastDown \subseteq Proj!PrKeys
    /\ led \in [Proj!PrKeys -> {"off", "red", "green", "backlight"}]
    /\ prLine \in Seq(Requests)
    /\ prPressed \in Nat /\ prPressed <= PrMaxPress
    /\ Len(prLine) + KeysIn(held \ lastDown) <= prPressed + IF proj.reading THEN 1 ELSE 0
    /\ Proj!OneStatusRequest
    /\ held \ lastDown \subseteq fresh

LEMMA KeysInIs == \A S : KeysIn(S) \in 0..2
BY DEF KeysIn

LEMMA ProjInvSound == ProjInv => Proj!PrTypeOK /\ Proj!OneStatusRequest
<1> SUFFICES ASSUME ProjInv PROVE Proj!PrTypeOK /\ Proj!OneStatusRequest
  OBVIOUS
<1>1. Len(prLine) \in Nat /\ prPressed \in Nat /\ prPressed <= PrMaxPress
  BY DEF ProjInv
<1>2. Len(prLine) <= prPressed + 1
  <2>1. CASE proj.reading
    BY <1>1, <2>1, KeysInIs DEF ProjInv
  <2>2. CASE ~proj.reading
    BY <1>1, <2>2, KeysInIs DEF ProjInv
  <2>3. QED BY <2>1, <2>2
<1>3. Len(prLine) <= PrMaxWait + 1 + PrMaxPress
  BY <1>1, <1>2, PanelAssumption
<1>4. QED BY <1>3 DEF ProjInv, Proj!PrTypeOK

LEMMA ProjInit == Proj!PrInit => ProjInv
<1> SUFFICES ASSUME Proj!PrInit PROVE ProjInv
  OBVIOUS
<1>1. proj \in [status : Proj!Phases \cup {"invalid"}, reading : BOOLEAN, online : BOOLEAN]
  BY DEF Proj!PrInit
<1>2. vmute \in BOOLEAN /\ enabled \in BOOLEAN
  BY DEF Proj!PrInit
<1>3. led \in [Proj!PrKeys -> {"off", "red", "green", "backlight"}]
  BY DEF Proj!PrInit
<1>4. /\ prLine = <<>> /\ prPressed = 0 /\ held = {} /\ lastDown = {} /\ device \in {"standby", "on"}
      /\ proj.reading = FALSE
  BY DEF Proj!PrInit
<1>5. Len(prLine) + KeysIn(held \ lastDown) <= prPressed + IF proj.reading THEN 1 ELSE 0
  BY <1>4 DEF KeysIn
<1>6. QED BY <1>1, <1>2, <1>3, <1>4, <1>5, PanelAssumption DEF ProjInv, Proj!Phases, Proj!OneStatusRequest

(* What a step of the keys has to show.                                    *)
LEMMA ProjKeysSame ==
    ASSUME ProjInv, UNCHANGED <<proj, vmute, prLine, device, led>>,
           enabled' \in BOOLEAN, held' \subseteq Proj!PrKeys, lastDown' \subseteq Proj!PrKeys,
           prPressed' \in Nat, prPressed' <= PrMaxPress,
           KeysIn(held' \ lastDown') + prPressed <= KeysIn(held \ lastDown) + prPressed',
           held' \ lastDown' \subseteq fresh'
    PROVE  ProjInv'
<1>1. Len(prLine) \in Nat /\ prPressed \in Nat
  BY DEF ProjInv
<1>2. KeysIn(held \ lastDown) \in 0..2 /\ KeysIn(held' \ lastDown') \in 0..2
  BY KeysInIs
<1>3. Len(prLine') + KeysIn(held' \ lastDown') <= prPressed' + IF proj'.reading THEN 1 ELSE 0
  <2>1. CASE proj.reading
    BY <1>1, <1>2, <2>1 DEF ProjInv
  <2>2. CASE ~proj.reading
    BY <1>1, <1>2, <2>2 DEF ProjInv
  <2>3. QED BY <2>1, <2>2
<1>4. QED BY <1>3 DEF ProjInv, Proj!OneStatusRequest

LEMMA ProjPressStep ==
    ASSUME ProjInv, NEW k \in Proj!PrKeys, Proj!PrPress(k) \/ Proj!PrRelease(k)
    PROVE  ProjInv'
<1> USE PanelAssumption
<1>1. CASE Proj!PrPress(k)
  <2>1. /\ k \notin held /\ prPressed < PrMaxPress /\ prPressed' = prPressed + 1
        /\ held' = held \cup {k} /\ fresh' = fresh \cup {k}
        /\ UNCHANGED <<proj, vmute, prLine, device, lastDown, enabled, led>>
    BY <1>1 DEF Proj!PrPress, Proj!lamps
  <2>2. KeysIn(held' \ lastDown') <= KeysIn(held \ lastDown) + 1
    BY <2>1 DEF KeysIn, Proj!PrKeys
  <2>3. prPressed \in Nat /\ KeysIn(held \ lastDown) \in 0..2 /\ KeysIn(held' \ lastDown') \in 0..2
    BY KeysInIs DEF ProjInv
  <2>4. /\ KeysIn(held' \ lastDown') + prPressed <= KeysIn(held \ lastDown) + prPressed'
        /\ prPressed' \in Nat /\ prPressed' <= PrMaxPress
    BY <2>1, <2>2, <2>3
  <2>5. held' \ lastDown' \subseteq fresh' /\ held' \subseteq Proj!PrKeys
    BY <2>1 DEF ProjInv
  <2>6. QED BY <2>1, <2>4, <2>5, ProjKeysSame DEF ProjInv
<1>2. CASE Proj!PrRelease(k)
  <2>1. /\ held' = held \ {k}
        /\ UNCHANGED <<proj, vmute, prLine, device, lastDown, fresh, enabled, led, prPressed>>
    BY <1>2 DEF Proj!PrRelease, Proj!lamps, Proj!prCounters
  <2>2. KeysIn(held' \ lastDown') <= KeysIn(held \ lastDown)
    BY <2>1 DEF KeysIn
  <2>3. prPressed \in Nat /\ KeysIn(held \ lastDown) \in 0..2 /\ KeysIn(held' \ lastDown') \in 0..2
    BY KeysInIs DEF ProjInv
  <2>4. KeysIn(held' \ lastDown') + prPressed <= KeysIn(held \ lastDown) + prPressed'
    BY <2>1, <2>2, <2>3
  <2>5. held' \ lastDown' \subseteq fresh' /\ held' \subseteq Proj!PrKeys
    BY <2>1 DEF ProjInv
  <2>6. QED BY <2>1, <2>4, <2>5, ProjKeysSame DEF ProjInv
<1>3. QED BY <1>1, <1>2

LEMMA TurnStep ==
    ASSUME ProjInv, Proj!Turn
    PROVE  ProjInv'
<1>1. /\ enabled' = ~enabled
      /\ UNCHANGED <<proj, vmute, prLine, device, held, lastDown, fresh, led, prPressed>>
  BY DEF Proj!Turn, Proj!lamps
<1>2. enabled' \in BOOLEAN
  BY <1>1 DEF ProjInv
<1>3. /\ KeysIn(held' \ lastDown') = KeysIn(held \ lastDown)
      /\ KeysIn(held \ lastDown) \in 0..2 /\ prPressed \in Nat
  BY <1>1, KeysInIs DEF ProjInv
<1>4. KeysIn(held' \ lastDown') + prPressed <= KeysIn(held \ lastDown) + prPressed'
  BY <1>1, <1>3
<1>5. QED BY <1>1, <1>2, <1>4, ProjKeysSame DEF ProjInv

(* readStatus(): one request for the status, when none is under way.       *)
LEMMA ReadStatusStep ==
    ASSUME ProjInv, Proj!ReadStatus
    PROVE  ProjInv'
<1> DEFINE stat == <<"stat", "?">>
<1>1. /\ ~proj.reading /\ proj' = [proj EXCEPT !.reading = TRUE]
      /\ prLine' = Append(prLine, stat) \/ prLine' = prLine
      /\ UNCHANGED <<vmute, device, held, lastDown, fresh, enabled, led, prPressed>>
  BY DEF Proj!ReadStatus, Proj!board, Proj!lamps
<1>2. /\ proj' \in [status : Proj!Phases \cup {"invalid"}, reading : BOOLEAN, online : BOOLEAN]
      /\ proj'.reading
  BY <1>1 DEF ProjInv
<1>3. /\ prLine \in Seq(Requests) /\ prPressed \in Nat /\ Len(prLine) \in Nat
      /\ Len(prLine) + KeysIn(held \ lastDown) <= prPressed
  BY <1>1 DEF ProjInv
<1>4. ASSUME NEW i \in 1..Len(prLine) PROVE prLine[i][1] # "stat"
  BY <1>1, <1>4 DEF ProjInv, Proj!OneStatusRequest
<1>5. KeysIn(held' \ lastDown') = KeysIn(held \ lastDown) /\ KeysIn(held \ lastDown) \in 0..2
  BY <1>1, KeysInIs
<1>6. CASE prLine' = Append(prLine, stat)
  <2>1. /\ prLine' \in Seq(Requests) /\ Len(prLine') = Len(prLine) + 1
        /\ \A k \in 1..Len(prLine) : prLine'[k] = prLine[k]
    <3>1. stat \in Requests
      BY DEF Requests
    <3>2. QED BY <1>3, <1>6, <3>1
  <2>2. Len(prLine') + KeysIn(held' \ lastDown') <= prPressed' + IF proj'.reading THEN 1 ELSE 0
    BY <1>1, <1>2, <1>3, <1>5, <2>1
  <2>3. Proj!OneStatusRequest'
    <3>1. ASSUME NEW i \in 1..Len(prLine'), prLine'[i][1] = "stat" PROVE i = Len(prLine')
      BY <1>3, <1>4, <2>1, <3>1
    <3>2. QED BY <1>2, <3>1 DEF Proj!OneStatusRequest
  <2>4. QED BY <1>1, <1>2, <2>1, <2>2, <2>3 DEF ProjInv
<1>7. CASE prLine' = prLine
  <2>1. Len(prLine') + KeysIn(held' \ lastDown') <= prPressed' + IF proj'.reading THEN 1 ELSE 0
    BY <1>1, <1>2, <1>3, <1>5, <1>7
  <2>2. Proj!OneStatusRequest'
    BY <1>4, <1>7 DEF Proj!OneStatusRequest
  <2>3. QED BY <1>1, <1>2, <1>7, <2>1, <2>2 DEF ProjInv
<1>8. QED BY <1>1, <1>6, <1>7

LEMMA ConcatIs ==
    ASSUME NEW T, NEW s \in Seq(T), NEW t \in Seq(T)
    PROVE  /\ s \o t \in Seq(T) /\ Len(s \o t) = Len(s) + Len(t)
           /\ \A k \in 1..Len(s) : (s \o t)[k] = s[k]
           /\ \A k \in Len(s) + 1..Len(s) + Len(t) :
                 k - Len(s) \in 1..Len(t) /\ (s \o t)[k] = t[k - Len(s)]
OBVIOUS

(* What OutputDisplays::run() sends: commands of keys pressed just now.    *)
LEMMA KeysIs ==
    ASSUME ProjInv, Proj!Keys
    PROVE  /\ prLine' \in Seq(Requests)
           /\ Len(prLine') <= Len(prLine) + KeysIn(held \ lastDown) /\ Len(prLine) <= Len(prLine')
           /\ \A k \in 1..Len(prLine) : prLine'[k] = prLine[k]
           /\ \A k \in Len(prLine) + 1..Len(prLine') :
                 prLine'[k] \in Proj!Commands /\ prLine'[k][1] \in held \ lastDown
<1> DEFINE down == IF enabled /\ proj.online THEN held \ lastDown ELSE {}
           p == <<"power", IF Proj!hasPower(proj.status) THEN "off" ELSE "on">>
           m == <<"mute", IF vmute /\ Proj!hasPower(proj.status) THEN "show" ELSE "hide">>
           a == IF "power" \in down THEN <<p>> ELSE <<>>
           b == IF "mute" \in down THEN <<m>> ELSE <<>>
<1>1. prLine' = (prLine \o a) \o b
  BY DEF Proj!Keys
<1>2. p \in Proj!Commands /\ m \in Proj!Commands /\ p[1] = "power" /\ m[1] = "mute"
  BY DEF Proj!Commands
<1>3. down \subseteq held \ lastDown
  OBVIOUS
<1> HIDE DEF p, m, down
<1>4. /\ a \in Seq(Requests)
      /\ Len(a) = IF "power" \in down THEN 1 ELSE 0
      /\ \A k \in 1..Len(a) : a[k] = p /\ "power" \in held \ lastDown
  <2>1. CASE "power" \in down
    BY <1>2, <1>3, <2>1 DEF Requests
  <2>2. CASE "power" \notin down
    BY <2>2
  <2>3. QED BY <2>1, <2>2
<1>5. /\ b \in Seq(Requests)
      /\ Len(b) = IF "mute" \in down THEN 1 ELSE 0
      /\ \A k \in 1..Len(b) : b[k] = m /\ "mute" \in held \ lastDown
  <2>1. CASE "mute" \in down
    BY <1>2, <1>3, <2>1 DEF Requests
  <2>2. CASE "mute" \notin down
    BY <2>2
  <2>3. QED BY <2>1, <2>2
<1>6. Len(a) + Len(b) <= KeysIn(held \ lastDown) /\ Len(a) \in Nat /\ Len(b) \in Nat
  BY <1>3, <1>4, <1>5 DEF KeysIn
<1> HIDE DEF a, b
<1> DEFINE c == prLine \o a
<1>7. /\ c \in Seq(Requests) /\ Len(c) = Len(prLine) + Len(a) /\ Len(prLine) \in Nat
      /\ \A k \in 1..Len(prLine) : c[k] = prLine[k]
      /\ \A k \in Len(prLine) + 1..Len(c) : c[k] = p /\ "power" \in held \ lastDown
  <2>1. prLine \in Seq(Requests) /\ Len(prLine) \in Nat
    BY DEF ProjInv
  <2>2. /\ c \in Seq(Requests) /\ Len(c) = Len(prLine) + Len(a)
        /\ \A k \in 1..Len(prLine) : c[k] = prLine[k]
        /\ \A k \in Len(prLine) + 1..Len(prLine) + Len(a) :
              k - Len(prLine) \in 1..Len(a) /\ c[k] = a[k - Len(prLine)]
    BY <1>4, <2>1, ConcatIs
  <2> HIDE DEF c
  <2>3. ASSUME NEW k \in Len(prLine) + 1..Len(c) PROVE c[k] = p /\ "power" \in held \ lastDown
    BY <1>4, <2>2, <2>3
  <2>4. QED BY <2>1, <2>2, <2>3
<1> HIDE DEF c
<1>8. /\ prLine' \in Seq(Requests) /\ Len(prLine') = Len(c) + Len(b)
      /\ \A k \in 1..Len(c) : prLine'[k] = c[k]
      /\ \A k \in Len(c) + 1..Len(prLine') : prLine'[k] = m /\ "mute" \in held \ lastDown
  <2>1. prLine' = c \o b
    BY <1>1 DEF c
  <2>2. /\ prLine' \in Seq(Requests) /\ Len(prLine') = Len(c) + Len(b)
        /\ \A k \in 1..Len(c) : prLine'[k] = c[k]
        /\ \A k \in Len(c) + 1..Len(c) + Len(b) :
              k - Len(c) \in 1..Len(b) /\ prLine'[k] = b[k - Len(c)]
    <3>1. c \in Seq(Requests) /\ b \in Seq(Requests)
      BY <1>5, <1>7
    <3>2. /\ c \o b \in Seq(Requests) /\ Len(c \o b) = Len(c) + Len(b)
          /\ \A k \in 1..Len(c) : (c \o b)[k] = c[k]
          /\ \A k \in Len(c) + 1..Len(c) + Len(b) :
                k - Len(c) \in 1..Len(b) /\ (c \o b)[k] = b[k - Len(c)]
      BY <3>1, ConcatIs
    <3>3. QED BY <2>1, <3>2
  <2>3. ASSUME NEW k \in Len(c) + 1..Len(prLine') PROVE prLine'[k] = m /\ "mute" \in held \ lastDown
    BY <1>5, <2>2, <2>3
  <2>4. QED BY <2>2, <2>3
<1>9. Len(prLine') <= Len(prLine) + KeysIn(held \ lastDown) /\ Len(prLine) <= Len(prLine')
  BY <1>6, <1>7, <1>8, KeysInIs
<1>10. \A k \in 1..Len(prLine) : prLine'[k] = prLine[k]
  BY <1>6, <1>7, <1>8
<1>11. ASSUME NEW k \in Len(prLine) + 1..Len(prLine')
       PROVE  prLine'[k] \in Proj!Commands /\ prLine'[k][1] \in held \ lastDown
  <2>1. CASE k <= Len(c)
    <3>1. prLine'[k] = p /\ "power" \in held \ lastDown
      BY <1>7, <1>8, <2>1
    <3>2. QED BY <1>2, <3>1
  <2>2. CASE k > Len(c)
    <3>1. prLine'[k] = m /\ "mute" \in held \ lastDown
      BY <1>7, <1>8, <2>2
    <3>2. QED BY <1>2, <3>1
  <2>3. QED BY <1>7, <2>1, <2>2
<1>12. QED BY <1>8, <1>9, <1>10, <1>11

LEMMA KeysStep ==
    ASSUME ProjInv, Proj!Keys
    PROVE  ProjInv'
<1>1. /\ lastDown' = held /\ fresh' = {} /\ UNCHANGED <<proj, device, held, enabled, led, prPressed>>
      /\ vmute' \in BOOLEAN
  BY DEF Proj!Keys, Proj!Look, Proj!lamps, Proj!prCounters, ProjInv
<1>2. /\ prLine' \in Seq(Requests)
      /\ Len(prLine') <= Len(prLine) + KeysIn(held \ lastDown) /\ Len(prLine) <= Len(prLine')
      /\ \A k \in 1..Len(prLine) : prLine'[k] = prLine[k]
      /\ \A k \in Len(prLine) + 1..Len(prLine') : prLine'[k] \in Proj!Commands
  BY KeysIs
<1>3. KeysIn(held' \ lastDown') = 0
  BY <1>1 DEF KeysIn
<1>4. Len(prLine') + KeysIn(held' \ lastDown') <= prPressed' + IF proj'.reading THEN 1 ELSE 0
  <2>1. Len(prLine) \in Nat /\ Len(prLine') \in Nat /\ prPressed \in Nat /\ KeysIn(held \ lastDown) \in 0..2
    BY <1>2, KeysInIs DEF ProjInv
  <2>2. CASE proj.reading
    BY <1>1, <1>2, <1>3, <2>1, <2>2 DEF ProjInv
  <2>3. CASE ~proj.reading
    BY <1>1, <1>2, <1>3, <2>1, <2>3 DEF ProjInv
  <2>4. QED BY <2>2, <2>3
<1>5. Proj!OneStatusRequest'
  <2>1. ASSUME NEW i \in 1..Len(prLine'), prLine'[i][1] = "stat"
        PROVE  i \in 1..Len(prLine) /\ prLine[i][1] = "stat"
    <3>1. Len(prLine) \in Nat /\ Len(prLine') \in Nat
      BY <1>2 DEF ProjInv
    <3>2. ASSUME i > Len(prLine) PROVE FALSE
      <4>1. prLine'[i] \in Proj!Commands
        BY <1>2, <3>1, <3>2
      <4>2. QED BY <2>1, <4>1 DEF Proj!Commands
    <3>3. QED BY <1>2, <2>1, <3>1, <3>2
  <2>2. QED BY <1>1, <2>1 DEF ProjInv, Proj!OneStatusRequest
<1>6. QED BY <1>1, <1>2, <1>4, <1>5 DEF ProjInv

(* The oldest request leaves: the flag is cleared with the request for the *)
(* status only.                                                            *)
LEMMA LeaveStep ==
    ASSUME ProjInv, prLine # <<>>, prLine' = Tail(prLine), device' \in Proj!Phases,
           UNCHANGED <<vmute, held, lastDown, fresh, enabled, led, prPressed>>,
           proj' \in [status : Proj!Phases \cup {"invalid"}, reading : BOOLEAN, online : BOOLEAN],
           \/ proj'.reading = proj.reading
           \/ prLine[1][1] = "stat" /\ ~proj'.reading
    PROVE  ProjInv'
<1> DEFINE n == KeysIn(held \ lastDown)
<1>1. /\ prLine \in Seq(Requests) /\ prPressed \in Nat /\ n \in 0..2
      /\ Proj!OneStatusRequest /\ proj.reading \in BOOLEAN
  BY KeysInIs DEF ProjInv
<1>2. /\ prLine' \in Seq(Requests) /\ Len(prLine') = Len(prLine) - 1 /\ Len(prLine) \in Nat \ {0}
      /\ \A k \in 1..Len(prLine') : k + 1 \in 1..Len(prLine) /\ prLine'[k] = prLine[k + 1]
  BY <1>1
<1>3. Len(prLine) + n <= prPressed + IF proj.reading THEN 1 ELSE 0
  BY DEF ProjInv
<1>4. KeysIn(held' \ lastDown') = n /\ prPressed' = prPressed
  OBVIOUS
<1> HIDE DEF n
<1>5. Len(prLine') + n <= prPressed + IF proj'.reading THEN 1 ELSE 0
  <2>1. CASE proj'.reading = proj.reading
    <3>1. CASE proj.reading
      BY <1>1, <1>2, <1>3, <2>1, <3>1
    <3>2. CASE ~proj.reading
      BY <1>1, <1>2, <1>3, <2>1, <3>2
    <3>3. QED BY <3>1, <3>2
  <2>2. CASE ~proj'.reading
    <3>1. Len(prLine) + n <= prPressed + 1
      <4>1. CASE proj.reading
        BY <1>3, <4>1
      <4>2. CASE ~proj.reading
        BY <1>1, <1>2, <1>3, <4>2
      <4>3. QED BY <4>1, <4>2
    <3>2. QED BY <1>1, <1>2, <2>2, <3>1
  <2>3. QED BY <2>1, <2>2
<1>6. Proj!OneStatusRequest'
  <2>1. ASSUME NEW i \in 1..Len(prLine'), NEW j \in 1..Len(prLine'),
               prLine'[i][1] = "stat", prLine'[j][1] = "stat"
        PROVE  i = j /\ proj'.reading
    <3>1. i + 1 \in 1..Len(prLine) /\ j + 1 \in 1..Len(prLine) /\ 1 \in 1..Len(prLine)
      BY <1>2
    <3>2. i + 1 = j + 1 /\ proj.reading /\ prLine[i + 1][1] = "stat"
      BY <1>1, <1>2, <2>1, <3>1 DEF Proj!OneStatusRequest
    <3>3. prLine[1][1] # "stat"
      BY <1>1, <3>1, <3>2 DEF Proj!OneStatusRequest
    <3>4. proj'.reading
      BY <3>2, <3>3
    <3>5. QED BY <3>1, <3>2, <3>4
  <2>2. QED BY <2>1 DEF Proj!OneStatusRequest
<1>7. QED BY <1>2, <1>4, <1>5, <1>6 DEF ProjInv

(* What _recv_cb() makes of the object.                                    *)
LEMMA RecvStatIs ==
    ASSUME ProjInv, prLine # <<>>, NEW o \in BOOLEAN, NEW st \in Proj!Phases \cup {"invalid"}
    PROVE  /\ Proj!RecvStat(o, st) \in
                [status : Proj!Phases \cup {"invalid"}, reading : BOOLEAN, online : BOOLEAN]
           /\ \/ Proj!RecvStat(o, st).reading = proj.reading
              \/ prLine[1][1] = "stat" /\ ~Proj!RecvStat(o, st).reading
<1>1. Head(prLine) = prLine[1]
  BY DEF ProjInv
<1>2. CASE prLine[1][1] = "stat"
  <2>1. Proj!RecvStat(o, st) = [status |-> st, reading |-> FALSE, online |-> o]
    BY <1>1, <1>2 DEF Proj!RecvStat
  <2>2. ~Proj!RecvStat(o, st).reading
    BY <2>1
  <2>3. QED BY <1>2, <2>1, <2>2
<1>3. CASE prLine[1][1] # "stat"
  <2>1. Proj!RecvStat(o, st) = [proj EXCEPT !.online = o]
    BY <1>1, <1>3 DEF Proj!RecvStat
  <2>2. QED BY <2>1 DEF ProjInv
<1>4. QED BY <1>2, <1>3

LEMMA CommandedIs ==
    ASSUME ProjInv, NEW r
    PROVE  Proj!Commanded(r) \in Proj!Phases
<1>1. CASE r = <<"power", "on">> /\ device = "standby"
  BY <1>1 DEF Proj!Commanded, Proj!Phases
<1>2. CASE r = <<"power", "off">> /\ device = "on"
  BY <1>2 DEF Proj!Commanded, Proj!Phases
<1>3. CASE ~(r = <<"power", "on">> /\ device = "standby") /\ ~(r = <<"power", "off">> /\ device = "on")
  BY <1>3 DEF Proj!Commanded, ProjInv
<1>4. QED BY <1>1, <1>2, <1>3

LEMMA PrAnswerStep ==
    ASSUME ProjInv, Proj!PrAnswer
    PROVE  ProjInv'
<1>1. /\ prLine # <<>> /\ prLine' = Tail(prLine)
      /\ device' \in Proj!Phases /\ proj' = Proj!RecvStat(TRUE, device')
      /\ UNCHANGED <<vmute, held, lastDown, fresh, enabled, led, prPressed>>
  BY CommandedIs DEF Proj!PrAnswer, Proj!board, Proj!lamps, Proj!prCounters
<1>2. PICK d \in Proj!Phases : d = device'
  BY <1>1
<1>3. /\ proj' \in [status : Proj!Phases \cup {"invalid"}, reading : BOOLEAN, online : BOOLEAN]
      /\ \/ proj'.reading = proj.reading
         \/ prLine[1][1] = "stat" /\ ~proj'.reading
  BY <1>1, <1>2, RecvStatIs
<1>4. QED BY <1>1, <1>3, LeaveStep

LEMMA PrFailStep ==
    ASSUME ProjInv, Proj!PrFail
    PROVE  ProjInv'
<1>1. /\ prLine # <<>> /\ prLine' = Tail(prLine) /\ device' \in {device, Proj!Commanded(Head(prLine))}
      /\ UNCHANGED <<vmute, held, lastDown, fresh, enabled, led, prPressed>>
      /\ \/ \E st \in {proj.status, "on"} : proj' = Proj!RecvStat(TRUE, st)
         \/ \E o \in {FALSE, proj.online} : proj' = Proj!RecvStat(o, proj.status)
         \/ proj' = proj
  BY DEF Proj!PrFail, Proj!board, Proj!lamps
<1>2. device' \in Proj!Phases
  BY <1>1, CommandedIs DEF ProjInv
<1>3. /\ proj' \in [status : Proj!Phases \cup {"invalid"}, reading : BOOLEAN, online : BOOLEAN]
      /\ \/ proj'.reading = proj.reading
         \/ prLine[1][1] = "stat" /\ ~proj'.reading
  <2>1. ASSUME NEW st \in {proj.status, "on"}, proj' = Proj!RecvStat(TRUE, st)
        PROVE  <1>3!1 /\ <1>3!2
    <3>1. st \in Proj!Phases \cup {"invalid"}
      BY DEF ProjInv, Proj!Phases
    <3>2. QED BY <1>1, <2>1, <3>1, RecvStatIs
  <2>2. ASSUME NEW o \in {FALSE, proj.online}, proj' = Proj!RecvStat(o, proj.status)
        PROVE  <1>3!1 /\ <1>3!2
    <3>1. o \in BOOLEAN /\ proj.status \in Proj!Phases \cup {"invalid"}
      BY DEF ProjInv
    <3>2. QED BY <1>1, <2>2, <3>1, RecvStatIs
  <2>3. CASE proj' = proj
    BY <2>3 DEF ProjInv
  <2>4. QED BY <1>1, <2>1, <2>2, <2>3
<1>4. QED BY <1>1, <1>2, <1>3, LeaveStep

LEMMA PowerLedIs ==
    ASSUME ProjInv
    PROVE  Proj!PowerLed \in {"off", "red", "green", "backlight"}
<1>1. led["power"] \in {"off", "red", "green", "backlight"}
  BY DEF ProjInv, Proj!PrKeys
<1>2. \A c \in {"red", "green"} : Proj!Blinked(c) \in {"off", "red", "green", "backlight"}
  <2>1. CASE blink = 3
    BY <2>1 DEF Proj!Blinked
  <2>2. CASE blink = 1
    BY <2>2 DEF Proj!Blinked
  <2>3. CASE blink # 3 /\ blink # 1
    BY <1>1, <2>3 DEF Proj!Blinked
  <2>4. QED BY <2>1, <2>2, <2>3
<1>3. CASE ~proj.online \/ proj.status = "invalid"
  BY <1>3 DEF Proj!PowerLed
<1>4. CASE proj.online /\ proj.status = "error"
  BY <1>4 DEF Proj!PowerLed
<1>5. CASE proj.online /\ proj.status = "countdown"
  BY <1>2, <1>5 DEF Proj!PowerLed
<1>6. CASE proj.online /\ proj.status = "cooling"
  BY <1>2, <1>6 DEF Proj!PowerLed
<1>7. CASE proj.online /\ proj.status = "on"
  BY <1>7 DEF Proj!PowerLed
<1>8. CASE proj.online /\ proj.status = "standby"
  BY <1>8 DEF Proj!PowerLed
<1>9. QED BY <1>3, <1>4, <1>5, <1>6, <1>7, <1>8 DEF ProjInv, Proj!Phases

(* The blinker, the lamp of the projector and a step of another part: the  *)
(* requests and the keys are as before.                                    *)
LEMMA LampStep ==
    ASSUME ProjInv, Proj!doBlink \/ Proj!Warm \/ Proj!Break \/ UNCHANGED Proj!prVars
    PROVE  ProjInv'
<1>1. UNCHANGED <<proj, vmute, prLine, held, lastDown, fresh, enabled, prPressed>>
  BY DEF Proj!doBlink, Proj!Warm, Proj!Break, Proj!board, Proj!lamps, Proj!prCounters, Proj!prVars
<1>2. device' \in Proj!Phases
  BY DEF ProjInv, Proj!Phases, Proj!doBlink, Proj!Warm, Proj!Break, Proj!prVars
<1>3. led' \in [Proj!PrKeys -> {"off", "red", "green", "backlight"}]
  <2>1. CASE Proj!doBlink
    <3>1. Proj!MuteLed \in {"off", "red", "green", "backlight"}
      BY DEF Proj!MuteLed
    <3>2. led' = [power |-> Proj!PowerLed, mute |-> Proj!MuteLed]
      BY <2>1 DEF Proj!doBlink
    <3>3. QED BY <3>1, <3>2, PowerLedIs DEF Proj!PrKeys
  <2>2. CASE led' = led
    BY <2>2 DEF ProjInv
  <2>3. QED BY <2>1, <2>2 DEF Proj!Warm, Proj!Break, Proj!lamps, Proj!prVars
<1>4. QED BY <1>1, <1>2, <1>3 DEF ProjInv, Proj!OneStatusRequest

LEMMA ProjStep == ProjInv /\ [Proj!PrNext]_(Proj!prVars) => ProjInv'
<1> SUFFICES ASSUME ProjInv, [Proj!PrNext]_(Proj!prVars) PROVE ProjInv'
  OBVIOUS
<1>1. ASSUME NEW k \in Proj!PrKeys, Proj!PrPress(k) \/ Proj!PrRelease(k) PROVE ProjInv'
  BY <1>1, ProjPressStep
<1>2. CASE Proj!Turn
  BY <1>2, TurnStep
<1>3. CASE Proj!ReadStatus
  BY <1>3, ReadStatusStep
<1>4. CASE Proj!Keys
  BY <1>4, KeysStep
<1>5. CASE Proj!PrAnswer
  BY <1>5, PrAnswerStep
<1>6. CASE Proj!PrFail
  BY <1>6, PrFailStep
<1>7. CASE Proj!doBlink \/ Proj!Warm \/ Proj!Break \/ UNCHANGED Proj!prVars
  BY <1>7, LampStep
<1>8. QED BY <1>1, <1>2, <1>3, <1>4, <1>5, <1>6, <1>7 DEF Proj!PrNext

(* No step sends a command of a key that was pressed while it was disabled.*)
LEMMA NoDelayedStep ==
    ASSUME ProjInv, [Proj!PrNext]_(Proj!prVars),
           NEW k \in Len(prLine) + 1..Len(prLine'), prLine'[k] \in Proj!Commands
    PROVE  prLine'[k][1] \in fresh
<1>1. prLine \in Seq(Requests) /\ Len(prLine) \in Nat
  BY DEF ProjInv
<1>2. CASE Proj!Keys
  BY <1>2, KeysIs DEF ProjInv
<1>3. CASE Proj!ReadStatus
  <2>1. prLine' = Append(prLine, <<"stat", "?">>) \/ prLine' = prLine
    BY <1>3 DEF Proj!ReadStatus
  <2>2. CASE prLine' = Append(prLine, <<"stat", "?">>)
    <3>1. prLine'[k] = <<"stat", "?">>
      BY <1>1, <2>2
    <3>2. QED BY <3>1 DEF Proj!Commands
  <2>3. CASE prLine' = prLine
    BY <1>1, <2>3
  <2>4. QED BY <2>1, <2>2, <2>3
<1>4. CASE prLine # <<>> /\ prLine' = Tail(prLine)
  <2>1. Len(prLine') = Len(prLine) - 1
    BY <1>1, <1>4
  <2>2. QED BY <1>1, <2>1
<1>5. CASE prLine' = prLine
  BY <1>1, <1>5
<1>6. QED
  BY <1>2, <1>3, <1>4, <1>5 DEF Proj!PrNext, Proj!PrPress, Proj!PrRelease, Proj!Turn, Proj!doBlink,
     Proj!PrAnswer, Proj!PrFail, Proj!Warm, Proj!Break, Proj!prVars

-----------------------------------------------------------------------------
(* The keyers.                                                             *)

(* States of the switcher, and those it is in or was in before m.          *)
States == [program : PpInputs, preview : PpInputs, on : SUBSET Keyer!Keyers,
           tied : SUBSET Keyer!Keyers, position : {0, 1}, changes : Nat]

UpTo(m) == {x \in States : x.changes <= m.changes /\ (x.changes = m.changes => x = m)}

CommandSet == [what : {"on", "tie", "next", "preview", "auto"},
               arg : (SUBSET Keyer!Keyers) \cup Nat, key : Keyer!PpKeys, seen : Nat]

Usks(set) == {u \in set : u[1] = "usk"}

(* A command was built from a state up to m; one that was built from m     *)
(* itself toggles its keyer there, or finds program and preview alike.     *)
BuiltFrom(m) ==
    {c \in CommandSet :
        /\ c.what \in {"on", "tie", "next"} => c.arg \in SUBSET Keyer!Keyers
        /\ c.seen <= m.changes
        /\ c.seen = m.changes /\ c.key \in Keyer!Keyers =>
             /\ c.what = "on" => c.arg = {c.key} \ m.on
             /\ c.what = "tie" => c.arg = {c.key} \ m.tied
             /\ c.what = "next" => /\ c.key[1] = "usk"
                                   /\ c.arg = Keyer!Flipped(Usks(m.tied), c.key)
        /\ c.seen = m.changes /\ c.key = Keyer!Macro /\ c.what = "auto" =>
             m.program = m.preview}

(* The desk's copy, the states under way and the commands under way are of *)
(* states the switcher was in, and a state is known by its change.         *)
KeyerInv ==
    /\ ppAt \in {"sleep", "lamps", "keys", "show", "operate"} \cup Keyer!Loops
    /\ ppBus \in {"program", "preview", "aux"}
    /\ ppPressed \subseteq Keyer!PpKeys /\ IsFiniteSet(ppPressed)
    /\ keyerLamp \in [Keyer!Keyers -> {"none", "off", "yellow"}]
    /\ mixer \in States /\ known \in UpTo(mixer)
    /\ ppMailbox \in Seq(UpTo(mixer)) /\ toDesk \in Seq(UpTo(mixer))
    /\ toMixer \in Seq(BuiltFrom(mixer))
    /\ saved \in [preview : Nat, tied : BOOLEAN, seen : Nat] /\ saved.seen <= mixer.changes
    /\ ppAt = "tied" /\ saved.seen = mixer.changes => mixer.program = mixer.preview

(* The same operators of the standard modules, seen through an instance.   *)
LEMMA FiniteSetsSame == \A S : /\ Keyer!Cardinality(S) = Cardinality(S)
                               /\ Keyer!IsFiniteSet(S) = IsFiniteSet(S)
BY DEF Keyer!Cardinality, Cardinality, Keyer!IsFiniteSet, IsFiniteSet

LEMMA KeyerConstants ==
    /\ Keyer!Usk(1) \in Keyer!Keyers /\ Keyer!Macro \notin Keyer!Keyers
    /\ Keyer!Auto \notin Keyer!Keyers
    /\ \A k \in Keyer!Keyers : (k[1] = "usk" /\ k = Keyer!Usk(k[2])) \/ k[1] = "dsk"
BY PanelAssumption DEF Keyer!Usk, Keyer!Dsk, Keyer!Keyers, Keyer!Macro, Keyer!Auto

LEMMA KeyerInvSound == KeyerInv => Keyer!PpTypeOK
<1> SUFFICES ASSUME KeyerInv PROVE Keyer!PpTypeOK
  OBVIOUS
<1>1. known \in States /\ mixer \in States /\ known.changes <= mixer.changes
  BY DEF KeyerInv, UpTo
<1>2. QED BY <1>1 DEF KeyerInv, Keyer!PpTypeOK, States

(* The same state is known up to it, and stays known when it changes.      *)
LEMMA UpToIs ==
    ASSUME NEW m \in States
    PROVE  m \in UpTo(m)
BY DEF UpTo, States

(* What a change of the switcher leaves true of what is under way.         *)
LEMMA ChangeIs ==
    ASSUME NEW m \in States, NEW n \in States, n = m \/ n.changes = m.changes + 1
    PROVE  UpTo(m) \subseteq UpTo(n) /\ BuiltFrom(m) \subseteq BuiltFrom(n)
<1>1. CASE n = m
  BY <1>1
<1>2. CASE n.changes = m.changes + 1
  <2>1. m.changes \in Nat /\ n.changes \in Nat
    BY DEF States
  <2>2. ASSUME NEW x \in UpTo(m) PROVE x \in UpTo(n)
    <3>1. x \in States /\ x.changes \in Nat /\ x.changes <= m.changes
      BY <2>2 DEF UpTo, States
    <3>2. x.changes <= n.changes /\ x.changes # n.changes
      BY <1>2, <2>1, <3>1
    <3>3. QED BY <3>1, <3>2 DEF UpTo
  <2>3. ASSUME NEW c \in BuiltFrom(m) PROVE c \in BuiltFrom(n)
    <3>1. c \in CommandSet /\ c.seen <= m.changes
          /\ (c.what \in {"on", "tie", "next"} => c.arg \in SUBSET Keyer!Keyers)
      BY <2>3 DEF BuiltFrom
    <3>2. c.seen \in Nat
      BY <3>1 DEF CommandSet
    <3>3. c.seen <= n.changes /\ c.seen # n.changes
      BY <1>2, <2>1, <3>1, <3>2
    <3>4. QED BY <3>1, <3>3 DEF BuiltFrom
  <2>4. QED BY <2>2, <2>3
<1>3. QED BY <1>1, <1>2

LEMMA SeqMonotone ==
    ASSUME NEW S, NEW T, S \subseteq T, NEW s \in Seq(S)
    PROVE  s \in Seq(T)
OBVIOUS

LEMMA KeyerInit == Keyer!PpInit => KeyerInv
<1> SUFFICES ASSUME Keyer!PpInit PROVE KeyerInv
  OBVIOUS
<1>1. mixer \in States
  <2>1. mixer \in [program : PpInputs, preview : PpInputs, on : {{}},
                   tied : {{}, {Keyer!Usk(1)}}, position : {0}, changes : {0}]
    BY DEF Keyer!PpInit
  <2>2. QED BY <2>1, KeyerConstants DEF States
<1>2. ppPressed = {} /\ IsFiniteSet(ppPressed)
  BY FS_EmptySet DEF Keyer!PpInit
<1>3. saved \in [preview : Nat, tied : BOOLEAN, seen : Nat] /\ saved.seen = 0
  BY DEF Keyer!PpInit
<1>4. saved.seen <= mixer.changes
  BY <1>1, <1>3 DEF States
<1>5. known \in UpTo(mixer)
  BY <1>1, UpToIs DEF Keyer!PpInit
<1>6. ppAt = "sleep" /\ ppBus \in {"program", "preview"} /\ ppMailbox = <<>> /\ toDesk = <<>>
      /\ toMixer = <<>> /\ keyerLamp = [k \in Keyer!Keyers |-> "none"]
  BY DEF Keyer!PpInit
<1>7. QED BY <1>1, <1>2, <1>3, <1>4, <1>5, <1>6 DEF KeyerInv

LEMMA BecomeIs ==
    ASSUME KeyerInv, NEW new \in States, new.changes = mixer.changes, Keyer!Become(new)
    PROVE  /\ mixer' \in States
           /\ mixer' = mixer \/ mixer'.changes = mixer.changes + 1
           /\ toDesk' \in Seq(UpTo(mixer'))
           /\ [mixer' EXCEPT !.changes = mixer.changes] = new
<1>1. mixer \in States /\ mixer.changes \in Nat /\ mixer.changes + 1 \in Nat
  BY DEF KeyerInv, States
<1>2. CASE new = mixer
  BY <1>1, <1>2 DEF Keyer!Become, KeyerInv, States
<1>3. CASE new # mixer
  <2>1. mixer' = [new EXCEPT !.changes = mixer.changes + 1]
    BY <1>3 DEF Keyer!Become
  <2>2. mixer' \in States /\ mixer'.changes = mixer.changes + 1
    BY <1>1, <2>1 DEF States
  <2>3. toDesk' = Append(toDesk, mixer')
    BY <1>3 DEF Keyer!Become
  <2>4. toDesk \in Seq(UpTo(mixer')) /\ mixer' \in UpTo(mixer')
    <3>1. UpTo(mixer) \subseteq UpTo(mixer')
      BY <1>1, <2>2, ChangeIs
    <3>2. QED BY <2>2, <3>1, UpToIs, SeqMonotone DEF KeyerInv
  <2>5. [mixer' EXCEPT !.changes = mixer.changes] = new
    BY <1>1, <2>1 DEF States
  <2>6. QED BY <2>2, <2>3, <2>4, <2>5
<1>4. QED BY <1>2, <1>3

LEMMA BecomeStep ==
    ASSUME KeyerInv, NEW new \in States, new.changes = mixer.changes, Keyer!Become(new),
           UNCHANGED <<ppAt, ppBus, ppPressed, known, saved, keyerLamp, ppMailbox>>,
           toMixer' \in Seq(BuiltFrom(mixer))
    PROVE  KeyerInv'
<1>1. /\ mixer' \in States
      /\ mixer' = mixer \/ mixer'.changes = mixer.changes + 1
      /\ toDesk' \in Seq(UpTo(mixer'))
  BY BecomeIs
<1>2. mixer \in States
  BY DEF KeyerInv
<1>3. UpTo(mixer) \subseteq UpTo(mixer') /\ BuiltFrom(mixer) \subseteq BuiltFrom(mixer')
  BY <1>1, <1>2, ChangeIs
<1>4. /\ known' \in UpTo(mixer') /\ ppMailbox' \in Seq(UpTo(mixer'))
      /\ toMixer' \in Seq(BuiltFrom(mixer'))
  BY <1>3, SeqMonotone DEF KeyerInv
<1>5. saved.seen \in Nat /\ saved.seen <= mixer.changes /\ mixer.changes \in Nat
      /\ mixer'.changes \in Nat
  BY <1>1, <1>2 DEF KeyerInv, States
<1>6. saved'.seen <= mixer'.changes
      /\ (ppAt' = "tied" /\ saved'.seen = mixer'.changes => mixer'.program = mixer'.preview)
  <2>1. CASE mixer' = mixer
    BY <2>1 DEF KeyerInv
  <2>2. CASE mixer'.changes = mixer.changes + 1
    BY <1>5, <2>2
  <2>3. QED BY <1>1, <2>1, <2>2
<1>7. /\ ppAt' = ppAt /\ ppBus' = ppBus /\ ppPressed' = ppPressed /\ keyerLamp' = keyerLamp
      /\ saved' = saved
  OBVIOUS
<1>8. QED BY <1>1, <1>4, <1>6, <1>7 DEF KeyerInv

(* The desk's copy.                                                        *)
LEMMA KnownIs ==
    ASSUME KeyerInv
    PROVE  /\ known \in States /\ known.changes \in Nat /\ known.changes <= mixer.changes
           /\ known.changes = mixer.changes => known = mixer
           /\ mixer \in States /\ mixer.changes \in Nat
BY DEF KeyerInv, UpTo, States

(* A command the desk builds is of what it is to be, and was built from    *)
(* the copy.                                                               *)
LEMMA CmdIs ==
    ASSUME KeyerInv, NEW what \in {"on", "tie", "next", "preview", "auto"},
           NEW arg \in SUBSET Keyer!Keyers, NEW key \in Keyer!PpKeys
    PROVE  LET c == Keyer!Cmd(what, arg, key)
           IN  /\ c \in CommandSet /\ c.what = what /\ c.arg = arg /\ c.key = key
               /\ c.seen = known.changes
BY KnownIs DEF Keyer!Cmd, CommandSet

(* The command of a key, built from the copy.                              *)
LEMMA ToggleIs ==
    ASSUME KeyerInv, NEW k \in Keyer!Keyers
    PROVE  Keyer!Toggle(k) \in BuiltFrom(mixer)
<1>1. k \in Keyer!PpKeys /\ k # Keyer!Macro /\ {k} \ known.on \in SUBSET Keyer!Keyers
      /\ {k} \ known.tied \in SUBSET Keyer!Keyers
  BY KeyerConstants DEF Keyer!PpKeys
<1>2. CASE ppBus = "program"
  <2>1. Keyer!Toggle(k) = Keyer!Cmd("on", {k} \ known.on, k)
    BY <1>2 DEF Keyer!Toggle
  <2> DEFINE c == Keyer!Cmd("on", {k} \ known.on, k)
  <2>2. /\ c \in CommandSet /\ c.what = "on" /\ c.arg = {k} \ known.on /\ c.key = k
        /\ c.seen = known.changes
    BY <1>1, CmdIs
  <2> HIDE DEF c
  <2>3. c \in BuiltFrom(mixer)
    BY <1>1, <2>2, KnownIs DEF BuiltFrom
  <2>4. QED BY <2>1, <2>3 DEF c
<1>3. CASE ppBus # "program" /\ k[1] = "dsk"
  <2>1. Keyer!Toggle(k) = Keyer!Cmd("tie", {k} \ known.tied, k)
    BY <1>3 DEF Keyer!Toggle
  <2> DEFINE c == Keyer!Cmd("tie", {k} \ known.tied, k)
  <2>2. /\ c \in CommandSet /\ c.what = "tie" /\ c.arg = {k} \ known.tied /\ c.key = k
        /\ c.seen = known.changes
    BY <1>1, CmdIs
  <2> HIDE DEF c
  <2>3. c \in BuiltFrom(mixer)
    BY <1>1, <2>2, KnownIs DEF BuiltFrom
  <2>4. QED BY <2>1, <2>3 DEF c
<1>4. CASE ppBus # "program" /\ k[1] # "dsk"
  <2>1. k[1] = "usk" /\ k = Keyer!Usk(k[2])
    BY <1>4, KeyerConstants
  <2>2. Usks(known.tied) \in SUBSET Keyer!Keyers
    BY KnownIs DEF States, Usks
  <2> DEFINE arg == Keyer!Flipped(Usks(known.tied), k)
  <2>3. Keyer!Toggle(k) = Keyer!Cmd("next", arg, k)
    BY <1>4, <2>1 DEF Keyer!Toggle, Keyer!NextUsk, Keyer!TiedUsks, Keyer!Flipped, Usks
  <2>4. arg \in SUBSET Keyer!Keyers
    BY <2>2 DEF Keyer!Flipped
  <2> DEFINE c == Keyer!Cmd("next", arg, k)
  <2>5. /\ c \in CommandSet /\ c.what = "next" /\ c.arg = arg /\ c.key = k
        /\ c.seen = known.changes
    BY <1>1, <2>4, CmdIs
  <2> HIDE DEF c
  <2>6. c \in BuiltFrom(mixer)
    BY <1>1, <2>1, <2>4, <2>5, KnownIs DEF BuiltFrom
  <2>7. QED BY <2>3, <2>6 DEF c
<1>5. QED BY <1>2, <1>3, <1>4

LEMMA TogglesAre ==
    ASSUME KeyerInv, NEW t \in Keyer!Toggles
    PROVE  t \in Seq(BuiltFrom(mixer))
<1> DEFINE K == ppPressed \cap Keyer!Keyers
<1>1. Keyer!Cardinality(K) \in Nat
  BY FiniteSetsSame, FS_Intersection, FS_CardinalityType DEF KeyerInv
<1>2. PICK n \in Nat : n = Keyer!Cardinality(K)
  BY <1>1
<1>3. PICK hit \in [1..n -> K] : t = [i \in DOMAIN hit |-> Keyer!Toggle(hit[i])]
  BY <1>2 DEF Keyer!Toggles, Keyer!Ordered
<1>4. ASSUME NEW i \in 1..n PROVE Keyer!Toggle(hit[i]) \in BuiltFrom(mixer)
  <2>1. hit[i] \in Keyer!Keyers
    BY <1>3
  <2>2. QED BY <2>1, ToggleIs
<1>5. t \in [1..n -> BuiltFrom(mixer)]
  BY <1>3, <1>4
<1>6. QED BY <1>5

(* A command of the sequence that sets the next transition.                *)
LEMMA MacroNextIs ==
    ASSUME KeyerInv, NEW on \in BOOLEAN
    PROVE  Keyer!NextUsk(Keyer!TiedUsks, 1, on, Keyer!Macro) \in BuiltFrom(mixer)
<1> DEFINE arg == IF on THEN Keyer!TiedUsks \cup {Keyer!Usk(1)} ELSE Keyer!TiedUsks \ {Keyer!Usk(1)}
           c == Keyer!Cmd("next", arg, Keyer!Macro)
<1>1. Keyer!TiedUsks \in SUBSET Keyer!Keyers
  BY KnownIs DEF States, Keyer!TiedUsks
<1>2. arg \in SUBSET Keyer!Keyers
  BY <1>1, KeyerConstants
<1> HIDE DEF arg
<1>3. Keyer!Macro \in Keyer!PpKeys
  BY DEF Keyer!PpKeys
<1>4. /\ c \in CommandSet /\ c.what = "next" /\ c.arg = arg /\ c.key = Keyer!Macro
      /\ c.seen = known.changes
  BY <1>2, <1>3, CmdIs
<1> HIDE DEF c
<1>5. c \in BuiltFrom(mixer)
  BY <1>2, <1>4, KnownIs, KeyerConstants DEF BuiltFrom
<1>6. QED BY <1>5 DEF c, arg, Keyer!NextUsk

LEMMA PreviewIs ==
    ASSUME KeyerInv, NEW input \in Nat
    PROVE  Keyer!Cmd("preview", input, Keyer!Macro) \in BuiltFrom(mixer)
<1> DEFINE c == Keyer!Cmd("preview", input, Keyer!Macro)
<1>1. Keyer!Macro \in Keyer!PpKeys
  BY DEF Keyer!PpKeys
<1>0. input \in (SUBSET Keyer!Keyers) \cup Nat
  BY Zenon
<1>2. c \in CommandSet /\ c.what = "preview" /\ c.key = Keyer!Macro /\ c.seen = known.changes
  BY <1>0, <1>1, KnownIs, Zenon DEF Keyer!Cmd, CommandSet
<1> HIDE DEF c
<1>3. c \in BuiltFrom(mixer)
  BY <1>2, KnownIs, KeyerConstants DEF BuiltFrom
<1>4. QED BY <1>3 DEF c

(* What a step of the desk has to show; the switcher does not change in it.*)
LEMMA DeskStep ==
    ASSUME KeyerInv, UNCHANGED <<mixer, toDesk>>,
           ppAt' \in {"sleep", "lamps", "keys", "show", "operate"} \cup Keyer!Loops,
           ppBus' \in {"program", "preview", "aux"},
           ppPressed' \subseteq ppPressed, keyerLamp' \in [Keyer!Keyers -> {"none", "off", "yellow"}],
           known' \in UpTo(mixer), ppMailbox' \in Seq(UpTo(mixer)),
           toMixer' \in Seq(BuiltFrom(mixer)),
           saved' \in [preview : Nat, tied : BOOLEAN, seen : Nat], saved'.seen <= mixer.changes,
           ppAt' = "tied" /\ saved'.seen = mixer.changes => mixer.program = mixer.preview
    PROVE  KeyerInv'
<1>1. ppPressed' \subseteq Keyer!PpKeys /\ IsFiniteSet(ppPressed')
  BY FS_Subset DEF KeyerInv
<1>2. mixer' = mixer /\ toDesk' = toDesk
  OBVIOUS
<1>3. QED BY <1>1, <1>2 DEF KeyerInv

LEMMA DrainedIs ==
    ASSUME KeyerInv, Keyer!Drained
    PROVE  known' \in UpTo(mixer) /\ ppMailbox' \in Seq(UpTo(mixer))
<1>1. CASE ppMailbox = <<>>
  BY <1>1 DEF Keyer!Drained, KeyerInv
<1>2. CASE ppMailbox # <<>>
  <2>1. ppMailbox \in Seq(UpTo(mixer))
    BY DEF KeyerInv
  <2>2. ppMailbox[Len(ppMailbox)] \in UpTo(mixer)
    BY <1>2, <2>1
  <2>3. QED BY <1>2, <2>2 DEF Keyer!Drained, Keyer!Last
<1>3. QED BY <1>1, <1>2

LEMMA WakeStep == KeyerInv /\ Keyer!Wake => KeyerInv'
<1> SUFFICES ASSUME KeyerInv, Keyer!Wake PROVE KeyerInv'
  OBVIOUS
<1>1. known' \in UpTo(mixer) /\ ppMailbox' \in Seq(UpTo(mixer))
  BY DrainedIs DEF Keyer!Wake
<1>2. ppAt' = "lamps" /\ UNCHANGED <<ppBus, ppPressed, saved, keyerLamp, toDesk, toMixer, mixer>>
  BY DEF Keyer!Wake, Keyer!Goto, Keyer!user, Keyer!lamps
<1>3. QED BY <1>1, <1>2, DeskStep DEF KeyerInv

LEMMA GoRoundStep == KeyerInv /\ Keyer!GoRound => KeyerInv'
<1> SUFFICES ASSUME KeyerInv, Keyer!GoRound PROVE KeyerInv'
  OBVIOUS
<1>1. known' \in UpTo(mixer) /\ ppMailbox' \in Seq(UpTo(mixer))
  BY DrainedIs DEF Keyer!GoRound
<1>2. UNCHANGED <<ppAt, ppBus, ppPressed, saved, keyerLamp, toDesk, toMixer, mixer>>
  BY DEF Keyer!GoRound, Keyer!user, Keyer!lamps
<1>3. QED BY <1>1, <1>2, DeskStep DEF KeyerInv

(* The lamps.                                                              *)
LEMMA KeyerLampStep ==
    ASSUME KeyerInv, Keyer!SetInputLedColors \/ Keyer!ShowKeyers \/ Keyer!DoBlink
    PROVE  KeyerInv'
<1>1. /\ ppAt' = ppAt \/ ppAt' \in {"keys", "operate"}
      /\ UNCHANGED <<ppBus, ppPressed, known, saved, ppMailbox, toDesk, toMixer, mixer>>
  BY DEF Keyer!SetInputLedColors, Keyer!ShowKeyers, Keyer!DoBlink, Keyer!Goto, Keyer!user
<1>2. keyerLamp' \in [Keyer!Keyers -> {"none", "off", "yellow"}]
  <2>1. CASE Keyer!ShowKeyers
    <3>1. \A k \in Keyer!Keyers : Keyer!KeyerColor(k) \in {"none", "off", "yellow"}
      BY DEF Keyer!KeyerColor
    <3>2. keyerLamp' = [k \in Keyer!Keyers |-> Keyer!KeyerColor(k)]
      BY <2>1 DEF Keyer!ShowKeyers
    <3>3. QED BY <3>1, <3>2
  <2>2. CASE keyerLamp' = keyerLamp
    BY <2>2 DEF KeyerInv
  <2>3. QED BY <2>1, <2>2 DEF Keyer!SetInputLedColors, Keyer!DoBlink
<1>3. QED BY <1>1, <1>2, DeskStep DEF KeyerInv

LEMMA ProcessSpecialsStep == KeyerInv /\ Keyer!ProcessSpecials => KeyerInv'
<1> SUFFICES ASSUME KeyerInv, Keyer!ProcessSpecials PROVE KeyerInv'
  OBVIOUS
<1>1. UNCHANGED <<ppBus, known, keyerLamp, ppMailbox, toDesk, mixer>>
  BY DEF Keyer!ProcessSpecials, Keyer!lamps
<1>2. saved \in [preview : Nat, tied : BOOLEAN, seen : Nat] /\ saved.seen <= mixer.changes
      /\ toMixer \in Seq(BuiltFrom(mixer))
  BY DEF KeyerInv
<1>3. CASE ppAt' = "show" /\ UNCHANGED <<ppPressed, saved, toMixer>>
  BY <1>1, <1>3, DeskStep DEF KeyerInv
<1>4. CASE Keyer!TooglePictureInPicture /\ ppPressed' = ppPressed \ (Keyer!Keyers \cup {Keyer!Macro})
  <2>1. PICK t \in Keyer!Toggles :
            toMixer' = toMixer \o (t \o <<Keyer!Cmd("preview", known.program, Keyer!Macro)>>)
    BY <1>4 DEF Keyer!TooglePictureInPicture, Keyer!Send
  <2>2. known.program \in Nat /\ known.preview \in Nat
    BY KnownIs, PanelAssumption DEF States
  <2>3. <<Keyer!Cmd("preview", known.program, Keyer!Macro)>> \in Seq(BuiltFrom(mixer))
    BY <2>2, PreviewIs
  <2>4. t \in Seq(BuiltFrom(mixer))
    BY TogglesAre
  <2>5. toMixer' \in Seq(BuiltFrom(mixer))
    BY <1>2, <2>1, <2>3, <2>4, ConcatIs
  <2>6. /\ saved' = [saved EXCEPT !.preview = known.preview % 256] /\ ppAt' = "same"
        /\ known.preview % 256 \in Nat
    BY <1>4, <2>2 DEF Keyer!TooglePictureInPicture
  <2>7. saved' \in [preview : Nat, tied : BOOLEAN, seen : Nat] /\ saved'.seen = saved.seen
    BY <1>2, <2>6
  <2>8. QED BY <1>1, <1>2, <1>4, <2>5, <2>6, <2>7, DeskStep DEF KeyerInv, Keyer!Loops
<1>5. CASE /\ ppAt' = "show" /\ (\E t \in Keyer!Toggles : Keyer!Send(t))
           /\ ppPressed' = ppPressed \ Keyer!Keyers /\ UNCHANGED saved
  <2>1. PICK t \in Keyer!Toggles : toMixer' = toMixer \o t
    BY <1>5 DEF Keyer!Send
  <2>2. toMixer' \in Seq(BuiltFrom(mixer))
    BY <1>2, <2>1, TogglesAre, ConcatIs
  <2>3. QED BY <1>1, <1>2, <1>5, <2>2, DeskStep DEF KeyerInv
<1>6. QED BY <1>3, <1>4, <1>5 DEF Keyer!ProcessSpecials

LEMMA LeaveLoopStep == KeyerInv /\ Keyer!LeaveLoop => KeyerInv'
<1> SUFFICES ASSUME KeyerInv, Keyer!LeaveLoop PROVE KeyerInv'
  OBVIOUS
<1>1. UNCHANGED <<ppBus, ppPressed, known, keyerLamp, ppMailbox, toDesk, mixer>>
  BY DEF Keyer!LeaveLoop, Keyer!user, Keyer!lamps
<1>2. /\ saved \in [preview : Nat, tied : BOOLEAN, seen : Nat] /\ saved.seen <= mixer.changes
      /\ toMixer \in Seq(BuiltFrom(mixer)) /\ saved.tied \in BOOLEAN /\ saved.preview \in Nat
      /\ saved.seen \in Nat
  BY DEF KeyerInv
<1>3. ppAt \in Keyer!Loops /\ Keyer!Arrived(ppAt) /\ ppAt' = Keyer!After[ppAt]
      /\ toMixer' = toMixer \o Keyer!Then(ppAt)
  BY DEF Keyer!LeaveLoop, Keyer!Send
<1>4. ppAt' \in {"show"} \cup Keyer!Loops /\ (ppAt' = "tied" => ppAt = "same")
  BY <1>3 DEF Keyer!After, Keyer!Loops
<1>5. Keyer!Then(ppAt) \in Seq(BuiltFrom(mixer))
  <2>1. CASE ppAt = "same"
    <3>1. Keyer!Then(ppAt) = <<Keyer!NextUsk(Keyer!TiedUsks, 1, TRUE, Keyer!Macro)>>
      BY <2>1 DEF Keyer!Then
    <3>2. PICK c \in BuiltFrom(mixer) : c = Keyer!NextUsk(Keyer!TiedUsks, 1, TRUE, Keyer!Macro)
      BY MacroNextIs, Zenon
    <3>3. Keyer!Then(ppAt) = <<c>>
      BY <3>1, <3>2, Zenon
    <3>4. QED BY <3>3
  <2>2. CASE ppAt = "tied"
    <3> DEFINE c == [Keyer!Cmd("auto", {}, Keyer!Macro) EXCEPT !.seen = saved.seen]
    <3>1. Keyer!Then(ppAt) = <<c>>
      BY <2>2 DEF Keyer!Then
    <3>2. Keyer!Macro \in Keyer!PpKeys
      BY DEF Keyer!PpKeys
    <3>3. c \in CommandSet /\ c.what = "auto" /\ c.key = Keyer!Macro /\ c.seen = saved.seen
      BY <1>2, <3>2 DEF CommandSet, Keyer!Cmd
    <3> HIDE DEF c
    <3>4. saved.seen = mixer.changes => mixer.program = mixer.preview
      BY <2>2 DEF KeyerInv
    <3>5. c \in BuiltFrom(mixer)
      BY <1>2, <3>3, <3>4, KeyerConstants DEF BuiltFrom
    <3>6. QED BY <3>1, <3>5
  <2>3. CASE ppAt = "ended"
    <3>1. Keyer!Then(ppAt) = <<Keyer!NextUsk(Keyer!TiedUsks, 1, saved.tied, Keyer!Macro)>>
      BY <2>3 DEF Keyer!Then
    <3>2. PICK c \in BuiltFrom(mixer) : c = Keyer!NextUsk(Keyer!TiedUsks, 1, saved.tied, Keyer!Macro)
      BY <1>2, MacroNextIs, Zenon
    <3>3. Keyer!Then(ppAt) = <<c>>
      BY <3>1, <3>2, Zenon
    <3>4. QED BY <3>3
  <2>4. CASE ppAt = "reset"
    <3>1. Keyer!Then(ppAt) = <<Keyer!Cmd("preview", saved.preview, Keyer!Macro)>>
      BY <2>4 DEF Keyer!Then
    <3>2. Keyer!Cmd("preview", saved.preview, Keyer!Macro) \in BuiltFrom(mixer)
      BY <1>2, PreviewIs
    <3>3. QED BY <3>1, <3>2
  <2>5. CASE ppAt \in {"begun", "restored"}
    <3>1. Keyer!Then(ppAt) = <<>>
      BY <2>5 DEF Keyer!Then
    <3>2. QED BY <3>1
  <2>6. QED BY <1>3, <2>1, <2>2, <2>3, <2>4, <2>5 DEF Keyer!Loops
<1>6. toMixer' \in Seq(BuiltFrom(mixer))
  BY <1>2, <1>3, <1>5, ConcatIs
<1>7. CASE ppAt = "same"
  <2> DEFINE b == Keyer!Usk(1) \in known.tied
  <2>0. b \in BOOLEAN /\ known.changes \in Nat
    BY KnownIs
  <2>1. saved' = [saved EXCEPT !.tied = b, !.seen = known.changes]
        /\ known.program = known.preview
    BY <1>3, <1>7 DEF Keyer!LeaveLoop, Keyer!Arrived
  <2> HIDE DEF b
  <2>2. saved' \in [preview : Nat, tied : BOOLEAN, seen : Nat] /\ saved'.seen = known.changes
    BY <1>2, <2>0, <2>1
  <2>3. saved'.seen <= mixer.changes
        /\ (saved'.seen = mixer.changes => mixer.program = mixer.preview)
    BY <2>1, <2>2, KnownIs
  <2>4. QED BY <1>1, <1>4, <1>6, <2>2, <2>3, DeskStep DEF KeyerInv
<1>8. CASE ppAt # "same"
  <2>1. saved' = saved /\ ppAt' # "tied"
    BY <1>4, <1>8 DEF Keyer!LeaveLoop
  <2>2. QED BY <1>1, <1>2, <1>4, <1>6, <2>1, DeskStep DEF KeyerInv
<1>9. QED BY <1>7, <1>8

LEMMA OperateStep == KeyerInv /\ Keyer!Operate => KeyerInv'
<1> SUFFICES ASSUME KeyerInv, Keyer!Operate PROVE KeyerInv'
  OBVIOUS
<1>1. UNCHANGED <<ppBus, known, saved, keyerLamp, ppMailbox, toDesk, mixer>> /\ ppAt' = "sleep"
  BY DEF Keyer!Operate, Keyer!lamps, Keyer!Goto
<1>2. ppPressed' \subseteq ppPressed /\ toMixer \in Seq(BuiltFrom(mixer))
  BY DEF Keyer!Operate, KeyerInv
<1> DEFINE c == Keyer!Cmd("auto", {}, Keyer!Auto)
<1>3. Keyer!Auto \in Keyer!PpKeys /\ Keyer!Auto # Keyer!Macro
  BY DEF Keyer!PpKeys, Keyer!Auto, Keyer!Macro
<1>4. c \in CommandSet /\ c.what = "auto" /\ c.key = Keyer!Auto /\ c.seen = known.changes
  BY <1>3, CmdIs
<1> HIDE DEF c
<1>5. c \in BuiltFrom(mixer)
  BY <1>3, <1>4, KnownIs, KeyerConstants DEF BuiltFrom
<1>6. toMixer' = toMixer \o <<c>> \/ toMixer' = toMixer \o <<>>
  BY DEF Keyer!Operate, Keyer!Send, c
<1>7. <<c>> \in Seq(BuiltFrom(mixer)) /\ <<>> \in Seq(BuiltFrom(mixer))
  BY <1>5
<1>8. toMixer' \in Seq(BuiltFrom(mixer))
  BY <1>2, <1>6, <1>7, ConcatIs
<1>9. QED BY <1>1, <1>2, <1>8, DeskStep DEF KeyerInv

(* The user and the packets.                                               *)
LEMMA UserStep ==
    ASSUME KeyerInv,
           \/ \E k \in Keyer!PpKeys : Keyer!PressKey(k) \/ Keyer!LetGo(k)
           \/ \E bus \in {"program", "preview", "aux"} : Keyer!SelectBus(bus)
    PROVE  KeyerInv'
<1>1. UNCHANGED <<ppAt, known, saved, keyerLamp, ppMailbox, toDesk, toMixer, mixer>>
  BY DEF Keyer!PressKey, Keyer!LetGo, Keyer!SelectBus, Keyer!lamps
<1>2. ppBus' \in {"program", "preview", "aux"}
  BY DEF Keyer!PressKey, Keyer!LetGo, Keyer!SelectBus, KeyerInv
<1>3. ppPressed' \subseteq Keyer!PpKeys /\ IsFiniteSet(ppPressed')
  <2>1. ASSUME NEW k \in Keyer!PpKeys, ppPressed' = ppPressed \cup {k} PROVE IsFiniteSet(ppPressed')
    BY <2>1, FS_AddElement DEF KeyerInv
  <2>2. ASSUME ppPressed' \subseteq ppPressed PROVE IsFiniteSet(ppPressed')
    BY <2>2, FS_Subset DEF KeyerInv
  <2>3. \/ \E k \in Keyer!PpKeys : ppPressed' = ppPressed \cup {k}
        \/ ppPressed' \subseteq ppPressed
    BY DEF Keyer!PressKey, Keyer!LetGo, Keyer!SelectBus
  <2>4. QED BY <2>1, <2>2, <2>3 DEF KeyerInv
<1>4. QED BY <1>1, <1>2, <1>3 DEF KeyerInv

LEMMA DeliverStep == KeyerInv /\ Keyer!Deliver => KeyerInv'
<1> SUFFICES ASSUME KeyerInv, Keyer!Deliver PROVE KeyerInv'
  OBVIOUS
<1>1. UNCHANGED <<ppAt, ppBus, ppPressed, known, saved, keyerLamp, toMixer, mixer>>
  BY DEF Keyer!Deliver, Keyer!user, Keyer!lamps
<1>2. toDesk \in Seq(UpTo(mixer)) /\ toDesk # <<>> /\ ppMailbox \in Seq(UpTo(mixer))
  BY DEF Keyer!Deliver, KeyerInv
<1>3. toDesk' \in Seq(UpTo(mixer)) /\ ppMailbox' \in Seq(UpTo(mixer))
  BY <1>2, TailIs DEF Keyer!Deliver
<1>4. QED BY <1>1, <1>3 DEF KeyerInv

(* The switcher.                                                           *)
LEMMA EffectIs ==
    ASSUME KeyerInv, NEW c \in BuiltFrom(mixer)
    PROVE  Keyer!Effect(c) \in States /\ Keyer!Effect(c).changes = mixer.changes
<1>1. c \in CommandSet /\ (c.what \in {"on", "tie", "next"} => c.arg \in SUBSET Keyer!Keyers)
  BY DEF BuiltFrom
<1>2. mixer \in States
  BY DEF KeyerInv
<1>3. CASE c.what = "on"
  BY <1>1, <1>2, <1>3 DEF Keyer!Effect, Keyer!Put, States
<1>4. CASE c.what = "tie"
  BY <1>1, <1>2, <1>4 DEF Keyer!Effect, Keyer!Put, States
<1>5. CASE c.what = "next"
  BY <1>1, <1>2, <1>5 DEF Keyer!Effect, States
<1>6. CASE c.what = "preview"
  BY <1>1, <1>2, <1>6 DEF Keyer!Effect, States
<1>7. CASE c.what = "auto"
  BY <1>1, <1>2, <1>7 DEF Keyer!Effect, States
<1>8. QED BY <1>1, <1>3, <1>4, <1>5, <1>6, <1>7 DEF CommandSet

LEMMA TakeCommandStep == KeyerInv /\ Keyer!TakeCommand => KeyerInv'
<1> SUFFICES ASSUME KeyerInv, Keyer!TakeCommand PROVE KeyerInv'
  OBVIOUS
<1>1. toMixer \in Seq(BuiltFrom(mixer)) /\ toMixer # <<>> /\ toMixer' = Tail(toMixer)
  BY DEF KeyerInv, Keyer!TakeCommand
<1>2. Head(toMixer) \in BuiltFrom(mixer) /\ toMixer' \in Seq(BuiltFrom(mixer))
  BY <1>1, TailIs
<1>3. UNCHANGED <<ppAt, ppBus, ppPressed, known, saved, keyerLamp, ppMailbox>>
  BY DEF Keyer!TakeCommand, Keyer!user, Keyer!lamps
<1>4. Keyer!Become(Keyer!Effect(Head(toMixer)))
  BY DEF Keyer!TakeCommand
<1>5. QED BY <1>2, <1>3, <1>4, EffectIs, BecomeStep

LEMMA EndTransitionStep == KeyerInv /\ Keyer!EndTransition => KeyerInv'
<1> SUFFICES ASSUME KeyerInv, Keyer!EndTransition PROVE KeyerInv'
  OBVIOUS
<1> DEFINE On == {k \in Keyer!Keyers : (k \in mixer.on) # (k \in mixer.tied)}
           new == [mixer EXCEPT !.position = 0, !.program = mixer.preview,
                                !.preview = mixer.program, !.on = On]
<1>1. mixer \in States /\ On \in SUBSET Keyer!Keyers
  BY DEF KeyerInv
<1>2. Keyer!Become(new)
  BY <1>1 DEF Keyer!EndTransition, States
<1> HIDE DEF On
<1>3. new \in States /\ new.changes = mixer.changes
  BY <1>1 DEF States
<1>4. UNCHANGED <<ppAt, ppBus, ppPressed, known, saved, keyerLamp, ppMailbox, toMixer>>
  BY DEF Keyer!EndTransition, Keyer!user, Keyer!lamps
<1>5. toMixer' \in Seq(BuiltFrom(mixer))
  BY <1>4 DEF KeyerInv
<1> HIDE DEF new
<1>6. QED BY <1>2, <1>3, <1>4, <1>5, BecomeStep

LEMMA ByOthersStep ==
    ASSUME KeyerInv, NEW i \in PpInputs, Keyer!ByOthers(i)
    PROVE  KeyerInv'
<1> DEFINE new == [mixer EXCEPT !.preview = i]
<1>1. new \in States /\ new.changes = mixer.changes
  BY DEF KeyerInv, States
<1>2. /\ Keyer!Become(new)
      /\ UNCHANGED <<ppAt, ppBus, ppPressed, known, saved, keyerLamp, ppMailbox, toMixer>>
  BY DEF Keyer!ByOthers, Keyer!lamps
<1>3. toMixer' \in Seq(BuiltFrom(mixer))
  BY <1>2 DEF KeyerInv
<1> HIDE DEF new
<1>4. QED BY <1>1, <1>2, <1>3, BecomeStep

LEMMA KeyerStep == KeyerInv /\ [Keyer!PpNext]_(Keyer!ppVars) => KeyerInv'
<1> SUFFICES ASSUME KeyerInv, [Keyer!PpNext]_(Keyer!ppVars) PROVE KeyerInv'
  OBVIOUS
<1>1. CASE Keyer!Wake \/ Keyer!GoRound
  BY <1>1, WakeStep, GoRoundStep
<1>2. CASE Keyer!SetInputLedColors \/ Keyer!ShowKeyers \/ Keyer!DoBlink
  BY <1>2, KeyerLampStep
<1>3. CASE Keyer!ProcessSpecials \/ Keyer!LeaveLoop \/ Keyer!Operate
  BY <1>3, ProcessSpecialsStep, LeaveLoopStep, OperateStep
<1>4. CASE \/ \E k \in Keyer!PpKeys : Keyer!PressKey(k) \/ Keyer!LetGo(k)
           \/ \E bus \in {"program", "preview", "aux"} : Keyer!SelectBus(bus)
  BY <1>4, UserStep
<1>5. CASE Keyer!Deliver \/ Keyer!TakeCommand \/ Keyer!EndTransition
  BY <1>5, DeliverStep, TakeCommandStep, EndTransitionStep
<1>6. CASE \E i \in PpInputs : Keyer!ByOthers(i)
  BY <1>6, ByOthersStep
<1>7. CASE UNCHANGED Keyer!ppVars
  BY <1>7 DEF Keyer!ppVars, KeyerInv
<1>8. QED BY <1>1, <1>2, <1>3, <1>4, <1>5, <1>6, <1>7
     DEF Keyer!PpNext, Keyer!TimeCritical, Keyer!Mixer

(* No keyer command that was built from the state the switcher still is in *)
(* changes another keyer.                                                  *)
LEMMA OnlyItsKeyerStep ==
    ASSUME KeyerInv, Keyer!TakeCommand, Head(toMixer).what \in {"on", "tie", "next"},
           Head(toMixer).key \in Keyer!Keyers, Head(toMixer).seen = mixer.changes
    PROVE  LET c == Head(toMixer)
           IN  \/ mixer'.on = Keyer!Flipped(mixer.on, c.key) /\ mixer'.tied = mixer.tied
               \/ mixer'.tied = Keyer!Flipped(mixer.tied, c.key) /\ mixer'.on = mixer.on
<1> DEFINE c == Head(toMixer)
           new == Keyer!Effect(c)
<1>1. toMixer \in Seq(BuiltFrom(mixer)) /\ toMixer # <<>>
  BY DEF KeyerInv, Keyer!TakeCommand
<1>2. c \in BuiltFrom(mixer)
  BY <1>1, TailIs
<1>3. c.what \in {"on", "tie", "next"} /\ c.key \in Keyer!Keyers /\ c.seen = mixer.changes
  OBVIOUS
<1>4. new \in States /\ new.changes = mixer.changes /\ Keyer!Become(new) /\ mixer \in States
  BY <1>2, EffectIs DEF Keyer!TakeCommand, KeyerInv
<1> HIDE DEF c
<1>5. \/ new.on = Keyer!Flipped(mixer.on, c.key) /\ new.tied = mixer.tied
      \/ new.tied = Keyer!Flipped(mixer.tied, c.key) /\ new.on = mixer.on
  <2>1. CASE c.what = "on"
    <3>1. c.arg = {c.key} \ mixer.on
      BY <1>2, <1>3, <2>1 DEF BuiltFrom
    <3>2. new = [mixer EXCEPT !.on = Keyer!Put(mixer.on, c)]
      BY <2>1 DEF Keyer!Effect
    <3>3. Keyer!Put(mixer.on, c) = Keyer!Flipped(mixer.on, c.key)
      BY <3>1 DEF Keyer!Put, Keyer!Flipped
    <3>4. QED BY <1>4, <3>2, <3>3 DEF States
  <2>2. CASE c.what = "tie"
    <3>1. c.arg = {c.key} \ mixer.tied
      BY <1>2, <1>3, <2>2 DEF BuiltFrom
    <3>2. new = [mixer EXCEPT !.tied = Keyer!Put(mixer.tied, c)]
      BY <2>2 DEF Keyer!Effect
    <3>3. Keyer!Put(mixer.tied, c) = Keyer!Flipped(mixer.tied, c.key)
      BY <3>1 DEF Keyer!Put, Keyer!Flipped
    <3>4. QED BY <1>4, <3>2, <3>3 DEF States
  <2>3. CASE c.what = "next"
    <3>1. c.arg = Keyer!Flipped(Usks(mixer.tied), c.key) /\ c.key[1] = "usk"
      BY <1>2, <1>3, <2>3 DEF BuiltFrom
    <3> DEFINE set == {k \in mixer.tied : k[1] = "dsk"} \cup c.arg
    <3>2. new = [mixer EXCEPT !.tied = set]
      BY <2>3 DEF Keyer!Effect
    <3>3. \A k \in mixer.tied : (k[1] = "usk") # (k[1] = "dsk")
      BY <1>4, KeyerConstants DEF States
    <3>4. set = Keyer!Flipped(mixer.tied, c.key)
      BY <3>1, <3>3 DEF Keyer!Flipped, Usks
    <3> HIDE DEF set
    <3>5. QED BY <1>4, <3>2, <3>4 DEF States
  <2>4. QED BY <1>3, <2>1, <2>2, <2>3
<1>6. mixer'.on = new.on /\ mixer'.tied = new.tied
  <2>1. [mixer' EXCEPT !.changes = mixer.changes] = new /\ mixer' \in States
    BY <1>4, BecomeIs
  <2> HIDE DEF new
  <2>2. QED BY <2>1 DEF States
<1>7. QED BY <1>5, <1>6 DEF c

LEMMA ProgramKeptStep ==
    ASSUME KeyerInv, Keyer!TakeCommand, Head(toMixer).what = "auto",
           Head(toMixer).key = Keyer!Macro, Head(toMixer).seen = mixer.changes
    PROVE  mixer.program = mixer.preview
<1>1. toMixer \in Seq(BuiltFrom(mixer)) /\ toMixer # <<>>
  BY DEF KeyerInv, Keyer!TakeCommand
<1>2. Head(toMixer) \in BuiltFrom(mixer)
  BY <1>1, TailIs
<1>3. QED BY <1>2 DEF BuiltFrom

-----------------------------------------------------------------------------
(* The panel: a step of one part leaves the others as they are.            *)

PanelInv == MatrixInv /\ ProjInv /\ KeyerInv /\ MenuInv

LEMMA PanelInit == Init => PanelInv
BY MatrixInit, ProjInit, KeyerInit, MenuInit DEF Init, PanelInv

(* A step of the whole is, for each part, one of its own or none.          *)
LEMMA PartsStep ==
    ASSUME [Next]_vars
    PROVE  /\ [Matrix!MxNext]_(Matrix!mxVars) /\ [Proj!PrNext]_(Proj!prVars)
           /\ [Keyer!PpNext]_(Keyer!ppVars) /\ [Menu!MnNext]_(Menu!mnVars)
<1>1. CASE InMatrix /\ Matrix!MxNext
  BY <1>1 DEF InMatrix, projVars, keyerVars, menuVars, Proj!prVars, Keyer!ppVars, Menu!mnVars
<1>2. CASE InProj /\ Proj!PrNext
  BY <1>2 DEF InProj, matrixVars, keyerVars, menuVars, Matrix!mxVars, Keyer!ppVars, Menu!mnVars
<1>3. CASE InKeyer /\ Keyer!PpNext
  BY <1>3 DEF InKeyer, matrixVars, projVars, menuVars, Matrix!mxVars, Proj!prVars, Menu!mnVars
<1>4. CASE InMenu /\ Menu!MnNext
  BY <1>4 DEF InMenu, matrixVars, projVars, keyerVars, Matrix!mxVars, Proj!prVars, Keyer!ppVars
<1>5. CASE UNCHANGED vars
  BY <1>5 DEF vars, matrixVars, projVars, keyerVars, menuVars, Matrix!mxVars, Proj!prVars,
     Keyer!ppVars, Menu!mnVars
<1>6. QED BY <1>1, <1>2, <1>3, <1>4, <1>5 DEF Next

LEMMA PanelStep == PanelInv /\ [Next]_vars => PanelInv'
BY PartsStep, MatrixStep, ProjStep, KeyerStep, MenuStep DEF PanelInv

LEMMA PanelAlways == Spec => []PanelInv
<1>1. Init => PanelInv
  BY PanelInit
<1>2. PanelInv /\ [Next]_vars => PanelInv'
  BY PanelStep
<1>3. QED BY <1>1, <1>2, PTL DEF Spec

(* Every object of a request to the matrix is freed once, that of a request*)
(* a reset calls back and send() refuses too twice.  Unless something went *)
(* wrong with the last request for an output itself, what is believed of it*)
(* is what that asked for once no request for it is open, and is connected *)
(* once no command for it is under way (app/VideoMatrix.cpp,               *)
(* lib/MatrixSwitch.cpp).                                                  *)
THEOREM MatrixIsSound == Spec => []MatrixSound
<1>1. PanelInv => MatrixSound
  BY MatrixInvSound DEF PanelInv, MatrixSound
<1>2. QED BY <1>1, PanelAlways, PTL

(* One request for the projector's status is under way at most; nothing is *)
(* used before main() set it up, and a message that opens the log is shown *)
(* (app/OutputDisplays.cpp, main.cpp, lib/menu.cpp).                       *)
THEOREM PanelIsSound == Spec => []PanelSound
<1>1. PanelInv => PanelSound
  BY ProjInvSound, KeyerInvSound, MenuInvSound DEF PanelInv, PanelSound
<1>2. QED BY <1>1, PanelAlways, PTL

(* A key does what it says: one that was pressed while the projector's     *)
(* keys were disabled sends nothing, a keyer command changes its keyer     *)
(* alone, and the transition of the picture in picture keeps the program   *)
(* input, if the switcher is as the desk knew it (lib/ProjectorCtrl.cpp,   *)
(* app/Videoswitcher.cpp).                                                 *)
THEOREM KeysActAsSaid == Spec => KeysAct
<1> DEFINE NoDelayed == \A k \in Len(prLine) + 1..Len(prLine') :
                            prLine'[k] \in Proj!Commands => prLine'[k][1] \in fresh
           Only == LET c == Head(toMixer)
                   IN  Keyer!TakeCommand /\ c.what \in {"on", "tie", "next"}
                          /\ c.key \in Keyer!Keyers /\ c.seen = mixer.changes =>
                        \/ /\ mixer'.on = Keyer!Flipped(mixer.on, c.key)
                           /\ mixer'.tied = mixer.tied
                        \/ /\ mixer'.tied = Keyer!Flipped(mixer.tied, c.key)
                           /\ mixer'.on = mixer.on
           Kept == LET c == Head(toMixer)
                   IN  Keyer!TakeCommand /\ c.what = "auto" /\ c.key = Keyer!Macro
                          /\ c.seen = mixer.changes => mixer.program = mixer.preview
<1>1. PanelInv /\ [Next]_vars => [NoDelayed]_(Proj!prVars)
  BY PartsStep, NoDelayedStep DEF PanelInv
<1>2. PanelInv /\ [Next]_vars => [Only]_(Keyer!ppVars)
  BY OnlyItsKeyerStep DEF PanelInv
<1>3. PanelInv /\ [Next]_vars => [Kept]_(Keyer!ppVars)
  BY ProgramKeptStep DEF PanelInv
<1>4. QED
  BY <1>1, <1>2, <1>3, PanelAlways, PTL
  DEF Spec, KeysAct, Proj!NoDelayedPress, Keyer!OnlyItsKeyer, Keyer!ProgramKept
=============================================================================
