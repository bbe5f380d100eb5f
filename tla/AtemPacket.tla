----------------------------- MODULE AtemPacket -----------------------------
(***************************************************************************)
(* What travels between desk and switcher (lib/ATEM.cpp, lib/Stream.cpp):  *)
(* _parsePacket walks over the segments of a packet, each read into one    *)
(* buffer of 96 bytes, and stores the fields it knows; the commands for    *)
(* the same fields are laid out by the version of the switcher, which is   *)
(* one of the fields.  The order of packets and answers is in AtemSession. *)
(*                                                                         *)
(* A stream is counted in words of 8 bytes, the size of a segment's head.  *)
(* What is left of a segment that did not fit in the buffer is read as     *)
(* heads: its bytes are a length then, and never a name the desk knows.    *)
(***************************************************************************)
EXTENDS Integers, Sequences, SequencesExt

CONSTANTS
    PkFields,     \* fields of the state that occur
    PkInputs,     \* inputs that occur
    PkVersions,   \* versions of the switcher that occur
    PkBuffer,     \* words of the buffer (12 in the code)
    PkOther,      \* words of payload in segments the desk does not know
    PkJunk,       \* lengths the rest of such a payload looks like
    PkSegments,   \* segments in a packet
    PkMaxEvents   \* bound on packets, commands and changes elsewhere

VARIABLES
    copy, version,  \* the _ATEM_* fields
    mixer, mixerVersion, \* the switcher
    stream, offset, index, \* _packet and indexPointer: words read, words the heads tell of
    expected,       \* history: what the last packet says, where it is bound to be read
    asked,          \* history: the last command and whether its effect was read
    pkEvents        \* number of packets, commands and changes elsewhere

pkVars == <<copy, version, mixer, mixerVersion, stream, offset, index, expected, asked, pkEvents>>
walk   == <<stream, offset, index, expected>>

InputFields == {<<"PrgI", 0>>, <<"PrvI", 0>>} \union {<<"AuxS", n>> : n \in 1..3}
AllFields == InputFields \union {<<"TrSS", 0>>}
             \union {<<name, n>> : name \in {"DskS", "DskP"}, n \in 1..2}
             \union {<<"KeOn", n>> : n \in 1..4}

\* What the data may be; the byte of the next transition is always a field.
ASSUME PacketAssumption ==
    /\ PkFields \subseteq AllFields /\ <<"TrSS", 0>> \in PkFields
    /\ PkInputs \subseteq {"InBlack", "In1", "In8", "InBars", "InColor1", "InColor2",
                           "InMedia1", "InMedia2", "Program", "Preview"}
    /\ PkVersions \subseteq Nat \X Nat
    /\ PkBuffer \in Nat \ {0} /\ PkOther \subseteq Nat /\ PkJunk \subseteq Nat
    /\ PkSegments \in Nat /\ PkMaxEvents \in Nat

NotAsked == [field |-> <<"none", 0>>, value |-> 0, seen |-> FALSE]

PkInit ==
    /\ copy = [f \in PkFields |-> 0] /\ version = <<0, 0>>
    /\ mixer = [f \in PkFields |-> 0] /\ mixerVersion \in PkVersions
    /\ stream = <<>> /\ offset = 0 /\ index = 0
    /\ expected = <<>> /\ asked = NotAsked /\ pkEvents = 0

-----------------------------------------------------------------------------
(* The layout by version, and the numbers of the inputs in each.           *)
ver42(v) == v[1] > 2 \/ (v[1] >= 2 /\ v[2] >= 12)

InputNumber(i, new) ==
    CASE i = "InBlack"  -> 0
      [] i = "In1"      -> 1
      [] i = "In8"      -> 8
      [] i = "InBars"   -> IF new THEN 1000 ELSE 9
      [] i = "InColor1" -> IF new THEN 2001 ELSE 10
      [] i = "InColor2" -> IF new THEN 2002 ELSE 11
      [] i = "InMedia1" -> IF new THEN 3010 ELSE 12
      [] i = "InMedia2" -> IF new THEN 3020 ELSE 14
      [] i = "Program"  -> IF new THEN 10010 ELSE 16
      [] i = "Preview"  -> IF new THEN 10011 ELSE 17

Wide == 0..65535  \* two bytes
Hi(n) == (n \div 256) % 256
Lo(n) == n % 256
Input(b, new) == IF new THEN b[3] * 256 + b[4] ELSE b[2]
HasBit(mask, k) == (mask \div (2 ^ k)) % 2 = 1

\* mutant: bit 0 is taken for the first keyer, not for the background
NextMaskFromZero(k, on) ==
    LET mask == copy[<<"TrSS", 0>>]
    IN  IF HasBit(mask, k - 1) = on THEN mask ELSE IF on THEN mask + 2 ^ (k - 1) ELSE mask - 2 ^ (k - 1)

\* changeUpstreamKeyNextTransition: the mask of the copy with one bit changed.
NextMask(k, on) ==
    LET mask == copy[<<"TrSS", 0>>]
    IN  IF HasBit(mask, k) = on THEN mask ELSE IF on THEN mask + 2 ^ k ELSE mask - 2 ^ k

\* The first four bytes of the commands.
InputCommand(f, v) ==
    [name |-> IF f[1] = "PrgI" THEN "CPgI" ELSE "CPvI",
     b |-> IF ver42(version) THEN <<0, 0, Hi(v), Lo(v)>> ELSE <<0, Lo(v), 0, 0>>]

AuxCommand(f, v) ==
    [name |-> "CAuS",
     b |-> IF ver42(version) THEN <<1, f[2] - 1, Hi(v), Lo(v)>> ELSE <<f[2] - 1, Lo(v), 0, 0>>]

KeyerCommand(f, v) ==
    CASE f[1] = "TrSS" -> [name |-> "CTTp", b |-> <<2, 0, 106, v % 32>>]
      [] f[1] = "KeOn" -> [name |-> "CKOn", b |-> <<0, f[2] - 1, v, 144>>]
      [] f[1] = "DskS" -> [name |-> "CDsL", b |-> <<f[2] - 1, v, 255, 255>>]
      [] f[1] = "DskP" -> [name |-> "CDsT", b |-> <<f[2] - 1, v, 255, 255>>]

Command(f, v) == IF f \notin InputFields THEN KeyerCommand(f, v)
                 ELSE IF f[1] = "AuxS" THEN AuxCommand(f, v) ELSE InputCommand(f, v)

-----------------------------------------------------------------------------
(* The switcher (external): what it takes a command for, and a segment of  *)
(* its state.                                                              *)
Taken(c) ==
    LET new == ver42(mixerVersion)
        b == c.b
    IN  CASE c.name = "CPgI" -> [field |-> <<"PrgI", 0>>, value |-> Input(b, new)]
          [] c.name = "CPvI" -> [field |-> <<"PrvI", 0>>, value |-> Input(b, new)]
          [] c.name = "CAuS" -> [field |-> <<"AuxS", (IF new THEN b[2] ELSE b[1]) + 1>>,
                                 value |-> Input(b, new)]
          [] c.name = "CTTp" -> [field |-> <<"TrSS", 0>>, value |-> b[4]]
          [] c.name = "CKOn" -> [field |-> <<"KeOn", b[2] + 1>>, value |-> b[3]]
          [] c.name = "CDsL" -> [field |-> <<"DskS", b[1] + 1>>, value |-> b[2]]
          [] c.name = "CDsT" -> [field |-> <<"DskP", b[1] + 1>>, value |-> b[2]]

Payload(f) ==
    LET new == ver42(mixerVersion)
        v == mixer[f]
    IN  CASE f[1] \in {"PrgI", "PrvI"} -> IF new THEN <<0, 0, Hi(v), Lo(v)>> ELSE <<0, v, 0, 0>>
          [] f[1] = "AuxS" -> IF new THEN <<f[2] - 1, 0, Hi(v), Lo(v)>> ELSE <<f[2] - 1, v, 0, 0>>
          [] f[1] = "TrSS" -> <<0, 0, v, 0>>
          [] f[1] = "KeOn" -> <<0, f[2] - 1, v, 0>>
          [] f[1] \in {"DskS", "DskP"} -> <<f[2] - 1, v, 0, 0>>

NoBytes == <<0, 0, 0, 0>>
HeadOf(name, words) == [name |-> name, length |-> words + 1, b |-> NoBytes]
WordOf(bytes, as) == [name |-> "none", length |-> as, b |-> bytes]

Segments ==
    {<<HeadOf(f[1], 1), WordOf(Payload(f), 0)>> : f \in PkFields}
    \union {<<HeadOf("_ver", 1), WordOf(<<0, mixerVersion[1], 0, mixerVersion[2]>>, 0)>>}
    \union {<<HeadOf("TlSr", u[1])>> \o [i \in 1..u[1] |-> WordOf(NoBytes, u[2])] : u \in PkOther \X PkJunk}

\* The first segment that is empty or does not fit in the buffer, 0 if none.
Odd(segments) == SelectInSeq(segments, LAMBDA s : Len(s) - 1 \notin 1..PkBuffer)

BoundToBeRead(segments) ==
    LET last == IF Odd(segments) = 0 THEN Len(segments) ELSE Odd(segments) - 1
        named == {f \in PkFields : \E i \in 1..last :
                     segments[i] = <<HeadOf(f[1], 1), WordOf(Payload(f), 0)>>}
        sure == version = mixerVersion \/ segments[1][1].name = "_ver"
    IN  [f \in {g \in named : sure \/ g \notin InputFields} |-> mixer[f]]

SwitcherSends(segments) ==
    /\ stream = <<>> /\ pkEvents < PkMaxEvents /\ pkEvents' = pkEvents + 1
    /\ stream' = FlattenSeq(segments)
    /\ offset' = 0 /\ index' = 0
    /\ expected' = BoundToBeRead(segments)
    /\ UNCHANGED <<copy, version, mixer, mixerVersion, asked>>

ByOthers(f, v) ==
    /\ pkEvents < PkMaxEvents /\ pkEvents' = pkEvents + 1
    /\ mixer' = [mixer EXCEPT ![f] = v]
    /\ asked' = IF asked.field[1] = f[1] THEN NotAsked ELSE asked
    /\ UNCHANGED <<copy, version, mixerVersion, walk>>

\* The switcher starts anew, with other firmware.
Updated(v) ==
    /\ pkEvents < PkMaxEvents /\ pkEvents' = pkEvents + 1
    /\ mixerVersion' = v /\ mixer' = [f \in PkFields |-> 0]
    /\ asked' = NotAsked
    /\ UNCHANGED <<copy, version, walk>>

-----------------------------------------------------------------------------
(* The desk.  A command is for an input or a keyer, by the copy.           *)
Ask(f, v, value) ==
    /\ stream = <<>> /\ pkEvents < PkMaxEvents /\ pkEvents' = pkEvents + 1
    /\ LET taken == Taken(Command(f, v))
       IN  mixer' = IF taken.field \in PkFields THEN [mixer EXCEPT ![taken.field] = taken.value] ELSE mixer
    /\ asked' = IF version = mixerVersion THEN [field |-> f, value |-> value, seen |-> FALSE] ELSE NotAsked
    /\ UNCHANGED <<copy, version, mixerVersion, walk>>

ChooseInput(f, i) ==
    /\ f \in InputFields
    /\ Ask(f, InputNumber(i, ver42(version)), InputNumber(i, ver42(version)))

ToggleKeyer(f) ==
    /\ f[1] \in {"KeOn", "DskS", "DskP"}
    /\ Ask(f, 1 - copy[f], 1 - copy[f])

\* The keyer of the next transition is asked for as <<keyer, on>>.  The desk asks
\* for keyers 1 to 4; 0, the background, would be shifted by minus one.
ToggleNext(k) ==
    /\ LET on == ~HasBit(copy[<<"TrSS", 0>>], k)
       IN  Ask(<<"TrSS", 0>>, NextMask(k, on), <<k, on>>)

\* What a field is after a segment with its name was read.
Put(f, v) == IF f \in PkFields THEN [copy EXCEPT ![f] = v] ELSE copy

Stored(name, b) ==
    CASE name \in {"PrgI", "PrvI"} -> Put(<<name, 0>>, Input(b, ver42(version)))
      [] name = "AuxS" /\ b[1] <= 2 -> Put(<<name, b[1] + 1>>, Input(b, ver42(version)))
      [] name = "TrSS" -> Put(<<name, 0>>, b[3] % 32)
      [] name = "KeOn" /\ b[2] <= 3 -> Put(<<name, b[2] + 1>>, IF b[3] > 0 THEN 1 ELSE 0)
      [] name \in {"DskS", "DskP"} /\ b[1] <= 1 -> Put(<<name, b[1] + 1>>, IF b[2] > 0 THEN 1 ELSE 0)
      [] OTHER -> copy

\* Stream::copy: zeros where the packet has ended.
WordAt(n) == IF n < Len(stream) THEN stream[n + 1] ELSE WordOf(NoBytes, 0)

\* mutant: one word less than the buffer takes
ReadToPacketBufferShort(length) == IF length - 1 < PkBuffer THEN length - 1 ELSE PkBuffer - 1

\* _readToPacketBuffer: the words of the payload that are read.
ReadToPacketBuffer(length) == IF length - 1 < PkBuffer THEN length - 1 ELSE PkBuffer

WalkEnds == /\ stream' = <<>> /\ offset' = 0 /\ index' = 0
        /\ asked' = [asked EXCEPT !.seen = @ \/ asked.field \in DOMAIN expected]

\* One round of _parsePacket; a segment without payload ends it (2000).
ParseSegment ==
    /\ stream # <<>>
    /\ LET head == WordAt(offset)
       IN  IF index >= Len(stream) \/ head.length <= 1
             THEN WalkEnds /\ UNCHANGED <<copy, version>>
             ELSE LET b == WordAt(offset + 1).b
                  IN  /\ copy' = Stored(head.name, b)
                      /\ version' = IF head.name = "_ver" THEN <<b[2], b[4]>> ELSE version
                      /\ offset' = offset + 1 + ReadToPacketBuffer(head.length)
                      /\ index' = index + head.length
                      /\ UNCHANGED <<stream, asked>>
    /\ UNCHANGED <<mixer, mixerVersion, expected, pkEvents>>

Packets == UNION {[1..n -> Segments] : n \in 1..PkSegments}

PkNext ==
    \/ ParseSegment
    \/ \E p \in Packets : SwitcherSends(p)
    \/ \E f \in PkFields, i \in PkInputs : ChooseInput(f, i)
    \/ \E f \in PkFields : ToggleKeyer(f)
    \/ \E k \in 1..4 : ToggleNext(k)
    \/ \E f \in PkFields \ InputFields : ByOthers(f, 1)
    \/ \E f \in PkFields \intersect InputFields, i \in PkInputs :
           ByOthers(f, InputNumber(i, ver42(mixerVersion)))
    \/ \E v \in PkVersions : Updated(v)

\* With callers that ask for the background too.
PkSpec == PkInit /\ [][PkNext]_pkVars

-----------------------------------------------------------------------------
(* The type invariant: fields have their widths, also those of the         *)
(* switcher, and the walk never reads further than one round past the end. *)
PkTypeOK ==
    /\ copy \in [PkFields -> Wide] /\ mixer \in [PkFields -> Wide]
    /\ version \in PkVersions \union {<<0, 0>>} /\ mixerVersion \in PkVersions
    /\ offset <= index /\ index \in Nat
    /\ pkEvents \in 0..PkMaxEvents

(* A packet that was read is in the copy: every field it carried up to the *)
(* first segment that is empty or larger than the buffer (what follows one *)
(* is lost), the inputs in the layout of the version as the desk knew it.  *)
PacketRead == stream = <<>> => \A f \in DOMAIN expected : copy[f] = expected[f]

(* What was asked for is what the desk is told afterwards: commands and    *)
(* state have the same layouts and widths, the keyers the same numbers (1  *)
(* to 4; the background of the next transition, keyer 0, is not asked for),*)
(* and the lamp of the input that was chosen is the one that lights.       *)
EchoAgrees ==
    asked.seen /\ stream = <<>> =>
        IF asked.field[1] = "TrSS"
          THEN HasBit(copy[asked.field], asked.value[1]) = asked.value[2]
          ELSE copy[asked.field] = asked.value

(* The packets are sound: the walk stays inside, and what was sent is read.*)
PacketsSound == PkTypeOK /\ PacketRead
=============================================================================
