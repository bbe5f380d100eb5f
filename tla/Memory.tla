------------------------------- MODULE Memory -------------------------------
(***************************************************************************)
(* The settings in the EEPROM (app/Memory.cpp over lib/hw/MCP24AA04.cpp)   *)
(* and what the desk makes of them when it starts: migrate(), the network  *)
(* address of main(), the mapping that ButtonMapper loads.                 *)
(*                                                                         *)
(* Power may fail between any two accesses and in the middle of a write;   *)
(* an access may fail on the bus, which no caller looks at.                *)
(***************************************************************************)
EXTENDS Integers, Sequences, Functions

CONSTANTS
    MaxCrash,   \* bound on power failures
    MaxError,   \* bound on failed accesses
    MaxStore    \* bound on changes of the settings

ASSUME BoundAssumption == MaxCrash \in Nat /\ MaxError \in Nat /\ MaxStore \in Nat

VARIABLES
    eeprom,    \* version and data of the cells
    ram,       \* _dversion, _ip_address and ButtonMapper::_mapping
    pc,        \* where main() is
    todo,      \* writes to the EEPROM still to be made
    kept,      \* cells set by the user at version 4 (history)
    lost,      \* cells whose last write failed, was cut off or never made (history)
    misread,   \* a read of the version failed (history)
    stale,     \* cells whose last access since power came failed (history)
    crashes, errors, stores

meVars == <<eeprom, ram, pc, todo, kept, lost, misread, stale, crashes, errors, stores>>
meHistory == <<kept, lost, misread, stale>>

Versions == {0, 1, 2, 3, 4, 255}
Data == {"zero", "blank", "old", "torn", "default", "user"}
Mappings == <<"mapping0", "mapping1", "mapping2", "mapping3">>
Cells == Range(Mappings) \cup {"ip"}
Newest == 4

(* A device from the factory, or set up by an older firmware.              *)
MeInit ==
    /\ \/ eeprom = [version |-> 255, data |-> [c \in Cells |-> "blank"]]
       \/ \E v \in 1..3 : eeprom = [version |-> v, data |-> [c \in Cells |-> "old"]]
    /\ ram = [version |-> 0, ip |-> "zero", mapping |-> "zero"]
    /\ pc = "off" /\ todo = <<>>
    /\ kept = {} /\ lost = {} /\ misread = FALSE /\ stale = {}
    /\ crashes = 0 /\ errors = 0 /\ stores = 0

-----------------------------------------------------------------------------
(* An access to the chip works or fails; a failed read leaves what the     *)
(* caller had in its buffer, a failed write changes nothing.               *)
Works == UNCHANGED errors
Fails == errors < MaxError /\ errors' = errors + 1

PowerOn ==
    /\ pc = "off"
    /\ ram' = [version |-> 0, ip |-> "zero", mapping |-> "zero"]
    /\ pc' = "version" /\ todo' = <<>>
    /\ stale' = {}
    /\ UNCHANGED <<eeprom, kept, lost, misread, crashes, errors, stores>>

(* The writes of migrate(): it looks only at the version found at its      *)
(* start.  The new version is written before the data.                     *)
DataWritesFromOne ==  \* mutant: positions are counted from 1
    [k \in 1..5 |-> [cell |-> <<"ip", "mapping1", "mapping2", "mapping3", "mapping4">>[k],
                     value |-> "default"]]

DataWrites ==
    [k \in 1..5 |-> [cell |-> IF k = 1 THEN "ip" ELSE Mappings[k - 1], value |-> "default"]]

MigrationAlways(found) ==  \* mutant: <= 4
    (IF found = 0 \/ found > 200 THEN <<[cell |-> "version", value |-> 1]>> ELSE <<>>)
    \o (IF found <= 4 THEN <<[cell |-> "version", value |-> Newest]>> \o DataWrites
                      ELSE <<>>)

MigrationShort(found) ==  \* mutant: version 3 needs no new data
    (IF found = 0 \/ found > 200 THEN <<[cell |-> "version", value |-> 1]>> ELSE <<>>)
    \o (IF found <= 3 THEN <<[cell |-> "version", value |-> Newest]>> ELSE <<>>)

Migration(found) ==
    (IF found = 0 \/ found > 200 THEN <<[cell |-> "version", value |-> 1]>> ELSE <<>>)
    \o (IF found <= 3 THEN <<[cell |-> "version", value |-> Newest]>> \o DataWrites
                      ELSE <<>>)

(* getDataVersion(): after a failed read it is what was on the stack.      *)
ReadVersion ==
    /\ pc = "version"
    /\ \E v \in Versions :
         /\ \/ v = eeprom.version /\ Works /\ UNCHANGED <<misread, stale>>
            \/ Fails /\ misread' = TRUE /\ stale' = stale \cup {"version"}
         /\ ram' = [ram EXCEPT !.version = v]
         /\ todo' = Migration(v)
    /\ pc' = "migrate"
    /\ UNCHANGED <<eeprom, kept, lost, crashes, stores>>

(* The contents of the chip after the write w.                             *)
Written(w) ==
    IF w.cell = "version" THEN [eeprom EXCEPT !.version = w.value]
                          ELSE [eeprom EXCEPT !.data[w.cell] = w.value]

(* The fields change whether the write works or not.                       *)
CachedVersion(w) ==  \* mutant: _ip_address is not set
    IF w.cell = "version" THEN [ram EXCEPT !.version = w.value] ELSE ram

Cached(w) ==
    CASE w.cell = "version" -> [ram EXCEPT !.version = w.value]
      [] w.cell = "ip" -> [ram EXCEPT !.ip = w.value]
      [] OTHER -> ram

Write ==
    /\ todo # <<>>
    /\ ram' = Cached(Head(todo))
    /\ todo' = Tail(todo)
    /\ LET cell == Head(todo).cell
       IN  \/ /\ Works
              /\ eeprom' = Written(Head(todo))
              /\ kept' = IF pc = "running" /\ eeprom.version = Newest THEN kept \cup {cell}
                                                                     ELSE kept \ {cell}
              /\ lost' = lost \ {cell} /\ stale' = stale \ {cell}
           \/ /\ Fails
              /\ lost' = lost \cup {cell} /\ stale' = stale \cup {cell}
              /\ UNCHANGED <<eeprom, kept>>
    /\ UNCHANGED <<pc, misread, crashes, stores>>

(* getIpAddress(), for the network interface: reads what it has not cached.*)
GetIpAddress ==
    /\ pc = "migrate" /\ todo = <<>>
    /\ \/ ram.ip # "zero" /\ Works /\ UNCHANGED <<ram, stale>>
       \/ /\ ram.ip = "zero"
          /\ Works /\ ram' = [ram EXCEPT !.ip = eeprom.data["ip"]] /\ UNCHANGED stale
       \/ /\ ram.ip = "zero"
          /\ Fails /\ stale' = stale \cup {"ip"}
          /\ \E d \in Data : ram' = [ram EXCEPT !.ip = d]
    /\ pc' = "load"
    /\ UNCHANGED <<eeprom, todo, kept, lost, misread, crashes, stores>>

(* ButtonMapper::load(0).                                                  *)
Load ==
    /\ pc = "load"
    /\ \/ Works /\ ram' = [ram EXCEPT !.mapping = eeprom.data["mapping0"]]
       \/ Fails /\ UNCHANGED ram
    /\ pc' = "running"
    /\ UNCHANGED <<eeprom, todo, meHistory, crashes, stores>>

(* setIpAddress(), and ButtonMapper::store() of the mapping after a change *)
(* with setFunction(): operations the desk has, and no menu for yet.       *)
SetIpAddress ==
    /\ pc = "running" /\ todo = <<>> /\ stores < MaxStore
    /\ stores' = stores + 1
    /\ todo' = <<[cell |-> "ip", value |-> "user"]>>
    /\ UNCHANGED <<eeprom, ram, pc, meHistory, crashes, errors>>

Store(mapping) ==
    /\ pc = "running" /\ todo = <<>> /\ stores < MaxStore
    /\ stores' = stores + 1
    /\ ram' = [ram EXCEPT !.mapping = "user"]
    /\ todo' = <<[cell |-> mapping, value |-> "user"]>>
    /\ UNCHANGED <<eeprom, pc, meHistory, crashes, errors>>

ToBeWritten == {todo[k].cell : k \in 1..Len(todo)}

(* Power fails; a write under way may be left half done.                   *)
Crash ==
    /\ pc # "off" /\ crashes < MaxCrash
    /\ crashes' = crashes + 1
    /\ pc' = "off" /\ todo' = <<>>
    /\ lost' = lost \cup ToBeWritten
    /\ \/ UNCHANGED <<eeprom, kept>>
       \/ /\ todo # <<>>
          /\ IF Head(todo).cell = "version"
             THEN \E v \in Versions : eeprom' = [eeprom EXCEPT !.version = v]
             ELSE eeprom' = [eeprom EXCEPT !.data[Head(todo).cell] = "torn"]
          /\ kept' = kept \ {Head(todo).cell}
    /\ UNCHANGED <<ram, misread, stale, errors, stores>>

MeNext ==
    \/ PowerOn \/ ReadVersion \/ Write \/ GetIpAddress \/ Load
    \/ SetIpAddress \/ \E mapping \in Range(Mappings) : Store(mapping)
    \/ Crash

MeSpec == MeInit /\ [][MeNext]_meVars

-----------------------------------------------------------------------------
(* The type invariant of the EEPROM, the caches and the startup.           *)
MeTypeOK ==
    /\ eeprom \in [version : Versions, data : [Cells -> Data]]
    /\ ram \in [version : Versions, ip : Data, mapping : Data]
    /\ pc \in {"off", "version", "migrate", "load", "running"}
    /\ \A k \in 1..Len(todo) : todo[k].cell \in Cells \cup {"version"}
    /\ kept \subseteq Cells /\ (lost \cup stale) \subseteq Cells \cup {"version"}

(* Settings made at the newest version survive every later start, whatever *)
(* happens to the power: migrate() leaves them alone (unless the read of   *)
(* the version failed, when it may be taken for any value).                *)
UserDataKept ==
    [][pc # "running" /\ ~misread => \A c \in kept : eeprom'.data[c] = "user"]_meVars

(* A chip that says the newest version has settings of that version in     *)
(* every cell, but for those of which the last write failed or fell to a   *)
(* failure of power (lost) or is still to come; a version that was itself  *)
(* not written whole says nothing.                                         *)
NewestIsComplete ==
    eeprom.version = Newest /\ "version" \notin lost =>
        \A c \in Cells \ (lost \cup ToBeWritten) : eeprom.data[c] \in {"default", "user"}

(* What the desk works with is what it would find at the next start: each  *)
(* of the two caches, unless the last access to just its cell failed.      *)
CachesAreStored ==
    pc = "running" /\ todo = <<>> =>
        /\ "version" \notin stale => ram.version = eeprom.version
        /\ "ip" \notin stale => ram.ip = eeprom.data["ip"]

(* The settings are sound: complete, and those the next start will find.   *)
SettingsSound == MeTypeOK /\ NewestIsComplete /\ CachesAreStored
=============================================================================
