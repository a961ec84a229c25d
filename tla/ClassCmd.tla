------------------------------ MODULE ClassCmd ------------------------------
(***************************************************************************)
(* The command classes and the attribute store (classcmd.c): what a device *)
(* reports is formatted and kept in memory, a hash map of hash maps; an    *)
(* attribute that is wanted and not there is read from flash, or the       *)
(* device is asked for it by an event of the app layer.                    *)
(*                                                                         *)
(* The app layer is what this module needs of it: it sends the events of   *)
(* subcmdq in order.  The devices answer, or change by themselves, and     *)
(* their reports arrive in order.  Where char is signed, a report of a     *)
(* device with an id from 128 on is kept under another id.                 *)
(***************************************************************************)
EXTENDS Hashmap, Integers, Sequences, SequencesExt

CONSTANTS
  Devices,    \* the node ids of the devices
  ClassesOf,  \* dev->class of each, a sequence of class ids
  Values,     \* what the attributes of a device can be
  Uninit,     \* what a buffer holds that nothing was written to
  DevHash, AttrHash,    \* the hash functions for a device, for an attribute
  DevSlots, AttrSlots,  \* the initial sizes of the hash maps
  Files,      \* what flash may hold: functions from device and attribute
  Unknown,    \* the devices whose classes are still to be learned
  SignedChar, \* is char signed in the build
  Changing,   \* the devices and attributes that change by themselves
  MaxChanges  \* bound: changes of a device that nobody asked for


VARIABLES
  memory,   \* hmattrs and the maps its entries point to
  flash,    \* the files under inventory_dir
  known,    \* the devices whose classes the app layer knows
  cmdq,     \* ae.cmdq
  subcmdq,  \* ae.subcmdq
  real,     \* the attributes of the devices
  air,      \* the reports under way
  changes,  \* bound
  told      \* history: what was reported last

storevars == <<memory, flash>>
devicevars == <<real, air, changes>>
classvars == <<storevars, known, cmdq, subcmdq, devicevars, told>>

(* The rows of classes: whether the attribute is listed (usenick), and what *)
(* its set, get and report functions do: nothing, or what they are for.    *)
Row(cid, name, usenick, set, get, report) ==
  [cid |-> cid, name |-> name, usenick |-> usenick,
   set |-> set, get |-> get, report |-> report]

ShowBasic == {                                       \* mutant of classes
  Row("basic", "basic", TRUE, "nothing", "asks", "nothing"),
  Row("version", "version_command_class", FALSE, "NULL", "nothing", "nothing"),
  Row("version", "version", TRUE, "NULL", "asks", "formats"),
  Row("battery", "battery", TRUE, "NULL", "asks", "formats"),
  Row("switch", "switch_binary", TRUE, "sends", "asks", "formats"),
  Row("manufacturer", "manufacturer_specific", TRUE, "NULL", "asks", "formats")}

classes == {
  Row("basic", "basic", FALSE, "nothing", "asks", "nothing"),
  Row("version", "version_command_class", FALSE, "NULL", "nothing", "nothing"),
  Row("version", "version", TRUE, "NULL", "asks", "formats"),
  Row("battery", "battery", TRUE, "NULL", "asks", "formats"),
  Row("switch", "switch_binary", TRUE, "sends", "asks", "formats"),
  Row("manufacturer", "manufacturer_specific", TRUE, "NULL", "asks", "formats")}

Names == {row.name : row \in classes}

(* A node id that went through a char, and the ids the store may be asked  *)
(* for.                                                                    *)
AsChar(id) == IF SignedChar /\ id >= 128 THEN id - 256 ELSE id

Dids == Devices \cup {AsChar(d) : d \in Devices}

ASSUME ClassCmdAssumption ==
  /\ Devices \subseteq 2..232 /\ IsFiniteSet(Devices)
  /\ ClassesOf \in [Devices -> Seq({row.cid : row \in classes})]
  /\ SignedChar \in BOOLEAN /\ MaxChanges \in Nat
  /\ Values # {} /\ {NULL, Uninit} \cap Values = {} /\ NULL # Uninit
  /\ Files \subseteq [Devices \X Names -> Values \cup {NULL}]
  /\ Changing \subseteq Devices \X Names
  /\ NULL \notin Int \cup Names /\ Uninit \notin Int
  /\ \A d \in Dids : DevHash[d] \in Nat
  /\ \A name \in Names : AttrHash[name] \in Nat
  /\ {DevSlots, AttrSlots} \subseteq 1..256

RowsOf(d) == {row \in classes : \E i \in DOMAIN ClassesOf[d] :
                                  ClassesOf[d][i] = row.cid}
NamesOf(d) == {row.name : row \in RowsOf(d)}

-----------------------------------------------------------------------------
(* The store. *)
memory_module_init ==
  [devs |-> hashmap_init(DevHash, DevSlots), attrs |-> [d \in Dids |-> NULL]]

memory_get_attr(m, d, name) ==
  IF hashmap_get(m.devs, d) = NULL THEN NULL
  ELSE hashmap_get(m.attrs[d], name)

PutOnly(map, name, value) == hashmap_put(map, name, value) \* mutant of Replace

Replace(map, name, value) ==
  hashmap_put(hashmap_remove(map, name), name, value)

memory_set_attr(m, d, name, value) ==
  LET new == hashmap_get(m.devs, d) = NULL
      hm  == IF new THEN hashmap_init(AttrHash, AttrSlots) ELSE m.attrs[d]
  IN  [devs  |-> IF new THEN hashmap_put(m.devs, d, d) ELSE m.devs,
       attrs |-> [m.attrs EXCEPT ![d] = Replace(hm, name, value)]]

flash_load_attr(d, name) == flash[<<d, name>>]

ClassInit ==
  /\ memory = memory_module_init
  /\ flash \in Files
  /\ known = Devices \ Unknown /\ cmdq = <<>> /\ subcmdq = <<>>
  /\ real \in [Devices -> [Names -> {CHOOSE v \in Values : TRUE}]]
  /\ air = <<>> /\ changes = 0
  /\ told = [p \in Devices \X Names |-> NULL]

-----------------------------------------------------------------------------
(* Set, get and list. *)
Before(d) == {e \in Devices : e < d}

DevicesInOrder ==
  [i \in 1..Cardinality(Devices) |->
     CHOOSE d \in Devices : Cardinality(Before(d)) = i - 1]

SubEvent(d, row, value) == [dev |-> d, name |-> row.name, value |-> value]

(* get: the event that asks the device, if the function makes one.         *)
Gets(d, row) == IF row.get = "asks" THEN <<SubEvent(d, row, NULL)>> ELSE <<>>

class_cmd_get_attr(d, row) == Gets(d, row)

SetOnly(d, row, value) ==                    \* mutant of class_cmd_set_attr
  IF row.set = "sends" THEN <<SubEvent(d, row, value)>> ELSE <<>>

(* A set is followed by a get of what was set; value is NULL when the set  *)
(* function refuses its argument.                                          *)
class_cmd_set_attr(d, row, value) ==
  IF row.set = "NULL" THEN <<>>
  ELSE (IF row.set = "sends" /\ value # NULL
        THEN <<SubEvent(d, row, value)>> ELSE <<>>) \o Gets(d, row)

(* The listed attributes of a device, in the order of its classes.         *)
ListedRows(cid) ==
  SetToSeq({row \in classes : row.cid = cid /\ row.usenick})

Listed(d) ==
  IF d \in known
  THEN FlattenSeq([i \in DOMAIN ClassesOf[d] |-> ListedRows(ClassesOf[d][i])])
  ELSE <<>>

Stored(m, d, name) ==
  IF memory_get_attr(m, d, name) # NULL THEN memory_get_attr(m, d, name)
  ELSE flash_load_attr(d, name)

(* class_cmd_to_attrs: the values, what the memory is then, what is asked. *)
Shown(m, d) == [i \in DOMAIN Listed(d) |->
                  [name |-> Listed(d)[i].name,
                   value |-> Stored(m, d, Listed(d)[i].name)]]

LoadedAttr(m, d, name) ==
  IF memory_get_attr(m, d, name) = NULL /\ flash_load_attr(d, name) # NULL
  THEN memory_set_attr(m, d, name, flash_load_attr(d, name)) ELSE m

Loaded(m, d) ==
  LET load[i \in 0..Len(Listed(d))] ==
        IF i = 0 THEN m ELSE LoadedAttr(load[i - 1], d, Listed(d)[i].name)
  IN  load[Len(Listed(d))]

Missing(m, d) ==
  FlattenSeq([i \in DOMAIN Listed(d) |->
                IF Stored(m, d, Listed(d)[i].name) = NULL
                THEN Gets(d, Listed(d)[i]) ELSE <<>>])

(* class_cmd_get_dev_attr, the command E_ATTR for one device.              *)
class_cmd_get_dev_attr(d) ==
  FlattenSeq([i \in DOMAIN Listed(d) |-> Gets(d, Listed(d)[i])])

-----------------------------------------------------------------------------
(* A report of a device: api.c hands it to class_cmd_save.                 *)
class_cmd_save ==
  /\ air # <<>>
  /\ LET r   == Head(air)
         row == CHOOSE x \in classes : x.name = r.name
         buf == IF row.report = "formats" THEN r.value ELSE Uninit
     IN  /\ memory' = memory_set_attr(memory, AsChar(r.dev), r.name, buf)
         /\ told' = [told EXCEPT ![<<r.dev, r.name>>] = buf]
  /\ air' = Tail(air)
  /\ UNCHANGED <<flash, known, cmdq, subcmdq, real, changes>>

(* The app layer learns a device's classes (wait_action_class_over).       *)
ClassKnown(d) ==
  /\ d \notin known
  /\ known' = known \cup {d}
  /\ UNCHANGED <<storevars, cmdq, subcmdq, devicevars, told>>

Reported(d, name, value) == [dev |-> d, name |-> name, value |-> value]

(* The app layer sends an event to its device, which does as it is told.   *)
AppSends ==
  /\ cmdq = <<>> /\ subcmdq # <<>>
  /\ LET e == Head(subcmdq) IN
     IF e.value # NULL
     THEN real' = [real EXCEPT ![e.dev][e.name] = e.value] /\ UNCHANGED air
     ELSE /\ air' = Append(air, Reported(e.dev, e.name, real[e.dev][e.name]))
          /\ UNCHANGED real
  /\ subcmdq' = Tail(subcmdq)
  /\ UNCHANGED <<storevars, known, cmdq, changes, told>>

(* The app layer takes commands up; E_ATTR asks each device for all it is  *)
(* known to have (wait_action_attr).                                       *)
AppTakes ==
  /\ cmdq # <<>>
  /\ cmdq' = <<>>
  /\ subcmdq' = IF Contains(cmdq, "E_ATTR")
                THEN subcmdq \o FlattenSeq([i \in DOMAIN DevicesInOrder |->
                       class_cmd_get_dev_attr(DevicesInOrder[i])])
                ELSE subcmdq
  /\ UNCHANGED <<storevars, known, devicevars, told>>

DeviceChanges ==
  /\ changes < MaxChanges /\ changes' = changes + 1
  /\ \E p \in Changing, v \in Values :
       /\ v # real[p[1]][p[2]]
       /\ real' = [real EXCEPT ![p[1]][p[2]] = v]
       /\ air' = Append(air, Reported(p[1], p[2], v))
  /\ UNCHANGED <<storevars, known, cmdq, subcmdq, told>>
=============================================================================
