------------------------------- MODULE Uproto -------------------------------
(***************************************************************************)
(* The protocol of the gateway's bus (uproto.c, zwave.c): a command of the *)
(* cloud gets or sets an attribute of the gateway, of the module or of a   *)
(* device; reports and results wait in msgq and go out one per 10 ms.      *)
(***************************************************************************)
EXTENDS ClassCmd, TLC

CONSTANTS Requests  \* the messages that come over the bus, a sequence

VARIABLES
  came,       \* how many of the Requests came
  msgq,       \* ue.msgq
  stepTimer,  \* is ue.step_timer in the timer list
  sent,       \* what went out on the bus
  alive       \* did the daemon not read or call through NULL

upvars == <<came, msgq, stepTimer, sent>>

(* A message of the bus: who it is from and for, the command, and what the *)
(* value of its arguments holds: "none", "some" of what is needed, or all  *)
(* of it, a member of Values.                                              *)
Message(from, to, command, attr, value, dev) ==
  [from |-> from, to |-> to, command |-> command, attr |-> attr,
   value |-> value, dev |-> dev]

(* uattrcmds: the attributes with a get, and those with a set: whether it  *)
(* needs a value, and the code of its result.                              *)
Getters == {"wifi_settings", "current_time", "status", "device_list"}

NeedNoValue == {"reboot", "factory_reset", "find_device", "toggle"}
NotYet == {"add_device", "del_device"}

Setters ==
  [name \in NeedNoValue \cup NotYet \cup
             {"wifi_settings", "current_time", "upgrade_firmware",
              "remote_shell", "onoff", "brightness"} |->
     [needs |-> name \notin NeedNoValue,
      code  |-> IF name \in NotYet THEN -1 ELSE 0]]

ASSUME UprotoAssumption ==
  /\ Requests \in Seq([from : STRING, to : STRING, command : STRING,
                       attr : STRING, value : {"none", "some"} \cup Values,
                       dev : Devices])
  /\ {"none", "some"} \cap (Values \cup {NULL}) = {}

UprotoInit ==
  /\ came = 0 /\ msgq = <<>> /\ stepTimer = FALSE /\ sent = <<>>
  /\ alive = TRUE

(* What one handler pushes, in order.                                      *)
PushWithoutStep(msgs) ==                     \* mutant of uproto_push_msg
  msgq' = msgq \o msgs /\ UNCHANGED stepTimer

uproto_push_msg(msgs) ==
  /\ msgq' = msgq \o msgs
  /\ stepTimer' = (stepTimer \/ msgs # <<>>)

uproto_report_umsg(attr, value) ==
  [type |-> "reportAttribute", attr |-> attr, value |-> value]
uproto_response_ucmd(id, retval) ==
  [type |-> "cmdResult", id |-> id, code |-> retval]

(* What is told of a device.  The level of a battery is scanned from the   *)
(* attribute's text, which is empty while it is not known.                 *)
ShownBut(shown, name) ==
  FlattenSeq([i \in DOMAIN shown |->
                IF shown[i].name = name THEN <<>> ELSE <<shown[i]>>])

Level(shown) ==
  IF \A a \in Range(shown) : a.name # "battery" THEN 100
  ELSE LET a == CHOOSE a \in Range(shown) : a.name = "battery"
       IN  IF a.value = NULL THEN Uninit ELSE a.value

About(d) ==
  [dev     |-> d,
   attrs   |-> ShownBut(Shown(memory, d), "battery"),
   battery |-> Level(Shown(memory, d))]

DeviceList == [i \in DOMAIN DevicesInOrder |-> About(DevicesInOrder[i])]

(* What listing the devices does to the memory and asks them for.          *)
AllLoaded(m) ==
  LET load[i \in 0..Len(DevicesInOrder)] ==
        IF i = 0 THEN m ELSE Loaded(load[i - 1], DevicesInOrder[i])
  IN  load[Len(DevicesInOrder)]

zwave_device_list ==
  /\ memory' = AllLoaded(memory)
  /\ subcmdq' = subcmdq \o FlattenSeq([i \in DOMAIN DevicesInOrder |->
                                         Missing(memory, DevicesInOrder[i])])
  /\ UNCHANGED cmdq

(* The command is pushed before the events it is for.                      *)
PushCommand(events) ==
  /\ cmdq' = Append(cmdq, "E_COMMAND")
  /\ subcmdq' = subcmdq \o events
  /\ UNCHANGED memory

NoCommand == UNCHANGED <<memory, cmdq, subcmdq>>

zwave_device_light_onoff(d, value) ==
  PushCommand(class_cmd_set_attr(
    d, CHOOSE row \in classes : row.name = "switch_binary", value))

GetMessages(id, attr, value) ==
  <<uproto_report_umsg(attr, value), uproto_response_ucmd(id, 0)>>

uproto_cmd_handler_attr_get(id, r) ==
  IF r.attr = "device_list"
  THEN zwave_device_list /\ uproto_push_msg(GetMessages(id, r.attr, DeviceList))
  ELSE /\ uproto_push_msg(IF r.attr \in Getters
                          THEN GetMessages(id, r.attr, NULL) ELSE <<>>)
       /\ NoCommand

(* current_time is used uninitialised when the value has none.             *)
uproto_cmd_handler_attr_set(id, r) ==
  LET needs  == r.attr \in DOMAIN Setters /\ Setters[r.attr].needs
      result == <<uproto_response_ucmd(id, Setters[r.attr].code)>>
  IN  IF r.attr \notin DOMAIN Setters \/ (needs /\ r.value = "none")
      THEN uproto_push_msg(<<>>) /\ NoCommand
      ELSE IF needs /\ r.value = "some"
      THEN /\ \/ uproto_push_msg(<<>>)
              \/ r.attr = "current_time" /\ uproto_push_msg(result)
           /\ NoCommand
      ELSE /\ uproto_push_msg(result)
           /\ IF r.attr = "onoff" THEN zwave_device_light_onoff(r.dev, r.value)
              ELSE NoCommand

AnyIsForUs(r) == TRUE                                \* mutant of IsForUs

IsForUs(r) == r.from = "CLOUD" /\ r.to = "ZWAVE"

uproto_handler_cmd(id, r) ==
  IF ~IsForUs(r) THEN uproto_push_msg(<<>>) /\ NoCommand
  ELSE \/ r.command = "getAttribute" /\ uproto_cmd_handler_attr_get(id, r)
       \/ r.command = "setAttribute" /\ uproto_cmd_handler_attr_set(id, r)
       \/ /\ r.command \notin {"getAttribute", "setAttribute"}
          /\ uproto_push_msg(<<>>) /\ NoCommand

(* The row of the attribute has no function for the command: its NULL is   *)
(* called.                                                                 *)
CallsNull(r) ==
  /\ IsForUs(r)
  /\ \/ r.command = "getAttribute" /\ r.attr \in DOMAIN Setters \ Getters
     \/ r.command = "setAttribute" /\ r.attr \in Getters \ DOMAIN Setters

(* Its place in Requests is the id of a message.                           *)
ubus_receive_event ==
  /\ came < Len(Requests)
  /\ came' = came + 1
  /\ alive' = ~CallsNull(Requests[came'])
  /\ uproto_handler_cmd(came', Requests[came'])
  /\ UNCHANGED <<flash, known, devicevars, told, sent>>

(* The timer fires.                                                        *)
uproto_run ==
  /\ stepTimer
  /\ stepTimer' = (msgq # <<>>)
  /\ IF msgq = <<>> THEN UNCHANGED <<msgq, sent>>
     ELSE sent' = Append(sent, Head(msgq)) /\ msgq' = Tail(msgq)
  /\ UNCHANGED <<classvars, came, alive>>
=============================================================================
