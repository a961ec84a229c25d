------------------------------ MODULE Console ------------------------------
(***************************************************************************)
(* The console (cmd.c, parse_argv.c), and with it all that works on the    *)
(* attribute store: the console and the cloud list, get and set, the app   *)
(* layer works their events off, and the devices report.                   *)
(***************************************************************************)
EXTENDS Uproto

CONSTANTS
  Lines,     \* the lines that may be typed: sequences of characters, where
             \* one stands for any run of others than blanks and quotes; of
             \* fewer than 20 words, the size of argv
  Ids,       \* the device that a word names, for the words that name one
  MaxTyped   \* bound: the lines that are typed

VARIABLE typed  \* bound

ASSUME ConsoleAssumption ==
  /\ \A word \in DOMAIN Ids : Ids[word] \in Devices
  /\ MaxTyped \in Nat

vars == <<classvars, upvars, alive, typed>>

Blank == " "
Quote == "'"

(* parse_argv: in a word, quotes are taken away, and what is between two   *)
(* of them belongs to the word.                                            *)
AddTo(st, c) == [st EXCEPT !.argv = [@ EXCEPT ![Len(@)] = Append(@, c)]]

InWord(st, c) ==
  CASE c = Quote -> [st EXCEPT !.quoted = ~@]
    [] c = Blank /\ ~st.quoted -> [st EXCEPT !.inWord = FALSE]
    [] OTHER -> AddTo(st, c)

NextChar(st, c) ==
  IF st.inWord THEN InWord(st, c)
  ELSE IF c = Blank THEN st
  ELSE InWord([st EXCEPT !.argv = Append(@, <<>>), !.inWord = TRUE], c)

parse_argv(buf) ==
  FoldLeft(NextChar, [argv |-> <<>>, inWord |-> FALSE, quoted |-> FALSE],
           buf).argv

(* The row a class and an attribute name, if there is one.                 *)
RowAt(cid, name) == {row \in classes : <<row.cid>> = cid /\ <<row.name>> = name}

do_cmd_init ==
  /\ cmdq' = cmdq \o <<"E_INIT", "E_CLASS", "E_ATTR">>
  /\ UNCHANGED <<memory, subcmdq>>

do_cmd_get(argv) ==
  IF Len(argv) # 4 \/ argv[2] \notin DOMAIN Ids THEN NoCommand
  ELSE PushCommand(FlattenSeq(SetToSeq(
         {class_cmd_get_attr(Ids[argv[2]], row) : row \in RowAt(argv[3], argv[4])})))

do_cmd_set(argv, value) ==
  IF Len(argv) # 5 \/ argv[2] \notin DOMAIN Ids THEN NoCommand
  ELSE PushCommand(FlattenSeq(SetToSeq(
         {class_cmd_set_attr(Ids[argv[2]], row, value) :
            row \in RowAt(argv[3], argv[4])})))

(* include, exclude, info and help change nothing; exit is left out.  A    *)
(* value that is not a number is refused by the set function.  A line of   *)
(* blanks has no argv[0]: NULL is read for it.                             *)
cmd_in ==
  /\ typed < MaxTyped /\ typed' = typed + 1
  /\ \E line \in Lines :
       LET argv == parse_argv(line)
           cmd  == IF argv = <<>> THEN <<>> ELSE argv[1]
       IN  /\ alive' = (line = <<>> \/ argv # <<>>)
           /\ \/ cmd = <<"init">> /\ do_cmd_init
              \/ cmd = <<"list">> /\ zwave_device_list
              \/ cmd = <<"get">> /\ do_cmd_get(argv)
              \/ /\ cmd = <<"set">>
                 /\ \E value \in Values \cup {NULL} : do_cmd_set(argv, value)
              \/ /\ cmd \notin {<<"init">>, <<"list">>, <<"get">>, <<"set">>}
                 /\ NoCommand
  /\ UNCHANGED <<flash, known, devicevars, told, upvars>>

-----------------------------------------------------------------------------
Init == ClassInit /\ UprotoInit /\ typed = 0

App == (AppTakes \/ AppSends) /\ UNCHANGED <<upvars, alive, typed>>
Report == class_cmd_save /\ UNCHANGED <<upvars, alive, typed>>
Learn == (\E d \in Devices : ClassKnown(d)) /\ UNCHANGED <<upvars, alive, typed>>
Change == DeviceChanges /\ UNCHANGED <<upvars, alive, typed>>
Bus == (ubus_receive_event \/ uproto_run) /\ UNCHANGED typed

Next == alive /\ (cmd_in \/ Bus \/ App \/ Report \/ Learn \/ Change)

(* A timer that is set fires.                                              *)
Fairness == WF_vars(alive /\ uproto_run /\ UNCHANGED typed)

Spec == Init /\ [][Next]_vars /\ Fairness

-----------------------------------------------------------------------------
(* Properties. *)

(* The store holds what a device reported last, whatever was reported for  *)
(* other attributes and devices since, under its id as a char.  So it can  *)
(* be found under the id itself only if a char holds the id; of a device   *)
(* for which that is not so, as of one that has not reported, there is     *)
(* what flash had or nothing.                                              *)
StoreIsLastReport ==
  \A d \in Devices, n \in Names :
    /\ told[<<d, n>>] # NULL
         => memory_get_attr(memory, AsChar(d), n) = told[<<d, n>>]
    /\ told[<<d, n>>] = NULL \/ AsChar(d) # d
         => memory_get_attr(memory, d, n) \in {NULL, flash[<<d, n>>]}

(* When all that was asked has been answered, what was last saved agrees   *)
(* with the device: a set is read back, though sets, gets, lists and       *)
(* changes of the device itself overlap.                                   *)
SettledStoreAgrees ==
  subcmdq = <<>> /\ air = <<>> =>
    \A d \in Devices : \A row \in RowsOf(d) :
      row.report = "formats" /\ told[<<d, row.name>>] # NULL
        => told[<<d, row.name>>] = real[d][row.name]

(* A list of devices tells of no attribute that nothing was written to; it *)
(* tells the level of a battery from text that was never written only if   *)
(* flash has none and no report of it can be found: none came, or char     *)
(* does not hold the device's id.                                          *)
IsList(m) == m.type = "reportAttribute" /\ m.attr = "device_list"

IsWritten(list) ==
  \A about \in Range(list) :
    /\ \A a \in Range(about.attrs) : a.value # Uninit
    /\ about.battery = Uninit =>
         LET battery == <<about.dev, "battery">>
         IN  /\ flash[battery] = NULL
             /\ told[battery] = NULL \/ AsChar(about.dev) # about.dev

NothingUnwrittenIsListed ==
  [][\A i \in (Len(msgq) + 1)..Len(msgq') :
       IsList(msgq'[i]) => IsWritten(msgq'[i].value)]_vars

(* A message the daemon can serve has one result, which a get's report     *)
(* comes directly before; another has none.  A get of what can only be set *)
(* and a set of what can only be got end the daemon.                       *)
Owed(r) ==
  /\ r.from = "CLOUD" /\ r.to = "ZWAVE"
  /\ \/ r.command = "getAttribute" /\ r.attr \in Getters
     \/ /\ r.command = "setAttribute" /\ r.attr \in DOMAIN Setters
        /\ r.value \in Values \/ r.attr \in
             {"reboot", "factory_reset", "find_device", "toggle"}

Fatal(r) ==
  /\ r.from = "CLOUD" /\ r.to = "ZWAVE"
  /\ \/ r.command = "getAttribute" /\ r.attr \notin Getters
     \/ r.command = "setAttribute" /\ r.attr \notin DOMAIN Setters
  /\ r.attr \in Getters \cup DOMAIN Setters

OneResultEach ==
  LET out == sent \o msgq
      results(id) == {i \in DOMAIN out : out[i].type = "cmdResult" /\ out[i].id = id}
  IN  \A id \in 1..came :
        LET r == Requests[id] IN
        /\ Fatal(r) => ~alive /\ id = came
        /\ \/ r.attr = "current_time" /\ r.value = "some"
           \/ /\ Cardinality(results(id)) = IF Owed(r) THEN 1 ELSE 0
              /\ r.command = "getAttribute" =>
                   \A i \in results(id) :
                     /\ i > 1 /\ out[i - 1].type = "reportAttribute"
                     /\ out[i - 1].attr = r.attr

(* What the daemon has to say goes out in the end, unless it ends.         *)
MessagesGoOut == (msgq # <<>>) ~> (msgq = <<>> \/ ~alive)
=============================================================================
