------------------------------- MODULE ConfIo -------------------------------
(***************************************************************************)
(* The configuration store (conf_io.c): a JSON tree in memory, subsystems  *)
(* that take their part of it and give it back, a factory file and a       *)
(* startup file, and a change handler.  A save goes through a temporary    *)
(* file and a rename; the process may be killed between any two of its     *)
(* steps and is started again.  Memory suffices; the disk may be full.     *)
(***************************************************************************)
EXTENDS Null, Naturals, Sequences, SequencesExt, FiniteSets

CONSTANTS
  Object,      \* a JSON object in a tree
  Leaves,      \* the other JSON values
  Type,        \* their types
  Fields,      \* the names of the fields of objects
  Names,       \* the subsystems: top-level names
  Sets,        \* what conf_set is called with: paths and values
  Paths,       \* the paths that conf_delete is called with
  Parts,       \* what a subsystem's part of the tree may be
  Refused,     \* the parts that set handlers refuse
  FactoryTree, \* the factory configuration
  FlushFails,  \* may a full disk show only when the file is closed
  MaxOps       \* bound: the conf_ops in the list

(* A JSON value is a function from the paths in it, <<>> among them, to    *)
(* what is there; the field of a path's first name is in it, too.          *)
IsValue(v) ==
  /\ DOMAIN v \subseteq Seq(Fields) /\ <<>> \in DOMAIN v
  /\ v \in [DOMAIN v -> Leaves \cup {Object}]
IsTree(v) ==
  /\ IsValue(v) /\ v[<<>>] = Object
  /\ \A q \in DOMAIN v \ {<<>>} : <<q[1]>> \in DOMAIN v

ASSUME ConfAssumption ==
  /\ Object \notin Leaves /\ Names \subseteq Fields
  /\ Paths \subseteq Seq(Fields) \ {<<>>}
  /\ \A set \in Sets : /\ set[1] \in Seq(Fields) \ {<<>>}
                       /\ set[2] \in Leaves \cup {Object}
  /\ \A v \in Parts : IsValue(v)
  /\ IsTree(FactoryTree)

VARIABLES
  root,      \* conf->root, NULL before conf_init
  ops,       \* conf->ops_list: the names
  edit,      \* conf->factory_edit_mode
  fromFactory, \* conf->factory_file_loaded
  part,      \* the subsystems' state, NULL for one that has none
  disk,      \* the files' trees; NULL is no file, Object one cut off
  job,       \* the conf_write, conf_factory_reset or restart under way
  view,      \* history: what the change handler was told, leaf by leaf
  kept       \* history: the parts at the last save to the startup file,
             \* NULL if there was none since a reset

confvars == <<root, ops, edit, fromFactory, part, disk, job, view, kept>>

Value(v) == [p \in {<<>>} |-> v]
Below(tree, p) == {q \in DOMAIN tree : IsPrefix(p, q)}
Rest(p, q) == SubSeq(q, Len(p) + 1, Len(q))
At(tree, p) ==
  IF p \notin DOMAIN tree THEN NULL
  ELSE [q \in {Rest(p, q) : q \in Below(tree, p)} |-> tree[p \o q]]
Without(tree, p) == [q \in DOMAIN tree \ Below(tree, p) |-> tree[q]]
With(tree, p, obj) ==
  LET base == Without(tree, p) IN
  [q \in DOMAIN base \cup {p \o r : r \in DOMAIN obj} |->
     IF q \in DOMAIN base THEN base[q] ELSE obj[Rest(p, q)]]

(* The nodes on the way to p that are missing.                             *)
OnTheWay(p) == {SubSeq(p, 1, i) : i \in 1..(Len(p) - 1)}
WithParents(tree, p) ==
  [q \in DOMAIN tree \cup OnTheWay(p) |->
     IF q \in DOMAIN tree THEN tree[q] ELSE Object]

(* The change handler, here one that keeps the leaves it is told of.       *)
LeavesOf(tree) ==
  [q \in {r \in DOMAIN tree : tree[r] \in Leaves} |-> tree[q]]

change_handler(seen, told) ==   \* told: a path and its new value or NULL, each
  LET old == {q \in DOMAIN seen : \A t \in told : ~IsPrefix(t[1], q)}
      new == UNION {{t[1] \o r : r \in DOMAIN LeavesOf(t[2])} :
                      t \in {u \in told : u[2] # NULL}}
      in(q) == CHOOSE t \in told : IsPrefix(t[1], q)
  IN  [q \in old \cup new |-> IF q \in old THEN seen[q]
                              ELSE in(q)[2][Rest(in(q)[1], q)]]

State == [root |-> root, view |-> view]
Becomes(s) == root' = s.root /\ view' = s.view

conf_remove_obj(s, p) ==
  IF p \notin DOMAIN s.root THEN s
  ELSE [root |-> Without(s.root, p), view |-> change_handler(s.view, {<<p, NULL>>})]

conf_set_obj(s, p, obj) ==
  IF At(s.root, p) = obj THEN s
  ELSE [root |-> With(s.root, p, obj), view |-> change_handler(s.view, {<<p, obj>>})]

TopNames(tree) == {q[1] : q \in DOMAIN tree \ {<<>>}}

OnlyNewTold(s, new) ==                               \* mutant of conf_set_root_obj
  LET told == {<<<<n>>, At(new, <<n>>)>> : n \in TopNames(new)}
  IN  [root |-> new, view |-> change_handler(s.view, told)]

conf_set_root_obj(s, new) ==
  LET changed == {n \in TopNames(new) : At(s.root, <<n>>) # At(new, <<n>>)}
      deleted == TopNames(s.root) \ TopNames(new)
  IN  [root |-> new,
       view |-> change_handler(s.view,
                  {<<<<n>>, At(new, <<n>>)>> : n \in changed}
                    \cup {<<<<n>>, NULL>> : n \in deleted})]

(* A parent that is no object makes it fail; missing ones are made, also   *)
(* to delete what is not there.                                            *)
conf_path_set(s, p, obj) ==
  LET made == [root |-> WithParents(s.root, p), view |-> s.view]
      old  == At(s.root, p)
  IN  IF \E q \in OnTheWay(p) : q \in DOMAIN s.root /\ s.root[q] # Object THEN s
      ELSE IF obj = NULL THEN conf_remove_obj(made, p)
      ELSE IF old # NULL /\ Type[old[<<>>]] # Type[obj[<<>>]] THEN s
      ELSE conf_set_obj(made, p, obj)

-----------------------------------------------------------------------------
NoJob == [step |-> "none"]
Idle == job = NoJob /\ root # NULL
Up == UNCHANGED <<ops, edit, part, disk, job, kept>>

ConfInit ==
  /\ root = NULL /\ ops = <<>> /\ edit = FALSE /\ fromFactory = FALSE
  /\ part = [n \in Names |-> NULL]
  /\ disk = [startup |-> NULL, factory |-> FactoryTree]
  /\ job = NoJob
  /\ view = LeavesOf(Value(Object)) /\ kept = NULL

(* conf_init; the handler is registered before the first load.             *)
conf_init ==
  /\ root = NULL /\ disk.factory # NULL
  /\ root' = Value(Object) /\ view' = LeavesOf(root')
  /\ UNCHANGED <<ops, edit, fromFactory, part, disk, job, kept>>

(* conf_cleanup, or a kill: all but the files is gone.                     *)
Forgotten ==
  /\ root # NULL
  /\ root' = NULL /\ ops' = <<>> /\ edit' = FALSE /\ fromFactory' = FALSE
  /\ part' = [n \in Names |-> NULL] /\ job' = NoJob
  /\ view' = LeavesOf(Value(Object))
  /\ UNCHANGED <<disk, kept>>

conf_register(n) ==
  /\ Idle /\ Len(ops) < MaxOps
  /\ ops' = <<n>> \o ops
  /\ UNCHANGED <<root, edit, fromFactory, part, disk, job, view, kept>>

conf_unregister(n) ==
  /\ Idle /\ Contains(ops, n)
  /\ ops' = RemoveFirst(ops, n)
  /\ UNCHANGED <<root, edit, fromFactory, part, disk, job, view, kept>>

conf_factory_edit_mode_enable ==
  /\ Idle /\ ~edit
  /\ edit' = TRUE
  /\ UNCHANGED <<root, ops, fromFactory, part, disk, job, view, kept>>

(* A set handler that refuses its part keeps what it had.                  *)
Applied(tree) ==
  [n \in Names |->
     LET obj == At(tree, <<n>>) IN
     IF Contains(ops, n) /\ obj # NULL /\ obj \notin Refused THEN obj ELSE part[n]]

conf_apply ==
  /\ Idle
  /\ part' = Applied(root)
  /\ UNCHANGED <<root, ops, edit, fromFactory, disk, job, view, kept>>

NotUpdated(s) == s                                   \* mutant of conf_update

conf_update(s) ==
  LET updated[i \in 0..Len(ops)] ==
        IF i = 0 THEN s
        ELSE IF part[ops[i]] = NULL THEN updated[i - 1]
        ELSE conf_set_obj(updated[i - 1], <<ops[i]>>, part[ops[i]])
  IN  updated[Len(ops)]

conf_set ==
  /\ Idle
  /\ \E set \in Sets : Becomes(conf_path_set(State, set[1], Value(set[2])))
  /\ Up /\ UNCHANGED fromFactory

conf_delete ==
  /\ Idle
  /\ \E p \in Paths : Becomes(conf_path_set(State, p, NULL))
  /\ Up /\ UNCHANGED fromFactory

(* A file that cannot be parsed is as good as none.                        *)
conf_read(file) == IF disk[file] \in {NULL, Object} THEN NULL ELSE disk[file]

LoadedFile ==
  IF ~edit /\ conf_read("startup") # NULL THEN "startup" ELSE "factory"

conf_load ==
  /\ root # NULL /\ job.step \in {"none", "load"}
  /\ job' = NoJob
  /\ IF conf_read(LoadedFile) = NULL
     THEN UNCHANGED <<root, view, fromFactory, part>>
     ELSE /\ Becomes(conf_set_root_obj(State, conf_read(LoadedFile)))
          /\ fromFactory' = (LoadedFile = "factory")
          /\ part' = Applied(root')
  /\ UNCHANGED <<ops, edit, disk, kept>>

conf_factory_reset ==
  /\ Idle /\ ~edit
  /\ disk' = [disk EXCEPT !.startup = NULL] /\ kept' = NULL
  /\ job' = [step |-> "load"]
  /\ UNCHANGED <<root, ops, edit, fromFactory, part, view>>

-----------------------------------------------------------------------------
(* conf_save: conf_update, and then conf_write. *)
conf_save ==
  /\ Idle
  /\ Becomes(conf_update(State))
  /\ job' = [step |-> "dump", file |-> IF edit THEN "factory" ELSE "startup",
             temp |-> NULL]
  /\ UNCHANGED <<ops, edit, fromFactory, part, disk, kept>>

(* json_dumpf and fclose into the temporary file.                          *)
WriteTemp ==
  /\ job.step = "dump"
  /\ \E temp \in {root} \cup (IF FlushFails THEN {Object} ELSE {}) :
       job' = [job EXCEPT !.step = "rename", !.temp = temp]
  /\ UNCHANGED <<root, ops, edit, fromFactory, part, disk, view, kept>>

(* mkstemp, the dump or the rename fails: the file stays as it was.        *)
WriteFails ==
  /\ job.step \in {"dump", "rename"}
  /\ job' = NoJob
  /\ UNCHANGED <<root, ops, edit, fromFactory, part, disk, view, kept>>

Rename ==
  /\ job.step = "rename"
  /\ disk' = [disk EXCEPT ![job.file] = job.temp]
  /\ IF job.file = "startup"
     THEN /\ fromFactory' = FALSE
          /\ kept' = [n \in Names |-> IF Contains(ops, n) THEN part[n] ELSE NULL]
     ELSE UNCHANGED <<fromFactory, kept>>
  /\ job' = NoJob
  /\ UNCHANGED <<root, ops, edit, part, view>>

PartChanges(n) ==
  /\ Idle
  /\ \E p \in Parts \ {part[n]} : part' = [part EXCEPT ![n] = p]
  /\ UNCHANGED <<root, ops, edit, fromFactory, disk, job, view, kept>>

ConfNext ==
  \/ conf_init \/ Forgotten \/ conf_factory_edit_mode_enable
  \/ \E n \in Names : conf_register(n) \/ conf_unregister(n) \/ PartChanges(n)
  \/ conf_apply \/ conf_set \/ conf_delete \/ conf_load \/ conf_factory_reset
  \/ conf_save \/ WriteTemp \/ WriteFails \/ Rename

ConfSpec == ConfInit /\ [][ConfNext]_confvars

-----------------------------------------------------------------------------
(* Properties. *)

(* Whoever follows the change handler knows the configuration: every leaf  *)
(* that a set, a deletion, a load or an update changed was told, at its    *)
(* path or above it.                                                       *)
ChangesAreTold == root # NULL => view = LeavesOf(root)

(* After a restart, however the process ended and whatever step of a later *)
(* save it broke off, the subsystems get back from the startup file what   *)
(* they had when it was saved last.                                        *)
RestartRestores ==
  [][conf_load /\ ~edit /\ kept # NULL
       => \A n \in ToSet(ops) :
            kept[n] \notin Refused \cup {NULL} => part'[n] = kept[n]]_confvars
=============================================================================
