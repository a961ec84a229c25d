----------------------------- MODULE FileMonitor -----------------------------
(***************************************************************************)
(* The file monitor (filesystem_monitor.c) over inotify: watchers of paths *)
(* whose files are deleted, replaced and moved away under them, and events *)
(* that are handled later than they happen.  A callback leaves its own     *)
(* watcher and the monitor itself in place.                                *)
(* The kernel is idealised in three ways: a file is gone, and              *)
(* IN_DELETE_SELF sent, with its name (inotify sends it when the last link *)
(* and the last open descriptor go); a file is moved to a path that is not *)
(* watched, and never from one watched path to another; and each path has  *)
(* a file of its own, watched once, so that no two watchers share a watch  *)
(* descriptor (inotify gives the same one for the same file).              *)
(***************************************************************************)
EXTENDS Null, Naturals, Sequences, SequencesExt, FiniteSets

CONSTANTS
  Files,    \* the paths that are watched
  MaxFiles, \* bound: the files that are made
  MaxAdded  \* bound: the watches that are added

ASSUME MonitorAssumption ==
  NULL \notin Nat \cup [file : Nat, self : BOOLEAN]

VARIABLES
  watch_list, \* state.watch_list: path and wd
  opened,     \* state.fd > 0
  fileAt,     \* the file (inode) at a path, or NULL
  made,       \* bound: the files made so far
  watches,    \* the kernel's: by wd the file, and is PATH_CHANGE_EVENTS in
              \* the mask; NULL once removed
  events,     \* the events not read yet
  movedAway   \* history: the files moved away from their paths

monitorvars == <<watch_list, opened, fileAt, made, watches, events, movedAway>>

MonitorInit ==
  /\ watch_list = <<>> /\ opened = FALSE
  /\ fileAt = [p \in Files |-> NULL] /\ made = 0
  /\ watches = <<>> /\ events = <<>> /\ movedAway = {}

-----------------------------------------------------------------------------
(* inotify: the kernel's watches and events, as k. *)
Kernel == [watches |-> watches, events |-> events]
KernelBecomes(k) == watches' = k.watches /\ events' = k.events

inotify_add_watch(k, file, self) ==
  [k EXCEPT !.watches = Append(@, [file |-> file, self |-> self])]

Ignored(wd) == [wd |-> wd, type |-> "IN_IGNORED"]

inotify_rm_watch(k, wd) ==
  IF k.watches[wd] = NULL THEN k
  ELSE [watches |-> [k.watches EXCEPT ![wd] = NULL],
        events  |-> Append(k.events, Ignored(wd))]

(* Watches that go one after the other.                                    *)
Unwatched(wds) ==
  [wd \in DOMAIN watches |-> IF wd \in ToSet(wds) THEN NULL ELSE watches[wd]]

WatchesOf(file) ==
  SetToSeq({wd \in DOMAIN watches : watches[wd] # NULL /\ watches[wd].file = file})

Self(type, wd) ==
  IF watches[wd].self THEN <<[wd |-> wd, type |-> type]>> ELSE <<>>

(* A file that is deleted takes its watches with it.                       *)
Deleted(file) ==
  LET wds == WatchesOf(file) IN
  [watches |-> Unwatched(wds),
   events  |-> events \o FlattenSeq([i \in DOMAIN wds |->
                  Self("IN_DELETE_SELF", wds[i]) \o <<Ignored(wds[i])>>])]

Moved(file) ==
  LET wds == WatchesOf(file) IN
  [watches |-> watches,
   events  |-> events \o FlattenSeq([i \in DOMAIN wds |->
                                       Self("IN_MOVE_SELF", wds[i])])]

FileChanges(p) ==
  /\ \/ /\ fileAt[p] # NULL                     \* deleted, or replaced
        /\ KernelBecomes(Deleted(fileAt[p])) /\ UNCHANGED movedAway
     \/ /\ fileAt[p] # NULL                     \* moved away
        /\ KernelBecomes(Moved(fileAt[p]))
        /\ movedAway' = movedAway \cup {fileAt[p]}
     \/ fileAt[p] = NULL /\ UNCHANGED <<watches, events, movedAway>>
  /\ \/ /\ made < MaxFiles /\ made' = made + 1
        /\ fileAt' = [fileAt EXCEPT ![p] = made']
     \/ fileAt[p] # NULL /\ fileAt' = [fileAt EXCEPT ![p] = NULL] /\ UNCHANGED made
  /\ UNCHANGED <<watch_list, opened>>

-----------------------------------------------------------------------------
(* fs_monitor_cleanup_watcher of all, when the monitor is opened again.    *)
fs_monitor_init ==
  /\ opened' = TRUE /\ watch_list' = <<>>
  /\ LET wds == [i \in DOMAIN watch_list |-> watch_list[i].wd] IN
     /\ watches' = Unwatched(wds)
     /\ events' = events \o FlattenSeq([i \in DOMAIN wds |->
                     IF watches[wds[i]] = NULL THEN <<>> ELSE <<Ignored(wds[i])>>])
  /\ UNCHANGED <<fileAt, made, movedAway>>

(* Closing it drops the kernel's side whole.                               *)
fs_monitor_cleanup ==
  /\ opened /\ opened' = FALSE /\ watch_list' = <<>>
  /\ watches' = [wd \in DOMAIN watches |-> NULL] /\ events' = <<>>
  /\ UNCHANGED <<fileAt, made, movedAway>>

Watched == {w.path : w \in ToSet(watch_list)}

fs_monitor_add_watcher(p) ==
  /\ opened /\ p \notin Watched /\ fileAt[p] # NULL
  /\ Len(watches) < MaxAdded
  /\ KernelBecomes(inotify_add_watch(Kernel, fileAt[p], TRUE))
  /\ watch_list' = <<[path |-> p, wd |-> Len(watches')]>> \o watch_list
  /\ UNCHANGED <<opened, fileAt, made, movedAway>>

fs_monitor_del_watcher(p) ==
  /\ opened
  /\ \E i \in DOMAIN watch_list :
       /\ watch_list[i].path = p
       /\ KernelBecomes(inotify_rm_watch(Kernel, watch_list[i].wd))
       /\ watch_list' = RemoveAt(watch_list, i)
  /\ UNCHANGED <<opened, fileAt, made, movedAway>>

OnlyDeleted(type) == type = "IN_DELETE_SELF"         \* mutant of PathChanged

PathChanged(type) == type \in {"IN_DELETE_SELF", "IN_MOVE_SELF", "IN_IGNORED"}

(* The watch is set anew on the file that is at the path now, with the     *)
(* mask the caller gave; without one the watcher goes.                     *)
Restored(i) ==
  LET w    == watch_list[i]
      gone == inotify_rm_watch([Kernel EXCEPT !.events = Tail(@)], w.wd)
  IN  IF fileAt[w.path] = NULL
      THEN KernelBecomes(gone) /\ watch_list' = RemoveAt(watch_list, i)
      ELSE /\ KernelBecomes(inotify_add_watch(gone, fileAt[w.path], FALSE))
           /\ watch_list' = [watch_list EXCEPT ![i].wd = Len(watches')]

(* fs_monitor_task reads the events and handles one after the other.       *)
fs_monitor_handle_event ==
  /\ opened /\ events # <<>> /\ Len(watches) < MaxAdded
  /\ LET found == {i \in DOMAIN watch_list : watch_list[i].wd = Head(events).wd}
     IN  IF found # {} /\ PathChanged(Head(events).type)
         THEN \E i \in found : Restored(i)
         ELSE events' = Tail(events) /\ UNCHANGED <<watches, watch_list>>
  /\ UNCHANGED <<opened, fileAt, made, movedAway>>

MonitorNext ==
  \/ fs_monitor_init \/ fs_monitor_cleanup \/ fs_monitor_handle_event
  \/ \E p \in Files :
       fs_monitor_add_watcher(p) \/ fs_monitor_del_watcher(p) \/ FileChanges(p)

MonitorSpec == MonitorInit /\ [][MonitorNext]_monitorvars

-----------------------------------------------------------------------------
(* Properties. *)

(* When all events are handled, each watcher watches the file at its path, *)
(* however often and in whatever order it was deleted, replaced and made   *)
(* again meanwhile; but one that was set anew once, without                *)
(* PATH_CHANGE_EVENTS, follows a file that is moved away after that.       *)
WatcherIsAtPath ==
  events = <<>> =>
    \A w \in ToSet(watch_list) :
      /\ watches[w.wd] # NULL
      /\ \/ watches[w.wd].file = fileAt[w.path]
         \/ ~watches[w.wd].self /\ watches[w.wd].file \in movedAway
=============================================================================
