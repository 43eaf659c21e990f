---------------------------- MODULE SettingsStore ----------------------------
(* The settings of the daemon and their file: src/src/settings/store.rs,    *)
(* with the shutdown of daemon/runtime.rs.                                  *)
(*                                                                          *)
(* An update changes the settings under their lock and marks them dirty     *)
(* afterwards; a writer task saves them once no update came for a while,    *)
(* and a caller that cannot wait saves them itself (flush_now).  The file   *)
(* is written beside the old one and renamed over it.  A state of the       *)
(* settings is a version and the members of the canvases, whose edits       *)
(* clients base on a revision.                                              *)
EXTENDS Integers

CONSTANTS Clients,         \* number of tasks that update the settings
          Canvas, Member,  \* canvas ids, and settings keys of displays
          MaxVersion,      \* number of changes
          Faults,          \* subset of {"write", "crash", "abort"}
          NoCanvas

ASSUME StoreConstants == Clients \in Nat

VARIABLES memory,          \* the settings held (SettingsStore.inner)
          clock,           \* changes so far, for new versions
          revision,        \* canvas_revision
          dirty, notified, \* the flag, and the permit of the Notify
          lock,            \* flush_lock
          file, tmp,       \* the settings in the file and beside it
          writer,          \* what the writer task waits for
          flush,           \* how far each flush is: [at, snap]
          client,          \* what each client is doing
          daemon           \* "running", "stopping", "stopped"

storeVars == <<memory, clock, revision>>
fileVars == <<file, tmp>>
allVars == <<memory, clock, revision, dirty, notified, lock, file, tmp, writer, flush, client,
          daemon>>

Client == 1 .. Clients
Writer == 0
Main == -1
Flusher == Client \cup {Writer, Main}
Unlocked == -2
Defaults == [version |-> 0, canvases |-> [c \in Canvas |-> NoCanvas]]
NoFlush == [at |-> "none", snap |-> Defaults]
ClientIdle == [at |-> "idle", seen |-> 0]
canvases == memory.canvases

(* load_or_default *)
Load ==
  /\ memory = Defaults /\ clock = 0
  /\ revision = 1
  /\ dirty = FALSE /\ notified = FALSE
  /\ lock = Unlocked
  /\ file = Defaults /\ tmp = Defaults
  /\ writer = "parked"
  /\ flush = [f \in Flusher |-> NoFlush]
  /\ client = [c \in Client |-> ClientIdle]
  /\ daemon = "running"

----------------------------------------------------------------------------
(* Changes.                                                                 *)

Changed(c, new) ==
  /\ clock < MaxVersion
  /\ clock' = clock + 1
  /\ memory' = [version |-> clock + 1, canvases |-> new]
  /\ client' = [client EXCEPT ![c] = [ClientIdle EXCEPT !.at = "marking"]]
  /\ UNCHANGED <<dirty, notified, lock, fileVars, writer, flush, daemon>>

(* update, set_canvas_wallpaper and the like, when they change something *)
Update(c) ==
  /\ client[c].at = "idle" /\ daemon = "running"
  /\ Changed(c, canvases)
  /\ UNCHANGED revision

(* A client reads the canvases and their revision, to base an edit on.      *)
ReadCanvases(c) ==
  /\ client[c].at = "idle" /\ daemon = "running"
  /\ client' = [client EXCEPT ![c] = [at |-> "editing", seen |-> revision]]
  /\ UNCHANGED <<storeVars, dirty, notified, lock, fileVars, writer, flush, daemon>>

Abandon(c) == client' = [client EXCEPT ![c] = ClientIdle]
Elsewhere(id) == UNION {canvases[o] : o \in {o \in Canvas \ {id} : canvases[o] # NoCanvas}}

(* Mutant: a canvas may be edited into one that has the display already.    *)
NoConflictAnywhere(id, members) == TRUE

(* check_canvas_members *)
NoConflict(id, members) == members \cap Elsewhere(id) = {}

EditCanvas(c, id, members) ==
  /\ Changed(c, [canvases EXCEPT ![id] = members])
  /\ revision' = revision + 1

(* create_canvas *)
CreateCanvas(c, id, members) ==
  /\ client[c].at = "idle" /\ daemon = "running"
  /\ canvases[id] = NoCanvas
  /\ NoConflict(id, members)
  /\ EditCanvas(c, id, members)

(* update_canvas, and with the same members configure_canvas_member *)
UpdateCanvas(c, id, members) ==
  /\ client[c].at = "editing" /\ client[c].seen = revision
  /\ canvases[id] # NoCanvas /\ NoConflict(id, members)
  /\ EditCanvas(c, id, members)

DeleteCanvas(c, id) ==
  /\ client[c].at = "editing" /\ client[c].seen = revision
  /\ canvases[id] # NoCanvas
  /\ EditCanvas(c, id, NoCanvas)

(* Any refusal: the revision went on, the canvas is gone, or a member is    *)
(* taken.  The client starts over.                                          *)
EditRefused(c) ==
  /\ client[c].at = "editing"
  /\ Abandon(c)
  /\ UNCHANGED <<storeVars, dirty, notified, lock, fileVars, writer, flush, daemon>>

(* Mutant: notify_waiters, which leaves no permit to a writer that is busy. *)
WakesWaiters(c) == writer \in {"parked", "debounce"}

(* notify_one keeps a permit for the writer *)
Stored(c) == TRUE

(* The change is marked once the settings' lock is released; the caller may *)
(* then save at once.                                                       *)
Mark(c, now) ==
  /\ client[c].at = "marking"
  /\ dirty' = TRUE
  /\ notified' = (notified \/ Stored(c))
  /\ client' = [client EXCEPT ![c] = IF now THEN [@ EXCEPT !.at = "flushing"] ELSE ClientIdle]
  /\ flush' = IF now THEN [flush EXCEPT ![c].at = "check"] ELSE flush
  /\ UNCHANGED <<storeVars, lock, fileVars, writer, daemon>>

----------------------------------------------------------------------------
(* flush, by any of its callers.                                            *)

Ends(f) ==
  /\ flush' = [flush EXCEPT ![f] = NoFlush]
  /\ client' = IF f \in Client THEN [client EXCEPT ![f] = ClientIdle] ELSE client
  /\ writer' = IF f = Writer THEN "parked" ELSE writer
  /\ daemon' = IF f = Main THEN "stopped" ELSE daemon

To(f, at) == flush' = [flush EXCEPT ![f].at = at] /\ UNCHANGED <<client, writer, daemon>>

FlushCheck(f) ==
  /\ flush[f].at = "check"
  /\ IF dirty THEN To(f, "lock") ELSE Ends(f)
  /\ UNCHANGED <<storeVars, dirty, notified, lock, fileVars>>

(* Mutant: flushes are not serialized. *)
Unserialized == TRUE
FlushFree == lock = Unlocked

FlushLock(f) ==
  /\ flush[f].at = "lock"
  /\ FlushFree
  /\ dirty' = FALSE
  /\ IF dirty THEN lock' = f /\ To(f, "snapshot") ELSE UNCHANGED lock /\ Ends(f)
  /\ UNCHANGED <<storeVars, notified, fileVars>>

FlushSnapshot(f) ==
  /\ flush[f].at = "snapshot"
  /\ flush' = [flush EXCEPT ![f] = [at |-> "write", snap |-> memory]]
  /\ UNCHANGED <<storeVars, dirty, notified, lock, fileVars, writer, client, daemon>>

FlushWrite(f) ==
  /\ flush[f].at = "write"
  /\ tmp' = flush[f].snap
  /\ To(f, "rename")
  /\ UNCHANGED <<storeVars, dirty, notified, lock, file>>

FlushRename(f) ==
  /\ flush[f].at = "rename"
  /\ file' = tmp
  /\ lock' = Unlocked
  /\ Ends(f)
  /\ UNCHANGED <<storeVars, dirty, notified, tmp>>

(* Mutant: a failed write is forgotten. *)
LeavesClean(f) == FALSE
LeavesDirty(f) == TRUE

(* serialize, create_dir_all, write or rename fails *)
FlushFails(f) ==
  /\ "write" \in Faults
  /\ flush[f].at \in {"write", "rename"}
  /\ dirty' = (dirty \/ LeavesDirty(f))
  /\ lock' = Unlocked
  /\ Ends(f)
  /\ UNCHANGED <<storeVars, notified, fileVars>>

Flush(f) ==
  FlushCheck(f) \/ FlushLock(f) \/ FlushSnapshot(f) \/ FlushWrite(f) \/ FlushRename(f)

----------------------------------------------------------------------------
(* The writer task.                                                         *)

WriterWakes ==
  /\ writer \in {"parked", "debounce"} /\ notified
  /\ notified' = FALSE
  /\ writer' = "debounce"
  /\ UNCHANGED <<storeVars, dirty, lock, fileVars, flush, client, daemon>>

WriterSettles ==
  /\ writer = "debounce" /\ ~notified
  /\ writer' = "flushing"
  /\ flush' = [flush EXCEPT ![Writer].at = "check"]
  /\ UNCHANGED <<storeVars, dirty, notified, lock, fileVars, client, daemon>>

(* Shutdown: the others have stopped; stop_writer aborts the task where it  *)
(* waits (which it does not between the flag and the copy), and the last    *)
(* flush follows.  Without the fault "abort" it waits for no file.          *)
StopWriter ==
  /\ daemon = "running"
  /\ \A c \in Client : client[c] = ClientIdle
  /\ flush[Writer].at # "snapshot" /\ ("abort" \in Faults \/ flush[Writer] = NoFlush)
  /\ daemon' = "stopping"
  /\ writer' = "aborted"
  /\ lock' = IF lock = Writer THEN Unlocked ELSE lock
  /\ flush' = [flush EXCEPT ![Writer] = NoFlush, ![Main].at = "check"]
  /\ UNCHANGED <<storeVars, dirty, notified, fileVars, client>>

(* The daemon dies where it is and is started again. *)
Crash ==
  /\ "crash" \in Faults
  /\ daemon # "stopped" /\ clock < MaxVersion
  /\ memory' = file
  /\ clock' = clock + 1
  /\ revision' = 1
  /\ dirty' = FALSE /\ notified' = FALSE
  /\ lock' = Unlocked
  /\ writer' = "parked"
  /\ flush' = [f \in Flusher |-> NoFlush]
  /\ client' = [c \in Client |-> ClientIdle]
  /\ daemon' = "running"
  /\ UNCHANGED fileVars

Done == daemon = "stopped" /\ UNCHANGED allVars

StoreNext ==
  \/ \E c \in Client :
       \/ Update(c) \/ ReadCanvases(c) \/ EditRefused(c)
       \/ \E id \in Canvas, members \in SUBSET Member :
            CreateCanvas(c, id, members) \/ UpdateCanvas(c, id, members)
       \/ \E id \in Canvas : DeleteCanvas(c, id)
       \/ \E now \in BOOLEAN : Mark(c, now)
  \/ \E f \in Flusher : Flush(f) \/ FlushFails(f)
  \/ WriterWakes \/ WriterSettles \/ StopWriter \/ Crash \/ Done

StoreFairness ==
  /\ \A f \in Flusher : WF_allVars(Flush(f))
  /\ \A c \in Client : WF_allVars(Mark(c, FALSE) \/ Mark(c, TRUE)) /\ WF_allVars(EditRefused(c))
  /\ WF_allVars(WriterWakes) /\ WF_allVars(WriterSettles)

StoreSpec == Load /\ [][StoreNext]_allVars

----------------------------------------------------------------------------
(* When nothing is marked dirty, no change is on its way to be marked and   *)
(* no flush is under way, the file is what is held: no interleaving of      *)
(* updates, flushes and failing writes forgets a change.                    *)
AllMarked ==
  /\ \A c \in Client : client[c].at # "marking"
  /\ \A f \in Flusher : flush[f].at \in {"none", "check", "lock"}

SavedWhenClean == (daemon = "running" /\ ~dirty /\ AllMarked) => file = memory

(* The file never goes back to older settings. *)
NotOlder == file'.version >= file.version
FileGoesForward == [][NotOlder]_allVars

(* A display belongs to one canvas: canvas_for_member may take the first.   *)
OneCanvas ==
  \A a, b \in Canvas :
    a # b /\ canvases[a] # NoCanvas /\ canvases[b] # NoCanvas
      => canvases[a] \cap canvases[b] = {}

(* A change is saved in the end, if no write fails and the daemon lives.    *)
EventuallySaved == <>[](daemon # "stopped" => file = memory)
=============================================================================
