--------------------------- MODULE SourceCatalog ---------------------------
(* The catalogue of local wallpapers: the refresh that lists a library       *)
(* through its source plugin and writes the rows of the database, and what   *)
(* starts or disturbs one (catalog/mod.rs, catalog/watch.rs, model/sync.rs,  *)
(* plugin/source/manager.rs, plugins/install.rs and reload.rs).              *)
(*                                                                           *)
(* One plugin has one library, a flat directory.  Several refreshes run at   *)
(* once: nothing but the key of their task keeps them apart, and they share  *)
(* the catalogue in memory, the database, and the flag the watcher obeys.    *)
EXTENDS Naturals, FiniteSets

CONSTANTS File,           \* the wallpapers that may be in the library
          Mixes,          \* what may happen in a behaviour, and how often
          ScanErrors      \* the plugin's scan may fail of itself

\* The refresh of the start, of the watcher, of a reload, and two tasks of the user
User == {"user1", "user2"}
Refresh == {"startup", "watch", "reload"} \cup User

Kinds == {"arrive", "leave", "remove", "scan", "library", "reload", "mount"}

ASSUME MixesAssumption ==
  Mixes \subseteq [kinds : SUBSET Kinds, changes : Nat]

VARIABLES
  mix,        \* the mix of this behaviour, and what is left of it
  files,      \* the files in the directory
  copying,    \* those of them still being copied
  aged,       \* those copied since before the watcher's last look
  mounted,    \* whether the directory can be reached
  mtime,      \* changes of the directory's entries
  version,    \* changes of anything a listing depends on
  library,    \* whether the library is registered
  rows,       \* the items of the library in the database
  catalog,    \* the listing all refreshes share: what was found, and in which version
  refresh,    \* the refreshes
  scanning,   \* scan_in_progress
  watch,      \* what the watcher remembers
  plugin,     \* the plugin: its generation, and whether it is suspended
  remover,    \* a removal the user asked for
  newest,     \* history: the newest version a refresh has begun to write
  tainted,    \* history: an older or a failed listing was written after a newer one, or one
              \* that lacks a library that is registered
  leftAt      \* history: the version in which a file left after its row was last written

vars == <<mix, files, copying, aged, mounted, mtime, version, library, rows, catalog, refresh,
          scanning, watch, plugin, remover, newest, tainted, leftAt>>
directory == <<files, copying, aged, mounted, mtime>>
history == <<newest, tainted, leftAt>>

----------------------------------------------------------------------------
(* Listings and refreshes.                                                  *)

\* What was found in which version, and whether the library was looked into; a scan that
\* failed has version 0
Listing(found, at, lib) == [found |-> found, at |-> at, lib |-> lib]
Nothing == Listing({}, 0, FALSE)

Idle == [phase |-> "idle", lib |-> FALSE, gen |-> 0, list |-> Nothing, present |-> FALSE,
         stale |-> {}, left |-> {}, doomed |-> FALSE]
Started == [Idle EXCEPT !.phase = "begin"]

RemoverIdle == [phase |-> "idle", item |-> {}, held |-> FALSE]

Active(s) == refresh[s].phase # "idle"
\* The watcher's memory of the directory: nothing, not there, or its stamp
Unseen == [known |-> FALSE, time |-> 0]
DirTime == IF mounted THEN mtime + 1 ELSE 0
Times == IF library THEN [known |-> TRUE, time |-> DirTime] ELSE Unseen

May(kind) == kind \in mix.kinds /\ mix.changes > 0
Spend == mix' = [mix EXCEPT !.changes = @ - 1]

Init ==
  /\ mix \in Mixes
  /\ library \in BOOLEAN /\ (library \/ "library" \in mix.kinds)
  /\ files \in SUBSET File /\ rows \in SUBSET File /\ (library \/ rows = {})
  /\ copying = {} /\ aged = {}
  /\ mounted = TRUE /\ mtime = 0 /\ version = 1
  /\ catalog = Nothing
  /\ refresh = [s \in Refresh |-> IF s = "startup" /\ library THEN Started ELSE Idle]
  /\ scanning = FALSE
  /\ watch = [seen |-> Times, recheck |-> FALSE]
  /\ plugin = [gen |-> 1, draining |-> FALSE]
  /\ remover = RemoverIdle
  /\ newest = 0 /\ tainted = FALSE
  /\ leftAt = [f \in File |-> IF f \in files THEN 0 ELSE 1]

----------------------------------------------------------------------------
(* A refresh, step by step.                                                 *)

\* The flag is set, and the libraries and the handles of the plugins are read
Begin(s) ==
  /\ refresh[s].phase = "begin"
  /\ refresh' = [refresh EXCEPT ![s] =
       [@ EXCEPT !.phase = "scan", !.lib = library, !.gen = plugin.gen]]
  /\ scanning' = TRUE
  /\ UNCHANGED <<mix, directory, version, library, rows, catalog, watch, plugin, remover, history>>

\* What the plugin lists: the files of the libraries that were read
Found(s) == IF refresh[s].lib /\ mounted THEN files \ copying ELSE {}

\* The plugin's callback runs, if the plugin is still the one and is not suspended
ScanSucceeds(s) ==
  /\ refresh[s].gen = plugin.gen /\ ~plugin.draining
  /\ refresh' = [refresh EXCEPT ![s] =
       [@ EXCEPT !.phase = "publish",
                 !.gen = 0,
                 !.list = Listing(Found(s), IF refresh[s].lib = library THEN version ELSE 0,
                                  refresh[s].lib)]]

ScanFails(s) ==
  /\ ScanErrors \/ refresh[s].gen # plugin.gen \/ plugin.draining
  /\ refresh' = [refresh EXCEPT ![s] = 
       [@ EXCEPT !.phase = "publish", !.gen = 0, !.list = Nothing]]

Scan(s) ==
  /\ refresh[s].phase = "scan"
  /\ ScanSucceeds(s) \/ ScanFails(s)
  /\ UNCHANGED <<mix, directory, version, library, rows, catalog, scanning, watch, plugin, remover,
                 history>>

\* When every plugin has answered the catalogue is replaced; the thread of a task that was
\* dropped meanwhile does so too, and ends
Publish(s) ==
  /\ refresh[s].phase \in {"publish", "orphan"}
  /\ catalog' = refresh[s].list
  /\ refresh' = [refresh EXCEPT ![s] =
       IF @.phase = "orphan" THEN Idle ELSE [@ EXCEPT !.phase = "list"]]
  /\ UNCHANGED <<mix, directory, version, library, rows, scanning, watch, plugin, remover, history>>

\* The entries to write are read back from the catalogue, where another refresh may have put
\* an older listing meanwhile, or one made while the library was not registered; a refresh
\* whose scan failed writes what is there all the same
List(s) ==
  /\ refresh[s].phase = "list"
  /\ refresh' = [refresh EXCEPT ![s] = [@ EXCEPT !.phase = "sync", !.list = catalog]]
  /\ tainted' = (tainted \/ catalog.at < refresh[s].list.at \/ refresh[s].list.at = 0)
  /\ UNCHANGED <<mix, directory, version, library, rows, catalog, scanning, watch, plugin, remover,
                 newest, leftAt>>

\* Rows of a directory that cannot be reached are spared
Registered(s) == refresh[s].lib
Reachable(s) == Registered(s) /\ mounted

\* Rows written from now on are not stale; only a library that is there will be swept.
\* The listing is fresh, is overtaken by a newer one, comes of a failed scan, or lacks the
\* library.
SyncBegin(s) ==
  LET at == refresh[s].list.at
      lacking == Registered(s) /\ ~refresh[s].list.lib IN
  /\ refresh[s].phase = "sync"
  /\ refresh' = [refresh EXCEPT ![s] =
       [@ EXCEPT !.phase = "upsert", !.present = Reachable(s), !.stale = rows,
                 !.left = refresh[s].list.found]]
  /\ newest' = IF at > newest THEN at ELSE newest
  /\ tainted' = IF at = version /\ refresh[s].lib = library /\ ~refresh[s].doomed THEN FALSE
                ELSE tainted \/ at = 0 \/ at < newest \/ lacking
  /\ UNCHANGED <<mix, directory, version, library, rows, catalog, scanning, watch, plugin, remover,
                 leftAt>>

\* A refresh that goes on writing after a newer one has begun
Late(s) == refresh[s].list.at < newest

\* An entry is written; a library that is not registered (any more) is added
Upsert(s, f) ==
  /\ refresh[s].phase = "upsert" /\ f \in refresh[s].left
  /\ rows' = rows \cup {f}
  /\ library' = TRUE
  /\ version' = IF library THEN version ELSE version + 1
  /\ refresh' = [t \in Refresh |->
       IF t = s THEN [refresh[t] EXCEPT !.left = @ \ {f}, !.stale = @ \ {f}]
       ELSE [refresh[t] EXCEPT !.stale = @ \ {f}]]
  /\ leftAt' = IF leftAt[f] > refresh[s].list.at THEN leftAt ELSE [leftAt EXCEPT ![f] = 0]
  /\ tainted' = (tainted \/ Late(s) \/ ~library)
  /\ UNCHANGED <<mix, directory, catalog, scanning, watch, plugin, remover, newest>>

\* A row that is deleted is no longer the one a removal was asked for
Dropped(gone) ==
  remover' = IF remover.item \subseteq gone THEN [remover EXCEPT !.held = FALSE] ELSE remover

\* What was not written since the refresh began to write is deleted, and the flag is cleared
Sweep(s) ==
  LET gone == IF refresh[s].present /\ library THEN refresh[s].stale ELSE {} IN
  /\ refresh[s].phase = "upsert" /\ refresh[s].left = {}
  /\ s \in User => \A t \in User \ {s} : ~refresh[t].doomed
  /\ rows' = rows \ gone
  /\ Dropped(gone)
  /\ refresh' = [t \in Refresh |->
       IF t = s THEN Idle ELSE [refresh[t] EXCEPT !.stale = @ \ gone]]
  /\ scanning' = FALSE
  /\ tainted' = (tainted \/ (gone # {} /\ Late(s)))
  /\ UNCHANGED <<mix, directory, version, library, catalog, watch, plugin, newest, leftAt>>

\* The task is dropped at an await, the flag as it is; a scan goes on without it
Abort(s) ==
  /\ refresh[s].doomed /\ refresh[s].phase # "orphan" /\ refresh[s].phase # "scan"
  /\ refresh' = [refresh EXCEPT ![s] =
       IF @.phase = "publish" THEN [@ EXCEPT !.phase = "orphan", !.doomed = FALSE] ELSE Idle]
  /\ UNCHANGED <<mix, directory, version, library, rows, catalog, scanning, watch, plugin, remover,
                 history>>

RefreshStep(s) ==
  \/ Begin(s) \/ Scan(s) \/ Publish(s) \/ List(s) \/ SyncBegin(s) \/ Sweep(s) \/ Abort(s)
  \/ \E f \in File : Upsert(s, f)

----------------------------------------------------------------------------
(* What starts a refresh.                                                   *)

\* spawn_async_unique: the task under the key is cancelled, and another one takes it
Restarted(tasks, s) ==
  [t \in Refresh |->
     IF t = s THEN Started
     ELSE IF t \in User /\ tasks[t].phase \notin {"idle", "orphan"}
       THEN [tasks[t] EXCEPT !.doomed = TRUE] ELSE tasks[t]]

\* What asks for another look: a change, and a refresh that is still running
ChangeOnly(changed) == changed
Recheck(changed) == changed \/ (watch.recheck /\ scanning)

\* The watcher looks: a directory that changed is refreshed now and at the next look
Tick ==
  LET changed == watch.seen.known /\ Times.known /\ watch.seen # Times
      rescan == changed \/ watch.recheck IN
  /\ refresh["watch"].phase = "idle"
  /\ aged = {} /\ aged' = copying
  /\ watch' = [seen |-> Times, recheck |-> Recheck(changed)]
  /\ refresh' = IF rescan /\ ~scanning THEN [refresh EXCEPT !["watch"] = Started] ELSE refresh
  /\ UNCHANGED <<mix, files, copying, mounted, mtime, version, library, rows, catalog, scanning,
                 plugin, remover, history>>

\* The user asks for a refresh
AskScan ==
  /\ May("scan") /\ Spend
  /\ \E s \in User : ~Active(s) /\ refresh' = Restarted(refresh, s)
  /\ UNCHANGED <<directory, version, library, rows, catalog, scanning, watch, plugin, remover,
                 history>>

\* A library is registered, and a refresh started
AddLibrary ==
  /\ May("library") /\ Spend
  /\ ~library /\ mounted /\ library' = TRUE
  /\ version' = version + 1
  /\ \E s \in User : ~Active(s) /\ refresh' = Restarted(refresh, s)
  /\ UNCHANGED <<directory, rows, catalog, scanning, watch, plugin, remover, history>>

\* A library is removed, its rows with it, and a refresh started
RemoveLibrary ==
  /\ May("library") /\ Spend
  /\ library /\ library' = FALSE
  /\ rows' = {} /\ Dropped(rows)
  /\ version' = version + 1
  /\ \E s \in User : ~Active(s) /\
       refresh' = [t \in Refresh |-> [Restarted(refresh, s)[t] EXCEPT !.stale = {}]]
  /\ UNCHANGED <<directory, catalog, scanning, watch, plugin, history>>

\* Plugins are installed: those loaded are suspended, then replaced, and a refresh started, ...
Suspend ==
  /\ May("reload") /\ Spend
  /\ ~plugin.draining /\ refresh["reload"].phase = "idle"
  /\ plugin' = [plugin EXCEPT !.draining = TRUE]
  /\ UNCHANGED <<directory, version, library, rows, catalog, refresh, scanning, watch, remover,
                 history>>

Replace ==
  /\ plugin.draining
  /\ plugin' = [gen |-> plugin.gen + 1, draining |-> FALSE]
  /\ catalog' = Nothing
  /\ refresh' = IF library THEN [refresh EXCEPT !["reload"] = Started] ELSE refresh
  /\ UNCHANGED <<mix, directory, version, library, rows, scanning, watch, remover, history>>

\* ... or resumed, when the replacement cannot be loaded
Resume ==
  /\ plugin.draining
  /\ plugin' = [plugin EXCEPT !.draining = FALSE]
  /\ UNCHANGED <<mix, directory, version, library, rows, catalog, refresh, scanning, watch, remover,
                 history>>

----------------------------------------------------------------------------
(* The directory, and the user's removals.                                  *)

Leaves(f) ==
  /\ files' = files \ {f} /\ copying' = copying \ {f} /\ aged' = aged \ {f}
  /\ mtime' = mtime + 1 /\ version' = version + 1
  /\ leftAt' = [leftAt EXCEPT ![f] = version + 1]
  /\ UNCHANGED mounted

\* A file is copied into the directory, which takes a while ...
Arrive(f) ==
  /\ May("arrive") /\ Spend
  /\ mounted /\ f \notin files /\ f \notin remover.item
  /\ files' = files \cup {f} /\ copying' = copying \cup {f}
  /\ mtime' = mtime + 1 /\ version' = version + 1
  /\ UNCHANGED <<aged, mounted, library, rows, catalog, refresh, scanning, watch, plugin, remover,
                 history>>

\* ... and leaves no trace in the directory when it ends
Copied(f) ==
  /\ f \in copying
  /\ copying' = copying \ {f} /\ aged' = aged \ {f}
  /\ version' = version + 1
  /\ UNCHANGED <<mix, files, mounted, mtime, library, rows, catalog, refresh, scanning, watch,
                 plugin, remover, history>>

Leave(f) ==
  /\ May("leave") /\ Spend
  /\ mounted /\ f \in files /\ Leaves(f)
  /\ UNCHANGED <<library, rows, catalog, refresh, scanning, watch, plugin, remover, newest, tainted>>

\* The file system comes and goes, but not while a refresh lists it and looks whether it is
\* there, nor between two looks of the watcher
Mount ==
  /\ May("mount") /\ Spend
  /\ copying = {} /\ watch.seen = Times
  /\ \A s \in Refresh : refresh[s].phase \in {"idle", "begin", "upsert"}
  /\ mounted' = ~mounted /\ version' = version + 1
  /\ UNCHANGED <<files, copying, aged, mtime, library, rows, catalog, refresh, scanning, watch,
                 plugin, remover, history>>

\* A removal reads the item, ...
AskRemove(f) ==
  /\ May("remove") /\ Spend
  /\ remover.phase = "idle" /\ f \in rows
  /\ remover' = [phase |-> "callback", item |-> {f}, held |-> TRUE]
  /\ UNCHANGED <<directory, version, library, rows, catalog, refresh, scanning, watch, plugin,
                 history>>

\* ... lets the plugin delete the file, which is no error if it is gone, ...
DeleteFile(f) ==
  /\ remover.phase = "callback" /\ f \in remover.item /\ ~plugin.draining
  /\ remover' = [remover EXCEPT !.phase = "row"]
  /\ \/ mounted /\ f \in files /\ Leaves(f)
     \/ ~(mounted /\ f \in files) /\ UNCHANGED <<directory, version, leftAt>>
  /\ UNCHANGED <<mix, library, rows, catalog, refresh, scanning, watch, plugin, newest, tainted>>

\* ... which a suspended plugin does not do, nor one that has no permission, ...
DeleteFails ==
  /\ remover.phase = "callback"
  /\ remover' = RemoverIdle
  /\ UNCHANGED <<mix, directory, version, library, rows, catalog, refresh, scanning, watch, plugin,
                 history>>

\* ... and deletes the row that was read
DeleteRow ==
  LET gone == IF remover.held THEN remover.item ELSE {} IN
  /\ remover.phase = "row"
  /\ rows' = rows \ gone
  /\ refresh' = [t \in Refresh |-> [refresh[t] EXCEPT !.stale = @ \ gone]]
  /\ remover' = RemoverIdle
  /\ UNCHANGED <<mix, directory, version, library, catalog, scanning, watch, plugin, history>>

Next ==
  \/ \E s \in Refresh : RefreshStep(s)
  \/ Tick \/ AskScan \/ AddLibrary \/ RemoveLibrary \/ Suspend \/ Replace \/ Resume \/ Mount
  \/ \E f \in File : Arrive(f) \/ Copied(f) \/ Leave(f) \/ AskRemove(f) \/ DeleteFile(f)
  \/ DeleteFails \/ DeleteRow

Spec == Init /\ [][Next]_vars

----------------------------------------------------------------------------
\* Nothing is going on, and the watcher has seen all there is to see
AtRest ==
  /\ \A s \in Refresh : ~Active(s)
  /\ remover.phase = "idle" /\ copying = {} /\ ~plugin.draining
  /\ watch = [seen |-> Times, recheck |-> FALSE]

\* When nothing goes on any more, no refresh is announced, and the database shows exactly
\* the wallpapers of the library, whatever changed while refreshes were running, unless one
\* that listed them earlier, or not at all, wrote after one that listed them later.
CatalogAtRest ==
  AtRest => /\ ~scanning
            /\ (mounted /\ ~tainted) => rows = IF library THEN files ELSE {}

\* A file that was in the directory all the time since its row was written, be it mounted or
\* not, and that the user does not remove
Stayed(f) == f \in files' /\ leftAt[f] = 0 /\ f \notin remover.item

\* The item of a wallpaper that stays where it is is not deleted (it is in playlists, and
\* has settings of its own) while its library is registered, under the same exception.
KeepsItems ==
  [][library /\ library' /\ ~tainted' => \A f \in rows \ rows' : ~Stayed(f)]_vars

\* A failed scan is not taken for one that found nothing: it deletes no item of a file that
\* is there.
FailedScanKeepsItems ==
  [][library /\ library' => \A f \in rows \ rows' : ~Stayed(f)]_vars
============================================================================
