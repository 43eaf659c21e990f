--------------------------- MODULE PlaylistEngine ---------------------------
(* Playlist sessions, who owns which display, and what is remembered:       *)
(* src/src/playback/playlist/engine.rs (Engine), with the callers in        *)
(* application/playback/playlist.rs and restore.rs and the playlist edits   *)
(* of api/websocket/handlers.rs.                                            *)
(*                                                                          *)
(* Edits, activations, attachments, deactivations and the refresh of smart  *)
(* playlists hold playlist_mutation from their first read to their last     *)
(* write; a display that goes away is dropped without it.  Every Engine     *)
(* method takes `operations` for the whole of its change of sessions and    *)
(* owners, so such a change is one step; the apply that follows it, outside *)
(* of that lock, ends in a later step.  The cursors of a session are        *)
(* PlaylistCursor's subject; here a session is its definition and members.  *)
(* An apply may fail: the settings are then left as they were, while the    *)
(* displays stay with the playlist or, if the watcher asked, lose it again. *)
EXTENDS Naturals, FiniteSets, Sequences

CONSTANTS Display,         \* display ids; a display that comes back has a new one
          AtStart,         \* those registered at the start
          Key, KeyOf,      \* settings keys, and the key of each display
          Playlist,
          Smart,           \* playlists whose items are a query over the library
          User,            \* control connections
          Mixes,           \* what may happen together, see mix
          SlowCall,        \* may an Engine call come later than 100 ms after
                           \* the read of the definition it is made with?
          NoPlaylist, NoSession

Session ==
  [id : Nat, definition : [form : Nat, items : Nat], members : SUBSET Display]

ASSUME Distinct ==
  /\ NoPlaylist \notin Playlist /\ NoSession \notin Session
  /\ Smart \subseteq Playlist /\ AtStart \subseteq Display
  /\ KeyOf \in [Display -> Key]
  /\ \A m \in Mixes : m.kinds \subseteq {"activate", "deactivate", "edit", "rename", "delete"}

VARIABLES saved,           \* the database: [rev, form], form 0 is an empty list
          library,         \* what the smart queries answer, as a version
          announced,       \* the version the last announcement was about
          generation,      \* wallpaper_changes
          session,         \* by_playlist: [id, definition, members]
          owner,           \* by_display
          made,            \* sessions made so far (identity of the Arc)
          prefs,           \* DisplayPrefs.active_playlist_id, by key
          connected, gone, \* displays registered at the router, and not any more
          events,          \* router events the hotplug watcher has not read
          pending,         \* its queue_pending, playlist by playlist
          mutation,        \* holder of playlist_mutation
          op,              \* what each actor is doing
          refresher,       \* [seen, tickets, failed, detail]
          mix,             \* [kinds, requests, changes, failures, hotplug]: the
                           \* kinds of request, and how many requests, changes of
                           \* the library and failing reads; do displays come and go?
          requests, changes, failures,  \* counts, for the bounds
          unsaved          \* history: the last playlist given to a display was not
                           \* remembered, as its apply failed, and was "kept" or "dropped"

engineVars == <<session, owner, made>>
dbVars == <<saved, library, announced>>
counts == <<mix, requests, changes, failures, unsaved>>
plugVars == <<connected, gone, events, pending>>
vars == <<saved, library, announced, generation, session, owner, made, prefs, connected, gone,
          events, pending, mutation, op, refresher, mix, requests, changes, failures, unsaved>>

Watcher == "watcher"
Actor == User \cup {Watcher}
Free == "free"

(* No two displays registered at a time have one settings key (Plug).       *)
ASSUME Apart ==
  /\ \A c, d \in AtStart : KeyOf[c] = KeyOf[d] => c = d
  /\ User \cap {Watcher, Free} = {}

Deleted == [rev |-> 0, form |-> 0]  \* rows begin at revision 1
Form == 0..1

NoDefinition == [form |-> 0, items |-> 0]
Idle == [kind |-> "idle", phase |-> "idle", p |-> NoPlaylist, ds |-> {}, def |-> NoDefinition]
NoDetail == [p |-> NoPlaylist, rev |-> 0, def |-> NoDefinition]

(* definition: the row and, for a smart playlist, its items as of now. *)
Definition(p) == [form |-> saved[p].form, items |-> IF p \in Smart THEN library ELSE 0]
Exists(p) == saved[p] # Deleted
Empty(p, def) == p \notin Smart /\ def.form = 0

----------------------------------------------------------------------------
(* Engine                                                                   *)

Live(p) == session[p] # NoSession
Members(s, p) == IF s[p] = NoSession THEN {} ELSE s[p].members

(* remove_display_inner, for a set of displays: the last one ends a session. *)
WithoutDisplays(ds) ==
  [p \in Playlist |->
     IF ~Live(p) \/ session[p].members \subseteq ds THEN NoSession
     ELSE [session[p] EXCEPT !.members = @ \ ds]]

Disowned(ds) == [d \in Display |-> IF d \in ds THEN NoPlaylist ELSE owner[d]]

EngineDeactivate(ds) ==
  /\ session' = WithoutDisplays(ds \cap {d \in Display : owner[d] # NoPlaylist})
  /\ owner' = Disowned(ds)
  /\ UNCHANGED made

(* Mutant: the displays a playlist takes are not removed from the sessions *)
(* they were in.                                                           *)
EngineActivateNoConflict(p, def, ds) ==
  /\ session' = [session EXCEPT ![p] =
       [id         |-> IF Live(p) THEN session[p].id ELSE made + 1,
        definition |-> def, members |-> Members(session, p) \cup ds]]
  /\ made' = IF Live(p) THEN made ELSE made + 1
  /\ owner' = [d \in Display |-> IF d \in ds THEN p ELSE owner[d]]

(* Engine::activate up to the end of the operations lock. *)
EngineActivate(p, def, ds) ==
  LET conflicts == {d \in ds : owner[d] \notin {p, NoPlaylist}}
      cleared == WithoutDisplays(conflicts)
  IN  /\ session' = [cleared EXCEPT ![p] =
           [id         |-> IF Live(p) THEN session[p].id ELSE made + 1,
            definition |-> def, members |-> Members(session, p) \cup ds]]
      /\ made' = IF Live(p) THEN made ELSE made + 1
      /\ owner' = [d \in Display |-> IF d \in ds THEN p ELSE owner[d]]

(* Engine::attach joins a session that is there, as it is. *)
CanAttach(p, d) == Live(p) /\ owner[d] \in {p, NoPlaylist}
EngineAttach(p, d) ==
  /\ session' = [session EXCEPT ![p].members = @ \cup {d}]
  /\ owner' = [owner EXCEPT ![d] = p]
  /\ UNCHANGED made

(* deactivate_playlist, and rebuild_inner of a list that became empty. *)
EngineEnd(p) ==
  /\ session' = [session EXCEPT ![p] = NoSession]
  /\ owner' = Disowned({d \in Display : owner[d] = p})
  /\ UNCHANGED made

(* rebuild_inner *)
EngineRebuild(p, def) ==
  IF ~Live(p) THEN UNCHANGED engineVars
  ELSE IF Empty(p, def) THEN EngineEnd(p)
  ELSE /\ session' = [session EXCEPT ![p].definition = def]
       /\ UNCHANGED <<owner, made>>

----------------------------------------------------------------------------
Init ==
  /\ saved = [p \in Playlist |-> [rev |-> 1, form |-> 1]]
  /\ library = 0 /\ announced = 0 /\ generation = 1
  /\ session = [p \in Playlist |-> NoSession]
  /\ owner = [d \in Display |-> NoPlaylist]
  /\ made = 0
  /\ prefs = [k \in Key |-> NoPlaylist]
  /\ connected = AtStart
  /\ gone = {}
  /\ events = <<>>
  /\ pending = [p \in Playlist |-> {}]
  /\ mutation = Free
  /\ op = [a \in Actor |-> Idle]
  /\ refresher = [seen |-> 0, tickets |-> {}, failed |-> {}, detail |-> NoDetail]
  /\ mix \in Mixes /\ requests = 0 /\ changes = 0 /\ failures = 0
  /\ unsaved = [d \in Display |-> "no"]

(* A request arrives.  `ds` are the displays it names, those connected.     *)
(* "deactivate" is also stop_for_wallpaper_override, when the user applies  *)
(* a wallpaper by hand; "rename" stands for the edits that take a revision  *)
(* and leave the items alone.                                               *)
Request(u, kind, p, ds) ==
  /\ op[u] = Idle
  /\ requests < mix.requests
  /\ IF kind \in {"activate", "deactivate"} THEN ds # {} /\ ds \subseteq connected ELSE ds = {}
  /\ kind = "deactivate" <=> p = NoPlaylist
  /\ op' = [op EXCEPT ![u] = [kind |-> kind, phase |-> "wait", p |-> p, ds |-> ds, def |-> NoDefinition]]
  /\ requests' = requests + 1
  /\ UNCHANGED <<dbVars, generation, engineVars, prefs, plugVars, mutation, refresher,
                 mix, changes, failures, unsaved>>

(* The lock is taken.  What follows depends on the database as it is now:   *)
(* activate and attach read the definition; an edit writes the row and      *)
(* reads it back; a playlist that is not there ends the request.            *)
NeedsRow(kind) == kind \in {"activate", "attach", "edit", "rename"}

Acquired(a) ==
  [op EXCEPT ![a].phase = "held",
             ![a].def = IF op[a].p = NoPlaylist \/ ~Exists(op[a].p) THEN NoDefinition
                        ELSE Definition(op[a].p)]

LockFree == mutation = Free

Acquire(a) ==
  /\ op[a].phase = "wait"
  /\ LockFree
  /\ LET p == op[a].p IN
     CASE NeedsRow(op[a].kind) /\ ~Exists(p) ->
            op' = [op EXCEPT ![a] = Idle] /\ UNCHANGED <<mutation, saved>>
       [] op[a].kind = "edit" /\ Exists(p) -> \E form \in Form :
            /\ mutation' = a
            /\ saved' = [saved EXCEPT ![p] = [rev |-> @.rev + 1, form |-> form]]
            /\ op' = [Acquired(a) EXCEPT ![a].def.form = form]
       [] op[a].kind = "rename" /\ Exists(p) ->
            mutation' = a /\ saved' = [saved EXCEPT ![p].rev = @ + 1] /\ op' = Acquired(a)
       [] OTHER -> mutation' = a /\ op' = Acquired(a) /\ UNCHANGED saved
  /\ UNCHANGED <<library, announced, generation, engineVars, prefs, plugVars, refresher, counts>>

(* The Engine call of the request.  A refused attach and an activation of   *)
(* an empty list change nothing; an attach of a display the playlist has    *)
(* applies nothing.                                                         *)
Applying(a) == op' = [op EXCEPT ![a].phase = "applying"]
Persisting(a) == op' = [op EXCEPT ![a].phase = "persisting"]
Refused(a) == op' = [op EXCEPT ![a] = Idle] /\ mutation' = Free

CallActivate(a) ==
  /\ op[a].kind = "activate"
  /\ IF Empty(op[a].p, op[a].def)
     THEN Refused(a) /\ UNCHANGED engineVars
     ELSE EngineActivate(op[a].p, op[a].def, op[a].ds) /\ Applying(a) /\ UNCHANGED mutation
  /\ UNCHANGED pending

CallAttach(a) ==
  LET d == CHOOSE d \in op[a].ds : TRUE IN
  /\ op[a].kind = "attach"
  /\ IF CanAttach(op[a].p, d)
     THEN /\ EngineAttach(op[a].p, d)
          /\ IF owner[d] = op[a].p THEN Persisting(a) ELSE Applying(a)
          /\ UNCHANGED <<mutation, pending>>
     ELSE /\ pending' = [pending EXCEPT ![op[a].p] = @ \cup {d}]
          /\ Refused(a) /\ UNCHANGED engineVars

(* PlaylistDelete ends the sessions first.  A deactivation names displays.  *)
(* An edit that applies has nothing to remember, whether or not that fails. *)
CallOther(a) ==
  /\ CASE op[a].kind = "deactivate" -> EngineDeactivate(op[a].ds)
       [] op[a].kind = "edit"   -> EngineRebuild(op[a].p, op[a].def)
       [] op[a].kind = "delete" -> EngineEnd(op[a].p)
       [] op[a].kind = "rename" -> UNCHANGED engineVars
       [] OTHER -> FALSE
  /\ op' = [op EXCEPT ![a].phase = "persisting",
                      ![a].ds = IF op[a].kind \in {"edit", "delete"}
                                THEN {d \in Display : owner[d] = op[a].p /\ owner'[d] = NoPlaylist}
                                ELSE @]
  /\ UNCHANGED <<mutation, pending>>

Call(a) ==
  /\ op[a].phase = "held"
  /\ CallActivate(a) \/ CallAttach(a) \/ CallOther(a)
  /\ UNCHANGED <<dbVars, generation, prefs, connected, gone, events, refresher, counts>>

(* The applies are done: the assignment is remembered (persist_assignments  *)
(* finds only displays that are connected), an activation announces itself, *)
(* a deleted row goes, and the lock is free.                                *)
(* Mutant: a display that left meanwhile is remembered by its key. *)
RememberedGone(a) ==
  [k \in Key |->
     IF k \notin {KeyOf[d] : d \in op[a].ds} THEN prefs[k]
     ELSE IF op[a].kind \in {"activate", "attach"} THEN op[a].p ELSE NoPlaylist]

Remembered(a) ==
  [k \in Key |->
     IF k \notin {KeyOf[d] : d \in op[a].ds \cap connected} THEN prefs[k]
     ELSE IF op[a].kind \in {"activate", "attach"} THEN op[a].p ELSE NoPlaylist]

Announces(a) == op[a].kind = "activate"

Finish(a) ==
  /\ op[a].phase \in {"applying", "persisting"}
  /\ prefs' = Remembered(a)
  /\ unsaved' = [d \in Display |-> IF d \in op[a].ds \cap connected THEN "no" ELSE unsaved[d]]
  /\ saved' = IF op[a].kind = "delete" THEN [saved EXCEPT ![op[a].p] = Deleted] ELSE saved
  /\ generation' = IF Announces(a) THEN generation + 1 ELSE generation
  /\ op' = [op EXCEPT ![a] = Idle]
  /\ mutation' = Free
  /\ UNCHANGED <<library, announced, engineVars, plugVars, refresher, mix, requests, changes,
                 failures>>

(* An apply fails, and nothing is remembered or announced.  Activations of  *)
(* the watcher wait for a first frame; their displays lose the playlist.    *)
ApplyFails(a) ==
  /\ op[a].phase = "applying" /\ failures < mix.failures
  /\ failures' = failures + 1
  /\ LET dropped == op[a].kind = "activate" /\ a = Watcher
     IN  /\ IF dropped THEN EngineDeactivate(op[a].ds) ELSE UNCHANGED engineVars
         /\ unsaved' = [d \in Display |-> IF d \notin op[a].ds THEN unsaved[d]
                                          ELSE IF dropped THEN "dropped" ELSE "kept"]
  /\ op' = [op EXCEPT ![a] = Idle]
  /\ mutation' = Free
  /\ UNCHANGED <<dbVars, generation, prefs, plugVars, refresher, mix, requests, changes>>

----------------------------------------------------------------------------
(* The hotplug watcher of restore.rs.                                       *)

Unplug(d) ==
  /\ mix.hotplug
  /\ d \in connected
  /\ connected' = connected \ {d}
  /\ gone' = gone \cup {d}
  /\ events' = Append(events, <<"removed", d>>)
  /\ UNCHANGED <<dbVars, generation, engineVars, prefs, pending, mutation, op, refresher, counts>>

Plug(d) ==
  /\ d \notin connected \cup gone
  /\ \A c \in connected : KeyOf[c] # KeyOf[d]
  /\ connected' = connected \cup {d}
  /\ events' = Append(events, <<"upsert", d>>)
  /\ UNCHANGED <<dbVars, generation, engineVars, prefs, gone, pending, mutation, op, refresher,
                 counts>>

(* drop_display, without playlist_mutation. *)
WatchRemoved ==
  /\ op[Watcher] = Idle
  /\ events # <<>> /\ Head(events)[1] = "removed"
  /\ LET d == Head(events)[2] IN
       /\ EngineDeactivate({d})
       /\ pending' = [p \in Playlist |-> pending[p] \ {d}]
  /\ events' = Tail(events)
  /\ UNCHANGED <<dbVars, generation, prefs, connected, gone, mutation, op, refresher, counts>>

(* The playlist is read here, and attached to once the lock is had. *)
WatchUpsert ==
  /\ op[Watcher] = Idle
  /\ events # <<>> /\ Head(events)[1] = "upsert"
  /\ LET d == Head(events)[2]
         p == IF owner[d] # NoPlaylist THEN owner[d] ELSE prefs[KeyOf[d]]
     IN  op' = IF p = NoPlaylist THEN op
               ELSE [op EXCEPT ![Watcher] =
                       [kind |-> "attach", phase |-> "wait", p |-> p, ds |-> {d}, def |-> NoDefinition]]
  /\ events' = Tail(events)
  /\ UNCHANGED <<dbVars, generation, engineVars, prefs, connected, gone, pending, mutation,
                 refresher, counts>>

(* flush_pending, after the settle time: every display that has the         *)
(* playlist or would resume it, unless another one has it.                  *)
Collected(p) == {d \in connected : owner[d] = p \/ (owner[d] = NoPlaylist /\ prefs[KeyOf[d]] = p)}

WatchSettled(p) ==
  /\ op[Watcher] = Idle
  /\ pending[p] # {}
  /\ pending' = [pending EXCEPT ![p] = {}]
  /\ op' = IF Collected(p) = {} THEN op
           ELSE [op EXCEPT ![Watcher] =
                   [kind |-> "activate", phase |-> "wait", p |-> p, ds |-> Collected(p), def |-> NoDefinition]]
  /\ UNCHANGED <<dbVars, generation, engineVars, prefs, connected, gone, events, mutation, refresher,
                 counts>>

----------------------------------------------------------------------------
(* The library and the refresher of smart playlists.                        *)

LibraryWrites ==
  /\ changes < mix.changes
  /\ library' = library + 1
  /\ changes' = changes + 1
  /\ UNCHANGED <<saved, announced, generation, engineVars, prefs, plugVars, mutation, op,
                 refresher, mix, requests, failures, unsaved>>

LibraryAnnounces ==
  /\ announced # library
  /\ announced' = library
  /\ generation' = generation + 1
  /\ UNCHANGED <<saved, library, engineVars, prefs, plugVars, mutation, op, refresher, counts>>

(* A change or the delay of a failure wakes it; it takes a ticket of every  *)
(* smart session, and goes on with those a change or a failure is for.      *)
(* It waits 100 ms first.  Without SlowCall an actor that has read its      *)
(* definition has made its Engine call by then.                             *)
Asleep == refresher.tickets = {} /\ refresher.detail = NoDetail
Ticket(p) == [p |-> p, id |-> session[p].id, definition |-> session[p].definition]

Wake ==
  /\ Asleep
  /\ SlowCall \/ \A a \in Actor : op[a].phase # "held"
  /\ refresher.seen # generation \/ refresher.failed # {}
  /\ LET live == {p \in Smart : Live(p)}
         due == IF refresher.seen # generation THEN live ELSE live \cap refresher.failed
     IN  refresher' = [seen    |-> generation, tickets |-> {Ticket(p) : p \in due},
                       failed  |-> refresher.failed \cap live, detail |-> NoDetail]
  /\ UNCHANGED <<dbVars, generation, engineVars, prefs, plugVars, mutation, op, counts>>

(* repository::detail, before the lock. *)
ReadDetail(t) ==
  /\ refresher.detail = NoDetail
  /\ t \in refresher.tickets
  /\ IF Exists(t.p)
     THEN refresher' = [refresher EXCEPT !.detail =
            [p |-> t.p, rev |-> saved[t.p].rev, def |-> Definition(t.p)]]
     ELSE refresher' = [refresher EXCEPT !.tickets = @ \ {t}, !.failed = @ \cup {t.p}]
  /\ UNCHANGED <<dbVars, generation, engineVars, prefs, plugVars, mutation, op, counts>>

\* Mutant: a failed read is forgotten
ReadFailsForgotten(t) ==
  /\ refresher.detail = NoDetail
  /\ t \in refresher.tickets
  /\ failures < mix.failures
  /\ failures' = failures + 1
  /\ refresher' = [refresher EXCEPT !.tickets = @ \ {t}]
  /\ UNCHANGED <<dbVars, generation, engineVars, prefs, plugVars, mutation, op,
                 mix, requests, changes, unsaved>>

ReadFails(t) ==
  /\ refresher.detail = NoDetail
  /\ t \in refresher.tickets
  /\ failures < mix.failures
  /\ failures' = failures + 1
  /\ refresher' = [refresher EXCEPT !.tickets = @ \ {t}, !.failed = @ \cup {t.p}]
  /\ UNCHANGED <<dbVars, generation, engineVars, prefs, plugVars, mutation, op,
                 mix, requests, changes, unsaved>>

(* Under the lock: nothing may have changed since; then refresh, which also *)
(* asks that the session is the one of the ticket, as it was.               *)
Unchanged(t) == generation = refresher.seen /\ saved[t.p].rev = refresher.detail.rev
SameSession(t) == Live(t.p) /\ session[t.p].id = t.id /\ session[t.p].definition = t.definition

Refresh(t) ==
  /\ t \in refresher.tickets
  /\ refresher.detail.p = t.p
  /\ LockFree
  /\ IF Exists(t.p)
     THEN /\ refresher' = [refresher EXCEPT !.tickets = @ \ {t}, !.failed = @ \ {t.p},
                                            !.detail = NoDetail]
          /\ IF Unchanged(t) /\ SameSession(t)
             THEN EngineRebuild(t.p, refresher.detail.def)
             ELSE UNCHANGED engineVars
     ELSE /\ refresher' = [refresher EXCEPT !.tickets = @ \ {t}, !.failed = @ \cup {t.p},
                                            !.detail = NoDetail]
          /\ UNCHANGED engineVars
  /\ UNCHANGED <<dbVars, generation, prefs, plugVars, mutation, op, counts>>

(* The read of the revision fails, or the apply of what was refreshed.      *)
RefreshFails(t) ==
  /\ t \in refresher.tickets
  /\ refresher.detail.p = t.p
  /\ LockFree /\ Exists(t.p)
  /\ failures < mix.failures
  /\ failures' = failures + 1
  /\ refresher' = [refresher EXCEPT !.tickets = @ \ {t}, !.failed = @ \cup {t.p},
                                    !.detail = NoDetail]
  /\ \/ UNCHANGED engineVars
     \/ /\ Unchanged(t) /\ SameSession(t) /\ refresher.detail.def # session[t.p].definition
        /\ EngineRebuild(t.p, refresher.detail.def)
  /\ UNCHANGED <<dbVars, generation, prefs, plugVars, mutation, op,
                 mix, requests, changes, unsaved>>

Next ==
  \/ \E u \in User, kind \in mix.kinds, p \in Playlist \cup {NoPlaylist}, ds \in SUBSET Display :
       Request(u, kind, p, ds)
  \/ \E a \in Actor : Acquire(a) \/ Call(a) \/ Finish(a) \/ ApplyFails(a)
  \/ \E d \in Display : Unplug(d) \/ Plug(d)
  \/ WatchRemoved \/ WatchUpsert
  \/ \E p \in Playlist : WatchSettled(p)
  \/ LibraryWrites \/ LibraryAnnounces \/ Wake
  \/ \E t \in refresher.tickets : ReadDetail(t) \/ ReadFails(t) \/ Refresh(t) \/ RefreshFails(t)

Spec == Init /\ [][Next]_vars

----------------------------------------------------------------------------
(* by_display and the sessions' targets tell the same story, through every  *)
(* take-over, departure and edit.                                           *)
OwnersAreMembers ==
  \A d \in Display, p \in Playlist : owner[d] = p <=> d \in Members(session, p)

(* The inductive invariant of the proof.                                    *)
Definitions == [form : Nat, items : Nat]
Targeted == {"activate", "attach"}
Kinds == {"idle", "activate", "attach", "deactivate", "edit", "rename", "delete"}
Ops ==
  [kind : Kinds, phase : {"idle", "wait", "held", "applying", "persisting"},
   p : Playlist \cup {NoPlaylist}, ds : SUBSET Display, def : Definitions]

TypeOK ==
  /\ saved \in [Playlist -> [rev : Nat, form : Nat]] /\ library \in Nat
  /\ session \in [Playlist -> Session \cup {NoSession}]
  /\ owner \in [Display -> Playlist \cup {NoPlaylist}]
  /\ made \in Nat
  /\ prefs \in [Key -> Playlist \cup {NoPlaylist}]
  /\ connected \subseteq Display
  /\ events \in Seq({"removed", "upsert"} \X Display)
  /\ op \in [Actor -> Ops]
  /\ \A t \in refresher.tickets : t.p \in Playlist
  /\ refresher = [seen |-> refresher.seen, tickets |-> refresher.tickets,
                  failed |-> refresher.failed, detail |-> refresher.detail]
  /\ refresher.detail.def \in Definitions
  /\ mix \in Mixes
  /\ unsaved \in [Display -> {"no", "kept", "dropped"}]

OpsNameTheirs ==
  \A a \in Actor :
    /\ op[a].kind \notin {"idle", "deactivate"} => op[a].p \in Playlist
    /\ op[a].kind \in Targeted => op[a].ds # {}

EngineInv == TypeOK /\ OpsNameTheirs /\ OwnersAreMembers

Quiet ==
  /\ mutation = Free /\ \A a \in Actor : op[a] = Idle
  /\ events = <<>> /\ \A p \in Playlist : pending[p] = {}

(* Once nothing is under way, the settings name for a connected display the *)
(* playlist that runs on it, and none if none does: a restart resumes what  *)
(* was there.  They do not where the last apply for the display failed: the *)
(* playlist then runs on without being remembered, or was dropped and what  *)
(* was remembered does not run.  Otherwise only a playlist edited (emptied) *)
(* or deleted while the display was away may stay named without running.    *)
Touched(p) == saved[p].rev # 1

Remembers(d, p) ==
  \/ p = owner[d]
  \/ owner[d] = NoPlaylist /\ (Touched(p) \/ unsaved[d] = "dropped")
  \/ owner[d] # NoPlaylist /\ unsaved[d] = "kept"

RemembersOwner == Quiet => \A d \in connected : Remembers(d, prefs[KeyOf[d]])

(* Once nothing is under way and the refresher has seen the last change,    *)
(* every session runs the playlist as it is saved, with the items its query *)
(* answers now: no edit, change of the library or activation is lost        *)
(* between the reads and the writes of the others.                          *)
UpToDate ==
  Quiet /\ Asleep /\ refresher.seen = generation /\ refresher.failed = {} /\ announced = library
    => \A p \in Playlist : Live(p) => Exists(p) /\ session[p].definition = Definition(p)
=============================================================================
