----------------------------- MODULE MCServices -----------------------------
(* Instances of the services that share no state the specifications name:   *)
(* the cursors of a playlist session, the playlist engine, the settings,    *)
(* the display client, the control of renderers, the size they draw in, and *)
(* the writer of their sockets.  A behaviour runs one; the others rest.     *)
EXTENDS PlaylistCursor, PlaylistEngine, SettingsStore, RendererWriter, RenderTarget,
        PlaybackControl

CONSTANTS NoName, NoBackend, Off

VARIABLES part,
          manifests, environment, pinned, installed, status, backend, phase, backoff, stopping

----------------------------------------------------------------------------
(* Constants of the instances.                                              *)

Playlists ==
  {[mode |-> "shuffle", sync |-> TRUE, items |-> <<"a", "b", "c">>],
   [mode |-> "shuffle", sync |-> FALSE, items |-> <<"c", "b">>],
   [mode |-> "sequential", sync |-> FALSE, items |-> <<"b", "a">>],
   [mode |-> "random", sync |-> FALSE, items |-> <<>>]}

Displays == {"d1", "d2", "d3"}
KeysOf == [d \in Displays |-> IF d = "d2" THEN "k2" ELSE "k1"]
All == {"activate", "deactivate", "edit", "delete"}
Mix(k, n, c, f, h) ==
  [kinds |-> k, requests |-> n, changes |-> c, failures |-> f, hotplug |-> h]
NoRequests == Mix({}, 0, 0, 0, FALSE)
Requests ==
  {NoRequests, Mix({"activate", "delete"}, 2, 0, 0, TRUE), Mix({"activate"}, 1, 0, 1, TRUE),
   Mix(All, 3, 1, 0, FALSE), Mix({"activate", "edit"}, 2, 1, 1, FALSE)}

Manifest(n, des, spawns) ==
  [name : {n}, de : des, requires : {{}, {"x11"}, {"layer"}}, spawn : spawns, priority : {1}]
Third(n) ==
  [name |-> n, de |-> {"*"}, requires |-> {}, spawn |-> "daemon", priority |-> 2]
Found ==
  {<<a, b, Third(n)>> : a \in Manifest("n1", {{"kde"}, {"gnome"}}, {"daemon", "external"}),
                        b \in Manifest("n2", {{}}, {"daemon"}), n \in {"n1", "n3"}}
Environments ==
  {[desktop |-> {d}, wayland |-> w # "no", flatpak |-> w = "flatpak"] :
     d \in {"gnome", "kde"}, w \in {"no", "yes", "flatpak"}}

Spawner == INSTANCE DisplaySpawner
  WITH Manifests <- Found, Sessions <- Environments, Pins <- {NoName, "n1"}, DelayMax <- 5

\* Two displays of one renderer beside a lock screen with its own
RendererOfDisplay == [d \in {"d1", "d2", "d3"} |-> IF d = "d3" THEN "r2" ELSE "r1"]
Wishes == {{"global"}, {"display", "mute"}, {"link"}, {"renderer"}}

\* What a renderer is asked to draw in: three formats, and how often it changes and fails
FormatsInOrder == <<"f1", "f2", "f3">>
TargetChanges == {<<0, 0>>, <<3, 0>>, <<2, 3>>}

\* What is asked for, what is sent, the windows captured, and the ends of the process
Traffic(a, s, w, e) ==
  [asks |-> a, sends |-> s, windows |-> w, ends |-> e]
NoTraffic == Traffic(0, 0, 0, 0)
Traffics ==
  {NoTraffic, Traffic(1, 0, 2, 0), Traffic(2, 1, 0, 0), Traffic(1, 1, 1, 1), Traffic(0, 1, 1, 2)}

NoSubscription == [rev |-> 0, kinds |-> {}]
AskedFor ==
  {[rev |-> 1, kinds |-> {"audio", "mpris"}], [rev |-> 2, kinds |-> {"audio"}],
   [rev |-> 2, kinds |-> {}]}
HeldBefore == {NoSubscription, [rev |-> 1, kinds |-> {"audio"}]}

----------------------------------------------------------------------------
spawnerOff ==
  /\ manifests = Off /\ environment = Off /\ pinned = Off /\ installed = Off /\ status = Off
  /\ backend = Off /\ phase = Off /\ backoff = Off /\ stopping = Off

\* Renderers that ask for nothing, none to draw for, and none to command
writingRests == WriterInit /\ left = NoTraffic /\ entry.rev = 0
targetRests == TargetInit /\ changesLeft = 0
playbackRests == PlaybackInit /\ kinds = {"global"}

\* A playlist without items, the engine without requests, and the settings of a daemon that
\* has stopped
cursorRests == CursorInit /\ definition.items = <<>>
engineRests == Init /\ mix = NoRequests
settingsRest ==
  /\ memory = Defaults /\ file = Defaults /\ tmp = Defaults /\ clock = 0 /\ revision = 1
  /\ dirty = FALSE /\ notified = FALSE /\ lock = Unlocked
  /\ writer = "aborted" /\ daemon = "stopped"
  /\ flush = [f \in Flusher |-> NoFlush]
  /\ client = [c \in Client |-> ClientIdle]

drawingRests == writingRests /\ targetRests
rendererRests == drawingRests /\ playbackRests
playlistRests == cursorRests /\ engineRests
restRests == settingsRest /\ spawnerOff

ServicesInit ==
  \/ part = "cursor" /\ CursorInit /\ engineRests /\ restRests /\ rendererRests
  \/ part = "engine" /\ Init /\ mix # NoRequests /\ cursorRests /\ restRests /\ rendererRests
  \/ /\ playlistRests /\ rendererRests
     /\ \/ part = "settings" /\ Load /\ spawnerOff
        \/ part = "spawner" /\ Spawner!Init /\ settingsRest
  \/ /\ playlistRests /\ restRests
     /\ \/ part = "playback" /\ PlaybackInit /\ drawingRests
        \/ part = "target" /\ TargetInit /\ changesLeft # 0 /\ writingRests /\ playbackRests
        \/ part = "writing" /\ WriterInit /\ left # NoTraffic /\ targetRests /\ playbackRests

spawner ==
  <<manifests, environment, pinned, installed, status, backend, phase, backoff, stopping>>
playlists == <<cursorVars, vars>>
others == <<allVars, spawner>>
drawing == <<writerVars, targetVars>>
renderer == <<drawing, playbackVars>>
all == <<part, playlists, others, renderer>>

ServicesNext ==
  /\ UNCHANGED part
  /\ \/ part = "cursor" /\ CursorNext /\ UNCHANGED <<vars, others, renderer>>
     \/ part = "engine" /\ Next /\ UNCHANGED <<cursorVars, others, renderer>>
     \/ part = "settings" /\ StoreNext /\ UNCHANGED <<playlists, spawner, renderer>>
     \/ part = "spawner" /\ Spawner!Next /\ UNCHANGED <<playlists, allVars, renderer>>
     \/ part = "playback" /\ PlaybackNext /\ UNCHANGED <<playlists, others, drawing>>
     \/ part = "target" /\ TargetNext /\ UNCHANGED <<playlists, others, writerVars, playbackVars>>
     \/ part = "writing" /\ WriterNext /\ UNCHANGED <<playlists, others, targetVars, playbackVars>>

ServicesSpec == ServicesInit /\ [][ServicesNext]_all

----------------------------------------------------------------------------
\* DisplaySpawner: the best backend that can be started is the one that is
RunsBest == part = "spawner" => Spawner!RunsBest
=============================================================================
