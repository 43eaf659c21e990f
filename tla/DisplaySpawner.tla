---------------------------- MODULE DisplaySpawner ----------------------------
(* Which display client the daemon starts, and how it keeps it running:     *)
(* src/src/wallframe/display/spawner.rs, plugin/display_registry.rs and the *)
(* part of daemon/bootstrap.rs that calls them.                             *)
(*                                                                          *)
(* The registry is built from the manifests of the plugins; the desktop     *)
(* decides which backends apply; the first of them that is installed runs   *)
(* and is started again, after a delay, when it dies.  Time passes in steps *)
(* of the first delay.                                                      *)
EXTENDS Naturals, Sequences, SequencesExt

CONSTANTS Manifests,       \* the manifests found, in the order they are registered
          Sessions,        \* [desktop : tokens, wayland, flatpak : BOOLEAN]
          Pins,            \* names asked for with --display-backend, or NoName
          NoName, NoBackend,
          DelayMax         \* RESTART_MAX, in units of RESTART_INITIAL

VARIABLES manifests, environment, pinned,
          installed,       \* names whose binary can be found
          status, backend, \* what the daemon reports, and what it supervises
          phase,           \* where run_backend is
          backoff,         \* the delay after the next death
          stopping         \* the shutdown signal

choice == <<manifests, environment, pinned, installed>>
vars == <<manifests, environment, pinned, installed, status, backend, phase, backoff, stopping>>

Names == UNION {{m[i].name : i \in DOMAIN m} : m \in Manifests}

Init ==
  /\ manifests \in Manifests /\ environment \in Sessions /\ pinned \in Pins
  /\ installed \in SUBSET Names
  /\ status = "none" /\ backend = NoBackend
  /\ phase = "choose" /\ backoff = 1 /\ stopping = FALSE

----------------------------------------------------------------------------
(* The choice.                                                              *)

(* Mutant: a backend is put before those of its priority. *)
RegisteredFirst(defs, d) ==
  LET others == SelectSeq(defs, LAMBDA e : e.name # d.name) IN
    SelectSeq(others, LAMBDA e : e.priority > d.priority) \o <<d>>
      \o SelectSeq(others, LAMBDA e : e.priority <= d.priority)

(* DisplayRegistry::register: a later manifest replaces an earlier one of   *)
(* its name.                                                                *)
Registered(defs, d) ==
  LET others == SelectSeq(defs, LAMBDA e : e.name # d.name) IN
    SelectSeq(others, LAMBDA e : e.priority >= d.priority) \o <<d>>
      \o SelectSeq(others, LAMBDA e : e.priority < d.priority)

registry == FoldLeft(Registered, <<>>, manifests)

Kde == "kde" \in environment.desktop

(* matching_backends: "*" or no desktop at all stands for any. *)
Applies(d) ==
  /\ d.de = {} \/ "*" \in d.de \/ d.de \cap environment.desktop # {}
  /\ "kde" \notin d.de \/ "*" \in d.de
  /\ ~("x11" \in d.requires /\ environment.wayland)

matching == SelectSeq(registry, Applies)

(* pick_backend, as the backends to try in turn (fallback_backends) *)
candidates ==
  IF pinned # NoName THEN SelectSeq(registry, LAMBDA d : d.name = pinned)
  ELSE IF Kde
    THEN LET own == SelectSeq(registry, LAMBDA d : "kde" \in d.de)
         IN SubSeq(own, 1, IF own = <<>> THEN 0 ELSE 1)
  ELSE matching

Restricted(d) == environment.flatpak /\ "layer" \in d.requires
Missing(d) == d.spawn = "daemon" /\ ~Restricted(d) /\ d.name \notin installed

(* preflight_daemon_backend *)
Preflight(d) ==
  IF d.spawn = "external" THEN "external"
  ELSE IF Restricted(d) THEN "flatpak_restricted"
  ELSE IF d.name \notin installed THEN "binary_missing"
  ELSE "ready"

(* preflight_with_fallback, from select_display_backend *)
Choose ==
  /\ phase = "choose"
  /\ LET tried == candidates
         i == SelectInSeq(tried, LAMBDA d : ~Missing(d))
         chosen == IF tried = <<>> THEN "unmatched"
                   ELSE IF i = 0 THEN "binary_missing"
                   ELSE Preflight(tried[i])
     IN IF pinned # NoName /\ tried = <<>>
          THEN phase' = "refused" /\ UNCHANGED <<status, backend>>
          ELSE /\ status' = chosen
               /\ backend' = IF chosen = "ready" THEN tried[i] ELSE NoBackend
               /\ phase' = IF chosen = "ready" THEN "start" ELSE "ended"
  /\ UNCHANGED <<choice, backoff, stopping>>

----------------------------------------------------------------------------
(* run_backend.                                                             *)

Start ==
  /\ phase = "start"
  /\ phase' \in IF stopping THEN {"ended"} ELSE {"spawn"}
  /\ UNCHANGED <<choice, status, backend, backoff, stopping>>

(* A spawn that fails is not tried again. *)
Spawn ==
  /\ phase = "spawn"
  /\ phase' \in {"running", "ended"}
  /\ UNCHANGED <<choice, status, backend, backoff, stopping>>

(* A clean exit ends the supervision; any other is followed by the delay.   *)
ChildExits ==
  /\ phase = "running"
  /\ phase' \in {"ended", "waiting"}
  /\ UNCHANGED <<choice, status, backend, backoff, stopping>>

Restart ==
  /\ phase = "waiting"
  /\ phase' = "start"
  /\ backoff' = IF 2 * backoff > DelayMax THEN DelayMax ELSE 2 * backoff
  /\ UNCHANGED <<choice, status, backend, stopping>>

(* wait_shutdown, in both selects: the child is killed and reaped, or left  *)
(* after two seconds.                                                       *)
Stop ==
  /\ stopping /\ phase \in {"running", "waiting"}
  /\ phase' = "ended"
  /\ UNCHANGED <<choice, status, backend, backoff, stopping>>

Shutdown ==
  /\ ~stopping
  /\ stopping' = TRUE
  /\ UNCHANGED <<choice, status, backend, phase, backoff>>

Next == Choose \/ Start \/ Spawn \/ ChildExits \/ Restart \/ Stop \/ Shutdown
Spec == Init /\ [][Next]_vars

----------------------------------------------------------------------------
(* What the registry and the fallbacks come to: among the manifests that    *)
(* count (the last of each name) and apply, no backend that is installed or *)
(* left to the desktop has a higher priority, or the same one and came      *)
(* earlier, than the one that is started; and none is started only when     *)
(* there is no such backend, or the best one cannot be started here.        *)
Counts(i) == \A j \in DOMAIN manifests : manifests[j].name = manifests[i].name => j <= i
Usable(i) == Counts(i) /\ Applies(manifests[i]) /\ ~Missing(manifests[i])
Better(i, j) ==
  \/ manifests[i].priority > manifests[j].priority
  \/ manifests[i].priority = manifests[j].priority /\ i < j
Best(i) == Usable(i) /\ \A j \in DOMAIN manifests : Usable(j) => i = j \/ Better(i, j)

RunsBest ==
  phase \notin {"choose", "refused"} /\ pinned = NoName /\ ~Kde =>
    \/ \E i \in DOMAIN manifests :
         /\ Best(i) /\ status = Preflight(manifests[i])
         /\ backend = IF status = "ready" THEN manifests[i] ELSE NoBackend
    \/ /\ \A i \in DOMAIN manifests : ~Usable(i)
       /\ backend = NoBackend /\ status \in {"unmatched", "binary_missing"}
=============================================================================
