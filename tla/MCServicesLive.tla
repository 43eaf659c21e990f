--------------------------- MODULE MCServicesLive ---------------------------
(* What the task manager and the settings owe to those who wait for them,   *)
(* under fairness; and the automatic policy, for its safety.  A behaviour   *)
(* runs one of the three; the others are at rest, with nothing enabled.     *)
EXTENDS TaskManager, TLC

CONSTANTS NoCanvas, Off

VARIABLES memory, clock, revision, dirty, notified, lock, file, tmp, writer, flush, client, daemon,
          policyKinds, policyCount, policyTask, policySettings, facts, desktop, observer,
          toClient, fromClient, observation, flags, rules, ruleTimer, effects, paused, stops,
          stoppedRenderers, manual, link

Calls ==
  {{"once", "shutdown"}, {"once", "cancel"}, {"unique", "shutdown"}, {"progress", "shutdown"},
   {"service", "blocking", "async", "shutdown"}}

Settings == INSTANCE SettingsStore
  WITH Clients <- 2, Canvas <- {"v1"}, Member <- {"k1"}, MaxVersion <- 3, Faults <- {}

settings ==
  <<memory, clock, revision, dirty, notified, lock, file, tmp, writer, flush, client, daemon>>

\* What to do, and whether on all displays, when a window is fullscreen; what to do when
\* the session is locked, and on battery
Replay(fullscreen, everywhere, locked, battery) ==
  [action |-> [fullscreen |-> fullscreen, locked |-> locked, battery |-> battery],
   all |-> [fullscreen |-> everywhere, locked |-> TRUE, battery |-> TRUE]]

Policy == INSTANCE AutoPolicy
  WITH kinds <- policyKinds, changes <- policyCount, task <- policyTask,
       settings <- policySettings, client <- observer, timer <- ruleTimer, applied <- stops,
       Desktop <- {"d1", "d2"}, LockScreen <- {"l1"}, Legacy <- {"d2"}, Renderer <- {"r1", "r2"},
       Requester <- {"q1"},
       Policies <- {Replay("stop", FALSE, "pause", "mute"), Replay("pause", TRUE, "stop", "pause")},
       Mixes <- {[kinds |-> {"window", "assign"}, changes |-> 3],
                 [kinds |-> {"window", "leave"}, changes |-> 2],
                 [kinds |-> {"window", "exclude"}, changes |-> 2],
                 [kinds |-> {"fact", "manual", "policy"}, changes |-> 4],
                 [kinds |-> {"policy", "window"}, changes |-> 2]}

policy ==
  <<policyKinds, policyCount, policyTask, policySettings, facts, desktop, observer, toClient,
    fromClient, observation, flags, rules, ruleTimer, effects, paused, stops, stoppedRenderers,
    manual, link>>

\* The supervisor has stopped, and no call is made
TasksAtRest ==
  /\ calls = {}
  /\ reg = [state |-> [i \in Task |-> "none"], tokens |-> {}, tripped |-> {},
            keys |-> [k \in Key |-> 0], holder |-> {}]
  /\ tasks = <<>> /\ channel = <<>>
  /\ joinSet = [i \in Task |-> "absent"]
  /\ supervisor = [phase |-> "stopped", todo |-> <<>>, id |-> 0, ids |-> {}]
  /\ caller = [c \in Caller |-> Idle]
  /\ shutdown = FALSE

\* The daemon has stopped
SettingsAtRest ==
  /\ memory = Settings!Defaults /\ clock = 0 /\ revision = 1
  /\ dirty = FALSE /\ notified = FALSE
  /\ lock = Settings!Unlocked
  /\ file = Settings!Defaults /\ tmp = Settings!Defaults
  /\ writer = "aborted"
  /\ flush = [f \in Settings!Flusher |-> Settings!NoFlush]
  /\ client = [c \in 1 .. 2 |-> Settings!ClientIdle]
  /\ daemon = "stopped"

PolicyOff ==
  /\ policyKinds = Off /\ policyCount = Off /\ policyTask = Off /\ policySettings = Off
  /\ facts = Off /\ desktop = Off /\ observer = Off /\ toClient = Off /\ fromClient = Off
  /\ observation = Off /\ flags = Off /\ rules = Off /\ ruleTimer = Off /\ effects = Off
  /\ paused = Off /\ stops = Off /\ stoppedRenderers = Off /\ manual = Off /\ link = Off

\* Of the two renderers, which are alike, the first is the one of d1
PolicyStarts == Policy!Init /\ link["d1"].to = {"r1"}

LiveInit ==
  \/ Init /\ SettingsAtRest /\ PolicyOff
  \/ TasksAtRest /\ Settings!Load /\ PolicyOff
  \/ TasksAtRest /\ SettingsAtRest /\ PolicyStarts

LiveNext ==
  \/ Next /\ UNCHANGED <<settings, policy>>
  \/ Settings!StoreNext /\ UNCHANGED <<vars, policy>>
  \/ policyKinds # Off /\ Policy!Next /\ UNCHANGED <<vars, settings>>

LiveSpec ==
  /\ LiveInit /\ [][LiveNext]_<<vars, settings, policy>>
  /\ Fairness /\ Settings!StoreFairness

----------------------------------------------------------------------------
\* SettingsStore: a change is saved in the end, if no write fails and the daemon lives
EventuallySaved == Settings!EventuallySaved

\* AutoPolicy: in the end exactly what windows, session and settings ask for is in effect,
\* and exactly the links that nobody stops are enabled
PolicyAtRest == policyKinds # Off => Policy!EffectsAtRest /\ Policy!LinksAtRest
=============================================================================
