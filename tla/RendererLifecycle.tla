------------------------- MODULE RendererLifecycle -------------------------
(***************************************************************************)
(* Life of one renderer: its slot in the router, the processes that serve  *)
(* it one after the other, and the tasks of the daemon that start and stop *)
(* them (wallframe/routing/router, wallframe/renderer_manager).            *)
(*                                                                         *)
(* Every daemon task works through a chain of lock sections with awaits    *)
(* between them.  task[t] is the stack of sections t has still to run; an  *)
(* action runs the first one and may push the sections of what it awaits.  *)
(* The tasks are                                                           *)
(*                                                                         *)
(*   Handlers      requests of the UI, hotkeys, playlists, display         *)
(*                 sessions, and the orphan timer                          *)
(*   "exits"       the process exit listener of the router                 *)
(*   "deadlines"   the listener of the deadline scheduler                  *)
(*                                                                         *)
(* A process is known by its generation.  One display is assigned to the   *)
(* renderer; link is its link in the routing table.                        *)
(***************************************************************************)
EXTENDS Naturals, Sequences, FiniteSets

CONSTANTS
    Handlers,  \* concurrent requests
    Ops,       \* kinds of request that occur
    MaxOps     \* bound: requests, the initial one not counted

ASSUME HandlersAssumption == Handlers \cap {"exits", "deadlines"} = {}
ASSUME OpsAssumption == Ops \subseteq {"manual", "auto", "restart", "apply", "replace", "kill", "display"}
ASSUME MaxOpsAssumption == MaxOps \in Nat

Tasks  == Handlers \cup {"exits", "deadlines"}
Tokens == 1 .. 2 * MaxOps + 1  \* start tokens, 0 for none
Gens   == Tokens               \* process generations, at most one per token

VARIABLES
    slot,      \* RendererSlot
    link,      \* link of the display: "none", "off" (disabled) or "on"
    inhibit,   \* stop requests in force: manual_stopped, auto_effects.stop
    marks,     \* applied stops: auto_stopped_renderers, stop_applied of the display
    grace,     \* an orphan timer is armed
    table,     \* generation of the handle in the routing table
    live,      \* generation of the handle in RendererManager.renderers
    proc,      \* OS process of each generation
    exits,     \* channel of RendererProcessExit
    sched,     \* token of the RendererStart deadline, if scheduled
    due,       \* tokens whose not_before has passed
    fired,     \* channel of DeadlineReached
    task,      \* sections each task has still to run
    nextGen, nextToken, ops

routeVars   == <<link, inhibit, marks, grace>>
processVars == <<live, proc, exits>>
timeVars    == <<sched, due, fired>>
countVars   == <<nextGen, nextToken, ops>>
vars == <<slot, routeVars, table, processVars, timeVars, task, countVars>>

-----------------------------------------------------------------------------
(* RendererSlot and its transitions. *)

Causes == {"immediate", "coalescing", "restart", "auto-replay", "manual-resume", "reconnect"}

AllowsFailed(cause)    == cause \in {"immediate", "restart", "reconnect"}
PreemptsPending(cause) == cause \in {"immediate", "restart", "manual-resume", "reconnect"}

NoStart == [cause |-> "none", token |-> 0]

\* gen is 0 without a process; start is active_start_token; keep is TRUE where
\* the code's state has no such field
Slots == [state : {"Starting", "Running", "Stopping", "Stopped", "Killed", "Failed", "Removed"},
          gen : Gens \cup {0}, keep : BOOLEAN, spec : 1 .. MaxOps + 1,
          pending : {NoStart} \cup [cause : Causes, token : Tokens],
          start : Tokens \cup {0}]

HasProcess == slot.state \in {"Starting", "Running", "Stopping"}

\* Some enabled link leads to a connected display
Demand == link = "on"

\* The display's links may be enabled
Allowed == inhibit = {} /\ "display" \notin marks

WithoutPending(sl) == [sl EXCEPT !.pending = NoStart]

\* RendererLifecycleEvent::StartRequested changes the slot
CanStart(sl) == \/ sl.state \in {"Stopped", "Killed"} /\ sl.keep
                \/ sl.state = "Failed" /\ AllowsFailed(sl.pending.cause)

\* Mutant: a start without a handle is taken back at once
StopRequestedWithdraws(sl, keep) ==
    CASE sl.state = "Starting" -> [sl EXCEPT !.state = "Stopped", !.gen = 0, !.keep = keep]
      [] sl.state = "Running" -> [sl EXCEPT !.state = "Stopping", !.keep = keep]
      [] sl.state \in {"Stopping", "Stopped", "Killed"} -> [sl EXCEPT !.keep = @ /\ keep]
      [] OTHER -> sl

\* RendererLifecycleEvent::StopRequested
StopRequested(sl, keep) ==
    CASE sl.state \in {"Starting", "Running"} -> [sl EXCEPT !.state = "Stopping", !.keep = keep]
      [] sl.state \in {"Stopping", "Stopped", "Killed"} -> [sl EXCEPT !.keep = @ /\ keep]
      [] OTHER -> sl

Removed(sl) == [sl EXCEPT !.state = "Removed", !.gen = 0, !.keep = TRUE, !.start = 0,
                          !.pending = NoStart]

\* ProcessExited, or SpawnFailed with kind "Failed", of the current generation
Exited(sl, kind) ==
    IF sl.state = "Stopping" /\ ~sl.keep
      THEN Removed(sl)
      ELSE [sl EXCEPT !.state = kind, !.gen = 0, !.keep = TRUE, !.start = 0]

\* RendererSlot::replace_spec
ReplaceSpec(sl, preempt) ==
    [sl EXCEPT !.spec = @ + 1,
               !.state = IF @ \in {"Stopped", "Killed"} \/ (@ = "Failed" /\ preempt)
                           THEN "Stopped" ELSE @]

-----------------------------------------------------------------------------
(* Tasks. *)

Sections == {"lifecycle", "autolinks", "reconcile", "begin", "cancel", "finish", "stop",
             "exiting", "settle", "resume", "request", "advance", "schedule", "spawn",
             "spawning", "spawnError", "get", "attach", "attached", "cleanup", "drop",
             "unregister", "detach", "applied", "orphans", "grace", "rescue"}

ExitKinds == {"Stopped", "Killed", "Failed"}

\* Who uses the exit of a stopped process: on_renderer_process_exit, the cleanup
\* of a stale start, or nobody
Uses == {"exit", "tracked", "discard"}

\* A section with its locals
Calls == [op : Sections, gen : Gens \cup {0}, token : Tokens \cup {0}, spec : 0 .. MaxOps + 1,
          cause : Causes \cup ExitKinds \cup {"none", "orphan"}, use : Uses]

Run(section) == [op |-> section, gen |-> 0, token |-> 0, spec |-> 0, cause |-> "none",
                 use |-> "exit"]

RunFor(section, cause) == [Run(section) EXCEPT !.cause = cause]

At(t, section) == task[t] # <<>> /\ task[t][1].op = section

IdleTask(t) == task[t] = <<>>

\* The running section is replaced by calls
Then(t, calls) == task' = [task EXCEPT ![t] = calls \o Tail(@)]

Goto(t, section) == Then(t, <<[task[t][1] EXCEPT !.op = section]>>)

Begins(t, calls) == task' = [task EXCEPT ![t] = calls]

\* reconcile_lifecycle changes a slot only under the automatic policy
Lifecycle == IF "auto" \in Ops THEN <<Run("lifecycle")>> ELSE <<>>

Quiet == /\ \A t \in Tasks : IdleTask(t)
         /\ exits = <<>> /\ fired = <<>>
         /\ \A g \in Gens : proc[g] \notin {"spawning", "reaping", "exiting"}

\* The renderer was just assigned: apply_assignment has committed the slot and
\* the link, and goes on to request the start
Fresh ==
    /\ slot = [state |-> "Stopped", gen |-> 0, keep |-> TRUE, spec |-> 1,
               pending |-> NoStart, start |-> 0]
    /\ link = "on"
    /\ inhibit = {}
    /\ marks = {}
    /\ grace = FALSE
    /\ table = 0
    /\ live = 0
    /\ proc = [g \in Gens |-> "none"]
    /\ exits = <<>>
    /\ sched = 0
    /\ due = {}
    /\ fired = <<>>
    /\ nextGen = 1
    /\ nextToken = 1

Init ==
    /\ Fresh
    /\ \E h \in Handlers :
         task = [t \in Tasks |-> IF t = h THEN <<RunFor("applied", "immediate")>> ELSE <<>>]
    /\ ops = 0

-----------------------------------------------------------------------------
(* Requests. *)

Operation(t, kind) == /\ t \in Handlers /\ IdleTask(t)
                      /\ kind \in Ops /\ ops < MaxOps
                      /\ ops' = ops + 1
                      /\ UNCHANGED <<nextGen, nextToken>>

\* set_manual_stop, or refresh_auto_policy with a change of auto_effects.stop
SetInhibit(t, kind) ==
    /\ Operation(t, kind)
    /\ kind \in {"manual", "auto"}
    /\ inhibit' = IF kind \in inhibit THEN inhibit \ {kind} ELSE inhibit \cup {kind}
    /\ Begins(t, IF kind = "manual" THEN <<RunFor("reconcile", "manual-resume")>> \o Lifecycle
                 ELSE Lifecycle)
    /\ UNCHANGED <<slot, link, marks, grace, table, processVars, timeVars>>

\* restart_renderer_orderly
Restart(t) ==
    /\ Operation(t, "restart")
    /\ table # 0
    /\ Begins(t, IF link = "none" THEN <<Run("drop")>>
                 ELSE <<Run("begin")>>
                      \o (IF Demand THEN <<RunFor("request", "restart")>> ELSE <<>>)
                      \o <<[Run("detach") EXCEPT !.gen = table]>>)
    /\ UNCHANGED <<slot, routeVars, table, processVars, timeVars>>

\* apply_assignment commits a wallpaper to this renderer: a terminal slot of the
\* display is given the new spec, a running one that already shows it is reused
Apply(t, preempt) ==
    /\ Operation(t, "apply")
    /\ \/ /\ slot.state = "Running" /\ table # 0 /\ Allowed
          /\ UNCHANGED slot
       \/ /\ link # "none"
          /\ slot.state \in {"Stopping", "Stopped", "Killed", "Failed"} /\ slot.keep
          /\ slot' = LET sl == ReplaceSpec(slot, preempt)
                     IN  IF Allowed THEN sl ELSE WithoutPending(sl)
    /\ link' = IF Allowed THEN "on" ELSE "off"
    /\ Begins(t, (IF slot'.pending # slot.pending THEN <<Run("cancel")>> ELSE <<>>)
                 \o <<RunFor("applied", IF preempt THEN "immediate" ELSE "coalescing")>>
                 \o Lifecycle)
    /\ UNCHANGED <<inhibit, marks, grace, table, processVars, timeVars>>

\* apply_assignment gives the display to another renderer and displaces this one
Replace(t) ==
    /\ Operation(t, "replace")
    /\ link # "none" /\ slot.state # "Removed"
    /\ link' = "none"
    /\ IF HasProcess
         THEN /\ slot' = StopRequested(WithoutPending(slot), FALSE)
              /\ Begins(t, <<Run("cancel"), Run("drop")>> \o Lifecycle)
         ELSE /\ slot' = Removed(slot)
              /\ Begins(t, <<Run("cancel")>> \o Lifecycle)
    /\ UNCHANGED <<inhibit, marks, grace, table, processVars, timeVars>>

\* kill_renderer_drop, or kill_renderer_generation_drop of the running process
Kill(t) ==
    /\ Operation(t, "kill")
    /\ \E g \in {0} \cup (1 .. nextGen - 1) : Begins(t, <<[Run("drop") EXCEPT !.gen = g]>>)
    /\ UNCHANGED <<slot, routeVars, table, processVars, timeVars>>

\* unregister_display
Disconnect(t) ==
    /\ Operation(t, "display")
    /\ link # "none"
    /\ link' = "none"
    /\ marks' = marks \ {"display"}
    /\ slot' = WithoutPending(slot)
    /\ Begins(t, (IF slot.pending = NoStart THEN <<>> ELSE <<Run("cancel")>>)
                 \o <<Run("orphans")>> \o Lifecycle)
    /\ UNCHANGED <<inhibit, grace, table, processVars, timeVars>>

\* try_register_display: the display comes back and its assignment is restored
Reconnect(t) ==
    /\ Operation(t, "display")
    /\ link = "none" /\ slot.state # "Removed"
    /\ link' = IF inhibit = {} THEN "on" ELSE "off"
    /\ Begins(t, <<Run("rescue")>> \o Lifecycle
                 \o <<RunFor("request", "reconnect")>> \o Lifecycle)
    /\ UNCHANGED <<slot, inhibit, marks, grace, table, processVars, timeVars>>

\* The orphan timer runs out: fire_orphan_reap checks again under the lock
GraceEnds(t) ==
    /\ t \in Handlers /\ IdleTask(t)
    /\ grace
    /\ grace' = FALSE
    /\ IF slot.state \notin {"Removed", "Failed"} /\ link = "none"
         THEN Begins(t, <<RunFor("drop", "orphan")>>)
         ELSE UNCHANGED task
    /\ UNCHANGED <<slot, link, inhibit, marks, table, processVars, timeVars, countVars>>

-----------------------------------------------------------------------------
(* Stopping. *)

\* reconcile_lifecycle: is there an automatic stop to apply or to lift
ReconcileLifecycle(t) ==
    /\ At(t, "lifecycle")
    /\ Then(t, IF "auto" \in inhibit \/ marks # {}
                 THEN <<Run("autolinks"), RunFor("reconcile", "auto-replay")>> ELSE <<>>)
    /\ UNCHANGED <<slot, routeVars, table, processVars, timeVars, countVars>>

\* apply_auto_stop_links
ApplyAutoStopLinks(t) ==
    /\ At(t, "autolinks")
    /\ marks' = IF "auto" \notin inhibit THEN {}
                ELSE IF link = "none" THEN {"renderer"} ELSE {"renderer", "display"}
    /\ Then(t, <<>>)
    /\ UNCHANGED <<slot, link, inhibit, grace, table, processVars, timeVars, countVars>>

\* Mutant: only a renderer with a link is stopped
ReconcileLinked(t) ==
    /\ At(t, "reconcile")
    /\ link' = CASE link = "none" -> "none" [] Allowed -> "on" [] OTHER -> "off"
    /\ Then(t, (IF slot.state # "Removed" /\ link' = "off"
                  THEN <<Run("begin"), Run("finish")>> ELSE <<>>)
               \o (IF link = "off" /\ link' = "on"
                     THEN <<RunFor("request", task[t][1].cause)>> ELSE <<>>))
    /\ UNCHANGED <<slot, inhibit, marks, grace, table, processVars, timeVars, countVars>>

\* reconcile_assignment_activation: set the link, decide here what to stop or start
Reconcile(t) ==
    /\ At(t, "reconcile")
    /\ link' = CASE link = "none" -> "none" [] Allowed -> "on" [] OTHER -> "off"
    /\ Then(t, (IF slot.state # "Removed" /\ (inhibit # {} \/ link' = "off")
                  THEN <<Run("begin"), Run("finish")>> ELSE <<>>)
               \o (IF link = "off" /\ link' = "on"
                     THEN <<RunFor("request", task[t][1].cause)>> ELSE <<>>))
    /\ UNCHANGED <<slot, inhibit, marks, grace, table, processVars, timeVars, countVars>>

BeginRetainedStop(t) ==
    /\ At(t, "begin")
    /\ slot' = StopRequested(WithoutPending(slot), TRUE)
    /\ Then(t, IF slot.state = "Removed" THEN <<>> ELSE <<Run("cancel")>>)
    /\ UNCHANGED <<routeVars, table, processVars, timeVars, countVars>>

\* deadlines.cancel, after the lock was released: it names no token
CancelDeadline(t) ==
    /\ At(t, "cancel")
    /\ sched' = 0
    /\ Then(t, <<>>)
    /\ UNCHANGED <<slot, routeVars, table, processVars, due, fired, countVars>>

StopOf(g, use) == [Run("stop") EXCEPT !.gen = g, !.use = use]

FinishRetainedStop(t) ==
    /\ At(t, "finish")
    /\ Then(t, IF slot.state = "Stopping" THEN <<StopOf(slot.gen, "exit")>> ELSE <<>>)
    /\ UNCHANGED <<slot, routeVars, table, processVars, timeVars, countVars>>

\* RendererManager.stop_generation: the handle leaves the map, Shutdown is sent
StopGeneration(t) ==
    /\ At(t, "stop")
    /\ LET g == task[t][1].gen
       IN  IF live = g
             THEN /\ live' = 0
                  /\ proc' = [proc EXCEPT ![g] = "exiting"]
                  /\ Goto(t, "exiting")
             ELSE Then(t, <<>>) /\ UNCHANGED <<live, proc>>
    /\ UNCHANGED <<slot, routeVars, table, exits, timeVars, countVars>>

\* The child ends by itself, or is killed after the Shutdown timeout
ChildExits(t, kind) ==
    /\ At(t, "exiting")
    /\ proc' = [proc EXCEPT ![task[t][1].gen] = "dead"]
    /\ Then(t, IF task[t][1].use = "discard" THEN <<>>
               ELSE <<[task[t][1] EXCEPT !.op = "settle", !.cause = kind]>>)
    /\ UNCHANGED <<slot, routeVars, table, live, exits, timeVars, countVars>>

\* settle_renderer_process_exit and the tail of its caller
Settle(t) ==
    /\ At(t, "settle")
    /\ LET c == task[t][1]
           current == HasProcess /\ slot.gen = c.gen
           removed == slot'.state = "Removed"
       IN  /\ slot' = IF current THEN Exited(slot, c.cause) ELSE slot
           /\ table' = IF current THEN 0 ELSE table
           /\ grace' = (grace /\ ~current)
           /\ link' = IF current /\ removed THEN "none" ELSE link
           /\ Then(t, (IF current THEN Lifecycle ELSE <<>>)
                      \o (CASE c.use = "tracked" -> <<Run("resume")>>
                            [] c.use = "exit" /\ current ->
                                 <<Run(IF removed THEN "cancel" ELSE "resume")>>
                            [] OTHER -> <<>>))
    /\ UNCHANGED <<inhibit, marks, processVars, timeVars, countVars>>

\* stop_renderer_drop_current, up to the stop of the process
StopRendererDrop(t) ==
    /\ At(t, "drop")
    /\ LET g == task[t][1].gen
       IN  IF slot.state = "Removed" \/ (g # 0 /\ slot.gen # g)
             THEN Then(t, <<>>) /\ UNCHANGED <<slot, link>>
             ELSE /\ slot' = StopRequested(WithoutPending(slot), FALSE)
                  /\ link' = IF link = "none" THEN "none" ELSE "off"
                  /\ Then(t, <<Run("cancel"),
                               IF slot'.state = "Stopping" THEN StopOf(slot.gen, "exit")
                               ELSE Run("unregister")>>)
    /\ UNCHANGED <<inhibit, marks, grace, table, processVars, timeVars, countVars>>

UnregisterRenderer(t) ==
    /\ At(t, "unregister")
    /\ slot' = Removed(slot)
    /\ table' = 0
    /\ link' = "none"
    /\ grace' = FALSE
    /\ Then(t, <<Run("cancel")>> \o Lifecycle)
    /\ UNCHANGED <<inhibit, marks, processVars, timeVars, countVars>>

\* Mutant: the handle is detached whatever its generation
DetachAnyGeneration(t) ==
    /\ At(t, "detach")
    /\ table' = 0
    /\ Then(t, <<Run("finish")>>)
    /\ UNCHANGED <<slot, routeVars, processVars, timeVars, countVars>>

\* restart_renderer_orderly, second section: the error return leaves the stop begun
DetachForRestart(t) ==
    /\ At(t, "detach")
    /\ IF table = task[t][1].gen
         THEN table' = 0 /\ Then(t, <<Run("finish")>>)
         ELSE Then(t, <<>>) /\ UNCHANGED table
    /\ UNCHANGED <<slot, routeVars, processVars, timeVars, countVars>>

\* mark_orphans after the display is gone; schedule_orphan_grace has its own lock
MarkOrphans(t) ==
    /\ At(t, "orphans")
    /\ IF slot.state \notin {"Removed", "Failed"} /\ link = "none"
         THEN \/ Then(t, <<Run("grace")>>)
              \/ Then(t, <<RunFor("drop", "orphan")>>)
         ELSE Then(t, <<>>)
    /\ UNCHANGED <<slot, routeVars, table, processVars, timeVars, countVars>>

ScheduleOrphanGrace(t) ==
    /\ At(t, "grace")
    /\ grace' = TRUE
    /\ Then(t, <<>>)
    /\ UNCHANGED <<slot, link, inhibit, marks, table, processVars, timeVars, countVars>>

CancelOrphanTimer(t) ==
    /\ At(t, "rescue")
    /\ grace' = FALSE
    /\ Then(t, <<>>)
    /\ UNCHANGED <<slot, link, inhibit, marks, table, processVars, timeVars, countVars>>

-----------------------------------------------------------------------------
(* Starting. *)

AdvanceOf(token) == [Run("advance") EXCEPT !.token = token]

\* apply_assignment, start of the selected renderer
StartAssigned(t) ==
    /\ At(t, "applied")
    /\ Then(t, IF task[t][1].cause = "coalescing" /\ slot.state = "Failed" THEN <<>>
               ELSE <<RunFor("request", task[t][1].cause)>>)
    /\ UNCHANGED <<slot, routeVars, table, processVars, timeVars, countVars>>

RequestStart(t) ==
    /\ At(t, "request")
    /\ LET cause == task[t][1].cause
           coalesced == slot.pending # NoStart /\ ~PreemptsPending(cause)
       IN  \/ /\ ~Demand
              /\ slot' = WithoutPending(slot)
              /\ Then(t, <<Run("cancel")>>)
              /\ UNCHANGED <<due, nextToken>>
           \/ /\ Demand /\ (slot.state = "Removed" \/ coalesced)
              /\ Then(t, <<>>)
              /\ UNCHANGED <<slot, due, nextToken>>
           \/ /\ Demand /\ slot.state # "Removed" /\ ~coalesced
              /\ nextToken \in Tokens
              /\ slot' = [slot EXCEPT !.pending = [cause |-> cause, token |-> nextToken]]
              /\ due' = IF cause = "auto-replay" THEN due ELSE due \cup {nextToken}
              /\ nextToken' = nextToken + 1
              /\ Then(t, <<AdvanceOf(nextToken)>>)
    /\ UNCHANGED <<routeVars, table, processVars, sched, fired, nextGen, ops>>

\* advance_renderer_start: the cases of AdvanceStart, in the order of the code
AdvanceStart(t) ==
    /\ At(t, "advance")
    /\ LET token   == task[t][1].token
           stale   == slot.state = "Removed" \/ slot.pending.token # token
           early   == Demand /\ token \notin due
           running == Demand /\ ~early /\ slot.state = "Running"
           waits   == Demand /\ ~early /\ (table # 0 \/ slot.state \in {"Starting", "Stopping"})
       IN  \/ /\ stale
              /\ Then(t, <<>>) /\ UNCHANGED <<slot, nextGen>>
           \/ /\ ~stale /\ early
              /\ Goto(t, "schedule") /\ UNCHANGED <<slot, nextGen>>
           \/ /\ ~stale /\ ~running /\ waits
              /\ Then(t, <<>>) /\ UNCHANGED <<slot, nextGen>>
           \/ /\ ~stale /\ (~Demand \/ running)
              /\ slot' = WithoutPending(slot)
              /\ Then(t, <<Run("cancel")>>) /\ UNCHANGED nextGen
           \/ /\ ~stale /\ Demand /\ ~early /\ ~running /\ ~waits
              /\ nextGen' = nextGen + 1
              /\ IF CanStart(slot)
                   THEN /\ slot' = [WithoutPending(slot) EXCEPT
                                      !.state = "Starting", !.gen = nextGen, !.start = token]
                        /\ Then(t, <<Run("cancel"),
                                     [Run("spawn") EXCEPT !.gen = nextGen, !.token = token,
                                                          !.spec = slot.spec]>>)
                   ELSE slot' = WithoutPending(slot) /\ Then(t, <<Run("cancel")>>)
    /\ UNCHANGED <<routeVars, table, processVars, timeVars, nextToken, ops>>

ScheduleDeadline(t) ==
    /\ At(t, "schedule")
    /\ sched' = task[t][1].token
    /\ Then(t, <<>>)
    /\ UNCHANGED <<slot, routeVars, table, processVars, due, fired, countVars>>

\* spawn_for_generation: one handle per renderer in the manager's map
Spawn(t) ==
    /\ At(t, "spawn")
    /\ IF live # 0
         THEN Goto(t, "spawnError") /\ UNCHANGED proc
         ELSE /\ proc' = [proc EXCEPT ![task[t][1].gen] = "spawning"]
              /\ Goto(t, "spawning")
    /\ UNCHANGED <<slot, routeVars, table, live, exits, timeVars, countVars>>

Spawned(t) ==
    /\ At(t, "spawning")
    /\ live' = task[t][1].gen
    /\ proc' = [proc EXCEPT ![task[t][1].gen] = "up"]
    /\ Goto(t, "get")
    /\ UNCHANGED <<slot, routeVars, table, exits, timeVars, countVars>>

\* The child dies, or the handshake fails or times out
SpawnFails(t) ==
    /\ At(t, "spawning")
    /\ proc' = [proc EXCEPT ![task[t][1].gen] = "dead"]
    /\ Goto(t, "spawnError")
    /\ UNCHANGED <<slot, routeVars, table, live, exits, timeVars, countVars>>

\* Mutant: a failed spawn is only logged
SpawnFailedLogged(t) ==
    /\ At(t, "spawnError")
    /\ Then(t, <<>>)
    /\ UNCHANGED <<slot, routeVars, table, processVars, timeVars, countVars>>

\* execute_renderer_start, error branch
SpawnFailed(t) ==
    /\ At(t, "spawnError")
    /\ LET c == task[t][1]
           known == slot.start = c.token /\ slot.gen = c.gen
                    /\ slot.state \in {"Starting", "Stopping"}
           remove == slot.state = "Stopping" /\ ~slot.keep
       IN  /\ slot' = IF known /\ ~remove THEN Exited(slot, "Failed") ELSE slot
           /\ Then(t, IF known /\ remove THEN <<Run("unregister")>> ELSE <<>>)
    /\ UNCHANGED <<routeVars, table, processVars, timeVars, countVars>>

\* RendererManager.get: the process may be gone again.  That the registration takes
\* the handle's release events before it is accepted is not modelled
GetHandle(t) ==
    /\ At(t, "get")
    /\ IF live = 0 THEN Then(t, <<>>) ELSE Goto(t, "attach")
    /\ UNCHANGED <<slot, routeVars, table, processVars, timeVars, countVars>>

\* register_renderer_current under the lock
Attach(t) ==
    /\ At(t, "attach")
    /\ LET c == task[t][1]
       IN  IF /\ slot.state = "Starting" /\ slot.gen = c.gen
              /\ slot.start = c.token /\ slot.spec = c.spec
             THEN /\ slot' = [slot EXCEPT !.state = "Running", !.start = 0]
                  /\ table' = c.gen
                  /\ Goto(t, "attached")
             ELSE Goto(t, "cleanup") /\ UNCHANGED <<slot, table>>
    /\ UNCHANGED <<routeVars, processVars, timeVars, countVars>>

\* register_renderer_current: a stop that came meanwhile is carried out here
Attached(t) ==
    /\ At(t, "attached")
    /\ Then(t, IF inhibit # {} THEN <<Run("begin"), Run("finish")>> ELSE <<>>)
    /\ UNCHANGED <<slot, routeVars, table, processVars, timeVars, countVars>>

\* Mutant: only a slot that is still starting makes the cleanup stop its process
CleanupStaleStarting(t) ==
    /\ At(t, "cleanup")
    /\ LET g == task[t][1].gen
           mine == table = 0 /\ slot.state = "Starting" /\ slot.gen = g
       IN  /\ slot' = IF mine THEN StopRequested(slot, TRUE) ELSE slot
           /\ Then(t, IF mine THEN <<StopOf(g, "tracked")>> ELSE <<>>)
    /\ UNCHANGED <<routeVars, table, processVars, timeVars, countVars>>

\* execute_renderer_start: the process that came up is no longer wanted
CleanupStale(t) ==
    /\ At(t, "cleanup")
    /\ LET g == task[t][1].gen
       IN  /\ slot' = IF table = 0 /\ slot.state = "Starting" /\ slot.gen = g
                        THEN StopRequested(slot, TRUE) ELSE slot
           /\ Then(t, <<StopOf(g, IF table = 0 /\ slot'.state = "Stopping" /\ slot'.gen = g
                                    THEN "tracked" ELSE "discard")>>)
    /\ UNCHANGED <<routeVars, table, processVars, timeVars, countVars>>

ResumeAfterExit(t) ==
    /\ At(t, "resume")
    /\ Then(t, IF slot.pending = NoStart THEN <<>> ELSE <<AdvanceOf(slot.pending.token)>>)
    /\ UNCHANGED <<slot, routeVars, table, processVars, timeVars, countVars>>

-----------------------------------------------------------------------------
(* Process deaths, and the two listeners. *)

\* RendererManager.evict, after the reader or the writer lost the process
Evict(g) ==
    /\ live = g /\ proc[g] = "up"
    /\ live' = 0
    /\ proc' = [proc EXCEPT ![g] = "reaping"]
    /\ UNCHANGED <<slot, routeVars, table, exits, timeVars, task, countVars>>

Reaped(g, kind) ==
    /\ proc[g] = "reaping"
    /\ kind \in {"Killed", "Failed"}
    /\ proc' = [proc EXCEPT ![g] = "dead"]
    /\ exits' = Append(exits, [gen |-> g, kind |-> kind])
    /\ UNCHANGED <<slot, routeVars, table, live, timeVars, task, countVars>>

\* start_process_exit_listener
ProcessExit ==
    /\ IdleTask("exits") /\ exits # <<>>
    /\ exits' = Tail(exits)
    /\ Begins("exits", <<[RunFor("settle", exits[1].kind) EXCEPT !.gen = exits[1].gen]>>)
    /\ UNCHANGED <<slot, routeVars, table, live, proc, timeVars, countVars>>

\* The not_before of a start passes
Elapse(token) ==
    /\ token \in {slot.pending.token, sched} \ ({0} \cup due)
    /\ due' = due \cup {token}
    /\ UNCHANGED <<slot, routeVars, table, processVars, sched, fired, task, countVars>>

DeadlineFires ==
    /\ sched \in due
    /\ fired' = Append(fired, sched)
    /\ sched' = 0
    /\ UNCHANGED <<slot, routeVars, table, processVars, due, task, countVars>>

\* on_deadline_reached
DeadlineReached ==
    /\ IdleTask("deadlines") /\ fired # <<>>
    /\ fired' = Tail(fired)
    /\ Begins("deadlines", <<AdvanceOf(fired[1])>>)
    /\ UNCHANGED <<slot, routeVars, table, processVars, sched, due, countVars>>

-----------------------------------------------------------------------------

Request(t) == \/ \E kind \in Ops : SetInhibit(t, kind)
              \/ \E preempt \in BOOLEAN : Apply(t, preempt)
              \/ Restart(t) \/ Replace(t) \/ Kill(t) \/ Disconnect(t) \/ Reconnect(t)

\* A section of a running task
Step(t) ==
    \/ ReconcileLifecycle(t) \/ ApplyAutoStopLinks(t) \/ Reconcile(t)
    \/ BeginRetainedStop(t) \/ CancelDeadline(t) \/ FinishRetainedStop(t)
    \/ StopGeneration(t) \/ (\E kind \in ExitKinds : ChildExits(t, kind))
    \/ Settle(t) \/ StopRendererDrop(t) \/ UnregisterRenderer(t) \/ DetachForRestart(t)
    \/ MarkOrphans(t) \/ ScheduleOrphanGrace(t) \/ CancelOrphanTimer(t)
    \/ StartAssigned(t) \/ RequestStart(t) \/ AdvanceStart(t) \/ ScheduleDeadline(t)
    \/ Spawn(t) \/ Spawned(t) \/ SpawnFails(t) \/ SpawnFailed(t)
    \/ GetHandle(t) \/ Attach(t) \/ Attached(t) \/ CleanupStale(t)
    \/ ResumeAfterExit(t)

Listeners == ProcessExit \/ DeadlineFires \/ DeadlineReached

Next ==
    \/ \E t \in Handlers : Request(t) \/ GraceEnds(t)
    \/ \E t \in Tasks : Step(t)
    \/ \E g \in Gens : Evict(g) \/ (\E kind \in ExitKinds : Reaped(g, kind))
    \/ Listeners
    \/ \E token \in Tokens : Elapse(token)

Spec == Init /\ [][Next]_vars

\* Every await of a section ends: the locks are fair, and spawn, Shutdown, kill and
\* the wait for unbind acknowledgements have timeouts.  Time passes.  Requests,
\* process deaths and the orphan timer are not obliged to happen.
Fairness ==
    /\ \A t \in Tasks : WF_vars(Step(t))
    /\ WF_vars(Listeners)
    /\ \A g \in Gens : WF_vars(\E kind \in ExitKinds : Reaped(g, kind))
    /\ \A token \in Tokens : WF_vars(Elapse(token))

FairSpec == Spec /\ Fairness

-----------------------------------------------------------------------------
(* Properties. *)

\* Every variable keeps its type: in particular a slot has a generation exactly
\* while its state has one in the code (RendererLifecycleState::generation)
TypeOK ==
    /\ slot \in Slots
    /\ (slot.gen # 0) = HasProcess
    /\ link \in {"none", "off", "on"}
    /\ inhibit \subseteq {"manual", "auto"}
    /\ marks \subseteq {"renderer", "display"}
    /\ grace \in BOOLEAN
    /\ table \in Gens \cup {0} /\ live \in Gens \cup {0}
    /\ proc \in [Gens -> {"none", "spawning", "up", "exiting", "reaping", "dead"}]
    /\ exits \in Seq([gen : Gens, kind : ExitKinds])
    /\ sched \in Tokens \cup {0} /\ due \subseteq Tokens /\ fired \in Seq(Tokens)
    /\ task \in [Tasks -> Seq(Calls)]
    /\ nextGen \in 1 .. 2 * MaxOps + 2 /\ nextToken \in 1 .. 2 * MaxOps + 2
    /\ ops \in 0 .. MaxOps

Existing == {g \in Gens : proc[g] \in {"spawning", "up", "exiting", "reaping"}}

\* A renderer never has two processes at a time: the next one is not spawned
\* before the exit of the previous one was collected
OneProcess == \A g, h \in Existing : g = h

\* The routing table holds the handle of the slot's process or none, and the one
\* of every running slot
TableIsSlot == /\ table # 0 => slot.gen = table /\ slot.state \in {"Running", "Stopping"}
               /\ slot.state = "Running" => table = slot.gen

\* Once every task has come to rest, no process runs against a stop request
InhibitHolds == Quiet /\ inhibit # {} => slot.state \notin {"Starting", "Running"}

\* A slot does not stay in Starting: the process attaches, or its failure is recorded
StartSettles == slot.state = "Starting" ~> slot.state # "Starting"

\* A slot does not stay in Stopping: the stop that was begun is finished
StopSettles == slot.state = "Stopping" ~> slot.state # "Stopping"

\* At rest, an assigned renderer that nothing stops is not left stopped
ResumeServed == Quiet /\ Demand /\ slot.pending = NoStart => slot.state # "Stopped"

=============================================================================
