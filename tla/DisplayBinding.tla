--------------------------- MODULE DisplayBinding ---------------------------
(***************************************************************************)
(* What a display has been told to show, against what it should show:      *)
(* Router::sync_display and every task of the daemon that has to call it   *)
(* (wallframe/routing/router), the reader thread that publishes a          *)
(* renderer's pools (renderer_manager/reader.rs), the frame loop that      *)
(* carries the events to the client (display/endpoint.rs), and the wait    *)
(* for unbind acknowledgements when a renderer is stopped.                 *)
(*                                                                         *)
(* One renderer; its processes are numbered by generation, and each        *)
(* numbers its pools from 1.  task[t] is the stack of lock sections task t *)
(* has still to run.  A display identifier registers once and leaves once, *)
(* as in the code.  Pools have one of the formats 1 .. MaxFormat.          *)
(***************************************************************************)
EXTENDS Naturals, Sequences, FiniteSets, Functions, SequencesExt

CONSTANTS
    Display,      \* display identifiers
    Ctl,          \* concurrent requests of the UI
    Scenarios,    \* sequences of the things that happen to the daemon, a prefix of one occurs
    Image,        \* wp_type of the renderer is "image"
    MaxProc, MaxPool, MaxSeq, MaxFormat  \* bounds

ASSUME TaskNames == Display \cap Ctl = {} /\ {"events", "exits"} \cap (Display \cup Ctl) = {}
ASSUME Kinds == Scenarios \subseteq Seq({"stop", "restart", "clear", "leave", "pause", "crash", "fail"})
ASSUME Bounds == /\ {MaxProc, MaxPool, MaxSeq} \subseteq Nat
                 /\ MaxFormat \in Nat \ {0}
                 /\ Image \in BOOLEAN

Tasks   == Display \cup Ctl \cup {"events", "exits"}
Procs   == 1 .. MaxProc
Formats == 1 .. MaxFormat

VARIABLES
    disp,      \* DisplayState and its link
    out,       \* channel of DisplayOutEvent
    client,    \* what the client has been sent and has still to answer
    proc,      \* RendererHandle of each process
    slot,      \* lifecycle state, generation and pending start
    attached,  \* process in the routing table, 0 for none
    sub,       \* process the event task listens to, 0 for none
    events,    \* its event broadcast
    exits,     \* channel of RendererProcessExit
    stopped,   \* manual_stopped
    tracking,  \* unbind_acks_pending has an entry of the renderer
    pending,   \* its pairs <<display, wire generation>>
    task,
    ops        \* what has happened so far

rendVars == <<proc, slot, attached, sub, events, exits>>
ackVars  == <<tracking, pending>>
vars == <<disp, out, client, rendVars, stopped, ackVars, task, ops>>

-----------------------------------------------------------------------------
NoBinding == [proc |-> 0, pool |-> 0, fmt |-> 0, wire |-> 0, awaiting |-> FALSE, last |-> 0]

NoFrame == [pool |-> 0, seq |-> 0]

Up(d)      == disp[d].conn \in {"up", "leaving"}
Linked     == {d \in Display : Up(d) /\ disp[d].link # "none"}
Enabled    == {d \in Linked : disp[d].link = "on"}
Demand     == Enabled # {}

\* A section with its locals: displays still to sync, process, format picked, cause of a
\* start or way a process ended; a stop is late when its wait timed out
Run(op) == [op |-> op, todo |-> {}, gen |-> 0, fmt |-> 0, cause |-> "none", late |-> FALSE]
RunOn(op, g) == [Run(op) EXCEPT !.gen = g]
RequestFor(cause) == [Run("request") EXCEPT !.cause = cause]
Settle(g, end) == [RunOn("settle", g) EXCEPT !.cause = end]
Sync(ds) == IF ds = {} THEN <<>> ELSE <<[Run("sync") EXCEPT !.todo = ds]>>
Renegotiate == <<Run("pick")>>

Idle(t) == task[t] = <<>>
At(t, op) == task[t] # <<>> /\ Head(task[t]).op = op
Self(t) == Head(task[t])

\* The running section is replaced by calls
Then(t, calls) == task' = [task EXCEPT ![t] = calls \o Tail(@)]
Begins(t, calls) == task' = [task EXCEPT ![t] = calls]

\* The frame loop of a leaving display no longer receives
Send(d, msgs) == IF disp[d].conn = "up" THEN out[d] \o msgs ELSE out[d]

Invalidated(ds) == [d \in Display |-> IF d \in ds THEN [disp[d] EXCEPT !.epoch = @ + 1] ELSE disp[d]]

Init ==
    /\ disp = [d \in Display |->
                 [conn |-> "new", link |-> "none", bound |-> NoBinding, wire |-> 0, epoch |-> 1,
                  failed |-> 0, black |-> {}, paused |-> FALSE]]
    /\ out = [d \in Display |-> <<>>]
    /\ client = [d \in Display |-> [shown |-> 0, unacked |-> {}, fails |-> {}]]
    /\ proc = [p \in Procs |-> [alive |-> FALSE, caps |-> FALSE, asked |-> 0, scheme |-> 0, pool |-> 0,
                                fmt |-> 0, retiring |-> FALSE, fences |-> {}, latest |-> NoFrame,
                                seq |-> 0]]
    /\ slot = [state |-> "Stopped", gen |-> 0, start |-> "none"]
    /\ attached = 0
    /\ sub = 0
    /\ events = <<>>
    /\ exits = <<>>
    /\ stopped = FALSE
    /\ tracking = FALSE
    /\ pending = {}
    /\ task = [t \in Tasks |-> <<>>]
    /\ ops = <<>>

-----------------------------------------------------------------------------
(* sync_display. *)

HasTarget(d) == /\ attached # 0
                /\ disp[d].link = "on"
                /\ proc[attached].pool # 0

\* The published pool is not of the last dispatched scheme
Gated(d) == /\ HasTarget(d)
            /\ proc[attached].caps
            /\ proc[attached].fmt # proc[attached].scheme

\* renderer id and content token are those of the only renderer
NeedsUpdate(d) ==
    IF HasTarget(d)
      THEN disp[d].bound = NoBinding \/ disp[d].bound.pool # proc[attached].pool
      ELSE disp[d].bound # NoBinding

\* latest_frame of the handle, replayed to a new binding of an image
Replay(p) == IF Image /\ proc[p].latest.seq \in proc[p].fences /\ proc[p].latest.pool = proc[p].pool
               THEN proc[p].latest.seq ELSE 0

UnbindMsg(b) == [kind |-> "unbind", wire |-> b.wire, proc |-> b.proc, seq |-> 0, epoch |-> 0]
BindMsg(w, p) == [kind |-> "bind", wire |-> w, proc |-> p, seq |-> 0, epoch |-> 0]
FrameMsg(w, p, s, e) == [kind |-> "frame", wire |-> w, proc |-> p, seq |-> s, epoch |-> e]

\* The decision and its effects, in one section.  binding keeps the wire
\* generation, the process and the pool with its format
Bring(d, target) ==
    LET old    == disp[d].bound
        w      == disp[d].wire + 1
        epoch  == disp[d].epoch + 1
        seq    == Replay(target)
        replay == seq # 0 /\ disp[d].conn = "up"
        unbind == IF old = NoBinding THEN <<>> ELSE <<UnbindMsg(old)>>
        bind   == IF target = 0 THEN <<>>
                  ELSE <<BindMsg(w, target)>>
                       \o (IF seq = 0 THEN <<>> ELSE <<FrameMsg(w, target, seq, epoch)>>)
    IN  /\ disp' = [disp EXCEPT ![d] =
              IF target = 0 THEN [@ EXCEPT !.epoch = epoch, !.bound = NoBinding]
              ELSE [@ EXCEPT !.epoch = epoch, !.wire = w, !.failed = 0,
                     !.bound = [proc |-> target, pool |-> proc[target].pool, fmt |-> proc[target].fmt, wire |-> w,
                                awaiting |-> ~replay, last |-> IF replay THEN seq ELSE 0]]]
        /\ out' = [out EXCEPT ![d] = Send(d, unbind \o bind)]
        /\ pending' = IF tracking /\ old # NoBinding
                        THEN pending \cup {<<d, old.wire>>} ELSE pending

SyncDisplay(d) ==
    IF ~Up(d) \/ Gated(d) \/ ~NeedsUpdate(d)
      THEN UNCHANGED <<disp, out, pending>>
      ELSE Bring(d, IF HasTarget(d) THEN attached ELSE 0)

SyncOne(t) ==
    /\ At(t, "sync")
    /\ \E d \in Self(t).todo :
         /\ SyncDisplay(d)
         /\ Then(t, Sync(Self(t).todo \ {d}))
    /\ UNCHANGED <<client, rendVars, stopped, tracking, ops>>

-----------------------------------------------------------------------------
(* Requests and display sessions. *)

Happens(kind) == /\ \E s \in Scenarios : IsPrefix(Append(ops, kind), s)
                 /\ ops' = Append(ops, kind)

Request(t, kind) == Idle(t) /\ Happens(kind)

\* set_manual_stop
SetManualStop(t) ==
    /\ t \in Ctl /\ Request(t, "stop")
    /\ stopped' = ~stopped
    /\ Begins(t, <<Run("activate")>>)
    /\ UNCHANGED <<disp, out, client, rendVars, ackVars>>

\* restart_renderer_orderly of an assigned renderer
Restart(t) ==
    /\ t \in Ctl /\ Request(t, "restart")
    /\ attached # 0 /\ Linked # {}
    /\ Begins(t, <<Run("begin")>> \o (IF Demand THEN <<RequestFor("explicit")>> ELSE <<>>)
                 \o <<RunOn("detach", attached)>>)
    /\ UNCHANGED <<disp, out, client, rendVars, stopped, ackVars>>

\* clear_display_assignments
ClearAssignments(t) ==
    /\ t \in Ctl /\ Request(t, "clear")
    /\ \E ds \in SUBSET Linked :
         /\ ds # {}
         /\ disp' = [d \in Display |-> IF d \in ds THEN [Invalidated(ds)[d] EXCEPT !.link = "none"]
                                       ELSE disp[d]]
         /\ Begins(t, Sync(ds) \o Renegotiate)
    /\ UNCHANGED <<out, client, rendVars, stopped, ackVars>>

\* set_display_paused: a resumed display has its frame asked for by the reconcile
SetDisplayPaused(t) ==
    /\ t \in Ctl /\ Request(t, "pause")
    /\ \E d \in Display :
         /\ Up(d)
         /\ disp' = [Invalidated({d}) EXCEPT ![d].paused = ~@]
    /\ UNCHANGED <<out, client, rendVars, stopped, ackVars, task>>

\* try_register_display: the new display is linked to the renderer
RegisterDisplay(d) ==
    /\ Idle(d) /\ disp[d].conn = "new"
    /\ disp' = [disp EXCEPT ![d].conn = "up", ![d].link = IF stopped THEN "off" ELSE "on"]
    /\ Begins(d, <<RequestFor("explicit")>> \o Renegotiate \o Sync({d}))
    /\ UNCHANGED <<out, client, rendVars, stopped, ackVars, ops>>

\* The client goes away
ClientLeaves(d) ==
    /\ Request(d, "leave")
    /\ disp[d].conn = "up"
    /\ disp' = [disp EXCEPT ![d].conn = "leaving"]
    /\ UNCHANGED <<out, client, rendVars, stopped, ackVars, task>>

\* unregister_display, once the frame loop has ended
UnregisterDisplay(d) ==
    /\ Idle(d) /\ disp[d].conn = "leaving"
    /\ disp' = [disp EXCEPT ![d] = [@ EXCEPT !.conn = "gone", !.link = "none", !.bound = NoBinding]]
    /\ out' = [out EXCEPT ![d] = <<>>]
    /\ client' = [client EXCEPT ![d] = [shown |-> 0, unacked |-> {}, fails |-> {}]]
    /\ slot' = IF Linked = {d} /\ disp[d].link # "none" THEN [slot EXCEPT !.start = "none"] ELSE slot
    /\ Begins(d, Renegotiate)
    /\ UNCHANGED <<proc, attached, sub, events, exits, stopped, ackVars, ops>>

-----------------------------------------------------------------------------
(* Stopping. *)

\* reconcile_assignment_activation
Activate(t) ==
    /\ At(t, "activate")
    /\ LET want     == IF stopped THEN "off" ELSE "on"
           changed  == {d \in Linked : disp[d].link # want}
           stopping == stopped \/ (Linked # {} /\ want = "off")
       IN  /\ disp' = [d \in Display |-> IF d \in changed
                         THEN [Invalidated(changed)[d] EXCEPT !.link = want] ELSE disp[d]]
           /\ Then(t, (IF stopping THEN <<Run("begin")>> ELSE <<>>)
                      \o Sync(changed)
                      \o (IF stopping THEN <<Run("finish")>> ELSE <<>>)
                      \o (IF changed # {} /\ want = "on" THEN <<RequestFor("resume")>> ELSE <<>>)
                      \o (IF changed # {} THEN Renegotiate ELSE <<>>))
    /\ UNCHANGED <<out, client, rendVars, stopped, ackVars, ops>>

\* begin_retained_stop decides the stop here and arms the tracking in a later section
BeginRetainedStop(t) ==
    /\ At(t, "begin")
    /\ LET stops == slot.state \in {"Starting", "Running"}
       IN  /\ slot' = [slot EXCEPT !.start = "none", !.state = IF stops THEN "Stopping" ELSE @]
           /\ Then(t, IF stops THEN <<Run("arm")>> ELSE <<>>)
    /\ UNCHANGED <<disp, out, client, proc, attached, sub, events, exits, stopped, ackVars, ops>>

\* begin_unbind_ack_tracking
ArmTracking(t) ==
    /\ At(t, "arm")
    /\ tracking' = TRUE
    /\ Then(t, <<>>)
    /\ UNCHANGED <<disp, out, client, rendVars, stopped, pending, ops>>

\* The old process leaves the table before its displays are unbound
DetachForRestart(t) ==
    /\ At(t, "detach")
    /\ IF attached # Self(t).gen
         THEN Then(t, <<>>) /\ UNCHANGED <<disp, attached>>
         ELSE /\ attached' = 0
              /\ disp' = Invalidated(Linked)
              /\ Then(t, Sync(Linked) \o <<Run("finish")>>)
    /\ UNCHANGED <<out, client, proc, slot, sub, events, exits, stopped, ackVars, ops>>

FinishRetainedStop(t) ==
    /\ At(t, "finish")
    /\ Then(t, IF slot.state = "Stopping" THEN <<RunOn("await", slot.gen)>> ELSE <<>>)
    /\ UNCHANGED <<disp, out, client, rendVars, stopped, ackVars, ops>>

\* await_unbind_acks_for: nothing pending, no entry, or the timeout
AwaitUnbindAcks(t) ==
    /\ At(t, "await")
    /\ pending = {}
    /\ tracking' = FALSE
    /\ Then(t, <<RunOn("kill", Self(t).gen)>>)
    /\ UNCHANGED <<disp, out, client, rendVars, stopped, pending, ops>>

AckTimeout(t) ==
    /\ At(t, "await")
    /\ pending # {}
    /\ tracking' = FALSE
    /\ pending' = {}
    /\ Then(t, <<[RunOn("kill", Self(t).gen) EXCEPT !.late = TRUE]>>)
    /\ UNCHANGED <<disp, out, client, rendVars, stopped, ops>>

\* RendererManager::stop_generation
StopGeneration(t) ==
    /\ At(t, "kill")
    /\ LET g == Self(t).gen
       IN  IF proc[g].alive
             THEN /\ proc' = [proc EXCEPT ![g].alive = FALSE]
                  /\ Then(t, <<Settle(g, "Stopped")>>)
             ELSE Then(t, <<>>) /\ UNCHANGED proc
    /\ UNCHANGED <<disp, out, client, slot, attached, sub, events, exits, stopped, ackVars, ops>>

\* Mutant: the next start is left to sync them
ExitSyncsLeft == <<>>

\* The displays that are synced when a process has ended
ExitSyncs == Sync(Linked)

\* settle_renderer_process_exit, up to the syncs; the event task is aborted
SettleExit(t) ==
    /\ At(t, "settle")
    /\ IF slot.gen # Self(t).gen \/ slot.state \in {"Stopped", "Failed"}
         THEN Then(t, <<>>) /\ UNCHANGED <<slot, attached, sub, events>>
         ELSE /\ slot' = [slot EXCEPT !.state = Self(t).cause]
              /\ attached' = 0
              /\ sub' = 0
              /\ events' = <<>>
              /\ task' = [task EXCEPT ![t] = ExitSyncs \o <<Run("advance")>> \o Tail(@),
                                      !["events"] = <<>>]
    /\ UNCHANGED <<disp, out, client, proc, exits, stopped, ackVars, ops>>

ProcessCrashes(p) ==
    /\ Happens("crash")
    /\ proc[p].alive
    /\ proc' = [proc EXCEPT ![p].alive = FALSE]
    /\ \E end \in {"Stopped", "Failed"} : exits' = Append(exits, <<p, end>>)
    /\ UNCHANGED <<disp, out, client, slot, attached, sub, events, stopped, ackVars, task>>

\* on_renderer_process_exit, run by the listener
ProcessExitReceived ==
    /\ Idle("exits") /\ exits # <<>>
    /\ exits' = Tail(exits)
    /\ Begins("exits", <<Settle(Head(exits)[1], Head(exits)[2])>>)
    /\ UNCHANGED <<disp, out, client, proc, slot, attached, sub, events, stopped, ackVars, ops>>

-----------------------------------------------------------------------------
(* Starting. *)

RequestStart(t) ==
    /\ At(t, "request")
    /\ slot' = [slot EXCEPT !.start = IF Demand THEN Self(t).cause ELSE "none"]
    /\ Then(t, IF Demand THEN <<Run("advance")>> ELSE <<>>)
    /\ UNCHANGED <<disp, out, client, proc, attached, sub, events, exits, stopped, ackVars, ops>>

AdvanceStart(t) ==
    /\ At(t, "advance")
    /\ LET waits  == slot.state \in {"Starting", "Stopping"} \/ attached # 0
           starts == slot.state = "Stopped" \/ (slot.state = "Failed" /\ slot.start = "explicit")
       IN  IF slot.start # "none" /\ Demand /\ ~waits /\ starts /\ slot.gen < MaxProc
             THEN /\ slot' = [state |-> "Starting", gen |-> slot.gen + 1, start |-> "none"]
                  /\ Then(t, <<RunOn("spawn", slot.gen + 1)>>)
             ELSE /\ slot' = [slot EXCEPT !.start =
                             IF Demand /\ slot.state # "Running" /\ (waits \/ starts) THEN @ ELSE "none"]
                  /\ Then(t, <<>>)
    /\ UNCHANGED <<disp, out, client, proc, attached, sub, events, exits, stopped, ackVars, ops>>

SpawnProcess(t) ==
    /\ At(t, "spawn")
    /\ proc' = [proc EXCEPT ![Self(t).gen].alive = TRUE]
    /\ Then(t, <<RunOn("attach", Self(t).gen)>>)
    /\ UNCHANGED <<disp, out, client, slot, attached, sub, events, exits, stopped, ackVars, ops>>

\* register_renderer_current
AttachProcess(t) ==
    /\ At(t, "attach")
    /\ LET g == Self(t).gen
       IN  IF slot.state = "Starting" /\ slot.gen = g
             THEN /\ slot' = [slot EXCEPT !.state = "Running"]
                  /\ attached' = g
                  /\ sub' = g
                  /\ events' = <<>>
                  /\ Then(t, <<Run("registered"), Run("attached")>> \o Renegotiate)
             ELSE /\ Then(t, <<RunOn("kill", g)>>)
                  /\ UNCHANGED <<slot, attached, sub, events>>
    /\ UNCHANGED <<disp, out, client, proc, exits, stopped, ackVars, ops>>

\* A stop that came in while the process was being spawned
RegisteredStopped(t) ==
    /\ At(t, "registered")
    /\ Then(t, IF stopped THEN <<Run("begin"), Run("finish")>> ELSE <<>>)
    /\ UNCHANGED <<disp, out, client, rendVars, stopped, ackVars, ops>>

\* execute_renderer_start syncs the displays of the enabled links
SyncAttached(t) ==
    /\ At(t, "attached")
    /\ Then(t, Sync(Enabled))
    /\ UNCHANGED <<disp, out, client, rendVars, stopped, ackVars, ops>>

-----------------------------------------------------------------------------
(* Negotiation: reconcile_buffer_flags snapshots, picks, then dispatches. *)

\* The last compatible display of the snapshot wins
PickScheme(t) ==
    /\ At(t, "pick")
    /\ LET able == {d \in Enabled : Formats \ disp[d].black # {}}
       IN  IF attached = 0 \/ ~proc[attached].caps \/ able = {}
             THEN Then(t, <<>>)
             ELSE \E d \in able :
                    LET free == Formats \ disp[d].black
                    IN  Then(t, <<[RunOn("dispatch", attached) EXCEPT
                                     !.fmt = CHOOSE f \in free : \A g \in free : f <= g]>>)
    /\ UNCHANGED <<disp, out, client, rendVars, stopped, ackVars, ops>>

\* send_negotiate_buffers finds the handle again, and skips the scheme it recorded last
SendDirective(t) ==
    /\ At(t, "dispatch")
    /\ IF \E p \in Procs : proc[p].alive /\ proc[p].scheme # Self(t).fmt
         THEN \E p \in Procs :
                /\ proc[p].alive
                /\ proc' = [proc EXCEPT ![p].asked = Self(t).fmt]
                /\ Then(t, <<[RunOn("record", p) EXCEPT !.fmt = Self(t).fmt]>>)
         ELSE Then(t, <<>>) /\ UNCHANGED proc
    /\ UNCHANGED <<disp, out, client, slot, attached, sub, events, exits, stopped, ackVars, ops>>

\* last_dispatched_scheme is recorded when the directive has been sent
RecordScheme(t) ==
    /\ At(t, "record")
    /\ proc' = [proc EXCEPT ![Self(t).gen].scheme = Self(t).fmt]
    /\ Then(t, <<>>)
    /\ UNCHANGED <<disp, out, client, slot, attached, sub, events, exits, stopped, ackVars, ops>>

-----------------------------------------------------------------------------
(* The renderer and its reader thread. *)

Broadcast(p, msg) == events' = IF sub = p THEN Append(events, msg) ELSE events

\* Pools published, frames read: both are bounded
Total(what) == FoldFunction(+, 0, [p \in Procs |-> proc[p][what]])

Alive(p) == proc[p].alive /\ ~proc[p].retiring

ReadFormatCaps(p) ==
    /\ Alive(p) /\ ~proc[p].caps
    /\ proc' = [proc EXCEPT ![p].caps = TRUE]
    /\ Broadcast(p, [kind |-> "caps", pool |-> 0, seq |-> 0])
    /\ UNCHANGED <<disp, out, client, slot, attached, sub, exits, stopped, ackVars, task, ops>>

\* BindBuffers: the pool is published ...
ReadBindBuffers(p) ==
    /\ Alive(p) /\ proc[p].caps /\ proc[p].asked # 0 /\ Total("pool") < MaxPool
    /\ proc' = [proc EXCEPT ![p].pool = @ + 1, ![p].fmt = proc[p].asked, ![p].retiring = TRUE]
    /\ UNCHANGED <<disp, out, client, slot, attached, sub, events, exits, stopped, ackVars, task, ops>>

\* ... then the fences of the previous one are retired, and the event is sent
RetireFences(p) ==
    /\ proc[p].retiring
    /\ proc' = [proc EXCEPT ![p].retiring = FALSE, ![p].fences = {}, ![p].latest = NoFrame]
    /\ Broadcast(p, [kind |-> "bind", pool |-> proc[p].pool, seq |-> 0])
    /\ UNCHANGED <<disp, out, client, slot, attached, sub, exits, stopped, ackVars, task, ops>>

ReadFrameReady(p) ==
    /\ Alive(p) /\ proc[p].pool # 0 /\ Total("seq") < MaxSeq
    /\ LET s == proc[p].seq + 1
       IN  /\ proc' = [proc EXCEPT ![p].seq = s, ![p].fences = @ \cup {s},
                                   ![p].latest = [pool |-> proc[p].pool, seq |-> s]]
           /\ Broadcast(p, [kind |-> "frame", pool |-> proc[p].pool, seq |-> s])
    /\ UNCHANGED <<disp, out, client, slot, attached, sub, exits, stopped, ackVars, task, ops>>

-----------------------------------------------------------------------------
(* The event task of the renderer. *)

\* Mutant: frames a new binding was already given by replay are sent again
RecipientReplayed(d, e) ==
    LET b == disp[d].bound
    IN  /\ d \in Enabled
        /\ b # NoBinding /\ b.proc = attached /\ b.pool = e.pool
        /\ ~disp[d].paused \/ b.awaiting
        /\ disp[d].failed # b.wire

\* has_frame_demand, and the filters of on_renderer_frame
Recipient(d, e) ==
    LET b == disp[d].bound
    IN  /\ d \in Enabled
        /\ b # NoBinding /\ b.proc = attached /\ b.pool = e.pool
        /\ ~disp[d].paused \/ b.awaiting
        /\ disp[d].failed # b.wire
        /\ e.seq > b.last

FanOut(e) ==
    LET to == {d \in Display : Recipient(d, e)}
    IN  /\ out' = [d \in Display |-> IF d \in to
                     THEN Send(d, <<FrameMsg(disp[d].bound.wire, attached, e.seq, disp[d].epoch)>>)
                     ELSE out[d]]
        /\ disp' = [d \in Display |-> IF d \in to /\ disp[d].conn = "up"
                      THEN [disp[d] EXCEPT !.bound.last = e.seq, !.bound.awaiting = FALSE]
                      ELSE disp[d]]

\* on_renderer_bind takes the displays first, renegotiates, then syncs them
EventTask ==
    /\ Idle("events") /\ events # <<>>
    /\ LET e == Head(events)
       IN  CASE e.kind = "frame" -> FanOut(e) /\ UNCHANGED task
             [] e.kind = "bind" ->
                  Begins("events", Renegotiate \o Sync(Enabled)) /\ UNCHANGED <<disp, out>>
             [] e.kind = "caps" -> Begins("events", Renegotiate) /\ UNCHANGED <<disp, out>>
    /\ events' = Tail(events)
    /\ UNCHANGED <<client, proc, slot, attached, sub, exits, stopped, ackVars, ops>>

-----------------------------------------------------------------------------
(* The frame loop of a display and its client. *)

Receive(d) == disp[d].conn = "up" /\ Idle(d) /\ out[d] # <<>> /\ out' = [out EXCEPT ![d] = Tail(@)]

SendUnbind(d) ==
    /\ Receive(d) /\ Head(out[d]).kind = "unbind"
    /\ client' = [client EXCEPT ![d].shown = 0, ![d].unacked = @ \cup {Head(out[d])}]
    /\ UNCHANGED <<disp, rendVars, stopped, ackVars, task, ops>>

\* The client tries to import the pool, and may fail
SendBind(d) ==
    /\ Receive(d) /\ Head(out[d]).kind = "bind"
    /\ Happens("fail") \/ UNCHANGED ops
    /\ client' = [client EXCEPT ![d].shown = Head(out[d]).wire,
                    ![d].fails = IF ops' = ops THEN @ ELSE @ \cup {Head(out[d]).wire}]
    /\ UNCHANGED <<disp, rendVars, stopped, ackVars, task>>

\* forward_frame_ready: a frame whose permit is no longer current is skipped
SkipFrame(d) ==
    /\ Receive(d) /\ Head(out[d]).kind = "frame"
    /\ Head(out[d]).epoch # disp[d].epoch
    /\ UNCHANGED <<disp, client, rendVars, stopped, ackVars, task, ops>>

\* ... and a fence that is no longer there ends the session
SendFrame(d) ==
    /\ Receive(d) /\ Head(out[d]).kind = "frame"
    /\ Head(out[d]).epoch = disp[d].epoch
    /\ disp' = IF Head(out[d]).seq \in proc[Head(out[d]).proc].fences THEN disp
               ELSE [disp EXCEPT ![d].conn = "leaving"]
    /\ UNCHANGED <<client, rendVars, stopped, ackVars, task, ops>>

\* Mutant: only the acknowledgement of the latest binding counts
AckUnbindLatest(d) ==
    /\ disp[d].conn = "up" /\ Idle(d)
    /\ \E m \in client[d].unacked :
         /\ client' = [client EXCEPT ![d].unacked = @ \ {m}]
         /\ pending' = IF m.wire = disp[d].wire THEN pending \ {<<d, m.wire>>} ELSE pending
    /\ UNCHANGED <<disp, out, rendVars, stopped, tracking, task, ops>>

\* record_ack_unbind
AckUnbind(d) ==
    /\ disp[d].conn = "up" /\ Idle(d)
    /\ \E m \in client[d].unacked :
         /\ client' = [client EXCEPT ![d].unacked = @ \ {m}]
         /\ pending' = pending \ {<<d, m.wire>>}
    /\ UNCHANGED <<disp, out, rendVars, stopped, tracking, task, ops>>

\* Mutant: frames that were sent before the failure stay permitted
ImportFailedPermitted(d) ==
    /\ disp[d].conn = "up" /\ Idle(d)
    /\ \E w \in client[d].fails :
         /\ client' = [client EXCEPT ![d].fails = @ \ {w}]
         /\ IF disp[d].bound # NoBinding /\ disp[d].bound.wire = w
              THEN /\ disp' = [disp EXCEPT ![d].failed = w,
                                 ![d].black = @ \cup {disp[d].bound.fmt}]
                   /\ Begins(d, Renegotiate)
              ELSE UNCHANGED <<disp, task>>
    /\ UNCHANGED <<out, rendVars, stopped, ackVars, ops>>

\* on_consumer_import_failed, kind Unsupported
ImportFailed(d) ==
    /\ disp[d].conn = "up" /\ Idle(d)
    /\ \E w \in client[d].fails :
         /\ client' = [client EXCEPT ![d].fails = @ \ {w}]
         /\ IF disp[d].bound # NoBinding /\ disp[d].bound.wire = w
              THEN /\ disp' = [Invalidated({d}) EXCEPT ![d].failed = w,
                                 ![d].black = @ \cup {disp[d].bound.fmt}]
                   /\ Begins(d, Renegotiate)
              ELSE UNCHANGED <<disp, task>>
    /\ UNCHANGED <<out, rendVars, stopped, ackVars, ops>>

-----------------------------------------------------------------------------
\* No section is running and nothing is in a channel of the daemon
AtRest == /\ \A t \in Tasks : Idle(t)
          /\ events = <<>> /\ exits = <<>>
          /\ \A p \in Procs : ~proc[p].retiring

\* The daemon waits for somebody to ask for something
Rest == AtRest /\ UNCHANGED vars

Section(t) ==
    \/ SyncOne(t) \/ Activate(t) \/ BeginRetainedStop(t) \/ ArmTracking(t) \/ DetachForRestart(t)
    \/ FinishRetainedStop(t) \/ AwaitUnbindAcks(t) \/ AckTimeout(t) \/ StopGeneration(t)
    \/ SettleExit(t) \/ RequestStart(t) \/ AdvanceStart(t) \/ SpawnProcess(t) \/ AttachProcess(t)
    \/ RegisteredStopped(t) \/ SyncAttached(t) \/ PickScheme(t) \/ SendDirective(t)
    \/ RecordScheme(t)

Requests(t) == SetManualStop(t) \/ Restart(t) \/ ClearAssignments(t) \/ SetDisplayPaused(t)

Renderer(p) == ReadFormatCaps(p) \/ ReadBindBuffers(p) \/ RetireFences(p) \/ ReadFrameReady(p)

Session(d) == \/ RegisterDisplay(d) \/ UnregisterDisplay(d)
              \/ SendUnbind(d) \/ SendBind(d) \/ SkipFrame(d) \/ SendFrame(d)
              \/ AckUnbind(d) \/ ImportFailed(d)

Next == \/ \E t \in Tasks : Section(t)
        \/ \E t \in Ctl : Requests(t)
        \/ \E p \in Procs : Renderer(p) \/ ProcessCrashes(p)
        \/ \E d \in Display : Session(d) \/ ClientLeaves(d)
        \/ ProcessExitReceived
        \/ EventTask
        \/ Rest

Spec == Init /\ [][Next]_vars

-----------------------------------------------------------------------------
(* Properties. *)

\* sync_display is called wherever something it reads has changed: when nothing is in
\* flight, no display has been told anything but the current publication of its link.
\* It reads a dozen pieces of state that as many tasks write under other locks; a task
\* that forgets the call, or makes it too early, leaves a display behind for ever.  It is
\* stated for one display: of several with different black lists PickScheme may take any,
\* and the old scheme, recorded after its directive was sent, lifts the gate of a display
\* that nobody syncs again.
SyncedAtRest == AtRest => \A d \in Display : Up(d) => Gated(d) \/ ~NeedsUpdate(d)

\* A frame that forward_frame_ready will still let through is one of the binding the
\* router has now, on a link that is enabled, and not of a binding that the client could
\* not import.  Whatever ends a binding must invalidate the frames under way.
PermitFits ==
    \A d \in Display : \A i \in DOMAIN out[d] :
       LET m == out[d][i]
       IN  m.kind = "frame" /\ m.epoch = disp[d].epoch =>
             /\ disp[d].link = "on"
             /\ disp[d].bound.wire = m.wire /\ disp[d].bound.proc = m.proc
             /\ disp[d].failed # m.wire

\* Wire generation the client has when it reads message i
ShownAt(d, i) ==
    LET binds == {j \in 1 .. i - 1 : out[d][j].kind # "frame"}
    IN  IF binds = {} THEN client[d].shown
        ELSE LET j == CHOOSE k \in binds : \A l \in binds : l <= k
             IN  IF out[d][j].kind = "bind" THEN out[d][j].wire ELSE 0

\* The stream a client reads is well formed, whoever wrote to the channel: a frame and an
\* unbind name the binding before them, no binding replaces another without an unbind,
\* and no frame is sent twice to a binding or out of order (the replay of the last frame
\* and the event of the same frame are sent by different tasks).
FrameFits ==
    \A d \in Display : disp[d].conn = "up" =>
      /\ \A i \in DOMAIN out[d] :
           LET m == out[d][i]
           IN  ShownAt(d, i) = IF m.kind = "bind" THEN 0 ELSE m.wire
      /\ disp[d].bound.wire = ShownAt(d, Len(out[d]) + 1)
      /\ \A i, j \in DOMAIN out[d] :
           i < j /\ out[d][i].kind = "frame" /\ out[d][j].kind = "frame"
                 /\ out[d][i].wire = out[d][j].wire
             => out[d][i].seq < out[d][j].seq

\* Unbinds the client has not acknowledged, in the channel or with the client
Unacknowledged(d) ==
    {m \in client[d].unacked \cup {out[d][i] : i \in DOMAIN out[d]} : m.kind = "unbind"}

\* A stop waits only for acknowledgements that can still come: as long as the display is
\* connected, an unbind that is pending is with the client or on the way to it.
PendingLive ==
    \A a \in pending : disp[a[1]].conn = "up" => \E m \in Unacknowledged(a[1]) : m.wire = a[2]

\* When a renderer is stopped and the wait did not time out, no connected display has an
\* unbind of it that it has not acknowledged: begin_unbind_ack_tracking "MUST be called
\* before any sync_display that emits Unbind for this renderer" (violated).
StopAfterRelease ==
    \A t \in Tasks : At(t, "kill") /\ ~Self(t).late =>
       \A d \in Display : disp[d].conn = "up" =>
          \A m \in Unacknowledged(d) : m.proc # Self(t).gen
=============================================================================
