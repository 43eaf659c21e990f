--------------------------- MODULE PlaybackControl ---------------------------
(***************************************************************************)
(* PlaybackControl (routing/router/mod.rs, lifecycle.rs, consumption.rs):  *)
(* which renderers play, are muted or paused, and how they are told.       *)
(*                                                                         *)
(* What is wished changes under the lock of the router; a pass over all    *)
(* renderers then computes what each should do, under that lock, and sends *)
(* the messages after it, under the lifecycle lock.  Passes are run by     *)
(* requests, by the listener of process exits, and by the event task of    *)
(* each renderer, which is aborted when its process has exited, with what  *)
(* it had still to send.  Requests and the listener start processes, while *)
(* others may have messages for the renderer, which go to the new process. *)
(* A failed Play or Unmute is retried by a task of its own.  Fades, the    *)
(* messages about pause effects and stops are left out.                    *)
(***************************************************************************)
EXTENDS Naturals, Sequences, FiniteSets, SequencesExt

CONSTANTS
    Renderer,
    LinkedDisplay,
    RendererOf,    \* the renderer each display is linked to; one without is stopped
    LockScreen,    \* displays that do not accept the global pause
    Requester,     \* tasks that change what is wished
    WishMixes,     \* wishes that change together in one behaviour
    MaxChanges,    \* bound on the changes
    MaxDeaths      \* bound on the processes that die

ASSUME PlaybackAssumption ==
    /\ IsFiniteSet(Renderer) /\ IsFiniteSet(LinkedDisplay)
    /\ RendererOf \in [LinkedDisplay -> Renderer]
    /\ \A r \in Renderer : \E d \in LinkedDisplay : RendererOf[d] = r
    /\ MaxChanges \in Nat /\ MaxDeaths \in Nat

Host == <<"exits">>    \* the listener of process exits
Events(r) == <<"events", r>>
Retrier(r) == <<"retry", r>>
Caller == {"request"} \X Requester
Starter == Caller \cup {Host}
PassTask == Caller \cup {Host} \cup {Events(r) : r \in Renderer}
Nobody == <<>>

VARIABLES
    kinds,         \* the wishes that change in this behaviour
    wish,          \* global pause, mute, renderers paused, displays paused, links disabled
    shown,         \* binding of each display: "unbound", "awaiting" its first frame, "shown"
    stale,         \* displays bound to a pool of a process that has exited
    resume,        \* displays with resume_frame_requested
    activity,      \* of the slot; "none" unless the slot is Running with a handle
    resumeRetry,   \* the control of resume_retries
    retrier,       \* where its task is
    lifecycleLock, \* its holder
    task,          \* where each task is, and the messages it still has to send
    proc,          \* the process of each renderer: what it was told, and has it a pool?
    owed,          \* history: displays resumed that were not yet shown the current content
    misled,        \* history: renderers whose messages were dropped with an aborted pass,
                   \* or that took the place of a process for which some were left
    wishChanges, deaths

wishes == <<kinds, wish, wishChanges>>
bindings == <<shown, stale>>
slots == <<activity, resumeRetry, retrier>>
playbackVars == <<wishes, bindings, resume, slots, lifecycleLock, task, proc, owed, misled, deaths>>

ResumeMessages == {"play", "unmute"}
Rest == [pc |-> "idle", todo |-> <<>>, reg |-> {}, of |-> {}]
Fresh == [up |-> TRUE, pool |-> FALSE, paused |-> FALSE, muted |-> FALSE, gate |-> FALSE]

PlaybackInit ==
    /\ kinds \in WishMixes
    /\ wish = [global |-> FALSE, mute |-> FALSE, renderers |-> {}, displays |-> {}, off |-> {}]
    /\ shown = [d \in LinkedDisplay |-> "unbound"]
    /\ stale = {} /\ resume = {}
    /\ activity = [r \in Renderer |-> "playing"]
    /\ resumeRetry = [r \in Renderer |-> {}]
    /\ retrier = [r \in Renderer |-> "none"]
    /\ lifecycleLock = Nobody
    /\ task = [t \in PassTask |-> Rest]
    /\ proc = [r \in Renderer |-> [Fresh EXCEPT !.gate = TRUE]]
    /\ owed = {} /\ misled = {}
    /\ wishChanges = 0 /\ deaths = 0

-----------------------------------------------------------------------------
(* What is wished. *)

Enabled(d) == d \notin wish.off
GlobalPaused(d, w) == w.global /\ d \notin LockScreen
Paused(d, w) == d \in w.displays \/ GlobalPaused(d, w)

\* has_frame_demand: a display that is paused still gets the first frame of a binding
FrameDemand(d) == Enabled(d) /\ (~Paused(d, wish) \/ shown[d] # "shown")
PlaybackDemand(d) == FrameDemand(d) /\ ~GlobalPaused(d, wish)

\* target_state
Target(r) ==
    LET links == {d \in LinkedDisplay : RendererOf[d] = r}
    IN  IF r \in wish.renderers \/ ~\E d \in links : PlaybackDemand(d) THEN "paused"
        ELSE IF wish.mute THEN "muted" ELSE "playing"

Flip(S, x) == IF x \in S THEN S \ {x} ELSE S \cup {x}

ChangedWishes ==
    {w \in {[wish EXCEPT !.global = ~@]} : "global" \in kinds}
      \cup {w \in {[wish EXCEPT !.mute = ~@]} : "mute" \in kinds}
      \cup {w \in {[wish EXCEPT !.renderers = Flip(@, r)] : r \in Renderer} : "renderer" \in kinds}
      \cup {w \in {[wish EXCEPT !.displays = Flip(@, d)] : d \in LinkedDisplay} : "display" \in kinds}
      \cup {w \in {[wish EXCEPT !.off = Flip(@, d)] : d \in LinkedDisplay} : "link" \in kinds}

\* consumption_changed
Resumed(w) == {d \in LinkedDisplay : Paused(d, wish) /\ ~Paused(d, w)}
Held(w) == {d \in LinkedDisplay : ~Paused(d, wish) /\ Paused(d, w)}

\* set_manual_pause, set_manual_mute, set_display_paused, set_renderer_paused, and a link
\* that is disabled or enabled; a pass follows
Change(t) ==
    /\ task[t] = Rest /\ wishChanges < MaxChanges
    /\ \E w \in ChangedWishes :
         /\ wish' = w
         /\ resume' = (resume \ Held(w)) \cup Resumed(w)
         /\ owed' = (owed \ Held(w)) \cup Resumed(w)
         /\ task' = [task EXCEPT ![t].pc = IF w.off # wish.off THEN "sync" ELSE "lock",
                                ![t].of = {RendererOf[d] : d \in SymDiff(w.off, wish.off)}]
    /\ wishChanges' = wishChanges + 1
    /\ UNCHANGED <<kinds, bindings, slots, lifecycleLock, proc, misled, deaths>>

\* sync_display of every display of the renderers R: a disabled link and a renderer
\* without a pool leave a display unbound; a new binding, also one that replaces the binding
\* to a pool that is gone, brings a frame
Bindings(R) ==
    [d \in LinkedDisplay |->
       IF RendererOf[d] \notin R THEN shown[d]
       ELSE IF ~Enabled(d) \/ activity[RendererOf[d]] = "none" \/ ~proc[RendererOf[d]].pool
         THEN "unbound"
       ELSE IF shown[d] = "unbound" \/ d \in stale THEN "awaiting" ELSE shown[d]]

SyncDisplays(R) ==
    /\ shown' = Bindings(R)
    /\ stale' = {d \in stale : RendererOf[d] \notin R}
    /\ owed' = {d \in owed : shown[d] = shown'[d] /\ d \notin stale \ stale'}

\* A pass follows, but for execute_renderer_start, where it came first
Sync(t) ==
    /\ task[t].pc \in {"sync", "rebind"}
    /\ SyncDisplays(task[t].of)
    /\ task' = [task EXCEPT ![t] = IF @.pc = "sync" THEN [Rest EXCEPT !.pc = "lock"] ELSE Rest]
    /\ UNCHANGED <<wishes, resume, slots, lifecycleLock, proc, misled, deaths>>

-----------------------------------------------------------------------------
(* reconcile_lifecycle_inner. *)

AcquireLock(t) ==
    /\ task[t].pc = "lock" /\ lifecycleLock = Nobody
    /\ lifecycleLock' = t
    /\ task' = [task EXCEPT ![t].pc = "decide"]
    /\ UNCHANGED <<wishes, bindings, resume, slots, proc, owed, misled, deaths>>

\* What leads from one activity to another
Commands(from, to) ==
    CASE from = to -> <<>>
      [] from = "playing" /\ to = "paused" -> <<"pause">>
      [] from = "playing" /\ to = "muted" -> <<"mute">>
      [] from = "paused" /\ to = "playing" -> <<"play">>
      [] from = "muted" /\ to = "playing" -> <<"unmute">>
      [] from = "paused" /\ to = "muted" -> <<"mute", "play">>
      [] from = "muted" /\ to = "paused" -> <<"pause", "unmute">>

\* Mutant: a process that has just registered is not told to play
MessagesChanged(from, to, registered) == Commands(from, to)

Messages(from, to, registered) ==
    IF from = to /\ to = "playing" /\ registered THEN <<"unmute">> ELSE Commands(from, to)

\* The messages for the renderers, in the order of the table: those for one renderer
\* follow each other
Actions(running, reg) ==
    LET Msgs(r) == Messages(activity[r], Target(r), r \in reg)
        InOrder(s) == \A i, j \in DOMAIN s : i < j /\ s[i][1] = s[j][1] =>
                        s[i][2] < s[j][2] /\ \A k \in i .. j : s[k][1] = s[i][1]
        Orders == {s \in SetToSeqs(UNION {{r} \X DOMAIN Msgs(r) : r \in running}) : InOrder(s)}
    IN  {[i \in DOMAIN s |-> <<s[i][1], Msgs(s[i][1])[s[i][2]]>>] : s \in Orders}

\* Mutant: a pass without messages has nothing left to do
DecideOrLeave(t) ==
    /\ task[t].pc = "decide"
    /\ LET running == {r \in Renderer : activity[r] # "none"}
       IN  /\ \E actions \in Actions(running, task[t].reg) :
                task' = [task EXCEPT ![t].pc = IF actions = <<>> THEN "ask" ELSE "send",
                                     ![t].todo = actions]
           /\ activity' = [r \in Renderer |-> IF r \in running THEN Target(r) ELSE "none"]
    /\ UNCHANGED <<wishes, bindings, resume, resumeRetry, retrier, lifecycleLock, proc, owed,
                   misled, deaths>>

Decide(t) ==
    /\ task[t].pc = "decide"
    /\ LET running == {r \in Renderer : activity[r] # "none"}
       IN  /\ \E actions \in Actions(running, task[t].reg) :
                task' = [task EXCEPT ![t].pc = "send", ![t].todo = actions]
           /\ activity' = [r \in Renderer |-> IF r \in running THEN Target(r) ELSE "none"]
           /\ resumeRetry' = [r \in Renderer |-> IF r \in running /\ Target(r) # "playing"
                                                THEN {} ELSE resumeRetry[r]]
    /\ retrier' = [r \in Renderer |-> IF resumeRetry'[r] = {} THEN "none" ELSE retrier[r]]
    /\ UNCHANGED <<wishes, bindings, resume, lifecycleLock, proc, owed, misled, deaths>>

\* What a process has been told
AfterMessage(p, msg) ==
    CASE msg = "pause" -> [p EXCEPT !.paused = TRUE]
      [] msg = "play" -> [p EXCEPT !.paused = FALSE, !.gate = TRUE]
      [] msg = "mute" -> [p EXCEPT !.muted = TRUE]
      [] msg = "unmute" -> [p EXCEPT !.muted = FALSE, !.gate = TRUE]

Tell(r, msg) == proc' = [proc EXCEPT ![r] = IF @.up THEN AfterMessage(@, msg) ELSE @]

\* A message that resumes is followed by clear_resume_retry or schedule_resume_retry
SendMessage(t) ==
    /\ task[t].pc = "send" /\ task[t].todo # <<>>
    /\ LET r == Head(task[t].todo)[1]
           msg == Head(task[t].todo)[2]
       IN  /\ Tell(r, msg)
           /\ task' = IF msg \in ResumeMessages
                        THEN [task EXCEPT ![t].pc = IF proc[r].up THEN "clear" ELSE "schedule"]
                        ELSE [task EXCEPT ![t].todo = Tail(@)]
    /\ UNCHANGED <<wishes, bindings, resume, slots, lifecycleLock, owed, misled, deaths>>

Sent(t) == task' = [task EXCEPT ![t].pc = "send", ![t].todo = Tail(@)]

ClearRetry(t) ==
    /\ task[t].pc = "clear"
    /\ LET r == Head(task[t].todo)[1]
       IN  resumeRetry' = [resumeRetry EXCEPT ![r] = {}] /\ retrier' = [retrier EXCEPT ![r] = "none"]
    /\ Sent(t)
    /\ UNCHANGED <<wishes, bindings, resume, activity, lifecycleLock, proc, owed, misled, deaths>>

ScheduleRetry(t) ==
    /\ task[t].pc = "schedule"
    /\ LET r == Head(task[t].todo)[1]
       IN  IF activity[r] # "playing"
             THEN resumeRetry' = [resumeRetry EXCEPT ![r] = {}] /\ retrier' = [retrier EXCEPT ![r] = "none"]
           ELSE IF resumeRetry[r] = {}
             THEN /\ resumeRetry' = [resumeRetry EXCEPT ![r] = {Head(task[t].todo)[2]}]
                  /\ retrier' = [retrier EXCEPT ![r] = "look"]
           ELSE UNCHANGED <<resumeRetry, retrier>>
    /\ Sent(t)
    /\ UNCHANGED <<wishes, bindings, resume, activity, lifecycleLock, proc, owed, misled, deaths>>

\* reconcile_display_consumption: the renderers of displays that resumed are asked for a frame
Consume(t) ==
    /\ task[t].pc = "send" /\ task[t].todo = <<>>
    /\ LET asked == {d \in resume : FrameDemand(d)}
       IN  /\ resume' = resume \ asked
           /\ task' = [task EXCEPT ![t].pc = "ask",
                                   ![t].todo = SetToSeq({RendererOf[d] : d \in asked})]
    /\ UNCHANGED <<wishes, bindings, slots, lifecycleLock, proc, owed, misled, deaths>>

\* request_frame
AskFrame(t) ==
    /\ task[t].pc = "ask" /\ task[t].todo # <<>>
    /\ LET r == Head(task[t].todo)
       IN  owed' = IF proc[r].up THEN {d \in owed : RendererOf[d] # r} ELSE owed
    /\ task' = [task EXCEPT ![t].todo = Tail(@)]
    /\ UNCHANGED <<wishes, bindings, resume, slots, lifecycleLock, proc, misled, deaths>>

\* The displays of a renderer just registered are synced
EndPass(t) ==
    /\ task[t].pc = "ask" /\ task[t].todo = <<>>
    /\ lifecycleLock' = Nobody
    /\ task' = [task EXCEPT ![t] = IF @.reg = {} THEN Rest
                                   ELSE [Rest EXCEPT !.pc = "rebind", !.of = task[t].reg]]
    /\ UNCHANGED <<wishes, bindings, resume, slots, proc, owed, misled, deaths>>

Pass(t) ==
    \/ AcquireLock(t) \/ Decide(t) \/ SendMessage(t) \/ ClearRetry(t) \/ ScheduleRetry(t)
    \/ Consume(t) \/ AskFrame(t) \/ EndPass(t)

-----------------------------------------------------------------------------
(* run_renderer_resume_retry. *)

\* At the top of the loop, and again under the lock once the delay has passed
LookAgain(r, next) ==
    IF activity[r] # "playing"
      THEN resumeRetry' = [resumeRetry EXCEPT ![r] = {}] /\ retrier' = [retrier EXCEPT ![r] = "none"]
      ELSE UNCHANGED resumeRetry /\ retrier' = [retrier EXCEPT ![r] = next]

RetryLook(r) ==
    /\ retrier[r] = "look"
    /\ LookAgain(r, "delay")
    /\ UNCHANGED <<wishes, bindings, resume, activity, lifecycleLock, task, proc, owed, misled, deaths>>

RetryLock(r) ==
    /\ retrier[r] = "delay" /\ lifecycleLock = Nobody
    /\ LookAgain(r, "send")
    /\ lifecycleLock' = IF retrier'[r] = "send" THEN Retrier(r) ELSE Nobody
    /\ UNCHANGED <<wishes, bindings, resume, activity, task, proc, owed, misled, deaths>>

RetrySend(r) ==
    /\ retrier[r] = "send"
    /\ \E msg \in resumeRetry[r] : Tell(r, msg)
    /\ lifecycleLock' = Nobody
    /\ IF proc[r].up
         THEN resumeRetry' = [resumeRetry EXCEPT ![r] = {}] /\ retrier' = [retrier EXCEPT ![r] = "none"]
         ELSE UNCHANGED resumeRetry /\ retrier' = [retrier EXCEPT ![r] = "look"]
    /\ UNCHANGED <<wishes, bindings, resume, activity, task, owed, misled, deaths>>

-----------------------------------------------------------------------------
(* Processes, and the event task of each renderer. *)

Die(r) ==
    /\ proc[r].up /\ deaths < MaxDeaths
    /\ proc' = [proc EXCEPT ![r].up = FALSE]
    /\ deaths' = deaths + 1
    /\ UNCHANGED <<wishes, bindings, resume, slots, lifecycleLock, task, owed, misled>>

\* on_renderer_bind
Bind(r) ==
    LET t == Events(r)
    IN  /\ task[t] = Rest /\ activity[r] # "none" /\ proc[r].up /\ ~proc[r].pool
        /\ proc' = [proc EXCEPT ![r].pool = TRUE]
        /\ task' = [task EXCEPT ![t].pc = "sync", ![t].of = {r}]
        /\ UNCHANGED <<wishes, bindings, resume, slots, lifecycleLock, owed, misled, deaths>>

\* on_renderer_frame
Frame(r) ==
    LET t == Events(r)
        first == {d \in LinkedDisplay :
                    RendererOf[d] = r /\ shown[d] = "awaiting" /\ d \notin stale /\ FrameDemand(d)}
    IN  /\ task[t] = Rest /\ activity[r] # "none" /\ first # {}
        /\ shown' = [d \in LinkedDisplay |-> IF d \in first THEN "shown" ELSE shown[d]]
        /\ task' = [task EXCEPT ![t].pc = "lock"]
        /\ UNCHANGED <<wishes, stale, resume, slots, lifecycleLock, proc, owed, misled, deaths>>

\* Renderers a task has decided messages for
Unsent(t) ==
    CASE task[t].pc \in {"send", "clear", "schedule"} ->
           {task[t].todo[i][1] : i \in DOMAIN task[t].todo}
      [] task[t].pc = "ask" -> Range(task[t].todo)
      [] OTHER -> {}

\* settle_renderer_process_exit: the retry and the event task of the renderer are aborted,
\* the latter with what it had still to send to others
Settle(r) ==
    LET t == Events(r)
    IN  /\ task[Host] = Rest /\ ~proc[r].up /\ activity[r] # "none"
        /\ activity' = [activity EXCEPT ![r] = "none"]
        /\ resumeRetry' = [resumeRetry EXCEPT ![r] = {}]
        /\ retrier' = [retrier EXCEPT ![r] = "none"]
        /\ lifecycleLock' = IF lifecycleLock \in {t, Retrier(r)} THEN Nobody ELSE lifecycleLock
        /\ task' = [task EXCEPT ![t] = Rest, ![Host].pc = "sync", ![Host].of = {r}]
        /\ stale' = stale \cup {d \in LinkedDisplay : RendererOf[d] = r /\ shown[d] # "unbound"}
        /\ misled' = misled \cup (Unsent(t) \ {r})
        /\ UNCHANGED <<wishes, shown, resume, proc, owed, deaths>>

Starting(r) == \E t \in Starter : task[t].pc \in {"spawn", "register"} /\ r \in task[t].of

\* advance_renderer_start, for a request or after the exit
Start(t, r) ==
    /\ task[t] = Rest /\ activity[r] = "none" /\ ~Starting(r)
    /\ \E d \in LinkedDisplay : RendererOf[d] = r /\ Enabled(d)
    /\ task' = [task EXCEPT ![t].pc = "spawn", ![t].of = {r}]
    /\ UNCHANGED <<wishes, bindings, resume, slots, lifecycleLock, proc, owed, misled, deaths>>

\* spawn_for_generation: what others have still to send will go to the new process
Spawn(t, r) ==
    /\ task[t].pc = "spawn" /\ r \in task[t].of
    /\ proc' = [proc EXCEPT ![r] = Fresh]
    /\ task' = [task EXCEPT ![t].pc = "register"]
    /\ misled' = IF \E u \in PassTask : r \in Unsent(u) THEN misled \cup {r} ELSE misled \ {r}
    /\ UNCHANGED <<wishes, bindings, resume, slots, lifecycleLock, owed, deaths>>

\* register_renderer_current; a new pass is told of the renderer
Register(t, r) ==
    /\ task[t].pc = "register" /\ r \in task[t].of
    /\ activity' = [activity EXCEPT ![r] = "playing"]
    /\ task' = [task EXCEPT ![t] = [Rest EXCEPT !.pc = "lock", !.reg = {r}]]
    /\ UNCHANGED <<wishes, bindings, resume, resumeRetry, retrier, lifecycleLock, proc, owed,
                   misled, deaths>>

-----------------------------------------------------------------------------
PlaybackNext ==
    \/ \E t \in Caller : Change(t)
    \/ \E t \in PassTask : Sync(t) \/ Pass(t)
    \/ \E r \in Renderer : RetryLook(r) \/ RetryLock(r) \/ RetrySend(r)
    \/ \E r \in Renderer : Die(r) \/ Bind(r) \/ Frame(r) \/ Settle(r)
    \/ \E t \in Starter, r \in Renderer : Start(t, r) \/ Spawn(t, r) \/ Register(t, r)

PlaybackSpec == PlaybackInit /\ [][PlaybackNext]_playbackVars

-----------------------------------------------------------------------------
ObeysTarget(r) ==
    /\ proc[r].paused = (Target(r) = "paused")
    /\ proc[r].muted = (Target(r) = "muted")
    /\ Target(r) = "playing" => proc[r].gate

PassesDone ==
    /\ \A t \in PassTask : task[t] = Rest
    /\ \A r \in Renderer : (activity[r] # "none" => proc[r].up) /\ retrier[r] = "none"

\* When nothing is under way every renderer does what the wishes of all displays and of the
\* user come to, and has been told so: passes of several tasks, retries of messages that
\* failed, exits and new processes that start out playing end in the last wish.  Where a pass
\* was cut short by the exit of one renderer, or had messages left when a process was replaced,
\* the slots are right all the same, and only the renderers these messages were for may not
\* have been told.
CommandedAtRest ==
    PassesDone => \A r \in {q \in Renderer : activity[q] # "none"} :
        /\ activity[r] = Target(r)
        /\ r \notin misled => ObeysTarget(r)

\* A display that was resumed is shown the current content: its renderer was asked for a
\* frame, though it may have gone on playing for another display all the time.
ResumeShown ==
    PassesDone => \A d \in owed :
        ~Enabled(d) \/ shown[d] = "unbound" \/ RendererOf[d] \in misled

\* In the end every renderer was told what the last wishes come to, and a display that was
\* resumed is shown the current content, but for renderers whose messages were lost or went to
\* a successor.
PlaybackAtRest == CommandedAtRest /\ ResumeShown
=============================================================================
