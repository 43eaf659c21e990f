---------------------------- MODULE RenderTarget ----------------------------
(* The size and format a renderer is asked to draw in, when it chooses its  *)
(* resolution automatically: renderer_manager/render_target.rs and          *)
(* routing/router/render_size.rs, with the reader that takes the answers.   *)
(*                                                                          *)
(* Whoever changes what a target depends on runs a pass afterwards: what is *)
(* wanted now is read under the lock of the router, and handed to the       *)
(* coordinator of the renderer under its own.  The coordinator has one      *)
(* request under way, and waits between two of them for RESIZE_DELAY, for   *)
(* which a deadline is scheduled.  One renderer and one display.            *)
EXTENDS Naturals, Sequences

CONSTANTS Size,
          Formats,         \* formats both can use, in the order pick prefers them
          TargetBounds     \* pairs: how often demand and capabilities may change, and
                           \* how many requests and imports may fail

ASSUME TargetAssumption == DOMAIN Formats \subseteq Nat /\ TargetBounds \subseteq Nat \X Nat

Nothing == "none"
NoTarget == [rev |-> 0, size |-> Nothing, format |-> Nothing]
TargetKey(target) == [size |-> target.size, rev |-> target.rev]
NoKey == TargetKey(NoTarget)
Task == {"request", "display", "events", "deadlines"}

VARIABLES caps,            \* revision of the declared capabilities, 0 before the first
          demand,          \* size the display needs, or Nothing if there is none
          blacklist,       \* formats the renderer could not allocate
          refused,         \* formats the display could not import
          queue,           \* the Coordinator: [desired, applied, flight, failed]
          sent, elapsed,   \* was anything sent, and has RESIZE_DELAY passed since?
          retry, retries, blocked,
          timer,           \* deadline of the renderer: "off", "on", or "fired"
          pool, applied,   \* published pool, and applied_generation
          bound,           \* the pool the display is bound to
          ask, answer,     \* messages on the socket, either way
          unread,          \* what the event task has not read
          pass,            \* where each task is: [pc, want]
          changesLeft, failuresLeft  \* how many of each may still come

demands == <<caps, demand, blacklist, refused>>
coordinator == <<queue, sent, elapsed, retry, retries, blocked>>
pools == <<pool, applied>>
budget == <<changesLeft, failuresLeft>>
targetVars == <<demands, coordinator, timer, pools, bound, ask, answer, unread, pass, budget>>

NoPass == [pc |-> "idle", want |-> NoTarget]
Running == {t \in Task : pass[t].pc \in {"configure", "send", "deadline"}}
NoPool == [gen |-> 0, target |-> NoTarget]

TargetInit ==
  /\ caps = 0 /\ demand = Nothing /\ blacklist = {} /\ refused = {}
  /\ queue = [desired |-> NoTarget, applied |-> NoTarget, flight |-> NoTarget, failed |-> NoTarget]
  /\ sent = FALSE /\ elapsed = TRUE
  /\ retry = NoKey /\ retries = 0 /\ blocked = NoKey
  /\ timer = "off" /\ pool = NoPool /\ applied = 0 /\ bound = NoPool
  /\ ask = <<>> /\ answer = <<>> /\ unread = <<>>
  /\ pass = [t \in Task |-> NoPass]
  /\ \E b \in TargetBounds : changesLeft = b[1] /\ failuresLeft = b[2]

----------------------------------------------------------------------------
(* What a target depends on.                                                *)

Begin(t) == pass' = [pass EXCEPT ![t].pc = "wait"]
Fail == failuresLeft > 0 /\ failuresLeft' = failuresLeft - 1

\* EventMsg::RenderTargetCapabilities
Declare ==
  /\ changesLeft > 0
  /\ caps' = caps + 1 /\ changesLeft' = changesLeft - 1
  /\ unread' = Append(unread, "capabilities")
  /\ UNCHANGED <<demand, blacklist, refused, coordinator, timer, pools, bound, ask, answer, pass,
                 failuresLeft>>

\* sync_display binds the pool only if it is the one of the applied target
Synced == IF pool.gen = applied THEN pool ELSE bound

\* The display comes, leaves, or changes its metrics or placement
Demand ==
  /\ pass["request"] = NoPass /\ changesLeft > 0
  /\ demand' \in (Size \cup {Nothing}) \ {demand}
  /\ refused' = IF demand' = Nothing THEN {} ELSE refused
  /\ bound' = IF demand' = Nothing THEN NoPool ELSE IF demand = Nothing THEN Synced ELSE bound
  /\ changesLeft' = changesLeft - 1
  /\ Begin("request")
  /\ UNCHANGED <<caps, blacklist, coordinator, timer, pools, ask, answer, unread, failuresLeft>>

\* State::retry_allocation: may the target be tried again?
MayRetry == retries < 2
RetryAllocation(target) ==
  IF MayRetry THEN retries' = retries + 1 /\ retry' = TargetKey(target) /\ UNCHANGED blocked
  ELSE blocked' = TargetKey(target) /\ retry' = NoKey /\ UNCHANGED retries

\* on_consumer_import_failed: a failure that is not to be retried ends the connection
ImportFails ==
  /\ pass["display"] = NoPass /\ bound # NoPool /\ Fail
  /\ LET format == bound.target.format
         known == format \in refused
         current == bound.gen = applied
     IN  /\ IF current /\ ~known THEN RetryAllocation(queue.applied)
            ELSE UNCHANGED <<retry, retries, blocked>>
         /\ IF known \/ (current /\ MayRetry)
              THEN refused' = refused \cup {format} /\ UNCHANGED <<demand, bound>>
              ELSE refused' = {} /\ demand' = Nothing /\ bound' = NoPool
  /\ Begin("display")
  /\ UNCHANGED <<caps, blacklist, queue, sent, elapsed, timer, pools, ask, answer, unread,
                 changesLeft>>

----------------------------------------------------------------------------
(* reconcile_render_targets and coordinate_render_target.                   *)

Usable == {i \in DOMAIN Formats : Formats[i] \notin blacklist \cup refused}
Wanted ==
  IF caps = 0 \/ demand = Nothing \/ Usable = {} THEN NoTarget
  ELSE LET first == CHOOSE i \in Usable : \A j \in Usable : i <= j
       IN  [rev |-> caps, size |-> demand, format |-> Formats[first]]

NobodyRuns == Running = {}

Look(t) ==
  /\ pass[t].pc = "wait" /\ NobodyRuns
  /\ pass' = [pass EXCEPT ![t] = [pc |-> "configure", want |-> Wanted]]
  /\ UNCHANGED <<demands, coordinator, timer, pools, bound, ask, answer, unread, budget>>

PassGoes(t, pc) == pass' = [pass EXCEPT ![t].pc = pc]
Leaves(t) == pass' = [pass EXCEPT ![t] = NoPass]

\* Coordinator::deadline is some time, for the queue q
Pending(q) == q.desired # NoTarget /\ q.flight = NoTarget /\ q.desired \notin {q.applied, q.failed}

\* The capabilities have a newer revision than the target: an error
Outdated(t) ==
  /\ pass[t].pc = "configure"
  /\ pass[t].want # NoTarget /\ pass[t].want.rev # caps
  /\ timer' = IF timer = "on" THEN "off" ELSE timer
  /\ Leaves(t)
  /\ UNCHANGED <<demands, coordinator, pools, bound, ask, answer, unread, budget>>

Blocked(t) ==
  /\ pass[t].pc = "configure"
  /\ pass[t].want # NoTarget /\ pass[t].want.rev = caps /\ blocked = TargetKey(pass[t].want)
  /\ timer' = IF timer = "on" THEN "off" ELSE timer
  /\ Leaves(t)
  /\ UNCHANGED <<demands, coordinator, pools, bound, ask, answer, unread, budget>>

Configure(t) ==
  /\ pass[t].pc = "configure"
  /\ LET want == pass[t].want
         again == want # NoTarget /\ retry = TargetKey(want)
         desired == [queue EXCEPT !.desired = want]
         fresh == want # queue.desired
         ready == Pending(desired) /\ (again \/ ~sent \/ (elapsed /\ ~fresh))
     IN  /\ want # NoTarget => want.rev = caps /\ blocked # TargetKey(want)
         /\ blocked' = IF want = NoTarget THEN blocked ELSE NoKey
         /\ retries' = IF want # NoTarget /\ queue.desired # NoTarget /\ TargetKey(queue.desired) # TargetKey(want)
                         THEN 0 ELSE retries
         /\ retry' = NoKey
         /\ queue' = IF ready THEN [desired EXCEPT !.flight = want] ELSE desired
         /\ sent' = (sent \/ ready)
         /\ elapsed' = (elapsed /\ ~fresh /\ ~ready)
         /\ PassGoes(t, IF ready THEN "send" ELSE "deadline")
  /\ UNCHANGED <<demands, timer, pools, bound, ask, answer, unread, budget>>

Send(t) ==
  /\ pass[t].pc = "send"
  /\ ask' = Append(ask, pass[t].want)
  /\ PassGoes(t, "deadline")
  /\ UNCHANGED <<demands, coordinator, timer, pools, bound, answer, unread, budget>>

SetDeadline(t) ==
  /\ pass[t].pc = "deadline"
  /\ timer' = IF timer = "fired" THEN "fired" ELSE IF Pending(queue) THEN "on" ELSE "off"
  /\ Leaves(t)
  /\ UNCHANGED <<demands, coordinator, pools, bound, ask, answer, unread, budget>>

----------------------------------------------------------------------------
(* Time, the process, the reader and the event task.                        *)

DelayPasses ==
  /\ ~elapsed /\ elapsed' = TRUE
  /\ UNCHANGED <<demands, queue, sent, retry, retries, blocked, timer, pools, bound, ask, answer,
                 unread, pass, budget>>

DeadlineFires ==
  /\ timer = "on" /\ elapsed /\ timer' = "fired"
  /\ UNCHANGED <<demands, coordinator, pools, bound, ask, answer, unread, pass, budget>>

\* on_deadline_reached
Deadline ==
  /\ timer = "fired" /\ pass["deadlines"] = NoPass
  /\ timer' = "off"
  /\ Begin("deadlines")
  /\ UNCHANGED <<demands, coordinator, pools, bound, ask, answer, unread, budget>>

\* The process publishes a pool for the target, or cannot: status 3 blames the format (external)
Draw ==
  /\ ask # <<>> /\ ask' = Tail(ask)
  /\ answer' = answer \o <<[kind |-> "pool", target |-> Head(ask)], [kind |-> "result", status |-> 0]>>
  /\ UNCHANGED <<demands, coordinator, timer, pools, bound, unread, pass, budget>>

Refuse ==
  /\ ask # <<>> /\ ask' = Tail(ask) /\ Fail
  /\ \E status \in {1, 3} : answer' = Append(answer, [kind |-> "result", status |-> status])
  /\ UNCHANGED <<demands, coordinator, timer, pools, bound, unread, pass, changesLeft>>

Reads(kind, event) ==
  /\ answer # <<>> /\ Head(answer).kind = kind
  /\ answer' = Tail(answer)
  /\ unread' = Append(unread, event)

ReadPool ==
  /\ Reads("pool", "pool")
  /\ pool' = [gen |-> pool.gen + 1, target |-> Head(answer).target]
  /\ UNCHANGED <<demands, coordinator, timer, applied, bound, ask, pass, budget>>

ReadResult ==
  /\ Reads("result", "result")
  /\ LET target == queue.flight IN
       IF Head(answer).status = 0
         THEN /\ queue' = [queue EXCEPT !.flight = NoTarget, !.applied = target, !.failed = NoTarget]
              /\ applied' = pool.gen /\ retry' = NoKey
              /\ UNCHANGED <<retries, blocked, blacklist>>
         ELSE /\ queue' = [queue EXCEPT !.flight = NoTarget, !.failed = target]
              /\ IF Head(answer).status = 3
                   THEN blacklist' = blacklist \cup {target.format} /\ RetryAllocation(target)
                   ELSE UNCHANGED <<blacklist, retry, retries, blocked>>
              /\ UNCHANGED applied
  /\ UNCHANGED <<caps, demand, refused, sent, elapsed, timer, pool, bound, ask, pass, budget>>

\* Mutant: new capabilities lead to no pass
HandleEventBound ==
  /\ pass["events"] = NoPass /\ unread # <<>>
  /\ unread' = Tail(unread)
  /\ bound' = IF Head(unread) = "capabilities" \/ demand = Nothing THEN bound ELSE Synced
  /\ IF Head(unread) = "capabilities" THEN UNCHANGED pass ELSE Begin("events")
  /\ UNCHANGED <<demands, coordinator, timer, pools, ask, answer, budget>>

HandleEvent ==
  /\ pass["events"] = NoPass /\ unread # <<>>
  /\ unread' = Tail(unread)
  /\ bound' = IF Head(unread) = "capabilities" \/ demand = Nothing THEN bound ELSE Synced
  /\ Begin("events")
  /\ UNCHANGED <<demands, coordinator, timer, pools, ask, answer, budget>>

----------------------------------------------------------------------------
TargetNext ==
  \/ Declare \/ Demand \/ ImportFails
  \/ \E t \in Task : Look(t) \/ Outdated(t) \/ Blocked(t) \/ Configure(t) \/ Send(t) \/ SetDeadline(t)
  \/ DelayPasses \/ DeadlineFires \/ Deadline
  \/ Draw \/ Refuse \/ ReadPool \/ ReadResult \/ HandleEvent

TargetSpec == TargetInit /\ [][TargetNext]_targetVars

----------------------------------------------------------------------------
AtRest ==
  /\ \A t \in Task : pass[t] = NoPass
  /\ timer = "off" /\ ask = <<>> /\ answer = <<>> /\ unread = <<>>

(* When nothing is under way and no delay is waited for, the renderer draws *)
(* in the size and format that is wanted now, unless just that could not be *)
(* done, and the display shows the pool of the last target that was: no     *)
(* change that comes while a request is under way, or while the delay runs, *)
(* is forgotten, whatever fails meanwhile.                                  *)
TargetAtRest ==
  AtRest =>
    /\ Wanted # NoTarget =>
         Wanted \in {queue.applied, queue.failed} \/ blocked = TargetKey(Wanted)
    /\ demand # Nothing => bound.gen = applied /\ bound.target = queue.applied
=============================================================================
