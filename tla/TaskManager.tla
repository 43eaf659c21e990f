----------------------------- MODULE TaskManager -----------------------------
(***************************************************************************)
(* TaskManager (src/src/tasks.rs): the record of every task of the daemon, *)
(* its cancellation token, the keys under which only one task is to run,   *)
(* and the supervisor that runs the tasks and ends them at shutdown.       *)
(*                                                                         *)
(* Records, tokens and keys are behind three locks, so a call is a         *)
(* sequence of sections, each a step: c.todo and supervisor.todo are what  *)
(* is left of the call.  Names, progress reports and events are left out.  *)
(***************************************************************************)
EXTENDS Naturals, Sequences, FiniteSets, SequencesExt

CONSTANTS
    Caller,     \* threads that submit and cancel tasks
    Mixes,      \* sets of calls that are made together
    MaxTask,    \* bound on the tasks submitted
    Cap         \* TRIM_FINISHED_ABOVE

\* Each of the calls that take a key has one of its own, as the keys of the daemon have
Key == {"unique", "once", "progress"}

ASSUME TaskCallers == IsFiniteSet(Caller)
ASSUME TaskBounds == MaxTask \in Nat /\ Cap \in Nat
ASSUME TaskCalls == Mixes \subseteq SUBSET (Key \cup {"async", "service", "blocking", "cancel", "shutdown"})

Task == 1 .. MaxTask

VARIABLES
    calls,       \* the mix of this behaviour
    reg,         \* what the three locks protect: the records, the tokens and the keys
    tasks,       \* kind of the tasks submitted
    channel,     \* messages to the supervisor
    joinSet,     \* what the supervisor runs and how it came out
    supervisor,
    caller,
    shutdown     \* the daemon is shutting down

running == <<calls, channel, joinSet, supervisor>>
vars == <<reg, tasks, running, caller, shutdown>>

Idle == [todo |-> <<>>, id |-> 0, kind |-> "none", prev |-> 0]

\* state: of each task, "none" without a record.  tripped: tasks whose token was cancelled.
\* keys: task under each key, 0 for none.  holder: who holds the lock of the keys
\* across sections
Init ==
    /\ calls \in Mixes
    /\ reg = [state |-> [i \in Task |-> "none"], tokens |-> {}, tripped |-> {},
              keys |-> [k \in Key |-> 0], holder |-> {}]
    /\ tasks = <<>>
    /\ channel = <<>>
    /\ joinSet = [i \in Task |-> "absent"]
    /\ supervisor = [phase |-> "loop", todo |-> <<>>, id |-> 0, ids |-> {}]
    /\ caller = [c \in Caller |-> Idle]
    /\ shutdown = FALSE

-----------------------------------------------------------------------------
Running(i) == i # 0 /\ reg.state[i] = "running"
Known == {i \in Task : reg.state[i] # "none"}
Settle(i, state) == reg' = [reg EXCEPT !.state[i] = IF @ = "none" THEN @ ELSE state]
DropToken(i) == reg' = [reg EXCEPT !.tokens = @ \ {i}]
ForgetKey(i) == reg' = [reg EXCEPT !.keys = [k \in Key |-> IF @[k] = i THEN 0 ELSE @[k]]]
SetCancelled(i) == IF Running(i) THEN Settle(i, "cancelled") ELSE UNCHANGED reg

\* The oldest finished records that have to go when there are more than Cap
Trimmed(recs) ==
    LET there == {i \in Task : recs[i] # "none"}
        excess == IF Cardinality(there) > Cap THEN Cardinality(there) - Cap ELSE 0
        finished == {i \in there : recs[i] # "running"}
    IN  {i \in finished : Cardinality({j \in finished : j < i}) < excess}

-----------------------------------------------------------------------------
(* Calls. *)

Call(c, kind) == caller[c] = Idle /\ kind \in calls
Begin(c, kind, sections) == caller' = [caller EXCEPT ![c] = [Idle EXCEPT !.kind = kind, !.todo = sections]]

\* MaxTask bounds the submissions
Room == Len(tasks) + Cardinality({c \in Caller : caller[c].kind # "none" /\ caller[c].id = 0}) < MaxTask

Submission == <<"new", "record", "send">>

\* spawn_async and spawn_blocking
Spawn(c) ==
    /\ Room
    /\ \E kind \in {"async", "service", "blocking"} : Call(c, kind) /\ Begin(c, kind, Submission)
    /\ UNCHANGED <<reg, tasks, running, shutdown>>

SpawnUnique(c) ==
    /\ Room /\ Call(c, "unique")
    /\ Begin(c, "unique", <<"prev">> \o Submission \o <<"key">>)
    /\ UNCHANGED <<reg, tasks, running, shutdown>>

\* Mutant: the lock is released once the state of the task has been read
SpawnOnceUnlocked(c) ==
    /\ Room /\ Call(c, "once")
    /\ reg.holder = {} /\ ~Running(reg.keys["once"])
    /\ Begin(c, "once", Submission \o <<"key">>)
    /\ UNCHANGED <<reg, tasks, running, shutdown>>

\* The lock of the keys is held to the end
SpawnOnce(c) ==
    /\ Room /\ Call(c, "once")
    /\ reg.holder = {} /\ ~Running(reg.keys["once"])
    /\ Begin(c, "once", Submission \o <<"key">>)
    /\ reg' = [reg EXCEPT !.holder = {c}]
    /\ UNCHANGED <<tasks, running, shutdown>>

SpawnProgress(c) ==
    /\ Room /\ Call(c, "progress")
    /\ Begin(c, "progress", <<"find", "new", "record", "key", "send">>)
    /\ UNCHANGED <<reg, tasks, running, shutdown>>

\* cancel, of any task that list() shows
Cancel(c) ==
    /\ Call(c, "cancel")
    /\ \E i \in Known : caller' = [caller EXCEPT ![c] = [Idle EXCEPT !.todo = <<"trip">>, !.prev = i]]
    /\ UNCHANGED <<reg, tasks, running, shutdown>>

Shutdown ==
    /\ "shutdown" \in calls /\ ~shutdown
    /\ shutdown' = TRUE
    /\ UNCHANGED <<reg, tasks, running, caller>>

-----------------------------------------------------------------------------
(* Sections of the calls. *)

At(c, section) == caller[c].todo # <<>> /\ Head(caller[c].todo) = section
MayUseKeys(c) == reg.holder \subseteq {c}
Rest(c) == Tail(caller[c].todo)

\* The caller goes on with `todo`; a call that is over leaves nothing behind
Continue(c, me, todo) ==
    caller' = [caller EXCEPT ![c] = IF todo = <<>> THEN Idle ELSE [me EXCEPT !.todo = todo]]

ReadPrevious(c) ==
    /\ At(c, "prev") /\ MayUseKeys(c)
    /\ LET p == reg.keys[caller[c].kind]
       IN  Continue(c, [caller[c] EXCEPT !.prev = p], (IF p = 0 THEN <<>> ELSE <<"trip">>) \o Rest(c))
    /\ UNCHANGED <<reg, tasks, running, shutdown>>

\* cancel: the token first ...
TripToken(c) ==
    /\ At(c, "trip")
    /\ LET p == caller[c].prev
       IN  IF p \in reg.tokens
             THEN reg' = [reg EXCEPT !.tripped = @ \cup {p}] /\ Continue(c, caller[c], <<"mark">> \o Rest(c))
             ELSE UNCHANGED reg /\ Continue(c, caller[c], Rest(c))
    /\ UNCHANGED <<tasks, running, shutdown>>

\* ... then the record
MarkCancelled(c) ==
    /\ At(c, "mark")
    /\ SetCancelled(caller[c].prev)
    /\ Continue(c, caller[c], Rest(c))
    /\ UNCHANGED <<tasks, running, shutdown>>

\* running_unique_task_id: a key whose task has ended is removed
FindRunning(c) ==
    /\ At(c, "find") /\ MayUseKeys(c)
    /\ LET p == reg.keys[caller[c].kind]
       IN  Continue(c, [caller[c] EXCEPT !.prev = p], (IF p = 0 THEN <<>> ELSE <<"state">>) \o Rest(c))
    /\ UNCHANGED <<reg, tasks, running, shutdown>>

ReadState(c) ==
    /\ At(c, "state")
    /\ Continue(c, caller[c], IF Running(caller[c].prev) THEN <<>> ELSE <<"unkey">> \o Rest(c))
    /\ UNCHANGED <<reg, tasks, running, shutdown>>

RemoveKey(c) ==
    /\ At(c, "unkey") /\ MayUseKeys(c)
    /\ reg' = [reg EXCEPT !.keys[caller[c].kind] = 0]
    /\ Continue(c, caller[c], Rest(c))
    /\ UNCHANGED <<tasks, running, shutdown>>

\* The identifier, and the token of an asynchronous task
NewTask(c) ==
    /\ At(c, "new")
    /\ LET i == Len(tasks) + 1
       IN  /\ tasks' = Append(tasks, caller[c].kind)
           /\ reg' = [reg EXCEPT !.tokens = IF caller[c].kind = "blocking" THEN @ ELSE @ \cup {i}]
           /\ Continue(c, [caller[c] EXCEPT !.id = i], Rest(c))
    /\ UNCHANGED <<running, shutdown>>

\* record_started
RecordStarted(c) ==
    /\ At(c, "record")
    /\ LET recs == [reg.state EXCEPT ![caller[c].id] = "running"]
       IN  reg' = [reg EXCEPT !.state = [i \in Task |-> IF i \in Trimmed(recs) THEN "none" ELSE recs[i]]]
    /\ Continue(c, caller[c], Rest(c))
    /\ UNCHANGED <<tasks, running, shutdown>>

\* Mutant: a message that cannot be sent is forgotten
SendTaskForgets(c) ==
    /\ At(c, "send")
    /\ channel' = IF supervisor.phase = "loop" THEN Append(channel, caller[c].id) ELSE channel
    /\ Continue(c, caller[c], Rest(c))
    /\ UNCHANGED <<calls, reg, tasks, joinSet, supervisor, shutdown>>

\* The supervisor may be gone
SendTask(c) ==
    /\ At(c, "send")
    /\ IF supervisor.phase = "loop"
         THEN /\ channel' = Append(channel, caller[c].id)
              /\ Continue(c, caller[c], Rest(c))
         ELSE /\ UNCHANGED channel
              /\ Continue(c, caller[c], (IF caller[c].kind = "progress" THEN <<"drop", "unlist", "fail">>
                                         ELSE <<"drop", "fail">>) \o Rest(c))
    /\ UNCHANGED <<calls, reg, tasks, joinSet, supervisor, shutdown>>

DropOwnToken(c) ==
    /\ At(c, "drop")
    /\ DropToken(caller[c].id)
    /\ Continue(c, caller[c], Rest(c))
    /\ UNCHANGED <<tasks, running, shutdown>>

UnlistKey(c) ==
    /\ At(c, "unlist") /\ MayUseKeys(c)
    /\ ForgetKey(caller[c].id)
    /\ Continue(c, caller[c], Rest(c))
    /\ UNCHANGED <<tasks, running, shutdown>>

\* finalize
FinalizeFailed(c) ==
    /\ At(c, "fail")
    /\ Settle(caller[c].id, "failed")
    /\ Continue(c, caller[c], Rest(c))
    /\ UNCHANGED <<tasks, running, shutdown>>

InsertKey(c) ==
    /\ At(c, "key") /\ MayUseKeys(c)
    /\ reg' = [reg EXCEPT !.keys[caller[c].kind] = caller[c].id, !.holder = {}]
    /\ Continue(c, caller[c], Rest(c))
    /\ UNCHANGED <<tasks, running, shutdown>>

-----------------------------------------------------------------------------
(* Tasks end by themselves, by their token, or by a panic; a blocking one has no token. *)

TaskEnds(i) ==
    /\ joinSet[i] = "runs"
    /\ \E end \in {"completed", "failed", "lost"} : joinSet' = [joinSet EXCEPT ![i] = end]
    /\ UNCHANGED <<calls, reg, tasks, channel, supervisor, caller, shutdown>>

TaskCancelled(i) ==
    /\ joinSet[i] = "runs" /\ i \in reg.tripped
    /\ joinSet' = [joinSet EXCEPT ![i] = "failed"]
    /\ UNCHANGED <<calls, reg, tasks, channel, supervisor, caller, shutdown>>

-----------------------------------------------------------------------------
(* The supervisor. *)

In(phases) == supervisor.phase \in phases /\ supervisor.todo = <<>>
Due(section) == supervisor.todo # <<>> /\ Head(supervisor.todo) = section
GoOn(todo) == supervisor' = [supervisor EXCEPT !.todo = todo, !.id = IF todo = <<>> THEN 0 ELSE @]
Done == GoOn(Tail(supervisor.todo))
Finished == {i \in Task : joinSet[i] \in {"completed", "failed", "lost"}}
Held == {i \in Task : joinSet[i] # "absent"}
KeysFree == reg.holder = {}

Mark == <<"token", "key", "cancel">>

TakeMessage ==
    /\ In({"loop"}) /\ channel # <<>>
    /\ joinSet' = [joinSet EXCEPT ![Head(channel)] = "runs"]
    /\ channel' = Tail(channel)
    /\ UNCHANGED <<calls, reg, tasks, supervisor, caller, shutdown>>

\* handle_join; a task that panicked or was aborted does not say who it was
JoinNext ==
    /\ In({"loop", "drain", "abort"})
    /\ supervisor.phase = "loop" => channel = <<>>
    /\ \E i \in Finished :
         /\ joinSet' = [joinSet EXCEPT ![i] = "absent"]
         /\ supervisor' = IF joinSet[i] = "lost" THEN supervisor
                          ELSE [supervisor EXCEPT !.id = i, !.todo = <<"token", "key", "check", joinSet[i]>>]
    /\ UNCHANGED <<calls, reg, tasks, channel, caller, shutdown>>

CollectToken ==
    /\ Due("token")
    /\ DropToken(supervisor.id)
    /\ Done
    /\ UNCHANGED <<calls, tasks, channel, joinSet, caller, shutdown>>

CollectKey ==
    /\ Due("key") /\ KeysFree
    /\ ForgetKey(supervisor.id)
    /\ Done
    /\ UNCHANGED <<calls, tasks, channel, joinSet, caller, shutdown>>

\* A record that is already cancelled stays so
CheckCancelled ==
    /\ Due("check")
    /\ GoOn(IF reg.state[supervisor.id] = "cancelled" THEN <<>> ELSE Tail(supervisor.todo))
    /\ UNCHANGED <<calls, reg, tasks, channel, joinSet, caller, shutdown>>

WriteOutcome ==
    /\ \E end \in {"completed", "failed"} : Due(end) /\ Settle(supervisor.id, end)
    /\ Done
    /\ UNCHANGED <<calls, tasks, channel, joinSet, caller, shutdown>>

\* set_cancelled
SupervisorCancels ==
    /\ Due("cancel")
    /\ SetCancelled(supervisor.id)
    /\ Done
    /\ UNCHANGED <<calls, tasks, channel, joinSet, caller, shutdown>>

SupervisorTrips ==
    /\ Due("trip")
    /\ reg' = [reg EXCEPT !.tripped = @ \cup ({supervisor.id} \cap reg.tokens)]
    /\ Done
    /\ UNCHANGED <<calls, tasks, channel, joinSet, caller, shutdown>>

\* The channel is closed and what lies in it is cancelled
CloseChannel ==
    /\ In({"loop"}) /\ shutdown
    /\ supervisor' = [supervisor EXCEPT !.phase = "flush"]
    /\ UNCHANGED <<calls, reg, tasks, channel, joinSet, caller, shutdown>>

FlushMessage ==
    /\ In({"flush"}) /\ channel # <<>>
    /\ channel' = Tail(channel)
    /\ supervisor' = [supervisor EXCEPT !.id = Head(channel), !.todo = Mark]
    /\ UNCHANGED <<calls, reg, tasks, joinSet, caller, shutdown>>

\* cancel_non_service and cancel_all_running list the running tasks, then cancel each
ListRunning(from, to, ids) ==
    /\ In({from})
    /\ supervisor' = [supervisor EXCEPT !.phase = to, !.ids = ids]
    /\ UNCHANGED <<calls, reg, tasks, channel, joinSet, caller, shutdown>>

CancelNext(phase, next, sections) ==
    /\ In({phase})
    /\ IF supervisor.ids = {}
         THEN supervisor' = [supervisor EXCEPT !.phase = next]
         ELSE \E i \in supervisor.ids :
                supervisor' = [supervisor EXCEPT !.ids = @ \ {i}, !.id = i, !.todo = sections]
    /\ UNCHANGED <<calls, reg, tasks, channel, joinSet, caller, shutdown>>

CancelNonService ==
    \/ channel = <<>> /\ ListRunning("flush", "others",
                                     {i \in Task : Running(i) /\ tasks[i] # "service"})
    \/ CancelNext("others", "drain", <<"trip", "cancel">>)

\* SHUTDOWN_DEADLINE has passed: abort_all does not reach a blocking task
AbortAll ==
    /\ In({"drain"}) /\ Held # {}
    /\ supervisor' = [supervisor EXCEPT !.phase = "abort"]
    /\ joinSet' = [i \in Task |-> IF joinSet[i] = "runs" /\ tasks[i] # "blocking" THEN "lost"
                                  ELSE joinSet[i]]
    /\ UNCHANGED <<calls, reg, tasks, channel, caller, shutdown>>

CancelAllRunning ==
    \/ Held = {} /\ \E p \in {"drain", "abort"} : ListRunning(p, "rest", {i \in Task : Running(i)})
    \/ CancelNext("rest", "stopped", Mark)

-----------------------------------------------------------------------------
CallerStep(c) ==
    \/ ReadPrevious(c) \/ TripToken(c) \/ MarkCancelled(c) \/ FindRunning(c) \/ ReadState(c)
    \/ RemoveKey(c) \/ NewTask(c) \/ RecordStarted(c) \/ SendTask(c) \/ DropOwnToken(c) \/ UnlistKey(c)
    \/ FinalizeFailed(c) \/ InsertKey(c)

SupervisorStep ==
    \/ TakeMessage \/ JoinNext \/ CollectToken \/ CollectKey \/ CheckCancelled \/ WriteOutcome
    \/ SupervisorCancels \/ SupervisorTrips \/ CloseChannel \/ FlushMessage \/ CancelNonService
    \/ AbortAll \/ CancelAllRunning

\* The supervisor has stopped and nobody is in a call
Stopped ==
    /\ supervisor.phase = "stopped" /\ \A c \in Caller : caller[c] = Idle
    /\ UNCHANGED vars

Next ==
    \/ \E c \in Caller : Spawn(c) \/ SpawnUnique(c) \/ SpawnOnce(c)
                         \/ SpawnProgress(c) \/ Cancel(c) \/ CallerStep(c)
    \/ Shutdown
    \/ \E i \in Task : TaskEnds(i) \/ TaskCancelled(i)
    \/ SupervisorStep
    \/ Stopped

\* Threads and the supervisor go on, and a function that blocks returns
Fairness ==
    /\ \A c \in Caller : WF_vars(CallerStep(c))
    /\ WF_vars(SupervisorStep)
    /\ \A i \in Task : WF_vars(joinSet[i] = "runs" /\ tasks[i] = "blocking" /\ TaskEnds(i))

Spec == Init /\ [][Next]_vars

-----------------------------------------------------------------------------
\* The supervisor has been given task i, or will be, and nobody has cancelled it
Active(i) ==
    /\ i \notin reg.tripped /\ reg.state[i] # "cancelled"
    /\ i \in Range(channel) \/ joinSet[i] = "runs"

ActiveOf(kind) == {i \in DOMAIN tasks : tasks[i] = kind /\ Active(i)}

\* Of the downloads and updates submitted under a key with spawn_async_once at most one
\* is at work, whoever submits them, cancels them and finishes them meanwhile: the state
\* of the task is looked up and the key is written under locks that others take, too.
OnceExclusive == \A i, j \in ActiveOf("once") : i = j

\* Shutdown gets to its end, and then no task is recorded as running for ever, not even
\* one that was submitted while the supervisor was leaving.
ShutdownSettles ==
    shutdown ~> [](/\ supervisor.phase = "stopped"
                   /\ (\A c \in Caller : caller[c] = Idle) => \A i \in Task : ~Running(i))
=============================================================================
