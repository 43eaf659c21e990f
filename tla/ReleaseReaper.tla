--------------------------- MODULE ReleaseReaper ---------------------------
(***************************************************************************)
(* Release of a frame back to its producer.                                *)
(*                                                                         *)
(* One renderer process publishes frames 1, 2, 3, ... and hands each to    *)
(* several displays.  The producer may draw into the buffer again when the *)
(* release timeline of the process reaches the frame's point, and the task *)
(* that advances the timeline, the reaper (sync/reaper.rs), may do so only *)
(* when every display that got the frame is finished with it.  The parties *)
(*                                                                         *)
(*   router    registers a frame with the set of sessions it fans out to   *)
(*   endpoint  one per display session: forwards frames, relays arms,      *)
(*             closes the session (display/endpoint.rs)                    *)
(*   client    the display process and its GPU (external): attaches a      *)
(*             fence to the release syncobj and then sends                 *)
(*             frame_release_armed                                         *)
(*   reaper    the task that consumes the records of all of them           *)
(*   workers   one blocking thread per dispatched frame                    *)
(*                                                                         *)
(* run concurrently.  A consumer <<p, s>> is frame p at session s.         *)
(***************************************************************************)
EXTENDS Naturals, Sequences, FiniteSets

CONSTANTS
    Sessions,       \* display sessions; an id is never used twice
    LegacySessions, \* sessions whose frames are delivered with requires_arm = false
    RudeSessions,   \* sessions whose client may arm before it submits a fence
    MaxPoint,       \* bound: frames the producer publishes
    SyncobjFirst,   \* does the renderer send its timeline before its first frame?
    DrmErrors,      \* may a DRM ioctl of the daemon fail?
    FrameLoss       \* may the router miss a frame (broadcast receiver lagged)?

ASSUME LegacyAssumption == LegacySessions \subseteq Sessions
ASSUME RudeAssumption   == RudeSessions \subseteq Sessions
ASSUME PointAssumption  == MaxPoint \in Nat
ASSUME FaultAssumption  == /\ SyncobjFirst \in BOOLEAN /\ DrmErrors \in BOOLEAN
                           /\ FrameLoss \in BOOLEAN

Points    == 1 .. MaxPoint
Consumers == Points \X Sessions

VARIABLES
    nextFrame,   \* release point of the producer's next frame
    retired,     \* every Arc of the renderer handle (and its sender) is dropped
    token,       \* FrameConsumerMember of each consumer, as its holder sees it
    arms,        \* consumers whose FrameConsumerArm the endpoint still keeps
    sess,        \* endpoint of each session
    engaged,     \* sessions whose endpoint keeps a FrameConsumerSession
    fence,       \* kernel state of each consumer's release syncobj
    late,        \* consumers whose fence was submitted after the session closed
    chan,        \* the reaper's mpsc channel of FrameRecords
    bucket,      \* buckets: absent, phantom (members = None) or registered
    member,      \* MemberState of each consumer in its bucket
    closedSessions, \* set shared between reaper and workers
    worker,      \* blocking worker of each dispatched frame
    wait,        \* ConsumerWait of each consumer of a dispatched frame
    comp,        \* completion of each frame, in the completion channel
    nextPoint,   \* ReleaseFrontier.next_point; points below it are published
    ready,       \* ReleaseFrontier.ready
    producerFd,  \* the renderer's ReleaseSyncobj event has been received
    imported,    \* producer_handle.is_some()
    reaper,      \* the task itself
    blamed,      \* consumer named by the GenerationPoisoned event, if any
    fact         \* last ReleaseEvent sent about each consumer

producerVars == <<nextFrame, retired, producerFd>>
endpointVars == <<token, arms, sess, engaged>>
clientVars   == <<fence, late>>
bucketVars   == <<bucket, member, closedSessions>>
workerVars   == <<worker, wait>>
frontierVars == <<nextPoint, ready, imported>>
reaperVars   == <<reaper, blamed, fact>>
vars == <<producerVars, endpointVars, clientVars, chan, bucketVars,
          workerVars, comp, frontierVars, reaperVars>>

-----------------------------------------------------------------------------
(* Records of the channel. *)

Register(p, S)  == [kind |-> "Register", point |-> p, sessions |-> S]
Delivered(p, s) == [kind |-> "Delivered", point |-> p, session |-> s]
Armed(p, s)     == [kind |-> "Armed", point |-> p, session |-> s]
Skipped(p, s)   == [kind |-> "Skipped", point |-> p, session |-> s]
Closed(s)       == [kind |-> "Closed", session |-> s]

Records ==
    [kind : {"Register"}, point : Points, sessions : SUBSET Sessions]
      \cup [kind : {"Delivered", "Armed", "Skipped"}, point : Points, session : Sessions]
      \cup [kind : {"Closed"}, session : Sessions]

\* tx.send: a record sent after the reaper returned is dropped with the channel
Send(r) == chan' = IF reaper = "running" THEN Append(chan, r) ELSE chan

Init ==
    /\ nextFrame = 1
    /\ retired = FALSE
    /\ token = [c \in Consumers |-> "none"]
    /\ arms = {}
    /\ sess = [s \in Sessions |-> "open"]
    /\ engaged = {}
    /\ fence = [c \in Consumers |-> "unsubmitted"]
    /\ late = {}
    /\ chan = <<>>
    /\ bucket = [p \in Points |-> "absent"]
    /\ member = [c \in Consumers |-> "none"]
    /\ closedSessions = {}
    /\ worker = [p \in Points |-> "none"]
    /\ wait = [c \in Consumers |-> "none"]
    /\ comp = [p \in Points |-> "none"]
    /\ nextPoint = 1
    /\ ready = {}
    /\ producerFd = FALSE
    /\ imported = FALSE
    /\ reaper = "running"
    /\ blamed = {}
    /\ fact = [c \in Consumers |-> "none"]

-----------------------------------------------------------------------------
(* Producer and router. *)

\* The reader thread stores the renderer's release timeline
ReleaseSyncobjArrives ==
    /\ ~retired /\ ~producerFd
    /\ producerFd' = TRUE
    /\ UNCHANGED <<nextFrame, retired, endpointVars, clientVars, chan, bucketVars,
                   workerVars, comp, frontierVars, reaperVars>>

\* on_renderer_frame: register the frame, then queue one member per recipient.
\* S is the outcome of the router's demand and binding filters.
RegisterFrame(S) ==
    /\ ~retired /\ nextFrame <= MaxPoint
    /\ S \subseteq {s \in Sessions : sess[s] # "gone"}
    /\ SyncobjFirst => producerFd
    /\ reaper = "running"
    /\ Send(Register(nextFrame, S))
    /\ token' = [c \in Consumers |->
                   IF c[1] = nextFrame /\ c[2] \in S THEN "held" ELSE token[c]]
    /\ nextFrame' = nextFrame + 1
    /\ UNCHANGED <<retired, producerFd, arms, sess, engaged, clientVars, bucketVars,
                   workerVars, comp, frontierVars, reaperVars>>

\* The frame never reaches the reaper: the broadcast receiver lagged, or the
\* reaper is gone and register_frame fails with "reaper channel closed"
FrameNotRegistered ==
    /\ ~retired /\ nextFrame <= MaxPoint
    /\ FrameLoss \/ reaper # "running"
    /\ nextFrame' = nextFrame + 1
    /\ UNCHANGED <<retired, producerFd, endpointVars, clientVars, chan, bucketVars,
                   workerVars, comp, frontierVars, reaperVars>>

\* The process generation is evicted and the last Arc of its handle dropped
RetireProducer ==
    /\ ~retired
    /\ retired' = TRUE
    /\ UNCHANGED <<nextFrame, producerFd, endpointVars, clientVars, chan, bucketVars,
                   workerVars, comp, frontierVars, reaperVars>>

-----------------------------------------------------------------------------
(* Endpoint of a display session. *)

\* The display channel is a queue: the endpoint works on the oldest frame
Oldest(p, s) == /\ token[<<p, s>>] = "held"
                /\ \A q \in Points : q < p => token[<<q, s>>] # "held"

\* forward_frame_ready succeeds: frame_ready is on the wire, the member becomes
\* a Delivered record and, if the client must arm, an arm handle
ForwardFrame(p, s) ==
    /\ sess[s] = "open" /\ Oldest(p, s)
    /\ token' = [token EXCEPT ![<<p, s>>] = "delivered"]
    /\ engaged' = engaged \cup {s}
    /\ arms' = IF s \in LegacySessions THEN arms ELSE arms \cup {<<p, s>>}
    /\ Send(Delivered(p, s))
    /\ UNCHANGED <<sess, producerVars, clientVars, bucketVars, workerVars, comp,
                   frontierVars, reaperVars>>

\* forward_frame_ready finds the consumption permit stale: member.skip()
SkipFrame(p, s) ==
    /\ sess[s] = "open" /\ Oldest(p, s)
    /\ token' = [token EXCEPT ![<<p, s>>] = "skipped"]
    /\ Send(Skipped(p, s))
    /\ UNCHANGED <<arms, sess, engaged, producerVars, clientVars, bucketVars,
                   workerVars, comp, frontierVars, reaperVars>>

\* Mutant: pending_arms.get instead of pending_arms.remove
RelayArmKeepsArm(p, s) ==
    /\ sess[s] = "open" /\ <<p, s>> \in arms
    /\ s \in RudeSessions \/ fence[<<p, s>>] # "unsubmitted"
    /\ Send(Armed(p, s))
    /\ UNCHANGED <<token, arms, sess, engaged, producerVars, clientVars, bucketVars,
                   workerVars, comp, frontierVars, reaperVars>>

\* The client's frame_release_armed reaches the loop, which spends the arm
RelayArm(p, s) ==
    /\ sess[s] = "open" /\ <<p, s>> \in arms
    /\ s \in RudeSessions \/ fence[<<p, s>>] # "unsubmitted"
    /\ arms' = arms \ {<<p, s>>}
    /\ Send(Armed(p, s))
    /\ UNCHANGED <<token, sess, engaged, producerVars, clientVars, bucketVars,
                   workerVars, comp, frontierVars, reaperVars>>

\* Mutant: the endpoint ends and keeps its FrameConsumerSession
CloseSessionKeepsSender(s) ==
    /\ sess[s] = "open"
    /\ sess' = [sess EXCEPT ![s] = "closed"]
    /\ arms' = {c \in arms : c[2] # s}
    /\ IF s \in engaged THEN Send(Closed(s)) ELSE UNCHANGED chan
    /\ UNCHANGED <<token, engaged, producerVars, clientVars, bucketVars, workerVars, comp,
                   frontierVars, reaperVars>>

\* The frame loop ends (disconnect, protocol violation, send error, shutdown):
\* pending_arms.clear(), then SessionClosed to every reaper it delivered for
CloseSession(s) ==
    /\ sess[s] = "open"
    /\ sess' = [sess EXCEPT ![s] = "closed"]
    /\ arms' = {c \in arms : c[2] # s}
    /\ engaged' = engaged \ {s}
    /\ IF s \in engaged THEN Send(Closed(s)) ELSE UNCHANGED chan
    /\ UNCHANGED <<token, producerVars, clientVars, bucketVars, workerVars, comp,
                   frontierVars, reaperVars>>

\* The display channel is dropped, or a send into it fails: Drop of the member
DropFrame(p, s) ==
    /\ sess[s] # "open" /\ Oldest(p, s)
    /\ token' = [token EXCEPT ![<<p, s>>] = "skipped"]
    /\ Send(Skipped(p, s))
    /\ UNCHANGED <<arms, sess, engaged, producerVars, clientVars, bucketVars,
                   workerVars, comp, frontierVars, reaperVars>>

\* unregister_display: the router no longer chooses the session
UnregisterDisplay(s) ==
    /\ sess[s] = "closed"
    /\ sess' = [sess EXCEPT ![s] = "gone"]
    /\ UNCHANGED <<token, arms, engaged, producerVars, clientVars, chan, bucketVars,
                   workerVars, comp, frontierVars, reaperVars>>

-----------------------------------------------------------------------------
(* Display client and GPU: external, as the protocol asks of them.  A client *)
(* may still submit after the daemon closed its session.                     *)

SubmitFence(c) ==
    /\ token[c] = "delivered" /\ fence[c] = "unsubmitted"
    /\ fence' = [fence EXCEPT ![c] = "pending"]
    /\ late' = IF sess[c[2]] = "open" THEN late ELSE late \cup {c}
    /\ UNCHANGED <<producerVars, endpointVars, chan, bucketVars, workerVars, comp,
                   frontierVars, reaperVars>>

SignalFence(c) ==
    /\ fence[c] = "pending"
    /\ fence' = [fence EXCEPT ![c] = "signaled"]
    /\ UNCHANGED <<late, producerVars, endpointVars, chan, bucketVars, workerVars,
                   comp, frontierVars, reaperVars>>

-----------------------------------------------------------------------------
(* Reaper: records. *)

Receive(r) == /\ reaper = "running" /\ chan # <<>> /\ Head(chan) = r
              /\ chan' = Tail(chan)

\* cancelled.store(true), GenerationPoisoned event, return (drops the channel)
Poison(c) == /\ reaper' = "poisoned" /\ blamed' = {c}
             /\ chan' = <<>>

\* Bucket::ready over the updated bucket map b and member map m
ReadyPoints(b, m) ==
    {p \in Points : /\ b[p] = "registered"
                    /\ \A s \in Sessions :
                          m[<<p, s>>] \in {"none", "Armed", "ArmedLegacy", "Skipped"}}

HasWaits(m, p) == \E s \in Sessions : m[<<p, s>>] \in {"Armed", "ArmedLegacy"}

\* Mutant: ready buckets are dispatched and stay in the map
UpdateBucketsKeepsReady(b, m) ==
    LET D == ReadyPoints(b, m)
    IN  /\ bucket' = b
        /\ member' = [c \in Consumers |-> IF c[1] \in D THEN "none" ELSE m[c]]
        /\ wait' = [c \in Consumers |->
                      CASE c[1] \in D /\ m[c] = "Armed" -> "real"
                        [] c[1] \in D /\ m[c] = "ArmedLegacy" -> "legacy"
                        [] OTHER -> wait[c]]
        /\ worker' = [p \in Points |->
                        IF p \in D /\ HasWaits(m, p) THEN "scan" ELSE worker[p]]
        /\ comp' = [p \in Points |->
                      IF p \in D /\ ~HasWaits(m, p) THEN "resolved" ELSE comp[p]]

\* Store b and m, then remove every ready bucket and dispatch it: a worker for
\* the armed members, or at once a signaled syncobj when there are none.
UpdateBuckets(b, m) ==
    LET D == ReadyPoints(b, m)
    IN  \E failed \in SUBSET {p \in D : DrmErrors /\ ~HasWaits(m, p)} :
          /\ bucket' = [p \in Points |-> IF p \in D THEN "absent" ELSE b[p]]
          /\ member' = [c \in Consumers |-> IF c[1] \in D THEN "none" ELSE m[c]]
          /\ wait' = [c \in Consumers |->
                        CASE c[1] \in D /\ m[c] = "Armed" -> "real"
                          [] c[1] \in D /\ m[c] = "ArmedLegacy" -> "legacy"
                          [] OTHER -> wait[c]]
          /\ worker' = [p \in Points |->
                          IF p \in D /\ HasWaits(m, p) THEN "scan" ELSE worker[p]]
          /\ comp' = [p \in Points |->
                        IF p \in D /\ ~HasWaits(m, p)
                          THEN IF p \in failed THEN "failed" ELSE "resolved"
                          ELSE comp[p]]

\* member_mut succeeds and the member is in state st
InState(p, s, st) == bucket[p] = "registered" /\ member[<<p, s>>] = st

ReapRegister(p, S) ==
    /\ Receive(Register(p, S))
    /\ bucket[p] # "registered"
    /\ UpdateBuckets([bucket EXCEPT ![p] = "registered"],
                     [c \in Consumers |-> IF c[1] = p /\ c[2] \in S THEN "Queued"
                                                                  ELSE member[c]])
    /\ UNCHANGED <<producerVars, endpointVars, clientVars, closedSessions,
                   frontierVars, reaperVars>>

ReapDelivered(p, s) ==
    /\ Receive(Delivered(p, s))
    /\ InState(p, s, "Queued")
    /\ UpdateBuckets(bucket, [member EXCEPT ![<<p, s>>] =
                        IF s \in LegacySessions THEN "ArmedLegacy" ELSE "DeliveredUnarmed"])
    /\ fact' = [fact EXCEPT ![<<p, s>>] =
                  IF s \in LegacySessions THEN "armed" ELSE "unarmed"]
    /\ UNCHANGED <<producerVars, endpointVars, clientVars, closedSessions,
                   frontierVars, reaper, blamed>>

ReapArmed(p, s) ==
    /\ Receive(Armed(p, s))
    /\ InState(p, s, "DeliveredUnarmed") /\ fence[<<p, s>>] # "unsubmitted"
    /\ UpdateBuckets(bucket, [member EXCEPT ![<<p, s>>] = "Armed"])
    /\ fact' = [fact EXCEPT ![<<p, s>>] = "armed"]
    /\ UNCHANGED <<producerVars, endpointVars, clientVars, closedSessions,
                   frontierVars, reaper, blamed>>

\* Every frame_release_armed error on a registered member poisons the generation:
\* no fence submitted, member not awaiting an arm, or classification failed
ReapArmedPoison(p, s) ==
    /\ reaper = "running" /\ chan # <<>> /\ Head(chan) = Armed(p, s)
    /\ bucket[p] = "registered"
    /\ \/ member[<<p, s>>] # "DeliveredUnarmed"
       \/ fence[<<p, s>>] = "unsubmitted"
       \/ DrmErrors
    /\ Poison(<<p, s>>)
    /\ UNCHANGED <<producerVars, endpointVars, clientVars, bucketVars, workerVars, comp,
                   frontierVars, fact>>

ReapSkipped(p, s) ==
    /\ Receive(Skipped(p, s))
    /\ InState(p, s, "Queued")
    /\ UpdateBuckets(bucket, [member EXCEPT ![<<p, s>>] = "Skipped"])
    /\ UNCHANGED <<producerVars, endpointVars, clientVars, closedSessions,
                   frontierVars, reaperVars>>

\* A record that does not fit its bucket is logged and dropped; looking the
\* bucket up has created a memberless one if the point was unknown
Misfit(r) ==
    CASE r.kind = "Register" -> bucket[r.point] = "registered"
      [] r.kind \in {"Delivered", "Skipped"} -> ~InState(r.point, r.session, "Queued")
      [] r.kind = "Armed" -> bucket[r.point] # "registered"
      [] r.kind = "Closed" -> FALSE

ReapMisfit ==
    /\ reaper = "running" /\ chan # <<>> /\ Misfit(Head(chan))
    /\ chan' = Tail(chan)
    /\ bucket' = [bucket EXCEPT ![Head(chan).point] = IF @ = "absent" THEN "phantom" ELSE @]
    /\ UNCHANGED <<producerVars, endpointVars, clientVars, member, closedSessions,
                   workerVars, comp, frontierVars, reaperVars>>

\* Mutant: a closing session forgoes every unarmed release, submitted or not
ClassifyAllSkipped(s, failing) ==
    [c \in Consumers |->
       IF c[2] = s /\ c \notin failing /\ member[c] \in {"Queued", "DeliveredUnarmed"}
         THEN "Skipped" ELSE member[c]]

\* Mutant: a closing session settles only the members it was never sent
ClassifyQueuedOnly(s, failing) ==
    [c \in Consumers |->
       IF c[2] = s /\ member[c] = "Queued" THEN "Skipped" ELSE member[c]]

\* SessionClosed: classify every delivered but unarmed member by its syncobj.
\* failing is the set of members whose classification ioctl fails.
ClassifyOnClose(s, failing) ==
    [c \in Consumers |->
       IF c[2] # s \/ c \in failing THEN member[c]
       ELSE CASE member[c] = "Queued" -> "Skipped"
              [] member[c] = "DeliveredUnarmed" ->
                   IF fence[c] = "unsubmitted" THEN "Skipped" ELSE "Armed"
              [] OTHER -> member[c]]

ReapClosed(s) ==
    \E failing \in SUBSET {c \in Consumers : /\ DrmErrors /\ c[2] = s
                                             /\ member[c] = "DeliveredUnarmed"} :
      LET m == ClassifyOnClose(s, failing)
      IN  /\ reaper = "running" /\ chan # <<>> /\ Head(chan) = Closed(s)
          /\ closedSessions' = closedSessions \cup {s}
          /\ fact' = [c \in Consumers |->
                        CASE member[c] = "DeliveredUnarmed" /\ m[c] = "Skipped" -> "none"
                          [] member[c] = "DeliveredUnarmed" /\ m[c] = "Armed" -> "armed"
                          [] OTHER -> fact[c]]
          /\ \/ /\ failing = {}
                /\ chan' = Tail(chan)
                /\ UpdateBuckets(bucket, m)
                /\ UNCHANGED <<reaper, blamed>>
             \/ /\ \E c \in failing : Poison(c)
                /\ member' = m
                /\ UNCHANGED <<bucket, workerVars, comp>>
          /\ UNCHANGED <<producerVars, endpointVars, clientVars, frontierVars>>

\* rx.recv() returns None: no sender is left
ReaperExit ==
    /\ reaper = "running" /\ chan = <<>>
    /\ retired /\ engaged = {} /\ arms = {}
    /\ \A c \in Consumers : token[c] # "held"
    /\ reaper' = "exited"
    /\ UNCHANGED <<producerVars, endpointVars, clientVars, chan, bucketVars, workerVars,
                   comp, frontierVars, blamed, fact>>

-----------------------------------------------------------------------------
(* Workers: wait_for_real_release. *)

Waiting(p) == {c \in Consumers : c[1] = p /\ wait[c] \in {"real", "legacy"}}

\* Waits of p that a closed session leaves unbacked by a client promise
Orphaned(p) == {c \in Waiting(p) : wait[c] = "legacy" /\ c[2] \in closedSessions}

Finish(p, outcome) == /\ worker' = [worker EXCEPT ![p] = "none"]
                      /\ comp' = [comp EXCEPT ![p] = outcome]

\* Top of the loop, cancelled: the completion goes to a channel nobody reads
WorkerCancelled(p) ==
    /\ worker[p] = "scan" /\ reaper # "running"
    /\ worker' = [worker EXCEPT ![p] = "none"]
    /\ UNCHANGED <<producerVars, endpointVars, clientVars, chan, bucketVars, wait, comp,
                   frontierVars, reaperVars>>

\* Top of the loop: under the closed-session lock drop the legacy waits that can
\* never signal; finish if none is left, else wait on the others
WorkerScan(p) ==
    LET w == [c \in Consumers |->
                IF c \notin Orphaned(p) THEN wait[c]
                ELSE IF fence[c] = "unsubmitted" THEN "resolved" ELSE "real"]
    IN  /\ worker[p] = "scan" /\ reaper = "running"
        /\ wait' = w
        /\ IF \E c \in Waiting(p) : w[c] # "resolved"
             THEN worker' = [worker EXCEPT ![p] = "wait"] /\ UNCHANGED comp
             ELSE Finish(p, "resolved")
        /\ UNCHANGED <<producerVars, endpointVars, clientVars, chan, bucketVars,
                       frontierVars, reaperVars>>

\* WAIT_ALL succeeds
WorkerWake(p) ==
    /\ worker[p] = "wait"
    /\ \A c \in Waiting(p) : fence[c] = "signaled"
    /\ wait' = [c \in Consumers |-> IF c \in Waiting(p) THEN "resolved" ELSE wait[c]]
    /\ Finish(p, "resolved")
    /\ UNCHANGED <<producerVars, endpointVars, clientVars, chan, bucketVars,
                   frontierVars, reaperVars>>

\* ETIME after CANCEL_POLL_INTERVAL, or EINTR
WorkerTimeout(p) ==
    /\ worker[p] = "wait"
    /\ \E c \in Waiting(p) : fence[c] # "signaled"
    /\ worker' = [worker EXCEPT ![p] = "scan"]
    /\ UNCHANGED <<producerVars, endpointVars, clientVars, chan, bucketVars, wait, comp,
                   frontierVars, reaperVars>>

\* A failing ioctl, in the wait or while classifying an orphaned wait
WorkerError(p) ==
    /\ DrmErrors
    /\ \/ worker[p] = "wait"
       \/ worker[p] = "scan" /\ reaper = "running" /\ Orphaned(p) # {}
    /\ Finish(p, "poisoned")
    /\ UNCHANGED <<producerVars, endpointVars, clientVars, chan, bucketVars, wait,
                   frontierVars, reaperVars>>

-----------------------------------------------------------------------------
(* Reaper: completions. *)

Consume(p, outcome) == /\ reaper = "running" /\ comp[p] = outcome
                       /\ comp' = [comp EXCEPT ![p] = "none"]

\* Mutant: one transfer per completion, no loop over the points that follow
PublishOnlyOne(p) ==
    LET held == ready \cup {p}
    IN  \/ /\ ~imported /\ ~producerFd
           /\ ready' = held
           /\ UNCHANGED <<nextPoint, imported>>
        \/ /\ imported \/ producerFd
           /\ imported' = TRUE
           /\ nextPoint' = IF nextPoint \in held THEN nextPoint + 1 ELSE nextPoint
           /\ ready' = held \ {nextPoint}

\* publish_resolved_release.  With no timeline imported the point is only kept;
\* otherwise points are transferred in order up to the first gap, or up to the
\* first transfer that fails.
PublishResolved(p) ==
    LET held == ready \cup {p}
    IN  \/ /\ ~imported /\ (~producerFd \/ DrmErrors)
           /\ ready' = held
           /\ UNCHANGED <<nextPoint, imported>>
        \/ /\ imported \/ producerFd
           /\ imported' = TRUE
           /\ \E q \in nextPoint .. MaxPoint + 1 :
                 /\ nextPoint .. (q - 1) \subseteq held
                 /\ q \in held => DrmErrors
                 /\ nextPoint' = q
                 /\ ready' = {x \in held : x >= q}

\* Mutant: no Resolved events to the router
ReapResolvedUnreported(p) ==
    /\ Consume(p, "resolved")
    /\ wait' = [c \in Consumers |-> IF c[1] = p THEN "none" ELSE wait[c]]
    /\ IF p < nextPoint \/ p \in ready THEN UNCHANGED frontierVars
                                       ELSE PublishResolved(p)
    /\ UNCHANGED <<producerVars, endpointVars, clientVars, chan, bucketVars, worker,
                   reaperVars>>

ReapResolved(p) ==
    /\ Consume(p, "resolved")
    /\ fact' = [c \in Consumers |->
                  IF c[1] = p /\ wait[c] = "resolved" THEN "none" ELSE fact[c]]
    /\ wait' = [c \in Consumers |-> IF c[1] = p THEN "none" ELSE wait[c]]
    /\ IF p < nextPoint \/ p \in ready THEN UNCHANGED frontierVars
                                       ELSE PublishResolved(p)
    /\ UNCHANGED <<producerVars, endpointVars, clientVars, chan, bucketVars, worker,
                   reaper, blamed>>

\* No syncobj for an all-skipped frame: logged, the point is never published
ReapFailed(p) ==
    /\ Consume(p, "failed")
    /\ UNCHANGED <<producerVars, endpointVars, clientVars, chan, bucketVars, workerVars,
                   frontierVars, reaperVars>>

ReapPoisoned(p) ==
    /\ Consume(p, "poisoned")
    /\ \E c \in Consumers : c[1] = p /\ wait[c] # "none" /\ Poison(c)
    /\ UNCHANGED <<producerVars, endpointVars, clientVars, bucketVars, workerVars,
                   frontierVars, fact>>

-----------------------------------------------------------------------------
ProducerNext == \/ ReleaseSyncobjArrives
                \/ \E S \in SUBSET Sessions : RegisterFrame(S)
                \/ FrameNotRegistered
                \/ RetireProducer

EndpointQueue(s) == \E p \in Points : \/ ForwardFrame(p, s) \/ SkipFrame(p, s)
                                      \/ DropFrame(p, s)

EndpointNext == \E s \in Sessions : \/ EndpointQueue(s)
                                    \/ \E p \in Points : RelayArm(p, s)
                                    \/ CloseSession(s) \/ UnregisterDisplay(s)

ClientNext == \E c \in Consumers : SubmitFence(c) \/ SignalFence(c)

ReaperRecords == \/ \E p \in Points, S \in SUBSET Sessions : ReapRegister(p, S)
                 \/ \E p \in Points, s \in Sessions :
                       \/ ReapDelivered(p, s) \/ ReapArmed(p, s)
                       \/ ReapArmedPoison(p, s) \/ ReapSkipped(p, s)
                 \/ ReapMisfit
                 \/ \E s \in Sessions : ReapClosed(s)
                 \/ ReaperExit

ReaperCompletions == \E p \in Points : ReapResolved(p) \/ ReapFailed(p) \/ ReapPoisoned(p)

WorkerStep(p) == \/ WorkerCancelled(p) \/ WorkerScan(p) \/ WorkerWake(p)
                 \/ WorkerTimeout(p) \/ WorkerError(p)

Next == \/ ProducerNext \/ EndpointNext \/ ClientNext
        \/ ReaperRecords \/ ReaperCompletions
        \/ \E p \in Points : WorkerStep(p)

Spec == Init /\ [][Next]_vars

\* The tasks keep running: the reaper's select! serves both channels, a worker
\* thread is scheduled, an endpoint works through its queue.  Of a client it is
\* assumed that it submits, signals and arms while it is connected.
Fairness ==
    /\ WF_vars(ReaperRecords) /\ WF_vars(ReaperCompletions)
    /\ \A p \in Points : WF_vars(WorkerStep(p))
    /\ \A s \in Sessions : WF_vars(EndpointQueue(s))
    /\ \A c \in Consumers : /\ WF_vars(SubmitFence(c)) /\ WF_vars(SignalFence(c))
                            /\ WF_vars(RelayArm(c[1], c[2]))

FairSpec == Spec /\ Fairness

-----------------------------------------------------------------------------
TypeOK ==
    /\ nextFrame \in 1 .. MaxPoint + 1
    /\ retired \in BOOLEAN
    /\ token \in [Consumers -> {"none", "held", "delivered", "skipped"}]
    /\ arms \subseteq Consumers
    /\ sess \in [Sessions -> {"open", "closed", "gone"}]
    /\ engaged \subseteq Sessions
    /\ fence \in [Consumers -> {"unsubmitted", "pending", "signaled"}]
    /\ late \subseteq Consumers
    /\ chan \in Seq(Records)
    /\ bucket \in [Points -> {"absent", "phantom", "registered"}]
    /\ member \in [Consumers -> {"none", "Queued", "DeliveredUnarmed", "Armed",
                                 "ArmedLegacy", "Skipped"}]
    /\ closedSessions \subseteq Sessions
    /\ worker \in [Points -> {"none", "scan", "wait"}]
    /\ wait \in [Consumers -> {"none", "real", "legacy", "resolved"}]
    /\ comp \in [Points -> {"none", "resolved", "failed", "poisoned"}]
    /\ nextPoint \in 1 .. MaxPoint + 1
    /\ ready \subseteq Points
    /\ producerFd \in BOOLEAN
    /\ imported \in BOOLEAN
    /\ reaper \in {"running", "poisoned", "exited"}
    /\ blamed \subseteq Consumers
    /\ fact \in [Consumers -> {"none", "unarmed", "armed"}]

\* A buffer goes back to its producer only when no display uses it: for every
\* published point, each display the frame was delivered to has a signaled
\* release fence, unless its session closed and it had submitted no fence by then
NoEarlyRelease ==
    \A p \in Points, s \in Sessions :
      LET c == <<p, s>>
      IN  (p < nextPoint /\ token[c] = "delivered") =>
            \/ fence[c] = "signaled"
            \/ sess[s] # "open" /\ (fence[c] = "unsubmitted" \/ c \in late)

\* While the reaper runs, the wait facts it reports to the router name exactly
\* the delivered consumers whose release is still outstanding, with the right
\* state: no consumer is reported as waiting after its release was resolved
WaitFactsMatch ==
    reaper = "running" =>
      \A c \in Consumers :
        /\ fact[c] = "unarmed" <=> member[c] = "DeliveredUnarmed"
        /\ fact[c] = "armed" <=> \/ member[c] \in {"Armed", "ArmedLegacy"}
                                 \/ wait[c] # "none"

\* A completed point is neither published nor held by the frontier: a frame is
\* dispatched once, whatever records of it are still in flight
ResolvedOnce ==
    \A p \in Points : comp[p] = "resolved" => p >= nextPoint /\ p \notin ready

\* Completions in any order leave no complete prefix behind: once the timeline is
\* imported, every point up to the first unresolved one is published
PrefixPublished == imported /\ ~DrmErrors => nextPoint \notin ready

\* A generation is poisoned only for cause: a DRM failure, or a client that sent
\* frame_release_armed before its fence; and it is that client that gets blamed
PoisonForCause ==
    reaper = "poisoned" => \A c \in blamed : DrmErrors \/ c[2] \in RudeSessions

\* Every registered frame is given back to the producer, unless the generation
\* ends: no order of deliveries, arms, skips and session closes loses a frame
FrameReleased ==
    \A p \in Points : p < nextFrame ~> (p < nextPoint \/ reaper # "running")

\* When the renderer is evicted and every session closed, the reaper task ends;
\* no member, arm or session object keeps its channel open for ever
ReaperRetires ==
    (retired /\ \A s \in Sessions : sess[s] # "open") ~> reaper # "running"

-----------------------------------------------------------------------------
(* The inductive invariant behind NoEarlyRelease and ResolvedOnce.           *)

\* The session of c needs no release of the frame, now and in any later state
Settled(c) ==
    \/ token[c] \in {"none", "skipped"}
    \/ token[c] = "held" /\ sess[c[2]] # "open"
    \/ /\ token[c] = "delivered"
       /\ \/ fence[c] = "signaled"
          \/ sess[c[2]] # "open" /\ (fence[c] = "unsubmitted" \/ c \in late)

\* The bucket of p has been handed to a worker, or further
Dispatched(p) ==
    \/ worker[p] # "none" \/ comp[p] # "none" \/ p \in ready \/ p < nextPoint
    \/ \E s \in Sessions : wait[<<p, s>>] # "none"

NoWaits(p) == \A s \in Sessions : wait[<<p, s>>] \notin {"real", "legacy"}

\* A frame registers once, and only its recipients hold a member of it
RegisterInv ==
    /\ \A p \in Points, s \in Sessions : token[<<p, s>>] # "none" => p < nextFrame
    /\ \A i \in 1 .. Len(chan), p \in Points, S \in SUBSET Sessions :
         chan[i] = Register(p, S) =>
           /\ p < nextFrame
           /\ bucket[p] # "registered" /\ ~Dispatched(p)
           /\ \A s \in Sessions \ S : token[<<p, s>>] = "none"
           /\ \A j \in 1 .. Len(chan), T \in SUBSET Sessions :
                chan[j] = Register(p, T) => j = i

\* Records tell the truth about their sender
RecordInv ==
    /\ \A i \in 1 .. Len(chan), p \in Points, s \in Sessions :
         chan[i] = Skipped(p, s) => token[<<p, s>>] = "skipped"
    /\ \A i \in 1 .. Len(chan), s \in Sessions : chan[i] = Closed(s) => sess[s] # "open"
    /\ \A s \in closedSessions : sess[s] # "open"
    /\ \A c \in Consumers : fence[c] # "unsubmitted" => token[c] = "delivered"

\* p is registered with s, in its bucket or by a record still in the channel
Expects(p, s) ==
    \/ member[<<p, s>>] = "Queued"
    \/ \E k \in 1 .. Len(chan), S \in SUBSET Sessions : s \in S /\ chan[k] = Register(p, S)

\* A delivery the reaper has not seen is in the channel behind the registration
\* of its frame and ahead of the close of its session
FifoInv ==
    reaper = "running" =>
      \A p \in Points, s \in Sessions :
        (token[<<p, s>>] = "delivered" /\ Expects(p, s)) =>
          \E i \in 1 .. Len(chan) :
            /\ chan[i] = Delivered(p, s)
            /\ \A j \in 1 .. Len(chan) : j < i => chan[j] # Closed(s)
            /\ \A j \in 1 .. Len(chan), S \in SUBSET Sessions :
                 j > i => chan[j] # Register(p, S)

\* In a bucket, everyone who is not waited for is settled
BucketInv ==
    \A p \in Points :
      /\ bucket[p] = "registered" =>
           /\ p < nextFrame /\ ~Dispatched(p)
           /\ \A s \in Sessions : /\ member[<<p, s>>] = "none" => token[<<p, s>>] = "none"
                                  /\ member[<<p, s>>] = "Skipped" => Settled(<<p, s>>)
      /\ bucket[p] # "registered" => \A s \in Sessions : member[<<p, s>>] = "none"

\* So it is once the frame is dispatched, and nobody is waited for at the end
DispatchInv ==
    \A p \in Points :
      /\ Dispatched(p) =>
           /\ p < nextFrame
           /\ \A s \in Sessions : wait[<<p, s>>] \notin {"real", "legacy"} => Settled(<<p, s>>)
      /\ worker[p] # "none" => comp[p] = "none" /\ p \notin ready /\ p >= nextPoint
      /\ comp[p] = "resolved" => p \notin ready /\ p >= nextPoint
      /\ (comp[p] = "resolved" \/ p \in ready \/ p < nextPoint) => NoWaits(p)

ReleaseInv == /\ TypeOK /\ RegisterInv /\ RecordInv /\ FifoInv
              /\ BucketInv /\ DispatchInv

-----------------------------------------------------------------------------
(* What it all implements. *)

\* Whoever may still read the buffer of a published frame, or will
Using == {c \in Consumers : c[1] < nextFrame /\ ~Settled(c)}

Abstract == INSTANCE FrameRelease WITH
                Users <- Sessions, MaxFrame <- MaxPoint,
                published <- nextFrame - 1, using <- Using, released <- nextPoint - 1

\* The reaper, its workers, endpoints and clients together implement FrameRelease:
\* frames go back in order, none while somebody uses it, and nobody uses a frame
\* again who was done with it
ImplementsRelease == Abstract!Spec

=============================================================================
