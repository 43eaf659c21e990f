------------------------ MODULE ReleaseReaper_proof -------------------------
(***************************************************************************)
(* Proofs about ReleaseReaper, for every set of sessions, number of frames *)
(* and choice of the faults (wallframe/sync/reaper.rs).                    *)
(*                                                                         *)
(* ReleaseInv is inductive, hence no frame is given back early and none is *)
(* resolved twice, and ReleaseReaper implements FrameRelease.  What the    *)
(* reaper reports to the router is true: its wait facts name the consumers *)
(* it still waits for, and a renderer is poisoned only for cause.          *)
(***************************************************************************)
EXTENDS MCReleaseReaper, TLAPS

-----------------------------------------------------------------------------
(* Types. *)

\* Every record built by a constructor is a record of the channel
LEMMA RecordTypes ==
    /\ \A p \in Points, S \in SUBSET Sessions : Register(p, S) \in Records
    /\ \A p \in Points, s \in Sessions : /\ Delivered(p, s) \in Records
                                         /\ Armed(p, s) \in Records
                                         /\ Skipped(p, s) \in Records
    /\ \A s \in Sessions : Closed(s) \in Records
BY DEF Records, Register, Delivered, Armed, Skipped, Closed

\* A send keeps the channel a sequence of records
LEMMA SendType ==
    ASSUME chan \in Seq(Records), NEW r \in Records, Send(r)
    PROVE  chan' \in Seq(Records)
BY DEF Send

\* An update of the buckets keeps the types of everything it writes
LEMMA UpdateType ==
    ASSUME TypeOK, NEW b, NEW m,
           b \in [Points -> {"absent", "phantom", "registered"}],
           m \in [Consumers -> {"none", "Queued", "DeliveredUnarmed", "Armed",
                                "ArmedLegacy", "Skipped"}],
           UpdateBuckets(b, m)
    PROVE  /\ bucket' \in [Points -> {"absent", "phantom", "registered"}]
           /\ member' \in [Consumers -> {"none", "Queued", "DeliveredUnarmed", "Armed",
                                         "ArmedLegacy", "Skipped"}]
           /\ wait' \in [Consumers -> {"none", "real", "legacy", "resolved"}]
           /\ worker' \in [Points -> {"none", "scan", "wait"}]
           /\ comp' \in [Points -> {"none", "resolved", "failed", "poisoned"}]
BY DEF UpdateBuckets, TypeOK

\* The initial state is well typed
LEMMA TypeInit == Init => TypeOK
<1> SUFFICES ASSUME Init PROVE TypeOK
  OBVIOUS
<1>1. 1 \in 1 .. MaxPoint + 1
  BY PointAssumption
<1>2. <<>> \in Seq(Records)
  OBVIOUS
<1> QED BY <1>1, <1>2 DEF Init, TypeOK

\* Every step keeps the types
LEMMA TypeStep == TypeOK /\ [Next]_vars => TypeOK'
<1> SUFFICES ASSUME TypeOK, [Next]_vars PROVE TypeOK'
  OBVIOUS
<1> USE DEF producerVars, endpointVars, clientVars, bucketVars, workerVars,
            frontierVars, reaperVars
<1>1. CASE ProducerNext
  <2>1. CASE ReleaseSyncobjArrives
    BY <2>1 DEF ReleaseSyncobjArrives, TypeOK
  <2>2. ASSUME NEW S \in SUBSET Sessions, RegisterFrame(S) PROVE TypeOK'
    <3>1. nextFrame \in Points /\ nextFrame + 1 \in 1 .. MaxPoint + 1
      BY <2>2, PointAssumption DEF RegisterFrame, TypeOK, Points
    <3>2. chan' \in Seq(Records)
      BY <2>2, <3>1, RecordTypes, SendType DEF RegisterFrame, TypeOK
    <3>3. token' \in [Consumers -> {"none", "held", "delivered", "skipped"}]
      BY <2>2 DEF RegisterFrame, TypeOK
    <3> QED BY <2>2, <3>1, <3>2, <3>3 DEF RegisterFrame, TypeOK
  <2>3. CASE FrameNotRegistered
    <3>1. nextFrame + 1 \in 1 .. MaxPoint + 1
      BY <2>3, PointAssumption DEF FrameNotRegistered, TypeOK
    <3> QED BY <2>3, <3>1 DEF FrameNotRegistered, TypeOK
  <2>4. CASE RetireProducer
    BY <2>4 DEF RetireProducer, TypeOK
  <2> QED BY <1>1, <2>1, <2>2, <2>3, <2>4 DEF ProducerNext
<1>2. CASE EndpointNext
  <2> SUFFICES ASSUME NEW s \in Sessions,
                      \/ EndpointQueue(s)
                      \/ \E p \in Points : RelayArm(p, s)
                      \/ CloseSession(s)
                      \/ UnregisterDisplay(s)
               PROVE  TypeOK'
    BY <1>2 DEF EndpointNext
  <2>1. ASSUME NEW p \in Points,
               ForwardFrame(p, s) \/ SkipFrame(p, s) \/ DropFrame(p, s) \/ RelayArm(p, s)
        PROVE  TypeOK'
    <3>1. <<p, s>> \in Consumers
      BY DEF Consumers
    <3>2. chan' \in Seq(Records)
      BY <2>1, RecordTypes, SendType DEF ForwardFrame, SkipFrame, DropFrame, RelayArm, TypeOK
    <3>3. CASE ForwardFrame(p, s)
      <4>1. /\ token' \in [Consumers -> {"none", "held", "delivered", "skipped"}]
            /\ arms' \subseteq Consumers /\ engaged' \subseteq Sessions
        <5>1. token' = [token EXCEPT ![<<p, s>>] = "delivered"]
          BY <3>3 DEF ForwardFrame
        <5>2. arms' \subseteq arms \cup {<<p, s>>} /\ engaged' = engaged \cup {s}
          BY <3>3 DEF ForwardFrame
        <5>3. /\ token \in [Consumers -> {"none", "held", "delivered", "skipped"}]
              /\ arms \subseteq Consumers /\ engaged \subseteq Sessions
          BY DEF TypeOK
        <5> QED BY <3>1, <5>1, <5>2, <5>3
      <4>2. UNCHANGED <<sess, producerVars, clientVars, bucketVars, workerVars, comp,
                        frontierVars, reaperVars>>
        BY <3>3 DEF ForwardFrame
      <4> QED BY <3>2, <4>1, <4>2 DEF TypeOK
    <3>4. CASE SkipFrame(p, s)
      BY <3>1, <3>2, <3>4 DEF SkipFrame, TypeOK
    <3>5. CASE DropFrame(p, s)
      BY <3>1, <3>2, <3>5 DEF DropFrame, TypeOK
    <3>6. CASE RelayArm(p, s)
      BY <3>1, <3>2, <3>6 DEF RelayArm, TypeOK
    <3> QED BY <2>1, <3>3, <3>4, <3>5, <3>6
  <2>2. CASE CloseSession(s)
    <3>1. chan' \in Seq(Records)
      BY <2>2, RecordTypes, SendType DEF CloseSession, TypeOK
    <3> QED BY <2>2, <3>1 DEF CloseSession, TypeOK
  <2>3. CASE UnregisterDisplay(s)
    BY <2>3 DEF UnregisterDisplay, TypeOK
  <2> QED BY <2>1, <2>2, <2>3 DEF EndpointQueue
<1>3. CASE ClientNext
  BY <1>3 DEF ClientNext, SubmitFence, SignalFence, TypeOK
<1>4. CASE ReaperRecords
  <2>1. ASSUME NEW p \in Points, NEW S \in SUBSET Sessions, ReapRegister(p, S)
        PROVE  TypeOK'
    <3> DEFINE b == [bucket EXCEPT ![p] = "registered"]
               m == [c \in Consumers |-> IF c[1] = p /\ c[2] \in S THEN "Queued"
                                                                  ELSE member[c]]
    <3>1. /\ b \in [Points -> {"absent", "phantom", "registered"}]
          /\ m \in [Consumers -> {"none", "Queued", "DeliveredUnarmed", "Armed",
                                  "ArmedLegacy", "Skipped"}]
      BY DEF TypeOK
    <3>2. UpdateBuckets(b, m)
      BY <2>1 DEF ReapRegister
    <3> HIDE DEF b, m
    <3> QED BY <2>1, <3>1, <3>2, UpdateType DEF ReapRegister, Receive, TypeOK
  <2>2. ASSUME NEW p \in Points, NEW s \in Sessions,
               ReapDelivered(p, s) \/ ReapArmed(p, s) \/ ReapSkipped(p, s)
        PROVE  TypeOK'
    <3>1. PICK st \in {"DeliveredUnarmed", "Armed", "ArmedLegacy", "Skipped"} :
            UpdateBuckets(bucket, [member EXCEPT ![<<p, s>>] = st])
      BY <2>2 DEF ReapDelivered, ReapArmed, ReapSkipped
    <3>2. [member EXCEPT ![<<p, s>>] = st]
             \in [Consumers -> {"none", "Queued", "DeliveredUnarmed", "Armed",
                               "ArmedLegacy", "Skipped"}]
      BY DEF TypeOK
    <3>3. /\ bucket' \in [Points -> {"absent", "phantom", "registered"}]
          /\ member' \in [Consumers -> {"none", "Queued", "DeliveredUnarmed", "Armed",
                                        "ArmedLegacy", "Skipped"}]
          /\ wait' \in [Consumers -> {"none", "real", "legacy", "resolved"}]
          /\ worker' \in [Points -> {"none", "scan", "wait"}]
          /\ comp' \in [Points -> {"none", "resolved", "failed", "poisoned"}]
      BY <3>1, <3>2, UpdateType DEF TypeOK
    <3>4. fact' \in [Consumers -> {"none", "unarmed", "armed"}]
      <4>1. CASE ReapDelivered(p, s)
        BY <4>1 DEF ReapDelivered, TypeOK
      <4>2. CASE ReapArmed(p, s)
        BY <4>2 DEF ReapArmed, TypeOK
      <4>3. CASE ReapSkipped(p, s)
        BY <4>3 DEF ReapSkipped, TypeOK
      <4> QED BY <2>2, <4>1, <4>2, <4>3
    <3>5. /\ chan' = Tail(chan) /\ chan # <<>>
          /\ UNCHANGED <<producerVars, endpointVars, clientVars, closedSessions,
                         frontierVars, reaper, blamed>>
      BY <2>2 DEF ReapDelivered, ReapArmed, ReapSkipped, Receive
    <3> QED BY <3>3, <3>4, <3>5 DEF TypeOK
  <2>3. ASSUME NEW p \in Points, NEW s \in Sessions, ReapArmedPoison(p, s)
        PROVE  TypeOK'
    <3>1. <<p, s>> \in Consumers
      BY DEF Consumers
    <3>2. <<>> \in Seq(Records)
      OBVIOUS
    <3> QED BY <2>3, <3>1, <3>2 DEF ReapArmedPoison, Poison, TypeOK
  <2>4. CASE ReapMisfit
    <3> DEFINE x == Head(chan).point
    <3>1. bucket' = [bucket EXCEPT ![x] = IF bucket[x] = "absent" THEN "phantom"
                                                                  ELSE bucket[x]]
      BY <2>4 DEF ReapMisfit
    <3> HIDE DEF x
    <3>2. bucket' \in [Points -> {"absent", "phantom", "registered"}]
      BY <3>1 DEF TypeOK
    <3>3. chan' \in Seq(Records)
      BY <2>4 DEF ReapMisfit, TypeOK
    <3> QED BY <2>4, <3>2, <3>3 DEF ReapMisfit, TypeOK
  <2>5. ASSUME NEW s \in Sessions, ReapClosed(s) PROVE TypeOK'
    <3>1. PICK failing \in SUBSET Consumers :
            LET m == ClassifyOnClose(s, failing)
            IN  /\ reaper = "running" /\ chan # <<>>
                /\ closedSessions' = closedSessions \cup {s}
                /\ fact' = [c \in Consumers |->
                        CASE member[c] = "DeliveredUnarmed" /\ m[c] = "Skipped" -> "none"
                          [] member[c] = "DeliveredUnarmed" /\ m[c] = "Armed" -> "armed"
                          [] OTHER -> fact[c]]
                /\ \/ /\ chan' = Tail(chan)
                      /\ UpdateBuckets(bucket, m)
                      /\ UNCHANGED <<reaper, blamed>>
                   \/ /\ \E c \in failing : Poison(c)
                      /\ member' = m
                      /\ UNCHANGED <<bucket, workerVars, comp>>
                /\ UNCHANGED <<producerVars, endpointVars, clientVars, frontierVars>>
      BY <2>5 DEF ReapClosed
    <3> DEFINE m == ClassifyOnClose(s, failing)
    <3>2. m \in [Consumers -> {"none", "Queued", "DeliveredUnarmed", "Armed",
                              "ArmedLegacy", "Skipped"}]
      BY DEF ClassifyOnClose, TypeOK
    <3> HIDE DEF m
    <3>3. fact' \in [Consumers -> {"none", "unarmed", "armed"}]
      BY <3>1 DEF TypeOK, m
    <3>4. CASE chan' = Tail(chan) /\ UpdateBuckets(bucket, m) /\ UNCHANGED <<reaper, blamed>>
      <4>1. bucket \in [Points -> {"absent", "phantom", "registered"}]
        BY DEF TypeOK
      <4>2. /\ bucket' \in [Points -> {"absent", "phantom", "registered"}]
            /\ member' \in [Consumers -> {"none", "Queued", "DeliveredUnarmed", "Armed",
                                          "ArmedLegacy", "Skipped"}]
            /\ wait' \in [Consumers -> {"none", "real", "legacy", "resolved"}]
            /\ worker' \in [Points -> {"none", "scan", "wait"}]
            /\ comp' \in [Points -> {"none", "resolved", "failed", "poisoned"}]
        BY <3>2, <3>4, <4>1, UpdateType
      <4> QED BY <3>1, <3>3, <3>4, <4>2 DEF TypeOK
    <3>5. CASE /\ \E c \in failing : Poison(c)
               /\ member' = m
               /\ UNCHANGED <<bucket, workerVars, comp>>
      BY <3>1, <3>2, <3>3, <3>5 DEF Poison, TypeOK
    <3> QED BY <3>1, <3>4, <3>5 DEF m
  <2>6. CASE ReaperExit
    BY <2>6 DEF ReaperExit, TypeOK
  <2> QED BY <1>4, <2>1, <2>2, <2>3, <2>4, <2>5, <2>6 DEF ReaperRecords
<1>5. CASE ReaperCompletions
  <2> SUFFICES ASSUME NEW p \in Points,
                      ReapResolved(p) \/ ReapFailed(p) \/ ReapPoisoned(p)
               PROVE  TypeOK'
    BY <1>5 DEF ReaperCompletions
  <2>1. CASE ReapResolved(p)
    <3>1. /\ nextPoint' \in 1 .. MaxPoint + 1
          /\ ready' \subseteq Points
          /\ imported' \in BOOLEAN
      <4>1. CASE UNCHANGED frontierVars
        BY <4>1 DEF TypeOK
      <4>2. CASE PublishResolved(p)
        <5>1. ready \cup {p} \subseteq Points
          BY DEF TypeOK
        <5>2. CASE ready' = ready \cup {p} /\ UNCHANGED <<nextPoint, imported>>
          BY <5>1, <5>2 DEF TypeOK
        <5>3. ASSUME NEW q \in nextPoint .. MaxPoint + 1,
                     imported' = TRUE, nextPoint' = q,
                     ready' = {x \in ready \cup {p} : x >= q}
              PROVE  /\ nextPoint' \in 1 .. MaxPoint + 1
                     /\ ready' \subseteq Points
                     /\ imported' \in BOOLEAN
          BY <5>1, <5>3, PointAssumption DEF TypeOK
        <5> QED BY <4>2, <5>2, <5>3 DEF PublishResolved, TypeOK
      <4> QED BY <2>1, <4>1, <4>2 DEF ReapResolved
    <3>2. /\ fact' \in [Consumers -> {"none", "unarmed", "armed"}]
          /\ wait' \in [Consumers -> {"none", "real", "legacy", "resolved"}]
          /\ comp' \in [Points -> {"none", "resolved", "failed", "poisoned"}]
      BY <2>1 DEF ReapResolved, Consume, TypeOK
    <3> QED BY <2>1, <3>1, <3>2 DEF ReapResolved, TypeOK
  <2>2. CASE ReapFailed(p)
    BY <2>2 DEF ReapFailed, Consume, TypeOK
  <2>3. CASE ReapPoisoned(p)
    <3>1. <<>> \in Seq(Records)
      OBVIOUS
    <3> QED BY <2>3, <3>1 DEF ReapPoisoned, Consume, Poison, TypeOK
  <2> QED BY <2>1, <2>2, <2>3
<1>6. ASSUME NEW p \in Points, WorkerStep(p) PROVE TypeOK'
  <2>1. CASE WorkerCancelled(p) \/ WorkerTimeout(p)
    <3>1. CASE WorkerCancelled(p)
      BY <3>1 DEF WorkerCancelled, TypeOK
    <3>2. CASE WorkerTimeout(p)
      BY <3>2 DEF WorkerTimeout, TypeOK
    <3> QED BY <2>1, <3>1, <3>2
  <2>2. CASE WorkerScan(p)
    <3>1. wait' \in [Consumers -> {"none", "real", "legacy", "resolved"}]
      <4>1. wait' = [c \in Consumers |->
                IF c \notin Orphaned(p) THEN wait[c]
                ELSE IF fence[c] = "unsubmitted" THEN "resolved" ELSE "real"]
        BY <2>2 DEF WorkerScan
      <4> QED BY <4>1 DEF TypeOK
    <3>2. /\ \/ worker' = [worker EXCEPT ![p] = "wait"] /\ UNCHANGED comp
             \/ Finish(p, "resolved")
          /\ UNCHANGED <<producerVars, endpointVars, clientVars, chan, bucketVars,
                         frontierVars, reaperVars>>
      BY <2>2 DEF WorkerScan
    <3> QED BY <3>1, <3>2 DEF Finish, TypeOK
  <2>3. CASE WorkerWake(p) \/ WorkerError(p)
    BY <2>3 DEF WorkerWake, WorkerError, Finish, TypeOK
  <2> QED BY <1>6, <2>1, <2>2, <2>3 DEF WorkerStep
<1>7. CASE UNCHANGED vars
  BY <1>7 DEF vars, TypeOK
<1> QED BY <1>1, <1>2, <1>3, <1>4, <1>5, <1>6, <1>7 DEF Next

\* Type correctness of the reaper and of everything that talks to it
THEOREM TypeCorrect == Spec => []TypeOK
<1>1. Init => TypeOK
  BY TypeInit
<1>2. TypeOK /\ [Next]_vars => TypeOK'
  BY TypeStep
<1> QED BY <1>1, <1>2, PTL DEF Spec


-----------------------------------------------------------------------------
(* The channel. *)

\* Records of different kinds differ, records of one kind agree in their fields
LEMMA RecordsDiffer ==
    /\ \A p, S, q, T : Register(p, S) = Register(q, T) => p = q /\ S = T
    /\ \A p, s, q, t : Skipped(p, s) = Skipped(q, t) => p = q /\ s = t
    /\ \A p, s, q, t : Delivered(p, s) = Delivered(q, t) => p = q /\ s = t
    /\ \A s, t : Closed(s) = Closed(t) => s = t
    /\ \A p, S, q, s : Register(p, S) # Skipped(q, s) /\ Register(p, S) # Delivered(q, s)
    /\ \A p, S, q, s : Register(p, S) # Armed(q, s) /\ Register(p, S) # Closed(s)
    /\ \A p, s, q, t : Skipped(p, s) # Delivered(q, t) /\ Skipped(p, s) # Armed(q, t)
    /\ \A p, s, q, t : Delivered(p, s) # Armed(q, t)
    /\ \A p, s, t : /\ Skipped(p, s) # Closed(t)
                    /\ Delivered(p, s) # Closed(t)
                    /\ Armed(p, s) # Closed(t)
BY DEF Register, Delivered, Armed, Skipped, Closed

\* The head of the channel is its first record
LEMMA HeadFact ==
    ASSUME chan \in Seq(Records), chan # <<>>
    PROVE  1 \in 1 .. Len(chan) /\ Head(chan) = chan[1]
OBVIOUS

\* Taking the head shifts the others one place forward
LEMMA TailFact ==
    ASSUME chan \in Seq(Records), chan # <<>>, chan' = Tail(chan)
    PROVE  /\ Len(chan) \in Nat /\ Len(chan') = Len(chan) - 1
           /\ \A i \in 1 .. Len(chan') : i + 1 \in 1 .. Len(chan) /\ chan'[i] = chan[i + 1]
OBVIOUS

\* A send leaves the records in flight where they are and adds at most r behind
LEMMA SendFact ==
    ASSUME chan \in Seq(Records), NEW r, Send(r)
    PROVE  /\ Len(chan) \in Nat
           /\ \A i \in 1 .. Len(chan) : i \in 1 .. Len(chan') /\ chan'[i] = chan[i]
           /\ \A i \in 1 .. Len(chan') :
                \/ i \in 1 .. Len(chan)
                \/ i = Len(chan) + 1 /\ chan'[i] = r /\ reaper = "running"
           /\ reaper = "running" => Len(chan') = Len(chan) + 1 /\ chan'[Len(chan) + 1] = r
BY DEF Send

-----------------------------------------------------------------------------
(* Settled sessions stay settled. *)

\* No step of any party makes a settled session of a registered frame unsettled
LEMMA SettledStep ==
    ASSUME TypeOK, Next, NEW c \in Consumers, c[1] < nextFrame, Settled(c)
    PROVE  Settled(c)'
<1> USE DEF Settled
<1>1. CASE ProducerNext
  BY <1>1 DEF ProducerNext, ReleaseSyncobjArrives, RegisterFrame, FrameNotRegistered,
              RetireProducer, endpointVars, clientVars, TypeOK
<1>2. CASE EndpointNext
  <2> SUFFICES ASSUME NEW s \in Sessions,
                      \/ EndpointQueue(s)
                      \/ \E p \in Points : RelayArm(p, s)
                      \/ CloseSession(s)
                      \/ UnregisterDisplay(s)
               PROVE  Settled(c)'
    BY <1>2 DEF EndpointNext
  <2>1. ASSUME NEW p \in Points, ForwardFrame(p, s) PROVE Settled(c)'
    <3>1. c # <<p, s>>
      BY <2>1 DEF ForwardFrame, Oldest
    <3> QED BY <2>1, <3>1 DEF ForwardFrame, clientVars, TypeOK
  <2>2. ASSUME NEW p \in Points, SkipFrame(p, s) \/ DropFrame(p, s) PROVE Settled(c)'
    <3>1. /\ token' = [token EXCEPT ![<<p, s>>] = "skipped"]
          /\ UNCHANGED <<sess, fence, late>>
      BY <2>2 DEF SkipFrame, DropFrame, clientVars
    <3> QED BY <3>1 DEF TypeOK
  <2>3. ASSUME NEW p \in Points, RelayArm(p, s) PROVE Settled(c)'
    BY <2>3 DEF RelayArm, clientVars
  <2>4. CASE CloseSession(s) \/ UnregisterDisplay(s)
    <3>1. /\ UNCHANGED <<token, fence, late>>
          /\ \E st \in {"closed", "gone"} : sess' = [sess EXCEPT ![s] = st]
      BY <2>4 DEF CloseSession, UnregisterDisplay, clientVars
    <3> QED BY <3>1 DEF TypeOK, Consumers
  <2> QED BY <2>1, <2>2, <2>3, <2>4 DEF EndpointQueue
<1>3. CASE ClientNext
  BY <1>3 DEF ClientNext, SubmitFence, SignalFence, endpointVars, clientVars, TypeOK
<1>4. CASE ReaperRecords
  <2>1. UNCHANGED <<endpointVars, clientVars>>
    BY <1>4 DEF ReaperRecords, ReapRegister, ReapDelivered, ReapArmed, ReapArmedPoison,
                ReapSkipped, ReapMisfit, ReapClosed, ReaperExit
  <2> QED BY <2>1 DEF endpointVars, clientVars
<1>5. CASE ReaperCompletions
  BY <1>5 DEF ReaperCompletions, ReapResolved, ReapFailed, ReapPoisoned, endpointVars,
              clientVars
<1>6. ASSUME NEW p \in Points, WorkerStep(p) PROVE Settled(c)'
  BY <1>6 DEF WorkerStep, WorkerCancelled, WorkerScan, WorkerWake, WorkerTimeout,
              WorkerError, endpointVars, clientVars
<1> QED BY <1>1, <1>2, <1>3, <1>4, <1>5, <1>6 DEF Next

-----------------------------------------------------------------------------
(* Buckets and dispatch. *)

\* What an update of the buckets needs of the maps b and m to keep the invariant
BucketsOK(b, m) ==
    \A p \in Points :
      /\ b[p] = "registered" =>
           /\ p < nextFrame /\ ~Dispatched(p)
           /\ \A s \in Sessions : /\ m[<<p, s>>] = "none" => token[<<p, s>>] = "none"
                                  /\ m[<<p, s>>] = "Skipped" => Settled(<<p, s>>)
      /\ b[p] # "registered" => \A s \in Sessions : m[<<p, s>>] = "none"

\* Storing sound maps and dispatching what is ready keeps both invariants, and
\* registers, queues and dispatches nothing that b and m do not hold
LEMMA UpdateInv ==
    ASSUME TypeOK, DispatchInv, NEW b, NEW m, BucketsOK(b, m), UpdateBuckets(b, m),
           b \in [Points -> {"absent", "phantom", "registered"}],
           m \in [Consumers -> {"none", "Queued", "DeliveredUnarmed", "Armed",
                                "ArmedLegacy", "Skipped"}],
           UNCHANGED <<nextFrame, token, fence, sess, late, nextPoint, ready>>
    PROVE  /\ BucketInv' /\ DispatchInv'
           /\ \A p \in Points : bucket'[p] = "registered" => b[p] = "registered"
           /\ \A c \in Consumers : member'[c] = "Queued" => m[c] = "Queued"
           /\ \A p \in Points : Dispatched(p)' => Dispatched(p) \/ b[p] = "registered"
<1> DEFINE D == ReadyPoints(b, m)
<1>1. /\ bucket' = [p \in Points |-> IF p \in D THEN "absent" ELSE b[p]]
      /\ member' = [c \in Consumers |-> IF c[1] \in D THEN "none" ELSE m[c]]
      /\ wait' = [c \in Consumers |->
                    CASE c[1] \in D /\ m[c] = "Armed" -> "real"
                      [] c[1] \in D /\ m[c] = "ArmedLegacy" -> "legacy"
                      [] OTHER -> wait[c]]
      /\ worker' = [p \in Points |->
                      IF p \in D /\ HasWaits(m, p) THEN "scan" ELSE worker[p]]
      /\ \A p \in Points : /\ p \notin D => comp'[p] = comp[p]
                           /\ p \in D /\ HasWaits(m, p) => comp'[p] = comp[p]
  BY DEF UpdateBuckets
<1>2. \A p \in Points, s \in Sessions : <<p, s>> \in Consumers
  BY DEF Consumers
<1>2a. \A p \in Points, s \in Sessions :
         /\ member'[<<p, s>>] = IF p \in D THEN "none" ELSE m[<<p, s>>]
         /\ wait'[<<p, s>>] = CASE p \in D /\ m[<<p, s>>] = "Armed" -> "real"
                               [] p \in D /\ m[<<p, s>>] = "ArmedLegacy" -> "legacy"
                               [] OTHER -> wait[<<p, s>>]
  <2> SUFFICES ASSUME NEW p \in Points, NEW s \in Sessions
               PROVE  /\ member'[<<p, s>>] = IF p \in D THEN "none" ELSE m[<<p, s>>]
                      /\ wait'[<<p, s>>] =
                           CASE p \in D /\ m[<<p, s>>] = "Armed" -> "real"
                             [] p \in D /\ m[<<p, s>>] = "ArmedLegacy" -> "legacy"
                             [] OTHER -> wait[<<p, s>>]
    OBVIOUS
  <2>1. <<p, s>> \in Consumers /\ <<p, s>>[1] = p
    BY <1>2
  <2> HIDE DEF D
  <2>2. member'[<<p, s>>] = IF p \in D THEN "none" ELSE m[<<p, s>>]
    BY <1>1, <2>1
  <2>3. wait'[<<p, s>>] = CASE p \in D /\ m[<<p, s>>] = "Armed" -> "real"
                            [] p \in D /\ m[<<p, s>>] = "ArmedLegacy" -> "legacy"
                            [] OTHER -> wait[<<p, s>>]
    BY <1>1, <2>1
  <2> QED BY <2>2, <2>3
<1>3. \A p \in D : /\ p \in Points /\ b[p] = "registered" /\ p < nextFrame /\ ~Dispatched(p)
                   /\ \A s \in Sessions :
                        m[<<p, s>>] \in {"none", "Armed", "ArmedLegacy", "Skipped"}
  BY DEF ReadyPoints, BucketsOK
<1>4. \A c \in Consumers : Settled(c)' <=> Settled(c)
  BY DEF Settled
<1>5. \A p \in Points, s \in Sessions :
        p \in D => \/ wait'[<<p, s>>] \in {"real", "legacy"}
                   \/ wait'[<<p, s>>] = "none" /\ Settled(<<p, s>>)
  <2> SUFFICES ASSUME NEW p \in D, NEW s \in Sessions, p \in Points
               PROVE  \/ wait'[<<p, s>>] \in {"real", "legacy"}
                      \/ wait'[<<p, s>>] = "none" /\ Settled(<<p, s>>)
    BY <1>3
  <2>1. wait[<<p, s>>] = "none"
    BY <1>3 DEF Dispatched
  <2>2. m[<<p, s>>] \in {"none", "Skipped"} => Settled(<<p, s>>)
    BY <1>3 DEF BucketsOK, Settled
  <2> HIDE DEF D
  <2> QED BY <1>1, <1>2, <1>3, <2>1, <2>2
<1> HIDE DEF D
<1>6. \A p \in Points : p \notin D => (Dispatched(p)' <=> Dispatched(p))
  BY <1>1, <1>2 DEF Dispatched, TypeOK
<1>7. \A p \in Points, s \in Sessions : p \notin D => wait'[<<p, s>>] = wait[<<p, s>>]
  BY <1>1, <1>2 DEF TypeOK
<1>8. BucketInv'
  <2> SUFFICES ASSUME NEW p \in Points
               PROVE  /\ bucket'[p] = "registered" =>
                           /\ p < nextFrame' /\ ~Dispatched(p)'
                           /\ \A s \in Sessions :
                                /\ member'[<<p, s>>] = "none" => token'[<<p, s>>] = "none"
                                /\ member'[<<p, s>>] = "Skipped" => Settled(<<p, s>>)'
                      /\ bucket'[p] # "registered" =>
                           \A s \in Sessions : member'[<<p, s>>] = "none"
    BY DEF BucketInv
  <2>1. CASE p \in D
    BY <1>1, <1>2, <2>1
  <2>2. CASE p \notin D
    <3>1. /\ bucket'[p] = b[p]
          /\ \A s \in Sessions : member'[<<p, s>>] = m[<<p, s>>]
      <4>1. bucket'[p] = b[p]
        BY <1>1, <2>2
      <4> QED BY <1>2a, <2>2, <4>1
    <3>2. ~Dispatched(p)' <=> ~Dispatched(p)
      BY <1>6, <2>2
    <3>3. \A s \in Sessions : Settled(<<p, s>>)' <=> Settled(<<p, s>>)
      BY <1>2, <1>4
    <3> QED BY <3>1, <3>2, <3>3 DEF BucketsOK
  <2> QED BY <2>1, <2>2
<1>9. DispatchInv'
  <2> SUFFICES ASSUME NEW p \in Points
               PROVE  /\ Dispatched(p)' =>
                           /\ p < nextFrame'
                           /\ \A s \in Sessions :
                                wait'[<<p, s>>] \notin {"real", "legacy"} => Settled(<<p, s>>)'
                      /\ worker'[p] # "none" =>
                           comp'[p] = "none" /\ p \notin ready' /\ p >= nextPoint'
                      /\ comp'[p] = "resolved" => p \notin ready' /\ p >= nextPoint'
                      /\ (comp'[p] = "resolved" \/ p \in ready' \/ p < nextPoint') =>
                           NoWaits(p)'
    BY DEF DispatchInv
  <2>1. CASE p \in D
    <3>1. /\ worker[p] = "none" /\ comp[p] = "none" /\ p \notin ready /\ p >= nextPoint
      BY <1>3, <2>1 DEF Dispatched, TypeOK, Points
    <3>2. ~HasWaits(m, p) => NoWaits(p)'
      <4>1. \A s \in Sessions : wait[<<p, s>>] = "none"
        BY <1>3, <2>1 DEF Dispatched
      <4>2. ~HasWaits(m, p) => \A s \in Sessions : wait'[<<p, s>>] = "none"
        BY <1>2a, <2>1, <4>1 DEF HasWaits
      <4> QED BY <4>2 DEF NoWaits
    <3>3. \A s \in Sessions :
            wait'[<<p, s>>] \notin {"real", "legacy"} => Settled(<<p, s>>)'
      BY <1>2, <1>4, <1>5, <2>1
    <3>4. worker'[p] # "none" => comp'[p] = "none"
      BY <1>1, <1>3, <2>1, <3>1
    <3>5. HasWaits(m, p) => comp'[p] = "none"
      BY <1>1, <1>3, <2>1, <3>1
    <3>6. p < nextFrame' /\ p \notin ready' /\ p >= nextPoint' /\ ~(p < nextPoint')
      BY <1>3, <2>1, <3>1 DEF TypeOK, Points
    <3> QED BY <3>2, <3>3, <3>4, <3>5, <3>6
  <2>2. CASE p \notin D
    BY <1>1, <1>2, <1>4, <1>6, <1>7, <2>2 DEF DispatchInv, NoWaits
  <2> QED BY <2>1, <2>2
<1> QED BY <1>1, <1>3, <1>6, <1>8, <1>9

-----------------------------------------------------------------------------
(* Steps of the producer, the endpoints and the clients. *)

\* A step that only sends a record other than a registration or SessionClosed,
\* or nothing at all, and takes tokens forward, keeps the channel invariants
LEMMA EndpointTokenInv ==
    ASSUME ReleaseInv, Next, NEW p \in Points, NEW s \in Sessions,
           ForwardFrame(p, s) \/ SkipFrame(p, s) \/ DropFrame(p, s) \/ RelayArm(p, s)
    PROVE  RegisterInv' /\ RecordInv' /\ FifoInv'
<1> USE DEF producerVars, endpointVars, clientVars, bucketVars, workerVars, frontierVars,
            reaperVars
<1> DEFINE c == <<p, s>>
<1>1. PICK r \in {Delivered(p, s), Skipped(p, s), Armed(p, s)} :
        /\ Send(r)
        /\ \/ r = Delivered(p, s) /\ token' = [token EXCEPT ![c] = "delivered"]
              /\ token[c] = "held" /\ sess[s] = "open"
           \/ r = Skipped(p, s) /\ token' = [token EXCEPT ![c] = "skipped"] /\ token[c] = "held"
           \/ r = Armed(p, s) /\ UNCHANGED token
  BY DEF ForwardFrame, SkipFrame, DropFrame, RelayArm, Oldest
<1>2. UNCHANGED <<nextFrame, sess, fence, bucket, member, closedSessions, worker, wait, comp,
                  nextPoint, ready, reaper>>
  BY DEF ForwardFrame, SkipFrame, DropFrame, RelayArm
<1>3. TypeOK /\ RegisterInv /\ RecordInv /\ FifoInv /\ c \in Consumers
  BY DEF ReleaseInv, Consumers
<1>4. /\ Len(chan) \in Nat
      /\ \A i \in 1 .. Len(chan) : i \in 1 .. Len(chan') /\ chan'[i] = chan[i]
      /\ \A i \in 1 .. Len(chan') :
           \/ i \in 1 .. Len(chan)
           \/ i = Len(chan) + 1 /\ chan'[i] = r /\ reaper = "running"
      /\ reaper = "running" => Len(chan') = Len(chan) + 1 /\ chan'[Len(chan) + 1] = r
  BY <1>1, <1>3, SendFact DEF TypeOK
<1>5. \A q : Dispatched(q)' <=> Dispatched(q)
  BY <1>2 DEF Dispatched
<1> HIDE DEF c
<1>6. \A d \in Consumers : /\ token'[d] = "none" <=> token[d] = "none"
                           /\ token[d] = "skipped" => token'[d] = "skipped"
                           /\ token[d] = "delivered" => token'[d] = "delivered"
                           /\ token'[d] = "delivered" =>
                                \/ token[d] = "delivered"
                                \/ d = c /\ r = Delivered(p, s) /\ sess[s] = "open"
  BY <1>1, <1>3 DEF TypeOK
<1>7. \A q \in Points, t \in Sessions : <<q, t>> \in Consumers
  BY DEF Consumers
<1>8. \A i \in 1 .. Len(chan'), q \in Points, S \in SUBSET Sessions :
        chan'[i] = Register(q, S) => i \in 1 .. Len(chan) /\ chan[i] = Register(q, S)
  BY <1>1, <1>4, RecordsDiffer
<1>9. RegisterInv'
  BY <1>2, <1>3, <1>5, <1>6, <1>7, <1>8 DEF RegisterInv
<1>10. RecordInv'
  <2>1. ASSUME NEW i \in 1 .. Len(chan'), NEW q \in Points, NEW t \in Sessions,
               chan'[i] = Skipped(q, t)
        PROVE  token'[<<q, t>>] = "skipped"
    <3>1. CASE i \in 1 .. Len(chan)
      BY <1>3, <1>4, <1>6, <1>7, <2>1, <3>1 DEF RecordInv
    <3>2. CASE chan'[i] = r
      <4>1. r = Skipped(q, t)
        BY <2>1, <3>2
      <4>2. r # Delivered(p, s) /\ r # Armed(p, s)
        BY <4>1, RecordsDiffer
      <4>3. r = Skipped(p, s) /\ token' = [token EXCEPT ![c] = "skipped"]
        BY <1>1, <4>2
      <4>4. <<q, t>> = c
        BY <4>1, <4>3 DEF c, Skipped
      <4> QED BY <1>3, <4>3, <4>4 DEF TypeOK
    <3> QED BY <1>4, <3>1, <3>2
  <2>2. ASSUME NEW i \in 1 .. Len(chan'), NEW t \in Sessions, chan'[i] = Closed(t)
        PROVE  sess'[t] # "open"
    BY <1>1, <1>2, <1>3, <1>4, <2>2, RecordsDiffer DEF RecordInv
  <2> QED BY <1>2, <1>3, <1>6, <2>1, <2>2 DEF RecordInv
<1>11. FifoInv'
  <2> SUFFICES ASSUME reaper = "running", NEW q \in Points, NEW t \in Sessions,
                      token'[<<q, t>>] = "delivered", Expects(q, t)'
               PROVE  \E i \in 1 .. Len(chan') :
                        /\ chan'[i] = Delivered(q, t)
                        /\ \A j \in 1 .. Len(chan') : j < i => chan'[j] # Closed(t)
                        /\ \A j \in 1 .. Len(chan'), S \in SUBSET Sessions :
                             j > i => chan'[j] # Register(q, S)
    BY <1>2 DEF FifoInv
  <2>1. Expects(q, t)
    BY <1>2, <1>8 DEF Expects
  <2>2. CASE token[<<q, t>>] = "delivered"
    <3>1. PICK i \in 1 .. Len(chan) :
            /\ chan[i] = Delivered(q, t)
            /\ \A j \in 1 .. Len(chan) : j < i => chan[j] # Closed(t)
            /\ \A j \in 1 .. Len(chan), S \in SUBSET Sessions :
                 j > i => chan[j] # Register(q, S)
      BY <1>3, <2>1, <2>2 DEF FifoInv
    <3>2. i \in 1 .. Len(chan') /\ chan'[i] = Delivered(q, t)
      BY <1>4, <3>1
    <3>3. \A j \in 1 .. Len(chan') : j < i => chan'[j] # Closed(t)
      BY <1>4, <3>1
    <3>4. \A j \in 1 .. Len(chan'), S \in SUBSET Sessions : j > i => chan'[j] # Register(q, S)
      BY <1>8, <3>1
    <3> QED BY <3>2, <3>3, <3>4
  <2>3. CASE token[<<q, t>>] # "delivered"
    <3>1. q = p /\ t = s /\ r = Delivered(p, s) /\ sess[s] = "open"
      BY <1>6, <1>7, <2>3 DEF c
    <3>2. \A j \in 1 .. Len(chan) : chan[j] # Closed(t)
      BY <1>3, <3>1 DEF RecordInv
    <3>3. Len(chan) + 1 \in 1 .. Len(chan') /\ chan'[Len(chan) + 1] = Delivered(q, t)
      BY <1>4, <3>1
    <3>4. \A j \in 1 .. Len(chan') : j < Len(chan) + 1 => chan'[j] # Closed(t)
      BY <1>4, <3>2
    <3>5. \A j \in 1 .. Len(chan') : ~(j > Len(chan) + 1)
      BY <1>4
    <3> QED BY <3>3, <3>4, <3>5
  <2> QED BY <2>2, <2>3
<1> QED BY <1>9, <1>10, <1>11

\* Registration is fresh: a new point is in no record, bucket or worker
LEMMA RegisterFrameInv ==
    ASSUME ReleaseInv, NEW S \in SUBSET Sessions, RegisterFrame(S)
    PROVE  RegisterInv' /\ RecordInv' /\ FifoInv'
<1> USE DEF producerVars, endpointVars, clientVars, bucketVars, workerVars, frontierVars,
            reaperVars
<1> DEFINE n == nextFrame
           r == Register(n, S)
<1>1. TypeOK /\ RegisterInv /\ RecordInv /\ FifoInv /\ BucketInv /\ DispatchInv
  BY DEF ReleaseInv
<1>2. /\ n \in Points /\ nextFrame' = n + 1 /\ reaper = "running"
      /\ Send(r)
      /\ token' = [c \in Consumers |-> IF c[1] = n /\ c[2] \in S THEN "held" ELSE token[c]]
      /\ UNCHANGED <<sess, fence, bucket, member, closedSessions, worker, wait, comp, nextPoint,
                     ready, reaper>>
  BY <1>1 DEF RegisterFrame, TypeOK, Points
<1>3. /\ Len(chan) \in Nat
      /\ \A i \in 1 .. Len(chan) : i \in 1 .. Len(chan') /\ chan'[i] = chan[i]
      /\ \A i \in 1 .. Len(chan') :
           \/ i \in 1 .. Len(chan)
           \/ i = Len(chan) + 1 /\ chan'[i] = r
  BY <1>1, <1>2, SendFact DEF TypeOK
<1>4. \A q : Dispatched(q)' <=> Dispatched(q)
  BY <1>2 DEF Dispatched
<1>5. \A q \in Points, t \in Sessions : <<q, t>> \in Consumers /\ <<q, t>>[1] = q /\ <<q, t>>[2] = t
  BY DEF Consumers
<1>6. bucket[n] # "registered" /\ ~Dispatched(n) /\ ~(n < nextFrame)
  BY <1>1, <1>2 DEF BucketInv, DispatchInv, Points
<1>7. \A q \in Points, t \in Sessions :
        /\ q # n => token'[<<q, t>>] = token[<<q, t>>]
        /\ q = n /\ t \in S => token'[<<q, t>>] = "held"
        /\ q = n /\ t \notin S => token'[<<q, t>>] = "none"
        /\ q = n => token[<<q, t>>] = "none"
  <2> SUFFICES ASSUME NEW q \in Points, NEW t \in Sessions
               PROVE  /\ q # n => token'[<<q, t>>] = token[<<q, t>>]
                      /\ q = n /\ t \in S => token'[<<q, t>>] = "held"
                      /\ q = n /\ t \notin S => token'[<<q, t>>] = "none"
                      /\ q = n => token[<<q, t>>] = "none"
    OBVIOUS
  <2>1. q = n => token[<<q, t>>] = "none"
    BY <1>1, <1>6 DEF RegisterInv
  <2>2. token'[<<q, t>>] = IF q = n /\ t \in S THEN "held" ELSE token[<<q, t>>]
    <3> HIDE DEF n
    <3> QED BY <1>2, <1>5
  <2> QED BY <2>1, <2>2
<1>8. \A i \in 1 .. Len(chan), T \in SUBSET Sessions : chan[i] # Register(n, T)
  BY <1>1, <1>2, <1>6 DEF RegisterInv
<1>9. RegisterInv'
  <2>1. ASSUME NEW q \in Points, NEW t \in Sessions, token'[<<q, t>>] # "none"
        PROVE  q < nextFrame'
    BY <1>1, <1>2, <1>7, <2>1 DEF RegisterInv, Points, TypeOK
  <2>2. ASSUME NEW i \in 1 .. Len(chan'), NEW q \in Points, NEW T \in SUBSET Sessions,
               chan'[i] = Register(q, T)
        PROVE  /\ q < nextFrame'
               /\ bucket'[q] # "registered" /\ ~Dispatched(q)'
               /\ \A t \in Sessions \ T : token'[<<q, t>>] = "none"
               /\ \A j \in 1 .. Len(chan'), U \in SUBSET Sessions :
                    chan'[j] = Register(q, U) => j = i
    <3>1. CASE i \in 1 .. Len(chan)
      <4>1. chan[i] = Register(q, T) /\ q # n
        BY <1>3, <1>8, <2>2, <3>1
      <4>2. \A j \in 1 .. Len(chan'), U \in SUBSET Sessions :
              chan'[j] = Register(q, U) => j \in 1 .. Len(chan) /\ chan[j] = Register(q, U)
        BY <1>3, <4>1, RecordsDiffer
      <4>3. q < nextFrame' /\ bucket'[q] # "registered" /\ ~Dispatched(q)'
        BY <1>1, <1>2, <1>4, <3>1, <4>1 DEF RegisterInv, Points, TypeOK
      <4>4. \A t \in Sessions \ T : token'[<<q, t>>] = "none"
        BY <1>1, <1>7, <3>1, <4>1 DEF RegisterInv
      <4> QED BY <1>1, <3>1, <4>1, <4>2, <4>3, <4>4 DEF RegisterInv
    <3>2. CASE i = Len(chan) + 1 /\ chan'[i] = r
      <4>1. q = n /\ T = S
        BY <2>2, <3>2, RecordsDiffer
      <4>2. \A j \in 1 .. Len(chan'), U \in SUBSET Sessions : chan'[j] = Register(q, U) => j = i
        BY <1>3, <1>8, <3>2, <4>1
      <4>3. n < nextFrame'
        BY <1>2 DEF Points
      <4> QED BY <1>2, <1>4, <1>6, <1>7, <4>1, <4>2, <4>3
    <3> QED BY <1>3, <3>1, <3>2
  <2> QED BY <2>1, <2>2 DEF RegisterInv
<1>10. RecordInv'
  <2>1. \A i \in 1 .. Len(chan'), q \in Points, t \in Sessions :
          chan'[i] = Skipped(q, t) => token'[<<q, t>>] = "skipped"
    <3> SUFFICES ASSUME NEW i \in 1 .. Len(chan'), NEW q \in Points, NEW t \in Sessions,
                        chan'[i] = Skipped(q, t)
                 PROVE  token'[<<q, t>>] = "skipped"
      OBVIOUS
    <3>1. i \in 1 .. Len(chan) /\ chan[i] = Skipped(q, t)
      BY <1>3, RecordsDiffer
    <3>2. token[<<q, t>>] = "skipped"
      BY <1>1, <3>1 DEF RecordInv
    <3> QED BY <1>7, <3>2
  <2>2. \A i \in 1 .. Len(chan'), t \in Sessions : chan'[i] = Closed(t) => sess'[t] # "open"
    <3> SUFFICES ASSUME NEW i \in 1 .. Len(chan'), NEW t \in Sessions, chan'[i] = Closed(t)
                 PROVE  sess'[t] # "open"
      OBVIOUS
    <3>1. i \in 1 .. Len(chan) /\ chan[i] = Closed(t)
      BY <1>3, RecordsDiffer
    <3> QED BY <1>1, <1>2, <3>1 DEF RecordInv
  <2>3. \A c \in Consumers : fence'[c] # "unsubmitted" => token'[c] = "delivered"
    <3> SUFFICES ASSUME NEW q \in Points, NEW t \in Sessions, fence[<<q, t>>] # "unsubmitted"
                 PROVE  token'[<<q, t>>] = "delivered"
      BY <1>2 DEF Consumers
    <3> QED BY <1>1, <1>5, <1>7 DEF RecordInv
  <2> QED BY <1>1, <1>2, <2>1, <2>2, <2>3 DEF RecordInv
<1>11. FifoInv'
  <2> SUFFICES ASSUME NEW q \in Points, NEW t \in Sessions,
                      token'[<<q, t>>] = "delivered", Expects(q, t)'
               PROVE  \E i \in 1 .. Len(chan') :
                        /\ chan'[i] = Delivered(q, t)
                        /\ \A j \in 1 .. Len(chan') : j < i => chan'[j] # Closed(t)
                        /\ \A j \in 1 .. Len(chan'), T \in SUBSET Sessions :
                             j > i => chan'[j] # Register(q, T)
    BY DEF FifoInv
  <2>1. q # n /\ token[<<q, t>>] = "delivered"
    BY <1>7
  <2>2. \A j \in 1 .. Len(chan'), T \in SUBSET Sessions :
          chan'[j] = Register(q, T) => j \in 1 .. Len(chan) /\ chan[j] = Register(q, T)
    BY <1>3, <2>1, RecordsDiffer
  <2>3. Expects(q, t)
    BY <1>2, <2>2 DEF Expects
  <2>4. PICK i \in 1 .. Len(chan) :
          /\ chan[i] = Delivered(q, t)
          /\ \A j \in 1 .. Len(chan) : j < i => chan[j] # Closed(t)
          /\ \A j \in 1 .. Len(chan), T \in SUBSET Sessions : j > i => chan[j] # Register(q, T)
    BY <1>1, <1>2, <2>1, <2>3 DEF FifoInv
  <2>5. i \in 1 .. Len(chan') /\ chan'[i] = Delivered(q, t)
    BY <1>3, <2>4
  <2>6. \A j \in 1 .. Len(chan') : j < i => chan'[j] # Closed(t)
    BY <1>3, <2>4
  <2>7. \A j \in 1 .. Len(chan'), T \in SUBSET Sessions : j > i => chan'[j] # Register(q, T)
    BY <2>2, <2>4
  <2> QED BY <2>5, <2>6, <2>7
<1> QED BY <1>9, <1>10, <1>11

-----------------------------------------------------------------------------
(* Lemmas for the steps that touch only some of the variables. *)

\* A step that changes neither channel, buckets nor tokens, and dispatches
\* nothing, keeps all but the dispatch invariant
LEMMA OutsideInv ==
    ASSUME ReleaseInv, Next, nextFrame' \in Nat, nextFrame <= nextFrame',
           UNCHANGED <<chan, token, bucket, member, closedSessions>>,
           reaper' = "running" => reaper = "running",
           \A s \in Sessions : sess[s] # "open" => sess'[s] # "open",
           \A c \in Consumers : fence'[c] # "unsubmitted" => token[c] = "delivered",
           \A p \in Points : Dispatched(p)' => Dispatched(p)
    PROVE  RegisterInv' /\ RecordInv' /\ FifoInv' /\ BucketInv'
<1>1. TypeOK /\ RegisterInv /\ RecordInv /\ FifoInv /\ BucketInv
  BY DEF ReleaseInv
<1>2. \A p \in Points : p < nextFrame => p < nextFrame'
  BY <1>1 DEF TypeOK, Points
<1>3. \A p \in Points, s \in Sessions :
        p < nextFrame /\ Settled(<<p, s>>) => Settled(<<p, s>>)'
  BY <1>1, SettledStep DEF Consumers
<1>4. RegisterInv'
  BY <1>1, <1>2 DEF RegisterInv
<1>5. RecordInv'
  BY <1>1 DEF RecordInv, TypeOK
<1>6. FifoInv'
  BY <1>1 DEF FifoInv, Expects
<1>7. BucketInv'
  BY <1>1, <1>2, <1>3 DEF BucketInv
<1> QED BY <1>4, <1>5, <1>6, <1>7

\* A step that leaves workers, completions and frontier alone keeps DispatchInv
LEMMA NoDispatch ==
    ASSUME ReleaseInv, Next, nextFrame' \in Nat, nextFrame <= nextFrame',
           UNCHANGED <<worker, wait, comp, nextPoint, ready>>
    PROVE  /\ DispatchInv'
           /\ \A p \in Points : Dispatched(p)' <=> Dispatched(p)
<1>1. TypeOK /\ DispatchInv
  BY DEF ReleaseInv
<1>2. \A p \in Points : p < nextFrame => p < nextFrame'
  BY <1>1 DEF TypeOK, Points
<1>3. \A p \in Points, s \in Sessions :
        p < nextFrame /\ Settled(<<p, s>>) => Settled(<<p, s>>)'
  BY <1>1, SettledStep DEF Consumers
<1>4. \A p \in Points : Dispatched(p)' <=> Dispatched(p)
  BY DEF Dispatched
<1> QED BY <1>1, <1>2, <1>3, <1>4 DEF DispatchInv, NoWaits

\* A step that sends or drops nothing in the buckets and dispatches nothing keeps
\* BucketInv while the tokens of registered frames only leave "held"
LEMMA NoBucket ==
    ASSUME ReleaseInv, Next, nextFrame' \in Nat, nextFrame <= nextFrame',
           UNCHANGED member,
           \A p \in Points : bucket'[p] = "registered" <=> bucket[p] = "registered",
           \A p \in Points, s \in Sessions :
             p < nextFrame /\ token[<<p, s>>] = "none" => token'[<<p, s>>] = "none",
           \A p \in Points : Dispatched(p)' <=> Dispatched(p)
    PROVE  BucketInv'
<1>1. TypeOK /\ BucketInv
  BY DEF ReleaseInv
<1>2. \A p \in Points : p < nextFrame => p < nextFrame'
  BY <1>1 DEF TypeOK, Points
<1>3. \A p \in Points, s \in Sessions :
        p < nextFrame /\ Settled(<<p, s>>) => Settled(<<p, s>>)'
  BY <1>1, SettledStep DEF Consumers
<1> QED BY <1>1, <1>2, <1>3 DEF BucketInv

\* The reaper returns: the channel is gone and the channel invariants are void
LEMMA PoisonInv ==
    ASSUME ReleaseInv, chan' = <<>>, reaper' = "poisoned",
           UNCHANGED <<nextFrame, token, sess, fence>>,
           \A s \in closedSessions' : sess[s] # "open"
    PROVE  RegisterInv' /\ RecordInv' /\ FifoInv'
<1>1. RegisterInv /\ RecordInv
  BY DEF ReleaseInv
<1>2. \A i : i \notin 1 .. Len(chan')
  OBVIOUS
<1>3. RegisterInv'
  BY <1>1, <1>2 DEF RegisterInv
<1>4. RecordInv'
  BY <1>1, <1>2 DEF RecordInv
<1> QED BY <1>3, <1>4 DEF FifoInv

\* The reaper takes the head of the channel
LEMMA ConsumeInv ==
    ASSUME ReleaseInv, chan # <<>>, chan' = Tail(chan), UNCHANGED reaper,
           UNCHANGED <<nextFrame, token, sess, fence>>,
           \A i \in 2 .. Len(chan), p \in Points, S \in SUBSET Sessions :
             chan[i] = Register(p, S) => bucket'[p] # "registered" /\ ~Dispatched(p)',
           \A s \in closedSessions' : sess[s] # "open",
           \A p \in Points, s \in Sessions :
             member'[<<p, s>>] = "Queued" =>
               \/ member[<<p, s>>] = "Queued"
               \/ \E S \in SUBSET Sessions : s \in S /\ chan[1] = Register(p, S),
           \A p \in Points, s \in Sessions :
             chan[1] = Delivered(p, s) => member'[<<p, s>>] # "Queued"
    PROVE  RegisterInv' /\ RecordInv' /\ FifoInv'
<1>1. TypeOK /\ RegisterInv /\ RecordInv /\ FifoInv
  BY DEF ReleaseInv
<1>2. /\ Len(chan) \in Nat /\ Len(chan') = Len(chan) - 1 /\ 1 \in 1 .. Len(chan)
      /\ \A i \in 1 .. Len(chan') : i + 1 \in 1 .. Len(chan) /\ chan'[i] = chan[i + 1]
  BY <1>1, TailFact, HeadFact DEF TypeOK
<1>3. RegisterInv'
  <2>1. ASSUME NEW i \in 1 .. Len(chan'), NEW p \in Points, NEW S \in SUBSET Sessions,
               chan'[i] = Register(p, S)
        PROVE  /\ p < nextFrame'
               /\ bucket'[p] # "registered" /\ ~Dispatched(p)'
               /\ \A s \in Sessions \ S : token'[<<p, s>>] = "none"
               /\ \A j \in 1 .. Len(chan'), T \in SUBSET Sessions :
                    chan'[j] = Register(p, T) => j = i
    <3>1. i + 1 \in 2 .. Len(chan) /\ i + 1 \in 1 .. Len(chan) /\ chan[i + 1] = Register(p, S)
      BY <1>2, <2>1
    <3>2. /\ p < nextFrame
          /\ \A s \in Sessions \ S : token[<<p, s>>] = "none"
          /\ \A j \in 1 .. Len(chan), T \in SUBSET Sessions : chan[j] = Register(p, T) => j = i + 1
      BY <1>1, <3>1 DEF RegisterInv
    <3>3. \A j \in 1 .. Len(chan'), T \in SUBSET Sessions : chan'[j] = Register(p, T) => j = i
      BY <1>2, <3>2
    <3> QED BY <3>1, <3>2, <3>3
  <2> QED BY <1>1, <2>1 DEF RegisterInv
<1>4. RecordInv'
  BY <1>1, <1>2 DEF RecordInv
<1>5. FifoInv'
  <2> SUFFICES ASSUME reaper = "running", NEW p \in Points, NEW s \in Sessions,
                      token[<<p, s>>] = "delivered", Expects(p, s)'
               PROVE  \E i \in 1 .. Len(chan') :
                        /\ chan'[i] = Delivered(p, s)
                        /\ \A j \in 1 .. Len(chan') : j < i => chan'[j] # Closed(s)
                        /\ \A j \in 1 .. Len(chan'), S \in SUBSET Sessions :
                             j > i => chan'[j] # Register(p, S)
    BY DEF FifoInv
  <2>1. Expects(p, s)
    BY <1>2 DEF Expects
  <2>2. PICK i \in 1 .. Len(chan) :
          /\ chan[i] = Delivered(p, s)
          /\ \A j \in 1 .. Len(chan) : j < i => chan[j] # Closed(s)
          /\ \A j \in 1 .. Len(chan), S \in SUBSET Sessions : j > i => chan[j] # Register(p, S)
    BY <1>1, <2>1 DEF FifoInv
  <2>3. i # 1
    <3> SUFFICES ASSUME i = 1 PROVE FALSE
      OBVIOUS
    <3>1. PICK k \in 1 .. Len(chan'), S \in SUBSET Sessions : chan'[k] = Register(p, S)
      BY <2>2 DEF Expects
    <3>2. k + 1 \in 1 .. Len(chan) /\ k + 1 > i /\ chan[k + 1] = Register(p, S)
      BY <1>2, <3>1
    <3> QED BY <2>2, <3>2
  <2>4. i - 1 \in 1 .. Len(chan') /\ chan'[i - 1] = Delivered(p, s)
    BY <1>2, <2>2, <2>3
  <2>5. \A j \in 1 .. Len(chan') : j < i - 1 => chan'[j] # Closed(s)
    BY <1>2, <2>2
  <2>6. \A j \in 1 .. Len(chan'), S \in SUBSET Sessions : j > i - 1 => chan'[j] # Register(p, S)
    BY <1>2, <2>2
  <2> QED BY <2>4, <2>5, <2>6
<1> QED BY <1>3, <1>4, <1>5

\* Closing a session appends its SessionClosed behind all it delivered
LEMMA CloseSessionInv ==
    ASSUME ReleaseInv, NEW s \in Sessions, CloseSession(s)
    PROVE  RegisterInv' /\ RecordInv' /\ FifoInv'
<1> USE DEF producerVars, clientVars, bucketVars, workerVars, frontierVars, reaperVars
<1>1. TypeOK /\ RegisterInv /\ RecordInv /\ FifoInv
  BY DEF ReleaseInv
<1>2. /\ UNCHANGED <<nextFrame, token, fence, bucket, member, closedSessions, worker, wait, comp,
                     nextPoint, ready, reaper>>
      /\ Send(Closed(s)) \/ UNCHANGED chan
      /\ sess' = [sess EXCEPT ![s] = "closed"]
  BY DEF CloseSession
<1>3. /\ Len(chan) \in Nat
      /\ \A i \in 1 .. Len(chan) : i \in 1 .. Len(chan') /\ chan'[i] = chan[i]
      /\ \A i \in 1 .. Len(chan') :
           \/ i \in 1 .. Len(chan)
           \/ i = Len(chan) + 1 /\ chan'[i] = Closed(s)
  BY <1>1, <1>2, SendFact DEF TypeOK
<1>4. \A q : Dispatched(q)' <=> Dispatched(q)
  BY <1>2 DEF Dispatched
<1>5. \A i \in 1 .. Len(chan'), q \in Points, S \in SUBSET Sessions :
        chan'[i] = Register(q, S) => i \in 1 .. Len(chan) /\ chan[i] = Register(q, S)
  BY <1>3, RecordsDiffer
<1>6. RegisterInv'
  BY <1>1, <1>2, <1>4, <1>5 DEF RegisterInv
<1>7. RecordInv'
  <2>1. \A t \in Sessions : sess[t] # "open" => sess'[t] # "open"
    BY <1>1, <1>2 DEF TypeOK
  <2>2. sess'[s] # "open"
    BY <1>1, <1>2 DEF TypeOK
  <2>3. ASSUME NEW i \in 1 .. Len(chan'), NEW t \in Sessions, chan'[i] = Closed(t)
        PROVE  sess'[t] # "open"
    <3>1. CASE i \in 1 .. Len(chan)
      BY <1>1, <1>3, <2>1, <2>3, <3>1 DEF RecordInv
    <3>2. CASE chan'[i] = Closed(s)
      BY <2>2, <2>3, <3>2 DEF Closed
    <3> QED BY <1>3, <3>1, <3>2
  <2>4. ASSUME NEW i \in 1 .. Len(chan'), NEW q \in Points, NEW t \in Sessions,
               chan'[i] = Skipped(q, t)
        PROVE  token'[<<q, t>>] = "skipped"
    <3>1. i \in 1 .. Len(chan)
      BY <1>3, <2>4, RecordsDiffer
    <3> QED BY <1>1, <1>2, <1>3, <2>4, <3>1 DEF RecordInv
  <2>5. \A t \in closedSessions' : sess'[t] # "open"
    BY <1>1, <1>2, <2>1 DEF RecordInv, TypeOK
  <2>6. \A c \in Consumers : fence'[c] # "unsubmitted" => token'[c] = "delivered"
    BY <1>1, <1>2 DEF RecordInv
  <2> QED BY <2>3, <2>4, <2>5, <2>6 DEF RecordInv
<1>8. FifoInv'
  <2> SUFFICES ASSUME reaper = "running", NEW q \in Points, NEW t \in Sessions,
                      token[<<q, t>>] = "delivered", Expects(q, t)'
               PROVE  \E i \in 1 .. Len(chan') :
                        /\ chan'[i] = Delivered(q, t)
                        /\ \A j \in 1 .. Len(chan') : j < i => chan'[j] # Closed(t)
                        /\ \A j \in 1 .. Len(chan'), S \in SUBSET Sessions :
                             j > i => chan'[j] # Register(q, S)
    BY <1>2 DEF FifoInv
  <2>1. Expects(q, t)
    BY <1>2, <1>5 DEF Expects
  <2>2. PICK i \in 1 .. Len(chan) :
          /\ chan[i] = Delivered(q, t)
          /\ \A j \in 1 .. Len(chan) : j < i => chan[j] # Closed(t)
          /\ \A j \in 1 .. Len(chan), S \in SUBSET Sessions : j > i => chan[j] # Register(q, S)
    BY <1>1, <2>1 DEF FifoInv
  <2>3. i \in 1 .. Len(chan') /\ chan'[i] = Delivered(q, t)
    BY <1>3, <2>2
  <2>4. \A j \in 1 .. Len(chan') : j < i => chan'[j] # Closed(t)
    BY <1>3, <2>2
  <2>5. \A j \in 1 .. Len(chan'), S \in SUBSET Sessions : j > i => chan'[j] # Register(q, S)
    BY <1>5, <2>2
  <2> QED BY <2>3, <2>4, <2>5
<1> QED BY <1>6, <1>7, <1>8

-----------------------------------------------------------------------------
(* Records consumed by the reaper. *)

\* Consuming a registration opens the bucket of a frame nobody dispatched
LEMMA ReapRegisterInv ==
    ASSUME ReleaseInv, NEW p \in Points, NEW S \in SUBSET Sessions, ReapRegister(p, S)
    PROVE  RegisterInv' /\ RecordInv' /\ FifoInv' /\ BucketInv' /\ DispatchInv'
<1> DEFINE b == [bucket EXCEPT ![p] = "registered"]
           m == [c \in Consumers |-> IF c[1] = p /\ c[2] \in S THEN "Queued" ELSE member[c]]
<1>1. TypeOK /\ RegisterInv /\ RecordInv /\ BucketInv /\ DispatchInv
  BY DEF ReleaseInv
<1>2. /\ chan # <<>> /\ chan' = Tail(chan) /\ UpdateBuckets(b, m)
      /\ UNCHANGED <<nextFrame, token, sess, fence, late, nextPoint, ready, closedSessions, reaper>>
  BY DEF ReapRegister, Receive, producerVars, endpointVars, clientVars, frontierVars, reaperVars
<1>3. 1 \in 1 .. Len(chan) /\ chan[1] = Register(p, S) /\ Len(chan) \in Nat
  BY <1>1, <1>2, HeadFact DEF ReapRegister, Receive, TypeOK
<1>4. /\ p < nextFrame /\ bucket[p] # "registered" /\ ~Dispatched(p)
      /\ \A s \in Sessions \ S : token[<<p, s>>] = "none"
      /\ \A j \in 1 .. Len(chan), T \in SUBSET Sessions : chan[j] = Register(p, T) => j = 1
  BY <1>1, <1>3 DEF RegisterInv
<1>5. /\ b \in [Points -> {"absent", "phantom", "registered"}]
      /\ m \in [Consumers -> {"none", "Queued", "DeliveredUnarmed", "Armed",
                              "ArmedLegacy", "Skipped"}]
  BY <1>1 DEF TypeOK
<1>6. \A q \in Points : b[q] = IF q = p THEN "registered" ELSE bucket[q]
  BY <1>1 DEF TypeOK
<1>7. \A q \in Points, s \in Sessions :
        m[<<q, s>>] = IF q = p /\ s \in S THEN "Queued" ELSE member[<<q, s>>]
  BY DEF Consumers
<1> HIDE DEF b, m
<1>8. BucketsOK(b, m)
  <2>1. \A s \in Sessions : member[<<p, s>>] = "none"
    BY <1>1, <1>4 DEF BucketInv
  <2> QED BY <1>1, <1>4, <1>6, <1>7, <2>1 DEF BucketsOK, BucketInv
<1>9. /\ BucketInv' /\ DispatchInv'
      /\ \A q \in Points : bucket'[q] = "registered" => b[q] = "registered"
      /\ \A c \in Consumers : member'[c] = "Queued" => m[c] = "Queued"
      /\ \A q \in Points : Dispatched(q)' => Dispatched(q) \/ b[q] = "registered"
  BY <1>1, <1>2, <1>5, <1>8, UpdateInv
<1>10. ASSUME NEW i \in 2 .. Len(chan), NEW q \in Points, NEW T \in SUBSET Sessions,
              chan[i] = Register(q, T)
       PROVE  bucket'[q] # "registered" /\ ~Dispatched(q)'
  <2>1. i \in 1 .. Len(chan) /\ i # 1
    OBVIOUS
  <2>2. q # p
    BY <1>4, <1>10, <2>1
  <2>3. bucket[q] # "registered" /\ ~Dispatched(q)
    BY <1>1, <1>10, <2>1 DEF RegisterInv
  <2> QED BY <1>6, <1>9, <2>2, <2>3
<1>11. \A q \in Points, s \in Sessions : member'[<<q, s>>] = "Queued" =>
         \/ member[<<q, s>>] = "Queued"
         \/ \E T \in SUBSET Sessions : s \in T /\ chan[1] = Register(q, T)
  BY <1>3, <1>7, <1>9 DEF Consumers
<1>12. \A q \in Points, s \in Sessions : chan[1] # Delivered(q, s)
  BY <1>3, RecordsDiffer
<1>13. \A s \in closedSessions' : sess[s] # "open"
  BY <1>1, <1>2 DEF RecordInv
<1> QED BY <1>2, <1>9, <1>10, <1>11, <1>12, <1>13, ConsumeInv

\* Consuming a delivery, an arm or a skip moves one member of an open bucket
LEMMA ReapMemberInv ==
    ASSUME ReleaseInv, NEW p \in Points, NEW s \in Sessions,
           ReapDelivered(p, s) \/ ReapArmed(p, s) \/ ReapSkipped(p, s)
    PROVE  RegisterInv' /\ RecordInv' /\ FifoInv' /\ BucketInv' /\ DispatchInv'
<1>1. TypeOK /\ RegisterInv /\ RecordInv /\ BucketInv /\ DispatchInv
  BY DEF ReleaseInv
<1>2. PICK st \in {"DeliveredUnarmed", "Armed", "ArmedLegacy", "Skipped"} :
        /\ UpdateBuckets(bucket, [member EXCEPT ![<<p, s>>] = st])
        /\ st = "Skipped" => ReapSkipped(p, s)
  BY DEF ReapDelivered, ReapArmed, ReapSkipped
<1>3. /\ chan # <<>> /\ chan' = Tail(chan) /\ bucket[p] = "registered"
      /\ UNCHANGED <<nextFrame, token, sess, fence, late, nextPoint, ready, closedSessions, reaper>>
      /\ Head(chan) \in {Delivered(p, s), Armed(p, s), Skipped(p, s)}
  BY DEF ReapDelivered, ReapArmed, ReapSkipped, Receive, InState, producerVars, endpointVars,
         clientVars, frontierVars, reaperVars
<1>4. /\ 1 \in 1 .. Len(chan) /\ Len(chan) \in Nat
      /\ chan[1] \in {Delivered(p, s), Armed(p, s), Skipped(p, s)}
      /\ ReapSkipped(p, s) => chan[1] = Skipped(p, s)
  BY <1>1, <1>3, HeadFact DEF TypeOK, ReapSkipped, Receive
<1> DEFINE m == [member EXCEPT ![<<p, s>>] = st]
<1>5. m \in [Consumers -> {"none", "Queued", "DeliveredUnarmed", "Armed",
                           "ArmedLegacy", "Skipped"}]
  BY <1>1 DEF TypeOK
<1>6. \A q \in Points, t \in Sessions :
        m[<<q, t>>] = IF <<q, t>> = <<p, s>> THEN st ELSE member[<<q, t>>]
  BY <1>1 DEF TypeOK, Consumers
<1>7. UpdateBuckets(bucket, m)
  BY <1>2
<1> HIDE DEF m
<1>8. BucketsOK(bucket, m)
  <2>1. st = "Skipped" => Settled(<<p, s>>)
    BY <1>1, <1>2, <1>4 DEF RecordInv, Settled
  <2> QED BY <1>1, <1>3, <1>6, <2>1 DEF BucketsOK, BucketInv
<1>9. /\ BucketInv' /\ DispatchInv'
      /\ \A q \in Points : bucket'[q] = "registered" => bucket[q] = "registered"
      /\ \A c \in Consumers : member'[c] = "Queued" => m[c] = "Queued"
      /\ \A q \in Points : Dispatched(q)' => Dispatched(q) \/ bucket[q] = "registered"
  BY <1>1, <1>3, <1>5, <1>7, <1>8, UpdateInv DEF TypeOK
<1>10. ASSUME NEW i \in 2 .. Len(chan), NEW q \in Points, NEW T \in SUBSET Sessions,
              chan[i] = Register(q, T)
       PROVE  bucket'[q] # "registered" /\ ~Dispatched(q)'
  <2>1. i \in 1 .. Len(chan)
    OBVIOUS
  <2>2. bucket[q] # "registered" /\ ~Dispatched(q)
    BY <1>1, <1>10, <2>1 DEF RegisterInv
  <2> QED BY <1>9, <2>2
<1>11. \A q \in Points, t \in Sessions :
         member'[<<q, t>>] = "Queued" => member[<<q, t>>] = "Queued" /\ <<q, t>> # <<p, s>>
  BY <1>6, <1>9 DEF Consumers
<1>12. ASSUME NEW q \in Points, NEW t \in Sessions, chan[1] = Delivered(q, t)
       PROVE  member'[<<q, t>>] # "Queued"
  <2>1. q = p /\ t = s
    BY <1>4, <1>12, RecordsDiffer
  <2> QED BY <1>11, <2>1
<1>13. \A t \in closedSessions' : sess[t] # "open"
  BY <1>1, <1>3 DEF RecordInv
<1> QED BY <1>3, <1>9, <1>10, <1>11, <1>12, <1>13, ConsumeInv

\* A record that does not fit its bucket is dropped and registers nothing
LEMMA ReapMisfitInv ==
    ASSUME ReleaseInv, Next, ReapMisfit
    PROVE  RegisterInv' /\ RecordInv' /\ FifoInv' /\ BucketInv' /\ DispatchInv'
<1>1. TypeOK /\ RegisterInv /\ RecordInv /\ BucketInv /\ DispatchInv
  BY DEF ReleaseInv
<1>2. /\ chan # <<>> /\ chan' = Tail(chan) /\ Misfit(Head(chan))
      /\ UNCHANGED <<nextFrame, token, sess, fence, late, nextPoint, ready, closedSessions,
                     reaper, member, worker, wait, comp>>
  BY DEF ReapMisfit, producerVars, endpointVars, clientVars, frontierVars, reaperVars,
         workerVars
<1>3. 1 \in 1 .. Len(chan) /\ Len(chan) \in Nat /\ Misfit(chan[1])
  BY <1>1, <1>2, HeadFact DEF TypeOK
<1>4. \A q \in Points : bucket'[q] = "registered" <=> bucket[q] = "registered"
  <2> DEFINE x == Head(chan).point
  <2>1. bucket' = [bucket EXCEPT ![x] = IF bucket[x] = "absent" THEN "phantom" ELSE bucket[x]]
    BY DEF ReapMisfit
  <2> HIDE DEF x
  <2> QED BY <1>1, <2>1 DEF TypeOK
<1>5. nextFrame \in Nat
  BY <1>1 DEF TypeOK
<1>6. DispatchInv' /\ \A q \in Points : Dispatched(q)' <=> Dispatched(q)
  BY <1>2, <1>5, NoDispatch
<1>7. BucketInv'
  BY <1>2, <1>4, <1>5, <1>6, NoBucket
<1>8. ASSUME NEW i \in 2 .. Len(chan), NEW q \in Points, NEW T \in SUBSET Sessions,
             chan[i] = Register(q, T)
      PROVE  bucket'[q] # "registered" /\ ~Dispatched(q)'
  <2>1. i \in 1 .. Len(chan)
    OBVIOUS
  <2> QED BY <1>1, <1>4, <1>6, <1>8, <2>1 DEF RegisterInv
<1>9. ASSUME NEW q \in Points, NEW t \in Sessions, chan[1] = Delivered(q, t)
      PROVE  member'[<<q, t>>] # "Queued"
  <2>1. ~InState(q, t, "Queued")
    BY <1>3, <1>9 DEF Misfit, Delivered
  <2> QED BY <1>1, <1>2, <2>1 DEF InState, BucketInv
<1>10. \A t \in closedSessions' : sess[t] # "open"
  BY <1>1, <1>2 DEF RecordInv
<1>11. RegisterInv' /\ RecordInv' /\ FifoInv'
  BY <1>2, <1>8, <1>9, <1>10, ConsumeInv
<1> QED BY <1>6, <1>7, <1>11

\* Consuming SessionClosed skips only members whose session is settled
LEMMA ReapClosedInv ==
    ASSUME ReleaseInv, Next, NEW s \in Sessions, ReapClosed(s)
    PROVE  RegisterInv' /\ RecordInv' /\ FifoInv' /\ BucketInv' /\ DispatchInv'
<1>1. TypeOK /\ RegisterInv /\ RecordInv /\ FifoInv /\ BucketInv /\ DispatchInv
  BY DEF ReleaseInv
<1>2. PICK failing \in SUBSET Consumers :
        LET m == ClassifyOnClose(s, failing)
        IN  /\ reaper = "running" /\ chan # <<>> /\ Head(chan) = Closed(s)
            /\ closedSessions' = closedSessions \cup {s}
            /\ \/ /\ chan' = Tail(chan)
                  /\ UpdateBuckets(bucket, m)
                  /\ UNCHANGED <<reaper, blamed>>
               \/ /\ \E c \in failing : Poison(c)
                  /\ member' = m
                  /\ UNCHANGED <<bucket, workerVars, comp>>
            /\ UNCHANGED <<producerVars, endpointVars, clientVars, frontierVars>>
  BY DEF ReapClosed
<1> DEFINE m == ClassifyOnClose(s, failing)
<1>3. UNCHANGED <<nextFrame, token, sess, fence, late, nextPoint, ready>>
  BY <1>2 DEF producerVars, endpointVars, clientVars, frontierVars
<1>4. 1 \in 1 .. Len(chan) /\ chan[1] = Closed(s) /\ Len(chan) \in Nat
  BY <1>1, <1>2, HeadFact DEF TypeOK
<1>5. sess[s] # "open" /\ \A t \in closedSessions' : sess[t] # "open"
  BY <1>1, <1>2, <1>4 DEF RecordInv
<1>6. m \in [Consumers -> {"none", "Queued", "DeliveredUnarmed", "Armed",
                           "ArmedLegacy", "Skipped"}]
  BY <1>1 DEF ClassifyOnClose, TypeOK
<1>7. \A q \in Points, t \in Sessions :
        /\ m[<<q, t>>] = "none" <=> member[<<q, t>>] = "none"
        /\ m[<<q, t>>] = "Queued" => member[<<q, t>>] = "Queued"
        /\ m[<<q, t>>] = "Skipped" =>
             \/ member[<<q, t>>] = "Skipped"
             \/ t = s /\ member[<<q, t>>] = "Queued"
             \/ t = s /\ fence[<<q, t>>] = "unsubmitted"
  <2> SUFFICES ASSUME NEW q \in Points, NEW t \in Sessions
               PROVE  /\ m[<<q, t>>] = "none" <=> member[<<q, t>>] = "none"
                      /\ m[<<q, t>>] = "Queued" => member[<<q, t>>] = "Queued"
                      /\ m[<<q, t>>] = "Skipped" =>
                           \/ member[<<q, t>>] = "Skipped"
                           \/ t = s /\ member[<<q, t>>] = "Queued"
                           \/ t = s /\ fence[<<q, t>>] = "unsubmitted"
    OBVIOUS
  <2> DEFINE c == <<q, t>>
  <2>1. c \in Consumers /\ c[2] = t
    BY DEF Consumers
  <2>2. m[c] = IF c[2] # s \/ c \in failing THEN member[c]
               ELSE CASE member[c] = "Queued" -> "Skipped"
                      [] member[c] = "DeliveredUnarmed" ->
                           IF fence[c] = "unsubmitted" THEN "Skipped" ELSE "Armed"
                      [] OTHER -> member[c]
    BY <2>1 DEF ClassifyOnClose
  <2> HIDE DEF m
  <2> QED BY <1>1, <2>1, <2>2 DEF TypeOK
<1> HIDE DEF m
<1>8. \A q \in Points : member[<<q, s>>] = "Queued" => Settled(<<q, s>>)
  <2> SUFFICES ASSUME NEW q \in Points, member[<<q, s>>] = "Queued" PROVE Settled(<<q, s>>)
    OBVIOUS
  <2>1. token[<<q, s>>] # "delivered"
    <3> SUFFICES ASSUME token[<<q, s>>] = "delivered" PROVE FALSE
      OBVIOUS
    <3>1. PICK i \in 1 .. Len(chan) :
            /\ chan[i] = Delivered(q, s)
            /\ \A j \in 1 .. Len(chan) : j < i => chan[j] # Closed(s)
      BY <1>1, <1>2 DEF FifoInv, Expects
    <3>2. i # 1
      BY <1>4, <3>1, RecordsDiffer
    <3> QED BY <1>4, <3>1, <3>2
  <2>2. <<q, s>> \in Consumers /\ <<q, s>>[2] = s
    BY DEF Consumers
  <2> QED BY <1>1, <1>5, <2>1, <2>2 DEF Settled, TypeOK
<1>9. \A q \in Points : fence[<<q, s>>] = "unsubmitted" => Settled(<<q, s>>)
  <2> SUFFICES ASSUME NEW q \in Points, fence[<<q, s>>] = "unsubmitted" PROVE Settled(<<q, s>>)
    OBVIOUS
  <2>1. <<q, s>> \in Consumers /\ <<q, s>>[2] = s
    BY DEF Consumers
  <2> QED BY <1>1, <1>5, <2>1 DEF Settled, TypeOK
<1>10. BucketsOK(bucket, m)
  BY <1>1, <1>7, <1>8, <1>9 DEF BucketsOK, BucketInv
<1>11. CASE chan' = Tail(chan) /\ UpdateBuckets(bucket, m) /\ UNCHANGED <<reaper, blamed>>
  <2>1. /\ BucketInv' /\ DispatchInv'
        /\ \A q \in Points : bucket'[q] = "registered" => bucket[q] = "registered"
        /\ \A c \in Consumers : member'[c] = "Queued" => m[c] = "Queued"
        /\ \A q \in Points : Dispatched(q)' => Dispatched(q) \/ bucket[q] = "registered"
    BY <1>1, <1>3, <1>6, <1>10, <1>11, UpdateInv DEF TypeOK
  <2>2. ASSUME NEW i \in 2 .. Len(chan), NEW q \in Points, NEW T \in SUBSET Sessions,
               chan[i] = Register(q, T)
        PROVE  bucket'[q] # "registered" /\ ~Dispatched(q)'
    <3>1. i \in 1 .. Len(chan)
      OBVIOUS
    <3>2. bucket[q] # "registered" /\ ~Dispatched(q)
      BY <1>1, <2>2, <3>1 DEF RegisterInv
    <3> QED BY <2>1, <3>2
  <2>3. \A q \in Points, t \in Sessions :
          member'[<<q, t>>] = "Queued" => member[<<q, t>>] = "Queued"
    BY <1>7, <2>1 DEF Consumers
  <2>4. \A q \in Points, t \in Sessions : chan[1] # Delivered(q, t)
    BY <1>4, RecordsDiffer
  <2>5. RegisterInv' /\ RecordInv' /\ FifoInv'
    BY <1>2, <1>3, <1>5, <1>11, <2>2, <2>3, <2>4, ConsumeInv
  <2> QED BY <2>1, <2>5
<1>12. CASE (\E c \in failing : Poison(c)) /\ member' = m /\ UNCHANGED <<bucket, workerVars, comp>>
  <2>1. chan' = <<>> /\ reaper' = "poisoned" /\ UNCHANGED <<worker, wait, comp>>
    BY <1>12 DEF Poison, workerVars
  <2>2. RegisterInv' /\ RecordInv' /\ FifoInv'
    BY <1>3, <1>5, <2>1, PoisonInv
  <2>3. nextFrame \in Nat
    BY <1>1 DEF TypeOK
  <2>4. DispatchInv' /\ \A q \in Points : Dispatched(q)' <=> Dispatched(q)
    BY <1>3, <2>1, <2>3, NoDispatch
  <2>5. \A q \in Points, t \in Sessions : Settled(<<q, t>>)' <=> Settled(<<q, t>>)
    BY <1>3 DEF Settled
  <2>6. BucketInv'
    BY <1>3, <1>10, <1>12, <2>4, <2>5 DEF BucketsOK, BucketInv
  <2> QED BY <2>2, <2>4, <2>6
<1> QED BY <1>2, <1>11, <1>12 DEF m

-----------------------------------------------------------------------------
(* Workers and completions. *)

\* A worker drops only waits that are settled, and completes when none is left
LEMMA WorkerInv ==
    ASSUME ReleaseInv, Next, NEW p \in Points, WorkerStep(p)
    PROVE  RegisterInv' /\ RecordInv' /\ FifoInv' /\ BucketInv' /\ DispatchInv'
<1> USE DEF producerVars, endpointVars, clientVars, bucketVars, workerVars, frontierVars,
            reaperVars
<1>1. TypeOK /\ RecordInv /\ DispatchInv
  BY DEF ReleaseInv
<1>2. UNCHANGED <<nextFrame, token, sess, fence, late, chan, bucket, member, closedSessions,
                  nextPoint, ready, reaper>>
  BY DEF WorkerStep, WorkerCancelled, WorkerScan, WorkerWake, WorkerTimeout, WorkerError
<1>3. worker[p] # "none" /\ Dispatched(p)
  BY DEF WorkerStep, WorkerCancelled, WorkerScan, WorkerWake, WorkerTimeout, WorkerError,
         Dispatched
<1>4. \A q \in Points, s \in Sessions :
        <<q, s>> \in Consumers /\ <<q, s>>[1] = q /\ <<q, s>>[2] = s
  BY DEF Consumers
<1>5. /\ comp[p] = "none" /\ p \notin ready /\ p >= nextPoint /\ p < nextFrame
      /\ \A s \in Sessions : wait[<<p, s>>] \notin {"real", "legacy"} => Settled(<<p, s>>)
  BY <1>1, <1>3 DEF DispatchInv
<1>6. \A q \in Points, s \in Sessions : Settled(<<q, s>>)' <=> Settled(<<q, s>>)
  BY <1>2 DEF Settled
\* what the step does to p, and that it does nothing to any other frame
<1>7. /\ \A q \in Points : q # p => worker'[q] = worker[q] /\ comp'[q] = comp[q]
      /\ \A q \in Points, s \in Sessions : q # p => wait'[<<q, s>>] = wait[<<q, s>>]
      /\ \A s \in Sessions : wait'[<<p, s>>] \notin {"real", "legacy"} => Settled(<<p, s>>)
      /\ worker'[p] # "none" => comp'[p] = "none"
      /\ comp'[p] = "resolved" => NoWaits(p)'
  <2>1. CASE WorkerCancelled(p) \/ WorkerTimeout(p)
    BY <1>1, <1>5, <2>1 DEF WorkerCancelled, WorkerTimeout, TypeOK
  <2>2. CASE WorkerError(p)
    BY <1>1, <1>5, <2>2 DEF WorkerError, Finish, TypeOK
  <2>3. CASE WorkerWake(p)
    <3>1. \A s \in Sessions : wait[<<p, s>>] \in {"real", "legacy"} => Settled(<<p, s>>)
      BY <1>1, <1>4, <2>3 DEF WorkerWake, Waiting, RecordInv, Settled
    <3>2. \A q \in Points, s \in Sessions :
            wait'[<<q, s>>] = IF q = p /\ wait[<<q, s>>] \in {"real", "legacy"}
                                THEN "resolved" ELSE wait[<<q, s>>]
      BY <1>4, <2>3 DEF WorkerWake, Waiting
    <3>3. worker' = [worker EXCEPT ![p] = "none"] /\ comp' = [comp EXCEPT ![p] = "resolved"]
      BY <2>3 DEF WorkerWake, Finish
    <3>4. NoWaits(p)'
      BY <3>2 DEF NoWaits
    <3> QED BY <1>1, <1>5, <3>1, <3>2, <3>3, <3>4 DEF TypeOK
  <2>4. CASE WorkerScan(p)
    <3>1. \A s \in Sessions :
            <<p, s>> \in Orphaned(p) /\ fence[<<p, s>>] = "unsubmitted" => Settled(<<p, s>>)
      <4> SUFFICES ASSUME NEW s \in Sessions, <<p, s>> \in Orphaned(p),
                          fence[<<p, s>>] = "unsubmitted"
                   PROVE  Settled(<<p, s>>)
        OBVIOUS
      <4>1. sess[s] # "open"
        BY <1>1, <1>4 DEF Orphaned, RecordInv
      <4> QED BY <1>1, <1>4, <4>1 DEF Settled, TypeOK
    <3>2. \A q \in Points, s \in Sessions :
            wait'[<<q, s>>] = IF <<q, s>> \notin Orphaned(p) THEN wait[<<q, s>>]
                              ELSE IF fence[<<q, s>>] = "unsubmitted" THEN "resolved" ELSE "real"
      BY <1>4, <2>4 DEF WorkerScan
    <3>3. \A q \in Points, s \in Sessions : <<q, s>> \in Orphaned(p) => q = p
      BY <1>4 DEF Orphaned, Waiting
    <3>4. \A s \in Sessions : wait'[<<p, s>>] \notin {"real", "legacy"} => Settled(<<p, s>>)
      BY <1>5, <3>1, <3>2
    <3>5. CASE worker' = [worker EXCEPT ![p] = "wait"] /\ UNCHANGED comp
      BY <1>1, <1>5, <3>2, <3>3, <3>4, <3>5 DEF TypeOK
    <3>6. CASE /\ Finish(p, "resolved")
               /\ \A c \in Waiting(p) : wait'[c] = "resolved"
      <4>1. NoWaits(p)'
        <5> SUFFICES ASSUME NEW s \in Sessions PROVE wait'[<<p, s>>] \notin {"real", "legacy"}
          BY DEF NoWaits
        <5>1. CASE <<p, s>> \in Waiting(p)
          BY <3>6, <5>1
        <5>2. CASE <<p, s>> \notin Waiting(p)
          <6>1. <<p, s>> \notin Orphaned(p) /\ wait[<<p, s>>] \notin {"real", "legacy"}
            BY <1>4, <5>2 DEF Orphaned, Waiting
          <6> QED BY <3>2, <6>1
        <5> QED BY <5>1, <5>2
      <4> QED BY <1>1, <1>5, <3>2, <3>3, <3>4, <3>6, <4>1 DEF Finish, TypeOK
    <3>7. \/ worker' = [worker EXCEPT ![p] = "wait"] /\ UNCHANGED comp
          \/ /\ Finish(p, "resolved")
             /\ \A c \in Waiting(p) : wait'[c] = "resolved"
      <4> DEFINE w == [c \in Consumers |->
                         IF c \notin Orphaned(p) THEN wait[c]
                         ELSE IF fence[c] = "unsubmitted" THEN "resolved" ELSE "real"]
      <4>1. /\ wait' = w
            /\ IF \E c \in Waiting(p) : w[c] # "resolved"
                 THEN worker' = [worker EXCEPT ![p] = "wait"] /\ UNCHANGED comp
                 ELSE Finish(p, "resolved")
        BY <2>4 DEF WorkerScan
      <4> HIDE DEF w
      <4> QED BY <4>1
    <3> QED BY <3>5, <3>6, <3>7
  <2> QED BY <2>1, <2>2, <2>3, <2>4 DEF WorkerStep
<1>8. \A q \in Points : Dispatched(q)' => Dispatched(q)
  BY <1>2, <1>3, <1>7 DEF Dispatched
<1>9. RegisterInv' /\ RecordInv' /\ FifoInv' /\ BucketInv'
  BY <1>1, <1>2, <1>8, OutsideInv DEF RecordInv, TypeOK
<1>10. DispatchInv'
  <2> SUFFICES ASSUME NEW q \in Points
               PROVE  /\ Dispatched(q)' =>
                           /\ q < nextFrame'
                           /\ \A s \in Sessions :
                                wait'[<<q, s>>] \notin {"real", "legacy"} => Settled(<<q, s>>)'
                      /\ worker'[q] # "none" =>
                           comp'[q] = "none" /\ q \notin ready' /\ q >= nextPoint'
                      /\ comp'[q] = "resolved" => q \notin ready' /\ q >= nextPoint'
                      /\ (comp'[q] = "resolved" \/ q \in ready' \/ q < nextPoint') =>
                           NoWaits(q)'
    BY DEF DispatchInv
  <2>1. CASE q = p
    <3>1. ~(p < nextPoint)
      BY <1>1, <1>5 DEF TypeOK, Points
    <3> QED BY <1>2, <1>5, <1>6, <1>7, <2>1, <3>1
  <2>2. CASE q # p
    BY <1>1, <1>2, <1>6, <1>7, <1>8, <2>2 DEF DispatchInv, NoWaits
  <2> QED BY <2>1, <2>2
<1> QED BY <1>9, <1>10

\* A completion moves its frame to the frontier once nobody is waited for
LEMMA ReapCompletionInv ==
    ASSUME ReleaseInv, Next, NEW p \in Points, ReapResolved(p) \/ ReapFailed(p) \/ ReapPoisoned(p)
    PROVE  RegisterInv' /\ RecordInv' /\ FifoInv' /\ BucketInv' /\ DispatchInv'
<1> USE DEF producerVars, endpointVars, clientVars, bucketVars, workerVars, frontierVars,
            reaperVars
<1>1. TypeOK /\ RecordInv /\ BucketInv /\ DispatchInv
  BY DEF ReleaseInv
<1>2. UNCHANGED <<nextFrame, token, sess, fence, late, bucket, member, closedSessions, worker>>
  BY DEF ReapResolved, ReapFailed, ReapPoisoned
<1>3. /\ comp[p] # "none" /\ Dispatched(p) /\ p < nextFrame /\ worker[p] = "none"
      /\ comp' = [comp EXCEPT ![p] = "none"]
  BY <1>1 DEF ReapResolved, ReapFailed, ReapPoisoned, Consume, Dispatched, DispatchInv
<1>4. \A q \in Points, s \in Sessions :
        <<q, s>> \in Consumers /\ <<q, s>>[1] = q
  BY DEF Consumers
<1>5. \A q \in Points, s \in Sessions : Settled(<<q, s>>)' <=> Settled(<<q, s>>)
  BY <1>2 DEF Settled
<1>6. CASE ReapFailed(p) \/ ReapPoisoned(p)
  <2>1. UNCHANGED <<wait, nextPoint, ready>>
    BY <1>6 DEF ReapFailed, ReapPoisoned
  <2>2. \A q \in Points : Dispatched(q)' => Dispatched(q)
    BY <1>1, <1>2, <1>3, <2>1 DEF Dispatched, TypeOK
  <2>3. DispatchInv'
    BY <1>1, <1>2, <1>3, <1>5, <2>1, <2>2 DEF DispatchInv, NoWaits, TypeOK
  <2>4. BucketInv'
    BY <1>1, <1>2, <1>5, <2>2 DEF BucketInv
  <2>5. RegisterInv' /\ RecordInv' /\ FifoInv'
    <3>1. CASE ReapFailed(p)
      BY <1>1, <1>2, <2>2, <3>1, OutsideInv DEF ReapFailed, RecordInv, TypeOK
    <3>2. CASE ReapPoisoned(p)
      BY <1>1, <1>2, <3>2, PoisonInv DEF ReapPoisoned, Poison, RecordInv
    <3> QED BY <1>6, <3>1, <3>2
  <2> QED BY <2>3, <2>4, <2>5
<1>7. CASE ReapResolved(p)
  <2>1. /\ p \notin ready /\ p >= nextPoint /\ ~(p < nextPoint) /\ NoWaits(p)
        /\ \A s \in Sessions : Settled(<<p, s>>)
    BY <1>1, <1>3, <1>7 DEF ReapResolved, Consume, DispatchInv, NoWaits, TypeOK, Points
  <2>2. PublishResolved(p)
    BY <1>7, <2>1 DEF ReapResolved
  <2>3. \A q \in Points, s \in Sessions :
          wait'[<<q, s>>] = IF q = p THEN "none" ELSE wait[<<q, s>>]
    BY <1>4, <1>7 DEF ReapResolved
  <2>4. /\ \A q \in Points : q \in ready' => q = p \/ q \in ready
        /\ \A q \in Points : q < nextPoint' => q < nextPoint \/ q = p \/ q \in ready
        /\ \A q \in Points : q >= nextPoint /\ q # p /\ q \notin ready => q >= nextPoint'
    <3>1. CASE ready' = ready \cup {p} /\ UNCHANGED nextPoint
      BY <2>1, <3>1
    <3>2. ASSUME NEW x \in nextPoint .. MaxPoint + 1,
                 nextPoint .. (x - 1) \subseteq ready \cup {p},
                 nextPoint' = x, ready' = {y \in ready \cup {p} : y >= x}
          PROVE  /\ \A q \in Points : q \in ready' => q = p \/ q \in ready
                 /\ \A q \in Points : q < nextPoint' => q < nextPoint \/ q = p \/ q \in ready
                 /\ \A q \in Points : q >= nextPoint /\ q # p /\ q \notin ready => q >= nextPoint'
      BY <1>1, <3>2 DEF TypeOK, Points
    <3> QED BY <2>2, <3>1, <3>2 DEF PublishResolved
  <2>5. \A q \in Points : Dispatched(q)' => Dispatched(q)
    <3> SUFFICES ASSUME NEW q \in Points, q # p, Dispatched(q)' PROVE Dispatched(q)
      BY <1>3
    <3>1. worker'[q] = worker[q] /\ comp'[q] = comp[q]
      BY <1>1, <1>2, <1>3 DEF TypeOK
    <3>2. \A s \in Sessions : wait'[<<q, s>>] = wait[<<q, s>>]
      BY <2>3
    <3> QED BY <2>4, <3>1, <3>2 DEF Dispatched
  <2>6. NoWaits(p)' /\ \A q \in Points : q # p => (NoWaits(q)' <=> NoWaits(q))
    BY <2>3 DEF NoWaits
  <2>7. UNCHANGED <<chan, reaper>>
    BY <1>7 DEF ReapResolved
  <2>8. DispatchInv'
    <3> SUFFICES ASSUME NEW q \in Points
                 PROVE  /\ Dispatched(q)' =>
                             /\ q < nextFrame'
                             /\ \A s \in Sessions :
                                  wait'[<<q, s>>] \notin {"real", "legacy"} => Settled(<<q, s>>)'
                        /\ worker'[q] # "none" =>
                             comp'[q] = "none" /\ q \notin ready' /\ q >= nextPoint'
                        /\ comp'[q] = "resolved" => q \notin ready' /\ q >= nextPoint'
                        /\ (comp'[q] = "resolved" \/ q \in ready' \/ q < nextPoint') =>
                             NoWaits(q)'
      BY DEF DispatchInv
    <3>1. CASE q = p
      BY <1>1, <1>2, <1>3, <1>5, <2>1, <2>6, <3>1 DEF TypeOK
    <3>2. CASE q # p
      <4>1. comp'[q] = comp[q] /\ worker'[q] = worker[q]
        BY <1>1, <1>2, <1>3, <3>2 DEF TypeOK
      <4>2. q < nextPoint \/ q >= nextPoint
        BY <1>1 DEF TypeOK, Points
      <4> QED BY <1>1, <1>2, <1>5, <2>3, <2>4, <2>5, <2>6, <3>2, <4>1, <4>2 DEF DispatchInv
    <3> QED BY <3>1, <3>2
  <2>9. RegisterInv' /\ RecordInv' /\ FifoInv' /\ BucketInv'
    BY <1>1, <1>2, <2>5, <2>7, OutsideInv DEF RecordInv, TypeOK
  <2> QED BY <2>8, <2>9
<1> QED BY <1>6, <1>7

-----------------------------------------------------------------------------
(* The invariant is inductive. *)

\* Nothing is registered, delivered or dispatched at the start
LEMMA ReleaseInvInit == Init => ReleaseInv
<1> SUFFICES ASSUME Init PROVE ReleaseInv
  OBVIOUS
<1>1. TypeOK
  BY TypeInit
<1>2. \A p \in Points, s \in Sessions : <<p, s>> \in Consumers
  BY DEF Consumers
<1>3. chan = <<>> /\ Len(chan) = 0 /\ \A i : i \notin 1 .. Len(chan)
  BY DEF Init
<1>4. \A p \in Points : ~Dispatched(p) /\ bucket[p] = "absent"
  <2> SUFFICES ASSUME NEW p \in Points PROVE ~Dispatched(p) /\ bucket[p] = "absent"
    OBVIOUS
  <2>1. worker[p] = "none" /\ comp[p] = "none" /\ bucket[p] = "absent"
    BY DEF Init
  <2>2. p \notin ready /\ ~(p < nextPoint)
    BY DEF Init, Points
  <2>3. \A s \in Sessions : wait[<<p, s>>] = "none"
    BY <1>2 DEF Init
  <2> QED BY <2>1, <2>2, <2>3 DEF Dispatched
<1>5. \A p \in Points, s \in Sessions : token[<<p, s>>] = "none" /\ member[<<p, s>>] = "none"
  BY <1>2 DEF Init
<1>6. RegisterInv /\ FifoInv
  BY <1>3, <1>5 DEF RegisterInv, FifoInv
<1>7. RecordInv
  BY <1>3 DEF RecordInv, Init
<1>8. BucketInv
  BY <1>4, <1>5 DEF BucketInv
<1>9. DispatchInv
  BY <1>4 DEF DispatchInv, Dispatched
<1> QED BY <1>1, <1>6, <1>7, <1>8, <1>9 DEF ReleaseInv

\* A step of the producer or the router: at most one registration is sent
LEMMA ProducerInv ==
    ASSUME ReleaseInv, Next, ProducerNext
    PROVE  RegisterInv' /\ RecordInv' /\ FifoInv' /\ BucketInv' /\ DispatchInv'
<1> USE DEF producerVars, endpointVars, clientVars, bucketVars, workerVars, frontierVars,
            reaperVars
<1>1. TypeOK /\ RecordInv /\ RegisterInv
  BY DEF ReleaseInv
<1>2. /\ nextFrame' \in Nat /\ nextFrame <= nextFrame'
      /\ UNCHANGED <<bucket, member, worker, wait, comp, nextPoint, ready>>
  BY <1>1 DEF ProducerNext, ReleaseSyncobjArrives, RegisterFrame, FrameNotRegistered,
              RetireProducer, TypeOK
<1>3. DispatchInv' /\ \A p \in Points : Dispatched(p)' <=> Dispatched(p)
  BY <1>2, NoDispatch
<1>4. CASE ReleaseSyncobjArrives \/ FrameNotRegistered \/ RetireProducer
  <2>1. UNCHANGED <<chan, token, bucket, member, closedSessions, sess, fence, reaper>>
    BY <1>4 DEF ReleaseSyncobjArrives, FrameNotRegistered, RetireProducer
  <2>2. RegisterInv' /\ RecordInv' /\ FifoInv' /\ BucketInv'
    BY <1>1, <1>2, <1>3, <2>1, OutsideInv DEF RecordInv
  <2> QED BY <1>3, <2>2
<1>5. ASSUME NEW S \in SUBSET Sessions, RegisterFrame(S)
      PROVE  RegisterInv' /\ RecordInv' /\ FifoInv' /\ BucketInv' /\ DispatchInv'
  <2>1. \A p \in Points, s \in Sessions :
          p < nextFrame /\ token[<<p, s>>] = "none" => token'[<<p, s>>] = "none"
    <3>1. \A p \in Points, s \in Sessions : <<p, s>> \in Consumers /\ <<p, s>>[1] = p
      BY DEF Consumers
    <3> QED BY <1>1, <1>5, <3>1 DEF RegisterFrame, TypeOK, Points
  <2>2. BucketInv'
    BY <1>2, <1>3, <2>1, NoBucket
  <2> QED BY <1>3, <1>5, <2>2, RegisterFrameInv
<1> QED BY <1>4, <1>5 DEF ProducerNext

\* A step of an endpoint: tokens only go forward, records follow the tokens
LEMMA EndpointInv ==
    ASSUME ReleaseInv, Next, EndpointNext
    PROVE  RegisterInv' /\ RecordInv' /\ FifoInv' /\ BucketInv' /\ DispatchInv'
<1> USE DEF producerVars, endpointVars, clientVars, bucketVars, workerVars, frontierVars,
            reaperVars
<1>1. TypeOK /\ RecordInv
  BY DEF ReleaseInv
<1> SUFFICES ASSUME NEW s \in Sessions,
                    \/ EndpointQueue(s)
                    \/ \E p \in Points : RelayArm(p, s)
                    \/ CloseSession(s)
                    \/ UnregisterDisplay(s)
             PROVE  RegisterInv' /\ RecordInv' /\ FifoInv' /\ BucketInv' /\ DispatchInv'
  BY DEF EndpointNext
<1>2. /\ nextFrame \in Nat /\ UNCHANGED <<nextFrame, fence, bucket, member, closedSessions>>
      /\ UNCHANGED <<worker, wait, comp, nextPoint, ready, reaper>>
  <2>1. nextFrame \in Nat
    BY <1>1 DEF TypeOK
  <2>2. UNCHANGED <<producerVars, clientVars, bucketVars, workerVars, comp, frontierVars, reaperVars>>
    BY DEF EndpointQueue, ForwardFrame, SkipFrame, DropFrame, RelayArm, CloseSession,
           UnregisterDisplay
  <2> QED BY <2>1, <2>2
<1>3. DispatchInv' /\ \A p \in Points : Dispatched(p)' <=> Dispatched(p)
  BY <1>2, NoDispatch
<1>4. \A p \in Points, t \in Sessions : token[<<p, t>>] = "none" => token'[<<p, t>>] = "none"
  <2>1. CASE UNCHANGED token
    BY <2>1
  <2>2. ASSUME NEW p \in Points, NEW st \in {"delivered", "skipped"},
               token[<<p, s>>] = "held", token' = [token EXCEPT ![<<p, s>>] = st]
        PROVE  \A q \in Points, t \in Sessions :
                 token[<<q, t>>] = "none" => token'[<<q, t>>] = "none"
    <3>1. DOMAIN token = Consumers
      BY <1>1 DEF TypeOK
    <3> SUFFICES ASSUME NEW q \in Points, NEW t \in Sessions, token[<<q, t>>] = "none"
                 PROVE  token'[<<q, t>>] = "none"
      OBVIOUS
    <3>2. <<q, t>> \in Consumers /\ <<q, t>> # <<p, s>>
      BY <2>2 DEF Consumers
    <3> QED BY <2>2, <3>1, <3>2
  <2>3. ASSUME NEW p \in Points, ForwardFrame(p, s) \/ SkipFrame(p, s) \/ DropFrame(p, s)
        PROVE  \E st \in {"delivered", "skipped"} :
                 token[<<p, s>>] = "held" /\ token' = [token EXCEPT ![<<p, s>>] = st]
    <3>1. CASE ForwardFrame(p, s)
      <4>1. token[<<p, s>>] = "held" /\ token' = [token EXCEPT ![<<p, s>>] = "delivered"]
        BY <3>1 DEF ForwardFrame, Oldest
      <4> QED BY <4>1
    <3>2. CASE SkipFrame(p, s)
      <4>1. token[<<p, s>>] = "held" /\ token' = [token EXCEPT ![<<p, s>>] = "skipped"]
        BY <3>2 DEF SkipFrame, Oldest
      <4> QED BY <4>1
    <3>3. CASE DropFrame(p, s)
      <4>1. token[<<p, s>>] = "held" /\ token' = [token EXCEPT ![<<p, s>>] = "skipped"]
        BY <3>3 DEF DropFrame, Oldest
      <4> QED BY <4>1
    <3> QED BY <2>3, <3>1, <3>2, <3>3
  <2>4. CASE EndpointQueue(s)
    BY <2>2, <2>3, <2>4 DEF EndpointQueue
  <2>5. CASE ~EndpointQueue(s)
    BY <2>1, <2>5 DEF RelayArm, CloseSession, UnregisterDisplay
  <2> QED BY <2>4, <2>5
<1>5. BucketInv'
  BY <1>2, <1>3, <1>4, NoBucket
<1>6. CASE EndpointQueue(s) \/ \E p \in Points : RelayArm(p, s)
  BY <1>3, <1>5, <1>6, EndpointTokenInv DEF EndpointQueue
<1>7. CASE CloseSession(s)
  BY <1>3, <1>5, <1>7, CloseSessionInv
<1>8. CASE UnregisterDisplay(s)
  <2>1. /\ UNCHANGED <<chan, token>>
        /\ \A t \in Sessions : sess[t] # "open" => sess'[t] # "open"
    BY <1>1, <1>8 DEF UnregisterDisplay, TypeOK
  <2>2. RegisterInv' /\ RecordInv' /\ FifoInv'
    BY <1>1, <1>2, <1>3, <2>1, OutsideInv DEF RecordInv
  <2> QED BY <1>3, <1>5, <2>2
<1> QED BY <1>6, <1>7, <1>8

\* A fence is submitted or signals: only a delivered frame has one
LEMMA ClientInv ==
    ASSUME ReleaseInv, Next, ClientNext
    PROVE  RegisterInv' /\ RecordInv' /\ FifoInv' /\ BucketInv' /\ DispatchInv'
<1>1. TypeOK /\ RecordInv
  BY DEF ReleaseInv
<1>2. /\ nextFrame \in Nat
      /\ UNCHANGED <<nextFrame, token, sess, bucket, member, closedSessions, chan, reaper>>
      /\ UNCHANGED <<worker, wait, comp, nextPoint, ready>>
  BY <1>1 DEF ClientNext, SubmitFence, SignalFence, TypeOK, producerVars, endpointVars,
              bucketVars, workerVars, frontierVars, reaperVars
<1>3. \A c \in Consumers : fence'[c] # "unsubmitted" => token[c] = "delivered"
  BY <1>1 DEF ClientNext, SubmitFence, SignalFence, TypeOK, RecordInv
<1>4. DispatchInv' /\ \A p \in Points : Dispatched(p)' <=> Dispatched(p)
  BY <1>2, NoDispatch
<1> QED BY <1>2, <1>3, <1>4, OutsideInv

\* A step of the reaper that consumes a record, or finds no sender left
LEMMA RecordsInv ==
    ASSUME ReleaseInv, Next, ReaperRecords
    PROVE  RegisterInv' /\ RecordInv' /\ FifoInv' /\ BucketInv' /\ DispatchInv'
<1> USE DEF producerVars, endpointVars, clientVars, bucketVars, workerVars, frontierVars,
            reaperVars
<1>1. TypeOK /\ RecordInv
  BY DEF ReleaseInv
<1>2. ASSUME NEW p \in Points, NEW s \in Sessions, ReapArmedPoison(p, s)
      PROVE  RegisterInv' /\ RecordInv' /\ FifoInv' /\ BucketInv' /\ DispatchInv'
  <2>1. /\ chan' = <<>> /\ reaper' = "poisoned" /\ nextFrame \in Nat
        /\ UNCHANGED <<nextFrame, token, sess, fence, bucket, member, closedSessions>>
        /\ UNCHANGED <<worker, wait, comp, nextPoint, ready>>
    BY <1>1, <1>2 DEF ReapArmedPoison, Poison, TypeOK
  <2>2. DispatchInv' /\ \A q \in Points : Dispatched(q)' <=> Dispatched(q)
    BY <2>1, NoDispatch
  <2>3. BucketInv'
    BY <2>1, <2>2, NoBucket
  <2>4. \A t \in closedSessions' : sess[t] # "open"
    BY <1>1, <2>1 DEF RecordInv
  <2> QED BY <2>1, <2>2, <2>3, <2>4, PoisonInv
<1>3. CASE ReaperExit
  <2>1. /\ nextFrame \in Nat /\ reaper = "running"
        /\ UNCHANGED <<nextFrame, token, sess, fence, bucket, member, closedSessions, chan>>
        /\ UNCHANGED <<worker, wait, comp, nextPoint, ready>>
    BY <1>1, <1>3 DEF ReaperExit, TypeOK
  <2>2. DispatchInv' /\ \A q \in Points : Dispatched(q)' <=> Dispatched(q)
    BY <2>1, NoDispatch
  <2>3. \A c \in Consumers : fence'[c] # "unsubmitted" => token[c] = "delivered"
    BY <1>1, <2>1 DEF RecordInv
  <2> QED BY <2>1, <2>2, <2>3, OutsideInv
<1> QED BY <1>2, <1>3, ReapRegisterInv, ReapMemberInv, ReapMisfitInv, ReapClosedInv
        DEF ReaperRecords

\* Every step keeps the invariant
LEMMA ReleaseInvStep == ReleaseInv /\ [Next]_vars => ReleaseInv'
<1> SUFFICES ASSUME ReleaseInv, [Next]_vars PROVE ReleaseInv'
  OBVIOUS
<1>1. TypeOK'
  BY TypeStep DEF ReleaseInv
<1>2. CASE Next
  BY <1>1, <1>2, ProducerInv, EndpointInv, ClientInv, RecordsInv, ReapCompletionInv, WorkerInv
     DEF Next, ReaperCompletions, ReleaseInv
<1>3. CASE UNCHANGED vars
  <2>1. /\ UNCHANGED <<nextFrame, token, sess, fence, late, chan, reaper>>
        /\ UNCHANGED <<bucket, member, closedSessions, worker, wait, comp, nextPoint, ready>>
    BY <1>3 DEF vars, producerVars, endpointVars, clientVars, bucketVars, workerVars,
                frontierVars, reaperVars
  <2>2. \A p : (Dispatched(p)' <=> Dispatched(p)) /\ (NoWaits(p)' <=> NoWaits(p))
    BY <2>1 DEF Dispatched, NoWaits
  <2>3. \A c : Settled(c)' <=> Settled(c)
    BY <2>1 DEF Settled
  <2>4. RegisterInv'
    BY <2>1, <2>2 DEF ReleaseInv, RegisterInv
  <2>5. RecordInv'
    BY <2>1 DEF ReleaseInv, RecordInv
  <2>6. FifoInv'
    BY <2>1 DEF ReleaseInv, FifoInv, Expects
  <2>7. BucketInv'
    BY <2>1, <2>2, <2>3 DEF ReleaseInv, BucketInv
  <2>8. DispatchInv'
    BY <2>1, <2>2, <2>3 DEF ReleaseInv, DispatchInv
  <2> QED BY <1>1, <2>4, <2>5, <2>6, <2>7, <2>8 DEF ReleaseInv
<1> QED BY <1>2, <1>3

\* A registered frame below next_point is dispatched, nobody of it is waited for,
\* and so every session it was delivered to is settled
LEMMA SettledWhenPublished == ReleaseInv => NoEarlyRelease
<1> SUFFICES ASSUME ReleaseInv, NEW p \in Points, NEW s \in Sessions,
                    p < nextPoint, token[<<p, s>>] = "delivered"
             PROVE  \/ fence[<<p, s>>] = "signaled"
                    \/ /\ sess[s] # "open"
                       /\ fence[<<p, s>>] = "unsubmitted" \/ <<p, s>> \in late
  BY DEF NoEarlyRelease
<1>1. Dispatched(p) /\ NoWaits(p)
  BY DEF ReleaseInv, DispatchInv, Dispatched
<1>2. Settled(<<p, s>>)
  BY <1>1 DEF ReleaseInv, DispatchInv, NoWaits
<1>3. <<p, s>>[2] = s
  OBVIOUS
<1> QED BY <1>2, <1>3 DEF Settled

\* A buffer goes back to its producer only when no display uses it: each display
\* it was delivered to has signaled its fence, or closed without submitting one
THEOREM ReleaseSafe == Spec => []NoEarlyRelease
<1>1. Init => ReleaseInv
  BY ReleaseInvInit
<1>2. ReleaseInv /\ [Next]_vars => ReleaseInv'
  BY ReleaseInvStep
<1>3. ReleaseInv => NoEarlyRelease
  BY SettledWhenPublished
<1> QED BY <1>1, <1>2, <1>3, PTL DEF Spec

\* No frame is resolved a second time after the frontier took it
THEOREM ResolveSafe == Spec => []ResolvedOnce
<1>1. Init => ReleaseInv
  BY ReleaseInvInit
<1>2. ReleaseInv /\ [Next]_vars => ReleaseInv'
  BY ReleaseInvStep
<1>3. ReleaseInv => ResolvedOnce
  BY DEF ReleaseInv, DispatchInv, ResolvedOnce
<1> QED BY <1>1, <1>2, <1>3, PTL DEF Spec

-----------------------------------------------------------------------------
(* The refinement. *)

\* A consumer is a pair of a point and a session
LEMMA ConsumerFact ==
    \A c \in Consumers : c[1] \in Points /\ c[2] \in Sessions /\ c = <<c[1], c[2]>>
BY DEF Consumers

\* A frame is published with the sessions that are still open
LEMMA PublishStep ==
    ASSUME ReleaseInv, NEW S \in SUBSET Sessions, RegisterFrame(S)
    PROVE  Abstract!Next
<1> DEFINE Open == {s \in S : sess[s] = "open"}
<1>1. /\ nextFrame \in Points /\ nextFrame' = nextFrame + 1
      /\ UNCHANGED <<nextPoint, sess, fence, late>>
      /\ \A c \in Consumers : token'[c] = IF c[1] = nextFrame /\ c[2] \in S THEN "held"
                                          ELSE token[c]
  BY DEF RegisterFrame, ReleaseInv, TypeOK, Points, clientVars, frontierVars
<1>2. \A c \in Consumers : c[1] = nextFrame => token[c] = "none"
  <2>1. \A p \in Points, s \in Sessions : token[<<p, s>>] # "none" => p < nextFrame
    BY DEF ReleaseInv, RegisterInv
  <2> QED BY <1>1, <2>1, ConsumerFact DEF Points
<1>3. \A c \in Consumers : c[1] < nextFrame => (Settled(c)' <=> Settled(c))
  BY <1>1 DEF Settled, Points
<1>4. \A c \in Consumers : c[1] = nextFrame => (~Settled(c)' <=> c[2] \in Open)
  BY <1>1, <1>2, ConsumerFact DEF Settled
<1>5. Using' = Using \cup ({nextFrame} \X Open)
  <2>1. \A c \in Consumers : c \in Using' <=> c \in Using \/ c \in {nextFrame} \X Open
    <3>1. \A c \in Consumers : c[1] \in Nat /\ nextFrame \in Nat
      BY <1>1, ConsumerFact DEF Points
    <3>2. \A c \in Consumers : c \in {nextFrame} \X Open <=> c[1] = nextFrame /\ c[2] \in Open
      BY ConsumerFact
    <3> QED BY <1>1, <1>3, <1>4, <3>1, <3>2 DEF Using
  <2>2. {nextFrame} \X Open \subseteq Consumers
    BY <1>1 DEF Consumers
  <2> QED BY <2>1, <2>2 DEF Using
<1>6. Open \in SUBSET Sessions
  OBVIOUS
<1>7. nextFrame - 1 < MaxPoint /\ nextFrame' - 1 = (nextFrame - 1) + 1 /\ nextFrame' - 1 = nextFrame
  BY <1>1, PointAssumption DEF Points
<1>8. Abstract!Publish(Open)
  BY <1>1, <1>5, <1>7 DEF Abstract!Publish
<1> QED BY <1>6, <1>8 DEF Abstract!Next

\* A frame the reaper never hears of is used by nobody
LEMMA LossStep ==
    ASSUME ReleaseInv, FrameNotRegistered
    PROVE  Abstract!Next
<1>1. /\ nextFrame \in Points /\ nextFrame' = nextFrame + 1
      /\ UNCHANGED <<nextPoint, token, sess, fence, late>>
  BY DEF FrameNotRegistered, ReleaseInv, TypeOK, Points, endpointVars, clientVars, frontierVars
<1>2. \A c \in Consumers : c[1] = nextFrame => Settled(c)
  <2>1. \A p \in Points, s \in Sessions : token[<<p, s>>] # "none" => p < nextFrame
    BY DEF ReleaseInv, RegisterInv
  <2> QED BY <1>1, <2>1, ConsumerFact DEF Points, Settled
<1>3. \A c \in Consumers : Settled(c)' <=> Settled(c)
  BY <1>1 DEF Settled
<1>4. Using' = Using
  <2>1. \A c \in Consumers : c[1] \in Nat /\ nextFrame \in Nat
    BY <1>1, ConsumerFact DEF Points
  <2> QED BY <1>1, <1>2, <1>3, <2>1 DEF Using
<1>5. {nextFrame} \X {} = {}
  OBVIOUS
<1>6. nextFrame - 1 < MaxPoint /\ nextFrame' - 1 = (nextFrame - 1) + 1 /\ nextFrame' - 1 = nextFrame
  BY <1>1, PointAssumption DEF Points
<1>7. Abstract!Publish({})
  BY <1>1, <1>4, <1>5, <1>6 DEF Abstract!Publish
<1> QED BY <1>7 DEF Abstract!Next

\* A step of one session or of its client: at most, it is done with some frames
LEMMA FinishStep ==
    ASSUME ReleaseInv, Next, UNCHANGED <<nextFrame, nextPoint>>, NEW s \in Sessions,
           \A c \in Consumers : c[2] # s => (Settled(c)' <=> Settled(c))
    PROVE  [Abstract!Next]_Abstract!vars
<1>1. Using' \subseteq Using
  BY SettledStep DEF Using, ReleaseInv
<1>2. \A c \in Using \ Using' : c[2] = s
  BY DEF Using
<1>3. CASE Using' = Using
  BY <1>3 DEF Abstract!vars
<1>4. CASE Using' # Using
  BY <1>1, <1>2, <1>4 DEF Abstract!Next, Abstract!Finish
<1> QED BY <1>3, <1>4

\* The endpoint of s touches only what belongs to s
LEMMA EndpointStep ==
    ASSUME ReleaseInv, Next, EndpointNext
    PROVE  [Abstract!Next]_Abstract!vars
<1> SUFFICES ASSUME NEW s \in Sessions,
                    \/ EndpointQueue(s)
                    \/ \E p \in Points : RelayArm(p, s)
                    \/ CloseSession(s)
                    \/ UnregisterDisplay(s)
             PROVE  [Abstract!Next]_Abstract!vars
  BY DEF EndpointNext
<1>1. UNCHANGED <<nextFrame, nextPoint, fence, late>>
  BY DEF EndpointQueue, ForwardFrame, SkipFrame, DropFrame, RelayArm, CloseSession,
         UnregisterDisplay, producerVars, frontierVars, clientVars
<1>2. \A c \in Consumers : c[2] # s => token'[c] = token[c] /\ sess'[c[2]] = sess[c[2]]
  <2>1. TypeOK
    BY DEF ReleaseInv
  <2>2. CASE EndpointQueue(s)
    <3>1. PICK p \in Points : ForwardFrame(p, s) \/ SkipFrame(p, s) \/ DropFrame(p, s)
      BY <2>2 DEF EndpointQueue
    <3>2. \A c \in Consumers : c[2] # s => c # <<p, s>>
      OBVIOUS
    <3>3. /\ UNCHANGED sess
          /\ \E st \in {"delivered", "skipped"} : token' = [token EXCEPT ![<<p, s>>] = st]
      <4>1. UNCHANGED sess
        BY <3>1 DEF ForwardFrame, SkipFrame, DropFrame
      <4>2. ASSUME ForwardFrame(p, s)
            PROVE  token' = [token EXCEPT ![<<p, s>>] = "delivered"]
        BY <4>2 DEF ForwardFrame
      <4>3. ASSUME SkipFrame(p, s) \/ DropFrame(p, s)
            PROVE  token' = [token EXCEPT ![<<p, s>>] = "skipped"]
        BY <4>3 DEF SkipFrame, DropFrame
      <4> QED BY <3>1, <4>1, <4>2, <4>3
    <3>4. DOMAIN token = Consumers
      BY <2>1 DEF TypeOK
    <3> QED BY <3>2, <3>3, <3>4
  <2>3. CASE ~EndpointQueue(s)
    <3>1. UNCHANGED token
      BY <2>3 DEF RelayArm, CloseSession, UnregisterDisplay
    <3>2. UNCHANGED sess \/ \E st \in {"closed", "gone"} : sess' = [sess EXCEPT ![s] = st]
      <4>1. CASE \E p \in Points : RelayArm(p, s)
        BY <4>1 DEF RelayArm
      <4>2. CASE CloseSession(s)
        BY <4>2 DEF CloseSession
      <4>3. CASE UnregisterDisplay(s)
        BY <4>3 DEF UnregisterDisplay
      <4> QED BY <2>3, <4>1, <4>2, <4>3
    <3>3. DOMAIN sess = Sessions
      BY <2>1 DEF TypeOK
    <3> QED BY <3>1, <3>2, <3>3, ConsumerFact
  <2> QED BY <2>2, <2>3
<1>3. \A c \in Consumers : c[2] # s => (Settled(c)' <=> Settled(c))
  BY <1>1, <1>2 DEF Settled
<1> QED BY <1>1, <1>3, FinishStep

LEMMA ClientStep ==
    ASSUME ReleaseInv, Next, ClientNext
    PROVE  [Abstract!Next]_Abstract!vars
<1>1. PICK d \in Consumers : SubmitFence(d) \/ SignalFence(d)
  BY DEF ClientNext
<1>2. UNCHANGED <<nextFrame, nextPoint, token, sess>>
  BY <1>1 DEF SubmitFence, SignalFence, producerVars, frontierVars, endpointVars
<1>3. \A c \in Consumers : c # d => /\ fence'[c] = fence[c]
                                    /\ c \in late' <=> c \in late
  BY <1>1 DEF SubmitFence, SignalFence, ReleaseInv, TypeOK
<1>4. \A c \in Consumers : c[2] # d[2] => (Settled(c)' <=> Settled(c))
  BY <1>2, <1>3 DEF Settled
<1> QED BY <1>2, <1>4, ConsumerFact, FinishStep

\* A step that leaves users and frontier alone is invisible
LEMMA HiddenStep ==
    ASSUME UNCHANGED <<nextFrame, nextPoint, token, sess, fence, late>>
    PROVE  UNCHANGED Abstract!vars
<1>1. \A c : Settled(c)' <=> Settled(c)
  BY DEF Settled
<1> QED BY <1>1 DEF Abstract!vars, Using

\* The frontier passes only points nobody uses, and only published ones
LEMMA ResolveStep ==
    ASSUME ReleaseInv, ReleaseInv', NEW p \in Points, ReapResolved(p)
    PROVE  [Abstract!Next]_Abstract!vars
<1>1. UNCHANGED <<nextFrame, token, sess, fence, late>>
  BY DEF ReapResolved, producerVars, endpointVars, clientVars
<1>2. /\ nextPoint \in Nat /\ nextPoint >= 1
      /\ nextPoint' \in Nat /\ nextPoint' <= MaxPoint + 1
      /\ nextFrame \in Nat /\ MaxPoint \in Nat
  BY PointAssumption DEF ReleaseInv, TypeOK
<1>3. nextPoint <= nextPoint'
  BY <1>2 DEF ReapResolved, PublishResolved, frontierVars
<1>4. CASE nextPoint' = nextPoint
  BY <1>1, <1>4, HiddenStep
<1>5. CASE nextPoint < nextPoint'
  <2>0. PICK n \in Nat : nextPoint' = n + 1
    <3>1. \A i, j \in Nat : i < j => \E n \in Nat : j = n + 1
      <4>1. \A i, j \in Nat : i < j => j - 1 \in Nat /\ j = (j - 1) + 1
        OBVIOUS
      <4> QED BY <4>1
    <3> QED BY <1>2, <1>5, <3>1
  <2>1. \A q \in Points : q < nextPoint' => /\ q < nextFrame
                                            /\ \A s \in Sessions : Settled(<<q, s>>)
    <3>1. \A q \in Points : q < nextPoint' => Dispatched(q)' /\ NoWaits(q)'
      BY DEF ReleaseInv, DispatchInv, Dispatched
    <3>2. \A q \in Points : q < nextPoint' =>
            q < nextFrame' /\ \A s \in Sessions : Settled(<<q, s>>)'
      BY <3>1 DEF ReleaseInv, DispatchInv, NoWaits
    <3>3. \A c : Settled(c)' <=> Settled(c)
      BY <1>1 DEF Settled
    <3> QED BY <1>1, <3>2, <3>3
  <2>2. n \in Points /\ n \in 1 .. nextFrame - 1
    <3>1. n \in Points /\ n < nextPoint' /\ n \in Nat /\ n >= 1
      BY <1>2, <1>5, <2>0, PointAssumption DEF Points
    <3>2. n < nextFrame
      BY <2>1, <3>1
    <3> QED BY <1>2, <3>1, <3>2
  <2>3. \A c \in Using : c[1] > n
    BY <1>2, <2>0, <2>1, ConsumerFact DEF Using, Points
  <2>4. Using' = Using /\ nextFrame' - 1 = nextFrame - 1
    <3>1. \A c : Settled(c)' <=> Settled(c)
      BY <1>1 DEF Settled
    <3> QED BY <1>1, <3>1 DEF Using
  <2>5. nextPoint - 1 < n /\ n = nextPoint' - 1
    BY <1>2, <1>5, <2>0, PointAssumption
  <2>6. Abstract!Release(n)
    BY <2>3, <2>4, <2>5 DEF Abstract!Release
  <2> QED BY <2>2, <2>6 DEF Abstract!Next
<1> QED BY <1>2, <1>3, <1>4, <1>5

\* Nobody uses anything at the start
LEMMA RefineInit == Init => Abstract!Init
<1> SUFFICES ASSUME Init PROVE Abstract!Init
  OBVIOUS
<1>1. Using = {}
  BY ConsumerFact DEF Init, Using, Points
<1> QED BY <1>1 DEF Init, Abstract!Init

\* Every step is one of FrameRelease, or invisible to it
LEMMA RefineStep ==
    ReleaseInv /\ ReleaseInv' /\ [Next]_vars => [Abstract!Next]_Abstract!vars
<1> SUFFICES ASSUME ReleaseInv, ReleaseInv', [Next]_vars
             PROVE  [Abstract!Next]_Abstract!vars
  OBVIOUS
<1> USE DEF producerVars, endpointVars, clientVars, frontierVars
<1>1. CASE Next /\ ProducerNext
  <2>1. CASE ReleaseSyncobjArrives \/ RetireProducer
    BY <2>1, HiddenStep DEF ReleaseSyncobjArrives, RetireProducer
  <2> QED BY <1>1, <2>1, PublishStep, LossStep DEF ProducerNext
<1>2. CASE Next /\ ReaperRecords
  <2>1. UNCHANGED <<nextFrame, nextPoint, token, sess, fence, late>>
    BY <1>2 DEF ReaperRecords, ReapRegister, ReapDelivered, ReapArmed, ReapArmedPoison,
                ReapSkipped, ReapMisfit, ReapClosed, ReaperExit
  <2> QED BY <2>1, HiddenStep
<1>3. CASE Next /\ ReaperCompletions
  <2> SUFFICES ASSUME NEW p \in Points, ReapFailed(p) \/ ReapPoisoned(p)
               PROVE  [Abstract!Next]_Abstract!vars
    BY <1>3, ResolveStep DEF ReaperCompletions
  <2> QED BY HiddenStep DEF ReapFailed, ReapPoisoned
<1>4. ASSUME NEW p \in Points, WorkerStep(p)
      PROVE  [Abstract!Next]_Abstract!vars
  BY <1>4, HiddenStep DEF WorkerStep, WorkerCancelled, WorkerScan, WorkerWake, WorkerTimeout,
                          WorkerError
<1>5. CASE UNCHANGED vars
  BY <1>5, HiddenStep DEF vars
<1> QED BY <1>1, <1>2, <1>3, <1>4, <1>5, EndpointStep, ClientStep DEF Next

\* The reaper with its workers, endpoints and clients implements FrameRelease:
\* frames go back in order, none while somebody uses it
THEOREM ReleaseRefines == Spec => ImplementsRelease
<1>1. Init => ReleaseInv
  BY ReleaseInvInit
<1>2. ReleaseInv /\ [Next]_vars => ReleaseInv'
  BY ReleaseInvStep
<1>3. Init => Abstract!Init
  BY RefineInit
<1>4. ReleaseInv /\ ReleaseInv' /\ [Next]_vars => [Abstract!Next]_Abstract!vars
  BY RefineStep
<1> QED BY <1>1, <1>2, <1>3, <1>4, PTL DEF Spec, ImplementsRelease, Abstract!Spec

-----------------------------------------------------------------------------
(* Wait facts. *)

\* The fact f says of every consumer whether it is waited for, in a bucket (m) or
\* by a worker (w), and in which state
FactsFit(m, w, f) ==
    \A c \in Consumers :
      /\ f[c] = "unarmed" <=> m[c] = "DeliveredUnarmed"
      /\ f[c] = "armed" <=> \/ m[c] \in {"Armed", "ArmedLegacy"}
                            \/ w[c] # "none"

\* An update of the buckets leaves a member in its bucket or dispatches it, which
\* turns an armed member into a wait and forgets the others
LEMMA UpdateMoves ==
    ASSUME NEW b, NEW m, UpdateBuckets(b, m), TypeOK, NEW c \in Consumers
    PROVE  \/ /\ member'[c] = m[c] /\ wait'[c] = wait[c]
              /\ bucket'[c[1]] = b[c[1]]
           \/ /\ m[c] \in {"Armed", "ArmedLegacy"}
              /\ member'[c] = "none" /\ wait'[c] \in {"real", "legacy"}
              /\ bucket'[c[1]] = "absent"
           \/ /\ m[c] \in {"none", "Skipped"}
              /\ member'[c] = "none" /\ wait'[c] = wait[c]
              /\ bucket'[c[1]] = "absent"
<1> DEFINE D == ReadyPoints(b, m)
<1>1. /\ bucket' = [p \in Points |-> IF p \in D THEN "absent" ELSE b[p]]
      /\ member' = [d \in Consumers |-> IF d[1] \in D THEN "none" ELSE m[d]]
      /\ wait' = [d \in Consumers |->
                    CASE d[1] \in D /\ m[d] = "Armed" -> "real"
                      [] d[1] \in D /\ m[d] = "ArmedLegacy" -> "legacy"
                      [] OTHER -> wait[d]]
  BY DEF UpdateBuckets
<1>2. c[1] \in Points /\ c[2] \in Sessions /\ c = <<c[1], c[2]>>
  BY DEF Consumers
<1>3. c[1] \in D => m[c] \in {"none", "Armed", "ArmedLegacy", "Skipped"}
  BY <1>2 DEF ReadyPoints
<1> HIDE DEF D
<1>4. /\ bucket'[c[1]] = IF c[1] \in D THEN "absent" ELSE b[c[1]]
      /\ member'[c] = IF c[1] \in D THEN "none" ELSE m[c]
      /\ wait'[c] = CASE c[1] \in D /\ m[c] = "Armed" -> "real"
                      [] c[1] \in D /\ m[c] = "ArmedLegacy" -> "legacy"
                      [] OTHER -> wait[c]
  BY <1>1, <1>2
<1>5. CASE c[1] \notin D
  BY <1>4, <1>5
<1>6. CASE c[1] \in D
  BY <1>3, <1>4, <1>6
<1> QED BY <1>5, <1>6

\* Facts that fit the maps to be stored fit the maps an update leaves behind
LEMMA UpdateFacts ==
    ASSUME NEW b, NEW m, UpdateBuckets(b, m), TypeOK, FactsFit(m, wait, fact')
    PROVE  FactsFit(member', wait', fact')
<1> SUFFICES ASSUME NEW c \in Consumers
             PROVE  /\ fact'[c] = "unarmed" <=> member'[c] = "DeliveredUnarmed"
                    /\ fact'[c] = "armed" <=> \/ member'[c] \in {"Armed", "ArmedLegacy"}
                                              \/ wait'[c] # "none"
  BY DEF FactsFit
<1>1. /\ fact'[c] = "unarmed" <=> m[c] = "DeliveredUnarmed"
      /\ fact'[c] = "armed" <=> m[c] \in {"Armed", "ArmedLegacy"} \/ wait[c] # "none"
  BY DEF FactsFit
<1> QED BY <1>1, UpdateMoves

\* A member of a bucket is no longer, or not yet, waited for by a worker
LEMMA MemberUnwaited ==
    ASSUME ReleaseInv, NEW c \in Consumers, member[c] # "none"
    PROVE  wait[c] = "none" /\ bucket[c[1]] = "registered"
<1>1. c[1] \in Points /\ c[2] \in Sessions /\ c = <<c[1], c[2]>>
  BY DEF Consumers
<1>2. bucket[c[1]] = "registered"
  BY <1>1 DEF ReleaseInv, BucketInv
<1>3. ~Dispatched(c[1])
  BY <1>1, <1>2 DEF ReleaseInv, BucketInv
<1> QED BY <1>1, <1>2, <1>3 DEF Dispatched

\* Consuming a registration reports nothing: its members are new
LEMMA RegisterFacts ==
    ASSUME ReleaseInv, FactsFit(member, wait, fact), NEW p \in Points, NEW S \in SUBSET Sessions,
           ReapRegister(p, S)
    PROVE  FactsFit(member', wait', fact')
<1> DEFINE b == [bucket EXCEPT ![p] = "registered"]
           m == [c \in Consumers |-> IF c[1] = p /\ c[2] \in S THEN "Queued" ELSE member[c]]
<1>1. /\ UpdateBuckets(b, m) /\ bucket[p] # "registered" /\ fact' = fact /\ TypeOK
  BY DEF ReapRegister, reaperVars, ReleaseInv
<1>2. \A c \in Consumers : c[1] = p => member[c] = "none"
  BY <1>1, MemberUnwaited
<1>3. \A c \in Consumers : \/ m[c] = member[c]
                           \/ m[c] = "Queued" /\ member[c] = "none"
  <2> SUFFICES ASSUME NEW c \in Consumers
               PROVE  m[c] = member[c] \/ (m[c] = "Queued" /\ member[c] = "none")
    OBVIOUS
  <2>1. m[c] = IF c[1] = p /\ c[2] \in S THEN "Queued" ELSE member[c]
    OBVIOUS
  <2> QED BY <1>2, <2>1
<1> HIDE DEF b, m
<1>4. FactsFit(m, wait, fact')
  BY <1>1, <1>3 DEF FactsFit
<1> QED BY <1>1, <1>4, UpdateFacts

\* A delivery, an arm or a skip is reported for the member it concerns
LEMMA MemberFacts ==
    ASSUME ReleaseInv, FactsFit(member, wait, fact), NEW p \in Points, NEW s \in Sessions,
           ReapDelivered(p, s) \/ ReapArmed(p, s) \/ ReapSkipped(p, s)
    PROVE  FactsFit(member', wait', fact')
<1> DEFINE c == <<p, s>>
<1>1. PICK st \in {"DeliveredUnarmed", "Armed", "ArmedLegacy", "Skipped"} :
        /\ UpdateBuckets(bucket, [member EXCEPT ![c] = st])
        /\ st = "DeliveredUnarmed" => fact' = [fact EXCEPT ![c] = "unarmed"]
        /\ st \in {"Armed", "ArmedLegacy"} => fact' = [fact EXCEPT ![c] = "armed"]
        /\ st = "Skipped" => fact' = fact /\ member[c] = "Queued"
  BY DEF ReapDelivered, ReapArmed, ReapSkipped, InState, reaperVars
<1>2. c \in Consumers /\ member[c] \in {"Queued", "DeliveredUnarmed"} /\ TypeOK
  BY DEF ReapDelivered, ReapArmed, ReapSkipped, InState, ReleaseInv, Consumers
<1> DEFINE m == [member EXCEPT ![c] = st]
<1> HIDE DEF c
<1>3. wait[c] = "none"
  BY <1>2, MemberUnwaited
<1>4. \A d \in Consumers : m[d] = IF d = c THEN st ELSE member[d]
  BY <1>2 DEF TypeOK
<1>5. \A d \in Consumers :
        /\ d # c => fact'[d] = fact[d]
        /\ st = "DeliveredUnarmed" => fact'[c] = "unarmed"
        /\ st \in {"Armed", "ArmedLegacy"} => fact'[c] = "armed"
        /\ st = "Skipped" => fact'[c] = fact[c] /\ member[c] = "Queued"
  BY <1>1, <1>2 DEF TypeOK
<1> HIDE DEF m
<1>6. FactsFit(m, wait, fact')
  BY <1>2, <1>3, <1>4, <1>5 DEF FactsFit
<1> QED BY <1>1, <1>2, <1>6, UpdateFacts DEF m

\* The close of a session is reported for each of its members that awaited an arm
LEMMA ClosedFacts ==
    ASSUME ReleaseInv, FactsFit(member, wait, fact), NEW s \in Sessions, ReapClosed(s),
           reaper' = "running"
    PROVE  FactsFit(member', wait', fact')
<1>1. PICK failing \in SUBSET Consumers :
        LET m == ClassifyOnClose(s, failing)
        IN  /\ fact' = [c \in Consumers |->
                    CASE member[c] = "DeliveredUnarmed" /\ m[c] = "Skipped" -> "none"
                      [] member[c] = "DeliveredUnarmed" /\ m[c] = "Armed" -> "armed"
                      [] OTHER -> fact[c]]
            /\ UpdateBuckets(bucket, m) \/ \E c \in failing : Poison(c)
  BY DEF ReapClosed
<1> DEFINE m == ClassifyOnClose(s, failing)
<1>2. UpdateBuckets(bucket, m) /\ TypeOK
  BY <1>1 DEF Poison, ReleaseInv
<1>3. \A c \in Consumers :
        \/ m[c] = member[c]
        \/ member[c] = "Queued" /\ m[c] = "Skipped"
        \/ member[c] = "DeliveredUnarmed" /\ m[c] \in {"Skipped", "Armed"}
  BY DEF ClassifyOnClose
<1> HIDE DEF m
<1>4. \A c \in Consumers :
        fact'[c] = CASE member[c] = "DeliveredUnarmed" /\ m[c] = "Skipped" -> "none"
                     [] member[c] = "DeliveredUnarmed" /\ m[c] = "Armed" -> "armed"
                     [] OTHER -> fact[c]
  BY <1>1 DEF m
<1>5. FactsFit(m, wait, fact')
  <2> SUFFICES ASSUME NEW c \in Consumers
               PROVE  /\ fact'[c] = "unarmed" <=> m[c] = "DeliveredUnarmed"
                      /\ fact'[c] = "armed" <=> m[c] \in {"Armed", "ArmedLegacy"} \/ wait[c] # "none"
    BY DEF FactsFit
  <2>1. /\ fact[c] = "unarmed" <=> member[c] = "DeliveredUnarmed"
        /\ fact[c] = "armed" <=> member[c] \in {"Armed", "ArmedLegacy"} \/ wait[c] # "none"
    BY DEF FactsFit
  <2>2. member[c] # "none" => wait[c] = "none"
    BY MemberUnwaited
  <2> QED BY <1>3, <1>4, <2>1, <2>2
<1> QED BY <1>2, <1>5, UpdateFacts

\* A resolved frame has no wait left but resolved ones, and those are reported
LEMMA ResolvedFacts ==
    ASSUME ReleaseInv, FactsFit(member, wait, fact), NEW p \in Points, ReapResolved(p)
    PROVE  FactsFit(member', wait', fact')
<1>1. /\ comp[p] = "resolved" /\ member' = member
      /\ fact' = [c \in Consumers |->
                    IF c[1] = p /\ wait[c] = "resolved" THEN "none" ELSE fact[c]]
      /\ wait' = [c \in Consumers |-> IF c[1] = p THEN "none" ELSE wait[c]]
  BY DEF ReapResolved, Consume, bucketVars
<1>2. TypeOK /\ NoWaits(p)
  BY <1>1 DEF ReleaseInv, DispatchInv
<1> SUFFICES ASSUME NEW c \in Consumers
             PROVE  /\ fact'[c] = "unarmed" <=> member[c] = "DeliveredUnarmed"
                    /\ fact'[c] = "armed" <=> \/ member[c] \in {"Armed", "ArmedLegacy"}
                                              \/ wait'[c] # "none"
  BY <1>1 DEF FactsFit
<1>3. /\ fact[c] = "unarmed" <=> member[c] = "DeliveredUnarmed"
      /\ fact[c] = "armed" <=> member[c] \in {"Armed", "ArmedLegacy"} \/ wait[c] # "none"
  BY DEF FactsFit
<1>4. member[c] # "none" => wait[c] = "none"
  BY MemberUnwaited
<1>5. c[1] = p => wait[c] \in {"none", "resolved"}
  BY <1>2 DEF NoWaits, TypeOK, Consumers
<1>6. /\ fact'[c] = IF c[1] = p /\ wait[c] = "resolved" THEN "none" ELSE fact[c]
      /\ wait'[c] = IF c[1] = p THEN "none" ELSE wait[c]
  BY <1>1
<1> QED BY <1>3, <1>4, <1>5, <1>6

\* A worker ends no wait and begins none
LEMMA WorkerFacts ==
    ASSUME ReleaseInv, FactsFit(member, wait, fact), NEW p \in Points, WorkerStep(p)
    PROVE  FactsFit(member', wait', fact')
<1>1. TypeOK /\ member' = member /\ fact' = fact
  BY DEF WorkerStep, WorkerCancelled, WorkerScan, WorkerWake, WorkerTimeout, WorkerError,
         ReleaseInv, bucketVars, reaperVars
<1>2. \A c \in Consumers : wait'[c] # "none" <=> wait[c] # "none"
  <2>1. CASE WorkerScan(p)
    BY <2>1 DEF WorkerScan, Orphaned, Waiting
  <2>2. CASE WorkerWake(p)
    BY <2>2 DEF WorkerWake, Waiting
  <2>3. CASE WorkerCancelled(p) \/ WorkerTimeout(p) \/ WorkerError(p)
    BY <2>3 DEF WorkerCancelled, WorkerTimeout, WorkerError
  <2> QED BY <2>1, <2>2, <2>3 DEF WorkerStep
<1> QED BY <1>1, <1>2 DEF FactsFit

\* Every step of every party keeps the facts true while the reaper runs
LEMMA FactsStep ==
    ASSUME ReleaseInv, WaitFactsMatch, [Next]_vars
    PROVE  WaitFactsMatch'
<1> SUFFICES ASSUME reaper' = "running" PROVE FactsFit(member', wait', fact')
  BY DEF WaitFactsMatch, FactsFit
<1>1. reaper = "running" => FactsFit(member, wait, fact)
  BY DEF WaitFactsMatch, FactsFit
<1>2. CASE ProducerNext \/ EndpointNext \/ ClientNext \/ UNCHANGED vars
  <2>1. UNCHANGED <<member, wait, reaperVars>>
    BY <1>2 DEF ProducerNext, ReleaseSyncobjArrives, RegisterFrame, FrameNotRegistered,
                RetireProducer, EndpointNext, EndpointQueue, ForwardFrame, SkipFrame, DropFrame,
                RelayArm, CloseSession, UnregisterDisplay, ClientNext, SubmitFence, SignalFence,
                bucketVars, workerVars, vars
  <2> QED BY <1>1, <2>1 DEF reaperVars, FactsFit
<1>3. CASE ReaperRecords
  <2>1. reaper = "running"
    BY <1>3 DEF ReaperRecords, ReapRegister, ReapDelivered, ReapArmed, ReapArmedPoison,
                ReapSkipped, ReapMisfit, ReapClosed, ReaperExit, Receive
  <2>2. CASE ReapMisfit
    <3>1. UNCHANGED <<member, wait, fact>>
      BY <2>2 DEF ReapMisfit, workerVars, reaperVars
    <3> QED BY <1>1, <2>1, <3>1
  <2>3. CASE ReaperExit \/ \E p \in Points, s \in Sessions : ReapArmedPoison(p, s)
    BY <2>3 DEF ReaperExit, ReapArmedPoison, Poison
  <2> QED BY <1>1, <1>3, <2>1, <2>2, <2>3, RegisterFacts, MemberFacts, ClosedFacts
          DEF ReaperRecords
<1>4. CASE ReaperCompletions
  <2> SUFFICES ASSUME NEW p \in Points, ReapResolved(p) \/ ReapFailed(p) \/ ReapPoisoned(p)
               PROVE  FactsFit(member', wait', fact')
    BY <1>4 DEF ReaperCompletions
  <2>1. reaper = "running"
    BY DEF ReapResolved, ReapFailed, ReapPoisoned, Consume
  <2>2. CASE ReapResolved(p)
    BY <1>1, <2>1, <2>2, ResolvedFacts
  <2>3. CASE ReapFailed(p)
    <3>1. UNCHANGED <<member, wait, fact>>
      BY <2>3 DEF ReapFailed, bucketVars, workerVars, reaperVars
    <3> QED BY <1>1, <2>1, <3>1
  <2>4. CASE ReapPoisoned(p)
    BY <2>4 DEF ReapPoisoned, Poison
  <2> QED BY <2>2, <2>3, <2>4
<1>5. ASSUME NEW p \in Points, WorkerStep(p) PROVE FactsFit(member', wait', fact')
  <2>1. reaper = "running"
    BY <1>5 DEF WorkerStep, WorkerCancelled, WorkerScan, WorkerWake, WorkerTimeout, WorkerError,
                reaperVars
  <2> QED BY <1>1, <1>5, <2>1, WorkerFacts
<1> QED BY <1>2, <1>3, <1>4, <1>5 DEF Next

\* While the reaper runs, the router is told of exactly the deliveries whose
\* release is outstanding, and in which state: no wait fact outlives its release
THEOREM FactsTrue == Spec => []WaitFactsMatch
<1>1. Init => ReleaseInv /\ WaitFactsMatch
  BY ReleaseInvInit DEF Init, WaitFactsMatch
<1>2. ReleaseInv /\ WaitFactsMatch /\ [Next]_vars => ReleaseInv' /\ WaitFactsMatch'
  BY ReleaseInvStep, FactsStep
<1> QED BY <1>1, <1>2, PTL DEF Spec

-----------------------------------------------------------------------------
(* Published prefix. *)

\* A publication goes up to a gap, unless a transfer fails
LEMMA PrefixStep ==
    ASSUME TypeOK, PrefixPublished, [Next]_vars
    PROVE  PrefixPublished'
<1>1. CASE UNCHANGED frontierVars
  BY <1>1 DEF frontierVars, PrefixPublished
<1>2. ASSUME NEW p \in Points, PublishResolved(p) PROVE PrefixPublished'
  <2>1. CASE ~imported /\ ready' = ready \cup {p} /\ UNCHANGED <<nextPoint, imported>>
    BY <2>1 DEF PrefixPublished
  <2>2. ASSUME NEW q \in nextPoint .. MaxPoint + 1,
               q \in ready \cup {p} => DrmErrors,
               nextPoint' = q, ready' = {x \in ready \cup {p} : x >= q}
        PROVE  PrefixPublished'
    BY <2>2 DEF PrefixPublished
  <2> QED BY <1>2, <2>1, <2>2 DEF PublishResolved
<1>3. CASE ProducerNext \/ EndpointNext \/ ClientNext \/ UNCHANGED vars
  BY <1>1, <1>3 DEF ProducerNext, ReleaseSyncobjArrives, RegisterFrame, FrameNotRegistered,
     RetireProducer, EndpointNext, EndpointQueue, ForwardFrame, SkipFrame, DropFrame,
     RelayArm, CloseSession, UnregisterDisplay, ClientNext, SubmitFence, SignalFence, vars
<1>4. CASE ReaperRecords
  BY <1>1, <1>4 DEF ReaperRecords, ReapRegister, ReapDelivered, ReapArmed, ReapArmedPoison,
     ReapSkipped, ReapMisfit, ReapClosed, ReaperExit
<1>5. CASE ReaperCompletions
  BY <1>1, <1>2, <1>5 DEF ReaperCompletions, ReapResolved, ReapFailed, ReapPoisoned
<1>6. CASE \E p \in Points : WorkerStep(p)
  BY <1>1, <1>6 DEF WorkerStep, WorkerCancelled, WorkerScan, WorkerWake, WorkerTimeout, WorkerError
<1> QED BY <1>3, <1>4, <1>5, <1>6 DEF Next

\* Whatever the order of the completions, no complete prefix is left unpublished
\* once the timeline is imported, if no ioctl fails
THEOREM PrefixComplete == Spec => []PrefixPublished
<1>1. Init => TypeOK /\ PrefixPublished
  BY TypeInit DEF Init, PrefixPublished
<1>2. TypeOK /\ PrefixPublished /\ [Next]_vars => TypeOK' /\ PrefixPublished'
  BY TypeStep, PrefixStep
<1> QED BY <1>1, <1>2, PTL DEF Spec

-----------------------------------------------------------------------------
(* Who is to blame for a poisoned generation.  A client that submits its     *)
(* fence before it arms must find its member awaiting the arm, in whatever   *)
(* order frames, arms and closes of all sessions reach the reaper.           *)

\* The arm of <<p, s>> is with the client, or on its way to the reaper
Armable(p, s) ==
    \/ <<p, s>> \in arms
    \/ \E i \in 1 .. Len(chan) : chan[i] = Armed(p, s)

\* An arm is spent once and while its session is open; until the reaper reads it,
\* a bucket that knows the frame still waits for its session
OwedInv ==
    \A p \in Points, s \in Sessions :
      /\ <<p, s>> \in arms =>
           sess[s] = "open" /\ \A i \in 1 .. Len(chan) : chan[i] # Armed(p, s)
      /\ Armable(p, s) =>
           /\ token[<<p, s>>] = "delivered" /\ s \notin LegacySessions
           /\ bucket[p] = "registered" => member[<<p, s>>] \in {"Queued", "DeliveredUnarmed"}

\* So does one that knows a frame an open session has not taken yet, and only a
\* delivered frame has a record of its delivery
HeldInv ==
    \A p \in Points, s \in Sessions :
      /\ token[<<p, s>>] = "held" /\ sess[s] = "open" /\ bucket[p] = "registered" =>
           member[<<p, s>>] = "Queued"
      /\ \A i \in 1 .. Len(chan) : chan[i] = Delivered(p, s) => token[<<p, s>>] = "delivered"

\* Ahead of record i is the delivery of <<p, s>>, behind the registration of p
DeliveredAhead(p, s, i) ==
    \E k \in 1 .. Len(chan) :
      /\ k < i /\ chan[k] = Delivered(p, s)
      /\ \A j \in 1 .. Len(chan), S \in SUBSET Sessions : j > k => chan[j] # Register(p, S)

\* An arm in the channel is the only one of its consumer, comes after its delivery
\* and before the close of its session, and has its fence submitted
ArmedInv ==
    \A i \in 1 .. Len(chan), p \in Points, s \in Sessions :
      chan[i] = Armed(p, s) =>
        /\ s \in RudeSessions \/ fence[<<p, s>>] # "unsubmitted"
        /\ \A j \in 1 .. Len(chan) : chan[j] = Armed(p, s) => j = i
        /\ \A j \in 1 .. Len(chan) : j < i => chan[j] # Closed(s)
        /\ Expects(p, s) => DeliveredAhead(p, s, i)

ArmInv == reaper = "running" => OwedInv /\ HeldInv /\ ArmedInv

\* Without ioctl failures no worker poisons
CauseInv == ~DrmErrors => \A p \in Points : comp[p] # "poisoned"

\* A step that moves no frame, arm or record, and opens no session
LEMMA QuietArm ==
    ASSUME ArmInv, TypeOK, UNCHANGED <<chan, arms, token, bucket, member>>,
           reaper' = "running" => reaper = "running",
           \A s \in Sessions : sess'[s] = "open" <=> sess[s] = "open",
           \A c \in Consumers : fence[c] # "unsubmitted" => fence'[c] # "unsubmitted"
    PROVE  ArmInv'
<1> SUFFICES ASSUME reaper' = "running" PROVE OwedInv' /\ HeldInv' /\ ArmedInv'
  BY DEF ArmInv
<1>1. OwedInv /\ HeldInv /\ ArmedInv
  BY DEF ArmInv
<1>2. OwedInv'
  <2>1. \A p, s : Armable(p, s)' <=> Armable(p, s)
    BY DEF Armable
  <2> QED BY <1>1, <2>1 DEF OwedInv
<1>3. HeldInv'
  BY <1>1 DEF HeldInv
<1>4. \A p, s, i : /\ Expects(p, s)' <=> Expects(p, s)
                   /\ DeliveredAhead(p, s, i)' <=> DeliveredAhead(p, s, i)
  BY DEF Expects, DeliveredAhead
<1>5. \A p \in Points, s \in Sessions : <<p, s>> \in Consumers
  BY DEF Consumers
<1>6. ArmedInv'
  BY <1>1, <1>4, <1>5 DEF ArmedInv
<1> QED BY <1>2, <1>3, <1>6

\* A step that sends a record other than an arm, or none.  An arm it hands out is
\* that of a frame just taken by its open session; a frame it queues is unknown
\* to the reaper, and so is one it registers to everybody.
LEMMA SendArm ==
    ASSUME ReleaseInv, OwedInv, HeldInv, ArmedInv, reaper = "running",
           NEW r, Send(r) \/ UNCHANGED chan, UNCHANGED <<bucket, member, fence>>,
           \A p \in Points, s \in Sessions :
             <<p, s>> \in arms' =>
               /\ sess'[s] = "open"
               /\ \/ <<p, s>> \in arms
                  \/ /\ token[<<p, s>>] = "held" /\ sess[s] = "open"
                     /\ token'[<<p, s>>] = "delivered" /\ s \notin LegacySessions,
           \A s \in Sessions : sess'[s] = "open" => sess[s] = "open",
           \A p \in Points, s \in Sessions :
             /\ token[<<p, s>>] = "delivered" => token'[<<p, s>>] = "delivered"
             /\ token'[<<p, s>>] = "held" =>
                  token[<<p, s>>] = "held" \/ bucket[p] # "registered",
           \A p \in Points, s \in Sessions :
             /\ r # Armed(p, s)
             /\ r = Delivered(p, s) => token'[<<p, s>>] = "delivered"
             /\ \A S \in SUBSET Sessions : r = Register(p, S) => token[<<p, s>>] # "delivered"
    PROVE  OwedInv' /\ HeldInv' /\ ArmedInv'
<1>1. TypeOK
  BY DEF ReleaseInv
<1>2. /\ Len(chan) \in Nat
      /\ \A i \in 1 .. Len(chan) : i \in 1 .. Len(chan') /\ chan'[i] = chan[i]
      /\ \A i \in 1 .. Len(chan') : i \in 1 .. Len(chan) \/ chan'[i] = r
  <2>1. CASE UNCHANGED chan
    BY <1>1, <2>1 DEF TypeOK
  <2>2. CASE Send(r)
    BY <1>1, <2>2, SendFact DEF TypeOK
  <2> QED BY <2>1, <2>2
<1>3. \A i \in 1 .. Len(chan'), p \in Points, s \in Sessions :
        chan'[i] = Armed(p, s) => i \in 1 .. Len(chan) /\ chan[i] = Armed(p, s)
  <2>1. \A p \in Points, s \in Sessions : r # Armed(p, s)
    OBVIOUS
  <2> QED BY <1>2, <2>1
<1>4. OwedInv'
  <2> SUFFICES ASSUME NEW p \in Points, NEW s \in Sessions
               PROVE  /\ <<p, s>> \in arms' =>
                           /\ sess'[s] = "open"
                           /\ \A i \in 1 .. Len(chan') : chan'[i] # Armed(p, s)
                      /\ Armable(p, s)' =>
                           /\ token'[<<p, s>>] = "delivered" /\ s \notin LegacySessions
                           /\ bucket'[p] = "registered" =>
                                member'[<<p, s>>] \in {"Queued", "DeliveredUnarmed"}
    BY DEF OwedInv
  <2>1. token[<<p, s>>] = "held" => ~Armable(p, s)
    BY DEF OwedInv
  <2>2. CASE Armable(p, s)
    <3>1. /\ token[<<p, s>>] = "delivered" /\ s \notin LegacySessions
          /\ bucket[p] = "registered" => member[<<p, s>>] \in {"Queued", "DeliveredUnarmed"}
          /\ <<p, s>> \in arms => \A i \in 1 .. Len(chan) : chan[i] # Armed(p, s)
      BY <2>2 DEF OwedInv
    <3>2. <<p, s>> \in arms' => <<p, s>> \in arms
      BY <3>1
    <3> QED BY <1>3, <3>1, <3>2
  <2>3. CASE ~Armable(p, s)
    <3>1. <<p, s>> \notin arms /\ \A i \in 1 .. Len(chan) : chan[i] # Armed(p, s)
      BY <2>3 DEF Armable
    <3>2. \A i \in 1 .. Len(chan') : chan'[i] # Armed(p, s)
      BY <1>3, <3>1
    <3>3. <<p, s>> \in arms' =>
            /\ token[<<p, s>>] = "held" /\ sess[s] = "open" /\ sess'[s] = "open"
            /\ token'[<<p, s>>] = "delivered" /\ s \notin LegacySessions
      BY <3>1
    <3>4. <<p, s>> \in arms' =>
            (bucket'[p] = "registered" => member'[<<p, s>>] = "Queued")
      BY <3>3 DEF HeldInv
    <3> QED BY <3>2, <3>3, <3>4 DEF Armable
  <2> QED BY <2>2, <2>3
<1>5. HeldInv'
  <2> SUFFICES ASSUME NEW p \in Points, NEW s \in Sessions
               PROVE  /\ token'[<<p, s>>] = "held" /\ sess'[s] = "open" /\ bucket'[p] = "registered" =>
                           member'[<<p, s>>] = "Queued"
                      /\ \A i \in 1 .. Len(chan') :
                           chan'[i] = Delivered(p, s) => token'[<<p, s>>] = "delivered"
    BY DEF HeldInv
  <2>1. token'[<<p, s>>] = "held" /\ sess'[s] = "open" /\ bucket'[p] = "registered" =>
          member'[<<p, s>>] = "Queued"
    BY DEF HeldInv
  <2>2. ASSUME NEW i \in 1 .. Len(chan'), chan'[i] = Delivered(p, s)
        PROVE  token'[<<p, s>>] = "delivered"
    BY <1>2, <2>2 DEF HeldInv
  <2> QED BY <2>1, <2>2
<1>6. ArmedInv'
  <2> SUFFICES ASSUME NEW i \in 1 .. Len(chan'), NEW p \in Points, NEW s \in Sessions,
                      chan'[i] = Armed(p, s)
               PROVE  /\ s \in RudeSessions \/ fence'[<<p, s>>] # "unsubmitted"
                      /\ \A j \in 1 .. Len(chan') : chan'[j] = Armed(p, s) => j = i
                      /\ \A j \in 1 .. Len(chan') : j < i => chan'[j] # Closed(s)
                      /\ Expects(p, s)' => DeliveredAhead(p, s, i)'
    BY DEF ArmedInv
  <2>1. i \in 1 .. Len(chan) /\ chan[i] = Armed(p, s)
    BY <1>3
  <2>2. /\ s \in RudeSessions \/ fence[<<p, s>>] # "unsubmitted"
        /\ \A j \in 1 .. Len(chan) : chan[j] = Armed(p, s) => j = i
        /\ \A j \in 1 .. Len(chan) : j < i => chan[j] # Closed(s)
        /\ Expects(p, s) => DeliveredAhead(p, s, i)
    BY <2>1 DEF ArmedInv
  <2>3. token[<<p, s>>] = "delivered"
    BY <2>1 DEF OwedInv, Armable
  <2>4. \A j \in 1 .. Len(chan') : j < i => j \in 1 .. Len(chan)
    BY <1>2, <2>1
  <2>5. \A j \in 1 .. Len(chan'), S \in SUBSET Sessions :
          chan'[j] = Register(p, S) => j \in 1 .. Len(chan) /\ chan[j] = Register(p, S)
    BY <1>2, <2>3
  <2>6. Expects(p, s)' => Expects(p, s)
    BY <2>5 DEF Expects
  <2>7. DeliveredAhead(p, s, i) => DeliveredAhead(p, s, i)'
    <3> SUFFICES ASSUME NEW k \in 1 .. Len(chan), k < i, chan[k] = Delivered(p, s),
                        \A j \in 1 .. Len(chan), S \in SUBSET Sessions :
                          j > k => chan[j] # Register(p, S)
                 PROVE  DeliveredAhead(p, s, i)'
      BY DEF DeliveredAhead
    <3>1. k \in 1 .. Len(chan') /\ chan'[k] = Delivered(p, s)
      BY <1>2
    <3>2. \A j \in 1 .. Len(chan'), S \in SUBSET Sessions : j > k => chan'[j] # Register(p, S)
      BY <2>5
    <3> QED BY <3>1, <3>2 DEF DeliveredAhead
  <2>8. \A j \in 1 .. Len(chan') : chan'[j] = Armed(p, s) => j = i
    BY <1>3, <2>2
  <2>9. \A j \in 1 .. Len(chan') : j < i => chan'[j] # Closed(s)
    BY <1>2, <2>2, <2>4
  <2> QED BY <2>2, <2>6, <2>7, <2>8, <2>9
<1> QED BY <1>4, <1>5, <1>6

\* The endpoint relays an arm while its session is open: the delivery, if the
\* reaper does not know it yet, is in the channel, and nothing closes behind it
LEMMA RelayArmKeeps ==
    ASSUME ReleaseInv, OwedInv, HeldInv, ArmedInv, reaper = "running",
           NEW p \in Points, NEW s \in Sessions, RelayArm(p, s)
    PROVE  OwedInv' /\ HeldInv' /\ ArmedInv'
<1>1. /\ TypeOK /\ sess[s] = "open" /\ <<p, s>> \in arms /\ arms' = arms \ {<<p, s>>}
      /\ s \in RudeSessions \/ fence[<<p, s>>] # "unsubmitted"
      /\ Send(Armed(p, s)) /\ UNCHANGED <<token, sess, fence, bucket, member>>
  BY DEF RelayArm, ReleaseInv, clientVars, bucketVars
<1>2. /\ Len(chan) \in Nat
      /\ \A i \in 1 .. Len(chan) : i \in 1 .. Len(chan') /\ chan'[i] = chan[i]
      /\ \A i \in 1 .. Len(chan') :
           \/ i \in 1 .. Len(chan)
           \/ i = Len(chan) + 1 /\ chan'[i] = Armed(p, s)
  BY <1>1, SendFact DEF TypeOK
<1>3. /\ \A i \in 1 .. Len(chan) : chan[i] # Armed(p, s)
      /\ token[<<p, s>>] = "delivered" /\ s \notin LegacySessions
      /\ bucket[p] = "registered" => member[<<p, s>>] \in {"Queued", "DeliveredUnarmed"}
  BY <1>1 DEF OwedInv, Armable
<1>4. \A q, t : Armed(q, t) = Armed(p, s) => q = p /\ t = s
  BY DEF Armed
<1>5. \A i \in 1 .. Len(chan'), q \in Points, t \in Sessions :
        chan'[i] = Armed(q, t) =>
          \/ i \in 1 .. Len(chan) /\ chan[i] = Armed(q, t)
          \/ i = Len(chan) + 1 /\ q = p /\ t = s
  BY <1>2, <1>4
<1>6. \A i \in 1 .. Len(chan'), q \in Points, t \in Sessions :
        /\ chan'[i] = Delivered(q, t) => i \in 1 .. Len(chan) /\ chan[i] = Delivered(q, t)
        /\ \A S \in SUBSET Sessions :
             chan'[i] = Register(q, S) => i \in 1 .. Len(chan) /\ chan[i] = Register(q, S)
        /\ chan'[i] = Closed(t) => i \in 1 .. Len(chan) /\ chan[i] = Closed(t)
  BY <1>2, RecordsDiffer
<1>7. \A q \in Points, t \in Sessions : Armable(q, t)' => Armable(q, t)
  BY <1>1, <1>5 DEF Armable
<1>8. OwedInv'
  <2>1. \A q \in Points, t \in Sessions : <<q, t>> \in arms' =>
          \A i \in 1 .. Len(chan') : chan'[i] # Armed(q, t)
    BY <1>1, <1>5 DEF OwedInv
  <2> QED BY <1>1, <1>7, <2>1 DEF OwedInv
<1>9. HeldInv'
  BY <1>1, <1>6 DEF HeldInv
<1>10. \A q \in Points, t \in Sessions : Expects(q, t)' => Expects(q, t)
  BY <1>1, <1>6 DEF Expects
<1>11. ASSUME NEW q \in Points, NEW t \in Sessions, NEW i, NEW k \in 1 .. Len(chan),
              k < i, chan[k] = Delivered(q, t),
              \A j \in 1 .. Len(chan), S \in SUBSET Sessions : j > k => chan[j] # Register(q, S)
       PROVE  DeliveredAhead(q, t, i)'
  <2>1. k \in 1 .. Len(chan') /\ chan'[k] = Delivered(q, t)
    BY <1>2, <1>11
  <2>2. \A j \in 1 .. Len(chan'), S \in SUBSET Sessions : j > k => chan'[j] # Register(q, S)
    BY <1>6, <1>11
  <2> QED BY <1>11, <2>1, <2>2 DEF DeliveredAhead
<1>12. ArmedInv'
  <2> SUFFICES ASSUME NEW i \in 1 .. Len(chan'), NEW q \in Points, NEW t \in Sessions,
                      chan'[i] = Armed(q, t)
               PROVE  /\ t \in RudeSessions \/ fence'[<<q, t>>] # "unsubmitted"
                      /\ \A j \in 1 .. Len(chan') : chan'[j] = Armed(q, t) => j = i
                      /\ \A j \in 1 .. Len(chan') : j < i => chan'[j] # Closed(t)
                      /\ Expects(q, t)' => DeliveredAhead(q, t, i)'
    BY DEF ArmedInv
  <2>1. CASE i \in 1 .. Len(chan) /\ chan[i] = Armed(q, t)
    <3>1. /\ t \in RudeSessions \/ fence[<<q, t>>] # "unsubmitted"
          /\ \A j \in 1 .. Len(chan) : chan[j] = Armed(q, t) => j = i
          /\ \A j \in 1 .. Len(chan) : j < i => chan[j] # Closed(t)
          /\ Expects(q, t) => DeliveredAhead(q, t, i)
      BY <2>1 DEF ArmedInv
    <3>2. \A j \in 1 .. Len(chan') : chan'[j] = Armed(q, t) => j = i
      BY <1>3, <1>5, <2>1, <3>1
    <3>3. \A j \in 1 .. Len(chan') : j < i => chan'[j] # Closed(t)
      BY <1>6, <3>1
    <3>4. Expects(q, t)' => DeliveredAhead(q, t, i)'
      BY <1>10, <1>11, <3>1 DEF DeliveredAhead
    <3> QED BY <1>1, <3>1, <3>2, <3>3, <3>4
  <2>2. CASE i = Len(chan) + 1 /\ q = p /\ t = s
    <3>1. \A j \in 1 .. Len(chan') : chan'[j] = Armed(q, t) => j = i
      BY <1>3, <1>5, <2>2
    <3>2. \A j \in 1 .. Len(chan') : chan'[j] # Closed(s)
      BY <1>1, <1>6 DEF ReleaseInv, RecordInv
    <3>3. Expects(p, s) => DeliveredAhead(p, s, i)'
      <4> SUFFICES ASSUME Expects(p, s) PROVE DeliveredAhead(p, s, i)'
        OBVIOUS
      <4>1. PICK k \in 1 .. Len(chan) :
              /\ chan[k] = Delivered(p, s)
              /\ \A j \in 1 .. Len(chan), S \in SUBSET Sessions :
                   j > k => chan[j] # Register(p, S)
        BY <1>3 DEF ReleaseInv, FifoInv
      <4>2. k < i
        BY <1>2, <2>2
      <4> QED BY <1>11, <4>1, <4>2
    <3> QED BY <1>1, <1>10, <2>2, <3>1, <3>2, <3>3
  <2> QED BY <1>5, <2>1, <2>2
<1> QED BY <1>8, <1>9, <1>12

\* The reaper takes a record and updates its buckets: a bucket it opens queues the
\* members of its registration, and a member that was owed an arm stays waited for
LEMMA ConsumeArm ==
    ASSUME ReleaseInv, OwedInv, HeldInv, ArmedInv, chan # <<>>, chan' = Tail(chan),
           UNCHANGED <<arms, token, sess, fence>>,
           \A p \in Points, s \in Sessions :
             bucket'[p] = "registered" /\ Armable(p, s)' =>
               member'[<<p, s>>] \in {"Queued", "DeliveredUnarmed"},
           \A p \in Points, s \in Sessions :
             bucket'[p] = "registered" /\ token[<<p, s>>] = "held" /\ sess[s] = "open" =>
               member'[<<p, s>>] = "Queued",
           \A p \in Points, s \in Sessions :
             member'[<<p, s>>] = "Queued" =>
               /\ chan[1] # Delivered(p, s)
               /\ \/ member[<<p, s>>] = "Queued"
                  \/ \E S \in SUBSET Sessions : s \in S /\ chan[1] = Register(p, S)
    PROVE  OwedInv' /\ HeldInv' /\ ArmedInv'
<1>1. TypeOK
  BY DEF ReleaseInv
<1>2. /\ Len(chan) \in Nat /\ Len(chan') = Len(chan) - 1 /\ 1 \in 1 .. Len(chan)
      /\ \A i \in 1 .. Len(chan') : i + 1 \in 1 .. Len(chan) /\ chan'[i] = chan[i + 1]
  BY <1>1, TailFact, HeadFact DEF TypeOK
<1>3. \A p \in Points, s \in Sessions : Armable(p, s)' => Armable(p, s)
  BY <1>2 DEF Armable
<1>4. OwedInv'
  <2>1. \A p \in Points, s \in Sessions : <<p, s>> \in arms' =>
          \A i \in 1 .. Len(chan') : chan'[i] # Armed(p, s)
    BY <1>2 DEF OwedInv
  <2>2. ASSUME NEW p \in Points, NEW s \in Sessions, Armable(p, s)'
        PROVE  /\ token'[<<p, s>>] = "delivered" /\ s \notin LegacySessions
               /\ bucket'[p] = "registered" => member'[<<p, s>>] \in {"Queued", "DeliveredUnarmed"}
    <3>1. Armable(p, s)
      BY <1>3, <2>2
    <3>2. token[<<p, s>>] = "delivered" /\ s \notin LegacySessions
      BY <3>1 DEF OwedInv
    <3> QED BY <2>2, <3>2
  <2>3. \A p \in Points, s \in Sessions : <<p, s>> \in arms' => sess'[s] = "open"
    BY DEF OwedInv
  <2>4. ASSUME NEW p \in Points, NEW s \in Sessions
        PROVE  /\ <<p, s>> \in arms' =>
                    sess'[s] = "open" /\ \A i \in 1 .. Len(chan') : chan'[i] # Armed(p, s)
               /\ Armable(p, s)' =>
                    /\ token'[<<p, s>>] = "delivered" /\ s \notin LegacySessions
                    /\ bucket'[p] = "registered" =>
                         member'[<<p, s>>] \in {"Queued", "DeliveredUnarmed"}
    <3>1. CASE Armable(p, s)'
      BY <2>1, <2>2, <2>3, <3>1
    <3>2. CASE ~Armable(p, s)'
      BY <2>1, <2>3, <3>2
    <3> QED BY <3>1, <3>2
  <2> QED BY <2>4 DEF OwedInv
<1>5. HeldInv'
  <2>1. \A p \in Points, s \in Sessions, i \in 1 .. Len(chan') :
          chan'[i] = Delivered(p, s) => token'[<<p, s>>] = "delivered"
    BY <1>2 DEF HeldInv
  <2>2. \A p \in Points, s \in Sessions :
          token'[<<p, s>>] = "held" /\ sess'[s] = "open" /\ bucket'[p] = "registered" =>
            member'[<<p, s>>] = "Queued"
    OBVIOUS
  <2> QED BY <2>1, <2>2 DEF HeldInv
<1>6. \A p \in Points, s \in Sessions : Expects(p, s)' => Expects(p, s)
  BY <1>2 DEF Expects
<1>7. ArmedInv'
  <2> SUFFICES ASSUME NEW i \in 1 .. Len(chan'), NEW p \in Points, NEW s \in Sessions,
                      chan'[i] = Armed(p, s)
               PROVE  /\ s \in RudeSessions \/ fence'[<<p, s>>] # "unsubmitted"
                      /\ \A j \in 1 .. Len(chan') : chan'[j] = Armed(p, s) => j = i
                      /\ \A j \in 1 .. Len(chan') : j < i => chan'[j] # Closed(s)
                      /\ Expects(p, s)' => DeliveredAhead(p, s, i)'
    BY DEF ArmedInv
  <2>1. i + 1 \in 1 .. Len(chan) /\ chan[i + 1] = Armed(p, s)
    BY <1>2
  <2>2. /\ s \in RudeSessions \/ fence[<<p, s>>] # "unsubmitted"
        /\ \A j \in 1 .. Len(chan) : chan[j] = Armed(p, s) => j = i + 1
        /\ \A j \in 1 .. Len(chan) : j < i + 1 => chan[j] # Closed(s)
        /\ Expects(p, s) => DeliveredAhead(p, s, i + 1)
    BY <2>1 DEF ArmedInv
  <2>3. \A j \in 1 .. Len(chan') : chan'[j] = Armed(p, s) => j = i
    BY <1>2, <2>2
  <2>4. \A j \in 1 .. Len(chan') : j < i => chan'[j] # Closed(s)
    BY <1>2, <2>2
  <2>5. Expects(p, s)' => DeliveredAhead(p, s, i)'
    <3> SUFFICES ASSUME Expects(p, s)' PROVE DeliveredAhead(p, s, i)'
      OBVIOUS
    <3>1. PICK k \in 1 .. Len(chan) :
            /\ k < i + 1 /\ chan[k] = Delivered(p, s)
            /\ \A j \in 1 .. Len(chan), S \in SUBSET Sessions : j > k => chan[j] # Register(p, S)
      BY <1>6, <2>2 DEF DeliveredAhead
    <3>2. k # 1
      <4> SUFFICES ASSUME k = 1 PROVE FALSE
        OBVIOUS
      <4>1. member'[<<p, s>>] # "Queued"
        BY <3>1
      <4>2. PICK j \in 1 .. Len(chan'), S \in SUBSET Sessions : chan'[j] = Register(p, S)
        BY <4>1 DEF Expects
      <4>3. j + 1 \in 1 .. Len(chan) /\ j + 1 > k /\ chan[j + 1] = Register(p, S)
        BY <1>2, <4>2
      <4> QED BY <3>1, <4>3
    <3>3. k - 1 \in 1 .. Len(chan') /\ k - 1 < i /\ chan'[k - 1] = Delivered(p, s)
      BY <1>2, <3>1, <3>2
    <3>4. \A j \in 1 .. Len(chan'), S \in SUBSET Sessions : j > k - 1 => chan'[j] # Register(p, S)
      BY <1>2, <3>1
    <3> QED BY <3>3, <3>4 DEF DeliveredAhead
  <2> QED BY <2>2, <2>3, <2>4, <2>5
<1> QED BY <1>4, <1>5, <1>7

\* The reaper opens the bucket of a frame: every recipient is queued in it
LEMMA RegisterArm ==
    ASSUME ReleaseInv, OwedInv, HeldInv, ArmedInv, NEW p \in Points, NEW S \in SUBSET Sessions,
           ReapRegister(p, S)
    PROVE  OwedInv' /\ HeldInv' /\ ArmedInv'
<1> DEFINE b == [bucket EXCEPT ![p] = "registered"]
           m == [c \in Consumers |-> IF c[1] = p /\ c[2] \in S THEN "Queued" ELSE member[c]]
<1>1. /\ UpdateBuckets(b, m) /\ TypeOK /\ chan # <<>> /\ chan' = Tail(chan)
      /\ UNCHANGED <<arms, token, sess, fence>> /\ bucket[p] # "registered"
      /\ Head(chan) = Register(p, S)
  BY DEF ReapRegister, ReleaseInv, Receive, endpointVars, clientVars
<1>2. 1 \in 1 .. Len(chan) /\ chan[1] = Register(p, S)
  BY <1>1, HeadFact DEF TypeOK
<1>3. \A t \in Sessions : t \notin S => token[<<p, t>>] = "none"
  BY <1>2 DEF ReleaseInv, RegisterInv
<1>4. \A q \in Points, t \in Sessions :
        /\ q # p => b[q] = bucket[q] /\ m[<<q, t>>] = member[<<q, t>>]
        /\ q = p /\ t \in S => m[<<q, t>>] = "Queued"
        /\ q = p /\ t \notin S => m[<<q, t>>] = member[<<q, t>>]
  <2> SUFFICES ASSUME NEW q \in Points, NEW t \in Sessions
               PROVE  /\ q # p => b[q] = bucket[q] /\ m[<<q, t>>] = member[<<q, t>>]
                      /\ q = p /\ t \in S => m[<<q, t>>] = "Queued"
                      /\ q = p /\ t \notin S => m[<<q, t>>] = member[<<q, t>>]
    OBVIOUS
  <2>1. <<q, t>> \in Consumers /\ <<q, t>>[1] = q /\ <<q, t>>[2] = t
    BY DEF Consumers
  <2>2. m[<<q, t>>] = IF q = p /\ t \in S THEN "Queued" ELSE member[<<q, t>>]
    BY <2>1
  <2>3. q # p => b[q] = bucket[q]
    BY <1>1 DEF TypeOK
  <2> HIDE DEF b, m
  <2> QED BY <2>2, <2>3
<1> HIDE DEF b, m
<1>5. \A q \in Points, t \in Sessions :
        /\ bucket'[q] = "registered" => b[q] = "registered" /\ member'[<<q, t>>] = m[<<q, t>>]
        /\ member'[<<q, t>>] = "Queued" => m[<<q, t>>] = "Queued"
  <2> SUFFICES ASSUME NEW q \in Points, NEW t \in Sessions
               PROVE  /\ bucket'[q] = "registered" =>
                           b[q] = "registered" /\ member'[<<q, t>>] = m[<<q, t>>]
                      /\ member'[<<q, t>>] = "Queued" => m[<<q, t>>] = "Queued"
    OBVIOUS
  <2>1. <<q, t>> \in Consumers /\ <<q, t>>[1] = q
    BY DEF Consumers
  <2> QED BY <1>1, <2>1, UpdateMoves
<1>6. \A q \in Points, t \in Sessions : Armable(q, t)' => Armable(q, t)
  <2>1. /\ Len(chan) \in Nat /\ Len(chan') = Len(chan) - 1
        /\ \A i \in 1 .. Len(chan') : i + 1 \in 1 .. Len(chan) /\ chan'[i] = chan[i + 1]
    BY <1>1, TailFact DEF TypeOK
  <2> QED BY <1>1, <2>1 DEF Armable
<1>7. ASSUME NEW q \in Points, NEW t \in Sessions, bucket'[q] = "registered", Armable(q, t)'
      PROVE  member'[<<q, t>>] \in {"Queued", "DeliveredUnarmed"}
  <2>1. /\ Armable(q, t) /\ token[<<q, t>>] = "delivered"
        /\ bucket[q] = "registered" => member[<<q, t>>] \in {"Queued", "DeliveredUnarmed"}
    BY <1>6, <1>7 DEF OwedInv
  <2> QED BY <1>3, <1>4, <1>5, <1>7, <2>1
<1>8. ASSUME NEW q \in Points, NEW t \in Sessions, bucket'[q] = "registered",
             token[<<q, t>>] = "held", sess[t] = "open"
      PROVE  member'[<<q, t>>] = "Queued"
  <2>1. bucket[q] = "registered" => member[<<q, t>>] = "Queued"
    BY <1>8 DEF HeldInv
  <2> QED BY <1>3, <1>4, <1>5, <1>8, <2>1
<1>9. ASSUME NEW q \in Points, NEW t \in Sessions, member'[<<q, t>>] = "Queued"
      PROVE  /\ chan[1] # Delivered(q, t)
             /\ \/ member[<<q, t>>] = "Queued"
                \/ \E T \in SUBSET Sessions : t \in T /\ chan[1] = Register(q, T)
  <2>1. chan[1] # Delivered(q, t)
    BY <1>2, RecordsDiffer
  <2> QED BY <1>2, <1>4, <1>5, <1>9, <2>1
<1> QED BY <1>1, <1>7, <1>8, <1>9, ConsumeArm

\* A member takes in its delivery, arm or skip
LEMMA MemberArm ==
    ASSUME ReleaseInv, OwedInv, HeldInv, ArmedInv, NEW p \in Points, NEW s \in Sessions,
           ReapDelivered(p, s) \/ ReapArmed(p, s) \/ ReapSkipped(p, s)
    PROVE  OwedInv' /\ HeldInv' /\ ArmedInv'
<1>1. /\ TypeOK /\ chan # <<>> /\ chan' = Tail(chan) /\ UNCHANGED <<arms, token, sess, fence>>
      /\ Head(chan) \in {Delivered(p, s), Armed(p, s), Skipped(p, s)}
  BY DEF ReapDelivered, ReapArmed, ReapSkipped, Receive, ReleaseInv, endpointVars, clientVars
<1>2. PICK st \in {"DeliveredUnarmed", "Armed", "ArmedLegacy", "Skipped"} :
        /\ UpdateBuckets(bucket, [member EXCEPT ![<<p, s>>] = st])
        /\ \/ Head(chan) = Delivered(p, s) /\ (s \notin LegacySessions => st = "DeliveredUnarmed")
           \/ Head(chan) = Armed(p, s)
           \/ Head(chan) = Skipped(p, s)
  <2>1. CASE ReapDelivered(p, s)
    BY <2>1 DEF ReapDelivered, Receive
  <2>2. CASE ReapArmed(p, s)
    BY <2>2 DEF ReapArmed, Receive
  <2>3. CASE ReapSkipped(p, s)
    BY <2>3 DEF ReapSkipped, Receive
  <2> QED BY <2>1, <2>2, <2>3
<1>3. /\ 1 \in 1 .. Len(chan) /\ chan[1] = Head(chan)
      /\ Len(chan) \in Nat /\ Len(chan') = Len(chan) - 1
      /\ \A i \in 1 .. Len(chan') : i + 1 \in 1 .. Len(chan) /\ chan'[i] = chan[i + 1]
  BY <1>1, HeadFact, TailFact DEF TypeOK
<1> DEFINE m == [member EXCEPT ![<<p, s>>] = st]
<1>4. \A q \in Points, t \in Sessions :
        m[<<q, t>>] = IF q = p /\ t = s THEN st ELSE member[<<q, t>>]
  BY <1>1 DEF TypeOK, Consumers
<1>5. UpdateBuckets(bucket, m)
  BY <1>2
<1> HIDE DEF m
<1>6. \A q \in Points, t \in Sessions :
        /\ bucket'[q] = "registered" => bucket[q] = "registered" /\ member'[<<q, t>>] = m[<<q, t>>]
        /\ member'[<<q, t>>] = "Queued" => m[<<q, t>>] = "Queued"
  <2> SUFFICES ASSUME NEW q \in Points, NEW t \in Sessions
               PROVE  /\ bucket'[q] = "registered" =>
                           bucket[q] = "registered" /\ member'[<<q, t>>] = m[<<q, t>>]
                      /\ member'[<<q, t>>] = "Queued" => m[<<q, t>>] = "Queued"
    OBVIOUS
  <2>1. <<q, t>> \in Consumers /\ <<q, t>>[1] = q
    BY DEF Consumers
  <2> QED BY <1>1, <1>5, <2>1, UpdateMoves
<1>7. \A q \in Points, t \in Sessions : Armable(q, t)' => Armable(q, t)
  BY <1>1, <1>3 DEF Armable
<1>8. ASSUME Armable(p, s)' PROVE st = "DeliveredUnarmed"
  <2>1. token[<<p, s>>] = "delivered" /\ s \notin LegacySessions
    BY <1>7, <1>8 DEF OwedInv
  <2>2. chan[1] # Skipped(p, s)
    BY <1>3, <2>1 DEF ReleaseInv, RecordInv
  <2>3. chan[1] # Armed(p, s)
    <3> SUFFICES ASSUME chan[1] = Armed(p, s) PROVE FALSE
      OBVIOUS
    <3>1. <<p, s>> \notin arms'
      BY <1>1, <1>3 DEF OwedInv
    <3>2. PICK i \in 1 .. Len(chan') : chan'[i] = Armed(p, s)
      BY <1>8, <3>1 DEF Armable
    <3>3. i + 1 \in 1 .. Len(chan) /\ chan[i + 1] = Armed(p, s) /\ i + 1 # 1
      BY <1>3, <3>2
    <3>4. \A j \in 1 .. Len(chan) : chan[j] = Armed(p, s) => j = 1
      BY <1>3 DEF ArmedInv
    <3> QED BY <3>3, <3>4
  <2> QED BY <1>2, <1>3, <2>1, <2>2, <2>3
<1>9. token[<<p, s>>] # "held"
  <2>1. CASE chan[1] = Delivered(p, s)
    BY <1>3, <2>1 DEF HeldInv
  <2>2. CASE chan[1] = Armed(p, s)
    BY <1>3, <2>2 DEF OwedInv, Armable
  <2>3. CASE chan[1] = Skipped(p, s)
    BY <1>3, <2>3 DEF ReleaseInv, RecordInv
  <2> QED BY <1>1, <1>3, <2>1, <2>2, <2>3
<1>10. ASSUME NEW q \in Points, NEW t \in Sessions, bucket'[q] = "registered", Armable(q, t)'
       PROVE  member'[<<q, t>>] \in {"Queued", "DeliveredUnarmed"}
  <2>1. bucket[q] = "registered" => member[<<q, t>>] \in {"Queued", "DeliveredUnarmed"}
    BY <1>7, <1>10 DEF OwedInv
  <2> QED BY <1>4, <1>6, <1>8, <1>10, <2>1
<1>11. ASSUME NEW q \in Points, NEW t \in Sessions, bucket'[q] = "registered",
              token[<<q, t>>] = "held", sess[t] = "open"
       PROVE  member'[<<q, t>>] = "Queued"
  <2>1. bucket[q] = "registered" => member[<<q, t>>] = "Queued"
    BY <1>11 DEF HeldInv
  <2> QED BY <1>4, <1>6, <1>9, <1>11, <2>1
<1>12. ASSUME NEW q \in Points, NEW t \in Sessions, member'[<<q, t>>] = "Queued"
       PROVE  chan[1] # Delivered(q, t) /\ member[<<q, t>>] = "Queued"
  <2>1. m[<<q, t>>] = "Queued"
    BY <1>6, <1>12
  <2>2. ~(q = p /\ t = s) /\ member[<<q, t>>] = "Queued"
    BY <1>4, <2>1
  <2>3. chan[1] # Delivered(q, t)
    BY <1>1, <1>3, <2>2, RecordsDiffer
  <2> QED BY <2>2, <2>3
<1> QED BY <1>1, <1>10, <1>11, <1>12, ConsumeArm

\* A record that fits no bucket is dropped: no member was waiting for it
LEMMA MisfitArm ==
    ASSUME ReleaseInv, OwedInv, HeldInv, ArmedInv, ReapMisfit
    PROVE  OwedInv' /\ HeldInv' /\ ArmedInv'
<1>1. /\ TypeOK /\ chan # <<>> /\ chan' = Tail(chan) /\ Misfit(Head(chan))
      /\ UNCHANGED <<arms, token, sess, fence, member>>
  BY DEF ReapMisfit, ReleaseInv, endpointVars, clientVars
<1>2. 1 \in 1 .. Len(chan) /\ Misfit(chan[1])
  BY <1>1, HeadFact DEF TypeOK
<1>3. \A q \in Points : bucket'[q] = "registered" <=> bucket[q] = "registered"
  <2> DEFINE x == Head(chan).point
  <2>1. bucket' = [bucket EXCEPT ![x] = IF bucket[x] = "absent" THEN "phantom" ELSE bucket[x]]
    BY DEF ReapMisfit
  <2> HIDE DEF x
  <2> QED BY <1>1, <2>1 DEF TypeOK
<1>4. \A q \in Points, t \in Sessions : Armable(q, t)' => Armable(q, t)
  <2>1. /\ Len(chan) \in Nat /\ Len(chan') = Len(chan) - 1
        /\ \A i \in 1 .. Len(chan') : i + 1 \in 1 .. Len(chan) /\ chan'[i] = chan[i + 1]
    BY <1>1, TailFact DEF TypeOK
  <2> QED BY <1>1, <2>1 DEF Armable
<1>5. ASSUME NEW q \in Points, NEW t \in Sessions, bucket'[q] = "registered", Armable(q, t)'
      PROVE  member'[<<q, t>>] \in {"Queued", "DeliveredUnarmed"}
  BY <1>1, <1>3, <1>4, <1>5 DEF OwedInv
<1>6. ASSUME NEW q \in Points, NEW t \in Sessions, bucket'[q] = "registered",
             token[<<q, t>>] = "held", sess[t] = "open"
      PROVE  member'[<<q, t>>] = "Queued"
  BY <1>1, <1>3, <1>6 DEF HeldInv
<1>7. ASSUME NEW q \in Points, NEW t \in Sessions, member'[<<q, t>>] = "Queued"
      PROVE  chan[1] # Delivered(q, t) /\ member[<<q, t>>] = "Queued"
  <2>1. member[<<q, t>>] = "Queued" /\ bucket[q] = "registered"
    BY <1>1, <1>7 DEF ReleaseInv, BucketInv
  <2>2. ASSUME chan[1] = Delivered(q, t) PROVE FALSE
    BY <1>2, <2>1, <2>2 DEF Misfit, Delivered, InState
  <2> QED BY <2>1, <2>2
<1> QED BY <1>1, <1>5, <1>6, <1>7, ConsumeArm

\* The close of a session finds no arm of it on the way, so it skips and arms only
\* members that no arm will ask for
LEMMA ClosedArm ==
    ASSUME ReleaseInv, OwedInv, HeldInv, ArmedInv, NEW s \in Sessions, ReapClosed(s),
           reaper' = "running"
    PROVE  OwedInv' /\ HeldInv' /\ ArmedInv'
<1>1. PICK failing \in SUBSET Consumers :
        /\ chan # <<>> /\ Head(chan) = Closed(s) /\ UNCHANGED <<endpointVars, clientVars>>
        /\ \/ chan' = Tail(chan) /\ UpdateBuckets(bucket, ClassifyOnClose(s, failing))
           \/ \E c \in failing : Poison(c)
  BY DEF ReapClosed
<1> DEFINE m == ClassifyOnClose(s, failing)
<1>2. /\ TypeOK /\ chan' = Tail(chan) /\ UpdateBuckets(bucket, m)
      /\ UNCHANGED <<arms, token, sess, fence>>
  BY <1>1 DEF Poison, ReleaseInv, endpointVars, clientVars
<1>3. /\ 1 \in 1 .. Len(chan) /\ chan[1] = Closed(s)
      /\ Len(chan) \in Nat /\ Len(chan') = Len(chan) - 1
      /\ \A i \in 1 .. Len(chan') : i + 1 \in 1 .. Len(chan) /\ chan'[i] = chan[i + 1]
  BY <1>1, <1>2, HeadFact, TailFact DEF TypeOK
<1>4. sess[s] # "open"
  BY <1>3 DEF ReleaseInv, RecordInv
<1>5. \A q \in Points, t \in Sessions :
        /\ t # s => m[<<q, t>>] = member[<<q, t>>]
        /\ m[<<q, t>>] = "Queued" => member[<<q, t>>] = "Queued"
  <2> SUFFICES ASSUME NEW q \in Points, NEW t \in Sessions
               PROVE  /\ t # s => m[<<q, t>>] = member[<<q, t>>]
                      /\ m[<<q, t>>] = "Queued" => member[<<q, t>>] = "Queued"
    OBVIOUS
  <2> DEFINE c == <<q, t>>
  <2>1. c \in Consumers /\ c[2] = t
    BY DEF Consumers
  <2>2. m[c] = IF c[2] # s \/ c \in failing THEN member[c]
               ELSE CASE member[c] = "Queued" -> "Skipped"
                      [] member[c] = "DeliveredUnarmed" ->
                           IF fence[c] = "unsubmitted" THEN "Skipped" ELSE "Armed"
                      [] OTHER -> member[c]
    BY <2>1 DEF ClassifyOnClose
  <2> HIDE DEF m
  <2> QED BY <1>2, <2>1, <2>2 DEF TypeOK
<1> HIDE DEF m
<1>6. \A q \in Points, t \in Sessions :
        /\ bucket'[q] = "registered" => bucket[q] = "registered" /\ member'[<<q, t>>] = m[<<q, t>>]
        /\ member'[<<q, t>>] = "Queued" => m[<<q, t>>] = "Queued"
  <2> SUFFICES ASSUME NEW q \in Points, NEW t \in Sessions
               PROVE  /\ bucket'[q] = "registered" =>
                           bucket[q] = "registered" /\ member'[<<q, t>>] = m[<<q, t>>]
                      /\ member'[<<q, t>>] = "Queued" => m[<<q, t>>] = "Queued"
    OBVIOUS
  <2>1. <<q, t>> \in Consumers /\ <<q, t>>[1] = q
    BY DEF Consumers
  <2> QED BY <1>2, <2>1, UpdateMoves
<1>7. ASSUME NEW q \in Points, NEW t \in Sessions, Armable(q, t)'
      PROVE  Armable(q, t) /\ t # s
  <2>1. CASE <<q, t>> \in arms
    BY <1>4, <2>1 DEF OwedInv, Armable
  <2>2. CASE <<q, t>> \notin arms
    <3>1. PICK i \in 1 .. Len(chan') : chan'[i] = Armed(q, t)
      BY <1>2, <1>7, <2>2 DEF Armable
    <3>2. i + 1 \in 1 .. Len(chan) /\ chan[i + 1] = Armed(q, t) /\ 1 < i + 1
      BY <1>3, <3>1
    <3>3. \A j \in 1 .. Len(chan) : j < i + 1 => chan[j] # Closed(t)
      BY <3>2 DEF ArmedInv
    <3>4. chan[1] # Closed(t)
      BY <1>3, <3>2, <3>3
    <3> QED BY <1>3, <3>2, <3>4 DEF Armable
  <2> QED BY <2>1, <2>2
<1>8. ASSUME NEW q \in Points, NEW t \in Sessions, bucket'[q] = "registered", Armable(q, t)'
      PROVE  member'[<<q, t>>] \in {"Queued", "DeliveredUnarmed"}
  <2>1. t # s /\ (bucket[q] = "registered" => member[<<q, t>>] \in {"Queued", "DeliveredUnarmed"})
    BY <1>7, <1>8 DEF OwedInv
  <2> QED BY <1>5, <1>6, <1>8, <2>1
<1>9. ASSUME NEW q \in Points, NEW t \in Sessions, bucket'[q] = "registered",
             token[<<q, t>>] = "held", sess[t] = "open"
      PROVE  member'[<<q, t>>] = "Queued"
  <2>1. t # s /\ (bucket[q] = "registered" => member[<<q, t>>] = "Queued")
    BY <1>4, <1>9 DEF HeldInv
  <2> QED BY <1>5, <1>6, <1>9, <2>1
<1>10. ASSUME NEW q \in Points, NEW t \in Sessions, member'[<<q, t>>] = "Queued"
       PROVE  chan[1] # Delivered(q, t) /\ member[<<q, t>>] = "Queued"
  <2>1. Closed(s) # Delivered(q, t)
    BY RecordsDiffer
  <2>2. chan[1] # Delivered(q, t)
    BY <1>3, <2>1
  <2> QED BY <1>5, <1>6, <1>10, <2>2
<1> QED BY <1>1, <1>2, <1>8, <1>9, <1>10, ConsumeArm

\* A step of the producer or of an endpoint
LEMMA SenderArm ==
    ASSUME ReleaseInv, ArmInv, ProducerNext \/ EndpointNext
    PROVE  ArmInv'
<1> SUFFICES ASSUME reaper = "running" PROVE OwedInv' /\ HeldInv' /\ ArmedInv'
  <2>1. reaper' = reaper
    BY DEF ProducerNext, ReleaseSyncobjArrives, RegisterFrame, FrameNotRegistered,
       RetireProducer, EndpointNext, EndpointQueue, ForwardFrame, SkipFrame, DropFrame,
       RelayArm, CloseSession, UnregisterDisplay, reaperVars
  <2> QED BY <2>1 DEF ArmInv
<1>1. TypeOK /\ OwedInv /\ HeldInv /\ ArmedInv
  BY DEF ReleaseInv, ArmInv
<1>2. \A p \in Points, s \in Sessions :
        /\ <<p, s>> \in Consumers /\ <<p, s>>[1] = p /\ <<p, s>>[2] = s
        /\ <<p, s>> \in arms => sess[s] = "open" /\ token[<<p, s>>] = "delivered"
  BY <1>1 DEF Consumers, OwedInv, Armable
<1>3. CASE ReleaseSyncobjArrives \/ FrameNotRegistered \/ RetireProducer
           \/ \E s \in Sessions : UnregisterDisplay(s)
  <2>1. UNCHANGED <<chan, arms, token, bucket, member, reaper, fence>>
    BY <1>3 DEF ReleaseSyncobjArrives, FrameNotRegistered, RetireProducer, UnregisterDisplay,
       endpointVars, clientVars, bucketVars, reaperVars
  <2>2. \A s \in Sessions : sess'[s] = "open" <=> sess[s] = "open"
    BY <1>1, <1>3 DEF ReleaseSyncobjArrives, FrameNotRegistered, RetireProducer,
       UnregisterDisplay, endpointVars, TypeOK
  <2> QED BY <1>1, <2>1, <2>2, QuietArm DEF ArmInv
<1>4. ASSUME NEW S \in SUBSET Sessions, RegisterFrame(S)
      PROVE  OwedInv' /\ HeldInv' /\ ArmedInv'
  <2> DEFINE n == nextFrame
             r == Register(n, S)
  <2>1. /\ Send(r) /\ UNCHANGED <<arms, sess, fence, bucket, member>>
        /\ token' = [c \in Consumers |-> IF c[1] = n /\ c[2] \in S THEN "held" ELSE token[c]]
    BY <1>4 DEF RegisterFrame, clientVars, bucketVars
  <2>2. n \in Points => bucket[n] # "registered" /\ \A s \in Sessions : token[<<n, s>>] = "none"
    BY DEF ReleaseInv, BucketInv, RegisterInv, Points
  <2>3. \A p \in Points, s \in Sessions :
          token'[<<p, s>>] = IF p = n /\ s \in S THEN "held" ELSE token[<<p, s>>]
    <3> HIDE DEF n
    <3> QED BY <1>2, <2>1
  <2>4. \A p \in Points, s \in Sessions :
          /\ r # Armed(p, s) /\ r # Delivered(p, s)
          /\ \A T \in SUBSET Sessions : r = Register(p, T) => p = n
    BY RecordsDiffer
  <2> HIDE DEF n, r
  <2>5. \A p \in Points, s \in Sessions :
          /\ token[<<p, s>>] = "delivered" => token'[<<p, s>>] = "delivered"
          /\ token'[<<p, s>>] = "held" => token[<<p, s>>] = "held" \/ bucket[p] # "registered"
    BY <2>2, <2>3
  <2>6. \A p \in Points, s \in Sessions :
          /\ r # Armed(p, s)
          /\ r = Delivered(p, s) => token'[<<p, s>>] = "delivered"
          /\ \A T \in SUBSET Sessions : r = Register(p, T) => token[<<p, s>>] # "delivered"
    BY <2>2, <2>4
  <2>7. \A p \in Points, s \in Sessions : <<p, s>> \in arms' => sess'[s] = "open" /\ <<p, s>> \in arms
    BY <1>2, <2>1
  <2> QED BY <1>1, <2>1, <2>5, <2>6, <2>7, SendArm
<1>5. ASSUME NEW p \in Points, NEW s \in Sessions, ForwardFrame(p, s)
      PROVE  OwedInv' /\ HeldInv' /\ ArmedInv'
  <2>1. /\ Send(Delivered(p, s)) /\ UNCHANGED <<sess, fence, bucket, member>>
        /\ token[<<p, s>>] = "held" /\ sess[s] = "open"
        /\ token' = [token EXCEPT ![<<p, s>>] = "delivered"]
        /\ arms' = IF s \in LegacySessions THEN arms ELSE arms \cup {<<p, s>>}
    BY <1>5 DEF ForwardFrame, Oldest, clientVars, bucketVars
  <2>2. \A q \in Points, t \in Sessions :
          token'[<<q, t>>] = IF q = p /\ t = s THEN "delivered" ELSE token[<<q, t>>]
    BY <1>1, <2>1 DEF TypeOK, Consumers
  <2>3. \A q \in Points, t \in Sessions :
          /\ Delivered(p, s) # Armed(q, t)
          /\ Delivered(p, s) = Delivered(q, t) => token'[<<q, t>>] = "delivered"
          /\ \A T \in SUBSET Sessions : Delivered(p, s) # Register(q, T)
    BY <2>2, RecordsDiffer
  <2>4. \A q \in Points, t \in Sessions :
          <<q, t>> \in arms' =>
            /\ sess'[t] = "open"
            /\ \/ <<q, t>> \in arms
               \/ /\ token[<<q, t>>] = "held" /\ sess[t] = "open"
                  /\ token'[<<q, t>>] = "delivered" /\ t \notin LegacySessions
    BY <1>2, <2>1, <2>2
  <2>5. \A q \in Points, t \in Sessions :
          /\ token[<<q, t>>] = "delivered" => token'[<<q, t>>] = "delivered"
          /\ token'[<<q, t>>] = "held" => token[<<q, t>>] = "held" \/ bucket[q] # "registered"
    BY <2>2
  <2> QED BY <1>1, <2>1, <2>3, <2>4, <2>5, SendArm
<1>6. ASSUME NEW p \in Points, NEW s \in Sessions, SkipFrame(p, s) \/ DropFrame(p, s)
      PROVE  OwedInv' /\ HeldInv' /\ ArmedInv'
  <2>1. /\ Send(Skipped(p, s)) /\ UNCHANGED <<arms, sess, fence, bucket, member>>
        /\ token[<<p, s>>] = "held" /\ token' = [token EXCEPT ![<<p, s>>] = "skipped"]
    BY <1>6 DEF SkipFrame, DropFrame, Oldest, clientVars, bucketVars
  <2>2. \A q \in Points, t \in Sessions :
          token'[<<q, t>>] = IF q = p /\ t = s THEN "skipped" ELSE token[<<q, t>>]
    BY <1>1, <2>1 DEF TypeOK, Consumers
  <2>3. \A q \in Points, t \in Sessions :
          /\ token[<<q, t>>] = "delivered" => token'[<<q, t>>] = "delivered"
          /\ token'[<<q, t>>] = "held" => token[<<q, t>>] = "held" \/ bucket[q] # "registered"
    BY <2>1, <2>2
  <2>4. \A q \in Points, t \in Sessions :
          /\ Skipped(p, s) # Armed(q, t) /\ Skipped(p, s) # Delivered(q, t)
          /\ \A T \in SUBSET Sessions : Skipped(p, s) # Register(q, T)
    BY RecordsDiffer
  <2>5. \A q \in Points, t \in Sessions : <<q, t>> \in arms' => sess'[t] = "open" /\ <<q, t>> \in arms
    BY <1>2, <2>1
  <2> QED BY <1>1, <2>1, <2>3, <2>4, <2>5, SendArm
<1>7. ASSUME NEW s \in Sessions, CloseSession(s)
      PROVE  OwedInv' /\ HeldInv' /\ ArmedInv'
  <2>1. /\ Send(Closed(s)) \/ UNCHANGED chan
        /\ UNCHANGED <<token, fence, bucket, member>>
        /\ sess' = [sess EXCEPT ![s] = "closed"] /\ arms' = {c \in arms : c[2] # s}
    BY <1>7 DEF CloseSession, clientVars, bucketVars
  <2>2. \A t \in Sessions : sess'[t] = IF t = s THEN "closed" ELSE sess[t]
    BY <1>1, <2>1 DEF TypeOK
  <2>3. \A q \in Points, t \in Sessions : <<q, t>> \in arms' => sess'[t] = "open" /\ <<q, t>> \in arms
    BY <1>2, <2>1, <2>2
  <2>4. \A q \in Points, t \in Sessions :
          /\ Closed(s) # Armed(q, t) /\ Closed(s) # Delivered(q, t)
          /\ \A T \in SUBSET Sessions : Closed(s) # Register(q, T)
    BY RecordsDiffer
  <2>5. \A t \in Sessions : sess'[t] = "open" => sess[t] = "open"
    BY <2>2
  <2>6. \A q \in Points, t \in Sessions :
          /\ token[<<q, t>>] = "delivered" => token'[<<q, t>>] = "delivered"
          /\ token'[<<q, t>>] = "held" => token[<<q, t>>] = "held" \/ bucket[q] # "registered"
    BY <2>1
  <2> QED BY <1>1, <2>1, <2>3, <2>4, <2>5, <2>6, SendArm
<1>8. ASSUME NEW p \in Points, NEW s \in Sessions, RelayArm(p, s)
      PROVE  OwedInv' /\ HeldInv' /\ ArmedInv'
  BY <1>1, <1>8, RelayArmKeeps
<1> QED BY <1>3, <1>4, <1>5, <1>6, <1>7, <1>8 DEF ProducerNext, EndpointNext, EndpointQueue

\* Every step of every party keeps the arms in order while the reaper runs
LEMMA ArmStep ==
    ASSUME ReleaseInv, ArmInv, [Next]_vars
    PROVE  ArmInv'
<1>1. TypeOK
  BY DEF ReleaseInv
<1>2. CASE ClientNext
  <2>1. /\ UNCHANGED <<chan, arms, token, bucket, member, sess, reaper>>
        /\ \A c \in Consumers : fence[c] # "unsubmitted" => fence'[c] # "unsubmitted"
    BY <1>1, <1>2 DEF ClientNext, SubmitFence, SignalFence, endpointVars, bucketVars, reaperVars,
                      TypeOK
  <2> QED BY <1>1, <2>1, QuietArm
<1>3. CASE UNCHANGED vars
  <2>1. UNCHANGED <<chan, arms, token, bucket, member, sess, fence, reaper>>
    BY <1>3 DEF vars, endpointVars, clientVars, bucketVars, reaperVars
  <2> QED BY <1>1, <2>1, QuietArm
<1>4. CASE ReaperCompletions \/ \E p \in Points : WorkerStep(p)
  <2>1. /\ UNCHANGED <<arms, token, bucket, member, sess, fence>>
        /\ UNCHANGED <<chan, reaper>> \/ reaper' = "poisoned"
    BY <1>4 DEF ReaperCompletions, ReapResolved, ReapFailed, ReapPoisoned, Poison, WorkerStep,
       WorkerCancelled, WorkerScan, WorkerWake, WorkerTimeout, WorkerError,
       endpointVars, clientVars, bucketVars, reaperVars
  <2>2. CASE UNCHANGED <<chan, reaper>>
    BY <1>1, <2>1, <2>2, QuietArm
  <2>3. CASE reaper' = "poisoned"
    BY <2>3 DEF ArmInv
  <2> QED BY <2>1, <2>2, <2>3
<1>5. CASE ReaperRecords
  <2> SUFFICES ASSUME reaper' = "running" PROVE OwedInv' /\ HeldInv' /\ ArmedInv'
    BY DEF ArmInv
  <2>1. reaper = "running"
    BY <1>5 DEF ReaperRecords, ReapRegister, ReapDelivered, ReapArmed, ReapArmedPoison,
                ReapSkipped, ReapMisfit, ReapClosed, ReaperExit, Receive
  <2>2. OwedInv /\ HeldInv /\ ArmedInv
    BY <2>1 DEF ArmInv
  <2>3. ~ReaperExit /\ \A p \in Points, s \in Sessions : ~ReapArmedPoison(p, s)
    BY DEF ReaperExit, ReapArmedPoison, Poison
  <2> QED BY <1>5, <2>2, <2>3, RegisterArm, MemberArm, MisfitArm, ClosedArm DEF ReaperRecords
<1> QED BY <1>2, <1>3, <1>4, <1>5, SenderArm DEF Next

\* Only a failing ioctl lets a worker poison
LEMMA CauseStep ==
    ASSUME TypeOK, CauseInv, [Next]_vars
    PROVE  CauseInv'
<1> SUFFICES ASSUME ~DrmErrors, NEW p \in Points PROVE comp'[p] # "poisoned"
  BY DEF CauseInv
<1>1. comp[p] # "poisoned"
  BY DEF CauseInv
<1>2. CASE UNCHANGED comp
  BY <1>1, <1>2
<1>3. ASSUME NEW b, NEW m, UpdateBuckets(b, m) PROVE comp'[p] # "poisoned"
  BY <1>1, <1>3 DEF UpdateBuckets
<1>4. CASE ProducerNext \/ EndpointNext \/ ClientNext \/ UNCHANGED vars
  BY <1>2, <1>4 DEF ProducerNext, ReleaseSyncobjArrives, RegisterFrame, FrameNotRegistered,
     RetireProducer, EndpointNext, EndpointQueue, ForwardFrame, SkipFrame, DropFrame,
     RelayArm, CloseSession, UnregisterDisplay, ClientNext, SubmitFence, SignalFence, vars
<1>5. CASE ReaperRecords
  BY <1>2, <1>3, <1>5 DEF ReaperRecords, ReapRegister, ReapDelivered, ReapArmed, ReapArmedPoison,
     ReapSkipped, ReapMisfit, ReapClosed, ReaperExit, workerVars
<1>6. CASE ReaperCompletions
  BY <1>1, <1>6 DEF ReaperCompletions, ReapResolved, ReapFailed, ReapPoisoned, Consume, TypeOK
<1>7. ASSUME NEW q \in Points, WorkerStep(q) PROVE comp'[p] # "poisoned"
  <2>1. ~WorkerError(q)
    BY DEF WorkerError
  <2>2. comp' = comp \/ comp' = [comp EXCEPT ![q] = "resolved"]
    BY <1>7, <2>1 DEF WorkerStep, WorkerCancelled, WorkerScan, WorkerWake, WorkerTimeout, Finish
  <2> QED BY <1>1, <2>2 DEF TypeOK
<1> QED BY <1>4, <1>5, <1>6, <1>7 DEF Next

\* The arm of a client that submits first finds its member waiting for it
LEMMA PoisonStep ==
    ASSUME ReleaseInv, ArmInv, CauseInv, PoisonForCause, [Next]_vars
    PROVE  PoisonForCause'
<1> SUFFICES ASSUME ~DrmErrors, reaper' = "poisoned", NEW c \in blamed'
             PROVE  c[2] \in RudeSessions
  BY DEF PoisonForCause
<1>1. TypeOK
  BY DEF ReleaseInv
<1>2. CASE UNCHANGED <<reaper, blamed>>
  BY <1>2 DEF PoisonForCause
<1>3. CASE ProducerNext \/ EndpointNext \/ ClientNext \/ UNCHANGED vars
  BY <1>2, <1>3 DEF ProducerNext, ReleaseSyncobjArrives, RegisterFrame, FrameNotRegistered,
     RetireProducer, EndpointNext, EndpointQueue, ForwardFrame, SkipFrame, DropFrame,
     RelayArm, CloseSession, UnregisterDisplay, ClientNext, SubmitFence, SignalFence, vars,
     reaperVars
<1>4. ASSUME NEW p \in Points, NEW s \in Sessions, ReapArmedPoison(p, s)
      PROVE  c[2] \in RudeSessions
  <2>1. /\ reaper = "running" /\ chan # <<>> /\ Head(chan) = Armed(p, s)
        /\ bucket[p] = "registered" /\ c = <<p, s>>
        /\ member[<<p, s>>] # "DeliveredUnarmed" \/ fence[<<p, s>>] = "unsubmitted"
    BY <1>4 DEF ReapArmedPoison, Poison
  <2>2. 1 \in 1 .. Len(chan) /\ chan[1] = Armed(p, s)
    BY <1>1, <2>1, HeadFact DEF TypeOK
  <2>3. /\ s \in RudeSessions \/ fence[<<p, s>>] # "unsubmitted"
        /\ Expects(p, s) => DeliveredAhead(p, s, 1)
    BY <2>1, <2>2 DEF ArmInv, ArmedInv
  <2>4. ~DeliveredAhead(p, s, 1)
    BY DEF DeliveredAhead
  <2>5. member[<<p, s>>] \in {"Queued", "DeliveredUnarmed"}
    BY <2>1, <2>2 DEF ArmInv, OwedInv, Armable
  <2>6. member[<<p, s>>] # "Queued"
    BY <2>3, <2>4 DEF Expects
  <2> QED BY <2>1, <2>3, <2>5, <2>6
<1>5. ASSUME NEW s \in Sessions, ReapClosed(s) PROVE c[2] \in RudeSessions
  BY <1>2, <1>5 DEF ReapClosed
<1>6. CASE ReaperRecords
  BY <1>2, <1>4, <1>5, <1>6 DEF ReaperRecords, ReapRegister, ReapDelivered, ReapArmed, ReapSkipped,
     ReapMisfit, ReaperExit, reaperVars
<1>7. CASE ReaperCompletions
  BY <1>2, <1>7 DEF ReaperCompletions, ReapResolved, ReapFailed, ReapPoisoned, Consume, CauseInv,
     reaperVars
<1>8. CASE \E p \in Points : WorkerStep(p)
  BY <1>2, <1>8 DEF WorkerStep, WorkerCancelled, WorkerScan, WorkerWake, WorkerTimeout,
     WorkerError, reaperVars
<1> QED BY <1>3, <1>6, <1>7, <1>8 DEF Next

\* Who may be blamed
CauseKnown == ReleaseInv /\ ArmInv /\ CauseInv /\ PoisonForCause

LEMMA CauseKept ==
    /\ Init => CauseKnown
    /\ CauseKnown /\ [Next]_vars => CauseKnown'
<1>1. ASSUME Init PROVE CauseKnown
  <2>1. chan = <<>> /\ arms = {} /\ reaper = "running"
    BY <1>1 DEF Init
  <2>2. \A i : i \notin 1 .. Len(chan)
    BY <2>1
  <2>3. \A p \in Points, s \in Sessions : token[<<p, s>>] = "none" /\ ~Armable(p, s)
    BY <1>1, <2>1, <2>2 DEF Init, Consumers, Armable
  <2>4. OwedInv /\ HeldInv /\ ArmedInv
    BY <2>1, <2>2, <2>3 DEF OwedInv, HeldInv, ArmedInv
  <2>5. CauseInv /\ PoisonForCause
    BY <1>1 DEF Init, CauseInv, PoisonForCause
  <2> QED BY <1>1, <2>4, <2>5, ReleaseInvInit DEF ArmInv, CauseKnown
<1>2. ASSUME CauseKnown, [Next]_vars PROVE CauseKnown'
  <2>1. TypeOK
    BY <1>2 DEF ReleaseInv, CauseKnown
  <2> QED BY <1>2, <2>1, ReleaseInvStep, ArmStep, CauseStep, PoisonStep DEF CauseKnown
<1> QED BY <1>1, <1>2

\* A generation is poisoned only when an ioctl failed, or for a client that arms
\* before it submits: whatever the order of the records, a client that submits
\* first is never blamed
THEOREM BlameForCause == Spec => []PoisonForCause
<1>1. CauseKnown => PoisonForCause
  BY DEF CauseKnown
<1> QED BY <1>1, CauseKept, PTL DEF Spec

-----------------------------------------------------------------------------
(* The two instances that are run together.  That a display stays a           *)
(* bystander only leaves steps out.                                            *)

\* In the instance without faults every complete prefix is published
THEOREM PrefixCompleteUnfailed == ReaperSpec => []PrefixPublishedUnfailed
<1> DEFINE Inv == ~faulty => TypeOK /\ PrefixPublished
<1>1. ReaperInit => Inv
  BY TypeInit DEF ReaperInit, Init, PrefixPublished
<1>2. Inv /\ [ReaperNext]_<<vars, faulty>> => Inv'
  <2> SUFFICES ASSUME Inv, [ReaperNext]_<<vars, faulty>>, ~faulty' PROVE (TypeOK /\ PrefixPublished)'
    OBVIOUS
  <2>1. ~faulty /\ [Next]_vars
    BY DEF ReaperNext
  <2> QED BY <2>1, TypeStep, PrefixStep
<1>3. Inv => PrefixPublishedUnfailed
  BY DEF PrefixPublishedUnfailed
<1> QED BY <1>1, <1>2, <1>3, PTL DEF ReaperSpec

\* In both a generation is poisoned for cause only
THEOREM BlameForCauseAlways == ReaperSpec => []PoisonedForCause
<1> DEFINE Inv == ~faulty => CauseKnown
<1>1. ReaperInit => Inv
  BY CauseKept DEF ReaperInit
<1>2. Inv /\ [ReaperNext]_<<vars, faulty>> => Inv'
  <2> SUFFICES ASSUME Inv, [ReaperNext]_<<vars, faulty>>, ~faulty' PROVE CauseKnown'
    OBVIOUS
  <2>1. ~faulty /\ [Next]_vars
    BY DEF ReaperNext
  <2> QED BY <2>1, CauseKept
<1>3. Inv => PoisonedForCause
  BY DEF PoisonedForCause, CauseKnown, Faults!PoisonForCause
<1> QED BY <1>1, <1>2, <1>3, PTL DEF ReaperSpec
=============================================================================
