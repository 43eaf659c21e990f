---------------------------- MODULE BridgePool ----------------------------
(***************************************************************************)
(* The producer's side of the release timeline: the buffer pool of one     *)
(* renderer process (src/bridge/src/pool.c), the loop of the plugin that   *)
(* drives it, the socket to the daemon, and the daemon as far as the       *)
(* producer relies on it, which is FrameRelease.                           *)
(*                                                                         *)
(* A plugin is one thread: an action is one lock section or one message of *)
(* it.  The daemon delivers, finishes and releases in between.  A slot is  *)
(* free when it was not used yet in this generation, or when the timeline  *)
(* has passed the point of its last use.                                   *)
(***************************************************************************)
EXTENDS Integers, Sequences

CONSTANTS
    Kinds,     \* plugins considered: subset of {"image", "video", "gltf"}
    Users,     \* displays
    MaxSlots,  \* bound: slots of a pool
    MaxGen,    \* bound: pools published
    MaxPoint   \* bound: frames published

ASSUME KindsAssumption == Kinds \subseteq {"image", "video", "gltf"}
ASSUME BoundsAssumption ==
    MaxSlots \in Nat \ {0} /\ MaxGen \in Nat /\ MaxPoint \in Nat

VARIABLES
    kind,         \* the plugin of this process; never changes
    \* the pool
    gen,          \* bind_generation
    nSlots,       \* n_slots
    nextSlot,     \* where the search for a slot starts
    lastPoint,    \* last_release_point of each slot
    point,        \* release_point: that of the last frame sent
    acq,          \* slot of the pending acquire
    latest,       \* buffer of the last frame, if it can be published again
    lost,         \* session_lost
    \* the plugin
    pc,           \* what the thread does
    scan,         \* offset of the slot polled next
    call,         \* the purpose of the frame under way
    negotiated,   \* negotiated; ready in the glTF plugin
    submitted,    \* submitted_since_negotiate
    negPending, targetPending, frameReq,  \* controls received
    bindFailed,   \* history: the last allocation asked for failed
    \* the socket
    up,
    wire,         \* messages on the way to the daemon
    \* the daemon
    pubGen,       \* generation of the published pool
    latestFrame,  \* buffer of the last frame
    shown,        \* history: buffers a display shows without being a member
    published, using, released,  \* those of FrameRelease
    \* history of the memory
    buffer,       \* the buffer of each frame sent
    intact        \* buffer last sent, until it is handed out for drawing

poolVars == <<gen, nSlots, nextSlot, lastPoint, latest>>
controls == <<negPending, targetPending>>
pluginVars == <<negotiated, submitted, frameReq, bindFailed>>
daemonVars == <<pubGen, latestFrame, shown, published, using, released>>
memVars == <<buffer, intact>>
vars == <<kind, poolVars, point, acq, lost, pc, scan, call, controls,
          pluginVars, up, wire, daemonVars, memVars>>

Slots == 0 .. MaxSlots - 1
NoSlot == MaxSlots
Points == 1 .. MaxPoint
Buffers == (1 .. MaxGen) \X Slots
NoBuffer == <<0, NoSlot>>

\* The daemon's promise; the releases of its reaper implement it
Daemon == INSTANCE FrameRelease WITH MaxFrame <- MaxPoint

Messages == [gen : 0 .. MaxGen, slot : 0 .. MaxSlots, point : 0 .. MaxPoint]
BindMessage(g) == [gen |-> g, slot |-> NoSlot, point |-> 0]
FrameMessage(s, p) == [gen |-> 0, slot |-> s, point |-> p]

Init ==
    /\ kind \in Kinds
    /\ gen = 0 /\ nSlots = 0 /\ nextSlot = 0 /\ lastPoint = [s \in Slots |-> 0]
    /\ latest = NoBuffer /\ point = 0 /\ acq = NoSlot /\ lost = FALSE
    /\ pc = "idle" /\ scan = 0 /\ call = "play"
    /\ negotiated = FALSE /\ submitted = FALSE /\ bindFailed = FALSE
    /\ negPending = FALSE /\ targetPending = FALSE /\ frameReq = FALSE
    /\ up = TRUE /\ wire = <<>>
    /\ pubGen = 0 /\ latestFrame = NoBuffer /\ shown = {}
    /\ Daemon!Init
    /\ buffer = [p \in Points |-> NoBuffer] /\ intact = NoBuffer

-----------------------------------------------------------------------------
(* Controls: received at the top of the loop, and while the thread waits   *)

Control ==
    /\ up
    /\ pc \in {"idle", "republish"} \/ (pc = "draw" /\ kind = "video" /\ call = "play")
    /\ \/ negPending' = TRUE /\ UNCHANGED <<targetPending, frameReq>>
       \/ targetPending' = TRUE /\ UNCHANGED <<negPending, frameReq>>
       \/ frameReq' = TRUE /\ UNCHANGED controls
    /\ UNCHANGED <<kind, poolVars, point, acq, lost, pc, scan, call, negotiated,
                   submitted, bindFailed, up, wire, daemonVars, memVars>>

-----------------------------------------------------------------------------
(* Pools                                                                    *)

\* reset_release_state_locked
ResetRelease ==
    /\ lastPoint' = [s \in Slots |-> 0]
    /\ nextSlot' = 0
    /\ latest' = NoBuffer

\* The video and image plugins look for a target first
NegotiationTurn ==
    /\ pc = "idle" /\ negPending
    /\ kind # "gltf" => ~targetPending
    /\ negPending' = FALSE
    /\ UNCHANGED <<kind, targetPending, point, acq, lost, scan, up, daemonVars, memVars>>

\* What a plugin makes of an error of apply_directive
NegotiationRefused ==
    /\ pc' = IF kind = "video" /\ ~negotiated THEN "failed" ELSE "idle"
    /\ negotiated' = (negotiated /\ kind # "gltf")
    /\ frameReq' = (kind = "gltf" \/ (kind = "video" /\ frameReq))
    /\ UNCHANGED <<call, submitted>>

\* The directive is rejected before anything is torn down
NegotiateInvalid ==
    /\ NegotiationTurn
    /\ NegotiationRefused
    /\ UNCHANGED <<poolVars, bindFailed, wire>>

\* The old slots are gone when an allocation fails
NegotiateNoMemory ==
    /\ NegotiationTurn
    /\ NegotiationRefused
    /\ bindFailed' = TRUE
    /\ nSlots' = 0
    /\ ResetRelease
    /\ UNCHANGED <<gen, wire>>

\* Mutant: the message is built before the generation is counted up
BindBuffersOld(n) ==
    /\ gen < MaxGen
    /\ gen' = gen + 1
    /\ nSlots' = n
    /\ ResetRelease
    /\ wire' = IF up THEN Append(wire, BindMessage(gen)) ELSE wire

\* emit_bind_buffers
BindBuffers(n) ==
    /\ gen < MaxGen
    /\ gen' = gen + 1
    /\ nSlots' = n
    /\ ResetRelease
    /\ wire' = IF up THEN Append(wire, BindMessage(gen')) ELSE wire

Negotiate ==
    /\ NegotiationTurn
    /\ \E n \in 1 .. MaxSlots : (kind = "image" => n = 1) /\ BindBuffers(n)
    /\ bindFailed' = FALSE
    /\ IF ~up
       THEN NegotiationRefused
       ELSE /\ negotiated' = (negotiated \/ kind # "image")
            /\ submitted' = FALSE
            /\ frameReq' = (kind = "gltf" \/ (kind = "video" /\ frameReq))
            /\ IF kind = "image"
               THEN pc' = "acquire" /\ call' = "upload"
               ELSE pc' = "idle" /\ UNCHANGED call

\* The image plugin also replaces its content when that changed (refresh)
TargetTurn(refresh) ==
    /\ pc = "idle"
    /\ IF refresh THEN kind = "image" /\ negotiated /\ ~targetPending /\ ~negPending
                  ELSE targetPending
    /\ targetPending' = FALSE
    /\ UNCHANGED <<kind, negPending, point, scan, submitted, bindFailed, up, daemonVars, memVars>>

\* prepare_target, drawing the candidate or the config fails: the pool stays
TargetRefused(refresh) ==
    /\ TargetTurn(refresh)
    /\ frameReq' = (frameReq /\ (kind # "image" \/ refresh))
    /\ pc' = IF up \/ refresh THEN "idle" ELSE "stopped"
    /\ UNCHANGED <<poolVars, acq, lost, call, negotiated, wire>>

\* commit_target, then try_acquire, which finds slot 0 of the new pool unused
TargetCommitted(refresh) ==
    /\ TargetTurn(refresh)
    /\ ~lost
    /\ \E n \in 1 .. MaxSlots : BindBuffers(n)
    /\ frameReq' = (frameReq /\ kind = "video")
    /\ lost' = ~up
    /\ IF up THEN pc' = "send" /\ call' = "target" /\ acq' = 0
             ELSE /\ pc' = IF refresh THEN "idle" ELSE "stopped"
                  /\ UNCHANGED <<call, acq>>
    /\ UNCHANGED negotiated

-----------------------------------------------------------------------------
(* Drawing a frame: try_acquire, draw, submit                               *)

FrameTurn(needed) ==
    /\ pc = "idle" /\ negotiated /\ needed
    /\ ~negPending /\ ~targetPending
    /\ UNCHANGED <<kind, poolVars, point, acq, lost, controls, negotiated, submitted,
                   bindFailed, up, wire, daemonVars, memVars>>

\* A video or an animation goes on, or the daemon asked for a frame
Play ==
    /\ FrameTurn(kind # "image")
    /\ pc' = "acquire" /\ call' = "play" /\ scan' = 0
    /\ UNCHANGED frameReq

Unused == {s \in Slots : s < nSlots /\ lastPoint[s] = 0}
SlotAt(k) == (nextSlot + k) % nSlots

\* Mutant: a wait that times out counts as success
SignaledOrLate(p) == p \in Nat

\* ww_drm_syncobj_timeline_wait with timeout 0
Signaled(p) == p <= released

AcquireTurn ==
    /\ pc = "acquire"
    /\ UNCHANGED <<kind, gen, nSlots, lastPoint, point, lost, call, controls,
                   pluginVars, up, wire, daemonVars, buffer>>

\* Mutant: acquiring the latest slot keeps its content on offer
HandOutKeepsLatest(s) ==
    /\ acq' = s
    /\ nextSlot' = (s + 1) % nSlots
    /\ UNCHANGED latest
    /\ intact' = IF intact = <<gen, s>> THEN NoBuffer ELSE intact
    /\ pc' = "draw" /\ scan' = 0

\* The slot is handed out for drawing: its content is not the latest any more
HandOut(s) ==
    /\ acq' = s
    /\ nextSlot' = (s + 1) % nSlots
    /\ latest' = IF latest = <<gen, s>> THEN NoBuffer ELSE latest
    /\ intact' = IF intact = <<gen, s>> THEN NoBuffer ELSE intact
    /\ pc' = "draw" /\ scan' = 0

AcquireRefused ==
    /\ AcquireTurn
    /\ lost \/ nSlots = 0
    /\ pc' = "failed" /\ scan' = 0
    /\ UNCHANGED <<nextSlot, latest, acq, intact>>

\* A slot never used needs no look at the timeline
AcquireUnused ==
    /\ AcquireTurn
    /\ ~lost /\ nSlots > 0
    /\ \E k \in Slots :
          /\ SlotAt(k) \in Unused
          /\ \A j \in 0 .. k - 1 : SlotAt(j) \notin Unused
          /\ HandOut(SlotAt(k))

\* Each slot is polled once; the timeline may advance between two polls
AcquireReleased ==
    /\ AcquireTurn
    /\ ~lost /\ nSlots > 0 /\ Unused = {}
    /\ Signaled(lastPoint[SlotAt(scan)])
    /\ HandOut(SlotAt(scan))

\* BUSY after the last slot: the frame is dropped
AcquireBusy ==
    /\ AcquireTurn
    /\ ~lost /\ nSlots > 0 /\ Unused = {}
    /\ ~Signaled(lastPoint[SlotAt(scan)])
    /\ IF scan + 1 < nSlots THEN scan' = scan + 1 /\ UNCHANGED pc
                            ELSE scan' = 0 /\ pc' = "idle"
    /\ UNCHANGED <<nextSlot, latest, acq, intact>>

DrawTurn ==
    /\ pc = "draw"
    /\ UNCHANGED <<kind, poolVars, point, lost, scan, call, controls, pluginVars,
                   up, wire, daemonVars, memVars>>

Drawn == DrawTurn /\ pc' = "send" /\ UNCHANGED acq

\* abort_acquired_slot: no capacity for the conversion (video), or an error
DrawAborted ==
    /\ DrawTurn
    /\ acq' = NoSlot
    /\ pc' \in IF kind = "video" THEN {"idle", "stopped"} ELSE {"stopped"}

\* submit_acquired_slot, first half: the frame goes out without the lock
SendFrame ==
    /\ pc = "send"
    /\ IF up
       THEN /\ point < MaxPoint
            /\ wire' = Append(wire, FrameMessage(acq, point + 1))
            /\ buffer' = [buffer EXCEPT ![point + 1] = <<gen, acq>>]
            /\ intact' = <<gen, acq>>
            /\ pc' = "commit"
            /\ UNCHANGED <<acq, lost>>
       ELSE /\ lost' = TRUE /\ acq' = NoSlot /\ pc' = "failed"
            /\ UNCHANGED <<wire, memVars>>
    /\ UNCHANGED <<kind, poolVars, point, scan, call, controls, pluginVars, up, daemonVars>>

\* Mutant: a frame published again keeps its point
CommitSamePoint ==
    /\ pc = "commit"
    /\ point' = IF call = "republish" THEN point ELSE point + 1
    /\ lastPoint' = [lastPoint EXCEPT ![acq] = point']
    /\ latest' = <<gen, acq>>
    /\ acq' = NoSlot
    /\ pc' = "idle"
    /\ negotiated' = TRUE /\ submitted' = TRUE
    /\ UNCHANGED <<kind, gen, nSlots, nextSlot, lost, scan, call, controls, frameReq,
                   bindFailed, up, wire, daemonVars, memVars>>

\* Second half: the point becomes that of the slot.  A request is served by the
\* frame it was read before; one that came during the frame stays.
Commit ==
    /\ pc = "commit"
    /\ point' = point + 1
    /\ lastPoint' = [lastPoint EXCEPT ![acq] = point']
    /\ latest' = <<gen, acq>>
    /\ acq' = NoSlot
    /\ pc' = "idle"
    /\ negotiated' = TRUE /\ submitted' = TRUE
    /\ frameReq' \in IF kind = "image" \/ call = "target" THEN {frameReq}
                     ELSE IF kind = "gltf" THEN {FALSE} ELSE {FALSE, frameReq}
    /\ UNCHANGED <<kind, gen, nSlots, nextSlot, lost, scan, call, controls, bindFailed,
                   up, wire, daemonVars, memVars>>

-----------------------------------------------------------------------------
(* The last frame once more: wait_republish_latest                          *)

\* An image, or a video that is paused or at its end
Republish ==
    /\ FrameTurn(frameReq /\ (kind = "image" \/ (kind = "video" /\ submitted)))
    /\ pc' = "republish" /\ call' = "republish"
    /\ frameReq' = (kind # "image")
    /\ UNCHANGED scan

RepublishTurn ==
    /\ pc = "republish"
    /\ UNCHANGED <<kind, poolVars, point, lost, scan, call, controls, pluginVars,
                   up, wire, daemonVars, memVars>>

HasContent == latest # NoBuffer /\ latest[1] = gen /\ latest[2] < nSlots

RepublishRefused ==
    /\ RepublishTurn
    /\ lost \/ ~HasContent
    /\ pc' = "failed"
    /\ UNCHANGED acq

RepublishAcquire ==
    /\ RepublishTurn
    /\ ~lost /\ HasContent
    /\ Signaled(lastPoint[latest[2]])
    /\ acq' = latest[2]
    /\ pc' = "send"

\* The image plugin also gives up when its variant changed
RepublishCancelled ==
    /\ RepublishTurn
    /\ ~lost /\ HasContent
    /\ ~Signaled(lastPoint[latest[2]])
    /\ kind = "image" \/ negPending \/ targetPending
    /\ pc' = "idle"
    /\ UNCHANGED acq

-----------------------------------------------------------------------------
(* The connection and the daemon                                            *)

Disconnect ==
    /\ up
    /\ up' = FALSE /\ wire' = <<>>
    /\ UNCHANGED <<kind, poolVars, point, acq, lost, pc, scan, call, controls,
                   pluginVars, daemonVars, memVars>>

\* The loop ends when it reads the end of the stream
Hangup ==
    /\ ~up /\ pc = "idle"
    /\ pc' = "stopped"
    /\ UNCHANGED <<kind, poolVars, point, acq, lost, scan, call, controls, pluginVars,
                   up, wire, daemonVars, memVars>>

\* The reader takes a frame for one of the pool published last
Deliver ==
    /\ wire # <<>>
    /\ LET m == Head(wire) IN
       IF m.point = 0
       THEN /\ pubGen' = m.gen /\ latestFrame' = NoBuffer
            /\ UNCHANGED <<published, using>>
       ELSE /\ latestFrame' = <<pubGen, m.slot>>
            /\ published' = m.point
            /\ \E S \in SUBSET Users : using' = using \cup ({m.point} \X S)
            /\ UNCHANGED pubGen
    /\ wire' = Tail(wire)
    /\ UNCHANGED <<kind, poolVars, point, acq, lost, pc, scan, call, controls, pluginVars,
                   up, shown, released, memVars>>

\* Mutant: the last frame of any renderer is replayed
ReplayAny ==
    /\ latestFrame # NoBuffer /\ latestFrame[1] = pubGen
    /\ shown' = shown \cup {latestFrame}
    /\ UNCHANGED <<kind, poolVars, point, acq, lost, pc, scan, call, controls, pluginVars,
                   up, wire, pubGen, latestFrame, published, using, released, memVars>>

\* sync_display sends the last image to a display just bound, without a member
Replay ==
    /\ kind = "image" /\ latestFrame # NoBuffer /\ latestFrame[1] = pubGen
    /\ shown' = shown \cup {latestFrame}
    /\ UNCHANGED <<kind, poolVars, point, acq, lost, pc, scan, call, controls, pluginVars,
                   up, wire, pubGen, latestFrame, published, using, released, memVars>>

\* Displays finish, the reaper releases
Release ==
    /\ \/ /\ \E u \in Users : \E done \in SUBSET {c \in using : c[2] = u} :
             done # {} /\ using' = using \ done
          /\ UNCHANGED <<published, released>>
       \/ \E n \in 1 .. published : Daemon!Release(n)
    /\ UNCHANGED <<kind, poolVars, point, acq, lost, pc, scan, call, controls, pluginVars,
                   up, wire, pubGen, latestFrame, shown, memVars>>

-----------------------------------------------------------------------------

Plugin ==
    \/ NegotiateInvalid \/ NegotiateNoMemory \/ Negotiate
    \/ \E refresh \in BOOLEAN : TargetRefused(refresh) \/ TargetCommitted(refresh)
    \/ Play \/ AcquireRefused \/ AcquireUnused \/ AcquireReleased \/ AcquireBusy
    \/ Drawn \/ DrawAborted \/ SendFrame \/ Commit
    \/ Republish \/ RepublishRefused \/ RepublishAcquire \/ RepublishCancelled \/ Hangup

Environment == Control \/ Disconnect \/ Deliver \/ Replay \/ Release

Next == Plugin \/ Environment

Spec == Init /\ [][Next]_vars

-----------------------------------------------------------------------------
(* Properties                                                               *)

PoolTypeOK ==
    /\ gen \in 0 .. MaxGen /\ nSlots \in 0 .. MaxSlots /\ nextSlot \in Slots
    /\ lastPoint \in [Slots -> 0 .. MaxPoint] /\ point \in 0 .. MaxPoint
    /\ acq \in 0 .. MaxSlots
    /\ latest \in Buffers \cup {NoBuffer} /\ intact \in Buffers \cup {NoBuffer}
    /\ buffer \in [Points -> Buffers \cup {NoBuffer}]

LoopTypeOK ==
    /\ kind \in Kinds
    /\ pc \in {"idle", "acquire", "draw", "send", "commit", "republish", "failed", "stopped"}
    /\ call \in {"upload", "target", "play", "republish"} /\ scan \in Slots

FlagTypeOK ==
    /\ negotiated \in BOOLEAN /\ submitted \in BOOLEAN /\ bindFailed \in BOOLEAN
    /\ negPending \in BOOLEAN /\ targetPending \in BOOLEAN /\ frameReq \in BOOLEAN
    /\ up \in BOOLEAN /\ lost \in BOOLEAN

DaemonTypeOK ==
    /\ wire \in Seq(Messages)
    /\ pubGen \in 0 .. MaxGen /\ latestFrame \in Buffers \cup {NoBuffer}
    /\ shown \subseteq Buffers
    /\ published \in 0 .. MaxPoint /\ released \in 0 .. MaxPoint
    /\ using \subseteq Points \X Users

TypeOK == PoolTypeOK /\ LoopTypeOK /\ FlagTypeOK /\ DaemonTypeOK

\* The memory the plugin draws into, or whose drawing the GPU may not have begun
Drawing ==
    IF pc \in {"draw", "send"} /\ call # "republish" THEN {<<gen, acq>>} ELSE {}

\* The points on the wire
InFlight == {wire[i].point : i \in 1 .. Len(wire)} \ {0}

\* No slot is drawn into while a display uses a frame that lies in it, nor
\* while such a frame is on its way (try_acquire, apply_directive, commit_target)
NoOverwrite ==
    \A p \in {c[1] : c \in using} \cup InFlight : buffer[p] \notin Drawing

\* What a display was given without being a member of its release is never drawn
\* again: only image plugins are replayed (sync_display), and they draw only into
\* slots of a new pool
ReplayStable == shown \cap Drawing = {}

\* A frame published again is the one sent last, and its content was not handed
\* out for drawing since (try_republish_latest: "without modifying its contents")
RepublishIntact ==
    call = "republish" /\ pc \in {"send", "commit"} => <<gen, acq>> = intact

\* The daemon takes each frame for the buffer it lies in, though frames do not
\* name their pool: binds and frames of all pools keep one order (reader.rs)
FrameInPool ==
    latestFrame # NoBuffer => published > 0 /\ latestFrame = buffer[published]

\* The frames arrive with the points the daemon's release order takes for
\* granted: each one more than the last, over all pools and lost sends
KeepsReleaseOrder == Daemon!Spec

\* A failed allocation does not end the renderer: the daemon may choose another
\* format (apply_directive)
BindFailedSurvives == bindFailed /\ up => pc # "failed"

-----------------------------------------------------------------------------
(* The inductive invariant                                                  *)

\* The last point on the way or delivered
Sent == IF pc = "commit" THEN point + 1 ELSE point

IsBind(i) == wire[i].point = 0
IsFrame(i) == wire[i].point # 0

\* Points are released after they were published, and not while they are used
OrderInv ==
    /\ released <= published /\ published <= Sent /\ Sent <= MaxPoint
    /\ \A c \in using : released < c[1] /\ c[1] <= published

\* All points sent and not delivered are on the wire, in their order
WireInv ==
    /\ \A i \in 1 .. Len(wire) :
          IsFrame(i) => published < wire[i].point /\ wire[i].point <= Sent
    /\ \A i, j \in 1 .. Len(wire) :
          i < j /\ IsFrame(i) /\ IsFrame(j) => wire[i].point < wire[j].point
    /\ up => \A p \in published + 1 .. Sent : \E i \in 1 .. Len(wire) : wire[i].point = p
    /\ ~up => Len(wire) = 0

\* So are all pools, and each frame lies between its own pool and the next
PoolInv ==
    /\ \A i \in 1 .. Len(wire) : IsBind(i) => pubGen < wire[i].gen /\ wire[i].gen <= gen
    /\ \A i, j \in 1 .. Len(wire) :
          i < j /\ IsBind(i) /\ IsBind(j) => wire[i].gen < wire[j].gen
    /\ \A i \in 1 .. Len(wire) :
          IsFrame(i) => /\ wire[i].slot = buffer[wire[i].point][2]
                        /\ pubGen <= buffer[wire[i].point][1]
    /\ \A i, j \in 1 .. Len(wire) :
          IsFrame(i) /\ IsBind(j) => (i < j <=> buffer[wire[i].point][1] < wire[j].gen)
    /\ up => \A g \in pubGen + 1 .. gen :
               \E i \in 1 .. Len(wire) : IsBind(i) /\ wire[i].gen = g
    /\ pubGen <= gen

\* A slot remembers the last frame that lies in it; after a failed allocation the
\* points are forgotten, and there is no slot until the next generation
SlotInv ==
    /\ nSlots > 0 => gen > 0
    /\ \A p \in 1 .. Sent : buffer[p] \in Buffers /\ buffer[p][1] <= gen
    /\ nSlots > 0 => \A p \in 1 .. Sent : \A s \in Slots :
          buffer[p] = <<gen, s>> => p <= lastPoint[s] \/ (pc = "commit" /\ s = acq)

\* A slot is acquired for drawing when the timeline has passed its last frame
AcqInv ==
    /\ pc \in {"acquire", "draw"} => call # "republish"
    /\ pc \in {"draw", "send", "commit"} => acq \in Slots /\ nSlots > 0
    /\ pc \in {"draw", "send"} /\ call # "republish" => lastPoint[acq] <= released

\* What the pool takes for the latest content is
ContentInv ==
    /\ latest # NoBuffer /\ pc # "commit" => latest = intact
    /\ pc = "commit" => intact = <<gen, acq>>
    /\ pc = "send" /\ call = "republish" => latest = <<gen, acq>>

\* Replays show frames that were delivered, and only the image plugin's, which
\* draws only into pools that hold no frame yet
ReplayInv ==
    /\ kind # "image" => shown = {}
    /\ shown \subseteq {buffer[p] : p \in 1 .. published}
    /\ kind = "image" /\ pc \in {"acquire", "draw", "send"} /\ call # "republish" =>
          \A s \in Slots : lastPoint[s] = 0
    /\ pc = "republish" => call = "republish"

BridgeInv ==
    TypeOK /\ OrderInv /\ WireInv /\ PoolInv /\ SlotInv /\ AcqInv /\ ContentInv
        /\ FrameInPool /\ ReplayInv

=============================================================================
