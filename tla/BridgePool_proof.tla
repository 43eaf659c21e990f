------------------------- MODULE BridgePool_proof -------------------------
(* BridgeInv is inductive; hence no buffer in use or replayed is drawn into,  *)
(* frames are attributed to the buffer they lie in, and the points keep the   *)
(* order that FrameRelease takes for granted.                                 *)
EXTENDS BridgePool, TLAPS

-----------------------------------------------------------------------------
(* Facts about numbers and about the wire. *)

\* The search for a slot wraps around within the pool
LEMMA WrapFact ==
    ASSUME NEW n \in Nat, n > 0, NEW k \in Nat
    PROVE  k % n \in 0 .. n - 1
OBVIOUS

\* A message sent is behind those on the way
LEMMA AppendFact ==
    ASSUME wire \in Seq(Messages), NEW m \in Messages, wire' = Append(wire, m)
    PROVE  /\ wire' \in Seq(Messages)
           /\ Len(wire) \in Nat /\ Len(wire') = Len(wire) + 1
           /\ wire'[Len(wire) + 1] = m
           /\ \A i \in 1 .. Len(wire) : wire'[i] = wire[i] /\ wire[i] \in Messages
OBVIOUS

\* Taking the head shifts the others one place forward
LEMMA TailFact ==
    ASSUME wire \in Seq(Messages), wire # <<>>, wire' = Tail(wire)
    PROVE  /\ wire' \in Seq(Messages)
           /\ Len(wire) \in Nat /\ Len(wire) > 0 /\ Len(wire') = Len(wire) - 1
           /\ Head(wire) = wire[1]
           /\ \A i \in 1 .. Len(wire) : wire[i] \in Messages
           /\ \A i \in 1 .. Len(wire') : wire'[i] = wire[i + 1]
OBVIOUS

-----------------------------------------------------------------------------

LEMMA BridgeInvInit == Init => BridgeInv
<1> SUFFICES ASSUME Init PROVE BridgeInv
  OBVIOUS
<1> USE BoundsAssumption DEF Init
<1>0. wire = <<>> /\ Len(wire) = 0 /\ wire \in Seq(Messages)
  OBVIOUS
<1>1. published = 0 /\ using = {} /\ released = 0
  BY DEF Daemon!Init
<1>2. TypeOK
  <2>1. /\ gen \in 0 .. MaxGen /\ nSlots \in 0 .. MaxSlots /\ nextSlot \in Slots
        /\ point \in 0 .. MaxPoint /\ acq \in 0 .. MaxSlots /\ scan \in Slots
        /\ pubGen \in 0 .. MaxGen /\ published \in 0 .. MaxPoint /\ released \in 0 .. MaxPoint
    BY <1>1 DEF Slots, NoSlot
  <2>2. lastPoint \in [Slots -> 0 .. MaxPoint]
    OBVIOUS
  <2>3. /\ latest \in Buffers \cup {NoBuffer} /\ latestFrame \in Buffers \cup {NoBuffer}
        /\ intact \in Buffers \cup {NoBuffer}
        /\ buffer \in [Points -> Buffers \cup {NoBuffer}]
    OBVIOUS
  <2> QED
    BY <1>0, <1>1, <2>1, <2>2, <2>3 DEF TypeOK, PoolTypeOK, LoopTypeOK, FlagTypeOK, DaemonTypeOK
<1>3. OrderInv /\ WireInv /\ PoolInv
  BY <1>0, <1>1 DEF OrderInv, WireInv, PoolInv, Sent
<1>4. SlotInv /\ AcqInv /\ ContentInv /\ FrameInPool
  BY DEF SlotInv, AcqInv, ContentInv, FrameInPool, Sent
<1>5. ReplayInv
  BY DEF ReplayInv
<1> QED
  BY <1>2, <1>3, <1>4, <1>5 DEF BridgeInv

-----------------------------------------------------------------------------
(* Types. *)

\* What is sent is a message
LEMMA MessageFact ==
    /\ \A g \in 0 .. MaxGen : BindMessage(g) \in Messages
    /\ \A s \in 0 .. MaxSlots, p \in 0 .. MaxPoint : FrameMessage(s, p) \in Messages
BY BoundsAssumption DEF BindMessage, FrameMessage, Messages, NoSlot

\* No step gives a flag another value
LEMMA FlagStep ==
    ASSUME BridgeInv, Next
    PROVE  FlagTypeOK'
<1> USE DEF BridgeInv, TypeOK, FlagTypeOK, controls, pluginVars
<1>1. CASE NegotiateInvalid \/ NegotiateNoMemory \/ Negotiate
  BY <1>1 DEF NegotiateInvalid, NegotiateNoMemory, Negotiate, NegotiationTurn, NegotiationRefused
<1>2. ASSUME NEW refresh \in BOOLEAN, TargetRefused(refresh) \/ TargetCommitted(refresh)
      PROVE  FlagTypeOK'
  BY <1>2 DEF TargetRefused, TargetCommitted, TargetTurn
<1>3. CASE Play \/ AcquireRefused \/ AcquireUnused \/ AcquireReleased \/ AcquireBusy
  BY <1>3 DEF Play, FrameTurn, AcquireRefused, AcquireUnused, AcquireReleased, AcquireBusy,
              AcquireTurn
<1>4. CASE Drawn \/ DrawAborted \/ SendFrame \/ Commit
  BY <1>4 DEF Drawn, DrawAborted, DrawTurn, SendFrame, Commit
<1>5. CASE Republish \/ RepublishRefused \/ RepublishAcquire \/ RepublishCancelled \/ Hangup
  BY <1>5 DEF Republish, FrameTurn, RepublishRefused, RepublishAcquire, RepublishCancelled,
              RepublishTurn, Hangup
<1>6. CASE Control \/ Disconnect
  BY <1>6 DEF Control, Disconnect
<1>7. CASE Deliver \/ Replay \/ Release
  BY <1>7 DEF Deliver, Replay, Release
<1> QED
  BY <1>1, <1>2, <1>3, <1>4, <1>5, <1>6, <1>7 DEF Next, Plugin, Environment

\* The thread is always at one of its places
LEMMA LoopStep ==
    ASSUME BridgeInv, Next
    PROVE  LoopTypeOK'
<1> USE DEF BridgeInv, TypeOK, LoopTypeOK
<1>0. 0 \in Slots
  BY BoundsAssumption DEF Slots
<1>1. CASE NegotiateInvalid \/ NegotiateNoMemory \/ Negotiate
  BY <1>1 DEF NegotiateInvalid, NegotiateNoMemory, Negotiate, NegotiationTurn, NegotiationRefused
<1>2. ASSUME NEW refresh \in BOOLEAN, TargetRefused(refresh) \/ TargetCommitted(refresh)
      PROVE  LoopTypeOK'
  BY <1>2 DEF TargetRefused, TargetCommitted, TargetTurn
<1>3. CASE Play \/ AcquireRefused \/ AcquireUnused \/ AcquireReleased
  BY <1>0, <1>3 DEF Play, FrameTurn, AcquireRefused, AcquireUnused, AcquireReleased, AcquireTurn,
                    HandOut
<1>4. CASE AcquireBusy
  BY <1>0, <1>4, BoundsAssumption DEF AcquireBusy, AcquireTurn, PoolTypeOK, Slots
<1>5. CASE Drawn \/ DrawAborted \/ SendFrame \/ Commit
  BY <1>5 DEF Drawn, DrawAborted, DrawTurn, SendFrame, Commit
<1>6. CASE Republish \/ RepublishRefused \/ RepublishAcquire \/ RepublishCancelled \/ Hangup
  BY <1>6 DEF Republish, FrameTurn, RepublishRefused, RepublishAcquire, RepublishCancelled,
              RepublishTurn, Hangup
<1>7. CASE Environment
  BY <1>7 DEF Environment, Control, Disconnect, Deliver, Replay, Release
<1> QED
  BY <1>1, <1>2, <1>3, <1>4, <1>5, <1>6, <1>7 DEF Next, Plugin

\* The daemon takes the frame at the head of the wire for the buffer it lies in:
\* had the plugin published its pool later, that pool would be ahead of it
LEMMA HeadFact ==
    ASSUME BridgeInv, wire # <<>>, Head(wire).point # 0
    PROVE  /\ Head(wire).point \in 1 .. Sent /\ published < Head(wire).point
           /\ buffer[Head(wire).point] \in Buffers
           /\ <<pubGen, Head(wire).slot>> = buffer[Head(wire).point]
<1> USE DEF BridgeInv, TypeOK
<1>1. /\ Len(wire) \in Nat /\ Len(wire) > 0 /\ Head(wire) = wire[1]
      /\ \A i \in 1 .. Len(wire) : wire[i] \in Messages
  BY DEF DaemonTypeOK
<1>2. IsFrame(1) /\ 1 \in 1 .. Len(wire) /\ wire[1].point \in Nat
  BY <1>1 DEF IsFrame, Messages
<1>3. wire[1].point \in 1 .. Sent /\ published < wire[1].point
  BY <1>1, <1>2, BoundsAssumption DEF WireInv, OrderInv, DaemonTypeOK, PoolTypeOK, Sent, IsFrame
<1>4. buffer[wire[1].point] \in Buffers /\ buffer[wire[1].point][1] <= gen
  BY <1>3 DEF SlotInv
<1>5. up
  BY <1>1 DEF WireInv
<1>6. /\ wire[1].slot = buffer[wire[1].point][2]
      /\ pubGen <= buffer[wire[1].point][1]
  BY <1>2 DEF PoolInv
<1>7. ASSUME pubGen < buffer[wire[1].point][1]
      PROVE  FALSE
  <2> DEFINE g == buffer[wire[1].point][1]
  <2>1. g \in pubGen + 1 .. gen
    BY <1>4, <1>7, BoundsAssumption DEF Buffers, PoolTypeOK, DaemonTypeOK
  <2>2. PICK i \in 1 .. Len(wire) : IsBind(i) /\ wire[i].gen = g
    BY <1>5, <2>1 DEF PoolInv
  <2>3. i # 1
    BY <1>2, <2>2 DEF IsBind, IsFrame
  <2>4. 1 < i
    BY <1>1, <2>3
  <2>5. g < wire[i].gen
    BY <1>2, <2>2, <2>4 DEF PoolInv
  <2> QED
    BY <2>1, <2>2, <2>5
<1>8. pubGen = buffer[wire[1].point][1]
  BY <1>4, <1>6, <1>7, BoundsAssumption DEF Buffers, DaemonTypeOK
<1> QED
  BY <1>1, <1>3, <1>4, <1>6, <1>8 DEF Buffers

\* What is on the wire and what the daemon keeps has its type
LEMMA DaemonStep ==
    ASSUME BridgeInv, Next
    PROVE  DaemonTypeOK'
<1> USE DEF BridgeInv, TypeOK, DaemonTypeOK
<1>1. ASSUME NEW n, BindBuffers(n), UNCHANGED daemonVars
      PROVE  DaemonTypeOK'
  BY <1>1, AppendFact, MessageFact, BoundsAssumption DEF BindBuffers, daemonVars, PoolTypeOK
<1>2. CASE NegotiateInvalid \/ NegotiateNoMemory
  BY <1>2 DEF NegotiateInvalid, NegotiateNoMemory, NegotiationTurn, daemonVars
<1>3. CASE Negotiate
  BY <1>1, <1>3 DEF Negotiate, NegotiationTurn
<1>4. ASSUME NEW refresh \in BOOLEAN, TargetRefused(refresh) PROVE DaemonTypeOK'
  BY <1>4 DEF TargetRefused, TargetTurn, daemonVars
<1>5. ASSUME NEW refresh \in BOOLEAN, TargetCommitted(refresh) PROVE DaemonTypeOK'
  BY <1>1, <1>5 DEF TargetCommitted, TargetTurn
<1>6. CASE Play \/ AcquireRefused \/ AcquireUnused \/ AcquireReleased \/ AcquireBusy
  BY <1>6 DEF Play, FrameTurn, AcquireRefused, AcquireUnused, AcquireReleased, AcquireBusy,
              AcquireTurn, daemonVars
<1>7. CASE Drawn \/ DrawAborted \/ Commit
  BY <1>7 DEF Drawn, DrawAborted, DrawTurn, Commit, daemonVars
<1>8. CASE SendFrame
  <2>1. CASE up
    <3>1. FrameMessage(acq, point + 1) \in Messages
      BY <1>8, <2>1, MessageFact, BoundsAssumption DEF SendFrame, PoolTypeOK
    <3> QED
      BY <1>8, <2>1, <3>1, AppendFact DEF SendFrame, daemonVars
  <2>2. CASE ~up
    BY <1>8, <2>2 DEF SendFrame, daemonVars
  <2> QED
    BY <2>1, <2>2
<1>9. CASE Republish \/ RepublishRefused \/ RepublishAcquire \/ RepublishCancelled \/ Hangup
  BY <1>9 DEF Republish, FrameTurn, RepublishRefused, RepublishAcquire, RepublishCancelled,
              RepublishTurn, Hangup, daemonVars
<1>10. CASE Control \/ Disconnect
  <2>1. <<>> \in Seq(Messages)
    OBVIOUS
  <2>2. wire' \in Seq(Messages)
    BY <1>10, <2>1 DEF Control, Disconnect
  <2>3. UNCHANGED daemonVars
    BY <1>10 DEF Control, Disconnect, daemonVars
  <2> QED
    BY <2>2, <2>3 DEF daemonVars
<1>11. CASE Deliver
  <2>1. wire' \in Seq(Messages) /\ wire[1] \in Messages /\ Head(wire) = wire[1]
    BY <1>11, TailFact DEF Deliver
  <2>2. CASE wire[1].point = 0
    BY <1>11, <2>1, <2>2 DEF Deliver, Messages
  <2>3. CASE wire[1].point # 0
    <3>1. wire[1].point \in Points /\ wire[1].point \in 0 .. MaxPoint
      BY <2>1, <2>3, BoundsAssumption DEF Messages, Points
    <3>2. using' \subseteq Points \X Users
      BY <1>11, <2>1, <2>3, <3>1 DEF Deliver
    <3>3. latestFrame' \in Buffers \cup {NoBuffer}
      BY <1>11, <2>3, HeadFact DEF Deliver
    <3> QED
      BY <1>11, <2>1, <2>3, <3>1, <3>2, <3>3 DEF Deliver
  <2> QED
    BY <2>2, <2>3
<1>12. CASE Replay
  BY <1>12 DEF Replay
<1>13. CASE Release
  BY <1>13, BoundsAssumption DEF Release, Daemon!Release
<1> QED
  BY <1>2, <1>3, <1>4, <1>5, <1>6, <1>7, <1>8, <1>9, <1>10, <1>11, <1>12, <1>13
     DEF Next, Plugin, Environment

\* What the pool keeps has its type
LEMMA PoolStep ==
    ASSUME BridgeInv, Next
    PROVE  PoolTypeOK'
<1> USE DEF BridgeInv, TypeOK, PoolTypeOK
<1>0. NoSlot \in 0 .. MaxSlots /\ 0 \in Slots /\ Slots \subseteq 0 .. MaxSlots /\ 0 \in 0 .. MaxPoint
  BY BoundsAssumption DEF NoSlot, Slots
<1>1. ASSUME NEW n \in 1 .. MaxSlots, BindBuffers(n), acq' \in {acq, 0}, UNCHANGED <<point, memVars>>
      PROVE  PoolTypeOK'
  <2>1. gen' \in 0 .. MaxGen /\ nSlots' \in 0 .. MaxSlots
    BY <1>1, BoundsAssumption DEF BindBuffers
  <2>2. lastPoint' \in [Slots -> 0 .. MaxPoint] /\ nextSlot' \in Slots /\ latest' = NoBuffer
    BY <1>0, <1>1 DEF BindBuffers, ResetRelease
  <2> QED
    BY <1>0, <1>1, <2>1, <2>2 DEF memVars
<1>2. CASE NegotiateInvalid \/ NegotiateNoMemory
  <2>1. UNCHANGED <<gen, point, acq, memVars>> /\ nSlots' \in {nSlots, 0}
    BY <1>2 DEF NegotiateInvalid, NegotiateNoMemory, NegotiationTurn, poolVars
  <2>2. \/ UNCHANGED <<nextSlot, lastPoint, latest>>
        \/ lastPoint' = [s \in Slots |-> 0] /\ nextSlot' = 0 /\ latest' = NoBuffer
    BY <1>2 DEF NegotiateInvalid, NegotiateNoMemory, ResetRelease, poolVars
  <2>3. 0 \in 0 .. MaxSlots
    BY <1>0
  <2> QED
    BY <1>0, <2>1, <2>2, <2>3 DEF memVars
<1>3. CASE Negotiate
  BY <1>1, <1>3 DEF Negotiate, NegotiationTurn
<1>4. ASSUME NEW refresh \in BOOLEAN, TargetRefused(refresh) PROVE PoolTypeOK'
  BY <1>4 DEF TargetRefused, TargetTurn, poolVars, memVars
<1>5. ASSUME NEW refresh \in BOOLEAN, TargetCommitted(refresh) PROVE PoolTypeOK'
  BY <1>1, <1>5 DEF TargetCommitted, TargetTurn
<1>6. ASSUME NEW s \in Slots, HandOut(s), nSlots > 0, AcquireTurn
      PROVE  PoolTypeOK'
  <2>1. nextSlot' \in 0 .. nSlots - 1
    BY <1>6, WrapFact, BoundsAssumption DEF HandOut, Slots
  <2>2. nextSlot' \in Slots
    BY <1>6, <2>1, BoundsAssumption DEF Slots
  <2>3. latest' \in Buffers \cup {NoBuffer} /\ intact' \in Buffers \cup {NoBuffer}
    BY <1>6 DEF HandOut
  <2> QED
    BY <1>0, <1>6, <2>2, <2>3 DEF HandOut, AcquireTurn
<1>7. CASE AcquireUnused
  BY <1>6, <1>7 DEF AcquireUnused, Unused
<1>8. CASE AcquireReleased
  <2>1. SlotAt(scan) \in 0 .. nSlots - 1
    BY <1>8, WrapFact, BoundsAssumption DEF AcquireReleased, SlotAt, LoopTypeOK, Slots
  <2>2. SlotAt(scan) \in Slots
    BY <1>8, <2>1, BoundsAssumption DEF Slots
  <2> QED
    BY <1>6, <1>8, <2>2 DEF AcquireReleased
<1>9. CASE Play \/ AcquireRefused \/ AcquireBusy
  BY <1>9 DEF Play, FrameTurn, AcquireRefused, AcquireBusy, AcquireTurn, poolVars, memVars
<1>10. CASE Drawn \/ DrawAborted
  BY <1>0, <1>10 DEF Drawn, DrawAborted, DrawTurn, poolVars, memVars
<1>11. CASE SendFrame
  <2>1. CASE up
    <3>1. gen \in 1 .. MaxGen /\ acq \in Slots
      BY <1>11, BoundsAssumption DEF SendFrame, AcqInv, SlotInv
    <3>2. <<gen, acq>> \in Buffers
      BY <3>1 DEF Buffers
    <3>3. buffer' \in [Points -> Buffers \cup {NoBuffer}]
      BY <1>11, <2>1, <3>2 DEF SendFrame
    <3>4. UNCHANGED <<gen, nSlots, nextSlot, lastPoint, latest, point, acq>> /\ intact' = <<gen, acq>>
      BY <1>11, <2>1 DEF SendFrame, poolVars
    <3> QED
      BY <3>2, <3>3, <3>4
  <2>2. CASE ~up
    BY <1>0, <1>11, <2>2 DEF SendFrame, poolVars, memVars
  <2> QED
    BY <2>1, <2>2
<1>12. CASE Commit
  <2>1. gen \in 1 .. MaxGen /\ acq \in Slots
    BY <1>12, BoundsAssumption DEF Commit, AcqInv, SlotInv
  <2>2. <<gen, acq>> \in Buffers
    BY <2>1 DEF Buffers
  <2>3. point' \in 0 .. MaxPoint
    BY <1>12, BoundsAssumption DEF Commit, OrderInv, Sent
  <2>4. lastPoint' \in [Slots -> 0 .. MaxPoint]
    BY <1>12, <2>3 DEF Commit
  <2> QED
    BY <1>0, <1>12, <2>2, <2>3, <2>4 DEF Commit, memVars
<1>13. CASE Republish \/ RepublishRefused \/ RepublishCancelled \/ Hangup
  BY <1>13 DEF Republish, FrameTurn, RepublishRefused, RepublishCancelled, RepublishTurn, Hangup,
               poolVars, memVars
<1>14. CASE RepublishAcquire
  BY <1>0, <1>14 DEF RepublishAcquire, RepublishTurn, HasContent, Buffers, poolVars, memVars
<1>15. CASE Environment
  BY <1>15 DEF Environment, Control, Disconnect, Deliver, Replay, Release, poolVars, memVars
<1> QED
  BY <1>2, <1>3, <1>4, <1>5, <1>7, <1>8, <1>9, <1>10, <1>11, <1>12, <1>13, <1>14, <1>15
     DEF Next, Plugin

-----------------------------------------------------------------------------
(* The parts of the invariant that speak of the order of things. *)

CoreInv == OrderInv /\ WireInv /\ PoolInv /\ SlotInv /\ AcqInv /\ ContentInv /\ FrameInPool

\* Steps of the thread that move neither frames nor slots
LEMMA QuietStep ==
    ASSUME BridgeInv, pc # "commit", pc' \notin {"draw", "send", "commit"},
           pc' = "acquire" => call' # "republish",
           UNCHANGED <<gen, nSlots, lastPoint, point, latest, up, wire, daemonVars, memVars>>
    PROVE  CoreInv'
<1> USE DEF BridgeInv, daemonVars, memVars
<1>0. Sent' = Sent
  BY DEF Sent
<1>1. OrderInv'
  BY <1>0 DEF OrderInv
<1>2. WireInv'
  BY <1>0 DEF WireInv, IsFrame
<1>3. PoolInv'
  BY DEF PoolInv, IsBind, IsFrame
<1>4. SlotInv'
  BY <1>0 DEF SlotInv
<1>5. AcqInv' /\ ContentInv'
  BY DEF AcqInv, ContentInv
<1>6. FrameInPool'
  BY DEF FrameInPool
<1> QED
  BY <1>1, <1>2, <1>3, <1>4, <1>5, <1>6 DEF CoreInv

\* A new pool: its message is behind the frames of the old one, its slots are unused
LEMMA BindStep ==
    ASSUME BridgeInv, NEW n \in 1 .. MaxSlots, BindBuffers(n),
           UNCHANGED <<point, up, daemonVars, memVars>>,
           pc = "idle", pc' \notin {"draw", "commit"},
           pc' = "acquire" => call' # "republish",
           pc' = "send" => acq' = 0 /\ call' # "republish"
    PROVE  CoreInv'
<1> USE DEF BridgeInv, TypeOK, daemonVars, memVars
<1>0. /\ Sent' = Sent /\ gen \in Nat /\ gen' = gen + 1 /\ nSlots' = n /\ n > 0
      /\ latest' = NoBuffer /\ \A s \in Slots : lastPoint'[s] = 0
  BY DEF Sent, BindBuffers, ResetRelease, PoolTypeOK
<1>1. OrderInv'
  BY <1>0 DEF OrderInv
<1>2. ASSUME ~up PROVE WireInv' /\ PoolInv'
  <2>1. wire' = wire
    BY <1>2 DEF BindBuffers
  <2>2. WireInv'
    BY <1>0, <2>1 DEF WireInv, IsFrame
  <2>3. Len(wire') = 0
    BY <1>2, <2>1 DEF WireInv
  <2>4. PoolInv'
    BY <1>0, <1>2, <2>3, BoundsAssumption DEF PoolInv, DaemonTypeOK
  <2> QED
    BY <2>2, <2>4
<1>3. ASSUME up PROVE WireInv' /\ PoolInv'
  <2> DEFINE m == BindMessage(gen')
             L == Len(wire)
  <2>1. m \in Messages /\ m.point = 0 /\ m.gen = gen + 1
    <3>1. gen' \in 0 .. MaxGen
      BY <1>0, BoundsAssumption DEF BindBuffers
    <3>2. m.point = 0 /\ m.gen = gen'
      BY DEF BindMessage
    <3> QED
      BY <1>0, <3>1, <3>2, MessageFact
  <2>2. wire' = Append(wire, m)
    BY <1>3 DEF BindBuffers
  <2> HIDE DEF m
  <2>3. /\ L \in Nat /\ Len(wire') = L + 1 /\ wire'[L + 1] = m
        /\ \A i \in 1 .. L : wire'[i] = wire[i] /\ wire[i] \in Messages
    BY <2>1, <2>2, AppendFact DEF DaemonTypeOK
  <2>4. \A i \in 1 .. L + 1 : i \in 1 .. L \/ i = L + 1
    BY <2>3
  <2>5. \A i \in 1 .. L : i \in 1 .. L + 1 /\ i < L + 1 /\ ~(L + 1 < i)
    BY <2>3
  <2> HIDE DEF L
  <2>6. WireInv'
    <3>1. \A i \in 1 .. L + 1 : wire'[i].point # 0 =>
             i \in 1 .. L /\ published < wire'[i].point /\ wire'[i].point <= Sent
      BY <2>1, <2>3, <2>4 DEF WireInv, IsFrame, L
    <3>2. \A i, j \in 1 .. L + 1 : i < j /\ wire'[i].point # 0 /\ wire'[j].point # 0
             => wire'[i].point < wire'[j].point
      BY <2>1, <2>3, <2>4, <3>1 DEF WireInv, IsFrame, L
    <3>3. \A p \in published + 1 .. Sent : \E i \in 1 .. L + 1 : wire'[i].point = p
      BY <1>3, <2>3, <2>5 DEF WireInv, L
    <3> QED
      BY <1>0, <1>3, <2>3, <3>1, <3>2, <3>3 DEF WireInv, IsFrame
  <2>7. PoolInv'
    <3>1. \A i \in 1 .. L + 1 : wire'[i].point = 0 =>
             pubGen < wire'[i].gen /\ wire'[i].gen <= gen + 1
      <4>1. pubGen < gen + 1
        BY <1>0, BoundsAssumption DEF PoolInv, DaemonTypeOK
      <4>2. \A i \in 1 .. L : wire[i].gen \in Nat
        BY <2>3, BoundsAssumption DEF Messages
      <4> QED
        BY <1>0, <2>1, <2>3, <2>4, <4>1, <4>2 DEF PoolInv, IsBind, L
    <3>2. \A i, j \in 1 .. L + 1 : i < j /\ wire'[i].point = 0 /\ wire'[j].point = 0
             => wire'[i].gen < wire'[j].gen
      <4> SUFFICES ASSUME NEW i \in 1 .. L + 1, NEW j \in 1 .. L + 1, i < j,
                          wire'[i].point = 0, wire'[j].point = 0
                   PROVE  wire'[i].gen < wire'[j].gen
        OBVIOUS
      <4>1. i \in 1 .. L
        BY <2>3, <2>4
      <4>2. wire[i].gen <= gen /\ wire[i].gen \in Nat
        BY <2>3, <4>1, BoundsAssumption DEF PoolInv, IsBind, L, Messages
      <4> QED
        BY <1>0, <2>1, <2>3, <2>4, <4>1, <4>2 DEF PoolInv, IsBind, L
    <3>3. \A i \in 1 .. L + 1 : wire'[i].point # 0 =>
             i \in 1 .. L /\ wire'[i].slot = buffer[wire'[i].point][2]
                         /\ pubGen <= buffer[wire'[i].point][1]
      BY <2>1, <2>3, <2>4 DEF PoolInv, IsFrame, L
    <3>4. \A i, j \in 1 .. L + 1 : wire'[i].point # 0 /\ wire'[j].point = 0
             => (i < j <=> buffer[wire'[i].point][1] < wire'[j].gen)
      <4> SUFFICES ASSUME NEW i \in 1 .. L + 1, NEW j \in 1 .. L + 1,
                          wire'[i].point # 0, wire'[j].point = 0
                   PROVE  i < j <=> buffer[wire'[i].point][1] < wire'[j].gen
        OBVIOUS
      <4>1. i \in 1 .. L
        BY <3>3
      <4>2. CASE j \in 1 .. L
        BY <2>3, <4>1, <4>2 DEF PoolInv, IsFrame, IsBind, L
      <4>3. CASE j = L + 1
        <5>1. wire[i].point \in 1 .. Sent
          <6>1. Sent \in Nat /\ wire[i].point \in Nat /\ wire[i].point # 0
            BY <2>3, <3>3, <4>1, BoundsAssumption DEF Sent, PoolTypeOK, Messages
          <6>2. wire[i].point <= Sent
            BY <4>1, <6>1 DEF WireInv, IsFrame, L
          <6> QED
            BY <6>1, <6>2
        <5>2. buffer[wire[i].point][1] <= gen /\ buffer[wire[i].point][1] \in Nat
          BY <5>1 DEF SlotInv, Buffers
        <5> QED
          BY <1>0, <2>1, <2>3, <2>5, <4>1, <4>3, <5>2
      <4> QED
        BY <2>4, <4>2, <4>3
    <3>5. \A g \in pubGen + 1 .. gen + 1 :
             \E i \in 1 .. L + 1 : wire'[i].point = 0 /\ wire'[i].gen = g
      <4> SUFFICES ASSUME NEW g \in pubGen + 1 .. gen + 1
                   PROVE  \E i \in 1 .. L + 1 : wire'[i].point = 0 /\ wire'[i].gen = g
        OBVIOUS
      <4>1. CASE g = gen + 1
        BY <2>1, <2>3, <4>1
      <4>2. CASE g # gen + 1
        <5>1. g \in pubGen + 1 .. gen
          BY <1>0, <4>2, BoundsAssumption DEF DaemonTypeOK
        <5>2. PICK i \in 1 .. L : wire[i].point = 0 /\ wire[i].gen = g
          BY <1>3, <5>1 DEF PoolInv, IsBind, L
        <5> QED
          BY <2>3, <2>5, <5>2
      <4> QED
        BY <4>1, <4>2
    <3>6. pubGen' <= gen'
      BY <1>0, BoundsAssumption DEF PoolInv, DaemonTypeOK
    <3> QED
      BY <1>0, <1>3, <2>3, <3>1, <3>2, <3>3, <3>4, <3>5, <3>6 DEF PoolInv, IsBind, IsFrame
  <2> QED
    BY <2>6, <2>7
<1>4. SlotInv'
  <2>1. \A p \in 1 .. Sent : buffer[p] \in Buffers /\ buffer[p][1] <= gen /\ buffer[p][1] < gen'
    BY <1>0 DEF SlotInv, Buffers
  <2>2. \A p \in 1 .. Sent, s \in Slots : buffer[p] # <<gen', s>>
    BY <1>0, <2>1
  <2>3. gen' > 0 /\ \A p \in 1 .. Sent : buffer[p][1] <= gen'
    BY <1>0, <2>1 DEF Buffers
  <2> QED
    BY <1>0, <2>1, <2>2, <2>3 DEF SlotInv
<1>5. AcqInv'
  <2>1. 0 \in Slots /\ 0 <= released
    BY BoundsAssumption DEF Slots, DaemonTypeOK
  <2> QED
    BY <1>0, <2>1 DEF AcqInv
<1>6. ContentInv'
  BY <1>0 DEF ContentInv
<1>7. FrameInPool'
  BY DEF FrameInPool
<1> QED
  BY <1>1, <1>2, <1>3, <1>4, <1>5, <1>6, <1>7 DEF CoreInv

\* A failed allocation leaves no slot
LEMMA NoMemoryStep == BridgeInv /\ NegotiateNoMemory => CoreInv'
<1> SUFFICES ASSUME BridgeInv, NegotiateNoMemory PROVE CoreInv'
  OBVIOUS
<1> USE DEF BridgeInv, daemonVars, memVars
<1>0. /\ pc = "idle" /\ pc' \in {"idle", "failed"} /\ Sent' = Sent
      /\ nSlots' = 0 /\ latest' = NoBuffer
      /\ UNCHANGED <<gen, point, up, wire, daemonVars, memVars>>
  BY DEF NegotiateNoMemory, NegotiationTurn, NegotiationRefused, ResetRelease, Sent
<1>1. OrderInv'
  BY <1>0 DEF OrderInv
<1>2. WireInv'
  BY <1>0 DEF WireInv, IsFrame
<1>3. PoolInv'
  BY <1>0 DEF PoolInv, IsBind, IsFrame
<1>4. SlotInv'
  BY <1>0 DEF SlotInv
<1>5. AcqInv' /\ ContentInv' /\ FrameInPool'
  BY <1>0 DEF AcqInv, ContentInv, FrameInPool
<1> QED
  BY <1>1, <1>2, <1>3, <1>4, <1>5 DEF CoreInv

\* A slot is handed out when its last frame has been released
LEMMA HandOutStep ==
    ASSUME BridgeInv, NEW s \in Slots, AcquireTurn, HandOut(s), nSlots > 0,
           lastPoint[s] <= released
    PROVE  CoreInv'
<1> USE DEF BridgeInv, daemonVars
<1>0. /\ pc = "acquire" /\ pc' = "draw" /\ Sent' = Sent /\ acq' = s /\ call' # "republish"
      /\ UNCHANGED <<gen, nSlots, lastPoint, point, up, wire, daemonVars, buffer>>
  BY DEF AcquireTurn, HandOut, Sent, AcqInv
<1>1. OrderInv'
  BY <1>0 DEF OrderInv
<1>2. WireInv'
  BY <1>0 DEF WireInv, IsFrame
<1>3. PoolInv'
  BY <1>0 DEF PoolInv, IsBind, IsFrame
<1>4. SlotInv'
  BY <1>0 DEF SlotInv
<1>5. AcqInv'
  BY <1>0 DEF AcqInv
<1>6. ContentInv'
  BY <1>0 DEF ContentInv, HandOut
<1>7. FrameInPool'
  BY <1>0 DEF FrameInPool
<1> QED
  BY <1>1, <1>2, <1>3, <1>4, <1>5, <1>6, <1>7 DEF CoreInv

\* A frame sent is behind the message of its pool, and carries the next point
LEMMA SendStep == BridgeInv /\ SendFrame /\ up => CoreInv'
<1> SUFFICES ASSUME BridgeInv, SendFrame, up PROVE CoreInv'
  OBVIOUS
<1> USE DEF BridgeInv, TypeOK
<1> DEFINE q == point + 1
           m == FrameMessage(acq, q)
           L == Len(wire)
<1>0. /\ pc = "send" /\ pc' = "commit" /\ point < MaxPoint /\ wire' = Append(wire, m)
      /\ buffer' = [buffer EXCEPT ![q] = <<gen, acq>>] /\ intact' = <<gen, acq>>
      /\ UNCHANGED <<gen, nSlots, lastPoint, point, latest, acq, call, up, daemonVars>>
  BY DEF SendFrame, poolVars
<1>1. /\ point \in Nat /\ Sent = point /\ Sent' = q /\ q \in Points /\ q \in Nat /\ q <= MaxPoint
      /\ published \in Nat /\ released \in Nat /\ gen \in Nat /\ pubGen \in Nat
  BY <1>0, BoundsAssumption DEF Sent, PoolTypeOK, DaemonTypeOK, Points
<1>2. acq \in Slots /\ acq \in 0 .. MaxSlots /\ nSlots > 0 /\ gen \in 1 .. MaxGen
  BY <1>0, BoundsAssumption DEF AcqInv, SlotInv, PoolTypeOK
<1>3. m \in Messages /\ m.point = q /\ m.slot = acq
  <2>1. m.point = q /\ m.slot = acq
    BY DEF FrameMessage
  <2>2. q \in 0 .. MaxPoint
    BY <1>1
  <2> QED
    BY <1>2, <2>1, <2>2, MessageFact
<1> HIDE DEF m
<1>4. /\ L \in Nat /\ Len(wire') = L + 1 /\ wire'[L + 1] = m
      /\ \A i \in 1 .. L : wire'[i] = wire[i] /\ wire[i] \in Messages
  BY <1>0, <1>3, AppendFact DEF DaemonTypeOK
<1>5. /\ \A i \in 1 .. L + 1 : i \in 1 .. L \/ i = L + 1
      /\ \A i \in 1 .. L : i \in 1 .. L + 1 /\ i < L + 1 /\ ~(L + 1 < i)
  BY <1>4
<1> HIDE DEF L
<1>6. \A i \in 1 .. L : wire[i].point # 0 =>
         published < wire[i].point /\ wire[i].point <= point /\ wire[i].point \in 1 .. point
  BY <1>1, <1>4 DEF WireInv, IsFrame, L, Messages
<1>7. \A p \in 1 .. point : p \in Points /\ p # q /\ buffer'[p] = buffer[p]
  <2>1. \A p \in 1 .. point : p \in Points /\ p # q
    BY <1>1, BoundsAssumption DEF Points
  <2>2. \A p \in Points : p # q => buffer'[p] = buffer[p]
    BY <1>0 DEF PoolTypeOK
  <2> QED
    BY <2>1, <2>2
<1>8. buffer'[q] = <<gen, acq>>
  BY <1>0, <1>1 DEF PoolTypeOK
<1>9. published < q /\ published <= point
  BY <1>1 DEF OrderInv
<1>10. OrderInv'
  BY <1>0, <1>1, <1>9 DEF OrderInv, daemonVars
<1>11. WireInv'
  <2>1. \A i \in 1 .. L + 1 : wire'[i].point # 0 =>
           published < wire'[i].point /\ wire'[i].point <= q
    BY <1>1, <1>3, <1>4, <1>5, <1>6, <1>9
  <2>2. \A i, j \in 1 .. L + 1 : i < j /\ wire'[i].point # 0 /\ wire'[j].point # 0
           => wire'[i].point < wire'[j].point
    <3> SUFFICES ASSUME NEW i \in 1 .. L + 1, NEW j \in 1 .. L + 1, i < j,
                        wire'[i].point # 0, wire'[j].point # 0
                 PROVE  wire'[i].point < wire'[j].point
      OBVIOUS
    <3>1. i \in 1 .. L
      BY <1>4, <1>5
    <3>2. CASE j \in 1 .. L
      BY <1>4, <3>1, <3>2 DEF WireInv, IsFrame, L
    <3>3. CASE j = L + 1
      BY <1>1, <1>3, <1>4, <1>6, <3>1, <3>3
    <3> QED
      BY <1>5, <3>2, <3>3
  <2>3. \A p \in published + 1 .. q : \E i \in 1 .. L + 1 : wire'[i].point = p
    <3> SUFFICES ASSUME NEW p \in published + 1 .. q
                 PROVE  \E i \in 1 .. L + 1 : wire'[i].point = p
      OBVIOUS
    <3>1. CASE p = q
      BY <1>3, <1>4, <3>1
    <3>2. CASE p # q
      <4>1. p \in published + 1 .. Sent
        BY <1>1, <3>2
      <4>2. PICK i \in 1 .. L : wire[i].point = p
        BY <4>1 DEF WireInv, L
      <4> QED
        BY <1>4, <1>5, <4>2
    <3> QED
      BY <3>1, <3>2
  <2> QED
    BY <1>0, <1>1, <1>4, <2>1, <2>2, <2>3 DEF WireInv, IsFrame, daemonVars
<1>12. PoolInv'
  <2>1. \A i \in 1 .. L + 1 : wire'[i].point = 0 =>
           i \in 1 .. L /\ pubGen < wire'[i].gen /\ wire'[i].gen <= gen
    BY <1>1, <1>3, <1>4, <1>5 DEF PoolInv, IsBind, L
  <2>2. \A i, j \in 1 .. L + 1 : i < j /\ wire'[i].point = 0 /\ wire'[j].point = 0
           => wire'[i].gen < wire'[j].gen
    BY <1>4, <2>1 DEF PoolInv, IsBind, L
  <2>3. \A i \in 1 .. L + 1 : wire'[i].point # 0 =>
           wire'[i].slot = buffer'[wire'[i].point][2] /\ pubGen <= buffer'[wire'[i].point][1]
    <3> SUFFICES ASSUME NEW i \in 1 .. L + 1, wire'[i].point # 0
                 PROVE  /\ wire'[i].slot = buffer'[wire'[i].point][2]
                        /\ pubGen <= buffer'[wire'[i].point][1]
      OBVIOUS
    <3>1. CASE i \in 1 .. L
      BY <1>4, <1>6, <1>7, <3>1 DEF PoolInv, IsFrame, L
    <3>2. CASE i = L + 1
      BY <1>3, <1>4, <1>8, <3>2 DEF PoolInv
    <3> QED
      BY <1>5, <3>1, <3>2
  <2>4. \A i, j \in 1 .. L + 1 : wire'[i].point # 0 /\ wire'[j].point = 0
           => (i < j <=> buffer'[wire'[i].point][1] < wire'[j].gen)
    <3> SUFFICES ASSUME NEW i \in 1 .. L + 1, NEW j \in 1 .. L + 1,
                        wire'[i].point # 0, wire'[j].point = 0
                 PROVE  i < j <=> buffer'[wire'[i].point][1] < wire'[j].gen
      OBVIOUS
    <3>1. j \in 1 .. L /\ wire'[j].gen <= gen /\ wire'[j].gen \in Nat
      BY <1>4, <2>1, BoundsAssumption DEF Messages
    <3>2. CASE i \in 1 .. L
      BY <1>4, <1>6, <1>7, <3>1, <3>2 DEF PoolInv, IsFrame, IsBind, L
    <3>3. CASE i = L + 1
      BY <1>1, <1>3, <1>4, <1>5, <1>8, <3>1, <3>3
    <3> QED
      BY <1>5, <3>2, <3>3
  <2>5. \A g \in pubGen + 1 .. gen :
           \E i \in 1 .. L + 1 : wire'[i].point = 0 /\ wire'[i].gen = g
    BY <1>4, <1>5 DEF PoolInv, IsBind, L
  <2> QED
    BY <1>0, <1>4, <2>1, <2>2, <2>3, <2>4, <2>5 DEF PoolInv, IsBind, IsFrame, daemonVars
<1>13. SlotInv'
  <2>1. <<gen, acq>> \in Buffers
    BY <1>2 DEF Buffers
  <2>2. \A p \in 1 .. q : p \in 1 .. point \/ p = q
    BY <1>1
  <2>3. \A p \in 1 .. q : buffer'[p] \in Buffers /\ buffer'[p][1] <= gen
    BY <1>1, <1>7, <1>8, <2>1, <2>2 DEF SlotInv
  <2>4. \A p \in 1 .. q : \A s \in Slots :
           buffer'[p] = <<gen, s>> => p <= lastPoint[s] \/ s = acq
    <3>1. \A p \in 1 .. point : \A s \in Slots : buffer[p] = <<gen, s>> => p <= lastPoint[s]
      BY <1>0, <1>1, <1>2 DEF SlotInv
    <3>2. \A s \in Slots : buffer'[q] = <<gen, s>> => s = acq
      BY <1>8
    <3> QED
      BY <1>7, <2>2, <3>1, <3>2
  <2> QED
    BY <1>0, <1>1, <1>2, <2>3, <2>4 DEF SlotInv
<1>14. AcqInv' /\ ContentInv'
  BY <1>0, <1>2 DEF AcqInv, ContentInv
<1>15. FrameInPool'
  BY <1>0, <1>1, <1>7, <1>9 DEF FrameInPool, daemonVars
<1> QED
  BY <1>10, <1>11, <1>12, <1>13, <1>14, <1>15 DEF CoreInv

\* The point counted up is the one sent, and the slot remembers it
LEMMA CommitStep == BridgeInv /\ Commit => CoreInv'
<1> SUFFICES ASSUME BridgeInv, Commit PROVE CoreInv'
  OBVIOUS
<1> USE DEF BridgeInv, TypeOK, daemonVars, memVars
<1>0. /\ pc = "commit" /\ pc' = "idle" /\ point' = point + 1 /\ latest' = <<gen, acq>>
      /\ lastPoint' = [lastPoint EXCEPT ![acq] = point + 1] /\ Sent' = Sent /\ Sent = point + 1
      /\ UNCHANGED <<gen, nSlots, up, wire, daemonVars, memVars>>
  BY DEF Commit, Sent
<1>1. OrderInv'
  BY <1>0 DEF OrderInv
<1>2. WireInv'
  BY <1>0 DEF WireInv, IsFrame
<1>3. PoolInv'
  BY <1>0 DEF PoolInv, IsBind, IsFrame
<1>4. SlotInv'
  <2>1. acq \in Slots /\ lastPoint'[acq] = point + 1
        /\ \A s \in Slots : s # acq => lastPoint'[s] = lastPoint[s]
    BY <1>0 DEF AcqInv, PoolTypeOK
  <2>2. ASSUME nSlots > 0, NEW p \in 1 .. Sent, NEW s \in Slots, buffer[p] = <<gen, s>>
        PROVE  p <= lastPoint'[s]
    BY <1>0, <2>1, <2>2 DEF SlotInv
  <2> QED
    BY <1>0, <2>2 DEF SlotInv
<1>5. AcqInv' /\ ContentInv'
  BY <1>0 DEF AcqInv, ContentInv
<1>6. FrameInPool'
  BY <1>0 DEF FrameInPool
<1> QED
  BY <1>1, <1>2, <1>3, <1>4, <1>5, <1>6 DEF CoreInv

\* The slot published again is the latest
LEMMA RepublishStep == BridgeInv /\ RepublishAcquire => CoreInv'
<1> SUFFICES ASSUME BridgeInv, RepublishAcquire PROVE CoreInv'
  OBVIOUS
<1> USE DEF BridgeInv, TypeOK, daemonVars, memVars
<1>0. /\ pc = "republish" /\ pc' = "send" /\ acq' = latest[2] /\ Sent' = Sent
      /\ latest # NoBuffer /\ latest[1] = gen /\ latest[2] < nSlots
      /\ lastPoint[latest[2]] <= released
      /\ UNCHANGED <<gen, nSlots, lastPoint, point, latest, call, up, wire, daemonVars, memVars>>
  BY DEF RepublishAcquire, RepublishTurn, HasContent, Signaled, Sent, poolVars
<1>1. latest \in Buffers /\ latest = <<gen, acq'>> /\ acq' \in Slots /\ nSlots > 0
  BY <1>0, BoundsAssumption DEF PoolTypeOK, Buffers, Slots
<1>2. OrderInv'
  BY <1>0 DEF OrderInv
<1>3. WireInv'
  BY <1>0 DEF WireInv, IsFrame
<1>4. PoolInv'
  BY <1>0 DEF PoolInv, IsBind, IsFrame
<1>5. SlotInv'
  BY <1>0 DEF SlotInv
<1>6. AcqInv' /\ ContentInv'
  BY <1>0, <1>1 DEF AcqInv, ContentInv
<1>7. FrameInPool'
  BY <1>0 DEF FrameInPool
<1> QED
  BY <1>2, <1>3, <1>4, <1>5, <1>6, <1>7 DEF CoreInv

-----------------------------------------------------------------------------
(* The socket and the daemon. *)

\* Everything on the wire is lost with the connection
LEMMA DisconnectStep == BridgeInv /\ Disconnect => CoreInv'
<1> SUFFICES ASSUME BridgeInv, Disconnect PROVE CoreInv'
  OBVIOUS
<1> USE DEF BridgeInv, daemonVars, memVars
<1>0. /\ ~up' /\ Len(wire') = 0 /\ Sent' = Sent
      /\ UNCHANGED <<gen, nSlots, lastPoint, point, latest, acq, call, pc, daemonVars, memVars>>
  BY DEF Disconnect, Sent, poolVars
<1>1. OrderInv'
  BY <1>0 DEF OrderInv
<1>2. WireInv' /\ PoolInv'
  BY <1>0 DEF WireInv, PoolInv
<1>3. SlotInv' /\ AcqInv' /\ ContentInv' /\ FrameInPool'
  BY <1>0 DEF SlotInv, AcqInv, ContentInv, FrameInPool
<1> QED
  BY <1>1, <1>2, <1>3 DEF CoreInv

\* What becomes of the wire when its head is taken
LEMMA DeliverWire ==
    ASSUME BridgeInv, Deliver
    PROVE  /\ Len(wire) \in Nat /\ Len(wire) > 0 /\ Len(wire') = Len(wire) - 1
           /\ Head(wire) = wire[1] /\ up
           /\ \A i \in 1 .. Len(wire) : wire[i] \in Messages
           /\ \A i \in 1 .. Len(wire') : i + 1 \in 2 .. Len(wire) /\ wire'[i] = wire[i + 1]
           /\ \A i \in 2 .. Len(wire) : i - 1 \in 1 .. Len(wire') /\ wire'[i - 1] = wire[i]
           /\ \A i, j \in 1 .. Len(wire') : i < j <=> i + 1 < j + 1
           /\ \A i \in 1 .. Len(wire) : wire[i].gen \in Nat /\ wire[i].point \in Nat
<1> USE DEF BridgeInv, TypeOK, DaemonTypeOK
<1>1. /\ Len(wire) \in Nat /\ Len(wire) > 0 /\ Len(wire') = Len(wire) - 1
      /\ Head(wire) = wire[1]
      /\ \A i \in 1 .. Len(wire) : wire[i] \in Messages
      /\ \A i \in 1 .. Len(wire') : wire'[i] = wire[i + 1]
  BY TailFact DEF Deliver
<1>2. \A i \in 1 .. Len(wire') : i + 1 \in 2 .. Len(wire)
  BY <1>1
<1>3. \A i \in 2 .. Len(wire) : i - 1 \in 1 .. Len(wire') /\ (i - 1) + 1 = i
  BY <1>1
<1>4. up
  BY <1>1 DEF WireInv
<1>5. \A i, j \in 1 .. Len(wire') : i < j <=> i + 1 < j + 1
  OBVIOUS
<1>6. \A i \in 1 .. Len(wire) : wire[i].gen \in Nat /\ wire[i].point \in Nat
  <2>1. \A m \in Messages : m.gen \in Nat /\ m.point \in Nat
    BY BoundsAssumption DEF Messages
  <2> QED
    BY <1>1, <2>1
<1> QED
  BY <1>1, <1>2, <1>3, <1>4, <1>5, <1>6

\* A pool is published: it is the next one, and all frames behind it are later
LEMMA DeliverPool ==
    ASSUME BridgeInv, Deliver, Head(wire).point = 0
    PROVE  CoreInv'
<1> USE DEF BridgeInv, TypeOK
<1> DEFINE L == Len(wire)
           L2 == Len(wire')
<1>0. /\ pubGen' = wire[1].gen /\ latestFrame' = NoBuffer /\ Sent' = Sent
      /\ UNCHANGED <<gen, nSlots, lastPoint, point, latest, acq, call, pc, up, published, using,
                     released, memVars>>
  BY DeliverWire DEF Deliver, Sent, poolVars
<1>1. /\ L \in Nat /\ L2 = L - 1 /\ L > 0 /\ up /\ wire[1].point = 0 /\ 1 \in 1 .. L
      /\ \A i \in 2 .. L : i \in 1 .. L /\ 1 < i /\ i - 1 \in 1 .. L2 /\ wire'[i - 1] = wire[i]
      /\ \A i \in 1 .. L2 : i + 1 \in 2 .. L /\ i + 1 \in 1 .. L /\ 1 < i + 1 /\ wire'[i] = wire[i + 1]
      /\ \A i, j \in 1 .. L2 : i < j <=> i + 1 < j + 1
      /\ \A i \in 1 .. L : wire[i].gen \in Nat /\ wire[i].point \in Nat
  <2>1. /\ L \in Nat /\ L2 = L - 1 /\ L > 0 /\ up
        /\ \A i \in 2 .. L : i - 1 \in 1 .. L2 /\ wire'[i - 1] = wire[i]
        /\ \A i \in 1 .. L2 : i + 1 \in 2 .. L /\ wire'[i] = wire[i + 1]
        /\ \A i, j \in 1 .. L2 : i < j <=> i + 1 < j + 1
    BY DeliverWire
  <2>2. \A i \in 1 .. L : wire[i].gen \in Nat /\ wire[i].point \in Nat
    BY DeliverWire
  <2>3. wire[1].point = 0
    BY DeliverWire
  <2> HIDE DEF L, L2
  <2> QED
    BY <2>1, <2>2, <2>3
<1>2. L2 = Len(wire') /\ L = Len(wire)
  OBVIOUS
<1> HIDE DEF L, L2
<1>3. OrderInv'
  BY <1>0 DEF OrderInv
<1>4. WireInv'
  <2>0. /\ \A i \in 1 .. L : wire[i].point # 0 =>
             published < wire[i].point /\ wire[i].point <= Sent
        /\ \A i, j \in 1 .. L : i < j /\ wire[i].point # 0 /\ wire[j].point # 0
             => wire[i].point < wire[j].point
    BY <1>2 DEF WireInv, IsFrame
  <2>1. /\ \A i \in 1 .. L2 : wire'[i].point # 0 =>
             published < wire'[i].point /\ wire'[i].point <= Sent
        /\ \A i, j \in 1 .. L2 : i < j /\ wire'[i].point # 0 /\ wire'[j].point # 0
             => wire'[i].point < wire'[j].point
    <3>1. \A i \in 1 .. L2 : i + 1 \in 1 .. L /\ wire'[i] = wire[i + 1]
      BY <1>1
    <3>2. \A i, j \in 1 .. L2 : i < j => i + 1 < j + 1
      BY <1>1
    <3> QED
      BY <2>0, <3>1, <3>2
  <2>2. ASSUME NEW p \in published + 1 .. Sent
        PROVE  \E i \in 1 .. L2 : wire'[i].point = p
    <3>1. PICK i \in 1 .. L : wire[i].point = p
      BY <1>1, <1>2 DEF WireInv
    <3>2. p # 0
      BY BoundsAssumption DEF DaemonTypeOK
    <3>3. i \in 2 .. L
      BY <1>1, <3>1, <3>2
    <3> QED
      BY <1>1, <3>1, <3>3
  <2> QED
    BY <1>0, <1>1, <1>2, <2>1, <2>2 DEF WireInv, IsFrame
<1>5. PoolInv'
  <2>0. /\ \A i \in 1 .. L : wire[i].point = 0 => pubGen < wire[i].gen /\ wire[i].gen <= gen
        /\ \A i, j \in 1 .. L : i < j /\ wire[i].point = 0 /\ wire[j].point = 0
             => wire[i].gen < wire[j].gen
        /\ \A i \in 1 .. L : wire[i].point # 0 =>
             /\ wire[i].slot = buffer[wire[i].point][2]
             /\ pubGen <= buffer[wire[i].point][1]
        /\ \A i, j \in 1 .. L : wire[i].point # 0 /\ wire[j].point = 0
             => (i < j <=> buffer[wire[i].point][1] < wire[j].gen)
    BY <1>2 DEF PoolInv, IsBind, IsFrame
  <2>1. \A i \in 1 .. L2 : wire'[i].point = 0 =>
           wire[1].gen < wire'[i].gen /\ wire'[i].gen <= gen
    BY <1>1, <2>0
  <2>2. \A i, j \in 1 .. L2 : i < j /\ wire'[i].point = 0 /\ wire'[j].point = 0
           => wire'[i].gen < wire'[j].gen
    BY <1>1, <2>0
  <2>3. ASSUME NEW i \in 1 .. L2, wire'[i].point # 0
        PROVE  /\ wire'[i].slot = buffer[wire'[i].point][2]
               /\ wire[1].gen <= buffer[wire'[i].point][1]
    <3>1. wire[i + 1].slot = buffer[wire[i + 1].point][2]
          /\ ~(buffer[wire[i + 1].point][1] < wire[1].gen)
      BY <1>1, <2>0, <2>3
    <3>2. wire[1].gen \in Nat /\ wire[i + 1].point \in Nat
      BY <1>1
    <3>3. wire[i + 1].point \in 1 .. Sent
      BY <1>1, <1>2, <2>3, <3>2, BoundsAssumption DEF WireInv, IsFrame, Sent, PoolTypeOK
    <3>4. buffer[wire[i + 1].point][1] \in Nat
      BY <3>3, BoundsAssumption DEF SlotInv, Buffers
    <3> QED
      BY <1>1, <3>1, <3>2, <3>4
  <2>4. \A i, j \in 1 .. L2 : wire'[i].point # 0 /\ wire'[j].point = 0
           => (i < j <=> buffer[wire'[i].point][1] < wire'[j].gen)
    BY <1>1, <2>0
  <2>5. ASSUME NEW g \in wire[1].gen + 1 .. gen
        PROVE  \E i \in 1 .. L2 : wire'[i].point = 0 /\ wire'[i].gen = g
    <3>1. pubGen < wire[1].gen /\ wire[1].gen \in Nat /\ pubGen \in Nat
      BY <1>1, <1>2, BoundsAssumption DEF PoolInv, IsBind, DaemonTypeOK
    <3>2. g \in pubGen + 1 .. gen /\ g # wire[1].gen
      BY <3>1, BoundsAssumption DEF PoolTypeOK
    <3>3. PICK i \in 1 .. L : wire[i].point = 0 /\ wire[i].gen = g
      BY <1>1, <1>2, <3>2 DEF PoolInv, IsBind
    <3>4. i \in 2 .. L
      BY <1>1, <3>2, <3>3
    <3> QED
      BY <1>1, <3>3, <3>4
  <2>6. wire[1].gen <= gen
    BY <1>1, <1>2 DEF PoolInv, IsBind
  <2>7. /\ \A i \in 1 .. Len(wire') : IsBind(i)' <=> wire'[i].point = 0
        /\ \A i \in 1 .. Len(wire') : IsFrame(i)' <=> wire'[i].point # 0
        /\ buffer' = buffer /\ gen' = gen
    BY <1>0 DEF IsBind, IsFrame, memVars
  <2>8. \A g \in pubGen' + 1 .. gen' : \E i \in 1 .. L2 : wire'[i].point = 0 /\ wire'[i].gen = g
    BY <1>0, <2>5
  <2>9. /\ \A i \in 1 .. L2 : wire'[i].point = 0 => pubGen' < wire'[i].gen /\ wire'[i].gen <= gen
        /\ \A i \in 1 .. L2 : wire'[i].point # 0 =>
              /\ wire'[i].slot = buffer[wire'[i].point][2]
              /\ pubGen' <= buffer[wire'[i].point][1]
        /\ pubGen' <= gen
    BY <1>0, <2>1, <2>3, <2>6
  <2> QED
    BY <1>2, <2>2, <2>4, <2>7, <2>8, <2>9 DEF PoolInv, IsBind, IsFrame
<1>6. SlotInv' /\ AcqInv' /\ ContentInv'
  BY <1>0 DEF SlotInv, AcqInv, ContentInv, memVars
<1>7. FrameInPool'
  BY <1>0 DEF FrameInPool
<1> QED
  BY <1>3, <1>4, <1>5, <1>6, <1>7 DEF CoreInv

\* A frame is taken over: its point is the one after the last
LEMMA NextPoint ==
    ASSUME BridgeInv, wire # <<>>, Head(wire).point # 0
    PROVE  Head(wire).point = published + 1
<1> USE DEF BridgeInv, TypeOK
<1>1. /\ Len(wire) \in Nat /\ Len(wire) > 0 /\ Head(wire) = wire[1] /\ 1 \in 1 .. Len(wire)
      /\ \A i \in 1 .. Len(wire) : wire[i] \in Messages
  BY DEF DaemonTypeOK
<1>2. wire[1].point \in 1 .. Sent /\ published < wire[1].point /\ published \in Nat
  BY <1>1, HeadFact, BoundsAssumption DEF DaemonTypeOK
<1>3. Sent \in Nat
  BY BoundsAssumption DEF Sent, PoolTypeOK
<1>4. published + 1 \in published + 1 .. Sent
  BY <1>2, <1>3
<1>5. up
  BY <1>1 DEF WireInv
<1>6. PICK i \in 1 .. Len(wire) : wire[i].point = published + 1
  BY <1>4, <1>5 DEF WireInv
<1>7. CASE i = 1
  BY <1>1, <1>6, <1>7
<1>8. CASE i # 1
  <2>1. 1 < i /\ wire[i].point # 0 /\ wire[1].point # 0
    BY <1>1, <1>2, <1>6, <1>8
  <2>2. wire[1].point < wire[i].point
    BY <1>1, <2>1 DEF WireInv, IsFrame
  <2> QED
    BY <1>2, <1>6, <2>2
<1> QED
  BY <1>7, <1>8

LEMMA DeliverFrame ==
    ASSUME BridgeInv, Deliver, Head(wire).point # 0
    PROVE  CoreInv'
<1> USE DEF BridgeInv, TypeOK
<1> DEFINE L == Len(wire)
           L2 == Len(wire')
<1>0. /\ pubGen' = pubGen /\ latestFrame' = <<pubGen, wire[1].slot>> /\ Sent' = Sent
      /\ published' = wire[1].point /\ using' \subseteq using \cup ({wire[1].point} \X Users)
      /\ UNCHANGED <<gen, nSlots, lastPoint, point, latest, acq, call, pc, up, released, memVars>>
  BY DeliverWire DEF Deliver, Sent, poolVars
<1>1. /\ L \in Nat /\ L2 = L - 1 /\ L > 0 /\ up /\ wire[1].point # 0 /\ 1 \in 1 .. L
      /\ \A i \in 2 .. L : i \in 1 .. L /\ 1 < i /\ i - 1 \in 1 .. L2 /\ wire'[i - 1] = wire[i]
      /\ \A i \in 1 .. L2 : i + 1 \in 2 .. L /\ i + 1 \in 1 .. L /\ 1 < i + 1 /\ wire'[i] = wire[i + 1]
      /\ \A i, j \in 1 .. L2 : i < j <=> i + 1 < j + 1
      /\ \A i \in 1 .. L : wire[i].gen \in Nat /\ wire[i].point \in Nat
  <2>1. /\ L \in Nat /\ L2 = L - 1 /\ L > 0 /\ up
        /\ \A i \in 2 .. L : i - 1 \in 1 .. L2 /\ wire'[i - 1] = wire[i]
        /\ \A i \in 1 .. L2 : i + 1 \in 2 .. L /\ wire'[i] = wire[i + 1]
        /\ \A i, j \in 1 .. L2 : i < j <=> i + 1 < j + 1
    BY DeliverWire
  <2>2. \A i \in 1 .. L : wire[i].gen \in Nat /\ wire[i].point \in Nat
    BY DeliverWire
  <2>3. wire[1].point # 0
    BY DeliverWire
  <2> HIDE DEF L, L2
  <2> QED
    BY <2>1, <2>2, <2>3
<1>2. L2 = Len(wire') /\ L = Len(wire) /\ Head(wire) = wire[1] /\ wire # <<>>
  BY DeliverWire DEF Deliver
<1> HIDE DEF L, L2
<1>3. wire[1].point \in 1 .. Sent /\ wire[1].point = published + 1
      /\ <<pubGen, wire[1].slot>> = buffer[wire[1].point]
  BY <1>1, <1>2, HeadFact, NextPoint
<1>4. published \in Nat /\ released \in Nat /\ Sent \in Nat
  BY BoundsAssumption DEF DaemonTypeOK, PoolTypeOK, Sent
<1>5. OrderInv'
  <2>1. released <= published /\ \A c \in using : released < c[1] /\ c[1] <= published
    BY DEF OrderInv
  <2>2. using \subseteq Points \X Users
    BY DEF DaemonTypeOK
  <2>3. ASSUME NEW c \in using'
        PROVE  released < c[1] /\ c[1] <= published + 1
    <3>1. CASE c \in using
      BY <1>4, <2>1, <2>2, <3>1, BoundsAssumption DEF Points
    <3>2. CASE c \in {wire[1].point} \X Users
      BY <1>3, <1>4, <2>1, <3>2
    <3> QED
      BY <1>0, <3>1, <3>2
  <2> QED
    BY <1>0, <1>3, <1>4, <2>1, <2>3 DEF OrderInv
<1>6. WireInv'
  <2>1. \A i \in 1 .. L2 : wire'[i].point # 0 =>
           wire[1].point < wire'[i].point /\ wire'[i].point <= Sent
    BY <1>1, <1>2 DEF WireInv, IsFrame
  <2>2. \A i, j \in 1 .. L2 : i < j /\ wire'[i].point # 0 /\ wire'[j].point # 0
           => wire'[i].point < wire'[j].point
    BY <1>1, <1>2 DEF WireInv, IsFrame
  <2>3. ASSUME NEW p \in wire[1].point + 1 .. Sent
        PROVE  \E i \in 1 .. L2 : wire'[i].point = p
    <3>1. p \in published + 1 .. Sent /\ p # wire[1].point
      BY <1>3, <1>4
    <3>2. PICK i \in 1 .. L : wire[i].point = p
      BY <1>1, <1>2, <3>1 DEF WireInv
    <3>3. i \in 2 .. L
      BY <1>1, <3>1, <3>2
    <3> QED
      BY <1>1, <3>2, <3>3
  <2> QED
    BY <1>0, <1>1, <1>2, <2>1, <2>2, <2>3 DEF WireInv, IsFrame
<1>7. PoolInv'
  <2>0. /\ \A i \in 1 .. L : wire[i].point = 0 => pubGen < wire[i].gen /\ wire[i].gen <= gen
        /\ \A i, j \in 1 .. L : i < j /\ wire[i].point = 0 /\ wire[j].point = 0
             => wire[i].gen < wire[j].gen
        /\ \A i \in 1 .. L : wire[i].point # 0 =>
             /\ wire[i].slot = buffer[wire[i].point][2]
             /\ pubGen <= buffer[wire[i].point][1]
        /\ \A i, j \in 1 .. L : wire[i].point # 0 /\ wire[j].point = 0
             => (i < j <=> buffer[wire[i].point][1] < wire[j].gen)
    BY <1>2 DEF PoolInv, IsBind, IsFrame
  <2>1. /\ \A i \in 1 .. L2 : wire'[i].point = 0 => pubGen < wire'[i].gen /\ wire'[i].gen <= gen
        /\ \A i \in 1 .. L2 : wire'[i].point # 0 =>
              /\ wire'[i].slot = buffer[wire'[i].point][2]
              /\ pubGen <= buffer[wire'[i].point][1]
    BY <1>1, <2>0
  <2>2. \A i, j \in 1 .. L2 : i < j /\ wire'[i].point = 0 /\ wire'[j].point = 0
           => wire'[i].gen < wire'[j].gen
    BY <1>1, <2>0
  <2>3. \A i, j \in 1 .. L2 : wire'[i].point # 0 /\ wire'[j].point = 0
           => (i < j <=> buffer[wire'[i].point][1] < wire'[j].gen)
    BY <1>1, <2>0
  <2>4. ASSUME NEW g \in pubGen + 1 .. gen
        PROVE  \E i \in 1 .. L2 : wire'[i].point = 0 /\ wire'[i].gen = g
    <3>1. PICK i \in 1 .. L : wire[i].point = 0 /\ wire[i].gen = g
      BY <1>1, <1>2 DEF PoolInv, IsBind
    <3>2. i \in 2 .. L
      BY <1>1, <3>1
    <3> QED
      BY <1>1, <3>1, <3>2
  <2>5. pubGen <= gen
    BY DEF PoolInv
  <2> QED
    BY <1>0, <1>1, <1>2, <2>1, <2>2, <2>3, <2>4, <2>5 DEF PoolInv, IsBind, IsFrame, memVars
<1>8. SlotInv' /\ AcqInv' /\ ContentInv'
  BY <1>0 DEF SlotInv, AcqInv, ContentInv, memVars
<1>9. FrameInPool'
  BY <1>0, <1>3, <1>4 DEF FrameInPool, memVars
<1> QED
  BY <1>5, <1>6, <1>7, <1>8, <1>9 DEF CoreInv

\* Releases follow the order in which frames were published, and wait for the displays
LEMMA ReleaseStep == BridgeInv /\ Release => CoreInv'
<1> SUFFICES ASSUME BridgeInv, Release PROVE CoreInv'
  OBVIOUS
<1> USE DEF BridgeInv, TypeOK
<1>0. /\ released \in Nat /\ published \in Nat /\ Sent' = Sent
      /\ UNCHANGED <<gen, nSlots, lastPoint, point, latest, acq, call, pc, up, wire, pubGen,
                     latestFrame, published, memVars>>
      /\ using' \subseteq using
  BY BoundsAssumption DEF Release, Daemon!Release, Sent, poolVars, DaemonTypeOK
<1>1. released <= released' /\ released' \in Nat /\ released' <= published
  BY <1>0 DEF Release, Daemon!Release, OrderInv
<1>2. \A c \in using' : released' < c[1]
  BY <1>0 DEF Release, Daemon!Release, OrderInv, DaemonTypeOK, Points
<1>3. OrderInv'
  BY <1>0, <1>1, <1>2 DEF OrderInv
<1>4. WireInv' /\ PoolInv'
  BY <1>0 DEF WireInv, PoolInv, IsFrame, IsBind, memVars
<1>5. SlotInv' /\ ContentInv' /\ FrameInPool'
  BY <1>0 DEF SlotInv, ContentInv, FrameInPool, memVars
<1>6. AcqInv'
  <2>1. acq \in Slots => lastPoint[acq] \in Nat
    BY BoundsAssumption DEF PoolTypeOK
  <2> QED
    BY <1>0, <1>1, <2>1 DEF AcqInv
<1> QED
  BY <1>3, <1>4, <1>5, <1>6 DEF CoreInv

-----------------------------------------------------------------------------
(* The invariant and what follows from it. *)

LEMMA PluginStep == BridgeInv /\ Plugin => CoreInv'
<1> SUFFICES ASSUME BridgeInv, Plugin PROVE CoreInv'
  OBVIOUS
<1> USE DEF poolVars, memVars
<1>1. CASE NegotiateInvalid
  BY <1>1, QuietStep DEF NegotiateInvalid, NegotiationTurn, NegotiationRefused
<1>2. CASE NegotiateNoMemory
  BY <1>2, NoMemoryStep
<1>3. CASE Negotiate
  <2>1. PICK n \in 1 .. MaxSlots : BindBuffers(n)
    BY <1>3 DEF Negotiate
  <2>2. /\ pc = "idle" /\ UNCHANGED <<point, up, daemonVars, memVars>>
        /\ pc' \in {"idle", "failed"} \/ (pc' = "acquire" /\ call' = "upload")
    BY <1>3 DEF Negotiate, NegotiationTurn, NegotiationRefused
  <2> QED
    BY <2>1, <2>2, BindStep
<1>4. ASSUME NEW refresh \in BOOLEAN, TargetRefused(refresh) PROVE CoreInv'
  BY <1>4, QuietStep DEF TargetRefused, TargetTurn
<1>5. ASSUME NEW refresh \in BOOLEAN, TargetCommitted(refresh) PROVE CoreInv'
  <2>1. PICK n \in 1 .. MaxSlots : BindBuffers(n)
    BY <1>5 DEF TargetCommitted
  <2>2. /\ pc = "idle" /\ UNCHANGED <<point, up, daemonVars, memVars>>
        /\ pc' \in {"idle", "stopped"} \/ (pc' = "send" /\ acq' = 0 /\ call' = "target")
    BY <1>5 DEF TargetCommitted, TargetTurn
  <2> QED
    BY <2>1, <2>2, BindStep
<1>6. CASE Play
  BY <1>6, QuietStep DEF Play, FrameTurn
<1>7. CASE AcquireRefused \/ AcquireBusy
  BY <1>7, QuietStep DEF AcquireRefused, AcquireBusy, AcquireTurn, BridgeInv, AcqInv
<1>8. CASE AcquireUnused
  <2>1. PICK k \in Slots : SlotAt(k) \in Unused /\ HandOut(SlotAt(k))
    BY <1>8 DEF AcquireUnused
  <2>2. SlotAt(k) \in Slots /\ lastPoint[SlotAt(k)] = 0
    BY <2>1 DEF Unused
  <2>3. 0 <= released
    BY BoundsAssumption DEF BridgeInv, TypeOK, DaemonTypeOK
  <2> QED
    BY <1>8, <2>1, <2>2, <2>3, HandOutStep DEF AcquireUnused
<1>9. CASE AcquireReleased
  <2>1. nSlots > 0 /\ nSlots \in Nat /\ nextSlot + scan \in Nat /\ nSlots <= MaxSlots
    BY <1>9, BoundsAssumption DEF AcquireReleased, BridgeInv, TypeOK, PoolTypeOK, LoopTypeOK, Slots
  <2>2. SlotAt(scan) \in 0 .. nSlots - 1
    BY <2>1, WrapFact DEF SlotAt
  <2>3. SlotAt(scan) \in Slots
    BY <2>1, <2>2, BoundsAssumption DEF Slots
  <2> QED
    BY <1>9, <2>1, <2>3, HandOutStep DEF AcquireReleased, Signaled
<1>10. CASE Drawn
  BY <1>10 DEF Drawn, DrawTurn, BridgeInv, CoreInv, OrderInv, WireInv, PoolInv, SlotInv, AcqInv,
               ContentInv, FrameInPool, Sent, IsBind, IsFrame, daemonVars
<1>11. CASE DrawAborted
  BY <1>11, QuietStep DEF DrawAborted, DrawTurn
<1>12. CASE SendFrame /\ up
  BY <1>12, SendStep
<1>13. CASE SendFrame /\ ~up
  BY <1>13, QuietStep DEF SendFrame
<1>14. CASE Commit
  BY <1>14, CommitStep
<1>15. CASE Republish \/ RepublishRefused \/ RepublishCancelled
  BY <1>15, QuietStep DEF Republish, FrameTurn, RepublishRefused, RepublishCancelled, RepublishTurn
<1>16. CASE RepublishAcquire
  BY <1>16, RepublishStep
<1>17. CASE Hangup
  BY <1>17, QuietStep DEF Hangup
<1> QED
  BY <1>1, <1>2, <1>3, <1>4, <1>5, <1>6, <1>7, <1>8, <1>9, <1>10, <1>11, <1>12, <1>13, <1>14,
     <1>15, <1>16, <1>17 DEF Plugin

\* Steps that leave the variables of the invariant alone
LEMMA SameStep ==
    ASSUME BridgeInv,
           UNCHANGED <<gen, nSlots, lastPoint, point, latest, acq, pc, call, up, wire, pubGen,
                       latestFrame, published, using, released, memVars>>
    PROVE  CoreInv'
<1> USE DEF BridgeInv, memVars
<1>0. Sent' = Sent
  BY DEF Sent
<1>1. OrderInv' /\ WireInv' /\ PoolInv'
  BY <1>0 DEF OrderInv, WireInv, PoolInv, IsBind, IsFrame
<1>2. SlotInv' /\ AcqInv' /\ ContentInv' /\ FrameInPool'
  BY <1>0 DEF SlotInv, AcqInv, ContentInv, FrameInPool
<1> QED
  BY <1>1, <1>2 DEF CoreInv

LEMMA EnvironmentStep == BridgeInv /\ Environment => CoreInv'
<1> SUFFICES ASSUME BridgeInv, Environment PROVE CoreInv'
  OBVIOUS
<1>1. CASE Control \/ Replay
  BY <1>1, SameStep DEF Control, Replay, poolVars, daemonVars
<1>2. CASE Disconnect
  BY <1>2, DisconnectStep
<1>3. CASE Deliver
  BY <1>3, DeliverPool, DeliverFrame
<1>4. CASE Release
  BY <1>4, ReleaseStep
<1> QED
  BY <1>1, <1>2, <1>3, <1>4 DEF Environment

\* What a display may have been shown stays delivered
LEMMA ReplayStep ==
    ASSUME BridgeInv, Next
    PROVE  ReplayInv'
<1> USE DEF BridgeInv, TypeOK
<1>0. kind' = kind
  BY DEF Next, Plugin, Environment, NegotiateInvalid, NegotiateNoMemory, Negotiate,
         NegotiationTurn, TargetRefused, TargetCommitted, TargetTurn, Play, Republish, FrameTurn,
         AcquireRefused, AcquireUnused, AcquireReleased, AcquireBusy, AcquireTurn,
         Drawn, DrawAborted, DrawTurn, SendFrame, Commit, RepublishRefused, RepublishAcquire,
         RepublishCancelled, RepublishTurn, Hangup, Control, Disconnect, Deliver, Replay, Release
<1>1. (kind # "image" => shown = {})'
  <2>1. CASE Replay
    BY <1>0, <2>1 DEF Replay
  <2>2. CASE ~Replay
    <3>1. shown' = shown
      BY <2>2 DEF Next, Plugin, Environment, NegotiateInvalid, NegotiateNoMemory, Negotiate,
             NegotiationTurn, TargetRefused, TargetCommitted, TargetTurn, Play, Republish,
             FrameTurn, AcquireRefused, AcquireUnused, AcquireReleased, AcquireBusy, AcquireTurn,
             Drawn, DrawAborted, DrawTurn, SendFrame, Commit, RepublishRefused, RepublishAcquire,
             RepublishCancelled, RepublishTurn, Hangup, Control, Disconnect, Deliver, Release,
             daemonVars
    <3> QED
      BY <1>0, <3>1 DEF ReplayInv
  <2> QED
    BY <2>1, <2>2
<1>2. (shown \subseteq {buffer[p] : p \in 1 .. published})'
  <2>0. published \in Nat /\ point \in Nat /\ shown \subseteq {buffer[p] : p \in 1 .. published}
    BY BoundsAssumption DEF ReplayInv, DaemonTypeOK, PoolTypeOK
  <2>1. CASE SendFrame
    <3>1. published <= point /\ point \in 0 .. MaxPoint
      BY <2>1 DEF SendFrame, OrderInv, Sent, PoolTypeOK
    <3>2. \A p \in 1 .. published : buffer'[p] = buffer[p]
      <4>1. CASE up
        <5>1. \A p \in 1 .. published : p \in Points /\ p # point + 1
          BY <2>0, <3>1, BoundsAssumption DEF Points
        <5>2. buffer' = [buffer EXCEPT ![point + 1] = <<gen, acq>>]
          BY <2>1, <4>1 DEF SendFrame
        <5> QED
          BY <5>1, <5>2 DEF PoolTypeOK
      <4>2. CASE ~up
        BY <2>1, <4>2 DEF SendFrame, memVars
      <4> QED
        BY <4>1, <4>2
    <3>3. shown' = shown /\ published' = published
      BY <2>1 DEF SendFrame, daemonVars
    <3> QED
      BY <2>0, <3>2, <3>3
  <2>2. CASE Replay
    <3>1. latestFrame = buffer[published] /\ published > 0
      BY <2>2 DEF Replay, FrameInPool
    <3>2. shown' = shown \cup {latestFrame} /\ buffer' = buffer /\ published' = published
      BY <2>2 DEF Replay, memVars
    <3> QED
      BY <2>0, <3>1, <3>2
  <2>3. CASE Deliver
    <3>1. shown' = shown /\ buffer' = buffer
      BY <2>3 DEF Deliver, memVars
    <3>2. published' \in {published, published + 1}
      BY <2>3, NextPoint DEF Deliver
    <3> QED
      BY <2>0, <3>1, <3>2
  <2>4. CASE ~SendFrame /\ ~Replay /\ ~Deliver
    <3>1. shown' = shown /\ buffer' = buffer /\ published' = published
      BY <2>4 DEF Next, Plugin, Environment, NegotiateInvalid, NegotiateNoMemory, Negotiate,
             NegotiationTurn, TargetRefused, TargetCommitted, TargetTurn, Play, Republish,
             FrameTurn, AcquireRefused, AcquireUnused, AcquireReleased, AcquireBusy, AcquireTurn,
             Drawn, DrawAborted, DrawTurn, Commit, RepublishRefused, RepublishAcquire,
             RepublishCancelled, RepublishTurn, Hangup, Control, Disconnect, Release,
             Daemon!Release, daemonVars, memVars
    <3> QED
      BY <2>0, <3>1
  <2> QED
    BY <2>1, <2>2, <2>3, <2>4
<1>3. ASSUME kind = "image", pc' \in {"acquire", "draw", "send"}, call' # "republish"
      PROVE  \A s \in Slots : lastPoint'[s] = 0
  <2> USE <1>3
  <2>1. ASSUME NEW n, BindBuffers(n) PROVE \A s \in Slots : lastPoint'[s] = 0
    BY <2>1 DEF BindBuffers, ResetRelease
  <2>2. CASE NegotiateInvalid \/ NegotiateNoMemory
    BY <2>2 DEF NegotiateInvalid, NegotiateNoMemory, NegotiationRefused
  <2>3. CASE Negotiate
    BY <2>1, <2>3 DEF Negotiate
  <2>4. ASSUME NEW refresh \in BOOLEAN, TargetRefused(refresh)
        PROVE  \A s \in Slots : lastPoint'[s] = 0
    BY <2>4 DEF TargetRefused
  <2>5. ASSUME NEW refresh \in BOOLEAN, TargetCommitted(refresh)
        PROVE  \A s \in Slots : lastPoint'[s] = 0
    BY <2>1, <2>5 DEF TargetCommitted
  <2>6. CASE Play
    BY <2>6 DEF Play, FrameTurn
  <2>7. CASE AcquireRefused \/ AcquireUnused \/ AcquireReleased \/ AcquireBusy
    BY <2>7 DEF AcquireRefused, AcquireUnused, AcquireReleased, AcquireBusy, AcquireTurn, HandOut,
                ReplayInv
  <2>8. CASE Drawn \/ DrawAborted
    BY <2>8 DEF Drawn, DrawAborted, DrawTurn, poolVars, ReplayInv
  <2>9. CASE SendFrame \/ Commit
    BY <2>9 DEF SendFrame, Commit
  <2>10. CASE Republish \/ RepublishRefused \/ RepublishAcquire \/ RepublishCancelled \/ Hangup
    <3>1. CASE Republish
      BY <3>1 DEF Republish
    <3>2. CASE RepublishAcquire
      BY <3>2 DEF RepublishAcquire, RepublishTurn, ReplayInv
    <3>3. CASE RepublishRefused \/ RepublishCancelled \/ Hangup
      BY <3>3 DEF RepublishRefused, RepublishCancelled, Hangup
    <3> QED
      BY <2>10, <3>1, <3>2, <3>3
  <2>11. CASE Environment
    BY <2>11 DEF Environment, Control, Disconnect, Deliver, Replay, Release, poolVars, ReplayInv
  <2> QED
    BY <2>2, <2>3, <2>4, <2>5, <2>6, <2>7, <2>8, <2>9, <2>10, <2>11 DEF Next, Plugin
<1>4. (pc = "republish" => call = "republish")'
  <2>1. CASE Republish
    BY <2>1 DEF Republish
  <2>2. CASE Environment
    BY <2>2 DEF Environment, Control, Disconnect, Deliver, Replay, Release, pluginVars, ReplayInv
  <2>3. CASE ~Republish /\ ~Environment
    <3>1. pc' # "republish" \/ (pc' = pc /\ call' = call)
      BY <2>3 DEF Next, Plugin, NegotiateInvalid, NegotiateNoMemory, Negotiate,
             NegotiationRefused, NegotiationTurn, TargetRefused, TargetCommitted, TargetTurn, Play,
             FrameTurn, AcquireRefused, AcquireUnused, AcquireReleased, AcquireBusy, AcquireTurn,
             HandOut, Drawn, DrawAborted, DrawTurn, SendFrame, Commit, RepublishRefused,
             RepublishAcquire, RepublishCancelled, RepublishTurn, Hangup
    <3> QED
      BY <3>1 DEF ReplayInv
  <2> QED
    BY <2>1, <2>2, <2>3
<1> QED
  BY <1>0, <1>1, <1>2, <1>3, <1>4 DEF ReplayInv

LEMMA BridgeInvStep == BridgeInv /\ [Next]_vars => BridgeInv'
<1>1. ASSUME BridgeInv, Next PROVE BridgeInv'
  <2>1. TypeOK'
    BY <1>1, PoolStep, LoopStep, FlagStep, DaemonStep DEF TypeOK
  <2>2. CoreInv'
    BY <1>1, PluginStep, EnvironmentStep DEF Next
  <2>3. ReplayInv'
    BY <1>1, ReplayStep
  <2> QED
    BY <2>1, <2>2, <2>3 DEF BridgeInv, CoreInv
<1>2. ASSUME BridgeInv, UNCHANGED vars PROVE BridgeInv'
  <2>1. CoreInv'
    BY <1>2, SameStep DEF vars, poolVars, daemonVars
  <2>2. PoolTypeOK' /\ LoopTypeOK'
    BY <1>2 DEF vars, poolVars, memVars, BridgeInv, TypeOK, PoolTypeOK, LoopTypeOK
  <2>3. FlagTypeOK' /\ DaemonTypeOK'
    BY <1>2 DEF vars, controls, pluginVars, daemonVars, BridgeInv, TypeOK, FlagTypeOK, DaemonTypeOK
  <2>4. ReplayInv'
    BY <1>2 DEF vars, poolVars, daemonVars, memVars, BridgeInv, ReplayInv
  <2> QED
    BY <2>1, <2>2, <2>3, <2>4 DEF BridgeInv, CoreInv, TypeOK
<1> QED
  BY <1>1, <1>2

\* The invariant holds in every run, for pools of any size, any number of pools,
\* frames and displays, and any mix of plugins
THEOREM BridgeCorrect == Spec => []BridgeInv
<1> QED
  BY BridgeInvInit, BridgeInvStep, PTL DEF Spec

\* Every variable keeps its type: the search for a slot, the slots on the wire and
\* the buffers the daemon keeps stay in the pool
THEOREM BridgeTypeCorrect == Spec => []TypeOK
<1>1. BridgeInv => TypeOK
  BY DEF BridgeInv
<1> QED
  BY <1>1, BridgeCorrect, PTL

\* No slot is drawn into while a display uses a frame in it or the frame is on its
\* way: try_acquire waits for the point of the last use, and frames in use or on the
\* wire have points the timeline did not pass
THEOREM BridgeSafe == Spec => []NoOverwrite
<1>1. ASSUME BridgeInv PROVE NoOverwrite
  <2> SUFFICES ASSUME NEW p \in {c[1] : c \in using} \cup InFlight, buffer[p] \in Drawing
               PROVE  FALSE
    BY DEF NoOverwrite
  <2> USE <1>1 DEF BridgeInv, TypeOK
  <2>1. /\ pc \in {"draw", "send"} /\ call # "republish" /\ buffer[p] = <<gen, acq>>
        /\ acq \in Slots /\ nSlots > 0 /\ lastPoint[acq] <= released
    BY DEF Drawing, AcqInv
  <2>2. p \in 1 .. Sent /\ released < p
    <3>1. Sent \in Nat /\ published \in Nat /\ released \in Nat
      BY BoundsAssumption DEF Sent, PoolTypeOK, DaemonTypeOK
    <3>2. CASE p \in {c[1] : c \in using}
      <4>1. p \in Points
        BY <3>2 DEF DaemonTypeOK
      <4> QED
        BY <3>1, <3>2, <4>1, BoundsAssumption DEF OrderInv, Points
    <3>3. CASE p \in InFlight
      <4>1. PICK i \in 1 .. Len(wire) : wire[i].point = p /\ p # 0
        BY <3>3 DEF InFlight
      <4>2. p \in Nat
        <5>1. wire[i] \in Messages
          BY DEF DaemonTypeOK
        <5> QED
          BY <4>1, <5>1, BoundsAssumption DEF Messages
      <4>3. published < p /\ p <= Sent
        BY <4>1 DEF WireInv, IsFrame
      <4> QED
        BY <3>1, <4>1, <4>2, <4>3 DEF OrderInv
    <3> QED
      BY <3>2, <3>3
  <2>3. p <= lastPoint[acq]
    BY <2>1, <2>2 DEF SlotInv
  <2> QED
    BY <2>1, <2>2, <2>3, BoundsAssumption DEF PoolTypeOK, DaemonTypeOK
<1> QED
  BY <1>1, BridgeCorrect, PTL

\* What a display was shown without being a member of its release is never drawn
\* again: only image plugins are replayed, and they draw only into slots of a pool
\* that holds no frame yet
THEOREM BridgeReplaySafe == Spec => []ReplayStable
<1>1. ASSUME BridgeInv PROVE ReplayStable
  <2> SUFFICES ASSUME NEW b \in shown, b \in Drawing PROVE FALSE
    BY DEF ReplayStable
  <2> USE <1>1 DEF BridgeInv, TypeOK
  <2>1. /\ pc \in {"draw", "send"} /\ call # "republish" /\ b = <<gen, acq>>
        /\ acq \in Slots /\ nSlots > 0
    BY DEF Drawing, AcqInv
  <2>2. PICK p \in 1 .. published : b = buffer[p]
    BY DEF ReplayInv
  <2>3. p \in 1 .. Sent
    BY BoundsAssumption DEF OrderInv, Sent, PoolTypeOK, DaemonTypeOK
  <2>4. p <= lastPoint[acq]
    BY <2>1, <2>2, <2>3 DEF SlotInv
  <2>5. lastPoint[acq] = 0
    BY <2>1 DEF ReplayInv
  <2> QED
    BY <2>2, <2>4, <2>5, BoundsAssumption DEF DaemonTypeOK
<1> QED
  BY <1>1, BridgeCorrect, PTL

\* A frame published again has the content of the one sent last: handing out its
\* slot for drawing withdraws it (try_acquire clears latest_slot)
THEOREM RepublishSafe == Spec => []RepublishIntact
<1>1. ASSUME BridgeInv PROVE RepublishIntact
  <2> SUFFICES ASSUME call = "republish", pc \in {"send", "commit"}
               PROVE  <<gen, acq>> = intact
    BY DEF RepublishIntact
  <2>1. CASE pc = "commit"
    BY <1>1, <2>1 DEF BridgeInv, ContentInv
  <2>2. CASE pc = "send"
    <3>1. latest = <<gen, acq>> /\ acq \in Slots
      BY <1>1, <2>2 DEF BridgeInv, ContentInv, AcqInv
    <3>2. latest # NoBuffer
      BY <3>1, BoundsAssumption DEF NoBuffer, NoSlot, Slots
    <3> QED
      BY <1>1, <2>2, <3>1, <3>2 DEF BridgeInv, ContentInv
  <2> QED
    BY <2>1, <2>2
<1> QED
  BY <1>1, BridgeCorrect, PTL

\* The daemon attributes every frame to the buffer it lies in, though the message
\* of a frame does not name its pool
THEOREM FrameAttributed == Spec => []FrameInPool
<1>1. BridgeInv => FrameInPool
  BY DEF BridgeInv
<1> QED
  BY <1>1, BridgeCorrect, PTL

\* The producer, its socket and the reader implement the publishing side of the
\* release order: the daemon sees every point once and in turn, over all pools
THEOREM BridgeKeepsOrder == Spec => KeepsReleaseOrder
<1>1. Init => Daemon!Init
  BY DEF Init
<1>2. ASSUME BridgeInv, Next PROVE [Daemon!Next]_(Daemon!vars)
  <2>1. CASE Deliver /\ Head(wire).point = 0
    BY <2>1 DEF Deliver, Daemon!vars
  <2>2. CASE Deliver /\ Head(wire).point # 0
    <3>1. Head(wire).point = published + 1 /\ Head(wire).point \in 1 .. Sent
      BY <1>2, <2>2, NextPoint, HeadFact DEF Deliver
    <3>2. published < MaxPoint
      BY <1>2, <3>1, BoundsAssumption
         DEF BridgeInv, TypeOK, DaemonTypeOK, PoolTypeOK, OrderInv, Sent
    <3>3. PICK S \in SUBSET Users : using' = using \cup ({Head(wire).point} \X S)
      BY <2>2 DEF Deliver
    <3>4. published' = published + 1 /\ UNCHANGED released
      BY <2>2, <3>1 DEF Deliver
    <3>5. Daemon!Publish(S)
      BY <3>1, <3>2, <3>3, <3>4 DEF Daemon!Publish
    <3> QED
      BY <3>5 DEF Daemon!Next
  <2>3. CASE Release
    <3>1. ASSUME NEW u \in Users, NEW done \in SUBSET {c \in using : c[2] = u},
                 done # {}, using' = using \ done, UNCHANGED <<published, released>>
          PROVE  Daemon!Next
      <4>1. using \ using' = done /\ using' # using /\ using' \subseteq using
        BY <3>1
      <4> QED
        BY <3>1, <4>1 DEF Daemon!Next, Daemon!Finish
    <3>2. ASSUME NEW n \in 1 .. published, Daemon!Release(n)
          PROVE  Daemon!Next
      BY <3>2 DEF Daemon!Next
    <3> QED
      BY <2>3, <3>1, <3>2 DEF Release
  <2>4. CASE Control \/ Disconnect \/ Replay
    BY <2>4 DEF Control, Disconnect, Replay, daemonVars, Daemon!vars
  <2>5. CASE Plugin
    <3>1. UNCHANGED daemonVars
      BY <2>5 DEF Plugin, NegotiateInvalid, NegotiateNoMemory, Negotiate, NegotiationTurn,
            TargetRefused, TargetCommitted, TargetTurn, Play, Republish, FrameTurn,
            AcquireRefused, AcquireUnused, AcquireReleased, AcquireBusy, AcquireTurn,
            Drawn, DrawAborted, DrawTurn, SendFrame, Commit,
            RepublishRefused, RepublishAcquire, RepublishCancelled, RepublishTurn, Hangup
    <3> QED
      BY <3>1 DEF daemonVars, Daemon!vars
  <2> QED
    BY <1>2, <2>1, <2>2, <2>3, <2>4, <2>5 DEF Next, Environment
<1>3. ASSUME UNCHANGED vars PROVE UNCHANGED Daemon!vars
  BY <1>3 DEF vars, daemonVars, Daemon!vars
<1>4. BridgeInv /\ [Next]_vars => [Daemon!Next]_(Daemon!vars)
  BY <1>2, <1>3
<1> QED
  BY <1>1, <1>4, BridgeCorrect, PTL DEF Spec, KeepsReleaseOrder, Daemon!Spec

=============================================================================
