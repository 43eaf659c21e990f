------------------------ MODULE DisplayBinding_proof ------------------------
(***************************************************************************)
(* Proofs about DisplayBinding, for any displays, requests and scenarios,  *)
(* any number of processes, pools, frames and formats                      *)
(* (routing/router, renderer_manager, display/endpoint.rs).                *)
(*                                                                         *)
(* The stream of one display is looked at alone: the router appends to it  *)
(* under one lock, with a new epoch whenever the binding or the link       *)
(* changes, and the frame loop takes from its front.                       *)
(***************************************************************************)
EXTENDS DisplayBinding, SequenceTheorems, WellFoundedInduction, TLAPS

-----------------------------------------------------------------------------
(* Types. *)

ProcIds == 0 .. MaxProc
Fmts    == 0 .. MaxFormat
Ends    == {"Stopped", "Failed"}
Causes  == {"none", "explicit", "resume"} \cup Ends
States  == {"Stopped", "Failed", "Starting", "Running", "Stopping"}
SectionOps == {"sync", "activate", "begin", "arm", "request", "detach", "finish", "await", "kill", "settle",
               "advance", "spawn", "attach", "registered", "attached", "pick", "dispatch", "record"}

Bindings == [proc : ProcIds, pool : Nat, fmt : Fmts, wire : Nat, awaiting : BOOLEAN, last : Nat]
Displays == [conn : {"new", "up", "leaving", "gone"}, link : {"none", "on", "off"}, bound : Bindings,
             wire : Nat, epoch : Nat, failed : Nat, black : SUBSET Fmts, paused : BOOLEAN]
Msgs     == [kind : {"unbind", "bind", "frame"}, wire : Nat, proc : ProcIds, seq : Nat, epoch : Nat]
Clients  == [shown : Nat, unacked : SUBSET Msgs, fails : SUBSET Nat]
Processes == [alive : BOOLEAN, caps : BOOLEAN, asked : Fmts, scheme : Fmts, pool : Nat, fmt : Fmts,
              retiring : BOOLEAN, fences : SUBSET Nat, latest : [pool : Nat, seq : Nat], seq : Nat]
EventMsgs == [kind : {"caps", "bind", "frame"}, pool : Nat, seq : Nat]
Locals    == [op : SectionOps, todo : SUBSET Display, gen : ProcIds, fmt : Fmts, cause : Causes,
              late : BOOLEAN]
Sections  == {s \in Locals : s.op = "settle" => s.cause \in Ends}

DispType  == disp \in [Display -> Displays]
OutType   == out \in [Display -> Seq(Msgs)]
ClientType == client \in [Display -> Clients]
AckType   == tracking \in BOOLEAN /\ pending \subseteq Display \X Nat
ProcType  == proc \in [Procs -> Processes]
SlotType  == /\ slot \in [state : States, gen : ProcIds, start : Causes]
             /\ attached \in ProcIds /\ sub \in ProcIds
             /\ stopped \in BOOLEAN
EventType == events \in Seq(EventMsgs) /\ exits \in Seq(Procs \X Ends)
TaskType  == task \in [Tasks -> Seq(Sections)]

TypeOK == /\ DispType /\ OutType /\ ClientType /\ AckType
          /\ ProcType /\ SlotType /\ EventType /\ TaskType

-----------------------------------------------------------------------------
(* What a display x was sent in the channel o, to a client that is shown s. *)

\* What the client is shown when it has read the message m
After(m) == IF m.kind = "unbind" THEN 0 ELSE m.wire

\* ... and when it has read those before message i
Before(o, s, i) == IF i = 1 THEN s ELSE After(o[i - 1])

\* Every message was sent under an epoch and a wire generation given out
Dated(x, o) ==
    /\ x.bound.wire <= x.wire
    /\ \A i \in 1 .. Len(o) : o[i].epoch <= x.epoch /\ o[i].wire <= x.wire

\* A display that is still to come was sent nothing
Fresh(x, o, s) == x.conn = "new" => o = <<>> /\ x.bound = NoBinding /\ s = 0

\* The permit of the frame m, if it is current, names the binding
Permits(x, m) ==
    m.kind = "frame" /\ m.epoch = x.epoch =>
      x.link = "on" /\ x.bound.wire = m.wire /\ x.bound.proc = m.proc /\ x.failed # m.wire

\* Every message fits the one before it, and the last of them the binding
Chained(x, o, s) ==
    x.conn = "up" =>
      /\ \A i \in 1 .. Len(o) : Before(o, s, i) = IF o[i].kind = "bind" THEN 0 ELSE o[i].wire
      /\ x.bound.wire = Before(o, s, Len(o) + 1)

\* Frames of one binding come in order, and none after the last one sent to it
Ordered(x, o) ==
    /\ \A i, j \in 1 .. Len(o) :
         i < j /\ o[i].kind = "frame" /\ o[j].kind = "frame" /\ o[i].wire = o[j].wire
           => o[i].seq < o[j].seq
    /\ \A i \in 1 .. Len(o) :
         o[i].kind = "frame" /\ o[i].wire = x.bound.wire /\ x.bound # NoBinding
           => o[i].seq <= x.bound.last

StreamFits(x, o, s) ==
    /\ Dated(x, o) /\ Fresh(x, o, s) /\ Chained(x, o, s) /\ Ordered(x, o)
    /\ \A i \in 1 .. Len(o) : Permits(x, o[i])

StreamInv == \A d \in Display : StreamFits(disp[d], out[d], client[d].shown)

\* The acknowledgement of w is still to come: its unbind is with the client, or on the way
Comes(o, unacked, w) ==
    \/ \E m \in unacked : m.kind = "unbind" /\ m.wire = w
    \/ \E i \in 1 .. Len(o) : o[i].kind = "unbind" /\ o[i].wire = w

\* Acknowledgements are waited for from displays that were there, and from one that is
\* connected they are still to come
AckInv ==
    \A d \in Display, w \in Nat : <<d, w>> \in pending =>
      /\ disp[d].conn # "new"
      /\ disp[d].conn = "up" => Comes(out[d], client[d].unacked, w)

BindingInv == TypeOK /\ StreamInv /\ AckInv


-----------------------------------------------------------------------------
(* Sections and stacks have their types. *)

LEMMA BoundFacts == /\ MaxProc \in Nat /\ MaxFormat \in Nat \ {0}
                    /\ 0 \in ProcIds /\ 0 \in Fmts
                    /\ Procs \subseteq ProcIds /\ Formats \subseteq Fmts
<1>1. MaxProc \in Nat /\ MaxFormat \in Nat \ {0}
  BY Bounds
<1> QED BY <1>1 DEF ProcIds, Fmts, Procs, Formats

LEMMA SectionTypes ==
    /\ \A op \in SectionOps \ {"settle"} : Run(op) \in Sections
    /\ \A op \in SectionOps \ {"settle"}, g \in ProcIds :
         /\ RunOn(op, g) \in Sections
         /\ [RunOn(op, g) EXCEPT !.late = TRUE] \in Sections
         /\ \A f \in Fmts : [RunOn(op, g) EXCEPT !.fmt = f] \in Sections
    /\ \A c \in Causes : RequestFor(c) \in Sections
    /\ \A g \in ProcIds, c \in Ends : Settle(g, c) \in Sections
<1>1. \A op \in SectionOps : Run(op) \in Locals /\ Run(op).op = op
  BY BoundFacts DEF Run, Locals, Causes
<1>2. ASSUME NEW r \in Locals
      PROVE  /\ \A g \in ProcIds : [r EXCEPT !.gen = g] \in Locals /\ [r EXCEPT !.gen = g].op = r.op
             /\ [r EXCEPT !.late = TRUE] \in Locals /\ [r EXCEPT !.late = TRUE].op = r.op
             /\ \A f \in Fmts : [r EXCEPT !.fmt = f] \in Locals /\ [r EXCEPT !.fmt = f].op = r.op
             /\ \A c \in Causes : [r EXCEPT !.cause = c] \in Locals /\ [r EXCEPT !.cause = c].op = r.op
                                   /\ [r EXCEPT !.cause = c].cause = c
  BY DEF Locals
<1>3. \A op \in SectionOps, g \in ProcIds : RunOn(op, g) \in Locals /\ RunOn(op, g).op = op
  BY <1>1, <1>2 DEF RunOn
<1>4. \A c \in Causes : RequestFor(c) \in Sections
  BY <1>1, <1>2 DEF RequestFor, SectionOps, Sections
<1>5. ASSUME NEW g \in ProcIds, NEW c \in Ends PROVE Settle(g, c) \in Sections
  <2> DEFINE r == RunOn("settle", g)
  <2>1. r \in Locals
    BY <1>3 DEF SectionOps
  <2>2. c \in Causes
    BY DEF Causes
  <2> HIDE DEF r
  <2>3. [r EXCEPT !.cause = c] \in Locals /\ [r EXCEPT !.cause = c].cause = c
    BY <1>2, <2>1, <2>2
  <2>4. [r EXCEPT !.cause = c] \in Sections
    BY <2>3 DEF Sections
  <2> QED BY <2>4 DEF r, Settle
<1>6. ASSUME NEW op \in SectionOps \ {"settle"}, NEW g \in ProcIds
      PROVE  /\ RunOn(op, g) \in Sections
             /\ [RunOn(op, g) EXCEPT !.late = TRUE] \in Sections
             /\ \A f \in Fmts : [RunOn(op, g) EXCEPT !.fmt = f] \in Sections
  <2> DEFINE r == RunOn(op, g)
  <2>1. r \in Locals /\ r.op = op
    BY <1>3
  <2> HIDE DEF r
  <2>2. r \in Sections /\ [r EXCEPT !.late = TRUE] \in Sections /\ \A f \in Fmts : [r EXCEPT !.fmt = f] \in Sections
    BY <1>2, <2>1 DEF Sections
  <2> QED BY <2>2 DEF r
<1>7. \A op \in SectionOps \ {"settle"} : Run(op) \in Sections
  BY <1>1 DEF Sections
<1> QED BY <1>4, <1>5, <1>6, <1>7

LEMMA SyncType == \A ds \in SUBSET Display : Sync(ds) \in Seq(Sections)
<1> TAKE ds \in SUBSET Display
<1>1. [Run("sync") EXCEPT !.todo = ds] \in Sections
  <2>1. Run("sync") \in Sections
    BY SectionTypes DEF SectionOps
  <2> QED BY <2>1 DEF Sections, Locals, Run
<1> QED BY <1>1 DEF Sync

LEMMA RenegotiateType == Renegotiate \in Seq(Sections)
BY SectionTypes DEF Renegotiate, SectionOps

\* The running section of a task
LEMMA SelfType ==
    ASSUME TaskType, NEW t \in Tasks, task[t] # <<>>
    PROVE  Self(t) \in Sections
BY DEF TaskType, Self

LEMMA ThenType ==
    ASSUME TaskType, NEW t \in Tasks, NEW calls \in Seq(Sections), task[t] # <<>>, Then(t, calls)
    PROVE  TaskType'
<1>1. Tail(task[t]) \in Seq(Sections)
  BY DEF TaskType
<1>2. calls \o Tail(task[t]) \in Seq(Sections)
  BY <1>1
<1> QED BY <1>2 DEF TaskType, Then

LEMMA BeginsType ==
    ASSUME TaskType, NEW t \in Tasks, NEW calls \in Seq(Sections), Begins(t, calls)
    PROVE  TaskType'
BY DEF TaskType, Begins

LEMMA TaskOf ==
    /\ \A d \in Display : d \in Tasks
    /\ \A c \in Ctl : c \in Tasks
    /\ "events" \in Tasks /\ "exits" \in Tasks
BY DEF Tasks

-----------------------------------------------------------------------------
(* Every action keeps the types. *)

LEMMA NoBindingType == NoBinding \in Bindings
BY BoundFacts DEF NoBinding, Bindings

LEMMA InvalidatedType ==
    ASSUME DispType, NEW ds
    PROVE  Invalidated(ds) \in [Display -> Displays]
<1>1. ASSUME NEW d \in Display PROVE Invalidated(ds)[d] \in Displays
  BY DEF Invalidated, DispType, Displays
<1> QED BY <1>1 DEF Invalidated

\* The record and the messages that sync_display makes of x, for the pool of target
Bound(x, target, pool, fmt, seq) ==
    [proc |-> target, pool |-> pool, fmt |-> fmt, wire |-> x.wire + 1,
     awaiting |-> ~(seq # 0 /\ x.conn = "up"),
     last |-> IF seq # 0 /\ x.conn = "up" THEN seq ELSE 0]

Brought(x, target, b) ==
    IF target = 0 THEN [x EXCEPT !.epoch = x.epoch + 1, !.bound = NoBinding]
    ELSE [x EXCEPT !.epoch = x.epoch + 1, !.wire = x.wire + 1, !.failed = 0, !.bound = b]

Told(x, target, seq) ==
    (IF x.bound = NoBinding THEN <<>> ELSE <<UnbindMsg(x.bound)>>)
    \o (IF target = 0 THEN <<>>
        ELSE <<BindMsg(x.wire + 1, target)>>
             \o (IF seq = 0 THEN <<>> ELSE <<FrameMsg(x.wire + 1, target, seq, x.epoch + 1)>>))

LEMMA ReplayType == ASSUME ProcType, NEW p \in Procs PROVE Replay(p) \in Nat
BY DEF ProcType, Processes, Replay

\* Bring in terms of the one display
LEMMA BringIs ==
    ASSUME DispType, OutType, NEW d \in Display, NEW target, Bring(d, target)
    PROVE  \E b : /\ target # 0 => b = Bound(disp[d], target, proc[target].pool, proc[target].fmt, Replay(target))
                  /\ disp' = [disp EXCEPT ![d] = Brought(disp[d], target, b)]
                  /\ out' = [out EXCEPT ![d] = Send(d, Told(disp[d], target, Replay(target)))]
<1> DEFINE b == Bound(disp[d], target, proc[target].pool, proc[target].fmt, Replay(target))
<1>1. disp' = [disp EXCEPT ![d] = Brought(disp[d], target, b)]
  BY DEF Bring, Brought, Bound
<1>2. out' = [out EXCEPT ![d] = Send(d, Told(disp[d], target, Replay(target)))]
  BY DEF Bring, Told
<1> QED BY <1>1, <1>2

LEMMA BroughtType ==
    ASSUME NEW x \in Displays, NEW target \in ProcIds, NEW b, target # 0 => b \in Bindings
    PROVE  Brought(x, target, b) \in Displays
<1>1. ASSUME NEW y \in Displays
      PROVE  /\ \A e \in Nat : [y EXCEPT !.epoch = e] \in Displays
             /\ \A w \in Nat : [y EXCEPT !.wire = w] \in Displays
             /\ [y EXCEPT !.failed = 0] \in Displays
             /\ \A c \in Bindings : [y EXCEPT !.bound = c] \in Displays
  BY DEF Displays
<1>2. x.epoch + 1 \in Nat /\ x.wire + 1 \in Nat
  BY DEF Displays
<1> DEFINE x1 == [x EXCEPT !.epoch = x.epoch + 1]
           x2 == [x1 EXCEPT !.wire = x.wire + 1]
           x3 == [x2 EXCEPT !.failed = 0]
<1>3. x1 \in Displays /\ x2 \in Displays /\ x3 \in Displays
  BY <1>1, <1>2
<1>4. [x1 EXCEPT !.bound = NoBinding] \in Displays /\ (target # 0 => [x3 EXCEPT !.bound = b] \in Displays)
  BY <1>1, <1>3, NoBindingType
<1>5. Brought(x, target, b) = IF target = 0 THEN [x1 EXCEPT !.bound = NoBinding] ELSE [x3 EXCEPT !.bound = b]
  BY DEF Brought
<1> QED BY <1>4, <1>5

LEMMA BoundType ==
    ASSUME NEW x \in Displays, NEW target \in ProcIds, NEW pool \in Nat, NEW fmt \in Fmts, NEW seq \in Nat
    PROVE  Bound(x, target, pool, fmt, seq) \in Bindings
BY DEF Bound, Bindings, Displays

LEMMA MsgTypes ==
    /\ \A b \in Bindings : UnbindMsg(b) \in Msgs
    /\ \A w \in Nat, p \in ProcIds : BindMsg(w, p) \in Msgs
    /\ \A w, s, e \in Nat, p \in ProcIds : FrameMsg(w, p, s, e) \in Msgs
BY BoundFacts DEF UnbindMsg, BindMsg, FrameMsg, Msgs, Bindings

LEMMA ToldType ==
    ASSUME NEW x \in Displays, NEW target \in ProcIds, NEW seq \in Nat
    PROVE  Told(x, target, seq) \in Seq(Msgs)
<1>1. x.wire + 1 \in Nat /\ x.epoch + 1 \in Nat /\ x.bound \in Bindings
  BY DEF Displays
<1>2. (IF x.bound = NoBinding THEN <<>> ELSE <<UnbindMsg(x.bound)>>) \in Seq(Msgs)
  BY <1>1, MsgTypes
<1>3. (IF seq = 0 THEN <<>> ELSE <<FrameMsg(x.wire + 1, target, seq, x.epoch + 1)>>) \in Seq(Msgs)
  BY <1>1, MsgTypes
<1>4. <<BindMsg(x.wire + 1, target)>> \in Seq(Msgs)
  BY <1>1, MsgTypes
<1> QED BY <1>2, <1>3, <1>4 DEF Told

LEMMA SendType ==
    ASSUME OutType, NEW d \in Display, NEW msgs \in Seq(Msgs)
    PROVE  Send(d, msgs) \in Seq(Msgs)
BY DEF OutType, Send

LEMMA SyncDisplayTypes ==
    ASSUME TypeOK, NEW d \in Display, SyncDisplay(d)
    PROVE  DispType' /\ OutType' /\ pending' \in SUBSET (Display \X Nat)
<1> USE DEF TypeOK
<1>1. CASE UNCHANGED <<disp, out, pending>>
  BY <1>1 DEF DispType, OutType, AckType
<1>2. ASSUME NEW target \in ProcIds, target # 0 => target \in Procs, Bring(d, target)
      PROVE  DispType' /\ OutType' /\ pending' \in SUBSET (Display \X Nat)
  <2>1. disp[d] \in Displays /\ disp[d].bound.wire \in Nat
    BY DEF DispType, Displays, Bindings
  <2>2. PICK b : /\ target # 0 => b = Bound(disp[d], target, proc[target].pool, proc[target].fmt, Replay(target))
                 /\ disp' = [disp EXCEPT ![d] = Brought(disp[d], target, b)]
                 /\ out' = [out EXCEPT ![d] = Send(d, Told(disp[d], target, Replay(target)))]
    BY <1>2, BringIs
  <2>3. CASE target = 0
    <3>1. Brought(disp[d], target, b) \in Displays
      BY <2>1, <2>3, BroughtType
    <3>2. Told(disp[d], target, Replay(target)) = Told(disp[d], target, 0)
      BY <2>3 DEF Told
    <3>3. Told(disp[d], target, 0) \in Seq(Msgs)
      BY <2>1, ToldType
    <3>4. Send(d, Told(disp[d], target, Replay(target))) \in Seq(Msgs)
      BY <3>2, <3>3, SendType
    <3> QED BY <1>2, <2>1, <2>2, <3>1, <3>4 DEF DispType, OutType, AckType, Bring
  <2>4. CASE target # 0
    <3>1. Replay(target) \in Nat /\ proc[target].pool \in Nat /\ proc[target].fmt \in Fmts
      BY <1>2, <2>4, ReplayType DEF ProcType, Processes
    <3>2. b \in Bindings
      BY <2>1, <2>2, <2>4, <3>1, BoundType
    <3>3. Brought(disp[d], target, b) \in Displays
      BY <2>1, <3>2, BroughtType
    <3>4. Told(disp[d], target, Replay(target)) \in Seq(Msgs)
      BY <2>1, <3>1, ToldType
    <3>5. Send(d, Told(disp[d], target, Replay(target))) \in Seq(Msgs)
      BY <3>4, SendType
    <3> QED BY <1>2, <2>1, <2>2, <3>3, <3>5 DEF DispType, OutType, AckType, Bring
  <2> QED BY <2>3, <2>4
<1>3. attached \in ProcIds /\ 0 \in ProcIds /\ (attached # 0 => attached \in Procs)
  BY BoundFacts DEF SlotType, ProcIds, Procs
<1>4. \/ UNCHANGED <<disp, out, pending>> \/ Bring(d, attached) \/ Bring(d, 0)
  BY DEF SyncDisplay
<1> QED BY <1>1, <1>2, <1>3, <1>4

\* The variables of the renderer, in one
RendTypes == ProcType /\ SlotType /\ EventType

LEMMA SyncOneTypes ==
    ASSUME TypeOK, NEW t \in Tasks, SyncOne(t)
    PROVE  TypeOK'
<1>1. TaskType /\ task[t] # <<>> /\ Self(t).todo \subseteq Display
  BY SelfType DEF SyncOne, At, TypeOK, Sections, Locals
<1>2. PICK d \in Self(t).todo : SyncDisplay(d) /\ Then(t, Sync(Self(t).todo \ {d}))
  BY DEF SyncOne
<1>3. Sync(Self(t).todo \ {d}) \in Seq(Sections)
  BY <1>1, SyncType
<1>4. TaskType'
  BY <1>1, <1>2, <1>3, ThenType
<1>5. DispType' /\ OutType' /\ pending' \in SUBSET (Display \X Nat)
  BY <1>1, <1>2, SyncDisplayTypes
<1>6. UNCHANGED <<client, rendVars, stopped, tracking>>
  BY DEF SyncOne
<1> QED BY <1>4, <1>5, <1>6 DEF TypeOK, ClientType, AckType, ProcType, SlotType, EventType, rendVars

\* disp and task change
LEMMA DispTaskTypes ==
    ASSUME TypeOK, DispType', TaskType', UNCHANGED <<out, client, rendVars, stopped, ackVars>>
    PROVE  TypeOK'
BY DEF TypeOK, OutType, ClientType, AckType, ProcType, SlotType, EventType, rendVars, ackVars

\* The record of a display with another connection, link or pause
LEMMA DisplayFields ==
    ASSUME NEW x \in Displays
    PROVE  /\ \A l \in {"none", "on", "off"} : [x EXCEPT !.link = l] \in Displays
           /\ \A c \in {"new", "up", "leaving", "gone"} : [x EXCEPT !.conn = c] \in Displays
           /\ [x EXCEPT !.paused = ~@] \in Displays
           /\ \A w \in Nat : [x EXCEPT !.failed = w] \in Displays
           /\ \A f \in Fmts : [x EXCEPT !.black = @ \cup {f}] \in Displays
           /\ \A b \in Bindings : [x EXCEPT !.bound = b] \in Displays
BY DEF Displays

LEMMA CtlTypes ==
    ASSUME TypeOK, NEW t \in Ctl,
           SetManualStop(t) \/ Restart(t) \/ ClearAssignments(t) \/ SetDisplayPaused(t)
    PROVE  TypeOK'
<1>1. t \in Tasks /\ TaskType /\ DispType
  BY TaskOf DEF TypeOK
<1>2. CASE SetManualStop(t)
  <2>1. <<Run("activate")>> \in Seq(Sections)
    BY SectionTypes DEF SectionOps
  <2>2. TaskType'
    BY <1>1, <1>2, <2>1, BeginsType DEF SetManualStop
  <2> QED BY <1>2, <2>2 DEF SetManualStop, TypeOK, DispType, OutType, ClientType, AckType, ProcType,
             SlotType, EventType, rendVars, ackVars
<1>3. CASE Restart(t)
  <2> DEFINE calls == <<Run("begin")>> \o (IF Demand THEN <<RequestFor("explicit")>> ELSE <<>>)
                        \o <<RunOn("detach", attached)>>
  <2>1. /\ Run("begin") \in Sections /\ RequestFor("explicit") \in Sections
        /\ RunOn("detach", attached) \in Sections
    BY SectionTypes DEF SectionOps, Causes, TypeOK, SlotType
  <2>2. calls \in Seq(Sections)
    BY <2>1
  <2>3. TaskType'
    BY <1>1, <1>3, <2>2, BeginsType DEF Restart
  <2> QED BY <1>3, <2>3, DispTaskTypes DEF Restart, DispType, TypeOK
<1>4. CASE ClearAssignments(t)
  <2>1. PICK ds \in SUBSET Linked :
          /\ disp' = [d \in Display |-> IF d \in ds THEN [Invalidated(ds)[d] EXCEPT !.link = "none"]
                                        ELSE disp[d]]
          /\ Begins(t, Sync(ds) \o Renegotiate)
    BY <1>4 DEF ClearAssignments
  <2>2. ds \in SUBSET Display
    BY DEF Linked
  <2>3. Sync(ds) \o Renegotiate \in Seq(Sections)
    BY <2>2, SyncType, RenegotiateType
  <2>4. TaskType'
    BY <1>1, <2>1, <2>3, BeginsType
  <2>5. \A d \in Display : [Invalidated(ds)[d] EXCEPT !.link = "none"] \in Displays
    BY <1>1, InvalidatedType, DisplayFields
  <2>6. DispType'
    BY <1>1, <2>1, <2>5 DEF DispType
  <2> QED BY <1>4, <2>4, <2>6, DispTaskTypes DEF ClearAssignments
<1>5. CASE SetDisplayPaused(t)
  <2>1. PICK d \in Display : disp' = [Invalidated({d}) EXCEPT ![d].paused = ~@]
    BY <1>5 DEF SetDisplayPaused
  <2>2. [Invalidated({d})[d] EXCEPT !.paused = ~@] \in Displays
    BY <1>1, InvalidatedType, DisplayFields
  <2>3. DispType'
    BY <1>1, <2>1, <2>2, InvalidatedType DEF DispType
  <2> QED BY <1>1, <1>5, <2>3, DispTaskTypes DEF SetDisplayPaused, TaskType
<1> QED BY <1>2, <1>3, <1>4, <1>5

LEMMA SessionTypes ==
    ASSUME TypeOK, NEW d \in Display, RegisterDisplay(d) \/ ClientLeaves(d) \/ UnregisterDisplay(d)
    PROVE  TypeOK'
<1>1. d \in Tasks /\ TaskType /\ DispType /\ disp[d] \in Displays
  BY TaskOf DEF TypeOK, DispType
<1>2. CASE RegisterDisplay(d)
  <2> DEFINE calls == <<RequestFor("explicit")>> \o Renegotiate \o Sync({d})
             l == IF stopped THEN "off" ELSE "on"
  <2>1. RequestFor("explicit") \in Sections
    BY SectionTypes DEF Causes
  <2>2. calls \in Seq(Sections)
    BY <2>1, SyncType, RenegotiateType
  <2>3. TaskType'
    BY <1>1, <1>2, <2>2, BeginsType DEF RegisterDisplay
  <2>4. [[disp[d] EXCEPT !.conn = "up"] EXCEPT !.link = l] \in Displays
    BY <1>1, DisplayFields
  <2>5. disp' = [disp EXCEPT ![d] = [[disp[d] EXCEPT !.conn = "up"] EXCEPT !.link = l]]
    BY <1>1, <1>2 DEF RegisterDisplay, DispType
  <2>6. DispType'
    BY <1>1, <2>4, <2>5 DEF DispType
  <2> QED BY <1>2, <2>3, <2>6, DispTaskTypes DEF RegisterDisplay
<1>3. CASE ClientLeaves(d)
  <2>1. [disp[d] EXCEPT !.conn = "leaving"] \in Displays
    BY <1>1, DisplayFields
  <2>2. DispType'
    BY <1>1, <1>3, <2>1 DEF ClientLeaves, DispType
  <2> QED BY <1>1, <1>3, <2>2, DispTaskTypes DEF ClientLeaves, TaskType
<1>4. CASE UnregisterDisplay(d)
  <2> DEFINE x == [[[disp[d] EXCEPT !.conn = "gone"] EXCEPT !.link = "none"] EXCEPT !.bound = NoBinding]
  <2>1. x \in Displays
    BY <1>1, DisplayFields, NoBindingType
  <2>2. disp' = [disp EXCEPT ![d] = x]
    BY <1>1, <1>4 DEF UnregisterDisplay, DispType
  <2>3. DispType'
    BY <1>1, <2>1, <2>2 DEF DispType
  <2>4. TaskType'
    BY <1>1, <1>4, BeginsType, RenegotiateType DEF UnregisterDisplay
  <2>5. OutType' /\ ClientType'
    <3>1. [shown |-> 0, unacked |-> {}, fails |-> {}] \in Clients
      BY DEF Clients
    <3> QED BY <1>4, <3>1 DEF UnregisterDisplay, TypeOK, OutType, ClientType
  <2>6. SlotType'
    BY <1>4 DEF UnregisterDisplay, TypeOK, SlotType, Causes
  <2> QED BY <1>4, <2>3, <2>4, <2>5, <2>6
          DEF UnregisterDisplay, TypeOK, AckType, ProcType, EventType, rendVars, ackVars
<1> QED BY <1>2, <1>3, <1>4

\* Only the stacks change
LEMMA TaskTypes ==
    ASSUME TypeOK, TaskType', UNCHANGED <<disp, out, client, rendVars, stopped, ackVars>>
    PROVE  TypeOK'
BY DEF TypeOK, DispType, OutType, ClientType, AckType, ProcType, SlotType, EventType, rendVars, ackVars

LEMMA StopTypes ==
    ASSUME TypeOK, NEW t \in Tasks,
           \/ Activate(t) \/ BeginRetainedStop(t) \/ ArmTracking(t) \/ DetachForRestart(t)
           \/ FinishRetainedStop(t) \/ AwaitUnbindAcks(t) \/ AckTimeout(t) \/ StopGeneration(t)
    PROVE  TypeOK'
<1>1. task[t] # <<>> /\ TaskType /\ DispType
  BY DEF TypeOK, Activate, BeginRetainedStop, ArmTracking, DetachForRestart, FinishRetainedStop,
         AwaitUnbindAcks, AckTimeout, StopGeneration, At
<1>2. Self(t) \in Sections /\ Self(t).gen \in ProcIds
  BY <1>1, SelfType DEF Sections, Locals
<1>3. <<>> \in Seq(Sections) /\ \A op \in SectionOps \ {"settle"} : <<Run(op)>> \in Seq(Sections)
  BY SectionTypes
<1>4. \A op \in SectionOps \ {"settle"}, g \in ProcIds :
        <<RunOn(op, g)>> \in Seq(Sections) /\ <<[RunOn(op, g) EXCEPT !.late = TRUE]>> \in Seq(Sections)
  BY SectionTypes
<1>5. CASE Activate(t)
  <2> DEFINE want     == IF stopped THEN "off" ELSE "on"
             changed  == {d \in Linked : disp[d].link # want}
             stopping == stopped \/ (Linked # {} /\ want = "off")
             c1 == IF stopping THEN <<Run("begin")>> ELSE <<>>
             c3 == IF stopping THEN <<Run("finish")>> ELSE <<>>
             c4 == IF changed # {} /\ want = "on" THEN <<RequestFor("resume")>> ELSE <<>>
             c5 == IF changed # {} THEN Renegotiate ELSE <<>>
  <2>1. disp' = [d \in Display |-> IF d \in changed THEN [Invalidated(changed)[d] EXCEPT !.link = want]
                                   ELSE disp[d]]
    BY <1>5 DEF Activate
  <2>2. Then(t, c1 \o Sync(changed) \o c3 \o c4 \o c5)
    BY <1>5 DEF Activate
  <2>3. want \in {"on", "off"} /\ changed \in SUBSET Display
    BY DEF Linked
  <2>4. c1 \in Seq(Sections) /\ c3 \in Seq(Sections) /\ c4 \in Seq(Sections) /\ c5 \in Seq(Sections)
    <3>1. RequestFor("resume") \in Sections
      BY SectionTypes DEF Causes
    <3> QED BY <1>3, <3>1, RenegotiateType DEF SectionOps
  <2>5. Sync(changed) \in Seq(Sections)
    BY <2>3, SyncType
  <2> HIDE DEF want, changed, stopping, c1, c3, c4, c5
  <2>6. c1 \o Sync(changed) \o c3 \o c4 \o c5 \in Seq(Sections)
    BY <2>4, <2>5
  <2>7. TaskType'
    BY <1>1, <2>2, <2>6, ThenType
  <2>8. \A d \in Display : [Invalidated(changed)[d] EXCEPT !.link = want] \in Displays
    BY <1>1, <2>3, InvalidatedType, DisplayFields
  <2>9. DispType'
    BY <1>1, <2>1, <2>8 DEF DispType
  <2> QED BY <1>5, <2>7, <2>9, DispTaskTypes DEF Activate
<1>6. CASE BeginRetainedStop(t)
  <2> DEFINE calls == IF slot.state \in {"Starting", "Running"} THEN <<Run("arm")>> ELSE <<>>
  <2>1. calls \in Seq(Sections)
    BY <1>3 DEF SectionOps
  <2>2. TaskType'
    BY <1>1, <1>6, <2>1, ThenType DEF BeginRetainedStop
  <2>3. SlotType'
    BY <1>6 DEF BeginRetainedStop, TypeOK, SlotType, Causes, States
  <2> QED BY <1>6, <2>2, <2>3
          DEF BeginRetainedStop, TypeOK, DispType, OutType, ClientType, AckType, ProcType, EventType, ackVars
<1>7. CASE ArmTracking(t)
  <2>1. TaskType'
    BY <1>1, <1>3, <1>7, ThenType DEF ArmTracking
  <2> QED BY <1>7, <2>1
          DEF ArmTracking, TypeOK, DispType, OutType, ClientType, AckType, ProcType, SlotType, EventType, rendVars
<1>8. CASE DetachForRestart(t)
  <2>1. CASE attached # Self(t).gen
    <3>1. TaskType'
      BY <1>1, <1>3, <1>8, <2>1, ThenType DEF DetachForRestart
    <3> QED BY <1>8, <2>1, <3>1, TaskTypes DEF DetachForRestart, rendVars
  <2>2. CASE attached = Self(t).gen
    <3>1. Linked \in SUBSET Display
      BY DEF Linked
    <3>2. Sync(Linked) \o <<Run("finish")>> \in Seq(Sections)
      BY <1>3, <3>1, SyncType DEF SectionOps
    <3>3. TaskType'
      BY <1>1, <1>8, <2>2, <3>2, ThenType DEF DetachForRestart
    <3>4. DispType' /\ SlotType'
      BY <1>1, <1>8, <2>2, InvalidatedType, BoundFacts DEF DetachForRestart, DispType, TypeOK, SlotType
    <3> QED BY <1>8, <3>3, <3>4
            DEF DetachForRestart, TypeOK, OutType, ClientType, AckType, ProcType, EventType, ackVars
  <2> QED BY <2>1, <2>2
<1>9. CASE FinishRetainedStop(t)
  <2> DEFINE calls == IF slot.state = "Stopping" THEN <<RunOn("await", slot.gen)>> ELSE <<>>
  <2>1. calls \in Seq(Sections)
    BY <1>3, <1>4 DEF SectionOps, TypeOK, SlotType
  <2>2. TaskType'
    BY <1>1, <1>9, <2>1, ThenType DEF FinishRetainedStop
  <2> QED BY <1>9, <2>2, TaskTypes DEF FinishRetainedStop
<1>10. CASE AwaitUnbindAcks(t)
  <2>1. TaskType'
    BY <1>1, <1>2, <1>4, <1>10, ThenType DEF AwaitUnbindAcks, SectionOps
  <2> QED BY <1>10, <2>1
          DEF AwaitUnbindAcks, TypeOK, DispType, OutType, ClientType, AckType, ProcType, SlotType, EventType, rendVars
<1>11. CASE AckTimeout(t)
  <2>1. TaskType'
    BY <1>1, <1>2, <1>4, <1>11, ThenType DEF AckTimeout, SectionOps
  <2> QED BY <1>11, <2>1
          DEF AckTimeout, TypeOK, DispType, OutType, ClientType, AckType, ProcType, SlotType, EventType, rendVars
<1>12. CASE StopGeneration(t)
  <2>1. Self(t).gen \in ProcIds /\ <<Settle(Self(t).gen, "Stopped")>> \in Seq(Sections)
    BY <1>2, SectionTypes DEF Ends
  <2>2. TaskType'
    BY <1>1, <1>3, <1>12, <2>1, ThenType DEF StopGeneration
  <2>3. ProcType'
    <3>1. \A p \in Procs : [proc[p] EXCEPT !.alive = FALSE] \in Processes
      BY DEF TypeOK, ProcType, Processes
    <3> QED BY <1>12, <3>1 DEF StopGeneration, TypeOK, ProcType
  <2> QED BY <1>12, <2>2, <2>3
          DEF StopGeneration, TypeOK, DispType, OutType, ClientType, AckType, SlotType, EventType, ackVars
<1> QED BY <1>5, <1>6, <1>7, <1>8, <1>9, <1>10, <1>11, <1>12

LEMMA SettleTypes ==
    ASSUME TypeOK, NEW t \in Tasks, SettleExit(t)
    PROVE  TypeOK'
<1>1. task[t] # <<>> /\ TaskType
  BY DEF TypeOK, SettleExit, At
<1>2. CASE slot.gen # Self(t).gen \/ slot.state \in {"Stopped", "Failed"}
  <2>1. Then(t, <<>>)
    BY <1>2 DEF SettleExit
  <2>2. <<>> \in Seq(Sections)
    OBVIOUS
  <2>3. TaskType'
    BY <1>1, <2>1, <2>2, ThenType
  <2> QED BY <1>2, <2>3, TaskTypes DEF SettleExit, rendVars
<1>3. CASE ~(slot.gen # Self(t).gen \/ slot.state \in {"Stopped", "Failed"})
  <2>1. ExitSyncs \in Seq(Sections) /\ <<Run("advance")>> \in Seq(Sections)
    BY SyncType, SectionTypes DEF ExitSyncs, Linked, SectionOps
  <2>2. Tail(task[t]) \in Seq(Sections) /\ "events" \in Tasks /\ <<>> \in Seq(Sections)
    BY <1>1, TaskOf DEF TaskType
  <2>3. ExitSyncs \o <<Run("advance")>> \o Tail(task[t]) \in Seq(Sections)
    BY <2>1, <2>2
  <2>4. task' = [task EXCEPT ![t] = ExitSyncs \o <<Run("advance")>> \o Tail(task[t]), !["events"] = <<>>]
    BY <1>3 DEF SettleExit
  <2>5. TaskType'
    BY <1>1, <2>2, <2>3, <2>4 DEF TaskType
  <2>6. Self(t).cause \in States
    BY <1>1, SelfType DEF Sections, SettleExit, At, Self, Ends, States
  <2>7. slot' = [slot EXCEPT !.state = Self(t).cause] /\ attached' = 0 /\ sub' = 0 /\ events' = <<>>
    BY <1>3 DEF SettleExit
  <2>8. SlotType' /\ EventType'
    BY <1>3, <2>6, <2>7, BoundFacts DEF SettleExit, TypeOK, SlotType, EventType
  <2> QED BY <1>3, <2>5, <2>8 DEF SettleExit, TypeOK, DispType, OutType, ClientType, AckType, ProcType, ackVars
<1> QED BY <1>2, <1>3

LEMMA StartTypes ==
    ASSUME TypeOK, NEW t \in Tasks,
           \/ RequestStart(t) \/ AdvanceStart(t) \/ SpawnProcess(t) \/ AttachProcess(t)
           \/ RegisteredStopped(t) \/ SyncAttached(t)
    PROVE  TypeOK'
<1>1. task[t] # <<>> /\ TaskType /\ DispType
  BY DEF TypeOK, RequestStart, AdvanceStart, SpawnProcess, AttachProcess, RegisteredStopped, SyncAttached, At
<1>2. Self(t) \in Sections /\ Self(t).gen \in ProcIds /\ Self(t).cause \in Causes
  BY <1>1, SelfType DEF Sections, Locals
<1>3. <<>> \in Seq(Sections) /\ \A op \in SectionOps \ {"settle"} : <<Run(op)>> \in Seq(Sections)
  BY SectionTypes
<1>4. ASSUME NEW op \in SectionOps \ {"settle"}, NEW g \in ProcIds PROVE <<RunOn(op, g)>> \in Seq(Sections)
  <2>1. RunOn(op, g) \in Sections
    BY SectionTypes
  <2> QED BY <2>1
<1>5. CASE RequestStart(t)
  <2> DEFINE calls == IF Demand THEN <<Run("advance")>> ELSE <<>>
  <2>1. calls \in Seq(Sections) /\ Then(t, calls)
    BY <1>3, <1>5 DEF RequestStart, SectionOps
  <2> HIDE DEF calls
  <2>2. TaskType'
    BY <1>1, <2>1, ThenType
  <2>3. SlotType'
    BY <1>2, <1>5 DEF RequestStart, TypeOK, SlotType, Causes
  <2> QED BY <1>5, <2>2, <2>3
          DEF RequestStart, TypeOK, DispType, OutType, ClientType, AckType, ProcType, EventType, ackVars
<1>6. CASE AdvanceStart(t)
  <2>1. \/ /\ slot.gen < MaxProc
           /\ slot' = [state |-> "Starting", gen |-> slot.gen + 1, start |-> "none"]
           /\ Then(t, <<RunOn("spawn", slot.gen + 1)>>)
        \/ /\ slot' = [slot EXCEPT !.start = slot.start] \/ slot' = [slot EXCEPT !.start = "none"]
           /\ Then(t, <<>>)
    BY <1>6 DEF AdvanceStart
  <2>2. slot.gen < MaxProc => slot.gen + 1 \in ProcIds
    BY BoundFacts DEF TypeOK, SlotType, ProcIds
  <2>3. TaskType'
    <3>1. CASE Then(t, <<>>)
      BY <1>1, <1>3, <3>1, ThenType
    <3>2. CASE slot.gen < MaxProc /\ Then(t, <<RunOn("spawn", slot.gen + 1)>>)
      <4>1. <<RunOn("spawn", slot.gen + 1)>> \in Seq(Sections)
        BY <1>4, <2>2, <3>2 DEF SectionOps
      <4> QED BY <1>1, <3>2, <4>1, ThenType
    <3> QED BY <2>1, <3>1, <3>2
  <2>4. slot' \in [state : States, gen : ProcIds, start : Causes]
    BY <2>1, <2>2 DEF TypeOK, SlotType, Causes, States
  <2> QED BY <1>6, <2>3, <2>4
          DEF AdvanceStart, TypeOK, DispType, OutType, ClientType, AckType, ProcType, SlotType, EventType, ackVars
<1>7. CASE SpawnProcess(t)
  <2>1. TaskType'
    BY <1>1, <1>2, <1>4, <1>7, ThenType DEF SpawnProcess, SectionOps
  <2>2. ProcType'
    <3>1. \A p \in Procs : [proc[p] EXCEPT !.alive = TRUE] \in Processes
      BY DEF TypeOK, ProcType, Processes
    <3> QED BY <1>7, <3>1 DEF SpawnProcess, TypeOK, ProcType
  <2> QED BY <1>7, <2>1, <2>2
          DEF SpawnProcess, TypeOK, DispType, OutType, ClientType, AckType, SlotType, EventType, ackVars
<1>8. CASE AttachProcess(t)
  <2> DEFINE g == Self(t).gen
             up == <<Run("registered"), Run("attached")>> \o Renegotiate
  <2>1. up \in Seq(Sections) /\ <<RunOn("kill", g)>> \in Seq(Sections)
    BY <1>2, <1>4, SectionTypes, RenegotiateType DEF SectionOps
  <2>2. Then(t, up) \/ Then(t, <<RunOn("kill", g)>>)
    BY <1>8 DEF AttachProcess
  <2> HIDE DEF up
  <2>3. TaskType'
    BY <1>1, <2>1, <2>2, ThenType
  <2>4. SlotType' /\ EventType'
    <3>1. CASE slot.state = "Starting" /\ slot.gen = g
      <4>1. slot' = [slot EXCEPT !.state = "Running"] /\ attached' = g /\ sub' = g /\ events' = <<>>
        BY <1>8, <3>1 DEF AttachProcess
      <4> QED BY <1>2, <1>8, <4>1 DEF AttachProcess, TypeOK, SlotType, EventType, States
    <3>2. CASE ~(slot.state = "Starting" /\ slot.gen = g)
      BY <1>8, <3>2 DEF AttachProcess, TypeOK, SlotType, EventType
    <3> QED BY <3>1, <3>2
  <2> QED BY <1>8, <2>3, <2>4
          DEF AttachProcess, TypeOK, DispType, OutType, ClientType, AckType, ProcType, ackVars
<1>9. CASE RegisteredStopped(t)
  <2> DEFINE calls == IF stopped THEN <<Run("begin"), Run("finish")>> ELSE <<>>
  <2>1. calls \in Seq(Sections) /\ Then(t, calls)
    BY <1>3, <1>9, SectionTypes DEF RegisteredStopped, SectionOps
  <2> HIDE DEF calls
  <2>2. TaskType'
    BY <1>1, <2>1, ThenType
  <2> QED BY <1>9, <2>2, TaskTypes DEF RegisteredStopped
<1>10. CASE SyncAttached(t)
  <2>1. Sync(Enabled) \in Seq(Sections)
    BY SyncType DEF Enabled, Linked
  <2>2. TaskType'
    BY <1>1, <1>10, <2>1, ThenType DEF SyncAttached
  <2> QED BY <1>10, <2>2, TaskTypes DEF SyncAttached
<1> QED BY <1>5, <1>6, <1>7, <1>8, <1>9, <1>10

-----------------------------------------------------------------------------
\* A set of natural numbers has a least element
LEMMA LessThan == \A x, y \in Nat : <<y, x>> \in OpToRel(<, Nat) <=> y < x
BY DEF OpToRel

LEMMA LeastBy ==
    ASSUME NEW R, IsWellFoundedOn(R, Nat), \A x, y \in Nat : <<y, x>> \in R <=> y < x,
           NEW S \in SUBSET Nat, S # {}
    PROVE  \E x \in S : \A y \in S : x <= y
<1>1. PICK x \in S : \A y \in S : ~(<<y, x>> \in R)
  BY WFMin
<1>2. \A y \in S : ~(y < x)
  BY <1>1
<1>3. \A y \in S : x <= y
  <2> TAKE y \in S
  <2>1. x \in Nat /\ y \in Nat /\ ~(y < x)
    BY <1>2
  <2> QED BY <2>1
<1> QED BY <1>3

LEMMA Least ==
    ASSUME NEW S \in SUBSET Nat, S # {}
    PROVE  \E x \in S : \A y \in S : x <= y
<1> DEFINE R == OpToRel(<, Nat)
<1>1. IsWellFoundedOn(R, Nat)
  BY NatLessThanWellFounded
<1>2. \A x, y \in Nat : <<y, x>> \in R <=> y < x
  BY LessThan
<1> HIDE DEF R
<1> QED BY <1>1, <1>2, LeastBy

LEMMA NegotiationTypes ==
    ASSUME TypeOK, NEW t \in Tasks, PickScheme(t) \/ SendDirective(t) \/ RecordScheme(t)
    PROVE  TypeOK'
<1>1. task[t] # <<>> /\ TaskType /\ DispType
  BY DEF TypeOK, PickScheme, SendDirective, RecordScheme, At
<1>2. Self(t) \in Sections /\ Self(t).gen \in ProcIds /\ Self(t).fmt \in Fmts
  BY <1>1, SelfType DEF Sections, Locals
<1>3. <<>> \in Seq(Sections)
  OBVIOUS
<1>4. ASSUME NEW g \in ProcIds, NEW f \in Fmts
      PROVE  /\ <<[RunOn("dispatch", g) EXCEPT !.fmt = f]>> \in Seq(Sections)
             /\ <<[RunOn("record", g) EXCEPT !.fmt = f]>> \in Seq(Sections)
  <2>1. [RunOn("dispatch", g) EXCEPT !.fmt = f] \in Sections /\ [RunOn("record", g) EXCEPT !.fmt = f] \in Sections
    BY SectionTypes DEF SectionOps
  <2> QED BY <2>1
<1>5. CASE PickScheme(t)
  <2>1. CASE Then(t, <<>>)
    <3>1. TaskType'
      BY <1>1, <1>3, <2>1, ThenType
    <3> QED BY <1>5, <3>1, TaskTypes DEF PickScheme
  <2>2. CASE \E d \in Display :
               LET free == Formats \ disp[d].black
               IN  free # {} /\ Then(t, <<[RunOn("dispatch", attached) EXCEPT
                                             !.fmt = CHOOSE f \in free : \A g \in free : f <= g]>>)
    <3>1. PICK d \in Display :
               LET free == Formats \ disp[d].black
               IN  free # {} /\ Then(t, <<[RunOn("dispatch", attached) EXCEPT
                                             !.fmt = CHOOSE f \in free : \A g \in free : f <= g]>>)
      BY <2>2
    <3> DEFINE free == Formats \ disp[d].black
               best == CHOOSE f \in free : \A g \in free : f <= g
    <3>2. free \in SUBSET Nat /\ free # {} /\ free \subseteq Fmts
      BY <3>1, BoundFacts DEF Formats
    <3>3. best \in free
      <4> HIDE DEF free
      <4>1. \E f \in free : \A g \in free : f <= g
        BY <3>2, Least
      <4> QED BY <4>1
    <3>4. best \in Fmts /\ attached \in ProcIds
      BY <3>2, <3>3 DEF TypeOK, SlotType
    <3>5. Then(t, <<[RunOn("dispatch", attached) EXCEPT !.fmt = best]>>)
      BY <3>1
    <3> HIDE DEF best
    <3>6. <<[RunOn("dispatch", attached) EXCEPT !.fmt = best]>> \in Seq(Sections)
      BY <1>4, <3>4
    <3>7. TaskType'
      BY <1>1, <3>5, <3>6, ThenType
    <3> QED BY <1>5, <3>7, TaskTypes DEF PickScheme
  <2> QED BY <1>5, <2>1, <2>2 DEF PickScheme, Enabled, Linked
<1>6. CASE SendDirective(t)
  <2>1. CASE Then(t, <<>>) /\ UNCHANGED proc
    <3>1. TaskType'
      BY <1>1, <1>3, <2>1, ThenType
    <3> QED BY <1>6, <2>1, <3>1, TaskTypes DEF SendDirective, rendVars
  <2>2. ASSUME NEW p \in Procs, proc' = [proc EXCEPT ![p].asked = Self(t).fmt],
               Then(t, <<[RunOn("record", p) EXCEPT !.fmt = Self(t).fmt]>>)
        PROVE  TypeOK'
    <3>1. TaskType'
      <4>1. p \in ProcIds
        BY BoundFacts
      <4>2. <<[RunOn("record", p) EXCEPT !.fmt = Self(t).fmt]>> \in Seq(Sections)
        BY <1>2, <1>4, <4>1
      <4> QED BY <1>1, <2>2, <4>2, ThenType
    <3>2. ProcType'
      <4>1. [proc[p] EXCEPT !.asked = Self(t).fmt] \in Processes
        BY <1>2 DEF TypeOK, ProcType, Processes
      <4> QED BY <2>2, <4>1 DEF TypeOK, ProcType
    <3> QED BY <1>6, <3>1, <3>2
            DEF SendDirective, TypeOK, DispType, OutType, ClientType, AckType, SlotType, EventType, ackVars
  <2> QED BY <1>6, <2>1, <2>2 DEF SendDirective
<1>7. CASE RecordScheme(t)
  <2>1. TaskType'
    BY <1>1, <1>3, <1>7, ThenType DEF RecordScheme
  <2>2. ProcType'
    <3>1. \A p \in Procs : [proc[p] EXCEPT !.scheme = Self(t).fmt] \in Processes
      BY <1>2 DEF TypeOK, ProcType, Processes
    <3> QED BY <1>7, <3>1 DEF RecordScheme, TypeOK, ProcType
  <2> QED BY <1>7, <2>1, <2>2
          DEF RecordScheme, TypeOK, DispType, OutType, ClientType, AckType, SlotType, EventType, ackVars
<1> QED BY <1>5, <1>6, <1>7

LEMMA RendererTypes ==
    ASSUME TypeOK, NEW p \in Procs,
           ReadFormatCaps(p) \/ ReadBindBuffers(p) \/ RetireFences(p) \/ ReadFrameReady(p) \/ ProcessCrashes(p)
    PROVE  TypeOK'
<1>1. /\ proc \in [Procs -> Processes] /\ proc[p] \in Processes
      /\ events \in Seq(EventMsgs) /\ exits \in Seq(Procs \X Ends)
  BY DEF TypeOK, ProcType, EventType
<1>2. ASSUME NEW r \in Processes
      PROVE  /\ [r EXCEPT !.caps = TRUE] \in Processes
             /\ \A n \in Nat : [r EXCEPT !.pool = n] \in Processes
             /\ \A f \in Fmts : [r EXCEPT !.fmt = f] \in Processes
             /\ \A b \in BOOLEAN : [r EXCEPT !.retiring = b] \in Processes
             /\ \A b \in BOOLEAN : [r EXCEPT !.alive = b] \in Processes
             /\ \A S \in SUBSET Nat : [r EXCEPT !.fences = S] \in Processes
             /\ \A n \in Nat : [r EXCEPT !.seq = n] \in Processes
             /\ \A l \in [pool : Nat, seq : Nat] : [r EXCEPT !.latest = l] \in Processes
  BY DEF Processes
<1>3. ASSUME NEW e \in EventMsgs, Broadcast(p, e) PROVE events' \in Seq(EventMsgs)
  BY <1>1, <1>3 DEF Broadcast
<1>4. ASSUME proc' \in [Procs -> Processes], events' \in Seq(EventMsgs), exits' \in Seq(Procs \X Ends)
      PROVE  TypeOK'
  <2>1. UNCHANGED <<disp, out, client, slot, attached, sub, stopped, tracking, pending, task>>
    BY DEF ReadFormatCaps, ReadBindBuffers, RetireFences, ReadFrameReady, ProcessCrashes, ackVars
  <2>2. (DispType /\ OutType /\ ClientType)'
    BY <2>1 DEF TypeOK, DispType, OutType, ClientType
  <2>3. (AckType /\ SlotType /\ TaskType)'
    BY <2>1 DEF TypeOK, AckType, SlotType, TaskType
  <2>4. (ProcType /\ EventType)'
    BY <1>4 DEF ProcType, EventType
  <2> QED BY <2>2, <2>3, <2>4 DEF TypeOK
<1>5. CASE ReadFormatCaps(p)
  <2>1. proc' \in [Procs -> Processes]
    BY <1>1, <1>2, <1>5 DEF ReadFormatCaps
  <2>2. [kind |-> "caps", pool |-> 0, seq |-> 0] \in EventMsgs
    BY DEF EventMsgs
  <2>3. events' \in Seq(EventMsgs)
    BY <1>3, <1>5, <2>2 DEF ReadFormatCaps
  <2>4. UNCHANGED exits
    BY <1>5 DEF ReadFormatCaps
  <2> QED BY <1>1, <1>4, <2>1, <2>3, <2>4
<1>6. CASE ReadBindBuffers(p)
  <2> DEFINE r == [[[proc[p] EXCEPT !.pool = proc[p].pool + 1] EXCEPT !.fmt = proc[p].asked]
                      EXCEPT !.retiring = TRUE]
  <2>1. r \in Processes
    <3>1. proc[p].pool + 1 \in Nat /\ proc[p].asked \in Fmts
      BY <1>1 DEF Processes
    <3> QED BY <1>1, <1>2, <3>1
  <2>2. proc' = [proc EXCEPT ![p] = r]
    BY <1>1, <1>6 DEF ReadBindBuffers
  <2> HIDE DEF r
  <2>3. proc' \in [Procs -> Processes]
    BY <1>1, <2>1, <2>2
  <2>4. UNCHANGED <<events, exits>>
    BY <1>6 DEF ReadBindBuffers
  <2> QED BY <1>1, <1>4, <2>3, <2>4
<1>7. CASE RetireFences(p)
  <2> DEFINE r == [[[proc[p] EXCEPT !.retiring = FALSE] EXCEPT !.fences = {}] EXCEPT !.latest = NoFrame]
  <2>1. r \in Processes
    <3>1. NoFrame \in [pool : Nat, seq : Nat]
      BY DEF NoFrame
    <3> QED BY <1>1, <1>2, <3>1
  <2>2. proc' = [proc EXCEPT ![p] = r]
    BY <1>1, <1>7 DEF RetireFences
  <2> HIDE DEF r
  <2>3. [kind |-> "bind", pool |-> proc[p].pool, seq |-> 0] \in EventMsgs
    BY <1>1 DEF EventMsgs, Processes
  <2>4. events' \in Seq(EventMsgs)
    BY <1>3, <1>7, <2>3 DEF RetireFences
  <2>5. proc' \in [Procs -> Processes]
    BY <1>1, <2>1, <2>2
  <2>6. UNCHANGED exits
    BY <1>7 DEF RetireFences
  <2> QED BY <1>1, <1>4, <2>4, <2>5, <2>6
<1>8. CASE ReadFrameReady(p)
  <2> DEFINE s == proc[p].seq + 1
             l == [pool |-> proc[p].pool, seq |-> s]
             F == proc[p].fences \cup {s}
             r == [[[proc[p] EXCEPT !.seq = s] EXCEPT !.fences = F] EXCEPT !.latest = l]
  <2>1. s \in Nat /\ proc[p].pool \in Nat /\ F \in SUBSET Nat
    BY <1>1 DEF Processes
  <2>2. r \in Processes
    <3>1. l \in [pool : Nat, seq : Nat]
      BY <2>1
    <3> QED BY <1>1, <1>2, <2>1, <3>1
  <2>3. proc' = [proc EXCEPT ![p] = r]
    BY <1>1, <1>8 DEF ReadFrameReady
  <2>4. [kind |-> "frame", pool |-> proc[p].pool, seq |-> s] \in EventMsgs
    BY <2>1 DEF EventMsgs
  <2>5. events' \in Seq(EventMsgs)
    BY <1>3, <1>8, <2>4 DEF ReadFrameReady
  <2> HIDE DEF r
  <2>6. proc' \in [Procs -> Processes]
    BY <1>1, <2>2, <2>3
  <2>7. UNCHANGED exits
    BY <1>8 DEF ReadFrameReady
  <2> QED BY <1>1, <1>4, <2>5, <2>6, <2>7
<1>9. CASE ProcessCrashes(p)
  <2>1. proc' \in [Procs -> Processes]
    BY <1>1, <1>2, <1>9 DEF ProcessCrashes
  <2>2. PICK end \in Ends : exits' = Append(exits, <<p, end>>)
    BY <1>9 DEF ProcessCrashes, Ends
  <2>3. exits' \in Seq(Procs \X Ends)
    BY <1>1, <2>2
  <2>4. UNCHANGED events
    BY <1>9 DEF ProcessCrashes
  <2> QED BY <1>1, <1>4, <2>1, <2>3, <2>4
<1> QED BY <1>5, <1>6, <1>7, <1>8, <1>9

LEMMA ExitReceivedTypes ==
    ASSUME TypeOK, ProcessExitReceived
    PROVE  TypeOK'
<1>1. /\ exits \in Seq(Procs \X Ends) /\ exits # <<>>
  BY DEF ProcessExitReceived, TypeOK, EventType
<1>2. Head(exits) \in Procs \X Ends /\ Tail(exits) \in Seq(Procs \X Ends)
  BY <1>1
<1>3. Head(exits)[1] \in ProcIds /\ Head(exits)[2] \in Ends
  BY <1>2, BoundFacts
<1>4. <<Settle(Head(exits)[1], Head(exits)[2])>> \in Seq(Sections)
  <2>1. Settle(Head(exits)[1], Head(exits)[2]) \in Sections
    BY <1>3, SectionTypes
  <2> QED BY <2>1
<1>5. TaskType'
  BY <1>4, TaskOf, BeginsType DEF ProcessExitReceived, TypeOK
<1> QED BY <1>2, <1>5 DEF ProcessExitReceived, TypeOK, DispType, OutType, ClientType, AckType, ProcType,
           SlotType, EventType, ackVars

-----------------------------------------------------------------------------
\* What on_renderer_frame makes of a display x that takes the frame seq
Fanned(x, seq) == [x EXCEPT !.bound = [[x.bound EXCEPT !.last = seq] EXCEPT !.awaiting = FALSE]]

LEMMA FanOutIs ==
    ASSUME DispType, OutType, NEW e \in EventMsgs, FanOut(e), NEW d \in Display
    PROVE  /\ disp' = [c \in Display |-> disp'[c]] /\ out' = [c \in Display |-> out'[c]]
           /\ IF Recipient(d, e) /\ disp[d].conn = "up"
              THEN /\ disp'[d] = Fanned(disp[d], e.seq)
                   /\ out'[d] = out[d] \o <<FrameMsg(disp[d].bound.wire, attached, e.seq, disp[d].epoch)>>
              ELSE disp'[d] = disp[d] /\ out'[d] = out[d]
<1>1. disp[d] \in Displays /\ disp[d].bound \in Bindings
  BY DEF DispType, Displays
<1>2. [disp[d] EXCEPT !.bound.last = e.seq, !.bound.awaiting = FALSE] = Fanned(disp[d], e.seq)
  BY <1>1 DEF Fanned, Displays, Bindings
<1>3. disp'[d] = IF Recipient(d, e) /\ disp[d].conn = "up" THEN Fanned(disp[d], e.seq) ELSE disp[d]
  BY <1>2 DEF FanOut
<1>4. out'[d] = IF Recipient(d, e)
                THEN Send(d, <<FrameMsg(disp[d].bound.wire, attached, e.seq, disp[d].epoch)>>) ELSE out[d]
  BY DEF FanOut
<1>5. disp' = [c \in Display |-> disp'[c]] /\ out' = [c \in Display |-> out'[c]]
  BY DEF FanOut
<1> QED BY <1>3, <1>4, <1>5 DEF Send

LEMMA FannedType ==
    ASSUME NEW x \in Displays, NEW seq \in Nat
    PROVE  Fanned(x, seq) \in Displays
<1> DEFINE b == [[x.bound EXCEPT !.last = seq] EXCEPT !.awaiting = FALSE]
<1>1. b \in Bindings
  BY DEF Displays, Bindings
<1> HIDE DEF b
<1>2. [x EXCEPT !.bound = b] \in Displays
  BY <1>1, DisplayFields
<1> QED BY <1>2 DEF b, Fanned

LEMMA EventTypes ==
    ASSUME TypeOK, EventTask
    PROVE  TypeOK'
<1>1. events \in Seq(EventMsgs) /\ events # <<>> /\ "events" \in Tasks
  BY TaskOf DEF EventTask, TypeOK, EventType
<1>2. Head(events) \in EventMsgs /\ Tail(events) \in Seq(EventMsgs)
  BY <1>1
<1>3. DispType' /\ OutType' /\ TaskType'
  <2>1. CASE Head(events).kind = "frame"
    <3>1. FanOut(Head(events)) /\ UNCHANGED task
      BY <2>1 DEF EventTask
    <3>2. ASSUME NEW d \in Display PROVE disp'[d] \in Displays /\ out'[d] \in Seq(Msgs)
      <4>1. /\ Head(events).seq \in Nat /\ disp[d] \in Displays /\ out[d] \in Seq(Msgs)
            /\ disp[d].bound.wire \in Nat /\ disp[d].epoch \in Nat /\ attached \in ProcIds
        BY <1>2 DEF EventMsgs, TypeOK, DispType, OutType, SlotType, Displays, Bindings
      <4>2. Fanned(disp[d], Head(events).seq) \in Displays
        BY <4>1, FannedType
      <4>3. FrameMsg(disp[d].bound.wire, attached, Head(events).seq, disp[d].epoch) \in Msgs
        BY <4>1, MsgTypes
      <4>4. out[d] \o <<FrameMsg(disp[d].bound.wire, attached, Head(events).seq, disp[d].epoch)>> \in Seq(Msgs)
        BY <4>1, <4>3
      <4>5. IF Recipient(d, Head(events)) /\ disp[d].conn = "up"
            THEN /\ disp'[d] = Fanned(disp[d], Head(events).seq)
                 /\ out'[d] = out[d] \o <<FrameMsg(disp[d].bound.wire, attached, Head(events).seq, disp[d].epoch)>>
            ELSE disp'[d] = disp[d] /\ out'[d] = out[d]
        BY <1>2, <3>1, FanOutIs DEF TypeOK
      <4> QED BY <4>1, <4>2, <4>4, <4>5
    <3>3. disp' \in [Display -> Displays]
      BY <3>1, <3>2 DEF FanOut
    <3>4. out' \in [Display -> Seq(Msgs)]
      BY <3>1, <3>2 DEF FanOut
    <3> QED BY <3>1, <3>3, <3>4 DEF DispType, OutType, TypeOK, TaskType
  <2>2. CASE Head(events).kind = "bind"
    <3>1. Renegotiate \o Sync(Enabled) \in Seq(Sections)
      BY RenegotiateType, SyncType DEF Enabled, Linked
    <3>2. Begins("events", Renegotiate \o Sync(Enabled)) /\ UNCHANGED <<disp, out>>
      BY <2>2 DEF EventTask
    <3>3. TaskType'
      BY <1>1, <3>1, <3>2, BeginsType DEF TypeOK
    <3> QED BY <3>2, <3>3 DEF TypeOK, DispType, OutType
  <2>3. CASE Head(events).kind = "caps"
    <3>1. Begins("events", Renegotiate) /\ UNCHANGED <<disp, out>>
      BY <2>3 DEF EventTask
    <3>2. TaskType'
      BY <1>1, <3>1, BeginsType, RenegotiateType DEF TypeOK
    <3> QED BY <3>1, <3>2 DEF TypeOK, DispType, OutType
  <2> QED BY <1>2, <2>1, <2>2, <2>3 DEF EventMsgs
<1> QED BY <1>2, <1>3 DEF EventTask, TypeOK, ClientType, AckType, ProcType, SlotType, EventType, ackVars

\* The frame loop takes the first message
LEMMA ReceiveFacts ==
    ASSUME TypeOK, NEW d \in Display, Receive(d)
    PROVE  /\ out[d] \in Seq(Msgs) /\ out[d] # <<>>
           /\ Head(out[d]) \in Msgs /\ Tail(out[d]) \in Seq(Msgs)
           /\ out' = [out EXCEPT ![d] = Tail(out[d])]
           /\ out'[d] = Tail(out[d])
           /\ OutType'
<1>1. out \in [Display -> Seq(Msgs)] /\ out[d] # <<>>
  BY DEF Receive, TypeOK, OutType
<1>2. Head(out[d]) \in Msgs /\ Tail(out[d]) \in Seq(Msgs)
  BY <1>1
<1>3. out' = [out EXCEPT ![d] = Tail(out[d])]
  BY DEF Receive
<1> QED BY <1>1, <1>2, <1>3 DEF OutType

LEMMA LoopTypes ==
    ASSUME TypeOK, NEW d \in Display, SendUnbind(d) \/ SendBind(d) \/ SkipFrame(d) \/ SendFrame(d)
    PROVE  TypeOK'
<1>1. Receive(d)
  BY DEF SendUnbind, SendBind, SkipFrame, SendFrame
<1>2. OutType' /\ Head(out[d]) \in Msgs
  BY <1>1, ReceiveFacts
<1>3. /\ client \in [Display -> Clients] /\ disp \in [Display -> Displays]
      /\ client[d] \in Clients /\ disp[d] \in Displays
  BY DEF TypeOK, ClientType, DispType
<1>4. Head(out[d]).wire \in Nat
  BY <1>2 DEF Msgs
<1>5. CASE SendUnbind(d)
  <2> DEFINE U == client[d].unacked \cup {Head(out[d])}
             c == [[client[d] EXCEPT !.shown = 0] EXCEPT !.unacked = U]
  <2>1. U \in SUBSET Msgs
    BY <1>2, <1>3 DEF Clients
  <2>2. c \in Clients
    BY <1>3, <2>1 DEF Clients
  <2>3. client' = [client EXCEPT ![d] = c]
    BY <1>3, <1>5 DEF SendUnbind
  <2> HIDE DEF c
  <2>4. ClientType'
    BY <1>3, <2>2, <2>3 DEF ClientType
  <2> QED BY <1>2, <1>5, <2>4
          DEF SendUnbind, TypeOK, DispType, AckType, ProcType, SlotType, EventType, TaskType, rendVars, ackVars
<1>6. CASE SendBind(d)
  <2> DEFINE w == Head(out[d]).wire
             F == IF ops' = ops THEN client[d].fails ELSE client[d].fails \cup {w}
             c == [[client[d] EXCEPT !.shown = w] EXCEPT !.fails = F]
  <2>1. F \in SUBSET Nat
    BY <1>3, <1>4 DEF Clients
  <2>2. c \in Clients
    BY <1>3, <1>4, <2>1 DEF Clients
  <2>3. client' = [client EXCEPT ![d] = c]
    BY <1>3, <1>6 DEF SendBind
  <2> HIDE DEF c
  <2>4. ClientType'
    BY <1>3, <2>2, <2>3 DEF ClientType
  <2> QED BY <1>2, <1>6, <2>4
          DEF SendBind, TypeOK, DispType, AckType, ProcType, SlotType, EventType, TaskType, rendVars, ackVars
<1>7. CASE SkipFrame(d)
  BY <1>2, <1>7
  DEF SkipFrame, TypeOK, DispType, ClientType, AckType, ProcType, SlotType, EventType, TaskType, rendVars, ackVars
<1>8. CASE SendFrame(d)
  <2>1. [disp[d] EXCEPT !.conn = "leaving"] \in Displays
    BY <1>3, DisplayFields
  <2>2. DispType'
    BY <1>3, <1>8, <2>1 DEF SendFrame, DispType
  <2> QED BY <1>2, <1>8, <2>2
          DEF SendFrame, TypeOK, ClientType, AckType, ProcType, SlotType, EventType, TaskType, rendVars, ackVars
<1> QED BY <1>5, <1>6, <1>7, <1>8

LEMMA ClientTypes ==
    ASSUME TypeOK, NEW d \in Display, AckUnbind(d) \/ ImportFailed(d)
    PROVE  TypeOK'
<1>1. /\ client \in [Display -> Clients] /\ disp \in [Display -> Displays]
      /\ client[d] \in Clients /\ disp[d] \in Displays /\ disp[d].bound.fmt \in Fmts
  BY DEF TypeOK, ClientType, DispType, Displays, Bindings
<1>2. CASE AckUnbind(d)
  <2>1. PICK m \in client[d].unacked : /\ client' = [client EXCEPT ![d].unacked = @ \ {m}]
                                       /\ pending' = pending \ {<<d, m.wire>>}
    BY <1>2 DEF AckUnbind
  <2>2. [client[d] EXCEPT !.unacked = @ \ {m}] \in Clients
    BY <1>1 DEF Clients
  <2>3. ClientType' /\ pending' \in SUBSET (Display \X Nat)
    BY <1>1, <2>1, <2>2 DEF ClientType, TypeOK, AckType
  <2> QED BY <1>2, <2>3
          DEF AckUnbind, TypeOK, DispType, OutType, AckType, ProcType, SlotType, EventType, TaskType, rendVars
<1>3. CASE ImportFailed(d)
  <2>1. PICK w \in client[d].fails :
          /\ client' = [client EXCEPT ![d].fails = @ \ {w}]
          /\ \/ /\ disp' = [Invalidated({d}) EXCEPT ![d].failed = w,
                              ![d].black = @ \cup {disp[d].bound.fmt}]
                /\ Begins(d, Renegotiate)
             \/ UNCHANGED <<disp, task>>
    BY <1>3 DEF ImportFailed
  <2>2. [client[d] EXCEPT !.fails = @ \ {w}] \in Clients /\ w \in Nat
    BY <1>1 DEF Clients
  <2>3. ClientType'
    BY <1>1, <2>1, <2>2 DEF ClientType
  <2>4. DispType' /\ TaskType'
    <3>1. CASE /\ disp' = [Invalidated({d}) EXCEPT ![d].failed = w, ![d].black = @ \cup {disp[d].bound.fmt}]
               /\ Begins(d, Renegotiate)
      <4> DEFINE f == disp[d].bound.fmt
                 x == [[Invalidated({d})[d] EXCEPT !.failed = w] EXCEPT !.black = @ \cup {f}]
      <4>1. Invalidated({d}) \in [Display -> Displays]
        BY InvalidatedType DEF TypeOK
      <4>2. x \in Displays
        BY <1>1, <2>2, <4>1, DisplayFields
      <4>3. disp' = [Invalidated({d}) EXCEPT ![d] = x]
        BY <3>1, <4>1
      <4>4. DispType'
        BY <4>1, <4>2, <4>3 DEF DispType
      <4>5. TaskType'
        BY <3>1, TaskOf, BeginsType, RenegotiateType DEF TypeOK
      <4> QED BY <4>4, <4>5
    <3>2. CASE UNCHANGED <<disp, task>>
      BY <3>2 DEF TypeOK, DispType, TaskType
    <3> QED BY <2>1, <3>1, <3>2
  <2> QED BY <1>3, <2>3, <2>4
          DEF ImportFailed, TypeOK, OutType, AckType, ProcType, SlotType, EventType, rendVars, ackVars
<1> QED BY <1>2, <1>3

LEMMA TypeInit == Init => TypeOK
<1> SUFFICES ASSUME Init PROVE TypeOK
  OBVIOUS
<1>1. DispType
  <2>1. [conn |-> "new", link |-> "none", bound |-> NoBinding, wire |-> 0, epoch |-> 1,
         failed |-> 0, black |-> {}, paused |-> FALSE] \in Displays
    BY NoBindingType DEF Displays
  <2> QED BY <2>1 DEF Init, DispType
<1>2. OutType /\ ClientType
  <2>1. [shown |-> 0, unacked |-> {}, fails |-> {}] \in Clients
    BY DEF Clients
  <2> QED BY <2>1 DEF Init, OutType, ClientType
<1>3. ProcType
  <2>1. [alive |-> FALSE, caps |-> FALSE, asked |-> 0, scheme |-> 0, pool |-> 0, fmt |-> 0,
         retiring |-> FALSE, fences |-> {}, latest |-> NoFrame, seq |-> 0] \in Processes
    BY BoundFacts DEF Processes, NoFrame
  <2> QED BY <2>1 DEF Init, ProcType
<1>4. SlotType
  BY BoundFacts DEF Init, SlotType, States, Causes
<1>5. EventType
  BY DEF Init, EventType
<1>6. AckType
  BY DEF Init, AckType
<1>7. TaskType
  BY DEF Init, TaskType
<1> QED BY <1>1, <1>2, <1>3, <1>4, <1>5, <1>6, <1>7 DEF TypeOK

LEMMA TypeNext == TypeOK /\ [Next]_vars => TypeOK'
<1> SUFFICES ASSUME TypeOK, [Next]_vars PROVE TypeOK'
  OBVIOUS
<1>1. CASE \E t \in Tasks : Section(t)
  BY <1>1, SyncOneTypes, StopTypes, SettleTypes, StartTypes, NegotiationTypes DEF Section
<1>2. CASE \E t \in Ctl : Requests(t)
  BY <1>2, CtlTypes DEF Requests
<1>3. CASE \E p \in Procs : Renderer(p) \/ ProcessCrashes(p)
  BY <1>3, RendererTypes DEF Renderer
<1>4. CASE \E d \in Display : Session(d) \/ ClientLeaves(d)
  BY <1>4, SessionTypes, LoopTypes, ClientTypes DEF Session
<1>5. CASE ProcessExitReceived \/ EventTask
  BY <1>5, ExitReceivedTypes, EventTypes
<1>6. CASE UNCHANGED vars
  BY <1>6 DEF vars, TypeOK, DispType, OutType, ClientType, AckType, ProcType, SlotType, EventType, TaskType,
              rendVars, ackVars
<1> QED BY <1>1, <1>2, <1>3, <1>4, <1>5, <1>6 DEF Next, Rest

-----------------------------------------------------------------------------
(* The stream of one display. *)

\* Frames of earlier epochs and wire generations
Old(o, e, w) == \A i \in 1 .. Len(o) : o[i].kind = "frame" => o[i].epoch < e /\ o[i].wire < w

\* The link, the black list, a failure, the pause: what invalidates the permits under way
LEMMA BumpFits ==
    ASSUME NEW x \in Displays, NEW y \in Displays, NEW o \in Seq(Msgs), NEW s \in Nat,
           StreamFits(x, o, s), y.epoch > x.epoch, y.wire = x.wire, y.bound = x.bound, y.conn = x.conn
    PROVE  StreamFits(y, o, s)
<1>1. ASSUME NEW i \in 1 .. Len(o)
      PROVE  o[i].epoch < y.epoch /\ o[i].wire <= y.wire
  <2>1. o[i] \in Msgs /\ o[i].epoch <= x.epoch /\ o[i].wire <= x.wire
    BY DEF StreamFits, Dated
  <2>2. o[i].epoch \in Nat /\ x.epoch \in Nat /\ y.epoch \in Nat
    BY <2>1 DEF Msgs, Displays
  <2> QED BY <2>1, <2>2
<1>2. ASSUME NEW i \in 1 .. Len(o) PROVE o[i].epoch \in Nat /\ y.epoch \in Nat
  <2>1. o[i] \in Msgs
    OBVIOUS
  <2> QED BY <2>1 DEF Msgs, Displays
<1>3. Dated(y, o)
  BY <1>1, <1>2 DEF StreamFits, Dated
<1>4. \A i \in 1 .. Len(o) : Permits(y, o[i])
  BY <1>1, <1>2 DEF Permits
<1>5. Fresh(y, o, s) /\ Chained(y, o, s) /\ Ordered(y, o)
  BY DEF StreamFits, Fresh, Chained, Ordered
<1> QED BY <1>3, <1>4, <1>5 DEF StreamFits

\* A display that leaves, and one that is gone
LEMMA LeaveFits ==
    ASSUME NEW x \in Displays, NEW o \in Seq(Msgs), NEW s \in Nat, NEW t \in Nat, StreamFits(x, o, s)
    PROVE  StreamFits([x EXCEPT !.conn = "leaving"], o, t)
<1> DEFINE y == [x EXCEPT !.conn = "leaving"]
<1>1. /\ y.conn = "leaving" /\ y.bound = x.bound /\ y.wire = x.wire /\ y.epoch = x.epoch
      /\ y.link = x.link /\ y.failed = x.failed
  BY DEF Displays
<1> HIDE DEF y
<1>2. StreamFits(y, o, t)
  BY <1>1 DEF StreamFits, Dated, Fresh, Chained, Ordered, Permits
<1> QED BY <1>2 DEF y

LEMMA EmptyFits ==
    ASSUME NEW x \in Displays, x.bound = NoBinding, NEW s \in Nat, s = 0
    PROVE  StreamFits(x, <<>>, s)
<1>1. NoBinding.wire = 0
  BY DEF NoBinding
<1> QED BY <1>1 DEF StreamFits, Dated, Fresh, Chained, Ordered, Before, Displays

\* The frame loop takes the first message, which changes what the client is shown
LEMMA TailFits ==
    ASSUME NEW x \in Displays, NEW o \in Seq(Msgs), NEW s \in Nat, StreamFits(x, o, s),
           o # <<>>, x.conn = "up"
    PROVE  StreamFits(x, Tail(o), After(o[1]))
<1> DEFINE p == Tail(o)
           z == After(o[1])
<1>1. Len(o) \in Nat /\ Len(o) > 0 /\ Len(p) = Len(o) - 1 /\ p \in Seq(Msgs)
  OBVIOUS
<1>2. \A i \in 1 .. Len(p) : p[i] = o[i + 1] /\ i + 1 \in 1 .. Len(o)
  BY <1>1
<1> HIDE DEF p
<1>3. Dated(x, p)
  BY <1>1, <1>2 DEF StreamFits, Dated
<1>4. \A i \in 1 .. Len(p) : Permits(x, p[i])
  BY <1>1, <1>2 DEF StreamFits
<1>5. Ordered(x, p)
  <2>1. \A i, j \in 1 .. Len(p) : i < j => i + 1 < j + 1
    BY <1>1
  <2> QED BY <1>1, <1>2, <2>1 DEF StreamFits, Ordered
<1>6. \A i \in 1 .. Len(p) + 1 : Before(p, z, i) = Before(o, s, i + 1)
  <2> TAKE i \in 1 .. Len(p) + 1
  <2>1. CASE i = 1
    BY <2>1 DEF Before
  <2>2. CASE i # 1
    <3>1. i - 1 \in 1 .. Len(p) /\ i + 1 # 1 /\ (i + 1) - 1 = i /\ (i - 1) + 1 = i
      BY <1>1, <2>2
    <3>2. p[i - 1] = o[i]
      BY <1>2, <3>1
    <3> QED BY <2>2, <3>1, <3>2 DEF Before
  <2> QED BY <2>1, <2>2
<1>7. Chained(x, p, z)
  <2>1. \A i \in 1 .. Len(p) : Before(p, z, i) = IF p[i].kind = "bind" THEN 0 ELSE p[i].wire
    <3> TAKE i \in 1 .. Len(p)
    <3>1. i \in 1 .. Len(p) + 1 /\ i + 1 \in 1 .. Len(o) /\ p[i] = o[i + 1]
      BY <1>1, <1>2
    <3> QED BY <1>6, <3>1 DEF StreamFits, Chained
  <2>2. x.bound.wire = Before(p, z, Len(p) + 1)
    <3>1. Len(p) + 1 \in 1 .. Len(p) + 1 /\ Len(p) + 1 = Len(o)
      BY <1>1
    <3>2. Before(p, z, Len(p) + 1) = Before(o, s, Len(o) + 1)
      BY <1>6, <3>1
    <3> QED BY <3>2 DEF StreamFits, Chained
  <2> QED BY <2>1, <2>2 DEF Chained
<1>8. Fresh(x, p, z)
  BY DEF Fresh
<1> QED BY <1>3, <1>4, <1>5, <1>7, <1>8 DEF StreamFits, p

\* The router appends one message, and makes y of the display x
LEMMA AppendFits ==
    ASSUME NEW x \in Displays, NEW y \in Displays, NEW o \in Seq(Msgs), NEW s \in Nat, NEW m \in Msgs,
           StreamFits(x, o, s), x.conn = "up", y.conn = "up",
           y.epoch >= x.epoch, y.wire >= x.wire, m.epoch <= y.epoch, m.wire <= y.wire,
           x.bound.wire = (IF m.kind = "bind" THEN 0 ELSE m.wire), y.bound.wire = After(m),
           \A i \in 1 .. Len(o) : Permits(y, o[i]), Permits(y, m),
           \A i \in 1 .. Len(o) : o[i].kind = "frame" /\ m.kind = "frame" /\ o[i].wire = m.wire => o[i].seq < m.seq,
           \A i \in 1 .. Len(o) : o[i].kind = "frame" /\ o[i].wire = y.bound.wire /\ y.bound # NoBinding
                                    => o[i].seq <= y.bound.last,
           m.kind = "frame" => m.seq <= y.bound.last
    PROVE  StreamFits(y, Append(o, m), s)
<1> DEFINE p == Append(o, m)
<1>1. Len(o) \in Nat /\ Len(p) = Len(o) + 1 /\ p[Len(o) + 1] = m /\ \A i \in 1 .. Len(o) : p[i] = o[i]
  OBVIOUS
<1>2. \A i \in 1 .. Len(p) : i \in 1 .. Len(o) \/ i = Len(o) + 1
  BY <1>1
<1>3. p \in Seq(Msgs)
  OBVIOUS
<1> HIDE DEF p
<1>4. Dated(y, p)
  <2>1. y.bound.wire <= y.wire
    BY DEF After, Msgs, Displays
  <2>2. \A i \in 1 .. Len(o) : o[i].epoch <= y.epoch /\ o[i].wire <= y.wire
    <3> TAKE i \in 1 .. Len(o)
    <3>1. o[i].epoch <= x.epoch /\ o[i].wire <= x.wire /\ o[i] \in Msgs
      BY DEF StreamFits, Dated
    <3>2. /\ o[i].epoch \in Nat /\ o[i].wire \in Nat
          /\ x.epoch \in Nat /\ y.epoch \in Nat /\ x.wire \in Nat /\ y.wire \in Nat
      BY <3>1 DEF Msgs, Displays
    <3> QED BY <3>1, <3>2
  <2> QED BY <1>1, <1>2, <2>1, <2>2 DEF Dated
<1>5. \A i \in 1 .. Len(p) : Permits(y, p[i])
  BY <1>1, <1>2
<1>6. Fresh(y, p, s)
  BY DEF Fresh
<1>7. Ordered(y, p)
  <2>1. ASSUME NEW i \in 1 .. Len(p), NEW j \in 1 .. Len(p), i < j, p[i].kind = "frame", p[j].kind = "frame",
               p[i].wire = p[j].wire
        PROVE  p[i].seq < p[j].seq
    <3>1. i \in 1 .. Len(o)
      BY <1>1, <1>2, <2>1
    <3>2. CASE j \in 1 .. Len(o)
      BY <1>1, <2>1, <3>1, <3>2 DEF StreamFits, Ordered
    <3>3. CASE j = Len(o) + 1
      BY <1>1, <2>1, <3>1, <3>3
    <3> QED BY <1>2, <3>2, <3>3
  <2>2. ASSUME NEW i \in 1 .. Len(p), p[i].kind = "frame", p[i].wire = y.bound.wire, y.bound # NoBinding
        PROVE  p[i].seq <= y.bound.last
    BY <1>1, <1>2, <2>2
  <2> QED BY <2>1, <2>2 DEF Ordered
<1>8. \A i \in 1 .. Len(o) + 1 : Before(p, s, i) = Before(o, s, i)
  <2> TAKE i \in 1 .. Len(o) + 1
  <2>1. i # 1 => i - 1 \in 1 .. Len(o)
    BY <1>1
  <2> QED BY <1>1, <2>1 DEF Before
<1>9. Chained(y, p, s)
  <2>1. ASSUME NEW i \in 1 .. Len(p)
        PROVE  Before(p, s, i) = IF p[i].kind = "bind" THEN 0 ELSE p[i].wire
    <3>1. i \in 1 .. Len(o) + 1
      BY <1>1
    <3>2. CASE i \in 1 .. Len(o)
      BY <1>1, <1>8, <3>1, <3>2 DEF StreamFits, Chained
    <3>3. CASE i = Len(o) + 1
      <4>1. Before(o, s, i) = x.bound.wire
        BY <3>3 DEF StreamFits, Chained
      <4> QED BY <1>1, <1>8, <3>1, <3>3, <4>1
    <3> QED BY <1>2, <3>2, <3>3
  <2>2. y.bound.wire = Before(p, s, Len(p) + 1)
    <3>1. Len(p) + 1 # 1 /\ (Len(p) + 1) - 1 = Len(o) + 1
      BY <1>1
    <3> QED BY <1>1, <3>1 DEF Before
  <2> QED BY <2>1, <2>2 DEF Chained
<1> QED BY <1>4, <1>5, <1>6, <1>7, <1>9 DEF StreamFits, p

\* One message more
LEMMA AppendIs == \A o \in Seq(Msgs), m \in Msgs : o \o <<m>> = Append(o, m) /\ Append(o, m) \in Seq(Msgs)
OBVIOUS

LEMMA OldGrows ==
    ASSUME NEW o \in Seq(Msgs), NEW m \in Msgs, NEW e, NEW w, Old(o, e, w), m.kind # "frame"
    PROVE  Old(Append(o, m), e, w)
<1>1. /\ Len(Append(o, m)) = Len(o) + 1 /\ Append(o, m)[Len(o) + 1] = m
      /\ \A i \in 1 .. Len(o) : Append(o, m)[i] = o[i]
      /\ \A i \in 1 .. Len(o) + 1 : i \in 1 .. Len(o) \/ i = Len(o) + 1
  OBVIOUS
<1> QED BY <1>1 DEF Old

\* What a display was sent before lies in the past of its next epoch
LEMMA OldNow ==
    ASSUME NEW x \in Displays, NEW o \in Seq(Msgs), Dated(x, o)
    PROVE  Old(o, x.epoch + 1, x.wire + 1)
<1> SUFFICES ASSUME NEW i \in 1 .. Len(o) PROVE o[i].epoch < x.epoch + 1 /\ o[i].wire < x.wire + 1
  BY DEF Old
<1>1. o[i] \in Msgs /\ o[i].epoch <= x.epoch /\ o[i].wire <= x.wire
  BY DEF Dated
<1>2. o[i].epoch \in Nat /\ o[i].wire \in Nat /\ x.epoch \in Nat /\ x.wire \in Nat
  BY <1>1 DEF Msgs, Displays
<1> QED BY <1>1, <1>2

\* ... where no permit is current, and no frame is of the next binding
LEMMA OldFacts ==
    ASSUME NEW y \in Displays, NEW o \in Seq(Msgs), NEW w \in Nat, Old(o, y.epoch, w)
    PROVE  \A i \in 1 .. Len(o) : /\ Permits(y, o[i])
                                  /\ o[i].kind = "frame" => o[i].wire # w
<1> TAKE i \in 1 .. Len(o)
<1>1. o[i] \in Msgs
  OBVIOUS
<1>2. o[i].epoch \in Nat /\ o[i].wire \in Nat /\ y.epoch \in Nat
  BY <1>1 DEF Msgs, Displays
<1>3. o[i].kind = "frame" => o[i].epoch # y.epoch /\ o[i].wire # w
  BY <1>2 DEF Old
<1> QED BY <1>3 DEF Permits

LEMMA BroughtFields ==
    ASSUME NEW x \in Displays, NEW target \in ProcIds, NEW b, target # 0 => b \in Bindings
    PROVE  LET y == Brought(x, target, b)
           IN  /\ y \in Displays /\ y.epoch = x.epoch + 1 /\ y.conn = x.conn /\ y.link = x.link
               /\ IF target = 0 THEN y.bound = NoBinding /\ y.wire = x.wire
                                ELSE y.bound = b /\ y.wire = x.wire + 1 /\ y.failed = 0
BY BroughtType DEF Brought, Displays

\* The old binding ends: its unbind is sent, and the permits of its frames are void
LEMMA UnbindFits ==
    ASSUME NEW x \in Displays, NEW o \in Seq(Msgs), NEW s \in Nat, StreamFits(x, o, s), x.conn = "up"
    PROVE  LET p == IF x.bound = NoBinding THEN o ELSE Append(o, UnbindMsg(x.bound))
           IN  /\ p \in Seq(Msgs)
               /\ StreamFits(Brought(x, 0, NoBinding), p, s)
               /\ Old(p, x.epoch + 1, x.wire + 1)
<1> DEFINE y == Brought(x, 0, NoBinding)
           m == UnbindMsg(x.bound)
<1>1. /\ y \in Displays /\ y.epoch = x.epoch + 1 /\ y.conn = x.conn /\ y.link = x.link
      /\ y.bound = NoBinding /\ y.wire = x.wire
  BY BroughtFields, BoundFacts
<1>2. x.epoch \in Nat /\ x.wire \in Nat /\ x.bound \in Bindings
  BY DEF Displays
<1>3. Old(o, x.epoch + 1, x.wire + 1)
  BY OldNow DEF StreamFits
<1>4. NoBinding.wire = 0
  BY DEF NoBinding
<1> HIDE DEF y
<1>5. CASE x.bound = NoBinding
  <2>1. StreamFits(y, o, s)
    BY <1>1, <1>2, <1>5, BumpFits
  <2> QED BY <1>3, <1>5, <2>1 DEF y
<1>6. CASE x.bound # NoBinding
  <2>1. m \in Msgs /\ m.kind = "unbind" /\ m.wire = x.bound.wire /\ m.epoch = 0
    BY <1>2, MsgTypes DEF UnbindMsg
  <2>2. m.wire <= y.wire /\ m.epoch <= y.epoch /\ y.epoch >= x.epoch /\ y.wire >= x.wire
    BY <1>1, <1>2, <2>1 DEF StreamFits, Dated
  <2> HIDE DEF m
  <2>3. \A i \in 1 .. Len(o) : Permits(y, o[i])
    <3>1. x.wire + 1 \in Nat /\ Old(o, y.epoch, x.wire + 1)
      BY <1>1, <1>2, <1>3
    <3> QED BY <1>1, <3>1, OldFacts
  <2>4. Permits(y, m)
    BY <2>1 DEF Permits
  <2>5. y.bound.wire = After(m)
    BY <1>1, <1>4, <2>1 DEF After
  <2>6. StreamFits(y, Append(o, m), s)
    BY <1>1, <2>1, <2>2, <2>3, <2>4, <2>5, AppendFits
  <2>7. Old(Append(o, m), x.epoch + 1, x.wire + 1)
    BY <1>3, <2>1, OldGrows
  <2> QED BY <1>6, <2>1, <2>6, <2>7 DEF m, y
<1> QED BY <1>5, <1>6

\* The pool of the target is announced, under a wire generation of its own
LEMMA BindFits ==
    ASSUME NEW x \in Displays, x.conn = "up", NEW o \in Seq(Msgs), NEW s \in Nat,
           StreamFits(Brought(x, 0, NoBinding), o, s), Old(o, x.epoch + 1, x.wire + 1),
           NEW target \in ProcIds, target # 0, NEW b \in Bindings, b.wire = x.wire + 1
    PROVE  LET p == Append(o, BindMsg(x.wire + 1, target))
           IN  /\ p \in Seq(Msgs)
               /\ StreamFits(Brought(x, target, b), p, s)
               /\ Old(p, x.epoch + 1, x.wire + 1)
<1> DEFINE u == Brought(x, 0, NoBinding)
           y == Brought(x, target, b)
           m == BindMsg(x.wire + 1, target)
<1>1. /\ u \in Displays /\ u.epoch = x.epoch + 1 /\ u.conn = x.conn /\ u.bound = NoBinding /\ u.wire = x.wire
      /\ y \in Displays /\ y.epoch = x.epoch + 1 /\ y.conn = x.conn /\ y.bound = b /\ y.wire = x.wire + 1
  BY BroughtFields, BoundFacts
<1>2. x.epoch \in Nat /\ x.wire \in Nat /\ x.wire + 1 \in Nat
  BY DEF Displays
<1>3. m \in Msgs /\ m.kind = "bind" /\ m.wire = x.wire + 1 /\ m.epoch = 0
  BY <1>2, MsgTypes DEF BindMsg
<1>4. NoBinding.wire = 0
  BY DEF NoBinding
<1> HIDE DEF u, y, m
<1>5. /\ u.bound.wire = 0 /\ y.bound.wire = After(m)
      /\ y.epoch >= u.epoch /\ y.wire >= u.wire /\ m.epoch <= y.epoch /\ m.wire <= y.wire
  BY <1>1, <1>2, <1>3, <1>4 DEF After
<1>6. \A i \in 1 .. Len(o) : Permits(y, o[i]) /\ (o[i].kind = "frame" => o[i].wire # x.wire + 1)
  BY <1>1, <1>2, OldFacts
<1>7. Permits(y, m)
  BY <1>3 DEF Permits
<1>8. StreamFits(u, o, s)
  BY DEF u
<1>9. StreamFits(y, Append(o, m), s)
  BY <1>1, <1>3, <1>5, <1>6, <1>7, <1>8, AppendFits
<1>10. Old(Append(o, m), x.epoch + 1, x.wire + 1)
  BY <1>3, OldGrows
<1> QED BY <1>3, <1>9, <1>10 DEF m, y

\* The last frame is sent again to the new binding
LEMMA ReplayFits ==
    ASSUME NEW x \in Displays, x.conn = "up", x.link = "on", NEW o \in Seq(Msgs), NEW s \in Nat,
           NEW target \in ProcIds, target # 0, NEW a \in Bindings, NEW b \in Bindings,
           StreamFits(Brought(x, target, a), o, s), Old(o, x.epoch + 1, x.wire + 1),
           a.wire = x.wire + 1, b.wire = x.wire + 1, b.proc = target, NEW seq \in Nat, b.last = seq
    PROVE  StreamFits(Brought(x, target, b), Append(o, FrameMsg(x.wire + 1, target, seq, x.epoch + 1)), s)
<1> DEFINE u == Brought(x, target, a)
           y == Brought(x, target, b)
           m == FrameMsg(x.wire + 1, target, seq, x.epoch + 1)
<1>1. /\ u \in Displays /\ u.epoch = x.epoch + 1 /\ u.conn = x.conn /\ u.bound = a /\ u.wire = x.wire + 1
      /\ y \in Displays /\ y.epoch = x.epoch + 1 /\ y.conn = x.conn /\ y.bound = b /\ y.wire = x.wire + 1
      /\ y.link = "on" /\ y.failed = 0
  BY BroughtFields
<1>2. x.epoch \in Nat /\ x.wire \in Nat /\ x.wire + 1 \in Nat /\ x.epoch + 1 \in Nat /\ x.wire + 1 # 0
  BY DEF Displays
<1>3. m \in Msgs /\ m.kind = "frame" /\ m.wire = x.wire + 1 /\ m.epoch = x.epoch + 1 /\ m.seq = seq /\ m.proc = target
  BY <1>2, MsgTypes DEF FrameMsg
<1> HIDE DEF u, y, m
<1>4. /\ u.bound.wire = m.wire /\ y.bound.wire = After(m)
      /\ y.epoch >= u.epoch /\ y.wire >= u.wire /\ m.epoch <= y.epoch /\ m.wire <= y.wire /\ m.seq <= y.bound.last
  BY <1>1, <1>2, <1>3 DEF After
<1>5. \A i \in 1 .. Len(o) : Permits(y, o[i]) /\ (o[i].kind = "frame" => o[i].wire # x.wire + 1)
  BY <1>1, <1>2, OldFacts
<1>6. Permits(y, m)
  BY <1>1, <1>2, <1>3 DEF Permits
<1>7. StreamFits(u, o, s)
  BY DEF u
<1>8. \A i \in 1 .. Len(o) : o[i].kind = "frame" => o[i].wire # m.wire /\ o[i].wire # y.bound.wire
  BY <1>1, <1>3, <1>5
<1>9. StreamFits(y, Append(o, m), s)
  BY <1>1, <1>3, <1>4, <1>5, <1>6, <1>7, <1>8, AppendFits
<1> QED BY <1>9 DEF m, y

\* sync_display of a display that is leaving: nothing is sent any more
LEMMA LeavingFits ==
    ASSUME NEW x \in Displays, x.conn = "leaving", NEW o \in Seq(Msgs), NEW s \in Nat, StreamFits(x, o, s),
           NEW target \in ProcIds, NEW b, target # 0 => b \in Bindings /\ b.wire = x.wire + 1
    PROVE  StreamFits(Brought(x, target, b), o, s)
<1> DEFINE y == Brought(x, target, b)
<1>1. /\ y \in Displays /\ y.epoch = x.epoch + 1 /\ y.conn = "leaving"
      /\ IF target = 0 THEN y.bound = NoBinding /\ y.wire = x.wire
                       ELSE y.bound = b /\ y.wire = x.wire + 1 /\ y.failed = 0
  BY BroughtFields
<1>2. x.epoch \in Nat /\ x.wire \in Nat /\ x.wire + 1 \in Nat
  BY DEF Displays
<1>3. Old(o, x.epoch + 1, x.wire + 1)
  BY OldNow DEF StreamFits
<1>4. NoBinding.wire = 0
  BY DEF NoBinding
<1> HIDE DEF y
<1>5. \A i \in 1 .. Len(o) : Permits(y, o[i]) /\ (o[i].kind = "frame" => o[i].wire # x.wire + 1)
  BY <1>1, <1>2, <1>3, OldFacts
<1>6. Dated(y, o)
  <2>1. ASSUME NEW i \in 1 .. Len(o) PROVE o[i].epoch <= y.epoch /\ o[i].wire <= y.wire
    <3>1. o[i] \in Msgs /\ o[i].epoch <= x.epoch /\ o[i].wire <= x.wire
      BY DEF StreamFits, Dated
    <3>2. o[i].epoch \in Nat /\ o[i].wire \in Nat
      BY <3>1 DEF Msgs
    <3> QED BY <1>1, <1>2, <3>1, <3>2
  <2>2. y.bound.wire <= y.wire
    BY <1>1, <1>2, <1>4
  <2> QED BY <2>1, <2>2 DEF Dated
<1>7. Fresh(y, o, s) /\ Chained(y, o, s)
  BY <1>1 DEF Fresh, Chained
<1>8. Ordered(y, o)
  <2>1. y.bound # NoBinding => y.bound.wire = x.wire + 1
    BY <1>1
  <2> QED BY <1>5, <2>1 DEF StreamFits, Ordered
<1> QED BY <1>5, <1>6, <1>7, <1>8 DEF StreamFits, y

\* sync_display decides, unbinds, binds and replays: the stream still fits
LEMMA BringFits ==
    ASSUME TypeOK, NEW d \in Display, StreamFits(disp[d], out[d], client[d].shown), Up(d),
           NEW target \in ProcIds, target # 0 => target \in Procs /\ disp[d].link = "on", Bring(d, target)
    PROVE  StreamFits(disp'[d], out'[d], client[d].shown)
<1> DEFINE x == disp[d]
           o == out[d]
           s == client[d].shown
           seq == Replay(target)
<1>1. x \in Displays /\ o \in Seq(Msgs) /\ s \in Nat
  BY DEF TypeOK, DispType, OutType, ClientType, Clients
<1>2. PICK b : /\ target # 0 => b = Bound(x, target, proc[target].pool, proc[target].fmt, seq)
               /\ disp' = [disp EXCEPT ![d] = Brought(x, target, b)]
               /\ out' = [out EXCEPT ![d] = Send(d, Told(x, target, seq))]
  BY BringIs DEF TypeOK
<1>3. disp'[d] = Brought(x, target, b) /\ out'[d] = Send(d, Told(x, target, seq))
  BY <1>2 DEF TypeOK, DispType, OutType
<1>4. /\ target # 0 => seq \in Nat /\ b \in Bindings /\ b.wire = x.wire + 1 /\ b.proc = target
                       /\ b.last = IF seq # 0 /\ x.conn = "up" THEN seq ELSE 0
  <2> SUFFICES ASSUME target # 0 PROVE /\ seq \in Nat /\ b \in Bindings /\ b.wire = x.wire + 1 /\ b.proc = target
                                       /\ b.last = IF seq # 0 /\ x.conn = "up" THEN seq ELSE 0
    OBVIOUS
  <2>1. seq \in Nat /\ proc[target].pool \in Nat /\ proc[target].fmt \in Fmts
    BY ReplayType DEF TypeOK, ProcType, Processes
  <2>2. b \in Bindings
    BY <1>1, <1>2, <2>1, BoundType
  <2> QED BY <1>2, <2>1, <2>2 DEF Bound
<1>5. StreamFits(x, o, s) /\ (x.conn = "up" \/ x.conn = "leaving") /\ (target # 0 => x.link = "on")
  BY DEF Up
<1>6. CASE x.conn = "leaving"
  <2>1. out'[d] = o
    BY <1>3, <1>6 DEF Send
  <2> HIDE DEF x, o, s, seq
  <2>2. StreamFits(Brought(x, target, b), o, s)
    BY <1>1, <1>4, <1>5, <1>6, LeavingFits
  <2> QED BY <1>3, <2>1, <2>2 DEF s
<1>7. CASE x.conn = "up"
  <2>1. out'[d] = o \o Told(x, target, seq)
    BY <1>3, <1>7 DEF Send
  <2> HIDE DEF x, o, s, seq
  <2> DEFINE U == IF x.bound = NoBinding THEN <<>> ELSE <<UnbindMsg(x.bound)>>
             p == IF x.bound = NoBinding THEN o ELSE Append(o, UnbindMsg(x.bound))
             B == BindMsg(x.wire + 1, target)
             F == FrameMsg(x.wire + 1, target, seq, x.epoch + 1)
             q == Append(p, B)
  <2>2. /\ p \in Seq(Msgs) /\ StreamFits(Brought(x, 0, NoBinding), p, s) /\ Old(p, x.epoch + 1, x.wire + 1)
    BY <1>1, <1>5, <1>7, UnbindFits
  <2>3. U \in Seq(Msgs) /\ o \o U = p
    <3>1. CASE x.bound = NoBinding
      BY <1>1, <3>1
    <3>2. CASE x.bound # NoBinding
      <4>1. UnbindMsg(x.bound) \in Msgs
        BY <1>1, MsgTypes DEF Displays
      <4> QED BY <1>1, <3>2, <4>1, AppendIs
    <3> QED BY <3>1, <3>2
  <2> HIDE DEF U, p
  <2>4. CASE target = 0
    <3>1. Told(x, target, seq) = U \o <<>>
      BY <2>4 DEF Told, U
    <3>2. U \o <<>> = U
      BY <2>3
    <3>3. Brought(x, target, b) = Brought(x, 0, NoBinding)
      BY <2>4 DEF Brought
    <3> QED BY <1>3, <2>1, <2>2, <2>3, <3>1, <3>2, <3>3 DEF s
  <2>5. CASE target # 0
    <3>1. B \in Msgs
      <4>1. x.wire + 1 \in Nat
        BY <1>1 DEF Displays
      <4> QED BY <4>1, MsgTypes
    <3>2. seq # 0 => F \in Msgs
      <4>1. x.wire + 1 \in Nat /\ x.epoch + 1 \in Nat
        BY <1>1 DEF Displays
      <4> QED BY <1>4, <2>5, <4>1, MsgTypes
    <3>3. Told(x, target, seq) = U \o (<<B>> \o (IF seq = 0 THEN <<>> ELSE <<F>>))
      BY <2>5 DEF Told, U
    <3>4. \A c \in Bindings : c.wire = x.wire + 1 =>
            q \in Seq(Msgs) /\ StreamFits(Brought(x, target, c), q, s) /\ Old(q, x.epoch + 1, x.wire + 1)
      BY <1>1, <1>7, <2>2, <2>5, BindFits
    <3> HIDE DEF B, F
    <3>5. CASE seq = 0
      <4>1. out'[d] = q
        <5>1. Told(x, target, seq) = U \o (<<B>> \o <<>>)
          BY <3>3, <3>5
        <5>2. <<B>> \o <<>> = <<B>> /\ o \o (U \o <<B>>) = (o \o U) \o <<B>>
          <6>1. o \in Seq(Msgs) /\ U \in Seq(Msgs) /\ <<B>> \in Seq(Msgs)
            BY <1>1, <2>3, <3>1
          <6>2. <<B>> \o <<>> = <<B>>
            BY <6>1
          <6> QED BY <6>1, <6>2, ConcatAssociative
        <5>3. p \o <<B>> = q
          BY <2>2, <3>1, AppendIs
        <5> QED BY <2>1, <2>3, <5>1, <5>2, <5>3
      <4> QED BY <1>3, <1>4, <2>5, <3>4, <4>1 DEF s
    <3>6. CASE seq # 0
      <4>1. F \in Msgs
        BY <3>2, <3>6
      <4>2. q \in Seq(Msgs) /\ Old(q, x.epoch + 1, x.wire + 1)
        BY <1>4, <2>5, <3>4
      <4>3. out'[d] = Append(q, F)
        <5>1. Told(x, target, seq) = U \o (<<B>> \o <<F>>)
          BY <3>3, <3>6
        <5>2. o \o (U \o (<<B>> \o <<F>>)) = (o \o U) \o (<<B>> \o <<F>>)
          <6>1. o \in Seq(Msgs) /\ U \in Seq(Msgs) /\ <<B>> \o <<F>> \in Seq(Msgs)
            BY <1>1, <2>3, <3>1, <4>1
          <6> QED BY <6>1, ConcatAssociative
        <5>3. p \o (<<B>> \o <<F>>) = (p \o <<B>>) \o <<F>>
          <6>1. <<B>> \in Seq(Msgs) /\ <<F>> \in Seq(Msgs)
            BY <3>1, <4>1
          <6> QED BY <2>2, <6>1, ConcatAssociative
        <5>4. p \o <<B>> = q /\ q \o <<F>> = Append(q, F)
          BY <2>2, <3>1, <4>1, <4>2, AppendIs
        <5> QED BY <2>1, <2>3, <5>1, <5>2, <5>3, <5>4
      <4>4. b \in Bindings /\ b.wire = x.wire + 1 /\ b.proc = target /\ b.last = seq /\ seq \in Nat /\ x.link = "on"
        BY <1>4, <1>5, <1>7, <2>5, <3>6
      <4>5. StreamFits(Brought(x, target, b), q, s)
        BY <3>4, <4>4
      <4>6. StreamFits(Brought(x, target, b), Append(q, F), s)
        BY <1>1, <1>7, <2>5, <4>2, <4>4, <4>5, ReplayFits DEF F
      <4> QED BY <1>3, <4>3, <4>6 DEF s
    <3> QED BY <3>5, <3>6
  <2> QED BY <2>4, <2>5
<1> QED BY <1>5, <1>6, <1>7

\* on_renderer_frame sends a frame to a display that takes it
LEMMA FannedFits ==
    ASSUME NEW x \in Displays, NEW o \in Seq(Msgs), NEW s \in Nat, StreamFits(x, o, s), x.conn = "up",
           x.link = "on", x.bound # NoBinding, x.failed # x.bound.wire, NEW seq \in Nat, seq > x.bound.last
    PROVE  StreamFits(Fanned(x, seq), Append(o, FrameMsg(x.bound.wire, x.bound.proc, seq, x.epoch)), s)
<1> DEFINE y == Fanned(x, seq)
           m == FrameMsg(x.bound.wire, x.bound.proc, seq, x.epoch)
<1>1. y \in Displays
  BY FannedType
<1>2. /\ y.conn = x.conn /\ y.link = x.link /\ y.wire = x.wire /\ y.epoch = x.epoch /\ y.failed = x.failed
      /\ y.bound.wire = x.bound.wire /\ y.bound.proc = x.bound.proc /\ y.bound.last = seq
  BY DEF Fanned, Displays, Bindings
<1>3. /\ x.epoch \in Nat /\ x.wire \in Nat /\ x.bound.wire \in Nat /\ x.bound.proc \in ProcIds /\ x.bound.last \in Nat
      /\ x.bound.wire <= x.wire
  BY DEF Displays, Bindings, StreamFits, Dated
<1>4. /\ m \in Msgs /\ m.kind = "frame" /\ m.wire = x.bound.wire /\ m.epoch = x.epoch /\ m.seq = seq
      /\ m.proc = x.bound.proc
  BY <1>3, MsgTypes DEF FrameMsg
<1> HIDE DEF y, m
<1>5. \A i \in 1 .. Len(o) : Permits(y, o[i])
  BY <1>2 DEF StreamFits, Permits
<1>6. Permits(y, m)
  BY <1>2, <1>4 DEF Permits
<1>7. ASSUME NEW i \in 1 .. Len(o), o[i].kind = "frame", o[i].wire = x.bound.wire
      PROVE  o[i].seq < seq /\ o[i].seq <= seq
  <2>1. o[i].seq <= x.bound.last /\ o[i] \in Msgs
    BY <1>7 DEF StreamFits, Ordered
  <2>2. o[i].seq \in Nat
    BY <2>1 DEF Msgs
  <2> QED BY <1>3, <2>1, <2>2
<1>8. /\ x.bound.wire = m.wire /\ y.bound.wire = After(m)
      /\ y.epoch >= x.epoch /\ y.wire >= x.wire /\ m.epoch <= y.epoch /\ m.wire <= y.wire /\ m.seq <= y.bound.last
  BY <1>2, <1>3, <1>4 DEF After
<1>9. StreamFits(y, Append(o, m), s)
  BY <1>1, <1>2, <1>4, <1>5, <1>6, <1>7, <1>8, AppendFits
<1> QED BY <1>9 DEF y, m

-----------------------------------------------------------------------------
(* Every action keeps the streams. *)

\* The other displays, when an action is about d
LEMMA StreamOthers ==
    ASSUME TypeOK, StreamInv, NEW d \in Display, NEW x \in Displays, NEW o, NEW s,
           disp' = [disp EXCEPT ![d] = x], out' = [out EXCEPT ![d] = o],
           \A c \in Display \ {d} : client'[c].shown = client[c].shown, client'[d].shown = s,
           StreamFits(x, o, s)
    PROVE  StreamInv'
<1>1. disp'[d] = x /\ out'[d] = o
  BY DEF TypeOK, DispType, OutType
<1>2. \A c \in Display \ {d} : disp'[c] = disp[c] /\ out'[c] = out[c]
  BY DEF TypeOK, DispType, OutType
<1>3. ASSUME NEW c \in Display PROVE StreamFits(disp'[c], out'[c], client'[c].shown)
  <2>1. CASE c = d
    BY <1>1, <2>1
  <2>2. CASE c # d
    BY <1>2, <2>2 DEF StreamInv
  <2> QED BY <2>1, <2>2
<1> QED BY <1>3 DEF StreamInv

\* Some displays have their epoch raised
LEMMA StreamBumps ==
    ASSUME TypeOK, StreamInv, UNCHANGED out, \A d \in Display : client'[d].shown = client[d].shown,
           \A d \in Display : \/ disp'[d] = disp[d]
                              \/ /\ disp'[d] \in Displays /\ disp'[d].epoch > disp[d].epoch
                                 /\ disp'[d].wire = disp[d].wire /\ disp'[d].bound = disp[d].bound
                                 /\ disp'[d].conn = disp[d].conn
    PROVE  StreamInv'
<1>1. ASSUME NEW d \in Display PROVE StreamFits(disp'[d], out[d], client[d].shown)
  <2>1. /\ disp[d] \in Displays /\ out[d] \in Seq(Msgs) /\ client[d].shown \in Nat
        /\ StreamFits(disp[d], out[d], client[d].shown)
    BY DEF TypeOK, DispType, OutType, ClientType, Clients, StreamInv
  <2> QED BY <2>1, BumpFits
<1> QED BY <1>1 DEF StreamInv

LEMMA StreamSame ==
    ASSUME StreamInv, UNCHANGED <<disp, out>>, \A d \in Display : client'[d].shown = client[d].shown
    PROVE  StreamInv'
BY DEF StreamInv

LEMMA SyncStreams ==
    ASSUME TypeOK, StreamInv, NEW d \in Display, SyncDisplay(d), UNCHANGED client
    PROVE  StreamInv'
<1>1. CASE UNCHANGED <<disp, out, pending>>
  BY <1>1, StreamSame
<1>2. ASSUME NEW target \in ProcIds, target # 0 => target \in Procs /\ disp[d].link = "on", Up(d), Bring(d, target)
      PROVE  StreamInv'
  <2>1. StreamFits(disp[d], out[d], client[d].shown)
    BY DEF StreamInv
  <2>2. StreamFits(disp'[d], out'[d], client[d].shown)
    BY <1>2, <2>1, BringFits
  <2>3. PICK b : /\ disp' = [disp EXCEPT ![d] = Brought(disp[d], target, b)]
                 /\ out' = [out EXCEPT ![d] = Send(d, Told(disp[d], target, Replay(target)))]
    BY <1>2, BringIs DEF TypeOK
  <2>4. \A c \in Display \ {d} : disp'[c] = disp[c] /\ out'[c] = out[c]
    BY <2>3 DEF TypeOK, DispType, OutType
  <2>5. ASSUME NEW c \in Display PROVE StreamFits(disp'[c], out'[c], client[c].shown)
    <3>1. CASE c = d
      BY <2>2, <3>1
    <3>2. CASE c # d
      BY <2>4, <3>2 DEF StreamInv
    <3> QED BY <3>1, <3>2
  <2> QED BY <2>5 DEF StreamInv
<1>3. attached \in ProcIds /\ 0 \in ProcIds /\ (attached # 0 => attached \in Procs)
  BY BoundFacts DEF TypeOK, SlotType, ProcIds, Procs
<1>4. \/ UNCHANGED <<disp, out, pending>>
      \/ Up(d) /\ HasTarget(d) /\ Bring(d, attached)
      \/ Up(d) /\ Bring(d, 0)
  BY DEF SyncDisplay
<1>5. HasTarget(d) => disp[d].link = "on"
  BY DEF HasTarget
<1> QED BY <1>1, <1>2, <1>3, <1>4, <1>5

\* The fields of a display whose permits are void
LEMMA InvalidatedFields ==
    ASSUME DispType, NEW ds, NEW d \in Display
    PROVE  LET x == Invalidated(ds)[d]
           IN  /\ x \in Displays /\ x.wire = disp[d].wire /\ x.bound = disp[d].bound /\ x.conn = disp[d].conn
               /\ d \in ds => x.epoch = disp[d].epoch + 1 /\ x.epoch > disp[d].epoch
               /\ d \notin ds => x = disp[d]
<1>1. disp[d] \in Displays /\ disp[d].epoch \in Nat
  BY DEF DispType, Displays
<1>2. Invalidated(ds)[d] = IF d \in ds THEN [disp[d] EXCEPT !.epoch = disp[d].epoch + 1] ELSE disp[d]
  BY DEF Invalidated
<1>3. Invalidated(ds)[d] \in Displays
  BY InvalidatedType
<1> QED BY <1>1, <1>2, <1>3 DEF Displays

\* Whoever changes a link voids the permits of the display, in the same step
LEMMA Invalidates ==
    ASSUME DispType, NEW t \in Tasks,
           Activate(t) \/ DetachForRestart(t) \/ ClearAssignments(t) \/ SetDisplayPaused(t)
    PROVE  /\ UNCHANGED <<out, client>>
           /\ \A d \in Display :
                \/ disp'[d] = disp[d]
                \/ /\ disp'[d] \in Displays /\ disp'[d].epoch > disp[d].epoch
                   /\ disp'[d].wire = disp[d].wire /\ disp'[d].bound = disp[d].bound
                   /\ disp'[d].conn = disp[d].conn
<1>1. DispType /\ disp \in [Display -> Displays]
  BY DEF DispType
<1>2. CASE Activate(t)
  <2> DEFINE want    == IF stopped THEN "off" ELSE "on"
             changed == {d \in Linked : disp[d].link # want}
  <2>1. disp' = [d \in Display |-> IF d \in changed THEN [Invalidated(changed)[d] EXCEPT !.link = want] ELSE disp[d]]
    BY <1>2 DEF Activate
  <2>2. UNCHANGED <<out, client>>
    BY <1>2 DEF Activate
  <2>3. want \in {"none", "on", "off"}
    OBVIOUS
  <2> HIDE DEF want, changed
  <2>4. ASSUME NEW d \in Display
        PROVE  \/ disp'[d] = disp[d]
               \/ /\ disp'[d] \in Displays /\ disp'[d].epoch > disp[d].epoch
                  /\ disp'[d].wire = disp[d].wire /\ disp'[d].bound = disp[d].bound /\ disp'[d].conn = disp[d].conn
    <3> DEFINE x == Invalidated(changed)[d]
    <3>1. /\ x \in Displays /\ x.wire = disp[d].wire /\ x.bound = disp[d].bound /\ x.conn = disp[d].conn
          /\ d \in changed => x.epoch > disp[d].epoch
      BY <1>1, InvalidatedFields
    <3> HIDE DEF x
    <3>2. [x EXCEPT !.link = want] \in Displays
      BY <2>3, <3>1, DisplayFields
    <3>3. disp'[d] = IF d \in changed THEN [x EXCEPT !.link = want] ELSE disp[d]
      BY <2>1 DEF x
    <3> QED BY <3>1, <3>2, <3>3 DEF Displays
  <2> QED BY <2>2, <2>4
<1>3. CASE DetachForRestart(t)
  <2>1. disp' = disp \/ disp' = Invalidated(Linked)
    BY <1>3 DEF DetachForRestart
  <2>2. UNCHANGED <<out, client>>
    BY <1>3 DEF DetachForRestart
  <2>3. ASSUME NEW d \in Display
        PROVE  \/ disp'[d] = disp[d]
               \/ /\ disp'[d] \in Displays /\ disp'[d].epoch > disp[d].epoch
                  /\ disp'[d].wire = disp[d].wire /\ disp'[d].bound = disp[d].bound /\ disp'[d].conn = disp[d].conn
    BY <1>1, <2>1, InvalidatedFields
  <2> QED BY <2>2, <2>3
<1>4. CASE ClearAssignments(t)
  <2>1. PICK ds : disp' = [d \in Display |-> IF d \in ds THEN [Invalidated(ds)[d] EXCEPT !.link = "none"]
                                             ELSE disp[d]]
    BY <1>4 DEF ClearAssignments
  <2>2. UNCHANGED <<out, client>>
    BY <1>4 DEF ClearAssignments
  <2>3. ASSUME NEW d \in Display
        PROVE  \/ disp'[d] = disp[d]
               \/ /\ disp'[d] \in Displays /\ disp'[d].epoch > disp[d].epoch
                  /\ disp'[d].wire = disp[d].wire /\ disp'[d].bound = disp[d].bound /\ disp'[d].conn = disp[d].conn
    <3> DEFINE x == Invalidated(ds)[d]
    <3>1. /\ x \in Displays /\ x.wire = disp[d].wire /\ x.bound = disp[d].bound /\ x.conn = disp[d].conn
          /\ d \in ds => x.epoch > disp[d].epoch
      BY <1>1, InvalidatedFields
    <3> HIDE DEF x
    <3>2. [x EXCEPT !.link = "none"] \in Displays
      BY <3>1, DisplayFields
    <3>3. disp'[d] = IF d \in ds THEN [x EXCEPT !.link = "none"] ELSE disp[d]
      BY <2>1 DEF x
    <3> QED BY <3>1, <3>2, <3>3 DEF Displays
  <2> QED BY <2>2, <2>3
<1>5. CASE SetDisplayPaused(t)
  <2>1. PICK c \in Display : disp' = [Invalidated({c}) EXCEPT ![c].paused = ~@]
    BY <1>5 DEF SetDisplayPaused
  <2>2. UNCHANGED <<out, client>>
    BY <1>5 DEF SetDisplayPaused
  <2>3. ASSUME NEW d \in Display
        PROVE  \/ disp'[d] = disp[d]
               \/ /\ disp'[d] \in Displays /\ disp'[d].epoch > disp[d].epoch
                  /\ disp'[d].wire = disp[d].wire /\ disp'[d].bound = disp[d].bound /\ disp'[d].conn = disp[d].conn
    <3> DEFINE x == Invalidated({c})[d]
    <3>1. /\ x \in Displays /\ x.wire = disp[d].wire /\ x.bound = disp[d].bound /\ x.conn = disp[d].conn
          /\ d = c => x.epoch > disp[d].epoch
          /\ d # c => x = disp[d]
      BY <1>1, InvalidatedFields
    <3>2. disp'[d] = IF d = c THEN [x EXCEPT !.paused = ~@] ELSE x
      BY <1>1, <2>1, InvalidatedType
    <3> HIDE DEF x
    <3>3. [x EXCEPT !.paused = ~@] \in Displays
      BY <3>1, DisplayFields
    <3> QED BY <3>1, <3>2, <3>3 DEF Displays
  <2> QED BY <2>2, <2>3
<1> QED BY <1>2, <1>3, <1>4, <1>5

LEMMA InvalidateStreams ==
    ASSUME TypeOK, StreamInv, NEW t \in Tasks,
           Activate(t) \/ DetachForRestart(t) \/ ClearAssignments(t) \/ SetDisplayPaused(t)
    PROVE  StreamInv'
BY Invalidates, StreamBumps DEF TypeOK

LEMMA SessionStreams ==
    ASSUME TypeOK, StreamInv, NEW d \in Display, RegisterDisplay(d) \/ ClientLeaves(d) \/ UnregisterDisplay(d)
    PROVE  StreamInv'
<1>1. /\ disp \in [Display -> Displays] /\ out \in [Display -> Seq(Msgs)] /\ client \in [Display -> Clients]
      /\ disp[d] \in Displays /\ out[d] \in Seq(Msgs) /\ client[d].shown \in Nat
      /\ StreamFits(disp[d], out[d], client[d].shown)
  BY DEF TypeOK, DispType, OutType, ClientType, Clients, StreamInv
<1>2. CASE RegisterDisplay(d)
  <2> DEFINE l == IF stopped THEN "off" ELSE "on"
             x == [[disp[d] EXCEPT !.conn = "up"] EXCEPT !.link = l]
  <2>1. out[d] = <<>> /\ disp[d].bound = NoBinding /\ client[d].shown = 0
    BY <1>1, <1>2 DEF RegisterDisplay, StreamFits, Fresh
  <2>2. x \in Displays /\ x.bound = NoBinding
    <3>1. x \in Displays
      BY <1>1, DisplayFields
    <3> QED BY <1>1, <2>1, <3>1 DEF Displays
  <2>3. disp' = [disp EXCEPT ![d] = x]
    BY <1>1, <1>2 DEF RegisterDisplay
  <2> HIDE DEF x
  <2>4. StreamFits(x, <<>>, client[d].shown)
    BY <1>1, <2>1, <2>2, EmptyFits
  <2>5. out' = [out EXCEPT ![d] = <<>>] /\ client' = client
    BY <1>1, <1>2, <2>1 DEF RegisterDisplay
  <2> QED BY <2>2, <2>3, <2>4, <2>5, StreamOthers
<1>3. CASE ClientLeaves(d)
  <2> DEFINE x == [disp[d] EXCEPT !.conn = "leaving"]
  <2>1. x \in Displays
    BY <1>1, DisplayFields
  <2>2. disp' = [disp EXCEPT ![d] = x] /\ out' = [out EXCEPT ![d] = out[d]] /\ client' = client
    BY <1>1, <1>3 DEF ClientLeaves
  <2>3. StreamFits(x, out[d], client[d].shown)
    BY <1>1, LeaveFits
  <2> HIDE DEF x
  <2> QED BY <2>1, <2>2, <2>3, StreamOthers
<1>4. CASE UnregisterDisplay(d)
  <2> DEFINE x == [[[disp[d] EXCEPT !.conn = "gone"] EXCEPT !.link = "none"] EXCEPT !.bound = NoBinding]
  <2>1. x \in Displays /\ x.bound = NoBinding
    <3>1. x \in Displays
      BY <1>1, DisplayFields, NoBindingType
    <3> QED BY <1>1, <3>1 DEF Displays
  <2>2. disp' = [disp EXCEPT ![d] = x]
    BY <1>1, <1>4 DEF UnregisterDisplay
  <2> HIDE DEF x
  <2>3. out' = [out EXCEPT ![d] = <<>>]
    BY <1>4 DEF UnregisterDisplay
  <2>4. client'[d].shown = 0 /\ \A c \in Display \ {d} : client'[c].shown = client[c].shown
    BY <1>1, <1>4 DEF UnregisterDisplay
  <2>5. StreamFits(x, <<>>, 0)
    BY <2>1, EmptyFits
  <2> QED BY <2>1, <2>2, <2>3, <2>4, <2>5, StreamOthers
<1> QED BY <1>2, <1>3, <1>4

LEMMA EventStreams ==
    ASSUME TypeOK, StreamInv, EventTask
    PROVE  StreamInv'
<1> DEFINE e == Head(events)
<1>1. e \in EventMsgs /\ e.seq \in Nat
  <2>1. events \in Seq(EventMsgs) /\ events # <<>>
    BY DEF EventTask, TypeOK, EventType
  <2>2. e \in EventMsgs
    BY <2>1
  <2> QED BY <2>2 DEF EventMsgs
<1>2. UNCHANGED client
  BY DEF EventTask
<1>3. FanOut(e) \/ UNCHANGED <<disp, out>>
  BY <1>1 DEF EventTask, EventMsgs
<1> HIDE DEF e
<1>4. CASE UNCHANGED <<disp, out>>
  BY <1>2, <1>4, StreamSame
<1>5. CASE FanOut(e)
  <2>1. ASSUME NEW d \in Display PROVE StreamFits(disp'[d], out'[d], client[d].shown)
    <3> DEFINE x == disp[d]
               b == x.bound
               m == FrameMsg(b.wire, b.proc, e.seq, x.epoch)
    <3>1. /\ x \in Displays /\ out[d] \in Seq(Msgs) /\ client[d].shown \in Nat
          /\ StreamFits(x, out[d], client[d].shown)
      BY DEF TypeOK, DispType, OutType, ClientType, Clients, StreamInv
    <3>2. IF Recipient(d, e) /\ x.conn = "up"
          THEN /\ disp'[d] = Fanned(x, e.seq)
               /\ out'[d] = out[d] \o <<FrameMsg(b.wire, attached, e.seq, x.epoch)>>
          ELSE disp'[d] = x /\ out'[d] = out[d]
      BY <1>1, <1>5, FanOutIs DEF TypeOK
    <3>3. CASE ~(Recipient(d, e) /\ x.conn = "up")
      BY <3>1, <3>2, <3>3
    <3>4. CASE Recipient(d, e) /\ x.conn = "up"
      <4>1. /\ x.link = "on" /\ b # NoBinding /\ b.proc = attached /\ x.failed # b.wire /\ e.seq > b.last
        BY <3>4 DEF Recipient, Enabled
      <4>2. m \in Msgs
        <5>1. b.wire \in Nat /\ b.proc \in ProcIds /\ x.epoch \in Nat
          BY <3>1 DEF Displays, Bindings
        <5> QED BY <1>1, <5>1, MsgTypes
      <4>3. out'[d] = Append(out[d], m)
        <5>1. out'[d] = out[d] \o <<m>>
          BY <3>2, <3>4, <4>1
        <5> QED BY <3>1, <4>2, <5>1, AppendIs
      <4>4. StreamFits(Fanned(x, e.seq), Append(out[d], m), client[d].shown)
        <5> HIDE DEF x
        <5> QED BY <1>1, <3>1, <3>4, <4>1, FannedFits
      <4> QED BY <3>2, <3>4, <4>3, <4>4
    <3> QED BY <3>3, <3>4
  <2> QED BY <1>2, <2>1 DEF StreamInv
<1> QED BY <1>3, <1>4, <1>5

LEMMA LoopStreams ==
    ASSUME TypeOK, StreamInv, NEW d \in Display, SendUnbind(d) \/ SendBind(d) \/ SkipFrame(d) \/ SendFrame(d)
    PROVE  StreamInv'
<1>1. Receive(d)
  BY DEF SendUnbind, SendBind, SkipFrame, SendFrame
<1> DEFINE x == disp[d]
           o == out[d]
           s == client[d].shown
           m == Head(o)
<1>2. /\ o \in Seq(Msgs) /\ o # <<>> /\ m \in Msgs /\ o[1] = m
      /\ out' = [out EXCEPT ![d] = Tail(o)] /\ x.conn = "up"
  <2>1. /\ o \in Seq(Msgs) /\ o # <<>> /\ m \in Msgs /\ out' = [out EXCEPT ![d] = Tail(o)]
    BY <1>1, ReceiveFacts
  <2>2. x.conn = "up"
    BY <1>1 DEF Receive
  <2>3. o[1] = m
    BY <2>1
  <2> QED BY <2>1, <2>2, <2>3
<1>3. /\ x \in Displays /\ s \in Nat /\ StreamFits(x, o, s) /\ client \in [Display -> Clients]
      /\ disp \in [Display -> Displays]
  BY DEF TypeOK, DispType, ClientType, Clients, StreamInv
<1>4. StreamFits(x, Tail(o), After(m))
  <2> HIDE DEF x, o, s, m
  <2> QED BY <1>2, <1>3, TailFits
\* A frame is of the binding that the client is shown
<1>5. m.kind = "frame" => After(m) = s
  <2>1. 1 \in 1 .. Len(o)
    BY <1>2
  <2>2. Before(o, s, 1) = s
    BY DEF Before
  <2> QED BY <1>2, <1>3, <2>1, <2>2 DEF StreamFits, Chained, After
<1>6. CASE SendUnbind(d)
  <2>1. m.kind = "unbind" /\ After(m) = 0
    BY <1>6 DEF SendUnbind, After
  <2>2. client'[d].shown = 0 /\ \A c \in Display \ {d} : client'[c].shown = client[c].shown
    BY <1>3, <1>6 DEF SendUnbind, Clients
  <2>3. disp' = [disp EXCEPT ![d] = x]
    BY <1>3, <1>6 DEF SendUnbind
  <2>4. StreamFits(x, Tail(o), 0)
    BY <1>4, <2>1
  <2> HIDE DEF x, o, s, m
  <2> QED BY <1>2, <1>3, <2>2, <2>3, <2>4, StreamOthers
<1>7. CASE SendBind(d)
  <2>1. m.kind = "bind" /\ After(m) = m.wire
    BY <1>7 DEF SendBind, After
  <2>2. client'[d].shown = m.wire /\ \A c \in Display \ {d} : client'[c].shown = client[c].shown
    BY <1>3, <1>7 DEF SendBind, Clients
  <2>3. disp' = [disp EXCEPT ![d] = x]
    BY <1>3, <1>7 DEF SendBind
  <2>4. StreamFits(x, Tail(o), m.wire)
    BY <1>4, <2>1
  <2> HIDE DEF x, o, s, m
  <2> QED BY <1>2, <1>3, <2>2, <2>3, <2>4, StreamOthers
<1>8. CASE SkipFrame(d)
  <2>1. StreamFits(x, Tail(o), s)
    BY <1>4, <1>5, <1>8 DEF SkipFrame
  <2>2. disp' = [disp EXCEPT ![d] = x] /\ client' = client
    BY <1>3, <1>8 DEF SkipFrame
  <2>3. client'[d].shown = s /\ \A c \in Display \ {d} : client'[c].shown = client[c].shown
    BY <2>2
  <2> HIDE DEF x, o, s, m
  <2> QED BY <1>2, <1>3, <2>1, <2>2, <2>3, StreamOthers
<1>9. CASE SendFrame(d)
  <2> DEFINE y == [x EXCEPT !.conn = "leaving"]
  <2>1. StreamFits(x, Tail(o), s)
    BY <1>4, <1>5, <1>9 DEF SendFrame
  <2>2. client' = client
    BY <1>9 DEF SendFrame
  <2>3. client'[d].shown = s /\ \A c \in Display \ {d} : client'[c].shown = client[c].shown
    BY <2>2
  <2>4. Tail(o) \in Seq(Msgs) /\ y \in Displays
    <3>1. Tail(o) \in Seq(Msgs)
      BY <1>2
    <3>2. y \in Displays
      BY <1>3, DisplayFields
    <3> QED BY <3>1, <3>2
  <2>5. disp' = [disp EXCEPT ![d] = x] \/ disp' = [disp EXCEPT ![d] = y]
    BY <1>3, <1>9 DEF SendFrame
  <2> HIDE DEF o, s, m
  <2>6. StreamFits(y, Tail(o), s)
    BY <1>3, <2>1, <2>4, LeaveFits
  <2> HIDE DEF x, y
  <2>7. CASE disp' = [disp EXCEPT ![d] = x]
    BY <1>2, <1>3, <2>1, <2>3, <2>7, StreamOthers
  <2>8. CASE disp' = [disp EXCEPT ![d] = y]
    BY <1>2, <2>3, <2>4, <2>6, <2>8, StreamOthers
  <2> QED BY <2>5, <2>7, <2>8
<1> QED BY <1>6, <1>7, <1>8, <1>9

\* A failed import voids the permits of the display, in the same step
LEMMA FailureInvalidates ==
    ASSUME TypeOK, NEW d \in Display, ImportFailed(d)
    PROVE  /\ UNCHANGED out
           /\ \E w \in client[d].fails : client' = [client EXCEPT ![d].fails = @ \ {w}]
           /\ \A c \in Display : client'[c].shown = client[c].shown
           /\ \A c \in Display :
                \/ disp'[c] = disp[c]
                \/ /\ disp'[c] \in Displays /\ disp'[c].epoch > disp[c].epoch
                   /\ disp'[c].wire = disp[c].wire /\ disp'[c].bound = disp[c].bound
                   /\ disp'[c].conn = disp[c].conn
<1>1. /\ client \in [Display -> Clients] /\ DispType /\ disp \in [Display -> Displays]
      /\ disp[d] \in Displays /\ disp[d].bound.fmt \in Fmts
  BY DEF TypeOK, ClientType, DispType, Displays, Bindings
<1>2. PICK w \in client[d].fails :
        /\ client' = [client EXCEPT ![d].fails = @ \ {w}]
        /\ \/ disp' = [Invalidated({d}) EXCEPT ![d].failed = w, ![d].black = @ \cup {disp[d].bound.fmt}]
           \/ UNCHANGED disp
  BY DEF ImportFailed
<1>3. \A c \in Display : client'[c].shown = client[c].shown
  BY <1>1, <1>2 DEF Clients
<1>4. UNCHANGED out /\ w \in Nat
  BY <1>1 DEF ImportFailed, Clients
<1>5. ASSUME NEW c \in Display
      PROVE  \/ disp'[c] = disp[c]
             \/ /\ disp'[c] \in Displays /\ disp'[c].epoch > disp[c].epoch
                /\ disp'[c].wire = disp[c].wire /\ disp'[c].bound = disp[c].bound /\ disp'[c].conn = disp[c].conn
  <2> DEFINE x == Invalidated({d})[c]
             f == disp[d].bound.fmt
             y == [[x EXCEPT !.failed = w] EXCEPT !.black = @ \cup {f}]
  <2>1. /\ x \in Displays /\ x.wire = disp[c].wire /\ x.bound = disp[c].bound /\ x.conn = disp[c].conn
        /\ c = d => x.epoch > disp[c].epoch
        /\ c # d => x = disp[c]
    BY <1>1, InvalidatedFields
  <2>2. disp'[c] = disp[c] \/ disp'[c] = x \/ (c = d /\ disp'[c] = y)
    <3>1. CASE UNCHANGED disp
      BY <3>1
    <3>2. CASE disp' = [Invalidated({d}) EXCEPT ![d].failed = w, ![d].black = @ \cup {disp[d].bound.fmt}]
      <4>1. Invalidated({d}) \in [Display -> Displays]
        BY <1>1, InvalidatedType
      <4>2. disp' = [Invalidated({d}) EXCEPT
                       ![d] = [[Invalidated({d})[d] EXCEPT !.failed = w]
                                  EXCEPT !.black = @ \cup {disp[d].bound.fmt}]]
        BY <3>2, <4>1
      <4>3. CASE c = d
        BY <4>1, <4>2, <4>3
      <4>4. CASE c # d
        BY <4>1, <4>2, <4>4
      <4> QED BY <4>3, <4>4
    <3> QED BY <1>2, <3>1, <3>2
  <2> HIDE DEF x, f
  <2>3. [x EXCEPT !.failed = w] \in Displays
    BY <1>4, <2>1, DisplayFields
  <2>4. y \in Displays
    BY <1>1, <2>3, DisplayFields DEF f
  <2>5. y.wire = x.wire /\ y.bound = x.bound /\ y.conn = x.conn /\ y.epoch = x.epoch
    BY <2>1 DEF Displays
  <2> HIDE DEF y
  <2> QED BY <2>1, <2>2, <2>4, <2>5
<1> QED BY <1>2, <1>3, <1>4, <1>5

LEMMA ClientStreams ==
    ASSUME TypeOK, StreamInv, NEW d \in Display, AckUnbind(d) \/ ImportFailed(d)
    PROVE  StreamInv'
<1>1. CASE AckUnbind(d)
  <2>1. PICK U : client' = [client EXCEPT ![d].unacked = U]
    BY <1>1 DEF AckUnbind
  <2>2. \A c \in Display : client'[c].shown = client[c].shown
    BY <2>1 DEF TypeOK, ClientType, Clients
  <2> QED BY <1>1, <2>2, StreamSame DEF AckUnbind
<1>2. CASE ImportFailed(d)
  BY <1>2, FailureInvalidates, StreamBumps
<1> QED BY <1>1, <1>2

LEMMA StreamInit == Init => StreamInv
<1> SUFFICES ASSUME Init, NEW d \in Display PROVE StreamFits(disp[d], out[d], client[d].shown)
  BY DEF StreamInv
<1>1. disp[d] \in Displays
  BY TypeInit DEF TypeOK, DispType
<1>2. disp[d].bound = NoBinding /\ out[d] = <<>> /\ client[d].shown = 0
  BY DEF Init
<1> QED BY <1>1, <1>2, EmptyFits

LEMMA StreamNext == TypeOK /\ StreamInv /\ [Next]_vars => StreamInv'
<1> SUFFICES ASSUME TypeOK, StreamInv, [Next]_vars PROVE StreamInv'
  OBVIOUS
<1>1. CASE \E t \in Tasks : Section(t)
  <2>1. PICK t \in Tasks : Section(t)
    BY <1>1
  <2>2. CASE SyncOne(t)
    <3>1. PICK d \in Self(t).todo : SyncDisplay(d)
      BY <2>2 DEF SyncOne
    <3>2. d \in Display /\ UNCHANGED client
      BY <2>2, <3>1, SelfType DEF SyncOne, At, TypeOK, Sections, Locals
    <3> QED BY <3>1, <3>2, SyncStreams
  <2>3. CASE Activate(t) \/ DetachForRestart(t)
    BY <2>3, InvalidateStreams
  <2>4. CASE \/ BeginRetainedStop(t) \/ ArmTracking(t) \/ FinishRetainedStop(t) \/ AwaitUnbindAcks(t)
             \/ AckTimeout(t) \/ StopGeneration(t) \/ SettleExit(t) \/ RequestStart(t) \/ AdvanceStart(t)
             \/ SpawnProcess(t) \/ AttachProcess(t) \/ RegisteredStopped(t) \/ SyncAttached(t)
             \/ PickScheme(t) \/ SendDirective(t) \/ RecordScheme(t)
    <3>1. UNCHANGED <<disp, out, client>>
      BY <2>4 DEF BeginRetainedStop, ArmTracking, FinishRetainedStop, AwaitUnbindAcks, AckTimeout,
                  StopGeneration, SettleExit, RequestStart, AdvanceStart, SpawnProcess, AttachProcess,
                  RegisteredStopped, SyncAttached, PickScheme, SendDirective, RecordScheme
    <3> QED BY <3>1, StreamSame
  <2> QED BY <2>1, <2>2, <2>3, <2>4 DEF Section
<1>2. CASE \E t \in Ctl : Requests(t)
  <2>1. PICK t \in Ctl : Requests(t)
    BY <1>2
  <2>2. CASE ClearAssignments(t) \/ SetDisplayPaused(t)
    BY <2>2, TaskOf, InvalidateStreams
  <2>3. CASE SetManualStop(t) \/ Restart(t)
    <3>1. UNCHANGED <<disp, out, client>>
      BY <2>3 DEF SetManualStop, Restart
    <3> QED BY <3>1, StreamSame
  <2> QED BY <2>1, <2>2, <2>3 DEF Requests
<1>3. CASE \E p \in Procs : Renderer(p) \/ ProcessCrashes(p)
  <2>1. UNCHANGED <<disp, out, client>>
    BY <1>3 DEF Renderer, ReadFormatCaps, ReadBindBuffers, RetireFences, ReadFrameReady, ProcessCrashes
  <2> QED BY <2>1, StreamSame
<1>4. CASE \E d \in Display : Session(d) \/ ClientLeaves(d)
  BY <1>4, SessionStreams, LoopStreams, ClientStreams DEF Session
<1>5. CASE EventTask
  BY <1>5, EventStreams
<1>6. CASE ProcessExitReceived \/ UNCHANGED vars
  <2>1. UNCHANGED <<disp, out, client>>
    BY <1>6 DEF ProcessExitReceived, vars
  <2> QED BY <2>1, StreamSame
<1> QED BY <1>1, <1>2, <1>3, <1>4, <1>5, <1>6 DEF Next, Rest


-----------------------------------------------------------------------------
(* The acknowledgements that are waited for. *)

LEMMA ComesGrows ==
    ASSUME NEW o \in Seq(Msgs), NEW p \in Seq(Msgs), NEW u, NEW w, Comes(o, u, w)
    PROVE  Comes(o \o p, u, w)
<1>1. \A i \in 1 .. Len(o) : i \in 1 .. Len(o \o p) /\ (o \o p)[i] = o[i]
  OBVIOUS
<1> QED BY <1>1 DEF Comes

LEMMA ComesTail ==
    ASSUME NEW o \in Seq(Msgs), o # <<>>, NEW u, NEW w, Comes(o, u, w)
    PROVE  Comes(Tail(o), u \cup {Head(o)}, w) /\ (Head(o).kind # "unbind" => Comes(Tail(o), u, w))
<1>1. CASE \E m \in u : m.kind = "unbind" /\ m.wire = w
  BY <1>1 DEF Comes
<1>2. CASE \E i \in 1 .. Len(o) : o[i].kind = "unbind" /\ o[i].wire = w
  <2>1. PICK i \in 1 .. Len(o) : o[i].kind = "unbind" /\ o[i].wire = w
    BY <1>2
  <2>2. CASE i = 1
    <3>1. o[i] = Head(o)
      BY <2>2
    <3> QED BY <2>1, <3>1 DEF Comes
  <2>3. CASE i # 1
    <3>1. i - 1 \in 1 .. Len(Tail(o)) /\ Tail(o)[i - 1] = o[i]
      BY <2>3
    <3> QED BY <2>1, <3>1 DEF Comes
  <2> QED BY <2>2, <2>3
<1> QED BY <1>1, <1>2 DEF Comes

\* The unbind of a binding is sent when it is replaced
LEMMA ComesTold ==
    ASSUME NEW x \in Displays, NEW o \in Seq(Msgs), NEW target \in ProcIds, NEW seq \in Nat, NEW u,
           x.bound # NoBinding
    PROVE  Comes(o \o Told(x, target, seq), u, x.bound.wire)
<1> DEFINE m == UnbindMsg(x.bound)
           r == IF target = 0 THEN <<>>
                ELSE <<BindMsg(x.wire + 1, target)>>
                     \o (IF seq = 0 THEN <<>> ELSE <<FrameMsg(x.wire + 1, target, seq, x.epoch + 1)>>)
<1>1. m.kind = "unbind" /\ m.wire = x.bound.wire
  BY DEF UnbindMsg
<1>2. Told(x, target, seq) \in Seq(Msgs)
  BY ToldType
<1>3. x.wire + 1 \in Nat /\ x.epoch + 1 \in Nat /\ x.bound \in Bindings
  BY DEF Displays
<1>4. m \in Msgs
  BY <1>3, MsgTypes
<1>5. r \in Seq(Msgs)
  <2>1. (IF seq = 0 THEN <<>> ELSE <<FrameMsg(x.wire + 1, target, seq, x.epoch + 1)>>) \in Seq(Msgs)
    BY <1>3, MsgTypes
  <2>2. <<BindMsg(x.wire + 1, target)>> \in Seq(Msgs)
    BY <1>3, MsgTypes
  <2> QED BY <2>1, <2>2
<1>6. Told(x, target, seq) = <<m>> \o r
  BY DEF Told
<1> HIDE DEF m, r
<1>7. Len(o) + 1 \in 1 .. Len(o \o (<<m>> \o r)) /\ (o \o (<<m>> \o r))[Len(o) + 1] = m
  BY <1>4, <1>5
<1> QED BY <1>1, <1>6, <1>7 DEF Comes

\* What an action has to leave alone
LEMMA AckKept ==
    ASSUME TypeOK, AckInv, pending' \subseteq pending,
           \A d \in Display : disp[d].conn # "new" =>
             /\ disp'[d].conn # "new"
             /\ disp'[d].conn = "up" =>
                  /\ disp[d].conn = "up"
                  /\ \A w \in Nat : <<d, w>> \in pending' /\ Comes(out[d], client[d].unacked, w)
                       => Comes(out'[d], client'[d].unacked, w)
    PROVE  AckInv'
<1> SUFFICES ASSUME NEW d \in Display, NEW w \in Nat, <<d, w>> \in pending'
             PROVE  /\ disp'[d].conn # "new"
                    /\ disp'[d].conn = "up" => Comes(out'[d], client'[d].unacked, w)
  BY DEF AckInv, Comes
<1>1. disp[d].conn # "new" /\ (disp[d].conn = "up" => Comes(out[d], client[d].unacked, w))
  BY DEF AckInv
<1> QED BY <1>1

LEMMA AckSame ==
    ASSUME TypeOK, AckInv, pending' \subseteq pending, UNCHANGED out,
           \A d \in Display : client'[d].unacked = client[d].unacked /\ disp'[d].conn = disp[d].conn
    PROVE  AckInv'
BY AckKept

LEMMA SyncAcks ==
    ASSUME TypeOK, AckInv, NEW d \in Display, SyncDisplay(d), UNCHANGED client
    PROVE  AckInv'
<1>1. CASE UNCHANGED <<disp, out, pending>>
  BY <1>1, AckSame
<1>2. ASSUME NEW target \in ProcIds, target # 0 => target \in Procs, Up(d), Bring(d, target)
      PROVE  AckInv'
  <2> DEFINE x == disp[d]
             seq == IF target = 0 THEN 0 ELSE Replay(target)
             msgs == Told(x, target, seq)
  <2>1. x \in Displays /\ out[d] \in Seq(Msgs)
    BY DEF TypeOK, DispType, OutType
  <2>2. PICK b : /\ disp' = [disp EXCEPT ![d] = Brought(x, target, b)]
                 /\ out' = [out EXCEPT ![d] = Send(d, msgs)]
    <3>1. Told(x, target, Replay(target)) = msgs
      BY DEF Told
    <3> QED BY <1>2, <3>1, BringIs DEF TypeOK
  <2>3. \A c \in Display \ {d} : disp'[c] = disp[c] /\ out'[c] = out[c]
    BY <2>2 DEF TypeOK, DispType, OutType
  <2>4. disp'[d] = Brought(x, target, b) /\ out'[d] = Send(d, msgs)
    BY <2>2 DEF TypeOK, DispType, OutType
  <2>5. disp'[d].conn = x.conn
    BY <2>1, <2>4 DEF Brought, Displays
  <2>6. out'[d] = IF x.conn = "up" THEN out[d] \o msgs ELSE out[d]
    BY <2>4 DEF Send
  <2>7. pending' \subseteq pending \/ (x.bound # NoBinding /\ pending' = pending \cup {<<d, x.bound.wire>>})
    BY <1>2 DEF Bring
  <2>8. x.conn # "new"
    BY <1>2 DEF Up
  <2>9. ASSUME NEW c \in Display, NEW w \in Nat, <<c, w>> \in pending'
        PROVE  /\ disp'[c].conn # "new"
               /\ disp'[c].conn = "up" => Comes(out'[c], client[c].unacked, w)
    <3>1. CASE c # d
      BY <2>3, <2>7, <2>9, <3>1 DEF AckInv
    <3>2. CASE c = d /\ x.conn # "up"
      BY <2>5, <2>8, <3>2
    <3>3. CASE c = d /\ x.conn = "up"
      <4>1. seq \in Nat /\ msgs \in Seq(Msgs)
        <5>1. seq \in Nat
          BY <1>2, ReplayType DEF TypeOK
        <5> QED BY <2>1, <5>1, ToldType
      <4>2. CASE <<c, w>> \in pending
        <5>1. Comes(out[d], client[d].unacked, w)
          BY <3>3, <4>2 DEF AckInv
        <5> HIDE DEF msgs
        <5>2. Comes(out[d] \o msgs, client[d].unacked, w)
          BY <2>1, <4>1, <5>1, ComesGrows
        <5> QED BY <2>6, <2>8, <2>5, <3>3, <5>2
      <4>3. CASE <<c, w>> \notin pending
        <5>1. x.bound # NoBinding /\ w = x.bound.wire
          BY <2>7, <2>9, <4>3
        <5>2. Comes(out[d] \o msgs, client[d].unacked, w)
          BY <1>2, <2>1, <4>1, <5>1, ComesTold
        <5> QED BY <2>6, <2>8, <2>5, <3>3, <5>2
      <4> QED BY <4>2, <4>3
    <3> QED BY <3>1, <3>2, <3>3
  <2> QED BY <2>9 DEF AckInv, Comes
<1>3. attached \in ProcIds /\ 0 \in ProcIds /\ (attached # 0 => attached \in Procs)
  BY BoundFacts DEF TypeOK, SlotType, ProcIds, Procs
<1>4. \/ UNCHANGED <<disp, out, pending>>
      \/ Up(d) /\ Bring(d, attached)
      \/ Up(d) /\ Bring(d, 0)
  BY DEF SyncDisplay
<1> QED BY <1>1, <1>2, <1>3, <1>4

LEMMA SessionAcks ==
    ASSUME TypeOK, AckInv, NEW d \in Display, RegisterDisplay(d) \/ ClientLeaves(d) \/ UnregisterDisplay(d)
    PROVE  AckInv'
<1>1. disp \in [Display -> Displays] /\ out \in [Display -> Seq(Msgs)] /\ client \in [Display -> Clients]
  BY DEF TypeOK, DispType, OutType, ClientType
<1>2. UNCHANGED pending
  BY DEF RegisterDisplay, ClientLeaves, UnregisterDisplay, ackVars
<1>3. \A c \in Display \ {d} : disp'[c] = disp[c] /\ out'[c] = out[c] /\ client'[c] = client[c]
  BY <1>1 DEF RegisterDisplay, ClientLeaves, UnregisterDisplay
<1>4. disp[d].conn = "new" \/ disp'[d].conn \in {"leaving", "gone"}
  <2>1. disp[d] \in Displays
    BY <1>1
  <2>2. CASE RegisterDisplay(d)
    BY <2>2 DEF RegisterDisplay
  <2>3. CASE ClientLeaves(d)
    BY <1>1, <2>1, <2>3 DEF ClientLeaves, Displays
  <2>4. CASE UnregisterDisplay(d)
    BY <1>1, <2>1, <2>4 DEF UnregisterDisplay, Displays
  <2> QED BY <2>2, <2>3, <2>4
<1> QED BY <1>2, <1>3, <1>4, AckKept

LEMMA LoopAcks ==
    ASSUME TypeOK, AckInv, NEW d \in Display, SendUnbind(d) \/ SendBind(d) \/ SkipFrame(d) \/ SendFrame(d)
    PROVE  AckInv'
<1>1. Receive(d)
  BY DEF SendUnbind, SendBind, SkipFrame, SendFrame
<1> DEFINE o == out[d]
           u == client[d].unacked
<1>2. /\ o \in Seq(Msgs) /\ o # <<>> /\ out'[d] = Tail(o)
      /\ \A c \in Display \ {d} : out'[c] = out[c]
  <2>1. o \in Seq(Msgs) /\ o # <<>> /\ out'[d] = Tail(o) /\ out' = [out EXCEPT ![d] = Tail(o)]
    BY <1>1, ReceiveFacts
  <2> QED BY <2>1 DEF TypeOK, OutType
<1>3. disp \in [Display -> Displays] /\ client \in [Display -> Clients] /\ disp[d] \in Displays
  BY DEF TypeOK, DispType, ClientType
<1>4. UNCHANGED pending
  BY DEF SendUnbind, SendBind, SkipFrame, SendFrame, ackVars
<1>5. \A c \in Display \ {d} : disp'[c] = disp[c] /\ client'[c] = client[c]
  BY <1>3 DEF SendUnbind, SendBind, SkipFrame, SendFrame
<1>6. disp'[d] = disp[d] \/ disp'[d].conn = "leaving"
  <2>1. CASE SendFrame(d)
    BY <1>3, <2>1 DEF SendFrame, Displays
  <2>2. CASE SendUnbind(d) \/ SendBind(d) \/ SkipFrame(d)
    BY <2>2 DEF SendUnbind, SendBind, SkipFrame
  <2> QED BY <2>1, <2>2
<1>7. IF Head(o).kind = "unbind" THEN client'[d].unacked = u \cup {Head(o)} ELSE client'[d].unacked = u
  <2>1. CASE SendUnbind(d)
    BY <1>3, <2>1 DEF SendUnbind, Clients
  <2>2. CASE SendBind(d)
    BY <1>3, <2>2 DEF SendBind, Clients
  <2>3. CASE SkipFrame(d) \/ SendFrame(d)
    BY <2>3 DEF SkipFrame, SendFrame
  <2> QED BY <2>1, <2>2, <2>3
<1>8. \A w \in Nat : Comes(o, u, w) => Comes(Tail(o), client'[d].unacked, w)
  <2> HIDE DEF o, u
  <2> QED BY <1>2, <1>7, ComesTail
<1>9. ASSUME NEW c \in Display
      PROVE  /\ disp[c].conn # "new" => disp'[c].conn # "new"
             /\ disp[c].conn # "new" /\ disp'[c].conn = "up" =>
                  /\ disp[c].conn = "up"
                  /\ \A w \in Nat : Comes(out[c], client[c].unacked, w) => Comes(out'[c], client'[c].unacked, w)
  <2>1. CASE c = d
    BY <1>2, <1>6, <1>8, <2>1
  <2>2. CASE c # d
    BY <1>2, <1>5, <2>2
  <2> QED BY <2>1, <2>2
<1> QED BY <1>4, <1>9, AckKept

LEMMA ClientAcks ==
    ASSUME TypeOK, AckInv, NEW d \in Display, AckUnbind(d) \/ ImportFailed(d)
    PROVE  AckInv'
<1>1. client \in [Display -> Clients]
  BY DEF TypeOK, ClientType
<1>2. CASE AckUnbind(d)
  <2>1. PICK m \in client[d].unacked :
          /\ client' = [client EXCEPT ![d].unacked = @ \ {m}]
          /\ pending' = pending \ {<<d, m.wire>>}
    BY <1>2 DEF AckUnbind
  <2>2. UNCHANGED <<disp, out>>
    BY <1>2 DEF AckUnbind
  <2>3. /\ client'[d].unacked = client[d].unacked \ {m}
        /\ \A c \in Display \ {d} : client'[c] = client[c]
    BY <1>1, <2>1 DEF Clients
  <2>4. ASSUME NEW w \in Nat, <<d, w>> \in pending', Comes(out[d], client[d].unacked, w)
        PROVE  Comes(out[d], client'[d].unacked, w)
    <3>1. w # m.wire
      BY <2>1, <2>4
    <3> QED BY <2>3, <2>4, <3>1 DEF Comes
  <2>5. ASSUME NEW c \in Display, NEW w \in Nat, <<c, w>> \in pending', Comes(out[c], client[c].unacked, w)
        PROVE  Comes(out[c], client'[c].unacked, w)
    BY <2>3, <2>4, <2>5
  <2>6. pending' \subseteq pending
    BY <2>1
  <2> QED BY <2>2, <2>5, <2>6, AckKept
<1>3. CASE ImportFailed(d)
  <2>1. PICK w : client' = [client EXCEPT ![d].fails = @ \ {w}]
    BY <1>3, FailureInvalidates
  <2>2. \A c \in Display : client'[c].unacked = client[c].unacked
    BY <1>1, <2>1 DEF Clients
  <2>3. UNCHANGED out /\ \A c \in Display : disp'[c].conn = disp[c].conn
    BY <1>3, FailureInvalidates
  <2>4. UNCHANGED pending
    BY <1>3 DEF ImportFailed, ackVars
  <2> QED BY <2>2, <2>3, <2>4, AckSame
<1> QED BY <1>2, <1>3

LEMMA EventAcks ==
    ASSUME TypeOK, AckInv, EventTask
    PROVE  AckInv'
<1> DEFINE e == Head(events)
<1>1. e \in EventMsgs /\ e.seq \in Nat
  <2>1. events \in Seq(EventMsgs) /\ events # <<>>
    BY DEF EventTask, TypeOK, EventType
  <2>2. e \in EventMsgs
    BY <2>1
  <2> QED BY <2>2 DEF EventMsgs
<1>2. UNCHANGED <<client, pending>>
  BY DEF EventTask, ackVars
<1>3. FanOut(e) \/ UNCHANGED <<disp, out>>
  BY <1>1 DEF EventTask, EventMsgs
<1> HIDE DEF e
<1>4. CASE UNCHANGED <<disp, out>>
  BY <1>2, <1>4, AckSame
<1>5. CASE FanOut(e)
  <2>1. ASSUME NEW d \in Display
        PROVE  /\ disp'[d].conn = disp[d].conn
               /\ \A w \in Nat : Comes(out[d], client[d].unacked, w) => Comes(out'[d], client[d].unacked, w)
    <3> DEFINE m == FrameMsg(disp[d].bound.wire, attached, e.seq, disp[d].epoch)
    <3>1. /\ disp[d] \in Displays /\ out[d] \in Seq(Msgs)
          /\ disp[d].bound.wire \in Nat /\ attached \in ProcIds /\ disp[d].epoch \in Nat
      BY DEF TypeOK, DispType, OutType, SlotType, Displays, Bindings
    <3>2. m \in Msgs
      BY <1>1, <3>1, MsgTypes
    <3>3. IF Recipient(d, e) /\ disp[d].conn = "up"
          THEN disp'[d] = Fanned(disp[d], e.seq) /\ out'[d] = out[d] \o <<m>>
          ELSE disp'[d] = disp[d] /\ out'[d] = out[d]
      BY <1>1, <1>5, FanOutIs DEF TypeOK
    <3>4. Fanned(disp[d], e.seq).conn = disp[d].conn
      BY <3>1 DEF Fanned, Displays
    <3> HIDE DEF m
    <3>5. <<m>> \in Seq(Msgs)
      BY <3>2
    <3>6. \A w \in Nat : Comes(out[d], client[d].unacked, w) => Comes(out[d] \o <<m>>, client[d].unacked, w)
      BY <3>1, <3>5, ComesGrows
    <3> QED BY <3>3, <3>4, <3>6
  <2> QED BY <1>2, <2>1, AckKept
<1> QED BY <1>3, <1>4, <1>5

LEMMA AckInit == Init => AckInv
BY DEF Init, AckInv

LEMMA AckNext == TypeOK /\ AckInv /\ [Next]_vars => AckInv'
<1> SUFFICES ASSUME TypeOK, AckInv, [Next]_vars PROVE AckInv'
  OBVIOUS
<1>0. DispType
  BY DEF TypeOK
<1>1. CASE \E t \in Tasks : Section(t)
  <2>1. PICK t \in Tasks : Section(t)
    BY <1>1
  <2>2. CASE SyncOne(t)
    <3>1. PICK d \in Self(t).todo : SyncDisplay(d)
      BY <2>2 DEF SyncOne
    <3>2. d \in Display /\ UNCHANGED client
      BY <2>2, <3>1, SelfType DEF SyncOne, At, TypeOK, Sections, Locals
    <3> QED BY <3>1, <3>2, SyncAcks
  <2>3. CASE Activate(t) \/ DetachForRestart(t)
    <3>1. UNCHANGED pending
      BY <2>3 DEF Activate, DetachForRestart, ackVars
    <3>2. UNCHANGED <<out, client>> /\ \A d \in Display : disp'[d].conn = disp[d].conn
      BY <1>0, <2>3, Invalidates
    <3> QED BY <3>1, <3>2, AckSame
  <2>4. CASE \/ BeginRetainedStop(t) \/ ArmTracking(t) \/ FinishRetainedStop(t) \/ AwaitUnbindAcks(t)
             \/ AckTimeout(t) \/ StopGeneration(t) \/ SettleExit(t) \/ RequestStart(t) \/ AdvanceStart(t)
             \/ SpawnProcess(t) \/ AttachProcess(t) \/ RegisteredStopped(t) \/ SyncAttached(t)
             \/ PickScheme(t) \/ SendDirective(t) \/ RecordScheme(t)
    <3>1. UNCHANGED <<disp, out, client>>
      BY <2>4 DEF BeginRetainedStop, ArmTracking, FinishRetainedStop, AwaitUnbindAcks, AckTimeout,
                  StopGeneration, SettleExit, RequestStart, AdvanceStart, SpawnProcess, AttachProcess,
                  RegisteredStopped, SyncAttached, PickScheme, SendDirective, RecordScheme
    <3>2. pending' \subseteq pending
      BY <2>4 DEF BeginRetainedStop, ArmTracking, FinishRetainedStop, AwaitUnbindAcks, AckTimeout,
                  StopGeneration, SettleExit, RequestStart, AdvanceStart, SpawnProcess, AttachProcess,
                  RegisteredStopped, SyncAttached, PickScheme, SendDirective, RecordScheme, ackVars
    <3> QED BY <3>1, <3>2, AckSame
  <2> QED BY <2>1, <2>2, <2>3, <2>4 DEF Section
<1>2. CASE \E t \in Ctl : Requests(t)
  <2>1. PICK t \in Ctl : Requests(t)
    BY <1>2
  <2>2. UNCHANGED pending
    BY <2>1 DEF Requests, SetManualStop, Restart, ClearAssignments, SetDisplayPaused, ackVars
  <2>3. CASE ClearAssignments(t) \/ SetDisplayPaused(t)
    <3>1. UNCHANGED <<out, client>> /\ \A d \in Display : disp'[d].conn = disp[d].conn
      BY <1>0, <2>3, TaskOf, Invalidates
    <3> QED BY <2>2, <3>1, AckSame
  <2>4. CASE SetManualStop(t) \/ Restart(t)
    <3>1. UNCHANGED <<disp, out, client>>
      BY <2>4 DEF SetManualStop, Restart
    <3> QED BY <2>2, <3>1, AckSame
  <2> QED BY <2>1, <2>3, <2>4 DEF Requests
<1>3. CASE \E p \in Procs : Renderer(p) \/ ProcessCrashes(p)
  <2>1. UNCHANGED <<disp, out, client, pending>>
    BY <1>3 DEF Renderer, ReadFormatCaps, ReadBindBuffers, RetireFences, ReadFrameReady, ProcessCrashes, ackVars
  <2> QED BY <2>1, AckSame
<1>4. CASE \E d \in Display : Session(d) \/ ClientLeaves(d)
  BY <1>4, SessionAcks, LoopAcks, ClientAcks DEF Session
<1>5. CASE EventTask
  BY <1>5, EventAcks
<1>6. CASE ProcessExitReceived \/ UNCHANGED vars
  <2>1. UNCHANGED <<disp, out, client, pending>>
    BY <1>6 DEF ProcessExitReceived, vars, ackVars
  <2> QED BY <2>1, AckSame
<1> QED BY <1>1, <1>2, <1>3, <1>4, <1>5, <1>6 DEF Next, Rest

-----------------------------------------------------------------------------
(* The theorems. *)

LEMMA BindingInvariant == Spec => []BindingInv
<1>1. Init => BindingInv
  BY TypeInit, StreamInit, AckInit DEF BindingInv
<1>2. BindingInv /\ [Next]_vars => BindingInv'
  BY TypeNext, StreamNext, AckNext DEF BindingInv
<1> QED BY <1>1, <1>2, PTL DEF Spec

\* Every variable of the routing, of the renderer and of the sessions keeps its type.
THEOREM BindingTypeCorrect == Spec => []TypeOK
<1>1. BindingInv => TypeOK
  BY DEF BindingInv
<1> QED BY <1>1, BindingInvariant, PTL

\* A frame that forward_frame_ready will still let through is one of the binding the
\* router has now, on a link that is enabled, and of no binding that failed to import.
THEOREM PermitsFit == Spec => []PermitFits
<1>1. BindingInv => PermitFits
  <2> SUFFICES ASSUME TypeOK, StreamInv, NEW d \in Display, NEW i \in DOMAIN out[d]
               PROVE  LET m == out[d][i]
                      IN  m.kind = "frame" /\ m.epoch = disp[d].epoch =>
                            /\ disp[d].link = "on"
                            /\ disp[d].bound.wire = m.wire /\ disp[d].bound.proc = m.proc
                            /\ disp[d].failed # m.wire
    BY DEF BindingInv, PermitFits
  <2>1. i \in 1 .. Len(out[d])
    BY DEF TypeOK, OutType
  <2> QED BY <2>1 DEF StreamInv, StreamFits, Permits
<1> QED BY <1>1, BindingInvariant, PTL

\* ShownAt follows the stream from its front: by the least message at which it would not
LEMMA ShownIs ==
    ASSUME TypeOK, StreamInv, NEW d \in Display, disp[d].conn = "up"
    PROVE  \A i \in 1 .. Len(out[d]) + 1 : ShownAt(d, i) = Before(out[d], client[d].shown, i)
<1> DEFINE o == out[d]
           s == client[d].shown
           bad == {i \in 1 .. Len(o) + 1 : ShownAt(d, i) # Before(o, s, i)}
           binds(i) == {j \in 1 .. i - 1 : o[j].kind # "frame"}
           latest(i) == CHOOSE k \in binds(i) : \A l \in binds(i) : l <= k
<1>1. o \in Seq(Msgs) /\ Len(o) \in Nat /\ Chained(disp[d], o, s)
  BY DEF TypeOK, OutType, StreamInv, StreamFits
<1>2. ASSUME NEW i
      PROVE  ShownAt(d, i) = IF binds(i) = {} THEN s
                             ELSE IF o[latest(i)].kind = "bind" THEN o[latest(i)].wire ELSE 0
  BY DEF ShownAt
<1>3. ASSUME bad # {} PROVE FALSE
  <2>1. bad \in SUBSET Nat
    BY <1>1
  <2>2. PICK i \in bad : \A k \in bad : i <= k
    <3> HIDE DEF bad
    <3> QED BY <1>3, <2>1, Least
  <2>3. i \in 1 .. Len(o) + 1 /\ i \in Nat
    BY <1>1, <2>2
  <2>4. CASE i = 1
    <3>1. binds(1) = {}
      OBVIOUS
    <3> QED BY <2>2, <2>4, <3>1 DEF ShownAt, Before
  <2>5. CASE i # 1
    <3> DEFINE j == i - 1
               m == o[j]
    <3>1. j \in 1 .. Len(o) /\ j \in Nat /\ i = j + 1
      BY <1>1, <2>3, <2>5
    <3>2. ShownAt(d, j) = Before(o, s, j)
      <4>1. j \notin bad
        BY <2>2, <2>3, <3>1
      <4>2. j \in 1 .. Len(o) + 1
        BY <1>1, <3>1
      <4> QED BY <4>1, <4>2
    <3>3. Before(o, s, i) = After(m)
      BY <2>5 DEF Before
    <3>4. CASE m.kind = "frame"
      <4>1. binds(i) = binds(j)
        <5> HIDE DEF j
        <5>1. \A k \in Nat : k \in 1 .. i - 1 <=> (k \in 1 .. j - 1 \/ k = j)
          BY <3>1
        <5> QED BY <3>1, <3>4, <5>1
      <4>2. ShownAt(d, i) = ShownAt(d, j)
        <5> HIDE DEF binds, j, o, s
        <5> QED BY <1>2, <4>1
      <4>3. Before(o, s, j) = m.wire /\ After(m) = m.wire
        <5> HIDE DEF j
        <5> QED BY <1>1, <3>1, <3>4 DEF Chained, After
      <4> QED BY <2>2, <3>2, <3>3, <4>2, <4>3
    <3>5. CASE m.kind # "frame"
      <4>1. j \in binds(i) /\ \A l \in binds(i) : l <= j
        BY <2>3, <3>1, <3>5
      <4>2. \A k \in binds(i) : (\A l \in binds(i) : l <= k) => k = j
        BY <2>3, <3>1, <4>1
      <4>3. latest(i) = j
        <5> HIDE DEF binds, j
        <5> QED BY <4>1, <4>2
      <4>4. ShownAt(d, i) = IF m.kind = "bind" THEN m.wire ELSE 0
        <5>1. binds(i) # {}
          BY <4>1
        <5> HIDE DEF binds, latest, j, o, s
        <5> QED BY <1>2, <4>3, <5>1
      <4>5. m.kind \in {"unbind", "bind", "frame"}
        <5>1. m \in Msgs
          BY <1>1, <3>1
        <5> QED BY <5>1 DEF Msgs
      <4> QED BY <2>2, <3>3, <3>5, <4>4, <4>5 DEF After
    <3> QED BY <3>4, <3>5
  <2> QED BY <2>4, <2>5
<1> QED BY <1>3

\* The stream a client reads is well formed, whoever wrote to the channel: a frame and an
\* unbind name the binding before them, no binding replaces another without an unbind,
\* and no frame is sent twice to a binding or out of order.
THEOREM StreamWellFormed == Spec => []FrameFits
<1>1. BindingInv => FrameFits
  <2> SUFFICES ASSUME TypeOK, StreamInv, NEW d \in Display, disp[d].conn = "up"
               PROVE  /\ \A i \in DOMAIN out[d] :
                           LET m == out[d][i]
                           IN  ShownAt(d, i) = IF m.kind = "bind" THEN 0 ELSE m.wire
                      /\ disp[d].bound.wire = ShownAt(d, Len(out[d]) + 1)
                      /\ \A i, j \in DOMAIN out[d] :
                           i < j /\ out[d][i].kind = "frame" /\ out[d][j].kind = "frame"
                                 /\ out[d][i].wire = out[d][j].wire
                             => out[d][i].seq < out[d][j].seq
    BY DEF BindingInv, FrameFits
  <2>1. out[d] \in Seq(Msgs) /\ DOMAIN out[d] = 1 .. Len(out[d]) /\ Len(out[d]) \in Nat
    BY DEF TypeOK, OutType
  <2>2. Chained(disp[d], out[d], client[d].shown) /\ Ordered(disp[d], out[d])
    BY DEF StreamInv, StreamFits
  <2>3. \A i \in 1 .. Len(out[d]) : ShownAt(d, i) = IF out[d][i].kind = "bind" THEN 0 ELSE out[d][i].wire
    <3>1. \A i \in 1 .. Len(out[d]) : ShownAt(d, i) = Before(out[d], client[d].shown, i)
      BY <2>1, ShownIs
    <3> QED BY <2>2, <3>1 DEF Chained
  <2>4. disp[d].bound.wire = ShownAt(d, Len(out[d]) + 1)
    <3>1. Len(out[d]) + 1 \in 1 .. Len(out[d]) + 1
      BY <2>1
    <3>2. ShownAt(d, Len(out[d]) + 1) = Before(out[d], client[d].shown, Len(out[d]) + 1)
      BY <3>1, ShownIs
    <3> QED BY <2>2, <3>2 DEF Chained
  <2>5. \A i, j \in 1 .. Len(out[d]) :
           i < j /\ out[d][i].kind = "frame" /\ out[d][j].kind = "frame"
                 /\ out[d][i].wire = out[d][j].wire
             => out[d][i].seq < out[d][j].seq
    BY <2>2 DEF Ordered
  <2> QED BY <2>1, <2>3, <2>4, <2>5
<1> QED BY <1>1, BindingInvariant, PTL

\* A stop waits only for acknowledgements that can still come: as long as the display is
\* connected, an unbind that is pending is with the client or on the way to it.
THEOREM AcksLive == Spec => []PendingLive
<1>1. BindingInv => PendingLive
  <2> SUFFICES ASSUME TypeOK, AckInv, NEW a \in pending, disp[a[1]].conn = "up"
               PROVE  \E m \in Unacknowledged(a[1]) : m.wire = a[2]
    BY DEF BindingInv, PendingLive
  <2>1. PICK d \in Display, w \in Nat : a = <<d, w>>
    BY DEF TypeOK, AckType
  <2>2. Comes(out[d], client[d].unacked, w)
    BY <2>1 DEF AckInv
  <2>3. DOMAIN out[d] = 1 .. Len(out[d])
    BY DEF TypeOK, OutType
  <2>4. \E m \in Unacknowledged(d) : m.wire = w
    BY <2>2, <2>3 DEF Comes, Unacknowledged
  <2> QED BY <2>1, <2>4
<1> QED BY <1>1, BindingInvariant, PTL
=============================================================================
