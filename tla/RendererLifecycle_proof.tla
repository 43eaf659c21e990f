---------------------- MODULE RendererLifecycle_proof ----------------------
(***************************************************************************)
(* Proofs about RendererLifecycle, for any number of handlers and requests *)
(* (routing/router/lifecycle.rs, slot.rs, renderer_manager/mod.rs).        *)
(*                                                                         *)
(* The argument follows one generation from the section that spawns it to  *)
(* the section that settles its exit.  At most one section of a stack is   *)
(* about a process that is being started or stopped: the work of the task. *)
(* Works, exits on their way and processes agree (WorkInv), a generation   *)
(* that exists or is about to be spawned is the one of the slot (ClaimInv),*)
(* and whoever waits for the slot to be settled finds somebody at it.      *)
(***************************************************************************)
EXTENDS RendererLifecycle, SequenceTheorems, TLAPS

-----------------------------------------------------------------------------
(* Stacks. *)

\* Sections that bring up the process of a start
Starter == {"spawn", "spawning", "spawnError", "get", "attach", "cleanup"}

\* Sections about one process; all but "spawn" are only ever the running one
Special == Starter \cup {"exiting", "settle"}

Elems(s) == {s[i] : i \in 1 .. Len(s)}

\* A special section is the first, or a spawn right behind the cancellation of its deadline
Shape(s) ==
    \A i \in 2 .. Len(s) :
        s[i].op \in Special => i = 2 /\ s[2].op = "spawn" /\ s[1].op = "cancel"

NoWork == [op |-> "none", gen |-> 0, token |-> 0]

\* The special section of a stack
Work(s) ==
    IF s # <<>> /\ s[1].op \in Special THEN s[1]
    ELSE IF Len(s) > 1 /\ s[2].op = "spawn" THEN s[2]
    ELSE NoWork

\* Sections with the locals that belong to them
Typed(c) ==
    /\ c.op \in {"request", "reconcile", "applied"} => c.cause \in Causes
    /\ c.op = "settle" => c.cause \in ExitKinds
    /\ c.op \in {"advance", "schedule"} \cup Starter => c.token # 0
    /\ c.op \in {"detach", "stop"} \cup Special => c.gen # 0

TypedCalls == {c \in Calls : Typed(c)}

-----------------------------------------------------------------------------
(* The inductive invariant. *)

TypeInv ==
    /\ TypeOK
    /\ task \in [Tasks -> Seq(TypedCalls)]
    /\ \A t \in Tasks : Shape(task[t])

\* Generations are numbered in the order of the starts, one for each token at most
CountInv ==
    /\ slot.spec <= ops + 1
    /\ nextGen <= nextToken
    /\ slot.pending # NoStart => nextGen < nextToken
    /\ slot.gen < nextGen
    /\ \A g \in Gens : g >= nextGen => proc[g] = "none"
    /\ \A t \in Tasks : \A c \in Elems(task[t]) : c.gen < nextGen

work(t) == Work(task[t])

ProcOf(op) ==
    CASE op = "spawn"      -> {"none"}
      [] op = "spawning"   -> {"spawning"}
      [] op = "spawnError" -> {"dead"}
      [] op = "exiting"    -> {"exiting"}
      [] op = "settle"     -> {"dead"}
      [] OTHER             -> {"up", "exiting", "reaping", "dead"}

\* A section finds its process in the state it expects
WorkProc == \A t \in Tasks : work(t).op \in Special => proc[work(t).gen] \in ProcOf(work(t).op)

\* A process is brought up by one task, and awaited by one
WorkOwner ==
    \A t, u \in Tasks :
        /\ work(t).gen = work(u).gen
        /\ \/ work(t).op \in Starter /\ work(u).op \in Starter
           \/ work(t).op = "exiting" /\ work(u).op = "exiting"
        => t = u

ExitsDead == \A i \in 1 .. Len(exits) : proc[exits[i].gen] = "dead"

LiveUp == \A g \in Gens : proc[g] = "up" <=> live = g

WorkInv == WorkProc /\ WorkOwner /\ ExitsDead /\ LiveUp

\* A process, or a spawn decided on
Claimed(g) == g \in Existing \/ \E t \in Tasks : work(t).op = "spawn" /\ work(t).gen = g

ClaimInv ==
    /\ \A g, h \in Gens : Claimed(g) /\ Claimed(h) => g = h
    /\ slot.state # "Removed" => \A g \in Gens : Claimed(g) => slot.gen = g

\* The process of a start is the slot's only until it is attached
StartInv ==
    /\ \A t \in Tasks : work(t).op \in Starter /\ work(t).gen = slot.gen
         => slot.state \in {"Starting", "Stopping"} /\ slot.start = work(t).token
    /\ table # 0 => slot.start = 0

\* If g is still the slot's generation it is being stopped
Ending(g) == slot.gen = g => slot.state = "Stopping"

\* What is to be stopped or detached is being stopped, at the latest by the running section
EndInv ==
    \A t \in Tasks : \A c \in Elems(task[t]) :
        /\ c.op = "stop" => Ending(c.gen)
        /\ c.op = "detach" => Ending(c.gen) \/ task[t][1].op = "begin"

Waiting(g) ==
    \/ proc[g] \in {"none", "spawning", "up"}
         /\ \E t \in Tasks : work(t).op \in Starter /\ work(t).gen = g
    \/ proc[g] = "reaping"
    \/ proc[g] = "dead" /\ \/ \E t \in Tasks : work(t).op \in {"spawnError", "settle"} /\ work(t).gen = g
                           \/ \E i \in 1 .. Len(exits) : exits[i].gen = g

\* A start is under way as long as the slot says so
StartingInv == slot.state = "Starting" => Waiting(slot.gen)

Stops(kind) ==
    {"reconcile", "begin", "attached"} \cup (IF kind = "auto" THEN {"lifecycle"} ELSE {})

\* Whoever runs against a stop request will be stopped
InhibitInv ==
    slot.state = "Running" =>
        \A kind \in inhibit : \E t \in Tasks : \E c \in Elems(task[t]) : c.op \in Stops(kind)

IInv ==
    /\ TypeInv /\ CountInv /\ WorkInv /\ ClaimInv /\ TableIsSlot /\ StartInv
    /\ EndInv /\ StartingInv /\ InhibitInv

-----------------------------------------------------------------------------
(* Lemmas about stacks. *)

LEMMA TypedAreCalls == TypedCalls \subseteq Calls
  BY DEF TypedCalls

\* The stack that is left when the running section is replaced by c
LEMMA StackOf ==
  ASSUME NEW s \in Seq(TypedCalls), s # <<>>, NEW c \in Seq(TypedCalls)
  PROVE  /\ c \o Tail(s) \in Seq(TypedCalls)
         /\ Len(c \o Tail(s)) = Len(c) + Len(s) - 1
         /\ \A i \in 1 .. Len(c \o Tail(s)) :
              (c \o Tail(s))[i] = IF i <= Len(c) THEN c[i] ELSE s[i - Len(c) + 1]
         /\ Len(c) \in Nat /\ Len(s) \in Nat \ {0}
<1>1. /\ Tail(s) \in Seq(TypedCalls) /\ Len(Tail(s)) = Len(s) - 1
      /\ \A i \in 1 .. Len(Tail(s)) : Tail(s)[i] = s[i + 1]
  BY HeadTailProperties
<1>2. Len(c) \in Nat /\ Len(s) \in Nat \ {0}
  BY LenProperties, EmptySeq
<1>3. /\ c \o Tail(s) \in Seq(TypedCalls)
      /\ Len(c \o Tail(s)) = Len(c) + Len(Tail(s))
      /\ \A i \in 1 .. Len(c) + Len(Tail(s)) :
           (c \o Tail(s))[i] = IF i <= Len(c) THEN c[i] ELSE Tail(s)[i - Len(c)]
  BY <1>1, ConcatProperties
<1> QED
  BY <1>1, <1>2, <1>3

LEMMA ElemsOf ==
  ASSUME NEW s \in Seq(TypedCalls), s # <<>>, NEW c \in Seq(TypedCalls)
  PROVE  /\ Elems(c \o Tail(s)) \subseteq Elems(c) \cup Elems(s)
         /\ Elems(c) \subseteq Elems(c \o Tail(s))
         /\ Elems(s) \subseteq {s[1]} \cup Elems(c \o Tail(s))
         /\ s[1] \in Elems(s)
<1> DEFINE r == c \o Tail(s)
<1>1. /\ Len(r) = Len(c) + Len(s) - 1
      /\ \A i \in 1 .. Len(r) : r[i] = IF i <= Len(c) THEN c[i] ELSE s[i - Len(c) + 1]
      /\ Len(c) \in Nat /\ Len(s) \in Nat \ {0}
  BY StackOf
<1> HIDE DEF r
<1>2. ASSUME NEW x \in Elems(r)
      PROVE  x \in Elems(c) \cup Elems(s)
  <2>1. PICK i \in 1 .. Len(r) : x = r[i]
    BY DEF Elems
  <2>2. CASE i <= Len(c)
    BY <1>1, <2>1, <2>2 DEF Elems
  <2>3. CASE i > Len(c)
    <3>1. x = s[i - Len(c) + 1] /\ i - Len(c) + 1 \in 1 .. Len(s)
      BY <1>1, <2>1, <2>3
    <3> QED BY <3>1 DEF Elems
  <2> QED BY <1>1, <2>2, <2>3
<1>3. ASSUME NEW x \in Elems(c)
      PROVE  x \in Elems(r)
  <2>1. PICK i \in 1 .. Len(c) : x = c[i]
    BY DEF Elems
  <2>2. i \in 1 .. Len(r) /\ x = r[i]
    BY <1>1, <2>1
  <2> QED BY <2>2 DEF Elems
<1>4. ASSUME NEW x \in Elems(s), x # s[1]
      PROVE  x \in Elems(r)
  <2>1. PICK i \in 1 .. Len(s) : x = s[i]
    BY DEF Elems
  <2>2. i \in Nat /\ i > 1
    BY <1>1, <1>4, <2>1
  <2> DEFINE j == i - 1 + Len(c)
  <2>3. j \in 1 .. Len(r) /\ j > Len(c) /\ j - Len(c) + 1 = i
    BY <1>1, <2>1, <2>2
  <2> HIDE DEF j
  <2>4. x = r[j]
    BY <1>1, <2>1, <2>3
  <2> QED BY <2>3, <2>4 DEF Elems
<1>5. s[1] \in Elems(s)
  BY <1>1 DEF Elems
<1> QED
  BY <1>2, <1>3, <1>4, <1>5 DEF r

LEMMA ElemsOfTuples ==
  ASSUME NEW a, NEW b, NEW c
  PROVE  /\ Elems(<<>>) = {} /\ Elems(<<a>>) = {a} /\ Elems(<<a, b>>) = {a, b}
         /\ Elems(<<a, b, c>>) = {a, b, c}
<1>1. Elems(<<>>) = {} /\ Elems(<<a>>) = {a}
  BY DEF Elems
<1>2. Elems(<<a, b>>) = {a, b}
  <2>1. 1 .. Len(<<a, b>>) = {1, 2}
    OBVIOUS
  <2> QED BY <2>1 DEF Elems
<1>3. Elems(<<a, b, c>>) = {a, b, c}
  <2>1. 1 .. Len(<<a, b, c>>) = {1, 2, 3}
    OBVIOUS
  <2> QED BY <2>1 DEF Elems
<1> QED BY <1>1, <1>2, <1>3

LEMMA ElemsOfOne ==
  ASSUME NEW a
  PROVE  Elems(<<a>>) = {a}
  BY ElemsOfTuples

LEMMA ElemsOfTwo ==
  ASSUME NEW a, NEW b
  PROVE  Elems(<<a, b>>) = {a, b}
  BY ElemsOfTuples

LEMMA ElemsTyped ==
  ASSUME NEW s \in Seq(TypedCalls)
  PROVE  Elems(s) \subseteq TypedCalls
  BY ElementOfSeq DEF Elems

\* Sections none of which is special
Plain(c) == \A x \in Elems(c) : x.op \notin Special

LEMMA PlainStack ==
  ASSUME NEW s \in Seq(TypedCalls), Plain(s)
  PROVE  Shape(s) /\ Work(s) = NoWork
<1>1. \A i \in 1 .. Len(s) : s[i].op \notin Special
  BY DEF Plain, Elems
<1>2. Len(s) \in Nat /\ (s # <<>> => Len(s) # 0)
  BY LenProperties, EmptySeq
<1> QED
  BY <1>1, <1>2 DEF Shape, Work, Special, Starter

\* Behind a section other than a cancellation nothing is special
LEMMA PlainThen ==
  ASSUME NEW s \in Seq(TypedCalls), s # <<>>, Shape(s), s[1].op # "cancel",
         NEW c \in Seq(TypedCalls), Plain(c)
  PROVE  Shape(c \o Tail(s)) /\ Work(c \o Tail(s)) = NoWork
<1> DEFINE r == c \o Tail(s)
<1>1. /\ r \in Seq(TypedCalls)
      /\ Len(r) = Len(c) + Len(s) - 1
      /\ \A i \in 1 .. Len(r) : r[i] = IF i <= Len(c) THEN c[i] ELSE s[i - Len(c) + 1]
      /\ Len(c) \in Nat /\ Len(s) \in Nat \ {0}
  BY StackOf
<1> HIDE DEF r
<1>2. \A i \in 2 .. Len(s) : s[i].op \notin Special
  BY DEF Shape
<1>3. \A i \in 1 .. Len(c) : c[i].op \notin Special
  BY DEF Plain, Elems
<1>4. ASSUME NEW i \in 1 .. Len(r)
      PROVE  r[i].op \notin Special
  <2>1. CASE i <= Len(c)
    <3>1. i \in 1 .. Len(c)
      BY <1>1, <2>1
    <3> QED BY <1>1, <1>3, <2>1, <3>1
  <2>2. CASE ~(i <= Len(c))
    <3>1. i - Len(c) + 1 \in 2 .. Len(s)
      BY <1>1, <2>2
    <3> QED BY <1>1, <1>2, <2>2, <3>1
  <2> QED BY <2>1, <2>2
<1>5. Plain(r)
  BY <1>4 DEF Plain, Elems
<1>6. Shape(r) /\ Work(r) = NoWork
  BY <1>1, <1>5, PlainStack
<1> QED
  BY <1>6 DEF r

LEMMA CancelThen ==
  ASSUME NEW s \in Seq(TypedCalls), s # <<>>, Shape(s), s[1].op = "cancel"
  PROVE  Shape(<<>> \o Tail(s)) /\ Work(<<>> \o Tail(s)) = Work(s)
<1> DEFINE r == <<>> \o Tail(s)
<1>1. /\ r \in Seq(TypedCalls) /\ Len(r) = Len(s) - 1 /\ Len(s) \in Nat \ {0}
      /\ \A i \in 1 .. Len(r) : r[i] = s[i + 1]
  BY StackOf, EmptySeq
<1> HIDE DEF r
<1>2. \A i \in 2 .. Len(s) : s[i].op \in Special => i = 2 /\ s[2].op = "spawn"
  BY DEF Shape
<1>3. Shape(r)
  BY <1>1, <1>2 DEF Shape
<1>4. r # <<>> <=> Len(s) > 1
  BY <1>1, EmptySeq
<1>5. Work(r) = Work(s)
  BY <1>1, <1>2, <1>4 DEF Work, Special, Starter
<1> QED
  BY <1>3, <1>5 DEF r

LEMMA SpecialThen ==
  ASSUME NEW s \in Seq(TypedCalls), s # <<>>, Shape(s), s[1].op # "cancel",
         NEW e \in TypedCalls, e.op \in Special
  PROVE  Shape(<<e>> \o Tail(s)) /\ Work(<<e>> \o Tail(s)) = e
<1> DEFINE r == <<e>> \o Tail(s)
<1>1. /\ r \in Seq(TypedCalls) /\ Len(r) = Len(s) /\ Len(s) \in Nat \ {0}
      /\ \A i \in 1 .. Len(r) : r[i] = IF i <= 1 THEN e ELSE s[i]
  BY StackOf
<1> HIDE DEF r
<1>2. \A i \in 2 .. Len(s) : s[i].op \notin Special
  BY DEF Shape
<1>3. Shape(r) /\ r # <<>> /\ r[1] = e
  BY <1>1, <1>2, EmptySeq DEF Shape
<1> QED
  BY <1>3 DEF Work, r

LEMMA SpawnThen ==
  ASSUME NEW s \in Seq(TypedCalls), s # <<>>, Shape(s), s[1].op # "cancel",
         NEW x \in TypedCalls, x.op = "cancel", NEW e \in TypedCalls, e.op = "spawn"
  PROVE  Shape(<<x, e>> \o Tail(s)) /\ Work(<<x, e>> \o Tail(s)) = e
<1> DEFINE r == <<x, e>> \o Tail(s)
<1>1. /\ r \in Seq(TypedCalls) /\ Len(r) = Len(s) + 1 /\ Len(s) \in Nat \ {0}
      /\ \A i \in 1 .. Len(r) : r[i] = IF i <= 2 THEN <<x, e>>[i] ELSE s[i - 1]
  BY StackOf
<1> HIDE DEF r
<1>2. \A i \in 2 .. Len(s) : s[i].op \notin Special
  BY DEF Shape
<1>3. Shape(r) /\ r # <<>> /\ r[1] = x /\ r[2] = e /\ Len(r) > 1
  BY <1>1, <1>2, EmptySeq DEF Shape
<1> QED
  BY <1>3 DEF Work, r, Special, Starter

\* The work of a task that runs a section
LEMMA WorkOfRunning ==
  ASSUME NEW s \in Seq(TypedCalls), s # <<>>, Shape(s)
  PROVE  /\ s[1].op \in Special => Work(s) = s[1]
         /\ s[1].op \notin Special \cup {"cancel"} => Work(s) = NoWork
         /\ s[1] \in TypedCalls
<1>1. Len(s) \in Nat \ {0}
  BY LenProperties, EmptySeq
<1>2. s[1] \in TypedCalls
  BY <1>1, ElementOfSeq
<1> QED
  BY <1>1, <1>2 DEF Work, Shape, Special, Starter

LEMMA ElemsConcat ==
  ASSUME NEW a \in Seq(TypedCalls), NEW b \in Seq(TypedCalls)
  PROVE  a \o b \in Seq(TypedCalls) /\ Elems(a \o b) = Elems(a) \cup Elems(b)
<1> DEFINE r == a \o b
<1>1. /\ r \in Seq(TypedCalls) /\ Len(r) = Len(a) + Len(b)
      /\ \A i \in 1 .. Len(r) : r[i] = IF i <= Len(a) THEN a[i] ELSE b[i - Len(a)]
      /\ Len(a) \in Nat /\ Len(b) \in Nat
  BY ConcatProperties, LenProperties
<1> HIDE DEF r
<1>2. Elems(r) \subseteq Elems(a) \cup Elems(b)
  BY <1>1 DEF Elems
<1>3. Elems(a) \subseteq Elems(r)
  BY <1>1 DEF Elems
<1>4. ASSUME NEW x \in Elems(b)
      PROVE  x \in Elems(r)
  <2>1. PICK i \in 1 .. Len(b) : x = b[i]
    BY DEF Elems
  <2>2. i + Len(a) \in 1 .. Len(r) /\ ~(i + Len(a) <= Len(a)) /\ (i + Len(a)) - Len(a) = i
    BY <1>1, <2>1
  <2>3. r[i + Len(a)] = x
    BY <1>1, <2>1, <2>2
  <2> QED BY <2>2, <2>3 DEF Elems
<1> QED
  BY <1>1, <1>2, <1>3, <1>4 DEF r

\* Sections that need no locals
Simple == {"lifecycle", "autolinks", "begin", "cancel", "finish", "resume", "drop", "unregister",
           "orphans", "grace", "rescue", "attached"}

LEMMA SimpleTyped ==
  ASSUME NEW op \in Simple
  PROVE  Run(op) \in TypedCalls /\ Run(op).op = op /\ Run(op).gen = 0
  BY MaxOpsAssumption DEF Simple, Run, TypedCalls, Typed, Calls, Sections, Special, Starter, Uses

LEMMA CausedTyped ==
  ASSUME NEW cause \in Causes, NEW op \in {"request", "reconcile", "applied"}
  PROVE  RunFor(op, cause) \in TypedCalls /\ RunFor(op, cause).op = op /\ RunFor(op, cause).gen = 0
  BY MaxOpsAssumption DEF RunFor, Run, TypedCalls, Typed, Calls, Sections, Special, Starter, Uses

LEMMA StopTyped ==
  ASSUME NEW g \in Gens, NEW use \in Uses
  PROVE  StopOf(g, use) \in TypedCalls /\ StopOf(g, use).op = "stop" /\ StopOf(g, use).gen = g
<1>1. g \in Nat \ {0}
  BY MaxOpsAssumption DEF Gens, Tokens
<1>2. Run("stop") \in Calls /\ Run("stop").op = "stop"
  BY MaxOpsAssumption DEF Run, Calls, Sections, Uses
<1>3. ASSUME NEW r \in Calls, r.op = "stop"
      PROVE  LET s == [r EXCEPT !.gen = g, !.use = use]
             IN  s \in Calls /\ s.op = "stop" /\ s.gen = g
  BY <1>3 DEF Calls
<1>4. StopOf(g, use) \in Calls /\ StopOf(g, use).op = "stop" /\ StopOf(g, use).gen = g
  BY <1>2, <1>3 DEF StopOf
<1> QED
  BY <1>1, <1>4 DEF TypedCalls, Typed, Special, Starter

LEMMA AdvanceTyped ==
  ASSUME NEW k \in Tokens
  PROVE  AdvanceOf(k) \in TypedCalls /\ AdvanceOf(k).op = "advance" /\ AdvanceOf(k).gen = 0
           /\ AdvanceOf(k).token = k
<1>1. k \in Nat \ {0}
  BY MaxOpsAssumption DEF Tokens
<1> QED
  BY <1>1, MaxOpsAssumption DEF AdvanceOf, Run, TypedCalls, Typed, Calls, Sections, Special, Starter, Uses

LEMMA LifecycleTyped ==
  /\ Lifecycle \in Seq(TypedCalls)
  /\ Elems(Lifecycle) \subseteq {Run("lifecycle")}
  /\ "auto" \in Ops => Elems(Lifecycle) = {Run("lifecycle")}
<1>1. Run("lifecycle") \in TypedCalls
  BY SimpleTyped DEF Simple
<1>2. Elems(<<Run("lifecycle")>>) = {Run("lifecycle")} /\ Elems(<<>>) = {}
  BY ElemsOfTuples
<1> QED
  BY <1>1, <1>2 DEF Lifecycle

-----------------------------------------------------------------------------
(* Lemmas about steps.                                                     *)

\* A task goes on with the stack r
LEMMA Moves ==
  ASSUME TypeInv, NEW t \in Tasks, NEW r \in Seq(TypedCalls), Shape(r),
         task' = [task EXCEPT ![t] = r]
  PROVE  /\ task' \in [Tasks -> Seq(TypedCalls)] /\ task' \in [Tasks -> Seq(Calls)]
         /\ \A u \in Tasks : Shape(task'[u])
         /\ \A u \in Tasks : task'[u] = IF u = t THEN r ELSE task[u]
         /\ \A u \in Tasks : work(u)' = IF u = t THEN Work(r) ELSE work(u)
<1>1. Seq(TypedCalls) \subseteq Seq(Calls)
  BY TypedAreCalls, SeqMonotonic
<1>2. task \in [Tasks -> Seq(TypedCalls)]
  BY DEF TypeInv
<1>3. task' \in [Tasks -> Seq(TypedCalls)] /\ \A u \in Tasks : task'[u] = IF u = t THEN r ELSE task[u]
  BY <1>2
<1>4. task' \in [Tasks -> Seq(Calls)]
  BY <1>1, <1>3
<1> QED
  BY <1>3, <1>4 DEF TypeInv, work

\* The running section, which is not special, makes way for sections that are not either
PlainMove(t, c) ==
    /\ t \in Tasks /\ task[t] # <<>>
    /\ task[t][1].op \notin Special
    /\ task[t][1].op = "cancel" => c = <<>>
    /\ c \in Seq(TypedCalls) /\ Plain(c)
    /\ task' = [task EXCEPT ![t] = c \o Tail(task[t])]

LEMMA PlainMoves ==
  ASSUME TypeInv, NEW t, NEW c, PlainMove(t, c)
  PROVE  /\ task' \in [Tasks -> Seq(TypedCalls)] /\ task' \in [Tasks -> Seq(Calls)]
         /\ \A u \in Tasks : Shape(task'[u])
         /\ \A u \in Tasks : work(u)' = work(u)
         /\ \A u \in Tasks : task'[u] = IF u = t THEN c \o Tail(task[t]) ELSE task[u]
<1>1. task[t] \in Seq(TypedCalls) /\ Shape(task[t]) /\ task[t] # <<>> /\ t \in Tasks
      /\ c \in Seq(TypedCalls) /\ Plain(c)
  BY DEF TypeInv, PlainMove
<1> DEFINE r == c \o Tail(task[t])
<1>2. r \in Seq(TypedCalls)
  BY <1>1, StackOf
<1>3. Shape(r) /\ Work(r) = Work(task[t])
  <2>1. CASE task[t][1].op = "cancel"
    BY <1>1, <2>1, CancelThen DEF PlainMove
  <2>2. CASE task[t][1].op # "cancel"
    BY <1>1, <2>2, PlainThen, WorkOfRunning DEF PlainMove
  <2> QED BY <2>1, <2>2
<1>4. task' = [task EXCEPT ![t] = r]
  BY DEF PlainMove
<1> HIDE DEF r
<1>5. /\ task' \in [Tasks -> Seq(TypedCalls)] /\ task' \in [Tasks -> Seq(Calls)]
      /\ \A u \in Tasks : Shape(task'[u])
      /\ \A u \in Tasks : task'[u] = IF u = t THEN r ELSE task[u]
      /\ \A u \in Tasks : work(u)' = IF u = t THEN Work(r) ELSE work(u)
  BY <1>1, <1>2, <1>3, <1>4, Moves
<1> QED
  BY <1>3, <1>5 DEF work, r

\* An idle task begins with sections that are not special
LEMMA PlainBegins ==
  ASSUME TypeInv, NEW t \in Tasks, task[t] = <<>>, NEW c \in Seq(TypedCalls), Plain(c),
         task' = [task EXCEPT ![t] = c]
  PROVE  /\ task' \in [Tasks -> Seq(TypedCalls)] /\ task' \in [Tasks -> Seq(Calls)]
         /\ \A u \in Tasks : Shape(task'[u])
         /\ \A u \in Tasks : work(u)' = work(u)
         /\ \A u \in Tasks : task'[u] = IF u = t THEN c ELSE task[u]
<1>1. Shape(c) /\ Work(c) = NoWork
  BY PlainStack
<1>2. Work(task[t]) = NoWork
  BY LenProperties, EmptySeq DEF Work
<1> QED
  BY <1>1, <1>2, Moves DEF work

\* The sections of task t change: those of c are new, the running one may be gone
Goes(t, c) ==
    /\ t \in Tasks
    /\ \A u \in Tasks \ {t} : task'[u] = task[u]
    /\ Elems(task'[t]) \subseteq Elems(c) \cup Elems(task[t])
    /\ Elems(c) \subseteq Elems(task'[t])
    /\ Elems(task[t]) \subseteq {task[t][1]} \cup Elems(task'[t])

LEMMA ThenGoes ==
  ASSUME TypeInv, NEW t \in Tasks, task[t] # <<>>, NEW c \in Seq(TypedCalls),
         task' = [task EXCEPT ![t] = c \o Tail(task[t])]
  PROVE  Goes(t, c)
<1>1. task \in [Tasks -> Seq(TypedCalls)]
  BY DEF TypeInv
<1>2. task'[t] = c \o Tail(task[t]) /\ \A u \in Tasks \ {t} : task'[u] = task[u]
  BY <1>1
<1>3. task[t] \in Seq(TypedCalls)
  BY <1>1
<1> QED
  BY <1>2, <1>3, ElemsOf DEF Goes

LEMMA BeginsGoes ==
  ASSUME TypeInv, NEW t \in Tasks, task[t] = <<>>, NEW c \in Seq(TypedCalls),
         task' = [task EXCEPT ![t] = c]
  PROVE  Goes(t, c)
<1>1. task'[t] = c /\ \A u \in Tasks \ {t} : task'[u] = task[u]
  BY DEF TypeInv
<1>2. Elems(task[t]) = {}
  BY ElemsOfTuples
<1> QED
  BY <1>1, <1>2 DEF Goes

LEMMA CountGoes ==
  ASSUME TypeInv, CountInv, NEW t, NEW c, Goes(t, c), TypeOK', nextGen <= nextGen',
         \A x \in Elems(c) : x.gen < nextGen'
  PROVE  \A u \in Tasks : \A x \in Elems(task'[u]) : x.gen < nextGen'
<1>1. \A u \in Tasks : \A x \in Elems(task[u]) : x.gen < nextGen /\ x.gen \in Nat
  <2>1. \A u \in Tasks : Elems(task[u]) \subseteq TypedCalls
    BY ElemsTyped DEF TypeInv
  <2>2. \A x \in TypedCalls : x.gen \in Nat
    BY MaxOpsAssumption DEF TypedCalls, Calls, Gens, Tokens
  <2> QED BY <2>1, <2>2 DEF CountInv
<1>2. nextGen \in Nat /\ nextGen' \in Nat
  BY MaxOpsAssumption DEF TypeInv, TypeOK
<1>3. \A u \in Tasks : \A x \in Elems(task[u]) : x.gen < nextGen'
  BY <1>1, <1>2
<1> QED
  BY <1>3 DEF Goes

LEMMA EndGoes ==
  ASSUME TypeInv, CountInv, EndInv, NEW t, NEW c, Goes(t, c),
         \A g \in Gens : g < nextGen /\ Ending(g) => Ending(g)',
         \A x \in Elems(c) : /\ x.op = "stop" => Ending(x.gen)'
                             /\ x.op = "detach" => Ending(x.gen)' \/ task'[t][1].op = "begin",
         task[t] # <<>> /\ task[t][1].op = "begin" => \A g \in Gens : Ending(g)'
  PROVE  EndInv'
<1>1. \A u \in Tasks : \A x \in Elems(task[u]) :
        x.op \in {"stop", "detach"} => x.gen \in Gens /\ x.gen < nextGen
  <2>1. \A u \in Tasks : Elems(task[u]) \subseteq TypedCalls
    BY ElemsTyped DEF TypeInv
  <2>2. \A x \in TypedCalls : x.op \in {"stop", "detach"} => x.gen \in Gens
    BY DEF TypedCalls, Typed, Calls
  <2> QED BY <2>1, <2>2 DEF CountInv
<1>2. ASSUME NEW u \in Tasks, NEW x \in Elems(task'[u])
      PROVE  /\ x.op = "stop" => Ending(x.gen)'
             /\ x.op = "detach" => Ending(x.gen)' \/ task'[u][1].op = "begin"
  <2>1. CASE u # t
    <3>1. task'[u] = task[u] /\ x \in Elems(task[u])
      BY <1>2, <2>1 DEF Goes
    <3> QED BY <3>1, <1>1 DEF EndInv
  <2>2. CASE u = t /\ x \in Elems(c)
    BY <2>2
  <2>3. CASE u = t /\ x \in Elems(task[t])
    <3>1. task[t] # <<>>
      BY <2>3, ElemsOfTuples
    <3>2. t \in Tasks
      BY DEF Goes
    <3>3. x.op \in {"stop", "detach"} => x.gen \in Gens /\ x.gen < nextGen
      BY <1>1, <2>3, <3>2
    <3>4. x.op = "stop" => Ending(x.gen)'
      BY <2>3, <3>2, <3>3 DEF EndInv
    <3>5. x.op = "detach" => Ending(x.gen)'
      BY <2>3, <3>1, <3>2, <3>3 DEF EndInv
    <3> QED BY <3>4, <3>5
  <2> QED BY <1>2, <2>1, <2>2, <2>3 DEF Goes
<1> QED
  BY <1>2 DEF EndInv

\* A stop that the running section would have carried out is handed on to those of c
HandsOn(t, c) ==
    slot'.state = "Running" =>
        \A kind \in inhibit : task[t] # <<>> /\ task[t][1].op \in Stops(kind)
            => \E x \in Elems(c) : x.op \in Stops(kind)

LEMMA InhibitGoes ==
  ASSUME TypeInv, InhibitInv, NEW t, NEW c, Goes(t, c), HandsOn(t, c),
         slot'.state = "Running" => slot.state = "Running",
         inhibit' \subseteq inhibit
  PROVE  InhibitInv'
<1> SUFFICES ASSUME slot'.state = "Running", NEW kind \in inhibit'
             PROVE  \E u \in Tasks : \E x \in Elems(task'[u]) : x.op \in Stops(kind)
  BY DEF InhibitInv, Stops
<1>1. PICK u \in Tasks : \E x \in Elems(task[u]) : x.op \in Stops(kind)
  BY DEF InhibitInv
<1>2. PICK x \in Elems(task[u]) : x.op \in Stops(kind)
  BY <1>1
<1>3. CASE x \in Elems(task'[u])
  BY <1>2, <1>3
<1>4. CASE x \notin Elems(task'[u])
  <2>1. u = t
    BY <1>4 DEF Goes
  <2>2. task[t] # <<>> /\ x = task[t][1]
    BY <1>4, <2>1, ElemsOfTuples DEF Goes
  <2>3. PICK y \in Elems(c) : y.op \in Stops(kind)
    BY <1>2, <2>2 DEF HandsOn
  <2> QED
    BY <2>3 DEF Goes
<1> QED
  BY <1>3, <1>4

LEMMA WorkTyped ==
  ASSUME TypeInv, NEW t \in Tasks, work(t).op \in Special
  PROVE  /\ work(t) \in TypedCalls /\ work(t) \in Elems(task[t])
         /\ work(t).gen \in Gens /\ work(t).gen # 0
         /\ work(t).op \in Starter => work(t).token \in Tokens
<1>1. task[t] \in Seq(TypedCalls) /\ Len(task[t]) \in Nat /\ (task[t] # <<>> => Len(task[t]) # 0)
  BY LenProperties, EmptySeq DEF TypeInv
<1>2. work(t) \in Elems(task[t])
  BY <1>1 DEF work, Work, Elems, NoWork, Special, Starter
<1>3. work(t) \in TypedCalls
  BY <1>1, <1>2, ElemsTyped
<1> QED
  BY <1>2, <1>3 DEF TypedCalls, Typed, Calls

\* What most sections leave alone: the slot keeps its process and start, or loses both for good
SlotKept ==
    /\ slot'.state # "Removed" =>
         slot.state # "Removed" /\ slot'.gen = slot.gen /\ slot'.start = slot.start
    /\ slot.state = "Stopping" => slot'.state \in {"Stopping", "Removed"}
    /\ HasProcess => HasProcess' \/ slot'.state = "Removed"
    /\ slot'.state = "Starting" => slot.state = "Starting"
    /\ slot'.state = "Running" => slot.state = "Running"

TableKept ==
    /\ table' \in {0, table}
    /\ slot'.state = "Removed" => table' = 0
    /\ slot'.state = "Running" => table' = table

LEMMA EndingKept ==
  ASSUME TypeOK', SlotKept
  PROVE  \A g \in Gens : Ending(g) => Ending(g)'
<1>1. \A g \in Gens : g # 0
  BY MaxOpsAssumption DEF Gens, Tokens
<1>2. slot'.state = "Removed" => slot'.gen = 0
  BY DEF TypeOK, HasProcess
<1> QED
  BY <1>1, <1>2 DEF Ending, SlotKept

LEMMA KeptInv ==
  ASSUME IInv, TypeOK', SlotKept, TableKept, UNCHANGED <<live, proc, exits>>,
         \A t \in Tasks : work(t)' = work(t)
  PROVE  WorkInv' /\ ClaimInv' /\ TableIsSlot' /\ StartInv' /\ StartingInv'
<1>1. \A g \in Gens : g # 0
  BY MaxOpsAssumption DEF Gens, Tokens
<1>2. slot'.state = "Removed" => slot'.gen = 0
  BY DEF TypeOK, HasProcess
<1>3. WorkInv'
  BY DEF IInv, WorkInv, WorkProc, WorkOwner, ExitsDead, LiveUp
<1>4. \A g : Claimed(g)' <=> Claimed(g)
  BY DEF Claimed, Existing
<1>5. ClaimInv'
  BY <1>4 DEF IInv, ClaimInv, SlotKept
<1>6. TableIsSlot'
  BY DEF IInv, TableIsSlot, TableKept, SlotKept, HasProcess
<1>7. \A t \in Tasks : work(t).op \in Starter => work(t).gen # 0
  BY WorkTyped DEF IInv, Special
<1>8. StartInv'
  BY <1>2, <1>7 DEF IInv, StartInv, TableIsSlot, TableKept, SlotKept, HasProcess
<1>9. \A g : Waiting(g)' <=> Waiting(g)
  BY DEF Waiting
<1>10. StartingInv'
  BY <1>2, <1>9 DEF IInv, StartingInv, SlotKept
<1> QED
  BY <1>3, <1>5, <1>6, <1>8, <1>10

-----------------------------------------------------------------------------
(* Lemmas about slots. *)

SlotOK(sl) == sl \in Slots /\ (sl.gen # 0) = (sl.state \in {"Starting", "Running", "Stopping"})

LEMMA StopRequestedSlot ==
  ASSUME NEW sl, SlotOK(sl), NEW keep \in BOOLEAN
  PROVE  LET s == StopRequested(sl, keep)
         IN  /\ SlotOK(s)
             /\ s.gen = sl.gen /\ s.start = sl.start /\ s.spec = sl.spec /\ s.pending = sl.pending
             /\ s.state = IF sl.state \in {"Starting", "Running"} THEN "Stopping" ELSE sl.state
<1>1. CASE sl.state \in {"Starting", "Running"}
  BY <1>1 DEF StopRequested, Slots, SlotOK
<1>2. CASE sl.state \in {"Stopping", "Stopped", "Killed"}
  BY <1>2 DEF StopRequested, Slots, SlotOK
<1>3. CASE sl.state \notin {"Starting", "Running", "Stopping", "Stopped", "Killed"}
  <2>1. StopRequested(sl, keep) = sl
    BY <1>3 DEF StopRequested
  <2> QED BY <1>3, <2>1
<1> QED
  BY <1>1, <1>2, <1>3

LEMMA WithoutPendingSlot ==
  ASSUME NEW sl, SlotOK(sl)
  PROVE  LET s == WithoutPending(sl)
         IN  /\ SlotOK(s) /\ s.pending = NoStart
             /\ s.gen = sl.gen /\ s.start = sl.start /\ s.spec = sl.spec /\ s.state = sl.state
  BY DEF WithoutPending, Slots, SlotOK

LEMMA RemovedSlot ==
  ASSUME NEW sl, SlotOK(sl)
  PROVE  LET s == Removed(sl)
         IN  /\ SlotOK(s) /\ s.pending = NoStart
             /\ s.gen = 0 /\ s.start = 0 /\ s.spec = sl.spec /\ s.state = "Removed"
<1>1. Removed(sl) \in Slots
  BY DEF Removed, Slots, SlotOK
<1>2. LET s == Removed(sl)
      IN  s.pending = NoStart /\ s.gen = 0 /\ s.start = 0 /\ s.spec = sl.spec /\ s.state = "Removed"
  BY DEF Removed, Slots, SlotOK
<1> QED
  BY <1>1, <1>2 DEF SlotOK

LEMMA ExitedSlot ==
  ASSUME NEW sl, SlotOK(sl), NEW kind \in ExitKinds
  PROVE  LET s == Exited(sl, kind)
         IN  /\ SlotOK(s) /\ s.gen = 0 /\ s.start = 0 /\ s.spec = sl.spec
             /\ s.pending \in {sl.pending, NoStart}
             /\ s.state \in ExitKinds \cup {"Removed"}
<1>1. CASE sl.state = "Stopping" /\ ~sl.keep
  BY <1>1, RemovedSlot DEF Exited
<1>2. CASE ~(sl.state = "Stopping" /\ ~sl.keep)
  <2> DEFINE s == [sl EXCEPT !.state = kind, !.gen = 0, !.keep = TRUE, !.start = 0]
  <2>1. s \in Slots
    BY MaxOpsAssumption DEF Slots, SlotOK, ExitKinds
  <2>2. s.gen = 0 /\ s.start = 0 /\ s.spec = sl.spec /\ s.pending = sl.pending /\ s.state = kind
    BY DEF Slots, SlotOK
  <2>3. Exited(sl, kind) = s
    BY <1>2 DEF Exited
  <2> QED
    BY <2>1, <2>2, <2>3 DEF SlotOK, ExitKinds
<1> QED
  BY <1>1, <1>2

LEMMA ReplaceSpecSlot ==
  ASSUME NEW sl, SlotOK(sl), sl.spec <= MaxOps, NEW preempt \in BOOLEAN
  PROVE  LET s == ReplaceSpec(sl, preempt)
         IN  /\ SlotOK(s) /\ s.pending = sl.pending
             /\ s.gen = sl.gen /\ s.start = sl.start /\ s.spec = sl.spec + 1
             /\ \/ s.state = sl.state
                \/ sl.state \in {"Stopped", "Killed", "Failed"} /\ s.state = "Stopped"
<1> DEFINE s == ReplaceSpec(sl, preempt)
<1>1. /\ s.pending = sl.pending /\ s.gen = sl.gen /\ s.start = sl.start /\ s.spec = sl.spec + 1
      /\ \/ s.state = sl.state
         \/ sl.state \in {"Stopped", "Killed", "Failed"} /\ s.state = "Stopped"
  BY DEF ReplaceSpec, Slots, SlotOK
<1>2. s \in Slots
  <2>1. sl.spec + 1 \in 1 .. MaxOps + 1
    BY MaxOpsAssumption DEF Slots, SlotOK
  <2>2. [sl EXCEPT !.spec = @ + 1] \in Slots
    BY <2>1 DEF Slots, SlotOK
  <2>3. \A r \in Slots : [r EXCEPT !.state = "Stopped"] \in Slots /\ [r EXCEPT !.state = r.state] \in Slots
    BY DEF Slots
  <2>4. \/ s = [[sl EXCEPT !.spec = @ + 1] EXCEPT !.state = "Stopped"]
        \/ s = [[sl EXCEPT !.spec = @ + 1] EXCEPT !.state = sl.state]
    BY DEF ReplaceSpec, Slots, SlotOK
  <2>5. [sl EXCEPT !.spec = @ + 1].state = sl.state
    BY DEF Slots, SlotOK
  <2> QED
    BY <2>2, <2>3, <2>4, <2>5
<1> HIDE DEF s
<1>3. SlotOK(s)
  BY <1>1, <1>2 DEF SlotOK
<1> QED
  BY <1>1, <1>3 DEF s

-----------------------------------------------------------------------------
(* Steps that leave processes and works alone. *)

\* TypeOK and CountInv without the tasks
DataOK ==
    /\ SlotOK(slot)
    /\ link \in {"none", "off", "on"}
    /\ inhibit \subseteq {"manual", "auto"}
    /\ marks \subseteq {"renderer", "display"}
    /\ grace \in BOOLEAN
    /\ table \in Gens \cup {0} /\ live \in Gens \cup {0}
    /\ proc \in [Gens -> {"none", "spawning", "up", "exiting", "reaping", "dead"}]
    /\ exits \in Seq([gen : Gens, kind : ExitKinds])
    /\ sched \in Tokens \cup {0} /\ due \subseteq Tokens /\ fired \in Seq(Tokens)
    /\ nextGen \in 1 .. 2 * MaxOps + 2 /\ nextToken \in 1 .. 2 * MaxOps + 2
    /\ ops \in 0 .. MaxOps

CountOK ==
    /\ slot.spec <= ops + 1
    /\ nextGen <= nextToken
    /\ slot.pending # NoStart => nextGen < nextToken
    /\ slot.gen < nextGen
    /\ \A g \in Gens : g >= nextGen => proc[g] = "none"

LEMMA DataIsType == TypeOK <=> DataOK /\ task \in [Tasks -> Seq(Calls)]
  BY DEF DataOK, TypeOK, SlotOK, HasProcess

LEMMA Counters ==
  ASSUME DataOK
  PROVE  nextGen \in Nat /\ nextToken \in Nat /\ ops \in Nat
<1>1. nextGen \in 1 .. 2 * MaxOps + 2 /\ nextToken \in 1 .. 2 * MaxOps + 2 /\ ops \in 0 .. MaxOps
  BY DEF DataOK
<1> QED
  BY <1>1, MaxOpsAssumption

LEMMA GensAreNumbers == Gens \subseteq Nat \ {0}
  BY MaxOpsAssumption DEF Gens, Tokens

LEMMA GoodState ==
  ASSUME IInv
  PROVE  DataOK /\ CountOK /\ TypeOK
  BY DataIsType DEF IInv, TypeInv, CountInv, CountOK

\* What is to be known of the sections a step adds
Adds(t, c) ==
    \A x \in Elems(c) : /\ x.gen < nextGen'
                        /\ x.op = "stop" => Ending(x.gen)'
                        /\ x.op = "detach" => Ending(x.gen)' \/ task'[t][1].op = "begin"

LEMMA KeptStep ==
  ASSUME IInv, NEW t, NEW c, Goes(t, c), Adds(t, c),
         task' \in [Tasks -> Seq(TypedCalls)], task' \in [Tasks -> Seq(Calls)],
         \A u \in Tasks : Shape(task'[u]),
         \A u \in Tasks : work(u)' = work(u),
         DataOK', CountOK', SlotKept, TableKept, UNCHANGED <<live, proc, exits>>,
         nextGen <= nextGen',
         task[t] # <<>> /\ task[t][1].op = "begin" => \A g \in Gens : Ending(g)',
         InhibitInv'
  PROVE  IInv'
<1>1. TypeOK'
  BY DataIsType DEF DataOK, TypeOK, SlotOK, HasProcess
<1>2. TypeInv'
  BY <1>1 DEF TypeInv
<1>3. CountInv'
  BY <1>1, CountGoes DEF IInv, CountInv, CountOK, Adds
<1>4. WorkInv' /\ ClaimInv' /\ TableIsSlot' /\ StartInv' /\ StartingInv'
  BY <1>1, KeptInv
<1>5. EndInv'
  <2>1. \A g \in Gens : Ending(g) => Ending(g)'
    BY <1>1, EndingKept
  <2> QED BY <2>1, EndGoes DEF IInv, Adds
<1> QED
  BY <1>2, <1>3, <1>4, <1>5 DEF IInv

\* A section of task t that leaves processes and works alone, followed by those of c
LEMMA PlainStep ==
  ASSUME IInv, NEW t, NEW c, PlainMove(t, c), Adds(t, c),
         DataOK', CountOK', SlotKept, TableKept, UNCHANGED <<live, proc, exits>>,
         nextGen <= nextGen',
         task[t][1].op = "begin" => \A g \in Gens : Ending(g)',
         HandsOn(t, c), inhibit' \subseteq inhibit
  PROVE  IInv'
<1>1. /\ task' \in [Tasks -> Seq(TypedCalls)] /\ task' \in [Tasks -> Seq(Calls)]
      /\ \A u \in Tasks : Shape(task'[u])
      /\ \A u \in Tasks : work(u)' = work(u)
  BY PlainMoves DEF IInv
<1>2. Goes(t, c)
  BY ThenGoes DEF IInv, PlainMove
<1>3. InhibitInv'
  BY <1>2, InhibitGoes DEF IInv, SlotKept
<1> QED
  BY <1>1, <1>2, <1>3, KeptStep

\* An idle task t begins with c
LEMMA BeginStep ==
  ASSUME IInv, NEW t \in Tasks, task[t] = <<>>, NEW c \in Seq(TypedCalls), Plain(c),
         task' = [task EXCEPT ![t] = c], Adds(t, c),
         DataOK', CountOK', SlotKept, TableKept, UNCHANGED <<live, proc, exits>>,
         nextGen <= nextGen', InhibitInv'
  PROVE  IInv'
<1>1. /\ task' \in [Tasks -> Seq(TypedCalls)] /\ task' \in [Tasks -> Seq(Calls)]
      /\ \A u \in Tasks : Shape(task'[u])
      /\ \A u \in Tasks : work(u)' = work(u)
  BY PlainBegins DEF IInv
<1>2. Goes(t, c)
  BY BeginsGoes DEF IInv
<1> QED
  BY <1>1, <1>2, KeptStep

-----------------------------------------------------------------------------
(* Sections that leave the slot alone. *)

LEMMA SameSlotStep ==
  ASSUME IInv, NEW t, NEW c, PlainMove(t, c), HandsOn(t, c), task[t][1].op # "begin",
         UNCHANGED <<slot, table, inhibit, processVars, countVars>>,
         link' \in {"none", "off", "on"}, marks' \subseteq {"renderer", "display"}, grace' \in BOOLEAN,
         sched' \in Tokens \cup {0}, due' = due, fired' = fired,
         \A x \in Elems(c) : /\ x.op # "detach"
                             /\ IF x.op = "stop" THEN x.gen = slot.gen /\ slot.state = "Stopping"
                                ELSE x.gen < nextGen
  PROVE  IInv'
<1>1. DataOK /\ CountOK
  BY GoodState
<1>2. DataOK' /\ CountOK'
  BY <1>1 DEF DataOK, CountOK, SlotOK, processVars, countVars
<1>3. SlotKept
  BY DEF SlotKept, HasProcess
<1>4. TableKept
  BY DEF IInv, TableIsSlot, TableKept
<1>5. nextGen' = nextGen /\ nextGen \in Nat \ {0}
  BY <1>1, MaxOpsAssumption DEF DataOK, countVars
<1>6. Adds(t, c)
  BY <1>1, <1>5 DEF Adds, Ending, CountOK
<1> QED
  BY <1>2, <1>3, <1>4, <1>5, <1>6, PlainStep DEF processVars

\* A running section by its name
LEMMA Running ==
  ASSUME TypeInv, NEW t \in Tasks, NEW op, At(t, op)
  PROVE  /\ task[t] # <<>> /\ task[t][1].op = op
         /\ task[t] \in Seq(TypedCalls) /\ task[t][1] \in TypedCalls /\ task[t][1] \in Elems(task[t])
<1>1. task[t] \in Seq(TypedCalls) /\ task[t] # <<>>
  BY DEF TypeInv, At
<1> QED
  BY <1>1, WorkOfRunning, ElemsOf, EmptySeq DEF TypeInv, At

LEMMA Thens ==
  ASSUME TypeInv, NEW t \in Tasks, NEW op, At(t, op), op \notin Special, NEW c \in Seq(TypedCalls),
         Then(t, c), Plain(c), op = "cancel" => c = <<>>
  PROVE  PlainMove(t, c)
<1>1. task[t] # <<>> /\ task[t][1].op = op /\ task[t] \in Seq(TypedCalls)
  BY Running
<1>2. task' = [task EXCEPT ![t] = c \o Tail(task[t])]
  BY DEF Then
<1> QED
  BY <1>1, <1>2 DEF PlainMove

\* Sequences of plain sections, without generations
Easy(c) == c \in Seq(TypedCalls) /\ \A x \in Elems(c) : x.op \notin Special \cup {"stop", "detach"} /\ x.gen = 0

LEMMA EasySections ==
  ASSUME NEW op \in Simple, NEW op2 \in Simple, NEW cause \in Causes,
         NEW op3 \in {"request", "reconcile", "applied"}
  PROVE  /\ Easy(<<>>) /\ Easy(<<Run(op)>>) /\ Easy(<<Run(op), Run(op2)>>)
         /\ Easy(<<RunFor(op3, cause)>>) /\ Easy(<<Run(op), RunFor(op3, cause)>>)
         /\ Easy(Lifecycle)
<1>1. /\ Run(op) \in TypedCalls /\ Run(op).op = op /\ Run(op).gen = 0
      /\ Run(op2) \in TypedCalls /\ Run(op2).op = op2 /\ Run(op2).gen = 0
      /\ RunFor(op3, cause) \in TypedCalls /\ RunFor(op3, cause).op = op3 /\ RunFor(op3, cause).gen = 0
      /\ Run("lifecycle") \in TypedCalls /\ Run("lifecycle").op = "lifecycle" /\ Run("lifecycle").gen = 0
  BY SimpleTyped, CausedTyped DEF Simple
<1>2. \A o \in Simple \cup {"request", "reconcile", "applied"} : o \notin Special \cup {"stop", "detach"}
  BY DEF Simple, Special, Starter
<1>3. \A a, b : Elems(<<>>) = {} /\ Elems(<<a>>) = {a} /\ Elems(<<a, b>>) = {a, b}
  BY ElemsOfTuples
<1>4. <<>> \in Seq(TypedCalls) /\ \A a, b \in TypedCalls : <<a>> \in Seq(TypedCalls) /\ <<a, b>> \in Seq(TypedCalls)
  OBVIOUS
<1>5. "lifecycle" \in Simple
  BY DEF Simple
<1> QED
  BY <1>1, <1>2, <1>3, <1>4, <1>5, LifecycleTyped DEF Easy

LEMMA EasyConcat ==
  ASSUME NEW a, NEW b, Easy(a), Easy(b)
  PROVE  Easy(a \o b) /\ Elems(a \o b) = Elems(a) \cup Elems(b)
  BY ElemsConcat DEF Easy

\* A section that leaves the slot and the processes alone and goes on with easy ones
LEMMA EasyStep ==
  ASSUME IInv, NEW t \in Tasks, NEW op, At(t, op), op \notin Special \cup {"begin"},
         NEW c, Easy(c), Then(t, c), op = "cancel" => c = <<>>, HandsOn(t, c),
         UNCHANGED <<slot, table, inhibit, processVars, countVars>>,
         link' \in {"none", "off", "on"}, marks' \subseteq {"renderer", "display"}, grace' \in BOOLEAN,
         sched' \in Tokens \cup {0}, due' = due, fired' = fired
  PROVE  IInv'
<1>1. PlainMove(t, c)
  BY Thens DEF Easy, Plain, IInv
<1>2. task[t][1].op # "begin"
  BY DEF At
<1>3. 0 < nextGen
  BY GoodState, MaxOpsAssumption DEF DataOK
<1> QED
  BY <1>1, <1>2, <1>3, SameSlotStep DEF Easy

\* Locals of a running section
LEMMA RunningCause ==
  ASSUME TypeInv, NEW t \in Tasks, NEW op \in {"request", "reconcile", "applied"}, At(t, op)
  PROVE  task[t][1].cause \in Causes
  BY Running DEF TypedCalls, Typed

LEMMA StepReconcileLifecycle ==
  ASSUME IInv, NEW t \in Tasks, ReconcileLifecycle(t)
  PROVE  IInv'
<1> DEFINE c == IF "auto" \in inhibit \/ marks # {}
                  THEN <<Run("autolinks"), RunFor("reconcile", "auto-replay")>> ELSE <<>>
<1>1. /\ At(t, "lifecycle") /\ Then(t, c)
      /\ UNCHANGED <<slot, routeVars, table, processVars, timeVars, countVars>>
  BY DEF ReconcileLifecycle
<1>2. Easy(c)
  BY EasySections DEF Simple, Causes
<1>3. HandsOn(t, c)
  <2>1. ASSUME NEW kind \in inhibit, "lifecycle" \in Stops(kind)
        PROVE  \E x \in Elems(c) : x.op \in Stops(kind)
    <3>1. kind = "auto"
      BY <2>1 DEF Stops
    <3>2. c = <<Run("autolinks"), RunFor("reconcile", "auto-replay")>>
      BY <2>1, <3>1
    <3>3. RunFor("reconcile", "auto-replay") \in Elems(c)
      BY <3>2, ElemsOfTwo
    <3>4. RunFor("reconcile", "auto-replay").op = "reconcile"
      BY CausedTyped DEF Causes
    <3> QED BY <3>3, <3>4 DEF Stops
  <2> QED BY <1>1, <2>1 DEF HandsOn, At
<1>4. DataOK
  BY GoodState
<1> HIDE DEF c
<1> QED
  BY <1>1, <1>2, <1>3, <1>4, EasyStep DEF DataOK, routeVars, timeVars, Special, Starter

LEMMA NoStopHandsOn ==
  ASSUME NEW t, NEW c, task[t] # <<>> => task[t][1].op \notin {"reconcile", "begin", "attached", "lifecycle"}
  PROVE  HandsOn(t, c)
  BY DEF HandsOn, Stops

LEMMA StepApplyAutoStopLinks ==
  ASSUME IInv, NEW t \in Tasks, ApplyAutoStopLinks(t)
  PROVE  IInv'
<1>1. /\ At(t, "autolinks") /\ Then(t, <<>>) /\ Easy(<<>>) /\ HandsOn(t, <<>>) /\ DataOK
      /\ marks' \subseteq {"renderer", "display"}
  BY EasySections, NoStopHandsOn, GoodState DEF ApplyAutoStopLinks, At, Simple, Causes
<1> QED
  BY <1>1, EasyStep DEF ApplyAutoStopLinks, DataOK, timeVars, Special, Starter

LEMMA StepReconcile ==
  ASSUME IInv, NEW t \in Tasks, Reconcile(t)
  PROVE  IInv'
<1> DEFINE a == IF slot.state # "Removed" /\ (inhibit # {} \/ link' = "off")
                  THEN <<Run("begin"), Run("finish")>> ELSE <<>>
           b == IF link = "off" /\ link' = "on" THEN <<RunFor("request", task[t][1].cause)>> ELSE <<>>
<1>1. /\ At(t, "reconcile") /\ Then(t, a \o b)
      /\ UNCHANGED <<slot, inhibit, marks, grace, table, processVars, timeVars, countVars>>
      /\ link' \in {"none", "off", "on"}
  BY DEF Reconcile
<1>2. task[t][1].cause \in Causes
  BY <1>1, RunningCause DEF IInv
<1>3. Easy(a) /\ Easy(b)
  BY <1>2, EasySections DEF Simple
<1>4. Easy(a \o b) /\ Elems(a \o b) = Elems(a) \cup Elems(b)
  BY <1>3, EasyConcat
<1>5. HandsOn(t, a \o b)
  <2>1. ASSUME slot'.state = "Running", NEW kind \in inhibit
        PROVE  \E x \in Elems(a \o b) : x.op \in Stops(kind)
    <3>1. a = <<Run("begin"), Run("finish")>>
      BY <1>1, <2>1
    <3>2. Run("begin") \in Elems(a)
      BY <3>1, ElemsOfTwo
    <3>3. Run("begin").op = "begin"
      BY SimpleTyped DEF Simple
    <3> QED BY <1>4, <3>2, <3>3 DEF Stops
  <2> QED BY <2>1 DEF HandsOn
<1>6. DataOK
  BY GoodState
<1> HIDE DEF a, b
<1> QED
  BY <1>1, <1>4, <1>5, <1>6, EasyStep DEF DataOK, timeVars, Special, Starter

LEMMA StepCancelDeadline ==
  ASSUME IInv, NEW t \in Tasks, CancelDeadline(t)
  PROVE  IInv'
<1>1. /\ At(t, "cancel") /\ Then(t, <<>>) /\ Easy(<<>>) /\ HandsOn(t, <<>>) /\ DataOK
  BY EasySections, NoStopHandsOn, GoodState DEF CancelDeadline, At, Simple, Causes
<1> QED
  BY <1>1, EasyStep DEF CancelDeadline, DataOK, routeVars, Special, Starter

LEMMA StepMarkOrphans ==
  ASSUME IInv, NEW t \in Tasks, MarkOrphans(t)
  PROVE  IInv'
<1>1. At(t, "orphans") /\ DataOK /\ UNCHANGED <<slot, routeVars, table, processVars, timeVars, countVars>>
  BY GoodState DEF MarkOrphans
<1>2. RunFor("drop", "orphan") \in TypedCalls /\ RunFor("drop", "orphan").op = "drop" /\ RunFor("drop", "orphan").gen = 0
  BY MaxOpsAssumption DEF RunFor, Run, TypedCalls, Typed, Calls, Sections, Special, Starter, Uses
<1>3. Easy(<<RunFor("drop", "orphan")>>)
  <2>1. Elems(<<RunFor("drop", "orphan")>>) = {RunFor("drop", "orphan")}
    BY ElemsOfTuples
  <2> QED BY <1>2, <2>1 DEF Easy, Special, Starter
<1>4. PICK c : c \in {<<>>, <<Run("grace")>>, <<RunFor("drop", "orphan")>>} /\ Then(t, c)
  BY DEF MarkOrphans
<1>5. Easy(c)
  BY <1>3, <1>4, EasySections DEF Simple, Causes
<1>6. HandsOn(t, c)
  BY <1>1, NoStopHandsOn DEF At
<1> QED
  BY <1>1, <1>4, <1>5, <1>6, EasyStep DEF DataOK, routeVars, timeVars, Special, Starter

LEMMA StepOrphanTimer ==
  ASSUME IInv, NEW t \in Tasks, ScheduleOrphanGrace(t) \/ CancelOrphanTimer(t)
  PROVE  IInv'
<1>1. PICK op \in {"grace", "rescue"} : At(t, op)
  BY DEF ScheduleOrphanGrace, CancelOrphanTimer
<1>2. /\ Then(t, <<>>) /\ grace' \in BOOLEAN
      /\ UNCHANGED <<slot, link, inhibit, marks, table, processVars, timeVars, countVars>>
  BY DEF ScheduleOrphanGrace, CancelOrphanTimer
<1>3. Easy(<<>>) /\ HandsOn(t, <<>>) /\ DataOK
  BY <1>1, EasySections, NoStopHandsOn, GoodState DEF At, Simple, Causes
<1> QED
  BY <1>1, <1>2, <1>3, EasyStep DEF DataOK, timeVars, Special, Starter

LEMMA StepStartAssigned ==
  ASSUME IInv, NEW t \in Tasks, StartAssigned(t)
  PROVE  IInv'
<1> DEFINE c == IF task[t][1].cause = "coalescing" /\ slot.state = "Failed" THEN <<>>
                ELSE <<RunFor("request", task[t][1].cause)>>
<1>1. /\ At(t, "applied") /\ Then(t, c) /\ DataOK
      /\ UNCHANGED <<slot, routeVars, table, processVars, timeVars, countVars>>
  BY GoodState DEF StartAssigned
<1>2. task[t][1].cause \in Causes
  BY <1>1, RunningCause DEF IInv
<1>3. Easy(c)
  BY <1>2, EasySections DEF Simple
<1>4. HandsOn(t, c)
  BY <1>1, NoStopHandsOn DEF At
<1> HIDE DEF c
<1> QED
  BY <1>1, <1>3, <1>4, EasyStep DEF DataOK, routeVars, timeVars, Special, Starter

LEMMA StepScheduleDeadline ==
  ASSUME IInv, NEW t \in Tasks, ScheduleDeadline(t)
  PROVE  IInv'
<1>1. /\ At(t, "schedule") /\ Then(t, <<>>) /\ Easy(<<>>) /\ HandsOn(t, <<>>) /\ DataOK
  BY EasySections, NoStopHandsOn, GoodState DEF ScheduleDeadline, At, Simple, Causes
<1>2. sched' \in Tokens \cup {0}
  BY <1>1, Running DEF ScheduleDeadline, IInv, TypedCalls, Calls
<1> QED
  BY <1>1, <1>2, EasyStep DEF ScheduleDeadline, DataOK, routeVars, Special, Starter

LEMMA StepAttached ==
  ASSUME IInv, NEW t \in Tasks, Attached(t)
  PROVE  IInv'
<1> DEFINE c == IF inhibit # {} THEN <<Run("begin"), Run("finish")>> ELSE <<>>
<1>1. /\ At(t, "attached") /\ Then(t, c) /\ DataOK
      /\ UNCHANGED <<slot, routeVars, table, processVars, timeVars, countVars>>
  BY GoodState DEF Attached
<1>2. Easy(c)
  BY EasySections DEF Simple, Causes
<1>3. HandsOn(t, c)
  <2>1. ASSUME NEW kind \in inhibit
        PROVE  \E x \in Elems(c) : x.op \in Stops(kind)
    <3>1. c = <<Run("begin"), Run("finish")>>
      BY <2>1
    <3>2. Run("begin") \in Elems(c)
      BY <3>1, ElemsOfTwo
    <3>3. Run("begin").op = "begin"
      BY SimpleTyped DEF Simple
    <3> QED BY <3>2, <3>3 DEF Stops
  <2> QED BY <2>1 DEF HandsOn
<1> HIDE DEF c
<1> QED
  BY <1>1, <1>2, <1>3, EasyStep DEF DataOK, routeVars, timeVars, Special, Starter

\* The start that a slot asks for
LEMMA PendingToken ==
  ASSUME DataOK, slot.pending # NoStart
  PROVE  slot.pending.token \in Tokens /\ slot.pending.cause \in Causes
  BY DEF DataOK, SlotOK, Slots

LEMMA EasyAdvance ==
  ASSUME NEW k \in Tokens
  PROVE  Easy(<<AdvanceOf(k)>>)
<1>1. Elems(<<AdvanceOf(k)>>) = {AdvanceOf(k)}
  BY ElemsOfTuples
<1> QED
  BY <1>1, AdvanceTyped DEF Easy, Special, Starter

LEMMA StepResumeAfterExit ==
  ASSUME IInv, NEW t \in Tasks, ResumeAfterExit(t)
  PROVE  IInv'
<1> DEFINE c == IF slot.pending = NoStart THEN <<>> ELSE <<AdvanceOf(slot.pending.token)>>
<1>1. /\ At(t, "resume") /\ Then(t, c) /\ DataOK
      /\ UNCHANGED <<slot, routeVars, table, processVars, timeVars, countVars>>
  BY GoodState DEF ResumeAfterExit
<1>2. Easy(c)
  BY <1>1, EasySections, EasyAdvance, PendingToken DEF Simple, Causes
<1>3. HandsOn(t, c)
  BY <1>1, NoStopHandsOn DEF At
<1> HIDE DEF c
<1> QED
  BY <1>1, <1>2, <1>3, EasyStep DEF DataOK, routeVars, timeVars, Special, Starter

LEMMA StepFinishRetainedStop ==
  ASSUME IInv, NEW t \in Tasks, FinishRetainedStop(t)
  PROVE  IInv'
<1>1. /\ At(t, "finish") /\ DataOK
      /\ UNCHANGED <<slot, routeVars, table, processVars, timeVars, countVars>>
  BY GoodState DEF FinishRetainedStop
<1>2. CASE slot.state = "Stopping"
  <2> DEFINE c == <<StopOf(slot.gen, "exit")>>
  <2>1. Then(t, c)
    BY <1>2 DEF FinishRetainedStop
  <2>2. slot.gen \in Gens
    BY <1>1, <1>2 DEF DataOK, SlotOK, Slots
  <2>3. StopOf(slot.gen, "exit") \in TypedCalls /\ StopOf(slot.gen, "exit").op = "stop"
        /\ StopOf(slot.gen, "exit").gen = slot.gen
    BY <2>2, StopTyped DEF Uses
  <2>4. c \in Seq(TypedCalls) /\ Elems(c) = {StopOf(slot.gen, "exit")}
    BY <2>3, ElemsOfOne
  <2> HIDE DEF c
  <2>5. Plain(c) /\ "finish" \notin Special
    BY <2>3, <2>4 DEF Plain, Special, Starter
  <2>6. PlainMove(t, c)
    BY <1>1, <2>1, <2>4, <2>5, Thens DEF IInv
  <2>7. HandsOn(t, c)
    BY <1>1, NoStopHandsOn DEF At
  <2>8. \A x \in Elems(c) : x.op = "stop" /\ x.gen = slot.gen
    BY <2>3, <2>4
  <2>9. task[t][1].op # "begin"
    BY <1>1 DEF At
  <2> QED
    BY <1>1, <1>2, <2>6, <2>7, <2>8, <2>9, SameSlotStep DEF DataOK, routeVars, timeVars
<1>3. CASE slot.state # "Stopping"
  <2>1. Then(t, <<>>) /\ Easy(<<>>) /\ HandsOn(t, <<>>)
    BY <1>1, <1>3, EasySections, NoStopHandsOn DEF FinishRetainedStop, At, Simple, Causes
  <2> QED
    BY <1>1, <2>1, EasyStep DEF DataOK, routeVars, timeVars, Special, Starter
<1> QED
  BY <1>2, <1>3


-----------------------------------------------------------------------------
(* Sections that change the slot and leave the processes alone. *)

LEMMA EasySlotStep ==
  ASSUME IInv, NEW t \in Tasks, NEW op, At(t, op), op \notin Special \cup {"begin", "cancel"},
         NEW c, Easy(c), Then(t, c), HandsOn(t, c),
         DataOK', CountOK', SlotKept, TableKept, UNCHANGED processVars,
         nextGen <= nextGen', inhibit' \subseteq inhibit
  PROVE  IInv'
<1>1. PlainMove(t, c)
  BY Thens DEF Easy, Plain, IInv
<1>2. task[t][1].op # "begin"
  BY DEF At
<1>3. 0 < nextGen'
  BY MaxOpsAssumption DEF DataOK
<1>4. Adds(t, c)
  BY <1>3 DEF Adds, Easy
<1> QED
  BY <1>1, <1>2, <1>4, PlainStep DEF processVars

\* A slot that is told to stop, as the sections see it
LEMMA StopSlot ==
  ASSUME IInv, NEW keep \in BOOLEAN, slot' = StopRequested(WithoutPending(slot), keep),
         UNCHANGED <<proc, nextGen, nextToken>>, ops <= ops', ops' \in Nat, ops \in Nat
  PROVE  /\ SlotOK(slot') /\ CountOK' /\ SlotKept
         /\ slot'.state \notin {"Starting", "Running"}
         /\ slot'.gen = slot.gen
         /\ slot'.state = "Removed" <=> slot.state = "Removed"
         /\ \A g \in Gens : Ending(g)'
<1>1. DataOK /\ CountOK
  BY GoodState
<1> DEFINE s == WithoutPending(slot)
<1>2. /\ SlotOK(s) /\ s.pending = NoStart
      /\ s.gen = slot.gen /\ s.start = slot.start /\ s.spec = slot.spec /\ s.state = slot.state
  BY <1>1, WithoutPendingSlot DEF DataOK
<1> HIDE DEF s
<1>3. slot' = StopRequested(s, keep)
  BY DEF s
<1>4. /\ SlotOK(slot') /\ slot'.pending = NoStart
      /\ slot'.gen = slot.gen /\ slot'.start = slot.start /\ slot'.spec = slot.spec
      /\ slot'.state = IF slot.state \in {"Starting", "Running"} THEN "Stopping" ELSE slot.state
  BY <1>2, <1>3, StopRequestedSlot
<1>5. slot.spec \in Nat
  BY <1>1, MaxOpsAssumption DEF DataOK, SlotOK, Slots
<1>6. CountOK'
  BY <1>1, <1>4, <1>5 DEF CountOK
<1>7. SlotKept
  BY <1>4 DEF SlotKept, HasProcess
<1>8. \A g \in Gens : Ending(g)'
  <2>1. \A g \in Gens : g # 0
    BY MaxOpsAssumption DEF Gens, Tokens
  <2>2. slot'.gen # 0 => slot'.state = "Stopping"
    BY <1>4 DEF SlotOK
  <2> QED BY <2>1, <2>2 DEF Ending
<1> QED
  BY <1>4, <1>6, <1>7, <1>8

LEMMA StepBeginRetainedStop ==
  ASSUME IInv, NEW t \in Tasks, BeginRetainedStop(t)
  PROVE  IInv'
<1> DEFINE c == IF slot.state = "Removed" THEN <<>> ELSE <<Run("cancel")>>
<1>1. /\ At(t, "begin") /\ slot' = StopRequested(WithoutPending(slot), TRUE) /\ Then(t, c)
      /\ UNCHANGED <<routeVars, table, processVars, timeVars, countVars>>
  BY DEF BeginRetainedStop
<1>2. DataOK /\ ops' = ops /\ ops \in Nat /\ ops <= ops' /\ UNCHANGED <<proc, nextGen, nextToken>>
  BY <1>1, GoodState, MaxOpsAssumption DEF DataOK, countVars, processVars
<1>3. /\ SlotOK(slot') /\ CountOK' /\ SlotKept
      /\ slot'.state \notin {"Starting", "Running"}
      /\ slot'.state = "Removed" <=> slot.state = "Removed"
      /\ \A g \in Gens : Ending(g)'
  BY <1>1, <1>2, StopSlot
<1>4. DataOK'
  BY <1>1, <1>2, <1>3 DEF DataOK, routeVars, processVars, timeVars, countVars
<1>5. TableKept
  BY <1>1, <1>3 DEF IInv, TableIsSlot, TableKept
<1>6. Easy(c)
  BY EasySections DEF Simple, Causes
<1> HIDE DEF c
<1>7. PlainMove(t, c)
  BY <1>1, <1>6, Thens DEF Easy, Plain, IInv, Special, Starter
<1>8. HandsOn(t, c)
  BY <1>3 DEF HandsOn
<1>9. Adds(t, c)
  <2>1. 0 < nextGen'
    BY <1>4, MaxOpsAssumption DEF DataOK
  <2> QED BY <1>6, <2>1 DEF Adds, Easy
<1>10. nextGen <= nextGen' /\ inhibit' \subseteq inhibit /\ UNCHANGED <<live, proc, exits>>
  BY <1>1, <1>2, MaxOpsAssumption DEF DataOK, countVars, routeVars, processVars
<1> QED
  BY <1>3, <1>4, <1>5, <1>7, <1>8, <1>9, <1>10, PlainStep

LEMMA StepStopRendererDrop ==
  ASSUME IInv, NEW t \in Tasks, StopRendererDrop(t)
  PROVE  IInv'
<1> DEFINE g == task[t][1].gen
           x == IF slot'.state = "Stopping" THEN StopOf(slot.gen, "exit") ELSE Run("unregister")
           c == <<Run("cancel"), x>>
<1>1. /\ At(t, "drop")
      /\ UNCHANGED <<inhibit, marks, grace, table, processVars, timeVars, countVars>>
  BY DEF StopRendererDrop
<1>2. HandsOn(t, <<>>) /\ HandsOn(t, c)
  BY <1>1, NoStopHandsOn DEF At
<1>3. DataOK /\ CountOK /\ ops' = ops /\ ops \in Nat /\ ops <= ops' /\ UNCHANGED <<proc, nextGen, nextToken>>
  BY <1>1, GoodState, MaxOpsAssumption DEF DataOK, countVars, processVars
<1>4. CASE slot.state = "Removed" \/ (g # 0 /\ slot.gen # g)
  <2>1. Then(t, <<>>) /\ UNCHANGED <<slot, link>>
    BY <1>4 DEF StopRendererDrop
  <2>2. Easy(<<>>)
    BY EasySections DEF Simple, Causes
  <2> QED
    BY <1>1, <1>2, <1>3, <2>1, <2>2, EasyStep DEF DataOK, timeVars, Special, Starter
<1>5. CASE ~(slot.state = "Removed" \/ (g # 0 /\ slot.gen # g))
  <2>1. /\ slot' = StopRequested(WithoutPending(slot), FALSE)
        /\ link' = IF link = "none" THEN "none" ELSE "off"
        /\ Then(t, c)
    BY <1>5 DEF StopRendererDrop
  <2>2. /\ SlotOK(slot') /\ CountOK' /\ SlotKept
        /\ slot'.state \notin {"Starting", "Running"} /\ slot'.gen = slot.gen
        /\ slot'.state = "Removed" <=> slot.state = "Removed"
    BY <1>1, <1>3, <2>1, StopSlot
  <2>3. DataOK'
    BY <1>1, <1>3, <2>1, <2>2 DEF DataOK, processVars, timeVars, countVars
  <2>4. TableKept
    BY <1>1, <2>2 DEF IInv, TableIsSlot, TableKept
  <2>5. /\ x \in TypedCalls
        /\ x.op \notin Special \cup {"detach"}
        /\ x.op = "stop" => slot'.state = "Stopping"
        /\ x.gen < nextGen'
    <3>1. nextGen' \in Nat \ {0} /\ slot'.gen < nextGen'
      BY <2>2, <2>3, MaxOpsAssumption DEF DataOK, CountOK
    <3>2. CASE slot'.state = "Stopping"
      <4>1. slot.gen \in Gens
        BY <2>2, <3>2 DEF SlotOK, Slots
      <4>2. x = StopOf(slot.gen, "exit")
        BY <3>2
      <4> HIDE DEF x
      <4>3. x \in TypedCalls /\ x.op = "stop" /\ x.gen = slot.gen
        BY <4>1, <4>2, StopTyped DEF Uses
      <4> QED BY <2>2, <3>1, <3>2, <4>3 DEF Special, Starter
    <3>3. CASE slot'.state # "Stopping"
      <4>1. x = Run("unregister")
        BY <3>3
      <4> HIDE DEF x
      <4>2. x \in TypedCalls /\ x.op = "unregister" /\ x.gen = 0
        BY <4>1, SimpleTyped DEF Simple
      <4> QED BY <3>1, <4>2 DEF Special, Starter
    <3> QED BY <3>2, <3>3
  <2> HIDE DEF x
  <2>6. Run("cancel") \in TypedCalls /\ Run("cancel").op = "cancel" /\ Run("cancel").gen = 0
    BY SimpleTyped DEF Simple
  <2>7. c \in Seq(TypedCalls) /\ Elems(c) = {Run("cancel"), x}
    BY <2>5, <2>6, ElemsOfTwo
  <2> HIDE DEF c
  <2>8. Plain(c) /\ "drop" \notin Special
    BY <2>5, <2>6, <2>7 DEF Plain, Special, Starter
  <2>9. PlainMove(t, c)
    BY <1>1, <2>1, <2>7, <2>8, Thens DEF IInv
  <2>10. 0 < nextGen'
    BY <2>3, MaxOpsAssumption DEF DataOK
  <2>11. Adds(t, c)
    <3>1. ASSUME NEW y \in Elems(c)
          PROVE  y.gen < nextGen' /\ y.op # "detach" /\ (y.op = "stop" => slot'.state = "Stopping")
      <4>1. CASE y = Run("cancel")
        BY <2>6, <2>10, <4>1
      <4>2. CASE y = x
        BY <2>5, <4>2
      <4> QED BY <2>7, <4>1, <4>2
    <3> QED BY <3>1 DEF Adds, Ending
  <2>12. /\ nextGen <= nextGen' /\ inhibit' \subseteq inhibit /\ UNCHANGED <<live, proc, exits>>
         /\ task[t][1].op # "begin"
    BY <1>1, <1>3, MaxOpsAssumption DEF DataOK, countVars, processVars, At
  <2> QED
    BY <1>2, <2>2, <2>3, <2>4, <2>9, <2>11, <2>12, PlainStep
<1> QED
  BY <1>4, <1>5

\* A slot that is removed
LEMMA RemoveSlot ==
  ASSUME IInv, slot' = Removed(slot), UNCHANGED <<proc, nextGen, nextToken>>,
         ops <= ops', ops' \in Nat, ops \in Nat
  PROVE  SlotOK(slot') /\ CountOK' /\ SlotKept /\ slot'.state = "Removed"
<1>1. DataOK /\ CountOK
  BY GoodState
<1>2. /\ SlotOK(slot') /\ slot'.pending = NoStart
      /\ slot'.gen = 0 /\ slot'.start = 0 /\ slot'.spec = slot.spec /\ slot'.state = "Removed"
  BY <1>1, RemovedSlot DEF DataOK
<1>3. slot.spec \in Nat /\ nextGen \in Nat \ {0}
  BY <1>1, MaxOpsAssumption DEF DataOK, SlotOK, Slots
<1>4. CountOK'
  BY <1>1, <1>2, <1>3 DEF CountOK
<1> QED
  BY <1>2, <1>4 DEF SlotKept

LEMMA StepUnregisterRenderer ==
  ASSUME IInv, NEW t \in Tasks, UnregisterRenderer(t)
  PROVE  IInv'
<1> DEFINE c == <<Run("cancel")>> \o Lifecycle
<1>1. /\ At(t, "unregister") /\ slot' = Removed(slot) /\ table' = 0 /\ link' = "none" /\ grace' = FALSE
      /\ Then(t, c)
      /\ UNCHANGED <<inhibit, marks, processVars, timeVars, countVars>>
  BY DEF UnregisterRenderer
<1>2. DataOK /\ ops' = ops /\ ops \in Nat /\ nextGen \in Nat
  BY <1>1, GoodState, MaxOpsAssumption DEF DataOK, countVars
<1>3. SlotOK(slot') /\ CountOK' /\ SlotKept /\ slot'.state = "Removed"
  BY <1>1, <1>2, RemoveSlot DEF processVars, countVars
<1>4. DataOK'
  BY <1>1, <1>2, <1>3 DEF DataOK, processVars, timeVars, countVars
<1>5. TableKept
  BY <1>1, <1>3 DEF TableKept
<1>6. Easy(<<Run("cancel")>>) /\ Easy(Lifecycle)
  BY EasySections DEF Simple, Causes
<1>7. Easy(c)
  BY <1>6, EasyConcat
<1>8. HandsOn(t, c) /\ nextGen <= nextGen'
  BY <1>1, <1>2, <1>3 DEF HandsOn, countVars
<1> HIDE DEF c
<1> QED
  BY <1>1, <1>3, <1>4, <1>5, <1>7, <1>8, EasySlotStep DEF Special, Starter

LEMMA StepDetachForRestart ==
  ASSUME IInv, NEW t \in Tasks, DetachForRestart(t)
  PROVE  IInv'
<1> DEFINE c == IF table = task[t][1].gen THEN <<Run("finish")>> ELSE <<>>
<1>1. /\ At(t, "detach") /\ Then(t, c) /\ table' = (IF table = task[t][1].gen THEN 0 ELSE table)
      /\ UNCHANGED <<slot, routeVars, processVars, timeVars, countVars>>
  BY DEF DetachForRestart
<1>2. DataOK /\ CountOK /\ nextGen \in Nat
  BY GoodState, MaxOpsAssumption DEF DataOK
<1>3. task[t][1].op = "detach" /\ task[t][1] \in TypedCalls /\ task[t][1] \in Elems(task[t])
  BY <1>1, Running DEF IInv
<1>4. Ending(task[t][1].gen) /\ task[t][1].gen # 0
  BY <1>3 DEF IInv, EndInv, TypedCalls, Typed
<1>5. table = task[t][1].gen => slot.state = "Stopping"
  BY <1>4 DEF IInv, TableIsSlot, Ending
<1>6. TableKept
  BY <1>1, <1>5 DEF IInv, TableIsSlot, TableKept
<1>7. SlotKept
  BY <1>1 DEF SlotKept, HasProcess
<1>8. DataOK' /\ CountOK'
  BY <1>1, <1>2 DEF DataOK, CountOK, SlotOK, routeVars, processVars, timeVars, countVars
<1>9. Easy(c)
  BY EasySections DEF Simple, Causes
<1>10. HandsOn(t, c)
  BY <1>3, NoStopHandsOn
<1>11. nextGen <= nextGen' /\ inhibit' \subseteq inhibit
  BY <1>1, <1>2 DEF countVars, routeVars
<1> HIDE DEF c
<1> QED
  BY <1>1, <1>6, <1>7, <1>8, <1>9, <1>10, <1>11, EasySlotStep DEF Special, Starter


LEMMA StepRequestStart ==
  ASSUME IInv, NEW t \in Tasks, RequestStart(t)
  PROVE  IInv'
<1>1. At(t, "request") /\ UNCHANGED <<routeVars, table, processVars, sched, fired, nextGen, ops>>
  BY DEF RequestStart
<1>2. DataOK /\ CountOK /\ nextGen \in Nat
  BY GoodState, MaxOpsAssumption DEF DataOK
<1>3. \A c : HandsOn(t, c)
  BY <1>1, NoStopHandsOn DEF At
<1>4. nextGen <= nextGen' /\ inhibit' \subseteq inhibit /\ "request" \notin Special \cup {"begin", "cancel"}
  BY <1>1, <1>2 DEF routeVars, Special, Starter
<1>5. ASSUME slot' = WithoutPending(slot), Then(t, <<Run("cancel")>>), UNCHANGED <<due, nextToken>>
      PROVE  IInv'
  <2>1. /\ SlotOK(slot') /\ slot'.pending = NoStart /\ slot'.gen = slot.gen /\ slot'.start = slot.start
        /\ slot'.spec = slot.spec /\ slot'.state = slot.state
    BY <1>2, <1>5, WithoutPendingSlot DEF DataOK
  <2>2. DataOK' /\ CountOK'
    BY <1>1, <1>2, <1>5, <2>1 DEF DataOK, CountOK, routeVars, processVars
  <2>3. SlotKept /\ TableKept
    BY <1>1, <2>1 DEF SlotKept, TableKept, HasProcess, IInv, TableIsSlot
  <2>4. Easy(<<Run("cancel")>>)
    BY EasySections DEF Simple, Causes
  <2> QED
    BY <1>1, <1>3, <1>4, <1>5, <2>2, <2>3, <2>4, EasySlotStep
<1>6. ASSUME Then(t, <<>>), UNCHANGED <<slot, due, nextToken>>
      PROVE  IInv'
  <2>1. Easy(<<>>)
    BY EasySections DEF Simple, Causes
  <2>2. DataOK' /\ CountOK'
    BY <1>1, <1>2, <1>6 DEF DataOK, CountOK, SlotOK, routeVars, processVars
  <2>3. SlotKept /\ TableKept
    BY <1>1, <1>6 DEF SlotKept, TableKept, HasProcess, IInv, TableIsSlot
  <2> QED
    BY <1>1, <1>3, <1>4, <1>6, <2>1, <2>2, <2>3, EasySlotStep
<1>7. ASSUME slot' = [slot EXCEPT !.pending = [cause |-> task[t][1].cause, token |-> nextToken]],
             due' \subseteq due \cup {nextToken}, nextToken \in Tokens, nextToken' = nextToken + 1,
             Then(t, <<AdvanceOf(nextToken)>>)
      PROVE  IInv'
  <2>1. task[t][1].cause \in Causes
    BY <1>1, RunningCause DEF IInv
  <2>2. [cause |-> task[t][1].cause, token |-> nextToken] \in [cause : Causes, token : Tokens]
    BY <1>7, <2>1
  <2>3. /\ SlotOK(slot') /\ slot'.gen = slot.gen /\ slot'.start = slot.start
        /\ slot'.spec = slot.spec /\ slot'.state = slot.state
    BY <1>2, <1>7, <2>2 DEF DataOK, SlotOK, Slots
  <2>4. nextToken' \in 1 .. 2 * MaxOps + 2 /\ nextToken \in Nat
    BY <1>7, MaxOpsAssumption DEF Tokens
  <2>5. DataOK'
    BY <1>1, <1>2, <1>7, <2>3, <2>4 DEF DataOK, routeVars, processVars
  <2>6. CountOK'
    BY <1>1, <1>2, <1>7, <2>3, <2>4 DEF CountOK, processVars
  <2>7. SlotKept /\ TableKept
    BY <1>1, <2>3 DEF SlotKept, TableKept, HasProcess, IInv, TableIsSlot
  <2>8. Easy(<<AdvanceOf(nextToken)>>)
    BY <1>7, EasyAdvance
  <2> QED
    BY <1>1, <1>3, <1>4, <1>7, <2>5, <2>6, <2>7, <2>8, EasySlotStep
<1> QED
  BY <1>5, <1>6, <1>7 DEF RequestStart

\* The running section becomes another one
LEMMA GotoTyped ==
  ASSUME NEW e \in TypedCalls,
         NEW op \in Sections \ {"settle", "request", "reconcile", "applied"},
         op \in {"advance", "schedule"} \cup Starter => e.token # 0,
         op \in {"detach", "stop"} \cup Special => e.gen # 0
  PROVE  LET x == [e EXCEPT !.op = op]
         IN  /\ x \in TypedCalls /\ x.op = op
             /\ x.gen = e.gen /\ x.token = e.token /\ x.spec = e.spec /\ x.use = e.use
<1> DEFINE x == [e EXCEPT !.op = op]
<1>1. /\ x \in Calls /\ x.op = op
      /\ x.gen = e.gen /\ x.token = e.token /\ x.spec = e.spec /\ x.use = e.use
  BY DEF TypedCalls, Calls
<1> HIDE DEF x
<1>2. x \in TypedCalls
  BY <1>1 DEF TypedCalls, Typed
<1> QED
  BY <1>1, <1>2 DEF x

\* A running section knows a generation that was given out
LEMMA RunningGen ==
  ASSUME IInv, NEW t \in Tasks, NEW op, At(t, op)
  PROVE  task[t][1].gen < nextGen
  BY Running DEF IInv, CountInv

LEMMA StepAdvanceWaits ==
  ASSUME IInv, NEW t \in Tasks, At(t, "advance"),
         \/ Then(t, <<>>) /\ UNCHANGED <<slot, nextGen>>
         \/ Goto(t, "schedule") /\ UNCHANGED <<slot, nextGen>>,
         UNCHANGED <<routeVars, table, processVars, timeVars, nextToken, ops>>
  PROVE  IInv'
<1>1. DataOK
  BY GoodState
<1>2. \A c : HandsOn(t, c)
  BY NoStopHandsOn DEF At
<1>3. CASE Then(t, <<>>) /\ UNCHANGED <<slot, nextGen>>
  <2>1. Easy(<<>>)
    BY EasySections DEF Simple, Causes
  <2> QED
    BY <1>1, <1>2, <1>3, <2>1, EasyStep DEF DataOK, routeVars, timeVars, countVars, Special, Starter
<1>4. CASE Goto(t, "schedule") /\ UNCHANGED <<slot, nextGen>>
  <2> DEFINE x == [task[t][1] EXCEPT !.op = "schedule"]
             c == <<x>>
  <2>1. task[t][1] \in TypedCalls /\ task[t][1].token # 0 /\ task[t][1].gen < nextGen
    BY Running, RunningGen DEF IInv, TypedCalls, Typed
  <2>2. x \in TypedCalls /\ x.op = "schedule" /\ x.gen = task[t][1].gen
    BY <2>1, GotoTyped DEF Sections, Special, Starter
  <2>3. Then(t, c)
    BY <1>4 DEF Goto
  <2> HIDE DEF x
  <2>4. c \in Seq(TypedCalls) /\ Elems(c) = {x}
    BY <2>2, ElemsOfOne
  <2> HIDE DEF c
  <2>5. Plain(c) /\ "advance" \notin Special
    BY <2>2, <2>4 DEF Plain, Special, Starter
  <2>6. PlainMove(t, c)
    BY <2>3, <2>4, <2>5, Thens DEF IInv
  <2>7. \A y \in Elems(c) : y.op \notin {"detach", "stop"} /\ y.gen < nextGen
    BY <2>1, <2>2, <2>4
  <2>8. task[t][1].op # "begin"
    BY DEF At
  <2> QED
    BY <1>1, <1>2, <1>4, <2>6, <2>7, <2>8, SameSlotStep DEF DataOK, routeVars, timeVars, countVars
<1> QED
  BY <1>3, <1>4

\* The token that a running start asks for
LEMMA StartToken ==
  ASSUME IInv, NEW t \in Tasks, At(t, "advance"), slot.pending.token = task[t][1].token
  PROVE  /\ task[t][1].token \in Tokens
         /\ slot.pending # NoStart /\ nextGen < nextToken
         /\ nextGen \in Gens /\ nextGen + 1 \in 1 .. 2 * MaxOps + 2
<1>1. task[t][1].token # 0 /\ task[t][1].token \in Tokens \cup {0}
  BY Running DEF IInv, TypedCalls, Typed, Calls
<1>2. slot.pending # NoStart
  BY <1>1 DEF NoStart
<1>3. nextGen < nextToken /\ nextGen \in 1 .. 2 * MaxOps + 2 /\ nextToken \in 1 .. 2 * MaxOps + 2
  BY <1>2, GoodState DEF CountOK, DataOK
<1> QED
  BY <1>1, <1>2, <1>3, MaxOpsAssumption DEF Gens, Tokens

LEMMA StepAdvanceDrops ==
  ASSUME IInv, NEW t \in Tasks, At(t, "advance"), slot.pending.token = task[t][1].token,
         slot' = WithoutPending(slot), Then(t, <<Run("cancel")>>),
         nextGen' \in {nextGen, nextGen + 1},
         UNCHANGED <<routeVars, table, processVars, timeVars, nextToken, ops>>
  PROVE  IInv'
<1>1. DataOK /\ CountOK
  BY GoodState
<1>2. nextGen < nextToken /\ nextGen + 1 \in 1 .. 2 * MaxOps + 2
  BY StartToken
<1>3. nextGen \in Nat /\ nextToken \in Nat /\ ops \in Nat
  BY <1>1, MaxOpsAssumption DEF DataOK
<1>4. /\ SlotOK(slot') /\ slot'.pending = NoStart /\ slot'.gen = slot.gen /\ slot'.start = slot.start
      /\ slot'.spec = slot.spec /\ slot'.state = slot.state
  BY <1>1, WithoutPendingSlot DEF DataOK
<1>5. DataOK'
  BY <1>1, <1>2, <1>4 DEF DataOK, routeVars, processVars, timeVars
<1>6. slot.gen \in Nat /\ Gens \subseteq Nat
  BY <1>1, MaxOpsAssumption DEF DataOK, SlotOK, Slots, Gens, Tokens
<1>7. CountOK'
  BY <1>1, <1>2, <1>3, <1>4, <1>6 DEF CountOK, processVars
<1>8. SlotKept /\ TableKept
  BY <1>4 DEF SlotKept, TableKept, HasProcess, IInv, TableIsSlot
<1>9. Easy(<<Run("cancel")>>)
  BY EasySections DEF Simple, Causes
<1>10. HandsOn(t, <<Run("cancel")>>)
  BY NoStopHandsOn DEF At
<1>11. nextGen <= nextGen' /\ inhibit' \subseteq inhibit /\ "advance" \notin Special \cup {"begin", "cancel"}
  BY <1>3 DEF routeVars, Special, Starter
<1> QED
  BY <1>5, <1>7, <1>8, <1>9, <1>10, <1>11, EasySlotStep


-----------------------------------------------------------------------------
(* Requests, and steps that leave the tasks alone. *)

LEMMA SameTasksStep ==
  ASSUME IInv, DataOK', UNCHANGED <<slot, table, inhibit, processVars, countVars, task>>
  PROVE  IInv'
<1>1. /\ TypeOK /\ TypeInv /\ CountInv /\ WorkInv /\ ClaimInv /\ TableIsSlot /\ StartInv
      /\ EndInv /\ StartingInv /\ InhibitInv
  BY GoodState DEF IInv
<1>2. TypeOK'
  BY <1>1, DataIsType DEF DataOK, TypeOK, SlotOK, HasProcess
<1>3. TypeInv' /\ CountInv'
  BY <1>1, <1>2 DEF TypeInv, CountInv, processVars, countVars
<1>4. SlotKept /\ TableKept
  BY <1>1 DEF SlotKept, TableKept, HasProcess, TableIsSlot
<1>5. \A t \in Tasks : work(t)' = work(t)
  BY DEF work
<1>6. WorkInv' /\ ClaimInv' /\ TableIsSlot' /\ StartInv' /\ StartingInv'
  BY <1>2, <1>4, <1>5, KeptInv DEF processVars
<1>7. EndInv'
  BY <1>1 DEF EndInv, Ending
<1>8. InhibitInv'
  BY <1>1 DEF InhibitInv, Stops
<1> QED
  BY <1>3, <1>6, <1>7, <1>8 DEF IInv

LEMMA StepElapse ==
  ASSUME IInv, NEW token \in Tokens, Elapse(token)
  PROVE  IInv'
<1>1. DataOK'
  BY GoodState DEF Elapse, DataOK, SlotOK, routeVars, processVars, countVars
<1> QED
  BY <1>1, SameTasksStep DEF Elapse, routeVars

LEMMA StepDeadlineFires ==
  ASSUME IInv, DeadlineFires
  PROVE  IInv'
<1>1. DataOK /\ sched \in Tokens
  BY GoodState DEF DeadlineFires, DataOK
<1>2. Append(fired, sched) \in Seq(Tokens)
  BY <1>1 DEF DataOK
<1>3. DataOK'
  BY <1>1, <1>2 DEF DeadlineFires, DataOK, SlotOK, routeVars, processVars, countVars
<1> QED
  BY <1>3, SameTasksStep DEF DeadlineFires, routeVars

\* No task hands on a stop when an idle one begins
LEMMA BeginsInhibit ==
  ASSUME IInv, NEW t \in Tasks, task[t] = <<>>, NEW c \in Seq(TypedCalls), Begins(t, c),
         SlotKept, inhibit' \subseteq inhibit
  PROVE  InhibitInv'
<1>1. Goes(t, c)
  BY BeginsGoes DEF IInv, Begins
<1>2. HandsOn(t, c)
  BY DEF HandsOn
<1> QED
  BY <1>1, <1>2, InhibitGoes DEF IInv, SlotKept

LEMMA EasyBegin ==
  ASSUME IInv, NEW t \in Tasks, task[t] = <<>>, NEW c, Easy(c), Begins(t, c),
         DataOK', CountOK', SlotKept, TableKept, UNCHANGED processVars, nextGen' = nextGen,
         inhibit' \subseteq inhibit \/ InhibitInv'
  PROVE  IInv'
<1>1. c \in Seq(TypedCalls) /\ Plain(c) /\ task' = [task EXCEPT ![t] = c]
  BY DEF Easy, Plain, Begins
<1>2. nextGen <= nextGen' /\ 0 < nextGen'
  BY GoodState, MaxOpsAssumption DEF DataOK
<1>3. Adds(t, c)
  BY <1>2 DEF Adds, Easy
<1>4. InhibitInv'
  BY <1>1, BeginsInhibit
<1> QED
  BY <1>1, <1>2, <1>3, <1>4, BeginStep DEF processVars

\* A request finds the daemon in a good state, and counts
LEMMA RequestOK ==
  ASSUME IInv, NEW t, NEW kind, Operation(t, kind)
  PROVE  /\ t \in Tasks /\ task[t] = <<>> /\ kind \in Ops
         /\ DataOK /\ CountOK /\ UNCHANGED <<nextGen, nextToken>>
         /\ ops \in Nat /\ ops' = ops + 1 /\ ops' \in 0 .. MaxOps /\ ops <= ops' /\ ops' \in Nat
         /\ slot.spec \in Nat /\ slot.spec <= ops'
<1>1. DataOK /\ CountOK
  BY GoodState
<1>2. ops \in 0 .. MaxOps /\ ops < MaxOps /\ ops' = ops + 1 /\ slot.spec \in Nat /\ slot.spec <= ops + 1
  BY <1>1, MaxOpsAssumption DEF DataOK, CountOK, SlotOK, Slots, Operation
<1> QED
  BY <1>1, <1>2, MaxOpsAssumption DEF Operation, IdleTask, Tasks

\* A request that leaves the slot alone
LEMMA SameSlotOK ==
  ASSUME IInv, NEW t, NEW kind, Operation(t, kind),
         UNCHANGED <<slot, table, processVars, timeVars>>,
         link' \in {"none", "off", "on"}, inhibit' \subseteq {"manual", "auto"},
         marks' \subseteq {"renderer", "display"}, grace' \in BOOLEAN
  PROVE  DataOK' /\ CountOK' /\ SlotKept /\ TableKept
<1>1. /\ DataOK /\ CountOK /\ UNCHANGED <<nextGen, nextToken>>
      /\ ops' \in 0 .. MaxOps /\ slot.spec \in Nat /\ slot.spec <= ops' /\ ops' \in Nat
  BY RequestOK
<1>2. DataOK'
  BY <1>1 DEF DataOK, SlotOK, processVars, timeVars
<1>3. CountOK'
  BY <1>1 DEF CountOK, processVars
<1> QED
  BY <1>2, <1>3 DEF SlotKept, TableKept, HasProcess, IInv, TableIsSlot

LEMMA StepSetInhibit ==
  ASSUME IInv, NEW t, NEW kind \in Ops, SetInhibit(t, kind)
  PROVE  IInv'
<1> DEFINE a == <<RunFor("reconcile", "manual-resume")>>
           c == IF kind = "manual" THEN a \o Lifecycle ELSE Lifecycle
<1>1. /\ Operation(t, kind) /\ kind \in {"manual", "auto"} /\ Begins(t, c)
      /\ inhibit' = IF kind \in inhibit THEN inhibit \ {kind} ELSE inhibit \cup {kind}
      /\ UNCHANGED <<slot, link, marks, grace, table, processVars, timeVars>>
  BY DEF SetInhibit
<1>2. t \in Tasks /\ task[t] = <<>> /\ DataOK /\ nextGen' = nextGen
  BY <1>1, RequestOK
<1>3. DataOK' /\ CountOK' /\ SlotKept /\ TableKept
  BY <1>1, <1>2, SameSlotOK DEF DataOK
<1>4. Easy(a) /\ Easy(Lifecycle)
  BY EasySections DEF Simple, Causes
<1>5. Easy(a \o Lifecycle) /\ Elems(a \o Lifecycle) = Elems(a) \cup Elems(Lifecycle)
  BY <1>4, EasyConcat
<1>6. Easy(c)
  BY <1>4, <1>5
<1>7. Goes(t, c)
  BY <1>1, <1>2, <1>6, BeginsGoes DEF IInv, Begins, Easy
<1>8. \E x \in Elems(c) : x.op \in Stops(kind)
  <2>1. CASE kind = "manual"
    <3>1. RunFor("reconcile", "manual-resume") \in Elems(a)
      BY ElemsOfOne
    <3>2. RunFor("reconcile", "manual-resume").op = "reconcile"
      BY CausedTyped DEF Causes
    <3> QED BY <1>5, <2>1, <3>1, <3>2 DEF Stops
  <2>2. CASE kind = "auto"
    <3>1. Run("lifecycle") \in Elems(Lifecycle)
      BY <2>2, LifecycleTyped
    <3>2. Run("lifecycle").op = "lifecycle"
      BY SimpleTyped DEF Simple
    <3> QED BY <2>2, <3>1, <3>2 DEF Stops
  <2> QED BY <1>1, <2>1, <2>2
<1> HIDE DEF c
<1>9. InhibitInv'
  <2> SUFFICES ASSUME slot'.state = "Running", NEW k \in inhibit'
               PROVE  \E u \in Tasks : \E x \in Elems(task'[u]) : x.op \in Stops(k)
    BY DEF InhibitInv, Stops
  <2>1. CASE k = kind
    BY <1>2, <1>7, <1>8, <2>1 DEF Goes
  <2>2. CASE k # kind
    <3>1. k \in inhibit /\ slot.state = "Running"
      BY <1>1, <2>2
    <3>2. PICK u \in Tasks : \E x \in Elems(task[u]) : x.op \in Stops(k)
      BY <3>1 DEF IInv, InhibitInv
    <3>3. u # t
      BY <1>2, <3>2, ElemsOfTuples
    <3> QED BY <3>2, <3>3, <1>7 DEF Goes
  <2> QED BY <2>1, <2>2
<1> QED
  BY <1>1, <1>2, <1>3, <1>6, <1>9, EasyBegin

LEMMA StepReconnect ==
  ASSUME IInv, NEW t, Reconnect(t)
  PROVE  IInv'
<1> DEFINE a == <<Run("rescue")>> \o Lifecycle
           b == a \o <<RunFor("request", "reconnect")>>
           c == b \o Lifecycle
<1>1. /\ Operation(t, "display") /\ Begins(t, c) /\ link' \in {"none", "off", "on"}
      /\ UNCHANGED <<slot, inhibit, marks, grace, table, processVars, timeVars>>
  BY DEF Reconnect
<1>2. t \in Tasks /\ task[t] = <<>> /\ DataOK /\ nextGen' = nextGen
  BY <1>1, RequestOK
<1>3. DataOK' /\ CountOK' /\ SlotKept /\ TableKept
  BY <1>1, <1>2, SameSlotOK DEF DataOK
<1>4. Easy(<<Run("rescue")>>) /\ Easy(<<RunFor("request", "reconnect")>>) /\ Easy(Lifecycle)
  BY EasySections DEF Simple, Causes
<1>5. Easy(c)
  BY <1>4, EasyConcat
<1> HIDE DEF c
<1> QED
  BY <1>1, <1>2, <1>3, <1>5, EasyBegin

\* A request that tells the slot to stop, or takes its pending start away
LEMMA ChangedSlotOK ==
  ASSUME IInv, NEW t, NEW kind, Operation(t, kind),
         SlotOK(slot'), CountOK', UNCHANGED <<table, inhibit, processVars, timeVars>>,
         link' \in {"none", "off", "on"}, marks' \subseteq {"renderer", "display"}, grace' \in BOOLEAN
  PROVE  DataOK'
  BY RequestOK DEF DataOK, processVars, timeVars

LEMMA StepDisconnect ==
  ASSUME IInv, NEW t, Disconnect(t)
  PROVE  IInv'
<1> DEFINE a == IF slot.pending = NoStart THEN <<>> ELSE <<Run("cancel")>>
           b == a \o <<Run("orphans")>>
           c == b \o Lifecycle
<1>1. /\ Operation(t, "display") /\ Begins(t, c) /\ link' = "none"
      /\ marks' = marks \ {"display"} /\ slot' = WithoutPending(slot)
      /\ UNCHANGED <<inhibit, grace, table, processVars, timeVars>>
  BY DEF Disconnect
<1>2. /\ t \in Tasks /\ task[t] = <<>> /\ DataOK /\ CountOK /\ UNCHANGED <<nextGen, nextToken>>
      /\ slot.spec \in Nat /\ slot.spec <= ops' /\ ops' \in Nat
  BY <1>1, RequestOK
<1>3. /\ SlotOK(slot') /\ slot'.pending = NoStart /\ slot'.gen = slot.gen /\ slot'.start = slot.start
      /\ slot'.spec = slot.spec /\ slot'.state = slot.state
  BY <1>1, <1>2, WithoutPendingSlot DEF DataOK
<1>4. CountOK'
  BY <1>1, <1>2, <1>3 DEF CountOK, processVars
<1>5. DataOK'
  BY <1>1, <1>2, <1>3, <1>4, ChangedSlotOK DEF DataOK
<1>6. SlotKept /\ TableKept
  BY <1>1, <1>3 DEF SlotKept, TableKept, HasProcess, IInv, TableIsSlot
<1>7. Easy(a) /\ Easy(<<Run("orphans")>>) /\ Easy(Lifecycle)
  BY EasySections DEF Simple, Causes
<1>8. Easy(c)
  BY <1>7, EasyConcat
<1> HIDE DEF c
<1> QED
  BY <1>1, <1>2, <1>4, <1>5, <1>6, <1>8, EasyBegin

LEMMA StepReplace ==
  ASSUME IInv, NEW t, Replace(t)
  PROVE  IInv'
<1> DEFINE a == <<Run("cancel"), Run("drop")>>
           b == <<Run("cancel")>>
<1>1. /\ Operation(t, "replace") /\ link' = "none" /\ slot.state # "Removed"
      /\ UNCHANGED <<inhibit, marks, grace, table, processVars, timeVars>>
  BY DEF Replace
<1>2. /\ t \in Tasks /\ task[t] = <<>> /\ DataOK /\ CountOK /\ UNCHANGED <<proc, nextGen, nextToken>>
      /\ ops <= ops' /\ ops' \in Nat /\ ops \in Nat
  BY <1>1, RequestOK DEF processVars
<1>3. Easy(a) /\ Easy(b) /\ Easy(Lifecycle)
  BY EasySections DEF Simple, Causes
<1>4. Easy(a \o Lifecycle) /\ Easy(b \o Lifecycle)
  BY <1>3, EasyConcat
<1>5. CASE HasProcess
  <2>1. slot' = StopRequested(WithoutPending(slot), FALSE) /\ Begins(t, a \o Lifecycle)
    BY <1>5 DEF Replace
  <2>2. /\ SlotOK(slot') /\ CountOK' /\ SlotKept
        /\ slot'.state \notin {"Starting", "Running"} /\ slot'.state # "Removed"
    BY <1>1, <1>2, <2>1, StopSlot
  <2>3. TableKept
    BY <1>1, <2>2 DEF TableKept
  <2>4. DataOK'
    BY <1>1, <1>2, <2>2, ChangedSlotOK DEF DataOK
  <2> QED
    BY <1>1, <1>2, <1>4, <2>1, <2>2, <2>3, <2>4, EasyBegin
<1>6. CASE ~HasProcess
  <2>1. slot' = Removed(slot) /\ Begins(t, b \o Lifecycle)
    BY <1>6 DEF Replace
  <2>2. SlotOK(slot') /\ CountOK' /\ SlotKept /\ slot'.state = "Removed"
    BY <1>2, <2>1, RemoveSlot
  <2>3. TableKept
    BY <1>1, <1>6, <2>2 DEF TableKept, HasProcess, IInv, TableIsSlot
  <2>4. DataOK'
    BY <1>1, <1>2, <2>2, ChangedSlotOK DEF DataOK
  <2> QED
    BY <1>1, <1>2, <1>4, <2>1, <2>2, <2>3, <2>4, EasyBegin
<1> QED
  BY <1>5, <1>6

LEMMA StepApply ==
  ASSUME IInv, NEW t, NEW preempt \in BOOLEAN, Apply(t, preempt)
  PROVE  IInv'
<1> DEFINE a == IF slot'.pending # slot.pending THEN <<Run("cancel")>> ELSE <<>>
           b == a \o <<RunFor("applied", IF preempt THEN "immediate" ELSE "coalescing")>>
           c == b \o Lifecycle
           r == ReplaceSpec(slot, preempt)
           w == WithoutPending(r)
<1>1. /\ Operation(t, "apply") /\ Begins(t, c) /\ link' \in {"none", "off", "on"}
      /\ UNCHANGED <<inhibit, marks, grace, table, processVars, timeVars>>
  BY DEF Apply
<1>2. /\ t \in Tasks /\ task[t] = <<>> /\ DataOK /\ CountOK /\ UNCHANGED <<nextGen, nextToken>>
      /\ slot.spec \in Nat /\ slot.spec <= ops' /\ ops' \in Nat /\ ops' = ops + 1 /\ ops \in Nat
      /\ ops' \in 0 .. MaxOps /\ slot.spec <= ops + 1
  BY <1>1, RequestOK DEF CountOK
<1>3. Easy(a) /\ Easy(<<RunFor("applied", IF preempt THEN "immediate" ELSE "coalescing")>>) /\ Easy(Lifecycle)
  BY EasySections DEF Simple, Causes
<1>4. Easy(c)
  BY <1>3, EasyConcat
<1>5. CASE slot' = slot
  <2>1. DataOK' /\ CountOK' /\ SlotKept /\ TableKept
    BY <1>1, <1>2, <1>5, SameSlotOK DEF DataOK
  <2> HIDE DEF c
  <2> QED
    BY <1>1, <1>2, <1>4, <2>1, EasyBegin
<1>6. CASE slot' \in {r, w} /\ slot.state \in {"Stopping", "Stopped", "Killed", "Failed"}
  <2>1. slot.spec <= MaxOps
    BY <1>2, MaxOpsAssumption
  <2>2. /\ SlotOK(r) /\ r.pending = slot.pending
        /\ r.gen = slot.gen /\ r.start = slot.start /\ r.spec = slot.spec + 1
        /\ \/ r.state = slot.state
           \/ slot.state \in {"Stopped", "Killed", "Failed"} /\ r.state = "Stopped"
    BY <1>2, <2>1, ReplaceSpecSlot DEF DataOK
  <2> HIDE DEF r
  <2>3. /\ SlotOK(w) /\ w.pending = NoStart
        /\ w.gen = r.gen /\ w.start = r.start /\ w.spec = r.spec /\ w.state = r.state
    BY <2>2, WithoutPendingSlot
  <2> HIDE DEF w, a, b, c
  <2>4. /\ SlotOK(slot') /\ slot'.pending \in {slot.pending, NoStart}
        /\ slot'.gen = slot.gen /\ slot'.start = slot.start /\ slot'.spec = slot.spec + 1
        /\ \/ slot'.state = slot.state
           \/ slot.state \in {"Stopped", "Killed", "Failed"} /\ slot'.state = "Stopped"
    BY <1>6, <2>2, <2>3
  <2>5. CountOK'
    <3>1. slot'.pending # NoStart => nextGen < nextToken
      BY <1>2, <2>4 DEF CountOK
    <3>2. slot'.spec <= ops' + 1
      BY <1>2, <2>4
    <3> QED BY <1>1, <1>2, <2>4, <3>1, <3>2 DEF CountOK, processVars
  <2>6. DataOK'
    BY <1>1, <1>2, <2>4, <2>5, ChangedSlotOK DEF DataOK
  <2>7. SlotKept
    BY <1>6, <2>4 DEF SlotKept, HasProcess
  <2>8. TableKept
    BY <1>1, <1>6, <2>4 DEF TableKept
  <2> QED
    BY <1>1, <1>2, <1>4, <2>5, <2>6, <2>7, <2>8, EasyBegin
<1> QED
  BY <1>5, <1>6 DEF Apply

\* A section that drops the renderer
LEMMA DropBegins ==
  ASSUME IInv, NEW t \in Tasks, task[t] = <<>>, NEW x \in TypedCalls, x.op = "drop", x.gen < nextGen,
         Begins(t, <<x>>), DataOK', CountOK',
         UNCHANGED <<slot, inhibit, table, processVars, nextGen>>
  PROVE  IInv'
<1>1. <<x>> \in Seq(TypedCalls) /\ Elems(<<x>>) = {x}
  BY ElemsOfOne
<1>2. Plain(<<x>>) /\ Adds(t, <<x>>)
  BY <1>1 DEF Plain, Adds, Special, Starter
<1>3. SlotKept /\ TableKept
  BY DEF SlotKept, TableKept, HasProcess, IInv, TableIsSlot
<1>4. InhibitInv'
  BY <1>1, <1>3, BeginsInhibit
<1>5. nextGen <= nextGen'
  BY GoodState, MaxOpsAssumption DEF DataOK
<1> QED
  BY <1>1, <1>2, <1>3, <1>4, <1>5, BeginStep DEF Begins, processVars

LEMMA StepKill ==
  ASSUME IInv, NEW t, Kill(t)
  PROVE  IInv'
<1>1. /\ Operation(t, "kill") /\ UNCHANGED <<slot, routeVars, table, processVars, timeVars>>
  BY DEF Kill
<1>2. /\ t \in Tasks /\ task[t] = <<>> /\ DataOK /\ nextGen' = nextGen
      /\ nextGen \in 1 .. 2 * MaxOps + 2
  BY <1>1, RequestOK DEF DataOK
<1>3. DataOK' /\ CountOK'
  BY <1>1, <1>2, SameSlotOK DEF DataOK, routeVars
<1>4. PICK g \in {0} \cup (1 .. nextGen - 1) : Begins(t, <<[Run("drop") EXCEPT !.gen = g]>>)
  BY DEF Kill
<1>5. g \in Gens \cup {0} /\ g < nextGen
  BY <1>2, MaxOpsAssumption DEF Gens, Tokens
<1>6. Run("drop") \in TypedCalls /\ Run("drop").op = "drop"
  BY SimpleTyped DEF Simple
<1>7. \A y \in TypedCalls : y.op = "drop" =>
        LET x == [y EXCEPT !.gen = g] IN x \in TypedCalls /\ x.op = "drop" /\ x.gen = g
  BY <1>5 DEF TypedCalls, Typed, Calls, Special, Starter
<1> DEFINE x == [Run("drop") EXCEPT !.gen = g]
<1>8. x \in TypedCalls /\ x.op = "drop" /\ x.gen = g
  BY <1>6, <1>7
<1>9. Begins(t, <<x>>)
  BY <1>4
<1> HIDE DEF x
<1> QED
  BY <1>1, <1>2, <1>3, <1>5, <1>8, <1>9, DropBegins DEF routeVars

LEMMA StepGraceEnds ==
  ASSUME IInv, NEW t, GraceEnds(t)
  PROVE  IInv'
<1>1. /\ t \in Tasks /\ task[t] = <<>> /\ grace' = FALSE
      /\ UNCHANGED <<slot, link, inhibit, marks, table, processVars, timeVars, countVars>>
  BY DEF GraceEnds, IdleTask, Tasks
<1>2. DataOK /\ CountOK /\ nextGen \in Nat \ {0}
  BY GoodState, MaxOpsAssumption DEF DataOK
<1>3. DataOK' /\ CountOK'
  BY <1>1, <1>2 DEF DataOK, CountOK, SlotOK, processVars, timeVars, countVars
<1> DEFINE x == RunFor("drop", "orphan")
<1>4. x \in TypedCalls /\ x.op = "drop" /\ x.gen = 0
  BY MaxOpsAssumption DEF RunFor, Run, TypedCalls, Typed, Calls, Sections, Special, Starter, Uses
<1>5. Begins(t, <<x>>) \/ UNCHANGED task
  BY DEF GraceEnds
<1> HIDE DEF x
<1>6. CASE Begins(t, <<x>>)
  BY <1>1, <1>2, <1>3, <1>4, <1>6, DropBegins DEF countVars
<1>7. CASE UNCHANGED task
  BY <1>1, <1>3, <1>7, SameTasksStep
<1> QED
  BY <1>5, <1>6, <1>7

LEMMA StepDeadlineReached ==
  ASSUME IInv, DeadlineReached
  PROVE  IInv'
<1>1. /\ "deadlines" \in Tasks /\ task["deadlines"] = <<>> /\ fired # <<>> /\ fired' = Tail(fired)
      /\ Begins("deadlines", <<AdvanceOf(fired[1])>>)
      /\ UNCHANGED <<slot, routeVars, table, processVars, sched, due, countVars>>
  BY DEF DeadlineReached, IdleTask, Tasks
<1>2. DataOK /\ CountOK
  BY GoodState
<1>3. fired[1] \in Tokens /\ Tail(fired) \in Seq(Tokens)
  BY <1>1, <1>2, HeadTailProperties DEF DataOK
<1>4. DataOK' /\ CountOK' /\ nextGen' = nextGen
  BY <1>1, <1>2, <1>3 DEF DataOK, CountOK, SlotOK, routeVars, processVars, countVars
<1>5. SlotKept /\ TableKept
  BY <1>1 DEF SlotKept, TableKept, HasProcess, IInv, TableIsSlot
<1>6. Easy(<<AdvanceOf(fired[1])>>)
  BY <1>3, EasyAdvance
<1> QED
  BY <1>1, <1>4, <1>5, <1>6, EasyBegin DEF routeVars

LEMMA StepRestart ==
  ASSUME IInv, NEW t, Restart(t)
  PROVE  IInv'
<1>1. /\ Operation(t, "restart") /\ table # 0
      /\ UNCHANGED <<slot, routeVars, table, processVars, timeVars>>
  BY DEF Restart
<1>1a. t \in Tasks /\ task[t] = <<>> /\ DataOK /\ CountOK /\ nextGen' = nextGen
  BY <1>1, RequestOK
<1>1b. nextGen \in Nat \ {0}
  BY <1>1a, MaxOpsAssumption DEF DataOK
<1>2. /\ t \in Tasks /\ task[t] = <<>> /\ DataOK /\ CountOK /\ nextGen' = nextGen
      /\ nextGen \in Nat \ {0}
  BY <1>1a, <1>1b
<1>3. DataOK' /\ CountOK' /\ SlotKept /\ TableKept
  BY <1>1, <1>2, SameSlotOK DEF DataOK, routeVars
<1>4. table \in Gens /\ table < nextGen
  BY <1>1, <1>2 DEF IInv, TableIsSlot, DataOK, CountOK
<1>5. CASE link = "none"
  <2>1. Begins(t, <<Run("drop")>>)
    BY <1>5 DEF Restart
  <2>2. Run("drop") \in TypedCalls /\ Run("drop").op = "drop" /\ Run("drop").gen = 0
    BY SimpleTyped DEF Simple
  <2> QED
    BY <1>1, <1>2, <1>3, <2>1, <2>2, DropBegins DEF routeVars
<1>6. CASE link # "none"
  <2> DEFINE b == <<Run("begin")>>
             q == IF Demand THEN <<RunFor("request", "restart")>> ELSE <<>>
             x == [Run("detach") EXCEPT !.gen = table]
             d == b \o q
             c == d \o <<x>>
  <2>1. Begins(t, c)
    BY <1>6 DEF Restart
  <2>2. Easy(b) /\ Easy(q)
    BY EasySections DEF Simple, Causes
  <2>3. Run("detach") \in Calls /\ Run("detach").op = "detach"
    BY MaxOpsAssumption DEF Run, Calls, Sections, Uses
  <2>4. \A y \in Calls : y.op = "detach" =>
          LET z == [y EXCEPT !.gen = table] IN z \in TypedCalls /\ z.op = "detach" /\ z.gen = table
    BY <1>1, <1>4 DEF TypedCalls, Typed, Calls, Special, Starter
  <2>5. x \in TypedCalls /\ x.op = "detach" /\ x.gen = table
    BY <2>3, <2>4
  <2> HIDE DEF x, q
  <2>6. <<x>> \in Seq(TypedCalls) /\ Elems(<<x>>) = {x}
    BY <2>5, ElemsOfOne
  <2>7. Easy(d)
    BY <2>2, EasyConcat
  <2>8. c \in Seq(TypedCalls) /\ Elems(c) = Elems(d) \cup {x}
    <3> HIDE DEF d
    <3>1. d \in Seq(TypedCalls)
      BY <2>7 DEF Easy
    <3> QED BY <2>6, <3>1, ElemsConcat
  <2>9. c[1].op = "begin"
    <3>1. Run("begin") \in TypedCalls /\ Run("begin").op = "begin"
      BY SimpleTyped DEF Simple
    <3>2. b \in Seq(TypedCalls) /\ q \in Seq(TypedCalls) /\ d \in Seq(TypedCalls)
      BY <2>2, <2>7 DEF Easy
    <3>3. Len(b) = 1 /\ b[1] = Run("begin") /\ Len(q) \in Nat
      BY <3>2, LenProperties
    <3>4. Len(d) >= 1 /\ d[1] = Run("begin")
      BY <3>2, <3>3, ConcatProperties
    <3>5. c[1] = d[1]
      <4> HIDE DEF d
      <4> QED BY <2>6, <3>2, <3>4, ConcatProperties, LenProperties
    <3> QED BY <3>1, <3>4, <3>5
  <2> HIDE DEF c, d
  <2>10. Plain(c)
    BY <2>5, <2>7, <2>8 DEF Plain, Easy, Special, Starter
  <2>11. task' = [task EXCEPT ![t] = c] /\ task'[t] = c
    BY <1>2, <2>1 DEF Begins, IInv, TypeInv
  <2>12. Adds(t, c)
    <3>1. ASSUME NEW y \in Elems(c)
          PROVE  y.gen < nextGen' /\ y.op # "stop"
      BY <1>2, <1>4, <2>5, <2>7, <2>8, <3>1 DEF Easy
    <3> QED BY <2>9, <2>11, <3>1 DEF Adds
  <2>13. InhibitInv'
    BY <1>1, <1>2, <1>3, <2>1, <2>8, BeginsInhibit DEF routeVars
  <2>14. nextGen <= nextGen' /\ UNCHANGED <<live, proc, exits>>
    BY <1>1, <1>2 DEF processVars
  <2> QED
    BY <1>2, <1>3, <2>8, <2>10, <2>11, <2>12, <2>13, <2>14, BeginStep
<1> QED
  BY <1>5, <1>6


-----------------------------------------------------------------------------
(* Sections about a process. *)

\* The work of task t becomes e, the others keep theirs
NewWork(t, e) == \A u \in Tasks : work(u)' = IF u = t THEN e ELSE work(u)

StacksOK ==
    /\ task' \in [Tasks -> Seq(TypedCalls)] /\ task' \in [Tasks -> Seq(Calls)]
    /\ \A u \in Tasks : Shape(task'[u])

LEMMA SpecialMove ==
  ASSUME TypeInv, NEW t \in Tasks, NEW op, At(t, op), op # "cancel",
         NEW e \in TypedCalls, e.op \in Special, Then(t, <<e>>)
  PROVE  StacksOK /\ Goes(t, <<e>>) /\ NewWork(t, e) /\ Elems(<<e>>) = {e}
<1>1. task[t] # <<>> /\ task[t][1].op = op /\ task[t] \in Seq(TypedCalls) /\ Shape(task[t])
  BY Running DEF TypeInv
<1> DEFINE r == <<e>> \o Tail(task[t])
<1>2. Shape(r) /\ Work(r) = e
  BY <1>1, SpecialThen
<1>3. <<e>> \in Seq(TypedCalls)
  OBVIOUS
<1>4. r \in Seq(TypedCalls)
  BY <1>1, <1>3, StackOf
<1>5. task' = [task EXCEPT ![t] = r]
  BY DEF Then
<1>6. Goes(t, <<e>>)
  BY <1>1, <1>3, <1>5, ThenGoes
<1> HIDE DEF r
<1>7. /\ task' \in [Tasks -> Seq(TypedCalls)] /\ task' \in [Tasks -> Seq(Calls)]
      /\ \A u \in Tasks : Shape(task'[u])
      /\ \A u \in Tasks : work(u)' = IF u = t THEN Work(r) ELSE work(u)
  BY <1>2, <1>4, <1>5, Moves
<1> QED
  BY <1>2, <1>6, <1>7, ElemsOfOne DEF StacksOK, NewWork

LEMMA PlainSections ==
  ASSUME TypeInv, NEW t \in Tasks, NEW op, At(t, op), op # "cancel",
         NEW c \in Seq(TypedCalls), Plain(c), Then(t, c)
  PROVE  StacksOK /\ Goes(t, c) /\ NewWork(t, NoWork)
<1>1. task[t] # <<>> /\ task[t][1].op = op /\ task[t] \in Seq(TypedCalls) /\ Shape(task[t])
  BY Running DEF TypeInv
<1> DEFINE r == c \o Tail(task[t])
<1>2. Shape(r) /\ Work(r) = NoWork
  BY <1>1, PlainThen
<1>4. r \in Seq(TypedCalls)
  BY <1>1, StackOf
<1>5. task' = [task EXCEPT ![t] = r]
  BY DEF Then
<1>6. Goes(t, c)
  BY <1>1, <1>5, ThenGoes
<1> HIDE DEF r
<1>7. /\ task' \in [Tasks -> Seq(TypedCalls)] /\ task' \in [Tasks -> Seq(Calls)]
      /\ \A u \in Tasks : Shape(task'[u])
      /\ \A u \in Tasks : work(u)' = IF u = t THEN Work(r) ELSE work(u)
  BY <1>2, <1>4, <1>5, Moves
<1> QED
  BY <1>2, <1>6, <1>7 DEF StacksOK, NewWork

\* The work of a task that runs a section about a process
LEMMA RunningWork ==
  ASSUME TypeInv, NEW t \in Tasks, NEW op, At(t, op)
  PROVE  /\ op \in Special => /\ work(t) = task[t][1] /\ work(t).op = op
                              /\ work(t).gen \in Gens /\ work(t).gen # 0
                              /\ op \in Starter => work(t).token \in Tokens /\ work(t).token # 0
         /\ op \notin Special \cup {"cancel"} => work(t) = NoWork
<1>1. task[t] # <<>> /\ task[t][1].op = op /\ task[t] \in Seq(TypedCalls) /\ Shape(task[t])
  BY Running DEF TypeInv
<1>2. /\ op \in Special => work(t) = task[t][1]
      /\ op \notin Special \cup {"cancel"} => work(t) = NoWork
  BY <1>1, WorkOfRunning DEF work
<1>3. op \in Special => work(t).op \in Special /\ work(t) \in TypedCalls
  BY <1>1, <1>2, WorkTyped
<1>4. op \in Starter => work(t).token # 0
  BY <1>1, <1>2, <1>3 DEF TypedCalls, Typed, Special
<1> QED
  BY <1>1, <1>2, <1>3, <1>4, WorkTyped

\* What a step about a process does not concern
LEMMA FrameStep ==
  ASSUME IInv, NEW t, NEW c, Goes(t, c), Adds(t, c), HandsOn(t, c), StacksOK, DataOK', CountOK',
         nextGen <= nextGen', inhibit' \subseteq inhibit,
         slot'.state = "Running" => slot.state = "Running",
         \A g \in Gens : g < nextGen /\ Ending(g) => Ending(g)',
         task[t] # <<>> => task[t][1].op # "begin"
  PROVE  TypeInv' /\ CountInv' /\ EndInv' /\ InhibitInv'
<1>1. TypeOK'
  BY DataIsType DEF StacksOK, DataOK, TypeOK, SlotOK, HasProcess
<1>2. TypeInv'
  BY <1>1 DEF TypeInv, StacksOK
<1>3. CountInv'
  BY <1>1, CountGoes DEF IInv, CountInv, CountOK, Adds
<1>4. EndInv'
  BY EndGoes DEF IInv, Adds
<1>5. InhibitInv'
  BY InhibitGoes DEF IInv
<1> QED
  BY <1>2, <1>3, <1>4, <1>5

\* A step about a process that leaves the slot alone
LEMMA SameSlotWork ==
  ASSUME IInv, UNCHANGED <<slot, table>>, WorkInv',
         \A g \in Gens : Claimed(g)' => Claimed(g),
         \A u \in Tasks : work(u)'.op \in Starter
            => work(u).op \in Starter /\ work(u)'.gen = work(u).gen /\ work(u)'.token = work(u).token,
         slot.state = "Starting" => Waiting(slot.gen)'
  PROVE  WorkInv' /\ ClaimInv' /\ TableIsSlot' /\ StartInv' /\ StartingInv'
<1>1. ClaimInv'
  BY DEF IInv, ClaimInv
<1>2. TableIsSlot'
  BY DEF IInv, TableIsSlot
<1>3. StartInv'
  BY DEF IInv, StartInv
<1>4. StartingInv'
  BY DEF IInv, StartingInv, Waiting
<1> QED
  BY <1>1, <1>2, <1>3, <1>4

\* Who owns a process stays its owner, as far as starts go
LEMMA OwnerKept ==
  ASSUME IInv, NEW t \in Tasks, NEW e, NewWork(t, e),
         e.op \in Starter => work(t).op \in Starter /\ e.gen = work(t).gen,
         e.op = "exiting" => \A u \in Tasks : work(u).op = "exiting" => work(u).gen # e.gen
  PROVE  WorkOwner'
<1>1. WorkOwner
  BY DEF IInv, WorkInv
<1>2. ASSUME NEW u \in Tasks, NEW v \in Tasks, work(u)'.gen = work(v)'.gen,
             work(u)'.op \in Starter /\ work(v)'.op \in Starter
      PROVE  u = v
  BY <1>1, <1>2 DEF NewWork, WorkOwner
<1>3. ASSUME NEW u \in Tasks, NEW v \in Tasks, work(u)'.gen = work(v)'.gen,
             work(u)'.op = "exiting" /\ work(v)'.op = "exiting"
      PROVE  u = v
  BY <1>1, <1>3 DEF NewWork, WorkOwner
<1> QED
  BY <1>2, <1>3 DEF WorkOwner


ProcStates == {"none", "spawning", "up", "exiting", "reaping", "dead"}

\* The parts of the invariant that a change of process g leaves alone
LEMMA ProcessFrame ==
  ASSUME IInv, NEW t \in Tasks, NEW op, At(t, op),
         op \notin {"begin", "reconcile", "attached", "lifecycle"},
         NEW c, Goes(t, c), StacksOK,
         \A x \in Elems(c) : x.gen < nextGen /\ x.op \notin {"stop", "detach"},
         UNCHANGED <<slot, routeVars, table, exits, timeVars, countVars>>, live' \in Gens \cup {0},
         NEW g \in Gens, g < nextGen, NEW p \in ProcStates, proc' = [proc EXCEPT ![g] = p]
  PROVE  TypeInv' /\ CountInv' /\ EndInv' /\ InhibitInv'
<1>1. DataOK /\ CountOK /\ nextGen \in Nat
  BY GoodState, MaxOpsAssumption DEF DataOK
<1>2. DataOK'
  BY <1>1 DEF DataOK, SlotOK, routeVars, timeVars, countVars, ProcStates
<1>3. CountOK'
  <2>1. \A h \in Gens : h >= nextGen => proc'[h] = "none"
    <3>1. \A h \in Gens : h >= nextGen => h # g
      BY <1>1, MaxOpsAssumption DEF Gens, Tokens
    <3>2. \A h \in Gens : h # g => proc'[h] = proc[h]
      BY <1>1 DEF DataOK
    <3> QED BY <1>1, <3>1, <3>2 DEF CountOK
  <2> QED BY <1>1, <2>1 DEF CountOK, countVars
<1>4. HandsOn(t, c) /\ task[t] # <<>> /\ task[t][1].op # "begin"
  BY NoStopHandsOn DEF At
<1>5. Adds(t, c) /\ nextGen <= nextGen' /\ inhibit' \subseteq inhibit
      /\ \A h \in Gens : Ending(h) => Ending(h)'
  BY <1>1 DEF Adds, Ending, routeVars, countVars
<1> QED
  BY <1>2, <1>3, <1>4, <1>5, FrameStep

\* The sections that a change of process g to p concerns find it as they expect
LEMMA ProcKept ==
  ASSUME IInv, NEW t \in Tasks, NEW e, NewWork(t, e),
         NEW g \in Gens, NEW p, proc' = [proc EXCEPT ![g] = p],
         e.op \in Special => proc'[e.gen] \in ProcOf(e.op),
         \A u \in Tasks \ {t} : work(u).op \in Special /\ work(u).gen = g => p \in ProcOf(work(u).op)
  PROVE  WorkProc'
<1>1. proc \in [Gens -> ProcStates]
  BY GoodState DEF DataOK, ProcStates
<1>2. ASSUME NEW u \in Tasks \ {t}, work(u).op \in Special
      PROVE  proc'[work(u).gen] \in ProcOf(work(u).op)
  <2>1. work(u).gen \in Gens
    BY <1>2, WorkTyped DEF IInv
  <2>2. CASE work(u).gen = g
    BY <1>1, <1>2, <2>2
  <2>3. CASE work(u).gen # g
    BY <1>1, <1>2, <2>1, <2>3 DEF IInv, WorkInv, WorkProc
  <2> QED BY <2>2, <2>3
<1> QED
  BY <1>2 DEF NewWork, WorkProc

\* What is known of the process of a running section
LEMMA RunningProc ==
  ASSUME IInv, NEW t \in Tasks, NEW op \in Special, At(t, op)
  PROVE  LET e == task[t][1]
         IN  /\ work(t) = e /\ e.op = op /\ e \in TypedCalls /\ e.gen \in Gens /\ e.gen # 0 /\ e.gen < nextGen
             /\ op \in Starter => e.token # 0
             /\ proc[e.gen] \in ProcOf(op)
             /\ \A u \in Tasks \ {t} : op \in Starter /\ work(u).op \in Starter => work(u).gen # e.gen
             /\ \A u \in Tasks \ {t} : op = "exiting" /\ work(u).op = "exiting" => work(u).gen # e.gen
<1>1. /\ work(t) = task[t][1] /\ task[t][1].op = op /\ task[t][1].gen \in Gens /\ task[t][1].gen # 0
      /\ op \in Starter => task[t][1].token # 0
  BY RunningWork DEF IInv
<1>2. task[t][1].gen < nextGen /\ task[t][1] \in TypedCalls
  BY RunningGen, Running DEF IInv
<1>3. WorkProc /\ WorkOwner
  BY DEF IInv, WorkInv
<1> QED
  BY <1>1, <1>2, <1>3 DEF WorkProc, WorkOwner

\* A section that takes the same start, or the same process, a step further
LEMMA NextSection ==
  ASSUME IInv, NEW t \in Tasks, NEW op \in Special, At(t, op), NEW next \in Special \ {"settle"},
         Goto(t, next), next \in Starter => op \in Starter
  PROVE  LET e == [task[t][1] EXCEPT !.op = next]
         IN  /\ e.op = next /\ e.gen = task[t][1].gen /\ e.token = task[t][1].token
             /\ StacksOK /\ Goes(t, <<e>>) /\ NewWork(t, e)
             /\ \A x \in Elems(<<e>>) : x.gen < nextGen /\ x.op \notin {"stop", "detach"}
<1> DEFINE e == [task[t][1] EXCEPT !.op = next]
<1>1. /\ task[t][1] \in TypedCalls /\ task[t][1].gen # 0 /\ task[t][1].gen < nextGen
      /\ op \in Starter => task[t][1].token # 0
  BY RunningProc
<1>2. next \in Sections \ {"settle", "request", "reconcile", "applied"} /\ next \notin {"stop", "detach"}
      /\ next \notin {"advance", "schedule"}
  BY DEF Sections, Special, Starter
<1>3. e \in TypedCalls /\ e.op = next /\ e.gen = task[t][1].gen /\ e.token = task[t][1].token
  BY <1>1, <1>2, GotoTyped
<1>4. Then(t, <<e>>) /\ op # "cancel"
  BY DEF Goto, Special, Starter
<1> HIDE DEF e
<1>5. StacksOK /\ Goes(t, <<e>>) /\ NewWork(t, e) /\ Elems(<<e>>) = {e}
  BY <1>3, <1>4, SpecialMove DEF IInv
<1> QED
  BY <1>1, <1>2, <1>3, <1>5 DEF e


LEMMA ProcOfs ==
  /\ ProcOf("spawn") = {"none"} /\ ProcOf("spawning") = {"spawning"} /\ ProcOf("spawnError") = {"dead"}
  /\ ProcOf("exiting") = {"exiting"} /\ ProcOf("settle") = {"dead"}
  /\ \A op \in {"get", "attach", "cleanup"} : ProcOf(op) = {"up", "exiting", "reaping", "dead"}
  BY DEF ProcOf

\* A process that is not dead has no exit on its way
LEMMA ExitsKept ==
  ASSUME IInv, NEW g \in Gens, NEW p, proc[g] # "dead" \/ p = "dead", proc' = [proc EXCEPT ![g] = p], exits' = exits
  PROVE  ExitsDead'
<1>1. DataOK /\ ExitsDead
  BY GoodState DEF IInv, WorkInv
<1>2. ASSUME NEW i \in 1 .. Len(exits)
      PROVE  proc'[exits[i].gen] = "dead"
  <2>1. exits[i] \in [gen : Gens, kind : ExitKinds]
    BY <1>1, ElementOfSeq DEF DataOK
  <2>2. exits[i].gen \in Gens /\ proc[exits[i].gen] = "dead"
    BY <1>1, <2>1 DEF ExitsDead
  <2> QED BY <1>1, <2>2 DEF DataOK
<1> QED
  BY <1>2 DEF ExitsDead

\* Who waits for another process than that of task t still does
LEMMA WaitingKept ==
  ASSUME IInv, NEW t \in Tasks, NEW e, NewWork(t, e), NEW h \in Gens, Waiting(h),
         proc'[h] = proc[h], exits' = exits,
         work(t).op \in Special => work(t).gen # h
  PROVE  Waiting(h)'
<1>1. ASSUME NEW u \in Tasks, work(u).op \in Special, work(u).gen = h
      PROVE  work(u)' = work(u)
  BY <1>1 DEF NewWork
<1>2. CASE proc[h] \in {"none", "spawning", "up"} /\ \E u \in Tasks : work(u).op \in Starter /\ work(u).gen = h
  BY <1>1, <1>2 DEF Waiting, Special
<1>3. CASE proc[h] = "reaping"
  BY <1>3 DEF Waiting
<1>4. CASE proc[h] = "dead" /\ \E u \in Tasks : work(u).op \in {"spawnError", "settle"} /\ work(u).gen = h
  BY <1>1, <1>4 DEF Waiting, Special, Starter
<1>5. CASE proc[h] = "dead" /\ \E i \in 1 .. Len(exits) : exits[i].gen = h
  BY <1>5 DEF Waiting
<1> QED
  BY <1>2, <1>3, <1>4, <1>5 DEF Waiting

\* The claims on processes do not grow when task t goes on
LEMMA ClaimsKept ==
  ASSUME IInv, NEW t \in Tasks, NEW e, NewWork(t, e), e.op # "spawn",
         NEW g \in Gens, NEW p, proc' = [proc EXCEPT ![g] = p],
         p \in {"spawning", "up", "exiting", "reaping"} => Claimed(g)
  PROVE  \A h \in Gens : Claimed(h)' => Claimed(h)
<1>1. proc \in [Gens -> ProcStates]
  BY GoodState DEF DataOK, ProcStates
<1>2. ASSUME NEW h \in Gens, h \in Existing'
      PROVE  Claimed(h)
  BY <1>1, <1>2 DEF Existing, Claimed
<1>3. ASSUME NEW h \in Gens, NEW u \in Tasks, work(u)'.op = "spawn", work(u)'.gen = h
      PROVE  Claimed(h)
  BY <1>3 DEF NewWork, Claimed
<1> QED
  BY <1>2, <1>3 DEF Claimed

LEMMA StepSpawn ==
  ASSUME IInv, NEW t \in Tasks, Spawn(t)
  PROVE  IInv'
<1> DEFINE g == task[t][1].gen
           e == [task[t][1] EXCEPT !.op = "spawning"]
<1>1. At(t, "spawn") /\ UNCHANGED <<slot, routeVars, table, live, exits, timeVars, countVars>>
  BY DEF Spawn
<1>2. /\ work(t) = task[t][1] /\ task[t][1].op = "spawn" /\ g \in Gens /\ g # 0 /\ g < nextGen
      /\ proc[g] = "none"
      /\ \A u \in Tasks \ {t} : work(u).op \in Starter => work(u).gen # g
  BY <1>1, RunningProc DEF Special, Starter, ProcOf
<1>3. DataOK /\ WorkProc /\ LiveUp /\ ExitsDead /\ ClaimInv /\ StartingInv
  BY GoodState DEF IInv, WorkInv
<1>4. Claimed(g)
  BY <1>2 DEF Claimed
<1>5. \A h \in Gens : Claimed(h) => h = g
  BY <1>2, <1>3, <1>4 DEF ClaimInv
<1>6. live = 0
  <2> SUFFICES ASSUME live # 0
               PROVE  FALSE
    OBVIOUS
  <2>1. live \in Gens /\ proc[live] = "up"
    BY <1>3 DEF DataOK, LiveUp
  <2>2. Claimed(live)
    BY <2>1 DEF Claimed, Existing
  <2> QED BY <1>2, <1>5, <2>1, <2>2
<1>7. proc' = [proc EXCEPT ![g] = "spawning"] /\ Goto(t, "spawning")
  BY <1>6 DEF Spawn
<1>8. /\ e.op = "spawning" /\ e.gen = g /\ e.token = task[t][1].token
      /\ StacksOK /\ Goes(t, <<e>>) /\ NewWork(t, e)
      /\ \A x \in Elems(<<e>>) : x.gen < nextGen /\ x.op \notin {"stop", "detach"}
  BY <1>1, <1>7, NextSection DEF Special, Starter
<1>9. proc'[g] = "spawning" /\ \A h \in Gens \ {g} : proc'[h] = proc[h]
  BY <1>2, <1>3, <1>7 DEF DataOK
<1> HIDE DEF g, e
<1>10. TypeInv' /\ CountInv' /\ EndInv' /\ InhibitInv'
  BY <1>1, <1>2, <1>3, <1>7, <1>8, ProcessFrame DEF ProcStates, DataOK
<1>11. \A u \in Tasks \ {t} : work(u).op \in Special => work(u).gen # g
  <2>1. ASSUME NEW u \in Tasks \ {t}, work(u).op \in Special, work(u).gen = g
        PROVE  FALSE
    <3>1. proc[g] \in ProcOf(work(u).op)
      BY <1>3, <2>1 DEF WorkProc
    <3>2. work(u).op \notin Starter
      BY <1>2, <2>1
    <3> QED BY <1>2, <2>1, <3>1, <3>2 DEF ProcOf, Special, Starter
  <2> QED BY <2>1
<1>12. WorkProc'
  <2>1. e.gen = g /\ e.op = "spawning"
    BY <1>8
  <2>2. proc'[e.gen] \in ProcOf(e.op)
    BY <1>9, <2>1, ProcOfs
  <2>3. g \in Gens /\ proc' = [proc EXCEPT ![g] = "spawning"] /\ NewWork(t, e)
    BY <1>2, <1>7, <1>8
  <2>4. \A u \in Tasks \ {t} : work(u).op \in Special /\ work(u).gen = g
          => "spawning" \in ProcOf(work(u).op)
    BY <1>11
  <2> QED BY <2>2, <2>3, <2>4, ProcKept
<1>13. WorkOwner'
  BY <1>2, <1>8, OwnerKept DEF Starter, g
<1>14. ExitsDead' /\ LiveUp'
  <2>1. ExitsDead'
    BY <1>1, <1>2, <1>7, ExitsKept
  <2>2. LiveUp'
    BY <1>1, <1>2, <1>3, <1>9 DEF LiveUp
  <2> QED BY <2>1, <2>2
<1>15. \A h \in Gens : Claimed(h)' => Claimed(h)
  BY <1>2, <1>4, <1>7, <1>8, ClaimsKept
<1>16. slot.state = "Starting" => Waiting(slot.gen)'
  <2>1. ASSUME slot.state = "Starting"
        PROVE  Waiting(slot.gen)' /\ slot' = slot
    <3>1. slot.gen \in Gens /\ Waiting(slot.gen)
      BY <1>3, <2>1 DEF DataOK, SlotOK, Slots, StartingInv
    <3>2. slot.gen = g
      BY <1>3, <1>4, <1>2, <2>1 DEF ClaimInv
    <3>3. work(t)'.op \in Starter /\ work(t)'.gen = g
      BY <1>8 DEF NewWork, Starter
    <3> QED BY <1>1, <1>9, <3>2, <3>3 DEF Waiting
  <2> QED BY <2>1
<1>17. \A u \in Tasks : work(u)'.op \in Starter
         => work(u).op \in Starter /\ work(u)'.gen = work(u).gen /\ work(u)'.token = work(u).token
  BY <1>2, <1>8 DEF NewWork, Starter, g
<1>18. WorkInv' /\ ClaimInv' /\ TableIsSlot' /\ StartInv' /\ StartingInv'
  BY <1>1, <1>12, <1>13, <1>14, <1>15, <1>16, <1>17, SameSlotWork DEF WorkInv
<1> QED
  BY <1>10, <1>18 DEF IInv


\* No other section is about a process that is just being spawned
LEMMA SpawningAlone ==
  ASSUME IInv, NEW t \in Tasks, At(t, "spawning")
  PROVE  \A u \in Tasks \ {t} : work(u).op \in Special => work(u).gen # task[t][1].gen
<1>1. /\ proc[task[t][1].gen] = "spawning"
      /\ \A u \in Tasks \ {t} : work(u).op \in Starter => work(u).gen # task[t][1].gen
  BY RunningProc, ProcOfs DEF Special, Starter
<1>2. ASSUME NEW u \in Tasks \ {t}, work(u).op \in {"exiting", "settle"}
      PROVE  work(u).gen # task[t][1].gen
  <2>1. proc[work(u).gen] \in ProcOf(work(u).op)
    BY <1>2 DEF IInv, WorkInv, WorkProc, Special
  <2> QED BY <1>1, <1>2, <2>1, ProcOfs
<1> QED
  BY <1>1, <1>2 DEF Special

\* A starting slot waits for its own process only
LEMMA StartingGen ==
  ASSUME IInv, slot.state = "Starting"
  PROVE  slot.gen \in Gens /\ Waiting(slot.gen)
  BY GoodState DEF IInv, DataOK, SlotOK, Slots, StartingInv

LEMMA StepSpawned ==
  ASSUME IInv, NEW t \in Tasks, Spawned(t)
  PROVE  IInv'
<1> DEFINE g == task[t][1].gen
           e == [task[t][1] EXCEPT !.op = "get"]
<1>1. /\ At(t, "spawning") /\ UNCHANGED <<slot, routeVars, table, exits, timeVars, countVars>>
      /\ live' = g /\ proc' = [proc EXCEPT ![g] = "up"] /\ Goto(t, "get")
  BY DEF Spawned
<1>2. /\ work(t) = task[t][1] /\ task[t][1].op = "spawning" /\ g \in Gens /\ g # 0 /\ g < nextGen
      /\ proc[g] = "spawning"
  BY <1>1, RunningProc, ProcOfs DEF Special, Starter
<1>3. DataOK /\ LiveUp /\ ClaimInv
  BY GoodState DEF IInv, WorkInv
<1>4. Claimed(g) /\ \A h \in Gens : Claimed(h) => h = g
  BY <1>2, <1>3 DEF Claimed, Existing, ClaimInv
<1>5. /\ e.op = "get" /\ e.gen = g /\ e.token = task[t][1].token
      /\ StacksOK /\ Goes(t, <<e>>) /\ NewWork(t, e)
      /\ \A x \in Elems(<<e>>) : x.gen < nextGen /\ x.op \notin {"stop", "detach"}
  BY <1>1, NextSection DEF Special, Starter
<1>6. proc'[g] = "up" /\ \A h \in Gens \ {g} : proc'[h] = proc[h]
  BY <1>1, <1>2, <1>3 DEF DataOK
<1>7. \A u \in Tasks \ {t} : work(u).op \in Special => work(u).gen # g
  BY <1>1, SpawningAlone
<1>8. work(t).gen = g /\ work(t).op = "spawning"
  BY <1>2
<1> HIDE DEF g, e
<1>9. TypeInv' /\ CountInv' /\ EndInv' /\ InhibitInv'
  BY <1>1, <1>2, <1>5, ProcessFrame DEF ProcStates
<1>10. WorkProc'
  <2>1. e.gen = g /\ e.op = "get"
    BY <1>5
  <2>2. proc'[e.gen] \in ProcOf(e.op)
    BY <1>6, <2>1, ProcOfs
  <2>3. g \in Gens /\ proc' = [proc EXCEPT ![g] = "up"] /\ NewWork(t, e)
    BY <1>1, <1>2, <1>5
  <2>4. \A u \in Tasks \ {t} : work(u).op \in Special /\ work(u).gen = g => "up" \in ProcOf(work(u).op)
    BY <1>7
  <2> QED BY <2>2, <2>3, <2>4, ProcKept
<1>11. WorkOwner'
  BY <1>5, <1>8, OwnerKept DEF Starter
<1>12. ExitsDead'
  BY <1>1, <1>2, ExitsKept
<1>13. LiveUp'
  <2>1. \A h \in Gens \ {g} : proc[h] # "up"
    BY <1>4 DEF Claimed, Existing
  <2> QED BY <1>1, <1>2, <1>6, <2>1 DEF LiveUp
<1>14. \A h \in Gens : Claimed(h)' => Claimed(h)
  BY <1>1, <1>2, <1>4, <1>5, ClaimsKept
<1>15. slot.state = "Starting" => Waiting(slot.gen)'
  <2>1. ASSUME slot.state = "Starting"
        PROVE  Waiting(slot.gen)' /\ slot' = slot
    <3>1. slot.gen = g
      BY <1>2, <1>3, <1>4, <2>1 DEF ClaimInv
    <3>2. work(t)'.op \in Starter /\ work(t)'.gen = g
      BY <1>5 DEF NewWork, Starter
    <3> QED BY <1>1, <1>6, <3>1, <3>2 DEF Waiting
  <2> QED BY <2>1
<1>16. \A u \in Tasks : work(u)'.op \in Starter
         => work(u).op \in Starter /\ work(u)'.gen = work(u).gen /\ work(u)'.token = work(u).token
  BY <1>2, <1>5 DEF NewWork, Starter, g
<1>17. WorkInv' /\ ClaimInv' /\ TableIsSlot' /\ StartInv' /\ StartingInv'
  BY <1>1, <1>10, <1>11, <1>12, <1>13, <1>14, <1>15, <1>16, SameSlotWork DEF WorkInv
<1> QED
  BY <1>9, <1>17 DEF IInv

LEMMA StepSpawnFails ==
  ASSUME IInv, NEW t \in Tasks, SpawnFails(t)
  PROVE  IInv'
<1> DEFINE g == task[t][1].gen
           e == [task[t][1] EXCEPT !.op = "spawnError"]
<1>1. /\ At(t, "spawning") /\ UNCHANGED <<slot, routeVars, table, live, exits, timeVars, countVars>>
      /\ proc' = [proc EXCEPT ![g] = "dead"] /\ Goto(t, "spawnError")
  BY DEF SpawnFails
<1>2. /\ work(t) = task[t][1] /\ task[t][1].op = "spawning" /\ g \in Gens /\ g # 0 /\ g < nextGen
      /\ proc[g] = "spawning"
  BY <1>1, RunningProc, ProcOfs DEF Special, Starter
<1>3. DataOK /\ LiveUp /\ ClaimInv
  BY GoodState DEF IInv, WorkInv
<1>4. Claimed(g) /\ \A h \in Gens : Claimed(h) => h = g
  BY <1>2, <1>3 DEF Claimed, Existing, ClaimInv
<1>5. /\ e.op = "spawnError" /\ e.gen = g /\ e.token = task[t][1].token
      /\ StacksOK /\ Goes(t, <<e>>) /\ NewWork(t, e)
      /\ \A x \in Elems(<<e>>) : x.gen < nextGen /\ x.op \notin {"stop", "detach"}
  BY <1>1, NextSection DEF Special, Starter
<1>6. proc'[g] = "dead" /\ \A h \in Gens \ {g} : proc'[h] = proc[h]
  BY <1>1, <1>2, <1>3 DEF DataOK
<1>7. \A u \in Tasks \ {t} : work(u).op \in Special => work(u).gen # g
  BY <1>1, SpawningAlone
<1>8. work(t).gen = g /\ work(t).op = "spawning" /\ live \in Gens \cup {0}
  BY <1>2, <1>3 DEF DataOK
<1> HIDE DEF g, e
<1>9. TypeInv' /\ CountInv' /\ EndInv' /\ InhibitInv'
  BY <1>1, <1>2, <1>5, <1>8, ProcessFrame DEF ProcStates
<1>10. WorkProc'
  <2>1. e.gen = g /\ e.op = "spawnError"
    BY <1>5
  <2>2. proc'[e.gen] \in ProcOf(e.op)
    BY <1>6, <2>1, ProcOfs
  <2>3. g \in Gens /\ proc' = [proc EXCEPT ![g] = "dead"] /\ NewWork(t, e)
    BY <1>1, <1>2, <1>5
  <2>4. \A u \in Tasks \ {t} : work(u).op \in Special /\ work(u).gen = g => "dead" \in ProcOf(work(u).op)
    BY <1>7
  <2> QED BY <2>2, <2>3, <2>4, ProcKept
<1>11. WorkOwner'
  BY <1>5, <1>8, OwnerKept DEF Starter
<1>12. ExitsDead'
  BY <1>1, <1>2, ExitsKept
<1>13. LiveUp'
  BY <1>1, <1>2, <1>3, <1>6 DEF LiveUp
<1>14. \A h \in Gens : Claimed(h)' => Claimed(h)
  BY <1>1, <1>2, <1>4, <1>5, ClaimsKept
<1>15. slot.state = "Starting" => Waiting(slot.gen)'
  <2>1. ASSUME slot.state = "Starting"
        PROVE  Waiting(slot.gen)' /\ slot' = slot
    <3>1. slot.gen = g
      BY <1>2, <1>3, <1>4, <2>1 DEF ClaimInv
    <3>2. work(t)'.op = "spawnError" /\ work(t)'.gen = g
      BY <1>5 DEF NewWork
    <3> QED BY <1>1, <1>6, <3>1, <3>2 DEF Waiting
  <2> QED BY <2>1
<1>16. \A u \in Tasks : work(u)'.op \in Starter
         => work(u).op \in Starter /\ work(u)'.gen = work(u).gen /\ work(u)'.token = work(u).token
  BY <1>2, <1>5 DEF NewWork, Starter, g
<1>17. WorkInv' /\ ClaimInv' /\ TableIsSlot' /\ StartInv' /\ StartingInv'
  BY <1>1, <1>10, <1>11, <1>12, <1>13, <1>14, <1>15, <1>16, SameSlotWork DEF WorkInv
<1> QED
  BY <1>9, <1>17 DEF IInv

\* The handle is in the manager's map: its process is up, and nobody awaits its end
LEMMA UpAlone ==
  ASSUME IInv, NEW g \in Gens, live = g
  PROVE  /\ proc[g] = "up" /\ g < nextGen /\ g # 0 /\ Claimed(g)
         /\ \A u \in Tasks : work(u).op \in Special /\ work(u).gen = g
              => work(u).op \in {"get", "attach", "cleanup"}
<1>1. proc[g] = "up" /\ g < nextGen /\ g # 0
  <2>1. proc[g] = "up" /\ DataOK /\ CountOK
    BY GoodState DEF IInv, WorkInv, LiveUp
  <2>2. g \in Nat \ {0} /\ nextGen \in Nat
    BY <2>1, MaxOpsAssumption DEF Gens, Tokens, DataOK
  <2> QED BY <2>1, <2>2 DEF CountOK
<1>2. ASSUME NEW u \in Tasks, work(u).op \in Special, work(u).gen = g
      PROVE  work(u).op \in {"get", "attach", "cleanup"}
  <2>1. proc[g] \in ProcOf(work(u).op)
    BY <1>2 DEF IInv, WorkInv, WorkProc
  <2> QED BY <1>1, <1>2, <2>1, ProcOfs DEF Special, Starter
<1> QED
  BY <1>1, <1>2 DEF Claimed, Existing

LEMMA StepStopGeneration ==
  ASSUME IInv, NEW t \in Tasks, StopGeneration(t)
  PROVE  IInv'
<1> DEFINE g == task[t][1].gen
           e == [task[t][1] EXCEPT !.op = "exiting"]
<1>1. At(t, "stop") /\ UNCHANGED <<slot, routeVars, table, exits, timeVars, countVars>>
  BY DEF StopGeneration
<1>2. /\ task[t][1] \in TypedCalls /\ task[t][1].op = "stop" /\ g \in Gens /\ g # 0 /\ g < nextGen
      /\ task[t][1] \in Elems(task[t])
  BY <1>1, Running, RunningGen DEF IInv, TypedCalls, Typed, Calls
<1>3. DataOK /\ LiveUp /\ ClaimInv
  BY GoodState DEF IInv, WorkInv
<1>4. CASE live # g
  <2>1. Then(t, <<>>) /\ UNCHANGED <<live, proc>>
    BY <1>4 DEF StopGeneration
  <2>2. Easy(<<>>)
    BY EasySections DEF Simple, Causes
  <2>3. HandsOn(t, <<>>)
    BY <1>2, NoStopHandsOn
  <2> QED
    BY <1>1, <1>3, <2>1, <2>2, <2>3, EasyStep
       DEF DataOK, routeVars, timeVars, processVars, Special, Starter
<1>5. CASE live = g
  <2>1. live' = 0 /\ proc' = [proc EXCEPT ![g] = "exiting"] /\ Goto(t, "exiting")
    BY <1>5 DEF StopGeneration
  <2>2. e \in TypedCalls /\ e.op = "exiting" /\ e.gen = g
    BY <1>2, GotoTyped DEF Sections, Special, Starter
  <2>3. Then(t, <<e>>)
    BY <2>1 DEF Goto
  <2>4. work(t) = NoWork /\ Ending(g)
    BY <1>1, <1>2, RunningWork DEF IInv, EndInv, Special, Starter
  <2> HIDE DEF g, e
  <2>5. StacksOK /\ Goes(t, <<e>>) /\ NewWork(t, e) /\ Elems(<<e>>) = {e}
    BY <1>1, <2>2, <2>3, SpecialMove DEF IInv, Special
  <2>6. \A x \in Elems(<<e>>) : x.gen < nextGen /\ x.op \notin {"stop", "detach"}
    BY <1>2, <2>2, <2>5
  <2>7. proc'[g] = "exiting" /\ \A h \in Gens \ {g} : proc'[h] = proc[h]
    BY <1>2, <1>3, <2>1 DEF DataOK
  <2>8. /\ proc[g] = "up" /\ Claimed(g)
        /\ \A u \in Tasks : work(u).op \in Special /\ work(u).gen = g
             => work(u).op \in {"get", "attach", "cleanup"}
    BY <1>2, <1>5, UpAlone
  <2>9. TypeInv' /\ CountInv' /\ EndInv' /\ InhibitInv'
    BY <1>1, <1>2, <2>1, <2>5, <2>6, ProcessFrame DEF ProcStates
  <2>10. WorkProc'
    <3>1. proc'[e.gen] \in ProcOf(e.op)
      BY <2>2, <2>7, ProcOfs
    <3>2. g \in Gens /\ proc' = [proc EXCEPT ![g] = "exiting"] /\ NewWork(t, e)
      BY <1>2, <2>1, <2>5
    <3>3. \A u \in Tasks \ {t} : work(u).op \in Special /\ work(u).gen = g => "exiting" \in ProcOf(work(u).op)
      BY <2>8, ProcOfs
    <3> QED BY <3>1, <3>2, <3>3, ProcKept
  <2>11. WorkOwner'
    <3>1. \A u \in Tasks : work(u).op = "exiting" => work(u).gen # e.gen
      BY <2>2, <2>8 DEF Special
    <3> QED BY <2>2, <2>5, <3>1, OwnerKept DEF Starter
  <2>12. ExitsDead'
    BY <1>1, <1>2, <2>1, <2>8, ExitsKept
  <2>13. LiveUp'
    <3>1. \A h \in Gens : h # 0
      BY MaxOpsAssumption DEF Gens, Tokens
    <3>2. \A h \in Gens \ {g} : proc[h] # "up"
      BY <1>3, <1>5 DEF LiveUp
    <3> QED BY <2>1, <2>7, <3>1, <3>2 DEF LiveUp
  <2>14. \A h \in Gens : Claimed(h)' => Claimed(h)
    BY <1>2, <2>1, <2>2, <2>5, <2>8, ClaimsKept
  <2>15. slot.state = "Starting" => Waiting(slot.gen)'
    <3>1. ASSUME slot.state = "Starting"
          PROVE  Waiting(slot.gen)' /\ slot' = slot
      <4>1. slot.gen \in Gens /\ Waiting(slot.gen) /\ slot.gen # g
        BY <2>4, <3>1, StartingGen DEF Ending
      <4>2. proc'[slot.gen] = proc[slot.gen] /\ work(t).op \notin Special
        BY <2>4, <2>7, <4>1 DEF NoWork, Special, Starter
      <4>3. ASSUME NEW h \in Gens, h = slot.gen
            PROVE  Waiting(h)'
        BY <1>1, <2>5, <4>1, <4>2, <4>3, WaitingKept
      <4> QED BY <1>1, <4>1, <4>3 DEF Waiting
    <3> QED BY <3>1
  <2>16. \A u \in Tasks : work(u)'.op \in Starter
           => work(u).op \in Starter /\ work(u)'.gen = work(u).gen /\ work(u)'.token = work(u).token
    BY <2>2, <2>5 DEF NewWork, Starter
  <2>17. WorkInv' /\ ClaimInv' /\ TableIsSlot' /\ StartInv' /\ StartingInv'
    BY <1>1, <2>10, <2>11, <2>12, <2>13, <2>14, <2>15, <2>16, SameSlotWork DEF WorkInv
  <2> QED
    BY <2>9, <2>17 DEF IInv
<1> QED
  BY <1>4, <1>5


LEMMA StepChildExits ==
  ASSUME IInv, NEW t \in Tasks, NEW kind \in ExitKinds, ChildExits(t, kind)
  PROVE  IInv'
<1> DEFINE g == task[t][1].gen
           x == [task[t][1] EXCEPT !.op = "settle", !.cause = kind]
           c == IF task[t][1].use = "discard" THEN <<>> ELSE <<x>>
           e == IF task[t][1].use = "discard" THEN NoWork ELSE x
<1>1. /\ At(t, "exiting") /\ UNCHANGED <<slot, routeVars, table, live, exits, timeVars, countVars>>
      /\ proc' = [proc EXCEPT ![g] = "dead"] /\ Then(t, c)
  BY DEF ChildExits
<1>2. /\ work(t) = task[t][1] /\ task[t][1].op = "exiting" /\ g \in Gens /\ g # 0 /\ g < nextGen
      /\ task[t][1] \in TypedCalls /\ proc[g] = "exiting"
      /\ \A u \in Tasks \ {t} : work(u).op = "exiting" => work(u).gen # g
  BY <1>1, RunningProc, ProcOfs DEF Special, Starter
<1>3. DataOK /\ LiveUp /\ WorkProc /\ live \in Gens \cup {0}
  BY GoodState DEF IInv, WorkInv, DataOK
<1>4. x \in TypedCalls /\ x.op = "settle" /\ x.gen = g
  <2>1. ASSUME NEW y \in Calls
        PROVE  LET z == [y EXCEPT !.op = "settle", !.cause = kind]
               IN  z \in Calls /\ z.op = "settle" /\ z.gen = y.gen /\ z.cause = kind
    <3>1. "settle" \in Sections /\ kind \in Causes \cup ExitKinds \cup {"none", "orphan"}
      BY DEF Sections
    <3> QED BY <3>1 DEF Calls
  <2>2. x \in Calls /\ x.op = "settle" /\ x.gen = g /\ x.cause = kind
    BY <1>2, <2>1, TypedAreCalls
  <2> HIDE DEF x
  <2> QED BY <1>2, <2>2 DEF TypedCalls, Typed, Special, Starter
<1> HIDE DEF g, x
<1>5. /\ StacksOK /\ Goes(t, c) /\ NewWork(t, e)
      /\ \A y \in Elems(c) : y.gen < nextGen /\ y.op \notin {"stop", "detach"}
  <2>1. CASE task[t][1].use = "discard"
    <3>1. c = <<>> /\ e = NoWork
      BY <2>1
    <3>2. Elems(<<>>) = {} /\ <<>> \in Seq(TypedCalls)
      BY DEF Elems
    <3> HIDE DEF c, e
    <3>3. Plain(c) /\ c \in Seq(TypedCalls)
      BY <3>1, <3>2 DEF Plain
    <3>4. StacksOK /\ Goes(t, c) /\ NewWork(t, NoWork)
      BY <1>1, <3>3, PlainSections DEF IInv
    <3> QED BY <3>1, <3>2, <3>4
  <2>2. CASE task[t][1].use # "discard"
    <3>1. c = <<x>> /\ e = x
      BY <2>2
    <3> HIDE DEF c, e
    <3>2. Then(t, <<x>>)
      BY <1>1, <3>1
    <3>3. StacksOK /\ Goes(t, <<x>>) /\ NewWork(t, x) /\ Elems(<<x>>) = {x}
      BY <1>1, <1>4, <3>2, SpecialMove DEF IInv, Special
    <3> QED BY <1>2, <1>4, <3>1, <3>3
  <2> QED BY <2>1, <2>2
<1>6. e.op \in {"none", "settle"} /\ (e.op = "settle" => e.gen = g)
  BY <1>4 DEF NoWork
<1> HIDE DEF c, e
<1>7. proc'[g] = "dead" /\ \A h \in Gens \ {g} : proc'[h] = proc[h]
  BY <1>1, <1>2, <1>3 DEF DataOK
<1>8. \A u \in Tasks \ {t} : work(u).op \in Special /\ work(u).gen = g
        => work(u).op \in {"get", "attach", "cleanup"}
  <2>1. ASSUME NEW u \in Tasks \ {t}, work(u).op \in Special, work(u).gen = g
        PROVE  work(u).op \in {"get", "attach", "cleanup"}
    <3>1. proc[g] \in ProcOf(work(u).op)
      BY <1>3, <2>1 DEF WorkProc
    <3> QED BY <1>2, <2>1, <3>1, ProcOfs DEF Special, Starter
  <2> QED BY <2>1
<1>9. TypeInv' /\ CountInv' /\ EndInv' /\ InhibitInv'
  BY <1>1, <1>2, <1>3, <1>5, ProcessFrame DEF ProcStates
<1>10. WorkProc'
  <2>1. e.op \in Special => proc'[e.gen] \in ProcOf(e.op)
    BY <1>6, <1>7, ProcOfs DEF Special, Starter
  <2>2. g \in Gens /\ proc' = [proc EXCEPT ![g] = "dead"] /\ NewWork(t, e)
    BY <1>1, <1>2, <1>5
  <2>3. \A u \in Tasks \ {t} : work(u).op \in Special /\ work(u).gen = g => "dead" \in ProcOf(work(u).op)
    BY <1>8, ProcOfs
  <2> QED BY <2>1, <2>2, <2>3, ProcKept
<1>11. WorkOwner'
  BY <1>5, <1>6, OwnerKept DEF Starter
<1>12. ExitsDead'
  BY <1>1, <1>2, ExitsKept
<1>13. LiveUp'
  BY <1>1, <1>2, <1>3, <1>7 DEF LiveUp
<1>14. \A h \in Gens : Claimed(h)' => Claimed(h)
  BY <1>1, <1>2, <1>5, <1>6, ClaimsKept
<1>15. slot.state = "Starting" => Waiting(slot.gen)'
  <2>1. ASSUME slot.state = "Starting"
        PROVE  Waiting(slot.gen)' /\ slot' = slot
    <3>1. slot.gen \in Gens /\ Waiting(slot.gen)
      BY <2>1, StartingGen
    <3>2. slot.gen # g
      BY <1>2, <3>1 DEF Waiting
    <3>3. proc'[slot.gen] = proc[slot.gen] /\ work(t).gen # slot.gen
      BY <1>2, <1>7, <3>1, <3>2 DEF g
    <3>4. ASSUME NEW h \in Gens, h = slot.gen
          PROVE  Waiting(h)'
      BY <1>1, <1>5, <3>1, <3>3, <3>4, WaitingKept
    <3> QED BY <1>1, <3>1, <3>4 DEF Waiting
  <2> QED BY <2>1
<1>16. \A u \in Tasks : work(u)'.op \in Starter
         => work(u).op \in Starter /\ work(u)'.gen = work(u).gen /\ work(u)'.token = work(u).token
  BY <1>5, <1>6 DEF NewWork, Starter
<1>17. WorkInv' /\ ClaimInv' /\ TableIsSlot' /\ StartInv' /\ StartingInv'
  BY <1>1, <1>10, <1>11, <1>12, <1>13, <1>14, <1>15, <1>16, SameSlotWork DEF WorkInv
<1> QED
  BY <1>9, <1>17 DEF IInv

\* The parts of the invariant that a death found by the manager leaves alone
LEMMA DeathFrame ==
  ASSUME IInv, UNCHANGED <<slot, routeVars, table, timeVars, task, countVars>>,
         NEW g \in Gens, proc[g] \in {"up", "reaping"}, NEW p \in ProcStates, proc' = [proc EXCEPT ![g] = p],
         live' \in Gens \cup {0}, exits' \in Seq([gen : Gens, kind : ExitKinds])
  PROVE  /\ TypeInv' /\ CountInv' /\ EndInv' /\ InhibitInv'
         /\ \A u \in Tasks : work(u)' = work(u)
         /\ WorkOwner'
<1>1. DataOK /\ CountOK /\ TypeInv /\ CountInv /\ EndInv /\ InhibitInv /\ WorkOwner
  BY GoodState DEF IInv, WorkInv
<1>2. DataOK'
  BY <1>1 DEF DataOK, SlotOK, routeVars, timeVars, countVars, ProcStates
<1>3. TypeInv'
  <2>1. TypeOK'
    BY <1>1, <1>2, DataIsType DEF DataOK, TypeOK, TypeInv, SlotOK, HasProcess
  <2> QED BY <1>1, <2>1 DEF TypeInv
<1>4. CountInv'
  <2>1. \A h \in Gens : h >= nextGen => proc'[h] = "none"
    BY <1>1 DEF DataOK, CountOK
  <2> QED BY <1>1, <2>1 DEF CountInv, countVars
<1>5. EndInv' /\ InhibitInv'
  BY <1>1 DEF EndInv, Ending, InhibitInv, Stops, routeVars
<1>6. \A u \in Tasks : work(u)' = work(u)
  BY DEF work
<1>7. WorkOwner'
  BY <1>1, <1>6 DEF WorkOwner
<1> QED
  BY <1>3, <1>4, <1>5, <1>6, <1>7

\* Only sections that take up a start deal with a process that is up or being reaped
LEMMA ReapedAlone ==
  ASSUME IInv, NEW g \in Gens, proc[g] \in {"up", "reaping"},
         NEW u \in Tasks, work(u).op \in Special, work(u).gen = g
  PROVE  work(u).op \in {"get", "attach", "cleanup"}
<1>1. proc[g] \in ProcOf(work(u).op)
  BY DEF IInv, WorkInv, WorkProc
<1> QED
  BY <1>1, ProcOfs DEF Special, Starter

LEMMA StepEvict ==
  ASSUME IInv, NEW g \in Gens, Evict(g)
  PROVE  IInv'
<1>1. /\ live = g /\ proc[g] = "up" /\ live' = 0 /\ proc' = [proc EXCEPT ![g] = "reaping"]
      /\ UNCHANGED <<slot, routeVars, table, exits, timeVars, task, countVars>>
  BY DEF Evict
<1>2. DataOK /\ LiveUp /\ ExitsDead /\ WorkProc /\ exits \in Seq([gen : Gens, kind : ExitKinds])
  BY GoodState DEF IInv, WorkInv, DataOK
<1>3. /\ TypeInv' /\ CountInv' /\ EndInv' /\ InhibitInv'
      /\ \A u \in Tasks : work(u)' = work(u)
      /\ WorkOwner'
  BY <1>1, <1>2, DeathFrame DEF ProcStates
<1>4. proc'[g] = "reaping" /\ \A h \in Gens \ {g} : proc'[h] = proc[h]
  BY <1>1, <1>2 DEF DataOK
<1>5. WorkProc'
  <2>1. ASSUME NEW u \in Tasks, work(u).op \in Special
        PROVE  proc'[work(u).gen] \in ProcOf(work(u).op)
    <3>1. work(u).gen \in Gens
      BY <2>1, WorkTyped DEF IInv
    <3>2. CASE work(u).gen = g
      <4>1. work(u).op \in {"get", "attach", "cleanup"}
        BY <1>1, <2>1, <3>2, ReapedAlone
      <4> QED BY <1>4, <3>2, <4>1, ProcOfs
    <3>3. CASE work(u).gen # g
      BY <1>2, <1>4, <2>1, <3>1, <3>3 DEF WorkProc
    <3> QED BY <3>2, <3>3
  <2> QED BY <1>3, <2>1 DEF WorkProc
<1>6. ExitsDead'
  BY <1>1, ExitsKept
<1>7. LiveUp'
  <2>1. \A h \in Gens : h # 0
    BY MaxOpsAssumption DEF Gens, Tokens
  <2> QED BY <1>1, <1>2, <1>4, <2>1 DEF LiveUp
<1>8. \A h \in Gens : Claimed(h)' => Claimed(h)
  BY <1>1, <1>3, <1>4 DEF Claimed, Existing
<1>9. slot.state = "Starting" => Waiting(slot.gen)'
  <2>1. ASSUME slot.state = "Starting"
        PROVE  Waiting(slot.gen)' /\ slot' = slot
    <3>1. slot.gen \in Gens /\ Waiting(slot.gen)
      BY <2>1, StartingGen
    <3> QED BY <1>1, <1>3, <1>4, <3>1 DEF Waiting
  <2> QED BY <2>1
<1>10. WorkInv' /\ ClaimInv' /\ TableIsSlot' /\ StartInv' /\ StartingInv'
  BY <1>1, <1>3, <1>5, <1>6, <1>7, <1>8, <1>9, SameSlotWork DEF WorkInv
<1> QED
  BY <1>3, <1>10 DEF IInv

LEMMA StepReaped ==
  ASSUME IInv, NEW g \in Gens, NEW kind \in ExitKinds, Reaped(g, kind)
  PROVE  IInv'
<1>1. /\ proc[g] = "reaping" /\ proc' = [proc EXCEPT ![g] = "dead"]
      /\ exits' = Append(exits, [gen |-> g, kind |-> kind])
      /\ UNCHANGED <<slot, routeVars, table, live, timeVars, task, countVars>>
  BY DEF Reaped
<1>2. /\ DataOK /\ LiveUp /\ ExitsDead /\ WorkProc
      /\ exits \in Seq([gen : Gens, kind : ExitKinds]) /\ live \in Gens \cup {0}
  BY GoodState DEF IInv, WorkInv, DataOK
<1>3. /\ exits' \in Seq([gen : Gens, kind : ExitKinds])
      /\ Len(exits') = Len(exits) + 1 /\ Len(exits) \in Nat
      /\ exits'[Len(exits) + 1].gen = g
      /\ \A i \in 1 .. Len(exits) : exits'[i] = exits[i] /\ exits[i] \in [gen : Gens, kind : ExitKinds]
  <2> DEFINE x == [gen |-> g, kind |-> kind]
  <2>1. x \in [gen : Gens, kind : ExitKinds] /\ x.gen = g
    OBVIOUS
  <2>2. exits' = Append(exits, x)
    BY <1>1
  <2> HIDE DEF x
  <2>3. /\ exits' \in Seq([gen : Gens, kind : ExitKinds]) /\ Len(exits') = Len(exits) + 1
        /\ exits'[Len(exits) + 1] = x
        /\ \A i \in 1 .. Len(exits) : exits'[i] = exits[i]
    BY <1>2, <2>1, <2>2, AppendProperties
  <2>4. Len(exits) \in Nat /\ \A i \in 1 .. Len(exits) : exits[i] \in [gen : Gens, kind : ExitKinds]
    BY <1>2, LenProperties, ElementOfSeq
  <2> QED BY <2>1, <2>3, <2>4
<1>4. /\ TypeInv' /\ CountInv' /\ EndInv' /\ InhibitInv'
      /\ \A u \in Tasks : work(u)' = work(u)
      /\ WorkOwner'
  BY <1>1, <1>2, <1>3, DeathFrame DEF ProcStates
<1>5. proc'[g] = "dead" /\ \A h \in Gens \ {g} : proc'[h] = proc[h]
  BY <1>1, <1>2 DEF DataOK
<1>6. WorkProc'
  <2>1. ASSUME NEW u \in Tasks, work(u).op \in Special
        PROVE  proc'[work(u).gen] \in ProcOf(work(u).op)
    <3>1. work(u).gen \in Gens
      BY <2>1, WorkTyped DEF IInv
    <3>2. CASE work(u).gen = g
      <4>1. work(u).op \in {"get", "attach", "cleanup"}
        BY <1>1, <2>1, <3>2, ReapedAlone
      <4> QED BY <1>5, <3>2, <4>1, ProcOfs
    <3>3. CASE work(u).gen # g
      BY <1>2, <1>5, <2>1, <3>1, <3>3 DEF WorkProc
    <3> QED BY <3>2, <3>3
  <2> QED BY <1>4, <2>1 DEF WorkProc
<1>7. ExitsDead'
  <2>1. ASSUME NEW i \in 1 .. Len(exits')
        PROVE  proc'[exits'[i].gen] = "dead"
    <3>1. CASE i = Len(exits) + 1
      BY <1>3, <1>5, <3>1
    <3>2. CASE i # Len(exits) + 1
      <4>1. i \in 1 .. Len(exits)
        BY <1>3, <3>2
      <4>2. exits'[i].gen \in Gens /\ proc[exits'[i].gen] = "dead"
        BY <1>2, <1>3, <4>1 DEF ExitsDead
      <4> QED BY <1>5, <4>2
    <3> QED BY <3>1, <3>2
  <2> QED BY <2>1 DEF ExitsDead
<1>8. LiveUp'
  BY <1>1, <1>2, <1>5 DEF LiveUp
<1>9. \A h \in Gens : Claimed(h)' => Claimed(h)
  BY <1>1, <1>4, <1>5 DEF Claimed, Existing
<1>10. slot.state = "Starting" => Waiting(slot.gen)'
  <2>1. ASSUME slot.state = "Starting"
        PROVE  Waiting(slot.gen)' /\ slot' = slot
    <3>1. slot.gen \in Gens /\ Waiting(slot.gen)
      BY <2>1, StartingGen
    <3>2. CASE slot.gen = g
      <4>1. Len(exits) + 1 \in 1 .. Len(exits')
        BY <1>3
      <4> QED BY <1>1, <1>3, <1>5, <3>2, <4>1 DEF Waiting
    <3>3. CASE slot.gen # g
      <4>1. \A i \in 1 .. Len(exits) : i \in 1 .. Len(exits') /\ exits'[i].gen = exits[i].gen
        BY <1>3
      <4>2. proc'[slot.gen] = proc[slot.gen]
        BY <1>5, <3>1, <3>3
      <4> QED BY <1>1, <1>4, <3>1, <4>1, <4>2 DEF Waiting
    <3> QED BY <3>2, <3>3
  <2> QED BY <2>1
<1>11. WorkInv' /\ ClaimInv' /\ TableIsSlot' /\ StartInv' /\ StartingInv'
  BY <1>1, <1>4, <1>6, <1>7, <1>8, <1>9, <1>10, SameSlotWork DEF WorkInv
<1> QED
  BY <1>4, <1>11 DEF IInv


LEMMA StepProcessExit ==
  ASSUME IInv, ProcessExit
  PROVE  IInv'
<1> DEFINE t == "exits"
           g == exits[1].gen
           x == [RunFor("settle", exits[1].kind) EXCEPT !.gen = g]
           r == <<x>>
<1>1. /\ t \in Tasks /\ task[t] = <<>> /\ exits # <<>> /\ exits' = Tail(exits)
      /\ Begins(t, <<x>>)
      /\ UNCHANGED <<slot, routeVars, table, live, proc, timeVars, countVars>>
  BY DEF ProcessExit, IdleTask, Tasks
<1>2. /\ DataOK /\ CountOK /\ LiveUp /\ ExitsDead /\ WorkProc /\ TypeInv
      /\ exits \in Seq([gen : Gens, kind : ExitKinds])
  BY GoodState DEF IInv, WorkInv, DataOK
<1>3. /\ exits' \in Seq([gen : Gens, kind : ExitKinds]) /\ Len(exits') = Len(exits) - 1
      /\ Len(exits) \in Nat /\ Len(exits) >= 1
      /\ \A i \in 1 .. Len(exits') : exits'[i] = exits[i + 1]
      /\ exits[1] \in [gen : Gens, kind : ExitKinds]
  <2>1. Len(exits) \in Nat /\ Len(exits) >= 1
    BY <1>1, <1>2, LenProperties, EmptySeq
  <2>2. exits[1] \in [gen : Gens, kind : ExitKinds]
    <3>1. 1 \in 1 .. Len(exits)
      BY <2>1
    <3> DEFINE S == [gen : Gens, kind : ExitKinds]
    <3>2. exits \in Seq(S)
      BY <1>2
    <3> HIDE DEF S
    <3>3. exits[1] \in S
      BY <3>1, <3>2, ElementOfSeq
    <3> QED BY <3>3 DEF S
  <2>3. /\ Tail(exits) \in Seq([gen : Gens, kind : ExitKinds]) /\ Len(Tail(exits)) = Len(exits) - 1
        /\ \A i \in 1 .. Len(Tail(exits)) : Tail(exits)[i] = exits[i + 1]
    BY <1>1, <1>2, HeadTailProperties
  <2> QED BY <1>1, <2>1, <2>2, <2>3
<1>4. g \in Gens /\ g # 0 /\ g < nextGen /\ proc[g] = "dead" /\ exits[1].kind \in ExitKinds
  <2>1. g \in Gens /\ proc[g] = "dead" /\ exits[1].kind \in ExitKinds
    BY <1>2, <1>3 DEF ExitsDead
  <2>2. g \in Nat \ {0} /\ nextGen \in Nat
    BY <1>2, <2>1, Counters, GensAreNumbers
  <2> QED BY <1>2, <2>1, <2>2 DEF CountOK
<1>5. x \in TypedCalls /\ x.op = "settle" /\ x.gen = g
  <2>1. Run("settle") \in Calls /\ Run("settle").op = "settle"
    BY MaxOpsAssumption DEF Run, Calls, Sections, Uses
  <2>2. ASSUME NEW y \in Calls
        PROVE  LET z == [y EXCEPT !.cause = exits[1].kind]
               IN  z \in Calls /\ z.op = y.op /\ z.cause = exits[1].kind
    BY <1>4 DEF Calls
  <2>3. ASSUME NEW y \in Calls
        PROVE  LET z == [y EXCEPT !.gen = g]
               IN  z \in Calls /\ z.op = y.op /\ z.cause = y.cause /\ z.gen = g
    BY <1>4 DEF Calls
  <2>4. RunFor("settle", exits[1].kind) \in Calls /\ RunFor("settle", exits[1].kind).op = "settle"
        /\ RunFor("settle", exits[1].kind).cause = exits[1].kind
    BY <2>1, <2>2 DEF RunFor
  <2>5. x \in Calls /\ x.op = "settle" /\ x.gen = g /\ x.cause = exits[1].kind
    BY <2>3, <2>4
  <2> HIDE DEF x
  <2> QED BY <1>4, <2>5 DEF TypedCalls, Typed, Special, Starter
<1> HIDE DEF x, g, t
<1>6. r \in Seq(TypedCalls) /\ Elems(r) = {x} /\ Shape(r) /\ Work(r) = x
  <2>1. r \in Seq(TypedCalls) /\ Elems(r) = {x} /\ Len(r) = 1 /\ r # <<>> /\ r[1] = x
    BY <1>5, ElemsOfOne
  <2> HIDE DEF r
  <2> QED BY <1>5, <2>1 DEF Shape, Work, Special
<1> HIDE DEF r
<1>7. task' = [task EXCEPT ![t] = r]
  BY <1>1 DEF Begins, r
<1>8. StacksOK /\ NewWork(t, x) /\ Goes(t, r)
  BY <1>1, <1>2, <1>6, <1>7, Moves, BeginsGoes DEF StacksOK, NewWork
<1>9. work(t) = NoWork
  BY <1>1, LenProperties, EmptySeq DEF work, Work
<1>10. TypeInv' /\ CountInv' /\ EndInv' /\ InhibitInv'
  <2>1. DataOK' /\ CountOK' /\ nextGen' = nextGen /\ nextGen \in Nat
    BY <1>1, <1>2, <1>3, MaxOpsAssumption DEF DataOK, CountOK, SlotOK, routeVars, timeVars, countVars
  <2>2. HandsOn(t, r)
    BY <1>1 DEF HandsOn
  <2>3. Adds(t, r)
    BY <1>4, <1>5, <1>6, <2>1 DEF Adds
  <2>4. \A h \in Gens : Ending(h) => Ending(h)'
    BY <1>1 DEF Ending
  <2> QED
    BY <1>1, <1>8, <2>1, <2>2, <2>3, <2>4, FrameStep DEF routeVars
<1>11. WorkProc'
  <2>1. proc'[x.gen] \in ProcOf(x.op)
    BY <1>1, <1>4, <1>5, ProcOfs
  <2> QED BY <1>1, <1>2, <1>8, <2>1 DEF WorkProc, NewWork
<1>12. WorkOwner'
  BY <1>1, <1>5, <1>8, OwnerKept DEF Starter
<1>13. ExitsDead'
  <2>1. ASSUME NEW i \in 1 .. Len(exits')
        PROVE  proc'[exits'[i].gen] = "dead"
    <3>1. i + 1 \in 1 .. Len(exits) /\ exits'[i] = exits[i + 1]
      BY <1>3
    <3> QED BY <1>1, <1>2, <3>1 DEF ExitsDead
  <2> QED BY <2>1 DEF ExitsDead
<1>14. LiveUp'
  BY <1>1, <1>2 DEF LiveUp
<1>15. \A h \in Gens : Claimed(h)' => Claimed(h)
  BY <1>1, <1>5, <1>8 DEF NewWork, Claimed, Existing
<1>16. slot.state = "Starting" => Waiting(slot.gen)'
  <2>1. ASSUME slot.state = "Starting"
        PROVE  Waiting(slot.gen)' /\ slot' = slot
    <3>1. slot.gen \in Gens /\ Waiting(slot.gen)
      BY <2>1, StartingGen
    <3>2. \A u \in Tasks : work(u).op \in Special => work(u)' = work(u)
      BY <1>8, <1>9 DEF NewWork, NoWork, Special, Starter
    <3>3. CASE proc[slot.gen] \in {"none", "spawning", "up"}
      BY <1>1, <3>1, <3>2, <3>3 DEF Waiting, Special
    <3>4. CASE proc[slot.gen] = "reaping"
      BY <1>1, <3>4 DEF Waiting
    <3>5. CASE proc[slot.gen] = "dead" /\ \E u \in Tasks : work(u).op \in {"spawnError", "settle"} /\ work(u).gen = slot.gen
      BY <1>1, <3>2, <3>5 DEF Waiting, Special, Starter
    <3>6. CASE proc[slot.gen] = "dead" /\ \E i \in 1 .. Len(exits) : exits[i].gen = slot.gen
      <4>1. PICK i \in 1 .. Len(exits) : exits[i].gen = slot.gen
        BY <3>6
      <4>2. CASE i = 1
        <5>1. work(t)'.op = "settle" /\ work(t)'.gen = slot.gen
          BY <1>1, <1>5, <1>8, <4>1, <4>2 DEF NewWork, g
        <5> QED BY <1>1, <3>6, <5>1 DEF Waiting
      <4>3. CASE i # 1
        <5>1. i - 1 \in 1 .. Len(exits') /\ exits'[i - 1] = exits[(i - 1) + 1] /\ (i - 1) + 1 = i
          BY <1>3, <4>3
        <5>2. exits'[i - 1].gen = slot.gen
          BY <4>1, <5>1
        <5> QED BY <1>1, <3>6, <5>1, <5>2 DEF Waiting
      <4> QED BY <4>2, <4>3
    <3> QED BY <3>1, <3>3, <3>4, <3>5, <3>6 DEF Waiting
  <2> QED BY <2>1
<1>17. \A u \in Tasks : work(u)'.op \in Starter
         => work(u).op \in Starter /\ work(u)'.gen = work(u).gen /\ work(u)'.token = work(u).token
  BY <1>5, <1>8 DEF NewWork, Starter
<1>18. WorkInv' /\ ClaimInv' /\ TableIsSlot' /\ StartInv' /\ StartingInv'
  BY <1>1, <1>11, <1>12, <1>13, <1>14, <1>15, <1>16, <1>17, SameSlotWork DEF WorkInv
<1> QED
  BY <1>10, <1>18 DEF IInv

\* A section of a start goes on with e, or ends it, and leaves the processes alone
LEMMA QuietWork ==
  ASSUME IInv, NEW t \in Tasks, NEW e, NewWork(t, e), UNCHANGED processVars,
         e.op \in Starter \cup {"none"},
         e.op # "none" => /\ work(t).op \in Starter /\ e.gen = work(t).gen /\ e.token = work(t).token
                          /\ proc[e.gen] \in ProcOf(e.op) /\ e.op # "spawn"
  PROVE  /\ WorkInv'
         /\ \A h \in Gens : Claimed(h)' => Claimed(h)
         /\ \A u \in Tasks : work(u)'.op \in Starter
              => work(u).op \in Starter /\ work(u)'.gen = work(u).gen /\ work(u)'.token = work(u).token
<1>1. WorkProc /\ WorkOwner /\ ExitsDead /\ LiveUp
  BY DEF IInv, WorkInv
<1>2. "none" \notin Special /\ Starter \subseteq Special /\ "exiting" \notin Starter \cup {"none"}
  BY DEF Special, Starter
<1>3. WorkProc'
  BY <1>1, <1>2 DEF WorkProc, NewWork, processVars
<1>4. WorkOwner'
  BY <1>2, OwnerKept
<1>5. ExitsDead' /\ LiveUp'
  BY <1>1 DEF ExitsDead, LiveUp, processVars
<1>6. \A h \in Gens : Claimed(h)' => Claimed(h)
  BY DEF Claimed, Existing, NewWork, processVars
<1>7. \A u \in Tasks : work(u)'.op \in Starter
        => work(u).op \in Starter /\ work(u)'.gen = work(u).gen /\ work(u)'.token = work(u).token
  BY <1>2 DEF NewWork
<1> QED
  BY <1>3, <1>4, <1>5, <1>6, <1>7 DEF WorkInv

\* The parts of the invariant that a section of a start leaves alone
LEMMA QuietFrame ==
  ASSUME IInv, NEW t \in Tasks, NEW op \in Special, At(t, op), NEW c, Goes(t, c), StacksOK,
         \A x \in Elems(c) : x.gen < nextGen /\ x.op # "detach" /\ (x.op = "stop" => Ending(x.gen)'),
         SlotOK(slot'), slot'.spec = slot.spec, slot'.pending \in {slot.pending, NoStart},
         slot'.gen \in {slot.gen, 0},
         slot'.state = "Running" => slot.state = "Running",
         slot.state = "Stopping" => slot'.state = "Stopping" \/ slot'.gen = 0,
         table' \in {table, 0}, link' \in {link, "none"}, grace' \in BOOLEAN,
         UNCHANGED <<inhibit, marks, processVars, timeVars, countVars>>
  PROVE  TypeInv' /\ CountInv' /\ EndInv' /\ InhibitInv'
<1>1. DataOK /\ CountOK /\ nextGen \in Nat \ {0} /\ nextGen' = nextGen
  BY GoodState, MaxOpsAssumption DEF DataOK, countVars
<1>2. DataOK'
  BY <1>1 DEF DataOK, processVars, timeVars, countVars
<1>3. CountOK'
  BY <1>1 DEF CountOK, processVars, countVars
<1>4. HandsOn(t, c) /\ task[t][1].op # "begin"
  BY NoStopHandsOn DEF At, Special, Starter
<1>5. Adds(t, c)
  BY <1>1 DEF Adds
<1>6. \A h \in Gens : Ending(h) => Ending(h)'
  <2>1. \A h \in Gens : h # 0
    BY MaxOpsAssumption DEF Gens, Tokens
  <2> QED BY <2>1 DEF Ending
<1> QED
  BY <1>1, <1>2, <1>3, <1>4, <1>5, <1>6, FrameStep

LEMMA StepGetHandle ==
  ASSUME IInv, NEW t \in Tasks, GetHandle(t)
  PROVE  IInv'
<1>1. At(t, "get") /\ UNCHANGED <<slot, routeVars, table, processVars, timeVars, countVars>>
  BY DEF GetHandle
<1>2. DataOK /\ LiveUp
  BY GoodState DEF IInv, WorkInv
<1>3. /\ work(t) = task[t][1] /\ work(t).op = "get" /\ work(t).gen \in Gens /\ work(t).gen # 0
      /\ proc[work(t).gen] \in ProcOf("get") /\ task[t][1].gen < nextGen
  BY <1>1, RunningProc DEF Special, Starter
<1>4. CASE live = 0
  <2>1. Then(t, <<>>)
    BY <1>4 DEF GetHandle
  <2>2. Elems(<<>>) = {} /\ <<>> \in Seq(TypedCalls) /\ Plain(<<>>)
    BY DEF Elems, Plain
  <2>3. StacksOK /\ Goes(t, <<>>) /\ NewWork(t, NoWork)
    BY <1>1, <2>1, <2>2, PlainSections DEF IInv
  <2>4. TypeInv' /\ CountInv' /\ EndInv' /\ InhibitInv'
    BY <1>1, <1>2, <2>2, <2>3, QuietFrame DEF DataOK, routeVars, SlotOK, Special, Starter
  <2>5. /\ WorkInv' /\ \A h \in Gens : Claimed(h)' => Claimed(h)
        /\ \A u \in Tasks : work(u)'.op \in Starter
             => work(u).op \in Starter /\ work(u)'.gen = work(u).gen /\ work(u)'.token = work(u).token
    BY <1>1, <2>3, QuietWork DEF NoWork
  <2>6. slot.state = "Starting" => Waiting(slot.gen)'
    <3>1. ASSUME slot.state = "Starting"
          PROVE  Waiting(slot.gen)' /\ slot' = slot
      <4>1. slot.gen \in Gens /\ Waiting(slot.gen)
        BY <3>1, StartingGen
      <4>2. CASE work(t).gen # slot.gen
        <5>1. ASSUME NEW h \in Gens, h = slot.gen
              PROVE  Waiting(h)'
          BY <1>1, <2>3, <4>1, <4>2, <5>1, WaitingKept DEF processVars
        <5> QED BY <1>1, <4>1, <5>1 DEF Waiting
      <4>3. CASE work(t).gen = slot.gen
        <5>1. proc[slot.gen] \in {"exiting", "reaping", "dead"}
          BY <1>2, <1>3, <1>4, <4>1, <4>3, ProcOfs DEF LiveUp
        <5>2. \A u \in Tasks : work(u).op \in {"spawnError", "settle"} => work(u)' = work(u)
          BY <1>3, <2>3 DEF NewWork
        <5> QED BY <1>1, <4>1, <5>1, <5>2 DEF Waiting, processVars
      <4> QED BY <4>2, <4>3
    <3> QED BY <3>1
  <2>7. WorkInv' /\ ClaimInv' /\ TableIsSlot' /\ StartInv' /\ StartingInv'
    BY <1>1, <2>5, <2>6, SameSlotWork
  <2> QED
    BY <2>4, <2>7 DEF IInv
<1>5. CASE live # 0
  <2> DEFINE e == [task[t][1] EXCEPT !.op = "attach"]
  <2>1. Goto(t, "attach")
    BY <1>5 DEF GetHandle
  <2>2. /\ e.op = "attach" /\ e.gen = work(t).gen /\ e.token = work(t).token
        /\ StacksOK /\ Goes(t, <<e>>) /\ NewWork(t, e)
        /\ \A x \in Elems(<<e>>) : x.gen < nextGen /\ x.op \notin {"stop", "detach"}
    BY <1>1, <1>3, <2>1, NextSection DEF Special, Starter
  <2> HIDE DEF e
  <2>3. TypeInv' /\ CountInv' /\ EndInv' /\ InhibitInv'
    BY <1>1, <1>2, <2>2, QuietFrame DEF DataOK, routeVars, SlotOK, Special, Starter
  <2>4. proc[e.gen] \in ProcOf(e.op) /\ e.op \in Starter /\ e.op # "spawn" /\ work(t).op \in Starter
    BY <1>3, <2>2, ProcOfs DEF Starter
  <2>5. /\ WorkInv' /\ \A h \in Gens : Claimed(h)' => Claimed(h)
        /\ \A u \in Tasks : work(u)'.op \in Starter
             => work(u).op \in Starter /\ work(u)'.gen = work(u).gen /\ work(u)'.token = work(u).token
    BY <1>1, <2>2, <2>4, QuietWork
  <2>6. slot.state = "Starting" => Waiting(slot.gen)'
    <3>1. ASSUME slot.state = "Starting"
          PROVE  Waiting(slot.gen)' /\ slot' = slot
      <4>1. slot.gen \in Gens /\ Waiting(slot.gen)
        BY <3>1, StartingGen
      <4>2. \A u \in Tasks : /\ work(u)'.gen = work(u).gen
                             /\ work(u).op \in Starter => work(u)'.op \in Starter
                             /\ work(u).op \in {"spawnError", "settle"} => work(u)'.op = work(u).op
        BY <1>3, <2>2, <2>4 DEF NewWork
      <4> QED BY <1>1, <4>1, <4>2 DEF Waiting, processVars
    <3> QED BY <3>1
  <2>7. WorkInv' /\ ClaimInv' /\ TableIsSlot' /\ StartInv' /\ StartingInv'
    BY <1>1, <2>5, <2>6, SameSlotWork
  <2> QED
    BY <2>3, <2>7 DEF IInv
<1> QED
  BY <1>4, <1>5


LEMMA StepAttach ==
  ASSUME IInv, NEW t \in Tasks, Attach(t)
  PROVE  IInv'
<1> DEFINE d == task[t][1]
           fits == /\ slot.state = "Starting" /\ slot.gen = d.gen
                   /\ slot.start = d.token /\ slot.spec = d.spec
<1>1. At(t, "attach") /\ UNCHANGED <<routeVars, processVars, timeVars, countVars>>
  BY DEF Attach
<1>2. DataOK /\ CountOK
  BY GoodState
<1>3. /\ work(t) = d /\ work(t).op = "attach" /\ d.gen \in Gens /\ d.gen # 0 /\ d.gen < nextGen
      /\ proc[d.gen] \in ProcOf("attach") /\ d.token # 0 /\ d \in TypedCalls
      /\ \A u \in Tasks \ {t} : work(u).op \in Starter => work(u).gen # d.gen
  BY <1>1, RunningProc DEF Special, Starter
<1>4. CASE ~fits
  <2> DEFINE e == [task[t][1] EXCEPT !.op = "cleanup"]
  <2>1. Goto(t, "cleanup") /\ UNCHANGED <<slot, table>>
    BY <1>4 DEF Attach
  <2>2. /\ e.op = "cleanup" /\ e.gen = work(t).gen /\ e.token = work(t).token
        /\ StacksOK /\ Goes(t, <<e>>) /\ NewWork(t, e)
        /\ \A x \in Elems(<<e>>) : x.gen < nextGen /\ x.op \notin {"stop", "detach"}
    BY <1>1, <1>3, <2>1, NextSection DEF Special, Starter
  <2>3. d.gen = work(t).gen
    BY <1>3
  <2> HIDE DEF e, d
  <2>4. TypeInv' /\ CountInv' /\ EndInv' /\ InhibitInv'
    BY <1>1, <1>2, <2>1, <2>2, QuietFrame DEF DataOK, routeVars, SlotOK, Special, Starter
  <2>5. proc[e.gen] \in ProcOf(e.op) /\ e.op \in Starter /\ e.op # "spawn" /\ work(t).op \in Starter
    BY <1>3, <2>2, <2>3, ProcOfs DEF Starter
  <2>6. /\ WorkInv' /\ \A h \in Gens : Claimed(h)' => Claimed(h)
        /\ \A u \in Tasks : work(u)'.op \in Starter
             => work(u).op \in Starter /\ work(u)'.gen = work(u).gen /\ work(u)'.token = work(u).token
    BY <1>1, <2>2, <2>5, QuietWork
  <2>7. slot.state = "Starting" => Waiting(slot.gen)'
    <3>1. ASSUME slot.state = "Starting"
          PROVE  Waiting(slot.gen)' /\ slot' = slot
      <4>1. slot.gen \in Gens /\ Waiting(slot.gen)
        BY <3>1, StartingGen
      <4>2. \A u \in Tasks : /\ work(u)'.gen = work(u).gen
                             /\ work(u).op \in Starter => work(u)'.op \in Starter
                             /\ work(u).op \in {"spawnError", "settle"} => work(u)'.op = work(u).op
        BY <1>3, <2>2, <2>5 DEF NewWork
      <4> QED BY <1>1, <2>1, <4>1, <4>2 DEF Waiting, processVars
    <3> QED BY <3>1
  <2>8. WorkInv' /\ ClaimInv' /\ TableIsSlot' /\ StartInv' /\ StartingInv'
    BY <2>1, <2>6, <2>7, SameSlotWork
  <2> QED
    BY <2>4, <2>8 DEF IInv
<1>5. CASE fits
  <2> DEFINE x == [d EXCEPT !.op = "attached"]
  <2>1. /\ slot' = [slot EXCEPT !.state = "Running", !.start = 0] /\ table' = d.gen
        /\ Goto(t, "attached")
    BY <1>5 DEF Attach
  <2>2. x \in TypedCalls /\ x.op = "attached" /\ x.gen = d.gen
    BY <1>3, GotoTyped DEF Sections, Special, Starter
  <2>3. Then(t, <<x>>)
    BY <2>1 DEF Goto
  <2>4. /\ SlotOK(slot') /\ slot'.gen = d.gen /\ slot'.state = "Running" /\ slot'.start = 0
        /\ slot'.pending = slot.pending /\ slot'.spec = slot.spec /\ slot.gen = d.gen
    BY <1>2, <1>3, <1>5, <2>1 DEF DataOK, SlotOK, Slots
  <2>5. slot.state = "Starting" /\ d.gen = work(t).gen
    BY <1>3, <1>5
  <2> HIDE DEF x, d
  <2>6. <<x>> \in Seq(TypedCalls) /\ Elems(<<x>>) = {x}
    BY <2>2, ElemsOfOne
  <2>7. Plain(<<x>>)
    BY <2>2, <2>6 DEF Plain, Special, Starter
  <2>8. StacksOK /\ Goes(t, <<x>>) /\ NewWork(t, NoWork)
    BY <1>1, <2>3, <2>6, <2>7, PlainSections DEF IInv
  <2>9. TypeInv' /\ CountInv' /\ EndInv' /\ InhibitInv'
    <3>1. /\ nextGen' = nextGen /\ nextGen \in Nat \ {0}
      BY <1>1, <1>2, MaxOpsAssumption DEF DataOK, countVars
    <3>2. DataOK'
      BY <1>1, <1>2, <1>3, <2>1, <2>4 DEF DataOK, processVars, timeVars, countVars, routeVars
    <3>3. CountOK'
      BY <1>1, <1>2, <1>3, <2>4 DEF CountOK, processVars, countVars
    <3>4. TypeOK'
      BY <2>8, <3>2, DataIsType DEF StacksOK, DataOK, TypeOK, SlotOK, HasProcess
    <3>5. TypeInv'
      BY <2>8, <3>4 DEF TypeInv, StacksOK
    <3>6. CountInv'
      <4>1. \A y \in Elems(<<x>>) : y.gen < nextGen'
        BY <1>3, <2>2, <2>6, <3>1
      <4>2. nextGen <= nextGen' /\ TypeInv /\ CountInv
        BY <3>1 DEF IInv
      <4>3. \A u \in Tasks : \A y \in Elems(task'[u]) : y.gen < nextGen'
        BY <2>8, <3>4, <4>1, <4>2, CountGoes
      <4> QED BY <3>3, <4>3 DEF CountInv, CountOK
    <3>7. EndInv'
      <4>1. \A h \in Gens : Ending(h) => Ending(h)'
        BY <2>4, <2>5 DEF Ending
      <4>2. \A y \in Elems(<<x>>) : y.op \notin {"stop", "detach"}
        BY <2>2, <2>6
      <4>3. task[t][1].op # "begin" /\ TypeInv /\ CountInv /\ EndInv
        BY <1>1 DEF At, IInv
      <4> QED BY <2>8, <4>1, <4>2, <4>3, EndGoes
    <3>8. InhibitInv'
      <4>1. x \in Elems(task'[t]) /\ \A kind : x.op \in Stops(kind)
        BY <2>2, <2>6, <2>8 DEF Goes, Stops
      <4> QED BY <4>1 DEF InhibitInv, Stops
    <3> QED BY <3>5, <3>6, <3>7, <3>8
  <2>10. /\ WorkInv' /\ \A h \in Gens : Claimed(h)' => Claimed(h)
         /\ \A u \in Tasks : work(u)'.op \in Starter
              => work(u).op \in Starter /\ work(u)'.gen = work(u).gen /\ work(u)'.token = work(u).token
    BY <1>1, <2>8, QuietWork DEF NoWork
  <2>11. ClaimInv'
    BY <2>4, <2>5, <2>10 DEF IInv, ClaimInv
  <2>12. TableIsSlot'
    BY <2>1, <2>4 DEF TableIsSlot
  <2>13. StartInv'
    <3>1. \A u \in Tasks : work(u)'.op \in Starter => work(u)'.gen # d.gen
      BY <1>3, <2>8 DEF NewWork, NoWork, Starter
    <3> QED BY <2>4, <3>1 DEF StartInv
  <2>14. StartingInv'
    BY <2>4 DEF StartingInv
  <2> QED
    BY <2>9, <2>10, <2>11, <2>12, <2>13, <2>14 DEF IInv
<1> QED
  BY <1>4, <1>5

LEMMA StepCleanupStale ==
  ASSUME IInv, NEW t \in Tasks, CleanupStale(t)
  PROVE  IInv'
<1> DEFINE g == task[t][1].gen
           mine == table = 0 /\ slot.state = "Starting" /\ slot.gen = g
           use == IF table = 0 /\ slot'.state = "Stopping" /\ slot'.gen = g THEN "tracked" ELSE "discard"
           x == StopOf(g, use)
           c == <<x>>
<1>1. /\ At(t, "cleanup") /\ UNCHANGED <<routeVars, table, processVars, timeVars, countVars>>
      /\ slot' = (IF mine THEN StopRequested(slot, TRUE) ELSE slot)
      /\ Then(t, c)
  BY DEF CleanupStale
<1>2. DataOK /\ CountOK
  BY GoodState
<1>3. /\ work(t) = task[t][1] /\ work(t).op = "cleanup" /\ work(t).gen = g
      /\ g \in Gens /\ g # 0 /\ g < nextGen /\ work(t).token # 0
      /\ \A u \in Tasks \ {t} : work(u).op \in Starter => work(u).gen # g
  BY <1>1, RunningProc DEF Special, Starter
<1>4. slot.gen = g => /\ slot.state \in {"Starting", "Stopping"} /\ table = 0
  <2>1. ASSUME slot.gen = g
        PROVE  slot.state \in {"Starting", "Stopping"} /\ slot.start = work(t).token
    BY <1>3, <2>1 DEF IInv, StartInv, Starter
  <2> QED BY <1>3, <2>1 DEF IInv, StartInv
<1>5. /\ SlotOK(slot') /\ slot'.gen = slot.gen /\ slot'.start = slot.start
      /\ slot'.spec = slot.spec /\ slot'.pending = slot.pending
      /\ slot'.state = IF mine THEN "Stopping" ELSE slot.state
  BY <1>1, <1>2, StopRequestedSlot DEF DataOK
<1>6. slot.gen = g => slot'.state = "Stopping"
  BY <1>4, <1>5
<1>7. x \in TypedCalls /\ x.op = "stop" /\ x.gen = g
  BY <1>3, StopTyped DEF Uses
<1> HIDE DEF g, x
<1>8. c \in Seq(TypedCalls) /\ Elems(c) = {x}
  BY <1>7, ElemsOfOne
<1>9. Plain(c)
  BY <1>7, <1>8 DEF Plain, Special, Starter
<1>10. StacksOK /\ Goes(t, c) /\ NewWork(t, NoWork)
  BY <1>1, <1>8, <1>9, PlainSections DEF IInv
<1>11. TypeInv' /\ CountInv' /\ EndInv' /\ InhibitInv'
  <2>1. \A y \in Elems(c) : y.gen = g /\ y.op = "stop"
    BY <1>7, <1>8
  <2>2. slot'.gen = g => slot'.state = "Stopping"
    BY <1>5, <1>6
  <2>3. \A y \in Elems(c) : y.gen < nextGen /\ y.op # "detach" /\ (y.op = "stop" => Ending(y.gen)')
    BY <1>3, <2>1, <2>2 DEF Ending
  <2>4. slot'.state = "Running" => slot.state = "Running"
    BY <1>5
  <2>5. slot.state = "Stopping" => slot'.state = "Stopping" \/ slot'.gen = 0
    BY <1>5
  <2>6. link' \in {link, "none"} /\ grace' \in BOOLEAN /\ UNCHANGED <<inhibit, marks, processVars, timeVars, countVars>>
    BY <1>1, <1>2 DEF routeVars, DataOK
  <2> HIDE DEF c, mine
  <2> QED
    BY <1>1, <1>5, <1>10, <2>3, <2>4, <2>5, <2>6, QuietFrame DEF Special, Starter
<1>12. /\ WorkInv' /\ \A h \in Gens : Claimed(h)' => Claimed(h)
       /\ \A u \in Tasks : work(u)'.op \in Starter
            => work(u).op \in Starter /\ work(u)'.gen = work(u).gen /\ work(u)'.token = work(u).token
  BY <1>1, <1>10, QuietWork DEF NoWork
<1> HIDE DEF c
<1>13. ClaimInv'
  BY <1>5, <1>12 DEF IInv, ClaimInv
<1>14. TableIsSlot'
  BY <1>1, <1>5 DEF IInv, TableIsSlot
<1>15. StartInv'
  <2>1. \A u \in Tasks : work(u)'.op \in Starter /\ work(u)'.gen = slot'.gen =>
          slot.state \in {"Starting", "Stopping"} /\ slot.start = work(u)'.token
    BY <1>5, <1>12 DEF IInv, StartInv
  <2> QED BY <1>1, <1>5, <2>1 DEF IInv, StartInv
<1>16. StartingInv'
  <2> SUFFICES ASSUME slot'.state = "Starting"
               PROVE  Waiting(slot.gen)' /\ slot'.gen = slot.gen
    BY <1>5 DEF StartingInv, Waiting
  <2>1. slot.state = "Starting" /\ slot.gen # g
    BY <1>5, <1>6
  <2>2. slot.gen \in Gens /\ Waiting(slot.gen)
    BY <2>1, StartingGen
  <2>3. ASSUME NEW h \in Gens, h = slot.gen
        PROVE  Waiting(h)'
    BY <1>1, <1>3, <1>10, <2>1, <2>2, <2>3, WaitingKept DEF processVars
  <2> QED BY <1>5, <2>2, <2>3 DEF Waiting
<1> QED
  BY <1>11, <1>12, <1>13, <1>14, <1>15, <1>16 DEF IInv


\* Nobody claims the process of a slot whose process is dead
LEMMA NoClaim ==
  ASSUME IInv, NEW t \in Tasks, work(t).op \in {"spawnError", "settle"}, work(t).gen = slot.gen,
         slot.state # "Removed"
  PROVE  \A h \in Gens : ~Claimed(h)
<1>1. slot.gen \in Gens /\ proc[slot.gen] = "dead"
  <2>1. work(t).gen \in Gens /\ proc[work(t).gen] \in ProcOf(work(t).op)
    BY WorkTyped DEF IInv, WorkInv, WorkProc, Special, Starter
  <2> QED BY <2>1, ProcOfs
<1>2. ASSUME NEW h \in Gens, Claimed(h)
      PROVE  FALSE
  <2>1. h = slot.gen
    BY <1>2 DEF IInv, ClaimInv
  <2>2. PICK u \in Tasks : work(u).op = "spawn" /\ work(u).gen = h
    BY <1>1, <1>2, <2>1 DEF Claimed, Existing
  <2>3. proc[h] \in ProcOf("spawn")
    BY <2>2 DEF IInv, WorkInv, WorkProc, Special, Starter
  <2> QED BY <1>1, <2>1, <2>3, ProcOfs
<1> QED
  BY <1>2

\* The slot of a dead process is given its exit
LEMMA SlotExits ==
  ASSUME IInv, NEW t \in Tasks, work(t).op \in {"spawnError", "settle"}, work(t).gen = slot.gen,
         slot.state \in {"Starting", "Running", "Stopping"},
         NEW kind \in ExitKinds, slot' = Exited(slot, kind), table' = 0,
         \A h \in Gens : Claimed(h)' => Claimed(h), TypeOK',
         \A u \in Tasks : work(u)'.op \in Starter => work(u)'.gen # 0
  PROVE  ClaimInv' /\ TableIsSlot' /\ StartInv' /\ StartingInv'
<1>1. /\ SlotOK(slot') /\ slot'.gen = 0 /\ slot'.start = 0 /\ slot'.spec = slot.spec
      /\ slot'.pending \in {slot.pending, NoStart} /\ slot'.state \in ExitKinds \cup {"Removed"}
  BY GoodState, ExitedSlot DEF DataOK
<1>2. \A h \in Gens : ~Claimed(h)
  BY NoClaim
<1>3. ClaimInv'
  BY <1>2 DEF ClaimInv
<1>4. TableIsSlot' /\ StartingInv'
  BY <1>1 DEF TableIsSlot, StartingInv, ExitKinds
<1>5. StartInv'
  BY <1>1 DEF StartInv
<1> QED
  BY <1>3, <1>4, <1>5

LEMMA WorkNotZero ==
  ASSUME IInv, NEW t \in Tasks, NEW e, NewWork(t, e), e.op \notin Starter
  PROVE  \A u \in Tasks : work(u)'.op \in Starter => work(u)'.gen # 0
<1>1. \A u \in Tasks : work(u).op \in Starter => work(u).gen # 0
  BY WorkTyped DEF IInv, Special
<1> QED
  BY <1>1 DEF NewWork

LEMMA StepSpawnFailed ==
  ASSUME IInv, NEW t \in Tasks, SpawnFailed(t)
  PROVE  IInv'
<1> DEFINE d == task[t][1]
           known == slot.start = d.token /\ slot.gen = d.gen /\ slot.state \in {"Starting", "Stopping"}
           remove == slot.state = "Stopping" /\ ~slot.keep
           c == IF known /\ remove THEN <<Run("unregister")>> ELSE <<>>
<1>1. /\ At(t, "spawnError") /\ UNCHANGED <<routeVars, table, processVars, timeVars, countVars>>
      /\ slot' = (IF known /\ ~remove THEN Exited(slot, "Failed") ELSE slot)
      /\ Then(t, c)
  BY DEF SpawnFailed
<1>2. DataOK /\ CountOK /\ StartInv /\ table \in Gens \cup {0}
  BY GoodState DEF IInv, DataOK
<1>3. /\ work(t) = d /\ work(t).op = "spawnError" /\ d.gen \in Gens /\ d.gen # 0 /\ d.token # 0
      /\ 0 < nextGen
  <2>1. 0 < nextGen
    BY <1>2, MaxOpsAssumption DEF DataOK
  <2> QED BY <1>1, <2>1, RunningProc DEF Special, Starter
<1>4. Easy(c)
  BY EasySections DEF Simple, Causes
<1>5. c \in Seq(TypedCalls) /\ Plain(c) /\ \A y \in Elems(c) : y.gen < nextGen /\ y.op \notin {"stop", "detach"}
  BY <1>3, <1>4 DEF Easy, Plain
<1> HIDE DEF c
<1>6. StacksOK /\ Goes(t, c) /\ NewWork(t, NoWork)
  BY <1>1, <1>5, PlainSections DEF IInv
<1>7. /\ WorkInv' /\ \A h \in Gens : Claimed(h)' => Claimed(h)
      /\ \A u \in Tasks : work(u)'.op \in Starter
           => work(u).op \in Starter /\ work(u)'.gen = work(u).gen /\ work(u)'.token = work(u).token
  BY <1>1, <1>6, QuietWork DEF NoWork
<1>8. CASE ~(known /\ ~remove)
  <2>1. slot' = slot
    BY <1>1, <1>8
  <2>2. TypeInv' /\ CountInv' /\ EndInv' /\ InhibitInv'
    BY <1>1, <1>2, <1>5, <1>6, <2>1, QuietFrame DEF DataOK, routeVars, SlotOK, Special, Starter
  <2>3. slot.state = "Starting" => Waiting(slot.gen)'
    <3>1. ASSUME slot.state = "Starting"
          PROVE  Waiting(slot.gen)' /\ slot' = slot
      <4>1. slot.gen \in Gens /\ Waiting(slot.gen)
        BY <3>1, StartingGen
      <4>2. work(t).gen # slot.gen
        BY <1>2, <1>3, <1>8, <3>1 DEF StartInv, Starter
      <4>3. ASSUME NEW h \in Gens, h = slot.gen
            PROVE  Waiting(h)'
        BY <1>1, <1>6, <4>1, <4>2, <4>3, WaitingKept DEF processVars
      <4> QED BY <2>1, <4>1, <4>3 DEF Waiting
    <3> QED BY <3>1
  <2>4. WorkInv' /\ ClaimInv' /\ TableIsSlot' /\ StartInv' /\ StartingInv'
    BY <1>1, <1>7, <2>1, <2>3, SameSlotWork
  <2> QED
    BY <2>2, <2>4 DEF IInv
<1>9. CASE known /\ ~remove
  <2>1. slot' = Exited(slot, "Failed") /\ "Failed" \in ExitKinds
    BY <1>1, <1>9 DEF ExitKinds
  <2>2. /\ SlotOK(slot') /\ slot'.gen = 0 /\ slot'.spec = slot.spec
        /\ slot'.pending \in {slot.pending, NoStart} /\ slot'.state \in ExitKinds \cup {"Removed"}
    BY <1>2, <2>1, ExitedSlot DEF DataOK
  <2>3. table = 0 /\ table' = 0 /\ slot.state \in {"Starting", "Running", "Stopping"} /\ work(t).gen = slot.gen
    BY <1>1, <1>2, <1>3, <1>9 DEF StartInv
  <2>4. TypeInv' /\ CountInv' /\ EndInv' /\ InhibitInv'
    <3>1. slot'.state # "Running"
      BY <2>2 DEF ExitKinds
    <3> QED BY <1>1, <1>2, <1>5, <1>6, <2>2, <2>3, <3>1, QuietFrame DEF DataOK, routeVars, Special, Starter
  <2>5. ClaimInv' /\ TableIsSlot' /\ StartInv' /\ StartingInv'
    <3>1. TypeOK'
      BY <2>4 DEF TypeInv
    <3>2. \A u \in Tasks : work(u)'.op \in Starter => work(u)'.gen # 0
      BY <1>6, WorkNotZero DEF NoWork, Starter
    <3>3. work(t).op \in {"spawnError", "settle"}
      BY <1>3
    <3> QED BY <1>7, <2>1, <2>3, <3>1, <3>2, <3>3, SlotExits
  <2> QED
    BY <1>7, <2>4, <2>5 DEF IInv
<1> QED
  BY <1>8, <1>9

LEMMA StepSettle ==
  ASSUME IInv, NEW t \in Tasks, Settle(t)
  PROVE  IInv'
<1> DEFINE d == task[t][1]
           current == HasProcess /\ slot.gen = d.gen
           removed == slot'.state = "Removed"
           a == IF current THEN Lifecycle ELSE <<>>
           b == CASE d.use = "tracked" -> <<Run("resume")>>
                  [] d.use = "exit" /\ current -> <<Run(IF removed THEN "cancel" ELSE "resume")>>
                  [] OTHER -> <<>>
           c == a \o b
<1>1. /\ At(t, "settle") /\ UNCHANGED <<inhibit, marks, processVars, timeVars, countVars>>
      /\ slot' = (IF current THEN Exited(slot, d.cause) ELSE slot)
      /\ table' = (IF current THEN 0 ELSE table)
      /\ grace' = (grace /\ ~current)
      /\ link' = (IF current /\ removed THEN "none" ELSE link)
      /\ Then(t, c)
  BY DEF Settle
<1>2. DataOK /\ CountOK
  BY GoodState
<1>3. /\ work(t) = d /\ work(t).op = "settle" /\ d.gen \in Gens /\ d.gen # 0
      /\ d.cause \in ExitKinds /\ 0 < nextGen
  <2>1. 0 < nextGen
    BY <1>2, MaxOpsAssumption DEF DataOK
  <2>2. d \in TypedCalls /\ d.op = "settle"
    BY <1>1, Running DEF IInv
  <2>3. d.cause \in ExitKinds
    BY <2>2 DEF TypedCalls, Typed
  <2> QED BY <1>1, <2>1, <2>3, RunningProc DEF Special
<1>4. Easy(c)
  <2>1. Easy(<<>>) /\ Easy(Lifecycle) /\ Easy(<<Run("resume")>>) /\ Easy(<<Run("cancel")>>)
    BY EasySections DEF Simple, Causes
  <2>2. Easy(a)
    BY <2>1
  <2>3. Easy(b)
    BY <2>1
  <2> HIDE DEF a, b
  <2> QED BY <2>2, <2>3, EasyConcat
<1> HIDE DEF c
<1>5. c \in Seq(TypedCalls) /\ Plain(c) /\ \A y \in Elems(c) : y.gen < nextGen /\ y.op \notin {"stop", "detach"}
  BY <1>3, <1>4 DEF Easy, Plain
<1>6. StacksOK /\ Goes(t, c) /\ NewWork(t, NoWork)
  BY <1>1, <1>5, PlainSections DEF IInv
<1>7. /\ WorkInv' /\ \A h \in Gens : Claimed(h)' => Claimed(h)
      /\ \A u \in Tasks : work(u)'.op \in Starter
           => work(u).op \in Starter /\ work(u)'.gen = work(u).gen /\ work(u)'.token = work(u).token
  BY <1>1, <1>6, QuietWork DEF NoWork
<1>8. link' \in {link, "none"} /\ grace' \in BOOLEAN /\ table' \in {table, 0}
  BY <1>1, <1>2 DEF DataOK
<1>9. CASE ~current
  <2>1. slot' = slot /\ table' = table
    BY <1>1, <1>9
  <2>2. TypeInv' /\ CountInv' /\ EndInv' /\ InhibitInv'
    BY <1>1, <1>2, <1>5, <1>6, <1>8, <2>1, QuietFrame DEF DataOK, SlotOK, Special, Starter
  <2>3. slot.state = "Starting" => Waiting(slot.gen)'
    <3>1. ASSUME slot.state = "Starting"
          PROVE  Waiting(slot.gen)' /\ slot' = slot
      <4>1. slot.gen \in Gens /\ Waiting(slot.gen)
        BY <3>1, StartingGen
      <4>2. work(t).gen # slot.gen
        BY <1>3, <1>9, <3>1 DEF HasProcess
      <4>3. ASSUME NEW h \in Gens, h = slot.gen
            PROVE  Waiting(h)'
        BY <1>1, <1>6, <4>1, <4>2, <4>3, WaitingKept DEF processVars
      <4> QED BY <2>1, <4>1, <4>3 DEF Waiting
    <3> QED BY <3>1
  <2>4. WorkInv' /\ ClaimInv' /\ TableIsSlot' /\ StartInv' /\ StartingInv'
    BY <1>7, <2>1, <2>3, SameSlotWork
  <2> QED
    BY <2>2, <2>4 DEF IInv
<1>10. CASE current
  <2>1. slot' = Exited(slot, d.cause) /\ table' = 0
    BY <1>1, <1>10
  <2>2. /\ SlotOK(slot') /\ slot'.gen = 0 /\ slot'.spec = slot.spec
        /\ slot'.pending \in {slot.pending, NoStart} /\ slot'.state \in ExitKinds \cup {"Removed"}
    BY <1>2, <1>3, <2>1, ExitedSlot DEF DataOK
  <2>3. slot.state \in {"Starting", "Running", "Stopping"} /\ work(t).gen = slot.gen
        /\ work(t).op \in {"spawnError", "settle"}
    BY <1>3, <1>10 DEF HasProcess
  <2>4. TypeInv' /\ CountInv' /\ EndInv' /\ InhibitInv'
    <3>1. slot'.state # "Running"
      BY <2>2 DEF ExitKinds
    <3> QED BY <1>1, <1>5, <1>6, <1>8, <2>2, <3>1, QuietFrame DEF Special
  <2>5. ClaimInv' /\ TableIsSlot' /\ StartInv' /\ StartingInv'
    <3>1. TypeOK'
      BY <2>4 DEF TypeInv
    <3>2. \A u \in Tasks : work(u)'.op \in Starter => work(u)'.gen # 0
      BY <1>6, WorkNotZero DEF NoWork, Starter
    <3> QED BY <1>3, <1>7, <2>1, <2>3, <3>1, <3>2, SlotExits
  <2> QED
    BY <1>7, <2>4, <2>5 DEF IInv
<1> QED
  BY <1>9, <1>10


\* A start that nothing holds back: a new generation, claimed before it is spawned
LEMMA StepAdvanceStarts ==
  ASSUME IInv, NEW t \in Tasks, At(t, "advance"), slot.pending.token = task[t][1].token,
         slot.state \notin {"Removed", "Starting", "Running", "Stopping"}, table = 0,
         slot' = [WithoutPending(slot) EXCEPT !.state = "Starting", !.gen = nextGen,
                                              !.start = task[t][1].token],
         Then(t, <<Run("cancel"), [Run("spawn") EXCEPT !.gen = nextGen, !.token = task[t][1].token,
                                                       !.spec = slot.spec]>>),
         nextGen' = nextGen + 1,
         UNCHANGED <<routeVars, table, processVars, timeVars, nextToken, ops>>
  PROVE  IInv'
<1> DEFINE g == nextGen
           k == task[t][1].token
           x == Run("cancel")
           e == [Run("spawn") EXCEPT !.gen = g, !.token = k, !.spec = slot.spec]
           c == <<x, e>>
           s == WithoutPending(slot)
<1>1. DataOK /\ CountOK /\ WorkProc /\ WorkOwner /\ ExitsDead /\ LiveUp /\ ClaimInv /\ CountInv
  BY GoodState DEF IInv, WorkInv
<1>2. /\ k \in Tokens /\ g < nextToken /\ g \in Gens /\ g + 1 \in 1 .. 2 * MaxOps + 2
      /\ slot.pending # NoStart
  BY StartToken
<1>3. g \in Nat \ {0} /\ k # 0 /\ nextToken \in Nat /\ ops \in Nat /\ Gens \subseteq Nat \ {0}
  <2>1. nextToken \in Nat /\ ops \in Nat /\ Gens \subseteq Nat \ {0}
    BY <1>1, Counters, GensAreNumbers
  <2>2. k \in Nat \ {0}
    BY <1>2, <2>1 DEF Gens
  <2> QED BY <1>2, <2>1, <2>2
<1>4. /\ SlotOK(s) /\ s.pending = NoStart
      /\ s.gen = slot.gen /\ s.start = slot.start /\ s.spec = slot.spec /\ s.state = slot.state
  BY <1>1, WithoutPendingSlot DEF DataOK
<1>5. slot' = [s EXCEPT !.state = "Starting", !.gen = g, !.start = k]
  OBVIOUS
<1>6. slot.gen = 0 /\ slot.spec \in 1 .. MaxOps + 1
  BY <1>1 DEF DataOK, SlotOK, Slots
<1>7. x \in TypedCalls /\ x.op = "cancel" /\ x.gen = 0
  BY SimpleTyped DEF Simple
<1>8. e \in TypedCalls /\ e.op = "spawn" /\ e.gen = g /\ e.token = k
  <2>1. Run("spawn") \in Calls /\ Run("spawn").op = "spawn"
    BY MaxOpsAssumption DEF Run, Calls, Sections, Uses
  <2>2. ASSUME NEW y \in Calls
        PROVE  LET z == [y EXCEPT !.gen = g, !.token = k, !.spec = slot.spec]
               IN  z \in Calls /\ z.op = y.op /\ z.gen = g /\ z.token = k
    <3>1. slot.spec \in 0 .. MaxOps + 1
      BY <1>6, MaxOpsAssumption
    <3>2. g \in Gens \cup {0} /\ k \in Tokens \cup {0}
      BY <1>2
    <3> HIDE DEF g, k
    <3> QED BY <3>1, <3>2 DEF Calls
  <2>3. e \in Calls /\ e.op = "spawn" /\ e.gen = g /\ e.token = k
    BY <2>1, <2>2
  <2> HIDE DEF e
  <2> QED BY <1>3, <2>3 DEF TypedCalls, Typed, Special, Starter
<1>9. Then(t, c)
  OBVIOUS
<1> HIDE DEF s, x, e, k
<1>10. /\ SlotOK(slot') /\ slot'.state = "Starting" /\ slot'.gen = g /\ slot'.start = k
       /\ slot'.pending = NoStart /\ slot'.spec = slot.spec
  BY <1>2, <1>3, <1>4, <1>5 DEF SlotOK, Slots
<1>11. c \in Seq(TypedCalls) /\ Elems(c) = {x, e}
  BY <1>7, <1>8, ElemsOfTwo
<1> DEFINE r == c \o Tail(task[t])
<1>12. task[t] # <<>> /\ task[t][1].op = "advance" /\ task[t] \in Seq(TypedCalls) /\ Shape(task[t])
  BY Running DEF IInv, TypeInv
<1>13. r \in Seq(TypedCalls) /\ Shape(r) /\ Work(r) = e
  BY <1>7, <1>8, <1>11, <1>12, StackOf, SpawnThen
<1>14. task' = [task EXCEPT ![t] = r]
  BY <1>9 DEF Then
<1>15. Goes(t, c)
  BY <1>11, <1>12, <1>14, ThenGoes DEF IInv
<1> HIDE DEF r, c
<1>16. StacksOK /\ NewWork(t, e)
  BY <1>13, <1>14, Moves DEF IInv, StacksOK, NewWork
<1>17. work(t) = NoWork
  BY RunningWork DEF IInv, Special, Starter
<1>18. \A u \in Tasks : work(u).op \in Special => work(u).gen # g /\ work(u).gen < g
  <2>1. ASSUME NEW u \in Tasks, work(u).op \in Special
        PROVE  work(u).gen < g /\ work(u).gen \in Nat
    <3>1. work(u) \in Elems(task[u]) /\ work(u).gen \in Gens
      BY <2>1, WorkTyped DEF IInv
    <3> QED BY <1>1, <1>3, <3>1 DEF CountInv
  <2> QED BY <1>3, <2>1
<1>19. proc[g] = "none"
  BY <1>1, <1>2, <1>3 DEF CountOK
<1>20. \A h \in Gens : ~Claimed(h)
  BY <1>1, <1>3, <1>6 DEF ClaimInv
<1>21. DataOK'
  BY <1>1, <1>2, <1>10 DEF DataOK, routeVars, processVars, timeVars
<1>22. CountOK'
  BY <1>1, <1>2, <1>3, <1>10 DEF CountOK, processVars
<1>23. TypeInv' /\ CountInv' /\ EndInv' /\ InhibitInv'
  <2>1. Adds(t, c)
    <3>1. ASSUME NEW y \in Elems(c)
          PROVE  y.gen < nextGen' /\ y.op \notin {"stop", "detach"}
      BY <1>3, <1>7, <1>8, <1>11
    <3> QED BY <3>1 DEF Adds
  <2>2. HandsOn(t, c) /\ task[t][1].op # "begin"
    BY <1>12, NoStopHandsOn
  <2>3. \A h \in Gens : h < nextGen /\ Ending(h) => Ending(h)'
    BY <1>3, <1>10 DEF Ending
  <2>4. nextGen <= nextGen' /\ inhibit' \subseteq inhibit /\ slot'.state # "Running"
    BY <1>3, <1>10 DEF routeVars
  <2> QED
    BY <1>15, <1>16, <1>21, <1>22, <2>1, <2>2, <2>3, <2>4, FrameStep
<1>24. WorkProc'
  <2>1. proc'[e.gen] \in ProcOf(e.op)
    BY <1>8, <1>19, ProcOfs DEF processVars
  <2> QED BY <1>1, <1>16, <2>1 DEF WorkProc, NewWork, processVars
<1>25. WorkOwner'
  <2>1. \A u \in Tasks : work(u).op \in Starter \cup {"exiting"} => work(u).gen # e.gen
    BY <1>8, <1>18 DEF Special
  <2>2. e.op # "exiting"
    BY <1>8
  <2>3. ASSUME NEW u \in Tasks, NEW v \in Tasks, work(u)'.gen = work(v)'.gen,
               work(u)'.op \in Starter /\ work(v)'.op \in Starter
        PROVE  u = v
    BY <1>1, <1>16, <2>1, <2>3 DEF NewWork, WorkOwner
  <2>4. ASSUME NEW u \in Tasks, NEW v \in Tasks, work(u)'.gen = work(v)'.gen,
               work(u)'.op = "exiting" /\ work(v)'.op = "exiting"
        PROVE  u = v
    BY <1>1, <1>16, <2>2, <2>4 DEF NewWork, WorkOwner
  <2> QED BY <2>3, <2>4 DEF WorkOwner
<1>26. ExitsDead' /\ LiveUp'
  BY <1>1 DEF ExitsDead, LiveUp, processVars
<1>27. \A h \in Gens : Claimed(h)' => h = g
  <2>1. \A h \in Gens : h \in Existing' => Claimed(h)
    BY DEF Existing, Claimed, processVars
  <2>2. \A h \in Gens : \A u \in Tasks \ {t} : work(u)'.op = "spawn" /\ work(u)'.gen = h => Claimed(h)
    BY <1>16 DEF NewWork, Claimed
  <2>3. work(t)'.gen = g
    BY <1>8, <1>16 DEF NewWork
  <2> QED BY <1>20, <2>1, <2>2, <2>3 DEF Claimed
<1>28. ClaimInv'
  BY <1>10, <1>27 DEF ClaimInv
<1>29. TableIsSlot' /\ table' = 0
  BY <1>10 DEF TableIsSlot
<1>30. StartInv'
  <2>1. \A u \in Tasks : work(u)'.op \in Starter /\ work(u)'.gen = g => work(u)'.token = k
    BY <1>8, <1>16, <1>18 DEF NewWork, Special
  <2> QED BY <1>10, <1>29, <2>1 DEF StartInv
<1>31. StartingInv'
  <2>1. work(t)'.op \in Starter /\ work(t)'.gen = slot'.gen /\ proc'[slot'.gen] = "none"
    BY <1>8, <1>10, <1>16, <1>19 DEF NewWork, Starter, processVars
  <2> QED BY <2>1 DEF StartingInv, Waiting
<1> QED
  BY <1>23, <1>24, <1>25, <1>26, <1>28, <1>29, <1>30, <1>31 DEF IInv, WorkInv

LEMMA StepAdvanceStart ==
  ASSUME IInv, NEW t \in Tasks, AdvanceStart(t)
  PROVE  IInv'
<1> DEFINE token   == task[t][1].token
           stale   == slot.state = "Removed" \/ slot.pending.token # token
           early   == Demand /\ token \notin due
           running == Demand /\ ~early /\ slot.state = "Running"
           waits   == Demand /\ ~early /\ (table # 0 \/ slot.state \in {"Starting", "Stopping"})
<1>1. At(t, "advance") /\ UNCHANGED <<routeVars, table, processVars, timeVars, nextToken, ops>>
  BY DEF AdvanceStart
<1>2. CASE \/ Then(t, <<>>) /\ UNCHANGED <<slot, nextGen>>
           \/ Goto(t, "schedule") /\ UNCHANGED <<slot, nextGen>>
  BY <1>1, <1>2, StepAdvanceWaits
<1>3. CASE /\ ~stale /\ slot' = WithoutPending(slot) /\ Then(t, <<Run("cancel")>>)
           /\ nextGen' \in {nextGen, nextGen + 1}
  BY <1>1, <1>3, StepAdvanceDrops
<1>4. CASE /\ ~stale /\ Demand /\ ~early /\ ~running /\ ~waits
           /\ nextGen' = nextGen + 1
           /\ slot' = [WithoutPending(slot) EXCEPT
                         !.state = "Starting", !.gen = nextGen, !.start = token]
           /\ Then(t, <<Run("cancel"), [Run("spawn") EXCEPT !.gen = nextGen, !.token = token,
                                                            !.spec = slot.spec]>>)
  BY <1>1, <1>4, StepAdvanceStarts
<1> QED
  BY <1>2, <1>3, <1>4 DEF AdvanceStart

-----------------------------------------------------------------------------
(* The invariant holds. *)

LEMMA InitInv == Init => IInv
<1> SUFFICES ASSUME Init
             PROVE  IInv
  OBVIOUS
<1> DEFINE x == RunFor("applied", "immediate")
<1>1. /\ slot = [state |-> "Stopped", gen |-> 0, keep |-> TRUE, spec |-> 1, pending |-> NoStart, start |-> 0]
      /\ link = "on" /\ inhibit = {} /\ marks = {} /\ grace = FALSE /\ table = 0 /\ live = 0
      /\ proc = [g \in Gens |-> "none"] /\ exits = <<>> /\ sched = 0 /\ due = {} /\ fired = <<>>
      /\ nextGen = 1 /\ nextToken = 1 /\ ops = 0
  BY DEF Init, Fresh
<1>2. PICK h \in Handlers : task = [t \in Tasks |-> IF t = h THEN <<x>> ELSE <<>>]
  BY DEF Init
<1>3. x \in TypedCalls /\ x.op = "applied" /\ x.gen = 0
  BY CausedTyped DEF Causes
<1> HIDE DEF x
<1>4. /\ <<>> \in Seq(TypedCalls) /\ Elems(<<>>) = {} /\ Shape(<<>>) /\ Work(<<>>) = NoWork
      /\ <<x>> \in Seq(TypedCalls) /\ Elems(<<x>>) = {x} /\ Shape(<<x>>) /\ Work(<<x>>) = NoWork
  <2>1. /\ <<>> \in Seq(TypedCalls) /\ Elems(<<>>) = {}
        /\ <<x>> \in Seq(TypedCalls) /\ Elems(<<x>>) = {x}
    BY <1>3, ElemsOfOne DEF Elems
  <2>2. Plain(<<>>) /\ Plain(<<x>>)
    BY <1>3, <2>1 DEF Plain, Special, Starter
  <2> QED BY <2>1, <2>2, PlainStack
<1>5. /\ task \in [Tasks -> Seq(TypedCalls)]
      /\ \A t \in Tasks : Shape(task[t]) /\ work(t) = NoWork /\ Elems(task[t]) \subseteq {x}
  BY <1>2, <1>4 DEF work
<1>6. task \in [Tasks -> Seq(Calls)]
  BY <1>5, TypedAreCalls, SeqMonotonic
<1>7. SlotOK(slot)
  BY <1>1, MaxOpsAssumption DEF SlotOK, Slots
<1>8. DataOK
  <2>1. proc \in [Gens -> {"none", "spawning", "up", "exiting", "reaping", "dead"}]
    BY <1>1
  <2>2. /\ <<>> \in Seq([gen : Gens, kind : ExitKinds]) /\ <<>> \in Seq(Tokens)
        /\ {} \subseteq Tokens
    OBVIOUS
  <2>3. 1 \in 1 .. 2 * MaxOps + 2 /\ 0 \in 0 .. MaxOps
    BY MaxOpsAssumption
  <2>4. /\ link \in {"none", "off", "on"} /\ inhibit \subseteq {"manual", "auto"}
        /\ marks \subseteq {"renderer", "display"} /\ grace \in BOOLEAN
    BY <1>1
  <2>5. table \in Gens \cup {0} /\ live \in Gens \cup {0} /\ sched \in Tokens \cup {0}
    BY <1>1
  <2> QED BY <1>1, <1>7, <2>1, <2>2, <2>3, <2>4, <2>5 DEF DataOK
<1>9. TypeInv
  BY <1>5, <1>6, <1>8, DataIsType DEF TypeInv
<1>10. CountInv
  BY <1>1, <1>3, <1>5 DEF CountInv
<1>11. \A t \in Tasks : work(t).op \notin Special /\ work(t).op # "spawn"
  BY <1>5 DEF NoWork, Special, Starter
<1>12. WorkInv
  <2>1. \A g \in Gens : g # 0
    BY MaxOpsAssumption DEF Gens, Tokens
  <2> QED BY <1>1, <1>11, <2>1 DEF WorkInv, WorkProc, WorkOwner, ExitsDead, LiveUp, Special
<1>13. ClaimInv
  BY <1>1, <1>11 DEF ClaimInv, Claimed, Existing
<1>14. TableIsSlot /\ StartInv /\ StartingInv /\ InhibitInv
  BY <1>1, <1>11 DEF TableIsSlot, StartInv, StartingInv, InhibitInv, Special
<1>15. EndInv
  BY <1>3, <1>5 DEF EndInv
<1> QED
  BY <1>9, <1>10, <1>12, <1>13, <1>14, <1>15 DEF IInv

LEMMA StepInv ==
  ASSUME IInv, NEW t \in Tasks, Step(t)
  PROVE  IInv'
<1>1. CASE ReconcileLifecycle(t) \/ ApplyAutoStopLinks(t) \/ Reconcile(t)
  BY <1>1, StepReconcileLifecycle, StepApplyAutoStopLinks, StepReconcile
<1>2. CASE BeginRetainedStop(t) \/ CancelDeadline(t) \/ FinishRetainedStop(t)
  BY <1>2, StepBeginRetainedStop, StepCancelDeadline, StepFinishRetainedStop
<1>3. CASE StopGeneration(t) \/ (\E kind \in ExitKinds : ChildExits(t, kind)) \/ Settle(t)
  BY <1>3, StepStopGeneration, StepChildExits, StepSettle
<1>4. CASE StopRendererDrop(t) \/ UnregisterRenderer(t) \/ DetachForRestart(t)
  BY <1>4, StepStopRendererDrop, StepUnregisterRenderer, StepDetachForRestart
<1>5. CASE MarkOrphans(t) \/ ScheduleOrphanGrace(t) \/ CancelOrphanTimer(t)
  BY <1>5, StepMarkOrphans, StepOrphanTimer
<1>6. CASE StartAssigned(t) \/ RequestStart(t) \/ AdvanceStart(t) \/ ScheduleDeadline(t)
  BY <1>6, StepStartAssigned, StepRequestStart, StepAdvanceStart, StepScheduleDeadline
<1>7. CASE Spawn(t) \/ Spawned(t) \/ SpawnFails(t) \/ SpawnFailed(t)
  BY <1>7, StepSpawn, StepSpawned, StepSpawnFails, StepSpawnFailed
<1>8. CASE GetHandle(t) \/ Attach(t) \/ Attached(t) \/ CleanupStale(t) \/ ResumeAfterExit(t)
  BY <1>8, StepGetHandle, StepAttach, StepAttached, StepCleanupStale, StepResumeAfterExit
<1> QED
  BY <1>1, <1>2, <1>3, <1>4, <1>5, <1>6, <1>7, <1>8 DEF Step

LEMMA RequestInv ==
  ASSUME IInv, NEW t \in Handlers, Request(t) \/ GraceEnds(t)
  PROVE  IInv'
<1>1. CASE \E kind \in Ops : SetInhibit(t, kind)
  BY <1>1, StepSetInhibit
<1>2. CASE \E preempt \in BOOLEAN : Apply(t, preempt)
  BY <1>2, StepApply
<1>3. CASE Restart(t) \/ Replace(t) \/ Kill(t)
  BY <1>3, StepRestart, StepReplace, StepKill
<1>4. CASE Disconnect(t) \/ Reconnect(t) \/ GraceEnds(t)
  BY <1>4, StepDisconnect, StepReconnect, StepGraceEnds
<1> QED
  BY <1>1, <1>2, <1>3, <1>4 DEF Request

LEMMA NextInv == IInv /\ [Next]_vars => IInv'
<1> SUFFICES ASSUME IInv, [Next]_vars
             PROVE  IInv'
  OBVIOUS
<1>1. CASE \E t \in Handlers : Request(t) \/ GraceEnds(t)
  BY <1>1, RequestInv
<1>2. CASE \E t \in Tasks : Step(t)
  BY <1>2, StepInv
<1>3. CASE \E g \in Gens : Evict(g) \/ (\E kind \in ExitKinds : Reaped(g, kind))
  BY <1>3, StepEvict, StepReaped
<1>4. CASE Listeners
  BY <1>4, StepProcessExit, StepDeadlineFires, StepDeadlineReached DEF Listeners
<1>5. CASE \E token \in Tokens : Elapse(token)
  BY <1>5, StepElapse
<1>6. CASE UNCHANGED vars
  <2>1. DataOK'
    BY <1>6, GoodState DEF vars, routeVars, processVars, timeVars, countVars, DataOK, SlotOK
  <2> QED BY <1>6, <2>1, SameTasksStep DEF vars, routeVars
<1> QED
  BY <1>1, <1>2, <1>3, <1>4, <1>5, <1>6 DEF Next

\* Every reachable state satisfies the inductive invariant: no section of a daemon task
\* finds slot, handle, process or table in a state it was not written for
THEOREM Invariance == Spec => []IInv
  BY InitInv, NextInv, PTL DEF Spec

-----------------------------------------------------------------------------
(* What follows. *)

\* Every variable keeps its type, and a slot has a generation exactly while its state
\* has one (RendererLifecycleState::generation)
THEOREM TypeCorrect == Spec => []TypeOK
<1>1. IInv => TypeOK
  BY DEF IInv, TypeInv
<1> QED
  BY <1>1, Invariance, PTL

\* A renderer never has two processes at a time, whatever requests overlap and whichever
\* of them spawn (spawn_for_generation, settle_renderer_process_exit)
THEOREM OneProcessAtATime == Spec => []OneProcess
<1>1. IInv => OneProcess
  BY DEF IInv, ClaimInv, Claimed, OneProcess, Existing
<1> QED
  BY <1>1, Invariance, PTL

\* The routing table holds the handle of the slot's process or none, and the one of every
\* running slot (register_renderer_current, restart_renderer_orderly)
THEOREM TableHoldsSlot == Spec => []TableIsSlot
<1>1. IInv => TableIsSlot
  BY DEF IInv
<1> QED
  BY <1>1, Invariance, PTL

\* Once every task has come to rest, no process runs, or is about to, against a stop
\* request (reconcile_assignment_activation, register_renderer_current)
THEOREM InhibitedAtRest == Spec => []InhibitHolds
<1>1. IInv => InhibitHolds
  <2> SUFFICES ASSUME IInv, Quiet, inhibit # {}
               PROVE  slot.state \notin {"Starting", "Running"}
    BY DEF InhibitHolds
  <2>1. \A t \in Tasks : Elems(task[t]) = {} /\ work(t) = NoWork
    <3>1. \A t \in Tasks : task[t] = <<>>
      BY DEF Quiet, IdleTask
    <3>2. Elems(<<>>) = {} /\ Work(<<>>) = NoWork
      BY LenProperties, EmptySeq DEF Elems, Work
    <3> QED BY <3>1, <3>2 DEF work
  <2>2. slot.state # "Running"
    BY <2>1 DEF IInv, InhibitInv
  <2>3. ASSUME slot.state = "Starting"
        PROVE  FALSE
    <3>1. slot.gen \in Gens /\ Waiting(slot.gen)
      BY <2>3, StartingGen
    <3>2. exits = <<>> /\ proc[slot.gen] # "reaping"
      BY <3>1 DEF Quiet
    <3>3. Len(exits) = 0
      BY <3>2
    <3> QED BY <2>1, <3>1, <3>2, <3>3 DEF Waiting, NoWork, Starter
  <2> QED
    BY <2>2, <2>3
<1> QED
  BY <1>1, Invariance, PTL


=============================================================================
