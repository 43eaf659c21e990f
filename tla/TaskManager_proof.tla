------------------------- MODULE TaskManager_proof -------------------------
(***************************************************************************)
(* Proofs about TaskManager, for any finite set of callers, any number of  *)
(* tasks and any mix of calls (src/src/tasks.rs).                          *)
(*                                                                         *)
(* A task is with one party at a time: the caller that submits it, the     *)
(* channel, the set of tasks that run, or the supervisor that takes it     *)
(* down (PlaceInv, SupervisorInv).  Until it is cancelled, a task that is  *)
(* on its way or runs has its token and is recorded as running (FitInv),   *)
(* so whoever finds the key of a task that is not running knows that it is *)
(* not at work.  HoldInv and OnceInv are about who may write the key.      *)
(***************************************************************************)
EXTENDS TaskManager, SequenceTheorems, FiniteSetTheorems, TLAPS

-----------------------------------------------------------------------------
(* What may be left of a call, by its kind. *)

Plain == {"async", "service", "blocking"}

PlainTodos ==
    {<<"new", "record", "send">>,
     <<"record", "send">>,
     <<"send">>,
     <<"drop", "fail">>,
     <<"fail">>}

OnceTodos ==
    {<<"new", "record", "send", "key">>,
     <<"record", "send", "key">>,
     <<"send", "key">>,
     <<"drop", "fail", "key">>,
     <<"fail", "key">>,
     <<"key">>}

UniqueTodos ==
    {<<"prev", "new", "record", "send", "key">>,
     <<"trip", "new", "record", "send", "key">>,
     <<"mark", "new", "record", "send", "key">>}

ProgressTodos ==
    {<<"find", "new", "record", "key", "send">>,
     <<"state", "new", "record", "key", "send">>,
     <<"unkey", "new", "record", "key", "send">>,
     <<"new", "record", "key", "send">>,
     <<"record", "key", "send">>,
     <<"key", "send">>,
     <<"send">>,
     <<"drop", "unlist", "fail">>,
     <<"unlist", "fail">>,
     <<"fail">>}

CallTodo(kind, todo) ==
    \/ kind = "none" /\ todo \in {<<>>, <<"trip">>, <<"mark">>}
    \/ kind \in Plain /\ todo \in PlainTodos
    \/ kind \in {"once", "unique"} /\ todo \in OnceTodos
    \/ kind = "unique" /\ todo \in UniqueTodos
    \/ kind = "progress" /\ todo \in ProgressTodos

\* Without an identifier yet, or without any
Asking ==
    {<<>>, <<"trip">>, <<"mark">>,
     <<"new", "record", "send">>, <<"new", "record", "send", "key">>, <<"new", "record", "key", "send">>}
    \cup UniqueTodos
    \cup {<<"find", "new", "record", "key", "send">>, <<"state", "new", "record", "key", "send">>,
          <<"unkey", "new", "record", "key", "send">>}
Making  == {<<"record", "send">>, <<"record", "send", "key">>, <<"record", "key", "send">>}
Sending == {<<"send">>, <<"send", "key">>, <<"key", "send">>}
Failing == {<<"drop", "fail">>, <<"fail">>, <<"drop", "fail", "key">>, <<"fail", "key">>,
            <<"drop", "unlist", "fail">>, <<"unlist", "fail">>}

-----------------------------------------------------------------------------
(* The inductive invariant. *)

States == {"none", "running", "cancelled", "completed", "failed"}
Regs == [state : [Task -> States], tokens : SUBSET Task, tripped : SUBSET Task,
         keys : [Key -> Task \cup {0}], holder : SUBSET Caller]
Kinds == {"none"} \cup Key \cup Plain
Todos == Asking \cup Making \cup Sending \cup Failing \cup {<<"key">>}
Callers == [todo : Todos, id : Task \cup {0}, kind : Kinds, prev : Task \cup {0}]

TakenDown == {<<"token", "key", "check", "completed">>, <<"token", "key", "check", "failed">>,
              <<"key", "check", "completed">>, <<"key", "check", "failed">>,
              <<"check", "completed">>, <<"check", "failed">>, <<"completed">>, <<"failed">>}
Cancelled == {<<"token", "key", "cancel">>, <<"key", "cancel">>, <<"trip", "cancel">>, <<"cancel">>}
Supervisors ==
    [phase : {"loop", "flush", "others", "drain", "abort", "rest", "stopped"},
     todo : {<<>>} \cup TakenDown \cup Cancelled, id : Task \cup {0}, ids : SUBSET Task]

TypeOK ==
    /\ calls \in Mixes
    /\ reg \in Regs
    /\ tasks \in Seq(Kinds)
    /\ channel \in Seq(Task)
    /\ joinSet \in [Task -> {"absent", "runs", "completed", "failed", "lost"}]
    /\ supervisor \in Supervisors
    /\ caller \in [Caller -> Callers]
    /\ shutdown \in BOOLEAN

\* A call goes through the sections of its kind; what it cancels has been tripped before
CallOK(me, submitted, tripped) ==
    /\ CallTodo(me.kind, me.todo)
    /\ me.id = 0 <=> me.todo \in Asking
    /\ me.id # 0 => me.id <= Len(submitted) /\ submitted[me.id] = me.kind
    /\ me.todo # <<>> /\ Head(me.todo) = "mark" => me.prev \in tripped

CallInv == \A c \in Caller : CallOK(caller[c], tasks, reg.tripped)

Pending == {c \in Caller : caller[c].kind # "none" /\ caller[c].id = 0}
RoomInv == Len(tasks) + Cardinality(Pending) <= MaxTask

InChannel(i) == \E k \in 1 .. Len(channel) : channel[k] = i
Placed(i) == InChannel(i) \/ joinSet[i] # "absent"
Live(i) == InChannel(i) \/ joinSet[i] = "runs"

\* A task is with its caller until it is sent, and with one caller
PlaceInv ==
    /\ \A i \in Task : Placed(i) => i <= Len(tasks)
    /\ \A c \in Caller : caller[c].todo \in Making \cup Sending \cup Failing => ~Placed(caller[c].id)
    /\ \A c, d \in Caller : caller[c].id = caller[d].id /\ caller[c].id # 0 => c = d

\* It goes through the channel once, and nothing is left of it when the supervisor has drained
ChannelInv ==
    /\ \A k, l \in 1 .. Len(channel) : channel[k] = channel[l] => k = l
    /\ \A k \in 1 .. Len(channel) : joinSet[channel[k]] = "absent"
    /\ supervisor.phase \in {"others", "drain", "abort", "rest", "stopped"} => channel = <<>>
    /\ supervisor.phase \in {"rest", "stopped"} => \A i \in Task : joinSet[i] = "absent"

\* What the supervisor takes down is nowhere else, but while it cancels what runs
SupervisorInv ==
    /\ supervisor.todo # <<>> => supervisor.id \in Task
    /\ supervisor.todo # <<>> /\ supervisor.phase # "others" => ~Placed(supervisor.id)
    /\ supervisor.todo # <<>> /\ supervisor.phase = "loop" =>
         supervisor.id <= Len(tasks) /\ \A c \in Caller : caller[c].todo \in Making \cup Sending => caller[c].id # supervisor.id
    /\ supervisor.phase = "others" => supervisor.todo \in {<<>>, <<"trip", "cancel">>, <<"cancel">>}
    /\ supervisor.phase = "others" /\ supervisor.todo = <<"cancel">> =>
         \/ supervisor.id \in reg.tripped
         \/ ~Live(supervisor.id) \/ tasks[supervisor.id] = "blocking"

Fit(i) == i \in reg.tokens /\ (reg.state[i] = "running" \/ i \in reg.tripped)

FitInv ==
    /\ \A i \in Task : Live(i) /\ tasks[i] # "blocking" => Fit(i)
    /\ supervisor.phase = "loop" =>
         \A c \in Caller : caller[c].kind # "blocking" =>
           /\ caller[c].todo \in Making => caller[c].id \in reg.tokens
           /\ caller[c].todo \in Sending => Fit(caller[c].id)

HoldInv == \A c \in Caller : caller[c].kind = "once" => reg.holder = {c}

\* Whoever has sent a task and has not written its key yet still holds the lock
OnceInv ==
    \A i \in Task : Live(i) /\ tasks[i] = "once" /\ i \notin reg.tripped =>
        \/ \E c \in Caller : caller[c].kind = "once" /\ caller[c].todo = <<"key">> /\ caller[c].id = i
        \/ reg.keys["once"] = i /\ \A c \in Caller : caller[c].kind # "once"

TaskInv ==
    TypeOK /\ CallInv /\ RoomInv /\ PlaceInv /\ ChannelInv /\ SupervisorInv /\ FitInv /\ HoldInv /\ OnceInv

-----------------------------------------------------------------------------
(* The sections of a call. *)

LEMMA Sections ==
    /\ \A s : s = <<"new", "record", "send">> => s # <<>> /\ Head(s) = "new" /\ Tail(s) = <<"record", "send">>
    /\ \A s : s = <<"record", "send">> => s # <<>> /\ Head(s) = "record" /\ Tail(s) = <<"send">>
    /\ \A s : s = <<"send">> => s # <<>> /\ Head(s) = "send" /\ Tail(s) = <<>>
    /\ \A s : s = <<"drop", "fail">> => s # <<>> /\ Head(s) = "drop" /\ Tail(s) = <<"fail">>
    /\ \A s : s = <<"fail">> => s # <<>> /\ Head(s) = "fail" /\ Tail(s) = <<>>
    /\ \A s : s = <<"new", "record", "send", "key">> => s # <<>> /\ Head(s) = "new" /\ Tail(s) = <<"record", "send", "key">>
    /\ \A s : s = <<"record", "send", "key">> => s # <<>> /\ Head(s) = "record" /\ Tail(s) = <<"send", "key">>
    /\ \A s : s = <<"send", "key">> => s # <<>> /\ Head(s) = "send" /\ Tail(s) = <<"key">>
    /\ \A s : s = <<"drop", "fail", "key">> => s # <<>> /\ Head(s) = "drop" /\ Tail(s) = <<"fail", "key">>
    /\ \A s : s = <<"fail", "key">> => s # <<>> /\ Head(s) = "fail" /\ Tail(s) = <<"key">>
    /\ \A s : s = <<"key">> => s # <<>> /\ Head(s) = "key" /\ Tail(s) = <<>>
    /\ \A s : s = <<"prev", "new", "record", "send", "key">> => s # <<>> /\ Head(s) = "prev" /\ Tail(s) = <<"new", "record", "send", "key">>
    /\ \A s : s = <<"trip", "new", "record", "send", "key">> => s # <<>> /\ Head(s) = "trip" /\ Tail(s) = <<"new", "record", "send", "key">>
    /\ \A s : s = <<"mark", "new", "record", "send", "key">> => s # <<>> /\ Head(s) = "mark" /\ Tail(s) = <<"new", "record", "send", "key">>
    /\ \A s : s = <<"find", "new", "record", "key", "send">> => s # <<>> /\ Head(s) = "find" /\ Tail(s) = <<"new", "record", "key", "send">>
    /\ \A s : s = <<"state", "new", "record", "key", "send">> => s # <<>> /\ Head(s) = "state" /\ Tail(s) = <<"new", "record", "key", "send">>
    /\ \A s : s = <<"unkey", "new", "record", "key", "send">> => s # <<>> /\ Head(s) = "unkey" /\ Tail(s) = <<"new", "record", "key", "send">>
    /\ \A s : s = <<"new", "record", "key", "send">> => s # <<>> /\ Head(s) = "new" /\ Tail(s) = <<"record", "key", "send">>
    /\ \A s : s = <<"record", "key", "send">> => s # <<>> /\ Head(s) = "record" /\ Tail(s) = <<"key", "send">>
    /\ \A s : s = <<"key", "send">> => s # <<>> /\ Head(s) = "key" /\ Tail(s) = <<"send">>
    /\ \A s : s = <<"drop", "unlist", "fail">> => s # <<>> /\ Head(s) = "drop" /\ Tail(s) = <<"unlist", "fail">>
    /\ \A s : s = <<"unlist", "fail">> => s # <<>> /\ Head(s) = "unlist" /\ Tail(s) = <<"fail">>
    /\ \A s : s = <<"trip">> => s # <<>> /\ Head(s) = "trip" /\ Tail(s) = <<>>
    /\ \A s : s = <<"mark">> => s # <<>> /\ Head(s) = "mark" /\ Tail(s) = <<>>
<1>1. \A s : s = <<"new", "record", "send">> => s # <<>> /\ Head(s) = "new" /\ Tail(s) = <<"record", "send">>
  OBVIOUS
<1>2. \A s : s = <<"record", "send">> => s # <<>> /\ Head(s) = "record" /\ Tail(s) = <<"send">>
  OBVIOUS
<1>3. \A s : s = <<"send">> => s # <<>> /\ Head(s) = "send" /\ Tail(s) = <<>>
  OBVIOUS
<1>4. \A s : s = <<"drop", "fail">> => s # <<>> /\ Head(s) = "drop" /\ Tail(s) = <<"fail">>
  OBVIOUS
<1>5. \A s : s = <<"fail">> => s # <<>> /\ Head(s) = "fail" /\ Tail(s) = <<>>
  OBVIOUS
<1>6. \A s : s = <<"new", "record", "send", "key">> => s # <<>> /\ Head(s) = "new" /\ Tail(s) = <<"record", "send", "key">>
  OBVIOUS
<1>7. \A s : s = <<"record", "send", "key">> => s # <<>> /\ Head(s) = "record" /\ Tail(s) = <<"send", "key">>
  OBVIOUS
<1>8. \A s : s = <<"send", "key">> => s # <<>> /\ Head(s) = "send" /\ Tail(s) = <<"key">>
  OBVIOUS
<1>9. \A s : s = <<"drop", "fail", "key">> => s # <<>> /\ Head(s) = "drop" /\ Tail(s) = <<"fail", "key">>
  OBVIOUS
<1>10. \A s : s = <<"fail", "key">> => s # <<>> /\ Head(s) = "fail" /\ Tail(s) = <<"key">>
  OBVIOUS
<1>11. \A s : s = <<"key">> => s # <<>> /\ Head(s) = "key" /\ Tail(s) = <<>>
  OBVIOUS
<1>12. \A s : s = <<"prev", "new", "record", "send", "key">> => s # <<>> /\ Head(s) = "prev" /\ Tail(s) = <<"new", "record", "send", "key">>
  OBVIOUS
<1>13. \A s : s = <<"trip", "new", "record", "send", "key">> => s # <<>> /\ Head(s) = "trip" /\ Tail(s) = <<"new", "record", "send", "key">>
  OBVIOUS
<1>14. \A s : s = <<"mark", "new", "record", "send", "key">> => s # <<>> /\ Head(s) = "mark" /\ Tail(s) = <<"new", "record", "send", "key">>
  OBVIOUS
<1>15. \A s : s = <<"find", "new", "record", "key", "send">> => s # <<>> /\ Head(s) = "find" /\ Tail(s) = <<"new", "record", "key", "send">>
  OBVIOUS
<1>16. \A s : s = <<"state", "new", "record", "key", "send">> => s # <<>> /\ Head(s) = "state" /\ Tail(s) = <<"new", "record", "key", "send">>
  OBVIOUS
<1>17. \A s : s = <<"unkey", "new", "record", "key", "send">> => s # <<>> /\ Head(s) = "unkey" /\ Tail(s) = <<"new", "record", "key", "send">>
  OBVIOUS
<1>18. \A s : s = <<"new", "record", "key", "send">> => s # <<>> /\ Head(s) = "new" /\ Tail(s) = <<"record", "key", "send">>
  OBVIOUS
<1>19. \A s : s = <<"record", "key", "send">> => s # <<>> /\ Head(s) = "record" /\ Tail(s) = <<"key", "send">>
  OBVIOUS
<1>20. \A s : s = <<"key", "send">> => s # <<>> /\ Head(s) = "key" /\ Tail(s) = <<"send">>
  OBVIOUS
<1>21. \A s : s = <<"drop", "unlist", "fail">> => s # <<>> /\ Head(s) = "drop" /\ Tail(s) = <<"unlist", "fail">>
  OBVIOUS
<1>22. \A s : s = <<"unlist", "fail">> => s # <<>> /\ Head(s) = "unlist" /\ Tail(s) = <<"fail">>
  OBVIOUS
<1>23. \A s : s = <<"trip">> => s # <<>> /\ Head(s) = "trip" /\ Tail(s) = <<>>
  OBVIOUS
<1>24. \A s : s = <<"mark">> => s # <<>> /\ Head(s) = "mark" /\ Tail(s) = <<>>
  OBVIOUS
<1> QED BY <1>1, <1>2, <1>3, <1>4, <1>5, <1>6, <1>7, <1>8, <1>9, <1>10, <1>11, <1>12, <1>13, <1>14, <1>15, <1>16, <1>17, <1>18, <1>19, <1>20, <1>21, <1>22, <1>23, <1>24

LEMMA AtPrev ==
  ASSUME NEW kind, NEW s, CallTodo(kind, s), s # <<>>, Head(s) = "prev"
  PROVE  kind = "unique" /\ s = <<"prev", "new", "record", "send", "key">>
  BY Sections DEF CallTodo, PlainTodos, OnceTodos, UniqueTodos, ProgressTodos

LEMMA AtTrip ==
  ASSUME NEW kind, NEW s, CallTodo(kind, s), s # <<>>, Head(s) = "trip"
  PROVE  \/ kind = "unique" /\ s = <<"trip", "new", "record", "send", "key">>
         \/ kind = "none" /\ s = <<"trip">>
  BY Sections DEF CallTodo, PlainTodos, OnceTodos, UniqueTodos, ProgressTodos

LEMMA AtMark ==
  ASSUME NEW kind, NEW s, CallTodo(kind, s), s # <<>>, Head(s) = "mark"
  PROVE  \/ kind = "unique" /\ s = <<"mark", "new", "record", "send", "key">>
         \/ kind = "none" /\ s = <<"mark">>
  BY Sections DEF CallTodo, PlainTodos, OnceTodos, UniqueTodos, ProgressTodos

LEMMA AtFind ==
  ASSUME NEW kind, NEW s, CallTodo(kind, s), s # <<>>, Head(s) = "find"
  PROVE  kind = "progress" /\ s = <<"find", "new", "record", "key", "send">>
  BY Sections DEF CallTodo, PlainTodos, OnceTodos, UniqueTodos, ProgressTodos

LEMMA AtState ==
  ASSUME NEW kind, NEW s, CallTodo(kind, s), s # <<>>, Head(s) = "state"
  PROVE  kind = "progress" /\ s = <<"state", "new", "record", "key", "send">>
  BY Sections DEF CallTodo, PlainTodos, OnceTodos, UniqueTodos, ProgressTodos

LEMMA AtUnkey ==
  ASSUME NEW kind, NEW s, CallTodo(kind, s), s # <<>>, Head(s) = "unkey"
  PROVE  kind = "progress" /\ s = <<"unkey", "new", "record", "key", "send">>
  BY Sections DEF CallTodo, PlainTodos, OnceTodos, UniqueTodos, ProgressTodos

LEMMA AtNew ==
  ASSUME NEW kind, NEW s, CallTodo(kind, s), s # <<>>, Head(s) = "new"
  PROVE  \/ kind \in Plain /\ s = <<"new", "record", "send">>
         \/ kind \in {"once", "unique"} /\ s = <<"new", "record", "send", "key">>
         \/ kind = "progress" /\ s = <<"new", "record", "key", "send">>
  BY Sections DEF CallTodo, PlainTodos, OnceTodos, UniqueTodos, ProgressTodos

LEMMA AtRecord ==
  ASSUME NEW kind, NEW s, CallTodo(kind, s), s # <<>>, Head(s) = "record"
  PROVE  \/ kind \in Plain /\ s = <<"record", "send">>
         \/ kind \in {"once", "unique"} /\ s = <<"record", "send", "key">>
         \/ kind = "progress" /\ s = <<"record", "key", "send">>
  BY Sections DEF CallTodo, PlainTodos, OnceTodos, UniqueTodos, ProgressTodos

LEMMA AtSend ==
  ASSUME NEW kind, NEW s, CallTodo(kind, s), s # <<>>, Head(s) = "send"
  PROVE  \/ kind \in Plain /\ s = <<"send">>
         \/ kind \in {"once", "unique"} /\ s = <<"send", "key">>
         \/ kind = "progress" /\ s = <<"send">>
  BY Sections DEF CallTodo, PlainTodos, OnceTodos, UniqueTodos, ProgressTodos

LEMMA AtDrop ==
  ASSUME NEW kind, NEW s, CallTodo(kind, s), s # <<>>, Head(s) = "drop"
  PROVE  \/ kind \in Plain /\ s = <<"drop", "fail">>
         \/ kind \in {"once", "unique"} /\ s = <<"drop", "fail", "key">>
         \/ kind = "progress" /\ s = <<"drop", "unlist", "fail">>
  BY Sections DEF CallTodo, PlainTodos, OnceTodos, UniqueTodos, ProgressTodos

LEMMA AtUnlist ==
  ASSUME NEW kind, NEW s, CallTodo(kind, s), s # <<>>, Head(s) = "unlist"
  PROVE  kind = "progress" /\ s = <<"unlist", "fail">>
  BY Sections DEF CallTodo, PlainTodos, OnceTodos, UniqueTodos, ProgressTodos

LEMMA AtFail ==
  ASSUME NEW kind, NEW s, CallTodo(kind, s), s # <<>>, Head(s) = "fail"
  PROVE  \/ kind \in Plain /\ s = <<"fail">>
         \/ kind \in {"once", "unique"} /\ s = <<"fail", "key">>
         \/ kind = "progress" /\ s = <<"fail">>
  BY Sections DEF CallTodo, PlainTodos, OnceTodos, UniqueTodos, ProgressTodos

LEMMA AtKey ==
  ASSUME NEW kind, NEW s, CallTodo(kind, s), s # <<>>, Head(s) = "key"
  PROVE  \/ kind \in {"once", "unique"} /\ s = <<"key">>
         \/ kind = "progress" /\ s = <<"key", "send">>
  BY Sections DEF CallTodo, PlainTodos, OnceTodos, UniqueTodos, ProgressTodos

LEMMA JoinedFive ==
  ASSUME NEW a, NEW b, NEW c, NEW d, NEW e
  PROVE  <<a>> \o <<b, c, d, e>> = <<a, b, c, d, e>>
<1> DEFINE S == {a, b, c, d, e}
           u == <<a>>
           v == <<b, c, d, e>>
           r == u \o v
           w == <<a, b, c, d, e>>
<1>1. /\ u \in Seq(S) /\ Len(u) = 1 /\ u[1] = a
      /\ v \in Seq(S) /\ Len(v) = 4 /\ v[1] = b /\ v[2] = c /\ v[3] = d /\ v[4] = e
      /\ w \in Seq(S) /\ Len(w) = 5 /\ w[1] = a /\ w[2] = b /\ w[3] = c /\ w[4] = d /\ w[5] = e
  OBVIOUS
<1> HIDE DEF u, v, w, S
<1>2. r \in Seq(S) /\ Len(r) = Len(u) + Len(v)
      /\ \A k \in 1 .. Len(u) + Len(v) : r[k] = IF k <= Len(u) THEN u[k] ELSE v[k - Len(u)]
  BY <1>1, ConcatProperties
<1> HIDE DEF r
<1>3. \A k \in 1 .. Len(r) : r[k] = w[k]
  <2>1. Len(u) + Len(v) = 5 /\ Len(r) = 5
    BY <1>1, <1>2
  <2>2. \A k \in 1 .. 5 : r[k] = IF k <= 1 THEN u[k] ELSE v[k - 1]
    BY <1>1, <1>2, <2>1
  <2>3. r[1] = u[1] /\ r[2] = v[1] /\ r[3] = v[2] /\ r[4] = v[3] /\ r[5] = v[4]
    BY <2>2
  <2>4. \A k \in 1 .. 5 : k \in {1, 2, 3, 4, 5}
    OBVIOUS
  <2> QED BY <1>1, <2>1, <2>3, <2>4
<1>4. r \in Seq(S) /\ w \in Seq(S) /\ Len(r) = Len(w)
  BY <1>1, <1>2
<1>5. r = w
  BY <1>3, <1>4, SeqEqual
<1> QED BY <1>5 DEF r, u, v, w

LEMMA JoinedThree ==
  ASSUME NEW a, NEW b, NEW c
  PROVE  <<a, b>> \o <<c>> = <<a, b, c>>
<1> DEFINE S == {a, b, c}
           u == <<a, b>>
           v == <<c>>
           r == u \o v
           w == <<a, b, c>>
<1>1. /\ u \in Seq(S) /\ Len(u) = 2 /\ u[1] = a /\ u[2] = b
      /\ v \in Seq(S) /\ Len(v) = 1 /\ v[1] = c
      /\ w \in Seq(S) /\ Len(w) = 3 /\ w[1] = a /\ w[2] = b /\ w[3] = c
  OBVIOUS
<1> HIDE DEF u, v, w, S
<1>2. r \in Seq(S) /\ Len(r) = Len(u) + Len(v)
      /\ \A k \in 1 .. Len(u) + Len(v) : r[k] = IF k <= Len(u) THEN u[k] ELSE v[k - Len(u)]
  BY <1>1, ConcatProperties
<1> HIDE DEF r
<1>3. \A k \in 1 .. Len(r) : r[k] = w[k]
  <2>1. Len(u) + Len(v) = 3 /\ Len(r) = 3
    BY <1>1, <1>2
  <2>2. \A k \in 1 .. 3 : r[k] = IF k <= 2 THEN u[k] ELSE v[k - 2]
    BY <1>1, <1>2, <2>1
  <2>3. r[1] = u[1] /\ r[2] = u[2] /\ r[3] = v[1]
    BY <2>2
  <2>4. \A k \in 1 .. 3 : k \in {1, 2, 3}
    OBVIOUS
  <2> QED BY <1>1, <2>1, <2>3, <2>4
<1>4. r \in Seq(S) /\ w \in Seq(S) /\ Len(r) = Len(w)
  BY <1>1, <1>2
<1>5. r = w
  BY <1>3, <1>4, SeqEqual
<1> QED BY <1>5 DEF r, u, v, w

LEMMA JoinedFour ==
  ASSUME NEW a, NEW b, NEW c, NEW d
  PROVE  <<a, b, c>> \o <<d>> = <<a, b, c, d>>
<1> DEFINE S == {a, b, c, d}
           u == <<a, b, c>>
           v == <<d>>
           r == u \o v
           w == <<a, b, c, d>>
<1>1. /\ u \in Seq(S) /\ Len(u) = 3 /\ u[1] = a /\ u[2] = b /\ u[3] = c
      /\ v \in Seq(S) /\ Len(v) = 1 /\ v[1] = d
      /\ w \in Seq(S) /\ Len(w) = 4 /\ w[1] = a /\ w[2] = b /\ w[3] = c /\ w[4] = d
  OBVIOUS
<1> HIDE DEF u, v, w, S
<1>2. r \in Seq(S) /\ Len(r) = Len(u) + Len(v)
      /\ \A k \in 1 .. Len(u) + Len(v) : r[k] = IF k <= Len(u) THEN u[k] ELSE v[k - Len(u)]
  BY <1>1, ConcatProperties
<1> HIDE DEF r
<1>3. \A k \in 1 .. Len(r) : r[k] = w[k]
  <2>1. Len(u) + Len(v) = 4 /\ Len(r) = 4
    BY <1>1, <1>2
  <2>2. \A k \in 1 .. 4 : r[k] = IF k <= 3 THEN u[k] ELSE v[k - 3]
    BY <1>1, <1>2, <2>1
  <2>3. r[1] = u[1] /\ r[2] = u[2] /\ r[3] = u[3] /\ r[4] = v[1]
    BY <2>2
  <2>4. \A k \in 1 .. 4 : k \in {1, 2, 3, 4}
    OBVIOUS
  <2> QED BY <1>1, <2>1, <2>3, <2>4
<1>4. r \in Seq(S) /\ w \in Seq(S) /\ Len(r) = Len(w)
  BY <1>1, <1>2
<1>5. r = w
  BY <1>3, <1>4, SeqEqual
<1> QED BY <1>5 DEF r, u, v, w

LEMMA JoinedEmpty ==
  ASSUME NEW a, NEW b, NEW c, NEW d
  PROVE  /\ <<>> \o <<a, b, c, d>> = <<a, b, c, d>>
         /\ <<a>> \o <<>> = <<a>>
         /\ <<a, b>> \o <<>> = <<a, b>>
         /\ <<a, b, c>> \o <<>> = <<a, b, c>>
<1> DEFINE S == {a, b, c, d}
<1>1. <<a>> \in Seq(S) /\ <<a, b>> \in Seq(S) /\ <<a, b, c>> \in Seq(S) /\ <<a, b, c, d>> \in Seq(S)
  OBVIOUS
<1> QED BY <1>1, ConcatEmptySeq

LEMMA ClassesApart ==
  /\ \A s \in Asking : s \notin Making /\ s \notin Sending /\ s \notin Failing /\ s # <<"key">>
  /\ \A s \in Making : s \notin Sending /\ s \notin Failing /\ s # <<"key">>
  /\ \A s \in Sending : s \notin Failing /\ s # <<"key">>
  /\ <<"key">> \notin Failing
<1>1. \A s \in Asking : s \notin Making /\ s \notin Sending /\ s \notin Failing /\ s # <<"key">>
  BY DEF Asking, Making, Sending, Failing, UniqueTodos
<1>2. \A s \in Making : s \notin Sending /\ s \notin Failing /\ s # <<"key">>
  BY DEF Making, Sending, Failing
<1>3. \A s \in Sending : s \notin Failing /\ s # <<"key">>
  BY DEF Sending, Failing
<1>4. <<"key">> \notin Failing
  BY DEF Failing
<1> QED BY <1>1, <1>2, <1>3, <1>4

\* Where a call goes on from each section
LEMMA JoinedTodos ==
    /\ \A s : s = <<"new", "record", "send", "key">> => <<"trip">> \o s = <<"trip", "new", "record", "send", "key">>
    /\ \A s : s = <<"new", "record", "send", "key">> => <<"mark">> \o s = <<"mark", "new", "record", "send", "key">>
    /\ \A s : s = <<"new", "record", "send", "key">> => <<>> \o s = <<"new", "record", "send", "key">>
    /\ \A s : s = <<"new", "record", "key", "send">> => <<>> \o s = <<"new", "record", "key", "send">>
    /\ \A s : s = <<"new", "record", "key", "send">> => <<"state">> \o s = <<"state", "new", "record", "key", "send">>
    /\ \A s : s = <<"new", "record", "key", "send">> => <<"unkey">> \o s = <<"unkey", "new", "record", "key", "send">>
    /\ \A s : s = <<>> => <<"mark">> \o s = <<"mark">>
    /\ \A s : s = <<>> => <<"drop", "fail">> \o s = <<"drop", "fail">>
    /\ \A s : s = <<>> => <<"drop", "unlist", "fail">> \o s = <<"drop", "unlist", "fail">>
    /\ \A s : s = <<"key">> => <<"drop", "fail">> \o s = <<"drop", "fail", "key">>
<1>1. <<"trip">> \o <<"new", "record", "send", "key">> = <<"trip", "new", "record", "send", "key">>
  BY JoinedFive
<1>2. <<"mark">> \o <<"new", "record", "send", "key">> = <<"mark", "new", "record", "send", "key">>
  BY JoinedFive
<1>3. <<>> \o <<"new", "record", "send", "key">> = <<"new", "record", "send", "key">>
  BY JoinedEmpty
<1>4. <<>> \o <<"new", "record", "key", "send">> = <<"new", "record", "key", "send">>
  BY JoinedEmpty
<1>5. <<"state">> \o <<"new", "record", "key", "send">> = <<"state", "new", "record", "key", "send">>
  BY JoinedFive
<1>6. <<"unkey">> \o <<"new", "record", "key", "send">> = <<"unkey", "new", "record", "key", "send">>
  BY JoinedFive
<1>7. <<"mark">> \o <<>> = <<"mark">>
  BY JoinedEmpty
<1>8. <<"drop", "fail">> \o <<>> = <<"drop", "fail">>
  BY JoinedEmpty
<1>9. <<"drop", "unlist", "fail">> \o <<>> = <<"drop", "unlist", "fail">>
  BY JoinedEmpty
<1>10. <<"drop", "fail">> \o <<"key">> = <<"drop", "fail", "key">>
  BY JoinedThree
<1> QED BY <1>1, <1>2, <1>3, <1>4, <1>5, <1>6, <1>7, <1>8, <1>9, <1>10

\* There is something left to do
GoodTodo(kind, s) == CallTodo(kind, s) /\ s # <<>> /\ Head(s) # "mark"

LEMMA AfterPrev ==
  ASSUME NEW kind, NEW s, CallTodo(kind, s), s # <<>>, Head(s) = "prev"
  PROVE  /\ kind = "unique" /\ s \in Asking
         /\ GoodTodo(kind, <<>> \o Tail(s)) /\ <<>> \o Tail(s) \in Asking
         /\ GoodTodo(kind, <<"trip">> \o Tail(s)) /\ <<"trip">> \o Tail(s) \in Asking
<1> DEFINE u == <<>> \o Tail(s)
           v == <<"trip">> \o Tail(s)
<1>1. CASE kind = "unique" /\ s = <<"prev", "new", "record", "send", "key">>
  <2>1. Tail(s) = <<"new", "record", "send", "key">>
    BY <1>1
  <2>2. u = <<"new", "record", "send", "key">>
    BY <2>1, JoinedTodos
  <2>3. v = <<"trip", "new", "record", "send", "key">>
    BY <2>1, JoinedTodos
  <2> HIDE DEF u, v
  <2>4. kind = "unique"
    BY <1>1, <2>2, <2>3
  <2>5. s \in Asking
    BY <1>1, <2>2, <2>3 DEF Asking, UniqueTodos
  <2>6. GoodTodo(kind, u)
    BY <1>1, <2>2, <2>3 DEF GoodTodo, CallTodo, UniqueTodos, OnceTodos
  <2>7. u \in Asking
    BY <1>1, <2>2, <2>3 DEF Asking, UniqueTodos
  <2>8. GoodTodo(kind, v)
    BY <1>1, <2>2, <2>3 DEF GoodTodo, CallTodo, UniqueTodos, OnceTodos
  <2>9. v \in Asking
    BY <1>1, <2>2, <2>3 DEF Asking, UniqueTodos
  <2> QED BY <2>4, <2>5, <2>6, <2>7, <2>8, <2>9 DEF u, v
<1> QED BY <1>1, AtPrev DEF Plain

LEMMA AfterTrip ==
  ASSUME NEW kind, NEW s, CallTodo(kind, s), s # <<>>, Head(s) = "trip"
  PROVE  /\ kind \in {"unique", "none"} /\ s \in Asking
         /\ Tail(s) = <<>> \/ (GoodTodo(kind, Tail(s)) /\ Tail(s) \in Asking)
         /\ CallTodo(kind, <<"mark">> \o Tail(s)) /\ <<"mark">> \o Tail(s) \in Asking /\ <<"mark">> \o Tail(s) # <<>>
<1> DEFINE u == Tail(s)
           v == <<"mark">> \o Tail(s)
<1>1. CASE kind = "unique" /\ s = <<"trip", "new", "record", "send", "key">>
  <2>1. Tail(s) = <<"new", "record", "send", "key">>
    BY <1>1
  <2>2. u = <<"new", "record", "send", "key">>
    BY <2>1
  <2>3. v = <<"mark", "new", "record", "send", "key">>
    BY <2>1, JoinedTodos
  <2> HIDE DEF u, v
  <2>4. kind \in {"unique", "none"}
    BY <1>1, <2>2, <2>3
  <2>5. s \in Asking
    BY <1>1, <2>2, <2>3 DEF Asking, UniqueTodos
  <2>6. u = <<>> \/ (GoodTodo(kind, u) /\ u \in Asking)
    BY <1>1, <2>2, <2>3 DEF GoodTodo, CallTodo, UniqueTodos, OnceTodos, Asking
  <2>7. CallTodo(kind, v)
    BY <1>1, <2>2, <2>3 DEF CallTodo, UniqueTodos, OnceTodos
  <2>8. v \in Asking
    BY <1>1, <2>2, <2>3 DEF Asking, UniqueTodos
  <2>9. v # <<>>
    BY <1>1, <2>2, <2>3
  <2> QED BY <2>4, <2>5, <2>6, <2>7, <2>8, <2>9 DEF u, v
<1>2. CASE kind = "none" /\ s = <<"trip">>
  <2>1. Tail(s) = <<>>
    BY <1>2
  <2>2. u = <<>>
    BY <2>1
  <2>3. v = <<"mark">>
    BY <2>1, JoinedTodos
  <2> HIDE DEF u, v
  <2>4. kind \in {"unique", "none"}
    BY <1>2, <2>2, <2>3
  <2>5. s \in Asking
    BY <1>2, <2>2, <2>3 DEF Asking, UniqueTodos
  <2>6. u = <<>> \/ (GoodTodo(kind, u) /\ u \in Asking)
    BY <1>2, <2>2, <2>3 DEF GoodTodo, CallTodo, Asking, UniqueTodos
  <2>7. CallTodo(kind, v)
    BY <1>2, <2>2, <2>3 DEF CallTodo
  <2>8. v \in Asking
    BY <1>2, <2>2, <2>3 DEF Asking, UniqueTodos
  <2>9. v # <<>>
    BY <1>2, <2>2, <2>3
  <2> QED BY <2>4, <2>5, <2>6, <2>7, <2>8, <2>9 DEF u, v
<1> QED BY <1>1, <1>2, AtTrip DEF Plain

LEMMA AfterMark ==
  ASSUME NEW kind, NEW s, CallTodo(kind, s), s # <<>>, Head(s) = "mark"
  PROVE  /\ kind \in {"unique", "none"} /\ s \in Asking
         /\ Tail(s) = <<>> \/ (GoodTodo(kind, Tail(s)) /\ Tail(s) \in Asking)
<1> DEFINE u == Tail(s)
<1>1. CASE kind = "unique" /\ s = <<"mark", "new", "record", "send", "key">>
  <2>1. Tail(s) = <<"new", "record", "send", "key">>
    BY <1>1
  <2>2. u = <<"new", "record", "send", "key">>
    BY <2>1
  <2> HIDE DEF u
  <2>3. kind \in {"unique", "none"}
    BY <1>1, <2>2
  <2>4. s \in Asking
    BY <1>1, <2>2 DEF Asking, UniqueTodos
  <2>5. u = <<>> \/ (GoodTodo(kind, u) /\ u \in Asking)
    BY <1>1, <2>2 DEF GoodTodo, CallTodo, UniqueTodos, OnceTodos, Asking
  <2> QED BY <2>3, <2>4, <2>5 DEF u
<1>2. CASE kind = "none" /\ s = <<"mark">>
  <2>1. Tail(s) = <<>>
    BY <1>2
  <2>2. u = <<>>
    BY <2>1
  <2> HIDE DEF u
  <2>3. kind \in {"unique", "none"}
    BY <1>2, <2>2
  <2>4. s \in Asking
    BY <1>2, <2>2 DEF Asking, UniqueTodos
  <2>5. u = <<>> \/ (GoodTodo(kind, u) /\ u \in Asking)
    BY <1>2, <2>2 DEF GoodTodo, CallTodo, Asking, UniqueTodos
  <2> QED BY <2>3, <2>4, <2>5 DEF u
<1> QED BY <1>1, <1>2, AtMark DEF Plain

LEMMA AfterFind ==
  ASSUME NEW kind, NEW s, CallTodo(kind, s), s # <<>>, Head(s) = "find"
  PROVE  /\ kind = "progress" /\ s \in Asking
         /\ GoodTodo(kind, <<>> \o Tail(s)) /\ <<>> \o Tail(s) \in Asking
         /\ GoodTodo(kind, <<"state">> \o Tail(s)) /\ <<"state">> \o Tail(s) \in Asking
<1> DEFINE u == <<>> \o Tail(s)
           v == <<"state">> \o Tail(s)
<1>1. CASE kind = "progress" /\ s = <<"find", "new", "record", "key", "send">>
  <2>1. Tail(s) = <<"new", "record", "key", "send">>
    BY <1>1
  <2>2. u = <<"new", "record", "key", "send">>
    BY <2>1, JoinedTodos
  <2>3. v = <<"state", "new", "record", "key", "send">>
    BY <2>1, JoinedTodos
  <2> HIDE DEF u, v
  <2>4. kind = "progress"
    BY <1>1, <2>2, <2>3
  <2>5. s \in Asking
    BY <1>1, <2>2, <2>3 DEF Asking, UniqueTodos
  <2>6. GoodTodo(kind, u)
    BY <1>1, <2>2, <2>3 DEF GoodTodo, CallTodo, ProgressTodos
  <2>7. u \in Asking
    BY <1>1, <2>2, <2>3 DEF Asking, UniqueTodos
  <2>8. GoodTodo(kind, v)
    BY <1>1, <2>2, <2>3 DEF GoodTodo, CallTodo, ProgressTodos
  <2>9. v \in Asking
    BY <1>1, <2>2, <2>3 DEF Asking, UniqueTodos
  <2> QED BY <2>4, <2>5, <2>6, <2>7, <2>8, <2>9 DEF u, v
<1> QED BY <1>1, AtFind DEF Plain

LEMMA AfterState ==
  ASSUME NEW kind, NEW s, CallTodo(kind, s), s # <<>>, Head(s) = "state"
  PROVE  /\ kind = "progress" /\ s \in Asking
         /\ GoodTodo(kind, <<"unkey">> \o Tail(s)) /\ <<"unkey">> \o Tail(s) \in Asking
<1> DEFINE v == <<"unkey">> \o Tail(s)
<1>1. CASE kind = "progress" /\ s = <<"state", "new", "record", "key", "send">>
  <2>1. Tail(s) = <<"new", "record", "key", "send">>
    BY <1>1
  <2>2. v = <<"unkey", "new", "record", "key", "send">>
    BY <2>1, JoinedTodos
  <2> HIDE DEF v
  <2>3. kind = "progress"
    BY <1>1, <2>2
  <2>4. s \in Asking
    BY <1>1, <2>2 DEF Asking, UniqueTodos
  <2>5. GoodTodo(kind, v)
    BY <1>1, <2>2 DEF GoodTodo, CallTodo, ProgressTodos
  <2>6. v \in Asking
    BY <1>1, <2>2 DEF Asking, UniqueTodos
  <2> QED BY <2>3, <2>4, <2>5, <2>6 DEF v
<1> QED BY <1>1, AtState DEF Plain

LEMMA AfterUnkey ==
  ASSUME NEW kind, NEW s, CallTodo(kind, s), s # <<>>, Head(s) = "unkey"
  PROVE  /\ kind = "progress" /\ s \in Asking
         /\ GoodTodo(kind, Tail(s)) /\ Tail(s) \in Asking
<1> DEFINE u == Tail(s)
<1>1. CASE kind = "progress" /\ s = <<"unkey", "new", "record", "key", "send">>
  <2>1. Tail(s) = <<"new", "record", "key", "send">>
    BY <1>1
  <2>2. u = <<"new", "record", "key", "send">>
    BY <2>1
  <2> HIDE DEF u
  <2>3. kind = "progress"
    BY <1>1, <2>2
  <2>4. s \in Asking
    BY <1>1, <2>2 DEF Asking, UniqueTodos
  <2>5. GoodTodo(kind, u)
    BY <1>1, <2>2 DEF GoodTodo, CallTodo, ProgressTodos
  <2>6. u \in Asking
    BY <1>1, <2>2 DEF Asking, UniqueTodos
  <2> QED BY <2>3, <2>4, <2>5, <2>6 DEF u
<1> QED BY <1>1, AtUnkey DEF Plain

LEMMA AfterNew ==
  ASSUME NEW kind, NEW s, CallTodo(kind, s), s # <<>>, Head(s) = "new"
  PROVE  /\ kind # "none" /\ s \in Asking
         /\ GoodTodo(kind, Tail(s)) /\ Tail(s) \in Making
<1> DEFINE u == Tail(s)
<1>1. CASE kind \in Plain /\ s = <<"new", "record", "send">>
  <2>1. Tail(s) = <<"record", "send">>
    BY <1>1
  <2>2. u = <<"record", "send">>
    BY <2>1
  <2> HIDE DEF u
  <2>3. kind # "none"
    BY <1>1, <2>2 DEF Plain
  <2>4. s \in Asking
    BY <1>1, <2>2 DEF Asking, UniqueTodos
  <2>5. GoodTodo(kind, u)
    BY <1>1, <2>2 DEF GoodTodo, CallTodo, Plain, PlainTodos
  <2>6. u \in Making
    BY <1>1, <2>2 DEF Making
  <2> QED BY <2>3, <2>4, <2>5, <2>6 DEF u
<1>2. CASE kind \in {"once", "unique"} /\ s = <<"new", "record", "send", "key">>
  <2>1. Tail(s) = <<"record", "send", "key">>
    BY <1>2
  <2>2. u = <<"record", "send", "key">>
    BY <2>1
  <2> HIDE DEF u
  <2>3. kind # "none"
    BY <1>2, <2>2
  <2>4. s \in Asking
    BY <1>2, <2>2 DEF Asking, UniqueTodos
  <2>5. GoodTodo(kind, u)
    BY <1>2, <2>2 DEF GoodTodo, CallTodo, OnceTodos
  <2>6. u \in Making
    BY <1>2, <2>2 DEF Making
  <2> QED BY <2>3, <2>4, <2>5, <2>6 DEF u
<1>3. CASE kind = "progress" /\ s = <<"new", "record", "key", "send">>
  <2>1. Tail(s) = <<"record", "key", "send">>
    BY <1>3
  <2>2. u = <<"record", "key", "send">>
    BY <2>1
  <2> HIDE DEF u
  <2>3. kind # "none"
    BY <1>3, <2>2
  <2>4. s \in Asking
    BY <1>3, <2>2 DEF Asking, UniqueTodos
  <2>5. GoodTodo(kind, u)
    BY <1>3, <2>2 DEF GoodTodo, CallTodo, ProgressTodos
  <2>6. u \in Making
    BY <1>3, <2>2 DEF Making
  <2> QED BY <2>3, <2>4, <2>5, <2>6 DEF u
<1> QED BY <1>1, <1>2, <1>3, AtNew DEF Plain

LEMMA AfterRecord ==
  ASSUME NEW kind, NEW s, CallTodo(kind, s), s # <<>>, Head(s) = "record"
  PROVE  /\ s \in Making
         /\ GoodTodo(kind, Tail(s)) /\ Tail(s) \in Sending
<1> DEFINE u == Tail(s)
<1>1. CASE kind \in Plain /\ s = <<"record", "send">>
  <2>1. Tail(s) = <<"send">>
    BY <1>1
  <2>2. u = <<"send">>
    BY <2>1
  <2> HIDE DEF u
  <2>3. s \in Making
    BY <1>1, <2>2 DEF Making
  <2>4. GoodTodo(kind, u)
    BY <1>1, <2>2 DEF GoodTodo, CallTodo, Plain, PlainTodos
  <2>5. u \in Sending
    BY <1>1, <2>2 DEF Sending
  <2> QED BY <2>3, <2>4, <2>5 DEF u
<1>2. CASE kind \in {"once", "unique"} /\ s = <<"record", "send", "key">>
  <2>1. Tail(s) = <<"send", "key">>
    BY <1>2
  <2>2. u = <<"send", "key">>
    BY <2>1
  <2> HIDE DEF u
  <2>3. s \in Making
    BY <1>2, <2>2 DEF Making
  <2>4. GoodTodo(kind, u)
    BY <1>2, <2>2 DEF GoodTodo, CallTodo, OnceTodos
  <2>5. u \in Sending
    BY <1>2, <2>2 DEF Sending
  <2> QED BY <2>3, <2>4, <2>5 DEF u
<1>3. CASE kind = "progress" /\ s = <<"record", "key", "send">>
  <2>1. Tail(s) = <<"key", "send">>
    BY <1>3
  <2>2. u = <<"key", "send">>
    BY <2>1
  <2> HIDE DEF u
  <2>3. s \in Making
    BY <1>3, <2>2 DEF Making
  <2>4. GoodTodo(kind, u)
    BY <1>3, <2>2 DEF GoodTodo, CallTodo, ProgressTodos
  <2>5. u \in Sending
    BY <1>3, <2>2 DEF Sending
  <2> QED BY <2>3, <2>4, <2>5 DEF u
<1> QED BY <1>1, <1>2, <1>3, AtRecord DEF Plain

LEMMA AfterSend ==
  ASSUME NEW kind, NEW s, CallTodo(kind, s), s # <<>>, Head(s) = "send"
  PROVE  /\ s \in Sending
         /\ \/ Tail(s) = <<>> /\ kind # "once"
            \/ Tail(s) = <<"key">> /\ GoodTodo(kind, Tail(s))
         /\ LET f == (IF kind = "progress" THEN <<"drop", "unlist", "fail">> ELSE <<"drop", "fail">>) \o Tail(s)
            IN  GoodTodo(kind, f) /\ f \in Failing
<1> DEFINE u == Tail(s)
           f == (IF kind = "progress" THEN <<"drop", "unlist", "fail">> ELSE <<"drop", "fail">>) \o Tail(s)
<1>1. CASE kind \in Plain /\ s = <<"send">>
  <2>1. Tail(s) = <<>>
    BY <1>1
  <2>2. u = <<>>
    BY <2>1
  <2>3. f = <<"drop", "fail">>
    BY <1>1, <2>1, JoinedTodos DEF Plain
  <2> HIDE DEF u, f
  <2>4. s \in Sending
    BY <1>1 DEF Sending
  <2>5. \/ u = <<>> /\ kind # "once"
        \/ u = <<"key">> /\ GoodTodo(kind, u)
    BY <1>1, <2>2 DEF Plain, CallTodo, OnceTodos, GoodTodo
  <2>6. GoodTodo(kind, f) /\ f \in Failing
    BY <1>1, <2>3 DEF CallTodo, PlainTodos, OnceTodos, ProgressTodos, Failing, GoodTodo
  <2> QED BY <2>4, <2>5, <2>6 DEF u, f
<1>2. CASE kind \in {"once", "unique"} /\ s = <<"send", "key">>
  <2>1. Tail(s) = <<"key">>
    BY <1>2
  <2>2. u = <<"key">>
    BY <2>1
  <2>3. f = <<"drop", "fail", "key">>
    BY <1>2, <2>1, JoinedTodos DEF Plain
  <2> HIDE DEF u, f
  <2>4. s \in Sending
    BY <1>2 DEF Sending
  <2>5. \/ u = <<>> /\ kind # "once"
        \/ u = <<"key">> /\ GoodTodo(kind, u)
    BY <1>2, <2>2 DEF Plain, CallTodo, OnceTodos, GoodTodo
  <2>6. GoodTodo(kind, f) /\ f \in Failing
    BY <1>2, <2>3 DEF CallTodo, PlainTodos, OnceTodos, ProgressTodos, Failing, GoodTodo
  <2> QED BY <2>4, <2>5, <2>6 DEF u, f
<1>3. CASE kind = "progress" /\ s = <<"send">>
  <2>1. Tail(s) = <<>>
    BY <1>3
  <2>2. u = <<>>
    BY <2>1
  <2>3. f = <<"drop", "unlist", "fail">>
    BY <1>3, <2>1, JoinedTodos DEF Plain
  <2> HIDE DEF u, f
  <2>4. s \in Sending
    BY <1>3 DEF Sending
  <2>5. \/ u = <<>> /\ kind # "once"
        \/ u = <<"key">> /\ GoodTodo(kind, u)
    BY <1>3, <2>2 DEF Plain, CallTodo, OnceTodos, GoodTodo
  <2>6. GoodTodo(kind, f) /\ f \in Failing
    BY <1>3, <2>3 DEF CallTodo, PlainTodos, OnceTodos, ProgressTodos, Failing, GoodTodo
  <2> QED BY <2>4, <2>5, <2>6 DEF u, f
<1> QED BY <1>1, <1>2, <1>3, AtSend

LEMMA AfterDrop ==
  ASSUME NEW kind, NEW s, CallTodo(kind, s), s # <<>>, Head(s) = "drop"
  PROVE  /\ s \in Failing
         /\ GoodTodo(kind, Tail(s)) /\ Tail(s) \in Failing
<1> DEFINE u == Tail(s)
<1>1. CASE kind \in Plain /\ s = <<"drop", "fail">>
  <2>1. Tail(s) = <<"fail">>
    BY <1>1
  <2>2. u = <<"fail">>
    BY <2>1
  <2> HIDE DEF u
  <2>3. s \in Failing
    BY <1>1, <2>2 DEF Failing
  <2>4. GoodTodo(kind, u)
    BY <1>1, <2>2 DEF GoodTodo, CallTodo, Plain, PlainTodos
  <2>5. u \in Failing
    BY <1>1, <2>2 DEF Failing
  <2> QED BY <2>3, <2>4, <2>5 DEF u
<1>2. CASE kind \in {"once", "unique"} /\ s = <<"drop", "fail", "key">>
  <2>1. Tail(s) = <<"fail", "key">>
    BY <1>2
  <2>2. u = <<"fail", "key">>
    BY <2>1
  <2> HIDE DEF u
  <2>3. s \in Failing
    BY <1>2, <2>2 DEF Failing
  <2>4. GoodTodo(kind, u)
    BY <1>2, <2>2 DEF GoodTodo, CallTodo, OnceTodos
  <2>5. u \in Failing
    BY <1>2, <2>2 DEF Failing
  <2> QED BY <2>3, <2>4, <2>5 DEF u
<1>3. CASE kind = "progress" /\ s = <<"drop", "unlist", "fail">>
  <2>1. Tail(s) = <<"unlist", "fail">>
    BY <1>3
  <2>2. u = <<"unlist", "fail">>
    BY <2>1
  <2> HIDE DEF u
  <2>3. s \in Failing
    BY <1>3, <2>2 DEF Failing
  <2>4. GoodTodo(kind, u)
    BY <1>3, <2>2 DEF GoodTodo, CallTodo, ProgressTodos
  <2>5. u \in Failing
    BY <1>3, <2>2 DEF Failing
  <2> QED BY <2>3, <2>4, <2>5 DEF u
<1> QED BY <1>1, <1>2, <1>3, AtDrop DEF Plain

LEMMA AfterUnlist ==
  ASSUME NEW kind, NEW s, CallTodo(kind, s), s # <<>>, Head(s) = "unlist"
  PROVE  /\ s \in Failing
         /\ GoodTodo(kind, Tail(s)) /\ Tail(s) \in Failing
<1> DEFINE u == Tail(s)
<1>1. CASE kind = "progress" /\ s = <<"unlist", "fail">>
  <2>1. Tail(s) = <<"fail">>
    BY <1>1
  <2>2. u = <<"fail">>
    BY <2>1
  <2> HIDE DEF u
  <2>3. s \in Failing
    BY <1>1, <2>2 DEF Failing
  <2>4. GoodTodo(kind, u)
    BY <1>1, <2>2 DEF GoodTodo, CallTodo, ProgressTodos
  <2>5. u \in Failing
    BY <1>1, <2>2 DEF Failing
  <2> QED BY <2>3, <2>4, <2>5 DEF u
<1> QED BY <1>1, AtUnlist DEF Plain

LEMMA AfterFail ==
  ASSUME NEW kind, NEW s, CallTodo(kind, s), s # <<>>, Head(s) = "fail"
  PROVE  /\ s \in Failing
         /\ \/ Tail(s) = <<>> /\ kind # "once"
            \/ Tail(s) = <<"key">> /\ GoodTodo(kind, Tail(s))
<1> DEFINE u == Tail(s)
<1>1. CASE kind \in Plain /\ s = <<"fail">>
  <2>1. Tail(s) = <<>>
    BY <1>1
  <2>2. u = <<>>
    BY <2>1
  <2> HIDE DEF u
  <2>3. s \in Failing
    BY <1>1, <2>2 DEF Failing
  <2>4. 
        \/ u = <<>> /\ kind # "once"
        \/ u = <<"key">> /\ GoodTodo(kind, u)
    BY <1>1, <2>2 DEF Plain
  <2> QED BY <2>3, <2>4 DEF u
<1>2. CASE kind \in {"once", "unique"} /\ s = <<"fail", "key">>
  <2>1. Tail(s) = <<"key">>
    BY <1>2
  <2>2. u = <<"key">>
    BY <2>1
  <2> HIDE DEF u
  <2>3. s \in Failing
    BY <1>2, <2>2 DEF Failing
  <2>4. 
        \/ u = <<>> /\ kind # "once"
        \/ u = <<"key">> /\ GoodTodo(kind, u)
    BY <1>2, <2>2 DEF GoodTodo, CallTodo, OnceTodos
  <2> QED BY <2>3, <2>4 DEF u
<1>3. CASE kind = "progress" /\ s = <<"fail">>
  <2>1. Tail(s) = <<>>
    BY <1>3
  <2>2. u = <<>>
    BY <2>1
  <2> HIDE DEF u
  <2>3. s \in Failing
    BY <1>3, <2>2 DEF Failing
  <2>4. 
        \/ u = <<>> /\ kind # "once"
        \/ u = <<"key">> /\ GoodTodo(kind, u)
    BY <1>3, <2>2
  <2> QED BY <2>3, <2>4 DEF u
<1> QED BY <1>1, <1>2, <1>3, AtFail DEF Plain

LEMMA AfterKey ==
  ASSUME NEW kind, NEW s, CallTodo(kind, s), s # <<>>, Head(s) = "key"
  PROVE  /\ \/ kind \in {"once", "unique"} /\ s = <<"key">> /\ Tail(s) = <<>>
            \/ kind = "progress" /\ s \in Sending /\ Tail(s) \in Sending /\ GoodTodo(kind, Tail(s))
<1> DEFINE u == Tail(s)
<1>1. CASE kind \in {"once", "unique"} /\ s = <<"key">>
  <2>1. Tail(s) = <<>>
    BY <1>1
  <2>2. u = <<>>
    BY <2>1
  <2> HIDE DEF u
  <2>3. 
        \/ kind \in {"once", "unique"} /\ s = <<"key">> /\ u = <<>>
        \/ kind = "progress" /\ s \in Sending /\ u \in Sending /\ GoodTodo(kind, u)
    BY <1>1, <2>2
  <2> QED BY <2>3 DEF u
<1>2. CASE kind = "progress" /\ s = <<"key", "send">>
  <2>1. Tail(s) = <<"send">>
    BY <1>2
  <2>2. u = <<"send">>
    BY <2>1
  <2> HIDE DEF u
  <2>3. 
        \/ kind \in {"once", "unique"} /\ s = <<"key">> /\ u = <<>>
        \/ kind = "progress" /\ s \in Sending /\ u \in Sending /\ GoodTodo(kind, u)
    BY <1>2, <2>2 DEF GoodTodo, CallTodo, ProgressTodos, Sending
  <2> QED BY <2>3 DEF u
<1> QED BY <1>1, <1>2, AtKey DEF Plain

-----------------------------------------------------------------------------
(* Changes of the registry. *)

SameBut(i) ==
    /\ reg' \in Regs /\ reg'.tripped = reg.tripped /\ reg'.holder = reg.holder
    /\ \A j \in Task \ {i} : reg'.state[j] = reg.state[j] /\ (j \in reg'.tokens <=> j \in reg.tokens)
    /\ reg'.keys["once"] = reg.keys["once"] \/ reg.keys["once"] = i

LEMMA DropTokenChanges ==
  ASSUME reg \in Regs, NEW i, DropToken(i)
  PROVE  SameBut(i)
  BY DEF DropToken, SameBut, Regs

LEMMA ForgetKeyChanges ==
  ASSUME reg \in Regs, NEW i, ForgetKey(i)
  PROVE  SameBut(i)
<1>1. /\ reg'.keys = [k \in Key |-> IF reg.keys[k] = i THEN 0 ELSE reg.keys[k]]
      /\ reg' \in Regs
      /\ reg'.tripped = reg.tripped /\ reg'.holder = reg.holder
      /\ reg'.state = reg.state /\ reg'.tokens = reg.tokens
  BY DEF ForgetKey, Regs
<1>2. "once" \in Key
  BY DEF Key
<1> QED BY <1>1, <1>2 DEF SameBut

LEMMA SettleChanges ==
  ASSUME reg \in Regs, NEW i \in Task, NEW s \in States, Settle(i, s)
  PROVE  /\ SameBut(i) /\ reg'.tokens = reg.tokens /\ reg'.keys = reg.keys
         /\ \A j \in Task \ {i} : reg'.state[j] = reg.state[j]
<1> DEFINE v == IF reg.state[i] = "none" THEN "none" ELSE s
<1>1. v \in States
  BY DEF States
<1>2. reg' = [reg EXCEPT !.state[i] = v]
  BY DEF Settle, Regs
<1> HIDE DEF v
<1> QED BY <1>1, <1>2 DEF SameBut, Regs

LEMMA SetCancelledChanges ==
  ASSUME reg \in Regs, NEW i \in Task, SetCancelled(i)
  PROVE  /\ SameBut(i) /\ reg'.tokens = reg.tokens /\ reg'.keys = reg.keys
         /\ \A j \in Task \ {i} : reg'.state[j] = reg.state[j]
<1>1. CASE Running(i)
  BY <1>1, SettleChanges DEF SetCancelled, States
<1>2. CASE ~Running(i)
  BY <1>2 DEF SetCancelled, SameBut
<1> QED BY <1>1, <1>2

\* Only records that are not running are trimmed
LEMMA TrimmedEnded ==
  ASSUME NEW recs, NEW i \in Trimmed(recs)
  PROVE  recs[i] # "running"
  BY DEF Trimmed

LEMMA RegTrips ==
  ASSUME reg \in Regs, NEW s \in SUBSET Task, reg' = [reg EXCEPT !.tripped = @ \cup s]
  PROVE  /\ reg' \in Regs /\ reg'.tripped = reg.tripped \cup s
         /\ reg'.state = reg.state /\ reg'.tokens = reg.tokens /\ reg'.keys = reg.keys
         /\ reg'.holder = reg.holder
  BY DEF Regs

-----------------------------------------------------------------------------
(* Steps of a caller. *)

LEMMA PendingFinite ==
  ASSUME NEW S \in SUBSET Caller
  PROVE  IsFiniteSet(S) /\ Cardinality(S) \in Nat
  BY TaskCallers, FS_Subset, FS_CardinalityType

LEMMA PendingShrinks ==
  ASSUME TypeOK, RoomInv, Pending' \subseteq Pending, tasks' = tasks
  PROVE  RoomInv'
<1> DEFINE p == Cardinality(Pending)
           q == Cardinality(Pending)'
           l == Len(tasks)
<1>1. p \in Nat /\ q \in Nat /\ q <= p
  BY PendingFinite, FS_Subset, TaskCallers DEF Pending
<1>2. l \in Nat /\ Len(tasks)' = l /\ MaxTask \in Nat
  BY LenProperties, TaskBounds DEF TypeOK
<1>3. l + p <= MaxTask
  BY DEF RoomInv
<1> HIDE DEF p, q, l
<1>4. l + q <= MaxTask
  BY <1>1, <1>2, <1>3
<1> QED BY <1>2, <1>4 DEF q, RoomInv

\* A caller that has no task yet, or is about to cancel one, goes on in the same way
LEMMA AskingMoves ==
  ASSUME TaskInv, NEW c \in Caller, NEW y \in Callers, caller' = [caller EXCEPT ![c] = y],
         caller[c].id = 0, y.id = 0, CallOK(y, tasks, reg'.tripped),
         y.kind \in {"none", caller[c].kind}, caller[c].kind = "once" => y.kind = "once",
         reg' \in Regs, reg'.tokens = reg.tokens, reg.tripped \subseteq reg'.tripped,
         \A i \in Task : reg'.state[i] = reg.state[i] \/ i \in reg'.tripped,
         reg'.keys["once"] = reg.keys["once"], reg'.holder = reg.holder,
         UNCHANGED <<tasks, running, shutdown>>
  PROVE  TaskInv'
<1>1. /\ caller'[c] = y
      /\ \A d \in Caller : d # c => caller'[d] = caller[d]
      /\ \A d \in Caller : caller'[d].id = caller[d].id
      /\ \A d \in Caller : caller'[d].kind \in {"none", caller[d].kind}
      /\ \A d \in Caller : caller'[d].kind = "once" <=> caller[d].kind = "once"
  BY DEF TaskInv, TypeOK
<1>2. /\ calls' = calls /\ channel' = channel /\ joinSet' = joinSet /\ supervisor' = supervisor
      /\ tasks' = tasks /\ shutdown' = shutdown
  BY DEF running
<1>3. /\ caller[c].todo \in Asking /\ y.todo \in Asking
  BY DEF TaskInv, CallInv, CallOK
<1>4. \A d \in Caller :
        /\ caller'[d].todo \in Making => d # c /\ caller[d].todo \in Making
        /\ caller'[d].todo \in Sending => d # c /\ caller[d].todo \in Sending
        /\ caller'[d].todo \in Failing => d # c /\ caller[d].todo \in Failing
        /\ caller[d].todo = <<"key">> => d # c /\ caller'[d].todo = <<"key">>
  BY <1>1, <1>3, ClassesApart
<1>5. \A i : (InChannel(i)' <=> InChannel(i)) /\ (Placed(i)' <=> Placed(i)) /\ (Live(i)' <=> Live(i))
  BY <1>2 DEF InChannel, Placed, Live
<1>6. \A i \in Task : Fit(i) => Fit(i)'
  BY DEF Fit
<1>7. TypeOK'
  BY <1>2 DEF TaskInv, TypeOK
<1>8. CallInv'
  BY <1>1, <1>2 DEF TaskInv, CallInv, CallOK
<1>9. RoomInv'
  <2>1. Pending' \subseteq Pending
    BY <1>1 DEF Pending
  <2> QED BY <1>2, <2>1, PendingShrinks DEF TaskInv
<1>10. PlaceInv'
  BY <1>1, <1>2, <1>4, <1>5 DEF TaskInv, PlaceInv
<1>11. ChannelInv'
  BY <1>2 DEF TaskInv, ChannelInv
<1>12. SupervisorInv'
  BY <1>1, <1>2, <1>4, <1>5 DEF TaskInv, SupervisorInv
<1>13. FitInv'
  <2>1. \A d \in Caller : caller[d].id \in Task \cup {0} /\ (d # c => caller'[d] = caller[d])
    BY <1>1 DEF TaskInv, TypeOK, Callers
  <2>2. \A d \in Caller : caller[d].todo \in Making \cup Sending => caller[d].id \in Task
    BY <2>1, ClassesApart DEF TaskInv, CallInv, CallOK
  <2> QED BY <1>1, <1>2, <1>4, <1>5, <1>6, <2>2 DEF TaskInv, FitInv
<1>14. HoldInv'
  BY <1>1 DEF TaskInv, HoldInv
<1>15. OnceInv'
  <2> SUFFICES ASSUME NEW i \in Task, Live(i), tasks[i] = "once", i \notin reg.tripped
               PROVE  \/ \E d \in Caller : caller'[d].kind = "once" /\ caller'[d].todo = <<"key">> /\ caller'[d].id = i
                      \/ reg'.keys["once"] = i /\ \A d \in Caller : caller'[d].kind # "once"
    BY <1>2, <1>5 DEF OnceInv
  <2>1. CASE \E d \in Caller : caller[d].kind = "once" /\ caller[d].todo = <<"key">> /\ caller[d].id = i
    BY <1>1, <1>4, <2>1
  <2>2. CASE reg.keys["once"] = i /\ \A d \in Caller : caller[d].kind # "once"
    BY <1>1, <2>2
  <2> QED BY <2>1, <2>2 DEF TaskInv, OnceInv
<1> QED
  BY <1>7, <1>8, <1>9, <1>10, <1>11, <1>12, <1>13, <1>14, <1>15 DEF TaskInv

LEMMA IdleTyped == Idle \in Callers /\ Idle.id = 0 /\ Idle.kind = "none" /\ Idle.todo = <<>>
  BY DEF Idle, Callers, Kinds, Todos, Asking

\* A call begins
LEMMA CallBegins ==
  ASSUME TaskInv, NEW c \in Caller, NEW kind \in Key \cup Plain, NEW todo \in Todos,
         Room, caller[c] = Idle, Begin(c, kind, todo),
         CallTodo(kind, todo), todo \in Asking, todo # <<>>, Head(todo) # "mark",
         IF kind = "once"
           THEN reg.holder = {} /\ ~Running(reg.keys["once"]) /\ reg' = [reg EXCEPT !.holder = {c}]
           ELSE reg' = reg,
         UNCHANGED <<tasks, running, shutdown>>
  PROVE  TaskInv'
<1> DEFINE y == [Idle EXCEPT !.kind = kind, !.todo = todo]
<1>1. /\ y.kind = kind /\ y.todo = todo /\ y.id = 0 /\ y \in Callers /\ caller' = [caller EXCEPT ![c] = y]
  <2>1. kind \in Kinds
    BY DEF Kinds
  <2>2. \A me \in Callers :
          LET z == [me EXCEPT !.kind = kind, !.todo = todo]
          IN  z \in Callers /\ z.kind = kind /\ z.todo = todo /\ z.id = me.id
    BY <2>1 DEF Callers
  <2>3. caller' = [caller EXCEPT ![c] = y]
    BY DEF Begin
  <2> QED BY <2>2, <2>3, IdleTyped
<1> HIDE DEF y
<1>2. /\ caller'[c] = y
      /\ \A d \in Caller : d # c => caller'[d] = caller[d]
      /\ \A d \in Caller : caller'[d].id = caller[d].id
      /\ caller[c].todo = <<>> /\ caller[c].kind = "none" /\ caller[c].id = 0
  BY <1>1 DEF TaskInv, TypeOK, Idle
<1>3. /\ calls' = calls /\ channel' = channel /\ joinSet' = joinSet /\ supervisor' = supervisor
      /\ tasks' = tasks /\ shutdown' = shutdown
  BY DEF running
<1>4. /\ reg' \in Regs /\ reg'.tokens = reg.tokens /\ reg'.tripped = reg.tripped
      /\ reg'.state = reg.state /\ reg'.keys = reg.keys
      /\ reg'.holder = IF kind = "once" THEN {c} ELSE reg.holder
  <2>1. reg \in Regs /\ {c} \in SUBSET Caller
    BY DEF TaskInv, TypeOK
  <2>2. CASE kind = "once"
    BY <2>1, <2>2 DEF Regs
  <2>3. CASE kind # "once"
    BY <2>1, <2>3
  <2> QED BY <2>2, <2>3
<1>5. \A d \in Caller :
        /\ caller'[d].todo \in Making => d # c /\ caller[d].todo \in Making
        /\ caller'[d].todo \in Sending => d # c /\ caller[d].todo \in Sending
        /\ caller'[d].todo \in Failing => d # c /\ caller[d].todo \in Failing
        /\ caller[d].todo = <<"key">> => d # c /\ caller'[d].todo = <<"key">>
  BY <1>1, <1>2, ClassesApart
<1>6. \A i : (InChannel(i)' <=> InChannel(i)) /\ (Placed(i)' <=> Placed(i)) /\ (Live(i)' <=> Live(i))
  BY <1>3 DEF InChannel, Placed, Live
<1>7. \A i : Fit(i)' <=> Fit(i)
  BY <1>4 DEF Fit
<1>8. TypeOK'
  BY <1>1, <1>3, <1>4 DEF TaskInv, TypeOK
<1>9. CallInv'
  BY <1>1, <1>2, <1>3, <1>4 DEF TaskInv, CallInv, CallOK
<1>10. RoomInv'
  <2> DEFINE p == Cardinality(Pending)
             l == Len(tasks)
  <2>1. c \notin Pending /\ Pending' = Pending \cup {c}
    BY <1>1, <1>2 DEF Pending, Key, Plain
  <2>2. Cardinality(Pending)' = p + 1
    BY <2>1, PendingFinite, FS_AddElement DEF Pending
  <2>3. p \in Nat /\ l \in Nat /\ Len(tasks)' = l /\ MaxTask \in Nat
    BY <1>3, PendingFinite, LenProperties, TaskBounds DEF Pending, TaskInv, TypeOK
  <2>4. l + p < MaxTask
    BY DEF Room, Pending
  <2> HIDE DEF p, l
  <2>5. l + (p + 1) <= MaxTask
    BY <2>3, <2>4
  <2> QED BY <2>2, <2>3, <2>5 DEF l, RoomInv
<1>11. PlaceInv'
  BY <1>2, <1>3, <1>5, <1>6 DEF TaskInv, PlaceInv
<1>12. ChannelInv'
  BY <1>3 DEF TaskInv, ChannelInv
<1>13. SupervisorInv'
  BY <1>2, <1>3, <1>4, <1>5, <1>6 DEF TaskInv, SupervisorInv
<1>14. FitInv'
  BY <1>2, <1>3, <1>4, <1>5, <1>6, <1>7 DEF TaskInv, FitInv
<1>15. HoldInv'
  <2>1. CASE kind = "once"
    BY <1>1, <1>2, <1>4, <2>1 DEF TaskInv, HoldInv
  <2>2. CASE kind # "once"
    BY <1>1, <1>2, <1>4, <2>2 DEF TaskInv, HoldInv
  <2> QED BY <2>1, <2>2
<1>16. OnceInv'
  <2> SUFFICES ASSUME NEW i \in Task, Live(i), tasks[i] = "once", i \notin reg.tripped
               PROVE  \/ \E d \in Caller : caller'[d].kind = "once" /\ caller'[d].todo = <<"key">> /\ caller'[d].id = i
                      \/ reg'.keys["once"] = i /\ \A d \in Caller : caller'[d].kind # "once"
    BY <1>3, <1>4, <1>6 DEF OnceInv
  <2>1. CASE \E d \in Caller : caller[d].kind = "once" /\ caller[d].todo = <<"key">> /\ caller[d].id = i
    BY <1>2, <1>5, <2>1
  <2>2. CASE reg.keys["once"] = i /\ \A d \in Caller : caller[d].kind # "once"
    <3>1. CASE kind # "once"
      BY <1>1, <1>2, <1>4, <2>2, <3>1
    <3>2. CASE kind = "once"
      <4>1. reg.state[i] = "running"
        BY DEF TaskInv, FitInv, Fit
      <4>2. i # 0
        BY DEF Task
      <4> QED BY <2>2, <3>2, <4>1, <4>2 DEF Running
    <3> QED BY <3>1, <3>2
  <2> QED BY <2>1, <2>2 DEF TaskInv, OnceInv
<1> QED
  BY <1>8, <1>9, <1>10, <1>11, <1>12, <1>13, <1>14, <1>15, <1>16 DEF TaskInv

\* A caller that could not send its task, and those who have sent it, clean up
LEMMA FailingMoves ==
  ASSUME TaskInv, NEW c \in Caller, NEW y \in Callers, caller' = [caller EXCEPT ![c] = y],
         caller[c].todo \in Failing \cup Sending, SameBut(caller[c].id),
         \/ y = Idle /\ caller[c].kind # "once"
         \/ /\ y.id = caller[c].id /\ y.kind = caller[c].kind
            /\ y.todo \in Failing \cup {<<"key">>} /\ GoodTodo(y.kind, y.todo),
         UNCHANGED <<tasks, running, shutdown>>
  PROVE  TaskInv'
<1> DEFINE i == caller[c].id
<1>1. /\ caller'[c] = y
      /\ \A d \in Caller : d # c => caller'[d] = caller[d]
      /\ \A d \in Caller : caller'[d].id \in {0, caller[d].id}
      /\ \A d \in Caller : caller'[d].kind \in {"none", caller[d].kind}
      /\ \A d \in Caller : caller'[d].kind = "once" <=> caller[d].kind = "once"
  BY DEF TaskInv, TypeOK, Idle
<1>2. /\ calls' = calls /\ channel' = channel /\ joinSet' = joinSet /\ supervisor' = supervisor
      /\ tasks' = tasks /\ shutdown' = shutdown
  BY DEF running
<1>3. /\ i \in Task /\ i # 0 /\ ~Placed(i) /\ i <= Len(tasks) /\ tasks[i] = caller[c].kind
  <2>1. i # 0 /\ i \in Task \cup {0}
    BY ClassesApart DEF TaskInv, CallInv, CallOK, TypeOK, Callers
  <2> QED BY <2>1 DEF TaskInv, PlaceInv, CallInv, CallOK
<1>4. y.todo \in Failing \cup {<<"key">>, <<>>} /\ caller[c].todo # <<"key">> /\ <<>> \in Asking
  BY ClassesApart DEF Idle, Asking
<1>5. \A d \in Caller :
        /\ caller'[d].todo \in Making => d # c /\ caller[d].todo \in Making
        /\ caller'[d].todo \in Sending => d # c /\ caller[d].todo \in Sending
        /\ caller'[d].todo \in Failing => caller[d].todo \in Failing \cup Sending /\ caller'[d].id = caller[d].id
        /\ caller[d].todo = <<"key">> => d # c /\ caller'[d].todo = <<"key">>
  BY <1>1, <1>4, ClassesApart DEF Idle
<1>6. \A j : (InChannel(j)' <=> InChannel(j)) /\ (Placed(j)' <=> Placed(j)) /\ (Live(j)' <=> Live(j))
  BY <1>2 DEF InChannel, Placed, Live
<1>7. \A j \in Task \ {i} : Fit(j) => Fit(j)'
  BY DEF Fit, SameBut
<1>8. ~Live(i)
  BY <1>3 DEF Live, Placed
<1>9. TypeOK'
  BY <1>2 DEF TaskInv, TypeOK, SameBut
<1>10. CallInv'
  <2>1. CallOK(y, tasks, reg.tripped)
    <3>1. CASE y = Idle
      BY <3>1, <1>4 DEF CallOK, Idle, CallTodo
    <3>2. CASE y # Idle
      <4>1. y.todo \notin Asking
        BY <3>2, ClassesApart
      <4> QED BY <1>3, <3>2, <4>1 DEF CallOK, GoodTodo
    <3> QED BY <3>1, <3>2
  <2> QED BY <1>1, <1>2, <2>1 DEF TaskInv, CallInv, SameBut
<1>11. RoomInv'
  <2>1. Pending' \subseteq Pending
    BY <1>1, <1>3 DEF Pending, Idle
  <2> QED BY <1>2, <2>1, PendingShrinks DEF TaskInv
<1>12. PlaceInv'
  BY <1>1, <1>2, <1>5, <1>6 DEF TaskInv, PlaceInv
<1>13. ChannelInv'
  BY <1>2 DEF TaskInv, ChannelInv
<1>14. SupervisorInv'
  BY <1>1, <1>2, <1>5, <1>6 DEF TaskInv, SupervisorInv, SameBut
<1>15. FitInv'
  <2>1. \A j \in Task : Live(j)' /\ tasks'[j] # "blocking" => Fit(j)'
    BY <1>2, <1>6, <1>7, <1>8 DEF TaskInv, FitInv
  <2>2. ASSUME NEW d \in Caller, d # c, caller[d].todo \in Making \cup Sending
        PROVE  caller[d].id \in Task \ {i}
    <3>1. caller[d].id \in Task
      BY <2>2, ClassesApart DEF TaskInv, CallInv, CallOK, TypeOK, Callers
    <3>2. caller[d].id # i
      BY <1>3, <2>2 DEF TaskInv, PlaceInv
    <3> QED BY <3>1, <3>2
  <2> QED BY <1>1, <1>2, <1>5, <1>7, <2>1, <2>2 DEF TaskInv, FitInv, SameBut
<1>16. HoldInv'
  BY <1>1 DEF TaskInv, HoldInv, SameBut
<1>17. OnceInv'
  <2> SUFFICES ASSUME NEW j \in Task, Live(j), tasks[j] = "once", j \notin reg.tripped
               PROVE  \/ \E d \in Caller : caller'[d].kind = "once" /\ caller'[d].todo = <<"key">> /\ caller'[d].id = j
                      \/ reg'.keys["once"] = j /\ \A d \in Caller : caller'[d].kind # "once"
    BY <1>2, <1>6 DEF OnceInv, SameBut
  <2>1. CASE \E d \in Caller : caller[d].kind = "once" /\ caller[d].todo = <<"key">> /\ caller[d].id = j
    BY <1>1, <1>5, <2>1
  <2>2. CASE reg.keys["once"] = j /\ \A d \in Caller : caller[d].kind # "once"
    BY <1>1, <1>8, <2>2 DEF SameBut
  <2> QED BY <2>1, <2>2 DEF TaskInv, OnceInv
<1> QED
  BY <1>9, <1>10, <1>11, <1>12, <1>13, <1>14, <1>15, <1>16, <1>17 DEF TaskInv

LEMMA ContinueGoes ==
  ASSUME TypeOK, NEW c \in Caller, NEW me \in Callers, NEW todo \in Todos, Continue(c, me, todo)
  PROVE  \E y \in Callers :
            /\ caller' = [caller EXCEPT ![c] = y]
            /\ \/ y = Idle /\ todo = <<>>
               \/ todo # <<>> /\ y.todo = todo /\ y.id = me.id /\ y.kind = me.kind /\ y.prev = me.prev
<1>1. CASE todo = <<>>
  BY <1>1, IdleTyped DEF Continue
<1>2. CASE todo # <<>>
  <2> DEFINE y == [me EXCEPT !.todo = todo]
  <2>1. caller' = [caller EXCEPT ![c] = y]
    BY <1>2 DEF Continue
  <2>2. y \in Callers /\ y.todo = todo /\ y.id = me.id /\ y.kind = me.kind /\ y.prev = me.prev
    BY DEF Callers
  <2> HIDE DEF y
  <2> QED BY <1>2, <2>1, <2>2
<1> QED BY <1>1, <1>2

LEMMA AskingContinues ==
  ASSUME TaskInv, NEW c \in Caller, NEW me \in Callers, NEW todo \in Asking, Continue(c, me, todo),
         caller[c].id = 0, me.id = 0, me.kind = caller[c].kind, me.kind # "once",
         todo # <<>> => CallTodo(me.kind, todo),
         todo # <<>> /\ Head(todo) = "mark" => me.prev \in reg'.tripped,
         reg' \in Regs, reg'.tokens = reg.tokens, reg.tripped \subseteq reg'.tripped,
         \A i \in Task : reg'.state[i] = reg.state[i] \/ i \in reg'.tripped,
         reg'.keys["once"] = reg.keys["once"], reg'.holder = reg.holder,
         UNCHANGED <<tasks, running, shutdown>>
  PROVE  TaskInv'
<1>1. PICK y \in Callers :
            /\ caller' = [caller EXCEPT ![c] = y]
            /\ \/ y = Idle /\ todo = <<>>
               \/ todo # <<>> /\ y.todo = todo /\ y.id = me.id /\ y.kind = me.kind /\ y.prev = me.prev
  BY ContinueGoes DEF TaskInv, Todos
<1>2. y.id = 0 /\ y.kind \in {"none", caller[c].kind} /\ CallOK(y, tasks, reg'.tripped)
  <2>1. CASE y = Idle
    BY <2>1, IdleTyped DEF CallOK, CallTodo, Asking
  <2>2. CASE todo # <<>> /\ y.todo = todo /\ y.id = me.id /\ y.kind = me.kind /\ y.prev = me.prev
    BY <2>2 DEF CallOK
  <2> QED BY <1>1, <2>1, <2>2
<1> QED BY <1>1, <1>2, AskingMoves

\* What is known of a caller at a section
LEMMA CallerAt ==
  ASSUME TaskInv, NEW c \in Caller, NEW section, At(c, section)
  PROVE  LET me == caller[c]
         IN  /\ me \in Callers /\ CallTodo(me.kind, me.todo)
             /\ me.todo # <<>> /\ Head(me.todo) = section /\ Rest(c) = Tail(me.todo)
             /\ me.todo \in Asking <=> me.id = 0
             /\ me.id # 0 => me.id \in Task /\ me.id <= Len(tasks) /\ tasks[me.id] = me.kind
             /\ section = "mark" => me.prev \in reg.tripped
  BY DEF TaskInv, TypeOK, CallInv, CallOK, At, Rest, Callers

LEMMA WithPrev ==
  ASSUME NEW me \in Callers, NEW p \in Task \cup {0}
  PROVE  LET y == [me EXCEPT !.prev = p]
         IN  y \in Callers /\ y.id = me.id /\ y.kind = me.kind /\ y.todo = me.todo /\ y.prev = p
  BY DEF Callers

LEMMA StepReadPrevious ==
  ASSUME TaskInv, NEW c \in Caller, ReadPrevious(c)
  PROVE  TaskInv'
<1> DEFINE me == caller[c]
           p == reg.keys[me.kind]
           you == [me EXCEPT !.prev = p]
           todo == (IF p = 0 THEN <<>> ELSE <<"trip">>) \o Tail(me.todo)
<1>1. /\ me \in Callers /\ me.kind = "unique" /\ me.todo \in Asking /\ me.id = 0
      /\ Rest(c) = Tail(me.todo)
      /\ GoodTodo(me.kind, todo) /\ todo \in Asking
  BY CallerAt, AfterPrev DEF ReadPrevious
<1>2. p \in Task \cup {0}
  BY <1>1 DEF TaskInv, TypeOK, Regs, Key
<1>3. you \in Callers /\ you.id = 0 /\ you.kind = me.kind
  BY <1>1, <1>2, WithPrev
<1>4. Continue(c, you, todo) /\ reg' = reg /\ UNCHANGED <<tasks, running, shutdown>>
  BY <1>1 DEF ReadPrevious
<1>5. reg \in Regs
  BY DEF TaskInv, TypeOK
<1> HIDE DEF you, todo
<1>6. todo # <<>> /\ Head(todo) # "mark" /\ CallTodo(you.kind, todo)
  BY <1>1, <1>3 DEF GoodTodo
<1> QED BY <1>1, <1>3, <1>4, <1>5, <1>6, AskingContinues

LEMMA StepFindRunning ==
  ASSUME TaskInv, NEW c \in Caller, FindRunning(c)
  PROVE  TaskInv'
<1> DEFINE me == caller[c]
           p == reg.keys[me.kind]
           you == [me EXCEPT !.prev = p]
           todo == (IF p = 0 THEN <<>> ELSE <<"state">>) \o Tail(me.todo)
<1>1. /\ me \in Callers /\ me.kind = "progress" /\ me.todo \in Asking /\ me.id = 0
      /\ Rest(c) = Tail(me.todo)
      /\ GoodTodo(me.kind, todo) /\ todo \in Asking
  BY CallerAt, AfterFind DEF FindRunning
<1>2. p \in Task \cup {0}
  BY <1>1 DEF TaskInv, TypeOK, Regs, Key
<1>3. you \in Callers /\ you.id = 0 /\ you.kind = me.kind
  BY <1>1, <1>2, WithPrev
<1>4. Continue(c, you, todo) /\ reg' = reg /\ UNCHANGED <<tasks, running, shutdown>>
  BY <1>1 DEF FindRunning
<1>5. reg \in Regs
  BY DEF TaskInv, TypeOK
<1> HIDE DEF you, todo
<1>6. todo # <<>> /\ Head(todo) # "mark" /\ CallTodo(you.kind, todo)
  BY <1>1, <1>3 DEF GoodTodo
<1> QED BY <1>1, <1>3, <1>4, <1>5, <1>6, AskingContinues

LEMMA StepReadState ==
  ASSUME TaskInv, NEW c \in Caller, ReadState(c)
  PROVE  TaskInv'
<1> DEFINE me == caller[c]
           todo == IF Running(me.prev) THEN <<>> ELSE <<"unkey">> \o Tail(me.todo)
<1>1. /\ me \in Callers /\ me.kind = "progress" /\ me.todo \in Asking /\ me.id = 0
      /\ Rest(c) = Tail(me.todo)
      /\ GoodTodo(me.kind, <<"unkey">> \o Tail(me.todo)) /\ <<"unkey">> \o Tail(me.todo) \in Asking
  BY CallerAt, AfterState DEF ReadState
<1>2. Continue(c, me, todo) /\ reg' = reg /\ UNCHANGED <<tasks, running, shutdown>>
  BY <1>1 DEF ReadState
<1>3. reg \in Regs /\ <<>> \in Asking
  BY DEF TaskInv, TypeOK, Asking
<1>4. /\ todo \in Asking /\ (todo # <<>> => CallTodo(me.kind, todo))
      /\ todo # <<>> => Head(todo) # "mark"
  BY <1>1, <1>3 DEF GoodTodo
<1> HIDE DEF todo
<1> QED BY <1>1, <1>2, <1>3, <1>4, AskingContinues

LEMMA StepRemoveKey ==
  ASSUME TaskInv, NEW c \in Caller, RemoveKey(c)
  PROVE  TaskInv'
<1> DEFINE me == caller[c]
           todo == Tail(me.todo)
<1>1. /\ me \in Callers /\ me.kind = "progress" /\ me.todo \in Asking /\ me.id = 0
      /\ Rest(c) = Tail(me.todo)
      /\ GoodTodo(me.kind, todo) /\ todo \in Asking
  BY CallerAt, AfterUnkey DEF RemoveKey
<1>2. /\ Continue(c, me, todo) /\ UNCHANGED <<tasks, running, shutdown>>
      /\ reg' = [reg EXCEPT !.keys["progress"] = 0]
  BY <1>1 DEF RemoveKey
<1>3. reg \in Regs
  BY DEF TaskInv, TypeOK
<1>4. /\ reg' \in Regs /\ reg'.tokens = reg.tokens /\ reg'.tripped = reg.tripped
      /\ reg'.state = reg.state /\ reg'.keys["once"] = reg.keys["once"] /\ reg'.holder = reg.holder
  BY <1>2, <1>3 DEF Regs, Key
<1>5. todo # <<>> /\ Head(todo) # "mark" /\ CallTodo(me.kind, todo)
  BY <1>1 DEF GoodTodo
<1> HIDE DEF todo
<1> QED BY <1>1, <1>2, <1>4, <1>5, AskingContinues

LEMMA StepMarkCancelled ==
  ASSUME TaskInv, NEW c \in Caller, MarkCancelled(c)
  PROVE  TaskInv'
<1> DEFINE me == caller[c]
           todo == Tail(me.todo)
<1>1. /\ me \in Callers /\ me.kind \in {"unique", "none"} /\ me.todo \in Asking /\ me.id = 0
      /\ Rest(c) = Tail(me.todo) /\ me.prev \in reg.tripped
      /\ todo = <<>> \/ (GoodTodo(me.kind, todo) /\ todo \in Asking)
  BY CallerAt, AfterMark DEF MarkCancelled
<1>2. /\ Continue(c, me, todo) /\ UNCHANGED <<tasks, running, shutdown>>
      /\ SetCancelled(me.prev)
  BY <1>1 DEF MarkCancelled
<1>3. reg \in Regs /\ me.prev \in Task /\ <<>> \in Asking
  BY <1>1 DEF TaskInv, TypeOK, Asking, Regs
<1>4. /\ reg' \in Regs /\ reg'.tokens = reg.tokens /\ reg'.tripped = reg.tripped
      /\ reg'.keys = reg.keys /\ reg'.holder = reg.holder
      /\ \A i \in Task : reg'.state[i] = reg.state[i] \/ i = me.prev
  BY <1>2, <1>3, SetCancelledChanges DEF SameBut
<1>5. todo \in Asking /\ (todo # <<>> => Head(todo) # "mark" /\ CallTodo(me.kind, todo))
  BY <1>1, <1>3 DEF GoodTodo
<1> HIDE DEF todo
<1> QED BY <1>1, <1>2, <1>4, <1>5, AskingContinues

LEMMA StepTripToken ==
  ASSUME TaskInv, NEW c \in Caller, TripToken(c)
  PROVE  TaskInv'
<1> DEFINE me == caller[c]
           p == me.prev
           u == Tail(me.todo)
           v == <<"mark">> \o Tail(me.todo)
<1>1. /\ me \in Callers /\ me.kind \in {"unique", "none"} /\ me.todo \in Asking /\ me.id = 0
      /\ Rest(c) = Tail(me.todo)
      /\ u = <<>> \/ (GoodTodo(me.kind, u) /\ u \in Asking)
      /\ CallTodo(me.kind, v) /\ v \in Asking /\ v # <<>>
  BY CallerAt, AfterTrip DEF TripToken
<1>2. reg \in Regs /\ <<>> \in Asking
  BY DEF TaskInv, TypeOK, Asking
<1>3. u \in Asking /\ (u # <<>> => Head(u) # "mark" /\ CallTodo(me.kind, u))
  BY <1>1, <1>2 DEF GoodTodo
<1>4. CASE p \in reg.tokens
  <2>1. /\ Continue(c, me, v) /\ UNCHANGED <<tasks, running, shutdown>>
        /\ reg' = [reg EXCEPT !.tripped = @ \cup {p}]
    BY <1>1, <1>4 DEF TripToken
  <2>2. p \in Task
    BY <1>2, <1>4 DEF Regs
  <2>3. /\ reg' \in Regs /\ reg'.tokens = reg.tokens /\ reg'.tripped = reg.tripped \cup {p}
        /\ reg'.state = reg.state /\ reg'.keys = reg.keys /\ reg'.holder = reg.holder
    BY <1>2, <2>1, <2>2, RegTrips
  <2> HIDE DEF v
  <2> QED BY <1>1, <2>1, <2>3, AskingContinues
<1>5. CASE p \notin reg.tokens
  <2>1. /\ Continue(c, me, u) /\ UNCHANGED <<tasks, running, shutdown>> /\ reg' = reg
    BY <1>1, <1>5 DEF TripToken
  <2> HIDE DEF u
  <2> QED BY <1>1, <1>2, <1>3, <2>1, AskingContinues
<1> QED BY <1>4, <1>5

\* Calls

LEMMA Scripts ==
  /\ Submission = <<"new", "record", "send">>
  /\ Submission \o <<"key">> = <<"new", "record", "send", "key">>
  /\ <<"prev">> \o Submission \o <<"key">> = <<"prev", "new", "record", "send", "key">>
<1>1. Submission = <<"new", "record", "send">>
  BY DEF Submission
<1>2. <<"new", "record", "send">> \o <<"key">> = <<"new", "record", "send", "key">>
  BY JoinedFour
<1>3. <<"prev">> \o (<<"new", "record", "send">> \o <<"key">>) = <<"prev", "new", "record", "send", "key">>
  BY <1>2, JoinedFive
<1> DEFINE S == {"prev", "new", "record", "send", "key"}
           x == <<"prev">>
           y == <<"new", "record", "send">>
           z == <<"key">>
<1>4. x \in Seq(S) /\ y \in Seq(S) /\ z \in Seq(S)
  OBVIOUS
<1> HIDE DEF x, y, z, S
<1>5. (x \o y) \o z = x \o (y \o z)
  BY <1>4, ConcatAssociative
<1>6. <<"prev">> \o <<"new", "record", "send">> \o <<"key">>
        = <<"prev">> \o (<<"new", "record", "send">> \o <<"key">>)
  BY <1>5 DEF x, y, z
<1> QED BY <1>1, <1>2, <1>3, <1>6

LEMMA StepSpawn ==
  ASSUME TaskInv, NEW c \in Caller, Spawn(c)
  PROVE  TaskInv'
<1>1. PICK kind \in Plain : Call(c, kind) /\ Begin(c, kind, Submission)
  BY DEF Spawn, Plain
<1> DEFINE todo == <<"new", "record", "send">>
<1>2. Begin(c, kind, todo)
  BY <1>1, Scripts
<1>3. CallTodo(kind, todo) /\ todo \in Asking /\ todo \in Todos /\ todo # <<>> /\ Head(todo) # "mark"
  BY <1>1 DEF CallTodo, PlainTodos, Asking, Todos
<1>4. kind # "once" /\ Room /\ caller[c] = Idle /\ reg' = reg /\ UNCHANGED <<tasks, running, shutdown>>
  BY <1>1 DEF Spawn, Call, Plain
<1> HIDE DEF todo
<1> QED BY <1>1, <1>2, <1>3, <1>4, CallBegins

LEMMA StepSpawnUnique ==
  ASSUME TaskInv, NEW c \in Caller, SpawnUnique(c)
  PROVE  TaskInv'
<1> DEFINE todo == <<"prev", "new", "record", "send", "key">>
<1>1. Begin(c, "unique", todo)
  BY Scripts DEF SpawnUnique
<1>2. CallTodo("unique", todo) /\ todo \in Asking /\ todo \in Todos /\ todo # <<>> /\ Head(todo) # "mark"
  BY DEF CallTodo, UniqueTodos, Asking, Todos
<1>3. /\ "unique" \in Key \cup Plain /\ Room /\ caller[c] = Idle /\ reg' = reg
      /\ UNCHANGED <<tasks, running, shutdown>>
  BY DEF SpawnUnique, Call, Key
<1> HIDE DEF todo
<1> QED BY <1>1, <1>2, <1>3, CallBegins

LEMMA StepSpawnOnce ==
  ASSUME TaskInv, NEW c \in Caller, SpawnOnce(c)
  PROVE  TaskInv'
<1> DEFINE todo == <<"new", "record", "send", "key">>
<1>1. Begin(c, "once", todo)
  BY Scripts DEF SpawnOnce
<1>2. CallTodo("once", todo) /\ todo \in Asking /\ todo \in Todos /\ todo # <<>> /\ Head(todo) # "mark"
  BY DEF CallTodo, OnceTodos, Asking, Todos
<1>3. /\ "once" \in Key \cup Plain /\ Room /\ caller[c] = Idle
      /\ reg.holder = {} /\ ~Running(reg.keys["once"]) /\ reg' = [reg EXCEPT !.holder = {c}]
      /\ tasks' = tasks /\ running' = running /\ shutdown' = shutdown
  BY DEF SpawnOnce, Call, Key
<1> HIDE DEF todo
<1> QED BY <1>1, <1>2, <1>3, CallBegins

LEMMA StepSpawnProgress ==
  ASSUME TaskInv, NEW c \in Caller, SpawnProgress(c)
  PROVE  TaskInv'
<1> DEFINE todo == <<"find", "new", "record", "key", "send">>
<1>1. Begin(c, "progress", todo)
  BY DEF SpawnProgress
<1>2. CallTodo("progress", todo) /\ todo \in Asking /\ todo \in Todos /\ todo # <<>> /\ Head(todo) # "mark"
  BY DEF CallTodo, ProgressTodos, Asking, Todos
<1>3. /\ "progress" \in Key \cup Plain /\ Room /\ caller[c] = Idle /\ reg' = reg
      /\ UNCHANGED <<tasks, running, shutdown>>
  BY DEF SpawnProgress, Call, Key
<1> HIDE DEF todo
<1> QED BY <1>1, <1>2, <1>3, CallBegins

LEMMA StepCancel ==
  ASSUME TaskInv, NEW c \in Caller, Cancel(c)
  PROVE  TaskInv'
<1>1. PICK i \in Known : caller' = [caller EXCEPT ![c] = [Idle EXCEPT !.todo = <<"trip">>, !.prev = i]]
  BY DEF Cancel
<1> DEFINE y == [Idle EXCEPT !.todo = <<"trip">>, !.prev = i]
<1>2. y \in Callers /\ y.id = 0 /\ y.kind = "none" /\ y.todo = <<"trip">>
  <2>1. i \in Task /\ <<"trip">> \in Todos
    BY <1>1 DEF Known, Todos, Asking
  <2>2. \A me \in Callers :
          LET z == [me EXCEPT !.todo = <<"trip">>, !.prev = i]
          IN  z \in Callers /\ z.id = me.id /\ z.kind = me.kind /\ z.todo = <<"trip">>
    BY <2>1 DEF Callers
  <2> QED BY <2>2, IdleTyped
<1> HIDE DEF y
<1>3. CallOK(y, tasks, reg.tripped)
  BY <1>2 DEF CallOK, CallTodo, Asking
<1>4. /\ caller[c].id = 0 /\ caller[c].kind = "none" /\ reg' = reg
      /\ UNCHANGED <<tasks, running, shutdown>>
  BY IdleTyped DEF Cancel, Call
<1>5. reg \in Regs
  BY DEF TaskInv, TypeOK
<1>6. caller' = [caller EXCEPT ![c] = y]
  BY <1>1 DEF y
<1> QED BY <1>2, <1>3, <1>4, <1>5, <1>6, AskingMoves

\* A caller gets the identifier of its task
LEMMA StepNewTask ==
  ASSUME TaskInv, NEW c \in Caller, NewTask(c)
  PROVE  TaskInv'
<1> DEFINE me == caller[c]
           n == Len(tasks)
           i == n + 1
           you == [me EXCEPT !.id = i]
           todo == Tail(me.todo)
<1>1. /\ me \in Callers /\ me.kind # "none" /\ me.todo \in Asking /\ me.id = 0
      /\ Rest(c) = todo /\ GoodTodo(me.kind, todo) /\ todo \in Making
  BY CallerAt, AfterNew DEF NewTask
<1>2. /\ Continue(c, you, todo)
      /\ tasks' = Append(tasks, me.kind)
      /\ reg' = [reg EXCEPT !.tokens = IF me.kind = "blocking" THEN @ ELSE @ \cup {i}]
  BY <1>1 DEF NewTask
<1>3. /\ calls' = calls /\ channel' = channel /\ joinSet' = joinSet /\ supervisor' = supervisor
      /\ shutdown' = shutdown
  BY DEF NewTask, running
<1>4. n \in Nat /\ MaxTask \in Nat /\ tasks \in Seq(Kinds) /\ me.kind \in Kinds
  BY <1>1, LenProperties, TaskBounds DEF TaskInv, TypeOK, Callers
<1>5. /\ tasks' \in Seq(Kinds) /\ Len(tasks') = i /\ tasks'[i] = me.kind
      /\ \A j \in 1 .. n : tasks'[j] = tasks[j]
  BY <1>2, <1>4, AppendProperties
<1>6. i \in Task /\ Cardinality(Pending \ {c}) + i <= MaxTask
  <2> DEFINE p == Cardinality(Pending)
  <2>1. c \in Pending
    BY <1>1 DEF Pending
  <2>2. p \in Nat /\ IsFiniteSet(Pending)
    BY PendingFinite DEF Pending
  <2>3. p # 0
    BY <2>1, <2>2, FS_EmptySet
  <2>4. n + p <= MaxTask
    BY DEF TaskInv, RoomInv
  <2>5. Cardinality(Pending \ {c}) = p - 1
    BY <2>1, <2>2, FS_RemoveElement
  <2> HIDE DEF p, n
  <2>6. 1 <= n + 1 /\ n + 1 <= MaxTask /\ (n + 1) + (p - 1) <= MaxTask
    BY <1>4, <2>2, <2>3, <2>4
  <2>7. i \in Task
    BY <1>4, <2>6 DEF Task
  <2>8. Cardinality(Pending \ {c}) + i <= MaxTask
    BY <1>4, <2>2, <2>5, <2>6 DEF n
  <2> QED BY <2>7, <2>8
<1>7. you \in Callers /\ you.id = i /\ you.kind = me.kind
  BY <1>1, <1>6 DEF Callers
<1> HIDE DEF you, todo
<1>81. todo \in Todos /\ todo # <<>> /\ TypeOK
  BY <1>1 DEF GoodTodo, Todos, TaskInv
<1>8. PICK y \in Callers : /\ caller' = [caller EXCEPT ![c] = y]
                           /\ y.id = i /\ y.kind = me.kind /\ y.todo = todo
  BY <1>2, <1>7, <1>81, ContinueGoes
<1>9. /\ caller'[c] = y
      /\ \A d \in Caller : d # c => caller'[d] = caller[d]
      /\ \A d \in Caller : caller'[d].kind = caller[d].kind
  BY <1>8 DEF TaskInv, TypeOK
<1>10. /\ reg' \in Regs /\ reg'.tripped = reg.tripped /\ reg'.state = reg.state
       /\ reg'.keys = reg.keys /\ reg'.holder = reg.holder
       /\ reg.tokens \subseteq reg'.tokens /\ (me.kind # "blocking" => i \in reg'.tokens)
  <2>1. reg \in Regs
    BY DEF TaskInv, TypeOK
  <2>2. CASE me.kind = "blocking"
    BY <1>2, <2>1, <2>2 DEF Regs
  <2>3. CASE me.kind # "blocking"
    BY <1>2, <1>6, <2>1, <2>3 DEF Regs
  <2> QED BY <2>2, <2>3
<1>11. \A d \in Caller :
        /\ caller'[d].todo \in Making => d = c \/ (d # c /\ caller[d].todo \in Making)
        /\ caller'[d].todo \in Sending => d # c /\ caller[d].todo \in Sending
        /\ caller'[d].todo \in Failing => d # c /\ caller[d].todo \in Failing
        /\ caller[d].todo = <<"key">> => d # c /\ caller'[d].todo = <<"key">>
  BY <1>1, <1>8, <1>9, ClassesApart
<1>12. \A j : (InChannel(j)' <=> InChannel(j)) /\ (Placed(j)' <=> Placed(j)) /\ (Live(j)' <=> Live(j))
  BY <1>3 DEF InChannel, Placed, Live
<1>13. /\ ~Placed(i)
       /\ \A d \in Caller : caller[d].id # i
       /\ \A j \in Task : Placed(j) => j \in 1 .. n
       /\ supervisor.todo # <<>> /\ supervisor.phase = "loop" => supervisor.id # i
  <2>1. ~(i <= n)
    BY <1>4
  <2>2. \A j \in Task : j <= n => j \in 1 .. n
    BY <1>4 DEF Task
  <2>3. i # 0
    BY <1>4
  <2>4. \A j \in Task : Placed(j) => j <= n
    BY DEF TaskInv, PlaceInv
  <2>5. \A d \in Caller : caller[d].id # 0 => caller[d].id <= n
    BY DEF TaskInv, CallInv, CallOK
  <2>6. supervisor.todo # <<>> /\ supervisor.phase = "loop" => supervisor.id <= n
    BY DEF TaskInv, SupervisorInv
  <2> HIDE DEF i, n
  <2> QED BY <1>6, <2>1, <2>2, <2>3, <2>4, <2>5, <2>6
<1>14. \A j \in Task : Placed(j) => tasks'[j] = tasks[j]
  BY <1>5, <1>13
<1>15. \A j \in Task : Live(j) => Placed(j)
  BY DEF Live, Placed
<1>16. TypeOK'
  BY <1>3, <1>5, <1>8, <1>10 DEF TaskInv, TypeOK
<1>17. \A j \in Task : j <= n => j <= i /\ j \in 1 .. n
  BY <1>4 DEF Task
<1>18. i <= i /\ i # 0
  BY <1>4
<1>26. RoomInv'
  <2>1. c \in Pending /\ y.id # 0
    BY <1>1, <1>8, <1>18 DEF Pending
  <2>2. Pending' = Pending \ {c}
    BY <1>9, <2>1 DEF Pending
  <2>3. Cardinality(Pending \ {c}) \in Nat
    BY PendingFinite DEF Pending
  <2>4. Len(tasks') + Cardinality(Pending \ {c}) <= MaxTask
    BY <1>4, <1>5, <1>6, <2>3
  <2> QED BY <2>2, <2>4 DEF RoomInv
<1> HIDE DEF i, n
<1>19. CallInv'
  <2>1. CallOK(y, tasks', reg.tripped)
    <3>1. CallTodo(y.kind, y.todo) /\ Head(y.todo) # "mark" /\ y.todo \notin Asking
      BY <1>1, <1>8, ClassesApart DEF GoodTodo
    <3> QED BY <1>5, <1>8, <1>18, <3>1 DEF CallOK
  <2>2. ASSUME NEW d \in Caller, d # c
        PROVE  CallOK(caller[d], tasks', reg.tripped)
    <3>1. CallOK(caller[d], tasks, reg.tripped) /\ caller[d].id \in Task \cup {0}
      BY DEF TaskInv, CallInv, TypeOK, Callers
    <3>2. caller[d].id # 0 => caller[d].id <= Len(tasks') /\ tasks'[caller[d].id] = caller[d].kind
      BY <1>5, <1>17, <3>1 DEF CallOK, n
    <3> QED BY <3>1, <3>2 DEF CallOK
  <2> QED BY <1>9, <1>10, <2>1, <2>2 DEF CallInv
<1>20. PlaceInv'
  <2>1. \A j \in Task : Placed(j)' => j <= Len(tasks')
    BY <1>5, <1>12, <1>17, <1>13
  <2>2. \A d \in Caller : caller'[d].todo \in Making \cup Sending \cup Failing => ~Placed(caller[d].id)'
    BY <1>8, <1>9, <1>11, <1>12, <1>13 DEF TaskInv, PlaceInv
  <2>3. \A d, e \in Caller : caller'[d].id = caller'[e].id /\ caller'[d].id # 0 => d = e
    BY <1>8, <1>9, <1>13 DEF TaskInv, PlaceInv
  <2> QED BY <2>1, <2>2, <2>3 DEF PlaceInv
<1>21. ChannelInv'
  BY <1>3 DEF TaskInv, ChannelInv
<1>22. SupervisorInv'
  <2>1. supervisor.todo # <<>> /\ supervisor.phase = "loop" =>
          /\ supervisor.id <= Len(tasks')
          /\ \A d \in Caller : caller'[d].todo \in Making \cup Sending => caller'[d].id # supervisor.id
    BY <1>5, <1>8, <1>9, <1>11, <1>13, <1>17 DEF TaskInv, SupervisorInv, n
  <2>2. supervisor.phase = "others" /\ supervisor.todo = <<"cancel">> =>
         \/ supervisor.id \in reg.tripped
         \/ ~Live(supervisor.id) \/ tasks'[supervisor.id] = "blocking"
    <3>1. supervisor.todo # <<>> => supervisor.id \in Task
      BY DEF TaskInv, SupervisorInv
    <3> QED BY <1>14, <1>15, <3>1 DEF TaskInv, SupervisorInv
  <2>3. /\ supervisor.todo # <<>> => supervisor.id \in Task
        /\ supervisor.todo # <<>> /\ supervisor.phase # "others" => ~Placed(supervisor.id)
        /\ supervisor.phase = "others" => supervisor.todo \in {<<>>, <<"trip", "cancel">>, <<"cancel">>}
    BY DEF TaskInv, SupervisorInv
  <2> QED BY <1>3, <1>10, <1>12, <2>1, <2>2, <2>3 DEF SupervisorInv
<1>23. FitInv'
  <2>1. \A j : Fit(j) => Fit(j)'
    BY <1>10 DEF Fit
  <2>2. \A j \in Task : Live(j)' /\ tasks'[j] # "blocking" => Fit(j)'
    BY <1>12, <1>14, <1>15, <2>1 DEF TaskInv, FitInv
  <2>3. supervisor.phase = "loop" => \A d \in Caller : caller'[d].kind # "blocking" =>
           /\ caller'[d].todo \in Making => caller'[d].id \in reg'.tokens
           /\ caller'[d].todo \in Sending => Fit(caller[d].id)'
    BY <1>8, <1>9, <1>10, <1>11, <2>1 DEF TaskInv, FitInv
  <2> QED BY <1>3, <2>2, <2>3 DEF FitInv
<1>24. HoldInv'
  BY <1>9, <1>10 DEF TaskInv, HoldInv
<1>25. OnceInv'
  <2> SUFFICES ASSUME NEW j \in Task, Live(j), tasks[j] = "once", j \notin reg.tripped
               PROVE  \/ \E d \in Caller : caller'[d].kind = "once" /\ caller'[d].todo = <<"key">> /\ caller'[d].id = j
                      \/ reg'.keys["once"] = j /\ \A d \in Caller : caller'[d].kind # "once"
    BY <1>10, <1>12, <1>14, <1>15 DEF OnceInv
  <2>1. CASE \E d \in Caller : caller[d].kind = "once" /\ caller[d].todo = <<"key">> /\ caller[d].id = j
    BY <1>9, <1>11, <2>1
  <2>2. CASE reg.keys["once"] = j /\ \A d \in Caller : caller[d].kind # "once"
    BY <1>9, <1>10, <2>2
  <2> QED BY <2>1, <2>2 DEF TaskInv, OnceInv
<1> QED
  BY <1>26, <1>16, <1>19, <1>20, <1>21, <1>22, <1>23, <1>24, <1>25 DEF TaskInv

\* A task is recorded as running
LEMMA StepRecordStarted ==
  ASSUME TaskInv, NEW c \in Caller, RecordStarted(c)
  PROVE  TaskInv'
<1> DEFINE me == caller[c]
           i == me.id
           todo == Tail(me.todo)
           recs == [reg.state EXCEPT ![i] = "running"]
<1>1. /\ me \in Callers /\ me.todo \in Making
      /\ Rest(c) = todo /\ GoodTodo(me.kind, todo) /\ todo \in Sending
  BY CallerAt, AfterRecord DEF RecordStarted
<1>2. i \in Task /\ i # 0
  <2>1. me.todo \notin Asking
    BY <1>1, ClassesApart
  <2> QED BY <2>1, CallerAt DEF RecordStarted
<1>3. /\ Continue(c, me, todo)
      /\ reg' = [reg EXCEPT !.state = [j \in Task |-> IF j \in Trimmed(recs) THEN "none" ELSE recs[j]]]
  BY <1>1 DEF RecordStarted
<1>4. /\ calls' = calls /\ channel' = channel /\ joinSet' = joinSet /\ supervisor' = supervisor
      /\ tasks' = tasks /\ shutdown' = shutdown
  BY DEF RecordStarted, running
<1>5. todo \in Todos /\ todo # <<>> /\ TypeOK /\ reg \in Regs
  BY <1>1 DEF GoodTodo, Todos, TaskInv, TypeOK
<1>6. /\ reg' \in Regs /\ reg'.tripped = reg.tripped /\ reg'.tokens = reg.tokens
      /\ reg'.keys = reg.keys /\ reg'.holder = reg.holder
      /\ reg'.state[i] = "running"
      /\ \A j \in Task : reg.state[j] = "running" => reg'.state[j] = "running"
  <2>1. reg.state \in [Task -> States] /\ "running" \in States /\ "none" \in States
    BY <1>5 DEF Regs, States
  <2>2. /\ recs \in [Task -> States] /\ recs[i] = "running"
        /\ \A j \in Task : reg.state[j] = "running" => recs[j] = "running"
    BY <1>2, <2>1
  <2> HIDE DEF recs
  <2> DEFINE new == [j \in Task |-> IF j \in Trimmed(recs) THEN "none" ELSE recs[j]]
  <2>3. /\ new \in [Task -> States]
        /\ \A j \in Task : recs[j] = "running" => new[j] = "running"
    BY <2>1, <2>2, TrimmedEnded
  <2>4. reg' = [reg EXCEPT !.state = new]
    BY <1>3
  <2> HIDE DEF new
  <2>5. /\ reg'.state = new /\ reg'.tripped = reg.tripped /\ reg'.tokens = reg.tokens
        /\ reg'.keys = reg.keys /\ reg'.holder = reg.holder /\ reg' \in Regs
    BY <1>5, <2>3, <2>4 DEF Regs
  <2> QED BY <1>2, <2>2, <2>3, <2>5
<1> HIDE DEF todo
<1>7. PICK y \in Callers : /\ caller' = [caller EXCEPT ![c] = y]
                           /\ y.id = i /\ y.kind = me.kind /\ y.todo = todo
  BY <1>1, <1>3, <1>5, ContinueGoes
<1>8. /\ caller'[c] = y
      /\ \A d \in Caller : d # c => caller'[d] = caller[d]
      /\ \A d \in Caller : caller'[d].kind = caller[d].kind /\ caller'[d].id = caller[d].id
  BY <1>7 DEF TaskInv, TypeOK
<1>9. \A d \in Caller :
        /\ caller'[d].todo \in Making => d # c /\ caller[d].todo \in Making
        /\ caller'[d].todo \in Sending => d = c \/ (d # c /\ caller[d].todo \in Sending)
        /\ caller'[d].todo \in Failing => d # c /\ caller[d].todo \in Failing
        /\ caller[d].todo = <<"key">> => d # c /\ caller'[d].todo = <<"key">>
  BY <1>1, <1>7, <1>8, ClassesApart
<1>10. \A j : (InChannel(j)' <=> InChannel(j)) /\ (Placed(j)' <=> Placed(j)) /\ (Live(j)' <=> Live(j))
  BY <1>4 DEF InChannel, Placed, Live
<1>11. (\A j \in Task : Fit(j) => Fit(j)') /\ (i \in reg.tokens => Fit(i)')
  BY <1>2, <1>6, <1>8 DEF Fit
<1>12. TypeOK'
  BY <1>4, <1>6, <1>7 DEF TaskInv, TypeOK
<1>13. CallInv'
  <2>1. CallOK(y, tasks, reg.tripped)
    <3>1. CallTodo(y.kind, y.todo) /\ Head(y.todo) # "mark" /\ y.todo \notin Asking
      BY <1>1, <1>7, ClassesApart DEF GoodTodo
    <3>2. i <= Len(tasks) /\ tasks[i] = me.kind
      BY <1>2 DEF TaskInv, CallInv, CallOK
    <3> QED BY <1>2, <1>7, <3>1, <3>2 DEF CallOK
  <2> QED BY <1>4, <1>6, <1>8, <2>1 DEF TaskInv, CallInv
<1>14. RoomInv'
  <2>1. Pending' \subseteq Pending
    BY <1>8 DEF Pending
  <2> QED BY <1>4, <2>1, PendingShrinks DEF TaskInv
<1>15. PlaceInv'
  <2>1. \A d \in Caller : caller'[d].todo \in Making \cup Sending \cup Failing => ~Placed(caller[d].id)'
    BY <1>1, <1>8, <1>9, <1>10 DEF TaskInv, PlaceInv
  <2> QED BY <1>4, <1>8, <1>10, <2>1 DEF TaskInv, PlaceInv
<1>16. ChannelInv'
  BY <1>4 DEF TaskInv, ChannelInv
<1>17. SupervisorInv'
  <2>1. \A d \in Caller : caller'[d].todo \in Making \cup Sending => caller[d].todo \in Making \cup Sending
    BY <1>1, <1>9
  <2> QED BY <1>4, <1>6, <1>8, <1>10, <2>1 DEF TaskInv, SupervisorInv
<1>18. FitInv'
  <2>1. \A j \in Task : Live(j)' /\ tasks'[j] # "blocking" => Fit(j)'
    BY <1>4, <1>10, <1>11 DEF TaskInv, FitInv
  <2>2. \A d \in Caller : caller[d].todo \in Sending => caller[d].id \in Task
    BY ClassesApart DEF TaskInv, CallInv, CallOK, TypeOK, Callers
  <2>3. ASSUME supervisor.phase = "loop", NEW d \in Caller, caller[d].kind # "blocking"
        PROVE  /\ caller'[d].todo \in Making => caller[d].id \in reg'.tokens
               /\ caller'[d].todo \in Sending => Fit(caller[d].id)'
    <3>1. CASE d = c
      BY <1>1, <1>9, <1>11, <2>3, <3>1 DEF TaskInv, FitInv
    <3>2. CASE d # c
      BY <1>6, <1>8, <1>9, <1>11, <2>2, <2>3, <3>2 DEF TaskInv, FitInv
    <3> QED BY <3>1, <3>2
  <2> QED BY <1>4, <1>8, <2>1, <2>3 DEF FitInv
<1>19. HoldInv'
  BY <1>6, <1>8 DEF TaskInv, HoldInv
<1>20. OnceInv'
  <2> SUFFICES ASSUME NEW j \in Task, Live(j), tasks[j] = "once", j \notin reg.tripped
               PROVE  \/ \E d \in Caller : caller'[d].kind = "once" /\ caller'[d].todo = <<"key">> /\ caller'[d].id = j
                      \/ reg'.keys["once"] = j /\ \A d \in Caller : caller'[d].kind # "once"
    BY <1>4, <1>6, <1>10 DEF OnceInv
  <2>1. CASE \E d \in Caller : caller[d].kind = "once" /\ caller[d].todo = <<"key">> /\ caller[d].id = j
    BY <1>8, <1>9, <2>1
  <2>2. CASE reg.keys["once"] = j /\ \A d \in Caller : caller[d].kind # "once"
    BY <1>6, <1>8, <2>2
  <2> QED BY <2>1, <2>2 DEF TaskInv, OnceInv
<1> QED
  BY <1>12, <1>13, <1>14, <1>15, <1>16, <1>17, <1>18, <1>19, <1>20 DEF TaskInv

\* Cleaning up after a message that could not be sent
LEMMA FailingContinues ==
  ASSUME TaskInv, NEW c \in Caller, NEW todo, Continue(c, caller[c], todo),
         caller[c].todo \in Failing \cup Sending, SameBut(caller[c].id),
         \/ todo = <<>> /\ caller[c].kind # "once"
         \/ todo \in Failing \cup {<<"key">>} /\ GoodTodo(caller[c].kind, todo),
         UNCHANGED <<tasks, running, shutdown>>
  PROVE  TaskInv'
<1>1. todo \in Todos /\ TypeOK /\ caller[c] \in Callers
  BY DEF TaskInv, TypeOK, Todos, Asking
<1>2. PICK y \in Callers :
            /\ caller' = [caller EXCEPT ![c] = y]
            /\ \/ y = Idle /\ todo = <<>>
               \/ todo # <<>> /\ y.todo = todo /\ y.id = caller[c].id /\ y.kind = caller[c].kind
  BY <1>1, ContinueGoes
<1>3. CASE todo = <<>>
  <2>1. y = Idle /\ caller[c].kind # "once"
    BY <1>2, <1>3 DEF GoodTodo
  <2> QED BY <1>2, <2>1, FailingMoves
<1>4. CASE todo # <<>>
  <2>1. /\ y.id = caller[c].id /\ y.kind = caller[c].kind
        /\ y.todo \in Failing \cup {<<"key">>} /\ GoodTodo(y.kind, y.todo)
    BY <1>2, <1>4
  <2> QED BY <1>2, <2>1, FailingMoves
<1> QED BY <1>3, <1>4

LEMMA StepDropOwnToken ==
  ASSUME TaskInv, NEW c \in Caller, DropOwnToken(c)
  PROVE  TaskInv'
<1> DEFINE me == caller[c]
           todo == Tail(me.todo)
<1>1. /\ me.todo \in Failing /\ Rest(c) = todo /\ GoodTodo(me.kind, todo) /\ todo \in Failing
  BY CallerAt, AfterDrop DEF DropOwnToken
<1>2. Continue(c, me, todo) /\ UNCHANGED <<tasks, running, shutdown>>
  BY <1>1 DEF DropOwnToken
<1>3. SameBut(me.id)
  BY DropTokenChanges DEF DropOwnToken, TaskInv, TypeOK
<1> HIDE DEF todo
<1> QED BY <1>1, <1>2, <1>3, FailingContinues

LEMMA StepUnlistKey ==
  ASSUME TaskInv, NEW c \in Caller, UnlistKey(c)
  PROVE  TaskInv'
<1> DEFINE me == caller[c]
           todo == Tail(me.todo)
<1>1. /\ me.todo \in Failing /\ Rest(c) = todo /\ GoodTodo(me.kind, todo) /\ todo \in Failing
  BY CallerAt, AfterUnlist DEF UnlistKey
<1>2. Continue(c, me, todo) /\ UNCHANGED <<tasks, running, shutdown>>
  BY <1>1 DEF UnlistKey
<1>3. SameBut(me.id)
  BY ForgetKeyChanges DEF UnlistKey, TaskInv, TypeOK
<1> HIDE DEF todo
<1> QED BY <1>1, <1>2, <1>3, FailingContinues

LEMMA StepFinalizeFailed ==
  ASSUME TaskInv, NEW c \in Caller, FinalizeFailed(c)
  PROVE  TaskInv'
<1> DEFINE me == caller[c]
           todo == Tail(me.todo)
<1>1. /\ me.todo \in Failing /\ Rest(c) = todo
      /\ \/ todo = <<>> /\ me.kind # "once"
         \/ todo = <<"key">> /\ GoodTodo(me.kind, todo)
  BY CallerAt, AfterFail DEF FinalizeFailed
<1>2. Continue(c, me, todo) /\ UNCHANGED <<tasks, running, shutdown>>
  BY <1>1 DEF FinalizeFailed
<1>3. me.id \in Task
  <2>1. me.todo \notin Asking
    BY <1>1, ClassesApart
  <2> QED BY <2>1, CallerAt DEF FinalizeFailed
<1>4. SameBut(me.id)
  BY <1>3, SettleChanges DEF FinalizeFailed, TaskInv, TypeOK, States
<1> HIDE DEF todo
<1> QED BY <1>1, <1>2, <1>4, FailingContinues

\* A task is handed to the supervisor
LEMMA StepSendTask ==
  ASSUME TaskInv, NEW c \in Caller, SendTask(c)
  PROVE  TaskInv'
<1> DEFINE me == caller[c]
           i == me.id
           u == Tail(me.todo)
           f == (IF me.kind = "progress" THEN <<"drop", "unlist", "fail">> ELSE <<"drop", "fail">>) \o Tail(me.todo)
<1>1. /\ me \in Callers /\ me.todo \in Sending /\ Rest(c) = Tail(me.todo)
      /\ \/ u = <<>> /\ me.kind # "once"
         \/ u = <<"key">> /\ GoodTodo(me.kind, u)
      /\ GoodTodo(me.kind, f) /\ f \in Failing
  <2> DEFINE kind == me.kind
             s == me.todo
  <2>1. /\ me \in Callers /\ CallTodo(kind, s) /\ s # <<>> /\ Head(s) = "send" /\ Rest(c) = Tail(s)
    BY CallerAt DEF SendTask
  <2> HIDE DEF kind, s
  <2>2. /\ s \in Sending
        /\ \/ Tail(s) = <<>> /\ kind # "once"
           \/ Tail(s) = <<"key">> /\ GoodTodo(kind, Tail(s))
    BY <2>1, AfterSend
  <2> DEFINE g == (IF kind = "progress" THEN <<"drop", "unlist", "fail">> ELSE <<"drop", "fail">>) \o Tail(s)
  <2>3. GoodTodo(kind, g) /\ g \in Failing
    BY <2>1, AfterSend
  <2>4. f = g /\ kind = me.kind /\ s = me.todo /\ u = Tail(s)
    BY DEF kind, s
  <2> HIDE DEF g, f, u
  <2>5. GoodTodo(me.kind, f) /\ f \in Failing
    BY <2>3, <2>4
  <2> QED BY <2>1, <2>2, <2>4, <2>5
<1>2. i \in Task /\ i # 0 /\ i <= Len(tasks) /\ tasks[i] = me.kind
  <2>1. me.todo \notin Asking
    BY <1>1, ClassesApart
  <2> QED BY <2>1, CallerAt DEF SendTask
<1>3. CASE supervisor.phase # "loop"
  <2>1. Continue(c, me, f) /\ channel' = channel
    BY <1>1, <1>3 DEF SendTask
  <2>2. reg' = reg /\ UNCHANGED <<tasks, running, shutdown>>
    BY <2>1 DEF SendTask, running
  <2>3. SameBut(i)
    BY <2>2 DEF SameBut, TaskInv, TypeOK
  <2> HIDE DEF f
  <2> QED BY <1>1, <2>1, <2>2, <2>3, FailingContinues
<1>4. CASE supervisor.phase = "loop"
  <2>1. /\ Continue(c, me, u) /\ channel' = Append(channel, i)
        /\ calls' = calls /\ reg' = reg /\ tasks' = tasks /\ joinSet' = joinSet
        /\ supervisor' = supervisor /\ shutdown' = shutdown
    BY <1>1, <1>4 DEF SendTask
  <2> DEFINE n == Len(channel)
  <2>2. n \in Nat /\ channel \in Seq(Task) /\ TypeOK
    BY LenProperties DEF TaskInv, TypeOK
  <2>3. /\ channel' \in Seq(Task) /\ Len(channel') = n + 1 /\ channel'[n + 1] = i
        /\ \A k \in 1 .. n : channel'[k] = channel[k]
    BY <1>2, <2>1, <2>2, AppendProperties
  <2>4. 1 .. Len(channel') = (1 .. n) \cup {n + 1} /\ n + 1 \notin 1 .. n
    BY <2>2, <2>3
  <2>5. u \in Todos
    BY <1>1 DEF Todos, Asking
  <2> HIDE DEF u, n
  <2>6. PICK y \in Callers :
            /\ caller' = [caller EXCEPT ![c] = y]
            /\ \/ y = Idle /\ u = <<>>
               \/ u # <<>> /\ y.todo = u /\ y.id = i /\ y.kind = me.kind
    BY <1>1, <2>1, <2>2, <2>5, ContinueGoes
  <2>7. \/ y = Idle /\ me.kind # "once"
        \/ y.todo = <<"key">> /\ y.id = i /\ y.kind = me.kind /\ GoodTodo(y.kind, y.todo)
    BY <1>1, <2>6 DEF GoodTodo
  <2>8. /\ caller'[c] = y
        /\ \A d \in Caller : d # c => caller'[d] = caller[d]
        /\ \A d \in Caller : caller'[d].id \in {0, caller[d].id}
        /\ \A d \in Caller : caller'[d].kind \in {"none", caller[d].kind}
        /\ \A d \in Caller : caller'[d].kind = "once" <=> caller[d].kind = "once"
    BY <2>6, <2>7, IdleTyped DEF TaskInv, TypeOK
  <2>9. \A d \in Caller :
        /\ caller'[d].todo \in Making => d # c /\ caller[d].todo \in Making
        /\ caller'[d].todo \in Sending => d # c /\ caller[d].todo \in Sending
        /\ caller'[d].todo \in Failing => d # c /\ caller[d].todo \in Failing
        /\ caller[d].todo = <<"key">> => d # c /\ caller'[d].todo = <<"key">>
    <3>1. y.todo \in {<<>>, <<"key">>} /\ <<>> \in Asking
      BY <2>7, IdleTyped DEF Asking
    <3>2. y.todo \notin Making /\ y.todo \notin Sending /\ y.todo \notin Failing
      BY <3>1, ClassesApart
    <3> QED BY <1>1, <2>8, <3>2, ClassesApart
  <2>10. ~Placed(i) /\ ~InChannel(i) /\ joinSet[i] = "absent"
    BY <1>1, <1>2 DEF TaskInv, PlaceInv, Placed
  <2>11. \A j \in Task : j # i => /\ InChannel(j)' <=> InChannel(j)
                                  /\ Placed(j)' <=> Placed(j)
                                  /\ Live(j)' <=> Live(j)
    <3>1. \A j \in Task : j # i => (InChannel(j)' <=> InChannel(j))
      BY <2>3, <2>4 DEF InChannel, n
    <3> QED BY <2>1, <3>1 DEF Placed, Live
  <2>12. \A j \in Task : Fit(j)' <=> Fit(j)
    BY <2>1 DEF Fit
  <2>13. TypeOK'
    BY <2>1, <2>3, <2>6 DEF TaskInv, TypeOK
  <2>14. CallInv'
    <3>1. CallOK(y, tasks, reg.tripped)
      <4>1. CASE y = Idle
        BY <4>1, IdleTyped DEF CallOK, CallTodo, Asking
      <4>2. CASE y.todo = <<"key">> /\ y.id = i /\ y.kind = me.kind /\ GoodTodo(y.kind, y.todo)
        <5>1. y.todo \notin Asking
          BY <4>2, ClassesApart
        <5> QED BY <1>2, <4>2, <5>1 DEF CallOK, GoodTodo
      <4> QED BY <2>7, <4>1, <4>2
    <3> QED BY <2>1, <2>8, <3>1 DEF TaskInv, CallInv
  <2>15. RoomInv'
    <3>1. Pending' \subseteq Pending
      <4>1. \A d \in Caller : d # c => (d \in Pending' => d \in Pending)
        BY <2>8 DEF Pending
      <4>2. c \notin Pending'
        BY <1>2, <2>7, <2>8, IdleTyped DEF Pending
      <4>3. Pending' \subseteq Caller
        BY DEF Pending
      <4> QED BY <4>1, <4>2, <4>3
    <3> QED BY <2>1, <3>1, PendingShrinks DEF TaskInv
  <2>16. PlaceInv'
    <3>1. \A j \in Task : Placed(j)' => j <= Len(tasks')
      BY <1>2, <2>1, <2>11 DEF TaskInv, PlaceInv
    <3>2. ASSUME NEW d \in Caller, caller'[d].todo \in Making \cup Sending \cup Failing
          PROVE  ~Placed(caller[d].id)' /\ caller'[d] = caller[d]
      <4>1. d # c /\ caller[d].todo \in Making \cup Sending \cup Failing /\ caller'[d] = caller[d]
        BY <2>8, <2>9, <3>2
      <4>2. caller[d].id # 0 /\ caller[d].id \in Task
        BY <4>1, ClassesApart DEF TaskInv, CallInv, CallOK, TypeOK, Callers
      <4>3. caller[d].id # i /\ ~Placed(caller[d].id)
        BY <4>1, <4>2 DEF TaskInv, PlaceInv
      <4> QED BY <2>8, <2>11, <4>1, <4>2, <4>3
    <3>3. \A d, e \in Caller : caller'[d].id = caller'[e].id /\ caller'[d].id # 0 => d = e
      BY <2>8 DEF TaskInv, PlaceInv
    <3> QED BY <3>1, <3>2, <3>3 DEF PlaceInv
  <2>17. ChannelInv'
    <3>1. \A k \in 1 .. n : channel[k] # i
      BY <2>10 DEF InChannel, n
    <3>2. \A k, l \in 1 .. n : channel[k] = channel[l] => k = l
      BY DEF TaskInv, ChannelInv, n
    <3>3. \A k, l \in 1 .. Len(channel') : channel'[k] = channel'[l] => k = l
      BY <2>3, <2>4, <3>1, <3>2
    <3>4. \A k \in 1 .. Len(channel') : joinSet[channel'[k]] = "absent"
      BY <2>3, <2>4, <2>10 DEF TaskInv, ChannelInv, n
    <3> QED BY <1>4, <2>1, <3>3, <3>4 DEF ChannelInv
  <2>18. SupervisorInv'
    <3>1. supervisor.todo # <<>> => supervisor.id \in Task /\ supervisor.id # i /\ ~Placed(supervisor.id)
      BY <1>1, <1>4 DEF TaskInv, SupervisorInv
    <3>2. supervisor.todo # <<>> => ~Placed(supervisor.id)'
      BY <2>1, <2>11, <3>1
    <3>3. supervisor.todo # <<>> => supervisor.id <= Len(tasks) /\ \A d \in Caller :
            caller'[d].todo \in Making \cup Sending => caller'[d].id # supervisor.id
      BY <1>4, <2>8, <2>9 DEF TaskInv, SupervisorInv
    <3> QED BY <1>4, <2>1, <3>1, <3>2, <3>3 DEF SupervisorInv
  <2>19. FitInv'
    <3>1. me.kind # "blocking" => Fit(i)
      BY <1>1, <1>4 DEF TaskInv, FitInv
    <3>2. \A j \in Task : Live(j)' /\ tasks'[j] # "blocking" => Fit(j)'
      BY <1>2, <2>1, <2>11, <2>12, <3>1 DEF TaskInv, FitInv
    <3>3. \A d \in Caller : caller[d].todo \in Sending => caller[d].id \in Task
      BY ClassesApart DEF TaskInv, CallInv, CallOK, TypeOK, Callers
    <3>4. ASSUME NEW d \in Caller, caller'[d].kind # "blocking"
          PROVE  /\ caller'[d].todo \in Making => caller'[d].id \in reg.tokens
                 /\ caller'[d].todo \in Sending => Fit(caller[d].id)' /\ caller'[d] = caller[d]
      BY <1>4, <2>8, <2>9, <2>12, <3>3, <3>4 DEF TaskInv, FitInv
    <3> QED BY <2>1, <3>2, <3>4 DEF FitInv
  <2>20. HoldInv'
    BY <2>1, <2>8 DEF TaskInv, HoldInv
  <2>21. OnceInv'
    <3> SUFFICES ASSUME NEW j \in Task, Live(j)', tasks[j] = "once", j \notin reg.tripped
                 PROVE  \/ \E d \in Caller : caller'[d].kind = "once" /\ caller'[d].todo = <<"key">> /\ caller'[d].id = j
                        \/ reg'.keys["once"] = j /\ \A d \in Caller : caller'[d].kind # "once"
      BY <2>1 DEF OnceInv
    <3>1. CASE j = i
      BY <1>2, <2>7, <2>8, <3>1
    <3>2. CASE j # i /\ \E d \in Caller : caller[d].kind = "once" /\ caller[d].todo = <<"key">> /\ caller[d].id = j
      BY <2>8, <2>9, <3>2
    <3>3. CASE reg.keys["once"] = j /\ \A d \in Caller : caller[d].kind # "once"
      BY <2>1, <2>8, <3>3
    <3>4. j # i => Live(j)
      BY <2>11
    <3> QED BY <3>1, <3>2, <3>3, <3>4 DEF TaskInv, OnceInv
  <2> QED
    BY <2>13, <2>14, <2>15, <2>16, <2>17, <2>18, <2>19, <2>20, <2>21 DEF TaskInv
<1> QED BY <1>3, <1>4

\* The task is written under its key
LEMMA StepInsertKey ==
  ASSUME TaskInv, NEW c \in Caller, InsertKey(c)
  PROVE  TaskInv'
<1> DEFINE me == caller[c]
           i == me.id
           todo == Tail(me.todo)
<1>1. /\ me \in Callers /\ Rest(c) = todo
      /\ \/ me.kind \in {"once", "unique"} /\ me.todo = <<"key">> /\ todo = <<>>
         \/ me.kind = "progress" /\ me.todo \in Sending /\ todo \in Sending /\ GoodTodo(me.kind, todo)
  BY CallerAt, AfterKey DEF InsertKey
<1>2. i \in Task /\ i # 0 /\ me.kind \in Key
  <2>1. me.todo \notin Asking
    BY <1>1, ClassesApart
  <2>2. me.kind \in Key
    BY <1>1 DEF Key
  <2> QED BY <2>1, <2>2, CallerAt DEF InsertKey
<1>3. /\ Continue(c, me, todo)
      /\ reg' = [reg EXCEPT !.keys[me.kind] = i, !.holder = {}]
      /\ reg.holder \subseteq {c}
  BY <1>1 DEF InsertKey, MayUseKeys
<1>4. /\ calls' = calls /\ channel' = channel /\ joinSet' = joinSet /\ supervisor' = supervisor
      /\ tasks' = tasks /\ shutdown' = shutdown
  BY DEF InsertKey, running
<1>5. todo \in Todos /\ TypeOK /\ reg \in Regs
  BY <1>1 DEF GoodTodo, Todos, Asking, TaskInv, TypeOK
<1>6. /\ reg' \in Regs /\ reg'.tripped = reg.tripped /\ reg'.tokens = reg.tokens
      /\ reg'.state = reg.state /\ reg'.holder = {}
      /\ reg'.keys["once"] = IF me.kind = "once" THEN i ELSE reg.keys["once"]
  <2> DEFINE new == [reg.keys EXCEPT ![me.kind] = i]
  <2>1. /\ new \in [Key -> Task \cup {0}]
        /\ new["once"] = IF me.kind = "once" THEN i ELSE reg.keys["once"]
    BY <1>2, <1>5 DEF Regs, Key
  <2>2. reg' = [reg EXCEPT !.keys = new, !.holder = {}]
    BY <1>3
  <2> HIDE DEF new
  <2>3. \A r \in Regs : LET z == [r EXCEPT !.keys = new, !.holder = {}]
                        IN  /\ z \in Regs /\ z.tripped = r.tripped /\ z.tokens = r.tokens
                            /\ z.state = r.state /\ z.holder = {} /\ z.keys = new
    BY <2>1 DEF Regs
  <2> QED BY <1>5, <2>1, <2>2, <2>3
<1> HIDE DEF todo
<1>7. PICK y \in Callers :
            /\ caller' = [caller EXCEPT ![c] = y]
            /\ \/ y = Idle /\ todo = <<>>
               \/ todo # <<>> /\ y.todo = todo /\ y.id = i /\ y.kind = me.kind
  BY <1>1, <1>3, <1>5, ContinueGoes
<1>8. \/ y = Idle /\ me.kind \in {"once", "unique"} /\ me.todo = <<"key">>
      \/ /\ me.kind = "progress" /\ me.todo \in Sending /\ y.id = i /\ y.kind = me.kind
         /\ y.todo \in Sending /\ GoodTodo(y.kind, y.todo)
  BY <1>1, <1>7 DEF GoodTodo
<1>9. /\ caller'[c] = y
      /\ \A d \in Caller : d # c => caller'[d] = caller[d]
      /\ \A d \in Caller : caller'[d].id \in {0, caller[d].id}
      /\ \A d \in Caller : caller'[d].kind \in {"none", caller[d].kind}
  BY <1>7, <1>8, IdleTyped DEF TaskInv, TypeOK
<1>10. \A d \in Caller : caller[d].kind = "once" => d = c /\ caller'[d] = Idle
  BY <1>3, <1>8, <1>9 DEF TaskInv, HoldInv
<1>11. \A d \in Caller : caller'[d].kind # "once"
  BY <1>9, <1>10, IdleTyped
<1>12. \A d \in Caller :
        /\ caller'[d].todo \in Making => d # c /\ caller[d].todo \in Making
        /\ caller'[d].todo \in Sending => caller[d].todo \in Sending /\ caller'[d].id = caller[d].id
                                          /\ caller'[d].kind = caller[d].kind
        /\ caller'[d].todo \in Failing => d # c /\ caller[d].todo \in Failing
  <2>1. y.todo \notin Making /\ y.todo \notin Failing /\ (y.todo \in Sending => y # Idle)
    BY <1>8, IdleTyped, ClassesApart DEF Asking
  <2> QED BY <1>8, <1>9, <2>1
<1>13. \A j : (InChannel(j)' <=> InChannel(j)) /\ (Placed(j)' <=> Placed(j)) /\ (Live(j)' <=> Live(j))
  BY <1>4 DEF InChannel, Placed, Live
<1>14. \A j : Fit(j)' <=> Fit(j)
  BY <1>6 DEF Fit
<1>15. TypeOK'
  BY <1>4, <1>6, <1>7 DEF TaskInv, TypeOK
<1>16. CallInv'
  <2>1. CallOK(y, tasks, reg.tripped)
    <3>1. CASE y = Idle
      BY <3>1, IdleTyped DEF CallOK, CallTodo, Asking
    <3>2. CASE y.id = i /\ y.kind = me.kind /\ y.todo \in Sending /\ GoodTodo(y.kind, y.todo)
      <4>1. y.todo \notin Asking
        BY <3>2, ClassesApart
      <4>2. i <= Len(tasks) /\ tasks[i] = me.kind
        BY <1>2 DEF TaskInv, CallInv, CallOK
      <4> QED BY <1>2, <3>2, <4>1, <4>2 DEF CallOK, GoodTodo
    <3> QED BY <1>8, <3>1, <3>2
  <2> QED BY <1>4, <1>6, <1>9, <2>1 DEF TaskInv, CallInv
<1>17. RoomInv'
  <2>1. Pending' \subseteq Pending
    <3>1. \A d \in Caller : d # c => (d \in Pending' => d \in Pending)
      BY <1>9 DEF Pending
    <3>2. c \notin Pending'
      BY <1>2, <1>8, <1>9, IdleTyped DEF Pending
    <3>3. Pending' \subseteq Caller
      BY DEF Pending
    <3> QED BY <3>1, <3>2, <3>3
  <2> QED BY <1>4, <2>1, PendingShrinks DEF TaskInv
<1>18. PlaceInv'
  <2>1. \A d \in Caller : caller'[d].todo \in Making \cup Sending \cup Failing =>
           caller'[d].id = caller[d].id /\ ~Placed(caller[d].id)'
    BY <1>9, <1>12, <1>13 DEF TaskInv, PlaceInv
  <2>2. \A d, e \in Caller : caller'[d].id = caller'[e].id /\ caller'[d].id # 0 => d = e
    BY <1>9 DEF TaskInv, PlaceInv
  <2> QED BY <1>4, <1>13, <2>1, <2>2 DEF TaskInv, PlaceInv
<1>19. ChannelInv'
  BY <1>4 DEF TaskInv, ChannelInv
<1>20. SupervisorInv'
  <2>1. \A d \in Caller : caller'[d].todo \in Making \cup Sending =>
           caller[d].todo \in Making \cup Sending /\ caller'[d].id = caller[d].id
    BY <1>9, <1>12
  <2> QED BY <1>4, <1>6, <1>13, <2>1 DEF TaskInv, SupervisorInv
<1>21. FitInv'
  BY <1>4, <1>6, <1>9, <1>12, <1>13, <1>14 DEF TaskInv, FitInv
<1>22. HoldInv'
  BY <1>11 DEF HoldInv
<1>23. OnceInv'
  <2> SUFFICES ASSUME NEW j \in Task, Live(j), tasks[j] = "once", j \notin reg.tripped
               PROVE  reg'.keys["once"] = j
    BY <1>4, <1>6, <1>11, <1>13 DEF OnceInv
  <2>1. CASE \E d \in Caller : caller[d].kind = "once" /\ caller[d].todo = <<"key">> /\ caller[d].id = j
    BY <1>6, <1>10, <2>1
  <2>2. CASE reg.keys["once"] = j /\ \A d \in Caller : caller[d].kind # "once"
    BY <1>6, <2>2
  <2> QED BY <2>1, <2>2 DEF TaskInv, OnceInv
<1> QED
  BY <1>15, <1>16, <1>17, <1>18, <1>19, <1>20, <1>21, <1>22, <1>23 DEF TaskInv

LEMMA StepShutdown ==
  ASSUME TaskInv, Shutdown
  PROVE  TaskInv'
<1>1. /\ calls' = calls /\ channel' = channel /\ joinSet' = joinSet /\ supervisor' = supervisor
      /\ tasks' = tasks /\ shutdown' \in BOOLEAN /\ caller' = caller /\ reg' = reg
  BY DEF Shutdown, running
<1>2. \A j : (InChannel(j)' <=> InChannel(j)) /\ (Placed(j)' <=> Placed(j)) /\ (Live(j)' <=> Live(j))
  BY <1>1 DEF InChannel, Placed, Live
<1>3. \A j : Fit(j)' <=> Fit(j)
  BY <1>1 DEF Fit
<1>4. TypeOK' /\ CallInv' /\ PlaceInv' /\ ChannelInv' /\ HoldInv'
  BY <1>1, <1>2 DEF TaskInv, TypeOK, CallInv, PlaceInv, ChannelInv, HoldInv
<1>5. RoomInv'
  BY <1>1 DEF TaskInv, RoomInv, Pending
<1>6. SupervisorInv'
  BY <1>1, <1>2 DEF TaskInv, SupervisorInv
<1>7. FitInv'
  BY <1>1, <1>2, <1>3 DEF TaskInv, FitInv
<1>8. OnceInv'
  BY <1>1, <1>2 DEF TaskInv, OnceInv
<1> QED BY <1>4, <1>5, <1>6, <1>7, <1>8 DEF TaskInv

-----------------------------------------------------------------------------
(* Steps of the supervisor. *)

Outcomes == {<<>>} \cup TakenDown \cup Cancelled

LEMMA Taking ==
    /\ \A s : s = <<"token", "key", "check", "completed">> =>
         Head(s) = "token" /\ Tail(s) = <<"key", "check", "completed">>
    /\ \A s : s = <<"token", "key", "check", "failed">> =>
         Head(s) = "token" /\ Tail(s) = <<"key", "check", "failed">>
    /\ \A s : s = <<"key", "check", "completed">> => Head(s) = "key" /\ Tail(s) = <<"check", "completed">>
    /\ \A s : s = <<"key", "check", "failed">> => Head(s) = "key" /\ Tail(s) = <<"check", "failed">>
    /\ \A s : s = <<"check", "completed">> => Head(s) = "check" /\ Tail(s) = <<"completed">>
    /\ \A s : s = <<"check", "failed">> => Head(s) = "check" /\ Tail(s) = <<"failed">>
    /\ \A s : s = <<"completed">> => Head(s) = "completed" /\ Tail(s) = <<>>
    /\ \A s : s = <<"failed">> => Head(s) = "failed" /\ Tail(s) = <<>>
<1>1. \A s : s = <<"token", "key", "check", "completed">> =>
         Head(s) = "token" /\ Tail(s) = <<"key", "check", "completed">>
  OBVIOUS
<1>2. \A s : s = <<"token", "key", "check", "failed">> =>
         Head(s) = "token" /\ Tail(s) = <<"key", "check", "failed">>
  OBVIOUS
<1>3. \A s : s = <<"key", "check", "completed">> => Head(s) = "key" /\ Tail(s) = <<"check", "completed">>
  OBVIOUS
<1>4. \A s : s = <<"key", "check", "failed">> => Head(s) = "key" /\ Tail(s) = <<"check", "failed">>
  OBVIOUS
<1>5. \A s : s = <<"check", "completed">> => Head(s) = "check" /\ Tail(s) = <<"completed">>
  OBVIOUS
<1>6. \A s : s = <<"check", "failed">> => Head(s) = "check" /\ Tail(s) = <<"failed">>
  OBVIOUS
<1>7. \A s : s = <<"completed">> => Head(s) = "completed" /\ Tail(s) = <<>>
  OBVIOUS
<1>8. \A s : s = <<"failed">> => Head(s) = "failed" /\ Tail(s) = <<>>
  OBVIOUS
<1> QED BY <1>1, <1>2, <1>3, <1>4, <1>5, <1>6, <1>7, <1>8

LEMMA Cancelling ==
    /\ \A s : s = <<"token", "key", "cancel">> => Head(s) = "token" /\ Tail(s) = <<"key", "cancel">>
    /\ \A s : s = <<"key", "cancel">> => Head(s) = "key" /\ Tail(s) = <<"cancel">>
    /\ \A s : s = <<"trip", "cancel">> => Head(s) = "trip" /\ Tail(s) = <<"cancel">>
    /\ \A s : s = <<"cancel">> => Head(s) = "cancel" /\ Tail(s) = <<>>
<1>1. \A s : s = <<"token", "key", "cancel">> => Head(s) = "token" /\ Tail(s) = <<"key", "cancel">>
  OBVIOUS
<1>2. \A s : s = <<"key", "cancel">> => Head(s) = "key" /\ Tail(s) = <<"cancel">>
  OBVIOUS
<1>3. \A s : s = <<"trip", "cancel">> => Head(s) = "trip" /\ Tail(s) = <<"cancel">>
  OBVIOUS
<1>4. \A s : s = <<"cancel">> => Head(s) = "cancel" /\ Tail(s) = <<>>
  OBVIOUS
<1> QED BY <1>1, <1>2, <1>3, <1>4

LEMMA OutcomesGoOn ==
  ASSUME NEW s \in Outcomes, s # <<>>
  PROVE  /\ Tail(s) \in Outcomes
         /\ Head(s) = "trip" => s = <<"trip", "cancel">> /\ Tail(s) = <<"cancel">>
         /\ Head(s) = "cancel" => s = <<"cancel">> /\ Tail(s) = <<>>
         /\ s \in {<<"trip", "cancel">>, <<"cancel">>} => Head(s) \in {"trip", "cancel"}
<1>1. CASE s \in TakenDown
  <2>1. Tail(s) \in Outcomes /\ Head(s) # "trip" /\ Head(s) # "cancel"
    BY <1>1, Taking DEF TakenDown, Outcomes
  <2> QED BY <2>1, Cancelling
<1>2. CASE s \in Cancelled
  BY <1>2, Cancelling DEF Cancelled, Outcomes
<1> QED BY <1>1, <1>2 DEF Outcomes

\* What is known of the supervisor at a section
LEMMA SupervisorAt ==
  ASSUME TaskInv, NEW section, Due(section)
  PROVE  /\ supervisor.todo \in Outcomes /\ supervisor.todo # <<>> /\ Head(supervisor.todo) = section
         /\ supervisor.id \in Task
         /\ section \notin {"trip", "cancel"} => supervisor.phase # "others"
<1>1. supervisor.todo \in Outcomes /\ supervisor.todo # <<>> /\ Head(supervisor.todo) = section
  BY DEF TaskInv, TypeOK, Supervisors, Outcomes, Due
<1>2. supervisor.phase = "others" => supervisor.todo \in {<<"trip", "cancel">>, <<"cancel">>}
  BY <1>1 DEF TaskInv, SupervisorInv
<1> QED BY <1>1, <1>2, OutcomesGoOn DEF TaskInv, SupervisorInv

\* The supervisor goes on with a task
LEMMA SupervisorMoves ==
  ASSUME TaskInv, NEW todo \in Outcomes, GoOn(todo), supervisor.todo # <<>>,
         reg' \in Regs, reg'.holder = reg.holder, reg.tripped \subseteq reg'.tripped,
         \A j \in Task \ {supervisor.id} : j \in reg.tokens => j \in reg'.tokens,
         \A j \in Task \ {supervisor.id} : Fit(j) => Fit(j)',
         \A j \in Task : Live(j) /\ tasks[j] # "blocking" => Fit(j)',
         \A j \in Task : Live(j) /\ reg.keys["once"] = j => reg'.keys["once"] = j,
         supervisor.phase = "others" =>
           /\ todo \in {<<>>, <<"cancel">>}
           /\ todo = <<"cancel">> => \/ supervisor.id \in reg'.tripped
                                     \/ ~Live(supervisor.id) \/ tasks[supervisor.id] = "blocking",
         UNCHANGED <<calls, tasks, channel, joinSet, caller, shutdown>>
  PROVE  TaskInv'
<1> DEFINE i == supervisor.id
<1>1. i \in Task /\ supervisor \in Supervisors /\ supervisor.todo \in Outcomes
  BY DEF TaskInv, SupervisorInv, TypeOK, Supervisors, Outcomes
<1>2. /\ supervisor' \in Supervisors /\ supervisor'.phase = supervisor.phase /\ supervisor'.todo = todo
      /\ todo # <<>> => supervisor'.id = i
  <2> DEFINE k == IF todo = <<>> THEN 0 ELSE i
  <2>1. k \in Task \cup {0} /\ (todo # <<>> => k = i)
    BY <1>1
  <2>2. supervisor' = [supervisor EXCEPT !.todo = todo, !.id = k]
    BY DEF GoOn
  <2> HIDE DEF k
  <2>3. \A s \in Supervisors : LET z == [s EXCEPT !.todo = todo, !.id = k]
                               IN  z \in Supervisors /\ z.phase = s.phase /\ z.todo = todo /\ z.id = k
    BY <2>1 DEF Supervisors, Outcomes
  <2> QED BY <1>1, <2>1, <2>2, <2>3
<1>3. \A j : (InChannel(j)' <=> InChannel(j)) /\ (Placed(j)' <=> Placed(j)) /\ (Live(j)' <=> Live(j))
  BY DEF InChannel, Placed, Live
<1>4. TypeOK'
  BY <1>2 DEF TaskInv, TypeOK
<1>5. CallInv'
  BY DEF TaskInv, CallInv, CallOK
<1>6. RoomInv'
  BY DEF TaskInv, RoomInv, Pending
<1>7. PlaceInv'
  BY <1>3 DEF TaskInv, PlaceInv
<1>8. ChannelInv'
  BY <1>2 DEF TaskInv, ChannelInv
<1>9. SupervisorInv'
  <2>1. todo # <<>> => /\ supervisor'.id \in Task
                       /\ supervisor.phase # "others" => ~Placed(supervisor.id)
    BY <1>1, <1>2 DEF TaskInv, SupervisorInv
  <2>2. todo # <<>> /\ supervisor.phase # "others" => ~Placed(supervisor.id)'
    BY <1>2, <1>3, <2>1
  <2>3. todo # <<>> /\ supervisor.phase = "loop" =>
         i <= Len(tasks) /\ \A c \in Caller : caller[c].todo \in Making \cup Sending => caller[c].id # i
    BY DEF TaskInv, SupervisorInv
  <2>4. supervisor.phase = "others" =>
           /\ todo \in {<<>>, <<"cancel">>}
           /\ todo = <<"cancel">> => \/ supervisor'.id \in reg'.tripped
                                     \/ ~Live(supervisor.id)' \/ tasks[supervisor'.id] = "blocking"
    <3>1. todo = <<"cancel">> => supervisor'.id = supervisor.id
      BY <1>2
    <3> QED BY <1>3, <3>1
  <2> QED BY <1>2, <2>1, <2>2, <2>3, <2>4 DEF SupervisorInv
<1>10. FitInv'
  <2>1. \A j \in Task : Live(j)' /\ tasks'[j] # "blocking" => Fit(j)'
    BY <1>3
  <2>2. ASSUME supervisor.phase = "loop", NEW c \in Caller, caller[c].todo \in Making \cup Sending
        PROVE  caller[c].id \in Task \ {i}
    <3>1. caller[c].id \in Task
      BY <2>2, ClassesApart DEF TaskInv, CallInv, CallOK, TypeOK, Callers
    <3>2. caller[c].id # i
      BY <2>2 DEF TaskInv, SupervisorInv
    <3> QED BY <3>1, <3>2
  <2>3. ASSUME supervisor.phase = "loop", NEW c \in Caller, caller[c].kind # "blocking"
        PROVE  /\ caller[c].todo \in Making => caller[c].id \in reg'.tokens
               /\ caller[c].todo \in Sending => Fit(caller[c].id)'
    BY <2>2, <2>3 DEF TaskInv, FitInv
  <2> QED BY <1>2, <2>1, <2>3 DEF FitInv
<1>11. HoldInv'
  BY DEF TaskInv, HoldInv
<1>12. OnceInv'
  <2> SUFFICES ASSUME NEW j \in Task, Live(j), tasks[j] = "once", j \notin reg.tripped
               PROVE  \/ \E c \in Caller : caller[c].kind = "once" /\ caller[c].todo = <<"key">> /\ caller[c].id = j
                      \/ reg'.keys["once"] = j /\ \A c \in Caller : caller[c].kind # "once"
    BY <1>3 DEF OnceInv
  <2> QED BY DEF TaskInv, OnceInv
<1> QED
  BY <1>4, <1>5, <1>6, <1>7, <1>8, <1>9, <1>10, <1>11, <1>12 DEF TaskInv

\* It takes down a task that is nowhere else
LEMMA SupervisorTakesDown ==
  ASSUME TaskInv, NEW todo \in Outcomes, GoOn(todo), supervisor.todo # <<>>, supervisor.phase # "others",
         SameBut(supervisor.id), UNCHANGED <<calls, tasks, channel, joinSet, caller, shutdown>>
  PROVE  TaskInv'
<1>1. ~Live(supervisor.id)
  BY DEF TaskInv, SupervisorInv, Live, Placed
<1>2. \A j \in Task \ {supervisor.id} : Fit(j) => Fit(j)'
  BY DEF SameBut, Fit
<1>3. \A j \in Task : Live(j) /\ tasks[j] # "blocking" => Fit(j)'
  BY <1>1, <1>2 DEF TaskInv, FitInv
<1>4. \A j \in Task : Live(j) /\ reg.keys["once"] = j => reg'.keys["once"] = j
  BY <1>1 DEF SameBut
<1>5. /\ reg' \in Regs /\ reg'.holder = reg.holder /\ reg.tripped \subseteq reg'.tripped
      /\ \A j \in Task \ {supervisor.id} : j \in reg.tokens => j \in reg'.tokens
  BY DEF SameBut
<1> QED BY <1>2, <1>3, <1>4, <1>5, SupervisorMoves

LEMMA StepCollectToken ==
  ASSUME TaskInv, CollectToken
  PROVE  TaskInv'
<1> DEFINE todo == Tail(supervisor.todo)
<1>1. todo \in Outcomes /\ supervisor.todo # <<>> /\ supervisor.phase # "others"
  BY SupervisorAt, OutcomesGoOn DEF CollectToken
<1>2. GoOn(todo) /\ UNCHANGED <<calls, tasks, channel, joinSet, caller, shutdown>>
  BY DEF CollectToken, Done
<1>3. SameBut(supervisor.id)
  BY DropTokenChanges DEF CollectToken, TaskInv, TypeOK
<1> HIDE DEF todo
<1> QED BY <1>1, <1>2, <1>3, SupervisorTakesDown

LEMMA StepCollectKey ==
  ASSUME TaskInv, CollectKey
  PROVE  TaskInv'
<1> DEFINE todo == Tail(supervisor.todo)
<1>1. todo \in Outcomes /\ supervisor.todo # <<>> /\ supervisor.phase # "others"
  BY SupervisorAt, OutcomesGoOn DEF CollectKey
<1>2. GoOn(todo) /\ UNCHANGED <<calls, tasks, channel, joinSet, caller, shutdown>>
  BY DEF CollectKey, Done
<1>3. SameBut(supervisor.id)
  BY ForgetKeyChanges DEF CollectKey, TaskInv, TypeOK
<1> HIDE DEF todo
<1> QED BY <1>1, <1>2, <1>3, SupervisorTakesDown

LEMMA StepCheckCancelled ==
  ASSUME TaskInv, CheckCancelled
  PROVE  TaskInv'
<1> DEFINE todo == IF reg.state[supervisor.id] = "cancelled" THEN <<>> ELSE Tail(supervisor.todo)
<1>1. Tail(supervisor.todo) \in Outcomes /\ supervisor.todo # <<>> /\ supervisor.phase # "others"
  BY SupervisorAt, OutcomesGoOn DEF CheckCancelled
<1>2. todo \in Outcomes
  BY <1>1 DEF Outcomes
<1>3. GoOn(todo) /\ UNCHANGED <<calls, tasks, channel, joinSet, caller, shutdown>> /\ reg' = reg
  BY DEF CheckCancelled
<1>4. SameBut(supervisor.id)
  BY <1>3 DEF SameBut, TaskInv, TypeOK
<1> HIDE DEF todo
<1> QED BY <1>1, <1>2, <1>3, <1>4, SupervisorTakesDown

LEMMA StepWriteOutcome ==
  ASSUME TaskInv, WriteOutcome
  PROVE  TaskInv'
<1> DEFINE todo == Tail(supervisor.todo)
<1>1. PICK end \in {"completed", "failed"} : Due(end) /\ Settle(supervisor.id, end)
  BY DEF WriteOutcome
<1>2. todo \in Outcomes /\ supervisor.todo # <<>> /\ supervisor.phase # "others" /\ supervisor.id \in Task
  BY <1>1, SupervisorAt, OutcomesGoOn
<1>3. GoOn(todo) /\ UNCHANGED <<calls, tasks, channel, joinSet, caller, shutdown>>
  BY DEF WriteOutcome, Done
<1>4. SameBut(supervisor.id)
  BY <1>1, <1>2, SettleChanges DEF TaskInv, TypeOK, States
<1> HIDE DEF todo
<1> QED BY <1>2, <1>3, <1>4, SupervisorTakesDown

\* A task that runs is recorded as cancelled after its token was tripped
LEMMA StepSupervisorCancels ==
  ASSUME TaskInv, SupervisorCancels
  PROVE  TaskInv'
<1> DEFINE todo == Tail(supervisor.todo)
           i == supervisor.id
<1>1. /\ todo \in Outcomes /\ todo = <<>> /\ supervisor.todo # <<>> /\ supervisor.todo = <<"cancel">>
      /\ i \in Task
  BY SupervisorAt, OutcomesGoOn DEF SupervisorCancels
<1>2. GoOn(todo) /\ UNCHANGED <<calls, tasks, channel, joinSet, caller, shutdown>>
  BY DEF SupervisorCancels, Done
<1>3. /\ SameBut(i) /\ reg'.tokens = reg.tokens /\ reg'.keys = reg.keys
      /\ \A j \in Task \ {i} : reg'.state[j] = reg.state[j]
  BY <1>1, SetCancelledChanges DEF SupervisorCancels, TaskInv, TypeOK
<1> HIDE DEF todo
<1>4. CASE supervisor.phase # "others"
  BY <1>1, <1>2, <1>3, <1>4, SupervisorTakesDown
<1>5. CASE supervisor.phase = "others"
  <2>1. \A j \in Task \ {i} : Fit(j) => Fit(j)'
    BY <1>3 DEF SameBut, Fit
  <2>2. Live(i) /\ tasks[i] # "blocking" => i \in reg.tripped
    BY <1>1, <1>5 DEF TaskInv, SupervisorInv
  <2>3. \A j \in Task : Live(j) /\ tasks[j] # "blocking" => j \in reg.tokens /\ Fit(j)
    BY DEF TaskInv, FitInv, Fit
  <2>4. Live(i) /\ tasks[i] # "blocking" => i \in reg'.tokens /\ i \in reg'.tripped
    BY <1>1, <1>3, <2>2, <2>3 DEF SameBut
  <2>5. \A j \in Task : Live(j) /\ tasks[j] # "blocking" => j \in reg'.tokens /\ (reg'.state[j] = "running" \/ j \in reg'.tripped)
    BY <1>3, <2>3, <2>4 DEF SameBut, Fit
  <2>6. \A j \in Task : Live(j) /\ tasks[j] # "blocking" => Fit(j)'
    BY <2>5 DEF Fit
  <2>7. /\ reg' \in Regs /\ reg'.holder = reg.holder /\ reg.tripped \subseteq reg'.tripped
        /\ \A j \in Task \ {i} : j \in reg.tokens => j \in reg'.tokens
        /\ \A j \in Task : Live(j) /\ reg.keys["once"] = j => reg'.keys["once"] = j
    BY <1>3 DEF SameBut
  <2> QED BY <1>1, <1>2, <2>1, <2>6, <2>7, SupervisorMoves
<1> QED BY <1>4, <1>5

LEMMA StepSupervisorTrips ==
  ASSUME TaskInv, SupervisorTrips
  PROVE  TaskInv'
<1> DEFINE todo == Tail(supervisor.todo)
           i == supervisor.id
           more == {i} \cap reg.tokens
<1>1. /\ todo \in Outcomes /\ todo = <<"cancel">> /\ supervisor.todo # <<>> /\ i \in Task
  BY SupervisorAt, OutcomesGoOn DEF SupervisorTrips
<1>2. GoOn(todo) /\ UNCHANGED <<calls, tasks, channel, joinSet, caller, shutdown>>
  BY DEF SupervisorTrips, Done
<1>3. /\ reg' \in Regs /\ reg'.tripped = reg.tripped \cup more
      /\ reg'.state = reg.state /\ reg'.tokens = reg.tokens /\ reg'.keys = reg.keys
      /\ reg'.holder = reg.holder
  <2>1. more \in SUBSET Task /\ reg \in Regs /\ reg' = [reg EXCEPT !.tripped = @ \cup more]
    BY <1>1 DEF SupervisorTrips, TaskInv, TypeOK
  <2> HIDE DEF more
  <2> QED BY <2>1, RegTrips
<1>4. \A j : Fit(j) => Fit(j)'
  BY <1>3 DEF Fit
<1>5. Live(i) /\ tasks[i] # "blocking" => i \in reg'.tripped
  BY <1>1, <1>3 DEF TaskInv, FitInv, Fit
<1>6. \A j \in Task : Live(j) /\ tasks[j] # "blocking" => Fit(j)'
  BY <1>4 DEF TaskInv, FitInv
<1> HIDE DEF todo, more
<1>7. reg.tripped \subseteq reg'.tripped
  BY <1>3
<1> QED BY <1>1, <1>2, <1>3, <1>4, <1>5, <1>6, <1>7, SupervisorMoves

\* Tasks move on and no caller does
LEMMA PlacesShrink ==
  ASSUME TaskInv, UNCHANGED <<reg, tasks, caller>>,
         \A j \in Task : Placed(j)' => Placed(j),
         \A j \in Task : Live(j)' => Live(j),
         supervisor'.phase = "loop" => supervisor.phase = "loop"
  PROVE  CallInv' /\ RoomInv' /\ PlaceInv' /\ FitInv' /\ HoldInv' /\ OnceInv'
<1>1. CallInv' /\ HoldInv'
  BY DEF TaskInv, CallInv, CallOK, HoldInv
<1>2. RoomInv'
  BY DEF TaskInv, RoomInv, Pending
<1>3. PlaceInv'
  <2>1. \A c \in Caller : caller[c].todo \in Making \cup Sending \cup Failing => caller[c].id \in Task
    BY ClassesApart DEF TaskInv, CallInv, CallOK, TypeOK, Callers
  <2>2. \A c \in Caller : caller[c].todo \in Making \cup Sending \cup Failing => ~Placed(caller[c].id)'
    BY <2>1 DEF TaskInv, PlaceInv
  <2> QED BY <2>2 DEF TaskInv, PlaceInv
<1>4. FitInv'
  <2>1. \A j : Fit(j)' <=> Fit(j)
    BY DEF Fit
  <2> QED BY <2>1 DEF TaskInv, FitInv
<1>5. OnceInv'
  BY DEF TaskInv, OnceInv
<1> QED BY <1>1, <1>2, <1>3, <1>4, <1>5

\* The first message leaves the channel
LEMMA ChannelGivesUp ==
  ASSUME TaskInv, channel # <<>>, channel' = Tail(channel)
  PROVE  LET i == Head(channel)
         IN  /\ i \in Task /\ InChannel(i) /\ channel' \in Seq(Task) /\ joinSet[i] = "absent"
             /\ \A j : InChannel(j)' <=> InChannel(j) /\ j # i
             /\ \A k, l \in 1 .. Len(channel') : channel'[k] = channel'[l] => k = l
             /\ \A k \in 1 .. Len(channel') : channel'[k] \in Task /\ channel'[k] # i /\ joinSet[channel'[k]] = "absent"
<1> DEFINE i == Head(channel)
           n == Len(channel)
<1>1. channel \in Seq(Task) /\ n \in Nat
  BY LenProperties DEF TaskInv, TypeOK
<1>2. /\ i \in Task /\ i = channel[1] /\ channel' \in Seq(Task) /\ Len(channel') = n - 1
      /\ \A k \in 1 .. n - 1 : channel'[k] = channel[k + 1]
  BY <1>1, HeadTailProperties
<1>3. n >= 1
  BY <1>1, EmptySeq
<1>4. \A k, l \in 1 .. n : channel[k] = channel[l] => k = l
  BY DEF TaskInv, ChannelInv
<1>5. \A k \in 1 .. n : channel[k] \in Task /\ joinSet[channel[k]] = "absent"
  BY <1>1, ElementOfSeq DEF TaskInv, ChannelInv
<1> HIDE DEF i, n
<1>6. 1 \in 1 .. n /\ \A k \in 1 .. n - 1 : k + 1 \in 1 .. n /\ k + 1 # 1
  BY <1>1, <1>3
<1>7. \A k \in 1 .. n : k = 1 \/ (k - 1 \in 1 .. n - 1 /\ (k - 1) + 1 = k)
  BY <1>1
<1>8. \A k \in 1 .. n - 1 : channel'[k] \in Task /\ channel'[k] # i /\ joinSet[channel'[k]] = "absent"
  BY <1>2, <1>4, <1>5, <1>6
<1>9. \A k, l \in 1 .. n - 1 : channel'[k] = channel'[l] => k = l
  <2> SUFFICES ASSUME NEW k \in 1 .. n - 1, NEW l \in 1 .. n - 1, channel[k + 1] = channel[l + 1]
               PROVE  k = l
    BY <1>2
  <2>1. k + 1 = l + 1
    BY <1>4, <1>6
  <2> QED BY <1>1, <2>1
<1>10. \A j : InChannel(j)' <=> \E k \in 1 .. n - 1 : channel'[k] = j
  BY <1>2 DEF InChannel
<1>11. \A j : InChannel(j) <=> \E k \in 1 .. n : channel[k] = j
  BY DEF InChannel, n
<1>12. \A j : InChannel(j)' => InChannel(j) /\ j # i
  BY <1>2, <1>6, <1>8, <1>10, <1>11
<1>13. \A j : InChannel(j) /\ j # i => InChannel(j)'
  <2> SUFFICES ASSUME NEW k \in 1 .. n, channel[k] # i
               PROVE  \E l \in 1 .. n - 1 : channel'[l] = channel[k]
    BY <1>10, <1>11
  <2>1. k - 1 \in 1 .. n - 1 /\ (k - 1) + 1 = k
    BY <1>2, <1>7
  <2>2. channel'[k - 1] = channel[k]
    BY <1>2, <2>1
  <2> QED BY <2>1, <2>2
<1>14. InChannel(i) /\ joinSet[i] = "absent"
  BY <1>2, <1>5, <1>6, <1>11
<1> QED BY <1>2, <1>8, <1>9, <1>12, <1>13, <1>14 DEF i

LEMMA StepTakeMessage ==
  ASSUME TaskInv, TakeMessage
  PROVE  TaskInv'
<1> DEFINE i == Head(channel)
<1>1. /\ supervisor.phase = "loop" /\ supervisor.todo = <<>> /\ channel # <<>> /\ channel' = Tail(channel)
      /\ joinSet' = [joinSet EXCEPT ![i] = "runs"]
      /\ calls' = calls /\ reg' = reg /\ tasks' = tasks /\ supervisor' = supervisor
      /\ caller' = caller /\ shutdown' = shutdown
  BY DEF TakeMessage, In
<1>2. /\ i \in Task /\ InChannel(i) /\ channel' \in Seq(Task) /\ joinSet[i] = "absent"
      /\ \A j : InChannel(j)' <=> InChannel(j) /\ j # i
      /\ \A k, l \in 1 .. Len(channel') : channel'[k] = channel'[l] => k = l
      /\ \A k \in 1 .. Len(channel') : channel'[k] \in Task /\ channel'[k] # i /\ joinSet[channel'[k]] = "absent"
  BY <1>1, ChannelGivesUp
<1> HIDE DEF i
<1>3. /\ joinSet' \in [Task -> {"absent", "runs", "completed", "failed", "lost"}]
      /\ joinSet'[i] = "runs" /\ \A j \in Task : j # i => joinSet'[j] = joinSet[j]
  BY <1>1, <1>2 DEF TaskInv, TypeOK
<1>4. \A j \in Task : (Placed(j)' => Placed(j)) /\ (Live(j)' => Live(j))
  BY <1>2, <1>3 DEF Placed, Live
<1>5. CallInv' /\ RoomInv' /\ PlaceInv' /\ FitInv' /\ HoldInv' /\ OnceInv'
  BY <1>1, <1>4, PlacesShrink
<1>6. TypeOK'
  BY <1>1, <1>2, <1>3 DEF TaskInv, TypeOK
<1>7. ChannelInv'
  BY <1>1, <1>2, <1>3 DEF ChannelInv
<1>8. SupervisorInv'
  BY <1>1 DEF SupervisorInv
<1> QED BY <1>5, <1>6, <1>7, <1>8 DEF TaskInv

LEMMA StepJoinNext ==
  ASSUME TaskInv, JoinNext
  PROVE  TaskInv'
<1>1. PICK i \in Finished :
         /\ joinSet' = [joinSet EXCEPT ![i] = "absent"]
         /\ supervisor' = IF joinSet[i] = "lost" THEN supervisor
                          ELSE [supervisor EXCEPT !.id = i, !.todo = <<"token", "key", "check", joinSet[i]>>]
  BY DEF JoinNext
<1>2. /\ supervisor.phase \in {"loop", "drain", "abort"} /\ supervisor.todo = <<>>
      /\ calls' = calls /\ reg' = reg /\ tasks' = tasks /\ channel' = channel
      /\ caller' = caller /\ shutdown' = shutdown
  BY DEF JoinNext, In
<1>3. i \in Task /\ joinSet[i] \in {"completed", "failed", "lost"}
  BY DEF Finished
<1>4. /\ joinSet' \in [Task -> {"absent", "runs", "completed", "failed", "lost"}]
      /\ joinSet'[i] = "absent" /\ \A j \in Task : j # i => joinSet'[j] = joinSet[j]
  BY <1>1, <1>3 DEF TaskInv, TypeOK
<1>5. ~InChannel(i) /\ Placed(i) /\ channel \in Seq(Task)
  BY <1>3 DEF TaskInv, TypeOK, ChannelInv, InChannel, Placed
<1>6. \A j : InChannel(j)' <=> InChannel(j)
  BY <1>2 DEF InChannel
<1>7. \A j \in Task : (Placed(j)' => Placed(j) /\ j # i) /\ (Live(j)' => Live(j))
  BY <1>4, <1>5, <1>6 DEF Placed, Live
<1>8. \/ supervisor' = supervisor
      \/ /\ supervisor' \in Supervisors /\ supervisor'.phase = supervisor.phase /\ supervisor'.id = i
  <2>1. CASE joinSet[i] = "lost"
    BY <1>1, <2>1
  <2>2. CASE joinSet[i] # "lost"
    <3> DEFINE todo == <<"token", "key", "check", joinSet[i]>>
    <3>1. todo \in TakenDown
      BY <1>3, <2>2 DEF TakenDown
    <3>2. supervisor' = [supervisor EXCEPT !.id = i, !.todo = todo]
      BY <1>1, <2>2
    <3> HIDE DEF todo
    <3>3. \A s \in Supervisors : LET z == [s EXCEPT !.id = i, !.todo = todo]
                                 IN  z \in Supervisors /\ z.phase = s.phase /\ z.id = i
      BY <1>3, <3>1 DEF Supervisors
    <3> QED BY <3>2, <3>3 DEF TaskInv, TypeOK
  <2> QED BY <2>1, <2>2
<1>9. supervisor'.phase = supervisor.phase
  BY <1>8
<1>10. CallInv' /\ RoomInv' /\ PlaceInv' /\ FitInv' /\ HoldInv' /\ OnceInv'
  BY <1>2, <1>7, <1>9, PlacesShrink
<1>11. TypeOK'
  BY <1>2, <1>4, <1>8 DEF TaskInv, TypeOK
<1>12. ChannelInv'
  <2>1. \A k \in 1 .. Len(channel) : channel[k] \in Task
    BY <1>5, ElementOfSeq
  <2> QED BY <1>2, <1>4, <1>9, <2>1 DEF TaskInv, ChannelInv
<1>13. SupervisorInv'
  <2>1. CASE supervisor' = supervisor
    BY <1>2, <2>1 DEF SupervisorInv
  <2>2. CASE supervisor'.phase = supervisor.phase /\ supervisor'.id = i
    <3>1. ~Placed(supervisor.id)' /\ supervisor'.id \in Task
      BY <1>3, <1>7, <2>2
    <3>2. i <= Len(tasks) /\ \A c \in Caller : caller[c].todo \in Making \cup Sending => caller[c].id # i
      BY <1>3, <1>5 DEF TaskInv, PlaceInv
    <3> QED BY <1>2, <2>2, <3>1, <3>2 DEF SupervisorInv
  <2> QED BY <1>8, <2>1, <2>2
<1> QED BY <1>10, <1>11, <1>12, <1>13 DEF TaskInv

\* What lies in the closed channel is taken down
LEMMA StepFlushMessage ==
  ASSUME TaskInv, FlushMessage
  PROVE  TaskInv'
<1> DEFINE i == Head(channel)
<1>1. /\ supervisor.phase = "flush" /\ channel # <<>> /\ channel' = Tail(channel)
      /\ supervisor' = [supervisor EXCEPT !.id = i, !.todo = Mark]
      /\ calls' = calls /\ reg' = reg /\ tasks' = tasks /\ joinSet' = joinSet
      /\ caller' = caller /\ shutdown' = shutdown
  BY DEF FlushMessage, In
<1>2. /\ i \in Task /\ InChannel(i) /\ channel' \in Seq(Task) /\ joinSet[i] = "absent"
      /\ \A j : InChannel(j)' <=> InChannel(j) /\ j # i
      /\ \A k, l \in 1 .. Len(channel') : channel'[k] = channel'[l] => k = l
      /\ \A k \in 1 .. Len(channel') : channel'[k] \in Task /\ channel'[k] # i /\ joinSet[channel'[k]] = "absent"
  BY <1>1, ChannelGivesUp
<1> HIDE DEF i
<1>3. supervisor' \in Supervisors /\ supervisor'.phase = "flush" /\ supervisor'.id = i
  <2>1. Mark \in Cancelled
    BY DEF Mark, Cancelled
  <2>2. \A s \in Supervisors : LET z == [s EXCEPT !.id = i, !.todo = Mark]
                               IN  z \in Supervisors /\ z.phase = s.phase /\ z.id = i
    BY <1>2, <2>1 DEF Supervisors
  <2> QED BY <1>1, <2>2 DEF TaskInv, TypeOK
<1>4. \A j \in Task : (Placed(j)' => Placed(j)) /\ (Live(j)' => Live(j))
  BY <1>1, <1>2 DEF Placed, Live
<1>5. CallInv' /\ RoomInv' /\ PlaceInv' /\ FitInv' /\ HoldInv' /\ OnceInv'
  BY <1>1, <1>3, <1>4, PlacesShrink
<1>6. TypeOK'
  BY <1>1, <1>2, <1>3 DEF TaskInv, TypeOK
<1>7. ChannelInv'
  BY <1>1, <1>2, <1>3 DEF ChannelInv
<1>8. SupervisorInv'
  <2>1. ~Placed(supervisor.id)' /\ supervisor'.id \in Task
    BY <1>1, <1>2, <1>3 DEF Placed
  <2> QED BY <1>3, <2>1 DEF SupervisorInv
<1> QED BY <1>5, <1>6, <1>7, <1>8 DEF TaskInv

\* The supervisor turns to something else
LEMMA SupervisorTurns ==
  ASSUME TaskInv, supervisor' \in Supervisors, supervisor'.phase # "loop",
         supervisor'.phase \in {"others", "drain", "abort", "rest", "stopped"} => channel = <<>>,
         supervisor'.phase \in {"rest", "stopped"} => \A i \in Task : joinSet[i] = "absent",
         supervisor'.todo # <<>> => supervisor'.id \in Task,
         supervisor'.todo # <<>> /\ supervisor'.phase # "others" => supervisor'.phase = "rest",
         supervisor'.phase = "others" => supervisor'.todo \in {<<>>, <<"trip", "cancel">>},
         UNCHANGED <<calls, reg, tasks, channel, joinSet, caller, shutdown>>
  PROVE  TaskInv'
<1>1. \A j : (InChannel(j)' <=> InChannel(j)) /\ (Placed(j)' <=> Placed(j)) /\ (Live(j)' <=> Live(j))
  BY DEF InChannel, Placed, Live
<1>2. CallInv' /\ RoomInv' /\ PlaceInv' /\ FitInv' /\ HoldInv' /\ OnceInv'
  BY <1>1, PlacesShrink
<1>3. TypeOK'
  BY DEF TaskInv, TypeOK
<1>4. ChannelInv'
  BY DEF TaskInv, ChannelInv
<1>5. SupervisorInv'
  <2>1. ASSUME supervisor'.todo # <<>>, supervisor'.phase # "others"
        PROVE  ~Placed(supervisor.id)'
    <3>1. channel = <<>> /\ joinSet[supervisor'.id] = "absent"
      BY <2>1
    <3>2. ~InChannel(supervisor.id)'
      BY <3>1, EmptySeq DEF InChannel
    <3> QED BY <3>1, <3>2 DEF Placed
  <2>2. <<"trip", "cancel">> # <<"cancel">> /\ <<>> # <<"cancel">>
    OBVIOUS
  <2> QED BY <2>1, <2>2 DEF SupervisorInv
<1> QED BY <1>2, <1>3, <1>4, <1>5 DEF TaskInv

Phases == {"loop", "flush", "others", "drain", "abort", "rest", "stopped"}

LEMMA SupervisorEnters ==
  ASSUME NEW s \in Supervisors, NEW to \in Phases
  PROVE  LET z == [s EXCEPT !.phase = to]
         IN  z \in Supervisors /\ z.phase = to /\ z.todo = s.todo /\ z.id = s.id
  BY DEF Supervisors, Phases

LEMMA StepCloseChannel ==
  ASSUME TaskInv, CloseChannel
  PROVE  TaskInv'
<1>1. /\ supervisor.todo = <<>> /\ supervisor \in Supervisors
      /\ supervisor' = [supervisor EXCEPT !.phase = "flush"]
      /\ UNCHANGED <<calls, reg, tasks, channel, joinSet, caller, shutdown>>
  BY DEF CloseChannel, In, TaskInv, TypeOK
<1>2. supervisor' \in Supervisors /\ supervisor'.phase = "flush" /\ supervisor'.todo = <<>>
  BY <1>1, SupervisorEnters DEF Phases
<1> QED BY <1>1, <1>2, SupervisorTurns

LEMMA StepCancelNonService ==
  ASSUME TaskInv, CancelNonService
  PROVE  TaskInv'
<1>1. CASE channel = <<>> /\ ListRunning("flush", "others", {i \in Task : Running(i) /\ tasks[i] # "service"})
  <2> DEFINE ids == {i \in Task : Running(i) /\ tasks[i] # "service"}
  <2>1. /\ supervisor.todo = <<>> /\ supervisor \in Supervisors /\ ids \in SUBSET Task
        /\ supervisor' = [supervisor EXCEPT !.phase = "others", !.ids = ids]
        /\ UNCHANGED <<calls, reg, tasks, channel, joinSet, caller, shutdown>>
    BY <1>1 DEF ListRunning, In, TaskInv, TypeOK
  <2> HIDE DEF ids
  <2>2. supervisor' \in Supervisors /\ supervisor'.phase = "others" /\ supervisor'.todo = <<>>
    <3> DEFINE z == [supervisor EXCEPT !.phase = "others", !.ids = ids]
    <3>1. "others" \in Phases /\ supervisor \in Supervisors /\ ids \in SUBSET Task
      BY <2>1 DEF Phases
    <3>2. \A s \in Supervisors : LET x == [s EXCEPT !.phase = "others", !.ids = ids]
                                 IN  x \in Supervisors /\ x.phase = "others" /\ x.todo = s.todo
      BY <3>1 DEF Supervisors, Phases
    <3>3. z \in Supervisors /\ z.phase = "others" /\ z.todo = supervisor.todo
      BY <3>1, <3>2
    <3>4. supervisor' = z
      BY <2>1
    <3> HIDE DEF z
    <3> QED BY <2>1, <3>3, <3>4
  <2> QED BY <1>1, <2>1, <2>2, SupervisorTurns
<1>2. CASE CancelNext("others", "drain", <<"trip", "cancel">>)
  <2> DEFINE todo == <<"trip", "cancel">>
  <2>1. /\ supervisor.todo = <<>> /\ supervisor \in Supervisors /\ supervisor.phase = "others"
        /\ UNCHANGED <<calls, reg, tasks, channel, joinSet, caller, shutdown>>
        /\ supervisor.ids \in SUBSET Task
        /\ \/ supervisor' = [supervisor EXCEPT !.phase = "drain"]
           \/ \E i \in supervisor.ids :
                supervisor' = [supervisor EXCEPT !.ids = @ \ {i}, !.id = i, !.todo = todo]
    BY <1>2 DEF CancelNext, In, TaskInv, TypeOK, Supervisors
  <2>2. todo \in Outcomes /\ todo \in {<<>>, <<"trip", "cancel">>}
    BY DEF Outcomes, Cancelled
  <2>3. channel = <<>>
    BY <2>1 DEF TaskInv, ChannelInv
  <2> HIDE DEF todo
  <2>4. CASE supervisor' = [supervisor EXCEPT !.phase = "drain"]
    <3>1. supervisor' \in Supervisors /\ supervisor'.phase = "drain" /\ supervisor'.todo = <<>>
      BY <2>1, <2>4, SupervisorEnters DEF Phases
    <3> QED BY <2>1, <2>3, <3>1, SupervisorTurns
  <2>5. CASE \E i \in supervisor.ids :
                supervisor' = [supervisor EXCEPT !.ids = @ \ {i}, !.id = i, !.todo = todo]
    <3>1. PICK i \in Task : supervisor' = [supervisor EXCEPT !.ids = @ \ {i}, !.id = i, !.todo = todo]
      BY <2>1, <2>5
    <3>2. /\ supervisor' \in Supervisors /\ supervisor'.phase = "others" /\ supervisor'.todo = todo
          /\ supervisor'.id = i
      <4> DEFINE z == [supervisor EXCEPT !.ids = @ \ {i}, !.id = i, !.todo = todo]
      <4>1. supervisor \in Supervisors /\ todo \in Outcomes
        BY <2>1, <2>2
      <4>2. \A s \in Supervisors : LET x == [s EXCEPT !.ids = @ \ {i}, !.id = i, !.todo = todo]
                                   IN  x \in Supervisors /\ x.phase = s.phase /\ x.todo = todo /\ x.id = i
        BY <4>1 DEF Supervisors, Outcomes
      <4>3. z \in Supervisors /\ z.phase = supervisor.phase /\ z.todo = todo /\ z.id = i
        BY <4>1, <4>2
      <4>4. supervisor' = z
        BY <3>1
      <4> HIDE DEF z
      <4> QED BY <2>1, <4>3, <4>4
    <3> QED BY <2>1, <2>2, <2>3, <3>2, SupervisorTurns
  <2> QED BY <2>1, <2>4, <2>5
<1> QED BY <1>1, <1>2 DEF CancelNonService

LEMMA StepCancelAllRunning ==
  ASSUME TaskInv, CancelAllRunning
  PROVE  TaskInv'
<1>1. ASSUME Held = {}, NEW p \in {"drain", "abort"}, ListRunning(p, "rest", {i \in Task : Running(i)})
      PROVE  TaskInv'
  <2> DEFINE ids == {i \in Task : Running(i)}
  <2>1. /\ supervisor.todo = <<>> /\ supervisor \in Supervisors /\ ids \in SUBSET Task /\ supervisor.phase = p
        /\ supervisor' = [supervisor EXCEPT !.phase = "rest", !.ids = ids]
        /\ UNCHANGED <<calls, reg, tasks, channel, joinSet, caller, shutdown>>
    BY <1>1 DEF ListRunning, In, TaskInv, TypeOK
  <2> HIDE DEF ids
  <2>2. supervisor' \in Supervisors /\ supervisor'.phase = "rest" /\ supervisor'.todo = <<>>
    <3> DEFINE z == [supervisor EXCEPT !.phase = "rest", !.ids = ids]
    <3>1. "rest" \in Phases /\ supervisor \in Supervisors /\ ids \in SUBSET Task
      BY <2>1 DEF Phases
    <3>2. \A s \in Supervisors : LET x == [s EXCEPT !.phase = "rest", !.ids = ids]
                                 IN  x \in Supervisors /\ x.phase = "rest" /\ x.todo = s.todo
      BY <3>1 DEF Supervisors, Phases
    <3>3. z \in Supervisors /\ z.phase = "rest" /\ z.todo = supervisor.todo
      BY <3>1, <3>2
    <3>4. supervisor' = z
      BY <2>1
    <3> HIDE DEF z
    <3> QED BY <2>1, <3>3, <3>4
  <2>3. channel = <<>> /\ \A i \in Task : joinSet[i] = "absent"
    BY <1>1, <2>1 DEF TaskInv, ChannelInv, Held
  <2> QED BY <2>1, <2>2, <2>3, SupervisorTurns
<1>2. CASE CancelNext("rest", "stopped", Mark)
  <2>1. /\ supervisor.todo = <<>> /\ supervisor \in Supervisors /\ supervisor.phase = "rest"
        /\ UNCHANGED <<calls, reg, tasks, channel, joinSet, caller, shutdown>>
        /\ supervisor.ids \in SUBSET Task
        /\ \/ supervisor' = [supervisor EXCEPT !.phase = "stopped"]
           \/ \E i \in supervisor.ids :
                supervisor' = [supervisor EXCEPT !.ids = @ \ {i}, !.id = i, !.todo = Mark]
    BY <1>2 DEF CancelNext, In, TaskInv, TypeOK, Supervisors
  <2>2. Mark \in Outcomes
    BY DEF Mark, Outcomes, Cancelled
  <2>3. channel = <<>> /\ \A i \in Task : joinSet[i] = "absent"
    BY <2>1 DEF TaskInv, ChannelInv
  <2>4. CASE supervisor' = [supervisor EXCEPT !.phase = "stopped"]
    <3>1. supervisor' \in Supervisors /\ supervisor'.phase = "stopped" /\ supervisor'.todo = <<>>
      BY <2>1, <2>4, SupervisorEnters DEF Phases
    <3> QED BY <2>1, <2>3, <3>1, SupervisorTurns
  <2>5. CASE \E i \in supervisor.ids :
                supervisor' = [supervisor EXCEPT !.ids = @ \ {i}, !.id = i, !.todo = Mark]
    <3>1. PICK i \in Task : supervisor' = [supervisor EXCEPT !.ids = @ \ {i}, !.id = i, !.todo = Mark]
      BY <2>1, <2>5
    <3>2. supervisor' \in Supervisors /\ supervisor'.phase = "rest" /\ supervisor'.id = i
      <4> DEFINE z == [supervisor EXCEPT !.ids = @ \ {i}, !.id = i, !.todo = Mark]
      <4>1. supervisor \in Supervisors /\ Mark \in Outcomes
        BY <2>1, <2>2
      <4>2. \A s \in Supervisors : LET x == [s EXCEPT !.ids = @ \ {i}, !.id = i, !.todo = Mark]
                                   IN  x \in Supervisors /\ x.phase = s.phase /\ x.todo = Mark /\ x.id = i
        BY <4>1 DEF Supervisors, Outcomes
      <4>3. z \in Supervisors /\ z.phase = supervisor.phase /\ z.todo = Mark /\ z.id = i
        BY <4>1, <4>2
      <4>4. supervisor' = z
        BY <3>1
      <4> HIDE DEF z
      <4> QED BY <2>1, <4>3, <4>4
    <3> QED BY <2>1, <2>3, <3>2, SupervisorTurns
  <2> QED BY <2>1, <2>4, <2>5
<1> QED BY <1>1, <1>2 DEF CancelAllRunning

\* Tasks end, by themselves or because they are aborted
LEMMA TasksEnd ==
  ASSUME TaskInv, joinSet' \in [Task -> {"absent", "runs", "completed", "failed", "lost"}],
         \A j \in Task : joinSet'[j] = joinSet[j] \/ (joinSet[j] = "runs" /\ joinSet'[j] # "absent"),
         supervisor' \in Supervisors, supervisor'.todo = supervisor.todo, supervisor'.id = supervisor.id,
         \/ supervisor'.phase = supervisor.phase
         \/ supervisor.phase = "drain" /\ supervisor'.phase = "abort",
         UNCHANGED <<calls, reg, tasks, channel, caller, shutdown>>
  PROVE  TaskInv'
<1>1. \A j : InChannel(j)' <=> InChannel(j)
  BY DEF InChannel
<1>2. \A j \in Task : (Placed(j)' <=> Placed(j)) /\ (Live(j)' => Live(j))
  BY <1>1 DEF Placed, Live
<1>3. supervisor'.phase = "loop" => supervisor.phase = "loop"
  OBVIOUS
<1>4. CallInv' /\ RoomInv' /\ PlaceInv' /\ FitInv' /\ HoldInv' /\ OnceInv'
  BY <1>2, <1>3, PlacesShrink
<1>5. TypeOK'
  BY DEF TaskInv, TypeOK
<1>6. ChannelInv'
  <2>1. \A k \in 1 .. Len(channel) : channel[k] \in Task
    BY ElementOfSeq DEF TaskInv, TypeOK
  <2>2. \A k \in 1 .. Len(channel) : joinSet'[channel[k]] = "absent"
    BY <2>1 DEF TaskInv, ChannelInv
  <2>3. supervisor'.phase \in {"rest", "stopped"} => \A i \in Task : joinSet'[i] = "absent"
    BY DEF TaskInv, ChannelInv
  <2>4. supervisor'.phase \in {"others", "drain", "abort", "rest", "stopped"} => channel = <<>>
    BY DEF TaskInv, ChannelInv
  <2> QED BY <2>2, <2>3, <2>4 DEF TaskInv, ChannelInv
<1>7. SupervisorInv'
  <2>1. supervisor.todo # <<>> => supervisor.id \in Task
    BY DEF TaskInv, SupervisorInv
  <2>2. supervisor.todo # <<>> => (Placed(supervisor.id)' <=> Placed(supervisor.id))
                                  /\ (Live(supervisor.id)' => Live(supervisor.id))
    BY <1>2, <2>1
  <2>3. supervisor'.phase = "others" <=> supervisor.phase = "others"
    OBVIOUS
  <2> QED BY <1>3, <2>1, <2>2, <2>3 DEF TaskInv, SupervisorInv
<1> QED BY <1>4, <1>5, <1>6, <1>7 DEF TaskInv

LEMMA StepAbortAll ==
  ASSUME TaskInv, AbortAll
  PROVE  TaskInv'
<1>1. /\ supervisor.phase = "drain" /\ supervisor \in Supervisors
      /\ supervisor' = [supervisor EXCEPT !.phase = "abort"]
      /\ joinSet' = [i \in Task |-> IF joinSet[i] = "runs" /\ tasks[i] # "blocking" THEN "lost"
                                  ELSE joinSet[i]]
      /\ UNCHANGED <<calls, reg, tasks, channel, caller, shutdown>>
  BY DEF AbortAll, In, TaskInv, TypeOK
<1>2. /\ supervisor' \in Supervisors /\ supervisor'.phase = "abort"
      /\ supervisor'.todo = supervisor.todo /\ supervisor'.id = supervisor.id
  BY <1>1 DEF Supervisors
<1>3. joinSet \in [Task -> {"absent", "runs", "completed", "failed", "lost"}]
  BY DEF TaskInv, TypeOK
<1>4. /\ joinSet' \in [Task -> {"absent", "runs", "completed", "failed", "lost"}]
      /\ \A j \in Task : joinSet'[j] = joinSet[j] \/ (joinSet[j] = "runs" /\ joinSet'[j] # "absent")
  BY <1>1, <1>3
<1> QED BY <1>1, <1>2, <1>4, TasksEnd

LEMMA StepTaskEnds ==
  ASSUME TaskInv, NEW i \in Task, TaskEnds(i) \/ TaskCancelled(i)
  PROVE  TaskInv'
<1>1. joinSet[i] = "runs" /\ \E end \in {"completed", "failed", "lost"} : joinSet' = [joinSet EXCEPT ![i] = end]
  BY DEF TaskEnds, TaskCancelled
<1>2. UNCHANGED <<calls, reg, tasks, channel, supervisor, caller, shutdown>>
  BY DEF TaskEnds, TaskCancelled
<1>3. joinSet \in [Task -> {"absent", "runs", "completed", "failed", "lost"}] /\ supervisor \in Supervisors
  BY DEF TaskInv, TypeOK
<1>4. /\ joinSet' \in [Task -> {"absent", "runs", "completed", "failed", "lost"}]
      /\ \A j \in Task : joinSet'[j] = joinSet[j] \/ (joinSet[j] = "runs" /\ joinSet'[j] # "absent")
  BY <1>1, <1>3
<1> QED BY <1>2, <1>3, <1>4, TasksEnd

-----------------------------------------------------------------------------
(* The theorems. *)

LEMMA InitInv ==
  ASSUME Init
  PROVE  TaskInv
<1>1. /\ calls \in Mixes /\ tasks = <<>> /\ channel = <<>> /\ shutdown = FALSE
      /\ joinSet = [i \in Task |-> "absent"]
      /\ supervisor = [phase |-> "loop", todo |-> <<>>, id |-> 0, ids |-> {}]
      /\ \A c \in Caller : caller[c] = Idle
  BY DEF Init
<1>2. \A i : ~InChannel(i)
  BY <1>1, EmptySeq DEF InChannel
<1>3. \A i \in Task : ~Placed(i) /\ ~Live(i)
  BY <1>1, <1>2 DEF Placed, Live
<1>4. TypeOK
  <2>1. reg \in Regs
    BY DEF Init, Regs, States
  <2>2. tasks \in Seq(Kinds) /\ channel \in Seq(Task)
    BY <1>1, EmptySeq
  <2>3. supervisor \in Supervisors
    BY <1>1 DEF Supervisors
  <2>4. joinSet \in [Task -> {"absent", "runs", "completed", "failed", "lost"}]
    BY <1>1
  <2>5. caller \in [Caller -> Callers]
    BY IdleTyped DEF Init
  <2> QED BY <1>1, <2>1, <2>2, <2>3, <2>4, <2>5 DEF TypeOK
<1>5. <<>> \in Asking /\ \A c \in Caller : caller[c].kind = "none" /\ caller[c].id = 0 /\ caller[c].todo = <<>>
  BY <1>1, IdleTyped DEF Asking
<1>6. CallInv
  BY <1>5 DEF CallInv, CallOK, CallTodo
<1>7. RoomInv
  <2>1. Pending = {}
    BY <1>5 DEF Pending
  <2>2. Len(tasks) = 0
    BY <1>1, EmptySeq
  <2> QED BY <2>1, <2>2, FS_EmptySet, TaskBounds DEF RoomInv
<1>8. PlaceInv
  BY <1>3, <1>5, ClassesApart DEF PlaceInv
<1>9. ChannelInv
  BY <1>1, EmptySeq DEF ChannelInv
<1>10. SupervisorInv
  BY <1>1 DEF SupervisorInv
<1>11. FitInv
  BY <1>3, <1>5, ClassesApart DEF FitInv
<1>12. HoldInv /\ OnceInv
  BY <1>3, <1>5 DEF HoldInv, OnceInv
<1> QED BY <1>4, <1>6, <1>7, <1>8, <1>9, <1>10, <1>11, <1>12 DEF TaskInv

LEMMA Stutters ==
  ASSUME TaskInv, UNCHANGED vars
  PROVE  TaskInv'
<1>1. /\ reg' = reg /\ tasks' = tasks /\ calls' = calls /\ channel' = channel /\ joinSet' = joinSet
      /\ supervisor' = supervisor /\ caller' = caller /\ shutdown' = shutdown
  BY DEF vars, running
<1>2. \A j \in Task : joinSet[j] \in {"absent", "runs", "completed", "failed", "lost"}
  BY DEF TaskInv, TypeOK
<1> QED BY <1>1, TasksEnd DEF TaskInv, TypeOK

LEMMA NextInv ==
  ASSUME TaskInv, [Next]_vars
  PROVE  TaskInv'
<1>1. ASSUME NEW c \in Caller, CallerStep(c)
      PROVE  TaskInv'
  BY <1>1, StepReadPrevious, StepTripToken, StepMarkCancelled, StepFindRunning, StepReadState, StepRemoveKey,
     StepNewTask, StepRecordStarted, StepSendTask, StepDropOwnToken, StepUnlistKey, StepFinalizeFailed,
     StepInsertKey DEF CallerStep
<1>2. ASSUME NEW c \in Caller, Spawn(c) \/ SpawnUnique(c) \/ SpawnOnce(c) \/ SpawnProgress(c) \/ Cancel(c)
      PROVE  TaskInv'
  BY <1>2, StepSpawn, StepSpawnUnique, StepSpawnOnce, StepSpawnProgress, StepCancel
<1>3. CASE Shutdown
  BY <1>3, StepShutdown
<1>4. CASE \E i \in Task : TaskEnds(i) \/ TaskCancelled(i)
  BY <1>4, StepTaskEnds
<1>5. CASE SupervisorStep
  BY <1>5, StepTakeMessage, StepJoinNext, StepCollectToken, StepCollectKey, StepCheckCancelled,
     StepWriteOutcome, StepSupervisorCancels, StepSupervisorTrips, StepCloseChannel, StepFlushMessage,
     StepCancelNonService, StepAbortAll, StepCancelAllRunning DEF SupervisorStep
<1>6. CASE Stopped \/ UNCHANGED vars
  BY <1>6, Stutters DEF Stopped
<1> QED BY <1>1, <1>2, <1>3, <1>4, <1>5, <1>6 DEF Next

\* Whatever is called, cancelled and finished meanwhile, a task is with one party at a time,
\* one that was not cancelled has its token and is recorded as running until it ends, and the
\* key of spawn_async_once is written by who holds its lock (tasks.rs:173-660).
THEOREM TasksInvariant == Spec => []TaskInv
<1>1. Init => TaskInv
  BY InitInv
<1>2. TaskInv /\ [Next]_vars => TaskInv'
  BY NextInv
<1> QED BY <1>1, <1>2, PTL DEF Spec

\* Every variable keeps its type; a caller or the supervisor is never at a section that its
\* call does not have.
THEOREM TaskTypeCorrect == Spec => []TypeOK
<1>1. TaskInv => TypeOK
  BY DEF TaskInv
<1> QED BY <1>1, TasksInvariant, PTL

LEMMA OnceExclusiveHolds ==
  ASSUME TaskInv
  PROVE  OnceExclusive
<1>1. \A i : i \in Range(channel) => InChannel(i)
  BY DEF Range, InChannel, TaskInv, TypeOK
<1>2. \A i \in ActiveOf("once") : i \in Task /\ tasks[i] = "once" /\ Live(i) /\ i \notin reg.tripped
  <2> SUFFICES ASSUME NEW i \in DOMAIN tasks, tasks[i] = "once", Active(i)
               PROVE  i \in Task /\ Live(i) /\ i \notin reg.tripped
    BY DEF ActiveOf
  <2>1. i \in 1 .. Len(tasks)
    BY LenProperties DEF TaskInv, TypeOK
  <2>2. Cardinality(Pending) \in Nat /\ Len(tasks) \in Nat /\ MaxTask \in Nat
    BY PendingFinite, LenProperties, TaskBounds DEF Pending, TaskInv, TypeOK
  <2>3. Len(tasks) + Cardinality(Pending) <= MaxTask
    BY DEF TaskInv, RoomInv
  <2>4. i \in Task
    BY <2>1, <2>2, <2>3 DEF Task
  <2> QED BY <1>1, <2>4 DEF Active, Live
<1> SUFFICES ASSUME NEW i \in ActiveOf("once"), NEW j \in ActiveOf("once")
             PROVE  i = j
  BY DEF OnceExclusive
<1> DEFINE Writes(k) == \E c \in Caller : caller[c].kind = "once" /\ caller[c].todo = <<"key">> /\ caller[c].id = k
           Written(k) == reg.keys["once"] = k /\ \A c \in Caller : caller[c].kind # "once"
<1>3. (Writes(i) \/ Written(i)) /\ (Writes(j) \/ Written(j))
  BY <1>2 DEF TaskInv, OnceInv
<1>4. CASE Writes(i) /\ Writes(j)
  BY <1>4 DEF TaskInv, HoldInv
<1>5. CASE Written(i) /\ Written(j)
  BY <1>5
<1>6. ~(Writes(i) /\ Written(j)) /\ ~(Written(i) /\ Writes(j))
  OBVIOUS
<1> QED BY <1>3, <1>4, <1>5, <1>6

\* Of the downloads and updates submitted under a key with spawn_async_once at most one is at
\* work: for any number of callers and of tasks, whatever else is called (tasks.rs:272).
THEOREM OnceExclusively == Spec => []OnceExclusive
<1>1. TaskInv => OnceExclusive
  BY OnceExclusiveHolds
<1> QED BY <1>1, TasksInvariant, PTL

=============================================================================
