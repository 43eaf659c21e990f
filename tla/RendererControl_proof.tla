----------------------- MODULE RendererControl_proof -----------------------
(***************************************************************************)
(* Proofs about what the daemon sends a renderer: RendererWriter, for any  *)
(* senders, any size of the queue and of the socket, any subscriptions and *)
(* any traffic (renderer_manager/writer.rs, subscriptions.rs);             *)
(* RenderTarget, for any sizes and formats and any number of changes and   *)
(* failures (renderer_manager/render_target.rs, router/render_size.rs);    *)
(* and PlaybackControl, for any renderers and displays and any number of   *)
(* wishes and exits (router/mod.rs, lifecycle.rs, consumption.rs).         *)
(*                                                                         *)
(* What the process will have been told when it has read the socket is     *)
(* what the registry holds, but for the moment between an acknowledgement  *)
(* on the socket and its commit; a window is checked against the registry  *)
(* and written before the next message, so it fits (StreamInv).  A window  *)
(* in the slot has a wake-up that is set or about to be, and a wake-up     *)
(* that is set has a message in the queue or a writer at work (WakeInv).   *)
(*                                                                         *)
(* One request for a target is under way, at one place (WireInv).  Unless  *)
(* another pass is still to come, the task that configures the coordinator *)
(* knows what is wanted now (LookedInv), and what is wanted is configured, *)
(* blocked, or on its way to be: then it is desired, and drawn already or  *)
(* awaited by a deadline (WantedInv).                                      *)
(*                                                                         *)
(* Unless a pass has still to decide, every slot says what is wished       *)
(* (DecidedInv).  One task at a time has messages to send (LockInv), and   *)
(* one starts a renderer (StartInv), whose process nobody has told         *)
(* anything before it is registered (FreshInv).  A process does what its   *)
(* slot says unless it has still to be told (ToldInv); who is retried is   *)
(* dead (RetryInv).  A display is bound to the pool of a process that      *)
(* runs, or its exit is being dealt with (PoolInv), and one that is owed  *)
(* a frame has its renderer still to be asked (OwedInv).  All this but for *)
(* renderers whose messages an exit dropped, or which took the place of a  *)
(* process that had some left (misled).                                    *)
(***************************************************************************)
EXTENDS RendererWriter, RenderTarget, PlaybackControl, SequenceTheorems, FiniteSetTheorems,
        WellFoundedInduction, TLAPS

-----------------------------------------------------------------------------
(* Types. *)

Revs  == {NoWindow} \cup {s.rev : s \in Asked \cup AlreadyAsked}
Sets  == {{}} \cup {s.kinds : s \in Asked \cup AlreadyAsked}
Names == {"wake", "ack", "control", "mpris", "audio", "shutdown"}
WriterMessages ==
    [kind : Names, rev : Revs, kinds : Sets, commit : BOOLEAN, by : Callers]

WriterPcs == {"recv", "fill", "write", "clear", "commit", "take", "check", "window", "end", "gone"}

WriterTypeOK ==
    /\ asks \in Seq(Asked)
    /\ wire \in Seq(WriterMessages)
    /\ told \in [rev : Revs, kinds : Sets, ever : SUBSET UNION Sets]
    /\ entry \in [rev : Revs, kinds : Sets, listed : BOOLEAN]
    /\ channel \in Seq(WriterMessages)
    /\ slot \in Revs /\ wake \in BOOLEAN
    /\ thread \in [pc : WriterPcs, batch : Seq(WriterMessages), taken : Revs]
    /\ call \in [Callers -> [pc : {"idle", "send", "wait", "done", "failed", "gone"},
                            command : WriterMessages]]
    /\ service \in [pc : {"idle", "check", "store", "swap", "wake"}, rev : Revs]

-----------------------------------------------------------------------------
(* What the process will have been told. *)

\* The subscription it was last told of, when it has read the first n messages of w
\* and was told t before, and the kinds it was ever told of
LastTold(w, t, n) ==
    LET acks == {j \in 1 .. n : w[j].commit}
    IN  IF acks = {} THEN [rev |-> t.rev, kinds |-> t.kinds]
        ELSE LET last == CHOOSE j \in acks : \A k \in acks : k <= j
             IN  [rev |-> w[last].rev, kinds |-> w[last].kinds]
EverTold(w, t, n) == t.ever \cup UNION {w[j].kinds : j \in {k \in 1 .. n : w[k].commit}}

End  == LastTold(wire, told, Len(wire))
Ever == EverTold(wire, told, Len(wire))

Written == thread.pc \in {"clear", "commit"}

\* A message on its way to the socket
Underway(m) ==
    \/ \E t \in Callers : call[t].pc = "send" /\ call[t].command = m
    \/ \E i \in 1 .. Len(channel) : channel[i] = m
    \/ \E i \in 1 .. Len(thread.batch) : thread.batch[i] = m

RegistryInv ==
    /\ told.kinds \subseteq told.ever
    /\ ~entry.listed => entry.kinds = {}
    /\ entry.listed /\ ~Written => End = [rev |-> entry.rev, kinds |-> entry.kinds]
    /\ Written => /\ thread.batch # <<>>
                  /\ End = [rev |-> Current.rev, kinds |-> Current.kinds]
    /\ thread.pc = "window" => End.rev = thread.taken /\ "audio" \in End.kinds
    /\ entry.kinds \subseteq Ever

CommandInv ==
    \A m \in WriterMessages : Underway(m) => /\ m.kind = "mpris" => "mpris" \in Ever
                                      /\ m.kind # "audio"

StreamInv == EventsFit /\ RegistryInv /\ CommandInv

-----------------------------------------------------------------------------
(* Who is woken, and who is answered. *)

Ended == thread.pc \in {"end", "gone"}

WakeInv ==
    /\ slot # NoWindow /\ ~Ended => service.pc = "swap" \/ wake \/ thread.pc = "take"
    /\ wake /\ ~Ended =>
         service.pc = "wake" \/ channel # <<>> \/ thread.pc \in {"fill", "write", "clear", "commit"}

\* The command of t lies in s
Lies(t, s) == \E i \in 1 .. Len(s) : s[i].kind # "wake" /\ s[i].by = t

AnswerInv ==
    /\ thread.pc \notin {"fill", "write", "clear", "commit"} => thread.batch = <<>>
    /\ thread.pc = "gone" => channel = <<>>
    /\ \A t \in Callers : call[t].pc = "wait" => Lies(t, channel) \/ Lies(t, thread.batch)
    /\ \A t \in Callers : call[t].pc \in {"send", "wait"} =>
         call[t].command.kind # "wake" /\ call[t].command.by = t

-----------------------------------------------------------------------------
(* Facts about what is told. *)

LEMMA LessThan == \A x, y \in Nat : <<y, x>> \in OpToRel(<, Nat) <=> y < x
BY DEF OpToRel

LEMMA LeastBy ==
    ASSUME NEW R, IsWellFoundedOn(R, Nat), \A x, y \in Nat : <<y, x>> \in R <=> y < x,
           NEW S \in SUBSET Nat, S # {}
    PROVE  \E x \in S : \A y \in S : x <= y
<1>1. PICK x \in S : \A y \in S : ~(<<y, x>> \in R)
  BY WFMin
<1>2. \A y \in S : ~(y < x)
  BY <1>1
<1>3. \A y \in S : x <= y
  <2> TAKE y \in S
  <2>1. x \in Nat /\ y \in Nat /\ ~(y < x)
    BY <1>2
  <2> QED BY <2>1
<1> QED BY <1>3

\* A set of places in a sequence has a last one
LEMMA Greatest ==
    ASSUME NEW n \in Nat, NEW S \in SUBSET (1 .. n), S # {}
    PROVE  \E x \in S : \A y \in S : y <= x
<1> DEFINE R == OpToRel(<, Nat)
           Mirrored == {n - y : y \in S}
<1>1. IsWellFoundedOn(R, Nat) /\ \A x, y \in Nat : <<y, x>> \in R <=> y < x
  BY NatLessThanWellFounded, LessThan
<1>2. Mirrored \in SUBSET Nat /\ Mirrored # {}
  <2>1. \A y \in S : n - y \in Nat
    OBVIOUS
  <2>2. PICK y \in S : TRUE
    OBVIOUS
  <2> QED BY <2>1, <2>2
<1> HIDE DEF R
<1>3. PICK z \in Mirrored : \A y \in Mirrored : z <= y
  BY <1>1, <1>2, LeastBy
<1>4. PICK x \in S : z = n - x
  BY <1>3
<1>5. \A y \in S : y <= x
  <2> TAKE y \in S
  <2>1. n - x <= n - y /\ x \in 1 .. n /\ y \in 1 .. n
    BY <1>3, <1>4
  <2> QED BY <2>1
<1> QED BY <1>5

LEMMA LastToldIs ==
    ASSUME NEW w, NEW t, NEW n \in Nat
    PROVE  /\ (\A j \in 1 .. n : ~w[j].commit) =>
                LastTold(w, t, n) = [rev |-> t.rev, kinds |-> t.kinds]
           /\ \A j \in 1 .. n :
                w[j].commit /\ (\A k \in 1 .. n : w[k].commit => k <= j) =>
                  LastTold(w, t, n) = [rev |-> w[j].rev, kinds |-> w[j].kinds]
<1> DEFINE acks == {j \in 1 .. n : w[j].commit}
           last == CHOOSE j \in acks : \A k \in acks : k <= j
<1>1. ASSUME NEW j \in 1 .. n, w[j].commit, \A k \in 1 .. n : w[k].commit => k <= j
      PROVE  LastTold(w, t, n) = [rev |-> w[j].rev, kinds |-> w[j].kinds]
  <2>1. j \in acks /\ \A k \in acks : k <= j
    BY <1>1
  <2>2. last \in acks /\ \A k \in acks : k <= last
    BY <2>1
  <2>3. last = j
    <3>1. last <= j /\ j <= last /\ last \in Nat /\ j \in Nat
      BY <2>1, <2>2
    <3> QED BY <3>1
  <2> QED BY <2>1, <2>3 DEF LastTold
<1> QED BY <1>1 DEF LastTold

LEMMA LastToldCases ==
    ASSUME NEW w, NEW n \in Nat
    PROVE  \/ \A j \in 1 .. n : ~w[j].commit
           \/ \E j \in 1 .. n : w[j].commit /\ \A k \in 1 .. n : w[k].commit => k <= j
<1> DEFINE acks == {j \in 1 .. n : w[j].commit}
<1>1. CASE acks # {}
  <2>1. \E x \in acks : \A y \in acks : y <= x
    BY <1>1, Greatest
  <2> QED BY <2>1
<1>2. CASE acks = {}
  BY <1>2
<1> QED BY <1>1, <1>2

\* Only the first n messages matter
LEMMA ToldAlike ==
    ASSUME NEW w, NEW v, NEW t, NEW n \in Nat, \A j \in 1 .. n : w[j] = v[j]
    PROVE  LastTold(w, t, n) = LastTold(v, t, n) /\ EverTold(w, t, n) = EverTold(v, t, n)
<1>1. CASE \A j \in 1 .. n : ~w[j].commit
  <2>1. \A j \in 1 .. n : ~v[j].commit
    BY <1>1
  <2>2. LastTold(w, t, n) = LastTold(v, t, n)
    BY <1>1, <2>1, LastToldIs
  <2> QED BY <2>2 DEF EverTold
<1>2. CASE \E j \in 1 .. n : w[j].commit /\ \A k \in 1 .. n : w[k].commit => k <= j
  <2>1. PICK j \in 1 .. n : w[j].commit /\ \A k \in 1 .. n : w[k].commit => k <= j
    BY <1>2
  <2>2. v[j].commit /\ \A k \in 1 .. n : v[k].commit => k <= j
    BY <2>1
  <2>3. LastTold(w, t, n) = LastTold(v, t, n)
    BY <2>1, <2>2, LastToldIs
  <2> QED BY <2>3 DEF EverTold
<1> QED BY <1>1, <1>2, LastToldCases

\* One message more
LEMMA ToldMore ==
    ASSUME NEW w, NEW t, NEW n \in Nat \ {0}
    PROVE  /\ LastTold(w, t, n) = IF w[n].commit THEN [rev |-> w[n].rev, kinds |-> w[n].kinds]
                                  ELSE LastTold(w, t, n - 1)
           /\ EverTold(w, t, n) = IF w[n].commit THEN EverTold(w, t, n - 1) \cup w[n].kinds
                                  ELSE EverTold(w, t, n - 1)
<1>1. n - 1 \in Nat /\ 1 .. n = (1 .. n - 1) \cup {n} /\ n \in 1 .. n /\ n \notin 1 .. n - 1
  OBVIOUS
<1>2. ASSUME w[n].commit
      PROVE  LastTold(w, t, n) = [rev |-> w[n].rev, kinds |-> w[n].kinds]
  BY <1>1, <1>2, LastToldIs
<1>3. ASSUME ~w[n].commit
      PROVE  LastTold(w, t, n) = LastTold(w, t, n - 1)
  <2>1. CASE \A j \in 1 .. n - 1 : ~w[j].commit
    <3>1. \A j \in 1 .. n : ~w[j].commit
      BY <1>1, <1>3, <2>1
    <3> QED BY <1>1, <2>1, <3>1, LastToldIs
  <2>2. CASE \E j \in 1 .. n - 1 : w[j].commit /\ \A k \in 1 .. n - 1 : w[k].commit => k <= j
    <3>1. PICK j \in 1 .. n - 1 : w[j].commit /\ \A k \in 1 .. n - 1 : w[k].commit => k <= j
      BY <2>2
    <3>2. j \in 1 .. n /\ \A k \in 1 .. n : w[k].commit => k <= j
      BY <1>1, <1>3, <3>1
    <3> QED BY <1>1, <3>1, <3>2, LastToldIs
  <2> QED BY <1>1, <2>1, <2>2, LastToldCases
<1>4. EverTold(w, t, n) = IF w[n].commit THEN EverTold(w, t, n - 1) \cup w[n].kinds
                          ELSE EverTold(w, t, n - 1)
  BY <1>1 DEF EverTold
<1> QED BY <1>2, <1>3, <1>4

\* What the process knows when it has read the message m
Knows(t, m) ==
    IF m.commit THEN [rev |-> m.rev, kinds |-> m.kinds, ever |-> t.ever \cup m.kinds] ELSE t

\* The first message is read
LEMMA ToldLess ==
    ASSUME NEW w \in Seq(WriterMessages), w # <<>>, NEW t, NEW n \in 1 .. Len(w)
    PROVE  /\ LastTold(Tail(w), Knows(t, Head(w)), n - 1) = LastTold(w, t, n)
           /\ EverTold(Tail(w), Knows(t, Head(w)), n - 1) = EverTold(w, t, n)
<1> DEFINE v == Tail(w)
           u == Knows(t, Head(w))
<1>1. /\ n - 1 \in Nat /\ 1 \in 1 .. n /\ Head(w) = w[1]
      /\ \A j \in 1 .. n - 1 : j + 1 \in 1 .. n /\ v[j] = w[j + 1]
      /\ \A j \in 1 .. n : j # 1 => j - 1 \in 1 .. n - 1 /\ w[j] = v[j - 1]
  OBVIOUS
<1> HIDE DEF v
<1>2. LastTold(v, u, n - 1) = LastTold(w, t, n)
  <2>1. CASE \A j \in 1 .. n - 1 : ~v[j].commit
    <3>1. LastTold(v, u, n - 1) = [rev |-> u.rev, kinds |-> u.kinds]
      BY <1>1, <2>1, LastToldIs
    <3>2. \A j \in 1 .. n : w[j].commit => j = 1
      BY <1>1, <2>1
    <3>3. CASE w[1].commit
      <4>1. \A k \in 1 .. n : w[k].commit => k <= 1
        BY <3>2
      <4>2. LastTold(w, t, n) = [rev |-> w[1].rev, kinds |-> w[1].kinds]
        BY <1>1, <3>3, <4>1, LastToldIs
      <4> QED BY <1>1, <3>1, <3>3, <4>2 DEF Knows
    <3>4. CASE ~w[1].commit
      <4>1. \A j \in 1 .. n : ~w[j].commit
        BY <3>2, <3>4
      <4>2. LastTold(w, t, n) = [rev |-> t.rev, kinds |-> t.kinds]
        BY <4>1, LastToldIs
      <4> QED BY <1>1, <3>1, <3>4, <4>2 DEF Knows
    <3> QED BY <3>3, <3>4
  <2>2. CASE \E j \in 1 .. n - 1 : v[j].commit /\ \A k \in 1 .. n - 1 : v[k].commit => k <= j
    <3>1. PICK j \in 1 .. n - 1 : v[j].commit /\ \A k \in 1 .. n - 1 : v[k].commit => k <= j
      BY <2>2
    <3>2. LastTold(v, u, n - 1) = [rev |-> v[j].rev, kinds |-> v[j].kinds]
      <4> HIDE DEF u
      <4>1. n - 1 \in Nat
        BY <1>1
      <4> QED BY <3>1, <4>1, LastToldIs
    <3>3. j + 1 \in 1 .. n /\ w[j + 1].commit /\ v[j] = w[j + 1]
      BY <1>1, <3>1
    <3>4. \A k \in 1 .. n : w[k].commit => k <= j + 1
      <4> TAKE k \in 1 .. n
      <4>1. k # 1 /\ w[k].commit => k - 1 <= j
        BY <1>1, <3>1
      <4> QED BY <4>1
    <3>5. LastTold(w, t, n) = [rev |-> w[j + 1].rev, kinds |-> w[j + 1].kinds]
      BY <3>3, <3>4, LastToldIs
    <3> QED BY <3>2, <3>3, <3>5
  <2> QED BY <1>1, <2>1, <2>2, LastToldCases
<1>3. EverTold(v, u, n - 1) = EverTold(w, t, n)
  <2>1. ASSUME NEW x, x \in EverTold(v, u, n - 1) PROVE x \in EverTold(w, t, n)
    <3>1. x \in u.ever \/ \E k \in 1 .. n - 1 : v[k].commit /\ x \in v[k].kinds
      BY <2>1 DEF EverTold
    <3>2. x \in t.ever \/ \E k \in 1 .. n : w[k].commit /\ x \in w[k].kinds
      BY <1>1, <3>1 DEF Knows
    <3> QED BY <3>2 DEF EverTold
  <2>2. ASSUME NEW x, x \in EverTold(w, t, n) PROVE x \in EverTold(v, u, n - 1)
    <3>1. x \in t.ever \/ \E k \in 1 .. n : w[k].commit /\ x \in w[k].kinds
      BY <2>2 DEF EverTold
    <3>2. x \in u.ever \/ \E k \in 1 .. n - 1 : v[k].commit /\ x \in v[k].kinds
      BY <1>1, <3>1 DEF Knows
    <3> QED BY <3>2 DEF EverTold
  <2> QED BY <2>1, <2>2
<1> QED BY <1>2, <1>3 DEF v

\* Whether events fit, of the messages w and a process that was told t
Fit(w, t) ==
    \A i \in 1 .. Len(w) :
      /\ w[i].kind = "mpris" => "mpris" \in EverTold(w, t, i - 1)
      /\ w[i].kind = "audio" => /\ LastTold(w, t, i - 1).rev = w[i].rev
                                /\ "audio" \in LastTold(w, t, i - 1).kinds

LEMMA EventsFitIs ==
    ASSUME wire \in Seq(WriterMessages)
    PROVE  EventsFit <=> Fit(wire, told)
<1>1. DOMAIN wire = 1 .. Len(wire)
  OBVIOUS
<1>2. \A i \in 1 .. Len(wire) : Before(i) = LastTold(wire, told, i - 1) /\ EverBefore(i) = EverTold(wire, told, i - 1)
  BY DEF Before, EverBefore, LastTold, EverTold
<1> QED BY <1>1, <1>2 DEF EventsFit, Fit

\* A message that fits at the end goes on the socket
LEMMA FitAppend ==
    ASSUME NEW w \in Seq(WriterMessages), NEW t, NEW m \in WriterMessages, Fit(w, t),
           m.kind = "mpris" => "mpris" \in EverTold(w, t, Len(w)),
           m.kind = "audio" => /\ LastTold(w, t, Len(w)).rev = m.rev
                               /\ "audio" \in LastTold(w, t, Len(w)).kinds
    PROVE  /\ Fit(Append(w, m), t)
           /\ LastTold(Append(w, m), t, Len(w) + 1) =
                IF m.commit THEN [rev |-> m.rev, kinds |-> m.kinds] ELSE LastTold(w, t, Len(w))
           /\ EverTold(Append(w, m), t, Len(w) + 1) =
                IF m.commit THEN EverTold(w, t, Len(w)) \cup m.kinds ELSE EverTold(w, t, Len(w))
<1> DEFINE v == Append(w, m)
           n == Len(w)
<1>1. /\ n \in Nat /\ Len(v) = n + 1 /\ v[n + 1] = m
      /\ \A j \in 1 .. n : v[j] = w[j]
  OBVIOUS
<1> HIDE DEF v, n
<1>2. \A k \in 0 .. n : LastTold(v, t, k) = LastTold(w, t, k) /\ EverTold(v, t, k) = EverTold(w, t, k)
  <2> TAKE k \in 0 .. n
  <2>1. k \in Nat /\ \A j \in 1 .. k : v[j] = w[j]
    BY <1>1
  <2> QED BY <2>1, ToldAlike
<1>3. n + 1 \in Nat \ {0} /\ (n + 1) - 1 = n /\ n \in 0 .. n
  BY <1>1
<1>4. /\ LastTold(v, t, n + 1) =
           IF m.commit THEN [rev |-> m.rev, kinds |-> m.kinds] ELSE LastTold(v, t, n)
      /\ EverTold(v, t, n + 1) =
           IF m.commit THEN EverTold(v, t, n) \cup m.kinds ELSE EverTold(v, t, n)
  <2>1. /\ LastTold(v, t, n + 1) =
             IF v[n + 1].commit THEN [rev |-> v[n + 1].rev, kinds |-> v[n + 1].kinds]
             ELSE LastTold(v, t, (n + 1) - 1)
        /\ EverTold(v, t, n + 1) =
             IF v[n + 1].commit THEN EverTold(v, t, (n + 1) - 1) \cup v[n + 1].kinds
             ELSE EverTold(v, t, (n + 1) - 1)
    BY <1>3, ToldMore
  <2> QED BY <1>1, <1>3, <2>1
<1>5. Fit(v, t)
  <2> SUFFICES ASSUME NEW i \in 1 .. n + 1
               PROVE  /\ v[i].kind = "mpris" => "mpris" \in EverTold(v, t, i - 1)
                      /\ v[i].kind = "audio" => /\ LastTold(v, t, i - 1).rev = v[i].rev
                                                /\ "audio" \in LastTold(v, t, i - 1).kinds
    BY <1>1 DEF Fit
  <2>1. i - 1 \in 0 .. n
    BY <1>1
  <2>2. CASE i = n + 1
    BY <1>1, <1>2, <1>3, <2>1, <2>2 DEF n
  <2>3. CASE i \in 1 .. n
    BY <1>1, <1>2, <2>1, <2>3 DEF Fit, n
  <2> QED BY <1>1, <2>2, <2>3
<1> QED BY <1>2, <1>3, <1>4, <1>5 DEF v, n

\* The process reads the first message
LEMMA FitTail ==
    ASSUME NEW w \in Seq(WriterMessages), w # <<>>, NEW t, Fit(w, t)
    PROVE  Fit(Tail(w), Knows(t, Head(w)))
<1> DEFINE v == Tail(w)
           u == Knows(t, Head(w))
<1>1. \A i \in 1 .. Len(v) : i + 1 \in 1 .. Len(w) /\ v[i] = w[i + 1] /\ i \in 1 .. Len(w) /\ (i + 1) - 1 = i
  OBVIOUS
<1>2. \A i \in 1 .. Len(v) : /\ LastTold(v, u, i - 1) = LastTold(w, t, i)
                             /\ EverTold(v, u, i - 1) = EverTold(w, t, i)
  BY <1>1, ToldLess
<1> HIDE DEF v, u
<1>3. Fit(v, u)
  <2> SUFFICES ASSUME NEW i \in 1 .. Len(v)
               PROVE  /\ v[i].kind = "mpris" => "mpris" \in EverTold(v, u, i - 1)
                      /\ v[i].kind = "audio" => /\ LastTold(v, u, i - 1).rev = v[i].rev
                                                /\ "audio" \in LastTold(v, u, i - 1).kinds
    BY DEF Fit
  <2>1. /\ w[i + 1].kind = "mpris" => "mpris" \in EverTold(w, t, i)
        /\ w[i + 1].kind = "audio" => /\ LastTold(w, t, i).rev = w[i + 1].rev
                                      /\ "audio" \in LastTold(w, t, i).kinds
    BY <1>1 DEF Fit
  <2> QED BY <1>1, <1>2, <2>1
<1> QED BY <1>3 DEF v, u

-----------------------------------------------------------------------------
(* Types. *)

LEMMA MessageTypes ==
    /\ WakeAudio \in WriterMessages
    /\ \A kind \in {"ack", "control", "mpris", "shutdown"}, t \in Callers : Reliable(kind, t) \in WriterMessages
    /\ \A rev \in Revs : Window(rev) \in WriterMessages
    /\ {} \in Sets /\ NoWindow \in Revs /\ 0 \in Revs /\ Reader \in Callers /\ Stopper \in Callers
<1>1. {} \in Sets /\ NoWindow \in Revs /\ 0 \in Revs /\ Reader \in Callers /\ Stopper \in Callers
  BY DEF Revs, Sets, Callers, NoWindow
<1>2. WakeAudio \in WriterMessages
  BY <1>1 DEF WriterMessages, WakeAudio, Names
<1>3. \A kind \in {"ack", "control", "mpris", "shutdown"}, t \in Callers : Reliable(kind, t) \in WriterMessages
  BY <1>1 DEF WriterMessages, Reliable, Names
<1>4. \A rev \in Revs : Window(rev) \in WriterMessages
  BY <1>1 DEF WriterMessages, Window, Names
<1> QED BY <1>1, <1>2, <1>3, <1>4

LEMMA PreparedType ==
    ASSUME NEW asked \in Asked, entry \in [rev : Revs, kinds : Sets, listed : BOOLEAN]
    PROVE  /\ Prepared(asked) \in WriterMessages
           /\ Prepared(asked).kind = "ack" /\ Prepared(asked).by = Reader
<1> DEFINE newer == entry.listed /\ asked.rev > entry.rev
<1>1. newer \in BOOLEAN
  OBVIOUS
<1>2. Prepared(asked) = [Reliable("ack", Reader) EXCEPT !.rev = asked.rev, !.kinds = asked.kinds,
                                                      !.commit = newer]
  BY DEF Prepared
<1> HIDE DEF newer
<1>3. Prepared(asked) = [kind |-> "ack", rev |-> asked.rev, kinds |-> asked.kinds,
                       commit |-> newer, by |-> Reader]
  BY <1>2 DEF Reliable
<1>4. asked.rev \in Revs /\ asked.kinds \in Sets
  BY DEF Revs, Sets
<1> QED BY <1>1, <1>3, <1>4, MessageTypes DEF WriterMessages, Names

LEMMA InitTypes == WriterInit => WriterTypeOK
<1> SUFFICES ASSUME WriterInit PROVE WriterTypeOK
  OBVIOUS
<1>1. PICK s \in AlreadyAsked : /\ told = [rev |-> s.rev, kinds |-> s.kinds, ever |-> s.kinds]
                        /\ entry = [rev |-> s.rev, kinds |-> s.kinds, listed |-> TRUE]
  BY DEF WriterInit
<1>2. s.rev \in Revs /\ s.kinds \in Sets
  BY DEF Revs, Sets
<1>3. /\ told \in [rev : Revs, kinds : Sets, ever : SUBSET UNION Sets]
      /\ entry \in [rev : Revs, kinds : Sets, listed : BOOLEAN]
  BY <1>1, <1>2
<1>4. NoCall \in [pc : {"idle", "send", "wait", "done", "failed", "gone"}, command : WriterMessages]
  BY MessageTypes DEF NoCall
<1>5. call \in [Callers -> [pc : {"idle", "send", "wait", "done", "failed", "gone"},
                          command : WriterMessages]]
  BY <1>4 DEF WriterInit
<1>7. asks \in Seq(Asked) /\ wire \in Seq(WriterMessages) /\ channel \in Seq(WriterMessages)
  BY DEF WriterInit
<1>8. slot \in Revs /\ wake \in BOOLEAN
  BY MessageTypes DEF WriterInit
<1>9. service \in [pc : {"idle", "check", "store", "swap", "wake"}, rev : Revs]
  BY MessageTypes DEF WriterInit
<1>6. thread \in [pc : WriterPcs, batch : Seq(WriterMessages), taken : Revs]
  BY MessageTypes DEF WriterInit, WriterPcs
<1> QED BY <1>3, <1>5, <1>6, <1>7, <1>8, <1>9 DEF WriterTypeOK

\* What an answer makes of the calls
LEMMA AnswerType ==
    ASSUME NEW commands, NEW pc \in {"done", "failed"}, Answer(commands, pc),
           call \in [Callers -> [pc : {"idle", "send", "wait", "done", "failed", "gone"},
                                command : WriterMessages]]
    PROVE  call' \in [Callers -> [pc : {"idle", "send", "wait", "done", "failed", "gone"},
                                 command : WriterMessages]]
BY DEF Answer

LEMMA SocketTypes ==
    ASSUME WriterTypeOK, Ask \/ ProcessReads \/ ProcessDies
    PROVE  WriterTypeOK'
<1>1. CASE Ask
  <2>1. asks' \in Seq(Asked)
    <3>1. PICK subscription \in Asked : asks' = Append(asks, subscription)
      BY <1>1 DEF Ask
    <3> QED BY <3>1 DEF WriterTypeOK
  <2> QED BY <1>1, <2>1 DEF WriterTypeOK, Ask, manager, audio
<1>2. CASE ProcessReads
  <2>1. wire' \in Seq(WriterMessages) /\ Head(wire) \in WriterMessages
    BY <1>2 DEF WriterTypeOK, ProcessReads
  <2>2. told' \in [rev : Revs, kinds : Sets, ever : SUBSET UNION Sets]
    BY <1>2, <2>1 DEF WriterTypeOK, ProcessReads, Told, WriterMessages
  <2> QED BY <1>2, <2>1, <2>2 DEF WriterTypeOK, ProcessReads, manager, audio
<1>3. CASE ProcessDies
  BY <1>3 DEF WriterTypeOK, ProcessDies, manager, audio
<1> QED BY <1>1, <1>2, <1>3

Calling == [pc : {"idle", "send", "wait", "done", "failed", "gone"}, command : WriterMessages]

LEMMA CallsType ==
    ASSUME NEW t \in Callers, NEW command \in WriterMessages, call \in [Callers -> Calling], Calls(t, command)
    PROVE  call' \in [Callers -> Calling]
BY DEF Calls, Calling

LEMMA CallTypes ==
    ASSUME WriterTypeOK, NEW t \in Callers,
           Enqueue(t) \/ EnqueueFails(t) \/ Answered(t) \/ (t \in Sender /\ SendControl(t))
             \/ ReadAsk \/ ReaderExits \/ Stop \/ Evict
    PROVE  WriterTypeOK'
<1>0. call \in [Callers -> Calling]
  BY DEF WriterTypeOK, Calling
<1>1. CASE Enqueue(t)
  <2>1. call' \in [Callers -> Calling]
    BY <1>0, <1>1 DEF Enqueue, Calling
  <2>2. channel' \in Seq(WriterMessages)
    BY <1>0, <1>1 DEF Enqueue, WriterTypeOK, Calling
  <2> QED BY <1>1, <2>1, <2>2 DEF WriterTypeOK, Enqueue, socket, manager, audio, Calling
<1>2. CASE EnqueueFails(t)
  <2>1. call' \in [Callers -> Calling]
    BY <1>0, <1>2 DEF EnqueueFails, Calling
  <2> QED BY <1>2, <2>1 DEF WriterTypeOK, EnqueueFails, socket, manager, audio, Calling
<1>3. CASE Answered(t)
  <2>1. NoCall \in Calling /\ [NoCall EXCEPT !.pc = "gone"] \in Calling
    BY MessageTypes DEF NoCall, Calling
  <2>2. call' \in [Callers -> Calling]
    BY <1>0, <1>3, <2>1 DEF Answered
  <2> QED BY <1>3, <2>2 DEF WriterTypeOK, Answered, socket, audio, Calling
<1>4. CASE t \in Sender /\ SendControl(t)
  <2>1. call' \in [Callers -> Calling]
    BY <1>0, <1>4, MessageTypes, CallsType DEF SendControl
  <2> QED BY <1>4, <2>1 DEF WriterTypeOK, SendControl, socket, manager, audio, Calling
<1>5. CASE ReadAsk
  <2>1. asks' \in Seq(Asked) /\ Head(asks) \in Asked
    BY <1>5 DEF WriterTypeOK, ReadAsk
  <2>2. Prepared(Head(asks)) \in WriterMessages
    BY <2>1, PreparedType DEF WriterTypeOK
  <2>3. call' \in [Callers -> Calling]
    BY <1>0, <1>5, <2>2, MessageTypes, CallsType DEF ReadAsk
  <2> QED BY <1>5, <2>1, <2>3 DEF WriterTypeOK, ReadAsk, manager, audio, Calling
<1>6. CASE ReaderExits
  <2>1. call' \in [Callers -> Calling]
    BY <1>0, <1>6, MessageTypes DEF ReaderExits, Calling
  <2> QED BY <1>6, <2>1 DEF WriterTypeOK, ReaderExits, socket, audio, Calling
<1>7. CASE Stop
  <2>1. call' \in [Callers -> Calling]
    BY <1>0, <1>7, MessageTypes, CallsType DEF Stop
  <2>2. entry' \in [rev : Revs, kinds : Sets, listed : BOOLEAN]
    BY <1>7, MessageTypes DEF Stop, Gone, NoWindow
  <2> QED BY <1>7, <2>1, <2>2 DEF WriterTypeOK, Stop, socket, audio, Calling
<1>8. CASE Evict
  <2>1. entry' \in [rev : Revs, kinds : Sets, listed : BOOLEAN]
    BY <1>8, MessageTypes DEF Evict, Gone, NoWindow, WriterTypeOK
  <2> QED BY <1>8, <2>1 DEF WriterTypeOK, Evict, socket, audio
<1> QED BY <1>1, <1>2, <1>3, <1>4, <1>5, <1>6, <1>7, <1>8

LEMMA ServiceTypes ==
    ASSUME WriterTypeOK, Captured \/ CheckRevision \/ StoreWindow \/ SwapWake \/ SendWake
    PROVE  WriterTypeOK'
<1>1. CASE Captured
  BY <1>1 DEF WriterTypeOK, Captured, socket, manager, audio
<1>2. CASE CheckRevision
  BY <1>2 DEF WriterTypeOK, CheckRevision, socket, manager, audio
<1>3. CASE StoreWindow
  BY <1>3 DEF WriterTypeOK, StoreWindow, socket, manager
<1>4. CASE SwapWake
  BY <1>4 DEF WriterTypeOK, SwapWake, socket, manager
<1>5. CASE SendWake
  <2>1. channel' \in Seq(WriterMessages) /\ wake' \in BOOLEAN
    BY <1>5, MessageTypes DEF WriterTypeOK, SendWake
  <2> QED BY <1>5, <2>1 DEF WriterTypeOK, SendWake, socket, manager
<1> QED BY <1>1, <1>2, <1>3, <1>4, <1>5

Writers == [pc : WriterPcs, batch : Seq(WriterMessages), taken : Revs]

LEMMA WriterFacts ==
    ASSUME WriterTypeOK
    PROVE  /\ thread \in Writers
           /\ \A pc \in WriterPcs : ThreadGoes(pc) => thread' \in Writers
           /\ thread.batch # <<>> => /\ Current \in WriterMessages
                                     /\ Tail(thread.batch) \in Seq(WriterMessages)
                                     /\ Popped("write") \in Writers
<1>1. thread \in Writers
  BY DEF WriterTypeOK, Writers
<1>2. ASSUME thread.batch # <<>>
      PROVE  Current \in WriterMessages /\ Tail(thread.batch) \in Seq(WriterMessages)
  BY <1>1, <1>2 DEF Current, Writers
<1>3. ASSUME thread.batch # <<>>
      PROVE  Popped("write") \in Writers
  BY <1>1, <1>2, <1>3 DEF Popped, Writers, WriterPcs
<1>4. \A pc \in WriterPcs : ThreadGoes(pc) => thread' \in Writers
  BY <1>1 DEF ThreadGoes, Writers
<1> QED BY <1>1, <1>2, <1>3, <1>4

LEMMA BatchTypes ==
    ASSUME WriterTypeOK, Take \/ Filled \/ SkipWake \/ Write \/ WriteFails \/ ClearSlot
             \/ (Commit /\ thread.batch # <<>>)
    PROVE  WriterTypeOK'
<1>0. thread \in Writers /\ call \in [Callers -> Calling]
  BY WriterFacts DEF WriterTypeOK, Calling
<1>1. CASE Take
  <2>1. channel' \in Seq(WriterMessages) /\ Head(channel) \in WriterMessages
    BY <1>1 DEF WriterTypeOK, Take
  <2>2. Append(thread.batch, Head(channel)) \in Seq(WriterMessages)
    BY <1>0, <2>1 DEF Writers
  <2>3. thread' \in Writers
    BY <1>0, <1>1, <2>2 DEF Take, Writers, WriterPcs
  <2> QED BY <1>1, <2>1, <2>3 DEF WriterTypeOK, Take, socket, manager, audio, Writers
<1>2. CASE Filled
  <2>1. thread' \in Writers
    BY <1>2, WriterFacts DEF Filled, WriterPcs
  <2> QED BY <1>2, <2>1 DEF WriterTypeOK, Filled, socket, manager, audio, Writers
<1>3. CASE SkipWake
  <2>1. thread' \in Writers
    BY <1>3, WriterFacts DEF SkipWake
  <2> QED BY <1>3, <2>1 DEF WriterTypeOK, SkipWake, socket, manager, audio, Writers
<1>4. CASE Write
  <2>1. thread' \in Writers
    BY <1>4, WriterFacts DEF Write, WriterPcs
  <2>2. wire' \in Seq(WriterMessages)
    BY <1>4, WriterFacts DEF Write, WriterTypeOK
  <2>3. call' \in [Callers -> Calling]
    BY <1>0, <1>4, AnswerType DEF Write, Calling
  <2> QED BY <1>4, <2>1, <2>2, <2>3 DEF WriterTypeOK, Write, manager, audio, Writers, Calling
<1>5. CASE WriteFails
  <2>1. thread' \in Writers /\ channel' \in Seq(WriterMessages)
    BY <1>5, MessageTypes DEF WriteFails, Writers, WriterPcs
  <2>2. call' \in [Callers -> Calling]
    BY <1>0, <1>5, AnswerType DEF WriteFails, Calling
  <2> QED BY <1>5, <2>1, <2>2 DEF WriterTypeOK, WriteFails, socket, audio, Writers, Calling
<1>6. CASE ClearSlot
  <2>1. thread' \in Writers
    BY <1>6, WriterFacts DEF ClearSlot, WriterPcs
  <2> QED BY <1>6, <2>1, MessageTypes DEF WriterTypeOK, ClearSlot, socket, manager, Writers
<1>7. CASE Commit /\ thread.batch # <<>>
  <2>1. thread' \in Writers
    BY <1>7, WriterFacts DEF Commit
  <2>2. call' \in [Callers -> Calling]
    BY <1>0, <1>7, AnswerType DEF Commit, Calling
  <2>3. entry' \in [rev : Revs, kinds : Sets, listed : BOOLEAN]
    <3>1. Current.rev \in Revs /\ Current.kinds \in Sets
      BY <1>7, WriterFacts DEF WriterMessages
    <3> QED BY <1>7, <3>1 DEF Commit, WriterTypeOK
  <2> QED BY <1>7, <2>1, <2>2, <2>3 DEF WriterTypeOK, Commit, socket, audio, Writers, Calling
<1> QED BY <1>1, <1>2, <1>3, <1>4, <1>5, <1>6, <1>7

LEMMA WindowTypes ==
    ASSUME WriterTypeOK,
           ClearWake \/ TakeWindow \/ CheckWindow \/ WriteWindow \/ WriteWindowFails \/ RecvFails \/ WriterEnds
    PROVE  WriterTypeOK'
<1>0. thread \in Writers /\ call \in [Callers -> Calling]
  BY WriterFacts DEF WriterTypeOK, Calling
<1>1. CASE ClearWake
  <2>1. thread' \in Writers
    BY <1>1, WriterFacts DEF ClearWake, WriterPcs
  <2> QED BY <1>1, <2>1 DEF WriterTypeOK, ClearWake, socket, manager, Writers
<1>2. CASE TakeWindow
  <2>1. thread' \in Writers /\ slot' \in Revs
    BY <1>0, <1>2, MessageTypes DEF TakeWindow, WriterTypeOK, Writers, WriterPcs
  <2> QED BY <1>2, <2>1 DEF WriterTypeOK, TakeWindow, socket, manager, Writers
<1>3. CASE CheckWindow
  <2>1. thread' \in Writers
    BY <1>0, <1>3, MessageTypes DEF CheckWindow, Writers, WriterPcs
  <2> QED BY <1>3, <2>1 DEF WriterTypeOK, CheckWindow, socket, manager, audio, Writers
<1>4. CASE WriteWindow
  <2>1. thread' \in Writers
    BY <1>0, <1>4, MessageTypes DEF WriteWindow, Writers, WriterPcs
  <2>2. wire' \in Seq(WriterMessages)
    BY <1>0, <1>4, MessageTypes DEF WriteWindow, WriterTypeOK, Writers
  <2> QED BY <1>4, <2>1, <2>2 DEF WriterTypeOK, WriteWindow, manager, audio, Writers
<1>5. CASE WriteWindowFails
  <2>1. thread' \in Writers
    BY <1>0, <1>5, MessageTypes DEF WriteWindowFails, Writers, WriterPcs
  <2> QED BY <1>5, <2>1 DEF WriterTypeOK, WriteWindowFails, socket, audio, Writers
<1>6. CASE RecvFails
  <2>1. thread' \in Writers
    BY <1>6, WriterFacts DEF RecvFails, WriterPcs
  <2> QED BY <1>6, <2>1 DEF WriterTypeOK, RecvFails, socket, manager, audio, Writers
<1>7. CASE WriterEnds
  <2>1. thread' \in Writers
    BY <1>7, WriterFacts DEF WriterEnds, WriterPcs
  <2>2. call' \in [Callers -> Calling]
    BY <1>0, <1>7, AnswerType DEF WriterEnds, Calling
  <2> QED BY <1>7, <2>1, <2>2 DEF WriterTypeOK, WriterEnds, socket, manager, audio, Writers, Calling
<1> QED BY <1>1, <1>2, <1>3, <1>4, <1>5, <1>6, <1>7

-----------------------------------------------------------------------------
(* Commands on their way to the socket. *)

\* New commands are no windows, and an event is asked for when it is made
LEMMA UnderwayMoves ==
    ASSUME WriterTypeOK, WriterNext, NEW m \in WriterMessages, Underway(m)', m.kind \in {"mpris", "audio"},
           thread.pc = "commit" => thread.batch # <<>>
    PROVE  Underway(m) \/ (m.kind = "mpris" /\ "mpris" \in entry.kinds)
<1>0. /\ channel \in Seq(WriterMessages) /\ thread \in Writers /\ call \in [Callers -> Calling]
      /\ thread.batch \in Seq(WriterMessages)
  BY WriterFacts DEF WriterTypeOK, Calling, Writers
<1>1. /\ WakeAudio.kind = "wake" /\ \A t \in Callers, kind \in Names : Reliable(kind, t).kind = kind
      /\ WakeAudio # m /\ "control" \in Names /\ "mpris" \in Names /\ "shutdown" \in Names
  BY DEF WakeAudio, Reliable, Names
<1>2. CASE UNCHANGED <<call, channel, thread>>
  BY <1>2 DEF Underway
<1>3. ASSUME NEW t \in Callers, Enqueue(t) PROVE Underway(m)
  <2>1. \A u \in Callers : call'[u].pc = "send" => u # t /\ call'[u] = call[u]
    BY <1>0, <1>3 DEF Enqueue, Calling
  <2>2. \A i \in 1 .. Len(channel') : (i \in 1 .. Len(channel) /\ channel'[i] = channel[i]) \/ channel'[i] = call[t].command
    <3>1. channel' = Append(channel, call[t].command)
      BY <1>3 DEF Enqueue
    <3>2. call[t].command \in WriterMessages
      BY <1>0 DEF Calling
    <3> QED BY <1>0, <3>1, <3>2
  <2>3. thread' = thread /\ call[t].pc = "send"
    BY <1>3 DEF Enqueue
  <2> QED BY <2>1, <2>2, <2>3 DEF Underway
<1>4. ASSUME UNCHANGED <<channel, thread>>,
             \A u \in Callers : call'[u].pc = "send" => call'[u] = call[u]
      PROVE  Underway(m)
  BY <1>4 DEF Underway
<1>5. ASSUME NEW t \in Callers, EnqueueFails(t) \/ Answered(t) \/ ReaderExits PROVE Underway(m)
  <2>1. \A u \in Callers : call'[u].pc = "send" => call'[u] = call[u]
    BY <1>0, <1>5, MessageTypes DEF EnqueueFails, Answered, ReaderExits, Calling, NoCall
  <2> QED BY <1>4, <1>5, <2>1 DEF EnqueueFails, Answered, ReaderExits
<1>6. ASSUME NEW t \in Callers, NEW command, Calls(t, command), UNCHANGED <<channel, thread>>
      PROVE  Underway(m) \/ command = m
  <2>1. \A u \in Callers : call'[u].pc = "send" => call'[u] = call[u] \/ call'[u].command = command
    BY <1>0, <1>6 DEF Calls
  <2> QED BY <1>6, <2>1 DEF Underway
<1>7. ASSUME NEW t \in Sender, SendControl(t)
      PROVE  Underway(m) \/ (m.kind = "mpris" /\ "mpris" \in entry.kinds)
  <2>1. t \in Callers
    BY DEF Callers
  <2>2. CASE Calls(t, Reliable("control", t))
    BY <1>1, <1>6, <1>7, <2>1, <2>2 DEF SendControl
  <2>3. CASE "mpris" \in entry.kinds /\ Calls(t, Reliable("mpris", t))
    BY <1>1, <1>6, <1>7, <2>1, <2>3 DEF SendControl
  <2> QED BY <1>7, <2>2, <2>3 DEF SendControl
<1>8. CASE ReadAsk
  <2>1. Head(asks) \in Asked
    BY <1>8 DEF WriterTypeOK, ReadAsk
  <2>2. Prepared(Head(asks)).kind = "ack"
    BY <2>1, PreparedType DEF WriterTypeOK
  <2> QED BY <1>6, <1>8, <2>2, MessageTypes DEF ReadAsk
<1>9. CASE Stop
  BY <1>1, <1>6, <1>9, MessageTypes DEF Stop
<1>10. CASE SendWake
  <2>1. \A i \in 1 .. Len(channel') : (i \in 1 .. Len(channel) /\ channel'[i] = channel[i]) \/ channel'[i] = WakeAudio
    BY <1>0, <1>10, MessageTypes DEF SendWake
  <2> QED BY <1>1, <1>10, <2>1 DEF SendWake, Underway
<1>11. CASE Take
  <2>1. /\ Head(channel) = channel[1] /\ 1 \in 1 .. Len(channel)
        /\ \A i \in 1 .. Len(channel') : i + 1 \in 1 .. Len(channel) /\ channel'[i] = channel[i + 1]
    BY <1>0, <1>11 DEF Take
  <2>2. thread'.batch = Append(thread.batch, Head(channel)) /\ Head(channel) \in WriterMessages
    BY <1>0, <1>11 DEF Take, Writers
  <2>3. \A i \in 1 .. Len(thread'.batch) :
          (i \in 1 .. Len(thread.batch) /\ thread'.batch[i] = thread.batch[i]) \/ thread'.batch[i] = Head(channel)
    BY <1>0, <2>2
  <2> QED BY <1>11, <2>1, <2>3 DEF Take, Underway
<1>12. ASSUME channel' = channel,
              \/ thread'.batch = thread.batch \/ thread'.batch = <<>>
              \/ thread.batch # <<>> /\ thread'.batch = Tail(thread.batch),
              \A u \in Callers : call'[u].pc = "send" => call'[u] = call[u]
       PROVE  Underway(m)
  <2>1. \A i \in 1 .. Len(thread'.batch) : \E j \in 1 .. Len(thread.batch) : thread'.batch[i] = thread.batch[j]
    <3>1. CASE thread'.batch = thread.batch
      BY <3>1
    <3>2. CASE thread'.batch = <<>>
      BY <3>2
    <3>3. CASE thread.batch # <<>> /\ thread'.batch = Tail(thread.batch)
      <4>1. \A i \in 1 .. Len(thread'.batch) : i + 1 \in 1 .. Len(thread.batch) /\ thread'.batch[i] = thread.batch[i + 1]
        BY <1>0, <3>3
      <4> QED BY <4>1
    <3> QED BY <1>12, <3>1, <3>2, <3>3
  <2> QED BY <1>12, <2>1 DEF Underway
<1>13. ASSUME NEW commands, NEW pc \in {"done", "failed"}, Answer(commands, pc)
       PROVE  \A u \in Callers : call'[u].pc = "send" => call'[u] = call[u]
  BY <1>0, <1>13 DEF Answer, Calling
<1>14. CASE SkipWake \/ Commit \/ Write
  <2>1. thread'.batch = thread.batch \/ (thread.batch # <<>> /\ thread'.batch = Tail(thread.batch))
    BY <1>0, <1>14 DEF SkipWake, Commit, Write, Popped, ThreadGoes, Writers
  <2>2. channel' = channel
    BY <1>14 DEF SkipWake, Commit, Write
  <2>3. \A u \in Callers : call'[u].pc = "send" => call'[u] = call[u]
    BY <1>13, <1>14 DEF SkipWake, Commit, Write
  <2> QED BY <1>12, <2>1, <2>2, <2>3
<1>15. CASE Filled \/ ClearSlot \/ ClearWake \/ TakeWindow \/ CheckWindow \/ WriteWindow \/ WriteWindowFails \/ RecvFails
  <2>1. thread'.batch = thread.batch
    BY <1>0, <1>15 DEF Filled, ClearSlot, ClearWake, TakeWindow, CheckWindow, WriteWindow,
                       WriteWindowFails, RecvFails, ThreadGoes, Writers
  <2>2. channel' = channel /\ call' = call
    BY <1>15 DEF Filled, ClearSlot, ClearWake, TakeWindow, CheckWindow, WriteWindow,
                 WriteWindowFails, RecvFails
  <2> QED BY <1>12, <2>1, <2>2
<1>16. CASE WriteFails \/ WriterEnds
  <2>1. channel' = <<>> /\ (thread'.batch = <<>> \/ thread'.batch = thread.batch)
    BY <1>0, <1>16 DEF WriteFails, WriterEnds, ThreadGoes, Writers
  <2>2. \A u \in Callers : call'[u].pc = "send" => call'[u] = call[u]
    BY <1>13, <1>16 DEF WriteFails, WriterEnds
  <2> QED BY <2>1, <2>2 DEF Underway
<1>17. Ask \/ ProcessReads \/ ProcessDies \/ Evict \/ Captured \/ CheckRevision \/ StoreWindow \/ SwapWake
         => UNCHANGED <<call, channel, thread>>
  BY DEF Ask, ProcessReads, ProcessDies, Evict, Captured, CheckRevision, StoreWindow, SwapWake
<1> QED BY <1>2, <1>3, <1>5, <1>7, <1>8, <1>9, <1>10, <1>11, <1>14, <1>15, <1>16, <1>17, MessageTypes DEF WriterNext

-----------------------------------------------------------------------------
(* What fits. *)

LEMMA Quiet ==
    ASSUME WriterTypeOK, UNCHANGED <<wire, told>>
    PROVE  End' = End /\ Ever' = Ever /\ (EventsFit => EventsFit')
<1>1. (EventsFit <=> Fit(wire, told)) /\ (EventsFit' <=> Fit(wire', told'))
  <2>1. EventsFit <=> Fit(wire, told)
    BY EventsFitIs DEF WriterTypeOK
  <2>2. EventsFit' <=> EventsFit
    BY DEF EventsFit, Before, EverBefore
  <2> QED BY <2>1, <2>2
<1> QED BY <1>1 DEF End, Ever

LEMMA FitNext == ASSUME WriterTypeOK' PROVE EventsFit' <=> Fit(wire', told')
<1>1. DOMAIN wire' = 1 .. Len(wire')
  BY DEF WriterTypeOK
<1>2. \A i \in 1 .. Len(wire') :
        Before(i)' = LastTold(wire', told', i - 1) /\ EverBefore(i)' = EverTold(wire', told', i - 1)
  BY DEF Before, EverBefore, LastTold, EverTold
<1> QED BY <1>1, <1>2 DEF EventsFit, Fit

LEMMA EndWithin ==
    ASSUME WriterTypeOK, told.kinds \subseteq told.ever
    PROVE  End.kinds \subseteq Ever
<1>1. Len(wire) \in Nat
  BY DEF WriterTypeOK
<1>2. CASE \A j \in 1 .. Len(wire) : ~wire[j].commit
  <2>1. End.kinds = told.kinds
    BY <1>1, <1>2, LastToldIs DEF End
  <2> QED BY <2>1 DEF Ever, EverTold
<1>3. CASE \E j \in 1 .. Len(wire) : wire[j].commit /\ \A k \in 1 .. Len(wire) : wire[k].commit => k <= j
  <2>1. PICK j \in 1 .. Len(wire) : wire[j].commit /\ \A k \in 1 .. Len(wire) : wire[k].commit => k <= j
    BY <1>3
  <2>2. End.kinds = wire[j].kinds
    BY <1>1, <2>1, LastToldIs DEF End
  <2> QED BY <2>1, <2>2 DEF Ever, EverTold
<1> QED BY <1>1, <1>2, <1>3, LastToldCases

\* What the process reads leaves what it will know in the end
LEMMA ReadsStream ==
    ASSUME WriterTypeOK, WriterTypeOK', StreamInv, ProcessReads
    PROVE  /\ EventsFit' /\ End' = End /\ Ever' = Ever
           /\ told'.kinds \subseteq told'.ever
<1>1. wire \in Seq(WriterMessages) /\ wire # <<>> /\ wire' = Tail(wire) /\ told' = Knows(told, Head(wire))
  BY DEF WriterTypeOK, ProcessReads, Told, Knows
<1>2. Len(wire) \in 1 .. Len(wire) /\ Len(wire') = Len(wire) - 1
  BY <1>1
<1>3. End' = End /\ Ever' = Ever
  BY <1>1, <1>2, ToldLess DEF End, Ever
<1>4. Fit(wire, told)
  BY <1>1, EventsFitIs DEF StreamInv
<1>5. EventsFit'
  BY <1>1, <1>4, FitTail, FitNext
<1>6. told'.kinds \subseteq told'.ever
  BY <1>1 DEF Knows, StreamInv, RegistryInv
<1> QED BY <1>3, <1>5, <1>6

\* A message that fits at the end is written
LEMMA WritesStream ==
    ASSUME WriterTypeOK, WriterTypeOK', EventsFit, NEW m \in WriterMessages, wire' = Append(wire, m), told' = told,
           m.kind = "mpris" => "mpris" \in Ever,
           m.kind = "audio" => End.rev = m.rev /\ "audio" \in End.kinds
    PROVE  /\ EventsFit'
           /\ End' = IF m.commit THEN [rev |-> m.rev, kinds |-> m.kinds] ELSE End
           /\ Ever' = IF m.commit THEN Ever \cup m.kinds ELSE Ever
<1>1. wire \in Seq(WriterMessages) /\ Len(wire') = Len(wire) + 1
  BY DEF WriterTypeOK
<1>2. Fit(wire, told)
  BY <1>1, EventsFitIs
<1>3. /\ Fit(wire', told')
      /\ End' = IF m.commit THEN [rev |-> m.rev, kinds |-> m.kinds] ELSE End
      /\ Ever' = IF m.commit THEN Ever \cup m.kinds ELSE Ever
  BY <1>1, <1>2, FitAppend DEF End, Ever
<1> QED BY <1>3, FitNext

LEMMA RegistryStep ==
    ASSUME WriterTypeOK, WriterTypeOK', StreamInv, AnswerInv, WriterNext
    PROVE  EventsFit' /\ RegistryInv' /\ Ever \subseteq Ever'
<1>0. thread \in Writers /\ entry \in [rev : Revs, kinds : Sets, listed : BOOLEAN]
  BY WriterFacts DEF WriterTypeOK
<1>1. ASSUME UNCHANGED <<wire, told>>,
             UNCHANGED entry \/ (entry' = Gone /\ Gone \in [rev : Revs, kinds : Sets, listed : BOOLEAN]),
             thread'.pc \in {"clear", "commit"} => Written /\ thread'.batch = thread.batch,
             Written => thread'.pc \in {"clear", "commit"},
             thread'.pc = "window" => thread.pc = "window" /\ thread'.taken = thread.taken
      PROVE  EventsFit' /\ RegistryInv' /\ Ever \subseteq Ever'
  <2>1. End' = End /\ Ever' = Ever /\ EventsFit'
    BY <1>1, Quiet DEF StreamInv
  <2>2. RegistryInv'
    BY <1>0, <1>1, <2>1 DEF StreamInv, RegistryInv, Written, Current, Gone
  <2> QED BY <2>1, <2>2
<1>2. CASE UNCHANGED <<wire, told, entry, thread>>
  BY <1>1, <1>2 DEF Written
<1>3. CASE ProcessReads
  <2>1. EventsFit' /\ End' = End /\ Ever' = Ever /\ told'.kinds \subseteq told'.ever
    BY <1>3, ReadsStream
  <2>2. UNCHANGED <<entry, thread>>
    BY <1>3 DEF ProcessReads, manager
  <2> QED BY <2>1, <2>2 DEF StreamInv, RegistryInv, Written, Current
<1>4. CASE Stop \/ Evict
  <2>1. Gone \in [rev : Revs, kinds : Sets, listed : BOOLEAN]
    BY MessageTypes DEF Gone
  <2> QED BY <1>1, <1>4, <2>1 DEF Stop, Evict, socket, Written
<1>5. CASE Take \/ Filled \/ SkipWake \/ ClearWake \/ TakeWindow \/ WriteWindowFails \/ RecvFails
         \/ WriterEnds \/ WriteFails
  <2>1. CASE Take \/ Filled \/ ClearWake \/ RecvFails \/ WriterEnds
    <3>1. thread.pc \notin {"clear", "commit"} /\ thread'.pc \notin {"clear", "commit", "window"}
      BY <1>0, <2>1 DEF Take, Filled, ClearWake, RecvFails, WriterEnds, ThreadGoes, Writers
    <3> QED BY <1>1, <2>1, <3>1 DEF Take, Filled, ClearWake, RecvFails, WriterEnds, socket, manager,
                                    Written
  <2>2. CASE SkipWake \/ TakeWindow
    <3>1. thread.pc \notin {"clear", "commit"} /\ thread'.pc \notin {"clear", "commit", "window"}
      BY <1>0, <2>2 DEF SkipWake, TakeWindow, Popped, Writers
    <3> QED BY <1>1, <2>2, <3>1 DEF SkipWake, TakeWindow, socket, manager, Written
  <2>3. CASE WriteWindowFails \/ WriteFails
    <3>1. thread.pc \in {"window", "write"} /\ thread'.pc = "end"
      <4>1. WriteWindowFails => thread.pc = "window" /\ thread'.pc = "end"
        BY <1>0 DEF WriteWindowFails, Writers
      <4>2. WriteFails => thread.pc = "write" /\ thread'.pc = "end"
        BY DEF WriteFails
      <4> QED BY <2>3, <4>1, <4>2
    <3> QED BY <1>1, <2>3, <3>1 DEF WriteWindowFails, WriteFails, socket, Written
  <2> QED BY <1>5, <2>1, <2>2, <2>3
<1>6. CASE ClearSlot
  <2>1. thread.pc = "clear" /\ thread'.pc = "commit" /\ thread'.batch = thread.batch
    BY <1>0, <1>6 DEF ClearSlot, ThreadGoes, Writers
  <2> QED BY <1>1, <1>6, <2>1 DEF ClearSlot, socket, manager, Written
<1>7. CASE Write
  <2>1. Current \in WriterMessages /\ Underway(Current)
    BY <1>0, <1>7, WriterFacts DEF Write, Underway, Current, Writers
  <2>2. wire' = Append(wire, Current) /\ told' = told /\ entry' = entry /\ thread.pc = "write"
    BY <1>7 DEF Write, manager
  <2>3. /\ EventsFit'
        /\ End' = IF Current.commit THEN [rev |-> Current.rev, kinds |-> Current.kinds] ELSE End
        /\ Ever' = IF Current.commit THEN Ever \cup Current.kinds ELSE Ever
    BY <2>1, <2>2, WritesStream DEF StreamInv, CommandInv
  <2>4. CASE Current.commit
    <3>1. thread'.pc = "clear" /\ thread'.batch = thread.batch /\ thread.batch # <<>>
      BY <1>0, <1>7, <2>4 DEF Write, ThreadGoes, Writers
    <3> QED BY <2>2, <2>3, <2>4, <3>1 DEF StreamInv, RegistryInv, Written, Current
  <2>5. CASE ~Current.commit
    <3>1. thread'.pc = "write"
      BY <1>0, <1>7, <2>5 DEF Write, Popped, Writers
    <3> QED BY <2>2, <2>3, <2>5, <3>1 DEF StreamInv, RegistryInv, Written, Current
  <2> QED BY <2>4, <2>5
<1>8. CASE Commit
  <2>1. End' = End /\ Ever' = Ever /\ EventsFit' /\ told' = told
    BY <1>8, Quiet DEF Commit, StreamInv, socket
  <2>2. Written /\ thread'.pc = "write" /\ thread.batch # <<>>
    BY <1>0, <1>8 DEF Commit, Popped, Written, Writers, StreamInv, RegistryInv
  <2>3. CASE entry.listed
    <3>1. entry'.rev = Current.rev /\ entry'.kinds = Current.kinds
      BY <1>0, <1>8, <2>3 DEF Commit
    <3>2. entry'.listed = entry.listed
      BY <1>0, <1>8, <2>3 DEF Commit
    <3>3. End = [rev |-> Current.rev, kinds |-> Current.kinds] /\ Current.kinds \subseteq Ever
      <4>1. End = [rev |-> Current.rev, kinds |-> Current.kinds]
        BY <2>2 DEF StreamInv, RegistryInv
      <4>2. End.kinds \subseteq Ever
        BY EndWithin DEF StreamInv, RegistryInv
      <4> QED BY <4>1, <4>2
    <3> QED BY <2>1, <2>2, <2>3, <3>1, <3>2, <3>3 DEF StreamInv, RegistryInv, Written
  <2>4. CASE ~entry.listed
    <3>1. entry' = entry
      BY <1>8, <2>4 DEF Commit
    <3> QED BY <2>1, <2>2, <2>4, <3>1 DEF StreamInv, RegistryInv, Written
  <2> QED BY <2>3, <2>4
<1>9. CASE CheckWindow
  <2>1. End' = End /\ Ever' = Ever /\ EventsFit'
    BY <1>9, Quiet DEF CheckWindow, StreamInv, socket
  <2>2. entry' = entry /\ told' = told /\ ~Written /\ thread'.pc \in {"window", "recv"}
    BY <1>0, <1>9 DEF CheckWindow, Written, Writers, manager, socket
  <2>3. CASE Subscribed("audio", thread.taken)
    <3>1. thread'.pc = "window" /\ thread'.taken = thread.taken
      BY <1>0, <1>9, <2>3 DEF CheckWindow, Writers
    <3>2. entry.listed /\ End = [rev |-> entry.rev, kinds |-> entry.kinds]
      BY <1>0, <2>2, <2>3 DEF Subscribed, StreamInv, RegistryInv
    <3> QED BY <2>1, <2>2, <2>3, <3>1, <3>2 DEF Subscribed, StreamInv, RegistryInv, Written
  <2>4. CASE ~Subscribed("audio", thread.taken)
    <3>1. thread'.pc = "recv"
      BY <1>0, <1>9, <2>4 DEF CheckWindow, Writers
    <3> QED BY <2>1, <2>2, <3>1 DEF StreamInv, RegistryInv, Written
  <2> QED BY <2>3, <2>4
<1>10. CASE WriteWindow
  <2>1. thread.taken \in Revs /\ Window(thread.taken) \in WriterMessages
    BY <1>0, MessageTypes DEF Writers
  <2>2. /\ Window(thread.taken).kind = "audio" /\ Window(thread.taken).rev = thread.taken
        /\ ~Window(thread.taken).commit
    BY DEF Window
  <2>3. wire' = Append(wire, Window(thread.taken)) /\ told' = told /\ entry' = entry /\ thread.pc = "window"
        /\ thread'.pc = "recv"
    BY <1>0, <1>10 DEF WriteWindow, manager, Writers
  <2>4. EventsFit' /\ End' = End /\ Ever' = Ever
    BY <2>1, <2>2, <2>3, WritesStream DEF StreamInv, RegistryInv
  <2> QED BY <2>3, <2>4 DEF StreamInv, RegistryInv, Written
<1>11. \/ Ask \/ ProcessDies \/ ReadAsk \/ ReaderExits
       \/ \E t \in Callers : Enqueue(t) \/ EnqueueFails(t) \/ Answered(t)
       \/ \E t \in Sender : SendControl(t)
       \/ Captured \/ CheckRevision \/ StoreWindow \/ SwapWake \/ SendWake
       => UNCHANGED <<wire, told, entry, thread>>
  BY DEF Ask, ProcessDies, ReadAsk, ReaderExits, Enqueue, EnqueueFails, Answered, SendControl, Captured,
         CheckRevision, StoreWindow, SwapWake, SendWake, socket, manager
<1> QED BY <1>2, <1>3, <1>4, <1>5, <1>6, <1>7, <1>8, <1>9, <1>10, <1>11 DEF WriterNext

LEMMA CommandStep ==
    ASSUME WriterTypeOK, StreamInv, AnswerInv, WriterNext, Ever \subseteq Ever'
    PROVE  CommandInv'
<1> SUFFICES ASSUME NEW m \in WriterMessages, Underway(m)'
             PROVE  (m.kind = "mpris" => "mpris" \in Ever') /\ m.kind # "audio"
  BY DEF CommandInv
<1>1. thread.pc = "commit" => thread.batch # <<>>
  BY DEF StreamInv, RegistryInv, Written
<1>2. CASE m.kind \in {"mpris", "audio"}
  <2>1. Underway(m) \/ (m.kind = "mpris" /\ "mpris" \in entry.kinds)
    BY <1>1, <1>2, UnderwayMoves
  <2> QED BY <2>1 DEF StreamInv, CommandInv, RegistryInv
<1> QED BY <1>2

-----------------------------------------------------------------------------
(* Who waits is answered. *)

LEMMA LiesMore ==
    ASSUME NEW q \in Seq(WriterMessages), NEW m \in WriterMessages, NEW t
    PROVE  /\ Lies(t, q) => Lies(t, Append(q, m))
           /\ m.kind # "wake" /\ m.by = t => Lies(t, Append(q, m))
<1> DEFINE v == Append(q, m)
<1>1. Len(v) = Len(q) + 1 /\ v[Len(q) + 1] = m /\ \A i \in 1 .. Len(q) : v[i] = q[i]
  OBVIOUS
<1>2. Len(q) \in Nat
  OBVIOUS
<1> HIDE DEF v
<1>3. Lies(t, q) => Lies(t, v)
  BY <1>1, <1>2 DEF Lies
<1>4. m.kind # "wake" /\ m.by = t => Lies(t, v)
  <2>1. Len(q) + 1 \in 1 .. Len(v)
    BY <1>1, <1>2
  <2> QED BY <1>1, <2>1 DEF Lies
<1> QED BY <1>3, <1>4 DEF v

LEMMA LiesLess ==
    ASSUME NEW q \in Seq(WriterMessages), q # <<>>, NEW t, Lies(t, q)
    PROVE  Lies(t, Tail(q)) \/ (Head(q).kind # "wake" /\ Head(q).by = t)
<1>1. PICK i \in 1 .. Len(q) : q[i].kind # "wake" /\ q[i].by = t
  BY DEF Lies
<1>2. CASE i = 1
  BY <1>1, <1>2
<1>3. CASE i # 1
  <2>1. i - 1 \in 1 .. Len(Tail(q)) /\ Tail(q)[i - 1] = q[i]
    BY <1>1, <1>3
  <2> QED BY <1>1, <2>1 DEF Lies
<1> QED BY <1>2, <1>3

LEMMA LiesConcat ==
    ASSUME NEW q \in Seq(WriterMessages), NEW r \in Seq(WriterMessages), NEW t, Lies(t, q) \/ Lies(t, r)
    PROVE  Lies(t, q \o r)
<1>1. CASE Lies(t, q)
  <2>1. PICK i \in 1 .. Len(q) : q[i].kind # "wake" /\ q[i].by = t
    BY <1>1 DEF Lies
  <2>2. i \in 1 .. Len(q \o r) /\ (q \o r)[i] = q[i]
    BY <2>1
  <2> QED BY <2>1, <2>2 DEF Lies
<1>2. CASE Lies(t, r)
  <2>1. PICK i \in 1 .. Len(r) : r[i].kind # "wake" /\ r[i].by = t
    BY <1>2 DEF Lies
  <2>2. Len(q) + i \in 1 .. Len(q \o r) /\ (q \o r)[Len(q) + i] = r[i]
    BY <2>1
  <2> QED BY <2>1, <2>2 DEF Lies
<1> QED BY <1>1, <1>2

\* Who is answered waits no longer, and nobody begins to wait
LEMMA AnswerFact ==
    ASSUME NEW commands \in Seq(WriterMessages), NEW pc \in {"done", "failed"}, Answer(commands, pc),
           call \in [Callers -> Calling], NEW t \in Callers
    PROVE  /\ call'[t].pc = "wait" => call[t].pc = "wait" /\ ~Lies(t, commands)
           /\ call'[t].pc \in {"send", "wait"} => call'[t] = call[t]
<1>1. DOMAIN commands = 1 .. Len(commands)
  OBVIOUS
<1>2. Lies(t, commands) => call'[t].pc = pc
  BY <1>1 DEF Answer, Lies, Calling
<1>3. ~Lies(t, commands) => call'[t] = call[t]
  BY <1>1 DEF Answer, Lies, Calling
<1> QED BY <1>2, <1>3

LEMMA AnswerStep ==
    ASSUME WriterTypeOK, WriterTypeOK', RegistryInv, AnswerInv, WriterNext
    PROVE  AnswerInv'
<1>0. /\ thread \in Writers /\ call \in [Callers -> Calling] /\ channel \in Seq(WriterMessages)
      /\ thread.batch \in Seq(WriterMessages)
  BY WriterFacts DEF WriterTypeOK, Calling, Writers
<1>1. ASSUME UNCHANGED <<channel, thread>>,
             \A t \in Callers : call'[t].pc \in {"send", "wait"} =>
                \/ call'[t] = call[t]
                \/ call'[t].pc = "send" /\ call'[t].command.kind # "wake" /\ call'[t].command.by = t
      PROVE  AnswerInv'
  BY <1>1 DEF AnswerInv
<1>2. CASE UNCHANGED <<channel, thread, call>>
  BY <1>1, <1>2
<1>3. ASSUME NEW t \in Callers, Enqueue(t) PROVE AnswerInv'
  <2>1. channel' = Append(channel, call[t].command) /\ thread' = thread /\ call[t].pc = "send" /\ thread.pc # "gone"
    BY <1>3 DEF Enqueue
  <2>2. call[t].command \in WriterMessages /\ call[t].command.kind # "wake" /\ call[t].command.by = t
    BY <1>0, <2>1 DEF Calling, AnswerInv
  <2>3. Lies(t, channel')
    BY <1>0, <2>1, <2>2, LiesMore
  <2>4. \A u \in Callers : Lies(u, channel) => Lies(u, channel')
    BY <1>0, <2>1, <2>2, LiesMore
  <2>5. \A u \in Callers : (u # t => call'[u] = call[u]) /\ call'[t].command = call[t].command
    BY <1>0, <1>3 DEF Enqueue, Calling
  <2> QED BY <2>1, <2>2, <2>3, <2>4, <2>5 DEF AnswerInv
<1>4. ASSUME NEW t \in Callers, EnqueueFails(t) \/ Answered(t) \/ ReaderExits PROVE AnswerInv'
  <2>1. \A u \in Callers : call'[u].pc \in {"send", "wait"} => call'[u] = call[u]
    BY <1>0, <1>4, MessageTypes DEF EnqueueFails, Answered, ReaderExits, Calling, NoCall
  <2> QED BY <1>1, <1>4, <2>1 DEF EnqueueFails, Answered, ReaderExits
<1>5. ASSUME NEW t \in Callers, NEW command, Calls(t, command), command.kind # "wake", command.by = t,
             UNCHANGED <<channel, thread>>
      PROVE  AnswerInv'
  <2>1. call'[t].pc = "send" /\ call'[t].command = command /\ \A u \in Callers \ {t} : call'[u] = call[u]
    BY <1>0, <1>5 DEF Calls
  <2> QED BY <1>1, <1>5, <2>1
<1>6. ASSUME NEW t \in Sender, SendControl(t) PROVE AnswerInv'
  <2>1. t \in Callers /\ \A kind \in {"control", "mpris"} : Reliable(kind, t).kind # "wake" /\ Reliable(kind, t).by = t
    BY DEF Callers, Reliable
  <2> QED BY <1>5, <1>6, <2>1 DEF SendControl
<1>7. CASE ReadAsk
  <2>1. Head(asks) \in Asked
    BY <1>7 DEF WriterTypeOK, ReadAsk
  <2>2. Prepared(Head(asks)).kind = "ack" /\ Prepared(Head(asks)).by = Reader
    BY <2>1, PreparedType DEF WriterTypeOK
  <2> QED BY <1>5, <1>7, <2>2, MessageTypes DEF ReadAsk
<1>8. CASE Stop
  <2>1. Reliable("shutdown", Stopper).kind # "wake" /\ Reliable("shutdown", Stopper).by = Stopper
    BY DEF Reliable
  <2> QED BY <1>5, <1>8, <2>1, MessageTypes DEF Stop
<1>9. CASE SendWake
  <2>1. CASE channel' = channel
    BY <1>2, <1>9, <2>1 DEF SendWake
  <2>2. CASE channel' = Append(channel, WakeAudio) /\ thread.pc # "gone"
    <3>1. \A u \in Callers : Lies(u, channel) => Lies(u, channel')
      BY <1>0, <2>2, LiesMore, MessageTypes
    <3> QED BY <1>9, <2>2, <3>1 DEF SendWake, AnswerInv
  <2> QED BY <1>9, <2>1, <2>2 DEF SendWake
<1>10. CASE Take
  <2>1. channel # <<>> /\ channel' = Tail(channel) /\ Head(channel) \in WriterMessages
        /\ thread'.batch = Append(thread.batch, Head(channel)) /\ thread'.pc = "fill" /\ call' = call
    BY <1>0, <1>10 DEF Take, Writers
  <2>2. \A u \in Callers : Lies(u, channel) => Lies(u, channel') \/ Lies(u, thread'.batch)
    BY <1>0, <2>1, LiesLess, LiesMore
  <2>3. \A u \in Callers : Lies(u, thread.batch) => Lies(u, thread'.batch)
    BY <1>0, <2>1, LiesMore
  <2> QED BY <2>1, <2>2, <2>3 DEF AnswerInv
<1>11. CASE Filled \/ ClearSlot
  <2>1. thread'.batch = thread.batch /\ thread'.pc \in {"write", "commit"} /\ channel' = channel /\ call' = call
    BY <1>0, <1>11 DEF Filled, ClearSlot, ThreadGoes, Writers
  <2> QED BY <2>1 DEF AnswerInv
<1>12. ASSUME thread.batch # <<>>, thread'.pc = "write", thread'.batch = Tail(thread.batch), channel' = channel,
              \/ Current.kind = "wake" /\ call' = call
              \/ Answer(<<Current>>, "done")
       PROVE  AnswerInv'
  <2>1. Current \in WriterMessages /\ Current = Head(thread.batch)
    BY <1>12, WriterFacts DEF Current
  <2>2. ASSUME NEW u \in Callers, call'[u].pc = "wait" PROVE Lies(u, channel') \/ Lies(u, thread'.batch)
    <3>1. call[u].pc = "wait" /\ ~(Current.kind # "wake" /\ Current.by = u)
      <4>1. CASE Current.kind = "wake" /\ call' = call
        BY <2>2, <4>1
      <4>2. CASE Answer(<<Current>>, "done")
        <5>1. <<Current>> \in Seq(WriterMessages) /\ Len(<<Current>>) = 1 /\ <<Current>>[1] = Current
          BY <2>1
        <5>2. call[u].pc = "wait" /\ ~Lies(u, <<Current>>)
          BY <1>0, <2>2, <4>2, <5>1, AnswerFact
        <5> QED BY <5>1, <5>2 DEF Lies
      <4> QED BY <1>12, <4>1, <4>2
    <3>2. Lies(u, channel) \/ Lies(u, thread.batch)
      BY <3>1 DEF AnswerInv
    <3> QED BY <1>0, <1>12, <2>1, <3>1, <3>2, LiesLess
  <2>3. \A u \in Callers : call'[u].pc \in {"send", "wait"} => call'[u] = call[u]
    <3>1. <<Current>> \in Seq(WriterMessages)
      BY <2>1
    <3> QED BY <1>0, <1>12, <3>1, AnswerFact
  <2> QED BY <1>12, <2>2, <2>3 DEF AnswerInv
<1>13. CASE SkipWake
  <2>1. thread'.pc = "write" /\ thread'.batch = Tail(thread.batch)
    BY <1>0, <1>13 DEF SkipWake, Popped, Writers
  <2> QED BY <1>12, <1>13, <2>1 DEF SkipWake
<1>14. CASE Write
  <2>1. CASE Current.commit
    <3>1. thread'.pc = "clear" /\ thread'.batch = thread.batch /\ UNCHANGED <<channel, call>>
      BY <1>0, <1>14, <2>1 DEF Write, ThreadGoes, Writers
    <3> QED BY <3>1 DEF AnswerInv
  <2>2. CASE ~Current.commit
    <3>1. thread'.pc = "write" /\ thread'.batch = Tail(thread.batch)
      BY <1>0, <1>14, <2>2 DEF Write, Popped, Writers
    <3> QED BY <1>12, <1>14, <2>2, <3>1 DEF Write
  <2> QED BY <2>1, <2>2
<1>15. CASE Commit
  <2>1. thread.batch # <<>>
    BY <1>15 DEF Commit, RegistryInv, Written
  <2>2. thread'.pc = "write" /\ thread'.batch = Tail(thread.batch)
    BY <1>0, <1>15 DEF Commit, Popped, Writers
  <2> QED BY <1>12, <1>15, <2>1, <2>2 DEF Commit
<1>16. CASE WriteFails
  <2>1. /\ thread.batch \o channel \in Seq(WriterMessages) /\ channel' = <<>>
        /\ thread'.batch = <<>> /\ thread'.pc = "end" /\ Answer(thread.batch \o channel, "failed")
    BY <1>0, <1>16 DEF WriteFails
  <2>2. \A u \in Callers : call'[u].pc # "wait"
    BY <1>0, <2>1, AnswerFact, LiesConcat DEF AnswerInv
  <2>3. \A u \in Callers : call'[u].pc = "send" => call'[u] = call[u]
    BY <1>0, <2>1, AnswerFact
  <2> QED BY <2>1, <2>2, <2>3 DEF AnswerInv
<1>17. CASE ClearWake \/ TakeWindow \/ CheckWindow \/ WriteWindow \/ WriteWindowFails \/ RecvFails
  <2>1. thread.batch = <<>>
    BY <1>17 DEF ClearWake, TakeWindow, CheckWindow, WriteWindow, WriteWindowFails, RecvFails, AnswerInv
  <2>2. thread'.batch = thread.batch /\ thread'.pc # "gone"
    <3>1. CASE ClearWake \/ RecvFails
      BY <1>0, <3>1 DEF ClearWake, RecvFails, ThreadGoes, Writers
    <3>2. CASE TakeWindow \/ CheckWindow
      BY <1>0, <3>2 DEF TakeWindow, CheckWindow, Writers
    <3>3. CASE WriteWindow \/ WriteWindowFails
      BY <1>0, <3>3 DEF WriteWindow, WriteWindowFails, Writers
    <3> QED BY <1>17, <3>1, <3>2, <3>3
  <2>3. channel' = channel /\ call' = call
    BY <1>17 DEF ClearWake, TakeWindow, CheckWindow, WriteWindow, WriteWindowFails, RecvFails
  <2> QED BY <2>1, <2>2, <2>3 DEF AnswerInv
<1>18. CASE WriterEnds
  <2>1. /\ channel' = <<>> /\ thread.batch = <<>> /\ thread'.batch = <<>>
        /\ thread'.pc = "gone" /\ Answer(channel, "failed")
    BY <1>0, <1>18 DEF WriterEnds, ThreadGoes, Writers, AnswerInv
  <2>2. \A u \in Callers : ~Lies(u, thread.batch)
    BY <2>1 DEF Lies
  <2>3. \A u \in Callers : call'[u].pc # "wait"
    BY <1>0, <2>1, <2>2, AnswerFact DEF AnswerInv
  <2>4. \A u \in Callers : call'[u].pc = "send" => call'[u] = call[u]
    BY <1>0, <2>1, AnswerFact
  <2> QED BY <2>1, <2>3, <2>4 DEF AnswerInv
<1>19. Ask \/ ProcessReads \/ ProcessDies \/ Evict \/ Captured \/ CheckRevision \/ StoreWindow \/ SwapWake
         => UNCHANGED <<call, channel, thread>>
  BY DEF Ask, ProcessReads, ProcessDies, Evict, Captured, CheckRevision, StoreWindow, SwapWake
<1> QED BY <1>2, <1>3, <1>4, <1>6, <1>7, <1>8, <1>9, <1>10, <1>11, <1>13, <1>14, <1>15, <1>16, <1>17,
           <1>18, <1>19, MessageTypes DEF WriterNext

-----------------------------------------------------------------------------
(* No wake-up is lost. *)

LEMMA WakeStep ==
    ASSUME WriterTypeOK, WakeInv, AnswerInv, WriterNext
    PROVE  WakeInv'
<1>0. thread \in Writers /\ channel \in Seq(WriterMessages) /\ service.pc \in {"idle", "check", "store", "swap", "wake"}
      /\ service \in [pc : {"idle", "check", "store", "swap", "wake"}, rev : Revs] /\ wake \in BOOLEAN
  BY WriterFacts DEF WriterTypeOK
<1>1. ASSUME UNCHANGED <<slot, wake, thread>>, service'.pc = service.pc \/ service.pc \notin {"swap", "wake"},
             channel # <<>> => channel' # <<>>
      PROVE  WakeInv'
  BY <1>1 DEF WakeInv, Ended
<1>2. CASE UNCHANGED <<slot, wake, channel, thread, service>>
  BY <1>1, <1>2
<1>3. ASSUME NEW t \in Callers, Enqueue(t) PROVE WakeInv'
  <2>1. channel' # <<>>
    BY <1>0, <1>3 DEF Enqueue
  <2> QED BY <1>1, <1>3, <2>1 DEF Enqueue, audio
<1>4. CASE Captured \/ CheckRevision
  <2>1. service.pc \notin {"swap", "wake"}
    BY <1>4 DEF Captured, CheckRevision
  <2> QED BY <1>1, <1>4, <2>1 DEF Captured, CheckRevision, audio
<1>5. CASE StoreWindow
  <2>1. service.pc = "store" /\ service'.pc = "swap" /\ UNCHANGED <<channel, wake, thread>>
    BY <1>0, <1>5 DEF StoreWindow
  <2> QED BY <2>1 DEF WakeInv, Ended
<1>6. CASE SwapWake
  <2>1. wake' = TRUE /\ UNCHANGED <<channel, slot, thread>> /\ service.pc = "swap" /\ (~wake => service'.pc = "wake")
    BY <1>0, <1>6 DEF SwapWake
  <2> QED BY <2>1 DEF WakeInv, Ended
<1>7. CASE SendWake
  <2>1. service.pc = "wake" /\ service'.pc = "idle" /\ UNCHANGED <<slot, thread>>
    BY <1>0, <1>7 DEF SendWake
  <2>2. thread.pc # "gone" => channel' # <<>> /\ wake' = wake
    <3>1. CASE thread.pc # "gone" /\ Len(channel) < Capacity
      BY <1>0, <1>7, <3>1 DEF SendWake
    <3>2. CASE thread.pc # "gone" /\ ~(Len(channel) < Capacity)
      <4>1. channel' = channel /\ wake' = wake
        BY <1>0, <1>7, <3>2 DEF SendWake
      <4>2. channel # <<>>
        BY <1>0, <3>2, CapacityAssumption
      <4> QED BY <4>1, <4>2
    <3> QED BY <3>1, <3>2
  <2> QED BY <2>1, <2>2 DEF WakeInv, Ended
<1>8. CASE Take \/ Filled \/ SkipWake
  <2>1. thread.pc # "take" /\ thread.pc \notin {"end", "gone"} /\ thread'.pc \in {"fill", "write"}
    <3>1. CASE Take
      BY <1>0, <3>1 DEF Take, Writers
    <3>2. CASE Filled
      BY <1>0, <3>2 DEF Filled, ThreadGoes, Writers
    <3>3. CASE SkipWake
      BY <1>0, <3>3 DEF SkipWake, Popped, Writers
    <3> QED BY <1>8, <3>1, <3>2, <3>3
  <2>2. UNCHANGED <<slot, wake, service>>
    BY <1>8 DEF Take, Filled, SkipWake, audio
  <2> QED BY <2>1, <2>2 DEF WakeInv, Ended
<1>9. CASE Write \/ Commit
  <2>1. thread.pc \in {"write", "commit"} /\ thread'.pc \in {"write", "clear"}
    <3>1. CASE Write
      BY <1>0, <3>1 DEF Write, ThreadGoes, Popped, Writers
    <3>2. CASE Commit
      BY <1>0, <3>2 DEF Commit, Popped, Writers
    <3> QED BY <1>9, <3>1, <3>2
  <2>2. UNCHANGED <<slot, wake, service>>
    BY <1>9 DEF Write, Commit, audio
  <2> QED BY <2>1, <2>2 DEF WakeInv, Ended
<1>10. CASE ClearSlot
  <2>1. slot' = NoWindow /\ thread'.pc = "commit"
    BY <1>0, <1>10 DEF ClearSlot, ThreadGoes, Writers
  <2> QED BY <2>1 DEF WakeInv
<1>11. CASE ClearWake
  <2>1. wake' = FALSE /\ thread'.pc = "take"
    BY <1>0, <1>11 DEF ClearWake, ThreadGoes, Writers
  <2> QED BY <2>1 DEF WakeInv
<1>12. CASE TakeWindow
  <2>1. slot' = NoWindow /\ thread.pc = "take" /\ UNCHANGED <<wake, service, channel>>
    BY <1>12 DEF TakeWindow
  <2> QED BY <2>1 DEF WakeInv, Ended
<1>13. CASE CheckWindow \/ WriteWindow
  <2>1. thread.pc \in {"check", "window"} /\ UNCHANGED <<slot, wake, service, channel>>
    BY <1>13 DEF CheckWindow, WriteWindow, audio
  <2> QED BY <2>1 DEF WakeInv, Ended
<1>14. CASE WriteFails \/ WriteWindowFails \/ RecvFails \/ WriterEnds
  <2>1. thread'.pc \in {"end", "gone"}
    <3>1. CASE WriteFails
      BY <3>1 DEF WriteFails
    <3>2. CASE WriteWindowFails
      BY <1>0, <3>2 DEF WriteWindowFails, Writers
    <3>3. CASE RecvFails \/ WriterEnds
      BY <1>0, <3>3 DEF RecvFails, WriterEnds, ThreadGoes, Writers
    <3> QED BY <1>14, <3>1, <3>2, <3>3
  <2> QED BY <2>1 DEF WakeInv, Ended
<1>15. \/ Ask \/ ProcessReads \/ ProcessDies \/ ReadAsk \/ ReaderExits \/ Stop \/ Evict
       \/ \E t \in Callers : EnqueueFails(t) \/ Answered(t)
       \/ \E t \in Sender : SendControl(t)
       => UNCHANGED <<slot, wake, channel, thread, service>>
  BY DEF Ask, ProcessReads, ProcessDies, ReadAsk, ReaderExits, Stop, Evict, EnqueueFails, Answered,
         SendControl, audio
<1> QED BY <1>2, <1>3, <1>4, <1>5, <1>6, <1>7, <1>8, <1>9, <1>10, <1>11, <1>12, <1>13, <1>14, <1>15 DEF WriterNext

-----------------------------------------------------------------------------
(* The theorems. *)

LEMMA TypesKept ==
    ASSUME WriterTypeOK, RegistryInv, WriterNext
    PROVE  WriterTypeOK'
<1>1. Commit => thread.batch # <<>>
  BY DEF Commit, RegistryInv, Written
<1>2. \A t \in Sender : t \in Callers
  BY DEF Callers
<1> QED BY <1>1, <1>2, SocketTypes, CallTypes, ServiceTypes, BatchTypes, WindowTypes, MessageTypes DEF WriterNext

LEMMA InitStream == WriterInit => StreamInv /\ AnswerInv
<1> SUFFICES ASSUME WriterInit PROVE StreamInv /\ AnswerInv
  OBVIOUS
<1>1. wire = <<>> /\ channel = <<>> /\ thread.batch = <<>> /\ thread.pc = "recv" /\ Len(wire) = 0
      /\ \A t \in Callers : call[t].pc = "idle"
  BY DEF WriterInit, NoCall
<1>2. PICK s \in AlreadyAsked : /\ told = [rev |-> s.rev, kinds |-> s.kinds, ever |-> s.kinds]
                        /\ entry = [rev |-> s.rev, kinds |-> s.kinds, listed |-> TRUE]
  BY DEF WriterInit
<1>3. EventsFit
  BY <1>1 DEF EventsFit
<1>4. End = [rev |-> told.rev, kinds |-> told.kinds]
  <2>1. \A j \in 1 .. 0 : ~wire[j].commit
    OBVIOUS
  <2> QED BY <1>1, <2>1, LastToldIs DEF End
<1>5. told.ever \subseteq Ever
  BY DEF Ever, EverTold
<1>6. RegistryInv
  BY <1>1, <1>2, <1>4, <1>5 DEF RegistryInv, Written
<1>7. CommandInv
  BY <1>1 DEF CommandInv, Underway
<1>8. AnswerInv
  BY <1>1 DEF AnswerInv
<1> QED BY <1>3, <1>6, <1>7, <1>8 DEF StreamInv

LEMMA StreamKept ==
    ASSUME WriterTypeOK, StreamInv, AnswerInv, [WriterNext]_writerVars
    PROVE  WriterTypeOK' /\ StreamInv' /\ AnswerInv'
<1>1. CASE WriterNext
  <2>1. WriterTypeOK'
    BY <1>1, TypesKept DEF StreamInv
  <2>2. EventsFit' /\ RegistryInv' /\ Ever \subseteq Ever'
    BY <1>1, <2>1, RegistryStep
  <2>3. CommandInv'
    BY <1>1, <2>2, CommandStep
  <2>4. AnswerInv'
    BY <1>1, <2>1, AnswerStep DEF StreamInv
  <2> QED BY <2>1, <2>2, <2>3, <2>4 DEF StreamInv
<1>2. CASE UNCHANGED writerVars
  <2>1. WriterTypeOK'
    BY <1>2 DEF WriterTypeOK, writerVars, socket, manager, audio
  <2>2. EventsFit' /\ End' = End /\ Ever' = Ever
    BY <1>2, Quiet DEF writerVars, socket, StreamInv
  <2>3. UNCHANGED <<told, entry, thread, channel, call>>
    BY <1>2 DEF writerVars, socket, manager
  <2>4. RegistryInv' /\ CommandInv'
    BY <2>2, <2>3 DEF StreamInv, RegistryInv, CommandInv, Written, Current, Underway
  <2>5. AnswerInv'
    BY <2>3 DEF AnswerInv
  <2> QED BY <2>1, <2>2, <2>4, <2>5 DEF StreamInv
<1> QED BY <1>1, <1>2

\* Queue, socket, registry, slot and threads hold what their types say
\* (renderer_manager/writer.rs, subscriptions.rs).
THEOREM WriterTypeCorrect == WriterSpec => []WriterTypeOK
<1>1. WriterTypeOK /\ StreamInv /\ AnswerInv /\ [WriterNext]_writerVars => (WriterTypeOK /\ StreamInv /\ AnswerInv)'
  BY StreamKept
<1> QED BY <1>1, InitTypes, InitStream, PTL DEF WriterSpec

\* No event is written that the process was not told to expect, and no audio window but
\* under the subscription it was made for, for any traffic and any revisions.
THEOREM EventsFitAsked == WriterSpec => []EventsFit
<1>1. WriterTypeOK /\ StreamInv /\ AnswerInv /\ [WriterNext]_writerVars => (WriterTypeOK /\ StreamInv /\ AnswerInv)'
  BY StreamKept
<1>2. StreamInv => EventsFit
  BY DEF StreamInv
<1> QED BY <1>1, <1>2, InitTypes, InitStream, PTL DEF WriterSpec

\* While the writer sleeps no window waits in its slot and nobody for an answer, nor does
\* anybody when it has ended: no wake-up is lost, for a queue of any length.
THEOREM NobodyForgotten == WriterSpec => []WriterAtRest
<1> DEFINE Inv == WriterTypeOK /\ StreamInv /\ AnswerInv /\ WakeInv
<1>1. WriterInit => Inv
  <2>1. WriterInit => WakeInv
    BY DEF WriterInit, WakeInv
  <2> QED BY <2>1, InitTypes, InitStream
<1>2. Inv /\ [WriterNext]_writerVars => Inv'
  <2>1. WakeInv /\ UNCHANGED writerVars => WakeInv'
    BY DEF WakeInv, Ended, writerVars, audio
  <2> QED BY <2>1, StreamKept, WakeStep
<1>3. Inv => WriterAtRest
  <2> SUFFICES ASSUME Inv PROVE WriterAtRest
    OBVIOUS
  <2>1. \A t \in Callers : ~Lies(t, <<>>)
    BY DEF Lies
  <2>2. thread.pc \in {"recv", "gone"} => thread.batch = <<>>
    BY DEF AnswerInv
  <2> QED BY <2>1, <2>2 DEF WriterAtRest, AnswerInv, WakeInv, Ended
<1> HIDE DEF Inv
<1> QED BY <1>1, <1>2, <1>3, PTL DEF WriterSpec

-----------------------------------------------------------------------------
(* The targets of a renderer: types. *)

FormatNames == {Formats[i] : i \in DOMAIN Formats}
Targets == {NoTarget} \cup [rev : Nat, size : Size, format : FormatNames]
TargetKeys == [size : Size \cup {Nothing}, rev : Nat]
Pools == [gen : Nat, target : Targets]
Passes == [pc : {"idle", "wait", "configure", "send", "deadline"}, want : Targets]
Coordinators == [desired : Targets, applied : Targets, flight : Targets, failed : Targets]

PoolOf(target) == [kind |-> "pool", target |-> target]
Result(status) == [kind |-> "result", status |-> status]
Replies == {PoolOf(target) : target \in Targets} \cup {Result(status) : status \in {0, 1, 3}}

TargetTypeOK ==
    /\ caps \in Nat /\ demand \in Size \cup {Nothing}
    /\ queue \in Coordinators
    /\ sent \in BOOLEAN /\ elapsed \in BOOLEAN
    /\ retry \in TargetKeys /\ retries \in Nat /\ blocked \in TargetKeys
    /\ timer \in {"off", "on", "fired"}
    /\ pool \in Pools /\ applied \in Nat /\ bound \in Pools
    /\ ask \in Seq(Targets) /\ answer \in Seq(Replies)
    /\ unread \in Seq({"capabilities", "pool", "result"})
    /\ pass \in [Task -> Passes]
    /\ changesLeft \in Nat /\ failuresLeft \in Nat

-----------------------------------------------------------------------------
(* Why the renderer ends with the target wanted last. *)

\* The pool the daemon has is the one of the target that was applied
Drawn == pool.gen = applied /\ pool.target = queue.applied

Sends(t) == pass[t].pc = "send"
NoRequest ==
    queue.flight = NoTarget /\ ask = <<>> /\ answer = <<>> /\ Drawn /\ \A t \in Task : ~Sends(t)
ToSend ==
    /\ ask = <<>> /\ answer = <<>> /\ Drawn
    /\ \E t \in Task : Sends(t) /\ pass[t].want = queue.flight
Requested == ask = <<queue.flight>> /\ answer = <<>> /\ Drawn /\ \A t \in Task : ~Sends(t)
Answering ==
    /\ ask = <<>> /\ \A t \in Task : ~Sends(t)
    /\ \/ answer = <<PoolOf(queue.flight), Result(0)>> /\ Drawn
       \/ answer = <<Result(0)>> /\ pool.target = queue.flight /\ pool.gen # applied
       \/ (answer = <<Result(1)>> \/ answer = <<Result(3)>>) /\ Drawn

\* One request is under way, at one place
WireInv == NoRequest \/ (queue.flight # NoTarget /\ (ToSend \/ Requested \/ Answering))

OneRuns == \A t, u \in Running : t = u

\* A pass is still to come
Stirring == (\E t \in Task : pass[t].pc = "wait") \/ unread # <<>> \/ timer = "fired"

\* The task that configures the coordinator knows what is wanted, or another will come
LookedInv == \A t \in Task : pass[t].pc = "configure" => pass[t].want = Wanted \/ Stirring

WantedInv ==
    Wanted # NoTarget =>
      \/ Stirring
      \/ \E t \in Task : pass[t].pc = "configure"
      \/ blocked = TargetKey(Wanted)
      \/ /\ queue.desired = Wanted
         /\ Pending(queue) => timer = "on" \/ \E t \in Task : pass[t].pc = "deadline"

\* The display is bound to the pool the daemon has, or the event task will see to it
BoundInv ==
    demand # Nothing =>
      \/ answer # <<>>
      \/ \E i \in DOMAIN unread : unread[i] # "capabilities"
      \/ bound = pool /\ pool.gen = applied

TargetInv == WireInv /\ OneRuns /\ LookedInv /\ WantedInv /\ BoundInv

-----------------------------------------------------------------------------
LEMMA WantedIs ==
    /\ caps \in Nat /\ demand \in Size \cup {Nothing} => Wanted \in Targets
    /\ Wanted # NoTarget => Wanted.rev = caps
<1>1. Wanted # NoTarget => Wanted.rev = caps
  BY DEF Wanted
<1>2. ASSUME caps \in Nat, demand \in Size, Usable # {}, caps # 0
      PROVE  Wanted \in Targets
  <2> DEFINE first == CHOOSE i \in Usable : \A j \in Usable : i <= j
  <2>1. Usable \subseteq Nat
    BY TargetAssumption DEF Usable
  <2>2. \E i \in Usable : \A j \in Usable : i <= j
    <3> DEFINE R == OpToRel(<, Nat)
    <3>1. IsWellFoundedOn(R, Nat) /\ \A x, y \in Nat : <<y, x>> \in R <=> y < x
      BY NatLessThanWellFounded, LessThan
    <3> HIDE DEF R
    <3> QED BY <1>2, <2>1, <3>1, LeastBy
  <2>3. first \in Usable
    BY <2>2
  <2>4. Formats[first] \in FormatNames
    BY <2>3 DEF Usable, FormatNames
  <2>5. Wanted = NoTarget \/ Wanted = [rev |-> caps, size |-> demand, format |-> Formats[first]]
    BY DEF Wanted
  <2> HIDE DEF first
  <2> QED BY <1>2, <2>4, <2>5 DEF Targets
<1>3. ASSUME caps \in Nat, demand \in Size \cup {Nothing}, ~(demand \in Size /\ Usable # {} /\ caps # 0)
      PROVE  Wanted \in Targets
  BY <1>3 DEF Wanted, Targets
<1> QED BY <1>1, <1>2, <1>3

LEMMA TargetConstants ==
    /\ NoTarget \in Targets /\ NoPool \in Pools /\ NoPass \in Passes /\ NoKey \in TargetKeys
    /\ \A target \in Targets : TargetKey(target) \in TargetKeys
<1>1. NoTarget \in Targets
  BY DEF Targets
<1>2. NoPool \in Pools /\ NoPass \in Passes
  BY <1>1 DEF NoPool, Pools, NoPass, Passes
<1>3. \A target \in Targets : TargetKey(target) \in TargetKeys
  BY DEF Targets, TargetKey, TargetKeys, NoTarget
<1> QED BY <1>1, <1>2, <1>3 DEF NoKey

LEMMA TargetInitTypes == TargetInit => TargetTypeOK
<1> SUFFICES ASSUME TargetInit PROVE TargetTypeOK
  OBVIOUS
<1>1. queue \in Coordinators /\ pass \in [Task -> Passes]
  BY TargetConstants DEF TargetInit, Coordinators
<1>2. changesLeft \in Nat /\ failuresLeft \in Nat
  BY TargetAssumption DEF TargetInit
<1>3. /\ ask \in Seq(Targets) /\ answer \in Seq(Replies)
      /\ unread \in Seq({"capabilities", "pool", "result"})
  BY DEF TargetInit
<1>4. /\ caps \in Nat /\ demand \in Size \cup {Nothing}
      /\ sent \in BOOLEAN /\ elapsed \in BOOLEAN
      /\ retry \in TargetKeys /\ retries \in Nat /\ blocked \in TargetKeys
      /\ timer \in {"off", "on", "fired"}
      /\ pool \in Pools /\ applied \in Nat /\ bound \in Pools
  BY TargetConstants DEF TargetInit
<1> QED BY <1>1, <1>2, <1>3, <1>4 DEF TargetTypeOK

LEMMA TargetNextTypes == TargetTypeOK /\ [TargetNext]_targetVars => TargetTypeOK'
<1> SUFFICES ASSUME TargetTypeOK, [TargetNext]_targetVars PROVE TargetTypeOK'
  OBVIOUS
<1> USE TargetConstants DEF budget
<1>1. CASE Declare
  <2>1. unread' \in Seq({"capabilities", "pool", "result"})
    BY <1>1 DEF Declare, TargetTypeOK
  <2>2. caps' \in Nat /\ changesLeft' \in Nat
    BY <1>1 DEF Declare, TargetTypeOK
  <2> QED BY <1>1, <2>1, <2>2 DEF Declare, TargetTypeOK, coordinator, pools
<1>2. CASE Demand
  <2>1. pass' \in [Task -> Passes]
    BY <1>2 DEF Demand, TargetTypeOK, Begin, Passes
  <2>2. bound' \in Pools /\ changesLeft' \in Nat /\ demand' \in Size \cup {Nothing}
    BY <1>2 DEF Demand, TargetTypeOK, Synced
  <2> QED BY <1>2, <2>1, <2>2 DEF Demand, TargetTypeOK, coordinator, pools
<1>3. CASE ImportFails
  <2>1. pass' \in [Task -> Passes]
    BY <1>3 DEF ImportFails, TargetTypeOK, Begin, Passes
  <2>2. retry' \in TargetKeys /\ retries' \in Nat /\ blocked' \in TargetKeys
    <3>1. TargetKey(queue.applied) \in TargetKeys
      BY DEF TargetTypeOK, Coordinators
    <3>2. RetryAllocation(queue.applied) \/ UNCHANGED <<retry, retries, blocked>>
      BY <1>3 DEF ImportFails
    <3> QED BY <3>1, <3>2 DEF RetryAllocation, TargetTypeOK
  <2>3. bound' \in Pools /\ demand' \in Size \cup {Nothing}
    BY <1>3 DEF ImportFails, TargetTypeOK
  <2>4. failuresLeft' \in Nat
    BY <1>3 DEF ImportFails, TargetTypeOK, Fail
  <2> QED BY <1>3, <2>1, <2>2, <2>3, <2>4 DEF ImportFails, TargetTypeOK, pools
<1>4. ASSUME NEW t \in Task, Look(t) PROVE TargetTypeOK'
  <2>1. pass' \in [Task -> Passes]
    <3>1. Wanted \in Targets
      BY WantedIs DEF TargetTypeOK
    <3>2. [pc |-> "configure", want |-> Wanted] \in Passes
      BY <3>1 DEF Passes
    <3> QED BY <1>4, <3>2 DEF Look, TargetTypeOK
  <2> QED BY <1>4, <2>1 DEF Look, TargetTypeOK, demands, coordinator, pools
<1>5. ASSUME NEW t \in Task, Outdated(t) \/ Blocked(t) PROVE TargetTypeOK'
  <2>1. pass' \in [Task -> Passes]
    BY <1>5 DEF Outdated, Blocked, Leaves, TargetTypeOK
  <2> QED BY <1>5, <2>1 DEF Outdated, Blocked, TargetTypeOK, demands, coordinator, pools
<1>6. ASSUME NEW t \in Task, Configure(t) PROVE TargetTypeOK'
  <2> DEFINE desired == [queue EXCEPT !.desired = pass[t].want]
  <2>0. pass[t].want \in Targets
    BY DEF TargetTypeOK, Passes
  <2>1. pass' \in [Task -> Passes]
    BY <1>6 DEF Configure, PassGoes, TargetTypeOK, Passes
  <2>2. queue' \in Coordinators
    <3>1. desired \in Coordinators /\ [desired EXCEPT !.flight = pass[t].want] \in Coordinators
      BY <2>0 DEF TargetTypeOK, Coordinators
    <3>2. queue' = desired \/ queue' = [desired EXCEPT !.flight = pass[t].want]
      BY <1>6 DEF Configure
    <3> QED BY <3>1, <3>2
  <2>3. retry' \in TargetKeys /\ blocked' \in TargetKeys /\ retries' \in Nat
    BY <1>6 DEF Configure, TargetTypeOK
  <2>4. sent' \in BOOLEAN /\ elapsed' \in BOOLEAN
    BY <1>6, Zenon DEF Configure
  <2> QED BY <1>6, <2>1, <2>2, <2>3, <2>4 DEF Configure, TargetTypeOK, demands, pools
<1>7. ASSUME NEW t \in Task, Send(t) PROVE TargetTypeOK'
  <2>1. pass' \in [Task -> Passes]
    BY <1>7 DEF Send, PassGoes, TargetTypeOK, Passes
  <2>2. ask' \in Seq(Targets)
    BY <1>7 DEF Send, TargetTypeOK, Passes
  <2> QED BY <1>7, <2>1, <2>2 DEF Send, TargetTypeOK, demands, coordinator, pools
<1>8. ASSUME NEW t \in Task, SetDeadline(t) PROVE TargetTypeOK'
  <2>1. pass' \in [Task -> Passes]
    BY <1>8 DEF SetDeadline, Leaves, TargetTypeOK
  <2>2. timer' \in {"off", "on", "fired"}
    BY <1>8 DEF SetDeadline
  <2> QED BY <1>8, <2>1, <2>2 DEF SetDeadline, TargetTypeOK, demands, coordinator, pools
<1>9. CASE DelayPasses \/ DeadlineFires
  BY <1>9 DEF DelayPasses, DeadlineFires, TargetTypeOK, demands, coordinator, pools
<1>10. CASE Deadline
  <2>1. pass' \in [Task -> Passes]
    BY <1>10 DEF Deadline, TargetTypeOK, Begin, Passes
  <2> QED BY <1>10, <2>1 DEF Deadline, TargetTypeOK, demands, coordinator, pools
<1>11. CASE Draw
  <2>1. ask' \in Seq(Targets) /\ Head(ask) \in Targets
    BY <1>11 DEF Draw, TargetTypeOK
  <2>2. PoolOf(Head(ask)) \in Replies /\ Result(0) \in Replies
    BY <2>1 DEF Replies
  <2>3. <<PoolOf(Head(ask)), Result(0)>> \in Seq(Replies)
    BY <2>2
  <2>4. answer' = answer \o <<PoolOf(Head(ask)), Result(0)>>
    BY <1>11 DEF Draw, PoolOf, Result
  <2>5. answer' \in Seq(Replies)
    BY <2>3, <2>4 DEF TargetTypeOK
  <2> QED BY <1>11, <2>1, <2>5 DEF Draw, TargetTypeOK, demands, coordinator, pools
<1>12. CASE Refuse
  <2>1. ask' \in Seq(Targets)
    BY <1>12 DEF Refuse, TargetTypeOK
  <2>2. PICK status \in {1, 3} : answer' = Append(answer, Result(status))
    BY <1>12 DEF Refuse, Result
  <2>3. Result(status) \in Replies
    BY <2>2 DEF Replies
  <2>4. answer' \in Seq(Replies)
    BY <2>2, <2>3 DEF TargetTypeOK
  <2>5. failuresLeft' \in Nat
    BY <1>12 DEF Refuse, Fail, TargetTypeOK
  <2> QED BY <1>12, <2>1, <2>4, <2>5 DEF Refuse, TargetTypeOK, demands, coordinator, pools
<1>13. CASE ReadPool
  <2>1. /\ answer # <<>> /\ Head(answer).kind = "pool"
        /\ answer' = Tail(answer) /\ unread' = Append(unread, "pool")
    BY <1>13 DEF ReadPool, Reads
  <2>2. answer' \in Seq(Replies) /\ Head(answer) \in Replies
    BY <2>1 DEF TargetTypeOK
  <2>3. Head(answer).target \in Targets
    BY <2>1, <2>2 DEF Replies, PoolOf, Result
  <2>4. pool' \in Pools
    BY <1>13, <2>3 DEF ReadPool, Pools, TargetTypeOK
  <2>5. unread' \in Seq({"capabilities", "pool", "result"})
    BY <2>1 DEF TargetTypeOK
  <2> QED BY <1>13, <2>2, <2>4, <2>5 DEF ReadPool, TargetTypeOK, demands, coordinator
<1>14. CASE ReadResult
  <2>1. answer # <<>> /\ answer' = Tail(answer) /\ unread' = Append(unread, "result")
    BY <1>14 DEF ReadResult, Reads
  <2>2. answer' \in Seq(Replies) /\ unread' \in Seq({"capabilities", "pool", "result"})
    BY <2>1 DEF TargetTypeOK
  <2>3. queue' \in Coordinators
    <3>1. queue.flight \in Targets
      BY DEF TargetTypeOK, Coordinators
    <3>2. \/ queue' = [queue EXCEPT !.flight = NoTarget, !.applied = queue.flight, !.failed = NoTarget]
          \/ queue' = [queue EXCEPT !.flight = NoTarget, !.failed = queue.flight]
      BY <1>14 DEF ReadResult
    <3> QED BY <3>1, <3>2 DEF TargetTypeOK, Coordinators
  <2>4. retry' \in TargetKeys /\ retries' \in Nat /\ blocked' \in TargetKeys
    <3>1. TargetKey(queue.flight) \in TargetKeys
      BY DEF TargetTypeOK, Coordinators
    <3>2. \/ RetryAllocation(queue.flight)
          \/ (retry' = NoKey \/ retry' = retry) /\ UNCHANGED <<retries, blocked>>
      BY <1>14 DEF ReadResult
    <3> QED BY <3>1, <3>2 DEF RetryAllocation, TargetTypeOK
  <2>5. applied' \in Nat
    BY <1>14 DEF ReadResult, TargetTypeOK, Pools
  <2> QED BY <1>14, <2>2, <2>3, <2>4, <2>5 DEF ReadResult, TargetTypeOK
<1>15. CASE HandleEvent
  <2>1. pass' \in [Task -> Passes]
    BY <1>15 DEF HandleEvent, TargetTypeOK, Begin, Passes
  <2>2. bound' \in Pools
    BY <1>15 DEF HandleEvent, TargetTypeOK, Synced
  <2>3. unread' \in Seq({"capabilities", "pool", "result"})
    BY <1>15 DEF HandleEvent, TargetTypeOK
  <2> QED BY <1>15, <2>1, <2>2, <2>3 DEF HandleEvent, TargetTypeOK, demands, coordinator, pools
<1>16. CASE UNCHANGED targetVars
  BY <1>16 DEF targetVars, TargetTypeOK, demands, coordinator, pools
<1> QED BY <1>1, <1>2, <1>3, <1>4, <1>5, <1>6, <1>7, <1>8, <1>9, <1>10, <1>11, <1>12, <1>13, <1>14,
           <1>15, <1>16 DEF TargetNext

-----------------------------------------------------------------------------
(* The request under way. *)

\* What the socket and the queue say does not depend on who looks, waits or leaves
LEMMA WireStays ==
    ASSUME WireInv, UNCHANGED <<queue, pools, ask, answer>>,
           \A t \in Task : Sends(t)' <=> Sends(t),
           \A t \in Task : Sends(t) => pass'[t].want = pass[t].want
    PROVE  WireInv'
<1>1. Drawn' <=> Drawn
  BY DEF Drawn, pools
<1>2. NoRequest => NoRequest'
  BY <1>1 DEF NoRequest
<1>3. ToSend => ToSend'
  BY <1>1 DEF ToSend
<1>4. Requested => Requested'
  BY <1>1 DEF Requested
<1>5. Answering => Answering'
  BY <1>1 DEF Answering, pools
<1> QED BY <1>2, <1>3, <1>4, <1>5 DEF WireInv

\* An answer is there, or what was drawn last is what was applied
LEMMA AnsweredDrawn == WireInv => answer # <<>> \/ Drawn
BY DEF WireInv, NoRequest, ToSend, Requested, Answering

\* Steps that begin passes, and move nothing between daemon and process
LEMMA BeginWire ==
    ASSUME TargetTypeOK, WireInv, OneRuns, NEW t \in Task, pass[t] = NoPass, Begin(t),
           UNCHANGED <<queue, pools, ask, answer>>
    PROVE  WireInv' /\ OneRuns' /\ Stirring'
<1>1. /\ pass'[t].pc = "wait"
      /\ \A u \in Task : u # t => pass'[u] = pass[u]
      /\ pass[t].pc = "idle"
  BY DEF TargetTypeOK, Begin, Passes, NoPass
<1>2. Running' = Running
  BY <1>1 DEF Running
<1>3. \A u \in Task : (Sends(u)' <=> Sends(u)) /\ (Sends(u) => pass'[u].want = pass[u].want)
  BY <1>1 DEF Sends
<1>4. WireInv'
  BY <1>3, WireStays
<1> QED BY <1>1, <1>2, <1>4 DEF OneRuns, Stirring

\* When a pass is still to come, it does not matter what is wanted
LEMMA StirringLooks == Stirring' => LookedInv' /\ WantedInv'
BY DEF LookedInv, WantedInv

LEMMA DeclareInv ==
    ASSUME TargetTypeOK, TargetInv, Declare
    PROVE  TargetInv'
<1>1. WireInv'
  BY WireStays DEF TargetInv, Declare, coordinator, Sends
<1>2. unread' # <<>> /\ Len(unread') = Len(unread) + 1 /\ DOMAIN unread \subseteq DOMAIN unread'
      /\ \A i \in DOMAIN unread : unread'[i] = unread[i]
  BY DEF Declare, TargetTypeOK
<1>3. Stirring'
  BY <1>2 DEF Stirring
<1>4. BoundInv'
  BY <1>2 DEF TargetInv, BoundInv, Declare, pools
<1>5. OneRuns'
  BY DEF TargetInv, OneRuns, Running, Declare
<1> QED BY <1>1, <1>3, <1>4, <1>5, StirringLooks DEF TargetInv

LEMMA DemandInv ==
    ASSUME TargetTypeOK, TargetInv, Demand
    PROVE  TargetInv'
<1>1. WireInv' /\ OneRuns' /\ Stirring'
  <2>1. pass["request"] = NoPass /\ Begin("request") /\ UNCHANGED <<queue, pools, ask, answer>>
    BY DEF Demand, coordinator
  <2> QED BY <2>1, BeginWire DEF TargetInv, Task
<1>2. BoundInv'
  <2> SUFFICES ASSUME demand' # Nothing, answer' = <<>>,
                      \A i \in DOMAIN unread : unread[i] = "capabilities"
               PROVE  bound' = pool' /\ pool'.gen = applied'
    BY DEF BoundInv, Demand
  <2>1. Drawn /\ answer = <<>>
    BY AnsweredDrawn DEF TargetInv, Demand
  <2>2. CASE demand = Nothing
    BY <2>1, <2>2 DEF Demand, Synced, Drawn, pools
  <2>3. CASE demand # Nothing
    BY <2>1, <2>3 DEF Demand, TargetInv, BoundInv, pools
  <2> QED BY <2>2, <2>3
<1> QED BY <1>1, <1>2, StirringLooks DEF TargetInv

LEMMA ImportFailsInv ==
    ASSUME TargetTypeOK, TargetInv, ImportFails
    PROVE  TargetInv'
<1>1. WireInv' /\ OneRuns' /\ Stirring'
  <2>1. pass["display"] = NoPass /\ Begin("display") /\ UNCHANGED <<queue, pools, ask, answer>>
    BY DEF ImportFails
  <2> QED BY <2>1, BeginWire DEF TargetInv, Task
<1>2. BoundInv'
  <2>1. demand' = Nothing \/ UNCHANGED <<demand, bound>>
    BY DEF ImportFails
  <2>2. UNCHANGED <<answer, unread, pool, applied>>
    BY DEF ImportFails, pools
  <2> QED BY <2>1, <2>2 DEF TargetInv, BoundInv
<1> QED BY <1>1, <1>2, StirringLooks DEF TargetInv

-----------------------------------------------------------------------------
(* Passes. *)

\* One task goes on, or leaves; nothing changes for others
LEMMA GoesOn ==
    ASSUME TargetTypeOK, NEW t \in Task, NEW pc \in {"configure", "send", "deadline"},
           PassGoes(t, pc) \/ Leaves(t)
    PROVE  /\ \A u \in Task : u # t => pass'[u] = pass[u]
           /\ PassGoes(t, pc) => pass'[t].pc = pc /\ pass'[t].want = pass[t].want
           /\ Leaves(t) => pass'[t].pc = "idle"
           /\ t \in Running => Running' \subseteq Running
<1>1. /\ \A u \in Task : u # t => pass'[u] = pass[u]
      /\ PassGoes(t, pc) => pass'[t].pc = pc /\ pass'[t].want = pass[t].want
      /\ Leaves(t) => pass'[t].pc = "idle"
  BY DEF PassGoes, Leaves, NoPass, TargetTypeOK, Passes
<1> QED BY <1>1 DEF Running

\* What is wanted does not change
LEMMA WantedStays ==
    UNCHANGED demands => Wanted' = Wanted
BY DEF demands, Wanted, Usable

\* A pass that is to come is so still
LEMMA StirringStays ==
    ASSUME NEW t \in Task, pass[t].pc # "wait", \A u \in Task : u # t => pass'[u] = pass[u],
           unread' = unread, timer = "fired" => timer' = "fired", Stirring
    PROVE  Stirring'
BY DEF Stirring

LEMMA LookInv ==
    ASSUME TargetTypeOK, TargetInv, NEW t \in Task, Look(t)
    PROVE  TargetInv'
<1>1. /\ pass'[t].pc = "configure" /\ pass'[t].want = Wanted
      /\ \A u \in Task : u # t => pass'[u] = pass[u]
      /\ pass[t].pc = "wait" /\ Running = {}
  BY DEF Look, TargetTypeOK, NobodyRuns
<1>2. \A u \in Task : pass[u].pc \notin {"configure", "send", "deadline"}
  BY <1>1 DEF Running
<1>3. WireInv'
  <2>1. \A u \in Task : ~Sends(u) /\ ~Sends(u)'
    BY <1>1, <1>2 DEF Sends
  <2>2. UNCHANGED <<queue, pools, ask, answer>>
    BY DEF Look, coordinator
  <2> QED BY <2>1, <2>2, WireStays DEF TargetInv
<1>4. OneRuns'
  <2>1. Running' \subseteq {t}
    BY <1>1, <1>2 DEF Running
  <2> QED BY <2>1 DEF OneRuns
<1>5. Wanted' = Wanted
  BY WantedStays DEF Look
<1>6. LookedInv'
  BY <1>1, <1>2, <1>5 DEF LookedInv
<1>7. WantedInv'
  BY <1>1 DEF WantedInv
<1>8. BoundInv'
  BY DEF Look, TargetInv, BoundInv, demands, pools
<1> QED BY <1>3, <1>4, <1>6, <1>7, <1>8 DEF TargetInv

\* Nobody else configures
LEMMA Alone ==
    ASSUME OneRuns, NEW t \in Task, pass[t].pc \in {"configure", "send", "deadline"}
    PROVE  \A u \in Task : u # t => pass[u].pc \notin {"configure", "send", "deadline"}
BY DEF OneRuns, Running

LEMMA GivesUpInv ==
    ASSUME TargetTypeOK, TargetInv, NEW t \in Task, Outdated(t) \/ Blocked(t)
    PROVE  TargetInv'
<1>1. /\ pass[t].pc = "configure" /\ Leaves(t) /\ (timer = "fired" => timer' = "fired")
      /\ UNCHANGED <<demands, coordinator, pools, bound, ask, answer, unread>>
  BY DEF Outdated, Blocked
<1>2. /\ \A u \in Task : u # t => pass'[u] = pass[u]
      /\ pass'[t].pc = "idle"
      /\ Running' \subseteq Running
  <2>1. t \in Running
    BY <1>1 DEF Running
  <2> QED BY <1>1, <2>1, GoesOn
<1>3. WireInv'
  <2>1. \A u \in Task : (Sends(u)' <=> Sends(u)) /\ (Sends(u) => pass'[u].want = pass[u].want)
    BY <1>1, <1>2 DEF Sends
  <2>2. UNCHANGED <<queue, pools, ask, answer>>
    BY <1>1 DEF coordinator
  <2> QED BY <2>1, <2>2, WireStays DEF TargetInv
<1>4. OneRuns'
  BY <1>2 DEF TargetInv, OneRuns
<1>5. Wanted' = Wanted
  BY <1>1, WantedStays
<1>6. \A u \in Task : pass'[u].pc # "configure"
  BY <1>1, <1>2, Alone DEF TargetInv
<1>7. LookedInv'
  BY <1>6 DEF LookedInv
<1>8. WantedInv'
  <2>1. CASE Stirring
    <3>1. Stirring'
      BY <1>1, <1>2, <2>1, StirringStays
    <3> QED BY <3>1 DEF WantedInv
  <2>2. CASE ~Stirring
    <3>1. pass[t].want = Wanted
      BY <1>1, <2>2 DEF TargetInv, LookedInv
    <3>2. pass[t].want.rev = caps \/ Wanted = NoTarget
      BY <3>1, WantedIs
    <3>3. Wanted # NoTarget => blocked = TargetKey(Wanted)
      BY <3>1, <3>2 DEF Outdated, Blocked
    <3>4. blocked' = blocked
      BY <1>1 DEF coordinator
    <3> QED BY <1>5, <3>3, <3>4 DEF WantedInv
  <2> QED BY <2>1, <2>2
<1>9. BoundInv'
  BY <1>1 DEF TargetInv, BoundInv, demands, pools
<1> QED BY <1>3, <1>4, <1>7, <1>8, <1>9 DEF TargetInv

LEMMA ConfigureInv ==
    ASSUME TargetTypeOK, TargetInv, NEW t \in Task, Configure(t)
    PROVE  TargetInv'
<1> DEFINE want == pass[t].want
           desired == [queue EXCEPT !.desired = want]
<1>1. PICK ready \in BOOLEAN :
        /\ ready => Pending(desired)
        /\ queue' = IF ready THEN [desired EXCEPT !.flight = want] ELSE desired
        /\ PassGoes(t, IF ready THEN "send" ELSE "deadline")
  <2> DEFINE go == Pending(desired) /\ ((want # NoTarget /\ retry = TargetKey(want)) \/ ~sent
                                          \/ (elapsed /\ ~(want # queue.desired)))
  <2>1. go \in BOOLEAN /\ (go => Pending(desired))
    OBVIOUS
  <2>2. /\ queue' = IF go THEN [desired EXCEPT !.flight = want] ELSE desired
        /\ PassGoes(t, IF go THEN "send" ELSE "deadline")
    BY DEF Configure
  <2> HIDE DEF go, desired
  <2> QED BY <2>1, <2>2
<1>2. /\ pass[t].pc = "configure"
      /\ UNCHANGED <<demands, timer, pools, bound, ask, answer, unread>>
  BY DEF Configure
<1>3. /\ \A u \in Task : u # t => pass'[u] = pass[u]
      /\ pass'[t].pc = (IF ready THEN "send" ELSE "deadline") /\ pass'[t].want = want
      /\ Running' \subseteq Running
  <2>1. t \in Running
    BY <1>2 DEF Running
  <2> QED BY <1>1, <2>1, GoesOn
<1>4. /\ queue'.desired = want /\ queue'.applied = queue.applied /\ queue'.failed = queue.failed
      /\ queue'.flight = IF ready THEN want ELSE queue.flight
  BY <1>1 DEF TargetTypeOK, Coordinators
<1>5. ready => queue.flight = NoTarget /\ want # NoTarget
  BY <1>1 DEF Pending, TargetTypeOK, Coordinators
<1>6. \A u \in Task : u # t => pass[u].pc \notin {"configure", "send", "deadline"}
  BY <1>2, Alone DEF TargetInv
<1> HIDE DEF want, desired
<1>7. WireInv'
  <2>1. Drawn' <=> Drawn
    BY <1>2, <1>4 DEF Drawn, pools
  <2>2. \A u \in Task : ~Sends(u)
    BY <1>2, <1>6 DEF Sends
  <2>3. ~ToSend
    BY <2>2 DEF ToSend
  <2>4. CASE ready
    <3>1. NoRequest
      BY <1>5, <2>3, <2>4 DEF TargetInv, WireInv
    <3>2. Sends(t)' /\ pass'[t].want = queue'.flight /\ queue'.flight # NoTarget
      BY <1>3, <1>4, <1>5, <2>4 DEF Sends
    <3>3. ToSend'
      BY <1>2, <2>1, <3>1, <3>2 DEF NoRequest, ToSend
    <3> QED BY <3>2, <3>3 DEF WireInv
  <2>5. CASE ~ready
    <3>1. \A u \in Task : ~Sends(u)'
      BY <1>3, <1>6, <2>5 DEF Sends
    <3>2. queue'.flight = queue.flight
      BY <1>4, <2>5
    <3>3. NoRequest => NoRequest'
      BY <1>2, <2>1, <3>1, <3>2 DEF NoRequest
    <3>4. Requested => Requested'
      BY <1>2, <2>1, <3>1, <3>2 DEF Requested
    <3>5. Answering => Answering'
      BY <1>2, <2>1, <3>1, <3>2 DEF Answering, pools
    <3> QED BY <2>3, <3>2, <3>3, <3>4, <3>5 DEF TargetInv, WireInv
  <2> QED BY <2>4, <2>5
<1>8. OneRuns'
  BY <1>3 DEF TargetInv, OneRuns
<1>9. LookedInv'
  <2>1. \A u \in Task : pass'[u].pc # "configure"
    BY <1>3, <1>6
  <2> QED BY <2>1 DEF LookedInv
<1>10. WantedInv'
  <2>1. CASE Stirring
    <3>1. Stirring'
      BY <1>2, <1>3, <2>1, StirringStays
    <3> QED BY <3>1 DEF WantedInv
  <2>2. CASE ~Stirring
    <3>1. want = Wanted
      BY <1>2, <2>2 DEF TargetInv, LookedInv, want
    <3>2. Wanted' = Wanted
      BY <1>2, WantedStays
    <3>3. queue'.desired = Wanted'
      BY <1>4, <3>1, <3>2
    <3>4. CASE ready
      <4>1. ~Pending(queue')
        BY <1>4, <1>5, <3>4 DEF Pending
      <4> QED BY <3>3, <4>1 DEF WantedInv
    <3>5. CASE ~ready
      BY <1>3, <3>3, <3>5 DEF WantedInv
    <3> QED BY <3>4, <3>5
  <2> QED BY <2>1, <2>2
<1>11. BoundInv'
  BY <1>2 DEF TargetInv, BoundInv, demands, pools
<1> QED BY <1>7, <1>8, <1>9, <1>10, <1>11 DEF TargetInv

LEMMA SendInv ==
    ASSUME TargetTypeOK, TargetInv, NEW t \in Task, Send(t)
    PROVE  TargetInv'
<1>1. /\ pass[t].pc = "send" /\ PassGoes(t, "deadline") /\ ask' = Append(ask, pass[t].want)
      /\ UNCHANGED <<demands, coordinator, timer, pools, bound, answer, unread>>
  BY DEF Send
<1>2. /\ \A u \in Task : u # t => pass'[u] = pass[u]
      /\ pass'[t].pc = "deadline" /\ Running' \subseteq Running
  <2>1. t \in Running
    BY <1>1 DEF Running
  <2> QED BY <1>1, <2>1, GoesOn
<1>3. \A u \in Task : u # t => pass[u].pc \notin {"configure", "send", "deadline"}
  BY <1>1, Alone DEF TargetInv
<1>4. WireInv'
  <2>1. queue.flight # NoTarget /\ ToSend
    BY <1>1 DEF TargetInv, WireInv, NoRequest, Requested, Answering, Sends
  <2>2. pass[t].want = queue.flight /\ ask = <<>> /\ answer = <<>> /\ Drawn
    BY <1>3, <2>1 DEF ToSend, Sends
  <2>3. ask' = <<queue.flight>>
    BY <1>1, <2>2
  <2>4. \A u \in Task : ~Sends(u)'
    BY <1>2, <1>3 DEF Sends
  <2>5. Requested' /\ queue'.flight # NoTarget
    BY <1>1, <2>1, <2>2, <2>3, <2>4 DEF Requested, Drawn, coordinator, pools
  <2> QED BY <2>5 DEF WireInv
<1>5. OneRuns'
  BY <1>2 DEF TargetInv, OneRuns
<1>6. Wanted' = Wanted
  BY <1>1, WantedStays
<1>7. LookedInv'
  BY <1>2, <1>3 DEF LookedInv
<1>8. WantedInv'
  <2>1. CASE Stirring
    <3>1. Stirring'
      BY <1>1, <1>2, <2>1, StirringStays
    <3> QED BY <3>1 DEF WantedInv
  <2>2. CASE ~Stirring
    <3>1. \A u \in Task : pass[u].pc # "configure"
      BY <1>1, <1>3
    <3>2. Wanted # NoTarget => blocked = TargetKey(Wanted) \/ queue.desired = Wanted
      BY <2>2, <3>1 DEF TargetInv, WantedInv
    <3> QED BY <1>1, <1>2, <1>6, <3>2 DEF WantedInv, coordinator
  <2> QED BY <2>1, <2>2
<1>9. BoundInv'
  BY <1>1 DEF TargetInv, BoundInv, demands, pools
<1> QED BY <1>4, <1>5, <1>7, <1>8, <1>9 DEF TargetInv

LEMMA SetDeadlineInv ==
    ASSUME TargetTypeOK, TargetInv, NEW t \in Task, SetDeadline(t)
    PROVE  TargetInv'
<1>1. /\ pass[t].pc = "deadline" /\ Leaves(t)
      /\ timer' = IF timer = "fired" THEN "fired" ELSE IF Pending(queue) THEN "on" ELSE "off"
      /\ UNCHANGED <<demands, coordinator, pools, bound, ask, answer, unread>>
  BY DEF SetDeadline
<1>2. /\ \A u \in Task : u # t => pass'[u] = pass[u]
      /\ pass'[t].pc = "idle" /\ Running' \subseteq Running
  <2>1. t \in Running
    BY <1>1 DEF Running
  <2> QED BY <1>1, <2>1, GoesOn
<1>3. \A u \in Task : u # t => pass[u].pc \notin {"configure", "send", "deadline"}
  BY <1>1, Alone DEF TargetInv
<1>4. WireInv'
  <2>1. \A u \in Task : (Sends(u)' <=> Sends(u)) /\ (Sends(u) => pass'[u].want = pass[u].want)
    BY <1>1, <1>2 DEF Sends
  <2>2. UNCHANGED <<queue, pools, ask, answer>>
    BY <1>1 DEF coordinator
  <2> QED BY <2>1, <2>2, WireStays DEF TargetInv
<1>5. OneRuns'
  BY <1>2 DEF TargetInv, OneRuns
<1>6. Wanted' = Wanted
  BY <1>1, WantedStays
<1>7. LookedInv'
  BY <1>2, <1>3 DEF LookedInv
<1>8. WantedInv'
  <2>1. CASE Stirring
    <3>1. Stirring'
      BY <1>1, <1>2, <2>1, StirringStays
    <3> QED BY <3>1 DEF WantedInv
  <2>2. CASE ~Stirring
    <3>1. \A u \in Task : pass[u].pc # "configure"
      BY <1>1, <1>3
    <3>2. Wanted # NoTarget => blocked = TargetKey(Wanted) \/ queue.desired = Wanted
      BY <2>2, <3>1 DEF TargetInv, WantedInv
    <3>3. UNCHANGED <<queue, blocked>>
      BY <1>1 DEF coordinator
    <3>4. timer # "fired"
      BY <2>2 DEF Stirring
    <3>5. Pending(queue) => timer' = "on"
      BY <1>1, <3>4
    <3> QED BY <1>6, <3>2, <3>3, <3>5 DEF WantedInv
  <2> QED BY <2>1, <2>2
<1>9. BoundInv'
  BY <1>1 DEF TargetInv, BoundInv, demands, pools
<1> QED BY <1>4, <1>5, <1>7, <1>8, <1>9 DEF TargetInv

-----------------------------------------------------------------------------
(* Time, the process, the reader and the event task. *)

LEMMA TimeInv ==
    ASSUME TargetTypeOK, TargetInv, DelayPasses \/ DeadlineFires \/ Deadline
    PROVE  TargetInv'
<1>1. CASE DelayPasses
  <2>1. UNCHANGED <<demands, queue, blocked, timer, pools, bound, ask, answer, unread, pass>>
    BY <1>1 DEF DelayPasses
  <2>2. WireInv'
    BY <2>1, WireStays DEF TargetInv, Sends
  <2>3. OneRuns' /\ LookedInv' /\ WantedInv'
    BY <2>1, WantedStays DEF TargetInv, OneRuns, Running, LookedInv, WantedInv, Stirring
  <2>4. BoundInv'
    BY <2>1 DEF TargetInv, BoundInv, demands, pools
  <2> QED BY <2>2, <2>3, <2>4 DEF TargetInv
<1>2. CASE DeadlineFires
  <2>1. /\ timer' = "fired"
        /\ UNCHANGED <<demands, coordinator, pools, bound, ask, answer, unread, pass>>
    BY <1>2 DEF DeadlineFires
  <2>2. WireInv'
    BY <2>1, WireStays DEF TargetInv, Sends, coordinator
  <2>3. OneRuns' /\ Stirring'
    BY <2>1 DEF TargetInv, OneRuns, Running, Stirring
  <2>4. BoundInv'
    BY <2>1 DEF TargetInv, BoundInv, demands, pools
  <2> QED BY <2>2, <2>3, <2>4, StirringLooks DEF TargetInv
<1>3. CASE Deadline
  <2>1. /\ pass["deadlines"] = NoPass /\ Begin("deadlines")
        /\ UNCHANGED <<demands, coordinator, pools, bound, ask, answer, unread>>
    BY <1>3 DEF Deadline
  <2>2. WireInv' /\ OneRuns' /\ Stirring'
    <3>1. UNCHANGED <<queue, pools, ask, answer>>
      BY <2>1 DEF coordinator
    <3> QED BY <2>1, <3>1, BeginWire DEF TargetInv, Task
  <2>3. BoundInv'
    BY <2>1 DEF TargetInv, BoundInv, demands, pools
  <2> QED BY <2>2, <2>3, StirringLooks DEF TargetInv
<1> QED BY <1>1, <1>2, <1>3

LEMMA ProcessInv ==
    ASSUME TargetTypeOK, TargetInv, Draw \/ Refuse
    PROVE  TargetInv'
<1>1. /\ ask # <<>> /\ ask' = Tail(ask)
      /\ UNCHANGED <<demands, coordinator, timer, pools, bound, unread, pass>>
  BY DEF Draw, Refuse
<1>2. Requested /\ queue.flight # NoTarget
  BY <1>1 DEF TargetInv, WireInv, NoRequest, ToSend, Answering
<1>3. ask' = <<>> /\ Head(ask) = queue.flight
  BY <1>1, <1>2 DEF Requested
<1>4. \/ answer' = <<PoolOf(queue.flight), Result(0)>>
      \/ answer' = <<Result(1)>> \/ answer' = <<Result(3)>>
  <2>1. CASE Draw
    BY <1>2, <1>3, <2>1 DEF Draw, Requested, PoolOf, Result
  <2>2. CASE Refuse
    <3>1. PICK status \in {1, 3} : answer' = Append(answer, Result(status))
      BY <2>2 DEF Refuse, Result
    <3>2. answer' = <<Result(status)>>
      BY <1>2, <3>1 DEF Requested
    <3> QED BY <3>2
  <2> QED BY <2>1, <2>2
<1>5. WireInv'
  <2>1. Drawn' /\ queue' = queue /\ \A t \in Task : ~Sends(t)'
    BY <1>1, <1>2 DEF Requested, Drawn, Sends, coordinator, pools
  <2>2. Answering'
    BY <1>3, <1>4, <2>1 DEF Answering
  <2> QED BY <1>2, <2>1, <2>2 DEF WireInv
<1>6. OneRuns' /\ LookedInv' /\ WantedInv'
  BY <1>1, WantedStays DEF TargetInv, OneRuns, Running, LookedInv, WantedInv, Stirring, coordinator
<1>7. BoundInv'
  <2>1. answer' # <<>>
    BY <1>4
  <2> QED BY <2>1 DEF BoundInv
<1> QED BY <1>5, <1>6, <1>7 DEF TargetInv

LEMMA ReadInv ==
    ASSUME TargetTypeOK, TargetInv, ReadPool \/ ReadResult
    PROVE  TargetInv'
<1>1. /\ answer # <<>> /\ answer' = Tail(answer)
      /\ unread' = Append(unread, "pool") \/ unread' = Append(unread, "result")
      /\ UNCHANGED <<ask, pass>>
  BY DEF ReadPool, ReadResult, Reads
<1>2. queue.flight # NoTarget /\ Answering
  BY <1>1 DEF TargetInv, WireInv, NoRequest, ToSend, Requested
<1>3. Stirring' /\ OneRuns'
  <2>1. unread' # <<>>
    BY <1>1 DEF TargetTypeOK
  <2> QED BY <1>1, <2>1 DEF Stirring, TargetInv, OneRuns, Running
<1>4. BoundInv'
  <2>1. Len(unread') \in DOMAIN unread' /\ unread'[Len(unread')] # "capabilities"
    BY <1>1 DEF TargetTypeOK
  <2> QED BY <2>1 DEF BoundInv
<1>5. ask' = <<>> /\ \A t \in Task : ~Sends(t)'
  BY <1>1, <1>2 DEF Answering, Sends
<1>6. CASE ReadPool
  <2>1. answer = <<PoolOf(queue.flight), Result(0)>> /\ Drawn
    BY <1>2, <1>6 DEF ReadPool, Reads, Answering, Result
  <2>2. answer' = <<Result(0)>> /\ Head(answer).target = queue.flight
    BY <1>1, <2>1 DEF PoolOf
  <2>3. pool'.target = queue.flight /\ pool'.gen = applied + 1 /\ UNCHANGED <<queue, applied>>
    BY <1>6, <2>1, <2>2 DEF ReadPool, Drawn, coordinator
  <2>4. pool'.gen # applied'
    BY <2>3 DEF TargetTypeOK
  <2>5. Answering' /\ queue'.flight # NoTarget
    BY <1>2, <1>5, <2>2, <2>3, <2>4 DEF Answering
  <2>6. WireInv'
    BY <2>5 DEF WireInv
  <2> QED BY <1>3, <1>4, <2>6, StirringLooks DEF TargetInv
<1>7. CASE ReadResult
  <2>1. Head(answer).kind = "result"
    BY <1>7 DEF ReadResult, Reads
  <2>2. \/ answer = <<Result(0)>> /\ pool.target = queue.flight
        \/ (answer = <<Result(1)>> \/ answer = <<Result(3)>>) /\ Drawn
    BY <1>2, <2>1 DEF Answering, PoolOf
  <2>3. answer' = <<>>
    <3>1. \E reply : answer = <<reply>>
      BY <2>2
    <3> QED BY <1>1, <3>1
  <2>4. /\ pool' = pool
        /\ Head(answer).status = 0 => applied' = pool.gen
        /\ Head(answer).status # 0 => applied' = applied
    BY <1>7 DEF ReadResult
  <2>5. /\ queue'.flight = NoTarget
        /\ queue'.applied = IF Head(answer).status = 0 THEN queue.flight ELSE queue.applied
    BY <1>7 DEF ReadResult, TargetTypeOK, Coordinators
  <2>6. Drawn'
    BY <2>2, <2>4, <2>5 DEF Drawn, Result
  <2>7. WireInv'
    BY <1>5, <2>3, <2>5, <2>6 DEF WireInv, NoRequest
  <2> QED BY <1>3, <1>4, <2>7, StirringLooks DEF TargetInv
<1> QED BY <1>6, <1>7

LEMMA HandleEventInv ==
    ASSUME TargetTypeOK, TargetInv, HandleEvent
    PROVE  TargetInv'
<1>1. WireInv' /\ OneRuns' /\ Stirring'
  <2>1. pass["events"] = NoPass /\ Begin("events") /\ UNCHANGED <<queue, pools, ask, answer>>
    BY DEF HandleEvent, coordinator
  <2> QED BY <2>1, BeginWire DEF TargetInv, Task
<1>2. BoundInv'
  <2> SUFFICES ASSUME demand' # Nothing, answer' = <<>>
               PROVE  \/ \E i \in DOMAIN unread' : unread'[i] # "capabilities"
                      \/ bound' = pool' /\ pool'.gen = applied'
    BY DEF BoundInv
  <2>1. demand # Nothing /\ answer = <<>> /\ UNCHANGED pools
    BY DEF HandleEvent, demands
  <2>2. CASE Head(unread) = "capabilities"
    <3>1. bound' = bound
      BY <2>2 DEF HandleEvent
    <3>2. CASE \E i \in DOMAIN unread : unread[i] # "capabilities"
      <4>1. PICK i \in DOMAIN unread : unread[i] # "capabilities"
        BY <3>2
      <4>2. i # 1 /\ unread' = Tail(unread) /\ unread # <<>>
        BY <2>2, <4>1 DEF HandleEvent, TargetTypeOK
      <4>3. i - 1 \in DOMAIN unread' /\ unread'[i - 1] = unread[i]
        BY <4>1, <4>2 DEF TargetTypeOK
      <4> QED BY <4>1, <4>3
    <3>3. CASE ~\E i \in DOMAIN unread : unread[i] # "capabilities"
      BY <2>1, <3>1, <3>3 DEF TargetInv, BoundInv, pools
    <3> QED BY <3>2, <3>3
  <2>3. CASE Head(unread) # "capabilities"
    <3>1. Drawn
      BY <2>1, AnsweredDrawn DEF TargetInv
    <3>2. bound' = Synced
      BY <2>1, <2>3 DEF HandleEvent
    <3> QED BY <2>1, <3>1, <3>2 DEF Drawn, Synced, pools
  <2> QED BY <2>2, <2>3
<1> QED BY <1>1, <1>2, StirringLooks DEF TargetInv

-----------------------------------------------------------------------------
LEMMA TargetInitInv == TargetInit => TargetInv
<1> SUFFICES ASSUME TargetInit PROVE TargetInv
  OBVIOUS
<1>1. \A t \in Task : pass[t] = NoPass
  BY DEF TargetInit
<1>2. \A t \in Task : pass[t].pc = "idle"
  BY <1>1 DEF NoPass
<1>3. WireInv
  BY <1>2 DEF TargetInit, WireInv, NoRequest, Drawn, Sends, NoPool
<1>4. OneRuns /\ LookedInv
  BY <1>2 DEF OneRuns, Running, LookedInv
<1>5. WantedInv
  BY DEF TargetInit, WantedInv, Wanted
<1>6. BoundInv
  BY DEF TargetInit, BoundInv
<1> QED BY <1>3, <1>4, <1>5, <1>6 DEF TargetInv

LEMMA TargetNextInv == TargetTypeOK /\ TargetInv /\ [TargetNext]_targetVars => TargetInv'
<1> SUFFICES ASSUME TargetTypeOK, TargetInv, [TargetNext]_targetVars PROVE TargetInv'
  OBVIOUS
<1>1. CASE Declare
  BY <1>1, DeclareInv
<1>2. CASE Demand
  BY <1>2, DemandInv
<1>3. CASE ImportFails
  BY <1>3, ImportFailsInv
<1>4. ASSUME NEW t \in Task,
             Look(t) \/ Outdated(t) \/ Blocked(t) \/ Configure(t) \/ Send(t) \/ SetDeadline(t)
      PROVE  TargetInv'
  BY <1>4, LookInv, GivesUpInv, ConfigureInv, SendInv, SetDeadlineInv
<1>5. CASE DelayPasses \/ DeadlineFires \/ Deadline
  BY <1>5, TimeInv
<1>6. CASE Draw \/ Refuse
  BY <1>6, ProcessInv
<1>7. CASE ReadPool \/ ReadResult
  BY <1>7, ReadInv
<1>8. CASE HandleEvent
  BY <1>8, HandleEventInv
<1>9. CASE UNCHANGED targetVars
  <2>1. UNCHANGED <<demands, coordinator, timer, pools, bound, ask, answer, unread, pass>>
    BY <1>9 DEF targetVars
  <2>2. WireInv'
    BY <2>1, WireStays DEF TargetInv, Sends, coordinator
  <2>3. OneRuns' /\ LookedInv' /\ WantedInv'
    BY <2>1, WantedStays DEF TargetInv, OneRuns, Running, LookedInv, WantedInv, Stirring, coordinator
  <2>4. BoundInv'
    BY <2>1 DEF TargetInv, BoundInv, demands, pools
  <2> QED BY <2>2, <2>3, <2>4 DEF TargetInv
<1> QED BY <1>1, <1>2, <1>3, <1>4, <1>5, <1>6, <1>7, <1>8, <1>9 DEF TargetNext

\* At rest no request is under way, so what is desired was drawn, failed, or is blocked
LEMMA TargetRests == TargetTypeOK /\ TargetInv => TargetAtRest
<1> SUFFICES ASSUME TargetTypeOK, TargetInv, AtRest
             PROVE  /\ Wanted # NoTarget =>
                         Wanted \in {queue.applied, queue.failed} \/ blocked = TargetKey(Wanted)
                    /\ demand # Nothing => bound.gen = applied /\ bound.target = queue.applied
  BY DEF TargetAtRest
<1>1. /\ \A t \in Task : pass[t].pc = "idle"
      /\ timer = "off" /\ ask = <<>> /\ answer = <<>> /\ unread = <<>>
  BY DEF AtRest, NoPass
<1>2. NoRequest
  BY <1>1 DEF TargetInv, WireInv, ToSend, Requested, Answering, Sends
<1>3. ~Stirring
  BY <1>1 DEF Stirring
<1>4. Wanted # NoTarget => Wanted \in {queue.applied, queue.failed} \/ blocked = TargetKey(Wanted)
  <2>1. Wanted # NoTarget =>
          blocked = TargetKey(Wanted) \/ (queue.desired = Wanted /\ ~Pending(queue))
    BY <1>1, <1>3 DEF TargetInv, WantedInv
  <2> QED BY <1>2, <2>1 DEF Pending, NoRequest
<1>5. demand # Nothing => bound.gen = applied /\ bound.target = queue.applied
  <2>1. DOMAIN unread = {}
    BY <1>1
  <2>2. demand # Nothing => bound = pool /\ pool.gen = applied
    BY <1>1, <2>1 DEF TargetInv, BoundInv
  <2> QED BY <1>2, <2>2 DEF NoRequest, Drawn
<1> QED BY <1>4, <1>5

\* The coordinator, the reader and those who use them hold what their types say
\* (renderer_manager/render_target.rs, routing/router/render_size.rs).
THEOREM TargetTypeCorrect == TargetSpec => []TargetTypeOK
<1> QED BY TargetInitTypes, TargetNextTypes, PTL DEF TargetSpec

\* When nothing is under way, the renderer draws in the size and format wanted now, unless
\* just that failed or is blocked, and the display shows the pool of the target applied last:
\* no change is forgotten, for any number of them, and whatever fails meanwhile.
THEOREM LastTargetDrawn == TargetSpec => []TargetAtRest
<1>1. TargetInit => TargetTypeOK /\ TargetInv
  BY TargetInitTypes, TargetInitInv
<1>2. (TargetTypeOK /\ TargetInv) /\ [TargetNext]_targetVars => (TargetTypeOK /\ TargetInv)'
  BY TargetNextTypes, TargetNextInv
<1>3. TargetTypeOK /\ TargetInv => TargetAtRest
  BY TargetRests
<1> QED BY <1>1, <1>2, <1>3, PTL DEF TargetSpec

-----------------------------------------------------------------------------
(* Playback.                                                                 *)
Sending == {"send", "clear", "schedule"}
Deciding == {"sync", "lock", "decide"}
Holding == Sending \cup {"decide", "ask"}
Activities == {"playing", "muted", "paused"}
Message == {"pause", "play", "mute", "unmute"}

\* A task looks at a message it has sent only if that one resumes
Resuming(todo) == todo # <<>> /\ Head(todo)[2] \in ResumeMessages
Todo(pc) ==
  CASE pc = "send" -> Seq(Renderer \X Message)
    [] pc \in {"clear", "schedule"} -> {todo \in Seq(Renderer \X Message) : Resuming(todo)}
    [] pc = "ask" -> Seq(Renderer)
    [] OTHER -> {<<>>}

Work ==
  [pc : {"idle", "spawn", "register", "rebind"} \cup Deciding \cup Holding,
   todo : Seq(Renderer \X Message) \cup Seq(Renderer), reg : SUBSET Renderer, of : SUBSET Renderer]
Fitting(t, w) ==
  /\ w.todo \in Todo(w.pc)
  /\ t \notin Starter => w.reg = {} /\ w.pc \notin {"spawn", "register"}

PlaybackTypeOK ==
  /\ wish \in [global : BOOLEAN, mute : BOOLEAN, renderers : SUBSET Renderer,
               displays : SUBSET LinkedDisplay, off : SUBSET LinkedDisplay]
  /\ shown \in [LinkedDisplay -> {"unbound", "awaiting", "shown"}] /\ stale \subseteq LinkedDisplay
  /\ resume \subseteq LinkedDisplay /\ owed \subseteq LinkedDisplay /\ misled \subseteq Renderer
  /\ activity \in [Renderer -> Activities \cup {"none"}]
  /\ resumeRetry \in [Renderer -> SUBSET ResumeMessages]
  /\ retrier \in [Renderer -> {"none", "look", "delay", "send"}]
  /\ lifecycleLock \in PassTask \cup {Retrier(r) : r \in Renderer} \cup {Nobody}
  /\ proc \in [Renderer -> [up : BOOLEAN, pool : BOOLEAN, paused : BOOLEAN, muted : BOOLEAN,
                            gate : BOOLEAN]]
  /\ task \in [PassTask -> Work]
  /\ \A t \in PassTask : Fitting(t, task[t])
  /\ wishChanges \in 0 .. MaxChanges /\ deaths \in 0 .. MaxDeaths

\* Unless somebody has still to decide, every renderer does what is wished
DecidedInv ==
  \/ \E t \in PassTask : task[t].pc \in Deciding
  \/ \A r \in Renderer : activity[r] \in {"none", Target(r)}

LockInv ==
  /\ \A t \in PassTask : task[t].pc \in Holding => lifecycleLock = t
  /\ \A r \in Renderer : retrier[r] = "send" => lifecycleLock = Retrier(r)

\* One task at a time starts a renderer, which has no process then
Starts(t, r) == task[t].pc \in {"spawn", "register"} /\ r \in task[t].of
StartInv ==
  /\ \A t \in PassTask : \A r \in Renderer :
       Starts(t, r) => activity[r] = "none" /\ task[t].of = {r}
  /\ \A t, u \in PassTask : \A r \in Renderer : Starts(t, r) /\ Starts(u, r) => t = u

\* A display is bound to the pool of the process that runs, but between the exit of a process
\* and the sync that follows
PoolInv ==
  /\ \A d \in LinkedDisplay : shown[d] # "unbound" =>
       d \in stale \/ (activity[RendererOf[d]] # "none" /\ proc[RendererOf[d]].pool)
  /\ \A d \in stale : task[Host].pc = "sync" /\ RendererOf[d] \in task[Host].of

\* What a task has still to tell a renderer
Tells(t, r, msg) == task[t].pc \in Sending /\ <<r, msg>> \in ToSet(task[t].todo)
Untold(r, msg) == \E t \in PassTask : Tells(t, r, msg)

\* A message that resumes and was sent is what the process does, if it lives; if it was not
\* sent, it does not live.  Who is retried does not live.
Heard(t) ==
  LET p == proc[Head(task[t].todo)[1]]
      msg == Head(task[t].todo)[2]
  IN  p.up => /\ task[t].pc = "clear" /\ p.gate
              /\ msg = "play" => ~p.paused
              /\ msg = "unmute" => ~p.muted
Retried(r) ==
  /\ retrier[r] = "none" <=> resumeRetry[r] = {}
  /\ resumeRetry[r] # {} => activity[r] # "none" /\ (proc[r].up => r \in misled)
RetryInv ==
  /\ \A t \in PassTask :
       task[t].pc \in {"clear", "schedule"} /\ Head(task[t].todo)[1] \notin misled => Heard(t)
  /\ \A r \in Renderer : Retried(r)

\* Nobody has told a new process anything before it is registered
FreshInv ==
  \A t \in PassTask : task[t].pc = "register" => \A r \in task[t].of \ misled :
    /\ proc[r].up => proc[r] = Fresh
    /\ \A msg \in Message : ~Untold(r, msg)

\* A process does what its slot says, or has still to be told
Greeted(r) == \E t \in PassTask : r \in task[t].reg /\ task[t].pc \in {"lock", "decide"}
Obeys(r) ==
  /\ Untold(r, "pause") => activity[r] = "paused"
  /\ Untold(r, "play") => activity[r] # "paused"
  /\ Untold(r, "mute") => activity[r] = "muted"
  /\ Untold(r, "unmute") => activity[r] # "muted"
  /\ proc[r].up =>
       /\ ~Untold(r, "pause") /\ ~Untold(r, "play") => proc[r].paused = (activity[r] = "paused")
       /\ ~Untold(r, "mute") /\ ~Untold(r, "unmute") => proc[r].muted = (activity[r] = "muted")
       /\ activity[r] = "playing" =>
            proc[r].gate \/ Untold(r, "play") \/ Untold(r, "unmute") \/ Greeted(r)
ToldInv == \A r \in Renderer : activity[r] # "none" /\ r \notin misled => Obeys(r)

\* Who is owed a frame is still to be asked for, or has nothing to show it
Asks(t, d) == task[t].pc = "ask" /\ RendererOf[d] \in ToSet(task[t].todo)
Excused(d) ==
  \/ ~proc[RendererOf[d]].up \/ activity[RendererOf[d]] = "none" \/ RendererOf[d] \in misled
  \/ shown[d] = "unbound" \/ d \in stale
OwedInv ==
  /\ \A d \in resume \cup owed : ~Paused(d, wish)
  /\ \A d \in owed : d \in resume \/ (\E t \in PassTask : Asks(t, d)) \/ Excused(d)
  /\ \A d \in resume : Enabled(d) => \E t \in PassTask : task[t].pc \in Deciding \cup Sending

PlaybackInv ==
  LockInv /\ StartInv /\ PoolInv /\ RetryInv /\ FreshInv /\ ToldInv /\ OwedInv

LEMMA TasksFact ==
  /\ Host \in PassTask /\ Nobody \notin PassTask
  /\ \A t \in Caller : t \in PassTask /\ t # Host
  /\ Starter \subseteq PassTask /\ Host \in Starter /\ Caller \subseteq Starter
  /\ \A r \in Renderer : /\ Events(r) \in PassTask /\ Events(r) \notin Starter /\ Events(r) # Host
                         /\ Retrier(r) \notin PassTask /\ Retrier(r) # Nobody
  /\ \A q, r \in Renderer : Retrier(q) = Retrier(r) => q = r
  /\ \A q, r \in Renderer : Events(q) = Events(r) => q = r
<1>1. ASSUME NEW x, NEW y PROVE <<x, y>> # Host /\ <<x, y>> # Nobody
  <2>1. Len(<<x, y>>) = 2 /\ Len(Host) = 1 /\ Len(Nobody) = 0
    BY DEF Host, Nobody
  <2> QED BY <2>1
<1>2. Nobody # Host
  <2>1. Len(Host) = 1 /\ Len(Nobody) = 0
    BY DEF Host, Nobody
  <2> QED BY <2>1
<1>3. \A t \in Caller : t[1] = "request" /\ \E q : t = <<"request", q>>
  BY DEF Caller
<1>4. \A r \in Renderer : Events(r)[1] = "events" /\ Retrier(r)[1] = "retry"
                          /\ Events(r)[2] = r /\ Retrier(r)[2] = r
  BY DEF Events, Retrier
<1>5. \A r \in Renderer : Events(r) # Host /\ Retrier(r) # Host /\ Retrier(r) # Nobody
                          /\ Events(r) # Nobody
  BY <1>1 DEF Events, Retrier
<1>6. \A t \in Caller : t # Host /\ t # Nobody
  BY <1>1, <1>3
<1>7. \A r \in Renderer : Retrier(r) \notin PassTask
  BY <1>3, <1>4, <1>5 DEF PassTask
<1>8. Host \in PassTask /\ Caller \subseteq PassTask /\ \A r \in Renderer : Events(r) \in PassTask
  BY DEF PassTask
<1>9. Nobody \notin PassTask
  BY <1>2, <1>5, <1>6 DEF PassTask
<1>10. Starter \subseteq PassTask /\ Host \in Starter /\ Caller \subseteq Starter
  BY DEF Starter, PassTask
<1>11. \A r \in Renderer : Events(r) \notin Starter
  BY <1>3, <1>4, <1>5 DEF Starter
<1> QED BY <1>4, <1>5, <1>6, <1>7, <1>8, <1>9, <1>10, <1>11

LEMMA EnumeratedFact ==
  ASSUME NEW S, IsFiniteSet(S), NEW o \in SetToSeqs(S)
  PROVE  o \in Seq(S) /\ ToSet(o) = S
<1> DEFINE n == Cardinality(S)
<1>1. n \in Nat
  BY FS_CardinalityType
<1>2. o \in [1 .. n -> S] /\ \A i, j \in 1 .. n : i # j => o[i] # o[j]
  BY DEF SetToSeqs
<1>3. o \in Seq(S) /\ DOMAIN o = 1 .. n
  BY <1>1, <1>2
<1>4. ASSUME NEW x \in S PROVE \E i \in 1 .. n : o[i] = x
  <2> SUFFICES ASSUME \A i \in 1 .. n : o[i] # x PROVE FALSE
    OBVIOUS
  <2>1. IsFiniteSet(S \ {x}) /\ Cardinality(S \ {x}) = n - 1
    BY FS_RemoveElement
  <2>2. IsFiniteSet(1 .. n) /\ Cardinality(1 .. n) = n
    <3>1. n # 0
      BY FS_EmptySet
    <3> QED BY <1>1, <3>1, FS_Interval
  <2>5. \E i, j \in 1 .. n : i # j /\ o[i] = o[j]
    <3> DEFINE D == 1 .. n
               T == S \ {x}
    <3>1. IsFiniteSet(D) /\ IsFiniteSet(T) /\ Cardinality(T) < Cardinality(D) /\ o \in [D -> T]
      BY <1>1, <1>2, <2>1, <2>2
    <3> HIDE DEF D, T
    <3>2. \E i, j \in D : i # j /\ o[i] = o[j]
      BY <3>1, FS_PigeonHole
    <3> QED BY <3>2 DEF D
  <2> QED BY <1>2, <2>5
<1> QED BY <1>2, <1>3, <1>4 DEF ToSet

\* SetToSeq chooses one of these
LEMMA ChosenFact ==
  ASSUME NEW S, IsFiniteSet(S)
  PROVE  SetToSeq(S) \in Seq(S) /\ ToSet(SetToSeq(S)) = S
<1> DEFINE n == Cardinality(S)
<1>1. n \in Nat /\ \E f \in [1 .. n -> S] : IsInjective(f)
  <2>1. PICK m \in Nat : ExistsBijection(1 .. m, S)
    BY FS_NatBijection
  <2>2. m = n
    BY <2>1, FS_CountingElements
  <2>3. PICK f \in Bijection(1 .. m, S) : TRUE
    BY <2>1 DEF ExistsBijection
  <2> QED BY <2>2, <2>3 DEF Bijection, Injection
<1>2. SetToSeq(S) \in [1 .. n -> S] /\ IsInjective(SetToSeq(S))
  BY <1>1 DEF SetToSeq
<1>3. SetToSeq(S) \in SetToSeqs(S)
  BY <1>2 DEF SetToSeqs, IsInjective
<1> QED BY <1>3, EnumeratedFact

LEMMA MessagesFact ==
  ASSUME NEW from \in Activities, NEW to \in Activities, NEW registered \in BOOLEAN
  PROVE  /\ Messages(from, to, registered) \in Seq(Message)
         /\ "pause" \in ToSet(Messages(from, to, registered)) <=> from # "paused" /\ to = "paused"
         /\ "play" \in ToSet(Messages(from, to, registered)) <=> from = "paused" /\ to # "paused"
         /\ "mute" \in ToSet(Messages(from, to, registered)) <=> from # "muted" /\ to = "muted"
         /\ "unmute" \in ToSet(Messages(from, to, registered)) <=>
              (from = "muted" /\ to # "muted") \/ (from = to /\ to = "playing" /\ registered)
<1> DEFINE msgs == Messages(from, to, registered)
           said == ToSet(msgs)
<1>1. ASSUME NEW a, NEW b
      PROVE  ToSet(<<>>) = {} /\ ToSet(<<a>>) = {a} /\ ToSet(<<a, b>>) = {a, b}
  BY DEF ToSet
<1>2. <<>> \in Seq(Message) /\ \A a, b \in Message : <<a>> \in Seq(Message) /\ <<a, b>> \in Seq(Message)
  OBVIOUS
<1> SUFFICES
      /\ msgs \in Seq(Message)
      /\ "pause" \in said <=> from # "paused" /\ to = "paused"
      /\ "play" \in said <=> from = "paused" /\ to # "paused"
      /\ "mute" \in said <=> from # "muted" /\ to = "muted"
      /\ "unmute" \in said <=>
           (from = "muted" /\ to # "muted") \/ (from = to /\ to = "playing" /\ registered)
  OBVIOUS
<1>3. CASE from = to /\ to = "playing" /\ registered
  <2>1. msgs = <<"unmute">>
    BY <1>3 DEF Messages, Commands
  <2>2. said = {"unmute"} /\ msgs \in Seq(Message)
    BY <1>1, <1>2, <2>1 DEF Message
  <2> HIDE DEF msgs, said
  <2> QED BY <1>3, <2>2
<1>4. CASE from = to /\ ~(to = "playing" /\ registered)
  <2>1. msgs = <<>>
    BY <1>4 DEF Messages, Commands
  <2>2. said = {} /\ msgs \in Seq(Message)
    BY <1>1, <1>2, <2>1 DEF Message
  <2> HIDE DEF msgs, said
  <2> QED BY <1>4, <2>2
<1>5. CASE from = "playing" /\ to = "paused"
  <2>1. msgs = <<"pause">>
    BY <1>5 DEF Messages, Commands
  <2>2. said = {"pause"} /\ msgs \in Seq(Message)
    BY <1>1, <1>2, <2>1 DEF Message
  <2> HIDE DEF msgs, said
  <2> QED BY <1>5, <2>2
<1>6. CASE from = "playing" /\ to = "muted"
  <2>1. msgs = <<"mute">>
    BY <1>6 DEF Messages, Commands
  <2>2. said = {"mute"} /\ msgs \in Seq(Message)
    BY <1>1, <1>2, <2>1 DEF Message
  <2> HIDE DEF msgs, said
  <2> QED BY <1>6, <2>2
<1>7. CASE from = "paused" /\ to = "playing"
  <2>1. msgs = <<"play">>
    BY <1>7 DEF Messages, Commands
  <2>2. said = {"play"} /\ msgs \in Seq(Message)
    BY <1>1, <1>2, <2>1 DEF Message
  <2> HIDE DEF msgs, said
  <2> QED BY <1>7, <2>2
<1>8. CASE from = "paused" /\ to = "muted"
  <2>1. msgs = <<"mute", "play">>
    BY <1>8 DEF Messages, Commands
  <2>2. said = {"mute", "play"} /\ msgs \in Seq(Message)
    BY <1>1, <1>2, <2>1 DEF Message
  <2> HIDE DEF msgs, said
  <2> QED BY <1>8, <2>2
<1>9. CASE from = "muted" /\ to = "playing"
  <2>1. msgs = <<"unmute">>
    BY <1>9 DEF Messages, Commands
  <2>2. said = {"unmute"} /\ msgs \in Seq(Message)
    BY <1>1, <1>2, <2>1 DEF Message
  <2> HIDE DEF msgs, said
  <2> QED BY <1>9, <2>2
<1>10. CASE from = "muted" /\ to = "paused"
  <2>1. msgs = <<"pause", "unmute">>
    BY <1>10 DEF Messages, Commands
  <2>2. said = {"pause", "unmute"} /\ msgs \in Seq(Message)
    BY <1>1, <1>2, <2>1 DEF Message
  <2> HIDE DEF msgs, said
  <2> QED BY <1>10, <2>2
<1> HIDE DEF msgs, said
<1> QED BY <1>3, <1>4, <1>5, <1>6, <1>7, <1>8, <1>9, <1>10 DEF Activities

LEMMA MessagesLength ==
  ASSUME NEW from \in Activities, NEW to \in Activities, NEW registered
  PROVE  DOMAIN Messages(from, to, registered) \subseteq 1 .. 2
<1>1. \A a, b : DOMAIN <<>> = {} /\ DOMAIN <<a>> = {1} /\ DOMAIN <<a, b>> = {1, 2}
  OBVIOUS
<1> QED BY <1>1 DEF Messages, Commands, Activities

LEMMA TargetFact == \A r : Target(r) \in Activities
BY DEF Target, Activities

\* A pass tells the renderers that run what leads to the activity wished
LEMMA ActionsFact ==
  ASSUME PlaybackTypeOK, NEW reg \in SUBSET Renderer,
         NEW running \in SUBSET Renderer, \A r \in running : activity[r] # "none",
         NEW actions \in Actions(running, reg)
  PROVE  /\ actions \in Seq(Renderer \X Message)
         /\ \A r, msg : <<r, msg>> \in ToSet(actions) <=>
              r \in running /\ msg \in ToSet(Messages(activity[r], Target(r), r \in reg))
<1> DEFINE Msgs(r) == Messages(activity[r], Target(r), r \in reg)
           S == UNION {{r} \X DOMAIN Msgs(r) : r \in running}
<1>1. ASSUME NEW r \in running PROVE Msgs(r) \in Seq(Message)
  <2>1. activity[r] \in Activities /\ Target(r) \in Activities /\ (r \in reg) \in BOOLEAN
    BY TargetFact DEF PlaybackTypeOK
  <2> QED BY <2>1, MessagesFact
<1>2. PICK s \in SetToSeqs(S) : actions = [i \in DOMAIN s |-> <<s[i][1], Msgs(s[i][1])[s[i][2]]>>]
  BY DEF Actions
<1>3. \A x : x \in S <=> x[1] \in running /\ x[2] \in DOMAIN Msgs(x[1]) /\ x = <<x[1], x[2]>>
  OBVIOUS
<1> HIDE DEF Msgs
<1>4. IsFiniteSet(S)
  <2>1. IsFiniteSet(running)
    BY PlaybackAssumption, FS_Subset
  <2>2. IsFiniteSet(1 .. 2)
    <3>1. 1 \in Int /\ 2 \in Int
      OBVIOUS
    <3> QED BY <3>1, FS_Interval, Zenon
  <2>3. IsFiniteSet(running \X (1 .. 2))
    BY <2>1, <2>2, FS_Product
  <2>4. ASSUME NEW r \in running PROVE DOMAIN Msgs(r) \subseteq 1 .. 2
    <3>1. activity[r] \in Activities /\ Target(r) \in Activities
      BY TargetFact DEF PlaybackTypeOK
    <3> QED BY <3>1, MessagesLength DEF Msgs
  <2>5. S \subseteq running \X (1 .. 2)
    BY <2>4
  <2> QED BY <2>3, <2>5, FS_Subset
<1> HIDE DEF S
<1>5. s \in Seq(S) /\ ToSet(s) = S
  BY <1>2, <1>4, EnumeratedFact
<1>6. DOMAIN s = 1 .. Len(s) /\ Len(s) \in Nat /\ \A i \in 1 .. Len(s) : s[i] \in S
  BY <1>5, ElementOfSeq, LenProperties
<1>7. \A i \in 1 .. Len(s) : actions[i] = <<s[i][1], Msgs(s[i][1])[s[i][2]]>>
                            /\ actions[i] \in Renderer \X Message
  <2> TAKE i \in 1 .. Len(s)
  <2>1. s[i][1] \in running /\ s[i][2] \in DOMAIN Msgs(s[i][1])
    BY <1>3, <1>6
  <2>2. Msgs(s[i][1])[s[i][2]] \in Message
    BY <1>1, <2>1, ElementOfSeq, LenProperties
  <2> QED BY <1>2, <1>6, <2>1, <2>2
<1>8. actions \in Seq(Renderer \X Message) /\ DOMAIN actions = 1 .. Len(s)
  <2>1. actions \in [1 .. Len(s) -> Renderer \X Message]
    BY <1>2, <1>6, <1>7
  <2> QED BY <1>6, <2>1
<1>9. ASSUME NEW r, NEW msg, <<r, msg>> \in ToSet(actions)
      PROVE  r \in running /\ msg \in ToSet(Msgs(r))
  <2>1. PICK i \in 1 .. Len(s) : actions[i] = <<r, msg>>
    BY <1>8, <1>9 DEF ToSet
  <2>2. s[i][1] = r /\ Msgs(r)[s[i][2]] = msg
    BY <1>7, <2>1
  <2>3. s[i][1] \in running /\ s[i][2] \in DOMAIN Msgs(s[i][1])
    BY <1>3, <1>6
  <2> QED BY <2>2, <2>3 DEF ToSet
<1>10. ASSUME NEW r \in running, NEW msg \in ToSet(Msgs(r))
       PROVE  <<r, msg>> \in ToSet(actions)
  <2>1. PICK k \in DOMAIN Msgs(r) : Msgs(r)[k] = msg
    BY DEF ToSet
  <2>2. <<r, k>> \in S
    BY <1>3
  <2>3. PICK i \in 1 .. Len(s) : s[i] = <<r, k>>
    BY <1>5, <1>6, <2>2 DEF ToSet
  <2>4. actions[i] = <<r, msg>>
    BY <1>7, <2>1, <2>3
  <2> QED BY <1>8, <2>4 DEF ToSet
<1> QED BY <1>8, <1>9, <1>10 DEF Msgs

LEMMA TodoFact ==
  ASSUME NEW T, NEW s \in Seq(T), s # <<>>
  PROVE  Head(s) \in T /\ Tail(s) \in Seq(T) /\ ToSet(s) = {Head(s)} \cup ToSet(Tail(s))
<1>1. Head(s) \in T /\ Tail(s) \in Seq(T)
  BY HeadTailProperties
<1>2. Len(s) \in Nat \ {0} /\ DOMAIN s = 1 .. Len(s) /\ Head(s) = s[1]
  BY EmptySeq, LenProperties
<1>3. DOMAIN Tail(s) = 1 .. Len(s) - 1 /\ \A i \in 1 .. Len(s) - 1 : Tail(s)[i] = s[i + 1]
  BY <1>1, HeadTailProperties, LenProperties
<1>4. ToSet(s) \subseteq {Head(s)} \cup ToSet(Tail(s))
  <2> SUFFICES ASSUME NEW i \in 1 .. Len(s), i # 1 PROVE s[i] \in ToSet(Tail(s))
    BY <1>2 DEF ToSet
  <2>1. i - 1 \in 1 .. Len(s) - 1 /\ Tail(s)[i - 1] = s[i]
    BY <1>2, <1>3
  <2> QED BY <1>3, <2>1 DEF ToSet
<1>5. {Head(s)} \cup ToSet(Tail(s)) \subseteq ToSet(s)
  <2>1. Head(s) \in ToSet(s)
    BY <1>2 DEF ToSet
  <2>2. ASSUME NEW i \in 1 .. Len(s) - 1 PROVE s[i + 1] \in ToSet(s)
    BY <1>2 DEF ToSet
  <2> QED BY <1>3, <2>1, <2>2 DEF ToSet
<1> QED BY <1>1, <1>4, <1>5

\* One task goes on
Becomes(t, w) == task' = [task EXCEPT ![t] = w]

LEMMA RestFact ==
  /\ Rest.pc = "idle" /\ Rest.todo = <<>> /\ Rest.reg = {} /\ Rest.of = {}
  /\ Rest \in Work /\ \A t : Fitting(t, Rest)
  /\ \A x : [Rest EXCEPT !.pc = x] = [pc |-> x, todo |-> <<>>, reg |-> {}, of |-> {}]
  /\ \A x, y : /\ [Rest EXCEPT !.pc = x, !.reg = y] = [pc |-> x, todo |-> <<>>, reg |-> y, of |-> {}]
               /\ [Rest EXCEPT !.pc = x, !.of = y] = [pc |-> x, todo |-> <<>>, reg |-> {}, of |-> y]
<1>1. Rest.pc = "idle" /\ Rest.todo = <<>> /\ Rest.reg = {} /\ Rest.of = {}
  BY DEF Rest
<1>2. Rest \in Work
  <2>1. <<>> \in Seq(Renderer)
    OBVIOUS
  <2> QED BY <2>1 DEF Work, Rest
<1>3. \A t : Fitting(t, Rest)
  BY <1>1 DEF Fitting, Todo
<1>4. ASSUME NEW x, NEW y
      PROVE  /\ [Rest EXCEPT !.pc = x] = [pc |-> x, todo |-> <<>>, reg |-> {}, of |-> {}]
             /\ [Rest EXCEPT !.pc = x, !.reg = y] = [pc |-> x, todo |-> <<>>, reg |-> y, of |-> {}]
             /\ [Rest EXCEPT !.pc = x, !.of = y] = [pc |-> x, todo |-> <<>>, reg |-> {}, of |-> y]
  <2> DEFINE w == Rest
  <2>1. PICK a, b, c : b = <<>> /\ c = {} /\ w = [pc |-> a, todo |-> b, reg |-> c, of |-> c]
    BY DEF Rest
  <2> HIDE DEF w
  <2>2. [w EXCEPT !.pc = x] = [pc |-> x, todo |-> b, reg |-> c, of |-> c]
    <3>1. w = [pc |-> a, todo |-> b, reg |-> c, of |-> c]
      BY <2>1
    <3> QED BY <3>1
  <2>3. /\ [w EXCEPT !.pc = x, !.reg = y] = [[w EXCEPT !.pc = x] EXCEPT !.reg = y]
        /\ [w EXCEPT !.pc = x, !.of = y] = [[w EXCEPT !.pc = x] EXCEPT !.of = y]
    OBVIOUS
  <2>4. /\ [[pc |-> x, todo |-> b, reg |-> c, of |-> c] EXCEPT !.reg = y]
             = [pc |-> x, todo |-> b, reg |-> y, of |-> c]
        /\ [[pc |-> x, todo |-> b, reg |-> c, of |-> c] EXCEPT !.of = y]
             = [pc |-> x, todo |-> b, reg |-> c, of |-> y]
    OBVIOUS
  <2> QED BY <2>1, <2>2, <2>3, <2>4 DEF w
<1> QED BY <1>1, <1>2, <1>3, <1>4

LEMMA MoveFact ==
  ASSUME PlaybackTypeOK, NEW t \in PassTask, NEW w \in Work, Fitting(t, w), Becomes(t, w)
  PROVE  /\ task' \in [PassTask -> Work] /\ \A u \in PassTask : Fitting(u, task'[u])
         /\ task'[t] = w
         /\ \A u \in PassTask : u # t => task'[u] = task[u]
BY DEF PlaybackTypeOK, Becomes

\* What a task is while its messages do not matter
Step(t, pc) == [pc |-> pc, todo |-> <<>>, reg |-> task[t].reg, of |-> task[t].of]

LEMMA TodoTypes ==
  ASSUME PlaybackTypeOK, NEW t \in PassTask
  PROVE  /\ task[t] = [pc |-> task[t].pc, todo |-> task[t].todo, reg |-> task[t].reg, of |-> task[t].of]
         /\ task[t].reg \subseteq Renderer /\ task[t].of \subseteq Renderer
         /\ task[t].pc \in Sending => task[t].todo \in Seq(Renderer \X Message)
         /\ task[t].pc \in {"clear", "schedule"} => Resuming(task[t].todo)
         /\ task[t].pc = "ask" => task[t].todo \in Seq(Renderer)
         /\ task[t].pc \notin Sending \cup {"ask"} => task[t].todo = <<>>
<1>1. task[t] \in Work /\ Fitting(t, task[t])
  BY DEF PlaybackTypeOK
<1>2. task[t] = [pc |-> task[t].pc, todo |-> task[t].todo, reg |-> task[t].reg, of |-> task[t].of]
      /\ task[t].reg \subseteq Renderer /\ task[t].of \subseteq Renderer
  BY <1>1 DEF Work
<1>3. task[t].todo \in Todo(task[t].pc)
  BY <1>1 DEF Fitting
<1> QED BY <1>2, <1>3 DEF Todo, Sending

LEMMA GoesFact ==
  ASSUME PlaybackTypeOK, NEW t \in PassTask, NEW x, NEW y
  PROVE  /\ task' = [task EXCEPT ![t].pc = x] =>
              Becomes(t, [pc |-> x, todo |-> task[t].todo, reg |-> task[t].reg, of |-> task[t].of])
         /\ task' = [task EXCEPT ![t].todo = y] =>
              Becomes(t, [pc |-> task[t].pc, todo |-> y, reg |-> task[t].reg, of |-> task[t].of])
         /\ task' = [task EXCEPT ![t].pc = x, ![t].todo = y] =>
              Becomes(t, [pc |-> x, todo |-> y, reg |-> task[t].reg, of |-> task[t].of])
         /\ task' = [task EXCEPT ![t].pc = x, ![t].of = y] =>
              Becomes(t, [pc |-> x, todo |-> task[t].todo, reg |-> task[t].reg, of |-> y])
<1> DEFINE w == task[t]
<1>1. w = [pc |-> w.pc, todo |-> w.todo, reg |-> w.reg, of |-> w.of]
  BY TodoTypes
<1>2. /\ [w EXCEPT !.pc = x] = [pc |-> x, todo |-> w.todo, reg |-> w.reg, of |-> w.of]
      /\ [w EXCEPT !.todo = y] = [pc |-> w.pc, todo |-> y, reg |-> w.reg, of |-> w.of]
      /\ [w EXCEPT !.pc = x, !.todo = y] = [pc |-> x, todo |-> y, reg |-> w.reg, of |-> w.of]
      /\ [w EXCEPT !.pc = x, !.of = y] = [pc |-> x, todo |-> w.todo, reg |-> w.reg, of |-> y]
  <2> HIDE DEF w
  <2>1. PICK a, b, c, e : w = [pc |-> a, todo |-> b, reg |-> c, of |-> e]
    BY <1>1
  <2>2. w.pc = a /\ w.todo = b /\ w.reg = c /\ w.of = e
    BY <2>1
  <2>3. [w EXCEPT !.pc = x] = [pc |-> x, todo |-> b, reg |-> c, of |-> e]
    BY <2>1
  <2>4. [w EXCEPT !.todo = y] = [pc |-> a, todo |-> y, reg |-> c, of |-> e]
    BY <2>1
  <2>5. /\ [w EXCEPT !.pc = x, !.todo = y] = [[w EXCEPT !.pc = x] EXCEPT !.todo = y]
        /\ [w EXCEPT !.pc = x, !.of = y] = [[w EXCEPT !.pc = x] EXCEPT !.of = y]
    OBVIOUS
  <2>6. /\ [[pc |-> x, todo |-> b, reg |-> c, of |-> e] EXCEPT !.todo = y]
             = [pc |-> x, todo |-> y, reg |-> c, of |-> e]
        /\ [[pc |-> x, todo |-> b, reg |-> c, of |-> e] EXCEPT !.of = y]
             = [pc |-> x, todo |-> b, reg |-> c, of |-> y]
    OBVIOUS
  <2> QED BY <2>2, <2>3, <2>4, <2>5, <2>6
<1>3. task \in [PassTask -> Work]
  BY DEF PlaybackTypeOK
<1> QED BY <1>2, <1>3 DEF Becomes

LEMMA DecidedStays ==
  ASSUME UNCHANGED <<wish, shown, stale, activity>>, DecidedInv,
         \A t \in PassTask : task[t].pc \in Deciding => task'[t].pc \in Deciding
  PROVE  DecidedInv'
<1>1. \A r : Target(r)' = Target(r)
  BY DEF Target, PlaybackDemand, FrameDemand, GlobalPaused, Paused, Enabled
<1> QED BY <1>1 DEF DecidedInv

LEMMA StartKeeps ==
  ASSUME \A t \in PassTask : task'[t].pc \in {"spawn", "register"} => task'[t] = task[t],
         \A r \in Renderer : activity[r] = "none" => activity'[r] = "none",
         StartInv
  PROVE  StartInv'
<1>1. \A t \in PassTask, r \in Renderer : Starts(t, r)' => Starts(t, r) /\ task'[t] = task[t]
  BY DEF Starts
<1> QED BY <1>1 DEF StartInv

LEMMA PoolKeeps ==
  ASSUME PlaybackTypeOK, UNCHANGED stale,
         \A d \in LinkedDisplay : shown'[d] # "unbound" => shown[d] # "unbound",
         \A r \in Renderer : activity[r] # "none" /\ proc[r].pool => activity'[r] # "none" /\ proc'[r].pool,
         task[Host].pc = "sync" => task'[Host].pc = "sync" /\ task'[Host].of = task[Host].of,
         PoolInv
  PROVE  PoolInv'
BY PlaybackAssumption DEF PoolInv, PlaybackTypeOK

LEMMA FreshKeeps ==
  ASSUME PlaybackTypeOK, UNCHANGED misled, StartInv, FreshInv,
         \A t \in PassTask : task'[t].pc = "register" => task'[t] = task[t],
         \A r \in Renderer :
           activity[r] = "none" /\ proc'[r].up /\ (\A msg \in Message : ~Untold(r, msg)) =>
             proc'[r] = proc[r],
         \A r \in Renderer : \A msg \in Message :
           activity[r] = "none" /\ Untold(r, msg)' => Untold(r, msg)
  PROVE  FreshInv'
<1> SUFFICES ASSUME NEW t \in PassTask, task'[t].pc = "register", NEW r \in task'[t].of \ misled'
             PROVE  /\ proc'[r].up => proc'[r] = Fresh
                    /\ \A msg \in Message : ~Untold(r, msg)'
  BY DEF FreshInv
<1>1. task[t].pc = "register" /\ r \in task[t].of \ misled /\ r \in Renderer
  BY DEF PlaybackTypeOK, Work
<1>2. activity[r] = "none"
  BY <1>1 DEF StartInv, Starts
<1>3. /\ proc[r].up => proc[r] = Fresh
      /\ \A msg \in Message : ~Untold(r, msg)
  BY <1>1 DEF FreshInv
<1> QED BY <1>1, <1>2, <1>3

\* A task that has no messages before and after
LEMMA QuietFact ==
  ASSUME PlaybackTypeOK, NEW t \in PassTask, NEW w \in Work, Fitting(t, w), Becomes(t, w),
         task[t].pc \notin Sending, w.pc \notin Sending
  PROVE  /\ \A r, msg : Untold(r, msg)' <=> Untold(r, msg)
         /\ task[t].pc # "ask" => \A d : \A u \in PassTask : Asks(u, d) => Asks(u, d)'
<1>1. \A u \in PassTask : \A r, msg : Tells(u, r, msg)' <=> Tells(u, r, msg)
  BY MoveFact DEF Tells
<1>2. \A r, msg : Untold(r, msg)' <=> Untold(r, msg)
  BY <1>1 DEF Untold
<1>3. ASSUME task[t].pc # "ask", NEW d, NEW u \in PassTask, Asks(u, d) PROVE Asks(u, d)'
  BY <1>3, MoveFact DEF Asks
<1> QED BY <1>2, <1>3

LEMMA ChangeTypes ==
  ASSUME PlaybackTypeOK, NEW t \in Caller, Change(t)
  PROVE  /\ PlaybackTypeOK'
         /\ t \in PassTask /\ \E w \in Work : Fitting(t, w) /\ Becomes(t, w) /\ w.pc \in {"sync", "lock"}
<1>1. PICK w \in ChangedWishes :
        /\ wish' = w
        /\ resume' = (resume \ Held(w)) \cup Resumed(w)
        /\ owed' = (owed \ Held(w)) \cup Resumed(w)
        /\ task' = [task EXCEPT ![t].pc = IF w.off # wish.off THEN "sync" ELSE "lock",
                                ![t].of = {RendererOf[d] : d \in SymDiff(w.off, wish.off)}]
  BY DEF Change
<1>2. t \in PassTask /\ t # Host /\ task[t] = Rest
  BY TasksFact DEF Change
<1>3. wish' \in [global : BOOLEAN, mute : BOOLEAN, renderers : SUBSET Renderer,
                 displays : SUBSET LinkedDisplay, off : SUBSET LinkedDisplay]
  <2>1. wish \in [global : BOOLEAN, mute : BOOLEAN, renderers : SUBSET Renderer,
                  displays : SUBSET LinkedDisplay, off : SUBSET LinkedDisplay]
    BY DEF PlaybackTypeOK
  <2>2. \A S, x, T : S \subseteq T /\ x \in T => Flip(S, x) \subseteq T
    BY DEF Flip
  <2>3. CASE w = [wish EXCEPT !.global = ~@]
    BY <1>1, <2>1, <2>3
  <2>4. CASE w = [wish EXCEPT !.mute = ~@]
    BY <1>1, <2>1, <2>4
  <2>5. CASE \E r \in Renderer : w = [wish EXCEPT !.renderers = Flip(@, r)]
    BY <1>1, <2>1, <2>2, <2>5
  <2>6. CASE \E d \in LinkedDisplay : w = [wish EXCEPT !.displays = Flip(@, d)]
    BY <1>1, <2>1, <2>2, <2>6
  <2>7. CASE \E d \in LinkedDisplay : w = [wish EXCEPT !.off = Flip(@, d)]
    BY <1>1, <2>1, <2>2, <2>7
  <2> QED BY <1>1, <2>3, <2>4, <2>5, <2>6, <2>7 DEF ChangedWishes
<1> DEFINE pc == IF w.off # wish.off THEN "sync" ELSE "lock"
           of == {RendererOf[d] : d \in SymDiff(w.off, wish.off)}
           n == [pc |-> pc, todo |-> <<>>, reg |-> {}, of |-> of]
<1>4. n \in Work /\ Fitting(t, n) /\ n.pc \in {"sync", "lock"}
  <2>1. of \subseteq Renderer
    BY <1>1, <1>3, PlaybackAssumption DEF SymDiff, PlaybackTypeOK
  <2> HIDE DEF of
  <2>2. n.todo \in Todo(n.pc) /\ <<>> \in Seq(Renderer)
    BY DEF Todo
  <2> QED BY <2>1, <2>2 DEF Work, Fitting, Deciding
<1>5. Becomes(t, n)
  <2>1. task' = [task EXCEPT ![t].pc = pc, ![t].of = of]
    BY <1>1
  <2> HIDE DEF pc, of
  <2>2. task[t].todo = <<>> /\ task[t].reg = {}
    BY <1>2, RestFact
  <2> QED BY <1>2, <2>1, <2>2, GoesFact
<1>6. task' \in [PassTask -> Work] /\ \A u \in PassTask : Fitting(u, task'[u])
  BY <1>2, <1>4, <1>5, MoveFact
<1>7. resume' \subseteq LinkedDisplay /\ owed' \subseteq LinkedDisplay
  BY <1>1 DEF PlaybackTypeOK, Resumed
<1>8. wishChanges' \in 0 .. MaxChanges
  BY PlaybackAssumption DEF PlaybackTypeOK, Change
<1>9. UNCHANGED <<shown, stale, activity, resumeRetry, retrier, lifecycleLock, proc, misled, deaths>>
  BY DEF Change, bindings, slots
<1>10. PlaybackTypeOK'
  BY <1>3, <1>6, <1>7, <1>8, <1>9 DEF PlaybackTypeOK
<1> QED BY <1>2, <1>4, <1>5, <1>10

LEMMA ChangeInv ==
  ASSUME PlaybackTypeOK, NEW t \in Caller, Change(t)
  PROVE  DecidedInv' /\ (PlaybackInv => PlaybackInv')
<1>1. PICK n \in Work : Fitting(t, n) /\ Becomes(t, n) /\ n.pc \in {"sync", "lock"}
  BY ChangeTypes
<1>2. t \in PassTask /\ t # Host /\ task[t] = Rest
  BY TasksFact DEF Change
<1>3. task'[t] = n /\ \A u \in PassTask : u # t => task'[u] = task[u]
  BY <1>1, <1>2, MoveFact
<1>4. UNCHANGED <<shown, stale, activity, resumeRetry, retrier, lifecycleLock, proc, misled>>
  BY DEF Change, bindings, slots
<1>5. task[t].pc = "idle" /\ n.pc \notin Sending /\ n.pc \in Deciding /\ n.pc \notin Holding
      /\ task[t].pc \notin Sending /\ task'[t].pc \in Deciding
  BY <1>1, <1>2, <1>3 DEF Rest, Sending, Deciding, Holding
<1>6. /\ \A r, msg : Untold(r, msg)' <=> Untold(r, msg)
      /\ \A d : \A u \in PassTask : Asks(u, d) => Asks(u, d)'
  BY <1>1, <1>2, <1>5, QuietFact
<1>7. DecidedInv'
  BY <1>2, <1>5 DEF DecidedInv
<1>8. LockInv => LockInv'
  BY <1>3, <1>4, <1>5 DEF LockInv
<1>9. RetryInv => RetryInv'
  BY <1>1, <1>3, <1>4 DEF RetryInv, Heard, Retried
<1>10. /\ StartInv => StartInv'
       /\ PoolInv => PoolInv'
       /\ StartInv /\ FreshInv => FreshInv'
  <2>1. \A u \in PassTask : task'[u].pc \in {"spawn", "register"} => task'[u] = task[u]
    BY <1>1, <1>3
  <2>2. task'[Host] = task[Host]
    BY <1>2, <1>3, TasksFact
  <2> QED BY <1>4, <1>6, <2>1, <2>2, StartKeeps, PoolKeeps, FreshKeeps
<1>11. ToldInv => ToldInv'
  <2>1. \A r : Greeted(r) => Greeted(r)'
    BY <1>2, <1>3, <1>5 DEF Greeted
  <2> QED BY <1>4, <1>6, <2>1 DEF ToldInv, Obeys
<1>12. ASSUME OwedInv PROVE OwedInv'
  <2>1. PICK w \in ChangedWishes :
          /\ wish' = w
          /\ resume' = (resume \ Held(w)) \cup Resumed(w)
          /\ owed' = (owed \ Held(w)) \cup Resumed(w)
    BY DEF Change
  <2>2. \A d \in resume' \cup owed' : ~Paused(d, wish')
    <3> TAKE d \in resume' \cup owed'
    <3>1. CASE d \in Resumed(w)
      BY <2>1, <3>1 DEF Resumed
    <3>2. CASE d \notin Resumed(w)
      <4>1. d \in resume \cup owed /\ d \notin Held(w) /\ d \in LinkedDisplay
        BY <2>1, <3>2 DEF PlaybackTypeOK
      <4>2. ~Paused(d, wish)
        BY <1>12, <4>1 DEF OwedInv
      <4> QED BY <2>1, <4>1, <4>2 DEF Held
    <3> QED BY <3>1, <3>2
  <2>3. ASSUME NEW d \in owed'
        PROVE  d \in resume' \/ (\E u \in PassTask : Asks(u, d)') \/ Excused(d)'
    <3>1. CASE d \in Resumed(w)
      BY <2>1, <3>1
    <3>2. CASE d \notin Resumed(w)
      BY <1>4, <1>6, <1>12, <2>1, <3>2 DEF OwedInv, Excused
    <3> QED BY <3>1, <3>2
  <2>4. \E u \in PassTask : task'[u].pc \in Deciding \cup Sending
    BY <1>2, <1>5
  <2> QED BY <2>2, <2>3, <2>4 DEF OwedInv
<1> QED BY <1>7, <1>8, <1>9, <1>10, <1>11, <1>12 DEF PlaybackInv

LEMMA BindingsType ==
  ASSUME PlaybackTypeOK, NEW R
  PROVE  /\ Bindings(R) \in [LinkedDisplay -> {"unbound", "awaiting", "shown"}]
         /\ \A d \in LinkedDisplay :
              LET r == RendererOf[d]
                  there == Enabled(d) /\ activity[r] # "none" /\ proc[r].pool
              IN  /\ r \notin R => Bindings(R)[d] = shown[d]
                  /\ r \in R /\ ~there => Bindings(R)[d] = "unbound"
                  /\ Bindings(R)[d] = "shown" => shown[d] = "shown"
                  /\ there /\ shown[d] = "shown" /\ d \notin stale => Bindings(R)[d] = "shown"
BY PlaybackAssumption DEF PlaybackTypeOK, Bindings

\* A renderer just registered has its displays bound, which changes no wish
LEMMA RebindDecided ==
  ASSUME PlaybackTypeOK, DecidedInv, PoolInv, NEW R, UNCHANGED <<wish, activity>>, shown' = Bindings(R),
         \A t \in PassTask : task[t].pc \in Deciding => task'[t].pc \in Deciding
  PROVE  DecidedInv'
<1>1. CASE \E t \in PassTask : task[t].pc \in Deciding
  BY <1>1 DEF DecidedInv
<1>2. CASE \A t \in PassTask : task[t].pc \notin Deciding
  <2>1. stale = {}
    BY <1>2, TasksFact DEF PoolInv, Deciding
  <2>2. ASSUME NEW d \in LinkedDisplay PROVE PlaybackDemand(d)' <=> PlaybackDemand(d)
    <3>1. (Enabled(d)' <=> Enabled(d)) /\ (Paused(d, wish)' <=> Paused(d, wish))
          /\ (GlobalPaused(d, wish)' <=> GlobalPaused(d, wish))
      BY DEF Enabled, Paused, GlobalPaused
    <3>2. Enabled(d) => (shown'[d] = "shown" <=> shown[d] = "shown")
      BY <2>1, BindingsType DEF PoolInv
    <3> QED BY <3>1, <3>2 DEF PlaybackDemand, FrameDemand
  <2>3. \A r : Target(r)' = Target(r)
    BY <2>2 DEF Target
  <2> QED BY <1>2, <2>3 DEF DecidedInv
<1> QED BY <1>1, <1>2

LEMMA SyncInv ==
  ASSUME PlaybackTypeOK, NEW t \in PassTask, Sync(t)
  PROVE  PlaybackTypeOK' /\ (PlaybackInv /\ DecidedInv => PlaybackInv' /\ DecidedInv')
<1>1. task[t].pc \in {"sync", "rebind"} /\ task[t].todo = <<>>
  BY TodoTypes DEF Sync, Sending
<1>2. PICK n \in Work :
        /\ Fitting(t, n) /\ Becomes(t, n) /\ n.todo = <<>> /\ n.reg = {} /\ n.of = {}
        /\ \/ n.pc = "lock"
           \/ n.pc = "idle" /\ task[t].pc = "rebind"
  <2>1. CASE task[t].pc = "sync"
    <3> DEFINE n == [pc |-> "lock", todo |-> <<>>, reg |-> {}, of |-> {}]
    <3>1. n \in Work /\ Fitting(t, n)
      <4>1. n.todo \in Todo(n.pc) /\ <<>> \in Seq(Renderer)
        BY DEF Todo
      <4> QED BY <4>1 DEF Work, Fitting, Deciding
    <3>2. Becomes(t, n)
      BY <2>1, RestFact DEF Sync, Becomes
    <3> QED BY <3>1, <3>2
  <2>2. CASE task[t].pc = "rebind"
    BY <2>2, RestFact DEF Sync, Becomes
  <2> QED BY <1>1, <2>1, <2>2
<1>3. /\ task' \in [PassTask -> Work] /\ \A u \in PassTask : Fitting(u, task'[u])
      /\ task'[t] = n /\ \A u \in PassTask : u # t => task'[u] = task[u]
  BY <1>2, MoveFact
<1>4. UNCHANGED <<wish, wishChanges, resume, activity, resumeRetry, retrier, lifecycleLock, proc, misled, deaths>>
  BY DEF Sync, wishes, slots
<1> DEFINE R == task[t].of
<1>5. /\ shown' = Bindings(R) /\ stale' = {d \in stale : RendererOf[d] \notin R}
      /\ owed' = {d \in owed : shown[d] = shown'[d] /\ d \notin stale \ stale'}
  BY DEF Sync, SyncDisplays
<1>6. PlaybackTypeOK'
  <2>1. shown' \in [LinkedDisplay -> {"unbound", "awaiting", "shown"}]
        /\ stale' \subseteq LinkedDisplay /\ owed' \subseteq LinkedDisplay
    BY <1>5, BindingsType DEF PlaybackTypeOK
  <2> QED BY <1>3, <1>4, <2>1 DEF PlaybackTypeOK
<1> SUFFICES ASSUME PlaybackInv, DecidedInv PROVE PlaybackInv' /\ DecidedInv'
  BY <1>6
<1>7. LockInv /\ StartInv /\ PoolInv /\ RetryInv /\ FreshInv /\ ToldInv /\ OwedInv
  BY DEF PlaybackInv
<1>8. /\ n.pc \notin Sending \cup Holding \cup {"spawn", "register", "clear", "schedule", "sync"}
      /\ task[t].pc \notin Sending \cup Holding \cup {"ask", "lock", "decide"}
      /\ task[t].pc \in Deciding => task'[t].pc \in Deciding
  BY <1>1, <1>2, <1>3 DEF Sending, Deciding, Holding
<1>9. /\ \A r, msg : Untold(r, msg)' <=> Untold(r, msg)
      /\ \A d : \A u \in PassTask : Asks(u, d) => Asks(u, d)'
  BY <1>1, <1>2, <1>8, QuietFact
<1>10. DecidedInv'
  BY <1>3, <1>4, <1>5, <1>7, <1>8, RebindDecided
<1>11. LockInv'
  BY <1>3, <1>4, <1>7, <1>8 DEF LockInv
<1>12. \A u \in PassTask : task'[u].pc \in {"spawn", "register"} => task'[u] = task[u]
  BY <1>3, <1>8
<1>13. StartInv' /\ FreshInv'
  BY <1>4, <1>7, <1>9, <1>12, StartKeeps, FreshKeeps
<1>14. PoolInv'
  <2>1. ASSUME NEW d \in LinkedDisplay, shown'[d] # "unbound"
        PROVE  d \in stale' \/ (activity'[RendererOf[d]] # "none" /\ proc'[RendererOf[d]].pool)
    <3>1. CASE RendererOf[d] \in R
      BY <1>4, <1>5, <2>1, <3>1, BindingsType
    <3>2. CASE RendererOf[d] \notin R
      BY <1>4, <1>5, <1>7, <2>1, <3>2, BindingsType DEF PoolInv
    <3> QED BY <3>1, <3>2
  <2>2. ASSUME NEW d \in stale'
        PROVE  task'[Host].pc = "sync" /\ RendererOf[d] \in task'[Host].of
    <3>1. task[Host].pc = "sync" /\ RendererOf[d] \in task[Host].of /\ RendererOf[d] \notin R
      BY <1>5, <1>7, <2>2 DEF PoolInv
    <3> QED BY <1>3, <3>1, TasksFact
  <2> QED BY <2>1, <2>2 DEF PoolInv
<1>15. RetryInv'
  BY <1>3, <1>4, <1>7, <1>8 DEF RetryInv, Heard, Retried
<1>16. ToldInv'
  <2>1. \A r : Greeted(r) => Greeted(r)'
    BY <1>3, <1>8 DEF Greeted
  <2> QED BY <1>4, <1>7, <1>9, <2>1 DEF ToldInv, Obeys
<1>17. OwedInv'
  <2>1. \A d : (Paused(d, wish)' <=> Paused(d, wish)) /\ (Enabled(d)' <=> Enabled(d))
    BY <1>4 DEF Paused, GlobalPaused, Enabled
  <2>2. \A u \in PassTask : task[u].pc \in Deciding \cup Sending => task'[u].pc \in Deciding \cup Sending
    BY <1>3, <1>8
  <2>3. \A d \in owed' : d \in owed /\ (Excused(d) => Excused(d)')
    BY <1>4, <1>5 DEF Excused
  <2> QED BY <1>4, <1>5, <1>7, <1>9, <2>1, <2>2, <2>3 DEF OwedInv
<1> QED BY <1>10, <1>11, <1>13, <1>14, <1>15, <1>16, <1>17 DEF PlaybackInv

LEMMA AcquireLockInv ==
  ASSUME PlaybackTypeOK, NEW t \in PassTask, AcquireLock(t)
  PROVE  PlaybackTypeOK' /\ DecidedInv' /\ (PlaybackInv => PlaybackInv')
<1> DEFINE n == [pc |-> "decide", todo |-> task[t].todo, reg |-> task[t].reg, of |-> task[t].of]
<1>1. task[t].pc = "lock" /\ task[t].todo = <<>> /\ lifecycleLock = Nobody /\ lifecycleLock' = t
  BY TodoTypes DEF AcquireLock, Sending
<1>2. n \in Work /\ Fitting(t, n) /\ n.pc = "decide"
  BY <1>1, TodoTypes DEF Work, Fitting, Todo, Sending, Holding, PlaybackTypeOK
<1>3. Becomes(t, n)
  BY GoesFact DEF AcquireLock
<1>4. /\ task' \in [PassTask -> Work] /\ \A u \in PassTask : Fitting(u, task'[u])
      /\ task'[t] = n /\ \A u \in PassTask : u # t => task'[u] = task[u]
  BY <1>2, <1>3, MoveFact
<1>5. UNCHANGED <<wish, wishChanges, shown, stale, resume, activity, resumeRetry, retrier, proc, owed, misled, deaths>>
  BY DEF AcquireLock, wishes, bindings, slots
<1>6. PlaybackTypeOK'
  BY <1>1, <1>4, <1>5 DEF PlaybackTypeOK
<1>7. n.pc \notin Sending /\ n.pc \in Deciding /\ task[t].pc \notin Sending
      /\ task'[t].pc = "decide" /\ task'[t].of = task[t].of /\ task'[t].reg = task[t].reg
  BY <1>1, <1>2, <1>4 DEF Sending, Deciding
<1> HIDE DEF n
<1>8. /\ \A r, msg : Untold(r, msg)' <=> Untold(r, msg)
      /\ \A d : \A u \in PassTask : Asks(u, d) => Asks(u, d)'
  BY <1>1, <1>2, <1>3, <1>7, QuietFact
<1>9. DecidedInv'
  BY <1>7, <1>4 DEF DecidedInv
<1>10. LockInv => LockInv'
  BY <1>1, <1>4, <1>5, TasksFact DEF LockInv
<1>11. RetryInv => RetryInv'
  BY <1>7, <1>4, <1>5 DEF RetryInv, Heard, Retried
<1>12. /\ StartInv => StartInv'
       /\ PoolInv => PoolInv'
       /\ StartInv /\ FreshInv => FreshInv'
  <2>1. \A u \in PassTask : task'[u].pc \in {"spawn", "register"} => task'[u] = task[u]
    BY <1>4, <1>7
  <2>2. task[Host].pc = "sync" => task'[Host] = task[Host]
    BY <1>1, <1>4, TasksFact
  <2> QED BY <1>5, <1>8, <2>1, <2>2, StartKeeps, PoolKeeps, FreshKeeps
<1>13. ToldInv => ToldInv'
  <2>1. \A r : Greeted(r) => Greeted(r)'
    BY <1>4, <1>7 DEF Greeted
  <2> QED BY <1>5, <1>8, <2>1 DEF ToldInv, Obeys
<1>14. ASSUME OwedInv PROVE OwedInv'
  <2>1. \A d : Paused(d, wish)' <=> Paused(d, wish)
    BY <1>5 DEF Paused, GlobalPaused
  <2>2. \E u \in PassTask : task'[u].pc \in Deciding \cup Sending
    BY <1>4, <1>7
  <2> QED BY <1>5, <1>8, <1>14, <2>1, <2>2 DEF OwedInv, Excused
<1> QED BY <1>6, <1>9, <1>10, <1>11, <1>12, <1>13, <1>14 DEF PlaybackInv

LEMMA EndPassInv ==
  ASSUME PlaybackTypeOK, NEW t \in PassTask, EndPass(t)
  PROVE  PlaybackTypeOK' /\ (DecidedInv => DecidedInv') /\ (PlaybackInv => PlaybackInv')
<1>1. task[t].pc = "ask" /\ task[t].todo = <<>> /\ lifecycleLock' = Nobody
  BY DEF EndPass
<1>2. PICK n \in Work : /\ Fitting(t, n) /\ Becomes(t, n) /\ n.pc \in {"idle", "rebind"}
                        /\ n.todo = <<>> /\ n.reg = {}
  <2>1. CASE task[t].reg = {}
    BY <2>1, RestFact DEF EndPass, Becomes
  <2>2. CASE task[t].reg # {}
    <3> DEFINE n == [pc |-> "rebind", todo |-> <<>>, reg |-> {}, of |-> task[t].reg]
    <3>1. n \in Work /\ Fitting(t, n)
      <4>1. n.todo \in Todo(n.pc)
        BY DEF Todo
      <4>2. task[t].reg \subseteq Renderer
        BY TodoTypes
      <4>3. <<>> \in Seq(Renderer)
        OBVIOUS
      <4> QED BY <4>1, <4>2, <4>3 DEF Work, Fitting
    <3>2. Becomes(t, n)
      <4>1. task' = [task EXCEPT ![t] = [Rest EXCEPT !.pc = "rebind", !.of = task[t].reg]]
        BY <2>2 DEF EndPass
      <4> QED BY <4>1, RestFact DEF Becomes
    <3> QED BY <3>1, <3>2
  <2> QED BY <2>1, <2>2
<1>3. /\ task' \in [PassTask -> Work] /\ \A u \in PassTask : Fitting(u, task'[u])
      /\ task'[t] = n /\ \A u \in PassTask : u # t => task'[u] = task[u]
  BY <1>2, MoveFact
<1>4. UNCHANGED <<wish, wishChanges, shown, stale, resume, activity, resumeRetry, retrier, proc, owed, misled, deaths>>
  BY DEF EndPass, wishes, bindings, slots
<1>5. PlaybackTypeOK'
  BY <1>1, <1>3, <1>4 DEF PlaybackTypeOK
<1>6. n.pc \notin Sending \cup Deciding \cup Holding /\ n.pc # "register" /\ n.pc # "sync"
      /\ task[t].pc \notin Sending \cup Deciding /\ task[t].pc \in Holding
  BY <1>1, <1>2 DEF Sending, Deciding, Holding
<1>7. \A r, msg : Untold(r, msg)' <=> Untold(r, msg)
  BY <1>2, <1>6, QuietFact
<1>8. DecidedInv => DecidedInv'
  BY <1>3, <1>4, <1>6, DecidedStays
<1>9. ASSUME LockInv PROVE LockInv'
  <2>1. lifecycleLock = t
    BY <1>6, <1>9 DEF LockInv
  <2>2. \A u \in PassTask : task'[u].pc \notin Holding
    BY <1>3, <1>6, <1>9, <2>1 DEF LockInv
  <2>3. \A r \in Renderer : retrier'[r] # "send"
    BY <1>4, <1>9, <2>1, TasksFact DEF LockInv
  <2> QED BY <2>2, <2>3 DEF LockInv
<1>10. RetryInv => RetryInv'
  BY <1>2, <1>3, <1>4 DEF RetryInv, Heard, Retried
<1>11. /\ StartInv => StartInv'
       /\ PoolInv => PoolInv'
       /\ StartInv /\ FreshInv => FreshInv'
  <2>1. \A u \in PassTask : task'[u].pc \in {"spawn", "register"} => task'[u] = task[u]
    BY <1>2, <1>3
  <2>2. task[Host].pc = "sync" => task'[Host] = task[Host]
    BY <1>1, <1>3, TasksFact
  <2> QED BY <1>4, <1>7, <2>1, <2>2, StartKeeps, PoolKeeps, FreshKeeps
<1>12. ToldInv => ToldInv'
  <2>1. \A r : Greeted(r) => Greeted(r)'
    BY <1>1, <1>3 DEF Greeted
  <2> QED BY <1>4, <1>7, <2>1 DEF ToldInv, Obeys
<1>13. ASSUME OwedInv PROVE OwedInv'
  <2>1. \A d : (Paused(d, wish)' <=> Paused(d, wish)) /\ (Enabled(d)' <=> Enabled(d))
    BY <1>4 DEF Paused, GlobalPaused, Enabled
  <2>2. \A d : \A u \in PassTask : Asks(u, d) => Asks(u, d)'
    BY <1>1, <1>3 DEF Asks, ToSet
  <2>3. \A u \in PassTask : task[u].pc \in Deciding \cup Sending => task'[u].pc \in Deciding \cup Sending
    BY <1>3, <1>6
  <2> QED BY <1>4, <1>13, <2>1, <2>2, <2>3 DEF OwedInv, Excused
<1> QED BY <1>5, <1>8, <1>9, <1>10, <1>11, <1>12, <1>13 DEF PlaybackInv

LEMMA ConsumeInv ==
  ASSUME PlaybackTypeOK, NEW t \in PassTask, Consume(t)
  PROVE  PlaybackTypeOK' /\ (DecidedInv => DecidedInv') /\ (PlaybackInv => PlaybackInv')
<1> DEFINE asked == {d \in resume : FrameDemand(d)}
           R == {RendererOf[d] : d \in asked}
           n == [pc |-> "ask", todo |-> SetToSeq(R), reg |-> task[t].reg, of |-> task[t].of]
<1>1. /\ task[t].pc = "send" /\ task[t].todo = <<>> /\ resume' = resume \ asked
      /\ task' = [task EXCEPT ![t].pc = "ask", ![t].todo = SetToSeq(R)]
  BY DEF Consume
<1>2. R \subseteq Renderer /\ SetToSeq(R) \in Seq(Renderer) /\ ToSet(SetToSeq(R)) = R
  <2>1. R \subseteq Renderer
    BY PlaybackAssumption DEF PlaybackTypeOK
  <2>2. IsFiniteSet(R)
    BY <2>1, PlaybackAssumption, FS_Subset
  <2> HIDE DEF R
  <2>3. SetToSeq(R) \in Seq(R) /\ ToSet(SetToSeq(R)) = R
    BY <2>2, ChosenFact
  <2> QED BY <2>1, <2>3
<1>3. n \in Work /\ Fitting(t, n)
  <2>1. task[t].reg \subseteq Renderer /\ task[t].of \subseteq Renderer
        /\ (t \notin Starter => task[t].reg = {})
    BY TodoTypes DEF PlaybackTypeOK, Fitting
  <2> HIDE DEF R
  <2> QED BY <1>2, <2>1 DEF Work, Fitting, Todo, Sending, Holding
<1>4. Becomes(t, n)
  BY <1>1, GoesFact
<1>5. /\ task' \in [PassTask -> Work] /\ \A u \in PassTask : Fitting(u, task'[u])
      /\ task'[t] = n /\ \A u \in PassTask : u # t => task'[u] = task[u]
  BY <1>3, <1>4, MoveFact
<1>6. UNCHANGED <<wish, wishChanges, shown, stale, activity, resumeRetry, retrier, lifecycleLock, proc, owed, misled, deaths>>
  BY DEF Consume, wishes, bindings, slots
<1>7. PlaybackTypeOK'
  <2>1. resume' \subseteq LinkedDisplay
    BY <1>1 DEF PlaybackTypeOK
  <2> QED BY <1>5, <1>6, <2>1 DEF PlaybackTypeOK
<1>8. /\ n.pc = "ask" /\ n.of = task[t].of /\ n.reg = task[t].reg /\ n.todo = SetToSeq(R)
      /\ task[t].pc \notin Deciding /\ n.pc \notin Sending /\ task[t].pc \in Holding
  BY <1>1 DEF Sending, Deciding, Holding
<1> HIDE DEF n
<1>9. \A r, msg : Untold(r, msg)' <=> Untold(r, msg)
  <2>1. \A r, msg : ~Tells(t, r, msg) /\ ~Tells(t, r, msg)'
    <3>1. ToSet(<<>>) = {}
      BY DEF ToSet
    <3> QED BY <1>1, <1>5, <1>8, <3>1 DEF Tells
  <2>2. \A u \in PassTask : \A r, msg : Tells(u, r, msg)' <=> Tells(u, r, msg)
    BY <1>5, <2>1 DEF Tells
  <2> QED BY <2>2 DEF Untold
<1>10. DecidedInv => DecidedInv'
  BY <1>5, <1>6, <1>8, DecidedStays
<1>11. LockInv => LockInv'
  BY <1>5, <1>6, <1>8 DEF LockInv
<1>12. RetryInv => RetryInv'
  BY <1>5, <1>6, <1>8 DEF RetryInv, Heard, Retried
<1>13. /\ StartInv => StartInv'
       /\ PoolInv => PoolInv'
       /\ StartInv /\ FreshInv => FreshInv'
  <2>1. \A u \in PassTask : task'[u].pc \in {"spawn", "register"} => task'[u] = task[u]
    BY <1>5, <1>8
  <2>2. task[Host].pc = "sync" => task'[Host] = task[Host]
    BY <1>1, <1>5, TasksFact
  <2> QED BY <1>6, <1>9, <2>1, <2>2, StartKeeps, PoolKeeps, FreshKeeps
<1>14. ToldInv => ToldInv'
  <2>1. \A r : Greeted(r) => Greeted(r)'
    BY <1>1, <1>5 DEF Greeted
  <2> QED BY <1>6, <1>9, <2>1 DEF ToldInv, Obeys
<1>15. ASSUME OwedInv PROVE OwedInv'
  <2>1. \A d : (Paused(d, wish)' <=> Paused(d, wish)) /\ (Enabled(d)' <=> Enabled(d))
    BY <1>6 DEF Paused, GlobalPaused, Enabled
  <2>2. \A d : \A u \in PassTask : Asks(u, d) => Asks(u, d)'
    BY <1>1, <1>5 DEF Asks
  <2>3. \A d \in asked : Asks(t, d)'
    BY <1>2, <1>5, <1>8 DEF Asks
  <2>4. \A d \in resume : Enabled(d) => d \in asked
    BY <1>15 DEF OwedInv, FrameDemand
  <2>5. \A d \in resume' : ~Enabled(d)'
    BY <1>1, <2>1, <2>4
  <2>6. \A d \in resume' \cup owed' : ~Paused(d, wish)'
    BY <1>1, <1>6, <1>15, <2>1 DEF OwedInv
  <2>7. \A d \in owed' :
          d \in resume' \/ (\E u \in PassTask : Asks(u, d)') \/ Excused(d)'
    BY <1>1, <1>6, <1>15, <2>2, <2>3 DEF OwedInv, Excused
  <2> QED BY <2>5, <2>6, <2>7 DEF OwedInv
<1> QED BY <1>7, <1>10, <1>11, <1>12, <1>13, <1>14, <1>15 DEF PlaybackInv

LEMMA AskFrameInv ==
  ASSUME PlaybackTypeOK, NEW t \in PassTask, AskFrame(t)
  PROVE  PlaybackTypeOK' /\ (DecidedInv => DecidedInv') /\ (PlaybackInv => PlaybackInv')
<1> DEFINE r == Head(task[t].todo)
           n == [pc |-> task[t].pc, todo |-> Tail(task[t].todo), reg |-> task[t].reg, of |-> task[t].of]
<1>1. /\ task[t].pc = "ask" /\ task[t].todo # <<>>
      /\ owed' = IF proc[r].up THEN {d \in owed : RendererOf[d] # r} ELSE owed
      /\ task' = [task EXCEPT ![t].todo = Tail(@)]
  BY DEF AskFrame
<1>2. task[t].todo \in Seq(Renderer)
  BY <1>1, TodoTypes
<1>3. r \in Renderer /\ Tail(task[t].todo) \in Seq(Renderer)
      /\ ToSet(task[t].todo) = {r} \cup ToSet(Tail(task[t].todo))
  BY <1>1, <1>2, TodoFact
<1>4. n \in Work /\ Fitting(t, n)
  <2>1. task[t].reg \subseteq Renderer /\ task[t].of \subseteq Renderer
        /\ (t \notin Starter => task[t].reg = {})
    BY TodoTypes DEF PlaybackTypeOK, Fitting
  <2> QED BY <1>1, <1>3, <2>1 DEF Work, Fitting, Todo, Sending, Holding
<1>5. Becomes(t, n)
  <2>1. task' = [task EXCEPT ![t].todo = Tail(task[t].todo)]
    BY <1>1
  <2> QED BY <2>1, GoesFact
<1>6. /\ task' \in [PassTask -> Work] /\ \A u \in PassTask : Fitting(u, task'[u])
      /\ task'[t] = n /\ \A u \in PassTask : u # t => task'[u] = task[u]
  BY <1>4, <1>5, MoveFact
<1>7. UNCHANGED <<wish, wishChanges, shown, stale, resume, activity, resumeRetry, retrier, lifecycleLock, proc, misled, deaths>>
  BY DEF AskFrame, wishes, bindings, slots
<1>8. PlaybackTypeOK'
  <2>1. owed' \subseteq LinkedDisplay
    BY <1>1 DEF PlaybackTypeOK
  <2> QED BY <1>6, <1>7, <2>1 DEF PlaybackTypeOK
<1>9. /\ n.pc = "ask" /\ n.of = task[t].of /\ n.reg = task[t].reg /\ n.todo = Tail(task[t].todo)
      /\ task[t].pc \notin Deciding \cup Sending /\ n.pc \notin Sending /\ task[t].pc \in Holding
  BY <1>1 DEF Sending, Deciding, Holding
<1> HIDE DEF n, r
<1>10. \A q, msg : Untold(q, msg)' <=> Untold(q, msg)
  <2>1. \A u \in PassTask : \A q, msg : Tells(u, q, msg)' <=> Tells(u, q, msg)
    BY <1>6, <1>9 DEF Tells
  <2> QED BY <2>1 DEF Untold
<1>11. DecidedInv => DecidedInv'
  BY <1>6, <1>7, <1>9, DecidedStays
<1>12. LockInv => LockInv'
  BY <1>6, <1>7, <1>9 DEF LockInv
<1>13. RetryInv => RetryInv'
  BY <1>6, <1>7, <1>9 DEF RetryInv, Heard, Retried
<1>14. /\ StartInv => StartInv'
       /\ PoolInv => PoolInv'
       /\ StartInv /\ FreshInv => FreshInv'
  <2>1. \A u \in PassTask : task'[u].pc \in {"spawn", "register"} => task'[u] = task[u]
    BY <1>6, <1>9
  <2>2. task[Host].pc = "sync" => task'[Host] = task[Host]
    BY <1>1, <1>6, TasksFact
  <2> QED BY <1>7, <1>10, <2>1, <2>2, StartKeeps, PoolKeeps, FreshKeeps
<1>15. ToldInv => ToldInv'
  <2>1. \A q : Greeted(q) => Greeted(q)'
    BY <1>1, <1>6 DEF Greeted
  <2> QED BY <1>7, <1>10, <2>1 DEF ToldInv, Obeys
<1>16. ASSUME OwedInv PROVE OwedInv'
  <2>1. \A d : (Paused(d, wish)' <=> Paused(d, wish)) /\ (Enabled(d)' <=> Enabled(d))
    BY <1>7 DEF Paused, GlobalPaused, Enabled
  <2>2. \A d : RendererOf[d] # r => \A u \in PassTask : Asks(u, d) => Asks(u, d)'
    BY <1>3, <1>6, <1>9 DEF Asks
  <2>3. owed' \subseteq owed /\ \A d \in owed' : RendererOf[d] = r => ~proc[r].up
    BY <1>1
  <2>4. \A d \in owed' :
          d \in resume' \/ (\E u \in PassTask : Asks(u, d)') \/ Excused(d)'
    BY <1>7, <1>16, <2>2, <2>3 DEF OwedInv, Excused
  <2>5. \A d \in resume' \cup owed' : ~Paused(d, wish)'
    BY <1>7, <1>16, <2>1, <2>3 DEF OwedInv
  <2>6. \A d \in resume' : Enabled(d)' => \E u \in PassTask : task'[u].pc \in Deciding \cup Sending
    BY <1>6, <1>7, <1>9, <1>16, <2>1 DEF OwedInv
  <2> QED BY <2>4, <2>5, <2>6 DEF OwedInv
<1> QED BY <1>8, <1>11, <1>12, <1>13, <1>14, <1>15, <1>16 DEF PlaybackInv

LEMMA AloneFact ==
  ASSUME LockInv, NEW t \in PassTask, task[t].pc \in Holding
  PROVE  /\ lifecycleLock = t
         /\ \A u \in PassTask : u # t => task[u].pc \notin Holding /\ task[u].pc \notin Sending
         /\ \A r \in Renderer : retrier[r] # "send"
BY TasksFact DEF LockInv, Holding

LEMMA DecideTypes ==
  ASSUME PlaybackTypeOK, NEW t \in PassTask, Decide(t)
  PROVE  \E actions \in Seq(Renderer \X Message), n \in Work :
           /\ Fitting(t, n) /\ Becomes(t, n)
           /\ n.pc = "send" /\ n.todo = actions /\ n.reg = task[t].reg /\ n.of = task[t].of
           /\ \A r \in Renderer : \A msg : <<r, msg>> \in ToSet(actions) <=>
                activity[r] # "none" /\ msg \in ToSet(Messages(activity[r], Target(r), r \in task[t].reg))
<1> DEFINE running == {r \in Renderer : activity[r] # "none"}
<1>1. PICK actions \in Actions(running, task[t].reg) :
        task' = [task EXCEPT ![t].pc = "send", ![t].todo = actions]
  BY DEF Decide
<1> DEFINE n == [pc |-> "send", todo |-> actions, reg |-> task[t].reg, of |-> task[t].of]
<1>2. Becomes(t, n)
  BY <1>1, GoesFact
<1>3. task[t].reg \in SUBSET Renderer /\ task[t].of \in SUBSET Renderer
  BY TodoTypes
<1>4. running \in SUBSET Renderer /\ \A r \in running : activity[r] # "none"
  OBVIOUS
<1> HIDE DEF running
<1>5. /\ actions \in Seq(Renderer \X Message)
      /\ \A r, msg : <<r, msg>> \in ToSet(actions) <=>
           r \in running /\ msg \in ToSet(Messages(activity[r], Target(r), r \in task[t].reg))
  BY <1>3, <1>4, ActionsFact
<1>6. n \in Work /\ Fitting(t, n)
  <2>1. t \notin Starter => task[t].reg = {}
    BY DEF PlaybackTypeOK, Fitting
  <2> QED BY <1>3, <1>5, <2>1 DEF Work, Fitting, Todo, Sending, Holding
<1>7. n.pc = "send" /\ n.todo = actions /\ n.reg = task[t].reg /\ n.of = task[t].of
  OBVIOUS
<1> HIDE DEF n
<1>8. \A r \in Renderer : \A msg : <<r, msg>> \in ToSet(actions) <=>
        activity[r] # "none" /\ msg \in ToSet(Messages(activity[r], Target(r), r \in task[t].reg))
  BY <1>5 DEF running
<1> QED BY <1>2, <1>5, <1>6, <1>7, <1>8

LEMMA DecideInv ==
  ASSUME PlaybackTypeOK, NEW t \in PassTask, Decide(t)
  PROVE  PlaybackTypeOK' /\ DecidedInv' /\ (PlaybackInv => PlaybackInv')
<1> DEFINE Due(r, msg) ==
      activity[r] # "none" /\ msg \in ToSet(Messages(activity[r], Target(r), r \in task[t].reg))
<1>1. PICK actions \in Seq(Renderer \X Message), n \in Work :
           /\ Fitting(t, n) /\ Becomes(t, n)
           /\ n.pc = "send" /\ n.todo = actions /\ n.reg = task[t].reg /\ n.of = task[t].of
           /\ \A r \in Renderer : \A msg : <<r, msg>> \in ToSet(actions) <=> Due(r, msg)
  BY DecideTypes
<1>2. task[t].pc = "decide" /\ task[t].todo = <<>>
  BY TodoTypes DEF Decide, Sending
<1>3. /\ task' \in [PassTask -> Work] /\ \A u \in PassTask : Fitting(u, task'[u])
      /\ task'[t] = n /\ \A u \in PassTask : u # t => task'[u] = task[u]
  BY <1>1, MoveFact
<1>4. /\ activity' = [r \in Renderer |-> IF activity[r] # "none" THEN Target(r) ELSE "none"]
      /\ resumeRetry' = [r \in Renderer |-> IF activity[r] # "none" /\ Target(r) # "playing"
                                            THEN {} ELSE resumeRetry[r]]
      /\ retrier' = [r \in Renderer |-> IF resumeRetry'[r] = {} THEN "none" ELSE retrier[r]]
  BY DEF Decide
<1>5. UNCHANGED <<wish, wishChanges, shown, stale, resume, lifecycleLock, proc, owed, misled, deaths>>
  BY DEF Decide, wishes, bindings
<1>6. \A r : Target(r)' = Target(r)
  BY <1>5 DEF Target, PlaybackDemand, FrameDemand, GlobalPaused, Paused, Enabled
<1>7. /\ \A r \in Renderer : activity'[r] = "none" <=> activity[r] = "none"
      /\ \A r \in Renderer : activity[r] # "none" => activity'[r] = Target(r)
  BY <1>4, TargetFact DEF Activities
<1>8. PlaybackTypeOK'
  <2>1. activity' \in [Renderer -> Activities \cup {"none"}]
    BY <1>4, TargetFact
  <2>2. resumeRetry' \in [Renderer -> SUBSET ResumeMessages]
    BY <1>4 DEF PlaybackTypeOK
  <2>3. retrier' \in [Renderer -> {"none", "look", "delay", "send"}]
    BY <1>4 DEF PlaybackTypeOK
  <2> QED BY <1>3, <1>5, <2>1, <2>2, <2>3 DEF PlaybackTypeOK
<1>9. DecidedInv'
  BY <1>6, <1>7 DEF DecidedInv
<1> SUFFICES ASSUME PlaybackInv PROVE PlaybackInv'
  BY <1>8, <1>9
<1>10. LockInv /\ StartInv /\ PoolInv /\ RetryInv /\ FreshInv /\ ToldInv /\ OwedInv
  BY DEF PlaybackInv
<1>11. task[t].pc \in Holding /\ n.pc \in Holding /\ n.pc \in Sending /\ task[t].pc \notin Sending
  BY <1>1, <1>2 DEF Holding, Sending
<1>12. /\ lifecycleLock = t
       /\ \A u \in PassTask : u # t => task[u].pc \notin Holding /\ task[u].pc \notin Sending
       /\ \A r \in Renderer : retrier[r] # "send"
  BY <1>10, <1>11, AloneFact
<1>13. /\ \A r, msg : ~Untold(r, msg)
       /\ \A r \in Renderer : \A msg : Untold(r, msg)' <=> Due(r, msg)
  <2>1. \A r, msg : ~Untold(r, msg)
    BY <1>11, <1>12 DEF Untold, Tells
  <2>2. ASSUME NEW r \in Renderer, NEW msg PROVE Tells(t, r, msg)' <=> Due(r, msg)
    BY <1>1, <1>3, <1>11 DEF Tells
  <2>3. \A u \in PassTask : u # t => \A r, msg : ~Tells(u, r, msg)'
    BY <1>3, <1>12 DEF Tells
  <2> HIDE DEF Due
  <2> QED BY <2>1, <2>2, <2>3 DEF Untold
<1>14. LockInv'
  <2>1. \A r \in Renderer : retrier'[r] # "send"
    BY <1>4, <1>12
  <2> QED BY <1>3, <1>5, <1>12, <2>1 DEF LockInv
<1>15. RetryInv'
  <2>1. \A u \in PassTask : task'[u].pc \notin {"clear", "schedule"}
    BY <1>1, <1>3, <1>12 DEF Sending
  <2>2. ASSUME NEW r \in Renderer PROVE Retried(r)'
    <3>1. Retried(r)
      BY <1>10 DEF RetryInv
    <3>2. resumeRetry'[r] \in {{}, resumeRetry[r]}
          /\ retrier'[r] = IF resumeRetry'[r] = {} THEN "none" ELSE retrier[r]
      BY <1>4
    <3> QED BY <1>5, <1>7, <3>1, <3>2 DEF Retried
  <2> QED BY <2>1, <2>2 DEF RetryInv
<1>16. StartInv' /\ PoolInv' /\ FreshInv'
  <2>1. \A u \in PassTask : task'[u].pc \in {"spawn", "register"} => task'[u] = task[u]
    BY <1>1, <1>3
  <2>2. task[Host].pc = "sync" => task'[Host] = task[Host]
    BY <1>2, <1>3, TasksFact
  <2>3. \A r \in Renderer : activity[r] = "none" => \A msg : ~Untold(r, msg)'
    BY <1>13
  <2> HIDE DEF Due
  <2> QED BY <1>5, <1>7, <1>10, <2>1, <2>2, <2>3, StartKeeps, PoolKeeps, FreshKeeps
<1>17. ASSUME NEW r \in Renderer, activity'[r] # "none", r \notin misled PROVE Obeys(r)'
  <2> DEFINE from == activity[r]
             to == Target(r)
             greets == r \in task[t].reg
  <2>1. from \in Activities /\ to \in Activities /\ greets \in BOOLEAN /\ activity'[r] = to
        /\ from # "none" /\ Obeys(r)
    BY <1>7, <1>10, <1>17, TargetFact DEF ToldInv, PlaybackTypeOK
  <2>2. \A msg : Untold(r, msg)' <=> msg \in ToSet(Messages(from, to, greets))
    BY <1>13, <2>1
  <2>3. /\ Untold(r, "pause")' <=> from # "paused" /\ to = "paused"
        /\ Untold(r, "play")' <=> from = "paused" /\ to # "paused"
        /\ Untold(r, "mute")' <=> from # "muted" /\ to = "muted"
        /\ Untold(r, "unmute")' <=>
             (from = "muted" /\ to # "muted") \/ (from = to /\ to = "playing" /\ greets)
    <3> HIDE DEF from, to, greets
    <3> QED BY <2>1, <2>2, MessagesFact
  <2>4. proc[r].up =>
          /\ proc[r].paused = (from = "paused")
          /\ proc[r].muted = (from = "muted")
          /\ from = "playing" => proc[r].gate \/ Greeted(r)
    BY <1>13, <2>1 DEF Obeys
  <2>5. Greeted(r) => greets \/ Greeted(r)'
    BY <1>3 DEF Greeted
  <2>6. proc'[r] = proc[r]
    BY <1>5
  <2>7. proc'[r].up =>
          /\ ~Untold(r, "pause")' /\ ~Untold(r, "play")' => proc'[r].paused = (to = "paused")
          /\ ~Untold(r, "mute")' /\ ~Untold(r, "unmute")' => proc'[r].muted = (to = "muted")
    <3>1. ~Untold(r, "pause")' /\ ~Untold(r, "play")' => (from = "paused" <=> to = "paused")
      BY <2>3
    <3>2. ~Untold(r, "mute")' /\ ~Untold(r, "unmute")' => (from = "muted" <=> to = "muted")
      BY <2>3
    <3> QED BY <2>4, <2>6, <3>1, <3>2
  <2>8. proc'[r].up /\ to = "playing" =>
          proc'[r].gate \/ Untold(r, "play")' \/ Untold(r, "unmute")' \/ Greeted(r)'
    BY <2>1, <2>3, <2>4, <2>5, <2>6 DEF Activities
  <2> HIDE DEF from, to, greets
  <2>9. /\ Untold(r, "pause")' => to = "paused"
        /\ Untold(r, "play")' => to # "paused"
        /\ Untold(r, "mute")' => to = "muted"
        /\ Untold(r, "unmute")' => to # "muted"
    BY <2>3
  <2> QED BY <2>1, <2>7, <2>8, <2>9 DEF Obeys
<1>18. ToldInv'
  BY <1>5, <1>17 DEF ToldInv
<1>19. OwedInv'
  <2>1. \A d : (Paused(d, wish)' <=> Paused(d, wish)) /\ (Enabled(d)' <=> Enabled(d))
    BY <1>5 DEF Paused, GlobalPaused, Enabled
  <2>2. \A d : \A u \in PassTask : Asks(u, d) => Asks(u, d)'
    BY <1>2, <1>3 DEF Asks
  <2>3. \A d \in owed : RendererOf[d] \in Renderer
    BY PlaybackAssumption DEF PlaybackTypeOK
  <2>4. \E u \in PassTask : task'[u].pc \in Deciding \cup Sending
    BY <1>3, <1>11
  <2>5. \A d \in resume' \cup owed' : ~Paused(d, wish)'
    BY <1>5, <1>10, <2>1 DEF OwedInv
  <2>6. \A d \in owed' :
          d \in resume' \/ (\E u \in PassTask : Asks(u, d)') \/ Excused(d)'
    BY <1>5, <1>7, <1>10, <2>2, <2>3 DEF OwedInv, Excused
  <2> QED BY <2>4, <2>5, <2>6 DEF OwedInv
<1> QED BY <1>14, <1>15, <1>16, <1>18, <1>19 DEF PlaybackInv

Processes == [up : BOOLEAN, pool : BOOLEAN, paused : BOOLEAN, muted : BOOLEAN, gate : BOOLEAN]

LEMMA AfterFact ==
  ASSUME NEW p \in Processes, NEW msg \in Message
  PROVE  LET q == AfterMessage(p, msg)
         IN  /\ q \in Processes /\ q.up = p.up /\ q.pool = p.pool
             /\ q.paused = IF msg = "pause" THEN TRUE ELSE IF msg = "play" THEN FALSE ELSE p.paused
             /\ q.muted = IF msg = "mute" THEN TRUE ELSE IF msg = "unmute" THEN FALSE ELSE p.muted
             /\ q.gate = IF msg \in ResumeMessages THEN TRUE ELSE p.gate
<1>1. CASE msg = "pause"
  BY <1>1 DEF AfterMessage, Processes, ResumeMessages
<1>2. CASE msg = "play"
  <2>1. AfterMessage(p, msg) = [p EXCEPT !.paused = FALSE, !.gate = TRUE]
    BY <1>2 DEF AfterMessage
  <2> QED BY <1>2, <2>1 DEF Processes, ResumeMessages
<1>3. CASE msg = "mute"
  BY <1>3 DEF AfterMessage, Processes, ResumeMessages
<1>4. CASE msg = "unmute"
  <2>1. AfterMessage(p, msg) = [p EXCEPT !.muted = FALSE, !.gate = TRUE]
    BY <1>4 DEF AfterMessage
  <2> QED BY <1>4, <2>1 DEF Processes, ResumeMessages
<1> QED BY <1>1, <1>2, <1>3, <1>4 DEF Message

LEMMA TellFact ==
  ASSUME PlaybackTypeOK, NEW r \in Renderer, NEW msg \in Message, Tell(r, msg)
  PROVE  /\ proc' \in [Renderer -> Processes]
         /\ \A q \in Renderer : proc'[q].up = proc[q].up /\ proc'[q].pool = proc[q].pool
         /\ \A q \in Renderer : q # r => proc'[q] = proc[q]
         /\ ~proc[r].up => proc' = proc
         /\ proc[r].up =>
              /\ proc'[r].paused = IF msg = "pause" THEN TRUE ELSE IF msg = "play" THEN FALSE ELSE proc[r].paused
              /\ proc'[r].muted = IF msg = "mute" THEN TRUE ELSE IF msg = "unmute" THEN FALSE ELSE proc[r].muted
              /\ proc'[r].gate = IF msg \in ResumeMessages THEN TRUE ELSE proc[r].gate
<1>1. proc \in [Renderer -> Processes]
  BY DEF PlaybackTypeOK, Processes
<1>2. proc' = [proc EXCEPT ![r] = IF proc[r].up THEN AfterMessage(proc[r], msg) ELSE proc[r]]
  BY DEF Tell
<1> DEFINE p == proc[r]
           q == AfterMessage(p, msg)
<1>3. /\ q \in Processes /\ q.up = p.up /\ q.pool = p.pool
      /\ q.paused = IF msg = "pause" THEN TRUE ELSE IF msg = "play" THEN FALSE ELSE p.paused
      /\ q.muted = IF msg = "mute" THEN TRUE ELSE IF msg = "unmute" THEN FALSE ELSE p.muted
      /\ q.gate = IF msg \in ResumeMessages THEN TRUE ELSE p.gate
  BY <1>1, AfterFact
<1> HIDE DEF q
<1>4. CASE p.up
  <2>1. proc' = [proc EXCEPT ![r] = q]
    BY <1>2, <1>4 DEF q
  <2>2. proc' \in [Renderer -> Processes] /\ proc'[r] = q /\ \A s \in Renderer : s # r => proc'[s] = proc[s]
    BY <1>1, <1>3, <2>1
  <2> QED BY <1>3, <1>4, <2>2
<1>5. CASE ~p.up
  <2>1. proc' = proc
    BY <1>1, <1>2, <1>5
  <2> QED BY <1>1, <1>5, <2>1
<1> QED BY <1>4, <1>5

LEMMA SendTypes ==
  ASSUME PlaybackTypeOK, NEW t \in PassTask, SendMessage(t)
  PROVE  \E r \in Renderer, msg \in Message, n \in Work :
           /\ Head(task[t].todo) = <<r, msg>> /\ <<r, msg>> \in ToSet(task[t].todo)
           /\ Fitting(t, n) /\ Becomes(t, n) /\ Tell(r, msg)
           /\ n.pc \in Sending /\ n.reg = task[t].reg /\ n.of = task[t].of
           /\ msg \in ResumeMessages =>
                n.todo = task[t].todo /\ n.pc = IF proc[r].up THEN "clear" ELSE "schedule"
           /\ msg \notin ResumeMessages =>
                n.pc = "send" /\ ToSet(task[t].todo) = {<<r, msg>>} \cup ToSet(n.todo)
<1> DEFINE todo == task[t].todo
           r == Head(todo)[1]
           msg == Head(todo)[2]
<1>1. /\ task[t].pc = "send" /\ todo # <<>> /\ Tell(r, msg)
      /\ task' = IF msg \in ResumeMessages
                   THEN [task EXCEPT ![t].pc = IF proc[r].up THEN "clear" ELSE "schedule"]
                   ELSE [task EXCEPT ![t].todo = Tail(@)]
  BY DEF SendMessage
<1>2. todo \in Seq(Renderer \X Message)
  BY <1>1, TodoTypes DEF Sending
<1>3. Head(todo) \in Renderer \X Message /\ Tail(todo) \in Seq(Renderer \X Message)
      /\ ToSet(todo) = {Head(todo)} \cup ToSet(Tail(todo))
  <2> HIDE DEF todo
  <2> QED BY <1>1, <1>2, TodoFact
<1>4. r \in Renderer /\ msg \in Message /\ Head(todo) = <<r, msg>>
  BY <1>3
<1>5. task[t].reg \subseteq Renderer /\ task[t].of \subseteq Renderer
      /\ (t \notin Starter => task[t].reg = {})
  BY TodoTypes DEF PlaybackTypeOK, Fitting
<1>6. CASE msg \in ResumeMessages
  <2> DEFINE pc == IF proc[r].up THEN "clear" ELSE "schedule"
             n == [pc |-> pc, todo |-> task[t].todo, reg |-> task[t].reg, of |-> task[t].of]
  <2>1. Becomes(t, n)
    <3>1. task' = [task EXCEPT ![t].pc = pc]
      BY <1>1, <1>6
    <3> HIDE DEF pc
    <3> QED BY <3>1, GoesFact
  <2>2. n \in Work /\ Fitting(t, n) /\ n.pc \in Sending
    <3>1. pc \in {"clear", "schedule"}
      OBVIOUS
    <3>2. Resuming(todo)
      BY <1>1, <1>4, <1>6 DEF Resuming
    <3> HIDE DEF pc
    <3>3. n.todo \in Todo(n.pc)
      BY <1>2, <3>1, <3>2 DEF Todo
    <3> QED BY <1>2, <1>5, <3>1, <3>3 DEF Work, Fitting, Sending, Holding
  <2>3. n.reg = task[t].reg /\ n.of = task[t].of /\ n.todo = task[t].todo /\ n.pc = pc
    OBVIOUS
  <2> HIDE DEF n
  <2> QED BY <1>1, <1>3, <1>4, <1>6, <2>1, <2>2, <2>3
<1>7. CASE msg \notin ResumeMessages
  <2> DEFINE n == [pc |-> task[t].pc, todo |-> Tail(todo), reg |-> task[t].reg, of |-> task[t].of]
  <2>1. Becomes(t, n)
    <3>1. task' = [task EXCEPT ![t].todo = Tail(todo)]
      BY <1>1, <1>7
    <3> QED BY <3>1, GoesFact
  <2>2. n \in Work /\ Fitting(t, n) /\ n.pc \in Sending
    BY <1>1, <1>3, <1>5 DEF Work, Fitting, Todo, Sending, Holding
  <2>3. n.reg = task[t].reg /\ n.of = task[t].of /\ n.todo = Tail(todo) /\ n.pc = "send"
    BY <1>1
  <2> HIDE DEF n
  <2> QED BY <1>1, <1>3, <1>4, <1>7, <2>1, <2>2, <2>3
<1> QED BY <1>6, <1>7

\* Who sends has the lock, so nobody else has messages
LEMMA TellingFact ==
  ASSUME PlaybackTypeOK, LockInv, NEW t \in PassTask, task[t].pc \in Sending,
         NEW n \in Work, Fitting(t, n), Becomes(t, n), n.pc \in Sending
  PROVE  /\ \A r, msg : Untold(r, msg) <=> <<r, msg>> \in ToSet(task[t].todo)
         /\ \A r, msg : Untold(r, msg)' <=> <<r, msg>> \in ToSet(n.todo)
         /\ \A d : \A u \in PassTask : Asks(u, d) => Asks(u, d)'
         /\ \A u \in PassTask : u # t => task'[u].pc \notin Holding /\ task'[u].pc \notin Sending
<1>1. /\ task'[t] = n /\ \A u \in PassTask : u # t => task'[u] = task[u]
  BY MoveFact
<1>2. \A u \in PassTask : u # t => task[u].pc \notin Holding /\ task[u].pc \notin Sending
  BY AloneFact DEF Holding
<1>3. \A r, msg : Tells(t, r, msg) <=> <<r, msg>> \in ToSet(task[t].todo)
  BY DEF Tells
<1>4. \A r, msg : Tells(t, r, msg)' <=> <<r, msg>> \in ToSet(n.todo)
  BY <1>1 DEF Tells
<1>5. \A u \in PassTask : u # t => \A r, msg : ~Tells(u, r, msg) /\ ~Tells(u, r, msg)'
  BY <1>1, <1>2 DEF Tells
<1>6. /\ \A r, msg : Untold(r, msg) <=> <<r, msg>> \in ToSet(task[t].todo)
      /\ \A r, msg : Untold(r, msg)' <=> <<r, msg>> \in ToSet(n.todo)
  BY <1>3, <1>4, <1>5 DEF Untold
<1>7. \A d : \A u \in PassTask : Asks(u, d) => Asks(u, d)'
  BY <1>1 DEF Asks, Sending
<1> QED BY <1>1, <1>2, <1>6, <1>7

\* What such a step leaves as it was
LEMMA SendingKeeps ==
  ASSUME PlaybackTypeOK, NEW t \in PassTask, task[t].pc \in Sending,
         NEW n \in Work, Fitting(t, n), Becomes(t, n), n.pc \in Sending,
         n.reg = task[t].reg, n.of = task[t].of,
         UNCHANGED <<wish, shown, stale, resume, activity, lifecycleLock, owed, misled>>,
         \A r \in Renderer : proc'[r].up = proc[r].up /\ proc'[r].pool = proc[r].pool,
         \A r \in Renderer : retrier'[r] = "send" => retrier[r] = "send"
  PROVE  /\ DecidedInv => DecidedInv'
         /\ LockInv => LockInv'
         /\ LockInv /\ OwedInv => OwedInv'
         /\ StartInv => StartInv'
         /\ PoolInv => PoolInv'
         /\ \A r : Greeted(r)' <=> Greeted(r)
         /\ \A u \in PassTask : task'[u].pc = "register" => task'[u] = task[u]
<1>1. /\ task'[t] = n /\ \A u \in PassTask : u # t => task'[u] = task[u]
  BY MoveFact
<1>2. task[t].pc \notin Deciding /\ n.pc \notin Deciding /\ n.pc # "register" /\ task[t].pc # "register"
      /\ task[t].pc \in Holding /\ n.pc \in Holding /\ task[t].pc # "ask" /\ n.pc # "ask"
  BY DEF Sending, Deciding, Holding
<1>3. DecidedInv => DecidedInv'
  BY <1>1, <1>2, DecidedStays
<1>4. LockInv => LockInv'
  BY <1>1, <1>2 DEF LockInv
<1>5. ASSUME LockInv, OwedInv PROVE OwedInv'
  <2>1. \A d : (Paused(d, wish)' <=> Paused(d, wish)) /\ (Enabled(d)' <=> Enabled(d))
    BY DEF Paused, GlobalPaused, Enabled
  <2>2. \A d : \A u \in PassTask : Asks(u, d) => Asks(u, d)'
    BY <1>5, TellingFact
  <2>3. \E u \in PassTask : task'[u].pc \in Deciding \cup Sending
    BY <1>1
  <2>4. \A d \in owed : proc'[RendererOf[d]].up = proc[RendererOf[d]].up
    BY PlaybackAssumption DEF PlaybackTypeOK
  <2>5. \A d \in resume' \cup owed' : ~Paused(d, wish)'
    BY <1>5, <2>1 DEF OwedInv
  <2>6. \A d \in owed' :
          d \in resume' \/ (\E u \in PassTask : Asks(u, d)') \/ Excused(d)'
    BY <1>5, <2>2, <2>4 DEF OwedInv, Excused
  <2> QED BY <2>3, <2>5, <2>6 DEF OwedInv
<1>6. /\ StartInv => StartInv'
      /\ PoolInv => PoolInv'
      /\ \A u \in PassTask : task'[u].pc = "register" => task'[u] = task[u]
  <2>1. \A u \in PassTask : task'[u].pc \in {"spawn", "register"} => task'[u] = task[u]
    BY <1>1 DEF Sending
  <2>2. task[Host].pc = "sync" => task'[Host] = task[Host]
    BY <1>1, <1>2, TasksFact DEF Deciding
  <2> QED BY <2>1, <2>2, StartKeeps, PoolKeeps
<1>7. \A r : Greeted(r)' <=> Greeted(r)
  BY <1>1, <1>2 DEF Greeted, Deciding
<1> QED BY <1>3, <1>4, <1>5, <1>6, <1>7

LEMMA SendMessageInv ==
  ASSUME PlaybackTypeOK, NEW t \in PassTask, SendMessage(t)
  PROVE  PlaybackTypeOK' /\ (DecidedInv => DecidedInv') /\ (PlaybackInv => PlaybackInv')
<1>1. PICK r \in Renderer, msg \in Message, n \in Work :
           /\ Head(task[t].todo) = <<r, msg>> /\ <<r, msg>> \in ToSet(task[t].todo)
           /\ Fitting(t, n) /\ Becomes(t, n) /\ Tell(r, msg)
           /\ n.pc \in Sending /\ n.reg = task[t].reg /\ n.of = task[t].of
           /\ msg \in ResumeMessages =>
                n.todo = task[t].todo /\ n.pc = IF proc[r].up THEN "clear" ELSE "schedule"
           /\ msg \notin ResumeMessages =>
                n.pc = "send" /\ ToSet(task[t].todo) = {<<r, msg>>} \cup ToSet(n.todo)
  BY SendTypes
<1>2. /\ task' \in [PassTask -> Work] /\ \A u \in PassTask : Fitting(u, task'[u])
      /\ task'[t] = n /\ \A u \in PassTask : u # t => task'[u] = task[u]
  BY <1>1, MoveFact
<1>3. /\ proc' \in [Renderer -> Processes]
      /\ \A q \in Renderer : proc'[q].up = proc[q].up /\ proc'[q].pool = proc[q].pool
      /\ \A q \in Renderer : q # r => proc'[q] = proc[q]
      /\ proc[r].up =>
           /\ proc'[r].paused = IF msg = "pause" THEN TRUE ELSE IF msg = "play" THEN FALSE ELSE proc[r].paused
           /\ proc'[r].muted = IF msg = "mute" THEN TRUE ELSE IF msg = "unmute" THEN FALSE ELSE proc[r].muted
           /\ proc'[r].gate = IF msg \in ResumeMessages THEN TRUE ELSE proc[r].gate
  BY <1>1, TellFact
<1>4. UNCHANGED <<wish, wishChanges, shown, stale, resume, activity, resumeRetry, retrier, lifecycleLock, owed, misled, deaths>>
  BY DEF SendMessage, wishes, bindings, slots
<1>5. PlaybackTypeOK'
  BY <1>2, <1>3, <1>4 DEF PlaybackTypeOK, Processes
<1>6. task[t].pc = "send" /\ task[t].pc \in Sending /\ task[t].todo # <<>>
  BY DEF SendMessage, Sending
<1>7. /\ DecidedInv => DecidedInv'
      /\ LockInv => LockInv'
      /\ LockInv /\ OwedInv => OwedInv'
      /\ StartInv => StartInv'
      /\ PoolInv => PoolInv'
      /\ \A q : Greeted(q)' <=> Greeted(q)
      /\ \A u \in PassTask : task'[u].pc = "register" => task'[u] = task[u]
  BY <1>1, <1>3, <1>4, <1>6, SendingKeeps
<1> SUFFICES ASSUME PlaybackInv PROVE RetryInv' /\ FreshInv' /\ ToldInv'
  BY <1>5, <1>7 DEF PlaybackInv
<1>8. LockInv /\ StartInv /\ RetryInv /\ FreshInv /\ ToldInv
  BY DEF PlaybackInv
<1>9. /\ \A q, m : Untold(q, m) <=> <<q, m>> \in ToSet(task[t].todo)
      /\ \A q, m : Untold(q, m)' <=> <<q, m>> \in ToSet(n.todo)
      /\ \A u \in PassTask : u # t => task'[u].pc \notin Holding /\ task'[u].pc \notin Sending
  BY <1>1, <1>6, <1>8, TellingFact
<1>10. /\ Untold(r, msg)
       /\ \A q, m : Untold(q, m)' => Untold(q, m)
       /\ \A q, m : <<q, m>> # <<r, msg>> => (Untold(q, m)' <=> Untold(q, m))
       /\ msg \in ResumeMessages => Untold(r, msg)'
  <2>1. CASE msg \in ResumeMessages
    BY <1>1, <1>9, <2>1
  <2>2. CASE msg \notin ResumeMessages
    BY <1>1, <1>9, <2>2
  <2> QED BY <2>1, <2>2
<1>11. RetryInv'
  <2>1. ASSUME NEW u \in PassTask, task'[u].pc \in {"clear", "schedule"} PROVE Heard(u)'
    <3>1. u = t
      BY <1>9, <2>1 DEF Sending
    <3>2. msg \in ResumeMessages
      BY <1>1, <1>2, <2>1, <3>1
    <3>3. task'[u].todo = task[t].todo /\ task'[u].pc = IF proc[r].up THEN "clear" ELSE "schedule"
      BY <1>1, <1>2, <3>1, <3>2
    <3>4. Head(task'[u].todo)[1] = r /\ Head(task'[u].todo)[2] = msg /\ task'[u].todo # <<>>
      BY <1>1, <1>6, <3>3
    <3>5. proc'[r].up => /\ task'[u].pc = "clear" /\ proc'[r].gate
                         /\ msg = "play" => ~proc'[r].paused
                         /\ msg = "unmute" => ~proc'[r].muted
      BY <1>3, <3>2, <3>3
    <3> QED BY <3>2, <3>4, <3>5 DEF Heard
  <2>2. \A q \in Renderer : Retried(q)'
    BY <1>3, <1>4, <1>8 DEF RetryInv, Retried
  <2> QED BY <2>1, <2>2 DEF RetryInv
<1>12. FreshInv'
  <2>1. ASSUME NEW q \in Renderer, \A m \in Message : ~Untold(q, m) PROVE proc'[q] = proc[q]
    BY <1>3, <1>10, <2>1
  <2> QED BY <1>4, <1>7, <1>8, <1>10, <2>1, FreshKeeps
<1>13. ASSUME NEW q \in Renderer, activity'[q] # "none", q \notin misled PROVE Obeys(q)'
  <2>1. Obeys(q) /\ activity'[q] = activity[q] /\ (Greeted(q)' <=> Greeted(q))
    BY <1>4, <1>7, <1>8, <1>13 DEF ToldInv
  <2>2. CASE q # r
    <3>1. \A m : Untold(q, m)' <=> Untold(q, m)
      BY <1>10, <2>2
    <3> QED BY <1>3, <2>1, <2>2, <3>1 DEF Obeys
  <2>3. CASE q = r
    <3>0. /\ Untold(r, "pause")' => activity'[r] = "paused"
          /\ Untold(r, "play")' => activity'[r] # "paused"
          /\ Untold(r, "mute")' => activity'[r] = "muted"
          /\ Untold(r, "unmute")' => activity'[r] # "muted"
      BY <1>10, <2>1, <2>3 DEF Obeys
    <3>1. CASE msg = "pause"
      <4>1. activity[r] = "paused" /\ \A m : m # "pause" => (Untold(r, m)' <=> Untold(r, m))
        BY <1>10, <2>1, <2>3, <3>1 DEF Obeys
      <4> QED BY <1>3, <2>1, <2>3, <3>0, <3>1, <4>1 DEF Obeys
    <3>2. CASE msg = "mute"
      <4>1. activity[r] = "muted" /\ \A m : m # "mute" => (Untold(r, m)' <=> Untold(r, m))
        BY <1>10, <2>1, <2>3, <3>2 DEF Obeys
      <4> QED BY <1>3, <2>1, <2>3, <3>0, <3>2, <4>1 DEF Obeys
    <3>3. CASE msg \in ResumeMessages
      <4>1. \A m : Untold(r, m)' <=> Untold(r, m)
        BY <1>10, <3>3
      <4>2. CASE msg = "play"
        BY <1>3, <1>10, <2>1, <2>3, <3>0, <3>3, <4>1, <4>2 DEF Obeys
      <4>3. CASE msg = "unmute"
        BY <1>3, <1>10, <2>1, <2>3, <3>0, <3>3, <4>1, <4>3 DEF Obeys
      <4> QED BY <3>3, <4>2, <4>3 DEF ResumeMessages
    <3> QED BY <3>1, <3>2, <3>3 DEF Message, ResumeMessages
  <2> QED BY <2>2, <2>3
<1>14. ToldInv'
  BY <1>4, <1>13 DEF ToldInv
<1> QED BY <1>11, <1>12, <1>14

LEMMA SentTypes ==
  ASSUME PlaybackTypeOK, NEW t \in PassTask, task[t].pc \in {"clear", "schedule"}, Sent(t)
  PROVE  \E r \in Renderer, msg \in ResumeMessages, n \in Work :
           /\ Head(task[t].todo) = <<r, msg>>
           /\ Fitting(t, n) /\ Becomes(t, n)
           /\ n.pc = "send" /\ n.reg = task[t].reg /\ n.of = task[t].of
           /\ ToSet(task[t].todo) = {<<r, msg>>} \cup ToSet(n.todo)
<1> DEFINE todo == task[t].todo
           r == Head(todo)[1]
           msg == Head(todo)[2]
           n == [pc |-> "send", todo |-> Tail(todo), reg |-> task[t].reg, of |-> task[t].of]
<1>1. todo \in Seq(Renderer \X Message) /\ Resuming(todo)
  BY TodoTypes DEF Sending
<1>2. todo # <<>> /\ msg \in ResumeMessages
  BY <1>1 DEF Resuming
<1>3. Head(todo) \in Renderer \X Message /\ Tail(todo) \in Seq(Renderer \X Message)
      /\ ToSet(todo) = {Head(todo)} \cup ToSet(Tail(todo))
  <2> HIDE DEF todo
  <2> QED BY <1>1, <1>2, TodoFact
<1>4. r \in Renderer /\ Head(todo) = <<r, msg>>
  BY <1>3
<1>5. task[t].reg \subseteq Renderer /\ task[t].of \subseteq Renderer
      /\ (t \notin Starter => task[t].reg = {})
  BY TodoTypes DEF PlaybackTypeOK, Fitting
<1>6. Becomes(t, n)
  <2>1. task' = [task EXCEPT ![t].pc = "send", ![t].todo = Tail(todo)]
    BY DEF Sent
  <2> QED BY <2>1, GoesFact
<1>7. n \in Work /\ Fitting(t, n)
  BY <1>3, <1>5 DEF Work, Fitting, Todo, Sending, Holding
<1>8. n.pc = "send" /\ n.reg = task[t].reg /\ n.of = task[t].of /\ n.todo = Tail(todo)
  OBVIOUS
<1> HIDE DEF n
<1> QED BY <1>2, <1>3, <1>4, <1>6, <1>7, <1>8

LEMMA RetryTypes ==
  ASSUME PlaybackTypeOK, NEW r \in Renderer, NEW S \in SUBSET ResumeMessages,
         NEW at \in {"none", "look", "delay", "send"}
  PROVE  /\ resumeRetry' = [resumeRetry EXCEPT ![r] = S] =>
              /\ resumeRetry' \in [Renderer -> SUBSET ResumeMessages]
              /\ resumeRetry'[r] = S /\ \A q \in Renderer : q # r => resumeRetry'[q] = resumeRetry[q]
         /\ retrier' = [retrier EXCEPT ![r] = at] =>
              /\ retrier' \in [Renderer -> {"none", "look", "delay", "send"}]
              /\ retrier'[r] = at /\ \A q \in Renderer : q # r => retrier'[q] = retrier[q]
BY DEF PlaybackTypeOK

\* Of a step that leaves the message behind which was just sent
LEMMA SentInv ==
  ASSUME PlaybackTypeOK, NEW t \in PassTask, task[t].pc \in {"clear", "schedule"}, Sent(t),
         UNCHANGED <<wish, wishChanges, shown, stale, resume, activity, lifecycleLock, proc, owed, misled, deaths>>,
         resumeRetry' \in [Renderer -> SUBSET ResumeMessages],
         retrier' \in [Renderer -> {"none", "look", "delay", "send"}],
         \A q \in Renderer : retrier'[q] = "send" => retrier[q] = "send",
         RetryInv => \A q \in Renderer : Retried(q)'
  PROVE  PlaybackTypeOK' /\ (DecidedInv => DecidedInv') /\ (PlaybackInv => PlaybackInv')
<1>1. PICK r \in Renderer, msg \in ResumeMessages, n \in Work :
           /\ Head(task[t].todo) = <<r, msg>>
           /\ Fitting(t, n) /\ Becomes(t, n)
           /\ n.pc = "send" /\ n.reg = task[t].reg /\ n.of = task[t].of
           /\ ToSet(task[t].todo) = {<<r, msg>>} \cup ToSet(n.todo)
  BY SentTypes
<1>2. /\ task' \in [PassTask -> Work] /\ \A u \in PassTask : Fitting(u, task'[u])
      /\ task'[t] = n /\ \A u \in PassTask : u # t => task'[u] = task[u]
  BY <1>1, MoveFact
<1>3. PlaybackTypeOK'
  BY <1>2 DEF PlaybackTypeOK
<1>4. task[t].pc \in Sending /\ n.pc \in Sending
  BY <1>1 DEF Sending
<1>5. /\ DecidedInv => DecidedInv'
      /\ LockInv => LockInv'
      /\ LockInv /\ OwedInv => OwedInv'
      /\ StartInv => StartInv'
      /\ PoolInv => PoolInv'
      /\ \A q : Greeted(q)' <=> Greeted(q)
      /\ \A u \in PassTask : task'[u].pc = "register" => task'[u] = task[u]
  BY <1>1, <1>4, SendingKeeps
<1> SUFFICES ASSUME PlaybackInv PROVE RetryInv' /\ FreshInv' /\ ToldInv'
  BY <1>3, <1>5 DEF PlaybackInv
<1>6. LockInv /\ StartInv /\ RetryInv /\ FreshInv /\ ToldInv
  BY DEF PlaybackInv
<1>7. /\ \A q, m : Untold(q, m) <=> <<q, m>> \in ToSet(task[t].todo)
      /\ \A q, m : Untold(q, m)' <=> <<q, m>> \in ToSet(n.todo)
      /\ \A u \in PassTask : u # t => task'[u].pc \notin Holding /\ task'[u].pc \notin Sending
  BY <1>1, <1>4, <1>6, TellingFact
<1>8. /\ Untold(r, msg)
      /\ \A q, m : Untold(q, m)' => Untold(q, m)
      /\ \A q, m : <<q, m>> # <<r, msg>> => (Untold(q, m)' <=> Untold(q, m))
  BY <1>1, <1>7
<1>9. RetryInv'
  <2>1. \A u \in PassTask : task'[u].pc \notin {"clear", "schedule"}
    BY <1>1, <1>2, <1>7 DEF Sending
  <2> QED BY <1>6, <2>1 DEF RetryInv
<1>10. FreshInv'
  BY <1>5, <1>6, <1>8, FreshKeeps
<1>11. ASSUME NEW q \in Renderer, activity'[q] # "none", q \notin misled PROVE Obeys(q)'
  <2>1. Obeys(q) /\ activity'[q] = activity[q] /\ (Greeted(q)' <=> Greeted(q))
    BY <1>5, <1>6, <1>11 DEF ToldInv
  <2>2. CASE q # r
    <3>1. \A m : Untold(q, m)' <=> Untold(q, m)
      BY <1>8, <2>2
    <3> QED BY <2>1, <2>2, <3>1 DEF Obeys
  <2>3. CASE q = r
    <3>1. /\ Untold(r, "pause")' => activity'[r] = "paused"
          /\ Untold(r, "play")' => activity'[r] # "paused"
          /\ Untold(r, "mute")' => activity'[r] = "muted"
          /\ Untold(r, "unmute")' => activity'[r] # "muted"
      BY <1>8, <2>1, <2>3 DEF Obeys
    <3>2. proc[r].up => /\ proc[r].gate
                        /\ msg = "play" => ~proc[r].paused
                        /\ msg = "unmute" => ~proc[r].muted
      <4>1. Head(task[t].todo)[1] = r /\ Head(task[t].todo)[2] = msg
        BY <1>1
      <4> QED BY <1>6, <1>11, <2>3, <4>1 DEF RetryInv, Heard
    <3>3. CASE msg = "play"
      <4>1. activity[r] # "paused" /\ \A m : m # "play" => (Untold(r, m)' <=> Untold(r, m))
        BY <1>8, <2>1, <2>3, <3>3 DEF Obeys
      <4>2. proc'[r] = proc[r] /\ activity'[r] = activity[r] /\ Obeys(r)
        BY <2>1, <2>3
      <4>3. proc'[r].up /\ ~Untold(r, "mute")' /\ ~Untold(r, "unmute")' => proc'[r].muted = (activity'[r] = "muted")
        BY <4>1, <4>2 DEF Obeys
      <4>4. proc'[r].up => proc'[r].gate /\ proc'[r].paused = FALSE
        <5>1. proc[r] \in Processes
          BY DEF PlaybackTypeOK, Processes
        <5> QED BY <3>2, <3>3, <4>2, <5>1 DEF Processes
      <4>5. (activity'[r] = "paused") = FALSE
        BY <4>1
      <4> QED BY <2>3, <3>1, <4>3, <4>4, <4>5 DEF Obeys
    <3>4. CASE msg = "unmute"
      <4>1. activity[r] # "muted" /\ \A m : m # "unmute" => (Untold(r, m)' <=> Untold(r, m))
        BY <1>8, <2>1, <2>3, <3>4 DEF Obeys
      <4>2. proc'[r] = proc[r] /\ activity'[r] = activity[r] /\ Obeys(r)
        BY <2>1, <2>3
      <4>3. proc'[r].up /\ ~Untold(r, "pause")' /\ ~Untold(r, "play")' => proc'[r].paused = (activity'[r] = "paused")
        BY <4>1, <4>2 DEF Obeys
      <4>4. proc'[r].up => proc'[r].gate /\ proc'[r].muted = FALSE
        <5>1. proc[r] \in Processes
          BY DEF PlaybackTypeOK, Processes
        <5> QED BY <3>2, <3>4, <4>2, <5>1 DEF Processes
      <4>5. (activity'[r] = "muted") = FALSE
        BY <4>1
      <4> QED BY <2>3, <3>1, <4>3, <4>4, <4>5 DEF Obeys
    <3> QED BY <1>1, <3>3, <3>4 DEF ResumeMessages
  <2> QED BY <2>2, <2>3
<1>12. ToldInv'
  BY <1>11 DEF ToldInv
<1> QED BY <1>9, <1>10, <1>12

LEMMA HeadFact ==
  ASSUME PlaybackTypeOK, NEW t \in PassTask, task[t].pc \in {"clear", "schedule"}
  PROVE  Head(task[t].todo)[1] \in Renderer /\ Head(task[t].todo)[2] \in ResumeMessages
<1>1. task[t].todo \in Seq(Renderer \X Message) /\ Resuming(task[t].todo)
  BY TodoTypes DEF Sending
<1>2. Head(task[t].todo) \in Renderer \X Message
  BY <1>1, TodoFact DEF Resuming
<1> QED BY <1>1, <1>2 DEF Resuming

LEMMA ClearRetryInv ==
  ASSUME PlaybackTypeOK, NEW t \in PassTask, ClearRetry(t)
  PROVE  PlaybackTypeOK' /\ (DecidedInv => DecidedInv') /\ (PlaybackInv => PlaybackInv')
<1> DEFINE r == Head(task[t].todo)[1]
<1>1. /\ task[t].pc = "clear" /\ Sent(t)
      /\ resumeRetry' = [resumeRetry EXCEPT ![r] = {}] /\ retrier' = [retrier EXCEPT ![r] = "none"]
  BY DEF ClearRetry
<1>2. r \in Renderer
  BY <1>1, HeadFact
<1>3. UNCHANGED <<wish, wishChanges, shown, stale, resume, activity, lifecycleLock, proc, owed, misled, deaths>>
  BY DEF ClearRetry, wishes, bindings
<1> HIDE DEF r
<1>4. /\ resumeRetry' \in [Renderer -> SUBSET ResumeMessages]
      /\ resumeRetry'[r] = {} /\ \A q \in Renderer : q # r => resumeRetry'[q] = resumeRetry[q]
      /\ retrier' \in [Renderer -> {"none", "look", "delay", "send"}]
      /\ retrier'[r] = "none" /\ \A q \in Renderer : q # r => retrier'[q] = retrier[q]
  BY <1>1, <1>2, RetryTypes
<1>5. \A q \in Renderer : retrier'[q] = "send" => retrier[q] = "send"
  BY <1>4
<1>6. RetryInv => \A q \in Renderer : Retried(q)'
  BY <1>3, <1>4 DEF RetryInv, Retried
<1> QED BY <1>1, <1>3, <1>4, <1>5, <1>6, SentInv

LEMMA ScheduleRetryInv ==
  ASSUME PlaybackTypeOK, NEW t \in PassTask, ScheduleRetry(t)
  PROVE  PlaybackTypeOK' /\ (DecidedInv => DecidedInv') /\ (PlaybackInv => PlaybackInv')
<1> DEFINE r == Head(task[t].todo)[1]
           msg == Head(task[t].todo)[2]
<1>1. /\ task[t].pc = "schedule" /\ Sent(t)
      /\ IF activity[r] # "playing"
             THEN resumeRetry' = [resumeRetry EXCEPT ![r] = {}] /\ retrier' = [retrier EXCEPT ![r] = "none"]
           ELSE IF resumeRetry[r] = {}
             THEN /\ resumeRetry' = [resumeRetry EXCEPT ![r] = {msg}]
                  /\ retrier' = [retrier EXCEPT ![r] = "look"]
           ELSE UNCHANGED <<resumeRetry, retrier>>
  BY DEF ScheduleRetry
<1>2. r \in Renderer /\ {msg} \in SUBSET ResumeMessages
  BY <1>1, HeadFact
<1>3. UNCHANGED <<wish, wishChanges, shown, stale, resume, activity, lifecycleLock, proc, owed, misled, deaths>>
  BY DEF ScheduleRetry, wishes, bindings
<1>4. RetryInv => ~proc[r].up \/ r \in misled
  BY <1>1 DEF RetryInv, Heard
<1> HIDE DEF r, msg
<1>5. CASE activity[r] # "playing"
  <2>1. /\ resumeRetry' \in [Renderer -> SUBSET ResumeMessages]
        /\ resumeRetry'[r] = {} /\ \A q \in Renderer : q # r => resumeRetry'[q] = resumeRetry[q]
        /\ retrier' \in [Renderer -> {"none", "look", "delay", "send"}]
        /\ retrier'[r] = "none" /\ \A q \in Renderer : q # r => retrier'[q] = retrier[q]
    BY <1>1, <1>2, <1>5, RetryTypes
  <2>2. \A q \in Renderer : retrier'[q] = "send" => retrier[q] = "send"
    BY <2>1
  <2>3. RetryInv => \A q \in Renderer : Retried(q)'
    BY <1>3, <2>1 DEF RetryInv, Retried
  <2> QED BY <1>1, <1>3, <2>1, <2>2, <2>3, SentInv
<1>6. CASE activity[r] = "playing" /\ resumeRetry[r] = {}
  <2>1. /\ resumeRetry' \in [Renderer -> SUBSET ResumeMessages]
        /\ resumeRetry'[r] = {msg} /\ \A q \in Renderer : q # r => resumeRetry'[q] = resumeRetry[q]
        /\ retrier' \in [Renderer -> {"none", "look", "delay", "send"}]
        /\ retrier'[r] = "look" /\ \A q \in Renderer : q # r => retrier'[q] = retrier[q]
    BY <1>1, <1>2, <1>6, RetryTypes
  <2>2. \A q \in Renderer : retrier'[q] = "send" => retrier[q] = "send"
    BY <2>1
  <2>3. RetryInv => \A q \in Renderer : Retried(q)'
    BY <1>3, <1>4, <1>6, <2>1 DEF RetryInv, Retried
  <2> QED BY <1>1, <1>3, <2>1, <2>2, <2>3, SentInv
<1>7. CASE activity[r] = "playing" /\ resumeRetry[r] # {}
  <2>1. resumeRetry' = resumeRetry /\ retrier' = retrier
    BY <1>1, <1>7
  <2>2. /\ resumeRetry' \in [Renderer -> SUBSET ResumeMessages]
        /\ retrier' \in [Renderer -> {"none", "look", "delay", "send"}]
        /\ \A q \in Renderer : retrier'[q] = "send" => retrier[q] = "send"
    BY <2>1 DEF PlaybackTypeOK
  <2>3. RetryInv => \A q \in Renderer : Retried(q)'
    BY <1>3, <2>1 DEF RetryInv, Retried
  <2> QED BY <1>1, <1>3, <2>2, <2>3, SentInv
<1> QED BY <1>5, <1>6, <1>7

\* The steps of the task that retries: nobody is told anything
LEMMA RetrierInv ==
  ASSUME PlaybackTypeOK, NEW r \in Renderer,
         UNCHANGED <<wish, wishChanges, shown, stale, resume, activity, task, proc, owed, misled, deaths>>,
         retrier[r] # "none",
         \/ UNCHANGED resumeRetry /\ \E at \in {"look", "delay", "send"} : retrier' = [retrier EXCEPT ![r] = at]
         \/ /\ resumeRetry' = [resumeRetry EXCEPT ![r] = {}]
            /\ retrier' = [retrier EXCEPT ![r] = "none"],
         lifecycleLock' \in {lifecycleLock, Retrier(r), Nobody},
         LockInv => LockInv'
  PROVE  PlaybackTypeOK' /\ (DecidedInv => DecidedInv') /\ (PlaybackInv => PlaybackInv')
<1>1. /\ resumeRetry' \in [Renderer -> SUBSET ResumeMessages]
      /\ retrier' \in [Renderer -> {"none", "look", "delay", "send"}]
      /\ \A q \in Renderer : q # r => resumeRetry'[q] = resumeRetry[q] /\ retrier'[q] = retrier[q]
      /\ \/ resumeRetry'[r] = resumeRetry[r] /\ retrier'[r] # "none"
         \/ resumeRetry'[r] = {} /\ retrier'[r] = "none"
  <2>1. CASE /\ resumeRetry' = [resumeRetry EXCEPT ![r] = {}]
             /\ retrier' = [retrier EXCEPT ![r] = "none"]
    BY <2>1, RetryTypes
  <2>2. CASE UNCHANGED resumeRetry /\ \E at \in {"look", "delay", "send"} : retrier' = [retrier EXCEPT ![r] = at]
    <3>1. PICK at \in {"look", "delay", "send"} : retrier' = [retrier EXCEPT ![r] = at]
      BY <2>2
    <3>2. resumeRetry' \in [Renderer -> SUBSET ResumeMessages]
      BY <2>2 DEF PlaybackTypeOK
    <3> QED BY <2>2, <3>1, <3>2, RetryTypes
  <2> QED BY <2>1, <2>2
<1>2. PlaybackTypeOK'
  <2>1. lifecycleLock' \in PassTask \cup {Retrier(q) : q \in Renderer} \cup {Nobody}
    BY DEF PlaybackTypeOK
  <2> QED BY <1>1, <2>1 DEF PlaybackTypeOK
<1>3. DecidedInv => DecidedInv'
  BY DecidedStays
<1>4. RetryInv => RetryInv'
  <2>1. ASSUME RetryInv, NEW q \in Renderer PROVE Retried(q)'
    <3>1. Retried(q)
      BY <2>1 DEF RetryInv
    <3> QED BY <1>1, <3>1 DEF Retried
  <2> QED BY <2>1 DEF RetryInv, Heard
<1>5. \A q, m : Untold(q, m)' <=> Untold(q, m)
  BY DEF Untold, Tells
<1>6. /\ StartInv => StartInv'
      /\ PoolInv => PoolInv'
      /\ FreshInv => FreshInv'
  BY <1>5 DEF StartInv, Starts, PoolInv, FreshInv
<1>7. ToldInv => ToldInv'
  BY <1>5 DEF ToldInv, Obeys, Greeted
<1>8. OwedInv => OwedInv'
  <2>1. \A d : (Paused(d, wish)' <=> Paused(d, wish)) /\ (Enabled(d)' <=> Enabled(d))
    BY DEF Paused, GlobalPaused, Enabled
  <2>2. \A d, u : Asks(u, d)' <=> Asks(u, d)
    BY DEF Asks
  <2> QED BY <2>1, <2>2 DEF OwedInv, Excused
<1> QED BY <1>2, <1>3, <1>4, <1>6, <1>7, <1>8 DEF PlaybackInv

LEMMA RetryLookInv ==
  ASSUME PlaybackTypeOK, NEW r \in Renderer, RetryLook(r)
  PROVE  PlaybackTypeOK' /\ (DecidedInv => DecidedInv') /\ (PlaybackInv => PlaybackInv')
<1>1. UNCHANGED <<wish, wishChanges, shown, stale, resume, activity, lifecycleLock, task, proc, owed, misled, deaths>>
  BY DEF RetryLook, wishes, bindings
<1>2. retrier[r] = "look"
      /\ \/ UNCHANGED resumeRetry /\ retrier' = [retrier EXCEPT ![r] = "delay"]
         \/ /\ resumeRetry' = [resumeRetry EXCEPT ![r] = {}]
            /\ retrier' = [retrier EXCEPT ![r] = "none"]
  BY DEF RetryLook, LookAgain
<1>3. \A q \in Renderer : retrier'[q] = "send" => retrier[q] = "send"
  BY <1>2, RetryTypes
<1>4. LockInv => LockInv'
  BY <1>1, <1>3 DEF LockInv
<1> QED BY <1>1, <1>2, <1>4, RetrierInv

LEMMA RetryLockInv ==
  ASSUME PlaybackTypeOK, NEW r \in Renderer, RetryLock(r)
  PROVE  PlaybackTypeOK' /\ (DecidedInv => DecidedInv') /\ (PlaybackInv => PlaybackInv')
<1>1. UNCHANGED <<wish, wishChanges, shown, stale, resume, activity, task, proc, owed, misled, deaths>>
  BY DEF RetryLock, wishes, bindings
<1>2. retrier[r] = "delay" /\ lifecycleLock = Nobody
      /\ lifecycleLock' = (IF retrier'[r] = "send" THEN Retrier(r) ELSE Nobody)
      /\ \/ UNCHANGED resumeRetry /\ retrier' = [retrier EXCEPT ![r] = "send"]
         \/ /\ resumeRetry' = [resumeRetry EXCEPT ![r] = {}]
            /\ retrier' = [retrier EXCEPT ![r] = "none"]
  BY DEF RetryLock, LookAgain
<1>3. ASSUME LockInv PROVE LockInv'
  <2>1. \A t \in PassTask : task'[t].pc \notin Holding
    BY <1>1, <1>2, <1>3, TasksFact DEF LockInv
  <2>2. \A q \in Renderer : retrier[q] # "send"
    BY <1>2, <1>3, TasksFact DEF LockInv
  <2>3. \A q \in Renderer : q # r => retrier'[q] # "send"
    BY <1>2, <2>2, RetryTypes
  <2> QED BY <1>2, <2>1, <2>3 DEF LockInv
<1> QED BY <1>1, <1>2, <1>3, RetrierInv

LEMMA RetrySendTypes ==
  ASSUME PlaybackTypeOK, NEW r \in Renderer, RetrySend(r)
  PROVE  PlaybackTypeOK' /\ (DecidedInv => DecidedInv')
<1>1. PICK msg \in resumeRetry[r] : Tell(r, msg)
  BY DEF RetrySend
<1>2. msg \in Message
  BY <1>1 DEF PlaybackTypeOK, ResumeMessages, Message
<1>3. proc' \in [Renderer -> Processes]
  BY <1>1, <1>2, TellFact
<1>4. UNCHANGED <<wish, wishChanges, shown, stale, resume, activity, task, owed, misled, deaths>>
  BY DEF RetrySend, wishes, bindings
<1>5. lifecycleLock' = Nobody
  BY DEF RetrySend
<1>6. resumeRetry' \in [Renderer -> SUBSET ResumeMessages]
      /\ retrier' \in [Renderer -> {"none", "look", "delay", "send"}]
  <2>1. CASE proc[r].up
    BY <2>1, RetryTypes DEF RetrySend
  <2>2. CASE ~proc[r].up
    <3>1. UNCHANGED resumeRetry /\ retrier' = [retrier EXCEPT ![r] = "look"]
      BY <2>2 DEF RetrySend
    <3>2. resumeRetry' \in [Renderer -> SUBSET ResumeMessages]
      BY <3>1 DEF PlaybackTypeOK
    <3> QED BY <3>1, <3>2, RetryTypes
  <2> QED BY <2>1, <2>2
<1>7. PlaybackTypeOK'
  BY <1>3, <1>4, <1>5, <1>6 DEF PlaybackTypeOK, Processes
<1>8. DecidedInv => DecidedInv'
  BY <1>4, DecidedStays
<1> QED BY <1>7, <1>8

\* Only a renderer that is misled may live while it is retried
LEMMA RetrySendInv ==
  ASSUME PlaybackTypeOK, PlaybackInv, NEW r \in Renderer, RetrySend(r)
  PROVE  PlaybackInv'
<1>1. LockInv /\ StartInv /\ PoolInv /\ RetryInv /\ FreshInv /\ ToldInv /\ OwedInv
  BY DEF PlaybackInv
<1>2. retrier[r] = "send" /\ lifecycleLock = Retrier(r) /\ lifecycleLock' = Nobody
  BY <1>1 DEF RetrySend, LockInv
<1>3. PICK msg \in resumeRetry[r] : Tell(r, msg)
  BY DEF RetrySend
<1>4. msg \in Message
  BY <1>3 DEF PlaybackTypeOK, ResumeMessages, Message
<1>5. /\ proc' \in [Renderer -> Processes]
      /\ \A q \in Renderer : proc'[q].up = proc[q].up /\ proc'[q].pool = proc[q].pool
      /\ \A q \in Renderer : q # r => proc'[q] = proc[q]
      /\ ~proc[r].up => proc' = proc
  BY <1>3, <1>4, TellFact
<1>6. UNCHANGED <<wish, wishChanges, shown, stale, resume, activity, task, owed, misled, deaths>>
  BY DEF RetrySend, wishes, bindings
<1>7. /\ \A t \in PassTask : task[t].pc \notin Holding
      /\ \A q \in Renderer : q # r => retrier[q] # "send"
  BY <1>1, <1>2, TasksFact DEF LockInv
<1>8. /\ retrier'[r] # "send" /\ \A q \in Renderer : q # r => retrier'[q] = retrier[q]
  <2>1. CASE proc[r].up
    BY <2>1, RetryTypes DEF RetrySend
  <2>2. CASE ~proc[r].up
    BY <2>2, RetryTypes DEF RetrySend
  <2> QED BY <2>1, <2>2
<1>9. LockInv'
  BY <1>6, <1>7, <1>8 DEF LockInv
<1>10. CASE ~proc[r].up
  <2>1. UNCHANGED resumeRetry /\ retrier' = [retrier EXCEPT ![r] = "look"]
    BY <1>10 DEF RetrySend
  <2> QED BY <1>2, <1>5, <1>6, <1>9, <1>10, <2>1, RetrierInv
<1>11. CASE proc[r].up
  <2>1. r \in misled /\ activity[r] # "none"
    BY <1>1, <1>3, <1>11 DEF RetryInv, Retried
  <2>2. /\ resumeRetry' = [resumeRetry EXCEPT ![r] = {}]
        /\ retrier' = [retrier EXCEPT ![r] = "none"]
    BY <1>11 DEF RetrySend
  <2>3. /\ resumeRetry'[r] = {} /\ \A q \in Renderer : q # r => resumeRetry'[q] = resumeRetry[q]
        /\ retrier'[r] = "none" /\ \A q \in Renderer : q # r => retrier'[q] = retrier[q]
    BY <2>2, RetryTypes
  <2>4. RetryInv'
    <3>1. \A t \in PassTask : task'[t].pc \notin {"clear", "schedule"}
      BY <1>6, <1>7 DEF Holding, Sending
    <3>2. ASSUME NEW q \in Renderer PROVE Retried(q)'
      <4>1. Retried(q)
        BY <1>1 DEF RetryInv
      <4> QED BY <1>5, <1>6, <2>3, <4>1 DEF Retried
    <3> QED BY <3>1, <3>2 DEF RetryInv
  <2>5. \A q, m : Untold(q, m)' <=> Untold(q, m)
    BY <1>6 DEF Untold, Tells
  <2>6. StartInv' /\ PoolInv' /\ FreshInv'
    BY <1>1, <1>5, <1>6, <2>1, <2>5, StartKeeps, PoolKeeps, FreshKeeps
  <2>7. ToldInv'
    <3>1. ASSUME NEW q \in Renderer, activity[q] # "none", q \notin misled PROVE Obeys(q)'
      <4>1. q # r /\ proc'[q] = proc[q] /\ Obeys(q)
        BY <1>1, <1>5, <2>1, <3>1 DEF ToldInv
      <4>2. Greeted(q)' <=> Greeted(q)
        BY <1>6 DEF Greeted
      <4> QED BY <1>6, <2>5, <4>1, <4>2 DEF Obeys
    <3> QED BY <1>6, <3>1 DEF ToldInv
  <2>8. OwedInv'
    <3>1. \A d : (Paused(d, wish)' <=> Paused(d, wish)) /\ (Enabled(d)' <=> Enabled(d))
      BY <1>6 DEF Paused, GlobalPaused, Enabled
    <3>2. \A d, u : Asks(u, d)' <=> Asks(u, d)
      BY <1>6 DEF Asks
    <3>3. \A d \in owed : Excused(d) => Excused(d)'
      BY <1>5, <1>6, PlaybackAssumption DEF Excused, PlaybackTypeOK
    <3> QED BY <1>1, <1>6, <3>1, <3>2, <3>3 DEF OwedInv
  <2> QED BY <1>9, <2>4, <2>6, <2>7, <2>8 DEF PlaybackInv
<1> QED BY <1>10, <1>11

LEMMA DieInv ==
  ASSUME PlaybackTypeOK, NEW r \in Renderer, Die(r)
  PROVE  PlaybackTypeOK' /\ (DecidedInv => DecidedInv') /\ (PlaybackInv => PlaybackInv')
<1>1. UNCHANGED <<wish, wishChanges, shown, stale, resume, activity, resumeRetry, retrier, lifecycleLock, task, owed, misled>>
  BY DEF Die, wishes, bindings, slots
<1>2. proc' = [proc EXCEPT ![r].up = FALSE] /\ deaths < MaxDeaths /\ deaths' = deaths + 1
  BY DEF Die
<1>3. /\ proc' \in [Renderer -> Processes]
      /\ \A q \in Renderer : q # r => proc'[q] = proc[q]
      /\ proc'[r].up = FALSE /\ proc'[r].pool = proc[r].pool
  <2>1. proc \in [Renderer -> Processes]
    BY DEF PlaybackTypeOK, Processes
  <2> DEFINE p == [proc[r] EXCEPT !.up = FALSE]
  <2>2. p \in Processes /\ p.up = FALSE /\ p.pool = proc[r].pool
    BY <2>1 DEF Processes
  <2>3. proc' = [proc EXCEPT ![r] = p]
    BY <1>2
  <2> HIDE DEF p
  <2> QED BY <2>1, <2>2, <2>3
<1>4. PlaybackTypeOK'
  <2>1. deaths' \in 0 .. MaxDeaths
    BY <1>2, PlaybackAssumption DEF PlaybackTypeOK
  <2> QED BY <1>1, <1>3, <2>1 DEF PlaybackTypeOK, Processes
<1>5. DecidedInv => DecidedInv'
  BY <1>1, DecidedStays
<1>6. LockInv => LockInv'
  BY <1>1 DEF LockInv
<1>7. RetryInv => RetryInv'
  <2>1. \A t \in PassTask : task[t].pc \in {"clear", "schedule"} => Head(task[t].todo)[1] \in Renderer
    BY HeadFact
  <2> QED BY <1>1, <1>3, <2>1 DEF RetryInv, Heard, Retried
<1>8. \A q, m : Untold(q, m)' <=> Untold(q, m)
  BY <1>1 DEF Untold, Tells
<1>9. /\ StartInv => StartInv'
      /\ PoolInv => PoolInv'
      /\ StartInv /\ FreshInv => FreshInv'
  <2>1. \A q \in Renderer : proc'[q].pool = proc[q].pool /\ (proc'[q].up => proc'[q] = proc[q])
    BY <1>3
  <2> QED BY <1>1, <1>8, <2>1, StartKeeps, PoolKeeps, FreshKeeps
<1>10. ToldInv => ToldInv'
  <2>1. ASSUME ToldInv, NEW q \in Renderer, activity'[q] # "none", q \notin misled PROVE Obeys(q)'
    <3>1. Obeys(q) /\ activity'[q] = activity[q] /\ (Greeted(q)' <=> Greeted(q))
      BY <1>1, <2>1 DEF ToldInv, Greeted
    <3>2. proc'[q].up => proc'[q] = proc[q]
      BY <1>3
    <3> QED BY <1>8, <3>1, <3>2 DEF Obeys
  <2> QED BY <1>1, <2>1 DEF ToldInv
<1>11. OwedInv => OwedInv'
  <2>1. \A d : (Paused(d, wish)' <=> Paused(d, wish)) /\ (Enabled(d)' <=> Enabled(d))
    BY <1>1 DEF Paused, GlobalPaused, Enabled
  <2>2. \A d, u : Asks(u, d)' <=> Asks(u, d)
    BY <1>1 DEF Asks
  <2>3. \A d \in owed : proc'[RendererOf[d]].up => proc[RendererOf[d]].up
    BY <1>3, PlaybackAssumption DEF PlaybackTypeOK
  <2> QED BY <1>1, <2>1, <2>2, <2>3 DEF OwedInv, Excused
<1> QED BY <1>4, <1>5, <1>6, <1>7, <1>9, <1>10, <1>11 DEF PlaybackInv

\* The event task of a renderer starts on a pass
LEMMA EventInv ==
  ASSUME PlaybackTypeOK, NEW r \in Renderer, NEW pc \in {"sync", "lock"},
         NEW of \in SUBSET Renderer, task[Events(r)] = Rest,
         Becomes(Events(r), [pc |-> pc, todo |-> <<>>, reg |-> {}, of |-> of]),
         UNCHANGED <<wish, wishChanges, stale, resume, activity, resumeRetry, retrier, lifecycleLock, owed, misled, deaths>>,
         proc' \in [Renderer -> Processes],
         \A q \in Renderer :
           /\ activity[q] = "none" => proc'[q] = proc[q]
           /\ proc[q].pool => proc'[q].pool
           /\ proc'[q].up = proc[q].up /\ proc'[q].paused = proc[q].paused
           /\ proc'[q].muted = proc[q].muted /\ proc'[q].gate = proc[q].gate,
         shown' \in [LinkedDisplay -> {"unbound", "awaiting", "shown"}],
         \A d \in LinkedDisplay : shown[d] = "unbound" => shown'[d] = "unbound"
  PROVE  PlaybackTypeOK' /\ DecidedInv' /\ (PlaybackInv => PlaybackInv')
<1> DEFINE t == Events(r)
           n == [pc |-> pc, todo |-> <<>>, reg |-> {}, of |-> of]
<1>1. t \in PassTask /\ t # Host /\ Host \in PassTask
  BY TasksFact
<1>2. n \in Work /\ Fitting(t, n)
  <2>1. n.todo \in Todo(n.pc)
    BY DEF Todo
  <2>2. <<>> \in Seq(Renderer)
    OBVIOUS
  <2> QED BY <2>1, <2>2 DEF Work, Fitting, Deciding
<1>3. Becomes(t, n)
  OBVIOUS
<1>4. /\ task' \in [PassTask -> Work] /\ \A u \in PassTask : Fitting(u, task'[u])
      /\ task'[t] = n /\ \A u \in PassTask : u # t => task'[u] = task[u]
  BY <1>1, <1>2, <1>3, MoveFact
<1>5. task[t].pc \notin Sending /\ n.pc \notin Sending /\ n.pc \in Deciding /\ n.pc \notin Holding
      /\ task[t].pc = "idle" /\ n.pc = pc
  BY DEF Rest, Sending, Deciding, Holding
<1> HIDE DEF n, t
<1>6. PlaybackTypeOK'
  BY <1>4 DEF PlaybackTypeOK, Processes
<1>7. /\ \A q, msg : Untold(q, msg)' <=> Untold(q, msg)
      /\ \A d : \A u \in PassTask : Asks(u, d) => Asks(u, d)'
  BY <1>1, <1>2, <1>3, <1>5, QuietFact
<1>8. DecidedInv'
  BY <1>1, <1>4, <1>5 DEF DecidedInv
<1>9. LockInv => LockInv'
  BY <1>1, <1>4, <1>5 DEF LockInv
<1>10. ASSUME RetryInv PROVE RetryInv'
  <2>1. ASSUME NEW u \in PassTask, task'[u].pc \in {"clear", "schedule"}, Head(task'[u].todo)[1] \notin misled
        PROVE  Heard(u)'
    <3>1. task'[u] = task[u]
      BY <1>4, <1>5, <2>1
    <3>2. Head(task[u].todo)[1] \in Renderer
      BY <2>1, <3>1, HeadFact
    <3> QED BY <1>10, <2>1, <3>1, <3>2 DEF RetryInv, Heard
  <2>2. \A q \in Renderer : Retried(q)'
    BY <1>10 DEF RetryInv, Retried
  <2> QED BY <2>1, <2>2 DEF RetryInv
<1>11. /\ StartInv => StartInv'
       /\ PoolInv => PoolInv'
       /\ StartInv /\ FreshInv => FreshInv'
  <2>1. \A u \in PassTask : task'[u].pc \in {"spawn", "register"} => task'[u] = task[u]
    BY <1>4, <1>5
  <2>2. task'[Host] = task[Host]
    BY <1>1, <1>4
  <2> QED BY <1>7, <2>1, <2>2, StartKeeps, PoolKeeps, FreshKeeps
<1>12. ToldInv => ToldInv'
  <2>1. \A q : Greeted(q) => Greeted(q)'
    BY <1>1, <1>4, <1>5 DEF Greeted
  <2> QED BY <1>7, <2>1 DEF ToldInv, Obeys
<1>13. ASSUME OwedInv PROVE OwedInv'
  <2>1. \A d : Paused(d, wish)' <=> Paused(d, wish)
    BY DEF Paused, GlobalPaused
  <2>2. \A d \in owed : d \in LinkedDisplay /\ proc'[RendererOf[d]].up = proc[RendererOf[d]].up
    BY PlaybackAssumption DEF PlaybackTypeOK
  <2>3. \E u \in PassTask : task'[u].pc \in Deciding \cup Sending
    BY <1>1, <1>4, <1>5
  <2> QED BY <1>7, <1>13, <2>1, <2>2, <2>3 DEF OwedInv, Excused
<1> QED BY <1>6, <1>8, <1>9, <1>10, <1>11, <1>12, <1>13 DEF PlaybackInv

LEMMA BindInv ==
  ASSUME PlaybackTypeOK, NEW r \in Renderer, Bind(r)
  PROVE  PlaybackTypeOK' /\ DecidedInv' /\ (PlaybackInv => PlaybackInv')
<1>1. /\ UNCHANGED <<wish, wishChanges, shown, stale, resume, activity, resumeRetry, retrier, lifecycleLock, owed, misled, deaths>>
      /\ task[Events(r)] = Rest /\ task' = [task EXCEPT ![Events(r)].pc = "sync", ![Events(r)].of = {r}]
      /\ activity[r] # "none" /\ proc' = [proc EXCEPT ![r].pool = TRUE]
  BY DEF Bind, wishes, bindings, slots
<1>2. proc \in [Renderer -> Processes]
  BY DEF PlaybackTypeOK, Processes
<1> DEFINE p == [proc[r] EXCEPT !.pool = TRUE]
<1>3. /\ p \in Processes /\ p.pool /\ p.up = proc[r].up /\ p.paused = proc[r].paused /\ p.muted = proc[r].muted
      /\ p.gate = proc[r].gate
  BY <1>2 DEF Processes
<1>4. proc' = [proc EXCEPT ![r] = p]
  BY <1>1
<1> HIDE DEF p
<1>5. /\ proc' \in [Renderer -> Processes]
      /\ proc'[r] = p /\ \A q \in Renderer : q # r => proc'[q] = proc[q]
  BY <1>2, <1>3, <1>4
<1>6. \A q \in Renderer :
           /\ activity[q] = "none" => proc'[q] = proc[q]
           /\ proc[q].pool => proc'[q].pool
           /\ proc'[q].up = proc[q].up /\ proc'[q].paused = proc[q].paused
           /\ proc'[q].muted = proc[q].muted /\ proc'[q].gate = proc[q].gate
  BY <1>1, <1>3, <1>5
<1>7. shown' \in [LinkedDisplay -> {"unbound", "awaiting", "shown"}] /\ shown' = shown
  BY <1>1 DEF PlaybackTypeOK
<1>8. Becomes(Events(r), [pc |-> "sync", todo |-> <<>>, reg |-> {}, of |-> {r}])
  BY <1>1, TasksFact, RestFact, GoesFact
<1>9. {r} \in SUBSET Renderer
  OBVIOUS
<1> QED BY <1>1, <1>5, <1>6, <1>7, <1>8, <1>9, EventInv

LEMMA FrameInv ==
  ASSUME PlaybackTypeOK, NEW r \in Renderer, Frame(r)
  PROVE  PlaybackTypeOK' /\ DecidedInv' /\ (PlaybackInv => PlaybackInv')
<1> DEFINE first == {d \in LinkedDisplay :
                       RendererOf[d] = r /\ shown[d] = "awaiting" /\ d \notin stale /\ FrameDemand(d)}
<1>1. /\ UNCHANGED <<wish, wishChanges, stale, resume, activity, resumeRetry, retrier, lifecycleLock, proc, owed, misled, deaths>>
      /\ task[Events(r)] = Rest /\ task' = [task EXCEPT ![Events(r)].pc = "lock"]
      /\ shown' = [d \in LinkedDisplay |-> IF d \in first THEN "shown" ELSE shown[d]]
  BY DEF Frame, wishes, bindings, slots
<1>2. /\ shown' \in [LinkedDisplay -> {"unbound", "awaiting", "shown"}]
      /\ \A d \in LinkedDisplay : shown[d] = "unbound" => shown'[d] = "unbound"
  BY <1>1 DEF PlaybackTypeOK
<1>3. proc' \in [Renderer -> Processes] /\ proc' = proc
  BY <1>1 DEF PlaybackTypeOK, Processes
<1>4. Becomes(Events(r), [pc |-> "lock", todo |-> <<>>, reg |-> {}, of |-> {}])
  BY <1>1, TasksFact, RestFact, GoesFact
<1>5. {} \in SUBSET Renderer
  OBVIOUS
<1> QED BY <1>1, <1>2, <1>3, <1>4, <1>5, EventInv

LEMMA UnsentFact ==
  ASSUME PlaybackTypeOK, NEW t \in PassTask
  PROVE  /\ Unsent(t) \subseteq Renderer
         /\ \A q, msg : Tells(t, q, msg) => q \in Unsent(t)
         /\ \A d : Asks(t, d) => RendererOf[d] \in Unsent(t)
         /\ task[t].pc \in {"clear", "schedule"} => Head(task[t].todo)[1] \in Unsent(t)
<1>1. CASE task[t].pc \in Sending
  <2>1. Unsent(t) = {task[t].todo[i][1] : i \in DOMAIN task[t].todo}
    BY <1>1 DEF Unsent, Sending
  <2>2. task[t].todo \in Seq(Renderer \X Message)
    BY <1>1, TodoTypes
  <2>3. Unsent(t) \subseteq Renderer
    <3>1. \A i \in DOMAIN task[t].todo : task[t].todo[i] \in Renderer \X Message
      BY <2>2
    <3> QED BY <2>1, <3>1
  <2>4. ASSUME NEW q, NEW msg, Tells(t, q, msg) PROVE q \in Unsent(t)
    <3>1. PICK i \in DOMAIN task[t].todo : task[t].todo[i] = <<q, msg>>
      BY <2>4 DEF Tells, ToSet
    <3>2. task[t].todo[i][1] = q
      BY <3>1
    <3> QED BY <2>1, <3>1, <3>2
  <2>5. ASSUME task[t].pc \in {"clear", "schedule"} PROVE Head(task[t].todo)[1] \in Unsent(t)
    <3>1. task[t].todo # <<>>
      BY <2>5, TodoTypes DEF Resuming
    <3>2. 1 \in DOMAIN task[t].todo /\ Head(task[t].todo) = task[t].todo[1]
      BY <2>2, <3>1
    <3> QED BY <2>1, <3>2
  <2>6. \A d : ~Asks(t, d)
    BY <1>1 DEF Asks, Sending
  <2> QED BY <2>3, <2>4, <2>5, <2>6
<1>2. CASE task[t].pc = "ask"
  <2>1. Unsent(t) = Range(task[t].todo) /\ task[t].todo \in Seq(Renderer)
    BY <1>2, TodoTypes DEF Unsent
  <2>2. Unsent(t) \subseteq Renderer /\ \A d : Asks(t, d) => RendererOf[d] \in Unsent(t)
    BY <2>1 DEF Asks, ToSet, Range
  <2>3. \A q, msg : ~Tells(t, q, msg)
    BY <1>2 DEF Tells, Sending
  <2> QED BY <1>2, <2>2, <2>3
<1>3. CASE task[t].pc \notin Sending \cup {"ask"}
  BY <1>3 DEF Unsent, Tells, Asks, Sending
<1> QED BY <1>1, <1>2, <1>3

LEMMA SettleTypes ==
  ASSUME PlaybackTypeOK, NEW r \in Renderer, Settle(r)
  PROVE  /\ PlaybackTypeOK'
         /\ task[Host] = Rest /\ task'[Events(r)] = Rest
         /\ task'[Host] = [pc |-> "sync", todo |-> <<>>, reg |-> {}, of |-> {r}]
         /\ \A u \in PassTask : u # Events(r) /\ u # Host => task'[u] = task[u]
         /\ activity'[r] = "none" /\ resumeRetry'[r] = {} /\ retrier'[r] = "none"
         /\ \A q \in Renderer : q # r =>
              activity'[q] = activity[q] /\ resumeRetry'[q] = resumeRetry[q] /\ retrier'[q] = retrier[q]
<1> DEFINE t == Events(r)
           host == [pc |-> "sync", todo |-> <<>>, reg |-> {}, of |-> {r}]
<1>1. t \in PassTask /\ t # Host /\ Host \in PassTask
  BY TasksFact
<1>2. /\ task[Host] = Rest
      /\ task' = [task EXCEPT ![t] = Rest, ![Host].pc = "sync", ![Host].of = {r}]
      /\ activity' = [activity EXCEPT ![r] = "none"]
      /\ resumeRetry' = [resumeRetry EXCEPT ![r] = {}]
      /\ retrier' = [retrier EXCEPT ![r] = "none"]
  BY DEF Settle
<1>3. /\ UNCHANGED <<wish, wishChanges, shown, resume, proc, owed, deaths>>
      /\ stale' \subseteq LinkedDisplay /\ misled' \subseteq Renderer
  BY UnsentFact, <1>1 DEF Settle, wishes, PlaybackTypeOK
<1> HIDE DEF t
<1>4. /\ task'[t] = Rest /\ \A u \in PassTask : u # t /\ u # Host => task'[u] = task[u]
      /\ DOMAIN task' = PassTask
      /\ task'[Host] = [[task[Host] EXCEPT !.pc = "sync"] EXCEPT !.of = {r}]
  <2>1. task \in [PassTask -> Work]
    BY DEF PlaybackTypeOK
  <2> DEFINE one == [task EXCEPT ![t] = Rest]
             two == [one EXCEPT ![Host] = [one[Host] EXCEPT !.pc = "sync"]]
             three == [two EXCEPT ![Host] = [two[Host] EXCEPT !.of = {r}]]
  <2>2. task' = three
    BY <1>2
  <2>3. DOMAIN one = PassTask /\ one[t] = Rest /\ one[Host] = task[Host]
        /\ \A u \in PassTask : u # t => one[u] = task[u]
    BY <1>1, <2>1
  <2> HIDE DEF one
  <2>4. DOMAIN two = PassTask /\ two[Host] = [one[Host] EXCEPT !.pc = "sync"]
        /\ \A u \in PassTask : u # Host => two[u] = one[u]
    BY <1>1, <2>3
  <2> HIDE DEF two
  <2>5. DOMAIN three = PassTask /\ three[Host] = [two[Host] EXCEPT !.of = {r}]
        /\ \A u \in PassTask : u # Host => three[u] = two[u]
    BY <1>1, <2>4
  <2> HIDE DEF three
  <2> QED BY <1>1, <2>2, <2>3, <2>4, <2>5
<1>5. task'[Host] = host
  <2>1. [[Rest EXCEPT !.pc = "sync"] EXCEPT !.of = {r}] = [Rest EXCEPT !.pc = "sync", !.of = {r}]
    OBVIOUS
  <2> QED BY <1>2, <1>4, <2>1, RestFact
<1>6. Rest \in Work /\ Fitting(t, Rest) /\ host \in Work /\ Fitting(Host, host)
  <2>1. host.todo \in Todo(host.pc)
    BY DEF Todo
  <2>2. <<>> \in Seq(Renderer)
    OBVIOUS
  <2>3. Host \in Starter
    BY TasksFact
  <2> QED BY <2>1, <2>2, <2>3, RestFact DEF Work, Deciding, Fitting
<1> HIDE DEF host
<1>7. /\ task' \in [PassTask -> Work] /\ \A u \in PassTask : Fitting(u, task'[u])
  <2>1. ASSUME NEW u \in PassTask PROVE task'[u] \in Work /\ Fitting(u, task'[u])
    <3>1. task[u] \in Work /\ Fitting(u, task[u])
      BY DEF PlaybackTypeOK
    <3> QED BY <1>1, <1>4, <1>5, <1>6, <3>1
  <2>2. task' = [u \in PassTask |-> task'[u]]
    BY <1>2, <1>4 DEF PlaybackTypeOK
  <2> QED BY <2>1, <2>2
<1>8. /\ activity' \in [Renderer -> Activities \cup {"none"}] /\ activity'[r] = "none"
      /\ \A q \in Renderer : q # r => activity'[q] = activity[q]
  BY <1>2 DEF PlaybackTypeOK
<1>9. /\ resumeRetry' \in [Renderer -> SUBSET ResumeMessages]
      /\ resumeRetry'[r] = {} /\ \A q \in Renderer : q # r => resumeRetry'[q] = resumeRetry[q]
      /\ retrier' \in [Renderer -> {"none", "look", "delay", "send"}]
      /\ retrier'[r] = "none" /\ \A q \in Renderer : q # r => retrier'[q] = retrier[q]
  BY <1>2, RetryTypes
<1>10. lifecycleLock' \in PassTask \cup {Retrier(q) : q \in Renderer} \cup {Nobody}
  BY DEF Settle, PlaybackTypeOK
<1>11. PlaybackTypeOK'
  BY <1>3, <1>7, <1>8, <1>9, <1>10 DEF PlaybackTypeOK
<1> QED BY <1>2, <1>4, <1>5, <1>8, <1>9, <1>11 DEF t, host

\* An exit: what the event task had still to send is lost to those who are misled by it
LEMMA SettleInv ==
  ASSUME PlaybackTypeOK, NEW r \in Renderer, Settle(r)
  PROVE  PlaybackTypeOK' /\ DecidedInv' /\ (PlaybackInv => PlaybackInv')
<1> DEFINE t == Events(r)
<1>1. t \in PassTask /\ t # Host /\ t \notin Starter /\ Host \in PassTask
  BY TasksFact
<1>2. /\ task[Host] = Rest /\ task'[t] = Rest
      /\ task'[Host] = [pc |-> "sync", todo |-> <<>>, reg |-> {}, of |-> {r}]
      /\ \A u \in PassTask : u # t /\ u # Host => task'[u] = task[u]
      /\ activity'[r] = "none" /\ resumeRetry'[r] = {} /\ retrier'[r] = "none"
      /\ \A q \in Renderer : q # r =>
              activity'[q] = activity[q] /\ resumeRetry'[q] = resumeRetry[q] /\ retrier'[q] = retrier[q]
  BY SettleTypes
<1>3. /\ UNCHANGED <<wish, wishChanges, shown, resume, proc, owed, deaths>>
      /\ activity[r] # "none"
      /\ stale' = stale \cup {d \in LinkedDisplay : RendererOf[d] = r /\ shown[d] # "unbound"}
      /\ misled' = misled \cup (Unsent(t) \ {r})
      /\ lifecycleLock' = IF lifecycleLock \in {t, Retrier(r)} THEN Nobody ELSE lifecycleLock
  BY DEF Settle, wishes
<1>4. task'[Host].pc = "sync" /\ task'[Host].of = {r} /\ task'[Host].reg = {}
      /\ task'[t].pc = "idle" /\ task[Host].pc = "idle" /\ task[Host].reg = {} /\ task[Host].of = {}
  <2>1. task'[Host].pc = "sync" /\ task'[Host].of = {r} /\ task'[Host].reg = {}
    BY <1>2
  <2>2. /\ task'[t].pc = Rest.pc /\ task[Host].pc = Rest.pc
        /\ task[Host].reg = Rest.reg /\ task[Host].of = Rest.of
    BY <1>2
  <2> QED BY <2>1, <2>2, RestFact
<1>5. PlaybackTypeOK' /\ DecidedInv'
  BY <1>1, <1>4, SettleTypes DEF DecidedInv, Deciding
<1> SUFFICES ASSUME PlaybackInv PROVE PlaybackInv'
  BY <1>5
<1>6. LockInv /\ StartInv /\ PoolInv /\ RetryInv /\ FreshInv /\ ToldInv /\ OwedInv
  BY DEF PlaybackInv
<1>7. task[t].reg = {} /\ task[t].pc \notin {"spawn", "register"}
  BY <1>1 DEF PlaybackTypeOK, Fitting
<1> HIDE DEF t
<1>8. /\ \A u \in PassTask : task'[u].pc \in Sending \cup Holding \cup {"spawn", "register"} =>
           u # t /\ u # Host /\ task'[u] = task[u]
      /\ \A u \in PassTask : task[u].pc \in Sending \cup Holding /\ u # t => task'[u] = task[u]
  BY <1>2, <1>4 DEF Sending, Holding
<1>9. /\ \A q, msg : Untold(q, msg)' => Untold(q, msg)
      /\ \A q, msg : q \notin Unsent(t) /\ Untold(q, msg) => Untold(q, msg)'
      /\ \A d : RendererOf[d] \notin Unsent(t) => \A u \in PassTask : Asks(u, d) => Asks(u, d)'
  <2>1. \A u \in PassTask : \A q, msg : Tells(u, q, msg)' => Tells(u, q, msg)
    BY <1>8 DEF Tells
  <2>2. \A u \in PassTask : u # t => \A q, msg : Tells(u, q, msg) => Tells(u, q, msg)'
    BY <1>8 DEF Tells
  <2>3. \A u \in PassTask : u # t => \A d : Asks(u, d) => Asks(u, d)'
    BY <1>8 DEF Asks, Holding
  <2>4. /\ \A q, msg : Tells(t, q, msg) => q \in Unsent(t)
        /\ \A d : Asks(t, d) => RendererOf[d] \in Unsent(t)
    BY <1>1, UnsentFact
  <2> QED BY <2>1, <2>2, <2>3, <2>4 DEF Untold
<1>10. LockInv'
  <2>1. ASSUME NEW u \in PassTask, task'[u].pc \in Holding PROVE lifecycleLock' = u
    <3>1. u # t /\ lifecycleLock = u
      BY <1>6, <1>8, <2>1 DEF LockInv
    <3>2. u # Retrier(r)
      BY TasksFact
    <3> QED BY <1>3, <3>1, <3>2
  <2>2. ASSUME NEW q \in Renderer, retrier'[q] = "send" PROVE lifecycleLock' = Retrier(q)
    <3>1. q # r /\ lifecycleLock = Retrier(q)
      BY <1>2, <1>6, <2>2 DEF LockInv
    <3>2. Retrier(q) # Retrier(r) /\ Retrier(q) # t
      BY <1>1, <3>1, TasksFact
    <3> QED BY <1>3, <3>1, <3>2
  <2> QED BY <2>1, <2>2 DEF LockInv
<1>11. StartInv'
  <2>1. \A u \in PassTask : task'[u].pc \in {"spawn", "register"} => task'[u] = task[u]
    BY <1>8
  <2>2. \A q \in Renderer : activity[q] = "none" => activity'[q] = "none"
    BY <1>2
  <2> QED BY <1>6, <2>1, <2>2, StartKeeps
<1>12. PoolInv'
  <2>1. stale = {}
    BY <1>4, <1>6 DEF PoolInv
  <2>2. ASSUME NEW d \in LinkedDisplay, shown'[d] # "unbound", d \notin stale'
        PROVE  activity'[RendererOf[d]] # "none" /\ proc'[RendererOf[d]].pool
    <3>1. RendererOf[d] # r /\ RendererOf[d] \in Renderer
      BY <1>3, <2>2, PlaybackAssumption
    <3>2. activity[RendererOf[d]] # "none" /\ proc[RendererOf[d]].pool
      BY <1>3, <1>6, <2>1, <2>2 DEF PoolInv
    <3> QED BY <1>2, <1>3, <3>1, <3>2
  <2>3. \A d \in stale' : RendererOf[d] = r
    BY <1>3, <2>1
  <2> QED BY <1>4, <2>2, <2>3 DEF PoolInv
<1>13. RetryInv'
  <2>1. ASSUME NEW u \in PassTask, task'[u].pc \in {"clear", "schedule"}, Head(task'[u].todo)[1] \notin misled'
        PROVE  Heard(u)'
    <3>1. task'[u] = task[u]
      BY <1>8, <2>1 DEF Sending
    <3> QED BY <1>3, <1>6, <2>1, <3>1 DEF RetryInv, Heard
  <2>2. ASSUME NEW q \in Renderer PROVE Retried(q)'
    <3>1. Retried(q)
      BY <1>6 DEF RetryInv
    <3> QED BY <1>2, <1>3, <3>1 DEF Retried
  <2> QED BY <2>1, <2>2 DEF RetryInv
<1>14. FreshInv'
  <2> SUFFICES ASSUME NEW u \in PassTask, task'[u].pc = "register", NEW q \in task'[u].of \ misled'
               PROVE  /\ proc'[q].up => proc'[q] = Fresh
                      /\ \A msg \in Message : ~Untold(q, msg)'
    BY DEF FreshInv
  <2>1. task'[u] = task[u] /\ q \notin misled
    BY <1>3, <1>8
  <2>2. /\ proc[q].up => proc[q] = Fresh
        /\ \A msg \in Message : ~Untold(q, msg)
    BY <1>6, <2>1 DEF FreshInv
  <2> QED BY <1>3, <1>9, <2>2
<1>15. ToldInv'
  <2> SUFFICES ASSUME NEW q \in Renderer, activity'[q] # "none", q \notin misled' PROVE Obeys(q)'
    BY DEF ToldInv
  <2>1. q # r /\ q \notin misled /\ q \notin Unsent(t)
    BY <1>2, <1>3
  <2>2. activity'[q] = activity[q] /\ Obeys(q)
    BY <1>2, <1>6, <2>1 DEF ToldInv
  <2>3. \A msg : Untold(q, msg)' <=> Untold(q, msg)
    BY <1>9, <2>1
  <2>4. Greeted(q) => Greeted(q)'
    BY <1>2, <1>4, <1>7 DEF Greeted
  <2> QED BY <1>3, <2>2, <2>3, <2>4 DEF Obeys
<1>16. OwedInv'
  <2>1. \A d : Paused(d, wish)' <=> Paused(d, wish)
    BY <1>3 DEF Paused, GlobalPaused
  <2>2. \E u \in PassTask : task'[u].pc \in Deciding \cup Sending
    BY <1>1, <1>4 DEF Deciding
  <2>3. ASSUME NEW d \in owed' PROVE d \in resume' \/ (\E u \in PassTask : Asks(u, d)') \/ Excused(d)'
    <3>1. RendererOf[d] \in Renderer /\ d \in owed
      BY <1>3, PlaybackAssumption DEF PlaybackTypeOK
    <3>2. CASE RendererOf[d] \in Unsent(t) \cup {r}
      BY <1>2, <1>3, <3>2 DEF Excused
    <3>3. CASE RendererOf[d] \notin Unsent(t) \cup {r}
      <4>1. Excused(d) => Excused(d)'
        BY <1>2, <1>3, <3>1, <3>3 DEF Excused
      <4> QED BY <1>3, <1>6, <1>9, <3>1, <3>3, <4>1 DEF OwedInv
    <3> QED BY <3>2, <3>3
  <2>4. \A d \in resume' \cup owed' : ~Paused(d, wish)'
    BY <1>3, <1>6, <2>1 DEF OwedInv
  <2> QED BY <2>2, <2>3, <2>4 DEF OwedInv
<1> QED BY <1>10, <1>11, <1>12, <1>13, <1>14, <1>15, <1>16 DEF PlaybackInv

\* Who starts a renderer is alone with it
LEMMA StartRendererInv ==
  ASSUME PlaybackTypeOK, NEW t \in Starter, NEW r \in Renderer, Start(t, r)
  PROVE  PlaybackTypeOK' /\ (DecidedInv => DecidedInv') /\ (PlaybackInv => PlaybackInv')
<1> DEFINE n == [pc |-> "spawn", todo |-> <<>>, reg |-> {}, of |-> {r}]
<1>1. t \in PassTask /\ task[t] = Rest /\ activity[r] = "none" /\ ~Starting(r)
  BY TasksFact DEF Start
<1>2. n \in Work /\ Fitting(t, n)
  <2>1. n.todo \in Todo(n.pc)
    BY DEF Todo
  <2>2. <<>> \in Seq(Renderer)
    OBVIOUS
  <2> QED BY <2>1, <2>2 DEF Work, Fitting
<1>3. Becomes(t, n)
  BY <1>1, RestFact, GoesFact DEF Start
<1>4. /\ task' \in [PassTask -> Work] /\ \A u \in PassTask : Fitting(u, task'[u])
      /\ task'[t] = n /\ \A u \in PassTask : u # t => task'[u] = task[u]
  BY <1>1, <1>2, <1>3, MoveFact
<1>5. UNCHANGED <<wish, wishChanges, shown, stale, resume, activity, resumeRetry, retrier, lifecycleLock, proc, owed, misled, deaths>>
  BY DEF Start, wishes, bindings, slots
<1>6. PlaybackTypeOK'
  BY <1>4, <1>5 DEF PlaybackTypeOK
<1>7. n.pc = "spawn" /\ n.of = {r} /\ n.pc \notin Sending /\ n.pc \notin Holding /\ task[t].pc = "idle"
      /\ task[t].pc \notin Sending \cup Deciding /\ task[t].pc \notin Sending /\ task[t].pc # "ask"
  BY <1>1, RestFact DEF Sending, Holding, Deciding
<1> HIDE DEF n
<1>8. /\ \A q, msg : Untold(q, msg)' <=> Untold(q, msg)
      /\ \A d : \A u \in PassTask : Asks(u, d) => Asks(u, d)'
  BY <1>1, <1>2, <1>3, <1>7, QuietFact
<1>9. DecidedInv => DecidedInv'
  BY <1>4, <1>5, <1>7, DecidedStays
<1> SUFFICES ASSUME PlaybackInv PROVE PlaybackInv'
  BY <1>6, <1>9
<1>10. LockInv /\ StartInv /\ PoolInv /\ RetryInv /\ FreshInv /\ ToldInv /\ OwedInv
  BY DEF PlaybackInv
<1>11. LockInv'
  BY <1>4, <1>5, <1>7, <1>10 DEF LockInv
<1>12. StartInv'
  <2>1. \A u \in PassTask : u # t => ~Starts(u, r)
    <3> SUFFICES ASSUME NEW u \in PassTask, Starts(u, r) PROVE FALSE
      OBVIOUS
    <3>1. u \in Starter
      BY DEF Starts, PlaybackTypeOK, Fitting
    <3> QED BY <1>1, <3>1 DEF Starting, Starts
  <2>2. \A u \in PassTask, q \in Renderer : u # t => (Starts(u, q)' <=> Starts(u, q))
    BY <1>4 DEF Starts
  <2>3. \A q \in Renderer : Starts(t, q)' <=> q = r
    BY <1>4, <1>7 DEF Starts
  <2>4. ASSUME NEW u \in PassTask, NEW q \in Renderer, Starts(u, q)'
        PROVE  activity'[q] = "none" /\ task'[u].of = {q}
    <3>1. CASE u = t
      BY <1>1, <1>4, <1>5, <1>7, <2>3, <2>4, <3>1
    <3>2. CASE u # t
      BY <1>4, <1>5, <1>10, <2>2, <2>4, <3>2 DEF StartInv
    <3> QED BY <3>1, <3>2
  <2>5. ASSUME NEW u \in PassTask, NEW v \in PassTask, NEW q \in Renderer, Starts(u, q)', Starts(v, q)'
        PROVE  u = v
    BY <1>10, <2>1, <2>2, <2>3, <2>5 DEF StartInv
  <2> QED BY <2>4, <2>5 DEF StartInv
<1>13. PoolInv' /\ FreshInv'
  <2>1. \A u \in PassTask : task'[u].pc = "register" => task'[u] = task[u]
    BY <1>4, <1>7
  <2>2. task[Host].pc = "sync" => task'[Host] = task[Host]
    BY <1>4, <1>7, TasksFact
  <2> QED BY <1>5, <1>8, <1>10, <2>1, <2>2, PoolKeeps, FreshKeeps
<1>14. RetryInv'
  BY <1>4, <1>5, <1>7, <1>10 DEF RetryInv, Heard, Retried
<1>15. ToldInv'
  <2>1. \A q : Greeted(q) => Greeted(q)'
    BY <1>4, <1>7 DEF Greeted
  <2> QED BY <1>5, <1>8, <1>10, <2>1 DEF ToldInv, Obeys
<1>16. OwedInv'
  <2>1. \A d : (Paused(d, wish)' <=> Paused(d, wish)) /\ (Enabled(d)' <=> Enabled(d))
    BY <1>5 DEF Paused, GlobalPaused, Enabled
  <2>2. \A u \in PassTask : task[u].pc \in Deciding \cup Sending => task'[u].pc \in Deciding \cup Sending
    BY <1>4, <1>7
  <2> QED BY <1>5, <1>8, <1>10, <2>1, <2>2 DEF OwedInv, Excused
<1> QED BY <1>11, <1>12, <1>13, <1>14, <1>15, <1>16 DEF PlaybackInv

\* A new process is misled by what others have still to send
LEMMA SpawnInv ==
  ASSUME PlaybackTypeOK, NEW t \in Starter, NEW r \in Renderer, Spawn(t, r)
  PROVE  PlaybackTypeOK' /\ (DecidedInv => DecidedInv') /\ (PlaybackInv => PlaybackInv')
<1> DEFINE n == [pc |-> "register", todo |-> task[t].todo, reg |-> task[t].reg, of |-> task[t].of]
<1>1. t \in PassTask /\ task[t].pc = "spawn" /\ r \in task[t].of /\ task[t].todo = <<>>
  BY TasksFact, TodoTypes DEF Spawn, Sending
<1>2. n \in Work /\ Fitting(t, n)
  <2>1. n.todo \in Todo(n.pc)
    BY <1>1 DEF Todo
  <2>2. task[t].reg \subseteq Renderer /\ task[t].of \subseteq Renderer
    BY <1>1, TodoTypes
  <2>3. <<>> \in Seq(Renderer)
    OBVIOUS
  <2> QED BY <1>1, <2>1, <2>2, <2>3 DEF Work, Fitting
<1>3. Becomes(t, n)
  BY <1>1, GoesFact DEF Spawn
<1>4. /\ task' \in [PassTask -> Work] /\ \A u \in PassTask : Fitting(u, task'[u])
      /\ task'[t] = n /\ \A u \in PassTask : u # t => task'[u] = task[u]
  BY <1>1, <1>2, <1>3, MoveFact
<1>5. n.pc = "register" /\ n.of = task[t].of /\ n.reg = task[t].reg /\ n.pc \notin Sending /\ n.pc \notin Holding
      /\ task[t].pc \notin Sending \cup Deciding /\ task[t].pc \notin Sending /\ task[t].pc # "ask"
  BY <1>1 DEF Sending, Holding, Deciding
<1> HIDE DEF n
<1>6. UNCHANGED <<wish, wishChanges, shown, stale, resume, activity, resumeRetry, retrier, lifecycleLock, owed, deaths>>
  BY DEF Spawn, wishes, bindings, slots
<1>7. /\ proc' \in [Renderer -> Processes]
      /\ proc'[r] = Fresh /\ \A q \in Renderer : q # r => proc'[q] = proc[q]
  <2>1. Fresh \in Processes /\ proc \in [Renderer -> Processes]
    BY DEF Fresh, Processes, PlaybackTypeOK
  <2>2. proc' = [proc EXCEPT ![r] = Fresh]
    BY DEF Spawn
  <2> QED BY <2>1, <2>2
<1>8. /\ misled' \subseteq Renderer
      /\ \A q \in Renderer : q # r => (q \in misled' <=> q \in misled)
      /\ \A u \in PassTask : r \in Unsent(u) => r \in misled'
  BY DEF Spawn, PlaybackTypeOK
<1>9. PlaybackTypeOK'
  BY <1>4, <1>6, <1>7, <1>8 DEF PlaybackTypeOK, Processes
<1>10. DecidedInv => DecidedInv'
  BY <1>4, <1>5, <1>6, DecidedStays
<1> SUFFICES ASSUME PlaybackInv PROVE PlaybackInv'
  BY <1>9, <1>10
<1>11. LockInv /\ StartInv /\ PoolInv /\ RetryInv /\ FreshInv /\ ToldInv /\ OwedInv
  BY DEF PlaybackInv
<1>12. /\ \A q, msg : Untold(q, msg)' <=> Untold(q, msg)
       /\ \A d : \A u \in PassTask : Asks(u, d) => Asks(u, d)'
  BY <1>1, <1>2, <1>3, <1>5, QuietFact
<1>13. /\ activity[r] = "none" /\ task[t].of = {r}
       /\ \A u \in PassTask : Starts(u, r) => u = t
  BY <1>1, <1>11 DEF StartInv, Starts
<1>14. r \notin misled' => \A msg : ~Untold(r, msg)
  BY <1>8, UnsentFact DEF Untold
<1>15. LockInv'
  BY <1>4, <1>5, <1>6, <1>11 DEF LockInv
<1>16. StartInv'
  <2>1. \A u \in PassTask, q \in Renderer : (Starts(u, q)' <=> Starts(u, q)) /\ task'[u].of = task[u].of
    BY <1>1, <1>4, <1>5 DEF Starts
  <2> QED BY <1>6, <1>11, <2>1 DEF StartInv
<1>17. PoolInv'
  <2>1. task[Host].pc = "sync" => task'[Host] = task[Host]
    BY <1>1, <1>4, TasksFact
  <2>2. \A q \in Renderer : activity[q] # "none" /\ proc[q].pool => activity'[q] # "none" /\ proc'[q].pool
    BY <1>6, <1>7, <1>13
  <2> QED BY <1>6, <1>11, <2>1, <2>2, PoolKeeps
<1>18. RetryInv'
  <2>1. ASSUME NEW u \in PassTask, task'[u].pc \in {"clear", "schedule"}, Head(task'[u].todo)[1] \notin misled'
        PROVE  Heard(u)'
    <3>1. task'[u] = task[u]
      BY <1>4, <1>5, <2>1
    <3> DEFINE q == Head(task[u].todo)[1]
    <3>2. q \in Renderer /\ q \in Unsent(u)
      BY <2>1, <3>1, HeadFact, UnsentFact
    <3>3. q # r /\ q \notin misled
      BY <1>8, <2>1, <3>1, <3>2
    <3>4. Heard(u) /\ proc'[q] = proc[q]
      BY <1>7, <1>11, <2>1, <3>1, <3>2, <3>3 DEF RetryInv
    <3> QED BY <3>1, <3>4 DEF Heard
  <2>2. ASSUME NEW q \in Renderer PROVE Retried(q)'
    <3>1. Retried(q)
      BY <1>11 DEF RetryInv
    <3>2. CASE q = r
      BY <1>6, <1>13, <3>1, <3>2 DEF Retried
    <3>3. CASE q # r
      BY <1>6, <1>7, <1>8, <3>1, <3>3 DEF Retried
    <3> QED BY <3>2, <3>3
  <2> QED BY <2>1, <2>2 DEF RetryInv
<1>19. FreshInv'
  <2> SUFFICES ASSUME NEW u \in PassTask, task'[u].pc = "register", NEW q \in task'[u].of \ misled'
               PROVE  /\ proc'[q].up => proc'[q] = Fresh
                      /\ \A msg \in Message : ~Untold(q, msg)'
    BY DEF FreshInv
  <2>1. CASE u = t
    <3>1. q = r
      BY <1>4, <1>5, <1>13, <2>1
    <3> QED BY <1>7, <1>12, <1>14, <3>1
  <2>2. CASE u # t
    <3>1. task'[u] = task[u] /\ q \in Renderer
      BY <1>4, <2>2 DEF PlaybackTypeOK, Work
    <3>2. q # r
      BY <1>13, <2>2, <3>1 DEF Starts
    <3>3. q \notin misled /\ proc'[q] = proc[q]
      BY <1>7, <1>8, <3>1, <3>2
    <3>4. /\ proc[q].up => proc[q] = Fresh
          /\ \A msg \in Message : ~Untold(q, msg)
      BY <1>11, <3>1, <3>3 DEF FreshInv
    <3> QED BY <1>12, <3>3, <3>4
  <2> QED BY <2>1, <2>2
<1>20. ToldInv'
  <2> SUFFICES ASSUME NEW q \in Renderer, activity'[q] # "none", q \notin misled' PROVE Obeys(q)'
    BY DEF ToldInv
  <2>1. q # r /\ activity'[q] = activity[q] /\ Obeys(q)
    BY <1>6, <1>8, <1>11, <1>13 DEF ToldInv
  <2>2. (Greeted(q) => Greeted(q)') /\ proc'[q] = proc[q]
    BY <1>1, <1>4, <1>7, <2>1 DEF Greeted
  <2> QED BY <1>12, <2>1, <2>2 DEF Obeys
<1>21. OwedInv'
  <2>1. \A d : (Paused(d, wish)' <=> Paused(d, wish)) /\ (Enabled(d)' <=> Enabled(d))
    BY <1>6 DEF Paused, GlobalPaused, Enabled
  <2>2. \A u \in PassTask : task[u].pc \in Deciding \cup Sending => task'[u].pc \in Deciding \cup Sending
    BY <1>4, <1>5
  <2>3. ASSUME NEW d \in owed', Excused(d) PROVE Excused(d)'
    <3>1. RendererOf[d] \in Renderer
      BY <1>6, PlaybackAssumption DEF PlaybackTypeOK
    <3>2. CASE RendererOf[d] = r
      BY <1>6, <1>13, <3>2 DEF Excused
    <3>3. CASE RendererOf[d] # r
      BY <1>6, <1>7, <1>8, <2>3, <3>1, <3>3 DEF Excused
    <3> QED BY <3>2, <3>3
  <2> QED BY <1>6, <1>11, <1>12, <2>1, <2>2, <2>3 DEF OwedInv
<1> QED BY <1>15, <1>16, <1>17, <1>18, <1>19, <1>20, <1>21 DEF PlaybackInv

LEMMA RegisterInv ==
  ASSUME PlaybackTypeOK, NEW t \in Starter, NEW r \in Renderer, Register(t, r)
  PROVE  PlaybackTypeOK' /\ DecidedInv' /\ (PlaybackInv => PlaybackInv')
<1> DEFINE n == [pc |-> "lock", todo |-> <<>>, reg |-> {r}, of |-> {}]
<1>1. t \in PassTask /\ task[t].pc = "register" /\ r \in task[t].of
  BY TasksFact DEF Register
<1>2. n \in Work /\ Fitting(t, n)
  <2>1. n.todo \in Todo(n.pc)
    BY DEF Todo
  <2>2. <<>> \in Seq(Renderer)
    OBVIOUS
  <2> QED BY <2>1, <2>2 DEF Work, Fitting, Deciding
<1>3. Becomes(t, n)
  BY RestFact DEF Register, Becomes
<1>4. /\ task' \in [PassTask -> Work] /\ \A u \in PassTask : Fitting(u, task'[u])
      /\ task'[t] = n /\ \A u \in PassTask : u # t => task'[u] = task[u]
  BY <1>1, <1>2, <1>3, MoveFact
<1>5. n.pc = "lock" /\ n.reg = {r} /\ n.pc \notin Sending /\ n.pc \notin Holding /\ n.pc \in Deciding
      /\ task[t].pc \notin Sending /\ task[t].pc # "ask"
  BY <1>1 DEF Sending, Holding, Deciding
<1> HIDE DEF n
<1>6. UNCHANGED <<wish, wishChanges, shown, stale, resume, resumeRetry, retrier, lifecycleLock, proc, owed, misled, deaths>>
  BY DEF Register, wishes, bindings
<1>7. /\ activity' \in [Renderer -> Activities \cup {"none"}] /\ activity'[r] = "playing"
      /\ \A q \in Renderer : q # r => activity'[q] = activity[q]
  BY DEF Register, PlaybackTypeOK, Activities
<1>8. PlaybackTypeOK'
  BY <1>4, <1>6, <1>7 DEF PlaybackTypeOK
<1>9. DecidedInv'
  BY <1>1, <1>4, <1>5 DEF DecidedInv
<1> SUFFICES ASSUME PlaybackInv PROVE PlaybackInv'
  BY <1>8, <1>9
<1>10. LockInv /\ StartInv /\ PoolInv /\ RetryInv /\ FreshInv /\ ToldInv /\ OwedInv
  BY DEF PlaybackInv
<1>11. /\ \A q, msg : Untold(q, msg)' <=> Untold(q, msg)
       /\ \A d : \A u \in PassTask : Asks(u, d) => Asks(u, d)'
  BY <1>1, <1>2, <1>3, <1>5, QuietFact
<1>12. /\ activity[r] = "none"
       /\ \A u \in PassTask : Starts(u, r) => u = t
  BY <1>1, <1>10 DEF StartInv, Starts
<1>13. LockInv'
  BY <1>4, <1>5, <1>6, <1>10 DEF LockInv
<1>14. StartInv'
  <2>1. \A u \in PassTask, q \in Renderer :
          Starts(u, q)' => Starts(u, q) /\ task'[u] = task[u] /\ q # r
    BY <1>4, <1>5, <1>12 DEF Starts
  <2> QED BY <1>7, <1>10, <2>1 DEF StartInv
<1>15. PoolInv' /\ FreshInv'
  <2>1. \A u \in PassTask : task'[u].pc = "register" => task'[u] = task[u]
    BY <1>4, <1>5
  <2>2. task[Host].pc = "sync" => task'[Host] = task[Host]
    BY <1>1, <1>4, TasksFact
  <2>3. \A q \in Renderer : activity[q] # "none" => activity'[q] # "none"
    BY <1>7
  <2> QED BY <1>6, <1>10, <1>11, <2>1, <2>2, <2>3, PoolKeeps, FreshKeeps
<1>16. RetryInv'
  <2>1. ASSUME NEW u \in PassTask, task'[u].pc \in {"clear", "schedule"}, Head(task'[u].todo)[1] \notin misled'
        PROVE  Heard(u)'
    <3>1. task'[u] = task[u]
      BY <1>4, <1>5, <2>1
    <3> QED BY <1>6, <1>10, <2>1, <3>1 DEF RetryInv, Heard
  <2>2. ASSUME NEW q \in Renderer PROVE Retried(q)'
    <3>1. Retried(q)
      BY <1>10 DEF RetryInv
    <3> QED BY <1>6, <1>7, <1>12, <3>1 DEF Retried
  <2> QED BY <2>1, <2>2 DEF RetryInv
<1>17. ToldInv'
  <2> SUFFICES ASSUME NEW q \in Renderer, activity'[q] # "none", q \notin misled' PROVE Obeys(q)'
    BY DEF ToldInv
  <2>1. CASE q = r
    <3>1. /\ \A msg \in Message : ~Untold(r, msg)'
          /\ proc'[r].up => proc'[r] = Fresh
      BY <1>1, <1>6, <1>10, <1>11, <2>1 DEF FreshInv
    <3>2. Greeted(r)'
      BY <1>1, <1>4, <1>5 DEF Greeted
    <3>3. Fresh.paused = FALSE /\ Fresh.muted = FALSE
      BY DEF Fresh
    <3>4. proc'[r].up => proc'[r].paused = (activity'[r] = "paused") /\ proc'[r].muted = (activity'[r] = "muted")
      BY <1>7, <3>1, <3>3
    <3>5. "pause" \in Message /\ "play" \in Message /\ "mute" \in Message /\ "unmute" \in Message
      BY DEF Message
    <3> QED BY <2>1, <3>1, <3>2, <3>4, <3>5 DEF Obeys
  <2>2. CASE q # r
    <3>1. activity'[q] = activity[q] /\ Obeys(q) /\ proc'[q] = proc[q]
      BY <1>6, <1>7, <1>10, <2>2 DEF ToldInv
    <3>2. Greeted(q) => Greeted(q)'
      BY <1>1, <1>4 DEF Greeted
    <3> QED BY <1>11, <3>1, <3>2 DEF Obeys
  <2> QED BY <2>1, <2>2
<1>18. OwedInv'
  <2>1. \A d : Paused(d, wish)' <=> Paused(d, wish)
    BY <1>6 DEF Paused, GlobalPaused
  <2>2. \E u \in PassTask : task'[u].pc \in Deciding \cup Sending
    BY <1>1, <1>4, <1>5
  <2>3. ASSUME NEW d \in owed', Excused(d) PROVE Excused(d)'
    <3>1. RendererOf[d] \in Renderer /\ d \in LinkedDisplay
      BY <1>6, PlaybackAssumption DEF PlaybackTypeOK
    <3>2. CASE RendererOf[d] = r
      <4>1. shown[d] = "unbound" \/ d \in stale
        BY <1>10, <1>12, <3>1, <3>2 DEF PoolInv
      <4> QED BY <1>6, <4>1 DEF Excused
    <3>3. CASE RendererOf[d] # r
      BY <1>6, <1>7, <2>3, <3>1, <3>3 DEF Excused
    <3> QED BY <3>2, <3>3
  <2>4. \A d \in resume' \cup owed' : ~Paused(d, wish)'
    BY <1>6, <1>10, <2>1 DEF OwedInv
  <2> QED BY <1>6, <1>10, <1>11, <2>2, <2>3, <2>4 DEF OwedInv
<1> QED BY <1>13, <1>14, <1>15, <1>16, <1>17, <1>18 DEF PlaybackInv

-----------------------------------------------------------------------------
LEMMA PlaybackInits == PlaybackInit => PlaybackTypeOK /\ DecidedInv /\ PlaybackInv
<1> SUFFICES ASSUME PlaybackInit PROVE PlaybackTypeOK /\ DecidedInv /\ PlaybackInv
  OBVIOUS
<1>1. /\ wish = [global |-> FALSE, mute |-> FALSE, renderers |-> {}, displays |-> {}, off |-> {}]
      /\ shown = [d \in LinkedDisplay |-> "unbound"] /\ stale = {} /\ resume = {} /\ owed = {} /\ misled = {}
      /\ activity = [r \in Renderer |-> "playing"]
      /\ resumeRetry = [r \in Renderer |-> {}] /\ retrier = [r \in Renderer |-> "none"]
      /\ lifecycleLock = Nobody /\ task = [t \in PassTask |-> Rest]
      /\ wishChanges = 0 /\ deaths = 0
  BY DEF PlaybackInit
<1>2. Host \in PassTask /\ \A t \in PassTask : task[t] = Rest
  BY <1>1, TasksFact
<1>3. Rest.pc = "idle" /\ Rest.reg = {} /\ Rest.pc \notin Sending /\ Rest.pc \notin Holding
  BY RestFact DEF Sending, Holding
<1>4. proc \in [Renderer -> Processes]
      /\ \A r \in Renderer : proc[r].up /\ proc[r].gate /\ proc[r].paused = FALSE /\ proc[r].muted = FALSE
  <2> DEFINE p == [Fresh EXCEPT !.gate = TRUE]
  <2>1. p \in Processes /\ p.up /\ p.gate /\ p.paused = FALSE /\ p.muted = FALSE
    BY DEF Fresh, Processes
  <2>2. proc = [r \in Renderer |-> p]
    BY DEF PlaybackInit
  <2> HIDE DEF p
  <2> QED BY <2>1, <2>2
<1>5. PlaybackTypeOK
  <2>1. task \in [PassTask -> Work] /\ \A t \in PassTask : Fitting(t, task[t])
    BY <1>1, <1>2, RestFact
  <2>2. wish \in [global : BOOLEAN, mute : BOOLEAN, renderers : SUBSET Renderer,
                  displays : SUBSET LinkedDisplay, off : SUBSET LinkedDisplay]
    BY <1>1
  <2>3. wishChanges \in 0 .. MaxChanges /\ deaths \in 0 .. MaxDeaths
    BY <1>1, PlaybackAssumption
  <2> QED BY <1>1, <1>4, <2>1, <2>2, <2>3 DEF PlaybackTypeOK, Processes, Activities
<1>6. \A r \in Renderer : Target(r) = "playing"
  <2> TAKE r \in Renderer
  <2>1. PICK d \in LinkedDisplay : RendererOf[d] = r
    BY PlaybackAssumption
  <2>2. PlaybackDemand(d)
    BY <1>1 DEF PlaybackDemand, FrameDemand, GlobalPaused, Paused, Enabled
  <2> QED BY <1>1, <2>1, <2>2 DEF Target
<1>7. DecidedInv
  BY <1>1, <1>6 DEF DecidedInv
<1>8. LockInv /\ StartInv /\ PoolInv /\ RetryInv /\ FreshInv /\ OwedInv
  BY <1>1, <1>2, <1>3 DEF LockInv, StartInv, Starts, PoolInv, RetryInv, Retried, FreshInv, OwedInv
<1>9. ToldInv
  <2>1. \A r, msg : ~Untold(r, msg)
    BY <1>2, <1>3 DEF Untold, Tells
  <2> QED BY <1>1, <1>4, <2>1 DEF ToldInv, Obeys
<1> QED BY <1>5, <1>7, <1>8, <1>9 DEF PlaybackInv

LEMMA PlaybackKept ==
  PlaybackTypeOK /\ DecidedInv /\ PlaybackInv /\ [PlaybackNext]_playbackVars
    => PlaybackTypeOK' /\ DecidedInv' /\ PlaybackInv'
<1> SUFFICES ASSUME PlaybackTypeOK, DecidedInv, PlaybackInv, [PlaybackNext]_playbackVars
             PROVE  PlaybackTypeOK' /\ DecidedInv' /\ PlaybackInv'
  OBVIOUS
<1>1. CASE \E t \in Caller : Change(t)
  BY <1>1, ChangeTypes, ChangeInv
<1>2. ASSUME NEW t \in PassTask, Sync(t) \/ Pass(t) PROVE PlaybackTypeOK' /\ DecidedInv' /\ PlaybackInv'
  BY <1>2, SyncInv, AcquireLockInv, DecideInv, SendMessageInv, ClearRetryInv, ScheduleRetryInv, ConsumeInv,
     AskFrameInv, EndPassInv DEF Pass
<1>3. ASSUME NEW r \in Renderer, RetryLook(r) \/ RetryLock(r) \/ RetrySend(r)
      PROVE  PlaybackTypeOK' /\ DecidedInv' /\ PlaybackInv'
  BY <1>3, RetryLookInv, RetryLockInv, RetrySendTypes, RetrySendInv
<1>4. ASSUME NEW r \in Renderer, Die(r) \/ Bind(r) \/ Frame(r) \/ Settle(r)
      PROVE  PlaybackTypeOK' /\ DecidedInv' /\ PlaybackInv'
  BY <1>4, DieInv, BindInv, FrameInv, SettleInv
<1>5. ASSUME NEW t \in Starter, NEW r \in Renderer, Start(t, r) \/ Spawn(t, r) \/ Register(t, r)
      PROVE  PlaybackTypeOK' /\ DecidedInv' /\ PlaybackInv'
  BY <1>5, StartRendererInv, SpawnInv, RegisterInv
<1>6. CASE UNCHANGED playbackVars
  <2>1. UNCHANGED <<wish, wishChanges, shown, stale, resume, activity, resumeRetry, retrier, lifecycleLock,
                    task, proc, owed, misled, deaths>>
    BY <1>6 DEF playbackVars, wishes, bindings, slots
  <2>2. PlaybackTypeOK'
    BY <2>1 DEF PlaybackTypeOK
  <2>3. DecidedInv'
    BY <2>1, DecidedStays
  <2>4. /\ \A r, msg : Untold(r, msg)' <=> Untold(r, msg)
        /\ \A t, d : Asks(t, d)' <=> Asks(t, d)
        /\ \A d : (Paused(d, wish)' <=> Paused(d, wish)) /\ (Enabled(d)' <=> Enabled(d))
        /\ \A r : Greeted(r)' <=> Greeted(r)
    BY <2>1 DEF Untold, Tells, Asks, Paused, GlobalPaused, Enabled, Greeted
  <2>5. LockInv' /\ StartInv' /\ PoolInv' /\ FreshInv'
    BY <2>1, <2>4 DEF PlaybackInv, LockInv, StartInv, Starts, PoolInv, FreshInv
  <2>6. RetryInv'
    BY <2>1 DEF PlaybackInv, RetryInv, Heard, Retried
  <2>7. ToldInv' /\ OwedInv'
    BY <2>1, <2>4 DEF PlaybackInv, ToldInv, Obeys, OwedInv, Excused
  <2> QED BY <2>2, <2>3, <2>5, <2>6, <2>7 DEF PlaybackInv
<1> QED BY <1>1, <1>2, <1>3, <1>4, <1>5, <1>6 DEF PlaybackNext

LEMMA PlaybackRests == PlaybackTypeOK /\ DecidedInv /\ PlaybackInv => PlaybackAtRest
<1> SUFFICES ASSUME PlaybackTypeOK, DecidedInv, PlaybackInv, PassesDone
             PROVE  CommandedAtRest /\ ResumeShown
  BY DEF PlaybackAtRest, CommandedAtRest, ResumeShown
<1>1. PoolInv /\ ToldInv /\ OwedInv
  BY DEF PlaybackInv
<1>2. Host \in PassTask /\ \A t \in PassTask : task[t] = Rest
  BY TasksFact DEF PassesDone
<1>3. Rest.pc = "idle" /\ Rest.pc \notin Sending /\ Rest.pc \notin Deciding
  BY RestFact DEF Sending, Deciding
<1>4. /\ \A r, msg : ~Untold(r, msg)
      /\ \A d : \A t \in PassTask : ~Asks(t, d)
      /\ \A r : ~Greeted(r)
  BY <1>2, <1>3 DEF Untold, Tells, Asks, Greeted
<1>5. \A r \in Renderer : activity[r] \in {"none", Target(r)}
  BY <1>2, <1>3 DEF DecidedInv
<1>6. stale = {}
  BY <1>1, <1>2, <1>3 DEF PoolInv
<1>7. CommandedAtRest
  <2>1. ASSUME NEW r \in Renderer, activity[r] # "none"
        PROVE  activity[r] = Target(r) /\ (r \notin misled => ObeysTarget(r))
    <3>1. activity[r] = Target(r) /\ proc[r].up
      BY <1>5, <2>1 DEF PassesDone
    <3>2. r \notin misled => Obeys(r)
      BY <1>1, <2>1 DEF ToldInv
    <3> QED BY <1>4, <3>1, <3>2 DEF Obeys, ObeysTarget
  <2> QED BY <2>1 DEF CommandedAtRest
<1>8. ResumeShown
  <2> SUFFICES ASSUME NEW d \in owed, Enabled(d), RendererOf[d] \notin misled PROVE shown[d] = "unbound"
    BY DEF ResumeShown
  <2>1. d \notin resume
    BY <1>1, <1>2, <1>3 DEF OwedInv
  <2>2. d \in LinkedDisplay /\ RendererOf[d] \in Renderer
    BY PlaybackAssumption DEF PlaybackTypeOK
  <2>3. activity[RendererOf[d]] = "none" \/ shown[d] = "unbound"
    BY <1>1, <1>4, <1>6, <2>1, <2>2 DEF OwedInv, Excused, PassesDone
  <2>4. activity[RendererOf[d]] = "none" => shown[d] = "unbound"
    BY <1>1, <1>6, <2>2 DEF PoolInv
  <2> QED BY <2>3, <2>4
<1> QED BY <1>7, <1>8

\* The slots, the retries, the tasks with their messages and the processes have their types at all
\* times, also where an exit cuts a pass short that still has messages for another renderer.
THEOREM PlaybackTypeCorrect == PlaybackSpec => []PlaybackTypeOK
<1>1. PlaybackInit => PlaybackTypeOK /\ DecidedInv /\ PlaybackInv
  BY PlaybackInits
<1> QED BY <1>1, PlaybackKept, PTL DEF PlaybackSpec

\* When no pass is under way the router has decided for every renderer that runs what the last
\* wishes come to, also where an exit cuts a pass short: what an aborted task had still to send
\* may be lost, what it had decided is not.
THEOREM LastWishDecided ==
  PlaybackSpec => [](PassesDone => \A r \in Renderer : activity[r] \in {"none", Target(r)})
<1>1. PlaybackInit => PlaybackTypeOK /\ DecidedInv /\ PlaybackInv
  BY PlaybackInits
<1>2. DecidedInv => (PassesDone => \A r \in Renderer : activity[r] \in {"none", Target(r)})
  BY RestFact DEF DecidedInv, PassesDone, Deciding
<1> QED BY <1>1, <1>2, PlaybackKept, PTL DEF PlaybackSpec

\* Whatever is wished, in whatever order requests, exits, new processes, retries and events of
\* renderers run their passes: when none is under way, every renderer is set to play, to be muted
\* or to be paused as the last wishes say, its process was told so, and a display that was resumed
\* is shown the current content.  Two things the code does except a renderer from having been told:
\* a task that is aborted at an exit drops its messages to other renderers, and messages decided
\* for a process go by id to one that has taken its place.
THEOREM LastWishCommanded == PlaybackSpec => []PlaybackAtRest
<1>1. PlaybackInit => PlaybackTypeOK /\ DecidedInv /\ PlaybackInv
  BY PlaybackInits
<1>2. PlaybackTypeOK /\ DecidedInv /\ PlaybackInv => PlaybackAtRest
  BY PlaybackRests
<1> QED BY <1>1, <1>2, PlaybackKept, PTL DEF PlaybackSpec

=============================================================================
