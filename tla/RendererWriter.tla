---------------------------- MODULE RendererWriter ----------------------------
(* What is written to the process of a renderer: the writer thread with its  *)
(* bounded queue of control messages and its slot for the latest audio       *)
(* window (renderer_manager/writer.rs), the registry of the optional events  *)
(* the process has asked for (subscriptions.rs), and those who use them: the *)
(* reader, senders of control messages, the audio service, stop and evict.   *)
(*                                                                           *)
(* One process.  Of the optional events, audio goes through the slot, and    *)
(* mpris stands for those that go through the queue.                         *)
EXTENDS Naturals, Sequences

CONSTANTS Sender,        \* tasks that send control messages
          Capacity,      \* WRITER_QUEUE_CAPACITY
          Buffer,        \* messages the socket holds
          Asked,         \* subscriptions [rev, kinds] the process may ask for
          AlreadyAsked,  \* those it may hold when the behaviour begins
          TrafficBounds  \* [asks, sends, windows, ends]: how often the process asks, controls
                         \* are sent, windows are captured, and the process is stopped or dies

ASSUME CapacityAssumption == Capacity \in Nat \ {0}

Kind == {"audio", "mpris"}
Reader == "reader"
Stopper == "stopper"
Callers == Sender \cup {Reader, Stopper}
NoWindow == 0                                \* no window; else the revision it is for
Gone == [rev |-> 0, kinds |-> {}, listed |-> FALSE]

VARIABLES process,       \* "runs" or "dead"
          asks,          \* SetEventSubscriptions the reader has not read
          wire, told,    \* messages the process has not read, and [rev, kinds, ever] it was told of
          listed,        \* is the handle in the map?
          entry,         \* of the registry: [rev, kinds, listed]
          channel,       \* the queue of the writer
          slot, wake,    \* the audio window, and audio_wake_pending
          thread,        \* the writer: [pc, batch, taken]
          call,          \* of each caller: [pc, command]
          service,       \* [pc, rev], of the audio service
          reap,          \* has the reaper task been told?
          left           \* what may still come

socket == <<process, asks, wire, told>>
manager == <<listed, entry, reap>>
audio == <<slot, wake>>
writerVars == <<socket, manager, channel, audio, thread, call, service, left>>

WakeAudio == [kind |-> "wake", rev |-> 0, kinds |-> {}, commit |-> FALSE, by |-> Reader]
Reliable(kind, t) == [kind |-> kind, rev |-> 0, kinds |-> {}, commit |-> FALSE, by |-> t]
NoCall == [pc |-> "idle", command |-> WakeAudio]
Window(rev) == [kind |-> "audio", rev |-> rev, kinds |-> {}, commit |-> FALSE, by |-> Reader]

WriterInit ==
  /\ process = "runs" /\ asks = <<>> /\ wire = <<>>
  /\ \E s \in AlreadyAsked : /\ told = [rev |-> s.rev, kinds |-> s.kinds, ever |-> s.kinds]
                     /\ entry = [rev |-> s.rev, kinds |-> s.kinds, listed |-> TRUE]
  /\ listed = TRUE
  /\ reap = FALSE
  /\ channel = <<>> /\ slot = NoWindow /\ wake = FALSE
  /\ thread = [pc |-> "recv", batch |-> <<>>, taken |-> NoWindow]
  /\ call = [t \in Callers |-> NoCall]
  /\ service = [pc |-> "idle", rev |-> 0]
  /\ left \in TrafficBounds

\* wire_revision_for is rev
Subscribed(kind, rev) == kind \in entry.kinds /\ entry.rev = rev

----------------------------------------------------------------------------
(* The process.                                                              *)

Alive == process = "runs"

Ask ==
  /\ Alive /\ left.asks > 0
  /\ \E subscription \in Asked : asks' = Append(asks, subscription)
  /\ left' = [left EXCEPT !.asks = @ - 1]
  /\ UNCHANGED <<process, wire, told, manager, channel, audio, thread, call, service>>

Told(ack) ==
  [rev |-> ack.rev, kinds |-> ack.kinds, ever |-> told.ever \cup ack.kinds]

ProcessReads ==
  /\ Alive /\ wire # <<>>
  /\ wire' = Tail(wire)
  /\ told' = IF Head(wire).commit THEN Told(Head(wire)) ELSE told
  /\ UNCHANGED <<process, asks, manager, channel, audio, thread, call, service, left>>

OneEnd == left.ends > 0 /\ left' = [left EXCEPT !.ends = @ - 1]

\* A crash, the end after Shutdown, or SIGKILL by stop_handle and evict
ProcessDies ==
  /\ Alive /\ process' = "dead"
  /\ OneEnd
  /\ UNCHANGED <<asks, wire, told, manager, channel, audio, thread, call, service>>

----------------------------------------------------------------------------
(* send_blocking: the command waits for room, and its sender for the answer. *)

Calls(t, command) == call' = [call EXCEPT ![t] = [pc |-> "send", command |-> command]]

Enqueue(t) ==
  /\ call[t].pc = "send" /\ thread.pc # "gone" /\ Len(channel) < Capacity
  /\ channel' = Append(channel, call[t].command)
  /\ call' = [call EXCEPT ![t].pc = "wait"]
  /\ UNCHANGED <<socket, manager, audio, thread, service, left>>

EnqueueFails(t) ==
  /\ call[t].pc = "send" /\ thread.pc = "gone"
  /\ call' = [call EXCEPT ![t].pc = "failed"]
  /\ UNCHANGED <<socket, manager, channel, audio, thread, service, left>>

\* RendererSubscriptionRegistry::prepare, and the acknowledgement with its commit
Prepared(ask) ==
  [Reliable("ack", Reader) EXCEPT
     !.rev = ask.rev, !.kinds = ask.kinds, !.commit = entry.listed /\ ask.rev > entry.rev]

ReadAsk ==
  /\ call[Reader] = NoCall /\ asks # <<>>
  /\ asks' = Tail(asks)
  /\ Calls(Reader, Prepared(Head(asks)))
  /\ UNCHANGED <<process, wire, told, manager, channel, audio, thread, service, left>>

\* recv_event fails
ReaderExits ==
  /\ call[Reader] = NoCall /\ asks = <<>> /\ ~Alive
  /\ call' = [call EXCEPT ![Reader].pc = "gone"]
  /\ reap' = TRUE
  /\ UNCHANGED <<socket, listed, entry, channel, audio, thread, service, left>>

\* send_control, of what is sent to every process, or of an event it has subscribed to
SendControl(t) ==
  /\ call[t] = NoCall /\ listed /\ left.sends > 0
  /\ \/ Calls(t, Reliable("control", t))
     \/ "mpris" \in entry.kinds /\ Calls(t, Reliable("mpris", t))
  /\ left' = [left EXCEPT !.sends = @ - 1]
  /\ UNCHANGED <<socket, manager, channel, audio, thread, service>>

\* An error ends the reader, whose drop reports the process, and leads to mark_dead
Answered(t) ==
  /\ call[t].pc \in {"done", "failed"} /\ t # Stopper
  /\ call' = [call EXCEPT ![t] =
       IF t = Reader /\ @.pc = "failed" THEN [NoCall EXCEPT !.pc = "gone"] ELSE NoCall]
  /\ reap' = (reap \/ call[t].pc = "failed")
  /\ UNCHANGED <<socket, listed, entry, channel, audio, thread, service, left>>

\* stop_generation and stop_handle, up to the wait for the child
Stop ==
  /\ listed /\ call[Stopper] = NoCall
  /\ listed' = FALSE /\ entry' = Gone
  /\ Calls(Stopper, Reliable("shutdown", Stopper))
  /\ OneEnd
  /\ UNCHANGED <<socket, reap, channel, audio, thread, service>>

Evict ==
  /\ reap /\ reap' = FALSE
  /\ listed' = FALSE
  /\ entry' = IF listed THEN Gone ELSE entry
  /\ UNCHANGED <<socket, channel, audio, thread, call, service, left>>

----------------------------------------------------------------------------
(* The audio service, for one window at a time: send_audio_window_latest,    *)
(* and replace_audio.                                                        *)

Captured ==
  /\ service.pc = "idle" /\ left.windows > 0 /\ "audio" \in entry.kinds
  /\ service' = [pc |-> "check", rev |-> entry.rev]
  /\ left' = [left EXCEPT !.windows = @ - 1]
  /\ UNCHANGED <<socket, manager, channel, audio, thread, call>>

CheckRevision ==
  /\ service.pc = "check"
  /\ service' = [service EXCEPT !.pc = IF listed /\ Subscribed("audio", service.rev) THEN "store" ELSE "idle"]
  /\ UNCHANGED <<socket, manager, channel, audio, thread, call, left>>

StoreWindow ==
  /\ service.pc = "store"
  /\ slot' = service.rev
  /\ service' = [service EXCEPT !.pc = "swap"]
  /\ UNCHANGED <<socket, manager, channel, wake, thread, call, left>>

SwapWake ==
  /\ service.pc = "swap"
  /\ wake' = TRUE
  /\ service' = [service EXCEPT !.pc = IF wake THEN "idle" ELSE "wake"]
  /\ UNCHANGED <<socket, manager, channel, slot, thread, call, left>>

\* try_send: a full queue wakes the writer, too
SendWake ==
  /\ service.pc = "wake"
  /\ channel' = IF thread.pc # "gone" /\ Len(channel) < Capacity THEN Append(channel, WakeAudio) ELSE channel
  /\ wake' = (wake /\ thread.pc # "gone")
  /\ service' = [service EXCEPT !.pc = "idle"]
  /\ UNCHANGED <<socket, manager, slot, thread, call, left>>

----------------------------------------------------------------------------
(* The writer thread.                                                        *)

ThreadGoes(pc) == thread' = [thread EXCEPT !.pc = pc]
Answer(commands, pc) ==
  call' = [t \in Callers |->
             IF \E i \in DOMAIN commands : commands[i].kind # "wake" /\ commands[i].by = t
               THEN [call[t] EXCEPT !.pc = pc] ELSE call[t]]

\* rx.recv and try_recv
Take ==
  /\ thread.pc \in {"recv", "fill"} /\ channel # <<>> /\ Len(thread.batch) < Capacity
  /\ channel' = Tail(channel)
  /\ thread' = [thread EXCEPT !.pc = "fill", !.batch = Append(@, Head(channel))]
  /\ UNCHANGED <<socket, manager, audio, call, service, left>>

Filled ==
  /\ thread.pc = "fill" /\ (channel = <<>> \/ Len(thread.batch) = Capacity)
  /\ ThreadGoes("write")
  /\ UNCHANGED <<socket, manager, channel, audio, call, service, left>>

Current == Head(thread.batch)
Popped(pc) == [thread EXCEPT !.pc = pc, !.batch = Tail(@)]

SkipWake ==
  /\ thread.pc = "write" /\ thread.batch # <<>> /\ Current.kind = "wake"
  /\ thread' = Popped("write")
  /\ UNCHANGED <<socket, manager, channel, audio, call, service, left>>

Fits == Alive /\ Len(wire) < Buffer

Write ==
  /\ thread.pc = "write" /\ thread.batch # <<>> /\ Current.kind # "wake" /\ Fits
  /\ wire' = Append(wire, Current)
  /\ IF Current.commit
       THEN ThreadGoes("clear") /\ UNCHANGED call
       ELSE thread' = Popped("write") /\ Answer(<<Current>>, "done")
  /\ UNCHANGED <<process, asks, told, manager, channel, audio, service, left>>

ClearSlot ==
  /\ thread.pc = "clear"
  /\ slot' = NoWindow
  /\ ThreadGoes("commit")
  /\ UNCHANGED <<socket, manager, channel, wake, call, service, left>>

\* RendererSubscriptionRegistry::commit
Commit ==
  /\ thread.pc = "commit"
  /\ entry' = IF entry.listed THEN [entry EXCEPT !.rev = Current.rev, !.kinds = Current.kinds] ELSE entry
  /\ thread' = Popped("write") /\ Answer(<<Current>>, "done")
  /\ UNCHANGED <<socket, listed, reap, channel, audio, service, left>>

WriteFails ==
  /\ thread.pc = "write" /\ thread.batch # <<>> /\ Current.kind # "wake" /\ ~Alive
  /\ Answer(thread.batch \o channel, "failed")
  /\ channel' = <<>>
  /\ thread' = [pc |-> "end", batch |-> <<>>, taken |-> NoWindow]
  /\ reap' = TRUE
  /\ UNCHANGED <<socket, listed, entry, audio, service, left>>

\* Mutant: the flag is cleared after the slot was emptied
ClearWakeLate ==
  /\ \/ /\ thread.pc = "write" /\ thread.batch = <<>>
        /\ thread' = [thread EXCEPT !.pc = "late", !.taken = slot]
        /\ slot' = NoWindow /\ UNCHANGED wake
     \/ /\ thread.pc = "late"
        /\ ThreadGoes(IF thread.taken = NoWindow THEN "recv" ELSE "check")
        /\ wake' = FALSE /\ UNCHANGED slot
  /\ UNCHANGED <<socket, manager, channel, call, service, left>>

ClearWake ==
  /\ thread.pc = "write" /\ thread.batch = <<>>
  /\ wake' = FALSE
  /\ ThreadGoes("take")
  /\ UNCHANGED <<socket, manager, channel, slot, call, service, left>>

TakeWindow ==
  /\ thread.pc = "take"
  /\ slot' = NoWindow
  /\ thread' = [thread EXCEPT !.pc = IF slot = NoWindow THEN "recv" ELSE "check", !.taken = slot]
  /\ UNCHANGED <<socket, manager, channel, wake, call, service, left>>

\* Mutant: what the service has checked is not checked again
CheckWindowOnce ==
  /\ thread.pc = "check"
  /\ ThreadGoes("window")
  /\ UNCHANGED <<socket, manager, channel, audio, call, service, left>>

CheckWindow ==
  /\ thread.pc = "check"
  /\ thread' = IF Subscribed("audio", thread.taken) THEN [thread EXCEPT !.pc = "window"]
               ELSE [thread EXCEPT !.pc = "recv", !.taken = NoWindow]
  /\ UNCHANGED <<socket, manager, channel, audio, call, service, left>>

WriteWindow ==
  /\ thread.pc = "window" /\ Fits
  /\ wire' = Append(wire, Window(thread.taken))
  /\ thread' = [thread EXCEPT !.pc = "recv", !.taken = NoWindow]
  /\ UNCHANGED <<process, asks, told, manager, channel, audio, call, service, left>>

WriteWindowFails ==
  /\ thread.pc = "window" /\ ~Alive
  /\ thread' = [thread EXCEPT !.pc = "end", !.taken = NoWindow]
  /\ reap' = TRUE
  /\ UNCHANGED <<socket, listed, entry, channel, audio, call, service, left>>

\* Nobody holds the writer any more
Unheld ==
  /\ ~listed /\ service.pc = "idle"
  /\ call[Reader].pc = "gone" /\ \A t \in Sender : call[t] = NoCall
  /\ call[Stopper].pc \notin {"send", "wait"}

RecvFails ==
  /\ thread.pc = "recv" /\ channel = <<>> /\ Unheld
  /\ ThreadGoes("end")
  /\ UNCHANGED <<socket, manager, channel, audio, call, service, left>>

\* The commands that are left are answered, or their senders find the channel closed
WriterEnds ==
  /\ thread.pc = "end"
  /\ Answer(channel, "failed")
  /\ channel' = <<>>
  /\ ThreadGoes("gone")
  /\ UNCHANGED <<socket, manager, audio, service, left>>

----------------------------------------------------------------------------
WriterNext ==
  \/ Ask \/ ProcessReads \/ ProcessDies
  \/ \E t \in Callers : Enqueue(t) \/ EnqueueFails(t) \/ Answered(t)
  \/ \E t \in Sender : SendControl(t)
  \/ ReadAsk \/ ReaderExits \/ Stop \/ Evict
  \/ Captured \/ CheckRevision \/ StoreWindow \/ SwapWake \/ SendWake
  \/ Take \/ Filled \/ SkipWake \/ Write \/ WriteFails \/ ClearSlot \/ Commit
  \/ ClearWake \/ TakeWindow \/ CheckWindow \/ WriteWindow \/ WriteWindowFails
  \/ RecvFails \/ WriterEnds

WriterSpec == WriterInit /\ [][WriterNext]_writerVars

----------------------------------------------------------------------------
\* The last acknowledgement the process gets before the message i on the socket
Before(i) ==
  LET acks == {j \in 1 .. i - 1 : wire[j].commit}
  IN  IF acks = {} THEN [rev |-> told.rev, kinds |-> told.kinds]
      ELSE LET last == CHOOSE j \in acks : \A k \in acks : k <= j
           IN  [rev |-> wire[last].rev, kinds |-> wire[last].kinds]
EverBefore(i) == told.ever \cup UNION {wire[j].kinds : j \in {k \in 1 .. i - 1 : wire[k].commit}}

(* No event is delivered before the acknowledgement of a subscription that   *)
(* asks for it, and an audio window only under the subscription it was made  *)
(* for: the revision is read, checked and checked again while the writer     *)
(* moves on to the next.                                                     *)
EventsFit ==
  \A i \in DOMAIN wire :
    /\ wire[i].kind = "mpris" => "mpris" \in EverBefore(i)
    /\ wire[i].kind = "audio" => Before(i).rev = wire[i].rev /\ "audio" \in Before(i).kinds

(* When the writer sleeps, no window waits in its slot, and nobody for an    *)
(* answer; when it has ended, nobody waits either: no wake-up is lost to the *)
(* flag that saves the others, nor to a full queue.                          *)
WriterAtRest ==
  /\ thread.pc = "recv" /\ channel = <<>> =>
       /\ service.pc = "idle" => slot = NoWindow
       /\ \A t \in Callers : call[t].pc # "wait"
  /\ thread.pc = "gone" => \A t \in Callers : call[t].pc # "wait"
=============================================================================
