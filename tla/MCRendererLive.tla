--------------------------- MODULE MCRendererLive ---------------------------
(* What is owed to those who wait for a renderer, under fairness: by its    *)
(* slot, and by the release of its frames.  A behaviour runs one of the     *)
(* two; the other is at rest, with nothing enabled in it.                   *)
EXTENDS RendererLifecycle, TLC

VARIABLES
  nextFrame, retired, token, arms, sess, engaged, fence, late, chan, bucket, member,
  closedSessions, worker, wait, comp, nextPoint, ready, producerFd, imported, reaper, blamed,
  fact

\* One frame, for a display that arms and for a legacy one
Release == INSTANCE ReleaseReaper
  WITH Sessions <- {"s1", "s2"}, LegacySessions <- {"s2"}, RudeSessions <- {}, MaxPoint <- 1,
       SyncobjFirst <- TRUE, DrmErrors <- FALSE, FrameLoss <- FALSE

release ==
  <<nextFrame, retired, token, arms, sess, engaged, fence, late, chan, bucket, member,
    closedSessions, worker, wait, comp, nextPoint, ready, producerFd, imported, reaper, blamed,
    fact>>

----------------------------------------------------------------------------
\* Nothing was started, and nobody asks for anything any more
SlotAtRest == Fresh /\ task = [t \in Tasks |-> <<>>] /\ ops = MaxOps

\* The renderer was retired before its first frame, and the displays are gone
ReleaseAtRest ==
  /\ nextFrame = 1 /\ retired = TRUE
  /\ token = [c \in Release!Consumers |-> "none"] /\ arms = {}
  /\ sess = [s \in {"s1", "s2"} |-> "gone"] /\ engaged = {}
  /\ fence = [c \in Release!Consumers |-> "unsubmitted"] /\ late = {}
  /\ chan = <<>>
  /\ bucket = [p \in Release!Points |-> "absent"]
  /\ member = [c \in Release!Consumers |-> "none"] /\ closedSessions = {}
  /\ worker = [p \in Release!Points |-> "none"]
  /\ wait = [c \in Release!Consumers |-> "none"]
  /\ comp = [p \in Release!Points |-> "none"]
  /\ nextPoint = 1 /\ ready = {} /\ producerFd = FALSE /\ imported = FALSE
  /\ reaper = "exited" /\ blamed = {} /\ fact = [c \in Release!Consumers |-> "none"]

LiveInit == (Init /\ ReleaseAtRest) \/ (Release!Init /\ SlotAtRest)

LiveNext ==
  \/ Next /\ UNCHANGED release
  \/ Release!Next /\ UNCHANGED vars

LiveSpec ==
  /\ LiveInit /\ [][LiveNext]_<<vars, release>>
  /\ Fairness /\ Release!Fairness

----------------------------------------------------------------------------
\* RendererLifecycle: a slot does not stay in Starting, nor in Stopping
TransitionsSettle == StartSettles /\ StopSettles

\* ReleaseReaper: a registered frame is given back to the producer in the end
FrameReleased == Release!FrameReleased

\* ReleaseReaper: the reaper ends when its renderer and the sessions of its displays have
ReaperRetires == Release!ReaperRetires
=============================================================================
