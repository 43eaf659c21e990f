-------------------------- MODULE MCReleaseReaper --------------------------
(* Model-checking instances of ReleaseReaper: two displays without faults,  *)
(* and one display, which may arm too early, with every fault.              *)
EXTENDS ReleaseReaper, TLC

VARIABLE faulty

Faults == INSTANCE ReleaseReaper
  WITH RudeSessions <- Sessions, SyncobjFirst <- FALSE, DrmErrors <- TRUE, FrameLoss <- TRUE

\* A display that gets no frame, and stays
Bystander(s) == sess[s] = "open" /\ \A p \in Points : token[<<p, s>>] = "none"

ReaperInit == faulty \in BOOLEAN /\ Init

ReaperNext ==
  /\ UNCHANGED faulty
  /\ \/ ~faulty /\ Next /\ \E s \in Sessions : (sess[s] = "open")'
     \/ faulty /\ Faults!Next /\ \E s \in Sessions : Bystander(s)'

ReaperSpec == ReaperInit /\ [][ReaperNext]_<<vars, faulty>>

SessionSymmetry == Permutations(Sessions)

\* Bound on the records in flight between the senders and the reaper
ChanBound == faulty \/ Len(chan) <= 2

----------------------------------------------------------------------------
\* ReleaseReaper: without faults a complete prefix of the frames is published
PrefixPublishedUnfailed == ~faulty => PrefixPublished

\* ReleaseReaper: a renderer is poisoned for cause only
PoisonedForCause == (~faulty => PoisonForCause) /\ (faulty => Faults!PoisonForCause)
=============================================================================
