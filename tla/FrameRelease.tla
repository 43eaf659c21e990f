---------------------------- MODULE FrameRelease ----------------------------
(***************************************************************************)
(* What the release of frames promises, without tasks and channels: frames *)
(* are published one after the other to some users each, users finish with *)
(* them in any order, and frames are given back in the order in which they *)
(* were published, a frame only when nobody uses it.                       *)
(***************************************************************************)
EXTENDS Naturals

CONSTANTS
    Users,
    MaxFrame   \* bound: frames published

VARIABLES
    published, \* number of frames published
    using,     \* pairs <<frame, user>>
    released   \* number of frames given back

vars == <<published, using, released>>

Init == published = 0 /\ using = {} /\ released = 0

Publish(S) ==
    /\ published < MaxFrame
    /\ published' = published + 1
    /\ using' = using \cup ({published'} \X S)
    /\ UNCHANGED released

\* A user is done with a frame, or leaves and is done with several
Finish ==
    /\ UNCHANGED <<published, released>>
    /\ using' # using /\ using' \subseteq using
    /\ \E u \in Users : \A c \in using \ using' : c[2] = u

\* Frames go back in order, several at a time if their turn has come
Release(n) ==
    /\ released < n
    /\ released' = n
    /\ \A c \in using : c[1] > n
    /\ UNCHANGED <<published, using>>

Next == \/ \E S \in SUBSET Users : Publish(S)
        \/ Finish
        \/ \E n \in 1 .. published : Release(n)

Spec == Init /\ [][Next]_vars

=============================================================================
