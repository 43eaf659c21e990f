-------------------------- MODULE MCDisplayBinding --------------------------
(* Instances of DisplayBinding: one display, one request of the UI at a time. *)
EXTENDS DisplayBinding

\* What may happen while the display is shown something: each pair of disturbances that
\* meets in a different place, in either order where the order makes a difference.
MCScenarios ==
    { <<"stop", "stop">>, <<"clear", "stop">>, <<"clear", "pause">>, <<"pause", "leave">>,
      <<"restart", "leave">>, <<"fail", "leave">>, <<"fail", "clear">>, <<"fail", "pause">>,
      <<"fail", "crash">> }

\* A manual stop, and nothing else
MCStop == { <<"stop">> }
=============================================================================
