------------------------ MODULE MCRendererLifecycle ------------------------
(* Instances of RendererLifecycle for TLC. *)
EXTENDS RendererLifecycle, TLC

\* Requests are handled alike whoever sends them
HandlerSymmetry == Permutations(Handlers)

=============================================================================
