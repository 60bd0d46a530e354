------------------------- MODULE MCServerLifecycle -------------------------
(* ServerLifecycle on small sets of Serve calls, Close calls and peers. *)
EXTENDS ServerLifecycle, TLC

\* Connections are only compared; used where no liveness is checked.
ConnSymmetry == Permutations(Conns)

=============================================================================
