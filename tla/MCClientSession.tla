-------------------------- MODULE MCClientSession --------------------------
(* One goroutine reads, writes and reconnects, the other one reads, writes  *)
(* and closes the Client under it.                                          *)
EXTENDS ClientSession, TLC

CONSTANTS g1, g2

MCCallers == {g1, g2}
MCCalls == (g1 :> {"op", "Connect"}) @@ (g2 :> {"op", "Close"})

=============================================================================
