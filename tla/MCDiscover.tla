----------------------------- MODULE MCDiscover -----------------------------
(* Eight addresses at the end of the address space, six of them hosts, more *)
(* than the channel of jobs holds.                                          *)
EXTENDS Discover

MCSpeaks == [a \in 0..15 |-> CASE a = 9 -> {1} [] a = 12 -> {3} [] a = 14 -> {2, 3} [] OTHER -> {}]
=============================================================================
