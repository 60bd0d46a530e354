---------------------------- MODULE MCCpuServices ----------------------------
(* CpuServices with a component list in two packets, block lists of one and *)
(* two packets, and blocks of no and of two segments.                       *)
EXTENDS CpuServices

MCPackets == [module |-> 1, component |-> 2, db |-> 2, fc |-> 1]
MCIdentify == <<"module", "component">>
MCListAllBlocks == <<"db", "fc">>

==============================================================================
