------------------------------ MODULE MCCapture ------------------------------
(* A client that connects and sends one PDU in two TPDUs and two more in one *)
(* each, and a server that confirms and answers, as TLC's instance.          *)
EXTENDS Capture

CONSTANTS c1

Tpkt(tpdu) == <<3, 0, 0, Len(tpdu) + 4>> \o tpdu
CR == Tpkt(<<2, 224, 0>>)
CC == Tpkt(<<2, 208, 0>>)
DT(eot, data) == Tpkt(<<2, 240, IF eot THEN 128 ELSE 0>> \o data)

MCClients == {c1}
\* 7 bytes, then 8 + 8, 8 and 8: packets at 0, 7, 15, 23 and 31.
MCSent == [up |-> CR \o DT(FALSE, <<50>>) \o DT(TRUE, <<1>>) \o DT(TRUE, <<50>>) \o DT(TRUE, <<114>>),
           down |-> CC \o DT(TRUE, <<50>>)]
MCTsdus == [up |-> <<[from |-> 7, to |-> 23, data |-> <<50, 1>>],
                     [from |-> 23, to |-> 31, data |-> <<50>>],
                     [from |-> 31, to |-> 39, data |-> <<114>>]>>,
            down |-> <<[from |-> 7, to |-> 15, data |-> <<50>>]>>]
MCTpduStarts == [up |-> {0, 7, 15, 23, 31}, down |-> {0, 7}]
MCConnects == [up |-> {<<0, 7>>}, down |-> {<<0, 7>>}]
MCSegments == [up |-> {<<0, 7>>, <<7, 15>>, <<11, 23>>, <<15, 31>>, <<7, 23>>, <<23, 39>>},
               down |-> {<<0, 15>>, <<7, 15>>, <<7, 12>>}]
MCISNs == {0, 90}
MCLinks == {"ethernet", "other"}
=============================================================================
