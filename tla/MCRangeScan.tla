----------------------------- MODULE MCRangeScan -----------------------------
(* Requests with probes side by side, overlapping, with the default sizes,  *)
(* with repeats, with retries, of an empty range and of an invalid one.     *)
EXTENDS RangeScan

Request(start, end, stp, size, rep, ret) ==
  [Start |-> start, End |-> end, Step |-> stp, ProbeSize |-> size, Repeat |-> rep, Retries |-> ret]

MCRequests ==
  {Request(0, 5, 2, 2, 2, 0), Request(1, 7, 0, 3, 1, 1), Request(2, 5, 1, 2, 1, 0),
   Request(0, 3, 0, 0, 0, 0), Request(0, 2, 1, 1, 2, 1), Request(4, 4, 1, 1, 1, 0),
   Request(3, 2, 1, 1, 1, 0)}
=============================================================================
