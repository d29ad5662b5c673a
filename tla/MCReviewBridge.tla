--------------------------- MODULE MCReviewBridge ---------------------------
(***************************************************************************)
(* A small instance of ReviewBridge: one run that was attempted twice and  *)
(* so has two summaries, one summary whose marker contradicts itself, and  *)
(* two heads.                                                              *)
(***************************************************************************)
EXTENDS ReviewBridge

Marked(head, verdict, findings) ==
    [markers |-> 1, head |-> head, run |-> 1, verdict |-> verdict,
     findings |-> findings, numbered |-> findings > 0]

MCSummary ==
    [c1 |-> Marked("h1", "CLEAN", 0),
     c2 |-> Marked("h1", "REPAIR_REQUIRED", 1),
     c3 |-> Marked("h1", "UNKNOWN", 0)]

MCCalls == [head: {"h1"}, run: {1}, source: DOMAIN MCSummary]
=============================================================================
