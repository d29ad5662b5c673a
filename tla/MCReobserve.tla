---------------------------- MODULE MCReobserve ----------------------------
(***************************************************************************)
(* A small instance of Reobserve: two heads and two bases, and pages of    *)
(* one check run, so that a second run takes a second page and a third is  *)
(* past the ceiling.  A head starts with none, one or two, and h1 has ids  *)
(* up to three: when it starts with one there are two more, one that takes *)
(* its place and one besides.                                              *)
(***************************************************************************)
EXTENDS Reobserve

MCFileCount ==
    [h1 |-> [b1 |-> 1, b2 |-> 2], h2 |-> [b1 |-> 1, b2 |-> 1]]

MCMaxRuns == [h1 |-> 3, h2 |-> 1]
=============================================================================
