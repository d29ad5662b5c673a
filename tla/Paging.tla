------------------------------- MODULE Paging -------------------------------
(***************************************************************************)
(* GitHub's listings come in pages, and a page read may fail after some of *)
(* its items were taken: what the reads of src/proof_check/github_read.py  *)
(* share.                                                                  *)
(***************************************************************************)
EXTENDS Integers, Sequences, Functions

CONSTANT
    PageSize       \* _PAGE_SIZE, 100 in the code

ASSUME PageAssumption == PageSize \in Nat \ {0}

Smaller(m, n) == IF m <= n THEN m ELSE n

\* Page p of a listing; GitHub answers a page past the end with no items.
PageOf(list, p) ==
    SubSeq(list, (p - 1) * PageSize + 1, Smaller(p * PageSize, Len(list)))

FirstOf(list, n) == SubSeq(list, 1, Smaller(n, Len(list)))

\* What is left of a listing when GitHub lists its item k no more.
Without(list, k) == SubSeq(list, 1, k - 1) \o SubSeq(list, k + 1, Len(list))

\* No id or filename of `more` repeats one of `known`, or another of `more`.
NoRepeat(known, more) ==
    /\ Range(known) \cap Range(more) = {}
    /\ IsInjective(more)

\* How many items of a page a failing read keeps: none, when the request
\* itself fails, else the well-formed ones in front of a malformed one or of
\* a repeated one.
KeptBeforeFailure(n) == {0} \cup 0 .. n - 1
=============================================================================
