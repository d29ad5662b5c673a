------------------------- MODULE ReviewBridgeProofs -------------------------
(***************************************************************************)
(* Proofs about ReviewBridge, for every set of heads, runs, summaries and  *)
(* invocations.                                                            *)
(***************************************************************************)
EXTENDS ReviewBridge, FiniteSetTheorems, SequenceTheorems, TLAPS

-----------------------------------------------------------------------------
(* The inductive invariant *)

\* As long as nothing overlapped or arrived late there is nothing on its way
\* and one invocation at work.
Quiet ==
    ~disturbed =>
        /\ delayed = {}
        /\ \A i, j \in Invocations : Active(i) /\ Active(j) => i = j

\* What the listing said still holds when the review is posted.
StillClear ==
    ~disturbed =>
        \A i \in Invocations : pc[i] = "post" => Matches(args[i]) = {}

\* The recorded id is that of the invocation's own review.
Held(i) ==
    /\ found[i] \in 1 .. Len(reviews)
    /\ reviews[found[i]] = ReviewBody(args[i])

HeldIsOwn ==
    \A i \in Invocations : pc[i] \in {"readback", "record", "done"} => Held(i)

IdleIsFresh == \A i \in Invocations : pc[i] = "idle" => refusal[i] = "none"

Admitted == \A i \in Invocations : Active(i) => ~MarkerRefused(args[i])

\* Every review was composed by some invocation.
Sent(r) == \E j \in Invocations : pc[j] # "idle" /\ r = ReviewBody(args[j])

Origin ==
    /\ \A k \in 1 .. Len(reviews) : Sent(reviews[k])
    /\ \A r \in delayed : Sent(r)

IInv ==
    /\ TypeOK
    /\ Quiet
    /\ StillClear
    /\ HeldIsOwn
    /\ IdleIsFresh
    /\ Admitted
    /\ Origin
    /\ AtMostOneReview
    /\ RefusalsHaveCause

-----------------------------------------------------------------------------
(* Facts about reviews *)

LEMMA BodyType ==
    ASSUME NEW a \in Arguments, ~MarkerRefused(a)
    PROVE  /\ ReviewBody(a) \in Review
           /\ ReviewBody(a).head = a.head /\ ReviewBody(a).run = a.run
<1>1. Summary[a.source] \in SummaryDocument
  BY SummaryAssumption DEF Arguments
<1> QED
  BY <1>1 DEF ReviewBody, Review, MarkerRefused, Arguments, SummaryDocument

\* Two different reviews of one run and head have different summaries.
LEMMA SourceTells ==
    ASSUME NEW a \in Arguments, NEW b \in Arguments,
           ReviewBody(a) # ReviewBody(b), a.head = b.head, a.run = b.run
    PROVE  a.source # b.source
BY DEF ReviewBody

\* A list in which one run and head occurs once yields at most one match.
LEMMA OneMatch ==
    ASSUME NEW a, AtMostOneReview, ~disturbed
    PROVE  ~(Cardinality(Matches(a)) > 1)
<1>1. CASE Matches(a) = {}
  BY <1>1, FS_EmptySet
<1>2. CASE Matches(a) # {}
  <2>1. PICK k \in Matches(a) : TRUE
    BY <1>2
  <2>2. Matches(a) = {k}
    BY <2>1 DEF Matches, AtMostOneReview
  <2>3. Cardinality({k}) = 1
    BY FS_Singleton
  <2> QED
    BY <2>2, <2>3
<1> QED
  BY <1>1, <1>2

-----------------------------------------------------------------------------
(* Steps *)

\* A step of one active invocation that sends nothing to GitHub.
LEMMA LocalStep ==
    ASSUME IInv, NEW i \in Invocations, Active(i),
           NEW x \in {"list", "post", "record", "done", "refused"},
           pc' = [pc EXCEPT ![i] = x],
           NEW why \in Reasons \cup {"none"},
           refusal' = [refusal EXCEPT ![i] = why],
           NEW k \in Nat, found' = [found EXCEPT ![i] = k],
           UNCHANGED <<reviews, delayed, args, disturbed>>,
           pull' \in PullDocument,
           x = "post" => Matches(args[i]) = {},
           x \in {"record", "done"} =>
              k \in 1 .. Len(reviews) /\ reviews[k] = ReviewBody(args[i]),
           why = "CONFLICTING_REVIEW" =>
              \E j \in Invocations :
                  /\ pc[j] # "idle"
                  /\ args[j].head = args[i].head /\ args[j].run = args[i].run
                  /\ args[j].source # args[i].source,
           why = "DUPLICATE_REVIEW" => disturbed
    PROVE  IInv'
<1>0. /\ pc \in [Invocations -> Places] /\ args \in [Invocations -> Arguments]
      /\ found \in [Invocations -> Nat]
      /\ refusal \in [Invocations -> Reasons \cup {"none"}]
  BY DEF IInv, TypeOK
<1>1. /\ \A j \in Invocations : j # i => pc'[j] = pc[j]
      /\ pc'[i] = x /\ found'[i] = k /\ refusal'[i] = why
      /\ \A j \in Invocations : j # i => found'[j] = found[j]
      /\ \A j \in Invocations : j # i => refusal'[j] = refusal[j]
      /\ \A j \in Invocations : pc[j] # "idle" => pc'[j] # "idle"
  BY <1>0
<1>2. \A j \in Invocations : Active(j)' => Active(j)
  BY <1>1 DEF Active, Working
<1>3. TypeOK'
  BY DEF IInv, TypeOK, Places, Working
<1>4. Quiet'
  BY <1>2 DEF IInv, Quiet
<1>5. StillClear'
  BY <1>1 DEF IInv, StillClear, Matches
<1>6. HeldIsOwn'
  BY <1>1 DEF IInv, HeldIsOwn, Held, ReviewBody
<1>7. Admitted'
  BY <1>2 DEF IInv, Admitted, MarkerRefused
<1>8. Origin'
  BY <1>1 DEF IInv, Origin, Sent, ReviewBody
<1>9. AtMostOneReview'
  BY DEF IInv, AtMostOneReview
<1>10. RefusalsHaveCause'
  BY <1>1 DEF IInv, RefusalsHaveCause
<1>11. IdleIsFresh'
  BY <1>1 DEF IInv, IdleIsFresh
<1> QED
  BY <1>3, <1>4, <1>5, <1>6, <1>7, <1>8, <1>9, <1>10, <1>11 DEF IInv

\* The same for a step that goes on.
LEMMA AdvanceStep ==
    ASSUME IInv, NEW i \in Invocations, Active(i),
           NEW x \in {"list", "post", "record", "done"}, Goto(i, x),
           NEW k \in Nat, found' = [found EXCEPT ![i] = k],
           UNCHANGED <<pull, reviews, delayed, args, disturbed>>,
           x = "post" => Matches(args[i]) = {},
           x \in {"record", "done"} =>
              k \in 1 .. Len(reviews) /\ reviews[k] = ReviewBody(args[i])
    PROVE  IInv'
<1>0. /\ refusal \in [Invocations -> Reasons \cup {"none"}]
      /\ pull \in PullDocument
  BY DEF IInv, TypeOK
<1>1. PICK why \in Reasons \cup {"none"} : why = refusal[i]
  BY <1>0
<1>2. /\ refusal' = [refusal EXCEPT ![i] = why]
      /\ pc' = [pc EXCEPT ![i] = x]
      /\ pull' \in PullDocument
      /\ x \in {"list", "post", "record", "done", "refused"}
  BY <1>0, <1>1 DEF Goto
<1>3. /\ why = "CONFLICTING_REVIEW" =>
            \E j \in Invocations :
                /\ pc[j] # "idle"
                /\ args[j].head = args[i].head /\ args[j].run = args[i].run
                /\ args[j].source # args[i].source
      /\ why = "DUPLICATE_REVIEW" => disturbed
  BY <1>1 DEF IInv, RefusalsHaveCause
<1> QED
  BY <1>2, <1>3, LocalStep

\* The same for a step that refuses.
LEMMA RefuseStep ==
    ASSUME IInv, NEW i \in Invocations, Active(i),
           NEW why \in Reasons, Refuse(i, why),
           UNCHANGED <<pull, reviews, delayed, args, found, disturbed>>,
           why = "CONFLICTING_REVIEW" =>
              \E j \in Invocations :
                  /\ pc[j] # "idle"
                  /\ args[j].head = args[i].head /\ args[j].run = args[i].run
                  /\ args[j].source # args[i].source,
           why = "DUPLICATE_REVIEW" => disturbed
    PROVE  IInv'
<1>1. /\ found' = [found EXCEPT ![i] = found[i]] /\ found[i] \in Nat
      /\ pull' \in PullDocument
      /\ why \in Reasons \cup {"none"}
  BY DEF IInv, TypeOK
<1>2. /\ refusal' = [refusal EXCEPT ![i] = why]
      /\ pc' = [pc EXCEPT ![i] = "refused"]
  BY DEF Refuse
<1> QED
  BY <1>1, <1>2, LocalStep

\* A new review at the end of the list.
LEMMA AppendFacts ==
    ASSUME IInv, NEW r \in Review, reviews' = Append(reviews, r)
    PROVE  /\ Len(reviews) \in Nat
           /\ reviews' \in Seq(Review)
           /\ Len(reviews') = Len(reviews) + 1
           /\ \A k \in 1 .. Len(reviews) : reviews'[k] = reviews[k]
           /\ reviews'[Len(reviews) + 1] = r
<1>1. reviews \in Seq(Review)
  BY DEF IInv, TypeOK
<1> QED
  BY <1>1, AppendProperties, LenProperties

LEMMA BeginStep ==
    ASSUME IInv, NEW i \in Invocations, NEW a \in Calls, Begin(i, a)
    PROVE  IInv'
<1>0. /\ pc \in [Invocations -> Places] /\ args \in [Invocations -> Arguments]
      /\ refusal \in [Invocations -> Reasons \cup {"none"}]
      /\ a \in Arguments /\ pc[i] = "idle" /\ refusal[i] = "none"
  BY CallAssumption DEF IInv, TypeOK, Begin, IdleIsFresh
<1>1. /\ UNCHANGED <<pull, reviews, delayed, found>>
      /\ disturbed' = (disturbed \/ \E j \in Invocations : Active(j))
      /\ args' = [args EXCEPT ![i] = a]
  BY DEF Begin, github
<1>2. /\ pc'[i] \in {"pull", "refused"}
      /\ pc'[i] = "pull" => ~MarkerRefused(a)
      /\ refusal'[i] \in {"none", "INVALID_SUMMARY"}
      /\ args'[i] = a
      /\ \A j \in Invocations \ {i} :
            /\ pc'[j] = pc[j] /\ refusal'[j] = refusal[j] /\ args'[j] = args[j]
      /\ pc' \in [Invocations -> Places]
      /\ args' \in [Invocations -> Arguments]
      /\ refusal' \in [Invocations -> Reasons \cup {"none"}]
  BY <1>0, <1>1 DEF Begin, Refuse, Goto, Places, Working, Reasons
<1>3. TypeOK'
  BY <1>1, <1>2 DEF IInv, TypeOK
<1>12. ~disturbed' => /\ ~disturbed
                      /\ \A j \in Invocations : pc[j] \notin Working
  BY <1>1 DEF Active, IInv, TypeOK
<1>4. Quiet'
  <2>1. \A j \in Invocations : ~disturbed' /\ pc'[j] \in Working => j = i
    BY <1>2, <1>12
  <2> QED
    BY <1>1, <1>12, <2>1 DEF IInv, Quiet, Active
<1>5. StillClear'
  <2>1. \A j \in Invocations : ~disturbed' => pc'[j] # "post"
    BY <1>2, <1>12 DEF Working
  <2> QED
    BY <2>1 DEF StillClear
<1>6. HeldIsOwn'
  <2>1. \A j \in Invocations : pc'[j] \in {"readback", "record", "done"} =>
           j # i /\ Held(j)
    BY <1>2 DEF IInv, HeldIsOwn
  <2>2. \A j \in Invocations \ {i} : Held(j) => Held(j)'
    BY <1>1, <1>2 DEF Held, ReviewBody
  <2> QED
    BY <2>1, <2>2 DEF HeldIsOwn
<1>7. Admitted' /\ IdleIsFresh'
  BY <1>0, <1>1, <1>2
     DEF IInv, Admitted, IdleIsFresh, MarkerRefused, Active, Working
<1>8. \A r : Sent(r) => Sent(r)'
  BY <1>0, <1>1, <1>2 DEF Sent, ReviewBody
<1>9. Origin'
  BY <1>1, <1>8 DEF IInv, Origin
<1>10. AtMostOneReview'
  BY <1>1 DEF IInv, AtMostOneReview
<1>13. disturbed => disturbed'
  BY <1>1
<1>11. RefusalsHaveCause'
  <2>1. \A j \in Invocations : pc[j] # "idle" => j # i
    BY <1>0
  <2>2. ASSUME NEW j \in Invocations
        PROVE  /\ refusal'[j] \in {"CONFLICTING_REVIEW", "DUPLICATE_REVIEW"} =>
                     j # i
               /\ refusal'[j] = "DUPLICATE_REVIEW" => disturbed'
    BY <1>2, <1>13 DEF IInv, RefusalsHaveCause
  <2>3. ASSUME NEW j \in Invocations, refusal'[j] = "CONFLICTING_REVIEW"
        PROVE  \E l \in Invocations :
                  /\ pc'[l] # "idle"
                  /\ args'[l].head = args'[j].head /\ args'[l].run = args'[j].run
                  /\ args'[l].source # args'[j].source
    <3>1. j # i /\ refusal[j] = "CONFLICTING_REVIEW"
      BY <1>2, <2>2, <2>3
    <3>2. PICK l \in Invocations :
             /\ pc[l] # "idle"
             /\ args[l].head = args[j].head /\ args[l].run = args[j].run
             /\ args[l].source # args[j].source
      BY <3>1 DEF IInv, RefusalsHaveCause
    <3> QED
      BY <1>2, <2>1, <3>1, <3>2
  <2> QED
    BY <2>2, <2>3 DEF RefusalsHaveCause
<1> QED
  BY <1>3, <1>4, <1>5, <1>6, <1>7, <1>9, <1>10, <1>11 DEF IInv

\* Reading the pull request, reading back, writing the record, failing and
\* being killed send nothing to GitHub.
LEMMA QuietSteps ==
    ASSUME IInv, NEW i \in Invocations,
           Fail(i) \/ ReadPull(i) \/ ReadBack(i) \/ WriteRecord(i) \/ Kill(i)
    PROVE  IInv'
<1>0. /\ pc \in [Invocations -> Places] /\ found \in [Invocations -> Nat]
      /\ refusal \in [Invocations -> Reasons \cup {"none"}]
      /\ pull \in PullDocument
  BY DEF IInv, TypeOK
<1>1. /\ Active(i)
      /\ UNCHANGED <<pull, reviews, delayed, args, found, disturbed>>
  BY DEF Fail, ReadPull, ReadBack, WriteRecord, Kill, Active, Working, github
<1>2. found' = [found EXCEPT ![i] = found[i]] /\ found[i] \in Nat
  BY <1>0, <1>1
<1>3. ASSUME NEW why \in Reasons \ {"CONFLICTING_REVIEW", "DUPLICATE_REVIEW"},
             Refuse(i, why)
      PROVE  IInv'
  BY <1>1, <1>3, RefuseStep
<1>4. ASSUME NEW x \in {"list", "record", "done"}, Goto(i, x),
             x # "list" => Held(i)
      PROVE  IInv'
  BY <1>0, <1>1, <1>2, <1>4, AdvanceStep DEF Held
<1>5. CASE Fail(i) \/ Kill(i)
  BY <1>3, <1>5 DEF Fail, Kill, Reasons
<1>6. CASE ReadPull(i)
  <2>1. \/ Refuse(i, "PR_HEAD_CHANGED") \/ Refuse(i, "UNTRUSTED_PRODUCER")
        \/ Goto(i, "list")
    BY <1>6 DEF ReadPull
  <2> QED
    BY <1>3, <1>4, <2>1 DEF Reasons
<1>7. CASE ReadBack(i)
  <2>1. Held(i)
    BY <1>7 DEF IInv, HeldIsOwn, ReadBack
  <2> QED
    BY <1>3, <1>4, <1>7, <2>1 DEF ReadBack, Reasons
<1>8. CASE WriteRecord(i)
  <2>1. Held(i)
    BY <1>8 DEF IInv, HeldIsOwn, WriteRecord
  <2> QED
    BY <1>3, <1>4, <1>8, <2>1 DEF WriteRecord, Reasons
<1> QED
  BY <1>5, <1>6, <1>7, <1>8

LEMMA ListStep ==
    ASSUME IInv, NEW i \in Invocations, ListReviews(i)
    PROVE  IInv'
<1>0. /\ found \in [Invocations -> Nat] /\ args \in [Invocations -> Arguments]
      /\ pull \in PullDocument /\ pc[i] = "list" /\ Active(i)
      /\ reviews \in Seq(Review)
  BY DEF IInv, TypeOK, ListReviews, Active, Working
<1>1. UNCHANGED <<pull, reviews, delayed, args, disturbed>>
  BY DEF ListReviews, github
<1>2. found' = found =>
         found' = [found EXCEPT ![i] = found[i]] /\ found[i] \in Nat
  BY <1>0
<1>3. CASE Matches(args[i]) = {} /\ Goto(i, "post") /\ UNCHANGED found
  BY <1>0, <1>1, <1>2, <1>3, AdvanceStep
<1>4. ASSUME NEW k \in Matches(args[i]), Reconcilable(k, args[i]),
             found' = [found EXCEPT ![i] = k], Goto(i, "record")
      PROVE  IInv'
  <2>1. k \in 1 .. Len(reviews) /\ k \in Nat
        /\ reviews[k] = ReviewBody(args[i])
    BY <1>0, <1>4, LenProperties DEF Matches, Reconcilable
  <2> QED
    BY <1>0, <1>1, <1>4, <2>1, AdvanceStep
<1>5. ASSUME NEW k \in Matches(args[i]), ~Reconcilable(k, args[i]),
             Refuse(i, "CONFLICTING_REVIEW"), UNCHANGED found
      PROVE  IInv'
  <2>1. PICK j \in Invocations : pc[j] # "idle" /\ reviews[k] = ReviewBody(args[j])
    BY DEF IInv, Origin, Sent, Matches
  <2>2. args[i] \in Arguments /\ args[j] \in Arguments
    BY <1>0
  <2>3. args[j].head = args[i].head /\ args[j].run = args[i].run
    BY <2>1, <2>2 DEF Matches, ReviewBody
  <2>4. args[j].source # args[i].source
    BY <1>5, <2>1, <2>2, <2>3 DEF Reconcilable, ReviewBody
  <2>5. "CONFLICTING_REVIEW" \in Reasons
    BY DEF Reasons
  <2> QED
    BY <1>0, <1>1, <1>5, <2>1, <2>3, <2>4, <2>5, RefuseStep
<1>6. ASSUME Cardinality(Matches(args[i])) > 1,
             Refuse(i, "DUPLICATE_REVIEW"), UNCHANGED found
      PROVE  IInv'
  <2>1. disturbed
    BY <1>6, OneMatch DEF IInv
  <2>2. "DUPLICATE_REVIEW" \in Reasons
    BY DEF Reasons
  <2> QED
    BY <1>0, <1>1, <1>6, <2>1, <2>2, RefuseStep
<1> QED
  BY <1>3, <1>4, <1>5, <1>6 DEF ListReviews

\* The review is created, whether or not the answer comes back.
LEMMA CreateStep ==
    ASSUME IInv, NEW i \in Invocations, pc[i] = "post",
           reviews' = Append(reviews, ReviewBody(args[i])),
           \/ /\ found' = [found EXCEPT ![i] = Len(reviews')]
              /\ Goto(i, "readback")
           \/ Refuse(i, "GITHUB_API_FAILURE") /\ UNCHANGED found,
           UNCHANGED <<pull, delayed, args, disturbed>>
    PROVE  IInv'
<1>0. /\ pc \in [Invocations -> Places] /\ args \in [Invocations -> Arguments]
      /\ found \in [Invocations -> Nat]
      /\ refusal \in [Invocations -> Reasons \cup {"none"}]
      /\ Active(i) /\ ~MarkerRefused(args[i]) /\ args[i] \in Arguments
  BY DEF IInv, TypeOK, Active, Working, Admitted
<1>1. ReviewBody(args[i]) \in Review
      /\ ReviewBody(args[i]).head = args[i].head
      /\ ReviewBody(args[i]).run = args[i].run
  BY <1>0, BodyType
<1>2. /\ Len(reviews) \in Nat /\ reviews' \in Seq(Review)
      /\ Len(reviews') = Len(reviews) + 1
      /\ \A k \in 1 .. Len(reviews) : reviews'[k] = reviews[k]
      /\ reviews'[Len(reviews) + 1] = ReviewBody(args[i])
  BY <1>1, AppendFacts
<1>3. /\ pc'[i] \in {"readback", "refused"}
      /\ pc'[i] = "readback" => found'[i] = Len(reviews) + 1
      /\ refusal'[i] \in {refusal[i], "GITHUB_API_FAILURE"}
      /\ \A j \in Invocations \ {i} :
            pc'[j] = pc[j] /\ found'[j] = found[j] /\ refusal'[j] = refusal[j]
      /\ pc' \in [Invocations -> Places]
      /\ found' \in [Invocations -> Nat]
      /\ refusal' \in [Invocations -> Reasons \cup {"none"}]
  <2>1. CASE Goto(i, "readback") /\ found' = [found EXCEPT ![i] = Len(reviews')]
    <3>1. Len(reviews') = Len(reviews) + 1 /\ Len(reviews') \in Nat
      BY <1>2
    <3> QED
      BY <1>0, <2>1, <3>1 DEF Goto, Places, Working
  <2>2. CASE Refuse(i, "GITHUB_API_FAILURE") /\ UNCHANGED found
    BY <1>0, <2>2 DEF Refuse, Places, Working, Reasons
  <2> QED
    BY <2>1, <2>2
<1>4. \A j \in Invocations : Active(j)' => Active(j)
  BY <1>0, <1>3 DEF Active
<1>5. TypeOK'
  BY <1>2, <1>3 DEF IInv, TypeOK
<1>6. Quiet'
  BY <1>4 DEF IInv, Quiet
<1>7. StillClear'
  <2>1. \A j \in Invocations : pc'[j] = "post" => j # i /\ Active(j)
    BY <1>3 DEF Active, Working
  <2>2. \A j \in Invocations : ~disturbed' => pc'[j] # "post"
    BY <1>0, <2>1 DEF IInv, Quiet
  <2> QED
    BY <2>2 DEF StillClear
<1>8. HeldIsOwn'
  <2>1. \A j \in Invocations \ {i} : Held(j) => Held(j)'
    BY <1>2, <1>3 DEF Held, ReviewBody
  <2>2. pc'[i] = "readback" => Held(i)'
    BY <1>2, <1>3 DEF Held, ReviewBody
  <2>3. \A j \in Invocations : pc'[j] \in {"readback", "record", "done"} =>
           \/ j = i /\ pc'[i] = "readback"
           \/ j # i /\ Held(j)
    BY <1>3 DEF IInv, HeldIsOwn
  <2> QED
    BY <2>1, <2>2, <2>3 DEF HeldIsOwn
<1>9. Admitted' /\ IdleIsFresh'
  <2>1. Admitted'
    BY <1>4 DEF IInv, Admitted, MarkerRefused
  <2>2. IdleIsFresh'
    BY <1>3 DEF IInv, IdleIsFresh
  <2> QED
    BY <2>1, <2>2
<1>10. Origin'
  <2>1. \A r : Sent(r) => Sent(r)'
    BY <1>3 DEF Sent, ReviewBody
  <2>2. Sent(ReviewBody(args[i]))
    BY DEF Sent
  <2> QED
    BY <1>2, <2>1, <2>2 DEF IInv, Origin
<1>11. AtMostOneReview'
  <2>1. SUFFICES ASSUME ~disturbed,
                        NEW j \in 1 .. Len(reviews) + 1,
                        NEW k \in 1 .. Len(reviews) + 1,
                        reviews'[j].head = reviews'[k].head,
                        reviews'[j].run = reviews'[k].run
                 PROVE  j = k
    BY <1>2 DEF AtMostOneReview
  <2>2. \A l \in 1 .. Len(reviews) :
           ~(reviews[l].head = args[i].head /\ reviews[l].run = args[i].run)
    BY <2>1 DEF IInv, StillClear, Matches
  <2>3. CASE j \in 1 .. Len(reviews) /\ k \in 1 .. Len(reviews)
    BY <1>2, <2>1, <2>3 DEF IInv, AtMostOneReview
  <2>4. CASE j = Len(reviews) + 1 \/ k = Len(reviews) + 1
    BY <1>1, <1>2, <2>1, <2>2, <2>4
  <2> QED
    BY <1>2, <2>3, <2>4
<1>12. RefusalsHaveCause'
  <2>1. \A j \in Invocations :
           refusal'[j] \in {"CONFLICTING_REVIEW", "DUPLICATE_REVIEW"} =>
              refusal'[j] = refusal[j]
    BY <1>3
  <2>2. \A j \in Invocations : pc[j] # "idle" => pc'[j] # "idle"
    BY <1>3
  <2> QED
    BY <2>1, <2>2 DEF IInv, RefusalsHaveCause
<1> QED
  BY <1>5, <1>6, <1>7, <1>8, <1>9, <1>10, <1>11, <1>12 DEF IInv

\* The request is given up and stays on its way.
LEMMA DelayStep ==
    ASSUME IInv, NEW i \in Invocations, pc[i] = "post",
           delayed' = delayed \cup {ReviewBody(args[i])}, disturbed' = TRUE,
           Refuse(i, "GITHUB_API_FAILURE"),
           UNCHANGED <<pull, reviews, found, args>>
    PROVE  IInv'
<1>0. /\ pc \in [Invocations -> Places] /\ args \in [Invocations -> Arguments]
      /\ refusal \in [Invocations -> Reasons \cup {"none"}]
      /\ ~MarkerRefused(args[i]) /\ args[i] \in Arguments
  BY DEF IInv, TypeOK, Active, Working, Admitted
<1>1. ReviewBody(args[i]) \in Review
  BY <1>0, BodyType
<1>2. /\ pc'[i] = "refused" /\ refusal'[i] = "GITHUB_API_FAILURE"
      /\ \A j \in Invocations \ {i} :
            pc'[j] = pc[j] /\ refusal'[j] = refusal[j]
      /\ pc' \in [Invocations -> Places]
      /\ refusal' \in [Invocations -> Reasons \cup {"none"}]
  BY <1>0 DEF Refuse, Places, Working, Reasons
<1>3. TypeOK'
  BY <1>1, <1>2 DEF IInv, TypeOK
<1>4. Quiet' /\ StillClear' /\ AtMostOneReview'
  BY DEF Quiet, StillClear, AtMostOneReview
<1>5. HeldIsOwn'
  BY <1>2 DEF IInv, HeldIsOwn, Held, ReviewBody
<1>6. Admitted'
  BY <1>2 DEF IInv, Admitted, MarkerRefused, Active, Working
<1>7. IdleIsFresh'
  BY <1>2 DEF IInv, IdleIsFresh
<1>8. Origin'
  <2>1. \A r : Sent(r) => Sent(r)'
    BY <1>2 DEF Sent, ReviewBody
  <2>2. Sent(ReviewBody(args[i]))
    BY DEF Sent
  <2> QED
    BY <2>1, <2>2 DEF IInv, Origin
<1>9. RefusalsHaveCause'
  BY <1>2 DEF IInv, RefusalsHaveCause
<1> QED
  BY <1>3, <1>4, <1>5, <1>6, <1>7, <1>8, <1>9 DEF IInv

LEMMA PostStep ==
    ASSUME IInv, NEW i \in Invocations, Post(i)
    PROVE  IInv'
<1>1. pc[i] = "post" /\ UNCHANGED <<pull, args>>
  BY DEF Post
<1>2. CASE /\ reviews' = Append(reviews, ReviewBody(args[i]))
           /\ \/ /\ found' = [found EXCEPT ![i] = Len(reviews')]
                 /\ Goto(i, "readback")
              \/ Refuse(i, "GITHUB_API_FAILURE") /\ UNCHANGED found
           /\ UNCHANGED <<delayed, disturbed>>
  BY <1>1, <1>2, CreateStep
<1>3. CASE /\ Refuse(i, "GITHUB_API_FAILURE")
           /\ UNCHANGED <<reviews, delayed, found, disturbed>>
  <2>1. "GITHUB_API_FAILURE" \in Reasons /\ Active(i)
    BY <1>1 DEF Reasons, Active, Working
  <2> QED
    BY <1>1, <1>3, <2>1, RefuseStep
<1>4. CASE /\ delayed' = delayed \cup {ReviewBody(args[i])}
           /\ disturbed' = TRUE
           /\ Refuse(i, "GITHUB_API_FAILURE")
           /\ UNCHANGED <<reviews, found>>
  BY <1>1, <1>4, DelayStep
<1> QED
  BY <1>2, <1>3, <1>4 DEF Post

\* A late review arrives; something was on its way, so all is disturbed.
LEMMA ArriveStep ==
    ASSUME IInv, NEW r \in delayed, Arrive(r)
    PROVE  IInv'
<1>1. /\ UNCHANGED <<pull, pc, args, found, refusal, disturbed>>
      /\ delayed' = delayed \ {r} /\ r \in Review /\ disturbed
      /\ reviews' = Append(reviews, r)
  BY DEF Arrive, IInv, TypeOK, Quiet
<1>2. /\ Len(reviews) \in Nat /\ reviews' \in Seq(Review)
      /\ Len(reviews') = Len(reviews) + 1
      /\ \A k \in 1 .. Len(reviews) : reviews'[k] = reviews[k]
      /\ reviews'[Len(reviews) + 1] = r
  BY <1>1, AppendFacts
<1>3. TypeOK'
  BY <1>1, <1>2 DEF IInv, TypeOK
<1>4. Quiet' /\ StillClear' /\ AtMostOneReview'
  BY <1>1 DEF Quiet, StillClear, AtMostOneReview
<1>5. HeldIsOwn'
  <2>1. \A j \in Invocations : Held(j) => Held(j)'
    BY <1>1, <1>2 DEF Held, ReviewBody
  <2> QED
    BY <1>1, <2>1 DEF IInv, HeldIsOwn
<1>6. Admitted' /\ IdleIsFresh' /\ RefusalsHaveCause'
  BY <1>1
     DEF IInv, Admitted, MarkerRefused, Active, IdleIsFresh, RefusalsHaveCause
<1>7. Origin'
  <2>1. \A q : Sent(q) => Sent(q)'
    BY <1>1 DEF Sent, ReviewBody
  <2> QED
    BY <1>1, <1>2, <2>1 DEF IInv, Origin
<1> QED
  BY <1>3, <1>4, <1>5, <1>6, <1>7 DEF IInv

\* Pushes, closing and stuttering change nothing the invariant speaks of.
LEMMA IdleStep ==
    ASSUME IInv, pull' \in PullDocument,
           UNCHANGED <<reviews, delayed, pc, args, found, refusal, disturbed>>
    PROVE  IInv'
<1>1. TypeOK'
  BY DEF IInv, TypeOK
<1>2. Quiet' /\ StillClear' /\ AtMostOneReview'
  BY DEF IInv, Quiet, StillClear, AtMostOneReview, Active, Matches
<1>3. HeldIsOwn' /\ Origin'
  BY DEF IInv, HeldIsOwn, Held, Origin, Sent, ReviewBody
<1>4. Admitted' /\ IdleIsFresh' /\ RefusalsHaveCause'
  BY DEF IInv, Admitted, MarkerRefused, Active, IdleIsFresh, RefusalsHaveCause
<1> QED
  BY <1>1, <1>2, <1>3, <1>4 DEF IInv

LEMMA InvInit == Init => IInv
<1> SUFFICES ASSUME Init PROVE IInv
  OBVIOUS
<1>1. /\ reviews = <<>> /\ delayed = {} /\ disturbed = FALSE
      /\ \A i \in Invocations : pc[i] = "idle" /\ refusal[i] = "none"
      /\ (CHOOSE a \in Calls : TRUE) \in Arguments
  BY CallAssumption DEF Init
<1>2. Len(reviews) = 0 /\ reviews \in Seq(Review)
  BY <1>1
<1>3. TypeOK
  BY <1>1, <1>2 DEF Init, TypeOK, PullDocument, Places
<1>4. /\ Quiet /\ StillClear /\ HeldIsOwn /\ IdleIsFresh /\ Admitted
      /\ RefusalsHaveCause
  BY <1>1 DEF Quiet, StillClear, HeldIsOwn, IdleIsFresh, Admitted,
              RefusalsHaveCause, Active, Working
<1>5. Origin /\ AtMostOneReview
  BY <1>1, <1>2 DEF Origin, AtMostOneReview
<1> QED
  BY <1>3, <1>4, <1>5 DEF IInv

LEMMA InvStep == IInv /\ [Next]_vars => IInv'
<1> SUFFICES ASSUME IInv, [Next]_vars PROVE IInv'
  OBVIOUS
<1>0. pull \in PullDocument
  BY DEF IInv, TypeOK
<1>1. ASSUME NEW i \in Invocations, NEW a \in Calls, Begin(i, a) PROVE IInv'
  BY <1>1, BeginStep
<1>2. ASSUME NEW i \in Invocations,
             Fail(i) \/ ReadPull(i) \/ ReadBack(i) \/ WriteRecord(i) \/ Kill(i)
      PROVE  IInv'
  BY <1>2, QuietSteps
<1>3. ASSUME NEW i \in Invocations, ListReviews(i) PROVE IInv'
  BY <1>3, ListStep
<1>4. ASSUME NEW i \in Invocations, Post(i) PROVE IInv'
  BY <1>4, PostStep
<1>5. ASSUME NEW h \in Heads, Push(h) PROVE IInv'
  <2>1. /\ pull' \in PullDocument
        /\ UNCHANGED <<reviews, delayed, pc, args, found, refusal, disturbed>>
    BY <1>0, <1>5 DEF Push, PullDocument
  <2> QED
    BY <2>1, IdleStep
<1>6. CASE CloseOrReopen
  <2>1. /\ pull' \in PullDocument
        /\ UNCHANGED <<reviews, delayed, pc, args, found, refusal, disturbed>>
    BY <1>0, <1>6 DEF CloseOrReopen, PullDocument
  <2> QED
    BY <2>1, IdleStep
<1>7. ASSUME NEW r \in delayed, Arrive(r) PROVE IInv'
  BY <1>7, ArriveStep
<1>8. CASE UNCHANGED vars
  <2>1. /\ pull' \in PullDocument
        /\ UNCHANGED <<reviews, delayed, pc, args, found, refusal, disturbed>>
    BY <1>0, <1>8 DEF vars, github
  <2> QED
    BY <2>1, IdleStep
<1> QED
  BY <1>1, <1>2, <1>3, <1>4, <1>5, <1>6, <1>7, <1>8
     DEF Next, Step, Environment

-----------------------------------------------------------------------------
(* Theorems *)

\* The invariant the theorems below rest on.
THEOREM Inductive == SafetySpec => []IInv
<1>1. Init => IInv
  BY InvInit
<1>2. IInv /\ [Next]_vars => IInv'
  BY InvStep
<1> QED
  BY <1>1, <1>2, PTL DEF SafetySpec

\* What the bridge puts on GitHub has one of the three verdicts.
THEOREM TypeCorrect == SafetySpec => []TypeOK
<1>1. IInv => TypeOK
  BY DEF IInv
<1> QED
  BY <1>1, Inductive, PTL

\* Stopped, repeated and unanswered invocations never post a second review of
\* one run and head, unless they overlap or a request outlives its sender.
THEOREM AtMostOneReviewAlways == SafetySpec => []AtMostOneReview
<1>1. IInv => AtMostOneReview
  BY DEF IInv
<1> QED
  BY <1>1, Inductive, PTL

\* Exit 0 means the review is on GitHub under the recorded id.
THEOREM SuccessIsOnGitHubAlways == SafetySpec => []SuccessIsOnGitHub
<1>1. IInv => SuccessIsOnGitHub
  <2> SUFFICES ASSUME IInv, NEW i \in Invocations, pc[i] = "done"
               PROVE  /\ Held(i)
                      /\ ~disturbed => Matches(args[i]) = {found[i]}
    BY DEF SuccessIsOnGitHub, Held
  <2>1. Held(i)
    BY DEF IInv, HeldIsOwn
  <2>2. reviews[found[i]].head = args[i].head /\ reviews[found[i]].run = args[i].run
    BY <2>1 DEF Held, ReviewBody
  <2>3. ~disturbed => Matches(args[i]) = {found[i]}
    BY <2>1, <2>2 DEF IInv, AtMostOneReview, Matches, Held
  <2> QED
    BY <2>1, <2>3
<1> QED
  BY <1>1, Inductive, PTL

\* A repeated invocation never meets its own review as a conflict.
THEOREM RefusalsHaveCauseAlways == SafetySpec => []RefusalsHaveCause
<1>1. IInv => RefusalsHaveCause
  BY DEF IInv
<1> QED
  BY <1>1, Inductive, PTL

-----------------------------------------------------------------------------
(* Two requests that act as one step *)

\* A request that is still on its way was given up by its sender.
SenderGaveUp ==
    \A r \in delayed :
        \E j \in Invocations : pc[j] = "refused" /\ r = ReviewBody(args[j])

LEMMA GivenUp == SafetySpec => []SenderGaveUp
<1>1. Init => SenderGaveUp
  BY DEF Init, SenderGaveUp
<1>2. IInv /\ SenderGaveUp /\ [Next]_vars => SenderGaveUp'
  <2> SUFFICES ASSUME IInv, SenderGaveUp, [Next]_vars, NEW r \in delayed'
               PROVE  \E j \in Invocations :
                         pc'[j] = "refused" /\ r = ReviewBody(args[j])'
    BY DEF SenderGaveUp
  <2>0. pc \in [Invocations -> Places] /\ args \in [Invocations -> Arguments]
    BY DEF IInv, TypeOK
  <2>1. ASSUME NEW j \in Invocations, pc[j] = "refused"
        PROVE  pc'[j] = "refused" /\ args'[j] = args[j]
    <3>1. ASSUME NEW i \in Invocations, NEW a \in Calls, Begin(i, a)
          PROVE  pc'[j] = "refused" /\ args'[j] = args[j]
      BY <2>0, <2>1, <3>1 DEF Begin, Refuse, Goto
    <3>2. ASSUME NEW i \in Invocations, Step(i) \/ Kill(i)
          PROVE  pc'[j] = "refused" /\ args'[j] = args[j]
      <4>1. i # j /\ UNCHANGED args
        BY <2>1, <3>2 DEF Step, Fail, ReadPull, ListReviews, Post, ReadBack,
                          WriteRecord, Kill, Active, Working
      <4>2. \E x : pc' = [pc EXCEPT ![i] = x]
        BY <3>2 DEF Step, Fail, ReadPull, ListReviews, Post, ReadBack,
                    WriteRecord, Kill, Refuse, Goto
      <4> QED
        BY <2>0, <2>1, <4>1, <4>2
    <3>3. CASE UNCHANGED <<pc, args>>
      BY <2>1, <3>3
    <3> QED
      BY <3>1, <3>2, <3>3
         DEF Next, Environment, Push, CloseOrReopen, Arrive, vars
  <2>2. ASSUME NEW j \in Invocations, pc[j] = "refused",
               r = ReviewBody(args[j])
        PROVE  pc'[j] = "refused" /\ r = ReviewBody(args[j])'
    BY <2>1, <2>2 DEF ReviewBody
  <2>3. CASE r \in delayed
    BY <2>2, <2>3 DEF SenderGaveUp
  <2>4. CASE r \notin delayed
    <3>1. PICK i \in Invocations : Post(i) /\ delayed' # delayed
      BY <2>4 DEF Next, Step, Fail, ReadPull, ListReviews, Post, ReadBack,
                  WriteRecord, Environment, Begin, Kill, Push, CloseOrReopen,
                  Arrive, vars, github
    <3>2. /\ delayed' = delayed \cup {ReviewBody(args[i])}
          /\ pc' = [pc EXCEPT ![i] = "refused"] /\ args' = args
      BY <3>1 DEF Post, Refuse
    <3>3. r = ReviewBody(args[i]) /\ pc'[i] = "refused"
      BY <2>0, <2>4, <3>2
    <3> QED
      BY <3>2, <3>3 DEF ReviewBody
  <2> QED
    BY <2>3, <2>4
<1> QED
  BY <1>1, <1>2, Inductive, PTL DEF SafetySpec

\* The list of a promise, seen from the code.
LEMMA LikeIsMatches ==
    ASSUME NEW a \in Arguments
    PROVE  Promise!Like(reviews, ReviewBody(a)) = Matches(a)
BY DEF Promise!Like, Matches, ReviewBody

Targets == IF pull.open /\ pull.producer \notin Distrusted
           THEN {pull.head} ELSE {}

Wanted == [i \in Invocations |-> ReviewBody(args[i])]

Stage == [i \in Invocations |-> Reached[pc[i]]]

LEMMA ReachedFacts ==
    /\ Reached["idle"] = "idle" /\ Reached["pull"] = "accepted"
    /\ Reached["list"] = "cleared" /\ Reached["post"] = "cleared"
    /\ Reached["readback"] = "published" /\ Reached["record"] = "published"
    /\ Reached["done"] = "success" /\ Reached["refused"] = "refused"
BY DEF Reached

\* One invocation moves from one place to another.
LEMMA StageMoves ==
    ASSUME TypeOK, NEW i \in Invocations, NEW x \in Places,
           pc' = [pc EXCEPT ![i] = x]
    PROVE  Stage' = [Stage EXCEPT ![i] = Reached[x]]
BY DEF TypeOK, Stage, Reached

LEMMA StageBecomes ==
    ASSUME TypeOK, NEW i \in Invocations
    PROVE  /\ pc' = [pc EXCEPT ![i] = "refused"] =>
                 Stage' = [Stage EXCEPT ![i] = "refused"]
           /\ pc' = [pc EXCEPT ![i] = "pull"] =>
                 Stage' = [Stage EXCEPT ![i] = "accepted"]
           /\ pc' = [pc EXCEPT ![i] = "readback"] =>
                 Stage' = [Stage EXCEPT ![i] = "published"]
<1>1. ASSUME NEW x \in Places, NEW y, Reached[x] = y,
             pc' = [pc EXCEPT ![i] = x]
      PROVE  Stage' = [Stage EXCEPT ![i] = y]
  BY <1>1, StageMoves
<1>2. {"refused", "pull", "readback"} \subseteq Places
  BY DEF Places, Working
<1> QED
  BY <1>1, <1>2, ReachedFacts

LEMMA WantedKept == UNCHANGED args => UNCHANGED Wanted
BY DEF Wanted, ReviewBody

LEMMA StageFacts ==
    ASSUME TypeOK, NEW i \in Invocations
    PROVE  /\ Stage[i] = Reached[pc[i]] /\ Wanted[i] = ReviewBody(args[i])
           /\ Stage[i] \in Promise!AtWork <=> Active(i)
           /\ args[i] \in Arguments
BY DEF TypeOK, Stage, Wanted, Reached, Promise!AtWork, Active, Working, Places

\* A step of one invocation that leaves GitHub and the arguments alone.
LEMMA MovePromised ==
    ASSUME IInv, NEW i \in Invocations, Active(i), NEW x \in Places,
           pc' = [pc EXCEPT ![i] = x],
           UNCHANGED <<pull, reviews, args, disturbed>>,
           \/ Reached[x] \in {Reached[pc[i]], "refused"}
           \/ Reached[x] = "success" /\ Reached[pc[i]] = "published"
           \/ /\ Reached[x] = "cleared" /\ Reached[pc[i]] = "accepted"
              /\ args[i].head \in Targets
           \/ /\ Reached[x] = "published" /\ Reached[pc[i]] = "cleared"
              /\ \E k \in 1 .. Len(reviews) :
                    /\ Matches(args[i]) = {k}
                    /\ reviews[k] = ReviewBody(args[i])
    PROVE  [Promise!Next]_(Promise!vars)
<1>0. TypeOK
  BY DEF IInv
<1>1. /\ Stage[i] = Reached[pc[i]] /\ Wanted[i] = ReviewBody(args[i])
      /\ Stage[i] \in Promise!AtWork /\ args[i] \in Arguments
      /\ Stage' = [Stage EXCEPT ![i] = Reached[x]]
      /\ UNCHANGED <<Targets, reviews, Wanted, disturbed>>
  BY <1>0, StageMoves, StageFacts, WantedKept DEF Targets
<1>2. CASE Reached[x] = Reached[pc[i]]
  <2>1. Stage' = Stage
    BY <1>1, <1>2 DEF Stage
  <2> QED
    BY <1>1, <2>1 DEF Promise!vars, Stage, Wanted, Targets
<1>3. CASE Reached[x] = "refused"
  <2>1. Promise!Refuse(i)
    BY <1>1, <1>3 DEF Promise!Refuse, Promise!Become, Stage, Wanted, Targets
  <2> QED
    BY <2>1 DEF Promise!Next
<1>4. CASE Reached[x] = "success" /\ Reached[pc[i]] = "published"
  <2>1. Promise!Succeed(i)
    BY <1>1, <1>4 DEF Promise!Succeed, Promise!Become, Stage, Wanted, Targets
  <2> QED
    BY <2>1 DEF Promise!Next
<1>5. CASE /\ Reached[x] = "cleared" /\ Reached[pc[i]] = "accepted"
           /\ args[i].head \in Targets
  <2>1. Wanted[i].head \in Targets
    BY <1>1, <1>5 DEF ReviewBody
  <2>2. Promise!Clear(i)
    BY <1>1, <1>5, <2>1
       DEF Promise!Clear, Promise!Become, Stage, Wanted, Targets
  <2> QED
    BY <2>2 DEF Promise!Next
<1>6. ASSUME Reached[x] = "published", Reached[pc[i]] = "cleared",
             NEW k \in 1 .. Len(reviews), Matches(args[i]) = {k},
             reviews[k] = ReviewBody(args[i])
      PROVE  [Promise!Next]_(Promise!vars)
  <2>1. Promise!Like(reviews, Wanted[i]) = {k}
    BY <1>1, <1>6, LikeIsMatches
  <2>2. reviews' \in Promise!After(reviews, Wanted[i])
    BY <1>1, <1>6, <2>1 DEF Promise!After
  <2>3. Promise!Publish(i)
    BY <1>1, <1>6, <2>2
       DEF Promise!Publish, Promise!Become, Stage, Wanted, Targets
  <2> QED
    BY <2>3 DEF Promise!Next
<1> QED
  BY <1>2, <1>3, <1>4, <1>5, <1>6

LEMMA BeginPromised ==
    ASSUME IInv, NEW i \in Invocations, NEW a \in Calls, Begin(i, a)
    PROVE  Promise!Next
<1>0. /\ TypeOK /\ args \in [Invocations -> Arguments] /\ a \in Arguments
      /\ Stage[i] = "idle"
  BY CallAssumption DEF IInv, TypeOK, Begin, Stage, Reached
<1>1. /\ args' = [args EXCEPT ![i] = a]
      /\ disturbed' = (disturbed \/ \E j \in Invocations : Active(j))
      /\ UNCHANGED <<Targets, reviews>>
  BY DEF Begin, github, Targets
<1>2. Wanted' = [Wanted EXCEPT ![i] = ReviewBody(a)]
  BY <1>0, <1>1 DEF Wanted, ReviewBody
<1>3. \/ Stage' = [Stage EXCEPT ![i] = "accepted"]
      \/ Stage' = [Stage EXCEPT ![i] = "refused"]
  <2>1. \E x \in {"pull", "refused"} : pc' = [pc EXCEPT ![i] = x]
    BY DEF Begin, Refuse, Goto
  <2> QED
    BY <1>0, <2>1, StageBecomes
<1>4. disturbed' = (disturbed \/ \E j \in Invocations :
                                    Stage[j] \in Promise!AtWork)
  BY <1>0, <1>1, StageFacts
<1>5. Promise!Accept(i, ReviewBody(a))
  BY <1>0, <1>1, <1>2, <1>3, <1>4
     DEF Promise!Accept, Promise!Become, Stage, Wanted, Targets
<1> QED
  BY <1>0, <1>5 DEF Promise!Next

LEMMA PostPromised ==
    ASSUME IInv, NEW i \in Invocations, Post(i)
    PROVE  Promise!Next
<1>0. /\ TypeOK /\ pc[i] = "post" /\ UNCHANGED <<Targets, Wanted>>
      /\ Stage[i] = "cleared" /\ Wanted[i] = ReviewBody(args[i])
      /\ Stage[i] \in Promise!AtWork /\ args[i] \in Arguments
  BY StageFacts, WantedKept
     DEF IInv, Post, Targets, Reached, Active, Working
<1>1. \/ Stage' = [Stage EXCEPT ![i] = "refused"]
      \/ /\ Stage' = [Stage EXCEPT ![i] = "published"]
         /\ reviews' = Append(reviews, ReviewBody(args[i]))
  <2>1. \/ pc' = [pc EXCEPT ![i] = "refused"]
        \/ /\ pc' = [pc EXCEPT ![i] = "readback"]
           /\ reviews' = Append(reviews, ReviewBody(args[i]))
    BY DEF Post, Refuse, Goto
  <2> QED
    BY <1>0, <2>1, StageBecomes
<1>2. CASE reviews' = Append(reviews, ReviewBody(args[i]))
           /\ disturbed' = disturbed
  <2>1. ~disturbed => Promise!Like(reviews, Wanted[i]) = {}
    BY <1>0, LikeIsMatches DEF IInv, StillClear
  <2>2. \/ reviews' \in Promise!After(reviews, Wanted[i])
        \/ disturbed /\ reviews' = Append(reviews, Wanted[i])
    BY <1>0, <1>2, <2>1 DEF Promise!After, TypeOK
  <2>3. Promise!Publish(i)
    BY <1>0, <1>1, <1>2, <2>2
       DEF Promise!Publish, Promise!Become, Stage, Wanted, Targets
  <2> QED
    BY <2>3 DEF Promise!Next
<1>3. CASE Refuse(i, "GITHUB_API_FAILURE") /\ UNCHANGED <<reviews, disturbed>>
  <2>1. Stage' = [Stage EXCEPT ![i] = "refused"]
    BY <1>0, <1>3, StageBecomes DEF Refuse
  <2>2. Promise!Refuse(i)
    BY <1>0, <1>3, <2>1
       DEF Promise!Refuse, Promise!Become, Stage, Wanted, Targets
  <2> QED
    BY <2>2 DEF Promise!Next
<1>4. CASE /\ Refuse(i, "GITHUB_API_FAILURE")
           /\ disturbed' = TRUE /\ UNCHANGED reviews
  <2>1. Stage' = [Stage EXCEPT ![i] = "refused"]
    BY <1>0, <1>4, StageBecomes DEF Refuse
  <2>2. Promise!Outlive(i)
    BY <1>0, <1>4, <2>1
       DEF Promise!Outlive, Promise!Become, Stage, Wanted, Targets
  <2> QED
    BY <2>2 DEF Promise!Next
<1> QED
  BY <1>2, <1>3, <1>4 DEF Post

LEMMA ArrivePromised ==
    ASSUME IInv, SenderGaveUp, NEW r \in delayed, Arrive(r)
    PROVE  Promise!Next
<1>1. PICK j \in Invocations : pc[j] = "refused" /\ r = ReviewBody(args[j])
  BY DEF SenderGaveUp
<1>2. disturbed
  BY DEF IInv, TypeOK, Quiet
<1>3. /\ Stage[j] = "refused" /\ r = Wanted[j]
      /\ reviews' = Append(reviews, Wanted[j])
      /\ UNCHANGED <<Targets, Wanted, Stage, disturbed>>
  BY <1>1, WantedKept DEF Arrive, Stage, Wanted, Targets, Reached
<1>4. Promise!Arrive(j)
  BY <1>2, <1>3 DEF Promise!Arrive, Stage, Wanted, Targets
<1> QED
  BY <1>4 DEF Promise!Next

LEMMA PullPromised ==
    ASSUME IInv, pull' \in PullDocument,
           UNCHANGED <<reviews, pc, args, disturbed>>
    PROVE  Promise!Next
<1>1. Targets' \in SUBSET Heads /\ UNCHANGED <<reviews, Wanted, Stage, disturbed>>
  BY WantedKept DEF Targets, Stage, PullDocument
<1>2. Promise!Move
  BY <1>1 DEF Promise!Move, Stage, Wanted, Targets
<1> QED
  BY <1>2 DEF Promise!Next

LEMMA StepPromised ==
    ASSUME IInv, NEW i \in Invocations, Step(i) \/ Kill(i)
    PROVE  [Promise!Next]_(Promise!vars)
<1>1. CASE Post(i)
  BY <1>1, PostPromised
<1>2. CASE ListReviews(i)
  <2>0. /\ pc[i] = "list" /\ Active(i) /\ UNCHANGED <<pull, reviews, args, disturbed>>
        /\ {"post", "record", "refused"} \subseteq Places
    BY <1>2 DEF ListReviews, Active, Working, Places, github
  <2>1. \/ \E x \in {"post", "refused"} : pc' = [pc EXCEPT ![i] = x]
        \/ /\ pc' = [pc EXCEPT ![i] = "record"]
           /\ \E k \in Matches(args[i]) :
                 /\ Matches(args[i]) = {k}
                 /\ reviews[k] = ReviewBody(args[i])
    BY <1>2 DEF ListReviews, Goto, Refuse, Reconcilable
  <2>2. Matches(args[i]) \subseteq 1 .. Len(reviews)
    BY DEF Matches
  <2> QED
    BY <2>0, <2>1, <2>2, MovePromised, ReachedFacts
<1>3. CASE ReadPull(i)
  <2>0. /\ pc[i] = "pull" /\ Active(i) /\ UNCHANGED <<pull, reviews, args, disturbed>>
        /\ {"list", "refused"} \subseteq Places
    BY <1>3 DEF ReadPull, Active, Working, Places, github
  <2>1. \/ pc' = [pc EXCEPT ![i] = "refused"]
        \/ /\ pc' = [pc EXCEPT ![i] = "list"]
           /\ args[i].head \in Targets
    <3>1. CASE ~pull.open \/ pull.head # args[i].head
      BY <1>3, <3>1 DEF ReadPull, Refuse
    <3>2. CASE /\ pull.open /\ pull.head = args[i].head
               /\ pull.producer \in Distrusted
      BY <1>3, <3>2 DEF ReadPull, Refuse
    <3>3. CASE /\ pull.open /\ pull.head = args[i].head
               /\ pull.producer \notin Distrusted
      BY <1>3, <3>3 DEF ReadPull, Goto, Targets
    <3> QED
      BY <3>1, <3>2, <3>3
  <2> QED
    BY <2>0, <2>1, MovePromised, ReachedFacts
<1>4. CASE ReadBack(i) \/ WriteRecord(i)
  <2>0. /\ pc[i] \in {"readback", "record"} /\ Active(i)
        /\ UNCHANGED <<pull, reviews, args, disturbed>>
        /\ {"record", "done", "refused"} \subseteq Places
    BY <1>4 DEF ReadBack, WriteRecord, Active, Working, Places, github
  <2>1. \E x \in {"record", "done", "refused"} : pc' = [pc EXCEPT ![i] = x]
    BY <1>4 DEF ReadBack, WriteRecord, Goto, Refuse
  <2> QED
    BY <2>0, <2>1, MovePromised, ReachedFacts
<1>5. CASE Fail(i) \/ Kill(i)
  <2>0. /\ Active(i) /\ UNCHANGED <<pull, reviews, args, disturbed>>
        /\ "refused" \in Places /\ pc' = [pc EXCEPT ![i] = "refused"]
    BY <1>5 DEF Fail, Kill, Refuse, Active, Working, Places, github
  <2> QED
    BY <2>0, MovePromised, ReachedFacts
<1> QED
  BY <1>1, <1>2, <1>3, <1>4, <1>5 DEF Step

LEMMA InitPromised == Init => Promise!Init
<1> SUFFICES ASSUME Init PROVE Promise!Init
  OBVIOUS
<1>1. (CHOOSE a \in Calls : TRUE) \in Arguments
  BY CallAssumption
<1>2. Stage = [i \in Invocations |-> "idle"]
  BY ReachedFacts DEF Init, Stage
<1>3. Targets \in SUBSET Heads
  BY DEF Init, Targets
<1>4. Wanted \in [Invocations -> {ReviewBody(a) : a \in Arguments}]
  BY <1>1 DEF Init, Wanted
<1> QED
  BY <1>2, <1>3, <1>4 DEF Init, Promise!Init, Stage, Targets, Wanted

\* However its two requests are interleaved with pushes, with the loss of
\* answers and with other invocations, the bridge does what a publication in
\* one step does; only an overlap or a late request, once it has happened,
\* allows a review beside another.
THEOREM Refinement == SafetySpec => PublishesAtomically
<1>1. Init => Promise!Init
  BY InitPromised
<1>2. IInv /\ SenderGaveUp /\ [Next]_vars => [Promise!Next]_(Promise!vars)
  <2> SUFFICES ASSUME IInv, SenderGaveUp, [Next]_vars
               PROVE  [Promise!Next]_(Promise!vars)
    OBVIOUS
  <2>0. pull \in PullDocument
    BY DEF IInv, TypeOK
  <2>1. ASSUME NEW i \in Invocations, NEW a \in Calls, Begin(i, a)
        PROVE  Promise!Next
    BY <2>1, BeginPromised
  <2>2. ASSUME NEW i \in Invocations, Step(i) \/ Kill(i)
        PROVE  [Promise!Next]_(Promise!vars)
    BY <2>2, StepPromised
  <2>3. ASSUME NEW h \in Heads, Push(h)
        PROVE  Promise!Next
    <3>1. /\ pull' \in PullDocument
          /\ UNCHANGED <<reviews, pc, args, disturbed>>
      BY <2>0, <2>3 DEF Push, PullDocument
    <3> QED
      BY <3>1, PullPromised
  <2>4. CASE CloseOrReopen
    <3>1. /\ pull' \in PullDocument
          /\ UNCHANGED <<reviews, pc, args, disturbed>>
      BY <2>0, <2>4 DEF CloseOrReopen, PullDocument
    <3> QED
      BY <3>1, PullPromised
  <2>5. ASSUME NEW r \in delayed, Arrive(r)
        PROVE  Promise!Next
    BY <2>5, ArrivePromised
  <2>6. CASE UNCHANGED vars
    BY <2>6, WantedKept DEF vars, github, Promise!vars, Wanted
  <2> QED
    BY <2>1, <2>2, <2>3, <2>4, <2>5, <2>6 DEF Next, Environment
<1> QED
  BY <1>1, <1>2, Inductive, GivenUp, PTL
     DEF SafetySpec, PublishesAtomically, Promise!Spec
=============================================================================
