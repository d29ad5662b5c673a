---------------------------- MODULE PagingProofs ----------------------------
(***************************************************************************)
(* Facts about the operators of Paging: what a page of a listing holds,    *)
(* and what a reader has that takes one page after the other.              *)
(***************************************************************************)
EXTENDS Paging, SequenceTheorems, FiniteSetTheorems, TLAPS

-----------------------------------------------------------------------------
(* Pages *)

\* The smaller of two numbers.
LEMMA SmallerFacts ==
    ASSUME NEW m \in Nat, NEW n \in Nat
    PROVE  Smaller(m, n) \in Nat /\ Smaller(m, n) <= m /\ Smaller(m, n) <= n
BY DEF Smaller

\* The first n items of a list: what a reader that stops early has received.
LEMMA FirstOfFacts ==
    ASSUME NEW S, NEW list \in Seq(S), NEW n \in Nat
    PROVE  /\ FirstOf(list, n) \in Seq(S)
           /\ Len(FirstOf(list, n)) = Smaller(n, Len(list))
           /\ \A i \in 1 .. Len(FirstOf(list, n)) : FirstOf(list, n)[i] = list[i]
<1> DEFINE m == Smaller(n, Len(list))
<1>1. Len(list) \in Nat
  BY LenProperties
<1>2. m \in Nat /\ m <= Len(list)
  BY <1>1 DEF Smaller
<1>3. \A i \in 1 .. m : list[i] \in S
  BY <1>1, <1>2, ElementOfSeq
<1> HIDE DEF m
<1>4. /\ SubSeq(list, 1, m) \in Seq(S)
      /\ Len(SubSeq(list, 1, m)) = IF 1 <= m THEN m - 1 + 1 ELSE 0
      /\ \A i \in 1 .. m - 1 + 1 : SubSeq(list, 1, m)[i] = list[1 + i - 1]
  BY <1>2, <1>3, SubSeqProperties
<1>5. Len(SubSeq(list, 1, m)) = m
  BY <1>2, <1>4
<1>6. \A i \in 1 .. m : SubSeq(list, 1, m)[i] = list[i]
  BY <1>2, <1>4
<1> QED
  BY <1>4, <1>5, <1>6 DEF FirstOf, m

\* A page of a list holds at most PageSize of its items, in order, beginning
\* behind the pages before it.
LEMMA PageOfFacts ==
    ASSUME NEW S, NEW list \in Seq(S), NEW p \in Nat \ {0}
    PROVE  /\ PageOf(list, p) \in Seq(S)
           /\ Len(PageOf(list, p)) <= PageSize
           /\ \A k \in Nat : k = (p - 1) * PageSize /\ k <= Len(list) =>
                 /\ Len(PageOf(list, p)) = Smaller(PageSize, Len(list) - k)
                 /\ \A i \in 1 .. Len(PageOf(list, p)) :
                       PageOf(list, p)[i] = list[k + i]
<1> DEFINE k == (p - 1) * PageSize
           n == Smaller(p * PageSize, Len(list))
<1>1. Len(list) \in Nat /\ PageSize \in Nat \ {0}
  BY LenProperties, PageAssumption
<1>2. k \in Nat /\ p * PageSize = k + PageSize /\ p * PageSize \in Nat
  BY <1>1
<1>3. n \in Nat /\ n <= Len(list) /\ n <= k + PageSize
  BY <1>1, <1>2 DEF Smaller
<1>4. n = Smaller(k + PageSize, Len(list))
  BY <1>2
<1>5. PageOf(list, p) = SubSeq(list, k + 1, n)
  BY DEF PageOf
<1> HIDE DEF k, n
<1>6. \A i \in k + 1 .. n : list[i] \in S
  BY <1>1, <1>2, <1>3, ElementOfSeq
<1>7. /\ SubSeq(list, k + 1, n) \in Seq(S)
      /\ Len(SubSeq(list, k + 1, n)) =
            IF k + 1 <= n THEN n - (k + 1) + 1 ELSE 0
      /\ \A i \in 1 .. n - (k + 1) + 1 :
            SubSeq(list, k + 1, n)[i] = list[k + 1 + i - 1]
  BY <1>2, <1>3, <1>6, SubSeqProperties
<1>8. Len(SubSeq(list, k + 1, n)) <= PageSize
  BY <1>1, <1>2, <1>3, <1>7
<1>9. ASSUME k <= Len(list)
      PROVE  /\ Len(SubSeq(list, k + 1, n)) = Smaller(PageSize, Len(list) - k)
             /\ \A i \in 1 .. Len(SubSeq(list, k + 1, n)) :
                   SubSeq(list, k + 1, n)[i] = list[k + i]
  <2>1. Len(SubSeq(list, k + 1, n)) = n - k
    BY <1>1, <1>2, <1>3, <1>4, <1>7, <1>9 DEF Smaller
  <2>2. n - k = Smaller(PageSize, Len(list) - k)
    BY <1>1, <1>2, <1>4, <1>9 DEF Smaller
  <2> QED
    BY <1>2, <1>3, <1>7, <2>1, <2>2
<1> QED
  BY <1>5, <1>7, <1>8, <1>9 DEF k

\* Whatever page is asked for, its items are items of the list.
LEMMA PageIsPart ==
    ASSUME NEW S, NEW list \in Seq(S), NEW p \in Nat \ {0},
           NEW i \in 1 .. Len(PageOf(list, p))
    PROVE  \E j \in 1 .. Len(list) : PageOf(list, p)[i] = list[j]
<1>. DEFINE k == (p - 1) * PageSize
            n == Smaller(p * PageSize, Len(list))
<1>1. Len(list) \in Nat /\ PageSize \in Nat \ {0}
  BY LenProperties, PageAssumption
<1>2. k \in Nat /\ p * PageSize \in Nat
  BY <1>1
<1>3. n \in Nat /\ n <= Len(list)
  BY <1>1, <1>2 DEF Smaller
<1>4. PageOf(list, p) = SubSeq(list, k + 1, n)
  BY DEF PageOf
<1>. HIDE DEF k, n
<1>5. \A j \in k + 1 .. n : list[j] \in S
  BY <1>1, <1>2, <1>3, ElementOfSeq
<1>6. /\ Len(PageOf(list, p)) = IF k + 1 <= n THEN n - (k + 1) + 1 ELSE 0
      /\ \A j \in 1 .. n - (k + 1) + 1 :
            PageOf(list, p)[j] = list[k + 1 + j - 1]
  BY <1>2, <1>3, <1>4, <1>5, SubSeqProperties
<1>7. /\ i \in 1 .. n - (k + 1) + 1 /\ k + 1 + i - 1 \in 1 .. Len(list)
  BY <1>1, <1>2, <1>3, <1>6
<1>. QED
  BY <1>6, <1>7

\* A list without one of its items.
LEMMA WithoutFacts ==
    ASSUME NEW S, NEW list \in Seq(S), NEW k \in 1 .. Len(list)
    PROVE  /\ Without(list, k) \in Seq(S)
           /\ Len(Without(list, k)) = Len(list) - 1
           /\ \A i \in 1 .. Len(list) - 1 :
                 Without(list, k)[i] = IF i < k THEN list[i] ELSE list[i + 1]
<1>1. Len(list) \in Nat /\ \A i \in 1 .. Len(list) : list[i] \in S
  BY LenProperties, ElementOfSeq
<1>. DEFINE front == SubSeq(list, 1, k - 1)
            back == SubSeq(list, k + 1, Len(list))
<1>2. /\ front \in Seq(S) /\ Len(front) = k - 1
      /\ \A i \in 1 .. k - 1 : front[i] = list[i]
  <2>1. /\ front \in Seq(S)
        /\ Len(front) = IF 1 <= k - 1 THEN k - 1 - 1 + 1 ELSE 0
        /\ \A i \in 1 .. k - 1 - 1 + 1 : front[i] = list[1 + i - 1]
    BY <1>1, SubSeqProperties
  <2>. HIDE DEF front
  <2>. QED  BY <1>1, <2>1
<1>3. /\ back \in Seq(S) /\ Len(back) = Len(list) - k
      /\ \A i \in 1 .. Len(list) - k : back[i] = list[k + i]
  <2>1. /\ back \in Seq(S)
        /\ Len(back) = IF k + 1 <= Len(list) THEN Len(list) - (k + 1) + 1
                                             ELSE 0
        /\ \A i \in 1 .. Len(list) - (k + 1) + 1 :
              back[i] = list[k + 1 + i - 1]
    BY <1>1, SubSeqProperties
  <2>. HIDE DEF back
  <2>2. \A i \in 1 .. Len(list) - k : k + 1 + i - 1 = k + i  BY <1>1
  <2>. QED  BY <1>1, <2>1, <2>2
<1>4. Without(list, k) = front \o back  BY DEF Without
<1>. HIDE DEF front, back
<1>5. /\ front \o back \in Seq(S)
      /\ Len(front \o back) = Len(list) - 1
      /\ \A i \in 1 .. Len(list) - 1 : (front \o back)[i] =
            IF i <= k - 1 THEN front[i] ELSE back[i - (k - 1)]
  <2>1. /\ front \o back \in Seq(S)
        /\ Len(front \o back) = Len(front) + Len(back)
        /\ \A i \in 1 .. Len(front) + Len(back) : (front \o back)[i] =
              IF i <= Len(front) THEN front[i] ELSE back[i - Len(front)]
    BY <1>2, <1>3, ConcatProperties
  <2>2. Len(front) + Len(back) = Len(list) - 1  BY <1>1, <1>2, <1>3
  <2>. QED  BY <1>2, <2>1, <2>2
<1>6. ASSUME NEW i \in 1 .. Len(list) - 1
      PROVE  (front \o back)[i] = IF i < k THEN list[i] ELSE list[i + 1]
  <2>1. CASE i < k
    <3>1. i \in 1 .. k - 1  BY <1>1, <2>1
    <3>. QED  BY <1>2, <1>5, <2>1, <3>1
  <2>2. CASE ~(i < k)
    <3>1. /\ i - (k - 1) \in 1 .. Len(list) - k
          /\ k + (i - (k - 1)) = i + 1 /\ ~(i <= k - 1)
      BY <1>1, <2>2
    <3>. QED  BY <1>3, <1>5, <2>2, <3>1
  <2>. QED  BY <2>1, <2>2
<1>. QED  BY <1>4, <1>5, <1>6

\* What a page adds to what was received is again a sequence, and longer by
\* no more than the items taken.
LEMMA ReceivedType ==
    ASSUME NEW S, NEW got \in Seq(S), NEW items \in Seq(S), NEW n \in Nat
    PROVE  /\ got \o items \in Seq(S)
           /\ got \o FirstOf(items, n) \in Seq(S)
           /\ Len(got \o FirstOf(items, n)) <= Len(got) + n
<1>1. /\ FirstOf(items, n) \in Seq(S)
      /\ Len(FirstOf(items, n)) = Smaller(n, Len(items))
  BY FirstOfFacts
<1>2. Len(got) \in Nat /\ Len(items) \in Nat
  BY LenProperties
<1>3. Smaller(n, Len(items)) <= n
  BY <1>2 DEF Smaller
<1> QED
  BY <1>1, <1>2, <1>3, ConcatProperties

-----------------------------------------------------------------------------
(* Prefixes *)

PrefixOf(got, list) ==
    Len(got) <= Len(list) /\ \A i \in 1 .. Len(got) : got[i] = list[i]

\* A prefix of a list, and the items that follow it there, are a prefix again.
LEMMA PrefixGrows ==
    ASSUME NEW S, NEW list \in Seq(S), NEW got \in Seq(S), NEW more \in Seq(S),
           PrefixOf(got, list), Len(got) + Len(more) <= Len(list),
           \A i \in 1 .. Len(more) : more[i] = list[Len(got) + i]
    PROVE  /\ PrefixOf(got \o more, list)
           /\ Len(got \o more) = Len(got) + Len(more)
<1>1. Len(got) \in Nat /\ Len(more) \in Nat /\ Len(list) \in Nat
  BY LenProperties
<1>2. /\ Len(got \o more) = Len(got) + Len(more)
      /\ \A i \in 1 .. Len(got) + Len(more) : (got \o more)[i] =
            IF i <= Len(got) THEN got[i] ELSE more[i - Len(got)]
  BY ConcatProperties
<1>3. ASSUME NEW i \in 1 .. Len(got) + Len(more)
      PROVE  (got \o more)[i] = list[i]
  <2>1. CASE i <= Len(got)
    BY <1>1, <1>2, <2>1 DEF PrefixOf
  <2>2. CASE ~(i <= Len(got))
    <3>1. i - Len(got) \in 1 .. Len(more) /\ Len(got) + (i - Len(got)) = i
      BY <1>1, <2>2
    <3> QED
      BY <1>2, <2>2, <3>1
  <2> QED
    BY <2>1, <2>2
<1> QED
  BY <1>2, <1>3 DEF PrefixOf

LEMMA PrefixFull ==
    ASSUME NEW S, NEW list \in Seq(S), NEW got \in Seq(S),
           PrefixOf(got, list), Len(got) = Len(list)
    PROVE  got = list
BY SeqEqual, LenProperties DEF PrefixOf

-----------------------------------------------------------------------------
(* Repetitions *)

\* What repeats nothing of a list without repetition extends it to another.
LEMMA InjectiveGrows ==
    ASSUME NEW S, NEW known \in Seq(S), NEW more \in Seq(S),
           IsInjective(known), NoRepeat(known, more)
    PROVE  IsInjective(known \o more)
<1>1. /\ Len(known) \in Nat /\ Len(more) \in Nat
      /\ DOMAIN known = 1 .. Len(known) /\ DOMAIN more = 1 .. Len(more)
  BY LenProperties
<1>2. /\ known \o more \in Seq(S)
      /\ Len(known \o more) = Len(known) + Len(more)
      /\ \A i \in 1 .. Len(known) + Len(more) : (known \o more)[i] =
            IF i <= Len(known) THEN known[i] ELSE more[i - Len(known)]
  BY ConcatProperties
<1>3. DOMAIN (known \o more) = 1 .. Len(known) + Len(more)
  BY <1>2, LenProperties
<1>4. ASSUME NEW i \in 1 .. Len(known) + Len(more)
      PROVE  IF i <= Len(known)
             THEN (known \o more)[i] = known[i] /\ i \in DOMAIN known
             ELSE /\ (known \o more)[i] = more[i - Len(known)]
                  /\ i - Len(known) \in DOMAIN more
  <2>1. CASE i <= Len(known)  BY <1>1, <1>2, <2>1
  <2>2. CASE ~(i <= Len(known))
    <3>1. i - Len(known) \in 1 .. Len(more)  BY <1>1, <2>2
    <3>. QED  BY <1>1, <1>2, <2>2, <3>1
  <2>. QED  BY <2>1, <2>2
<1>5. \A i \in DOMAIN known, j \in DOMAIN more : known[i] # more[j]
  BY DEF NoRepeat, Range
<1>6. ASSUME NEW i \in 1 .. Len(known) + Len(more),
             NEW j \in 1 .. Len(known) + Len(more),
             (known \o more)[i] = (known \o more)[j]
      PROVE  i = j
  <2>1. CASE i <= Len(known) /\ j <= Len(known)
    BY <1>4, <1>6, <2>1 DEF IsInjective
  <2>2. CASE ~(i <= Len(known)) /\ ~(j <= Len(known))
    <3>1. i - Len(known) = j - Len(known)
      BY <1>4, <1>6, <2>2 DEF NoRepeat, IsInjective
    <3>. QED  BY <1>1, <3>1
  <2>3. CASE i <= Len(known) /\ ~(j <= Len(known))
    BY <1>4, <1>5, <1>6, <2>3
  <2>4. CASE ~(i <= Len(known)) /\ j <= Len(known)
    BY <1>4, <1>5, <1>6, <2>4
  <2>. QED  BY <2>1, <2>2, <2>3, <2>4
<1>. QED  BY <1>3, <1>6 DEF IsInjective

\* A list without one of its items repeats none either.
LEMMA WithoutInjective ==
    ASSUME NEW S, NEW list \in Seq(S), NEW k \in 1 .. Len(list),
           IsInjective(list)
    PROVE  /\ IsInjective(Without(list, k))
           /\ Range(Without(list, k)) \subseteq Range(list) \ {list[k]}
<1>. DEFINE rest == Without(list, k)
            Place(i) == IF i < k THEN i ELSE i + 1
<1>1. /\ Len(list) \in Nat /\ DOMAIN list = 1 .. Len(list)
      /\ rest \in Seq(S) /\ DOMAIN rest = 1 .. Len(list) - 1
      /\ \A i \in 1 .. Len(list) - 1 : rest[i] = list[Place(i)]
  BY WithoutFacts, LenProperties
<1>2. \A i \in 1 .. Len(list) - 1 : Place(i) \in 1 .. Len(list)  BY <1>1
<1>3. \A i, j \in 1 .. Len(list) - 1 : Place(i) = Place(j) => i = j
  BY <1>1
<1>4. \A i \in 1 .. Len(list) - 1 : Place(i) # k  BY <1>1
<1>. HIDE DEF rest, Place
<1>5. IsInjective(rest)  BY <1>1, <1>2, <1>3 DEF IsInjective
<1>6. Range(rest) \subseteq Range(list) \ {list[k]}
  BY <1>1, <1>2, <1>4 DEF Range, IsInjective
<1>. QED  BY <1>5, <1>6 DEF rest

\* A list without repetition has as many items as places.
LEMMA CountedRange ==
    ASSUME NEW S, NEW list \in Seq(S), IsInjective(list)
    PROVE  IsFiniteSet(Range(list)) /\ Cardinality(Range(list)) = Len(list)
<1>. DEFINE n == Len(list)
            R == Range(list)
<1>1. n \in Nat /\ DOMAIN list = 1 .. n  BY LenProperties
<1>2. IsFiniteSet(1 .. n) /\ Cardinality(1 .. n) = n
  <2>1. Cardinality(1 .. n) = IF 1 > n THEN 0 ELSE n - 1 + 1
    BY <1>1, FS_Interval
  <2>. QED  BY <1>1, <2>1, FS_Interval
<1>3. list \in [1 .. n -> R]  BY <1>1 DEF Range
<1>4. list \in Bijection(1 .. n, R)
  BY <1>1, <1>3 DEF Bijection, Injection, Surjection, IsInjective, Range
<1>5. ExistsBijection(1 .. n, R)  BY <1>4 DEF ExistsBijection
<1>. QED  BY <1>2, <1>5, FS_Bijection
=============================================================================
