-------------------------- MODULE ReobserveProofs --------------------------
(***************************************************************************)
(* Proofs about Reobserve, for every number of heads, bases, files and     *)
(* check runs, every page size and every ceiling: what verify prints about *)
(* a pull request that changes while it is read.                           *)
(***************************************************************************)
EXTENDS Reobserve, PagingProofs

-----------------------------------------------------------------------------
(* Check runs and their ids *)

LEMMA IdsFacts ==
    ASSUME NEW list \in Seq(CheckRun)
    PROVE  /\ Ids(list) \in Seq(Nat)
           /\ Len(Ids(list)) = Len(list)
           /\ DOMAIN Ids(list) = 1 .. Len(list)
           /\ \A i \in 1 .. Len(list) : /\ list[i] \in CheckRun
                                        /\ Ids(list)[i] = list[i].id
<1>1. Len(list) \in Nat  BY LenProperties
<1>2. \A i \in 1 .. Len(list) : list[i] \in CheckRun  BY ElementOfSeq
<1>3. Ids(list) \in [1 .. Len(list) -> Nat]  BY <1>2 DEF Ids, CheckRun
<1>4. Ids(list) \in Seq(Nat)  BY <1>1, <1>3, SeqDef
<1>5. Len(Ids(list)) = Len(list)  BY <1>1, <1>3, <1>4, LenProperties
<1>. QED  BY <1>2, <1>4, <1>5 DEF Ids

LEMMA IdsOfConcat ==
    ASSUME NEW list \in Seq(CheckRun), NEW more \in Seq(CheckRun)
    PROVE  Ids(list \o more) = Ids(list) \o Ids(more)
<1>1. Len(list) \in Nat /\ Len(more) \in Nat  BY LenProperties
<1>2. /\ list \o more \in Seq(CheckRun)
      /\ Len(list \o more) = Len(list) + Len(more)
      /\ \A i \in 1 .. Len(list) + Len(more) : (list \o more)[i] =
            IF i <= Len(list) THEN list[i] ELSE more[i - Len(list)]
  BY ConcatProperties
<1>3. /\ Ids(list) \in Seq(Nat) /\ Ids(more) \in Seq(Nat)
      /\ Len(Ids(list)) = Len(list) /\ Len(Ids(more)) = Len(more)
      /\ Ids(list \o more) \in Seq(Nat)
      /\ Len(Ids(list \o more)) = Len(list) + Len(more)
  BY <1>2, IdsFacts
<1>4. /\ Ids(list) \o Ids(more) \in Seq(Nat)
      /\ Len(Ids(list) \o Ids(more)) = Len(list) + Len(more)
      /\ \A i \in 1 .. Len(list) + Len(more) : (Ids(list) \o Ids(more))[i] =
            IF i <= Len(list) THEN Ids(list)[i] ELSE Ids(more)[i - Len(list)]
  BY <1>3, ConcatProperties
<1>5. ASSUME NEW i \in 1 .. Len(list) + Len(more)
      PROVE  Ids(list \o more)[i] = (Ids(list) \o Ids(more))[i]
  <2>1. Ids(list \o more)[i] = (list \o more)[i].id
    BY <1>2, IdsFacts
  <2>2. CASE i <= Len(list)
    <3>1. i \in 1 .. Len(list)  BY <1>1, <2>2
    <3>. QED  BY <1>2, <1>4, <2>1, <2>2, <3>1, IdsFacts
  <2>3. CASE ~(i <= Len(list))
    <3>1. i - Len(list) \in 1 .. Len(more)  BY <1>1, <2>3
    <3>. QED  BY <1>2, <1>4, <2>1, <2>3, <3>1, IdsFacts
  <2>. QED  BY <2>2, <2>3
<1>. QED  BY <1>3, <1>4, <1>5, SeqEqual

\* What becomes of the check runs of a head while none is superseded: they are
\* added and conclude.
Grows(list, later) ==
    \A i \in 1 .. Len(list) : \E j \in 1 .. Len(later) :
        list[i].id = later[j].id /\ (list[i].done => later[j].done)

\* What becomes of them in any step, when `old` of them have been superseded
\* before it and `new` after it.  A run that is superseded is gone, and nothing
\* that comes has an id that was given before.
Changes(list, later, old, new) ==
    /\ later \in Seq(CheckRun) /\ Len(list) <= Len(later) /\ old <= new
    /\ IsInjective(Ids(later))
    /\ Range(Ids(later)) \subseteq 1 .. Len(later) + new
    /\ Range(Ids(later)) \subseteq
          Range(Ids(list)) \cup {Len(list) + old + 1}
    /\ old # new => \E id \in Range(Ids(list)) : id \notin Range(Ids(later))
    /\ old = new => Grows(list, later)

\* The ids of a listing are different, and all of them have been given.
NumberedTo(list, n) ==
    IsInjective(Ids(list)) /\ Range(Ids(list)) \subseteq 1 .. Len(list) + n

\* A new run joins a list at one of its ends.
LEMMA Joined ==
    ASSUME NEW list \in Seq(CheckRun), NEW run \in CheckRun,
           IsInjective(Ids(list)), run.id \notin Range(Ids(list)),
           NEW later \in {<<run>> \o list, list \o <<run>>}
    PROVE  /\ later \in Seq(CheckRun) /\ Len(later) = Len(list) + 1
           /\ IsInjective(Ids(later))
           /\ Range(Ids(later)) = Range(Ids(list)) \cup {run.id}
           /\ Grows(list, later)
<1>. DEFINE one == <<run>>
<1>1. /\ one \in Seq(CheckRun) /\ Len(one) = 1 /\ Len(list) \in Nat
      /\ one[1] = run
  BY LenProperties
<1>2. later \in {one \o list, list \o one}  OBVIOUS
<1>. HIDE DEF one
<1>3. /\ Ids(list) \in Seq(Nat) /\ Ids(one) \in Seq(Nat)
      /\ DOMAIN Ids(one) = 1 .. 1 /\ Ids(one)[1] = run.id
  BY <1>1, IdsFacts
<1>4. IsInjective(Ids(one)) /\ Range(Ids(one)) = {run.id}
  BY <1>3 DEF IsInjective, Range
<1>5. NoRepeat(Ids(one), Ids(list)) /\ NoRepeat(Ids(list), Ids(one))
  BY <1>4 DEF NoRepeat
<1>6. /\ IsInjective(Ids(one) \o Ids(list))
      /\ IsInjective(Ids(list) \o Ids(one))
  BY <1>3, <1>4, <1>5, InjectiveGrows
<1>7. /\ Range(Ids(one) \o Ids(list)) = {run.id} \cup Range(Ids(list))
      /\ Range(Ids(list) \o Ids(one)) = Range(Ids(list)) \cup {run.id}
  BY <1>3, <1>4, RangeConcatenation
<1>8. /\ Ids(one \o list) = Ids(one) \o Ids(list)
      /\ Ids(list \o one) = Ids(list) \o Ids(one)
  BY <1>1, IdsOfConcat
<1>9. /\ one \o list \in Seq(CheckRun) /\ list \o one \in Seq(CheckRun)
      /\ Len(one \o list) = 1 + Len(list)
      /\ Len(list \o one) = Len(list) + 1
      /\ \A i \in 1 .. 1 + Len(list) : (one \o list)[i] =
            IF i <= 1 THEN one[i] ELSE list[i - 1]
      /\ \A i \in 1 .. Len(list) + 1 : (list \o one)[i] =
            IF i <= Len(list) THEN list[i] ELSE one[i - Len(list)]
  <2>1. /\ one \o list \in Seq(CheckRun)
        /\ Len(one \o list) = Len(one) + Len(list)
        /\ \A i \in 1 .. Len(one) + Len(list) : (one \o list)[i] =
              IF i <= Len(one) THEN one[i] ELSE list[i - Len(one)]
    BY <1>1, ConcatProperties
  <2>2. /\ list \o one \in Seq(CheckRun)
        /\ Len(list \o one) = Len(list) + Len(one)
        /\ \A i \in 1 .. Len(list) + Len(one) : (list \o one)[i] =
              IF i <= Len(list) THEN list[i] ELSE one[i - Len(list)]
    BY <1>1, ConcatProperties
  <2>. QED  BY <1>1, <2>1, <2>2
<1>10. ASSUME NEW i \in 1 .. Len(list)
       PROVE  \E j \in 1 .. Len(list) + 1 : later[j] = list[i]
  <2>1. /\ i + 1 \in 1 .. 1 + Len(list) /\ i \in 1 .. Len(list) + 1
        /\ ~(i + 1 <= 1) /\ (i + 1) - 1 = i /\ i <= Len(list)
    BY <1>1
  <2>2. (one \o list)[i + 1] = list[i] /\ (list \o one)[i] = list[i]
    BY <1>9, <2>1
  <2>. QED  BY <1>2, <2>1, <2>2
<1>11. later \in Seq(CheckRun) /\ Len(later) = Len(list) + 1
  <2>1. CASE later = one \o list
    <3>1. 1 + Len(list) = Len(list) + 1  BY <1>1
    <3>. QED  BY <1>9, <2>1, <3>1
  <2>2. CASE later = list \o one  BY <1>9, <2>2
  <2>. QED  BY <1>2, <2>1, <2>2
<1>12. Grows(list, later)
  BY <1>10, <1>11 DEF Grows
<1>. QED  BY <1>2, <1>6, <1>7, <1>8, <1>11, <1>12

LEMMA ChangesAdded ==
    ASSUME NEW list \in Seq(CheckRun), NEW n \in Nat, NumberedTo(list, n),
           NEW run \in CheckRun, run.id = Len(list) + n + 1,
           NEW later \in {<<run>> \o list, list \o <<run>>}
    PROVE  Changes(list, later, n, n)
<1>1. Len(list) \in Nat  BY LenProperties
<1>2. run.id \notin Range(Ids(list))  BY <1>1 DEF NumberedTo
<1>3. /\ later \in Seq(CheckRun) /\ Len(later) = Len(list) + 1
      /\ IsInjective(Ids(later))
      /\ Range(Ids(later)) = Range(Ids(list)) \cup {run.id}
      /\ Grows(list, later)
  BY <1>2, Joined DEF NumberedTo
<1>4. Range(Ids(later)) \subseteq 1 .. Len(later) + n
  BY <1>1, <1>3 DEF NumberedTo
<1>5. Len(list) <= Len(later) /\ n <= n  BY <1>1, <1>3
<1>. QED  BY <1>3, <1>4, <1>5 DEF Changes

LEMMA IdsOfWithout ==
    ASSUME NEW list \in Seq(CheckRun), NEW k \in 1 .. Len(list)
    PROVE  Ids(Without(list, k)) = Without(Ids(list), k)
<1>1. /\ Ids(list) \in Seq(Nat) /\ Len(Ids(list)) = Len(list)
      /\ Len(list) \in Nat
  BY IdsFacts, LenProperties
<1>2. /\ Without(list, k) \in Seq(CheckRun)
      /\ Len(Without(list, k)) = Len(list) - 1
      /\ \A i \in 1 .. Len(list) - 1 : Without(list, k)[i] =
            IF i < k THEN list[i] ELSE list[i + 1]
  BY WithoutFacts
<1>3. /\ Without(Ids(list), k) \in Seq(Nat)
      /\ Len(Without(Ids(list), k)) = Len(list) - 1
      /\ \A i \in 1 .. Len(list) - 1 : Without(Ids(list), k)[i] =
            IF i < k THEN Ids(list)[i] ELSE Ids(list)[i + 1]
  <2>1. k \in 1 .. Len(Ids(list)) /\ Ids(list) \in Seq(Nat)  BY <1>1
  <2>. DEFINE ids == Ids(list)
  <2>2. /\ Without(ids, k) \in Seq(Nat)
        /\ Len(Without(ids, k)) = Len(ids) - 1
        /\ \A i \in 1 .. Len(ids) - 1 : Without(ids, k)[i] =
              IF i < k THEN ids[i] ELSE ids[i + 1]
    <3>. HIDE DEF ids
    <3>1. k \in 1 .. Len(ids) /\ ids \in Seq(Nat)  BY <2>1 DEF ids
    <3>. QED  BY <3>1, WithoutFacts
  <2>. QED  BY <1>1, <2>2
<1>4. /\ Ids(Without(list, k)) \in Seq(Nat)
      /\ Len(Ids(Without(list, k))) = Len(list) - 1
  BY <1>2, IdsFacts
<1>5. ASSUME NEW i \in 1 .. Len(list) - 1
      PROVE  Ids(Without(list, k))[i] = Without(Ids(list), k)[i]
  <2>1. i \in 1 .. Len(list) /\ i + 1 \in 1 .. Len(list)  BY <1>1
  <2>2. Ids(Without(list, k))[i] = Without(list, k)[i].id
    BY <1>2, IdsFacts
  <2>3. Ids(list)[i] = list[i].id /\ Ids(list)[i + 1] = list[i + 1].id
    BY <2>1, IdsFacts
  <2>. QED  BY <1>2, <1>3, <2>2, <2>3
<1>. QED  BY <1>3, <1>4, <1>5, SeqEqual

LEMMA ChangesSuperseded ==
    ASSUME NEW list \in Seq(CheckRun), NEW n \in Nat, NumberedTo(list, n),
           NEW k \in 1 .. Len(list),
           NEW run \in CheckRun, run.id = Len(list) + n + 1,
           NEW later \in {<<run>> \o Without(list, k),
                          Without(list, k) \o <<run>>}
    PROVE  Changes(list, later, n, n + 1)
<1>. DEFINE rest == Without(list, k)
<1>1. Len(list) \in Nat  BY LenProperties
<1>2. /\ Ids(list) \in Seq(Nat) /\ Len(Ids(list)) = Len(list)
      /\ k \in DOMAIN Ids(list)
  BY IdsFacts
<1>3. rest \in Seq(CheckRun) /\ Len(rest) = Len(list) - 1
  BY WithoutFacts
<1>4. /\ IsInjective(Ids(rest))
      /\ Range(Ids(rest)) \subseteq Range(Ids(list)) \ {Ids(list)[k]}
  BY <1>2, IdsOfWithout, WithoutInjective DEF NumberedTo
<1>. HIDE DEF rest
<1>5. run.id \notin Range(Ids(list))  BY <1>1 DEF NumberedTo
<1>6. later \in {<<run>> \o rest, rest \o <<run>>}  BY DEF rest
<1>7. /\ later \in Seq(CheckRun) /\ Len(later) = Len(rest) + 1
      /\ IsInjective(Ids(later))
      /\ Range(Ids(later)) = Range(Ids(rest)) \cup {run.id}
  BY <1>3, <1>4, <1>5, <1>6, Joined
<1>8. Len(later) = Len(list)  BY <1>1, <1>3, <1>7
<1>9. Range(Ids(later)) \subseteq 1 .. Len(later) + (n + 1)
  <2>1. Len(later) + (n + 1) = run.id /\ run.id \in 1 .. run.id
    BY <1>1, <1>8
  <2>2. Range(Ids(rest)) \subseteq 1 .. run.id
    BY <1>1, <1>4 DEF NumberedTo
  <2>. QED  BY <1>7, <2>1, <2>2
<1>10. Ids(list)[k] \in Range(Ids(list))  BY <1>2 DEF Range
<1>11. Ids(list)[k] \notin Range(Ids(later))
  BY <1>4, <1>5, <1>7, <1>10
<1>12. /\ Len(list) <= Len(later) /\ n <= n + 1 /\ n # n + 1
       /\ Range(Ids(later)) \subseteq Range(Ids(list)) \cup {Len(list) + n + 1}
  BY <1>1, <1>4, <1>7, <1>8
<1>. QED  BY <1>7, <1>9, <1>10, <1>11, <1>12 DEF Changes

LEMMA ChangesConcluded ==
    ASSUME NEW list \in Seq(CheckRun), NEW n \in Nat, NumberedTo(list, n),
           NEW k \in 1 .. Len(list)
    PROVE  Changes(list, [list EXCEPT ![k] = [list[k] EXCEPT !.done = TRUE]],
                   n, n)
<1>. DEFINE run == [list[k] EXCEPT !.done = TRUE]
            later == [list EXCEPT ![k] = run]
<1>1. list[k] \in CheckRun  BY ElementOfSeq
<1>2. run \in CheckRun /\ run.id = list[k].id /\ run.done = TRUE
  BY <1>1 DEF CheckRun
<1>. HIDE DEF run
<1>3. /\ later \in Seq(CheckRun) /\ Len(later) = Len(list)
      /\ \A j \in 1 .. Len(list) : later[j] = IF j = k THEN run ELSE list[j]
  BY <1>2, ExceptSeq
<1>. HIDE DEF later
<1>4. /\ Ids(list) \in Seq(Nat) /\ Ids(later) \in Seq(Nat)
      /\ Len(Ids(list)) = Len(Ids(later))
      /\ Len(Ids(list)) = Len(list)
      /\ \A j \in 1 .. Len(Ids(list)) : Ids(list)[j] = Ids(later)[j]
  <2>1. /\ Ids(list) \in Seq(Nat) /\ Len(Ids(list)) = Len(list)
        /\ \A j \in 1 .. Len(list) : Ids(list)[j] = list[j].id
    BY IdsFacts
  <2>2. /\ Ids(later) \in Seq(Nat) /\ Len(Ids(later)) = Len(list)
        /\ \A j \in 1 .. Len(list) : Ids(later)[j] = later[j].id
    BY <1>3, IdsFacts
  <2>. QED  BY <1>2, <1>3, <2>1, <2>2
<1>5. Ids(list) = Ids(later)  BY <1>4, SeqEqual
<1>6. Len(list) <= Len(later) /\ n <= n  BY <1>3, LenProperties
<1>7. Grows(list, later)  BY <1>2, <1>3 DEF Grows
<1>8. Changes(list, later, n, n)
  BY <1>3, <1>5, <1>6, <1>7 DEF Changes, NumberedTo
<1>. QED  BY <1>8 DEF later, run

LEMMA ChangesSame ==
    ASSUME NEW list \in Seq(CheckRun), NEW n \in Nat, NumberedTo(list, n)
    PROVE  Changes(list, list, n, n)
<1>1. Len(list) <= Len(list) /\ n <= n  BY LenProperties
<1>. QED  BY <1>1 DEF Changes, Grows, NumberedTo

-----------------------------------------------------------------------------
(* Types *)

\* The ids of each head's check runs are different, and each has been given.
Numbered == \A h \in Heads : NumberedTo(runs[h], superseded[h])

\* What a new run is put at the ends of.
LEMMA CreatedRun ==
    ASSUME TypeOK, NEW h \in Heads, NEW list, Created(h, list)
    PROVE  \E run \in CheckRun :
              /\ run.id = Len(runs[h]) + superseded[h] + 1
              /\ \E later \in {<<run>> \o list, list \o <<run>>} :
                    runs' = [runs EXCEPT ![h] = later]
<1>. DEFINE run == [id |-> Len(runs[h]) + superseded[h] + 1, done |-> FALSE]
<1>1. Len(runs[h]) \in Nat /\ superseded[h] \in Nat
  <2>1. runs[h] \in Seq(CheckRun)  BY DEF TypeOK
  <2>. QED  BY <2>1, LenProperties DEF TypeOK
<1>2. run \in CheckRun  BY <1>1 DEF CheckRun
<1>3. \E later \in {<<run>> \o list, list \o <<run>>} :
         runs' = [runs EXCEPT ![h] = later]
  BY DEF Created
<1>4. run.id = Len(runs[h]) + superseded[h] + 1  OBVIOUS
<1>. HIDE DEF run
<1>. QED  BY <1>2, <1>3, <1>4

\* What GitHub holds changes while the command reads, and nothing else does.
LEMMA EnvironmentEffect ==
    ASSUME TypeOK, Numbered, Environment
    PROVE  /\ UNCHANGED command /\ Reading
           /\ pull' \in [head: Heads, base: Bases]
           /\ runs' \in [Heads -> Seq(CheckRun)]
           /\ superseded' \in [Heads -> Nat]
           /\ \A h \in Heads :
                 Changes(runs[h], runs'[h], superseded[h], superseded'[h])
<1>0. /\ runs \in [Heads -> Seq(CheckRun)]
      /\ superseded \in [Heads -> Nat]
      /\ pull \in [head: Heads, base: Bases]
      /\ \A h \in Heads : NumberedTo(runs[h], superseded[h])
  BY DEF TypeOK, Numbered
<1>1. ASSUME NEW h \in Heads, NEW later, NEW n \in Nat,
             Changes(runs[h], later, superseded[h], n),
             runs' = [runs EXCEPT ![h] = later],
             superseded' = [superseded EXCEPT ![h] = n]
      PROVE  /\ runs' \in [Heads -> Seq(CheckRun)]
             /\ superseded' \in [Heads -> Nat]
             /\ \A g \in Heads :
                   Changes(runs[g], runs'[g], superseded[g], superseded'[g])
  <2>1. later \in Seq(CheckRun)  BY <1>1 DEF Changes
  <2>2. /\ runs' \in [Heads -> Seq(CheckRun)]
        /\ superseded' \in [Heads -> Nat]
    <3>1. runs' \in [Heads -> Seq(CheckRun)]  BY <1>0, <1>1, <2>1
    <3>2. superseded' \in [Heads -> Nat]  BY <1>0, <1>1
    <3>. QED  BY <3>1, <3>2
  <2>3. /\ \A g \in Heads : runs'[g] = IF g = h THEN later ELSE runs[g]
        /\ \A g \in Heads :
              superseded'[g] = IF g = h THEN n ELSE superseded[g]
    <3>1. \A g \in Heads : runs'[g] = IF g = h THEN later ELSE runs[g]
      BY <1>0, <1>1
    <3>2. \A g \in Heads :
             superseded'[g] = IF g = h THEN n ELSE superseded[g]
      BY <1>0, <1>1
    <3>. QED  BY <3>1, <3>2
  <2>4. ASSUME NEW g \in Heads
        PROVE  Changes(runs[g], runs'[g], superseded[g], superseded'[g])
    <3>1. runs[g] \in Seq(CheckRun) /\ superseded[g] \in Nat  BY <1>0
    <3>2. Changes(runs[g], runs[g], superseded[g], superseded[g])
      BY <1>0, <3>1, ChangesSame
    <3>. QED  BY <1>1, <2>3, <3>2
  <2>. QED  BY <2>2, <2>4
<1>2. \A h \in Heads :
         /\ runs[h] \in Seq(CheckRun) /\ superseded[h] \in Nat
         /\ superseded = [superseded EXCEPT ![h] = superseded[h]]
  BY <1>0
<1>3. \A h \in Heads : Changes(runs[h], runs[h], superseded[h], superseded[h])
  BY <1>0, <1>2, ChangesSame
<1>4. ASSUME NEW h \in Heads, Push(h)
      PROVE  /\ UNCHANGED <<runs, superseded, command>> /\ Reading
             /\ pull' \in [head: Heads, base: Bases]
  BY <1>0, <1>4 DEF Push, checkRuns
<1>5. ASSUME NEW b \in Bases, Retarget(b)
      PROVE  /\ UNCHANGED <<runs, superseded, command>> /\ Reading
             /\ pull' \in [head: Heads, base: Bases]
  BY <1>0, <1>5 DEF Retarget, checkRuns
<1>6. ASSUME NEW h \in Heads, AddRun(h)
      PROVE  /\ UNCHANGED <<pull, command>> /\ Reading
             /\ superseded' = [superseded EXCEPT ![h] = superseded[h]]
             /\ \E later : /\ Changes(runs[h], later, superseded[h],
                                       superseded[h])
                            /\ runs' = [runs EXCEPT ![h] = later]
  <2>. DEFINE list == runs[h]
              n == superseded[h]
  <2>1. list \in Seq(CheckRun) /\ n \in Nat /\ NumberedTo(list, n)
    BY <1>0
  <2>2. Created(h, list)  BY <1>6 DEF AddRun
  <2>3. \E run \in CheckRun :
           /\ run.id = Len(list) + n + 1
           /\ \E later \in {<<run>> \o list, list \o <<run>>} :
                 runs' = [runs EXCEPT ![h] = later]
    <3>1. \E run \in CheckRun :
             /\ run.id = Len(runs[h]) + superseded[h] + 1
             /\ \E later \in {<<run>> \o list, list \o <<run>>} :
                   runs' = [runs EXCEPT ![h] = later]
      <4>. HIDE DEF list
      <4>. QED  BY <2>2, CreatedRun
    <3>. QED  BY <3>1
  <2>. HIDE DEF list, n
  <2>4. \E later : /\ Changes(list, later, n, n)
                   /\ runs' = [runs EXCEPT ![h] = later]
    BY <2>1, <2>3, ChangesAdded
  <2>. QED  BY <1>2, <1>6, <2>4 DEF AddRun, list, n
<1>7. ASSUME NEW h \in Heads, NEW i \in 1 .. Len(runs[h]), Supersede(h, i)
      PROVE  /\ UNCHANGED <<pull, command>> /\ Reading
             /\ superseded' = [superseded EXCEPT ![h] = superseded[h] + 1]
             /\ \E later : /\ Changes(runs[h], later, superseded[h],
                                       superseded[h] + 1)
                            /\ runs' = [runs EXCEPT ![h] = later]
  <2>. DEFINE list == runs[h]
              n == superseded[h]
              rest == Without(list, i)
  <2>1. /\ list \in Seq(CheckRun) /\ n \in Nat /\ NumberedTo(list, n)
        /\ i \in 1 .. Len(list)
    BY <1>0
  <2>2. Created(h, rest)  BY <1>7 DEF Supersede
  <2>3. \E run \in CheckRun :
           /\ run.id = Len(list) + n + 1
           /\ \E later \in {<<run>> \o rest, rest \o <<run>>} :
                 runs' = [runs EXCEPT ![h] = later]
    <3>. HIDE DEF rest
    <3>. QED  BY <2>2, CreatedRun
  <2>. HIDE DEF list, n
  <2>4. \E later : /\ Changes(list, later, n, n + 1)
                   /\ runs' = [runs EXCEPT ![h] = later]
    BY <2>1, <2>3, ChangesSuperseded
  <2>. QED  BY <1>7, <2>4 DEF Supersede, list, n
<1>8. ASSUME NEW h \in Heads, NEW i \in 1 .. Len(runs[h]), Conclude(h, i)
      PROVE  /\ UNCHANGED <<pull, command>> /\ Reading
             /\ superseded' = [superseded EXCEPT ![h] = superseded[h]]
             /\ \E later : /\ Changes(runs[h], later, superseded[h],
                                       superseded[h])
                            /\ runs' = [runs EXCEPT ![h] = later]
  <2>. DEFINE run == [runs[h][i] EXCEPT !.done = TRUE]
              later == [runs[h] EXCEPT ![i] = run]
  <2>1. Changes(runs[h], later, superseded[h], superseded[h])
    BY <1>0, <1>2, ChangesConcluded
  <2>2. runs' = [runs EXCEPT ![h] = later]  BY <1>8 DEF Conclude
  <2>. HIDE DEF later
  <2>. QED  BY <1>2, <1>8, <2>1, <2>2 DEF Conclude
<1>9. \/ \E h \in Heads : Push(h)
      \/ \E b \in Bases : Retarget(b)
      \/ \E h \in Heads : AddRun(h)
      \/ \E h \in Heads : \E i \in 1 .. Len(runs[h]) :
            Supersede(h, i) \/ Conclude(h, i)
  BY DEF Environment
<1>10. CASE \/ \E h \in Heads : Push(h)
            \/ \E b \in Bases : Retarget(b)
  <2>1. UNCHANGED <<runs, superseded>>  BY <1>4, <1>5, <1>10
  <2>. QED  BY <1>0, <1>3, <1>4, <1>5, <1>10, <2>1
<1>11. CASE \E h \in Heads : AddRun(h)
  BY <1>0, <1>1, <1>2, <1>6, <1>11
<1>12. CASE \E h \in Heads : \E i \in 1 .. Len(runs[h]) : Supersede(h, i)
  <2>1. PICK h \in Heads : \E i \in 1 .. Len(runs[h]) : Supersede(h, i)
    BY <1>12
  <2>2. superseded[h] + 1 \in Nat  BY <1>2
  <2>. QED  BY <1>0, <1>1, <1>7, <2>1, <2>2
<1>13. CASE \E h \in Heads : \E i \in 1 .. Len(runs[h]) : Conclude(h, i)
  <2>1. PICK h \in Heads : \E i \in 1 .. Len(runs[h]) : Conclude(h, i)
    BY <1>13
  <2>2. superseded[h] \in Nat  BY <1>2
  <2>3. /\ UNCHANGED <<pull, command>> /\ Reading
        /\ superseded' = [superseded EXCEPT ![h] = superseded[h]]
        /\ \E later : /\ Changes(runs[h], later, superseded[h], superseded[h])
                       /\ runs' = [runs EXCEPT ![h] = later]
    BY <1>8, <2>1
  <2>. QED  BY <1>0, <1>1, <2>1, <2>2, <2>3
<1>. QED  BY <1>9, <1>10, <1>11, <1>12, <1>13

\* The check runs a head starts with.
LEMMA PendingFacts ==
    ASSUME NEW n \in Nat
    PROVE  /\ Pending(n) \in Seq(CheckRun) /\ Len(Pending(n)) = n
           /\ NumberedTo(Pending(n), 0)
           /\ \A i \in 1 .. n : ~Pending(n)[i].done
<1>1. \A i \in 1 .. n : [id |-> i, done |-> FALSE] \in CheckRun
  BY DEF CheckRun
<1>2. Pending(n) \in [1 .. n -> CheckRun]  BY <1>1 DEF Pending
<1>3. Pending(n) \in Seq(CheckRun)  BY <1>2, SeqDef
<1>4. Len(Pending(n)) = n  BY <1>2, <1>3, LenProperties
<1>5. \A i \in 1 .. n : Pending(n)[i].id = i /\ ~Pending(n)[i].done
  BY DEF Pending
<1>6. DOMAIN Ids(Pending(n)) = 1 .. n /\ \A i \in 1 .. n : Ids(Pending(n))[i] = i
  BY <1>3, <1>4, <1>5, IdsFacts
<1>7. IsInjective(Ids(Pending(n)))  BY <1>6 DEF IsInjective
<1>8. Range(Ids(Pending(n))) \subseteq 1 .. n  BY <1>6 DEF Range
<1>9. n + 0 = n  OBVIOUS
<1>. QED  BY <1>3, <1>4, <1>5, <1>7, <1>8, <1>9 DEF NumberedTo

LEMMA InitRuns ==
    ASSUME Init, NEW h \in Heads
    PROVE  /\ runs[h] \in Seq(CheckRun) /\ superseded[h] = 0
           /\ NumberedTo(runs[h], 0)
           /\ \A i \in 1 .. Len(runs[h]) : ~runs[h][i].done
<1>1. PICK n \in Started : runs[h] = Pending(n)  BY DEF Init
<1>2. n \in Nat  BY StartAssumption
<1>. QED  BY <1>1, <1>2, PendingFacts DEF Init

LEMMA InitTypeOK == Init => TypeOK
<1>. SUFFICES ASSUME Init PROVE TypeOK  OBVIOUS
<1>1. /\ runs \in [Heads -> Seq(CheckRun)]
      /\ superseded \in [Heads -> Nat]
  <2>1. \A h \in Heads : runs[h] \in Seq(CheckRun)  BY InitRuns
  <2>2. runs \in [Heads -> {Pending(n) : n \in Started}]  BY DEF Init
  <2>3. runs \in [Heads -> Seq(CheckRun)]  BY <2>1, <2>2
  <2>4. superseded \in [Heads -> Nat]  BY DEF Init
  <2>. QED  BY <2>3, <2>4
<1>2. pull.head \in Heads /\ pull.base \in Bases  BY DEF Init
<1>3. PICK k \in 0 .. Len(runs[pull.head]) :
         recorded = [head |-> pull.head,
                     count |-> FileCount[pull.head][pull.base],
                     checks |-> Range(FirstOf(runs[pull.head], k))]
  BY DEF Init
<1>4. FirstOf(runs[pull.head], k) \in Seq(CheckRun)
  BY <1>1, <1>2, FirstOfFacts
<1>5. Range(FirstOf(runs[pull.head], k)) \subseteq CheckRun
  BY <1>4, RangeOfSeq
<1>6. recorded \in [head: Heads, count: Nat, checks: SUBSET CheckRun]
  BY <1>2, <1>3, <1>5, CountAssumption
<1>7. page \in 1 .. PageCeiling  BY CeilingAssumption DEF Init
<1>8. checks \in Seq(CheckRun) /\ IsInjective(Ids(checks))
  <2>1. checks = <<>> /\ checks \in Seq(CheckRun) /\ Len(checks) = 0
    BY EmptySeq DEF Init
  <2>2. DOMAIN Ids(checks) = 1 .. 0  BY <2>1, IdsFacts
  <2>. QED  BY <2>1, <2>2 DEF IsInjective
<1>9. read \in Seq(Heads)  BY DEF Init
<1>. QED  BY <1>1, <1>6, <1>7, <1>8, <1>9 DEF Init, TypeOK

\* The command reads a head before it lists the check runs of that head.
Bound ==
    pc \in {"checks", "readback"} =>
        /\ head \in Heads /\ read = <<head>>
        /\ errors \subseteq {"CHECK_RUNS_FAILED"}

\* What one page, or the front of it, adds to the check runs received.
LEMMA PageTaken ==
    ASSUME TypeOK, Bound, pc = "checks", NEW n \in Nat
    PROVE  LET items == PageOf(runs[head], page)
               taken == FirstOf(items, n)
           IN  /\ items \in Seq(CheckRun) /\ taken \in Seq(CheckRun)
               /\ checks \o items \in Seq(CheckRun)
               /\ checks \o taken \in Seq(CheckRun)
               /\ NoRepeat(Ids(checks), Ids(items)) =>
                     IsInjective(Ids(checks \o items))
               /\ NoRepeat(Ids(checks), Ids(taken)) =>
                     IsInjective(Ids(checks \o taken))
<1>. DEFINE items == PageOf(runs[head], page)
            taken == FirstOf(items, n)
<1>1. /\ runs[head] \in Seq(CheckRun) /\ page \in Nat \ {0}
      /\ checks \in Seq(CheckRun) /\ IsInjective(Ids(checks))
  BY DEF TypeOK, Bound
<1>2. items \in Seq(CheckRun)  BY <1>1, PageOfFacts
<1>3. taken \in Seq(CheckRun)  BY <1>2, FirstOfFacts
<1>4. ASSUME NEW more \in Seq(CheckRun)
      PROVE  /\ checks \o more \in Seq(CheckRun)
             /\ NoRepeat(Ids(checks), Ids(more)) =>
                   IsInjective(Ids(checks \o more))
  <2>1. checks \o more \in Seq(CheckRun)  BY <1>1, ConcatProperties
  <2>2. Ids(checks) \in Seq(Nat) /\ Ids(more) \in Seq(Nat)
    BY <1>1, IdsFacts
  <2>3. Ids(checks \o more) = Ids(checks) \o Ids(more)
    BY <1>1, IdsOfConcat
  <2>. QED  BY <1>1, <2>1, <2>2, <2>3, InjectiveGrows
<1>. QED  BY <1>2, <1>3, <1>4

LEMMA ReadChecksTypeOK == TypeOK /\ Bound /\ ReadChecks => TypeOK'
<1>. SUFFICES ASSUME TypeOK, Bound, ReadChecks PROVE TypeOK'  OBVIOUS
<1>. DEFINE items == PageOf(runs[head], page)
<1>1. pc = "checks" /\ head \in Heads  BY DEF ReadChecks, Bound
<1>2. runs[head] \in Seq(CheckRun) /\ Len(runs[head]) \in Nat
  BY <1>1, LenProperties DEF TypeOK
<1>3. items \in Seq(CheckRun) /\ Len(items) \in Nat
  BY <1>1, PageTaken, LenProperties
<1>4. listed' \subseteq Nat
  <2>1. Range(Ids(runs[head])) \subseteq Nat  BY <1>2, IdsFacts, RangeOfSeq
  <2>. QED  BY <2>1 DEF ReadChecks, TypeOK
<1>5. total' \in Nat  BY <1>2 DEF ReadChecks, TypeOK
<1>6. checks' \in Seq(CheckRun) /\ IsInjective(Ids(checks))'
  <2>1. CASE /\ NoRepeat(Ids(checks), Ids(items))
             /\ checks' = checks \o items
    BY <1>1, <2>1, PageTaken
  <2>2. CASE \E k \in KeptBeforeFailure(Len(items)) :
                /\ NoRepeat(Ids(checks), Ids(FirstOf(items, k)))
                /\ checks' = checks \o FirstOf(items, k)
    <3>1. PICK k \in KeptBeforeFailure(Len(items)) :
             /\ NoRepeat(Ids(checks), Ids(FirstOf(items, k)))
             /\ checks' = checks \o FirstOf(items, k)
      BY <2>2
    <3>2. k \in Nat  BY <1>3 DEF KeptBeforeFailure
    <3>. QED  BY <1>1, <3>1, <3>2, PageTaken
  <2>. QED  BY <2>1, <2>2 DEF ReadChecks
<1>7. /\ page' \in 1 .. PageCeiling
      /\ pc' \in {"checks", "readback"} /\ errors' \subseteq Codes
  <2>1. "CHECK_RUNS_FAILED" \in Codes  BY DEF Codes
  <2>2. ASSUME NEW codes \in SUBSET {"CHECK_RUNS_FAILED"}, GiveUp(codes)
        PROVE  /\ page' = page /\ pc' = "readback" /\ errors' \subseteq Codes
    BY <2>1, <2>2 DEF GiveUp, TypeOK
  <2>3. \/ ~LastPage(items) /\ page' = page + 1 /\ errors' = errors /\ pc' = pc
        \/ \E codes \in SUBSET {"CHECK_RUNS_FAILED"} : GiveUp(codes)
    BY DEF ReadChecks
  <2>4. page \in 1 .. PageCeiling /\ PageCeiling \in Nat
    BY CeilingAssumption DEF TypeOK
  <2>5. ~LastPage(items) => page # PageCeiling  BY DEF LastPage
  <2>. QED  BY <1>1, <2>2, <2>3, <2>4, <2>5 DEF TypeOK
<1>. QED
  BY <1>4, <1>5, <1>6, <1>7 DEF ReadChecks, TypeOK, github, checkRuns

LEMMA TypeStep == TypeOK /\ Numbered /\ Bound /\ [Next]_vars => TypeOK'
<1>. SUFFICES ASSUME TypeOK, Numbered, Bound, [Next]_vars PROVE TypeOK'
  OBVIOUS
<1>1. CASE Environment
  BY <1>1, EnvironmentEffect DEF TypeOK, command, listing
<1>2. CASE ReadPull
  <2>1. pull.head \in Heads /\ pull.base \in Bases  BY DEF TypeOK
  <2>2. FileCount[pull.head][pull.base] \in Nat  BY <2>1, CountAssumption
  <2>3. <<pull.head>> \in Seq(Heads) /\ "COORDINATES_UNAVAILABLE" \in Codes
    BY <2>1 DEF Codes
  <2>4. /\ head' \in Heads \cup {NoSha} /\ count' \in Nat \cup {NoCount}
        /\ read' \in Seq(Heads)
    BY <1>2, <2>1, <2>2, <2>3 DEF ReadPull, TypeOK
  <2>5. errors' \subseteq Codes /\ pc' \in {"checks", "print"}
    BY <1>2, <2>3 DEF ReadPull, TypeOK
  <2>. QED  BY <1>2, <2>4, <2>5 DEF ReadPull, TypeOK, github, checkRuns, listing
<1>3. CASE ReadChecks  BY <1>3, ReadChecksTypeOK
<1>4. CASE ReadBack
  <2>1. pull.head \in Heads /\ head \in Heads
    BY <1>4 DEF TypeOK, Bound, ReadBack
  <2>2. /\ Append(read, pull.head) \in Seq(Heads)
        /\ {"HEAD_READBACK_FAILED", "COORDINATE_DRIFT"} \subseteq Codes
    BY <2>1 DEF TypeOK, Codes
  <2>3. head' \in Heads /\ read' \in Seq(Heads)
    BY <1>4, <2>1, <2>2 DEF ReadBack, Settle, TypeOK
  <2>4. errors' \subseteq Codes /\ pc' = "print"
    BY <1>4, <2>2 DEF ReadBack, Settle, TypeOK
  <2>. QED  BY <1>4, <2>3, <2>4 DEF ReadBack, TypeOK, github, checkRuns, listing
<1>5. CASE PrintLines
  <2>1. lines' \subseteq Lines
    BY <1>5 DEF PrintLines, Differences, Lines
  <2>. QED  BY <1>5, <2>1 DEF PrintLines, TypeOK, github, checkRuns, listing
<1>6. CASE UNCHANGED vars
  BY <1>6 DEF vars, github, checkRuns, command, listing, TypeOK
<1>. QED
  BY <1>1, <1>2, <1>3, <1>4, <1>5, <1>6 DEF Next, Command

-----------------------------------------------------------------------------
(* The inductive invariant *)

IdsOf(set) == {run.id : run \in set}

ListedIds(h) == Range(Ids(runs[h]))

\* The receipt was written while none of its check runs had concluded.  They
\* are listed until one of the head's runs is superseded; from then on one of
\* them is missing, or there are more.
Recorded ==
    /\ \A run \in recorded.checks : ~run.done
    /\ IsFiniteSet(IdsOf(recorded.checks))
    /\ Cardinality(IdsOf(recorded.checks)) <= Len(runs[recorded.head])
    /\ IdsOf(recorded.checks) \subseteq
          1 .. Len(runs[recorded.head]) + superseded[recorded.head]
    /\ IF superseded[recorded.head] = 0
       THEN IdsOf(recorded.checks) \subseteq ListedIds(recorded.head)
       ELSE \/ Cardinality(IdsOf(recorded.checks)) < Len(runs[recorded.head])
            \/ ~(IdsOf(recorded.checks) \subseteq ListedIds(recorded.head))

Untouched ==
    pc = "pull" => /\ head = NoSha /\ count = NoCount
                   /\ checks = <<>> /\ page = 1
                   /\ errors = {} /\ read = <<>>

\* While no run of the head first read is superseded, a check run that was read
\* is still one of them, and has concluded if it was read so.
StillThere ==
    (pc # "pull" /\ read # <<>> /\ superseded[read[1]] = 0) =>
        Grows(checks, runs[read[1]])

\* The listing began with every recorded check run of its head, unless one was
\* gone by then, and so is neither listed nor read.
RecordedListed ==
    read[1] = recorded.head =>
        \/ IdsOf(recorded.checks) \subseteq listed
        \/ ~(IdsOf(recorded.checks) \subseteq
                Range(Ids(checks)) \cup ListedIds(recorded.head))

\* The number pinned by the first page is that of the ids listed then.
Pinned == IsFiniteSet(listed) /\ Cardinality(listed) = total

ChecksSoFar ==
    pc = "checks" => /\ errors = {}
                     /\ page = 1 => checks = <<>>
                     /\ page > 1 => RecordedListed /\ Pinned

ChecksDone ==
    (/\ pc \in {"readback", "print"}
     /\ errors \cap {"CHECK_RUNS_FAILED", "COORDINATES_UNAVAILABLE"} = {}) =>
        Len(checks) = total /\ RecordedListed /\ Pinned

\* A head read back that is not the first one is an error.
Settled ==
    (/\ pc = "print"
     /\ errors \cap {"HEAD_READBACK_FAILED", "COORDINATES_UNAVAILABLE"} = {}) =>
        \E h \in Heads : /\ read = <<h, head>> /\ head \in Heads
                         /\ h = head <=> "COORDINATE_DRIFT" \notin errors

\* What was printed: nothing yet, or what the properties say of it.
Printed ==
    /\ pc # "done" => lines = {}
    /\ NoDifferenceIsTrue
    /\ DifferencesAreReal

Facts ==
    /\ Numbered /\ Recorded /\ Untouched /\ Bound /\ StillThere /\ ChecksSoFar
    /\ ChecksDone /\ Settled /\ Printed

IInv == TypeOK /\ Facts

LEMMA IdsOfRange ==
    ASSUME NEW list \in Seq(CheckRun)
    PROVE  IdsOf(Range(list)) = Range(Ids(list))
<1>1. Range(list) = {list[i] : i \in 1 .. Len(list)}
  BY RangeEquality
<1>2. DOMAIN Ids(list) = 1 .. Len(list)
  BY IdsFacts
<1>3. \A i \in 1 .. Len(list) : Ids(list)[i] = list[i].id
  BY IdsFacts
<1>. QED  BY <1>1, <1>2, <1>3 DEF IdsOf, Range

LEMMA CountedIds ==
    ASSUME NEW list \in Seq(CheckRun), IsInjective(Ids(list))
    PROVE  /\ IsFiniteSet(Range(Ids(list)))
           /\ Cardinality(Range(Ids(list))) = Len(list)
<1>1. Ids(list) \in Seq(Nat) /\ Len(Ids(list)) = Len(list)  BY IdsFacts
<1>. QED  BY <1>1, CountedRange

LEMMA InitRecorded == Init => Recorded
<1>. SUFFICES ASSUME Init PROVE Recorded  OBVIOUS
<1>1. pull.head \in Heads  BY DEF Init
<1>2. PICK k \in 0 .. Len(runs[pull.head]) :
         recorded = [head |-> pull.head,
                     count |-> FileCount[pull.head][pull.base],
                     checks |-> Range(FirstOf(runs[pull.head], k))]
  BY DEF Init
<1>. DEFINE list == runs[pull.head]
            first == FirstOf(list, k)
<1>3. /\ list \in Seq(CheckRun) /\ Len(list) \in Nat
      /\ superseded[pull.head] = 0 /\ NumberedTo(list, 0)
      /\ \A i \in 1 .. Len(list) : ~list[i].done
  <2>1. runs[pull.head] \in Seq(CheckRun)  BY <1>1, InitRuns
  <2>. QED  BY <1>1, <2>1, InitRuns, LenProperties
<1>4. recorded.head = pull.head /\ recorded.checks = Range(first)
  BY <1>2
<1>5. k \in Nat /\ k <= Len(list)  BY <1>3
<1>. HIDE DEF list
<1>6. /\ first \in Seq(CheckRun) /\ Len(first) = Smaller(k, Len(list))
      /\ \A i \in 1 .. Len(first) : first[i] = list[i]
  BY <1>3, <1>5, FirstOfFacts
<1>7. Len(first) \in Nat /\ Len(first) <= Len(list)
  BY <1>3, <1>5, <1>6 DEF Smaller
<1>. HIDE DEF first
<1>8. \A i \in 1 .. Len(first) : i \in 1 .. Len(list)  BY <1>3, <1>7
<1>9. \A run \in recorded.checks : ~run.done
  <2>. TAKE run \in recorded.checks
  <2>1. PICK i \in 1 .. Len(first) : run = first[i]
    BY <1>4, <1>6, RangeEquality
  <2>. QED  BY <1>3, <1>6, <1>8, <2>1
<1>10. IdsOf(recorded.checks) = Range(Ids(first))
  BY <1>4, <1>6, IdsOfRange
<1>11. Range(Ids(first)) \subseteq Range(Ids(list))
  <2>1. \A i \in 1 .. Len(first) :
           /\ Ids(first)[i] = list[i].id /\ i \in DOMAIN Ids(list)
           /\ Ids(list)[i] = list[i].id
    BY <1>3, <1>6, <1>8, IdsFacts
  <2>2. DOMAIN Ids(first) = 1 .. Len(first)  BY <1>6, IdsFacts
  <2>. QED  BY <2>1, <2>2 DEF Range
<1>12. /\ IsFiniteSet(Range(Ids(list)))
       /\ Cardinality(Range(Ids(list))) = Len(list)
  BY <1>3, CountedIds DEF NumberedTo
<1>13. /\ IsFiniteSet(Range(Ids(first)))
       /\ Cardinality(Range(Ids(first))) <= Len(list)
  BY <1>11, <1>12, FS_Subset
<1>14. Range(Ids(first)) \subseteq 1 .. Len(list) + 0
  BY <1>3, <1>11 DEF NumberedTo
<1>15. /\ list = runs[recorded.head] /\ superseded[recorded.head] = 0
       /\ ListedIds(recorded.head) = Range(Ids(list))
  BY <1>3, <1>4 DEF list, ListedIds
<1>. QED
  BY <1>9, <1>10, <1>11, <1>13, <1>14, <1>15 DEF Recorded

LEMMA InitFacts == Init => Facts
<1>. SUFFICES ASSUME Init PROVE Facts  OBVIOUS
<1>1. Numbered  BY InitRuns DEF Numbered
<1>2. Recorded  BY InitRecorded
<1>3. Untouched /\ Bound /\ StillThere /\ ChecksSoFar /\ ChecksDone /\ Settled
  BY DEF Init, Untouched, Bound, StillThere, ChecksSoFar, ChecksDone, Settled
<1>4. Printed
  BY DEF Init, Printed, NoDifferenceIsTrue, DifferencesAreReal
<1>. QED  BY <1>1, <1>2, <1>3, <1>4 DEF Facts

LEMMA GrowsFurther ==
    ASSUME NEW one, NEW two, NEW three, Grows(one, two), Grows(two, three)
    PROVE  Grows(one, three)
<1>1. ASSUME NEW i \in 1 .. Len(one)
      PROVE  \E j \in 1 .. Len(three) :
                one[i].id = three[j].id /\ (one[i].done => three[j].done)
  <2>1. PICK j \in 1 .. Len(two) :
           one[i].id = two[j].id /\ (one[i].done => two[j].done)
    BY DEF Grows
  <2>2. PICK m \in 1 .. Len(three) :
           two[j].id = three[m].id /\ (two[j].done => three[m].done)
    BY DEF Grows
  <2>. QED  BY <2>1, <2>2
<1>. QED  BY <1>1 DEF Grows

\* A recorded run that is superseded is never listed again.
LEMMA EnvironmentRecorded == IInv /\ Environment => Recorded'
<1>. SUFFICES ASSUME IInv, Environment PROVE Recorded'  OBVIOUS
<1>. DEFINE rec == IdsOf(recorded.checks)
            list == runs[recorded.head]
            later == runs'[recorded.head]
            old == superseded[recorded.head]
            new == superseded'[recorded.head]
            before == Range(Ids(list))
            after == Range(Ids(later))
<1>0. TypeOK /\ Numbered /\ Recorded /\ recorded.head \in Heads
  BY DEF IInv, TypeOK, Facts
<1>1. /\ recorded' = recorded /\ Changes(list, later, old, new)
      /\ new \in Nat
  BY <1>0, EnvironmentEffect DEF command
<1>2. /\ list \in Seq(CheckRun) /\ later \in Seq(CheckRun)
      /\ NumberedTo(list, old) /\ old \in Nat
  BY <1>0, <1>1 DEF TypeOK, Numbered, Changes
<1>3. /\ \A run \in recorded.checks : ~run.done
      /\ IsFiniteSet(rec) /\ Cardinality(rec) <= Len(list)
      /\ rec \subseteq 1 .. Len(list) + old
      /\ IF old = 0 THEN rec \subseteq before
                    ELSE Cardinality(rec) < Len(list) \/ ~(rec \subseteq before)
  BY <1>0 DEF Recorded, ListedIds
<1>. HIDE DEF rec, list, later, old, new, before, after
<1>4. /\ Len(list) \in Nat /\ Len(later) \in Nat /\ Cardinality(rec) \in Nat
      /\ IsFiniteSet(before) /\ Cardinality(before) = Len(list)
  BY <1>2, <1>3, LenProperties, CountedIds, FS_CardinalityType
     DEF NumberedTo, before
<1>5. /\ Len(list) <= Len(later) /\ old <= new
      /\ after \subseteq before \cup {Len(list) + old + 1}
      /\ old # new => \E id \in before : id \notin after
      /\ old = new => Grows(list, later)
  BY <1>1 DEF Changes, before, after
<1>6. Cardinality(rec) <= Len(later)  BY <1>3, <1>4, <1>5
<1>7. rec \subseteq 1 .. Len(later) + new
  <2>1. \A a, b, c, d \in Nat :
           a <= b /\ c <= d => 1 .. a + c \subseteq 1 .. b + d
    OBVIOUS
  <2>. QED  BY <1>1, <1>2, <1>3, <1>4, <1>5, <2>1
<1>8. rec \cap after \subseteq before
  <2>1. Len(list) + old + 1 \notin rec  BY <1>2, <1>3, <1>4
  <2>. QED  BY <1>5, <2>1
<1>9. IF new = 0 THEN rec \subseteq after
                 ELSE Cardinality(rec) < Len(later) \/ ~(rec \subseteq after)
  <2>1. CASE old = new /\ new = 0
    <3>1. before \subseteq after
      <4>1. ASSUME NEW id \in before PROVE id \in after
        <5>1. PICK i \in 1 .. Len(list) : id = list[i].id
          BY <1>2, <4>1, IdsFacts DEF before, Range
        <5>2. PICK j \in 1 .. Len(later) : list[i].id = later[j].id
          BY <1>5, <2>1 DEF Grows
        <5>3. j \in DOMAIN Ids(later) /\ Ids(later)[j] = id
          BY <1>2, <5>1, <5>2, IdsFacts
        <5>. QED  BY <5>3 DEF after, Range
      <4>. QED  BY <4>1
    <3>. QED  BY <1>3, <2>1, <3>1
  <2>2. CASE old = new /\ new # 0
    BY <1>3, <1>4, <1>5, <1>8, <2>2
  <2>3. CASE old # new
    <3>1. PICK id \in before : id \notin after  BY <1>5, <2>3
    <3>2. new # 0  BY <1>1, <1>2, <1>5, <2>3
    <3>3. ASSUME rec \subseteq after PROVE Cardinality(rec) < Len(later)
      <4>1. rec \subseteq before \ {id}  BY <1>8, <3>1, <3>3
      <4>2. /\ IsFiniteSet(before \ {id})
            /\ Cardinality(before \ {id}) = Len(list) - 1
        BY <1>4, FS_RemoveElement
      <4>3. Cardinality(rec) <= Cardinality(before \ {id})
        BY <4>1, <4>2, FS_Subset
      <4>. QED  BY <1>4, <1>5, <4>2, <4>3
    <3>. QED  BY <3>2, <3>3
  <2>. QED  BY <2>1, <2>2, <2>3
<1>10. /\ recorded.head' = recorded.head
       /\ IdsOf(recorded.checks)' = rec
       /\ runs[recorded.head]' = later /\ superseded[recorded.head]' = new
       /\ ListedIds(recorded.head)' = after
  BY <1>1 DEF rec, later, new, after, ListedIds, IdsOf
<1>. QED
  BY <1>1, <1>3, <1>6, <1>7, <1>9, <1>10 DEF Recorded

LEMMA EnvironmentFacts == IInv /\ Environment => Facts'
<1>. SUFFICES ASSUME IInv, Environment PROVE Facts'  OBVIOUS
<1>0. /\ TypeOK /\ Facts /\ Numbered /\ Recorded
      /\ recorded.head \in Heads /\ superseded \in [Heads -> Nat]
  BY DEF IInv, TypeOK, Facts
<1>1. /\ UNCHANGED command /\ Reading
      /\ superseded' \in [Heads -> Nat]
      /\ \A h \in Heads :
            Changes(runs[h], runs'[h], superseded[h], superseded'[h])
  BY <1>0, EnvironmentEffect
<1>2. UNCHANGED <<recorded, pc, head, count, page, checks, total, errors,
                  lines, read, listed>>
  BY <1>1 DEF command, listing
<1>3. pc \in {"pull", "checks", "readback"}  BY <1>1 DEF Reading
<1>4. Numbered'
  BY <1>1 DEF Numbered, NumberedTo, Changes
<1>5. Recorded'  BY EnvironmentRecorded
<1>6. StillThere'
  <2>. SUFFICES ASSUME pc # "pull", superseded'[read[1]] = 0
                PROVE  Grows(checks, runs'[read[1]])
    BY <1>2 DEF StillThere
  <2>1. read[1] \in Heads /\ read # <<>>
    BY <1>0, <1>3 DEF Facts, Bound
  <2>2. /\ superseded[read[1]] <= superseded'[read[1]]
        /\ superseded[read[1]] = superseded'[read[1]] =>
              Grows(runs[read[1]], runs'[read[1]])
    BY <1>1, <2>1 DEF Changes
  <2>3. superseded[read[1]] = 0  BY <1>0, <2>1, <2>2
  <2>4. Grows(checks, runs[read[1]])
    BY <1>0, <2>1, <2>3 DEF Facts, StillThere
  <2>5. Grows(runs[read[1]], runs'[read[1]])  BY <2>2, <2>3
  <2>. QED  BY <2>4, <2>5, GrowsFurther
<1>7. RecordedListed => RecordedListed'
  <2>. DEFINE rec == IdsOf(recorded.checks)
              got == Range(Ids(checks))
              before == Range(Ids(runs[recorded.head]))
              after == Range(Ids(runs'[recorded.head]))
              n == Len(runs[recorded.head]) + superseded[recorded.head]
  <2>1. rec \subseteq 1 .. n  BY <1>0 DEF Recorded
  <2>2. after \subseteq before \cup {n + 1}
    BY <1>0, <1>1 DEF Changes
  <2>3. n \in Nat
    <3>1. runs[recorded.head] \in Seq(CheckRun)  BY <1>0 DEF TypeOK
    <3>. QED  BY <1>0, <3>1, LenProperties
  <2>4. /\ RecordedListed <=>
              (read[1] = recorded.head =>
                  rec \subseteq listed \/ ~(rec \subseteq got \cup before))
        /\ RecordedListed' <=>
              (read[1] = recorded.head =>
                  rec \subseteq listed \/ ~(rec \subseteq got \cup after))
    BY <1>2 DEF RecordedListed, ListedIds, IdsOf, Ids
  <2>. HIDE DEF rec, got, before, after, n
  <2>5. n + 1 \notin rec  BY <2>1, <2>3
  <2>. QED  BY <2>2, <2>4, <2>5
<1>8. ChecksSoFar' /\ ChecksDone'
  BY <1>0, <1>2, <1>7 DEF Facts, ChecksSoFar, ChecksDone, Pinned
<1>9. Untouched' /\ Bound' /\ Settled'
  BY <1>0, <1>2, <1>3 DEF Facts, Untouched, Bound, Settled
<1>10. Printed'
  BY <1>0, <1>2, <1>3
  DEF Facts, Printed, NoDifferenceIsTrue, DifferencesAreReal
<1>. QED  BY <1>4, <1>5, <1>6, <1>8, <1>9, <1>10 DEF Facts

LEMMA ReadPullFacts == IInv /\ ReadPull => Facts'
<1>. SUFFICES ASSUME IInv, ReadPull PROVE Facts'  OBVIOUS
<1>1. /\ pc = "pull" /\ pc' \in {"checks", "print"}
      /\ UNCHANGED <<runs, superseded, recorded, page, checks, total, lines,
                     listed>>
      /\ pull.head \in Heads /\ checks = <<>> /\ page = 1
      /\ errors = {} /\ lines = {}
  BY DEF ReadPull, github, checkRuns, listing, IInv, TypeOK, Facts, Untouched,
         Printed
<1>2. Numbered' /\ Recorded'
  BY <1>1 DEF IInv, Facts, Numbered, Recorded, ListedIds
<1>3. StillThere'
  BY <1>1, EmptySeq DEF StillThere, Grows
<1>4. CASE pc' = "checks"
  <2>1. head' = pull.head /\ read' = <<pull.head>> /\ errors' = {}
    BY <1>1, <1>4 DEF ReadPull
  <2>. QED
    BY <1>1, <1>2, <1>3, <1>4, <2>1
    DEF Facts, Untouched, Bound, ChecksSoFar, ChecksDone, Settled, Printed,
        NoDifferenceIsTrue, DifferencesAreReal
<1>5. CASE pc' = "print"
  <2>1. errors' = {"COORDINATES_UNAVAILABLE"}  BY <1>5 DEF ReadPull
  <2>. QED
    BY <1>1, <1>2, <1>3, <1>5, <2>1
    DEF Facts, Untouched, Bound, ChecksSoFar, ChecksDone, Settled, Printed,
        NoDifferenceIsTrue, DifferencesAreReal
<1>. QED  BY <1>1, <1>4, <1>5

\* What a page adds are check runs of the head first read.
LEMMA PageAdds ==
    ASSUME IInv, ReadChecks
    PROVE  \E more \in Seq(CheckRun) :
              /\ checks' = checks \o more
              /\ \A i \in 1 .. Len(more) :
                    \E j \in 1 .. Len(runs[head]) : more[i] = runs[head][j]
<1>. DEFINE list == runs[head]
            items == PageOf(list, page)
<1>1. list \in Seq(CheckRun) /\ page \in Nat \ {0}
  BY CeilingAssumption DEF IInv, TypeOK, Facts, Bound, ReadChecks
<1>. HIDE DEF list
<1>2. items \in Seq(CheckRun) /\ Len(items) \in Nat
  BY <1>1, PageOfFacts, LenProperties
<1>3. \A i \in 1 .. Len(items) : \E j \in 1 .. Len(list) : items[i] = list[j]
  BY <1>1, PageIsPart
<1>4. CASE checks' = checks \o items
  BY <1>2, <1>3, <1>4 DEF list
<1>5. CASE \E k \in KeptBeforeFailure(Len(items)) :
              checks' = checks \o FirstOf(items, k)
  <2>1. PICK k \in KeptBeforeFailure(Len(items)) :
           checks' = checks \o FirstOf(items, k)
    BY <1>5
  <2>2. k \in Nat  BY <1>2 DEF KeptBeforeFailure
  <2>. DEFINE more == FirstOf(items, k)
  <2>. HIDE DEF items
  <2>3. /\ more \in Seq(CheckRun) /\ Len(more) = Smaller(k, Len(items))
        /\ \A i \in 1 .. Len(more) : more[i] = items[i]
    BY <1>2, <2>2, FirstOfFacts
  <2>. HIDE DEF more
  <2>4. ASSUME NEW i \in 1 .. Len(more)
        PROVE  \E j \in 1 .. Len(list) : more[i] = list[j]
    <3>1. i \in 1 .. Len(items)  BY <1>2, <2>2, <2>3 DEF Smaller
    <3>. QED  BY <1>3, <2>3, <3>1
  <2>5. checks' = checks \o more  BY <2>1 DEF more
  <2>. QED  BY <2>3, <2>4, <2>5 DEF list
<1>. QED  BY <1>4, <1>5 DEF ReadChecks, items, list

LEMMA Taken ==
    ASSUME NEW got \in Seq(CheckRun), NEW more \in Seq(CheckRun),
           NEW list \in Seq(CheckRun),
           \A i \in 1 .. Len(more) : \E j \in 1 .. Len(list) : more[i] = list[j]
    PROVE  /\ Grows(got, list) => Grows(got \o more, list)
           /\ Range(Ids(got \o more)) \subseteq
                 Range(Ids(got)) \cup Range(Ids(list))
<1>1. /\ Len(got) \in Nat /\ Len(more) \in Nat
      /\ Len(got \o more) = Len(got) + Len(more)
      /\ \A i \in 1 .. Len(got) + Len(more) : (got \o more)[i] =
            IF i <= Len(got) THEN got[i] ELSE more[i - Len(got)]
  BY ConcatProperties, LenProperties
<1>2. ASSUME Grows(got, list), NEW i \in 1 .. Len(got \o more)
      PROVE  \E j \in 1 .. Len(list) :
                /\ (got \o more)[i].id = list[j].id
                /\ (got \o more)[i].done => list[j].done
  <2>1. CASE i <= Len(got)
    <3>1. i \in 1 .. Len(got) /\ (got \o more)[i] = got[i]  BY <1>1, <2>1
    <3>. QED  BY <1>2, <3>1 DEF Grows
  <2>2. CASE ~(i <= Len(got))
    <3>1. /\ i - Len(got) \in 1 .. Len(more)
          /\ (got \o more)[i] = more[i - Len(got)]
      BY <1>1, <2>2
    <3>2. PICK j \in 1 .. Len(list) : more[i - Len(got)] = list[j]
      BY <3>1
    <3>. QED  BY <3>1, <3>2
  <2>. QED  BY <2>1, <2>2
<1>3. Range(Ids(more)) \subseteq Range(Ids(list))
  <2>1. ASSUME NEW id \in Range(Ids(more)) PROVE id \in Range(Ids(list))
    <3>1. PICK i \in 1 .. Len(more) : id = more[i].id
      <4>1. /\ DOMAIN Ids(more) = 1 .. Len(more)
            /\ \A i \in 1 .. Len(more) : Ids(more)[i] = more[i].id
        BY IdsFacts
      <4>2. PICK i \in DOMAIN Ids(more) : id = Ids(more)[i]
        BY <2>1 DEF Range
      <4>. QED  BY <4>1, <4>2
    <3>2. PICK j \in 1 .. Len(list) : more[i] = list[j]  BY <3>1
    <3>3. j \in DOMAIN Ids(list) /\ Ids(list)[j] = id
      BY <3>1, <3>2, IdsFacts
    <3>. QED  BY <3>3 DEF Range
  <2>. QED  BY <2>1
<1>4. Ids(got) \in Seq(Nat) /\ Ids(more) \in Seq(Nat)  BY IdsFacts
<1>5. Range(Ids(got \o more)) = Range(Ids(got)) \cup Range(Ids(more))
  <2>1. Ids(got \o more) = Ids(got) \o Ids(more)  BY IdsOfConcat
  <2>2. Range(Ids(got) \o Ids(more)) = Range(Ids(got)) \cup Range(Ids(more))
    BY <1>4, RangeConcatenation
  <2>. QED  BY <2>1, <2>2
<1>. QED  BY <1>2, <1>3, <1>5 DEF Grows

LEMMA ReadChecksAdds ==
    ASSUME IInv, ReadChecks
    PROVE  /\ StillThere'
           /\ Range(Ids(checks')) \subseteq Range(Ids(checks)) \cup ListedIds(head)
<1>1. /\ Facts /\ pc = "checks" /\ head \in Heads /\ read = <<head>>
      /\ UNCHANGED <<runs, superseded, read>>
      /\ checks \in Seq(CheckRun) /\ runs[head] \in Seq(CheckRun)
  BY DEF IInv, TypeOK, Facts, Bound, ReadChecks, github, checkRuns
<1>2. PICK more \in Seq(CheckRun) :
         /\ checks' = checks \o more
         /\ \A i \in 1 .. Len(more) :
               \E j \in 1 .. Len(runs[head]) : more[i] = runs[head][j]
  BY PageAdds
<1>3. /\ Grows(checks, runs[head]) => Grows(checks', runs[head])
      /\ Range(Ids(checks')) \subseteq
            Range(Ids(checks)) \cup Range(Ids(runs[head]))
  <2>. DEFINE list == runs[head]
  <2>1. /\ list \in Seq(CheckRun)
        /\ \A i \in 1 .. Len(more) : \E j \in 1 .. Len(list) : more[i] = list[j]
    BY <1>1, <1>2
  <2>. HIDE DEF list
  <2>2. /\ Grows(checks, list) => Grows(checks \o more, list)
        /\ Range(Ids(checks \o more)) \subseteq
              Range(Ids(checks)) \cup Range(Ids(list))
    BY <1>1, <2>1, Taken
  <2>. QED  BY <1>2, <2>2 DEF list
<1>4. read[1] = head /\ read # <<>>  BY <1>1
<1>5. StillThere'
  BY <1>1, <1>3, <1>4 DEF Facts, StillThere
<1>. QED  BY <1>3, <1>5 DEF ListedIds

\* What the properties need of a page that is answered: what was listed first
\* is known, and so is its number.
LEMMA PageAnswered ==
    ASSUME IInv, ReadChecks,
           total' = IF page = 1 THEN Len(runs[head]) ELSE total
    PROVE  RecordedListed' /\ Pinned'
<1>1. /\ Facts /\ pc = "checks" /\ head \in Heads /\ read = <<head>>
      /\ page \in Nat \ {0} /\ checks \in Seq(CheckRun)
      /\ UNCHANGED <<runs, superseded, recorded, read>>
      /\ runs[head] \in Seq(CheckRun) /\ NumberedTo(runs[head], superseded[head])
  BY CeilingAssumption
  DEF IInv, TypeOK, Facts, Bound, Numbered, ReadChecks, github, checkRuns
<1>2. Range(Ids(checks')) \subseteq Range(Ids(checks)) \cup ListedIds(head)
  BY ReadChecksAdds
<1>3. read[1] = head /\ read'[1] = head  BY <1>1
<1>4. /\ ListedIds(recorded.head)' = ListedIds(recorded.head)
      /\ IdsOf(recorded.checks)' = IdsOf(recorded.checks)
      /\ Range(Ids(checks))' = Range(Ids(checks'))
  BY <1>1 DEF ListedIds, IdsOf, Ids
<1>5. CASE page = 1
  <2>1. listed' = ListedIds(head) /\ total' = Len(runs[head])
    BY <1>5 DEF ReadChecks, ListedIds
  <2>2. Range(Ids(checks)) = {}
    <3>1. checks = <<>> /\ Len(checks) = 0
      BY <1>1, <1>5, EmptySeq DEF Facts, ChecksSoFar
    <3>2. DOMAIN Ids(checks) = 1 .. 0  BY <1>1, <3>1, IdsFacts
    <3>. QED  BY <3>2 DEF Range
  <2>3. Pinned'  BY <1>1, <2>1, CountedIds DEF Pinned, ListedIds, NumberedTo
  <2>4. RecordedListed'
    BY <1>2, <1>3, <1>4, <1>1, <2>1, <2>2 DEF RecordedListed
  <2>. QED  BY <2>3, <2>4
<1>6. CASE page # 1
  <2>1. listed' = listed /\ total' = total  BY <1>6 DEF ReadChecks
  <2>2. page > 1  BY <1>1, <1>6
  <2>3. RecordedListed /\ Pinned  BY <1>1, <2>2 DEF Facts, ChecksSoFar
  <2>4. RecordedListed'
    BY <1>1, <1>2, <1>3, <1>4, <2>1, <2>3 DEF RecordedListed
  <2>. QED  BY <2>1, <2>3, <2>4 DEF Pinned
<1>. QED  BY <1>5, <1>6

LEMMA ReadChecksFacts == IInv /\ ReadChecks => Facts'
<1>. SUFFICES ASSUME IInv, ReadChecks PROVE Facts'  OBVIOUS
<1>. DEFINE list == runs[head]
            items == PageOf(list, page)
<1>1. /\ Facts /\ pc = "checks" /\ head \in Heads /\ read = <<head>>
      /\ errors = {} /\ lines = {} /\ page \in Nat \ {0}
      /\ UNCHANGED <<runs, superseded, recorded, head, lines, read>>
  BY CeilingAssumption
  DEF IInv, TypeOK, Facts, Bound, ChecksSoFar, Printed, ReadChecks, github,
      checkRuns
<1>2. Numbered' /\ Recorded' /\ StillThere'
  <2>1. Numbered' /\ Recorded'
    BY <1>1 DEF Facts, Numbered, Recorded, ListedIds
  <2>. QED  BY <2>1, ReadChecksAdds
<1>3. CASE /\ total' = IF page = 1 THEN Len(list) ELSE total
           /\ IF LastPage(items)
              THEN GiveUp(IF Len(checks') = total'
                          THEN {} ELSE {"CHECK_RUNS_FAILED"})
              ELSE page' = page + 1 /\ UNCHANGED <<errors, pc>>
  <2>1. RecordedListed' /\ Pinned'  BY <1>3, PageAnswered
  <2>2. CASE LastPage(items)
    <3>1. /\ pc' = "readback"
          /\ errors' = IF Len(checks') = total'
                       THEN {} ELSE {"CHECK_RUNS_FAILED"}
      BY <1>1, <1>3, <2>2 DEF GiveUp
    <3>2. ChecksDone'  BY <2>1, <3>1 DEF ChecksDone
    <3>3. Bound' /\ Printed'
      <4>1. errors' \subseteq {"CHECK_RUNS_FAILED"}  BY <3>1
      <4>. QED
        BY <1>1, <3>1, <4>1
        DEF Bound, Printed, NoDifferenceIsTrue, DifferencesAreReal
    <3>. QED
      BY <1>2, <3>1, <3>2, <3>3 DEF Facts, Untouched, ChecksSoFar, Settled
  <2>3. CASE ~LastPage(items)
    <3>1. page' = page + 1 /\ errors' = {} /\ pc' = "checks"
      BY <1>1, <1>3, <2>3
    <3>2. page' # 1  BY <1>1, <3>1
    <3>3. ChecksSoFar'  BY <2>1, <3>1, <3>2 DEF ChecksSoFar
    <3>4. Bound' /\ Printed'
      BY <1>1, <3>1
      DEF Bound, Printed, NoDifferenceIsTrue, DifferencesAreReal
    <3>. QED
      BY <1>2, <3>1, <3>3, <3>4 DEF Facts, Untouched, ChecksDone, Settled
  <2>. QED  BY <2>2, <2>3
<1>4. CASE GiveUp({"CHECK_RUNS_FAILED"})
  <2>1. errors' = {"CHECK_RUNS_FAILED"} /\ pc' = "readback" /\ page' = page
    BY <1>1, <1>4 DEF GiveUp
  <2>2. Bound' /\ Printed'
    BY <1>1, <2>1
    DEF Bound, Printed, NoDifferenceIsTrue, DifferencesAreReal
  <2>. QED
    BY <1>2, <2>1, <2>2 DEF Facts, Untouched, ChecksSoFar, ChecksDone, Settled
<1>. QED  BY <1>3, <1>4 DEF ReadChecks

LEMMA AppendIsPair ==
    ASSUME NEW S, NEW b \in S, NEW one \in Seq(S), NEW two \in Seq(S),
           Len(one) = 1, Len(two) = 2, two[1] = one[1], two[2] = b
    PROVE  Append(one, b) = two
<1>1. Append(one, b) \in Seq(S) /\ Len(Append(one, b)) = 2
  <2>1. Append(one, b) \in Seq(S)  BY AppendProperties
  <2>2. Len(Append(one, b)) = Len(one) + 1  BY AppendProperties
  <2>. QED  BY <2>1, <2>2
<1>2. Append(one, b)[1] = two[1]
  BY AppendProperties
<1>3. Append(one, b)[2] = two[2]
  <2>1. Append(one, b)[Len(one) + 1] = b  BY AppendProperties
  <2>. QED  BY <2>1
<1>. DEFINE more == Append(one, b)
<1>4. more \in Seq(S) /\ Len(more) = 2 /\ more[1] = two[1] /\ more[2] = two[2]
  BY <1>1, <1>2, <1>3
<1>. HIDE DEF more
<1>5. \A i \in 1 .. 2 : more[i] = two[i]
  BY <1>4
<1>6. more = two
  BY <1>4, <1>5, SeqEqual
<1>. QED  BY <1>6 DEF more

LEMMA AppendedToOne ==
    ASSUME NEW S, NEW a \in S, NEW b \in S
    PROVE  Append(<<a>>, b) = <<a, b>>
<1>1. /\ <<a>> \in Seq(S) /\ Len(<<a>>) = 1
      /\ <<a, b>> \in Seq(S) /\ Len(<<a, b>>) = 2
      /\ <<a, b>>[1] = <<a>>[1] /\ <<a, b>>[2] = b
  OBVIOUS
<1>. QED  BY <1>1, AppendIsPair

LEMMA ReadBackFacts == IInv /\ ReadBack => Facts'
<1>. SUFFICES ASSUME IInv, ReadBack PROVE Facts'  OBVIOUS
<1>1. /\ Facts /\ pc = "readback" /\ pc' = "print" /\ lines = {}
      /\ head \in Heads /\ read = <<head>> /\ pull.head \in Heads
      /\ errors \subseteq {"CHECK_RUNS_FAILED"}
      /\ UNCHANGED <<runs, superseded, recorded, page, checks, total, lines,
                     listed>>
  BY DEF IInv, TypeOK, Facts, Bound, Printed, ReadBack, github, checkRuns,
         listing
<1>2. /\ read' \in {<<head>>, <<head, pull.head>>}
      /\ read'[1] = read[1] /\ read # <<>>
      /\ errors \subseteq errors'
  BY <1>1 DEF ReadBack, Settle
<1>3. Numbered' /\ Recorded' /\ StillThere'
  BY <1>1, <1>2 DEF Facts, Numbered, Recorded, StillThere, ListedIds
<1>4. ChecksDone'
  BY <1>1, <1>2 DEF Facts, ChecksDone, RecordedListed, ListedIds, Pinned
<1>5. Settled'
  <2>1. CASE errors' = errors \cup {"HEAD_READBACK_FAILED"}
    BY <2>1 DEF Settled
  <2>2. CASE Settle(pull.head) /\ read' = Append(read, pull.head)
    <3>1. read' = <<head, head'>> /\ head' \in Heads
      <4>1. Append(<<head>>, pull.head) = <<head, pull.head>>
        BY <1>1, AppendedToOne
      <4>2. head' = pull.head  BY <2>2 DEF Settle
      <4>. QED  BY <1>1, <2>2, <4>1, <4>2
    <3>2. head = head' <=> "COORDINATE_DRIFT" \notin errors'
      BY <1>1, <2>2 DEF Settle
    <3>. QED  BY <1>1, <3>1, <3>2 DEF Settled
  <2>. QED  BY <2>1, <2>2 DEF ReadBack
<1>6. Untouched' /\ Bound' /\ ChecksSoFar' /\ Printed'
  BY <1>1
  DEF Untouched, Bound, ChecksSoFar, Printed, NoDifferenceIsTrue,
      DifferencesAreReal
<1>. QED  BY <1>3, <1>4, <1>5, <1>6 DEF Facts

-----------------------------------------------------------------------------
(* What is printed *)

LEMMA PendingRun ==
    ASSUME NEW run \in CheckRun, ~run.done
    PROVE  run = [id |-> run.id, done |-> FALSE]
<1>1. run = [id |-> run.id, done |-> run.done] /\ run.done \in BOOLEAN
  BY DEF CheckRun
<1>. QED  BY <1>1

\* Nothing failed and the head was the recorded one at both reads.
Unmoved ==
    /\ errors \subseteq {"COORDINATE_DRIFT"}
    /\ "COORDINATE_DRIFT" \notin Differences
    /\ "HEAD_MOVED" \notin Differences

LEMMA UnmovedFacts ==
    ASSUME IInv, pc = "print", Unmoved
    PROVE  /\ errors = {} /\ read = <<recorded.head, recorded.head>>
           /\ RecordedListed
           /\ IsFiniteSet(listed)
           /\ IsFiniteSet(Range(Ids(checks)))
           /\ Cardinality(Range(Ids(checks))) = Cardinality(listed)
<1>1. errors = {}
  BY DEF Unmoved, Differences
<1>2. Facts  BY DEF IInv
<1>3. PICK h \in Heads : read = <<h, head>> /\ head \in Heads /\ h = head
  BY <1>1, <1>2 DEF Facts, Settled
<1>4. head = recorded.head
  BY <1>3, NoneAssumption DEF Unmoved, Differences
<1>5. Len(checks) = total /\ RecordedListed /\ Pinned
  BY <1>1, <1>2 DEF Facts, ChecksDone
<1>6. /\ IsFiniteSet(Range(Ids(checks)))
      /\ Cardinality(Range(Ids(checks))) = Len(checks)
  BY CountedIds DEF IInv, TypeOK
<1>. QED
  BY <1>1, <1>3, <1>4, <1>5, <1>6 DEF Pinned

\* If what was received are the recorded check runs, they are all that were
\* listed at first: none of them is missing then, and they are as many.
LEMMA ReceivedAreListed ==
    ASSUME IInv, pc = "print", Unmoved, Range(checks) = recorded.checks
    PROVE  IdsOf(recorded.checks) = listed
<1>1. IdsOf(recorded.checks) = Range(Ids(checks))
  BY IdsOfRange DEF IInv, TypeOK
<1>2. read[1] = recorded.head
  <2>1. read = <<recorded.head, recorded.head>>  BY UnmovedFacts
  <2>. QED  BY <2>1
<1>3. IdsOf(recorded.checks) \subseteq listed
  <2>1. RecordedListed  BY UnmovedFacts
  <2>. QED  BY <1>1, <1>2, <2>1 DEF RecordedListed
<1>. QED  BY <1>1, <1>3, UnmovedFacts, FS_Subset

\* Check runs that are still the recorded ones were received as they are: had
\* one been superseded, one of them would be gone or another would have come.
LEMMA SameChecks ==
    ASSUME IInv, pc = "print", Unmoved,
           Range(runs[recorded.head]) = recorded.checks
    PROVE  Range(checks) = recorded.checks
<1>. DEFINE list == runs[recorded.head]
            rec == IdsOf(recorded.checks)
            got == Range(Ids(checks))
<1>1. /\ Facts /\ checks \in Seq(CheckRun) /\ list \in Seq(CheckRun)
      /\ recorded.checks \subseteq CheckRun /\ recorded.head \in Heads
      /\ \A run \in recorded.checks : ~run.done
      /\ IsFiniteSet(rec)
      /\ IsInjective(Ids(list))
  BY DEF IInv, TypeOK, Facts, Recorded, Numbered, NumberedTo
<1>2. read = <<recorded.head, recorded.head>>  BY UnmovedFacts
<1>3. read[1] = recorded.head /\ read # <<>>  BY <1>2
<1>4. rec = ListedIds(recorded.head)
  BY <1>1, IdsOfRange DEF ListedIds
<1>5. Cardinality(rec) = Len(list) /\ Len(list) \in Nat
  BY <1>1, <1>4, CountedIds, LenProperties DEF ListedIds
<1>6. superseded[recorded.head] = 0
  BY <1>1, <1>4, <1>5 DEF Facts, Recorded
<1>7. Grows(checks, list)
  BY <1>1, <1>3, <1>6 DEF Facts, StillThere
<1>8. ASSUME NEW i \in 1 .. Len(checks)
      PROVE  checks[i] \in recorded.checks
  <2>. HIDE DEF list
  <2>1. PICK j \in 1 .. Len(list) : /\ checks[i].id = list[j].id
                                    /\ checks[i].done => list[j].done
    BY <1>7 DEF Grows
  <2>2. list[j] \in recorded.checks
    <3>1. list[j] \in Range(list)  BY <1>1, RangeEquality
    <3>. QED  BY <3>1 DEF list
  <2>3. checks[i] \in CheckRun /\ list[j] \in CheckRun
    BY <1>1, <2>2, IdsFacts
  <2>4. ~list[j].done /\ ~checks[i].done  BY <1>1, <2>1, <2>2
  <2>5. checks[i] = list[j]  BY <2>1, <2>3, <2>4, PendingRun
  <2>. QED  BY <2>2, <2>5
<1>9. Range(checks) = {checks[i] : i \in 1 .. Len(checks)}
  BY <1>1, RangeEquality
<1>10. rec = got
  <2>1. got \subseteq rec
    <3>1. Range(checks) \subseteq recorded.checks  BY <1>8, <1>9
    <3>2. IdsOf(Range(checks)) = got  BY <1>1, IdsOfRange
    <3>. QED  BY <3>1, <3>2 DEF IdsOf
  <2>2. rec \subseteq listed
    <3>1. RecordedListed  BY UnmovedFacts
    <3>. QED  BY <1>3, <1>4, <3>1 DEF RecordedListed
  <2>. HIDE DEF rec, got
  <2>3. /\ IsFiniteSet(listed)
        /\ Cardinality(got) = Cardinality(listed)
    BY UnmovedFacts DEF got
  <2>4. /\ Cardinality(rec) \in Nat /\ Cardinality(got) \in Nat
        /\ Cardinality(rec) <= Cardinality(listed)
        /\ Cardinality(got) <= Cardinality(rec)
    BY <1>1, <2>1, <2>2, <2>3, FS_Subset, FS_CardinalityType
  <2>5. Cardinality(got) = Cardinality(rec)  BY <2>3, <2>4
  <2>. QED  BY <1>1, <2>1, <2>5, FS_Subset
<1>11. ASSUME NEW run \in recorded.checks
       PROVE  \E i \in 1 .. Len(checks) : run = checks[i]
  <2>1. run.id \in Range(Ids(checks))  BY <1>10 DEF IdsOf
  <2>2. PICK i \in 1 .. Len(checks) : run.id = checks[i].id
    BY <1>1, <2>1, IdsFacts DEF Range
  <2>3. checks[i] \in recorded.checks  BY <1>8
  <2>4. run = checks[i]  BY <1>1, <2>2, <2>3, PendingRun
  <2>. QED  BY <2>4
<1>. QED  BY <1>8, <1>9, <1>11

LEMMA PrintLinesFacts == IInv /\ PrintLines => Facts'
<1>. SUFFICES ASSUME IInv, PrintLines PROVE Facts'  OBVIOUS
<1>1. /\ Facts /\ pc = "print" /\ pc' = "done" /\ errors \subseteq Codes
      /\ checks \in Seq(CheckRun)
      /\ lines' = IF Differences = {} THEN {"NO_REOBSERVED_DIFFERENCES"}
                                      ELSE Differences
      /\ UNCHANGED <<runs, superseded, recorded, head, count, page, checks>>
      /\ UNCHANGED <<total, errors, read, listed>>
  BY DEF IInv, TypeOK, Facts, PrintLines, github, checkRuns, listing
<1>2. Differences \subseteq Lines \ {"NO_REOBSERVED_DIFFERENCES"}
  BY DEF Differences, Lines
<1>3. ~(errors \subseteq {"COORDINATE_DRIFT"}) =>
         "REOBSERVATION_UNAVAILABLE" \in Differences
  BY DEF Differences
<1>4. NoDifferenceIsTrue'
  <2>. SUFFICES ASSUME "NO_REOBSERVED_DIFFERENCES" \in lines'
                PROVE  /\ lines' = {"NO_REOBSERVED_DIFFERENCES"}
                       /\ read = <<recorded.head, recorded.head>>
                       /\ {c.id : c \in recorded.checks} = listed
    BY <1>1 DEF NoDifferenceIsTrue
  <2>1. Differences = {} /\ lines' = {"NO_REOBSERVED_DIFFERENCES"}
    BY <1>1, <1>2
  <2>2. Unmoved  BY <1>3, <2>1 DEF Unmoved
  <2>3. Range(checks) = recorded.checks
    BY <2>1 DEF Differences, Compared
  <2>4. IdsOf(recorded.checks) = listed
    BY <1>1, <2>2, <2>3, ReceivedAreListed
  <2>. QED  BY <1>1, <2>1, <2>2, <2>4, UnmovedFacts DEF IdsOf
<1>5. DifferencesAreReal'
  <2>. SUFFICES ASSUME "REOBSERVATION_UNAVAILABLE" \notin lines'
                PROVE  /\ "CHECKS_CHANGED" \in lines' =>
                             \/ Range(runs[recorded.head]) # recorded.checks
                             \/ lines' \cap
                                   {"COORDINATE_DRIFT", "HEAD_MOVED"} # {}
                       /\ "HEAD_MOVED" \in lines' => read[2] # recorded.head
                       /\ read[1] # read[2] => "COORDINATE_DRIFT" \in lines'
    BY <1>1 DEF DifferencesAreReal
  <2>1. errors \subseteq {"COORDINATE_DRIFT"}
    <3>1. "REOBSERVATION_UNAVAILABLE" \notin Differences  BY <1>1
    <3>. QED  BY <1>3, <3>1
  <2>2. Differences \subseteq lines'  BY <1>1
  <2>3. \A line : line \in lines' /\ line # "NO_REOBSERVED_DIFFERENCES" =>
                     line \in Differences
    BY <1>1
  <2>4. PICK h \in Heads : /\ read = <<h, head>> /\ head \in Heads
                           /\ h = head <=> "COORDINATE_DRIFT" \notin errors
    BY <1>1, <2>1 DEF Facts, Settled
  <2>5. read[1] = h /\ read[2] = head  BY <2>4
  <2>6. "HEAD_MOVED" \in lines' => read[2] # recorded.head
    BY <2>3, <2>5 DEF Differences
  <2>7. read[1] # read[2] => "COORDINATE_DRIFT" \in lines'
    BY <2>2, <2>4, <2>5 DEF Differences
  <2>8. ASSUME "CHECKS_CHANGED" \in lines',
               lines' \cap {"COORDINATE_DRIFT", "HEAD_MOVED"} = {}
        PROVE  Range(runs[recorded.head]) # recorded.checks
    <3>1. Unmoved  BY <2>1, <2>2, <2>8 DEF Unmoved
    <3>2. "CHECKS_CHANGED" \in Differences  BY <2>3, <2>8
    <3>3. Range(checks) # recorded.checks
      BY <3>2 DEF Differences, Compared
    <3>. QED  BY <1>1, <3>1, <3>3, SameChecks
  <2>. QED  BY <2>6, <2>7, <2>8
<1>6. Numbered' /\ Recorded' /\ StillThere'
  BY <1>1 DEF Facts, Numbered, Recorded, StillThere, ListedIds
<1>. QED
  BY <1>1, <1>4, <1>5, <1>6
  DEF Facts, Untouched, Bound, ChecksSoFar, ChecksDone, Settled, Printed

-----------------------------------------------------------------------------
(* Theorems *)

LEMMA Inductive == SafetySpec => []IInv
<1>1. Init => IInv  BY InitTypeOK, InitFacts DEF IInv
<1>2. IInv /\ [Next]_vars => IInv'
  <2>. SUFFICES ASSUME IInv, [Next]_vars PROVE IInv'  OBVIOUS
  <2>1. TypeOK'  BY TypeStep DEF IInv, Facts
  <2>2. CASE Environment  BY <2>1, <2>2, EnvironmentFacts DEF IInv
  <2>3. CASE ReadPull  BY <2>1, <2>3, ReadPullFacts DEF IInv
  <2>4. CASE ReadChecks  BY <2>1, <2>4, ReadChecksFacts DEF IInv
  <2>5. CASE ReadBack  BY <2>1, <2>5, ReadBackFacts DEF IInv
  <2>6. CASE PrintLines  BY <2>1, <2>6, PrintLinesFacts DEF IInv
  <2>7. CASE UNCHANGED vars
    <3>1. /\ UNCHANGED <<runs, superseded, recorded, pc, head, count, page>>
          /\ UNCHANGED <<checks, total, errors, lines, read, listed>>
      BY <2>7 DEF vars, github, checkRuns, command, listing
    <3>2. Numbered' /\ Recorded' /\ StillThere'
      BY <3>1 DEF IInv, Facts, Numbered, Recorded, StillThere, ListedIds
    <3>3. RecordedListed' = RecordedListed /\ Pinned' = Pinned
      BY <3>1 DEF RecordedListed, Pinned, ListedIds
    <3>4. ChecksSoFar' /\ ChecksDone'
      BY <3>1, <3>3 DEF IInv, Facts, ChecksSoFar, ChecksDone
    <3>5. Untouched' /\ Bound' /\ Settled' /\ Printed'
      BY <3>1
      DEF IInv, Facts, Untouched, Bound, Settled, Printed, NoDifferenceIsTrue,
          DifferencesAreReal
    <3>. QED  BY <2>1, <3>2, <3>4, <3>5 DEF IInv, Facts
  <2>. QED  BY <2>2, <2>3, <2>4, <2>5, <2>6, <2>7 DEF Next, Command
<1>. QED  BY <1>1, <1>2, PTL DEF SafetySpec

\* reobserve_pull_request keeps its values in their sets, reads no check run
\* twice and stays within its pages, in every behaviour of the branch and of
\* GitHub.
THEOREM TypeCorrect == SafetySpec => []TypeOK
<1>1. IInv => TypeOK  BY DEF IInv
<1>. QED  BY <1>1, Inductive, PTL

\* _online_differences says that nothing differs only about a branch that was
\* at the recorded head at both reads, with the recorded check runs and no
\* others when their listing began.  A check may be run again at any time,
\* which takes a check run from the listing for ever, so that the invariant
\* counts: a recorded one that was not listed at first is never received, and
\* as many are received as were listed.
THEOREM NoDifferenceIsTrueAlways == SafetySpec => []NoDifferenceIsTrue
<1>1. IInv => NoDifferenceIsTrue  BY DEF IInv, Facts, Printed
<1>. QED  BY <1>1, Inductive, PTL

\* A difference that _online_differences prints without saying that the
\* reobservation is incomplete is one: a check run that is read is still there
\* unless one has been superseded, after which the check runs cannot be the
\* recorded ones, and a head read back that is another is reported as drift.
THEOREM DifferencesAreRealAlways == SafetySpec => []DifferencesAreReal
<1>1. IInv => DifferencesAreReal  BY DEF IInv, Facts, Printed
<1>. QED  BY <1>1, Inductive, PTL

-----------------------------------------------------------------------------
(* The safe part of Terminates *)

\* How many more steps the command can take.
Remaining ==
    CASE pc = "pull" -> PageCeiling + 3
      [] pc = "checks" -> PageCeiling - page + 3
      [] pc = "readback" -> 2
      [] pc = "print" -> 1
      [] pc = "done" -> 0

Descends ==
    /\ Remaining \in Nat
    /\ Command => Remaining' < Remaining
    /\ Environment => Remaining' = Remaining

LEMMA RemainingType == TypeOK => Remaining \in Nat
<1>. SUFFICES ASSUME TypeOK PROVE Remaining \in Nat  OBVIOUS
<1>1. PageCeiling \in Nat /\ page \in 1 .. PageCeiling
  BY CeilingAssumption DEF TypeOK
<1>2. pc \in {"pull", "checks", "readback", "print", "done"}  BY DEF TypeOK
<1>. QED  BY <1>1, <1>2 DEF Remaining

LEMMA CommandDescends == IInv /\ Command => Remaining' < Remaining
<1>. SUFFICES ASSUME IInv, Command PROVE Remaining' < Remaining  OBVIOUS
<1>1. PageCeiling \in Nat /\ page \in 1 .. PageCeiling
  BY CeilingAssumption DEF IInv, TypeOK
<1>2. CASE ReadPull
  <2>1. /\ pc = "pull" /\ page' = page /\ page = 1
        /\ pc' \in {"checks", "print"}
    BY <1>2 DEF ReadPull, listing, IInv, Facts, Untouched
  <2>. QED  BY <1>1, <2>1 DEF Remaining
<1>3. CASE ReadChecks
  <2>1. pc = "checks"  BY <1>3 DEF ReadChecks
  <2>2. \/ pc' = "readback"
        \/ pc' = "checks" /\ page' = page + 1 /\ page # PageCeiling
    BY <1>3 DEF ReadChecks, GiveUp, LastPage
  <2>. QED  BY <1>1, <2>1, <2>2 DEF Remaining
<1>4. CASE ReadBack  BY <1>4 DEF ReadBack, Remaining
<1>5. CASE PrintLines  BY <1>5 DEF PrintLines, Remaining
<1>. QED  BY <1>2, <1>3, <1>4, <1>5 DEF Command

\* reobserve_pull_request makes at most PageCeiling + 2 requests and then
\* prints: every step of the command is one of those that remain, and nothing
\* that happens to the pull request or its listing adds to them.
THEOREM CommandIsBounded == SafetySpec => [][Descends]_vars
<1>1. IInv /\ [Next]_vars => [Descends]_vars
  <2>1. Environment => UNCHANGED <<pc, page>>
    BY DEF Environment, Push, Retarget, AddRun, Supersede, Conclude, command,
           listing
  <2>2. Environment => Remaining' = Remaining
    BY <2>1 DEF Remaining
  <2>. QED
    BY <2>2, RemainingType, CommandDescends DEF Descends, IInv
<1>. QED  BY <1>1, Inductive, PTL DEF SafetySpec
=============================================================================
