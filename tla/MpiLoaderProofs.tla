----------------------------- MODULE MpiLoaderProofs -----------------------------
(***************************************************************************)
(* Theorems about the loader.  First the functions it computes with: the   *)
(* shares of a file are a partition of its events, and the ranks are       *)
(* spread over the files in intervals that follow one another, for any     *)
(* number of events, files and ranks; mpi_numerology computes the same     *)
(* shares and the same files.  Then the loader: for any number of ranks,   *)
(* files and events, what the ranks load and how the work is divided       *)
(* among them.                                                             *)
(***************************************************************************)
EXTENDS MpiLoader, Functions, FiniteSetTheorems, SequenceTheorems, TLAPS

-------------------------------------------------------------------------------
(* The events of the ranks *)

\* std::div: quotient and remainder.
LEMMA Division ==
  ASSUME NEW a \in Nat, NEW b \in Nat \ {0}
  PROVE  /\ a \div b \in Nat /\ a % b \in Nat
         /\ a = b * (a \div b) + (a % b)
         /\ a % b < b
<1>1. a % b \in Nat /\ a % b < b
  OBVIOUS
<1>2. a = b * (a \div b) + (a % b)
  OBVIOUS
<1>3. a \div b \in Int
  OBVIOUS
<1>4. a \div b \in Nat
  BY <1>1, <1>2, <1>3
<1> QED
  BY <1>1, <1>2, <1>4

\* Products of natural numbers: distribution and monotonicity.
LEMMA Product ==
  ASSUME NEW q \in Nat, NEW j \in Nat, NEW k \in Nat
  PROVE  /\ q * j \in Nat
         /\ q * j = j * q
         /\ q * (j + 1) = q * j + q
         /\ (q + 1) * j = q * j + j
         /\ q * (j + k) = q * j + q * k
         /\ j < k => q * j + q <= q * k
         /\ j <= k => q * j <= q * k
OBVIOUS

\* A share in terms of the quotient and remainder: the start grows by the quotient,
\* and by one more for every rank below the remainder.
LEMMA ShareForm ==
  ASSUME NEW events \in Nat, NEW nranks \in Nat \ {0}, NEW p \in 0..(nranks - 1)
  PROVE  LET q == events \div nranks
             r == events % nranks
             s == SkipForRank(p, nranks, events)
         IN /\ s.nskip \in Nat /\ s.nevents \in Nat
            /\ s.nskip = q * p + (IF p < r THEN p ELSE r)
            /\ s.nevents = q + (IF p < r THEN 1 ELSE 0)
<1> DEFINE q == events \div nranks
           r == events % nranks
<1>1. q \in Nat /\ r \in Nat /\ p \in Nat
  BY Division
<1>2. q * p \in Nat /\ (q + 1) * p = q * p + p
  BY <1>1, Product
<1> HIDE DEF q, r
<1>3. /\ SkipForRank(p, nranks, events).nskip =
           IF p < r THEN (q + 1) * p ELSE q * p + r
      /\ SkipForRank(p, nranks, events).nevents = IF p < r THEN q + 1 ELSE q
  BY DEF SkipForRank, q, r
<1> QED
  BY <1>1, <1>2, <1>3 DEF q, r

\* Shares follow one another without a gap and without an overlap: the first starts
\* at 0, each ends where the next one starts, the last ends at the end of the file.
THEOREM SharesAreConsecutive ==
  ASSUME NEW events \in Nat, NEW nranks \in Nat \ {0}, NEW p \in 0..(nranks - 1)
  PROVE  LET s == SkipForRank(p, nranks, events)
             t == SkipForRank(p + 1, nranks, events)
         IN /\ p = 0 => s.nskip = 0
            /\ p < nranks - 1 => s.nskip + s.nevents = t.nskip
            /\ p = nranks - 1 => s.nskip + s.nevents = events
<1> DEFINE q == events \div nranks
           r == events % nranks
<1>1. q \in Nat /\ r \in Nat /\ r < nranks /\ events = nranks * q + r /\ p \in Nat
  BY Division
<1>2. q * 0 = 0 /\ q * (p + 1) = q * p + q /\ q * p \in Nat /\ q * nranks = nranks * q
  <2> HIDE DEF q, r
  <2>1. q * (p + 1) = q * p + q /\ q * p \in Nat
    BY <1>1, Product
  <2>2. q * nranks = nranks * q
    BY <1>1, Product
  <2>3. q * 0 = 0
    BY <1>1
  <2> QED
    BY <2>1, <2>2, <2>3
<1>3. /\ SkipForRank(p, nranks, events).nskip = q * p + (IF p < r THEN p ELSE r)
      /\ SkipForRank(p, nranks, events).nevents = q + (IF p < r THEN 1 ELSE 0)
  BY ShareForm
<1>4. p < nranks - 1 =>
        SkipForRank(p + 1, nranks, events).nskip
          = q * (p + 1) + (IF p + 1 < r THEN p + 1 ELSE r)
  <2> SUFFICES ASSUME p < nranks - 1
               PROVE  SkipForRank(p + 1, nranks, events).nskip
                        = q * (p + 1) + (IF p + 1 < r THEN p + 1 ELSE r)
    OBVIOUS
  <2>1. p + 1 \in 0..(nranks - 1)
    BY <1>1
  <2> QED
    BY <2>1, ShareForm
<1> HIDE DEF q, r
<1>5. p = 0 => q * p = 0
  BY <1>2
<1>6. p = nranks - 1 => q * (p + 1) = nranks * q
  BY <1>1, <1>2
<1>7. CASE p < r
  BY <1>1, <1>2, <1>3, <1>4, <1>5, <1>6, <1>7
<1>8. CASE ~ p < r
  BY <1>1, <1>2, <1>3, <1>4, <1>5, <1>6, <1>8
<1> QED
  BY <1>7, <1>8

\* Two ranks never load the same event of their file.
THEOREM SharesAreDisjoint ==
  ASSUME NEW events \in Nat, NEW nranks \in Nat \ {0},
         NEW p \in 0..(nranks - 1), NEW o \in 0..(nranks - 1), p < o
  PROVE  Slice(SkipForRank(p, nranks, events)) \cap Slice(SkipForRank(o, nranks, events))
           = {}
<1> DEFINE q == events \div nranks
           r == events % nranks
           s == SkipForRank(p, nranks, events)
           t == SkipForRank(o, nranks, events)
<1>1. q \in Nat /\ r \in Nat /\ p \in Nat /\ o \in Nat
  BY Division
<1>2. q * p \in Nat /\ q * o \in Nat /\ q * p + q <= q * o
  BY <1>1, Product
<1>3. /\ s.nskip \in Nat /\ s.nevents \in Nat /\ t.nskip \in Nat /\ t.nevents \in Nat
      /\ s.nskip = q * p + (IF p < r THEN p ELSE r)
      /\ s.nevents = q + (IF p < r THEN 1 ELSE 0)
      /\ t.nskip = q * o + (IF o < r THEN o ELSE r)
  BY ShareForm
<1> HIDE DEF q, r, s, t
<1>4. s.nskip + s.nevents <= t.nskip
  BY <1>1, <1>2, <1>3
<1>5. Slice(s) \cap Slice(t) = {}
  BY <1>3, <1>4 DEF Slice
<1> QED
  BY <1>5 DEF s, t

\* Every event of a file is in the share of a rank.
THEOREM SharesCover ==
  ASSUME NEW events \in Nat, NEW nranks \in Nat \ {0}, NEW e \in 0..(events - 1)
  PROVE  \E p \in 0..(nranks - 1) : e \in Slice(SkipForRank(p, nranks, events))
<1> DEFINE q == events \div nranks
           r == events % nranks
<1>0. e \in Nat
  OBVIOUS
<1>1. q \in Nat /\ r \in Nat /\ r < nranks /\ events = nranks * q + r /\ e \in Nat
  <2>1. q \in Nat /\ r \in Nat /\ r < nranks /\ events = nranks * q + r
    BY Division
  <2> QED BY <1>0, <2>1
<1>2. \A p \in 0..(nranks - 1) :
        /\ SkipForRank(p, nranks, events).nskip = q * p + (IF p < r THEN p ELSE r)
        /\ SkipForRank(p, nranks, events).nevents = q + (IF p < r THEN 1 ELSE 0)
  BY ShareForm
<1> HIDE DEF q, r
<1>3. CASE e < (q + 1) * r
  <2> DEFINE p == e \div (q + 1)
             m == e % (q + 1)
  <2>0. q + 1 \in Nat \ {0} /\ e \in Nat
    BY <1>1
  <2>1. p \in Nat /\ m \in Nat /\ e = (q + 1) * p + m /\ m < q + 1
    BY <2>0, Division
  <2> HIDE DEF p, m
  <2>2. r <= p => (q + 1) * r <= (q + 1) * p
    BY <1>1, <2>1, Product
  <2>3. (q + 1) * p \in Nat /\ (q + 1) * r \in Nat
    BY <1>1, <2>1
  <2>4. p < r
    BY <1>1, <1>3, <2>1, <2>2, <2>3
  <2>5. q * p + p = (q + 1) * p
    BY <1>1, <2>1, Product
  <2>6. p \in 0..(nranks - 1)
    BY <1>1, <2>1, <2>4
  <2>7. /\ SkipForRank(p, nranks, events).nskip = (q + 1) * p
        /\ SkipForRank(p, nranks, events).nevents = q + 1
    BY <1>2, <2>4, <2>5, <2>6
  <2>8. e \in Slice(SkipForRank(p, nranks, events))
    BY <1>1, <2>1, <2>3, <2>7 DEF Slice
  <2> QED
    BY <2>6, <2>8
<1>4. CASE e >= (q + 1) * r
  <2> DEFINE d == e - (q + 1) * r
             k == d \div q
             m == d % q
  <2>1. (q + 1) * r = q * r + r /\ q * r \in Nat
    BY <1>1, Product
  <2>2. d \in Nat
    BY <1>1, <1>4, <2>1
  <2>3. q # 0
    BY <1>1, <1>4, <2>1
  <2>4. k \in Nat /\ m \in Nat /\ d = q * k + m /\ m < q
    BY <1>1, <2>2, <2>3, Division
  <2>5. e = q * r + r + d
    BY <1>1, <2>1
  <2> HIDE DEF d, k, m
  <2>6. q * (r + k) = q * r + q * k /\ q * k \in Nat
    BY <1>1, <2>4, Product
  <2>7. r + k < nranks
    <3>1. nranks <= r + k => q * nranks <= q * (r + k)
      BY <1>1, <2>4, Product
    <3>2. q * nranks = nranks * q /\ q * nranks \in Nat
      BY <1>1, Product
    <3> QED
      BY <1>1, <2>1, <2>4, <2>5, <2>6, <3>1, <3>2
  <2>8. r + k \in 0..(nranks - 1)
    BY <1>1, <2>4, <2>7
  <2>9. /\ SkipForRank(r + k, nranks, events).nskip = q * (r + k) + r
        /\ SkipForRank(r + k, nranks, events).nevents = q
    BY <1>1, <1>2, <2>4, <2>8
  <2>10. e \in Slice(SkipForRank(r + k, nranks, events))
    BY <1>1, <2>1, <2>4, <2>5, <2>6, <2>9 DEF Slice
  <2> QED
    BY <2>8, <2>10
<1> QED
  BY <1>1, <1>3, <1>4

\* The loader and mpi_numerology give a rank the same events.
THEOREM NumerologyAgrees ==
  ASSUME NEW events \in Nat, NEW nranks \in Nat \ {0}, NEW p \in 0..(nranks - 1)
  PROVE  LET s == SkipForRank(p, nranks, events)
             slice == CalculateSliceForRank(p, nranks, events)
         IN s.nskip = slice.low /\ s.nskip + s.nevents = slice.high
<1> DEFINE q == events \div nranks
           r == events % nranks
<1>1. q \in Nat /\ r \in Nat /\ p \in Nat
  BY Division
<1>2. q * p = p * q /\ (q + 1) * p = p * (q + 1) /\ p * q \in Nat /\ p * (q + 1) \in Nat
  BY <1>1, Product
<1>3. /\ SkipForRank(p, nranks, events) =
           IF p < r THEN [nskip |-> (q + 1) * p, nevents |-> q + 1]
                    ELSE [nskip |-> q * p + r, nevents |-> q]
      /\ CalculateSliceForRank(p, nranks, events) =
           IF p < r THEN [low |-> p * (q + 1), high |-> p * (q + 1) + (q + 1)]
                    ELSE [low |-> r + p * q, high |-> r + p * q + q]
  BY DEF SkipForRank, CalculateSliceForRank
<1> HIDE DEF q, r
<1> QED
  BY <1>1, <1>2, <1>3

-------------------------------------------------------------------------------
(* The files of the ranks *)

\* Induction over the natural numbers for a set: if a number were missing, taking
\* one away would map the missing numbers up to it one to one to fewer of them.
LEMMA SetInduction ==
  ASSUME NEW S, 0 \in S, \A n \in Nat : n \in S => n + 1 \in S
  PROVE  Nat \subseteq S
<1> SUFFICES ASSUME NEW t \in Nat, t \notin S
             PROVE  FALSE
  OBVIOUS
<1> DEFINE U == {n \in 0..t : n \notin S}
           f == [n \in U |-> n - 1]
<1>1. IsFiniteSet(0..t)
  BY FS_Interval
<1>2. IsFiniteSet(U) /\ IsFiniteSet(U \ {t})
  BY <1>1, FS_Subset
<1>3. t \in U
  OBVIOUS
<1>4. \A n \in U : n - 1 \in U \ {t}
  <2> TAKE n \in U
  <2>1. n \in Nat /\ n # 0 /\ n - 1 \in Nat /\ n - 1 < t
    OBVIOUS
  <2>2. n = (n - 1) + 1
    BY <2>1
  <2>3. n - 1 \notin S
    BY <2>1, <2>2
  <2> QED BY <2>1, <2>3
<1>5. f \in Injection(U, U \ {t})
  BY <1>4 DEF Injection, IsInjective
<1> HIDE DEF U, f
<1>6. Cardinality(U) <= Cardinality(U \ {t})
  BY <1>2, <1>5, FS_Injection
<1>7. Cardinality(U \ {t}) = Cardinality(U) - 1 /\ Cardinality(U) \in Nat
  BY <1>2, <1>3, FS_RemoveElement, FS_CardinalityType
<1> QED BY <1>6, <1>7

\* The first rank of file i, without the loop that adds up the files before it.
FirstRank(files, nranks, i) ==
  (nranks \div files) * i + (IF i < nranks % files THEN i ELSE nranks % files)

\* The files before file i + 1 have the ranks of file i more.
LEMMA FirstRankSteps ==
  ASSUME NEW files \in Nat \ {0}, NEW nranks \in Nat, NEW i \in Nat
  PROVE  /\ FirstRank(files, nranks, i) \in Nat
         /\ FirstRank(files, nranks, 0) = 0
         /\ FirstRank(files, nranks, files) = nranks
         /\ RanksForFile(files, nranks, i) \in Nat
         /\ FirstRank(files, nranks, i + 1)
              = FirstRank(files, nranks, i) + RanksForFile(files, nranks, i)
<1> DEFINE q == nranks \div files
           r == nranks % files
<1>1. q \in Nat /\ r \in Nat /\ r < files /\ nranks = files * q + r
  BY Division
<1>2. q * i \in Nat /\ q * (i + 1) = q * i + q /\ q * files = files * q /\ q * 0 = 0
  <2> HIDE DEF q, r
  <2>1. q * i \in Nat /\ q * (i + 1) = q * i + q
    BY <1>1, Product
  <2>2. q * files = files * q
    BY <1>1, Product
  <2>3. q * 0 = 0
    BY <1>1
  <2> QED BY <2>1, <2>2, <2>3
<1>3. /\ FirstRank(files, nranks, i) = q * i + (IF i < r THEN i ELSE r)
      /\ FirstRank(files, nranks, 0) = q * 0 + (IF 0 < r THEN 0 ELSE r)
      /\ FirstRank(files, nranks, files) = q * files + (IF files < r THEN files ELSE r)
      /\ FirstRank(files, nranks, i + 1) = q * (i + 1) + (IF i + 1 < r THEN i + 1 ELSE r)
      /\ RanksForFile(files, nranks, i) = q + (IF i < r THEN 1 ELSE 0)
  BY DEF FirstRank, RanksForFile
<1> HIDE DEF q, r
<1> QED BY <1>1, <1>2, <1>3

\* The ranks of a file come before those of the files after it.
LEMMA FirstRankGrows ==
  ASSUME NEW files \in Nat \ {0}, NEW nranks \in Nat, NEW i \in Nat, NEW j \in Nat, i < j
  PROVE  FirstRank(files, nranks, i + 1) <= FirstRank(files, nranks, j)
<1> DEFINE q == nranks \div files
           r == nranks % files
<1>1. q \in Nat /\ r \in Nat
  BY Division
<1>2. q * (i + 1) \in Nat /\ q * j \in Nat /\ q * (i + 1) <= q * j
  <2>1. i + 1 \in Nat /\ i + 1 <= j
    OBVIOUS
  <2> QED BY <1>1, <2>1, Product
<1>3. /\ FirstRank(files, nranks, i + 1) = q * (i + 1) + (IF i + 1 < r THEN i + 1 ELSE r)
      /\ FirstRank(files, nranks, j) = q * j + (IF j < r THEN j ELSE r)
  BY DEF FirstRank
<1> HIDE DEF q, r
<1> QED BY <1>1, <1>2, <1>3

\* The loop of calculate_index computes the first ranks: they satisfy its recursion,
\* and by induction nothing else does.
LEMMA RanksBeforeForm ==
  ASSUME NEW files \in Nat \ {0}, NEW nranks \in Nat, NEW i \in 0..files
  PROVE  RanksBefore(files, nranks)[i] = FirstRank(files, nranks, i)
<1> DEFINE Loop(g) ==
             g = [k \in 0..files |->
                    IF k = 0 THEN 0 ELSE g[k - 1] + RanksForFile(files, nranks, k - 1)]
           first == [k \in 0..files |-> FirstRank(files, nranks, k)]
           sum == RanksBefore(files, nranks)
<1>1. Loop(first)
  <2>1. ASSUME NEW k \in 0..files
        PROVE  first[k] = IF k = 0 THEN 0
                          ELSE first[k - 1] + RanksForFile(files, nranks, k - 1)
    <3>1. CASE k = 0
      BY <3>1, FirstRankSteps
    <3>2. CASE k # 0
      <4>1. k - 1 \in Nat /\ k - 1 \in 0..files /\ (k - 1) + 1 = k
        BY <3>2
      <4>2. FirstRank(files, nranks, (k - 1) + 1)
              = FirstRank(files, nranks, k - 1) + RanksForFile(files, nranks, k - 1)
        BY <4>1, FirstRankSteps
      <4> QED BY <3>2, <4>1, <4>2
    <3> QED BY <3>1, <3>2
  <2> QED BY <2>1
<1>2. sum = CHOOSE g : Loop(g)
  BY DEF RanksBefore
<1> HIDE DEF first
<1>3. Loop(sum)
  BY <1>1, <1>2
<1> HIDE DEF sum
<1>4. /\ sum[0] = 0
      /\ \A k \in 0..(files - 1) : sum[k + 1] = sum[k] + RanksForFile(files, nranks, k)
  <2>1. ASSUME NEW k \in 0..(files - 1)
        PROVE  sum[k + 1] = sum[k] + RanksForFile(files, nranks, k)
    <3>1. k + 1 \in 0..files /\ k + 1 # 0 /\ (k + 1) - 1 = k
      OBVIOUS
    <3> QED BY <1>3, <3>1
  <2>2. sum[0] = 0
    BY <1>3
  <2> QED BY <2>1, <2>2
<1> DEFINE S == {n \in Nat : n <= files => sum[n] = FirstRank(files, nranks, n)}
<1>5. 0 \in S
  BY <1>4, FirstRankSteps
<1>6. \A n \in Nat : n \in S => n + 1 \in S
  <2> TAKE n \in Nat
  <2> HAVE n \in S
  <2> SUFFICES ASSUME n + 1 <= files
               PROVE  sum[n + 1] = FirstRank(files, nranks, n + 1)
    OBVIOUS
  <2>1. n <= files /\ n \in 0..(files - 1)
    OBVIOUS
  <2>2. FirstRank(files, nranks, n + 1)
          = FirstRank(files, nranks, n) + RanksForFile(files, nranks, n)
    BY FirstRankSteps
  <2>3. sum[n] = FirstRank(files, nranks, n)
    BY <2>1
  <2> QED BY <1>4, <2>1, <2>2, <2>3
<1> HIDE DEF S
<1>7. Nat \subseteq S
  BY <1>5, <1>6, SetInduction
<1> QED BY <1>7 DEF S, sum

\* calculate_index gives every rank the file whose ranks it is among: one of the
\* files of the list, never the -1 its result starts with.
THEOREM FileOfRank ==
  ASSUME NEW files \in Nat \ {0}, NEW nranks \in Nat, NEW p \in 0..(nranks - 1)
  PROVE  LET f == FileForRank(files, p, nranks)
         IN /\ f \in 0..(files - 1)
            /\ FirstRank(files, nranks, f) <= p
            /\ p < FirstRank(files, nranks, f + 1)
<1> DEFINE B(i) == FirstRank(files, nranks, i)
           Reaches(i) ==
             /\ p < RanksBefore(files, nranks)[i + 1]
             /\ \A k \in 0..(i - 1) : p >= RanksBefore(files, nranks)[k + 1]
           S == {n \in Nat : n <= files /\ p < B(n) =>
                                \E i \in 0..(n - 1) : B(i) <= p /\ p < B(i + 1)}
<1> HIDE DEF B
<1>1. B(0) = 0 /\ B(files) = nranks /\ \A n \in Nat : B(n) \in Nat
  BY FirstRankSteps DEF B
<1>2. \A k \in 0..(files - 1) : RanksBefore(files, nranks)[k + 1] = B(k + 1)
  <2> TAKE k \in 0..(files - 1)
  <2>1. k + 1 \in 0..files
    OBVIOUS
  <2> QED BY <2>1, RanksBeforeForm DEF B
<1>3. 0 \in S
  BY <1>1
<1>4. \A n \in Nat : n \in S => n + 1 \in S
  <2> TAKE n \in Nat
  <2> HAVE n \in S
  <2> SUFFICES ASSUME n + 1 <= files, p < B(n + 1)
               PROVE  \E i \in 0..n : B(i) <= p /\ p < B(i + 1)
    OBVIOUS
  <2>1. CASE B(n) <= p
    BY <2>1
  <2>2. CASE p < B(n)
    BY <2>2
  <2> QED BY <1>1, <2>1, <2>2
<1>5. Nat \subseteq S
  <2> HIDE DEF S
  <2> QED BY <1>3, <1>4, SetInduction
<1>6. PICK i \in 0..(files - 1) : B(i) <= p /\ p < B(i + 1)
  <2>1. files \in S /\ p < B(files)
    BY <1>1, <1>5
  <2> QED BY <2>1
<1>7. Reaches(i)
  <2>1. ASSUME NEW k \in 0..(i - 1)
        PROVE  p >= RanksBefore(files, nranks)[k + 1]
    <3>1. k \in Nat /\ i \in Nat /\ k < i /\ k \in 0..(files - 1)
      OBVIOUS
    <3>2. B(k + 1) <= B(i)
      BY <3>1, FirstRankGrows DEF B
    <3> QED BY <1>1, <1>2, <1>6, <3>1, <3>2
  <2> QED BY <1>2, <1>6, <2>1
<1> DEFINE f == FileForRank(files, p, nranks)
<1>8. f \in 0..(files - 1) /\ Reaches(f)
  <2>1. f = CHOOSE k \in 0..(files - 1) : Reaches(k)
    BY DEF FileForRank
  <2> HIDE DEF Reaches, f
  <2> QED BY <1>7, <2>1
<1> HIDE DEF f
<1>9. p < B(f + 1)
  BY <1>2, <1>8
<1>10. B(f) <= p
  <2>1. CASE f = 0
    BY <1>1, <2>1
  <2>2. CASE f # 0
    <3>1. f - 1 \in 0..(f - 1) /\ f - 1 \in 0..(files - 1) /\ (f - 1) + 1 = f
      BY <1>8, <2>2
    <3>2. p >= RanksBefore(files, nranks)[(f - 1) + 1]
      BY <1>8, <3>1
    <3> QED BY <1>1, <1>2, <1>8, <3>1, <3>2
  <2> QED BY <2>1, <2>2
<1> QED BY <1>8, <1>9, <1>10 DEF B, f

\* The ranks that load a file are an interval.
LEMMA RanksOfFile ==
  ASSUME NEW files \in Nat \ {0}, NEW nranks \in Nat, NEW i \in 0..(files - 1)
  PROVE  {p \in 0..(nranks - 1) : FileForRank(files, p, nranks) = i}
         = FirstRank(files, nranks, i)..(FirstRank(files, nranks, i + 1) - 1)
<1> DEFINE B(k) == FirstRank(files, nranks, k)
<1>1. \A k \in Nat : B(k) \in Nat
  BY FirstRankSteps
<1>2. B(files) = nranks /\ \A j, k \in Nat : j < k => B(j + 1) <= B(k)
  BY FirstRankSteps, FirstRankGrows
<1>3. i \in Nat /\ i + 1 \in Nat /\ B(i + 1) <= nranks
  BY <1>2
<1>4. ASSUME NEW p \in 0..(nranks - 1)
      PROVE  FileForRank(files, p, nranks) = i <=> p \in B(i)..(B(i + 1) - 1)
  <2> DEFINE f == FileForRank(files, p, nranks)
  <2>1. f \in 0..(files - 1) /\ B(f) <= p /\ p < B(f + 1)
    BY FileOfRank
  <2> HIDE DEF f, B
  <2>2. f \in Nat /\ f + 1 \in Nat /\ B(f) \in Nat /\ B(f + 1) \in Nat /\ B(i) \in Nat /\ B(i + 1) \in Nat
    BY <1>1, <1>3, <2>1
  <2>3. f < i => B(f + 1) <= B(i)
    BY <1>2, <1>3, <2>2
  <2>4. i < f => B(i + 1) <= B(f)
    BY <1>2, <1>3, <2>2
  <2>5. f = i <=> p \in B(i)..(B(i + 1) - 1)
    BY <1>3, <2>1, <2>2, <2>3, <2>4
  <2> QED BY <2>5 DEF f, B
<1>5. \A p \in B(i)..(B(i + 1) - 1) : p \in 0..(nranks - 1)
  <2> HIDE DEF B
  <2> QED BY <1>1, <1>3
<1> HIDE DEF B
<1> QED BY <1>4, <1>5 DEF B

\* mpi_numerology's list of slots has the file calculate_index gives a rank at the
\* place of the rank.
THEOREM SlotsAreFiles ==
  ASSUME NEW files \in Nat \ {0}, NEW nranks \in Nat, NEW p \in 0..(nranks - 1)
  PROVE  RanksBySlot(nranks, files)[p + 1] = FileForRank(files, p, nranks)
<1> DEFINE B(i) == FirstRank(files, nranks, i)
           R(i) == RanksForFile(files, nranks, i)
           F(q) == FileForRank(files, q, nranks)
           slots(i) == [k \in 1..B(i) |-> F(k - 1)]
           same(i) == [k \in 1..R(i) |-> i]
           Loop(g) == g = [i \in 0..files |-> IF i = 0 THEN <<>> ELSE g[i - 1] \o same(i - 1)]
           list == CHOOSE g : Loop(g)
<1>1. RanksBySlot(nranks, files) = list[files]
  BY DEF RanksBySlot
<1>2. /\ \A i \in Nat : B(i) \in Nat /\ R(i) \in Nat /\ B(i + 1) = B(i) + R(i)
      /\ B(0) = 0 /\ B(files) = nranks
  BY FirstRankSteps
<1>3. \A i \in 0..(files - 1) : B(i + 1) <= nranks
  <2> TAKE i \in 0..(files - 1)
  <2>1. i \in Nat /\ files \in Nat /\ i < files
    OBVIOUS
  <2>2. B(i + 1) <= B(files)
    BY <2>1, FirstRankGrows
  <2> QED BY <1>2, <2>2
<1>4. \A i \in 0..(files - 1) : \A q \in B(i)..(B(i + 1) - 1) : F(q) = i
  BY RanksOfFile
<1>5. \A q \in 0..(nranks - 1) : F(q) \in Nat
  BY FileOfRank
<1> HIDE DEF B, R, F
<1>6. ASSUME NEW i \in 0..(files - 1)
      PROVE  slots(i + 1) = slots(i) \o same(i)
  <2>1. i \in Nat /\ B(i) \in Nat /\ R(i) \in Nat /\ B(i + 1) = B(i) + R(i) /\ B(i + 1) <= nranks
    BY <1>2, <1>3
  <2>2. slots(i) \in Seq(Nat) /\ Len(slots(i)) = B(i)
    <3>1. \A k \in 1..B(i) : k - 1 \in 0..(nranks - 1)
      BY <2>1
    <3>2. slots(i) \in [1..B(i) -> Nat]
      BY <1>5, <3>1
    <3>3. slots(i) \in Seq(Nat)
      BY <2>1, <3>2, IsASeq
    <3> QED BY <2>1, <3>3
  <2>3. same(i) \in Seq(Nat) /\ Len(same(i)) = R(i)
    <3>1. same(i) \in [1..R(i) -> Nat]
      BY <2>1
    <3> QED BY <2>1, <3>1
  <2> DEFINE both == slots(i) \o same(i)
  <2>4. /\ both \in Seq(Nat) /\ Len(both) = B(i + 1)
        /\ \A k \in 1..B(i + 1) : both[k] = IF k <= B(i) THEN slots(i)[k] ELSE same(i)[k - B(i)]
    BY <2>1, <2>2, <2>3, ConcatProperties
  <2>5. \A k \in 1..B(i + 1) : both[k] = F(k - 1)
    <3> TAKE k \in 1..B(i + 1)
    <3>1. CASE k <= B(i)
      BY <2>1, <2>4, <3>1
    <3>2. CASE k > B(i)
      <4>1. k - 1 \in B(i)..(B(i + 1) - 1) /\ k - B(i) \in 1..R(i)
        BY <2>1, <3>2
      <4>2. both[k] = i
        BY <2>1, <2>4, <3>2, <4>1
      <4> QED BY <1>4, <4>1, <4>2
    <3> QED BY <2>1, <3>1, <3>2
  <2>6. both = [k \in 1..B(i + 1) |-> both[k]]
    <3> HIDE DEF both
    <3> QED BY <2>4
  <2> QED BY <2>5, <2>6
<1>7. slots(0) = <<>>
  <2>1. 1..B(0) = {}
    BY <1>2
  <2>2. slots(0) \in [1..B(0) -> Nat]
    BY <2>1
  <2>3. slots(0) \in Seq(Nat) /\ Len(slots(0)) = 0
    BY <1>2, <2>2
  <2> QED BY <2>3, EmptySeq
<1> HIDE DEF slots, same
<1> DEFINE all == [i \in 0..files |-> slots(i)]
<1>8. Loop(all)
  <2>1. ASSUME NEW i \in 0..files, i # 0
        PROVE  slots(i) = all[i - 1] \o same(i - 1)
    <3>1. i - 1 \in 0..(files - 1) /\ i - 1 \in 0..files /\ (i - 1) + 1 = i
      BY <2>1
    <3> QED BY <1>6, <3>1
  <2> QED BY <1>7, <2>1
<1> HIDE DEF all
<1>9. Loop(list)
  BY <1>8
<1> HIDE DEF list
<1> DEFINE S == {n \in Nat : n <= files => list[n] = slots(n)}
<1>10. 0 \in S
  BY <1>7, <1>9
<1>11. \A n \in Nat : n \in S => n + 1 \in S
  <2> TAKE n \in Nat
  <2> HAVE n \in S
  <2> SUFFICES ASSUME n + 1 <= files
               PROVE  list[n + 1] = slots(n + 1)
    OBVIOUS
  <2>1. n \in 0..(files - 1) /\ list[n] = slots(n) /\ n + 1 \in 0..files
        /\ n + 1 # 0 /\ (n + 1) - 1 = n
    OBVIOUS
  <2>2. list[n + 1] = list[n] \o same(n)
    BY <1>9, <2>1
  <2> QED BY <1>6, <2>1, <2>2
<1> HIDE DEF S
<1>12. Nat \subseteq S
  BY <1>10, <1>11, SetInduction
<1>13. list[files] = slots(files)
  BY <1>12 DEF S
<1>14. p + 1 \in 1..B(files) /\ (p + 1) - 1 = p
  BY <1>2
<1>15. slots(files)[p + 1] = F(p)
  BY <1>14 DEF slots
<1> QED BY <1>1, <1>13, <1>15 DEF F, list

-------------------------------------------------------------------------------
(* The loader *)

\* pc of the ranks that know their file, their communicator, their share.
HasFile(r) == pc[r] \in {"split", "share", "art", "done"}
HasComm(r) == pc[r] \in {"share", "art", "done"}
HasShare(r) == pc[r] \in {"art", "done"}

\* The ranks that load the file of rank r, once all of them know their file.
Sharers(r) == {p \in Ranks : index[p] = index[r]}

Assigned ==
  \A r \in Ranks : HasFile(r) =>
    nfiles \in 1..NRanks /\ index[r] = FileForRank(nfiles, r, NRanks)

Grouped ==
  \A r \in Ranks : HasComm(r) => local[r] = Sharers(r) /\ \A p \in Ranks : HasComm(p)

Shared ==
  \A r \in Ranks : HasShare(r) =>
    share[r] = SkipForRank(LocalRank(r), Cardinality(local[r]), nevents[index[r]])

\* What is loaded is in the share of a rank that is done, and of the share of a rank
\* that is done and did not fail everything is loaded.
Accounts ==
  /\ broken \subseteq {r \in Ranks : pc[r] = "done"}
  /\ \A f \in Files : \A e \in Numbers :
       /\ loaded[f][e] \in {0, 1}
       /\ loaded[f][e] = 1 =>
            /\ e < nevents[f]
            /\ \E r \in Ranks : pc[r] = "done" /\ index[r] = f /\ e \in Slice(share[r])
  /\ \A r \in Ranks : pc[r] = "done" /\ r \notin broken =>
       \A e \in Numbers : e \in Slice(share[r]) /\ e < nevents[index[r]] =>
         loaded[index[r]][e] = 1

Inv == TypeOK /\ Assigned /\ Grouped /\ Shared /\ Accounts

\* The place of a rank among the members of its communicator: the places are below
\* the size of the communicator, in the order of the ranks, and all of them are
\* taken.
LEMMA Places ==
  ASSUME NEW S \in SUBSET Ranks
  PROVE  /\ IsFiniteSet(S) /\ Cardinality(S) \in Nat
         /\ \A r \in S : Cardinality({p \in S : p < r}) \in 0..(Cardinality(S) - 1)
         /\ \A r, s \in S :
              r < s => Cardinality({p \in S : p < r}) < Cardinality({p \in S : p < s})
         /\ \A k \in 0..(Cardinality(S) - 1) :
              \E r \in S : Cardinality({p \in S : p < r}) = k
<1> DEFINE below(r) == {p \in S : p < r}
           place == [r \in S |-> Cardinality(below(r))]
           n == Cardinality(S)
<1>1. IsFiniteSet(S) /\ n \in Nat
  <2>1. 0 \in Int /\ NRanks - 1 \in Int
    BY SizesAssumption
  <2>2. IsFiniteSet(Ranks)
    BY <2>1, FS_Interval DEF Ranks
  <2> QED BY <2>2, FS_Subset, FS_CardinalityType
<1>2. \A r \in S : r \in Int
  BY SizesAssumption DEF Ranks
<1>3. \A r \in S : IsFiniteSet(below(r)) /\ Cardinality(below(r)) \in Nat
  <2> TAKE r \in S
  <2>1. below(r) \subseteq S
    OBVIOUS
  <2> QED BY <1>1, <2>1, FS_Subset, FS_CardinalityType
<1>4. ASSUME NEW r \in S, NEW T \in SUBSET S, below(r) \subseteq T, r \in T
      PROVE  Cardinality(below(r)) < Cardinality(T)
  <2>1. IsFiniteSet(T) /\ Cardinality(T) \in Nat
    BY <1>1, FS_Subset, FS_CardinalityType
  <2>2. below(r) # T
    BY <1>2, <1>4
  <2>3. Cardinality(below(r)) <= Cardinality(T)
        /\ (Cardinality(below(r)) = Cardinality(T) => below(r) = T)
    BY <1>4, <2>1, FS_Subset
  <2> QED BY <1>3, <2>1, <2>2, <2>3
<1>5. \A r \in S : Cardinality(below(r)) \in 0..(n - 1)
  <2> TAKE r \in S
  <2>1. Cardinality(below(r)) < n
    BY <1>4
  <2> QED BY <1>1, <1>3, <2>1
<1>6. \A r, s \in S : r < s => Cardinality(below(r)) < Cardinality(below(s))
  <2> TAKE r, s \in S
  <2> HAVE r < s
  <2>1. below(r) \subseteq below(s) /\ r \in below(s) /\ below(s) \in SUBSET S
    BY <1>2
  <2> QED BY <1>4, <2>1
<1>7. place \in Surjection(S, 0..(n - 1))
  <2> HIDE DEF below
  <2>1. place \in [S -> 0..(n - 1)]
    BY <1>5
  <2>2. \A r, s \in S : place[r] = place[s] => r = s
    <3> TAKE r, s \in S
    <3>1. r < s \/ s < r \/ r = s
      BY <1>2
    <3> QED BY <1>3, <1>6, <3>1
  <2>3. place \in Injection(S, 0..(n - 1))
    BY <2>1, <2>2 DEF Injection, IsInjective
  <2>4. IsFiniteSet(0..(n - 1)) /\ Cardinality(0..(n - 1)) = n
    <3>1. 0 \in Int /\ n - 1 \in Int
      BY <1>1
    <3>2. IsFiniteSet(0..(n - 1))
          /\ Cardinality(0..(n - 1)) = IF 0 > n - 1 THEN 0 ELSE (n - 1) - 0 + 1
      BY <3>1, FS_Interval
    <3> QED BY <1>1, <3>2
  <2> HIDE DEF place, n
  <2> QED BY <2>3, <2>4, FS_Injection DEF n
<1>8. \A k \in 0..(n - 1) : \E r \in S : Cardinality(below(r)) = k
  BY <1>7 DEF Surjection
<1> QED BY <1>1, <1>5, <1>6, <1>8

\* The share of a rank is a share of its file, and the shares of two ranks of a file
\* have no event in common.
LEMMA Shares ==
  ASSUME Inv, NEW r \in Ranks, HasShare(r)
  PROVE  /\ index[r] \in Files /\ nevents[index[r]] \in Nat
         /\ share[r].nskip \in Nat /\ share[r].nevents \in Nat
         /\ \A p \in Ranks :
              HasShare(p) /\ p # r /\ index[p] = index[r] =>
                Slice(share[p]) \cap Slice(share[r]) = {}
<1> DEFINE n == Cardinality(Sharers(r))
           m == nevents[index[r]]
           place(p) == Cardinality({q \in Sharers(r) : q < p})
<1>1. HasFile(r) /\ HasComm(r)
  BY DEF HasFile, HasComm, HasShare
<1>2. index[r] \in Files /\ m \in Nat
  <2>1. nfiles \in 1..NRanks /\ index[r] = FileForRank(nfiles, r, NRanks)
    BY <1>1 DEF Inv, Assigned
  <2>2. nfiles \in Nat \ {0} /\ NRanks \in Nat /\ r \in 0..(NRanks - 1)
    BY <2>1, SizesAssumption DEF Ranks
  <2>3. index[r] \in Files
    BY <2>1, <2>2, FileOfRank DEF Files
  <2> QED BY <2>3, SizesAssumption DEF Inv, TypeOK
<1>3. ASSUME NEW p \in Ranks, HasShare(p), index[p] = index[r]
      PROVE  share[p] = SkipForRank(place(p), n, m) /\ p \in Sharers(r)
  <2>1. HasComm(p)
    BY <1>3 DEF HasComm, HasShare
  <2>2. local[p] = Sharers(r)
    BY <1>3, <2>1 DEF Inv, Grouped, Sharers
  <2> QED BY <1>3, <2>2 DEF Inv, Shared, LocalRank, Sharers
<1>4. Sharers(r) \in SUBSET Ranks /\ r \in Sharers(r)
  BY DEF Sharers
<1>5. /\ n \in Nat
      /\ \A p \in Sharers(r) : place(p) \in 0..(n - 1)
      /\ \A p, q \in Sharers(r) : p < q => place(p) < place(q)
  BY <1>4, Places
<1> HIDE DEF n, m, place
<1>6. n \in Nat \ {0}
  BY <1>4, <1>5
<1>7. share[r] = SkipForRank(place(r), n, m)
  BY <1>3
<1>8. share[r].nskip \in Nat /\ share[r].nevents \in Nat
  BY <1>2, <1>4, <1>5, <1>6, <1>7, ShareForm
<1>9. ASSUME NEW p \in Ranks, HasShare(p), p # r, index[p] = index[r]
      PROVE  Slice(share[p]) \cap Slice(share[r]) = {}
  <2>1. share[p] = SkipForRank(place(p), n, m) /\ p \in Sharers(r)
    BY <1>3, <1>9
  <2>2. place(p) \in 0..(n - 1) /\ place(r) \in 0..(n - 1)
    BY <1>4, <1>5, <2>1
  <2>3. place(p) < place(r) \/ place(r) < place(p)
    <3>1. p < r \/ r < p
      BY <1>9, SizesAssumption DEF Ranks
    <3> QED BY <1>4, <1>5, <2>1, <3>1
  <2>4. CASE place(p) < place(r)
    BY <1>2, <1>6, <1>7, <2>1, <2>2, <2>4, SharesAreDisjoint DEF m
  <2>5. CASE place(r) < place(p)
    BY <1>2, <1>6, <1>7, <2>1, <2>2, <2>5, SharesAreDisjoint DEF m
  <2> QED BY <2>3, <2>4, <2>5
<1> QED BY <1>2, <1>8, <1>9 DEF m

LEMMA InitInv == Init => Inv
<1> SUFFICES ASSUME Init
             PROVE  Inv
  OBVIOUS
<1>1. TypeOK
  <2>1. NoShare \in [nskip : Nat, nevents : Nat]
    BY DEF NoShare
  <2> QED BY <2>1 DEF Init, TypeOK
<1>2. Assigned /\ Grouped /\ Shared
  BY DEF Init, Assigned, Grouped, Shared, HasFile, HasComm, HasShare
<1>3. Accounts
  BY DEF Init, Accounts
<1> QED BY <1>1, <1>2, <1>3 DEF Inv

LEMMA TooManyFilesKeepsInv ==
  ASSUME Inv, NEW r \in Ranks, TooManyFiles(r)
  PROVE  Inv'
<1> USE DEF Inv
<1>1. /\ pc[r] = "start" /\ pc' = [pc EXCEPT ![r] = "failed"]
      /\ UNCHANGED <<nfiles, nevents, index, local, share, loaded, broken>>
  BY DEF TooManyFiles
<1>2. pc \in [Ranks -> {"start", "split", "share", "art", "done", "failed"}]
  BY DEF TypeOK
<1>3. \A p \in Ranks : /\ HasFile(p)' <=> HasFile(p)
                       /\ HasComm(p)' <=> HasComm(p)
                       /\ HasShare(p)' <=> HasShare(p)
                       /\ pc'[p] = "done" <=> pc[p] = "done"
  BY <1>1, <1>2 DEF HasFile, HasComm, HasShare
<1>4. Files' = Files
  BY <1>1 DEF Files
<1>5. TypeOK'
  BY <1>1, <1>2, <1>4 DEF TypeOK
<1>6. Assigned'
  BY <1>1, <1>3 DEF Assigned
<1>7. Grouped'
  BY <1>1, <1>3 DEF Grouped, Sharers
<1>8. Shared'
  BY <1>1, <1>3 DEF Shared, LocalRank
<1>9. Accounts'
  BY <1>1, <1>3, <1>4 DEF Accounts
<1> QED BY <1>5, <1>6, <1>7, <1>8, <1>9

LEMMA CalculateIndexKeepsInv ==
  ASSUME Inv, NEW r \in Ranks, CalculateIndex(r)
  PROVE  Inv'
<1> USE DEF Inv
<1>1. /\ pc[r] = "start" /\ nfiles \in 1..NRanks
      /\ index' = [index EXCEPT ![r] = FileForRank(nfiles, r, NRanks)]
      /\ pc' = [pc EXCEPT ![r] = "split"]
      /\ UNCHANGED <<nfiles, nevents, local, share, loaded, broken>>
  BY DEF CalculateIndex
<1>2. /\ pc \in [Ranks -> {"start", "split", "share", "art", "done", "failed"}]
      /\ index \in [Ranks -> Files \cup {NoFile}]
  BY DEF TypeOK
<1>3. /\ \A p \in Ranks : p # r => (HasFile(p)' <=> HasFile(p)) /\ index'[p] = index[p]
      /\ \A p \in Ranks : HasShare(p)' <=> HasShare(p)
      /\ \A p \in Ranks : ~ HasComm(p) /\ ~ HasComm(p)' /\ ~ HasShare(p)' /\ pc'[p] # "done"
      /\ \A p \in Ranks : pc[p] # "done"
  BY <1>1, <1>2 DEF HasFile, HasComm, HasShare, Grouped
<1>4. Files' = Files
  BY <1>1 DEF Files
<1>5. TypeOK'
  <2>1. FileForRank(nfiles, r, NRanks) \in Files
    <3>1. nfiles \in Nat \ {0} /\ NRanks \in Nat /\ r \in 0..(NRanks - 1)
      BY <1>1, SizesAssumption DEF Ranks
    <3> QED BY <3>1, FileOfRank DEF Files
  <2> QED BY <1>1, <1>2, <1>4, <2>1 DEF TypeOK
<1>6. Assigned'
  BY <1>1, <1>2, <1>3 DEF Assigned
<1>7. Grouped' /\ Shared'
  BY <1>3 DEF Grouped, Shared
<1>8. Accounts'
  BY <1>1, <1>3, <1>4 DEF Accounts
<1> QED BY <1>5, <1>6, <1>7, <1>8

LEMMA CommSplitKeepsInv ==
  ASSUME Inv, CommSplit
  PROVE  Inv'
<1> USE DEF Inv
<1>1. /\ \A r \in Ranks : pc[r] = "split" /\ pc'[r] = "share"
      /\ local' = [r \in Ranks |-> {p \in Ranks : index[p] = index[r]}]
      /\ pc' = [r \in Ranks |-> "share"]
      /\ UNCHANGED <<nfiles, nevents, index, share, loaded, broken>>
  BY DEF CommSplit
<1>2. Files' = Files
  BY <1>1 DEF Files
<1>3. TypeOK'
  BY <1>1, <1>2 DEF TypeOK
<1>4. Assigned'
  BY <1>1 DEF Assigned, HasFile
<1>5. Grouped'
  BY <1>1 DEF Grouped, HasComm, Sharers
<1>6. Shared'
  BY <1>1 DEF Shared, HasShare
<1>7. Accounts'
  BY <1>1, <1>2 DEF Accounts
<1> QED BY <1>3, <1>4, <1>5, <1>6, <1>7

LEMMA ShareEventsKeepsInv ==
  ASSUME Inv, NEW r \in Ranks, ShareEvents(r)
  PROVE  Inv'
<1> USE DEF Inv
<1> DEFINE mine == SkipForRank(LocalRank(r), Cardinality(local[r]), nevents[index[r]])
<1>1. /\ pc[r] = "share" /\ pc' = [pc EXCEPT ![r] = "art"]
      /\ share' = [share EXCEPT ![r] = mine]
      /\ UNCHANGED <<nfiles, nevents, index, local, loaded, broken>>
  BY DEF ShareEvents
<1>2. /\ pc \in [Ranks -> {"start", "split", "share", "art", "done", "failed"}]
      /\ share \in [Ranks -> [nskip : Nat, nevents : Nat]]
  BY DEF TypeOK
<1>3. /\ \A p \in Ranks : /\ HasFile(p)' <=> HasFile(p)
                          /\ HasComm(p)' <=> HasComm(p)
                          /\ pc'[p] = "done" <=> pc[p] = "done"
      /\ \A p \in Ranks : p # r => (HasShare(p)' <=> HasShare(p)) /\ share'[p] = share[p]
      /\ share'[r] = mine
  BY <1>1, <1>2 DEF HasFile, HasComm, HasShare
<1>4. Files' = Files /\ \A p \in Ranks : LocalRank(p)' = LocalRank(p)
  BY <1>1 DEF Files, LocalRank
<1>5. TypeOK'
  <2>1. mine \in [nskip : Nat, nevents : Nat]
    <3> DEFINE q == nevents[index[r]] \div Cardinality(local[r])
               w == nevents[index[r]] % Cardinality(local[r])
    <3>1. index[r] \in Files /\ nevents[index[r]] \in Nat
      <4>1. nfiles \in 1..NRanks /\ index[r] = FileForRank(nfiles, r, NRanks)
        BY <1>1 DEF Assigned, HasFile
      <4>2. nfiles \in Nat \ {0} /\ NRanks \in Nat /\ r \in 0..(NRanks - 1)
        BY <4>1, SizesAssumption DEF Ranks
      <4>3. index[r] \in Files
        BY <4>1, <4>2, FileOfRank DEF Files
      <4> QED BY <4>3, SizesAssumption DEF TypeOK
    <3>2. local[r] = Sharers(r) /\ r \in local[r] /\ local[r] \in SUBSET Ranks
      BY <1>1 DEF Grouped, HasComm, Sharers
    <3>3. Cardinality(local[r]) \in Nat \ {0} /\ LocalRank(r) \in 0..(Cardinality(local[r]) - 1)
      BY <3>2, Places DEF LocalRank
    <3>4. mine.nskip \in Nat /\ mine.nevents \in Nat
      BY <3>1, <3>3, ShareForm
    <3>5. mine = [nskip |-> mine.nskip, nevents |-> mine.nevents]
      BY DEF SkipForRank
    <3> HIDE DEF mine
    <3> QED BY <3>4, <3>5
  <2> HIDE DEF mine
  <2> QED BY <1>1, <1>2, <1>4, <2>1 DEF TypeOK
<1>6. Assigned'
  BY <1>1, <1>3 DEF Assigned
<1>7. Grouped'
  BY <1>1, <1>3 DEF Grouped, Sharers
<1>8. Shared'
  BY <1>1, <1>3, <1>4 DEF Shared
<1>9. Accounts'
  <2>1. \A p \in Ranks : pc[p] = "done" => share'[p] = share[p]
    BY <1>1, <1>3
  <2> HIDE DEF mine
  <2> QED BY <1>1, <1>3, <1>4, <2>1 DEF Accounts
<1> QED BY <1>5, <1>6, <1>7, <1>8, <1>9

\* What a rank stores, all of its share or the part before the failure, no rank of
\* its file has stored before.
LEMMA StoresKeepsInv ==
  ASSUME Inv, NEW r \in Ranks, pc[r] = "art", NEW n \in Nat, Stores(r, n),
         \/ n = share[r].nevents /\ broken' = broken
         \/ broken' = broken \cup {r}
  PROVE  Inv'
<1> USE DEF Inv
<1> DEFINE f == index[r]
           new == {e \in Numbers : e \in FirstOfShare(r, n) /\ e < nevents[f]}
<1>1. /\ pc' = [pc EXCEPT ![r] = "done"]
      /\ UNCHANGED <<nfiles, nevents, index, local, share>>
  BY DEF Stores
<1>2. /\ pc \in [Ranks -> {"start", "split", "share", "art", "done", "failed"}]
      /\ loaded \in [Files -> [Numbers -> Nat]]
  BY DEF TypeOK
<1>3. /\ \A p \in Ranks : /\ HasFile(p)' <=> HasFile(p)
                          /\ HasComm(p)' <=> HasComm(p)
                          /\ HasShare(p)' <=> HasShare(p)
                          /\ pc[p] = "done" => HasShare(p)
      /\ \A p \in Ranks : p # r => pc'[p] = pc[p]
      /\ pc'[r] = "done" /\ HasShare(r)
  BY <1>1, <1>2 DEF HasFile, HasComm, HasShare
<1>4. Files' = Files /\ \A p \in Ranks : LocalRank(p)' = LocalRank(p)
  BY <1>1 DEF Files, LocalRank
<1>5. /\ f \in Files /\ nevents[f] \in Nat
      /\ share[r].nskip \in Nat /\ share[r].nevents \in Nat
      /\ \A p \in Ranks : HasShare(p) /\ p # r /\ index[p] = f =>
           Slice(share[p]) \cap Slice(share[r]) = {}
  BY <1>3, Shares
<1>6. FirstOfShare(r, n) \subseteq Slice(share[r])
  BY DEF FirstOfShare
<1>7. n = share[r].nevents => FirstOfShare(r, n) = Slice(share[r])
  BY <1>5 DEF FirstOfShare, Slice
<1>8. loaded' = [loaded EXCEPT ![f] =
                   [e \in Numbers |-> IF e \in new THEN loaded[f][e] + 1 ELSE loaded[f][e]]]
  <2>1. DOMAIN loaded[f] = Numbers
    BY <1>2, <1>5
  <2> QED BY <2>1, <1>5, <1>2 DEF Stores
<1>9. /\ \A g \in Files : g # f => loaded'[g] = loaded[g]
      /\ \A e \in Numbers : loaded'[f][e] = IF e \in new THEN loaded[f][e] + 1 ELSE loaded[f][e]
  <2> HIDE DEF new, f
  <2> QED BY <1>2, <1>5, <1>8
<1>10. \A e \in new : loaded[f][e] = 0
  <2> SUFFICES ASSUME NEW e \in new, loaded[f][e] = 1
               PROVE  FALSE
    BY <1>5 DEF Accounts
  <2>1. PICK p \in Ranks : pc[p] = "done" /\ index[p] = f /\ e \in Slice(share[p])
    BY <1>5 DEF Accounts
  <2>2. p # r /\ HasShare(p)
    BY <1>3, <2>1
  <2> QED BY <1>5, <1>6, <2>1, <2>2
<1>11. TypeOK'
  <2>1. loaded' \in [Files -> [Numbers -> Nat]]
    <3>1. [e \in Numbers |-> IF e \in new THEN loaded[f][e] + 1 ELSE loaded[f][e]]
            \in [Numbers -> Nat]
      <4> HIDE DEF new, f
      <4> QED BY <1>2, <1>5
    <3> HIDE DEF new, f
    <3> QED BY <1>2, <1>5, <1>8, <3>1
  <2>2. broken' \in SUBSET Ranks
    BY DEF TypeOK
  <2> HIDE DEF new, f
  <2> QED BY <1>1, <1>2, <1>4, <2>1, <2>2 DEF TypeOK
<1>12. Assigned'
  BY <1>1, <1>3 DEF Assigned
<1>13. Grouped'
  BY <1>1, <1>3 DEF Grouped, Sharers
<1>14. Shared'
  BY <1>1, <1>3, <1>4 DEF Shared
<1>15. Accounts'
  <2>1. broken' \subseteq {p \in Ranks : pc'[p] = "done"}
    BY <1>3 DEF Accounts
  <2>2. ASSUME NEW g \in Files, NEW e \in Numbers
        PROVE  /\ loaded'[g][e] \in {0, 1}
               /\ loaded'[g][e] = 1 =>
                    /\ e < nevents[g]
                    /\ \E p \in Ranks : pc'[p] = "done" /\ index[p] = g /\ e \in Slice(share[p])
    <3>1. /\ loaded[g][e] \in {0, 1}
          /\ loaded[g][e] = 1 =>
               /\ e < nevents[g]
               /\ \E p \in Ranks : pc'[p] = "done" /\ index[p] = g /\ e \in Slice(share[p])
      BY <1>3 DEF Accounts
    <3>2. CASE g = f /\ e \in new
      <4>1. loaded'[g][e] = 1
        BY <1>9, <1>10, <3>2
      <4>2. e < nevents[g] /\ pc'[r] = "done" /\ index[r] = g /\ e \in Slice(share[r])
        BY <1>3, <1>6, <3>2
      <4> QED BY <4>1, <4>2
    <3>3. CASE ~ (g = f /\ e \in new)
      <4>1. loaded'[g][e] = loaded[g][e]
        <5> HIDE DEF new, f
        <5> QED BY <1>9, <3>3
      <4> QED BY <3>1, <4>1
    <3> QED BY <3>2, <3>3
  <2>3. ASSUME NEW p \in Ranks, pc'[p] = "done", p \notin broken',
               NEW e \in Numbers, e \in Slice(share[p]), e < nevents[index[p]]
        PROVE  loaded'[index[p]][e] = 1
    <3>1. CASE p = r
      <4>1. n = share[r].nevents
        BY <2>3, <3>1
      <4>2. e \in new
        BY <1>7, <2>3, <3>1, <4>1
      <4> QED BY <1>9, <1>10, <3>1, <4>2
    <3>2. CASE p # r
      <4>1. pc[p] = "done" /\ p \notin broken /\ HasShare(p)
        BY <1>3, <2>3, <3>2
      <4>2. loaded[index[p]][e] = 1
        BY <2>3, <4>1 DEF Accounts
      <4>3. index[p] \in Files
        BY <4>1, Shares
      <4>4. ~ (index[p] = f /\ e \in new)
        BY <1>10, <4>2
      <4> HIDE DEF new, f
      <4> QED BY <1>9, <4>2, <4>3, <4>4
    <3> QED BY <3>1, <3>2
  <2> HIDE DEF new, f
  <2> QED BY <1>1, <1>4, <2>1, <2>2, <2>3 DEF Accounts
<1> QED BY <1>11, <1>12, <1>13, <1>14, <1>15

LEMMA RunArtKeepsInv ==
  ASSUME Inv, NEW r \in Ranks, RunArt(r)
  PROVE  Inv'
<1>1. pc[r] = "art"
  BY DEF RunArt
<1>2. share[r].nevents \in Nat
  BY <1>1, Shares DEF HasShare
<1>3. CASE Stores(r, share[r].nevents) /\ UNCHANGED broken
  BY <1>1, <1>2, <1>3, StoresKeepsInv
<1>4. CASE (\E n \in 0..(share[r].nevents - 1) : Stores(r, n)) /\ broken' = broken \cup {r}
  <2>1. PICK n \in 0..(share[r].nevents - 1) : Stores(r, n)
    BY <1>4
  <2>2. n \in Nat
    BY <1>2
  <2> QED BY <1>1, <1>4, <2>1, <2>2, StoresKeepsInv
<1> QED BY <1>3, <1>4 DEF RunArt

THEOREM LoaderInvariant == Spec => []Inv
<1>1. Init => Inv
  BY InitInv
<1>2. Inv /\ [Next]_vars => Inv'
  <2> SUFFICES ASSUME Inv, [Next]_vars
               PROVE  Inv'
    OBVIOUS
  <2>1. ASSUME NEW r \in Ranks, RankStep(r)
        PROVE  Inv'
    BY <2>1, TooManyFilesKeepsInv, CalculateIndexKeepsInv, ShareEventsKeepsInv,
       RunArtKeepsInv DEF RankStep
  <2>2. CASE CommSplit
    BY <2>2, CommSplitKeepsInv
  <2>3. CASE UNCHANGED vars
    BY <2>3 DEF vars, Inv, TypeOK, Assigned, Grouped, Shared, Accounts, Files, HasFile,
                HasComm, HasShare, Sharers, LocalRank
  <2> QED BY <2>1, <2>2, <2>3 DEF Next, Terminated
<1> QED BY <1>1, <1>2, PTL DEF Spec

\* TypeOK of mpi_loader, for any ranks, files and events: every rank that computes a
\* file finds one of the list.
THEOREM LoaderTypes == Spec => []TypeOK
<1>1. Inv => TypeOK
  BY DEF Inv
<1> QED BY <1>1, LoaderInvariant, PTL

\* Every file has a rank: there are at least as many ranks as files.
LEMMA FilesHaveRanks ==
  ASSUME Inv, NEW f \in Files, \A r \in Ranks : HasFile(r)
  PROVE  /\ nfiles \in 1..NRanks
         /\ \E r \in Ranks : index[r] = f
         /\ {r \in Ranks : index[r] = f}
              = FirstRank(nfiles, NRanks, f)..(FirstRank(nfiles, NRanks, f + 1) - 1)
<1>1. 0 \in Ranks
  BY SizesAssumption DEF Ranks
<1>2. nfiles \in 1..NRanks /\ \A r \in Ranks : index[r] = FileForRank(nfiles, r, NRanks)
  BY <1>1 DEF Inv, Assigned
<1>3. nfiles \in Nat \ {0} /\ NRanks \in Nat /\ f \in 0..(nfiles - 1) /\ f \in Nat
  BY <1>2, SizesAssumption DEF Files
<1> DEFINE B(i) == FirstRank(nfiles, NRanks, i)
<1>4. {r \in Ranks : index[r] = f} = B(f)..(B(f + 1) - 1)
  BY <1>2, <1>3, RanksOfFile DEF Ranks
<1>5. B(f) \in Nat /\ B(f + 1) = B(f) + RanksForFile(nfiles, NRanks, f)
  BY <1>3, FirstRankSteps
<1>6. RanksForFile(nfiles, NRanks, f) >= 1 /\ RanksForFile(nfiles, NRanks, f) \in Nat
  <2> DEFINE q == NRanks \div nfiles
             w == NRanks % nfiles
  <2>1. q \in Nat /\ w \in Nat /\ w < nfiles /\ NRanks = nfiles * q + w
    BY <1>3, Division
  <2>2. q # 0
    <3> HIDE DEF q, w
    <3>1. q = 0 => nfiles * q = 0
      BY <1>3
    <3> QED BY <1>2, <1>3, <2>1, <3>1
  <2>3. RanksForFile(nfiles, NRanks, f) = q + (IF f < w THEN 1 ELSE 0)
    BY DEF RanksForFile
  <2> HIDE DEF q, w
  <2> QED BY <2>1, <2>2, <2>3
<1>7. B(f) \in {r \in Ranks : index[r] = f}
  <2> HIDE DEF B
  <2> QED BY <1>4, <1>5, <1>6
<1> QED BY <1>2, <1>4, <1>7

\* LoadedOnce for any ranks, files and events and any number of failing jobs.
THEOREM EventsAreLoadedOnce == Spec => []LoadedOnce
<1>1. Inv => LoadedOnce
  <2> SUFFICES ASSUME Inv, NEW f \in Files, NEW e \in Numbers
               PROVE  /\ loaded[f][e] <= 1
                      /\ e >= nevents[f] => loaded[f][e] = 0
                      /\ (\A r \in Ranks : pc[r] = "done") /\ e < nevents[f] =>
                           \/ loaded[f][e] = 1
                           \/ \E r \in broken : index[r] = f /\ e \in Slice(share[r])
    BY DEF LoadedOnce
  <2>1. nevents[f] \in Nat /\ e \in Nat
    BY SizesAssumption DEF Inv, TypeOK, Numbers
  <2>2. loaded[f][e] <= 1 /\ (e >= nevents[f] => loaded[f][e] = 0)
    BY <2>1 DEF Inv, Accounts
  <2>3. ASSUME \A r \in Ranks : pc[r] = "done", e < nevents[f]
        PROVE  \/ loaded[f][e] = 1
               \/ \E r \in broken : index[r] = f /\ e \in Slice(share[r])
    <3>1. \A r \in Ranks : HasFile(r) /\ HasComm(r) /\ HasShare(r)
      BY <2>3 DEF HasFile, HasComm, HasShare
    <3>2. PICK any \in Ranks : index[any] = f
      BY <3>1, FilesHaveRanks
    <3> DEFINE S == Sharers(any)
               n == Cardinality(S)
               place(r) == Cardinality({p \in S : p < r})
    <3>3. S \in SUBSET Ranks /\ any \in S
      BY DEF Sharers
    <3>4. /\ n \in Nat /\ place(any) \in 0..(n - 1)
          /\ \A k \in 0..(n - 1) : \E r \in S : place(r) = k
      BY <3>3, Places
    <3>5. \A r \in S : /\ r \in Ranks /\ index[r] = f
                      /\ share[r] = SkipForRank(place(r), n, nevents[f])
      <4> TAKE r \in S
      <4>1. r \in Ranks /\ index[r] = f
        BY <3>2 DEF Sharers
      <4>2. local[r] = S
        BY <3>1, <3>2, <4>1 DEF Inv, Grouped, Sharers
      <4> QED BY <3>1, <4>1, <4>2 DEF Inv, Shared, LocalRank
    <3> HIDE DEF n, place
    <3>6. n \in Nat \ {0} /\ e \in 0..(nevents[f] - 1)
      BY <2>1, <2>3, <3>4
    <3>7. PICK k \in 0..(n - 1) : e \in Slice(SkipForRank(k, n, nevents[f]))
      BY <2>1, <3>6, SharesCover
    <3>8. PICK r \in S : place(r) = k
      BY <3>4
    <3>9. r \in Ranks /\ index[r] = f /\ e \in Slice(share[r])
      BY <3>5, <3>7, <3>8
    <3> QED BY <2>3, <3>9 DEF Inv, Accounts
  <2> QED BY <2>2, <2>3
<1> QED BY <1>1, LoaderInvariant, PTL

\* Balanced for any ranks, files and events.
THEOREM WorkIsBalanced == Spec => []Balanced
<1>1. Inv => Balanced
  <2> SUFFICES ASSUME Inv, \A r \in Ranks : pc[r] \in {"art", "done"}
               PROVE  /\ \A f, g \in Files :
                           Cardinality({r \in Ranks : index[r] = f})
                             <= Cardinality({r \in Ranks : index[r] = g}) + 1
                      /\ \A r, p \in Ranks :
                           index[r] = index[p] => share[r].nevents <= share[p].nevents + 1
    BY DEF Balanced
  <2>1. \A r \in Ranks : HasFile(r) /\ HasComm(r) /\ HasShare(r)
    BY DEF HasFile, HasComm, HasShare
  <2>2. ASSUME NEW f \in Files
        PROVE  Cardinality({r \in Ranks : index[r] = f}) \in
                 {NRanks \div nfiles, NRanks \div nfiles + 1} /\ NRanks \div nfiles \in Nat
    <3>1. nfiles \in 1..NRanks
          /\ {r \in Ranks : index[r] = f}
               = FirstRank(nfiles, NRanks, f)..(FirstRank(nfiles, NRanks, f + 1) - 1)
      BY <2>1, FilesHaveRanks
    <3>2. nfiles \in Nat \ {0} /\ NRanks \in Nat /\ f \in Nat
      BY <3>1, SizesAssumption DEF Files
    <3>3. /\ FirstRank(nfiles, NRanks, f) \in Nat
          /\ RanksForFile(nfiles, NRanks, f) \in Nat
          /\ FirstRank(nfiles, NRanks, f + 1)
               = FirstRank(nfiles, NRanks, f) + RanksForFile(nfiles, NRanks, f)
      BY <3>2, FirstRankSteps
    <3>4. Cardinality({r \in Ranks : index[r] = f}) = RanksForFile(nfiles, NRanks, f)
      <4> DEFINE a == FirstRank(nfiles, NRanks, f)
                 b == FirstRank(nfiles, NRanks, f + 1) - 1
      <4>1. a \in Int /\ b \in Int /\ b = a + RanksForFile(nfiles, NRanks, f) - 1
        BY <3>3
      <4>2. Cardinality(a..b) = IF a > b THEN 0 ELSE b - a + 1
        BY <4>1, FS_Interval
      <4> HIDE DEF a, b
      <4>3. Cardinality(a..b) = RanksForFile(nfiles, NRanks, f)
        BY <3>3, <4>1, <4>2
      <4> QED BY <3>1, <4>3 DEF a, b
    <3>5. NRanks \div nfiles \in Nat
      BY <3>2, Division
    <3> QED BY <3>4, <3>5 DEF RanksForFile
  <2>3. ASSUME NEW r \in Ranks, NEW p \in Ranks, index[r] = index[p]
        PROVE  share[r].nevents <= share[p].nevents + 1
    <3> DEFINE S == Sharers(r)
               n == Cardinality(S)
               m == nevents[index[r]]
    <3>1. S \in SUBSET Ranks /\ r \in S /\ p \in S /\ local[r] = S /\ local[p] = S
      BY <2>1, <2>3 DEF Inv, Grouped, Sharers
    <3>2. n \in Nat /\ LocalRank(r) \in 0..(n - 1) /\ LocalRank(p) \in 0..(n - 1)
      BY <3>1, Places DEF LocalRank
    <3>3. m \in Nat
      BY <2>1, Shares
    <3>4. share[r] = SkipForRank(LocalRank(r), n, m) /\ share[p] = SkipForRank(LocalRank(p), n, m)
      BY <2>1, <2>3, <3>1 DEF Inv, Shared
    <3> HIDE DEF n, m
    <3>5. n \in Nat \ {0} /\ m \div n \in Nat
      BY <3>2, <3>3, Division
    <3>6. /\ share[r].nevents = m \div n + (IF LocalRank(r) < m % n THEN 1 ELSE 0)
          /\ share[p].nevents = m \div n + (IF LocalRank(p) < m % n THEN 1 ELSE 0)
      BY <3>2, <3>3, <3>4, <3>5, ShareForm
    <3> QED BY <3>5, <3>6
  <2> QED BY <2>2, <2>3
<1> QED BY <1>1, LoaderInvariant, PTL

\* AgreesWithNumerology for any ranks, files and events.
THEOREM NumerologyIsTheLoader == Spec => []AgreesWithNumerology
<1>1. Inv => AgreesWithNumerology
  <2> SUFFICES ASSUME Inv, NEW r \in Ranks
               PROVE  /\ pc[r] = "split" => index[r] = RanksBySlot(NRanks, nfiles)[r + 1]
                      /\ pc[r] = "art" =>
                           LET slice == CalculateSliceForRank(LocalRank(r), Cardinality(local[r]),
                                                              nevents[index[r]])
                           IN /\ share[r].nskip = slice.low
                              /\ share[r].nskip + share[r].nevents = slice.high
    BY DEF AgreesWithNumerology
  <2>1. ASSUME pc[r] = "split"
        PROVE  index[r] = RanksBySlot(NRanks, nfiles)[r + 1]
    <3>1. nfiles \in 1..NRanks /\ index[r] = FileForRank(nfiles, r, NRanks)
      BY <2>1 DEF Inv, Assigned, HasFile
    <3>2. nfiles \in Nat \ {0} /\ NRanks \in Nat /\ r \in 0..(NRanks - 1)
      BY <3>1, SizesAssumption DEF Ranks
    <3> QED BY <3>1, <3>2, SlotsAreFiles
  <2>2. ASSUME pc[r] = "art"
        PROVE  LET slice == CalculateSliceForRank(LocalRank(r), Cardinality(local[r]),
                                                  nevents[index[r]])
               IN /\ share[r].nskip = slice.low
                  /\ share[r].nskip + share[r].nevents = slice.high
    <3>1. HasComm(r) /\ HasShare(r)
      BY <2>2 DEF HasComm, HasShare
    <3>2. local[r] \in SUBSET Ranks /\ r \in local[r]
      BY <3>1 DEF Inv, Grouped, Sharers
    <3>3. Cardinality(local[r]) \in Nat /\ LocalRank(r) \in 0..(Cardinality(local[r]) - 1)
      BY <3>2, Places DEF LocalRank
    <3>4. Cardinality(local[r]) \in Nat \ {0} /\ nevents[index[r]] \in Nat
      BY <3>1, <3>3, Shares
    <3>5. share[r] = SkipForRank(LocalRank(r), Cardinality(local[r]), nevents[index[r]])
      BY <3>1 DEF Inv, Shared
    <3> QED BY <3>3, <3>4, <3>5, NumerologyAgrees
  <2> QED BY <2>1, <2>2
<1> QED BY <1>1, LoaderInvariant, PTL
===============================================================================
