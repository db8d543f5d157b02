----------------------------- MODULE ReplaysProofs -----------------------------
(***************************************************************************)
(* What the tools that carry out several actions answer agrees with what   *)
(* they did, for any calls, records, screens and bounds.                   *)
(***************************************************************************)
EXTENDS Replays, FiniteSetTheorems, SequenceTheorems, TLAPS

\* A sequence without repetitions, and what it contains.
Distinct(s) == \A i, j \in DOMAIN s : s[i] = s[j] => i = j
Values(s) == {s[i] : i \in DOMAIN s}

\* A sequence of falling numbers, and one that another begins with.
Downwards(s) == \A i, j \in DOMAIN s : i < j => s[i] > s[j]
Begins(s, all) ==
    Len(s) <= Len(all) /\ \A i \in DOMAIN s : i \in DOMAIN all /\ s[i] = all[i]

-----------------------------------------------------------------------------
\* The rank of a number among those of a set numbers the set, upwards.
LEMMA Ranks ==
    ASSUME NEW S \in SUBSET Nat, IsFiniteSet(S)
    PROVE  /\ Cardinality(S) \in Nat
           /\ \A i \in S : Rank(S, i) \in 1..Cardinality(S)
           /\ \A i, j \in S : i < j => Rank(S, i) < Rank(S, j)
<1> DEFINE Below(i) == {j \in S : j <= i}
<1>1. Cardinality(S) \in Nat
  BY FS_CardinalityType
<1>2. ASSUME NEW i \in S
      PROVE  /\ IsFiniteSet(Below(i)) /\ Cardinality(Below(i)) \in Nat
             /\ Cardinality(Below(i)) <= Cardinality(S) /\ Cardinality(Below(i)) # 0
  <2> DEFINE C == Below(i)
  <2>1. C \in SUBSET S /\ C # {}
    <3>1. i <= i
      BY <1>2
    <3> QED BY <1>2, <3>1
  <2> HIDE DEF C
  <2>2. IsFiniteSet(C) /\ Cardinality(C) <= Cardinality(S)
    BY <2>1, FS_Subset
  <2>3. Cardinality(C) \in Nat
    BY <2>2, FS_CardinalityType
  <2>4. Cardinality(C) # 0
    BY <2>1, <2>2, FS_EmptySet
  <2> QED BY <2>2, <2>3, <2>4 DEF C
<1>3. ASSUME NEW i \in S, NEW j \in S, i < j
      PROVE  Cardinality(Below(i)) < Cardinality(Below(j))
  <2>1. Below(i) \subseteq Below(j) /\ j \in Below(j) /\ j \notin Below(i)
    <3>1. i \in Nat /\ j \in Nat /\ ~(j <= i) /\ j <= j
      BY <1>3
    <3>2. \A k \in S : k \in Nat /\ (k <= i => k <= j)
      BY <3>1, <1>3
    <3> QED BY <3>1, <3>2
  <2>2. IsFiniteSet(Below(j)) /\ Cardinality(Below(i)) \in Nat /\ Cardinality(Below(j)) \in Nat
    BY <1>2
  <2> HIDE DEF Below
  <2> QED BY <2>1, <2>2, FS_Subset
<1> QED BY <1>1, <1>2, <1>3 DEF Rank

\* InOrder lists every number of the set once.
LEMMA InOrderLists ==
    ASSUME NEW S \in SUBSET Nat, IsFiniteSet(S)
    PROVE  /\ InOrder(S) \in Seq(S) /\ Len(InOrder(S)) = Cardinality(S)
           /\ Distinct(InOrder(S)) /\ Cardinality(S) \in Nat
           /\ \A k \in 1..Cardinality(S) : InOrder(S)[k] \in S /\ Rank(S, InOrder(S)[k]) = k
<1> DEFINE n == Cardinality(S)
           f == [i \in S |-> Rank(S, i)]
<1>1. n \in Nat
  BY Ranks
<1>2. f \in Injection(S, 1..n)
  <2>1. f \in [S -> 1..n]
    BY Ranks
  <2>2. \A i, j \in S : f[i] = f[j] => i = j
    <3> SUFFICES ASSUME NEW i \in S, NEW j \in S, i # j PROVE f[i] # f[j]
      OBVIOUS
    <3>1. i < j \/ j < i
      OBVIOUS
    <3>2. f[i] \in Nat /\ f[j] \in Nat
      BY <2>1
    <3> QED BY <3>1, <3>2, Ranks
  <2> QED BY <2>1, <2>2 DEF Injection, IsInjective
<1>3. IsFiniteSet(1..n) /\ Cardinality(1..n) = n
  BY <1>1, FS_Interval
<1>4. f \in Surjection(S, 1..n)
  <2> HIDE DEF f
  <2> QED BY <1>2, <1>3, FS_Injection
<1>5. \A k \in 1..n : \E i \in S : Rank(S, i) = k
  BY <1>4 DEF Surjection
<1>6. \A k \in 1..n : InOrder(S)[k] \in S /\ Rank(S, InOrder(S)[k]) = k
  BY <1>5 DEF InOrder
<1>7. DOMAIN InOrder(S) = 1..n
  BY DEF InOrder
<1>8. InOrder(S) \in Seq(S) /\ Len(InOrder(S)) = n
  <2>1. InOrder(S) \in [1..n -> S]
    BY <1>6 DEF InOrder
  <2> QED BY <1>1, <2>1
<1> QED BY <1>1, <1>6, <1>7, <1>8 DEF Distinct

\* What is left out and what is picked are together the sequence, each element once.
LEMMA PickedSplit ==
    ASSUME NEW T, NEW s \in Seq(T), Distinct(s), NEW A \in SUBSET DOMAIN s
    PROVE  LET rest == Picked(s, DOMAIN s \ A)
               all == rest \o Picked(s, A)
           IN  /\ rest \in Seq(T) /\ Picked(s, A) \in Seq(T)
               /\ Distinct(all) /\ Values(all) \subseteq Values(s) /\ Len(all) = Len(s)
<1> DEFINE B == DOMAIN s \ A
           a == Picked(s, A)
           b == Picked(s, B)
           all == b \o a
<1>1. DOMAIN s = 1..Len(s) /\ Len(s) \in Nat /\ A \in SUBSET Nat /\ B \in SUBSET Nat
  OBVIOUS
<1>2. /\ IsFiniteSet(A) /\ IsFiniteSet(B) /\ IsFiniteSet(DOMAIN s)
      /\ Cardinality(DOMAIN s) = Len(s)
  <2>1. IsFiniteSet(1..Len(s)) /\ Cardinality(1..Len(s)) = Len(s)
    <3> DEFINE n == Len(s)
    <3>1. n \in Nat
      BY <1>1
    <3> HIDE DEF n
    <3>2. IsFiniteSet(1..n) /\ Cardinality(1..n) = IF 1 > n THEN 0 ELSE n - 1 + 1
      BY <3>1, FS_Interval
    <3> QED BY <3>1, <3>2 DEF n
  <2>2. A \in SUBSET (1..Len(s)) /\ B \in SUBSET (1..Len(s))
    BY <1>1
  <2> HIDE DEF B
  <2> QED BY <1>1, <2>1, <2>2, FS_Subset
<1>3. Cardinality(A) + Cardinality(B) = Len(s)
  <2>1. Cardinality(A \cup B) = Cardinality(A) + Cardinality(B) - Cardinality(A \cap B)
    BY <1>2, FS_Union
  <2>2. A \cup B = DOMAIN s /\ A \cap B = {}
    OBVIOUS
  <2>3. Cardinality(A) \in Nat /\ Cardinality(B) \in Nat
    BY <1>2, FS_CardinalityType
  <2>4. Cardinality({}) = 0
    BY FS_EmptySet
  <2> HIDE DEF B
  <2>5. Cardinality(A) + Cardinality(B) - 0 = Len(s)
    BY <1>2, <2>1, <2>2, <2>4
  <2> QED BY <2>3, <2>5
<1>4. \A S \in {A, B} :
        /\ InOrder(S) \in Seq(S) /\ Len(InOrder(S)) = Cardinality(S)
        /\ Distinct(InOrder(S)) /\ Cardinality(S) \in Nat
  <2> HIDE DEF B
  <2> QED BY <1>1, <1>2, InOrderLists
<1>5. \A S \in {A, B} :
        /\ Picked(s, S) \in Seq(T) /\ Len(Picked(s, S)) = Cardinality(S)
        /\ \A k \in 1..Cardinality(S) :
             InOrder(S)[k] \in S /\ Picked(s, S)[k] = s[InOrder(S)[k]]
        /\ \A k, l \in 1..Cardinality(S) : InOrder(S)[k] = InOrder(S)[l] => k = l
  <2> TAKE S \in {A, B}
  <2>1. S \subseteq DOMAIN s
    OBVIOUS
  <2> HIDE DEF B
  <2>2. \A k \in 1..Cardinality(S) : InOrder(S)[k] \in S
    BY <1>4
  <2>3. Picked(s, S) \in [1..Cardinality(S) -> T]
    <3>1. \A k \in 1..Cardinality(S) : s[InOrder(S)[k]] \in T
      BY <2>1, <2>2
    <3> QED BY <3>1 DEF Picked
  <2>4. DOMAIN InOrder(S) = 1..Cardinality(S)
    BY <1>4
  <2>5. \A k, l \in 1..Cardinality(S) : InOrder(S)[k] = InOrder(S)[l] => k = l
    BY <1>4, <2>4 DEF Distinct
  <2>6. Picked(s, S) \in Seq(T) /\ Len(Picked(s, S)) = Cardinality(S)
    BY <1>4, <2>3
  <2> QED BY <2>2, <2>5, <2>6 DEF Picked
<1>6. Len(all) = Len(s) /\ all \in Seq(T)
  <2> HIDE DEF B
  <2> QED BY <1>3, <1>4, <1>5
<1>7. ASSUME NEW i \in DOMAIN all
      PROVE  \E k \in DOMAIN s :
               /\ all[i] = s[k]
               /\ \/ i <= Cardinality(B) /\ k \in B /\ k = InOrder(B)[i]
                  \/ i > Cardinality(B) /\ k \in A /\ k = InOrder(A)[i - Cardinality(B)]
  <2>1. CASE i <= Cardinality(B)
    <3>1. i \in 1..Cardinality(B) /\ all[i] = b[i]
      <4> HIDE DEF B
      <4> QED BY <1>4, <1>5, <1>6, <2>1
    <3>2. InOrder(B)[i] \in B /\ b[i] = s[InOrder(B)[i]]
      <4> HIDE DEF B
      <4> QED BY <1>5, <3>1
    <3>3. InOrder(B)[i] \in DOMAIN s
      BY <3>2
    <3> HIDE DEF B, b, all
    <3> QED BY <2>1, <3>1, <3>2, <3>3
  <2>2. CASE i > Cardinality(B)
    <3> DEFINE l == i - Cardinality(B)
    <3>1. l \in 1..Cardinality(A) /\ all[i] = a[l]
      <4> HIDE DEF B
      <4> QED BY <1>3, <1>4, <1>5, <1>6, <2>2
    <3>2. InOrder(A)[l] \in A /\ a[l] = s[InOrder(A)[l]]
      <4> HIDE DEF B, l
      <4> QED BY <1>5, <3>1
    <3>3. InOrder(A)[l] \in DOMAIN s
      BY <3>2
    <3> HIDE DEF B, a, all
    <3> QED BY <2>2, <3>1, <3>2, <3>3
  <2>3. i \in Nat /\ Cardinality(B) \in Nat
    <3> HIDE DEF B
    <3> QED BY <1>4, <1>6
  <2> HIDE DEF B, a, b, all
  <2> QED BY <2>1, <2>2, <2>3
<1>8. Values(all) \subseteq Values(s)
  <2> HIDE DEF all
  <2> QED BY <1>7 DEF Values
<1>9. Distinct(all)
  <2> SUFFICES ASSUME NEW i \in DOMAIN all, NEW j \in DOMAIN all, all[i] = all[j]
               PROVE  i = j
    BY DEF Distinct
  <2>1. PICK k \in DOMAIN s :
          /\ all[i] = s[k]
          /\ \/ i <= Cardinality(B) /\ k \in B /\ k = InOrder(B)[i]
             \/ i > Cardinality(B) /\ k \in A /\ k = InOrder(A)[i - Cardinality(B)]
    BY <1>7
  <2>2. PICK l \in DOMAIN s :
          /\ all[j] = s[l]
          /\ \/ j <= Cardinality(B) /\ l \in B /\ l = InOrder(B)[j]
             \/ j > Cardinality(B) /\ l \in A /\ l = InOrder(A)[j - Cardinality(B)]
    BY <1>7
  <2>3. k = l /\ A \cap B = {}
    BY <2>1, <2>2 DEF Distinct
  <2>4. /\ i \in 1..Len(s) /\ j \in 1..Len(s) /\ Cardinality(A) \in Nat /\ Cardinality(B) \in Nat
        /\ Len(s) = Cardinality(A) + Cardinality(B)
    <3> HIDE DEF B
    <3> QED BY <1>3, <1>4, <1>6
  <2> HIDE DEF B, all
  <2>5. CASE i <= Cardinality(B)
    <3>1. j <= Cardinality(B) /\ InOrder(B)[i] = InOrder(B)[j]
      BY <2>1, <2>2, <2>3, <2>4, <2>5
    <3> QED BY <1>5, <2>4, <2>5, <3>1
  <2>6. CASE i > Cardinality(B)
    <3> DEFINE x == i - Cardinality(B)
               y == j - Cardinality(B)
    <3>1. j > Cardinality(B) /\ InOrder(A)[x] = InOrder(A)[y]
      BY <2>1, <2>2, <2>3, <2>4, <2>6
    <3>2. x \in 1..Cardinality(A) /\ y \in 1..Cardinality(A)
      BY <2>4, <2>6, <3>1
    <3>3. x = y
      <4> HIDE DEF x, y
      <4> QED BY <1>5, <3>1, <3>2
    <3> QED BY <2>4, <3>3
  <2> QED BY <2>4, <2>5, <2>6
<1> QED BY <1>5, <1>6, <1>8, <1>9

\* What is picked of falling numbers falls.
LEMMA PickedDown ==
    ASSUME NEW s \in Seq(Nat), Downwards(s), NEW A \in SUBSET DOMAIN s
    PROVE  Downwards(Picked(s, A))
<1>1. IsFiniteSet(A) /\ A \in SUBSET Nat
  <2>1. DOMAIN s = 1..Len(s) /\ Len(s) \in Nat
    BY LenProperties
  <2>2. IsFiniteSet(1..Len(s)) /\ 1..Len(s) \in SUBSET Nat
    BY <2>1, FS_Interval
  <2> QED BY <2>1, <2>2, FS_Subset
<1> DEFINE n == Cardinality(A)
<1>2. n \in Nat /\ \A k \in 1..n : InOrder(A)[k] \in A /\ Rank(A, InOrder(A)[k]) = k
  BY <1>1, InOrderLists
<1>3. DOMAIN Picked(s, A) = 1..n /\ \A k \in 1..n : Picked(s, A)[k] = s[InOrder(A)[k]]
  BY DEF Picked
<1>4. \A i, j \in A : i < j => Rank(A, i) < Rank(A, j)
  BY <1>1, Ranks
<1> SUFFICES ASSUME NEW k \in 1..n, NEW l \in 1..n, k < l
             PROVE  Picked(s, A)[k] > Picked(s, A)[l]
  BY <1>3 DEF Downwards
<1> DEFINE i == InOrder(A)[k]
           j == InOrder(A)[l]
<1>5. i \in A /\ j \in A /\ Rank(A, i) = k /\ Rank(A, j) = l /\ k \in Nat /\ l \in Nat
  BY <1>2
<1>6. Picked(s, A)[k] = s[i] /\ Picked(s, A)[l] = s[j]
  BY <1>3
<1> HIDE DEF i, j, n
<1>7. i < j
  <2>1. i \in Nat /\ j \in Nat /\ i # j
    BY <1>1, <1>5
  <2>2. ~(j < i)
    BY <1>4, <1>5
  <2> QED BY <2>1, <2>2
<1> QED BY <1>5, <1>6, <1>7 DEF Downwards

\* A sequence without repetitions is as long as its set of values is large.
LEMMA DistinctCount ==
    ASSUME NEW T, NEW s \in Seq(T), Distinct(s)
    PROVE  Len(s) = Cardinality(Values(s))
<1>1. DOMAIN s = 1..Len(s) /\ Len(s) \in Nat
  OBVIOUS
<1>2. IsFiniteSet(1..Len(s)) /\ Cardinality(1..Len(s)) = Len(s)
  BY <1>1, FS_Interval
<1>3. s \in Surjection(1..Len(s), Values(s))
  BY <1>1 DEF Surjection, Values
<1>4. s \in Injection(1..Len(s), Values(s))
  BY <1>1, <1>3 DEF Surjection, Injection, IsInjective, Distinct
<1> QED BY <1>2, <1>3, <1>4, FS_Surjection
-----------------------------------------------------------------------------
\* The invariant.  What was told of and what is still to do are one sequence, which a step
\* leaves as it is when it turns the head of the one into the end of the other.
Outcomes == {"success", "partial", "failed"}
Statuses == Outcomes \cup {"skipped", "diverged", "PASS", "FAIL", "fail", "warn"}
Results == [step : Nat, status : Statuses]
StepsOf(rs) == [i \in DOMAIN rs |-> rs[i].step]
Told == StepsOf(results) \o run.todo
Scheduled == StepsOf(did) \o run.todo
Listed == Distinct(Told) /\ Values(Told) \subseteq Values(run.plan) /\ Len(Told) <= Len(run.plan)
EachDid(status) == \A i \in DOMAIN did : did[i].status = status
SomeDid(status) == \E i \in DOMAIN did : did[i].status = status

ReplayType ==
    /\ call \in Calls /\ \E S : log \in Seq(S)
    /\ results \in Seq(Results) /\ did \in Seq(Results)
    /\ run \in [plan : Seq(Nat), todo : Seq(Nat), anchor : Nat, newest : Nat, verdict : Outcomes]
    /\ dir \in [1..MaxRuns -> {"none", "empty", "PASS", "FAIL"}]

AtBegin == run = NoRun /\ results = <<>> /\ did = <<>>

\* A chain: what went as before was done, unless nothing is; what was done and what is
\* still to do fall as the plan does.
InChain ==
    /\ call.tool = "replay_checkpoint_chain" /\ Listed /\ Len(Told) = Len(run.plan)
    /\ Downwards(Scheduled)
    /\ pc = "check" \/ call.dry => did = <<>>
    /\ SomeResult("success") => call.dry \/ SomeDid("success")

\* A preview: as long as there is something to do, everything went well.
InPreview ==
    /\ call.tool = "run_flow" /\ Preview(call) /\ Listed /\ Len(Told) = Len(run.plan)
    /\ NothingAfterStop /\ Begins(Scheduled, run.plan)
    /\ run.todo # <<>> => results = did /\ EachDid("success")
    /\ \/ results = did /\ EachDid("success")
       \/ SomeResult("failed") \/ SomeResult("partial")

\* A task: the verdict is a success as long as every step was.
InTask ==
    /\ call.tool = "complete_task" /\ Listed /\ NothingAfterStop
    /\ Begins(Scheduled, run.plan) /\ results = did
    /\ call.strict /\ run.todo # <<>> => EachDid("success")
    /\ run.verdict = "success" => EachDid("success")

\* A script: the runs of this call are on disk, and none is run twice.
InScript ==
    /\ call.tool = "run_flow" /\ ~Preview(call) /\ results = <<>>
    /\ Scheduled = run.plan /\ Distinct(run.plan) /\ Values(run.plan) \subseteq DOMAIN dir
    /\ \A i \in DOMAIN did : did[i].status # "none" /\ dir[did[i].step] = did[i].status

InPlace ==
    /\ pc \in {"idle", "begin", "check", "replay", "preview", "probe", "run", "task"}
    /\ pc = "idle" => ReplayAccounted
    /\ pc = "begin" => AtBegin
    /\ pc \in {"check", "replay"} => InChain
    /\ pc = "preview" => InPreview
    /\ pc \in {"probe", "run"} => InScript
    /\ pc = "task" => InTask

ReplayInv == ReplayType /\ InPlace

-----------------------------------------------------------------------------
\* The greatest and the least of a set of numbers.
LEMMA Extremes ==
    ASSUME NEW S \in SUBSET Nat, IsFiniteSet(S), S # {}
    PROVE  Max(S) \in S /\ Min(S) \in S
<1> DEFINE n == Cardinality(S)
           s == InOrder(S)
<1>1. n \in Nat /\ n # 0
  BY FS_CardinalityType, FS_EmptySet
<1>2. \A k \in 1..n : s[k] \in S /\ Rank(S, s[k]) = k
  BY InOrderLists
<1>3. \A y \in S : Rank(S, y) \in 1..n
  BY Ranks
<1>4. \A x, y \in S : x \in Nat /\ y \in Nat /\ (x < y => Rank(S, x) < Rank(S, y))
  BY Ranks
<1> HIDE DEF n, s
<1>5. \A y \in S : s[n] >= y /\ s[1] <= y
  <2> TAKE y \in S
  <2>1. s[n] \in S /\ s[1] \in S /\ Rank(S, s[n]) = n /\ Rank(S, s[1]) = 1
    BY <1>1, <1>2
  <2>3. s[n] \in Nat /\ s[1] \in Nat /\ y \in Nat
    BY <2>1
  <2>2. ~(s[n] < y) /\ ~(y < s[1])
    <3> DEFINE m == Rank(S, y)
    <3>1. m \in 1..n
      BY <1>3
    <3>2. s[n] < y => n < m
      BY <1>4, <2>1
    <3>3. y < s[1] => m < 1
      BY <1>4, <2>1
    <3> HIDE DEF m
    <3> QED BY <1>1, <3>1, <3>2, <3>3
  <2> QED BY <2>2, <2>3
<1>6. s[n] \in S /\ s[1] \in S
  BY <1>1, <1>2
<1> QED BY <1>5, <1>6 DEF Max, Min

\* The window of a chain: records of the log, each once.
LEMMA WindowListed ==
    ASSUME Len(log) \in Nat, Anchors # {}, NEW c, c.from \in Nat, c.max \in Nat
    PROVE  /\ Window(c) \in Seq(Nat) /\ Distinct(Window(c)) /\ Downwards(Window(c))
           /\ Listing[Anchor] \in Nat /\ Listing[Min(Anchors)] \in Nat
<1> DEFINE n == Len(log)
<1>1. n \in Nat
  OBVIOUS
<1>2. Listing = [i \in 1..n |-> n - i + 1]
  BY DEF Listing, Reverse, UpTo
<1>3. /\ Listing \in Seq(Nat) /\ Len(Listing) = n
      /\ Distinct(Listing) /\ Downwards(Listing)
  <2> HIDE DEF n
  <2>1. [i \in 1..n |-> n - i + 1] \in [1..n -> Nat]
    BY <1>1
  <2>2. Listing \in Seq(Nat) /\ Len(Listing) = n /\ DOMAIN Listing = 1..n
    BY <1>1, <1>2, <2>1
  <2>3. \A i, j \in 1..n : i < j => Listing[i] > Listing[j]
    BY <1>1, <1>2
  <2> QED BY <1>1, <1>2, <2>2, <2>3 DEF Distinct, Downwards
<1>4. Anchors \in SUBSET (1..n) /\ DOMAIN Listing = 1..n
  BY <1>3 DEF Anchors
<1> HIDE DEF n
<1>5. IsFiniteSet(Anchors) /\ Anchors \in SUBSET Nat
  <2>1. IsFiniteSet(1..n)
    BY <1>1, FS_Interval
  <2>2. 1..n \in SUBSET Nat
    BY <1>1
  <2> QED BY <1>4, <2>1, <2>2, FS_Subset
<1>6. Anchor \in 1..n /\ Min(Anchors) \in 1..n
  BY <1>4, <1>5, Extremes DEF Anchor
<1>7. Listing[Anchor] \in Nat /\ Listing[Min(Anchors)] \in Nat
  BY <1>3, <1>4, <1>6
<1>8. ASSUME NEW s \in Seq(Nat), Distinct(s), Downwards(s),
             NEW a \in Nat, a # 0, NEW b \in Nat, b <= Len(s)
      PROVE  /\ SubSeq(s, a, b) \in Seq(Nat)
             /\ Distinct(SubSeq(s, a, b)) /\ Downwards(SubSeq(s, a, b))
  <2> DEFINE t == SubSeq(s, a, b)
             m == IF a <= b THEN b - a + 1 ELSE 0
  <2>1. DOMAIN s = 1..Len(s) /\ Len(s) \in Nat /\ \A i \in 1..Len(s) : s[i] \in Nat
    BY <1>8
  <2>2. \A i \in a..b : i \in DOMAIN s /\ s[i] \in Nat
    BY <1>8, <2>1
  <2>3. t \in Seq(Nat) /\ Len(t) = m /\ \A i \in 1..(b - a + 1) : t[i] = s[a + i - 1]
    BY <1>8, <2>2, SubSeqProperties
  <2> HIDE DEF t
  <2>4. DOMAIN t = 1..m /\ m \in Nat
    BY <1>8, <2>3
  <2>5. \A i \in 1..m : t[i] = s[a + i - 1] /\ a + i - 1 \in DOMAIN s
    BY <1>8, <2>2, <2>3
  <2>6. Distinct(t)
    <3> SUFFICES ASSUME NEW i \in 1..m, NEW k \in 1..m, t[i] = t[k] PROVE i = k
      BY <2>4 DEF Distinct
    <3>1. a + i - 1 = a + k - 1
      BY <1>8, <2>5 DEF Distinct
    <3> QED BY <1>8, <2>4, <3>1
  <2>7. Downwards(t)
    <3> SUFFICES ASSUME NEW i \in 1..m, NEW k \in 1..m, i < k PROVE t[i] > t[k]
      BY <2>4 DEF Downwards
    <3>1. a + i - 1 < a + k - 1
      BY <1>8, <2>4
    <3> QED BY <1>8, <2>5, <3>1 DEF Downwards
  <2> QED BY <2>3, <2>6, <2>7 DEF t
<1>9. AfterAnchor \in Seq(Nat) /\ Distinct(AfterAnchor) /\ Downwards(AfterAnchor)
  BY <1>1, <1>3, <1>6, <1>8 DEF AfterAnchor
<1> DEFINE offered == SubSeq(AfterAnchor, c.from + 1, Len(AfterAnchor))
<1>10. offered \in Seq(Nat) /\ Distinct(offered) /\ Downwards(offered)
  <2>1. c.from + 1 \in Nat /\ c.from + 1 # 0 /\ Len(AfterAnchor) \in Nat
    BY <1>9
  <2> QED BY <1>8, <1>9, <2>1
<1>11. Window(c) = IF c.max = 0 \/ c.max > Len(offered) THEN offered
                   ELSE SubSeq(offered, 1, c.max)
  BY DEF Window
<1> HIDE DEF offered
<1>12. Window(c) \in Seq(Nat) /\ Distinct(Window(c)) /\ Downwards(Window(c))
  BY <1>8, <1>10, <1>11
<1> QED BY <1>7, <1>12

\* The head of what is to do, told of, leaves the two together as they were.
LEMMA HeadMoves ==
    ASSUME NEW T, NEW a \in Seq(T), NEW b \in Seq(T), b # <<>>
    PROVE  /\ Append(a, Head(b)) \o Tail(b) = a \o b
           /\ Head(b) \in T /\ Tail(b) \in Seq(T)
<1>1. Head(b) \in T /\ Tail(b) \in Seq(T)
  BY HeadTailProperties
<1>2. <<Head(b)>> \in Seq(T) /\ Append(a, Head(b)) = a \o <<Head(b)>>
  BY <1>1, AppendIsConcat
<1>3. <<Head(b)>> \o Tail(b) = b
  <2>1. Len(b) \in Nat \ {0}
    BY EmptySeq
  <2>2. SubSeq(b, 1, Len(b)) = <<b[1]>> \o SubSeq(b, 2, Len(b))
    <3>1. 1 \in 1..Len(b) /\ Len(b) \in 1..Len(b)
      BY <2>1
    <3> HIDE <2>1
    <3>2. SubSeq(b, 1, Len(b)) = <<b[1]>> \o SubSeq(b, 1 + 1, Len(b))
      BY <3>1, SubSeqRecursiveFirst
    <3> QED BY <3>2
  <2>3. Head(b) = b[1]
    BY <2>1
  <2> QED BY <2>2, <2>3, TailIsSubSeq, SubSeqFull
<1>4. (a \o <<Head(b)>>) \o Tail(b) = a \o (<<Head(b)>> \o Tail(b))
  BY <1>1, <1>2, ConcatAssociative
<1> QED BY <1>1, <1>2, <1>3, <1>4

\* A front of a sequence without repetitions has none.
LEMMA FrontKept ==
    ASSUME NEW T, NEW a \in Seq(T), NEW b \in Seq(T), Distinct(a \o b)
    PROVE  /\ Distinct(a) /\ Values(a) \subseteq Values(a \o b) /\ Len(a) <= Len(a \o b)
           /\ b = <<>> => a \o b = a
<1> DEFINE ab == a \o b
<1>1. /\ ab \in Seq(T) /\ Len(ab) = Len(a) + Len(b)
      /\ \A i \in 1..(Len(a) + Len(b)) : ab[i] = IF i <= Len(a) THEN a[i] ELSE b[i - Len(a)]
  BY ConcatProperties
<1>2. Len(a) \in Nat /\ Len(b) \in Nat /\ DOMAIN a = 1..Len(a)
  BY LenProperties
<1>3. Distinct(ab)
  OBVIOUS
<1> HIDE DEF ab
<1>4. DOMAIN ab = 1..(Len(a) + Len(b))
  BY <1>1, LenProperties
<1>5. \A i \in DOMAIN a : i \in DOMAIN ab /\ a[i] = ab[i]
  BY <1>1, <1>2, <1>4
<1>6. Distinct(a) /\ Values(a) \subseteq Values(ab)
  BY <1>3, <1>5 DEF Distinct, Values
<1>7. Len(a) <= Len(ab)
  BY <1>1, <1>2
<1>8. b = <<>> => ab = a
  BY ConcatEmptySeq DEF ab
<1> QED BY <1>6, <1>7, <1>8 DEF ab

\* The steps that results tell of.
LEMMA StepsType ==
    ASSUME NEW rs \in Seq(Results)
    PROVE  /\ StepsOf(rs) \in Seq(Nat) /\ Len(StepsOf(rs)) = Len(rs) /\ Len(rs) \in Nat
           /\ \A i \in 1..Len(rs) : StepsOf(rs)[i] = rs[i].step
           /\ Values(StepsOf(rs)) = {rs[i].step : i \in DOMAIN rs}
<1>1. DOMAIN rs = 1..Len(rs) /\ Len(rs) \in Nat
  BY LenProperties
<1>2. \A i \in 1..Len(rs) : rs[i].step \in Nat
  <2>1. \A i \in 1..Len(rs) : rs[i] \in Results
    BY ElementOfSeq
  <2> QED BY <2>1 DEF Results
<1>3. StepsOf(rs) \in [1..Len(rs) -> Nat]
  BY <1>1, <1>2 DEF StepsOf
<1>4. StepsOf(rs) \in Seq(Nat) /\ Len(StepsOf(rs)) = Len(rs)
  BY <1>1, <1>3
<1>5. \A i \in 1..Len(rs) : StepsOf(rs)[i] = rs[i].step
  BY <1>1 DEF StepsOf
<1>6. DOMAIN StepsOf(rs) = 1..Len(rs)
  BY <1>3
<1> QED BY <1>1, <1>4, <1>5, <1>6 DEF Values

LEMMA StepsAppend ==
    ASSUME NEW rs \in Seq(Results), NEW r \in Results
    PROVE  /\ Append(rs, r) \in Seq(Results)
           /\ StepsOf(Append(rs, r)) = Append(StepsOf(rs), r.step)
<1> DEFINE a == Append(rs, r)
           b == Append(StepsOf(rs), r.step)
<1>1. /\ a \in Seq(Results) /\ Len(a) = Len(rs) + 1 /\ a[Len(rs) + 1] = r
      /\ \A i \in 1..Len(rs) : a[i] = rs[i]
  BY AppendProperties
<1>2. r.step \in Nat
  BY DEF Results
<1>3. /\ b \in Seq(Nat) /\ Len(b) = Len(rs) + 1 /\ b[Len(rs) + 1] = r.step
      /\ \A i \in 1..Len(rs) : b[i] = rs[i].step
  BY <1>2, AppendProperties, StepsType
<1> HIDE DEF a, b
<1>4. /\ StepsOf(a) \in Seq(Nat) /\ Len(StepsOf(a)) = Len(rs) + 1 /\ Len(rs) \in Nat
      /\ \A i \in 1..(Len(rs) + 1) : StepsOf(a)[i] = a[i].step
  BY <1>1, StepsType
<1>5. \A i \in 1..(Len(rs) + 1) : StepsOf(a)[i] = b[i]
  <2> TAKE i \in 1..(Len(rs) + 1)
  <2>1. i \in 1..Len(rs) \/ i = Len(rs) + 1
    BY <1>4
  <2>2. StepsOf(a)[i] = a[i].step
    BY <1>4
  <2> QED BY <1>1, <1>3, <2>1, <2>2
<1>6. StepsOf(a) = b
  BY <1>3, <1>4, <1>5, SeqEqual
<1> QED BY <1>1, <1>6 DEF a, b

LEMMA StepsSkipped ==
    ASSUME NEW q \in Seq(Nat)
    PROVE  Skipped(q) \in Seq(Results) /\ StepsOf(Skipped(q)) = q
<1>1. DOMAIN q = 1..Len(q) /\ Len(q) \in Nat
  BY LenProperties
<1>2. \A i \in 1..Len(q) : q[i] \in Nat
  BY ElementOfSeq
<1>3. Skipped(q) \in [1..Len(q) -> Results]
  <2>1. \A i \in 1..Len(q) : [step |-> q[i], status |-> "skipped"] \in Results
    BY <1>2 DEF Results, Statuses
  <2> QED BY <1>1, <2>1 DEF Skipped, Result
<1>4. Skipped(q) \in Seq(Results) /\ Len(Skipped(q)) = Len(q)
  BY <1>1, <1>3
<1>5. \A i \in 1..Len(q) : Skipped(q)[i].step = q[i]
  BY <1>1 DEF Skipped, Result
<1>6. /\ StepsOf(Skipped(q)) \in Seq(Nat) /\ Len(StepsOf(Skipped(q))) = Len(q)
      /\ \A i \in 1..Len(q) : StepsOf(Skipped(q))[i] = q[i]
  BY <1>4, <1>5, StepsType
<1> QED BY <1>4, <1>6, SeqEqual

LEMMA StepsConcat ==
    ASSUME NEW rs \in Seq(Results), NEW ts \in Seq(Results)
    PROVE  rs \o ts \in Seq(Results) /\ StepsOf(rs \o ts) = StepsOf(rs) \o StepsOf(ts)
<1> DEFINE a == rs \o ts
           b == StepsOf(rs) \o StepsOf(ts)
           n == Len(rs) + Len(ts)
<1>1. /\ a \in Seq(Results) /\ Len(a) = n
      /\ \A i \in 1..n : a[i] = IF i <= Len(rs) THEN rs[i] ELSE ts[i - Len(rs)]
  BY ConcatProperties
<1>2. /\ b \in Seq(Nat) /\ Len(b) = n
      /\ \A i \in 1..n : b[i] = IF i <= Len(rs) THEN StepsOf(rs)[i]
                                ELSE StepsOf(ts)[i - Len(rs)]
  <2>1. /\ StepsOf(rs) \in Seq(Nat) /\ Len(StepsOf(rs)) = Len(rs)
        /\ StepsOf(ts) \in Seq(Nat) /\ Len(StepsOf(ts)) = Len(ts)
    BY StepsType
  <2>2. /\ b \in Seq(Nat) /\ Len(b) = Len(StepsOf(rs)) + Len(StepsOf(ts))
        /\ \A i \in 1..(Len(StepsOf(rs)) + Len(StepsOf(ts))) :
             b[i] = IF i <= Len(StepsOf(rs)) THEN StepsOf(rs)[i]
                    ELSE StepsOf(ts)[i - Len(StepsOf(rs))]
    BY <2>1, ConcatProperties
  <2> QED BY <2>1, <2>2
<1>3. Len(rs) \in Nat /\ Len(ts) \in Nat
  BY StepsType
<1>4. \A i \in 1..n : /\ i <= Len(rs) => StepsOf(rs)[i] = rs[i].step
                      /\ i > Len(rs) => StepsOf(ts)[i - Len(rs)] = ts[i - Len(rs)].step
  <2>1. \A i \in 1..n : /\ i <= Len(rs) => i \in 1..Len(rs)
                        /\ i > Len(rs) => i - Len(rs) \in 1..Len(ts)
    BY <1>3
  <2> QED BY <2>1, StepsType
<1> HIDE DEF a, b
<1>5. /\ StepsOf(a) \in Seq(Nat) /\ Len(StepsOf(a)) = n
      /\ \A i \in 1..n : StepsOf(a)[i] = a[i].step
  BY <1>1, StepsType
<1>6. \A i \in 1..n : StepsOf(a)[i] = b[i]
  <2> TAKE i \in 1..n
  <2>1. StepsOf(a)[i] = a[i].step
    BY <1>5
  <2>2. i \in Int /\ Len(rs) \in Int
    BY <1>3
  <2>3. CASE i <= Len(rs)
    <3>1. a[i] = rs[i] /\ b[i] = StepsOf(rs)[i] /\ StepsOf(rs)[i] = rs[i].step
      BY <1>1, <1>2, <1>4, <2>3
    <3> QED BY <2>1, <3>1
  <2>4. CASE ~(i <= Len(rs))
    <3>1. i > Len(rs)
      BY <2>2, <2>4
    <3>2. /\ a[i] = ts[i - Len(rs)] /\ b[i] = StepsOf(ts)[i - Len(rs)]
          /\ StepsOf(ts)[i - Len(rs)] = ts[i - Len(rs)].step
      BY <1>1, <1>2, <1>4, <2>4, <3>1
    <3> QED BY <2>1, <3>2
  <2> QED BY <2>3, <2>4
<1>7. StepsOf(a) = b
  <2> HIDE DEF n
  <2> QED BY <1>2, <1>5, <1>6, SeqEqual
<1> QED BY <1>1, <1>7 DEF a, b

-----------------------------------------------------------------------------
LEMMA ResultIs ==
    ASSUME NEW n \in Nat, NEW status \in Statuses
    PROVE  /\ Result(n, status) \in Results
           /\ Result(n, status).step = n /\ Result(n, status).status = status
BY DEF Result, Results

LEMMA LogGrows ==
    ASSUME \E S : log \in Seq(S), NEW r
    PROVE  \E S : Append(log, r) \in Seq(S)
<1>1. PICK S : log \in Seq(S)
  OBVIOUS
<1>2. log \in Seq(S \cup {r}) /\ r \in S \cup {r}
  BY <1>1, SeqMonotonic
<1> QED BY <1>2, AppendProperties

\* What is told of is told of once, when it is of the plan without repetitions.
LEMMA ToldOnce ==
    ASSUME NEW rs \in Seq(Results), NEW todo \in Seq(Nat), NEW plan \in Seq(Nat),
           Distinct(StepsOf(rs) \o todo), Values(StepsOf(rs) \o todo) \subseteq Values(plan)
    PROVE  LET told == {rs[i].step : i \in DOMAIN rs}
           IN  /\ Len(rs) = Cardinality(told)
               /\ told \subseteq {plan[i] : i \in DOMAIN plan}
               /\ todo = <<>> => Len(rs) = Len(StepsOf(rs) \o todo)
<1>1. /\ StepsOf(rs) \in Seq(Nat) /\ Len(StepsOf(rs)) = Len(rs)
      /\ Values(StepsOf(rs)) = {rs[i].step : i \in DOMAIN rs}
  BY StepsType
<1>2. /\ Distinct(StepsOf(rs))
      /\ Values(StepsOf(rs)) \subseteq Values(StepsOf(rs) \o todo)
      /\ todo = <<>> => StepsOf(rs) \o todo = StepsOf(rs)
  BY <1>1, FrontKept
<1>3. Len(rs) = Cardinality(Values(StepsOf(rs)))
  BY <1>1, <1>2, DistinctCount
<1>4. Values(plan) = {plan[i] : i \in DOMAIN plan}
  BY DEF Values
<1> QED BY <1>1, <1>2, <1>3, <1>4

\* What was done is of the plan as far as it and the rest are, and falls as both do.
LEMMA DoneIs ==
    ASSUME NEW ds \in Seq(Results), NEW todo \in Seq(Nat)
    PROVE  /\ \A plan : Begins(StepsOf(ds) \o todo, plan) =>
                 \A i \in DOMAIN ds : i \in DOMAIN plan /\ ds[i].step = plan[i]
           /\ Downwards(StepsOf(ds) \o todo) =>
                 \A i, j \in DOMAIN ds : i < j => ds[i].step > ds[j].step
<1> DEFINE s == StepsOf(ds)
           all == s \o todo
<1>1. /\ s \in Seq(Nat) /\ Len(s) = Len(ds) /\ Len(ds) \in Nat
      /\ \A i \in 1..Len(ds) : s[i] = ds[i].step
  BY StepsType
<1> HIDE DEF s
<1>2. /\ all \in Seq(Nat) /\ Len(all) = Len(s) + Len(todo) /\ Len(todo) \in Nat
      /\ \A i \in 1..(Len(s) + Len(todo)) : i <= Len(s) => all[i] = s[i]
  BY <1>1, ConcatProperties, LenProperties
<1> HIDE DEF all
<1>3. \A i \in DOMAIN ds : i \in DOMAIN all /\ all[i] = ds[i].step
  <2> TAKE i \in DOMAIN ds
  <2>1. i \in 1..Len(ds)
    BY LenProperties
  <2>2. i \in 1..(Len(s) + Len(todo)) /\ i <= Len(s)
    BY <1>1, <1>2, <2>1
  <2> QED BY <1>1, <1>2, <2>1, <2>2, LenProperties
<1> QED BY <1>3 DEF Begins, Downwards, all, s

\* A step done leaves what is scheduled as it was; what is cut off leaves a beginning.
LEMMA ScheduledKept ==
    ASSUME ReplayType, run.todo # <<>>, NEW r \in Results, r.step = Head(run.todo),
           did' = Append(did, r), run'.todo \in {<<>>, Tail(run.todo)}
    PROVE  /\ run'.todo = Tail(run.todo) => Scheduled' = Scheduled
           /\ \A plan \in Seq(Nat) : Begins(Scheduled, plan) => Begins(Scheduled', plan)
<1>1. did \in Seq(Results) /\ run.todo \in Seq(Nat) /\ StepsOf(did) \in Seq(Nat)
  BY StepsType DEF ReplayType
<1>2. Head(run.todo) \in Nat /\ Tail(run.todo) \in Seq(Nat)
  BY <1>1, HeadMoves
<1>3. did' \in Seq(Results) /\ StepsOf(did') = Append(StepsOf(did), Head(run.todo))
  BY <1>1, StepsAppend
<1>4. StepsOf(did') \o Tail(run.todo) = Scheduled /\ StepsOf(did') \in Seq(Nat)
  BY <1>1, <1>3, HeadMoves, StepsType DEF Scheduled
<1>5. run'.todo = Tail(run.todo) => Scheduled' = Scheduled
  BY <1>4 DEF Scheduled
<1>6. ASSUME run'.todo = <<>>, NEW plan \in Seq(Nat), Begins(Scheduled, plan)
      PROVE  Begins(Scheduled', plan)
  <2> DEFINE a == StepsOf(did')
             b == Tail(run.todo)
             ab == a \o b
  <2>1. Scheduled' = a
    BY <1>4, <1>6, ConcatEmptySeq DEF Scheduled
  <2>2. a \in Seq(Nat) /\ b \in Seq(Nat) /\ ab = Scheduled
    BY <1>2, <1>4
  <2> HIDE DEF a, b
  <2>3. /\ ab \in Seq(Nat) /\ Len(ab) = Len(a) + Len(b) /\ Len(a) \in Nat /\ Len(b) \in Nat
        /\ \A i \in 1..(Len(a) + Len(b)) : i <= Len(a) => ab[i] = a[i]
        /\ DOMAIN a = 1..Len(a)
    BY <2>2, ConcatProperties, LenProperties
  <2> HIDE DEF ab
  <2>4. \A i \in DOMAIN a : i \in DOMAIN ab /\ ab[i] = a[i]
    BY <2>3, LenProperties
  <2>5. Len(a) <= Len(plan)
    <3>1. Len(a) <= Len(ab) /\ Len(ab) <= Len(plan) /\ Len(plan) \in Nat /\ Len(ab) \in Nat
      BY <1>6, <2>2, <2>3, LenProperties DEF Begins
    <3> QED BY <2>3, <3>1
  <2> QED BY <1>6, <2>1, <2>2, <2>4, <2>5 DEF Begins
<1> QED BY <1>5, <1>6

\* The same of the answer to a call.
LEMMA ToldOnceAtEnd ==
    ASSUME ReplayType', Listed'
    PROVE  /\ Len(results') = Cardinality({results'[i].step : i \in DOMAIN results'})
           /\ {results'[i].step : i \in DOMAIN results'} \subseteq
                {run'.plan[i] : i \in DOMAIN run'.plan}
           /\ run'.todo = <<>> => Len(results') = Len(Told')
<1>1. results' \in Seq(Results) /\ run'.todo \in Seq(Nat) /\ run'.plan \in Seq(Nat)
  BY DEF ReplayType
<1>2. /\ Distinct(StepsOf(results') \o run'.todo)
      /\ Values(StepsOf(results') \o run'.todo) \subseteq Values(run'.plan)
  BY DEF Listed, Told
<1> QED BY <1>1, <1>2, ToldOnce DEF Told

\* A call that answers without having told or done anything but refuse.
LEMMA NothingTold ==
    ASSUME results' = <<>>, did' = <<>>, run'.plan = <<>>, out' # "success"
    PROVE  ReplayAccounted'
<1>1. OneResultEach'
  <2>1. {results'[i].step : i \in DOMAIN results'} = {}
    OBVIOUS
  <2> QED BY <2>1, FS_EmptySet DEF OneResultEach
<1>2. DoneAsPlanned' /\ NothingAfterStop' /\ SuccessIsEarned'
  BY DEF DoneAsPlanned, NothingAfterStop, SuccessIsEarned
<1> QED BY <1>1, <1>2 DEF ReplayAccounted

-----------------------------------------------------------------------------
\* replay_checkpoint_chain.
LEMMA ChainBegins ==
    ASSUME ReplayAssumption, ReplayInv, pc = "begin", ChainBegin(call), UNCHANGED call
    PROVE  ReplayInv'
<1> DEFINE c == call
<1>1. /\ c \in Calls /\ c.from \in Nat /\ c.max \in Nat /\ did = <<>>
      /\ c.tool = "replay_checkpoint_chain" /\ call' = call
      /\ UNCHANGED <<log, dir, did>>
  BY DEF ReplayInv, ReplayType, InPlace, AtBegin, ReplayAssumption, ChainBegin, stores
<1>2. \E S : log \in Seq(S)
  BY DEF ReplayInv, ReplayType
<1>3. Len(log) \in Nat
  BY <1>2, LenProperties
<1>4. CASE c.platform = "none" \/ Anchors = {}
  <2>1. run' = NoRun /\ results' = <<>> /\ did' = <<>> /\ pc' = "idle" /\ out' = "failed"
    BY <1>1, <1>4 DEF ChainBegin, Answer
  <2>2. ReplayType'
    BY <1>1, <2>1 DEF ReplayInv, ReplayType, NoRun, Outcomes
  <2>3. ReplayAccounted'
    BY <2>1, NothingTold DEF NoRun
  <2> QED BY <2>1, <2>2, <2>3 DEF ReplayInv, InPlace
<1>5. CASE ~(c.platform = "none" \/ Anchors = {})
  <2> DEFINE w == Window(c)
             safe == {i \in DOMAIN w : ReplaySafe(w[i])}
             todo == Picked(w, safe)
             rest == Picked(w, DOMAIN w \ safe)
  <2>1. /\ w \in Seq(Nat) /\ Distinct(w) /\ Downwards(w)
        /\ Listing[Anchor] \in Nat /\ Listing[Min(Anchors)] \in Nat
    BY <1>1, <1>3, <1>5, WindowListed
  <2>2. /\ rest \in Seq(Nat) /\ todo \in Seq(Nat)
        /\ Distinct(rest \o todo) /\ Values(rest \o todo) \subseteq Values(w)
        /\ Len(rest \o todo) = Len(w) /\ Downwards(todo)
    <3>1. safe \in SUBSET DOMAIN w
      OBVIOUS
    <3> HIDE DEF safe, w
    <3> QED BY <2>1, <3>1, PickedSplit, PickedDown
  <2>3. /\ run' = [NoRun EXCEPT !.plan = w, !.todo = todo, !.anchor = Listing[Anchor],
                                !.newest = Listing[Min(Anchors)]]
        /\ results' = Skipped(rest)
        /\ \/ todo = <<>> /\ pc' = "idle" /\ out' = "success"
           \/ pc' = "check"
    BY <1>1, <1>5 DEF ChainBegin, Answer, Goes
  <2> HIDE DEF w, todo, rest
  <2>4. results' \in Seq(Results) /\ StepsOf(results') = rest
    BY <2>2, <2>3, StepsSkipped
  <2>5. run' \in [plan : Seq(Nat), todo : Seq(Nat), anchor : Nat, newest : Nat,
                  verdict : Outcomes] /\ run'.plan = w /\ run'.todo = todo
    BY <2>1, <2>2, <2>3 DEF NoRun, Outcomes
  <2>6. ReplayType'
    BY <1>1, <2>4, <2>5 DEF ReplayInv, ReplayType
  <2>7. Listed' /\ Len(Told') = Len(run'.plan)
    <3>1. Len(w) \in Nat
      BY <2>1, LenProperties
    <3> QED BY <2>2, <2>4, <2>5, <3>1 DEF Listed, Told
  <2>8. \A i \in DOMAIN results' : results'[i].status = "skipped"
    BY <2>3 DEF Skipped, Result
  <2>9. InChain'
    <3>1. Scheduled' = todo
      <4>1. StepsOf(<<>>) = <<>>
        BY DEF StepsOf
      <4> QED BY <1>1, <2>2, <2>5, <4>1, ConcatEmptySeq DEF Scheduled
    <3> QED BY <1>1, <2>2, <2>7, <2>8, <3>1 DEF InChain, SomeResult
  <2>10. CASE pc' = "check"
    BY <2>6, <2>9, <2>10 DEF ReplayInv, InPlace
  <2>11. CASE todo = <<>> /\ pc' = "idle" /\ out' = "success"
    <3>1. OneResultEach'
      BY <2>5, <2>6, <2>7, <2>11, ToldOnceAtEnd DEF OneResultEach
    <3>2. DoneAsPlanned' /\ NothingAfterStop' /\ SuccessIsEarned'
      BY <1>1 DEF DoneAsPlanned, NothingAfterStop, SuccessIsEarned
    <3> QED BY <2>6, <2>11, <3>1, <3>2 DEF ReplayInv, InPlace, ReplayAccounted
  <2> QED BY <2>3, <2>10, <2>11
<1> QED BY <1>4, <1>5

\* A refusal ends a chain with what was skipped told of.
LEMMA ChainChecks == ASSUME ReplayInv, ChainCheck PROVE ReplayInv'
<1>1. /\ pc = "check" /\ UNCHANGED <<log, dir, call, run, results, did>>
      /\ \/ pc' = "idle" /\ out' = "partial"
         \/ pc' = "replay"
  BY DEF ChainCheck, Answer, Goes, stores
<1>2. InChain /\ ReplayType /\ did = <<>>
  BY <1>1 DEF ReplayInv, InPlace, InChain
<1>3. ReplayType'
  BY <1>1, <1>2 DEF ReplayType
<1>4. Listed'
  BY <1>1, <1>2 DEF InChain, Listed, Told
<1>5. CASE pc' = "idle" /\ out' = "partial"
  <2>1. OneResultEach'
    BY <1>1, <1>2, <1>3, <1>4, <1>5, ToldOnceAtEnd DEF OneResultEach, InChain
  <2>2. DoneAsPlanned' /\ NothingAfterStop' /\ SuccessIsEarned'
    BY <1>1, <1>2, <1>5 DEF DoneAsPlanned, NothingAfterStop, SuccessIsEarned
  <2> QED BY <1>3, <1>5, <2>1, <2>2 DEF ReplayInv, InPlace, ReplayAccounted
<1>6. CASE pc' = "replay"
  <2>1. InChain'
    BY <1>1, <1>2, <1>6 DEF InChain, Listed, Told, Scheduled, SomeResult, SomeDid
  <2> QED BY <1>3, <1>6, <2>1 DEF ReplayInv, InPlace
<1> QED BY <1>1, <1>5, <1>6

\* The head of what is to do is told of.
LEMMA HeadTold ==
    ASSUME ReplayType, run.todo # <<>>, NEW r \in Results, r.step = Head(run.todo),
           results' = Append(results, r), run'.todo = Tail(run.todo)
    PROVE  /\ Told' = Told /\ results' \in Seq(Results) /\ run'.todo \in Seq(Nat)
           /\ Head(run.todo) \in Nat
           /\ \A i \in DOMAIN results' : \/ i \in DOMAIN results /\ results'[i] = results[i]
                                         \/ i = Len(results) + 1 /\ results'[i] = r
           /\ \A i \in DOMAIN results : i \in DOMAIN results' /\ results'[i] = results[i]
           /\ Len(results) + 1 \in DOMAIN results' /\ results'[Len(results) + 1] = r
<1>1. results \in Seq(Results) /\ run.todo \in Seq(Nat) /\ StepsOf(results) \in Seq(Nat)
  BY StepsType DEF ReplayType
<1>2. Head(run.todo) \in Nat /\ Tail(run.todo) \in Seq(Nat)
  BY <1>1, HeadMoves
<1>3. results' \in Seq(Results) /\ StepsOf(results') = Append(StepsOf(results), Head(run.todo))
  BY <1>1, StepsAppend
<1>4. Told' = Told
  BY <1>1, <1>3, HeadMoves DEF Told
<1>5. /\ Len(results) \in Nat /\ DOMAIN results = 1..Len(results)
      /\ DOMAIN results' = 1..(Len(results) + 1)
      /\ \A i \in 1..Len(results) : results'[i] = results[i]
      /\ results'[Len(results) + 1] = r
  BY <1>1, <1>3, LenProperties, AppendProperties
<1> QED BY <1>2, <1>3, <1>4, <1>5

\* What was done, with one more step.
LEMMA DidMore ==
    ASSUME did \in Seq(Results), NEW r \in Results, did' = Append(did, r)
    PROVE  /\ did' \in Seq(Results) /\ did' # <<>>
           /\ Len(did) \in Nat /\ DOMAIN did = 1..Len(did) /\ Len(did') = Len(did) + 1
           /\ DOMAIN did' = 1..(Len(did) + 1)
           /\ \A i \in 1..Len(did) : did'[i] = did[i]
           /\ did'[Len(did) + 1] = r
BY LenProperties, AppendProperties

\* An action leaves at most a record.
LEMMA PerformType ==
    ASSUME NEW command, NEW v \in Verdicts, Perform(command, v), \E S : log \in Seq(S)
    PROVE  (\E S : log' \in Seq(S)) /\ v.status \in Outcomes
<1>1. \E S : log' \in Seq(S)
  <2>1. CASE v.recorded
    BY <2>1, LogGrows DEF Perform
  <2>2. CASE ~v.recorded
    BY <2>2 DEF Perform
  <2> QED BY <2>1, <2>2
<1> QED BY <1>1 DEF Verdicts, Live, Outcomes

\* A comparison is a success only of what succeeded.
LEMMA ComparedIs ==
    ASSUME NEW n, NEW v \in Verdicts
    PROVE  /\ Compared(n, v) \in Statuses
           /\ Compared(n, v) = "success" => v.status = "success"
<1>1. v.status \in Outcomes
  BY DEF Verdicts, Live, Outcomes
<1>2. CASE v.status = "success"
  BY <1>2 DEF Compared, Statuses, Outcomes
<1>3. CASE v.status # "success"
  BY <1>1, <1>3 DEF Compared, Statuses, Outcomes
<1> QED BY <1>2, <1>3

LEMMA ChainReplays == ASSUME ReplayInv, ChainReplay PROVE ReplayInv'
<1> DEFINE n == Head(run.todo)
<1>1. /\ pc = "replay" /\ pc' = "replay" /\ run.todo # <<>> /\ UNCHANGED <<dir, call>>
      /\ run' = [run EXCEPT !.todo = Tail(@)]
  BY DEF ChainReplay
<1>2. ReplayType /\ InChain
  BY <1>1 DEF ReplayInv, InPlace
<1>3. n \in Nat /\ Tail(run.todo) \in Seq(Nat)
  BY <1>1, <1>2, HeadMoves DEF ReplayType
<1>4. /\ run'.todo = Tail(run.todo) /\ run'.plan = run.plan
      /\ run' \in [plan : Seq(Nat), todo : Seq(Nat), anchor : Nat, newest : Nat,
                   verdict : Outcomes]
  BY <1>1, <1>2, <1>3 DEF ReplayType
<1>5. ASSUME NEW status \in Statuses, results' = Append(results, Result(n, status))
      PROVE  /\ Listed' /\ Len(Told') = Len(run'.plan) /\ results' \in Seq(Results)
             /\ SomeResult("success")' => SomeResult("success") \/ status = "success"
  <2>1. Result(n, status) \in Results /\ Result(n, status).step = n
        /\ Result(n, status).status = status
    BY <1>3, ResultIs
  <2>2. Told' = Told /\ results' \in Seq(Results)
    BY <1>1, <1>2, <1>4, <1>5, <2>1, HeadTold
  <2>3. \A i \in DOMAIN results' : \/ i \in DOMAIN results /\ results'[i] = results[i]
                                   \/ results'[i] = Result(n, status)
    BY <1>1, <1>2, <1>4, <1>5, <2>1, HeadTold
  <2>4. SomeResult("success")' => SomeResult("success") \/ status = "success"
    BY <2>1, <2>3 DEF SomeResult
  <2> QED BY <1>2, <1>4, <2>2, <2>4 DEF InChain, Listed
<1>6. CASE call.dry
  <2>1. results' = Append(results, Result(n, "success")) /\ UNCHANGED <<log, did>>
    BY <1>6 DEF ChainReplay
  <2>2. /\ Listed' /\ Len(Told') = Len(run'.plan) /\ results' \in Seq(Results)
    BY <1>5, <2>1 DEF Statuses, Outcomes
  <2>3. ReplayType'
    BY <1>1, <1>2, <1>4, <2>1, <2>2 DEF ReplayType
  <2>4. Downwards(Scheduled')
    <3>1. StepsOf(did) = <<>>
      BY <1>2, <1>6 DEF InChain, StepsOf
    <3>2. run.todo \in Seq(Nat) /\ Scheduled = run.todo /\ Scheduled' = Tail(run.todo)
      BY <1>2, <1>3, <1>4, <2>1, <3>1, ConcatEmptySeq DEF ReplayType, Scheduled
    <3> DEFINE a == run.todo
               b == Tail(a)
    <3>3. /\ a \in Seq(Nat) /\ Downwards(a) /\ b \in Seq(Nat) /\ Len(b) = Len(a) - 1
          /\ \A i \in 1..Len(b) : b[i] = a[i + 1]
      BY <1>1, <1>2, <1>3, <3>2, HeadTailProperties DEF InChain
    <3> HIDE DEF a, b
    <3>4. DOMAIN a = 1..Len(a) /\ DOMAIN b = 1..Len(b) /\ Len(a) \in Nat /\ Len(b) \in Nat
      BY <3>3, LenProperties
    <3>5. ASSUME NEW i \in DOMAIN b, NEW j \in DOMAIN b, i < j PROVE b[i] > b[j]
      <4>1. i \in 1..Len(b) /\ j \in 1..Len(b)
        BY <3>4
      <4>2. b[i] = a[i + 1] /\ b[j] = a[j + 1]
        BY <3>3, <4>1
      <4>3. i + 1 \in 1..Len(a) /\ j + 1 \in 1..Len(a) /\ i + 1 < j + 1
        <5>1. Len(b) = Len(a) - 1 /\ Len(a) \in Nat /\ i < j
          BY <3>3, <3>4, <3>5
        <5> QED BY <4>1, <5>1
      <4> QED BY <3>3, <3>4, <4>2, <4>3 DEF Downwards
    <3> QED BY <3>2, <3>5 DEF Downwards, a, b
  <2>5. InChain'
    BY <1>1, <1>2, <1>6, <2>1, <2>2, <2>4 DEF InChain
  <2> QED BY <1>1, <2>3, <2>5 DEF ReplayInv, InPlace
<1>7. CASE ~call.dry
  <2>1. PICK v \in Verdicts :
          /\ Perform(log[n].command, v)
          /\ results' = Append(results, Result(n, Compared(n, v)))
          /\ did' = Append(did, Result(n, v.status))
    BY <1>7 DEF ChainReplay
  <2>2. (\E S : log' \in Seq(S)) /\ v.status \in Statuses
    BY <1>2, <2>1, PerformType DEF ReplayType, Statuses
  <2>3. /\ Listed' /\ Len(Told') = Len(run'.plan) /\ results' \in Seq(Results)
        /\ SomeResult("success")' => SomeResult("success") \/ v.status = "success"
    BY <1>5, <2>1, ComparedIs
  <2>4. /\ Result(n, v.status) \in Results /\ Result(n, v.status).status = v.status
    BY <1>3, <2>2, ResultIs
  <2>5. /\ did' \in Seq(Results)
        /\ \A i \in DOMAIN did : i \in DOMAIN did' /\ did'[i] = did[i]
        /\ \E i \in DOMAIN did' : did'[i].status = v.status
    <3>1. /\ did \in Seq(Results) /\ Len(did) + 1 \in 1..(Len(did) + 1)
      BY <1>2, DidMore, LenProperties DEF ReplayType
    <3> QED BY <2>1, <2>4, <3>1, DidMore
  <2>6. SomeResult("success")' => SomeDid("success")'
    BY <1>2, <1>7, <2>3, <2>5 DEF InChain, SomeDid
  <2>7. ReplayType'
    BY <1>1, <1>2, <1>4, <2>2, <2>3, <2>5 DEF ReplayType
  <2>8. Scheduled' = Scheduled
    <3>1. Result(n, v.status).step = Head(run.todo)
      BY DEF Result
    <3> QED BY <1>1, <1>2, <1>4, <2>1, <2>4, <3>1, ScheduledKept
  <2>9. InChain'
    BY <1>1, <1>2, <1>7, <2>3, <2>6, <2>8 DEF InChain
  <2> QED BY <1>1, <2>7, <2>9 DEF ReplayInv, InPlace
<1> QED BY <1>6, <1>7

LEMMA ChainAnswers == ASSUME ReplayInv, ChainEnds PROVE ReplayInv'
<1>1. /\ pc = "replay" /\ run.todo = <<>> /\ UNCHANGED <<log, dir, call, run, results, did>>
      /\ pc' = "idle" /\ out' = IF SomeResult("success") THEN "success" ELSE "failed"
  BY DEF ChainEnds, Answer, stores
<1>2. InChain /\ ReplayType
  BY <1>1 DEF ReplayInv, InPlace
<1>3. ReplayType' /\ Listed'
  BY <1>1, <1>2 DEF ReplayType, InChain, Listed, Told
<1>4. OneResultEach'
  <2>1. Len(Told') = Len(run'.plan)
    BY <1>1, <1>2 DEF InChain, Told
  <2> QED BY <1>1, <1>2, <1>3, <2>1, ToldOnceAtEnd DEF OneResultEach, InChain
<1>5. SuccessIsEarned'
  <2>1. out' = "success" => (call.dry /\ did = <<>>) \/ SomeDid("success")
    BY <1>1, <1>2 DEF InChain
  <2> QED BY <1>1, <1>2, <2>1 DEF SuccessIsEarned, SomeDid, InChain
<1>6. NothingAfterStop' /\ DoneAsPlanned'
  <2>1. \A i, j \in DOMAIN did : i < j => did[i].step > did[j].step
    BY <1>2, DoneIs DEF InChain, ReplayType, Scheduled
  <2> QED BY <1>1, <1>2, <2>1 DEF NothingAfterStop, DoneAsPlanned, InChain
<1> QED BY <1>1, <1>3, <1>4, <1>5, <1>6 DEF ReplayInv, InPlace, ReplayAccounted

-----------------------------------------------------------------------------
\* run_flow.
LEMMA StepsAre ==
    ASSUME NEW flow \in Seq(STRING)
    PROVE  /\ Steps(flow) \in Seq(Nat) /\ Distinct(Steps(flow))
           /\ Counted(flow) \in Seq(Nat) /\ Distinct(Counted(flow))
<1>1. \A S \in SUBSET DOMAIN flow : InOrder(S) \in Seq(Nat) /\ Distinct(InOrder(S))
  <2> TAKE S \in SUBSET DOMAIN flow
  <2>1. DOMAIN flow = 1..Len(flow) /\ Len(flow) \in Nat
    BY LenProperties
  <2>2. IsFiniteSet(1..Len(flow)) /\ 1..Len(flow) \in SUBSET Nat
    BY <2>1, FS_Interval
  <2>3. IsFiniteSet(S) /\ S \in SUBSET Nat
    BY <2>1, <2>2, FS_Subset
  <2> QED BY <2>3, InOrderLists, SeqMonotonic
<1>2. /\ {n \in DOMAIN flow : flow[n] \in Commands} \in SUBSET DOMAIN flow
      /\ {n \in DOMAIN flow : flow[n] # "bare"} \in SUBSET DOMAIN flow
  OBVIOUS
<1> QED BY <1>1, <1>2 DEF Steps, Counted

\* A list is its own plan.
LEMMA PlanListed ==
    ASSUME NEW q \in Seq(Nat), Distinct(q)
    PROVE  /\ Distinct(StepsOf(<<>>) \o q) /\ Values(StepsOf(<<>>) \o q) \subseteq Values(q)
           /\ Len(StepsOf(<<>>) \o q) = Len(q) /\ Len(q) \in Nat
           /\ StepsOf(<<>>) \o q = q /\ Begins(q, q)
<1>1. StepsOf(<<>>) = <<>>
  BY DEF StepsOf
<1>2. StepsOf(<<>>) \o q = q /\ Len(q) \in Nat
  BY <1>1, ConcatEmptySeq, LenProperties
<1>3. Begins(q, q)
  BY <1>2 DEF Begins
<1> QED BY <1>2, <1>3

LEMMA UpToIs ==
    ASSUME NEW n \in Nat
    PROVE  /\ UpTo(n) \in Seq(Nat) /\ Distinct(UpTo(n)) /\ Len(UpTo(n)) = n
           /\ Values(UpTo(n)) \subseteq 1..n /\ DOMAIN UpTo(n) = 1..n
<1>1. UpTo(n) \in [1..n -> Nat] /\ \A i \in 1..n : UpTo(n)[i] = i
  BY DEF UpTo
<1>2. UpTo(n) \in Seq(Nat) /\ Len(UpTo(n)) = n /\ DOMAIN UpTo(n) = 1..n
  BY <1>1
<1> QED BY <1>1, <1>2 DEF Distinct, Values

\* What has a result for each of the steps of a list tells of each once.
LEMMA ListTold ==
    ASSUME NEW q \in Seq(Nat), Distinct(q), NEW rs, DOMAIN rs = DOMAIN q,
           rs = [i \in DOMAIN q |-> rs[i]],
           \A i \in DOMAIN q : rs[i] \in Results /\ rs[i].step = q[i]
    PROVE  rs \in Seq(Results) /\ StepsOf(rs) = q /\ StepsOf(rs) \o <<>> = q
<1>1. DOMAIN q = 1..Len(q) /\ Len(q) \in Nat
  BY LenProperties
<1>2. [i \in DOMAIN q |-> rs[i]] \in [1..Len(q) -> Results]
  BY <1>1
<1>3. rs \in Seq(Results) /\ Len(rs) = Len(q)
  <2>1. rs \in [1..Len(q) -> Results]
    BY <1>2
  <2> QED BY <1>1, <2>1
<1>4. /\ StepsOf(rs) \in Seq(Nat) /\ Len(StepsOf(rs)) = Len(q)
      /\ \A i \in 1..Len(q) : StepsOf(rs)[i] = q[i]
  BY <1>1, <1>3, StepsType
<1>5. StepsOf(rs) = q
  BY <1>4, SeqEqual
<1> QED BY <1>3, <1>5, ConcatEmptySeq

LEMMA FlowBegins ==
    ASSUME ReplayAssumption, ReplayInv, pc = "begin", FlowBegin(call), UNCHANGED call
    PROVE  ReplayInv'
<1> DEFINE c == call
<1>1. /\ c \in Calls /\ c.count \in 1..MaxRuns /\ MaxRuns \in Nat /\ c.flow \in Seq(STRING)
      /\ did = <<>> /\ c.tool = "run_flow" /\ call' = call /\ UNCHANGED <<log, dir, did>>
      /\ ReplayType
  BY DEF ReplayInv, ReplayType, InPlace, AtBegin, ReplayAssumption, FlowBegin, stores
<1>2. CASE c.platform = "none"
  <2>1. run' = NoRun /\ results' = <<>> /\ did' = <<>> /\ pc' = "idle" /\ out' = "failed"
    BY <1>1, <1>2 DEF FlowBegin, Answer
  <2>2. ReplayType'
    BY <1>1, <2>1 DEF ReplayType, NoRun, Outcomes
  <2>3. ReplayAccounted'
    BY <2>1, NothingTold DEF NoRun
  <2> QED BY <2>1, <2>2, <2>3 DEF ReplayInv, InPlace
<1>3. CASE c.platform # "none" /\ Preview(c) /\ UnsupportedSteps(c.flow) = <<>>
  <2> DEFINE q == Steps(c.flow)
  <2>1. run' = [NoRun EXCEPT !.plan = q, !.todo = q] /\ results' = <<>> /\ pc' = "preview"
    BY <1>3 DEF FlowBegin, Goes
  <2>2. q \in Seq(Nat) /\ Distinct(q)
    BY <1>1, StepsAre
  <2> HIDE DEF q
  <2>3. ReplayType' /\ run'.plan = q /\ run'.todo = q
    BY <1>1, <2>1, <2>2 DEF ReplayType, NoRun, Outcomes
  <2>4. Listed' /\ Len(Told') = Len(run'.plan)
    BY <2>1, <2>2, <2>3, PlanListed DEF Listed, Told
  <2>5. InPreview'
    <3>1. Begins(Scheduled', run'.plan)
      BY <1>1, <2>2, <2>3, PlanListed DEF Scheduled
    <3> QED BY <1>1, <1>3, <2>1, <2>4, <3>1 DEF InPreview, NothingAfterStop, EachDid, Preview
  <2> QED BY <2>1, <2>3, <2>5 DEF ReplayInv, InPlace
<1>4. CASE c.platform # "none" /\ Preview(c) /\ UnsupportedSteps(c.flow) # <<>>
  <2> DEFINE q == Counted(c.flow)
             status(n) == IF c.flow[n] = "unsupported" THEN "failed" ELSE "skipped"
  <2>1. /\ run' = [NoRun EXCEPT !.plan = q] /\ pc' = "idle" /\ out' = "partial"
        /\ results' = [i \in DOMAIN q |-> Result(q[i], status(q[i]))]
    BY <1>4 DEF FlowBegin, Answer
  <2>2. q \in Seq(Nat) /\ Distinct(q)
    BY <1>1, StepsAre
  <2>3. \A n : status(n) \in Statuses
    BY DEF Statuses, Outcomes
  <2> HIDE DEF q, status
  <2>4. \A i \in DOMAIN q : results'[i] \in Results /\ results'[i].step = q[i]
    <3> TAKE i \in DOMAIN q
    <3>1. q[i] \in Nat
      BY <2>2, LenProperties, ElementOfSeq
    <3> QED BY <2>1, <2>3, <3>1, ResultIs
  <2>5. results' \in Seq(Results) /\ StepsOf(results') = q /\ StepsOf(results') \o <<>> = q
    <3>1. DOMAIN results' = DOMAIN q /\ results' = [i \in DOMAIN q |-> results'[i]]
      BY <2>1
    <3> QED BY <2>2, <2>4, <3>1, ListTold
  <2>6. run'.plan = q /\ run'.todo = <<>> /\ ReplayType'
    BY <1>1, <2>1, <2>2, <2>5, EmptySeq DEF ReplayType, NoRun, Outcomes
  <2>7. Listed' /\ Len(Told') = Len(run'.plan)
    BY <2>2, <2>5, <2>6, LenProperties DEF Listed, Told
  <2>8. OneResultEach'
    BY <2>6, <2>7, ToldOnceAtEnd DEF OneResultEach
  <2>9. DoneAsPlanned' /\ NothingAfterStop' /\ SuccessIsEarned'
    BY <1>1, <2>1 DEF DoneAsPlanned, NothingAfterStop, SuccessIsEarned
  <2> QED BY <2>1, <2>6, <2>8, <2>9 DEF ReplayInv, InPlace, ReplayAccounted
<1>5. CASE c.platform # "none" /\ ~Preview(c)
  <2> DEFINE q == IF c.writes THEN UpTo(c.count) ELSE <<>>
  <2>1. /\ run' = [NoRun EXCEPT !.plan = q, !.todo = q] /\ results' = <<>>
        /\ pc' \in {"idle", "probe", "run"}
        /\ pc' = "idle" /\ out' = "success" => c.dry
    <3>1. /\ run' = [NoRun EXCEPT !.plan = q, !.todo = q] /\ results' = <<>>
          /\ IF c.custom THEN Answer("partial")
             ELSE IF c.dry THEN Answer("success")
             ELSE Goes(IF c.platform = "android" THEN "probe" ELSE "run")
      BY <1>5 DEF FlowBegin
    <3> HIDE DEF q
    <3> QED BY <3>1 DEF Answer, Goes
  <2>2. /\ UpTo(c.count) \in Seq(Nat) /\ Distinct(UpTo(c.count))
        /\ Values(UpTo(c.count)) \subseteq 1..MaxRuns
    <3>1. c.count \in Nat /\ 1..c.count \subseteq 1..MaxRuns
      BY <1>1
    <3> QED BY <3>1, UpToIs
  <2>3. q \in Seq(Nat) /\ Distinct(q) /\ Values(q) \subseteq 1..MaxRuns
    <3>1. <<>> \in Seq(Nat) /\ Distinct(<<>>) /\ Values(<<>>) = {}
      BY DEF Distinct, Values
    <3> QED BY <2>2, <3>1
  <2> HIDE DEF q
  <2>5. ReplayType' /\ run'.plan = q /\ run'.todo = q
    <3>1. <<>> \in Seq(Nat) /\ <<>> \in Seq(Results)
      BY EmptySeq
    <3>2. run' \in [plan : Seq(Nat), todo : Seq(Nat), anchor : Nat, newest : Nat,
                    verdict : Outcomes] /\ run'.plan = q /\ run'.todo = q
      BY <2>1, <2>3 DEF NoRun, Outcomes
    <3> QED BY <1>1, <2>1, <3>1, <3>2 DEF ReplayType
  <2>6. InScript'
    <3>1. DOMAIN dir = 1..MaxRuns
      BY <1>1 DEF ReplayType
    <3>2. /\ Scheduled' = run'.plan /\ Distinct(run'.plan)
          /\ Values(run'.plan) \subseteq DOMAIN dir'
      BY <1>1, <2>3, <2>5, <3>1, PlanListed DEF Scheduled
    <3> QED BY <1>1, <1>5, <2>1, <2>5, <3>2 DEF InScript, Preview
  <2>7. CASE pc' \in {"probe", "run"}
    BY <2>5, <2>6, <2>7 DEF ReplayInv, InPlace
  <2>8. CASE pc' = "idle"
    <3>1. OneResultEach'
      <4>1. {results'[i].step : i \in DOMAIN results'} = {}
        BY <2>1
      <4> QED BY <1>1, <1>5, <2>1, <4>1, FS_EmptySet DEF OneResultEach, Preview
    <3>2. DoneAsPlanned' /\ NothingAfterStop' /\ SuccessIsEarned'
      BY <1>1, <1>5, <2>1, <2>8 DEF DoneAsPlanned, NothingAfterStop, SuccessIsEarned, Preview
    <3> QED BY <2>5, <2>8, <3>1, <3>2 DEF ReplayInv, InPlace, ReplayAccounted
  <2> QED BY <2>1, <2>7, <2>8
<1> QED BY <1>2, <1>3, <1>4, <1>5

\* A step of a preview that does not stop it is a success.
LEMMA GoesOn ==
    ASSUME NEW command
    PROVE  /\ DryStatus(command) \in Outcomes
           /\ ShouldStop(command) <=> DryStatus(command) # "success"
<1>1. CASE command \in {"launch", "absent", "gesture"}
  BY <1>1 DEF DryStatus, DryStepState, ShouldStop, Outcomes
<1>2. CASE command \in {"blind", "type"}
  BY <1>2 DEF DryStatus, DryStepState, ShouldStop, Outcomes
<1>3. CASE command \notin {"launch", "absent", "gesture", "blind", "type"}
  BY <1>3 DEF DryStatus, DryStepState, ShouldStop, Outcomes
<1> QED BY <1>1, <1>2, <1>3

LEMMA Previews == ASSUME ReplayInv, PreviewStep PROVE ReplayInv'
<1> DEFINE n == Head(run.todo)
           status == DryStatus(call.flow[n])
           stops == ShouldStop(call.flow[n])
           one == Append(results, Result(n, status))
           rest == Tail(run.todo)
<1>1. /\ pc = "preview" /\ pc' = "preview" /\ run.todo # <<>> /\ UNCHANGED <<dir, call>>
      /\ did' = Append(did, Result(n, status))
      /\ \E r : log' = Append(log, r)
      /\ results' = one \o (IF stops THEN Skipped(rest) ELSE <<>>)
      /\ run' = [run EXCEPT !.todo = IF stops THEN <<>> ELSE Tail(@)]
  BY DEF PreviewStep
<1>2. ReplayType /\ InPreview /\ EachDid("success") /\ results = did
  BY <1>1 DEF ReplayInv, InPlace, InPreview
<1>3. n \in Nat /\ rest \in Seq(Nat)
  BY <1>1, <1>2, HeadMoves DEF ReplayType
<1>4. status \in Outcomes /\ status \in Statuses /\ (stops <=> status # "success")
  BY GoesOn DEF Statuses
<1>5. /\ Result(n, status) \in Results /\ Result(n, status).step = n
      /\ Result(n, status).status = status
  <2> HIDE DEF n, status
  <2> QED BY <1>3, <1>4, ResultIs
<1>6. results \in Seq(Results) /\ run.todo \in Seq(Nat) /\ StepsOf(results) \in Seq(Nat)
  BY <1>2, StepsType DEF ReplayType
<1>7. one \in Seq(Results) /\ StepsOf(one) = Append(StepsOf(results), n)
  <2> HIDE DEF n, status
  <2> QED BY <1>5, <1>6, StepsAppend
<1>8. StepsOf(one) \o rest = Told /\ StepsOf(one) \in Seq(Nat)
  BY <1>1, <1>6, <1>7, HeadMoves, StepsType DEF Told
<1>9. Skipped(rest) \in Seq(Results) /\ StepsOf(Skipped(rest)) = rest
  BY <1>3, StepsSkipped
<1>10. /\ one[Len(results) + 1] = Result(n, status) /\ Len(one) = Len(results) + 1
       /\ Len(results) \in Nat
       /\ \A i \in 1..Len(results) : one[i] = results[i]
  <2> HIDE DEF n, status
  <2> QED BY <1>5, <1>6, AppendProperties, LenProperties
<1>11. one = did'
  BY <1>1, <1>2
<1>12. Begins(Scheduled, run.plan) => Begins(Scheduled', run'.plan)
  <2>1. run'.todo \in {<<>>, Tail(run.todo)} /\ run'.plan = run.plan /\ run.plan \in Seq(Nat)
    BY <1>1, <1>2 DEF ReplayType
  <2> HIDE DEF n, status
  <2> QED BY <1>1, <1>2, <1>5, <2>1, ScheduledKept DEF n
<1> HIDE DEF status, stops, rest, one
<1>13. /\ results' \in Seq(Results) /\ run'.plan = run.plan /\ Told' = Told
       /\ run' \in [plan : Seq(Nat), todo : Seq(Nat), anchor : Nat, newest : Nat,
                    verdict : Outcomes]
       /\ stops => run'.todo = <<>>
       /\ ~stops => results' = one
  <2>1. CASE stops
    <3>1. results' = one \o Skipped(rest) /\ run'.todo = <<>> /\ run'.plan = run.plan
      BY <1>1, <1>2, <2>1 DEF ReplayType
    <3>2. results' \in Seq(Results) /\ StepsOf(results') = StepsOf(one) \o rest
      BY <1>7, <1>9, <3>1, StepsConcat
    <3>3. StepsOf(results') \in Seq(Nat)
      BY <3>2, StepsType
    <3>4. Told' = Told
      BY <1>8, <3>1, <3>2, <3>3, ConcatEmptySeq DEF Told
    <3>5. run' \in [plan : Seq(Nat), todo : Seq(Nat), anchor : Nat, newest : Nat,
                    verdict : Outcomes]
      BY <1>1, <1>2, <2>1, EmptySeq DEF ReplayType
    <3> QED BY <2>1, <3>1, <3>2, <3>4, <3>5
  <2>2. CASE ~stops
    <3>1. results' = one \o <<>> /\ run'.todo = rest /\ run'.plan = run.plan
      BY <1>1, <1>2, <2>2 DEF ReplayType, rest
    <3>2. results' = one
      BY <1>7, <3>1, ConcatEmptySeq
    <3>3. run' \in [plan : Seq(Nat), todo : Seq(Nat), anchor : Nat, newest : Nat,
                    verdict : Outcomes]
      BY <1>1, <1>2, <1>3, <2>2 DEF ReplayType, rest
    <3> QED BY <1>7, <1>8, <2>2, <3>1, <3>2, <3>3 DEF Told
  <2> QED BY <2>1, <2>2
<1>14. /\ did' \in Seq(Results) /\ DOMAIN did = 1..Len(did) /\ Len(did) \in Nat
       /\ Len(did') = Len(did) + 1 /\ DOMAIN did' = 1..(Len(did) + 1)
       /\ \A i \in 1..Len(did) : did'[i] = did[i]
       /\ did'[Len(did) + 1].status = status
  <2> HIDE DEF n
  <2>1. did \in Seq(Results)
    BY <1>2 DEF ReplayType
  <2> QED BY <1>1, <1>5, <2>1, DidMore
<1>15. ReplayType'
  <2>1. \E S : log' \in Seq(S)
    <3>1. PICK r : log' = Append(log, r)
      BY <1>1
    <3> QED BY <1>2, <3>1, LogGrows DEF ReplayType
  <2> QED BY <1>1, <1>2, <1>13, <1>14, <2>1 DEF ReplayType
<1>16. Listed' /\ Len(Told') = Len(run'.plan)
  BY <1>2, <1>13 DEF InPreview, Listed
<1>17. \A i \in 1..Len(did) : did'[i].status = "success"
  BY <1>2, <1>14 DEF EachDid
<1>18. NothingAfterStop'
  <2>1. \A i \in DOMAIN did' : i < Len(did') => i \in 1..Len(did)
    BY <1>14
  <2> QED BY <1>17, <2>1 DEF NothingAfterStop
<1>19. /\ status = "success" => results' = did' /\ EachDid("success")'
       /\ run'.todo # <<>> => status = "success"
  <2>1. run'.todo # <<>> => status = "success"
    BY <1>4, <1>13
  <2>2. status = "success" => results' = did'
    BY <1>4, <1>13, <1>11
  <2>3. \A i \in DOMAIN did' : i \in 1..Len(did) \/ i = Len(did) + 1
    BY <1>14
  <2> QED BY <1>14, <1>17, <2>1, <2>2, <2>3 DEF EachDid
<1>20. status # "success" => SomeResult("failed")' \/ SomeResult("partial")'
  <2>1. \A i \in 1..Len(one) : i \in DOMAIN results' /\ results'[i] = one[i]
    <3>1. CASE stops
      <4>1. results' = one \o Skipped(rest)
        BY <1>1, <3>1
      <4>2. /\ Len(results') = Len(one) + Len(Skipped(rest))
            /\ \A i \in 1..(Len(one) + Len(Skipped(rest))) :
                 results'[i] = IF i <= Len(one) THEN one[i] ELSE Skipped(rest)[i - Len(one)]
        BY <1>7, <1>9, <4>1, ConcatProperties
      <4>3. Len(one) \in Nat /\ Len(Skipped(rest)) \in Nat
            /\ DOMAIN results' = 1..Len(results')
        BY <1>7, <1>9, <1>13, LenProperties
      <4> QED BY <4>2, <4>3
    <3>2. CASE ~stops
      BY <1>7, <1>13, <3>2, LenProperties
    <3> QED BY <3>1, <3>2
  <2>2. DOMAIN results = 1..Len(results)
    BY <1>6, LenProperties
  <2>3. CASE status # "success"
    <3>1. Len(results) + 1 \in DOMAIN results' /\ results'[Len(results) + 1].status = status
      BY <1>5, <1>10, <2>1
    <3>2. status \in {"failed", "partial"}
      BY <1>4, <2>3 DEF Outcomes
    <3> QED BY <3>1, <3>2 DEF SomeResult
  <2> QED BY <2>3
<1>21. InPreview'
  BY <1>1, <1>2, <1>16, <1>18, <1>19, <1>20, <1>12 DEF InPreview, Preview
<1> QED BY <1>1, <1>15, <1>21 DEF ReplayInv, InPlace

LEMMA PreviewAnswers == ASSUME ReplayInv, PreviewEnds PROVE ReplayInv'
<1>1. /\ pc = "preview" /\ run.todo = <<>> /\ UNCHANGED <<log, dir, call, run, results, did>>
      /\ pc' = "idle"
      /\ out' = "success" => ~SomeResult("failed") /\ ~SomeResult("partial")
  <2>1. out' = CASE SomeResult("failed") -> "failed"
                 [] SomeResult("partial") -> "partial"
                 [] OTHER -> "success"
    BY DEF PreviewEnds, Answer
  <2>2. out' = "success" => ~SomeResult("failed") /\ ~SomeResult("partial")
    BY <2>1
  <2> QED BY <2>2 DEF PreviewEnds, Answer, stores
<1>2. InPreview /\ ReplayType
  BY <1>1 DEF ReplayInv, InPlace
<1>3. ReplayType' /\ Listed'
  BY <1>1, <1>2 DEF ReplayType, InPreview, Listed, Told
<1>4. OneResultEach'
  <2>1. Len(Told') = Len(run'.plan)
    BY <1>1, <1>2 DEF InPreview, Told
  <2> QED BY <1>1, <1>2, <1>3, <2>1, ToldOnceAtEnd DEF OneResultEach, InPreview
<1>5. SuccessIsEarned'
  <2>1. out' = "success" => results = did /\ EachDid("success")
    BY <1>1, <1>2 DEF InPreview
  <2>2. Len(results) = Len(run.plan)
    BY <1>1, <1>2, <1>4 DEF OneResultEach, InPreview
  <2>3. out' = "success" => AllDid("success")'
    BY <1>1, <2>1, <2>2 DEF EachDid, AllDid
  <2>4. call'.tool = "run_flow" /\ Preview(call')
    BY <1>1, <1>2 DEF InPreview
  <2> QED BY <2>3, <2>4 DEF SuccessIsEarned
<1>6. NothingAfterStop' /\ DoneAsPlanned'
  <2>1. \A i \in DOMAIN did : i \in DOMAIN run.plan /\ did[i].step = run.plan[i]
    BY <1>2, DoneIs DEF InPreview, ReplayType, Scheduled
  <2> QED BY <1>1, <1>2, <2>1 DEF NothingAfterStop, DoneAsPlanned, InPreview
<1> QED BY <1>1, <1>3, <1>4, <1>5, <1>6 DEF ReplayInv, InPlace, ReplayAccounted

\* A script has told of nothing; a failure or a success of its runs is what it answers.
LEMMA ScriptEnds ==
    ASSUME ReplayType', call'.tool = "run_flow", ~Preview(call'),
           results' = <<>>, pc' = "idle", DoneAsPlanned', out' = "success" => AllDid("PASS")'
    PROVE  ReplayInv'
<1>1. OneResultEach'
  <2>1. {results'[i].step : i \in DOMAIN results'} = {}
    OBVIOUS
  <2> QED BY <2>1, FS_EmptySet DEF OneResultEach
<1>2. NothingAfterStop' /\ SuccessIsEarned'
  BY DEF NothingAfterStop, SuccessIsEarned
<1> QED BY <1>1, <1>2 DEF ReplayInv, InPlace, ReplayAccounted

LEMMA ScriptSteps ==
    ASSUME ReplayInv, FlowProbe \/ FlowBreaks \/ FlowCollect
    PROVE  ReplayInv'
<1>1. /\ pc \in {"probe", "run"} /\ pc' \in {"idle", "run"}
      /\ UNCHANGED <<log, call, run, results, did>>
  BY DEF FlowProbe, FlowBreaks, FlowCollect, Answer, Goes, stores
<1>2. InScript /\ ReplayType
  BY <1>1 DEF ReplayInv, InPlace
<1>3. ReplayType'
  <2>1. dir' \in [1..MaxRuns -> {"none", "empty", "PASS", "FAIL"}]
    BY <1>2 DEF ReplayType, FlowProbe, FlowBreaks, FlowCollect, stores
  <2> QED BY <1>1, <1>2, <2>1 DEF ReplayType
<1>4. CASE pc' = "run"
  <2>1. UNCHANGED dir
    BY <1>4 DEF FlowProbe, FlowBreaks, FlowCollect, Answer, stores
  <2>2. InScript'
    BY <1>1, <1>2, <2>1 DEF InScript, Scheduled, Preview
  <2> QED BY <1>3, <1>4, <2>2 DEF ReplayInv, InPlace
<1>5. CASE pc' = "idle"
  <2>1. out' = "success" => AllDid("PASS")'
    <3>1. SUFFICES ASSUME out' = "success" PROVE AllDid("PASS")'
      OBVIOUS
    <3>2. FlowCollect
      BY <3>1, <1>5 DEF FlowProbe, FlowBreaks, Answer, Goes
    <3>3. \A k \in RunsThere : dir[k] = "PASS"
      BY <3>1, <3>2 DEF FlowCollect, Answer
    <3>4. ASSUME NEW i \in DOMAIN did PROVE did[i].status = "PASS"
      <4>1. did[i].step \in DOMAIN dir
        <5>1. /\ did \in Seq(Results) /\ run.todo \in Seq(Nat) /\ StepsOf(did) \in Seq(Nat)
              /\ i \in DOMAIN StepsOf(did) /\ StepsOf(did)[i] = did[i].step
          BY <1>2, <3>4, StepsType DEF ReplayType, StepsOf
        <5>2. Values(StepsOf(did)) \subseteq DOMAIN dir
          <6>1. /\ Distinct(StepsOf(did) \o run.todo)
                /\ Values(StepsOf(did) \o run.todo) \subseteq DOMAIN dir
            BY <1>2 DEF InScript, Scheduled
          <6> QED BY <5>1, <6>1, FrontKept
        <5> QED BY <5>1, <5>2 DEF Values
      <4>2. did[i].status # "none" /\ dir[did[i].step] = did[i].status
        BY <1>2, <3>4 DEF InScript
      <4> QED BY <3>3, <4>1, <4>2 DEF RunsThere
    <3>5. Len(did) = Len(run.plan)
      <4>1. /\ did \in Seq(Results) /\ StepsOf(did) \in Seq(Nat)
            /\ Len(StepsOf(did)) = Len(did) /\ run.todo = <<>>
        BY <1>2, <3>2, StepsType DEF ReplayType, FlowCollect
      <4> QED BY <1>2, <4>1, ConcatEmptySeq DEF InScript, Scheduled
    <3> QED BY <1>1, <3>4, <3>5 DEF AllDid
  <2>2. call'.tool = "run_flow" /\ ~Preview(call') /\ results' = <<>>
    BY <1>1, <1>2 DEF InScript
  <2>3. DoneAsPlanned'
    <3>1. /\ did \in Seq(Results) /\ run.todo \in Seq(Nat) /\ run.plan \in Seq(Nat)
          /\ Len(run.plan) <= Len(run.plan)
      BY <1>2, LenProperties DEF ReplayType
    <3>2. \A i \in DOMAIN did : i \in DOMAIN run.plan /\ did[i].step = run.plan[i]
      BY <1>2, <3>1, DoneIs DEF InScript, Scheduled, Begins
    <3> QED BY <1>1, <1>2, <3>2 DEF DoneAsPlanned, InScript
  <2> QED BY <1>3, <1>5, <2>1, <2>2, <2>3, ScriptEnds
<1> QED BY <1>1, <1>4, <1>5

LEMMA ScriptRuns == ASSUME ReplayInv, FlowRun PROVE ReplayInv'
<1> DEFINE k == Head(run.todo)
<1>1. /\ pc = "run" /\ pc' = "run" /\ run.todo # <<>> /\ UNCHANGED <<log, call, results>>
      /\ run' = [run EXCEPT !.todo = Tail(@)]
  BY DEF FlowRun
<1>2. PICK result \in {"PASS", "FAIL"} :
        dir' = [dir EXCEPT ![k] = result] /\ did' = Append(did, Result(k, result))
  BY DEF FlowRun
<1>3. InScript /\ ReplayType
  BY <1>1 DEF ReplayInv, InPlace
<1>4. did \in Seq(Results) /\ run.todo \in Seq(Nat) /\ StepsOf(did) \in Seq(Nat)
  BY <1>3, StepsType DEF ReplayType
<1>5. k \in Nat /\ Tail(run.todo) \in Seq(Nat)
  BY <1>1, <1>4, HeadMoves
<1>6. /\ Result(k, result) \in Results /\ Result(k, result).step = k
      /\ Result(k, result).status = result
  BY <1>5, ResultIs DEF Statuses
<1> HIDE DEF k
<1>7. /\ did' \in Seq(Results) /\ DOMAIN did' = 1..(Len(did) + 1) /\ DOMAIN did = 1..Len(did)
      /\ \A i \in 1..Len(did) : did'[i] = did[i]
      /\ did'[Len(did) + 1] = Result(k, result) /\ Len(did) \in Nat
  BY <1>2, <1>4, <1>6, DidMore
<1>8. StepsOf(did') \o Tail(run.todo) = StepsOf(did) \o run.todo
  <2>1. StepsOf(did') = Append(StepsOf(did), k)
    BY <1>2, <1>4, <1>6, StepsAppend
  <2> QED BY <1>1, <1>4, <2>1, HeadMoves DEF k
<1>9. /\ run'.todo = Tail(run.todo) /\ run'.plan = run.plan
      /\ run' \in [plan : Seq(Nat), todo : Seq(Nat), anchor : Nat, newest : Nat,
                   verdict : Outcomes]
  BY <1>1, <1>3, <1>5 DEF ReplayType
<1>10. /\ StepsOf(did') \in Seq(Nat) /\ DOMAIN StepsOf(did') = 1..(Len(did) + 1)
       /\ \A i \in 1..(Len(did) + 1) : StepsOf(did')[i] = did'[i].step
  BY <1>7, StepsType DEF StepsOf
<1>11. Distinct(StepsOf(did')) /\ Values(StepsOf(did')) \subseteq DOMAIN dir
  <2> DEFINE a == StepsOf(did')
             b == Tail(run.todo)
  <2>1. Distinct(a \o b) /\ Values(a \o b) \subseteq DOMAIN dir
    BY <1>3, <1>8 DEF InScript, Scheduled
  <2>2. a \in Seq(Nat) /\ b \in Seq(Nat)
    BY <1>5, <1>10
  <2> HIDE DEF a, b
  <2>3. Distinct(a) /\ Values(a) \subseteq Values(a \o b)
    BY <2>1, <2>2, FrontKept
  <2> QED BY <2>1, <2>3 DEF a
<1>12. k \in DOMAIN dir /\ \A i \in 1..Len(did) : did[i].step # k
  <2>1. Len(did) + 1 \in 1..(Len(did) + 1) /\ StepsOf(did')[Len(did) + 1] = k
    BY <1>6, <1>7, <1>10
  <2>2. ASSUME NEW i \in 1..Len(did) PROVE did[i].step # k
    <3>1. i \in 1..(Len(did) + 1) /\ i # Len(did) + 1 /\ StepsOf(did')[i] = did[i].step
      BY <1>7, <1>10
    <3> QED BY <1>10, <1>11, <2>1, <3>1 DEF Distinct
  <2> QED BY <1>10, <1>11, <2>1, <2>2 DEF Values
<1>13. DOMAIN dir' = DOMAIN dir /\ dir' \in [1..MaxRuns -> {"none", "empty", "PASS", "FAIL"}]
  BY <1>2, <1>3 DEF ReplayType
<1>14. \A i \in DOMAIN did' : did'[i].status # "none" /\ dir'[did'[i].step] = did'[i].status
  <2> TAKE i \in DOMAIN did'
  <2>1. CASE i \in 1..Len(did)
    <3>1. did[i].status # "none" /\ dir[did[i].step] = did[i].status
      BY <1>3, <1>7, <2>1 DEF InScript
    <3>2. dir'[did[i].step] = dir[did[i].step]
      <4>1. did[i].step # k /\ did[i].step \in DOMAIN dir
        <5>1. i \in 1..(Len(did) + 1) /\ StepsOf(did')[i] = did[i].step
          BY <1>7, <1>10, <2>1
        <5> QED BY <1>10, <1>11, <1>12, <2>1, <5>1 DEF Values
      <4> QED BY <1>2, <1>3, <4>1 DEF ReplayType
    <3> QED BY <1>7, <2>1, <3>1, <3>2
  <2>2. CASE i = Len(did) + 1
    <3>1. did'[i].step = k /\ did'[i].status = result
      BY <1>6, <1>7, <2>2
    <3>2. dir'[k] = result
      BY <1>2, <1>3, <1>12 DEF ReplayType
    <3> QED BY <3>1, <3>2
  <2> QED BY <1>7, <2>1, <2>2
<1>15. ReplayType'
  BY <1>1, <1>3, <1>7, <1>9, <1>13 DEF ReplayType
<1>16. InScript'
  BY <1>1, <1>3, <1>8, <1>9, <1>13, <1>14 DEF InScript, Scheduled, Preview
<1> QED BY <1>1, <1>15, <1>16 DEF ReplayInv, InPlace

-----------------------------------------------------------------------------
\* complete_task.
LEMMA TaskBegins ==
    ASSUME ReplayAssumption, ReplayInv, pc = "begin", TaskBegin(call), UNCHANGED call
    PROVE  ReplayInv'
<1> DEFINE q == TaskSteps(call)
<1>1. /\ call \in Calls /\ call.count \in Nat /\ call.max \in Nat /\ did = <<>>
      /\ call.tool = "complete_task" /\ UNCHANGED <<log, dir, did, call>> /\ ReplayType
      /\ results' = <<>> /\ pc' = "task" /\ run' = [NoRun EXCEPT !.plan = q, !.todo = q]
  BY DEF ReplayInv, ReplayType, InPlace, AtBegin, ReplayAssumption, TaskBegin, stores, Goes
<1>2. q \in Seq(Nat) /\ Distinct(q)
  <2>1. \E n \in Nat : q = UpTo(n)
    BY <1>1 DEF TaskSteps, MaxTaskSteps
  <2> QED BY <2>1, UpToIs
<1> HIDE DEF q
<1>3. ReplayType' /\ run'.plan = q /\ run'.todo = q
  BY <1>1, <1>2 DEF ReplayType, NoRun, Outcomes
<1>4. Listed'
  BY <1>1, <1>2, <1>3, PlanListed DEF Listed, Told
<1>5. InTask'
  <2>1. Begins(Scheduled', run'.plan)
    BY <1>1, <1>2, <1>3, PlanListed DEF Scheduled
  <2> QED BY <1>1, <1>4, <2>1 DEF InTask, NothingAfterStop, EachDid
<1> QED BY <1>1, <1>3, <1>5 DEF ReplayInv, InPlace

LEMMA TaskGoesOn == ASSUME ReplayInv, TaskStep PROVE ReplayInv'
<1> DEFINE n == Head(run.todo)
<1>1. pc = "task" /\ pc' = "task" /\ run.todo # <<>> /\ UNCHANGED <<dir, call>>
  BY DEF TaskStep
<1>2. ReplayType /\ InTask
  BY <1>1 DEF ReplayInv, InPlace
<1>3. PICK v \in Verdicts :
        /\ Perform("tap", v)
        /\ results' = Append(results, Result(n, v.status))
        /\ did' = Append(did, Result(n, v.status))
        /\ run' = [run EXCEPT
              !.verdict = IF v.status # "success" /\ (call.strict \/ ~v.terminal) THEN v.status
                          ELSE IF v.terminal THEN "failed" ELSE @,
              !.todo = IF v.terminal \/ (v.status # "success" /\ call.strict) THEN <<>>
                       ELSE Tail(@)]
  BY DEF TaskStep
<1>4. (\E S : log' \in Seq(S)) /\ v.status \in Outcomes /\ v.status \in Statuses
  BY <1>2, <1>3, PerformType DEF ReplayType, Statuses
<1>5. n \in Nat /\ Tail(run.todo) \in Seq(Nat) /\ run.todo \in Seq(Nat)
  BY <1>1, <1>2, HeadMoves DEF ReplayType
<1> DEFINE r == Result(n, v.status)
<1>6. r \in Results /\ r.step = n /\ r.status = v.status
  BY <1>4, <1>5, ResultIs
<1>7. results \in Seq(Results) /\ did \in Seq(Results) /\ StepsOf(results) \in Seq(Nat)
  BY <1>2, StepsType DEF ReplayType
<1> HIDE DEF r
<1>8. /\ results' \in Seq(Results) /\ StepsOf(results') = Append(StepsOf(results), n)
      /\ StepsOf(results') \in Seq(Nat) /\ StepsOf(results') \o Tail(run.todo) = Told
  <2>1. results' = Append(results, r)
    BY <1>3 DEF r
  <2>2. results' \in Seq(Results) /\ StepsOf(results') = Append(StepsOf(results), n)
    BY <1>6, <1>7, <2>1, StepsAppend
  <2> QED BY <1>1, <1>5, <1>7, <2>2, StepsType, HeadMoves DEF Told
<1>9. /\ run'.plan = run.plan
      /\ run' \in [plan : Seq(Nat), todo : Seq(Nat), anchor : Nat, newest : Nat,
                   verdict : Outcomes]
      /\ run'.todo \in {<<>>, Tail(run.todo)}
      /\ run'.verdict = "success" => run.verdict = "success" /\ v.status = "success"
      /\ run'.todo # <<>> /\ call.strict => v.status = "success"
  <2> DEFINE todo == IF v.terminal \/ (v.status # "success" /\ call.strict) THEN <<>>
                     ELSE Tail(run.todo)
             verdict == IF v.status # "success" /\ (call.strict \/ ~v.terminal) THEN v.status
                        ELSE IF v.terminal THEN "failed" ELSE run.verdict
  <2>1. run' = [run EXCEPT !.verdict = verdict, !.todo = todo]
    BY <1>3
  <2>2. /\ todo \in {<<>>, Tail(run.todo)}
        /\ todo # <<>> /\ call.strict => v.status = "success"
    OBVIOUS
  <2>3. todo \in Seq(Nat)
    BY <1>5, <2>2, EmptySeq
  <2>4. /\ verdict \in Outcomes
        /\ verdict = "success" => run.verdict = "success" /\ v.status = "success"
    <3>1. run.verdict \in Outcomes
      BY <1>2 DEF ReplayType
    <3>2. CASE v.terminal
      BY <1>4, <3>1, <3>2 DEF Outcomes
    <3>3. CASE ~v.terminal
      BY <1>4, <3>1, <3>3 DEF Outcomes
    <3> QED BY <3>2, <3>3
  <2> HIDE DEF todo, verdict
  <2>5. /\ run'.plan = run.plan /\ run'.todo = todo /\ run'.verdict = verdict
        /\ run' \in [plan : Seq(Nat), todo : Seq(Nat), anchor : Nat, newest : Nat,
                     verdict : Outcomes]
    BY <1>2, <2>1, <2>3, <2>4 DEF ReplayType
  <2> QED BY <2>2, <2>4, <2>5
<1>10. Listed'
  <2>1. /\ Distinct(Told) /\ Values(Told) \subseteq Values(run.plan)
        /\ Len(Told) <= Len(run.plan) /\ Len(run.plan) \in Nat
    BY <1>2, LenProperties DEF InTask, Listed, ReplayType
  <2>2. CASE run'.todo = Tail(run.todo)
    BY <1>8, <1>9, <2>1, <2>2 DEF Listed, Told
  <2>3. CASE run'.todo = <<>>
    <3>1. Told' = StepsOf(results')
      BY <1>8, <2>3, ConcatEmptySeq DEF Told
    <3>2. /\ Distinct(StepsOf(results')) /\ Values(StepsOf(results')) \subseteq Values(Told)
          /\ Len(StepsOf(results')) <= Len(Told)
      BY <1>5, <1>8, <2>1, FrontKept
    <3>3. Len(StepsOf(results')) \in Nat /\ Len(Told) \in Nat
      <4>1. Told \in Seq(Nat)
        BY <1>5, <1>7, ConcatProperties DEF Told
      <4> QED BY <1>8, <4>1, LenProperties
    <3> QED BY <1>9, <2>1, <3>1, <3>2, <3>3 DEF Listed
  <2> QED BY <1>9, <2>2, <2>3
<1>11. /\ did' \in Seq(Results) /\ DOMAIN did = 1..Len(did) /\ Len(did) \in Nat
       /\ Len(did') = Len(did) + 1 /\ DOMAIN did' = 1..(Len(did) + 1)
       /\ \A i \in 1..Len(did) : did'[i] = did[i]
       /\ did'[Len(did) + 1].status = v.status
  <2>1. did' = Append(did, r)
    BY <1>3 DEF r
  <2> QED BY <1>6, <1>7, <2>1, DidMore
<1>12. Begins(Scheduled', run'.plan) /\ results' = did'
  <2>1. did' = Append(did, r)
    BY <1>3 DEF r
  <2>2. run.plan \in Seq(Nat)
    BY <1>2 DEF ReplayType
  <2>3. Begins(Scheduled', run.plan)
    BY <1>1, <1>2, <1>6, <1>9, <2>1, <2>2, ScheduledKept DEF InTask
  <2> QED BY <1>2, <1>3, <1>9, <2>3 DEF InTask
<1>13. run'.verdict = "success" => EachDid("success")'
  <2> SUFFICES ASSUME run'.verdict = "success" PROVE EachDid("success")'
    OBVIOUS
  <2>1. EachDid("success") /\ v.status = "success"
    BY <1>2, <1>9 DEF InTask
  <2>2. \A i \in DOMAIN did' : i \in DOMAIN did \/ i = Len(did) + 1
    BY <1>11
  <2> QED BY <1>11, <2>1, <2>2 DEF EachDid
<1>14. call.strict => \A i \in 1..Len(did) : did'[i].status = "success"
  BY <1>1, <1>2, <1>11 DEF InTask, EachDid
<1>15. NothingAfterStop'
  <2>1. \A i \in DOMAIN did' : i < Len(did') => i \in 1..Len(did)
    BY <1>11
  <2>2. call'.tool = "complete_task" /\ call'.strict = call.strict
    BY <1>1, <1>2 DEF InTask
  <2> QED BY <1>14, <2>1, <2>2 DEF NothingAfterStop
<1>16. call.strict /\ run'.todo # <<>> => EachDid("success")'
  <2>1. \A i \in DOMAIN did' : i \in 1..Len(did) \/ i = Len(did) + 1
    BY <1>11
  <2> QED BY <1>9, <1>11, <1>14, <2>1 DEF EachDid
<1>17. ReplayType' /\ InTask'
  BY <1>1, <1>2, <1>4, <1>8, <1>9, <1>10, <1>11, <1>12, <1>13, <1>15, <1>16
  DEF ReplayType, InTask
<1> QED BY <1>1, <1>17 DEF ReplayInv, InPlace

LEMMA TaskAnswers == ASSUME ReplayInv, TaskEnds PROVE ReplayInv'
<1>1. /\ pc = "task" /\ run.todo = <<>> /\ UNCHANGED <<log, dir, call, run, results, did>>
      /\ pc' = "idle"
      /\ out' = "success" => run.verdict = "success" /\ ~(Len(results) < Len(run.plan))
  BY DEF TaskEnds, Answer, stores
<1>2. InTask /\ ReplayType
  BY <1>1 DEF ReplayInv, InPlace
<1>3. ReplayType' /\ Listed'
  BY <1>1, <1>2 DEF ReplayType, InTask, Listed, Told
<1>4. OneResultEach' /\ Len(results) = Len(Told)
  BY <1>1, <1>2, <1>3, ToldOnceAtEnd DEF OneResultEach, InTask, Told
<1>5. SuccessIsEarned'
  <2>1. Len(results) <= Len(run.plan) /\ Len(results) \in Nat /\ Len(run.plan) \in Nat
    BY <1>2, <1>4, LenProperties DEF InTask, Listed, ReplayType
  <2>2. out' = "success" => AllDid("success")'
    BY <1>1, <1>2, <2>1 DEF InTask, EachDid, AllDid
  <2>3. call'.tool = "complete_task"
    BY <1>1, <1>2 DEF InTask
  <2> QED BY <2>2, <2>3 DEF SuccessIsEarned
<1>6. NothingAfterStop' /\ DoneAsPlanned'
  <2>1. \A i \in DOMAIN did : i \in DOMAIN run.plan /\ did[i].step = run.plan[i]
    BY <1>2, DoneIs DEF InTask, ReplayType, Scheduled
  <2> QED BY <1>1, <1>2, <2>1 DEF NothingAfterStop, DoneAsPlanned, InTask
<1> QED BY <1>1, <1>3, <1>4, <1>5, <1>6 DEF ReplayInv, InPlace, ReplayAccounted

-----------------------------------------------------------------------------
\* validate_flow.
LEMMA FunctionLen ==
    ASSUME NEW n \in Nat, NEW f, DOMAIN f = 1..n, f = [i \in 1..n |-> f[i]]
    PROVE  Len(f) = n
<1>1. f \in [1..n -> {f[i] : i \in 1..n}]
  OBVIOUS
<1> QED BY <1>1

LEMMA Validates ==
    ASSUME ReplayAssumption, ReplayInv, pc = "begin", ValidateFlow(call), UNCHANGED call
    PROVE  ReplayInv'
<1> DEFINE steps == CASE call.source = "file" -> FileSteps(call.flow)
                      [] call.source = "session" -> SessionSteps
                      [] OTHER -> <<>>
           said(i) == Validation(call, steps[i])
           n == Len(steps)
           q == UpTo(n)
<1>1. /\ call \in Calls /\ call.flow \in Seq(STRING) /\ did = <<>>
      /\ call.tool = "validate_flow" /\ UNCHANGED <<log, dir, did, call>> /\ ReplayType
  BY DEF ReplayInv, ReplayType, InPlace, AtBegin, ReplayAssumption, ValidateFlow, stores
<1>2. /\ run' = [NoRun EXCEPT !.plan = q] /\ pc' = "idle"
      /\ results' = [i \in DOMAIN steps |-> Result(i, said(i))]
      /\ out' = IF steps = <<>> \/ \E i \in DOMAIN steps : said(i) = "fail"
                THEN "failed" ELSE "success"
  BY DEF ValidateFlow, Answer
<1>3. n \in Nat /\ DOMAIN steps = 1..n
  <2>1. CASE call.source = "file"
    <3> DEFINE f == FileSteps(call.flow)
               l == Len(Counted(call.flow))
    <3>1. l \in Nat /\ DOMAIN Counted(call.flow) = 1..l
      BY <1>1, StepsAre, LenProperties
    <3>2. DOMAIN f = 1..l /\ f = [i \in 1..l |-> f[i]]
      BY <3>1 DEF FileSteps
    <3>3. steps = f
      BY <2>1
    <3> HIDE DEF f, l, steps
    <3>4. Len(f) = l
      BY <3>1, <3>2, FunctionLen
    <3> QED BY <3>1, <3>2, <3>3, <3>4
  <2>2. CASE call.source = "session"
    <3> DEFINE l == Len(log)
    <3>1. l \in Nat
      BY <1>1, LenProperties DEF ReplayType
    <3>2. DOMAIN Listing = 1..l
      <4>1. Len(UpTo(l)) = l
        BY <3>1, UpToIs
      <4> QED BY <4>1 DEF Listing, Reverse
    <3>3. DOMAIN SessionSteps = 1..l /\ SessionSteps = [i \in 1..l |-> SessionSteps[i]]
      BY <3>2 DEF SessionSteps
    <3>4. steps = SessionSteps
      BY <2>2
    <3> HIDE DEF l, steps
    <3>5. Len(SessionSteps) = l
      BY <3>1, <3>3, FunctionLen
    <3> QED BY <3>1, <3>3, <3>4, <3>5
  <2>3. CASE call.source \notin {"file", "session"}
    <3>1. steps = <<>>
      BY <2>3
    <3> HIDE DEF steps
    <3> QED BY <3>1
  <2> QED BY <2>1, <2>2, <2>3
<1>4. \A i : said(i) \in {"fail", "warn"}
  BY DEF Validation
<1> HIDE DEF steps, said, n
<1>5. q \in Seq(Nat) /\ Distinct(q) /\ DOMAIN q = 1..n /\ \A i \in 1..n : q[i] = i
  <2>1. \A i \in 1..n : UpTo(n)[i] = i
    BY DEF UpTo
  <2> QED BY <1>3, <2>1, UpToIs
<1>6. /\ DOMAIN results' = DOMAIN q /\ results' = [i \in DOMAIN q |-> results'[i]]
      /\ \A i \in DOMAIN q : results'[i] \in Results /\ results'[i].step = q[i]
                             /\ results'[i].status = said(i)
  <2>1. \A i \in 1..n : i \in Nat /\ said(i) \in Statuses
    BY <1>3, <1>4 DEF Statuses
  <2>2. results' = [i \in 1..n |-> Result(i, said(i))]
    BY <1>2, <1>3
  <2>3. \A i \in 1..n : results'[i] = Result(i, said(i))
    BY <2>2
  <2>4. \A i \in 1..n : results'[i] \in Results /\ results'[i].step = q[i]
                        /\ results'[i].status = said(i)
    BY <1>5, <2>1, <2>3, ResultIs
  <2> HIDE DEF q
  <2> QED BY <1>5, <2>2, <2>4
<1> HIDE DEF q
<1>7. results' \in Seq(Results) /\ StepsOf(results') = q /\ StepsOf(results') \o <<>> = q
  BY <1>5, <1>6, ListTold
<1>8. run'.plan = q /\ run'.todo = <<>> /\ ReplayType'
  BY <1>1, <1>2, <1>5, <1>7, EmptySeq DEF ReplayType, NoRun, Outcomes
<1>9. Listed'
  BY <1>5, <1>7, <1>8, LenProperties DEF Listed, Told
<1>10. OneResultEach'
  BY <1>1, <1>8, <1>9, ToldOnceAtEnd DEF OneResultEach
<1>11. out' = "success" => ~SomeResult("fail")'
  BY <1>2, <1>3, <1>5, <1>6 DEF SomeResult
<1>12. DoneAsPlanned' /\ NothingAfterStop' /\ SuccessIsEarned'
  BY <1>1, <1>11 DEF DoneAsPlanned, NothingAfterStop, SuccessIsEarned
<1> QED BY <1>2, <1>8, <1>10, <1>12 DEF ReplayInv, InPlace, ReplayAccounted

-----------------------------------------------------------------------------
LEMMA ReplayInit == ASSUME ReplayAssumption, Init PROVE ReplayInv
<1>1. log \in Seq({}) /\ results \in Seq(Results) /\ did \in Seq(Results) /\ <<>> \in Seq(Nat)
  BY EmptySeq DEF Init
<1>2. ReplayType
  BY <1>1 DEF Init, ReplayType, NoRun, Outcomes
<1> QED BY <1>2 DEF Init, ReplayInv, InPlace, ReplayAccounted, Answered

\* What was answered stays accounted for as long as the answer stands.
LEMMA AnswerKept ==
    ASSUME UNCHANGED <<call, pc, run, results, did, out>>, ReplayAccounted
    PROVE  ReplayAccounted'
<1>1. Answered' = Answered
  BY DEF Answered
<1>2. OneResultEach' = OneResultEach
  BY DEF OneResultEach, Preview
<1>3. DoneAsPlanned' = DoneAsPlanned
  BY DEF DoneAsPlanned
<1>4. NothingAfterStop' = NothingAfterStop
  BY DEF NothingAfterStop, Preview
<1>5. SuccessIsEarned => SuccessIsEarned'
  BY DEF SuccessIsEarned, AllDid, SomeResult, Preview
<1> QED BY <1>1, <1>2, <1>3, <1>4, <1>5 DEF ReplayAccounted

LEMMA ReplayNext == ASSUME ReplayAssumption, ReplayInv, [Next]_vars PROVE ReplayInv'
<1>1. CASE Issue
  <2>1. run' = NoRun /\ results' = <<>> /\ did' = <<>> /\ pc' = "begin" /\ call' \in Calls
        /\ UNCHANGED <<log, dir>>
    BY <1>1 DEF Issue, stores
  <2>2. results' \in Seq(Results) /\ did' \in Seq(Results) /\ <<>> \in Seq(Nat)
    BY <2>1, EmptySeq
  <2>3. ReplayType'
    BY <2>1, <2>2 DEF ReplayInv, ReplayType, NoRun, Outcomes
  <2> QED BY <2>1, <2>3 DEF ReplayInv, InPlace, AtBegin
<1>2. CASE Act
  <2>1. \E S : log' \in Seq(S)
    <3>1. PICK r \in Records : log' = Append(log, r)
      BY <1>2 DEF Act
    <3> QED BY <3>1, LogGrows DEF ReplayInv, ReplayType
  <2>2. ReplayType'
    BY <1>2, <2>1 DEF Act, ReplayInv, ReplayType
  <2>3. pc' = "idle" /\ (ReplayAccounted => ReplayAccounted')
    BY <1>2, AnswerKept DEF Act
  <2> QED BY <1>2, <2>2, <2>3 DEF Act, ReplayInv, InPlace
<1>3. CASE Begin
  <2>1. pc = "begin" /\ UNCHANGED call
    BY <1>3 DEF Begin
  <2>2. ChainBegin(call) \/ FlowBegin(call) \/ TaskBegin(call) \/ ValidateFlow(call)
    BY <1>3 DEF Begin
  <2> QED BY <2>1, <2>2, ChainBegins, FlowBegins, TaskBegins, Validates
<1>4. CASE Throw
  <2>1. UNCHANGED <<log, dir, call, run, results, did>> /\ pc' = "idle" /\ out' = "threw"
    BY <1>4 DEF Throw, Answer, stores
  <2>2. ReplayType'
    BY <2>1 DEF ReplayInv, ReplayType
  <2> QED BY <2>1, <2>2 DEF ReplayInv, InPlace, ReplayAccounted, Answered
<1>5. CASE UNCHANGED vars
  <2>1. UNCHANGED <<log, dir, call, pc, run, results, did, out>>
    BY <1>5 DEF vars
  <2>2. ReplayType' /\ (AtBegin => AtBegin')
    BY <2>1 DEF ReplayInv, ReplayType, AtBegin
  <2>3. (Listed => Listed') /\ Told' = Told /\ Scheduled' = Scheduled
    BY <2>1 DEF Listed, Told, Scheduled
  <2>4. NothingAfterStop => NothingAfterStop'
    BY <2>1 DEF NothingAfterStop, Preview
  <2>5. ReplayAccounted => ReplayAccounted'
    BY <2>1, AnswerKept
  <2>6. InChain => InChain'
    BY <2>1, <2>3 DEF InChain, SomeResult, SomeDid
  <2>7. InPreview => InPreview'
    BY <2>1, <2>3, <2>4 DEF InPreview, EachDid, SomeResult, Preview
  <2>8. InTask => InTask'
    BY <2>1, <2>3, <2>4 DEF InTask, EachDid
  <2>9. InScript => InScript'
    BY <2>1 DEF InScript, Scheduled, Preview
  <2> QED BY <2>1, <2>2, <2>5, <2>6, <2>7, <2>8, <2>9 DEF ReplayInv, InPlace
<1>6. CASE \/ ChainCheck \/ ChainReplay \/ ChainEnds
           \/ PreviewStep \/ PreviewEnds
           \/ FlowProbe \/ FlowRun \/ FlowBreaks \/ FlowCollect
           \/ TaskStep \/ TaskEnds
  BY <1>6, ChainChecks, ChainReplays, ChainAnswers, Previews, PreviewAnswers, ScriptSteps,
     ScriptRuns, TaskGoesOn, TaskAnswers
<1> QED BY <1>1, <1>2, <1>3, <1>4, <1>5, <1>6 DEF Next, Step

\* What a call that answers says of its steps is what it did: a result for every step of
\* its plan and for no other, the steps carried out in the order of the plan, nothing after
\* a stop, and success only where it was earned, with the exceptions SuccessIsEarned names,
\* for any calls, records left before it and failures on the way.
THEOREM ReplaysAreAccounted == Spec => []ReplayAccounted
<1>1. Init => ReplayInv
  BY ReplayAssumption, ReplayInit
<1>2. ReplayInv /\ [Next]_vars => ReplayInv'
  BY ReplayAssumption, ReplayNext
<1>3. ReplayInv => ReplayAccounted
  <2>1. CASE pc = "idle"
    BY <2>1 DEF ReplayInv, InPlace
  <2>2. CASE pc # "idle"
    BY <2>2 DEF ReplayAccounted, Answered
  <2> QED BY <2>1, <2>2
<1> QED BY <1>1, <1>2, <1>3, PTL DEF Spec

================================================================================
