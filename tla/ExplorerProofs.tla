----------------------------- MODULE ExplorerProofs -----------------------------
(***************************************************************************)
(* The exploration keeps its stack a path, its limits and its report, for  *)
(* any pages, moves, rules, configurations and limits and any popups.      *)
(* What a page contains and how it is decided upon stay unexpanded.        *)
(***************************************************************************)
EXTENDS Explorer, SequenceTheorems, FiniteSetTheorems, WellFoundedInduction, TLAPS

\* A sequence, whatever it consists of.
Values(s) == {s[i] : i \in DOMAIN s}
IsSeq(s)  == s \in Seq(Values(s))

\* The frames on the stack are those of a path, each titled for the way back.
FrameFields == {"id", "title", "depth", "path", "cursor", "elements", "parentTitle",
                "app", "external", "noOps", "scroll"}
WayBack(f) == IF f.title # NoTitle THEN f.title ELSE f.parentTitle
MostSegments == IF MaxSegments > 1 THEN MaxSegments ELSE 1
FrameShape(f) ==
    /\ DOMAIN f = FrameFields /\ IsSeq(f.path)
    /\ DOMAIN f.scroll = {"index", "segments", "mark"} /\ IsSeq(f.scroll.segments)
    /\ f.scroll.index = Len(f.scroll.segments) /\ f.scroll.index <= MostSegments
Chained(stk) ==
    /\ IsSeq(stk)
    /\ \A i \in DOMAIN stk :
          /\ FrameShape(stk[i]) /\ stk[i].depth = i - 1 /\ Len(stk[i].path) = i - 1
          /\ i > 1 => /\ Front(stk[i].path) = stk[i - 1].path
                      /\ stk[i].parentTitle = WayBack(stk[i - 1])

-----------------------------------------------------------------------------
\* A set of numbers has a least one.
LEMMA LeastNat ==
    ASSUME NEW T, T \subseteq Nat, T # {}
    PROVE  \E x \in T : \A y \in T : x <= y
<1> DEFINE R == OpToRel(<, Nat)
<1>1. IsWellFoundedOn(R, Nat)
  BY NatLessThanWellFounded
<1>2. \E x \in T : \A y \in T : ~ (<<y, x>> \in R)
  <2> HIDE DEF R
  <2> QED BY <1>1, WFMin
<1>3. \A x \in Nat, y \in Nat : <<y, x>> \in R <=> y < x
  BY DEF OpToRel
<1> HIDE DEF R
<1>4. PICK x \in T : \A y \in T : ~ (<<y, x>> \in R)
  BY <1>2
<1>5. \A y \in T : x <= y
  <2> TAKE y \in T
  <2>1. x \in Nat /\ y \in Nat /\ ~ (y < x)
    BY <1>3, <1>4
  <2> QED BY <2>1
<1> QED BY <1>5

\* Induction over the natural numbers, for a set instead of a predicate.
LEMMA NatInduct ==
    ASSUME NEW T, 0 \in T, \A n \in Nat : n \in T => n + 1 \in T
    PROVE  Nat \subseteq T
<1> SUFFICES ASSUME Nat \ T # {} PROVE FALSE
  OBVIOUS
<1>1. PICK x \in Nat \ T : \A y \in Nat \ T : x <= y
  BY LeastNat
<1>2. x # 0 /\ x - 1 \in Nat /\ x - 1 \in T
  BY <1>1
<1>3. x - 1 + 1 = x
  BY <1>1
<1> QED BY <1>1, <1>2, <1>3

\* The topmost of a set of places is one of them.
LEMMA TopmostIn ==
    ASSUME NEW n \in Nat, NEW S, S \subseteq 1 .. n, S # {}
    PROVE  Topmost(S) \in S
<1> DEFINE T == {k \in Nat : n - k \in S}
<1>1. T # {}
  <2>1. PICK i \in S : TRUE
    OBVIOUS
  <2>2. n - i \in Nat /\ n - (n - i) = i
    BY <2>1
  <2> QED BY <2>1, <2>2
<1>2. PICK k \in T : \A l \in T : k <= l
  BY <1>1, LeastNat
<1>3. \A j \in S : j <= n - k
  <2> TAKE j \in S
  <2>1. j \in Nat /\ n - j \in Nat /\ n - (n - j) = j
    OBVIOUS
  <2>2. n - j \in T
    BY <2>1
  <2>3. k <= n - j /\ k \in Nat
    BY <1>2, <2>2
  <2> QED BY <2>1, <2>3
<1>4. n - k \in S
  BY <1>2
<1> QED BY <1>3, <1>4 DEF Topmost

-----------------------------------------------------------------------------
\* What is a sequence of anything is a sequence.
LEMMA SeqIsSeq ==
    ASSUME NEW S, NEW s \in Seq(S)
    PROVE  IsSeq(s) /\ Len(s) \in Nat /\ DOMAIN s = 1 .. Len(s)
<1>1. Len(s) \in Nat /\ DOMAIN s = 1 .. Len(s) /\ s \in [1 .. Len(s) -> S]
  BY LenProperties
<1>2. s \in [1 .. Len(s) -> Values(s)]
  BY <1>1 DEF Values
<1>3. s \in Seq(Values(s))
  BY <1>1, <1>2, SeqDef
<1> QED BY <1>1, <1>3 DEF IsSeq

\* A sequence has a length, and only the empty one has none.
LEMMA SeqLen ==
    ASSUME NEW s, IsSeq(s)
    PROVE  Len(s) \in Nat /\ DOMAIN s = 1 .. Len(s) /\ (s = <<>> <=> Len(s) = 0)
BY LenProperties, EmptySeq DEF IsSeq

\* The empty sequence.
LEMMA EmptyIsSeq == IsSeq(<<>>) /\ Len(<<>>) = 0
BY EmptySeq, SeqIsSeq

\* One more element.
LEMMA AppendSeq ==
    ASSUME NEW s, IsSeq(s), NEW x
    PROVE  /\ IsSeq(Append(s, x)) /\ Len(Append(s, x)) = Len(s) + 1
           /\ DOMAIN Append(s, x) = 1 .. (Len(s) + 1)
           /\ \A i \in 1 .. Len(s) : Append(s, x)[i] = s[i]
           /\ Append(s, x)[Len(s) + 1] = x
           /\ Front(Append(s, x)) = s
<1> DEFINE S == Values(s) \cup {x}
           a == Append(s, x)
<1>1. s \in Seq(S) /\ x \in S
  BY SeqMonotonic DEF IsSeq
<1>2. a \in Seq(S) /\ Len(a) = Len(s) + 1 /\ a[Len(s) + 1] = x /\ \A i \in 1 .. Len(s) : a[i] = s[i]
  BY <1>1, AppendProperties
<1>3. IsSeq(a) /\ DOMAIN a = 1 .. Len(a) /\ Len(s) \in Nat
  BY <1>1, <1>2, SeqIsSeq
<1>4. SubSeq(a, 1, Len(s)) = s
  <2> HIDE DEF a
  <2>1. \A i \in 1 .. Len(s) : a[i] \in S
    BY <1>2, <1>1, ElementOfSeq
  <2>2. /\ SubSeq(a, 1, Len(s)) \in Seq(S) /\ Len(SubSeq(a, 1, Len(s))) = Len(s)
        /\ \A i \in 1 .. Len(s) : SubSeq(a, 1, Len(s))[i] = a[i]
    BY <1>3, <2>1, SubSeqProperties
  <2> QED BY <1>1, <1>2, <2>2, SeqEqual
<1> HIDE DEF a
<1>5. Front(a) = SubSeq(a, 1, Len(s))
  BY <1>2, <1>3 DEF Front
<1> QED BY <1>2, <1>3, <1>4, <1>5 DEF a

\* The first elements.
LEMMA PrefixSeq ==
    ASSUME NEW s, IsSeq(s), NEW n \in 0 .. Len(s)
    PROVE  /\ IsSeq(SubSeq(s, 1, n)) /\ Len(SubSeq(s, 1, n)) = n
           /\ DOMAIN SubSeq(s, 1, n) = 1 .. n
           /\ \A i \in 1 .. n : SubSeq(s, 1, n)[i] = s[i]
<1>1. n \in Int /\ \A i \in 1 .. n : s[i] \in Values(s)
  BY SeqLen DEF Values
<1>2. /\ SubSeq(s, 1, n) \in Seq(Values(s)) /\ Len(SubSeq(s, 1, n)) = n
      /\ \A i \in 1 .. n : SubSeq(s, 1, n)[i] = s[i]
  BY <1>1, SubSeqProperties, SeqLen
<1> QED BY <1>2, SeqIsSeq

\* All but the last.
LEMMA FrontSeq ==
    ASSUME NEW s, IsSeq(s), s # <<>>
    PROVE  /\ IsSeq(Front(s)) /\ Len(Front(s)) = Len(s) - 1
           /\ DOMAIN Front(s) = 1 .. (Len(s) - 1)
           /\ \A i \in 1 .. (Len(s) - 1) : Front(s)[i] = s[i]
<1>1. Len(s) - 1 \in 0 .. Len(s)
  BY SeqLen
<1>2. Front(s) = SubSeq(s, 1, Len(s) - 1)
  BY DEF Front
<1> QED BY <1>1, <1>2, PrefixSeq

\* Another value in one place.
LEMMA PutSeq ==
    ASSUME NEW s, IsSeq(s), NEW i, NEW x
    PROVE  /\ IsSeq([s EXCEPT ![i] = x]) /\ Len([s EXCEPT ![i] = x]) = Len(s)
           /\ DOMAIN [s EXCEPT ![i] = x] = DOMAIN s
           /\ \A j \in DOMAIN s : [s EXCEPT ![i] = x][j] = IF j = i THEN x ELSE s[j]
<1> DEFINE S == Values(s) \cup {x}
           t == [s EXCEPT ![i] = x]
<1>1. s \in Seq(S) /\ x \in S
  BY SeqMonotonic DEF IsSeq
<1>2. Len(s) \in Nat /\ DOMAIN s = 1 .. Len(s) /\ s \in [1 .. Len(s) -> S]
  BY <1>1, LenProperties
<1>3. t \in [1 .. Len(s) -> S] /\ \A j \in DOMAIN s : t[j] = IF j = i THEN x ELSE s[j]
  BY <1>1, <1>2
<1>4. t \in Seq(S)
  BY <1>2, <1>3, SeqDef
<1>5. DOMAIN t = 1 .. Len(t) /\ DOMAIN t = 1 .. Len(s) /\ Len(t) \in Nat /\ IsSeq(t)
  BY <1>3, <1>4, SeqIsSeq
<1>6. Len(t) = Len(s)
  BY <1>2, <1>5
<1> QED BY <1>2, <1>3, <1>5, <1>6

-----------------------------------------------------------------------------
(* What the helpers of the stack keep. *)

\* A frame as it is made.
LEMMA FrameIsShaped ==
    ASSUME NEW p, NEW d, NEW path, NEW t, NEW x, IsSeq(path)
    PROVE  FrameShape(Frame(p, d, path, t, x))
<1>1. MostSegments \in Nat /\ IsSeq(<<>>) /\ Len(<<>>) = 0
  BY EngineAssumption, EmptyIsSeq DEF MostSegments
<1> DEFINE f == Frame(p, d, path, t, x)
<1>2. /\ DOMAIN f = FrameFields /\ f.path = path /\ f.depth = d /\ f.parentTitle = t
      /\ f.scroll = NoScroll
  BY DEF Frame, FrameFields
<1>3. /\ DOMAIN NoScroll = {"index", "segments", "mark"} /\ NoScroll.segments = <<>>
      /\ NoScroll.index = 0
  BY DEF NoScroll
<1> HIDE DEF f
<1>4. FrameShape(f)
  BY <1>1, <1>2, <1>3 DEF FrameShape
<1> QED BY <1>2, <1>4 DEF f

\* A refreshed frame stays where it is.
LEMMA RefreshedShape ==
    ASSUME NEW f, FrameShape(f), NEW p
    PROVE  /\ FrameShape(Refreshed(f, p)) /\ Refreshed(f, p).depth = f.depth
           /\ Refreshed(f, p).path = f.path /\ Refreshed(f, p).parentTitle = f.parentTitle
BY DEF Refreshed, FrameShape, FrameFields

\* So does one whose scroll state starts.
LEMMA WithScrollShape ==
    ASSUME NEW f, FrameShape(f), NEW p, NEW visible
    PROVE  /\ FrameShape(WithScroll(f, p, visible)) /\ WithScroll(f, p, visible).depth = f.depth
           /\ WithScroll(f, p, visible).path = f.path
           /\ WithScroll(f, p, visible).parentTitle = f.parentTitle
           /\ WithScroll(f, p, visible).id = f.id /\ WithScroll(f, p, visible).title = f.title
<1>1. ASSUME NEW seg
      PROVE  /\ DOMAIN ScrollOf(p, seg) = {"index", "segments", "mark"}
             /\ IsSeq(ScrollOf(p, seg).segments)
             /\ ScrollOf(p, seg).index = Len(ScrollOf(p, seg).segments)
             /\ ScrollOf(p, seg).index <= MostSegments
  <2>1. <<seg>> \in Seq({seg}) /\ Len(<<seg>>) = 1
    OBVIOUS
  <2>2. IsSeq(<<seg>>)
    BY <2>1, SeqIsSeq
  <2> QED BY <2>1, <2>2, EngineAssumption DEF ScrollOf, MostSegments
<1>2. PICK seg : WithScroll(f, p, visible) \in {f, [f EXCEPT !.scroll = ScrollOf(p, seg)]}
  BY DEF WithScroll
<1> QED BY <1>1, <1>2 DEF FrameShape, FrameFields

\* The frames up to one of them.
LEMMA ChainPrefix ==
    ASSUME NEW stk, Chained(stk), NEW n \in 0 .. Len(stk)
    PROVE  Chained(SubSeq(stk, 1, n))
<1>1. IsSeq(stk) /\ Len(stk) \in Nat /\ DOMAIN stk = 1 .. Len(stk)
  BY SeqLen DEF Chained
<1>2. /\ IsSeq(SubSeq(stk, 1, n)) /\ DOMAIN SubSeq(stk, 1, n) = 1 .. n
      /\ \A i \in 1 .. n : SubSeq(stk, 1, n)[i] = stk[i]
  BY <1>1, PrefixSeq
<1>3. ASSUME NEW i \in 1 .. n, i > 1 PROVE i - 1 \in 1 .. n
  BY <1>3
<1> QED BY <1>1, <1>2, <1>3 DEF Chained

\* Without the top frame.
LEMMA ChainFront ==
    ASSUME NEW stk, Chained(stk), stk # <<>>
    PROVE  Chained(Front(stk))
<1>1. Len(stk) - 1 \in 0 .. Len(stk)
  BY SeqLen DEF Chained
<1> QED BY <1>1, ChainPrefix DEF Front

\* With another top frame in the same place.
LEMMA ChainTop ==
    ASSUME NEW stk, Chained(stk), stk # <<>>, NEW f, FrameShape(f),
           f.depth = stk[Len(stk)].depth, f.path = stk[Len(stk)].path,
           f.parentTitle = stk[Len(stk)].parentTitle
    PROVE  /\ Chained([stk EXCEPT ![Len(stk)] = f])
           /\ [stk EXCEPT ![Len(stk)] = f] # <<>>
           /\ Len([stk EXCEPT ![Len(stk)] = f]) = Len(stk)
           /\ [stk EXCEPT ![Len(stk)] = f][Len(stk)] = f
<1> DEFINE t == [stk EXCEPT ![Len(stk)] = f]
<1>1. IsSeq(stk) /\ Len(stk) \in Nat \ {0} /\ DOMAIN stk = 1 .. Len(stk)
  BY SeqLen DEF Chained
<1>2. /\ IsSeq(t) /\ Len(t) = Len(stk) /\ DOMAIN t = 1 .. Len(stk)
      /\ \A j \in 1 .. Len(stk) : t[j] = IF j = Len(stk) THEN f ELSE stk[j]
  BY <1>1, PutSeq
<1> HIDE DEF t
<1>3. t # <<>>
  BY <1>1, <1>2, SeqLen
<1>4. ASSUME NEW i \in 1 .. Len(stk)
      PROVE  /\ FrameShape(t[i]) /\ t[i].depth = i - 1 /\ Len(t[i].path) = i - 1
             /\ i > 1 => /\ Front(t[i].path) = t[i - 1].path
                         /\ t[i].parentTitle = WayBack(t[i - 1])
  <2>1. /\ FrameShape(t[i]) /\ t[i].depth = stk[i].depth /\ t[i].path = stk[i].path
        /\ t[i].parentTitle = stk[i].parentTitle
    BY <1>1, <1>2 DEF Chained
  <2>2. ASSUME i > 1 PROVE i - 1 \in 1 .. Len(stk) /\ t[i - 1] = stk[i - 1]
    <3>1. i - 1 \in 1 .. Len(stk) /\ i - 1 # Len(stk)
      BY <1>1, <2>2
    <3> QED BY <1>2, <3>1
  <2> QED BY <1>1, <2>1, <2>2 DEF Chained
<1>5. Chained(t)
  BY <1>2, <1>4 DEF Chained
<1>6. t[Len(stk)] = f
  <2>1. Len(stk) \in 1 .. Len(stk)
    BY <1>1
  <2> QED BY <1>2, <2>1
<1> QED BY <1>2, <1>3, <1>5, <1>6 DEF t

\* With one more frame.
LEMMA ChainPush ==
    ASSUME NEW stk, Chained(stk), stk # <<>>, NEW f, NEW label, FrameShape(f),
           f.depth = stk[Len(stk)].depth + 1, f.path = Append(stk[Len(stk)].path, label),
           f.parentTitle = WayBack(stk[Len(stk)])
    PROVE  Chained(Append(stk, f))
<1> DEFINE n == Len(stk)
           t == Append(stk, f)
<1>1. IsSeq(stk) /\ n \in Nat \ {0} /\ DOMAIN stk = 1 .. n
  BY SeqLen DEF Chained
<1>2. /\ IsSeq(t) /\ DOMAIN t = 1 .. (n + 1) /\ t[n + 1] = f
      /\ \A i \in 1 .. n : t[i] = stk[i]
  BY <1>1, AppendSeq
<1>3. Front(f.path) = stk[n].path /\ Len(f.path) = n /\ f.depth = n
  <2>1. n \in 1 .. n
    BY <1>1
  <2>2. IsSeq(stk[n].path) /\ Len(stk[n].path) = n - 1 /\ stk[n].depth = n - 1
    BY <1>1, <2>1 DEF Chained, FrameShape
  <2>3. Front(f.path) = stk[n].path /\ Len(f.path) = Len(stk[n].path) + 1
    BY <2>2, AppendSeq
  <2>4. n - 1 + 1 = n
    BY <1>1
  <2> QED BY <2>2, <2>3, <2>4
<1> HIDE DEF t, n
<1>4. ASSUME NEW i \in 1 .. (n + 1)
      PROVE  /\ FrameShape(t[i]) /\ t[i].depth = i - 1 /\ Len(t[i].path) = i - 1
             /\ i > 1 => /\ Front(t[i].path) = t[i - 1].path
                         /\ t[i].parentTitle = WayBack(t[i - 1])
  <2>1. CASE i = n + 1
    <3>1. t[i] = f /\ i - 1 = n /\ t[i - 1] = stk[n]
      BY <1>1, <1>2, <2>1
    <3> QED BY <1>3, <3>1 DEF n
  <2>2. CASE i \in 1 .. n
    <3>1. t[i] = stk[i] /\ (i > 1 => t[i - 1] = stk[i - 1])
      BY <1>1, <1>2, <2>2
    <3> QED BY <1>1, <2>2, <3>1 DEF Chained
  <2> QED BY <1>1, <2>1, <2>2
<1>5. Chained(t)
  BY <1>2, <1>4 DEF Chained
<1> QED BY <1>5 DEF t

\* A root of its own.
LEMMA ChainOne ==
    ASSUME NEW f, FrameShape(f), f.depth = 0, f.path = <<>>
    PROVE  Chained(<<f>>) /\ <<f>> # <<>> /\ <<f>>[Len(<<f>>)] = f
<1>1. <<f>> \in Seq({f}) /\ Len(<<f>>) = 1 /\ <<f>>[1] = f /\ DOMAIN <<f>> = 1 .. 1
  OBVIOUS
<1>2. IsSeq(<<f>>) /\ Len(f.path) = 0
  BY <1>1, SeqIsSeq, EmptyIsSeq
<1>3. <<f>> # <<>>
  BY <1>1, EmptyIsSeq
<1> QED BY <1>1, <1>2, <1>3 DEF Chained

\* The frame that a page is matched with is on the stack.
LEMMA AncestorOnStack ==
    ASSUME NEW stk, IsSeq(stk), NEW p
    PROVE  AncestorIndex(stk, p) \in 0 .. Len(stk)
<1>1. Len(stk) \in Nat /\ DOMAIN stk = 1 .. Len(stk)
  BY SeqLen
<1>2. ASSUME NEW S, S \subseteq DOMAIN stk, S # {} PROVE Topmost(S) \in 0 .. Len(stk)
  <2>1. Topmost(S) \in S
    BY <1>1, <1>2, TopmostIn
  <2> QED BY <1>1, <1>2, <2>1
<1> DEFINE byScreen == {i \in DOMAIN stk : SameScreen(stk[i], p)}
           byTitle  == {i \in DOMAIN stk : SameTitle(stk[i], p)}
<1>3. AncestorIndex(stk, p) = IF byScreen # {} THEN Topmost(byScreen)
                              ELSE IF byTitle # {} THEN Topmost(byTitle) ELSE 0
  BY DEF AncestorIndex
<1>4. byScreen \subseteq DOMAIN stk /\ byTitle \subseteq DOMAIN stk
  OBVIOUS
<1> HIDE DEF byScreen, byTitle
<1> QED BY <1>1, <1>2, <1>3, <1>4

\* The stack resumed at a frame.
LEMMA ChainResume ==
    ASSUME NEW stk, Chained(stk), NEW i \in 1 .. Len(stk), NEW p
    PROVE  Chained(ResumeAt(stk, i, p)) /\ ResumeAt(stk, i, p) # <<>>
<1> DEFINE t == SubSeq(stk, 1, i)
<1>1. IsSeq(stk) /\ Len(stk) \in Nat /\ DOMAIN stk = 1 .. Len(stk)
  BY SeqLen DEF Chained
<1>2. Chained(t) /\ IsSeq(t) /\ Len(t) = i /\ t[i] = stk[i] /\ t # <<>>
  <2>1. i \in 0 .. Len(stk)
    BY <1>1
  <2>2. IsSeq(t) /\ Len(t) = i /\ \A j \in 1 .. i : t[j] = stk[j]
    BY <1>1, <2>1, PrefixSeq
  <2>3. i \in 1 .. i /\ i # 0
    OBVIOUS
  <2>4. Chained(t)
    BY <2>1, ChainPrefix
  <2> HIDE DEF t
  <2> QED BY <2>2, <2>3, <2>4, SeqLen
<1>3. FrameShape(t[i])
  BY <1>1, <1>2 DEF Chained
<1> HIDE DEF t
<1>4. ResumeAt(stk, i, p) = [t EXCEPT ![Len(t)] = Refreshed(t[Len(t)], p)]
  BY <1>2 DEF ResumeAt, t
<1>5. /\ FrameShape(Refreshed(t[Len(t)], p))
      /\ Refreshed(t[Len(t)], p).depth = t[Len(t)].depth
      /\ Refreshed(t[Len(t)], p).path = t[Len(t)].path
      /\ Refreshed(t[Len(t)], p).parentTitle = t[Len(t)].parentTitle
  BY <1>2, <1>3, RefreshedShape
<1> QED BY <1>2, <1>4, <1>5, ChainTop

\* The stack reconciled with the page on the screen.
LEMMA ChainReconcile ==
    ASSUME NEW stk, Chained(stk), NEW p, NEW app, NEW reset
    PROVE  /\ Chained(Reconcile(stk, p, app, reset).stack)
           /\ stk # <<>> => Reconcile(stk, p, app, reset).stack # <<>>
<1> DEFINE i == AncestorIndex(stk, p)
<1>1. i \in 0 .. Len(stk) /\ IsSeq(stk) /\ Len(stk) \in Nat /\ DOMAIN stk = 1 .. Len(stk)
  BY AncestorOnStack, SeqLen DEF Chained
<1> HIDE DEF i
<1>2. CASE stk = <<>>
  BY <1>2 DEF Reconcile
<1>3. CASE stk # <<>> /\ i > 0
  <2>1. Reconcile(stk, p, app, reset).stack = ResumeAt(stk, i, p)
    BY <1>3 DEF Reconcile, i
  <2> QED BY <1>1, <1>3, <2>1, ChainResume
<1>4. CASE stk # <<>> /\ ~(i > 0)
  <2>1. Reconcile(stk, p, app, reset).stack \in {RootReset(stk, p), stk}
    BY <1>4 DEF Reconcile, i
  <2>2. FrameShape(stk[1])
    BY <1>1, <1>4, SeqLen DEF Chained
  <2> DEFINE g == Refreshed(stk[1], p)
             f == [g EXCEPT !.depth = 0, !.path = <<>>, !.cursor = 0, !.elements = <<>>]
  <2>5. FrameShape(g)
    BY <2>2, RefreshedShape
  <2>4. RootReset(stk, p) = <<f>>
    BY DEF RootReset
  <2> HIDE DEF g
  <2>3. FrameShape(f) /\ f.depth = 0 /\ f.path = <<>>
    BY <2>5, EmptyIsSeq DEF FrameShape, FrameFields
  <2> HIDE DEF f
  <2> QED BY <1>4, <2>1, <2>3, <2>4, ChainOne
<1> QED BY <1>2, <1>3, <1>4

-----------------------------------------------------------------------------
\* What the device shows.
Shown == [page : Pages, view : Nat]

\* One input leads from a screen to a screen.
LEMMA InputShown ==
    ASSUME NEW s \in Shown
    PROVE  AfterInput(s) \subseteq Shown /\ s \in AfterInput(s)
<1>1. ASSUME NEW p \in Pages PROVE Top(p) \in Shown
  BY DEF Top, Shown
<1>2. Moves[s.page] \subseteq Pages
  BY ScreenAssumption DEF Shown
<1> QED BY <1>1, <1>2 DEF AfterInput

\* The recursion of Wander is defined.
Steps(s, N, f) ==
    f = [n \in 0 .. N |-> IF n = 0 THEN {s} ELSE UNION {AfterInput(u) : u \in f[n - 1]}]
\* Such functions exist, for any number of steps.
LEMMA StepsExist == ASSUME NEW s PROVE \A N \in Nat : \E f : Steps(s, N, f)
<1> DEFINE T == {N \in Nat : \E f : Steps(s, N, f)}
<1>1. 0 \in T
  <2> DEFINE f == [n \in 0 .. 0 |-> {s}]
  <2>1. Steps(s, 0, f)
    BY DEF Steps
  <2> QED BY <2>1
<1>2. ASSUME NEW N \in Nat, N \in T PROVE N + 1 \in T
  <2>1. PICK f : Steps(s, N, f)
    BY <1>2
  <2> DEFINE g == [n \in 0 .. (N + 1) |->
                     IF n = N + 1 THEN UNION {AfterInput(u) : u \in f[N]} ELSE f[n]]
             h == [n \in 0 .. (N + 1) |->
                     IF n = 0 THEN {s} ELSE UNION {AfterInput(u) : u \in g[n - 1]}]
  <2>2. ASSUME NEW n \in 0 .. (N + 1) PROVE g[n] = h[n]
    <3>1. CASE n = 0
      BY <2>1, <3>1 DEF Steps
    <3>2. CASE n = N + 1
      <4>1. n - 1 = N /\ n # 0 /\ N \in 0 .. (N + 1) /\ N # N + 1
        BY <3>2
      <4> QED BY <3>2, <4>1
    <3>3. CASE n # 0 /\ n # N + 1
      <4>1. n \in 0 .. N /\ n - 1 \in 0 .. N /\ n - 1 # N + 1 /\ n - 1 \in 0 .. (N + 1)
        BY <3>3
      <4>2. g[n] = f[n] /\ g[n - 1] = f[n - 1]
        BY <3>3, <4>1
      <4>3. f[n] = UNION {AfterInput(u) : u \in f[n - 1]}
        BY <2>1, <3>3, <4>1 DEF Steps
      <4> QED BY <3>3, <4>2, <4>3
    <3> QED BY <3>1, <3>2, <3>3
  <2>3. g = h
    BY <2>2
  <2>4. Steps(s, N + 1, g)
    BY <2>3 DEF Steps
  <2> QED BY <2>4
<1> HIDE DEF T
<1>3. Nat \subseteq T
  BY <1>1, <1>2, NatInduct
<1> QED BY <1>3 DEF T

\* Wherever the rejected inputs led, the device shows a screen.
LEMMA WanderShown == ASSUME NEW s \in Shown PROVE Wander(s) \subseteq Shown
<1> DEFINE N == Cardinality(Pages)
           w == CHOOSE f : Steps(s, N, f)
<1>1. N \in Nat
  BY ScreenAssumption, FS_CardinalityType
<1>2. Wander(s) = w[N]
  BY DEF Wander, Steps
<1> HIDE DEF N
<1>3. Steps(s, N, w)
  BY <1>1, StepsExist
<1> HIDE DEF w
<1> DEFINE T == {n \in Nat : n <= N => w[n] \subseteq Shown}
<1>4. 0 \in T
  BY <1>1, <1>3 DEF Steps
<1>5. ASSUME NEW n \in Nat, n \in T PROVE n + 1 \in T
  <2>1. SUFFICES ASSUME n + 1 <= N PROVE w[n + 1] \subseteq Shown
    OBVIOUS
  <2>2. n + 1 \in 0 .. N /\ n + 1 # 0 /\ n + 1 - 1 = n /\ n <= N
    BY <1>1, <2>1
  <2>3. w[n + 1] = UNION {AfterInput(u) : u \in w[n]}
    BY <1>3, <2>2 DEF Steps
  <2>4. w[n] \subseteq Shown
    BY <1>5, <2>2
  <2> QED BY <2>3, <2>4, InputShown
<1> HIDE DEF T
<1>6. Nat \subseteq T
  BY <1>4, <1>5, NatInduct
<1> QED BY <1>1, <1>2, <1>6 DEF T

\* So it does wherever the ladder of navigateBack ends.
LEMMA BackShown ==
    ASSUME NEW platform, NEW s \in Shown, NEW t, NEW o \in NavigateBack(platform, s, t)
    PROVE  o.screen \in Shown
<1>1. ASSUME NEW u \in Wander(s)
      PROVE  /\ \A x \in VerifiedFrom(u, t) : x \in Shown
             /\ \A x \in Relaunched(u) : x.screen \in Shown
  <2>1. u \in Shown
    BY WanderShown
  <2>2. \A p \in LaunchPages : Top(p) \in Shown
    BY ScreenAssumption DEF Top, Shown
  <2> QED BY <2>1, <2>2, InputShown DEF VerifiedFrom, Relaunched
<1>2. CASE \E x \in UNION {VerifiedFrom(u, t) : u \in Wander(s)} : o = [ok |-> TRUE, screen |-> x]
  BY <1>1, <1>2
<1>3. CASE o \in UNION {Relaunched(u) : u \in Wander(s)}
  BY <1>1, <1>3
<1>4. CASE \E u \in Wander(s) : o = [ok |-> FALSE, screen |-> u]
  BY <1>4, WanderShown
<1>5. \/ \E x \in UNION {VerifiedFrom(u, t) : u \in Wander(s)} : o = [ok |-> TRUE, screen |-> x]
      \/ o \in UNION {Relaunched(u) : u \in Wander(s)}
      \/ \E u \in Wander(s) : o = [ok |-> FALSE, screen |-> u]
  BY DEF NavigateBack
<1> QED BY <1>2, <1>3, <1>4, <1>5

\* A launch shows a screen.
LEMMA LaunchShown == ASSUME NEW s \in Shown, NEW t \in Launched(s) PROVE t \in Shown
BY ScreenAssumption DEF Launched, Top, Shown

\* A way back leaves a path and a screen.
WayOK(w) ==
    /\ DOMAIN w = {"stack", "screen", "resumed", "app"}
    /\ Chained(w.stack) /\ w.screen \in Shown

\* With the stack reconciled with the screen, or left as it is.
LEMMA CapturedOK ==
    ASSUME NEW stk, Chained(stk), NEW s \in Shown, NEW app
    PROVE  /\ WayOK(Captured(stk, s, app)) /\ WayOK(Uncaptured(stk, s, app))
           /\ Uncaptured(stk, s, app).stack = stk
           /\ stk # <<>> => Captured(stk, s, app).stack # <<>>
<1>1. ASSUME NEW re
      PROVE  /\ DOMAIN After(re, s, app) = {"stack", "screen", "resumed", "app"}
             /\ After(re, s, app).stack = re.stack /\ After(re, s, app).screen = s
  BY DEF After
<1> DEFINE re == Reconcile(stk, s.page, target, TRUE)
<1>2. Chained(re.stack) /\ (stk # <<>> => re.stack # <<>>)
  BY ChainReconcile
<1>3. Captured(stk, s, app) = After(re, s, app)
  BY DEF Captured
<1> HIDE DEF re
<1>4. Uncaptured(stk, s, app) = After([stack |-> stk, resumed |-> 0], s, app)
  BY DEF Uncaptured
<1> QED BY <1>1, <1>2, <1>3, <1>4 DEF WayOK

\* After navigateBack.
LEMMA BackToOK ==
    ASSUME NEW stk, Chained(stk), NEW s \in Shown, NEW t, NEW app, NEW on,
           NEW w \in BackTo(stk, s, t, app, on)
    PROVE  WayOK(w)
<1>1. PICK o \in NavigateBack(config.platform, s, t) :
        w = IF o.ok \in on THEN Captured(stk, o.screen, app) ELSE Uncaptured(stk, o.screen, app)
  BY DEF BackTo
<1>2. o.screen \in Shown
  BY BackShown
<1> QED BY <1>1, <1>2, CapturedOK

\* After the return to the target app.
LEMMA ReturnOK ==
    ASSUME NEW stk, Chained(stk), NEW s \in Shown, NEW app, NEW req,
           NEW w \in ReturnToTarget(stk, s, app, req)
    PROVE  WayOK(w)
<1> DEFINE backs == IF Android THEN BackTo(stk, s, NoTitle, app, Always)
                               ELSE {Uncaptured(stk, s, app)}
<1>1. \A b \in backs : WayOK(b)
  BY BackToOK, CapturedOK
<1>2. \/ w \in backs
      \/ \E b \in backs : \E t \in Launched(b.screen) : w = Captured(b.stack, t, target)
  BY DEF ReturnToTarget
<1> HIDE DEF backs
<1>3. ASSUME NEW b \in backs, NEW t \in Launched(b.screen) PROVE WayOK(Captured(b.stack, t, target))
  BY <1>1, LaunchShown, CapturedOK DEF WayOK
<1> QED BY <1>1, <1>2, <1>3

\* After a launch that threw.
LEMMA ThrowsOK ==
    ASSUME NEW stk, Chained(stk), NEW s \in Shown, NEW t, NEW app,
           NEW w \in LaunchThrows(stk, s, t, app)
    PROVE  WayOK(w)
<1> DEFINE tried == IF Android THEN {x \in BackTo(stk, s, NoTitle, app, Always) : x.resumed = 0}
                    ELSE {Uncaptured(stk, s, app)}
<1>1. \A b \in tried : WayOK(b)
  BY BackToOK, CapturedOK
<1>2. \E b \in tried : w \in BackTo(b.stack, b.screen, t, b.app, Never)
  BY DEF LaunchThrows
<1> HIDE DEF tried
<1> QED BY <1>1, <1>2, BackToOK DEF WayOK

-----------------------------------------------------------------------------
\* The invariant of the stack: a path, and not empty within a round.
Round == {"realigned", "look", "plan", "tap", "observe"}
StackOf(stk, s, at) == Chained(stk) /\ (at \in Round => stk # <<>>) /\ s \in Shown
StackInv == StackOf(stack, screen, pc)

\* A way back ends the round.
LEMMA WayTaken ==
    ASSUME NEW w, WayOK(w), stack' = w.stack, screen' = w.screen, pc' \notin Round
    PROVE  StackOf(stack', screen', pc')
BY DEF WayOK, StackOf

\* Only the app of a way back is ever replaced.
LEMMA WayTo ==
    ASSUME NEW w, WayOK(w), NEW app, GoTo([w EXCEPT !.app = app])
    PROVE  stack' = w.stack /\ screen' = w.screen
BY DEF WayOK, GoTo

\* The top frame.
LEMMA TopShape ==
    ASSUME StackInv, stack # <<>>
    PROVE  /\ FrameShape(Head0) /\ Chained(Popped) /\ Chained(stack)
           /\ \A f : (/\ FrameShape(f) /\ f.depth = Head0.depth /\ f.path = Head0.path
                     /\ f.parentTitle = Head0.parentTitle) =>
                 Chained(WithTop(f)) /\ WithTop(f) # <<>>
<1>1. Chained(stack) /\ IsSeq(stack)
  BY DEF StackInv, StackOf, Chained
<1>2. Len(stack) \in 1 .. Len(stack) /\ DOMAIN stack = 1 .. Len(stack)
  BY <1>1, SeqLen
<1>3. FrameShape(stack[Len(stack)])
  BY <1>1, <1>2 DEF Chained
<1> QED BY <1>1, <1>3, ChainFront, ChainTop DEF Head0, Popped, WithTop

\* Before the loop.
LEMMA StartStack == ASSUME StackInv, LaunchFails \/ Start PROVE StackOf(stack', screen', pc')
<1>1. CASE LaunchFails
  BY <1>1 DEF LaunchFails, End, StackInv, StackOf, Round
<1>2. CASE Start
  <2>1. PICK s \in AfterInput(screen) \cup {screen} :
          screen' = s /\ stack' = <<RootFrame(s)>> /\ pc' = "loop"
    BY <1>2 DEF Start
  <2>2. s \in Shown
    BY InputShown DEF StackInv, StackOf
  <2>3. PICK base : /\ base = Frame(s.page, 0, <<>>, NoTitle, FALSE)
                    /\ FrameShape(base) /\ base.depth = 0 /\ base.path = <<>>
    <3>1. IsSeq(<<>>)
      BY EmptyIsSeq
    <3>2. FrameShape(Frame(s.page, 0, <<>>, NoTitle, FALSE))
      BY <3>1, FrameIsShaped
    <3>3. /\ Frame(s.page, 0, <<>>, NoTitle, FALSE).depth = 0
          /\ Frame(s.page, 0, <<>>, NoTitle, FALSE).path = <<>>
      BY DEF Frame
    <3> QED BY <3>2, <3>3
  <2> DEFINE f == [base EXCEPT !.elements = Explore(s, 0, <<>>), !.app = App(screen.page)]
  <2>4. RootFrame(s) = WithScroll(f, s.page, Explore(s, 0, <<>>))
    BY <2>3 DEF RootFrame
  <2>5. FrameShape(f) /\ f.depth = 0 /\ f.path = <<>>
    BY <2>3 DEF FrameShape, FrameFields
  <2> HIDE DEF f
  <2>6. FrameShape(RootFrame(s)) /\ RootFrame(s).depth = 0 /\ RootFrame(s).path = <<>>
    BY <2>4, <2>5, WithScrollShape
  <2> QED BY <2>1, <2>2, <2>6, ChainOne DEF StackOf, Round
<1> QED BY <1>1, <1>2

\* At the head of the loop and after a realignment.
LEMMA LoopStack ==
    ASSUME StackInv, \/ Finish \/ Aligned \/ Realign \/ Recovered \/ HomeExhausted
                     \/ DropFrame \/ RestartHome
    PROVE  StackOf(stack', screen', pc')
<1>1. CASE Finish \/ HomeExhausted
  BY <1>1 DEF Finish, HomeExhausted, End, StackInv, StackOf, Round
<1>2. CASE Aligned \/ Recovered
  <2>1. stack # <<>> /\ UNCHANGED <<stack, screen>>
    BY <1>2 DEF Aligned, Recovered, Running, StackInv, StackOf, Round
  <2> QED BY <2>1 DEF StackInv, StackOf
<1>3. CASE Realign
  <2>1. PICK o \in NavigateBack(config.platform, screen, Head0.parentTitle) :
          \/ GoTo(Captured(stack, o.screen, currentApp))
          \/ GoTo(Uncaptured(stack, o.screen, currentApp))
    BY <1>3 DEF Realign
  <2>2. stack # <<>> /\ Chained(stack) /\ screen \in Shown
    BY <1>3 DEF Realign, Running, StackInv, StackOf
  <2>3. o.screen \in Shown
    BY <2>2, BackShown
  <2> QED BY <2>1, <2>2, <2>3, CapturedOK DEF GoTo, WayOK, StackOf
<1>4. CASE DropFrame \/ RestartHome
  <2>1. stack # <<>> /\ Chained(Popped)
    BY <1>4, TopShape DEF DropFrame, RestartHome, StackInv, StackOf, Round
  <2>2. screen' \in Shown
    BY <1>4, LaunchShown DEF DropFrame, RestartHome, StackInv, StackOf
  <2>3. pc' \notin Round /\ stack' \in {stack, Popped}
    BY <1>4 DEF DropFrame, RestartHome, End, Round
  <2> QED BY <2>1, <2>2, <2>3 DEF StackInv, StackOf
<1> QED BY <1>1, <1>2, <1>3, <1>4

\* A frame that has not been looked at.
LEMMA LookStack ==
    ASSUME StackInv, Revisit \/ LookGated \/ Expand \/ StopAtBoundary
    PROVE  StackOf(stack', screen', pc')
<1>1. stack # <<>> /\ screen \in Shown
  BY DEF Revisit, LookGated, Expand, StopAtBoundary, LookAt, StackInv, StackOf, Round
<1>2. /\ FrameShape(Head0) /\ Chained(Popped)
      /\ \A f : (/\ FrameShape(f) /\ f.depth = Head0.depth /\ f.path = Head0.path
                /\ f.parentTitle = Head0.parentTitle) =>
            Chained(WithTop(f)) /\ WithTop(f) # <<>>
  BY <1>1, TopShape
<1>3. CASE Revisit \/ LookGated
  <2>1. pc' \notin Round
    BY <1>3 DEF Revisit, LookGated, LookAt, Round
  <2>2. CASE stack' = Popped /\ UNCHANGED <<screen, currentApp>>
    BY <1>1, <1>2, <2>1, <2>2 DEF StackOf
  <2>3. CASE ~(stack' = Popped /\ UNCHANGED <<screen, currentApp>>)
    <3>1. PICK on : \E way \in BackTo(Popped, screen, Head0.parentTitle, currentApp, on) :
            GoTo([way EXCEPT !.app = IF Head0.external THEN target ELSE @])
      BY <1>3, <2>3 DEF Revisit, LookGated
    <3>2. PICK way \in BackTo(Popped, screen, Head0.parentTitle, currentApp, on) :
            GoTo([way EXCEPT !.app = IF Head0.external THEN target ELSE @])
      BY <3>1
    <3>3. WayOK(way)
      BY <1>1, <1>2, BackToOK
    <3>4. stack' = way.stack /\ screen' = way.screen
      BY <3>2, <3>3, WayTo
    <3> QED BY <2>1, <3>3, <3>4, WayTaken
  <2> QED BY <2>2, <2>3
<1>4. CASE Expand
  <2>1. stack' = WithTop(Expanded) /\ UNCHANGED screen
    BY <1>4 DEF Expand
  <2>2. PICK some, visible : Expanded = WithScroll(
          [Head0 EXCEPT !.id = screen.page, !.title = Title(screen.page), !.elements = some],
          screen.page, visible)
    BY DEF Expanded
  <2> DEFINE f == [Head0 EXCEPT !.id = screen.page, !.title = Title(screen.page), !.elements = some]
  <2>3. /\ FrameShape(f) /\ f.depth = Head0.depth /\ f.path = Head0.path
        /\ f.parentTitle = Head0.parentTitle
    BY <1>2 DEF FrameShape, FrameFields
  <2>5. Expanded = WithScroll(f, screen.page, visible)
    BY <2>2
  <2> HIDE DEF f
  <2>4. /\ FrameShape(Expanded) /\ Expanded.depth = Head0.depth /\ Expanded.path = Head0.path
        /\ Expanded.parentTitle = Head0.parentTitle
    BY <2>3, <2>5, WithScrollShape
  <2> QED BY <1>1, <1>2, <2>1, <2>4 DEF StackOf
<1>5. CASE StopAtBoundary
  <2>1. PICK way \in ReturnToTarget(Popped, screen, currentApp, TRUE) \cup
                      BackTo(Popped, screen, Head0.parentTitle, currentApp, Always) : GoTo(way)
    BY <1>5 DEF StopAtBoundary
  <2>2. WayOK(way)
    BY <1>1, <1>2, <2>1, ReturnOK, BackToOK
  <2>3. pc' \notin Round
    BY <1>5 DEF StopAtBoundary, LookAt, Round
  <2> QED BY <2>1, <2>2, <2>3, WayTaken DEF GoTo
<1> QED BY <1>3, <1>4, <1>5

\* What a sequence of elements contains may be added to a sequence of segments.
LEMMA SegmentAdded ==
    ASSUME NEW f, FrameShape(f), f.scroll.index < MaxSegments, NEW new,
           NEW g, g = [f EXCEPT !.cursor = 0, !.scroll = WithSegment(@, new)]
    PROVE  /\ FrameShape(g) /\ g.depth = f.depth /\ g.path = f.path
           /\ g.parentTitle = f.parentTitle
<1> DEFINE segs == Append(f.scroll.segments, new)
           n == f.scroll.index + 1
           sc == WithSegment(f.scroll, new)
<1>1. IsSeq(segs) /\ Len(segs) = n /\ n \in Nat /\ n <= MostSegments
  <2>1. IsSeq(f.scroll.segments) /\ f.scroll.index = Len(f.scroll.segments)
    BY DEF FrameShape
  <2>2. IsSeq(segs) /\ Len(segs) = Len(f.scroll.segments) + 1 /\ Len(f.scroll.segments) \in Nat
    BY <2>1, AppendSeq, SeqLen
  <2> HIDE DEF segs
  <2> QED BY <2>1, <2>2, EngineAssumption DEF MostSegments
<1>2. g = [f EXCEPT !.cursor = 0, !.scroll = sc]
  OBVIOUS
<1>3. DOMAIN sc = {"index", "segments", "mark"} /\ sc.segments = segs /\ sc.index = n
  BY DEF FrameShape, WithSegment
<1> HIDE DEF segs, n, sc
<1> QED BY <1>1, <1>2, <1>3 DEF FrameShape, FrameFields

\* The next element, the next segment or the way back.
LEMMA PlanStack ==
    ASSUME StackInv, NextSegment \/ PopFrame \/ SkipRest \/ RestoreFails \/ Tap
    PROVE  StackOf(stack', screen', pc')
<1>1. stack # <<>> /\ screen \in Shown
  BY DEF NextSegment, PopFrame, SkipRest, RestoreFails, Tap, StackInv, StackOf, Round
<1>2. /\ FrameShape(Head0) /\ Chained(Popped)
      /\ \A f : (/\ FrameShape(f) /\ f.depth = Head0.depth /\ f.path = Head0.path
                /\ f.parentTitle = Head0.parentTitle) =>
            Chained(WithTop(f)) /\ WithTop(f) # <<>>
  BY <1>1, TopShape
<1>3. Scrolled(screen) \in Shown /\ \A n \in Nat : ScrolledBy(screen, n) \in Shown
  <2>1. screen.page \in Pages /\ screen.view \in Nat /\ Len(Views(screen.page)) \in Nat
    BY <1>1, ScreenAssumption, LenProperties DEF Shown
  <2>2. ASSUME NEW v \in Nat PROVE [screen EXCEPT !.view = v] \in Shown
    BY <1>1, <2>2 DEF Shown
  <2>3. /\ (IF screen.view < Len(Views(screen.page)) THEN screen.view + 1 ELSE screen.view) \in Nat
        /\ \A n \in Nat : (IF screen.view + n < Len(Views(screen.page)) THEN screen.view + n
                           ELSE Len(Views(screen.page))) \in Nat
    BY <2>1
  <2> QED BY <2>2, <2>3 DEF Scrolled, ScrolledBy
<1>4. ASSUME NEW c
      PROVE  LET f == [Head0 EXCEPT !.cursor = c]
             IN Chained(WithTop(f)) /\ WithTop(f) # <<>>
  <2> DEFINE f == [Head0 EXCEPT !.cursor = c]
  <2>1. /\ FrameShape(f) /\ f.depth = Head0.depth /\ f.path = Head0.path
        /\ f.parentTitle = Head0.parentTitle
    BY <1>2 DEF FrameShape, FrameFields
  <2> HIDE DEF f
  <2>2. Chained(WithTop(f)) /\ WithTop(f) # <<>>
    BY <1>2, <2>1
  <2> QED BY <2>2 DEF f
<1>5. CASE NextSegment
  <2>1. PICK new, g : /\ g = [Head0 EXCEPT !.cursor = 0, !.scroll = WithSegment(@, new)]
                      /\ stack' = WithTop(g)
    BY <1>5 DEF NextSegment
  <2>2. Head0.scroll.index < MaxSegments /\ screen' = Scrolled(screen) /\ pc' \notin Round
    BY <1>5 DEF NextSegment, Round
  <2>3. Chained(WithTop(g))
    BY <1>2, <2>1, <2>2, SegmentAdded
  <2> QED BY <1>3, <2>1, <2>2, <2>3 DEF StackOf
<1>6. CASE PopFrame
  <2>1. PICK s \in {screen, Scrolled(screen)} :
          \/ \E way \in ReturnToTarget(Popped, s, currentApp, FALSE) \cup
                        LaunchThrows(Popped, s, Head0.parentTitle, currentApp) : GoTo(way)
          \/ \E way \in BackTo(Popped, s, Head0.parentTitle, currentApp, IfRecovered) : GoTo(way)
          \/ stack' = Popped /\ screen' = s
    BY <1>6 DEF PopFrame
  <2>2. s \in Shown /\ pc' \notin Round
    BY <1>1, <1>3, <1>6, <2>1 DEF PopFrame, Round
  <2>3. CASE stack' = Popped /\ screen' = s
    BY <1>2, <2>2, <2>3 DEF StackOf
  <2>4. CASE ~(stack' = Popped /\ screen' = s)
    <3>1. PICK way : WayOK(way) /\ GoTo(way)
      BY <1>2, <2>1, <2>2, <2>4, ReturnOK, ThrowsOK, BackToOK
    <3> QED BY <2>2, <3>1, WayTaken DEF GoTo
  <2> QED BY <2>3, <2>4
<1>7. CASE SkipRest \/ RestoreFails
  <2>1. PICK c : stack' = WithTop([Head0 EXCEPT !.cursor = c])
    BY <1>7 DEF SkipRest, RestoreFails
  <2>2. pc' \notin Round
    BY <1>7 DEF SkipRest, RestoreFails, Round
  <2>3. screen' \in Shown
    <3>1. CASE SkipRest
      BY <1>1, <3>1 DEF SkipRest
    <3>2. CASE RestoreFails
      <4>1. PICK n \in 0 .. Scrolls : screen' = ScrolledBy(screen, n)
        BY <3>2 DEF RestoreFails
      <4>2. n \in Nat
        BY <4>1
      <4> QED BY <1>3, <4>1, <4>2
    <3> QED BY <1>7, <3>1, <3>2
  <2> QED BY <1>4, <2>1, <2>2, <2>3 DEF StackOf
<1>8. CASE Tap
  <2>1. PICK c : stack' = WithTop([Head0 EXCEPT !.cursor = c])
    BY <1>8 DEF Tap
  <2>2. /\ screen' \in {screen, ScrolledBy(screen, Scrolls)}
        /\ screen' # screen => Head0.scroll.index > 1
    <3>1. Head0.scroll.index \in Nat
      <4>1. IsSeq(Head0.scroll.segments) /\ Head0.scroll.index = Len(Head0.scroll.segments)
        BY <1>2 DEF FrameShape
      <4> QED BY <4>1, SeqLen
    <3> QED BY <1>8, <3>1 DEF Tap
  <2>3. screen' \in Shown
    <3>1. Head0.scroll.index \in Nat
      <4>1. IsSeq(Head0.scroll.segments) /\ Head0.scroll.index = Len(Head0.scroll.segments)
        BY <1>2 DEF FrameShape
      <4> QED BY <4>1, SeqLen
    <3>2. CASE screen' = screen
      BY <1>1, <3>2
    <3>3. CASE screen' # screen
      <4>1. Scrolls \in Nat
        BY <2>2, <3>1, <3>3 DEF Scrolls
      <4> QED BY <1>3, <2>2, <3>3, <4>1
    <3> QED BY <3>2, <3>3
  <2> QED BY <1>4, <2>1, <2>3 DEF StackOf
<1> QED BY <1>5, <1>6, <1>7, <1>8

\* One tap.
LEMMA TapStack ==
    ASSUME StackInv, TapSucceeds \/ TapFails
    PROVE  StackOf(stack', screen', pc')
<1>1. stack # <<>> /\ screen' \in Shown /\ UNCHANGED stack
  BY InputShown DEF TapSucceeds, TapFails, StackInv, StackOf, Round
<1> QED BY <1>1 DEF StackInv, StackOf

\* What came of a tap.
LEMMA ObserveStack ==
    ASSUME StackInv, \/ OpenExternalLink \/ HitGated \/ NoNavigation \/ Drift
                     \/ ReturnToAncestor \/ Descend
    PROVE  StackOf(stack', screen', pc')
<1>1. stack # <<>> /\ screen \in Shown /\ pc' = "loop" /\ pc' \notin Round /\ Chained(stack)
  BY DEF OpenExternalLink, HitGated, NoNavigation, Drift, ReturnToAncestor, Descend, Judging,
         Observed, StackInv, StackOf, Round
<1>2. /\ FrameShape(Head0)
      /\ \A f : (/\ FrameShape(f) /\ f.depth = Head0.depth /\ f.path = Head0.path
                /\ f.parentTitle = Head0.parentTitle) =>
            Chained(WithTop(f)) /\ WithTop(f) # <<>>
  BY <1>1, TopShape
<1>3. CASE OpenExternalLink
  <2>1. CASE stack' = stack /\ screen' = screen
    BY <1>1, <2>1 DEF StackOf
  <2>2. CASE ~(stack' = stack /\ screen' = screen)
    <3>1. PICK s \in Launched(screen) :
            screen' = s /\ stack' = Reconcile(stack, s.page, target, TRUE).stack
      BY <1>3, <2>2 DEF OpenExternalLink, Stay
    <3> QED BY <1>1, <3>1, LaunchShown, ChainReconcile DEF StackOf
  <2> QED BY <2>1, <2>2
<1>4. CASE HitGated
  <2>1. PICK s \in AfterInput(screen) :
          \/ \E way \in BackTo(stack, s, BackTitle, currentApp, Never) : GoTo(way)
          \/ GoTo(After(Reconcile(stack, s.page, target, FALSE), s, currentApp))
    <3>1. screen \in AfterInput(screen)
      BY <1>1, InputShown
    <3> QED BY <1>4, <3>1 DEF HitGated
  <2>2. s \in Shown
    BY <1>1, InputShown
  <2>3. CASE GoTo(After(Reconcile(stack, s.page, target, FALSE), s, currentApp))
    <3>1. stack' = Reconcile(stack, s.page, target, FALSE).stack /\ screen' = s
      BY <2>3 DEF GoTo, After
    <3> QED BY <1>1, <2>2, <3>1, ChainReconcile DEF StackOf
  <2>4. CASE \E way \in BackTo(stack, s, BackTitle, currentApp, Never) : GoTo(way)
    <3>1. PICK way : WayOK(way) /\ GoTo(way)
      BY <1>1, <2>2, <2>4, BackToOK
    <3> QED BY <1>1, <3>1, WayTaken DEF GoTo
  <2> QED BY <2>1, <2>3, <2>4
<1>5. CASE NoNavigation
  <2>1. PICK c, l : stack' = WithTop([Head0 EXCEPT !.cursor = c, !.noOps = l]) /\ screen' = screen
    BY <1>5 DEF NoNavigation
  <2> DEFINE f == [Head0 EXCEPT !.cursor = c, !.noOps = l]
  <2>2. /\ FrameShape(f) /\ f.depth = Head0.depth /\ f.path = Head0.path
        /\ f.parentTitle = Head0.parentTitle
    BY <1>2 DEF FrameShape, FrameFields
  <2> HIDE DEF f
  <2>3. Chained(WithTop(f))
    BY <1>2, <2>2
  <2> QED BY <1>1, <2>1, <2>3 DEF f, StackOf
<1>6. CASE Drift
  <2>1. stack' = WithTop([Head0 EXCEPT !.id = screen.page]) /\ screen' = screen
    BY <1>6 DEF Drift
  <2> DEFINE f == [Head0 EXCEPT !.id = screen.page]
  <2>2. /\ FrameShape(f) /\ f.depth = Head0.depth /\ f.path = Head0.path
        /\ f.parentTitle = Head0.parentTitle
    BY <1>2 DEF FrameShape, FrameFields
  <2> HIDE DEF f
  <2>3. Chained(WithTop(f))
    BY <1>2, <2>2
  <2> QED BY <1>1, <2>1, <2>3 DEF f, StackOf
<1>7. CASE ReturnToAncestor
  <2>1. PICK i : /\ 0 < i /\ i < Len(stack) /\ stack' = ResumeAt(stack, i, screen.page)
                 /\ i = AncestorIndex(stack, screen.page) /\ screen' = screen
    BY <1>7 DEF ReturnToAncestor
  <2>2. i \in 1 .. Len(stack)
    BY <1>1, <2>1, AncestorOnStack, SeqLen DEF Chained
  <2> QED BY <1>1, <2>1, <2>2, ChainResume DEF StackOf
<1>8. CASE Descend
  <2>1. PICK x : stack' = Append(stack, Frame(screen.page, Head0.depth + 1, TapPath, BackTitle, x))
    BY <1>8 DEF Descend
  <2>2. screen' = screen
    BY <1>8 DEF Descend
  <2>3. TapPath = Append(Head0.path, pick.label) /\ IsSeq(TapPath)
    BY <1>2, AppendSeq DEF TapPath, FrameShape
  <2>4. PICK f : /\ f = Frame(screen.page, Head0.depth + 1, TapPath, BackTitle, x)
                 /\ FrameShape(f) /\ f.depth = Head0.depth + 1 /\ f.path = TapPath
                 /\ f.parentTitle = BackTitle
    <3> DEFINE b == Frame(screen.page, Head0.depth + 1, TapPath, BackTitle, x)
    <3>1. b.depth = Head0.depth + 1 /\ b.path = TapPath /\ b.parentTitle = BackTitle
      BY DEF Frame
    <3>2. FrameShape(b)
      BY <2>3, FrameIsShaped
    <3>3. b = Frame(screen.page, Head0.depth + 1, TapPath, BackTitle, x)
      OBVIOUS
    <3> HIDE DEF b
    <3> QED BY <3>1, <3>2, <3>3
  <2>5. BackTitle = WayBack(Head0)
    BY DEF BackTitle, WayBack
  <2>6. Chained(Append(stack, f))
    BY <1>1, <2>3, <2>4, <2>5, ChainPush DEF Head0
  <2> QED BY <1>1, <2>1, <2>2, <2>4, <2>6 DEF StackOf
<1> QED BY <1>3, <1>4, <1>5, <1>6, <1>7, <1>8

\* An exception, a popup and the clock.
LEMMA EnvironmentStack ==
    ASSUME StackInv, ToolThrows \/ Popup \/ TimePasses
    PROVE  StackOf(stack', screen', pc')
<1>1. CASE ToolThrows
  BY <1>1 DEF ToolThrows, End, StackInv, StackOf, Round
<1>2. CASE Popup
  BY <1>2, InputShown DEF Popup, StackInv, StackOf
<1>3. CASE TimePasses
  BY <1>3 DEF TimePasses, StackInv, StackOf
<1> QED BY <1>1, <1>2, <1>3

\* The invariant in the next state.
LEMMA StackInvPrime == ASSUME StackOf(stack', screen', pc') PROVE StackInv'
BY DEF StackInv, StackOf

\* The invariant of the stack holds at the start.
LEMMA StackInit == Init => StackInv
<1>1. ASSUME Init PROVE screen \in Shown /\ stack = <<>> /\ pc = "launch"
  BY <1>1, ScreenAssumption DEF Init, Top, Shown
<1>2. Chained(<<>>)
  <2>1. IsSeq(<<>>) /\ DOMAIN <<>> = {}
    BY EmptyIsSeq, SeqLen
  <2> QED BY <2>1 DEF Chained
<1> QED BY <1>1, <1>2 DEF StackInv, StackOf, Round

\* Every step keeps it.
LEMMA StackStep == StackInv /\ [Next]_vars => StackInv'
<1> SUFFICES ASSUME StackInv, [Next]_vars PROVE StackInv'
  OBVIOUS
<1>1. CASE Engine
  BY <1>1, StartStack, LoopStack, LookStack, PlanStack, TapStack, ObserveStack, StackInvPrime
     DEF Engine
<1>2. CASE ToolThrows \/ Popup \/ TimePasses
  BY <1>2, EnvironmentStack, StackInvPrime
<1>3. CASE UNCHANGED vars
  BY <1>3, StackInvPrime DEF vars, StackInv
<1> QED BY <1>1, <1>2, <1>3 DEF Next

\* The stack stays sound in every behaviour.
LEMMA StackSound == Spec => []StackInv
BY StackInit, StackStep, PTL DEF Spec

\* The frames are the path of taps from the root, whatever frames were resumed,
\* reset, dropped or refreshed in between.
THEOREM StackIsAlwaysPath == Spec => []StackIsPath
<1>1. StackInv => StackIsPath
  BY DEF StackInv, StackOf, Chained, StackIsPath
<1> QED BY <1>1, StackSound, PTL

\* What a frame asks navigateBack for is the title of the frame below it, or what
\* that one goes back to when it has none.
THEOREM ParentTitlesHold == Spec => []ParentTitles
<1>1. ASSUME StackInv PROVE ParentTitles
  <2>1. Chained(stack) /\ DOMAIN stack = 1 .. Len(stack) /\ Len(stack) \in Nat
    BY <1>1, SeqLen DEF StackInv, StackOf, Chained
  <2>2. ASSUME NEW i \in 2 .. Len(stack) PROVE stack[i].parentTitle = WayBack(stack[i - 1])
    <3>1. i \in DOMAIN stack /\ i > 1
      BY <2>1
    <3> QED BY <2>1, <3>1 DEF Chained
  <2> QED BY <2>2 DEF ParentTitles, WayBack
<1> QED BY <1>1, StackSound, PTL

-----------------------------------------------------------------------------
\* The registry of pages: an entry is added at a time, and none is taken back.
IsEntry(e) == /\ DOMAIN e = {"page", "path", "status", "walked"}
              /\ e.page \in Pages /\ e.walked \in BOOLEAN
IsRegistry(v) == IsSeq(v) /\ \A i \in DOMAIN v : IsEntry(v[i])

\* One entry is added, and walked into only if nothing was known of its page; the
\* pages of the others stay, and whether they are walked into.
Grows(v, w) ==
    /\ IsRegistry(w) /\ Len(w) = Len(v) + 1
    /\ \A i \in 1 .. Len(v) : w[i].page = v[i].page /\ w[i].walked = v[i].walked
    /\ w[Len(w)].walked => ~Visited(v, w[Len(w)].page)

\* An entry as it is made.
LEMMA EntryIsOne ==
    ASSUME NEW p \in Pages, NEW path, NEW status, NEW walked \in BOOLEAN
    PROVE  /\ IsEntry(Entry(p, path, status, walked)) /\ Entry(p, path, status, walked).page = p
           /\ Entry(p, path, status, walked).walked = walked
BY DEF Entry, IsEntry

\* Adding an entry is a growth.
LEMMA AppendGrows ==
    ASSUME NEW v, IsRegistry(v), NEW e, IsEntry(e), e.walked => ~Visited(v, e.page)
    PROVE  Grows(v, Append(v, e))
<1> DEFINE w == Append(v, e)
<1>1. IsSeq(v) /\ Len(v) \in Nat /\ DOMAIN v = 1 .. Len(v)
  BY SeqLen DEF IsRegistry
<1>2. /\ IsSeq(w) /\ Len(w) = Len(v) + 1 /\ DOMAIN w = 1 .. (Len(v) + 1)
      /\ w[Len(v) + 1] = e /\ \A i \in 1 .. Len(v) : w[i] = v[i]
  BY <1>1, AppendSeq
<1> HIDE DEF w
<1>3. ASSUME NEW i \in 1 .. (Len(v) + 1) PROVE IsEntry(w[i])
  <2>1. i = Len(v) + 1 \/ i \in 1 .. Len(v)
    BY <1>1
  <2> QED BY <1>1, <1>2, <2>1 DEF IsRegistry
<1>4. Grows(v, w)
  BY <1>2, <1>3 DEF Grows, IsRegistry
<1> QED BY <1>4 DEF w

\* A later change of a status takes nothing back.
LEMMA MarkedGrows ==
    ASSUME NEW v, NEW w, Grows(v, w), Len(v) \in Nat, NEW p
    PROVE  Grows(v, MarkNotExpanded(w, p))
<1>1. PICK last : MarkNotExpanded(w, p) = [w EXCEPT ![last].status = "reached-not-expanded"]
  BY DEF MarkNotExpanded
<1> DEFINE e == [w[last] EXCEPT !.status = "reached-not-expanded"]
           m == [w EXCEPT ![last] = e]
<1>2. IsSeq(w) /\ DOMAIN w = 1 .. Len(w)
  BY SeqLen DEF Grows, IsRegistry
<1>3. /\ IsSeq(m) /\ Len(m) = Len(w) /\ DOMAIN m = DOMAIN w
      /\ \A j \in DOMAIN w : m[j] = IF j = last THEN e ELSE w[j]
  <2> HIDE DEF e
  <2> QED BY <1>2, PutSeq
<1>4. MarkNotExpanded(w, p) = m
  BY <1>1
<1> HIDE DEF m
<1>5. ASSUME NEW j \in DOMAIN w
      PROVE  IsEntry(m[j]) /\ m[j].page = w[j].page /\ m[j].walked = w[j].walked
  <2>1. IsEntry(w[j])
    BY DEF Grows, IsRegistry
  <2>2. CASE j # last
    BY <1>3, <2>1, <2>2
  <2>3. CASE j = last
    <3>1. /\ DOMAIN e = {"page", "path", "status", "walked"} /\ e.page = w[j].page
          /\ e.walked = w[j].walked
      BY <2>1, <2>3 DEF IsEntry
    <3>2. m[j] = e
      BY <1>3, <2>3
    <3> QED BY <2>1, <3>1, <3>2 DEF IsEntry
  <2> QED BY <2>2, <2>3
<1>6. Len(w) = Len(v) + 1 /\ Len(w) \in DOMAIN w /\ 1 .. Len(v) \subseteq DOMAIN w
  BY <1>2 DEF Grows
<1>7. Grows(v, m)
  BY <1>2, <1>3, <1>5, <1>6 DEF Grows, IsRegistry
<1> QED BY <1>4, <1>7

\* The pages a round may have reported by then.
Reported(at) == CASE at = "launch" -> 0
                  [] at \in {"realigned", "look"} -> MaxPages - 1
                  [] at \in {"plan", "tap", "observe"} -> MaxPages
                  [] OTHER -> MaxPages + 1

CountOf(v, b, at) ==
    /\ IsRegistry(v) /\ Len(v) <= Reported(at)
    /\ b \in [page : Nat, total : Nat]
    /\ b.page <= b.total /\ b.total <= 2 * Threshold
    /\ at \in Round => b.total < 2 * Threshold
CountInv == CountOf(visited, breaker, pc)

\* What a step does to the registry.
LEMMA RegistryStep ==
    ASSUME StackInv, CountInv, Next
    PROVE  \/ UNCHANGED visited
           \/ /\ Grows(visited, visited') /\ pc # "done" /\ pc' # "done"
              /\ Start \/ Revisit \/ LookGated \/ Expand \/ StopAtBoundary \/ OpenExternalLink
                 \/ HitGated
<1>1. screen \in Shown /\ screen.page \in Pages /\ IsRegistry(visited) /\ Len(visited) \in Nat
  BY SeqLen DEF StackInv, StackOf, CountInv, CountOf, IsRegistry, Shown
<1>2. ASSUME NEW p \in Pages, NEW path, NEW status
      PROVE  Grows(visited, Append(visited, Entry(p, path, status, FALSE)))
  BY <1>1, EntryIsOne, AppendGrows
<1>9. ASSUME NEW p \in Pages, NEW path, NEW status, ~Visited(visited, p)
      PROVE  Grows(visited, Append(visited, Entry(p, path, status, TRUE)))
  <2>1. IsEntry(Entry(p, path, status, TRUE))
    BY EntryIsOne
  <2>2. Entry(p, path, status, TRUE).page = p
    BY DEF Entry
  <2> QED BY <1>1, <1>9, <2>1, <2>2, AppendGrows
<1>3. CASE Start
  <2>1. PICK s \in AfterInput(screen) \cup {screen} : \E status :
          visited' = <<Entry(s.page, <<>>, status, TRUE)>>
    BY <1>3 DEF Start
  <2>2. s.page \in Pages
    BY <1>1, InputShown DEF Shown
  <2>3. visited = <<>>
    <3>1. Len(visited) <= 0
      BY <1>3 DEF Start, CountInv, CountOf, Reported
    <3> QED BY <1>1, <3>1, SeqLen DEF IsRegistry
  <2>4. PICK status : visited' = <<Entry(s.page, <<>>, status, TRUE)>>
    BY <2>1
  <2>5. visited' = Append(visited, Entry(s.page, <<>>, status, TRUE))
    BY <2>3, <2>4
  <2>6. ~Visited(visited, s.page)
    BY <2>3 DEF Visited
  <2> QED BY <1>3, <1>9, <2>2, <2>5, <2>6 DEF Start
<1>4. CASE Revisit \/ LookGated
  BY <1>1, <1>2, <1>4 DEF Revisit, LookGated, LookAt
<1>5. CASE OpenExternalLink \/ HitGated
  BY <1>1, <1>2, <1>5 DEF OpenExternalLink, HitGated, Observed
<1>6. CASE Expand
  <2>1. ~Visited(visited, screen.page)
    BY <1>6 DEF Expand, CanExpand
  <2>2. Grows(visited, Registered("expanded", TRUE))
    BY <1>1, <1>9, <2>1 DEF Registered
  <2> QED BY <1>6, <2>2 DEF Expand
<1>7. CASE StopAtBoundary
  <2>1. Grows(visited, Registered("expanded", FALSE))
    BY <1>1, <1>2 DEF Registered
  <2>2. Grows(visited, MarkNotExpanded(Registered("expanded", FALSE), screen.page))
    BY <1>1, <2>1, MarkedGrows
  <2> QED BY <1>7, <2>2 DEF StopAtBoundary, LookAt
<1>8. CASE \/ LaunchFails \/ Finish \/ Aligned \/ Realign \/ Recovered \/ HomeExhausted
           \/ DropFrame \/ RestartHome \/ NextSegment \/ PopFrame \/ SkipRest \/ RestoreFails
           \/ Tap \/ TapSucceeds \/ TapFails \/ NoNavigation \/ Drift \/ ReturnToAncestor
           \/ Descend \/ ToolThrows \/ Popup \/ TimePasses
  BY <1>8 DEF LaunchFails, Finish, Aligned, Realign, Recovered, HomeExhausted, DropFrame,
     RestartHome, NextSegment, PopFrame, SkipRest, RestoreFails, Tap, TapSucceeds, TapFails,
     NoNavigation, Drift, ReturnToAncestor, Descend, ToolThrows, Popup, TimePasses
<1> QED BY <1>3, <1>4, <1>5, <1>6, <1>7, <1>8 DEF Next, Engine

\* What a step does to the circuit breaker.
LEMMA BreakerStep ==
    ASSUME CountInv, Next
    PROVE  /\ breaker' \in [page : Nat, total : Nat]
           /\ breaker'.page <= breaker'.total /\ breaker'.total <= 2 * Threshold
           /\ pc' \in Round => breaker'.total < 2 * Threshold
<1>1. /\ breaker \in [page : Nat, total : Nat] /\ breaker.page <= breaker.total
      /\ breaker.total <= 2 * Threshold /\ (pc \in Round => breaker.total < 2 * Threshold)
      /\ Threshold \in Nat /\ Threshold > 0
  BY EngineAssumption DEF CountInv, CountOf
<1>2. CASE Aligned \/ Realign
  <2>1. ~CircuitOpen(breaker, Threshold) /\ UNCHANGED breaker
    BY <1>2 DEF Aligned, Realign, Running
  <2> QED BY <1>1, <2>1 DEF CircuitOpen
<1>3. CASE LookGated \/ Expand \/ StopAtBoundary
  <2>1. breaker' = [breaker EXCEPT !.page = 0] /\ pc \in Round
    BY <1>3 DEF LookGated, Expand, StopAtBoundary, LookAt, PageSuccess, Round
  <2> QED BY <1>1, <2>1
<1>4. CASE NoNavigation
  <2>1. breaker' = PageFailure(breaker) /\ pc \in Round /\ pc' \notin Round
    BY <1>4 DEF NoNavigation, Judging, Observed, Round
  <2>2. /\ breaker' \in [page : Nat, total : Nat] /\ breaker'.page = breaker.page + 1
        /\ breaker'.total = breaker.total + 1
    BY <1>1, <2>1 DEF PageFailure
  <2> QED BY <1>1, <2>1, <2>2
<1>5. CASE ReturnToAncestor \/ Descend
  <2>1. breaker' = ClosedBreaker
    BY <1>5 DEF ReturnToAncestor, Descend
  <2> QED BY <1>1, <2>1 DEF ClosedBreaker
<1>6. CASE \/ Recovered \/ NextSegment \/ PopFrame \/ SkipRest \/ RestoreFails \/ Tap
           \/ TapSucceeds \/ TapFails \/ Popup \/ TimePasses
  <2>1. UNCHANGED breaker /\ (pc' \in Round => pc \in Round)
    BY <1>6 DEF Recovered, NextSegment, PopFrame, SkipRest, RestoreFails, Tap, TapSucceeds,
       TapFails, Popup, TimePasses, Round
  <2> QED BY <1>1, <2>1
<1>7. CASE \/ LaunchFails \/ Start \/ Finish \/ HomeExhausted \/ DropFrame \/ RestartHome
           \/ Revisit \/ OpenExternalLink \/ HitGated \/ Drift \/ ToolThrows
  <2>1. UNCHANGED breaker /\ pc' \notin Round
    BY <1>7 DEF LaunchFails, Start, Finish, HomeExhausted, DropFrame, RestartHome, Revisit,
       LookAt, OpenExternalLink, HitGated, Judging, Observed, Drift, ToolThrows, End, Round
  <2> QED BY <1>1, <2>1
<1> QED BY <1>2, <1>3, <1>4, <1>5, <1>6, <1>7 DEF Next, Engine

\* What a step that reports nothing does to the room for reports.
LEMMA ReportedKeeps ==
    ASSUME CountInv, Next, UNCHANGED visited
    PROVE  Len(visited) <= Reported(pc')
<1>1. /\ Len(visited) <= Reported(pc) /\ MaxPages \in Nat /\ MaxPages > 0
      /\ IsSeq(visited) /\ Len(visited) \in Nat
  BY SeqLen, EngineAssumption DEF CountInv, CountOf, IsRegistry
<1>2. \A at : at # "launch" => Reported(at) \in {MaxPages - 1, MaxPages, MaxPages + 1}
  BY DEF Reported
<1>3. CASE Aligned \/ Realign
  <2>1. Len(visited) < MaxPages /\ pc' # "launch"
    BY <1>3 DEF Aligned, Realign, Running, NextStep
  <2> QED BY <1>1, <1>2, <2>1
<1>4. CASE Recovered
  <2>1. pc = "realigned" /\ pc' \in {"look", "plan"}
    BY <1>4 DEF Recovered, NextStep
  <2> QED BY <1>1, <2>1 DEF Reported
<1>5. CASE Tap \/ TapSucceeds \/ TapFails
  <2>1. pc \in {"plan", "tap"} /\ pc' \in {"tap", "observe", "loop"}
    BY <1>5 DEF Tap, TapSucceeds, TapFails
  <2> QED BY <1>1, <2>1 DEF Reported
<1>6. CASE Popup \/ TimePasses
  BY <1>1, <1>6 DEF Popup, TimePasses
<1>7. CASE Expand
  <2>1. pc = "look" /\ pc' = "plan"
    BY <1>7 DEF Expand
  <2> QED BY <1>1, <2>1 DEF Reported
<1>8. CASE ~(Aligned \/ Realign \/ Recovered \/ Tap \/ TapSucceeds \/ TapFails \/ Popup
             \/ TimePasses \/ Expand)
  <2>1. pc' \in {"loop", "done"}
    BY <1>8 DEF Next, Engine, LaunchFails, Start, Finish, HomeExhausted, DropFrame, RestartHome,
       Revisit, LookGated, StopAtBoundary, LookAt, NextSegment, PopFrame, SkipRest, RestoreFails,
       OpenExternalLink, HitGated, NoNavigation, Drift, ReturnToAncestor, Descend, Judging,
       Observed, ToolThrows, End
  <2> QED BY <1>1, <1>2, <2>1 DEF Reported
<1> QED BY <1>3, <1>4, <1>5, <1>6, <1>7, <1>8

\* The counts hold at the start.
LEMMA CountInit == Init => CountInv
<1> SUFFICES ASSUME Init PROVE CountInv
  OBVIOUS
<1>1. visited = <<>> /\ breaker = ClosedBreaker /\ pc = "launch"
  BY DEF Init
<1>2. IsRegistry(<<>>) /\ Len(<<>>) = 0
  <2>1. IsSeq(<<>>) /\ Len(<<>>) = 0 /\ DOMAIN <<>> = {}
    BY EmptyIsSeq, SeqLen
  <2> QED BY <2>1 DEF IsRegistry
<1> QED BY <1>1, <1>2, EngineAssumption DEF CountInv, CountOf, ClosedBreaker, Reported, Round

\* Every step keeps them.
LEMMA CountStep == StackInv /\ CountInv /\ [Next]_vars => CountInv'
<1> SUFFICES ASSUME StackInv, CountInv, [Next]_vars PROVE CountInv'
  OBVIOUS
<1>1. CASE Next
  <2>1. /\ breaker' \in [page : Nat, total : Nat]
        /\ breaker'.page <= breaker'.total /\ breaker'.total <= 2 * Threshold
        /\ pc' \in Round => breaker'.total < 2 * Threshold
    BY <1>1, BreakerStep
  <2>2. IsRegistry(visited') /\ Len(visited') <= Reported(pc')
    <3>1. CASE UNCHANGED visited
      BY <1>1, <3>1, ReportedKeeps DEF CountInv, CountOf
    <3>2. CASE Grows(visited, visited') /\ (\/ Start \/ Revisit \/ LookGated \/ Expand
                                            \/ StopAtBoundary \/ OpenExternalLink \/ HitGated)
      <4>1. \/ pc = "launch" /\ pc' = "loop"
            \/ pc = "look" /\ pc' \in {"loop", "plan"}
            \/ pc = "observe" /\ pc' = "loop"
        <5>1. Start => pc = "launch" /\ pc' = "loop"
          BY DEF Start
        <5>2. Revisit \/ LookGated \/ Expand \/ StopAtBoundary =>
                pc = "look" /\ pc' \in {"loop", "plan"}
          BY DEF Revisit, LookGated, Expand, StopAtBoundary, LookAt
        <5>3. OpenExternalLink \/ HitGated => pc = "observe" /\ pc' = "loop"
          BY DEF OpenExternalLink, HitGated, Observed
        <5> QED BY <3>2, <5>1, <5>2, <5>3
      <4>2. /\ Len(visited') = Len(visited) + 1 /\ IsRegistry(visited')
            /\ Len(visited) <= Reported(pc) /\ Len(visited) \in Nat
            /\ MaxPages \in Nat /\ MaxPages > 0
        BY <3>2, SeqLen, EngineAssumption DEF Grows, CountInv, CountOf, IsRegistry
      <4> QED BY <4>1, <4>2 DEF Reported
    <3> QED BY <1>1, <3>1, <3>2, RegistryStep
  <2>3. CountOf(visited', breaker', pc')
    BY <2>1, <2>2 DEF CountOf
  <2> QED BY <2>3 DEF CountInv, CountOf
<1>2. CASE UNCHANGED vars
  BY <1>2 DEF vars, CountInv
<1> QED BY <1>1, <1>2

\* The counts are sound in every behaviour.
LEMMA CountSound == Spec => [](StackInv /\ CountInv)
<1>1. Init => StackInv /\ CountInv
  BY StackInit, CountInit
<1>2. StackInv /\ CountInv /\ [Next]_vars => (StackInv /\ CountInv)'
  BY StackStep, CountStep
<1> QED BY <1>1, <1>2, PTL DEF Spec

\* The limits looked at once per round hold at all times: pages up to the second
\* one a round may report, failures up to the one that opens the breaker, and
\* segments of a page.
THEOREM LimitsHold == Spec => []Limits
<1>1. ASSUME StackInv, CountInv PROVE Limits
  <2>1. Len(visited) <= MaxPages + 1
    <3>1. Len(visited) <= Reported(pc) /\ Len(visited) \in Nat /\ MaxPages \in Nat
      BY <1>1, SeqLen, EngineAssumption DEF CountInv, CountOf, IsRegistry
    <3>2. Reported(pc) \in {0, MaxPages - 1, MaxPages, MaxPages + 1}
      BY DEF Reported
    <3> QED BY <3>1, <3>2
  <2>2. ASSUME NEW i \in DOMAIN stack PROVE Len(stack[i].scroll.segments) <= MostSegments
    BY <1>1 DEF StackInv, StackOf, Chained, FrameShape
  <2> QED BY <1>1, <2>1, <2>2 DEF Limits, CountInv, CountOf, MostSegments
<1> QED BY <1>1, CountSound, PTL

-----------------------------------------------------------------------------
\* A tap is in flight between its choice and its outcome, and at no other time
\* unless an exception ended the exploration in between.
TapInv == /\ pc # "done" => outcome = "none"
          /\ outcome # "threw" => inFlight = IF pc \in {"tap", "observe"} THEN 1 ELSE 0

\* Nothing is in flight at the start.
LEMMA TapInit == Init => TapInv
BY DEF Init, TapInv

\* Every step keeps what is in flight.
LEMMA TapStep == TapInv /\ [Next]_vars => TapInv'
<1> SUFFICES ASSUME TapInv, [Next]_vars PROVE TapInv'
  OBVIOUS
<1>1. CASE LaunchFails \/ Finish \/ HomeExhausted \/ ToolThrows
  BY <1>1 DEF LaunchFails, Finish, HomeExhausted, ToolThrows, End, TapInv
<1>2. CASE RestartHome
  BY <1>2 DEF RestartHome, End, TapInv
<1>3. CASE Start \/ Aligned \/ Realign \/ Recovered \/ DropFrame
  BY <1>3 DEF Start, Aligned, Realign, Recovered, DropFrame, NextStep, TapInv
<1>4. CASE Revisit \/ LookGated \/ Expand \/ StopAtBoundary
  BY <1>4 DEF Revisit, LookGated, Expand, StopAtBoundary, LookAt, TapInv
<1>5. CASE NextSegment \/ PopFrame \/ SkipRest \/ RestoreFails
  BY <1>5 DEF NextSegment, PopFrame, SkipRest, RestoreFails, TapInv
<1>6. CASE Tap \/ TapSucceeds
  BY <1>6 DEF Tap, TapSucceeds, TapInv
<1>10. CASE TapFails
  <2>1. /\ pc = "tap" /\ outcome' = outcome
        /\ \/ pc' = pc /\ inFlight' = inFlight
           \/ pc' = "loop" /\ inFlight' = inFlight - 1
    BY <1>10 DEF TapFails
  <2> QED BY <2>1 DEF TapInv
<1>7. CASE \/ OpenExternalLink \/ HitGated \/ NoNavigation \/ Drift \/ ReturnToAncestor
           \/ Descend
  <2>1. Observed /\ UNCHANGED outcome
    BY <1>7 DEF OpenExternalLink, HitGated, NoNavigation, Drift, ReturnToAncestor, Descend, Judging
  <2> QED BY <2>1 DEF Observed, TapInv
<1>8. CASE Popup \/ TimePasses
  BY <1>8 DEF Popup, TimePasses, TapInv
<1>9. CASE UNCHANGED vars
  BY <1>9 DEF vars, TapInv
<1> QED BY <1>1, <1>2, <1>3, <1>4, <1>5, <1>6, <1>7, <1>8, <1>9, <1>10 DEF Next, Engine

\* Every tap sent has been committed or rejected when the next round starts, and
\* when the exploration ends other than by an exception.
THEOREM TapsAreAccountedFor == Spec => []TapsAccountedFor
<1>1. TapInv => TapsAccountedFor
  BY DEF TapInv, TapsAccountedFor
<1> QED BY <1>1, TapInit, TapStep, PTL DEF Spec

-----------------------------------------------------------------------------
\* Without a popup a frame is expanded, and its next element chosen, on its page.
OnFramePage == IsOnExpectedPage(screen, Head0.id, Head0.title)
PageInv == /\ popups \in Nat
           /\ popups = 0 /\ pc \in {"look", "plan"} => OnFramePage

\* Before the launch there is no frame to be on the page of.
LEMMA PageInit == Init => PageInv
BY DEF Init, PageInv

\* Every step keeps to the page of the frame.
LEMMA PageStep == StackInv /\ PageInv /\ [Next]_vars => PageInv'
<1> SUFFICES ASSUME StackInv, PageInv, [Next]_vars PROVE PageInv'
  OBVIOUS
<1>1. CASE Aligned \/ Recovered
  <2>1. OnFramePage /\ UNCHANGED <<screen, stack, popups>>
    BY <1>1 DEF Aligned, Recovered, OnFramePage
  <2> QED BY <2>1 DEF PageInv, OnFramePage, Head0
<1>2. CASE Expand
  <2>1. stack # <<>> /\ stack' = WithTop(Expanded) /\ UNCHANGED <<screen, popups>>
    BY <1>2 DEF Expand, StackInv, StackOf, Round
  <2>2. IsSeq(stack) /\ FrameShape(Head0)
    BY <2>1, TopShape DEF StackInv, StackOf, Chained
  <2>3. Head0' = Expanded
    <3>1. Len(stack) \in 1 .. Len(stack) /\ DOMAIN stack = 1 .. Len(stack)
      BY <2>1, <2>2, SeqLen
    <3>2. Len(stack') = Len(stack) /\ stack'[Len(stack)] = Expanded
      BY <2>1, <2>2, <3>1, PutSeq DEF WithTop
    <3> QED BY <3>2 DEF Head0
  <2>4. Expanded.id = screen.page
    <3>1. PICK some, visible : Expanded = WithScroll(
            [Head0 EXCEPT !.id = screen.page, !.title = Title(screen.page), !.elements = some],
            screen.page, visible)
      BY DEF Expanded
    <3> DEFINE f == [Head0 EXCEPT !.id = screen.page, !.title = Title(screen.page),
                                  !.elements = some]
    <3>2. FrameShape(f) /\ f.id = screen.page
      BY <2>2 DEF FrameShape, FrameFields
    <3>3. Expanded = WithScroll(f, screen.page, visible)
      BY <3>1
    <3> HIDE DEF f
    <3> QED BY <3>2, <3>3, WithScrollShape
  <2>5. OnFramePage'
    BY <2>1, <2>3, <2>4 DEF OnFramePage, IsOnExpectedPage
  <2> QED BY <2>1, <2>5 DEF PageInv
<1>3. CASE Popup
  <2>1. popups' = popups + 1 /\ popups \in Nat
    BY <1>3 DEF Popup, PageInv
  <2> QED BY <2>1 DEF PageInv
<1>4. CASE TimePasses \/ UNCHANGED vars
  <2>1. UNCHANGED <<pc, screen, stack, popups>>
    BY <1>4 DEF TimePasses, vars
  <2> QED BY <2>1 DEF PageInv, OnFramePage, Head0
<1>5. CASE (Engine /\ ~(Aligned \/ Recovered \/ Expand)) \/ ToolThrows
  <2>1. UNCHANGED popups
    BY <1>5 DEF Engine, LaunchFails, Start, Finish, Realign, HomeExhausted, DropFrame,
       RestartHome, Revisit, LookGated, StopAtBoundary, NextSegment, PopFrame, SkipRest,
       RestoreFails, Tap, TapSucceeds, TapFails, OpenExternalLink, HitGated, NoNavigation, Drift,
       ReturnToAncestor, Descend, ToolThrows
  <2>2. pc' \notin {"look", "plan"}
    BY <1>5 DEF Engine, LaunchFails, Start, Finish, Realign, HomeExhausted, DropFrame,
       RestartHome, Revisit, LookGated, StopAtBoundary, LookAt, NextSegment, PopFrame, SkipRest,
       RestoreFails, Tap, TapSucceeds, TapFails, OpenExternalLink, HitGated, NoNavigation, Drift,
       ReturnToAncestor, Descend, Judging, Observed, ToolThrows, End
  <2> QED BY <2>1, <2>2 DEF PageInv
<1> QED BY <1>1, <1>2, <1>3, <1>4, <1>5 DEF Next

\* A tap is decided only while the device shows the page of its frame, unless a
\* popup came in between.
THEOREM TapsAreOnFramePage == Spec => TapsOnFramePage
<1>1. Init => StackInv /\ PageInv
  BY StackInit, PageInit
<1>2. StackInv /\ PageInv /\ [Next]_vars => (StackInv /\ PageInv)'
  BY StackStep, PageStep
<1>3. ASSUME StackInv, PageInv, [Next]_vars, pc = "plan", pc' = "tap", popups = 0
      PROVE  IsOnExpectedPage(screen', Head0.id, Head0.title)
  <2>1. Tap
    <3>1. ~(\/ LaunchFails \/ Start \/ Finish \/ Aligned \/ Realign \/ Recovered
            \/ HomeExhausted \/ DropFrame \/ RestartHome)
      BY <1>3 DEF LaunchFails, Start, Finish, Aligned, Realign, Recovered, HomeExhausted,
         DropFrame, RestartHome
    <3>2. ~(\/ Revisit \/ LookGated \/ Expand \/ StopAtBoundary \/ NextSegment \/ PopFrame
            \/ SkipRest \/ RestoreFails)
      BY <1>3 DEF Revisit, LookGated, Expand, StopAtBoundary, LookAt, NextSegment, PopFrame,
         SkipRest, RestoreFails
    <3>3. ~(\/ TapSucceeds \/ TapFails \/ OpenExternalLink \/ HitGated \/ NoNavigation
            \/ Drift \/ ReturnToAncestor \/ Descend)
      BY <1>3 DEF TapSucceeds, TapFails, OpenExternalLink, HitGated, NoNavigation, Drift,
         ReturnToAncestor, Descend, Judging, Observed
    <3>4. ~(ToolThrows \/ Popup \/ TimePasses \/ UNCHANGED vars)
      BY <1>3 DEF ToolThrows, End, Popup, TimePasses, vars
    <3> QED BY <1>3, <3>1, <3>2, <3>3, <3>4 DEF Next, Engine
  <2>2. screen' \in {screen, ScrolledBy(screen, Scrolls)}
    BY <2>1 DEF Tap
  <2>3. screen'.page = screen.page
    BY <1>3, <2>2 DEF ScrolledBy, StackInv, StackOf, Shown
  <2>4. IsOnExpectedPage(screen, Head0.id, Head0.title)
    BY <1>3 DEF PageInv, OnFramePage
  <2> QED BY <2>3, <2>4 DEF IsOnExpectedPage
<1>4. StackInv /\ PageInv /\ [Next]_vars =>
        [pc = "plan" /\ pc' = "tap" /\ popups = 0 =>
           IsOnExpectedPage(screen', Head0.id, Head0.title)]_vars
  BY <1>3
<1> QED BY <1>1, <1>2, <1>4, PTL DEF Spec, TapsOnFramePage

-----------------------------------------------------------------------------
\* The report of the pages, in the order of the registry.
PagesOf(v)  == [i \in DOMAIN v |-> v[i].page]
WalkedOf(v) == {v[i].page : i \in {j \in DOMAIN v : v[j].walked}}

\* A registry that grows adds its last page to the report.
LEMMA ReportGrows ==
    ASSUME NEW v, IsRegistry(v), NEW w, Grows(v, w)
    PROVE  \E p \in Pages :
              /\ PagesOf(w) = Append(PagesOf(v), p)
              /\ \/ WalkedOf(w) = WalkedOf(v)
                 \/ p \notin ToSet(PagesOf(v)) /\ WalkedOf(w) = WalkedOf(v) \cup {p}
<1> DEFINE n == Len(v)
<1>8. PICK p : p = w[n + 1].page
  OBVIOUS
<1>1. /\ n \in Nat /\ DOMAIN v = 1 .. n /\ DOMAIN w = 1 .. (n + 1) /\ Len(w) = n + 1
      /\ \A i \in 1 .. n : w[i].page = v[i].page /\ w[i].walked = v[i].walked
  BY SeqLen DEF Grows, IsRegistry
<1>2. n + 1 \in DOMAIN w /\ p \in Pages /\ w[n + 1].walked \in BOOLEAN
  BY <1>1, <1>8 DEF Grows, IsRegistry, IsEntry
<1>3. PagesOf(v) \in Seq(Pages) /\ Len(PagesOf(v)) = n
  <2>1. \A i \in 1 .. n : v[i].page \in Pages
    BY <1>1 DEF IsRegistry, IsEntry
  <2>2. PagesOf(v) \in [1 .. n -> Pages]
    BY <1>1, <2>1 DEF PagesOf
  <2>3. PagesOf(v) \in Seq(Pages)
    BY <1>1, <2>2, SeqDef
  <2> QED BY <1>1, <2>2, <2>3, LenProperties
<1> HIDE DEF n
<1>4. PagesOf(w) = Append(PagesOf(v), p)
  <2>1. \A i \in 1 .. (n + 1) : w[i].page \in Pages
    BY <1>1 DEF Grows, IsRegistry, IsEntry
  <2>2. PagesOf(w) \in [1 .. (n + 1) -> Pages]
    BY <1>1, <2>1 DEF PagesOf
  <2>3. PagesOf(w) \in Seq(Pages) /\ Len(PagesOf(w)) = n + 1
    BY <1>1, <2>2, SeqDef, LenProperties
  <2> DEFINE a == Append(PagesOf(v), p)
  <2>4. /\ a \in Seq(Pages) /\ Len(a) = n + 1 /\ a[n + 1] = p
        /\ \A i \in 1 .. n : a[i] = PagesOf(v)[i]
    BY <1>2, <1>3, AppendProperties
  <2> HIDE DEF a
  <2>5. ASSUME NEW i \in 1 .. (n + 1) PROVE PagesOf(w)[i] = a[i]
    <3>1. PagesOf(w)[i] = w[i].page
      BY <1>1 DEF PagesOf
    <3>2. CASE i = n + 1
      <4>1. a[i] = p /\ w[i].page = p
        BY <1>8, <2>4, <3>2
      <4> QED BY <3>1, <4>1
    <3>3. CASE i \in 1 .. n
      <4>1. PagesOf(v)[i] = v[i].page
        BY <1>1, <3>3 DEF PagesOf
      <4> QED BY <1>1, <2>4, <3>1, <3>3, <4>1
    <3> QED BY <1>1, <3>2, <3>3
  <2>6. PagesOf(w) = a
    BY <2>3, <2>4, <2>5, SeqEqual
  <2> QED BY <2>6 DEF a
<1>5. WalkedOf(w) = WalkedOf(v) \cup {x \in {p} : w[n + 1].walked}
  <2>1. ASSUME NEW x PROVE (x \in WalkedOf(w)) <=> (x \in WalkedOf(v) \/ (x = p /\ w[n + 1].walked))
    <3>1. x \in WalkedOf(w) <=> \E i \in 1 .. (n + 1) : w[i].walked /\ x = w[i].page
      BY <1>1 DEF WalkedOf
    <3>2. x \in WalkedOf(v) <=> \E i \in 1 .. n : v[i].walked /\ x = v[i].page
      BY <1>1 DEF WalkedOf
    <3>3. \A i : (i \in 1 .. (n + 1)) <=> (i \in 1 .. n \/ i = n + 1)
      BY <1>1
    <3> QED BY <1>1, <1>8, <3>1, <3>2, <3>3
  <2> QED BY <2>1
<1>6. CASE ~w[n + 1].walked
  BY <1>2, <1>4, <1>5, <1>6
<1>7. CASE w[n + 1].walked
  <2>1. ~Visited(v, p)
    BY <1>1, <1>7, <1>8 DEF Grows
  <2>2. p \notin ToSet(PagesOf(v))
    BY <2>1 DEF Visited, ToSet, PagesOf
  <2>3. WalkedOf(w) = WalkedOf(v) \cup {p}
    BY <1>5, <1>7
  <2> QED BY <1>2, <1>4, <2>2, <2>3
<1> QED BY <1>6, <1>7

\* Every step is one of the abstract exploration, or a stutter.
LEMMA ReportStep == StackInv /\ CountInv /\ [Next]_vars => [Report!Next]_(Report!vars)
<1> SUFFICES ASSUME StackInv, CountInv, [Next]_vars PROVE [Report!Next]_(Report!vars)
  OBVIOUS
<1>1. CASE UNCHANGED visited
  <2>1. UNCHANGED <<[i \in DOMAIN visited |-> visited[i].page],
                   {visited[i].page : i \in {j \in DOMAIN visited : visited[j].walked}}>>
    BY <1>1
  <2>2. (pc = "done") => (pc' = "done")
    BY DEF Next, Engine, LaunchFails, Start, Finish, Aligned, Realign, Recovered,
       HomeExhausted, DropFrame, RestartHome, Revisit, LookGated, Expand, StopAtBoundary, LookAt,
       NextSegment, PopFrame, SkipRest, RestoreFails, Tap, TapSucceeds, TapFails,
       OpenExternalLink, HitGated, NoNavigation, Drift, ReturnToAncestor, Descend, Judging,
       Observed, ToolThrows, Popup, TimePasses, vars
  <2>3. CASE (pc = "done") = (pc' = "done")
    BY <2>1, <2>3 DEF Report!vars
  <2>4. CASE pc # "done" /\ pc' = "done"
    BY <2>1, <2>4 DEF Report!Next, Report!Finish
  <2> QED BY <2>2, <2>3, <2>4
<1>2. CASE Grows(visited, visited') /\ pc # "done" /\ pc' # "done"
  <2>1. PICK p \in Pages :
          /\ PagesOf(visited') = Append(PagesOf(visited), p)
          /\ \/ WalkedOf(visited') = WalkedOf(visited)
             \/ /\ p \notin ToSet(PagesOf(visited))
                /\ WalkedOf(visited') = WalkedOf(visited) \cup {p}
    BY <1>2, ReportGrows DEF CountInv, CountOf
  <2>2. Report!Note(p) \/ Report!Walk(p)
    <3>1. CASE WalkedOf(visited') = WalkedOf(visited)
      BY <1>2, <2>1, <3>1 DEF Report!Note, PagesOf, WalkedOf
    <3>2. CASE /\ p \notin ToSet(PagesOf(visited))
               /\ WalkedOf(visited') = WalkedOf(visited) \cup {p}
      BY <1>2, <2>1, <3>2 DEF Report!Walk, Report!ToSet, ToSet, PagesOf, WalkedOf
    <3> QED BY <2>1, <3>1, <3>2
  <2> QED BY <2>2 DEF Report!Next
<1>3. CASE UNCHANGED vars
  BY <1>1, <1>3 DEF vars
<1> QED BY <1>1, <1>2, <1>3, RegistryStep

\* The exploration implements the abstract one: its report only grows, a page is
\* walked into only the first time anything is said of it, and nothing is added
\* once it is over.
THEOREM ReportIsRefined == Spec => ReportRefined
<1>1. Init => Report!Init
  BY DEF Init, Report!Init
<1> QED BY <1>1, ReportStep, CountSound, PTL DEF Spec, ReportRefined, Report!Spec
=============================================================================
