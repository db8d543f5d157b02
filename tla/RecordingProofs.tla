--------------------------- MODULE RecordingProofs ---------------------------
(***************************************************************************)
(* For any inputs, calls, crashes and bounds: no capture process goes      *)
(* astray; and of a recording whose calls come one at a time, with no line *)
(* captured after the first of them, every end writes the same steps,      *)
(* which are those of the captured lines and keep the text that was typed; *)
(* a flow exported from them without a warning has all the user did.       *)
(* The last two rest on inductions over the lines, the events and the      *)
(* steps, one for each of the parser, the sort, the mapper and the export. *)
(***************************************************************************)
EXTENDS Recording, FiniteSetTheorems, SequenceTheorems, TLAPS

Under(c) == calls[c].at \notin {"new", "done"}
DryDone  == \E c \in Calls : calls[c].at = "done" /\ calls[c].dry

\* What the steps of the calls may rely on of the calls' records.
CallShape ==
    /\ DOMAIN calls = Calls
    /\ \A c \in Calls : {"at", "dry"} \subseteq DOMAIN calls[c]

\* Nothing is called before the start has written the record.
NothingEarly ==
    start # "done" => record = NoRecord /\ \A c \in Calls : calls[c].at = "new"

\* A live process is named by a running recording, or a dry run has ended it.
Known ==
    start = "done" /\ (capture = "live" \/ snapshot = "live") =>
        \/ DryDone
        \/ /\ record.status = "running"
           /\ capture = "live" => record.pid
           /\ snapshot = "live" => record.snap

\* Once a call is under way that is no dry run, what could be stopped was.
Stopped ==
    \A c \in Calls : Under(c) /\ ~calls[c].dry =>
        DryDone \/ (capture # "live" /\ snapshot # "live")

IndInv == CallShape /\ NothingEarly /\ Known /\ Stopped

-----------------------------------------------------------------------------
LEMMA InitInv == Init => IndInv
BY DEF Init, IndInv, CallShape, NothingEarly, Known, Stopped, Under, NewCall

\* c goes on, or is done; the other calls stay where they are.
Moves(c) ==
    /\ DOMAIN calls' = Calls
    /\ \A d \in Calls : d # c => calls'[d] = calls[d]
    /\ {"at", "dry"} \subseteq DOMAIN calls'[c]
    /\ calls'[c].dry = calls[c].dry
    /\ calls'[c].at # "new"

LEMMA MoveInv ==
    ASSUME IndInv, NEW c \in Calls, Under(c), Moves(c),
           UNCHANGED <<capture, snapshot, record, start>>
    PROVE  IndInv'
<1>1. start = "done"
  BY DEF IndInv, NothingEarly, Under
<1>2. DryDone => DryDone'
  BY DEF DryDone, Moves, Under
<1>3. CallShape'
  BY DEF IndInv, CallShape, Moves
<1>4. NothingEarly'
  BY <1>1 DEF NothingEarly
<1>5. Known'
  BY <1>1, <1>2 DEF IndInv, Known
<1>6. Stopped'
  BY <1>2 DEF IndInv, Stopped, Moves, Under
<1> QED  BY <1>3, <1>4, <1>5, <1>6 DEF IndInv

LEMMA CallInv ==
    ASSUME IndInv, NEW c \in Calls,
           \/ ListEvents(c) \/ ParseRaw(c) \/ AppendEvents(c)
           \/ PersistSteps(c) \/ WriteFlow(c) \/ LoadRecord(c)
    PROVE  IndInv'
<1> USE DEF IndInv, CallShape, Called, Continue, processes, device
<1>1. CASE ListEvents(c)
  <2> DEFINE next == IF StoredEvents = <<>> THEN "parse" ELSE "steps"
  <2>1. PICK warned \in BOOLEAN :
          calls' = [calls EXCEPT ![c].events = StoredEvents, ![c].warned = warned, ![c].at = next]
    BY <1>1 DEF ListEvents
  <2>2. next # "new"
    OBVIOUS
  <2>3. Moves(c)
    <3> HIDE DEF next
    <3>1. calls' = [calls EXCEPT ![c] = [[[calls[c] EXCEPT !.events = StoredEvents]
                                               EXCEPT !.warned = warned] EXCEPT !.at = next]]
      BY <2>1
    <3> QED  BY <3>1, <2>2 DEF Moves
  <2>4. Under(c)
    BY <1>1 DEF ListEvents, Under
  <2> QED  BY <2>3, <2>4, <1>1, MoveInv DEF ListEvents
<1>2. CASE ParseRaw(c)
  <2>1. Under(c) /\ Moves(c)
    BY <1>2 DEF ParseRaw, Under, Moves
  <2> QED  BY <2>1, <1>2, MoveInv DEF ParseRaw
<1>3. CASE AppendEvents(c)
  <2>1. Under(c) /\ Moves(c)
    BY <1>3 DEF AppendEvents, Under, Moves
  <2> QED  BY <2>1, <1>3, MoveInv DEF AppendEvents
<1>4. CASE PersistSteps(c)
  <2>1. Under(c) /\ Moves(c)
    BY <1>4 DEF PersistSteps, Under, Moves
  <2> QED  BY <2>1, <1>4, MoveInv DEF PersistSteps
<1>5. CASE WriteFlow(c)
  <2>1. Under(c) /\ Moves(c)
    BY <1>5 DEF WriteFlow, Under, Moves
  <2> QED  BY <2>1, <1>5, MoveInv DEF WriteFlow
<1>6. CASE LoadRecord(c)
  <2>1. Under(c) /\ Moves(c)
    BY <1>6 DEF LoadRecord, Under, Moves
  <2> QED  BY <2>1, <1>6, MoveInv DEF LoadRecord
<1> QED  BY <1>1, <1>2, <1>3, <1>4, <1>5, <1>6

\* The record is written by a call that stopped the processes when it began, or by a
\* dry run, which is then done.
LEMMA WriteRecordInv ==
    ASSUME IndInv, NEW c \in Calls, WriteRecord(c)
    PROVE  IndInv'
<1>1. Under(c) /\ Moves(c) /\ calls'[c].at = "done"
  BY DEF IndInv, CallShape, WriteRecord, Called, Finish, Under, Moves
<1>2. start = "done" /\ UNCHANGED <<capture, snapshot, start>>
  BY <1>1 DEF IndInv, NothingEarly, Under, WriteRecord, processes
<1>3. DryDone => DryDone'
  BY <1>1 DEF DryDone, Moves, Under
<1>4. DryDone' \/ (capture # "live" /\ snapshot # "live")
  <2>1. CASE calls[c].dry
    BY <2>1, <1>1 DEF DryDone, Moves
  <2>2. CASE ~calls[c].dry
    BY <2>2, <1>1, <1>3 DEF IndInv, Stopped
  <2> QED  BY <2>1, <2>2
<1>5. CallShape'
  BY <1>1 DEF IndInv, CallShape, Moves
<1>6. NothingEarly'
  BY <1>2 DEF NothingEarly
<1>7. Known'
  BY <1>2, <1>4 DEF Known
<1>8. Stopped'
  BY <1>2, <1>4 DEF Stopped
<1> QED  BY <1>5, <1>6, <1>7, <1>8 DEF IndInv

\* A call that begins stops what the record of a running recording names.
LEMMA BeginInv ==
    ASSUME IndInv, NEW c \in Calls,
           BeginCancel(c) \/ \E dry, export \in BOOLEAN : BeginEnd(c, dry, export)
    PROVE  IndInv'
<1>1. start = "done" /\ UNCHANGED <<record, start>>
  BY DEF IndInv, NothingEarly, BeginCancel, BeginEnd
<1>2. /\ calls[c].at = "new" /\ DOMAIN calls' = Calls
      /\ \A d \in Calls : d # c => calls'[d] = calls[d]
      /\ {"at", "dry"} \subseteq DOMAIN calls'[c] /\ Under(c)'
  <2>1. CASE BeginCancel(c)
    <3>1. calls' = [calls EXCEPT ![c] = [NewCall EXCEPT !.at = "load", !.tool = "cancel"]]
      BY <2>1 DEF BeginCancel
    <3> QED  BY <3>1, <2>1 DEF BeginCancel, Called, NewCall, IndInv, CallShape, Under
  <2>2. ASSUME NEW dry \in BOOLEAN, NEW export \in BOOLEAN, BeginEnd(c, dry, export)
        PROVE  /\ calls[c].at = "new" /\ DOMAIN calls' = Calls
               /\ \A d \in Calls : d # c => calls'[d] = calls[d]
               /\ {"at", "dry"} \subseteq DOMAIN calls'[c] /\ Under(c)'
    <3> DEFINE call == [NewCall EXCEPT !.at = "list", !.tool = "end",
                                       !.dry = dry, !.export = export]
    <3>1. calls[c].at = "new" /\ calls' = [calls EXCEPT ![c] = call]
      BY <2>2 DEF BeginEnd, Called
    <3>2. {"at", "dry"} \subseteq DOMAIN call /\ call.at = "list"
      BY DEF NewCall
    <3> HIDE DEF call
    <3> QED  BY <3>1, <3>2 DEF IndInv, CallShape, Under
  <2> QED  BY <2>1, <2>2
<1>3. DryDone => DryDone'
  BY <1>2 DEF DryDone
<1>4. /\ capture' = "live" => capture = "live"
      /\ snapshot' = "live" => snapshot = "live"
  BY DEF BeginCancel, BeginEnd, Signalled
<1>5. calls'[c].dry \/ DryDone \/ (capture' # "live" /\ snapshot' # "live")
  <2>1. CASE BeginCancel(c)
    BY <2>1, <1>1, <1>4 DEF IndInv, Known, BeginCancel, Signalled
  <2>2. ASSUME NEW dry \in BOOLEAN, NEW export \in BOOLEAN, BeginEnd(c, dry, export), ~dry
        PROVE  DryDone \/ (capture' # "live" /\ snapshot' # "live")
    BY <2>2, <1>1, <1>4 DEF IndInv, Known, BeginEnd, Signalled
  <2>3. ASSUME NEW dry \in BOOLEAN, NEW export \in BOOLEAN, BeginEnd(c, dry, export), dry
        PROVE  calls'[c].dry
    BY <2>3 DEF IndInv, CallShape, BeginEnd, NewCall
  <2> QED  BY <2>1, <2>2, <2>3
<1>6. CallShape'
  BY <1>2 DEF IndInv, CallShape
<1>7. NothingEarly'
  BY <1>1 DEF NothingEarly
<1>8. Known'
  BY <1>1, <1>3, <1>4 DEF IndInv, Known
<1>9. Stopped'
  BY <1>2, <1>3, <1>4, <1>5 DEF IndInv, Stopped, Under
<1> QED  BY <1>6, <1>7, <1>8, <1>9 DEF IndInv

\* The start, the processes themselves, and a crash.
LEMMA OtherInv ==
    ASSUME IndInv,
           \/ StartCapture \/ StartSnapshot \/ PersistStarted
           \/ Capture \/ CaptureDies \/ Crash
    PROVE  IndInv'
<1> USE DEF IndInv, device, processes
<1>1. CASE StartCapture \/ StartSnapshot
  <2>1. start # "done" /\ start' # "done" /\ UNCHANGED <<record, calls>>
    BY <1>1 DEF StartCapture, StartSnapshot
  <2> QED  BY <2>1 DEF CallShape, NothingEarly, Known, Stopped, Under
<1>2. CASE PersistStarted
  <2>1. start # "done" /\ UNCHANGED <<capture, snapshot, calls>>
    BY <1>2 DEF PersistStarted
  <2>2. \A c \in Calls : calls[c].at = "new"
    BY <2>1 DEF NothingEarly
  <2>3. CallShape' /\ Stopped'
    BY <2>1, <2>2 DEF CallShape, Stopped, Under
  <2>4. CASE start' = "done" /\ record' = [status |-> "running", pid |-> capture # "none",
                                           snap |-> snapshot # "none", flow |-> 0]
    <3>1. /\ record'.status = "running"
          /\ record'.pid = (capture # "none") /\ record'.snap = (snapshot # "none")
      BY <2>4
    <3>2. Known'
      BY <3>1, <2>1 DEF Known
    <3> QED  BY <2>1, <2>3, <2>4, <3>2 DEF NothingEarly
  <2>5. CASE start' = "failed" /\ UNCHANGED record
    BY <2>1, <2>3, <2>5 DEF NothingEarly, Known
  <2> QED  BY <2>4, <2>5, <1>2 DEF PersistStarted
<1>3. CASE Capture
  BY <1>3 DEF Capture, CallShape, NothingEarly, Known, Stopped, Under, DryDone
<1>4. CASE CaptureDies
  BY <1>4 DEF CaptureDies, CallShape, NothingEarly, Known, Stopped, Under, DryDone
<1>5. CASE Crash
  <2>1. /\ UNCHANGED <<capture, snapshot, record>>
        /\ start' = "done" <=> start = "done"
    BY <1>5 DEF Crash
  <2>2. /\ DOMAIN calls' = Calls
        /\ \A c \in Calls : calls[c].at \in {"new", "done"} => calls'[c] = calls[c]
        /\ \A c \in Calls : Under(c) => {"at", "dry"} \subseteq DOMAIN calls'[c] /\ calls'[c].at = "done"
    BY <1>5 DEF Crash, CallShape, Under, NewCall
  <2>3. DryDone => DryDone'
    BY <2>2 DEF DryDone
  <2>4. CallShape'
    BY <2>2 DEF CallShape, Under
  <2>5. NothingEarly'
    BY <2>1, <2>2 DEF NothingEarly
  <2>6. Known'
    BY <2>1, <2>3 DEF Known
  <2>7. Stopped'
    BY <2>2 DEF Stopped, Under
  <2> QED  BY <2>4, <2>5, <2>6, <2>7
<1> QED  BY <1>1, <1>2, <1>3, <1>4, <1>5

LEMMA NextInv == IndInv /\ [Next]_vars => IndInv'
<1> SUFFICES ASSUME IndInv, [Next]_vars PROVE IndInv'  OBVIOUS
<1>1. CASE UNCHANGED vars
  BY <1>1 DEF vars, IndInv, CallShape, NothingEarly, Known, Stopped, Under, DryDone
<1>2. CASE Next
  BY <1>2, CallInv, WriteRecordInv, BeginInv, OtherInv DEF Next
<1> QED  BY <1>1, <1>2

-----------------------------------------------------------------------------
\* A process that still captures is named by the record of a running recording, unless a
\* dry run has ended it, from the moment start_record_session has answered: whatever calls
\* overlap and wherever the server dies (recording-runtime.ts:244, 394-415, 655).
THEOREM NoProcessAstray == Spec => []NoStrayCapture
<1>1. IndInv => NoStrayCapture
  BY DEF IndInv, Known, DryDone, NoStrayCapture
<1> QED  BY <1>1, InitInv, NextInv, PTL DEF Spec

-----------------------------------------------------------------------------
\* What a set of numbers with 0 and every successor misses is carried into itself, less
\* its greatest, by the predecessor: it is empty.
LEMMA NumbersFrom0 ==
    ASSUME NEW S, 0 \in S, \A n \in Nat : n \in S => n + 1 \in S
    PROVE  \A n \in Nat : n \in S
<1> SUFFICES ASSUME NEW n \in Nat, n \notin S PROVE FALSE
  OBVIOUS
<1> DEFINE T == {k \in 0 .. n : k \notin S}
           f == [k \in T |-> k - 1]
<1>1. IsFiniteSet(T) /\ n \in T
  <2>1. IsFiniteSet(0 .. n) /\ T \in SUBSET (0 .. n)
    BY FS_Interval
  <2>2. IsFiniteSet(T)
    <3> HIDE DEF T
    <3> QED BY <2>1, FS_Subset
  <2> QED BY <2>2
<1>2. f \in [T -> T \ {n}]
  <2>1. ASSUME NEW k \in T PROVE k - 1 \in T \ {n}
    <3>1. k \in 0 .. n /\ k \notin S /\ k # 0
      OBVIOUS
    <3>2. k - 1 \in Nat /\ k - 1 + 1 = k /\ k - 1 \in 0 .. n /\ k - 1 # n
      BY <3>1
    <3>3. k - 1 \notin S
      BY <3>1, <3>2
    <3> QED BY <3>2, <3>3
  <2> QED BY <2>1
<1>3. IsFiniteSet(T \ {n}) /\ Cardinality(T \ {n}) < Cardinality(T)
  <2> HIDE DEF T
  <2>1. Cardinality(T) \in Nat
    BY <1>1, FS_CardinalityType
  <2>2. /\ IsFiniteSet(T \ {n})
        /\ Cardinality(T \ {n}) = IF n \in T THEN Cardinality(T) - 1 ELSE Cardinality(T)
    BY <1>1, FS_RemoveElement
  <2> QED BY <1>1, <2>1, <2>2
<1>4. PICK x \in T, y \in T : x # y /\ f[x] = f[y]
  <2> HIDE DEF T, f
  <2> QED BY <1>1, <1>2, <1>3, FS_PigeonHole
<1> QED BY <1>4

\* The parser has a state after each of the lines, which it reads in the one before.
LEMMA EachLineRead ==
    ASSUME NEW lines, Len(lines) \in Nat
    PROVE  /\ ReadLines(lines)[0] = [touch |-> NoTouch, events |-> <<>>]
           /\ \A n \in 1 .. Len(lines) :
                 ReadLines(lines)[n] = ReadLine(ReadLines(lines)[n - 1], lines[n])
<1> DEFINE N == Len(lines)
           first == [touch |-> NoTouch, events |-> <<>>]
           Reads(m, g) == g = [n \in 0 .. m |-> IF n = 0 THEN first
                                                ELSE ReadLine(g[n - 1], lines[n])]
           st == ReadLines(lines)
<1>1. N \in Nat
  OBVIOUS
<1>2. \A m \in Nat : \E g : Reads(m, g)
  <2> DEFINE S == {m \in Nat : \E g : Reads(m, g)}
  <2>1. 0 \in S
    <3>1. Reads(0, [n \in 0 .. 0 |-> first])
      OBVIOUS
    <3> QED BY <3>1
  <2>2. ASSUME NEW m \in Nat, m \in S PROVE m + 1 \in S
    <3>1. PICK g : Reads(m, g)
      BY <2>2
    <3> DEFINE h == [n \in 0 .. m + 1 |-> IF n = m + 1 THEN ReadLine(g[m], lines[m + 1])
                                          ELSE g[n]]
               next == [n \in 0 .. m + 1 |-> IF n = 0 THEN first
                                             ELSE ReadLine(h[n - 1], lines[n])]
    <3>2. ASSUME NEW n \in 0 .. m + 1 PROVE h[n] = next[n]
      <4>1. CASE n = 0
        <5>1. 0 \in 0 .. m + 1 /\ 0 # m + 1 /\ 0 \in 0 .. m
          OBVIOUS
        <5>2. g[0] = first
          BY <3>1, <5>1
        <5> HIDE DEF first
        <5> QED BY <4>1, <5>1, <5>2
      <4>2. CASE n \in 1 .. m
        <5>1. n # 0 /\ n # m + 1 /\ n \in 0 .. m /\ n - 1 \in 0 .. m + 1 /\ n - 1 # m + 1
          BY <4>2
        <5>2. g[n] = ReadLine(g[n - 1], lines[n])
          BY <3>1, <5>1
        <5> HIDE DEF first
        <5> QED BY <5>1, <5>2
      <4>3. CASE n = m + 1
        <5>1. n # 0 /\ n - 1 = m /\ m \in 0 .. m + 1 /\ m # m + 1
          BY <4>3
        <5> HIDE DEF first
        <5> QED BY <4>3, <5>1
      <4> QED BY <4>1, <4>2, <4>3
    <3>3. Reads(m + 1, h)
      <4>1. h = [n \in 0 .. m + 1 |-> h[n]] /\ next = [n \in 0 .. m + 1 |-> next[n]]
        OBVIOUS
      <4>2. h = next
        <5> HIDE DEF h, next
        <5> QED BY <3>2, <4>1
      <4> QED BY <4>2
    <3>4. \E x : Reads(m + 1, x)
      <4> HIDE DEF h, Reads
      <4> QED BY <3>3
    <3> HIDE DEF h, next, Reads
    <3> QED BY <3>4
  <2> HIDE DEF S
  <2>3. \A m \in Nat : m \in S
    BY <2>1, <2>2, NumbersFrom0
  <2> QED BY <2>3 DEF S
<1>3. Reads(N, st)
  <2>1. st = CHOOSE g : Reads(N, g)
    BY DEF ReadLines
  <2> HIDE DEF st, Reads
  <2> QED BY <1>1, <1>2, <2>1
<1>4. st[0] = first
  <2> HIDE DEF st, first
  <2> QED BY <1>1, <1>3
<1>5. ASSUME NEW n \in 1 .. N PROVE st[n] = ReadLine(st[n - 1], lines[n])
  <2>1. n \in 0 .. N /\ n # 0
    BY <1>1
  <2> HIDE DEF st, first
  <2> QED BY <1>3, <2>1
<1> HIDE DEF st
<1> QED BY <1>4, <1>5 DEF st

\* The events of a state are a list.
Reading(st) == DOMAIN st = {"touch", "events"} /\ \E S : st.events \in Seq(S)

LEMMA ReadOne ==
    ASSUME NEW st, Reading(st), NEW l \in Line
    PROVE  Reading(ReadLine(st, l))
<1>1. PICK S : st.events \in Seq(S)
  BY DEF Reading
<1>2. \A e : \E T : Append(st.events, e) \in Seq(T)
  <2> TAKE e
  <2>1. st.events \in Seq(S \cup {e}) /\ e \in S \cup {e}
    BY <1>1, SeqMonotonic
  <2> QED BY <2>1, AppendProperties
<1>3. CASE l.key = "move"
  <2>1. ReadLine(st, l).events = st.events /\ DOMAIN ReadLine(st, l) = DOMAIN st
    BY <1>3 DEF ReadLine, Reading
  <2> QED BY <1>1, <2>1 DEF Reading
<1>4. CASE l.key \in {"track", "down"}
  <2>1. ReadLine(st, l).events = st.events /\ DOMAIN ReadLine(st, l) = DOMAIN st
    BY <1>4 DEF ReadLine, Reading
  <2> QED BY <1>1, <2>1 DEF Reading
<1>5. CASE l.key \in {"release", "up"}
  <2>1. CASE ~st.touch.active
    BY <1>5, <2>1 DEF ReadLine
  <2>2. CASE st.touch.active
    <3>1. /\ ReadLine(st, l).events = Append(st.events, Gesture(st.touch, l))
          /\ DOMAIN ReadLine(st, l) = {"touch", "events"}
      BY <1>5, <2>2 DEF ReadLine
    <3> QED BY <1>2, <3>1 DEF Reading
  <2> QED BY <2>1, <2>2
<1>6. CASE l.key \in {"back", "home", "switch", "text"}
  <2>1. /\ ReadLine(st, l).events = Append(st.events, Event(l.key, NoPoint, NoPoint, l))
        /\ DOMAIN ReadLine(st, l) = DOMAIN st
    BY <1>6 DEF ReadLine, Reading
  <2> QED BY <1>2, <2>1 DEF Reading
<1> QED BY <1>3, <1>4, <1>5, <1>6 DEF Line, Keys

LEMMA EventsListed ==
    ASSUME NEW lines \in Seq(Line)
    PROVE  \E S : ParseRawInputEvents(lines) \in Seq(S)
<1> DEFINE N == Len(lines)
           first == [touch |-> NoTouch, events |-> <<>>]
           st == ReadLines(lines)
<1>1. N \in Nat /\ \A n \in 1 .. N : lines[n] \in Line
  BY LenProperties, ElementOfSeq
<1>2. st[0] = first /\ \A n \in 1 .. N : st[n] = ReadLine(st[n - 1], lines[n])
  BY <1>1, EachLineRead
<1>3. \A n \in Nat : n <= N => Reading(st[n])
  <2> DEFINE S == {n \in Nat : n <= N => Reading(st[n])}
  <2> HIDE DEF st
  <2>1. 0 \in S
    <3>1. st[0] = first
      BY <1>2
    <3>2. first.events \in Seq({}) /\ DOMAIN first = {"touch", "events"}
      BY EmptySeq
    <3> QED BY <3>1, <3>2 DEF Reading
  <2>2. ASSUME NEW n \in Nat, n \in S PROVE n + 1 \in S
    <3> SUFFICES ASSUME n + 1 <= N PROVE Reading(st[n + 1])
      OBVIOUS
    <3>1. n <= N /\ n + 1 \in 0 .. N /\ n + 1 # 0 /\ n + 1 - 1 = n /\ n + 1 \in 1 .. N
      BY <1>1
    <3>2. st[n + 1] = ReadLine(st[n], lines[n + 1])
      <4> HIDE DEF first
      <4> QED BY <1>2, <3>1
    <3>3. Reading(st[n])
      BY <2>2, <3>1
    <3> QED BY <1>1, <3>1, <3>2, <3>3, ReadOne
  <2> HIDE DEF S
  <2>3. \A n \in Nat : n \in S
    BY <2>1, <2>2, NumbersFrom0
  <2> QED BY <2>3 DEF S
<1>4. Reading(st[N])
  BY <1>1, <1>3
<1> QED BY <1>4 DEF Reading, ParseRawInputEvents

-----------------------------------------------------------------------------
\* A part of a sequence, picked by its positions.
LEMMA PickedPart ==
    ASSUME NEW a \in Nat \ {0}, NEW b \in Nat, a <= b + 1, NEW s
    PROVE  /\ DOMAIN Picked(s, a .. b) = 1 .. b - a + 1
           /\ \A k \in 1 .. b - a + 1 : Picked(s, a .. b)[k] = s[a + k - 1]
<1>1. Cardinality(a .. b) = b - a + 1
  <2>1. Cardinality(a .. b) = IF a > b THEN 0 ELSE b - a + 1
    BY FS_Interval
  <2> QED BY <2>1
<1>2. ASSUME NEW i \in a .. b PROVE Rank(a .. b, i) = i - a + 1
  <2>1. {j \in a .. b : j <= i} = a .. i
    OBVIOUS
  <2>2. Cardinality(a .. i) = i - a + 1
    BY FS_Interval
  <2> QED BY <2>1, <2>2 DEF Rank
<1>3. ASSUME NEW k \in 1 .. b - a + 1 PROVE InOrder(a .. b)[k] = a + k - 1
  <2>1. InOrder(a .. b)[k] = CHOOSE i \in a .. b : Rank(a .. b, i) = k
    BY <1>1 DEF InOrder
  <2>2. a + k - 1 \in a .. b /\ Rank(a .. b, a + k - 1) = k
    BY <1>2
  <2>3. \A i \in a .. b : Rank(a .. b, i) = k => i = a + k - 1
    BY <1>2
  <2> QED BY <2>1, <2>2, <2>3
<1> QED BY <1>1, <1>3 DEF Picked

\* The raw lines of the file, and those with the events of them appended.
RawFile(lines) == [k \in DOMAIN lines |-> Raw(lines[k])]
EventFile(events) == [k \in DOMAIN events |-> Stored(events[k])]
FullFile(lines) == RawFile(lines) \o EventFile(ParseRawInputEvents(lines))

Raws(f)  == {k \in DOMAIN f : f[k].kind = "raw"}
Jsons(f) == {k \in DOMAIN f : f[k].kind = "json"}
RawsIn(f)   == LinesOf(Picked(f, Raws(f)))
EventsIn(f) == [k \in DOMAIN Picked(f, Jsons(f)) |-> Picked(f, Jsons(f))[k].event]

LEMMA ReadFrom == RawLines = RawsIn(file) /\ StoredEvents = EventsIn(file)
BY DEF RawLines, StoredEvents, RawsIn, EventsIn, Raws, Jsons

\* n raw lines, then m events.
InParts(f, n, m) ==
    /\ DOMAIN f = 1 .. n + m
    /\ \A k \in 1 .. n : f[k].kind = "raw"
    /\ \A k \in n + 1 .. n + m : f[k].kind = "json"

LEMMA FileParts ==
    ASSUME NEW f, NEW n \in Nat, NEW m \in Nat, InParts(f, n, m)
    PROVE  /\ DOMAIN RawsIn(f) = 1 .. n /\ \A k \in 1 .. n : RawsIn(f)[k] = f[k].line
           /\ DOMAIN EventsIn(f) = 1 .. m /\ \A k \in 1 .. m : EventsIn(f)[k] = f[n + k].event
<1> USE DEF InParts
<1>1. Raws(f) = 1 .. n /\ Jsons(f) = n + 1 .. n + m
  <2>1. \A k \in 1 .. n + m : k \in 1 .. n \/ k \in n + 1 .. n + m
    OBVIOUS
  <2>2. \A k \in 1 .. n + m : /\ k \in 1 .. n => f[k].kind = "raw"
                              /\ k \in n + 1 .. n + m => f[k].kind = "json"
    OBVIOUS
  <2>3. 1 .. n \subseteq 1 .. n + m /\ n + 1 .. n + m \subseteq 1 .. n + m
    OBVIOUS
  <2> QED BY <2>1, <2>2, <2>3 DEF Raws, Jsons
<1>2. DOMAIN Picked(f, Raws(f)) = 1 .. n /\ \A k \in 1 .. n : Picked(f, Raws(f))[k] = f[k]
  <2>1. /\ DOMAIN Picked(f, 1 .. n) = 1 .. n - 1 + 1
        /\ \A k \in 1 .. n - 1 + 1 : Picked(f, 1 .. n)[k] = f[1 + k - 1]
    BY PickedPart
  <2>2. n - 1 + 1 = n /\ \A k \in 1 .. n : 1 + k - 1 = k
    OBVIOUS
  <2> QED BY <1>1, <2>1, <2>2
<1>3. DOMAIN Picked(f, Jsons(f)) = 1 .. m /\ \A k \in 1 .. m : Picked(f, Jsons(f))[k] = f[n + k]
  <2> DEFINE a == n + 1
             b == n + m
  <2>1. /\ DOMAIN Picked(f, a .. b) = 1 .. b - a + 1
        /\ \A k \in 1 .. b - a + 1 : Picked(f, a .. b)[k] = f[a + k - 1]
    <3>1. a \in Nat \ {0} /\ b \in Nat /\ a <= b + 1
      OBVIOUS
    <3> HIDE DEF a, b
    <3> QED BY <3>1, PickedPart
  <2>2. b - a + 1 = m /\ \A k \in 1 .. m : a + k - 1 = n + k
    OBVIOUS
  <2>3. Jsons(f) = a .. b
    BY <1>1
  <2> HIDE DEF a, b
  <2> QED BY <2>1, <2>2, <2>3
<1> QED BY <1>2, <1>3 DEF RawsIn, LinesOf, EventsIn

\* What the file holds in calm, and what an end reads of it.
LEMMA RawFileRead ==
    ASSUME NEW lines \in Seq(Line), NEW f, f = RawFile(lines)
    PROVE  /\ RawsIn(f) = lines /\ LinesOf(f) = lines /\ EventsIn(f) = <<>>
           /\ Len(f) = Len(lines) /\ DOMAIN f = 1 .. Len(lines)
<1>1. DOMAIN lines = 1 .. Len(lines) /\ Len(lines) \in Nat /\ lines = [k \in 1 .. Len(lines) |-> lines[k]]
  BY LenProperties
<1>2. /\ DOMAIN f = 1 .. Len(lines)
      /\ \A k \in 1 .. Len(lines) : f[k].kind = "raw" /\ f[k].line = lines[k]
  BY <1>1 DEF RawFile, Raw
<1>3. /\ DOMAIN RawsIn(f) = 1 .. Len(lines)
      /\ \A k \in 1 .. Len(lines) : RawsIn(f)[k] = f[k].line
      /\ DOMAIN EventsIn(f) = 1 .. 0
  <2> DEFINE n == Len(lines)
  <2>1. n \in Nat /\ DOMAIN f = 1 .. n + 0 /\ n + 1 .. n + 0 = {}
    BY <1>1, <1>2
  <2> HIDE DEF n
  <2>2. \A k \in 1 .. n : f[k].kind = "raw"
    BY <1>2 DEF n
  <2>3. InParts(f, n, 0) /\ 0 \in Nat
    BY <2>1, <2>2 DEF InParts
  <2> QED BY <2>1, <2>3, FileParts DEF n
<1>4. RawsIn(f) = lines /\ LinesOf(f) = lines /\ EventsIn(f) = <<>>
  <2>1. /\ RawsIn(f) = [k \in DOMAIN RawsIn(f) |-> RawsIn(f)[k]]
        /\ EventsIn(f) = [k \in DOMAIN EventsIn(f) |-> EventsIn(f)[k]]
    BY DEF RawsIn, LinesOf, EventsIn
  <2>2. RawsIn(f) = lines
    BY <1>1, <1>2, <1>3, <2>1
  <2>3. LinesOf(f) = lines
    BY <1>1, <1>2 DEF LinesOf
  <2>4. EventsIn(f) = <<>>
    BY <1>3, <2>1
  <2> QED BY <2>2, <2>3, <2>4
<1>5. Len(f) = Len(lines)
  <2>1. f = [k \in 1 .. Len(lines) |-> Raw(lines[k])]
    BY <1>1 DEF RawFile
  <2> QED BY <1>1, <2>1
<1> QED BY <1>2, <1>3, <1>4, <1>5

LEMMA FullFileRead ==
    ASSUME NEW lines \in Seq(Line), NEW f, f = FullFile(lines)
    PROVE  RawsIn(f) = lines /\ EventsIn(f) = ParseRawInputEvents(lines)
<1> DEFINE events == ParseRawInputEvents(lines)
           n == Len(lines)
           m == Len(events)
           raw == RawFile(lines)
           json == EventFile(events)
<1>1. n \in Nat /\ DOMAIN lines = 1 .. n /\ lines = [k \in 1 .. n |-> lines[k]]
  BY LenProperties
<1>2. m \in Nat /\ DOMAIN events = 1 .. m /\ events = [k \in 1 .. m |-> events[k]]
  <2>1. PICK S : events \in Seq(S)
    BY EventsListed
  <2> HIDE DEF events
  <2> QED BY <2>1, LenProperties
<1> HIDE DEF n, m, events
<1>3. raw = [k \in 1 .. n |-> Raw(lines[k])] /\ json = [k \in 1 .. m |-> Stored(events[k])]
  BY <1>1, <1>2 DEF RawFile, EventFile
<1>4. Len(raw) = n /\ Len(json) = m
  BY <1>1, <1>2, <1>3
<1>5. f = raw \o json
  BY DEF FullFile, events
<1> HIDE DEF raw, json
<1>6. n \in Nat /\ m \in Nat
  BY <1>1, <1>2
<1>7. /\ DOMAIN f = 1 .. n + m
      /\ \A k \in 1 .. n + m : f[k] = IF k <= n THEN raw[k] ELSE json[k - n]
  <2> DEFINE S == {raw[k] : k \in 1 .. n} \cup {json[k] : k \in 1 .. m}
  <2>1. raw \in [1 .. n -> S] /\ json \in [1 .. m -> S]
    BY <1>3
  <2> HIDE DEF S
  <2>2. raw \in Seq(S) /\ json \in Seq(S)
    BY <1>6, <2>1
  <2>3. /\ raw \o json \in Seq(S) /\ Len(raw \o json) = Len(raw) + Len(json)
        /\ \A k \in 1 .. Len(raw) + Len(json) :
             (raw \o json)[k] = IF k <= Len(raw) THEN raw[k] ELSE json[k - Len(raw)]
    BY <2>2, ConcatProperties
  <2> QED BY <1>4, <1>5, <2>3, LenProperties
<1>8. /\ \A k \in 1 .. n : raw[k] = Raw(lines[k])
      /\ \A k \in 1 .. m : json[k] = Stored(events[k])
  BY <1>3
<1>9. \A k \in 1 .. n : f[k].kind = "raw" /\ f[k].line = lines[k]
  <2> TAKE k \in 1 .. n
  <2>1. k \in 1 .. n + m /\ k <= n
    BY <1>6
  <2>2. f[k] = Raw(lines[k])
    BY <1>7, <1>8, <2>1
  <2> QED BY <2>2 DEF Raw
<1>10. \A k \in 1 .. m : f[n + k].kind = "json" /\ f[n + k].event = events[k]
  <2> TAKE k \in 1 .. m
  <2> DEFINE i == n + k
  <2>1. i \in 1 .. n + m /\ ~(i <= n) /\ i - n = k
    BY <1>6
  <2>2. f[i] = json[i - n]
    <3> HIDE DEF i
    <3> QED BY <1>7, <2>1
  <2>3. f[n + k] = Stored(events[k])
    BY <1>8, <2>1, <2>2
  <2> QED BY <2>3 DEF Stored
<1>11. \A k \in n + 1 .. n + m : f[k].kind = "json"
  <2> TAKE k \in n + 1 .. n + m
  <2>1. k - n \in 1 .. m /\ n + (k - n) = k
    BY <1>6
  <2> QED BY <1>10, <2>1
<1>12. /\ DOMAIN RawsIn(f) = 1 .. n /\ \A k \in 1 .. n : RawsIn(f)[k] = f[k].line
       /\ DOMAIN EventsIn(f) = 1 .. m /\ \A k \in 1 .. m : EventsIn(f)[k] = f[n + k].event
  <2>1. DOMAIN f = 1 .. n + m
    BY <1>7
  <2>2. \A k \in 1 .. n : f[k].kind = "raw"
    BY <1>9
  <2>3. InParts(f, n, m)
    BY <1>11, <2>1, <2>2 DEF InParts
  <2> QED BY <1>6, <2>3, FileParts
<1>13. RawsIn(f) = [k \in 1 .. n |-> lines[k]] /\ EventsIn(f) = [k \in 1 .. m |-> events[k]]
  <2>1. /\ RawsIn(f) = [k \in DOMAIN RawsIn(f) |-> RawsIn(f)[k]]
        /\ EventsIn(f) = [k \in DOMAIN EventsIn(f) |-> EventsIn(f)[k]]
    BY DEF RawsIn, LinesOf, EventsIn
  <2>2. /\ \A k \in 1 .. n : RawsIn(f)[k] = lines[k]
        /\ \A k \in 1 .. m : EventsIn(f)[k] = events[k]
    BY <1>9, <1>10, <1>12
  <2>3. RawsIn(f) = [k \in 1 .. n |-> RawsIn(f)[k]] /\ EventsIn(f) = [k \in 1 .. m |-> EventsIn(f)[k]]
    BY <1>12, <2>1
  <2> QED BY <2>2, <2>3
<1> QED BY <1>1, <1>2, <1>13 DEF events

LEMMA RawFileGrows ==
    ASSUME NEW lines \in Seq(Line), NEW l \in Line, NEW f, f = RawFile(lines)
    PROVE  Append(lines, l) \in Seq(Line) /\ Append(f, Raw(l)) = RawFile(Append(lines, l))
<1> DEFINE n == Len(lines)
           more == Append(lines, l)
<1>1. n \in Nat /\ DOMAIN lines = 1 .. n
  BY LenProperties
<1>2. /\ more \in Seq(Line) /\ DOMAIN more = 1 .. n + 1
      /\ \A k \in 1 .. n : more[k] = lines[k]
      /\ more[n + 1] = l
  BY AppendProperties, LenProperties
<1> HIDE DEF n, more
<1> DEFINE S == {Raw(more[k]) : k \in 1 .. n + 1}
<1>3. f = [k \in 1 .. n |-> Raw(more[k])]
  BY <1>1, <1>2 DEF RawFile
<1>4. \A k \in 1 .. n : Raw(more[k]) \in S
  BY <1>1
<1>5. Raw(l) \in S /\ Raw(l) = Raw(more[n + 1])
  BY <1>1, <1>2
<1> HIDE DEF S
<1>6. f \in Seq(S) /\ Len(f) = n
  <2>1. f \in [1 .. n -> S]
    BY <1>3, <1>4
  <2> QED BY <1>1, <2>1
<1> DEFINE a == Append(f, Raw(l))
           b == RawFile(more)
<1>7. a \in Seq(S) /\ Len(a) = n + 1 /\ (\A k \in 1 .. n : a[k] = f[k]) /\ a[n + 1] = Raw(l)
  BY <1>5, <1>6, AppendProperties
<1>8. b = [k \in 1 .. n + 1 |-> Raw(more[k])]
  BY <1>2 DEF RawFile
<1>9. a = [k \in 1 .. n + 1 |-> a[k]]
  BY <1>7, LenProperties
<1> HIDE DEF a, b
<1>10. ASSUME NEW k \in 1 .. n + 1 PROVE a[k] = Raw(more[k])
  <2>1. CASE k \in 1 .. n
    <3>1. f[k] = Raw(more[k])
      BY <1>3, <2>1
    <3> QED BY <1>7, <2>1, <3>1
  <2>2. CASE k = n + 1
    <3>1. a[n + 1] = Raw(more[n + 1])
      BY <1>5, <1>7
    <3> QED BY <2>2, <3>1
  <2> QED BY <1>1, <2>1, <2>2
<1>11. a = b
  BY <1>8, <1>9, <1>10
<1> QED BY <1>2, <1>11 DEF a, b, more

LEMMA NoEventsFull ==
    ASSUME NEW lines \in Seq(Line), ParseRawInputEvents(lines) = <<>>
    PROVE  FullFile(lines) = RawFile(lines)
<1> DEFINE S == {Raw(lines[k]) : k \in DOMAIN lines}
<1>1. RawFile(lines) \in Seq(S)
  <2>1. DOMAIN lines = 1 .. Len(lines) /\ Len(lines) \in Nat
    BY LenProperties
  <2>2. RawFile(lines) \in [1 .. Len(lines) -> S]
    BY <2>1 DEF RawFile
  <2> QED BY <2>1, <2>2
<1>2. EventFile(<<>>) = <<>>
  BY DEF EventFile
<1> QED BY <1>1, <1>2, ConcatEmptySeq DEF FullFile

-----------------------------------------------------------------------------
\* What the file, the steps and the flows owe to the captured lines, in calm.
Lines  == RawsIn(file)
Parsed == ParseRawInputEvents(Lines)
Mapped == MapRawEventsToRecordedSteps(Parsed).steps
AllNew == \A c \in Calls : calls[c].at = "new"
Fields == {"at", "tool", "dry", "export", "seen", "events", "mapped", "warned", "flow", "review"}

CallType(call, n) ==
    /\ DOMAIN call = Fields /\ call.flow \in 0 .. n
    /\ DOMAIN call.seen = {"status", "pid", "snap", "flow"} /\ call.seen.flow \in 0 .. n
StoreType ==
    /\ late \in Nat /\ input \in Seq(Line) /\ DOMAIN calls = Calls
    /\ \E S : flows \in Seq(S)
    /\ DOMAIN record = {"status", "pid", "snap", "flow"} /\ record.flow \in 0 .. Len(flows)
    /\ \A c \in Calls : CallType(calls[c], Len(flows))

\* A call that is past the steps is an end that has persisted them, or a cancel.
PastSteps(call) ==
    /\ call.at = "flow" => steps # NoSteps
    /\ call.at \in {"load", "write"} /\ call.tool = "end" => steps # NoSteps
    /\ call.at \in {"list", "parse", "append", "steps", "flow"} => call.tool = "end"
EndsMapped ==
    /\ record.status = "ended" => steps # NoSteps /\ ~record.pid /\ ~record.snap
    /\ \A c \in Calls : PastSteps(calls[c])

FileHolds ==
    /\ Lines \in Seq(Line)
    /\ file = RawFile(Lines) \/ file = FullFile(Lines)
    /\ AllNew => file = RawFile(Lines) /\ offset = Len(file) /\ steps = NoSteps /\ flows = <<>>
OutputsTrue ==
    /\ steps # NoSteps => Persisted = Mapped
    /\ \A k \in DOMAIN flows : flows[k] = RenderRecordedStepsAsFlow(Mapped).commands
Carries(call) ==
    /\ call.at \in {"parse", "append"} => file = RawFile(Lines)
    /\ call.at \in {"append", "steps"} => call.events = Parsed
    /\ call.at = "flow" => call.mapped = Mapped
CallsTrue ==
    /\ \A c, d \in Calls : Under(c) /\ Under(d) => c = d
    /\ \A c \in Calls : Carries(calls[c])
CalmInv == Calm => FileHolds /\ OutputsTrue /\ CallsTrue

LedgerInv == StoreType /\ EndsMapped /\ CalmInv

\* The next record of call c, which is under way; the others stay as they are.
NextCall(c) ==
    /\ DOMAIN calls' = Calls
    /\ \A d \in Calls : d # c => calls'[d] = calls[d]
    /\ CallType(calls'[c], Len(flows'))

\* One call begins or moves: what it carries is all there is to show, for in calm no other
\* is under way.
LEMMA OneMoves ==
    ASSUME LedgerInv, NEW c \in Calls, NextCall(c), calls'[c].at # "new",
           Under(c) \/ (Calm' => \A d \in Calls : ~Under(d)),
           clean' => clean, UNCHANGED <<late, input>>,
           Len(flows) <= Len(flows'), \E S : flows' \in Seq(S),
           DOMAIN record' = {"status", "pid", "snap", "flow"}, record'.flow \in 0 .. Len(flows'),
           record'.status = "ended" => steps' # NoSteps /\ ~record'.pid /\ ~record'.snap,
           steps # NoSteps => steps' # NoSteps,
           PastSteps(calls[c])',
           Calm => /\ Lines' = Lines
                   /\ file' = RawFile(Lines) \/ file' = FullFile(Lines)
                   /\ OutputsTrue'
                   /\ Carries(calls[c])'
    PROVE  LedgerInv'
<1>1. \A d \in Calls : CallType(calls'[d], Len(flows'))
  <2> SUFFICES ASSUME NEW d \in Calls, d # c PROVE CallType(calls'[d], Len(flows'))
    BY DEF NextCall
  <2>1. CallType(calls[d], Len(flows)) /\ calls'[d] = calls[d]
    BY DEF LedgerInv, StoreType, NextCall
  <2>2. Len(flows) \in Nat /\ Len(flows') \in Nat
    BY LenProperties DEF LedgerInv, StoreType
  <2>3. 0 .. Len(flows) \subseteq 0 .. Len(flows')
    BY <2>2
  <2> QED BY <2>1, <2>3 DEF CallType
<1>2. StoreType'
  BY <1>1 DEF LedgerInv, StoreType, NextCall
<1>3. EndsMapped'
  <2> SUFFICES ASSUME NEW d \in Calls, d # c PROVE PastSteps(calls[d])'
    BY DEF EndsMapped
  <2>1. PastSteps(calls[d]) /\ calls'[d] = calls[d]
    BY DEF LedgerInv, EndsMapped, NextCall
  <2> QED BY <2>1 DEF PastSteps
<1>4. ASSUME Calm' PROVE FileHolds' /\ OutputsTrue' /\ CallsTrue'
  <2>1. Calm /\ FileHolds /\ CallsTrue
    BY <1>4 DEF Calm, LedgerInv, CalmInv
  <2>2. FileHolds'
    BY <2>1 DEF FileHolds, AllNew
  <2>3. \A d \in Calls : d # c => ~Under(d)
    BY <1>4, <2>1 DEF CallsTrue
  <2>4. \A d \in Calls : d # c => ~Under(d)' /\ Carries(calls[d])'
    BY <2>3 DEF Under, Carries, NextCall
  <2>5. CallsTrue'
    BY <2>1, <2>4 DEF CallsTrue
  <2> QED BY <2>1, <2>2, <2>5
<1> QED BY <1>2, <1>3, <1>4 DEF LedgerInv, CalmInv

LEMMA LinesKept ==
    ASSUME UNCHANGED file
    PROVE  Lines' = Lines /\ Parsed' = Parsed /\ Mapped' = Mapped
BY DEF Lines, Parsed, Mapped

-----------------------------------------------------------------------------
\* What a call may rely on.
LEMMA CallKnown ==
    ASSUME LedgerInv, NEW c \in Calls
    PROVE  /\ DOMAIN calls = Calls /\ CallType(calls[c], Len(flows)) /\ DOMAIN calls[c] = Fields
           /\ Len(flows) \in Nat /\ \E S : flows \in Seq(S)
           /\ DOMAIN record = {"status", "pid", "snap", "flow"} /\ record.flow \in 0 .. Len(flows)
           /\ record.status = "ended" => steps # NoSteps /\ ~record.pid /\ ~record.snap
           /\ PastSteps(calls[c])
           /\ Calm => FileHolds /\ OutputsTrue /\ Carries(calls[c])
BY LenProperties DEF LedgerInv, StoreType, CallType, EndsMapped, CalmInv, CallsTrue

\* Nothing but the record of the call changes.
LEMMA OnlyCallMoves ==
    ASSUME LedgerInv, NEW c \in Calls, Under(c), NextCall(c), calls'[c].at # "new",
           UNCHANGED <<file, steps, flows, record, late, clean, input>>,
           PastSteps(calls[c])', Calm => Carries(calls[c])'
    PROVE  LedgerInv'
<1>1. Lines' = Lines /\ Parsed' = Parsed /\ Mapped' = Mapped
  BY LinesKept
<1>2. OutputsTrue => OutputsTrue'
  BY <1>1 DEF OutputsTrue, Persisted
<1>3. Len(flows) <= Len(flows')
  BY CallKnown
<1> QED BY <1>1, <1>2, <1>3, CallKnown, OneMoves DEF FileHolds

LEMMA Lists == ASSUME LedgerInv, NEW c \in Calls, ListEvents(c) PROVE LedgerInv'
<1> DEFINE next == IF StoredEvents = <<>> THEN "parse" ELSE "steps"
           found == StoredEvents
<1>1. calls[c].at = "list" /\ UNCHANGED <<file, steps, flows, record, late, clean, input>>
  BY DEF ListEvents, Called, device
<1>2. PICK warned \in BOOLEAN :
        calls' = [calls EXCEPT ![c].events = found, ![c].warned = warned, ![c].at = next]
  BY DEF ListEvents
<1>3. /\ DOMAIN calls = Calls /\ CallType(calls[c], Len(flows)) /\ DOMAIN calls[c] = Fields
      /\ PastSteps(calls[c])
  BY CallKnown
<1>4. \/ next = "parse" /\ found = <<>>
      \/ next = "steps" /\ found # <<>>
  OBVIOUS
<1> HIDE DEF next, found
<1>5. /\ DOMAIN calls' = Calls /\ \A d \in Calls : d # c => calls'[d] = calls[d]
      /\ DOMAIN calls'[c] = Fields /\ calls'[c].at = next /\ calls'[c].events = found
      /\ calls'[c].flow = calls[c].flow /\ calls'[c].seen = calls[c].seen
      /\ calls'[c].tool = calls[c].tool
  BY <1>2, <1>3 DEF Fields
<1>6. NextCall(c)
  BY <1>1, <1>3, <1>5 DEF NextCall, CallType
<1>7. PastSteps(calls[c])'
  BY <1>1, <1>3, <1>4, <1>5 DEF PastSteps
<1>8. ASSUME Calm PROVE Carries(calls[c])'
  <2>1. FileHolds
    BY <1>8, CallKnown
  <2>2. found = EventsIn(file)
    BY ReadFrom DEF found
  <2>3. CASE file = RawFile(Lines)
    <3>1. found = <<>>
      BY <2>1, <2>2, <2>3, RawFileRead DEF FileHolds
    <3> QED BY <1>1, <1>4, <1>5, <2>3, <3>1, LinesKept DEF Carries
  <2>4. CASE file = FullFile(Lines)
    <3>1. found = Parsed
      BY <2>1, <2>2, <2>4, FullFileRead DEF FileHolds, Parsed
    <3>2. found = <<>> => file = RawFile(Lines)
      BY <2>1, <2>4, <3>1, NoEventsFull DEF FileHolds, Parsed
    <3> QED BY <1>1, <1>4, <1>5, <3>1, <3>2, LinesKept DEF Carries
  <2> QED BY <2>1, <2>3, <2>4 DEF FileHolds
<1>9. Under(c) /\ calls'[c].at # "new"
  BY <1>1, <1>4, <1>5 DEF Under
<1> QED BY <1>1, <1>6, <1>7, <1>8, <1>9, OnlyCallMoves

LEMMA Parses == ASSUME LedgerInv, NEW c \in Calls, ParseRaw(c) PROVE LedgerInv'
<1> DEFINE events == ParseRawInputEvents(LinesOf(file))
           next == IF events = <<>> THEN "steps" ELSE "append"
<1>1. calls[c].at = "parse" /\ UNCHANGED <<file, steps, flows, record, late, clean, input>>
  BY DEF ParseRaw, Called, device
<1>2. calls' = [calls EXCEPT ![c].events = events, ![c].at = next]
  BY DEF ParseRaw
<1>3. /\ DOMAIN calls = Calls /\ CallType(calls[c], Len(flows)) /\ DOMAIN calls[c] = Fields
      /\ PastSteps(calls[c])
  BY CallKnown
<1>4. next \in {"steps", "append"}
  OBVIOUS
<1> HIDE DEF next, events
<1>5. /\ DOMAIN calls' = Calls /\ \A d \in Calls : d # c => calls'[d] = calls[d]
      /\ DOMAIN calls'[c] = Fields /\ calls'[c].at = next /\ calls'[c].events = events
      /\ calls'[c].flow = calls[c].flow /\ calls'[c].seen = calls[c].seen
      /\ calls'[c].tool = calls[c].tool
  BY <1>2, <1>3 DEF Fields
<1>6. NextCall(c)
  BY <1>1, <1>3, <1>5 DEF NextCall, CallType
<1>7. PastSteps(calls[c])'
  BY <1>1, <1>3, <1>4, <1>5 DEF PastSteps
<1>8. ASSUME Calm PROVE Carries(calls[c])'
  <2>1. FileHolds /\ file = RawFile(Lines)
    BY <1>1, <1>8, CallKnown DEF Carries
  <2>2. events = Parsed
    BY <2>1, RawFileRead DEF FileHolds, Parsed, events
  <2> QED BY <1>1, <1>4, <1>5, <2>1, <2>2, LinesKept DEF Carries
<1>9. Under(c) /\ calls'[c].at # "new"
  BY <1>1, <1>4, <1>5 DEF Under
<1> QED BY <1>1, <1>6, <1>7, <1>8, <1>9, OnlyCallMoves

\* In calm the events of the captured lines are appended to those lines.
LEMMA AppendsAll ==
    ASSUME LedgerInv, NEW c \in Calls, AppendEvents(c), Calm
    PROVE  Lines' = Lines /\ file' = FullFile(Lines)
<1>1. calls[c].at = "append" /\ file' = file \o EventFile(calls[c].events)
  BY DEF AppendEvents, Called, EventFile
<1>2. FileHolds /\ file = RawFile(Lines) /\ calls[c].events = Parsed
  BY <1>1, CallKnown DEF Carries
<1>3. file' = FullFile(Lines)
  BY <1>1, <1>2 DEF FullFile, Parsed
<1>4. Lines' = Lines
  BY <1>2, <1>3, FullFileRead DEF FileHolds, Lines
<1> QED BY <1>3, <1>4

LEMMA Appends == ASSUME LedgerInv, NEW c \in Calls, AppendEvents(c) PROVE LedgerInv'
<1>1. /\ calls[c].at = "append" /\ UNCHANGED <<steps, flows, record, late, clean, input>>
      /\ file' = file \o EventFile(calls[c].events)
      /\ calls' = [calls EXCEPT ![c].at = "steps"]
  BY DEF AppendEvents, Called, Continue, device, EventFile
<1>2. /\ DOMAIN calls = Calls /\ CallType(calls[c], Len(flows)) /\ DOMAIN calls[c] = Fields
      /\ PastSteps(calls[c])
  BY CallKnown
<1>3. /\ DOMAIN calls' = Calls /\ \A d \in Calls : d # c => calls'[d] = calls[d]
      /\ DOMAIN calls'[c] = Fields /\ calls'[c].at = "steps"
      /\ calls'[c].events = calls[c].events
      /\ calls'[c].flow = calls[c].flow /\ calls'[c].seen = calls[c].seen
      /\ calls'[c].tool = calls[c].tool
  BY <1>1, <1>2 DEF Fields
<1>4. NextCall(c)
  BY <1>1, <1>2, <1>3 DEF NextCall, CallType
<1>5. PastSteps(calls[c])'
  BY <1>1, <1>2, <1>3 DEF PastSteps
<1>6. ASSUME Calm
      PROVE  Lines' = Lines /\ file' = FullFile(Lines) /\ OutputsTrue' /\ Carries(calls[c])'
  <2>1. FileHolds /\ OutputsTrue /\ calls[c].events = Parsed
    BY <1>1, <1>6, CallKnown DEF Carries
  <2>2. Lines' = Lines /\ file' = FullFile(Lines)
    BY <1>6, AppendsAll
  <2>4. Parsed' = Parsed /\ Mapped' = Mapped
    BY <2>2 DEF Parsed, Mapped
  <2>5. OutputsTrue'
    BY <1>1, <2>1, <2>4 DEF OutputsTrue, Persisted
  <2>6. Carries(calls[c])'
    BY <1>3, <2>1, <2>4 DEF Carries
  <2> QED BY <2>2, <2>5, <2>6
<1>7. Under(c) /\ calls'[c].at # "new" /\ Len(flows) <= Len(flows')
  BY <1>1, <1>3, CallKnown DEF Under
<1> QED BY <1>1, <1>4, <1>5, <1>6, <1>7, CallKnown, OneMoves

LEMMA Persists == ASSUME LedgerInv, NEW c \in Calls, PersistSteps(c) PROVE LedgerInv'
<1> DEFINE mapped == MapRawEventsToRecordedSteps(calls[c].events)
           made == mapped.steps
           next == IF calls[c].export THEN "flow" ELSE "load"
           review == \/ calls[c].warned \/ mapped.warnings > 0
                     \/ \E k \in DOMAIN mapped.steps : mapped.steps[k].conf = "low"
<1>1. /\ calls[c].at = "steps" /\ UNCHANGED <<file, flows, record, late, clean, input>>
      /\ steps' = <<made>>
      /\ calls' = [calls EXCEPT ![c].mapped = made, ![c].events = <<>>, ![c].warned = FALSE,
                                ![c].review = review, ![c].at = next]
  BY DEF PersistSteps, Called, device
<1>2. /\ DOMAIN calls = Calls /\ CallType(calls[c], Len(flows)) /\ DOMAIN calls[c] = Fields
      /\ PastSteps(calls[c])
  BY CallKnown
<1>3. next \in {"flow", "load"}
  OBVIOUS
<1> HIDE DEF mapped, made, next, review
<1>4. /\ DOMAIN calls' = Calls /\ \A d \in Calls : d # c => calls'[d] = calls[d]
      /\ DOMAIN calls'[c] = Fields /\ calls'[c].at = next /\ calls'[c].mapped = made
      /\ calls'[c].flow = calls[c].flow /\ calls'[c].seen = calls[c].seen
      /\ calls'[c].tool = calls[c].tool
  BY <1>1, <1>2 DEF Fields
<1>5. NextCall(c)
  BY <1>1, <1>2, <1>4 DEF NextCall, CallType
<1>6. steps' # NoSteps /\ PastSteps(calls[c])'
  BY <1>1, <1>2, <1>3, <1>4 DEF PastSteps, NoSteps
<1>7. ASSUME Calm
      PROVE  Lines' = Lines /\ FileHolds /\ OutputsTrue' /\ Carries(calls[c])'
  <2>1. FileHolds /\ OutputsTrue /\ made = Mapped
    BY <1>1, <1>7, CallKnown DEF Carries, Mapped, made, mapped
  <2>2. Lines' = Lines /\ Mapped' = Mapped
    BY <1>1, LinesKept
  <2>3. Persisted' = made
    BY <1>1 DEF Persisted
  <2>4. OutputsTrue'
    BY <1>1, <2>1, <2>2, <2>3 DEF OutputsTrue
  <2>5. Carries(calls[c])'
    BY <1>3, <1>4, <2>1, <2>2 DEF Carries
  <2> QED BY <2>1, <2>2, <2>4, <2>5
<1>8. Under(c) /\ calls'[c].at # "new" /\ Len(flows) <= Len(flows')
  BY <1>1, <1>3, <1>4, CallKnown DEF Under
<1> QED BY <1>1, <1>5, <1>6, <1>7, <1>8, CallKnown, OneMoves DEF FileHolds

LEMMA Writes == ASSUME LedgerInv, NEW c \in Calls, WriteFlow(c) PROVE LedgerInv'
<1> DEFINE flow == RenderRecordedStepsAsFlow(calls[c].mapped)
           made == flow.commands
           n == Len(flows) + 1
           review == calls[c].review \/ flow.warnings > 0
<1>1. /\ calls[c].at = "flow" /\ UNCHANGED <<file, steps, record, late, clean, input>>
      /\ flows' = Append(flows, made)
      /\ calls' = [calls EXCEPT ![c].at = "load", ![c].mapped = <<>>, ![c].flow = n,
                                ![c].review = review]
  BY DEF WriteFlow, Called, device
<1>2. /\ DOMAIN calls = Calls /\ CallType(calls[c], Len(flows)) /\ DOMAIN calls[c] = Fields
      /\ PastSteps(calls[c]) /\ Len(flows) \in Nat
      /\ record.flow \in 0 .. Len(flows)
  BY CallKnown
<1> HIDE DEF flow, made, review
<1>3. /\ Len(flows') = n /\ DOMAIN flows' = 1 .. n /\ DOMAIN flows = 1 .. Len(flows)
      /\ \E S : flows' \in Seq(S)
      /\ \A k \in 1 .. Len(flows) : flows'[k] = flows[k]
      /\ flows'[n] = made
  <2>1. PICK S : flows \in Seq(S)
    BY CallKnown
  <2>2. flows \in Seq(S \cup {made}) /\ made \in S \cup {made}
    BY <2>1, SeqMonotonic
  <2> QED BY <1>1, <2>2, AppendProperties, LenProperties
<1> HIDE DEF n
<1>4. /\ DOMAIN calls' = Calls /\ \A d \in Calls : d # c => calls'[d] = calls[d]
      /\ DOMAIN calls'[c] = Fields /\ calls'[c].at = "load"
      /\ calls'[c].flow = n /\ calls'[c].seen = calls[c].seen
      /\ calls'[c].tool = calls[c].tool
  BY <1>1, <1>2 DEF Fields
<1>5. Len(flows) <= Len(flows') /\ n \in 0 .. n /\ 0 .. Len(flows) \subseteq 0 .. n
  BY <1>2, <1>3 DEF n
<1>6. NextCall(c) /\ record'.flow \in 0 .. Len(flows')
  BY <1>1, <1>2, <1>3, <1>4, <1>5 DEF NextCall, CallType
<1>7. PastSteps(calls[c])'
  BY <1>1, <1>2, <1>4 DEF PastSteps
<1>8. ASSUME Calm
      PROVE  Lines' = Lines /\ FileHolds /\ OutputsTrue' /\ Carries(calls[c])'
  <2>1. FileHolds /\ OutputsTrue /\ made = RenderRecordedStepsAsFlow(Mapped).commands
    BY <1>1, <1>8, CallKnown DEF Carries, made, flow
  <2>2. Lines' = Lines /\ Mapped' = Mapped
    BY <1>1, LinesKept
  <2>3. \A k \in 1 .. n : k \in 1 .. Len(flows) \/ k = n
    BY <1>2 DEF n
  <2>4. OutputsTrue'
    BY <1>1, <1>3, <2>1, <2>2, <2>3 DEF OutputsTrue, Persisted
  <2>5. Carries(calls[c])'
    BY <1>4 DEF Carries
  <2> QED BY <2>1, <2>2, <2>4, <2>5
<1>9. Under(c) /\ calls'[c].at # "new"
  BY <1>1, <1>4 DEF Under
<1> QED BY <1>1, <1>3, <1>5, <1>6, <1>7, <1>8, <1>9, CallKnown, OneMoves DEF FileHolds

LEMMA Loads == ASSUME LedgerInv, NEW c \in Calls, LoadRecord(c) PROVE LedgerInv'
<1>1. /\ calls[c].at = "load" /\ UNCHANGED <<file, steps, flows, record, late, clean, input>>
      /\ calls' = [calls EXCEPT ![c].at = "write", ![c].seen = record]
  BY DEF LoadRecord, Called, device
<1>2. /\ DOMAIN calls = Calls /\ CallType(calls[c], Len(flows)) /\ DOMAIN calls[c] = Fields
      /\ PastSteps(calls[c])
      /\ DOMAIN record = {"status", "pid", "snap", "flow"} /\ record.flow \in 0 .. Len(flows)
  BY CallKnown
<1>3. /\ DOMAIN calls' = Calls /\ \A d \in Calls : d # c => calls'[d] = calls[d]
      /\ DOMAIN calls'[c] = Fields /\ calls'[c].at = "write"
      /\ calls'[c].flow = calls[c].flow /\ calls'[c].seen = record
      /\ calls'[c].tool = calls[c].tool
  BY <1>1, <1>2 DEF Fields
<1>4. NextCall(c)
  BY <1>1, <1>2, <1>3 DEF NextCall, CallType
<1>5. PastSteps(calls[c])' /\ Carries(calls[c])'
  BY <1>1, <1>2, <1>3 DEF PastSteps, Carries
<1>6. Under(c) /\ calls'[c].at # "new"
  BY <1>1, <1>3 DEF Under
<1> QED BY <1>1, <1>4, <1>5, <1>6, OnlyCallMoves

LEMMA WritesRecord == ASSUME LedgerInv, NEW c \in Calls, WriteRecord(c) PROVE LedgerInv'
<1>1. /\ calls[c].at = "write" /\ UNCHANGED <<file, steps, flows, late, clean, input>>
      /\ calls' = [calls EXCEPT ![c] = [calls[c] EXCEPT
             !.at = "done", !.tool = "none", !.export = FALSE, !.seen = NoRecord, !.mapped = <<>>]]
      /\ record' = IF calls[c].tool = "end"
                   THEN [status |-> "ended", pid |-> FALSE, snap |-> FALSE, flow |-> calls[c].flow]
                   ELSE [calls[c].seen EXCEPT !.status = "cancelled", !.pid = FALSE, !.snap = FALSE]
  BY DEF WriteRecord, Called, Finish, device
<1>2. /\ DOMAIN calls = Calls /\ CallType(calls[c], Len(flows)) /\ DOMAIN calls[c] = Fields
      /\ PastSteps(calls[c]) /\ Len(flows) \in Nat
  BY CallKnown
<1>3. /\ DOMAIN calls' = Calls /\ \A d \in Calls : d # c => calls'[d] = calls[d]
      /\ DOMAIN calls'[c] = Fields /\ calls'[c].at = "done"
      /\ calls'[c].flow = calls[c].flow /\ calls'[c].seen = NoRecord
  BY <1>1, <1>2 DEF Fields
<1>4. NextCall(c)
  BY <1>1, <1>2, <1>3 DEF NextCall, CallType, NoRecord
<1>5. /\ DOMAIN record' = {"status", "pid", "snap", "flow"} /\ record'.flow \in 0 .. Len(flows)
      /\ record'.status = "ended" => steps # NoSteps /\ ~record'.pid /\ ~record'.snap
  <2>1. CASE calls[c].tool = "end"
    <3>1. record' = [status |-> "ended", pid |-> FALSE, snap |-> FALSE, flow |-> calls[c].flow]
      BY <1>1, <2>1
    <3>2. steps # NoSteps
      BY <1>1, <1>2, <2>1 DEF PastSteps
    <3> QED BY <1>2, <3>1, <3>2 DEF CallType
  <2>2. CASE calls[c].tool # "end"
    <3> DEFINE seen == calls[c].seen
    <3>1. record' = [seen EXCEPT !.status = "cancelled", !.pid = FALSE, !.snap = FALSE]
      BY <1>1, <2>2
    <3>2. DOMAIN seen = {"status", "pid", "snap", "flow"} /\ seen.flow \in 0 .. Len(flows)
      BY <1>2 DEF CallType
    <3> HIDE DEF seen
    <3> QED BY <3>1, <3>2
  <2> QED BY <2>1, <2>2
<1>6. PastSteps(calls[c])' /\ Carries(calls[c])'
  BY <1>3 DEF PastSteps, Carries
<1>7. Lines' = Lines /\ (OutputsTrue => OutputsTrue')
  BY <1>1, LinesKept DEF OutputsTrue, Persisted
<1>8. Under(c) /\ calls'[c].at # "new" /\ Len(flows) <= Len(flows')
  BY <1>1, <1>2, <1>3 DEF Under
<1> QED BY <1>1, <1>4, <1>5, <1>6, <1>7, <1>8, CallKnown, OneMoves DEF FileHolds

LEMMA Begins ==
    ASSUME LedgerInv, NEW c \in Calls,
           BeginCancel(c) \/ \E dry, export \in BOOLEAN : BeginEnd(c, dry, export)
    PROVE  LedgerInv'
<1>1. /\ calls[c].at = "new" /\ UNCHANGED <<file, steps, flows, record, late, input>>
      /\ clean' => clean /\ Busy = {}
  BY DEF BeginCancel, BeginEnd, Called, device
<1>2. /\ DOMAIN calls = Calls /\ Len(flows) \in Nat
      /\ record.flow \in 0 .. Len(flows) /\ Len(flows) <= Len(flows')
  BY <1>1, CallKnown
<1>3. PICK call :
        /\ calls' = [calls EXCEPT ![c] = call]
        /\ DOMAIN call = Fields /\ call.flow = 0 /\ call.seen = NoRecord
        /\ \/ call.at = "list" /\ call.tool = "end"
           \/ call.at = "load" /\ call.tool = "cancel"
  <2>1. CASE BeginCancel(c)
    <3> DEFINE call == [NewCall EXCEPT !.at = "load", !.tool = "cancel"]
    <3>1. calls' = [calls EXCEPT ![c] = call]
      BY <2>1 DEF BeginCancel
    <3>2. DOMAIN call = Fields /\ call.flow = 0 /\ call.seen = NoRecord
          /\ call.at = "load" /\ call.tool = "cancel"
      BY DEF NewCall, Fields
    <3> HIDE DEF call
    <3> QED BY <3>1, <3>2
  <2>2. ASSUME NEW dry \in BOOLEAN, NEW export \in BOOLEAN, BeginEnd(c, dry, export)
        PROVE  \E call : /\ calls' = [calls EXCEPT ![c] = call]
                         /\ DOMAIN call = Fields /\ call.flow = 0 /\ call.seen = NoRecord
                         /\ call.at = "list" /\ call.tool = "end"
    <3> DEFINE call == [NewCall EXCEPT !.at = "list", !.tool = "end", !.dry = dry,
                                       !.export = export]
    <3>1. calls' = [calls EXCEPT ![c] = call]
      BY <2>2 DEF BeginEnd
    <3>2. DOMAIN call = Fields /\ call.flow = 0 /\ call.seen = NoRecord
          /\ call.at = "list" /\ call.tool = "end"
      BY DEF NewCall, Fields
    <3> HIDE DEF call
    <3> QED BY <3>1, <3>2
  <2> QED BY <2>1, <2>2
<1>4. /\ DOMAIN calls' = Calls /\ \A d \in Calls : d # c => calls'[d] = calls[d]
      /\ calls'[c] = call
  BY <1>2, <1>3
<1>5. NextCall(c) /\ calls'[c].at # "new"
  BY <1>1, <1>2, <1>3, <1>4 DEF NextCall, CallType, NoRecord
<1>6. PastSteps(calls[c])' /\ Carries(calls[c])'
  BY <1>3, <1>4 DEF PastSteps, Carries
<1>7. Lines' = Lines /\ (OutputsTrue => OutputsTrue')
  BY <1>1, LinesKept DEF OutputsTrue, Persisted
<1>8. Calm' => \A d \in Calls : ~Under(d)
  BY <1>1 DEF Calm, Busy, Under
<1> QED BY <1>1, <1>2, <1>5, <1>6, <1>7, <1>8, CallKnown, OneMoves DEF FileHolds

\* Neither the file nor the calls change.
LEMMA StoresKept ==
    ASSUME LedgerInv, UNCHANGED <<file, offset, steps, flows, calls, late, clean, input>>,
           DOMAIN record' = {"status", "pid", "snap", "flow"}, record'.flow \in 0 .. Len(flows),
           record'.status = "ended" => steps # NoSteps /\ ~record'.pid /\ ~record'.snap
    PROVE  LedgerInv'
<1>1. StoreType' /\ EndsMapped'
  BY DEF LedgerInv, StoreType, EndsMapped, PastSteps
<1>2. Lines' = Lines /\ Parsed' = Parsed /\ Mapped' = Mapped
  BY LinesKept
<1>3. FileHolds => FileHolds'
  BY <1>2 DEF FileHolds, AllNew
<1>4. OutputsTrue => OutputsTrue'
  BY <1>2 DEF OutputsTrue, Persisted
<1>5. CallsTrue => CallsTrue'
  BY <1>2 DEF CallsTrue, Under, Carries
<1>6. Calm' => Calm
  BY DEF Calm
<1> QED BY <1>1, <1>3, <1>4, <1>5, <1>6 DEF LedgerInv, CalmInv

LEMMA Starts ==
    ASSUME LedgerInv, StartCapture \/ StartSnapshot \/ PersistStarted \/ CaptureDies
    PROVE  LedgerInv'
<1>1. UNCHANGED <<file, offset, steps, flows, calls, late, clean, input>>
  BY DEF StartCapture, StartSnapshot, PersistStarted, CaptureDies, device
<1>2. /\ DOMAIN record = {"status", "pid", "snap", "flow"} /\ record.flow \in 0 .. Len(flows)
      /\ record.status = "ended" => steps # NoSteps /\ ~record.pid /\ ~record.snap
      /\ Len(flows) \in Nat
  BY LenProperties DEF LedgerInv, StoreType, EndsMapped
<1>3. CASE UNCHANGED record
  BY <1>1, <1>2, <1>3, StoresKept
<1>4. CASE record' = [status |-> "running", pid |-> capture # "none",
                      snap |-> snapshot # "none", flow |-> 0]
  <2>1. /\ DOMAIN record' = {"status", "pid", "snap", "flow"}
        /\ record'.flow = 0 /\ record'.status # "ended"
    BY <1>4
  <2> QED BY <1>1, <1>2, <2>1, StoresKept
<1> QED BY <1>3, <1>4 DEF StartCapture, StartSnapshot, PersistStarted, CaptureDies

\* In calm a line is only captured before the first call: it goes to the end of the file.
LEMMA CaptureAdds ==
    ASSUME LedgerInv, Capture, Calm'
    PROVE  /\ Calm /\ AllNew /\ steps = NoSteps /\ flows = <<>>
           /\ Head(input) \in Line /\ Lines \in Seq(Line) /\ offset = Len(file)
           /\ Lines' = Append(Lines, Head(input)) /\ file' = RawFile(Append(Lines, Head(input)))
           /\ Len(file') = Len(file) + 1
<1> DEFINE l == Head(input)
           more == Append(Lines, l)
<1>1. /\ input # <<>> /\ file' = WriteAt(file, offset + 1, Raw(l))
      /\ ((AllNew /\ late' = late) \/ late' = late + 1)
      /\ late' = 0 /\ clean
  BY DEF Capture, AllNew, Calm
<1>2. late \in Nat /\ l \in Line /\ late = 0
  BY <1>1, HeadTailProperties DEF LedgerInv, StoreType
<1> HIDE DEF l
<1>3. /\ Lines \in Seq(Line) /\ file = RawFile(Lines) /\ offset = Len(file)
      /\ steps = NoSteps /\ flows = <<>> /\ Calm
  BY <1>1, <1>2 DEF LedgerInv, CalmInv, Calm, FileHolds
<1>4. Len(file) \in Nat
  BY <1>3, RawFileRead, LenProperties
<1>5. file' = Append(file, Raw(l))
  <2>1. offset + 1 > Len(file)
    BY <1>3, <1>4
  <2>2. WriteAt(file, offset + 1, Raw(l)) = Append(file, Raw(l))
    BY <2>1 DEF WriteAt
  <2> QED BY <1>1, <2>2
<1>6. more \in Seq(Line) /\ file' = RawFile(more)
  BY <1>2, <1>3, <1>5, RawFileGrows
<1>7. Len(more) = Len(Lines) + 1
  BY <1>2, <1>3, AppendProperties
<1> HIDE DEF more
<1>8. Lines' = more /\ Len(file') = Len(more) /\ Len(file) = Len(Lines)
  BY <1>3, <1>6, RawFileRead DEF Lines
<1> QED BY <1>1, <1>2, <1>3, <1>6, <1>7, <1>8 DEF more, l

LEMMA Captures == ASSUME LedgerInv, Capture PROVE LedgerInv'
<1>1. /\ input # <<>> /\ offset' = offset + 1 /\ input' = Tail(input)
      /\ UNCHANGED <<record, steps, flows, calls, clean>>
      /\ late' = late \/ late' = late + 1
  BY DEF Capture
<1>2. late \in Nat /\ input' \in Seq(Line)
  BY <1>1, HeadTailProperties DEF LedgerInv, StoreType
<1>3. StoreType' /\ EndsMapped'
  BY <1>1, <1>2 DEF LedgerInv, StoreType, EndsMapped, PastSteps
<1>4. ASSUME Calm' PROVE FileHolds' /\ OutputsTrue' /\ CallsTrue'
  <2> DEFINE more == Append(Lines, Head(input))
  <2>1. /\ AllNew /\ steps = NoSteps /\ flows = <<>> /\ offset = Len(file)
        /\ Lines' = more /\ file' = RawFile(more) /\ Len(file') = Len(file) + 1
    BY <1>4, CaptureAdds
  <2>2. more \in Seq(Line)
    BY <1>4, CaptureAdds, AppendProperties
  <2> HIDE DEF more
  <2>3. FileHolds'
    BY <1>1, <2>1, <2>2 DEF FileHolds, NoSteps
  <2>4. OutputsTrue'
    BY <1>1, <2>1 DEF OutputsTrue, NoSteps
  <2>5. CallsTrue'
    BY <1>1, <2>1 DEF CallsTrue, AllNew, Under, Carries
  <2> QED BY <2>3, <2>4, <2>5
<1> QED BY <1>3, <1>4 DEF LedgerInv, CalmInv

LEMMA Crashes == ASSUME LedgerInv, Crash PROVE LedgerInv'
<1>1. UNCHANGED <<file, offset, steps, flows, record, late, clean, input>>
  BY DEF Crash, device
<1>2. /\ DOMAIN calls' = Calls
      /\ \A c \in Calls : \/ calls'[c] = calls[c] /\ ~Under(c)
                          \/ Under(c) /\ calls'[c] = [NewCall EXCEPT !.at = "done"]
  BY DEF Crash, Under
<1>3. Len(flows) \in Nat
  BY LenProperties DEF LedgerInv, StoreType
<1> DEFINE gone == [NewCall EXCEPT !.at = "done"]
<1>4. /\ DOMAIN gone = Fields /\ gone.flow = 0 /\ gone.at = "done"
      /\ gone.seen = [status |-> "none", pid |-> FALSE, snap |-> FALSE, flow |-> 0]
  BY DEF NewCall, Fields, NoRecord
<1> HIDE DEF gone
<1>5. CallType(gone, Len(flows)) /\ PastSteps(gone) /\ Carries(gone)
  BY <1>3, <1>4 DEF CallType, PastSteps, Carries
<1>6. \A c \in Calls : \/ calls'[c] = calls[c] /\ ~Under(c)
                       \/ Under(c) /\ calls'[c] = gone
  BY <1>2 DEF gone
<1>7. Lines' = Lines /\ Parsed' = Parsed /\ Mapped' = Mapped
  BY <1>1, LinesKept
<1>8. StoreType'
  <2>1. \A c \in Calls : CallType(calls'[c], Len(flows))
    BY <1>5, <1>6 DEF LedgerInv, StoreType
  <2> QED BY <1>1, <1>2, <2>1 DEF LedgerInv, StoreType
<1>9. EndsMapped'
  <2>1. \A c \in Calls : PastSteps(calls[c])'
    BY <1>1, <1>4, <1>6 DEF LedgerInv, EndsMapped, PastSteps
  <2> QED BY <1>1, <2>1 DEF LedgerInv, EndsMapped
<1>10. ASSUME Calm' PROVE FileHolds' /\ OutputsTrue' /\ CallsTrue'
  <2>1. FileHolds /\ OutputsTrue /\ CallsTrue
    BY <1>1, <1>10 DEF LedgerInv, CalmInv, Calm
  <2>2. AllNew' => AllNew
    BY <1>4, <1>6 DEF AllNew
  <2>3. FileHolds'
    BY <1>1, <1>7, <2>1, <2>2 DEF FileHolds
  <2>4. OutputsTrue'
    BY <1>1, <1>7, <2>1 DEF OutputsTrue, Persisted
  <2>5. \A c \in Calls : ~Under(c)' /\ Carries(calls[c])'
    BY <1>4, <1>6 DEF Under, Carries
  <2> QED BY <2>3, <2>4, <2>5 DEF CallsTrue
<1> QED BY <1>8, <1>9, <1>10 DEF LedgerInv, CalmInv

-----------------------------------------------------------------------------
LEMMA LedgerInit == ASSUME RecordingAssumption, Init PROVE LedgerInv
<1>1. input \in Seq(Line) /\ late = 0 /\ flows = <<>> /\ file = <<>> /\ offset = 0
      /\ steps = NoSteps /\ calls = [c \in Calls |-> NewCall] /\ record = NoRecord
  BY DEF Init, RecordingAssumption
<1>2. flows \in Seq({}) /\ Len(flows) = 0 /\ <<>> \in Seq(Line) /\ Len(file) = 0
  BY <1>1, EmptySeq
<1>3. CallType(NewCall, 0)
  BY DEF CallType, NewCall, Fields, NoRecord
<1>4. StoreType
  BY <1>1, <1>2, <1>3 DEF StoreType, NoRecord
<1>5. EndsMapped
  BY <1>1 DEF EndsMapped, PastSteps, NewCall, NoRecord
<1>6. RawFile(<<>>) = <<>>
  BY DEF RawFile
<1>7. Lines = <<>>
  BY <1>1, <1>2, <1>6, RawFileRead DEF Lines
<1>8. FileHolds
  BY <1>1, <1>2, <1>6, <1>7 DEF FileHolds
<1>9. OutputsTrue /\ CallsTrue
  BY <1>1 DEF OutputsTrue, CallsTrue, Under, Carries, NewCall
<1> QED BY <1>4, <1>5, <1>8, <1>9 DEF LedgerInv, CalmInv

LEMMA LedgerNext == LedgerInv /\ [Next]_vars => LedgerInv'
<1> SUFFICES ASSUME LedgerInv, [Next]_vars PROVE LedgerInv'
  OBVIOUS
<1>1. CASE UNCHANGED vars
  <2>1. UNCHANGED <<file, offset, steps, flows, calls, late, clean, input, record>>
    BY <1>1 DEF vars, device
  <2>2. /\ DOMAIN record = {"status", "pid", "snap", "flow"} /\ record.flow \in 0 .. Len(flows)
        /\ record.status = "ended" => steps # NoSteps /\ ~record.pid /\ ~record.snap
    BY DEF LedgerInv, StoreType, EndsMapped
  <2> QED BY <2>1, <2>2, StoresKept
<1>2. CASE Next
  BY <1>2, Starts, Captures, Crashes, Begins, Lists, Parses, Appends, Persists, Writes, Loads,
     WritesRecord DEF Next
<1> QED BY <1>1, <1>2

\* However often a recording is ended, and wherever the server died in an earlier attempt,
\* the persisted steps are those of the captured lines, as long as the calls came one at a
\* time: for any lines and any number of calls (recording-runtime.ts:417-562).
THEOREM RetriesEndAlike == Spec => []RetriedEndSameSteps
<1>1. Init => LedgerInv
  BY RecordingAssumption, LedgerInit
<1>2. LedgerInv => RetriedEndSameSteps
  BY ReadFrom DEF LedgerInv, CalmInv, OutputsTrue, Mapped, Parsed, Lines, RetriedEndSameSteps
<1> QED BY <1>1, <1>2, LedgerNext, PTL DEF Spec

\* A recording that says it ended has its steps and names no process, whatever calls
\* overlapped; in calm the flow it names is the export of those steps
\* (recording-runtime.ts:549-697).
THEOREM EndsComplete == Spec => []EndedIsComplete
<1>1. Init => LedgerInv
  BY RecordingAssumption, LedgerInit
<1>2. LedgerInv => EndedIsComplete
  <2> SUFFICES ASSUME LedgerInv, record.status = "ended" PROVE EndedIsComplete
    BY DEF EndedIsComplete
  <2>1. steps # NoSteps /\ ~record.pid /\ ~record.snap
    BY DEF LedgerInv, EndsMapped
  <2>2. ASSUME Calm, record.flow # 0
        PROVE  flows[record.flow] = RenderRecordedStepsAsFlow(Persisted).commands
    <3>1. OutputsTrue /\ Persisted = Mapped
      BY <2>1, <2>2 DEF LedgerInv, CalmInv, OutputsTrue
    <3>2. record.flow \in DOMAIN flows
      BY <2>2, LenProperties DEF LedgerInv, StoreType
    <3> QED BY <3>1, <3>2 DEF OutputsTrue
  <2> QED BY <2>1, <2>2 DEF EndedIsComplete
<1> QED BY <1>1, <1>2, LedgerNext, PTL DEF Spec

-----------------------------------------------------------------------------
\* A function of a state and a number, gone through from a: the states it leads to.
Rule(F, A, N) == F \in [A \X (1 .. N) -> A]
Runs(g, A, a, N, F) ==
    /\ g \in [0 .. N -> A] /\ g[0] = a
    /\ \A n \in 1 .. N : g[n] = F[<<g[n - 1], n>>]

LEMMA Recursion ==
    ASSUME NEW A, NEW a \in A, NEW N \in Nat, NEW F, Rule(F, A, N)
    PROVE  \E g : Runs(g, A, a, N, F)
<1> DEFINE Leads(m, g) == /\ g \in [0 .. m -> A] /\ g[0] = a
                          /\ \A n \in 1 .. m : g[n] = F[<<g[n - 1], n>>]
           S == {m \in Nat : m <= N => \E g : Leads(m, g)}
<1>1. 0 \in S
  <2>1. Leads(0, [n \in 0 .. 0 |-> a])
    OBVIOUS
  <2> QED BY <2>1
<1>2. ASSUME NEW m \in Nat, m \in S PROVE m + 1 \in S
  <2> SUFFICES ASSUME m + 1 <= N PROVE \E g : Leads(m + 1, g)
    OBVIOUS
  <2>1. m <= N /\ m + 1 \in 1 .. N
    OBVIOUS
  <2>2. PICK g : Leads(m, g)
    BY <1>2, <2>1
  <2> DEFINE h == [n \in 0 .. m + 1 |-> IF n = m + 1 THEN F[<<g[m], m + 1>>] ELSE g[n]]
  <2>3. g \in [0 .. m -> A] /\ g[m] \in A /\ F[<<g[m], m + 1>>] \in A
    BY <2>1, <2>2 DEF Rule
  <2>4. h \in [0 .. m + 1 -> A] /\ h[0] = a
    BY <2>2, <2>3
  <2>5. ASSUME NEW n \in 1 .. m + 1 PROVE h[n] = F[<<h[n - 1], n>>]
    <3>1. n - 1 \in 0 .. m /\ n - 1 # m + 1 /\ h[n - 1] = g[n - 1]
      OBVIOUS
    <3>2. CASE n = m + 1
      <4>1. h[m + 1] = F[<<g[m], m + 1>>] /\ n - 1 = m
        BY <3>2
      <4> HIDE DEF h
      <4> QED BY <3>1, <3>2, <4>1
    <3>3. CASE n \in 1 .. m
      BY <2>2, <3>1, <3>3
    <3> QED BY <3>2, <3>3
  <2> HIDE DEF h
  <2>6. Leads(m + 1, h)
    BY <2>4, <2>5
  <2> QED BY <2>6
<1> HIDE DEF S, Leads
<1>3. N \in S
  BY <1>1, <1>2, NumbersFrom0
<1>4. PICK g : Leads(N, g)
  BY <1>3 DEF S
<1> QED BY <1>4 DEF Leads, Runs

-----------------------------------------------------------------------------
\* What Flat gathers of the first sequences of s.
Gathers(s, N, g) ==
    /\ DOMAIN g = 0 .. N /\ g[0] = <<>>
    /\ \A n \in 1 .. N : g[n] = g[n - 1] \o s[n]

SameUpTo(s, t, N) == \A n \in 1 .. N : s[n] = t[n]

LEMMA GathersOnce ==
    ASSUME NEW s, NEW t, NEW N \in Nat, NEW M \in Nat, N <= M, SameUpTo(s, t, N),
           NEW g, Gathers(s, N, g), NEW h, Gathers(t, M, h)
    PROVE  \A n \in 0 .. N : g[n] = h[n]
<1> DEFINE S == {n \in Nat : n <= N => g[n] = h[n]}
<1>1. 0 \in S
  BY DEF Gathers
<1>2. ASSUME NEW n \in Nat, n \in S PROVE n + 1 \in S
  <2> SUFFICES ASSUME n + 1 <= N PROVE g[n + 1] = h[n + 1]
    OBVIOUS
  <2>1. n + 1 \in 1 .. N /\ n + 1 \in 1 .. M /\ n + 1 - 1 = n /\ n <= N
    OBVIOUS
  <2>2. g[n + 1] = g[n] \o s[n + 1] /\ h[n + 1] = h[n] \o t[n + 1]
    <3> DEFINE k == n + 1
    <3>1. k \in 1 .. N /\ k \in 1 .. M /\ k - 1 = n
      BY <2>1
    <3> HIDE DEF k
    <3>2. g[k] = g[k - 1] \o s[k]
      BY <3>1 DEF Gathers
    <3>3. h[k] = h[k - 1] \o t[k]
      BY <3>1 DEF Gathers
    <3> QED BY <3>1, <3>2, <3>3 DEF k
  <2>4. s[n + 1] = t[n + 1]
    BY <2>1 DEF SameUpTo
  <2>5. g[n] = h[n]
    BY <1>2, <2>1
  <2> QED BY <2>2, <2>4, <2>5
<1> HIDE DEF S
<1>3. \A n \in Nat : n \in S
  BY <1>1, <1>2, NumbersFrom0
<1> QED BY <1>3 DEF S

LEMMA FlatGathers ==
    ASSUME NEW A, NEW s \in Seq(Seq(A))
    PROVE  \E g \in [0 .. Len(s) -> Seq(A)] : Gathers(s, Len(s), g) /\ Flat(s) = g[Len(s)]
<1> DEFINE N == Len(s)
           F == [x \in Seq(A) \X (1 .. N) |-> x[1] \o s[x[2]]]
           Eq(g) == g = [n \in 0 .. N |-> IF n = 0 THEN <<>> ELSE g[n - 1] \o s[n]]
<1>1. N \in Nat /\ \A n \in 1 .. N : s[n] \in Seq(A)
  BY LenProperties, ElementOfSeq
<1>2. F \in [Seq(A) \X (1 .. N) -> Seq(A)]
  BY <1>1, ConcatProperties
<1>3. <<>> \in Seq(A)
  BY EmptySeq
<1>4. PICK g \in [0 .. N -> Seq(A)] : g[0] = <<>> /\ \A n \in 1 .. N : g[n] = F[<<g[n - 1], n>>]
  <2> DEFINE B == Seq(A)
  <2>1. N \in Nat /\ Rule(F, B, N) /\ <<>> \in B
    BY <1>1, <1>2, <1>3 DEF Rule
  <2> HIDE DEF F, N, B
  <2>2. PICK g : Runs(g, B, <<>>, N, F)
    BY <2>1, Recursion
  <2> QED BY <2>2 DEF B, Runs
<1>5. Gathers(s, N, g)
  <2>1. ASSUME NEW n \in 1 .. N PROVE g[n] = g[n - 1] \o s[n]
    <3>1. n - 1 \in 0 .. N
      BY <1>1
    <3>2. g[n - 1] \in Seq(A)
      BY <1>4, <3>1
    <3>3. F[<<g[n - 1], n>>] = g[n - 1] \o s[n]
      BY <3>2
    <3> HIDE DEF F
    <3> QED BY <1>4, <3>3
  <2>2. DOMAIN g = 0 .. N
    BY <1>4
  <2> QED BY <1>4, <2>1, <2>2 DEF Gathers
<1>6. \A x : Gathers(s, N, x) /\ x = [n \in 0 .. N |-> x[n]] => Eq(x)
  <2> TAKE x
  <2> HAVE Gathers(s, N, x) /\ x = [n \in 0 .. N |-> x[n]]
  <2> DEFINE y == [n \in 0 .. N |-> IF n = 0 THEN <<>> ELSE x[n - 1] \o s[n]]
  <2>1. \A n \in 0 .. N : x[n] = y[n]
    BY <1>1 DEF Gathers
  <2>2. y = [n \in 0 .. N |-> y[n]]
    OBVIOUS
  <2> HIDE DEF y, N
  <2>3. x = y
    BY <2>1, <2>2
  <2> QED BY <2>3 DEF y
<1>7. \A x : Eq(x) => Gathers(s, N, x)
  <2> TAKE x
  <2> HAVE Eq(x)
  <2>1. 0 \in 0 .. N /\ \A n \in 1 .. N : n \in 0 .. N /\ n # 0
    BY <1>1
  <2> HIDE DEF N
  <2> QED BY <2>1 DEF Gathers
<1> DEFINE f == CHOOSE x : Eq(x)
<1>8. Flat(s) = f[N]
  BY DEF Flat
<1>9. g = [n \in 0 .. N |-> g[n]]
  BY <1>4
<1> HIDE DEF N, F, Eq
<1>10. Eq(g)
  BY <1>5, <1>6, <1>9
<1>11. Eq(f)
  BY <1>10
<1> HIDE DEF f
<1>12. Gathers(s, N, f)
  BY <1>7, <1>11
<1>13. f[N] = g[N]
  <2>1. SameUpTo(s, s, N) /\ N <= N /\ N \in 0 .. N
    BY <1>1 DEF SameUpTo
  <2>2. \A n \in 0 .. N : f[n] = g[n]
    BY <1>1, <1>5, <1>12, <2>1, GathersOnce
  <2> QED BY <2>1, <2>2
<1> QED BY <1>4, <1>5, <1>8, <1>13 DEF N

LEMMA FlatOfNone == Flat(<<>>) = <<>>
<1>1. <<>> \in Seq(Seq({})) /\ Len(<<>>) = 0
  BY EmptySeq
<1>2. PICK g \in [0 .. 0 -> Seq({})] : Gathers(<<>>, 0, g) /\ Flat(<<>>) = g[0]
  BY <1>1, FlatGathers
<1> QED BY <1>2 DEF Gathers

LEMMA FlatAppend ==
    ASSUME NEW A, NEW s \in Seq(Seq(A)), NEW x \in Seq(A)
    PROVE  /\ Flat(s) \in Seq(A) /\ Append(s, x) \in Seq(Seq(A))
           /\ Flat(Append(s, x)) = Flat(s) \o x
<1> DEFINE t == Append(s, x)
<1>1. /\ t \in Seq(Seq(A)) /\ Len(t) = Len(s) + 1 /\ t[Len(s) + 1] = x
      /\ SameUpTo(s, t, Len(s))
  BY AppendProperties DEF SameUpTo
<1>2. Len(s) \in Nat
  BY LenProperties
<1> HIDE DEF t
<1>3. PICK g \in [0 .. Len(s) -> Seq(A)] : Gathers(s, Len(s), g) /\ Flat(s) = g[Len(s)]
  BY FlatGathers
<1>4. PICK h \in [0 .. Len(t) -> Seq(A)] : Gathers(t, Len(t), h) /\ Flat(t) = h[Len(t)]
  BY <1>1, FlatGathers
<1>5. g[Len(s)] = h[Len(s)]
  <2> DEFINE N == Len(s)
             M == Len(t)
  <2>1. N \in Nat /\ M \in Nat /\ N <= M /\ N \in 0 .. N
    BY <1>1, <1>2
  <2>2. Gathers(s, N, g) /\ Gathers(t, M, h) /\ SameUpTo(s, t, N)
    BY <1>1, <1>3, <1>4
  <2> HIDE DEF N, M
  <2>3. \A n \in 0 .. N : g[n] = h[n]
    BY <2>1, <2>2, GathersOnce
  <2> QED BY <2>1, <2>3 DEF N
<1>6. h[Len(t)] = h[Len(s)] \o x
  <2>1. Len(t) \in 1 .. Len(t) /\ Len(t) - 1 = Len(s)
    BY <1>1, <1>2
  <2>2. h[Len(t)] = h[Len(t) - 1] \o t[Len(t)]
    BY <1>4, <2>1 DEF Gathers
  <2> QED BY <1>1, <2>1, <2>2
<1>7. g[Len(s)] \in Seq(A)
  <2>1. Len(s) \in 0 .. Len(s)
    BY <1>2
  <2> QED BY <1>3, <2>1
<1> QED BY <1>1, <1>3, <1>4, <1>5, <1>6, <1>7 DEF t

-----------------------------------------------------------------------------
\* A set of sequences with the empty one and all that are one longer is all of them.
LEMMA SeqInduction ==
    ASSUME NEW A, NEW P, <<>> \in P, \A s \in Seq(A), x \in A : s \in P => Append(s, x) \in P
    PROVE  \A s \in Seq(A) : s \in P
<1> DEFINE S == {n \in Nat : \A s \in Seq(A) : Len(s) = n => s \in P}
<1>1. 0 \in S
  BY EmptySeq
<1>2. ASSUME NEW n \in Nat, n \in S PROVE n + 1 \in S
  <2> SUFFICES ASSUME NEW s \in Seq(A), Len(s) = n + 1 PROVE s \in P
    OBVIOUS
  <2> DEFINE front == SubSeq(s, 1, n)
  <2>1. s[n + 1] \in A /\ \A i \in 1 .. n : s[i] \in A
    BY ElementOfSeq
  <2>2. front \in Seq(A) /\ Len(front) = n /\ \A i \in 1 .. n : front[i] = s[i]
    <3>1. n - 1 + 1 = n /\ (1 <= n \/ n = 0)
      OBVIOUS
    <3>2. /\ front \in Seq(A) /\ Len(front) = IF 1 <= n THEN n - 1 + 1 ELSE 0
          /\ \A i \in 1 .. n - 1 + 1 : front[i] = s[1 + i - 1]
      BY <2>1, SubSeqProperties
    <3> QED BY <3>1, <3>2
  <2> HIDE DEF front
  <2>3. s = Append(front, s[n + 1])
    <3> DEFINE t == Append(front, s[n + 1])
    <3>1. t \in Seq(A) /\ Len(t) = n + 1 /\ \A i \in 1 .. n : t[i] = s[i]
      BY <2>1, <2>2, AppendProperties
    <3>2. t[n + 1] = s[n + 1]
      BY <2>1, <2>2, AppendProperties
    <3> HIDE DEF t
    <3>3. \A i \in 1 .. Len(s) : s[i] = t[i]
      BY <3>1, <3>2
    <3>4. s = t
      BY <3>1, <3>3, SeqEqual
    <3> QED BY <3>4 DEF t
  <2>4. front \in P
    BY <1>2, <2>2
  <2> QED BY <2>1, <2>2, <2>3, <2>4
<1> HIDE DEF S
<1>3. \A n \in Nat : n \in S
  BY <1>1, <1>2, NumbersFrom0
<1> QED BY <1>3, LenProperties DEF S

\* What is kept of a sequence that grows.
KeptOf(x, T) == IF x \in T THEN <<x>> ELSE <<>>

LEMMA KeptNone == \A T : Kept(<<>>, T) = <<>>
<1> TAKE T
<1>1. [k \in DOMAIN <<>> |-> IF <<>>[k] \in T THEN <<<<>>[k]>> ELSE <<>>] = <<>>
  OBVIOUS
<1> QED BY <1>1, FlatOfNone DEF Kept

Marks(s, T) == [k \in DOMAIN s |-> KeptOf(s[k], T)]

LEMMA MarksSeq ==
    ASSUME NEW A, NEW s \in Seq(A), NEW T
    PROVE  /\ Marks(s, T) \in Seq(Seq(A)) /\ Kept(s, T) = Flat(Marks(s, T))
           /\ Len(Marks(s, T)) = Len(s)
<1>1. Len(s) \in Nat /\ DOMAIN s = 1 .. Len(s) /\ \A k \in 1 .. Len(s) : s[k] \in A
  BY LenProperties, ElementOfSeq
<1>2. \A x \in A : KeptOf(x, T) \in Seq(A)
  BY DEF KeptOf
<1>3. Marks(s, T) \in [1 .. Len(s) -> Seq(A)]
  BY <1>1, <1>2 DEF Marks
<1>4. Marks(s, T) \in Seq(Seq(A)) /\ Len(Marks(s, T)) = Len(s)
  BY <1>1, <1>3
<1> QED BY <1>4 DEF Kept, Marks, KeptOf

LEMMA KeptAppend ==
    ASSUME NEW A, NEW s \in Seq(A), NEW x \in A, NEW T
    PROVE  /\ Kept(s, T) \in Seq(A)
           /\ Kept(Append(s, x), T) = Kept(s, T) \o KeptOf(x, T)
<1> DEFINE t == Append(s, x)
           m == Marks(s, T)
           a == Append(m, KeptOf(x, T))
<1>1. /\ t \in Seq(A) /\ Len(t) = Len(s) + 1 /\ t[Len(s) + 1] = x
      /\ \A k \in 1 .. Len(s) : t[k] = s[k]
  BY AppendProperties
<1>2. m \in Seq(Seq(A)) /\ Len(m) = Len(s) /\ KeptOf(x, T) \in Seq(A)
  BY MarksSeq DEF KeptOf
<1>3. Len(s) \in Nat /\ DOMAIN s = 1 .. Len(s) /\ DOMAIN t = 1 .. Len(s) + 1
  BY <1>1, LenProperties
<1>4. /\ a \in Seq(Seq(A)) /\ Len(a) = Len(m) + 1 /\ a[Len(m) + 1] = KeptOf(x, T)
      /\ \A k \in 1 .. Len(m) : a[k] = m[k]
  BY <1>2, AppendProperties
<1>5. Marks(t, T) \in Seq(Seq(A)) /\ Len(Marks(t, T)) = Len(s) + 1
  BY <1>1, MarksSeq
<1>6. \A k \in 1 .. Len(s) + 1 : Marks(t, T)[k] = a[k]
  <2> SUFFICES ASSUME NEW k \in 1 .. Len(s) + 1 PROVE Marks(t, T)[k] = a[k]
    OBVIOUS
  <2> HIDE DEF t, a
  <2>1. Marks(t, T)[k] = KeptOf(t[k], T)
    BY <1>3 DEF Marks
  <2>2. CASE k = Len(s) + 1
    BY <1>1, <1>2, <1>4, <2>1, <2>2
  <2>3. CASE k \in 1 .. Len(s)
    <3>1. m[k] = KeptOf(s[k], T)
      BY <1>3, <2>3 DEF Marks
    <3> QED BY <1>1, <1>2, <1>4, <2>1, <2>3, <3>1
  <2> QED BY <1>3, <2>2, <2>3
<1> HIDE DEF t, m, a
<1>7. Marks(t, T) = a
  BY <1>2, <1>4, <1>5, <1>6, SeqEqual
<1>8. Kept(t, T) = Flat(a) /\ Kept(s, T) = Flat(m)
  BY <1>1, <1>7, MarksSeq DEF m
<1>9. Flat(a) = Flat(m) \o KeptOf(x, T) /\ Flat(m) \in Seq(A)
  BY <1>2, FlatAppend DEF a
<1> QED BY <1>8, <1>9 DEF t

LEMMA KeptType ==
    ASSUME NEW A, NEW s \in Seq(A), NEW T
    PROVE  Kept(s, T) \in Seq(A)
<1>1. CASE A = {}
  <2>1. Kept(<<>>, T) \in Seq(A)
    BY KeptNone, EmptySeq
  <2>2. s = <<>>
    <3>1. Len(s) = 0
      BY <1>1, LenProperties, ElementOfSeq
    <3> QED BY <3>1
  <2> QED BY <2>1, <2>2
<1>2. CASE A # {}
  BY <1>2, KeptAppend
<1> QED BY <1>1, <1>2

LEMMA AppendOfConcat ==
    ASSUME NEW A, NEW s \in Seq(A), NEW t \in Seq(A), NEW x \in A
    PROVE  /\ s \o t \in Seq(A) /\ s \o Append(t, x) = Append(s \o t, x)
           /\ Append(s, x) = s \o <<x>>
<1> DEFINE one == <<x>>
<1>1. one \in Seq(A)
  OBVIOUS
<1>2. Append(s, x) = s \o one /\ Append(t, x) = t \o one
  BY AppendIsConcat
<1>3. s \o t \in Seq(A)
  BY ConcatProperties
<1>4. Append(s \o t, x) = (s \o t) \o one
  <2> DEFINE u == s \o t
  <2> HIDE DEF u
  <2>1. u \in Seq(A)
    BY <1>3 DEF u
  <2>2. Append(u, x) = u \o <<x>>
    BY <2>1, AppendIsConcat
  <2> QED BY <2>2 DEF u
<1> HIDE DEF one
<1>5. (s \o t) \o one = s \o (t \o one)
  BY <1>1, ConcatAssociative
<1> QED BY <1>2, <1>3, <1>4, <1>5 DEF one

LEMMA KeptConcat ==
    ASSUME NEW A, NEW s \in Seq(A), NEW t \in Seq(A), NEW T
    PROVE  Kept(s \o t, T) = Kept(s, T) \o Kept(t, T)
<1> DEFINE P == {u \in Seq(A) : Kept(s \o u, T) = Kept(s, T) \o Kept(u, T)}
<1>1. <<>> \in P
  <2>1. s \o <<>> = s /\ <<>> \in Seq(A)
    BY ConcatEmptySeq, EmptySeq
  <2>2. Kept(s, T) \o <<>> = Kept(s, T)
    BY KeptType, ConcatEmptySeq
  <2> QED BY <2>1, <2>2, KeptNone
<1>2. ASSUME NEW u \in Seq(A), NEW x \in A, u \in P PROVE Append(u, x) \in P
  <2> DEFINE k == KeptOf(x, T)
             v == s \o u
             w == Append(u, x)
  <2>1. k \in Seq(A) /\ Kept(s, T) \in Seq(A) /\ Kept(u, T) \in Seq(A)
    BY KeptType DEF KeptOf
  <2>2. v \in Seq(A) /\ w \in Seq(A) /\ s \o w = Append(v, x)
    BY AppendOfConcat, AppendProperties
  <2>3. Kept(w, T) = Kept(u, T) \o k
    BY KeptAppend
  <2>4. Kept(v, T) = Kept(s, T) \o Kept(u, T)
    BY <1>2
  <2> HIDE DEF v, w
  <2>5. Kept(Append(v, x), T) = Kept(v, T) \o k
    BY <2>2, KeptAppend
  <2> HIDE DEF k
  <2>6. (Kept(s, T) \o Kept(u, T)) \o k = Kept(s, T) \o (Kept(u, T) \o k)
    BY <2>1, ConcatAssociative
  <2>7. Kept(s \o w, T) = Kept(s, T) \o Kept(w, T)
    BY <2>2, <2>3, <2>4, <2>5, <2>6
  <2> QED BY <2>2, <2>7 DEF w
<1> HIDE DEF P
<1>3. t \in P
  BY <1>1, <1>2, SeqInduction
<1> QED BY <1>3 DEF P

\* How many are kept.
Where(s, T) == {k \in DOMAIN s : s[k] \in T}

LEMMA KeptCounts ==
    ASSUME NEW A, NEW s \in Seq(A), NEW T
    PROVE  Cardinality(Where(s, T)) = Len(Kept(s, T)) /\ Len(Kept(s, T)) \in Nat
<1> DEFINE P == {u \in Seq(A) : Cardinality(Where(u, T)) = Len(Kept(u, T))}
<1>1. <<>> \in P
  <2>1. <<>> \in Seq(A) /\ Len(<<>>) = 0 /\ Kept(<<>>, T) = <<>>
    BY EmptySeq, KeptNone
  <2>2. Where(<<>>, T) = {}
    BY DEF Where
  <2> QED BY <2>1, <2>2, FS_EmptySet
<1>2. ASSUME NEW u \in Seq(A), NEW x \in A, u \in P PROVE Append(u, x) \in P
  <2> DEFINE w == Append(u, x)
             n == Len(u)
             W == Where(u, T)
  <2>1. /\ w \in Seq(A) /\ Len(w) = n + 1 /\ w[n + 1] = x
        /\ \A k \in 1 .. n : w[k] = u[k]
    BY AppendProperties
  <2>2. n \in Nat /\ DOMAIN u = 1 .. n /\ DOMAIN w = 1 .. n + 1
    BY <2>1, LenProperties
  <2>3. IsFiniteSet(W) /\ W \subseteq 1 .. n /\ n + 1 \notin W
    <3>1. W \in SUBSET (1 .. n) /\ IsFiniteSet(1 .. n)
      BY <2>2, FS_Interval DEF Where
    <3> HIDE DEF W, n
    <3>2. IsFiniteSet(W)
      BY <3>1, FS_Subset
    <3>3. n + 1 \notin 1 .. n
      BY <2>2
    <3> QED BY <3>1, <3>2, <3>3
  <2> HIDE DEF w
  <2>4. Where(w, T) = IF x \in T THEN W \cup {n + 1} ELSE W
    BY <2>1, <2>2 DEF Where
  <2>5. Kept(w, T) = Kept(u, T) \o KeptOf(x, T) /\ Kept(u, T) \in Seq(A)
    BY KeptAppend DEF w
  <2>6. Cardinality(W) = Len(Kept(u, T))
    BY <1>2
  <2> HIDE DEF W
  <2>7. Cardinality(Where(w, T)) = Len(Kept(w, T))
    <3>1. CASE x \notin T
      <4>1. Kept(w, T) = Kept(u, T)
        BY <2>5, <3>1, ConcatEmptySeq DEF KeptOf
      <4> QED BY <2>4, <2>6, <3>1, <4>1
    <3>2. CASE x \in T
      <4>1. Kept(w, T) = Append(Kept(u, T), x)
        BY <2>5, <3>2, AppendIsConcat DEF KeptOf
      <4>2. Len(Kept(w, T)) = Len(Kept(u, T)) + 1
        BY <2>5, <4>1, AppendProperties
      <4>3. Cardinality(W \cup {n + 1}) = Cardinality(W) + 1
        BY <2>3, FS_AddElement
      <4> QED BY <2>4, <2>6, <3>2, <4>2, <4>3
    <3> QED BY <3>1, <3>2
  <2> QED BY <2>1, <2>7 DEF w
<1> HIDE DEF P
<1>3. s \in P
  BY <1>1, <1>2, SeqInduction
<1>4. Len(Kept(s, T)) \in Nat
  BY KeptType, LenProperties
<1> QED BY <1>3, <1>4 DEF P

-----------------------------------------------------------------------------
\* A field of the elements of a sequence that grows.
FieldOf(s, f) == [k \in DOMAIN s |-> s[k][f]]
HasField(A, f, B) == \A y \in A : y[f] \in B

LEMMA FieldAppend ==
    ASSUME NEW A, NEW B, NEW f, HasField(A, f, B), NEW s \in Seq(A), NEW x \in A
    PROVE  /\ FieldOf(s, f) \in Seq(B) /\ Len(FieldOf(s, f)) = Len(s)
           /\ FieldOf(Append(s, x), f) = Append(FieldOf(s, f), x[f])
<1> DEFINE t == Append(s, x)
           m == FieldOf(s, f)
           a == Append(m, x[f])
<1>1. /\ t \in Seq(A) /\ Len(t) = Len(s) + 1 /\ t[Len(s) + 1] = x
      /\ \A k \in 1 .. Len(s) : t[k] = s[k]
  BY AppendProperties
<1>2. Len(s) \in Nat /\ DOMAIN s = 1 .. Len(s) /\ \A k \in 1 .. Len(s) : s[k] \in A
  BY LenProperties, ElementOfSeq
<1>3. DOMAIN t = 1 .. Len(s) + 1 /\ \A k \in 1 .. Len(s) + 1 : t[k] \in A
  BY <1>1, LenProperties, ElementOfSeq
<1>4. m \in Seq(B) /\ Len(m) = Len(s) /\ \A k \in 1 .. Len(s) : m[k] = s[k][f]
  <2>1. m \in [1 .. Len(s) -> B]
    BY <1>2 DEF FieldOf, HasField
  <2> QED BY <1>2, <2>1 DEF FieldOf
<1>5. /\ FieldOf(t, f) \in Seq(B) /\ Len(FieldOf(t, f)) = Len(s) + 1
      /\ \A k \in 1 .. Len(s) + 1 : FieldOf(t, f)[k] = t[k][f]
  <2> HIDE DEF t
  <2>1. FieldOf(t, f) \in [1 .. Len(s) + 1 -> B]
    BY <1>3 DEF FieldOf, HasField
  <2> QED BY <1>2, <1>3, <2>1 DEF FieldOf
<1> HIDE DEF t, m
<1>6. x[f] \in B
  BY DEF HasField
<1>7. /\ a \in Seq(B) /\ Len(a) = Len(m) + 1 /\ a[Len(m) + 1] = x[f]
      /\ \A k \in 1 .. Len(m) : a[k] = m[k]
  BY <1>4, <1>6, AppendProperties
<1> HIDE DEF a
<1>8. \A k \in 1 .. Len(s) + 1 : FieldOf(t, f)[k] = a[k]
  <2> SUFFICES ASSUME NEW k \in 1 .. Len(s) + 1 PROVE FieldOf(t, f)[k] = a[k]
    OBVIOUS
  <2>1. FieldOf(t, f)[k] = t[k][f]
    BY <1>5
  <2>2. CASE k = Len(s) + 1
    BY <1>1, <1>4, <1>7, <2>1, <2>2
  <2>3. CASE k \in 1 .. Len(s)
    BY <1>1, <1>4, <1>7, <2>1, <2>3
  <2> QED BY <1>2, <2>2, <2>3
<1>9. FieldOf(t, f) = a
  BY <1>4, <1>5, <1>7, <1>8, SeqEqual
<1> QED BY <1>4, <1>9 DEF t, m, a

LEMMA FieldNone == \A f : FieldOf(<<>>, f) = <<>>
BY DEF FieldOf

LEMMA TextField == \A s : TextOf(s) = FieldOf(s, "text")
BY DEF TextOf, FieldOf

Spoken == Texts \ {"none"}

\* The text of steps or commands that grow.
LEMMA TextAppend ==
    ASSUME NEW A, \A y \in A : y.text \in Seq(Spoken), NEW s \in Seq(A), NEW x \in A
    PROVE  /\ Flat(TextOf(s)) \in Seq(Spoken)
           /\ Flat(TextOf(Append(s, x))) = Flat(TextOf(s)) \o x.text
<1> DEFINE m == FieldOf(s, "text")
<1>1. HasField(A, "text", Seq(Spoken))
  BY DEF HasField
<1>2. m \in Seq(Seq(Spoken)) /\ FieldOf(Append(s, x), "text") = Append(m, x["text"])
  BY <1>1, FieldAppend
<1>3. x["text"] \in Seq(Spoken)
  OBVIOUS
<1> HIDE DEF m
<1>4. Flat(m) \in Seq(Spoken) /\ Flat(Append(m, x["text"])) = Flat(m) \o x["text"]
  BY <1>2, <1>3, FlatAppend
<1> QED BY <1>2, <1>4, TextField DEF m

LEMMA TextType ==
    ASSUME NEW A, \A y \in A : y.text \in Seq(Spoken), NEW s \in Seq(A)
    PROVE  Flat(TextOf(s)) \in Seq(Spoken)
<1>1. CASE A = {}
  <2>1. s = <<>>
    <3>1. Len(s) = 0
      BY <1>1, LenProperties, ElementOfSeq
    <3> QED BY <3>1
  <2>2. TextOf(<<>>) = <<>>
    BY DEF TextOf
  <2> QED BY <2>1, <2>2, FlatOfNone, EmptySeq
<1>2. CASE A # {}
  BY <1>2, TextAppend
<1> QED BY <1>1, <1>2

\* The elements whose field is of some kind.
Of(s, f, T) == Kept(FieldOf(s, f), T)

LEMMA OfAppend ==
    ASSUME NEW A, NEW B, NEW f, HasField(A, f, B), NEW s \in Seq(A), NEW x \in A, NEW T
    PROVE  /\ Of(s, f, T) \in Seq(B)
           /\ Of(Append(s, x), f, T) = Of(s, f, T) \o KeptOf(x[f], T)
           /\ Len(Of(s, f, T)) \in Nat
           /\ Len(Of(Append(s, x), f, T)) = Len(Of(s, f, T)) + IF x[f] \in T THEN 1 ELSE 0
<1> DEFINE m == FieldOf(s, f)
           y == x[f]
           k == Kept(m, T)
<1>1. m \in Seq(B) /\ FieldOf(Append(s, x), f) = Append(m, x[f]) /\ y \in B
  <2>1. y \in B
    BY DEF HasField
  <2>2. m \in Seq(B) /\ FieldOf(Append(s, x), f) = Append(m, x[f])
    BY FieldAppend
  <2> QED BY <2>1, <2>2
<1> HIDE DEF m, y
<1>2. k \in Seq(B) /\ Kept(Append(m, y), T) = k \o KeptOf(y, T)
  BY <1>1, KeptAppend
<1> HIDE DEF k
<1>3. Len(k) \in Nat
  BY <1>2, LenProperties
<1>4. Len(k \o KeptOf(y, T)) = Len(k) + IF y \in T THEN 1 ELSE 0
  <2>1. CASE y \in T
    <3>1. k \o KeptOf(y, T) = Append(k, y)
      BY <1>1, <1>2, <2>1, AppendIsConcat DEF KeptOf
    <3>2. Len(Append(k, y)) = Len(k) + 1
      BY <1>1, <1>2, AppendProperties
    <3> QED BY <2>1, <3>1, <3>2
  <2>2. CASE y \notin T
    <3>1. k \o KeptOf(y, T) = k
      BY <1>2, <2>2, ConcatEmptySeq DEF KeptOf
    <3> QED BY <1>3, <2>2, <3>1
  <2> QED BY <2>1, <2>2
<1> QED BY <1>1, <1>2, <1>3, <1>4 DEF Of, m, y, k

LEMMA OfNone == \A f, T : Of(<<>>, f, T) = <<>>
BY FieldNone, KeptNone DEF Of

\* SMT does not know what Append makes of a single element.
LEMMA Pair == ASSUME NEW A, NEW x \in A, NEW y \in A PROVE Append(<<x>>, y) = <<x, y>>
<1>1. /\ <<x>> \in Seq(A) /\ Len(<<x>>) = 1 /\ <<x>>[1] = x
      /\ <<x, y>> \in Seq(A) /\ Len(<<x, y>>) = 2 /\ <<x, y>>[1] = x /\ <<x, y>>[2] = y
  OBVIOUS
<1> DEFINE a == <<x>>
           b == <<x, y>>
           t == Append(a, y)
<1> HIDE DEF a, b
<1>2. t \in Seq(A) /\ Len(t) = 2 /\ t[1] = x /\ t[2] = y
  BY <1>1, AppendProperties DEF a
<1> HIDE DEF t
<1>3. \A i \in 1 .. Len(t) : t[i] = b[i]
  BY <1>1, <1>2 DEF b
<1>4. b \in Seq(A) /\ Len(b) = 2
  BY <1>1 DEF b
<1>5. t = b
  BY <1>2, <1>3, <1>4, SeqEqual
<1> QED BY <1>5 DEF t, b, a

-----------------------------------------------------------------------------
\* The steps of a recording, and the commands they export to.
Gestures == {"tap", "swipe"}
Doing    == {"tap", "tap_element", "swipe"}
Steps    == [act : Doing \cup {"type", "wait", "launch"}, conf : {"low", "medium", "high"},
             target : Targets, p : Nat, q : Nat, text : Seq(Spoken)]
Cmds     == [act : Gestures \cup {"focus", "text", "assert", "launch"}, target : Targets,
             p : Nat, q : Nat, text : Seq(Spoken)]
CommandsOf(ss) == [k \in DOMAIN ss |-> Commands(ss[k])]
Full(ss) == \A k \in DOMAIN ss : Commands(ss[k]) # <<>>

\* A step exports to nothing, to one command, or to the focus before a text.
LEMMA CommandsShape ==
    ASSUME NEW s \in Steps, Commands(s) # <<>>
    PROVE  \/ \E c \in Cmds : /\ Commands(s) = <<c>> /\ c.text = s.text
                              /\ c.act \in Gestures <=> s.act \in Doing
           \/ \E b, c \in Cmds : /\ Commands(s) = <<b, c>> /\ b.text = <<>> /\ c.text = s.text
                                 /\ b.act \notin Gestures /\ c.act \notin Gestures
                                 /\ s.act \notin Doing
<1>1. \A act \in Gestures \cup {"focus", "text", "assert", "launch"} :
        /\ Command(act, s) \in Cmds
        /\ Command(act, s).text = s.text /\ Command(act, s).act = act
  BY DEF Command, Cmds, Steps
<1>2. CASE s.act = "launch"
  <2>1. Commands(s) = <<Command("launch", s)>>
    BY <1>2 DEF Commands
  <2> QED BY <1>1, <1>2, <2>1 DEF Gestures, Doing
<1>3. CASE s.act = "tap_element"
  <2>1. Commands(s) = <<Command("tap", s)>>
    BY <1>3 DEF Commands
  <2> QED BY <1>1, <1>3, <2>1 DEF Gestures, Doing
<1>4. CASE s.act = "tap"
  <2>1. Commands(s) = <<Command("tap", s)>>
    BY <1>4 DEF Commands
  <2> QED BY <1>1, <1>4, <2>1 DEF Gestures, Doing
<1>5. CASE s.act = "swipe"
  <2>1. Commands(s) = <<Command("swipe", s)>>
    BY <1>5 DEF Commands
  <2> QED BY <1>1, <1>5, <2>1 DEF Gestures, Doing
<1>6. CASE s.act = "wait"
  <2>1. Commands(s) = <<Command("assert", s)>>
    BY <1>6 DEF Commands
  <2> QED BY <1>1, <1>6, <2>1 DEF Gestures, Doing
<1>7. CASE s.act = "type"
  <2> DEFINE bare == [s EXCEPT !.text = <<>>]
             b == Command("focus", bare)
             c == Command("text", s)
  <2>1. c \in Cmds /\ c.text = s.text /\ c.act = "text"
    BY <1>1
  <2>2. b \in Cmds /\ b.text = <<>> /\ b.act = "focus"
    BY EmptySeq DEF Command, Cmds, Steps
  <2>3. Commands(s) = IF s.target = "none" THEN <<c>> ELSE <<b, c>>
    BY <1>7 DEF Commands
  <2> HIDE DEF b, c
  <2>4. CASE s.target = "none"
    <3>1. Commands(s) = <<c>>
      BY <2>3, <2>4
    <3> QED BY <1>7, <2>1, <3>1 DEF Gestures, Doing
  <2>5. CASE s.target # "none"
    <3>1. Commands(s) = <<b, c>>
      BY <2>3, <2>5
    <3> QED BY <1>7, <2>1, <2>2, <3>1 DEF Gestures, Doing
  <2> QED BY <2>4, <2>5
<1> QED BY <1>2, <1>3, <1>4, <1>5, <1>6, <1>7 DEF Steps, Doing

LEMMA CommandsType ==
    ASSUME NEW s \in Steps
    PROVE  Commands(s) \in Seq(Cmds)
<1>1. CASE Commands(s) = <<>>
  BY <1>1, EmptySeq
<1>2. ASSUME NEW c \in Cmds, Commands(s) = <<c>> PROVE Commands(s) \in Seq(Cmds)
  BY <1>2
<1>3. ASSUME NEW b \in Cmds, NEW c \in Cmds, Commands(s) = <<b, c>> PROVE Commands(s) \in Seq(Cmds)
  BY <1>3
<1> QED BY <1>1, <1>2, <1>3, CommandsShape

\* An export to which every step gives something has the text of the steps, and a gesture
\* for each that is one.
LEMMA Renders ==
    ASSUME NEW ss \in Seq(Steps), Full(ss)
    PROVE  /\ Flat(CommandsOf(ss)) \in Seq(Cmds)
           /\ Flat(TextOf(Flat(CommandsOf(ss)))) = Flat(TextOf(ss))
           /\ Len(Of(Flat(CommandsOf(ss)), "act", Gestures)) = Len(Of(ss, "act", Doing))
<1> DEFINE Good(u) ==
             /\ CommandsOf(u) \in Seq(Seq(Cmds)) /\ Flat(CommandsOf(u)) \in Seq(Cmds)
             /\ Flat(TextOf(Flat(CommandsOf(u)))) = Flat(TextOf(u))
             /\ Len(Of(Flat(CommandsOf(u)), "act", Gestures)) = Len(Of(u, "act", Doing))
           P == {u \in Seq(Steps) : Full(u) => Good(u)}
           Acts == {"tap", "tap_element", "swipe", "type", "wait", "launch", "focus", "text", "assert"}
<1>1. <<>> \in P
  <2>1. CommandsOf(<<>>) = <<>> /\ TextOf(<<>>) = <<>> /\ Flat(<<>>) = <<>>
    BY FlatOfNone DEF CommandsOf, TextOf
  <2>2. <<>> \in Seq(Steps) /\ <<>> \in Seq(Seq(Cmds)) /\ <<>> \in Seq(Cmds)
    BY EmptySeq
  <2> QED BY <2>1, <2>2, OfNone
<1>2. ASSUME NEW u \in Seq(Steps), NEW s \in Steps, u \in P PROVE Append(u, s) \in P
  <2> DEFINE w == Append(u, s)
             X == Flat(CommandsOf(u))
             Y == Flat(CommandsOf(w))
  <2>1. /\ w \in Seq(Steps) /\ Len(w) = Len(u) + 1 /\ w[Len(u) + 1] = s
        /\ \A k \in 1 .. Len(u) : w[k] = u[k]
    BY AppendProperties
  <2>2. Len(u) \in Nat /\ DOMAIN u = 1 .. Len(u) /\ DOMAIN w = 1 .. Len(u) + 1
    BY <2>1, LenProperties
  <2> HIDE DEF w, X, Y
  <2> SUFFICES ASSUME Full(w) PROVE Good(w)
    BY <2>1 DEF w
  <2>3. Full(u) /\ Commands(s) # <<>>
    BY <2>1, <2>2 DEF Full
  <2>4. /\ CommandsOf(u) \in Seq(Seq(Cmds)) /\ X \in Seq(Cmds)
        /\ Flat(TextOf(X)) = Flat(TextOf(u))
        /\ Len(Of(X, "act", Gestures)) = Len(Of(u, "act", Doing))
    BY <1>2, <2>3 DEF X
  <2>5. CommandsOf(w) = Append(CommandsOf(u), Commands(s))
    <3> DEFINE m == CommandsOf(u)
               a == Append(m, Commands(s))
               b == CommandsOf(w)
    <3>1. Commands(s) \in Seq(Cmds) /\ \A k \in 1 .. Len(u) + 1 : Commands(w[k]) \in Seq(Cmds)
      BY <2>1, <2>2, CommandsType, ElementOfSeq
    <3>2. Len(m) = Len(u) /\ \A k \in 1 .. Len(u) : m[k] = Commands(u[k])
      BY <2>2 DEF CommandsOf
    <3>3. b \in Seq(Seq(Cmds)) /\ Len(b) = Len(u) + 1
      <4>1. b \in [1 .. Len(u) + 1 -> Seq(Cmds)]
        BY <2>2, <3>1 DEF CommandsOf
      <4> QED BY <2>2, <4>1
    <3>4. \A k \in 1 .. Len(u) + 1 : b[k] = Commands(w[k])
      BY <2>2 DEF CommandsOf
    <3> HIDE DEF m, b
    <3>5. m \in Seq(Seq(Cmds))
      BY <2>4 DEF m
    <3>6. /\ a \in Seq(Seq(Cmds)) /\ Len(a) = Len(m) + 1 /\ a[Len(m) + 1] = Commands(s)
          /\ \A k \in 1 .. Len(m) : a[k] = m[k]
      BY <3>1, <3>5, AppendProperties
    <3> HIDE DEF a
    <3>7. \A k \in 1 .. Len(u) + 1 : b[k] = a[k]
      <4> SUFFICES ASSUME NEW k \in 1 .. Len(u) + 1 PROVE b[k] = a[k]
        OBVIOUS
      <4>1. CASE k = Len(u) + 1
        BY <2>1, <3>2, <3>4, <3>6, <4>1
      <4>2. CASE k \in 1 .. Len(u)
        BY <2>1, <3>2, <3>4, <3>6, <4>2
      <4> QED BY <2>2, <4>1, <4>2
    <3>8. b = a
      BY <3>2, <3>3, <3>6, <3>7, SeqEqual
    <3> QED BY <3>8 DEF a, b, m
  <2>6. CommandsOf(w) \in Seq(Seq(Cmds)) /\ Y = X \o Commands(s)
    <3> DEFINE m == CommandsOf(u)
    <3> HIDE DEF m
    <3>1. m \in Seq(Seq(Cmds)) /\ CommandsOf(w) = Append(m, Commands(s)) /\ Commands(s) \in Seq(Cmds)
      BY <2>4, <2>5, CommandsType DEF m
    <3>2. Append(m, Commands(s)) \in Seq(Seq(Cmds)) /\ Flat(Append(m, Commands(s))) = Flat(m) \o Commands(s)
      BY <3>1, FlatAppend
    <3> QED BY <3>1, <3>2 DEF X, Y, m
  <2>7. HasField(Cmds, "act", Acts) /\ HasField(Steps, "act", Acts)
    BY DEF HasField, Cmds, Steps, Gestures, Doing
  <2>8. (\A c \in Cmds : c.text \in Seq(Spoken)) /\ (\A x \in Steps : x.text \in Seq(Spoken))
    BY DEF Cmds, Steps
  <2>9. \A Z \in Seq(Cmds), c \in Cmds :
          /\ Append(Z, c) \in Seq(Cmds) /\ Append(Z, c) = Z \o <<c>>
          /\ Flat(TextOf(Append(Z, c))) = Flat(TextOf(Z)) \o c.text
          /\ Flat(TextOf(Z)) \in Seq(Spoken)
          /\ Len(Of(Z, "act", Gestures)) \in Nat
          /\ Len(Of(Append(Z, c), "act", Gestures))
                = Len(Of(Z, "act", Gestures)) + IF c.act \in Gestures THEN 1 ELSE 0
    <3> TAKE Z \in Seq(Cmds), c \in Cmds
    <3>1. Append(Z, c) \in Seq(Cmds) /\ Append(Z, c) = Z \o <<c>>
      BY AppendProperties, AppendIsConcat
    <3>2. Flat(TextOf(Append(Z, c))) = Flat(TextOf(Z)) \o c.text /\ Flat(TextOf(Z)) \in Seq(Spoken)
      BY <2>8, TextAppend
    <3>3. /\ Len(Of(Z, "act", Gestures)) \in Nat
          /\ Len(Of(Append(Z, c), "act", Gestures))
                = Len(Of(Z, "act", Gestures)) + IF c["act"] \in Gestures THEN 1 ELSE 0
      BY <2>7, OfAppend
    <3> QED BY <3>1, <3>2, <3>3
  <2>10. /\ Flat(TextOf(w)) = Flat(TextOf(u)) \o s.text
         /\ Len(Of(w, "act", Doing)) = Len(Of(u, "act", Doing)) + IF s.act \in Doing THEN 1 ELSE 0
    <3>1. Flat(TextOf(w)) = Flat(TextOf(u)) \o s.text
      BY <2>8, TextAppend DEF w
    <3>2. Len(Of(w, "act", Doing)) = Len(Of(u, "act", Doing)) + IF s["act"] \in Doing THEN 1 ELSE 0
      BY <2>7, OfAppend DEF w
    <3> QED BY <3>1, <3>2
  <2>11. CASE \E c \in Cmds : /\ Commands(s) = <<c>> /\ c.text = s.text
                              /\ c.act \in Gestures <=> s.act \in Doing
    <3>1. PICK c \in Cmds : /\ Commands(s) = <<c>> /\ c.text = s.text
                            /\ c.act \in Gestures <=> s.act \in Doing
      BY <2>11
    <3>2. Y = Append(X, c)
      BY <2>4, <2>6, <2>9, <3>1
    <3> QED BY <2>4, <2>6, <2>9, <2>10, <3>1, <3>2 DEF Y
  <2>12. CASE \E b, c \in Cmds : /\ Commands(s) = <<b, c>> /\ b.text = <<>> /\ c.text = s.text
                                 /\ b.act \notin Gestures /\ c.act \notin Gestures
                                 /\ s.act \notin Doing
    <3>1. PICK b \in Cmds, c \in Cmds :
             /\ Commands(s) = <<b, c>> /\ b.text = <<>> /\ c.text = s.text
             /\ b.act \notin Gestures /\ c.act \notin Gestures /\ s.act \notin Doing
      BY <2>12
    <3> DEFINE Z == Append(X, b)
    <3>2. /\ Z \in Seq(Cmds) /\ Flat(TextOf(Z)) = Flat(TextOf(X)) \o <<>>
          /\ Len(Of(Z, "act", Gestures)) = Len(Of(X, "act", Gestures)) + 0
          /\ Z = X \o <<b>> /\ Flat(TextOf(X)) \in Seq(Spoken)
          /\ Len(Of(X, "act", Gestures)) \in Nat
      BY <2>4, <2>9, <3>1
    <3>3. Flat(TextOf(Z)) = Flat(TextOf(X)) /\ Len(Of(Z, "act", Gestures)) = Len(Of(X, "act", Gestures))
      BY <3>2, ConcatEmptySeq
    <3> HIDE DEF Z
    <3>4. Y = Append(Z, c)
      <4>1. <<b>> \in Seq(Cmds) /\ Append(<<b>>, c) = <<b, c>>
        BY Pair
      <4>2. X \o Append(<<b>>, c) = Append(X \o <<b>>, c)
        BY <2>4, <4>1, AppendOfConcat
      <4> QED BY <2>6, <3>1, <3>2, <4>1, <4>2
    <3>5. Flat(TextOf(Y)) = Flat(TextOf(w))
      <4>1. Flat(TextOf(Append(Z, c))) = Flat(TextOf(Z)) \o c.text
        BY <2>9, <3>2
      <4>2. Flat(TextOf(Z)) = Flat(TextOf(u)) /\ c.text = s.text
        BY <2>4, <3>1, <3>3
      <4>3. Flat(TextOf(w)) = Flat(TextOf(u)) \o s.text
        BY <2>10
      <4> QED BY <3>4, <4>1, <4>2, <4>3
    <3>6. Len(Of(Y, "act", Gestures)) = Len(Of(w, "act", Doing))
      <4>1. Len(Of(Y, "act", Gestures)) = Len(Of(Z, "act", Gestures)) + 0
        BY <2>9, <3>1, <3>2, <3>4
      <4>2. Len(Of(w, "act", Doing)) = Len(Of(u, "act", Doing)) + 0
        BY <2>10, <3>1
      <4>3. Len(Of(Z, "act", Gestures)) = Len(Of(X, "act", Gestures))
        BY <3>3
      <4> QED BY <2>4, <3>2, <4>1, <4>2, <4>3
    <3>7. Y \in Seq(Cmds)
      BY <2>9, <3>2, <3>4
    <3> QED BY <2>6, <3>5, <3>6, <3>7 DEF Y
  <2> QED BY <2>3, <2>11, <2>12, CommandsShape
<1> HIDE DEF P
<1>3. ss \in P
  BY <1>1, <1>2, SeqInduction
<1> QED BY <1>3 DEF P

-----------------------------------------------------------------------------
\* The first elements of a sequence.
Take(s, n) == SubSeq(s, 1, n)

LEMMA Takes ==
    ASSUME NEW A, NEW s \in Seq(A)
    PROVE  /\ Len(s) \in Nat /\ Take(s, 0) = <<>> /\ Take(s, Len(s)) = s
           /\ \A n \in 0 .. Len(s) : /\ Take(s, n) \in Seq(A) /\ Len(Take(s, n)) = n
                                     /\ \A i \in 1 .. n : Take(s, n)[i] = s[i]
           /\ \A n \in 0 .. Len(s) - 1 : s[n + 1] \in A /\ Take(s, n + 1) = Append(Take(s, n), s[n + 1])
<1>1. Len(s) \in Nat /\ \A i \in 1 .. Len(s) : s[i] \in A
  BY LenProperties, ElementOfSeq
<1>2. Take(s, 0) = <<>>
  BY SubSeqEmpty DEF Take
<1>3. Take(s, Len(s)) = s
  BY SubSeqFull DEF Take
<1>4. ASSUME NEW n \in 0 .. Len(s)
      PROVE  /\ Take(s, n) \in Seq(A) /\ Len(Take(s, n)) = n
             /\ \A i \in 1 .. n : Take(s, n)[i] = s[i]
  <2>1. n - 1 + 1 = n /\ (1 <= n \/ n = 0) /\ \A i \in 1 .. n : s[i] \in A
    BY <1>1
  <2>2. /\ Take(s, n) \in Seq(A) /\ Len(Take(s, n)) = IF 1 <= n THEN n - 1 + 1 ELSE 0
        /\ \A i \in 1 .. n - 1 + 1 : Take(s, n)[i] = s[1 + i - 1]
    BY <1>1, <2>1, SubSeqProperties DEF Take
  <2> QED BY <2>1, <2>2
<1>5. ASSUME NEW n \in 0 .. Len(s) - 1
      PROVE  s[n + 1] \in A /\ Take(s, n + 1) = Append(Take(s, n), s[n + 1])
  <2> DEFINE t == Append(Take(s, n), s[n + 1])
             u == Take(s, n + 1)
  <2>1. s[n + 1] \in A /\ n \in 0 .. Len(s) /\ n + 1 \in 0 .. Len(s) /\ n \in Nat
    BY <1>1
  <2>2. /\ t \in Seq(A) /\ Len(t) = n + 1 /\ t[n + 1] = s[n + 1]
        /\ \A i \in 1 .. n : t[i] = Take(s, n)[i]
    BY <1>4, <2>1, AppendProperties
  <2>3. u \in Seq(A) /\ Len(u) = n + 1 /\ \A i \in 1 .. n + 1 : u[i] = s[i]
    BY <1>4, <2>1
  <2>4. \A i \in 1 .. n : Take(s, n)[i] = s[i]
    BY <1>4, <2>1
  <2> HIDE DEF t, u
  <2>5. \A i \in 1 .. n + 1 : u[i] = t[i]
    BY <2>1, <2>2, <2>3, <2>4
  <2>6. u = t
    BY <2>1, <2>2, <2>3, <2>5, SeqEqual
  <2> QED BY <2>1, <2>6 DEF t, u
<1> QED BY <1>1, <1>2, <1>3, <1>4, <1>5

-----------------------------------------------------------------------------
\* The states of the parser.
Types   == {"tap", "swipe", "back", "home", "switch", "text"}
Events  == {e \in [type : Types, at : Nat, p : Nat, q : Nat, text : Texts, line : Line,
                   target : Targets] : e.type = "text" <=> e.text # "none"}
Touches == [active : BOOLEAN, start : Nat, cur : Nat, since : Nat, moves : Nat]
Presses  == {"track", "down"}
Releases == {"release", "up"}

\* What a line adds to the events of a state.
Adds(st, l, next) ==
    \/ next = st.events /\ l.text = "none" /\ l.key # "back" /\ ~(st.touch.active /\ l.key \in Releases)
    \/ \E e \in Events : /\ next = Append(st.events, e) /\ e.at = l.at /\ e.text = l.text
                         /\ (e.type \in Gestures <=> st.touch.active /\ l.key \in Releases)
                         /\ (l.key = "back" => e.type = "back")

LEMMA EventType ==
    ASSUME NEW l \in Line, NEW type \in Types, NEW p \in Nat, NEW q \in Nat,
           type = "text" <=> l.text # "none"
    PROVE  /\ Event(type, p, q, l) \in Events
           /\ Event(type, p, q, l).at = l.at /\ Event(type, p, q, l).text = l.text
           /\ Event(type, p, q, l).type = type
BY DEF Event, Events, Line, Targets

LEMMA GestureType ==
    ASSUME NEW t \in Touches, NEW l \in Line, l.key \in Releases
    PROVE  /\ Gesture(t, l) \in Events /\ Gesture(t, l).at = l.at /\ Gesture(t, l).text = l.text
           /\ Gesture(t, l).type \in Gestures
<1>1. Gesture(t, l) = Event("swipe", t.start, t.cur, l) \/ Gesture(t, l) = Event("tap", t.cur, NoPoint, l)
  BY DEF Gesture
<1>2. t.start \in Nat /\ t.cur \in Nat /\ NoPoint \in Nat /\ l.text = "none"
  BY DEF Touches, Line, NoPoint, Releases
<1>3. "swipe" \in Types /\ "tap" \in Types /\ "swipe" \in Gestures /\ "tap" \in Gestures
  BY DEF Types, Gestures
<1>4. /\ Event("swipe", t.start, t.cur, l) \in Events /\ Event("swipe", t.start, t.cur, l).at = l.at
      /\ Event("swipe", t.start, t.cur, l).text = l.text
      /\ Event("swipe", t.start, t.cur, l).type \in Gestures
  BY <1>2, <1>3, EventType
<1>5. /\ Event("tap", t.cur, NoPoint, l) \in Events /\ Event("tap", t.cur, NoPoint, l).at = l.at
      /\ Event("tap", t.cur, NoPoint, l).text = l.text /\ Event("tap", t.cur, NoPoint, l).type \in Gestures
  BY <1>2, <1>3, EventType
<1> QED BY <1>1, <1>4, <1>5

LEMMA ReadStep ==
    ASSUME NEW st \in [touch : Touches, events : Seq(Events)], NEW l \in Line
    PROVE  /\ ReadLine(st, l) \in [touch : Touches, events : Seq(Events)]
           /\ Adds(st, l, ReadLine(st, l).events)
           /\ ReadLine(st, l).touch.active <=>
                (l.key \in Presses \/ (st.touch.active /\ l.key \notin Releases))
<1> DEFINE next == ReadLine(st, l)
<1>1. st.touch \in Touches /\ st.events \in Seq(Events) /\ l.at \in Nat /\ l.p \in Nat
  BY DEF Line
<1>2. l.key = "text" <=> l.text # "none"
  BY DEF Line
<1>3. CASE l.key = "move"
  <2>1. next.events = st.events /\ (next.touch.active <=> st.touch.active)
    BY <1>1, <1>3 DEF ReadLine, Touches
  <2>2. next \in [touch : Touches, events : Seq(Events)]
    <3> DEFINE first == IF st.touch.active /\ st.touch.start = NoPoint THEN l.p ELSE st.touch.start
               count == IF st.touch.active THEN st.touch.moves + 1 ELSE st.touch.moves
               touch == [st.touch EXCEPT !.cur = l.p, !.start = first, !.moves = count]
    <3>1. next = [st EXCEPT !.touch = touch]
      BY <1>1, <1>3 DEF ReadLine, Touches
    <3>2. first \in Nat /\ count \in Nat
      BY <1>1 DEF Touches
    <3> HIDE DEF first, count
    <3>3. touch \in Touches
      BY <1>1, <3>2 DEF Touches
    <3> HIDE DEF touch
    <3> QED BY <1>1, <3>1, <3>3
  <2> QED BY <1>2, <1>3, <2>1, <2>2 DEF Adds, Presses, Releases
<1>4. CASE l.key \in Presses
  <2>1. next.events = st.events /\ next.touch.active
    <3>1. next = st \/ next = [st EXCEPT !.touch = Touch(l)]
      BY <1>4 DEF ReadLine, Presses
    <3>2. CASE l.key = "down" \/ ~st.touch.active
      <4>1. next = [st EXCEPT !.touch = Touch(l)]
        BY <1>4, <3>2 DEF ReadLine, Presses
      <4> QED BY <1>1, <4>1 DEF Touch
    <3>3. CASE l.key = "track" /\ st.touch.active
      BY <3>3 DEF ReadLine
    <3> QED BY <1>4, <3>2, <3>3 DEF Presses
  <2>2. next \in [touch : Touches, events : Seq(Events)]
    BY <1>1, <1>4 DEF ReadLine, Touches, Presses, Touch, NoPoint
  <2> QED BY <1>2, <1>4, <2>1, <2>2 DEF Adds, Presses, Releases
<1>5. CASE l.key \in Releases
  <2>1. CASE ~st.touch.active
    <3>1. next = st
      BY <1>5, <2>1 DEF ReadLine, Releases
    <3> QED BY <1>1, <1>2, <1>5, <2>1, <3>1 DEF Adds, Presses, Releases
  <2>2. CASE st.touch.active
    <3> DEFINE e == Gesture(st.touch, l)
    <3>1. e \in Events /\ e.at = l.at /\ e.text = l.text /\ e.type \in Gestures
      BY <1>1, <1>5, GestureType
    <3>2. next = [touch |-> [NoTouch EXCEPT !.cur = st.touch.cur], events |-> Append(st.events, e)]
      BY <1>5, <2>2 DEF ReadLine, Releases
    <3> HIDE DEF e
    <3>3. Append(st.events, e) \in Seq(Events)
      BY <1>1, <3>1, AppendProperties
    <3>4. [NoTouch EXCEPT !.cur = st.touch.cur] \in Touches /\ ~[NoTouch EXCEPT !.cur = st.touch.cur].active
      BY <1>1 DEF NoTouch, Touches, NoPoint
    <3>5. next \in [touch : Touches, events : Seq(Events)] /\ ~next.touch.active
      <4> DEFINE touch == [NoTouch EXCEPT !.cur = st.touch.cur]
                 events == Append(st.events, e)
      <4>1. next.touch = touch /\ next = [touch |-> touch, events |-> events]
        BY <3>2
      <4>2. touch \in Touches /\ ~touch.active /\ events \in Seq(Events)
        BY <3>3, <3>4
      <4> HIDE DEF touch, events
      <4> QED BY <4>1, <4>2
    <3>6. Adds(st, l, next.events)
      <4>1. next.events = Append(st.events, e)
        BY <3>2
      <4>2. l.key # "back"
        BY <1>5 DEF Releases
      <4> QED BY <1>5, <2>2, <3>1, <4>1, <4>2 DEF Adds
    <3>7. l.key \notin Presses
      BY <1>5 DEF Releases, Presses
    <3> QED BY <1>5, <3>5, <3>6, <3>7
  <2> QED BY <2>1, <2>2
<1>6. CASE l.key \in {"back", "home", "switch", "text"}
  <2> DEFINE e == Event(l.key, NoPoint, NoPoint, l)
  <2>1. l.key \in Types /\ NoPoint \in Nat /\ (l.key = "text" <=> l.text # "none")
    BY <1>2, <1>6 DEF Types, NoPoint
  <2>2. e \in Events /\ e.at = l.at /\ e.text = l.text /\ e.type = l.key
    BY <2>1, EventType
  <2>3. next = [st EXCEPT !.events = Append(st.events, e)]
    BY <1>6 DEF ReadLine
  <2> HIDE DEF e
  <2>4. Append(st.events, e) \in Seq(Events)
    BY <1>1, <2>2, AppendProperties
  <2>5. next.touch = st.touch /\ next.events = Append(st.events, e)
    BY <2>3
  <2>6. next \in [touch : Touches, events : Seq(Events)]
    BY <1>1, <2>3, <2>4
  <2>7. l.key \notin Releases /\ l.key \notin Presses /\ e.type \notin Gestures
    BY <1>6, <2>2 DEF Releases, Presses, Gestures
  <2>8. Adds(st, l, next.events)
    BY <2>2, <2>5, <2>7 DEF Adds
  <2>9. st.touch.active \in BOOLEAN
    BY <1>1 DEF Touches
  <2> QED BY <2>5, <2>6, <2>7, <2>8, <2>9
<1> QED BY <1>3, <1>4, <1>5, <1>6 DEF Line, Keys, Presses, Releases

-----------------------------------------------------------------------------
\* A touch is under way after n lines.
Open(lines, n) ==
    \E j \in 1 .. n : /\ lines[j].key \in Presses
                      /\ \A i \in j + 1 .. n : lines[i].key \notin Releases
Closed(lines, n) == {k \in 1 .. n : Closes(lines, k)}
Typed(x) == x.text # "none"
TypedInTime(s) == \A i, j \in DOMAIN s : i <= j /\ Typed(s[i]) /\ Typed(s[j]) => s[i].at <= s[j].at

LEMMA OpenNext ==
    ASSUME NEW lines, NEW n \in Nat
    PROVE  /\ Open(lines, n + 1) <=> \/ lines[n + 1].key \in Presses
                                     \/ Open(lines, n) /\ lines[n + 1].key \notin Releases
           /\ n + 1 \in Closed(lines, n + 1)
                <=> lines[n + 1].key \in Releases /\ Open(lines, n)
           /\ ~Open(lines, 0) /\ Closed(lines, 0) = {}
<1> DEFINE l == lines[n + 1]
<1>1. Open(lines, n + 1) => l.key \in Presses \/ (Open(lines, n) /\ l.key \notin Releases)
  <2> SUFFICES ASSUME NEW j \in 1 .. n + 1, lines[j].key \in Presses,
                      \A i \in j + 1 .. n + 1 : lines[i].key \notin Releases
               PROVE  l.key \in Presses \/ (Open(lines, n) /\ l.key \notin Releases)
    BY DEF Open
  <2>1. CASE j = n + 1
    BY <2>1
  <2>2. CASE j \in 1 .. n
    <3>1. n + 1 \in j + 1 .. n + 1 /\ \A i \in j + 1 .. n : i \in j + 1 .. n + 1
      BY <2>2
    <3> QED BY <2>2, <3>1 DEF Open
  <2> QED BY <2>1, <2>2
<1>2. l.key \in Presses => Open(lines, n + 1)
  <2>1. n + 1 \in 1 .. n + 1 /\ (n + 1) + 1 .. n + 1 = {}
    OBVIOUS
  <2> QED BY <2>1 DEF Open
<1>3. Open(lines, n) /\ l.key \notin Releases => Open(lines, n + 1)
  <2> SUFFICES ASSUME NEW j \in 1 .. n, lines[j].key \in Presses, l.key \notin Releases,
                      \A i \in j + 1 .. n : lines[i].key \notin Releases
               PROVE  Open(lines, n + 1)
    BY DEF Open
  <2>1. j \in 1 .. n + 1 /\ \A i \in j + 1 .. n + 1 : i = n + 1 \/ i \in j + 1 .. n
    OBVIOUS
  <2>2. \A i \in j + 1 .. n + 1 : lines[i].key \notin Releases
    BY <2>1
  <2> QED BY <2>1, <2>2 DEF Open
<1>4. ~Open(lines, 0) /\ Closed(lines, 0) = {}
  BY DEF Open, Closed
<1>5. n + 1 \in Closed(lines, n + 1) <=> l.key \in Releases /\ Open(lines, n)
  <2>1. n + 1 \in 1 .. n + 1 /\ n + 1 - 1 = n
    OBVIOUS
  <2> QED BY <2>1 DEF Closed, Closes, Open, Releases, Presses
<1> QED BY <1>1, <1>2, <1>3, <1>4, <1>5

LEMMA ClosedNext ==
    ASSUME NEW lines, NEW n \in Nat
    PROVE  /\ Cardinality(Closed(lines, n)) \in Nat
           /\ Cardinality(Closed(lines, n + 1)) = Cardinality(Closed(lines, n)) +
                IF lines[n + 1].key \in Releases /\ Open(lines, n) THEN 1 ELSE 0
<1> DEFINE C == Closed(lines, n)
           D == Closed(lines, n + 1)
<1>1. IsFiniteSet(C) /\ n + 1 \notin C
  <2>1. C \in SUBSET (1 .. n) /\ IsFiniteSet(1 .. n) /\ n + 1 \notin 1 .. n
    BY FS_Interval DEF Closed
  <2> HIDE DEF C
  <2> QED BY <2>1, FS_Subset
<1>2. \A k \in 1 .. n + 1 : k \in 1 .. n \/ k = n + 1
  OBVIOUS
<1>3. D = IF n + 1 \in D THEN C \cup {n + 1} ELSE C
  BY <1>2 DEF Closed
<1> HIDE DEF C, D
<1>4. Cardinality(C) \in Nat
  BY <1>1, FS_CardinalityType
<1>5. CASE n + 1 \in D
  <2>1. Cardinality(C \cup {n + 1}) = Cardinality(C) + 1
    BY <1>1, FS_AddElement
  <2>2. lines[n + 1].key \in Releases /\ Open(lines, n)
    BY <1>5, OpenNext DEF D
  <2> QED BY <1>3, <1>4, <1>5, <2>1, <2>2 DEF C, D
<1>6. CASE n + 1 \notin D
  <2>1. ~(lines[n + 1].key \in Releases /\ Open(lines, n))
    BY <1>6, OpenNext DEF D
  <2> QED BY <1>3, <1>4, <1>6, <2>1 DEF C, D
<1> QED BY <1>5, <1>6

SameKey(e, l) == e.at = l.at /\ e.text = l.text

\* What the parser has made of the first n lines.
ReadTo(lines, n, r) ==
    /\ r \in [touch : Touches, events : Seq(Events)]
    /\ r.touch.active <=> Open(lines, n)
    /\ \A T : "none" \notin T => Of(r.events, "text", T) = Of(Take(lines, n), "text", T)
    /\ Len(Of(r.events, "type", Gestures)) = Cardinality(Closed(lines, n))
    /\ \A k \in 1 .. n : lines[k].key = "back" => \E i \in DOMAIN r.events : r.events[i].type = "back"
    /\ \A i \in DOMAIN r.events : \E k \in 1 .. n : SameKey(r.events[i], lines[k])
    /\ TypedInTime(lines) => TypedInTime(r.events)

LEMMA ReadToNext ==
    ASSUME NEW lines \in Seq(Line), NEW n \in 0 .. Len(lines) - 1, NEW r, ReadTo(lines, n, r)
    PROVE  ReadTo(lines, n + 1, ReadLine(r, lines[n + 1]))
<1> DEFINE l == lines[n + 1]
           q == ReadLine(r, l)
           u == Take(lines, n)
<1>1. /\ l \in Line /\ u \in Seq(Line) /\ Take(lines, n + 1) = Append(u, l) /\ n \in Nat
      /\ Len(lines) \in Nat
  BY Takes
<1>2. /\ r \in [touch : Touches, events : Seq(Events)] /\ r.events \in Seq(Events)
      /\ r.touch.active <=> Open(lines, n)
  BY DEF ReadTo
<1>3. /\ q \in [touch : Touches, events : Seq(Events)] /\ Adds(r, l, q.events)
      /\ q.touch.active <=> (l.key \in Presses \/ (r.touch.active /\ l.key \notin Releases))
  BY <1>1, <1>2, ReadStep
<1>4. q.touch.active <=> Open(lines, n + 1)
  BY <1>1, <1>2, <1>3, OpenNext
<1>5. /\ Cardinality(Closed(lines, n)) \in Nat
      /\ Cardinality(Closed(lines, n + 1)) = Cardinality(Closed(lines, n)) +
           IF l.key \in Releases /\ r.touch.active THEN 1 ELSE 0
  BY <1>1, <1>2, ClosedNext
<1>6. \A T : /\ Of(Append(u, l), "text", T) = Of(u, "text", T) \o KeptOf(l.text, T)
             /\ Of(u, "text", T) \in Seq(Texts)
  <2> TAKE T
  <2>1. HasField(Line, "text", Texts)
    BY DEF HasField, Line
  <2> HIDE DEF u, l
  <2>2. /\ Of(Append(u, l), "text", T) = Of(u, "text", T) \o KeptOf(l["text"], T)
        /\ Of(u, "text", T) \in Seq(Texts)
    BY <1>1, <2>1, OfAppend
  <2> QED BY <2>2
<1>7. \A k \in 1 .. n + 1 : k \in 1 .. n \/ k = n + 1
  BY <1>1
<1>8. \A k \in 1 .. n : k \in 1 .. n + 1
  BY <1>1
<1>9. CASE q.events = r.events /\ l.text = "none" /\ l.key # "back" /\ ~(r.touch.active /\ l.key \in Releases)
  <2>1. ASSUME NEW T, "none" \notin T PROVE Of(q.events, "text", T) = Of(Take(lines, n + 1), "text", T)
    <3>1. KeptOf(l.text, T) = <<>>
      BY <1>9, <2>1 DEF KeptOf
    <3>2. Of(u, "text", T) \o <<>> = Of(u, "text", T)
      BY <1>6, ConcatEmptySeq
    <3>3. Of(r.events, "text", T) = Of(u, "text", T)
      BY <2>1 DEF ReadTo
    <3> QED BY <1>1, <1>6, <1>9, <3>1, <3>2, <3>3
  <2>2. Len(Of(q.events, "type", Gestures)) = Cardinality(Closed(lines, n + 1))
    BY <1>5, <1>9 DEF ReadTo
  <2>3. \A k \in 1 .. n + 1 : lines[k].key = "back" => \E i \in DOMAIN q.events : q.events[i].type = "back"
    BY <1>7, <1>9 DEF ReadTo
  <2>4. \A i \in DOMAIN q.events : \E k \in 1 .. n + 1 : SameKey(q.events[i], lines[k])
    BY <1>8, <1>9 DEF ReadTo
  <2>5. TypedInTime(lines) => TypedInTime(q.events)
    BY <1>9 DEF ReadTo
  <2> QED BY <1>3, <1>4, <2>1, <2>2, <2>3, <2>4, <2>5 DEF ReadTo
<1>10. CASE \E e \in Events : /\ q.events = Append(r.events, e) /\ e.at = l.at /\ e.text = l.text
                              /\ (e.type \in Gestures <=> r.touch.active /\ l.key \in Releases)
                              /\ (l.key = "back" => e.type = "back")
  <2>1. PICK e \in Events : /\ q.events = Append(r.events, e) /\ e.at = l.at /\ e.text = l.text
                            /\ (e.type \in Gestures <=> r.touch.active /\ l.key \in Releases)
                            /\ (l.key = "back" => e.type = "back")
    BY <1>10
  <2> DEFINE v == r.events
             w == q.events
             m == Len(v)
  <2>2. /\ m \in Nat /\ DOMAIN v = 1 .. m /\ DOMAIN w = 1 .. m + 1 /\ w[m + 1] = e
        /\ \A i \in 1 .. m : w[i] = v[i]
    BY <1>2, <2>1, AppendProperties, LenProperties
  <2>3. \A i \in 1 .. m + 1 : i \in 1 .. m \/ i = m + 1
    BY <2>2
  <2>4. m + 1 \in 1 .. m + 1 /\ \A i \in 1 .. m : i \in 1 .. m + 1
    BY <2>2
  <2>5. ASSUME NEW T, "none" \notin T PROVE Of(w, "text", T) = Of(Take(lines, n + 1), "text", T)
    <3>1. HasField(Events, "text", Texts)
      BY DEF HasField, Events
    <3>2. Of(Append(v, e), "text", T) = Of(v, "text", T) \o KeptOf(e["text"], T)
      BY <1>2, <3>1, OfAppend
    <3>3. Of(v, "text", T) = Of(u, "text", T)
      BY <2>5 DEF ReadTo
    <3> HIDE DEF u, v, w
    <3>4. Of(w, "text", T) = Of(u, "text", T) \o KeptOf(l.text, T)
      BY <2>1, <3>2, <3>3 DEF v, w
    <3> QED BY <1>1, <1>6, <3>4
  <2>6. Len(Of(w, "type", Gestures)) = Cardinality(Closed(lines, n + 1))
    <3>1. HasField(Events, "type", Types)
      BY DEF HasField, Events
    <3>2. Len(Of(Append(v, e), "type", Gestures)) =
            Len(Of(v, "type", Gestures)) + IF e["type"] \in Gestures THEN 1 ELSE 0
      BY <1>2, <3>1, OfAppend
    <3>3. Len(Of(v, "type", Gestures)) = Cardinality(Closed(lines, n))
      BY DEF ReadTo
    <3> HIDE DEF v, w
    <3>4. Append(v, e) = w
      BY <2>1 DEF v, w
    <3> QED BY <1>5, <2>1, <3>2, <3>3, <3>4
  <2>7. \A k \in 1 .. n + 1 : lines[k].key = "back" => \E i \in DOMAIN w : w[i].type = "back"
    <3> SUFFICES ASSUME NEW k \in 1 .. n + 1, lines[k].key = "back"
                 PROVE  \E i \in 1 .. m + 1 : w[i].type = "back"
      BY <2>2
    <3>1. CASE k = n + 1
      BY <2>1, <2>2, <2>4, <3>1
    <3>2. CASE k \in 1 .. n
      <4>1. PICK i \in DOMAIN v : v[i].type = "back"
        BY <3>2 DEF ReadTo
      <4> QED BY <2>2, <2>4, <4>1
    <3> QED BY <1>7, <3>1, <3>2
  <2>8. \A i \in DOMAIN w : \E k \in 1 .. n + 1 : SameKey(w[i], lines[k])
    <3> SUFFICES ASSUME NEW i \in 1 .. m + 1 PROVE \E k \in 1 .. n + 1 : SameKey(w[i], lines[k])
      BY <2>2
    <3>1. CASE i = m + 1
      <4>1. n + 1 \in 1 .. n + 1
        BY <1>1
      <4> QED BY <2>1, <2>2, <3>1, <4>1 DEF SameKey
    <3>2. CASE i \in 1 .. m
      <4>1. PICK k \in 1 .. n : SameKey(v[i], lines[k])
        BY <2>2, <3>2 DEF ReadTo
      <4> QED BY <1>8, <2>2, <3>2, <4>1
    <3> QED BY <2>3, <3>1, <3>2
  <2>9. ASSUME TypedInTime(lines) PROVE TypedInTime(w)
    <3> SUFFICES ASSUME NEW i \in 1 .. m + 1, NEW j \in 1 .. m + 1, i <= j,
                        Typed(w[i]), Typed(w[j])
                 PROVE  w[i].at <= w[j].at
      BY <2>2 DEF TypedInTime
    <3>1. CASE j \in 1 .. m
      <4>1. i \in 1 .. m
        BY <2>2, <3>1
      <4>2. v[i].at <= v[j].at
        BY <2>2, <2>9, <3>1, <4>1 DEF ReadTo, TypedInTime
      <4> QED BY <2>2, <3>1, <4>1, <4>2
    <3>2. CASE j = m + 1
      <4>1. PICK k \in 1 .. n + 1 : SameKey(w[i], lines[k])
        BY <2>2, <2>8
      <4>2. k <= n + 1 /\ k \in DOMAIN lines /\ n + 1 \in DOMAIN lines
        BY <1>1, LenProperties
      <4>3. w[j] = e /\ e.at = l.at /\ e.text = l.text
        BY <2>1, <2>2, <3>2
      <4>4. Typed(lines[k]) /\ Typed(lines[n + 1])
        BY <4>1, <4>3 DEF Typed, SameKey
      <4>5. lines[k].at <= lines[n + 1].at
        BY <2>9, <4>2, <4>4 DEF TypedInTime
      <4> QED BY <4>1, <4>3, <4>5 DEF SameKey
    <3> QED BY <2>3, <3>1, <3>2
  <2> QED BY <1>3, <1>4, <2>5, <2>6, <2>7, <2>8, <2>9 DEF ReadTo
<1> QED BY <1>3, <1>9, <1>10 DEF Adds

LEMMA ReadAll ==
    ASSUME NEW lines \in Seq(Line)
    PROVE  ReadTo(lines, Len(lines), ReadLines(lines)[Len(lines)])
<1> DEFINE N == Len(lines)
           st == ReadLines(lines)
           S == {n \in Nat : n <= N => ReadTo(lines, n, st[n])}
<1>1. N \in Nat
  BY LenProperties
<1>2. st[0] = [touch |-> NoTouch, events |-> <<>>] /\ \A n \in 1 .. N : st[n] = ReadLine(st[n - 1], lines[n])
  BY <1>1, EachLineRead
<1> HIDE DEF N, st
<1>3. 0 \in S
  <2> DEFINE r == [touch |-> NoTouch, events |-> <<>>]
  <2>1. r \in [touch : Touches, events : Seq(Events)] /\ r.events = <<>> /\ ~r.touch.active
    BY EmptySeq DEF Touches, NoTouch, NoPoint
  <2>2. Take(lines, 0) = <<>>
    BY Takes
  <2>3. ~Open(lines, 0) /\ Closed(lines, 0) = {} /\ Cardinality({}) = 0
    BY OpenNext, FS_EmptySet
  <2>4. /\ \A T : Of(<<>>, "text", T) = <<>>
        /\ Of(<<>>, "type", Gestures) = <<>> /\ Len(<<>>) = 0 /\ DOMAIN <<>> = {}
    BY OfNone
  <2> HIDE DEF r
  <2>5. \A k \in 1 .. 0 : FALSE
    OBVIOUS
  <2>6. TypedInTime(r.events)
    BY <2>1, <2>4 DEF TypedInTime
  <2>7. ReadTo(lines, 0, r)
    BY <2>1, <2>2, <2>3, <2>4, <2>5, <2>6 DEF ReadTo
  <2> QED BY <1>2, <2>7 DEF r
<1>4. ASSUME NEW n \in Nat, n \in S PROVE n + 1 \in S
  <2> SUFFICES ASSUME n + 1 <= N PROVE ReadTo(lines, n + 1, st[n + 1])
    OBVIOUS
  <2>1. n <= N /\ n \in 0 .. N - 1 /\ n + 1 \in 1 .. N /\ n + 1 - 1 = n
    BY <1>1
  <2>2. ReadTo(lines, n, st[n])
    BY <1>4, <2>1
  <2>3. ReadTo(lines, n + 1, ReadLine(st[n], lines[n + 1]))
    BY <2>1, <2>2, ReadToNext DEF N
  <2> QED BY <1>2, <2>1, <2>3
<1> HIDE DEF S
<1>5. N \in S
  BY <1>1, <1>3, <1>4, NumbersFrom0
<1> QED BY <1>1, <1>5 DEF S, N, st

-----------------------------------------------------------------------------
\* The least of some numbers.
LEMMA Least ==
    ASSUME NEW S \in SUBSET Nat, S # {}
    PROVE  Min(S) \in S /\ \A y \in S : Min(S) <= y
<1>1. \E x \in S : \A y \in S : x <= y
  <2> SUFFICES ASSUME \A x \in S : \E y \in S : ~(x <= y) PROVE FALSE
    OBVIOUS
  <2> DEFINE B == {n \in Nat : \A m \in 0 .. n : m \notin S}
  <2>1. 0 \in B
    <3>1. 0 \notin S
      OBVIOUS
    <3> QED BY <3>1
  <2>2. ASSUME NEW n \in Nat, n \in B PROVE n + 1 \in B
    <3>1. \A m \in 0 .. n + 1 : m \in 0 .. n \/ m = n + 1
      OBVIOUS
    <3>2. n + 1 \notin S
      <4> SUFFICES ASSUME n + 1 \in S PROVE FALSE
        OBVIOUS
      <4>1. PICK y \in S : ~(n + 1 <= y)
        OBVIOUS
      <4>2. y \in 0 .. n
        BY <4>1
      <4> QED BY <2>2, <4>2
    <3> QED BY <2>2, <3>1, <3>2
  <2> HIDE DEF B
  <2>3. \A n \in Nat : n \in B
    BY <2>1, <2>2, NumbersFrom0
  <2>4. \A n \in Nat : n \notin S
    BY <2>3 DEF B
  <2> QED BY <2>4
<1> QED BY <1>1 DEF Min

\* The elements of two sequences, one after the other, whose field is of some kind.
LEMMA FieldType ==
    ASSUME NEW A, NEW B, NEW f, HasField(A, f, B), NEW s \in Seq(A)
    PROVE  /\ FieldOf(s, f) \in Seq(B) /\ Len(FieldOf(s, f)) = Len(s)
           /\ \A k \in 1 .. Len(s) : FieldOf(s, f)[k] = s[k][f]
<1>1. Len(s) \in Nat /\ DOMAIN s = 1 .. Len(s) /\ \A k \in 1 .. Len(s) : s[k] \in A
  BY LenProperties, ElementOfSeq
<1>2. FieldOf(s, f) \in [1 .. Len(s) -> B]
  BY <1>1 DEF FieldOf, HasField
<1> QED BY <1>1, <1>2 DEF FieldOf

LEMMA OfConcat ==
    ASSUME NEW A, NEW B, NEW f, HasField(A, f, B), NEW s \in Seq(A), NEW t \in Seq(A), NEW T
    PROVE  /\ Of(s, f, T) \in Seq(B) /\ Of(t, f, T) \in Seq(B) /\ s \o t \in Seq(A)
           /\ Of(s \o t, f, T) = Of(s, f, T) \o Of(t, f, T)
<1> DEFINE u == s \o t
           a == FieldOf(s, f)
           b == FieldOf(t, f)
           c == FieldOf(u, f)
           d == a \o b
<1>1. /\ u \in Seq(A) /\ Len(u) = Len(s) + Len(t)
      /\ \A i \in 1 .. Len(s) + Len(t) : u[i] = IF i <= Len(s) THEN s[i] ELSE t[i - Len(s)]
  BY ConcatProperties
<1>2. Len(s) \in Nat /\ Len(t) \in Nat
  BY LenProperties
<1> HIDE DEF u
<1>3. /\ a \in Seq(B) /\ Len(a) = Len(s) /\ \A k \in 1 .. Len(s) : a[k] = s[k][f]
  BY FieldType
<1>4. /\ b \in Seq(B) /\ Len(b) = Len(t) /\ \A k \in 1 .. Len(t) : b[k] = t[k][f]
  BY FieldType
<1>5. /\ c \in Seq(B) /\ Len(c) = Len(u) /\ \A k \in 1 .. Len(u) : c[k] = u[k][f]
  BY <1>1, FieldType
<1> HIDE DEF a, b, c
<1>6. /\ d \in Seq(B) /\ Len(d) = Len(a) + Len(b)
      /\ \A i \in 1 .. Len(a) + Len(b) : d[i] = IF i <= Len(a) THEN a[i] ELSE b[i - Len(a)]
  <2>1. a \in Seq(B) /\ b \in Seq(B)
    BY <1>3, <1>4
  <2> QED BY <2>1, ConcatProperties
<1> HIDE DEF d
<1>7. ASSUME NEW i \in 1 .. Len(c) PROVE c[i] = d[i]
  <2>1. i \in 1 .. Len(s) + Len(t)
    BY <1>1, <1>5
  <2>2. CASE i <= Len(s)
    <3>1. i \in 1 .. Len(s)
      BY <1>2, <2>1, <2>2
    <3> QED BY <1>1, <1>3, <1>4, <1>5, <1>6, <2>1, <2>2, <3>1
  <2>3. CASE ~(i <= Len(s))
    <3>1. i - Len(s) \in 1 .. Len(t)
      BY <1>2, <2>1, <2>3
    <3> QED BY <1>1, <1>3, <1>4, <1>5, <1>6, <2>1, <2>3, <3>1
  <2> QED BY <2>2, <2>3
<1>8. c = d
  BY <1>1, <1>3, <1>4, <1>5, <1>6, <1>7, SeqEqual
<1>9. Kept(d, T) = Kept(a, T) \o Kept(b, T)
  BY <1>3, <1>4, KeptConcat DEF d
<1>10. Kept(a, T) \in Seq(B) /\ Kept(b, T) \in Seq(B)
  BY <1>3, <1>4, KeptType
<1> QED BY <1>1, <1>8, <1>9, <1>10 DEF Of, a, b, c, u

LEMMA OfNothing ==
    ASSUME NEW A, NEW B, NEW f, HasField(A, f, B), NEW s \in Seq(A), NEW T,
           \A k \in 1 .. Len(s) : s[k][f] \notin T
    PROVE  Of(s, f, T) = <<>>
<1> DEFINE a == FieldOf(s, f)
<1>1. /\ a \in Seq(B) /\ Len(a) = Len(s) /\ \A k \in 1 .. Len(s) : a[k] = s[k][f]
  BY FieldType
<1>2. DOMAIN a = 1 .. Len(a)
  BY <1>1, LenProperties
<1> HIDE DEF a
<1>3. Where(a, T) = {}
  BY <1>1, <1>2 DEF Where
<1>4. Len(Kept(a, T)) = 0 /\ Kept(a, T) \in Seq(B)
  BY <1>1, <1>3, KeptCounts, KeptType, FS_EmptySet
<1>5. Kept(a, T) = <<>>
  BY <1>4, EmptySeq
<1> QED BY <1>5 DEF Of, a

-----------------------------------------------------------------------------
\* An event is inserted behind those that are no later, and the others are later.
InTime(s) == \A i, j \in DOMAIN s : i <= j => s[i].at <= s[j].at

Drop(s, k)   == SubSeq(s, k + 1, Len(s))
Put(s, k, e) == (Take(s, k) \o <<e>>) \o Drop(s, k)

LEMMA InsertParts ==
    ASSUME NEW s \in Seq(Events), NEW e \in Events, InTime(s)
    PROVE  \E k \in 0 .. Len(s) :
             /\ Insert(s, e) = Put(s, k, e)
             /\ \A i \in 1 .. k : s[i].at <= e.at
             /\ \A i \in k + 1 .. Len(s) : e.at < s[i].at
<1> DEFINE n == Len(s)
           B == {i \in DOMAIN s : s[i].at <= e.at}
           L == {i \in 1 .. n + 1 : i = n + 1 \/ ~(s[i].at <= e.at)}
           k == Min(L) - 1
<1>1. n \in Nat /\ DOMAIN s = 1 .. n /\ e.at \in Nat /\ \A i \in 1 .. n : s[i].at \in Nat
  BY LenProperties, ElementOfSeq DEF Events
<1>2. L \in SUBSET Nat /\ n + 1 \in L
  BY <1>1
<1> HIDE DEF L
<1>3. Min(L) \in L /\ \A y \in L : Min(L) <= y
  BY <1>2, Least
<1>4. k \in 0 .. n /\ k + 1 = Min(L) /\ k + 1 \in L
  BY <1>1, <1>3 DEF L
<1> HIDE DEF k
<1>5. \A i \in 1 .. k : s[i].at <= e.at
  <2> SUFFICES ASSUME NEW i \in 1 .. k, ~(s[i].at <= e.at) PROVE FALSE
    OBVIOUS
  <2>1. i \in L
    BY <1>1, <1>4 DEF L
  <2> QED BY <1>3, <1>4, <2>1
<1>6. \A i \in k + 1 .. n : e.at < s[i].at
  <2> SUFFICES ASSUME NEW i \in k + 1 .. n PROVE e.at < s[i].at
    OBVIOUS
  <2>1. k + 1 \in 1 .. n /\ i \in 1 .. n /\ k + 1 <= i
    BY <1>1, <1>4
  <2>2. ~(s[k + 1].at <= e.at)
    BY <1>1, <1>4, <2>1 DEF L
  <2>3. s[k + 1].at <= s[i].at
    BY <1>1, <2>1 DEF InTime
  <2> QED BY <1>1, <2>1, <2>2, <2>3
<1>7. B = 1 .. k
  <2>1. \A i \in 1 .. n : i \in 1 .. k \/ i \in k + 1 .. n
    BY <1>1, <1>4
  <2>2. \A i \in k + 1 .. n : ~(s[i].at <= e.at)
    BY <1>1, <1>4, <1>6
  <2>3. \A i \in 1 .. k : i \in 1 .. n
    BY <1>1, <1>4
  <2> QED BY <1>1, <1>5, <2>1, <2>2, <2>3
<1>8. Cardinality(1 .. k) = k
  BY <1>1, <1>4, FS_Interval
<1>9. Insert(s, e) = Put(s, k, e)
  BY <1>7, <1>8 DEF Insert, Put, Take, Drop
<1> QED BY <1>4, <1>5, <1>6, <1>9

\* The parts of a sequence that is cut and gets an element at the cut.
LEMMA CutParts ==
    ASSUME NEW A, NEW s \in Seq(A), NEW e \in A, NEW k \in 0 .. Len(s)
    PROVE  /\ Take(s, k) \in Seq(A) /\ Drop(s, k) \in Seq(A) /\ Put(s, k, e) \in Seq(A)
           /\ s = Take(s, k) \o Drop(s, k)
           /\ Take(s, k) \o <<e>> = Append(Take(s, k), e) /\ Append(Take(s, k), e) \in Seq(A)
           /\ Len(Drop(s, k)) = Len(s) - k /\ Len(Put(s, k, e)) = Len(s) + 1
           /\ \A i \in 1 .. Len(s) - k : Drop(s, k)[i] = s[k + i]
           /\ \A i \in 1 .. Len(s) + 1 :
                Put(s, k, e)[i] = IF i <= k THEN s[i] ELSE IF i = k + 1 THEN e ELSE s[i - 1]
<1> DEFINE p == Take(s, k)
           q == Drop(s, k)
           w == Put(s, k, e)
           n == Len(s)
           x == p \o <<e>>
           r == p \o q
<1>1. n \in Nat /\ k \in Nat /\ k \in 0 .. n /\ n = Len(s) /\ \A i \in 1 .. n : s[i] \in A
  BY LenProperties, ElementOfSeq
<1> HIDE DEF n
<1>2. p \in Seq(A) /\ Len(p) = k /\ \A i \in 1 .. k : p[i] = s[i]
  BY Takes
<1>3. q \in Seq(A) /\ Len(q) = n - k /\ \A i \in 1 .. n - k : q[i] = s[k + i]
  <2>1. \A i \in k + 1 .. n : s[i] \in A
    BY <1>1
  <2>2. /\ q \in Seq(A) /\ Len(q) = IF k + 1 <= n THEN n - (k + 1) + 1 ELSE 0
        /\ \A i \in 1 .. n - (k + 1) + 1 : q[i] = s[k + 1 + i - 1]
    BY <1>1, <2>1, SubSeqProperties DEF Drop, n
  <2>3. n - (k + 1) + 1 = n - k /\ (k + 1 <= n \/ n - k = 0)
    BY <1>1
  <2>4. \A i \in 1 .. n - k : k + 1 + i - 1 = k + i
    BY <1>1
  <2> QED BY <2>2, <2>3, <2>4
<1> HIDE DEF p, q, w
<1>4. x = Append(p, e)
  BY <1>2, AppendIsConcat
<1>5. x \in Seq(A) /\ Len(x) = k + 1 /\ x[k + 1] = e /\ \A i \in 1 .. k : x[i] = p[i]
  BY <1>2, <1>4, AppendProperties
<1> HIDE DEF x
<1>6. /\ w \in Seq(A) /\ Len(w) = Len(x) + Len(q)
      /\ \A i \in 1 .. Len(x) + Len(q) : w[i] = IF i <= Len(x) THEN x[i] ELSE q[i - Len(x)]
  <2> DEFINE y == x \o q
  <2>1. x \in Seq(A) /\ q \in Seq(A) /\ w = y
    BY <1>3, <1>5 DEF x, w, p, q, Put
  <2>2. /\ y \in Seq(A) /\ Len(y) = Len(x) + Len(q)
        /\ \A i \in 1 .. Len(x) + Len(q) : y[i] = IF i <= Len(x) THEN x[i] ELSE q[i - Len(x)]
    BY <2>1, ConcatProperties
  <2> HIDE DEF y
  <2> QED BY <2>1, <2>2
<1>7. ASSUME NEW i \in 1 .. n + 1
      PROVE  w[i] = IF i <= k THEN s[i] ELSE IF i = k + 1 THEN e ELSE s[i - 1]
  <2>1. i \in 1 .. Len(x) + Len(q) /\ i \in 1 .. n + 1
    BY <1>1, <1>3, <1>5
  <2>2. CASE i <= k
    BY <1>1, <1>2, <1>5, <1>6, <2>1, <2>2
  <2>3. CASE i = k + 1
    BY <1>1, <1>5, <1>6, <2>1, <2>3
  <2>4. CASE k + 1 < i
    <3>1. i - (k + 1) \in 1 .. n - k /\ k + (i - (k + 1)) = i - 1 /\ ~(i <= k + 1) /\ ~(i <= k)
      BY <1>1, <2>1, <2>4
    <3>2. w[i] = q[i - (k + 1)]
      BY <1>5, <1>6, <2>1, <3>1
    <3>3. q[i - (k + 1)] = s[k + (i - (k + 1))]
      BY <1>3, <3>1
    <3> QED BY <3>1, <3>2, <3>3
  <2> QED BY <2>1, <2>2, <2>3, <2>4
<1>8. s = r
  <2>1. /\ r \in Seq(A) /\ Len(r) = Len(p) + Len(q)
        /\ \A i \in 1 .. Len(p) + Len(q) : r[i] = IF i <= Len(p) THEN p[i] ELSE q[i - Len(p)]
    <3>1. p \in Seq(A) /\ q \in Seq(A)
      BY <1>2, <1>3
    <3> QED BY <3>1, ConcatProperties
  <2> HIDE DEF r
  <2>2. Len(r) = n
    BY <1>1, <1>2, <1>3, <2>1
  <2>3. ASSUME NEW i \in 1 .. n PROVE s[i] = r[i]
    <3>1. i \in 1 .. Len(p) + Len(q)
      BY <2>1, <2>2
    <3>2. CASE i <= k
      BY <1>2, <2>1, <3>1, <3>2
    <3>3. CASE ~(i <= k)
      <4>1. i - k \in 1 .. n - k /\ k + (i - k) = i
        BY <1>1, <3>3
      <4> QED BY <1>2, <1>3, <2>1, <3>1, <3>3, <4>1
    <3> QED BY <3>2, <3>3
  <2> QED BY <1>1, <2>1, <2>2, <2>3, SeqEqual
<1>9. Len(w) = n + 1
  <2>1. Len(x) = k + 1 /\ Len(q) = n - k /\ Len(w) = Len(x) + Len(q)
    BY <1>3, <1>5, <1>6
  <2> QED BY <1>1, <2>1
<1>10. /\ p \in Seq(A) /\ q \in Seq(A) /\ w \in Seq(A) /\ s = p \o q
       /\ p \o <<e>> = Append(p, e) /\ Append(p, e) \in Seq(A)
  BY <1>2, <1>3, <1>4, <1>5, <1>6, <1>8 DEF x, r
<1>11. /\ Len(q) = Len(s) - k /\ Len(w) = Len(s) + 1
       /\ \A i \in 1 .. Len(s) - k : q[i] = s[k + i]
  BY <1>3, <1>9 DEF n
<1>12. \A i \in 1 .. Len(s) + 1 : w[i] = IF i <= k THEN s[i] ELSE IF i = k + 1 THEN e ELSE s[i - 1]
  BY <1>7 DEF n
<1> QED BY <1>10, <1>11, <1>12 DEF p, q, w

\* A field of a sequence, before and after an element is put into it.
LEMMA OfPut ==
    ASSUME NEW A, NEW B, NEW f, HasField(A, f, B), NEW s \in Seq(A), NEW e \in A,
           NEW k \in 0 .. Len(s), NEW T
    PROVE  /\ Of(Take(s, k), f, T) \in Seq(B) /\ Of(Drop(s, k), f, T) \in Seq(B)
           /\ Of(s, f, T) = Of(Take(s, k), f, T) \o Of(Drop(s, k), f, T)
           /\ Of(Put(s, k, e), f, T)
                = (Of(Take(s, k), f, T) \o KeptOf(e[f], T)) \o Of(Drop(s, k), f, T)
           /\ Len(Of(s, f, T)) \in Nat
           /\ Len(Of(Put(s, k, e), f, T)) = Len(Of(s, f, T)) + IF e[f] \in T THEN 1 ELSE 0
<1> DEFINE p == Take(s, k)
           q == Drop(s, k)
           w == Put(s, k, e)
           x == Append(p, e)
<1>1. p \in Seq(A) /\ q \in Seq(A) /\ x \in Seq(A) /\ s = p \o q /\ w = x \o q
  <2>1. p \in Seq(A) /\ q \in Seq(A) /\ x \in Seq(A) /\ s = p \o q /\ p \o <<e>> = x
    BY CutParts
  <2>2. w = (p \o <<e>>) \o q
    BY DEF Put
  <2> HIDE DEF p, q, x, w
  <2> QED BY <2>1, <2>2
<1> HIDE DEF p, q, w
<1>2. /\ Of(p, f, T) \in Seq(B) /\ Of(q, f, T) \in Seq(B)
      /\ Of(p \o q, f, T) = Of(p, f, T) \o Of(q, f, T)
  BY <1>1, OfConcat
<1>3. /\ Len(Of(p, f, T)) \in Nat /\ Of(x, f, T) = Of(p, f, T) \o KeptOf(e[f], T)
      /\ Len(Of(x, f, T)) = Len(Of(p, f, T)) + IF e[f] \in T THEN 1 ELSE 0
  BY <1>1, OfAppend
<1> HIDE DEF x
<1>4. Of(x, f, T) \in Seq(B) /\ Of(x \o q, f, T) = Of(x, f, T) \o Of(q, f, T)
  BY <1>1, OfConcat
<1>5. /\ Len(Of(p, f, T) \o Of(q, f, T)) = Len(Of(p, f, T)) + Len(Of(q, f, T))
      /\ Len(Of(x, f, T) \o Of(q, f, T)) = Len(Of(x, f, T)) + Len(Of(q, f, T))
      /\ Len(Of(q, f, T)) \in Nat
  <2> DEFINE a == Of(p, f, T)
             b == Of(q, f, T)
             c == Of(x, f, T)
  <2>1. a \in Seq(B) /\ b \in Seq(B) /\ c \in Seq(B)
    BY <1>2, <1>4
  <2> HIDE DEF a, b, c
  <2>2. Len(a \o b) = Len(a) + Len(b) /\ Len(c \o b) = Len(c) + Len(b) /\ Len(b) \in Nat
    BY <2>1, ConcatProperties, LenProperties
  <2> QED BY <2>2 DEF a, b, c
<1>6. Len(Of(s, f, T)) \in Nat /\ Len(Of(w, f, T)) = Len(Of(s, f, T)) + IF e[f] \in T THEN 1 ELSE 0
  BY <1>1, <1>2, <1>3, <1>4, <1>5
<1> QED BY <1>1, <1>2, <1>3, <1>4, <1>6 DEF p, q, w

\* What inserting an event makes of events in order of time: all that were there
\* and the new one, in order of time, and one more where the new one counts.
InsertedIn(s, e, w) ==
    /\ w \in Seq(Events) /\ Len(w) = Len(s) + 1 /\ InTime(w)
    /\ \A i \in 1 .. Len(w) : w[i] = e \/ \E j \in 1 .. Len(s) : w[i] = s[j]
    /\ \E i \in 1 .. Len(w) : w[i] = e
    /\ \A j \in 1 .. Len(s) : \E i \in 1 .. Len(w) : w[i] = s[j]

CountsMore(s, e, w) ==
    \A f, B, T : HasField(Events, f, B) =>
      /\ Len(Of(s, f, T)) \in Nat
      /\ Len(Of(w, f, T)) = Len(Of(s, f, T)) + IF e[f] \in T THEN 1 ELSE 0

LEMMA InsertInTime ==
    ASSUME NEW s \in Seq(Events), NEW e \in Events, InTime(s)
    PROVE  InsertedIn(s, e, Insert(s, e)) /\ CountsMore(s, e, Insert(s, e))
<1> DEFINE n == Len(s)
           w == Insert(s, e)
<1>1. PICK k \in 0 .. Len(s) : /\ w = Put(s, k, e)
                               /\ \A i \in 1 .. k : s[i].at <= e.at
                               /\ \A i \in k + 1 .. Len(s) : e.at < s[i].at
  BY InsertParts
<1> HIDE DEF w
<1>2. n \in Nat /\ DOMAIN s = 1 .. n /\ e.at \in Nat /\ \A i \in 1 .. n : s[i].at \in Nat
  BY LenProperties, ElementOfSeq DEF Events
<1>3. /\ w \in Seq(Events) /\ Len(w) = n + 1
      /\ \A i \in 1 .. n + 1 : w[i] = IF i <= k THEN s[i] ELSE IF i = k + 1 THEN e ELSE s[i - 1]
  BY <1>1, CutParts
<1>4. k \in 0 .. n /\ n = Len(s) /\ DOMAIN w = 1 .. n + 1
  BY <1>3, LenProperties
<1>5. \A f, B, T : HasField(Events, f, B) =>
        /\ Len(Of(s, f, T)) \in Nat
        /\ Len(Of(w, f, T)) = Len(Of(s, f, T)) + IF e[f] \in T THEN 1 ELSE 0
  <2> SUFFICES ASSUME NEW f, NEW B, NEW T, HasField(Events, f, B)
               PROVE  /\ Len(Of(s, f, T)) \in Nat
                      /\ Len(Of(w, f, T)) = Len(Of(s, f, T)) + IF e[f] \in T THEN 1 ELSE 0
    OBVIOUS
  <2> QED BY <1>1, OfPut
<1>6. \A i \in k + 1 .. n : e.at < s[i].at
  BY <1>1
<1> HIDE DEF n
<1>7. ASSUME NEW i \in 1 .. n + 1
      PROVE  \/ i \in 1 .. k /\ w[i] = s[i] /\ i \in 1 .. n
             \/ i = k + 1 /\ w[i] = e
             \/ i \in k + 2 .. n + 1 /\ w[i] = s[i - 1] /\ i - 1 \in 1 .. n /\ i - 1 \in k + 1 .. n
  <2>1. CASE i <= k
    BY <1>2, <1>3, <1>4, <2>1
  <2>2. CASE i = k + 1
    <3>1. ~(i <= k)
      BY <1>2, <1>4, <2>2
    <3> QED BY <1>3, <2>2, <3>1
  <2>3. CASE k + 1 < i
    <3>1. ~(i <= k) /\ i # k + 1 /\ i - 1 \in 1 .. n /\ i - 1 \in k + 1 .. n /\ i \in k + 2 .. n + 1
      BY <1>2, <1>4, <2>3
    <3> QED BY <1>3, <3>1
  <2> QED BY <1>2, <1>4, <2>1, <2>2, <2>3
<1>8. \A i \in 1 .. n + 1 : w[i] = e \/ \E j \in 1 .. n : w[i] = s[j]
  BY <1>7
<1>9. ASSUME NEW i \in 1 .. n + 1, NEW j \in 1 .. n + 1, i <= j PROVE w[i].at <= w[j].at
  <2>1. CASE i \in 1 .. k /\ w[i] = s[i] /\ i \in 1 .. n
    <3>1. CASE w[j] = s[j] /\ j \in 1 .. n
      BY <1>2, <1>9, <2>1, <3>1 DEF InTime
    <3>2. CASE w[j] = e
      BY <1>1, <2>1, <3>2
    <3>3. CASE j \in k + 2 .. n + 1 /\ w[j] = s[j - 1] /\ j - 1 \in 1 .. n
      <4>1. i <= j - 1
        BY <1>2, <1>4, <2>1, <3>3
      <4> QED BY <1>2, <2>1, <3>3, <4>1 DEF InTime
    <3> QED BY <1>7, <3>1, <3>2, <3>3
  <2>2. CASE i = k + 1 /\ w[i] = e
    <3>1. CASE j = k + 1 /\ w[j] = e
      BY <1>2, <2>2, <3>1
    <3>2. CASE w[j] = s[j - 1] /\ j - 1 \in k + 1 .. n /\ j - 1 \in 1 .. n
      BY <1>2, <1>6, <2>2, <3>2
    <3>3. ~(j \in 1 .. k)
      BY <1>2, <1>4, <1>9, <2>2
    <3> QED BY <1>7, <3>1, <3>2, <3>3
  <2>3. CASE i \in k + 2 .. n + 1 /\ w[i] = s[i - 1] /\ i - 1 \in 1 .. n
    <3>1. ~(j \in 1 .. k) /\ j # k + 1
      BY <1>2, <1>4, <1>9, <2>3
    <3>2. w[j] = s[j - 1] /\ j - 1 \in 1 .. n
      BY <1>7, <3>1
    <3>3. i - 1 <= j - 1
      BY <1>2, <1>9
    <3> QED BY <1>2, <2>3, <3>2, <3>3 DEF InTime
  <2> QED BY <1>7, <2>1, <2>2, <2>3
<1>10. InTime(w)
  BY <1>4, <1>9 DEF InTime
<1>11. k + 1 \in 1 .. n + 1 /\ w[k + 1] = e
  <2>1. k + 1 \in 1 .. n + 1 /\ ~(k + 1 <= k)
    BY <1>2, <1>4
  <2> QED BY <1>3, <2>1
<1>12. ASSUME NEW j \in 1 .. n PROVE \E i \in 1 .. n + 1 : w[i] = s[j]
  <2>1. CASE j <= k
    <3>1. j \in 1 .. n + 1
      BY <1>2
    <3> QED BY <1>3, <2>1, <3>1
  <2>2. CASE ~(j <= k)
    <3>1. j + 1 \in 1 .. n + 1 /\ ~(j + 1 <= k) /\ j + 1 # k + 1 /\ j + 1 - 1 = j
      BY <1>2, <1>4, <2>2
    <3>2. w[j + 1] = s[j + 1 - 1]
      BY <1>3, <3>1
    <3> QED BY <3>1, <3>2
  <2> QED BY <2>1, <2>2
<1>13. InsertedIn(s, e, w)
  BY <1>3, <1>4, <1>8, <1>10, <1>11, <1>12 DEF InsertedIn
<1>14. CountsMore(s, e, w)
  BY <1>5 DEF CountsMore
<1> QED BY <1>13, <1>14 DEF w

\* A typed event that is inserted goes behind all that was typed before it.
LEMMA InsertTyped ==
    ASSUME NEW s \in Seq(Events), NEW e \in Events, InTime(s), NEW T, "none" \notin T,
           \A i \in 1 .. Len(s) : Typed(s[i]) /\ Typed(e) => s[i].at <= e.at
    PROVE  /\ Of(s, "text", T) \in Seq(Texts)
           /\ Of(Insert(s, e), "text", T) = Of(s, "text", T) \o KeptOf(e.text, T)
<1>1. PICK k \in 0 .. Len(s) : /\ Insert(s, e) = Put(s, k, e)
                               /\ \A i \in 1 .. k : s[i].at <= e.at
                               /\ \A i \in k + 1 .. Len(s) : e.at < s[i].at
  BY InsertParts
<1> DEFINE n == Len(s)
           q == Drop(s, k)
           a == Of(Take(s, k), "text", T)
           b == Of(q, "text", T)
<1>2. n \in Nat /\ e.at \in Nat /\ \A i \in 1 .. n : s[i].at \in Nat
  BY LenProperties, ElementOfSeq DEF Events
<1>3. HasField(Events, "text", Texts)
  BY DEF HasField, Events
<1>4. /\ a \in Seq(Texts) /\ b \in Seq(Texts) /\ Of(s, "text", T) = a \o b
      /\ Of(Put(s, k, e), "text", T) = (a \o KeptOf(e["text"], T)) \o b
  BY <1>3, OfPut
<1>5. q \in Seq(Events) /\ Len(q) = n - k /\ \A i \in 1 .. n - k : q[i] = s[k + i]
  BY CutParts
<1>6. a \o b \in Seq(Texts)
  <2> HIDE DEF a, b
  <2> QED BY <1>4, ConcatProperties
<1> HIDE DEF a, q
<1>7. CASE e.text \in T
  <2>1. Typed(e)
    BY <1>7 DEF Typed
  <2>2. ASSUME NEW i \in 1 .. Len(q) PROVE q[i]["text"] \notin T
    <3>1. i \in 1 .. n - k /\ k + i \in 1 .. n /\ k + i \in k + 1 .. n
      BY <1>2, <1>5
    <3>2. q[i] = s[k + i] /\ e.at < s[k + i].at
      BY <1>1, <1>5, <3>1
    <3>3. ~Typed(s[k + i])
      BY <1>2, <2>1, <3>1, <3>2
    <3> QED BY <3>2, <3>3 DEF Typed
  <2>3. b = <<>>
    BY <1>3, <1>5, <2>2, OfNothing
  <2> HIDE DEF b
  <2> DEFINE c == a \o KeptOf(e["text"], T)
  <2>4. c \in Seq(Texts)
    <3>1. KeptOf(e["text"], T) \in Seq(Texts)
      BY <1>3 DEF KeptOf, HasField
    <3> QED BY <1>4, <3>1, ConcatProperties
  <2> HIDE DEF c
  <2>5. c \o b = c /\ a \o b = a
    BY <1>4, <2>3, <2>4, ConcatEmptySeq
  <2> QED BY <1>1, <1>4, <1>6, <2>5 DEF c
<1>8. CASE e.text \notin T
  <2> HIDE DEF b
  <2>1. KeptOf(e["text"], T) = <<>>
    BY <1>8 DEF KeptOf
  <2>2. a \o <<>> = a
    BY <1>4, ConcatEmptySeq
  <2> DEFINE c == a \o b
  <2> HIDE DEF c
  <2>3. c \o <<>> = c
    BY <1>6, ConcatEmptySeq DEF c
  <2> QED BY <1>1, <1>4, <1>6, <2>1, <2>2, <2>3 DEF c
<1> QED BY <1>7, <1>8

\* What sorting has made of the first n events.
SortedTo(evs, n, s) ==
    /\ s \in Seq(Events) /\ InTime(s) /\ Len(s) = n
    /\ \A i \in 1 .. Len(s) : \E j \in 1 .. n : s[i] = evs[j]
    /\ \A j \in 1 .. n : \E i \in 1 .. Len(s) : s[i] = evs[j]
    /\ \A f \in {"type", "text"} : \A T : Len(Of(s, f, T)) = Len(Of(Take(evs, n), f, T))
    /\ TypedInTime(evs) =>
         \A T : "none" \notin T => Of(s, "text", T) = Of(Take(evs, n), "text", T)

\* One more event sorted.
LEMMA SortedToNext ==
    ASSUME NEW evs \in Seq(Events), NEW n \in 0 .. Len(evs) - 1, NEW s, SortedTo(evs, n, s)
    PROVE  SortedTo(evs, n + 1, Insert(s, evs[n + 1]))
<1> DEFINE e == evs[n + 1]
           u == Take(evs, n)
           w == Insert(s, e)
<1>1. e \in Events /\ u \in Seq(Events) /\ Take(evs, n + 1) = Append(u, e)
  BY Takes
<1>2. n \in Nat /\ Len(evs) \in Nat /\ DOMAIN evs = 1 .. Len(evs)
  BY LenProperties
<1>3. s \in Seq(Events) /\ InTime(s)
  BY DEF SortedTo
<1> HIDE DEF w, u
<1>4. InsertedIn(s, e, w) /\ CountsMore(s, e, w)
  <2>1. InsertedIn(s, e, Insert(s, e)) /\ CountsMore(s, e, Insert(s, e))
    <3> HIDE DEF e
    <3> QED BY <1>1, <1>3, InsertInTime
  <2> QED BY <2>1 DEF w
<1>5. HasField(Events, "type", Types) /\ HasField(Events, "text", Texts)
  BY DEF HasField, Events
<1>6. ASSUME NEW i \in 1 .. Len(w) PROVE \E j \in 1 .. n + 1 : w[i] = evs[j]
  <2>1. CASE w[i] = e
    <3>1. n + 1 \in 1 .. n + 1
      BY <1>2
    <3> QED BY <2>1, <3>1
  <2>2. CASE w[i] # e
    <3>1. PICK j \in 1 .. Len(s) : w[i] = s[j]
      BY <1>4, <2>2 DEF InsertedIn
    <3>2. PICK h \in 1 .. n : s[j] = evs[h]
      BY DEF SortedTo
    <3>3. h \in 1 .. n + 1
      BY <1>2
    <3> QED BY <3>1, <3>2, <3>3
  <2> QED BY <2>1, <2>2
<1>7. ASSUME NEW f \in {"type", "text"}, NEW T PROVE Len(Of(w, f, T)) = Len(Of(Take(evs, n + 1), f, T))
  <2>1. PICK B : HasField(Events, f, B)
    BY <1>5
  <2>2. Len(Of(Append(u, e), f, T)) = Len(Of(u, f, T)) + IF e[f] \in T THEN 1 ELSE 0
    BY <1>1, <2>1, OfAppend
  <2>3. Len(Of(w, f, T)) = Len(Of(s, f, T)) + IF e[f] \in T THEN 1 ELSE 0
    BY <1>4, <2>1 DEF CountsMore
  <2>4. Len(Of(s, f, T)) = Len(Of(u, f, T))
    BY DEF SortedTo, u
  <2> QED BY <1>1, <2>2, <2>3, <2>4
<1>8. ASSUME TypedInTime(evs), NEW T, "none" \notin T
      PROVE  Of(w, "text", T) = Of(Take(evs, n + 1), "text", T)
  <2>1. ASSUME NEW i \in 1 .. Len(s), Typed(s[i]), Typed(e) PROVE s[i].at <= e.at
    <3>1. PICK j \in 1 .. n : s[i] = evs[j]
      BY DEF SortedTo
    <3>2. j \in DOMAIN evs /\ n + 1 \in DOMAIN evs /\ j <= n + 1
      BY <1>2
    <3> QED BY <1>8, <2>1, <3>1, <3>2 DEF TypedInTime
  <2> HIDE DEF e
  <2>2. Of(Insert(s, e), "text", T) = Of(s, "text", T) \o KeptOf(e.text, T)
    BY <1>1, <1>3, <1>8, <2>1, InsertTyped
  <2>3. Of(Append(u, e), "text", T) = Of(u, "text", T) \o KeptOf(e["text"], T)
    BY <1>1, <1>5, OfAppend
  <2>4. Of(s, "text", T) = Of(u, "text", T)
    BY <1>8 DEF SortedTo, u
  <2> QED BY <1>1, <2>2, <2>3, <2>4 DEF w, e
<1>9. ASSUME NEW j \in 1 .. n + 1 PROVE \E i \in 1 .. Len(w) : w[i] = evs[j]
  <2>1. CASE j = n + 1
    BY <1>4, <2>1 DEF InsertedIn
  <2>2. CASE j \in 1 .. n
    <3>1. PICK i \in 1 .. Len(s) : s[i] = evs[j]
      BY <2>2 DEF SortedTo
    <3> QED BY <1>4, <3>1 DEF InsertedIn
  <2>3. j = n + 1 \/ j \in 1 .. n
    BY <1>2
  <2> QED BY <2>1, <2>2, <2>3
<1>10. w \in Seq(Events) /\ InTime(w) /\ Len(w) = n + 1
  BY <1>4 DEF InsertedIn, SortedTo
<1>11. SortedTo(evs, n + 1, w)
  BY <1>6, <1>7, <1>8, <1>9, <1>10 DEF SortedTo
<1> QED BY <1>11 DEF w, e

\* What inserting yields, whatever the order of the events.
LEMMA InsertType ==
    ASSUME NEW s \in Seq(Events), NEW e \in Events
    PROVE  Insert(s, e) \in Seq(Events)
<1> DEFINE n == Len(s)
           B == {i \in DOMAIN s : s[i].at <= e.at}
           k == Cardinality(B)
<1>1. n \in Nat /\ DOMAIN s = 1 .. n
  BY LenProperties
<1>2. k \in 0 .. n
  <2>1. B \in SUBSET (1 .. n) /\ IsFiniteSet(1 .. n)
    BY <1>1, FS_Interval
  <2>2. Cardinality(1 .. n) = n
    BY <1>1, FS_Interval
  <2> HIDE DEF B, n
  <2>3. IsFiniteSet(B) /\ Cardinality(B) <= Cardinality(1 .. n)
    BY <2>1, FS_Subset
  <2>4. Cardinality(B) \in Nat
    BY <2>3, FS_CardinalityType
  <2> QED BY <1>1, <2>2, <2>3, <2>4
<1>3. Insert(s, e) = Put(s, k, e)
  BY DEF Insert, Put, Take, Drop
<1> HIDE DEF k
<1> QED BY <1>2, <1>3, CutParts

\* The events sorted so far are those before, with one more inserted.
LEMMA EachEventSorted ==
    ASSUME NEW evs \in Seq(Events)
    PROVE  \E f : /\ Sorted(evs) = f[Len(evs)] /\ f[0] = <<>>
                  /\ \A n \in 1 .. Len(evs) : f[n] = Insert(f[n - 1], evs[n])
<1> DEFINE N == Len(evs)
           Eq(x) == x = [n \in 0 .. N |-> IF n = 0 THEN <<>> ELSE Insert(x[n - 1], evs[n])]
           F == [y \in Seq(Events) \X (1 .. N) |-> Insert(y[1], evs[y[2]])]
           f == CHOOSE x : Eq(x)
<1>1. N \in Nat /\ 0 \in 0 .. N /\ \A n \in 1 .. N : n \in 0 .. N /\ n - 1 \in 0 .. N /\ n # 0
  BY LenProperties
<1>2. <<>> \in Seq(Events) /\ \A n \in 1 .. N : evs[n] \in Events
  BY EmptySeq, ElementOfSeq
<1>3. Rule(F, Seq(Events), N)
  <2>1. \A y \in Seq(Events) \X (1 .. N) : Insert(y[1], evs[y[2]]) \in Seq(Events)
    BY <1>2, InsertType
  <2> QED BY <2>1 DEF Rule
<1>4. Sorted(evs) = f[N]
  BY DEF Sorted
<1> HIDE DEF N, f, F
<1>5. PICK g : Runs(g, Seq(Events), <<>>, N, F)
  BY <1>1, <1>2, <1>3, Recursion
<1>6. Eq(g)
  <2> DEFINE h == [n \in 0 .. N |-> IF n = 0 THEN <<>> ELSE Insert(g[n - 1], evs[n])]
  <2>1. ASSUME NEW n \in 0 .. N PROVE g[n] = h[n]
    <3>1. CASE n = 0
      BY <1>5, <3>1 DEF Runs
    <3>2. CASE n # 0
      <4>1. n \in 1 .. N /\ n - 1 \in 0 .. N
        BY <1>1, <3>2
      <4>2. g[n - 1] \in Seq(Events) /\ g[n] = F[<<g[n - 1], n>>]
        BY <1>5, <4>1 DEF Runs
      <4>3. F[<<g[n - 1], n>>] = Insert(g[n - 1], evs[n])
        BY <4>1, <4>2 DEF F
      <4> QED BY <3>2, <4>2, <4>3
    <3> QED BY <3>1, <3>2
  <2>2. g = [n \in 0 .. N |-> g[n]] /\ h = [n \in 0 .. N |-> h[n]]
    BY <1>5 DEF Runs
  <2>3. g = h
    <3> HIDE DEF h
    <3> QED BY <2>1, <2>2
  <2> QED BY <2>3
<1>7. Eq(f)
  <2> HIDE DEF Eq
  <2> QED BY <1>6 DEF f
<1>8. f[0] = <<>> /\ \A n \in 1 .. N : f[n] = Insert(f[n - 1], evs[n])
  BY <1>1, <1>7
<1> QED BY <1>4, <1>8 DEF N

\* What sorting makes of all the events.
LEMMA SortAll ==
    ASSUME NEW evs \in Seq(Events)
    PROVE  SortedTo(evs, Len(evs), Sorted(evs))
<1> DEFINE N == Len(evs)
<1>1. PICK f : /\ Sorted(evs) = f[Len(evs)] /\ f[0] = <<>>
               /\ \A n \in 1 .. Len(evs) : f[n] = Insert(f[n - 1], evs[n])
  BY EachEventSorted
<1> DEFINE S == {n \in Nat : n <= N => SortedTo(evs, n, f[n])}
<1>2. N \in Nat
  BY LenProperties
<1>3. \A n \in 1 .. N : f[n] = Insert(f[n - 1], evs[n])
  BY <1>1
<1> HIDE DEF N
<1>4. SortedTo(evs, 0, <<>>)
  <2>1. Take(evs, 0) = <<>> /\ \A g, T : Of(<<>>, g, T) = <<>>
    BY Takes, OfNone
  <2>2. <<>> \in Seq(Events) /\ Len(<<>>) = 0 /\ DOMAIN <<>> = {}
    BY EmptySeq
  <2>3. InTime(<<>>)
    BY <2>2 DEF InTime
  <2> QED BY <2>1, <2>2, <2>3 DEF SortedTo
<1>5. 0 \in S
  BY <1>1, <1>4
<1>6. ASSUME NEW n \in Nat, n \in S PROVE n + 1 \in S
  <2> SUFFICES ASSUME n + 1 <= N PROVE SortedTo(evs, n + 1, f[n + 1])
    OBVIOUS
  <2> DEFINE k == n + 1
  <2>1. n <= N /\ n \in 0 .. N - 1 /\ k \in 1 .. N /\ k - 1 = n
    BY <1>2
  <2>2. SortedTo(evs, n, f[n])
    BY <1>6, <2>1
  <2> HIDE DEF k
  <2>3. f[k] = Insert(f[n], evs[k])
    BY <1>3, <2>1
  <2>4. SortedTo(evs, n + 1, Insert(f[n], evs[n + 1]))
    BY <2>1, <2>2, SortedToNext DEF N
  <2> QED BY <2>3, <2>4 DEF k
<1> HIDE DEF S
<1>7. N \in S
  BY <1>2, <1>5, <1>6, NumbersFrom0
<1> QED BY <1>1, <1>2, <1>7 DEF S, N

-----------------------------------------------------------------------------
\* The states of the mapper, and what pushing a step adds to one.
MapStates == [steps : Seq(Steps), warnings : Nat, tap : [p : Nat, at : Nat],
              input : {"none", "input"}, next : Nat]

LEMMA PushAdds ==
    ASSUME NEW st \in MapStates, NEW x \in Steps
    PROVE  LET to == Push(st, x)
           IN /\ to \in MapStates /\ to.warnings = st.warnings /\ to.next = st.next
              /\ Flat(TextOf(to.steps)) = Flat(TextOf(st.steps)) \o x.text
              /\ Len(Of(to.steps, "act", Doing))
                   = Len(Of(st.steps, "act", Doing)) + IF x.act \in Doing THEN 1 ELSE 0
              /\ Len(st.steps) \in Nat /\ to.steps[Len(st.steps) + 1] = x
              /\ Len(to.steps) \in Nat /\ Len(st.steps) < Len(to.steps)
              /\ \A i \in 1 .. Len(st.steps) : to.steps[i] = st.steps[i]
<1> DEFINE s == st.steps
           y == AutoWait(x.target)
           t == Append(s, x)
           w == Append(t, y)
           more == x.act \in {"tap_element", "type"} /\ x.target # "none"
           new == IF more THEN s \o <<x, y>> ELSE s \o <<x>>
           to == Push(st, x)
<1>1. s \in Seq(Steps) /\ Len(s) \in Nat
  BY LenProperties DEF MapStates
<1>2. y \in Steps /\ y.text = <<>> /\ y.act = "wait"
  BY EmptySeq DEF AutoWait, Step, Steps, NoPoint
<1>3. to = [st EXCEPT !.steps = new]
  BY DEF Push
<1> HIDE DEF s, y
<1>4. s \o <<x>> = t /\ s \o <<x, y>> = w
  <2>1. t = s \o <<x>>
    BY <1>1, AppendIsConcat
  <2>2. <<x>> \in Seq(Steps) /\ Append(<<x>>, y) = <<x, y>>
    BY <1>2, Pair
  <2>3. s \o Append(<<x>>, y) = Append(s \o <<x>>, y)
    BY <1>1, <1>2, <2>2, AppendOfConcat
  <2> QED BY <2>1, <2>2, <2>3
<1>5. new = IF more THEN w ELSE t
  BY <1>4
<1>6. HasField(Steps, "act", Doing \cup {"type", "wait", "launch"}) /\ \A z \in Steps : z.text \in Seq(Spoken)
  BY DEF HasField, Steps
<1>7. \A u \in Seq(Steps), z \in Steps :
        /\ Append(u, z) \in Seq(Steps) /\ Len(Append(u, z)) = Len(u) + 1 /\ Append(u, z)[Len(u) + 1] = z
        /\ \A i \in 1 .. Len(u) : Append(u, z)[i] = u[i]
        /\ Flat(TextOf(u)) \in Seq(Spoken) /\ Flat(TextOf(Append(u, z))) = Flat(TextOf(u)) \o z.text
        /\ Len(Of(u, "act", Doing)) \in Nat
        /\ Len(Of(Append(u, z), "act", Doing)) = Len(Of(u, "act", Doing)) + IF z.act \in Doing THEN 1 ELSE 0
  <2> TAKE u \in Seq(Steps), z \in Steps
  <2>1. /\ Append(u, z) \in Seq(Steps) /\ Len(Append(u, z)) = Len(u) + 1 /\ Append(u, z)[Len(u) + 1] = z
        /\ \A i \in 1 .. Len(u) : Append(u, z)[i] = u[i]
    BY AppendProperties
  <2>2. Flat(TextOf(u)) \in Seq(Spoken) /\ Flat(TextOf(Append(u, z))) = Flat(TextOf(u)) \o z.text
    BY <1>6, TextAppend
  <2>3. /\ Len(Of(u, "act", Doing)) \in Nat
        /\ Len(Of(Append(u, z), "act", Doing)) = Len(Of(u, "act", Doing)) + IF z["act"] \in Doing THEN 1 ELSE 0
    BY <1>6, OfAppend
  <2> QED BY <2>1, <2>2, <2>3
<1> HIDE DEF t, w
<1>8. /\ t \in Seq(Steps) /\ Len(t) = Len(s) + 1 /\ t[Len(s) + 1] = x
      /\ \A i \in 1 .. Len(s) : t[i] = s[i]
      /\ Flat(TextOf(t)) = Flat(TextOf(s)) \o x.text /\ Flat(TextOf(t)) \in Seq(Spoken)
      /\ Len(Of(s, "act", Doing)) \in Nat
      /\ Len(Of(t, "act", Doing)) = Len(Of(s, "act", Doing)) + IF x.act \in Doing THEN 1 ELSE 0
      /\ Len(Of(t, "act", Doing)) \in Nat
  BY <1>1, <1>7 DEF t
<1>9. /\ w \in Seq(Steps) /\ Len(w) = Len(s) + 2 /\ w[Len(s) + 1] = x
      /\ \A i \in 1 .. Len(s) : w[i] = s[i]
      /\ Flat(TextOf(w)) = Flat(TextOf(s)) \o x.text
      /\ Len(Of(w, "act", Doing)) = Len(Of(t, "act", Doing))
  <2>1. /\ w \in Seq(Steps) /\ Len(w) = Len(t) + 1 /\ (\A i \in 1 .. Len(t) : w[i] = t[i])
        /\ Flat(TextOf(w)) = Flat(TextOf(t)) \o <<>>
        /\ Len(Of(w, "act", Doing)) = Len(Of(t, "act", Doing)) + IF y.act \in Doing THEN 1 ELSE 0
    <3>1. t \in Seq(Steps) /\ y \in Steps
      BY <1>2, <1>8
    <3>2. w \in Seq(Steps) /\ Len(w) = Len(t) + 1 /\ \A i \in 1 .. Len(t) : w[i] = t[i]
      BY <1>7, <3>1 DEF w
    <3>3. Flat(TextOf(w)) = Flat(TextOf(t)) \o y.text
      BY <1>7, <3>1 DEF w
    <3>4. Len(Of(w, "act", Doing)) = Len(Of(t, "act", Doing)) + IF y.act \in Doing THEN 1 ELSE 0
      BY <1>7, <3>1 DEF w
    <3> QED BY <1>2, <3>2, <3>3, <3>4
  <2>2. Flat(TextOf(t)) \o <<>> = Flat(TextOf(t))
    BY <1>8, ConcatEmptySeq
  <2>3. y.act \notin Doing
    BY <1>2 DEF Doing
  <2>4. Len(s) + 1 \in 1 .. Len(t) /\ \A i \in 1 .. Len(s) : i \in 1 .. Len(t)
    BY <1>1, <1>8
  <2>5. Len(w) = Len(s) + 2 /\ w[Len(s) + 1] = x /\ \A i \in 1 .. Len(s) : w[i] = s[i]
    BY <1>1, <1>8, <2>1, <2>4
  <2>6. Len(Of(w, "act", Doing)) = Len(Of(t, "act", Doing))
    BY <1>8, <2>1, <2>3
  <2> QED BY <1>8, <2>1, <2>2, <2>5, <2>6
<1>10. to \in MapStates /\ to.warnings = st.warnings /\ to.next = st.next /\ to.steps = new
  <2>1. new \in Seq(Steps)
    BY <1>5, <1>8, <1>9
  <2> HIDE DEF new
  <2> QED BY <1>3, <2>1 DEF MapStates
<1> HIDE DEF new, to, more
<1>11. /\ Flat(TextOf(new)) = Flat(TextOf(s)) \o x.text
       /\ Len(Of(new, "act", Doing)) = Len(Of(s, "act", Doing)) + IF x.act \in Doing THEN 1 ELSE 0
       /\ new[Len(s) + 1] = x /\ Len(new) \in Nat /\ Len(s) < Len(new)
       /\ \A i \in 1 .. Len(s) : new[i] = s[i]
  <2>1. CASE more
    <3>1. new = w
      BY <1>5, <2>1
    <3> QED BY <1>1, <1>8, <1>9, <3>1
  <2>2. CASE ~more
    <3>1. new = t
      BY <1>5, <2>2
    <3> QED BY <1>1, <1>8, <3>1
  <2> QED BY <2>1, <2>2
<1> QED BY <1>1, <1>10, <1>11 DEF to, s

-----------------------------------------------------------------------------
\* A chunk of text: all of it is text, and what is consumed with it is a delimiter.
LEMMA Chunk ==
    ASSUME NEW evs \in Seq(Events), NEW i \in 1 .. Len(evs), evs[i].type = "text"
    PROVE  /\ ChunkStop(evs, i) \in i + 1 .. Len(evs) + 1
           /\ \A k \in i .. ChunkStop(evs, i) - 1 : evs[k].type = "text"
           /\ \/ NextAfter(evs, ChunkStop(evs, i)) = ChunkStop(evs, i)
              \/ /\ ChunkStop(evs, i) <= Len(evs)
                 /\ NextAfter(evs, ChunkStop(evs, i)) = ChunkStop(evs, i) + 1
                 /\ evs[ChunkStop(evs, i)].type = "text" /\ evs[ChunkStop(evs, i)].text = "tab"
<1> DEFINE N == Len(evs)
           B == {k \in i + 1 .. N + 1 : Stops(evs, k)}
           j == ChunkStop(evs, i)
<1>1. N \in Nat
  BY LenProperties
<1>2. B \in SUBSET Nat /\ N + 1 \in B
  BY <1>1 DEF Stops
<1>3. j = Min(B)
  BY DEF ChunkStop
<1> HIDE DEF B
<1>4. j \in B /\ \A y \in B : j <= y
  BY <1>2, <1>3, Least
<1>5. j \in i + 1 .. N + 1 /\ Stops(evs, j)
  BY <1>4 DEF B
<1>6. ASSUME NEW k \in i .. j - 1 PROVE evs[k].type = "text"
  <2>1. CASE k = i
    BY <2>1
  <2>2. CASE k # i
    <3>1. k \in i + 1 .. N + 1 /\ ~(j <= k) /\ k <= N
      BY <1>1, <1>5, <2>2
    <3>2. ~Stops(evs, k)
      BY <1>4, <3>1 DEF B
    <3> QED BY <3>2 DEF Stops
  <2> QED BY <2>1, <2>2
<1>7. \/ NextAfter(evs, j) = j
      \/ j <= N /\ NextAfter(evs, j) = j + 1 /\ evs[j].type = "text" /\ evs[j].text = "tab"
  <2>1. CASE j <= N /\ evs[j].type = "text" /\ ~Pause(evs, j)
    <3>1. evs[j].text = "tab"
      BY <1>1, <1>5, <2>1 DEF Stops
    <3>2. NextAfter(evs, j) = j + 1
      BY <2>1 DEF NextAfter
    <3> QED BY <2>1, <3>1, <3>2
  <2>2. CASE ~(j <= N /\ evs[j].type = "text" /\ ~Pause(evs, j))
    BY <2>2 DEF NextAfter
  <2> QED BY <2>1, <2>2
<1> QED BY <1>5, <1>6, <1>7

\* A field of the first events, one more and several more.
LEMMA OneMore ==
    ASSUME NEW evs \in Seq(Events), NEW n \in 0 .. Len(evs) - 1, NEW T
    PROVE  /\ Of(Take(evs, n), "text", T) \in Seq(Texts)
           /\ Of(Take(evs, n + 1), "text", T) = Of(Take(evs, n), "text", T) \o KeptOf(evs[n + 1].text, T)
           /\ Len(Of(Take(evs, n), "type", T)) \in Nat
           /\ Len(Of(Take(evs, n + 1), "type", T))
                = Len(Of(Take(evs, n), "type", T)) + IF evs[n + 1].type \in T THEN 1 ELSE 0
<1> DEFINE u == Take(evs, n)
           e == evs[n + 1]
<1>1. u \in Seq(Events) /\ e \in Events /\ Take(evs, n + 1) = Append(u, e)
  BY Takes
<1>2. HasField(Events, "text", Texts) /\ HasField(Events, "type", Types)
  BY DEF HasField, Events
<1> HIDE DEF u, e
<1>3. /\ Of(u, "text", T) \in Seq(Texts)
      /\ Of(Append(u, e), "text", T) = Of(u, "text", T) \o KeptOf(e["text"], T)
  BY <1>1, <1>2, OfAppend
<1>4. /\ Len(Of(u, "type", T)) \in Nat
      /\ Len(Of(Append(u, e), "type", T)) = Len(Of(u, "type", T)) + IF e["type"] \in T THEN 1 ELSE 0
  BY <1>1, <1>2, OfAppend
<1> QED BY <1>1, <1>3, <1>4 DEF u, e

LEMMA ListOf ==
    ASSUME NEW A, NEW n \in Nat, NEW f \in [1 .. n -> A]
    PROVE  f \in Seq(A) /\ Len(f) = n /\ DOMAIN f = 1 .. n
OBVIOUS

IsChunk(text, evs, i, j) == text = [k \in 1 .. j - i |-> evs[i + k - 1].text]

LEMMA SeveralMore ==
    ASSUME NEW evs \in Seq(Events), NEW i \in 1 .. Len(evs), NEW j \in i + 1 .. Len(evs) + 1,
           \A k \in i .. j - 1 : evs[k].type = "text",
           NEW text, IsChunk(text, evs, i, j)
    PROVE  /\ text \in Seq(Spoken)
           /\ \A T : Of(Take(evs, j - 1), "text", T) = Of(Take(evs, i - 1), "text", T) \o Kept(text, T)
           /\ Len(Of(Take(evs, j - 1), "type", Gestures)) = Len(Of(Take(evs, i - 1), "type", Gestures))
<1> DEFINE N == Len(evs)
           a == Take(evs, i - 1)
           b == Take(evs, j - 1)
           ta == FieldOf(a, "text")
           tb == FieldOf(b, "text")
<1>1. N \in Nat /\ DOMAIN evs = 1 .. N /\ \A n \in 1 .. N : evs[n] \in Events
  BY LenProperties, ElementOfSeq
<1>2. i - 1 \in 0 .. N /\ j - 1 \in 0 .. N /\ i - 1 \in Nat /\ j - 1 \in Nat /\ i - 1 < j - 1
  BY <1>1
<1>3. \A n \in 0 .. N : /\ Take(evs, n) \in Seq(Events) /\ Len(Take(evs, n)) = n
                        /\ \A k \in 1 .. n : Take(evs, n)[k] = evs[k]
  BY Takes
<1>4. /\ a \in Seq(Events) /\ Len(a) = i - 1 /\ (\A k \in 1 .. i - 1 : a[k] = evs[k])
      /\ b \in Seq(Events) /\ Len(b) = j - 1 /\ (\A k \in 1 .. j - 1 : b[k] = evs[k])
  BY <1>2, <1>3
<1>5. DOMAIN a = 1 .. i - 1 /\ DOMAIN b = 1 .. j - 1
  BY <1>4, LenProperties
<1> HIDE DEF a, b
<1>6. text \in Seq(Spoken) /\ text \in Seq(Texts) /\ Len(text) = j - i
      /\ \A k \in 1 .. j - i : text[k] = evs[i + k - 1].text
  <2> USE DEF IsChunk
  <2>1. ASSUME NEW k \in 1 .. j - i PROVE evs[i + k - 1].text \in Spoken
    <3>1. i + k - 1 \in i .. j - 1 /\ i + k - 1 \in 1 .. N
      BY <1>1, <1>2
    <3>2. evs[i + k - 1] \in Events /\ evs[i + k - 1].type = "text"
      BY <1>1, <3>1
    <3> QED BY <3>2 DEF Events, Spoken
  <2> DEFINE m == j - i
  <2>2. m \in Nat /\ \A k \in 1 .. m : evs[i + k - 1].text \in Spoken
    BY <1>1, <2>1
  <2>3. text \in Seq(Spoken) /\ Len(text) = j - i
    <3>1. text = [k \in 1 .. m |-> evs[i + k - 1].text]
      BY DEF IsChunk
    <3> HIDE DEF m
    <3>2. text \in [1 .. m -> Spoken]
      BY <2>2, <3>1
    <3>3. text \in Seq(Spoken) /\ Len(text) = m
      BY <2>2, <3>2, ListOf
    <3> QED BY <3>3 DEF m
  <2>4. text \in Seq(Texts)
    BY <2>3, SeqMonotonic DEF Spoken
  <2> QED BY <2>3, <2>4
<1>7. /\ ta \in Seq(Texts) /\ Len(ta) = i - 1 /\ (\A k \in 1 .. i - 1 : ta[k] = evs[k].text)
      /\ tb \in Seq(Texts) /\ Len(tb) = j - 1 /\ (\A k \in 1 .. j - 1 : tb[k] = evs[k].text)
  <2>1. \A k \in 1 .. N : evs[k].text \in Texts
    BY <1>1 DEF Events
  <2>2. (\A k \in 1 .. i - 1 : k \in 1 .. N) /\ \A k \in 1 .. j - 1 : k \in 1 .. N
    BY <1>1, <1>2
  <2>3. ta \in [1 .. i - 1 -> Texts] /\ \A k \in 1 .. i - 1 : ta[k] = evs[k].text
    BY <1>4, <1>5, <2>1, <2>2 DEF FieldOf
  <2>4. tb \in [1 .. j - 1 -> Texts] /\ \A k \in 1 .. j - 1 : tb[k] = evs[k].text
    BY <1>4, <1>5, <2>1, <2>2 DEF FieldOf
  <2> HIDE DEF ta, tb
  <2>5. ta \in Seq(Texts) /\ Len(ta) = i - 1
    BY <1>2, <2>3, ListOf
  <2>6. tb \in Seq(Texts) /\ Len(tb) = j - 1
    BY <1>2, <2>4, ListOf
  <2> QED BY <2>3, <2>4, <2>5, <2>6
<1> HIDE DEF ta, tb
<1>8. tb = ta \o text
  <2> DEFINE c == ta \o text
  <2>0. ta \in Seq(Texts) /\ text \in Seq(Texts)
    BY <1>6, <1>7
  <2>1. /\ c \in Seq(Texts) /\ Len(c) = Len(ta) + Len(text)
        /\ (\A k \in 1 .. Len(ta) : c[k] = ta[k])
        /\ \A k \in Len(ta) + 1 .. Len(ta) + Len(text) : c[k] = text[k - Len(ta)]
    BY <2>0, ConcatProperties
  <2> HIDE DEF c
  <2>2. ASSUME NEW k \in 1 .. j - 1 PROVE tb[k] = c[k]
    <3>1. CASE k \in 1 .. i - 1
      BY <1>7, <2>1, <2>2, <3>1
    <3>2. CASE k \notin 1 .. i - 1
      <4>1. k \in Len(ta) + 1 .. Len(ta) + Len(text) /\ k - Len(ta) \in 1 .. j - i
        BY <1>2, <1>6, <1>7, <3>2
      <4>2. i + (k - Len(ta)) - 1 = k
        BY <1>2, <1>7
      <4>3. c[k] = text[k - Len(ta)]
        BY <2>1, <4>1
      <4>4. text[k - Len(ta)] = evs[i + (k - Len(ta)) - 1].text
        BY <1>6, <4>1
      <4> QED BY <1>7, <2>2, <4>2, <4>3, <4>4
    <3> QED BY <3>1, <3>2
  <2>3. Len(c) = j - 1
    BY <1>2, <1>6, <1>7, <2>1
  <2>4. tb = c
    BY <1>7, <2>1, <2>2, <2>3, SeqEqual
  <2> QED BY <2>4 DEF c
<1>9. \A T : Kept(tb, T) = Kept(ta, T) \o Kept(text, T)
  <2>1. ta \in Seq(Texts) /\ text \in Seq(Texts)
    BY <1>6, <1>7
  <2> TAKE T
  <2>2. Kept(ta \o text, T) = Kept(ta, T) \o Kept(text, T)
    BY <2>1, KeptConcat
  <2> QED BY <1>8, <2>2
<1>10. Len(Of(b, "type", Gestures)) = Len(Of(a, "type", Gestures))
  <2> DEFINE ya == FieldOf(a, "type")
             yb == FieldOf(b, "type")
  <2>1. \A k \in 1 .. N : evs[k].type \in Types
    BY <1>1 DEF Events
  <2>2. (\A k \in 1 .. i - 1 : k \in 1 .. N) /\ \A k \in 1 .. j - 1 : k \in 1 .. N
    BY <1>1, <1>2
  <2>3. ya \in [1 .. i - 1 -> Types] /\ \A k \in 1 .. i - 1 : ya[k] = evs[k].type
    BY <1>4, <1>5, <2>1, <2>2 DEF FieldOf
  <2>4. yb \in [1 .. j - 1 -> Types] /\ \A k \in 1 .. j - 1 : yb[k] = evs[k].type
    BY <1>4, <1>5, <2>1, <2>2 DEF FieldOf
  <2> HIDE DEF ya, yb
  <2>5. ya \in Seq(Types) /\ DOMAIN ya = 1 .. i - 1 /\ yb \in Seq(Types) /\ DOMAIN yb = 1 .. j - 1
    <3>1. ya \in Seq(Types) /\ DOMAIN ya = 1 .. i - 1
      BY <1>2, <2>3, ListOf
    <3>2. yb \in Seq(Types) /\ DOMAIN yb = 1 .. j - 1
      BY <1>2, <2>4, ListOf
    <3> QED BY <3>1, <3>2
  <2>6. \A k \in 1 .. j - 1 : k \in 1 .. i - 1 \/ k \in i .. j - 1
    BY <1>2
  <2>7. \A k \in 1 .. i - 1 : k \in 1 .. j - 1
    BY <1>2
  <2>8. \A k \in i .. j - 1 : evs[k].type \notin Gestures
    BY DEF Gestures
  <2>9. Where(ya, Gestures) = Where(yb, Gestures)
    BY <2>3, <2>4, <2>5, <2>6, <2>7, <2>8 DEF Where
  <2>10. /\ Cardinality(Where(ya, Gestures)) = Len(Kept(ya, Gestures))
         /\ Cardinality(Where(yb, Gestures)) = Len(Kept(yb, Gestures))
    BY <2>5, KeptCounts
  <2> QED BY <2>9, <2>10 DEF Of, ya, yb
<1> QED BY <1>6, <1>9, <1>10 DEF Of, ta, tb, a, b

-----------------------------------------------------------------------------
\* How many events the mapper is past after n of them: a chunk may have taken in more.
Past(st, n) == IF st.next > n + 1 THEN st.next - 1 ELSE n
Blanks == {Chars, Chars \cup {"space"}}

\* What the mapper has made of the events it is past.
MapTo(evs, n, st) ==
    /\ st \in MapStates /\ st.next \in 1 .. Len(evs) + 1
    /\ \A T \in Blanks : T = Chars \/ st.warnings = 0 =>
         Kept(Flat(TextOf(st.steps)), T) = Of(Take(evs, Past(st, n)), "text", T)
    /\ st.warnings = 0 =>
         Len(Of(st.steps, "act", Doing)) = Len(Of(Take(evs, Past(st, n)), "type", Gestures))
    /\ \A k \in 1 .. Past(st, n) : evs[k].type = "back" =>
         \E i \in 1 .. Len(st.steps) : Commands(st.steps[i]) = <<>>

LEMMA StepsText == ASSUME NEW s \in Seq(Steps) PROVE Flat(TextOf(s)) \in Seq(Spoken)
<1>1. \A y \in Steps : y.text \in Seq(Spoken)
  BY DEF Steps
<1> QED BY <1>1, TextType

\* An event that is left out with a warning.
LEMMA Skips ==
    ASSUME NEW evs \in Seq(Events), NEW n \in 0 .. Len(evs) - 1, NEW st, MapTo(evs, n, st),
           st.next <= n + 1, evs[n + 1].text \notin Chars, evs[n + 1].type # "back"
    PROVE  MapTo(evs, n + 1, Warn(st))
<1>0. /\ Of(Take(evs, n), "text", Chars) \in Seq(Texts)
      /\ Of(Take(evs, n + 1), "text", Chars)
           = Of(Take(evs, n), "text", Chars) \o KeptOf(evs[n + 1].text, Chars)
  <2> DEFINE T == Chars
  <2> HIDE DEF T
  <2>1. /\ Of(Take(evs, n), "text", T) \in Seq(Texts)
        /\ Of(Take(evs, n + 1), "text", T)
             = Of(Take(evs, n), "text", T) \o KeptOf(evs[n + 1].text, T)
    BY OneMore
  <2> QED BY <2>1 DEF T
<1> DEFINE q == Warn(st)
           N == Len(evs)
<1>1. st \in MapStates /\ st.next \in 1 .. N + 1 /\ N \in Nat /\ st.warnings \in Nat
  BY LenProperties DEF MapTo, MapStates
<1>2. /\ q \in MapStates /\ q.next = st.next /\ q.steps = st.steps /\ q.warnings # 0
  <2> DEFINE v == st.warnings + 1
  <2>1. v \in Nat /\ v # 0 /\ q = [st EXCEPT !.warnings = v]
    <3>1. v \in Nat /\ v # 0
      BY <1>1
    <3>2. q = [st EXCEPT !.warnings = v]
      BY Zenon DEF Warn
    <3> QED BY <3>1, <3>2
  <2> HIDE DEF v, q
  <2>2. q \in MapStates
    BY <1>1, <2>1 DEF MapStates
  <2> QED BY <1>1, <2>1, <2>2 DEF MapStates
<1> HIDE DEF q
<1>3. Past(st, n) = n /\ Past(q, n + 1) = n + 1
  BY <1>1, <1>2 DEF Past
<1>4. ASSUME NEW T \in Blanks, T = Chars \/ q.warnings = 0
      PROVE  Kept(Flat(TextOf(q.steps)), T) = Of(Take(evs, n + 1), "text", T)
  <2>1. T = Chars /\ Chars \in Blanks
    BY <1>2, <1>4 DEF Blanks
  <2>3. KeptOf(evs[n + 1].text, Chars) = <<>>
    BY DEF KeptOf
  <2>4. Of(Take(evs, n), "text", Chars) \o <<>> = Of(Take(evs, n), "text", Chars)
    BY <1>0, ConcatEmptySeq
  <2>5. Kept(Flat(TextOf(st.steps)), Chars) = Of(Take(evs, n), "text", Chars)
    BY <1>3, <2>1 DEF MapTo
  <2> QED BY <1>0, <1>2, <2>1, <2>3, <2>4, <2>5
<1>5. ASSUME NEW k \in 1 .. n + 1, evs[k].type = "back"
      PROVE  \E i \in 1 .. Len(q.steps) : Commands(q.steps[i]) = <<>>
  <2>1. k \in 1 .. n
    BY <1>5
  <2> QED BY <1>2, <1>3, <1>5, <2>1 DEF MapTo
<1> QED BY <1>1, <1>2, <1>3, <1>4, <1>5 DEF MapTo, q

\* Events, up to m - 1, for which a step is pushed.
LEMMA Advances ==
    ASSUME NEW evs \in Seq(Events), NEW n \in 0 .. Len(evs) - 1, NEW st, MapTo(evs, n, st),
           st.next <= n + 1,
           NEW r \in MapStates, r.steps = st.steps, r.warnings = st.warnings, NEW x \in Steps,
           NEW q \in MapStates, q.steps = Push(r, x).steps, q.warnings = r.warnings,
           q.next \in 1 .. Len(evs) + 1, NEW m, m = Past(q, n + 1),
           \A T \in Blanks : Of(Take(evs, m), "text", T) = Of(Take(evs, n), "text", T) \o Kept(x.text, T),
           Len(Of(Take(evs, m), "type", Gestures))
             = Len(Of(Take(evs, n), "type", Gestures)) + IF x.act \in Doing THEN 1 ELSE 0,
           \A k \in n + 1 .. m : evs[k].type = "back" => Commands(x) = <<>>
    PROVE  MapTo(evs, n + 1, q)
<1> DEFINE s == st.steps
           w == q.steps
<1>1. /\ st \in MapStates /\ s \in Seq(Steps) /\ n \in Nat /\ Len(evs) \in Nat
      /\ st.next \in Nat /\ q.next \in Nat
  BY LenProperties DEF MapTo, MapStates
<1>2. Past(st, n) = n /\ m \in Nat
  BY <1>1 DEF Past
<1>3. /\ Flat(TextOf(w)) = Flat(TextOf(s)) \o x.text
      /\ Len(Of(w, "act", Doing)) = Len(Of(s, "act", Doing)) + IF x.act \in Doing THEN 1 ELSE 0
      /\ Len(s) \in Nat /\ w[Len(s) + 1] = x /\ Len(w) \in Nat /\ Len(s) < Len(w)
      /\ \A i \in 1 .. Len(s) : w[i] = s[i]
  <2> DEFINE p == Push(r, x).steps
             z == r.steps
  <2>1. /\ Flat(TextOf(p)) = Flat(TextOf(z)) \o x.text
        /\ Len(Of(p, "act", Doing)) = Len(Of(z, "act", Doing)) + IF x.act \in Doing THEN 1 ELSE 0
        /\ Len(z) \in Nat /\ p[Len(z) + 1] = x /\ Len(p) \in Nat /\ Len(z) < Len(p)
        /\ \A i \in 1 .. Len(z) : p[i] = z[i]
    BY PushAdds
  <2>2. p = w /\ z = s
    OBVIOUS
  <2> HIDE DEF p, z, w, s
  <2> QED BY <2>1, <2>2
<1> HIDE DEF s, w
<1>4. ASSUME NEW T \in Blanks, T = Chars \/ q.warnings = 0
      PROVE  Kept(Flat(TextOf(w)), T) = Of(Take(evs, m), "text", T)
  <2> DEFINE fs == Flat(TextOf(s))
             ft == x.text
  <2>1. fs \in Seq(Spoken) /\ ft \in Seq(Spoken)
    <3>1. fs \in Seq(Spoken)
      BY <1>1, StepsText
    <3>2. ft \in Seq(Spoken)
      BY DEF Steps
    <3> QED BY <3>1, <3>2
  <2>2. Kept(fs, T) = Of(Take(evs, n), "text", T)
    BY <1>2, <1>4 DEF MapTo, s
  <2>3. Of(Take(evs, m), "text", T) = Of(Take(evs, n), "text", T) \o Kept(ft, T)
    OBVIOUS
  <2>4. Flat(TextOf(w)) = fs \o ft
    BY <1>3
  <2> HIDE DEF fs, ft
  <2>5. Kept(fs \o ft, T) = Kept(fs, T) \o Kept(ft, T)
    BY <2>1, KeptConcat
  <2> QED BY <2>2, <2>3, <2>4, <2>5
<1>5. ASSUME q.warnings = 0
      PROVE  Len(Of(w, "act", Doing)) = Len(Of(Take(evs, m), "type", Gestures))
  <2>1. Len(Of(s, "act", Doing)) = Len(Of(Take(evs, n), "type", Gestures))
    BY <1>2, <1>5 DEF MapTo, s
  <2> QED BY <1>3, <2>1
<1>6. ASSUME NEW k \in 1 .. m, evs[k].type = "back"
      PROVE  \E i \in 1 .. Len(w) : Commands(w[i]) = <<>>
  <2>1. CASE k \in n + 1 .. m
    <3>1. Len(s) + 1 \in 1 .. Len(w)
      BY <1>3
    <3> QED BY <1>3, <1>6, <2>1, <3>1
  <2>2. CASE k \notin n + 1 .. m
    <3>1. k \in 1 .. n
      BY <1>1, <1>2, <2>2
    <3>2. PICK i \in 1 .. Len(s) : Commands(s[i]) = <<>>
      BY <1>2, <1>6, <3>1 DEF MapTo, s
    <3>3. i \in 1 .. Len(w)
      BY <1>3
    <3> QED BY <1>3, <3>2, <3>3
  <2> QED BY <2>1, <2>2
<1> QED BY <1>4, <1>5, <1>6 DEF MapTo, w

\* One event that is no text.
LEMMA AdvancesOne ==
    ASSUME NEW evs \in Seq(Events), NEW n \in 0 .. Len(evs) - 1, NEW st, MapTo(evs, n, st),
           st.next <= n + 1, evs[n + 1].type # "text",
           NEW r \in MapStates, r.steps = st.steps, r.warnings = st.warnings, r.next = st.next,
           NEW x \in Steps, x.text = <<>>, x.act \in Doing <=> evs[n + 1].type \in Gestures,
           evs[n + 1].type = "back" => Commands(x) = <<>>
    PROVE  MapTo(evs, n + 1, Push(r, x))
<1> DEFINE q == Push(r, x)
           N == Len(evs)
<1>1. q \in MapStates /\ q.warnings = r.warnings /\ q.next = st.next
  BY PushAdds
<1>2. N \in Nat /\ n \in Nat /\ st.next \in 1 .. N + 1 /\ evs[n + 1] \in Events
  BY LenProperties, ElementOfSeq DEF MapTo
<1>3. Past(q, n + 1) = n + 1
  BY <1>1, <1>2 DEF Past
<1>4. evs[n + 1].text = "none"
  BY <1>2 DEF Events
<1>5. \A T \in Blanks : Of(Take(evs, n + 1), "text", T) = Of(Take(evs, n), "text", T) \o Kept(x.text, T)
  <2> TAKE T \in Blanks
  <2>1. KeptOf(evs[n + 1].text, T) = <<>>
    BY <1>4 DEF Blanks, Chars, KeptOf
  <2>2. Kept(x.text, T) = <<>>
    BY KeptNone
  <2> QED BY <2>1, <2>2, OneMore
<1>6. Len(Of(Take(evs, n + 1), "type", Gestures))
        = Len(Of(Take(evs, n), "type", Gestures)) + IF x.act \in Doing THEN 1 ELSE 0
  BY OneMore
<1>7. \A k \in n + 1 .. n + 1 : evs[k].type = "back" => Commands(x) = <<>>
  OBVIOUS
<1> DEFINE m == n + 1
<1>8. /\ m = Past(q, n + 1)
      /\ \A T \in Blanks : Of(Take(evs, m), "text", T) = Of(Take(evs, n), "text", T) \o Kept(x.text, T)
      /\ Len(Of(Take(evs, m), "type", Gestures))
           = Len(Of(Take(evs, n), "type", Gestures)) + IF x.act \in Doing THEN 1 ELSE 0
      /\ \A k \in n + 1 .. m : evs[k].type = "back" => Commands(x) = <<>>
  BY <1>3, <1>5, <1>6, <1>7
<1>9. q.steps = Push(r, x).steps /\ q.next \in 1 .. Len(evs) + 1
  BY <1>1, <1>2
<1> HIDE DEF m, q
<1>10. MapTo(evs, n + 1, q)
  BY <1>1, <1>8, <1>9, Advances
<1> QED BY <1>10 DEF q

-----------------------------------------------------------------------------
\* What an event that is no text makes of a state.
Pushes(st, e, q) ==
    \E r \in MapStates, x \in Steps :
        /\ r.steps = st.steps /\ r.warnings = st.warnings /\ r.next = st.next
        /\ x.text = <<>> /\ (x.act \in Doing <=> e.type \in Gestures)
        /\ e.type = "back" => Commands(x) = <<>>
        /\ q = Push(r, x)

LEMMA TapPushes ==
    ASSUME NEW st \in MapStates, NEW e \in Events, e.type = "tap"
    PROVE  Pushes(st, e, MapTap(st, e))
<1> DEFINE tap == [p |-> e.p, at |-> e.at]
           seen == [st EXCEPT !.tap = tap]
           named == [seen EXCEPT !.input = IF e.target = "input" THEN "input" ELSE "none"]
           other == [seen EXCEPT !.input = "none"]
<1>1. e.p \in Nat /\ e.at \in Nat /\ e.target \in Targets /\ NoPoint \in Nat /\ <<>> \in Seq(Spoken)
      /\ "none" \in Targets
  BY EmptySeq DEF Events, NoPoint, Targets
<1>2. /\ seen \in MapStates /\ seen.steps = st.steps /\ seen.warnings = st.warnings
      /\ seen.next = st.next
  <2>1. tap \in [p : Nat, at : Nat]
    BY <1>1
  <2> HIDE DEF tap
  <2> QED BY <2>1 DEF MapStates
<1> HIDE DEF tap, seen
<1>3. /\ named \in MapStates /\ named.steps = st.steps /\ named.warnings = st.warnings
      /\ named.next = st.next
      /\ other \in MapStates /\ other.steps = st.steps /\ other.warnings = st.warnings
      /\ other.next = st.next
  BY <1>2 DEF MapStates
<1> HIDE DEF named, other
<1>4. "tap" \in Doing /\ "tap_element" \in Doing /\ "tap" \in Gestures
  BY DEF Doing, Gestures
<1>5. CASE e.p = NoPoint
  <2> DEFINE x == Step("tap", "low", "none", NoPoint, NoPoint, <<>>)
  <2>1. x \in Steps /\ x.text = <<>> /\ x.act \in Doing
    BY <1>1, <1>4 DEF Step, Steps, Doing
  <2>2. MapTap(st, e) = Push(seen, x)
    BY <1>5 DEF MapTap, tap, seen
  <2> HIDE DEF x
  <2> QED BY <1>2, <1>4, <2>1, <2>2 DEF Pushes
<1>6. CASE e.p # NoPoint /\ e.target \in {"desc", "id", "input"}
  <2> DEFINE conf == IF e.target = "desc" THEN "medium" ELSE "high"
             x == Step("tap_element", conf, e.target, e.p, NoPoint, <<>>)
  <2>1. x \in Steps /\ x.text = <<>> /\ x.act \in Doing
    <3>1. conf \in {"low", "medium", "high"}
      OBVIOUS
    <3> HIDE DEF conf
    <3> QED BY <1>1, <1>4, <3>1 DEF Step, Steps, Doing
  <2>2. MapTap(st, e) = Push(named, x)
    BY <1>6 DEF MapTap, tap, seen, named
  <2> HIDE DEF x
  <2> QED BY <1>3, <1>4, <2>1, <2>2 DEF Pushes
<1>7. CASE e.p # NoPoint /\ e.target \notin {"desc", "id", "input"}
  <2> DEFINE x == Step("tap", "medium", "none", e.p, NoPoint, <<>>)
  <2>1. x \in Steps /\ x.text = <<>> /\ x.act \in Doing
    BY <1>1, <1>4 DEF Step, Steps, Doing
  <2>2. MapTap(st, e) = Push(other, x)
    BY <1>7 DEF MapTap, tap, seen, other
  <2> HIDE DEF x
  <2> QED BY <1>3, <1>4, <2>1, <2>2 DEF Pushes
<1> QED BY <1>5, <1>6, <1>7

LEMMA SimplePushes ==
    ASSUME NEW st \in MapStates, NEW e \in Events, e.type \notin {"tap", "text"}
    PROVE  Pushes(st, e, MapSimple(st, e))
<1> DEFINE r == [st EXCEPT !.input = "none"]
<1>1. e.p \in Nat /\ e.q \in Nat /\ NoPoint \in Nat /\ <<>> \in Seq(Spoken) /\ "none" \in Targets
  BY EmptySeq DEF Events, NoPoint, Targets
<1>2. r \in MapStates /\ r.steps = st.steps /\ r.warnings = st.warnings /\ r.next = st.next
  BY DEF MapStates
<1>3. "swipe" \in Doing /\ "wait" \notin Doing /\ "launch" \notin Doing
  BY DEF Doing
<1>4. CASE e.type = "swipe"
  <2> DEFINE x == Step("swipe", "medium", "none", e.p, e.q, <<>>)
  <2>1. x \in Steps /\ x.text = <<>> /\ x.act \in Doing
    BY <1>1, <1>3 DEF Step, Steps, Doing
  <2>2. MapSimple(st, e) = Push(r, x)
    BY <1>4 DEF MapSimple
  <2> HIDE DEF x, r
  <2>3. e.type \in Gestures /\ e.type # "back"
    BY <1>4 DEF Gestures
  <2> QED BY <1>2, <2>1, <2>2, <2>3 DEF Pushes
<1>5. CASE e.type = "back"
  <2> DEFINE x == Step("wait", "low", "none", NoPoint, NoPoint, <<>>)
  <2>1. x \in Steps /\ x.text = <<>> /\ x.act = "wait" /\ x.target = "none"
    BY <1>1 DEF Step, Steps, Doing
  <2>2. MapSimple(st, e) = Push(r, x)
    BY <1>5 DEF MapSimple
  <2> HIDE DEF x, r
  <2>3. Commands(x) = <<>>
    BY <2>1 DEF Commands
  <2>4. e.type \notin Gestures
    BY <1>5 DEF Gestures
  <2> QED BY <1>2, <1>3, <2>1, <2>2, <2>3, <2>4 DEF Pushes
<1>6. CASE e.type \in {"home", "switch"}
  <2> DEFINE x == Step("launch", "medium", "none", NoPoint, NoPoint, <<>>)
  <2>1. x \in Steps /\ x.text = <<>> /\ x.act = "launch"
    BY <1>1 DEF Step, Steps, Doing
  <2>2. MapSimple(st, e) = Push(r, x)
    BY <1>6 DEF MapSimple
  <2> HIDE DEF x, r
  <2>3. e.type \notin Gestures /\ e.type # "back"
    BY <1>6 DEF Gestures
  <2> QED BY <1>2, <1>3, <2>1, <2>2, <2>3 DEF Pushes
<1>7. e.type \in Types
  BY DEF Events
<1> QED BY <1>4, <1>5, <1>6, <1>7 DEF Types

\* What text that is not blank makes of a state.
LEMMA TextPushes ==
    ASSUME NEW evs \in Seq(Events), NEW i \in 1 .. Len(evs), evs[i].type = "text", NEW st \in MapStates
    PROVE  \E x \in Steps :
             /\ MapText(st, evs, i) = Push(st, x) /\ x.act = "type"
             /\ \A T : Of(Take(evs, ChunkStop(evs, i) - 1), "text", T)
                         = Of(Take(evs, i - 1), "text", T) \o Kept(x.text, T)
             /\ Len(Of(Take(evs, ChunkStop(evs, i) - 1), "type", Gestures))
                  = Len(Of(Take(evs, i - 1), "type", Gestures))
<1> DEFINE j == ChunkStop(evs, i)
           text == [k \in 1 .. j - i |-> evs[i + k - 1].text]
           conf == IF st.input = "none" THEN "low" ELSE "high"
           x == Step("type", conf, st.input, NoPoint, NoPoint, text)
<1>1. j \in i + 1 .. Len(evs) + 1 /\ \A k \in i .. j - 1 : evs[k].type = "text"
  BY Chunk
<1>2. MapText(st, evs, i) = Push(st, x)
  BY DEF MapText
<1>3. IsChunk(text, evs, i, j)
  BY DEF IsChunk
<1> HIDE DEF j, text
<1>4. /\ text \in Seq(Spoken)
      /\ \A T : Of(Take(evs, j - 1), "text", T) = Of(Take(evs, i - 1), "text", T) \o Kept(text, T)
      /\ Len(Of(Take(evs, j - 1), "type", Gestures)) = Len(Of(Take(evs, i - 1), "type", Gestures))
  BY <1>1, <1>3, SeveralMore
<1>5. conf \in {"low", "medium", "high"} /\ st.input \in Targets /\ NoPoint \in Nat
  BY DEF MapStates, Targets, NoPoint
<1> HIDE DEF conf
<1>6. x \in Steps /\ x.text = text /\ x.act = "type"
  BY <1>4, <1>5 DEF Step, Steps, Doing
<1> HIDE DEF x
<1> QED BY <1>2, <1>4, <1>6 DEF j

LEMMA MapAtType ==
    ASSUME NEW evs \in Seq(Events), NEW i \in 1 .. Len(evs), NEW st \in MapStates
    PROVE  MapAt(st, evs, i) \in MapStates
<1>1. evs[i] \in Events /\ st.next \in Nat /\ i \in Nat /\ Len(evs) \in Nat /\ st.warnings \in Nat
  BY LenProperties, ElementOfSeq DEF MapStates
<1>2. \A q : Pushes(st, evs[i], q) => q \in MapStates
  BY PushAdds DEF Pushes
<1>3. Warn(st) \in MapStates
  BY DEF Warn, MapStates
<1>4. CASE i < st.next
  BY <1>1, <1>4 DEF MapAt
<1>5. CASE i >= st.next /\ evs[i].type = "tap"
  <2>1. ~(i < st.next)
    BY <1>1, <1>5
  <2>2. MapAt(st, evs, i) = IF Duplicate(st, evs[i]) THEN Warn(st) ELSE MapTap(st, evs[i])
    BY <1>5, <2>1 DEF MapAt
  <2> QED BY <1>1, <1>2, <1>3, <1>5, <2>2, TapPushes
<1>6. CASE i >= st.next /\ evs[i].type = "text"
  <2> DEFINE next == NextAfter(evs, ChunkStop(evs, i))
             to == MapText(st, evs, i)
  <2>1. ~(i < st.next)
    BY <1>1, <1>6
  <2>2. MapAt(st, evs, i) = IF IsBlank(evs[i].text) THEN Warn(st) ELSE [to EXCEPT !.next = next]
    BY <1>6, <2>1 DEF MapAt
  <2>3. next \in Nat
    BY <1>1, <1>6, Chunk
  <2>4. to \in MapStates
    <3>1. PICK x \in Steps : to = Push(st, x)
      BY <1>6, TextPushes
    <3> QED BY <3>1, PushAdds
  <2> HIDE DEF next, to
  <2>5. [to EXCEPT !.next = next] \in MapStates
    BY <2>3, <2>4 DEF MapStates
  <2> QED BY <1>3, <2>2, <2>5
<1>7. CASE i >= st.next /\ evs[i].type \notin {"tap", "text"}
  <2>1. ~(i < st.next)
    BY <1>1, <1>7
  <2>2. MapAt(st, evs, i) = MapSimple(st, evs[i])
    BY <1>7, <2>1 DEF MapAt
  <2> QED BY <1>1, <1>2, <1>7, <2>2, SimplePushes
<1> QED BY <1>1, <1>4, <1>5, <1>6, <1>7

LEMMA MapToNext ==
    ASSUME NEW evs \in Seq(Events), NEW n \in 0 .. Len(evs) - 1, NEW st, MapTo(evs, n, st)
    PROVE  MapTo(evs, n + 1, MapAt(st, evs, n + 1))
<1> DEFINE N == Len(evs)
           i == n + 1
           e == evs[i]
<1>1. /\ N \in Nat /\ n \in Nat /\ i \in 1 .. N /\ e \in Events /\ i - 1 = n
      /\ st \in MapStates /\ st.next \in 1 .. N + 1
  BY LenProperties, ElementOfSeq DEF MapTo
<1>2. ASSUME st.next <= i, e.type # "text", NEW q, Pushes(st, e, q) PROVE MapTo(evs, i, q)
  <2>1. PICK r \in MapStates, x \in Steps :
          /\ r.steps = st.steps /\ r.warnings = st.warnings /\ r.next = st.next
          /\ x.text = <<>> /\ (x.act \in Doing <=> e.type \in Gestures)
          /\ e.type = "back" => Commands(x) = <<>>
          /\ q = Push(r, x)
    BY <1>2 DEF Pushes
  <2> QED BY <1>2, <2>1, AdvancesOne
<1>3. CASE i < st.next
  <2>1. MapAt(st, evs, i) = st
    BY <1>1, <1>3 DEF MapAt
  <2>2. Past(st, i) = Past(st, n)
    BY <1>1, <1>3 DEF Past
  <2> QED BY <2>1, <2>2 DEF MapTo
<1>4. CASE i >= st.next /\ e.type = "tap"
  <2>1. ~(i < st.next) /\ st.next <= i
    BY <1>1, <1>4
  <2>2. MapAt(st, evs, i) = IF Duplicate(st, e) THEN Warn(st) ELSE MapTap(st, e)
    BY <1>4, <2>1 DEF MapAt
  <2>3. CASE Duplicate(st, e)
    <3>1. e.text \notin Chars /\ e.type # "back"
      BY <1>1, <1>4 DEF Events, Chars
    <3>2. MapTo(evs, i, Warn(st))
      BY <1>1, <2>1, <3>1, Skips
    <3> QED BY <2>2, <2>3, <3>2
  <2>4. CASE ~Duplicate(st, e)
    <3>1. Pushes(st, e, MapTap(st, e))
      BY <1>1, <1>4, TapPushes
    <3>2. MapTo(evs, i, MapTap(st, e))
      BY <1>2, <1>4, <2>1, <3>1
    <3> QED BY <2>2, <2>4, <3>2
  <2> QED BY <2>3, <2>4
<1>5. CASE i >= st.next /\ e.type \notin {"tap", "text"}
  <2>1. ~(i < st.next) /\ st.next <= i
    BY <1>1, <1>5
  <2>2. MapAt(st, evs, i) = MapSimple(st, e)
    BY <1>5, <2>1 DEF MapAt
  <2>3. Pushes(st, e, MapSimple(st, e))
    BY <1>1, <1>5, SimplePushes
  <2>4. MapTo(evs, i, MapSimple(st, e))
    BY <1>2, <1>5, <2>1, <2>3
  <2> QED BY <2>2, <2>4
<1>6. CASE i >= st.next /\ e.type = "text" /\ IsBlank(e.text)
  <2>1. ~(i < st.next) /\ st.next <= i
    BY <1>1, <1>6
  <2>2. MapAt(st, evs, i) = Warn(st)
    BY <1>6, <2>1 DEF MapAt
  <2>3. e.text \notin Chars /\ e.type # "back"
    BY <1>6 DEF IsBlank, Chars
  <2>4. MapTo(evs, i, Warn(st))
    BY <1>1, <2>1, <2>3, Skips
  <2> QED BY <2>2, <2>4
<1>7. CASE i >= st.next /\ e.type = "text" /\ ~IsBlank(e.text)
  <2> DEFINE j == ChunkStop(evs, i)
             next == NextAfter(evs, j)
             to == MapText(st, evs, i)
             q == [to EXCEPT !.next = next]
  <2>1. ~(i < st.next) /\ st.next <= i
    BY <1>1, <1>7
  <2>2. MapAt(st, evs, i) = q
    BY <1>7, <2>1 DEF MapAt
  <2>3. /\ j \in i + 1 .. N + 1 /\ \A k \in i .. j - 1 : evs[k].type = "text"
        /\ \/ next = j
           \/ j <= N /\ next = j + 1 /\ evs[j].type = "text" /\ evs[j].text = "tab"
    BY <1>1, <1>7, Chunk
  <2>4. PICK x \in Steps :
          /\ to = Push(st, x) /\ x.act = "type"
          /\ \A T : Of(Take(evs, j - 1), "text", T) = Of(Take(evs, i - 1), "text", T) \o Kept(x.text, T)
          /\ Len(Of(Take(evs, j - 1), "type", Gestures)) = Len(Of(Take(evs, i - 1), "type", Gestures))
    BY <1>1, <1>7, TextPushes
  <2>5. to \in MapStates /\ to.warnings = st.warnings
    <3>1. Push(st, x) \in MapStates /\ Push(st, x).warnings = st.warnings
      BY <1>1, PushAdds
    <3> QED BY <2>4, <3>1
  <2> HIDE DEF j, next, to
  <2>6. next \in Nat /\ next \in 1 .. N + 1 /\ next > i /\ j - 1 \in 0 .. N /\ i <= j - 1
    BY <1>1, <2>3
  <2>7. q \in MapStates /\ q.steps = Push(st, x).steps /\ q.warnings = st.warnings /\ q.next = next
    BY <2>4, <2>5, <2>6 DEF MapStates
  <2> HIDE DEF q
  <2> DEFINE m == Past(q, n + 1)
  <2>8. m = next - 1
    BY <1>1, <2>6, <2>7 DEF Past
  <2> HIDE DEF m
  <2>9. /\ \A T \in Blanks : Of(Take(evs, m), "text", T) = Of(Take(evs, n), "text", T) \o Kept(x.text, T)
        /\ Len(Of(Take(evs, m), "type", Gestures)) = Len(Of(Take(evs, n), "type", Gestures))
        /\ \A k \in i .. m : evs[k].type = "text"
    <3>1. CASE next = j
      <4>1. m = j - 1
        BY <2>8, <3>1
      <4> QED BY <1>1, <2>3, <2>4, <4>1
    <3>2. CASE j <= N /\ next = j + 1 /\ evs[j].type = "text" /\ evs[j].text = "tab"
      <4>1. m = j /\ j - 1 \in 0 .. N - 1 /\ j - 1 + 1 = j
        BY <1>1, <2>3, <2>8, <3>2
      <4> DEFINE p == j - 1
      <4>2. p \in 0 .. N - 1 /\ p + 1 = m /\ evs[p + 1].text = "tab" /\ evs[p + 1].type = "text"
        BY <3>2, <4>1
      <4>3. /\ \A T : Of(Take(evs, p), "text", T) = Of(Take(evs, n), "text", T) \o Kept(x.text, T)
            /\ Len(Of(Take(evs, p), "type", Gestures)) = Len(Of(Take(evs, n), "type", Gestures))
        BY <1>1, <2>4
      <4> HIDE DEF p
      <4>4. ASSUME NEW T \in Blanks
            PROVE  Of(Take(evs, m), "text", T) = Of(Take(evs, n), "text", T) \o Kept(x.text, T)
        <5>1. KeptOf(evs[p + 1].text, T) = <<>>
          BY <4>2 DEF Blanks, Chars, KeptOf
        <5>2. /\ Of(Take(evs, p), "text", T) \in Seq(Texts)
              /\ Of(Take(evs, p + 1), "text", T) = Of(Take(evs, p), "text", T) \o KeptOf(evs[p + 1].text, T)
          BY <4>2, OneMore
        <5>3. Of(Take(evs, p), "text", T) \o <<>> = Of(Take(evs, p), "text", T)
          BY <5>2, ConcatEmptySeq
        <5> QED BY <4>2, <4>3, <5>1, <5>2, <5>3
      <4>5. Len(Of(Take(evs, m), "type", Gestures)) = Len(Of(Take(evs, n), "type", Gestures))
        <5>1. /\ Len(Of(Take(evs, p), "type", Gestures)) \in Nat
              /\ Len(Of(Take(evs, p + 1), "type", Gestures))
                   = Len(Of(Take(evs, p), "type", Gestures)) + IF evs[p + 1].type \in Gestures THEN 1 ELSE 0
          BY <4>2, OneMore
        <5>2. evs[p + 1].type \notin Gestures
          BY <4>2 DEF Gestures
        <5> QED BY <4>2, <4>3, <5>1, <5>2
      <4>6. \A k \in i .. m : k \in i .. j - 1 \/ k = j
        BY <1>1, <2>3, <4>1
      <4>7. \A k \in i .. m : evs[k].type = "text"
        BY <2>3, <3>2, <4>6
      <4> QED BY <4>4, <4>5, <4>7
    <3> QED BY <2>3, <3>1, <3>2
  <2>10. /\ Len(Of(Take(evs, n), "type", Gestures)) \in Nat /\ x.act \notin Doing
         /\ \A k \in n + 1 .. m : evs[k].type = "back" => Commands(x) = <<>>
    BY <2>4, <2>9, OneMore DEF Doing
  <2>11. Len(Of(Take(evs, m), "type", Gestures))
           = Len(Of(Take(evs, n), "type", Gestures)) + IF x.act \in Doing THEN 1 ELSE 0
    BY <2>9, <2>10
  <2>12. q.next \in 1 .. Len(evs) + 1 /\ m = Past(q, n + 1) /\ st.next <= n + 1
    BY <2>1, <2>6, <2>7 DEF m
  <2>13. MapTo(evs, n + 1, q)
    BY <1>1, <2>7, <2>9, <2>10, <2>11, <2>12, Advances
  <2> QED BY <2>2, <2>13
<1> QED BY <1>1, <1>3, <1>4, <1>5, <1>6, <1>7

\* The mapper has a state after each of the events.
LEMMA EachEventMapped ==
    ASSUME NEW evs \in Seq(Events)
    PROVE  /\ MapEvents(evs)[0] = [steps |-> <<>>, warnings |-> 0, tap |-> [p |-> NoPoint, at |-> 0],
                                   input |-> "none", next |-> 1]
           /\ \A n \in 1 .. Len(evs) : MapEvents(evs)[n] = MapAt(MapEvents(evs)[n - 1], evs, n)
<1> DEFINE N == Len(evs)
           first == [steps |-> <<>>, warnings |-> 0, tap |-> [p |-> NoPoint, at |-> 0],
                     input |-> "none", next |-> 1]
           Eq(x) == x = [n \in 0 .. N |-> IF n = 0 THEN first ELSE MapAt(x[n - 1], evs, n)]
           F == [y \in MapStates \X (1 .. N) |-> MapAt(y[1], evs, y[2])]
           f == MapEvents(evs)
<1>1. N \in Nat /\ 0 \in 0 .. N /\ \A n \in 1 .. N : n \in 0 .. N /\ n - 1 \in 0 .. N /\ n # 0
  BY LenProperties
<1>2. first \in MapStates
  BY EmptySeq DEF MapStates, NoPoint
<1>3. Rule(F, MapStates, N)
  <2>1. \A y \in MapStates \X (1 .. N) : MapAt(y[1], evs, y[2]) \in MapStates
    BY MapAtType
  <2> QED BY <2>1 DEF Rule
<1>4. f = CHOOSE x : Eq(x)
  BY DEF MapEvents
<1> HIDE DEF first, N, f, F
<1>5. PICK g : Runs(g, MapStates, first, N, F)
  BY <1>1, <1>2, <1>3, Recursion
<1>6. Eq(g)
  <2> DEFINE h == [n \in 0 .. N |-> IF n = 0 THEN first ELSE MapAt(g[n - 1], evs, n)]
  <2>1. ASSUME NEW n \in 0 .. N PROVE g[n] = h[n]
    <3>1. CASE n = 0
      BY <1>5, <3>1 DEF Runs
    <3>2. CASE n # 0
      <4>1. n \in 1 .. N /\ n - 1 \in 0 .. N
        BY <1>1, <3>2
      <4>2. g[n - 1] \in MapStates /\ g[n] = F[<<g[n - 1], n>>]
        BY <1>5, <4>1 DEF Runs
      <4>3. F[<<g[n - 1], n>>] = MapAt(g[n - 1], evs, n)
        BY <4>1, <4>2 DEF F
      <4> QED BY <3>2, <4>2, <4>3
    <3> QED BY <3>1, <3>2
  <2>2. g = [n \in 0 .. N |-> g[n]] /\ h = [n \in 0 .. N |-> h[n]]
    BY <1>5 DEF Runs
  <2>3. g = h
    <3> HIDE DEF h
    <3> QED BY <2>1, <2>2
  <2> QED BY <2>3
<1>7. Eq(f)
  <2> HIDE DEF Eq
  <2> QED BY <1>4, <1>6
<1>8. f[0] = first /\ \A n \in 1 .. N : f[n] = MapAt(f[n - 1], evs, n)
  BY <1>1, <1>7
<1> QED BY <1>8 DEF f, first, N

LEMMA MapAll ==
    ASSUME NEW evs \in Seq(Events)
    PROVE  MapTo(evs, Len(evs), MapEvents(evs)[Len(evs)]) /\ Past(MapEvents(evs)[Len(evs)], Len(evs)) = Len(evs)
<1> DEFINE N == Len(evs)
           first == [steps |-> <<>>, warnings |-> 0, tap |-> [p |-> NoPoint, at |-> 0],
                     input |-> "none", next |-> 1]
           f == MapEvents(evs)
           S == {n \in Nat : n <= N => MapTo(evs, n, f[n])}
<1>1. N \in Nat
  BY LenProperties
<1>2. f[0] = first /\ \A n \in 1 .. N : f[n] = MapAt(f[n - 1], evs, n)
  BY EachEventMapped
<1>3. MapTo(evs, 0, first)
  <2>1. first \in MapStates /\ first.steps = <<>> /\ first.next = 1
    BY EmptySeq DEF MapStates, NoPoint
  <2> HIDE DEF first
  <2>2. Past(first, 0) = 0 /\ first.next \in 1 .. Len(evs) + 1
    BY <1>1, <2>1 DEF Past
  <2>3. Take(evs, 0) = <<>>
    BY Takes
  <2>4. TextOf(<<>>) = <<>> /\ Flat(<<>>) = <<>> /\ \A T : Kept(<<>>, T) = <<>>
    BY FlatOfNone, KeptNone DEF TextOf
  <2>5. \A g, T : Of(<<>>, g, T) = <<>>
    BY OfNone
  <2>6. \A k \in 1 .. 0 : FALSE
    OBVIOUS
  <2> QED BY <2>1, <2>2, <2>3, <2>4, <2>5, <2>6 DEF MapTo
<1> HIDE DEF N, f, first
<1>4. 0 \in S
  BY <1>2, <1>3
<1>5. ASSUME NEW n \in Nat, n \in S PROVE n + 1 \in S
  <2> SUFFICES ASSUME n + 1 <= N PROVE MapTo(evs, n + 1, f[n + 1])
    OBVIOUS
  <2>1. n <= N /\ n \in 0 .. N - 1 /\ n + 1 \in 1 .. N /\ n + 1 - 1 = n
    BY <1>1
  <2>2. MapTo(evs, n, f[n])
    BY <1>5, <2>1
  <2>3. MapTo(evs, n + 1, MapAt(f[n], evs, n + 1))
    BY <2>1, <2>2, MapToNext DEF N
  <2> QED BY <1>2, <2>1, <2>3
<1> HIDE DEF S
<1>6. N \in S
  BY <1>1, <1>4, <1>5, NumbersFrom0
<1>7. MapTo(evs, N, f[N])
  BY <1>1, <1>6 DEF S
<1>8. Past(f[N], N) = N
  BY <1>1, <1>7 DEF MapTo, Past, N
<1> QED BY <1>7, <1>8 DEF N, f

-----------------------------------------------------------------------------
\* What the steps of the lines keep of them, and what they keep when nothing warns.
StepsOf(m, lines) ==
    /\ m.steps \in Seq(Steps) /\ m.warnings \in Nat
    /\ TypedInTime(lines) => Kept(Flat(TextOf(m.steps)), Chars) = Kept(TextOf(lines), Chars)
    /\ m.warnings = 0 =>
         /\ Len(Kept(Flat(TextOf(m.steps)), Chars \cup {"space"}))
              = Len(Kept(TextOf(lines), Chars \cup {"space"}))
         /\ Len(Of(m.steps, "act", Doing)) = Cardinality(Closed(lines, Len(lines)))
    /\ \A k \in 1 .. Len(lines) : lines[k].key = "back" =>
         \E i \in 1 .. Len(m.steps) : Commands(m.steps[i]) = <<>>

LEMMA StepsTell ==
    ASSUME NEW lines \in Seq(Line)
    PROVE  StepsOf(MapRawEventsToRecordedSteps(ParseRawInputEvents(lines)), lines)
<1> DEFINE n == Len(lines)
           evs == ParseRawInputEvents(lines)
           e == Len(evs)
           s == Sorted(evs)
           m == MapEvents(s)[e]
           r == ReadLines(lines)[n]
<1>1. ReadTo(lines, n, r) /\ evs = r.events
  BY ReadAll DEF ParseRawInputEvents
<1>2. evs \in Seq(Events)
  BY <1>1 DEF ReadTo
<1>3. SortedTo(evs, e, s)
  BY <1>2, SortAll
<1>4. m = MapRawEventsToRecordedSteps(evs)
  BY DEF MapRawEventsToRecordedSteps
<1>5. Take(lines, n) = lines /\ n \in Nat
  BY Takes
<1> HIDE DEF evs, r, n, s
<1>6. Take(evs, e) = evs /\ e \in Nat /\ DOMAIN evs = 1 .. e
  BY <1>2, Takes, LenProperties
<1>7. s \in Seq(Events) /\ Len(s) = e
  BY <1>3 DEF SortedTo
<1>8. Take(s, e) = s /\ DOMAIN s = 1 .. e
  BY <1>7, Takes, LenProperties
<1>9. MapTo(s, e, m) /\ Past(m, e) = e
  BY <1>7, MapAll
<1> HIDE DEF e, m
<1>10. m \in MapStates /\ m.steps \in Seq(Steps) /\ m.warnings \in Nat
  BY <1>9 DEF MapTo, MapStates
<1>11. Chars \in Blanks /\ Chars \cup {"space"} \in Blanks
  BY DEF Blanks
<1>12. ASSUME NEW T \in Blanks, T = Chars \/ m.warnings = 0
       PROVE  /\ Kept(Flat(TextOf(m.steps)), T) = Of(s, "text", T)
              /\ Of(evs, "text", T) = Kept(TextOf(lines), T)
              /\ "none" \notin T
  <2>1. Kept(Flat(TextOf(m.steps)), T) = Of(s, "text", T)
    BY <1>8, <1>9, <1>12 DEF MapTo
  <2>2. "none" \notin T
    BY DEF Blanks, Chars
  <2>3. Of(evs, "text", T) = Of(lines, "text", T)
    BY <1>1, <1>5, <2>2 DEF ReadTo
  <2>4. Of(lines, "text", T) = Kept(TextOf(lines), T)
    BY TextField DEF Of
  <2> QED BY <2>1, <2>2, <2>3, <2>4
<1>13. ASSUME TypedInTime(lines)
       PROVE  Kept(Flat(TextOf(m.steps)), Chars) = Kept(TextOf(lines), Chars)
  <2>1. TypedInTime(evs)
    BY <1>1, <1>13 DEF ReadTo
  <2>2. "none" \notin Chars /\ Kept(Flat(TextOf(m.steps)), Chars) = Of(s, "text", Chars)
        /\ Of(evs, "text", Chars) = Kept(TextOf(lines), Chars)
    BY <1>11, <1>12
  <2>3. Of(s, "text", Chars) = Of(evs, "text", Chars)
    BY <1>3, <1>6, <2>1, <2>2 DEF SortedTo
  <2> QED BY <2>2, <2>3
<1>14. ASSUME m.warnings = 0
       PROVE  /\ Len(Kept(Flat(TextOf(m.steps)), Chars \cup {"space"}))
                   = Len(Kept(TextOf(lines), Chars \cup {"space"}))
              /\ Len(Of(m.steps, "act", Doing)) = Cardinality(Closed(lines, n))
  <2> DEFINE T == Chars \cup {"space"}
  <2>1. Kept(Flat(TextOf(m.steps)), T) = Of(s, "text", T) /\ Of(evs, "text", T) = Kept(TextOf(lines), T)
    BY <1>11, <1>12, <1>14
  <2> HIDE DEF T
  <2>2. /\ Len(Of(s, "text", T)) = Len(Of(evs, "text", T))
        /\ Len(Of(s, "type", Gestures)) = Len(Of(evs, "type", Gestures))
    BY <1>3, <1>6 DEF SortedTo
  <2>3. Len(Of(m.steps, "act", Doing)) = Len(Of(s, "type", Gestures))
    BY <1>8, <1>9, <1>14 DEF MapTo
  <2>4. Len(Of(evs, "type", Gestures)) = Cardinality(Closed(lines, n))
    BY <1>1 DEF ReadTo
  <2> QED BY <2>1, <2>2, <2>3, <2>4 DEF T
<1>15. ASSUME NEW k \in 1 .. n, lines[k].key = "back"
       PROVE  \E i \in 1 .. Len(m.steps) : Commands(m.steps[i]) = <<>>
  <2>1. PICK h \in 1 .. e : evs[h].type = "back"
    BY <1>1, <1>6, <1>15 DEF ReadTo
  <2>2. PICK i \in 1 .. e : s[i].type = "back"
    BY <1>3, <1>7, <2>1 DEF SortedTo
  <2> QED BY <1>9, <2>2 DEF MapTo
<1>16. StepsOf(m, lines)
  BY <1>10, <1>13, <1>14, <1>15 DEF StepsOf, n
<1> QED BY <1>4, <1>16 DEF evs

\* The flow, with its text, has all of what the user did.
Tells(flow, text, lines) ==
    /\ Cardinality({k \in DOMAIN flow : flow[k].act \in {"tap", "swipe"}})
         = Cardinality({k \in DOMAIN lines : Closes(lines, k)})
    /\ Cardinality({k \in DOMAIN text : text[k] # "tab"})
         = Cardinality({k \in DOMAIN lines : lines[k].text \in Chars \cup {"space"}})
    /\ \A k \in DOMAIN lines : lines[k].key # "back"

LEMMA FlowTells ==
    ASSUME NEW lines \in Seq(Line),
           NEW m, m = MapRawEventsToRecordedSteps(ParseRawInputEvents(lines)), ~(m.warnings > 0),
           ~(RenderRecordedStepsAsFlow(m.steps).warnings > 0),
           NEW flow, flow = RenderRecordedStepsAsFlow(m.steps).commands,
           NEW text, text = Flat(TextOf(flow))
    PROVE  Tells(flow, text, lines)
<1> DEFINE ss == m.steps
           T == Chars \cup {"space"}
<1>1. /\ ss \in Seq(Steps)
      /\ Len(Kept(Flat(TextOf(ss)), T)) = Len(Kept(TextOf(lines), T))
      /\ Len(Of(ss, "act", Doing)) = Cardinality(Closed(lines, Len(lines)))
      /\ \A k \in 1 .. Len(lines) : lines[k].key = "back" =>
           \E i \in 1 .. Len(ss) : Commands(ss[i]) = <<>>
  <2>1. StepsOf(m, lines)
    BY StepsTell
  <2>2. m.warnings = 0
    BY <2>1 DEF StepsOf
  <2> QED BY <2>1, <2>2 DEF StepsOf
<1>2. Len(ss) \in Nat /\ DOMAIN ss = 1 .. Len(ss) /\ DOMAIN lines = 1 .. Len(lines)
  BY <1>1, LenProperties
<1> DEFINE none == {k \in DOMAIN ss : Commands(ss[k]) = <<>>}
<1>3. flow = Flat(CommandsOf(ss)) /\ ~(Cardinality(none) > 0)
  BY DEF RenderRecordedStepsAsFlow, CommandsOf
<1> HIDE DEF ss
<1>4. Full(ss)
  <2>1. IsFiniteSet(none)
    <3>1. none \in SUBSET (1 .. Len(ss)) /\ IsFiniteSet(1 .. Len(ss))
      BY <1>2, FS_Interval
    <3> HIDE DEF none
    <3> QED BY <3>1, FS_Subset
  <2> HIDE DEF none
  <2>2. Cardinality(none) \in Nat
    BY <2>1, FS_CardinalityType
  <2>3. none = {}
    BY <1>3, <2>1, <2>2, FS_EmptySet
  <2> QED BY <2>3 DEF none, Full
<1> HIDE DEF none
<1>5. /\ flow \in Seq(Cmds) /\ text = Flat(TextOf(ss))
      /\ Len(Of(flow, "act", Gestures)) = Len(Of(ss, "act", Doing))
  BY <1>1, <1>3, <1>4, Renders
<1>6. Cardinality({k \in DOMAIN flow : flow[k].act \in {"tap", "swipe"}})
        = Cardinality({k \in DOMAIN lines : Closes(lines, k)})
  <2> DEFINE acts == FieldOf(flow, "act")
             Acts == Gestures \cup {"focus", "text", "assert", "launch"}
  <2>1. acts \in Seq(Acts)
    <3>1. DOMAIN flow = 1 .. Len(flow) /\ Len(flow) \in Nat /\ \A k \in 1 .. Len(flow) : flow[k] \in Cmds
      BY <1>5, LenProperties, ElementOfSeq
    <3>2. acts \in [1 .. Len(flow) -> Acts]
      BY <3>1 DEF FieldOf, Cmds
    <3> HIDE DEF acts, Acts
    <3> QED BY <3>1, <3>2, ListOf
  <2>2. Where(acts, Gestures) = {k \in DOMAIN flow : flow[k].act \in {"tap", "swipe"}}
    BY DEF Where, FieldOf, Gestures
  <2> HIDE DEF acts, Acts
  <2>3. Cardinality(Where(acts, Gestures)) = Len(Kept(acts, Gestures))
    BY <2>1, KeptCounts
  <2>4. Len(Kept(acts, Gestures)) = Len(Of(flow, "act", Gestures))
    BY DEF Of, acts
  <2>5. Closed(lines, Len(lines)) = {k \in DOMAIN lines : Closes(lines, k)}
    BY <1>2 DEF Closed
  <2> QED BY <1>1, <1>5, <2>2, <2>3, <2>4, <2>5
<1>7. Cardinality({k \in DOMAIN text : text[k] # "tab"})
        = Cardinality({k \in DOMAIN lines : lines[k].text \in T})
  <2> DEFINE typed == TextOf(lines)
  <2>1. text \in Seq(Spoken)
    BY <1>1, <1>5, StepsText
  <2>2. \A k \in DOMAIN text : text[k] \in Spoken
    BY <2>1, LenProperties, ElementOfSeq
  <2>3. Where(text, T) = {k \in DOMAIN text : text[k] # "tab"}
    BY <2>2 DEF Where, Spoken, Texts, Chars
  <2>4. typed \in Seq(Texts)
    <3>1. DOMAIN lines = 1 .. Len(lines) /\ Len(lines) \in Nat /\ \A k \in 1 .. Len(lines) : lines[k] \in Line
      BY LenProperties, ElementOfSeq
    <3>2. typed \in [1 .. Len(lines) -> Texts]
      BY <3>1 DEF TextOf, Line
    <3> HIDE DEF typed
    <3> QED BY <3>1, <3>2, ListOf
  <2>5. Where(typed, T) = {k \in DOMAIN lines : lines[k].text \in T}
    BY DEF Where, TextOf
  <2> HIDE DEF typed, T
  <2>6. Cardinality(Where(typed, T)) = Len(Kept(typed, T)) /\ Cardinality(Where(text, T)) = Len(Kept(text, T))
    BY <2>1, <2>4, KeptCounts
  <2>7. Len(Kept(text, T)) = Len(Kept(typed, T))
    BY <1>1, <1>5 DEF T, typed
  <2> QED BY <2>3, <2>5, <2>6, <2>7
<1>8. \A k \in DOMAIN lines : lines[k].key # "back"
  BY <1>1, <1>2, <1>4 DEF Full
<1> QED BY <1>6, <1>7, <1>8 DEF Tells, T

-----------------------------------------------------------------------------
\* In calm the lines that are captured and those to come are an input; a call that asks for no
\* review has met no warning.
Whole    == MapRawEventsToRecordedSteps(Parsed)
Rendered == RenderRecordedStepsAsFlow(Mapped)
Clear(call) ==
    /\ call.at \in {"new", "list", "parse", "append", "steps", "flow"} => call.flow = 0
    /\ (call.at = "flow" \/ call.flow # 0) /\ ~call.review => ~(Whole.warnings > 0)
    /\ call.flow # 0 /\ ~call.review => ~(Rendered.warnings > 0)
Reviewed == Calm => Lines \o input \in Inputs /\ \A c \in Calls : Clear(calls[c])

LEMMA LineMoves ==
    ASSUME NEW A, NEW s \in Seq(A), NEW t \in Seq(A), t # <<>>
    PROVE  Append(s, Head(t)) \o Tail(t) = s \o t
<1> DEFINE x == Head(t)
           rest == Tail(t)
           one == <<x>>
<1>1. x \in A /\ rest \in Seq(A) /\ one \in Seq(A)
  BY HeadTailProperties
<1>2. t = one \o rest
  BY <1>1, HeadTailProperties, ConcatProperties, LenProperties
<1>3. Append(s, x) = s \o one
  BY <1>1, AppendOfConcat
<1> HIDE DEF x, rest, one
<1>4. (s \o one) \o rest = s \o (one \o rest)
  BY <1>1, ConcatAssociative
<1> QED BY <1>2, <1>3, <1>4 DEF x, rest

\* The lines stay, and all calls but c.
LEMMA ReviewKept ==
    ASSUME Reviewed, Calm' => Calm /\ Lines' = Lines, input' = input, NEW c \in Calls,
           \A d \in Calls : d # c => calls'[d] = calls[d],
           Calm /\ Clear(calls[c]) => Clear(calls'[c])
    PROVE  Reviewed'
<1> SUFFICES ASSUME Calm' PROVE (Lines \o input \in Inputs)' /\ \A d \in Calls : Clear(calls[d])'
  BY DEF Reviewed
<1>1. Calm /\ Lines' = Lines /\ Lines \o input \in Inputs /\ \A d \in Calls : Clear(calls[d])
  BY DEF Reviewed
<1>2. Whole' = Whole /\ Rendered' = Rendered
  BY <1>1 DEF Whole, Rendered, Parsed, Mapped
<1>3. \A d \in Calls : Clear(calls'[d])
  BY <1>1
<1>4. \A d \in Calls : Clear(calls[d])'
  BY <1>2, <1>3 DEF Clear
<1> QED BY <1>1, <1>4

\* A call that begins, or moves on, without a flow or a review of its own.
LEMMA ReviewMoves ==
    ASSUME LedgerInv, Reviewed, NEW c \in Calls,
           \/ BeginCancel(c) \/ \E dry, export \in BOOLEAN : BeginEnd(c, dry, export)
           \/ ListEvents(c) \/ ParseRaw(c) \/ AppendEvents(c) \/ LoadRecord(c) \/ WriteRecord(c)
    PROVE  Reviewed'
<1>1. UNCHANGED <<late, input>> /\ (clean' => clean)
  <2>1. CASE BeginCancel(c) \/ \E dry, export \in BOOLEAN : BeginEnd(c, dry, export)
    BY <2>1 DEF BeginCancel, BeginEnd, device
  <2>2. CASE ListEvents(c)
    BY <2>2 DEF ListEvents, device
  <2>3. CASE ParseRaw(c)
    BY <2>3 DEF ParseRaw, device
  <2>4. CASE AppendEvents(c)
    BY <2>4 DEF AppendEvents, device
  <2>5. CASE LoadRecord(c) \/ WriteRecord(c)
    BY <2>5 DEF LoadRecord, WriteRecord, device
  <2> QED BY <2>1, <2>2, <2>3, <2>4, <2>5
<1>2. DOMAIN calls = Calls /\ DOMAIN calls[c] = Fields
  BY CallKnown
<1>3. Calm' => Calm /\ Lines' = Lines
  <2> SUFFICES ASSUME Calm' PROVE Calm /\ Lines' = Lines
    OBVIOUS
  <2>1. Calm
    BY <1>1 DEF Calm
  <2>2. CASE AppendEvents(c)
    BY <2>1, <2>2, AppendsAll
  <2>3. CASE UNCHANGED file
    BY <2>1, <2>3, LinesKept
  <2> QED BY <2>2, <2>3 DEF BeginCancel, BeginEnd, ListEvents, ParseRaw, LoadRecord, WriteRecord
<1>4. PICK call : /\ calls' = [calls EXCEPT ![c] = call]
                  /\ Clear(calls[c]) => Clear(call)
  <2>1. CASE BeginCancel(c)
    <3> DEFINE call == [NewCall EXCEPT !.at = "load", !.tool = "cancel"]
    <3>1. calls' = [calls EXCEPT ![c] = call] /\ call.flow = 0 /\ call.at = "load"
      BY <2>1 DEF BeginCancel, NewCall
    <3> HIDE DEF call
    <3> QED BY <3>1 DEF Clear
  <2>2. ASSUME NEW dry \in BOOLEAN, NEW export \in BOOLEAN, BeginEnd(c, dry, export)
        PROVE  \E call : calls' = [calls EXCEPT ![c] = call] /\ (Clear(calls[c]) => Clear(call))
    <3> DEFINE call == [NewCall EXCEPT !.at = "list", !.tool = "end", !.dry = dry,
                                       !.export = export]
    <3>1. calls' = [calls EXCEPT ![c] = call] /\ call.flow = 0 /\ call.at = "list"
      BY <2>2 DEF BeginEnd, NewCall
    <3> HIDE DEF call
    <3> QED BY <3>1 DEF Clear
  <2>3. CASE ListEvents(c)
    <3> DEFINE at == IF StoredEvents = <<>> THEN "parse" ELSE "steps"
               found == StoredEvents
    <3>1. PICK warned \in BOOLEAN :
            calls' = [calls EXCEPT ![c].events = found, ![c].warned = warned, ![c].at = at]
      BY <2>3 DEF ListEvents
    <3>2. at \in {"parse", "steps"} /\ calls[c].at = "list"
      BY <2>3 DEF ListEvents, Called
    <3> HIDE DEF at, found
    <3> DEFINE call == [calls[c] EXCEPT !.events = found, !.warned = warned, !.at = at]
    <3>3. calls' = [calls EXCEPT ![c] = call]
      BY <1>2, <3>1
    <3>4. call.at = at /\ call.flow = calls[c].flow /\ call.review = calls[c].review
      BY <1>2 DEF Fields
    <3> HIDE DEF call
    <3> QED BY <3>2, <3>3, <3>4 DEF Clear
  <2>4. CASE ParseRaw(c)
    <3> DEFINE events == ParseRawInputEvents(LinesOf(file))
               at == IF events = <<>> THEN "steps" ELSE "append"
               call == [calls[c] EXCEPT !.events = events, !.at = at]
    <3>1. calls' = [calls EXCEPT ![c].events = events, ![c].at = at]
      BY <2>4 DEF ParseRaw
    <3>2. at \in {"steps", "append"} /\ calls[c].at = "parse"
      BY <2>4 DEF ParseRaw, Called
    <3> HIDE DEF at, events
    <3>3. calls' = [calls EXCEPT ![c] = call]
      BY <1>2, <3>1
    <3>4. call.at = at /\ call.flow = calls[c].flow /\ call.review = calls[c].review
      BY <1>2 DEF Fields
    <3> HIDE DEF call
    <3> QED BY <3>2, <3>3, <3>4 DEF Clear
  <2>5. CASE AppendEvents(c)
    <3> DEFINE call == [calls[c] EXCEPT !.at = "steps"]
    <3>1. calls' = [calls EXCEPT ![c] = call] /\ calls[c].at = "append"
      BY <2>5 DEF AppendEvents, Continue, Called
    <3>2. call.at = "steps" /\ call.flow = calls[c].flow /\ call.review = calls[c].review
      BY <1>2 DEF Fields
    <3> HIDE DEF call
    <3> QED BY <3>1, <3>2 DEF Clear
  <2>6. CASE LoadRecord(c)
    <3> DEFINE call == [calls[c] EXCEPT !.at = "write", !.seen = record]
    <3>1. calls' = [calls EXCEPT ![c] = call]
      BY <2>6 DEF LoadRecord
    <3>2. call.at = "write" /\ call.flow = calls[c].flow /\ call.review = calls[c].review
      BY <1>2 DEF Fields
    <3> HIDE DEF call
    <3> QED BY <3>1, <3>2 DEF Clear
  <2>7. CASE WriteRecord(c)
    <3> DEFINE call == [calls[c] EXCEPT !.at = "done", !.tool = "none", !.export = FALSE,
                                        !.seen = NoRecord, !.mapped = <<>>]
    <3>1. calls' = [calls EXCEPT ![c] = call]
      BY <2>7 DEF WriteRecord, Finish
    <3>2. call.at = "done" /\ call.flow = calls[c].flow /\ call.review = calls[c].review
      BY <1>2 DEF Fields
    <3> HIDE DEF call
    <3> QED BY <3>1, <3>2 DEF Clear
  <2> QED BY <2>1, <2>2, <2>3, <2>4, <2>5, <2>6, <2>7
<1>5. calls'[c] = call /\ \A d \in Calls : d # c => calls'[d] = calls[d]
  BY <1>2, <1>4
<1> QED BY <1>1, <1>3, <1>4, <1>5, ReviewKept

LEMMA ReviewPersists ==
    ASSUME LedgerInv, Reviewed, NEW c \in Calls, PersistSteps(c) PROVE Reviewed'
<1> DEFINE mapped == MapRawEventsToRecordedSteps(calls[c].events)
           made == mapped.steps
           next == IF calls[c].export THEN "flow" ELSE "load"
           warns == mapped.warnings > 0
           other == calls[c].warned \/ \E k \in DOMAIN mapped.steps : mapped.steps[k].conf = "low"
           review == other \/ warns
           call == [calls[c] EXCEPT !.mapped = made, !.events = <<>>, !.warned = FALSE,
                                    !.review = review, !.at = next]
<1>1. /\ calls[c].at = "steps" /\ UNCHANGED <<file, late, clean, input>>
      /\ calls' = [calls EXCEPT ![c].mapped = made, ![c].events = <<>>, ![c].warned = FALSE,
                                ![c].review = review, ![c].at = next]
  BY DEF PersistSteps, Called, device
<1>2. DOMAIN calls = Calls /\ DOMAIN calls[c] = Fields
  BY CallKnown
<1>3. next \in {"flow", "load"}
  OBVIOUS
<1>4. Calm => mapped = Whole
  BY <1>1, CallKnown DEF Carries, Whole
<1> HIDE DEF mapped, made, next, other
<1>5. calls' = [calls EXCEPT ![c] = call]
  BY <1>1, <1>2
<1>6. call.at = next /\ call.flow = calls[c].flow /\ call.review = review
  BY <1>2 DEF Fields
<1> HIDE DEF call
<1>7. ASSUME Calm, Clear(calls[c]) PROVE Clear(call)
  <2>1. call.flow = 0
    BY <1>1, <1>6, <1>7 DEF Clear
  <2>2. ~call.review => ~(Whole.warnings > 0)
    BY <1>4, <1>6, <1>7
  <2> QED BY <2>1, <2>2 DEF Clear
<1>8. calls'[c] = call /\ \A d \in Calls : d # c => calls'[d] = calls[d]
  BY <1>2, <1>5
<1>9. Calm' => Calm /\ Lines' = Lines
  BY <1>1, LinesKept DEF Calm
<1> QED BY <1>1, <1>7, <1>8, <1>9, ReviewKept

LEMMA ReviewWrites ==
    ASSUME LedgerInv, Reviewed, NEW c \in Calls, WriteFlow(c) PROVE Reviewed'
<1> DEFINE flow == RenderRecordedStepsAsFlow(calls[c].mapped)
           n == Len(flows) + 1
           old == calls[c].review
           review == old \/ flow.warnings > 0
           call == [calls[c] EXCEPT !.at = "load", !.mapped = <<>>, !.flow = n, !.review = review]
<1>1. /\ calls[c].at = "flow" /\ UNCHANGED <<file, late, clean, input>>
      /\ calls' = [calls EXCEPT ![c].at = "load", ![c].mapped = <<>>, ![c].flow = n,
                                ![c].review = review]
  BY DEF WriteFlow, Called, device
<1>2. DOMAIN calls = Calls /\ DOMAIN calls[c] = Fields
  BY CallKnown
<1>3. Calm => flow = Rendered
  BY <1>1, CallKnown DEF Carries, Rendered
<1> HIDE DEF flow, n
<1>4. calls' = [calls EXCEPT ![c] = call]
  BY <1>1, <1>2
<1>5. call.at = "load" /\ call.review = review
  BY <1>2 DEF Fields
<1> HIDE DEF call
<1>6. ASSUME Calm, Clear(calls[c]) PROVE Clear(call)
  <2>1. ~old => ~(Whole.warnings > 0)
    BY <1>1, <1>6 DEF Clear
  <2>2. ~call.review => ~old /\ ~(Rendered.warnings > 0)
    BY <1>3, <1>5, <1>6
  <2>3. call.at = "load"
    BY <1>5
  <2> HIDE DEF old
  <2> QED BY <2>1, <2>2, <2>3 DEF Clear
<1>7. calls'[c] = call /\ \A d \in Calls : d # c => calls'[d] = calls[d]
  BY <1>2, <1>4
<1>8. Calm' => Calm /\ Lines' = Lines
  BY <1>1, LinesKept DEF Calm
<1> QED BY <1>1, <1>6, <1>7, <1>8, ReviewKept

LEMMA ReviewCaptures == ASSUME LedgerInv, Reviewed, Capture PROVE Reviewed'
<1> SUFFICES ASSUME Calm' PROVE (Lines \o input \in Inputs)' /\ \A c \in Calls : Clear(calls[c])'
  BY DEF Reviewed
<1>1. input # <<>> /\ input' = Tail(input) /\ calls' = calls /\ input \in Seq(Line)
  BY DEF Capture, LedgerInv, StoreType
<1>2. /\ Calm /\ AllNew /\ Lines \in Seq(Line) /\ Lines' = Append(Lines, Head(input))
  BY CaptureAdds
<1>3. Lines' \o input' = Lines \o input
  BY <1>1, <1>2, LineMoves
<1>4. Lines \o input \in Inputs /\ \A c \in Calls : Clear(calls[c])
  BY <1>2 DEF Reviewed
<1>5. \A c \in Calls : Clear(calls[c])'
  BY <1>1, <1>2, <1>4 DEF Clear, AllNew
<1> QED BY <1>3, <1>4, <1>5

\* The lines stay, and every call that does not end with the server.
LEMMA ReviewStays ==
    ASSUME LedgerInv, Reviewed,
           \/ StartCapture \/ StartSnapshot \/ PersistStarted \/ CaptureDies \/ Crash
           \/ UNCHANGED vars
    PROVE  Reviewed'
<1>1. UNCHANGED <<file, late, clean, input>>
  BY DEF StartCapture, StartSnapshot, PersistStarted, CaptureDies, Crash, device, vars
<1>2. \A c \in Calls : calls'[c] = calls[c] \/ calls'[c] = [NewCall EXCEPT !.at = "done"]
  BY DEF StartCapture, StartSnapshot, PersistStarted, CaptureDies, Crash, vars
<1> DEFINE gone == [NewCall EXCEPT !.at = "done"]
<1>3. gone.flow = 0 /\ gone.at = "done"
  BY DEF NewCall
<1>4. \A c \in Calls : calls'[c] = calls[c] \/ calls'[c] = gone
  BY <1>2
<1> HIDE DEF gone
<1>5. Whole' = Whole /\ Rendered' = Rendered /\ Lines' = Lines /\ Calm' = Calm
  BY <1>1, LinesKept DEF Whole, Rendered, Calm
<1>6. ASSUME NEW c \in Calls, Clear(calls[c]) PROVE Clear(calls[c])'
  <2>1. Clear(calls'[c])
    BY <1>3, <1>4, <1>6 DEF Clear
  <2> QED BY <1>5, <2>1 DEF Clear
<1> QED BY <1>1, <1>5, <1>6 DEF Reviewed

LEMMA ReviewNext == LedgerInv /\ Reviewed /\ [Next]_vars => Reviewed'
<1> SUFFICES ASSUME LedgerInv, Reviewed, [Next]_vars PROVE Reviewed'
  OBVIOUS
<1>1. CASE UNCHANGED vars
  BY <1>1, ReviewStays
<1>2. CASE Next
  BY <1>2, ReviewStays, ReviewCaptures, ReviewMoves, ReviewPersists, ReviewWrites DEF Next
<1> QED BY <1>1, <1>2

LEMMA ReviewInit == ASSUME RecordingAssumption, Init PROVE Reviewed
<1>1. input \in Inputs /\ input \in Seq(Line) /\ file = <<>> /\ calls = [c \in Calls |-> NewCall]
  BY DEF Init, RecordingAssumption
<1>2. Lines = <<>>
  <2>1. RawFile(<<>>) = <<>> /\ <<>> \in Seq(Line)
    BY DEF RawFile
  <2> QED BY <1>1, <2>1, RawFileRead DEF Lines
<1>3. Lines \o input = input
  BY <1>1, <1>2, ConcatEmptySeq
<1>4. \A c \in Calls : Clear(calls[c])
  BY <1>1 DEF Clear, NewCall
<1> QED BY <1>1, <1>3, <1>4 DEF Reviewed

\* The typed lines that are captured in calm are in the order of their times.
LEMMA CapturedInTime ==
    ASSUME InputAssumption, LedgerInv, Reviewed, Calm PROVE TypedInTime(Lines)
<1>1. Lines \in Seq(Line) /\ input \in Seq(Line) /\ Lines \o input \in Inputs
  BY DEF LedgerInv, StoreType, CalmInv, FileHolds, Reviewed
<1> DEFINE all == Lines \o input
<1>2. /\ DOMAIN Lines \subseteq DOMAIN all
      /\ \A k \in DOMAIN Lines : all[k] = Lines[k]
  BY <1>1, ConcatProperties, LenProperties
<1>3. TypedInTime(all)
  BY <1>1 DEF TypedInTime, Typed, InputAssumption
<1> HIDE DEF all
<1> QED BY <1>2, <1>3 DEF TypedInTime, Typed

\* No character the user typed is lost, doubled or moved on its way into the persisted steps,
\* for any lines and any number of calls that came one at a time
\* (recording-mapper.ts:194-362, recording-runtime-android.ts:283-377).
THEOREM TypedTextSurvives == Spec => []TextSurvives
<1>1. Init => LedgerInv /\ Reviewed
  BY RecordingAssumption, LedgerInit, ReviewInit
<1>2. LedgerInv /\ Reviewed => TextSurvives
  <2> SUFFICES ASSUME LedgerInv, Reviewed, Calm, steps # NoSteps
               PROVE  Kept(Flat(TextOf(Persisted)), Chars) = Kept(TextOf(RawLines), Chars)
    BY DEF TextSurvives
  <2>1. Lines \in Seq(Line) /\ TypedInTime(Lines)
    BY InputAssumption, CapturedInTime DEF LedgerInv, CalmInv, FileHolds
  <2>2. Persisted = Whole.steps /\ Whole = MapRawEventsToRecordedSteps(ParseRawInputEvents(Lines))
    BY DEF LedgerInv, CalmInv, OutputsTrue, Mapped, Parsed, Whole
  <2> HIDE DEF Whole
  <2>3. Kept(Flat(TextOf(Whole.steps)), Chars) = Kept(TextOf(Lines), Chars)
    BY <2>1, <2>2, StepsTell DEF StepsOf
  <2> QED BY <2>2, <2>3, ReadFrom DEF Lines
<1> QED BY <1>1, <1>2, LedgerNext, ReviewNext, PTL DEF Spec

\* An exported flow that asks for no review has a gesture for every touch the user completed
\* and every character typed, and the user never pressed back: for any lines and any number of
\* calls that came one at a time (recording-mapper.ts:194-483, recording-runtime.ts:588-697).
THEOREM NothingIsDropped == Spec => []NothingDroppedSilently
<1>1. Init => LedgerInv /\ Reviewed
  BY RecordingAssumption, LedgerInit, ReviewInit
<1>2. LedgerInv /\ Reviewed => NothingDroppedSilently
  <2> SUFFICES ASSUME LedgerInv, Reviewed, NEW c \in Calls, Calm, calls[c].flow # 0,
                      ~calls[c].review, NEW lines, lines = RawLines,
                      NEW flow, flow = flows[calls[c].flow], NEW text, text = Flat(TextOf(flow))
               PROVE  Tells(flow, text, lines)
    BY DEF NothingDroppedSilently, Tells
  <2>1. lines \in Seq(Line) /\ lines = Lines
    BY ReadFrom DEF Lines, LedgerInv, CalmInv, FileHolds
  <2>2. ~(Whole.warnings > 0) /\ ~(Rendered.warnings > 0)
    BY DEF Reviewed, Clear
  <2>3. calls[c].flow \in DOMAIN flows
    BY CallKnown, LenProperties DEF CallType
  <2>4. flow = Rendered.commands
    BY <2>3 DEF LedgerInv, CalmInv, OutputsTrue, Rendered
  <2>5. PICK m : m = Whole
    OBVIOUS
  <2>6. m = MapRawEventsToRecordedSteps(ParseRawInputEvents(lines)) /\ ~(m.warnings > 0)
    BY <2>1, <2>2, <2>5 DEF Whole, Parsed
  <2>7. /\ ~(RenderRecordedStepsAsFlow(m.steps).warnings > 0)
        /\ flow = RenderRecordedStepsAsFlow(m.steps).commands
    BY <2>2, <2>4, <2>5 DEF Rendered, Mapped, Whole
  <2> QED BY <2>1, <2>6, <2>7, FlowTells
<1> QED BY <1>1, <1>2, LedgerNext, ReviewNext, PTL DEF Spec
=============================================================================
