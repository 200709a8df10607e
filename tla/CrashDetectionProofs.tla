------------------------ MODULE CrashDetectionProofs -------------------------
(***************************************************************************)
(* Detection is proved for any pods and bounds, with the threshold and the *)
(* immediate states of dedup.py.  The counts of layer 1 are sums over a    *)
(* window, so the first part says what FoldFunction computes.              *)
(***************************************************************************)
EXTENDS CrashDetection, Induction

-----------------------------------------------------------------------------
(* The sum of a window *)

Some(s) == CHOOSE x \in s : TRUE

\* g gives the sum of f over each set of R.
IsSum(f, R, g) == g = [s \in R |-> IF s = {} THEN 0 ELSE f[Some(s)] + g[s \ {Some(s)}]]

Sums(f) == CHOOSE g : IsSum(f, SUBSET DOMAIN f, g)

LEMMA CountIsSum == \A w : EventCount(w) = Sums(w.hits)[DOMAIN w.hits]
  BY DEF EventCount, FoldFunction, FoldFunctionOnSet, MapThenFoldSet, Sums, IsSum, Some

LEMMA SomeIn == \A s : s # {} => Some(s) \in s
  BY DEF Some

\* There are sums, and they are unfolded element by element.
LEMMA SumsOf ==
  ASSUME NEW D, IsFiniteSet(D), NEW f \in [D -> Nat], NEW s \in SUBSET D
  PROVE  Sums(f)[s] = IF s = {} THEN 0 ELSE f[Some(s)] + Sums(f)[s \ {Some(s)}]
<1> DEFINE pick == [r \in SUBSET D |-> Some(r)]
           add == [z \in Nat \X D |-> f[z[2]] + z[1]]
<1>1. \A r \in SUBSET D : r # {} => pick[r] \in r
  BY SomeIn
<1>2. /\ \A a \in Nat, x \in D : add[<<a, x>>] = f[x] + a
      /\ add \in [Nat \X D -> Nat]
  OBVIOUS
<1>3. PICK g \in [SUBSET D -> Nat] : IsFold(g, D, pick, 0, add)
  <2> HIDE DEF pick, add
  <2>1. 0 \in Nat
    OBVIOUS
  <2>2. QED
    BY ONLY IsFiniteSet(D), <1>1, <1>2, <2>1, FoldExists
<1>4. \A r \in SUBSET D : g[r] = IF r = {} THEN 0 ELSE f[Some(r)] + g[r \ {Some(r)}]
  BY <1>1, <1>2, <1>3 DEF IsFold
<1>5. IsSum(f, SUBSET D, g)
  BY <1>4 DEF IsSum
<1>6. IsSum(f, SUBSET D, Sums(f))
  BY <1>5 DEF Sums
<1>7. QED
  BY <1>6 DEF IsSum

LEMMA SumOfNone ==
  ASSUME NEW D, IsFiniteSet(D), NEW f \in [D -> Nat]
  PROVE  Sums(f)[{}] = 0
<1>1. {} \in SUBSET D
  OBVIOUS
<1>2. QED
  BY <1>1, SumsOf

LEMMA SumType ==
  ASSUME NEW D, IsFiniteSet(D), NEW f \in [D -> Nat]
  PROVE  \A s \in SUBSET D : Sums(f)[s] \in Nat
<1> DEFINE T == {s \in SUBSET D : Sums(f)[s] \in Nat}
<1>1. ASSUME NEW s \in SUBSET D, \A t \in SUBSET s : t # s => t \in T PROVE s \in T
  <2>1. CASE s = {}
    BY <2>1, SumOfNone
  <2>2. CASE s # {}
    <3>1. Some(s) \in s /\ s \ {Some(s)} \in T
      BY <1>1, <2>2, SomeIn
    <3>2. Sums(f)[s] = f[Some(s)] + Sums(f)[s \ {Some(s)}]
      BY <2>2, SumsOf
    <3>3. QED
      BY <3>1, <3>2
  <2>3. QED
    BY <2>1, <2>2
<1>2. T = SUBSET D
  <2>1. T \in SUBSET (SUBSET D)
    OBVIOUS
  <2> HIDE DEF T
  <2>2. QED
    BY ONLY <1>1, <2>1, IsFiniteSet(D), SubsetInduction
<1>3. QED
  BY <1>2

\* More events of each age are more events.
LEMMA SumGrows ==
  ASSUME NEW D, IsFiniteSet(D), NEW f \in [D -> Nat], NEW h \in [D -> Nat],
         \A a \in D : f[a] <= h[a]
  PROVE  \A s \in SUBSET D : Sums(f)[s] <= Sums(h)[s]
<1> DEFINE T == {s \in SUBSET D : Sums(f)[s] <= Sums(h)[s]}
<1>1. ASSUME NEW s \in SUBSET D, \A t \in SUBSET s : t # s => t \in T PROVE s \in T
  <2>1. CASE s = {}
    BY <2>1, SumOfNone
  <2>2. CASE s # {}
    <3>1. Some(s) \in s /\ s \ {Some(s)} \in T
      BY <1>1, <2>2, SomeIn
    <3>2. /\ Sums(f)[s] = f[Some(s)] + Sums(f)[s \ {Some(s)}]
          /\ Sums(h)[s] = h[Some(s)] + Sums(h)[s \ {Some(s)}]
      BY <2>2, SumsOf
    <3>3. Sums(f)[s \ {Some(s)}] \in Nat /\ Sums(h)[s \ {Some(s)}] \in Nat
      BY SumType
    <3>4. QED
      BY <3>1, <3>2, <3>3
  <2>3. QED
    BY <2>1, <2>2
<1>2. T = SUBSET D
  <2>1. T \in SUBSET (SUBSET D)
    OBVIOUS
  <2> HIDE DEF T
  <2>2. QED
    BY ONLY <1>1, <2>1, IsFiniteSet(D), SubsetInduction
<1>3. QED
  BY <1>2

\* The sum does not depend on the element it starts with.
LEMMA SumWithout ==
  ASSUME NEW D, IsFiniteSet(D), NEW f \in [D -> Nat]
  PROVE  \A s \in SUBSET D : \A x \in s : Sums(f)[s] = f[x] + Sums(f)[s \ {x}]
<1> DEFINE T == {s \in SUBSET D : \A x \in s : Sums(f)[s] = f[x] + Sums(f)[s \ {x}]}
<1>1. ASSUME NEW s \in SUBSET D, \A t \in SUBSET s : t # s => t \in T PROVE s \in T
  <2> SUFFICES ASSUME NEW x \in s PROVE Sums(f)[s] = f[x] + Sums(f)[s \ {x}]
    OBVIOUS
  <2> DEFINE y == Some(s)
             rest == (s \ {x}) \ {y}
  <2>1. y \in s /\ Sums(f)[s] = f[y] + Sums(f)[s \ {y}]
    BY SomeIn, SumsOf
  <2>2. CASE x = y
    BY <2>1, <2>2
  <2>3. CASE x # y
    <3>1. s \ {x} \in T /\ y \in s \ {x} /\ s \ {y} \in T /\ x \in s \ {y}
      BY <1>1, <2>1, <2>3
    <3>2. rest = (s \ {y}) \ {x}
      OBVIOUS
    <3>3. /\ Sums(f)[s \ {x}] = f[y] + Sums(f)[rest]
          /\ Sums(f)[s \ {y}] = f[x] + Sums(f)[rest]
      BY <3>1, <3>2
    <3>4. f[x] \in Nat /\ f[y] \in Nat /\ Sums(f)[rest] \in Nat
      BY <2>1, SumType
    <3>5. QED
      BY <2>1, <3>3, <3>4
  <2>4. QED
    BY <2>2, <2>3
<1>2. T = SUBSET D
  <2>1. T \in SUBSET (SUBSET D)
    OBVIOUS
  <2> HIDE DEF T
  <2>2. QED
    BY ONLY <1>1, <2>1, IsFiniteSet(D), SubsetInduction
<1>3. QED
  BY <1>2

\* One event more is one event more at most.
LEMMA SumOfOneMore ==
  ASSUME NEW D, IsFiniteSet(D), NEW f \in [D -> Nat], NEW h \in [D -> Nat], NEW b \in D,
         h[b] <= f[b] + 1, \A a \in D \ {b} : h[a] <= f[a]
  PROVE  \A s \in SUBSET D : Sums(h)[s] <= Sums(f)[s] + 1
<1> DEFINE T == {s \in SUBSET D : Sums(h)[s] <= Sums(f)[s] + (IF b \in s THEN 1 ELSE 0)}
<1>1. ASSUME NEW s \in SUBSET D, \A t \in SUBSET s : t # s => t \in T PROVE s \in T
  <2>1. CASE s = {}
    BY <2>1, SumOfNone
  <2>2. CASE s # {}
    <3> DEFINE y == Some(s)
               rest == s \ {y}
    <3>1. y \in s /\ rest \in T
      BY <1>1, <2>2, SomeIn
    <3>2. /\ Sums(f)[s] = f[y] + Sums(f)[rest]
          /\ Sums(h)[s] = h[y] + Sums(h)[rest]
      BY <2>2, SumsOf
    <3>3. /\ Sums(f)[rest] \in Nat /\ Sums(h)[rest] \in Nat
          /\ f[y] \in Nat /\ h[y] \in Nat
      BY <3>1, SumType
    <3>4. Sums(h)[rest] <= Sums(f)[rest] + (IF b \in rest THEN 1 ELSE 0)
      BY <3>1
    <3>5. CASE y = b
      <4>1. b \notin rest /\ h[y] <= f[y] + 1
        BY <3>5
      <4>2. QED
        BY <3>1, <3>2, <3>3, <3>4, <3>5, <4>1
    <3>6. CASE y # b
      <4>1. h[y] <= f[y] /\ (b \in rest <=> b \in s)
        BY <3>1, <3>6
      <4>2. QED
        BY <3>1, <3>2, <3>3, <3>4, <4>1
    <3>7. QED
      BY <3>5, <3>6
  <2>3. QED
    BY <2>1, <2>2
<1>2. T = SUBSET D
  <2>1. T \in SUBSET (SUBSET D)
    OBVIOUS
  <2> HIDE DEF T
  <2>2. QED
    BY ONLY <1>1, <2>1, IsFiniteSet(D), SubsetInduction
<1>3. QED
  <2> SUFFICES ASSUME NEW s \in SUBSET D PROVE Sums(h)[s] <= Sums(f)[s] + 1
    OBVIOUS
  <2>1. Sums(h)[s] <= Sums(f)[s] + (IF b \in s THEN 1 ELSE 0)
    BY <1>2
  <2>2. Sums(f)[s] \in Nat /\ Sums(h)[s] \in Nat
    BY SumType
  <2>3. QED
    BY <2>1, <2>2

\* Each event a tick older, the oldest gone.
Older(f) == [a \in Ages |-> IF a = 0 THEN 0 ELSE f[a - 1]]
Younger(s) == {a - 1 : a \in s \ {0}}

LEMMA SumOfOlder ==
  ASSUME IsFiniteSet(Ages), NEW f \in [Ages -> Nat]
  PROVE  \A s \in SUBSET Ages : Sums(Older(f))[s] = Sums(f)[Younger(s)]
<1> DEFINE T == {s \in SUBSET Ages : Sums(Older(f))[s] = Sums(f)[Younger(s)]}
<1>1. \A a \in Ages \ {0} : a - 1 \in Ages
  BY DampeningAssumption DEF Ages
<1>2. Older(f) \in [Ages -> Nat]
  BY <1>1 DEF Older
<1>3. ASSUME NEW s \in SUBSET Ages, \A t \in SUBSET s : t # s => t \in T PROVE s \in T
  <2>1. CASE s = {}
    <3>1. Younger(s) = {}
      BY <2>1 DEF Younger
    <3>2. QED
      BY <1>2, <2>1, <3>1, SumOfNone
  <2>2. CASE s # {}
    <3> DEFINE y == Some(s)
               rest == s \ {y}
    <3>1. y \in s /\ rest \in T /\ rest \in SUBSET Ages
      BY <1>3, <2>2, SomeIn
    <3>2. Sums(Older(f))[s] = Older(f)[y] + Sums(f)[Younger(rest)]
      BY <1>2, <2>2, <3>1, SumsOf
    <3>3. Younger(rest) \in SUBSET Ages /\ Younger(s) \in SUBSET Ages
      BY <1>1 DEF Younger
    <3>4. Sums(f)[Younger(rest)] \in Nat
      BY <3>3, SumType
    <3>5. CASE y = 0
      <4>1. Younger(rest) = Younger(s)
        BY <3>5 DEF Younger
      <4>2. Older(f)[y] = 0
        BY <3>1, <3>5 DEF Older
      <4>3. QED
        BY <3>2, <3>4, <4>1, <4>2
    <3>6. CASE y # 0
      <4>1. y - 1 \in Younger(s) /\ Younger(rest) = Younger(s) \ {y - 1}
        <5>1. \A a \in s : a \in Nat
          BY DEF Ages
        <5>2. \A a \in s : a - 1 = y - 1 => a = y
          BY <3>1, <5>1
        <5>3. QED
          BY <3>1, <3>6, <5>2 DEF Younger
      <4>2. Older(f)[y] = f[y - 1]
        BY <3>1, <3>6 DEF Older
      <4>3. Sums(f)[Younger(s)] = f[y - 1] + Sums(f)[Younger(s) \ {y - 1}]
        BY <3>3, <4>1, SumWithout
      <4>4. QED
        BY <3>2, <4>1, <4>2, <4>3
    <3>7. QED
      BY <3>5, <3>6
  <2>3. QED
    BY <2>1, <2>2
<1>4. T = SUBSET Ages
  <2>1. T \in SUBSET (SUBSET Ages)
    OBVIOUS
  <2> HIDE DEF T
  <2>2. QED
    BY ONLY <1>3, <2>1, IsFiniteSet(Ages), SubsetInduction
<1>5. QED
  BY <1>4

\* One event at most, and of one age.
AtMostOne(hits) == \E b \in Ages : hits[b] \in 0 .. 1 /\ \A a \in Ages \ {b} : hits[a] = 0

LEMMA SumOfOne ==
  ASSUME IsFiniteSet(Ages), NEW f \in [Ages -> Nat], AtMostOne(f)
  PROVE  \A s \in SUBSET Ages : Sums(f)[s] \in 0 .. 1
<1>1. PICK b \in Ages : f[b] \in 0 .. 1 /\ \A a \in Ages \ {b} : f[a] = 0
  BY DEF AtMostOne
<1> DEFINE T == {s \in SUBSET Ages : Sums(f)[s] \in 0 .. (IF b \in s THEN 1 ELSE 0)}
<1>2. ASSUME NEW s \in SUBSET Ages, \A t \in SUBSET s : t # s => t \in T PROVE s \in T
  <2>1. CASE s = {}
    BY <2>1, SumOfNone
  <2>2. CASE s # {}
    <3>1. Some(s) \in s /\ s \ {Some(s)} \in T
      BY <1>2, <2>2, SomeIn
    <3>2. Sums(f)[s] = f[Some(s)] + Sums(f)[s \ {Some(s)}]
      BY <2>2, SumsOf
    <3>3. CASE Some(s) = b
      <4>1. Sums(f)[s \ {Some(s)}] = 0
        BY <3>1, <3>3
      <4>2. QED
        BY <1>1, <3>1, <3>2, <3>3, <4>1
    <3>4. CASE Some(s) # b
      <4>1. f[Some(s)] = 0
        BY <1>1, <3>1, <3>4
      <4>2. QED
        BY <3>1, <3>2, <3>4, <4>1
    <3>5. QED
      BY <3>3, <3>4
  <2>3. QED
    BY <2>1, <2>2
<1>3. T = SUBSET Ages
  <2>1. T \in SUBSET (SUBSET Ages)
    OBVIOUS
  <2> HIDE DEF T
  <2>2. QED
    BY ONLY <1>2, <2>1, IsFiniteSet(Ages), SubsetInduction
<1>4. QED
  BY <1>3

-----------------------------------------------------------------------------
(* The inductive invariant *)

\* What the kubelet can have written, after k failed runs.
Plausible(s, c, k) ==
  /\ s.state = "running" => s.why = Never
  /\ s.state = "waiting" => s.why \in {"ContainerCreating", "CrashLoopBackOff"} \cup Stuck
  /\ s.state = "terminated" => s.why \in InitExits
  /\ s.state # "running" => ~s.ready
  /\ s.why \in {"ContainerCreating"} \cup Stuck => s.last = Never
  /\ s.why = "CrashLoopBackOff" => s.last # Never
  /\ k = 0 => ~Failed(s.last) /\ ~Failed(s.why) /\ (c = "init" => s.why # "CrashLoopBackOff")

StatusesPlausible ==
  \A p \in Pods, c \in Containers :
    /\ Plausible(status[p][c], c, crashes[p])
    /\ Plausible(handled[p][c], c, crashes[p])

\* The back-off the main container is in, as long as its handler has not seen it.
Unseen(p) ==
  IF status[p]["main"].why = "CrashLoopBackOff" /\ Changed(p, "main") THEN 1 ELSE 0

\* The window has the failures of a container that failed; without a failed run
\* it has one event for each back-off the handler saw, at most.
WindowKnows ==
  \A p \in Pods :
    /\ handled[p]["main"].last = "Error" => window[p].err = "CrashLoopBackOff"
    /\ backoffs[p] < DampenCount =>
         /\ status[p]["main"].why = "CrashLoopBackOff" => backoffs[p] >= 1
         /\ crashes[p] = 0 /\ window[p].err = "CrashLoopBackOff" =>
              EventCount(window[p]) + Unseen(p) <= backoffs[p]

DetectionInvariant ==
  TypeOK /\ StatusesPlausible /\ WindowKnows /\ OnlyFailuresTrigger

-----------------------------------------------------------------------------
(* Windows *)

LEMMA AgesFinite == IsFiniteSet(Ages) /\ 0 \in Ages
  BY FS_Interval, DampeningAssumption DEF Ages

\* More events of each age are counted as more.
LEMMA CountGrows ==
  ASSUME NEW w, NEW v, w.hits \in [Ages -> Nat], v.hits \in [Ages -> Nat],
         \A a \in Ages : w.hits[a] <= v.hits[a]
  PROVE  EventCount(v) >= EventCount(w)
<1>1. DOMAIN w.hits = Ages /\ DOMAIN v.hits = Ages
  OBVIOUS
<1>2. Sums(w.hits)[Ages] <= Sums(v.hits)[Ages]
  BY <1>1, AgesFinite, SumGrows
<1>3. Sums(w.hits)[Ages] \in Nat /\ Sums(v.hits)[Ages] \in Nat
  BY <1>1, AgesFinite, SumType
<1>4. QED
  BY <1>1, <1>2, <1>3, CountIsSum

LEMMA CountIsNat ==
  ASSUME NEW w, w.hits \in [Ages -> Nat]
  PROVE  EventCount(w) \in Nat
<1>1. Sums(w.hits)[Ages] \in Nat
  BY AgesFinite, SumType
<1>2. QED
  BY <1>1, CountIsSum

LEMMA CountOfOne ==
  ASSUME NEW w, w.hits \in [Ages -> Nat], AtMostOne(w.hits)
  PROVE  EventCount(w) \in 0 .. 1
<1>1. Sums(w.hits)[Ages] \in 0 .. 1
  BY AgesFinite, SumOfOne
<1>2. QED
  BY <1>1, CountIsSum

LEMMA AfterEventType ==
  ASSUME WindowTypeOK, NEW p \in Pods, NEW e \in ErrorStates
  PROVE  /\ AfterEvent(window[p], e) \in [err : ErrorStates \cup {NoError}, hits : [Ages -> Nat]]
         /\ AfterEvent(window[p], e).err = e
  BY DampeningAssumption DEF WindowTypeOK, AfterEvent

\* An event that goes on with its window's error state adds to the window.
LEMMA SameStateAdds ==
  ASSUME WindowTypeOK, NEW p \in Pods, NEW e \in ErrorStates, window[p].err = e
  PROVE  EventCount(AfterEvent(window[p], e)) >= EventCount(window[p])
<1>1. window[p].hits \in [Ages -> Nat]
  BY DEF WindowTypeOK
<1>2. AfterEvent(window[p], e).hits \in [Ages -> Nat]
  BY AfterEventType
<1>3. \A a \in Ages : window[p].hits[a] <= AfterEvent(window[p], e).hits[a]
  BY <1>1, DampeningAssumption DEF AfterEvent
<1>4. QED
  BY <1>1, <1>2, <1>3, CountGrows

\* It adds one to it, at most, and the first of another error state is the only
\* one in the window.
LEMMA EventIsOne ==
  ASSUME WindowTypeOK, NEW p \in Pods, NEW e \in ErrorStates
  PROVE  /\ window[p].err = e =>
              EventCount(AfterEvent(window[p], e)) <= EventCount(window[p]) + 1
         /\ window[p].err # e => EventCount(AfterEvent(window[p], e)) <= 1
<1> DEFINE w == window[p]
           v == AfterEvent(window[p], e)
<1>1. /\ w.hits \in [Ages -> Nat] /\ v.hits \in [Ages -> Nat]
      /\ DOMAIN w.hits = Ages /\ DOMAIN v.hits = Ages
  BY AfterEventType DEF WindowTypeOK
<1>2. CASE w.err = e
  <2>1. v.hits[0] <= w.hits[0] + 1 /\ \A a \in Ages \ {0} : v.hits[a] <= w.hits[a]
    <3>1. \A a \in Ages : v.hits[a] = IF a = 0 /\ w.hits[a] < MaxBurst THEN w.hits[a] + 1
                                      ELSE w.hits[a]
      BY <1>2 DEF AfterEvent
    <3>2. \A a \in Ages : w.hits[a] \in Nat
      BY <1>1
    <3>3. QED
      BY <3>1, <3>2, AgesFinite
  <2>2. Sums(v.hits)[Ages] <= Sums(w.hits)[Ages] + 1
    <3> HIDE DEF v, w
    <3>1. Ages \in SUBSET Ages
      OBVIOUS
    <3>2. QED
      BY <1>1, <2>1, <3>1, AgesFinite, SumOfOneMore
  <2>3. QED
    BY <1>1, <1>2, <2>2, CountIsSum
<1>3. CASE w.err # e
  <2>1. \A a \in Ages : v.hits[a] = IF a = 0 /\ 0 < MaxBurst THEN 1 ELSE 0
    BY <1>3 DEF AfterEvent
  <2>2. AtMostOne(v.hits)
    BY <2>1, AgesFinite DEF AtMostOne
  <2>3. EventCount(v) \in 0 .. 1
    BY <1>1, <2>2, CountOfOne
  <2>4. QED
    BY <1>3, <2>3
<1>4. QED
  BY <1>2, <1>3

LEMMA WindowAfterEvent ==
  ASSUME WindowTypeOK, NEW p \in Pods, NEW e \in ErrorStates, Triggers(p, e) \/ Dampens(p, e)
  PROVE  /\ WindowTypeOK'
         /\ \A q \in Pods \ {p} : window'[q] = window[q]
         /\ window'[p] = IF e \in ImmediateStates THEN window[p] ELSE AfterEvent(window[p], e)
  BY AfterEventType DEF Triggers, Dampens, CountEvent, WindowTypeOK

LEMMA WindowCleared ==
  ASSUME WindowTypeOK, NEW p \in Pods, ClearDampening(p)
  PROVE  /\ WindowTypeOK'
         /\ \A q \in Pods \ {p} : window'[q] = window[q]
         /\ window'[p].err = NoError
  BY DEF ClearDampening, EmptyWindow, WindowTypeOK

\* Time drops events and adds none.
LEMMA WindowsAge ==
  ASSUME WindowTypeOK, AgeWindows
  PROVE  /\ WindowTypeOK'
         /\ \A p \in Pods : /\ window'[p].err = window[p].err
                            /\ EventCount(window'[p]) <= EventCount(window[p])
<1>1. \A a \in Ages : a # 0 => a - 1 \in Ages
  BY DampeningAssumption DEF Ages
<1>2. ASSUME NEW p \in Pods
      PROVE  /\ window'[p] \in [err : ErrorStates \cup {NoError}, hits : [Ages -> Nat]]
             /\ window'[p].err = window[p].err
             /\ window'[p].hits = Older(window[p].hits)
  <2>1. window[p] \in [err : ErrorStates \cup {NoError}, hits : [Ages -> Nat]]
    BY DEF WindowTypeOK
  <2>2. Older(window[p].hits) \in [Ages -> Nat]
    BY <1>1, <2>1 DEF Older
  <2>3. window'[p] = [window[p] EXCEPT !.hits = Older(window[p].hits)]
    BY DEF AgeWindows, Older
  <2>4. QED
    BY <2>1, <2>2, <2>3
<1>3. WindowTypeOK'
  BY <1>2 DEF WindowTypeOK, AgeWindows
<1>4. ASSUME NEW p \in Pods PROVE EventCount(window'[p]) <= EventCount(window[p])
  <2> DEFINE f == window[p].hits
  <2>1. f \in [Ages -> Nat] /\ Older(f) \in [Ages -> Nat] /\ window'[p].hits = Older(f)
    BY <1>2, <1>3 DEF WindowTypeOK
  <2>2. Younger(Ages) = Ages \ {DampenWindow} /\ DampenWindow \in Ages
    <3>1. \A a \in Ages : a # DampenWindow => a + 1 \in Ages \ {0} /\ (a + 1) - 1 = a
      BY DampeningAssumption DEF Ages
    <3>2. \A a \in Ages \ {0} : a - 1 \in Ages \ {DampenWindow}
      BY DampeningAssumption DEF Ages
    <3>3. QED
      BY <3>1, <3>2, DampeningAssumption DEF Younger, Ages
  <2>3. Sums(Older(f))[Ages] = Sums(f)[Ages \ {DampenWindow}]
    BY <2>1, <2>2, AgesFinite, SumOfOlder
  <2>4. Sums(f)[Ages] = f[DampenWindow] + Sums(f)[Ages \ {DampenWindow}]
    <3>1. Ages \in SUBSET Ages
      OBVIOUS
    <3>2. QED
      BY <2>1, <2>2, <3>1, AgesFinite, SumWithout
  <2>5. f[DampenWindow] \in Nat /\ Sums(f)[Ages \ {DampenWindow}] \in Nat
    BY <2>1, <2>2, AgesFinite, SumType
  <2>6. Sums(Older(f))[Ages] <= Sums(f)[Ages]
    BY <2>3, <2>4, <2>5
  <2>7. EventCount(window'[p]) = Sums(Older(f))[Ages] /\ EventCount(window[p]) = Sums(f)[Ages]
    BY <2>1, CountIsSum
  <2>8. QED
    BY <2>6, <2>7
<1>5. QED
  BY <1>2, <1>3, <1>4

-----------------------------------------------------------------------------
(* The kubelet *)

\* A new status of a container, with k failed runs and b back-offs so far.
Writes(p, c, new, k, b) ==
  /\ new \in Status /\ Plausible(new, c, k)
  /\ k \in crashes[p] .. MaxCrashes
  /\ b \in backoffs[p] .. DampenCount
  /\ c = "main" /\ new.why = "CrashLoopBackOff" /\ b < DampenCount =>
       b = backoffs[p] + 1 /\ status[p]["main"].why # "CrashLoopBackOff"
  /\ status' = [status EXCEPT ![p][c] = new]
  /\ rerun' \in {rerun, [rerun EXCEPT ![p][c] = TRUE]}
  /\ crashes' = [crashes EXCEPT ![p] = k]
  /\ backoffs' = [backoffs EXCEPT ![p] = b]
  /\ UNCHANGED <<window, handled, cause>>

\* What every one of the kubelet's steps starts from.
LEMMA Written ==
  ASSUME TypeOK, StatusesPlausible, NEW p \in Pods, NEW c \in Containers
  PROVE  /\ status[p][c] \in Status /\ Plausible(status[p][c], c, crashes[p])
         /\ crashes[p] \in 0 .. MaxCrashes
         /\ crashes[p] \in crashes[p] .. MaxCrashes
         /\ crashes = [crashes EXCEPT ![p] = crashes[p]]
         /\ backoffs[p] \in 0 .. DampenCount
         /\ backoffs[p] \in backoffs[p] .. DampenCount
         /\ backoffs = [backoffs EXCEPT ![p] = backoffs[p]]
  BY DEF TypeOK, StatusesPlausible

LEMMA RunWrites ==
  ASSUME TypeOK, StatusesPlausible, NEW p \in Pods, NEW c \in Containers, Run(p, c)
  PROVE  \E new, k, b : Writes(p, c, new, k, b)
<1> DEFINE s == status[p][c]
           new == [state |-> "running", why |-> Never, ready |-> FALSE,
                   last |-> IF s.state = "terminated" THEN s.why ELSE s.last]
<1>1. s \in Status /\ Plausible(s, c, crashes[p])
  BY Written
<1>2. /\ status' = [status EXCEPT ![p][c] = new] /\ rerun' = [rerun EXCEPT ![p][c] = TRUE]
      /\ UNCHANGED <<window, handled, cause, crashes, backoffs>>
  BY DEF Run, Becomes, past
<1>3. new \in Status
  BY <1>1 DEF Status, Plausible, InitExits, Never
<1>4. Plausible(new, c, crashes[p])
  BY <1>1, DetectionAssumption DEF Plausible, Failed, Never
<1>5. new.why # "CrashLoopBackOff"
  BY DEF Never
<1>6. Writes(p, c, new, crashes[p], backoffs[p])
  <2>1. /\ crashes[p] \in crashes[p] .. MaxCrashes
        /\ backoffs[p] \in backoffs[p] .. DampenCount
        /\ crashes = [crashes EXCEPT ![p] = crashes[p]]
        /\ backoffs = [backoffs EXCEPT ![p] = backoffs[p]]
    BY Written
  <2> HIDE DEF new
  <2>2. QED
    BY <1>2, <1>3, <1>4, <1>5, <2>1 DEF Writes
<1>7. QED
  BY <1>6

LEMMA GetStuckWrites ==
  ASSUME TypeOK, StatusesPlausible, NEW p \in Pods, NEW c \in Containers, GetStuck(p, c)
  PROVE  \E new, k, b : Writes(p, c, new, k, b)
<1> DEFINE s == status[p][c]
<1>1. s \in Status /\ Plausible(s, c, crashes[p])
  BY Written
<1>2. PICK why \in Stuck : Becomes(p, c, {"waiting"}, {"ContainerCreating"}, [s EXCEPT !.why = why])
  BY DEF GetStuck
<1> DEFINE new == [s EXCEPT !.why = why]
<1>3. s.state = "waiting" /\ s.why = "ContainerCreating"
  BY <1>2 DEF Becomes
<1>4. /\ status' = [status EXCEPT ![p][c] = new]
      /\ UNCHANGED <<window, handled, cause, rerun, crashes, backoffs>>
  BY <1>2 DEF GetStuck, Becomes, past
<1>5. new \in Status
  BY <1>1 DEF Status
<1>6. Plausible(new, c, crashes[p])
  BY <1>1, <1>3, DetectionAssumption DEF Status, Plausible, Failed
<1>7. new.why # "CrashLoopBackOff"
  BY <1>1, DetectionAssumption DEF Status
<1>8. QED
  BY <1>4, <1>5, <1>6, <1>7, Written DEF Writes

LEMMA ProbeWrites ==
  ASSUME TypeOK, StatusesPlausible, NEW p \in Pods, Probe(p)
  PROVE  \E new, k, b : Writes(p, "main", new, k, b)
<1> DEFINE s == status[p]["main"]
           new == [s EXCEPT !.ready = ~@]
<1>1. s \in Status /\ Plausible(s, "main", crashes[p]) /\ "main" \in Containers
  BY Written DEF Containers
<1>2. s.state = "running" /\ s.why = Never
  BY DEF Probe, Becomes
<1>3. /\ status' = [status EXCEPT ![p]["main"] = new]
      /\ UNCHANGED <<window, handled, cause, rerun, crashes, backoffs>>
  BY DEF Probe, Becomes, past
<1>4. new \in Status /\ new.why # "CrashLoopBackOff"
  BY <1>1, <1>2 DEF Status, Never
<1>5. Plausible(new, "main", crashes[p])
  BY <1>1, <1>2 DEF Status, Plausible
<1>6. QED
  BY <1>1, <1>3, <1>4, <1>5, Written DEF Writes

\* Only a failed run has a bad end, and it is counted.
LEMMA FinishWrites ==
  ASSUME TypeOK, StatusesPlausible, NEW p \in Pods, NEW c \in Containers,
         NEW exit \in InitExits, Finish(p, c, exit)
  PROVE  \E new, k, b : Writes(p, c, new, k, b)
<1> DEFINE s == status[p][c]
           new == [s EXCEPT !.state = "terminated", !.why = exit, !.ready = FALSE]
           k == IF exit # "Completed" /\ crashes[p] < MaxCrashes THEN crashes[p] + 1 ELSE crashes[p]
<1>1. /\ s \in Status /\ Plausible(s, c, crashes[p])
      /\ crashes[p] \in 0 .. MaxCrashes
  BY Written
<1>2. s.state = "running" /\ s.why = Never
  BY DEF Finish, Becomes
<1>3. /\ status' = [status EXCEPT ![p][c] = new] /\ crashes' = [crashes EXCEPT ![p] = k]
      /\ UNCHANGED <<window, handled, cause, rerun, backoffs>>
  BY <1>1 DEF Finish, Becomes, TypeOK
<1>4. /\ new \in Status /\ new.why # "CrashLoopBackOff"
      /\ new.state = "terminated" /\ new.why = exit /\ ~new.ready /\ new.last = s.last
  BY <1>1, DetectionAssumption DEF Status, InitExits
<1>5. k \in crashes[p] .. MaxCrashes /\ (k = 0 => exit = "Completed" /\ crashes[p] = 0)
  BY <1>1, DetectionAssumption
<1>6. Plausible(new, c, k)
  <2>1. exit # "ContainerCreating" /\ exit \notin Stuck
    BY DetectionAssumption DEF InitExits
  <2>2. k = 0 => ~Failed(s.last)
    BY <1>1, <1>5 DEF Plausible
  <2> HIDE DEF new, k
  <2>3. QED
    BY <1>4, <1>5, <2>1, <2>2 DEF Plausible, Failed
<1>7. Writes(p, c, new, k, backoffs[p])
  <2>1. /\ backoffs[p] \in backoffs[p] .. DampenCount
        /\ backoffs = [backoffs EXCEPT ![p] = backoffs[p]]
    BY Written
  <2> HIDE DEF new, k
  <2>2. QED
    BY <1>3, <1>4, <1>5, <1>6, <2>1 DEF Writes
<1>8. QED
  BY <1>7

LEMMA BackOffWrites ==
  ASSUME TypeOK, StatusesPlausible, NEW p \in Pods, NEW c \in Containers, BackOff(p, c)
  PROVE  \E new, k, b : Writes(p, c, new, k, b)
<1> DEFINE s == status[p][c]
           new == [s EXCEPT !.state = "waiting", !.why = "CrashLoopBackOff", !.last = s.why]
           b == IF c = "main" /\ backoffs[p] < DampenCount THEN backoffs[p] + 1 ELSE backoffs[p]
<1>1. s \in Status /\ Plausible(s, c, crashes[p])
  BY Written
<1>2. s.state = "terminated" /\ s.why \in InitExits /\ (c = "init" => s.why # "Completed")
  BY DEF BackOff, Becomes, Ended, InitDone
<1>3. /\ status' = [status EXCEPT ![p][c] = new]
      /\ backoffs' = [backoffs EXCEPT ![p] = b]
      /\ UNCHANGED <<window, handled, cause, rerun, crashes>>
  BY DEF BackOff, Becomes, TypeOK
<1>4. new \in Status
  BY <1>1, <1>2 DEF Status
<1>5. s.why # "CrashLoopBackOff" /\ (c = "init" => Failed(s.why))
  BY <1>2, DetectionAssumption DEF InitExits, Failed
<1>6. Plausible(new, c, crashes[p])
  <2>1. /\ new.state = "waiting" /\ new.why = "CrashLoopBackOff" /\ new.last = s.why
        /\ new.ready = s.ready
    BY <1>1 DEF Status
  <2>2. s.why # Never /\ ~s.ready /\ (crashes[p] = 0 => ~Failed(s.why))
    BY <1>1, <1>2, DetectionAssumption DEF Plausible, InitExits, Never
  <2>3. "CrashLoopBackOff" \notin Stuck /\ ~Failed("CrashLoopBackOff")
    BY DetectionAssumption DEF Failed
  <2> HIDE DEF new, s
  <2>4. QED
    BY <1>5, <2>1, <2>2, <2>3 DEF Plausible
<1>7. /\ b \in backoffs[p] .. DampenCount
      /\ c = "main" /\ b < DampenCount => b = backoffs[p] + 1
  BY Written, DampeningAssumption
<1>8. Writes(p, c, new, crashes[p], b)
  <2>1. /\ crashes[p] \in crashes[p] .. MaxCrashes
        /\ crashes = [crashes EXCEPT ![p] = crashes[p]]
    BY Written
  <2>2. c = "main" => status[p]["main"].why # "CrashLoopBackOff"
    BY <1>5
  <2> HIDE DEF new, b
  <2>3. QED
    BY <1>3, <1>4, <1>6, <1>7, <2>1, <2>2 DEF Writes
<1>9. QED
  BY <1>8

LEMMA KubeletWrites ==
  ASSUME TypeOK, StatusesPlausible, NEW p \in Pods, Kubelet(p)
  PROVE  \E c \in Containers : \E new, k, b : Writes(p, c, new, k, b)
<1>1. "init" \in Containers /\ "main" \in Containers /\ Exits \subseteq InitExits
  BY DEF Containers, InitExits
<1>2. CASE \E c \in Containers : Run(p, c) \/ GetStuck(p, c) \/ BackOff(p, c)
  BY <1>2, RunWrites, GetStuckWrites, BackOffWrites
<1>3. CASE \E exit \in Exits : Finish(p, "main", exit)
  BY <1>1, <1>3, FinishWrites
<1>4. CASE \E exit \in InitExits : Finish(p, "init", exit)
  BY <1>1, <1>4, FinishWrites
<1>5. CASE Probe(p)
  BY <1>1, <1>5, ProbeWrites
<1>6. QED
  BY <1>2, <1>3, <1>4, <1>5 DEF Kubelet

\* What no failed run can have led to, fewer cannot, either.
LEMMA PlausibleLater ==
  ASSUME NEW s, NEW c, NEW i \in Nat, NEW j \in Nat, i <= j, Plausible(s, c, i)
  PROVE  Plausible(s, c, j)
  BY DEF Plausible

LEMMA WritesPreserve ==
  ASSUME DetectionInvariant, NEW p \in Pods, NEW c \in Containers, NEW new, NEW k, NEW b,
         Writes(p, c, new, k, b)
  PROVE  DetectionInvariant'
<1> USE DEF DetectionInvariant
<1>1. /\ \A q \in Pods : /\ crashes[q] \in Nat /\ crashes'[q] \in crashes[q] .. MaxCrashes
                         /\ backoffs[q] \in Nat
                         /\ backoffs'[q] \in backoffs[q] .. DampenCount
      /\ crashes'[p] = k /\ backoffs'[p] = b
      /\ \A q \in Pods \ {p} : backoffs'[q] = backoffs[q]
      /\ \A q \in Pods, d \in Containers :
           /\ status'[q][d] = IF q = p /\ d = c THEN new ELSE status[q][d]
           /\ q # p \/ d # c => rerun'[q][d] = rerun[q][d]
      /\ UNCHANGED <<window, handled, cause>>
  BY DetectionAssumption DEF Writes, TypeOK
<1>2. TypeOK'
  <2>1. WindowTypeOK'
    BY DEF Writes, TypeOK, WindowTypeOK
  <2>2. status' \in [Pods -> [Containers -> Status]]
    BY DEF Writes, TypeOK
  <2>3. rerun' \in [Pods -> [Containers -> BOOLEAN]]
    <3>1. rerun \in [Pods -> [Containers -> BOOLEAN]]
      BY DEF TypeOK
    <3>2. rerun' = rerun \/ rerun' = [rerun EXCEPT ![p][c] = TRUE]
      BY DEF Writes
    <3>3. [rerun EXCEPT ![p][c] = TRUE] \in [Pods -> [Containers -> BOOLEAN]]
      <4>1. [rerun[p] EXCEPT ![c] = TRUE] \in [Containers -> BOOLEAN]
        BY <3>1
      <4>2. [rerun EXCEPT ![p] = [rerun[p] EXCEPT ![c] = TRUE]]
              \in [Pods -> [Containers -> BOOLEAN]]
        BY <3>1, <4>1
      <4>3. QED
        BY <4>2
    <3>4. QED
      BY <3>1, <3>2, <3>3
  <2>4. crashes' \in [Pods -> 0 .. MaxCrashes]
    BY <1>1, DetectionAssumption DEF Writes, TypeOK
  <2>5. backoffs' \in [Pods -> 0 .. DampenCount]
    BY <1>1, DampeningAssumption DEF Writes, TypeOK
  <2>6. QED
    BY <2>1, <2>2, <2>3, <2>4, <2>5 DEF Writes, TypeOK
<1>3. StatusesPlausible'
  <2> SUFFICES ASSUME NEW q \in Pods, NEW d \in Containers
               PROVE  /\ Plausible(status'[q][d], d, crashes'[q])
                      /\ Plausible(handled'[q][d], d, crashes'[q])
    BY DEF StatusesPlausible
  <2>1. Plausible(status[q][d], d, crashes[q]) /\ Plausible(handled[q][d], d, crashes[q])
    BY DEF StatusesPlausible
  <2>2. Plausible(status[q][d], d, crashes'[q]) /\ Plausible(handled[q][d], d, crashes'[q])
    BY <1>1, <2>1, PlausibleLater
  <2>3. QED
    BY <1>1, <2>1, <2>2 DEF Writes
<1>4. WindowKnows'
  <2> SUFFICES ASSUME NEW q \in Pods, backoffs'[q] < DampenCount
               PROVE  /\ status'[q]["main"].why = "CrashLoopBackOff" => backoffs'[q] >= 1
                      /\ crashes'[q] = 0 /\ window'[q].err = "CrashLoopBackOff" =>
                           EventCount(window'[q]) + Unseen(q)' <= backoffs'[q]
    BY <1>1 DEF WindowKnows
  <2>1. /\ backoffs[q] < DampenCount /\ backoffs[q] <= backoffs'[q]
        /\ crashes'[q] = 0 => crashes[q] = 0
        /\ EventCount(window[q]) \in Nat /\ EventCount(window'[q]) = EventCount(window[q])
        /\ backoffs[q] \in Nat /\ backoffs'[q] \in Nat /\ "main" \in Containers
    BY <1>1, CountIsNat, DampeningAssumption DEF TypeOK, WindowTypeOK, Containers
  <2>2. /\ status[q]["main"].why = "CrashLoopBackOff" => backoffs[q] >= 1
        /\ crashes[q] = 0 /\ window[q].err = "CrashLoopBackOff" =>
             EventCount(window[q]) + Unseen(q) <= backoffs[q]
    BY <2>1 DEF WindowKnows
  <2>3. CASE q # p \/ c # "main"
    <3>1. status'[q]["main"] = status[q]["main"] /\ Unseen(q)' = Unseen(q)
      BY <1>1, <2>1, <2>3 DEF Unseen, Changed
    <3>2. Unseen(q) \in {0, 1}
      BY DEF Unseen
    <3>3. QED
      BY <1>1, <2>1, <2>2, <3>1, <3>2
  <2>4. CASE q = p /\ c = "main" /\ new.why # "CrashLoopBackOff"
    <3>1. status'[q]["main"].why # "CrashLoopBackOff" /\ Unseen(q)' = 0
      BY <1>1, <2>1, <2>4 DEF Unseen
    <3>2. Unseen(q) \in {0, 1}
      BY DEF Unseen
    <3>3. QED
      BY <1>1, <2>1, <2>2, <3>1, <3>2
  <2>5. CASE q = p /\ c = "main" /\ new.why = "CrashLoopBackOff"
    <3>1. backoffs'[q] = backoffs[q] + 1 /\ status[q]["main"].why # "CrashLoopBackOff"
      BY <1>1, <2>5 DEF Writes
    <3>2. Unseen(q) = 0 /\ Unseen(q)' \in {0, 1}
      BY <3>1 DEF Unseen
    <3>3. QED
      BY <1>1, <2>1, <2>2, <3>1, <3>2
  <2>6. QED
    BY <2>3, <2>4, <2>5
<1>5. OnlyFailuresTrigger'
  <2> SUFFICES ASSUME NEW q \in Pods, cause'[q] # Never
               PROVE  \/ crashes'[q] > 0
                      \/ handled'[q][cause'[q]].why \in Stuck
                      \/ cause'[q] = "main" /\ backoffs'[q] = DampenCount
    BY DEF OnlyFailuresTrigger
  <2>1. \/ crashes[q] > 0
        \/ handled[q][cause[q]].why \in Stuck
        \/ cause[q] = "main" /\ backoffs[q] = DampenCount
    BY <1>1 DEF OnlyFailuresTrigger
  <2>2. /\ crashes[q] > 0 => crashes'[q] > 0
        /\ backoffs[q] = DampenCount => backoffs'[q] = DampenCount
    BY <1>1, DampeningAssumption
  <2>3. QED
    BY <1>1, <2>1, <2>2
<1>6. QED
  BY <1>2, <1>3, <1>4, <1>5

-----------------------------------------------------------------------------
(* The handlers *)

\* What the main containers' handler makes of a status.
LEMMA MainDetected ==
  ASSUME NEW p \in Pods, NEW k \in Nat, status[p]["main"] \in Status,
         Plausible(status[p]["main"], "main", k)
  PROVE  LET s == status[p]["main"]
             e == Detected(p, "main")
         IN /\ e \in ErrorStates \cup {NoError}
            /\ s.last = "Error" => e = "CrashLoopBackOff"
            /\ e = "CrashLoopBackOff" /\ k = 0 => s.why = "CrashLoopBackOff"
            /\ e \notin {"CrashLoopBackOff", NoError} => s.why \in Stuck \/ k > 0
<1> DEFINE s == status[p]["main"]
<1>1. Detected(p, "main") = detect_error_state(s)
  BY DEF Detected
<1>2. s.last = "OOMKilled" => "OOMKilled" \in Exits /\ k > 0
  BY DetectionAssumption DEF Status, Plausible, InitExits, Failed, Never
<1>3. s.why \in Stuck => s.last = Never
  BY DEF Plausible
<1>4. s.last = "Error" => k > 0
  BY DEF Plausible, Failed
<1>5. \/ /\ s.state = "waiting" /\ s.why = "CrashLoopBackOff"
         /\ Detected(p, "main") = "CrashLoopBackOff"
      \/ s.state = "waiting" /\ s.why \in Stuck /\ Detected(p, "main") = s.why
      \/ s.last = "OOMKilled" /\ Detected(p, "main") = "OOMKilled"
      \/ s.last = "Error" /\ Detected(p, "main") = "CrashLoopBackOff"
      \/ s.last \notin {"OOMKilled", "Error"} /\ Detected(p, "main") = NoError
  BY <1>1 DEF detect_error_state
<1> DEFINE e == Detected(p, "main")
<1>6. e \in ErrorStates \cup {NoError}
  BY <1>2, <1>5, DetectionAssumption
<1>7. s.last = "Error" => e = "CrashLoopBackOff"
  BY <1>3, <1>5 DEF Never
<1>8. e = "CrashLoopBackOff" /\ k = 0 => s.why = "CrashLoopBackOff"
  BY <1>2, <1>4, <1>5, DetectionAssumption, DampeningAssumption
<1>9. e \notin {"CrashLoopBackOff", NoError} => s.why \in Stuck \/ k > 0
  BY <1>2, <1>5
<1>10. QED
  BY <1>6, <1>7, <1>8, <1>9

\* What the init containers' handler makes of a status.
LEMMA InitDetected ==
  ASSUME NEW p \in Pods, NEW k \in Nat, status[p]["init"] \in Status,
         Plausible(status[p]["init"], "init", k)
  PROVE  /\ Detected(p, "init") \in {"InitCrashLoopBackOff", NoError}
         /\ Detected(p, "init") # NoError => k > 0
  BY DEF Detected, detect_init_error_state, Plausible

\* What a call of the handlers leaves in the window.
HandledWindow(p, c, e) ==
  IF c = "main" /\ e = NoError THEN window'[p].err = NoError
  ELSE window'[p] = IF e = NoError \/ e \in ImmediateStates
                    THEN window[p] ELSE AfterEvent(window[p], e)

LEMMA HandleWindow ==
  ASSUME DetectionInvariant, NEW p \in Pods, NEW c \in Containers, Handle(p, c)
  PROVE  /\ Detected(p, c) \in ErrorStates \cup {NoError}
         /\ WindowTypeOK'
         /\ \A q \in Pods \ {p} : window'[q] = window[q]
         /\ HandledWindow(p, c, Detected(p, c))
<1> DEFINE e == Detected(p, c)
<1>1. /\ WindowTypeOK /\ status[p][c] \in Status /\ Plausible(status[p][c], c, crashes[p])
      /\ crashes[p] \in Nat
  BY DetectionAssumption DEF DetectionInvariant, TypeOK, StatusesPlausible
<1>2. e \in ErrorStates \cup {NoError}
  BY <1>1, MainDetected, InitDetected, DetectionAssumption DEF Containers
<1>3. CASE e # NoError /\ (Triggers(p, e) \/ Dampens(p, e))
  BY <1>1, <1>2, <1>3, WindowAfterEvent DEF HandledWindow
<1>4. CASE e = NoError /\ c = "main" /\ ClearDampening(p)
  BY <1>1, <1>2, <1>4, WindowCleared DEF HandledWindow
<1>5. CASE e = NoError /\ c # "main" /\ UNCHANGED window
  BY <1>1, <1>2, <1>5 DEF HandledWindow, WindowTypeOK
<1>6. \/ e # NoError /\ (Triggers(p, e) \/ Dampens(p, e))
      \/ e = NoError /\ c = "main" /\ ClearDampening(p)
      \/ e = NoError /\ c # "main" /\ UNCHANGED window
  BY DEF Handle
<1>7. QED
  BY <1>3, <1>4, <1>5, <1>6

LEMMA HandlePreserves ==
  ASSUME DetectionInvariant, NEW p \in Pods, NEW c \in Containers, Handle(p, c)
  PROVE  DetectionInvariant'
<1> DEFINE e == Detected(p, c)
<1>1. /\ TypeOK /\ StatusesPlausible /\ WindowKnows /\ OnlyFailuresTrigger
      /\ WindowTypeOK /\ c \in {"init", "main"}
      /\ \A q \in Pods : crashes[q] \in Nat /\ backoffs[q] \in Nat
  BY DetectionAssumption, DampeningAssumption DEF DetectionInvariant, TypeOK, Containers
<1>2. /\ Changed(p, c)
      /\ UNCHANGED <<status, crashes, backoffs>>
      /\ handled' = [handled EXCEPT ![p][c] = status[p][c]]
      /\ rerun' = [rerun EXCEPT ![p][c] = FALSE]
      /\ cause' \in [Pods -> Containers \cup {Never}]
      /\ \A q \in Pods \ {p} : cause'[q] = cause[q]
      /\ cause'[p] \in {c, Never}
      /\ cause'[p] = c => e # NoError /\ Triggers(p, e)
  BY <1>1 DEF Handle, TypeOK, Never, past
<1>3. \A q \in Pods, d \in Containers :
        /\ handled'[q][d] = IF q = p /\ d = c THEN status[p][c] ELSE handled[q][d]
        /\ rerun'[q][d] = IF q = p /\ d = c THEN FALSE ELSE rerun[q][d]
  BY <1>1, <1>2 DEF TypeOK
<1>4. /\ e \in ErrorStates \cup {NoError} /\ WindowTypeOK'
      /\ \A q \in Pods \ {p} : window'[q] = window[q]
      /\ HandledWindow(p, c, e)
  BY HandleWindow
<1>5. /\ \A d \in Containers : status[p][d] \in Status /\ handled[p][d] \in Status
      /\ \A d \in Containers : Plausible(status[p][d], d, crashes[p])
      /\ "main" \in Containers /\ "init" \in Containers
  BY <1>1 DEF TypeOK, StatusesPlausible, Containers
<1>6. TypeOK'
  <2>1. handled' \in [Pods -> [Containers -> Status]]
    BY <1>1, <1>2, <1>5 DEF TypeOK
  <2>2. rerun' \in [Pods -> [Containers -> BOOLEAN]]
    BY <1>1, <1>2 DEF TypeOK
  <2>3. QED
    BY <1>1, <1>2, <1>4, <2>1, <2>2 DEF TypeOK
<1>7. StatusesPlausible'
  BY <1>1, <1>2, <1>3 DEF StatusesPlausible
<1>8. WindowKnows'
  <2>1. ASSUME NEW q \in Pods, q # p \/ c = "init"
        PROVE  window'[q] = window[q] /\ handled'[q]["main"] = handled[q]["main"]
               /\ Unseen(q)' = Unseen(q)
    <3>1. CASE q # p
      BY <1>2, <1>3, <1>4, <1>5, <3>1 DEF Unseen, Changed
    <3>2. CASE q = p /\ c = "init"
      <4>1. e = NoError \/ e = "InitCrashLoopBackOff"
        BY <1>1, <1>5, <3>2, InitDetected
      <4>2. window'[p] = window[p]
        BY <1>4, <3>2, <4>1, ThresholdAssumption DEF HandledWindow
      <4>3. QED
        BY <1>2, <1>3, <1>5, <3>2, <4>2 DEF Unseen, Changed
    <3>3. QED
      BY <2>1, <3>1, <3>2
  <2>2. CASE c = "init"
    BY <1>1, <1>2, <2>1, <2>2 DEF WindowKnows
  <2>3. CASE c = "main"
    <3> DEFINE s == status[p]["main"]
               w == window[p]
    <3>1. /\ s.last = "Error" => e = "CrashLoopBackOff"
          /\ e = "CrashLoopBackOff" /\ crashes[p] = 0 => s.why = "CrashLoopBackOff"
      BY <1>1, <1>5, <2>3, MainDetected
    <3>2. handled'[p]["main"] = s /\ Unseen(p)' = 0
      BY <1>2, <1>3, <1>5, <2>3 DEF Unseen, Changed
    <3>3. e = "CrashLoopBackOff" => /\ window'[p] = AfterEvent(w, e)
                                    /\ window'[p].err = "CrashLoopBackOff"
      BY <1>1, <1>4, <2>3, AfterEventType, DetectionAssumption, DampeningAssumption,
         ThresholdAssumption DEF HandledWindow
    <3>4. s.last = "Error" => window'[p].err = "CrashLoopBackOff"
      BY <3>1, <3>3
    <3>5. ASSUME crashes[p] = 0, window'[p].err = "CrashLoopBackOff", backoffs[p] < DampenCount
          PROVE  EventCount(window'[p]) + Unseen(p)' <= backoffs[p]
      <4>1. /\ EventCount(w) \in Nat /\ EventCount(window'[p]) \in Nat /\ backoffs[p] \in Nat
            /\ Unseen(p) \in {0, 1}
            /\ s.why = "CrashLoopBackOff" => backoffs[p] >= 1 /\ Unseen(p) = 1
            /\ w.err = "CrashLoopBackOff" => EventCount(w) + Unseen(p) <= backoffs[p]
        BY <1>1, <1>2, <1>4, <2>3, <3>5, CountIsNat DEF WindowKnows, WindowTypeOK, Unseen
      <4>2. CASE e = "CrashLoopBackOff"
        <5>1. /\ w.err = e => EventCount(window'[p]) <= EventCount(w) + 1
              /\ w.err # e => EventCount(window'[p]) <= 1
          BY <1>1, <3>3, <4>2, EventIsOne, DetectionAssumption
        <5>2. s.why = "CrashLoopBackOff"
          BY <3>1, <3>5, <4>2
        <5>3. QED
          BY <3>2, <4>1, <4>2, <5>1, <5>2
      <4>3. CASE e # "CrashLoopBackOff"
        <5>1. e # NoError
          BY <1>4, <2>3, <3>5, DetectionAssumption, DampeningAssumption DEF HandledWindow
        <5>2. window'[p] = w
          BY <1>1, <1>4, <2>3, <3>5, <4>3, <5>1, AfterEventType DEF HandledWindow
        <5>3. QED
          BY <3>2, <3>5, <4>1, <5>2
      <4>4. QED
        BY <4>2, <4>3
    <3>6. s.why = "CrashLoopBackOff" /\ backoffs[p] < DampenCount => backoffs[p] >= 1
      BY <1>1 DEF WindowKnows
    <3>7. QED
      BY <1>1, <1>2, <2>1, <3>2, <3>4, <3>5, <3>6 DEF WindowKnows
  <2>4. QED
    BY <1>1, <2>2, <2>3
<1>9. OnlyFailuresTrigger'
  <2> SUFFICES ASSUME NEW q \in Pods, cause'[q] # Never
               PROVE  \/ crashes'[q] > 0
                      \/ handled'[q][cause'[q]].why \in Stuck
                      \/ cause'[q] = "main" /\ backoffs'[q] = DampenCount
    BY DEF OnlyFailuresTrigger
  <2>1. CASE q # p
    <3>1. cause'[q] = cause[q] /\ cause[q] \in Containers
      BY <1>1, <1>2, <2>1 DEF TypeOK
    <3>2. QED
      BY <1>1, <1>2, <1>3, <2>1, <3>1 DEF OnlyFailuresTrigger
  <2>2. CASE q = p /\ c = "init"
    BY <1>1, <1>2, <1>5, <2>2, InitDetected
  <2>3. CASE q = p /\ c = "main" /\ e # "CrashLoopBackOff"
    <3>1. e # NoError /\ cause'[p] = "main"
      BY <1>2, <2>3
    <3>2. status[p]["main"].why \in Stuck \/ crashes[p] > 0
      BY <1>1, <1>5, <2>3, <3>1, MainDetected
    <3>3. handled'[p]["main"] = status[p]["main"] /\ crashes' = crashes
      <4>1. "main" \in Containers
        BY <1>5
      <4>2. handled'[p]["main"] = status[p][c]
        BY <1>3, <2>3, <4>1
      <4>3. crashes' = crashes
        BY <1>2
      <4>4. QED
        BY <2>3, <4>2, <4>3
    <3>4. QED
      BY <2>3, <3>1, <3>2, <3>3
  <2>4. CASE q = p /\ c = "main" /\ e = "CrashLoopBackOff"
    <3> SUFFICES ASSUME crashes[p] = 0, backoffs[p] < DampenCount PROVE FALSE
      <4>1. backoffs[p] \in 0 .. DampenCount /\ cause'[p] = "main"
        BY <1>1, <1>2, <2>4 DEF TypeOK
      <4>2. backoffs[p] < DampenCount \/ backoffs[p] = DampenCount
        BY <4>1, DampeningAssumption
      <4>3. QED
        BY <1>1, <1>2, <2>4, <4>1, <4>2
    <3>1. window'[p] = AfterEvent(window[p], e) /\ window'[p].err = "CrashLoopBackOff"
      BY <1>1, <1>4, <2>4, AfterEventType, DetectionAssumption, DampeningAssumption,
         ThresholdAssumption DEF HandledWindow
    <3>2. EventCount(window'[p]) + Unseen(p)' <= backoffs[p]
      BY <1>2, <1>8, <3>1 DEF WindowKnows
    <3>3. /\ EventCount(window'[p]) \in Nat /\ Unseen(p)' \in {0, 1}
          /\ backoffs[p] \in Nat
      BY <1>1, <1>4, CountIsNat DEF WindowTypeOK, Unseen
    <3>4. EventCount(window'[p]) >= DampenCount
      BY <1>2, <2>4, <3>1, ThresholdAssumption DEF Triggers, ReachesThreshold
    <3>5. QED
      BY <3>2, <3>3, <3>4, DampeningAssumption
  <2>5. QED
    BY <1>1, <2>1, <2>2, <2>3, <2>4
<1>10. QED
  BY <1>6, <1>7, <1>8, <1>9 DEF DetectionInvariant

-----------------------------------------------------------------------------
(* The theorems *)

LEMMA InitHolds == Init => DetectionInvariant
<1> SUFFICES ASSUME Init PROVE DetectionInvariant
  OBVIOUS
<1>1. Created \in Status /\ \A c \in Containers : Plausible(Created, c, 0)
  BY DEF Created, Status, Plausible, Failed, Never
<1>2. TypeOK
  <2>1. WindowTypeOK
    BY DEF Init, WindowInit, WindowTypeOK, EmptyWindow
  <2>2. 0 \in 0 .. MaxCrashes /\ 0 \in 0 .. DampenCount
    BY DetectionAssumption, DampeningAssumption
  <2>3. QED
    BY <1>1, <2>1, <2>2 DEF Init, TypeOK
<1>3. StatusesPlausible
  BY <1>1 DEF Init, StatusesPlausible
<1>4. WindowKnows
  BY DetectionAssumption, DampeningAssumption
     DEF Init, WindowInit, WindowKnows, EmptyWindow, Created, Containers, Never
<1>5. OnlyFailuresTrigger
  BY DEF Init, OnlyFailuresTrigger
<1>6. QED
  BY <1>2, <1>3, <1>4, <1>5 DEF DetectionInvariant

LEMMA TickPreserves ==
  ASSUME DetectionInvariant, Tick
  PROVE  DetectionInvariant'
<1>1. TypeOK /\ WindowTypeOK /\ AgeWindows /\ UNCHANGED <<status, handled, rerun, crashes, backoffs, cause>>
  BY DEF DetectionInvariant, TypeOK, Tick, past
<1>2. TypeOK'
  BY <1>1, WindowsAge DEF TypeOK
<1>3. WindowKnows'
  <2>1. /\ \A p \in Pods : /\ window'[p].err = window[p].err
                          /\ EventCount(window'[p]) <= EventCount(window[p])
        /\ WindowTypeOK'
    BY <1>1, WindowsAge
  <2>2. \A p \in Pods : /\ EventCount(window[p]) \in Nat /\ EventCount(window'[p]) \in Nat
                       /\ backoffs[p] \in Nat /\ Unseen(p) \in {0, 1} /\ Unseen(p)' = Unseen(p)
    BY <1>1, <2>1, CountIsNat, DampeningAssumption DEF WindowTypeOK, TypeOK, Unseen, Changed
  <2>3. QED
    BY <1>1, <2>1, <2>2 DEF DetectionInvariant, WindowKnows
<1>4. StatusesPlausible' /\ OnlyFailuresTrigger'
  BY <1>1 DEF DetectionInvariant, StatusesPlausible, OnlyFailuresTrigger
<1>5. QED
  BY <1>2, <1>3, <1>4 DEF DetectionInvariant

LEMMA StutterPreserves ==
  ASSUME DetectionInvariant, UNCHANGED vars
  PROVE  DetectionInvariant'
<1>1. TypeOK'
  BY DEF DetectionInvariant, TypeOK, WindowTypeOK, vars, past
<1>2. StatusesPlausible' /\ WindowKnows' /\ OnlyFailuresTrigger'
  BY DEF DetectionInvariant, StatusesPlausible, WindowKnows, OnlyFailuresTrigger, Unseen, Changed,
         vars, past
<1>3. QED
  BY <1>1, <1>2 DEF DetectionInvariant

LEMMA StepPreserves == DetectionInvariant /\ [Next]_vars => DetectionInvariant'
<1> SUFFICES ASSUME DetectionInvariant, [Next]_vars PROVE DetectionInvariant'
  OBVIOUS
<1>1. CASE \E p \in Pods : Kubelet(p)
  <2>1. TypeOK /\ StatusesPlausible
    BY DEF DetectionInvariant
  <2>2. QED
    BY <1>1, <2>1, KubeletWrites, WritesPreserve
<1>2. CASE \E p \in Pods, c \in Containers : Handle(p, c)
  BY <1>2, HandlePreserves
<1>3. CASE Tick
  BY <1>3, TickPreserves
<1>4. CASE UNCHANGED vars
  BY <1>4, StutterPreserves
<1>5. QED
  BY <1>1, <1>2, <1>3, <1>4 DEF Next

LEMMA DetectionInvariantHolds == Spec => []DetectionInvariant
  BY InitHolds, StepPreserves, PTL DEF Spec

\* Every reachable state of the detection is well typed: the kubelet's
\* statuses, those the handlers have seen, and the windows.
THEOREM DetectionTypeCorrect == Spec => []TypeOK
<1>1. DetectionInvariant => TypeOK
  BY DEF DetectionInvariant
<1>2. QED
  BY <1>1, DetectionInvariantHolds, PTL

\* Whatever the kubelet does, however late the handlers see it and however many
\* runs are merged into one change: a pod whose containers have not failed and
\* can be started is not diagnosed before as many back-offs as should_trigger
\* asks events for (dedup.py:55-76), for each is counted once at most.
THEOREM OnlyFailuresTriggerCorrect == Spec => []OnlyFailuresTrigger
<1>1. DetectionInvariant => OnlyFailuresTrigger
  BY DEF DetectionInvariant
<1>2. QED
  BY <1>1, DetectionInvariantHolds, PTL

LEMMA HandleAccumulates ==
  ASSUME DetectionInvariant, NEW p \in Pods, NEW c \in Containers, Handle(p, c), NEW q \in Pods,
         <<handled'[q], rerun'[q]>> # <<handled[q], rerun[q]>>,
         handled[q]["main"].last = "Error", handled'[q]["main"].last = "Error"
  PROVE  EventCount(window'[q]) >= EventCount(window[q])
<1>1. /\ TypeOK /\ StatusesPlausible /\ WindowKnows /\ WindowTypeOK /\ c \in {"init", "main"}
      /\ "main" \in Containers
      /\ crashes[p] \in Nat
  BY DetectionAssumption DEF DetectionInvariant, TypeOK, Containers
<1>2. /\ handled' = [handled EXCEPT ![p][c] = status[p][c]]
      /\ rerun' = [rerun EXCEPT ![p][c] = FALSE]
  BY DEF Handle
<1>3. q = p
  BY <1>1, <1>2 DEF TypeOK
<1>4. HandledWindow(p, c, Detected(p, c))
  BY HandleWindow
<1>5. status[p][c] \in Status /\ Plausible(status[p][c], c, crashes[p])
  BY <1>1 DEF TypeOK, StatusesPlausible
<1>6. CASE c = "init"
  <2>1. window'[p] = window[p]
    BY <1>1, <1>4, <1>5, <1>6, InitDetected, ThresholdAssumption DEF HandledWindow
  <2>2. window[p].hits \in [Ages -> Nat]
    BY <1>1 DEF WindowTypeOK
  <2>3. QED
    BY <1>3, <2>1, <2>2, CountGrows
<1>7. CASE c = "main"
  <2>1. handled'[p]["main"] = status[p]["main"]
    BY <1>1, <1>2, <1>7 DEF TypeOK
  <2>2. Detected(p, c) = "CrashLoopBackOff"
    BY <1>1, <1>3, <1>5, <1>7, <2>1, MainDetected
  <2>3. window'[p] = AfterEvent(window[p], "CrashLoopBackOff")
    BY <1>4, <2>2, DetectionAssumption, DampeningAssumption, ThresholdAssumption
       DEF HandledWindow
  <2>4. window[p].err = "CrashLoopBackOff"
    BY <1>1, <1>3 DEF WindowKnows
  <2>5. QED
    BY <1>1, <1>3, <2>3, <2>4, SameStateAdds, DetectionAssumption
<1>8. QED
  BY <1>1, <1>6, <1>7

\* From one failed run of the main container to the next nothing the kubelet
\* does takes an event out of layer 1's window: all of the statuses in between
\* have the error state the window is about (log_preprocessor.py:138-143).
THEOREM CountsAccumulateCorrect == Spec => CountsAccumulate
<1> DEFINE Accumulates ==
      \A p \in Pods :
        (/\ <<handled'[p], rerun'[p]>> # <<handled[p], rerun[p]>>
         /\ handled[p]["main"].last = "Error" /\ handled'[p]["main"].last = "Error") =>
          EventCount(window'[p]) >= EventCount(window[p])
<1>1. DetectionInvariant /\ [Next]_vars => [Accumulates]_vars
  <2> SUFFICES ASSUME DetectionInvariant, Next PROVE Accumulates
    OBVIOUS
  <2>1. CASE \E p \in Pods, c \in Containers : Handle(p, c)
    BY <2>1, HandleAccumulates
  <2>2. CASE Tick
    BY <2>2 DEF Tick
  <2>3. CASE \E p \in Pods : Kubelet(p)
    <3>1. TypeOK /\ StatusesPlausible
      BY DEF DetectionInvariant
    <3>2. UNCHANGED window
      BY <2>3, <3>1, KubeletWrites DEF Writes
    <3>3. \A p \in Pods : EventCount(window[p]) \in Nat
      BY <3>1, CountIsNat DEF TypeOK, WindowTypeOK
    <3>4. QED
      BY <3>2, <3>3
  <2>4. QED
    BY <2>1, <2>2, <2>3 DEF Next
<1>2. QED
  BY <1>1, DetectionInvariantHolds, PTL DEF Spec, CountsAccumulate
=============================================================================
