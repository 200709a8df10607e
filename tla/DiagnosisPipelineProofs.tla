----------------------- MODULE DiagnosisPipelineProofs -----------------------
(***************************************************************************)
(* Proofs about DiagnosisPipeline, for every cluster and every value of    *)
(* the constants.                                                          *)
(***************************************************************************)
EXTENDS DiagnosisPipeline, FiniteSetTheorems, TLAPS

USE DEF local, budget, storeVars

-----------------------------------------------------------------------------
(* Type correctness.  TypeOK alone is not inductive: that the fingerprint  *)
(* is one, and that records and rows name incidents, rests on what the     *)
(* handler holds at each stage.                                            *)

Made == {"record", "save", "register"}

LocalInv ==
  \A p \in Pods :
    /\ pc[p] # "idle" => err[p] \in ErrorStates
    /\ pc[p] \in Made => ref[p] \in used

TypeInv == TypeOK /\ LocalInv

LEMMA InitType == Init => TypeInv
  BY StoreAssumption, CacheAssumption, PipelineAssumption
  DEF Init, TypeInv, LocalInv, Made, TypeOK, StoreInit, StoreTypeOK, WindowInit,
      WindowTypeOK, EmptyWindow, CacheInit, CacheTypeOK, NoEntry, Stages

-----------------------------------------------------------------------------
(* The writes to the stores preserve their types. *)

LEMMA AddPRType ==
  ASSUME StoreTypeOK, NEW n \in PRs, NEW pr \in PatchRequest, AddPR(n, pr)
  PROVE  StoreTypeOK'
  BY DEF AddPR, StoreTypeOK

LEMMA SetSeenType ==
  ASSUME StoreTypeOK, NEW n \in DOMAIN prs, NEW k \in Nat,
         SetSeen(n, k), used' = used
  PROVE  StoreTypeOK'
  BY DEF SetSeen, StoreTypeOK, PatchRequest

LEMMA LifecycleType ==
  ASSUME StoreTypeOK, LifecycleNext
  PROVE  StoreTypeOK' /\ used' = used
<1>1. SUFFICES ASSUME NEW n \in PRs, Review(n) \/ Remediate(n) \/ DeletePR(n)
               PROVE  StoreTypeOK' /\ used' = used
  BY DEF LifecycleNext
<1>2. CASE Review(n)
  <2>1. PICK s \in ApprovalStates : SetState(n, s)
    BY <1>2 DEF Review, ApprovalStates
  <2>2. QED
    BY <1>2, <2>1 DEF Review, SetState, StoreTypeOK, PatchRequest
<1>3. CASE Remediate(n)
  <2>1. PICK s \in ApprovalStates : SetState(n, s)
    BY <1>3 DEF Remediate
  <2>2. QED
    BY <1>3, <2>1 DEF Remediate, SetState, StoreTypeOK, PatchRequest
<1>4. CASE DeletePR(n)
  BY <1>4 DEF DeletePR, StoreTypeOK
<1>5. QED
  BY <1>1, <1>2, <1>3, <1>4

LEMMA CacheTypes ==
  ASSUME CacheTypeOK, NEW f
  PROVE  /\ ClearFingerprint(f) => CacheTypeOK'
         /\ CheckFingerprintCache(f) => CacheTypeOK'
         /\ \A n \in PRs \cup {NoPR} : RegisterFingerprint(f, n) => CacheTypeOK'
  BY CacheAssumption
  DEF CacheTypeOK, ClearFingerprint, CheckFingerprintCache, RegisterFingerprint, NoEntry

LEMMA AgeEntryType ==
  ASSUME NEW c \in [pr : PRs \cup {NoPR}, age : 0 .. CacheTTL]
  PROVE  AgeEntry(c) \in [pr : PRs \cup {NoPR}, age : 0 .. CacheTTL]
<1>1. c.age # CacheTTL => c.age + 1 \in 0 .. CacheTTL
  BY CacheAssumption
<1>2. QED
  BY <1>1 DEF AgeEntry

LEMMA CappedType == \A k \in Nat : Capped(k) \in Nat
  BY PipelineAssumption DEF Capped

-----------------------------------------------------------------------------
(* The surroundings and the pod handlers *)

LEMMA TickType ==
  ASSUME TypeInv, Tick
  PROVE  TypeInv'
<1>1. WindowTypeOK'
  <2>1. SUFFICES ASSUME NEW p \in Pods, NEW a \in Ages, a # 0
                 PROVE  window[p].hits[a - 1] \in Nat
    BY DEF Tick, AgeWindows, TypeInv, TypeOK, WindowTypeOK
  <2>2. a - 1 \in Ages
    BY <2>1, DampeningAssumption DEF Ages
  <2>3. QED
    BY <2>1, <2>2 DEF TypeInv, TypeOK, WindowTypeOK
<1>2. CacheTypeOK'
  BY AgeEntryType DEF Tick, AgeCache, TypeInv, TypeOK, CacheTypeOK
<1>3. QED
  BY <1>1, <1>2 DEF Tick, TypeInv, LocalInv, TypeOK, StoreTypeOK

LEMMA RestartType ==
  ASSUME TypeInv, Restart
  PROVE  TypeInv'
  BY CacheAssumption
  DEF Restart, ForgetWindows, ForgetCache, EmptyWindow, NoEntry, TypeInv, LocalInv,
      Made, TypeOK, StoreTypeOK, WindowTypeOK, CacheTypeOK, Stages

LEMMA EventType ==
  ASSUME TypeInv, NEW p \in Pods, PodEvent(p)
  PROVE  TypeInv'
<1>1. CASE PodRecovers(p)
  BY <1>1 DEF PodRecovers, ClearDampening, EmptyWindow, TypeInv, LocalInv, TypeOK,
              StoreTypeOK, WindowTypeOK, CacheTypeOK
<1>2. ASSUME NEW e \in ErrorStates, PodFails(p, e) PROVE TypeInv'
  <2>1. AfterEvent(window[p], e) \in
          [err : ErrorStates \cup {NoError}, hits : [Ages -> Nat]]
    BY DEF AfterEvent, TypeInv, TypeOK, WindowTypeOK
  <2>2. WindowTypeOK'
    BY <1>2, <2>1 DEF PodFails, Triggers, Dampens, CountEvent, TypeInv, TypeOK, WindowTypeOK
  <2>3. TypeOK'
    BY <1>2, <2>2 DEF PodFails, GoTo, TypeInv, TypeOK, StoreTypeOK, CacheTypeOK, Stages
  <2>4. LocalInv'
    BY <1>2 DEF PodFails, GoTo, At, TypeInv, LocalInv, TypeOK, Made
  <2>5. QED
    BY <2>3, <2>4 DEF TypeInv
<1>3. QED
  BY <1>1, <1>2 DEF PodEvent

-----------------------------------------------------------------------------
(* The pipeline: first what leaving it or moving on in it does to the locals *)

LocalTypeOK ==
  /\ pc \in [Pods -> Stages]
  /\ err \in [Pods -> ErrorStates \cup {NoError}]
  /\ fp \in [Pods -> Fingerprints \cup {NoFingerprint}]
  /\ ref \in [Pods -> PRs \cup {NoPR}]
  /\ count \in [Pods -> Nat]

LEMMA FinishType ==
  ASSUME TypeInv, NEW p \in Pods, Finish(p), used \subseteq used'
  PROVE  LocalTypeOK' /\ LocalInv'
  BY DEF Finish, TypeInv, TypeOK, LocalTypeOK, LocalInv, Stages, Made

LEMMA NotCountedType ==
  ASSUME TypeInv, NEW p \in Pods, NotCounted(p), used' = used,
         At(p, {"l2get", "l2patch", "l3get", "l3patch"})
  PROVE  LocalTypeOK' /\ LocalInv' /\ CacheTypeOK'
<1>1. CacheTypeOK'
  BY CacheTypes DEF NotCounted, TypeInv, TypeOK, CacheTypeOK
<1>2. LocalTypeOK' /\ LocalInv'
  BY DEF NotCounted, GoTo, At, TypeInv, TypeOK, LocalTypeOK, LocalInv, Stages, Made
<1>3. QED
  BY <1>1, <1>2

LEMMA FetchContextType ==
  ASSUME TypeInv, NEW p \in Pods, NEW l \in Logs, FetchContext(p, l)
  PROVE  TypeInv'
<1> DEFINE f == Fingerprint(err[p], l)
<1>1. f \in Fingerprints
  BY DEF FetchContext, At, TypeInv, LocalInv, Fingerprint, Fingerprints
<1>2. CacheTypeOK'
  BY CacheTypes DEF FetchContext, TypeInv, TypeOK
<1>3. CacheHit(f) => cache[f].pr \in PRs \cup {NoPR}
  BY <1>1 DEF TypeInv, TypeOK, CacheTypeOK
<1>4. LocalTypeOK' /\ LocalInv'
  BY <1>1, <1>3 DEF FetchContext, GoTo, At, TypeInv, TypeOK, LocalTypeOK, LocalInv, Stages, Made
<1>5. QED
  BY <1>2, <1>4 DEF FetchContext, LocalTypeOK, TypeInv, TypeOK, StoreTypeOK, WindowTypeOK

LEMMA GetCountType ==
  ASSUME TypeInv, NEW p \in Pods, GetCount(p)
  PROVE  TypeInv'
<1>1. LocalTypeOK' /\ LocalInv' /\ CacheTypeOK'
  <2>1. CASE NotCounted(p)
    BY <2>1, NotCountedType DEF GetCount, At
  <2>2. CASE ~NotCounted(p)
    <3>1. prs[ref[p]].seen \in Nat
      BY <2>2 DEF GetCount, Exists, TypeInv, TypeOK, StoreTypeOK, PatchRequest
    <3>2. Capped(prs[ref[p]].seen + 1) \in Nat
      BY <3>1, CappedType
    <3>3. QED
      BY <2>2, <3>2 DEF GetCount, GoTo, At, TypeInv, TypeOK, LocalTypeOK, LocalInv,
                        CacheTypeOK, Stages, Made
  <2>3. QED
    BY <2>1, <2>2
<1>2. faults' \in Nat /\ restarts' \in Nat
  BY DEF GetCount, Fault, TypeInv, TypeOK
<1>3. QED
  BY <1>1, <1>2 DEF GetCount, LocalTypeOK, TypeInv, TypeOK, StoreTypeOK, WindowTypeOK

LEMMA BumpType ==
  ASSUME TypeInv, NEW p \in Pods, Bump(p)
  PROVE  StoreTypeOK' /\ used' = used /\ counted' \in [PRs -> Nat]
<1>1. ref[p] \in DOMAIN prs /\ ref[p] \in PRs
  BY DEF Bump, Exists, TypeInv, TypeOK, StoreTypeOK
<1>2. StoreTypeOK'
  BY <1>1, SetSeenType DEF Bump, TypeInv, TypeOK
<1>3. Capped(counted[ref[p]] + 1) \in Nat
  BY <1>1, CappedType DEF TypeInv, TypeOK
<1>4. QED
  BY <1>2, <1>3 DEF Bump, TypeInv, TypeOK

LEMMA PatchCountType ==
  ASSUME TypeInv, NEW p \in Pods, PatchCount(p)
  PROVE  TypeInv'
<1>1. StoreTypeOK' /\ used' = used /\ counted' \in [PRs -> Nat]
  BY BumpType DEF PatchCount, TypeInv, TypeOK, StoreTypeOK
<1>2. LocalTypeOK' /\ LocalInv' /\ CacheTypeOK'
  <2>1. CASE NotCounted(p)
    BY <1>1, <2>1, NotCountedType DEF PatchCount, At
  <2>2. CASE Finish(p) /\ UNCHANGED cache
    BY <1>1, <2>2, FinishType DEF TypeInv, TypeOK, CacheTypeOK
  <2>3. QED
    BY <2>1, <2>2 DEF PatchCount
<1>3. faults' \in Nat /\ restarts' \in Nat
  BY DEF PatchCount, Fault, TypeInv, TypeOK
<1>4. QED
  BY <1>1, <1>2, <1>3 DEF PatchCount, LocalTypeOK, TypeInv, TypeOK, WindowTypeOK

LEMMA ListOpenType ==
  ASSUME TypeInv, NEW p \in Pods, ListOpen(p)
  PROVE  TypeInv'
<1>1. OpenFor(DeploymentOf[p], err[p]) \subseteq PRs
  BY DEF OpenFor, TypeInv, TypeOK, StoreTypeOK
<1>2. LocalTypeOK' /\ LocalInv'
  BY <1>1 DEF ListOpen, ActiveFor, GoTo, At, TypeInv, TypeOK, LocalTypeOK, LocalInv, Stages, Made
<1>3. QED
  BY <1>2 DEF ListOpen, ActiveFor, Fault, LocalTypeOK, TypeInv, TypeOK, StoreTypeOK, WindowTypeOK,
              CacheTypeOK

LEMMA CreateType ==
  ASSUME TypeInv, NEW p \in Pods, NEW n \in PRs, NEW patch \in Patches, Create(p, n, patch)
  PROVE  TypeInv'
<1>1. NewPatchRequest(DeploymentOf[p], err[p], patch) \in PatchRequest
  BY WorkloadAssumption
  DEF NewPatchRequest, PatchRequest, ApprovalStates, Create, At, TypeInv, LocalInv
<1>2. StoreTypeOK' /\ used' = used \cup {n}
  BY <1>1, AddPRType DEF Create, AddPR, TypeInv, TypeOK
<1>3. LocalTypeOK' /\ LocalInv'
  <2>1. CASE Finish(p)
    BY <1>2, <2>1, FinishType
  <2>2. CASE ~Finish(p)
    BY <1>2, <2>2 DEF Create, GoTo, At, TypeInv, TypeOK, LocalTypeOK, LocalInv, Stages, Made
  <2>3. QED
    BY <2>1, <2>2
<1>4. QED
  BY <1>2, <1>3 DEF Create, Fault, LocalTypeOK, TypeInv, TypeOK, WindowTypeOK, CacheTypeOK

LEMMA AbortType ==
  ASSUME TypeInv, NEW p \in Pods, Abort(p)
  PROVE  TypeInv'
<1>1. LocalTypeOK' /\ LocalInv'
  BY FinishType DEF Abort
<1>2. QED
  BY <1>1 DEF Abort, Fault, LocalTypeOK, TypeInv, TypeOK, StoreTypeOK, WindowTypeOK,
              CacheTypeOK

LEMMA StoreIncidentType ==
  ASSUME TypeInv, NEW p \in Pods, CreateIncidentRecord(p) \/ SaveIncident(p)
  PROVE  TypeInv'
<1>1. ref[p] \in used
  BY DEF CreateIncidentRecord, SaveIncident, At, TypeInv, LocalInv, Made
<1>2. LocalTypeOK' /\ LocalInv'
  BY <1>1 DEF CreateIncidentRecord, SaveIncident, GoTo, At, TypeInv, TypeOK, LocalTypeOK,
              LocalInv, Stages, Made
<1>3. QED
  BY <1>1, <1>2 DEF CreateIncidentRecord, SaveIncident, Fault, LocalTypeOK, TypeInv, TypeOK,
                    StoreTypeOK, WindowTypeOK, CacheTypeOK

LEMMA RegisterType ==
  ASSUME TypeInv, NEW p \in Pods, Register(p)
  PROVE  TypeInv'
<1>1. CacheTypeOK'
  BY CacheTypes DEF Register, TypeInv, TypeOK
<1>2. LocalTypeOK' /\ LocalInv'
  BY FinishType DEF Register
<1>3. QED
  BY <1>1, <1>2 DEF Register, LocalTypeOK, TypeInv, TypeOK, StoreTypeOK, WindowTypeOK

LEMMA StepType == TypeInv /\ [Next]_vars => TypeInv'
<1>1. SUFFICES ASSUME TypeInv, Next PROVE TypeInv'
  BY DEF vars, TypeInv, LocalInv, TypeOK, StoreTypeOK, WindowTypeOK, CacheTypeOK
<1>2. ASSUME NEW p \in Pods, Pipeline(p) PROVE TypeInv'
  BY <1>1, <1>2, FetchContextType, GetCountType, PatchCountType, ListOpenType, CreateType,
     AbortType, StoreIncidentType, RegisterType DEF Pipeline
<1>3. CASE Lifecycle
  BY <1>1, <1>3, LifecycleType DEF Lifecycle, TypeInv, LocalInv, TypeOK, WindowTypeOK, CacheTypeOK
<1>4. QED
  BY <1>1, <1>2, <1>3, EventType, TickType, RestartType DEF Next

\* Every variable keeps its type in every reachable state (the stores of
\* dedup.py, the objects in the API server, the locals of the pipelines).
THEOREM TypeCorrect == Spec => []TypeOK
<1>1. Spec => []TypeInv
  BY InitType, StepType, PTL DEF Spec
<1>2. TypeInv => TypeOK
  BY DEF TypeInv
<1>3. QED
  BY <1>1, <1>2, PTL

-----------------------------------------------------------------------------
(* A deployment with one pod has one open PatchRequest per error at most.   *)
(* What makes it inductive is what the pod knows between the check and the  *)
(* act: while it diagnoses there is no open PatchRequest, and while it      *)
(* counts its event on one there is no other.  Only the pod itself could    *)
(* open another, and everybody else can only close or delete them.          *)

Counting == {"l3get", "l3patch"}

UniqueFor(d, e) ==
  /\ \A m, n \in OpenFor(d, e) : m = n
  /\ \A p \in PodsOf(d) :
       err[p] = e =>
         /\ pc[p] = "diagnose" => OpenFor(d, e) = {}
         /\ pc[p] \in Counting => OpenFor(d, e) \subseteq {ref[p]}

UniqueInv ==
  faults = 0 =>
    \A d \in Deployments, e \in ErrorStates : SinglePod(d) => UniqueFor(d, e)

\* A step is quiet when it leaves the objects alone and no pod enters the
\* stages between the check and the act.
Acting == {"diagnose"} \cup Counting

Quiet ==
  /\ UNCHANGED storeVars
  /\ faults' = 0 => faults = 0
  /\ \A p \in Pods : pc'[p] \in Acting =>
       pc[p] = pc'[p] /\ err[p] = err'[p] /\ ref[p] = ref'[p]

LEMMA FaultCounts == ASSUME TypeInv, Fault PROVE faults' # 0
  BY DEF Fault, TypeInv, TypeOK

LEMMA EventQuiet == ASSUME TypeInv, NEW p \in Pods, PodEvent(p) PROVE Quiet
  BY DEF PodEvent, PodRecovers, PodFails, GoTo, At, Quiet, Acting, Counting, TypeInv, TypeOK

LEMMA PipelineQuiet ==
  ASSUME TypeInv, NEW p \in Pods,
         \/ \E l \in Logs : FetchContext(p, l)
         \/ Abort(p) \/ CreateIncidentRecord(p) \/ SaveIncident(p) \/ Register(p)
  PROVE  Quiet
  BY FaultCounts
  DEF FetchContext, Abort, CreateIncidentRecord, SaveIncident, Register, Finish, GoTo, At,
      Quiet, Acting, Counting, TypeInv, TypeOK

LEMMA SurroundingsQuiet == ASSUME TypeInv, Tick \/ Restart PROVE Quiet
  BY DEF Tick, Restart, Quiet, Acting, Counting, TypeInv, TypeOK

LEMMA LifecycleCloses ==
  ASSUME LifecycleNext, NEW d, NEW e
  PROVE  OpenFor(d, e)' \subseteq OpenFor(d, e)
<1>1. SUFFICES ASSUME NEW n \in PRs, Review(n) \/ Remediate(n) \/ DeletePR(n)
               PROVE  OpenFor(d, e)' \subseteq OpenFor(d, e)
  BY DEF LifecycleNext
<1>2. CASE Review(n)
  BY <1>2 DEF Review, SetState, OpenFor, OpenStates
<1>3. CASE Remediate(n)
  BY <1>3 DEF Remediate, Remediates, SetState, OpenFor, OpenStates
<1>4. CASE DeletePR(n)
  BY <1>4 DEF DeletePR, OpenFor
<1>5. QED
  BY <1>1, <1>2, <1>3, <1>4

LEMMA BumpOpensNone ==
  ASSUME NEW p \in Pods, Bump(p), NEW d, NEW e
  PROVE  OpenFor(d, e)' = OpenFor(d, e)
  BY DEF Bump, SetSeen, OpenFor

LEMMA CreateOpensOne ==
  ASSUME TypeInv, NEW p \in Pods, NEW n \in PRs, NEW patch \in Patches, Create(p, n, patch),
         NEW d, NEW e
  PROVE  OpenFor(d, e)' =
           IF d = DeploymentOf[p] /\ e = err[p] THEN OpenFor(d, e) \cup {n}
                                               ELSE OpenFor(d, e)
<1>1. n \notin DOMAIN prs
  BY DEF Create, AddPR, TypeInv, TypeOK, StoreTypeOK
<1>2. DOMAIN prs' = DOMAIN prs \cup {n}
  BY DEF Create, AddPR
<1>3. \A m \in DOMAIN prs : prs'[m] = prs[m]
  BY <1>1 DEF Create, AddPR
<1>4. prs'[n] = NewPatchRequest(DeploymentOf[p], err[p], patch)
  BY DEF Create, AddPR
<1>5. QED
  BY <1>1, <1>2, <1>3, <1>4 DEF NewPatchRequest, OpenFor, OpenStates

LEMMA QuietUnique ==
  ASSUME TypeInv, UniqueInv, Quiet
  PROVE  UniqueInv'
  BY DEF UniqueInv, UniqueFor, Quiet, Acting, Counting, OpenFor, PodsOf, SinglePod

LEMMA LifecycleUnique ==
  ASSUME UniqueInv, Lifecycle
  PROVE  UniqueInv'
  BY LifecycleCloses DEF Lifecycle, UniqueInv, UniqueFor, Counting, PodsOf, SinglePod

\* A pod whose one candidate is gone knows that nothing is open.
LEMMA GoneMeansNone ==
  ASSUME NEW p \in Pods, NEW e,
         OpenFor(DeploymentOf[p], e) \subseteq {ref[p]}, ~Exists(ref[p], Namespace(p))
  PROVE  OpenFor(DeploymentOf[p], e) = {}
  BY DEF OpenFor, Exists, Namespace

LEMMA NotCountedUnique ==
  ASSUME TypeInv, UniqueInv, NEW p \in Pods, NotCounted(p), UNCHANGED storeVars,
         At(p, {"l2get", "l2patch"}) \/ At(p, Counting), faults' = faults,
         ~Exists(ref[p], Namespace(p))
  PROVE  UniqueInv'
<1>1. SUFFICES ASSUME faults = 0, NEW d \in Deployments, NEW e \in ErrorStates, SinglePod(d),
                      UniqueFor(d, e)
               PROVE  UniqueFor(d, e)'
  BY DEF UniqueInv, PodsOf, SinglePod
<1>2. OpenFor(d, e)' = OpenFor(d, e)
  BY DEF OpenFor
<1>3. ASSUME NEW q \in PodsOf(d), err'[q] = e, pc'[q] = "diagnose"
      PROVE  OpenFor(d, e) = {}
  <2>1. CASE q = p
    BY <1>1, <1>3, <2>1, GoneMeansNone
    DEF NotCounted, GoTo, At, Counting, UniqueFor, PodsOf, TypeInv, TypeOK
  <2>2. CASE q # p
    BY <1>1, <1>3, <2>2 DEF NotCounted, GoTo, UniqueFor, PodsOf, TypeInv, TypeOK
  <2>3. QED
    BY <2>1, <2>2
<1>4. ASSUME NEW q \in PodsOf(d), err'[q] = e, pc'[q] \in Counting
      PROVE  OpenFor(d, e) \subseteq {ref'[q]}
  BY <1>1, <1>4 DEF NotCounted, GoTo, Counting, UniqueFor, PodsOf, TypeInv, TypeOK
<1>5. QED
  BY <1>1, <1>2, <1>3, <1>4 DEF UniqueFor, PodsOf

LEMMA GetCountUnique ==
  ASSUME TypeInv, UniqueInv, NEW p \in Pods, GetCount(p)
  PROVE  UniqueInv'
<1>1. CASE Fault
  BY <1>1, FaultCounts DEF UniqueInv
<1>2. CASE ~Exists(ref[p], Namespace(p)) /\ NotCounted(p) /\ UNCHANGED budget
  BY <1>2, NotCountedUnique DEF GetCount, At, Counting
<1>3. CASE ~Fault /\ Exists(ref[p], Namespace(p))
  <2>1. /\ UNCHANGED <<storeVars, err, ref, budget>>
        /\ \A q \in Pods : q # p => pc'[q] = pc[q]
        /\ pc'[p] \in Counting => pc[p] \in Counting
        /\ pc'[p] # "diagnose"
    BY <1>3 DEF GetCount, GoTo, At, Counting, TypeInv, TypeOK
  <2>2. QED
    BY <2>1 DEF UniqueInv, UniqueFor, Counting, OpenFor, PodsOf, SinglePod
<1>4. QED
  BY <1>1, <1>2, <1>3 DEF GetCount

LEMMA PatchCountUnique ==
  ASSUME TypeInv, UniqueInv, NEW p \in Pods, PatchCount(p)
  PROVE  UniqueInv'
<1>1. CASE Fault
  BY <1>1, FaultCounts DEF UniqueInv
<1>2. CASE ~Exists(ref[p], Namespace(p)) /\ NotCounted(p) /\ UNCHANGED <<storeVars, budget>>
  BY <1>2, NotCountedUnique DEF PatchCount, At, Counting
<1>3. CASE Bump(p) /\ Finish(p) /\ UNCHANGED budget
  <2>1. \A q \in Pods : pc'[q] \in Acting =>
          pc[q] = pc'[q] /\ err[q] = err'[q] /\ ref[q] = ref'[q]
    BY <1>3 DEF Finish, Acting, Counting, TypeInv, TypeOK
  <2>2. \A d, e : OpenFor(d, e)' = OpenFor(d, e)
    BY <1>3, BumpOpensNone
  <2>3. QED
    BY <1>3, <2>1, <2>2 DEF Acting, UniqueInv, UniqueFor, PodsOf, SinglePod
<1>4. QED
  BY <1>1, <1>2, <1>3 DEF PatchCount

LEMMA ListOpenUnique ==
  ASSUME TypeInv, UniqueInv, NEW p \in Pods, ListOpen(p)
  PROVE  UniqueInv'
<1>1. CASE Fault
  BY <1>1, FaultCounts DEF UniqueInv
<1>2. CASE ~Fault
  <2>1. SUFFICES ASSUME faults = 0, NEW d \in Deployments, NEW e \in ErrorStates,
                        SinglePod(d), UniqueFor(d, e)
                 PROVE  UniqueFor(d, e)'
    BY <1>2 DEF ListOpen, ActiveFor, UniqueInv, PodsOf, SinglePod
  <2>2. OpenFor(d, e)' = OpenFor(d, e) /\ err' = err
    BY DEF ListOpen, ActiveFor, OpenFor
  <2>3. \A q \in Pods : q # p => pc'[q] = pc[q] /\ ref'[q] = ref[q]
    BY DEF ListOpen, ActiveFor, GoTo, TypeInv, TypeOK
  <2>4. \/ pc'[p] = "l3get" /\ ref'[p] \in OpenFor(DeploymentOf[p], err[p])
        \/ pc'[p] = "diagnose" /\ OpenFor(DeploymentOf[p], err[p]) = {}
    BY <1>2 DEF ListOpen, ActiveFor, GoTo, TypeInv, TypeOK
  <2>5. QED
    BY <2>1, <2>2, <2>3, <2>4 DEF UniqueFor, Counting, PodsOf
<1>3. QED
  BY <1>1, <1>2

LEMMA CreateUnique ==
  ASSUME TypeInv, UniqueInv, NEW p \in Pods, NEW n \in PRs, NEW patch \in Patches,
         Create(p, n, patch)
  PROVE  UniqueInv'
<1>1. CASE Fault
  BY <1>1, FaultCounts DEF UniqueInv
<1>2. CASE ~Fault
  <2>1. SUFFICES ASSUME faults = 0, NEW d \in Deployments, NEW e \in ErrorStates,
                        SinglePod(d), UniqueFor(d, e)
                 PROVE  UniqueFor(d, e)'
    BY <1>2 DEF Create, UniqueInv, PodsOf, SinglePod
  <2>2. /\ err' = err
        /\ pc[p] = "diagnose"
        /\ pc'[p] \notin Acting
        /\ \A q \in Pods : q # p => pc'[q] = pc[q] /\ ref'[q] = ref[q]
    BY <1>2 DEF Create, GoTo, At, Acting, Counting, TypeInv, TypeOK
  <2>3. CASE d = DeploymentOf[p] /\ e = err[p]
    <3>1. OpenFor(d, e)' = {n}
      BY <2>1, <2>2, <2>3, CreateOpensOne DEF UniqueFor, PodsOf
    <3>2. \A q \in PodsOf(d) : q = p
      BY <2>1, <2>3 DEF SinglePod, PodsOf
    <3>3. QED
      BY <2>2, <3>1, <3>2 DEF UniqueFor, Acting
  <2>4. CASE ~(d = DeploymentOf[p] /\ e = err[p])
    <3>1. OpenFor(d, e)' = OpenFor(d, e)
      BY <2>4, CreateOpensOne
    <3>2. QED
      BY <2>1, <2>2, <3>1 DEF UniqueFor, PodsOf, Acting
  <2>5. QED
    BY <2>3, <2>4
<1>3. QED
  BY <1>1, <1>2

LEMMA StepUnique == TypeInv /\ UniqueInv /\ [Next]_vars => UniqueInv'
<1>1. SUFFICES ASSUME TypeInv, UniqueInv, Next PROVE UniqueInv'
  BY DEF vars, UniqueInv, UniqueFor, OpenFor, PodsOf, SinglePod
<1>2. ASSUME NEW p \in Pods, Pipeline(p) PROVE UniqueInv'
  BY <1>1, <1>2, PipelineQuiet, QuietUnique, GetCountUnique, PatchCountUnique,
     ListOpenUnique, CreateUnique DEF Pipeline
<1>3. QED
  BY <1>1, <1>2, EventQuiet, SurroundingsQuiet, QuietUnique, LifecycleUnique DEF Next

\* dedup.py, layer 3: without a failed call, a deployment with one pod never
\* has two open PatchRequests for one error, whatever is deleted and however
\* often the controller restarts.
THEOREM OneOpenPRCorrect == Spec => []OneOpenPR
<1>1. Init => UniqueInv
  BY DEF Init, StoreInit, UniqueInv, UniqueFor, Counting, OpenFor, PodsOf
<1>2. UniqueInv => OneOpenPR
  BY DEF UniqueInv, UniqueFor, OneOpenPR
<1>3. Spec => [](TypeInv /\ UniqueInv)
  BY <1>1, InitType, StepType, StepUnique, PTL DEF Spec
<1>4. QED
  BY <1>2, <1>3, PTL

-----------------------------------------------------------------------------
(* With several pods: the open PatchRequests and the pods about to open one *)
(* are together no more than the pods.  A pod joins the second set only     *)
(* when the first is empty, and a creation moves one from the second to the *)
(* first.  A deletion would break this: several pods may count their events *)
(* on the deleted object and all go on to diagnose while others are open.   *)

TargetInv ==
  \A p \in Pods : pc[p] \in Counting =>
    /\ ref[p] \in used
    /\ ref[p] \in DOMAIN prs => prs[ref[p]].dep = DeploymentOf[p]

LEMMA CountedSets ==
  ASSUME TypeInv, NEW d, NEW e
  PROVE  /\ IsFiniteSet(PodsOf(d)) /\ IsFiniteSet(Diagnosing(d, e))
         /\ IsFiniteSet(OpenFor(d, e))
         /\ Cardinality(PodsOf(d)) \in Nat
         /\ Cardinality(Diagnosing(d, e)) \in Nat
         /\ Cardinality(OpenFor(d, e)) \in Nat
<1>1. IsFiniteSet(PodsOf(d)) /\ PodsOf(d) \subseteq Pods
  BY WorkloadAssumption, FS_Subset DEF PodsOf
<1>2. IsFiniteSet(Diagnosing(d, e))
  <2>1. Diagnosing(d, e) \subseteq PodsOf(d)
    BY DEF Diagnosing
  <2>2. QED
    BY <1>1, <2>1, FS_Subset
<1>3. IsFiniteSet(OpenFor(d, e))
  <2>1. OpenFor(d, e) \subseteq PRs
    BY DEF OpenFor, TypeInv, TypeOK, StoreTypeOK
  <2>2. QED
    BY <2>1, StoreAssumption, FS_Subset
<1>4. QED
  BY <1>1, <1>2, <1>3, FS_CardinalityType

\* A step that opens nothing and starts no diagnosis keeps the bound.
LEMMA NothingAdded ==
  ASSUME TypeInv, DuplicatesBounded,
         faults' = 0 => faults = 0,
         used' = DOMAIN prs' => used = DOMAIN prs,
         faults' = 0 /\ used' = DOMAIN prs' =>
           \A d \in Deployments, e \in ErrorStates :
             /\ OpenFor(d, e)' \subseteq OpenFor(d, e)
             /\ Diagnosing(d, e)' \subseteq Diagnosing(d, e)
  PROVE  DuplicatesBounded'
<1>1. SUFFICES ASSUME faults' = 0, used' = DOMAIN prs', NEW d \in Deployments, NEW e \in ErrorStates
               PROVE  Cardinality(OpenFor(d, e)') + Cardinality(Diagnosing(d, e)')
                        <= Cardinality(PodsOf(d))
  BY DEF DuplicatesBounded, PodsOf
<1>2. /\ Cardinality(OpenFor(d, e)') \in Nat
      /\ Cardinality(OpenFor(d, e)') <= Cardinality(OpenFor(d, e))
  BY <1>1, CountedSets, FS_Subset, FS_CardinalityType
<1>3. /\ Cardinality(Diagnosing(d, e)') \in Nat
      /\ Cardinality(Diagnosing(d, e)') <= Cardinality(Diagnosing(d, e))
  BY <1>1, CountedSets, FS_Subset, FS_CardinalityType
<1>4. Cardinality(OpenFor(d, e)) + Cardinality(Diagnosing(d, e)) <= Cardinality(PodsOf(d))
  BY <1>1 DEF DuplicatesBounded
<1>5. QED
  BY <1>2, <1>3, <1>4, CountedSets

LEMMA QuietBounded ==
  ASSUME TypeInv, DuplicatesBounded, Quiet
  PROVE  DuplicatesBounded'
<1>1. \A d, e : OpenFor(d, e)' = OpenFor(d, e) /\ Diagnosing(d, e)' \subseteq Diagnosing(d, e)
  BY DEF Quiet, Acting, OpenFor, Diagnosing, PodsOf
<1>2. QED
  BY <1>1, NothingAdded DEF Quiet

LEMMA LifecycleBounded ==
  ASSUME TypeInv, DuplicatesBounded, Lifecycle
  PROVE  DuplicatesBounded'
<1>1. DOMAIN prs' \subseteq DOMAIN prs /\ used' = used
  BY DEF Lifecycle, LifecycleNext, Review, Remediate, DeletePR, SetState
<1>2. \A d, e : OpenFor(d, e)' \subseteq OpenFor(d, e) /\ Diagnosing(d, e)' = Diagnosing(d, e)
  BY LifecycleCloses DEF Lifecycle, Diagnosing, PodsOf
<1>3. QED
  BY <1>1, <1>2, NothingAdded DEF Lifecycle, TypeInv, TypeOK, StoreTypeOK

LEMMA CountBounded ==
  ASSUME TypeInv, TargetInv, DuplicatesBounded, NEW p \in Pods, GetCount(p) \/ PatchCount(p)
  PROVE  DuplicatesBounded'
<1>1. CASE Fault
  BY <1>1, FaultCounts DEF DuplicatesBounded
<1>2. CASE ~Fault
  <2>1. DOMAIN prs' = DOMAIN prs /\ used' = used /\ faults' = faults
    BY <1>2 DEF GetCount, PatchCount, Bump, SetSeen
  <2>2. \A d, e : OpenFor(d, e)' = OpenFor(d, e)
    BY <1>2, BumpOpensNone DEF GetCount, PatchCount, OpenFor
  <2>3. ASSUME used = DOMAIN prs, NEW d, NEW e
        PROVE  Diagnosing(d, e)' \subseteq Diagnosing(d, e)
    <3>1. At(p, Counting) => Exists(ref[p], Namespace(p))
      BY <2>3 DEF TargetInv, At, Exists, Namespace
    <3>2. pc'[p] # "diagnose"
      BY <1>2, <3>1 DEF GetCount, PatchCount, NotCounted, Finish, GoTo, At, Counting, TypeInv, TypeOK
    <3>3. \A q \in Pods : q # p => pc'[q] = pc[q] /\ err'[q] = err[q]
      BY <1>2 DEF GetCount, PatchCount, NotCounted, Finish, GoTo, TypeInv, TypeOK
    <3>4. QED
      BY <3>2, <3>3 DEF Diagnosing, PodsOf
  <2>4. QED
    BY <2>1, <2>2, <2>3, NothingAdded
<1>3. QED
  BY <1>1, <1>2

LEMMA ListBounded ==
  ASSUME TypeInv, DuplicatesBounded, NEW p \in Pods, ListOpen(p)
  PROVE  DuplicatesBounded'
<1>1. CASE Fault
  BY <1>1, FaultCounts DEF DuplicatesBounded
<1>2. CASE ~Fault
  <2>1. /\ UNCHANGED <<prs, used, err, faults>>
        /\ \A q \in Pods : q # p => pc'[q] = pc[q]
        /\ pc'[p] = "diagnose" => OpenFor(DeploymentOf[p], err[p]) = {}
    BY <1>2 DEF ListOpen, ActiveFor, GoTo, TypeInv, TypeOK
  <2>2. SUFFICES ASSUME faults = 0, used = DOMAIN prs,
                        NEW d \in Deployments, NEW e \in ErrorStates
                 PROVE  Cardinality(OpenFor(d, e)) + Cardinality(Diagnosing(d, e)')
                          <= Cardinality(PodsOf(d))
    BY <2>1 DEF DuplicatesBounded, OpenFor, PodsOf
  <2>3. CASE OpenFor(d, e) = {}
    <3>1. Diagnosing(d, e)' \subseteq PodsOf(d)
      BY DEF Diagnosing, PodsOf
    <3>2. /\ Cardinality(Diagnosing(d, e)') \in Nat
          /\ Cardinality(Diagnosing(d, e)') <= Cardinality(PodsOf(d))
      BY <3>1, CountedSets, FS_Subset, FS_CardinalityType
    <3>3. Cardinality(OpenFor(d, e)) = 0
      BY <2>3, FS_EmptySet
    <3>4. QED
      BY <3>2, <3>3, CountedSets
  <2>4. CASE OpenFor(d, e) # {}
    <3>1. Diagnosing(d, e)' \subseteq Diagnosing(d, e)
      BY <2>1, <2>4 DEF Diagnosing, PodsOf
    <3>2. /\ Cardinality(Diagnosing(d, e)') \in Nat
          /\ Cardinality(Diagnosing(d, e)') <= Cardinality(Diagnosing(d, e))
      BY <3>1, CountedSets, FS_Subset, FS_CardinalityType
    <3>3. QED
      BY <2>2, <3>2, CountedSets DEF DuplicatesBounded
  <2>5. QED
    BY <2>3, <2>4
<1>3. QED
  BY <1>1, <1>2

LEMMA CreateBounded ==
  ASSUME TypeInv, DuplicatesBounded, NEW p \in Pods, NEW n \in PRs, NEW patch \in Patches,
         Create(p, n, patch)
  PROVE  DuplicatesBounded'
<1>1. CASE Fault
  BY <1>1, FaultCounts DEF DuplicatesBounded
<1>2. CASE ~Fault
  <2>1. /\ pc[p] = "diagnose" /\ pc'[p] # "diagnose" /\ err' = err /\ faults' = faults
        /\ \A q \in Pods : q # p => pc'[q] = pc[q]
        /\ n \notin used /\ used' = used \cup {n} /\ DOMAIN prs' = DOMAIN prs \cup {n}
    BY <1>2 DEF Create, AddPR, GoTo, At, TypeInv, TypeOK
  <2>2. SUFFICES ASSUME faults = 0, used = DOMAIN prs,
                        NEW d \in Deployments, NEW e \in ErrorStates
                 PROVE  Cardinality(OpenFor(d, e)') + Cardinality(Diagnosing(d, e)')
                          <= Cardinality(PodsOf(d))
    BY <2>1 DEF DuplicatesBounded, PodsOf, TypeInv, TypeOK, StoreTypeOK
  <2>3. Cardinality(OpenFor(d, e)) + Cardinality(Diagnosing(d, e)) <= Cardinality(PodsOf(d))
    BY <2>2 DEF DuplicatesBounded
  <2>4. CASE d = DeploymentOf[p] /\ e = err[p]
    <3>1. OpenFor(d, e)' = OpenFor(d, e) \cup {n} /\ n \notin OpenFor(d, e)
      BY <2>1, <2>2, <2>4, CreateOpensOne DEF OpenFor
    <3>2. Diagnosing(d, e)' = Diagnosing(d, e) \ {p} /\ p \in Diagnosing(d, e)
      BY <2>1, <2>4 DEF Diagnosing, PodsOf
    <3>3. Cardinality(OpenFor(d, e)') = Cardinality(OpenFor(d, e)) + 1
      BY <3>1, CountedSets, FS_AddElement
    <3>4. Cardinality(Diagnosing(d, e)') = Cardinality(Diagnosing(d, e)) - 1
      BY <3>2, CountedSets, FS_RemoveElement
    <3>5. QED
      BY <2>3, <3>3, <3>4, CountedSets
  <2>5. CASE ~(d = DeploymentOf[p] /\ e = err[p])
    <3>1. OpenFor(d, e)' = OpenFor(d, e)
      BY <2>5, CreateOpensOne
    <3>2. Diagnosing(d, e)' = Diagnosing(d, e)
      BY <2>1, <2>5 DEF Diagnosing, PodsOf
    <3>3. QED
      BY <2>3, <3>1, <3>2
  <2>6. QED
    BY <2>4, <2>5
<1>3. QED
  BY <1>1, <1>2

LEMMA StepTarget == TypeInv /\ TargetInv /\ [Next]_vars => TargetInv'
<1>1. SUFFICES ASSUME TypeInv, TargetInv, Next PROVE TargetInv'
  BY DEF vars, TargetInv
<1>2. ASSUME Quiet PROVE TargetInv'
  BY <1>1, <1>2 DEF Quiet, Acting, TargetInv
<1>3. CASE Lifecycle
  <2>1. /\ used' = used /\ UNCHANGED local /\ DOMAIN prs' \subseteq DOMAIN prs
        /\ \A n \in DOMAIN prs' : prs'[n].dep = prs[n].dep
    BY <1>3, <1>1 DEF Lifecycle, LifecycleNext, Review, Remediate, DeletePR, SetState,
                      TypeInv, TypeOK, StoreTypeOK, PatchRequest
  <2>2. QED
    BY <1>1, <2>1 DEF TargetInv
<1>4. ASSUME NEW p \in Pods, GetCount(p) \/ PatchCount(p) PROVE TargetInv'
  <2>1. /\ used' = used /\ DOMAIN prs' = DOMAIN prs
        /\ \A n \in DOMAIN prs : prs'[n].dep = prs[n].dep
    BY <1>1, <1>4 DEF GetCount, PatchCount, Bump, SetSeen, TypeInv, TypeOK, StoreTypeOK, PatchRequest
  <2>2. \A q \in Pods : pc'[q] \in Counting => pc[q] \in Counting /\ ref'[q] = ref[q]
    BY <1>1, <1>4 DEF GetCount, PatchCount, NotCounted, Finish, GoTo, At, Counting, TypeInv, TypeOK
  <2>3. QED
    BY <1>1, <2>1, <2>2 DEF TargetInv
<1>5. ASSUME NEW p \in Pods, ListOpen(p) PROVE TargetInv'
  <2>1. UNCHANGED <<prs, used>>
    BY <1>5 DEF ListOpen
  <2>2. ASSUME NEW q \in Pods, pc'[q] \in Counting
        PROVE  \/ pc[q] \in Counting /\ ref'[q] = ref[q]
               \/ ref'[q] \in OpenFor(DeploymentOf[q], err[q])
    BY <1>1, <1>5, <2>2 DEF ListOpen, ActiveFor, GoTo, Counting, TypeInv, TypeOK
  <2>3. QED
    BY <1>1, <2>1, <2>2 DEF TargetInv, OpenFor, TypeInv, TypeOK, StoreTypeOK
<1>6. ASSUME NEW p \in Pods, NEW n \in PRs, NEW patch \in Patches, Create(p, n, patch)
      PROVE  TargetInv'
  <2>1. /\ used \subseteq used' /\ DOMAIN prs' = DOMAIN prs \cup {n} /\ n \notin used
        /\ \A m \in DOMAIN prs : prs'[m] = prs[m]
    BY <1>1, <1>6 DEF Create, AddPR, TypeInv, TypeOK, StoreTypeOK
  <2>2. \A q \in Pods : pc'[q] \in Counting => pc[q] \in Counting /\ ref'[q] = ref[q]
    BY <1>1, <1>6 DEF Create, Finish, GoTo, Counting, TypeInv, TypeOK
  <2>3. QED
    BY <1>1, <2>1, <2>2 DEF TargetInv
<1>7. QED
  BY <1>1, <1>2, <1>3, <1>4, <1>5, <1>6, EventQuiet, SurroundingsQuiet, PipelineQuiet
  DEF Next, Pipeline

LEMMA StepBounded ==
  TypeInv /\ TargetInv /\ DuplicatesBounded /\ [Next]_vars => DuplicatesBounded'
<1>1. SUFFICES ASSUME TypeInv, TargetInv, DuplicatesBounded, Next PROVE DuplicatesBounded'
  BY DEF vars, DuplicatesBounded, OpenFor, Diagnosing, PodsOf
<1>2. ASSUME NEW p \in Pods, Pipeline(p) PROVE DuplicatesBounded'
  BY <1>1, <1>2, PipelineQuiet, QuietBounded, CountBounded, ListBounded, CreateBounded
  DEF Pipeline
<1>3. QED
  BY <1>1, <1>2, EventQuiet, SurroundingsQuiet, QuietBounded, LifecycleBounded DEF Next

\* main.py, from the layer 3 check to the creation: without failed calls and
\* deletions, the duplicates of a PatchRequest never outnumber the pods of
\* its deployment.
THEOREM DuplicatesBoundedCorrect == Spec => []DuplicatesBounded
<1>1. Init => TargetInv /\ DuplicatesBounded
  <2>1. SUFFICES ASSUME Init PROVE TargetInv /\ DuplicatesBounded
    OBVIOUS
  <2>2. TypeInv
    BY <2>1, InitType
  <2>3. \A d, e : OpenFor(d, e) = {} /\ Diagnosing(d, e) = {}
    BY <2>1 DEF Init, StoreInit, OpenFor, Diagnosing, PodsOf
  <2>4. DuplicatesBounded
    BY <2>2, <2>3, CountedSets, FS_EmptySet DEF DuplicatesBounded
  <2>5. TargetInv
    BY <2>1 DEF Init, TargetInv, Counting
  <2>6. QED
    BY <2>4, <2>5
<1>2. Spec => [](TypeInv /\ TargetInv /\ DuplicatesBounded)
  BY <1>1, InitType, StepType, StepTarget, StepBounded, PTL DEF Spec
<1>3. QED
  BY <1>2, PTL
-----------------------------------------------------------------------------
(* Layer 2 points at stored incidents.  The entry is written last, so what  *)
(* it says was said before by the handler's locals, and it stays true: an   *)
(* object keeps its error, names are not given out twice, and records and   *)
(* rows are never taken away.                                               *)

Of(n, e) == n \in DOMAIN prs => prs[n].err = e

HandlerKnows(p) ==
  /\ pc[p] \notin {"idle", "fetch"} => fp[p] \in Fingerprints /\ fp[p][1] = err[p]
  /\ pc[p] \in Made => Of(ref[p], err[p])
  /\ faults = 0 => /\ pc[p] \in {"save", "register"} => ref[p] \in records
                   /\ pc[p] = "register" => ref[p] \in rows

EntryKnows(f) ==
  cache[f].pr # NoPR =>
    /\ cache[f].pr \in used
    /\ Of(cache[f].pr, f[1])
    /\ faults = 0 => cache[f].pr \in records \cap rows

StoredInv == (\A p \in Pods : HandlerKnows(p)) /\ (\A f \in Fingerprints : EntryKnows(f))

LEMMA OthersStand ==
  ASSUME TypeInv, NEW p \in Pods, Pipeline(p)
  PROVE  \A q \in Pods \ {p} : /\ pc'[q] = pc[q] /\ err'[q] = err[q]
                               /\ fp'[q] = fp[q] /\ ref'[q] = ref[q] /\ count'[q] = count[q]
  BY DEF Pipeline, FetchContext, GetCount, PatchCount, NotCounted, ListOpen, Create, Abort,
         CreateIncidentRecord, SaveIncident, Register, Finish, GoTo, TypeInv, TypeOK

\* What neither a step of a pipeline nor anybody else takes back.
Kept ==
  /\ used \subseteq used' /\ records \subseteq records' /\ rows \subseteq rows'
  /\ faults' = 0 => faults = 0
  /\ \A n \in used : \A e : Of(n, e) => Of(n, e)'

LEMMA StepKeeps == TypeInv /\ [Next]_vars => Kept
<1> SUFFICES ASSUME TypeInv, [Next]_vars PROVE Kept
  OBVIOUS
<1>1. StoreTypeOK /\ DOMAIN prs \subseteq used
  BY DEF TypeInv, TypeOK, StoreTypeOK
<1>2. CASE UNCHANGED <<storeVars, records, rows>> /\ (faults' = 0 => faults = 0)
  BY <1>2 DEF Kept, Of
<1>3. ASSUME NEW p \in Pods, GetCount(p) \/ PatchCount(p) PROVE Kept
  <2>1. UNCHANGED <<used, records, rows>> /\ (faults' = 0 => faults = 0)
    BY <1>3, FaultCounts DEF GetCount, PatchCount, Bump
  <2>2. DOMAIN prs' = DOMAIN prs /\ \A n \in DOMAIN prs : prs'[n].err = prs[n].err
    BY <1>1, <1>3 DEF GetCount, PatchCount, Bump, SetSeen, StoreTypeOK, PatchRequest
  <2>3. QED
    BY <2>1, <2>2 DEF Kept, Of
<1>4. ASSUME NEW p \in Pods, NEW n \in PRs, NEW patch \in Patches, Create(p, n, patch)
      PROVE  Kept
  <2>1. UNCHANGED <<records, rows>> /\ (faults' = 0 => faults = 0)
    BY <1>4, FaultCounts DEF Create
  <2>2. used' = used \cup {n} /\ n \notin used /\ DOMAIN prs' = DOMAIN prs \cup {n}
        /\ \A m \in DOMAIN prs : prs'[m] = prs[m]
    BY <1>1, <1>4 DEF Create, AddPR
  <2>3. QED
    BY <2>1, <2>2 DEF Kept, Of
<1>5. ASSUME NEW p \in Pods, CreateIncidentRecord(p) \/ SaveIncident(p) PROVE Kept
  BY <1>5, FaultCounts DEF CreateIncidentRecord, SaveIncident, Kept, Of
<1>6. CASE Lifecycle
  <2>1. UNCHANGED <<used, records, rows, faults>> /\ DOMAIN prs' \subseteq DOMAIN prs
        /\ \A n \in DOMAIN prs' : prs'[n].err = prs[n].err
    BY <1>1, <1>6 DEF Lifecycle, LifecycleNext, Review, Remediate, DeletePR, SetState,
                      StoreTypeOK, PatchRequest
  <2>2. QED
    BY <2>1 DEF Kept, Of
<1>7. ASSUME NEW p \in Pods,
             \/ PodEvent(p) \/ Abort(p) \/ ListOpen(p) \/ Register(p)
             \/ \E l \in Logs : FetchContext(p, l)
      PROVE  UNCHANGED <<storeVars, records, rows>> /\ (faults' = 0 => faults = 0)
  BY <1>7, FaultCounts
  DEF PodEvent, PodFails, PodRecovers, Abort, ListOpen, Register, FetchContext
<1>8. CASE Tick \/ Restart \/ UNCHANGED vars
  BY <1>2, <1>8 DEF Tick, Restart, vars
<1>9. QED
  BY <1>2, <1>3, <1>4, <1>5, <1>6, <1>7, <1>8 DEF Next, Pipeline

LEMMA HandlerStands ==
  ASSUME TypeInv, Kept, NEW p \in Pods, HandlerKnows(p),
         pc'[p] = pc[p], err'[p] = err[p], fp'[p] = fp[p], ref'[p] = ref[p]
  PROVE  HandlerKnows(p)'
  BY DEF HandlerKnows, Kept, TypeInv, LocalInv, Made

LEMMA EntryStands ==
  ASSUME TypeInv, Kept, NEW f \in Fingerprints, EntryKnows(f),
         cache'[f].pr \in {cache[f].pr, NoPR}
  PROVE  EntryKnows(f)'
  BY DEF EntryKnows, Kept

LEMMA EntriesOnly ==
  ASSUME TypeInv
  PROVE  /\ \A g : ClearFingerprint(g) \/ CheckFingerprintCache(g) =>
              \A f \in Fingerprints : cache'[f].pr \in {cache[f].pr, NoPR}
         /\ AgeCache \/ ForgetCache \/ UNCHANGED cache =>
              \A f \in Fingerprints : cache'[f].pr \in {cache[f].pr, NoPR}
  BY DEF ClearFingerprint, CheckFingerprintCache, AgeCache, AgeEntry, ForgetCache, NoEntry,
         TypeInv, TypeOK, CacheTypeOK

LEMMA StepStored == TypeInv /\ StoredInv /\ [Next]_vars => StoredInv'
<1> SUFFICES ASSUME TypeInv, StoredInv, [Next]_vars PROVE StoredInv'
  OBVIOUS
<1>1. Kept
  BY StepKeeps
<1>2. ASSUME \A f \in Fingerprints : cache'[f].pr \in {cache[f].pr, NoPR}
      PROVE  \A f \in Fingerprints : EntryKnows(f)'
  BY <1>1, <1>2, EntryStands DEF StoredInv
<1>3. ASSUME NEW p \in Pods, Pipeline(p), HandlerKnows(p)'
      PROVE  \A q \in Pods : HandlerKnows(q)'
  BY <1>1, <1>3, OthersStand, HandlerStands DEF StoredInv
<1>4. ASSUME NEW p \in Pods, NEW l \in Logs, FetchContext(p, l) PROVE StoredInv'
  <2>1. err[p] \in ErrorStates /\ err' = err
    BY <1>4 DEF FetchContext, At, TypeInv, LocalInv
  <2>2. pc'[p] \in {"l2get", "l3list"} /\ fp'[p] = <<err[p], l>>
    BY <1>4 DEF FetchContext, GoTo, Fingerprint, TypeInv, TypeOK
  <2>3. HandlerKnows(p)'
    BY <2>1, <2>2 DEF HandlerKnows, Made, Fingerprints
  <2>4. QED
    BY <1>2, <1>3, <1>4, <2>3, EntriesOnly DEF FetchContext, StoredInv, Pipeline
<1>5. ASSUME NEW p \in Pods, GetCount(p) \/ PatchCount(p) \/ ListOpen(p) PROVE StoredInv'
  <2>1. /\ pc[p] \notin {"idle", "fetch"}
        /\ \/ pc'[p] = "idle"
           \/ err'[p] = err[p] /\ fp'[p] = fp[p] /\ pc'[p] \notin Made
    BY <1>5 DEF GetCount, PatchCount, ListOpen, NotCounted, Finish, GoTo, At, Made, TypeInv, TypeOK
  <2>2. HandlerKnows(p)'
    BY <2>1 DEF HandlerKnows, StoredInv, Made
  <2>3. \A f \in Fingerprints : cache'[f].pr \in {cache[f].pr, NoPR}
    BY <1>5, EntriesOnly DEF GetCount, PatchCount, ListOpen, NotCounted
  <2>4. QED
    BY <1>2, <1>3, <1>5, <2>2, <2>3 DEF StoredInv, Pipeline
<1>6. ASSUME NEW p \in Pods, NEW n \in PRs, NEW patch \in Patches, Create(p, n, patch)
      PROVE  StoredInv'
  <2>1. /\ pc[p] = "diagnose" /\ UNCHANGED cache
        /\ \/ pc'[p] = "idle"
           \/ err'[p] = err[p] /\ fp'[p] = fp[p] /\ pc'[p] = "record" /\ ref'[p] = n
    BY <1>6 DEF Create, Finish, GoTo, At, TypeInv, TypeOK
  <2>2. prs'[n].err = err[p]
    BY <1>6 DEF Create, AddPR, NewPatchRequest
  <2>3. HandlerKnows(p)'
    BY <2>1, <2>2 DEF HandlerKnows, StoredInv, Made, Of
  <2>4. QED
    BY <1>2, <1>3, <1>6, <2>1, <2>3, EntriesOnly DEF StoredInv, Pipeline
<1>7. ASSUME NEW p \in Pods, Abort(p) PROVE StoredInv'
  <2>1. pc'[p] = "idle" /\ UNCHANGED cache
    BY <1>7 DEF Abort, Finish, TypeInv, TypeOK
  <2>2. HandlerKnows(p)'
    BY <2>1 DEF HandlerKnows, Made
  <2>3. QED
    BY <1>2, <1>3, <1>7, <2>1, <2>2, EntriesOnly DEF StoredInv, Pipeline
<1>8. ASSUME NEW p \in Pods, CreateIncidentRecord(p) \/ SaveIncident(p) PROVE StoredInv'
  <2>1. /\ UNCHANGED <<storeVars, cache, err, fp, ref>>
        /\ \/ pc[p] = "record" /\ pc'[p] = "save" /\ (faults' = 0 => ref[p] \in records')
           \/ pc[p] = "save" /\ pc'[p] = "register" /\ (faults' = 0 => ref[p] \in rows')
    BY <1>8, FaultCounts DEF CreateIncidentRecord, SaveIncident, GoTo, At, TypeInv, TypeOK
  <2>2. HandlerKnows(p)'
    BY <1>1, <2>1 DEF HandlerKnows, StoredInv, Kept, Made, Of
  <2>3. QED
    BY <1>2, <1>3, <1>8, <2>1, <2>2, EntriesOnly DEF StoredInv, Pipeline
<1>9. ASSUME NEW p \in Pods, Register(p) PROVE StoredInv'
  <2>1. /\ pc[p] = "register" /\ pc'[p] = "idle"
        /\ UNCHANGED <<storeVars, records, rows, faults>>
        /\ \A f \in Fingerprints : cache'[f] = IF f = fp[p] THEN [pr |-> ref[p], age |-> 0]
                                                            ELSE cache[f]
    BY <1>9 DEF Register, RegisterFingerprint, Finish, At, TypeInv, TypeOK, CacheTypeOK
  <2>2. HandlerKnows(p)'
    BY <2>1 DEF HandlerKnows, Made
  <2>3. /\ ref[p] \in used /\ fp[p][1] = err[p] /\ Of(ref[p], err[p])
        /\ faults = 0 => ref[p] \in records \cap rows
    BY <2>1 DEF StoredInv, HandlerKnows, TypeInv, LocalInv, Made
  <2>4. \A f \in Fingerprints : EntryKnows(f)'
    BY <2>1, <2>3 DEF StoredInv, EntryKnows, Of
  <2>5. QED
    BY <1>3, <1>9, <2>2, <2>4 DEF StoredInv, Pipeline
<1>10. ASSUME NEW p \in Pods, PodEvent(p) PROVE StoredInv'
  <2>1. /\ UNCHANGED <<cache, fp, ref>>
        /\ \A q \in Pods : pc'[q] # "fetch" => pc'[q] = pc[q] /\ err'[q] = err[q]
    BY <1>10 DEF PodEvent, PodFails, PodRecovers, GoTo, TypeInv, TypeOK
  <2>2. ASSUME NEW q \in Pods PROVE HandlerKnows(q)'
    <3>1. CASE pc'[q] = "fetch"
      BY <3>1 DEF HandlerKnows, Made
    <3>2. CASE pc'[q] # "fetch"
      BY <1>1, <2>1, <3>2, HandlerStands DEF StoredInv
    <3>3. QED
      BY <3>1, <3>2
  <2>3. QED
    BY <1>2, <2>1, <2>2, EntriesOnly DEF StoredInv
<1>11. CASE Restart
  BY <1>2, <1>11, EntriesOnly DEF Restart, StoredInv, HandlerKnows, Made
<1>12. CASE Tick \/ Lifecycle \/ UNCHANGED vars
  <2>1. UNCHANGED local /\ (AgeCache \/ UNCHANGED cache)
    BY <1>12 DEF Tick, Lifecycle, vars
  <2>2. QED
    BY <1>1, <1>2, <2>1, HandlerStands, EntriesOnly DEF StoredInv
<1>13. QED
  BY <1>4, <1>5, <1>6, <1>7, <1>8, <1>9, <1>10, <1>11, <1>12 DEF Next, Pipeline

\* main.py, the order of the pipeline's last calls: what layer 2 points at was
\* made for the same error, and its record and row are written unless a call
\* failed, for any pods sharing any fingerprints.
THEOREM CachedIncidentStoredCorrect == Spec => []CachedIncidentStored
<1>1. Init => StoredInv
  BY DEF Init, CacheInit, NoEntry, StoredInv, HandlerKnows, EntryKnows, Made
<1>2. StoredInv => CachedIncidentStored
  BY DEF StoredInv, EntryKnows, Of, CachedIncidentStored
<1>3. Spec => [](TypeInv /\ StoredInv)
  BY <1>1, InitType, StepType, StepStored, PTL DEF Spec
<1>4. QED
  BY <1>2, <1>3, PTL
-----------------------------------------------------------------------------
(* seenCount against the increments carried out.  Between the get and the   *)
(* patch other pipelines may write; what a handler is about to write is     *)
(* still no more than one above what was counted when it read.              *)

Writing == {"l2patch", "l3patch"}

OneMore(k) == Capped(k + 1)

CountKnows(p) ==
  pc[p] \in Writing =>
    /\ count[p] >= Capped(2)
    /\ ref[p] \in PRs => count[p] <= OneMore(OneMore(counted[ref[p]]))

ObjectKnows(n) ==
  /\ n \in used \/ counted[n] = 0
  /\ counted[n] <= MaxSeen
  /\ n \in DOMAIN prs =>
       /\ prs[n].seen >= 1 /\ prs[n].seen <= OneMore(counted[n])
       /\ counted[n] > 0 => prs[n].seen >= Capped(2)

SeenInv == (\A p \in Pods : CountKnows(p)) /\ (\A n \in PRs : ObjectKnows(n))

LEMMA CappedFacts ==
  /\ \A j, k \in Nat : j <= k => Capped(j) <= Capped(k)
  /\ \A k \in Nat : /\ Capped(k) \in Nat /\ OneMore(k) \in Nat
                    /\ Capped(k) <= MaxSeen
                    /\ OneMore(k) >= 1
                    /\ k <= MaxSeen => k <= OneMore(k)
  /\ Capped(2) >= 1 /\ Capped(1) = 1
  BY PipelineAssumption DEF Capped, OneMore

LEMMA OneMoreGrows == \A j, k \in Nat : j <= k => OneMore(j) <= OneMore(k)
  BY PipelineAssumption DEF Capped, OneMore

LEMMA SeenTypes ==
  ASSUME TypeInv
  PROVE  /\ counted \in [PRs -> Nat] /\ count \in [Pods -> Nat] /\ StoreTypeOK
         /\ DOMAIN prs \subseteq used /\ used \subseteq PRs
         /\ \A n \in DOMAIN prs : prs[n].seen \in Nat
  BY DEF TypeInv, TypeOK, StoreTypeOK, PatchRequest

\* A step that counts nothing, writes no seenCount and starts no write.
LEMMA SeenStands ==
  ASSUME TypeInv, SeenInv, UNCHANGED counted, used \subseteq used',
         \A n \in DOMAIN prs' : n \in DOMAIN prs /\ prs'[n].seen = prs[n].seen,
         \A p \in Pods : pc'[p] \in Writing =>
           pc[p] = pc'[p] /\ count'[p] = count[p] /\ ref'[p] = ref[p]
  PROVE  SeenInv'
  BY DEF SeenInv, CountKnows, ObjectKnows

LEMMA GetCountSeen ==
  ASSUME TypeInv, SeenInv, NEW p \in Pods, GetCount(p)
  PROVE  SeenInv'
<1>1. UNCHANGED <<counted, prs, used>>
  BY DEF GetCount
<1>2. CASE NotCounted(p)
  <2>1. \A q \in Pods : pc'[q] \in Writing =>
           pc[q] = pc'[q] /\ count'[q] = count[q] /\ ref'[q] = ref[q]
    BY <1>2 DEF NotCounted, GoTo, Writing, TypeInv, TypeOK
  <2>2. QED
    BY <1>1, <2>1, SeenStands
<1>3. CASE ~NotCounted(p)
  <2>1. /\ ref[p] \in DOMAIN prs /\ ref' = ref
        /\ count'[p] = OneMore(prs[ref[p]].seen)
        /\ \A q \in Pods \ {p} : pc'[q] = pc[q] /\ count'[q] = count[q]
    BY <1>3 DEF GetCount, Exists, GoTo, OneMore, TypeInv, TypeOK
  <2>2. PICK n \in PRs : n = ref[p]
    BY <2>1, SeenTypes
  <2>3. PICK s \in Nat : s = prs[n].seen
    BY <2>1, <2>2, SeenTypes
  <2>4. PICK c \in Nat : c = counted[n]
    BY <2>2, SeenTypes
  <2>5. s >= 1 /\ s <= OneMore(c)
    BY <2>1, <2>2, <2>3, <2>4 DEF SeenInv, ObjectKnows
  <2>6. OneMore(s) >= Capped(2)
    BY <2>5, CappedFacts DEF OneMore
  <2>7. OneMore(s) <= OneMore(OneMore(c))
    BY <2>5, CappedFacts, OneMoreGrows
  <2>8. CountKnows(p)'
    BY <1>1, <2>1, <2>2, <2>3, <2>4, <2>6, <2>7 DEF CountKnows
  <2>9. QED
    BY <1>1, <2>1, <2>8 DEF SeenInv, CountKnows, ObjectKnows
<1>4. QED
  BY <1>2, <1>3

LEMMA PatchCountSeen ==
  ASSUME TypeInv, SeenInv, NEW p \in Pods, PatchCount(p)
  PROVE  SeenInv'
<1>1. used' = used /\ \A q \in Pods : pc'[q] \in Writing =>
        pc[q] = pc'[q] /\ count'[q] = count[q] /\ ref'[q] = ref[q]
  BY DEF PatchCount, Bump, NotCounted, Finish, GoTo, At, Writing, TypeInv, TypeOK
<1>2. CASE UNCHANGED <<storeVars, counted>>
  BY <1>1, <1>2, SeenStands
<1>3. CASE Bump(p)
  <2>1. pc[p] \in Writing /\ ref[p] \in DOMAIN prs /\ ref[p] \in PRs
    BY <1>3, SeenTypes DEF PatchCount, At, Writing, Bump, Exists
  <2>2. PICK n \in PRs : n = ref[p]
    BY <2>1
  <2>3. /\ DOMAIN prs' = DOMAIN prs /\ prs'[n].seen = count[p]
        /\ \A m \in DOMAIN prs \ {n} : prs'[m].seen = prs[m].seen
    BY <1>3, <2>1, <2>2, SeenTypes DEF Bump, SetSeen, StoreTypeOK, PatchRequest
  <2>4. counted'[n] = OneMore(counted[n]) /\ \A m \in PRs \ {n} : counted'[m] = counted[m]
    BY <1>3, <2>2, SeenTypes DEF Bump, OneMore
  <2>5. PICK c \in Nat : c = counted[n]
    BY SeenTypes
  <2>6. PICK k \in Nat : k = count[p]
    BY SeenTypes
  <2>7. c <= MaxSeen /\ k >= Capped(2) /\ k <= OneMore(OneMore(c))
    BY <2>1, <2>2, <2>5, <2>6 DEF SeenInv, ObjectKnows, CountKnows
  <2>8. OneMore(c) \in Nat /\ c <= OneMore(c) /\ OneMore(c) <= MaxSeen
    BY <2>7, CappedFacts DEF OneMore
  <2>9. OneMore(OneMore(c)) <= OneMore(OneMore(OneMore(c)))
    BY <2>8, CappedFacts, OneMoreGrows
  <2>10. k >= 1
    BY <2>7, CappedFacts
  <2>11. ObjectKnows(n)'
    BY <1>1, <2>1, <2>2, <2>3, <2>4, <2>5, <2>6, <2>7, <2>8, <2>10, SeenTypes DEF ObjectKnows
  <2>12. ASSUME NEW m \in PRs, m # n PROVE ObjectKnows(m)'
    BY <1>1, <2>3, <2>4, <2>12 DEF SeenInv, ObjectKnows
  <2>13. ASSUME NEW q \in Pods, pc'[q] \in Writing PROVE CountKnows(q)'
    <3>1. CountKnows(q) /\ pc[q] = pc'[q] /\ count'[q] = count[q] /\ ref'[q] = ref[q]
      BY <1>1, <2>13 DEF SeenInv
    <3>2. CASE ref[q] # n
      BY <2>4, <3>1, <3>2 DEF CountKnows
    <3>3. CASE ref[q] = n
      <4>1. PICK j \in Nat : j = count[q]
        BY SeenTypes
      <4>2. j >= Capped(2) /\ j <= OneMore(OneMore(c))
        BY <2>5, <2>13, <3>1, <3>3, <4>1 DEF CountKnows
      <4>3. j <= OneMore(OneMore(OneMore(c)))
        BY <2>8, <2>9, <4>2, CappedFacts
      <4>4. QED
        BY <2>4, <2>5, <3>1, <3>3, <4>1, <4>2, <4>3 DEF CountKnows
    <3>4. QED
      BY <3>2, <3>3
  <2>14. QED
    BY <2>11, <2>12, <2>13 DEF SeenInv, CountKnows
<1>4. QED
  BY <1>2, <1>3 DEF PatchCount

LEMMA CreateSeen ==
  ASSUME TypeInv, SeenInv, NEW p \in Pods, NEW n \in PRs, NEW patch \in Patches,
         Create(p, n, patch)
  PROVE  SeenInv'
<1>1. /\ n \notin used /\ used' = used \cup {n} /\ UNCHANGED counted
      /\ DOMAIN prs' = DOMAIN prs \cup {n} /\ prs'[n].seen = 1
      /\ \A m \in DOMAIN prs : prs'[m] = prs[m]
  BY SeenTypes DEF Create, AddPR, NewPatchRequest
<1>2. \A q \in Pods : pc'[q] \in Writing =>
        pc[q] = pc'[q] /\ count'[q] = count[q] /\ ref'[q] = ref[q]
  BY DEF Create, Finish, GoTo, Writing, TypeInv, TypeOK
<1>3. counted[n] = 0
  BY <1>1 DEF SeenInv, ObjectKnows
<1>4. OneMore(0) >= 1
  BY CappedFacts
<1>5. \A m \in PRs : ObjectKnows(m)'
  BY <1>1, <1>3, <1>4, PipelineAssumption DEF SeenInv, ObjectKnows
<1>6. QED
  BY <1>1, <1>2, <1>5 DEF SeenInv, CountKnows

LEMMA StepSeen == TypeInv /\ SeenInv /\ [Next]_vars => SeenInv'
<1> SUFFICES ASSUME TypeInv, SeenInv, [Next]_vars PROVE SeenInv'
  OBVIOUS
<1>1. CASE Lifecycle
  <2>1. /\ UNCHANGED <<used, counted, pc, count, ref>> /\ DOMAIN prs' \subseteq DOMAIN prs
        /\ \A n \in DOMAIN prs' : prs'[n].seen = prs[n].seen
    BY <1>1, SeenTypes DEF Lifecycle, LifecycleNext, Review, Remediate, DeletePR, SetState,
                           StoreTypeOK, PatchRequest
  <2>2. QED
    BY <2>1, SeenStands
<1>2. ASSUME NEW p \in Pods,
             \/ PodEvent(p) \/ Abort(p) \/ ListOpen(p) \/ Register(p)
             \/ CreateIncidentRecord(p) \/ SaveIncident(p)
             \/ \E l \in Logs : FetchContext(p, l)
      PROVE  SeenInv'
  <2>1. UNCHANGED <<prs, used, counted>>
    BY <1>2 DEF PodEvent, PodFails, PodRecovers, Abort, ListOpen, Register,
                CreateIncidentRecord, SaveIncident, FetchContext
  <2>2. \A q \in Pods : pc'[q] \in Writing =>
          pc[q] = pc'[q] /\ count'[q] = count[q] /\ ref'[q] = ref[q]
    BY <1>2 DEF PodEvent, PodFails, PodRecovers, Abort, ListOpen, Register,
                CreateIncidentRecord, SaveIncident, FetchContext, Finish, GoTo, Writing,
                TypeInv, TypeOK
  <2>3. QED
    BY <2>1, <2>2, SeenStands
<1>3. CASE Tick \/ Restart \/ UNCHANGED vars
  <2>1. /\ UNCHANGED <<prs, used, counted>>
        /\ \A q \in Pods : pc'[q] \in Writing =>
             pc[q] = pc'[q] /\ count'[q] = count[q] /\ ref'[q] = ref[q]
    BY <1>3 DEF Tick, Restart, vars, Writing
  <2>2. QED
    BY <2>1, SeenStands
<1>4. QED
  BY <1>1, <1>2, <1>3, GetCountSeen, PatchCountSeen, CreateSeen DEF Next, Pipeline

\* increment_seen_count reads in one call and writes in another: whatever the
\* pipelines do between the two and whatever fails, no count is invented.
THEOREM SeenNeverInventedCorrect == Spec => []SeenNeverInvented
<1>1. Init => SeenInv
  BY PipelineAssumption
  DEF Init, StoreInit, SeenInv, CountKnows, ObjectKnows, Writing
<1>2. TypeInv /\ SeenInv => SeenNeverInvented
  BY SeenTypes DEF SeenInv, ObjectKnows, SeenNeverInvented, OneMore
<1>3. Spec => [](TypeInv /\ SeenInv)
  BY <1>1, InitType, StepType, StepSeen, PTL DEF Spec
<1>4. QED
  BY <1>2, <1>3, PTL
=============================================================================
