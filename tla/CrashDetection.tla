---------------------------- MODULE CrashDetection ---------------------------
(***************************************************************************)
(* How the failures of a pod become triggers of the diagnosis.  The        *)
(* kubelet (external) starts the init container and then the main one,     *)
(* restarts what ends, at once or after a back-off, and writes the         *)
(* containers' statuses; kopf calls on_pod_status_change or                *)
(* on_pod_init_status_change when they have changed; log_preprocessor      *)
(* tells the error state and layer 1 (Dampening) counts it.                *)
(***************************************************************************)
EXTENDS Dampening

CONSTANTS
  Exits,      \* how a main container ends: some of "Error", "OOMKilled", "Completed"
  Stuck,      \* why it may wait: some of "ImagePullBackOff", "CreateContainerConfigError"
  MaxCrashes  \* bound: where the count of failed runs stops

ASSUME DetectionAssumption ==
  /\ {"CrashLoopBackOff", "InitCrashLoopBackOff"} \cup Stuck \subseteq ErrorStates
  /\ "OOMKilled" \in Exits => "OOMKilled" \in ErrorStates
  /\ Exits \subseteq {"Error", "OOMKilled", "Completed"}
  /\ Stuck \subseteq {"ImagePullBackOff", "CreateContainerConfigError"}
  /\ MaxCrashes \in Nat \ {0}

\* dedup.py:31-40: a back-off is dampened, an init container's failure is not.
ASSUME ThresholdAssumption ==
  /\ "CrashLoopBackOff" \notin ImmediateStates
  /\ "InitCrashLoopBackOff" \in ImmediateStates

VARIABLES
  status,   \* pod -> container -> what the kubelet writes
  handled,  \* pod -> container -> the status its handler was last called with
  rerun,    \* pod -> container -> has it been started since then
  crashes,  \* history: pod -> failed runs of its containers
  backoffs, \* history: pod -> back-offs of its main container, to the threshold
  cause     \* history: pod -> the container whose status triggered just now

past == <<crashes, backoffs>>
vars == <<window, status, handled, rerun, past, cause>>

Containers == {"init", "main"}
Never == "none"

\* An init container can succeed, too.
InitExits == Exits \cup {"Completed"}

\* why: of a wait or an end; last: how the run before ended; ready: the probe.
\* restartCount, containerID and the times of lastState are new with each run,
\* which is what rerun stands for.
Status ==
  [state : {"waiting", "running", "terminated"},
   why : {"ContainerCreating", "CrashLoopBackOff", Never} \cup Stuck \cup InitExits,
   last : InitExits \cup {Never}, ready : BOOLEAN]

Created == [state |-> "waiting", why |-> "ContainerCreating", last |-> Never, ready |-> FALSE]

TypeOK ==
  /\ WindowTypeOK
  /\ status \in [Pods -> [Containers -> Status]]
  /\ handled \in [Pods -> [Containers -> Status]]
  /\ rerun \in [Pods -> [Containers -> BOOLEAN]]
  /\ crashes \in [Pods -> 0 .. MaxCrashes]
  /\ backoffs \in [Pods -> 0 .. DampenCount]
  /\ cause \in [Pods -> Containers \cup {Never}]

Init ==
  /\ WindowInit
  /\ status = [p \in Pods |-> [c \in Containers |-> Created]]
  /\ handled = status
  /\ rerun = [p \in Pods |-> [c \in Containers |-> FALSE]]
  /\ crashes = [p \in Pods |-> 0]
  /\ backoffs = [p \in Pods |-> 0]
  /\ cause = [p \in Pods |-> Never]

-----------------------------------------------------------------------------
(* The kubelet *)

Becomes(p, c, states, why, new) ==
  /\ status[p][c].state \in states
  /\ status[p][c].why \in why
  /\ status' = [status EXCEPT ![p][c] = new]
  /\ UNCHANGED <<window, handled, cause>>

InitDone(p) == status[p]["init"].why = "Completed"

Ended(p, c) == status[p][c].state = "terminated" /\ (c = "init" => ~InitDone(p))

\* A container waits to be created or to be restarted, is running, has ended.
Run(p, c) ==
  /\ c = "main" => InitDone(p)
  /\ \E s \in {status[p][c]} :
       /\ s.state = "waiting" \/ Ended(p, c)
       /\ Becomes(p, c, {"waiting", "terminated"}, {s.why},
                  [state |-> "running", why |-> Never, ready |-> FALSE,
                   last |-> IF s.state = "terminated" THEN s.why ELSE s.last])
  /\ rerun' = [rerun EXCEPT ![p][c] = TRUE]
  /\ UNCHANGED past

GetStuck(p, c) ==
  /\ c = "main" => InitDone(p)
  /\ \E why \in Stuck :
       Becomes(p, c, {"waiting"}, {"ContainerCreating"}, [status[p][c] EXCEPT !.why = why])
  /\ UNCHANGED <<rerun, past>>

Probe(p) ==
  /\ Becomes(p, "main", {"running"}, {Never}, [status[p]["main"] EXCEPT !.ready = ~@])
  /\ UNCHANGED <<rerun, past>>

Finish(p, c, exit) ==
  /\ Becomes(p, c, {"running"}, {Never},
             [status[p][c] EXCEPT !.state = "terminated", !.why = exit, !.ready = FALSE])
  /\ crashes' = [crashes EXCEPT ![p] =
                   IF exit # "Completed" /\ @ < MaxCrashes THEN @ + 1 ELSE @]
  /\ UNCHANGED <<rerun, backoffs>>

BackOff(p, c) ==
  /\ Ended(p, c)
  /\ Becomes(p, c, {"terminated"}, InitExits,
             [status[p][c] EXCEPT !.state = "waiting", !.why = "CrashLoopBackOff",
                                  !.last = status[p][c].why])
  /\ backoffs' = [backoffs EXCEPT ![p] =
                    IF c = "main" /\ @ < DampenCount THEN @ + 1 ELSE @]
  /\ UNCHANGED <<rerun, crashes>>

-----------------------------------------------------------------------------
(* log_preprocessor *)

\* Mutants: a missing lastState counts as a failed run; a ready container is a
\* healthy one; a failed run has a name of its own, as it did before the fix
\* in docs/architecture/controllers_deep_dive.md:425-446.
detect_missing_exit(s) ==
  IF s.why = "CrashLoopBackOff" \/ s.last # "Completed" THEN "CrashLoopBackOff" ELSE NoError

detect_ready_is_healthy(s) ==
  IF (s.state = "waiting" /\ s.why = "CrashLoopBackOff") \/ (s.last = "Error" /\ ~s.ready)
  THEN "CrashLoopBackOff" ELSE NoError

detect_container_crashed(s) ==
  IF s.state = "waiting" /\ s.why = "CrashLoopBackOff" THEN "CrashLoopBackOff"
  ELSE IF s.last = "Error" THEN "ContainerCrashed" ELSE NoError

\* The reason for a wait comes first, then the end of the run before.
detect_error_state(s) ==
  IF s.state = "waiting" /\ s.why = "CrashLoopBackOff" THEN "CrashLoopBackOff"
  ELSE IF s.state = "waiting" /\ s.why \in Stuck THEN s.why
  ELSE IF s.last = "OOMKilled" THEN "OOMKilled"
  ELSE IF s.last = "Error" THEN "CrashLoopBackOff"
  ELSE NoError

Failed(exit) == exit \in {"Error", "OOMKilled"}

detect_init_error_state(s) ==
  IF \/ s.state = "waiting" /\ s.why = "CrashLoopBackOff"
     \/ s.state = "terminated" /\ Failed(s.why)
     \/ Failed(s.last)
  THEN "InitCrashLoopBackOff" ELSE NoError

-----------------------------------------------------------------------------
(* The handlers.  kopf compares all of a status with the one it handled last: *)
(* a probe that fails and succeeds in between is no change, another run is one *)
(* even if it ended like the last.                                           *)

Detected(p, c) ==
  IF c = "main" THEN detect_error_state(status[p][c]) ELSE detect_init_error_state(status[p][c])

Changed(p, c) == rerun[p][c] \/ handled[p][c] # status[p][c]

\* Only the main containers' handler clears the counters.
Handle(p, c) ==
  LET e == Detected(p, c)
  IN /\ Changed(p, c)
     /\ handled' = [handled EXCEPT ![p][c] = status[p][c]]
     /\ rerun' = [rerun EXCEPT ![p][c] = FALSE]
     /\ \/ e # NoError /\ Triggers(p, e) /\ cause' = [cause EXCEPT ![p] = c]
        \/ e # NoError /\ Dampens(p, e) /\ cause' = [cause EXCEPT ![p] = Never]
        \/ /\ e = NoError /\ cause' = [cause EXCEPT ![p] = Never]
           /\ IF c = "main" THEN ClearDampening(p) ELSE UNCHANGED window
     /\ UNCHANGED <<status, past>>

Tick ==
  /\ AgeWindows
  /\ UNCHANGED <<status, handled, rerun, past, cause>>

Kubelet(p) ==
  \/ \E c \in Containers : Run(p, c) \/ GetStuck(p, c) \/ BackOff(p, c)
  \/ \E exit \in Exits : Finish(p, "main", exit)
  \/ \E exit \in InitExits : Finish(p, "init", exit)
  \/ Probe(p)

Next ==
  \/ \E p \in Pods : Kubelet(p) \/ \E c \in Containers : Handle(p, c)
  \/ Tick

Spec == Init /\ [][Next]_vars

-----------------------------------------------------------------------------
(* Properties *)

\* Only a failure starts a diagnosis: a container that ended badly or could not
\* be started, or a main container that was sent to a back-off as often as the
\* threshold says, whose completed runs count like failures.  Neither healthy
\* runs with failing probes nor fewer back-offs trigger, although the kubelet's
\* statuses may reach kopf late, merged or one run like the other
\* (log_preprocessor.py:109-180, dedup.py:55-76).
OnlyFailuresTrigger ==
  \A p \in Pods :
    cause[p] # Never =>
      \/ crashes[p] > 0
      \/ handled[p][cause[p]].why \in Stuck
      \/ cause[p] = "main" /\ backoffs[p] = DampenCount

\* The counts of layer 1 are lost to time and to a completed run only, never to
\* the kubelet's alternation between waiting, running and terminated: from one
\* failed run of the main container to the next its error state is one and the
\* same (log_preprocessor.py:138-143, the normalisation).
CountsAccumulate ==
  [][\A p \in Pods :
       (/\ <<handled'[p], rerun'[p]>> # <<handled[p], rerun[p]>>
        /\ handled[p]["main"].last = "Error" /\ handled'[p]["main"].last = "Error") =>
         EventCount(window'[p]) >= EventCount(window[p])]_vars

-----------------------------------------------------------------------------
(* What the repository says and the code does not do *)

\* dedup.py:80, "Clear dampening counters when a pod recovers" (main.py:353).
\* A container that was restarted keeps its lastState.
RecoveryClears ==
  \A p \in Pods :
    status[p]["main"].ready /\ (\A c \in Containers : ~Changed(p, c)) =>
      window[p] = EmptyWindow
=============================================================================
