------------------------------- MODULE Triage --------------------------------
(***************************************************************************)
(* One incident from the log of its pod to the patch that is proposed: the *)
(* log is fetched and preprocessed (main.py:128-149 and 474), and then     *)
(* retrieval and agents work on the excerpt as Diagnosis has it.           *)
(***************************************************************************)
EXTENDS Diagnosis, LogPreprocessor

CONSTANTS
  Lines,        \* the lines a container may write
  Stamps,       \* the timestamps it may write them at
  ErrorState,   \* the error state of the incident
  TailLines,    \* tail_lines of the two calls
  MaxLog        \* bound: lines written before the crash

ASSUME TriageAssumption ==
  /\ \A line \in Lines : line \in [stamp : Stamps \cup {NoStamp}, text : Seq(Words)]
  /\ NoStamp \notin Stamps /\ TailLines \in Nat /\ MaxLog \in Nat

VARIABLES
  log,       \* what the crashed container wrote
  excerpt    \* cleaned_logs: part of every prompt, and of the fingerprint

triageVars == <<vars, log, excerpt>>

NotFetched == <<>>

TriageInit == Init /\ log = <<>> /\ excerpt = NotFetched

WriteLine ==
  /\ excerpt = NotFetched /\ Len(log) < MaxLog
  /\ \E line \in Lines : log' = Append(log, line)
  /\ UNCHANGED <<vars, excerpt>>

LastLines(s) == SubSeq(s, IF Len(s) > TailLines THEN Len(s) - TailLines + 1 ELSE 1, Len(s))

\* _fetch_pod_logs: the previous container's log, else the current one's,
\* else nothing: a failing call only means that the next one is tried.
FetchLogs ==
  /\ excerpt = NotFetched
  /\ \E raw \in {LastLines(log), <<>>} : excerpt' = preprocess_logs(raw, ErrorState)
  /\ log' = <<>>
  /\ UNCHANGED vars

TriageNext ==
  \/ WriteLine
  \/ FetchLogs
  \/ excerpt # NotFetched /\ Next /\ UNCHANGED <<log, excerpt>>

TriageSpec == TriageInit /\ [][TriageNext]_triageVars /\ WF_triageVars(TriageNext)

-----------------------------------------------------------------------------
(* Properties *)

\* "same crash pattern -> same fingerprint" (log_preprocessor.py:103): the
\* fingerprint depends on the time of no line that is fetched, and not on how
\* often one was repeated as long as the whole log is fetched; unless what is
\* fetched is nothing but noise and taken raw (main.py:131-145).
Restamped(raw) ==
  {[i \in DOMAIN raw |->
      IF raw[i].stamp = NoStamp THEN raw[i] ELSE [raw[i] EXCEPT !.stamp = time[i]]] :
     time \in [DOMAIN raw -> Stamps]}

Repeated(raw) == {InsertAt(raw, i, raw[i]) : i \in DOMAIN raw}

SamePatternSameFingerprint ==
  LET Key(raw) == make_fingerprint(preprocess_logs(LastLines(raw), ErrorState), ErrorState)
  IN Kept(LastLines(log)) # <<>> =>
       /\ \A other \in Restamped(log) : Key(other) = Key(log)
       /\ Len(log) < TailLines => \A other \in Repeated(log) : Key(other) = Key(log)

\* Context never crowds out a signal that was fetched: where the lines with a
\* signal fit into the budget, each of them is in the excerpt, however many
\* others come before it (log_preprocessor.py:84-94, "Prefer signal lines").
AddSignalling(chosen, line) ==
  IF IsSignal(Strip(line)) /\ ~Mentions(Strip(line), Noises)
  THEN Append(chosen, Strip(line)) ELSE chosen

Signalling(raw) == FoldLeft(AddSignalling, <<>>, raw)

Fits(lines) == Len(lines) <= MaxLines /\ Len(Joined(lines)) <= MaxChars

Quotes(text, words) == words \in {SubSeq(text, i, j) : i, j \in DOMAIN text}

SignalsQuoted ==
  LET lines == Signalling(LastLines(log))
  IN Fits(lines) =>
       \A i \in DOMAIN lines :
         Quotes(preprocess_logs(LastLines(log), ErrorState), lines[i])
=============================================================================
