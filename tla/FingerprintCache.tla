-------------------------- MODULE FingerprintCache ---------------------------
(***************************************************************************)
(* Layer 2 of controller/dedup.py: the fingerprints of the incidents that  *)
(* already have a PatchRequest, kept in memory and lost when the           *)
(* controller restarts.  Every function holds the lock with no await       *)
(* inside, so each is atomic.  An age stops at CacheTTL: beyond it the     *)
(* code cannot tell two ages apart.                                        *)
(***************************************************************************)
EXTENDS PatchRequests

CONSTANTS
  Logs,     \* the cleaned log excerpts
  CacheTTL  \* CACHE_TTL_DEFAULT, in ticks

ASSUME CacheAssumption == CacheTTL \in Nat \ {0}

VARIABLE cache

\* The hash covers the error state and the logs: not the deployment, and
\* not the namespace.
Fingerprint(e, l) == <<e, l>>
Fingerprints == ErrorStates \X Logs

NoEntry == [pr |-> NoPR, age |-> 0]

CacheTypeOK == cache \in [Fingerprints -> [pr : PRs \cup {NoPR}, age : 0 .. CacheTTL]]

CacheInit == cache = [f \in Fingerprints |-> NoEntry]

-----------------------------------------------------------------------------
CacheHit(f) == cache[f].pr # NoPR /\ cache[f].age < CacheTTL

ClearFingerprint(f) == cache' = [cache EXCEPT ![f] = NoEntry]

\* Mutant: a hit renews the entry.
CheckFingerprintCacheRenewing(f) ==
  IF CacheHit(f) THEN cache' = [cache EXCEPT ![f].age = 0] ELSE ClearFingerprint(f)

\* A lookup deletes an entry whose time has run out; a hit does not renew it.
CheckFingerprintCache(f) ==
  IF CacheHit(f) THEN UNCHANGED cache ELSE ClearFingerprint(f)

RegisterFingerprint(f, n) ==
  cache' = [cache EXCEPT ![f] = [pr |-> n, age |-> 0]]

AgeEntry(c) ==
  IF c.pr = NoPR \/ c.age = CacheTTL THEN c ELSE [c EXCEPT !.age = @ + 1]

AgeCache == cache' = [f \in Fingerprints |-> AgeEntry(cache[f])]

ForgetCache == cache' = [f \in Fingerprints |-> NoEntry]
=============================================================================
