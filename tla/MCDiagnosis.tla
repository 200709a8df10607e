----------------------------- MODULE MCDiagnosis -----------------------------
(* The instance of Triage for TLC. *)
EXTENDS Triage

CONSTANTS a, b, error, probe, main, t1

\* Two patches: one refused and another proposed instead of it.
TwoPatches == {a, b}

\* Words alone, together, and with noise before and behind them; the variants that are compared
\* are stamped otherwise, so it is enough to write at one time.
Texts == {<<>>, <<main>>, <<error>>, <<main, error>>, <<main, probe>>, <<probe, error>>}
WrittenLines == [stamp : {t1, NoStamp}, text : Texts]
=============================================================================
