----------------------------- MODULE MCDischarge -----------------------------
(* Values for Discharge: claims against the limit 0, with the true value up   *)
(* to three away, and solutions of a width up to 2 and an eps up to 5 around  *)
(* it: the margin can tighten five times, once more than is allowed.          *)
EXTENDS Discharge

MCTruths == -3..3

MCSolutions ==
  {s \in [lo : -7..7, hi : -7..7, eps : 0..5] : s.lo <= s.hi /\ s.hi <= s.lo + 2}

\* This loose budget is as NoAnswerIsMissed supposes.
ASSUME LooseBudgetIsLoose
=============================================================================
