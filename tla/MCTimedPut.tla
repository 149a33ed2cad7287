----------------------------- MODULE MCTimedPut -----------------------------
(* Small instances of TimedPut. *)
EXTENDS TimedPut

Config(b, t, r) == [blksize |-> b, timeout |-> t, windowsize |-> 1, retries |-> r]

RetryConfigs == {Config(2, 1, r) : r \in 0..5} \cup {Config(2, 2, 2)}
PatientConfigs == {Config(2, 1, 5)}

\* FactorSum is the sum that it stands for.
ASSUME FactorsAddUp ==
    LET factor(k) == Lesser(2^(k - 1), 8)
    IN  \A n \in 0..9 : FactorSum(n) = MapThenSumSet(factor, 1..n)
=============================================================================
