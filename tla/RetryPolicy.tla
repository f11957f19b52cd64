----------------------------- MODULE RetryPolicy -----------------------------
(***************************************************************************)
(* RetryPolicy of crates/blazingly-queue/src/lib.rs as operators: the      *)
(* attempt ceiling and the bounded exponential backoff, with the width of  *)
(* the machine integers as a parameter (32 in the code) so that overflow   *)
(* happens on small numbers.  A duration saturates at MaxDuration.         *)
(***************************************************************************)
EXTENDS Naturals

CONSTANTS Width,       \* bits of the multiplier and of its powers
          MaxDuration  \* Duration::MAX

ASSUME WidthAssumption == Width \in Nat \ {0}
ASSUME MaxDurationAssumption == MaxDuration \in Nat

AtMost(a, b) == IF a <= b THEN a ELSE b
MaxUnsigned == 2 ^ Width - 1

Policies(attempts, durations, multipliers) ==
  [max_attempts : attempts, initial_backoff : durations,
   max_backoff : durations, multiplier : multipliers]

\* new and with_multiplier clamp a zero to one.
Clamped(policy) ==
  [policy EXCEPT !.max_attempts = IF @ = 0 THEN 1 ELSE @,
                 !.multiplier = IF @ = 0 THEN 1 ELSE @]

\* Mutant: the power wraps around instead of saturating.
FactorWraps(policy, attempt) ==
  LET exponent == AtMost(IF attempt = 0 THEN 0 ELSE attempt - 1, Width - 1)
  IN  policy.multiplier ^ exponent % 2 ^ Width

\* checked_pow(min(attempt - 1, 31)), saturated.
Factor(policy, attempt) ==
  LET exponent == AtMost(IF attempt = 0 THEN 0 ELSE attempt - 1, Width - 1)
  IN  AtMost(policy.multiplier ^ exponent, MaxUnsigned)

Backoff(policy, attempt) ==
  AtMost(AtMost(policy.initial_backoff * Factor(policy, attempt), MaxDuration),
         policy.max_backoff)

IsExhausted(policy, attempt) == attempt >= policy.max_attempts
==============================================================================
