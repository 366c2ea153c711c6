--------------------------------- MODULE Budget ---------------------------------
(***************************************************************************)
(* Resource budgets (core/src/policy/mod.rs, daemon/src/resource_budget.rs,*)
(* deployment_policy.rs): what a task may use, when a budget is valid and  *)
(* when one stays within another.                                          *)
(***************************************************************************)
EXTENDS Naturals

CONSTANTS
  Max64,     \* the largest u64
  MaxTail,   \* MAX_OUTPUT_TAIL_BYTES
  MaxTotal   \* MAX_TOTAL_OUTPUT_BYTES

\* CPU is a fraction, quota / period.
Budgets ==
  [quota : 0..Max64, period : 0..Max64, memory : 0..Max64, pids : 0..Max64, wall : 0..Max64,
   stdout : 0..Max64, stderr : 0..Max64]

\* The fields a caller may override, and the parts of a budget each stands for.
Overridable == {"cpu", "memory", "pids", "wall", "stdout", "stderr"}
Parts(field) == IF field = "cpu" THEN {"quota", "period"} ELSE {field}

\* nonzero_u64, require_output_nonzero, output_tail_bytes: no limit is zero,
\* and a tail has a largest size.
InRange(b) == (\A f \in DOMAIN b : b[f] > 0) /\ b.stdout <= MaxTail /\ b.stderr <= MaxTail

\* ResourceBudget::try_new; a sum that overflows u32 is too large as well.
try_new(b) == InRange(b) /\ b.stdout + b.stderr <= MaxTotal

\* The products are taken in 128 bits, where they cannot overflow.
RatioWithin(b, maximum) == b.quota * maximum.period <= maximum.quota * b.period

require_within_maximum(f, b, maximum) == b[f] <= maximum[f]

validate_within_maximum(b, maximum) ==
  /\ RatioWithin(b, maximum)
  /\ \A f \in {"memory", "pids", "wall", "stdout", "stderr"} : require_within_maximum(f, b, maximum)

\* The fields of an override replace those of a budget.
Overridden(b, override) ==
  [f \in DOMAIN b |-> IF f \in DOMAIN override THEN override[f] ELSE b[f]]

================================================================================
