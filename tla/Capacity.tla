------------------------------ MODULE Capacity ------------------------------
(***************************************************************************)
(* TaskCapacity (daemon/src/capacity.rs): two atomic counters, and a       *)
(* permit that either gives its slot back when dropped or is retained for  *)
(* the rest of the process.                                                *)
(***************************************************************************)
EXTENDS TaskIds, Naturals

CONSTANT
    MaxConcurrent   \* TaskCapacitySettings::max_concurrent_tasks, never zero

ASSUME CapacityAssumption == MaxConcurrent \in Nat \ {0}

VARIABLES
    in_use,
    retained_for_fail_stop,
    permit          \* the TaskCapacityPermit of each task

capacityVars == <<in_use, retained_for_fail_stop, permit>>

CapacityTypeOK ==
    /\ in_use \in Nat
    /\ retained_for_fail_stop \in Nat
    /\ permit \in [Tasks -> {"NONE", "HELD", "RETAINED", "RELEASED"}]

CapacityInit ==
    /\ in_use = 0
    /\ retained_for_fail_stop = 0
    /\ permit = [t \in Tasks |-> "NONE"]

\* Faulty: off by one.
HasRoom_OffByOne == in_use <= MaxConcurrent

\* The compare-exchange loop takes effect at its one successful exchange.
HasRoom == in_use < MaxConcurrent

try_acquire(t) ==
    /\ HasRoom
    /\ in_use' = in_use + 1
    /\ permit' = [permit EXCEPT ![t] = "HELD"]
    /\ UNCHANGED retained_for_fail_stop

drop_permit(t) ==
    /\ in_use' = in_use - 1
    /\ permit' = [permit EXCEPT ![t] = "RELEASED"]
    /\ UNCHANGED retained_for_fail_stop

\* Faulty: the slot of an unfinished cleanup is given back.
retain_for_fail_stop_Dropped(t) == drop_permit(t)

retain_for_fail_stop(t) ==
    /\ retained_for_fail_stop' = retained_for_fail_stop + 1
    /\ permit' = [permit EXCEPT ![t] = "RETAINED"]
    /\ UNCHANGED in_use
=============================================================================
