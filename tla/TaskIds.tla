------------------------------ MODULE TaskIds ------------------------------
(***************************************************************************)
(* The task ids every component of the task path is keyed by.  A submit    *)
(* call generates the candidate id of the task it may create, so a member  *)
(* of Tasks stands both for a submit call and for that id.                 *)
(***************************************************************************)
EXTENDS FiniteSets

CONSTANTS
    Tasks,          \* submit calls, i.e. candidate task ids
    NoTask          \* Option::None where a task id is expected

ASSUME TaskAssumption == IsFiniteSet(Tasks) /\ NoTask \notin Tasks
=============================================================================
