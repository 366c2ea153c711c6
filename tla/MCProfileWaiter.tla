--------------------------- MODULE MCProfileWaiter ---------------------------
(* Two identical submitProfile calls, of which one waits for the other. *)
EXTENDS ProfileRuntime

CONSTANTS a1, a2, r1

OneId == [c \in {a1, a2} |-> r1]
OneBody == [c \in {a1, a2} |-> "x"]
==============================================================================
