------------------------ MODULE MCMessageProcessing ------------------------
(* Instances of MessageProcessing for TLC. *)
EXTENDS MessageProcessing

CONSTANTS m1, m2, r1, r2

(* One run for one message; a run for each of two; two runs for one. *)
OneEach == [r \in Runs |-> IF r = r1 THEN m1 ELSE m2]
NoEdits == [m \in Messages |-> 0]
EditedOnce == [m \in Messages |-> IF m = m1 THEN 1 ELSE 0]
EditedTwice == [m \in Messages |-> IF m = m1 THEN 2 ELSE 0]
AllForOne == [r \in Runs |-> m1]
============================================================================
