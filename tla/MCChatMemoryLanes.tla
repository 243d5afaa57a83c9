------------------------- MODULE MCChatMemoryLanes -------------------------
(* Instances of ChatMemoryLanes for TLC. *)
EXTENDS ChatMemoryLanes

CONSTANTS c1, c2, c3, chatA

(* Background calls of one chat, enough to fill the lane behind a stuck    *)
(* function, and a call for any queue of the chat, or of none.             *)
CrowdedBackground ==
  [c \in Calls |->
     IF c = c3 THEN Dests ELSE {<<chatA, "background">>}]
============================================================================
