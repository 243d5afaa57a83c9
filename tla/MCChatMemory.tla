---------------------------- MODULE MCChatMemory ----------------------------
(* A chat A of two people and the bot, and a chat B of one of them.  In A  *)
(* the second message answers the first, and so does the bot, half a       *)
(* second later than the second was sent.                                  *)
EXTENDS ChatMemory, TLC

CONSTANTS m1, m2, o1, m3, ann, bob, bot, A, B

TwoChats == (m1 :> A) @@ (m2 :> A) @@ (o1 :> A) @@ (m3 :> B)
Times == (m1 :> 10) @@ (m2 :> 20) @@ (o1 :> 25) @@ (m3 :> 20)
Writers == (m1 :> ann) @@ (m2 :> bob) @@ (o1 :> bot) @@ (m3 :> ann)
Answers == (m1 :> None) @@ (m2 :> m1) @@ (o1 :> m1) @@ (m3 :> None)
BotAnswers == (m1 :> o1) @@ (m2 :> None) @@ (o1 :> None) @@ (m3 :> None)
OneEdit == (m1 :> 1) @@ (m2 :> 0) @@ (o1 :> 0) @@ (m3 :> 0)
=============================================================================
