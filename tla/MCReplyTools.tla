---------------------------- MODULE MCReplyTools ----------------------------
(* Instances of ReplyTools for TLC. *)
EXTENDS ReplyTools

CONSTANTS r1, r2, i1, i2, l1

Call(tool, texts, ids) ==
  [tool |-> tool, title |-> "shopping", texts |-> texts, ids |-> ids]

AddMilk == Call("add_list_items", <<"milk">>, {})
TickMilk == Call("complete", <<"milk">>, {})
Strike == Call("remove", <<>>, {i1, i2})
Read == Call("other", <<>>, {})

(* One reply ticks off what another adds and strikes out. *)
SomeAsks == {AddMilk, TickMilk, Strike, Read}
SomeTurns ==
  [r \in Replies |-> IF r = r1 THEN {<<TickMilk, Read>>}
                               ELSE {<<AddMilk>>, <<Strike>>}]

TwoForOne == [r \in Replies |-> IF r = r1 THEN 2 ELSE 1]
=============================================================================
