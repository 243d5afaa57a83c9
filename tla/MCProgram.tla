----------------------------- MODULE MCProgram -----------------------------
EXTENDS Program, Sequences, SequencesExt

CONSTANTS a, a__b, web

(* "a" has tools t and b__t; "a__b" has t and x: both know an a__b__t. *)
Parts(s) == CASE s = a -> <<"a">> [] s = a__b -> <<"a", "b">> [] s = web -> <<"web">>
Lists(s) == CASE s = a -> {<<"t">>, <<"b", "t">>} [] s = a__b -> {<<"t">>, <<"x">>} [] s = web -> {}
AllTools == {<<"t">>, <<"b", "t">>, <<"x">>}

Ranks == [s \in Servers |-> CASE s = a -> 1 [] s = a__b -> 2 [] s = web -> 3]
OffersOf == [s \in Servers |-> Lists(s)]
NamesOf == [st \in Servers \X AllTools |-> Parts(st[1]) \o st[2]]
PrefixedBy ==
  [s \in Servers |->
     {n \in {NamesOf[st] : st \in Servers \X AllTools} :
        Len(n) > Len(Parts(s)) /\ IsPrefix(Parts(s), n)}]
MatchingOf == [s \in Servers |-> OffersOf[s] \cap {<<"b", "t">>}]

(* Each server has a good entry or none; one of them may have a good       *)
(* entry with one field changed.                                           *)
Bare == [f \in Fields |-> IF f = "id" THEN "good" ELSE ""]
Good(s) ==
  CASE s = a -> [Bare EXCEPT !["type"] = "stdio", !["command"] = "good", !["env"] = "good"]
    [] s = a__b -> [Bare EXCEPT !["type"] = "sse", !["url"] = "good"]
    [] s = web -> [Bare EXCEPT !["type"] = "openrouter_tool", !["tool"] = "good", !["tasks"] = "good"]
Spoilt(s) ==
  {Good(s)} \cup {[Good(s) EXCEPT ![f] = v] : f \in Fields, v \in {"", "blank", "bad", "good"}}
FilesOf ==
  UNION {{[s \in ids |-> IF s = x THEN e ELSE Good(s)] : ids \in SUBSET Servers, e \in Spoilt(x)} :
           x \in Servers}
=============================================================================
