------------------------------- MODULE MCFleet ------------------------------
(* Fleet on two machines of one kind: a tag tells them apart, written in   *)
(* one case on the machines and in the other in the entries.               *)
EXTENDS Fleet, TLC

MCLabel == {"os:linux", "tag:work", "tag:Work"}
MCLower == [l \in MCLabel |-> IF l = "tag:Work" THEN "tag:work" ELSE l]
MCOwn == [m \in Machine |-> {"os:linux"}]
MCTag == {"tag:work"}
MCChoices == {{"tag:Work"}}

MCSymmetry == Permutations(Machine) \cup Permutations(Data)
=============================================================================
