------------------------------ MODULE MCTriggers ------------------------------
(* An instance of Triggers for TLC: a zone, a plain trigger, a teleport, a    *)
(* push with a filter that may be killed, and a push that a teleport cancels. *)
EXTENDS Triggers

CONSTANTS zone, push, boost, teleport, plain

All        == {zone, push, boost, teleport, plain}
Kinds      == [t \in All |-> CASE t = zone -> "zone" [] t = plain -> "plain"
                               [] t = teleport -> "teleport" [] OTHER -> "push"]
Conditions == [t \in All |-> CASE t = push -> {"start", "end", "jump"}
                               [] t = boost -> {"touch"} [] OTHER -> {}]
Delays     == [t \in All |-> IF t = boost THEN 1 ELSE 0]
Cooldowns  == [t \in All |-> IF t \in {push, boost} THEN 3 ELSE 0]
Overlapping == {{}, {zone, push}, {boost, plain}, {teleport}}
ThePush    == {push}
TheBoost   == {boost}
==============================================================================
