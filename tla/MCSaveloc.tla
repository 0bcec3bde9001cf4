------------------------------ MODULE MCSaveloc ------------------------------
(* An instance of Saveloc for TLC: one course without zones between its ends. *)
EXTENDS Saveloc

CONSTANTS main, spawn, field

OneCourse  == {main}
NoCps      == [c \in OneCourse |-> 0]
NoStages   == [c \in OneCourse |-> {}]
Places     == {spawn, field}
WholeTicks == {0}
==============================================================================
