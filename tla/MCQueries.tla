------------------------------ MODULE MCQueries ------------------------------
(* An instance of Queries for TLC: a map with one course and one without any. *)
EXTENDS Queries

CONSTANTS api, bare, tick128, p

TheModes  == <<tick128>>
OnePlayer == {p}
TwoMaps   == {api, bare}
Good      == [m \in TwoMaps |-> "good"]
Declared  == [m \in TwoMaps |-> IF m = api THEN <<[id |-> 1, name |-> "Main", target |-> "c1", hammer |-> 11]>> ELSE <<>>]
Nothing   == [m \in TwoMaps |-> <<>>]
Bonuses   == <<>>
KnownModes == {tick128}
==============================================================================
