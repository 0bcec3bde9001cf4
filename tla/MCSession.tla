------------------------------ MODULE MCSession ------------------------------
(* An instance of Session for TLC. *)
EXTENDS Session

CONSTANTS p, q, tick128, source, slow, fast

OnePlayer  == {p}
TwoPlayers == {p, q}
TwoModes   == {tick128, source}
TwoStyles  == <<slow, fast>>
Clash      == (slow :> {fast}) @@ (fast :> {slow})
NoStyles   == <<>>
\* p has preferences in both stores, and they differ.
InDatabase == [x \in Players |-> IF x = p THEN [preferredMode |-> source, preferredStyles |-> <<slow>>] ELSE NoPrefs]
InApi      == [x \in Players |-> IF x = p THEN [preferredMode |-> tick128, preferredStyles |-> <<fast>>] ELSE NoPrefs]
==============================================================================
