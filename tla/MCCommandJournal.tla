-------------------------- MODULE MCCommandJournal --------------------------
(* Small instances of the command pipeline. *)
EXTENDS CommandJournal, TLC

CONSTANTS a, b, n1, n2, p1, p2, w, e1, e2

BothIds     == (e1 :> a) @@ (e2 :> b)
BothIssued  == (e1 :> 0) @@ (e2 :> 1)
BothExpires == (e1 :> 1) @@ (e2 :> 2)

\* Two unrelated commands under one pin.
FreshNonces == (e1 :> n1) @@ (e2 :> n2)
FirstPin    == (e1 :> p1) @@ (e2 :> p1)

\* The Watch repeats a nonce under a second command id.
RepeatedNonces == (e1 :> n1) @@ (e2 :> n1)

\* The second command travels under the pin of a later pairing.
PinPerCommand == (e1 :> p1) @@ (e2 :> p2)

OnePinWatch == p1 :> w
OnePinTuple == p1 :> 1
TwoPinWatch == (p1 :> w) @@ (p2 :> w)
TwoPinTuple == (p1 :> 1) @@ (p2 :> 2)
=============================================================================
