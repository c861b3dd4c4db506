------------------------ MODULE MCPaymentCollection -------------------------
(* Model values and symmetry for PaymentCollection.                        *)
EXTENDS PaymentCollection, TLC

CONSTANTS c1, c2, b1, b2, h1, h2, d1, a1, a2, a3

Nobody == {}
OneClient == {c1}
TwoClients == {c1, c2}
OneCallback == {b1}
TwoCallbacks == {b1, b2}
OneTick == {h1}
TwoTicks == {h1, h2}
OneReplay == {h2}
OneArchiver == {d1}
TwoAttempts == {a1, a2}
ThreeAttempts == {a1, a2, a3}

Symmetry == Permutations(Attempt) \cup Permutations(TwoCallbacks)
              \cup Permutations(TwoClients)
=============================================================================
