------------------------ MODULE MCPayoutSettlement --------------------------
(* Model values and symmetry for PayoutPromises.                           *)
EXTENDS PayoutPromises, TLC

CONSTANTS p1, p2, s1, s2, f1, r1, r2, k1, k2, t1, t2

Nobody == {}
OnePayer == {p1}
TwoPayers == {p1, p2}
OneSettle == {s1}
TwoSettles == {s1, s2}
OneFreeze == {f1}
OneRule == {r1}
TwoCases == {k1, k2}
TwoTransfers == {t1, t2}

Symmetry == Permutations(TwoTransfers) \cup Permutations(TwoSettles)
              \cup Permutations(TwoPayers)
=============================================================================
