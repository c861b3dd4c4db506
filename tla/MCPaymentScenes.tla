--------------------------- MODULE MCPaymentScenes ---------------------------
(***************************************************************************)
(* Three scenes of PaymentCollection in one run: two attempts whose        *)
(* callbacks race and fail, and events are replayed while there is one;    *)
(* three attempts with nothing failing, where the escrow row can move      *)
(* between a handler's read of it and its write; and two attempts that     *)
(* somebody archives the post during, and nothing is replayed.             *)
(***************************************************************************)
EXTENDS MCPaymentCollection, FiniteSets

VARIABLE scene

Made == {a \in Attempt : tx'[a].status # "none"}

\* One delivery of a callback at a time.
CallbacksInTurn ==
  \A b \in Callback : pc'[b] # pc[b] => \A d \in Callback \ {b} : pc[d] = "idle"

ScenesInit == Init /\ scene \in {"callbacks", "attempts", "archive"}

ScenesNext ==
  /\ Next /\ UNCHANGED scene
  /\ scene # "attempts" => Cardinality(Made) <= 2
  /\ scene # "callbacks" => CallbacksInTurn
  /\ scene = "attempts" => faults' = faults
  /\ \A h \in Replay : pc'[h] # "idle" =>
       /\ scene # "archive"
       /\ scene = "callbacks" => Cardinality(Made) <= 1
  /\ \A d \in Archiver : scene # "archive" => pc'[d] = "idle"

ScenesSpec == ScenesInit /\ [][ScenesNext]_<<vars, scene>>
=============================================================================
