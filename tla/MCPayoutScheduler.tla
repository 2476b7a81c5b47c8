------------------------ MODULE MCPayoutScheduler ------------------------
(* Instances of PayoutScheduler for TLC. *)
EXTENDS PayoutScheduler, TLC

CONSTANTS i1, i2

\* Two intents of one merchant on one chain and token.
OneGroup == {{i1, i2}}

\* Two intents that are paid out separately.
TwoGroups == {{i1}, {i2}}

\* A single intent.
SingleGroup == {{i1}}

Replicas == Permutations(Workers)
==========================================================================
