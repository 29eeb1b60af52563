--------------------------- MODULE SingleUseGrant ---------------------------
(***************************************************************************)
(* What the approval boundary promises for every binding (one immutable    *)
(* decision snapshot in one runtime mode): a human grant is spent once,    *)
(* and that one spend ends in at most one draft pack.                      *)
(***************************************************************************)
EXTENDS Naturals

CONSTANT Bindings

VARIABLES
  stage,       \* stage[b]: how far the one permitted use of b got
  packCount    \* packCount[b]: draft packs b led to

grantVars == <<stage, packCount>>

Init ==
  /\ stage = [b \in Bindings |-> "open"]
  /\ packCount = [b \in Bindings |-> 0]

Spend(b) ==
  /\ stage[b] = "open"
  /\ stage' = [stage EXCEPT ![b] = "working"]
  /\ UNCHANGED packCount

Deliver(b) ==
  /\ stage[b] = "working"
  /\ stage' = [stage EXCEPT ![b] = "delivered"]
  /\ packCount' = [packCount EXCEPT ![b] = @ + 1]

Fail(b) ==
  /\ stage[b] = "working"
  /\ stage' = [stage EXCEPT ![b] = "failed"]
  /\ UNCHANGED packCount

Next == \E b \in Bindings : Spend(b) \/ Deliver(b) \/ Fail(b)

Spec == Init /\ [][Next]_grantVars
=============================================================================
