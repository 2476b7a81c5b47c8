--------------------------- MODULE MCCheckoutViews ---------------------------
(***************************************************************************)
(* Instances of CheckoutViews for TLC.  In a behaviour there is, besides   *)
(* the clients, one of: failures, the receipt loop (module MCCheckout has  *)
(* both at once), or somebody who looks on.  The deposit loop, which has   *)
(* no RPC client here, only expires: its passes without effect are         *)
(* skipped.                                                                *)
(***************************************************************************)
EXTENDS CheckoutViews, TLC

VARIABLE company

Callees == Permutations(Clients)

MCInit == company \in {"failures", "receipts", "viewers"} /\ ViewInit

MCNext ==
  /\ UNCHANGED company
  /\ ViewNext
  /\ pc'["deposits"] = "observe" => pc["deposits"] = "idle" /\ intent' # intent
  /\ company # "failures" => UNCHANGED faults
  /\ company # "receipts" => pc'["receipts"] = "idle"
  /\ company # "viewers" => UNCHANGED view

MCSpec == MCInit /\ [][MCNext]_<<viewVars, company>>
=============================================================================
