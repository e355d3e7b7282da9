------------------------------ MODULE MCWebhook ------------------------------
(***************************************************************************)
(* An instance of WebhookDelivery for TLC: the platform's clock is ahead   *)
(* by more than the window.                                                *)
(***************************************************************************)
EXTENDS WebhookDelivery, TLC

CONSTANTS acme, other, here, there

TwoOrganizations == {acme, other}
TwoApps          == {here, there}

SameOrganization == Permutations(TwoOrganizations)

=============================================================================
