--------------------------- MODULE CredentialChain ---------------------------
(***************************************************************************)
(* What the workers of an installation promise about the one credential    *)
(* they share, whoever renews it and whatever fails on the way: a          *)
(* replacement is issued only when the credential it supersedes is in the  *)
(* private file, and the file only ever takes the issuer's last one.       *)
(***************************************************************************)
EXTENDS Integers

VARIABLES issued,  \* the last credential the issuer made; 0 is the seed
          stored   \* the credential in the file, -1 while there is none

Init == issued = 0 /\ stored = -1

Issue == stored = issued /\ issued' = issued + 1 /\ UNCHANGED stored

Store == stored # issued /\ stored' = issued /\ UNCHANGED issued

Spec == Init /\ [][Issue \/ Store]_<<issued, stored>>

=============================================================================
