--------------------------- MODULE DurableRegister ---------------------------
(***************************************************************************)
(* What ServiceTokenStore promises: a register that is put as a whole, and *)
(* whose settled value the loss of power cannot take away.                 *)
(***************************************************************************)
EXTENDS Integers

VARIABLES value,    \* what a load finds; 0 is no record
          kept,     \* what it may find after a loss of power
          settled   \* the last value whose save returned

vars == <<value, kept, settled>>

Init == value = 0 /\ kept = {0} /\ settled = 0

\* A newer record takes the place of the old one, perhaps not for good yet.
Put == /\ value' > value
       /\ kept' = kept \cup {value'}
       /\ UNCHANGED settled

\* The save of the record in the register returns.
Settle == kept' = {value} /\ settled' = value /\ UNCHANGED value

PowerLoss == \E n \in kept : value' = n /\ kept' = {n} /\ UNCHANGED settled

Spec == Init /\ [][Put \/ Settle \/ PowerLoss]_vars

=============================================================================
