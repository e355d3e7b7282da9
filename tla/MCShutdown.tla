----------------------------- MODULE MCShutdown -----------------------------
(***************************************************************************)
(* Instances of MaintenanceShutdown for TLC.                               *)
(***************************************************************************)
EXTENDS MaintenanceShutdown

CONSTANTS r1, c1, c2

OneRequest  == {r1}
OneCloser   == {c1}
TwoClosers  == {c1, c2}
Nobody      == {}
Everybody   == OneRequest \cup TwoClosers

=============================================================================
