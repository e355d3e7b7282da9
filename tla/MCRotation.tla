----------------------------- MODULE MCRotation -----------------------------
(***************************************************************************)
(* Instances of CredentialRotation for TLC: worker a with two tasks (its   *)
(* maintenance loop and a request handler), worker b with one.             *)
(***************************************************************************)
EXTENDS CredentialRotation, TLC

CONSTANTS a, b, a1, a2, b1

TwoClients == {a, b}

ThreeTasks == {a1, a2, b1}
OneOfEach  == {a1, b1}

OwnerOfThree     == [t \in ThreeTasks |-> IF t = b1 THEN b ELSE a]
OwnerOfOneOfEach == [t \in OneOfEach |-> IF t = b1 THEN b ELSE a]

\* Left out of a run, because finding 1 starts from it: another worker takes the
\* file lock while a renewal is pending that is no newer than the file (after a
\* failed save of a no-op renewal, or a failed directory sync).  The worker's
\* own retry is not left out.
RetryComesFirst ==
  \A c \in Clients, t \in Tasks :
    pending[c] # NoRecord /\ pending[c].token <= file.token /\ pc[t] \in Critical
      => Owner[t] = c

\* Nor does the last credential of the run age: nothing could replace it.
LastIsFresh == MaxRotations \notin due

\* The tasks of one worker are interchangeable (safety runs only).
SameWorker == Permutations({a1, a2})

=============================================================================
