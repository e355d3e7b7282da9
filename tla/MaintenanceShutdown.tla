------------------------ MODULE MaintenanceShutdown ------------------------
(***************************************************************************)
(* The maintenance task of a client, the requests that renew beside it,    *)
(* and aclose: how asyncio cancellation travels through _refresh           *)
(* (client.py).  What a renewal does is CredentialRotation's subject; here *)
(* it is an operation that runs, and ends if its locks, its exchange and   *)
(* the host's callback let it.                                             *)
(*                                                                         *)
(* task.cancel() only asks: the task is interrupted when the loop next     *)
(* resumes it, and a task that waits for another task hands the            *)
(* cancellation on to it.  _refresh waits behind asyncio.shield first      *)
(* ("waiting", nothing is handed on) and, once interrupted, for the        *)
(* operation itself ("finishing", a second cancellation reaches it).       *)
(***************************************************************************)
EXTENDS Naturals, FiniteSets

CONSTANTS Requests,     \* tasks of the host that renew once: its requests
          Maintenance,  \* the task that _maintenance_task refers to
          Closers,      \* tasks of the host that call aclose
          Outcomes,     \* how an operation may end by itself
          Cancellable,  \* the host's tasks that may be cancelled from outside
          MaxCancels    \* bound: cancellations from outside

\* A result, a TapestryClientError, or any other exception (the model
\* validation, the JSON decoder, on_token_refresh).
AllOutcomes == {"ok", "failed", "broken"}

ASSUME TasksAssumption ==
  /\ Maintenance \notin Requests
  /\ IsFiniteSet(Closers)
  /\ Outcomes \subseteq AllOutcomes
  /\ Cancellable \subseteq Requests \cup Closers
  /\ MaxCancels \in Nat

Refreshers == Requests \cup {Maintenance}

VARIABLES
  place,       \* where each refresher is suspended
  ending,      \* how it ended
  op,          \* the operation it created: running, or how that ended
  asked,       \* tasks asked to stop, not yet resumed
  maintained,  \* _maintenance_task is not None
  closer,      \* where each aclose is
  open,        \* whether the owned transport is open
  cancels      \* cancellations from outside so far

vars == <<place, ending, op, asked, maintained, closer, open, cancels>>
closing == <<maintained, closer, open>>

TypeOK ==
  /\ place \in [Refreshers -> {"idle", "starting", "waiting", "finishing",
                               "sleeping", "ended"}]
  /\ ending \in [Refreshers -> {"none", "returned", "cancelled", "raised"}]
  /\ op \in [Refreshers -> {"none", "running", "cancelled"} \cup AllOutcomes]
  /\ asked \subseteq Refreshers
  /\ maintained \in BOOLEAN
  /\ closer \in [Closers -> {"idle", "joining", "closing", "closed", "raised"}]
  /\ open \in BOOLEAN
  /\ cancels \in Nat

Init ==
  /\ place = [t \in Refreshers |-> "idle"]
  /\ ending = [t \in Refreshers |-> "none"]
  /\ op = [t \in Refreshers |-> "none"]
  /\ asked = {}
  /\ maintained = FALSE
  /\ closer = [c \in Closers |-> "idle"]
  /\ open = TRUE
  /\ cancels = 0

-----------------------------------------------------------------------------
(* Helpers                                                                 *)

Done(t) == op[t] \notin {"none", "running"}
Live(t) == place[t] \notin {"idle", "ended"}

\* Refresher t goes to place p and has no operation any more.
Leave(t, p) ==
  /\ place' = [place EXCEPT ![t] = p]
  /\ op' = [op EXCEPT ![t] = "none"]

End(t, how) ==
  /\ Leave(t, "ended")
  /\ ending' = [ending EXCEPT ![t] = how]

\* Mutant: no shield, a cancellation goes straight on to the operation.
RefreshUnshielded(t) ==
  /\ place' = [place EXCEPT ![t] = "finishing"]
  /\ op' = [op EXCEPT ![t] = "running"]

\* _refresh creates the operation and waits for it behind a shield.
Refresh(t) ==
  /\ place' = [place EXCEPT ![t] = "waiting"]
  /\ op' = [op EXCEPT ![t] = "running"]

\* task.cancel(): asks t to stop, or what t waits for, if that can be reached.
\* An operation stops unless its callback takes the cancellation for itself, as
\* one does that called back into the client and waits behind a shield there.
Cancel(t) ==
  IF place[t] = "finishing" /\ op[t] = "running"
  THEN op' \in {op, [op EXCEPT ![t] = "cancelled"]} /\ UNCHANGED asked
  ELSE asked' = (IF Live(t) THEN asked \cup {t} ELSE asked) /\ UNCHANGED op

-----------------------------------------------------------------------------
(* Refreshers                                                              *)

\* The host starts maintenance before it closes the client.
StartMaintenance ==
  /\ ~maintained /\ open /\ \A c \in Closers : closer[c] = "idle"
  /\ maintained' = TRUE
  /\ place' = [place EXCEPT ![Maintenance] = "starting"]
  /\ UNCHANGED <<ending, op, asked, closer, open, cancels>>

\* The first step of the maintenance task, or the end of its sleep.
Renew ==
  /\ place[Maintenance] \in {"starting", "sleeping"} /\ Maintenance \notin asked
  /\ Refresh(Maintenance)
  /\ UNCHANGED <<ending, asked, closing, cancels>>

Request(t) ==
  /\ place[t] = "idle" /\ open
  /\ Refresh(t)
  /\ UNCHANGED <<ending, asked, closing, cancels>>

OperationEnds(t) ==
  /\ op[t] = "running"
  /\ \E o \in Outcomes : op' = [op EXCEPT ![t] = o]
  /\ UNCHANGED <<place, ending, asked, closing, cancels>>

\* Mutant: the outcome of the operation is handed on as it is.
GoOnRaw(t, o) == End(t, o)

\* How a refresher goes on after exception or result o: the loop logs the
\* library's own errors and sleeps; everything else leaves it.
GoOn(t, o) ==
  IF t = Maintenance /\ o \in {"ok", "failed"}
  THEN Leave(t, "sleeping") /\ UNCHANGED ending
  ELSE End(t, IF o = "ok" THEN "returned" ELSE "raised")

\* await asyncio.shield(operation) returns or raises.
Resume(t) ==
  /\ place[t] = "waiting" /\ Done(t) /\ t \notin asked
  /\ GoOn(t, op[t])
  /\ UNCHANGED <<asked, closing, cancels>>

\* Mutant: the cancelled caller does not stay for its operation.
InterruptLeaves(t) ==
  /\ place[t] = "waiting" /\ t \in asked
  /\ asked' = asked \ {t}
  /\ place' = [place EXCEPT ![t] = "ended"]
  /\ ending' = [ending EXCEPT ![t] = "cancelled"]
  /\ UNCHANGED <<op, closing, cancels>>

\* CancelledError at the shield: on to "await operation".
Interrupt(t) ==
  /\ place[t] = "waiting" /\ t \in asked
  /\ asked' = asked \ {t}
  /\ place' = [place EXCEPT ![t] = "finishing"]
  /\ UNCHANGED <<ending, op, closing, cancels>>

\* Mutant: CancelledError is not raised again.
FinishForgets(t) ==
  /\ place[t] = "finishing" /\ Done(t) /\ t \notin asked
  /\ IF op[t] = "cancelled" THEN End(t, "cancelled") ELSE GoOn(t, op[t])
  /\ UNCHANGED <<asked, closing, cancels>>

\* "finally: raise" raises what is being handled: the CancelledError after a
\* result, but the operation's own exception if it raised one.
Finish(t) ==
  /\ place[t] = "finishing" /\ Done(t) /\ t \notin asked
  /\ IF op[t] \in {"ok", "cancelled"} THEN End(t, "cancelled") ELSE GoOn(t, op[t])
  /\ UNCHANGED <<asked, closing, cancels>>

\* CancelledError where nothing handles it: before the first step, in the sleep,
\* or at "await operation" although the operation has ended.
Stop(t) ==
  /\ place[t] \in {"starting", "sleeping", "finishing"} /\ t \in asked
  /\ asked' = asked \ {t}
  /\ End(t, "cancelled")
  /\ UNCHANGED <<closing, cancels>>

-----------------------------------------------------------------------------
(* aclose, and the host                                                    *)

\* Mutant: the maintenance task is cancelled, not awaited.
CloseAtOnce(c) ==
  /\ closer[c] = "idle"
  /\ IF maintained THEN Cancel(Maintenance) ELSE UNCHANGED <<op, asked>>
  /\ closer' = [closer EXCEPT ![c] = "closing"]
  /\ UNCHANGED <<place, ending, maintained, open, cancels>>

BeginClose(c) ==
  /\ closer[c] = "idle"
  /\ IF maintained
     THEN Cancel(Maintenance) /\ closer' = [closer EXCEPT ![c] = "joining"]
     ELSE closer' = [closer EXCEPT ![c] = "closing"] /\ UNCHANGED <<op, asked>>
  /\ UNCHANGED <<place, ending, maintained, open, cancels>>

\* The maintenance task has ended: its CancelledError is suppressed, any other
\* exception leaves aclose.
Join(c) ==
  /\ closer[c] = "joining" /\ place[Maintenance] = "ended"
  /\ IF ending[Maintenance] = "cancelled"
     THEN maintained' = FALSE /\ closer' = [closer EXCEPT ![c] = "closing"]
     ELSE closer' = [closer EXCEPT ![c] = "raised"] /\ UNCHANGED maintained
  /\ UNCHANGED <<place, ending, op, asked, open, cancels>>

CloseTransport(c) ==
  /\ closer[c] = "closing"
  /\ closer' = [closer EXCEPT ![c] = "closed"]
  /\ open' = FALSE
  /\ UNCHANGED <<place, ending, op, asked, maintained, cancels>>

CancelRequest(t) ==
  /\ t \in Cancellable /\ Live(t) /\ cancels < MaxCancels
  /\ Cancel(t)
  /\ cancels' = cancels + 1
  /\ UNCHANGED <<place, ending, closing>>

\* A closer that waits hands its cancellation on to the maintenance task; if
\* that has ended the CancelledError is suppressed with the task's own end.
CancelCloser(c) ==
  /\ c \in Cancellable /\ closer[c] = "joining" /\ cancels < MaxCancels
  /\ cancels' = cancels + 1
  /\ IF Live(Maintenance)
     THEN Cancel(Maintenance) /\ UNCHANGED closing
     ELSE /\ maintained' = FALSE
          /\ closer' = [closer EXCEPT ![c] = "closing"]
          /\ UNCHANGED <<op, asked, open>>
  /\ UNCHANGED <<place, ending>>

-----------------------------------------------------------------------------
(* The specification                                                       *)

\* What the event loop runs as soon as it can.
Run(t) == Resume(t) \/ Interrupt(t) \/ Finish(t) \/ Stop(t)
Close(c) == Join(c) \/ CloseTransport(c)

Next ==
  \/ StartMaintenance \/ Renew
  \/ \E t \in Requests : Request(t) \/ CancelRequest(t)
  \/ \E t \in Refreshers : OperationEnds(t) \/ Run(t)
  \/ \E c \in Closers : BeginClose(c) \/ Close(c) \/ CancelCloser(c)

Spec == Init /\ [][Next]_vars

\* The loop resumes every task that can run, and a sleep ends.  An operation
\* need not: _refresh_lock has no timeout (client.py:339), and the callback of
\* the host is awaited for as long as it takes (client.py:376-378).
Fairness == /\ WF_vars(Renew)
            /\ \A t \in Refreshers : WF_vars(Run(t))
            /\ \A c \in Closers : WF_vars(Close(c))

FairSpec == Spec /\ Fairness

\* The host's callbacks, and so all operations, come to an end.
PromptSpec == FairSpec /\ \A t \in Refreshers : WF_vars(OperationEnds(t))

-----------------------------------------------------------------------------
(* Properties                                                              *)

\* Who has left _refresh has left no operation running (client.py:328-334):
\* a renewal never outlives the task that a shutdown waits for.
NoRenewalLeftBehind ==
  \A t \in Refreshers : op[t] = "running" => place[t] \in {"waiting", "finishing"}

\* The transport is not closed under a renewal of the maintenance task
\* (client.py:171-177: cancel, wait, then close).
TransportOutlivesMaintenance == ~open => op[Maintenance] # "running"

\* The shield of _refresh absorbs one cancellation (client.py:328-334): it
\* takes two closes or cancellations to stop a renewal of the maintenance task,
\* and two cancellations to stop one of a request.
OneCancellationSparesRenewal ==
  /\ op[Maintenance] = "cancelled" =>
       Cardinality({c \in Closers : closer[c] # "idle"}) + cancels >= 2
  /\ \A t \in Requests : op[t] = "cancelled" => cancels >= 2

\* The maintenance task has been cancelled and has not forgotten it.
Heard == Maintenance \in asked \/ place[Maintenance] \in {"finishing", "ended"}

\* The maintenance task hears of every close, and a step by which it forgets one
\* is the end, with an error of the library, of a renewal that was interrupted
\* (client.py:143-151, 171-175, 328-334).
CloseForgottenOnFailedRenewalOnly ==
  [][\A c \in Closers :
       closer'[c] = "joining" /\ (closer[c] = "joining" => Heard) =>
         Heard' \/ (place[Maintenance] = "finishing" /\ op[Maintenance] = "failed")]_vars

\* A close that waits for the maintenance task for ever has interrupted a
\* renewal that then failed, or waits for a renewal that never ends; any other
\* close comes to an end (client.py:171-177, 328-334).
CloseHangsOnRenewalOnly ==
  \A c \in Closers :
    <>[](closer[c] = "joining") =>
      \/ <>(place[Maintenance] = "finishing" /\ op[Maintenance] = "failed")
      \/ <>[](op[Maintenance] = "running")

\* aclose: "Close the underlying HTTP transport if the client owns it"
\* (client.py:169): once called, it closes it, if renewals come to an end.
CloseCloses == \A c \in Closers : closer[c] = "joining" ~> ~open

=============================================================================
