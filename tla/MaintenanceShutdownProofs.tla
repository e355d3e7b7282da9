--------------------- MODULE MaintenanceShutdownProofs ---------------------
(***************************************************************************)
(* Theorems about MaintenanceShutdown, for any number of requests and      *)
(* closers, any outcomes of the operations and any cancellations.          *)
(***************************************************************************)
EXTENDS MaintenanceShutdown, FiniteSetTheorems, TLAPS

\* Every variable always has its type.
LEMMA TypeStep == TypeOK /\ [Next]_vars => TypeOK'
<1> SUFFICES ASSUME TypeOK, [Next]_vars PROVE TypeOK'
  OBVIOUS
<1> USE TasksAssumption DEF TypeOK, Refreshers, AllOutcomes
<1>1. CASE StartMaintenance
  BY <1>1 DEF StartMaintenance
<1>2. CASE Renew
  BY <1>2 DEF Renew, Refresh, closing
<1>3. ASSUME NEW t \in Requests, Request(t) PROVE TypeOK'
  BY <1>3 DEF Request, Refresh, closing
<1>4. ASSUME NEW t \in Refreshers, Cancel(t)
      PROVE  /\ asked' \subseteq Refreshers
             /\ op' \in [Refreshers -> {"none", "running", "cancelled"} \cup AllOutcomes]
  BY <1>4 DEF Cancel
<1>5. ASSUME NEW t \in Requests, CancelRequest(t) PROVE TypeOK'
  BY <1>4, <1>5 DEF CancelRequest, closing
<1>6. ASSUME NEW t \in Refreshers, OperationEnds(t) PROVE TypeOK'
  BY <1>6 DEF OperationEnds, closing
<1>7. ASSUME NEW t \in Refreshers, Resume(t) \/ Finish(t) PROVE TypeOK'
  BY <1>7 DEF Resume, Finish, GoOn, Leave, End, closing
<1>8. ASSUME NEW t \in Refreshers, Interrupt(t) \/ Stop(t) PROVE TypeOK'
  BY <1>8 DEF Interrupt, Stop, Leave, End, closing
<1>9. ASSUME NEW c \in Closers, BeginClose(c) PROVE TypeOK'
  BY <1>4, <1>9 DEF BeginClose
<1>10. ASSUME NEW c \in Closers, Join(c) \/ CloseTransport(c) PROVE TypeOK'
  BY <1>10 DEF Join, CloseTransport
<1>11. ASSUME NEW c \in Closers, CancelCloser(c) PROVE TypeOK'
  <2>1. CASE Cancel(Maintenance) /\ UNCHANGED closing
    BY <1>4, <1>11, <2>1 DEF CancelCloser, closing
  <2>2. CASE /\ maintained' = FALSE
             /\ closer' = [closer EXCEPT ![c] = "closing"]
             /\ UNCHANGED <<op, asked, open>>
    <3>1. maintained' \in BOOLEAN /\ open' \in BOOLEAN
      BY <2>2, Zenon
    <3> QED
      BY <1>11, <2>2, <3>1 DEF CancelCloser
  <2> QED
    BY <1>11, <2>1, <2>2 DEF CancelCloser
<1>12. CASE UNCHANGED vars
  BY <1>12 DEF vars
<1> QED
  BY <1>1, <1>2, <1>3, <1>5, <1>6, <1>7, <1>8, <1>9, <1>10, <1>11, <1>12
  DEF Next, Run, Close

LEMMA TypeInit == Init => TypeOK
<1> SUFFICES ASSUME Init PROVE TypeOK
  OBVIOUS
<1>1. maintained \in BOOLEAN /\ open \in BOOLEAN
  BY Zenon DEF Init
<1> QED
  BY <1>1 DEF Init, TypeOK, AllOutcomes

-----------------------------------------------------------------------------
(* Nothing runs behind whoever waits for it                                *)

\* aclose comes to the transport when the maintenance task is over.
Joined ==
  \/ maintained /\ open /\ \A c \in Closers : closer[c] \notin {"closing", "closed"}
  \/ ~Live(Maintenance)

Orderly == TypeOK /\ NoRenewalLeftBehind /\ Joined

LEMMA OrderlyStep == Orderly /\ [Next]_vars => Orderly'
<1> SUFFICES ASSUME Orderly, [Next]_vars PROVE NoRenewalLeftBehind' /\ Joined'
  BY TypeStep DEF Orderly
<1> USE TasksAssumption DEF Orderly, TypeOK, Refreshers
<1> DEFINE Goal == NoRenewalLeftBehind' /\ Joined'
<1>1. CASE StartMaintenance
  BY <1>1 DEF StartMaintenance, NoRenewalLeftBehind, Joined, Live
<1>2. CASE Renew
  BY <1>2 DEF Renew, Refresh, closing, NoRenewalLeftBehind, Joined, Live
<1>3. ASSUME NEW t \in Requests, Request(t) PROVE Goal
  BY <1>3 DEF Request, Refresh, closing, NoRenewalLeftBehind, Joined, Live
<1>4. ASSUME NEW t \in Refreshers, Cancel(t), UNCHANGED place
      PROVE  NoRenewalLeftBehind' /\ Live(Maintenance)' = Live(Maintenance)
  BY <1>4 DEF Cancel, NoRenewalLeftBehind, Live
<1>5. ASSUME NEW t \in Requests, CancelRequest(t) PROVE Goal
  BY <1>4, <1>5 DEF CancelRequest, closing, Joined
<1>6. ASSUME NEW t \in Refreshers, OperationEnds(t) PROVE Goal
  BY <1>6 DEF OperationEnds, closing, AllOutcomes, NoRenewalLeftBehind, Joined, Live
<1>7. ASSUME NEW t \in Refreshers, NEW p \in {"sleeping", "ended"}, Leave(t, p),
             Live(t), UNCHANGED closing
      PROVE  Goal
  BY <1>7 DEF Leave, closing, NoRenewalLeftBehind, Joined, Live
<1>8. ASSUME NEW t \in Refreshers, Resume(t) \/ Finish(t) \/ Stop(t) PROVE Goal
  BY <1>7, <1>8 DEF Resume, Finish, Stop, GoOn, End, Live
<1>9. ASSUME NEW t \in Refreshers, Interrupt(t) PROVE Goal
  BY <1>9 DEF Interrupt, closing, NoRenewalLeftBehind, Joined, Live
<1>10. ASSUME NEW c \in Closers, BeginClose(c) PROVE Goal
  <2>1. CASE maintained
    BY <1>4, <1>10, <2>1 DEF BeginClose, Joined
  <2>2. CASE ~maintained
    BY <1>10, <2>2 DEF BeginClose, NoRenewalLeftBehind, Joined, Live
  <2> QED
    BY <2>1, <2>2
<1>11. ASSUME NEW c \in Closers, Join(c) \/ CloseTransport(c) PROVE Goal
  BY <1>11 DEF Join, CloseTransport, NoRenewalLeftBehind, Joined, Live
<1>12. ASSUME NEW c \in Closers, CancelCloser(c) PROVE Goal
  <2>1. CASE Live(Maintenance)
    BY <1>4, <1>12, <2>1 DEF CancelCloser, closing, Joined
  <2>2. CASE ~Live(Maintenance)
    BY <1>12, <2>2 DEF CancelCloser, NoRenewalLeftBehind, Joined, Live
  <2> QED
    BY <2>1, <2>2
<1>13. CASE UNCHANGED vars
  BY <1>13 DEF vars, NoRenewalLeftBehind, Joined, Live
<1> QED
  BY <1>1, <1>2, <1>3, <1>5, <1>6, <1>8, <1>9, <1>10, <1>11, <1>12, <1>13
  DEF Next, Run, Close

LEMMA AlwaysOrderly == Spec => []Orderly
<1>1. Init => Orderly
  <2>1. Init => NoRenewalLeftBehind /\ Joined
    BY DEF Init, NoRenewalLeftBehind, Joined, Live, Refreshers
  <2> QED
    BY <2>1, TypeInit DEF Orderly
<1> QED
  BY <1>1, OrderlyStep, PTL DEF Spec

THEOREM TypeCorrect == Spec => []TypeOK
BY TypeInit, TypeStep, PTL DEF Spec

\* A renewal never outlives the task that created it, however often that task
\* is cancelled.
THEOREM RenewalsAreAwaited == Spec => []NoRenewalLeftBehind
<1>1. Orderly => NoRenewalLeftBehind
  BY DEF Orderly
<1> QED
  BY <1>1, AlwaysOrderly, PTL

\* However many closes overlap, the transport is closed after the maintenance
\* task's renewal.
THEOREM TransportClosedLast == Spec => []TransportOutlivesMaintenance
<1>1. Orderly => TransportOutlivesMaintenance
  BY DEF Orderly, NoRenewalLeftBehind, Joined, Live, Refreshers,
         TransportOutlivesMaintenance
<1> QED
  BY <1>1, AlwaysOrderly, PTL

-----------------------------------------------------------------------------
(* What becomes of a close                                                 *)

\* The task that a close would wait for has been started.
TaskExists == maintained => place[Maintenance] # "idle"

LEMMA TaskExistsStep == TypeOK /\ TaskExists /\ [Next]_vars => TaskExists'
<1> SUFFICES ASSUME TypeOK, TaskExists, [Next]_vars PROVE TaskExists'
  OBVIOUS
<1> USE TasksAssumption DEF TypeOK, Refreshers, TaskExists
<1>1. ASSUME UNCHANGED <<maintained, place>> PROVE TaskExists'
  BY <1>1
<1>2. CASE StartMaintenance \/ Renew
  BY <1>2 DEF StartMaintenance, Renew, Refresh, closing
<1>3. ASSUME NEW t \in Requests, Request(t) PROVE TaskExists'
  BY <1>3 DEF Request, Refresh, closing
<1>4. ASSUME NEW t \in Refreshers, OperationEnds(t) \/ Run(t) PROVE TaskExists'
  BY <1>4 DEF Run, OperationEnds, Resume, Interrupt, Finish, Stop, GoOn, End, Leave, closing
<1>5. ASSUME NEW c \in Closers, Join(c) \/ CancelCloser(c) PROVE TaskExists'
  <2>1. UNCHANGED place /\ (maintained' = FALSE \/ maintained' = maintained)
    BY <1>5 DEF Join, CancelCloser, closing
  <2> QED
    BY <2>1
<1>6. ASSUME NEW c \in Closers, BeginClose(c) \/ CloseTransport(c) PROVE TaskExists'
  BY <1>1, <1>6 DEF BeginClose, CloseTransport
<1>7. ASSUME NEW t \in Requests, CancelRequest(t) PROVE TaskExists'
  BY <1>1, <1>7 DEF CancelRequest, closing
<1>8. CASE UNCHANGED vars
  BY <1>1, <1>8 DEF vars
<1> QED
  BY <1>2, <1>3, <1>4, <1>5, <1>6, <1>7, <1>8 DEF Next, Close

\* A task that is alive has heard of its cancellation when it has been asked.
LEMMA CancelIsHeard ==
  ASSUME TypeOK, Cancel(Maintenance), UNCHANGED place, place[Maintenance] # "idle"
  PROVE  Heard'
  BY TasksAssumption DEF Cancel, Live, Heard, TypeOK, Refreshers

\* The task's own steps forget a cancellation in one way only.
LEMMA RunHears ==
  ASSUME TypeOK, Heard, NEW t \in Refreshers, OperationEnds(t) \/ Run(t),
         ~(place[Maintenance] = "finishing" /\ op[Maintenance] = "failed")
  PROVE  Heard'
<1> USE TasksAssumption DEF TypeOK, Refreshers, Heard
<1>1. CASE OperationEnds(t)
  BY <1>1 DEF OperationEnds
<1>2. CASE Resume(t)
  BY <1>2 DEF Resume, GoOn, End, Leave
<1>3. CASE Interrupt(t)
  BY <1>3 DEF Interrupt
<1>4. CASE Finish(t)
  BY <1>4 DEF Finish, GoOn, End, Leave
<1>5. CASE Stop(t)
  BY <1>5 DEF Stop, End, Leave
<1> QED
  BY <1>1, <1>2, <1>3, <1>4, <1>5 DEF Run

\* A cancellation of any task is not a cancellation less of the maintenance task.
LEMMA CancelKeepsHeard ==
  ASSUME TypeOK, Heard, NEW t \in Refreshers, Cancel(t), UNCHANGED place
  PROVE  Heard'
  BY TasksAssumption DEF Cancel, Heard, TypeOK, Refreshers

Forgets == place[Maintenance] = "finishing" /\ op[Maintenance] = "failed"

LEMMA HeardStep ==
  ASSUME TypeOK, TaskExists, [Next]_vars, NEW c \in Closers,
         closer'[c] = "joining", closer[c] = "joining" => Heard
  PROVE  Heard' \/ Forgets
<1> USE TasksAssumption
<1>1. Maintenance \in Refreshers /\ Requests \subseteq Refreshers
  BY DEF Refreshers
<1>2. CASE closer[c] # "joining"
  <2>1. closer' # closer
    BY <1>2
  <2>2. PICK d \in Closers : BeginClose(d) \/ Close(d) \/ CancelCloser(d)
    BY <2>1 DEF Next, StartMaintenance, Renew, Request, CancelRequest, Run, OperationEnds,
                Resume, Interrupt, Finish, Stop, closing, vars
  <2>3. BeginClose(d) /\ maintained
    BY <1>2, <2>2 DEF BeginClose, Close, Join, CloseTransport, CancelCloser, closing, TypeOK
  <2> QED
    BY <2>3, CancelIsHeard DEF BeginClose, TaskExists
<1>3. CASE Heard
  <2>1. ASSUME UNCHANGED <<place, asked>> PROVE Heard'
    BY <1>3, <2>1 DEF Heard
  <2>2. ASSUME NEW d \in Closers, BeginClose(d) \/ CancelCloser(d) PROVE Heard'
    BY <1>1, <1>3, <2>1, <2>2, CancelKeepsHeard DEF BeginClose, CancelCloser
  <2>3. ASSUME NEW t \in Requests, CancelRequest(t) PROVE Heard'
    BY <1>1, <1>3, <2>3, CancelKeepsHeard DEF CancelRequest
  <2>4. ASSUME NEW t \in Requests, Request(t) PROVE Heard'
    BY <1>3, <2>4 DEF Request, Refresh, Heard, TypeOK, Refreshers
  <2>5. CASE Renew
    BY <1>3, <2>5 DEF Renew, Refresh, Heard
  <2>6. ~StartMaintenance
    BY <1>3 DEF StartMaintenance, TypeOK
  <2>7. ASSUME NEW t \in Refreshers, OperationEnds(t) \/ Run(t) PROVE Heard' \/ Forgets
    BY <1>3, <2>7, RunHears DEF Forgets
  <2>8. ASSUME NEW d \in Closers, Close(d) PROVE Heard'
    BY <2>1, <2>8 DEF Close, Join, CloseTransport
  <2> QED
    BY <2>1, <2>2, <2>3, <2>4, <2>5, <2>6, <2>7, <2>8 DEF Next, vars
<1> QED
  BY <1>2, <1>3

\* Of every close that waits the maintenance task knows, however many there are
\* and whatever else is cancelled, until an interrupted renewal fails with an
\* error of the library (client.py:143-151, 171-175, 328-334).
THEOREM ClosesAreHeard == Spec => CloseForgottenOnFailedRenewalOnly
<1>1. Init => TypeOK /\ TaskExists
  BY TypeInit DEF Init, TaskExists
<1>2. TypeOK /\ TaskExists /\ [Next]_vars => TypeOK' /\ TaskExists'
  BY TypeStep, TaskExistsStep
<1>3. TypeOK /\ TaskExists /\ [Next]_vars =>
        [\A c \in Closers :
           closer'[c] = "joining" /\ (closer[c] = "joining" => Heard) =>
             Heard' \/ (place[Maintenance] = "finishing" /\ op[Maintenance] = "failed")]_vars
  BY HeardStep DEF Forgets
<1> QED
  BY <1>1, <1>2, <1>3, PTL DEF Spec, CloseForgottenOnFailedRenewalOnly

-----------------------------------------------------------------------------
(* One cancellation is not enough to stop a renewal                        *)

Started == {c \in Closers : closer[c] # "idle"}
Effort  == Cardinality(Started) + cancels

\* Who is asked to stop, or has been, cost a close or a cancellation; an
\* operation that was stopped cost two.
EffortSpent ==
  /\ Maintenance \in asked \/ place[Maintenance] = "finishing" => Effort >= 1
  /\ op[Maintenance] = "cancelled" => Effort >= 2
  /\ \A t \in Requests :
       /\ t \in asked \/ place[t] = "finishing" => cancels >= 1
       /\ op[t] = "cancelled" => cancels >= 2

LEMMA EffortCounts ==
  /\ IsFiniteSet(Started)
  /\ Cardinality(Started) \in Nat
BY TasksAssumption, FS_Subset, FS_CardinalityType DEF Started

\* A cancellation of t that is paid for.
LEMMA CancelCounts ==
  ASSUME TypeOK, EffortSpent, NEW t \in Refreshers, Cancel(t), UNCHANGED place,
         cancels' \in Nat, cancels' >= cancels, Effort' \in Nat, Effort \in Nat,
         Effort' >= Effort,
         t = Maintenance => Effort' >= Effort + 1,
         t \in Requests => cancels' >= cancels + 1
  PROVE  EffortSpent'
<1>1. CASE /\ place[t] = "finishing" /\ UNCHANGED asked
           /\ op' = op \/ op' = [op EXCEPT ![t] = "cancelled"]
  BY <1>1, TasksAssumption DEF EffortSpent, TypeOK, Refreshers
<1>2. CASE asked' \subseteq asked \cup {t} /\ UNCHANGED op
  BY <1>2, TasksAssumption DEF EffortSpent, TypeOK, Refreshers
<1> QED
  BY <1>1, <1>2 DEF Cancel

\* Any other step of refresher t: it spends what was there already.
LEMMA StepSpends ==
  ASSUME TypeOK, EffortSpent, NEW t \in Refreshers, UNCHANGED <<Effort, cancels>>,
         asked' \subseteq asked,
         \A s \in Refreshers \ {t} : place'[s] = place[s] /\ op'[s] = op[s],
         place'[t] = "finishing" => place[t] = "finishing" \/ t \in asked,
         op'[t] = "cancelled" => op[t] = "cancelled"
  PROVE  EffortSpent'
<1>1. Maintenance \in Refreshers /\ Requests \subseteq Refreshers
  BY DEF Refreshers
<1>2. ASSUME NEW s \in Refreshers
      PROVE  /\ place'[s] = "finishing" => place[s] = "finishing" \/ s \in asked
             /\ op'[s] = "cancelled" => op[s] = "cancelled"
             /\ s \in asked' => s \in asked
  OBVIOUS
<1> QED
  BY <1>1, <1>2 DEF EffortSpent

LEMMA EffortStep == TypeOK /\ EffortSpent /\ [Next]_vars => EffortSpent'
<1> SUFFICES ASSUME TypeOK, EffortSpent, [Next]_vars PROVE EffortSpent'
  OBVIOUS
<1> USE TasksAssumption
<1>1. Cardinality(Started) \in Nat /\ cancels \in Nat /\ Effort \in Nat
  BY EffortCounts DEF Effort, TypeOK
<1>2. ASSUME UNCHANGED <<closer, cancels>> PROVE UNCHANGED <<Effort, cancels>>
  BY <1>2 DEF Effort, Started
<1>3. ASSUME NEW c \in Closers, NEW p \in {"joining", "closing", "closed", "raised"},
             closer[c] # "idle", closer' = [closer EXCEPT ![c] = p]
      PROVE  Cardinality(Started)' = Cardinality(Started)
  <2>1. Started' = Started
    BY <1>3 DEF Started, TypeOK
  <2> QED
    BY <2>1
<1>4. ASSUME NEW c \in Closers, NEW p \in {"joining", "closing"},
             closer[c] = "idle", closer' = [closer EXCEPT ![c] = p]
      PROVE  Cardinality(Started)' = Cardinality(Started) + 1
  <2>1. Started' = Started \cup {c} /\ c \notin Started
    BY <1>4 DEF Started, TypeOK
  <2> QED
    BY <2>1, EffortCounts, FS_AddElement
<1>5. CASE StartMaintenance
  BY <1>2, <1>5, StepSpends DEF StartMaintenance, TypeOK, Refreshers
<1>6. CASE Renew
  BY <1>2, <1>6, StepSpends DEF Renew, Refresh, closing, TypeOK, Refreshers
<1>7. ASSUME NEW t \in Requests, Request(t) PROVE EffortSpent'
  BY <1>2, <1>7, StepSpends DEF Request, Refresh, closing, TypeOK, Refreshers
<1>8. ASSUME NEW t \in Requests, CancelRequest(t) PROVE EffortSpent'
  <2>1. t \in Refreshers /\ Cancel(t) /\ UNCHANGED <<place, closer>>
        /\ cancels' = cancels + 1
    BY <1>8 DEF CancelRequest, closing, Refreshers
  <2>2. Effort' = Effort + 1 /\ cancels' \in Nat /\ t # Maintenance
    BY <1>1, <1>8, <2>1 DEF Effort, Started
  <2> QED
    BY <1>1, <2>1, <2>2, CancelCounts
<1>9. ASSUME NEW t \in Refreshers, OperationEnds(t) PROVE EffortSpent'
  BY <1>2, <1>9, StepSpends DEF OperationEnds, closing, TypeOK, AllOutcomes
<1>10. ASSUME NEW t \in Refreshers, Resume(t) \/ Finish(t) PROVE EffortSpent'
  BY <1>2, <1>10, StepSpends DEF Resume, Finish, GoOn, End, Leave, closing, TypeOK
<1>11. ASSUME NEW t \in Refreshers, Interrupt(t) \/ Stop(t) PROVE EffortSpent'
  BY <1>2, <1>11, StepSpends DEF Interrupt, Stop, End, Leave, closing, TypeOK
<1>12. ASSUME NEW c \in Closers, BeginClose(c) PROVE EffortSpent'
  <2>1. /\ Cardinality(Started)' = Cardinality(Started) + 1
        /\ UNCHANGED <<place, cancels>>
    BY <1>4, <1>12 DEF BeginClose
  <2>2. Effort' = Effort + 1
    BY <1>1, <2>1 DEF Effort
  <2>3. CASE maintained
    BY <1>1, <1>12, <2>1, <2>2, <2>3, CancelCounts DEF BeginClose, Refreshers
  <2>4. CASE ~maintained
    BY <1>1, <1>12, <2>1, <2>2, <2>4 DEF BeginClose, EffortSpent
  <2> QED
    BY <2>3, <2>4
<1>13. ASSUME NEW c \in Closers, Join(c) \/ CloseTransport(c) PROVE EffortSpent'
  <2>1. /\ Cardinality(Started)' = Cardinality(Started)
        /\ UNCHANGED <<place, op, asked, cancels>>
    BY <1>3, <1>13 DEF Join, CloseTransport
  <2> QED
    BY <2>1 DEF EffortSpent, Effort
<1>14. ASSUME NEW c \in Closers, CancelCloser(c) PROVE EffortSpent'
  <2>1. Cardinality(Started)' = Cardinality(Started)
    <3>1. CASE Live(Maintenance)
      BY <1>14, <3>1 DEF CancelCloser, closing, Started
    <3>2. CASE ~Live(Maintenance)
      BY <1>3, <1>14, <3>2 DEF CancelCloser
    <3> QED
      BY <3>1, <3>2
  <2>2. cancels' = cancels + 1 /\ Effort' = Effort + 1 /\ UNCHANGED place
    BY <1>1, <1>14, <2>1 DEF CancelCloser, Effort
  <2>3. CASE Live(Maintenance)
    BY <1>1, <1>14, <2>2, <2>3, CancelCounts DEF CancelCloser, Refreshers
  <2>4. CASE ~Live(Maintenance)
    BY <1>1, <1>14, <2>2, <2>4 DEF CancelCloser, EffortSpent
  <2> QED
    BY <2>3, <2>4
<1>15. CASE UNCHANGED vars
  BY <1>2, <1>15 DEF vars, EffortSpent
<1> QED
  BY <1>5, <1>6, <1>7, <1>8, <1>9, <1>10, <1>11, <1>12, <1>13, <1>14, <1>15
  DEF Next, Run, Close

\* A single close, or a single cancellation, never stops a renewal.
THEOREM OneCancellationIsNotEnough == Spec => []OneCancellationSparesRenewal
<1>1. Init => EffortSpent
  BY TasksAssumption DEF Init, EffortSpent, Refreshers
<1>2. EffortSpent => OneCancellationSparesRenewal
  BY DEF EffortSpent, OneCancellationSparesRenewal, Effort, Started
<1> QED
  BY <1>1, <1>2, TypeCorrect, EffortStep, PTL DEF Spec

=============================================================================
