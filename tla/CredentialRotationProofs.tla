---------------------- MODULE CredentialRotationProofs ----------------------
(***************************************************************************)
(* Theorems about CredentialRotation, for every set of workers and tasks,  *)
(* every combination of hazards and every bound.                           *)
(***************************************************************************)
EXTENDS CredentialRotation, TLAPS

-----------------------------------------------------------------------------
(* Types                                                                   *)

\* The types of the values that the actions compute.
LEMMA StoredType ==
  ASSUME TypeOK, NEW c \in Clients
  PROVE  Stored(c) \in Record
BY DEF TypeOK, Stored, Record

LEMMA WireType ==
  ASSUME TypeOK, NEW S \in SUBSET Tasks, Hangup(S)
  PROVE  wire' \in [Tasks -> Message \cup {Silent}] /\ late' \subseteq Nat
<1>1. \A t \in Tasks : wire[t].token \in Nat
  BY DEF TypeOK, Message, Silent
<1>2. late' \subseteq Nat
  BY <1>1 DEF TypeOK, Hangup, Abandoned
<1>3. wire' \in [Tasks -> Message \cup {Silent}]
  BY DEF TypeOK, Hangup
<1> QED
  BY <1>2, <1>3

LEMMA ReleaseType ==
  ASSUME TypeOK, NEW t \in Tasks, Release(t)
  PROVE  /\ refreshLock' \in [Clients -> Tasks \cup {NoTask}]
         /\ fileLock' \in Tasks \cup {NoTask}
BY ConstantsAssumption DEF TypeOK, Release

\* A failed attempt to save leaves a record or the old contents in the file.
LEMMA SaveFailsType ==
  ASSUME TypeOK, NEW r \in Record, SaveFails(r)
  PROVE  file' \in Record \cup {NoRecord} /\ faults' \in Nat
BY DEF TypeOK, SaveFails, Strike

\* Every variable keeps its type, whichever step is taken.
LEMMA TypeStep == TypeOK /\ [Next]_vars => TypeOK'
<1> SUFFICES ASSUME TypeOK, [Next]_vars PROVE TypeOK'
  OBVIOUS
<1> USE ConstantsAssumption
<1>1. ASSUME NEW t \in Tasks, NEW k \in {"force", "maybe", "call"}, Start(t, k)
      PROVE  TypeOK'
  BY <1>1 DEF TypeOK, Start, GoTo, Kinds, Places, issuer, memory, locks
<1>2. ASSUME NEW t \in Tasks, StartStatus(t) PROVE TypeOK'
  BY <1>2, StoredType DEF TypeOK, StartStatus, GoTo, Kinds, Places, issuer, locks
<1>3. ASSUME NEW t \in Tasks, TakeRefreshLock(t) PROVE TypeOK'
  BY <1>3 DEF TypeOK, TakeRefreshLock, GoTo, Places, issuer, memory
<1>4. ASSUME NEW t \in Tasks, TakeFileLock(t) PROVE TypeOK'
  BY <1>4 DEF TypeOK, TakeFileLock, GoTo, Places, issuer, memory
<1>5. ASSUME NEW t \in Tasks, FileLockFails(t) PROVE TypeOK'
  BY <1>5, ReleaseType
  DEF TypeOK, FileLockFails, Strike, Abort, GoTo, Places, issuer, memory
<1>6. ASSUME NEW t \in Tasks, PersistPending(t) PROVE TypeOK'
  <2> DEFINE c == Owner[t]
  <2>1. pending[c] \in Record
    BY <1>6 DEF TypeOK, PersistPending
  <2>2. CASE Persisted(c, pending[c]) /\ UNCHANGED <<pc, locks>>
    BY <1>6, <2>1, <2>2 DEF TypeOK, PersistPending, Persisted, locks, issuer
  <2>3. CASE PersistFails(c, pending[c]) /\ Abort(t)
    BY <1>6, <2>1, <2>3, ReleaseType, SaveFailsType
    DEF TypeOK, PersistPending, PersistFails, Abort, GoTo, Places, issuer
  <2> QED
    BY <1>6, <2>2, <2>3 DEF PersistPending
<1>7. ASSUME NEW t \in Tasks, LoadStored(t) PROVE TypeOK'
  <2>1. CASE NeedsRenewal(kind[t], Stored(Owner[t]))
    BY <1>7, <2>1, StoredType DEF TypeOK, LoadStored, GoTo, Places, issuer, locks
  <2>2. CASE ~NeedsRenewal(kind[t], Stored(Owner[t]))
    BY <1>7, <2>2, StoredType, ReleaseType
    DEF TypeOK, LoadStored, Return, GoTo, Places, issuer
  <2> QED
    BY <2>1, <2>2
<1>8. ASSUME NEW t \in Tasks, LoadFails(t) PROVE TypeOK'
  BY <1>8, ReleaseType
  DEF TypeOK, LoadFails, Strike, Abort, GoTo, Places, issuer, memory
<1>9. ASSUME NEW t \in Tasks, VerifyStorage(t) PROVE TypeOK'
  <2> DEFINE r == mem[Owner[t]]
  <2>1. r \in Record
    BY DEF TypeOK
  <2>2. CASE /\ file' = r
             /\ wire' = [wire EXCEPT ![t] = Msg("request", r.token)]
             /\ GoTo(t, "sent")
             /\ UNCHANGED <<locks, faults>>
    BY <1>9, <2>1, <2>2
    DEF TypeOK, VerifyStorage, GoTo, Places, Msg, Message, Record, issuer, memory, locks
  <2>3. CASE SaveFails(r) /\ Abort(t) /\ UNCHANGED wire
    BY <1>9, <2>1, <2>3, ReleaseType, SaveFailsType
    DEF TypeOK, VerifyStorage, Abort, GoTo, Places, issuer, memory
  <2> QED
    BY <1>9, <2>2, <2>3 DEF VerifyStorage
<1>10. ASSUME NEW t \in Tasks, TakeReply(t) PROVE TypeOK'
  <2> DEFINE c == Owner[t]
             r == Renewed(wire[t].token)
  <2>1. r \in Record
    BY <1>10 DEF TypeOK, TakeReply, Renewed, Record, Message, Silent
  <2>2. CASE Persisted(c, r) /\ GoTo(t, "hook") /\ UNCHANGED locks
    BY <1>10, <2>1, <2>2
    DEF TypeOK, TakeReply, Persisted, GoTo, Places, locks, issuer
  <2>3. CASE PersistFails(c, r) /\ Abort(t)
    BY <1>10, <2>1, <2>3, ReleaseType, SaveFailsType
    DEF TypeOK, TakeReply, PersistFails, Abort, GoTo, Places, issuer
  <2> QED
    BY <1>10, <2>2, <2>3 DEF TakeReply
<1>11. ASSUME NEW t \in Tasks, TakeError(t) PROVE TypeOK'
  BY <1>11, ReleaseType DEF TypeOK, TakeError, Abort, GoTo, Places, issuer, memory
<1>12. ASSUME NEW t \in Tasks, RunHook(t) PROVE TypeOK'
  BY <1>12, ReleaseType DEF TypeOK, RunHook, Return, GoTo, Places, issuer, memory
<1>13. ASSUME NEW t \in Tasks, HookFails(t) PROVE TypeOK'
  BY <1>13, ReleaseType
  DEF TypeOK, HookFails, Strike, Abort, GoTo, Places, issuer, memory
<1>14. ASSUME NEW t \in Tasks, ExchangeFails(t) PROVE TypeOK'
  BY <1>14, ReleaseType, WireType
  DEF TypeOK, ExchangeFails, Strike, Abort, GoTo, Places, issuer, memory
<1>15. ASSUME NEW t \in Tasks, Cancelled(t) PROVE TypeOK'
  BY <1>15, ReleaseType, WireType
  DEF TypeOK, Cancelled, Strike, Abort, GoTo, Places, issuer, memory
<1>16. ASSUME NEW t \in Tasks, SendCall(t) PROVE TypeOK'
  BY <1>16
  DEF TypeOK, SendCall, GoTo, Places, Msg, Message, Record, issuer, memory, locks
<1>17. ASSUME NEW t \in Tasks, EndCall(t) PROVE TypeOK'
  BY <1>17 DEF TypeOK, EndCall, GoTo, Places, issuer, memory, locks
<1>18. ASSUME NEW t \in Tasks, Serve(t) PROVE TypeOK'
  <2>1. ASSUME NEW m \in Message, Answer(t, m), current' \in Nat, UNCHANGED due,
               faults' \in Nat
        PROVE  TypeOK'
    BY <2>1 DEF TypeOK, Answer, memory, locks
  <2>2. /\ Msg("reply", current + 1) \in Message
        /\ Msg("reply", current) \in Message
        /\ Msg("error", 0) \in Message
        /\ current + 1 \in Nat
    BY DEF TypeOK, Msg, Message
  <2>3. CASE Rotate(t)
    BY <2>1, <2>2, <2>3 DEF Rotate, TypeOK
  <2>4. CASE KeepFresh(t)
    BY <2>1, <2>2, <2>4 DEF KeepFresh, TypeOK, issuer
  <2>5. CASE RejectSuperseded(t)
    BY <2>1, <2>2, <2>5 DEF RejectSuperseded, TypeOK, issuer
  <2>6. CASE Refuse(t)
    <3>1. faults' \in Nat
      BY <2>6 DEF Refuse, Strike, TypeOK
    <3> QED
      BY <2>1, <2>2, <2>6, <3>1 DEF Refuse, TypeOK, issuer
  <2> QED
    BY <1>18, <2>3, <2>4, <2>5, <2>6 DEF Serve
<1>19. ASSUME NEW c \in Clients, Crash(c) PROVE TypeOK'
  BY <1>19, WireType
  DEF TypeOK, Crash, Strike, Seed, Record, Places, issuer
<1>20. ASSUME NEW c \in Clients, Restart(c) PROVE TypeOK'
  BY <1>20, StoredType DEF TypeOK, Restart, issuer, locks
<1>21. ASSUME NEW n \in late, ArriveLate(n) PROVE TypeOK'
  BY <1>21 DEF TypeOK, ArriveLate, memory, locks
<1>22. ASSUME NEW n \in 0 .. current, Age(n) PROVE TypeOK'
  BY <1>22 DEF TypeOK, Age, memory, locks
<1>23. ASSUME NEW t \in Tasks, FileLockTimesOut(t) PROVE TypeOK'
  BY <1>23, ReleaseType DEF TypeOK, FileLockTimesOut, Abort, GoTo, Places, issuer, memory
<1>24. ASSUME NEW t \in Tasks, HookReenters(t) PROVE TypeOK'
  BY <1>24 DEF TypeOK, HookReenters, Strike, GoTo, Places, issuer, memory, locks
<1>25. CASE UNCHANGED vars
  BY <1>25 DEF TypeOK, vars
<1> QED
  BY <1>1, <1>2, <1>3, <1>4, <1>5, <1>6, <1>7, <1>8, <1>9, <1>10, <1>11, <1>12,
     <1>13, <1>14, <1>15, <1>16, <1>17, <1>18, <1>19, <1>20, <1>21, <1>22, <1>23,
     <1>24, <1>25
  DEF Next, TaskStep, Advance, Fail

\* Every variable always has its type.
THEOREM TypeCorrect == Spec => []TypeOK
<1>1. Init => TypeOK
  BY ConstantsAssumption
  DEF Init, TypeOK, Record, NoRecord, Seed, Silent, Places, Kinds
<1> QED
  BY <1>1, TypeStep, PTL DEF Spec

-----------------------------------------------------------------------------
(* The inductive invariant behind the promise of CredentialChain           *)

\* Whoever is between the two ends of the file lock's block holds it.
LockHeld == \A t \in Tasks : pc[t] \in Critical => fileLock = t

\* The conditions under which the promise is proved.  A failed save leaves an
\* older pending renewal behind only if it failed after os.replace, or if the
\* renewal was a no-op; with one worker nobody moves the file on before the
\* pending renewal is saved again.
PlainFaults == "dirsync" \notin Hazards /\ ~({"save", "noop"} \subseteq Hazards)
OneWorker   == \A c, d \in Clients : c = d
SafeStorage == PlainFaults \/ OneWorker

FileWithin == file.token <= current /\ (file = NoRecord => current = 0)

MemoryStored == \A c \in Clients : mem[c].token = 0 \/ mem[c].token <= file.token

\* One renewal at a time is pending.  It is the issuer's last one and the file
\* is behind it, with no newer answer on its way; or the file holds it already.
\* Its client does not renew before it is saved.
PendingAhead ==
  \A c \in Clients : pending[c] # NoRecord =>
    /\ file # NoRecord
    /\ \/ /\ pending[c].token = current /\ file.token < current
          /\ \A t \in Tasks : wire[t].kind = "reply" => wire[t].token = file.token
       \/ pending[c].token = file.token /\ ~PlainFaults
    /\ \A t \in Tasks : Owner[t] = c => pc[t] \notin {"verify", "sent"}
    /\ \A d \in Clients : pending[d] # NoRecord => d = c

\* The credential about to be verified is the one in the file, if there is one.
VerifyStored ==
  \A t \in Tasks : pc[t] = "verify" /\ file # NoRecord
                     => mem[Owner[t]].token = file.token

\* A request presents the stored credential; its answer is that credential or
\* the one that supersedes it.
RequestStored ==
  \A t \in Tasks : wire[t].kind = "request" =>
    pc[t] = "sent" /\ wire[t].token = file.token

ReplyAhead ==
  \A t \in Tasks : wire[t].kind = "reply" =>
    /\ pc[t] = "sent" /\ file # NoRecord
    /\ \/ wire[t].token = current /\ file.token < current
       \/ wire[t].token = file.token /\ "noop" \in Hazards

LateStored == \A n \in late : n <= file.token

CallStored ==
  \A t \in Tasks : wire[t].kind = "call" =>
    wire[t].token = 0 \/ wire[t].token <= file.token

Promise == /\ FileWithin /\ MemoryStored /\ PendingAhead
           /\ VerifyStored /\ RequestStored /\ ReplyAhead
           /\ LateStored /\ CallStored

IInv == TypeOK /\ LockHeld /\ Promise

-----------------------------------------------------------------------------
(* Mutual exclusion                                                        *)

\* A task that leaves both blocks gives up the file lock, and its place.
LEMMA LeavingKeepsLock ==
  ASSUME TypeOK, LockHeld, NEW t \in Tasks, NEW p \in Places \ Critical,
         Release(t), GoTo(t, p)
  PROVE  LockHeld'
<1> SUFFICES ASSUME NEW s \in Tasks, pc'[s] \in Critical PROVE fileLock' = s
  BY DEF LockHeld
<1>1. s # t /\ pc[s] \in Critical
  BY DEF GoTo, TypeOK
<1>2. fileLock = s
  BY <1>1 DEF LockHeld
<1> QED
  BY <1>1, <1>2 DEF Release

\* A task that stays between the two ends of the block keeps the file lock.
LEMMA StayingKeepsLock ==
  ASSUME TypeOK, LockHeld, NEW t \in Tasks, UNCHANGED fileLock,
         NEW p \in Places, p \in Critical => pc[t] \in Critical, GoTo(t, p)
  PROVE  LockHeld'
BY DEF TypeOK, LockHeld, GoTo

LEMMA LockStep == TypeOK /\ LockHeld /\ [Next]_vars => LockHeld'
<1> SUFFICES ASSUME TypeOK, LockHeld, [Next]_vars PROVE LockHeld'
  OBVIOUS
<1> USE ConstantsAssumption
<1>1. CASE UNCHANGED <<pc, fileLock>>
  BY <1>1 DEF LockHeld
<1>2. ASSUME NEW t \in Tasks, NEW k \in {"force", "maybe", "call"}, Start(t, k)
      PROVE  LockHeld'
  BY <1>2, StayingKeepsLock DEF Start, Places, Critical, locks
<1>3. ASSUME NEW t \in Tasks, StartStatus(t) PROVE LockHeld'
  BY <1>3, StayingKeepsLock DEF StartStatus, Places, Critical, locks
<1>4. ASSUME NEW t \in Tasks, TakeRefreshLock(t) PROVE LockHeld'
  BY <1>4, StayingKeepsLock DEF TakeRefreshLock, Places, Critical
<1>5. ASSUME NEW t \in Tasks, TakeFileLock(t) PROVE LockHeld'
  <2>1. \A s \in Tasks : pc[s] \notin Critical
    BY <1>5 DEF TakeFileLock, FileLockFree, LockHeld
  <2> QED
    BY <1>5, <2>1 DEF TakeFileLock, GoTo, LockHeld, TypeOK
<1>6. ASSUME NEW t \in Tasks, Fail(t) PROVE LockHeld'
  <2>1. CASE HookReenters(t)
    BY <2>1, StayingKeepsLock DEF HookReenters, locks, Places, Critical
  <2>2. CASE ~HookReenters(t)
    BY <1>6, <2>2, LeavingKeepsLock
    DEF Fail, FileLockFails, FileLockTimesOut, LoadFails, HookFails, ExchangeFails,
        Cancelled, Abort, Places, Critical
  <2> QED
    BY <2>1, <2>2
<1>7. ASSUME NEW t \in Tasks, PersistPending(t) PROVE LockHeld'
  BY <1>1, <1>7, LeavingKeepsLock DEF PersistPending, Abort, locks, Places, Critical
<1>8. ASSUME NEW t \in Tasks, LoadStored(t) PROVE LockHeld'
  <2>1. CASE GoTo(t, "verify") /\ UNCHANGED locks
    BY <1>8, <2>1, StayingKeepsLock DEF LoadStored, locks, Places, Critical
  <2>2. CASE Return(t)
    BY <1>8, <2>2, LeavingKeepsLock DEF Return, Places, Critical
  <2> QED
    BY <1>8, <2>1, <2>2 DEF LoadStored
<1>9. ASSUME NEW t \in Tasks, VerifyStorage(t) PROVE LockHeld'
  BY <1>9, LeavingKeepsLock, StayingKeepsLock
  DEF VerifyStorage, Abort, locks, Places, Critical
<1>10. ASSUME NEW t \in Tasks, TakeReply(t) PROVE LockHeld'
  BY <1>10, LeavingKeepsLock, StayingKeepsLock
  DEF TakeReply, Abort, locks, Places, Critical
<1>11. ASSUME NEW t \in Tasks, TakeError(t) PROVE LockHeld'
  BY <1>11, LeavingKeepsLock DEF TakeError, Abort, Places, Critical
<1>12. ASSUME NEW t \in Tasks, RunHook(t) PROVE LockHeld'
  BY <1>12, LeavingKeepsLock DEF RunHook, Return, Places, Critical
<1>13. ASSUME NEW t \in Tasks, SendCall(t) PROVE LockHeld'
  BY <1>13, StayingKeepsLock DEF SendCall, locks, Places, Critical
<1>14. ASSUME NEW t \in Tasks, EndCall(t) PROVE LockHeld'
  BY <1>14, StayingKeepsLock DEF EndCall, locks, Places, Critical
<1>15. ASSUME NEW t \in Tasks, Serve(t) PROVE LockHeld'
  BY <1>1, <1>15
  DEF Serve, Rotate, KeepFresh, RejectSuperseded, Refuse, Answer, locks
<1>16. ASSUME NEW c \in Clients, Crash(c) PROVE LockHeld'
  BY <1>16 DEF Crash, LockHeld, Critical, TypeOK
<1>17. ASSUME NEW c \in Clients, Restart(c) PROVE LockHeld'
  BY <1>1, <1>17 DEF Restart, locks
<1>18. ASSUME NEW n \in late, ArriveLate(n) PROVE LockHeld'
  BY <1>1, <1>18 DEF ArriveLate, locks
<1>19. ASSUME NEW n \in 0 .. current, Age(n) PROVE LockHeld'
  BY <1>1, <1>19 DEF Age, locks
<1>20. CASE UNCHANGED vars
  BY <1>1, <1>20 DEF vars
<1> QED
  BY <1>2, <1>3, <1>4, <1>5, <1>6, <1>7, <1>8, <1>9, <1>10, <1>11, <1>12, <1>13,
     <1>14, <1>15, <1>16, <1>17, <1>18, <1>19, <1>20
  DEF Next, TaskStep, Advance

\* In the whole installation one task at a time is inside the file lock's block,
\* whatever fails and whoever is cancelled or dies.
THEOREM RenewalsAreSerialized == Spec => []RenewalsSerialized
<1>1. Init => LockHeld
  BY DEF Init, LockHeld, Critical
<1>2. LockHeld => RenewalsSerialized
  BY DEF LockHeld, RenewalsSerialized
<1> QED
  BY <1>1, <1>2, TypeCorrect, LockStep, PTL DEF Spec

-----------------------------------------------------------------------------
(* The promise of CredentialChain                                          *)

\* What the types say of the tokens in the state.
LEMMA Tokens ==
  ASSUME TypeOK
  PROVE  /\ current \in Nat
         /\ file.token \in Int /\ file.token >= -1
         /\ file = NoRecord <=> file.token = -1
         /\ \A c \in Clients : mem[c].token \in Nat
         /\ \A c \in Clients : pending[c] # NoRecord => pending[c].token \in Nat
         /\ \A t \in Tasks : wire[t].token \in Nat /\ Owner[t] \in Clients
BY ConstantsAssumption DEF TypeOK, Record, NoRecord, Message, Silent

\* A task may go anywhere but to "verify" and "sent" when it is not waiting for
\* an answer.
LEMMA MovesAside ==
  ASSUME TypeOK, Promise, NEW t \in Tasks, pc[t] # "sent",
         NEW p \in Places \ {"verify", "sent"}, GoTo(t, p),
         UNCHANGED <<current, file, mem, pending, wire, late>>
  PROVE  Promise'
<1>1. \A s \in Tasks : pc'[s] \in {"verify", "sent"} <=> pc[s] \in {"verify", "sent"} /\ s # t
  BY DEF TypeOK, GoTo
<1>2. \A s \in Tasks : s # t => pc'[s] = pc[s]
  BY DEF TypeOK, GoTo
<1>3. FileWithin' /\ MemoryStored' /\ LateStored' /\ CallStored'
  BY DEF Promise, FileWithin, MemoryStored, LateStored, CallStored
<1>4. PendingAhead'
  BY <1>1, <1>2 DEF Promise, PendingAhead
<1>5. VerifyStored'
  BY <1>1, <1>2 DEF Promise, VerifyStored
<1>6. RequestStored' /\ ReplyAhead'
  BY <1>1, <1>2 DEF Promise, RequestStored, ReplyAhead
<1> QED
  BY <1>3, <1>4, <1>5, <1>6 DEF Promise

\* Reading the file back: memory moves forward, up to the file.
LEMMA StoredForward ==
  ASSUME TypeOK, Promise, NEW c \in Clients
  PROVE  /\ Stored(c).token >= mem[c].token
         /\ Stored(c).token = 0 \/ Stored(c).token <= file.token
         /\ pending[c] = NoRecord /\ file # NoRecord => Stored(c).token = file.token
         /\ Stored(c).token = mem[c].token \/ Stored(c).token = file.token
BY Tokens DEF Stored, Promise, MemoryStored

\* The file takes record r while task t is in the block and has stopped
\* waiting for its answer.
LEMMA FileMoves ==
  ASSUME TypeOK, TypeOK', LockHeld, Promise, SafeStorage,
         NEW t \in Tasks, pc[t] \in Critical,
         NEW r \in Record, file' = r, file.token <= r.token, r.token <= current,
         r.token = current \/ r.token = file.token,
         UNCHANGED <<current, late>>,
         NEW p \in Places \ {"verify", "sent"}, GoTo(t, p),
         \A s \in Tasks : wire'[s] = wire[s] \/ wire'[s] = Silent,
         pc[t] = "sent" => wire'[t] = Silent
  PROVE  /\ FileWithin' /\ VerifyStored' /\ RequestStored' /\ ReplyAhead'
         /\ LateStored' /\ CallStored'
<1>1. \A s \in Tasks : pc'[s] \notin {"verify", "sent"}
  BY DEF TypeOK, GoTo, LockHeld, Critical
<1>2. \A s \in Tasks : pc[s] = "sent" => s = t
  BY DEF LockHeld, Critical
<1>3. \A s \in Tasks : wire'[s].kind \notin {"request", "reply"}
  <2> SUFFICES ASSUME NEW s \in Tasks PROVE wire'[s].kind \notin {"request", "reply"}
    OBVIOUS
  <2>1. CASE wire'[s] = Silent
    BY <2>1 DEF Silent
  <2>2. CASE wire'[s] # Silent
    <3>1. wire'[s] = wire[s] /\ pc[s] # "sent"
      BY <1>2, <2>2
    <3> QED
      BY <3>1 DEF Promise, RequestStored, ReplyAhead
  <2> QED
    BY <2>1, <2>2
<1>4. file'.token = r.token /\ r.token \in Nat /\ file' # NoRecord
  BY DEF Record, NoRecord
<1>5. FileWithin'
  BY <1>4 DEF FileWithin
<1>6. VerifyStored' /\ RequestStored' /\ ReplyAhead'
  BY <1>1, <1>3 DEF VerifyStored, RequestStored, ReplyAhead
<1>7. LateStored'
  BY <1>4, Tokens DEF Promise, LateStored, TypeOK
<1>8. CallStored'
  BY <1>4, Tokens DEF Promise, CallStored, TypeOK, Silent
<1> QED
  BY <1>5, <1>6, <1>7, <1>8

\* A task gives up or ends its exchange, on its way out of the block.
LEMMA HangsUp ==
  ASSUME TypeOK, Promise, NEW S \in SUBSET Tasks, Hangup(S),
         UNCHANGED <<current, file, mem, pending>>,
         \A s \in Tasks : pc'[s] = pc[s] \/ (s \in S /\ pc'[s] = "idle")
  PROVE  Promise'
<1>1. \A s \in Tasks : wire'[s] = wire[s] \/ wire'[s] = Silent
  BY DEF Hangup
<1>2. \A s \in Tasks : wire'[s].kind \in {"request", "reply", "call"} =>
        wire'[s] = wire[s] /\ s \notin S /\ pc'[s] = pc[s]
  BY DEF Hangup, Silent
<1>3. \A s \in Tasks : pc'[s] \in {"verify", "sent"} => pc'[s] = pc[s]
  OBVIOUS
<1>4. FileWithin' /\ MemoryStored'
  BY DEF Promise, FileWithin, MemoryStored
<1>5. PendingAhead'
  BY <1>2, <1>3 DEF Promise, PendingAhead
<1>6. VerifyStored'
  BY <1>3 DEF Promise, VerifyStored
<1>7. RequestStored' /\ ReplyAhead'
  BY <1>2 DEF Promise, RequestStored, ReplyAhead
<1>8. CallStored'
  BY <1>2 DEF Promise, CallStored
<1>9. LateStored'
  <2>1. \A n \in Abandoned(S) : n <= file.token
    BY Tokens DEF Abandoned, Promise, RequestStored
  <2> QED
    BY <2>1 DEF Hangup, Promise, LateStored
<1> QED
  BY <1>4, <1>5, <1>6, <1>7, <1>8, <1>9 DEF Promise

LEMMA StatusKeepsPromise ==
  ASSUME TypeOK, Promise, NEW t \in Tasks, StartStatus(t)
  PROVE  Promise'
<1> DEFINE c == Owner[t]
<1>1. c \in Clients /\ pc' = [pc EXCEPT ![t] = "checked"] /\ pc[t] = "idle"
  BY Tokens DEF StartStatus, GoTo
<1>2. mem'[c] = Stored(c) /\ \A d \in Clients \ {c} : mem'[d] = mem[d]
  BY <1>1 DEF StartStatus, TypeOK
<1>3. UNCHANGED <<current, file, pending, wire, late>>
  BY DEF StartStatus, issuer
<1>4. \A s \in Tasks : pc'[s] \in {"verify", "sent"} <=> pc[s] \in {"verify", "sent"}
  BY <1>1 DEF TypeOK
<1>5. \A s \in Tasks : s # t => pc'[s] = pc[s]
  BY <1>1 DEF TypeOK
<1>6. MemoryStored'
  BY <1>1, <1>2, <1>3, StoredForward DEF Promise, MemoryStored
<1>7. VerifyStored'
  BY <1>1, <1>2, <1>3, <1>4, <1>5, StoredForward, Tokens DEF Promise, VerifyStored
<1>8. PendingAhead'
  BY <1>3, <1>4 DEF Promise, PendingAhead
<1>9. RequestStored' /\ ReplyAhead'
  BY <1>1, <1>3, <1>5 DEF Promise, RequestStored, ReplyAhead
<1>10. FileWithin' /\ LateStored' /\ CallStored'
  BY <1>3 DEF Promise, FileWithin, LateStored, CallStored
<1> QED
  BY <1>6, <1>7, <1>8, <1>9, <1>10 DEF Promise

LEMMA LoadKeepsPromise ==
  ASSUME TypeOK, Promise, NEW t \in Tasks, LoadStored(t)
  PROVE  Promise'
<1> DEFINE c == Owner[t]
<1>1. c \in Clients /\ pc[t] = "locked" /\ pending[c] = NoRecord
  BY Tokens DEF LoadStored
<1>2. mem'[c] = Stored(c) /\ \A d \in Clients \ {c} : mem'[d] = mem[d]
  BY <1>1 DEF LoadStored, TypeOK
<1>3. UNCHANGED <<current, file, pending, wire, late>>
  BY DEF LoadStored, issuer
<1>4. PICK p \in {"verify", "checked", "idle"} : pc' = [pc EXCEPT ![t] = p]
  BY DEF LoadStored, Return, GoTo
<1>5. \A s \in Tasks : s # t => pc'[s] = pc[s]
  BY <1>4 DEF TypeOK
<1>6. pc'[t] # "sent"
  BY <1>4 DEF TypeOK
<1>7. MemoryStored'
  BY <1>1, <1>2, <1>3, StoredForward DEF Promise, MemoryStored
<1>8. VerifyStored'
  BY <1>1, <1>2, <1>3, <1>5, StoredForward, Tokens DEF Promise, VerifyStored
<1>9. PendingAhead'
  BY <1>1, <1>3, <1>5 DEF Promise, PendingAhead
<1>10. RequestStored' /\ ReplyAhead'
  BY <1>1, <1>3, <1>5 DEF Promise, RequestStored, ReplyAhead
<1>11. FileWithin' /\ LateStored' /\ CallStored'
  BY <1>3 DEF Promise, FileWithin, LateStored, CallStored
<1> QED
  BY <1>7, <1>8, <1>9, <1>10, <1>11 DEF Promise

\* The issuer answers, or makes its next credential for a sender that is gone.
LEMMA AnswerKeepsPromise ==
  ASSUME TypeOK, LockHeld, Promise, NEW t \in Tasks, Serve(t)
  PROVE  Promise'
<1>1. /\ pc[t] = "sent" /\ wire[t].token = file.token /\ file # NoRecord
      /\ UNCHANGED <<file, mem, pending, pc, late>>
      /\ \A s \in Tasks \ {t} : wire'[s] = wire[s]
  BY Tokens
  DEF Serve, Rotate, KeepFresh, RejectSuperseded, Refuse, Answer, memory, locks,
      TypeOK, Promise, RequestStored
<1>2. \A s \in Tasks \ {t} : wire[s].kind \notin {"request", "reply"}
  BY <1>1 DEF LockHeld, Critical, Promise, RequestStored, ReplyAhead
<1>3. \/ /\ wire'[t] = Msg("reply", current') /\ file.token = current
         /\ current' = current + 1
      \/ /\ wire'[t] = Msg("reply", file.token) /\ "noop" \in Hazards
         /\ current' = current
      \/ wire'[t] = Msg("error", 0) /\ current' = current
  BY <1>1
  DEF Serve, Rotate, KeepFresh, RejectSuperseded, Refuse, Answer, TypeOK, issuer
<1>4. FileWithin'
  BY <1>1, <1>3, Tokens DEF Promise, FileWithin
<1>5. PendingAhead'
  <2> SUFFICES ASSUME NEW c \in Clients, pending[c] # NoRecord
               PROVE  /\ \/ /\ pending[c].token = current' /\ file.token < current'
                            /\ \A s \in Tasks : wire'[s].kind = "reply"
                                 => wire'[s].token = file.token
                         \/ pending[c].token = file.token /\ ~PlainFaults
    BY <1>1 DEF Promise, PendingAhead
  <2>1. CASE pending[c].token = current /\ file.token < current
    BY <1>1, <1>2, <1>3, <2>1, Tokens DEF Msg
  <2>2. CASE pending[c].token = file.token /\ ~PlainFaults
    BY <2>2
  <2> QED
    BY <2>1, <2>2 DEF Promise, PendingAhead
<1>6. RequestStored'
  BY <1>1, <1>2, <1>3 DEF RequestStored, Msg
<1>7. ReplyAhead'
  BY <1>1, <1>2, <1>3, Tokens DEF ReplyAhead, Msg
<1>8. CallStored'
  BY <1>1, <1>3 DEF Promise, CallStored, Msg
<1>9. MemoryStored' /\ VerifyStored' /\ LateStored'
  BY <1>1 DEF Promise, MemoryStored, VerifyStored, LateStored
<1> QED
  BY <1>4, <1>5, <1>6, <1>7, <1>8, <1>9 DEF Promise

LEMMA LateKeepsPromise ==
  ASSUME TypeOK, Promise, NEW n \in late, ArriveLate(n)
  PROVE  Promise'
<1>1. UNCHANGED <<file, mem, pending, pc, wire>> /\ late' \subseteq late
  BY DEF ArriveLate, memory
<1>2. CASE UNCHANGED current
  BY <1>1, <1>2
  DEF Promise, FileWithin, MemoryStored, PendingAhead, VerifyStored, RequestStored,
      ReplyAhead, LateStored, CallStored
<1>3. CASE n = current /\ current' = current + 1
  <2>1. file.token = current
    BY <1>3, Tokens DEF Promise, LateStored, FileWithin
  <2>2. FileWithin'
    BY <1>1, <1>3, <2>1, Tokens DEF FileWithin
  <2>3. PendingAhead'
    BY <1>1, <1>3, <2>1, Tokens DEF Promise, PendingAhead
  <2>4. ReplyAhead'
    BY <1>1, <1>3, <2>1, Tokens DEF Promise, ReplyAhead
  <2>5. MemoryStored' /\ VerifyStored' /\ RequestStored' /\ LateStored' /\ CallStored'
    BY <1>1
    DEF Promise, MemoryStored, VerifyStored, RequestStored, LateStored, CallStored
  <2> QED
    BY <2>2, <2>3, <2>4, <2>5 DEF Promise
<1> QED
  BY <1>2, <1>3 DEF ArriveLate

\* _persist_refresh of record r, on the way out of the exchange or before it.
LEMMA PersistKeepsPromise ==
  ASSUME TypeOK, TypeOK', LockHeld, Promise, SafeStorage,
         NEW t \in Tasks, pc[t] \in Critical, file # NoRecord,
         NEW r \in Record,
         \/ /\ r.token = current /\ file.token < current
            /\ \A d \in Clients : pending[d] # NoRecord => d = Owner[t]
         \/ r.token = file.token /\ ("noop" \in Hazards \/ ~PlainFaults),
         Persisted(Owner[t], r) \/ PersistFails(Owner[t], r),
         UNCHANGED <<current, late>>,
         NEW p \in Places \ {"verify", "sent"}, GoTo(t, p),
         \A s \in Tasks : wire'[s] = wire[s] \/ wire'[s] = Silent,
         pc[t] = "sent" => wire'[t] = Silent
  PROVE  Promise'
<1> DEFINE c == Owner[t]
<1>1. c \in Clients /\ file.token <= r.token /\ r.token <= current
      /\ (r.token = current \/ r.token = file.token)
  BY Tokens DEF Promise, FileWithin
<1>2. \A s \in Tasks : pc'[s] \notin {"verify", "sent"}
  BY DEF TypeOK, GoTo, LockHeld, Critical
<1>3. \A s \in Tasks : wire'[s].kind \notin {"request", "reply"}
  <2> SUFFICES ASSUME NEW s \in Tasks, wire'[s] # Silent
               PROVE  wire'[s].kind \notin {"request", "reply"}
    BY DEF Silent
  <2>1. wire'[s] = wire[s] /\ pc[s] # "sent"
    BY DEF LockHeld, Critical
  <2> QED
    BY <2>1 DEF Promise, RequestStored, ReplyAhead
<1>4. ASSUME file' = r
      PROVE  /\ FileWithin' /\ VerifyStored' /\ RequestStored' /\ ReplyAhead'
             /\ LateStored' /\ CallStored'
  BY <1>1, <1>4, FileMoves
<1>5. ASSUME UNCHANGED file
      PROVE  /\ FileWithin' /\ VerifyStored' /\ RequestStored' /\ ReplyAhead'
             /\ LateStored' /\ CallStored'
  <2>1. FileWithin' /\ LateStored'
    BY <1>5 DEF Promise, FileWithin, LateStored
  <2>2. VerifyStored' /\ RequestStored' /\ ReplyAhead'
    BY <1>2, <1>3 DEF VerifyStored, RequestStored, ReplyAhead
  <2>3. CallStored'
    BY <1>5 DEF Promise, CallStored, Silent
  <2> QED
    BY <2>1, <2>2, <2>3
<1>6. CASE Persisted(c, r)
  <2>1. file' = r /\ file'.token = r.token /\ file' # NoRecord
    BY <1>6 DEF Persisted, Record, NoRecord
  <2>2. MemoryStored'
    BY <1>1, <1>6, <2>1, Tokens DEF Persisted, Promise, MemoryStored, TypeOK
  <2>3. PendingAhead'
    <3>1. \A d \in Clients : pending'[d] # NoRecord => pending'[d] = pending[d] /\ d # c
      BY <1>1, <1>6 DEF Persisted, TypeOK
    <3>2. ASSUME NEW d \in Clients, pending'[d] # NoRecord PROVE r.token = file.token
      BY <3>1, <3>2
    <3> QED
      BY <1>2, <1>3, <2>1, <3>1, <3>2 DEF Promise, PendingAhead
  <2> QED
    BY <1>4, <2>1, <2>2, <2>3 DEF Promise
<1>7. CASE PersistFails(c, r)
  <2>1. /\ pending'[c] = r /\ r # NoRecord /\ UNCHANGED mem
        /\ \A d \in Clients \ {c} : pending'[d] = pending[d]
    BY <1>1, <1>7 DEF PersistFails, TypeOK, Record, NoRecord
  <2>2. \/ UNCHANGED file /\ "save" \in Hazards
        \/ file' = r /\ file'.token = r.token /\ file' # NoRecord /\ ~PlainFaults
    BY <1>7 DEF PersistFails, SaveFails, Strike, PlainFaults, Record, NoRecord
  <2>3. MemoryStored'
    BY <1>1, <2>1, <2>2, Tokens DEF Promise, MemoryStored
  <2>4. \A d \in Clients : pending'[d] # NoRecord => d = c
    BY <2>1, <2>2, <1>1 DEF SafeStorage, PlainFaults, OneWorker, Promise, PendingAhead
  <2>5. PendingAhead'
    <3>1. file' # NoRecord
      BY <2>2
    <3>2. \/ r.token = current' /\ file'.token < current'
          \/ r.token = file'.token /\ ~PlainFaults
      BY <2>2 DEF PlainFaults
    <3> QED
      BY <1>2, <1>3, <2>1, <2>4, <3>1, <3>2 DEF PendingAhead
  <2> QED
    BY <1>4, <1>5, <2>2, <2>3, <2>5 DEF Promise
<1> QED
  BY <1>6, <1>7

LEMMA RetryKeepsPromise ==
  ASSUME TypeOK, TypeOK', LockHeld, Promise, SafeStorage,
         NEW t \in Tasks, PersistPending(t)
  PROVE  Promise'
<1> DEFINE c == Owner[t]
           r == pending[c]
<1>1. /\ c \in Clients /\ r # NoRecord /\ pc[t] = "locked"
      /\ UNCHANGED <<current, wire, late>>
  BY Tokens DEF PersistPending, issuer
<1>2. r \in Record
  BY <1>1 DEF TypeOK
<1>3. /\ file # NoRecord
      /\ \/ /\ r.token = current /\ file.token < current
            /\ \A d \in Clients : pending[d] # NoRecord => d = c
         \/ r.token = file.token /\ ~PlainFaults
  BY <1>1 DEF Promise, PendingAhead
<1>4. Persisted(c, r) \/ PersistFails(c, r)
  BY DEF PersistPending
<1>5. PICK p \in {"locked", "idle"} : GoTo(t, p)
  BY <1>1 DEF PersistPending, Abort, GoTo, TypeOK
<1>6. p \in Places \ {"verify", "sent"} /\ pc[t] \in Critical /\ pc[t] # "sent"
  BY <1>1 DEF Places, Critical
<1> QED
  BY <1>1, <1>2, <1>3, <1>4, <1>5, <1>6, PersistKeepsPromise

LEMMA ReplyKeepsPromise ==
  ASSUME TypeOK, TypeOK', LockHeld, Promise, SafeStorage,
         NEW t \in Tasks, TakeReply(t)
  PROVE  Promise'
<1> DEFINE c == Owner[t]
           r == Renewed(wire[t].token)
<1>1. /\ pc[t] = "sent" /\ wire[t].kind = "reply" /\ wire' = [wire EXCEPT ![t] = Silent]
      /\ UNCHANGED <<current, late>>
  BY DEF TakeReply, issuer
<1>2. r \in Record /\ r.token = wire[t].token
  BY Tokens DEF Renewed, Record
<1>3. /\ file # NoRecord
      /\ \/ /\ r.token = current /\ file.token < current
            /\ \A d \in Clients : pending[d] # NoRecord => d = c
         \/ r.token = file.token /\ "noop" \in Hazards
  <2>1. /\ file # NoRecord
        /\ \/ r.token = current /\ file.token < current
           \/ r.token = file.token /\ "noop" \in Hazards
    BY <1>1, <1>2 DEF Promise, ReplyAhead
  <2>2. ASSUME r.token = current, file.token < current,
               NEW d \in Clients, pending[d] # NoRecord
        PROVE  d = c
    <3>1. wire[t].token # file.token
      BY <1>2, <2>2, Tokens
    <3>2. ~PlainFaults
      BY <1>1, <2>2, <3>1 DEF Promise, PendingAhead
    <3> QED
      BY <2>2, <3>2, Tokens DEF SafeStorage, OneWorker
  <2> QED
    BY <2>1, <2>2
<1>4. Persisted(c, r) \/ PersistFails(c, r)
  BY DEF TakeReply
<1>5. PICK p \in {"hook", "idle"} : GoTo(t, p)
  BY DEF TakeReply, Abort
<1>6. p \in Places \ {"verify", "sent"} /\ pc[t] \in Critical
  BY <1>1 DEF Places, Critical
<1>7. /\ \A s \in Tasks : wire'[s] = wire[s] \/ wire'[s] = Silent
      /\ wire'[t] = Silent
  BY <1>1 DEF TypeOK
<1> QED
  BY <1>1, <1>2, <1>3, <1>4, <1>5, <1>6, <1>7, PersistKeepsPromise

LEMMA VerifyKeepsPromise ==
  ASSUME TypeOK, TypeOK', LockHeld, Promise, SafeStorage,
         NEW t \in Tasks, VerifyStorage(t)
  PROVE  Promise'
<1> DEFINE c == Owner[t]
           r == mem[c]
<1>1. /\ c \in Clients /\ r \in Record /\ pc[t] = "verify" /\ pending[c] = NoRecord
      /\ UNCHANGED <<current, mem, pending, late>>
  BY Tokens DEF VerifyStorage, issuer, memory, TypeOK, Promise, PendingAhead
<1>2. /\ file.token <= r.token /\ r.token <= current
      /\ (r.token = current \/ r.token = file.token)
      /\ (file # NoRecord => r.token = file.token)
  BY <1>1, Tokens DEF Promise, VerifyStored, MemoryStored, FileWithin
<1>3. \A s \in Tasks : pc[s] \in {"verify", "sent"} => s = t
  BY <1>1 DEF LockHeld, Critical
<1>4. \A s \in Tasks : wire[s].kind \notin {"request", "reply"}
  BY <1>1, <1>3 DEF Promise, RequestStored, ReplyAhead
<1>5. ASSUME file' = r
      PROVE  /\ file' # NoRecord /\ file'.token = r.token
             /\ MemoryStored'
             /\ \A d \in Clients : pending[d] # NoRecord => file'.token = file.token
  BY <1>1, <1>2, <1>5, Tokens
  DEF Record, NoRecord, Promise, MemoryStored, PendingAhead
<1>6. CASE /\ file' = r
           /\ wire' = [wire EXCEPT ![t] = Msg("request", r.token)]
           /\ GoTo(t, "sent")
  <2>1. /\ \A s \in Tasks \ {t} : wire'[s] = wire[s] /\ pc'[s] = pc[s]
        /\ wire'[t] = Msg("request", r.token) /\ pc'[t] = "sent"
    BY <1>6 DEF TypeOK, GoTo
  <2>2. FileWithin' /\ LateStored'
    BY <1>1, <1>2, <1>5, <1>6, Tokens DEF Promise, FileWithin, LateStored, TypeOK
  <2>3. PendingAhead'
    BY <1>1, <1>4, <1>5, <1>6, <2>1 DEF Promise, PendingAhead, Msg
  <2>4. VerifyStored' /\ RequestStored' /\ ReplyAhead'
    BY <1>3, <1>4, <1>5, <1>6, <2>1 DEF VerifyStored, RequestStored, ReplyAhead, Msg
  <2>5. CallStored'
    BY <1>2, <1>5, <1>6, <2>1, Tokens DEF Promise, CallStored, Msg
  <2> QED
    BY <1>5, <1>6, <2>2, <2>3, <2>4, <2>5 DEF Promise
<1>7. CASE UNCHANGED <<file, wire>> /\ GoTo(t, "idle")
  BY <1>1, <1>7, MovesAside DEF Places
<1>8. CASE file' = r /\ UNCHANGED wire /\ GoTo(t, "idle")
  <2>1. pc[t] \in Critical /\ pc[t] # "sent" /\ "idle" \in Places \ {"verify", "sent"}
    BY <1>1 DEF Critical, Places
  <2>2. /\ FileWithin' /\ VerifyStored' /\ RequestStored' /\ ReplyAhead'
        /\ LateStored' /\ CallStored'
    BY <1>1, <1>2, <1>8, <2>1, FileMoves
  <2>3. \A s \in Tasks : pc'[s] \in {"verify", "sent"} => pc'[s] = pc[s]
    BY <1>8 DEF TypeOK, GoTo
  <2>4. PendingAhead'
    BY <1>1, <1>4, <1>5, <1>8, <2>3 DEF Promise, PendingAhead
  <2> QED
    BY <1>5, <1>8, <2>2, <2>4 DEF Promise
<1> QED
  BY <1>6, <1>7, <1>8 DEF VerifyStorage, SaveFails, Abort

LEMMA CallKeepsPromise ==
  ASSUME TypeOK, Promise, NEW t \in Tasks, SendCall(t) \/ EndCall(t)
  PROVE  Promise'
<1>1. /\ pc[t] \notin {"verify", "sent"} /\ Owner[t] \in Clients
      /\ UNCHANGED <<current, file, mem, pending, late>>
  BY Tokens DEF SendCall, EndCall, issuer, memory
<1>2. /\ \A s \in Tasks \ {t} : wire'[s] = wire[s] /\ pc'[s] = pc[s]
      /\ wire'[t] \in {Silent, Msg("call", mem[Owner[t]].token)}
      /\ pc'[t] \notin {"verify", "sent"}
  BY DEF SendCall, EndCall, GoTo, TypeOK
<1>3. wire'[t].kind \notin {"request", "reply"}
  BY <1>2 DEF Silent, Msg
<1>4. CallStored'
  BY <1>1, <1>2 DEF Promise, CallStored, MemoryStored, Silent, Msg
<1>5. PendingAhead'
  BY <1>1, <1>2, <1>3 DEF Promise, PendingAhead
<1>6. VerifyStored' /\ RequestStored' /\ ReplyAhead'
  BY <1>1, <1>2, <1>3 DEF Promise, VerifyStored, RequestStored, ReplyAhead
<1>7. FileWithin' /\ MemoryStored' /\ LateStored'
  BY <1>1 DEF Promise, FileWithin, MemoryStored, LateStored
<1> QED
  BY <1>4, <1>5, <1>6, <1>7 DEF Promise

LEMMA CrashKeepsPromise ==
  ASSUME TypeOK, Promise, NEW c \in Clients, Crash(c)
  PROVE  Promise'
<1> DEFINE mine == {t \in Tasks : Owner[t] = c}
<1>1. /\ UNCHANGED <<current, file>> /\ Hangup(mine)
      /\ \A s \in Tasks : pc'[s] = IF s \in mine THEN "idle" ELSE pc[s]
      /\ \A s \in Tasks : wire'[s] = IF s \in mine THEN Silent ELSE wire[s]
      /\ \A d \in Clients : mem'[d] = IF d = c THEN Seed ELSE mem[d]
      /\ \A d \in Clients : pending'[d] = IF d = c THEN NoRecord ELSE pending[d]
  BY DEF Crash, issuer, Hangup, TypeOK
<1>2. \A s \in Tasks : wire'[s].kind \in {"request", "reply", "call"} =>
        wire'[s] = wire[s] /\ pc'[s] = pc[s]
  BY <1>1 DEF Silent
<1>3. FileWithin' /\ MemoryStored'
  BY <1>1 DEF Promise, FileWithin, MemoryStored, Seed
<1>4. PendingAhead'
  BY <1>1, <1>2 DEF Promise, PendingAhead
<1>5. VerifyStored'
  BY <1>1, Tokens DEF Promise, VerifyStored
<1>6. RequestStored' /\ ReplyAhead' /\ CallStored'
  BY <1>1, <1>2 DEF Promise, RequestStored, ReplyAhead, CallStored
<1>7. LateStored'
  <2>1. \A n \in Abandoned(mine) : n <= file.token
    BY Tokens DEF Abandoned, Promise, RequestStored
  <2> QED
    BY <1>1, <2>1 DEF Hangup, Promise, LateStored
<1> QED
  BY <1>3, <1>4, <1>5, <1>6, <1>7 DEF Promise

LEMMA RestartKeepsPromise ==
  ASSUME TypeOK, Promise, NEW c \in Clients, Restart(c)
  PROVE  Promise'
<1>1. /\ UNCHANGED <<current, file, pending, pc, wire, late>>
      /\ \A d \in Clients : mem'[d] = IF d = c THEN Stored(c) ELSE mem[d]
  BY DEF Restart, issuer, TypeOK
<1>2. MemoryStored'
  BY <1>1, StoredForward DEF Promise, MemoryStored
<1>3. VerifyStored'
  BY <1>1, StoredForward, Tokens DEF Promise, VerifyStored
<1>4. PendingAhead' /\ RequestStored' /\ ReplyAhead'
  BY <1>1 DEF Promise, PendingAhead, RequestStored, ReplyAhead
<1>5. FileWithin' /\ LateStored' /\ CallStored'
  BY <1>1 DEF Promise, FileWithin, LateStored, CallStored
<1> QED
  BY <1>2, <1>3, <1>4, <1>5 DEF Promise

\* The invariant is inductive.
LEMMA PromiseStep ==
  ASSUME SafeStorage, IInv, [Next]_vars
  PROVE  IInv'
<1>1. TypeOK /\ TypeOK' /\ LockHeld /\ LockHeld' /\ Promise
  BY TypeStep, LockStep DEF IInv
<1> SUFFICES Promise'
  BY <1>1 DEF IInv
<1>2. ASSUME NEW t \in Tasks, NEW k \in {"force", "maybe", "call"}, Start(t, k)
      PROVE  Promise'
  BY <1>1, <1>2, MovesAside DEF Start, Places, issuer, memory
<1>3. ASSUME NEW t \in Tasks, StartStatus(t) PROVE Promise'
  BY <1>1, <1>3, StatusKeepsPromise
<1>4. ASSUME NEW t \in Tasks, TakeRefreshLock(t) PROVE Promise'
  BY <1>1, <1>4, MovesAside DEF TakeRefreshLock, Places, issuer, memory
<1>5. ASSUME NEW t \in Tasks, TakeFileLock(t) PROVE Promise'
  BY <1>1, <1>5, MovesAside DEF TakeFileLock, Places, issuer, memory
<1>6. ASSUME NEW t \in Tasks,
             \/ FileLockFails(t) \/ FileLockTimesOut(t) \/ LoadFails(t)
             \/ HookFails(t) \/ HookReenters(t)
      PROVE  Promise'
  BY <1>1, <1>6, MovesAside
  DEF FileLockFails, FileLockTimesOut, LoadFails, HookFails, HookReenters, Abort,
      Places, issuer, memory
<1>7. ASSUME NEW t \in Tasks, ExchangeFails(t) \/ Cancelled(t) PROVE Promise'
  <2>1. /\ Hangup({t}) /\ UNCHANGED <<current, file, mem, pending>>
        /\ pc' = [pc EXCEPT ![t] = "idle"]
    BY <1>7 DEF ExchangeFails, Cancelled, Abort, GoTo, issuer, memory
  <2>2. \A s \in Tasks : pc'[s] = pc[s] \/ (s \in {t} /\ pc'[s] = "idle")
    BY <1>1, <1>7, <2>1 DEF TypeOK
  <2> QED
    BY <1>1, <2>1, <2>2, HangsUp
<1>8. ASSUME NEW t \in Tasks, TakeError(t) PROVE Promise'
  <2>1. Hangup({t}) /\ UNCHANGED <<current, file, mem, pending>>
    <3>1. Abandoned({t}) = {}
      BY <1>8 DEF TakeError, Abandoned
    <3>2. wire' = [s \in Tasks |-> IF s \in {t} THEN Silent ELSE wire[s]]
      BY <1>1, <1>8 DEF TakeError, TypeOK
    <3> QED
      BY <1>8, <3>1, <3>2 DEF TakeError, Hangup, issuer, memory
  <2>2. \A s \in Tasks : pc'[s] = pc[s] \/ (s \in {t} /\ pc'[s] = "idle")
    BY <1>1, <1>8 DEF TakeError, Abort, GoTo, TypeOK
  <2> QED
    BY <1>1, <2>1, <2>2, HangsUp
<1>9. ASSUME NEW t \in Tasks, PersistPending(t) PROVE Promise'
  BY <1>1, <1>9, RetryKeepsPromise
<1>10. ASSUME NEW t \in Tasks, LoadStored(t) PROVE Promise'
  BY <1>1, <1>10, LoadKeepsPromise
<1>11. ASSUME NEW t \in Tasks, VerifyStorage(t) PROVE Promise'
  BY <1>1, <1>11, VerifyKeepsPromise
<1>12. ASSUME NEW t \in Tasks, TakeReply(t) PROVE Promise'
  BY <1>1, <1>12, ReplyKeepsPromise
<1>13. ASSUME NEW t \in Tasks, RunHook(t) PROVE Promise'
  BY <1>1, <1>13, MovesAside DEF RunHook, Return, Places, issuer, memory
<1>14. ASSUME NEW t \in Tasks, SendCall(t) \/ EndCall(t) PROVE Promise'
  BY <1>1, <1>14, CallKeepsPromise
<1>15. ASSUME NEW t \in Tasks, Serve(t) PROVE Promise'
  BY <1>1, <1>15, AnswerKeepsPromise
<1>16. ASSUME NEW c \in Clients, Crash(c) PROVE Promise'
  BY <1>1, <1>16, CrashKeepsPromise
<1>17. ASSUME NEW c \in Clients, Restart(c) PROVE Promise'
  BY <1>1, <1>17, RestartKeepsPromise
<1>18. ASSUME NEW n \in late, ArriveLate(n) PROVE Promise'
  BY <1>1, <1>18, LateKeepsPromise
<1>19. CASE UNCHANGED <<current, file, mem, pending, pc, wire, late>>
  BY <1>1, <1>19
  DEF Promise, FileWithin, MemoryStored, PendingAhead, VerifyStored, RequestStored,
      ReplyAhead, LateStored, CallStored
<1>20. ASSUME NEW n \in 0 .. current, Age(n) PROVE Promise'
  BY <1>19, <1>20 DEF Age, memory
<1>21. CASE UNCHANGED vars
  BY <1>19, <1>21 DEF vars
<1> QED
  BY <1>2, <1>3, <1>4, <1>5, <1>6, <1>7, <1>8, <1>9, <1>10, <1>11, <1>12, <1>13,
     <1>14, <1>15, <1>16, <1>17, <1>18, <1>20, <1>21
  DEF Next, TaskStep, Advance, Fail

LEMMA PromiseInvariant ==
  ASSUME SafeStorage
  PROVE  Spec => []IInv
<1>1. Init => IInv
  <2>1. Init => TypeOK
    BY ConstantsAssumption
    DEF Init, TypeOK, Record, NoRecord, Seed, Silent, Places, Kinds
  <2>2. Init => LockHeld /\ Promise
    BY ConstantsAssumption
    DEF Init, LockHeld, Critical, Promise, FileWithin, MemoryStored, PendingAhead,
        VerifyStored, RequestStored, ReplyAhead, LateStored, CallStored,
        NoRecord, Seed, Silent
  <2> QED
    BY <2>1, <2>2 DEF IInv
<1>2. IInv /\ [Next]_vars => IInv'
  BY PromiseStep
<1> QED
  BY <1>1, <1>2, PTL DEF Spec

\* What a step does to the issuer's credential and to the file, together: one
\* of them moves forward by one step of CredentialChain, or neither moves.
LEMMA FileStep ==
  ASSUME SafeStorage, IInv, [Next]_vars
  PROVE  \/ current' = current /\ file'.token = file.token
         \/ /\ current' = current /\ file'.token = current
            /\ file.token < current
         \/ /\ file.token = current /\ current' = current + 1
            /\ file'.token = file.token
<1> DEFINE Goal == \/ current' = current /\ file'.token = file.token
                   \/ /\ current' = current /\ file'.token = current
                      /\ file.token < current
                   \/ /\ file.token = current /\ current' = current + 1
                      /\ file'.token = file.token
<1>1. TypeOK /\ LockHeld /\ Promise
  BY DEF IInv
<1>2. ASSUME UNCHANGED <<current, file>> PROVE Goal
  BY <1>2
<1>3. ASSUME NEW t \in Tasks, PersistPending(t) PROVE Goal
  BY <1>1, <1>3, Tokens
  DEF PersistPending, Persisted, PersistFails, SaveFails, Promise, PendingAhead, issuer
<1>4. ASSUME NEW t \in Tasks, VerifyStorage(t) PROVE Goal
  BY <1>1, <1>4, Tokens
  DEF VerifyStorage, SaveFails, Promise, VerifyStored, MemoryStored, FileWithin, issuer
<1>5. ASSUME NEW t \in Tasks, TakeReply(t) PROVE Goal
  <2>1. /\ \/ wire[t].token = current /\ file.token < current
           \/ wire[t].token = file.token
        /\ current' = current
        /\ file' = Renewed(wire[t].token) \/ file' = file
    BY <1>1, <1>5
    DEF TakeReply, Persisted, PersistFails, SaveFails, Promise, ReplyAhead, issuer
  <2>2. Renewed(wire[t].token).token = wire[t].token
    BY DEF Renewed
  <2> QED
    BY <2>1, <2>2
<1>6. ASSUME NEW t \in Tasks, Serve(t) PROVE Goal
  BY <1>1, <1>6
  DEF Serve, Rotate, KeepFresh, RejectSuperseded, Refuse, Answer, Promise,
      RequestStored, issuer
<1>7. ASSUME NEW n \in late, ArriveLate(n) PROVE Goal
  BY <1>1, <1>7, Tokens DEF ArriveLate, Promise, LateStored, FileWithin
<1>8. ASSUME NEW t \in Tasks,
             \/ \E k \in {"force", "maybe", "call"} : Start(t, k)
             \/ StartStatus(t) \/ TakeRefreshLock(t) \/ TakeFileLock(t)
             \/ LoadStored(t) \/ TakeError(t) \/ RunHook(t) \/ SendCall(t)
             \/ EndCall(t) \/ Fail(t)
      PROVE  Goal
  BY <1>2, <1>8
  DEF Start, StartStatus, TakeRefreshLock, TakeFileLock, LoadStored, TakeError,
      RunHook, SendCall, EndCall, Fail, FileLockFails, FileLockTimesOut, LoadFails,
      HookFails, HookReenters, ExchangeFails, Cancelled, issuer
<1>9. ASSUME NEW c \in Clients, Crash(c) \/ Restart(c) PROVE Goal
  BY <1>2, <1>9 DEF Crash, Restart, issuer
<1>10. ASSUME NEW n \in 0 .. current, Age(n) PROVE Goal
  BY <1>2, <1>10 DEF Age
<1>11. CASE UNCHANGED vars
  BY <1>2, <1>11 DEF vars
<1> QED
  BY <1>3, <1>4, <1>5, <1>6, <1>7, <1>8, <1>9, <1>10, <1>11
  DEF Next, TaskStep, Advance

\* The workers keep the promise of CredentialChain.
THEOREM ChainImplemented ==
  ASSUME SafeStorage
  PROVE  Spec => ImplementsChain
<1>1. Init => Chain!Init
  BY DEF Init, Chain!Init, NoRecord
<1>2. IInv /\ [Next]_vars => [Chain!Issue \/ Chain!Store]_<<current, file.token>>
  BY FileStep, Tokens DEF IInv, Chain!Issue, Chain!Store
<1> QED
  BY <1>1, <1>2, PromiseInvariant, PTL DEF Spec, ImplementsChain, Chain!Spec

\* A restart never finds an older credential than an earlier one would have.
THEOREM FileMovesForward ==
  ASSUME SafeStorage
  PROVE  Spec => FileNeverRegresses
<1>1. IInv /\ [Next]_vars => [file'.token >= file.token]_vars
  BY FileStep, Tokens DEF IInv
<1> QED
  BY <1>1, PromiseInvariant, PTL DEF Spec, FileNeverRegresses

\* A renewal that waits for the issuer presents what a restart would find, and
\* nobody holds or presents a credential newer than the file's but the seed.
THEOREM FileIsNeverBehind ==
  ASSUME SafeStorage
  PROVE  Spec => []NeverAheadOfFile
<1>1. IInv => NeverAheadOfFile
  BY Tokens
  DEF IInv, Promise, MemoryStored, RequestStored, CallStored, NeverAheadOfFile
<1> QED
  BY <1>1, PromiseInvariant, PTL

\* An unsaved renewal is worth a second attempt.
THEOREM UnsavedStaysCurrent ==
  ASSUME PlainFaults
  PROVE  Spec => []UnsavedIsCurrent
<1>1. IInv => UnsavedIsCurrent
  BY DEF IInv, Promise, PendingAhead, UnsavedIsCurrent
<1> QED
  BY <1>1, PromiseInvariant, PTL DEF SafeStorage

\* While a process lives, no reload of the file and no retry takes its
\* credential back.
THEOREM MemoryMovesForward ==
  ASSUME SafeStorage
  PROVE  Spec => MemoryNeverRegresses
<1> DEFINE Forward == \A c \in Clients : up[c] /\ up'[c] => mem'[c].token >= mem[c].token
<1>1. ASSUME IInv, [Next]_vars PROVE Forward
  <2>1. TypeOK /\ Promise
    BY <1>1 DEF IInv
  <2>2. CASE UNCHANGED mem
    BY <2>1, <2>2, Tokens
  <2>3. ASSUME NEW d \in Clients, mem' = [mem EXCEPT ![d] = Stored(d)]
        PROVE  Forward
    BY <2>1, <2>3, StoredForward, Tokens DEF TypeOK
  <2>4. ASSUME NEW d \in Clients, NEW r, Persisted(d, r) \/ UNCHANGED mem,
               mem[d].token <= r.token
        PROVE  Forward
    BY <2>1, <2>4, Tokens DEF Persisted, TypeOK
  <2>5. ASSUME NEW t \in Tasks, StartStatus(t) \/ LoadStored(t) PROVE Forward
    BY <2>1, <2>3, <2>5, Tokens DEF StartStatus, LoadStored
  <2>6. ASSUME NEW t \in Tasks, PersistPending(t) PROVE Forward
    <3>1. Owner[t] \in Clients /\ mem[Owner[t]].token <= pending[Owner[t]].token
      BY <2>1, <2>6, Tokens DEF PersistPending, Promise, PendingAhead, MemoryStored
    <3> QED
      BY <2>4, <2>6, <3>1 DEF PersistPending, PersistFails
  <2>7. ASSUME NEW t \in Tasks, TakeReply(t) PROVE Forward
    <3>1. Owner[t] \in Clients /\ mem[Owner[t]].token <= wire[t].token
      BY <2>1, <2>7, Tokens DEF TakeReply, Promise, ReplyAhead, MemoryStored
    <3>2. mem[Owner[t]].token <= Renewed(wire[t].token).token
      BY <3>1 DEF Renewed
    <3> QED
      BY <2>4, <2>7, <3>1, <3>2 DEF TakeReply, PersistFails
  <2>8. ASSUME NEW t \in Tasks,
               \/ \E k \in {"force", "maybe", "call"} : Start(t, k)
               \/ TakeRefreshLock(t) \/ TakeFileLock(t) \/ VerifyStorage(t)
               \/ TakeError(t) \/ RunHook(t) \/ SendCall(t) \/ EndCall(t)
               \/ Fail(t) \/ Serve(t)
        PROVE  Forward
    BY <2>2, <2>8
    DEF Start, TakeRefreshLock, TakeFileLock, VerifyStorage, TakeError, RunHook,
        SendCall, EndCall, Fail, FileLockFails, FileLockTimesOut, LoadFails, HookFails,
        HookReenters, ExchangeFails, Cancelled, Serve, Rotate, KeepFresh, RejectSuperseded, Refuse, Answer, memory
  <2>9. ASSUME NEW d \in Clients, Crash(d) PROVE Forward
    BY <2>1, <2>9, Tokens DEF Crash, TypeOK
  <2>10. ASSUME NEW d \in Clients, Restart(d) PROVE Forward
    BY <2>1, <2>3, <2>10, Tokens DEF Restart, TypeOK
  <2>11. ASSUME NEW n \in late, ArriveLate(n) PROVE Forward
    BY <2>2, <2>11 DEF ArriveLate, memory
  <2>12. ASSUME NEW n \in 0 .. current, Age(n) PROVE Forward
    BY <2>2, <2>12 DEF Age, memory
  <2>13. CASE UNCHANGED vars
    BY <2>2, <2>13 DEF vars
  <2> QED
    BY <1>1, <2>5, <2>6, <2>7, <2>8, <2>9, <2>10, <2>11, <2>12, <2>13
    DEF Next, TaskStep, Advance
<1>2. IInv /\ [Next]_vars => [Forward]_vars
  BY <1>1
<1> QED
  BY <1>2, PromiseInvariant, PTL DEF Spec, MemoryNeverRegresses

-----------------------------------------------------------------------------
(* How a check ends                                                        *)

\* A task that comes to the callback has just saved what its client uses, and
\* as long as nothing is saved no client knows when its credential expires.
HookStored  == \A t \in Tasks : pc[t] = "hook" => mem[Owner[t]] = file
SeedUnknown == file = NoRecord => \A c \in Clients : ~mem[c].known

CheckInv == TypeOK /\ LockHeld /\ HookStored /\ SeedUnknown

\* A step that touches neither file nor memory and brings nobody to the callback.
LEMMA NothingSaved ==
  ASSUME CheckInv, UNCHANGED <<file, mem>>,
         \A t \in Tasks : pc'[t] = "hook" => pc[t] = "hook"
  PROVE  HookStored' /\ SeedUnknown'
BY DEF CheckInv, HookStored, SeedUnknown

\* A client reads the file back, and none of its tasks goes to the callback.
LEMMA ReadBack ==
  ASSUME CheckInv, NEW c \in Clients, mem' = [mem EXCEPT ![c] = Stored(c)],
         UNCHANGED file, \A t \in Tasks : pc'[t] = "hook" => pc[t] = "hook"
  PROVE  HookStored' /\ SeedUnknown'
<1>1. \A d \in Clients \ {c} : mem'[d] = mem[d]
  BY DEF CheckInv, TypeOK
<1>2. mem'[c] = mem[c] \/ (mem'[c] = file /\ file # NoRecord)
  BY DEF Stored, CheckInv, TypeOK
<1>3. HookStored'
  BY <1>1, <1>2, Tokens DEF CheckInv, HookStored
<1>4. SeedUnknown'
  BY <1>1, <1>2 DEF CheckInv, SeedUnknown
<1> QED
  BY <1>3, <1>4

\* The holder of the file lock saves r, or fails to; nobody else is in the block.
LEMMA HolderSaves ==
  ASSUME CheckInv, NEW t \in Tasks, pc[t] \in {"locked", "verify", "sent"},
         NEW r \in Record,
         NEW p \in Places, pc' = [pc EXCEPT ![t] = p],
         \/ /\ file' = r /\ (mem' = mem \/ mem' = [mem EXCEPT ![Owner[t]] = r])
         \/ UNCHANGED <<file, mem>>,
         p = "hook" => file' = r /\ mem' = [mem EXCEPT ![Owner[t]] = r]
  PROVE  HookStored' /\ SeedUnknown'
<1>1. \A s \in Tasks : pc'[s] = "hook" => s = t /\ p = "hook"
  BY DEF CheckInv, TypeOK, LockHeld, Critical
<1>2. HookStored'
  BY <1>1, Tokens DEF CheckInv, TypeOK, HookStored
<1>3. SeedUnknown'
  BY DEF CheckInv, SeedUnknown, Record, NoRecord
<1> QED
  BY <1>2, <1>3

LEMMA CheckStep == CheckInv /\ [Next]_vars => CheckInv'
<1> SUFFICES ASSUME CheckInv, [Next]_vars PROVE HookStored' /\ SeedUnknown'
  BY TypeStep, LockStep DEF CheckInv
<1>1. TypeOK
  BY DEF CheckInv
<1>2. ASSUME NEW t \in Tasks,
             \/ \E k \in {"force", "maybe", "call"} : Start(t, k)
             \/ TakeRefreshLock(t) \/ TakeFileLock(t)
             \/ TakeError(t) \/ RunHook(t) \/ SendCall(t) \/ EndCall(t) \/ Fail(t)
      PROVE  HookStored' /\ SeedUnknown'
  <2>1. UNCHANGED <<file, mem>>
    BY <1>2
    DEF Start, TakeRefreshLock, TakeFileLock, TakeError, RunHook, SendCall, EndCall,
        Fail, FileLockFails, FileLockTimesOut, LoadFails, HookFails, HookReenters,
        ExchangeFails, Cancelled, memory
  <2>2. PICK p \in Places \ {"hook"} : pc' = [pc EXCEPT ![t] = p]
    BY <1>2
    DEF Start, TakeRefreshLock, TakeFileLock, TakeError, RunHook, SendCall, EndCall,
        Fail, FileLockFails, FileLockTimesOut, LoadFails, HookFails, HookReenters,
        ExchangeFails, Cancelled, Abort, Return, GoTo, Places
  <2>3. \A s \in Tasks : pc'[s] = "hook" => pc[s] = "hook"
    BY <1>1, <2>2 DEF TypeOK
  <2> QED
    BY <2>1, <2>3, NothingSaved
<1>3. ASSUME NEW t \in Tasks, StartStatus(t) \/ LoadStored(t)
      PROVE  HookStored' /\ SeedUnknown'
  <2>1. /\ Owner[t] \in Clients /\ UNCHANGED file
        /\ mem' = [mem EXCEPT ![Owner[t]] = Stored(Owner[t])]
    BY <1>1, <1>3, Tokens DEF StartStatus, LoadStored
  <2>2. PICK p \in Places \ {"hook"} : pc' = [pc EXCEPT ![t] = p]
    BY <1>3 DEF StartStatus, LoadStored, Return, GoTo, Places
  <2>3. \A s \in Tasks : pc'[s] = "hook" => pc[s] = "hook"
    BY <1>1, <2>2 DEF TypeOK
  <2> QED
    BY <2>1, <2>3, ReadBack
<1>4. ASSUME NEW t \in Tasks, PersistPending(t) PROVE HookStored' /\ SeedUnknown'
  <2> DEFINE r == pending[Owner[t]]
  <2>1. pc[t] = "locked" /\ r \in Record
    BY <1>1, <1>4, Tokens DEF PersistPending, TypeOK
  <2>2. \/ /\ file' = r /\ (mem' = mem \/ mem' = [mem EXCEPT ![Owner[t]] = r])
        \/ UNCHANGED <<file, mem>>
    BY <1>4 DEF PersistPending, Persisted, PersistFails, SaveFails
  <2>3. pc' = [pc EXCEPT ![t] = "locked"] \/ pc' = [pc EXCEPT ![t] = "idle"]
    BY <1>1, <1>4, <2>1 DEF PersistPending, Abort, GoTo, TypeOK
  <2>4. PICK p \in {"locked", "idle"} : pc' = [pc EXCEPT ![t] = p]
    BY <2>3
  <2>5. p \in Places /\ p # "hook"
    BY DEF Places
  <2> QED
    BY <2>1, <2>2, <2>4, <2>5, HolderSaves
<1>5. ASSUME NEW t \in Tasks, VerifyStorage(t) PROVE HookStored' /\ SeedUnknown'
  <2> DEFINE r == mem[Owner[t]]
  <2>1. pc[t] = "verify" /\ r \in Record
    BY <1>1, <1>5, Tokens DEF VerifyStorage, TypeOK
  <2>2. mem' = mem /\ (file' = r \/ file' = file)
    BY <1>5 DEF VerifyStorage, SaveFails, memory
  <2>3. PICK p \in {"sent", "idle"} : pc' = [pc EXCEPT ![t] = p]
    BY <1>5 DEF VerifyStorage, Abort, GoTo
  <2>4. p \in Places /\ p # "hook"
    BY DEF Places
  <2> QED
    BY <2>1, <2>2, <2>3, <2>4, HolderSaves
<1>6. ASSUME NEW t \in Tasks, TakeReply(t) PROVE HookStored' /\ SeedUnknown'
  <2> DEFINE r == Renewed(wire[t].token)
  <2>1. pc[t] = "sent" /\ r \in Record
    BY <1>1, <1>6, Tokens DEF TakeReply, Renewed, Record
  <2> HIDE DEF r
  <2>2. CASE Persisted(Owner[t], r) /\ GoTo(t, "hook")
    BY <2>1, <2>2, HolderSaves DEF Persisted, GoTo, Places
  <2>3. CASE PersistFails(Owner[t], r) /\ Abort(t)
    <3>1. mem' = mem /\ (file' = r \/ file' = file)
      BY <2>3 DEF PersistFails, SaveFails
    <3>2. pc' = [pc EXCEPT ![t] = "idle"] /\ "idle" \in Places
      BY <2>3 DEF Abort, GoTo, Places
    <3> QED
      BY <2>1, <3>1, <3>2, HolderSaves
  <2> QED
    BY <1>6, <2>2, <2>3 DEF TakeReply, r
<1>7. ASSUME NEW c \in Clients, Crash(c) PROVE HookStored' /\ SeedUnknown'
  <2>1. /\ UNCHANGED file /\ mem' = [mem EXCEPT ![c] = Seed]
        /\ \A s \in Tasks : pc'[s] = IF Owner[s] = c THEN "idle" ELSE pc[s]
    BY <1>7 DEF Crash
  <2>2. \A d \in Clients \ {c} : mem'[d] = mem[d]
    BY <1>1, <2>1 DEF TypeOK
  <2>3. ~Seed.known /\ mem'[c] = Seed
    BY <1>1, <2>1 DEF Seed, TypeOK
  <2>4. HookStored'
    BY <1>1, <2>1, <2>2, Tokens DEF CheckInv, HookStored
  <2>5. SeedUnknown'
    BY <2>1, <2>2, <2>3 DEF CheckInv, SeedUnknown
  <2> QED
    BY <2>4, <2>5
<1>8. ASSUME NEW c \in Clients, Restart(c) PROVE HookStored' /\ SeedUnknown'
  BY <1>8, ReadBack DEF Restart
<1>9. CASE UNCHANGED <<file, mem, pc>>
  BY <1>9, NothingSaved
<1>10. ASSUME NEW t \in Tasks, Serve(t) PROVE HookStored' /\ SeedUnknown'
  BY <1>9, <1>10 DEF Serve, Rotate, KeepFresh, RejectSuperseded, Refuse, Answer, memory
<1>11. ASSUME NEW n \in late, ArriveLate(n) PROVE HookStored' /\ SeedUnknown'
  BY <1>9, <1>11 DEF ArriveLate, memory
<1>12. ASSUME NEW n \in 0 .. current, Age(n) PROVE HookStored' /\ SeedUnknown'
  BY <1>9, <1>12 DEF Age, memory
<1>13. CASE UNCHANGED vars
  BY <1>9, <1>13 DEF vars
<1> QED
  BY <1>2, <1>3, <1>4, <1>5, <1>6, <1>7, <1>8, <1>10, <1>11, <1>12, <1>13
  DEF Next, TaskStep, Advance

\* A check ends by an early return after reading the file, or after the callback.
LEMMA LetPast ==
  ASSUME TypeOK, [Next]_vars, NEW t \in Tasks, pc[t] \in Critical, pc'[t] = "checked"
  PROVE  RunHook(t) \/ (LoadStored(t) /\ ~NeedsRenewal(kind[t], Stored(Owner[t])))
<1> USE DEF TypeOK, Critical
<1>1. ASSUME NEW s \in Tasks, s # t, TaskStep(s) PROVE pc'[t] = pc[t]
  BY <1>1
  DEF TaskStep, Start, StartStatus, TakeRefreshLock, TakeFileLock, Advance, PersistPending,
      LoadStored, VerifyStorage, TakeReply, TakeError, RunHook, SendCall, EndCall,
      Fail, FileLockFails, FileLockTimesOut, LoadFails, HookFails, HookReenters,
      ExchangeFails, Cancelled, Abort, Return, GoTo,
      Serve, Rotate, KeepFresh, RejectSuperseded, Refuse, Answer
<1>2. ASSUME TaskStep(t), ~RunHook(t), ~LoadStored(t) PROVE pc'[t] # "checked"
  BY <1>2
  DEF TaskStep, Start, StartStatus, TakeRefreshLock, TakeFileLock, Advance, PersistPending,
      VerifyStorage, TakeReply, TakeError, SendCall, EndCall,
      Fail, FileLockFails, FileLockTimesOut, LoadFails, HookFails, HookReenters,
      ExchangeFails, Cancelled, Abort, GoTo,
      Serve, Rotate, KeepFresh, RejectSuperseded, Refuse, Answer
<1>3. ASSUME LoadStored(t), NeedsRenewal(kind[t], Stored(Owner[t])) PROVE FALSE
  BY <1>3 DEF LoadStored, GoTo
<1>4. ASSUME NEW c \in Clients, Crash(c) \/ Restart(c) PROVE FALSE
  BY <1>4 DEF Crash, Restart
<1>5. ASSUME UNCHANGED pc PROVE FALSE
  BY <1>5
<1>6. ASSUME NEW n, ArriveLate(n) \/ Age(n) PROVE FALSE
  BY <1>5, <1>6 DEF ArriveLate, Age
<1> QED
  BY <1>1, <1>2, <1>3, <1>4, <1>5, <1>6 DEF Next, vars

\* Whatever the other workers do and whatever fails, a call is let past its
\* check only with the very record in the file (client.py:219-223, 341-345,
\* 374-378).
THEOREM ChecksLeaveCurrent == Spec => ChecksEndCurrent
<1>1. Init => CheckInv
  <2>1. Init => HookStored /\ SeedUnknown /\ LockHeld
    BY DEF Init, HookStored, SeedUnknown, LockHeld, Critical, Seed
  <2>2. Init => TypeOK
    BY ConstantsAssumption
    DEF Init, TypeOK, Record, NoRecord, Seed, Silent, Places, Kinds
  <2> QED
    BY <2>1, <2>2 DEF CheckInv
<1>2. ASSUME CheckInv, [Next]_vars, NEW t \in Tasks, pc[t] \in Critical, pc'[t] = "checked"
      PROVE  mem'[Owner[t]] = file'
  <2>1. TypeOK /\ Owner[t] \in Clients
    BY <1>2, Tokens DEF CheckInv
  <2>2. CASE RunHook(t)
    BY <1>2, <2>2 DEF RunHook, memory, CheckInv, HookStored
  <2>3. CASE LoadStored(t) /\ ~NeedsRenewal(kind[t], Stored(Owner[t]))
    <3>1. /\ mem'[Owner[t]] = Stored(Owner[t]) /\ UNCHANGED file
          /\ Stored(Owner[t]).known /\ pending[Owner[t]] = NoRecord
      BY <2>1, <2>3 DEF LoadStored, NeedsRenewal, TypeOK
    <3>2. file # NoRecord
      BY <1>2, <2>1, <3>1 DEF Stored, CheckInv, SeedUnknown
    <3> QED
      BY <3>1, <3>2 DEF Stored
  <2> QED
    BY <1>2, <2>1, <2>2, <2>3, LetPast
<1>3. CheckInv /\ [Next]_vars =>
        [\A t \in Tasks : pc[t] \in Critical /\ pc'[t] = "checked"
           => mem'[Owner[t]] = file']_vars
  BY <1>2
<1> QED
  BY <1>1, <1>3, CheckStep, PTL DEF Spec, ChecksEndCurrent

-----------------------------------------------------------------------------
(* The installation does not lock itself out                               *)

\* No exchange, no task and no process is lost.  Failed saves, loads, locks and
\* callbacks, and refusals, may be.
NothingLost == {"late", "cancel", "crash"} \cap Hazards = {}

\* Then no request is on its way whose sender is gone.
LEMMA NothingLate ==
  ASSUME NothingLost, TypeOK, late = {}, [Next]_vars
  PROVE  late' = {} /\ \A n \in late : FALSE
<1>1. ASSUME NEW t \in Tasks, TaskStep(t) PROVE late' = late
  BY <1>1
  DEF TaskStep, Start, StartStatus, TakeRefreshLock, TakeFileLock, Advance, PersistPending,
      LoadStored, VerifyStorage, TakeReply, TakeError, RunHook, SendCall, EndCall,
      Fail, FileLockFails, FileLockTimesOut, LoadFails, HookFails, HookReenters,
      ExchangeFails, Cancelled, Strike, NothingLost,
      Serve, Rotate, KeepFresh, RejectSuperseded, Refuse, Answer
<1>2. ASSUME NEW c \in Clients, Crash(c) \/ Restart(c) PROVE late' = late
  BY <1>2 DEF Crash, Restart, Strike, NothingLost
<1>3. ASSUME NEW n \in 0 .. current, Age(n) PROVE late' = late
  BY <1>3 DEF Age
<1> QED
  BY <1>1, <1>2, <1>3 DEF Next, vars

\* The credential the issuer accepts passes from the issuer's answer to the
\* file, or to the retry and from there to the file.
LEMMA HeldStep ==
  ASSUME SafeStorage, NothingLost, IInv, late = {}, CurrentCredentialHeld, [Next]_vars
  PROVE  CurrentCredentialHeld'
<1>1. TypeOK /\ LockHeld /\ Promise
  BY DEF IInv
<1>2. \A t \in Tasks : wire[t] = Msg("reply", current) => pc[t] = "sent"
  BY <1>1 DEF Promise, ReplyAhead, Msg
<1>3. ASSUME UNCHANGED <<current, file, pending>>,
             \A t \in Tasks : pc[t] = "sent" => wire'[t] = wire[t]
      PROVE  CurrentCredentialHeld'
  BY <1>2, <1>3 DEF CurrentCredentialHeld, Msg
<1>4. ASSUME NEW t \in Tasks,
             \/ \E k \in {"force", "maybe", "call"} : Start(t, k)
             \/ StartStatus(t) \/ TakeRefreshLock(t) \/ TakeFileLock(t)
             \/ LoadStored(t) \/ RunHook(t) \/ Fail(t)
      PROVE  CurrentCredentialHeld'
  BY <1>3, <1>4
  DEF Start, StartStatus, TakeRefreshLock, TakeFileLock, LoadStored, RunHook,
      Fail, FileLockFails, FileLockTimesOut, LoadFails, HookFails, HookReenters,
      ExchangeFails, Cancelled, Strike, NothingLost, issuer, memory
<1>5. ASSUME NEW t \in Tasks, SendCall(t) \/ EndCall(t) PROVE CurrentCredentialHeld'
  <2>1. pc[t] # "sent" /\ \A s \in Tasks \ {t} : wire'[s] = wire[s]
    BY <1>1, <1>5 DEF SendCall, EndCall, TypeOK
  <2> QED
    BY <1>3, <1>5, <2>1 DEF SendCall, EndCall, issuer, memory
<1>6. ASSUME NEW t \in Tasks, TakeError(t) PROVE CurrentCredentialHeld'
  <2>1. /\ UNCHANGED <<current, file, pending>> /\ wire[t].kind = "error"
        /\ \A s \in Tasks \ {t} : wire'[s] = wire[s]
    BY <1>1, <1>6 DEF TakeError, issuer, memory, TypeOK
  <2>2. wire[t] # Msg("reply", current)
    BY <2>1 DEF Msg
  <2> QED
    BY <2>1, <2>2 DEF CurrentCredentialHeld, Msg
<1>7. ASSUME NEW t \in Tasks, VerifyStorage(t) PROVE CurrentCredentialHeld'
  <2>1. /\ UNCHANGED <<current, pending>> /\ pc[t] # "sent"
        /\ \A s \in Tasks \ {t} : wire'[s] = wire[s]
    BY <1>1, <1>7 DEF VerifyStorage, issuer, memory, TypeOK
  <2>2. file'.token = file.token \/ file'.token = current
    BY <2>1, FileStep
  <2> QED
    BY <1>2, <2>1, <2>2 DEF CurrentCredentialHeld, Msg
<1>8. ASSUME NEW t \in Tasks, PersistPending(t) PROVE CurrentCredentialHeld'
  <2> DEFINE c == Owner[t]
  <2>1. /\ c \in Clients /\ UNCHANGED <<current, wire>>
        /\ \A d \in Clients \ {c} : pending'[d] = pending[d]
    BY <1>1, <1>8, Tokens
    DEF PersistPending, Persisted, PersistFails, issuer, TypeOK
  <2>2. file'.token = file.token \/ file'.token = current
    BY <2>1, FileStep
  <2>3. pending'[c] = pending[c] \/ file'.token = pending[c].token
    BY <1>1, <1>8, <2>1 DEF PersistPending, Persisted, PersistFails, TypeOK
  <2> QED
    BY <2>1, <2>2, <2>3 DEF CurrentCredentialHeld, Msg
<1>9. ASSUME NEW t \in Tasks, TakeReply(t) PROVE CurrentCredentialHeld'
  <2> DEFINE c == Owner[t]
             r == Renewed(wire[t].token)
  <2>1. /\ c \in Clients /\ pc[t] = "sent" /\ r.token = wire[t].token
        /\ UNCHANGED current
        /\ \A s \in Tasks \ {t} : wire'[s] = wire[s]
        /\ \A d \in Clients \ {c} : pending'[d] = pending[d]
    BY <1>1, <1>9, Tokens
    DEF TakeReply, Persisted, PersistFails, issuer, TypeOK, Renewed
  <2>2. file'.token = file.token \/ file'.token = current
    BY <2>1, FileStep
  <2>3. pending[c] = NoRecord /\ pending[c].token # current
    BY <1>1, <2>1, Tokens DEF Promise, PendingAhead, NoRecord
  <2>4. file'.token = wire[t].token \/ pending'[c].token = wire[t].token
    BY <1>1, <1>9, <2>1 DEF TakeReply, Persisted, PersistFails, TypeOK
  <2>5. wire[t] = Msg("reply", current) => wire[t].token = current
    BY DEF Msg
  <2> QED
    BY <2>1, <2>2, <2>3, <2>4, <2>5 DEF CurrentCredentialHeld, Msg
<1>10. ASSUME NEW t \in Tasks, Serve(t) PROVE CurrentCredentialHeld'
  <2>1. /\ UNCHANGED <<file, pending>> /\ wire[t].kind = "request"
        /\ \A s \in Tasks \ {t} : wire'[s] = wire[s]
        /\ \/ UNCHANGED current
           \/ wire'[t] = Msg("reply", current')
    BY <1>1, <1>10
    DEF Serve, Rotate, KeepFresh, RejectSuperseded, Refuse, Answer, memory, issuer,
        TypeOK
  <2>2. wire[t] # Msg("reply", current)
    BY <2>1 DEF Msg
  <2> QED
    BY <2>1, <2>2 DEF CurrentCredentialHeld, Msg
<1>11. ASSUME NEW c \in Clients, Crash(c) \/ Restart(c) PROVE CurrentCredentialHeld'
  BY <1>3, <1>11 DEF Crash, Restart, Strike, NothingLost, issuer
<1>12. ASSUME NEW n \in 0 .. current, Age(n) PROVE CurrentCredentialHeld'
  BY <1>3, <1>12 DEF Age, memory
<1>13. CASE UNCHANGED vars
  BY <1>3, <1>13 DEF vars
<1> QED
  BY <1>4, <1>5, <1>6, <1>7, <1>8, <1>9, <1>10, <1>11, <1>12, <1>13
  DEF Next, TaskStep, Advance

\* As long as no exchange, task or process is lost, the credential the issuer
\* accepts is the seed, in the file, waiting to be saved, or in an answer on its
\* way: failed saves and loads alone never lock an installation out
\* (client.py:341-354, 368-377).
THEOREM NeverLockedOut ==
  ASSUME SafeStorage, NothingLost
  PROVE  Spec => []CurrentCredentialHeld
<1>1. Init => late = {} /\ CurrentCredentialHeld
  BY DEF Init, CurrentCredentialHeld
<1>2. IInv /\ late = {} /\ CurrentCredentialHeld /\ [Next]_vars
        => (late = {} /\ CurrentCredentialHeld)'
  BY NothingLate, HeldStep DEF IInv
<1> QED
  BY <1>1, <1>2, PromiseInvariant, PTL DEF Spec

=============================================================================
