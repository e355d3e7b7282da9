------------------------- MODULE CredentialRotation -------------------------
(***************************************************************************)
(* Renewal of the durable service credential shared by the workers of one  *)
(* companion app: TapestryClient (client.py) on top of ServiceTokenStore   *)
(* (credentials.py).                                                       *)
(*                                                                         *)
(* A client is one worker process with one TapestryClient.  A task is one  *)
(* asyncio task of a client that renews the credential or calls the        *)
(* platform.  Tasks of a client share its memory and its asyncio.Lock;     *)
(* clients share the private file and its advisory lock; all of them       *)
(* depend on the issuer (external), which accepts one credential at a      *)
(* time.  An action is the code between two awaits, or the part of it up   *)
(* to the next write of the file, where a crash makes a difference.        *)
(*                                                                         *)
(* Credentials are numbered in the order the issuer made them: 0 is the    *)
(* registration seed of the environment, n + 1 supersedes n.               *)
(***************************************************************************)
EXTENDS Integers

CONSTANTS Clients,       \* worker processes
          Tasks,         \* asyncio tasks that use the client
          Owner,         \* the client each task belongs to
          NoTask,        \* what an unlocked lock holds
          Hazards,       \* the things that may go wrong, out of HazardKinds
          MaxRotations,  \* bound: credentials the issuer makes
          MaxFaults      \* bound: failures that strike

\* "noop" is no failure: the issuer may return a still fresh credential as is.
HazardKinds == {"noop", "save", "dirsync", "load", "lock", "refuse", "late",
                "cancel", "hook", "reenter", "crash"}

ASSUME ConstantsAssumption ==
  /\ Owner \in [Tasks -> Clients]
  /\ NoTask \notin Tasks
  /\ Hazards \subseteq HazardKinds
  /\ MaxRotations \in Nat
  /\ MaxFaults \in Nat

VARIABLES
  current,      \* issuer: the one credential it accepts
  due,          \* credentials inside the renewal window of their expiry
  file,         \* the private credential file
  mem,          \* _service_token and _service_token_expires_at
  pending,      \* _pending_refresh: issued, not yet saved
  up,           \* whether the process runs
  refreshLock,  \* _refresh_lock: its holder
  fileLock,     \* advisory lock beside the file: its holder
  pc,           \* where each task awaits
  kind,         \* what each task was asked to do
  wire,         \* each task's HTTP exchange
  late,         \* renewal requests still travelling after their sender gave up
  faults        \* failures so far

vars == <<current, due, file, mem, pending, up, refreshLock, fileLock, pc,
          kind, wire, late, faults>>
issuer == <<current, due>>
locks  == <<refreshLock, fileLock>>
memory == <<mem, pending, up>>

\* StoredServiceToken; "known" says that expires_at is set.
Record   == [token : Nat, known : BOOLEAN]
NoRecord == [token |-> -1, known |-> FALSE]
Seed     == [token |-> 0, known |-> FALSE]
Renewed(n) == [token |-> n, known |-> TRUE]

Message == [kind : {"request", "reply", "error", "call"}, token : Nat]
Silent  == [kind |-> "none", token |-> 0]
Msg(k, n) == [kind |-> k, token |-> n]

Kinds    == {"force", "maybe", "call", "status"}
Places   == {"idle", "refreshLock", "fileLock", "locked", "verify", "sent",
             "hook", "stuck", "checked", "calling"}
\* Inside "async with self._token_store.locked()".
Critical == {"locked", "verify", "sent", "hook", "stuck"}

TypeOK ==
  /\ current \in Nat
  /\ due \subseteq Nat
  /\ file \in Record \cup {NoRecord}
  /\ mem \in [Clients -> Record]
  /\ pending \in [Clients -> Record \cup {NoRecord}]
  /\ up \in [Clients -> BOOLEAN]
  /\ refreshLock \in [Clients -> Tasks \cup {NoTask}]
  /\ fileLock \in Tasks \cup {NoTask}
  /\ pc \in [Tasks -> Places]
  /\ kind \in [Tasks -> Kinds]
  /\ wire \in [Tasks -> Message \cup {Silent}]
  /\ late \subseteq Nat
  /\ faults \in Nat

\* Every client has been constructed on an empty store.
Init ==
  /\ current = 0
  /\ due = {}
  /\ file = NoRecord
  /\ mem = [c \in Clients |-> Seed]
  /\ pending = [c \in Clients |-> NoRecord]
  /\ up = [c \in Clients |-> TRUE]
  /\ refreshLock = [c \in Clients |-> NoTask]
  /\ fileLock = NoTask
  /\ pc = [t \in Tasks |-> "idle"]
  /\ kind = [t \in Tasks |-> "maybe"]
  /\ wire = [t \in Tasks |-> Silent]
  /\ late = {}
  /\ faults = 0

-----------------------------------------------------------------------------
(* Helpers                                                                 *)

\* A failure of kind h strikes.
Strike(h) == h \in Hazards /\ faults < MaxFaults /\ faults' = faults + 1

GoTo(t, p) == pc' = [pc EXCEPT ![t] = p]

\* Mutant: a lock that does not exclude the other workers.
NoAdvisoryLock == TRUE

FileLockFree == fileLock = NoTask

\* Leaves both "async with" blocks, whichever of them the task is in.
Release(t) ==
  /\ refreshLock' = [refreshLock EXCEPT
                       ![Owner[t]] = IF @ = t THEN NoTask ELSE @]
  /\ fileLock' = IF fileLock = t THEN NoTask ELSE fileLock

\* The check ends well: a platform call goes on to its request.
Return(t) == Release(t) /\ GoTo(t, IF kind[t] = "call" THEN "checked" ELSE "idle")

\* The check ends with an exception: so does whatever asked for it.
Abort(t) == Release(t) /\ GoTo(t, "idle")

\* The renewal requests that tasks S leave behind when they stop waiting.
Abandoned(S) == {wire[t].token : t \in {s \in S : wire[s].kind = "request"}}

Hangup(S) ==
  /\ wire' = [t \in Tasks |-> IF t \in S THEN Silent ELSE wire[t]]
  /\ late' = late \cup Abandoned(S)

\* ServiceTokenStore.save raises: before os.replace the file keeps its record,
\* after it (fsync of the directory) the file already holds the new one.
SaveFails(r) == \/ Strike("save") /\ UNCHANGED file
                \/ Strike("dirsync") /\ file' = r

\* Mutant: a renewal that stays pending although it was saved.
PersistedTwice(c, r) ==
  /\ file' = r
  /\ mem' = [mem EXCEPT ![c] = r]
  /\ pending' = [pending EXCEPT ![c] = r]
  /\ UNCHANGED faults

\* _persist_refresh when the save succeeds: saved, in use, no longer pending.
Persisted(c, r) ==
  /\ file' = r
  /\ mem' = [mem EXCEPT ![c] = r]
  /\ pending' = [pending EXCEPT ![c] = NoRecord]
  /\ UNCHANGED faults

\* Mutants: the received renewal is forgotten, or used although not saved.
PersistForgets(c, r) == SaveFails(r) /\ UNCHANGED <<mem, pending>>
PersistUses(c, r) ==
  /\ SaveFails(r)
  /\ mem' = [mem EXCEPT ![c] = r]
  /\ pending' = [pending EXCEPT ![c] = r]

\* _persist_refresh when the save fails: pending, and not in use.
PersistFails(c, r) ==
  /\ SaveFails(r)
  /\ pending' = [pending EXCEPT ![c] = r]
  /\ UNCHANGED mem

\* Mutants: a store that is never read back, or read back though empty.
StoredIgnored(c)   == mem[c]
StoredUnchecked(c) == IF pending[c] = NoRecord THEN file ELSE mem[c]

\* _load_stored_token: an unsaved renewal keeps the file from being read back.
Stored(c) == IF pending[c] = NoRecord /\ file # NoRecord THEN file ELSE mem[c]

\* The early return of _refresh_locked, negated.
NeedsRenewal(k, r) == k = "force" \/ ~r.known \/ r.token \in due

-----------------------------------------------------------------------------
(* A task of a client                                                      *)

\* refresh_service_token (force), maybe_refresh_service_token (maybe) or the
\* check at the head of _request (call): _refresh creates the operation.
Start(t, k) ==
  /\ up[Owner[t]] /\ pc[t] = "idle"
  /\ kind' = [kind EXCEPT ![t] = k]
  /\ GoTo(t, "refreshLock")
  /\ UNCHANGED <<issuer, file, memory, locks, wire, late, faults>>

\* service_token_status reads the file outside the locks and renews nothing.
StartStatus(t) ==
  /\ up[Owner[t]] /\ pc[t] = "idle"
  /\ mem' = [mem EXCEPT ![Owner[t]] = Stored(Owner[t])]
  /\ kind' = [kind EXCEPT ![t] = "status"]
  /\ GoTo(t, "checked")
  /\ UNCHANGED <<issuer, file, pending, up, locks, wire, late, faults>>

TakeRefreshLock(t) ==
  /\ pc[t] = "refreshLock" /\ refreshLock[Owner[t]] = NoTask
  /\ refreshLock' = [refreshLock EXCEPT ![Owner[t]] = t]
  /\ GoTo(t, "fileLock")
  /\ UNCHANGED <<issuer, file, memory, fileLock, kind, wire, late, faults>>

TakeFileLock(t) ==
  /\ pc[t] = "fileLock" /\ FileLockFree
  /\ fileLock' = t
  /\ GoTo(t, "locked")
  /\ UNCHANGED <<issuer, file, memory, refreshLock, kind, wire, late, faults>>

\* The directory cannot be made or the lock is not had within its timeout.
FileLockFails(t) ==
  /\ pc[t] = "fileLock" /\ Strike("lock")
  /\ Abort(t)
  /\ UNCHANGED <<issuer, file, memory, kind, wire, late>>

\* Mutant: the wait for the file lock has no timeout.
NoTimeout(t) == FALSE

\* Waiting for the file lock ends after 30 s, also behind a task that will
\* never leave the block.
FileLockTimesOut(t) ==
  /\ pc[t] = "fileLock" /\ fileLock # NoTask /\ pc[fileLock] = "stuck"
  /\ Abort(t)
  /\ UNCHANGED <<issuer, file, memory, kind, wire, late, faults>>

\* A renewal that was received but not saved is saved before anything else.
PersistPending(t) ==
  LET c == Owner[t] IN
  /\ pc[t] = "locked" /\ pending[c] # NoRecord
  /\ \/ Persisted(c, pending[c]) /\ UNCHANGED <<pc, locks>>
     \/ PersistFails(c, pending[c]) /\ Abort(t)
  /\ UNCHANGED <<issuer, up, kind, wire, late>>

\* Reads the file back and leaves early while the credential is fresh.
LoadStored(t) ==
  LET c == Owner[t] IN
  /\ pc[t] = "locked" /\ pending[c] = NoRecord
  /\ mem' = [mem EXCEPT ![c] = Stored(c)]
  /\ IF NeedsRenewal(kind[t], Stored(c))
     THEN GoTo(t, "verify") /\ UNCHANGED locks
     ELSE Return(t)
  /\ UNCHANGED <<issuer, file, pending, up, kind, wire, late, faults>>

LoadFails(t) ==
  /\ pc[t] = "locked" /\ pending[Owner[t]] = NoRecord
  /\ Strike("load")
  /\ Abort(t)
  /\ UNCHANGED <<issuer, file, memory, kind, wire, late>>

\* Mutant: a request for a replacement without a save before it.
VerifyNothing(t) ==
  /\ pc[t] = "verify"
  /\ wire' = [wire EXCEPT ![t] = Msg("request", mem[Owner[t]].token)]
  /\ GoTo(t, "sent")
  /\ UNCHANGED <<issuer, file, memory, locks, kind, late, faults>>

\* Saves the credential in use, and only then asks for its replacement.
VerifyStorage(t) ==
  LET r == mem[Owner[t]] IN
  /\ pc[t] = "verify"
  /\ \/ /\ file' = r
        /\ wire' = [wire EXCEPT ![t] = Msg("request", r.token)]
        /\ GoTo(t, "sent")
        /\ UNCHANGED <<locks, faults>>
     \/ /\ SaveFails(r)
        /\ Abort(t)
        /\ UNCHANGED wire
  /\ UNCHANGED <<issuer, memory, kind, late>>

\* The answer is persisted before anything else is done with it.
TakeReply(t) ==
  LET c == Owner[t]
      r == Renewed(wire[t].token)
  IN
  /\ pc[t] = "sent" /\ wire[t].kind = "reply"
  /\ wire' = [wire EXCEPT ![t] = Silent]
  /\ \/ Persisted(c, r) /\ GoTo(t, "hook") /\ UNCHANGED locks
     \/ PersistFails(c, r) /\ Abort(t)
  /\ UNCHANGED <<issuer, up, kind, late>>

TakeError(t) ==
  /\ pc[t] = "sent" /\ wire[t].kind = "error"
  /\ wire' = [wire EXCEPT ![t] = Silent]
  /\ Abort(t)
  /\ UNCHANGED <<issuer, file, memory, kind, late, faults>>

\* on_token_refresh runs while both locks are held.
RunHook(t) ==
  /\ pc[t] = "hook"
  /\ Return(t)
  /\ UNCHANGED <<issuer, file, memory, kind, wire, late, faults>>

HookFails(t) ==
  /\ pc[t] = "hook" /\ Strike("hook")
  /\ Abort(t)
  /\ UNCHANGED <<issuer, file, memory, kind, wire, late>>

\* The callback never returns: it calls a method of its own client, which
\* waits for the refresh lock that its own renewal holds, or does not end.
HookReenters(t) ==
  /\ pc[t] = "hook" /\ Strike("reenter")
  /\ GoTo(t, "stuck")
  /\ UNCHANGED <<issuer, file, memory, locks, kind, wire, late>>

\* The HTTP client gives up: a timeout, a broken connection, an answer that
\* cannot be read.  The request, or its effect at the issuer, stays behind.
ExchangeFails(t) ==
  /\ pc[t] = "sent" /\ Strike("late")
  /\ Hangup({t})
  /\ Abort(t)
  /\ UNCHANGED <<issuer, file, memory, kind>>

\* The operation's own task is cancelled (a second cancellation, or the end of
\* the event loop: the shield of _refresh stops only the first, and that of a
\* callback that has called back one more).
Cancelled(t) ==
  /\ pc[t] \in {"refreshLock", "fileLock", "sent", "hook", "stuck"} /\ Strike("cancel")
  /\ Hangup({t})
  /\ Abort(t)
  /\ UNCHANGED <<issuer, file, memory, kind>>

\* The rest of _request: the header is the credential in memory by now.
SendCall(t) ==
  /\ pc[t] = "checked"
  /\ wire' = [wire EXCEPT ![t] = Msg("call", mem[Owner[t]].token)]
  /\ GoTo(t, "calling")
  /\ UNCHANGED <<issuer, file, memory, locks, kind, late, faults>>

\* Whatever the platform answers, the call is not sent again.
EndCall(t) ==
  /\ pc[t] = "calling"
  /\ wire' = [wire EXCEPT ![t] = Silent]
  /\ GoTo(t, "idle")
  /\ UNCHANGED <<issuer, file, memory, locks, kind, late, faults>>

\* The process dies with everything it had in memory.
Crash(c) ==
  LET mine == {t \in Tasks : Owner[t] = c} IN
  /\ up[c] /\ Strike("crash")
  /\ up' = [up EXCEPT ![c] = FALSE]
  /\ mem' = [mem EXCEPT ![c] = Seed]
  /\ pending' = [pending EXCEPT ![c] = NoRecord]
  /\ pc' = [t \in Tasks |-> IF t \in mine THEN "idle" ELSE pc[t]]
  /\ refreshLock' = [refreshLock EXCEPT ![c] = NoTask]
  /\ fileLock' = IF fileLock \in mine THEN NoTask ELSE fileLock
  /\ Hangup(mine)
  /\ UNCHANGED <<issuer, file, kind>>

\* __init__ starts from the seed and loads the file.
Restart(c) ==
  /\ ~up[c]
  /\ up' = [up EXCEPT ![c] = TRUE]
  /\ mem' = [mem EXCEPT ![c] = Stored(c)]
  /\ UNCHANGED <<issuer, file, pending, locks, pc, kind, wire, late, faults>>

-----------------------------------------------------------------------------
(* The issuer and the clock                                                *)

\* It answers a renewal request that presents credential n with message m.
Answer(t, m) ==
  /\ wire[t].kind = "request"
  /\ wire' = [wire EXCEPT ![t] = m]
  /\ UNCHANGED <<file, memory, locks, pc, kind, late>>

Rotate(t) ==
  /\ wire[t].token = current /\ current < MaxRotations
  /\ Answer(t, Msg("reply", current + 1))
  /\ current' = current + 1
  /\ UNCHANGED <<due, faults>>

\* The server can return a no-op while the credential is still fresh.
KeepFresh(t) ==
  /\ "noop" \in Hazards
  /\ wire[t].token = current /\ current \notin due
  /\ Answer(t, Msg("reply", current))
  /\ UNCHANGED <<issuer, faults>>

RejectSuperseded(t) ==
  /\ wire[t].token # current
  /\ Answer(t, Msg("error", 0))
  /\ UNCHANGED <<issuer, faults>>

\* A rate limit, an outage, an expired credential; at the bound, every time.
Refuse(t) ==
  /\ Answer(t, Msg("error", 0))
  /\ \/ Strike("refuse")
     \/ current = MaxRotations /\ UNCHANGED faults
  /\ UNCHANGED issuer

\* A request whose sender is gone arrives; nobody gets the answer.
ArriveLate(n) ==
  /\ n \in late
  /\ late' = late \ {n}
  /\ \/ n = current /\ current < MaxRotations /\ current' = current + 1
     \/ UNCHANGED current
  /\ UNCHANGED <<due, file, memory, locks, pc, kind, wire, faults>>

\* Credential n comes within the renewal window of its expiry.
Age(n) ==
  /\ n \in (0 .. current) \ due
  /\ due' = due \cup {n}
  /\ UNCHANGED <<current, file, memory, locks, pc, kind, wire, late, faults>>

-----------------------------------------------------------------------------
(* The specification                                                       *)

\* The code between two awaits of a renewal that nothing interrupts.
Advance(t) ==
  \/ PersistPending(t) \/ LoadStored(t) \/ VerifyStorage(t)
  \/ TakeReply(t) \/ TakeError(t) \/ RunHook(t) \/ SendCall(t) \/ EndCall(t)

Fail(t) == FileLockFails(t) \/ FileLockTimesOut(t) \/ LoadFails(t) \/ HookFails(t)
           \/ HookReenters(t) \/ ExchangeFails(t) \/ Cancelled(t)

Serve(t) == Rotate(t) \/ KeepFresh(t) \/ RejectSuperseded(t) \/ Refuse(t)

TaskStep(t) ==
  \/ \E k \in {"force", "maybe", "call"} : Start(t, k)
  \/ StartStatus(t)
  \/ TakeRefreshLock(t) \/ TakeFileLock(t)
  \/ Advance(t) \/ Fail(t) \/ Serve(t)

Next ==
  \/ \E t \in Tasks : TaskStep(t)
  \/ \E c \in Clients : Crash(c) \/ Restart(c)
  \/ \E n \in late : ArriveLate(n)
  \/ \E n \in 0 .. current : Age(n)

Spec == Init /\ [][Next]_vars

(* The event loop resumes every task that can run; asyncio.Lock serves its *)
(* waiters in order, and the wait for the file lock (30 s, polled every    *)
(* 50 ms) outlasts a holder's exchange (10 s); the exchange always ends;   *)
(* the maintenance task asks again every minute; a supervisor restarts the *)
(* process.                                                                *)
Fairness ==
  /\ \A t \in Tasks :
       /\ SF_vars(Start(t, "maybe"))
       /\ SF_vars(TakeRefreshLock(t))
       /\ SF_vars(TakeFileLock(t))
       /\ WF_vars(FileLockTimesOut(t))
       /\ WF_vars(Advance(t))
       /\ WF_vars(Serve(t))
  /\ \A c \in Clients : WF_vars(Restart(c))

FairSpec == Spec /\ Fairness

-----------------------------------------------------------------------------
(* Properties                                                              *)

\* Between taking the file lock and leaving the block there is one task in
\* the whole installation, so one renewal at a time waits for the issuer
\* (client.py:339-346: "advisory locking serializes their renewal").
RenewalsSerialized ==
  \A s, t \in Tasks : pc[s] \in Critical /\ pc[t] \in Critical => s = t

\* The file is written before memory (client.py:348-354) and before a request
\* (:368-373): a renewal that waits for the issuer presents exactly what a
\* restart would find, and nobody holds or presents a credential newer than the
\* file's, except the seed, which the environment holds.
NeverAheadOfFile ==
  /\ \A t \in Tasks : wire[t].kind = "request" => wire[t].token = file.token
  /\ \A t \in Tasks : wire[t].kind = "call" /\ wire[t].token > file.token
                        => wire[t].token = 0
  /\ \A c \in Clients : mem[c].token > file.token => mem[c].token = 0

\* A call that is let past its check leaves its client with the very record in
\* the file, whatever the other workers renewed meanwhile: its request is not
\* built on a credential that was read earlier (client.py:219-223, 341-345,
\* 374-378).
ChecksEndCurrent ==
  [][\A t \in Tasks : pc[t] \in Critical /\ pc'[t] = "checked"
       => mem'[Owner[t]] = file']_vars

\* A renewal that is waiting for a second attempt to save it is the credential
\* the issuer accepts, so the retry restores the installation
\* (client.py:343-344, _pending_refresh).
UnsavedIsCurrent ==
  \A c \in Clients : pending[c] # NoRecord => pending[c].token = current

\* The private file "holds its current replacement" (credentials.py:3-4): a
\* record is never overwritten by the record of a superseded credential.
FileNeverRegresses == [][file'.token >= file.token]_vars

\* As long as a process lives its credential only moves forward: no reload of
\* the file and no retry takes it back (client.py:131-136, 348-354).
MemoryNeverRegresses ==
  [][\A c \in Clients : up[c] /\ up'[c] => mem'[c].token >= mem[c].token]_vars

\* The installation keeps the promise of CredentialChain: a replacement is
\* asked for on top of a stored credential only ("verify durable storage before
\* asking the server to supersede a credential", client.py:369-370), and the
\* file goes from one credential to the issuer's last, never back.
Chain == INSTANCE CredentialChain WITH issued <- current, stored <- file.token
ImplementsChain == Chain!Spec

\* The credential the issuer accepts is the seed, in the file, waiting to be
\* saved, or on its way to the task that asked: unless an exchange, a task or
\* a process is lost, the installation never locks itself out.
CurrentCredentialHeld ==
  \/ current = 0 \/ file.token = current
  \/ \E c \in Clients : pending[c].token = current
  \/ \E t \in Tasks : wire[t] = Msg("reply", current)

\* A renewal of client c is inside a callback that will not return.
Stuck(c) == \E t \in Tasks : Owner[t] = c /\ pc[t] = "stuck"

\* Whoever asks for a renewal gets an answer or an exception: a callback that
\* does not return blocks its client (client.py:339, 377) but none of the other
\* workers, although it holds the lock they wait for (credentials.py:46).
OperationsReturn ==
  \A t \in Tasks : pc[t] # "idle" ~> (pc[t] = "idle" \/ Stuck(Owner[t]))

\* Once the issuer has made its last credential and the faults are over,
\* every worker ends up with the credential the issuer accepts; unless one of
\* them keeps the file lock for good in a callback that does not return.
WorkersConverge ==
  <>[]((\A c \in Clients : mem[c].token = current) \/ \E c \in Clients : Stuck(c))

\* A renewal that a client completes is reported to on_token_refresh, the
\* "callback invoked after a successful service-token refresh" (client.py:88-90).
CompletedRenewalIsReported ==
  [][\A c \in Clients :
       up'[c] /\ pending[c] # NoRecord /\ pending'[c] = NoRecord
         => \E t \in Tasks : Owner[t] = c /\ pc'[t] = "hook"]_vars

=============================================================================
