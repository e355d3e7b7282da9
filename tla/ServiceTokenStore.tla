-------------------------- MODULE ServiceTokenStore --------------------------
(***************************************************************************)
(* ServiceTokenStore.save and load (credentials.py) step by step, on a     *)
(* POSIX file system: what is written survives a loss of power once its    *)
(* file is synced, and a rename once its directory is synced.              *)
(*                                                                         *)
(* Every save makes a file of its own; the n-th one holds record n, so     *)
(* that a file stands for its record.  CredentialRotation uses save and    *)
(* load as single steps: this module is why it may.                        *)
(*                                                                         *)
(* A chain is an origin and a seed: workers that are configured            *)
(* differently share the path, but not their records.                      *)
(***************************************************************************)
EXTENDS Integers, FiniteSets

CONSTANTS Processes,   \* workers that share the file
          NoProcess,   \* what a free advisory lock holds
          Chains,      \* pairs of origin and seed hash
          MaxSaves,    \* bound: saves begun
          MaxCrashes   \* bound: deaths, losses of power, files not removed

ASSUME StoreAssumption ==
  /\ NoProcess \notin Processes
  /\ MaxSaves \in Nat
  /\ MaxCrashes \in Nat

VARIABLES
  path,      \* the file the credential path names; 0 while there is none
  kept,      \* the files it may name after a loss of power
  temps,     \* files that still have their temporary name
  whole,     \* files that hold a complete record
  synced,    \* files whose content a loss of power cannot harm
  saves,     \* saves begun
  lock,      \* holder of the advisory lock beside the file
  pc,        \* where each process is in save or load
  mine,      \* the file each process writes
  got,       \* what each process loaded last; 0 is no record
  floor,     \* the last completed save when that load began
  acked,     \* the last save that returned
  chain,     \* the origin and seed each process is configured with
  of,        \* the chain of each record
  crashes    \* deaths, losses of power, files not removed so far

vars == <<path, kept, temps, whole, synced, saves, lock, pc, mine, got, floor,
          acked, chain, of, crashes>>
disk   == <<path, kept, temps, whole, synced>>
loads  == <<got, floor>>
config == <<chain, of>>

\* Inside save, with a temporary file at hand, or past the rename.
Temporary == {"made", "written", "synced", "failing"}
Saving    == Temporary \cup {"replaced"}

TypeOK ==
  /\ path \in 0 .. saves
  /\ kept \subseteq 0 .. saves
  /\ temps \subseteq 1 .. saves
  /\ whole \subseteq 1 .. saves
  /\ synced \subseteq whole
  /\ saves \in Nat
  /\ lock \in Processes \cup {NoProcess}
  /\ pc \in [Processes -> Saving \cup {"idle", "found"}]
  /\ mine \in [Processes -> 0 .. saves]
  /\ got \in [Processes -> 0 .. saves]
  /\ floor \in [Processes -> 0 .. saves]
  /\ acked \in 0 .. saves
  /\ chain \in [Processes -> Chains]
  /\ of \in [1 .. saves -> Chains]
  /\ crashes \in Nat

Init ==
  /\ path = 0
  /\ kept = {0}
  /\ temps = {}
  /\ whole = {}
  /\ synced = {}
  /\ saves = 0
  /\ lock = NoProcess
  /\ pc = [p \in Processes |-> "idle"]
  /\ mine = [p \in Processes |-> 0]
  /\ got = [p \in Processes |-> 0]
  /\ floor = [p \in Processes |-> 0]
  /\ acked = 0
  /\ chain \in [Processes -> Chains]
  /\ of = [n \in 1 .. 0 |-> CHOOSE c \in Chains : TRUE]
  /\ crashes = 0

-----------------------------------------------------------------------------
(* Helpers                                                                 *)

GoTo(p, where) == pc' = [pc EXCEPT ![p] = where]

\* Process p returns from save, and leaves the block of the lock.
Leave(p) == GoTo(p, "idle") /\ lock' = NoProcess

\* Mutant: workers save without the advisory lock.
Unlocked == TRUE

\* save is called inside "async with self._token_store.locked()" only.
LockFree == lock = NoProcess

\* Process p has loaded nothing.
ForgetLoad(p) ==
  /\ got' = [got EXCEPT ![p] = 0]
  /\ floor' = [floor EXCEPT ![p] = 0]

Strike == crashes < MaxCrashes /\ crashes' = crashes + 1

-----------------------------------------------------------------------------
(* save                                                                    *)

\* mkstemp; a save that fails before it changes nothing.
MakeTemporary(p) ==
  /\ pc[p] = "idle" /\ LockFree /\ saves < MaxSaves
  /\ lock' = p
  /\ saves' = saves + 1
  /\ mine' = [mine EXCEPT ![p] = saves + 1]
  /\ temps' = temps \cup {saves + 1}
  /\ of' = [n \in 1 .. saves + 1 |-> IF n = saves + 1 THEN chain[p] ELSE of[n]]
  /\ GoTo(p, "made")
  /\ UNCHANGED <<path, kept, whole, synced, loads, acked, chain, crashes>>

\* Mutant: no flush before the sync.
WriteUnflushed(p) ==
  /\ pc[p] = "made"
  /\ GoTo(p, "written")
  /\ UNCHANGED <<disk, saves, lock, mine, loads, acked, crashes, config>>

\* Mutant: os.replace does not wait for the sync of the file.
WriteOnly(p) ==
  /\ pc[p] = "made"
  /\ GoTo(p, "synced") /\ whole' = whole \cup {mine[p]}
  /\ UNCHANGED <<path, kept, temps, synced, saves, lock, mine, loads, acked, crashes, config>>

\* json.dump and flush.
Write(p) ==
  /\ pc[p] = "made"
  /\ GoTo(p, "written") /\ whole' = whole \cup {mine[p]}
  /\ UNCHANGED <<path, kept, temps, synced, saves, lock, mine, loads, acked, crashes, config>>

\* os.fsync of the file.
SyncFile(p) ==
  /\ pc[p] = "written"
  /\ GoTo(p, "synced") /\ synced' = synced \cup {mine[p]}
  /\ UNCHANGED <<path, kept, temps, whole, saves, lock, mine, loads, acked, crashes, config>>

\* os.replace: seen by every load at once, on disk at some later time.
Replace(p) ==
  /\ pc[p] = "synced"
  /\ GoTo(p, "replaced")
  /\ path' = mine[p]
  /\ kept' = kept \cup {mine[p]}
  /\ temps' = temps \ {mine[p]}
  /\ UNCHANGED <<whole, synced, saves, lock, mine, loads, acked, crashes, config>>

\* Mutant: save returns without a sync of the directory.
ReturnUnsynced(p) ==
  /\ pc[p] = "replaced"
  /\ Leave(p)
  /\ acked' = mine[p]
  /\ UNCHANGED <<disk, saves, mine, loads, crashes, config>>

\* os.fsync of the directory; save returns.
SyncDirectory(p) ==
  /\ pc[p] = "replaced"
  /\ Leave(p)
  /\ kept' = {path}
  /\ acked' = mine[p]
  /\ UNCHANGED <<path, temps, whole, synced, saves, mine, loads, crashes, config>>

\* An OSError of a step above.  Past the rename there is nothing to remove.
StepFails(p) ==
  /\ \/ pc[p] \in {"made", "written", "synced"} /\ GoTo(p, "failing") /\ UNCHANGED lock
     \/ pc[p] = "replaced" /\ Leave(p)
  /\ UNCHANGED <<disk, saves, mine, loads, acked, crashes, config>>

\* Mutant: the temporary file of a failed save stays.
LeaveTemporary(p) ==
  /\ pc[p] = "failing"
  /\ Leave(p)
  /\ UNCHANGED <<disk, saves, mine, loads, acked, crashes, config>>

\* "finally": the temporary file is removed, or that fails too.
RemoveTemporary(p) ==
  /\ pc[p] = "failing"
  /\ Leave(p)
  /\ \/ temps' = temps \ {mine[p]} /\ UNCHANGED crashes
     \/ Strike /\ UNCHANGED temps
  /\ UNCHANGED <<path, kept, whole, synced, saves, mine, loads, acked, config>>

-----------------------------------------------------------------------------
(* load, by any process, under the lock or not                             *)

\* lstat: no file is no record.
FindFile(p) ==
  /\ pc[p] = "idle"
  /\ floor' = [floor EXCEPT ![p] = acked]
  /\ IF path = 0
     THEN got' = [got EXCEPT ![p] = 0] /\ UNCHANGED pc
     ELSE GoTo(p, "found") /\ UNCHANGED got
  /\ UNCHANGED <<disk, saves, lock, mine, acked, crashes, config>>

\* Mutant: the origin and the seed of the record are not compared.
ReadAnyChain(p) ==
  /\ pc[p] = "found"
  /\ \/ path \in whole /\ got' = [got EXCEPT ![p] = path] /\ UNCHANGED floor
     \/ ForgetLoad(p)
  /\ GoTo(p, "idle")
  /\ UNCHANGED <<disk, saves, lock, mine, acked, crashes, config>>

\* read_bytes opens whatever the path names by now.  A record of another chain
\* is none.  It may raise, and does if the record is torn: then the load
\* returns nothing at all.
ReadFile(p) ==
  /\ pc[p] = "found"
  /\ \/ /\ path \in whole
        /\ got' = [got EXCEPT ![p] = IF of[path] = chain[p] THEN path ELSE 0]
        /\ UNCHANGED floor
     \/ ForgetLoad(p)
  /\ GoTo(p, "idle")
  /\ UNCHANGED <<disk, saves, lock, mine, acked, crashes, config>>

-----------------------------------------------------------------------------
(* Failures from outside                                                   *)

\* A process dies: its lock is free, its temporary file stays.
Die(p) ==
  /\ pc[p] # "idle" /\ Strike
  /\ GoTo(p, "idle")
  /\ lock' = IF lock = p THEN NoProcess ELSE lock
  /\ ForgetLoad(p)
  /\ UNCHANGED <<disk, saves, mine, acked, config>>

\* The machine loses power: names not synced may go back, data not synced is
\* torn, and so are all the processes' memories.
LosePower ==
  /\ Strike
  /\ \E f \in kept : path' = f /\ kept' = {f}
  /\ temps' \in SUBSET temps
  /\ whole' = synced
  /\ lock' = NoProcess
  /\ pc' = [p \in Processes |-> "idle"]
  /\ got' = [p \in Processes |-> 0]
  /\ floor' = [p \in Processes |-> 0]
  /\ UNCHANGED <<synced, saves, mine, acked, config>>

\* A worker is started again with another origin or seed, which starts a new
\* chain (README.md:24).
Reconfigure(p) ==
  /\ pc[p] = "idle"
  /\ \E c \in Chains \ {chain[p]} : chain' = [chain EXCEPT ![p] = c]
  /\ ForgetLoad(p)
  /\ UNCHANGED <<disk, saves, lock, pc, mine, acked, of, crashes>>

-----------------------------------------------------------------------------
(* The specification                                                       *)

Save(p) == \/ MakeTemporary(p) \/ Write(p) \/ SyncFile(p) \/ Replace(p)
           \/ SyncDirectory(p) \/ StepFails(p) \/ RemoveTemporary(p)

Load(p) == FindFile(p) \/ ReadFile(p)

Next == \/ \E p \in Processes : Save(p) \/ Load(p) \/ Die(p) \/ Reconfigure(p)
        \/ LosePower

Spec == Init /\ [][Next]_vars

-----------------------------------------------------------------------------
(* Properties                                                              *)

\* The credential path names a complete record, now and after a loss of power:
\* it is written and synced under another name (credentials.py:82-87).
RecordsAreWhole ==
  /\ path # 0 => path \in whole
  /\ kept \ {0} \subseteq synced

\* A record whose save returned is found by every later load, or a newer one
\* is, whatever dies in between (credentials.py:87-94; client.py:369-370 asks
\* the server to supersede a credential on the strength of it).
SavedSurvives == \A f \in kept \cup {path} : f >= acked

\* A load, which may run outside the lock while others save and die, returns
\* no record older than the last save completed before it, and comes back
\* without one only if a worker of another chain has saved since
\* (credentials.py:51-67).
Fresh(p) ==
  pc[p] # "found" =>
    \/ got[p] >= floor[p]
    \/ got[p] = 0 /\ \E n \in floor[p] .. saves : of[n] # chain[p]
LoadsAreFresh == \A p \in Processes : Fresh(p)

\* No worker ever takes up a credential that was saved for another origin or
\* seed, whoever saves between its two looks at the file (credentials.py:65-66).
LoadsStayInChain == \A p \in Processes : got[p] # 0 => of[got[p]] = chain[p]

\* Temporary files are left behind by deaths and failed removals only
\* (credentials.py:97-99).
TemporariesAccounted ==
  Cardinality(temps) <= Cardinality({p \in Processes : pc[p] \in Temporary}) + crashes

\* The file behaves as DurableRegister: records replace each other whole, the
\* order of saves is kept, and what a save returned for is settled.  A file
\* whose record is torn is no value of the register.
Torn == -1
Register == INSTANCE DurableRegister WITH
  value   <- IF path = 0 \/ path \in whole THEN path ELSE Torn,
  kept    <- {IF f = 0 \/ f \in synced THEN f ELSE Torn : f \in kept},
  settled <- acked
ImplementsRegister == Register!Spec

=============================================================================
