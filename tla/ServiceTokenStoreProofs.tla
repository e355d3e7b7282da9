----------------------- MODULE ServiceTokenStoreProofs -----------------------
(***************************************************************************)
(* Theorems about ServiceTokenStore, for any processes and any number of   *)
(* saves, deaths and losses of power.                                      *)
(***************************************************************************)
EXTENDS ServiceTokenStore, FiniteSetTheorems, TLAPS

(* The inductive invariant *)

\* Who saves holds the lock.
Turn == \A p \in Processes : pc[p] \in Saving => lock = p

\* How far a save has come.
Progress ==
  \A p \in Processes :
    /\ pc[p] \in Temporary => /\ mine[p] \in temps
                              /\ \A f \in kept : f < mine[p]
    /\ pc[p] = "written" => mine[p] \in whole
    /\ pc[p] = "synced" => mine[p] \in synced
    /\ pc[p] = "replaced" => path = mine[p]

\* What a load knows of the last completed save is not ahead of it.
FloorReached == \A p \in Processes : floor[p] <= acked

IInv == /\ TypeOK
        /\ path \in kept
        /\ RecordsAreWhole
        /\ SavedSurvives
        /\ Turn
        /\ Progress
        /\ FloorReached
        /\ LoadsAreFresh
        /\ LoadsStayInChain

\* Every variable always has its type.
LEMMA TypeStep == TypeOK /\ Turn /\ Progress /\ path \in kept /\ [Next]_vars => TypeOK'
<1> SUFFICES ASSUME TypeOK, Turn, Progress, path \in kept, [Next]_vars PROVE TypeOK'
  OBVIOUS
<1> USE StoreAssumption DEF TypeOK, Saving, Temporary, GoTo, Leave, Strike, ForgetLoad,
                            disk, loads, config
<1>1. ASSUME NEW p \in Processes, MakeTemporary(p) PROVE TypeOK'
  BY <1>1 DEF MakeTemporary
<1>2. ASSUME NEW p \in Processes, Write(p) PROVE TypeOK'
  BY <1>2 DEF Write, Progress
<1>3. ASSUME NEW p \in Processes, SyncFile(p) PROVE TypeOK'
  BY <1>3 DEF SyncFile, Progress
<1>4. ASSUME NEW p \in Processes, Replace(p) PROVE TypeOK'
  BY <1>4 DEF Replace
<1>5. ASSUME NEW p \in Processes, SyncDirectory(p) PROVE TypeOK'
  BY <1>5 DEF SyncDirectory
<1>6. ASSUME NEW p \in Processes, StepFails(p) PROVE TypeOK'
  BY <1>6 DEF StepFails
<1>7. ASSUME NEW p \in Processes, RemoveTemporary(p) PROVE TypeOK'
  <2>1. saves' = saves /\ temps' \subseteq temps
    BY <1>7 DEF RemoveTemporary
  <2>2. crashes' \in Nat
    BY <1>7 DEF RemoveTemporary
  <2> QED
    BY <1>7, <2>1, <2>2 DEF RemoveTemporary
<1>8. ASSUME NEW p \in Processes, FindFile(p) \/ ReadFile(p) PROVE TypeOK'
  <2>1. got' \in [Processes -> 0 .. saves]
    <3>1. CASE FindFile(p)
      BY <3>1 DEF FindFile
    <3>2. ASSUME NEW n \in 0 .. saves, got' = [got EXCEPT ![p] = n]
          PROVE  got' \in [Processes -> 0 .. saves]
      BY <3>2
    <3>3. CASE ReadFile(p)
      <4>1. (IF of[path] = chain[p] THEN path ELSE 0) \in 0 .. saves /\ 0 \in 0 .. saves
        OBVIOUS
      <4>2. \/ got' = [got EXCEPT ![p] = IF of[path] = chain[p] THEN path ELSE 0]
            \/ got' = [got EXCEPT ![p] = 0]
        BY <3>3 DEF ReadFile
      <4> QED
        BY <3>2, <4>1, <4>2
    <3> QED
      BY <1>8, <3>1, <3>3
  <2>3. floor' \in [Processes -> 0 .. saves]
    <3>1. \/ floor' = floor
          \/ floor' = [floor EXCEPT ![p] = 0]
          \/ floor' = [floor EXCEPT ![p] = acked]
      BY <1>8 DEF FindFile, ReadFile
    <3>2. ASSUME NEW n \in 0 .. saves, floor' = [floor EXCEPT ![p] = n]
          PROVE  floor' \in [Processes -> 0 .. saves]
      BY <3>2
    <3>3. 0 \in 0 .. saves /\ acked \in 0 .. saves
      OBVIOUS
    <3> QED
      BY <3>1, <3>2, <3>3
  <2>2. pc' \in [Processes -> Saving \cup {"idle", "found"}]
    BY <1>8 DEF FindFile, ReadFile
  <2> QED
    BY <1>8, <2>1, <2>2, <2>3 DEF FindFile, ReadFile
<1>9. ASSUME NEW p \in Processes, Die(p) PROVE TypeOK'
  BY <1>9 DEF Die
<1>10. ASSUME NEW p \in Processes, Reconfigure(p) PROVE TypeOK'
  BY <1>10 DEF Reconfigure
<1>11. CASE LosePower
  BY <1>11 DEF LosePower
<1>12. CASE UNCHANGED vars
  BY <1>12 DEF vars
<1> QED
  BY <1>1, <1>2, <1>3, <1>4, <1>5, <1>6, <1>7, <1>8, <1>9, <1>10, <1>11, <1>12
  DEF Next, Save, Load

\* One step keeps the invariant.
LEMMA Step == IInv /\ [Next]_vars => IInv'
<1> SUFFICES ASSUME IInv, [Next]_vars PROVE IInv'
  OBVIOUS
<1>0. TypeOK'
  BY TypeStep DEF IInv
<1> USE <1>0, StoreAssumption
    DEF IInv, TypeOK, RecordsAreWhole, SavedSurvives, Turn, Progress, FloorReached,
        LoadsAreFresh, Fresh, LoadsStayInChain, Saving, Temporary, GoTo, Leave, Strike,
        ForgetLoad, disk, loads, config
<1>1. ASSUME NEW p \in Processes, MakeTemporary(p) PROVE IInv'
  <2>1. \A q \in Processes : q # p => pc[q] \notin Saving /\ pc'[q] = pc[q]
    BY <1>1 DEF MakeTemporary, LockFree
  <2>2. \A f \in kept : f < mine'[p]
    BY <1>1 DEF MakeTemporary
  <2>3. pc'[p] = "made" /\ mine'[p] \in temps' /\ lock' = p
    BY <1>1 DEF MakeTemporary
  <2>4. Turn' /\ Progress'
    BY <1>1, <2>1, <2>2, <2>3 DEF MakeTemporary
  <2>5. \A n \in 1 .. saves : n \in 1 .. saves' /\ of'[n] = of[n]
    BY <1>1 DEF MakeTemporary
  <2>6. /\ \A q \in Processes : pc'[q] = "found" <=> pc[q] = "found"
        /\ UNCHANGED <<got, floor, chain>>
    BY <1>1 DEF MakeTemporary
  <2>7. LoadsStayInChain'
    <3> SUFFICES ASSUME NEW q \in Processes, got'[q] # 0
        PROVE  of'[got'[q]] = chain'[q]
      BY DEF LoadsStayInChain
    <3>1. got[q] \in 1 .. saves /\ got'[q] = got[q]
      BY <2>6, SMTT(30)
    <3>2. of'[got[q]] = of[got[q]]
      BY <2>5, <3>1
    <3> QED
      BY <2>6, <3>1, <3>2
  <2>8. ASSUME NEW q \in Processes, pc[q] # "found", got[q] = 0,
               NEW n \in floor[q] .. saves, of[n] # chain[q], floor[q] # 0
        PROVE  n \in floor'[q] .. saves' /\ of'[n] # chain'[q]
    BY <1>1, <2>5, <2>6, <2>8 DEF MakeTemporary
  <2>9. \A q \in Processes : floor[q] = 0 => got[q] >= floor[q]
    OBVIOUS
  <2>10. LoadsAreFresh'
    BY <2>6, <2>8, <2>9
  <2> QED
    BY <1>1, <2>4, <2>7, <2>10 DEF MakeTemporary
<1>2. ASSUME NEW p \in Processes, Write(p) PROVE IInv'
  BY <1>2 DEF Write
<1>3. ASSUME NEW p \in Processes, SyncFile(p) PROVE IInv'
  BY <1>3 DEF SyncFile
<1>4. ASSUME NEW p \in Processes, Replace(p) PROVE IInv'
  <2>1. \A q \in Processes : q # p => pc[q] \notin Saving /\ pc'[q] = pc[q]
    BY <1>4 DEF Replace
  <2>2. mine[p] > acked /\ mine[p] \in synced /\ mine[p] # 0
    BY <1>4 DEF Replace
  <2>3. SavedSurvives' /\ RecordsAreWhole' /\ path' \in kept'
    BY <1>4, <2>2 DEF Replace
  <2>4. Turn' /\ Progress'
    BY <1>4, <2>1 DEF Replace
  <2> QED
    BY <1>4, <2>3, <2>4 DEF Replace
<1>5. ASSUME NEW p \in Processes, SyncDirectory(p) PROVE IInv'
  <2>1. \A q \in Processes : q # p => pc[q] \notin Saving /\ pc'[q] = pc[q]
    BY <1>5 DEF SyncDirectory
  <2>2. acked' = path /\ acked <= path
    BY <1>5 DEF SyncDirectory
  <2>3. Turn' /\ Progress'
    BY <1>5, <2>1 DEF SyncDirectory
  <2>4. FloorReached'
    BY <1>5, <2>2 DEF SyncDirectory
  <2> QED
    BY <1>5, <2>2, <2>3, <2>4 DEF SyncDirectory
<1>6. ASSUME NEW p \in Processes, StepFails(p) PROVE IInv'
  <2>1. UNCHANGED <<disk, saves, mine, loads, acked, crashes, config>>
    BY <1>6 DEF StepFails
  <2>2. pc[p] \in Saving /\ pc'[p] \in {"failing", "idle"}
    BY <1>6 DEF StepFails
  <2>3. \A q \in Processes : q # p => pc'[q] = pc[q] /\ pc[q] \notin Saving
    BY <1>6 DEF StepFails
  <2>4. pc'[p] \in Saving => lock' = p
    BY <1>6 DEF StepFails
  <2>5. \A q \in Processes : pc'[q] = "found" <=> pc[q] = "found"
    BY <2>2, <2>3
  <2>6. Turn'
    BY <2>2, <2>3, <2>4
  <2>7. Progress'
    <3> SUFFICES ASSUME NEW q \in Processes
        PROVE  /\ pc'[q] \in Temporary => mine'[q] \in temps' /\ \A f \in kept' : f < mine'[q]
               /\ pc'[q] = "written" => mine'[q] \in whole'
               /\ pc'[q] = "synced" => mine'[q] \in synced'
               /\ pc'[q] = "replaced" => path' = mine'[q]
      BY DEF Progress
    <3>1. CASE q = p
      <4>1. pc'[p] \notin {"written", "synced", "replaced"}
        BY <2>2
      <4>2. pc'[p] \in Temporary => pc[p] \in Temporary
        BY <1>6 DEF StepFails
      <4> QED
        BY <2>1, <3>1, <4>1, <4>2
    <3>2. CASE q # p
      BY <2>1, <2>3, <3>2
    <3> QED
      BY <3>1, <3>2
  <2>8. RecordsAreWhole' /\ SavedSurvives' /\ FloorReached' /\ path' \in kept'
    BY <2>1
  <2>9. LoadsAreFresh'
    BY <2>1, <2>5
  <2>10. LoadsStayInChain'
    BY <2>1
  <2> HIDE DEF TypeOK, RecordsAreWhole, SavedSurvives, Turn, Progress, FloorReached,
               LoadsAreFresh, LoadsStayInChain
  <2> QED
    BY <2>6, <2>7, <2>8, <2>9, <2>10
<1>7. ASSUME NEW p \in Processes, RemoveTemporary(p) PROVE IInv'
  <2>1. \A q \in Processes : q # p => pc[q] \notin Saving /\ pc'[q] = pc[q]
    BY <1>7 DEF RemoveTemporary
  <2> QED
    BY <1>7, <2>1 DEF RemoveTemporary
<1>8. ASSUME NEW p \in Processes, FindFile(p) PROVE IInv'
  <2>1. path = 0 => acked = 0
    OBVIOUS
  <2>2. \A q \in Processes : q # p =>
          pc'[q] = pc[q] /\ got'[q] = got[q] /\ floor'[q] = floor[q]
    BY <1>8 DEF FindFile
  <2>3. pc'[p] # "found" => got'[p] = 0 /\ floor'[p] = 0
    BY <1>8, <2>1 DEF FindFile
  <2>4. got'[p] = got[p] \/ got'[p] = 0
    BY <1>8 DEF FindFile
  <2>5. LoadsAreFresh'
    <3>1. UNCHANGED <<saves, of, chain>>
      BY <1>8 DEF FindFile
    <3>2. ASSUME NEW q \in Processes, q # p PROVE Fresh(q)'
      BY <2>2, <3>1, <3>2
    <3>3. Fresh(p)'
      BY <2>3
    <3> QED
      BY <3>2, <3>3
  <2>6. LoadsStayInChain'
    BY <1>8, <2>2, <2>4 DEF FindFile
  <2>7. Turn' /\ Progress' /\ FloorReached'
    BY <1>8, <2>2 DEF FindFile
  <2> QED
    BY <1>8, <2>5, <2>6, <2>7 DEF FindFile
<1>9. ASSUME NEW p \in Processes, ReadFile(p) PROVE IInv'
  <2>1. \A q \in Processes : q # p =>
          pc'[q] = pc[q] /\ got'[q] = got[q] /\ floor'[q] = floor[q]
    BY <1>9 DEF ReadFile
  <2>2. \/ path # 0 /\ floor'[p] = floor[p]
            /\ got'[p] = IF of[path] = chain[p] THEN path ELSE 0
        \/ got'[p] = 0 /\ floor'[p] = 0
    BY <1>9 DEF ReadFile
  <2>3. path \in floor[p] .. saves
    OBVIOUS
  <2>4. UNCHANGED <<saves, of, chain>>
    BY <1>9 DEF ReadFile
  <2>5. LoadsAreFresh'
    <3>1. ASSUME NEW q \in Processes, q # p PROVE Fresh(q)'
      BY <2>1, <2>4, <3>1
    <3>2. Fresh(p)'
      BY <2>2, <2>3, <2>4
    <3> QED
      BY <3>1, <3>2
  <2>6. LoadsStayInChain'
    <3>1. ASSUME NEW q \in Processes, q # p, got'[q] # 0 PROVE of'[got'[q]] = chain'[q]
      BY <2>1, <2>4, <3>1
    <3>2. got'[p] # 0 => of'[got'[p]] = chain'[p]
      BY <2>2, <2>4
    <3> QED
      BY <3>1, <3>2
  <2>7. pc'[p] = "idle" /\ UNCHANGED <<path, kept, temps, whole, synced, lock, mine, acked>>
    BY <1>9 DEF ReadFile
  <2>8. Turn'
    BY <2>1, <2>7
  <2>9. Progress'
    BY <2>1, <2>7
  <2>10. FloorReached'
    <3>1. 0 <= acked /\ floor[p] <= acked /\ acked' = acked
      BY <2>7
    <3>2. floor'[p] <= acked'
      BY <2>2, <3>1
    <3> QED
      BY <2>1, <3>1, <3>2
  <2>11. TypeOK' /\ path' \in kept' /\ RecordsAreWhole' /\ SavedSurvives'
    BY <2>4, <2>7
  <2> HIDE DEF TypeOK, RecordsAreWhole, SavedSurvives, Turn, Progress, FloorReached,
               LoadsAreFresh, LoadsStayInChain
  <2> QED
    BY <2>5, <2>6, <2>8, <2>9, <2>10, <2>11
<1>10. ASSUME NEW p \in Processes, Die(p) PROVE IInv'
  <2>1. UNCHANGED <<disk, saves, mine, acked, config>>
    BY <1>10 DEF Die
  <2>2. pc'[p] = "idle" /\ got'[p] = 0 /\ floor'[p] = 0
    BY <1>10 DEF Die
  <2>3. \A q \in Processes : q # p =>
          pc'[q] = pc[q] /\ got'[q] = got[q] /\ floor'[q] = floor[q]
    BY <1>10 DEF Die
  <2>4. \A q \in Processes : q # p /\ pc[q] \in Saving => lock' = q
    BY <1>10 DEF Die
  <2>5. Turn'
    BY <2>2, <2>3, <2>4
  <2>6. Progress'
    <3> SUFFICES ASSUME NEW q \in Processes
        PROVE  /\ pc'[q] \in Temporary => mine'[q] \in temps' /\ \A f \in kept' : f < mine'[q]
               /\ pc'[q] = "written" => mine'[q] \in whole'
               /\ pc'[q] = "synced" => mine'[q] \in synced'
               /\ pc'[q] = "replaced" => path' = mine'[q]
      BY DEF Progress
    <3>1. CASE q = p
      <4>1. pc'[q] \notin Temporary \cup {"written", "synced", "replaced"}
        BY <2>2, <3>1
      <4> QED
        BY <4>1
    <3>2. CASE q # p
      BY <2>1, <2>3, <3>2
    <3> QED
      BY <3>1, <3>2
  <2>7. RecordsAreWhole' /\ SavedSurvives' /\ path' \in kept'
    BY <2>1
  <2>8. FloorReached'
    <3>1. 0 <= acked /\ acked' = acked
      BY <2>1
    <3>2. floor'[p] <= acked'
      BY <2>2, <3>1
    <3>3. \A q \in Processes : q # p => floor'[q] <= acked'
      BY <2>3, <3>1
    <3> QED
      BY <3>2, <3>3
  <2>9. LoadsAreFresh'
    <3>1. ASSUME NEW q \in Processes, q # p PROVE Fresh(q)'
      BY <2>1, <2>3, <3>1
    <3>2. Fresh(p)'
      BY <2>2
    <3> QED
      BY <3>1, <3>2
  <2>10. LoadsStayInChain'
    BY <2>1, <2>2, <2>3
  <2> HIDE DEF TypeOK, RecordsAreWhole, SavedSurvives, Turn, Progress, FloorReached,
               LoadsAreFresh, LoadsStayInChain
  <2> QED
    BY <2>5, <2>6, <2>7, <2>8, <2>9, <2>10
<1>11. ASSUME NEW p \in Processes, Reconfigure(p) PROVE IInv'
  <2>1. UNCHANGED <<disk, saves, lock, pc, mine, acked, of, crashes>>
    BY <1>11 DEF Reconfigure
  <2>2. got'[p] = 0 /\ floor'[p] = 0 /\ pc'[p] = "idle"
    BY <1>11 DEF Reconfigure
  <2>3. \A q \in Processes : q # p =>
          chain'[q] = chain[q] /\ got'[q] = got[q] /\ floor'[q] = floor[q]
    BY <1>11 DEF Reconfigure
  <2>4. Turn' /\ Progress' /\ RecordsAreWhole' /\ SavedSurvives' /\ path' \in kept'
    BY <2>1
  <2>5. FloorReached'
    <3>1. 0 <= acked /\ acked' = acked
      BY <2>1
    <3>2. floor'[p] <= acked'
      BY <2>2, <3>1
    <3>3. \A q \in Processes : q # p => floor'[q] <= acked'
      BY <2>3, <3>1
    <3> QED
      BY <3>2, <3>3
  <2>6. LoadsAreFresh'
    <3>1. ASSUME NEW q \in Processes, q # p PROVE Fresh(q)'
      BY <2>1, <2>3, <3>1
    <3>2. Fresh(p)'
      BY <2>2
    <3> QED
      BY <3>1, <3>2
  <2>7. LoadsStayInChain'
    BY <2>1, <2>2, <2>3
  <2> HIDE DEF TypeOK, RecordsAreWhole, SavedSurvives, Turn, Progress, FloorReached,
               LoadsAreFresh, LoadsStayInChain
  <2> QED
    BY <2>4, <2>5, <2>6, <2>7
<1>12. CASE LosePower
  BY <1>12 DEF LosePower
<1>13. CASE UNCHANGED vars
  BY <1>13 DEF vars
<1> QED
  BY <1>1, <1>2, <1>3, <1>4, <1>5, <1>6, <1>7, <1>8, <1>9, <1>10, <1>11, <1>12, <1>13
  DEF Next, Save, Load

LEMMA Start == Init => IInv
  BY StoreAssumption
  DEF Init, IInv, TypeOK, RecordsAreWhole, SavedSurvives, Turn, Progress,
      FloorReached, LoadsAreFresh, Fresh, LoadsStayInChain, Saving, Temporary

LEMMA Invariance == Spec => []IInv
<1>1. Init => IInv
  BY Start
<1>2. IInv /\ [Next]_vars => IInv'
  BY Step
<1> QED
  BY <1>1, <1>2, PTL DEF Spec

\* Every variable of the store always has its type (credentials.py:36-99).
THEOREM TypeCorrect == Spec => []TypeOK
  BY Invariance, PTL DEF IInv

\* The credential path never names half a record, not even after a loss of
\* power in the middle of a save (credentials.py:82-87).
THEOREM WholeRecords == Spec => []RecordsAreWhole
  BY Invariance, PTL DEF IInv

\* No death and no loss of power takes back a save that returned
\* (credentials.py:87-94).
THEOREM SavesAreDurable == Spec => []SavedSurvives
  BY Invariance, PTL DEF IInv

\* A load outside the lock is as good as one inside: it never returns a record
\* older than the last save completed before it, and loses sight of that save
\* only to a worker of another chain (credentials.py:51-67).
THEOREM FreshLoads == Spec => []LoadsAreFresh
  BY Invariance, PTL DEF IInv

\* Workers of any number of chains may share the path, and be configured anew
\* at any time: none takes up a record of another chain (credentials.py:65-66).
THEOREM ChainsApart == Spec => []LoadsStayInChain
  BY Invariance, PTL DEF IInv

-----------------------------------------------------------------------------
(* The file implements DurableRegister                                     *)

\* A reachable file holds whole records, so it is the register as it stands.
LEMMA Mapping ==
  TypeOK /\ RecordsAreWhole =>
    /\ (IF path = 0 \/ path \in whole THEN path ELSE Torn) = path
    /\ {IF f = 0 \/ f \in synced THEN f ELSE Torn : f \in kept} = kept
<1> SUFFICES ASSUME TypeOK, RecordsAreWhole
    PROVE  {IF f = 0 \/ f \in synced THEN f ELSE Torn : f \in kept} = kept
  BY DEF RecordsAreWhole
<1>1. \A f \in kept : (IF f = 0 \/ f \in synced THEN f ELSE Torn) = f
  BY DEF RecordsAreWhole
<1> QED
  BY <1>1, Zenon

LEMMA RegisterStep == IInv /\ IInv' /\ [Next]_vars =>
  [Register!Put \/ Register!Settle \/ Register!PowerLoss]_(Register!vars)
<1> SUFFICES ASSUME IInv, IInv', [Next]_vars
    PROVE  \/ Register!Put \/ Register!Settle \/ Register!PowerLoss
           \/ UNCHANGED Register!vars
  BY DEF Register!vars
<1> DEFINE value == IF path = 0 \/ path \in whole THEN path ELSE Torn
           keep  == {IF f = 0 \/ f \in synced THEN f ELSE Torn : f \in kept}
<1>1. value = path /\ keep = kept
  BY Mapping DEF IInv
<1>2. value' = path' /\ keep' = kept'
  <2>1. (TypeOK /\ RecordsAreWhole =>
           /\ (IF path = 0 \/ path \in whole THEN path ELSE Torn) = path
           /\ {IF f = 0 \/ f \in synced THEN f ELSE Torn : f \in kept} = kept)'
    BY Mapping, PTL
  <2> QED
    BY <2>1 DEF IInv
<1> HIDE DEF value, keep
<1>3. ASSUME NEW p \in Processes, Replace(p) PROVE Register!Put
  <2>1. path' > path
    BY <1>3 DEF Replace, IInv, TypeOK, Progress, Temporary
  <2>2. value' > value /\ keep' = keep \cup {value'} /\ acked' = acked
    BY <1>1, <1>2, <1>3, <2>1 DEF Replace
  <2> QED
    BY <2>2 DEF Register!Put, value, keep
<1>4. ASSUME NEW p \in Processes, SyncDirectory(p) PROVE Register!Settle
  <2>1. keep' = {value} /\ acked' = value /\ value' = value
    BY <1>1, <1>2, <1>4 DEF SyncDirectory, IInv, Progress
  <2> QED
    BY <2>1 DEF Register!Settle, value, keep
<1>5. ASSUME LosePower PROVE Register!PowerLoss
  <2>1. PICK f \in kept : path' = f /\ kept' = {f}
    BY <1>5 DEF LosePower
  <2>2. f \in keep /\ value' = f /\ keep' = {f} /\ acked' = acked
    BY <1>1, <1>2, <1>5, <2>1 DEF LosePower
  <2> QED
    BY <2>2 DEF Register!PowerLoss, value, keep
<1>6. ASSUME path' = path, kept' = kept, acked' = acked PROVE UNCHANGED Register!vars
  <2>1. value' = value /\ keep' = keep
    BY <1>1, <1>2, <1>6
  <2> QED
    BY <1>6, <2>1 DEF Register!vars, value, keep
<1>7. ASSUME NEW p \in Processes,
             \/ MakeTemporary(p) \/ Write(p) \/ SyncFile(p) \/ StepFails(p)
             \/ RemoveTemporary(p) \/ FindFile(p) \/ ReadFile(p) \/ Die(p)
             \/ Reconfigure(p)
      PROVE  UNCHANGED Register!vars
  BY <1>6, <1>7 DEF MakeTemporary, Write, SyncFile, StepFails, RemoveTemporary,
                    FindFile, ReadFile, Die, Reconfigure, disk
<1>8. CASE UNCHANGED vars
  BY <1>6, <1>8 DEF vars
<1> QED
  BY <1>3, <1>4, <1>5, <1>7, <1>8 DEF Next, Save, Load

\* Loads, saves, deaths and losses of power together behave as one register
\* whose records replace each other whole (credentials.py:51-99).
THEOREM RegisterImplemented == Spec => ImplementsRegister
<1>1. Init => Register!Init
  BY DEF Init, Register!Init
<1>2. IInv /\ IInv' /\ [Next]_vars =>
        [Register!Put \/ Register!Settle \/ Register!PowerLoss]_(Register!vars)
  BY RegisterStep
<1> QED
  BY <1>1, <1>2, Invariance, PTL DEF Spec, ImplementsRegister, Register!Spec

-----------------------------------------------------------------------------
(* Temporary files                                                         *)

Active == {p \in Processes : pc[p] \in Temporary}

\* At most the lock's holder has a temporary file in use.
LEMMA ActiveSize ==
  Turn => /\ Active = {} \/ Active = {lock}
          /\ IsFiniteSet(Active)
          /\ Cardinality(Active) = IF Active = {} THEN 0 ELSE 1
<1> SUFFICES ASSUME Turn
    PROVE  /\ Active = {} \/ Active = {lock}
           /\ IsFiniteSet(Active)
           /\ Cardinality(Active) = IF Active = {} THEN 0 ELSE 1
  OBVIOUS
<1>1. \A p \in Active : p = lock
  BY DEF Turn, Active, Saving
<1>2. Active = {} \/ Active = {lock}
  BY <1>1
<1> QED
  BY <1>2, FS_EmptySet, FS_Singleton

\* One more file makes one more at most.
LEMMA AddSize ==
  ASSUME NEW S, NEW f, IsFiniteSet(S)
  PROVE  /\ Cardinality(S \cup {f}) <= Cardinality(S) + 1
         /\ Cardinality(S \cup {f}) \in Nat
<1>1. /\ IsFiniteSet(S \cup {f})
      /\ Cardinality(S \cup {f}) = Cardinality(S) \/ Cardinality(S \cup {f}) = Cardinality(S) + 1
  BY FS_AddElement
<1>2. Cardinality(S) \in Nat /\ Cardinality(S \cup {f}) \in Nat
  BY <1>1, FS_CardinalityType
<1> QED
  BY <1>1, <1>2

LEMMA AccountStep ==
  IInv /\ IInv' /\ TemporariesAccounted /\ [Next]_vars => TemporariesAccounted'
<1> SUFFICES ASSUME IInv, IInv', TemporariesAccounted, [Next]_vars
    PROVE  TemporariesAccounted'
  OBVIOUS
<1> USE DEF Strike, GoTo, Leave, ForgetLoad, disk, loads, config
<1>1. Cardinality(temps) <= Cardinality(Active) + crashes
  BY DEF TemporariesAccounted, Active
<1>2. SUFFICES Cardinality(temps') <= Cardinality(Active') + crashes'
  BY DEF TemporariesAccounted, Active
<1>3. IsFiniteSet(temps) /\ Cardinality(temps) \in Nat
  <2>1. IsFiniteSet(1 .. saves)
    BY FS_Interval DEF IInv, TypeOK
  <2> QED
    BY <2>1, FS_Subset, FS_CardinalityType DEF IInv, TypeOK
<1>4. Cardinality(Active) = IF Active = {} THEN 0 ELSE 1
  BY ActiveSize DEF IInv
<1>5. Cardinality(Active') = IF Active' = {} THEN 0 ELSE 1
  <2>1. (Turn => /\ Active = {} \/ Active = {lock}
                 /\ IsFiniteSet(Active)
                 /\ Cardinality(Active) = IF Active = {} THEN 0 ELSE 1)'
    BY ActiveSize, PTL
  <2> QED
    BY <2>1 DEF IInv
<1>6. crashes \in Nat /\ crashes' \in Nat
  BY DEF IInv, TypeOK
<1>7. ASSUME NEW p \in Processes, MakeTemporary(p)
      PROVE  Cardinality(temps') <= Cardinality(Active') + crashes'
  <2>1. Active = {}
    BY <1>7, StoreAssumption DEF MakeTemporary, LockFree, Active, IInv, Turn, Saving
  <2>2. p \in Active'
    BY <1>7 DEF MakeTemporary, Active, Temporary, IInv, TypeOK
  <2>3. temps' = temps \cup {saves + 1} /\ crashes' = crashes
    BY <1>7 DEF MakeTemporary
  <2>4. Cardinality(temps') <= Cardinality(temps) + 1 /\ Cardinality(temps') \in Nat
    BY <1>3, <2>3, AddSize
  <2> QED
    BY <1>1, <1>3, <1>4, <1>5, <1>6, <2>1, <2>2, <2>3, <2>4
<1>8. ASSUME NEW p \in Processes, temps' = temps, crashes' = crashes,
             pc[p] \in Temporary => pc'[p] \in Temporary,
             \A q \in Processes : q # p => pc'[q] = pc[q]
      PROVE  Cardinality(temps') <= Cardinality(Active') + crashes'
  <2>1. Active # {} => Active' # {}
    BY <1>8 DEF Active
  <2> QED
    BY <1>1, <1>3, <1>4, <1>5, <1>6, <1>8, <2>1
<1>9. ASSUME NEW p \in Processes,
             Write(p) \/ SyncFile(p) \/ SyncDirectory(p) \/ StepFails(p)
             \/ FindFile(p) \/ ReadFile(p) \/ Reconfigure(p)
      PROVE  Cardinality(temps') <= Cardinality(Active') + crashes'
  BY <1>8, <1>9 DEF Write, SyncFile, SyncDirectory, StepFails, FindFile, ReadFile,
                    Reconfigure, Temporary, IInv, TypeOK
<1>10. ASSUME NEW p \in Processes, p \in Active, temps' = temps \ {mine[p]}, crashes' = crashes
       PROVE  Cardinality(temps') <= Cardinality(Active') + crashes'
  <2>1. mine[p] \in temps
    BY <1>10 DEF Active, IInv, Progress
  <2>2. Cardinality(temps') = Cardinality(temps) - 1
    BY <1>3, <1>10, <2>1, FS_RemoveElement
  <2>3. Cardinality(Active) = 1
    BY <1>4, <1>10
  <2> QED
    BY <1>1, <1>3, <1>5, <1>6, <1>10, <2>2, <2>3
<1>11. ASSUME NEW p \in Processes, Replace(p)
       PROVE  Cardinality(temps') <= Cardinality(Active') + crashes'
  BY <1>10, <1>11 DEF Replace, Active, Temporary
<1>12. ASSUME temps' \subseteq temps, crashes' = crashes + 1
       PROVE  Cardinality(temps') <= Cardinality(Active') + crashes'
  <2>1. Cardinality(temps') <= Cardinality(temps) /\ Cardinality(temps') \in Nat
    BY <1>3, <1>12, FS_Subset, FS_CardinalityType
  <2> QED
    BY <1>1, <1>3, <1>4, <1>5, <1>6, <1>12, <2>1
<1>13. ASSUME NEW p \in Processes, RemoveTemporary(p)
       PROVE  Cardinality(temps') <= Cardinality(Active') + crashes'
  <2>1. p \in Active
    BY <1>13 DEF RemoveTemporary, Active, Temporary
  <2> QED
    BY <1>10, <1>12, <1>13, <2>1 DEF RemoveTemporary
<1>14. ASSUME NEW p \in Processes, Die(p)
       PROVE  Cardinality(temps') <= Cardinality(Active') + crashes'
  BY <1>12, <1>14 DEF Die
<1>15. CASE LosePower
  BY <1>12, <1>15 DEF LosePower
<1>16. CASE UNCHANGED vars
  <2>1. Active' = Active
    BY <1>16 DEF vars, Active
  <2> QED
    BY <1>1, <1>16, <2>1 DEF vars
<1> QED
  BY <1>7, <1>9, <1>11, <1>13, <1>14, <1>15, <1>16 DEF Next, Save, Load

\* A save that fails removes its temporary file: what is left over comes from
\* deaths, losses of power and failed removals (credentials.py:97-99).
THEOREM NothingLeftBehind == Spec => []TemporariesAccounted
<1>1. Init => TemporariesAccounted
  <2>1. Init => Cardinality(temps) = 0 /\ Active = {} /\ crashes = 0
    BY FS_EmptySet DEF Init, Active, Temporary
  <2> QED
    BY <2>1, FS_EmptySet DEF TemporariesAccounted, Active
<1>2. IInv /\ IInv' /\ TemporariesAccounted /\ [Next]_vars => TemporariesAccounted'
  BY AccountStep
<1> QED
  BY <1>1, <1>2, Invariance, PTL DEF Spec

=============================================================================
