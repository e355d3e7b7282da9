------------------------------- MODULE TTLCache -------------------------------
(***************************************************************************)
(* TTLCache (cache.py): a dict in insertion order, expiry on reading, and  *)
(* eviction at the size limit.  The n-th set stores value n; time is the   *)
(* monotonic clock in units of one tick.                                   *)
(***************************************************************************)
EXTENDS Integers, Sequences, SequencesExt

CONSTANTS Keys,
          TTL,       \* _ttl, the default time to live
          TTLs,      \* what callers pass as ttl_seconds, which nothing checks
          MaxSize,   \* _max_size; 0 is None
          MaxSets,   \* bound: calls of set
          MaxTime    \* bound: ticks

ASSUME CacheAssumption ==
  /\ TTL \in Nat \ {0}
  /\ TTLs \subseteq Int
  /\ MaxSize \in Nat

VARIABLES
  entries,  \* _entries, oldest insertion first
  now,      \* time.monotonic()
  sets,     \* calls of set so far
  last,     \* for each key, its last set that was not invalidated
  answer    \* the key and the answer of the last operation, if a get

vars == <<entries, now, sets, last, answer>>

Entry   == [key : Keys, value : Nat, expires : Int]
Nothing == [value |-> 0, expires |-> 0]
Miss    == 0
NoAnswer == [key |-> {}, value |-> Miss]

TypeOK ==
  /\ entries \in Seq(Entry)
  /\ \A i, j \in DOMAIN entries : entries[i].key = entries[j].key => i = j
  /\ now \in Nat
  /\ sets \in Nat
  /\ last \in [Keys -> [value : Nat, expires : Int]]
  /\ answer \in [key : Keys, value : Nat] \cup {NoAnswer}

Init ==
  /\ entries = << >>
  /\ now = 0
  /\ sets = 0
  /\ last = [k \in Keys |-> Nothing]
  /\ answer = NoAnswer

-----------------------------------------------------------------------------
(* Operations                                                              *)

Holds(k) == \E i \in DOMAIN entries : entries[i].key = k
At(k)    == CHOOSE i \in DOMAIN entries : entries[i].key = k

\* Mutant: an expiry in the past only.
ExpiredLate(e) == now > e.expires

Expired(e) == now >= e.expires

\* Mutant: keys are dropped by their place at the front.
WithoutFirst(k) == IF Holds(k) THEN Tail(entries) ELSE entries

\* _entries.pop(key, None)
Without(k) == IF Holds(k) THEN RemoveAt(entries, At(k)) ELSE entries

\* Mutant: a key that is there keeps its place.
StoreInPlace(k, e) ==
  IF Holds(k) THEN [entries EXCEPT ![At(k)] = e] ELSE Append(entries, e)

\* A key that is there is taken out and inserted again, as the newest.
Store(k, e) == Append(Without(k), e)

\* Mutant: room is made one entry too late.
LimitedLate(s) == IF MaxSize # 0 /\ Len(s) > MaxSize + 1 THEN Tail(s) ELSE s

\* The oldest insertion leaves when there are too many, whatever expires first.
Limited(s) == IF MaxSize # 0 /\ Len(s) > MaxSize THEN Tail(s) ELSE s

Set(k, ttl) ==
  /\ sets < MaxSets
  /\ LET e == [key |-> k, value |-> sets + 1, expires |-> now + ttl] IN
       /\ entries' = Limited(Store(k, e))
       /\ last' = [last EXCEPT ![k] = [value |-> e.value, expires |-> e.expires]]
  /\ sets' = sets + 1
  /\ answer' = NoAnswer
  /\ UNCHANGED now

\* get, and "in", which answers whether get would hit.
Get(k) ==
  /\ IF Holds(k) /\ ~Expired(entries[At(k)])
     THEN answer' = [key |-> k, value |-> entries[At(k)].value] /\ UNCHANGED entries
     ELSE answer' = [key |-> k, value |-> Miss] /\ entries' = Without(k)
  /\ UNCHANGED <<now, sets, last>>

Invalidate(k) ==
  /\ entries' = Without(k)
  /\ last' = [last EXCEPT ![k] = Nothing]
  /\ answer' = NoAnswer
  /\ UNCHANGED <<now, sets>>

Clear ==
  /\ entries' = << >>
  /\ last' = [k \in Keys |-> Nothing]
  /\ answer' = NoAnswer
  /\ UNCHANGED <<now, sets>>

Tick ==
  /\ now < MaxTime
  /\ now' = now + 1
  /\ answer' = NoAnswer
  /\ UNCHANGED <<entries, sets, last>>

Next ==
  \/ \E k \in Keys : (\E ttl \in TTLs \cup {TTL} : Set(k, ttl)) \/ Get(k) \/ Invalidate(k)
  \/ Clear
  \/ Tick

Spec == Init /\ [][Next]_vars

-----------------------------------------------------------------------------
(* Properties                                                              *)

\* There are never more entries than the limit (cache.py:48-50).
Bounded == MaxSize # 0 => Len(entries) <= MaxSize

\* What get returns is what its key was last set to, and is still alive at that
\* moment (cache.py:32-40).
AnswersAreLast ==
  [][answer' \notin {answer, NoAnswer} /\ answer'.value # Miss =>
       /\ answer'.value = last[answer'.key].value
       /\ now < last[answer'.key].expires]_vars

\* A key is still there while it is alive and fewer than max_size sets came
\* after its own: an update makes it the newest again (cache.py:45-50, whose
\* comment says "FIFO eviction"; the class comment says otherwise, see below).
RecentKept ==
  \A k \in Keys :
    /\ last[k] # Nothing /\ now < last[k].expires
    /\ (MaxSize = 0 \/ sets - last[k].value < MaxSize)
    => \E i \in DOMAIN entries : entries[i].key = k /\ entries[i].value = last[k].value

\* "When exceeded, the entry with the earliest expiry is evicted" (cache.py:19-20):
\* when a set evicts another key, every entry that was there and stays lives at
\* least as long as the evicted one.
EvictsEarliestExpiry ==
  [][sets' # sets =>
       \A i, j \in DOMAIN entries :
         /\ \A n \in DOMAIN entries' : entries'[n].key # entries[i].key
         /\ \E n \in DOMAIN entries' : entries'[n] = entries[j]
         => entries[i].expires <= entries[j].expires]_vars

=============================================================================
