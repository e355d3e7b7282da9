--------------------------- MODULE TTLCacheProofs ---------------------------
(***************************************************************************)
(* Theorems about TTLCache, for any keys, times to live and limit.         *)
(***************************************************************************)
EXTENDS TTLCache, SequenceTheorems, TLAPS

-----------------------------------------------------------------------------
(* Sequences of entries                                                    *)

\* No key has two entries.
Unique(s) == \A i, j \in DOMAIN s : s[i].key = s[j].key => i = j

\* A later entry was set later, by as many sets at least as there are entries
\* from one to the other: what is pushed out is as many sets old.
Ascending(s) == \A i, j \in DOMAIN s : i <= j => s[j].value - s[i].value >= j - i

\* Entries are the last sets of their keys, and none is from the future.
Current(s, of, n) ==
  \A i \in DOMAIN s :
    /\ s[i].value \in 1 .. n
    /\ of[s[i].key] = [value |-> s[i].value, expires |-> s[i].expires]

\* Taking out the entry at i closes the gap and moves nothing else.
LEMMA Removed ==
  ASSUME NEW s \in Seq(Entry), NEW i \in DOMAIN s
  PROVE  /\ RemoveAt(s, i) \in Seq(Entry)
         /\ Len(RemoveAt(s, i)) = Len(s) - 1
         /\ \A j \in 1 .. Len(s) - 1 :
              RemoveAt(s, i)[j] = s[IF j < i THEN j ELSE j + 1]
<1> DEFINE head == SubSeq(s, 1, i - 1)
           tail == SubSeq(s, i + 1, Len(s))
<1>1. Len(s) \in Nat /\ i \in 1 .. Len(s) /\ DOMAIN s = 1 .. Len(s)
  OBVIOUS
<1>2. /\ head \in Seq(Entry) /\ Len(head) = i - 1
      /\ \A j \in 1 .. i - 1 : head[j] = s[j]
  BY <1>1
<1>3. /\ tail \in Seq(Entry) /\ Len(tail) = Len(s) - i
      /\ \A j \in 1 .. Len(s) - i : tail[j] = s[i + j]
  BY <1>1
<1>4. RemoveAt(s, i) = head \o tail
  BY DEF RemoveAt
<1> HIDE DEF head, tail
<1>5. RemoveAt(s, i) \in Seq(Entry) /\ Len(RemoveAt(s, i)) = Len(s) - 1
  <2>1. /\ head \o tail \in Seq(Entry)
        /\ Len(head \o tail) = Len(head) + Len(tail)
    BY <1>2, <1>3, ConcatProperties
  <2> QED
    BY <1>1, <1>2, <1>3, <1>4, <2>1
<1>6. ASSUME NEW j \in 1 .. Len(s) - 1
      PROVE  RemoveAt(s, i)[j] = s[IF j < i THEN j ELSE j + 1]
  <2>1. CASE j < i
    <3>1. (head \o tail)[j] = head[j]
      BY <1>1, <1>2, <1>3, <2>1
    <3> QED
      BY <1>1, <1>2, <1>4, <2>1, <3>1
  <2>2. CASE ~(j < i)
    <3>1. (head \o tail)[j] = tail[j - Len(head)]
      BY <1>1, <1>2, <1>3, <2>2
    <3>2. j - Len(head) \in 1 .. Len(s) - i /\ i + (j - Len(head)) = j + 1
      BY <1>1, <1>2, <2>2
    <3> QED
      BY <1>3, <1>4, <2>2, <3>1, <3>2
  <2> QED
    BY <2>1, <2>2
<1> QED
  BY <1>5, <1>6

\* So what holds of any two entries in their order goes on holding.
LEMMA RemovedKeeps ==
  ASSUME NEW s \in Seq(Entry), NEW i \in DOMAIN s,
         NEW of, NEW n \in Nat,
         Unique(s), Ascending(s), Current(s, of, n)
  PROVE  LET r == RemoveAt(s, i) IN
         /\ Unique(r) /\ Ascending(r) /\ Current(r, of, n)
         /\ \A j \in DOMAIN r : r[j].key # s[i].key
         /\ \A m \in DOMAIN s : m # i => \E j \in DOMAIN r : r[j] = s[m]
<1> DEFINE r == RemoveAt(s, i)
           from(j) == IF j < i THEN j ELSE j + 1
<1>1. Len(s) \in Nat /\ DOMAIN s = 1 .. Len(s) /\ i \in 1 .. Len(s)
  OBVIOUS
<1>2. DOMAIN r = 1 .. Len(s) - 1
  <2>1. r \in Seq(Entry) /\ Len(r) = Len(s) - 1
    BY Removed
  <2> HIDE DEF r
  <2> QED
    BY <2>1
<1>3. \A j \in DOMAIN r : from(j) \in DOMAIN s \ {i} /\ r[j] = s[from(j)]
  <2>1. \A j \in 1 .. Len(s) - 1 : r[j] = s[from(j)]
    BY Removed
  <2>2. \A j \in 1 .. Len(s) - 1 : from(j) \in 1 .. Len(s) /\ from(j) # i
    BY <1>1
  <2> HIDE DEF r, from
  <2> QED
    BY <1>1, <1>2, <2>1, <2>2
<1>4. \A j, m \in DOMAIN r :
        (from(j) = from(m) => j = m) /\ (j <= m => from(m) - from(j) >= m - j)
  BY <1>1, <1>2
<1>5. \A m \in DOMAIN s \ {i} : \E j \in DOMAIN r : from(j) = m
  <2> SUFFICES ASSUME NEW m \in DOMAIN s \ {i}
      PROVE  \E j \in DOMAIN r : from(j) = m
    OBVIOUS
  <2>1. CASE m < i
    BY <1>1, <1>2, <2>1
  <2>2. CASE m > i
    <3>1. m - 1 \in DOMAIN r /\ from(m - 1) = m
      BY <1>1, <1>2, <2>2
    <3> QED
      BY <3>1
  <2> QED
    BY <1>1, <2>1, <2>2
<1>6. \A j \in DOMAIN s : s[j] \in Entry
  OBVIOUS
<1>7. \A j \in DOMAIN r : j \in Nat /\ from(j) \in Nat
  BY <1>1, <1>2
<1> HIDE DEF r, from
<1>8. Unique(r)
  BY <1>3, <1>4 DEF Unique
<1>9. Ascending(r)
  <2> SUFFICES ASSUME NEW j \in DOMAIN r, NEW m \in DOMAIN r, j <= m
      PROVE  r[m].value - r[j].value >= m - j
    BY DEF Ascending
  <2>1. from(j) <= from(m) /\ from(m) - from(j) >= m - j
    BY <1>4, <1>7
  <2>2. s[from(m)].value - s[from(j)].value >= from(m) - from(j)
    BY <1>3, <2>1 DEF Ascending
  <2>3. s[from(m)].value \in Nat /\ s[from(j)].value \in Nat
    BY <1>3, <1>6 DEF Entry
  <2> QED
    <3> DEFINE low == s[from(j)].value
               high == s[from(m)].value
    <3>1. low = r[j].value /\ high = r[m].value
      BY <1>3
    <3>2. {low, high, from(j), from(m), j, m} \subseteq Nat
      BY <1>7, <2>3
    <3>3. high - low >= from(m) - from(j)
      BY <2>2
    <3> HIDE DEF low, high
    <3>4. high - low >= m - j
      BY <2>1, <3>2, <3>3
    <3> QED
      BY <3>1, <3>4
<1>10. Current(r, of, n)
  BY <1>3 DEF Current
<1>11. \A j \in DOMAIN r : r[j].key # s[i].key
  BY <1>3 DEF Unique
<1>12. \A m \in DOMAIN s : m # i => \E j \in DOMAIN r : r[j] = s[m]
  BY <1>3, <1>5
<1> QED
  BY <1>8, <1>9, <1>10, <1>11, <1>12 DEF r

\* What leaves at the limit is the entry at the front.
LEMMA TailRemoves ==
  ASSUME NEW s \in Seq(Entry), s # << >>
  PROVE  1 \in DOMAIN s /\ Tail(s) = RemoveAt(s, 1)
<1>1. Len(s) \in Nat /\ Len(s) # 0 /\ DOMAIN s = 1 .. Len(s)
  OBVIOUS
<1>2. SubSeq(s, 1, 0) = << >>
  BY SubSeqEmpty
<1>3. Tail(s) \in Seq(Entry) /\ Tail(s) = SubSeq(s, 2, Len(s))
  BY HeadTailProperties, TailIsSubSeq
<1>4. << >> \o Tail(s) = Tail(s)
  BY <1>3, ConcatEmptySeq
<1> QED
  BY <1>1, <1>2, <1>3, <1>4 DEF RemoveAt

\* A new entry of a key that has none goes to the end.
LEMMA AppendedKeeps ==
  ASSUME NEW s \in Seq(Entry), NEW e \in Entry,
         NEW was, NEW of, NEW n \in Nat,
         Unique(s), Ascending(s), Current(s, was, n),
         \A j \in DOMAIN s : s[j].key # e.key /\ of[s[j].key] = was[s[j].key],
         e.value = n + 1, of[e.key] = [value |-> e.value, expires |-> e.expires]
  PROVE  LET a == Append(s, e) IN
         /\ Unique(a) /\ Ascending(a) /\ Current(a, of, n + 1)
         /\ a \in Seq(Entry) /\ Len(a) = Len(s) + 1 /\ a[Len(a)] = e
         /\ \A j \in DOMAIN s : j \in DOMAIN a /\ a[j] = s[j]
<1> DEFINE a == Append(s, e)
<1>1. /\ Len(s) \in Nat /\ DOMAIN s = 1 .. Len(s)
      /\ a \in Seq(Entry) /\ Len(a) = Len(s) + 1 /\ DOMAIN a = 1 .. Len(s) + 1
      /\ a[Len(s) + 1] = e /\ \A j \in DOMAIN s : a[j] = s[j]
  OBVIOUS
<1>2. \A j \in DOMAIN s : s[j] \in Entry /\ s[j].value \in 1 .. n
  <2>1. \A j \in DOMAIN s : s[j] \in Entry
    OBVIOUS
  <2> QED
    BY <2>1 DEF Current
<1>3. \A j \in DOMAIN a : j \in DOMAIN s \/ j = Len(s) + 1
  BY <1>1
<1> HIDE DEF a
<1>4. Unique(a)
  BY <1>1, <1>3 DEF Unique
<1>5. Ascending(a)
  <2> SUFFICES ASSUME NEW j \in DOMAIN a, NEW m \in DOMAIN a, j <= m
      PROVE  a[m].value - a[j].value >= m - j
    BY DEF Ascending
  <2>1. CASE m \in DOMAIN s
    <3>1. j \in DOMAIN s
      BY <1>1, <2>1
    <3> QED
      BY <1>1, <2>1, <3>1 DEF Ascending
  <2>2. CASE m = Len(s) + 1 /\ j \in DOMAIN s
    <3>1. Len(s) \in DOMAIN s /\ j <= Len(s)
      BY <1>1, <2>2
    <3>2. s[Len(s)].value - s[j].value >= Len(s) - j
      BY <3>1, <2>2 DEF Ascending
    <3>3. s[Len(s)].value \in 1 .. n /\ s[j].value \in 1 .. n
      BY <1>2, <2>2, <3>1
    <3>4. n + 1 - s[j].value >= m - j
      BY <1>1, <2>2, <3>2, <3>3
    <3>5. a[m].value = n + 1 /\ a[j].value = s[j].value
      BY <1>1, <2>2
    <3>6. \A high, low : high = n + 1 /\ low = s[j].value => high - low >= m - j
      BY <1>1, <2>2, <3>3, <3>4
    <3> QED
      BY <3>5, <3>6
  <2>3. CASE m = Len(s) + 1 /\ j = Len(s) + 1
    <3>1. a[j].value = n + 1 /\ m - j = 0
      BY <1>1, <2>3
    <3> QED
      BY <2>3, <3>1
  <2> QED
    BY <1>3, <2>1, <2>2, <2>3
<1>6. Current(a, of, n + 1)
  <2>1. ASSUME NEW j \in DOMAIN s
        PROVE  /\ a[j].value \in 1 .. n + 1
               /\ of[a[j].key] = [value |-> a[j].value, expires |-> a[j].expires]
    BY <1>1, <1>2 DEF Current
  <2>2. /\ e.value \in 1 .. n + 1
        /\ of[e.key] = [value |-> e.value, expires |-> e.expires]
    OBVIOUS
  <2> QED
    BY <1>1, <1>3, <2>1, <2>2 DEF Current
<1> QED
  BY <1>1, <1>4, <1>5, <1>6 DEF a

-----------------------------------------------------------------------------
(* What the operations do to the entries                                   *)

LEMMA WithoutKeeps ==
  ASSUME NEW k \in Keys, TypeOK, Ascending(entries), Current(entries, last, sets)
  PROVE  LET r == Without(k) IN
         /\ r \in Seq(Entry) /\ Len(r) <= Len(entries)
         /\ Unique(r) /\ Ascending(r) /\ Current(r, last, sets)
         /\ \A j \in DOMAIN r : r[j].key # k
         /\ \A m \in DOMAIN entries :
              entries[m].key # k => \E j \in DOMAIN r : r[j] = entries[m]
<1>1. entries \in Seq(Entry) /\ Unique(entries) /\ sets \in Nat /\ Len(entries) \in Nat
  BY DEF TypeOK, Unique
<1>2. CASE Holds(k)
  <2>1. At(k) \in DOMAIN entries /\ entries[At(k)].key = k
    BY <1>2 DEF Holds, At
  <2>2. Without(k) = RemoveAt(entries, At(k))
    BY <1>2 DEF Without
  <2>3. /\ Without(k) \in Seq(Entry)
        /\ Len(Without(k)) = Len(entries) - 1
    BY <1>1, <2>1, <2>2, Removed
  <2>4. /\ Unique(Without(k)) /\ Ascending(Without(k))
        /\ Current(Without(k), last, sets)
        /\ \A j \in DOMAIN Without(k) : Without(k)[j].key # k
        /\ \A m \in DOMAIN entries :
             m # At(k) => \E j \in DOMAIN Without(k) : Without(k)[j] = entries[m]
    BY <1>1, <2>1, <2>2, RemovedKeeps
  <2> QED
    BY <1>1, <2>1, <2>3, <2>4
<1>3. CASE ~Holds(k)
  <2>1. Without(k) = entries /\ \A m \in DOMAIN entries : entries[m].key # k
    BY <1>3 DEF Without, Holds
  <2> QED
    BY <1>1, <2>1
<1> QED
  BY <1>2, <1>3

\* Making room pushes out the entry at the front at most, and none to which
\* fewer than MaxSize sets were added since.
LEMMA LimitedKeeps ==
  ASSUME NEW s \in Seq(Entry), NEW of, NEW n \in Nat,
         Unique(s), Ascending(s), Current(s, of, n),
         MaxSize # 0 => Len(s) <= MaxSize + 1
  PROVE  LET r == Limited(s) IN
         /\ r \in Seq(Entry) /\ Unique(r) /\ Ascending(r) /\ Current(r, of, n)
         /\ MaxSize # 0 => Len(r) <= MaxSize
         /\ \A m \in DOMAIN s :
              MaxSize = 0 \/ s[Len(s)].value - s[m].value < MaxSize
                => \E j \in DOMAIN r : r[j] = s[m]
<1>1. Len(s) \in Nat /\ DOMAIN s = 1 .. Len(s) /\ MaxSize \in Nat
  BY CacheAssumption
<1>2. CASE MaxSize # 0 /\ Len(s) > MaxSize
  <2>1. s # << >> /\ Len(s) = MaxSize + 1
    <3>1. Len(s) = MaxSize + 1
      <4>1. Len(s) <= MaxSize + 1 /\ Len(s) > MaxSize
        BY <1>2
      <4>2. \A x, y \in Nat : x <= y + 1 /\ x > y => x = y + 1
        OBVIOUS
      <4> QED
        BY <1>1, <4>1, <4>2
    <3>2. Len(s) # 0
      BY <1>1, <3>1
    <3> QED
      BY <3>1, <3>2
  <2>2. 1 \in DOMAIN s /\ Limited(s) = RemoveAt(s, 1)
    BY <1>2, <2>1, TailRemoves DEF Limited
  <2>3. Limited(s) \in Seq(Entry) /\ Len(Limited(s)) = Len(s) - 1
    BY <2>2, Removed
  <2>4. /\ Unique(Limited(s)) /\ Ascending(Limited(s)) /\ Current(Limited(s), of, n)
        /\ \A m \in DOMAIN s : m # 1 => \E j \in DOMAIN Limited(s) : Limited(s)[j] = s[m]
    BY <2>2, RemovedKeeps
  <2>5. s[Len(s)].value - s[1].value >= MaxSize
    <3>1. Len(s) \in DOMAIN s /\ 1 <= Len(s) /\ Len(s) - 1 = MaxSize
      BY <1>1, <2>1
    <3> QED
      BY <2>2, <3>1 DEF Ascending
  <2>6. {s[Len(s)].value, s[1].value} \subseteq Nat
    <3>1. Len(s) \in DOMAIN s /\ 1 \in DOMAIN s
      BY <1>1, <2>1
    <3>2. s[Len(s)].value \in 1 .. n /\ s[1].value \in 1 .. n
      BY <3>1 DEF Current
    <3> QED
      BY <3>2
  <2>7. ~(s[Len(s)].value - s[1].value < MaxSize)
    BY <1>1, <2>5, <2>6
  <2> QED
    BY <1>1, <1>2, <2>1, <2>3, <2>4, <2>7
<1>3. CASE ~(MaxSize # 0 /\ Len(s) > MaxSize)
  <2>1. Limited(s) = s
    BY <1>3 DEF Limited
  <2> QED
    BY <1>1, <1>3, <2>1
<1> QED
  BY <1>2, <1>3

-----------------------------------------------------------------------------
(* The invariant                                                           *)

Sound(s, of, n) == Ascending(s) /\ Current(s, of, n)

IInv ==
  /\ TypeOK
  /\ Sound(entries, last, sets)
  /\ Bounded
  /\ RecentKept

\* An update changes what is known of one key.
LEMMA SetStep ==
  ASSUME IInv, NEW k \in Keys, NEW ttl \in TTLs \cup {TTL}, Set(k, ttl)
  PROVE  IInv'
<1> DEFINE e == [key |-> k, value |-> sets + 1, expires |-> now + ttl]
           a == Store(k, e)
<1>1. /\ TypeOK /\ Ascending(entries) /\ Current(entries, last, sets)
      /\ sets \in Nat /\ now \in Nat /\ ttl \in Int /\ Len(entries) \in Nat
      /\ last \in [Keys -> [value : Nat, expires : Int]]
      /\ MaxSize \in Nat /\ (MaxSize # 0 => Len(entries) <= MaxSize)
  BY CacheAssumption DEF IInv, TypeOK, Sound, Bounded
<1>2. /\ entries' = Limited(a)
      /\ last' = [last EXCEPT ![k] = [value |-> sets + 1, expires |-> now + ttl]]
      /\ sets' = sets + 1 /\ answer' = NoAnswer /\ now' = now
  BY DEF Set
<1>3. e \in Entry
  BY <1>1 DEF Entry
<1>4. /\ last' \in [Keys -> [value : Nat, expires : Int]]
      /\ last'[k] = [value |-> sets + 1, expires |-> now + ttl]
      /\ \A q \in Keys : q # k => last'[q] = last[q]
  BY <1>1, <1>2
<1> DEFINE w == Without(k)
<1>5. /\ w \in Seq(Entry) /\ Len(w) <= Len(entries)
      /\ Unique(w) /\ Ascending(w) /\ Current(w, last, sets)
      /\ \A j \in DOMAIN w : w[j].key # k
      /\ \A m \in DOMAIN entries :
           entries[m].key # k => \E j \in DOMAIN w : w[j] = entries[m]
  BY <1>1, WithoutKeeps
<1>6. a = Append(w, e)
  BY DEF Store
<1> HIDE DEF w
<1>7. \A j \in DOMAIN w : w[j] \in Entry /\ w[j].key # k /\ last'[w[j].key] = last[w[j].key]
  <2>1. \A j \in DOMAIN w : w[j] \in Entry
    BY <1>5
  <2> QED
    BY <1>4, <1>5, <2>1 DEF Entry
<1>8. e.key = k /\ e.value = sets + 1 /\ e.expires = now + ttl
  OBVIOUS
<1> HIDE DEF e, a
<1>9. /\ Unique(a) /\ Ascending(a) /\ Current(a, last', sets + 1)
      /\ a \in Seq(Entry) /\ Len(a) = Len(w) + 1 /\ a[Len(a)] = e
      /\ \A j \in DOMAIN w : j \in DOMAIN a /\ a[j] = w[j]
  <2>1. \A j \in DOMAIN w : w[j].key # e.key /\ last'[w[j].key] = last[w[j].key]
    BY <1>7, <1>8
  <2>2. /\ e.value = sets + 1
        /\ last'[e.key] = [value |-> e.value, expires |-> e.expires]
    BY <1>4, <1>8
  <2>3. w \in Seq(Entry) /\ Unique(w) /\ Ascending(w) /\ Current(w, last, sets)
    BY <1>5
  <2>4. sets \in Nat
    BY <1>1
  <2> QED
    BY <1>3, <1>6, <2>1, <2>2, <2>3, <2>4, AppendedKeeps
<1>10. MaxSize # 0 => Len(a) <= MaxSize + 1
  <2>1. Len(w) \in Nat
    BY <1>5
  <2>2. \A x, y, z \in Nat : x <= y /\ y <= z => x + 1 <= z + 1
    OBVIOUS
  <2> QED
    BY <1>1, <1>5, <1>9, <2>1, <2>2
<1>11. /\ entries' \in Seq(Entry) /\ Unique(entries') /\ Ascending(entries')
       /\ Current(entries', last', sets + 1)
       /\ MaxSize # 0 => Len(entries') <= MaxSize
       /\ \A m \in DOMAIN a :
            MaxSize = 0 \/ a[Len(a)].value - a[m].value < MaxSize
              => \E j \in DOMAIN entries' : entries'[j] = a[m]
  <2>1. sets + 1 \in Nat
    BY <1>1
  <2> QED
    BY <1>2, <1>9, <1>10, <2>1, LimitedKeeps
<1>12. TypeOK'
  BY <1>1, <1>2, <1>4, <1>11 DEF TypeOK, Unique
<1>13. RecentKept'
  <2> SUFFICES ASSUME NEW q \in Keys,
                      last'[q] # Nothing, now' < last'[q].expires,
                      MaxSize = 0 \/ sets' - last'[q].value < MaxSize
      PROVE  \E i \in DOMAIN entries' :
               entries'[i].key = q /\ entries'[i].value = last'[q].value
    BY DEF RecentKept
  <2>0. now' = now /\ sets' = sets + 1
    BY <1>2
  <2>1. \E m \in DOMAIN a : a[m].key = q /\ a[m].value = last'[q].value
    <3>1. CASE q = k
      <4>1. Len(a) \in DOMAIN a
        BY <1>5, <1>9
      <4> QED
        BY <1>4, <1>8, <1>9, <3>1, <4>1
    <3>2. CASE q # k
      <4>1. last'[q] = last[q] /\ last[q].value \in Nat
        BY <1>1, <1>4, <3>2
      <4>2. MaxSize = 0 \/ sets - last[q].value < MaxSize
        BY <1>1, <2>0, <4>1
      <4>3. PICK i \in DOMAIN entries : entries[i].key = q /\ entries[i].value = last[q].value
        BY <2>0, <4>1, <4>2 DEF IInv, RecentKept
      <4>4. PICK j \in DOMAIN w : w[j] = entries[i]
        BY <1>5, <3>2, <4>3
      <4> QED
        BY <1>9, <4>1, <4>3, <4>4
    <3> QED
      BY <3>1, <3>2
  <2>2. PICK m \in DOMAIN a : a[m].key = q /\ a[m].value = last'[q].value
    BY <2>1
  <2>3. MaxSize = 0 \/ a[Len(a)].value - a[m].value < MaxSize
    <3>1. a[Len(a)].value = sets'
      BY <1>8, <1>9, <2>0
    <3>2. \A x, y : x = sets' /\ y = last'[q].value => MaxSize = 0 \/ x - y < MaxSize
      OBVIOUS
    <3> QED
      BY <2>2, <3>1, <3>2
  <2>4. PICK j \in DOMAIN entries' : entries'[j] = a[m]
    BY <1>11, <2>3
  <2> QED
    BY <2>2, <2>4
<1> QED
  BY <1>2, <1>11, <1>12, <1>13 DEF IInv, Sound, Bounded

\* What a key loses by expiry or invalidation, no other key loses.
LEMMA DropStep ==
  ASSUME IInv, NEW k \in Keys, entries' = Without(k), UNCHANGED <<now, sets>>,
         \/ last' = last /\ ~(Holds(k) /\ ~Expired(entries[At(k)]))
         \/ last' = [last EXCEPT ![k] = Nothing],
         answer' \in [key : Keys, value : Nat] \cup {NoAnswer}
  PROVE  IInv'
<1>1. /\ TypeOK /\ Ascending(entries) /\ Current(entries, last, sets)
      /\ sets \in Nat /\ now \in Nat /\ Len(entries) \in Nat
      /\ last \in [Keys -> [value : Nat, expires : Int]]
      /\ MaxSize \in Nat /\ (MaxSize # 0 => Len(entries) <= MaxSize)
  BY CacheAssumption DEF IInv, TypeOK, Sound, Bounded
<1>2. /\ entries' \in Seq(Entry) /\ Len(entries') <= Len(entries)
      /\ Unique(entries') /\ Ascending(entries') /\ Current(entries', last, sets)
      /\ \A j \in DOMAIN entries' : entries'[j].key # k
      /\ \A m \in DOMAIN entries :
           entries[m].key # k => \E j \in DOMAIN entries' : entries'[j] = entries[m]
  BY <1>1, WithoutKeeps
<1>3. /\ last' \in [Keys -> [value : Nat, expires : Int]]
      /\ \A q \in Keys : q # k => last'[q] = last[q]
  <2>1. Nothing \in [value : Nat, expires : Int]
    BY DEF Nothing
  <2>2. CASE last' = last
    BY <1>1, <2>2
  <2>3. CASE last' = [last EXCEPT ![k] = Nothing]
    BY <1>1, <2>1, <2>3
  <2> QED
    BY <2>2, <2>3
<1>4. \A j \in DOMAIN entries' : entries'[j] \in Entry
  BY <1>2
<1>5. Current(entries', last', sets')
  <2>1. \A j \in DOMAIN entries' : last'[entries'[j].key] = last[entries'[j].key]
    BY <1>2, <1>3, <1>4 DEF Entry
  <2> QED
    BY <1>2, <2>1 DEF Current
<1>6. Bounded'
  <2>1. Len(entries') \in Nat
    BY <1>2
  <2>2. \A x, y, z \in Nat : x <= y /\ y <= z => x <= z
    OBVIOUS
  <2> QED
    BY <1>1, <1>2, <2>1, <2>2 DEF Bounded
<1>7. TypeOK'
  BY <1>1, <1>2, <1>3 DEF TypeOK, Unique
<1>8. RecentKept'
  <2> SUFFICES ASSUME NEW q \in Keys,
                      last'[q] # Nothing, now < last'[q].expires,
                      MaxSize = 0 \/ sets - last'[q].value < MaxSize
      PROVE  \E i \in DOMAIN entries' :
               entries'[i].key = q /\ entries'[i].value = last'[q].value
    BY DEF RecentKept
  <2>1. CASE q # k
    <3>1. PICK i \in DOMAIN entries : entries[i].key = q /\ entries[i].value = last[q].value
      BY <1>3, <2>1 DEF IInv, RecentKept
    <3> QED
      BY <1>2, <1>3, <2>1, <3>1
  <2>2. CASE q = k
    <3>1. last' = last /\ ~(Holds(k) /\ ~Expired(entries[At(k)]))
      BY <1>1, <2>2
    <3>2. PICK i \in DOMAIN entries : entries[i].key = k /\ entries[i].value = last[k].value
      BY <2>2, <3>1 DEF IInv, RecentKept
    <3>3. Holds(k) /\ At(k) \in DOMAIN entries /\ entries[At(k)].key = k
      BY <3>2 DEF Holds, At
    <3>4. last[k] = [value |-> entries[At(k)].value, expires |-> entries[At(k)].expires]
      BY <1>1, <3>3 DEF Current
    <3>5. now >= last[k].expires /\ last[k].expires \in Int
      BY <1>1, <3>1, <3>3, <3>4 DEF Expired
    <3> QED
      BY <1>1, <2>2, <3>1, <3>5
  <2> QED
    BY <2>1, <2>2
<1> QED
  BY <1>2, <1>5, <1>6, <1>7, <1>8 DEF IInv, Sound

\* A get hits the entry of the key's last set, while that is alive.
LEMMA GetHits ==
  ASSUME IInv, NEW k \in Keys, Holds(k), ~Expired(entries[At(k)])
  PROVE  /\ entries[At(k)].value \in Nat
         /\ entries[At(k)].value = last[k].value
         /\ now < last[k].expires
<1>1. At(k) \in DOMAIN entries /\ entries[At(k)].key = k
  BY DEF Holds, At
<1>2. /\ entries[At(k)] \in Entry
      /\ last[k] = [value |-> entries[At(k)].value, expires |-> entries[At(k)].expires]
  <2>1. entries \in Seq(Entry) /\ Current(entries, last, sets)
    BY DEF IInv, TypeOK, Sound
  <2>2. entries[At(k)] \in Entry
    BY <1>1, <2>1
  <2> QED
    BY <1>1, <2>1, <2>2 DEF Current
<1>3. now \in Nat /\ last[k].expires \in Int
  BY <1>2 DEF IInv, TypeOK, Entry
<1>4. ~(now >= last[k].expires)
  BY <1>2 DEF Expired
<1> QED
  BY <1>2, <1>3, <1>4 DEF Entry

LEMMA GetStep ==
  ASSUME IInv, NEW k \in Keys, Get(k)
  PROVE  IInv'
<1>1. UNCHANGED <<now, sets, last>>
  BY DEF Get
<1>2. CASE Holds(k) /\ ~Expired(entries[At(k)])
  <2>1. UNCHANGED <<entries, now, sets, last>>
    BY <1>2 DEF Get
  <2>2. answer' \in [key : Keys, value : Nat]
    BY <1>2, GetHits DEF Get
  <2>3. TypeOK'
    BY <2>1, <2>2 DEF IInv, TypeOK
  <2> QED
    BY <2>1, <2>3 DEF IInv, Sound, Ascending, Current, Bounded, RecentKept
<1>3. CASE ~(Holds(k) /\ ~Expired(entries[At(k)]))
  <2>1. answer' \in [key : Keys, value : Nat] /\ entries' = Without(k)
    BY <1>3 DEF Get, Miss
  <2> QED
    BY <1>1, <1>3, <2>1, DropStep
<1> QED
  BY <1>2, <1>3

LEMMA Start == Init => IInv
<1> SUFFICES ASSUME Init PROVE IInv
  OBVIOUS
<1>1. entries = << >> /\ entries \in Seq(Entry) /\ Len(entries) = 0 /\ DOMAIN entries = {}
  BY DEF Init
<1>2. TypeOK
  BY <1>1 DEF Init, TypeOK, Nothing
<1>3. Sound(entries, last, sets)
  BY <1>1 DEF Sound, Ascending, Current
<1>4. Bounded
  BY <1>1, CacheAssumption DEF Bounded
<1>5. RecentKept
  BY DEF Init, RecentKept
<1> QED
  BY <1>2, <1>3, <1>4, <1>5 DEF IInv

LEMMA Step == IInv /\ [Next]_vars => IInv'
<1> SUFFICES ASSUME IInv, [Next]_vars PROVE IInv'
  OBVIOUS
<1>1. ASSUME NEW k \in Keys, NEW ttl \in TTLs \cup {TTL}, Set(k, ttl) PROVE IInv'
  BY <1>1, SetStep
<1>2. ASSUME NEW k \in Keys, Get(k) PROVE IInv'
  BY <1>2, GetStep
<1>3. ASSUME NEW k \in Keys, Invalidate(k) PROVE IInv'
  BY <1>3, DropStep DEF Invalidate
<1>4. CASE Clear
  <2>1. entries' = << >> /\ entries' \in Seq(Entry) /\ Len(entries') = 0 /\ DOMAIN entries' = {}
    BY <1>4 DEF Clear
  <2>2. last' = [q \in Keys |-> Nothing]
    BY <1>4 DEF Clear
  <2>3. TypeOK'
    BY <1>4, <2>1 DEF IInv, Clear, TypeOK, Nothing
  <2>4. Sound(entries', last', sets')
    BY <2>1 DEF Sound, Ascending, Current
  <2>5. Bounded'
    BY <2>1, CacheAssumption DEF Bounded
  <2>6. RecentKept'
    BY <2>2 DEF RecentKept
  <2> QED
    BY <2>3, <2>4, <2>5, <2>6 DEF IInv, Sound, Ascending, Current
<1>5. CASE Tick
  <2>1. UNCHANGED <<entries, sets, last>> /\ now' = now + 1 /\ answer' = NoAnswer
    BY <1>5 DEF Tick
  <2>2. TypeOK'
    BY <2>1 DEF IInv, TypeOK
  <2>3. \A q \in Keys : now' < last[q].expires => now < last[q].expires
    <3>1. ASSUME NEW q \in Keys PROVE last[q].expires \in Int
      BY DEF IInv, TypeOK
    <3> QED
      BY <2>1, <3>1 DEF IInv, TypeOK
  <2>4. RecentKept'
    BY <2>1, <2>3 DEF IInv, RecentKept
  <2> QED
    BY <2>1, <2>2, <2>4 DEF IInv, Sound, Ascending, Current, Bounded
<1>6. CASE UNCHANGED vars
  BY <1>6 DEF vars, IInv, TypeOK, Sound, Ascending, Current, Bounded, RecentKept
<1> QED
  BY <1>1, <1>2, <1>3, <1>4, <1>5, <1>6 DEF Next

LEMMA Invariance == Spec => []IInv
<1> QED
  BY Start, Step, PTL DEF Spec

-----------------------------------------------------------------------------
(* The theorems                                                            *)

\* Entries are entries, and no key has two (cache.py:47-48).
THEOREM TypeCorrect == Spec => []TypeOK
<1>1. IInv => TypeOK
  BY DEF IInv
<1> QED
  BY Invariance, <1>1, PTL

\* There are never more entries than the limit, whatever it is
\* (cache.py:48-50).
THEOREM NeverOverfull == Spec => []Bounded
<1>1. IInv => Bounded
  BY DEF IInv
<1> QED
  BY Invariance, <1>1, PTL

\* Eviction takes no key that is alive and has been set again, or for the first
\* time, less than max_size sets ago (cache.py:45-50).
THEOREM RecentSurvive == Spec => []RecentKept
<1>1. IInv => RecentKept
  BY DEF IInv
<1> QED
  BY Invariance, <1>1, PTL

\* A get answers with the last value its key was set to, and only before that
\* expires; never with one that was replaced, invalidated or cleared
\* (cache.py:32-40).
THEOREM AnswersCurrent == Spec => AnswersAreLast
<1> DEFINE Goal == answer' \notin {answer, NoAnswer} /\ answer'.value # Miss =>
                     /\ answer'.value = last[answer'.key].value
                     /\ now < last[answer'.key].expires
<1>1. IInv /\ [Next]_vars => [Goal]_vars
  <2> SUFFICES ASSUME IInv, Next, answer' \notin {answer, NoAnswer}, answer'.value # Miss
      PROVE  Goal
    OBVIOUS
  <2>1. PICK k \in Keys : Get(k)
    BY DEF Next, Set, Invalidate, Clear, Tick
  <2>2. CASE Holds(k) /\ ~Expired(entries[At(k)])
    BY <2>1, <2>2, GetHits DEF Get
  <2>3. CASE ~(Holds(k) /\ ~Expired(entries[At(k)]))
    BY <2>1, <2>3 DEF Get
  <2> QED
    BY <2>2, <2>3
<1> QED
  BY Invariance, <1>1, PTL DEF Spec, AnswersAreLast

=============================================================================
