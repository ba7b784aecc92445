------------------------ MODULE MemcachedStore_proofs ------------------------
(***************************************************************************)
(* Safety of the item store for every number of items, keys, locks and     *)
(* requests: the inductive invariant StoreInv and what follows from it.    *)
(***************************************************************************)
EXTENDS MemcachedStore, TLAPS, SequenceTheorems, FiniteSetTheorems

-----------------------------------------------------------------------------
(***************************************************************************)
(* The sequences of the store: what linking and unlinking do to the set of *)
(* items of a list.                                                        *)
(***************************************************************************)

\* An item at the head of a list joins its items.
LEMMA ConsProperties ==
  ASSUME NEW S, NEW s \in Seq(S), NEW x \in S
  PROVE  /\ <<x>> \o s \in Seq(S)
         /\ Len(<<x>> \o s) = Len(s) + 1
         /\ Head(<<x>> \o s) = x
         /\ <<x>> \o s # <<>>
         /\ ToSet(<<x>> \o s) = {x} \union ToSet(s)
         /\ IsInjective(s) /\ x \notin ToSet(s) => IsInjective(<<x>> \o s)
<1> DEFINE t == <<x>> \o s
<1>1. <<x>> \in Seq(S) /\ Len(<<x>>) = 1 /\ <<x>>[1] = x OBVIOUS
<1>2. /\ t \in Seq(S) /\ Len(t) = Len(s) + 1
      /\ \A j \in 1 .. Len(t) : t[j] = IF j <= 1 THEN x ELSE s[j - 1]
  BY <1>1, ConcatProperties
<1>3. DOMAIN s = 1 .. Len(s) /\ DOMAIN t = 1 .. Len(t) /\ Len(s) \in Nat
  BY <1>2
<1> HIDE DEF t
<1>4. t[1] = x BY <1>2, <1>3
<1>5. \A j \in 1 .. Len(s) : t[j + 1] = s[j] BY <1>2, <1>3
<1>6. Head(t) = x /\ t # <<>> BY <1>2, <1>3, <1>4
<1>7. ToSet(t) = {x} \union ToSet(s)
  <2>1. ASSUME NEW y \in ToSet(t) PROVE y \in {x} \union ToSet(s)
    <3>1. PICK j \in 1 .. Len(t) : t[j] = y BY <2>1, <1>3 DEF ToSet
    <3>2. CASE j = 1 BY <3>1, <3>2, <1>4
    <3>3. CASE j # 1
      <4>1. j - 1 \in 1 .. Len(s) /\ s[j - 1] = y BY <3>1, <3>3, <1>2, <1>3
      <4> QED BY <4>1, <1>3 DEF ToSet
    <3> QED BY <3>2, <3>3
  <2>2. ASSUME NEW y \in ToSet(s) PROVE y \in ToSet(t)
    <3>1. PICK j \in 1 .. Len(s) : s[j] = y BY <2>2, <1>3 DEF ToSet
    <3>2. j + 1 \in 1 .. Len(t) /\ t[j + 1] = y BY <3>1, <1>2, <1>3, <1>5
    <3> QED BY <3>2, <1>3 DEF ToSet
  <2>3. x \in ToSet(t)
    <3>1. 1 \in 1 .. Len(t) BY <1>2, <1>3
    <3> QED BY <3>1, <1>3, <1>4 DEF ToSet
  <2> QED BY <2>1, <2>2, <2>3
<1>8. ASSUME IsInjective(s), x \notin ToSet(s) PROVE IsInjective(t)
  <2> SUFFICES ASSUME NEW a \in 1 .. Len(t), NEW b \in 1 .. Len(t), t[a] = t[b]
               PROVE  a = b
    BY <1>3 DEF IsInjective
  <2>1. \A j \in 1 .. Len(s) : s[j] # x BY <1>8, <1>3 DEF ToSet
  <2>2. CASE a = 1 /\ b = 1 BY <2>2
  <2>3. CASE a = 1 /\ b # 1
    <3>1. b - 1 \in 1 .. Len(s) /\ t[b] = s[b - 1] BY <2>3, <1>2, <1>3
    <3> QED BY <3>1, <2>1, <2>3, <1>4
  <2>4. CASE a # 1 /\ b = 1
    <3>1. a - 1 \in 1 .. Len(s) /\ t[a] = s[a - 1] BY <2>4, <1>2, <1>3
    <3> QED BY <3>1, <2>1, <2>4, <1>4
  <2>5. CASE a # 1 /\ b # 1
    <3>1. /\ a - 1 \in 1 .. Len(s) /\ t[a] = s[a - 1]
          /\ b - 1 \in 1 .. Len(s) /\ t[b] = s[b - 1]
      BY <2>5, <1>2, <1>3
    <3>2. a - 1 = b - 1 BY <3>1, <1>8, <1>3 DEF IsInjective
    <3> QED BY <3>2
  <2> QED BY <2>2, <2>3, <2>4, <2>5
<1> QED BY <1>2, <1>6, <1>7, <1>8 DEF t

\* The item taken out of a list, and it alone, leaves its items.
LEMMA RemoveAtProperties ==
  ASSUME NEW S, NEW s \in Seq(S), NEW n \in 1 .. Len(s)
  PROVE  /\ RemoveAt(s, n) \in Seq(S)
         /\ Len(RemoveAt(s, n)) = Len(s) - 1
         /\ IsInjective(s) => /\ ToSet(RemoveAt(s, n)) = ToSet(s) \ {s[n]}
                              /\ IsInjective(RemoveAt(s, n))
<1> DEFINE u == SubSeq(s, 1, n - 1)
           v == SubSeq(s, n + 1, Len(s))
           t == RemoveAt(s, n)
<1>1. Len(s) \in Nat /\ DOMAIN s = 1 .. Len(s) OBVIOUS
<1>2. /\ u \in Seq(S) /\ Len(u) = n - 1
      /\ \A j \in 1 .. n - 1 : u[j] = s[j]
  BY <1>1
<1>3. /\ v \in Seq(S) /\ Len(v) = Len(s) - n
      /\ \A j \in 1 .. Len(s) - n : v[j] = s[n + j]
  <2>1. n + 1 \in Int /\ Len(s) \in Int /\ \A j \in n + 1 .. Len(s) : s[j] \in S
    BY <1>1
  <2>2. /\ v \in Seq(S)
        /\ Len(v) = IF n + 1 <= Len(s) THEN Len(s) - (n + 1) + 1 ELSE 0
        /\ \A j \in 1 .. Len(s) - (n + 1) + 1 : v[j] = s[(n + 1) + j - 1]
    BY <2>1, SubSeqProperties
  <2> HIDE DEF v
  <2>3. Len(v) = Len(s) - n
    <3>1. Len(v) = IF n + 1 <= Len(s) THEN Len(s) - (n + 1) + 1 ELSE 0
      BY <2>2, Zenon
    <3>2. n \in Int /\ n <= Len(s) BY <1>1
    <3> QED BY <3>1, <3>2, <2>1
  <2>4. ASSUME NEW j \in 1 .. Len(s) - n PROVE v[j] = s[n + j]
    <3>1. j \in 1 .. Len(s) - (n + 1) + 1 /\ (n + 1) + j - 1 = n + j BY <1>1
    <3> QED BY <3>1, <2>2
  <2> QED BY <2>2, <2>3, <2>4
<1>4. t = u \o v BY DEF RemoveAt
<1> HIDE DEF u, v, t
<1>5. /\ t \in Seq(S) /\ Len(t) = Len(s) - 1
      /\ \A j \in 1 .. Len(t) :
           t[j] = IF j <= Len(u) THEN u[j] ELSE v[j - Len(u)]
  <2>1. /\ u \o v \in Seq(S) /\ Len(u \o v) = Len(u) + Len(v)
        /\ \A j \in 1 .. Len(u) + Len(v) :
             (u \o v)[j] = IF j <= Len(u) THEN u[j] ELSE v[j - Len(u)]
    BY <1>2, <1>3, ConcatProperties, Zenon
  <2>2. Len(u) + Len(v) = Len(s) - 1 BY <1>1, <1>2, <1>3
  <2> QED BY <2>1, <2>2, <1>4
<1>6. DOMAIN t = 1 .. Len(s) - 1 BY <1>5
<1>7. \A j \in 1 .. Len(s) - 1 : j < n => t[j] = s[j]
  BY <1>1, <1>2, <1>5
<1>8. \A j \in 1 .. Len(s) - 1 : j >= n => t[j] = s[j + 1]
  <2> SUFFICES ASSUME NEW j \in 1 .. Len(s) - 1, j >= n PROVE t[j] = s[j + 1]
    OBVIOUS
  <2>1. t[j] = v[j - (n - 1)] BY <1>1, <1>2, <1>5
  <2>2. j - (n - 1) \in 1 .. Len(s) - n /\ n + (j - (n - 1)) = j + 1 BY <1>1
  <2>3. v[j - (n - 1)] = s[n + (j - (n - 1))] BY <1>3, <2>2
  <2> QED BY <2>1, <2>2, <2>3
<1>9. ASSUME IsInjective(s) PROVE ToSet(t) = ToSet(s) \ {s[n]} /\ IsInjective(t)
  <2>1. \A a, b \in 1 .. Len(s) : s[a] = s[b] => a = b
    BY <1>9, <1>1 DEF IsInjective
  <2>2. ASSUME NEW y \in ToSet(t) PROVE y \in ToSet(s) \ {s[n]}
    <3>1. PICK j \in 1 .. Len(s) - 1 : t[j] = y BY <2>2, <1>6 DEF ToSet
    <3>2. \E k \in 1 .. Len(s) : k # n /\ s[k] = y
      <4>1. CASE j < n BY <4>1, <3>1, <1>1, <1>7
      <4>2. CASE j >= n
        <5>1. j + 1 \in 1 .. Len(s) /\ j + 1 # n /\ s[j + 1] = y
          BY <4>2, <3>1, <1>1, <1>8
        <5> QED BY <5>1
      <4> QED BY <4>1, <4>2, <1>1
    <3> QED BY <3>2, <2>1, <1>1 DEF ToSet
  <2>3. ASSUME NEW y \in ToSet(s), y # s[n] PROVE y \in ToSet(t)
    <3>1. PICK k \in 1 .. Len(s) : s[k] = y BY <2>3, <1>1 DEF ToSet
    <3>2. \E j \in 1 .. Len(s) - 1 : t[j] = y
      <4>1. CASE k < n BY <4>1, <3>1, <1>1, <1>7
      <4>2. CASE k > n
        <5>1. k - 1 \in 1 .. Len(s) - 1 /\ k - 1 >= n /\ (k - 1) + 1 = k
          BY <4>2, <1>1
        <5>2. t[k - 1] = y BY <5>1, <3>1, <1>8
        <5> QED BY <5>1, <5>2
      <4> QED BY <4>1, <4>2, <3>1, <2>3, <1>1
    <3> QED BY <3>2, <1>6 DEF ToSet
  <2>4. IsInjective(t)
    <3> SUFFICES ASSUME NEW a \in 1 .. Len(s) - 1, NEW b \in 1 .. Len(s) - 1,
                        t[a] = t[b]
                 PROVE  a = b
      BY <1>6 DEF IsInjective
    <3>1. CASE a < n /\ b < n BY <3>1, <2>1, <1>1, <1>7
    <3>2. CASE a < n /\ b >= n
      <4>1. s[a] = s[b + 1] /\ a \in 1 .. Len(s) /\ b + 1 \in 1 .. Len(s)
        BY <3>2, <1>1, <1>7, <1>8
      <4>2. a = b + 1 BY <4>1, <2>1
      <4> QED BY <4>2, <3>2, <1>1
    <3>3. CASE a >= n /\ b < n
      <4>1. s[b] = s[a + 1] /\ b \in 1 .. Len(s) /\ a + 1 \in 1 .. Len(s)
        BY <3>3, <1>1, <1>7, <1>8
      <4>2. b = a + 1 BY <4>1, <2>1
      <4> QED BY <4>2, <3>3, <1>1
    <3>4. CASE a >= n /\ b >= n
      <4>1. s[a + 1] = s[b + 1] /\ a + 1 \in 1 .. Len(s) /\ b + 1 \in 1 .. Len(s)
        BY <3>4, <1>1, <1>8
      <4>2. a + 1 = b + 1 BY <4>1, <2>1
      <4> QED BY <4>2, <1>1
    <3> QED BY <3>1, <3>2, <3>3, <3>4, <1>1
  <2> QED BY <2>2, <2>3, <2>4
<1> QED BY <1>5, <1>9 DEF t

\* The head of a chain is one of its items, and the rest of it holds no others.
LEMMA TailProperties ==
  ASSUME NEW S, NEW s \in Seq(S), s # <<>>
  PROVE  /\ Head(s) \in S /\ Head(s) \in ToSet(s)
         /\ Tail(s) \in Seq(S) /\ Len(Tail(s)) = Len(s) - 1
         /\ ToSet(Tail(s)) \subseteq ToSet(s)
<1>1. /\ Len(s) \in Nat \ {0} /\ DOMAIN s = 1 .. Len(s)
      /\ Head(s) = s[1] /\ Head(s) \in S
      /\ Tail(s) \in Seq(S) /\ Len(Tail(s)) = Len(s) - 1
      /\ \A j \in 1 .. Len(Tail(s)) : Tail(s)[j] = s[j + 1]
  BY HeadTailProperties, EmptySeq, LenProperties
<1>2. Head(s) \in ToSet(s) BY <1>1 DEF ToSet
<1>3. DOMAIN Tail(s) = 1 .. Len(s) - 1 BY <1>1
<1>4. ASSUME NEW y \in ToSet(Tail(s)) PROVE y \in ToSet(s)
  <2>1. PICK j \in 1 .. Len(s) - 1 : Tail(s)[j] = y BY <1>3, <1>4 DEF ToSet
  <2>2. j + 1 \in 1 .. Len(s) /\ s[j + 1] = y BY <2>1, <1>1
  <2> QED BY <2>2, <1>1 DEF ToSet
<1> QED BY <1>1, <1>2, <1>4

\* The items of a list are items.
LEMMA ToSetType ==
  ASSUME NEW S, NEW s \in Seq(S)
  PROVE  /\ ToSet(s) \subseteq S
         /\ \A n \in 1 .. Len(s) : s[n] \in S /\ s[n] \in ToSet(s)
BY DEF ToSet

-----------------------------------------------------------------------------
(***************************************************************************)
(* The inductive invariant.                                                *)
(***************************************************************************)

\* A pull that is scanning holds its list, which is still as long as when it
\* began; one that has stopped holds its item's lock.
PullInOrder(a) ==
  /\ pull[a].at \in {"idle", "scan"} => pull[a].it = NoItem
  /\ pull[a].at \in {"relink", "release"} =>
       pull[a].it \in Items /\ ilock[hv(pull[a].it)] = a
  /\ pull[a].at = "scan" => /\ lrulock[pull[a].list] = a
                            /\ pull[a].search <= Len(lru[pull[a].list])

PullsInOrder == \A a \in Threads : PullInOrder(a)

\* What the worker's place says of its request.
WorkerInOrder ==
  /\ pull["worker"].at # "idle" => pc \in {"cold", "hot"}
  /\ pc \in {"cold", "hot"} => i < AllocTries
  /\ pc \in {"link", "linkq"} => req.it \in Items
  /\ pc = "link" => ~linked[req.it] /\ item[req.it].key = req.key
  /\ pc = "linkq" => ilock[hv(req.it)] = "worker"

\* A chunk that can be handed out bears no trace of use.
FreeUntouched == \A x \in free : ~linked[x] /\ kept[x] = 0

\* Until an item of a key is evicted, the head of its chain is its last SET.
ChainsFresh ==
  \A k \in Keys \ evicted :
    /\ chain[k] = <<>> => last[k] = 0
    /\ chain[k] # <<>> => item[Head(chain[k])].val = last[k]

\* The inductive invariant.
StoreInv ==
  /\ TypeOK /\ PullsInOrder /\ WorkerInOrder /\ LruConsistent
  /\ FreeUntouched /\ RefcountExact /\ MemorySafe
  /\ ChainsFresh /\ FreshUntilEviction /\ ChainCounts

USE DEF Threads, Lists, NoOne

\* Init gives every variable its type.
LEMMA TypeInit == ASSUME Init PROVE TypeOK
<1> USE StoreAssumption
<1>1. AnyKey \in Keys
  <2>1. \E k \in Keys : TRUE OBVIOUS
  <2> QED BY <2>1, Zenon DEF AnyKey
<1>2. \A S : <<>> \in Seq(S) OBVIOUS
<1>3. NoPull \in PullType BY DEF NoPull, PullType
<1>5. /\ item \in [Items -> [key : Keys, val : 0 .. MaxSets]]
      /\ req \in [key : Keys, it : Items \union {NoItem}, evicted : BOOLEAN]
  <2>1. /\ item = [x \in Items |-> [key |-> AnyKey, val |-> 0]]
        /\ req = [key |-> AnyKey, it |-> NoItem, evicted |-> FALSE]
    BY Zenon DEF Init
  <2> QED BY <2>1, <1>1
<1>6. chain \in [Keys -> Seq(Items)] /\ lru \in [Lists -> Seq(Items)]
  BY <1>2 DEF Init
<1>7. pull \in [Threads -> PullType] BY <1>3, Zenon DEF Init
<1>8. linked \in [Items -> BOOLEAN] BY Zenon DEF Init
<1>9. answer \in [op : {"none", "set", "failed", "hit", "miss"},
                  evicted : BOOLEAN]
  BY DEF Init
<1>10. /\ refcount \in [Items -> Nat] /\ kept \in [Items -> Nat]
       /\ sets \in 0 .. MaxSets /\ gets \in 0 .. MaxGets
       /\ last \in [Keys -> 0 .. MaxSets] /\ i \in 0 .. AllocTries
  <2>1. /\ refcount = [x \in Items |-> 0] /\ kept = [x \in Items |-> 0]
        /\ sets = 0 /\ gets = 0 /\ last = [k \in Keys |-> 0] /\ i = 0
    BY Zenon DEF Init
  <2> QED BY <2>1
<1>11. /\ free \subseteq Items /\ evicted \subseteq Keys /\ pc = "idle"
       /\ ilock \in [Hashes -> Threads \union {NoOne}]
       /\ lrulock \in [Lists -> Threads \union {NoOne}]
  BY Zenon DEF Init
<1> QED BY <1>5, <1>6, <1>7, <1>8, <1>9, <1>10, <1>11, Zenon
  DEF TypeOK, StoreType, LockType, WorkerType, HistoryType

\* The item a scan is at is linked and in its list, and nobody's.
LEMMA SearchProperties ==
  ASSUME StoreInv, NEW a \in Threads, Scanning(a), pull[a].search > 0
  PROVE  /\ pull[a].list \in Lists
         /\ pull[a].search \in 1 .. Len(lru[pull[a].list])
         /\ Search(a) \in Items /\ Search(a) \in ToSet(lru[pull[a].list])
         /\ linked[Search(a)] /\ Search(a) \notin free
         /\ Search(a) \notin Moving /\ Search(a) \notin Linking
         /\ pull[a].it = NoItem /\ lrulock[pull[a].list] = a
<1>1. /\ pull[a].list \in Lists /\ pull[a].search \in Nat
      /\ lru[pull[a].list] \in Seq(Items)
  BY DEF StoreInv, TypeOK, StoreType, PullType
<1>2. /\ lrulock[pull[a].list] = a /\ pull[a].it = NoItem
      /\ pull[a].search <= Len(lru[pull[a].list])
  BY DEF StoreInv, PullsInOrder, PullInOrder, Scanning
<1>3. pull[a].search \in 1 .. Len(lru[pull[a].list]) BY <1>1, <1>2
<1>4. Search(a) \in Items /\ Search(a) \in ToSet(lru[pull[a].list])
  BY <1>1, <1>3, ToSetType DEF Search
<1>5. Search(a) \in Listed BY <1>4, <1>1 DEF Listed
<1>6. linked[Search(a)] /\ Search(a) \notin Moving /\ Search(a) \notin Linking
  BY <1>4, <1>5 DEF StoreInv, LruConsistent
<1>7. Search(a) \notin free BY <1>1, <1>4 DEF StoreInv, MemorySafe
<1> QED BY <1>1, <1>2, <1>3, <1>4, <1>6, <1>7

\* A pull that holds an item is never its last holder: what it releases is not
\* freed, for the reference the item was allocated with is never given back.
LEMMA ReleaseProperties ==
  ASSUME StoreInv, NEW a \in Threads, pull[a].at \in {"relink", "release"}
  PROVE  /\ pull[a].it \in Items /\ pull[a].it \notin free
         /\ ilock[hv(pull[a].it)] = a
         /\ refcount[pull[a].it] \in Nat /\ refcount[pull[a].it] >= 2
<1> DEFINE x == pull[a].it
<1>1. x \in Items /\ ilock[hv(x)] = a
  BY DEF StoreInv, PullsInOrder, PullInOrder
<1>2. x \notin free BY DEF StoreInv, MemorySafe
<1>3. refcount[x] = 1 + One(linked[x] /\ x \notin Linking) + kept[x] + Held(x)
  BY <1>1, <1>2 DEF StoreInv, RefcountExact
<1>4. refcount[x] \in Nat /\ kept[x] \in Nat
  BY <1>1 DEF StoreInv, TypeOK, StoreType, HistoryType
<1>5. \A b : One(b) \in {0, 1} BY DEF One
<1>6. Held(x) \in Nat /\ Held(x) >= 1
  <2>1. CASE a = "worker"
    <3>1. One(pull["worker"].it = x) = 1 BY <2>1 DEF One
    <3> QED BY <3>1, <1>5 DEF Held
  <2>2. CASE a = "maintainer"
    <3>1. One(pull["maintainer"].it = x) = 1 BY <2>2 DEF One
    <3> QED BY <3>1, <1>5 DEF Held
  <2> QED BY <2>1, <2>2
<1> DEFINE l == One(linked[x] /\ x \notin Linking)
<1>7. l \in {0, 1} BY <1>5
<1>8. refcount[x] = 1 + l + kept[x] + Held(x) BY <1>3
<1> HIDE DEF l, x
<1>9. refcount[x] >= 2 BY <1>4, <1>6, <1>7, <1>8
<1> QED BY <1>1, <1>2, <1>4, <1>9 DEF x

-----------------------------------------------------------------------------
(***************************************************************************)
(* Types.                                                                  *)
(***************************************************************************)

\* A pull that starts, and one that returns, is a pull.
LEMMA NoPullType == NoPull \in PullType
BY StoreAssumption DEF NoPull, PullType

\* A counter that is incremented stays a counter.
LEMMA IncrType ==
  ASSUME NEW S, NEW f \in [S -> Nat], NEW x \in S
  PROVE  [f EXCEPT ![x] = @ + 1] \in [S -> Nat]
OBVIOUS

\* Every step keeps every variable in its type.
LEMMA TypeStep == ASSUME StoreInv, [Next]_vars PROVE TypeOK'
<1> USE StoreAssumption, NoPullType
<1> USE DEF store, locks, worker, history
<1>0. TypeOK BY DEF StoreInv
<1> USE DEF TypeOK, StoreType, LockType, WorkerType, HistoryType
<1>1. CASE UNCHANGED vars BY <1>0, <1>1 DEF vars
<1>2. ASSUME NEW k \in Keys, Set(k) PROVE TypeOK'
  BY <1>0, <1>2, SMTT(30) DEF Set
<1>3. ASSUME NEW k \in Keys, Get(k) PROVE TypeOK'
  <2>1. CASE chain[k] = <<>>
    BY <1>0, <1>3, <2>1, SMTT(30) DEF Get
  <2>2. CASE chain[k] # <<>>
    <3>1. Head(chain[k]) \in Items BY <1>0, <2>2, TailProperties
    <3>2. /\ refcount' = [refcount EXCEPT ![Head(chain[k])] = @ + 1]
          /\ kept' = [kept EXCEPT ![Head(chain[k])] = @ + 1]
      BY <1>3, <2>2 DEF Get, RefcountIncr
    <3>4. refcount' \in [Items -> Nat] /\ kept' \in [Items -> Nat]
      <4>1. refcount \in [Items -> Nat] /\ kept \in [Items -> Nat] BY <1>0
      <4> QED BY <4>1, <3>1, <3>2, IncrType, Zenon
    <3>3. WorkerType' BY <1>0, <1>3, <2>2, <3>1 DEF Get
    <3> QED BY <1>0, <1>3, <3>3, <3>4 DEF Get
  <2> QED BY <2>1, <2>2
<1>4. ASSUME NEW x \in Items, Alloc(x) PROVE TypeOK'
  BY <1>0, <1>4 DEF Alloc
<1>5. ASSUME NEW a \in Threads, NEW l \in Lists, NEW e \in BOOLEAN,
             PullStart(a, l, e)
      PROVE  /\ pull' \in [Threads -> PullType]
             /\ lrulock' \in [Lists -> Threads \union {NoOne}]
  <2>1. Len(lru[l]) \in Nat BY <1>0
  <2> DEFINE p == [at |-> "scan", list |-> l, evict |-> e, search |-> Len(lru[l]),
                   tries |-> PullTries, it |-> NoItem, removed |-> FALSE]
  <2>2. p \in PullType BY <2>1 DEF PullType
  <2>3. pull' = [pull EXCEPT ![a] = p] /\ lrulock' = [lrulock EXCEPT ![l] = a]
    BY <1>5 DEF PullStart
  <2> HIDE DEF p
  <2> QED BY <1>0, <2>2, <2>3
<1>6. CASE AllocPulls BY <1>0, <1>5, <1>6 DEF AllocPulls, PullStart
<1>7. CASE Juggle BY <1>0, <1>5, <1>7, ZenonT(30) DEF Juggle, PullStart
<1>8. CASE AllocFails BY <1>0, <1>8 DEF AllocFails, Respond
<1>9. CASE Link
  <2>1. req.it \in Items BY <1>9 DEF StoreInv, WorkerInOrder, Link
  <2>2. req.key \in Keys BY <1>0
  <2>3. <<req.it>> \o chain[req.key] \in Seq(Items)
    BY <1>0, <2>1, <2>2, ConsProperties
  <2>4. chain' \in [Keys -> Seq(Items)]
    BY <1>0, <1>9, <2>3 DEF Link, AssocInsert
  <2>5. /\ linked' \in [Items -> BOOLEAN]
        /\ ilock' \in [Hashes -> Threads \union {NoOne}]
        /\ last' \in [Keys -> 0 .. MaxSets]
    BY <1>0, <1>9, <2>1 DEF Link, ItemLock
  <2> QED BY <1>0, <1>9, <2>4, <2>5 DEF Link
<1>10. CASE LinkQ
  <2>1. req.it \in Items BY <1>10 DEF StoreInv, WorkerInOrder, LinkQ
  <2>2. <<req.it>> \o lru["HOT"] \in Seq(Items) BY <1>0, <2>1, ConsProperties
  <2>3. lru' \in [Lists -> Seq(Items)] BY <1>0, <1>10, <2>2 DEF LinkQ, LruLink
  <2>4. /\ refcount' = [refcount EXCEPT ![req.it] = @ + 1]
        /\ ilock' = [ilock EXCEPT ![hv(req.it)] = NoOne]
    BY <1>10 DEF LinkQ, RefcountIncr, ItemUnlock
  <2>5. refcount' \in [Items -> Nat] BY <1>0, <2>1, <2>4
  <2>6. ilock' \in [Hashes -> Threads \union {NoOne}] BY <1>0, <2>4
  <2>7. pc' \in {"idle"} /\ answer' \in [op : {"set"}, evicted : BOOLEAN]
    BY <1>0, <1>10 DEF LinkQ, Respond
  <2> QED BY <1>0, <1>10, <2>3, <2>5, <2>6, <2>7 DEF LinkQ
<1>11. CASE Copy
  <2>1. answer' \in [op : {"none", "set", "failed", "hit", "miss"},
                     evicted : BOOLEAN]
    BY <1>0, <1>11 DEF Copy, Respond
  <2> QED BY <1>0, <1>11, <2>1 DEF Copy, Respond
<1>12. ASSUME NEW a \in Threads, NEW r \in BOOLEAN, PullReturns(a, r),
              pull[a].at # "idle"
       PROVE  /\ pull' \in [Threads -> PullType]
              /\ pc' \in {"idle", "alloc", "cold", "hot", "link", "linkq", "copy"}
              /\ i' \in 0 .. AllocTries
  <2>1. pull' \in [Threads -> PullType] BY <1>0, <1>12, Zenon DEF PullReturns
  <2>2. a = "worker" => i < AllocTries
    BY <1>12 DEF StoreInv, WorkerInOrder
  <2>3. i' \in 0 .. AllocTries BY <1>0, <1>12, <2>2 DEF PullReturns
  <2>4. pc' \in {"idle", "alloc", "cold", "hot", "link", "linkq", "copy"}
    BY <1>0, <1>12 DEF PullReturns
  <2> QED BY <2>1, <2>3, <2>4
<1>13. ASSUME NEW a \in Threads, PullFindsNone(a) PROVE TypeOK'
  <2>1. pull[a].at # "idle" BY <1>13 DEF PullFindsNone, Scanning
  <2>2. lrulock' \in [Lists -> Threads \union {NoOne}]
    BY <1>0, <1>13 DEF PullFindsNone
  <2>3. PullReturns(a, FALSE) BY <1>13 DEF PullFindsNone
  <2>4. /\ pull' \in [Threads -> PullType]
        /\ pc' \in {"idle", "alloc", "cold", "hot", "link", "linkq", "copy"}
        /\ i' \in 0 .. AllocTries
    BY <1>12, <2>1, <2>3
  <2> QED BY <1>0, <1>13, <2>2, <2>4 DEF PullFindsNone
<1>14. ASSUME NEW a \in Threads, PullSkips(a) PROVE TypeOK'
  <2>1. pull[a] \in PullType /\ pull[a].search > 0 /\ pull[a].tries > 0
    BY <1>0, <1>14 DEF PullSkips
  <2>2. [pull[a] EXCEPT !.search = @ - 1, !.tries = @ - 1] \in PullType
    <3>1. pull[a].search - 1 \in Nat /\ pull[a].tries - 1 \in 0 .. PullTries
      BY <2>1 DEF PullType
    <3> QED BY <2>1, <3>1 DEF PullType
  <2>3. pull' = [pull EXCEPT ![a] = [pull[a] EXCEPT !.search = @ - 1, !.tries = @ - 1]]
    BY <1>0, <1>14 DEF PullSkips, PullType
  <2>4. pull' \in [Threads -> PullType] BY <1>0, <2>2, <2>3
  <2> QED BY <1>0, <1>14, <2>4 DEF PullSkips
<1>15. ASSUME NEW a \in Threads, NEW r \in BOOLEAN,
              NEW next \in {"relink", "release"}, PullStops(a, next, r)
       PROVE  /\ pull' \in [Threads -> PullType] /\ LockType'
              /\ pull[a].list \in Lists /\ Search(a) \in Items
              /\ pull[a].search \in 1 .. Len(lru[pull[a].list])
  <2>1. /\ pull[a].list \in Lists /\ Search(a) \in Items
        /\ pull[a].search \in 1 .. Len(lru[pull[a].list])
    BY <1>15, SearchProperties DEF PullStops
  <2>2. [pull[a] EXCEPT !.at = next, !.it = Search(a), !.removed = r] \in PullType
    BY <1>0, <2>1 DEF PullType
  <2>3. pull' = [pull EXCEPT ![a] =
                   [pull[a] EXCEPT !.at = next, !.it = Search(a), !.removed = r]]
    BY <1>0, <1>15 DEF PullStops, PullType
  <2>4. LockType' BY <1>0, <1>15 DEF PullStops, ItemLock
  <2> QED BY <1>0, <2>1, <2>2, <2>3, <2>4
<1>16. ASSUME NEW a \in Threads, PullEvicts(a) PROVE TypeOK'
  <2> DEFINE x == Search(a)
             key == item[x].key
             l == pull[a].list
  <2>1. PullStops(a, "release", TRUE) BY <1>16 DEF PullEvicts
  <2>2. /\ pull' \in [Threads -> PullType] /\ LockType' /\ l \in Lists /\ x \in Items
        /\ pull[a].search \in 1 .. Len(lru[l])
    BY <1>15, <2>1
  <2>3. key \in Keys BY <1>0, <2>2
  <2>4. RemoveAt(lru[l], pull[a].search) \in Seq(Items)
    BY <1>0, <2>2, RemoveAtProperties
  <2>5. (IF chain[key] = <<>> THEN chain[key] ELSE Tail(chain[key])) \in Seq(Items)
    BY <1>0, <2>3, TailProperties
  <2>6. /\ chain' = [chain EXCEPT ![key] = IF @ = <<>> THEN @ ELSE Tail(@)]
        /\ lru' = [lru EXCEPT ![l] = RemoveAt(@, pull[a].search)]
        /\ linked' = [linked EXCEPT ![x] = FALSE]
        /\ evicted' = evicted \union {key} /\ req' = [req EXCEPT !.evicted = TRUE]
        /\ UNCHANGED <<item, free, pc, i, sets, gets, kept, last, answer, refcount>>
    BY <1>16 DEF PullEvicts, PullStops, AssocDelete, LruUnlink
  <2> HIDE DEF x, key, l
  <2>7. chain' \in [Keys -> Seq(Items)] BY <1>0, <2>3, <2>5, <2>6
  <2>8. lru' \in [Lists -> Seq(Items)] BY <1>0, <2>4, <2>6
  <2>9. linked' \in [Items -> BOOLEAN] BY <1>0, <2>6
  <2> QED BY <1>0, <2>2, <2>3, <2>6, <2>7, <2>8, <2>9
<1>17. ASSUME NEW a \in Threads, PullMoves(a) PROVE TypeOK'
  <2>1. PullStops(a, "relink", TRUE) BY <1>17 DEF PullMoves
  <2>2. /\ pull' \in [Threads -> PullType] /\ LockType' /\ Search(a) \in Items
        /\ pull[a].search \in 1 .. Len(lru["HOT"])
    BY <1>15, <1>17, <2>1 DEF PullMoves
  <2>3. RemoveAt(lru["HOT"], pull[a].search) \in Seq(Items)
    BY <1>0, <2>2, RemoveAtProperties
  <2>4. /\ lru' = [lru EXCEPT !["HOT"] = RemoveAt(@, pull[a].search)]
        /\ refcount' = [refcount EXCEPT ![Search(a)] = @ + 1]
        /\ UNCHANGED <<item, free, pc, i, sets, gets, kept, last, answer, linked,
                       chain, evicted, req>>
    BY <1>17 DEF PullMoves, PullStops, RefcountIncr, LruUnlink
  <2>5. lru' \in [Lists -> Seq(Items)] BY <1>0, <2>3, <2>4
  <2>6. refcount' \in [Items -> Nat]
    <3>1. refcount \in [Items -> Nat] BY <1>0
    <3> QED BY <3>1, <2>2, <2>4, IncrType, Zenon
  <2> QED BY <1>0, <2>2, <2>4, <2>5, <2>6
<1>18. ASSUME NEW a \in Threads, PullLeaves(a) PROVE TypeOK'
  <2>1. PullStops(a, "release", FALSE) BY <1>18 DEF PullLeaves
  <2>2. pull' \in [Threads -> PullType] /\ LockType' /\ Search(a) \in Items
    BY <1>15, <2>1
  <2>3. /\ refcount' = [refcount EXCEPT ![Search(a)] = @ + 1]
        /\ UNCHANGED <<item, free, pc, i, sets, gets, kept, last, answer, linked,
                       chain, lru, evicted, req>>
    BY <1>18 DEF PullLeaves, PullStops, RefcountIncr
  <2>4. refcount' \in [Items -> Nat]
    <3>1. refcount \in [Items -> Nat] BY <1>0
    <3> QED BY <3>1, <2>2, <2>3, IncrType, Zenon
  <2> QED BY <1>0, <2>2, <2>3, <2>4
<1>19. ASSUME NEW a \in Threads, PullRelinks(a) PROVE TypeOK'
  <2>1. pull[a].it \in Items BY <1>19, ReleaseProperties DEF PullRelinks
  <2>2. <<pull[a].it>> \o lru["COLD"] \in Seq(Items) BY <1>0, <2>1, ConsProperties
  <2>3. lru' \in [Lists -> Seq(Items)]
    BY <1>0, <1>19, <2>2 DEF PullRelinks, LruLink
  <2>4. [pull[a] EXCEPT !.at = "release"] \in PullType BY <1>0 DEF PullType
  <2>5. pull' \in [Threads -> PullType]
    BY <1>0, <1>19, <2>4 DEF PullRelinks, PullType
  <2> QED BY <1>0, <1>19, <2>3, <2>5 DEF PullRelinks
<1>20. ASSUME NEW a \in Threads, PullReleases(a) PROVE TypeOK'
  <2> DEFINE x == pull[a].it
  <2>1. x \in Items /\ refcount[x] \in Nat /\ refcount[x] >= 2
    BY <1>20, ReleaseProperties DEF PullReleases
  <2>2. /\ refcount' = [refcount EXCEPT ![x] = @ - 1] /\ free' = free
        /\ ilock' = [ilock EXCEPT ![hv(x)] = NoOne]
        /\ PullReturns(a, pull[a].removed)
        /\ UNCHANGED <<item, linked, chain, lru, lrulock, req, history>>
    BY <1>20, <2>1 DEF PullReleases, ItemRemove, ItemUnlock
  <2>3. refcount' \in [Items -> Nat]
    <3>1. refcount' = [refcount EXCEPT ![x] = refcount[x] - 1] BY <2>2
    <3> HIDE DEF x
    <3>2. refcount \in [Items -> Nat] BY <1>0, Zenon
    <3>3. refcount[x] - 1 \in Nat BY <2>1, SMT
    <3> QED BY <2>1, <3>1, <3>2, <3>3
  <2>4. ilock' \in [Hashes -> Threads \union {NoOne}] BY <1>0, <2>2
  <2>5. pull[a].removed \in BOOLEAN /\ pull[a].at # "idle"
    BY <1>0, <1>20 DEF PullReleases, PullType
  <2>6. /\ pull' \in [Threads -> PullType]
        /\ pc' \in {"idle", "alloc", "cold", "hot", "link", "linkq", "copy"}
        /\ i' \in 0 .. AllocTries
    BY <1>12, <2>2, <2>5
  <2> QED BY <1>0, <2>2, <2>3, <2>4, <2>6
<1>21. QED
  BY <1>1, <1>2, <1>3, <1>4, <1>6, <1>7, <1>8, <1>9, <1>10, <1>11, <1>13, <1>14,
     <1>16, <1>17, <1>18, <1>19, <1>20, Zenon
  DEF Next, Request, WorkerStep, PullStep

-----------------------------------------------------------------------------
(***************************************************************************)
(* Chunks, locks and places.                                               *)
(***************************************************************************)

\* No step gives a chunk back, and one in use keeps its key and its value.
LEMMA ItemKept ==
  ASSUME StoreInv, [Next]_vars
  PROVE  free' \subseteq free /\ \A x \in Items \ free : item'[x] = item[x]
<1> USE DEF store, locks, worker, history
<1> DEFINE Kept == free' \subseteq free /\ \A x \in Items \ free : item'[x] = item[x]
<1>1. CASE UNCHANGED vars BY <1>1 DEF vars
<1>2. ASSUME NEW k \in Keys, Set(k) PROVE Kept BY <1>2 DEF Set
<1>3. ASSUME NEW k \in Keys, Get(k) PROVE Kept BY <1>3 DEF Get
<1>4. ASSUME NEW x \in Items, Alloc(x) PROVE Kept
  <2>1. /\ free' = free \ {x} /\ x \in free /\ item \in [Items -> [key : Keys, val : 0 .. MaxSets]]
        /\ item' = [item EXCEPT ![x] = [key |-> req.key, val |-> sets]]
    BY <1>4 DEF Alloc, StoreInv, TypeOK, StoreType
  <2> QED BY <2>1
<1>5. CASE AllocPulls BY <1>5 DEF AllocPulls, PullStart
<1>6. CASE Juggle BY <1>6 DEF Juggle, PullStart
<1>7. CASE AllocFails BY <1>7 DEF AllocFails
<1>8. CASE Link BY <1>8 DEF Link
<1>9. CASE LinkQ BY <1>9 DEF LinkQ
<1>10. CASE Copy BY <1>10 DEF Copy
<1>11. ASSUME NEW a \in Threads, PullStep(a) PROVE Kept
  <2>1. CASE PullFindsNone(a) BY <2>1 DEF PullFindsNone
  <2>2. CASE PullSkips(a) BY <2>2 DEF PullSkips
  <2>3. CASE PullEvicts(a) BY <2>3 DEF PullEvicts, PullStops
  <2>4. CASE PullMoves(a) BY <2>4 DEF PullMoves, PullStops
  <2>5. CASE PullLeaves(a) BY <2>5 DEF PullLeaves, PullStops
  <2>6. CASE PullRelinks(a) BY <2>6 DEF PullRelinks
  <2>7. CASE PullReleases(a)
    <3>1. refcount[pull[a].it] # 1 BY <2>7, ReleaseProperties DEF PullReleases
    <3> QED BY <2>7, <3>1 DEF PullReleases, ItemRemove
  <2> QED BY <1>11, <2>1, <2>2, <2>3, <2>4, <2>5, <2>6, <2>7, Zenon DEF PullStep
<1> QED
  BY <1>1, <1>2, <1>3, <1>4, <1>5, <1>6, <1>7, <1>8, <1>9, <1>10, <1>11, Zenon
  DEF Next, Request, WorkerStep

\* A pull that a step leaves alone, with its locks, stays in order.
LEMMA PullFrame ==
  ASSUME StoreInv, [Next]_vars, NEW b \in Threads, pull'[b] = pull[b],
         pull[b].at \in {"relink", "release"} => ilock'[hv(pull[b].it)] = b,
         pull[b].at = "scan" => /\ lrulock'[pull[b].list] = b
                               /\ Len(lru'[pull[b].list]) >= Len(lru[pull[b].list])
  PROVE  PullInOrder(b)'
<1>1. PullInOrder(b) BY DEF StoreInv, PullsInOrder
<1>2. /\ pull'[b].at \in {"idle", "scan"} => pull'[b].it = NoItem
  BY <1>1 DEF PullInOrder
<1>3. ASSUME pull'[b].at \in {"relink", "release"}
      PROVE  pull'[b].it \in Items /\ ilock'[hash[item'[pull'[b].it].key]] = b
  <2>1. pull[b].it \in Items /\ pull[b].it \notin free BY <1>3, ReleaseProperties
  <2>2. item'[pull[b].it] = item[pull[b].it] BY <2>1, ItemKept
  <2>3. ilock'[hash[item[pull[b].it].key]] = b BY <1>3 DEF hv
  <2> QED BY <2>1, <2>2, <2>3
<1>4. ASSUME pull'[b].at = "scan"
      PROVE  lrulock'[pull'[b].list] = b /\ pull'[b].search <= Len(lru'[pull'[b].list])
  <2>1. /\ pull[b].search \in Nat /\ lru[pull[b].list] \in Seq(Items)
        /\ lru'[pull[b].list] \in Seq(Items)
    BY TypeStep DEF StoreInv, TypeOK, StoreType, PullType
  <2>2. pull[b].search <= Len(lru[pull[b].list]) BY <1>1, <1>4 DEF PullInOrder
  <2>3. Len(lru[pull[b].list]) \in Nat /\ Len(lru'[pull[b].list]) \in Nat BY <2>1
  <2>4. pull[b].search <= Len(lru'[pull[b].list]) BY <1>4, <2>1, <2>2, <2>3
  <2> QED BY <1>4, <2>4
<1> QED BY <1>2, <1>3, <1>4 DEF PullInOrder, hv

\* Every step keeps the pulls in order.
LEMMA PullsStep == ASSUME StoreInv, [Next]_vars PROVE PullsInOrder'
<1> USE DEF store, locks, worker, history
<1> SUFFICES ASSUME NEW b \in Threads PROVE PullInOrder(b)'
  BY DEF PullsInOrder
<1>a. /\ PullInOrder(b) /\ pull \in [Threads -> PullType] /\ pull[b].list \in Lists
      /\ ilock \in [Hashes -> Threads \union {NoOne}]
      /\ lrulock \in [Lists -> Threads \union {NoOne}]
      /\ lru \in [Lists -> Seq(Items)]
      /\ pull[b].at \in {"relink", "release"} => ilock[hv(pull[b].it)] = b
      /\ pull[b].at = "scan" => lrulock[pull[b].list] = b
  BY DEF StoreInv, PullsInOrder, PullInOrder, TypeOK, StoreType, LockType, PullType
<1>b. \A l \in Lists : Len(lru[l]) \in Nat BY <1>a
<1>c. ASSUME UNCHANGED <<pull, lru, locks>> PROVE PullInOrder(b)'
  <2>1. Len(lru'[pull[b].list]) >= Len(lru[pull[b].list]) BY <1>a, <1>b, <1>c
  <2> QED BY <1>a, <1>c, <2>1, PullFrame
<1>1. CASE UNCHANGED vars BY <1>1, <1>c DEF vars
<1>2. ASSUME NEW k \in Keys, Set(k) PROVE PullInOrder(b)' BY <1>2, <1>c DEF Set
<1>3. ASSUME NEW k \in Keys, Get(k) PROVE PullInOrder(b)' BY <1>3, <1>c DEF Get
<1>4. ASSUME NEW x \in Items, Alloc(x) PROVE PullInOrder(b)' BY <1>4, <1>c DEF Alloc
<1>5. CASE AllocFails BY <1>5, <1>c DEF AllocFails
<1>6. CASE Copy BY <1>6, <1>c DEF Copy
<1>7. ASSUME NEW a \in Threads, NEW l \in Lists, NEW e \in BOOLEAN, PullStart(a, l, e)
      PROVE  PullInOrder(b)'
  <2>1. /\ pull[a].at = "idle" /\ lrulock[l] = NoOne /\ lrulock' = [lrulock EXCEPT ![l] = a]
        /\ UNCHANGED <<ilock, lru>>
    BY <1>7 DEF PullStart
  <2>2. CASE a = b
    <3>1. /\ pull'[b].at = "scan" /\ pull'[b].it = NoItem /\ pull'[b].list = l
          /\ pull'[b].search = Len(lru[l])
      BY <1>7, <1>a, <2>2 DEF PullStart
    <3>2. lrulock'[l] = b BY <1>a, <2>1, <2>2
    <3>3. Len(lru'[l]) = Len(lru[l]) /\ Len(lru[l]) \in Nat BY <1>b, <2>1
    <3> QED BY <3>1, <3>2, <3>3 DEF PullInOrder
  <2>3. CASE a # b
    <3>1. pull'[b] = pull[b] BY <1>7, <1>a, <2>3 DEF PullStart
    <3>2. pull[b].at = "scan" => lrulock'[pull[b].list] = b BY <1>a, <2>1
    <3>3. Len(lru'[pull[b].list]) >= Len(lru[pull[b].list]) BY <1>a, <1>b, <2>1
    <3> QED BY <3>1, <3>2, <3>3, <1>a, <2>1, PullFrame
  <2> QED BY <2>2, <2>3
<1>8. CASE AllocPulls BY <1>7, <1>8 DEF AllocPulls
<1>9. CASE Juggle BY <1>7, <1>9 DEF Juggle
<1>10. CASE Link
  <2>1. /\ ilock[hv(req.it)] = NoOne /\ ilock' = [ilock EXCEPT ![hv(req.it)] = "worker"]
        /\ UNCHANGED <<pull, lru, lrulock>>
    BY <1>10 DEF Link, ItemLock
  <2>2. pull[b].at \in {"relink", "release"} => ilock'[hv(pull[b].it)] = b
    BY <1>a, <2>1
  <2>3. Len(lru'[pull[b].list]) >= Len(lru[pull[b].list]) BY <1>a, <1>b, <2>1
  <2> QED BY <1>a, <2>1, <2>2, <2>3, PullFrame
<1>11. CASE LinkQ
  <2>1. /\ ilock' = [ilock EXCEPT ![hv(req.it)] = NoOne] /\ pc = "linkq"
        /\ lru' = [lru EXCEPT !["HOT"] = <<req.it>> \o @] /\ UNCHANGED <<pull, lrulock>>
    BY <1>11 DEF LinkQ, ItemUnlock, LruLink
  <2>2. ilock[hv(req.it)] = "worker" /\ pull["worker"].at = "idle" /\ req.it \in Items
    BY <2>1 DEF StoreInv, WorkerInOrder
  <2>3. pull[b].at \in {"relink", "release"} => ilock'[hv(pull[b].it)] = b
    BY <1>a, <2>1, <2>2
  <2>4. Len(<<req.it>> \o lru["HOT"]) = Len(lru["HOT"]) + 1
    BY <1>a, <2>2, ConsProperties
  <2>5. Len(lru'[pull[b].list]) >= Len(lru[pull[b].list]) BY <1>a, <1>b, <2>1, <2>4
  <2> QED BY <1>a, <2>1, <2>3, <2>5, PullFrame
<1>12. ASSUME NEW a \in Threads, PullFindsNone(a) PROVE PullInOrder(b)'
  <2>1. /\ lrulock' = [lrulock EXCEPT ![pull[a].list] = NoOne]
        /\ pull' = [pull EXCEPT ![a] = NoPull] /\ UNCHANGED <<ilock, lru>>
        /\ pull[a].at = "scan"
    BY <1>12 DEF PullFindsNone, PullReturns, Scanning
  <2>2. lrulock[pull[a].list] = a
    BY <2>1 DEF StoreInv, PullsInOrder, PullInOrder
  <2>3. CASE a = b
    <3>1. pull'[b] = NoPull BY <1>a, <2>1, <2>3
    <3> QED BY <3>1 DEF PullInOrder, NoPull
  <2>4. CASE a # b
    <3>1. pull'[b] = pull[b] BY <1>a, <2>1, <2>4
    <3>2. pull[b].at = "scan" => lrulock'[pull[b].list] = b
      BY <1>a, <2>1, <2>2, <2>4
    <3>3. Len(lru'[pull[b].list]) >= Len(lru[pull[b].list]) BY <1>a, <1>b, <2>1
    <3> QED BY <3>1, <3>2, <3>3, <1>a, <2>1, PullFrame
  <2> QED BY <2>3, <2>4
<1>13. ASSUME NEW a \in Threads, PullSkips(a) PROVE PullInOrder(b)'
  <2>1. /\ pull' = [pull EXCEPT ![a].search = @ - 1, ![a].tries = @ - 1]
        /\ UNCHANGED <<lru, lrulock, ilock>> /\ pull[a].at = "scan"
    BY <1>13 DEF PullSkips, Scanning
  <2>2. CASE a = b
    <3>1. /\ pull[b].it = NoItem /\ lrulock[pull[b].list] = b /\ pull[b].search \in Nat
          /\ pull[b].search <= Len(lru[pull[b].list])
      BY <1>a, <2>1, <2>2 DEF PullInOrder, PullType
    <3>2. /\ pull'[b].at = "scan" /\ pull'[b].it = NoItem
          /\ pull'[b].list = pull[b].list /\ pull'[b].search = pull[b].search - 1
      BY <1>a, <2>1, <2>2, <3>1 DEF PullType
    <3>3. pull'[b].search <= Len(lru[pull[b].list]) BY <1>a, <1>b, <3>1, <3>2
    <3> QED BY <2>1, <3>1, <3>2, <3>3 DEF PullInOrder
  <2>3. CASE a # b
    <3>1. pull'[b] = pull[b] BY <1>a, <2>1, <2>3
    <3>2. Len(lru'[pull[b].list]) >= Len(lru[pull[b].list]) BY <1>a, <1>b, <2>1
    <3> QED BY <3>1, <3>2, <1>a, <2>1, PullFrame
  <2> QED BY <2>2, <2>3
<1>14. ASSUME NEW a \in Threads, NEW next \in {"relink", "release"},
              NEW r \in BOOLEAN, PullStops(a, next, r),
              \A l \in Lists : l # pull[a].list => lru'[l] = lru[l]
       PROVE  PullInOrder(b)'
  <2>1. /\ ilock[hv(Search(a))] = NoOne /\ ilock' = [ilock EXCEPT ![hv(Search(a))] = a]
        /\ lrulock' = [lrulock EXCEPT ![pull[a].list] = NoOne]
        /\ pull' = [pull EXCEPT ![a].at = next, ![a].it = Search(a), ![a].removed = r]
        /\ UNCHANGED item
    BY <1>14 DEF PullStops, ItemLock
  <2>2. Search(a) \in Items /\ lrulock[pull[a].list] = a
    BY <1>14, SearchProperties DEF PullStops
  <2>3. CASE a = b
    <3>1. pull'[b].at = next /\ pull'[b].it = Search(a) BY <1>a, <2>1, <2>3 DEF PullType
    <3>2. hv(Search(a)) \in Hashes
      <4>1. item[Search(a)].key \in Keys BY <2>2 DEF StoreInv, TypeOK, StoreType
      <4> QED BY <4>1, StoreAssumption DEF hv
    <3>3. ilock'[hash[item'[Search(a)].key]] = b BY <1>a, <2>1, <2>3, <3>2 DEF hv
    <3> QED BY <2>2, <3>1, <3>3 DEF PullInOrder, hv
  <2>4. CASE a # b
    <3>1. pull'[b] = pull[b] BY <1>a, <2>1, <2>4
    <3>2. pull[b].at \in {"relink", "release"} => ilock'[hv(pull[b].it)] = b
      BY <1>a, <2>1
    <3>3. ASSUME pull[b].at = "scan"
          PROVE  /\ lrulock'[pull[b].list] = b
                 /\ Len(lru'[pull[b].list]) >= Len(lru[pull[b].list])
      <4>1. pull[b].list # pull[a].list BY <1>a, <2>2, <2>4, <3>3
      <4>2. lru'[pull[b].list] = lru[pull[b].list] BY <1>a, <1>14, <4>1
      <4> QED BY <1>a, <1>b, <2>1, <3>3, <4>1, <4>2
    <3> QED BY <3>1, <3>2, <3>3, PullFrame
  <2> QED BY <2>3, <2>4
<1>15. ASSUME NEW a \in Threads, PullEvicts(a) PROVE PullInOrder(b)'
  BY <1>a, <1>14, <1>15 DEF PullEvicts, LruUnlink
<1>16. ASSUME NEW a \in Threads, PullMoves(a) PROVE PullInOrder(b)'
  BY <1>a, <1>14, <1>16 DEF PullMoves, LruUnlink
<1>17. ASSUME NEW a \in Threads, PullLeaves(a) PROVE PullInOrder(b)'
  BY <1>14, <1>17 DEF PullLeaves
<1>18. ASSUME NEW a \in Threads, PullRelinks(a) PROVE PullInOrder(b)'
  <2>1. /\ pull[a].at = "relink" /\ lrulock["COLD"] = NoOne /\ UNCHANGED <<ilock, lrulock, item>>
        /\ lru' = [lru EXCEPT !["COLD"] = <<pull[a].it>> \o @]
        /\ pull' = [pull EXCEPT ![a].at = "release"]
    BY <1>18 DEF PullRelinks, LruLink
  <2>2. CASE a = b
    <3>1. pull'[b].at = "release" /\ pull'[b].it = pull[b].it
      BY <1>a, <2>1, <2>2 DEF PullType
    <3>2. pull[b].it \in Items /\ ilock[hv(pull[b].it)] = b
      BY <2>1, <2>2, ReleaseProperties
    <3> QED BY <2>1, <3>1, <3>2 DEF PullInOrder, hv
  <2>3. CASE a # b
    <3>1. pull'[b] = pull[b] BY <1>a, <2>1, <2>3
    <3>2. pull[b].at = "scan" => lru'[pull[b].list] = lru[pull[b].list]
      BY <1>a, <2>1
    <3>3. pull[b].at = "scan" => Len(lru'[pull[b].list]) >= Len(lru[pull[b].list])
      BY <1>a, <1>b, <3>2
    <3> QED BY <3>1, <3>3, <1>a, <2>1, PullFrame
  <2> QED BY <2>2, <2>3
<1>19. ASSUME NEW a \in Threads, PullReleases(a) PROVE PullInOrder(b)'
  <2>1. /\ ilock' = [ilock EXCEPT ![hv(pull[a].it)] = NoOne] /\ pull[a].at = "release"
        /\ pull' = [pull EXCEPT ![a] = NoPull] /\ UNCHANGED <<lru, lrulock>>
    BY <1>19 DEF PullReleases, ItemUnlock, PullReturns
  <2>2. CASE a = b
    <3>1. pull'[b] = NoPull BY <1>a, <2>1, <2>2
    <3> QED BY <3>1 DEF PullInOrder, NoPull
  <2>3. CASE a # b
    <3>1. pull'[b] = pull[b] BY <1>a, <2>1, <2>3
    <3>2. ilock[hv(pull[a].it)] = a BY <2>1, ReleaseProperties
    <3>3. pull[b].at \in {"relink", "release"} => ilock'[hv(pull[b].it)] = b
      BY <1>a, <2>1, <2>3, <3>2
    <3>4. Len(lru'[pull[b].list]) >= Len(lru[pull[b].list]) BY <1>a, <1>b, <2>1
    <3> QED BY <3>1, <3>3, <3>4, <1>a, <2>1, PullFrame
  <2> QED BY <2>2, <2>3
<1> QED
  BY <1>1, <1>2, <1>3, <1>4, <1>5, <1>6, <1>8, <1>9, <1>10, <1>11, <1>12, <1>13,
     <1>15, <1>16, <1>17, <1>18, <1>19, Zenon
  DEF Next, Request, WorkerStep, PullStep

\* Every step keeps the worker's place and its request in step.
LEMMA WorkerStepInOrder == ASSUME StoreInv, [Next]_vars PROVE WorkerInOrder'
<1> USE DEF store, locks, worker, history
<1>a. /\ WorkerInOrder /\ pull \in [Threads -> PullType]
      /\ ilock \in [Hashes -> Threads \union {NoOne}]
      /\ linked \in [Items -> BOOLEAN]
      /\ item \in [Items -> [key : Keys, val : 0 .. MaxSets]]
      /\ req \in [key : Keys, it : Items \union {NoItem}, evicted : BOOLEAN]
      /\ i \in 0 .. AllocTries /\ AllocTries \in Nat
  BY StoreAssumption
  DEF StoreInv, TypeOK, StoreType, LockType, WorkerType
<1>1. CASE UNCHANGED vars BY <1>a, <1>1 DEF vars, WorkerInOrder, hv
<1>2. ASSUME NEW k \in Keys, Set(k) PROVE WorkerInOrder'
  BY <1>a, <1>2 DEF Set, WorkerInOrder
<1>3. ASSUME NEW k \in Keys, Get(k) PROVE WorkerInOrder'
  BY <1>a, <1>3 DEF Get, WorkerInOrder
<1>4. ASSUME NEW x \in Items, Alloc(x) PROVE WorkerInOrder'
  <2>1. pc' = "link" /\ pull'["worker"].at = "idle"
    BY <1>a, <1>4 DEF Alloc, WorkerInOrder
  <2>2. req'.it = x /\ req'.key = req.key BY <1>a, <1>4 DEF Alloc
  <2>3. item'[x].key = req.key BY <1>a, <1>4 DEF Alloc
  <2>4. ~linked[x] /\ linked' = linked BY <1>4 DEF Alloc, StoreInv, FreeUntouched
  <2> QED BY <2>1, <2>2, <2>3, <2>4 DEF WorkerInOrder
<1>5. CASE AllocFails BY <1>a, <1>5 DEF AllocFails, Respond, WorkerInOrder
<1>6. CASE Copy BY <1>a, <1>6 DEF Copy, Respond, WorkerInOrder
<1>7. CASE AllocPulls
  <2>1. pc' \in {"cold", "hot"} /\ i' = i BY <1>7 DEF AllocPulls
  <2>2. i < AllocTries BY <1>a, <1>7 DEF AllocPulls, MayTry, WorkerInOrder
  <2> QED BY <2>1, <2>2 DEF WorkerInOrder
<1>8. CASE Juggle
  <2>1. PICK l \in Lists : PullStart("maintainer", l, FALSE) /\ UNCHANGED worker
    BY <1>8 DEF Juggle
  <2>2. pull'["worker"] = pull["worker"] BY <1>a, <2>1 DEF PullStart
  <2>3. UNCHANGED <<ilock, linked, item, pc, i, req>> BY <2>1 DEF PullStart
  <2> QED BY <1>a, <2>2, <2>3 DEF WorkerInOrder, hv
<1>9. CASE Link
  <2>1. /\ pc' = "linkq" /\ UNCHANGED <<pull, item, req>> /\ pc = "link"
        /\ ilock' = [ilock EXCEPT ![hv(req.it)] = "worker"]
    BY <1>9 DEF Link, ItemLock
  <2>2. req.it \in Items BY <1>a, <2>1 DEF WorkerInOrder
  <2>3. hv(req.it) \in Hashes BY <1>a, <2>2, StoreAssumption DEF hv
  <2>4. ilock'[hash[item'[req'.it].key]] = "worker" BY <1>a, <2>1, <2>3 DEF hv
  <2> QED BY <1>a, <2>1, <2>2, <2>4 DEF WorkerInOrder, hv
<1>10. CASE LinkQ BY <1>a, <1>10 DEF LinkQ, Respond, WorkerInOrder
<1>11. ASSUME PullStep("worker") PROVE WorkerInOrder'
  <2>1. pull["worker"].at # "idle" /\ pc \in {"cold", "hot"} /\ i < AllocTries
    BY <1>a, <1>11
    DEF PullStep, PullFindsNone, PullSkips, PullEvicts, PullMoves, PullLeaves,
        PullStops, PullRelinks, PullReleases, Scanning, WorkerInOrder
  <2>2. CASE UNCHANGED <<pc, i>> BY <2>1, <2>2 DEF WorkerInOrder
  <2>3. ASSUME NEW r, PullReturns("worker", r) PROVE WorkerInOrder'
    <3>1. pull'["worker"] = NoPull BY <1>a, <2>3 DEF PullReturns
    <3>2. pull'["worker"].at = "idle" BY <3>1 DEF NoPull
    <3>3. (pc' = "hot" /\ i' = i) \/ pc' = "alloc" BY <2>3 DEF PullReturns
    <3> QED BY <2>1, <3>2, <3>3 DEF WorkerInOrder
  <2>4. CASE PullFindsNone("worker") BY <2>3, <2>4 DEF PullFindsNone
  <2>5. CASE PullReleases("worker") BY <2>3, <2>5 DEF PullReleases
  <2> QED
    BY <1>11, <2>2, <2>4, <2>5
    DEF PullStep, PullSkips, PullEvicts, PullMoves, PullLeaves, PullStops, PullRelinks
<1>12. ASSUME PullStep("maintainer") PROVE WorkerInOrder'
  <2> DEFINE a == "maintainer"
  <2>1. pull'["worker"] = pull["worker"] /\ UNCHANGED <<pc, i, item>>
    BY <1>a, <1>12
    DEF PullStep, PullFindsNone, PullSkips, PullEvicts, PullMoves, PullLeaves,
        PullStops, PullRelinks, PullReleases, PullReturns
  <2>2. req'.it = req.it /\ req'.key = req.key
    BY <1>a, <1>12
    DEF PullStep, PullFindsNone, PullSkips, PullEvicts, PullMoves, PullLeaves,
        PullStops, PullRelinks, PullReleases
  <2>3. ASSUME req.it \in Items, ~linked[req.it] PROVE ~linked'[req.it]
    <3>1. CASE PullEvicts(a) BY <1>a, <2>3, <3>1 DEF PullEvicts
    <3>2. CASE UNCHANGED linked BY <2>3, <3>2
    <3> QED
      BY <1>12, <3>1, <3>2
      DEF PullStep, PullFindsNone, PullSkips, PullMoves, PullLeaves, PullRelinks,
          PullReleases
  <2>4. ASSUME NEW h, ilock[h] = "worker" PROVE ilock'[h] = "worker"
    <3>1. CASE UNCHANGED ilock BY <2>4, <3>1
    <3>2. ASSUME NEW next, NEW r, PullStops(a, next, r) PROVE ilock'[h] = "worker"
      BY <1>a, <2>4, <3>2 DEF PullStops, ItemLock
    <3>3. CASE PullReleases(a)
      <4>1. /\ ilock' = [ilock EXCEPT ![hv(pull[a].it)] = NoOne]
            /\ ilock[hv(pull[a].it)] = a
        BY <3>3, ReleaseProperties DEF PullReleases, ItemUnlock
      <4> QED BY <1>a, <2>4, <4>1
    <3> QED
      BY <1>12, <3>1, <3>2, <3>3
      DEF PullStep, PullFindsNone, PullSkips, PullEvicts, PullMoves, PullLeaves, PullRelinks
  <2> QED BY <1>a, <2>1, <2>2, <2>3, <2>4 DEF WorkerInOrder, hv
<1> QED
  BY <1>1, <1>2, <1>3, <1>4, <1>5, <1>6, <1>7, <1>8, <1>9, <1>10, <1>11, <1>12
  DEF Next, Request, WorkerStep

-----------------------------------------------------------------------------
(***************************************************************************)
(* The LRU lists.                                                          *)
(***************************************************************************)

\* What is in the hands of the pulls, one by one.
LEMMA MovingIs ==
  \A x : x \in Moving <=> \E b \in Threads : pull[b].at = "relink" /\ pull[b].it = x
BY DEF Moving

\* The worker links nothing while its pull is under way.
LEMMA NotLinking ==
  ASSUME StoreInv, NEW a \in Threads, pull[a].at # "idle"
  PROVE  a = "worker" => Linking = {} /\ pc \in {"cold", "hot"}
BY DEF StoreInv, WorkerInOrder, Linking

\* No item is in the hands of two: each holds the item's lock.
LEMMA HandsDiffer ==
  ASSUME StoreInv, NEW a \in Threads, pull[a].at \in {"relink", "release"}
  PROVE  /\ pull[a].it \notin Linking
         /\ \A b \in Threads \ {a} :
              pull[b].at = "relink" => pull[b].it # pull[a].it
<1>1. ilock[hv(pull[a].it)] = a BY ReleaseProperties
<1>2. ASSUME NEW b \in Threads \ {a}, pull[b].at = "relink", pull[b].it = pull[a].it
      PROVE  FALSE
  <2>1. ilock[hv(pull[b].it)] = b BY <1>2, ReleaseProperties
  <2> QED BY <1>1, <1>2, <2>1
<1>3. ASSUME pull[a].it \in Linking PROVE FALSE
  <2>1. pc = "linkq" /\ req.it = pull[a].it BY <1>3 DEF Linking
  <2>2. ilock[hv(req.it)] = "worker" BY <2>1 DEF StoreInv, WorkerInOrder
  <2>3. a = "worker" BY <1>1, <2>1, <2>2
  <2> QED BY <1>3, <2>3, NotLinking
<1> QED BY <1>2, <1>3

\* A step that touches no list and moves nothing keeps the lists consistent.
LEMMA LruFrame ==
  ASSUME LruConsistent, UNCHANGED <<lru, linked>>, Moving' = Moving, Linking' = Linking
  PROVE  LruConsistent'
BY Zenon DEF LruConsistent, Listed

\* Every step of the worker's requests keeps the lists consistent.
LEMMA LruRequestStep ==
  ASSUME StoreInv, [Next]_vars,
         UNCHANGED vars \/ Request \/ WorkerStep \/ Juggle
  PROVE  LruConsistent'
<1> USE DEF store, locks, worker, history
<1>a. /\ LruConsistent /\ pull \in [Threads -> PullType] /\ lru \in [Lists -> Seq(Items)]
      /\ linked \in [Items -> BOOLEAN] /\ linked' \in [Items -> BOOLEAN]
  BY TypeStep DEF StoreInv, TypeOK, StoreType
<1>b. ASSUME UNCHANGED <<lru, linked, pull>>, pc # "linkq", pc' # "linkq"
      PROVE  LruConsistent'
  BY <1>a, <1>b, LruFrame DEF Moving, Linking
<1>c. ASSUME NEW a \in Threads, NEW l \in Lists, NEW e, PullStart(a, l, e), UNCHANGED req,
             pc = "linkq" <=> pc' = "linkq"
      PROVE  LruConsistent'
  <2>1. UNCHANGED <<lru, linked>> /\ pull[a].at = "idle" /\ pull'[a].at = "scan"
    BY <1>a, <1>c DEF PullStart
  <2>2. \A b \in Threads : b # a => pull'[b] = pull[b] BY <1>a, <1>c DEF PullStart
  <2>3. Moving' = Moving BY <2>1, <2>2 DEF Moving
  <2>4. Linking' = Linking BY <1>c DEF Linking
  <2> QED BY <1>a, <2>1, <2>3, <2>4, LruFrame
<1>1. CASE UNCHANGED vars BY <1>1, <1>a, LruFrame DEF vars, Moving, Linking
<1>2. ASSUME NEW k \in Keys, Set(k) PROVE LruConsistent' BY <1>2, <1>b DEF Set
<1>3. ASSUME NEW k \in Keys, Get(k) PROVE LruConsistent' BY <1>3, <1>b DEF Get
<1>4. ASSUME NEW x \in Items, Alloc(x) PROVE LruConsistent' BY <1>4, <1>b DEF Alloc
<1>5. CASE AllocPulls BY <1>5, <1>c DEF AllocPulls
<1>6. CASE Juggle BY <1>6, <1>c DEF Juggle
<1>7. CASE AllocFails BY <1>7, <1>b DEF AllocFails, Respond
<1>8. CASE Copy BY <1>8, <1>b DEF Copy, Respond
<1>9. CASE Link
  <2>1. /\ pc = "link" /\ pc' = "linkq" /\ UNCHANGED <<lru, pull, req>>
        /\ linked' = [linked EXCEPT ![req.it] = TRUE]
    BY <1>9 DEF Link
  <2>2. req.it \in Items /\ ~linked[req.it] BY <2>1 DEF StoreInv, WorkerInOrder
  <2>3. Moving' = Moving /\ Linking = {} /\ Linking' = {req.it} /\ Listed' = Listed
    BY <2>1 DEF Moving, Linking, Listed
  <2>4. {x \in Items : linked'[x]} = {x \in Items : linked[x]} \union {req.it}
    BY <1>a, <2>1, <2>2
  <2>5. req.it \notin Listed BY <1>a, <2>2 DEF LruConsistent
  <2> QED BY <1>a, <2>1, <2>3, <2>4, <2>5 DEF LruConsistent
<1>10. CASE LinkQ
  <2>1. /\ pc = "linkq" /\ pc' = "idle" /\ UNCHANGED <<linked, pull, req>>
        /\ lru' = [lru EXCEPT !["HOT"] = <<req.it>> \o @]
    BY <1>10 DEF LinkQ, LruLink, Respond
  <2>2. req.it \in Items BY <2>1 DEF StoreInv, WorkerInOrder
  <2>3. Moving' = Moving /\ Linking = {req.it} /\ Linking' = {}
    BY <2>1 DEF Moving, Linking
  <2>4. /\ lru'["HOT"] = <<req.it>> \o lru["HOT"] /\ lru'["COLD"] = lru["COLD"]
    BY <1>a, <2>1
  <2>5. req.it \notin Listed BY <1>a, <2>3 DEF LruConsistent
  <2>6. /\ ToSet(lru'["HOT"]) = {req.it} \union ToSet(lru["HOT"])
        /\ IsInjective(lru["HOT"]) => IsInjective(lru'["HOT"])
    BY <1>a, <2>2, <2>4, <2>5, ConsProperties DEF Listed
  <2>7. req.it \notin Moving
    <3>1. ASSUME req.it \in Moving PROVE FALSE
      <4>1. PICK b \in Threads : pull[b].at = "relink" /\ pull[b].it = req.it
        BY <3>1, MovingIs
      <4> QED BY <4>1, <2>3, HandsDiffer
    <3> QED BY <3>1
  <2>8. Listed' = Listed \union {req.it} BY <2>4, <2>6 DEF Listed
  <2>9. \A l \in Lists : IsInjective(lru'[l]) BY <1>a, <2>4, <2>6 DEF LruConsistent
  <2>10. ToSet(lru'["HOT"]) \intersect ToSet(lru'["COLD"]) = {}
    BY <1>a, <2>4, <2>5, <2>6 DEF LruConsistent, Listed
  <2> QED BY <1>a, <2>1, <2>3, <2>7, <2>8, <2>9, <2>10 DEF LruConsistent
<1> QED
  BY <1>1, <1>2, <1>3, <1>4, <1>5, <1>6, <1>7, <1>8, <1>9, <1>10
  DEF Request, WorkerStep

\* A step of a pull touches no other pull, and takes no item from the worker.
LEMMA PullStepFrame ==
  ASSUME StoreInv, NEW a \in Threads, PullStep(a)
  PROVE  /\ \A b \in Threads : b # a => pull'[b] = pull[b]
         /\ Linking' = Linking /\ req'.it = req.it /\ req'.key = req.key
<1> USE DEF store, locks, worker, history
<1>a. /\ pull \in [Threads -> PullType]
      /\ req \in [key : Keys, it : Items \union {NoItem}, evicted : BOOLEAN]
  BY DEF StoreInv, TypeOK, WorkerType
<1>b. \A b \in Threads : b # a => pull'[b] = pull[b]
  BY <1>a
  DEF PullStep, PullFindsNone, PullSkips, PullEvicts, PullMoves, PullLeaves,
      PullStops, PullRelinks, PullReleases, PullReturns
<1>c. req'.it = req.it /\ req'.key = req.key
  BY <1>a
  DEF PullStep, PullFindsNone, PullSkips, PullEvicts, PullMoves, PullLeaves,
      PullStops, PullRelinks, PullReleases
<1>d. Linking' = Linking
  <2>1. req'.it = req.it BY <1>c
  <2>2. CASE UNCHANGED pc BY <2>1, <2>2 DEF Linking
  <2>3. ASSUME NEW r, PullReturns(a, r), pull[a].at # "idle" PROVE Linking' = Linking
    <3>1. CASE a = "maintainer" BY <2>1, <2>3, <3>1 DEF PullReturns, Linking
    <3>2. CASE a = "worker"
      <4>1. Linking = {} BY <2>3, <3>2, NotLinking
      <4>2. pc' # "linkq" BY <2>3, <3>2 DEF PullReturns
      <4> QED BY <4>1, <4>2 DEF Linking
    <3> QED BY <3>1, <3>2
  <2> QED
    BY <2>2, <2>3
    DEF PullStep, PullFindsNone, PullSkips, PullEvicts, PullMoves, PullLeaves,
        PullStops, PullRelinks, PullReleases, Scanning
<1> QED BY <1>b, <1>c, <1>d

\* Every step of a pull keeps the lists consistent.
LEMMA LruPullStep ==
  ASSUME StoreInv, [Next]_vars, NEW a \in Threads, PullStep(a)
  PROVE  LruConsistent'
<1> USE DEF store, locks, worker, history
<1>a. /\ LruConsistent /\ pull \in [Threads -> PullType] /\ lru \in [Lists -> Seq(Items)]
      /\ linked \in [Items -> BOOLEAN] /\ linked' \in [Items -> BOOLEAN]
  BY TypeStep DEF StoreInv, TypeOK, StoreType
<1>b. \A b \in Threads : b # a => pull'[b] = pull[b] BY PullStepFrame
<1>c. Linking' = Linking BY PullStepFrame
<1>d. ASSUME pull[a].at # "relink", pull'[a].at # "relink" PROVE Moving' = Moving
  BY <1>b, <1>d DEF Moving
<1>e. ASSUME NEW next, NEW r, PullStops(a, next, r)
      PROVE  /\ pull[a].at = "scan" /\ pull'[a].at = next /\ pull'[a].it = Search(a)
             /\ pull[a].list \in Lists /\ Search(a) \in Items
             /\ pull[a].search \in 1 .. Len(lru[pull[a].list])
             /\ linked[Search(a)] /\ Search(a) \in ToSet(lru[pull[a].list])
             /\ Search(a) \notin Moving /\ Search(a) \notin Linking
  <2>1. pull' = [pull EXCEPT ![a].at = next, ![a].it = Search(a), ![a].removed = r]
    BY <1>e DEF PullStops
  <2> QED BY <1>a, <1>e, <2>1, SearchProperties DEF PullStops, Scanning, PullType
<1>f. ASSUME NEW next, NEW r, PullStops(a, next, r), LruUnlink(pull[a].search, pull[a].list)
      PROVE  /\ Listed' = Listed \ {Search(a)} /\ Search(a) \in Listed
             /\ \A l \in Lists : IsInjective(lru'[l])
             /\ ToSet(lru'["HOT"]) \intersect ToSet(lru'["COLD"]) = {}
  <2> DEFINE l == pull[a].list
             n == pull[a].search
             x == Search(a)
  <2>1. l \in Lists /\ n \in 1 .. Len(lru[l]) /\ x = lru[l][n] /\ x \in ToSet(lru[l])
    BY <1>e, <1>f DEF Search
  <2>2. lru' = [lru EXCEPT ![l] = RemoveAt(@, n)] BY <1>f DEF LruUnlink
  <2>3. /\ lru'[l] = RemoveAt(lru[l], n) /\ \A m \in Lists : m # l => lru'[m] = lru[m]
    BY <1>a, <2>1, <2>2
  <2>4. IsInjective(lru[l]) BY <1>a, <2>1 DEF LruConsistent
  <2>5. ToSet(lru'[l]) = ToSet(lru[l]) \ {x} /\ IsInjective(lru'[l])
    BY <1>a, <2>1, <2>3, <2>4, RemoveAtProperties
  <2> HIDE DEF l, n, x
  <2>6. \A m \in Lists : IsInjective(lru'[m]) BY <1>a, <2>3, <2>5 DEF LruConsistent
  <2>7. \A m \in Lists : m # l => x \notin ToSet(lru[m])
    BY <1>a, <2>1 DEF LruConsistent
  <2>8. ToSet(lru'["HOT"]) \intersect ToSet(lru'["COLD"]) = {}
    BY <1>a, <2>1, <2>3, <2>5 DEF LruConsistent
  <2>9. Listed' = Listed \ {x} /\ x \in Listed
    BY <2>1, <2>3, <2>5, <2>7 DEF Listed
  <2> QED BY <2>6, <2>8, <2>9 DEF x
<1>g. /\ {y \in Items : linked[y]} = Listed \union Moving \union Linking
      /\ Listed \intersect (Moving \union Linking) = {}
  BY <1>a DEF LruConsistent
<1>1. CASE PullFindsNone(a)
  <2>1. /\ pull[a].at = "scan" /\ pull' = [pull EXCEPT ![a] = NoPull]
        /\ UNCHANGED <<lru, linked>>
    BY <1>1 DEF PullFindsNone, PullReturns, Scanning
  <2>2. pull'[a].at = "idle" BY <1>a, <2>1 DEF NoPull
  <2> QED BY <1>a, <1>c, <1>d, <2>1, <2>2, LruFrame
<1>2. CASE PullSkips(a)
  <2>1. pull[a].at = "scan" /\ pull'[a].at = "scan" /\ UNCHANGED <<lru, linked>>
    BY <1>a, <1>2 DEF PullSkips, Scanning, PullType
  <2> QED BY <1>a, <1>c, <1>d, <2>1, LruFrame
<1>3. CASE PullEvicts(a)
  <2> DEFINE x == Search(a)
  <2>1. /\ PullStops(a, "release", TRUE) /\ LruUnlink(pull[a].search, pull[a].list)
        /\ linked' = [linked EXCEPT ![x] = FALSE]
    BY <1>3 DEF PullEvicts
  <2>2. Moving' = Moving
    <3>1. pull[a].at = "scan" /\ pull'[a].at = "release" BY <1>e, <2>1
    <3> QED BY <3>1, <1>d
  <2>3. x \in Items /\ x \notin Moving /\ x \notin Linking BY <1>e, <2>1
  <2>4. /\ Listed' = Listed \ {x} /\ \A l \in Lists : IsInjective(lru'[l])
        /\ ToSet(lru'["HOT"]) \intersect ToSet(lru'["COLD"]) = {}
    BY <1>f, <2>1
  <2> HIDE DEF x
  <2>5. {y \in Items : linked'[y]} = {y \in Items : linked[y]} \ {x}
    BY <1>a, <2>1, <2>3
  <2>6. /\ {y \in Items : linked'[y]} = Listed' \union Moving' \union Linking'
        /\ Listed' \intersect (Moving' \union Linking') = {}
    BY <1>c, <1>g, <2>2, <2>3, <2>4, <2>5
  <2> QED BY <2>4, <2>6, Zenon DEF LruConsistent
<1>4. CASE PullMoves(a)
  <2> DEFINE x == Search(a)
  <2>1. /\ PullStops(a, "relink", TRUE) /\ LruUnlink(pull[a].search, pull[a].list)
        /\ linked' = linked
    BY <1>4 DEF PullMoves
  <2>2. /\ pull[a].at = "scan" /\ pull'[a].at = "relink" /\ pull'[a].it = x
        /\ x \notin Linking
    BY <1>e, <2>1
  <2>3. /\ Listed' = Listed \ {x} /\ x \in Listed /\ \A l \in Lists : IsInjective(lru'[l])
        /\ ToSet(lru'["HOT"]) \intersect ToSet(lru'["COLD"]) = {}
    BY <1>f, <2>1
  <2> HIDE DEF x
  <2>4. Moving' = Moving \union {x} BY <1>b, <2>2 DEF Moving
  <2>5. {y \in Items : linked'[y]} = {y \in Items : linked[y]} BY <2>1, Zenon
  <2>6. /\ {y \in Items : linked'[y]} = Listed' \union Moving' \union Linking'
        /\ Listed' \intersect (Moving' \union Linking') = {}
    BY <1>c, <1>g, <2>2, <2>3, <2>4, <2>5
  <2> QED BY <2>3, <2>6, Zenon DEF LruConsistent
<1>5. CASE PullLeaves(a)
  <2>1. PullStops(a, "release", FALSE) /\ UNCHANGED <<lru, linked>>
    BY <1>5 DEF PullLeaves
  <2>2. Moving' = Moving
    <3>1. pull[a].at = "scan" /\ pull'[a].at = "release" BY <1>e, <2>1
    <3> QED BY <3>1, <1>d
  <2> QED BY <1>a, <1>c, <2>1, <2>2, LruFrame
<1>6. CASE PullRelinks(a)
  <2> DEFINE x == pull[a].it
  <2>1. /\ pull[a].at = "relink" /\ lru' = [lru EXCEPT !["COLD"] = <<x>> \o @]
        /\ pull' = [pull EXCEPT ![a].at = "release"] /\ linked' = linked
    BY <1>6 DEF PullRelinks, LruLink
  <2>2. x \in Items /\ x \in Moving /\ x \notin Linking
    BY <2>1, ReleaseProperties, HandsDiffer, MovingIs
  <2>3. \A b \in Threads \ {a} : pull[b].at = "relink" => pull[b].it # x
    BY <2>1, HandsDiffer
  <2>4. pull'[a].at = "release" BY <1>a, <2>1 DEF PullType
  <2>5. lru'["COLD"] = <<x>> \o lru["COLD"] /\ lru'["HOT"] = lru["HOT"] BY <1>a, <2>1
  <2>6. x \notin Listed BY <1>a, <2>2 DEF LruConsistent
  <2>7. /\ ToSet(lru'["COLD"]) = {x} \union ToSet(lru["COLD"])
        /\ IsInjective(lru["COLD"]) => IsInjective(lru'["COLD"])
    BY <1>a, <2>2, <2>5, <2>6, ConsProperties DEF Listed
  <2>10. Moving' = Moving \ {x} BY <1>b, <2>1, <2>3, <2>4 DEF Moving
  <2> HIDE DEF x
  <2>8. Listed' = Listed \union {x} BY <2>5, <2>7 DEF Listed
  <2>9. /\ \A l \in Lists : IsInjective(lru'[l])
        /\ ToSet(lru'["HOT"]) \intersect ToSet(lru'["COLD"]) = {}
    <3>1. /\ \A l \in Lists : IsInjective(lru[l])
          /\ ToSet(lru["HOT"]) \intersect ToSet(lru["COLD"]) = {}
      BY <1>a DEF LruConsistent
    <3>2. x \notin ToSet(lru["HOT"]) BY <2>6 DEF Listed
    <3>3. ToSet(lru'["HOT"]) \intersect ToSet(lru'["COLD"]) = {}
      BY <2>5, <2>7, <3>1, <3>2
    <3>4. IsInjective(lru'["HOT"]) /\ IsInjective(lru'["COLD"])
      BY <2>5, <2>7, <3>1, Zenon
    <3> QED BY <3>3, <3>4
  <2>11. {y \in Items : linked'[y]} = {y \in Items : linked[y]} BY <2>1, Zenon
  <2>12. /\ {y \in Items : linked'[y]} = Listed' \union Moving' \union Linking'
         /\ Listed' \intersect (Moving' \union Linking') = {}
    BY <1>c, <1>g, <2>2, <2>6, <2>8, <2>10, <2>11
  <2> QED BY <2>9, <2>12, Zenon DEF LruConsistent
<1>7. CASE PullReleases(a)
  <2>1. /\ pull[a].at = "release" /\ pull' = [pull EXCEPT ![a] = NoPull]
        /\ UNCHANGED <<lru, linked>>
    BY <1>7 DEF PullReleases, PullReturns
  <2>2. pull'[a].at = "idle" BY <1>a, <2>1 DEF NoPull
  <2> QED BY <1>a, <1>c, <1>d, <2>1, <2>2, LruFrame
<1> QED BY <1>1, <1>2, <1>3, <1>4, <1>5, <1>6, <1>7 DEF PullStep

\* Every step keeps the lists consistent.
LEMMA LruStep == ASSUME StoreInv, [Next]_vars PROVE LruConsistent'
BY LruRequestStep, LruPullStep, Zenon DEF Next

-----------------------------------------------------------------------------
(***************************************************************************)
(* Memory.                                                                 *)
(***************************************************************************)

\* No step of a pull links an item or counts a GET.
LEMMA PullLinksNothing ==
  ASSUME StoreInv, NEW a \in Threads, PullStep(a)
  PROVE  kept' = kept /\ \A x \in Items : linked'[x] => linked[x]
<1> USE DEF store, locks, worker, history
<1>1. kept' = kept
  BY DEF PullStep, PullFindsNone, PullSkips, PullEvicts, PullMoves, PullLeaves,
         PullStops, PullRelinks, PullReleases
<1>2. CASE linked' = linked BY <1>1, <1>2
<1>3. CASE PullEvicts(a)
  <2>1. linked \in [Items -> BOOLEAN] /\ linked' = [linked EXCEPT ![Search(a)] = FALSE]
    BY <1>3 DEF PullEvicts, StoreInv, TypeOK, StoreType
  <2> QED BY <1>1, <2>1
<1> QED
  BY <1>2, <1>3
  DEF PullStep, PullFindsNone, PullSkips, PullMoves, PullLeaves, PullRelinks, PullReleases

\* Every step keeps the free chunks untouched.
LEMMA FreeStep == ASSUME StoreInv, [Next]_vars PROVE FreeUntouched'
<1> USE DEF store, locks, worker, history
<1> SUFFICES ASSUME NEW x \in free, x \in free' PROVE ~linked'[x] /\ kept'[x] = 0
  BY ItemKept DEF FreeUntouched
<1>a. /\ ~linked[x] /\ kept[x] = 0 /\ x \in Items
      /\ linked \in [Items -> BOOLEAN] /\ kept \in [Items -> Nat]
      /\ chain \in [Keys -> Seq(Items)]
  BY DEF StoreInv, FreeUntouched, TypeOK, StoreType, HistoryType
<1>1. CASE UNCHANGED <<linked, kept>> BY <1>a, <1>1
<1>2. ASSUME NEW k \in Keys, Get(k) PROVE ~linked'[x] /\ kept'[x] = 0
  <2>1. CASE chain[k] = <<>> BY <1>a, <1>2, <2>1 DEF Get
  <2>2. CASE chain[k] # <<>>
    <3>1. Head(chain[k]) \in ToSet(chain[k]) BY <1>a, <2>2, TailProperties
    <3>2. Head(chain[k]) # x BY <3>1 DEF StoreInv, MemorySafe
    <3>3. kept' = [kept EXCEPT ![Head(chain[k])] = @ + 1] /\ linked' = linked
      BY <1>2, <2>2 DEF Get
    <3> QED BY <1>a, <3>2, <3>3
  <2> QED BY <2>1, <2>2
<1>3. CASE Link
  <2>1. req.it # x BY <1>3 DEF Link, StoreInv, MemorySafe
  <2>2. linked' = [linked EXCEPT ![req.it] = TRUE] /\ kept' = kept BY <1>3 DEF Link
  <2> QED BY <1>a, <2>1, <2>2
<1>4. ASSUME NEW a \in Threads, PullStep(a) PROVE ~linked'[x] /\ kept'[x] = 0
  BY <1>a, <1>4, PullLinksNothing
<1> QED
  BY <1>1, <1>2, <1>3, <1>4
  DEF Next, Request, WorkerStep, vars, Set, Alloc, AllocPulls, AllocFails, LinkQ, Copy,
      Juggle, PullStart

\* Every step keeps the free chunks out of chains, lists and hands.
LEMMA MemoryStep == ASSUME StoreInv, [Next]_vars PROVE MemorySafe'
<1> USE DEF store, locks, worker, history
<1> SUFFICES ASSUME NEW x \in free, x \in free'
             PROVE  /\ \A k \in Keys : x \notin ToSet(chain'[k])
                    /\ \A l \in Lists : x \notin ToSet(lru'[l])
                    /\ pc' \in {"link", "linkq", "copy"} => req'.it # x
                    /\ \A a \in Threads : pull'[a].it # x
  BY ItemKept, Zenon DEF MemorySafe
<1>a. /\ x \in Items /\ x # NoItem
      /\ chain \in [Keys -> Seq(Items)] /\ pull \in [Threads -> PullType]
      /\ \A k \in Keys : x \notin ToSet(chain[k])
      /\ pc \in {"link", "linkq", "copy"} => req.it # x
      /\ \A a \in Threads : pull[a].it # x
  BY StoreAssumption DEF StoreInv, TypeOK, StoreType, MemorySafe
<1>1. \A l \in Lists : x \notin ToSet(lru'[l])
  <2>1. ~linked'[x] BY FreeStep DEF FreeUntouched
  <2>2. x \notin Listed' BY <2>1, LruStep DEF LruConsistent
  <2> QED BY <2>2 DEF Listed
<1>2. \A k \in Keys : x \notin ToSet(chain'[k])
  <2>1. CASE UNCHANGED chain BY <1>a, <2>1
  <2>2. CASE Link
    <3>1. req.it # x /\ chain' = [chain EXCEPT ![req.key] = <<req.it>> \o @]
      BY <1>a, <2>2 DEF Link, AssocInsert
    <3>2. req.it \in Items BY <2>2 DEF Link, StoreInv, WorkerInOrder
    <3>3. \A k \in Keys : ToSet(<<req.it>> \o chain[k]) = {req.it} \union ToSet(chain[k])
      BY <1>a, <3>2, ConsProperties
    <3> QED BY <1>a, <3>1, <3>3
  <2>3. ASSUME NEW a \in Threads, PullEvicts(a)
        PROVE  \A k \in Keys : x \notin ToSet(chain'[k])
    <3> DEFINE key == item[Search(a)].key
    <3>4. chain' = [chain EXCEPT ![key] = IF @ = <<>> THEN @ ELSE Tail(@)]
      BY <2>3 DEF PullEvicts, AssocDelete
    <3> HIDE DEF key
    <3>1. ASSUME NEW k \in Keys
          PROVE  \/ chain'[k] = chain[k]
                 \/ chain[k] # <<>> /\ chain'[k] = Tail(chain[k])
      <4>1. CASE k # key BY <1>a, <3>4, <4>1
      <4>2. CASE k = key
        <5>1. chain'[k] = IF chain[k] = <<>> THEN chain[k] ELSE Tail(chain[k])
          BY <1>a, <3>4, <4>2, Zenon
        <5> QED BY <5>1
      <4> QED BY <4>1, <4>2
    <3>2. \A k \in Keys : chain[k] # <<>> => ToSet(Tail(chain[k])) \subseteq ToSet(chain[k])
      BY <1>a, TailProperties
    <3> QED BY <1>a, <3>1, <3>2
  <2> QED
    BY <2>1, <2>2, <2>3
    DEF Next, Request, WorkerStep, vars, Set, Get, Alloc, AllocPulls, AllocFails, LinkQ,
        Copy, Juggle, PullStart, PullStep, PullFindsNone, PullSkips, PullMoves,
        PullLeaves, PullRelinks, PullReleases
<1>3. ASSUME NEW b \in Threads PROVE pull'[b].it # x
  <2>1. CASE pull'[b] = pull[b] BY <1>a, <2>1
  <2>2. CASE pull'[b].it = NoItem BY <1>a, <2>2
  <2>3. ASSUME NEW a \in Threads, NEW l \in Lists, NEW e, PullStart(a, l, e)
        PROVE  pull'[b] = pull[b] \/ pull'[b].it = NoItem
    BY <1>a, <2>3 DEF PullStart
  <2>4. ASSUME NEW a \in Threads, PullStep(a), a # b PROVE pull'[b] = pull[b]
    BY <2>4, PullStepFrame
  <2>5. ASSUME PullReturns(b, pull[b].removed) \/ PullReturns(b, FALSE)
        PROVE  pull'[b].it = NoItem
    BY <1>a, <2>5 DEF PullReturns, NoPull
  <2>6. ASSUME NEW next, NEW r, PullStops(b, next, r) PROVE pull'[b].it # x
    <3>1. Search(b) \notin free BY <2>6, SearchProperties DEF PullStops
    <3>2. pull'[b].it = Search(b) BY <1>a, <2>6 DEF PullStops, PullType
    <3> QED BY <3>1, <3>2
  <2>7. CASE PullSkips(b) BY <1>a, <2>7 DEF PullSkips, PullType
  <2>8. CASE PullRelinks(b) BY <1>a, <2>8 DEF PullRelinks, PullType
  <2>9. CASE PullStep(b)
    BY <2>2, <2>5, <2>6, <2>7, <2>8, <2>9
    DEF PullStep, PullFindsNone, PullEvicts, PullMoves, PullLeaves, PullReleases
  <2> QED
    BY <2>1, <2>2, <2>3, <2>4, <2>9
    DEF Next, Request, WorkerStep, vars, Set, Get, Alloc, AllocPulls, AllocFails, Link,
        LinkQ, Copy, Juggle
<1>4. ASSUME pc' \in {"link", "linkq", "copy"} PROVE req'.it # x
  <2>1. CASE UNCHANGED <<pc, req>> BY <1>4, <1>a, <2>1
  <2>2. ASSUME NEW k \in Keys, Get(k) PROVE req'.it # x
    <3>1. CASE chain[k] = <<>> BY <1>a, <2>2, <3>1 DEF Get
    <3>2. CASE chain[k] # <<>>
      <4>1. Head(chain[k]) \in ToSet(chain[k]) BY <1>a, <3>2, TailProperties
      <4> QED BY <1>a, <2>2, <3>2, <4>1 DEF Get
    <3> QED BY <3>1, <3>2
  <2>3. ASSUME NEW y \in Items, Alloc(y) PROVE req'.it # x
    <3>1. req'.it = y /\ free' = free \ {y}
      BY <2>3 DEF Alloc, StoreInv, TypeOK, WorkerType
    <3> QED BY <3>1
  <2>4. CASE Link BY <1>a, <2>4 DEF Link
  <2>5. ASSUME NEW a \in Threads, PullStep(a) PROVE req'.it # x
    <3>1. req'.it = req.it BY <2>5, PullStepFrame
    <3>2. pc' = pc \/ pc' \in {"hot", "alloc"}
      BY <2>5
      DEF PullStep, PullFindsNone, PullSkips, PullEvicts, PullMoves, PullLeaves,
          PullStops, PullRelinks, PullReleases, PullReturns
    <3> QED BY <1>4, <1>a, <3>1, <3>2
  <2> QED
    BY <1>4, <2>1, <2>2, <2>3, <2>4, <2>5
    DEF Next, Request, WorkerStep, vars, Set, AllocPulls, AllocFails, LinkQ, Copy,
        Juggle, PullStart, Respond
<1> QED BY <1>1, <1>2, <1>3, <1>4

-----------------------------------------------------------------------------
(***************************************************************************)
(* Reference counts.                                                       *)
(***************************************************************************)

\* The count of one item.
Exact(x) ==
  refcount[x] = 1 + One(linked[x] /\ x \notin Linking) + kept[x] + Held(x)

\* How a step of one pull changes what the pulls hold of an item.
LEMMA HeldStep ==
  ASSUME NEW a \in Threads, NEW x, \A b \in Threads : b # a => pull'[b] = pull[b]
  PROVE  /\ Held(x) \in Nat
         /\ pull[a].it # x /\ pull'[a].it = x => Held(x)' = Held(x) + 1
         /\ pull[a].it = x /\ pull'[a].it # x => Held(x)' = Held(x) - 1
         /\ (pull[a].it = x <=> pull'[a].it = x) => Held(x)' = Held(x)
<1>1. CASE a = "worker"
  <2>1. pull'["maintainer"] = pull["maintainer"] BY <1>1
  <2> QED BY <1>1, <2>1 DEF Held, One
<1>2. CASE a = "maintainer"
  <2>1. pull'["worker"] = pull["worker"] BY <1>2
  <2> QED BY <1>2, <2>1 DEF Held, One
<1> QED BY <1>1, <1>2

\* The steps of a pull keep the counts.
LEMMA RefcountPullStep ==
  ASSUME StoreInv, [Next]_vars, NEW a \in Threads, PullStep(a)
  PROVE  RefcountExact'
<1> USE DEF store, locks, worker, history
<1>0. free' = free
  <2>1. CASE PullReleases(a)
    <3>1. refcount[pull[a].it] # 1 BY <2>1, ReleaseProperties DEF PullReleases
    <3> QED BY <2>1, <3>1 DEF PullReleases, ItemRemove
  <2> QED
    BY <2>1
    DEF PullStep, PullFindsNone, PullSkips, PullEvicts, PullMoves, PullLeaves,
        PullStops, PullRelinks
<1> SUFFICES ASSUME NEW x \in Items, x \notin free PROVE Exact(x)'
  BY <1>0 DEF RefcountExact, Exact
<1>a. /\ Exact(x) /\ refcount \in [Items -> Nat] /\ kept[x] \in Nat
      /\ linked \in [Items -> BOOLEAN] /\ pull \in [Threads -> PullType]
      /\ pull[a].at \in {"idle", "scan"} => pull[a].it = NoItem
      /\ x # NoItem
  BY StoreAssumption
  DEF StoreInv, RefcountExact, Exact, TypeOK, StoreType, HistoryType, PullsInOrder,
      PullInOrder
<1>b. \A b \in Threads : b # a => pull'[b] = pull[b] BY PullStepFrame
<1>c. Linking' = Linking /\ kept' = kept BY PullStepFrame, PullLinksNothing
<1>d. /\ Held(x) \in Nat
      /\ pull[a].it # x /\ pull'[a].it = x => Held(x)' = Held(x) + 1
      /\ pull[a].it = x /\ pull'[a].it # x => Held(x)' = Held(x) - 1
      /\ (pull[a].it = x <=> pull'[a].it = x) => Held(x)' = Held(x)
  BY <1>b, HeldStep
<1>e. ASSUME refcount'[x] = refcount[x], linked'[x] = linked[x],
             pull[a].it = x <=> pull'[a].it = x
      PROVE  Exact(x)'
  BY <1>a, <1>c, <1>d, <1>e, Zenon DEF Exact
<1>f. ASSUME NEW y \in Items, NEW next, NEW r, PullStops(a, next, r), y = Search(a)
      PROVE  pull[a].it = NoItem /\ pull'[a].it = y /\ linked[y] /\ y \notin Linking
  BY <1>a, <1>f, SearchProperties DEF PullStops, PullType
<1>g. One(linked[x] /\ x \notin Linking) \in Nat BY DEF One
<1>h. ASSUME NEW next, NEW r, PullStops(a, next, r), RefcountIncr(Search(a)), linked' = linked
      PROVE  Exact(x)'
  <2>1. /\ pull[a].it = NoItem /\ pull'[a].it = Search(a) /\ Search(a) \in Items
        /\ refcount' = [refcount EXCEPT ![Search(a)] = @ + 1]
    BY <1>f, <1>h, SearchProperties DEF PullStops, RefcountIncr
  <2>2. CASE x = Search(a)
    <3>1. refcount'[x] = refcount[x] + 1 BY <1>a, <2>1, <2>2
    <3>2. Held(x)' = Held(x) + 1 BY <1>a, <1>d, <2>1, <2>2
    <3>3. One(linked[x] /\ x \notin Linking)' = One(linked[x] /\ x \notin Linking)
      BY <1>c, <1>h, Zenon
    <3> QED BY <1>a, <1>c, <1>d, <1>g, <3>1, <3>2, <3>3 DEF Exact
  <2>3. CASE x # Search(a)
    <3>1. refcount'[x] = refcount[x] BY <1>a, <2>1, <2>3
    <3>2. linked'[x] = linked[x] BY <1>h
    <3> QED BY <1>a, <1>e, <2>1, <2>3, <3>1, <3>2
  <2> QED BY <2>2, <2>3
<1>1. CASE PullFindsNone(a)
  <2>1. UNCHANGED <<refcount, linked>> /\ pull' = [pull EXCEPT ![a] = NoPull] /\ pull[a].at = "scan"
    BY <1>1 DEF PullFindsNone, PullReturns, Scanning
  <2>2. pull'[a].it = NoItem BY <1>a, <2>1 DEF NoPull
  <2> QED BY <1>a, <1>e, <2>1, <2>2
<1>2. CASE PullSkips(a)
  <2>1. UNCHANGED <<refcount, linked>> /\ pull'[a].it = pull[a].it
    BY <1>a, <1>2 DEF PullSkips, PullType
  <2> QED BY <1>e, <2>1
<1>3. CASE PullEvicts(a)
  <2>1. /\ PullStops(a, "release", TRUE) /\ refcount' = refcount
        /\ linked' = [linked EXCEPT ![Search(a)] = FALSE]
    BY <1>3 DEF PullEvicts
  <2>2. Search(a) \in Items BY <2>1, SearchProperties DEF PullStops
  <2>3. /\ pull[a].it = NoItem /\ pull'[a].it = Search(a) /\ linked[Search(a)]
        /\ Search(a) \notin Linking
    BY <1>f, <2>1, <2>2
  <2>4. CASE x = Search(a)
    <3>1. Held(x)' = Held(x) + 1 BY <1>a, <1>d, <2>3, <2>4
    <3>2. ~linked'[x] BY <1>a, <2>1, <2>4
    <3>3. One(linked[x] /\ x \notin Linking) = 1 BY <2>3, <2>4, Zenon DEF One
    <3>4. One(linked[x] /\ x \notin Linking)' = 0 BY <3>2, Zenon DEF One
    <3> QED BY <1>a, <1>c, <1>d, <2>1, <3>1, <3>3, <3>4 DEF Exact
  <2>5. CASE x # Search(a)
    <3>1. linked'[x] = linked[x] /\ refcount'[x] = refcount[x] BY <1>a, <2>1, <2>5
    <3> QED BY <1>a, <1>e, <2>3, <2>5, <3>1
  <2> QED BY <2>4, <2>5
<1>4. CASE PullMoves(a) BY <1>4, <1>h DEF PullMoves
<1>5. CASE PullLeaves(a) BY <1>5, <1>h DEF PullLeaves
<1>6. CASE PullRelinks(a)
  <2>1. UNCHANGED <<refcount, linked>> /\ pull'[a].it = pull[a].it
    BY <1>a, <1>6 DEF PullRelinks, PullType
  <2> QED BY <1>e, <2>1
<1>7. CASE PullReleases(a)
  <2>1. /\ refcount' = [refcount EXCEPT ![pull[a].it] = @ - 1] /\ linked' = linked
        /\ pull' = [pull EXCEPT ![a] = NoPull]
    BY <1>7 DEF PullReleases, ItemRemove, PullReturns
  <2>2. pull'[a].it = NoItem BY <1>a, <2>1 DEF NoPull
  <2>3. CASE x = pull[a].it
    <3>1. refcount'[x] = refcount[x] - 1 BY <1>a, <2>1, <2>3
    <3>2. Held(x)' = Held(x) - 1 BY <1>a, <1>d, <2>2, <2>3
    <3>3. One(linked[x] /\ x \notin Linking)' = One(linked[x] /\ x \notin Linking)
      BY <1>c, <2>1, Zenon
    <3> QED BY <1>a, <1>c, <1>d, <1>g, <3>1, <3>2, <3>3 DEF Exact
  <2>4. CASE x # pull[a].it
    <3>1. refcount'[x] = refcount[x] /\ linked'[x] = linked[x] BY <1>a, <2>1, <2>4
    <3> QED BY <1>a, <1>e, <2>2, <2>4, <3>1
  <2> QED BY <2>3, <2>4
<1> QED BY <1>1, <1>2, <1>3, <1>4, <1>5, <1>6, <1>7 DEF PullStep

\* The steps of the requests keep the counts.
LEMMA RefcountRequestStep ==
  ASSUME StoreInv, [Next]_vars,
         UNCHANGED vars \/ Request \/ WorkerStep \/ Juggle
  PROVE  RefcountExact'
<1> USE DEF store, locks, worker, history
<1>a. /\ refcount \in [Items -> Nat] /\ kept \in [Items -> Nat] /\ free \subseteq Items
      /\ linked \in [Items -> BOOLEAN] /\ pull \in [Threads -> PullType]
      /\ chain \in [Keys -> Seq(Items)]
      /\ \A a \in Threads : pull[a].at = "idle" => pull[a].it = NoItem
  BY DEF StoreInv, TypeOK, StoreType, HistoryType, PullsInOrder, PullInOrder
<1>b. \A x \in Items \ free : Exact(x) BY DEF StoreInv, RefcountExact, Exact
<1>c. \A x : Held(x) \in Nat BY DEF Held, One
<1>d. ASSUME UNCHANGED <<refcount, linked, kept, free>>, Linking' = Linking,
             \A b \in Threads : pull'[b].it = pull[b].it
      PROVE  RefcountExact'
  <2>1. \A x : Held(x)' = Held(x) BY <1>d DEF Held
  <2> QED BY <1>b, <1>d, <2>1, Zenon DEF RefcountExact, Exact
<1>e. ASSUME UNCHANGED <<refcount, linked, kept, free, pull>>, pc # "linkq", pc' # "linkq"
      PROVE  RefcountExact'
  BY <1>d, <1>e DEF Linking
<1>f. ASSUME NEW a \in Threads, NEW l \in Lists, NEW e, PullStart(a, l, e), UNCHANGED req,
             pc = "linkq" <=> pc' = "linkq"
      PROVE  RefcountExact'
  <2>1. UNCHANGED <<refcount, linked, kept, free>> /\ pull[a].at = "idle"
    BY <1>f DEF PullStart
  <2>2. pull'[a].it = NoItem /\ \A b \in Threads : b # a => pull'[b] = pull[b]
    BY <1>a, <1>f DEF PullStart
  <2>3. Linking' = Linking BY <1>f DEF Linking
  <2> QED BY <1>a, <1>d, <2>1, <2>2, <2>3
<1>1. CASE UNCHANGED vars BY <1>1, <1>d DEF vars, Linking
<1>2. ASSUME NEW k \in Keys, Set(k) PROVE RefcountExact' BY <1>2, <1>e DEF Set
<1>3. CASE AllocFails BY <1>3, <1>e DEF AllocFails, Respond
<1>4. CASE Copy BY <1>4, <1>e DEF Copy, Respond
<1>5. CASE AllocPulls BY <1>5, <1>f DEF AllocPulls
<1>6. CASE Juggle BY <1>6, <1>f DEF Juggle
<1>7. ASSUME NEW k \in Keys, Get(k) PROVE RefcountExact'
  <2>1. CASE chain[k] = <<>> BY <1>7, <1>e, <2>1 DEF Get
  <2>2. CASE chain[k] # <<>>
    <3> DEFINE h == Head(chain[k])
    <3>1. h \in Items BY <1>a, <2>2, TailProperties
    <3>2. /\ refcount' = [refcount EXCEPT ![h] = @ + 1] /\ kept' = [kept EXCEPT ![h] = @ + 1]
          /\ UNCHANGED <<free, linked, pull>> /\ pc = "idle" /\ pc' = "copy"
      BY <1>7, <2>2 DEF Get, RefcountIncr
    <3> HIDE DEF h
    <3>3. Linking' = Linking BY <3>2 DEF Linking
    <3>4. \A x : Held(x)' = Held(x) BY <3>2 DEF Held
    <3>5. ASSUME NEW x \in Items \ free PROVE Exact(x)'
      <4>1. One(linked[x] /\ x \notin Linking)' = One(linked[x] /\ x \notin Linking)
        BY <3>2, <3>3, Zenon
      <4>2. One(linked[x] /\ x \notin Linking) \in Nat BY DEF One
      <4>3. CASE x = h
        <5>1. refcount'[x] = refcount[x] + 1 /\ kept'[x] = kept[x] + 1
          BY <1>a, <3>2, <4>3
        <5> QED BY <1>a, <1>b, <1>c, <3>4, <4>1, <4>2, <5>1 DEF Exact
      <4>4. CASE x # h
        <5>1. refcount'[x] = refcount[x] /\ kept'[x] = kept[x] BY <1>a, <3>2, <4>4
        <5> QED BY <1>b, <3>4, <4>1, <5>1, Zenon DEF Exact
      <4> QED BY <4>3, <4>4
    <3> QED BY <3>2, <3>5 DEF RefcountExact, Exact
  <2> QED BY <2>1, <2>2
<1>8. ASSUME NEW y \in Items, Alloc(y) PROVE RefcountExact'
  <2>1. /\ y \in free /\ free' = free \ {y} /\ refcount' = [refcount EXCEPT ![y] = 1]
        /\ UNCHANGED <<linked, kept, pull>> /\ pc = "alloc" /\ pc' = "link"
    BY <1>8 DEF Alloc
  <2>2. Linking' = Linking BY <2>1 DEF Linking
  <2>3. \A x : Held(x)' = Held(x) BY <2>1 DEF Held
  <2>4. ASSUME NEW x \in Items \ free' PROVE Exact(x)'
    <3>1. One(linked[x] /\ x \notin Linking)' = One(linked[x] /\ x \notin Linking)
      BY <2>1, <2>2, Zenon
    <3>2. CASE x = y
      <4>1. ~linked[x] /\ kept[x] = 0 BY <2>1, <3>2 DEF StoreInv, FreeUntouched
      <4>2. \A a \in Threads : pull[a].it # x BY <2>1, <3>2 DEF StoreInv, MemorySafe
      <4>3. Held(x) = 0 BY <4>2 DEF Held, One
      <4>4. One(linked[x] /\ x \notin Linking) = 0 BY <4>1, Zenon DEF One
      <4>5. refcount'[x] = 1 /\ kept'[x] = 0 BY <1>a, <2>1, <3>2, <4>1
      <4> QED BY <2>3, <3>1, <4>3, <4>4, <4>5 DEF Exact
    <3>3. CASE x # y
      <4>1. refcount'[x] = refcount[x] /\ kept'[x] = kept[x] /\ x \notin free
        BY <1>a, <2>1, <3>3
      <4> QED BY <1>b, <2>3, <3>1, <4>1, Zenon DEF Exact
    <3> QED BY <3>2, <3>3
  <2> QED BY <2>4 DEF RefcountExact, Exact
<1>9. CASE Link
  <2>1. /\ UNCHANGED <<refcount, kept, free, pull, req>> /\ pc = "link" /\ pc' = "linkq"
        /\ linked' = [linked EXCEPT ![req.it] = TRUE]
    BY <1>9 DEF Link
  <2>2. ~linked[req.it] BY <2>1 DEF StoreInv, WorkerInOrder
  <2>3. Linking = {} /\ Linking' = {req.it} BY <2>1 DEF Linking
  <2>4. \A x : Held(x)' = Held(x) BY <2>1 DEF Held
  <2>5. ASSUME NEW x \in Items
        PROVE  (linked'[x] /\ x \notin Linking') <=> (linked[x] /\ x \notin Linking)
    <3>1. CASE x = req.it BY <2>2, <2>3, <3>1
    <3>2. CASE x # req.it BY <1>a, <2>1, <2>3, <3>2
    <3> QED BY <3>1, <3>2
  <2>6. ASSUME NEW x \in Items
        PROVE  One(linked'[x] /\ x \notin Linking') = One(linked[x] /\ x \notin Linking)
    BY <2>5, Zenon DEF One
  <2> QED BY <1>b, <2>1, <2>4, <2>6, Zenon DEF RefcountExact, Exact
<1>10. CASE LinkQ
  <2>1. /\ UNCHANGED <<linked, kept, free, pull, req>> /\ pc = "linkq" /\ pc' = "idle"
        /\ refcount' = [refcount EXCEPT ![req.it] = @ + 1]
    BY <1>10 DEF LinkQ, RefcountIncr, Respond
  <2>2. Linking = {req.it} /\ Linking' = {} BY <2>1 DEF Linking
  <2>3. req.it \in Items BY <2>1 DEF StoreInv, WorkerInOrder
  <2>4. linked[req.it] BY <2>2, <2>3 DEF StoreInv, LruConsistent
  <2>5. \A x : Held(x)' = Held(x) BY <2>1 DEF Held
  <2>6. ASSUME NEW x \in Items \ free PROVE Exact(x)'
    <3>1. CASE x = req.it
      <4>1. refcount'[x] = refcount[x] + 1 /\ kept'[x] = kept[x] BY <1>a, <2>1, <2>3, <3>1
      <4>2. One(linked[x] /\ x \notin Linking) = 0 BY <2>2, <3>1, Zenon DEF One
      <4>3. One(linked[x] /\ x \notin Linking)' = 1
        BY <2>1, <2>2, <2>4, <3>1, Zenon DEF One
      <4> QED BY <1>a, <1>b, <1>c, <2>5, <4>1, <4>2, <4>3 DEF Exact
    <3>2. CASE x # req.it
      <4>1. refcount'[x] = refcount[x] /\ kept'[x] = kept[x] BY <1>a, <2>1, <3>2
      <4>2. (linked'[x] /\ x \notin Linking') <=> (linked[x] /\ x \notin Linking)
        BY <2>1, <2>2, <3>2
      <4>3. One(linked'[x] /\ x \notin Linking') = One(linked[x] /\ x \notin Linking)
        BY <4>2, Zenon DEF One
      <4> QED BY <1>b, <2>5, <4>1, <4>3, Zenon DEF Exact
    <3> QED BY <3>1, <3>2
  <2> QED BY <2>1, <2>6 DEF RefcountExact, Exact
<1> QED
  BY <1>1, <1>2, <1>3, <1>4, <1>5, <1>6, <1>7, <1>8, <1>9, <1>10
  DEF Request, WorkerStep

\* Every step keeps the counts.
LEMMA RefcountStep == ASSUME StoreInv, [Next]_vars PROVE RefcountExact'
BY RefcountRequestStep, RefcountPullStep, Zenon DEF Next

-----------------------------------------------------------------------------
(***************************************************************************)
(* The answers of GET and the lengths of the chains.                       *)
(***************************************************************************)

\* The items of a chain are chunks in use.
LEMMA HeadInUse ==
  ASSUME StoreInv, NEW k \in Keys, chain[k] # <<>>
  PROVE  Head(chain[k]) \in Items /\ Head(chain[k]) \notin free
<1>1. Head(chain[k]) \in Items /\ Head(chain[k]) \in ToSet(chain[k])
  BY TailProperties DEF StoreInv, TypeOK, StoreType
<1> QED BY <1>1 DEF StoreInv, MemorySafe

\* Only Link and an eviction touch a chain; only Link changes a last value.
LEMMA ChainFrame ==
  ASSUME [Next]_vars, ~Link, \A a \in Threads : ~PullEvicts(a)
  PROVE  UNCHANGED <<chain, last, linked, evicted>>
BY DEF Next, Request, WorkerStep, vars, store, locks, worker, history, Set, Get, Alloc,
       AllocPulls, AllocFails, LinkQ, Copy, Juggle, PullStart, PullStep, PullFindsNone,
       PullSkips, PullMoves, PullLeaves, PullStops, PullRelinks, PullReleases

\* Every step keeps the chains fresh.
LEMMA ChainsFreshStep == ASSUME StoreInv, [Next]_vars PROVE ChainsFresh'
<1> DEFINE Fresh(k) == /\ chain[k] = <<>> => last[k] = 0
                       /\ chain[k] # <<>> => item[Head(chain[k])].val = last[k]
<1>a. /\ \A k \in Keys \ evicted : Fresh(k)
      /\ chain \in [Keys -> Seq(Items)] /\ last \in [Keys -> 0 .. MaxSets]
  BY DEF StoreInv, ChainsFresh, TypeOK, StoreType, HistoryType
<1>b. ASSUME NEW k \in Keys \ evicted, chain'[k] = chain[k], last'[k] = last[k]
      PROVE  Fresh(k)'
  <2>1. chain[k] # <<>> => item'[Head(chain[k])] = item[Head(chain[k])]
    BY HeadInUse, ItemKept
  <2> QED BY <1>a, <1>b, <2>1
<1>1. CASE ~Link /\ \A a \in Threads : ~PullEvicts(a)
  BY <1>1, <1>b, ChainFrame DEF ChainsFresh
<1>2. CASE Link
  <2>1. /\ chain' = [chain EXCEPT ![req.key] = <<req.it>> \o @] /\ UNCHANGED <<item, evicted>>
        /\ last' = [last EXCEPT ![req.key] = item[req.it].val]
    BY <1>2 DEF Link, AssocInsert
  <2>2. req.it \in Items /\ req.key \in Keys
    BY <1>2 DEF Link, StoreInv, WorkerInOrder, TypeOK, WorkerType
  <2>3. ASSUME NEW k \in Keys \ evicted PROVE Fresh(k)'
    <3>1. CASE k = req.key
      <4>1. /\ <<req.it>> \o chain[k] # <<>> /\ Head(<<req.it>> \o chain[k]) = req.it
        BY <1>a, <2>2, ConsProperties
      <4>2. chain'[k] = <<req.it>> \o chain[k] /\ last'[k] = item[req.it].val
        BY <1>a, <2>1, <3>1
      <4> QED BY <2>1, <4>1, <4>2
    <3>2. CASE k # req.key
      <4>1. chain'[k] = chain[k] /\ last'[k] = last[k] BY <1>a, <2>1, <3>2
      <4> QED BY <1>b, <4>1
    <3> QED BY <3>1, <3>2
  <2> QED BY <2>1, <2>3 DEF ChainsFresh
<1>3. ASSUME NEW a \in Threads, PullEvicts(a) PROVE ChainsFresh'
  <2> DEFINE key == item[Search(a)].key
  <2>1. /\ chain' = [chain EXCEPT ![key] = IF @ = <<>> THEN @ ELSE Tail(@)]
        /\ evicted' = evicted \union {key} /\ last' = last
    BY <1>3 DEF PullEvicts, PullStops, AssocDelete
  <2> HIDE DEF key
  <2>2. ASSUME NEW k \in Keys \ evicted' PROVE Fresh(k)'
    <3>1. chain'[k] = chain[k] /\ k \in Keys \ evicted BY <1>a, <2>1
    <3>2. last'[k] = last[k] BY <2>1
    <3> QED BY <1>b, <3>1, <3>2
  <2> QED BY <2>2 DEF ChainsFresh
<1> QED BY <1>1, <1>2, <1>3

\* Every step keeps the answer under way fresh.
LEMMA FreshStep == ASSUME StoreInv, [Next]_vars PROVE FreshUntilEviction'
<1> SUFFICES ASSUME pc' = "copy", req'.key \notin evicted'
             PROVE  Value' = last'[req'.key]
  BY DEF FreshUntilEviction
<1>1. ASSUME NEW k \in Keys, Get(k) PROVE Value' = last'[req'.key]
  <2>1. /\ req'.key = k /\ UNCHANGED <<item, last, evicted>>
        /\ req'.it = IF chain[k] = <<>> THEN NoItem ELSE Head(chain[k])
    BY <1>1 DEF Get
  <2>2. k \notin evicted BY <2>1
  <2>3. CASE chain[k] = <<>>
    BY <2>1, <2>2, <2>3 DEF Value, StoreInv, ChainsFresh
  <2>4. CASE chain[k] # <<>>
    <3>1. req'.it = Head(chain[k]) /\ req'.it # NoItem
      BY <2>1, <2>4, HeadInUse, StoreAssumption
    <3> QED BY <2>1, <2>2, <2>4, <3>1 DEF Value, StoreInv, ChainsFresh
  <2> QED BY <2>3, <2>4
<1>2. ASSUME pc = "copy", req'.it = req.it, req'.key = req.key, last' = last,
             evicted \subseteq evicted'
      PROVE  Value' = last'[req'.key]
  <2>1. Value = last[req.key] BY <1>2 DEF StoreInv, FreshUntilEviction
  <2>2. req.it = NoItem \/ req.it \in Items BY DEF StoreInv, TypeOK, WorkerType
  <2>3. req.it \notin free BY <1>2 DEF StoreInv, MemorySafe
  <2>4. req.it # NoItem => item'[req.it] = item[req.it] BY <2>2, <2>3, ItemKept
  <2> QED BY <1>2, <2>1, <2>4 DEF Value
<1>3. ASSUME NEW a \in Threads, PullStep(a) PROVE Value' = last'[req'.key]
  <2>1. pc = "copy" /\ last' = last /\ evicted \subseteq evicted'
    BY <1>3
    DEF PullStep, PullFindsNone, PullSkips, PullEvicts, PullMoves, PullLeaves,
        PullStops, PullRelinks, PullReleases, PullReturns, history, worker
  <2> QED BY <1>2, <1>3, <2>1, PullStepFrame
<1>4. ASSUME UNCHANGED <<pc, req, last, evicted>> PROVE Value' = last'[req'.key]
  BY <1>2, <1>4
<1> QED
  BY <1>1, <1>3, <1>4
  DEF Next, Request, WorkerStep, vars, store, locks, worker, history, Set, Alloc,
      AllocPulls, AllocFails, Link, LinkQ, Copy, Juggle, PullStart, Respond

\* The items of a key that are linked.
LinkedOf(k) == {x \in Items : linked[x] /\ item[x].key = k}

\* Every step keeps a chain as long as its key has linked items.
LEMMA ChainCountsStep == ASSUME StoreInv, [Next]_vars PROVE ChainCounts'
<1>a. /\ \A k \in Keys : Len(chain[k]) = Cardinality(LinkedOf(k))
      /\ chain \in [Keys -> Seq(Items)] /\ linked \in [Items -> BOOLEAN]
      /\ linked' \in [Items -> BOOLEAN]
      /\ item \in [Items -> [key : Keys, val : 0 .. MaxSets]]
  BY TypeStep DEF StoreInv, ChainCounts, LinkedOf, TypeOK, StoreType
<1>b. \A k : IsFiniteSet(LinkedOf(k))
  <2>1. \A k : LinkedOf(k) \in SUBSET Items BY DEF LinkedOf
  <2> QED BY <2>1, FS_Subset, StoreAssumption
<1>1. CASE ~Link /\ \A a \in Threads : ~PullEvicts(a)
  <2>1. chain' = chain /\ linked' = linked BY <1>1, ChainFrame
  <2>2. \A x \in Items : linked[x] => item'[x] = item[x]
    BY ItemKept DEF StoreInv, FreeUntouched
  <2>3. \A k : LinkedOf(k)' = LinkedOf(k) BY <2>1, <2>2 DEF LinkedOf
  <2> QED BY <1>a, <2>1, <2>3, Zenon DEF ChainCounts, LinkedOf
<1>2. CASE Link
  <2>1. /\ chain' = [chain EXCEPT ![req.key] = <<req.it>> \o @] /\ item' = item
        /\ linked' = [linked EXCEPT ![req.it] = TRUE]
    BY <1>2 DEF Link, AssocInsert
  <2>2. /\ req.it \in Items /\ req.key \in Keys /\ ~linked[req.it]
        /\ item[req.it].key = req.key
    BY <1>2 DEF Link, StoreInv, WorkerInOrder, TypeOK, WorkerType
  <2>3. ASSUME NEW k \in Keys PROVE Len(chain'[k]) = Cardinality(LinkedOf(k)')
    <3>1. CASE k = req.key
      <4>1. LinkedOf(k)' = LinkedOf(k) \union {req.it} /\ req.it \notin LinkedOf(k)
        BY <1>a, <2>1, <2>2, <3>1 DEF LinkedOf
      <4>2. Cardinality(LinkedOf(k) \union {req.it}) = Cardinality(LinkedOf(k)) + 1
        BY <1>b, <4>1, FS_AddElement
      <4>3. Len(chain'[k]) = Len(chain[k]) + 1 BY <1>a, <2>1, <2>2, <3>1, ConsProperties
      <4> QED BY <1>a, <4>1, <4>2, <4>3
    <3>2. CASE k # req.key
      <4>1. LinkedOf(k)' = LinkedOf(k) BY <1>a, <2>1, <2>2, <3>2 DEF LinkedOf
      <4>2. chain'[k] = chain[k] BY <1>a, <2>1, <3>2
      <4> QED BY <1>a, <4>1, <4>2
    <3> QED BY <3>1, <3>2
  <2> QED BY <2>3 DEF ChainCounts, LinkedOf
<1>3. ASSUME NEW a \in Threads, PullEvicts(a) PROVE ChainCounts'
  <2> DEFINE x == Search(a)
             key == item[x].key
  <2>1. /\ chain' = [chain EXCEPT ![key] = IF @ = <<>> THEN @ ELSE Tail(@)]
        /\ linked' = [linked EXCEPT ![x] = FALSE] /\ item' = item
    BY <1>3 DEF PullEvicts, PullStops, AssocDelete
  <2>2. x \in Items /\ linked[x]
    BY <1>3, SearchProperties DEF PullEvicts, PullStops
  <2>3. key \in Keys /\ x \in LinkedOf(key) BY <1>a, <2>2 DEF LinkedOf
  <2>4. \A k : LinkedOf(k)' = LinkedOf(k) \ {x} BY <1>a, <2>1, <2>2 DEF LinkedOf
  <2>5. \A k : k # key => x \notin LinkedOf(k) BY DEF LinkedOf
  <2> HIDE DEF x, key
  <2>6. ASSUME NEW k \in Keys PROVE Len(chain'[k]) = Cardinality(LinkedOf(k)')
    <3>1. CASE k = key
      <4>1. Cardinality(LinkedOf(k) \ {x}) = Cardinality(LinkedOf(k)) - 1
        BY <1>b, <2>3, <3>1, FS_RemoveElement
      <4>2. chain[k] # <<>>
        <5>1. Cardinality(LinkedOf(k)) # 0 BY <1>b, <2>3, <3>1, FS_EmptySet
        <5>2. Len(chain[k]) # 0 BY <1>a, <5>1
        <5> QED BY <5>2
      <4>3. chain'[k] = Tail(chain[k]) BY <1>a, <2>1, <3>1, <4>2
      <4>4. Len(Tail(chain[k])) = Len(chain[k]) - 1 BY <1>a, <4>2, TailProperties
      <4> QED BY <1>a, <2>4, <4>1, <4>3, <4>4
    <3>2. CASE k # key
      <4>1. LinkedOf(k)' = LinkedOf(k) BY <2>4, <2>5, <3>2
      <4>2. chain'[k] = chain[k] BY <1>a, <2>1, <3>2
      <4> QED BY <1>a, <4>1, <4>2
    <3> QED BY <3>1, <3>2
  <2> QED BY <2>6 DEF ChainCounts, LinkedOf
<1> QED BY <1>1, <1>2, <1>3

-----------------------------------------------------------------------------
(***************************************************************************)
(* The theorems.                                                           *)
(***************************************************************************)

\* The invariant holds of an empty store.
LEMMA StoreInit == ASSUME Init PROVE StoreInv
<1>1. TypeOK BY TypeInit
<1>2. /\ refcount = [x \in Items |-> 0] /\ linked = [x \in Items |-> FALSE]
      /\ kept = [x \in Items |-> 0] /\ last = [k \in Keys |-> 0]
      /\ chain = [k \in Keys |-> <<>>] /\ lru = [l \in Lists |-> <<>>]
      /\ pull = [a \in Threads |-> NoPull] /\ pc = "idle" /\ free = Items
  BY Zenon DEF Init
<1>3. \A a \in Threads : pull[a].at = "idle" /\ pull[a].it = NoItem
  BY <1>2 DEF NoPull
<1>4. PullsInOrder BY <1>3 DEF PullsInOrder, PullInOrder
<1>5. WorkerInOrder BY <1>2, <1>3 DEF WorkerInOrder
<1>6. ToSet(<<>>) = {} /\ IsInjective(<<>>) BY DEF ToSet, IsInjective
<1>7. Listed = {} /\ Moving = {} /\ Linking = {}
  BY <1>2, <1>3, <1>6 DEF Listed, Moving, Linking
<1>8. \A x \in Items : ~linked[x] BY <1>2, Zenon
<1>9. LruConsistent
  <2>1. {x \in Items : linked[x]} = {} BY <1>8
  <2>2. \A l \in Lists : lru[l] = <<>> BY <1>2
  <2> QED BY <1>6, <1>7, <2>1, <2>2 DEF LruConsistent
<1>10. FreeUntouched BY <1>2, <1>8 DEF FreeUntouched
<1>11. RefcountExact BY <1>2 DEF RefcountExact
<1>12. MemorySafe
  <2>1. \A k \in Keys : chain[k] = <<>> BY <1>2
  <2>2. \A l \in Lists : lru[l] = <<>> BY <1>2
  <2> QED BY <1>2, <1>3, <1>6, <2>1, <2>2, StoreAssumption DEF MemorySafe
<1>13. ChainsFresh
  <2>1. \A k \in Keys : chain[k] = <<>> /\ last[k] = 0 BY <1>2
  <2> QED BY <2>1 DEF ChainsFresh
<1>14. FreshUntilEviction BY <1>2 DEF FreshUntilEviction
<1>15. ChainCounts
  <2>1. \A k \in Keys : Len(chain[k]) = 0 BY <1>2
  <2>2. \A k : {x \in Items : linked[x] /\ item[x].key = k} = {} BY <1>8
  <2> QED BY <2>1, <2>2, FS_EmptySet DEF ChainCounts
<1> QED
  BY <1>1, <1>4, <1>5, <1>9, <1>10, <1>11, <1>12, <1>13, <1>14, <1>15 DEF StoreInv

\* Every step keeps the invariant.
LEMMA StoreInvStep == ASSUME StoreInv, [Next]_vars PROVE StoreInv'
BY TypeStep, PullsStep, WorkerStepInOrder, LruStep, FreeStep, RefcountStep, MemoryStep,
   ChainsFreshStep, FreshStep, ChainCountsStep
DEF StoreInv

\* The invariant holds in every reachable state: items, chains, lists, counts and
\* locks agree however the worker's and the maintainer's pulls interleave.
THEOREM StoreInductive == Spec => []StoreInv
<1>1. Init => StoreInv BY StoreInit
<1>2. StoreInv /\ [Next]_vars => StoreInv' BY StoreInvStep
<1> QED BY <1>1, <1>2, PTL DEF Spec

\* Type correctness of the store.
THEOREM StoreTypes == Spec => []TypeOK
<1>1. StoreInv => TypeOK BY DEF StoreInv
<1> QED BY <1>1, StoreInductive, PTL

\* assoc_delete finds an item for every item lru_pull_tail unlinks.
THEOREM ChainsCount == Spec => []ChainCounts
<1>1. StoreInv => ChainCounts BY DEF StoreInv
<1> QED BY <1>1, StoreInductive, PTL

\* Every linked item is in one list or in one thread's hands.
THEOREM ListsConsistent == Spec => []LruConsistent
<1>1. StoreInv => LruConsistent BY DEF StoreInv
<1> QED BY <1>1, StoreInductive, PTL

\* No reference is lost or doubled.
THEOREM CountsExact == Spec => []RefcountExact
<1>1. StoreInv => RefcountExact BY DEF StoreInv
<1> QED BY <1>1, StoreInductive, PTL

\* slabs_alloc hands out no chunk that anything still points to.
THEOREM NoUseAfterRelease == Spec => []MemorySafe
<1>1. StoreInv => MemorySafe BY DEF StoreInv
<1> QED BY <1>1, StoreInductive, PTL

\* Until an item of its key is evicted, a GET answers the last SET.
THEOREM GetsFresh == Spec => []FreshUntilEviction
<1>1. StoreInv => FreshUntilEviction BY DEF StoreInv
<1> QED BY <1>1, StoreInductive, PTL

\* No chunk ever goes back to slabs_alloc: once handed out it is lost to SETs,
\* evicted or not, for nobody gives back the reference of its allocation.
THEOREM NothingIsFreed == Spec => [][free' \subseteq free]_vars
<1>1. StoreInv /\ [Next]_vars => [free' \subseteq free]_vars BY ItemKept
<1> QED BY <1>1, StoreInductive, PTL DEF Spec

=============================================================================
