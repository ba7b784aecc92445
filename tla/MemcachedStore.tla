--------------------------- MODULE MemcachedStore ---------------------------
(***************************************************************************)
(* The item store of memcached as the DPDK server uses it: perform_set and *)
(* perform_get of memcached_dpdk_pipeline/memcached/memcached.c over the   *)
(* items, hash chains and LRU lists of items.c, assoc.c and thread.c.      *)
(*                                                                         *)
(* The worker is the thread that runs process_through_memcached; the       *)
(* maintainer is the LRU maintainer thread, which main() starts.  They     *)
(* meet on the item locks (one per hash value) and on the lock of each LRU *)
(* list.  The items are those of one slab class.                           *)
(*                                                                         *)
(* Not modelled: expiry, flushing and the growth of the hash table, which  *)
(* all wait for a clock that the event loop drives and the DPDK loop never *)
(* runs; the crawler and the slab rebalancer, which the maintainer starts  *)
(* at most once per tick of it; the WARM list, which only items bumped by  *)
(* the text protocol's GET reach.                                          *)
(***************************************************************************)
EXTENDS Naturals, FiniteSets, Sequences, SequencesExt

CONSTANTS
  Items,       \* the chunks of the slab class
  NoItem,
  Keys,
  Hashes,      \* the item locks
  hash,        \* the item lock of each key
  AllocTries,  \* 10 in do_item_alloc_pull
  PullTries,   \* 5 in lru_pull_tail
  MaxSets,     \* bound: SET requests served
  MaxGets      \* bound: GET requests served

ASSUME StoreAssumption ==
  /\ IsFiniteSet(Items) /\ NoItem \notin Items /\ Keys # {} /\ hash \in [Keys -> Hashes]
  /\ AllocTries \in Nat /\ PullTries \in Nat /\ MaxSets \in Nat
  /\ MaxGets \in Nat

\* refcount is an unsigned short: with so few GETs it does not wrap.
ASSUME RefcountFits == MaxGets + 4 < 2^16

VARIABLES
  free,      \* the chunks slabs_alloc can hand out
  item,      \* what each chunk holds
  refcount,
  linked,    \* ITEM_LINKED
  chain,     \* the items of each key in its hash chain, newest first
  lru,       \* HOT_LRU and COLD_LRU, head first
  ilock,     \* the holder of each item lock
  lrulock,   \* the holder of each list's lock
  pc,        \* the worker's place
  i,         \* its tries in do_item_alloc_pull
  req,       \* its request, and the item it has for it
  pull,      \* each thread's lru_pull_tail
  sets, gets, \* requests so far
  kept,      \* history: the references to each item that GETs took
  last,      \* history: the value of the last SET of each key
  evicted,   \* history: the keys an item of which was evicted
  answer     \* the last response

store   == <<free, item, refcount, linked, chain, lru>>
locks   == <<ilock, lrulock>>
worker  == <<pc, i, req>>
history == <<sets, gets, kept, last, evicted, answer>>
vars    == <<store, locks, worker, pull, history>>

Threads == {"worker", "maintainer"}
Lists   == {"HOT", "COLD"}
NoOne   == "nobody"
NoPull  == [at |-> "idle", list |-> "COLD", evict |-> FALSE, search |-> 0,
            tries |-> 0, it |-> NoItem, removed |-> FALSE]
AnyKey  == CHOOSE k \in Keys : TRUE
hv(x)   == hash[item[x].key]

Init ==
  /\ free = Items
  /\ item = [x \in Items |-> [key |-> AnyKey, val |-> 0]]
  /\ refcount = [x \in Items |-> 0] /\ linked = [x \in Items |-> FALSE]
  /\ chain = [k \in Keys |-> <<>>] /\ lru = [l \in Lists |-> <<>>]
  /\ ilock = [h \in Hashes |-> NoOne] /\ lrulock = [l \in Lists |-> NoOne]
  /\ pc = "idle" /\ i = 0
  /\ req = [key |-> AnyKey, it |-> NoItem, evicted |-> FALSE]
  /\ pull = [a \in Threads |-> NoPull]
  /\ sets = 0 /\ gets = 0 /\ kept = [x \in Items |-> 0]
  /\ last = [k \in Keys |-> 0] /\ evicted = {}
  /\ answer = [op |-> "none", evicted |-> FALSE]

-----------------------------------------------------------------------------
(***************************************************************************)
(* The operations on one item, under the locks of the caller.              *)
(***************************************************************************)

\* Mutant: the item goes to the end of its chain.
AssocAppend(x, k) == chain' = [chain EXCEPT ![k] = Append(@, x)]

\* assoc_insert: to the head of the chain, whatever the chain holds.
AssocInsert(x, k) == chain' = [chain EXCEPT ![k] = <<x>> \o @]

\* Mutant: the item stays in its chain.
AssocKeep(k) == UNCHANGED chain

\* assoc_delete: the first item of the key goes, whichever item is unlinked.
AssocDelete(k) == chain' = [chain EXCEPT ![k] = IF @ = <<>> THEN @ ELSE Tail(@)]

LruLink(x, l) == lru' = [lru EXCEPT ![l] = <<x>> \o @]

\* Mutant: the head of the list goes.
LruUnlinkHead(n, l) == lru' = [lru EXCEPT ![l] = RemoveAt(@, 1)]

LruUnlink(n, l) == lru' = [lru EXCEPT ![l] = RemoveAt(@, n)]

\* Mutant: no reference is counted.
RefcountKeep(x) == UNCHANGED refcount

RefcountIncr(x) == refcount' = [refcount EXCEPT ![x] = @ + 1]

\* Mutant: the reference is not given back.
ItemRemoveNothing(x) == UNCHANGED <<refcount, free>>

\* do_item_remove: the chunk goes back when the count comes to nothing.
ItemRemove(x) == /\ refcount' = [refcount EXCEPT ![x] = @ - 1]
                 /\ free' = IF refcount[x] = 1 THEN free \union {x} ELSE free

ItemLock(a, h) == ilock[h] = NoOne /\ ilock' = [ilock EXCEPT ![h] = a]

\* Mutant: the lock is kept.
ItemKeepLock(h) == UNCHANGED ilock

ItemUnlock(h) == ilock' = [ilock EXCEPT ![h] = NoOne]

-----------------------------------------------------------------------------
(***************************************************************************)
(* lru_pull_tail(list, evict), by either thread.                           *)
(***************************************************************************)

PullStart(a, list, evict) ==
  /\ pull[a].at = "idle" /\ lrulock[list] = NoOne
  /\ lrulock' = [lrulock EXCEPT ![list] = a]
  /\ pull' = [pull EXCEPT ![a] =
                 [at |-> "scan", list |-> list, evict |-> evict, search |-> Len(lru[list]),
                  tries |-> PullTries, it |-> NoItem, removed |-> FALSE]]
  /\ UNCHANGED <<store, ilock, history>>

\* What the call returns decides what do_item_alloc_pull does next.
PullReturns(a, removed) ==
  /\ pull' = [pull EXCEPT ![a] = NoPull]
  /\ IF a = "maintainer" THEN UNCHANGED <<pc, i>>
     ELSE IF pc = "cold" /\ ~removed THEN pc' = "hot" /\ UNCHANGED i
     ELSE pc' = "alloc" /\ i' = i + 1

Scanning(a) == pull[a].at = "scan"
Search(a)   == lru[pull[a].list][pull[a].search]

\* The end of the list, or of the tries: nothing was found to stop at.
PullFindsNone(a) ==
  /\ Scanning(a) /\ (pull[a].search = 0 \/ pull[a].tries = 0)
  /\ lrulock' = [lrulock EXCEPT ![pull[a].list] = NoOne]
  /\ PullReturns(a, FALSE)
  /\ UNCHANGED <<store, ilock, req, history>>

\* item_trylock fails: on to the next item up the list.
PullSkips(a) ==
  /\ Scanning(a) /\ pull[a].search > 0 /\ pull[a].tries > 0
  /\ ilock[hv(Search(a))] # NoOne
  /\ pull' = [pull EXCEPT ![a].search = @ - 1, ![a].tries = @ - 1]
  /\ UNCHANGED <<store, locks, worker, history>>

\* The item's lock is taken and the list's released: next is what remains to do.
PullStops(a, next, removed) ==
  /\ Scanning(a) /\ pull[a].search > 0 /\ pull[a].tries > 0
  /\ ItemLock(a, hv(Search(a)))
  /\ lrulock' = [lrulock EXCEPT ![pull[a].list] = NoOne]
  /\ pull' = [pull EXCEPT ![a].at = next, ![a].it = Search(a), ![a].removed = removed]
  /\ UNCHANGED <<item, free, pc, i, sets, gets, kept, last, answer>>

\* COLD and evicting: do_item_unlink_nolock.  The item's own reference goes and
\* the pull's comes.
PullEvicts(a) ==
  /\ pull[a].evict
  /\ PullStops(a, "release", TRUE)
  /\ linked' = [linked EXCEPT ![Search(a)] = FALSE]
  /\ AssocDelete(item[Search(a)].key)
  /\ LruUnlink(pull[a].search, pull[a].list)
  /\ evicted' = evicted \union {item[Search(a)].key}
  /\ req' = [req EXCEPT !.evicted = TRUE]
  /\ UNCHANGED refcount

\* HOT: the item leaves for COLD.  total_bytes is 0 for the worker, so it always
\* moves the item; the maintainer does when HOT is over its share.
PullMoves(a) ==
  /\ pull[a].list = "HOT"
  /\ PullStops(a, "relink", TRUE)
  /\ RefcountIncr(Search(a))
  /\ LruUnlink(pull[a].search, "HOT")
  /\ UNCHANGED <<linked, chain, evicted, req>>

\* COLD and not evicting, or HOT within its share.
PullLeaves(a) ==
  /\ ~pull[a].evict /\ (pull[a].list = "HOT" => a = "maintainer")
  /\ PullStops(a, "release", FALSE)
  /\ RefcountIncr(Search(a))
  /\ UNCHANGED <<linked, chain, lru, evicted, req>>

\* item_link_q, under the lock of COLD.
PullRelinks(a) ==
  /\ pull[a].at = "relink" /\ lrulock["COLD"] = NoOne
  /\ LruLink(pull[a].it, "COLD")
  /\ pull' = [pull EXCEPT ![a].at = "release"]
  /\ UNCHANGED <<free, item, refcount, linked, chain, locks, worker, history>>

\* do_item_remove and the release of the item's lock.
PullReleases(a) ==
  /\ pull[a].at = "release"
  /\ ItemRemove(pull[a].it)
  /\ ItemUnlock(hv(pull[a].it))
  /\ PullReturns(a, pull[a].removed)
  /\ UNCHANGED <<item, linked, chain, lru, lrulock, req, history>>

PullStep(a) == \/ PullFindsNone(a) \/ PullSkips(a) \/ PullEvicts(a) \/ PullMoves(a)
               \/ PullLeaves(a) \/ PullRelinks(a) \/ PullReleases(a)

-----------------------------------------------------------------------------
(***************************************************************************)
(* The worker's requests.                                                  *)
(***************************************************************************)

Set(k) ==
  /\ pc = "idle" /\ sets < MaxSets
  /\ pc' = "alloc" /\ i' = 0 /\ sets' = sets + 1
  /\ req' = [key |-> k, it |-> NoItem, evicted |-> FALSE]
  /\ UNCHANGED <<store, locks, pull, gets, kept, last, evicted, answer>>

Respond(op) ==
  /\ pc' = "idle"
  /\ answer' = [op |-> op, evicted |-> req.evicted]

\* Mutant: one try too many.
MayTryOnce == i <= AllocTries

MayTry == i < AllocTries

\* slabs_alloc finds a chunk, which starts with one reference.
Alloc(x) ==
  /\ pc = "alloc" /\ MayTry /\ x \in free
  /\ free' = free \ {x}
  /\ refcount' = [refcount EXCEPT ![x] = 1]
  /\ item' = [item EXCEPT ![x] = [key |-> req.key, val |-> sets]]
  /\ req' = [req EXCEPT !.it = x]
  /\ pc' = "link"
  /\ UNCHANGED <<linked, chain, lru, locks, i, pull, history>>

\* It does not: pull the tail of COLD, and that of HOT if that removed nothing.
AllocPulls ==
  \/ /\ pc = "alloc" /\ MayTry /\ free = {}
     /\ PullStart("worker", "COLD", TRUE)
     /\ pc' = "cold" /\ UNCHANGED <<i, req>>
  \/ /\ pc = "hot"
     /\ PullStart("worker", "HOT", FALSE)
     /\ UNCHANGED worker

AllocFails ==
  /\ pc = "alloc" /\ i = AllocTries
  /\ Respond("failed")
  /\ UNCHANGED <<store, locks, i, req, pull, sets, gets, kept, last, evicted>>

\* do_item_link up to item_link_q: the key may well be in its chain already.
Link ==
  /\ pc = "link"
  /\ ItemLock("worker", hv(req.it))
  /\ linked' = [linked EXCEPT ![req.it] = TRUE]
  /\ AssocInsert(req.it, req.key)
  /\ last' = [last EXCEPT ![req.key] = item[req.it].val]
  /\ pc' = "linkq"
  /\ UNCHANGED <<free, item, refcount, lru, lrulock, i, req, pull, sets, gets,
                 kept, evicted, answer>>

\* item_link_q, the list's reference and the answer.  The reference the item
\* was allocated with is not released.
LinkQ ==
  /\ pc = "linkq" /\ lrulock["HOT"] = NoOne
  /\ LruLink(req.it, "HOT")
  /\ RefcountIncr(req.it)
  /\ ItemUnlock(hv(req.it))
  /\ Respond("set")
  /\ UNCHANGED <<free, item, linked, chain, lrulock, i, req, pull, sets, gets,
                 kept, last, evicted>>

\* assoc_find and refcount_incr under the item's lock.  Nothing releases that
\* reference.
Get(k) ==
  /\ pc = "idle" /\ gets < MaxGets /\ ilock[hash[k]] = NoOne
  /\ gets' = gets + 1
  /\ req' = [key |-> k, it |-> IF chain[k] = <<>> THEN NoItem ELSE Head(chain[k]),
             evicted |-> FALSE]
  /\ IF chain[k] = <<>> THEN UNCHANGED <<refcount, kept>>
     ELSE /\ RefcountIncr(Head(chain[k]))
          /\ kept' = [kept EXCEPT ![Head(chain[k])] = @ + 1]
  /\ pc' = "copy"
  /\ UNCHANGED <<free, item, linked, chain, lru, locks, i, pull, sets, last,
                 evicted, answer>>

\* The response, whose value is copied after the item's lock is released.
Value == IF req.it = NoItem THEN 0 ELSE item[req.it].val

Copy ==
  /\ pc = "copy"
  /\ Respond(IF Value = 0 THEN "miss" ELSE "hit")
  /\ UNCHANGED <<store, locks, i, req, pull, sets, gets, kept, last, evicted>>

WorkerStep == \/ \E x \in Items : Alloc(x)
              \/ AllocPulls \/ AllocFails \/ Link \/ LinkQ \/ Copy

Request == \E k \in Keys : Set(k) \/ Get(k)

\* lru_maintainer_juggle: HOT, WARM and COLD in turn, never evicting.
Juggle == \E l \in Lists : PullStart("maintainer", l, FALSE) /\ UNCHANGED worker

Next == Request \/ WorkerStep \/ Juggle \/ \E a \in Threads : PullStep(a)

Spec == Init /\ [][Next]_vars

(***************************************************************************)
(* The worker spins on requests and the maintainer finishes the pull it is *)
(* in.  The worker's locks are mutexes the maintainer takes again and      *)
(* again, but it sleeps at least a millisecond between two rounds of pulls *)
(* (items.c:1620-1625), so a worker that waits gets them: strong fairness. *)
(***************************************************************************)
FairSpec == /\ Spec
            /\ SF_vars(WorkerStep)
            /\ \A a \in Threads : SF_vars(PullStep(a))

-----------------------------------------------------------------------------
(***************************************************************************)
(* Properties.                                                             *)
(***************************************************************************)

\* The items in a list, and those in the hands of a thread: moved by a pull, or
\* linked and not yet in HOT (do_item_link, lru_pull_tail).
Listed == ToSet(lru["HOT"]) \union ToSet(lru["COLD"])
Moving == {pull[a].it : a \in {b \in Threads : pull[b].at = "relink"}}
Linking == IF pc = "linkq" THEN {req.it} ELSE {}

PullType ==
  [at : {"idle", "scan", "relink", "release"}, list : Lists, evict : BOOLEAN,
   search : Nat, tries : 0..PullTries, it : Items \union {NoItem}, removed : BOOLEAN]

StoreType ==
  /\ free \subseteq Items /\ item \in [Items -> [key : Keys, val : 0..MaxSets]]
  /\ refcount \in [Items -> Nat] /\ linked \in [Items -> BOOLEAN]
  /\ chain \in [Keys -> Seq(Items)] /\ lru \in [Lists -> Seq(Items)]

LockType ==
  /\ ilock \in [Hashes -> Threads \union {NoOne}]
  /\ lrulock \in [Lists -> Threads \union {NoOne}]

WorkerType ==
  /\ pc \in {"idle", "alloc", "cold", "hot", "link", "linkq", "copy"}
  /\ i \in 0..AllocTries
  /\ req \in [key : Keys, it : Items \union {NoItem}, evicted : BOOLEAN]

HistoryType ==
  /\ sets \in 0..MaxSets /\ gets \in 0..MaxGets /\ kept \in [Items -> Nat]
  /\ last \in [Keys -> 0..MaxSets] /\ evicted \subseteq Keys
  /\ answer \in [op : {"none", "set", "failed", "hit", "miss"}, evicted : BOOLEAN]

TypeOK == /\ StoreType /\ LockType /\ WorkerType /\ HistoryType
          /\ pull \in [Threads -> PullType]

\* assoc_delete finds an item for every item that is unlinked, though SET puts
\* duplicates in the chain and it may take out another than the one unlinked:
\* a chain has as many items as its key has linked ones ("the callers don't
\* delete things they can't find", assoc.c:186).
ChainCounts ==
  \A k \in Keys :
    Len(chain[k]) = Cardinality({x \in Items : linked[x] /\ item[x].key = k})

\* Every linked item is in exactly one place - HOT, COLD, or the hands of the
\* thread that links or moves it - and nothing else is in a list, however the
\* worker's and the maintainer's pulls interleave.
LruConsistent ==
  /\ \A l \in Lists : IsInjective(lru[l])
  /\ ToSet(lru["HOT"]) \intersect ToSet(lru["COLD"]) = {}
  /\ {x \in Items : linked[x]} = Listed \union Moving \union Linking
  /\ Listed \intersect (Moving \union Linking) = {}

One(b)  == IF b THEN 1 ELSE 0
Held(x) == One(pull["worker"].it = x) + One(pull["maintainer"].it = x)

\* The count of an item is one for its allocation, one for the store and one
\* for each GET and pull that holds it: no thread loses or doubles one.
RefcountExact ==
  \A x \in Items \ free :
    refcount[x] = 1 + One(linked[x] /\ x \notin Linking) + kept[x] + Held(x)

\* No chunk that slabs_alloc may hand out is still in a chain or a list, or in
\* the hands of a GET or a pull.  An unlinked item can stay in a chain, in the
\* place of a newer one: what keeps it from being freed there is the reference
\* of its allocation.
MemorySafe ==
  \A x \in free :
    /\ \A k \in Keys : x \notin ToSet(chain[k])
    /\ \A l \in Lists : x \notin ToSet(lru[l])
    /\ pc \in {"link", "linkq", "copy"} => req.it # x
    /\ \A a \in Threads : pull[a].it # x

\* A GET answers the value of the last SET of its key, and that there is none
\* when there was none, unless an item of the key was evicted meanwhile.
FreshUntilEviction ==
  pc = "copy" /\ req.key \notin evicted => Value = last[req.key]

\* Every request is answered, whatever locks the maintainer takes meanwhile.
RequestsAnswered == pc # "idle" ~> pc = "idle"

\* "push old items out of cache when memory runs out": a SET that evicted an
\* item has its memory.
EvictionMakesRoom == answer.op = "failed" => ~answer.evicted

=============================================================================
