# Verification of the two-stage packet pipelines

The repository runs packet programs (testpmd's macswap engine, a memcached
server) on DPDK, vanilla and with a second processing stage on another core.
What is its own is the hand-over between the stages, in several variants: a ring
of persistent slots, a ready flag, a condition variable. This project models the
hand-overs, how the stages are started and stopped, and the part of memcached that
the server reaches and shares with another thread, its item store; model-checks them with
TLC; and proves with TLAPS the safety of the ring, that two of the engines forward in order, that
starting and stopping leaves nothing behind, that the memcached server answers its clients, what the condition-variable
engine keeps, and the safety of the store.

Below, `testpmd` is `src/dpdk-pipeline-scale/app/test-pmd/`, and `memcached` is
`src/memcached_dpdk_pipeline/`.

## The system

| Component | State it keeps | Operations | What makes it correct |
|---|---|---|---|
| Pipelined macswap engine, `testpmd/macswap-pipeline-scale-fix-intensity.c` | per stream a ring of 8 batches and three 64-bit cursors (submitted, completed, reclaimed); per worker `abort`, `next_queue`; `macswap_launched_workers`, `macswap_pipeline_initialized` | `pkt_burst_mac_swap` on the forwarding lcore, `macswap_worker_main` on the helper, `begin` and `end` on the main lcore | a slot has one owner; packets leave once, in order, swapped once; nobody sleeps through a completion; a stop ends and leaves nothing behind; rings outlive their users |
| testpmd forwarding lifecycle, `testpmd/testpmd.c`, `config.c`, `cmdline.c` | `test_done`, `nb_fwd_lcores`, `cur_fwd_eng`, `cur_fwd_config`, `fwd_lcores[]->stopped`, EAL's lcore states | start, start tx_first, stop, set nbcore, set fwd | every command returns; both stages of every lcore run while forwarding; the pipeline fits the configuration |
| Worker-per-queue macswap engine, `testpmd/macswap.c` | per worker `ready`, `stop`, a pointer to the poller's packet array; `thread_initialized[]` | the callback launches, posts, waits, transmits; the worker swaps and clears | the worker swaps the burst it was given before it is sent; stop returns |
| libdpdk macswap engine, `src/macswap_libdpdk.c` | one flag and one burst pointer | the same with a compare-and-swap | the burst is swapped before it is sent |
| Condition-variable macswap engine, `src/dpdk-pipeline-macswap/app/test-pmd/macswap.c` | one pending stream, mutex, condition | post, thread loop, start and stop per port | no post is lost; stop joins once |
| memcached server, `memcached/memcached/memcached.c` | parameters of one request, `work_ready`, mutex, condition | receive a burst, allocate, hand over each request, reply, send | each request gets its own response; no deadlock |
| memcached buffers, `memcached/dpdk.h` | rx and tx bursts with pointers, the mbuf pool | receive, allocate, next, send | an mbuf has one owner; the asserted buffers are there |
| memcached item store, `memcached/memcached/` `memcached.c`, `items.c`, `assoc.c`, `thread.c` | the slab class's free chunks; items with key, value, link flag, 16-bit reference count; hash chains; HOT and COLD lists; a lock per hash value and per list | `perform_set` and `perform_get` on the processing thread, with eviction when memory runs out; the LRU maintainer moves items between the lists | an item found is a live one; nothing is lost, freed in use or linked twice; a GET returns what was set; eviction makes room |
| memcached server over libdpdk, `src/memcached_libdpdk.c` | as above with atomics | as above, spinning | a response has its own size |
| memcached client, `memcached/memcached_client.h`, `.cc` | batch of requests, counts | set, get, flush, receive | a batch of responses belongs to the batch of requests |

The lcores share memory only. Main lcore and engine interact by callbacks
(`port_fwd_begin` and `port_fwd_end`, once per port) and by EAL's launch and
wait; forwarding lcore and helper by the cursors or the flag, with acquire and
release order; the stages and the NIC by the rx and tx burst calls. The server's
two threads meet in the parameters of one request; its processing thread and memcached's LRU
maintainer meet on the item and list locks. Nothing is
persisted, so there is no crash recovery to model.

The hard behaviours are: the interleaving of three lcores on one ring, the full ring
with UMONITOR and UMWAIT and their missed-wakeup race, stop flags read at
different moments by the two stages, partial transmission with retries, the start
that fails after some helpers run, the callbacks that run once per port, commands in an order
that nobody wrote a test for, flags that are shared by more actors than the code was written
for or taken down before the work is done, and in the store the two lock orders, items in
no list while they move, and duplicates of a key in a chain. `PROJECT.json` lists
them as hazards, each at its line.

## Modules

| Module | Models |
|---|---|
| `MacswapPipeline` | One forwarding lcore, its helper and the main lcore around their rings. |
| `InOrderForwarding` | Abstract: a stream receives packets and lets the oldest go, each once, swapped once; nothing is held for ever. |
| `MacswapPipeline_proofs` | Theorems about the cursors and slots of `MacswapPipeline`. |
| `MacswapPipelineHistory_proofs` | Theorems about what happens to packets, batches and sleeps there, and that it implements `InOrderForwarding`. |
| `TestpmdLifecycle` | The operator's commands: start and stop of several forwarding lcores with helpers over several ports, changes of the number of lcores and of the engine; an lcore only runs until its flag. |
| `TestpmdLifecycle_proofs` | Theorems about `TestpmdLifecycle`. |
| `MacswapWorkers` | The worker-per-queue engine: pollers, workers, one start and one stop. |
| `MacswapWorkers_proofs` | Theorems about `MacswapWorkers`, and that it implements `InOrderForwarding`. |
| `MacswapLibdpdk` | The libdpdk engine: the same with one worker, which takes its flag down first. |
| `MacswapCond` | The condition-variable engine: posting lcores, a thread per port, start and stop. |
| `MacswapCond_proofs` | Theorems about `MacswapCond`. |
| `MemcachedServer` | The memcached server's main loop, its processing thread, its mbufs and the NIC's rings. |
| `RequestResponse` | Abstract: packets are received and answered, each at most once, in order, by their own response or an empty one. |
| `MemcachedServer_proofs` | Theorems about `MemcachedServer`, and that it implements `RequestResponse`. |
| `MemcachedStore` | SET and GET over allocation, chains, reference counts, lists and locks, with the LRU maintainer. |
| `MemcachedStore_proofs` | Theorems about `MemcachedStore`. |
| `MC_*` | Instances for TLC. |

`MacswapPipeline` and `MacswapWorkers` both implement `InOrderForwarding`
(`PromiseSpec`, an INSTANCE with their `rxd` and `out`), and `MemcachedServer` implements `RequestResponse`
(an INSTANCE with its `rcvd` and `wire`). `TestpmdLifecycle` takes
from `MacswapPipeline` that a stage leaves after its stop flag is set, which
`StopCompletes` checks there; `MacswapPipeline` takes from `TestpmdLifecycle` that
both stages of its index run and that begin and end see it whole
(`BothStagesRun`, `RingsOutliveStages`). `MacswapLibdpdk` EXTENDS `MacswapWorkers` and
replaces the four steps that differ. `Processed` of
`MemcachedServer` is one request of `MemcachedStore`, whose answer does not matter to the hand-over.

### MacswapPipeline and the code

Variables have the names of the code's fields. `pc` says where each lcore is;
`rec`, `com`, `retry` and `full` are locals of `macswap_drain_completions`,
`macswap_transmit_batch` and the callback, and `woken` is what UMONITOR saw.
`rxd`, `swaps`, `out` and `stats` record what happened to packets. An action makes at most
one access to a cursor that another lcore writes, so TLC explores every
interleaving of those accesses. Sequential consistency is enough: each cursor
has one writer, is stored with release and loaded with acquire order, and slots
are only touched between such a load and the store that passes them on.

| Code | Actions |
|---|---|
| `macswap_drain_completions`, `macswap_transmit_batch` | `DrainLoad`, `TxBurst` (first burst and each retry), `TxDrop`, `DrainStore`: by the forwarding lcore, and by the main lcore in `end` |
| `pkt_burst_mac_swap` | `FwdCheck`, `FwdRecheck`, `FwdRx`, `FwdPublish` |
| `macswap_wait_for_completion` | `FwdWait`, `FwdArmedCheck`, `FwdWake`, `FwdDeadline`, `FwdWoke` |
| `run_pkt_fwd_on_lcore` | `FwdNext`: streams in turn, the flag after the last |
| `macswap_worker_main`, `macswap_process_one` | `WkPoll`, `WkIdle`, `WkScan`, `WkSwap`, `WkPublish` |
| `begin`, its fail label, `end`, stop | `MBegin`, `MBeginFails`, `MFailJoin`, `MLaunch`, `MStop`, `MJoin`, `MProcess`, `MProcessed`, `MFree` |

Packets are numbered in the order the NIC delivers them, and a batch is the range it
holds. `flush_fwd_rx_queues`, the burst-size and cycle statistics, and the tuning
knobs of the swap's intensity are left out; tx_packets is counted with each burst
instead of at the end of the batch, which no other lcore can see.

### TestpmdLifecycle and the code

`Start` to `Launch` follow `start_packet_forwarding`; `Begin`, `Build`,
`LaunchHelper`, `Fail`, `FailJoin` and `Free` are `macswap_pipeline_begin` with its goto and
`macswap_pipeline_free`; `Stop`, `Join`, `End` are `stop_packet_forwarding`. `SetNbCores` and
`SetFwd` are the two commands: the first is refused while forwarding but sets up the
configuration all the same, as every `set` command does (`cmd_set_parsed`); the second only sets
`cur_fwd_eng`, at any time. An lcore is a
job (`lcore_config[].f` and `arg`) or idle. The helper table is compiled in, so it is a variable
that Init chooses from `Placements` and nothing changes. An engine is a record: whether it has
begin and end callbacks (`callbacks`, the pipelined one) and how many bursts a start tx_first
asks of it. `SwitchWhileForwarding` says whether the operator types set fwd while forwarding:
`lifecycle_engines` shows what holds if not, `lifecycle_reconfig` what happens if so. `nb_q` is the number of queues in use per port, the lesser of `nb_rxq` and `nb_txq`, which `SetQueues` (`port config all rxq`) changes with the ports
stopped; `CappedLcores` is the cap that `fwd_config_setup` puts on the current lcores, by the streams, in simple mode (one queue: one stream per port) and in RSS mode. Zero lcores are no value
of `nb_fwd_lcores`: `set nbcore 0` is accepted and ends in the division of `config.c:3118` by the number of lcores, in the same command, so begin's own
test for zero (line 626) never sees one. Left out: DCB and the icmpecho mode of that setup, the checks at
the top of start that refuse it without a change of state, the global `tx_first`
of the command line (begin refuses it), and the other settings of ports.

### MacswapWorkers and the code

`PCheck` to `PNext` follow `pkt_burst_mac_swap` line by line, with the launch at first
use; `WPoll`, `WSwap`, `WClear` follow `macswap_thread_func`. A poller's array is on
its stack, so `work` keeps whose array the worker was given and `burst` what that
array holds now: the worker swaps the latter. The retries of a transmission are one
step, as no lcore looks at the burst meanwhile. The model ends in the join of a stop, which
never completes. The three stores of `PWrite` and the memset of `PInit` are one
step each; they could be seen half done only where two pollers share a worker, and there
the engine fails anyway. `WorkersNotShared` states that they do not, `LcoresApart` that no worker's lcore is
a poller's or another worker's; the run's instance satisfies both (`InstanceApart`).

### MacswapLibdpdk and the code

`LCheck` goes to the launch without initializing the data, which is zero from the start; `LWrite` does not
wait for previous work; `LTake` is the compare-and-swap of the worker's loop, which
clears the flag, and `LSwap` swaps only then. The other steps are those of `MacswapWorkers`. There
is one set of data for every caller, `NUM_CORE = 1`.

### MacswapCond and the code

`TTest`, `TTake`, `TProcess` are `macswap_thread_func`: the loop's test, the critical section up to
and after `pthread_cond_wait`, and what the thread does with the stream it took. `Post` is
`pkt_burst_mac_swap`, `FTest` the loop around it. `MStart` to `MJoin` are testpmd's start and stop
with `mac_swap_start` and `mac_swap_stop`, once per port and, in `MStart` and `MLaunch`, once per tx-only
burst; `macswap_thread` keeps only the thread created last. Joining a thread twice is undefined;
the model lets the second join succeed, so the violation it finds does not rest on it.

### MemcachedServer and the code

`MRecv` is `RecvOverDPDK`: `Receive` takes a burst, frees the foreign packets and keeps the others, in
order (`Picked`, the loop that packs `rx_mbufs`). `MAlloc` is `AllocateDPDKTxBuffers`, `MNext` the two `GetNext`
functions with their assertions, `MPost` and `MWake` the critical section of the main
loop up to and after `pthread_cond_wait`, `MReply` the header and the free, `MSend`
is `SendBatch`; `Work` is an iteration of `memcached_thread_func`. All shared
parameters are read and written under the mutex, except `rsp_pckt_size`, which the
main loop reads after the unlock, when the thread has nothing to do; so a
critical section is one step. External, and modelled from their use: the driver, which
posts mbufs from the pool for those it delivers, and frees sent mbufs late, when it is asked to
send; the pool, a FIFO; condition variables with spurious wake-ups. The number of a packet
stands for its content, its client and the size of its response. `Processed` is
`process_through_memcached`: it writes a response to the SET or GET and returns its size, or, if
the packet lacks the magic, leaves the buffer as it is and returns 0, after which the main loop
still addresses and sends that buffer. Which of the two a packet is, is decided when it is
processed. An opcode that is neither SET nor GET, whose size is undefined, and the place of a
GET's value in the response are not modelled. The end of the loop on
a signal is left out: nothing follows it but the end of the process.

### MemcachedStore and the code

| Code | Actions |
|---|---|
| `lru_pull_tail` | `PullStart` (the list's lock), per item `PullSkips` (trylock fails), `PullEvicts`, `PullMoves`, `PullLeaves`, or `PullFindsNone`; `PullRelinks` (`item_link_q`), `PullReleases` (`do_item_remove` and unlock) |
| `do_item_alloc_pull` | `Alloc`, `AllocPulls`, `AllocFails` |
| `perform_set` | `Set`, then the above, then `Link` and `LinkQ` (`do_item_link` with `assoc_insert`) |
| `perform_get` | `Get` (`assoc_find`, `refcount_incr`), `Copy` |
| `lru_maintainer_juggle` | `Juggle`, then the pull |

A step of the list walk holds the list's lock, so what it reads there is one step; item
locks are only tried by a pull, since SET takes an item lock before a list's. The values are
numbered by SETs, 0 is none. `assoc_delete` removes the first item of the key in the chain, whichever item is
unlinked, and SET does not look for an older item. HOT and COLD only: WARM is reached by items that the text protocol's GET bumps.
Left out because nothing the DPDK loop starts reaches them: expiry, flushes and hash table growth wait for the clock that the
event loop drives; the crawler and the slab rebalancer run at most once per tick of it. The 16-bit count does
not wrap for `MaxGets + 4 < 2^16` (`RefcountFits`), and is a natural number here.

## Runs

| Run | Instance | What it shows |
|---|---|---|
| `pipeline_single` | 1 stream, depth 2, 5 packets, bursts up to 2, 1 retry, UMWAIT | All safety properties, `GivenBatchesStable`, that a stop ends, that until a stop every sleep is ended by a completion, and `PromiseSpec` |
| `pipeline_multi` | 2 streams, depth 2, 2 packets each, bursts of 1, no retry, UMWAIT | `FullInv`, the invariant of the proofs, with the round-robin scan; a stop ends and the engine implements `InOrderForwarding` although the helper may leave while the forwarding lcore sleeps |
| `lifecycle_engines` | up to 4 forwarding lcores, 3 helper slots, 3 ports of 1 or 2 queues, three helper tables, the pipelined and another engine with up to 2 bursts of tx_first | Both stages run, rings outlive them, a failed start leaves nothing behind, every command returns, start tx_first of the other engine included |
| `lifecycle_tx_first` | the same, pipelined, 1 burst | Violated: start tx_first never returns |
| `lifecycle_reconfig` | the same, set fwd while forwarding | Violated: a later start forwards without helpers |
| `workers` | 2 pollers, 2 workers, 3 streams, 2 packets each, bursts up to 2 | The handshake and `PromiseSpec` where pollers do not share workers |
| `libdpdk` | 1 poller, 1 worker, 2 packets | Violated: a packet leaves unswapped |
| `cond` | 2 ports, 2 streams, 4 threads | Violated: a stop never returns |
| `memcached` | rings of 4, bursts up to 2, the pool of both rings, 4 packets, up to the first allocation that fails | Every mbuf is in one place, the server implements `RequestResponse`, every burst that got its buffers is completed, and an allocation fails only while the tx ring holds too many mbufs |
| `memcached_pool` | the same rings, bursts and pool, 6 packets, beyond a failed allocation | Violated: a response buffer is missing |
| `store` | 2 items, 2 keys, 3 tries of the allocation, 2 of a pull, 3 SETs, 2 GETs | Chains, lists and counts stay consistent, nothing is used after it is freed, a GET is fresh until an eviction of its key, every request is answered |
| `store_full` | the same | Violated: a SET evicts an item and fails all the same |

**Bounds.** `MaxPkts` bounds the packets of a stream; cursors grow with it and
nothing else is unbounded. Five packets with depth 2 take the cursors more than two laps
round the ring, with full and partial bursts, a full ring, retries that run
out, and a stop at any moment, after which the engine can begin again. The
depth of the code is 8 and only enters as a modulus; the proofs hold for
every depth. The cursors are 64 bits wide and do not wrap in the life of a
process, so they are natural numbers. Two streams show the scan, three would show no
new relation of two lcores. Four forwarding lcores are one more than the three helper
slots (8 in the code), which begin refuses. Three ports give a first, a middle
and a last callback. One queue per port caps four lcores at three, two do not.
The server's pool has 8 mbufs for two rings of 4, the code's 2048 for two of 1024 (`dpdk.h`), and two bursts fit a ring, as in the code;
4 packets bring the pool to be short of a burst of one and of two, and the bound of `ShortOnlyIfTxHolds` is reached: one less and TLC finds it violated.
Three SETs over two items fill the memory and then evict; two keys give duplicates of one
key and items of the other between them; the tries of an allocation (10 in the code) must
outlast one eviction per list, and those of a pull (5) one item that is locked. The proofs of the store hold for all of these.
`MaxThreads` of `MacswapCond` allows two starts over two ports.

**Deadlock** is checked in all passing runs. The runs that do not check it are those that
end in a violation, some of whose programs really stop.

**Fairness.** Each lcore is a pinned thread that runs all the time, so each has weak
fairness, and so has the main lcore inside a command. The commands come from an operator
and have none: they may never come. So do requests and spurious wake-ups. The NIC may deliver nothing and take nothing for ever.
The deadline of UMWAIT is one second of TSC. `FairSpec` leaves it out, and a property that needs
it says so (`DeadlineExpires => ...`): a stop needs it and so does `PromiseSpec`,
`SleepEndsUntilStop` does not, which shows that the wake-up protocol works without it. Without UMWAIT
(`WaitPkg = FALSE`) the lcore pauses and tests again, which is a sleep whose deadline passes at once.
`AllocatingSpec`, the specification of `memcached`, is `FairSpec` without the steps in which an allocation fails: its behaviours are the server's up to there, and
its main loop is under no obligation to go on where the allocation would fail. `BurstsComplete` therefore starts at a burst that got its buffers.
In the store the locks are mutexes that the maintainer takes again and again, but it sleeps at
least a millisecond between two rounds (`items.c:1620-1625`), so a worker that waits gets its
lock: strong fairness. The maintainer need not start a pull, only finish it.

## What the checks found

- *start tx_first with the pipelined engine* (`lifecycle_tx_first`). `begin` launches
  the helpers; `start_packet_forwarding` then waits for all worker lcores after each tx-only burst,
  helpers included, which run until a stop. `begin` refuses the global
  `tx_first` ("macswap pipeline does not support --tx-first"), not the argument of the command.
- *set fwd while forwarding* (`lifecycle_reconfig`). A refused `set nbcore` after it makes the new engine
  the current one, so stop does not call the pipelined engine's end. Its pipeline survives, the next start of it
  returns early from begin, and the lcores forward into rings that nobody swaps.
- *The libdpdk engine* (`libdpdk`). The worker clears the flag, then swaps; the poller, which waits for the
  flag to be clear, sends the packets as they came or while they are rewritten.
- *The condition-variable engine* (`cond`). With two ports there are two threads and one name. stop
  signals one thread and joins another. With one port it joins the one there is (`OnePortStops`), but a post that nobody took
  survives the stop and may be the first that the next start's thread works on, whatever has become of the stream.
- *Workers of the worker-per-queue engine.* The worker is chosen by the rx
  queue alone. Where queue 0 of two ports, on two lcores, is one worker, neither its
  initialization nor its flag is exclusive; `WorkersNotShared` is what the run and the proofs assume. Its worker
  lcores must be apart from the pollers', too: the table compiled in lists the lcores testpmd polls on by default,
  where EAL refuses the launch and the callback exits the program. No code sets the flag that ends a
  worker, so a stop, which waits for every worker lcore, does not return; the model ends there.
- *The packet pool of the memcached server* (`memcached_pool`). It has one mbuf per
  descriptor of the two rings. While the driver has not yet freed sent mbufs, nothing
  may be left for a burst of responses; the failed allocation is ignored, and the loop writes into
  buffers that it has sent before or fails its assertion. `ShortOnlyIfTxHolds` says when: only while fewer of the tx ring's
  descriptors than two bursts are free of mbufs. A driver that keeps sent mbufs until its ring is nearly full gets there; with one that never holds more than
  768 of the code's 1024 descriptors no allocation fails (`AllocationsSucceed`).
- *Evicted items are never freed* (`store_full`, and for every number of items the theorem `NothingIsFreed`). `perform_set` keeps the
  reference that the allocation returned, so the count of an unlinked item stops at one. Once the memory is used
  up, each SET unlinks an item and fails. The same reference keeps an item that was unlinked in another's place
  from being freed while it is still in its chain (`MemorySafe`): releasing it alone would turn the leak into a use after free.
- *GET.* It does not release its reference, so the 16-bit count wraps after some 65,000 GETs of an item. After
  the eviction of an older duplicate a GET finds a stale value or none (`FreshUntilEviction` says "until").
  The value is copied at another offset than its size is counted for (`memcached.c:204`).
- *The libdpdk memcached server* has the hand-over of the libdpdk engine (`memcached_libdpdk.c:4897`).
- *A tx-only begin that fails* (`testpmd.c:2358`) returns with the helpers running. The pipelined engine gets there
  only with start tx_first, which does not return anyway.
- Not a fault, and not obvious: a helper may leave on a stop with a stale read of
  `submitted` while the forwarding lcore goes to sleep on a full ring. Only the UMWAIT
  deadline wakes it, so a stop may take a second (`SleepEndsUntilStop` says
  "or stopped" for this). With several streams the helper leaves on the first stop it
  sees and `end` does the rest.

## Proofs

### The pipeline

`MacswapPipeline_proofs` and `MacswapPipelineHistory_proofs` hold for every number of streams, ring depth,
packet, burst and retry bound, with and without UMWAIT (`PipelineAssumption`
only asks for positive numbers where the code has them):

| Theorem | States |
|---|---|
| `Inductive` | `Spec => []IndInv` |
| `TypeCorrect`, `CursorsOrdered` | `TypeOK`, `CursorOrder` |
| `SlotOwnershipHolds` | No two lcores are in one slot |
| `RxIntoFreeSlotHolds` | A burst is received into a slot that holds nothing in flight |
| `NoUseAfterFreeHolds` | Nobody runs the engine's code on freed rings |
| `DrainAlwaysMakesRoom` | The second full-ring test never sends the callback home |
| `FullInductive` | `Spec => []FullInv`: `IndInv` and the history of the packets |
| `InOrderOnceHolds`, `SwappedOnceHolds`, `StatsBalancedHolds` | Packets leave once, in order, swapped once, and are accounted for |
| `NoMissedWakeupHolds` | Nobody sleeps past a completion |
| `GivenBatchesStableHolds` | A batch does not change from its submission to its completion |
| `PromiseKept` | `Spec => Promise!Spec`, the refinement of `InOrderForwarding`, without its fairness |

`CursorOrder` is not inductive. That a drain does not reclaim too much depends on its
locals (`rec < com`, and `com` no later than `completed`: `DrainLocals`), that rx
does not overfill on what the full-ring test left known (`FwdLocals`), that the
helper completes what was submitted on `WkLocals`, and that the main lcore may
use the same drain on `MainLocals`: both stages are off, the rings drained so far are
empty. `BatchesValid` bounds a batch by what was received, which types `out`.
`IndInv` is their conjunction. The proof has a lemma per action;
for the actions that move one lcore without touching the ring, `QuietFwd`, `QuietWk` and
`QuietMain` do the common part once. Slot ownership then follows from the cursor
order and `SlotsDiffer`: numbers less than DEPTH apart have different slots, and so does `GivenBatchesStableHolds`.

What happens to packets needs more. Each lcore is at some batch: a drain at `At`, the helper up to `Done`, the
reception up to `Top`, with reclaimed <= At <= completed <= Done <= submitted <= Top. `HistoryInv` says that
the batches from At to Top follow one another without a gap (`BatchesFollow`), that what has left is exactly
what comes before the rest of the batch at At (`LeftInOrder`), that the packets up to Done have been swapped once and the others not
(`SwappedSoFar`), and that the statistics lack just the packets held (`HeldCounted`, `IdleEmpty`). Each action
then moves one of the three places by one batch, or moves packets of the batch at At out. `PromiseKept` reads the
abstract steps off: a reception into Top, the packets of At that leave, everything else a stutter.
`NoMissedWakeup` is inductive over `IndInv`.

### Starting and stopping

`TestpmdLifecycle_proofs` holds for any lcores, helper slots, helper tables, ports and engines, if the operator does not
set fwd while forwarding and a start of an engine with callbacks has no tx_first (`PlainUse`, which `lifecycle_engines`
satisfies; `lifecycle_reconfig` and `lifecycle_tx_first` show what happens without it):

| Theorem | States |
|---|---|
| `LifecycleInductive` | `PlainUse /\ Spec => []LifecycleInv` |
| `LifecycleTypes` | `TypeOK` |
| `RingsOutlive` | No queue is freed while a stage of its index runs |
| `StagesRun` | While forwarding both stages of every index run, on lcores of their own |
| `NothingLeft` | A stop, or a start refused half way, leaves no lcore running and no memory held |

`NothingLeftBehind` speaks of the prompt only, so `Stages` says what there is of the pipeline at each place of the main
lcore: nothing (`Clean`), the queues of the workers before `w` (`Building`), those of all and the helpers before `w`
(`Launching`), all of it (`Running`), or all of it with helpers that may have left (`Built`). `Jobs` says which lcore may
run what: a helper was launched by begin on the lcore of its index, so the join of those launched in `FailJoin` is
the join of every lcore that runs, and the launch of the forwarding lcores finds them idle, since no helper's lcore forwards (`Placed`).
`Commands` says that the configuration does not change between a start and its stop.

### The worker-per-queue engine

`MacswapWorkers_proofs` holds for any number of pollers, workers, streams, packets and burst size, if no two pollers
share a worker and the worker lcores are apart (`Apart`):

| Theorem | States |
|---|---|
| `WorkersInductive` | `Apart /\ Spec => []WorkersInv` |
| `WorkersTypes` | `TypeOK` |
| `LaunchesSucceed` | No callback launches a worker on a busy lcore |
| `HandoffsExclusive` | While a worker swaps, the poller that gave it the burst waits with it |
| `TransmitsProcessed` | What leaves has been swapped exactly once |
| `WorkersKeepPromise` | `Apart /\ Spec => Promise!Spec`, the refinement of `InOrderForwarding`, without its fairness |

`WorkersInv` ties the two sides together: a worker has work (`ready`) only while its poller waits for it, and is at that
work only while `ready`; a burst that is held is the last one received, and its packets are swapped once or not at all, as
the places of poller and worker say.

### The store

`MemcachedStore_proofs` holds for any set of items, keys and locks, any number of tries, and any number of SETs and of GETs
below the wrap of the count (`StoreAssumption`, `RefcountFits`):

| Theorem | States |
|---|---|
| `StoreInductive`, `StoreTypes` | `Spec => []StoreInv`, `TypeOK` |
| `ChainsCount` | A chain has as many items as its key has linked ones |
| `ListsConsistent` | A linked item is in one place of one list or in the hands of one thread |
| `CountsExact` | A reference count is the sum of the references |
| `NoUseAfterRelease` | No free chunk is in a chain, a list or the hands of a thread |
| `GetsFresh` | A GET is fresh until an item of its key is evicted |
| `NothingIsFreed` | No step gives a chunk back |

`StoreInv` adds to the six invariants of the run what each thread holds at each of its
places: a pull between scan and release has the lock of its item, which is in use, and of its list while it scans, and its place in
the list is within it (`PullsInOrder`); a SET has its item, not yet linked or just linked (`WorkerInOrder`). That an item that is moved or linked is in no list, and the same
item in no two hands, then follows from the item locks. `FreeUntouched` and `ChainsFresh` (the head of a chain that lost nothing is the last value set) close the
induction. That unlinking always finds an item in the chain is `ChainCounts`; that the count never comes to nothing, so that
`ItemRemove` never frees, is `RefcountExact`, whose 1 for the allocation is the finding of `store_full`.

### The condition-variable engine

`MacswapCond_proofs` holds for any number of ports, streams, tx-only bursts and threads, if at least one port
(`CondConstants`):

| Theorem | States |
|---|---|
| `CondInductive` | `CondConstants /\ Spec => []CondInv` |
| `PostsAttended` | `NoPostLost`: no post is slept through |
| `OnePortStops` | `OnePort /\ CondConstants /\ Spec => [](OneThread /\ JoinEnds /\ NoThreadLeft)` |

`NoPostLost` needs that somebody is there at all while the engine runs (`Served`): a thread only leaves when the flag is down, and goes
to sleep only when no stream is posted, in the same critical section. `Room` bounds the threads of a start that is under
way. `OnePort` (one port, no tx-only burst) is where the engine is begun once in a start: then the thread created last is the only one
(`Alone`), so a signal for it finds it. `JoinEnds` is the safe half of `StopReturns`, which `cond` refutes for two ports.

### The memcached server

`MemcachedServer_proofs` holds for any rings, burst size, pool (of at least the two rings, `ServerAssumption`) and number of
packets:

| Theorem | States |
|---|---|
| `ServerTypes` | `Spec => []TypeOK` |
| `ShortagesExplained` | `Spec /\ []AllocSucceeds => []ShortOnlyIfTxHolds` |
| `AllocationsSucceed` | `Spec /\ []TxReclaimed => []AllocSucceeds` |
| `MbufsStayAccounted` | `Spec /\ []AllocSucceeds => []MbufsAccounted`: each mbuf is in one place |
| `WireStaysCorrect`, `AssertionsHold` | The same for `WireCorrect` (what left is in order and right) and `AssertsHold` |
| `ServerKeepsPromise` | `Spec /\ []AllocSucceeds => PromiseSpec`, the refinement of `RequestResponse` |

The code creates a pool for the rings alone (`dpdk.h`, and at least that is `ServerAssumption`), with which an allocation can fail, and `memcached_pool` shows what follows.
The theorems under `[]AllocSucceeds` say that this is the only thing that goes wrong: up to the first allocation that fails nothing
else does. Their behaviours are those of the run: `AllocatingSpec => Spec /\ []AllocSucceeds` (`AllocatingRuns`). `TxReclaimed` asks that the tx ring always
has room for two bursts beside the mbufs it holds, sent or not. The code does not see to it: it is up to the NIC and how early its driver
frees. (A run without such a failure can stutter for ever, so what is proved of whole runs holds of it up to there.)

`MbufsAccounted` compares the length of the concatenation of all places with the number of mbufs, and
its set of elements with all of them. A step moves mbufs from one place to another, which is easier to follow place by place (`Spread`): the
lengths add up and the sets cover. That no mbuf is in two places (`Apart`) follows from the two together: a sequence as long as the
set it covers has no element twice (`OnceByLength`). It is what keeps a write to one buffer off every other.

`WireCorrect` is not inductive: it says nothing of answers that have not left yet. `FlowInv` takes up all packets from the wire back to those
not yet processed: what was sent, the mbufs in the tx ring, those replied to and not yet given to the NIC, the requests held. The
numbers of their packets, in this order, rise (`LineRises`); the steps of the NIC and of the reply leave that line as it is, a send cuts its end off, and a
reception appends greater numbers. `AnswersRight` says that the answers on the way are right, `Answered` what of the request in hand is
done at each place of the two threads, `Bursts` how the burst pointers go together, `RingsFit` that the rings hold what they
have room for. `ShortagesExplained` adds the places up: with `pc` at the allocation an mbuf is in the pool, in the rx ring, in the burst or on the tx side, and the rx ring has no more than its share; `AllocationsSucceed` is that fact as an induction, as nothing else makes `failed` true.

### Only model-checked

The libdpdk engine, whose property fails. That a stop of the condition-variable engine does return with one port is liveness: what is
proved is that the thread it joins is awake. Liveness under fairness
(`StopCompletes`, `SleepEndsUntilStop`, `CommandsReturn`, `BurstsComplete`, `RequestsAnswered`, the
liveness of the engines' `PromiseSpec`) stays with TLC: the provers have no ENABLED.

## Not modelled

- DPDK, which the repository holds several times over, with drivers for every NIC: upstream code, of which the models use what rx and tx bursts,
  launch and wait do. It is nearly all of the source lines, so the share of lines the models stand for is tiny
  whatever is modelled of the rest.
- The rest of memcached: the event loop, the other protocols, expiry, crawler, slab rebalancing. The DPDK loop does not reach them.
- The memcached server over libdpdk: its hand-over is that of `MacswapLibdpdk`, with other data.
- The memcached client, a load generator that waits for its batch with no timeout or retry: one lost response and it
  waits for ever, which needs no model to see.
- The sequential variants, where nothing is handed over, and the two-thread testpmd, which calls the
  forwarding loop on the main lcore.
- The rewriting of the headers: the models count how often it is applied to a packet.
- The pcap generator and the gem5 hooks.

## Plan

What is left: `MemcachedServerSpin`, the libdpdk server, over `RequestResponse`.
