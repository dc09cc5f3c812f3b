# A TLA+ model of wcache

wcache is a Linux kernel module (for Linux 5.9, see `wcache/Makefile:7`) that sits on the
path between HTTP clients and a server as a pair of netfilter hooks. It keeps the responses
to GET requests in a red-black tree keyed by path and answers a repeated request itself,
with a packet it builds. Around it the repository holds the programs that fetch a page
(`client/`), an earlier hook that answers with a fixed page (`hook/`, `hook/final/`), and a
handful of small modules that try out kernel threads, wait queues, timers, lists and sysfs.

This directory models that code in TLA+, checks it with TLC and proves the main results with
TLAPS. Paths below are relative to `src/`, line numbers to the files in it.

Contents: [inventory](#1-inventory), [modules](#2-modules-and-what-they-stand-for),
[runs](#3-what-is-checked), [fairness](#4-fairness), [proofs](#5-what-is-proved),
[disagreements with the code](#6-where-the-code-does-not-do-what-it-says),
[what is not modelled](#7-what-is-not-modelled), [plan](#8-plan).

## 1. Inventory

| Part | Source | State | Operations | Talks to |
|---|---|---|---|---|
| object store | `wcache/rb_tree.c`, `wcache/wcache.h` | `obj_tree`, the kernel heap, `used_space`, `free_space`, `obj_count`, `temp_object` | `obj_create`, `obj_search`, `node_search`, `node_insert`, `node_delete`, `node_path_delete`, `tree_delete`, `cache_update` | called by the hooks, by `test.c` and by `wcache_exit` |
| replacement | `wcache/rb_tree.c:136-156` | the `time` of each object | `node_least_recently_used_search`, `node_least_recently_used_delete` | its calls in `obj_create` are commented out |
| hooks | `wcache/hook.c` | `temp_path`, the path of the last GET that missed; references on the device | `watch_in` on PRE_ROUTING, `watch_out` on POST_ROUTING | the store; netfilter; `dev_queue_xmit` |
| life of the module | `wcache/wcache.c`, `wcache/sysfs.c` | registered hooks, `my_cache_kobj` | `wcache_init`, `wcache_exit`, one kernel call after the other | the hooks run between its calls |
| clients, server, network | `client/*.c`, `client/test.sh` | connection, what was read | write a request, read until `read` returns 0 | TCP, the hooks |
| fixed answer | `hook/final/sample.c` | two global numbers of the last GET /index.html | `watch_in`: swallow the request, answer a FIN | clients through TCP |
| two threads | `wait/wait.c` | `condition`, a wait queue, two tasks | wait, set and wake; stop on rmmod | `kthread_stop`, `wake_up_interruptible` |
| one waiting thread | `people/people.c` | the same with one task | wait in a loop; insmod wakes it twice | the same |
| single answer | `hook/sample.c` | the registered hooks; a buffer for every packet | `watch_in`: answer GET /index.html with a fixed page; `watch_out`; insmod, rmmod | clients through TCP |
| a thread that sleeps | `list/ink.c` | a task, the turns of its loop | go to sleep, look for the stop request | `kthread_stop` |
| deferred calls | `jiffies/`, `tasklet/` | a timer, a tasklet | insmod arms it, rmmod deletes the timer | an interrupt calls the function |
| resources | `list/list.c`, `buffer/`, `sysfs/` | a list, a buffer, a kobject with its attributes | insmod, rmmod | `kmalloc`, `vmalloc`, sysfs |
| URL logger | `hook/url` | none | print | netfilter |

What is hard about it:

* *Two hooks and one variable.* A response is stored under the path that `watch_in` left in
  the global `temp_path`; the two packets belong together only if nothing came in between.
* *No lock anywhere.* On an SMP kernel (the `.ko` files of the repository are built for one)
  the hooks run on several CPUs at once, and change the tree, the counters and `temp_path`.
* *Interleaving with rmmod.* The hooks run in softirq context between any two steps of
  `wcache_exit`, which empties the tree before it unregisters them.
* *Failing calls.* Every `kmalloc`, `alloc_skb`, `skb_linearize`, `dev_queue_xmit`,
  `dev_get_by_name`, `nf_register_net_hook` and sysfs call may fail, and few results are
  looked at.
* *Memory.* A path string passes from `temp_path` to an object, is its name and its path at
  once, and is freed with it; `tree_delete` asks `rb_next` about a node it has freed.
* *Widths.* `free_space` is an unsigned difference and nothing bounds what is subtracted.
* *The network.* Packets are lost, duplicated and reordered; the answer from the cache
  carries the first packet of a response only, and no FIN.
* *Lost wake-ups* in the modules with threads: a flag, a wait queue and a stop request.
* *What runs after rmmod*: a timer's callback, a tasklet, a thread.

What makes each part correct, in the words of the properties below: the counters say what the
tree holds; keys are unique and objects are found; what waits to be stored is alive and
uncached; nothing that was created is lost; what is served for a path was stored for it, and
is what the server has; what a client reads is a prefix of the response; who asked is
answered; rmmod ends, with an empty tree and without a thread or a resource left over.

## 2. Modules and what they stand for

`PROJECT.json` maps every definition to its lines.

### The store: `CacheStore`

The heap is two partial functions, `obj_heap` and `str_heap`, from addresses to contents; a
`kfree` removes an address, and using an address that is gone is recorded in `fault`
(`use_after_free`, `double_free`, `null_deref`, ...). A path's text is its rank in `strcmp`
order, so the order of the tree is the order of the ranks; the shape of the tree is left out.
Counters are computed modulo `SizeT`, as `size_t` is.

`obj_create`, with its three failing variants (no memory, no buffer, path taken),
`obj_search`, `node_path_delete` and `tree_delete` are actions. `tree_delete` takes two steps
for each node: `node_delete` frees the strings, then unlinks and frees the object; then the
walk asks `rb_next` about the freed node. `Freed` says what it can find there: the old
content (`"intact"`) or whatever somebody wrote there (`"overwritten"`). SLUB of Linux 5.9
keeps its free pointer in the middle of a freed chunk, where a `struct object` has its `time`,
and leaves the links of the node alone; but the chunk may have been handed out again, and a
kernel may clear or poison what is freed. On its own, `CacheStore` is the store as one thread uses it, which is what
`wcache/test.c` does; `WcacheHooks` puts the same operations under the hooks.

### Replacement: `LruStore`

The functions of `rb_tree.c:136-156` as one more operation of the store, with a history
variable `last_use` that records when each path was really last used. The loop over the nodes
is the recursive function `oldest`. Its run is also the run
of the store: it has every action of `CacheStore`, and checks the properties of both.

### The kernel module: `WcacheHooks`, and what it promises: `ResponseCache`

`pc` is the thread of insmod and then rmmod, with one step per kernel call
(`wcache_init`, `wcache_exit`). `watch_in` and `watch_out` are one action per exit of the
function: hit, miss, pass, not linear, no memory, and so on. A hook is one atomic step: on one
CPU a softirq is neither preempted nor nested. This is the main abstraction of the module; `HooksSmp`
has the hooks without it. No hook runs after a
memory fault, for in softirq context it takes the kernel down; the thread of rmmod does go on,
as a double free it makes is usually survived.

`ResponseCache` is the abstract specification: a set of pairs of path and body, one pending
path, and the last answer. `WcacheHooks` implements it under

    store   <- the pairs of path text and body of the linked, readable objects
    pending <- the text behind temp_path
    answer  <- the packet watch_in sent itself
    open    <- tree_delete has not begun

(`Cache == INSTANCE ResponseCache WITH ...`, `CacheRefined == Cache!Spec`): what is served
for a path is what was filled in for that path, nothing leaves the cache before rmmod, and a
path is filled at most once.

### Several CPUs: `HooksSmp`

`watch_in` and `watch_out` with one step for each access to what the CPUs share: the string
goes to `temp_path`, the URL is copied to what `temp_path` points to by then, `node_search`
reads it once more; `watch_out` tests `temp_path` and passes what it has read to
`obj_create`; the descent of `node_insert`, the link, and the reads and writes of
`cache_update` are steps of their own. It is cut down to the exits that get through, and to
responses of one byte; the comment at its head says how a descent that has become
stale is abstracted. On one processor it implements `ResponseCache` (`HooksAtomic`), with an
effect in one of its steps only: a miss when `node_search` returns, a hit when the answer
goes out, a store when the object is linked. That no lock is needed there is what
`WcacheHooks` takes for granted.

### Around the hooks: `HttpFlow`, `Tcp`, `WcacheTcp`

`HttpFlow` extends `WcacheHooks` with clients that send a request at a time, a server with
fixed content, and a network that reorders, loses and, with `Duplicates`, retransmits.
Requests and responses are one packet each; the module stays loaded. The hooks have all the
exits they have in `WcacheHooks`; one that ends in a memory error returns nothing, so that its
packet is gone. `WebService` is what the clients see of the server with nothing in between, and
with one client `HttpFlow` implements it (`Transparent == Service!Spec`).

`Tcp` has the programs of `client/`, which do the same thing here (connect, write, read
until 0, close), and as much of TCP as decides what they read: the number expected next, the
request that is sent again until acknowledged. `WcacheTcp` puts the hooks on the way at that
level: which packet of a response is stored (the one that begins with the status line), what
the reply carries, and at which number. The store is cut down to one page.

### Other modules of the repository

* `FinalHook`: `hook/final/sample.c` with its clients, TCP and server. Sequence numbers are
  those of the server's side; `FinalAssumption` says that connections have numbers of their
  own, as random initial numbers do but for an accident. Nothing in `client/` sends its FIN
  before it has read; such clients are external. `index`, the connections that ask for
  /index.html, is chosen at the start. A client's FIN is never acknowledged, so that it may come
  to the hook at any time; so may a copy of the server's response, once the server has the
  request. Neither is kept as a packet: only what the hook sends is in `arriving`.
* `SampleHook`: `hook/sample.c` on top of `Tcp`: both hooks, and `sample_init` and
  `sample_exit` call by call while clients fetch their pages. The fixed page takes one number,
  as the first packet of a response does (it has the length of the page it stands for).
  Which connections ask for /index.html is chosen at the start.
* `Kthread`: kernel threads and one wait queue, external, at the granularity of
  `prepare_to_wait_event`, the second look at the condition, `set_current_state`, `schedule`,
  `finish_wait`, `kthread_stop`. `WaitThreads` (`wait/wait.c`), `PeopleThread`
  (`people/people.c`) and `InkThread` (`list/ink.c`) are built from it. A `msleep` is no more
  than the next step, which may take any time.
* `Deferred`: `jiffies/jiffies.c` and `tasklet/tasklet.c`, a function that is armed, called on
  some CPU, and deleted or not.
* `Resources`: `buffer/`, `list/list.c` and both modules of `sysfs/`, as what insmod takes and
  rmmod gives back, one kernel call per step, each of which may fail.
* `Examples` composes `WaitThreads`, `PeopleThread`, `InkThread`, `Deferred` and `Resources`: one of
  the nine small kernel modules is loaded and unloaded. They
  share no state, so that nothing is lost by looking at one at a time.

## 3. What is checked

Bounds are small because nothing in the code compares more than two objects at a time except
the walk of `tree_delete` and the search for the oldest object, which get three; the last
column says what each bound has to allow.

### Runs that pass

| Run | Properties | Bounds |
|---|---|---|
| `LruStore` | `LTypeOK`; `AccountingExact`: the counters are what the tree holds, modulo the width; `TreeConsistent`: no path twice, every object found under its path; `TreeDeleteEmpties`: the walk leaves nothing; `EvictsLeastRecent`: exactly one object goes, and none that stays was used earlier | 3 objects and paths, sizes 0 and 2, capacity 1 of 4: the counters pass the capacity and wrap around; clock 0..1: equal and different times |
| `WcacheHooks` | `HTypeOK`, `AccountingExact`, `TreeConsistent`, `PendingPathUncached`: the string in `temp_path` is alive, owned by no object, its text not cached; `CreatedIsLinked`: no object is lost; `CacheRefined` | 2 objects, 3 strings, 2 paths, 2 bodies: both a cached and a pending path, and one string too many; all calls may fail; freed memory overwritten |
| `HttpFlow` | `FTypeOK`; `Coherent`: what is cached is what the server has; `AnswersOwnRequest`: a client gets the content of what it asked for; `Transparent`: it sees the server alone; `AlwaysAnswered`: it is answered, unless a hook has ended in a memory error | one client, 3 paths of which one is a 404 (a pending path without a response to store), GET only; packets and replies are lost, allocations fail, a hook may fail to register |
| `WcacheTcp` | `WTypeOK`; `Intact`: what is read is a prefix of the response; `DoneComplete`: all of it, once `read` has returned 0; `ServedCompletes`: a client whose request reached the server reads to the end | 2 connections, 2 packets: a packet from the cache and one from the server meet at one client |
| `FinalHook` | `STypeOK`; `OwnPage`: nobody reads a page that is not his, or two; `Answered`: who sends its FIN early is answered if the numbers the hook keeps in the end are its own | 2 connections, each for /index.html or for another page, each of which may send its FIN while it still reads: FINs are answered under the numbers of the other one, and one GET overwrites the numbers of the other; all calls may fail |
| `SampleHook` | `MTypeOK`; `InPlace`: what is read is the response, but for a first packet of the fixed page where it was asked for; `DoneComplete`; `FirstAnswered`: every client reads something; `ServedCompletes` | one connection (connections share nothing here), 3 packets: the one the fixed page replaces, the next, and one after it; all calls may fail; the module comes and goes |
| `Examples` | `ETypeOK`; `NoneLeft`: no thread outlives its module; `WaitEnds`, `WakeSeen`: no wake-up is lost; `WaitUnloadEnds`, `PeopleUnloadEnds`, `InkUnloadEnds`; `AtMostOnce`: the loop of `ink.c` has no second turn; `NoneStarts`: no timer callback begins after rmmod; `NothingHeld`: a module that is not loaded holds nothing | the threads and calls of the code, each of which may fail |

Deadlock is checked in `WcacheTcp`, where the system goes on for ever. The other runs end in a
memory fault, in an unloaded module, or with every client done or waiting for what nobody
sends.

`AccountingExact` and `TreeConsistent` speak of `Counted`, the linked objects whose strings
can still be read: between the two steps of a deletion an object is still linked, but its
strings are freed and it is no longer counted.

Other bounds: `MaxJiffies` bounds the clock and `MaxDevRefs` the references on the device, a
counter that only grows in the code (`hook.c:44` takes one for each packet and nothing gives
it back); past the bound the count stays. `SizeT` is 4 instead of 2^64, so that the counters
wrap around within the bounds. Addresses are symmetric, for they are only compared for equality; runs with
liveness use no symmetry.

The three properties that rmmod ends have a condition each, for without it rmmod may hang
(section 6): `WaitUnloadEnds` excludes a `task_3` that alone could not be created,
`PeopleUnloadEnds` speaks of an rmmod that comes while a wake-up has not been used up, and
`InkUnloadEnds` of one that does not find the thread between `ink.c:46` and `ink.c:49`. They
say that rmmod ends everywhere else, and nothing of these windows. In the same way `NoneStarts`
says that no callback of the timer begins after rmmod, and nothing of one that runs already.

Every property is paired with a mutant of the code, a definition in the module it changes
(`... Mutant:` in its comment), with which TLC finds the property violated.

### Runs that find a violation

| Run | Property | What TLC shows |
|---|---|---|
| `flow_two_clients` | `AnswersOwnRequest` | with two clients, a response is cached under the path the other client asked for last, and later served for it |
| `hooks_capacity` | `WithinCapacity` | nothing keeps the cached bytes within `CACHE_SIZE` |
| `hooks_unload` | `UnloadEmptiesTree` | a response that comes between `tree_delete` and the unregistering of `watch_out` is stored and never freed |
| `hooks_smp` | `CountAtRest` | two responses on two CPUs, and `obj_count` is not the number of objects when both are stored: a count is lost, or a link is overwritten |
| `tcp_second_client` | `Completes` | a client whose request hits reads one packet and waits for the rest for ever |

## 4. Fairness

Safety runs assume none. The others assume only this:

* `HttpFlow`: every packet that is on its way is handled (weak fairness per packet), TCP
  sends again what was lost, and a packet that is sent again and again is not dropped every
  time (strong fairness on `ForwardKept` and `DeliverKept`). Without the last, `watch_in`
  may drop each copy because `skb_linearize` fails, and nothing is ever answered.
* `WcacheTcp`: the same for requests (`Forwarded`) and for each packet of a response
  (`Delivered`), and only while the client's TCP still lacks the packet. A client that is
  never started is no violation: `Write` has no fairness.
* `FinalHook`: weak fairness of retransmission (`Retransmit`), of a request at the hook, and of
  the client's next packet on its way up (`Reads`); strong fairness of a transmitted answer
  (`Sent`), for a FIN that is not acknowledged is repeated. A request that the ACK of a FIN
  covers is not sent again, and no fairness brings it back.
* `SampleHook`: as `WcacheTcp`. `Forwarded` is a request that is answered or passed on as it is
  when no call fails, so that fairness makes no failing call happen.
* `Examples`: every thread of the module that is loaded gets the processor. Nobody has to call
  rmmod: the fairness of the exit function begins after its first step. Timer, tasklet and
  resources have no fairness.

No fairness makes a commented-out or missing call happen: `tcp_second_client` fails under
the same fairness under which `WcacheTcp` passes.

## 5. What is proved

TLC checks the instances above; the theorems hold for every value of the constants that
satisfies `StoreAssumption` and `HooksAssumption` (naturals, a capacity below the width,
`NULL` is none of the addresses) and the assumptions of the other modules: any number of objects, strings and paths, any sizes, any
width of `size_t`, any set of failing calls. Proofs are checked with tlapm (Z3, Zenon, LS4).

### `CacheStoreProofs`: the store and its replacement

| Theorem | Says |
|---|---|
| `StoreInvariant` | `Spec => []IInv`, the inductive invariant |
| `TypeCorrect`, `CountersExact`, `KeysUnique` | `TypeOK`, `AccountingExact`, `TreeConsistent` |
| `WalkComplete` | if freed memory is intact, `Spec => TreeDeleteEmpties` |
| `LruInvariant` | `LSpec => []LInv`, the same with the replacement and `last_use` |
| `LruTypes`, `LruCountersExact`, `LruKeysUnique`, `LruWalkComplete` | `LTypeOK`, and the properties of the store in `LruStore` |
| `LruEvictsOldest` | `EvictsLeastRecent`: one object goes, and none that stays was used earlier |

None of the properties is inductive as it stands. `IInv` adds to them:

* `Private`: cached objects have their strings alive, and share none with one another. Without
  it a deletion could free the strings of another object, which would leave `Counted` and
  break `AccountingExact`, or change what `node_search` compares.
* `Walk`: between the two steps of `tree_delete`'s loop, and only then, exactly the object at
  the cursor is linked and not counted.
* `IsFiniteSet(CachedBytes)`, without which its cardinality means nothing.

The counters are compared with the cardinality of the set of cached bytes, not with a sum, so
that no induction is needed: linking adds a disjoint set of `size` bytes, unlinking removes
it (`FS_Union`, `FS_Interval` and the like), and the rest is arithmetic modulo `SizeT`
(`DivMod`, `SmallMultiple`, `ModShift`).

`WalkComplete` rests on a second invariant, `WalkInv`: the cursor is at the first node of the
tree, or `NULL` if the tree is empty. That the first node is well defined needs a least
element of a set of naturals (`LeastNat`). Its hypothesis `Freed \subseteq {"intact"}` cannot
be dropped (section 6).

`LruEvictsOldest` has two halves. What the loop returns: `oldest` is a recursive function, and
its equation may be used only once a function is known that satisfies it. That function gives
the last of the oldest objects from a node on (`LastOldest`, `LoopEnds`, `OldestIsLoop`). Then
the equation says for every node that no object from there on is older than the result: if it
failed somewhere there would be a last node where it does, which stands in for an induction
(`OldestFromNode`, `SearchFindsOldest`). And what `time` is worth: the invariant `LInv` adds
that it is the `last_use` of the object's path (`Recorded`), which a search and a creation have
to set in both places and all else has to keep (`SearchRecord`, `NewRecord`, `DeleteRecord`,
`LruSteps`).

### `WcacheHooksProofs`: the hooks, and the hooks between clients and server

| Theorem | Says |
|---|---|
| `HooksInvariant` | `HSpec => []HInv` |
| `HooksTypeCorrect`, `HooksCountersExact`, `HooksKeysUnique` | `HTypeOK`, and the store's properties with the hooks running between the steps of insmod and rmmod |
| `PendingSafe`, `NoObjectLost` | `PendingPathUncached`, `CreatedIsLinked` |
| `HooksRefineCache` | `HSpec => CacheRefined`: the module implements `ResponseCache` |

`HInv` is the store's invariant (its lemmas are stated about fragments of the operations, so
that both specifications use them) and: every object is linked (`CreatedIsLinked`), all linked
objects, readable or not, have strings of their own (`SoleOwner`), name and path of each are
one string, the pending string is alive, unowned and uncached, `temp_object` is `NULL`, and
whoever is between the two steps of a deletion has already met a fault (the first step is the
double free), so that no hook runs there. `PendingPathUncached` is what makes
`CreatedIsLinked` inductive: `node_insert` in `watch_out` never meets the path in the tree.
The refinement maps each action to one of `ResponseCache` (a miss to `Miss`, a store to
`Fill`, a deletion step to `Discard`, and so on) under `HInv`.

About `HttpFlow`, from the same invariant:

| Theorem | Says |
|---|---|
| `FlowInvariant`, `FlowTypeCorrect` | for any clients: `FInv`, `FTypeOK` |
| `FlowIsModule`, `FlowRefinesCache` | for any clients `FSpec => HSpec`, so that all of the above holds there; `FSpec => CacheRefined` |
| `FlowCoherent`, `FlowAnswersOwn` | under `SingleUser`: `Coherent`, `AnswersOwnRequest` |
| `FlowTransparent` | under `SingleUser`, `FSpec => Transparent`: the clients see the server alone |

`SingleUser` has four conditions: one client; only GETs; no packet sent again that was not
lost; and the device `ens37` is there. Failing allocations and transmissions, lost packets and
a hook that could not be registered are allowed. Without any one of the four all three theorems
fail, and TLC shows it (section 6). Why they are enough is `UserInv`: there is at most one
packet on the way, and it belongs to the request the client waits with (`OneExchange`), so
that no second GET comes between a request and its response; what is beyond `watch_in` was
asked for with the path that is pending (`PendingIsAsked`), although the pending path of an
earlier request may outlive it; and then what `watch_out` stores is what the server has there
(`PairsTrue`, which is `Coherent` for the pairs of the refinement, so that its lemmas about
each hook serve again).

### `TcpProofs`, `WcacheTcpProofs`, `SampleHookProofs`

`TcpProofs` has lemmas about the client's TCP, for a set `S` of packets that may be on the way:
if `S` has every packet under its number and the FIN under the last one only (`Shape`), then
what a client has read is in `S` at the number where it was read, the next number it expects
is one more than it has read, and its read has returned 0 only after `Packets` of them
(`TcpInv`). Both hooks are then a matter of what they add to `S`:

| Theorem | Says |
|---|---|
| `WcacheTcpInvariant` | nothing: `S` is the response, for only its first packet is cached and the reply has the first number |
| `WcacheTcpTypes`, `WcacheTcpIntact`, `WcacheTcpDoneComplete` | `WTypeOK`, `Intact`, `DoneComplete` |
| `SampleInvariant` | one packet, `app_data` under the first number, for those who asked for /index.html |
| `SampleTypes`, `SampleInPlace`, `SampleDoneComplete` | `MTypeOK`, `InPlace`, `DoneComplete` |

### `FinalHookProofs`

`FinalTypes` and `FinalOwnPage` (`STypeOK`, `OwnPage`) from `SInv`: a client has read nothing,
one page it asked for, or that page and the FIN, and expects the number after. The step that
matters is `NextPacket`: by `FinalAssumption` an answer under the number of another connection
is never the one a client expects.

### `HooksSmpProofs`

`OneProcessorCounts`, `OneProcessorAnswers`, `OneProcessorNoOops`: with at most one CPU
`CountAtRest`, `AnswersOwnPath` and `NeverOops` hold of `HooksSmp`, for any paths and addresses; with two, each fails (section 6). `SmpInv` says that
what the processor has read still holds (`Held`), which is what the second processor breaks.
`OneProcessorAtomic`: with one CPU `HooksSmp` implements `ResponseCache`. It needs besides that
the path a hook is about is the one `temp_path` points to, and is not cached until the hook
links it (`Follows`). This is the argument for the atomic hooks of `WcacheHooks`.

### `ExamplesProofs`

`ExamplesTypes`, `ExamplesNoneLeft`, `ExamplesAtMostOnce`, `ExamplesNothingHeld`,
`ExamplesNoneStarts`: the safety properties of `Examples`, whichever calls may fail. `EInv`
says for each place of insmod and rmmod which threads are gone (`WaitInv`, `PeopleInv`), why
the thread of `ink.c` cannot begin a second turn (`InkInv`: when it looks again it has been
told to stop), and what the module may hold there (`Holds`).

### Only model-checked

Liveness (`AlwaysAnswered`, `ServedCompletes`, `FirstAnswered`, `Answered`, `WaitEnds`,
`WakeSeen` and the three `UnloadEnds`) is out of the prover's reach. Every safety property
that a passing run checks is a theorem. `HooksAtomic` is in no run, for it needs one CPU where
`hooks_smp` has two; with `Cpu = {"cpu0"}` TLC agrees with the theorem.

## 6. Where the code does not do what it says

The five violating runs are listed above and, with the line each contradicts, under
`findings` in `PROJECT.json`. The model shows more; each can be seen by changing one run:

| What | How to see it |
|---|---|
| A POST does not touch `temp_path`, so its response is stored under the path of an earlier GET that got a 404 (`hook.c:85`, `hook.c:268`) | `flow_two_clients.cfg` with `Client = {"c1"}`, `Method = {"GET", "POST"}` |
| A GET that comes while `ens37` is missing passes without its path being saved, and its response is stored under the path that was pending (`hook.c:59`) | `HttpFlow.cfg` with `"ens37"` added to `MayFail` |
| A response that TCP sends again is stored under the path of the next GET (`hook.c:273`) | `flow_two_clients.cfg` with `Client = {"c1"}`, `Duplicates = TRUE` |
| rmmod frees the string of each object twice, as name and as path (`rb_tree.c:89-90`) | `hooks_unload.cfg` with `NoDoubleFree` |
| The pending path leaks when the next GET comes first, or hits (`hook.c:102`, `hook.c:108`) | `hooks_unload.cfg` with `NoPathLost` |
| A congested queue drops the reply, and the request is dropped as answered (`hook.c:224`) | `hooks_unload.cfg` with `DropsOnlyAnswered` and `MayFail = {"xmit_congested"}` |
| `obj_create` leaks an object whose path is taken (`rb_tree.c:248`); the hooks never get there, which is `NoObjectLost` | `LruStore.cfg` with `CreatedIsLinked` |
| `tree_delete` may end early when the freed node has been written to before `rb_next` looks at it (`rb_tree.c:127`) | `LruStore.cfg` with `TreeDeleteEmpties` and `Freed = {"intact", "overwritten"}` |
| With `hook/final`, `sclient` as in `client/ntest.sh` waits for ever: its request is answered only after the FIN it never sends (`sample.c:299`) | `FinalHook.cfg` with `HalfClose = {}`, `MayFail = {}` and `Completes` |
| rmmod of `wait.c` waits for ever when `task_3` alone could not be created, which `wait.c:88-91` reports as created, for it looks at `task_2` | `Examples.cfg`, without the second conjunct of `UnloadEnds` in `WaitThreads` |
| rmmod of `people.c` waits for ever for a thread that waits for `condition` (`people.c:27`) | `Examples.cfg`, without `condition = 1` in `UnloadEnds` of `PeopleThread` |
| rmmod of `ink.c` waits for ever when its wake-up falls between the thread's look at `kthread_should_stop` and `set_current_state` (`ink.c:46`, `ink.c:49`) | `Examples.cfg`, without the last two conjuncts before `~>` in `UnloadEnds` of `InkThread` |
| The timer's callback may still run when rmmod has returned, for `del_timer` does not wait (`jiffies.c:28`) | `Examples.cfg`, with the invariant `module = "jiffies" /\ at["main"] = "unloaded" => callback # "running"` |
| The tasklet may begin after rmmod, which does not kill it (`tasklet.c:34`) | `Examples.cfg`, without `module = "jiffies"` in `NoneStarts` |
| `test_kobject` never puts its kobject | `Examples.cfg`, without the list of modules in `NothingHeld` |
| A client of `hook/final` that has sent GET /index.html and its FIN is never answered: a second GET /index.html overwrites its numbers (`sample.c:259`), the ACK of the FIN covers its request (`sample.c:103`), which TCP then does not send again, and every answer has the other numbers | `FinalHook.cfg` with `EachAnswered` for `Answered` and `MayFail = {}` |
| The same without a second client, when `skb_linearize` has failed and the hook has dropped the request unread (`sample.c:227`) | `FinalHook.cfg` with `EachAnswered`, `Conn`, `HalfClose` and `MCIsn` reduced to `c1`, and `MayFail = {"skb_linearize"}` |
| On two CPUs a client gets the answer to another request, and `watch_in` copies the URL to `NULL` (`hook.c:104`) | `hooks_smp.cfg` with `AnswersOwnPath`, with `NeverOops` or with `HooksAtomic`; with one CPU all hold |
| A client of `hook/sample.c` that has read the fixed page waits for ever for its end, as no server knows of the request | `SampleHook.cfg` with `Completes` |
| A client of `hook/sample.c` reads the fixed page first and the rest of the server's page after it, when a copy of its request got through (`sample.c:80`) | `SampleHook.cfg` with `OneSource` |
| `hook/sample.c` loses the buffer it allocates for every packet it does not answer (`sample.c:67`) | `SampleHook.cfg` with `NoBufferLost` |

## 7. What is not modelled

* Interleavings of the hooks with `tree_delete` after its first deletion. rmmod's first double
  free is a memory error, and no hook of `WcacheHooks` runs after one; `tree_delete` itself goes
  on. What the hooks do before it, and after the walk of an empty tree, is explored.
* A hook that sleeps. `hook.c:102` and `rb_tree.c:216` allocate with `GFP_KERNEL`, which may
  sleep when memory is short and must not in softirq context, where the kernel warns at best.
  The hooks of `WcacheHooks` are atomic on the assumption that they do not sleep. A hook that
  did would let others run between its accesses to the shared state; `HooksSmp` shows what that
  does, for it lets one hook run between any two accesses of another.
* In `WcacheTcp`, a `kmalloc` of a path or a buffer and an `alloc_skb` that fail: they end in a
  memory error (`WcacheHooks`), after which nobody reads anything. All other exits are there.
* On two CPUs: rotations of the tree, deletion by `wcache_exit`, and the exits of the hooks that
  `HooksSmp` leaves out. Weak memory orders are not modelled; steps are sequentially consistent.
* The shape of the red-black tree, and `lib/rbtree.c`: it is a library of the kernel.
* Parsing of headers and the bytes of packets: a packet is what the hook learns from it.
  Checksums and headers of the reply are left out.
* `obj_start_create` and `obj_end_create` (`rb_tree.c:157-211`): nothing calls them.
  `temp_object`, which `watch_out` still looks at, is in the model, and is `NULL`.
* `hook/url`: it keeps no state and accepts every packet. What the attributes of `sysfs/` and of
  `wcache/sysfs.c` print.
* What `list/list.c` reads after it has freed it: the model only says that the loop may go wrong
  there (`oops`). The list on the stack of `ink.c`, which nobody else sees.
* In `FinalHook`, `HttpFlow`, `WcacheTcp` and `HooksSmp` the module stays loaded; `WcacheHooks`
  and `SampleHook` have rmmod.
* Build files, `.ko` and `.mod` artefacts, the vendored package.

## 8. Plan

Done, in this order: `CacheStore`, `WcacheHooks` and `ResponseCache` with their proofs,
`HttpFlow`, `Tcp` and `WcacheTcp`, `LruStore`, `FinalHook`, `Kthread` with its users,
`Examples`, `SampleHook`, `HooksSmp`, the proofs about `WcacheTcp`, `FinalHook` and the last
three, and the proofs about `LruStore` and `HttpFlow`.

What could come next:

1. The replacement put back into `obj_create` where it is commented out. `watch_in` looks
   paths up with `node_search`, which does not refresh the access time, so that it would go by
   the time of creation.
2. The steps of `tree_delete` in `HooksSmp`, next to the hooks of other CPUs.
3. Loading and unloading of `hook/final`.

Proofs: with two clients, a weaker promise than `Coherent`: that what is cached under a path is
what the server has at some path.
