# A TLA+ model of the regionless key-value service

The service (`cmd/http`, `pkg/`) is a key-value store over many stores in many
regions. It keeps an index from keys to *revisions* in memory, and the value of
every revision in the stores that a hash of the revision selects. This directory
models the index, the request handlers, both ways of replicating values, the
stores, the start that decides where values go, and the validation tool. It checks
them with TLC on small instances. It proves with TLAPS, for any number of threads,
keys and revisions, the main invariants of the index and that the index implements
an atomic map.

## The system

| part | state | operations | talks to |
|---|---|---|---|
| revision counter (`pkg/revision`) | one `uint64` | `GetGlobalIncreasingRevision` | called by handlers and by `keyIndex.put` |
| index of a key (`pkg/index/key_index.go`) | `modified`, generations of revisions | `put`, `tombstone`, `get`, `since`, `update` | counter |
| index (`pkg/index/index.go`) | B-tree of key indexes, RWMutex | `Put`, `Get`, `Tombstone`, `RangeSince`, `Update` | called by handlers |
| handlers (`cmd/http/main.go`) | none between requests | `createKV`, `getKV`, `deleteKV` | counter, index, hashing manager, piping |
| sync/async piping (`pkg/piping`) | goroutines in flight | `Write`, `Read`, `Delete` | stores |
| chain piping (`pkg/piping`, `pkg/consistent`) | chain of replicas, built per call | `Write`, `Read`, `ReadTail`, `Delete` | stores |
| stores (`pkg/database`) | map per store; redis pools | `Put`, `Get`, `Delete` | redis |
| hashing managers (`pkg/partition`) | ring or rendezvous table, fixed after start | `GetNodes` | configuration |
| configuration, latency (`pkg/config`, `pkg/network`) | read and measured once at start | `GetReplications` | hashing managers |
| validation tool (`validation/`) | a log per client | reads and writes of one key | the service, as a client |
| tracing, generated gRPC code, `hashing/` prototype | none of the service's | | |

A request runs in its own goroutine and holds no lock between its calls:

* `createKV` takes a revision, asks for its nodes, writes the value to the stores
  under the revision and only then indexes it, with `Update` if `?rev=` is given;
* `getKV` looks the key up and then reads the value of the revision it found,
  or with `?fromRev=` of all revisions `RangeSince` returned;
* `deleteKV` looks the key up, deletes that value from the stores, takes a
  revision, and puts a tombstone under it.

What is hard: revisions are taken first and indexed later, so they reach the
index in any order; `Update` writes under the read lock; the counter is bumped
atomically and read back with a plain load; every lookup may be stale when it is
used; remote stores are written by goroutines nobody waits for; errors of stores
are swallowed; index and counter do not survive a restart, redis does; where a value
goes depends on measured latencies and on the order in which Go visits a map.
`PROJECT.json` lists these hazards at their lines.

What makes the parts correct: the index keeps every acknowledged change, in
order, and shows the newest; a lookup never finds a tombstone or panics; a value
is in the store a read goes to before its revision can be found; an answer is a
value of the key asked for; a deletion is not undone; the replicas of a value are
distinct stores, and the same after every start; every request is answered.

## Modules

| module | models |
|---|---|
| `KeyIndex` | `keyIndex` and `generation` as operators; `put` is split where it touches shared fields |
| `TreeIndex` | counter and `treeIndex`: an action per method, or per shared access where no lock excludes others |
| `IndexClients` | `TreeIndex` driven by threads that call it the way the handlers do |
| `IndexQueries` | `Range`, `RangeSince` with an end, `Restore`, `Equal`: operators, evaluated on the states `IndexClients` reaches |
| `VersionedMap`, `IndexRefinement` | the abstract index, a register per key; the refinement mapping |
| `StoreJobs` | stores, and the goroutines that write them: faulty stores, WaitGroup, detached work |
| `SyncAsyncPiping`, `ChainPiping` | the two pipings over `StoreJobs` |
| `Redis` | what dialling a redis server, with retries, can end in |
| `ChainClients` | `ChainPiping` and `Redis` driven by threads; `NewChain` step by step, with the registry of memory stores |
| `KVService` | the handlers, composed of `TreeIndex` (EXTENDS) and both pipings (INSTANCE), restarts included |
| `Hashing` | ring, rendezvous table and the two managers as operators over a hash function |
| `Startup` | `main` and `NewKeyValueHandler` up to the first `GetNodes`: storages, latencies, placement, manager |
| `ValidationTool` | the clients of `validation/` and their logs, composed with `KVService` (EXTENDS) |
| `MCIndex`, `MCService`, `MCChain`, `MCStartup`, `MCValidation` | constants for TLC |
| `KeyIndexProofs`, `KeyHistoryProofs` | lemmas about `put`, `tombstone` and `get` |
| `TreeIndexProofs`, `IndexProofs`, `RefinementProofs` | theorems about `IndexClients!Spec` |

**State.** `tree` maps a key to its `keyIndex`; a key that is not in the B-tree
has no generations. `pc`, `req`, `loc`, `ret` are a thread's position in the
index, its call, locals and result. `env` is the deployment, chosen at the start:
store type, piping, placement, the stores that may fail, and bounds. `db[s]` is a
store, by revision (`Revision.String` is the main revision only). `async` and `wg`
are the goroutines that have not run. `h[t]` is the request a thread serves, `c[t]`
the chain call of `ChainClients`. `applied`, `written`, `erased`, `puts` and `deletes`
are history: no guard of the service depends on them. `Begin` of
`ChainClients` reads `puts` and `deletes`, to call as the handlers do.

**Locks.** The RWMutex is not a variable: a thread holds it by where it is
(`RLocked`, `WLocked`). `Put` and `Tombstone` exclude everything else in the
index, so they are one step, except that a `Put` that starts a generation bumps
the counter (`PutAdd`) and reads it back (`PutCreate`) while other threads, which
do not need the lock for that, move it. `Update` takes a step for each shared
field it reads or writes.

**Composition.** `KVService` calls the index and the piping that the deployment
selects. `MCService` and `MCValidation` place values with the hashing manager of
`Hashing`. `Startup` covers what happens before the first request, and from which
names the lists of nodes are made.

**Abstractions.**

* Data races of `Update` are modelled as interleavings of whole-field reads and
  writes. Torn reads of slices and strings, and slices that share a backing array,
  are not modelled. `g.ver++` is a load and a store, and the store is one step
  with the assignment to `modified`. A reader walks a key index in one step, after
  a step that reads `modified`.
* A comma-joined list of store names is the sequence of the names, joined again
  where a chain is built from it. `Split` keeps the one corner that matters, the
  empty string.
* Requests that are refused before they touch any state are left out. `?rev=` and
  `?fromRev=` take their values from the constant `RevParams`.
* The sub revision is always 0 in this service; `GreaterThan` compares it anyway.
* `CreateAbort` covers `GetNodes` or the piping failing and an unreadable body.
* `KVService` takes the registry of memory stores for atomic; `ChainClients` models
  the race of its first users. The Go runtime aborting on concurrent map accesses
  is not modelled.
* A faulty store loses a call, or carries it out and loses the answer. Only
  `ChainClients` looks into redis connections.
* Hash functions are arbitrary functions: an order of the nodes on the ring, a
  remainder for the bucket, an order of the weights.
* Latencies are in small units: `NsPerMs` nanoseconds per millisecond.
* In `ValidationTool` the clock ticks when an operation begins or ends, and the
  network takes no time; both only make the logged intervals tighter than real ones.
* Counters are unbounded naturals; the `uint64` does not wrap in practice.

## Runs

| run | instance | shows |
|---|---|---|
| `IndexLocked` | 3 threads, 1 key, `MaxRev` 4; put, tombstone, get | the key index stays well formed, keeps every change, never shows an older revision, and implements `VersionedMap` |
| `IndexSequential` | 1 thread, 2 keys, `MaxRev` 6; every method | the index is the multi-version map its comments describe; ranges agree with lookups, a restored key goes on as the saved one, what is `Equal` answers alike |
| `Service` | 2 threads, 1 key; one store with `maxRev` 4, two chains of two with 3; create, get, range, delete | stored before served; erased values stay away |
| `ServiceUpdate` | 2 threads, one store, `maxRev` 4; create, update, get, delete | what the races of `Update` cannot break: no empty key index; what is found is stored and is no tombstone |
| `ServiceFaults` | 2 values; redis over 1 restart; stores that fail, in two zones and in chains; a chain that cannot be built | no answer comes from another revision, another key or a former incarnation; what reliable stores serve is not affected |
| `ServiceLive` | 2 threads, 2 stores, either piping, `maxRev` 2 (chain: 1) | every request is answered; once changes stop the replicas converge, remote ones too |
| `Chain` | 2 threads, 11 deployments of 1 to 3 stores, 2 or 3 calls | what LINEARIZABLE promises, what errors leave behind, when `Dial` gives up, that calls return and replicas converge |
| `Startup` | 60 simulated configurations of 4 stores in 3 zones, 3 measured ones of 2 stores, 144 hash functions | placement by latency; replicas apart, nearest first, complete, and the same after every start |
| `Validation` | 2 clients with 2 operations each, one store, a local and a remote one, and a chain | the logs are linearizable and hold no value from before the test |

`MaxRev` and `maxRev` bound when a change may still be *requested*; requests under
way and `put`'s own use of the counter go beyond it. A late revision takes two
threads. One that lands in a generation after its own takes a put and a tombstone in
between besides; the bounds of `IndexLocked` and `Service` admit it. `RevParams` is
`{1, 3}`: the revisions a first create and a first deletion or update get, so that an
update can be right, stale and early, and a range can be all or a part. Two Updates
in one generation after a deletion need `maxRev` 4. `Chain` has a failing store at
the head and in the middle of chains of two and three; longer chains repeat the middle.
In `Startup` two failed connections of three refuse a store and one does not, as with
ten; the durations 3, 4, 5 with 2 units per millisecond lie on both sides of the
threshold and on it, before and after rounding.

Symmetry (threads, values) is used for safety runs, not for liveness; keys are not
symmetric, since `NoRequest` chooses one. `Startup` and `Validation` do not check for
deadlock: a start that panicked, and clients that have finished, do stop.

Several service properties assume `WritesDistinct`, because two creates that get
one revision (`RevisionRace`) overwrite each other's value in the stores. The chain
properties assume that no other first call replaced the writer's memory store
(`registered`). `OwnerIsStable` and `SameAfterEveryStart` say how far they hold:
with rendezvous, further replicas are the neighbours of the first in the order in which
nodes were added, and depend on the order in which Go visits the zones.

Three runs show where the code departs from a comment or document:

| run | the text | the code |
|---|---|---|
| `RevisionRace` | `index/revision.go:33-35`: changes differ in their revision | the counter is read back with a plain load, two changes can get one revision |
| `UpdateRace` | `index.go:21`: `Update` only on top of the assumed latest revision | the check and the write run under the read lock, two Updates can both succeed |
| `RemoteOnlyRead` | `validation/README.md:21-22`: reads fall back on an async node | `strings.Split("")` is one empty name, which is taken for a sync node |

**Fairness.** A goroutine that can run eventually does, hence weak fairness of the
detached goroutines (`LiveSpec`, and `Spec` of `ChainClients`), of a chain call's own
steps, which wait for nothing but their goroutines, and of the start, which is one
goroutine and its workers. A thread of `KVService` gets strong fairness for its steps,
because the lock it waits for may be taken and freed for ever: Go's RWMutex blocks
new readers once a writer waits and lets waiting readers in on `Unlock`, so a waiting
thread is not overtaken indefinitely. Clients need not send requests.

## Proofs

All theorems are about `IndexClients!Spec`, for any sets `Threads`, `Keys`
(non-empty), `NodeLists` (without the empty list, which marks tombstones) and any
`MaxRev`.

| theorem | states | for |
|---|---|---|
| `CoreCorrect` | `CoreInv`: types, and what holds in the middle of a call | all methods |
| `NeverEmptyHolds` | `NeverEmpty` (run `ServiceUpdate`) | all methods |
| `TypeCorrect` | `IndexTypeOK` | all but `since` |
| `HistoryCorrect` | `HistoryInv` | all but `Update` |
| `SortedCorrect`, `ModifiedCorrect`, `GetCorrect`, `AppliedCorrect`, `VisibleCorrect` | `GenerationsSorted`, `ModifiedIsNewest`, `GetFindsNewest`, `AppliedKept`, `VisibleMonotone` | all but `Update` |
| `ReadersCorrect` | `ReadersUndisturbed` | all but `Update` |
| `Implements` | `ImplementsMap`: `Spec` implements `VersionedMap!MapSpec` | all but `Update` |

The argument has four layers.

1. *One call* (`KeyIndexProofs`): the backward loop of `put` finds the last smaller
   revision (`LastOf`), the insertion changes nothing else (`InsertRev`), and `put`
   changes only the live generation and `modified` (`PutResult`).
2. *One key* (`KeyHistoryProofs`): in whatever order revisions come, `put` and
   `tombstone` keep generations filled (`Filled`), in order with `modified` the newest
   (`Ordered`), the live one without tombstone (`Alive`), and lose no revision
   (`PutHolds`). `GetNewest`: of such an index, `get` finds the last live revision.
3. *All threads* (`TreeIndexProofs`, `IndexProofs`): every step leaves the tree
   alone, is a write of `Update`, or is a `put` or `tombstone` (`Steps`).
4. *The map* (`RefinementProofs`): the register of a key is the last revision of its
   live generation (`PutCurrent`, `TombstoneCurrent`); a lookup takes effect when it
   walks the generations, with the `modified` it read before (`GetCurrent`); every step
   maps to a change, a lookup or a stutter (`StepImplements`).

None of the properties is inductive alone. `NeverEmpty` needs that an `Update` under
way found its key in the tree (`InCall`). Sortedness needs `modified` to be the
newest revision, since `put` appends by comparing with `modified` only; that in turn
needs every indexed revision to be above 0 (`GoodRequest`: a thread loads the counter
after its own add), since the zero `modified` of a new key is not one of its revisions.
The refinement needs `ReadInv`: no writer is in its critical section while a reader is
between its two accesses, so that the `modified` it holds is still the key's.

The assumption `"update" \notin Ops` cannot be dropped: with `Update` running beside
other threads TLC refutes the properties that make it.

Only proved: `VisibleMonotone`, which the refinement implies, and `ReadersUndisturbed`,
which it rests on. Only model-checked: liveness, which is out of the prover's reach; `SinceComplete`,
`SnapshotReads`, the type of what `since` returns, and the operators of `IndexQueries`
(`since` and the sorting are folds, and need induction over data); all properties of
`KVService`, `ChainClients`, `Startup` and `ValidationTool`.

## Not modelled, and what the code does not promise

* Tracing, the generated gRPC code, which the service does not use, and the
  `hashing/` prototype, which nothing imports.
* `revToBytes`, `bytesToRev`, getters and `String` methods for logs.
* Sleeps and the latencies of the simulated store; the number of open connections.
* The text of requests, answers and log lines.

Behaviour met on the way:

* redis answers a missing key with a formatted nil, as a success; a store error is
  acknowledged as success, so that after a restart on redis an old value can be served
  in place of one that was lost;
* an older tombstone is inserted in front of a newer put that reached the index first
  (`key_index.go:121`; lines 21-22 describe a tombstone at the end); `RangeSince`
  without `end` does not sort (`index.go:165`; lines 147-149 say the result is sorted):
  with one caller at a time it is, as `IndexSequential` shows, with several it is not;
* `Range` with an `end` and `atRev` 0 finds nothing, while `Get` takes 0 for the latest;
* a detached deletion can overtake the detached write of the same value;
* a range read fails once its range holds a tombstone; `deleteKV` ignores what
  `Tombstone` returns; a failed `Update` leaves its value in the stores;
* the chain piping refuses the single joined name that the sync hashing manager
  returns; `GetReplications` gives redis stores as host:port (`config.go:69-70` says by
  name), and `NewChain` looks names up in `Storages`, so a chain of redis stores cannot
  be built (`ServiceFaults` has one);
* two first calls for a memory store can make two, one of which is forgotten with what
  was written to it.
