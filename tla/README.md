# uml-server in TLA+

A verification development for `uml-server`, a TCP server that keeps a UML
model in memory and on disk and lets many clients read and change it. The
modules are translated from the C++ code under `src/`; `PROJECT.json` gives,
for every definition, the lines it stands for.

## 1. The system

    client program                          uml-server process
    --------------                          ------------------
    ServerPersistencePolicy --connect-----> acceptNewClients      (1 thread)
       (one request, one reply)                | starts, per client
            |                                  v
            +------ requests -------------> receiveFromClient     (1 per client)
            |                                  | threadQueue, handlerMtx/handlerCv
            |                                  v
            <------ replies --------------- clientSubThreadHandler(1 per client)
                                               | m_messageHandlerMtx
                                               v
                                            handleMessage -> UML graph, m_urls,
                                               |             meta managers
                                               | m_releaseQueue, m_garbageMtx/Cv
                                               v
                                            garbageCollector      (1 thread)
    main: open, start, waitTillShutDown, save, shutdownServer
    zombieKiller (1 thread, never has anything to do)

| Component | State | Operations | Interacts through |
|---|---|---|---|
| Request dispatch (`umlServer.cpp` 37-76, 129-611, 725-737) | per client: socket, `threadQueue`, two threads; `m_messageHandlerMtx` | receive, dispatch, handle a batch, reply | socket, `handlerMtx`, `handlerCv`, `m_messageHandlerMtx` |
| Release queue (161-229, 325-486, 739-752) | `m_releaseQueue`, `m_numEls`, `m_maxEls`, elements in memory | push on POST, remove on DELETE, count and release | `m_garbageMtx`, `m_garbageCv`, the graph |
| Connections and life cycle (613-723, 754-784, 863-1076, `main.cpp` 111-139) | `m_clients`, `m_running`, `m_socketD`, `m_shutdownV` | accept, handshake, KILL, duration, shutdown | `m_runMtx`, `m_acceptMtx`, a connection to itself, joins |
| Client persistence policy (`serverPersistencePolicy.cpp`) | one socket, the client's id | handshake, GET, PUT, POST, DELETE, SAVE, each with one reply | the wire |
| Client API (`umlClient.cpp`) | none of its own | get and setRoot by qualified name | the persistence policy, `m_urls` of the server |
| Message framing (37-76) | bytes on the wire | send and receive a length and a text | the socket |
| Meta managers (`metaManager.cpp`, `metaManager/*.h`) | type table, meta elements, their UML representation, stereotyped elements | generate, create, apply, load, erase, reindex | the UML graph |
| Generative manager and serialization (`generativeManager.h`, `generativeSerializationPolicy.cpp`) | `m_meta_managers`, a project file | generate, emit and parse a project | the UML graph, the file |
| Command line (`main.cpp` 24-110) | the options | parse | main |

What makes it correct, and what is hard:

* **Dispatch.** Every message a client wrote is handled once, in order, and
  answered on its own connection; handlers of different clients exclude each
  other. Hard: a receiver and a handler share a list that is iterated and then
  cleared as a whole; waits and notifies; sends that block; clients that leave;
  branches that send no reply or throw.
* **Release queue.** The list holds the posted elements that are in memory,
  once each; the collector never takes the back of an empty list, never
  releases an element that is gone, and brings the list back to `--num-els`.
  Hard: a count that is incremented lazily by one thread and decremented by
  another, without bound checks, in an unsigned type; an erase outside the mutex.
* **Life cycle.** A client is registered before it can send a request; a
  shutdown ends; the acceptor stops. Hard: blocking reads under two mutexes,
  a shutdown that runs on a handler thread, joins, a message to oneself.
* **Framing.** What `receive_message` returns is what `send_message` was given.
  Hard: partial sends and receives, an unsigned count that a failed `recv`
  decrements, connections that end inside a message.
* **Meta managers.** The type table holds the classifiers that can be reached,
  each under one number. What is in memory and what the UML representation says of
  a meta element agree after create, save, release, load, erase. Hard: two graphs
  that are kept alike by callbacks, ids that are used again, creations that fail
  half-way, values that go away and come back.
* **Serialization.** A project that is opened again is the one that was saved:
  nothing in it was not there, and the UML elements are complete. Hard: one
  document for three kinds of things that refer to each other, read in a fixed
  order; a list of meta elements that deletes do not shorten; saves that throw in
  the middle; a server that goes on after a project could not be read.

## 2. Modules

| Module | What it is |
|---|---|
| `RequestReply` | abstract specification: an atomic server with one queue per client |
| `Dispatch` | the threads, queues and mutexes between a client's socket and its replies |
| `DispatchProofs` | theorems about `Dispatch` |
| `DispatchRefinement` | the proof that `Dispatch` implements `RequestReply` |
| `ReleaseQueue` | `m_releaseQueue`, `m_numEls` and the garbage collector |
| `ReleaseQueueProofs` | theorems about `ReleaseQueue` |
| `Shutdown` | acceptor, handshake, KILL, `main` and `shutdownServer` |
| `ShutdownProofs` | theorems about `Shutdown` |
| `Framing` | `send_message` and `receive_message`, byte by byte |
| `FramingProofs` | theorems about `Framing` |
| `TypeTable` | the constructor of `MetaManager`: from a UML model to a table of types |
| `TypeTableProofs` | theorems about `TypeTable` |
| `MetaElementStore` | meta elements in memory and as UML instances with slots |
| `MetaElementStoreProofs` | theorems about `MetaElementStore` |
| `ProjectDocument` | emitting and parsing a whole project, over restarts |
| `ProjectDocumentProofs` | theorems about `ProjectDocument` |
| `MCDispatch`, `MCReleaseQueue`, `MCShutdown`, `MCFraming`, `MCTypeTable`, `MCMetaElementStore`, `MCProjectDocument` | the modules TLC runs: the sizes of messages, UML models and symmetry sets of the runs |

In every module an operator that stands before its correct form and is used
nowhere (`NotifyNobody` before `Notify`) is a *mutant*: a plausible bug in the
same place. `PROJECT.json` pairs each property of each run with a mutant that
makes TLC find that property violated.

### Dispatch

`wire[c]` and `replies[c]` are the kernel's buffers of the connection of `c`;
`receiver[c]`, `inHand[c]` are the program counter and the local variable of
`receiveFromClient`; `threadQueue[c]` is the list of the `ClientInfo`;
`handler[c]`, `cursor[c]` are the program counter of `clientSubThreadHandler`
and what its `for` loop has still to visit. The mutex `handlerMtx` needs no
variable: the handler holds it from `HandlerLock` to `EndBatch` (the
`unique_lock` lives to the end of the loop body) or to its wait, and the
receiver only inside one action. `messageMtx` is the owner of
`m_messageHandlerMtx`.

A request is abstracted to how its branch of `handleMessage` leaves
(`reply`, `silent`, `throws`, `kill`, `empty`), and its effect on the graph to
"it read the graph when it got the mutex and writes what it read plus itself":
`graph` is the sequence of requests that built it, so that an overlapping
handler would be seen as a lost update. A `recv` that fails with -1 is not
recognised by the code (the result is unsigned): `ReceiverError` is either the
end of the process or a message that is empty, as the buffer is zeroed.
A connection that ends inside a message, or a -1 with a size that can be
allocated, leaves the receiver in the loop of line 72 for ever
(`ReceiverSpins`). `SendToGone` covers a reply to a client that has left: dropped, an exception
that leaves the handler, or SIGPIPE.

The history variables are `offered` (what the socket gave or will give),
`done` (what the loop has finished with) and `read` (what the client has read).

Left out: the content of requests (the other modules), logging, and the data
races on `m_clients`.

### ReleaseQueue

One handler (Dispatch shows there is one at a time) and the collector. The
handler's POST and DELETE are two steps each, because the graph is changed
before `m_garbageMtx` is taken: `Post`/`Push` and `Delete`/`Unlist`. The
collector's loop body is one step, except that its `get` and its `release`
are two: it holds `m_garbageMtx` but not `m_messageHandlerMtx` between them.
`numEls` is modulo `Wrap`. `get`, `release` and `erase` of the element manager
(not in `src/`) act on the sets `exists` and `loaded`. `PostAnonymous` and
`PostToManager` are the requests after which the handler's `id` is still null.

A POST of an id that already exists, and POSTs while the process is being shut
down, are not modelled: what `setID` does with an id in use is up to the
element library.

### Shutdown

`acceptor` is the program counter of `acceptNewClients`, `stage[t]` that of
`shutdownServer` on thread `t`, which is `main` or the handler thread of a
client that sent `KILL`. The acceptor's one-second poll is no state: it looks
at the backlog again. `joined[t]` tells which clients `t` has closed in its
loop; two threads may run that loop at once. A wake-up that gets lost in
`closeClientConnections` (the notify is not under `handlerMtx`) leaves the
thread `stuck`, and so does the join of a receiver that spins on a message that
was cut off (`JoinHangs`).

### Framing

One direction of one connection. `wire` holds the bytes on their way, each
known by the message and the place it has in it; `sender`, `dataSize`,
`totalSent` are `send_message`'s, `receiver`, `size`, `bytesRead`, `buffer`
are `receive_message`'s. What the operating system and the sender may do is the
record `os`, chosen in `Init` and kept. A call of `send` puts bytes on the wire
one part after the other (`SendSome`) and then returns (`HeaderSent`,
`BodySent`): early only if `os.shortSends`, and of a size only if
`os.shortHeaders`, as nobody looks at what the first `send` returned (40).
`recv` takes any part of what it asked for and has arrived, but a size in parts
only if `os.shortHeaders`; the bytes of a size that was not sent as one, and the
stack when `recv` fails, read as any number up to `MaxGarbage` or as the largest
there is, 2^64 - 1 (`Garbage`). `StartBody` is `calloc` with the zero behind the
text: a size nobody sent may be more than there is, and the process dies of it.
`Allocated` is what `calloc(size + 1)` gives in 64 bits, which for the size
2^64 - 1 is nothing: the test against `SIZE_MAX` (65) lets it through, and `recv` is
asked for all of it. `Close` and `Reset` end the connection where it is, if
`os.breaks`. `cut` is history: the first message that a short send ended early.

`ReceivedIsSent` is about systems without short headers, and with short sends it
promises every message in front of `cut`; `AllArrive` is about systems without
short sends and breaks as well; `NeverOverruns` is about all of them and about
every size but 2^64 - 1, for which the code does overrun what it allocated. Of the
program's own messages it is assumed that they are shorter than that, as a
`std::string` is. `bytesRead` is modulo `Wrap`, as the -1 of a failed `recv` is
added to it. The zeros of `calloc` behind `buffer` and the `std::string` made of it
(cut at a NUL, of which texts have none) are left out.

### TypeTable

`queue`, `next_type` and the three maps are the constructor's own; one action
per way an iteration of its loop can go: `Skip` (a classifier that has its
number, or an element of no interest), `Track`, `OpenPackage`. The UML model is
chosen in `Init` from a set and stays as it is (the constructor runs under
`m_messageHandlerMtx`). `Listings` leaves open in which order the library's sets
list list their elements. `opened` is a history variable: packages leave no trace in
the tables. Of the models it is assumed that packages contain each other as a tree
(`ContainmentAssumption`), as the element library gives every element one owner;
attributes and generals may form any cycles. The tables are never filled again:
`BasesTracked` says of which classifiers a later creation can look up the generals,
whatever clients have made of the UML model since.

### MetaElementStore

`memory` holds the meta elements that are loaded, `storage` the
InstanceSpecifications in `m_storage_root`, both by id: an element and its
instance share one. An element knows its sets, its data and which of its sets
have a slot (`slots`); an instance has the slots with their values. One action is
one whole request, as requests come one at a time: `Create` is `create` and
`apply` up to where they end, `CreateUnnatural` the creation that
an UnlimitedNatural ends half-way, `ChangeSet` the change of a set and of all it
subsets, followed by the policy of each. A policy that finds no slot, or no
instance for a value, throws: `Reached` says which of them have run by then.
`Drawn` are instances a user drew in the UML model, which a default value may
name; they are not in `m_storage_root`, yet loading finds them.

Default values may stand on any property, also on one that subsets others or is
subsetted. In which order they are put into the sets an `unordered_map` decides,
and the policy of a superset that has no slot yet is passed over without a word
(metaElementSet.h 109): the value is in the set and not in the slot. `SlotOutcomes`
has every order, `Passed` the values this may happen to. Where two defaults
meet in one set (`Crowded`) the creation may also end with an exception (`Ends`).

`erase` and `release` of a UML element loop over the set of its applied
stereotypes (generativeManager.h 97-104, 112-119) and load those that were
released; loading one erases its instance from that very set (metaManager.h
111-113). `Visits` has what the loop may come to: all that is applied if nothing
had to be loaded, and any part of it otherwise. If a load throws, what was
done before stays done (`DoneBefore`): `EraseInterrupted` leaves the element
where it is, `EraseVisited` erases it. An instance that belonged to an erased
meta element stays in `m_storage_root`, as eraseEl (684) does nothing, and can
bring it back. `skipped` is history: applied elements the loop did not come to.
`NoHangingReferences` is about all others.

Assumed of the element library, which is not in the repository: `reindex` and
`erase` of an id drop the element that had it; a slot that points to an erased
instance loses the value or keeps its id (`Dangling`: both); an element that is
erased leaves the sets it was in. `loadElement` erases the instance it reads from
before it reads the slots: it may find any part of what they held (`Loads`), and
may throw anywhere. That the process may die of it adds no state. What the
collector stores of a UML element it releases holds what is applied to it, which
`GetElement` is.

`unsettled` is history: the ids about which sets and slots may disagree in ways
this code has no policy for, because they went away once (released and loaded
again, erased, or used again) or because they are default values that were
passed over. `SlotsFollowSets` and `SaveFindsElements` are about the others.

### ProjectDocument

The project, the file at `--location` and the process that comes and goes. A
meta element is in memory (`meta`, with the values of its set), or only its
instance is left (`instances`, with what it is applied to), or neither;
`m_meta_elements` has its id in each case, since nothing takes a deleted one
out. Which values a load finds is MetaElementStore's subject; here `Loaded` is any
part. `returned` is history: what was loaded, and so has no instance any more,
or failed to be created.

`Start` is `main` with `open` and `parseWhole`, in three outcomes (`ParseUmlFails`,
`ParseManagersFails`, `ParseSucceeds`). `Save` and `Stop` (the end of the
duration) go through `emitWhole`: it gets every id of `m_meta_elements`, loads what
is not in memory, and so writes deleted meta elements whose instance is there; if
one cannot be found or a load throws, nothing is written, but what was loaded is
(`Thrown`). `Crash` is the end without a save: a KILL (Shutdown shows that it never
comes to the save of `main`) or an exception in a thread. `Delete` is DELETE of a
UML element with the loop of `GenerativeManager::erase`, `DeleteMeta` DELETE
`?manager=`, `Post`, `PutMeta` and `CreateFails` are POST and PUT to a manager, `Get`,
`GetMeta` and `Dump` load what they show, `Release` is the collector. `saved` is
history: the project as it was when the last save succeeded.

A document has the UML elements, each with the stereotypes applied to it, then
the managers, then their meta elements, and is read in that order. For every
meta element `dump_all_data` begins two maps and ends one (metaManager.h 173-186; its
sibling `emitIndividual`, metaManager.cpp 121-134, begins and ends one inside the
map of its caller), so that the sequence is ended inside a map. What the emitter
then does with the rest is the YAML library's: the module only keeps that the
first meta element is written, and lets any part of what follows be missing, the
managers behind it included (`Kept`).

Assumed of the element library: saving without a root throws, a document is made
before the file is opened, and the sets of an element are emitted and parsed
through the overrides `emit_set` and `parse_set`. `Root`, `Packages`: what a manager
was generated from has to be a `Package` when it is read again. SAVE is given the
path of `--location`. `policies` is what `disablePolicies` left; what disabled
policies do to later requests is the library's and not modelled.

## 3. Runs

| Run | Bounds | Shows |
|---|---|---|
| `dispatch` | 2 clients, 2 messages each, 2 outstanding, a buffer of 1 towards the server; kinds `reply`, `throws`, `kill`; one client may leave | receive path, exclusion, reply order, refinement of `RequestReply`, also under close, reset, SIGPIPE and an uncaught exception |
| `dispatch_live` | reply buffer of 1, window of 2, kinds `reply`, `silent`, `empty` | every message is served if the clients read |
| `release_queue` | 4 ids, limit 2, list of 4, 3 deletes, a counter of 3 bits | list, count and memory; how the collector may die; the list is brought back to the limit |
| `release_queue_memory` | 3 ids, limit 1 | **violated**: memory is not bounded by `--num-els` |
| `shutdown` | 3 clients, one of them may be mute | registration, `m_running`, when `main` saves; every shutdown and every handshake ends, or a mute client is to blame |
| `shutdown_stop` | 1 client | **violated**: the acceptor does not stop |
| `framing` | 3 messages of 4, 0 and 2 bytes, a size of 2 bytes, 3 bytes on the wire, numbers modulo 6, sizes 0, 1 and 5 (the largest, for 2^64 - 1) from garbage, all 8 operating systems | what is received is what was sent; `recv` stays within what `calloc` gave, but for one size; when the loop spins; every message arrives |
| `type_table` | 3 classifiers, 2 packages, every graph of one attribute and one general each, and a fan | what is tracked and how it is numbered; the walk ends |
| `meta_store` | 2 ids and a drawn instance, 4 types (one with a default on a subset, one with a default on a singleton, one that inherits, one with an UnlimitedNatural), 1 element to apply to | memory and UML representation agree; a save is complete and finds what it needs; nothing applied outlives its element, unless the loop of erase skipped it |
| `meta_store_data` | the same with a second value | **violated**: data does not survive a release |
| `project` | 2 UML elements, 2 managers, 3 ids of meta elements (two of one manager, one of the other), 3 managers and meta elements at once | what is deleted can still be found by a save; reading gives the UML elements of the last save and a part of its meta elements |
| `project_reopen` | 1 element, 1 manager, 1 meta element | **violated**: what was saved cannot be opened |

Why the bounds are enough: in Dispatch two clients are needed to compete for
the one shared mutex and two messages to have one appended while the other is
handled; a third client adds nobody new to exclude, a third message nothing to
lose that the second cannot lose. In ReleaseQueue four ids with a limit of two
give a list that is longer than the limit by two, deletes from either end and
from the middle, and three deletes in a counter modulo 8 take the count below
zero and back. In Shutdown two well-behaved clients give two concurrent calls
of `shutdownServer` (a handler's and main's), each of which closes a client of
the other. In MetaElementStore two ids give an element and a value of its set, an
id that is used again and a reference that dangles; every special case of a
creation is a type of its own; two stereotypes applied to one element, one of them
released, give a loop that skips. In ProjectDocument one manager with two meta
elements and two managers with one between them differ in what a document may lose
and in what a failed read leaves behind; one meta element may hold another; and one
of the UML elements is no package, so that a manager can become unreadable. In
Framing the connection holds less than the longest message with
its size, so that every message is sent and received in parts, one message
is empty, and the garbage has the sizes 0, 1 and the one that wraps. In TypeTable three classifiers make every shape of cycle (to itself,
of two, of three) and a classifier in the queue twice.

No run uses symmetry. `CHECK_DEADLOCK FALSE` where
the process may die or the work may end; `meta_store` and `project` check for
deadlock.

**Fairness.** `WF` of every thread of the server: the scheduler runs every
thread that can run. Of mutexes nothing is assumed beyond that: weak fairness
is enough since the messages are bounded and so the competition for a mutex
ends. (Where the reply buffer is as large as the window no client needs to read:
that a send then never blocks is `SendNeverBlocks` in `dispatch` and the theorem
`RepliesNeverBlock`.) Clients owe nothing, except in `dispatch_live`, where they go on reading, and in
the runs of Shutdown, where a client that is not in `Mute` answers the greeting
or leaves, as `ServerPersistencePolicy` does in its constructor. Framing has
one condition for each thread, TypeTable one for the constructor.

## 4. Disagreements between the code and what it says

* `release_queue_memory`: `--num-els` is documented as the "max number of
  elements in memory before releasing" (main.cpp 21). Only elements whose POST
  succeeded are counted; those loaded by GET or PUT or left by a failed POST
  stay without bound.
* `shutdown_stop`: `shutdownServer` sends its "terminate message" (997) without
  the 8-byte size the acceptor reads first, then waits "for thread to stop"
  (1015). The acceptor throws, and the process is terminated. Every regular
  shutdown ends in `std::terminate` or SIGPIPE; so `RunsForever` holds, and the
  lines behind the wait are reached only when the connection to itself fails.
* `meta_store_data`: `saveElement` is empty, "do nothing cause our policies take
  care of it" (metaManager.cpp 681). The policies are those of the sets: data
  never reaches a slot, and a meta element that is released comes back with the
  values it was created with.
* `project_reopen`: `--location` is documented as "load from and save to the path
  specified" (main.cpp 19). An applied stereotype is written with the id of its
  manager among the UML elements (generativeSerializationPolicy.cpp 127), which
  are read (60) before the managers (65-91): `m_meta_managers.at` (162) throws,
  the server starts without its project and the next save overwrites it.

Also met, without a run of their own:

* The loop of `send_message` (43-50) counts what was sent up and its bound down:
  a text that `send` takes in parts is cut at half. A blocking `send` does so only
  when it is interrupted, so `bigMessageTest` does not meet it (`cut` in Framing).
* `--duration` is "run for specified duration in ms" (main.cpp 20), but a mute
  client keeps the acceptor in a read with `m_runMtx` held, which `shutdownServer`
  needs (`ShutdownEnds` excepts it).
* Two classifiers of one name in different packages are legal UML; the table from
  names to numbers keeps the first, and a dump of an element of the second is read
  back as one of the first (metaManager.h 180).
* `serverPersistencePolicy.cpp` 161 ends the list of managers at the number of
  bytes that were still to come, not at its size.
* A manager can be generated from an element that cannot be its root when the
  project is read again, or that is gone by then; the read fails there.
* A read that failed among the UML elements leaves the policies disabled.
* Nothing takes the id of a deleted meta element out of `m_meta_elements`:
  `eraseEl` is empty (metaManager.cpp 684). The next SAVE loads it from its
  instance, if that is still there, and writes it; if it is not (the element was
  loaded before), SAVE throws for as long as the process lives, and DUMP, which is
  in no try block, ends it. SAVE also loads every released element.
* `dump_all_data` begins two maps for each meta element and ends one (metaManager.h
  173-186): as far as `src/` shows, a manager with several meta elements, or several
  managers with some, are not written as a whole.
* `calloc(message_size_buffer + 1)` (69) is `calloc(0)` for a size of 2^64 - 1, which
  the test in front of it cannot exclude where `size_t` has 64 bits; the size may also be
  garbage left by a failed `recv` (55).
* The result of the `send` of a size is dropped (40), as is the number of bytes the
  first `recv` brought (55, with a TODO at 60).
* A general added to a class after `generate` has no number: `m_id_to_type.at`
  (metaManager.cpp 422) throws for every element created from that class later.
* `--location=<path>` sets the mount path (main.cpp 85); only `-l` sets the location.
* A default value on a property that subsets another may be missing in the
  slot of the superset (metaElementSet.h 109), depending on an `unordered_map`.

## 5. Theorems

The proofs hold for all values of the constants that satisfy the `ASSUME` of the
module (disjointness of names, naturals, and in ReleaseQueue a counter wide
enough for the limit, the list and the deletes: with 64 bits a matter of
course). Each follows one pattern: an inductive invariant `Inv`, checked with
TLC first, `Init => Inv`, one step per action of `Next`, and the property as a
consequence.

* **Dispatch** (`Invariance`). `Inv` says for every client: the equation of
  `Lossless`; what each program counter means for `inHand`, `cursor`,
  `threadQueue` (a batch is a prefix of what the receiver sees, which is why
  `handlerMtx` must be held through it); that the handler inside
  `handleMessage` is the owner of `m_messageHandlerMtx`; and how many replies
  are due. `TypeCorrect`, `ReceivePathLossless`, `WaitersAreIdle`,
  `HandleMessageExclusive` and `RepliesNeverBlock` follow.
  `ServerNeverStalls` takes what `SInv` adds: the owner of `m_messageHandlerMtx`
  is inside `handleMessage` (`Owned`), a handler is there only for a message with
  a text (`Serving`), and a receiver that is gone has left nothing on the socket
  (`Drained`). A message that was not served is then in front of a thread that
  can go on, its own client's or the owner of the mutex.
* **Effects and replies** (`DispatchRefinement`, `EInv`). `NoLostUpdate` and
  `RepliesInOrder` relate positions: which entries of `graph` are a client's, in
  which order, and which numbers a client has read or will read. `EInv` follows
  each client's share of both through the stages of its handler; the other
  clients do nothing to it but put their entries in between.
  `UpdatesNotLost` and `RepliesPairUp` follow.
* **ReleaseQueue** (`QueueInvariance`). `CountBehindList` is not inductive
  alone: that `numEls` may be decremented only as often as `deletes` says needs
  the list to lose at most one entry per delete, hence `NoDuplicates`; that in
  turn needs to know what is in the handler's hand (an id being posted is not in
  the list, an id being deleted no longer exists) and in the collector's (its
  victim is the back of the list). `QueueTypeCorrect`, `CountSound`,
  `CollectorHasVictim`, `ListHoldsNothingTwice`, `ListSound`, `SleepsWithinLimit`
  and `CollectorDeaths` follow. So does `CollectorTakesTheOldest`: what leaves
  memory or the list was deleted, or is the oldest of a list that is too long.
  `ListKeepsShrinking` measures the work that is left (`Work`: two steps for every
  entry, and the distance of the count from the limit, the long way round if it has
  wrapped): each step of the collector takes one off, and it never sleeps while
  there is any.
* **Shutdown** (`LifecycleInvariance`). `m_running` is cleared only for a
  connection that announces 28 bytes and then gives the shutdown id; the proof
  is that no connection does both. `LifecycleTypeCorrect`, `NeverStops`,
  `KillNeverSaves` and `ServedClientsAreRegistered` follow. `AcceptorOwesNothing`
  needs `WInv`: a client stands in the backlog once, exactly while it is
  connecting; the one the acceptor talks to has been greeted, has answered or has
  left; and for every call of `shutdownServer` behind its connection to itself,
  that connection is in the backlog or with the acceptor. `ShutdownNeverReturns`
  turns the violated `AcceptorStops` around: in no behaviour does a call return.
* **Framing** (`FramingInvariance`). `NeverOverruns` needs that `bytesRead` is
  what the buffer holds, which a failed `recv` breaks: it makes the count
  smaller, or wraps it. The invariant says that from then on nothing arrives.
  `FramingTypeCorrect` and `BufferIsLargeEnough` follow, for every size that may be
  read, garbage included; of the size 2^64 - 1 the property itself says that it is
  excepted, and no assumption keeps it out. What is received needs a
  second invariant, `Delivery`: take the wire and, behind it, the byte `send` takes
  next. In this line every byte is followed by the rest of its part and then by the
  next part (`Ordered`, up to the first message that was cut), the line begins
  with what `receive_message` expects (`InStep`), and the buffer holds the text up
  to there (`Filling`). `send` extends the line at its end, `recv` takes from its
  front, a reset from its end; the returns of `send` leave it as it is, unless the
  message is cut. `MessagesAreDelivered` and `SpinMeansCutMessage` follow, and,
  with where the program counters can be (`AtWork`), `ConnectionNeverStalls`: of
  two threads that would wait for each other, the line says who has what to do.
* **TypeTable** (`WalkInvariance`). What is behind the walk (classifiers with a
  number, opened packages) leads only to what is behind it or in the queue, and
  everything met can be reached. With an empty queue what is behind the walk is
  closed, so it is all that can be reached: `TracksAllAndOnly`, for any finite
  UML model; `NumberingIsOneToOne` and `TypeTableTypeCorrect` follow.
  `BasesAreTracked` relates the finished tables to any later model: if a general
  of a tracked classifier has no number, it was not its general at `generate`. For `WalkShrinks` a package must not be opened
  twice, as it leaves no mark in the tables: `TInv` says that packages are met from
  the root downwards (`Downwards`), each is in the queue once at most, and none in
  the queue was opened (`OpenedOnce`).
* **Refinement** (`DispatchRefinement`). `Spec => ImplementsRequestReply`. Beyond
  `Inv` this needs two facts: who is about to change the graph has read what is
  there (`Fresh`), and after a `KILL` took effect its handler never releases
  `m_messageHandlerMtx` (`KillHeld`), so that nothing is served after it. Then
  every step of a client's actors is one of five things to what is outstanding of
  that client, and those are the actions of `RequestReply`.
* **MetaElementStore** (`Invariance`). The agreement of an element and its
  instance is inductive only with the shapes both have (`Shape`), with what must
  be tracked and housed somewhere (`SaveIsComplete`, `Housed`), and for all
  requests at once, since each of them may load others; `KeepInv` says what any
  request has to keep, and each action is shown to keep it. `TwinsAlwaysAgree`,
  `SlotsAlwaysFollow`, `SaveCoversAll`, `SaveFindsAll` and `ReferencesNeverHang`
  follow, and of the steps `SetsSurviveRelease`: data does not survive a release
  (§4), sets do. Defaults are not restricted; what the order of an `unordered_map`
  makes of them is in `SlotOutcomes`. `TypeCorrect` has an invariant of its own (`Typed`), which adds
  to `TypeOK` the fields of the records.
* **ProjectDocument** (`ProjectInvariance`). `TrackedAreFound` is not inductive:
  releasing an element would lose it if it had no instance. `HaveInstances` says
  that all that is tracked has its instance or is `returned`. `Written` says of the
  file that its UML elements are those of `saved` and the rest is a part of it,
  all of it where nothing could be lost. `ProjectTypeCorrect`,
  `DeletedElementsAreFound` and `ReadingIsPartOfWriting` follow.

Every invariant and every action property that a passing run checks is the
subject of a theorem, and so is the refinement. Model-checked only are the six
liveness properties: the prover has neither `ENABLED`, on which fairness rests, nor
the induction that turns a measure into an end. What each of them rests on in the
states and steps, that somebody can always go on and, where the theorem has a
measure, that going on gets nearer, is proved:

| Liveness | Its safety core |
|---|---|
| `EveryMessageServed` | `ServerNeverStalls` |
| `ListDrains` | `ListKeepsShrinking` |
| `ShutdownEnds`, `HandshakeEnds` | `AcceptorOwesNothing` |
| `AllArrive` | `ConnectionNeverStalls` |
| `WalkEnds` | `WalkShrinks` |

These theorems spell out the guards of the threads (`ReceiverRuns`,
`HandlerRuns`, `AcceptorRuns`, `CollectorRuns`, `SenderRuns`); that a thread whose
guard is true has an enabled action was compared with `ENABLED` by TLC on the
instances of the runs.

## 6. Not modelled

* **The element library** (`uml`, `EGM`): not in the repository. What the modules
  assume of it is named where it is used.
* **Client API, proxy elements, type tables**: thin wrappers, templates and
  constant tables without a state of their own.
* **Command line**: a loop over `argv` that keeps nothing (§4 has what it does with
  `--location=`); what the options mean is
  in Shutdown, ReleaseQueue and ProjectDocument.
* **`m_urls`**: written by PUT (539) and `setRoot` (1083) and never cleaned; that a deleted id stays
  in it can be read off the text.
* **The client's constructor** beyond its handshake: a sequential loop over a list.
* **A client that connects again under the id it has**: two pairs of threads would
  use one `ClientInfo` without a lock, a data race of which C++ leaves every
  outcome open; so are the unlocked uses of `m_clients` and `main`'s save.
* **Of meta managers**: opposites, proxy sets, `m_stereotyped_elements` and a later
  `setID`; in MetaElementStore also PUT into a manager, which is in
  ProjectDocument.
* **Disabled policies**: what requests do while a failed read has left the policies
  of the sets disabled is inside the element library.
* **Zombie killer** (nothing fills its list), **Winsock**, logging, the text of
  requests, replies and documents.
