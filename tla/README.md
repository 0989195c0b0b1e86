# A verification of the multithreaded HTTP proxy

TLA+ models of the proxy server in `src/`, configurations with which TLC checks
them on small instances, and proofs that TLAPS checks for every instance. Line
numbers are those of the files in `src/`. Every definition that stands for code
is listed with its lines in `PROJECT.json` ("map").

```
tlc -config ThreadPool_tasks.cfg ThreadPool      # one of the runs below
tlapm ThreadPoolProofs.tla                       # one of the eight proof modules
```

## 1. The system

| Component | State it keeps | Operations | |
|---|---|---|---|
| Thread pool (`ThreadPool.cpp`) | task queue, `stop`, `readyThreads`, one mutex, two condition variables | constructor, `waitForThreads`, `enqueue`, destructor, worker loop | modelled |
| LRU cache (`LRUCache.cpp`) | list of elements, map from urls to list iterators, one mutex | `find`, `add`, `remove` | all but the destructor |
| LFU cache (`LFUCache.cpp`) | list of frequency nodes with lists of elements, map from urls to node and iterator, one mutex | `find`, `add`, `remove` | all but the destructor |
| Connection handler (`handleClient`, `datafromclient`, `ProxyUtils.cpp`) | locals of a worker; descriptors | receive, parse, look up, serve, or connect, forward, relay, add; close | modelled |
| Thread pool server (`ThreadPoolServer.cpp`) | a pool, a cache | `start`: accept and enqueue, for ever | modelled |
| Semaphore server (`SemaphoreServer.cpp`) | a semaphore, a cache, the global `running` | `start`, `workerThread`, `sigint_handler` | modelled |
| Startup (`main.cpp`, `ServerFactory.cpp`) | arguments | choose cache and server, call `start`; fail | modelled |
| Request parser (`proxy_parse.c`, `convertRequestToString`) | a `ParsedRequest`: fields of the request line, table of headers | create, parse, set / get / remove a header, print, unparse, destroy | partly |
| `v1/proxy2.cpp` | a pool, a cache | what became the thread pool server, with a handler that exits | modelled |
| `v1/proxy3.cpp` | a semaphore, a cache, `running` | what became the semaphore server, with the same handler | modelled |
| `v1/proxy_server_with_threadpool_and_cache.c` | linked queue of clients, list of cached responses, a lock each | accept, enqueue, dequeue, handle, find, add | partly |
| `v1/proxy_server_with_cache.c`, `..._without_cache.c` | array of sockets, a semaphore, list of cached responses | accept, a thread for each client, handle, find, add | partly |
| `benchmark.py`, `makefile`, the built `proxy_server` | | | not modelled |

How they interact. The main thread of a thread pool server accepts and enqueues
closures; a worker pops one and runs the handler. The workers of a semaphore
server accept themselves, one permit each. All handlers share one cache, through
its mutex, but the pointer that `find` returns is used when the mutex is free
again. They also share the process: its table of descriptor numbers, which the
kernel gives out lowest first, and its end, as the handler calls `exit` in two
places and does not handle SIGPIPE. In the oldest programs `main` hands a client
over through a slot of an array, whose address the thread gets.

What is hard here: the interleaving of workers with one another and with the
owner of the pool; notifications sent outside a mutex; pointers and descriptor
numbers that outlive what they named; peers that leave, break off, stay silent or
send something else; sequences of cache operations; and the arithmetic of the
parser. `PROJECT.json` ("hazards") lists these at their lines.

What makes each component correct:

* Thread pool: each task is run once, in queue order, and in the end; nobody
  sleeps while there is work that nobody goes for; a joined pool is drained.
* Caches: list, map and memory describe one cache; its size is bounded; what is
  discarded is what the policy says.
* Handler and servers: a client gets the response it asked for; only whole
  responses are cached; each descriptor has one owner; permits are conserved;
  every client gets its turn, unless silent clients hold every worker; the process
  ends for known reasons only, an origin that leaves too early among them.
* Startup: the workers share one cache of the size that the command line asks for, or
  nothing is made.
* Parser: an address is taken apart into its parts, and what is printed parses to
  the same; a header is written to allocated memory, and is there once; the origin
  gets the client's headers with Host and Connection replaced, as far as the parser
  tells one line from the next.
* First version: the linked queue is whole and is a queue; the cache's size is
  what its elements take; threads keep to their clients; no client is forgotten.

## 2. The modules

```
TaskQueue                 what a queue of tasks promises
ThreadPool                implements TaskQueue            <- ThreadPoolProofs
CachePolicy               what a cache promises: any, LRU or LFU victim
LRUCache, LRUCacheHistory implement CachePolicy (LRU)     <- LRUCacheProofs
LFUCache, LFUCacheHistory implement CachePolicy (any), and not LFU
                                                    <- LFUCacheProofs
Sockets                   descriptors, connections, clients, origins (external)
ClientHandler             Sockets + LRUCache        <- ClientHandlerProofs
V1Handler                 ClientHandler with the exits of proxy2 and proxy3
ThreadPoolServer          ClientHandler + TaskQueue       <- ThreadPoolServerProofs
V1PoolProxy               ThreadPoolServer + V1Handler    <- MCThreadPoolServer
SemaphoreServer           ClientHandler + the semaphore
V1SemaphoreProxy          SemaphoreServer + V1Handler
Startup                   V1SemaphoreProxy + main and the factory
                                          <- MCSemaphoreServer, StartupProofs
RequestLine               the request line, parsed and printed
HeaderTable               the headers
ProxyRequest              RequestLine + HeaderTable
                                          <- MCProxyRequest, ProxyRequestProofs
ClientQueue               the client queue of the first version
ListCache                 its cache
V1Server                  ClientQueue + ListCache; implements TaskQueue
ThreadPerClient           V1Server + the programs with a thread for each client
                                          <- MCV1Server, ThreadPerClientProofs
```

### ThreadPool

A critical section of `queueMutex` is one action, except that a thread that has
found its predicate false is in a state of its own (`park`, `parkReady`) before
it sleeps: it holds the mutex there, but the destructor does not ask for the
mutex (`ThreadPool.cpp:30-31`), so its steps fall in between. `Enqueue` and
`NotifyOne` are two actions because the code notifies after the lock is
released. `Exit` and `Take` are the two outcomes of lines 18-21. A notification
moves one sleeping worker to `lock`, or is lost. `SpuriousWakeup` may do the
same without one. `finished` is a history variable.

### LRUCache, LFUCache

Each operation holds the cache's mutex throughout, so it is one action. An
element is a cell of a heap; any free cell may be the next one, the cell that
was just freed included, so that a stale pointer can lead to another element.
The LFU list of nodes is modelled with what `std::next(std::find_if(...))` does
in libstdc++'s circular list: past the end comes the first node
(`NextPosition`). A crash (an access to the back of an empty list, or past the
end) sets `crashed`. `lru_time_track` is only printed and left out. The history
modules add when and how often each url was used, which `CachePolicy` needs.

### Sockets, ClientHandler

`Sockets` is what is not in the repository: `fdTable` maps numbers to the far
side of a connection, `close` frees a number whoever has it, and the lowest free
one is given out next. `env`, chosen at the beginning and never changed, says
which program runs, which clients may come, which numbers there are, and what may
go wrong: clients that hang up, reset or send something else, origins that
truncate, abort or cannot be reached, a port that is taken. `recv` may fail before
everything that came is read, and `send` to a peer that has gone is lost, or kills
the process (SIGPIPE). An origin may close or reset before it was sent anything
(`Leave`), or when it has been sent the request (`Answer`).

`ClientHandler` has one action for what a thread does between two system calls
or cache operations, in the order of `ThreadPoolServer.cpp:37-132`;
`SemaphoreServer::datafromclient` is the same statements. `frame[w]` is the stack
frame. `ServeCached` reads the heap through `cached_response`: if the cell has
been freed, anything may be sent, or the process crashes. A request, and a part
of a response, is one item; its text is `RequestLine`'s and `HeaderTable`'s
business.

### V1Handler

`datafromclient` of `proxy2.cpp` and `proxy3.cpp`, which have it word for word
alike. It takes the steps of `ClientHandler`, and differs in what a failure does:
a `send` that returns -1, an origin that cannot be reached, and a connection that
breaks in the middle of a response all call `exit(1)`. What is written to a client is
copied as a string first although it has no terminator, a cached response (line 253 of
`proxy3.cpp`) and the buffer that `recv` has filled (line 279) alike, so that the copy
may run off the end of the memory (`CopyRunsOff`).

### ThreadPoolServer, V1PoolProxy

`ThreadPoolServer` takes `TaskQueue` for the pool, which `ThreadPoolProofs` shows
the pool to implement, so the pool's own interleavings are not explored again.
`AcceptFails` changes nothing; it is the loop going round. `V1PoolProxy` adds
`proxy2.cpp`, told apart by `env.program`: its task closes the client's number a
second time (`CloseAgain`), and without a socket it does not go round.

### SemaphoreServer, V1SemaphoreProxy, Startup

`SemaphoreServer` has the semaphore, `running`, the second `close` of a client's
number (`CloseAgain`), and `start`: a failing socket throws, workers run while
others are created, SIGINT clears `running`, and `start` joins. `accept` is not
interrupted by SIGINT, since `signal` installs handlers with SA_RESTART.
`V1SemaphoreProxy` adds `proxy3.cpp`, which has the same workers with the handler
of `V1Handler`.

`Startup` puts `main` and the factory in front of both. An argument is a name, a
number, or what `std::stoi` refuses; `MakeServer` and `MakeFails` are the two
outcomes of `main` up to `start`, and the capacity of the cache is what they make
of the arguments: an `int` that becomes a `size_t`, where a negative one becomes
`Huge`. A `Threadpool` server is not started here, as `ThreadPoolServer` begins
there.

### RequestLine, HeaderTable, ProxyRequest

`RequestLine` keeps three kinds of characters: `:`, `/` and the rest, which is
all that the parser distinguishes within an address. `NextToken` is `strtok_r`.
`AbsUriLength` is the length that the code computes by stepping over the
protocol and three characters, whatever these are. `PrintedAddress` and
`requestLineLen` are the two sides of `ParsedRequest_unparse`: what it prints and
what its callers allocate. `HeaderTable` is the table with its slots, used and
allocated, from `ParsedRequest_create` to `ParsedRequest_destroy`. The key of a
line without a colon runs on into later lines and a value starts two characters
after the colon, both as in the code.

### ClientQueue, ListCache, V1Server, ThreadPerClient

The queue of `v1` is a list of heap cells with head and tail; the node is made
before the lock is taken, as in `enqueue`. `ListCache` is the steps of
`handle_client` over the cache. An add to a full cache waits for the lock it has
(lines 548 and 513): step `remove`, which nobody leaves. `Stop` is the end of the
process: `exit` when `accept` fails, or a `send` to a client that has gone.

`ThreadPerClient` adds the two programs that came before, told apart by
`program`. A client is the number of its slot; `socket[t]` is what thread `t` reads
through the address it was given, when it has its permit, which may be much later.
`open` counts the descriptors of connections: `failed` ones are never closed, nor
is any origin's in the version without the cache. `LookUp` may miss what is cached,
since the key that is looked up is not terminated. When `main` runs off its arrays
the model stops.

## 3. The runs

| Run | States | Shows |
|---|---|---|
| `ThreadPool_tasks` | 3,741 | three workers, three tasks, a spurious wakeup: type, start-up barrier, no lost wakeup, every task accounted for, drained when joined, refinement of `TaskQueue`, every task finishes |
| `ThreadPool_shutdown` | violation | the destructor may join for ever |
| `LRUCache_policy` | 77,638 | capacities 0, 1, 2 and six uses: consistency, no crash but for capacity 0, refinement of the LRU policy |
| `LFUCache_structure` | 156,022 | the same for the LFU cache: consistency, the first node has the highest frequency, refinement of the policy that may discard any element, but only to make room |
| `LFUCache_policy` | violation | the LFU cache discards a response that was used more often than another |
| `ThreadPoolServer_serving` | 2,830,580 | four environments: one owner for each descriptor, right responses without eviction, only whole responses cached, the process ends over a client, or over an origin that left before it had its request |
| `ThreadPoolServer_turns` | 286,407 | the server with three clients, `proxy2` with up to three, two workers: every client gets a turn, although no client has to send anything |
| `ThreadPoolServer_stale` | violation | a cached element is freed between `find` and the write |
| `SemaphoreServer_permits` | 427,094 | nine servers, `proxy3` with three clients among them, and every kind of command line: permits conserved, the reasons for which the process ends, one LRU cache of the size asked for, SIGINT noticed |
| `SemaphoreServer_responses` | violation | the second `close` cuts another worker's client off |
| `ProxyRequest_parsing` | 75,886 | all URLs of up to eight characters, all requests of up to three header lines |
| `V1Server_clients` | 99,920 | three clients in each of the three C programs: the queue and its refinement of `TaskQueue`, the cache, the threads and their descriptors, no client forgotten |

**Bounds.** Three workers let one sleep while two compete for a task; every pair
of roles (sleeping, on its way, running, exiting) occurs. Three cells and three
urls for capacities up to two make evictions of every position, reuse of freed
cells and a cell to spare. Six uses reach every order of the nodes of the LFU
list with three elements, nodes of equal frequency included.

In `ThreadPoolServer_serving` three clients, two of them on one url (on two ports)
and one on another, let two workers miss together, hit while the other relays, and
evict; a fault environment has two clients, as one must be able to disturb another,
and three descriptors, one less than both need at once. A response has two parts so
that it can be cut. In `ThreadPoolServer_turns` three clients and two workers make
one wait, and two descriptors for two clients that are served leave none for an origin.

In `SemaphoreServer_permits` each program has descriptors enough, too few, or an
origin that fails; there are clients of one url and of two, and caches for one response
and for none, so that responses are found, evicted and cannot be stored; and `proxy3`
has three clients for two workers, as only then a second `close` can make a worker
that relays read from a client that no worker serves. The command lines are all of the
three names of a server, the three of a cache, and six values for each of up to three
numbers, plus none and one too many; they end at a port that is
taken, so that they do not multiply the servers. `Huge`, 100000, stands for the 2^64 - n
a negative size becomes: no cache of the model ever holds as much as any of the
capacities but 0, 1 and 2.

Eight characters give every address `x://h:p/y` with a part of two characters, a
missing or doubled separator at each place, and the short addresses for which the
test of lengths looks past its text. The table starts with one slot
(`DefaultNhdrs`; the code has 8) so that it grows several times within three lines
and two rewritten headers; with three lines a key can stand alone, twice and three
times, between others and removed.

In `V1Server_clients` sizes 2, 3 and 8 in a cache of 7 units, where an element may
take 6, make elements that fit, that do not fit any more, and that are too large.
Five descriptors for three clients and their origins are one too few. No run uses
symmetry.

**Deadlock** is not checked where a bound or the end of the process stops the
system; each `.cfg` says which.

**Fairness.** Weak fairness of each thread's own steps: a thread that can run is
run in the end, as the scheduler does it, and a mutex that is free is got. Nothing
is assumed of the caller's choice to enqueue or destroy, of spurious wakeups, of
SIGINT, or of clients connecting. Origins are assumed to answer, or to fail, since
the code has no timeout for them. In the runs of the C++ servers nothing is assumed
of clients: the code has no timeout for a silent one either, and what follows is in
the property and not in the fairness. `EveryClientGetsATurn` holds unless silent
clients hold every worker for ever (`AllHeldUp`), and `WorkersNoticeSigint` leaves
out a worker that a silent client holds up (`IsHeldUp`) and one blocked in `accept`. A
client holds up the worker that waits for its request, and, where numbers are closed
twice, a worker that waits for its origin's response while the number it reads from
has come to lead to that client. In
`V1Server` and `ThreadPerClient` a handler's steps up to `fetch` are fair, so that
there clients send or leave in the end, and origins answer or fail.
`EveryClientIsSeenTo` leaves out by name a full cache, the end of the process, and a
client for which no thread could be created.

## 4. What disagrees with what is said of the code

* `ThreadPool.cpp:28-34`: the destructor may never return. No server that
  runs destroys its pool, since `start` never returns.
* `LFUCache.cpp:87-94` against README.md:103: what is discarded is not the least
  frequently used. The list of nodes does not ascend; its first node has the
  highest frequency of all (`FirstNodeIsTheHighest` holds), and new elements join it
  whatever that frequency is.
* `ThreadPoolServer.cpp:107-117` against README.md:91: a cached response may be
  freed while it is written. `RightWhileNothingIsEvicted` shows that this is the
  only way in which a calm world gets a wrong response for its url.
* `SemaphoreServer.cpp:70` and `215` against README.md:91: a descriptor is closed
  twice.

Observed while modelling, without a run of their own:

* README.md:64 names the number of threads as an option. `main.cpp:29` reads it and
  `ServerFactory.cpp:12` drops it: every server has its default number of threads. A
  negative cache size is accepted and is no limit, a size of 0 is accepted and
  crashes the first add, a port above 65535 is taken modulo 65536.
* A thread pool server whose port is taken goes round for ever
  (`ThreadPoolServer.cpp:20-30`).
* `benchmark.py:110` starts a server type `semaphore` that the factory does not know.
* An origin that closes or resets before it has been sent its request can end the whole
  server: `writeToSocket` (`ProxyUtils.cpp:119`) sends without MSG_NOSIGNAL, and nobody
  handles SIGPIPE. `EndsForACause` and `EndsForAReason` name this reason.
* A header `key:value` without a space loses a character although
  `proxy_parse.h:48-49` gives this format. A line without a colon, or with nothing
  behind it, takes in the line that follows (`proxy_parse.c:234-244`): if that is a Host
  or a Connection, it is not replaced, and is printed for the origin inside the other
  header. `SendsRewrittenHeaders` says that this is the only way.
* A port that is no number is not rejected
  (`proxy_parse.c:503-505`); the cache key has no port (`ThreadPoolServer.cpp:104-105`).
* `proxy2.cpp` and `proxy3.cpp` close a client's number twice too (lines 503-506 and
  483), end as a whole when one origin cannot be reached or breaks off, and copy what
  they serve and what they relay without its length (`proxy3.cpp:253`, `279`).
* A full cache stops every worker of the C programs
  (`v1/proxy_server_with_threadpool_and_cache.c:567`).
* `proxy_server_with_cache.c` looks its cache up with a key that is not terminated,
  so that what is cached may be fetched again: `CopiesAreFromRaces` leaves this
  program out. It does not close the socket of a connection that failed (line 138),
  and `proxy_server_without_cache.c` closes no origin's socket at all; `accept` fails
  in the end and the process exits. Both run off their arrays after `MAX_CLIENTS`
  clients, and neither looks at what `pthread_create` returns.

## 5. The proofs

Assumed are only the named assumptions on constants in the modules, which TLC
also evaluates in the runs. They say that sets are finite where the program's are,
that limits are numbers, and that the values that mark something (`Free`, `Null`,
`NoFd`, `Removed`, ...) are none of the values they are told apart from.

**ThreadPoolProofs**, for any finite set of workers and any bounds. `TypeOK` is
inductive together with `Busy`: a worker has a task exactly while it runs.
`StartupBarrier` needs that `readyThreads` is the number of workers that have
announced themselves (`Barrier`), as the code compares numbers only.
`DrainedWhenJoined` needs `Stopping` (a worker has exited only if the pool stops
and the queue is empty, and it stays empty because nobody enqueues any more) and
`Parked` (who is about to sleep holds the mutex, and what it saw of the queue is
still so), and `Accounted`, which adds to `TasksAccountedFor` that what has
finished was taken. `NoLostWakeup` is inductive relative to these: it is
`Parked` that excludes a task that comes between a worker's predicate and its
sleep. The refinement has a step for each action: `Enqueue` maps to `Submit`,
`Take` to `Start`, `FinishTask` to `Finish`, everything else to a stutter.

**LRUCacheProofs**, for any urls, values, memory and capacities. The invariant is
`TypeOK`, `Consistent`, `CapacityRespected` and `CrashOnlyWithoutRoom`.
`Coherent` restates `Consistent` of any list, map and memory, so that the two
halves of `add`, evicting and storing, are one lemma each (`RemovedCoherent`,
`AddedCoherent`) over lemmas about moving, erasing, popping and pushing in a list
without duplicates. The refinement of `CachePolicy` needs `MostRecentFirst`: the
list is in the order of `lastUse`. Each list operation keeps the order of what
stays (`KeepsOrder`), and what is used goes to the front with the newest time; so
the last element, which `evict` takes, is the victim the policy names
(`EvictedIsLeastRecent`).

**LFUCacheProofs**, for any urls, values, memory and capacities. The invariant is
`TypeOK`, `Consistent`, `FirstNodeIsTheHighest`, `CapacityRespected` and
`CrashOnlyWithoutRoom`. `Coherent` is `Consistent` of any *set* of nodes, map and
memory: the order of the nodes matters only to `FirstIsHighest` and to which element
goes. An operation takes an element from one node and files it in another
(`TakenCoherent`, `FiledCoherent`, `EmptyNodeCoherent`), and a node is dropped when
it is empty. `FirstNodeIsTheHighest` rests on where `std::next(std::find_if(...))`
leads in the circular list (`NextPositionLemma`): behind a node whose frequency is at
least the one looked for, or, when there is none, to the front. So a node that is made
there is either below an older one or above all and first (`GrownLemma`). The refinement of `CachePolicy` with
any victim has a step for each operation; what it adds is that an `add` discards one
element at most, and none unless the cache is full (`KeptLemma`).

**ClientHandlerProofs** has the lemmas on one step of a handler that both servers
use: its types (`HandlerKeepsTypes`), and what the operations of the cache keep of
`Filed`, that the map leads to an element of that url (`CacheKeepsTypes`,
`AddNewFiles`); and `NothingIsEvicted`: as long as the capacity is not less than the
number of urls (`RoomForAll`) and the list is as long as the map is large
(`HasRoom`), a url that is added finds room, so nothing is freed and `add` does not
crash.

**ThreadPoolServerProofs**, for any workers, clients, descriptors, environments and
faults. `DescriptorsHaveOneOwner` counts owners; the invariant behind it, `Owned`,
names them instead: what is in the queue leads to a client (`QueueOwns`), what a
worker serves leads to a client and is in no other hands (`WorkersOwn`), what it
fetches over leads to its own connection (`OriginsAreOwned`), and what is open has
one of these owners (`NoneIsLeaked`). `HandlerSteps` reduces the handler's actions to
five effects on descriptors (goes on, opens, gets none, closes the origin, closes the
client), so that each part of `Owned` has five cases and not fourteen. That the
number the kernel gives out is free (`LowestFdIsFree`) is a minimum of a set of
numbers, by the library's well-foundedness of `<`. From `Owned` alone it follows that
a worker's client is connected from `recv` to `close`, whatever the others do.
`EndsForACause` needs two things more. `Apart`: a client's inbox has only what clients
send, and an origin to which its worker has not written was sent nothing; so an `exit`
comes from a client, and a signal from a client or from an origin that went before its
worker wrote to it (`ExitsForACause`). And `KeepsWhatIsServed`: while the cache has room
for every url, a worker that is about to serve an element has one that is there, so that
a crash needs an eviction. What an origin does once it has its request, cutting its
response short included, ends no process here.

`TypeOK` is inductive with `Owned` and `HandlerTypes`, which adds that a handler has
its request from the moment it is parsed. `CachesWholeResponses` needs `Caching`: with
`Filed`, `Fetches` for each worker, which ties what it has received, what is on its
way, and what its origin was asked for together. While it relays, what has come and
what is still to come are one response from its beginning (`IsTaken`), or the
connection has been reset; it gets to `add` over a connection that was closed and is
empty, so with all of it. That other workers do not interfere (`HandlersTouchOwn`) is
`Owned` again: they have other descriptors, so other endpoints.

`RightWhileNothingIsEvicted` is proved for instances with as many descriptors as there
are clients and workers (`EnoughForAll`, which the run's calm world meets with five
for three and two). It needs that: with fewer, a connect to an origin can fail for
want of a descriptor, and the client is sent nothing. The invariant is `Serving`, while
the world is `Quiet`. Each worker's client has been sent nothing, what has been
relayed so far, or a whole response of its url (`Serves`); a client waits in one
place (`OnePlace`) and is sent nothing before a worker has it (`Unanswered`); nobody
breaks off (`Behave`); and the cache has room (`HasRoom`). This last one is what makes
`find` and the use of its pointer safe without a lock: nothing goes
(`NothingIsEvicted`), and an element that a worker is about to serve is still that of
its url. That a worker gets a descriptor for its origin
(`DescriptorIsFree`) is the pigeonhole principle over `Owned`: if none were free, all
would lead to different endpoints, of which its own origin is none. When a client is
closed, `Answered` follows from `Serves`.

Two refinements join the server to its parts. `ServesInTurn`: its queue and workers
are a `TaskQueue`, which `PoolImplementsQueue` proves of the pool. `SharesLRUCache`:
what all workers together do to the cache is a behaviour of `LRUCache`
(`SharedCache`), so what `LRUCacheProofs` proves of every such behaviour, `Consistent`
before all, holds of the cache of the server. In this mapping `crashed` is FALSE: a
crash, of an `add` without capacity or over a freed element, ends the process and is
not a step of the cache.

**StartupProofs**, for any number of workers and both programs. `PermitsConserved`
is inductive with the types of what it counts: a worker is a holder exactly between
its wait and its post. `EndsAtRest`, the first conjunct of `EndsForAReason`, needs
that a frame is in use only while its worker is in `handle`, that workers leave only
when `running` is cleared, and that `start` returns only when all have ended; then
`PermitsConserved` gives the value of the semaphore that is destroyed.
`StartupTypeOK` needs `AsMade`, that what is there is what `main` makes of its command
line, and `LoopTypes`, the types of the loop of a worker, as `Startup` puts a program in
front that makes the server's capacity.

The rest of `EndsForAReason` says why a process ends before `main` returns, while its
clients behave (`ClientsBehave`). A worker *has lost* a number (`HasLost`) when it no
longer leads where the worker opened it. The invariant is `Linked`: who is connected
has come (`ClientsHaveCome`); an origin is behind one number at most, that of a
worker that fetches (`OriginsAreHeld`); and an origin whose worker has yet to write to it was sent
nothing, unless another worker has the same number (`OriginsAreFresh`), and that one
has then lost its own. `HandlerTalks` reduces the
steps of the handlers of both programs to those that talk, and those that open or
close a number. So a `SIGPIPE` or an `exit` in a handler has its cause
(`ExitHasCause`): a lost number, an origin that left before it was written to
(`OriginLeft`), or, in `proxy3.cpp`, an origin that cannot be connected to or breaks
off. The cause is still there in the state in which the process ends
(`CauseStays`). For crashes the invariant is `Cached`: while there is room for
every url, nothing is evicted, so who serves an element reads one that is there, and
only
the copies without a terminator in `proxy3.cpp` are left.

`SharesLRUCache` states of this server what it states of the thread pool server, with
one thing more in the mapping: `LRUCache` has its capacity from the beginning, and
`main` makes the cache later. So the capacity is mapped to the one that the command
line asks for (`AskedCapacity`), which never changes, and from the moment that there
is a server the cache is of that size (`IsOfAskedSize`).
`SharesOneLRUCache`, which the run checks, says the same in terms of what the workers
do: which url has been used, and what that makes of the contents. Its `AfterUseOf`
selects from a sequence (`SelectSeq`), which is a recursive definition, so the property
stays with TLC.

**ThreadPerClientProofs**, for arrays of any length, any number of clients, workers
and descriptors, any memory and any sizes. The invariant is `PerClientInv`.

* `Keeping`: a slot that was given out holds its own number, and a thread has read
  nothing else (`Slots`); those that are handled have a permit each, and there are no
  more threads than permits, so that nobody waits (`Permits`); the cache's steps are
  those of threads being handled (`Calls`); and what is open is counted
  (`Descriptors`).
* `QueueInv`: there is a sequence of different cells which `next` follows from the
  head to the null pointer, with the tail at its end and everything allocated in it.
  The operations change this sequence by an element at either end. That it is the
  only one (`OneChain`) is shown by the least place where two would differ; so the
  mapping of the refinement, which chooses a chain, has the one that the proof names,
  and `Enqueue` is `Submit`, `Dequeue` is `Start` of its first client.
* `CacheTypes` and `Sized`: `cache_size` is the number of units of all elements. An
  element that is pushed moves every other by a position, which is a bijection of
  units (`ShiftedUnitsCount`).
* `Raced`: the copies of a url and the threads on their way to add one are no more
  than the workers, since who finds one does not add.
* `Bounded`: connections that failed belong to threads that have answered.

**ProxyRequestProofs**, for requests of any length, any number of lines, and any
names and texts.

*The table.* `SlotIsAllocated`, `MemoryIsBounded` (the table is at most twice what is
used of it; not a property of a run) and `KeysAreUnique` are inductive together with
the types of the table: `AfterRemoveHasNoKey` uses that keys are unique to show that
removing the first header with a key removes all of them, `SetKeepsInv` that the new
one is then the only one and has its slot. `SendsRewrittenHeaders` needs `Slotted`:
each line has its slot, which holds its header until a later line takes the key
(`SetFillsSlot`). What is printed is a recursive function of the number of slots,
`Printed`; by induction on that number (`PrintedAre`) it is the live ones in order. A
live slot is the last line with its name (`LiveLines`, `LastLinesAreLive`), and the two
that are set at the end come behind all others. A name that begins a line of what is
printed of a header is its whole key, and then that line was replaced if it was one of
the two, or it stands behind a line that runs on (`NamesRunOn`).

*The request line.* What `strtok_r` finds is the least position of a delimiter, which
exists and is the only one (`FirstInIs`, `TokenIs`, `AnyToken`). `AddressParses` says
that an address put together from a protocol, a host, a port and a path, with or
without the second slash that nobody looks at, parses to just these.
`ParsesAddresses` is this lemma with what was typed, and `RoundTrip` with what is
printed (`PrintedAddressIs`), once it is known of what was accepted that its parts
have no delimiters in them (`AcceptedParts`). The invariant is `Parsing`: what is
parsed was parsed from the url of the request.

`RequestImplementsTable` is that the composition changes the table only as
`HeaderTable` says, so that the theorems of the table are theorems of the whole.

**How induction is done.** The library's induction theorems take an operator as a
parameter, which the provers here cannot instantiate. Where an induction over the
natural numbers is needed (the least free descriptor, two chains, tokens,
`PrintingExists` and `PrintedAre`), the set of counterexamples is named, and
`WFMin` gives its least element, from which a contradiction follows.

**Model-checked only.** Liveness (`EveryTaskFinishes`, `EveryClientGetsATurn`,
`WorkersNoticeSigint`, `EveryClientIsSeenTo`), which this prover does not reach, as
it does not reach ENABLED; and `SharesOneLRUCache`, for its recursive definition, in
whose place `SharesLRUCache` proves that the specification `LRUCache` is implemented.
Every other invariant and action property that a run checks is stated by a theorem,
`RightWhileNothingIsEvicted` for instances with descriptors enough.

## 6. Not modelled

* The destructors of the caches, since no server is destroyed while in use, and the
  destructors of static objects that `exit` runs while other threads go on.
* The bytes of requests and responses: the receive loop's buffer and its limits,
  `ParsedRequest_totalLen`'s sum over the headers, the minimum and maximum length of
  a request, a second parse into one object; failing allocations; logging.
* A `recv` that is blocked when another thread closes its number: the model lets it
  return when the number is used again or its peer acts; the kernel may keep it
  waiting. This can happen only where a descriptor is closed twice.
* What is undefined: behind the end of the arrays of the C programs the models stop.
* In `v1`: `remove_cache_element`'s body, which no call reaches; error pages and the
  wording of responses; `handle_request`'s rewriting of the headers, which sets Host
  only if it is missing. `convert_Request_to_string` of the C++ programs makes the same
  calls in the same order as `convertRequestToString`, which `HeaderTable` models.
* The servers over the LFU cache: the handler uses no more of a cache than `find` and
  `add`, but the LFU cache's stale pointers are to elements of other lists.
* `benchmark.py`, a client that measures; the makefile; the built executable.

## 7. What is left

A module of the receive loop, with its buffer and its limits, and the handler over the
LFU cache.
