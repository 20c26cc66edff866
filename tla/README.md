# Verification of libplctag

The repository holds **libplctag**, a C library that reads and writes variables ("tags") of
industrial controllers over EtherNet/IP and Modbus TCP (`src/libplctag/`), and a small Qt program
on top of it (`src/*.cpp`). This directory models the library in TLA+: its tags and their operations
in every protocol, its connections to the PLCs, its lists of connections, and the tables and
platform calls below them. TLC checks the models on small instances; TLAPS proves, for every value of
the constants, the safety of the tag table, the handle table and the lists of connections, that a tag's
request and its flags fit, that slots and replies of a Modbus PLC belong together, that a session is a
first-in first-out queue with exact counts, and what a session and a socket leave behind.

Paths below are relative to `src/libplctag/src/`; `lib.c` is `libplctag/lib/lib.c`, `session.c`,
`ab_common.c`, `pccc.c`, `eip_cip.c` and `eip_cip_special.c` are in `libplctag/protocols/ab/`, `conn.c` and
`omron_*.c` in `libplctag/protocols/omron/`, `modbus.c` in `libplctag/protocols/mb/`, `rc.c`, `vector.c`
and `hashtable.c` in `utils/`, `platform.c` in `platform/posix/` unless Windows is named.

## 1. The system

An application calls `plc_tag_create/read/write/status/abort/destroy` and the data accessors from
any thread. Every tag is a reference-counted object with an `api_mutex`, found by an integer handle
in one table. Behind the calls work several threads of the library:

```
 application threads ──calls──► lib.c ──vtable──► eip_cip.c, pccc.c, …  ──requests──► session.c ──► PLC
        ▲                        │ handle table   omron_*_tag.c         ──requests──► conn.c ─────► PLC
        │ signals, callbacks     │ tags, counts                            (handler thread per session)
        └──── tag tickler ◄──────┘
              (one thread)                └─vtable──► modbus.c (handler thread per PLC) ──────────► PLC
```

### Inventory

| Part | State it keeps | Operations | What is hard | What makes it correct |
|---|---|---|---|---|
| Handle table and counts (`lib.c`, `rc.c`) | `tags`, `next_tag_id`, `library_terminating`, one count per tag | create, lookup, destroy, the tickler's scan, shutdown | pointers read from the table while another thread removes the tag; error paths of the creation; the last reference may be anybody's | counts equal references; no use after free; cleanup once and alone; no leak; shutdown returns |
| Tag operations (`lib.c`, `ab_common.c`, `eip_cip.c`) | in-flight, in-progress and completion flags, request pointer, fragment offset, dirty mark, abort flag, condition | read, write, status, abort, setters, automatic read and write, request build/check/abort | flags set outside the mutex; an answer that meets an abort, a timeout or the next operation; fragments; a pre-read before the first write | request and flags fit; operations start at offset zero; OK means done; waits and operations end; set data is not lost |
| Kinds of tags (`eip_cip.c`, `eip_cip_special.c`, `pccc.c`, `eip_lgx_pccc.c`, `omron_*.c`) | as above, and the data | a vtable each: start, tickle, build, check, abort | fifteen variations of one life cycle, each with its own error paths; data that arrives in parts; bits written through masks | never a request without an operation; a read that is OK is whole; other bits are kept |
| Data accessors (`lib.c`) | data buffer, byte order | get and set numbers, bits, bytes and strings; resize | byte orders and string layouts set by attributes; sizes at the edge | what is set is read back; nothing else changes |
| AB session, Omron connection (`session.c`, `conn.c`, `vector.c`) | connection state, request queue, bundle, payload size, stop flags | add, abort, pack, send, receive, unpack, push back, reconnect, destroy | the queue is unlocked between the steps; failures in every state; late replies; retries | counts equal owners; FIFO; answers match; every request answered; destroy returns |
| Lists of sessions, connections and Modbus PLCs | list, counts of their members | find or create, start, remove, teardown | two tags create and the last one leaves at once; initialisation outside the mutex | counts exact; nothing freed while in use; one per PLC; teardown returns |
| Modbus PLC (`modbus.c`) | connection state, tag lists, request slots, sequence number, one send and one receive buffer | tickle all tags, request, reply, restart; read/write/abort/destroy | few slots; replies to operations that are over; reconnection in the middle; packet counter | slots owned; reply fits; OK moves all; operations end |
| Handle hash table (`hashtable.c`) | places, size, count | get, put, remove, grow | bounded probing, holes | behaves as a map |
| Mutex, condition, thread (`platform.c`, both) | per object | create, wait, signal, join, destroy | a signal before its wait; a creation that fails half-way | no work is left lying; nothing is left behind |
| Socket and its wake-up channel (`platform.c`, both) | descriptors, connection | connect, wait, wake, read, write, destroy | a wake-up before its wait; a peer that closes; errors in the middle of a creation | wake-ups and closes are noticed; no descriptor leaks |
| Events and callbacks (`lib.c`, `tag.h`) | raised-event and enabling flags, the user's callback, the owner of `api_mutex` | raise, handle, register, unregister, in every API function and the tickler | any thread raises, any thread delivers; callbacks run with `api_mutex` held | told in order and not too often; every end is told; no deadlock |
| Read cache (`lib.c`) | expiry time | read | time | cached data is not older than asked for |
| Module start (`libplctag/lib/init.c`) | one flag, one mutex | start, stop | first two callers at once | started once |
| System tags, attributes, logging, CIP names, byte order | none, or one buffer | parse, format, copy | layouts | pure functions |
| GUI, wrappers, examples, test servers | – | calls of the API | – | – |

`PROJECT.json` lists all of them with what is modelled ("components") and where each hazard bites
("hazards").

## 2. Modules

| Module | Models | Extends | Abstract specification |
|---|---|---|---|
| `TagTable` | life of tags: counts, handle table, create/lookup/destroy/tickler/shutdown | | `TagOwnership` |
| `AbTag` | what all Allen-Bradley tags do with a request (operators) | | |
| `TagOps` | operations on one CIP tag: API calls of several threads, tickler, protocol functions | `AbTag` | |
| `SpecialTag`, `PcccTag`, `CipTag`, `OmronTag` | the vtables of each kind of tag, with data (operators) | `AbTag`, each other | |
| `TagKinds` | one tag of any kind, its thread, the tickler and the PLC | these | |
| `TagData` | the buffer of a tag and the accessors | | |
| `TagEvents` | raised events, callbacks, and the mutexes of the tags | | |
| `AbSession` | request queue and handler thread of a session | `Filter` | `RequestFifo` |
| `Filter` | what a loop that removes elements leaves of a sequence (an operator) | | |
| `OmronConn` | the same of an Omron connection; `EitherSpec`: one of the two | `AbSession` | |
| `SessionList` | finding, creating, starting, destroying sessions; their counts; the end of the library | | |
| `OmronConnList` | the same of Omron connections | `SessionList` | |
| `ModbusPlcList` | the same of Modbus PLCs; `ListSpec`: one of the three | `OmronConnList` | |
| `Modbus` | handler thread of a Modbus PLC with the operations of all its tags | | |
| `HashTable` | the table of handles, entry by entry | | `HashMap` |
| `Worker` | mutex, condition and thread of a session | | |
| `PlcSocket` | the socket of a Modbus PLC with its wake-up channel | | |
| `…Proofs` | theorems (section 5) | the module they are about | |
| `MC…` | instances for TLC (section 3) | | |

The modules compose along the interfaces of the code. `HashTable` implements the map that `TagTable`
has as `table`. `TagTable` gives the others a tag that exists: `TagOps`, `TagKinds` and `Modbus` may
therefore talk about a tag without counting references. `TagOps` and `TagKinds` see the session as one
action, `Respond`, which hands over an answer some time after a request was queued; `AbSession` is what
stands behind it, and its properties `AnswerMatches` (the answer is to this request) and
`EventuallyAnswered` (there is one) are the assumptions that `Respond` and its fairness make.
Conversely `Submit` and `Release` of `AbSession` are what they do to a request. `TagOps` and `TagKinds`
have the same functions of `eip_cip.c` from two sides: several threads, waits and automatic
operations there, data and every way to fail here. `SessionList` has the session's handler only as a
thread that runs or has ended, and `AbSession` begins when `SessionList` has started it. `AbSession`
waits for its queue and its thread is joined with the primitives of `Worker`; its `Idle` may
go on at any time, and `WorkTaken` is what says that it does. `Modbus` has no such seam: its handler
runs tags, buffers and the socket in one loop, and `PlcSocket` is that loop with the packets reduced
to counts and the socket opened up.

### TagTable (`lib.c`, `rc.c`, `session.c:166`)

A critical block under `tag_lookup_mutex` is one action, `rc_inc` and `rc_dec` one step each
(their spin lock covers just the counter), and the cleanup after a count of zero is a step of its
own, so that another thread can meet a tag that is being cleaned up. `pc[t]` and `ptr[t]` are where
a thread is in the code and the pointer it holds; `doomed[t]` is the pointer `plc_tag_destroy()` took
out of the table. `ptr` carries a reference only at some places (`CountedPcs`): the creator's pointer
does **not** between `add_tag_lookup()` and the return, because the table owns the only reference.
`CreateError` and `CreateFail` are the two kinds of failed creation. `TagIdInc` is the wrap-around of
handles, `AddTagLookup` the bounded search for a free one. Shutdown scans the table, destroys what
it finds, waits for the sessions (that is, for all tags to be freed) and joins the tickler.
Its documentation asks that no other thread is in the library; `ShutdownStart` says so.
`TagOwnership` is the promise without counters: owners join, hand over and leave; the
last one to leave makes the tag die; nobody joins a dying tag.

### AbTag and TagOps (`lib.c`, `ab_common.c`, `eip_cip.c`, condition of `platform.c`)

The protocol's functions are operators on the tag record, named as in the code (`ReadStart` is
`tag_read_start()`, `CheckRequest` is `check_request_status()` …); the ones with a return code give
a pair. A block under `api_mutex` is one action: `Tick` is a whole turn of the tickler thread for
this tag, `Check` the status check after a wait. Outside the mutex, and therefore separate, are the
wait (`Wake`, `WaitTimeout`), the abort flag (`AbortFlag`) and the abort itself (`AbortRun`), and the
end of a call, which clears flags. Field names: `rif`/`wif` are `read_in_flight`/`write_in_flight`,
`rip`/`wip` are `read_in_progress`/`write_in_progress`, `rdone`/`wdone` are
`read_complete`/`write_complete`, `typed` says that a reply has brought the tag's type. `cond` is
the flag that `platform.c` keeps in a condition: a signal before the wait is remembered, two signals
are one. Time is a choice: `due` in `Tick` says whether an automatic operation is due, `Timeouts`
whether waits may run out.

### TagKinds with SpecialTag, PcccTag, CipTag and OmronTag

A kind of tag is a vtable. Fifteen kinds are looked at: raw tags, tag listings, UDT definitions, CIP
tags and bits of them, PLC-5 and SLC words and bits, the same over a DH+ bridge, ControlLogix over PCCC, and
Omron tags, their bits and raw tags. Each vtable function is an operator with the code's early
returns and error exits in the code's order; `f` is what goes wrong while a request is built
(no memory, more than its buffer, more than the session's packets, not taken by the session, a data
buffer that does not grow). Data are as few items as the question needs: a word of two bits for
plain tags, with PLC writes as the pair of masks that goes over the wire; for a listing the entries'
instance IDs, of which a reply brings any number; for a UDT a header and its fields. `Respond` lets the
PLC answer wholly, partly, too short, too long, oddly, with an error, or not acceptably. `PlcChange` is
another program that changes the PLC's word between a read and a write, without which bit masks
would not matter.

### TagData (`lib.c`)

Every accessor maps the tag to the tag after it, the status and the value. `ByteBits` bits make a byte
(2 in the run), so that every width and byte order from 8 to 64 bits is small enough to be enumerated;
byte orders are the permutations of the attributes and may be partial or wrong, in which case creation
refuses them, as the code does. Strings have each layout the attributes can ask for: counted or not,
fixed or not, zero-terminated, padded, with swapped bytes.

### TagEvents (`lib.c:398`, `tag.h:186`)

Events are flags: `Raise` is `tag_raise_event()` with its rules (the end of an operation is raised only if
its start enabled it, the creation is raised once, by itself or before the first end), and
`EnterEvents` to `LeaveEvents` is `plc_tag_generic_handle_event_callbacks()`, which takes what is raised when it
begins, in a fixed order, and clears each flag after the callback has returned. Here the `api_mutex` of
each tag is a variable, `owner`, for callbacks run with it held and may call functions of their `Peer`
(`CallbackCalls` waits for its mutex). It is recursive, so a block in which no callback runs is one action that
needs only that no other thread is the owner. `plc_tag_read()` and `plc_tag_write()` handle their start inside
their block and every other function after its own, which is why they are cut where they are. Of an
operation only `op` and `reply` are left, and `TagOps` has the rest. The ghosts `balance`, `seen` and
`promised` are what the callback was told and what it is owed.

### AbSession and OmronConn (`session.c`, `conn.c`, `vector.c:103`)

A turn of the handler's loop is one action (`Turn` purges aborted requests and goes to the next
state), except for `process_requests()`, which frees the mutex between its blocks and is cut there:
`Idle`, `Take`, `Send`, `Receive`, `Unpack`, `PushBack`. `vector_insert()` of the push back runs
without the mutex and has two halves (`PushBack`, `Inserted`); with `PushBackRace` a tag may append
between them. `wire` is what was sent on the open socket and not read yet, so a late reply really
is the next thing a retry would read. `RequestFifo` is the promise: answered in the order of
arrival, at most once, and taking one back disturbs no other. `OmronConn` names the steps of the copy
one by one: those it shares with `session.c` are the same actions, and those that differ (packing by
the size of the answers too, a first read sent alone, the idle test, retry delays) are its own.

### SessionList, OmronConnList and ModbusPlcList

A tag stands for the thread that creates and later destroys it, and a session has the name of the
tag that creates it. `lock` is the global `session_mutex`, held from `Begin` to `Reuse`, `Create` or
`CreateFail`. The search is not one action, because references are dropped by threads without the
mutex while it runs: `Scan` takes a reference to the next session, `Skip` drops it, and if that was
the last one the thread goes through `RemoveSession` and `Free` (`session_destroy()`) with the mutex still held
(POSIX mutexes are created recursive) and then searches on. `Start` and `StartFail` are
`session_init()`, after the mutex is released. The handler thread is only its life (`AbSession` is
what it does). No tag begins once the shutdown has (`libplctag.h:230`), but those under way go on.
`conn.c` differs in one step, `conn_teardown()`, which marks nothing. `modbus.c` searches in one block
under its mutex (`FindPlc`, `FindDyingPlc`, `CreatePlc`), shares every PLC, puts new ones in front, and
leaves no mark on one whose thread did not start; `FindDyingPlc` is the end of the program (section 6).

### Modbus (`modbus.c`, generic part of `lib.c`)

`tickle_all_tags()` pops tags from the list one by one; each tag's turn is a `Tickle…` action, then
`Generic` (`plc_tag_generic_tickler()`). Both run under the tag's `api_mutex`, so application
actions on that tag wait (`cur # t`), except for those that in the code take no mutex:
`AbortFlag` and `Destroy` (the destructor's `mb_abort()`). A `Turn` is what the loop does between two
rounds. `slots` is `tags_with_requests`; `out`, `in` and `ready` are the two buffers with
`request_ready` and `response_ready`; `wire` is what the server will answer. Sizes are counted in
registers, with the two payload limits of a request and of a response kept apart.

### HashTable (`hashtable.c`)

`entries` are the places, `hash` the value that a key has with this table's salt; which keys
collide is thus a choice over `Hashes`. `hashtable_put()` that finds no place grows the table: the
steps of `expand_table()` (`Allocate`, `Copy`, `Copied`, and starting again with a larger table when a copied key
finds no place; then `PutAgain`) are separate so that each loop is followed; one operation runs at a time, as
`tag_lookup_mutex` makes it. `Memory` is when growing stops. `HashMap` is the promise: a map, in which only
`put` may fail.

### Worker and PlcSocket (both `platform.c` files, `session.c`, `modbus.c`)

`os` chooses the platform. `Worker` is the life of a session's mutex, condition and thread: the owner
creates them (any creation may fail) and destroys them again as `session_destroy()` does, the handler
looks at its queue and sleeps, users queue and signal. `CondSignal` is one step on POSIX and two
on Windows, where the wake-up comes after the mutex is left. `PlcSocket` is a Modbus handler's loop around
`socket_wait_event()`: descriptors are elements of `open`, every system call may fail, the peer may
close, reset or be slow, and `WakePlc` writes into the wake-up channel at any moment.

## 3. What the runs check

Every run asks one question about several systems that have nothing to do with each other or are
variants of one another, so that what they share (the instance, the way of looking) is said once. A
variable that never changes chooses the system: `use`, `look`, `part` in the MC modules, `kind` in
`EitherSpec`, `ListSpec` and `TagKinds`. The systems that are not chosen stay in one initial state; a
property about another system says nothing of such a behaviour, and fairness is that of each system's
own specification. `PROJECT.json` gives each property a mutated definition, a plausible bug, that the run
must catch.

| Run | Instance | Properties |
|---|---|---|
| `table_and_session` | `table`: `TagTable` with 2 application threads, tickler, 3 tags, 2 handles (they wrap), 2 attempts. `session`: `EitherSpec` with 2 requests, silent ForwardOpen, unpack errors, unlocked push back, 2 faults, fair. `events`: `TagEvents` with 1 tag, 1 thread, 2 calls, fair | `CountIsOwners NoUseAfterFree CleanupIsAlone NoLeak ImplementsOwnership AnswerMatches DestroyReturns EndIsTold` |
| `tag_use` | `calls`: 1 thread, 3 fragments, every call, timeouts, aborts. `auto`: 1 thread, reads and setters, automatic writes. `modbus`: 2 tags, automatic reads of 2 packets, 3 slots, wrapping sequence numbers, slow answers, 1 fault. `end`: `TagTable` with 2 threads, 2 tags, early handles. All fair | `OffsetReset CallsMeanDone DirtyKept WaitsEnd OperationsEnd DirtySent ShutdownReturns OkMovesAll` |
| `requests` | `slots`: 2 Modbus tags, writes of 2 packets, 2 slots, one tag read-only and destroyed, lost replies, 1 fault. `calls`: 2 threads on a CIP tag of 2 fragments, refused and unacceptable answers, requests that cannot be built, automatic reads, timeouts | `SlotsOwned ReplyFits RequestFits` |
| `kinds_and_events` | `kinds`: `TagKinds` with 15 kinds, 3 listing entries, 2 UDT fields, every fault and answer. `events`: `TagEvents` with 1 tag, 2 threads, 2 calls. `pair`: 2 tags, 2 threads, 1 call, callbacks that call functions of the second tag. `auto`: 1 tag read automatically, 1 thread, 1 call | `OneRequest ReadsWhole OtherBitsKept ToldInOrder NoDeadlock` |
| `session_order` | `AbSession`: 3 requests, one large, 2 faults, fair | `RefsExact ImplementsFifo EventuallyAnswered` |
| `session_list` | `ListSpec`: 3 tags of 2 PLCs, one unshared, failing creations and starts, shutdown, fair | `CountIsHolders MemorySafe OneSession ServedOrMarked ListTeardownReturns` |
| `parts` | `table`: 3 keys, tables of 2 to 7 places, probe limit 2. `buffer`: 8 bytes of 2 bits, every type. `thread` and `socket`: 2 calls, 2 faults, both platforms, fair | `ImplementsMap RoundTrip OnlyItsBytes WorkTaken NothingLeft NothingOpen CloseNoticed WakeSeen` |
| `ops_lost_error`, `tag_read_writes`, `modbus_foreign`, `modbus_plc`, `events_deadlock` | small | the code violates what it says: section 6 |

Each module has a `TypeOK`, or (in the modules of the proofs) types as part of its inductive invariant, as
its documentation of what the variables are. For the tag table `TypeCorrect` proves it.

Why the instances are large enough:

* `table`: two threads and the tickler are every pair of actors that meet at one tag, in each
  role; three tags over two handles, of which `plc_tag_destroy()` refuses the larger one, force the search to wrap
  and to fail, and a handle to be used again. (Four tags over three handles gave the same invariants.)
  With a number of threads and tags left open the same properties are theorems (section 5).
* `tag_use`, `requests`: two threads can wait, abort and start against each other; two fragments have
  a first and a last, three also a middle one. Several threads are not needed for `CallsMeanDone`,
  which speaks of a thread that is alone; with two it is false (section 6). Two
  Modbus tags compete for slots and see each other's replies; two packets per operation are
  enough to leave a packet counter behind. `SeqIds` is 5 and 4 instead of 2^16; `slots` stops
  before numbers are used again (`SeqWraps = FALSE`), because with 2^16 of them a
  number comes back only after 65535 other packets; `modbus` lets them wrap.
* `kinds`: a listing of three entries has a first, a middle and a last part, and IDs with a gap; a
  bit tag needs its own bit and one other. The words of an SLC, direct and over DH+, are left out of the
  run: every operator that handles them also handles the words of a PLC-5.
* `session`, `session_order`: a bundle needs two requests, a queue behind it a third; a request of size 3 fits the
  smaller grant alone (packing adds 1 to each) and so changes what is bundled. Two faults let a retry
  fail and be tried again. In the Omron half the first request's answer fills the smaller payload.
* `events`, `pair`, `auto`: an event goes wrong between the thread that raises it and the one that
  tells it; application thread and tickler, or two threads, are such a pair, and the creation and two calls
  give each of the seven events a neighbour. Two tags are a deadlock's least number. `EndIsTold` has one thread,
  `ToldInOrder` two.
* `session_list`: two tags of one PLC share or race, a third of another PLC is what a search passes
  over; more tags add no new pair of roles. (Four tags, 3.5 million states, give the same invariants, and
  for any number they are theorems.)
* `parts`: three keys that collide in tables of 2 and 4 places make holes, growth and growth in the
  middle of growth; `Memory` lets the last growth fail. Bytes of two bits keep eight-byte numbers
  apart in every position. Two calls and two faults let each failure meet the one after it.

Bounds: `MaxFaults` (failures of the network, of the PLC, or of system calls), `MaxWire` (unanswered
packets), `SeqIds`/`SeqWraps`, `MaxAttempts`, `TagIdMask`, `MaxCalls`, `MaxChanges`, `Memory`, `IdRange`, one
allocation per tag object, one use per request object, one racing addition per insertion, and a session
that fails at most `MaxFaults` times before its liveness is asked for. Removing the fault bound makes
liveness false for the right reason: a network that always fails lets nothing through.

Reductions: `VIEW
LookControl` in `requests` merges states that differ only in data, result codes and ghosts, on
which neither the guards nor the three invariants depend. In `modbus` and `calls` one order of the
alike Modbus tags in their list is enough.

`CHECK_DEADLOCK FALSE` is set because every system here may rest: all tags destroyed, all requests
used, the session gone.

### Fairness

* `TagTable`: a thread inside a call goes on (the calls block only on short mutexes); the tickler
  reaches its loop condition again and again (strong fairness on `TicklerStop`, since its scan of the
  table is a bounded loop). Nobody is obliged to call anything.
* `TagOps`: the tickler thread loops and time passes, the session answers or fails every request
  (`EventuallyAnswered` of `AbSession`), a thread inside a call goes on. Timeouts are never forced, so
  `WaitsEnd` says that a wait ends without them.
* `AbSession`, `OmronConn`: all waits of the handler have a time limit but the one for the reply to a
  ForwardOpen, so the handler goes on (weak fairness of the whole loop), and whoever destroys the session
  waits for the thread.
* The lists: a thread inside the library goes on, a handler looks at its flags at every turn,
  the teardown polls, and `plc_tag_shutdown()` destroys every tag (that it does is
  `ShutdownReturns` of `TagTable`). Before a shutdown no tag is obliged to leave, and after a crash nothing
  is obliged.
* `Modbus`: the handler loops (weak fairness), and what it waits for (connection, end of a delay, room
  to send, a packet) comes in the end although it may often find nothing (`Nothing`): strong
  fairness of `Progress`. A server that never answers is only in runs without liveness.
* `Worker`: each thread runs (weak fairness), but the timeout of a wait (`SleepEnds`) is never forced: the
  signals have to do it.
* `TagEvents`: threads in the library go on and callbacks return; a thread that waits for a mutex which is free
  again and again gets it (strong fairness; `pthread_mutex_lock()` promises no order, but nobody here holds a mutex
  for ever or retakes it in a loop without a pause); the tickler comes to every tag and finds its mutex
  free in the end, and the PLC answers well or badly.
* `PlcSocket`: the handler and the application run, a pending connection is established, bytes on the
  wire arrive. A connection that is tried again and again is made in the end, and a peer that
  keeps taking bytes takes the whole request (strong fairness: faults are bounded). The timeout
  of the wait is never forced.

## 4. Properties worth a remark

* `CountIsOwners` counts references from the table, from each thread's pointer and from each
  destroyer; it fails for one forgotten or repeated `rc_dec()` on any error path.
* `ImplementsOwnership` adds the order: nobody joins a tag after the last owner left.
* `RequestFits` and `OneRequest` are what keeps an answer from being taken for another operation's: a
  request exists exactly while one of the two in-progress flags is set, whoever aborts, times out or
  retries (`RequestFits`, several threads), whatever fails and in every kind of tag (`OneRequest`).
* `OkMeansRead`/`OkMeansWritten` use a ghost (`answered`): the PLC completed the operation *during the
  call*. `CallsMeanDone` is both, the first where the PLC refuses nothing.
* `ReadsWhole` is about reads in parts: the parts join without a gap or a repetition.
* `OtherBitsKept` needs another program that writes to the same word: `PlcChange`.
* `OffsetReset`, `OkMovesAll` are about what an abandoned transfer leaves for the next one.
* `WaitsEnd`, `OperationsEnd` and `DirtySent` promise less than one would like, and their formulas say so.
  All three are asked of behaviours in which nothing is aborted and no wait runs out (`Undisturbed`);
  the last two also assume that every request can be built and every reply is accepted
  (`NothingRejected`). For Modbus, `OperationsEnd` assumes more slots than tags, while
  `max_requests_in_flight` is 1 by default, and no calls of the application (`Unaided`); its instance has
  automatic reads of two tags, three slots and one fault. Without these conditions the code leaves
  operations unfinished: `lib.c:319`, `lib.c:671`, `eip_cip.c:212`, `modbus.c:459` and `modbus.c:1316` in section 6.
* `ImplementsFifo` maps the queue and the bundle to one line of pending requests: push back must
  restore the order in which they came.
* `MemorySafe` and `CountIsHolders` of the lists cover the moment in which a session is listed
  with a count of zero; `OneSession` is what `share_session` is for.
* `ReplyFits` compares what a waiting tag would take with what the server really answered.
* `ImplementsMap`: a removal leaves a hole in a probe sequence, and growth moves everything, part of it
  twice; neither may hide a handle.
* `ToldInOrder` lets an operation's end be told later or merged with another, as flags do, but never
  twice for one start, although the tickler and the waiting call both raise it.
* `EndIsTold` is about flags that the tickler leaves raised when it finds the mutex taken, and about
  operations that end by abort, timeout or error: whoever is next must tell.
* `NoDeadlock` is asked where callbacks use each other's tags one way only; both ways they deadlock (section 6).
* `WorkTaken` and `WakeSeen` never rely on a timeout, although the code has them everywhere: with the
  timeouts, a lost signal would be a delay of up to a second and no test would see it.

## 5. Theorems

**`TagTableProofs`**, for every set of threads and tags and every `TagIdMask`, `MaxAttempts` and
`StartId` that the assumptions of `TagTable` allow:

* `TypeCorrect`: `Spec => [](TypeOK /\ PointersFit /\ TicklerFits)`, with and without early handles;
* and, if the application learns a handle only when `plc_tag_create_ex()` returns (`EarlyHandles =
  FALSE`, a hypothesis of these theorems; with early handles they are false, section 6):
  `Invariance`: `Spec => []IInv`, and its consequences
  `CountsExact`, `MemorySafe`, `CleanupExclusive`, `LeakFree`: `CountIsOwners`, `NoUseAfterFree`,
  `CleanupIsAlone`, `NoLeak` are invariants; and `Implements`: `Spec => ImplementsOwnership`, for which each
  lemma about an action also shows that its step is a step of `TagOwnership` or a stutter.

Why the properties are not inductive by themselves: a thread with a counted pointer may drop it
safely only if the count equals the number of owners, which needs that count to be finite and every
owner distinct (`FiniteCount`); the creator uses a pointer without a reference of its own, which is
safe only because no one else knows the handle (`CreationIsPrivate`) and so the table keeps its
reference; the shutdown frees tags by the stored handle, which must be the handle the table has
(`HandleStored`, `ShutdownKeeps`), while no other thread is inside (`ShutdownIsAlone`). `IInv`, which TLC
checked before it was proved, is the conjunction of these parts, and one lemma per action (or per kind of step that several actions share,
like `RcDecKeeps`) shows that the step keeps each part it can disturb; lemmas about `Owners` (what adding, moving and removing one owner does to the set and to its
cardinality) are stated once.

**`TagOpsProofs`**, for any set of threads, any calls, answers, number of fragments and mode:
`TagInvariant` (`Spec => []IInv`) with `TypeCorrect` (`[]TypeOK`), `RequestKept` (`[]RequestFits`: there is
a request exactly while a read or a write is in progress), and, if building a request never fails
(`FALSE \notin Builds`), `OffsetsReset` (`[]OffsetReset`). The conjuncts that `IInv` adds are that a tag
without a type writes nothing but its pre-read, that only a read waits for a further fragment and only
while one is left, and that read and write are never both in progress. The protocol's functions are
operators on the tag record that call each other, so each has a lemma about any record that fits, and an
action is the composition of such lemmas. That `OffsetReset` needs its hypothesis is a finding of
the proof (section 6, `eip_cip.c:1664`).

Three more theorems of `TagOps` have hypotheses, each of which TLC showed to be needed:

* `DirtyDataKept` (`[]DirtyKept` on a tag that is written automatically), if nothing ends an operation in the place of
  another (`Unmixed`): reads are not automatic, `plc_tag_status()` is not among the calls, and a tag
  that is also read is read by one thread and without timeouts. The invariant (`Kept`) is that a
  read which will replace the data is in flight and not complete, and what each thread inside a call
  relies on (`Relies`).
* `ReadsMeanDone` (`[]OkMeansRead`) and `WritesMeanDone` (`[]OkMeansWritten`), if one thread uses a
  connected tag without automatic operations, every request can be built and the PLC refuses none (`Smooth`); answers that
  cannot be used, timeouts, aborts and polling are allowed. `Meant` follows the flags through each
  call: an operation in progress is in flight (`Steady`), and whoever is told of its end is in `answered`
  (`Means`). The two are what `CallsMeanDone` of `MCTagUse` asks of its `"calls"` part.

**`ModbusProofs`**, for any tags, kinds, sizes, slots, calls and answers: `ModbusInvariant` (`Spec =>
[]IInv`); `NoSlotLost` (`[]SlotsOwned`), if no tag that is read automatically is destroyed while its PLC runs
(`AutoStays`); and `ReplyForItsRequest` (`[]ReplyFits`), until the PLC's sequence numbers start again
from one (`SeqWraps = FALSE`; after that a reply that is 65535 packets late does fit). For the first,
`IInv` follows a tag through its destructor: from `unlinking` on it has no operation (`AtRest`). The
hypothesis is a finding too (section 6, `modbus.c:412`). For the second it says that every
number on the wire or in a buffer has been given out (`Numbered`) and that what carries the number of a
waiting tag is an answer to its last packet (`Matched`). From that also `OkOnlyWhenAllMoved` (`Spec =>
OkMovesAll`): reads of any number of fragments and writes of one packet, if the server refuses no
read and numbers do not start again (`Undivided`). What it adds to `IInv` is that everything before a read's place has been
moved, and that a tag without a read is at place 0 (`Placed`). Writes of several packets are left out because for
them it is false: one that meets the reply to another tag's packet ends without a reset of its place, and the
next one begins there (section 6, `modbus_foreign`, has the reply). The run goes beyond the theorem where its numbers do start again.

**`AbSessionProofs`**, for any requests, packet sizes, failures and refusals, and for both kinds
of session: `SessionInvariant` (`Spec => []IInv`); `NotFreedEarly` (no request is freed while its tag, the
queue or the bundle still has it) and `AnswersMatch` (a request is only ever given the reply to itself),
without any hypothesis; `CountsExact` (`[]RefsExact`) and `SessionIsFifo` (`Spec => ImplementsFifo`), if no reply is
too large for its request's buffer and no tag adds a request during the unlocked `vector_insert()`
(`UnpackFails = PushBackRace = FALSE`; without either both are false, section 6). `EitherInvariant` and
`EitherIsFifo` say the same of `EitherSpec`, so of `OmronConn`, whose every step is one of `AbSession`'s
but for a `ConnTake` of shorter packets. `IInv` has the bundle and the queue as one `line`, in which no request occurs
twice (`Placed`); says what is on the wire in each state of the handler (`Wired`), which is why a late
reply cannot be taken for the answer to a retry; that a request is its tag's or aborted, and never
both (`Given`); and that each count is the number of owners (`Counted`), a queue's place or a bundle's being one. The
abstract queue is `line` without the aborted requests, so a purge is a stutter, a `Release` takes one
element out, and `Unpack` answers the first element, or nobody if that one is aborted. This needs to know
what removing from a sequence does to concatenation, appending, and a second removal
(`WithoutConcat`, `WithoutAppend`, `WithoutTwice`). These are proved by induction: the library's
induction theorems have an operator as parameter, which the provers cannot instantiate, but
`NatInduct` states induction for a *set* of numbers and follows from the least element of its
complement, and a recursive function can be unfolded once it is shown that one exists (`KeepingExists`).
That is why the purge is `Without` of `Filter`, a recursive function, and not `SelectSeq`, whose
definition in the standard module says nothing to the provers.

**`SessionListProofs`**, for every finite set of tags, every assignment of tags to PLCs and of sharing:
`Invariant` for the Allen-Bradley list alone (`Spec => []IInv`) and `ListInvariant` for all three lists
(`ListSpec => []IInv`), with the consequences `CountsExact`, `SessionsSafe` and `PlcShared`:
`CountIsHolders`, `MemorySafe` and `OneSession` are invariants. The strengthening says which pointer a
thread has where (`Pointers`), that only the owner of the mutex searches (`Mutex`), that a tag in its search has
created nothing yet (`Unborn`), that a session which is being destroyed has one destroyer and is listed until it
is removed (`Dying`), that nothing is listed twice and everything held is listed (`OnList`), and that
what a search has passed is not what it looks for (`Search`), which is what `OneSession` rests on. For the
Modbus list `ListInv` adds that its mutex is never kept from one step to the next. Each list shares the
lemmas of its common steps. `IInv` was checked with TLC on the instance of `session_list` before it was
proved.

**`PartsProofs`** is about the four small machines that `MCParts` runs side by side. The handle table, for
all keys, hash functions, sizes and probe limits: `TableInvariant` (every entry within reach of
its hash, no key twice, the count right, and the table that is being filled holds exactly the entries
copied so far), and from it `TableIsMap`, `Spec => ImplementsMap`, each step a step of `HashMap` or a
stutter. The key lemma is that `FindKey` stops where the key is and nowhere else although removals leave
holes: it does not stop at empty places. A session's mutex, condition and thread, for any number of users and
failures: `LeavesNothing` (`[]NothingLeft`), whose invariant follows the owner through creation and destruction.
A Modbus PLC's socket, for any number of calls and failures: `LeaksNothing` (`[]NothingOpen`), whose
invariant ties the socket to the handler's state and the open descriptors and Winsock's count to the socket.
`PartsLeaveNothing` puts the last two in the specification that the run checks.

The buffer of a tag, for bytes of one to eight bits, every content, offset, number, string and size, and any
byte order attributes: `BufferTypeOK` (`[]TypeOK`), `OnlyTheNumberChanges` (`[]OnlyTheNumber`) and
`OnlyItsBytesChange` (`[]OnlyItsBytes`; `PartsOnlyItsBytes` in the run's specification). The invariant
(`TagOK`) says that data and size agree, that every byte order is a permutation, and that the layout of a
string of fixed length has room for its parts (`Layout`). It holds of a new tag because creation refuses every
other combination of the nine types' orders and the attributes (`SetOrderAccepted`), and each call keeps it. A
store changes its own bytes because a permutation of width `w` names only offsets below `w` (`StoreKeep`), a bit
because adding or taking its power of two leaves a byte a byte (`BitByte`). For strings, `ResizeShifts` says that a resize, which
moves the tail before it shrinks and after it grows, moves exactly what follows, and `StringFits` that the count word, the
characters and the terminator lie within the new total length. The last one needs the hypothesis
`StringsCapped`: no accepted attributes describe strings of fixed length without a capacity. It is
a finding (section 6, `lib.c:3396`); every type's own byte order has a capacity.

`StoredIsReadBack` (`[]RoundTrip`; `PartsReadBack` in the run's specification) has no hypothesis. A number is the
sum of its bytes (`Digit`, `Expansion`), and a permutation sends each byte to a place of its own
(`OrderInjective`), so the word that is read is the word that was stored (`WordStored`); a bit is its power of two in one
byte (`BitStored`). Of a string, `SetStringHolds` says what a setter that succeeds leaves in the buffer: the count word, every
character in its place, swapped or not (`CopiedStored`, `SwapFacts`), and the terminator where there is room for one. From
that follow what `get_string()` returns (`HoldsString`), the length (`HoldsLength`) and the total length (`HoldsTotal`). What
strings the code reads back is part of the property: `Regular` and `Measured` were weakened
until each conjunct left in them stands for a disagreement between setter and getters (section 6, `lib.c:4497` and
`lib.c:4394`).

**`TagEventsProofs`**, for any tags, threads, callbacks and calls: `EventsInvariant` (`Spec => []IInv`) and
`EventTypes` (`[]TypeOK`). The first part of `IInv` says that whoever owns a mutex is where it needs it, at
its tag (`OwnerHolds`), and that whoever is there owns it (`HolderOwns`). `NoDeadlockInHierarchy`
(`[]NoDeadlock`) follows from it alone if callbacks call other tags' functions down a
hierarchy (`Hierarchy`: a level for each tag, less for its peer): among threads that wait for each other take one that
tells of events at a tag of the lowest level. Without that hypothesis two threads suffice for a deadlock (section 6,
`lib.c:399`). The second part is about what is told. What is to be told is raised, with the creation before what follows
it (`TellRaised`, `CreationFirst`); from that `CreatedIsToldFirst`, in every mode and with any number of calls. A start is
raised by a thread that has the mutex and tells of it, or by the tickler, which comes to it next (`StartsTold`,
`Unheard`), and the starts told and to be told, less the ends told and to be told, are as many as are still enabled
(`Balanced`). From it `ToldInOrderWithOneCall` (`[]ToldInOrder`): for any number of calls without automatic reads, and for one
call with them. That hypothesis (`Single`) is a finding: with automatic reads the starts of two reads may become one flag
(section 6, `lib.c:360`). One call of the application may still raise the start of a read while the tickler's is raised.
The third part, `CallInv`, shows that there is weight for it: until the first call a start that is raised weighs at least
one, also when its end has been raised and is enabled no more, because the only read whose start is not told is the one that creates the tag, which is in
flight, so that no automatic read begins beside it (`Calm`, `Unread`), and whose end wakes the creator before that clears the
flag (`Unread(tag[t]) => ~cond[t]`).

**`TagKindsProofs`**, for every kind of tag, any set of faults and answers, and listings and UDTs of any length:
`KindsOneRequest` (`Spec => []OneRequest`) and `KindsOtherBitsKept` (`Spec => OtherBitsKept`). The invariant
(`Fits`) says that a tag has a request exactly while a read or a write is in progress, never both, that a raw Omron
tag is never read, and that the request of a bit's write is a pair of masks. The vtables' functions are
operators on any record, and each has its lemma: a start that fails may leave a tag that does not fit, which its
caller then aborts (`Started`), while a reply check or a tickler leaves one that fits whatever it returns
(`Fitting`). `OtherBitsKept` is then about the masks alone (`MasksKeepOthers`): the tag's copy of the word,
which another program may have outdated, is not in the request.

`KindsReadsWhole` (`Spec => ReadsWhole`) needs to know what a tag holds of the PLC's data at every moment of a
read (`DataInv`, by kinds: `ListingHolds`, `UdtHolds`, `PlainHolds`, `PcccHolds`). Of a listing: as many
entries as the offset says, the ones from where the read began, and `nextId` is where the PLC's next
entries are (`Before`); and an answer that has come begins with the first one that is missing and, if it is
`"good"`, ends with the last. Of a UDT the same, behind its header; of a plain tag, that data and size agree and an
answer begins at the offset. Every function has a lemma again: what a start or an abort leaves can
start the next read (`Bare`), a check keeps `Holds`, and a tickler ends a read with success only when it
`HasAll` (`Ends`, `TicklerReads`). On the PLC's side `RespondHolds` shows that each of the answers which
the model allows continues what the tag has. That the entries ascend is an assumption on the PLC, which the
code makes too: it asks for the entries "from the last ID plus one on". `IdRange - 2` bounds the IDs because
`next_id` would start again at zero behind the last one (`eip_cip_special.c:958`).
`DataInv` was checked by TLC with the constants of `kinds_and_events` before it was proved.

`IInv` of each module was checked by TLC before it was proved: `TagOps` on 5.2 million states, `Modbus`
on 7.3 million, `AbSession` on 0.4 to 0.7 million with and without the two failures above, `TagEvents` on 0.4 million
(two tags, one call) and 1.9 million (one tag, three calls); likewise `Kept`, `Meant` and, on 1.9 million states,
the invariant of `OkOnlyWhenAllMoved`. That a proof can fail was tried as well:
without a hypothesis, or with one of the mutants of `PROJECT.json` in the place of its action, the step in
question is not proved.

Some runs have several components side by side and one name for the formula of one of them. There the module that the run
checks takes the component with its theorems (`INSTANCE AbSessionProofs WITH ...`), so that a theorem can be
about the run's own specification: `PartAnswersMatch` (`TagTableProofs`: `PartSpec => []AnswerMatches`), `LookRequestsFit`
(`ModbusProofs`: `LookSpec => []RequestFits`), `TagsNoDeadlock` and `TagsToldInOrder` (`TagKindsProofs`:
`TagsSpec => []NoDeadlock` and `[]ToldInOrder`, with two tags, with automatic reads, and with neither). A step of
another component leaves the variables of this one alone, so its invariant is kept; `TagsNoDeadlock` then needs only that the run's
callbacks form a hierarchy.

Model-checked only:

* liveness, which is outside the prover's logic;
* `TypeOK` of `Modbus` beyond its `Types`: it uses `SelectSeq`, whose definition in the standard module says
  nothing to the provers;
* `CallsMeanDone` as one formula: `TagOpsProofs` proves its two halves, `ReadsMeanDone` and `WritesMeanDone`, of
  `TagOps` and not of the run with four uses of tags;
* `ToldInOrder` with automatic reads and more calls, which is false.

## 6. Where the code and its texts disagree

Five disagreements are kept as runs that must fail ("findings" in `PROJECT.json`):

* `ops_lost_error` (`ab_common.c:1178`): the error of a read that the PLC refuses is overwritten by
  OK before the waiting caller looks, because every tickle recomputes `tag->status`.
* `tag_read_writes` (`eip_cip.c:339`): after a write was given up during its pre-read, the next
  `plc_tag_read()` writes to the PLC, because only a successful read clears `pre_write_read`.
* `modbus_plc` (`modbus.c:510`): a tag that finds a PLC whose last holder is just leaving gets neither
  a PLC nor an error; the check that should notice it tests another pointer.
* `modbus_foreign` (`modbus.c:1980`): a write that sees another request's reply ends with the status
  PENDING.
* `events_deadlock` (`lib.c:399`): callbacks run with the mutex of their tag held, so two threads whose
  callbacks ask for each other's tag wait for ever, although `libplctag.h:260` says that a "callback is called outside of
  the internal tag mutex so it can call any tag functions safely".

The models show more of them; each is a change of constants away from a module or a run above, and the
passing runs are set up to stay clear of them:

| Where | What happens | To see it |
|---|---|---|
| `lib.c:1033` | an application that destroys a tag from its CREATED event frees it under the creator | `TagTable` with `EarlyHandles = TRUE`: `NoUseAfterFree` |
| `lib.c:1510` | the handle `TAG_ID_MASK` can be given out but not destroyed; shutdown then waits for ever | `TagTable` with `TagIdMask = 2`: `ShutdownReturns` |
| `lib.c:1623` | a read whose request cannot be built returns OK (and renews the read cache) | `TagOps` with `Builds = {TRUE, FALSE}`: `OkMeansRead` |
| `eip_cip.c:1694` | an unconnected write is cut short by its own reply check and returns OK | `TagOps` with `Connected = FALSE`: `OkMeansWritten` |
| `eip_cip.c:212` | after a reply that `check_request_status()` rejects, an asynchronous read stays in flight | `TagOps` with `Answers` including `"dead"`: `OperationEnds` without `NothingRejected` |
| `eip_cip.c:1664` | a write whose next fragment cannot be built ends without a reset of `tag->offset`, and the next read moves only the tail | `TagOps` with `Builds = {TRUE, FALSE}`: `OffsetReset` |
| `lib.c:708` | `plc_tag_status()` completes a read over dirty data | `TagOps` with automatic writes and `"status"` among its `Calls`: `DirtyKept` |
| `lib.c:1067` | `plc_tag_create_ex()` clears the in-flight flag of an automatic read that began before it ended, and that read replaces data that is set in between | `TagOps` with automatic reads and writes: `DirtyKept` |
| `lib.c:360` | an automatic read starts and ends within one turn of the tickler, another thread reads before the tickler tells of it, the two starts are one flag, and the callback is told of an end without a start | `TagEvents` with `AutoRead = TRUE` and `MaxCalls = 2`: `ToldInOrder` |
| `lib.c:319` | an automatic write sets `write_in_flight` before it asks for the request; when that cannot be built, nothing clears the flag, and no later write starts | `TagOps` with automatic writes and `Builds = {TRUE, FALSE}`: `DirtySent`, `OperationEnds` without `NothingRejected` |
| `lib.c:671` | an abort's stale flag ends the next read, whose caller is not woken, or whose in-flight flag stays set | `WaitEnds`, `OperationEnds` without `Undisturbed` |
| `eip_cip.c:336` | a write to a tag whose first read was aborted repeats its pre-read for ever, because only a read that ends clears `first_read` | `TagOps` with `Calls = {"write", "abort"}`: `WaitEnds` without `Undisturbed` |
| `lib.c:1613` | a second reader clears the condition the first was about to see | `TagOps` with two `Clients`: `WaitEnds` |
| `lib.c:1064` | `plc_tag_create_ex()` returns while the tag is still pending: the loop condition is inverted | `CreateCheck` goes on to `create_end` with a pending tag |
| `session.c:1887` | one reply that cannot be unpacked loses its request and the rest of the packet, although line 1882 says "Every request gets a copy" | `session_order` with `UnpackFails = TRUE`: `RefsExact`, `EventuallyAnswered` |
| `session.c:538` | a search that drops the last reference to a session destroys it, the list moves under the index, and the next session is passed over: a second connection to its PLC | `session_list` with `Private = {}` and without `~passed` in `OneSession` |
| `session.c:862` | a tag that found a session before `session_init()` failed keeps it, with no thread to answer | `SessionList` without `s \in failed` in `UsersServed` |
| `session.c:420` | a request queued between the listing of a session and `session_init()` is dropped without an error: the mutex does not exist and `critical_block` skips its body | not modelled: `AbSession` begins with the mutex |
| `session.c:1907` | a request added during the unlocked push back overwrites a queued one | `session_order` with `PushBackRace = TRUE`: `ImplementsFifo` |
| `session.c:1706` | a request sized for a payload that is then negotiated down blocks the queue | `session_order` with a `Grants` below the size of a request: `EventuallyAnswered` |
| `session.c:1201` | the back-off is computed in 32 bits and turns negative once the retry count passes 24 | not modelled |
| `modbus.c:57` | reads and writes have different limits, but one check of the last packet: a write of 247 to 250 bytes ends with OK before its last packet | `Modbus` with `Kinds = {"write"}`: `OkMovesAll` |
| `modbus.c:459` | a multi-packet write, or a restart after a reconnect, takes a second slot while it holds the first; with the default of one slot it waits for ever | `Modbus` with `MaxInFlight = 1`: `OperationEnds` without `Unaided` |
| `modbus.c:412` | the destructor aborts, then waits for the PLC's mutex to unlink the tag; meanwhile the handler may start an automatic read on it and take a slot that is never freed | `Modbus` with `AutoRead = TRUE` and `Calls <- OneLeaves`: `SlotsOwned` |
| `modbus.c:1316` | the handler clears the abort flag before the aborting thread has the mutex, and the operation waits for ever | `Modbus` with `Calls <- AllAbort`: `OperationEnds` without `Unaided` |
| `modbus.c:1241` | the error of a refused read is replaced by OK | `OkMovesAll` with `"error"` among the answers to reads |
| `modbus.c:577` | a PLC whose thread could not be created stays in the list and is given to later tags, unserved | `ServedOrMarked` without `kind # "modbus"` |
| `modbus.c:862` | a peer that closes within a packet: `receive_response()` reads nothing for ever | `PlcSocket`: `EveryCloseNoticed` |
| `platform.c:2051` | a `socketpair()` that fails closes descriptor 0, because the array is initialised with 0 and compared with -1 | `NothingOpen` without its exception for `stdin` |
| `platform.c:739` | a failed `thread_create()` leaves the caller's pointer set (Windows clears it), and `session_destroy()` joins a thread that never ran | `NothingLeft` without its exception for POSIX |
| `lib.c:4497` | a swapped string of odd length takes a byte that the getters do not count, and its terminator falls on its last character; a fixed total length that is not the sum of its parts is not what the getters return | `StringsReadBack` without `Measured`, or without the second conjunct of `Regular` |
| `lib.c:4394` | a count word of two or four bytes is stored unsigned and read signed, so a string of 32768 characters reads back with a negative length; without a count word the getters look for a terminator behind the bytes of the word, and swapped, while the setter stores it unswapped where the characters end; a string neither counted nor terminated has length 0 | `StringsReadBack` without the third conjunct of `Regular` |
| `lib.c:3396` | attributes may describe a string of fixed length without a capacity, and then nothing bounds its characters: storing one that is longer than the string's total length overwrites what follows it in the buffer | `TagData` with `[cap |-> 0, pad |-> 0]` among its `Overrides`: `OnlyItsBytes` |

Found by reading along while the modules were written, and modelled as the code does it, but no property
depends on them, or they lie in a detail that is left out:

* **Operations.** A write after a failed first read divides by an element size of 0 (`eip_cip.c:1797`,
  `omron_standard_tag.c:1777`), or reads a null buffer for a bit tag; `TagKinds` leaves such a call out
  (`Crashes`). A failed `realloc` leaves `tag->data` null with its size set, so `FaultsOf` keeps
  that fault from plain CIP and Omron tags, and a listing sets its size before the call
  (`eip_cip_special.c:930`). String getters write `tag->status` after they have released the tag
  (`lib.c:3642`). A CIP request that turns out too
  large, or whose room cannot be calculated, is dropped without a release (`eip_cip.c:445`, `982`).
* **Events.** The tickler keeps its reference when a tag is destroyed, and tells of its ABORTED after
  `plc_tag_destroy()` has told of DESTROYED, although `lib.c:462` says "do this last". A write that is refused as
  BUSY raises the WRITE_COMPLETED of the write that is still in flight (`lib.c:1869`), and READ_STARTED is told before it
  is known whether a read begins. `plc_tag_abort()` tells of ABORTED, and again when the tickler sees
  the flag that it left set. An end and the next start are one flag each, so with automatic reads and two
  threads two operations may be told as one. Flags survive `plc_tag_unregister_callback()`, and the next callback is
  told of them. A callback that reads or aborts its own tag is told of the event that it is being told of,
  again and again, since flags are cleared after it returns, although `lib.c:1781` reckons with one that does "something tricky like
  abort the write"; `TagEvents` lets callbacks call only what raises
  nothing.
* **Setters.** `plc_tag_set_int64()` has no `break` after its test for data, unlike the other setters
  (`lib.c:2472`): a tag without data ends with OUT_OF_BOUNDS instead of NO_DATA, and one whose data a failed
  `realloc` left null with its size set is written through null.
* **PCCC.** `pccc_dhp_check_write_status()` reads a connected DH+ reply as an unconnected one (`pccc.c:3219`,
  `defs.h:987`): what it takes for the general status is the length of the data item, so every write over
  DH+ ends with REMOTE_ERR, whether or not the PLC has done it. The common error exit of the start functions kills the operation in flight when the answer is
  BUSY; a request over its buffer is released twice (`pccc.c:1519`, `1631`); `data_per_packet` is unsigned, so
  `<= 0` misses an underflow (`pccc.c:1751`); an SLC transfer size is cut to eight bits and a PLC-5 size
  to whole words. ControlLogix over PCCC clears its in-flight flag on BUSY but keeps the request, and a
  short reply replaces only the front of the data.
* **Listings, UDTs, raw tags.** `next_id` survives an abort or a timeout, so the next listing lacks its
  first entries; it has 16 bits of a 32-bit ID; a second listing that is shorter keeps the tail of the
  first. The builders leak a request that is too large or not taken, although line 1007 says "clean up
  everything". A raw request that is too large stays unsent in `tag->req`, and one that is not taken loses
  the tag's data. A UDT reply without payload goes on with stale data. A raw unconnected write sends the tag's
  name where the path should be (`eip_cip_special.c:604`, `omron_raw_tag.c:449`).
* **Omron.** A partial reply starts the read over from offset 0 for ever (`omron_standard_tag.c:1374`, a
  FIXME there); a request that the connection refuses leaves `tag->offset` at the end, so that a retried
  automatic write has 0 bytes; requests leak on TOO_LARGE, TOO_SMALL and UNSUPPORTED; the raw
  tickler clears `read_in_flight` and answers UNSUPPORTED. `conn.c` ignores the idle time it is
  configured with, waits a fixed time between retries, and repeats a sanity check (lines 1664 to 1687).
* **Modbus.** `wake_plc_thread()` uses `plc->sock` without the mutex while the handler may destroy
  it (`modbus.c:925`; `PlcSocket` has the wake-up and the destruction as whole steps). The error codes
  of `socket_wait_event()` are read as an event mask (`modbus.c:779`). `mb_abort()` relies on its caller holding the tag's
  mutex (`modbus.c:2241`), which the destructor does not.
* **Platform.** A `cond_wait()` whose time is over and which then finds the flag clears it and still
  returns TIMEOUT (both platforms; its callers here do not look). `socket_wake()` on Windows returns a
  byte count, a full wake channel is a write error on POSIX, and `socket_wait_event()` with timeout 0 waits
  for ever. Windows: `socket_write()` on a closed socket returns a read error, `sleep_ms()` returns
  1, a failed allocation in `socket_create()` leaves Winsock started. `socket_create()` that fails leaves its
  result allocated. A read at the end of the stream gives 0 bytes, so an AB session polls until its own
  timeout.
* **Tables.** `expand_table()` goes on until memory is out when more than `MAX_ITERATIONS` keys have the same
  hash; `vector.c` grows once even when once is not enough; `initialize_modules()` sets its flag
  after a module failed to start.

## 7. What remains

The order is that of importance.

1. A clock for `TagOps`: the read cache, and the back-off of `session.c:1201` over 32-bit arithmetic.
2. `vector.c` as a refinement of the sequence that `AbSession` and the lists take it for; system tags;
   `initialize_modules()` and its one-time start.

## 8. Not modelled

Packet layouts, names and the parsing of attributes, CIP types, PCCC addresses, and logging are data
without control. The mutexes of the library are the atomicity of the actions, but for the one of
`Worker`, the ones of the lists and the tags' in `TagEvents`; deadlocks between others are out of sight.
Language wrappers, examples, test servers and the GUI are programs around the library; unported sources are
not built. In `TagOps` the read cache (it needs a clock) and events are left out (events are in `TagEvents`, bit writes in
`TagKinds`); in `TagEvents`, statuses, automatic writes, and callbacks that start operations or call functions of
more than one other tag; in
`TagKinds` a tag has one thread and the fields of an entry are one item; in `AbSession` and `OmronConn`, the
length of delays and the content of packets; in the lists, the merge of auto-disconnect settings and
`session_startup()` failing; in `Modbus`, automatic writes and the moment before a new tag has its handle; in
`Worker` and `PlcSocket`, the failure of `mem_alloc()`, `thread_kill()`, `thread_detach()`, the name lookup
and serial ports (which nothing uses).
