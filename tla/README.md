# VeilDB in TLA+

VeilDB is a searchable encrypted document database. An SGX enclave holds the
keys and the index state, an untrusted server process keeps ciphertext on disk,
and a FastAPI gateway turns HTTP requests into binary requests. This directory
models what the three of them do with their state, from the text of a query to
the files on disk, checks it with TLC and proves most of the safety properties
with TLAPS.

Paths: **E** = `src/EncDB/System_high/CryptoEnclave/CryptoEnclave.cpp`,
**S** = `src/EncDB/System_high/CryptoTestingApp/Server.cpp`,
**D** = `src/EncDB/System_high/common/data_type.h`; other files by their names.

## 1. Inventory

| component | state | operations | who calls it | correct if |
|---|---|---|---|---|
| Keyword index (E 61-187, 1100-1282) | `KVS` keyword → version, `words_KVS`, cache `CK` (≤ `CK_max` = 10 after a request), `dummy_count`, `dummy_size`; on the server `bitmaps` label → cipher | `UpdateKeywords`, `Search`, `store_bitmap_batch`, `append_dummy_keywords` | handlers, persist, load | cache, versions and server agree; no posting is invented or lost; the sealed labels are not written |
| Document slots (E 613-1092) | `doc_CK` (≤ 10), `doc_slot_version`, `all_docs`; on the server one slot per number | `run_slot_update`, `RetrieveDocs`, spills, tombstones | handlers, persist | a plain store of documents, seen from outside |
| Handlers (E 1300-1535) | `all_docs`, `endof_doc_id` | SELECT, INSERT, REPLACE, DELETE | workers, by ecall | slots, postings and `all_docs` agree |
| Query evaluation (E, `QueryCodec.h`, `Client.cpp`, `sql_builder.py`) | – | parse, postfix code, stack machine, aggregates, reply, view of the reply | handle_select, client, gateway | the answer is what the expression means |
| Context persistence (E 210-529) | `context.dat`: keys, `KVS`, counters, `all_docs`, slot versions, sealed | persist, load | scheduling, SHUTDOWN | what is sealed can be used again |
| Context scheduling (E 531-607) | active context, `inactive_cache` client → context | `ecall_schedule_context`, eviction, `ecall_persist_context` | every request | each request meets its own, newest context |
| Enclave pool and workers (S 31-230) | `available_enclaves`, `client_enclave_map`, `busy`; `task_queue`, `stop_flag` | acquire (5 s limit), release, worker loop, destruction | handle_request | one request per enclave; every call returns |
| Server (S 117-500) | `edb_id_map` client → database | INIT (create, resume), SELECT, UPDATE, SHUTDOWN, flush at exit | sockets | see the next row |
| Database manager, disk store (`EncDBManager.cpp`, `EdbDiskStore.cpp`) | `meta.dat` (next number), open databases in memory, files | register, open, persist, list | server | no number is used twice; memory and disk have what a sealed context names |
| Request codec (`RPC.cpp`, `net.cpp`, `encdb_rpc.py`) | – | serialise, parse, frame | everyone | what arrives is what was sent |
| Document bundle (`EnclaveUtils.cpp`) | – | pack, parse three formats | slots | what is read is what was stored |
| Gateway (`main.py`, `bridge.py`, `edb_persist.py`) | sessions, client id counter, catalogs of document numbers, `catalog.json` | init, shutdown, upload, insert, delete database | HTTP | catalogs know every document; deleted databases stay deleted |
| Audit log, tokenising, frontend, scripts, data, build files | – | – | – | – |

How they interact. The gateway opens a connection per request and gives up
after 120 seconds; the server of `server_main.cpp` takes one connection after
the other, `benchmark_main.cpp` calls it from many threads. Every request passes
the pool, then the server looks up the client's database and asks the enclave
(ecall) to bring up the client's context, which may evict and seal another one;
the handler then runs inside the enclave and reads and writes the server's files
by ocalls, which go to memory and, before they return, to disk (S 424-471). The
gateway also reads and deletes the directories of databases behind the server's
back.

What is hard here:

* **caches that hide writes**: a changed bitmap is stored at once, but another
  one may be swapped out; a changed document slot is *not* stored at once, a
  random one is. Correctness needs cache, version table and server to agree
  under every random choice;
* **versions as names**: a bitmap's label is derived from its version. Storing
  under a label that a sealed context still names would break a rollback;
* **three views of a document** (slot, postings, `all_docs`) that one handler
  changes in different places, with early returns between them;
* **order and crashes**: a persist writes bitmaps, then the context, then the
  documents; a registration writes the directory, then the number;
* **identity**: the live copy of a database is found by client id, the sealed
  one by database number; client ids are given out by the gateway and kept in
  the server's maps after their sessions have ended;
* **limits**: full caches, an exhausted dummy pool, long keywords, documents longer
  than the string they are stored in, 8-bit ids;
* **concurrency**: workers, the pool's hand-made waiting, requests that were
  given up and are served later, a directory that is deleted under the server.

`PROJECT.json` lists each such hazard at its line and the properties that cover it.

## 2. Modules

| module | models | state and actions |
|---|---|---|
| `KeywordIndex` | the keyword index of one database and the index part of persist, load and crash | the C++ fields by their names; `bitmaps` is the server; one action per branch of `UpdateKeywords` (`UpdateEmptyCache`, `UpdateCached`, `UpdateCachedSwap`, `UpdateSkipped`, `UpdateStored`, `UpdateNew`, `UpdateNewForDummy`, `UpdateNoCapacity`), `Search`, `SearchThrows`, `AppendDummy`, `PersistFlush`, `PersistSeal`, `Crash`, `Reload`; implements `PostingStore` |
| `PostingStore` | what the keyword index does, seen from outside | `index`, `sealed`, `cold`, `rewound`; `Update`, `Arrange` (anything that only moves bitmaps), `Seal`, `Lose`, `Reopen`; implemented by `KeywordIndex` |
| `DocStore` | what the enclave promises about documents | `docs`, `durable`, `result`; `Write`, `Read`, `Flush`, `Lose` |
| `DocSlots` | the documents of one database | `Insert`, `Delete`, `Replace` (each one read and one write of the server), `Retrieve` with padding and spills, `PersistSeal`, `PersistFlush`, `Crash`, `Resume`; implements `DocStore` |
| `DocUpdates` | `handle_update` over slots, postings and `all_docs` | `Insert`, `Delete`, `ReplaceUnindexed` (the early return), `Replace`, `Select` (what a query does to the caches), `PersistSeal`, `PersistFlush`, `Crash`, `Reload` |
| `Evaluation` | the loop of `handle_select` | `Step`: one turn of the stack machine; `Matches`: what it leaves |
| `Queries` | SELECT without the transport, over `Evaluation` | recursive-descent parser, postfix code, aggregates, reply, the client's view |
| `Wire` | the binary form of requests and responses | serialise and deserialise, with the older forms; framing; a request's way to the enclave (`Transported`) and an answer's back (`Answered`) |
| `Bundles` | the plain text of a stored document | three formats, padding, trimming |
| `GatewayWire` | the same in the gateway, over `Bundles` and `Wire` | cut and terminated updates, unchecked numbers of documents (`GatewayTransported`, `GatewayAnswered`) |
| `Gateway` | composes `Queries` and `GatewayWire`: where the gateway's parser and view of a reply differ | operators in any case |
| `Requests` | composes `DocUpdates`, `Queries`, `Wire`, `Bundles`, `Gateway` | the actions of `DocUpdates`; queries and data as bounded sets |
| `EnclaveContexts` | one enclave with many clients and databases | `Create`, `Select`, `Resume`, `Update`, `Shutdown`, `Restart`; each first brings the client's context up (`Outcomes`: cache the active one, evict, look up) |
| `Databases` | composes `EnclaveContexts` with server, disk and gateway | gateway: `SessionInit`, `Insert`, `SessionShutdown`, `Timeout`, `Receive`, `CheckDelete`, `RemoveTree`; server: `ServeCreate`, `ServeResume`, `ServeUpdate`, `ServeShutdown`; its end: `Signal`, `FlushNext`, `FlushRest`, `Exit`, `Crash`, `CrashRegistering`, `Start` |
| `EnclavePool` | worker threads, task queue, pool, destruction | callers: `Register`, `Insert`, `StartThreads`, `Select`, `Join`; `Notify`, `Return`; `WorkerStep` (wait, take, acquire, poll, serve, release, answer); `Destroy`, `Flush`, `Stop`, `NotifyAll` |
| `…Proofs` | – | the theorems about the module of that name (`WireProofs` has those about `Wire`, `Bundles` and `GatewayWire`, `RequestsProofs` also those about `Queries` and `Gateway`) |
| `MC…` | instances | symmetry sets only; the numbers are in the `.cfg` files |

Abstractions, and why they lose nothing the properties tell apart:

* A label stands for the pair (keyword, version) it is derived from, a cipher
  for its plain text, a bitmap for the set of its documents. `dummy_<n>` is the
  number n; keywords are model values, so no user keyword is a dummy's name.
* `words_KVS` is a set. The code's vector may hold a word twice (when
  `UpdateEmptyCache` meets a stored word), which only makes the size test of
  `pick_random_uncached_word` pass more often. `PickFails` allows failure
  whenever the sets would, so failures are over-approximated.
* `pick_random_uncached_word` draws 256 times; it is taken to find an uncached
  word if there is one (with 1000 dummies and 10 cached words a miss is
  impossible in practice).
* One step of `KeywordIndex` is one turn of the loop of `UpdateKeywords`; a
  request with several keywords is several consecutive steps, more
  interleavings than the code has.
* A search for an unknown word changes nothing and is left out unless it throws.
* An exception that leaves the enclave makes it unusable (`LoseEnclave`); the
  database comes back with the next process (`Reload`).
* The write of one file is one step, except for `meta.dat` in `Databases`
  (`CrashRegistering`). A crash inside a batch keeps any subset of its files.
* In `DocSlots` the padding may add any set of existing documents up to the
  threshold; the code adds as many as it finds. A content is what a slot holds
  after parsing, of those that fit into it; whether its index part is empty decides
  REPLACE's early return. A file without content is accepted and stored as the
  empty slot (`NoDoc`); `blank` records for which documents, so that
  `EmptyOnlyAsUploaded` can say that no other listed document has an empty slot.
* `DocUpdates` keeps of the two modules below it what the handler sees: of the
  slots the keywords of each document, of the index the postings and whether the
  cache is empty (`cold`), because then an update resets its keyword. It assumes
  what `KeywordIndex` shows for a large pool, that no update throws or is
  skipped. `phantom`, `missing` and `unlisted` record what the handler is known
  to get wrong (an INSERT of a taken number, a REPLACE of a document without
  keywords, a reset, a crash between two stores), so that `IndexExact` says that
  *nothing else* goes wrong; each of the three is needed. Document numbers are
  in range (`DocID_MAX`).
* In `Queries` a text is its tokens, a document's content its number. Tokens
  behind a complete expression are ignored, as in the code; the client does not
  check for more than 16 keywords, the server does.
* In `Wire` and `Bundles` a keyword, document or key is a sequence of cells that
  are not looked into; numbers are cut into their bytes, and the bytes behind a
  copied index are taken for its terminator.
* Where the code copies more than there is room for, what it overwrites is not
  modelled. A SELECT with a keyword of more than `MAX_KEYWORD_LEN` bytes or a
  program of more than 128 is received as `Overrun`, of which nothing is known
  (RPC.cpp 121-129). A bundle longer than `MAX_FILE_SIZE` (EnclaveUtils.cpp 101-132)
  leaves the part within its string, or the enclave ends (`Crashed`); that other
  memory of the enclave is damaged without its end has no counterpart, and the
  contents of `DocSlots` and `DocUpdates` are those that fit.
* In `EnclaveContexts` a context's keys, tables and counters are abstracted to
  `log`, the acknowledged updates it reflects. A server with several enclaves
  binds each client to one, so a module instance is one enclave with its
  clients. `OneEdbPerClient` says that a client id creates one database and
  only ever resumes that one, as `benchmark_main.cpp` does; the passing run
  `contexts` assumes it, the two violation runs and `Databases` do not.
* `Databases` describes the clients that share one enclave: with the four
  enclaves of `main` these are the first client and all from the fifth on
  (`LateClientsShareFirst`). An update stands for its document, its number in
  the catalog and the blobs (bitmaps, slots) stored for it; blobs are written
  when their context is sealed, the latest moment that matters. Sessions only
  add documents, each with at most one outstanding call of a kind. A call to a
  server that is stopping or gone fails and changes nothing. The end by SIGPIPE
  (two sends per reply, the caller gone) is a `Crash`.
* In `EnclavePool` a step is what a thread does under one hold of a lock or
  between two. The polling loop may time out although an enclave was freed a
  moment ago. A request inside an enclave succeeds or fails; the benchmark
  ignores failures. Its clients never come back to registering.

History variables (`postings` in `KeywordIndex`, `rewound`, `saved`, `resumed`,
`creator`, `updates`, `acked`, `reset`, `phantom`, `missing`, `unlisted`, `torn`,
`deleted`, `zombies`, `careless`) are read by no guard of an action that models
code, except for the bounds and `OneEdbPerClient`'s use of `creator`;
`reset` also bounds what a crash may leave under the labels of the sealed
context.

## 3. Runs

| run | instance | shows |
|---|---|---|
| `index` | 2 words, 2 documents, `CK_max` 2, 3 dummies, 6 labels | with a pool larger than the cache (the code: 1000 and 10) nothing throws or is skipped, versions and cache agree with the server, searches return no document that was not posted, a crash returns to the sealed bitmaps, no posting is lost while the cache is not empty, a full cache stays full; seen from outside, the index does what `PostingStore` says |
| `index_small_pool` | 3 words, 1 document, `CK_max` 1, 1 dummy and one more | the branches that refuse: capacity thrown, update skipped, search thrown; consumed dummies returning from the cache; the dummy that a new keyword replaces can always be found |
| `index_postings_lost` | as `index` | **violation** of `NoPostingLost` |
| `index_long_keyword` | one long word | **violation** of `SnapshotOpens` |
| `documents` | 2 documents, 2 contents (one without index) and the empty one, cache of 1, versions to 3 | the slots implement `DocStore` through every choice of decoy, padding and victim, and through crashes; a listed document has an empty slot only if it was uploaded so |
| `document_versions` | the same | **violation** of `VersionMonotonic` |
| `requests` | 2 words, 2 documents, 3 updates; the three limits on index, document and bundle equal | slots, postings and `all_docs` agree but for the named gaps (`IndexExact`); every expression of a bounded depth, written as text, compiled by client or gateway, sent, evaluated and answered, means what it says (`AnswersExact`), with its aggregates and its limit (`RepliesExact`); data arrives as sent and, as far as its string has room for it, is read as stored (`RoundTrips`) |
| `contexts` | 4 clients and databases, cache of 2, 3 updates | with disciplined client ids everybody is served by its own, up-to-date context; seals never go back |
| `contexts_stale_resume` | 2 clients, 1 database, cache of 1 | **violation** of `ResumerReadsItsWrites` |
| `contexts_foreign` | 2 clients, cache of 1 | **violation** of `ServedByOwnContext` |
| `pool` | 2 enclaves, 3 clients, 3 workers | one request per enclave, no client turned away, no race on `edb_id_map`; no task and no wakeup is lost (`NoLostWakeup`), so every call returns and all workers are joined |
| `databases` | 2 clients, no inactive context cached, 2 databases, 1 update, 2 waiting connections, 1 deletion, 1 restart | deleted databases stay deleted, sealed contexts find their blobs, catalogs cover their documents, numbers are not given twice, a server that is told to stop stops |

Bounds. The random choices concern pairs (the current word and a companion, the
changed document and a victim), so two cached entries beside one uncached, and
more dummies than cache places, exercise every branch; two documents tell apart
the bitmap of a word from that of another and a stale one from a new one.
`MaxLabels` and `MaxVersion` leave room for two rounds of versions after a
seal, which a rollback needs. In `contexts` four clients overflow a cache of
two beside the active context, so evictions happen with the asking client
inside and outside the cache. In `requests` three updates suffice for every gap
of the handler to meet a seal and a reload; queries are words, negations,
binary operators over words, and one more operator above or beside those, so
each operator stands below each other one and next to it; numbers
are taken around the limits of one and two bytes, and contents have up to 300
cells. The limits on index, document and stored bundle are 305, equal as in the
code (4096), so that among the legal documents are some that fit, some of which
the body and some of which the index too is cut. In `pool` three clients share
two enclaves, so one waits while another polls, and three workers may all be
asleep, busy or exiting. In `databases` two clients are the smallest number that
can meet in one database, a cache of 0 makes every change of client seal, and a
second process is what a deleted or torn database can come back in.

`CHECK_DEADLOCK FALSE` stands where the system really stops: a crashed database
without a context that opens stays down, the server's processes end, and the
bounds on labels, versions and updates end a behaviour.

Fairness. `EnclavePool` assumes that threads that can run do run: weak fairness
of each worker's step, of the notification and the return of a call, and of the
destruction of the server. A worker that polls is woken by the clock within
five seconds, so its step never stays disabled. Nothing is assumed of the
callers. A waiting worker can be woken by any notification that finds it asleep;
that `notify_one` picks one is enough, because a worker looks at the queue before
it sleeps. `Databases` assumes weak fairness of the server's steps as a whole
(it is one thread) and nothing of the gateway, of signals or of crashes.

### What the violations mean

* `NoPostingLost` (E 1114). After SHUTDOWN the cache is empty and the next
  session of the same server process finds it so; so does a brand-new database,
  whose cache stays empty until a first search. The first update of a stored
  keyword then starts a fresh bitmap. `WarmStepKeepsPostings` shows that this is
  the only way to lose postings, and `FullCacheStaysFull` that a session opened
  from a sealed context with enough keywords never gets there by itself.
* `SnapshotOpens` (E 299-305). The list's length counts keywords it skips.
* `VersionMonotonic` (E 513, 976). Slots are stored after the context was
  sealed; after a resume the enclave's versions lag, and only the path of
  updates catches up. Contents are not affected (`ImplementsDocStore` holds).
* `ResumerReadsItsWrites` (E 473-501, 576-602). A context that is loaded keeps the
  client id it was sealed with. In the trace the creator of a database shuts down,
  and a second session, the only one there is, resumes it and makes an update. Its
  next request does not find the active context to be its own, so the context is
  cached under the creator's id, where it is not found, and the sealed one is
  loaded again, without the update that was acknowledged. A second session for
  a database that is still open meets the same lines: it gets the sealed copy
  while the newer one is cached under the first client's id.
* `ServedByOwnContext` (E 586). A returning client id gets its cached context
  of another database. In `Databases`, where no id returns, it holds and is
  proved. `OneContextPerEdb` and `SealNeverForgets` do not carry over: two
  successive sessions of one database leave two contexts of it in the enclave,
  and the older one may be sealed last (E 576-606). What they give the passing
  run `contexts` rests on `OneEdbPerClient`.

### What the exceptions in the passing properties mean

Some properties hold only outside situations the code allows; the situations are
named in the property and were each checked to be needed.

* `IndexExact`: the pairs in `phantom`, `missing`, `unlisted` (see above). An
  INSERT of a taken number leaves the old keywords posted; a REPLACE of a
  document that has none writes the slot and reports "not found".
* `RoundTrips`: `Overruns` (EnclaveUtils.cpp 101-132). Index and document may have
  4096 bytes each (EncDBRequest.h 13-14, checked one by one in RPC.cpp 151-158),
  and the string they are packed into has 4096 for both and for 13 bytes of header
  (data_type.h 29). Nothing compares the two: a legal update of more than 4083
  bytes together writes beyond the string. Its slot is then read with the whole
  string for the body, and without the index if that is too long by itself, or the
  enclave ends. A body sent in the older form is also taken for the index (E 1465)
  and is too long from 2042 bytes on.
* `CatalogCovers`: `careless` collects the databases with a timed-out insert, an
  insert that overlapped or followed the shutdown of its session, a deletion
  under a connected client, two sessions (also one that can no longer be shut
  down because the server was restarted), or a session that resumed the database
  before the gateway had the answer to its creation. In each of them a
  document's number can be given out again. The last one takes three clients and
  was found by the proof, not by the run.
* `DeletedStays`: `zombies` are the databases that were in `edb_id_map` when
  they were deleted; SHUTDOWN does not take a client out of it, so the flush at
  exit brings the directory of a closed session's database back.
* `NumbersNotReused`, `SealedIsStored`, `DeletedStays`: `torn` is a crash between
  truncating `meta.dat` and writing it; an empty file reads as 1.

## 4. Proofs

Each theorem holds for every value of the constants that satisfies the
assumptions of its module.

| module | theorem | states |
|---|---|---|
| `KeywordIndexProofs` | `Inductive`, `PoolInductive` | `Spec => []IInv`, `Spec => [](IInv /\ PInv)` |
| | `TypeCorrect`, `VersionsAlwaysStored`, `CacheAlwaysCoherent`, `SnapshotAlwaysIntact` | `TypeOK`, `VersionsStored`, `CacheCoherent`, `SnapshotIntact` |
| | `CacheAlwaysBounded`, `DummiesAlwaysReserved` | `CacheBounded`, `DummyReserve` |
| | `IndexImplementsStore` | `ImplementsPostingStore` |
| | `CompanionAlwaysAvailable`, `NoPhantomEver`, `WarmStepsAlwaysKeep`, `FullCacheAlwaysStaysFull`, `UpdatesAlwaysTakeEffect` | if `PoolIsLarge`: `CompanionAvailable`, `NoPhantomPosting`, `WarmStepKeepsPostings`, `FullCacheStaysFull`, and each step of an update is an update of `PostingStore` |
| `DocSlotsProofs` | `SlotsImplementDocStore` | `Spec => ImplementsDocStore` |
| | `SlotsTypeCorrect`, `SlotCacheAlwaysBounded`, `VersionsAlwaysInStep`, `ListedDocsEmptyOnlyAsUploaded` | `TypeOK`, `CacheBounded`, `VersionsInStep`, `EmptyOnlyAsUploaded` |
| `DocUpdatesProofs` | `UpdatesTypeCorrect`, `IndexAlwaysExact` | `TypeOK`, `IndexExact` |
| | `MachineExact` | the code of an expression of any size finds what the expression means |
| | `QueriesAnsweredExactly` | `Spec => []QueriesExact`: so do queries, in every state, for documents the index is right about |
| | `UpdatesAsInStore` | what `DocUpdates` takes a batch of updates for is what `PostingStore` does in as many steps |
| `EnclaveContextsProofs` | `CacheAlwaysBounded` | `CacheBounded`, for any use of client ids |
| | `ContextsTypeCorrect`, `AlwaysServedByOwnContext`, `AlwaysServedUpToDate`, `ClientNeverStranded`, `AlwaysOneContextPerEdb`, `SealsNeverForget` | if `OneEdbPerClient`: `TypeOK`, `ServedByOwnContext`, `ServedUpToDate`, `NeverStranded`, `OneContextPerEdb`, `SealNeverForgets` |
| `EnclavePoolProofs` | `PoolTypeCorrect`, `EnclaveAlwaysExclusive`, `BusyAlwaysIffServing`, `NobodyEverTurnedAway`, `MapNeverRaced`, `LateClientsAlwaysShareFirst` | `TypeOK`, `EnclaveExclusive`, `BusyIffServing`, `NobodyTurnedAway`, `MapNotRaced`, `LateClientsShareFirst` |
| | `NoWakeupEverLost`, `DestructionFlushesAll` | `NoLostWakeup`; `shutdown_flush` passes over no client |
| `DatabasesProofs` | `DatabasesTypeCorrect`, `DeletedAlwaysStays`, `SealedAlwaysStored`, `NumbersNeverReused` | `DbTypeOK`, `DeletedStays`, `SealedIsStored`, `NumbersNotReused` |
| | `CatalogAlwaysCovers` | `CatalogCovers` |
| | `SessionsServedByOwnContext` | `ServedByOwnContext`, of the gateway's clients |
| `WireProofs` | `RequestsArrive`, `GatewayRequestsArrive` | a request the server has room for arrives as it was sent by a client, by the gateway |
| | `ResponsesArrive` | so does an answer, at both |
| | `GatewayUpdatesArrive` | an update the gateway builds of any data is one the enclave reads |
| | `DocumentsKept`, `LegacyDocumentsKept` | a stored document is read as it was stored, in all three formats; of one too long for its string, what is read instead |
| | `OneSize` | all stored documents have one size, those too long for it included; only these can end the enclave |
| | `UpdatesAlwaysArrive` | an update arrives as it was sent, without a hypothesis on its size |
| `RequestsProofs` | `EveryQueryExact` | an expression of any size and shape that a request can hold, from the text a user writes to the documents found, means what it says, in every state |
| | `AnswersAlwaysExact` | `AnswersExact` |
| | `RoundTripsAlways` | `RoundTrips` |
| | `EveryReplyExact` | what client and gateway see of a query is exact for every finite set of matches of which the sum fits the enclave's `int` |
| | `RepliesAlwaysExact` | `RepliesExact` |

The assumptions. `KeywordIndexAssumption`: words are not numbers (which name
dummies), the capacities are natural numbers and `CK_max` is positive.
`DocSlotsAssumption`: at least two documents, so that a decoy can be drawn, and
an empty content that differs from all others. `DocUpdatesAssumption`: finite
sets, and `NoDoc` is not a set of words. `EnclaveContextsAssumption` and
`DatabasesAssumption`: `NoClient` is no client, ids are numbers, bounds are
natural numbers. `EnclavePoolAssumption`: at least one enclave, client and
worker, finitely many. `WireAssumption`: the limits on lengths are natural
numbers that fit 32 bits; `BundlesAssumption`: so is `MAX_FILE_SIZE`, and it has room
for an empty document. `RequestsAssumption`: no keyword is spelled like an
operator or an aggregate, client ids and places of keywords fit a byte, and the
limits of a request are between what the checked queries and data need and
65536 (the code has 16 keywords and 4096 bytes), and a response has room for what
a query retrieves and for the row of an aggregate (100 documents for both).

**The keyword index.** The inductive invariant `IInv` adds three parts to the
properties. None of them could be left out: `CacheCoherent` is lost if a consumed
dummy in the cache may be non-empty on the server (`DummiesEmpty`);
`SnapshotIntact` is lost if the server may lack a bitmap the sealed context names
(`SnapshotStored`), or if a version can be at or below the sealed one, for then
the next store would hit a label that is still named (`PastSnapshot`). Dummies
are an exception to `PastSnapshot`: one that was consumed and comes back from the
cache restarts at version 1 and may overwrite a label, but with the empty bitmap
it already had. All updates, searches and flushes end in `StoreBatch`. The
proof therefore has a form for them: the step ends in a batch that leaves each
word with a given content (`Batched`), and `Framed` bounds what it does to the rest. What such a
step keeps is shown once (`BatchStored`, `BatchKeeps`, `BatchSpares`, `BatchStep`),
and each action has one lemma that shows it has the form.
`NoPhantomPosting` is not part of `IInv`, because a skipped deletion
(`UpdateSkipped`) is acknowledged without being made. `PInv`
adds the sizes: keys and cache are finite, the listed keywords are never
fewer than the dummies provisioned, and the sealed context has what the live one
has, because a reload starts from it. With `PoolIsLarge` `PickFails` is then
impossible while a database is open, no deletion is skipped, and
`NoPhantomPosting` is inductive together with the rest. Without it the theorem
would be false. The two action properties follow step by step: a batch that
`StoreBatch` moves to the server keeps the content of every word in it, so a warm
update changes no word but its own; and whatever a request brings into a full
cache makes it overflow, so that the spill leaves exactly `CK_max`.

**The index as a store.** The mapping to `PostingStore` takes for a word's postings
the cached bitmap, or else the one under its current version; for the sealed copy
what the labels of `context.dat` hold on the server now, not when it was
sealed. That is why `PostingStore` lets the copy change for the words in
`rewound`, which an update began anew on an empty cache, and only for these:
`SnapshotIntact` says it word by word, and each step must be shown to leave the
other labels alone (`Spared`). Skipped updates and those that throw map to
stutters and to `Lose`, so the refinement holds for a small pool too;
`UpdatesAlwaysTakeEffect` says that with the code's sizes there are no such
stutters, and then the two together say what an acknowledged update did.
`UpdatesAsInStore` closes the gap between the modules: `DocUpdates` applies
`UpdateKeywords` to all keywords of a document in one step (`Passes`, `Posted`),
and the theorem shows, keyword by keyword, that this is a sequence of `Update`
steps of `PostingStore`.

**The queries.** `Expressions` says which code belongs to which meaning: a list
in which each entry is a word, or made of earlier entries by NOT, AND or OR, with its
postfix code and its set of documents; every expression has such a list. What is
shown of an entry is `Pushes`: *wherever* its code stands in a longer one, and
whatever is on the stack, the machine comes to the end of it having pushed one
bitmap, which on the documents D is what the entry means. A run of turns is a
function (`Runs`), runs are joined end to end (`RunOn`), and each operator has one
lemma (`PushWord`, `PushNot`, `PushBoth`). A least entry without the property would be
a counterexample, and there is none (`ExpressionsCoded`); no induction principle is
used. D is any set of documents of which the bitmaps are right: evaluation
works document by document, so what the index has wrong about one cannot
spoil the answer about another. `QueriesAnsweredExactly` takes for D the
`Tracked` documents and gets the bitmaps from `IndexAlwaysExact`.

**The slots.** `StoreMoves` says that moving any part of a cache to the server
changes no document and changes the server exactly there; updates, retrievals,
flushes and crashes follow from it. The invariant adds to the checked properties
only that a lost enclave has an empty cache (`LostIsEmpty`), without which
`Resume` would drop contents. The refinement mapping needs no history: `docs` is
the cached content, or else the stored one, and `durable` is the stored one.

**The update handler.** `IndexExact` is inductive only together with what a
reload will find: the sealed labels hold the sealed postings except for keywords
that were reset since, the sealed context was exact when it was sealed
(`SealedExact`), and while the database is down the slots are those of the server.
One lemma (about `Posted`) says what a pass of `UpdateKeywords` leaves exact;
INSERT, DELETE and both passes of REPLACE cite it.

**The scheduler.** Under `OneEdbPerClient` a context's client and database
determine each other (`Creators`), so the cache, keyed by one, answers the
question about the other. `Owned` says of the active context, the cache and the
snapshots that each is its creator's and that the newest copy of a database is
in the enclave or else on disk. It is stated of three *values*, so that it can be
said between the steps of `ecall_schedule_context` (after caching, after an
eviction, after the look-up), and each of these has one lemma.

**The pool.** First who may be inside an enclave (`Exclusive`: the busy mark and
the worker in it determine each other), then what a task knows of its caller
(`Tasks`), then the order in which clients are registered (`Orderly`: all
bindings but the last are to different enclaves or to the first). The last part
uses that `benchmark_main.cpp` registers one client after the other. For
`NoLostWakeup` the invariant follows each task from the push to the answer
(`TaskHeld`, `Answers`), says that while the queue is not empty somebody is going
to look at it (`Attended`: a worker that is not asleep, or a caller that has pushed
and not yet notified), and that no worker leaves while a call is out (`Ending`).
It is the safety half of `EveryCallReturns`. `DestructionFlushesAll` follows from
it and from the bindings: the threads have been joined, so no enclave is busy,
and every client is bound to one.

**The databases.** Two facts carry everything. A client is connected at most once
in the life of a server process (`OneInit`: only a session that has not begun
sends INIT, and a client that waits for its INIT is not in `edb_id_map`), so a
database stays in `edb_id_map` once it is there. The enclave has contexts only of
databases in `edb_id_map` (`Contexts`), so no eviction and no flush writes another
database's files. With them, numbers not yet given out have left no trace
(`Fresh`), deleted databases have none left (`Gone`), and each step that changes a
sealed context writes its blobs at once (`StoredIn`). `Worked` is what any request
leaves of the enclave and is proved once per request, from one lemma about
`Outcomes`; `DiskStep` turns it into the invariant of the disk. None of this uses
`OneEdbPerClient`.

**The catalogs.** `CInv` follows a document from the enclave to the gateway.
Every copy of a context, active, cached or sealed, knows only documents that its
database's catalog knows or that a reply carries (`Known`); scheduling only moves
copies (`OutcomeCopies`), so only an update adds to one, and its reply is there
unless the caller gave up, which is careless. For this the reply must be that of
the right database: each copy is of the database its client is bound to in
`edb_id_map` (`Owners`), which is the one its session is bound to (`Bindings`).
The same two parts give `SessionsServedByOwnContext`: what `contexts_foreign`
refutes of returning client ids holds of sessions that each have their own.
`Talk` is about the calls alone: which are outstanding, that one that opens a
session has no rival, and that the catalog of a database without an open session
is in `catalog.json` (`Closed`), from where the next session takes it.

**The codec.** The theorems speak of sequences over any set of cells that contains
the bytes, of numbers over their whole range and of data of every length; the
run `requests` has chosen lengths and chosen numbers. The one hypothesis about
sizes is that the whole request, or answer, is shorter than 2^32 bytes, which is
what its length field can say; a request is legal if its fields are within the
limits of the protocol (at most `MAX_TERMS` keywords of at most `MAX_KEYWORD_LEN`
bytes, a program of at most `BOOL_EXPR_SIZE`, `MAX_INDEX_SIZE`, `MAX_DOC_SIZE`). Of
these the server checks the number of keywords and the last two; a client cuts
its keywords and bounds no program. The loops of the decoder are
shown by the least position at which they would go wrong (`LeastNumber`), since
induction over a sequence is not available; concatenations stand behind a name
(`Cat`) so that the provers take apart only the one at hand. Of a document, what is
read back is what was stored without the zeros at its end, which the code trims
when it stores and when it reads, provided index and body fit into `MAX_FILE_SIZE`
together. The code does not see to that, so the theorems have both cases
(`Overruns`): `CutRead` shows what is parsed of a string that ends before the
document, by taking the string apart at the same places (`TakenBehind`).

**The query parser.** The C++ functions call each other, and each call comes after a
token was passed. `Queries` therefore has them as tables: `Depths(n, …)` is what they
return if calls are at most n deep, and a text of n tokens needs no more. An
expression is a record of its text, of how tightly its outermost operator binds and
of the sets of keywords that satisfy it; `Not`, `And`, `Or` and `Paren` build them, with
parentheses where the grammar needs them. What is shown of one (`Compiled`) is
about *any* text it stands in, any keywords listed before it and any depth that
suffices for the tokens left (`Fit`, `Deep`): the function for its level passes exactly its
tokens, adds its keywords to the list, and emits code that finds what it means
(`Finds`, over `Pushes` of `DocUpdatesProofs`). The loops of `parse_term` and
`parse_expr` read a chain of operands from the left, so of these functions it is
shown that they come to the head of their loop behind the text, from where an
operator that follows takes them on (`ReadsTerm`, `ReadsExpr`). `FormedCompiled` takes the
least expression of a list that is not compiled. The gateway's parser is the same
one over a text in lower case (`SameProgram`), and `Sendable` says that the keywords and
the code fit the request's two arrays (`MAX_TERMS`, 128 bytes): at most as many
words as `MAX_TERMS` and a text of at most 64 tokens. With `RequestsArrive` the
program arrives, and `IndexAlwaysExact` gives what it is evaluated over.

**Replies.** The library defines sums by recursion over an order it chooses, so
that nothing can be proved about them by unfolding. `IsTotal(h, I, w)` says that the
table `h` holds what the weights `w` sum up to over each subset of `I`: there is
one for every finite set (`TotalExists`), and every table of partial sums that
takes one element at a time, in whatever order, ends at the same number
(`AnyOrder`). This gives the sum of a set (`SumOfSet`) and of a sequence
(`SumOfSequence`), and with the ids in ascending order, which exist (`CanSort`) and
are an enumeration (`InOrder`), that the enclave's loop adds up the set
(`SumInOrder`). Then the first id is the least, the last one the greatest,
`AggregateLeft` and `FirstOnes` say what is in `result_doc`, and `RowsArrive` takes it
to both ends. Where the sum does not fit, the code's `int` overflows, and
nothing is claimed.

**Round trips.** `RoundTrips` fixes the data that TLC sends; the limits, the
keywords and the client ids are those of the theorem. Its parts are instances of
the theorems of `WireProofs` (`SamplesArrive`, `AnswersArrive`, `ProgramsSent`,
`GatewayCuts`, `WholeKept`, `PartKept`, `OldKept`): most of the work is to see that the lengths stay
below 2^32.

**Only model-checked.** Liveness (`EveryCallReturns`, `WorkersJoined`,
`ShutdownCompletes`) is out of the prover's reach. Every other property of a
passing run is a theorem. The five runs that expect a violation are
counterexamples and have nothing to prove.

## 5. Not modelled

* Cryptography, the sealed byte format and SGX calls that fail: no property tells
  ciphertexts apart beyond what they decrypt to.
* A `context.dat` torn by a crash: it fails to unseal, and the database stays
  closed, as a missing one would; the models have the missing one.
* Splitting a text at blanks, stemming (`tokenize.py`) and cutting an index into
  keywords (`wordTokenize`): text processing without state.
* In the gateway: deletion and replacement of documents (they change a catalog
  only by taking a number out, or not at all), a restart of the gateway (what
  returning client ids do is `contexts_foreign`), previews and the data
  directory, and more than 155 sessions.
* The server's interactive client loop, which holds a connection for many
  requests. The gateway sends one request per connection.
* Several enclaves with contexts of one database: `EnclavePool` shows who shares
  an enclave. Within one enclave `OneContextPerEdb` says when a database has a
  single context, and `contexts_stale_resume` shows what becomes of a resumed one.
* The audit log (lines appended to a file), the frontend, scripts, data
  generators and build files.
