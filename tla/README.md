# Verification of the kachedb Python client

This directory holds TLA+ models of the kachedb Python package (`src/src/kachedb`),
TLC configurations that check them on small instances, and TLAPS proofs that the
properties of the pools, the clients, the decoder, the KV connectors, the semantic
cache, the chunker and the shared-memory views hold for every size of them. Each
module is translated from the code; `PROJECT.json` names for every definition the lines it stands for, for every
property a plausible bug that breaks it, and the behaviours of the code that are hard
to test together with the properties that cover them.

    tlc -config pool.cfg MCConnectionPool      # one run; section 3 lists all
    tlapm ConnectionPool_proofs.tla            # the proofs of one module
    for m in *_proofs.tla; do tlapm $m; done   # all of them

## 1. Inventory

| Component | Code | State | Operations | Talks to | Modelled in |
|---|---|---|---|---|---|
| Connection pool (threads) | `pool.py:27-152` | `_pool` (a `queue.Queue` of idle connections), `_active_count`, `_lock` | `get_connection`, `release_connection`, `disconnect_all` | connections, server | `ConnectionPool` |
| Connection | `connection.py` | socket, `RespReader` | `connect`, `disconnect`, `send_command`, `send_packed`, `read_response`, `check_health` | server | `ConnectionPool`, `KacheClient` |
| Client (threads) | `client.py` | the pool, `_conn` (dedicated connection) | `connect`, `close`, `_execute` and about 40 commands on it, `pipeline` | pool, connection | `KacheClient` |
| Pipelines | `pipeline.py` | queued commands, the connection or the stream pair | command methods, `execute` | connection | `KacheClient`, `AsyncKacheClient` |
| Asyncio pool and client | `pool.py:155-294`, `async_client.py` | the same with `asyncio.Queue`/`Lock`; the client's stream triple | the same; `_execute` | event loop, server | `AsyncKacheClient` |
| RESP codec | `resp.py` | `_buf`, `_pos` | `encode_command(s)`, `read_response` | socket or stream | `RespReader` |
| KV ring | `dma.py`, `descriptor.py` | `_buf`, `_write_head` | `write_paged_block`, `read_paged_block` | both connectors | `KVRing` |
| vLLM connector | `vllm/` | ring, prefix index | `send_kv_caches...`, `recv_kv_caches...` | ring | `VllmConnector` |
| SGLang connector | `sglang/` | ring, radix node index | `offload_node`, `restore_prefix` | ring | `SglangConnector` |
| Semantic cache (both) | `semantic/cache.py` | none of its own; a KV key and a vector per prompt on the server | `set`, `get`, `delete`, `stats` | client, embedder | `SemanticCache` |
| Markdown chunker | `semantic/chunker.py` | local to a call | `chunk_document` | none | `Chunker` |
| Tags, quantizer | `tags.py`, `quantizer.py` | none | `tags_to_bitmask`, `sq8_encode`, `sq8_decode` | none | the masks in `SemanticCache` |
| Shared-memory views | `tensor.py` | `_shm_cache` of mapped files, each with a position | `attach_shm`, `read_tensor`, `detach_all` | files in /dev/shm | `TensorShm` |
| Embedders | `semantic/embedders.py` | a model handle | `encode` | external libraries | no |
| Integrations | `integrations/` | none of their own | LangChain and LlamaIndex stores | client, semantic cache | no |

What is hard, and what makes each of them correct:

* **Pool.** Threads take from the queue, change the counter and use sockets in
  separate steps; `connect`, AUTH, health checks and commands fail;
  `disconnect_all` runs in between. Correct: a connection has one user; the counter
  equals what exists; the limit holds; a refusal is justified; what is queued is
  usable; each call returns.
* **Client, connection, pipelines.** Only the order of a connection's replies ties a
  reply to its command, so a reply that is given up unread answers the next command.
  Calls fail, are interrupted, or meet a server that closes the connection. `_conn` has
  no lock, and `connect`, `close` and the calls of other threads read and set it in
  between. Correct: every call finds its own replies and nobody else's; what a call took
  from the pool goes back, once.
* **Asyncio.** No preemption, but a task can be cancelled wherever it is suspended,
  tasks share the client's stream pair, the stream is looked up again behind an
  `await`, and a pipeline keeps the pair the client had. Correct: as above, and slots
  survive cancellations.
* **RESP decoder.** Frames arrive in pieces of any size; `recv` raises in the middle of
  one; an error frame leaves the recursion. Correct: the same values under every
  fragmentation, nothing consumed ahead or left behind, nobody waits for what arrived.
* **KV ring and connectors.** The ring forgets what it overwrites while the indexes
  keep the offsets. Correct: offset and write head agree at the wrap; an index points
  at the youngest copy; a match is a prefix without holes; what a restore copies is
  what was stored for that prefix.
* **Semantic cache.** A response has two copies, written by two requests, and tags
  share 64 bits. Correct: the copies agree, the last set is served, a deleted prompt is
  gone, a filter finds what was stored under it.
* **Chunker.** A fence flag, a heading stack, a size test and an overlap, updated in one
  loop in an order that matters. Correct: the stack is the document's, no line is lost,
  a chunk is cut where one is due, neither earlier nor later, and no code block is cut.
* **Shared-memory views.** Threads share the cache of mappings and each mapping's one
  file position; `detach_all` walks the cache while others add to it; the server goes
  away and comes back with new files. Correct: an array stays mapped, a call reads its
  own descriptor, nothing old is shown after a detach, no closed mapping is handed out.

## 2. Modules

| Module | Models | How it corresponds to the code |
|---|---|---|
| `ResourcePool` | what a pool promises | abstract: a resource is idle or has one owner; at most `Capacity` exist |
| `ConnectionPool` | `ConnectionPool` | each queue operation, lock section and socket operation is an action; `pc[t]` is the next of them, `conn[t]` the local variable `conn` |
| `Lemmas` | | what the proofs of several modules need of numbers, queues and sequences of sequences |
| `ConnectionPool_proofs` and the other `..._proofs` | | the theorems of section 5, one module for each module they are about (`Connectors_proofs` for both connectors and the ring, `Parsers_proofs` for the decoder and the chunker) |
| `KacheClient` | `KacheClient`, `Pipeline`, the reply stream of `Connection` | `wire[c]` holds the commands sent on c whose replies are unread; pool calls are one step, as ResourcePool justifies; `connect` and `close` are two steps, the pool's call and the assignment of `_conn` |
| `AsyncKacheClient` | `AsyncConnectionPool`, `AsyncKacheClient`, `AsyncPipeline` | the code between two suspensions is an action; `ConnectRaises` and `ExecuteRaises` are the cancellations; `pipe[t]` is the stream pair a pipeline was made with |
| `ReplyStream` | what a decoder promises | abstract: each call returns the next reply, until one is broken off |
| `RespReader` | `RespReader`, `AsyncRespReader` | bytes in `buf` behind `pos`; `step` is where the innermost `_parse_frame` is, `arrays` how many elements each of the calls around it still has to read, `items` the values read so far; `Fetch` hands over any number of bytes |
| `KVRing` | `KacheDBMemoryManager` | memory in cells; a cell says which slot wrote it and which place of the slot it is; `Place` is the wrap; `trail` is the set of the slots written last, each with its age: the cells written since it began |
| `KVConnector` | what the two connectors have in common | extends KVRing; the prompts, the layers and what the last call restored |
| `VllmConnector` | `KacheDBConnector`, `KacheDBPrefixCache` | extends KVConnector; a chained hash is the prefix it was computed from |
| `SglangConnector` | `KacheDBSGLangConnector`, `KacheDBRadixAdapter` | extends KVConnector; `nodes` is the dict in insertion order; `Matching` is the greedy walk |
| `SemanticCache` | `SemanticCache`, `AsyncSemanticCache`, `tags_to_bitmask` | each request to the server is an action; a mask is the set of its bits |
| `Chunker` | `MarkdownChunker` | one action per line of the loop; `current_lines` is a stretch of the document, `first .. read`; sizes are differences of running sums, which is what can be reasoned about of a sum |
| `TensorShm` | `attach_shm`, `read_tensor`, `detach_all` | each dict, file and mapping operation is an action of the thread; `map[m]` is an mmap object with its position |
| `MC...` | | instances: constants, symmetry, views |

`VllmConnector` and `SglangConnector` are the compositions with the ring;
`KacheClient` and `AsyncKacheClient` compose client, pipeline, pool and stream.

History variables record what happened: `lost`, `drift` (pools), `tainted`, `opener`,
`lent`, `borrowed` (`KacheClient`),
`given`, `broken` (decoder), `trail`, `offered`, `offloads`, `restored` (ring and
connectors), `latest`, `deleted`, the field `expect` of a call (semantic cache), the
fields `start`, `cut` and `at` of a chunk, `raised`, `floor`, `late` (tensor views). No guard of an
action that models code reads them, but for the named bounds `MaxLost` and
`MaxOffloads`.

`lost` counts slots of `_active_count` that no connection stands for: kept by a
failed call, abandoned by `client.pipeline()` outside a `with` block, drained by a
`disconnect_all` that has not reset the counter yet. `drift` counts the connections
that existed when `disconnect_all` set the counter to 0.

A few choices that a reader of the code will ask about:

* A lock section of the threaded pool contains nothing that blocks, so it is one
  step and the lock is no variable. A socket operation is one step with the outcomes
  the code distinguishes.
* `Connection` and mmap objects are identities from a finite set. An object nobody
  refers to is collected, and its identity is used again.
* In `KacheClient` every thread may call anything at any time (`Spec`): no guard of the
  model is about who calls. `connect` takes a connection whatever `_conn` is, `close`
  releases whatever `_conn` is, and a call that ends looks at `_conn` anew; all the
  states this leads to are in the model, double releases and lost slots included. What
  holds of them is said of connections that were never dedicated (`lent` are those that
  were). `WithSpec` adds the discipline of a `with` block of its own, which no code
  enforces: from `connect` to `close` no other thread uses the client, no call or
  pipeline runs when it begins, and no pipeline of the block is kept past its end.
  `borrowed` are the calls whose connection came from the pool. Connections on which an interrupt or an error
  reply left replies unread are in `tainted`, and `InStep` speaks of the others.
  `ended` are the connections the server has closed and nobody noticed: a pipeline
  that meets one raises ProtocolError and leaves it marked as connected, and it goes
  back to the queue. `Interrupts` says whether calls may be interrupted
  (KeyboardInterrupt, a signal's exception).
* In `AsyncKacheClient` tasks use the client in any way, and keep pipelines over
  `close` and `connect`. Which reply a command gets is stated by `OwnReplies` and
  `ReadsWhereItWrote`, which the code does not keep (section 4); no weaker promise is
  made for it. A second task that wants to read gets asyncio's RuntimeError; that it may
  instead take bytes that have arrived for a first task not yet resumed is left out.
* A reply is one element of `wire` in the clients. That a reply is a frame which can
  break off in the middle is `RespReader`, whose `broken` says how the first failing
  call of a connection left the stream.
* In `RespReader` a reply is the sequence of its frames, an array's before those of
  its elements, and so is a nested value: the two carry the same information (an
  array says how many elements follow it), and nothing has to be recursive. A number is
  one cell of the stream, or two for -1, whatever its digits: the decoder's steps depend
  on where a line ends, not on how long it is. Text is taken to be UTF-8.
* Blocks of the ring carry their identity, not their bytes: a restore is right when
  it copies the cells of the block it is for. The vLLM restore reads two bytes an
  element whatever was written (`ReadWidth`); the run's caches have that width.
* The semantic cache's server is external: a search returns one similar vector that
  has all bits of the filter, the query's own if it qualifies. One workspace and one
  index are modelled. `Options` are the combinations of tags and `parent_key` a set
  is called with.
* A line of a document is its kind, its heading level and its number of characters:
  nothing else of it is read by the chunker's control.
* In `TensorShm` memory is in units of a descriptor (64 bytes). The GIL makes a dict
  operation, `seek`, `read` and `close` atomic; `open` and `mmap` are separate steps. The
  server replaces whole files; what it writes into a block while it is read is not
  modelled. One thread calls `detach_all`.

## 3. Runs

| Run | Question | Result and bounds |
|---|---|---|
| `pool` | Do ownership, readiness of queued connections, accounting, the limit, justified refusals, return of every call and the refinement of ResourcePool hold with every fault and `disconnect_all`? | Holds. 3 threads, 1 of them also closing, limit 2, password. Two threads contend at the limit while the third closes; five identities are all that can exist at once |
| `client` | Does every call read exactly its own replies, where a `with` block has the client to itself? | Holds (`WithSpec`). 2 threads, limit 2, batches of up to 3 commands: one that fails, ends or is interrupted at the first, a middle or the last reply. 2.9 million states |
| `client_shared` | Does a connection have one user, who finds its own replies, whatever the threads connect and close in the middle of each other's calls? | Holds for connections that were never dedicated (`Spec`). 2 threads, limit 2, two identities, one command a batch, interrupts, one unread reply at a new request, `active` at most 1 below zero. 5.9 million states. `client_excess.cfg` is the same without interrupts and with a third identity, for the connection beyond the limit that releases in excess lead to: 5.7 million states, no violation |
| `client_pipeline` | Are a pipeline's responses those of its commands, in order? | Violated: after an error reply the next `execute` reads the failed batch's other replies |
| `async` | Accounting and one home per connection under cancellation, reconnection, shared use and pipelines | Holds. 2 tasks with a pipeline each, limit 2, batches of 2, three unread replies, one lost slot; seven identities are all that can be referred to at once. 1.4 million states |
| `vllm` | Is what was written within the ring's window found and restored as written, and is an offloaded prompt matched whole? | Holds. 2 layers, a ring of 4 slots and 2 spare cells, 6 prefixes that share blocks: 12 slots, the ring wraps several times |
| `vllm_stale` | Does a restore copy "matching cached prefix blocks"? | Violated: once the ring has wrapped it copies what overwrote them |
| `sglang` | The same for nodes of different lengths, offloaded repeatedly and in any order; is a match a chain, and the longest without splits? | Holds. 2 layers, slots of 3 and 5 cells in a ring of 16, 5 nodes of which two split a third, 6 offloads (12 slots): several wraps at varying offsets |
| `semantic` | Do the two copies agree and is the last undisturbed set served, on both paths, with and without tags? | Holds. 2 callers, a prompt, its unstripped spelling, a similar prompt, 2 responses, two tags that share a bit and a blank one, every request failing or expiring. 1.4 million states |
| `semantic_delete` | Does `delete` delete the entry? | Violated: the exact key stays |
| `parsers` | Does the decoder return the server's values, and consume and await exactly what belongs to a reply, however the stream is cut up? | Holds. All sequences of 2 replies out of 12, which cover every marker, the three nulls, payloads with CRLF and markers inside, nested arrays and an error inside an array; pieces of every size; the buffer is compacted within and between frames. 1.35 million states |
| | Is the heading path right, is no line lost, is a chunk cut where one is due, neither earlier nor later, and does every call return? | Holds. All documents of up to 6 lines of 8 kinds: blank, 12, 27 and 52 tokens (less than the overlap and half the target, between half and target, above the target), three heading levels (so that levels are skipped both ways), a fence; and documents of 27 and 30 lines of 7 characters, one of them another one, or of 180 and 210 lines of which nearly all are empty, where the overlap that is kept is close to the target or past it. 1.4 million states |
| `tensor` | Do arrays stay mapped, is nothing old or closed handed out? | Holds. 2 threads of which one detaches, 2 cores, 2 files (so the server is restarted once), blocks at two offsets, a size beyond the file; 7 mappings are more than can be referred to at once. 2.6 million states |

`parsers` runs the decoder and the chunker, which are sequential and share nothing, in one
state space: in a behaviour one of them runs and the other stands still.

Nine further configurations show what the code does not keep beside the three runs
above. Each checks one property, which a doc or a comment states, and TLC prints a trace
that ends in its violation (section 4):

    tlc -config client_release.cfg MCKacheClient

| Configuration | Module | Question | Counterexample |
|---|---|---|---|
| `client_release` | `MCKacheClient` | Does a call give back only what it took from the pool? (`ReleasesCheckoutsOnly`) | It releases the dedicated connection again when another thread's `close` came first |
| `client_checkout` | `MCKacheClient` | Does a call give back what it took? (`ReleasesEveryCheckout`) | Not after another thread's `connect` |
| `async_cancelled` | `MCAsyncKacheClient` | Does a command return its own reply? (`OwnReplies`) | A cancelled command's reply goes to the next one |
| `async_reconnect` | `MCAsyncKacheClient` | Is a reply read from the connection the command was written to? (`ReadsWhereItWrote`) | Not if another task connects while `drain` waits |
| `resp_partial` | `MCParsers` | Does the decoder retain a frame that broke off? (`PartialFramesRetained`) | What was parsed of it is gone, the next call begins inside the frame |
| `chunk_fence` | `MCParsers` | Does no chunk begin inside a code block? (`FencesWhole`) | The overlap keeps the end of a block, or its closing fence alone |
| `tensor_race` | `MCTensorShm` | Does a call go by the descriptor at its own offset? (`OwnDescriptor`) | Two threads share the mapping's position |
| `tensor_detach` | `MCTensorShm` | Does `detach_all` close and forget all mappings? (`NoneLeftClosed`) | An `attach_shm` of another thread makes the loop raise |
| `tensor_size` | `MCTensorShm` | Is a mapping of the size asked for? (`SizeAsAsked`) | Of the size the first call asked for |

What the passing runs show, property by property:

* `SlotAccounting` (both pools): `_active_count` balances with what exists; every
  path that unbalances it is a named fault. `ConnectionLimit`: at most
  `max_connections` open sockets beyond `drift`.
* `EveryCallReturns`: with a scheduler that lets every running call take its
  next step, each pool call returns, the loop of `disconnect_all` included, though
  others keep releasing into the queue it drains: a drained slot is not given
  back before the loop is over, which bounds the new connections meanwhile.
* `InStep` is the threaded client's main property: on an untainted connection the unread
  replies are exactly those its present user waits for. `CheckoutsInStep` says the same
  without any discipline of the callers, of connections that were never dedicated, and
  `OneUser` that there is one such user: the races of `connect` and `close` are confined
  to the connections they touch. `OneHome` is the asyncio pool's half of it.
* `BetweenReplies`: between two calls the position is at the end of a reply, unless a
  `recv` raised in the middle of one, which is what `PartialFramesRetained` is about
  (section 4); after an error inside an array it
  is still at the start of a frame. `WaitsOnlyForMissing`: `recv` is called only while the
  present reply has not arrived whole. `ImplementsReplyStream`: the values are those
  the server sent, in order.
* `RecentIntact`, `RecentRestoreIsRight` and `RecentBlocksAreRight`: a slot survives until more than
  `Window = PoolSize - MaxSlot + 1` cells have been written since (its own included),
  because at most `MaxSlot - 1` cells are left unused at a wrap. The window is a
  guarantee in the number of cells, whatever the order of the sizes.
* `MatchIsLongest` holds while no two registered siblings begin with the same token.
  After a split the first registered form wins and the match may be shorter than
  possible; `MatchIsPrefix` holds even then.
* `LatestIsServed`, `CopiesAgree`: the guarantee is conditional on an undisturbed
  set. Two sets of the same prompt that overlap may leave different responses in the
  two copies for good, and so does a set with `store_exact=False` after one with an
  exact key: both are in the model and excluded by `latest`, so that no property covers
  them (`PROJECT.json` lists them as hazards without one).
* `HeadingHierarchy` speaks of the stack, not of the title of a chunk (section 4).
  `CutWhereDue` has two halves. `WasDue`: no cut is early, for the lines that waited had
  reached the target at a cut for size, half of it at one before a heading, and both lie
  outside of code. `NoneWasDue`: none is missing, of the lines read since the chunk
  before was cut (the overlap may have reached the target by itself, section 4, and is not
  cut again). A chunk ends inside a code block only where the document does; where one
  begins is `FencesWhole`, which does not hold.
* `ShowsPresentFile` excepts the calls that were running when the cache was cleared,
  `ClosedIsForgotten` the time after a `detach_all` that raised: that one may raise at
  all, and leave closed mappings behind, is `NoneLeftClosed` (section 4).

**Symmetry and views.** Threads, tasks, connections, callers and responses are
interchangeable where a `SYMMETRY` is declared; no run with symmetry checks liveness.
The `VIEW`s of `async`, `semantic` and `tensor` leave out what no step and no property
reads: which identity a connection or a mapping has, connections nobody refers to, whose a reply is (`async`, which claims nothing of it), the
history of deletions, a position no read will use.

**Deadlock** is checked in every run. That `chunk_document` has returned is the one state that
has no step of its own (`Returned` in `MCParsers`).

**Fairness.** Only `pool` checks liveness, under weak fairness of each thread's
running call: the interpreter schedules every thread that can run, lock sections are
short, and every socket operation is bounded by `socket_timeout` and then raises.
Nothing obliges a thread to start a call or a holder to release. The other modules
make no promise of the kind: an asyncio read and a shared-memory call have no
time-out or wait for nothing.

## 4. Findings

Three runs contradict a docstring, which `PROJECT.json` quotes:

| Run | Code | What is said |
|---|---|---|
| `client_pipeline` | `pipeline.py:186` | responses in the order of the commands (`pipeline.py:172`) |
| `vllm_stale` | `vllm/connector.py` | "matching cached prefix blocks" (`vllm/connector.py:152`) |
| `semantic_delete` | `semantic/cache.py:299` | the entry is deleted (`semantic/cache.py:298`) |

Nine further configurations (section 3) contradict these:

| Configuration | What the code does | What is said |
|---|---|---|
| `client_release` | `_release_conn` goes by what `_conn` is when the call ends (`client.py:161`): after another thread's `close` it releases the formerly dedicated connection, which `close` has released | "Release if it was a per-call checkout." (`client.py:160`); pool and client are documented as thread-safe (`pool.py:23`) |
| `client_checkout` | for the same reason it does not release a checkout after another thread's `connect`, and the slot of `_active_count` is lost | the same |
| `async_cancelled` | a cancellation between writing and reading leaves the reply on a connection the client goes on using (`async_client.py:122`, and `pipeline.py:361` for a batch) | "Execute a single command and return the response." (`async_client.py:114`) |
| `async_reconnect` | `_resp_reader` is looked up again behind the drain (`async_client.py:122`) | the same |
| `resp_partial` | marker, length line and payload are consumed as they are parsed (`resp.py:125`) | "retaining unconsumed bytes across ``read_response`` calls" (`resp.py:57`) |
| `chunk_fence` | the overlap keeps whole lines, whatever they are (`semantic/chunker.py:144`) | "code fence integrity" (`semantic/chunker.py:5`) |
| `tensor_race` | `seek` sets the shared mapping's one position, `read` goes by it in a second call (`tensor.py:122`) | "Reads the 64-byte [...] at *byte_offset*" (`tensor.py:97`) |
| `tensor_detach` | the loop raises RuntimeError before `clear()` when a mapping is stored meanwhile (`tensor.py:203`): closed mappings stay cached | "Close and unmap all cached shared memory regions." (`tensor.py:202`) |
| `tensor_size` | the cache goes by the path alone (`tensor.py:72`) | "keyed by (shm_path, size_bytes)" (`tensor.py:24`) |

Observations met while modelling, which have no configuration of their own. The models contain
the behaviour where they cover the code; no property claims the contrary.

* `disconnect_all` zeroes the counter although connections are checked out, so later
  calls can exceed the documented limit (`pool.py:151`; `drift` measures it). A
  connect that is refused keeps its slot (`pool.py:117`; `lost`), and after
  `max_connections` of them the pool is exhausted with no connection in use.
* A thread can get `PoolExhaustedError` while a connection has just been returned to
  the queue (`pool.py:99`).
* The asyncio pool hands out connections whose peer has closed them (`pool.py:211`). An
  `AsyncPipeline` goes on using the stream pair it was made with after the client has
  closed it or connected again (`pipeline.py:356`).
* A connection that `connect` dedicated and that another thread still uses when it is
  closed is released twice: it is queued twice, or counted out twice, and `_active_count`
  can become negative, so that more than `max_connections` are made. A second `connect`
  drops the first dedicated connection with its slot (`client.py:131`).
* The flush before a heading uses the path that already contains it, so a chunk
  bears the breadcrumb of the section behind it (`chunker.py:164` and `170`; the
  docstring at line 31 says "headings leading to this chunk"). The
  overlap may begin in the section before, the last flush may
  consist of overlap alone, and an unclosed fence makes one chunk of the rest.
* The overlap is limited line by line, without the line breaks and with each line's
  tokens rounded by itself (`chunker.py:140`, against the sum at line 175): it may have more
  tokens than `overlap`, and with many empty lines as many as the target, so that a
  chunk of overlap and one line is cut with every line.
* After a restart of the server `_shm_cache` goes on showing its old file until
  `detach_all` (`tensor.py:73`).
* A slot larger than the pool makes the slice assignment grow the bytearray
  (`dma.py:90`), and a restore without a dtype reads two bytes an element
  (`dma.py:114`). An offloaded SGLang node is written again each time it is evicted.
* Workspaces that share an index see each other's vectors (`semantic/cache.py:238`),
  and an exact hit ignores the filter (`semantic/cache.py:217`).
* `clear` of the LangChain caches does nothing, and their semantic one ignores
  `llm_string`; `put_all` of the LlamaIndex store takes a connection out of the pool
  for good with each call, through `client.pipeline()` outside a `with` block.

## 5. Proofs

Nothing is assumed but the named `ASSUME`s of the modules, which TLC evaluates on every
run of theirs: finite sets of threads, tasks, connections and cores; positive limits and bounds; `None` and
`NoConn` are nothing else's value, a vector's included; a mapping object is free
when one is made (`ShmAssumption`: more identities than cache entries, arrays and calls
can refer to); slots fit in the ring; paths and prompts are sequences of tokens; a
document is not empty and begins and ends with a line that is not blank (it was
stripped); a reply is the frames of one value, and no text holds a CRLF
(`ReaderAssumption`). Each proof has one inductive invariant, a conjunction of named parts, and one
lemma for each action. The library's induction rules cannot be used by the provers
installed; where a proof goes by induction over numbers it uses that a set of numbers
has a least one (`LeastOf` and `UpTo` in `Lemmas`), over a set that the statement
defines. That also shows that a recursive function satisfies its equations (`SumsAre`
and `OpensAre` of `Parsers_proofs`, `FlattenIs` of `Lemmas`, `RingsAre`, `TrailsAre`, `MatchingIs` and
`MissingIs` of `Connectors_proofs`).

### The threaded pool

`ConnectionPool_proofs` proves for every finite set of threads and connections, every
`max_connections`, with and without a password, and every combination of faults:

| Theorem | Statement |
|---|---|
| `TypeCorrect` | `Spec => []TypeOK` |
| `OwnershipIsExclusive` | a connection is queued once or in one thread's hands |
| `PooledAreReady` | what is queued is open and, with a password, authenticated |
| `SlotsAreAccountedFor` | `active + drift = queued + in hand or in the making + lost` |
| `ConnectionsAreLimited` | at most `max_connections` open sockets beyond `drift` |
| `LimitHoldsWithoutDisconnectAll` | if nobody closes the pool, the documented limit holds whatever fails |
| `NoSlotIsLost` | without faults and `disconnect_all` nothing is ever lost |
| `RefusalsAreJustified` | `PoolExhaustedError` only when the slots are taken |
| `PoolImplementsResourcePool` | the pool refines `ResourcePool` |

The argument. `ExclusiveOwnership` is not inductive: a step that closes a connection
says nothing of who else has it unless every open connection is known to be queued or
in hand, and a thread that releases says nothing unless its `conn` is bound where the
code uses it. `Places` adds both (`NothingStray`, `Coherent`) and readiness;
`PlacesStep` shows action by action that it is preserved, from lemmas on what taking
the head of the queue and appending to it do to its elements. The counting properties
need `Counted` (the accounting equation and `active <= max_connections`), preserved
because each action changes the counter, the queue and the set of charged threads by
amounts that cancel (`CountedStep`, with `CountStep` for the change of one `pc[t]`). The
limit follows by counting: the sockets that exist lie in the queue or in the hands of
charged threads (`ExistingBound`, `LimitFromCounts`). `Undisturbed` and `NothingLost`
are the invariants of the pool that is never closed and of the one where nothing fails. The
refinement maps `idle` to the queue and `owner[t]` to the connection in hand while it
is open; `StepMaps` maps each action, and `RoomToConnect` shows that a thread that has
reserved a slot finds the room that ResourcePool's `Create` asks for.

### The asyncio pool and client

`AsyncKacheClient_proofs` proves for every finite set of tasks, every set of
connections, every limit and bound, with and without a password:

| Theorem | Statement |
|---|---|
| `TypeCorrect` | `Spec => []TypeOK`, the limits of queue and counter among it |
| `OneHomeForEach` | `OneHome`: a stream pair is queued once, kept by the client, or being authenticated by one task |
| `SlotsAreAccounted` | `active + drift = queued + kept or in the making + lost`, wherever a task is cancelled |

The argument. `TypeOK` needs `Bound`: a suspended task has a connection, and waits for
at least one reply (else `todo[t] - 1` leaves its type); `Typed` is both. `Homes` adds
to `OneHome` that no pipeline keeps a connection that is being authenticated: a batch
on it would bring its task there as well. The accounting equation is inductive given these, by
counting how a step changes the set of tasks that are connecting (`ConnectingStep`). Which
task gets which reply is not proved, for it does not hold (section 4).

### The client and its pipelines

`KacheClient_proofs` proves for every finite set of threads, every set of connections,
every pool size, batch size and bound, with and without interrupts:

| Theorem | Statement |
|---|---|
| `TypeCorrect` | `WithSpec => []TypeOK`, `active` between 0 and `MaxConnections` and what `ended` connections are among it |
| `RepliesInStep` | `WithSpec => []InStep`: on an untainted connection the unread replies are those its user waits for, in order |
| `CheckoutsNeverShared` | `Spec => []OneUser`: without any discipline, a connection that was never dedicated is queued once, or in one thread's call or pipeline |

The argument for the first two. Between the two steps of `connect` and of `close` the
invariant is another one: `Settled` holds where nobody is in the middle of either,
`Connecting(t)` and `Closing(t)` where t is (`Inv`), and the discipline lets nobody else
take a step then (`Alone`). `Homes` gives every connection one place, the dedicated one
counted as one: only its opener's thread has any connection while there is one. `Streams`
says of every connection, read or not, what `InStep` says of one that is read, and that no
open one is lost; without it nothing is known of the stream a pooled connection brings
back. `Counted` bounds the connections there are by the counter, so that a taken slot is
always there to be given back. `GetFacts` and `ReleaseFacts` say once what the
pool's two operations do; `TurnStep` is the step of one thread on a connection it has in
hand, and `TookStep` that of an idle thread that takes one, and the actions are cases of
these two where they can be.

The argument for the third has nothing of that: queue, counter and streams may be in any
disorder, and only `Places` is kept, that a connection outside of `lent` has one place
(`Single`) and that what a thread's step says it has is what it has (`PlacesKnown`). What
the pool hands out has no other user, or is in `lent` (`TakenFacts`); what goes back to it
is its caller's alone, or is in `lent` (`ReturnedSingle`); everything else keeps the places or
gives one up (`KeptStep`).

### The connectors and the ring

Of SGLang's, `Connectors_proofs` proves for every set of paths and prompts, every number of
layers, every pool size and slot size:

| Theorem | Statement |
|---|---|
| `TypeCorrect` | one entry per node, and offsets with room for the node's slot |
| `RecentIsIntact` | `RecentIntact`: what at most `Window` cells were written since is whole |
| `IndexIsRecent` | a node's descriptor points at the youngest slot of each layer |
| `NodeRestoreIsRight` | `RecentRestoreIsRight`: a restore copies the cells that were written for the matched nodes |
| `MatchIsRight` | `MatchIsPrefix`: the match is a chain from the root that the prompt begins with |
| `MatchMissesNothing` | `MatchIsLongest`: where no node is split nothing on the way is missed |

The argument. `Sound` says where the write head is by a slot's age: `age` cells behind
its beginning, or the same less the pool size and at most `MaxSlot - 1` cells that were
left unused at the wrap. A slot in the window is therefore ahead of what the next write
covers (`StaysBehind`), which gives `WriteKeeps`, for one slot, and `WriteAllKeeps` for
an offload of all layers. That the index's slot is the youngest follows from
how much older everything else has become (`Older`). Matching needs what the sums of
the first slices of a path are (`Ends`, `FirstNext`): `Sensible` is kept by every turn of
the walk, and with one candidate a turn it takes the path's own node.

Of vLLM's it proves, for every set of prompts, every block size, number of layers and
width of an element, and every pool and slot size:

| Theorem | Statement |
|---|---|
| `VllmTypeCorrect` | `VllmSpec => []VllmTypeOK`, the offsets and the write head among it |
| `VllmRecentIsIntact` | `RecentIntact`, which the ring owes to both connectors |
| `OffsetsAreRecent` | `OffsetsFindRecent`: the offsets of a prefix are those of its slots |
| `OffloadedStaysMatched` | `OffloadedIsMatched`: an offloaded prompt is matched whole, whatever came after |
| `BlockRestoreIsRight` | `RecentBlocksAreRight`: a restore copies the cells that were written for the matched blocks, if the cache's elements have the width it reads |

The ring's lemmas are used as they are. What is added: one offload writes exactly the
prompt's unknown blocks, each of them once even where blocks repeat (`MissingFacts`),
with their layers end to end (`InRows`, `StoredIs`), and the index gets their offsets
(`SendIndexes`). A block is written once in the life of the process, so that its slot of
a layer is the only one of that name in the trail, and the offset in the index is
that slot's. A match is the longest run of known blocks from the first one on
(`MatchedIs`), and all blocks of an offered prompt are known: that is part of the
invariant (`VllmInv`). `Width = ReadWidth` is a premise of the last theorem because the
code gives `read_paged_block` no dtype (section 4).

### The decoder

`Parsers_proofs` proves for every set of replies, whatever their length and depth, every
number of them, every `chunk_size` and every threshold of `_compact`:

| Theorem | Statement |
|---|---|
| `ReaderTypeCorrect` | `ReaderSpec => []ReaderTypeOK`: the buffer is the end of what has arrived, after broken-off calls too |
| `RepliesConsumed` | `BetweenReplies`: between two calls exactly the replies given are consumed; after an error inside an array the reader is at a frame |
| `WaitsForMissing` | `WaitsOnlyForMissing`: `recv` is called only while bytes of the call's own reply are missing |
| `DecoderImplementsReplyStream` | the decoder refines `ReplyStream`: the server's replies, in order, whole and once |

The argument. The stream is the bytes of all frames, one after the other
(`FramePlaces`, from `FirstPlaces` on sequences of sequences), and `At` says where in its
frame each `step` is. `BetweenReplies` is not inductive: it says nothing of a
call under way. `InStep` adds that the reader is at the frame behind the
values in `items`, and `InFrames` the same of some frame once an error has left an
array. In such a place the next line ends at the first CRLF in the buffer
(`LineHere`: a text holds none, and a payload is never searched), and a payload is taken
by its length (`PayloadHere`), so that each step leads to the next place. `Typed` holds
even where nothing else does, inside a payload after a broken-off call. Which call a value belongs
to is a matter of counting: `Opens` is how many values are due behind the first frames of
a reply, and `Lacks` says that `arrays` lack exactly as many (`ReadingNext`,
`ReadingElement`); none are lacking where the reply ends and nowhere before
(`ReadingDone`, `ReadingAhead`). What is short of bytes is short of bytes of its frame
(`ShortHere`), which ends no later than the reply.

### The semantic cache

`SemanticCache_proofs` proves for every set of callers, prompts, tags, similarity and
every collision of tag bits:

| Theorem | Statement |
|---|---|
| `TypeCorrect` | `Spec => []TypeOK` |
| `TwoCopiesAgree` | `CopiesAgree`: after an undisturbed set both copies hold its response |
| `LatestServed` | `LatestIsServed`: an undisturbed get returns it, on both paths |

The argument. `CopiesAgree` is inductive only with `LatestIsQuiet`: no vector of that
key is on its way. The action property needs `Promised`: as long as nothing disturbs a
get, what it expects is what is stored, in each of the requests it goes through.
`Disturbs` and `Forgets` say once what a request for a key does to everybody else.

### The chunker

`Parsers_proofs` proves for every set of documents and every target and overlap:

| Theorem | Statement |
|---|---|
| `TypeCorrect` | chunks are stretches of the document, what waits is the last stretch read, `in_code_block` is the parity of the fences |
| `HeadingPath` | `HeadingHierarchy`: the stack is the path of headings above the line |
| `NoLineLost` | `NothingLost` |
| `CutsAreDue` | `CutWhereDue` |

The argument. Along the path of headings the levels increase, so that popping off the
end removes exactly those that are not above the new one (`PoppedIs`). Of the chunks,
`Sound` is what must hold at the end; `Covers`, `Behind` and `Due` relate them to the
lines that wait: everything before is covered, no chunk begins behind a line that waits, and
no cut was due since the last one. `FlushKeeps` is about one flush, whatever the
overlap keeps, and is used for the three places where one is made. The sizes enter
through `TokensShrink`: fewer lines have no more tokens. That no cut is early needs no
more than the tests that lead to it, but the tests know only of `in_code_block`, which
`TypeOK` ties to the fences. The first form of `CutWhereDue`
turned out to be no invariant here: it did not allow for an overlap that reaches the
target by itself, which no document of the run's first bounds had; such documents
are now part of the run.

### The shared-memory views

`TensorShm_proofs` proves for every set of threads, cores, blocks and files:

| Theorem | Statement |
|---|---|
| `TypeCorrect` | `TypeOK`: what an array shows stays mapped whatever `detach_all` does |
| `ClosedForgotten` | `ClosedIsForgotten`: a closed mapping is cached only while `detach_all` runs or after it raised |
| `PresentFileShown` | a call made after `detach_all` shows no file older than was there |

The argument. `Has` says what a thread has at each step of a call, `Private` that a
mapping not yet stored is its maker's alone, `Floors` that nothing older than the floor is
in the cache or on its way there, but by late threads. The action property follows from them
for the step that returns an array.

### What is only model-checked

Liveness (`EveryCallReturns`), which the prover cannot do, `CheckoutsInStep`, and the
runs and configurations that end in a violation. Every other property of the passing runs is a theorem.

## 6. Not modelled

* The interpretation of each command's reply, the argument order of each command,
  and `encode_command`: formatting without state.
* The quantizer (`quantizer.py`), tensor layouts and float encodings: arithmetic on
  vectors of floats, which TLC cannot evaluate; hash collisions; slots larger than the
  whole ring (`RingAssumption` excludes them: the default pool is 512 MB).
* Embedders: adapters over external libraries and a deterministic mock, no state. The
  cache's model takes "no two prompts have the same embedding" of them.
* Exceptions and exports (declarations).
* The framework integrations: each method is one call of `KacheClient` or
  `SemanticCache` with its arguments translated; the states they can reach are those
  of the modules named. What of them is remarkable is in section 4.
* The server: its writes into shared-memory blocks, its vector index, its expiry other
  than as an event. TLS set-up: it succeeds or raises like `connect`.

## 7. What remains

1. A proof of `CheckoutsInStep`: `Places` and the streams of the connections outside of `lent`
   together. Abstract specifications: a client that answers each call itself, implemented by
   `KacheClient` where nothing is tainted; a bounded log of slots, implemented by
   `KVRing`.
2. `KacheClient` with its pool calls taken apart, over `ConnectionPool` itself.
3. The eleven hazards of `PROJECT.json` without a property of a passing run: at those lines the
   code keeps no promise, or none that a property could state (the notes there say
   which configuration shows it, or why there is none).
