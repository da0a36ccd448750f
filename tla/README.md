# TLA+ verification of the TinyLLM inference server

This directory holds TLA+ specifications of the server in `src/`: models of
its inter-process communication and of the path of a request through it, the
TLC configurations that check them, and proofs checked by TLAPS. Paths below
are relative to the repository's `src/` directory (`ipc/` is `src/ipc/`).

## The system

The server accepts HTTP connections, each in a thread of its own, and hands
each prompt to one of at most five worker processes. Prompts and answers go
through one shared memory object; named semaphores order the accesses to it.

| Part | State | Operations | Talks to |
|---|---|---|---|
| Request ring, `ipc/ipc_utils.cpp` | per worker: `head`, `tail`, 32 slots, `sem_request_items`, `sem_req_space`; `next_task_id` | `enqueue_request` (client threads), `dequeue_request`, `signal_request_handled` (worker) | dispatcher, worker |
| Cancellation, same file | `is_canceled` of each slot | `cancel_request` (calls commented out in the dispatcher) | ring, worker |
| Response slot, same file | per worker: one slot, `sem_resp`, `sem_resp_consumed` | `send_response_chunk` (worker), `wait_for_response_chunk` (threads) | worker, dispatcher |
| IPC objects' life cycle, same file | names, mappings, `shutdown_flag` | constructor, `initialize`, `request_shutdown`, destructor | server, workers |
| Task dispatcher, `server/task_dispatcher.cpp` | locals of each client thread; monitor thread | `process_message`, monitor loop, start, stop | all of the above |
| Worker manager, `server/worker_manager.cpp` | table of processes, `is_active`, counters | spawn, terminate, assign, scale down, restart | dispatcher, operating system |
| Worker process, `worker/worker_main.cpp` | the request it serves, `generated_tokens` | loop: dequeue, skip or answer, signal | ring, slot, model |
| HTTP server, `main_server.cpp` | listening socket, `active_connections_` | accept loop, `handleClient`, shutdown | clients, dispatcher |
| HTTP and JSON text, `utils/http_utils.cpp` | none | read and parse a request, build responses | HTTP server |
| Inference, `llm/tiny_llm_inference.cpp` | `token_ids`, kept from request to request | `init`, `inference`, `decode` | worker, transformer |
| Transformer, `llm/transformer.cpp` | the weights of the layers | `load_weights`, `forward` | inference; the training script `script/transformer_tiny.py`, whose weights it loads |
| Tokenizer, `llm/simple_tokenizer.cpp` | the vocabulary | `load_vocab`, `encode`, `decode` | inference; the training script `script/tokenizer_basic.py`, which writes its file |
| Configuration, `utils/config.cpp` | a map, constant after start | `load`, getters | all |

What is hard, and what makes each part correct:

* **Ring.** Up to 32 client threads are inside `enqueue_request` for one
  worker at once, and nothing orders them between the load of `head` and its
  store. Correct: what the semaphores count is what the ring holds, no unread
  slot is overwritten, requests come out in order, once, intact; capacity is
  conserved.
* **Response slot.** All threads with a request at a worker wait on the same
  semaphore and may be woken for each other's chunks. Correct: the two
  semaphores hold one token between them, a posted chunk does not change, and
  it goes, once, to the thread it is for, eventually.
* **A request's way.** The client may leave at any chunk, the model may end
  its answer at any token, the budget may be anything the client wrote.
  Correct: every client gets its own answer, in order, whole; every request
  ends; nothing is left behind in ring or slot.
* **Worker pool.** Decisions about a process are taken on state that other
  threads change, without a lock; processes die by themselves. Correct: no
  request is given to an index without a process or left with a process that
  is gone; the processes are counted exactly and stay between their bounds.
* **Text.** A socket delivers a request in pieces of any size; its JSON is
  searched, not parsed; the tokenizer is a second implementation, on bytes, of
  the one the model was trained with. Correct: the body read is the one sent,
  the fields found are the client's, the ids are those of training, and what
  a client reads is what the worker sent.
* **Inference.** The forward pass is a second implementation, on flat arrays,
  of the network the weights were trained in; files of the export may be
  missing; the tokens of a request go into a vector no request owns. Correct:
  index by index the network of the script, on the tokens of this request.
* **Life cycle.** A server is stopped while clients' threads are detached,
  workers load their model or are stuck, and the monitor works; it may fail to
  start, or crash and leave names and workers to the next one. Correct: it
  ends, with every worker it knows; connections are counted; the next server
  begins afresh.

PROJECT.json lists the hazards one by one, each at its line, with the
properties that cover it or where it stands in the plan.

## Modules

| Module | Models | Of |
|---|---|---|
| `RequestRing` | `enqueue_request`, `dequeue_request`, `signal_request_handled` | `ipc/ipc_utils.cpp` |
| `TaskQueue` | what the ring promises: a bounded first-in first-out queue per worker | |
| `RequestCancel` | `RequestRing` with `cancel_request` | `ipc/ipc_utils.cpp` |
| `ResponseSlot` | `send_response_chunk`, `wait_for_response_chunk` | `ipc/ipc_utils.cpp` |
| `Mailbox` | what the slot promises: a box for one chunk per worker | |
| `Pipeline` | `process_message`, `chunk_callback`, the worker's loop; composes `RequestRing` and `ResponseSlot` | `server/task_dispatcher.cpp`, `main_server.cpp`, `worker/worker_main.cpp` |
| `WorkerPool` | assignment, spawning, scaling down, restart; the monitor's loop | `server/worker_manager.cpp`, `server/task_dispatcher.cpp` |
| `Text` | the operations of `std::string` the two modules below need | |
| `HttpText` | `parseJsonMessage`, the builders of responses and chunks; a client's reading of a response | `utils/http_utils.cpp` |
| `Tokenizer` | `load_vocab`, `encode`, `decode`; `save_vocab` and `encode` of the training script as reference | `llm/simple_tokenizer.cpp`, `script/tokenizer_basic.py` |
| `TextPath` | `readAndParseHttpRequest`, `handleClient`'s choice of a response, `TinyLLM::init`; composes `HttpText` and `Tokenizer` | `utils/http_utils.cpp`, `main_server.cpp`, `llm/tiny_llm_inference.cpp` |
| `Transformer` | `load_weights` and every `forward` | `llm/transformer.cpp` |
| `TinyTransformer` | the training script's network, as reference, and its export | `script/transformer_tiny.py`, `script/train.ipynb` |
| `Inference` | a worker's model from start through its requests; composes the two above | `llm/tiny_llm_inference.cpp`, `worker/worker_main.cpp` |
| `Lifecycle` | starts and ends of the server, its workers' way in and out, the IPC objects' names, the accept loop | `main_server.cpp`, `server/task_dispatcher.cpp`, `server/worker_manager.cpp`, `ipc/ipc_utils.cpp`, `worker/worker_main.cpp` |
| `MCRequestCancel`, `MCPipeline`, `MCWorkerPool` | symmetry sets for TLC | |
| `MCTextPath`, `MCInference` | vocabularies and requests, networks and exports for TLC | |
| `RequestRing_proofs` | theorems of the ring, with threads racing and under its contract | |
| `RequestCancel_proofs` | theorems of the ring with cancellation | |
| `ResponseSlot_proofs` | theorems of the response slot | |
| `Pipeline_proofs` | theorems of the composition, and of the answers clients get | |
| `WorkerPool_proofs`, `Lifecycle_proofs` | theorems of the pool, and of the server's starts and ends | |
| `TextPath_proofs` | theorems of the text: reading, fields, answers | |
| `Inference_proofs` | theorems of the model: the network, the context, the choice of a token | |

### Correspondence with the code

**Grain.** Every access to shared memory and every semaphore operation is an
action, in program order; `pc`, `wpc`, `spc`, `rpc` and `cpc` say which comes
next in a thread or worker. The copies of `len` and `data` of a slot (and
`is_canceled` or `is_last_piece` where it lies next to them) are one action,
`task_id` another. So a slot may be seen half written; the bytes of two
messages copied into one slot at the same time are not mixed. Where that can
happen (a ring shared without order, `Spec`), only properties that do not
depend on a slot's contents are claimed.

**RequestRing.** `head`, `tail`, `req` and the two semaphores are per-worker
functions. `EnqueueCall` is the call with its check of the length (threads in
`Oversized` are turned away); `WaitSpace`, `TakeTaskId`, `LoadHead`,
`WriteId`, `WriteData`, `StoreHead` and `PostItem` follow lines 178 to 193.
`is_canceled` is not written, as in the code. The worker's `WaitItem`,
`FetchTail`, `CopyId`, `CopyData` follow lines 200 to 215 and `Handled` is
`sem_post(sem_req_space)`. A thread serves one connection and sends one
request, so a thread also stands for its prompt.

`Spec` lets any number of threads in at once, which is what the server does.
`SerialSpec` adds the contract under which the code's load and store of
`head` is right: `OneProducer`, at most one thread per worker from the load of
`head` to its store. It is stated separately because the code does not
establish it (run `ring_race`); it does hold when requests for one worker do
not arrive within the few instructions between load and store.

**RequestCancel.** `cancel_request` in program order: `head`, `tail`, one
action per turn of the loop, the store of the flag. A thread calls it after
its own `enqueue_request` returned, where the commented-out calls stand.

**ResponseSlot.** The worker's `WaitConsumed`, `WriteId`, `WriteData`,
`PostResp` and the thread's `WaitResp`, `LoadId`, then `Copy`, `PostConsumed`
or `PostBack`. `Dispatch` is the environment: outside a call a thread may be
given any worker and any task id no other thread has.

**Pipeline.** The variables of both halves, and `stage` (a thread in
`process_message`), `connected` (not `client_disconnected`), `delivered` (what
the client was sent), `wstage` and `generated` (a worker in its loop). A
thread that holds a chunk sends it, or finds the client gone (`Disconnected`),
or drops it because the client is gone (`Drained`). The worker skips canceled
and unparsable requests, echoes the prompt, then sends a piece per turn with
the last-piece flag computed as in the code, or ends with `Eos` in any turn.
The choice of the worker is left open, the text of a chunk is its owner and
its number. Task ids stay below the number of threads plus one, as each thread
takes one.

**WorkerPool.** `pid`, `is_active` and `long_idle` are the table `workers`
(a null entry is `NoPid`; `long_idle` says that `last_activity` is more than
`WORKER_IDLE_TIMEOUT` ago). `assign_task_to_worker` is one action per turn of
the round robin (`FoundIdle`, `NotIdle`), then `LookForRoom`, which loads
`active_worker_count`, then `ScaleUp` or `NoScaleUp`, the scan for a vacant
index: other threads may spawn workers between the two.
`find_least_loaded_worker` is one action per turn as well (`CompareQueue`), and
`ReturnLeast`. `spawn_worker`, called by threads and by the
monitor, is `SpawnNeedless`, `Fork` or `ForkFails`, `StoreWorker`,
`CountWorker`; `terminate_worker` is `Terminate`, `Reap`, `Reset`, `Uncount`.
`on_request_start` and `on_request_complete` are two actions each, the counter
and the table entry. A scan of the table (`CountIdle`, `FindExpired`, the
search for a vacant index) is one action. `proc` is what the operating system
knows: a child is running, stopping (it has SIGTERM and ends after its
request), a zombie, or waited for. The request itself is reduced to waiting
in the ring of an index, being taken by a process of that index and being
answered. `Arrive` is the client, who begins to be served. `fresh` is a history variable for
`ScaleDownSparesOpen`, reset each time the monitor looks at
`pending_requests`.

**HttpText, Tokenizer, Text.** Operators on sequences of symbols, recursive
functions of a position where the code loops. A symbol is a byte, or a run of bytes that nothing looks
into: the name of a field between its quotation marks, for example. `find`
returns 0 for `npos`, so that `npos + 1` is the first position as in the code.
`load_vocab` is `extract_object`, which counts braces, then each regular
expression from left to right: `StringEnds` is what `(?:\\"|[^"])*` can match,
and the expression takes the longest. From `char_to_id` come both tables and the
ids of word and character marks; from `special_tokens`, in which the
expression finds numbers of one digit only, `<UNK>`, `<BOS>` and `<EOS>`, -1 for
one that is missing; `vocab_size` is read at the end. The reference looks a
mark up in the vocabulary the script wrote, not in what the server loaded. The
four escapes in `Escapes` stand for the seven of the code.

**TextPath.** One request. `RecvHeaders` is a turn of the outer loop of
`readAndParseHttpRequest`, with the parsing when the headers are complete,
`RecvBody` of the inner one, `RecvFails` both returns after `recv`. The request
line and headers are one symbol, and `client` says what they mean.
`Handle` is `handleClient` from line 117, `EncodePrompt` is `TinyLLM::init`,
`Reply` the shortest answer: the prompt, one token and the final chunk. `GoAway` drops what is on its
way: what arrives before the connection breaks may as well be received
before. The client (`JsonBody`, `Sent`) and its reader (`ClientReads`) are
external.

**Transformer.** A class of the source is a record of its weights and an
operator for its `forward`; a `Tensor`'s data is a sequence, with the index
expressions of the code, and shapes are arguments. Numbers are the integers
modulo a prime, in which sums, products and quotients have the laws the layers
use, and the functions of analysis (`Exp`, `Erf`, `Sqrt`, sines) are constants.
What can go wrong in such code is which number meets which, not its seventh
digit. `Set` is `set_weight` and its like: a tensor of another shape, or none,
leaves what the constructor put there.

**TinyTransformer.** The same network as the script has it: matrices, no
index arithmetic, the mask as "up to itself". `Network` has the factor of the
scores as an argument; `TinyTransformer` is the script's, with `Scale[n_embd]`.
`Export` is the cell of `train.ipynb` that writes `metadata.txt` and a file per
parameter.

**Inference.** `Load` is the constructor, from an export to which something
may have happened (`Damaged`). `Request` is what the worker does before its
loop, with `TinyLLM::init`; `Inference` is one turn, `inference` and the
worker's own counting. The indices `forward` is given may be outside its
arrays (no token, more than `max_context`, a negative token): in
`InferenceUndefined` the numbers found there are any, so the token is any that
the search can return, an id but the first or minus the first index;
`InferenceDies` is the process ending.

**Lifecycle.** `server` is the place of the main thread, from `main` through
`IPCManager::initialize` (`Unlink`, `CreateShm`, `CreateSemaphores`),
`WorkerManager::initialize` (`SpawnInitial`; `SpawnFails`, with its own clean-up,
after which the destructor indexes an empty vector: `NoVector`, `Undefined`),
`StartMonitor` and `Bind` to the accept loop and back: `StopMonitor`, `Join`, `RequestShutdown`,
`cleanup` (`Terminate` with `Reap`, `PassOver`, `Clear`; `doomed` is the process
id `terminate_worker` read, whose entry is reset whatever was stored there
meanwhile), the monitor's
`std::thread` (`Abort`), `UnlinkSems`, `Exit`. Objects are known by the run that
created them: `shm_name` and `sem_names` say where a name leads, `shm[p]` and
`sems[p]` what worker `p` has open, `shutdown_flag[r]` and `items[r]` what is in
the objects of run `r`, also when their names are gone. The four semaphores of
an index are one name, as they are created, opened and unlinked next to each
other. A worker is forked, opens shared memory, then semaphores, looks at the
flags and waits; it may be serving, or stuck in a send nobody takes. `told` is
`keep_running`. SIGINT may come again and again; it reaches the server alone, or
the terminal's whole group:
workers have no handler for it, except between fork and exec, when they still
have the server's. `Undefined`: a client's thread that is alive while dispatcher
and objects are destroyed may end the process at any moment. `Kill` ends it
anywhere. `EndWait` keeps the code's path for an interrupted `sem_wait`; under
glibc `signal()` restarts the wait. `known` is a history variable.

## Runs

| Run | Specification, instance | Checks |
|---|---|---|
| `cancel` | `CancelSpec` (ring under `SerialSpec`), 1 worker, 3 threads, 2 slots | ring invariants, cancellation, `ImplementsTaskQueue` |
| `slot` | `FairSpec`, 1 worker, 2 threads, 2 payloads, 2 task ids | token, stability, `ImplementsMailbox`, delivery |
| `pipeline_shared` | `Spec`, 1 worker, 4 threads (one oversized), 2 slots, budget 2, limit 1 | semaphores keep their account while three threads race |
| `pipeline_serial` | `FairSerialSpec`, 1 worker, 2 threads, 2 slots, budgets 1 and 3, limit 2 | own answer, in order, whole; every request ends; nothing left behind; the slot is used as specified |
| `pool` | `Spec`, 3 threads, 2 indices, minimum 1, maximum 2, 3 process ids, 1 death | count of workers, never an empty table, what scaling down spares, a process for every request |
| `text` | `Spec`, 2 vocabularies, buffer of 4; all prompts of at most 4 characters out of 5, and others; 99 as `INT_MAX` | vocabulary, reading, fields, encoding, answer |
| `inference` | `Spec`, 2 layers, 2 heads, width 4, 5 tokens, window 4, limit 3, numbers modulo 13; 2 checkpoints, 8 exports, 2 requests | the script's network scaled as the server scales it, a request's own tokens, the choice of a token |
| `lifecycle` | `FairSpec`, 2 starts, 1 crash, 2 indices, minimum 1, 2 process ids, 2 clients of whom 1 may be connected | connections, clean-up, the next server's objects, end of server and of stray workers |
| `ring_race` | `Spec`, 2 threads | violated: `ItemsCountQueue` |
| `pipeline_nobudget` | `FairSerialSpec`, 1 thread, budget 0 | violated: `EveryRequestEnds` |
| `pool_zombie` | `FairSpec`, 2 threads, 1 death | violated: `DeadIsRemoved` |
| `inference_scale` | the instance of `inference` | violated: `MatchesScript` |

**What the passing runs show.** The protocol of the response slot is right
without any assumption on the threads that use it, including the post-back:
it implements a mailbox. The ring implements a bounded queue exactly when
one thread at a time is between load and store of `head`; its semaphores are
right even when several are. Under that contract a client gets its own answer,
whole and in order, and a client that leaves costs the others nothing.
The pool without a lock still counts its workers exactly, although two threads
may fork for one index and the table then forgets one of the processes, which
goes on serving the same ring and is never stopped. `is_active` is cleared by
the first of several requests to complete; scaling down does no harm by it,
because it also asks that no request is pending. What it does not exclude is
a request that begins after the monitor looked: it may be assigned the worker
being removed, and `ServedUnlessEnded` has to except it. That property says
that otherwise there is a process for every request, although entries are
looked at, filled and emptied without a lock. Two things the code does are
forbidden by no property. Threads that found room fork even if others have forked
since, so there may be more processes than `max_workers`, and more than the
table has entries. And with enough threads `find_least_loaded_worker` may pass
each index while it is vacant: it finds none, and the client gets an error,
though the table is never empty (`AlwaysAWorker`).

The limit of connections that `ConnectionsCounted` is about is the configured
one: `main` works out the lesser of it and 20 (`main_server.cpp:273-274`), as it
says on the terminal, and constructs the server without it (`:275`).

The text of a request comes through for prompts without a quotation mark or a
backslash: `parseJsonMessage` ends a message at the first quotation mark and
decodes no escapes, so `FieldsAsSent` and `EncodesAsTrained` leave these out
(`Plain`). The tokenizer agrees with the training script on characters of
the vocabulary; an unknown character of several bytes becomes as many `<UNK>`,
where the script has one, and only single bytes are made lower case. The
vocabulary's reader would be misled by a closing brace before an opening one or
a word that ends with a backslash; the vocabulary in `script/` has neither.

The forward pass agrees with the script's in every index, also for a prompt
that begins with several tokens and for an export with a damaged file. One
factor differs: scores are scaled by `1 / sqrt(head_size)`
(`llm/transformer.cpp:294`), in the script by `C ** -0.5`, where `C` is the
width of the network (`script/transformer_tiny.py:136`), and the weights were
trained and exported with the script's. So what is computed is not the
script's network: `MatchesRescaled` compares with the script's network after
that one factor is replaced by the server's, and `MatchesScript`, without the
replacement, is violated. When token 0 has the greatest logit, `inference`
returns a negative number, which the next call uses as an index
(`GreedyUnlessPad` says which; it does not forbid it).
Beyond a request: an empty prompt continues the text of the one before
(`OwnContext`), as the first one it has no token at all and the last row of no
logits is looked at; and nothing keeps prompt and tokens within the window of
512: `OwnContext` bounds what is added to the prompt, no property the prompt.
If the file of the embedding is missing, `set_weight` reads the shape
of a tensor that has none (`LoadUndefined`).

The server ends after Ctrl+C whatever clients, workers and monitor do, as
every wait of `cleanup` ends in SIGKILL. Every worker it told to stop it has
waited for. With two forks for one index (`WorkerPool`) the table knows one; the
other, unless Ctrl+C reached it too, ends only if it takes the one item
`request_shutdown` posts for that index, and waits for ever if not. `KnownReaped`
excepts one that was in the table when shutdown was requested and was
overwritten before the loop came to it (`Forgotten`, and not told). It does not
except one that was told, even if a thread stores another worker at its index
while `terminate_worker` waits; that other one is dropped. Two forks for one index need two connections and
three process ids, which is outside this run's instance: `KnownAreReaped` proves
it for any number. A worker still loading its model when its
server goes opens what the names lead to by then: it ends when they are gone or
it sees the flag, or serves the next server beside that one's own worker
(`StrayEnds`, `Strangers`). That is about workers whose server raised its flag;
those of a server that was killed have none to see, and wait until they come
upon the next one's objects. When the port is taken, `run` returns without stopping the
monitor, the destructor of its `std::thread` ends the process, and the names
stay; `FreshObjects` shows that the next start gets rid of them.

**What the violations show.** `ring_race`: two threads load the same head,
one request is overwritten, and the worker is woken once for a slot beyond
`head`. `pipeline_nobudget`: a request without `max_tokens`, like the
sample in `build_linux.sh`, is echoed and never ended. `pool_zombie`: `kill(pid, 0)`
succeeds for a child nobody waited for, so a worker that died counts as
healthy for ever; `restart_unhealthy_workers` finds nothing in any reachable
state (`NobodyIsRestarted`, proved for every instance). `inference_scale`: as
soon as a context has two tokens, the logits differ from those of the network
that was trained; `OnlyTheScaleDiffers` proves that nothing else does.

Two more disagreements with comments have no run of their own. `cancel_request`
may set the flag after the slot was reused, and `enqueue_request` leaves the flag
of a canceled request in its slot, so a worker may pass over a request nobody
canceled (`ipc/shared_mem.hpp:23`); this waits for the calls in
`server/task_dispatcher.cpp:93` and `:107` to be enabled. And `should_scale_down`
never looks at `min_workers` (`server/worker_manager.cpp:311`), so an idle pool
shrinks to one worker; `AlwaysAWorker` is what remains of the minimum.

**Bounds.** Workers do not share anything but `next_task_id`, so one worker
shows the interplay; the specifications and proofs have any number. Three
threads that reach a ring of two slots (`cancel`, `pipeline_shared`) fill the ring,
make the third wait for space and make the positions wrap; the two of
`pipeline_serial` wait for chunks at once, and one is served after the other. Two waiting threads are enough for every
post-back; a third would only repeat it. Budgets 1 and 3 with a limit of 2
meet the first piece being the last, the limit cutting the budget, and
end-of-sequence before either; `pipeline_shared`, about semaphores only, has the
cut alone. In the pool, two indices are enough for a
vacant one, a busy one and a removal that leaves one, and three process ids for
two forks for one index or a replacement; three threads let one fork, one wait
at the index and one choose; when `MAX_FORKS` are used up, only
`ForkFails` remains, which the code must survive anyway. `Expire`, the passing
of ten seconds, happens only while the monitor sleeps and every thread is
where it may stay: the other stretches of code last milliseconds (a spawn
sleeps 100 ms, a removal 200 ms). `pending_requests` and the counter of workers
are bounded by threads and process ids. Threads are interchangeable, so runs without
liveness use symmetry. In `text`, a buffer of four cuts the headers' end and
the body at every place, as a body is some forty symbols; four characters
are enough for a word with a capital, a character of two bytes,
punctuation and a blank in any order; numbers around 0, `INT_MAX` and `INT_MIN`, both
orders of the fields and messages named like a field are added to them.
In `inference`, two layers and two heads are the least with which a layer, a
head or a column may be taken for another; a window of four and a limit of
three let one request stay inside the window, the second one leave it, and
prompts of none, two, three and five tokens (what `encode` returns always has
`<BOS>` and `<EOS>`) meet every path of `init`. Numbers
modulo 13 without a pattern make an exchanged index show. In `lifecycle`, one
crash and two starts give every pair of an end and a beginning; two process
ids are a worker of the first server that meets one of the second, or a worker
and one a client's thread forks; the second client is the one that is
refused.

**Fairness.** Workers and threads take their steps (weak fairness): the
operating system schedules them. Strong fairness only for taking the response
semaphore: a thread that posts back then sleeps 25 ms before it waits again,
and waiters queue in the kernel, so a waiter is not passed over for ever. The
fairness of a thread's enqueue step is under `OneProducer'`, the contract of
the specification it belongs to. In the pool, which only `pool_zombie` checks
under fairness, threads, processes and the
monitor take their steps (weak fairness); arrivals, deaths and `Expire` need
never happen. Nothing is assumed of clients and of the
token the model chooses. In `TextPath`, `recv` returns when bytes have come or
the connection is closed (weak fairness of `ReadStep`). In `Lifecycle` the main
thread, the monitor's turns and each worker process are scheduled (weak
fairness); clients' threads, Ctrl+C and crashes need never act. `CHECK_DEADLOCK FALSE` where all threads have served
their one connection and the workers wait: the system rests.

## Proofs

Every theorem holds for all values of the constants that satisfy the
assumptions of its module. In `RingAssumption`, `SlotAssumption`,
`PipelineAssumption`, `PoolAssumption` and `LifecycleAssumption` these are: finite
sets of threads or clients, capacity, limit and size of the table above zero,
minimum and maximum inside the table, null values that are not members of the
sets they complete. The bounds on forks, deaths, starts and kills are constants
like the others, so a theorem covers any finite number of them.
`TextAssumption`: a buffer of at least one byte; a natural `VOCAB_SIZE`; the escapes of control
characters have four digits and differ; a client's message and bytes are any
sequences of symbols, its number any integer or none, and a body it sends to `/process`
has a field. `TransformerAssumption` and `InferenceAssumption`: sizes above zero (layers may be none),
the width even and divided by the number of heads, `P` prime, the functions of
analysis any functions on the numbers; a checkpoint has every parameter in its
shape, at most one parameter of the export is damaged, prompts are sequences of
the vocabulary's ids, `<EOS>` is in it, and `MAX_TOKENS` is above zero. Each inductive invariant below was
first checked by TLC on the instance of a run. A theorem that states an
invariant or a property of a run says so in its comment; PROJECT.json pairs
them.

**`RequestRing_proofs`**, of `Spec`, so with threads racing on the ring.
`TypeCorrect` is inductive once it says that a thread that has left `idle` has
a worker. `TaskIdsStayUnique` needs that `next_task_id` is above all ids given.
`SpaceIsConserved` counts the units of `sem_req_space` over the threads inside
`enqueue_request`, the items posted and the worker: each step moves at most one
thread in or out of `Holding(w)`, and the theorems on cardinalities of
`FiniteSetTheorems` give the difference. These three and a bound on the ids
are `Basics`, which `Pipeline_proofs` uses.

Of `SerialSpec`, under the contract `OneProducer`, `RingInv` has, in the order they rest on each other:

* `Counted`: the head a producer loaded is still the head (`HeadLoaded`), the
  worker's tail is one past the slot it copies, and the items posted, being
  posted and being taken are `head - tail` (`ItemsCountQueue`). With
  `SpaceConservation` this gives `head - tail <= CAP`, and room for the one
  producer, which is `NoOverwrite`.
* `SlotFilled`: what the producer has written so far. It survives because two
  different positions less than `CAP` apart have different remainders
  (`DistinctSlots`), so the worker reads another slot.
* `LiveRequests`: between tail and head lie whole requests of threads that
  moved the head. `CopiedRequest`: the worker's copy is one of them, or half of
  one. `OwnPrompt` follows.

`SerialInvariant` states the three invariants, and `RingImplementsTaskQueue`
the refinement: the slots between tail and head, read as a sequence (`Queues`),
what the worker holds (`Served`), and the threads for which the head has moved
(`Accepted`). `StoreHead` maps to the queue's `Accept`, `FetchTail` to its `Take`,
`Handled` to `Finish`, every other step is `Invisible`. It needs that no request lies in two
places (`EachOnce`) and that without cancellation no flag is set
(`NotCanceled`).

**`RequestCancel_proofs`**, of `CancelSpec`. Everything the run `cancel` checks:
all of the above again while threads search and mark, and about the search
itself `CancellationIsKept` and `MissedWasDequeued`. `CancelInv` adds to
`RingInv` where a search can be: within the positions below the head it loaded
(`SearchInRange`); a request that is still queued lies in what is left to search
(`SearchCovers`), which is why reading `head` before `tail` is right; what was
found stays in its slot until the worker takes it (`FoundStays`), as a slot
between tail and head is not written. `Mark` itself may hit a slot that has been
reused: that is why nothing is proved of requests that nobody canceled.

**`ResponseSlot_proofs`**, of `Spec`, for any use of the slot by any threads.
`TokenIsConserved` counts as above, over `Holders`. `SlotIsStable`: a worker
that writes is the token's one holder, so nothing is posted and no thread looks
(`TokenExcludes`). `SlotImplementsMailbox` needs `Inv`: what a writing worker
has put into the slot so far, and that a thread that copies has found its own
task id, because the abstract box is filled in one step and the slot in three.
`PostResp` maps to `Put`, `Copy` to `Deliver`, `Dispatch` to `Readdress`; a
chunk that is posted back never left the box. `AnyInv` is the part of `Inv`
that also holds when chunks have any task id, as in `Pipeline` with a torn ring.

**`Pipeline_proofs`** takes the two proof modules as instances (`RingP`,
`RespP`), so nothing of the parts is proved twice: a step of the composition is
a step of one part, or of both, or of neither, and each part's invariant is
carried over. Of `Spec`, with threads racing, `PipelineInv` is `Basics`,
`AnyInv`, and at which stage of `process_message` a thread can be at which step
of ring and slot (`Places`, `GotChunk`); it gives `PipelineTypeCorrect` and
`SemaphoresAreConserved`. Of `SerialSpec`, `SerialInv` adds `RingInv`: the worker
then answers a request with a task id of its own, so `DriverKeepsSlotProtocol`
(the driver is a refinement of the slot's specification), and
`PartsImplementTheirs`: queue and mailbox, inside the composition.

Also of `SerialSpec`: what clients get. `AnswerInv` adds
to `SerialInv` an account of every answer: the chunks a worker called
`send_response_chunk` for are those the thread copied, plus one if one is in the
slot, plus one if one is being sent (`Account`), and these are consecutive, so
each chunk is the one after the chunk before. A chunk flagged last is within
the budget and nothing comes after it (`Fits`, `Closes`). The account must
outlive the request, as the worker goes on to the next one while the last chunk
of this one waits in the slot (`PostedFits`), and a thread that takes chunks has
its request with the worker or done with (`BegunGone`). What was delivered is
then a prefix of the answer (`Delivered`). It gives `AnswersAreOwn`,
`AnswersAreWhole`, and, with the accounts of the semaphores,
`NothingIsLeftBehind`.

**`WorkerPool_proofs`**, of `Spec`. `PoolInv`: a child that was forked and not
counted is its forker's own (`ForkedApart`, `ForkedInPlace`); a table entry
holds a child of its own nobody waited for (`TableLive`), so at most the monitor
waits for it, once; from the moment the monitor decides on an entry until it is
reset, nobody overwrites that entry (`RemovalKept`): no spawn begins for an index
that is deployed, and none was under way when the entry had been idle for so
long (`LongIdleKept`; here the proof rests on what Bounds says of `Expire`); and it
decides on one of two entries, which can only become more (`TwoLeft`).
`WorkersAreCounted` is the balance of counter, children, forks and removals
under way. `TableNeverEmpty` follows from `TwoLeft`, `RemovalSparesOpen` from the
fact that every request open since the monitor looked is in `fresh`. `Lowest` and
`Highest` are counted, not searched: the lemmas `LowestIsInSet` and
`HighestIsInSet` show what they return. `ServeInv` adds what `RequestsAreServed`
needs: a worker is stored at the index it was forked for (`HomesKept`), the
search has found nothing before it begins (`NoneYet`), so an index that a
thread has chosen, or holds as the best so far, is one a process was forked for
(`ChosenHoused`), also if its entry is empty by now; and who has taken a request
goes on with it or ends (`TakenServed`). `NobodyIsRestarted` explains the run
`pool_zombie`.

**`Lifecycle_proofs`**, of `Spec`. `LifeInv`: threads exist only while a server is
past its start, and its counter counts them (`ThreadsCounted`); from
`create_sems` on, the names lead to the run's own objects (`NamesOwn`); a process
has opened what its state says, and a worker of the current run its run's
memory (`ProcessesOwn`); entries of the table and children about to be stored are
different, not reaped, and of this run and their index (`WorkersPlaced`); during the clean-up each
worker known at the request is reaped, replaced by another for its index, or
at an index the loop has not reached (`KnownFollowed`); the process id
`terminate_worker` waits for is a child of this run, and one it told to stop is
that one or reaped (`DoomedHeld`, `ToldAwaited`), so at the end every known
worker is reaped, or was overwritten untold (`KnownAccounted`); without strangers the
items are the requests that wait (`ItemsOwn`), as then each worker that takes an
item takes it together with a request (`OwnerHasOwn`), and what a worker has
opened it keeps (`StrangersStay`). From it the three invariants of the
run `lifecycle`, for any number of clients, indices, starts and crashes.

**Induction.** The library's induction theorems take an operator as a parameter,
which none of the provers can instantiate. `TextPath_proofs` and
`Inference_proofs` do without: a set of natural numbers that is not empty has a
least member (`LeastNumber`, from the well-founded order of the naturals), so a
set that holds a number whenever it holds all smaller ones is all of them
(`UpTo`, `Strongly`), and a function that goes from each number to the next
exists and is what a recursive definition chooses (`Iterates`, `Ascends`,
`Descends`). An inductive statement is then a statement that some set, written
out, holds every number.

**`TextPath_proofs`**, of `Spec`, for texts of any length and any buffer. `ReadInv`
says where in what the client sent the reading is: in the headers the buffer is
a prefix too short for their end (`InHeaders`), in the body it is the first `n`
bytes with as many to go as are missing (`InBody`), and what `recv` has not
delivered is the rest, unless the client is gone (`Rest`). `BodyReadWhole`
follows. `ReplyInv` adds what has been answered: nothing, the header of a chunked
response, that with two chunks and the end, or one error response. That such
text reads back rests on lemmas about the operators: a number reads as what was
written (`NumeralReads`), an escaped text as the text, whatever is in it
(`UnescapeEscaped`), a chunk of that as its data and the
next chunk begins where it ends (`ChunkRead`), the end as no chunk (`FinalRead`),
the status and the kind of body are found in the header and not in the body
(`StatusRead`, `ChunkedRead`, `PlainRead`). `RepliesReadBack` follows.
`FieldsInv` adds that a request is accepted only if it has a message, and that
what was found in it is what `parseJsonMessage` finds in the body sent.
`FieldsRead` says what that is: `BodiesAre` lays a client's body out symbol by
symbol, for either order of the fields; the key of the message is found where
it stands, as digits and marks in front of it are no key; the key of the number
may be found inside the message, but then the message is exactly that name and
the first colon behind it is the number's own, or there is none
(`NumberKeyInMessage`). `FieldsFoundAsSent` follows.

**`Inference_proofs`**, of `Spec`, for networks of every size. The layers are
compared row by row: `IsFlat` relates the server's flat array to the script's
matrix, and for each layer a lemma says that arrays so related stay so
(`LinearRows`, `LayerNormRows`, `EmbeddingRows`, `HeadRows`, `MultiHeadRows`,
`FeedForwardRows`, `BlockRows`, `ForwardRows`). The one that is not index
arithmetic is the head: the server adds over all tokens, the masked ones with
weight 0, the script over those up to the token (`TotalOfPrefix`). The loading is
compared parameter by parameter: a line of `metadata.txt` and a file read as
what was written, or, damaged, as a tensor the layer refuses (`SetRead`), so the
layer keeps what its constructor gave it. `InferenceInv`: the model is
the export's (`ModelLoaded`), the logits are those of all tokens held
(`LogitsCurrent`), the tokens held are prompt and answer but for the last token
(`ContextFollows`), within the budget (`BudgetKept`). `ServerComputesRescaled`,
`ContextIsOwn` and `TokensAreGreedy` follow, the first of them with the
server's factor of the scores in place of the script's; that this factor is all
that keeps the two apart is `OnlyTheScaleDiffers`; the search of `ArgMax`
returns a greatest element.

**Only model-checked.** Liveness, which rests on fairness and `ENABLED`, is out
of this prover's reach: `EveryChunkDelivered`, `EveryRequestEnds`, `ReadingEnds`, `ShutdownEnds`, `StrayEnds`.
`VocabLoaded` is true of the vocabularies of the run and not of all: a word
that ends with a backslash, or a closing brace before an opening one, misleads
`load_vocab`, so a theorem would need an assumption that lists what the
regular expressions get right. `EncodesAsTrained` rests on it and on
UTF-8, in which no character is the beginning of another; the model has
characters as any sequences of symbols, and with that the longest match need
not be the character meant.

## Not modelled

Rounding, terminal output (`print_stats`), the Python clients, training code
and build scripts. The configuration file: only the server loads it
(`main_server.cpp:248`), a worker process never does, so its names of IPC
objects (`ipc/shared_mem.cpp:5`) and paths of the model are the defaults. The
modules take server and workers to agree on names, as they do with the
repository's `config.txt`; with other names every worker would end where
`OpenShm` finds nothing, and with it every request would wait. Two servers at the same time: the
second one unlinks the first one's names before it finds the port taken
(`ipc/ipc_utils.cpp:86`). System calls that fail for want of memory or rights,
except `fork`. `sem_wait` on a valid semaphore fails only when a signal handler
interrupts it; the handlers here are installed by `signal()`, which under glibc
restarts the call, and `EndWait` takes in systems where it does not. The
text of headers: they are one symbol in `TextPath`, so a `Content-Length` that
is no number (`utils/http_utils.cpp:72`) does not occur. The
use of a freed entry of the table `workers`, for which the models have no
state. The semaphores of a worker that was killed inside a request, which keep
what it took: `WorkerPool` and `Lifecycle` end the process, `RequestRing` and
`ResponseSlot` have no crash.

## Plan

What could come next, in the order of its worth:

1. `VocabLoaded` and `EncodesAsTrained` with the assumptions named above: words
   and characters without a backslash at the end, braces in pairs, no character
   the beginning of another.
2. Action properties that no run states yet and the invariants imply:
   the table entry of a worker being removed does not change, a reaped process
   is not reaped again.
3. A crash of a worker inside a request, in `RequestRing` and `ResponseSlot`.

Modules proved about declare no RECURSIVE operator.
