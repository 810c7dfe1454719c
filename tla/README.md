# TLA+ models of ioemnetd

This directory holds TLA+ models of the `ioemnetd` daemon (sources in `../src`).
Every module is translated from the C/C++ source; `PROJECT.json` maps each
definition to the lines it models and lists the model-checking runs.

## 1. Inventory

### Components

| Component | Source | State it keeps | Operations |
|---|---|---|---|
| EventQueue | `queue.c`, `queue.h` | global `g_queue` (`BUF_LIST`: `head`, `tail`, `size` packets, `len` bytes); spin lock `lock` | `QueueInit`, `BufferInQueue`, `BufferOutQueue` (= `IsEmptyQueue` + `LIST_LPOP`), `GetQueueSize`, `bufferDestroy` |
| IngestListener | `dns_client.c` `udp_server_loop` | stack `buffer[1024]`, socket | `recvfrom`; size pre-check `GetQueueSize() > MAX_PCK`; `BufferInQueue` |
| MessageProcessor | `dns_client.c` `main_loop`, `PraseMessage`, `search_ip_string`, `get_pid_name`, `log_write` | per-iteration node, parsed fields, `match_results[32]`, `found_index_array[32]`; global `region` | poll/dequeue, parse, extract, classify, filter, emit event, free |
| IPExtractor | `ip_resolver.c` | compiled PCRE2 pattern `MATCH_IPV4`, flag `initialized` | `InitializeRegex`, `regex_find_all`, `found_ip_addresses`, `destroy_regex` |
| RegionClassifier | `dns_client.c` `search_ip_string`, `ip2region_init` | `v_index`, `searcher` (ip2region xdb) | lookup: China / not China / error |
| Lifecycle | `dns_client.c` `dns_client_init`, `Stop_And_Exit`; `binder_client.cpp` `main` | all globals above | startup order, signal-driven teardown |
| RuleLoader | `binder_client.cpp` `read_file_line`, `firewall_thread` | table `type`, `retryCount`, `success` | read line, switch table, apply rule with retries |
| IptablesService | `oemListener.cpp` `set_iptables_rule(s)` | none (stateless reply) | run `iptables-restore`, reply text |
| OemListenerRegistry | `oemListener.cpp` register/unregister | `mOemUnsolicitedMap` under `mOemUnsolicitedMutex` | register listener, binder death → unregister |
| CommandLine / Netd binding | `binder_client.cpp` `PraseCommandLine`, `NetdBinderInit` | paths, `region` | parse argv; connect to netd, retry every 10 s |
| Log sink | `selog.h` (external library) | opaque | `Selog_Write` |

### How they interact

`binder_client.cpp:main` connects to netd (retrying forever), parses the
command line, calls `dns_client_init` (regex, queue, ip2region, log), installs
`Stop_And_Exit` for SIGINT/SIGTERM and starts three threads: the firewall rule
loader, the processor `main_loop` and the listener `udp_server_loop`.
The listener and the processor share only `g_queue`, guarded by a CAS spin
lock taken separately for every queue call. The rule loader talks to the
netd OEM service (`oemListener.cpp`) over binder; the service returns a reply
string that the loader inspects. `Stop_And_Exit` runs in signal context on a
thread the kernel picks (the model puts it on the main thread) and frees the ip2region handles, the regex, the queue and the
log handle while the other threads keep running, then calls `exit(0)`.

### What is hard

* Two threads on one queue, each queue call a separate critical section:
  the listener reads the size, releases the lock, and enqueues later; the
  processor tests emptiness, releases the lock, and pops later.
* The capacity check lives only in the listener (`> MAX_PCK`), not in
  `BufferInQueue`.
* The processor polls; delivery of what was accepted depends on it being
  scheduled (liveness).
* The regex scan: PCRE backtracking with ordered alternatives, no word
  boundaries, no bound on the number of matches written to a 32-slot array.
* Teardown from a signal handler while both worker threads run.
* The rule loader's retry loop, its reply inspection and its line trimming.

### Properties that make each component correct

* EventQueue: `size` and `len` agree with the list; FIFO; never more than the
  capacity; a pop after a successful emptiness test finds a node.
* IngestListener + EventQueue: every accepted datagram is eventually handed to
  the processor, in arrival order; the queue stays within `MAX_PCK`.
* MessageProcessor: an event is emitted only for a parsed message, and carries
  exactly the addresses the region policy selects (lookup failures kept).
* IPExtractor: every extracted string is a dotted quad with octets <= 255, in
  text order, not overlapping; it agrees with a declarative reference
  (leftmost start, longest literal); no literal is cut out of a longer number;
  at most 32 results.
* Lifecycle: no thread touches a freed queue, regex or searcher.
* RuleLoader: each non-marker line is submitted verbatim; a failed apply is
  detected, retried as often as the spec says and logged.

## 2. Plan

Modules, in the order they are built (most important behaviour first):

1. (built) `EventQueue` — the `BUF_LIST` and its macros as action operators.
2. (built) `Pipeline` — EXTENDS `EventQueue`; the listener and the processor threads,
   each queue call one atomic step (the spin lock makes it one), the steps
   between lock sections separate, so every interleaving of the two threads
   is explored. `QueueSpec` is the abstract bounded FIFO; `Pipeline` refines
   it (INSTANCE ... WITH `q <- queue`).
   `MCPipeline` + `Pipeline.cfg` (pass) and `PipelineCapacity.cfg` (violation).
3. (built) `IPExtractor` — the PCRE backtracking of `MATCH_IPV4` as RECURSIVE
   operators and the `regex_find_all` loop, with a declarative reference
   scan; `MCIPExtractor` enumerates texts built from digit/dot/letter tokens;
   violation runs on the spec's own example and on one long notification.
4. (built) `RuleLoader` + `IptablesService` — `read_file_line` over a small rule file
   with the service's real reply strings; properties on retries, detection of
   failure and verbatim submission.
5. (built) `Lifecycle` — composes `Pipeline` with `Stop_And_Exit` and
   `dns_client_init`'s ignored result; property: no access to freed state.
6. (built, as `MessageParser`) `PraseMessage`: the `sscanf` of its format
   over the raw payload, including what follows an unterminated datagram
   (`queue.c:110`), checked in the text-analysis run against spec 4.6.
7. (built) `OemListenerRegistry` — register / death-recipient unregister.
8. (built) `Startup` — `main` up to thread creation: the `NetdBinderInit`
   retry loop against a netd that may crash and restart, and
   `PraseCommandLine`. `Firewall` composes it with `RuleLoader`.

Bounds: `MAX_PCK` is scaled to 2 (the off-by-one at the boundary needs only
capacity + 2 datagrams), `MaxRecv` to 4 datagrams; texts up to 6 tokens.
Runs and results are listed in section 4 as they are added.

## 3. Modules

| Module | Models | State | Actions / operators |
|---|---|---|---|
| `EventQueue` | `queue.c`, `queue.h` | `queue` (the list, head first), `size`, `len` | `QueueInit`, `LengthValid` (the 20..1024 test of `BufferInQueue`), `ListRPush`, `ListLPop`, `IsEmptyQueue`, `GetQueueSize`. Each is one lock section, so one atomic step. |
| `QueueSpec` | spec 4.1 | `q` | A bounded FIFO of `Capacity` items: `Enqueue`, `Dequeue`. This is the abstract queue that `Pipeline` refines. |
| `Pipeline` | `udp_server_loop`, `main_loop` (`dns_client.c`) over `EventQueue` | `lpc`, `lbuf` (listener); `cpc`, `cnode` (processor); `emitted`; ghosts `accepted`, `processed` | Listener steps: `ListenerRecv` (a datagram or a receive error, which stops the thread), `ListenerDropFull` / `ListenerAdmit` (the `GetQueueSize() > MAX_PCK` test), and `ListenerEnqueue` (which may return `DATA_INVALID`, fail in malloc, or push). Processor steps: `ProcessorPollEmpty`, `ProcessorPollNonEmpty`, `ProcessorPop` (`BufferOutQueue`), `ProcessorEmit` (parse, extract, classify, keep by region, print), `ProcessorDiscard`, `ProcessorWake` (the `usleep`). The region filter `Kept` and `Selected` come from lines 370-406. |
| `MCPipeline` | bounds | | `MAX_PCK` = 2, 4 datagrams of 12 or 300 bytes, three message bodies, three addresses (China, other, lookup error). |
| `IPExtractor` | `ip_resolver.c` | none (operators) | `OctetEnds`/`QuadEnd` give PCRE2's depth-first choice order for `MATCH_IPV4`. `MatchSpans` is the `regex_find_all` loop and `FoundIPAddresses` is `found_ip_addresses`. Reference: `IsAddress`, `RefMatchEnd` (the longest literal) and `RefScan`. |
| `MessageParser` | `PraseMessage` (`dns_client.c`); EXTENDS `IPExtractor` | none (operators) | `Format` is the format string as directives (literal keys, `%[^,]`, `%d`, the `;`). `Scan` runs them as `sscanf` does: exact literals; `ScanSet`, the longest non-empty run without a comma; `ScanInt`, white space, a sign and a non-empty digit run. It stops at the first failing directive. `Converted` gives the fields stored, and `PraseMessage` accepts when four were converted. `DnsRetSize` and `DomainSize` are main_loop's buffers. |
| `MCIPExtractor` | inputs | `text` (constant over a behaviour) | Every text of up to 6 tokens drawn from `1.`, `1`, `25`, `256`, `.`, `x`. Notifications in the spec 4.6 grammar from two values per field, followed by nothing, an address, or an address with a heap digit after it. The same notifications with one key character dropped. The spec's example line, and one notification with a 130-character domain and 33 addresses. |
| `IptablesService` | `set_iptables_rule(s)` (`oemListener.cpp`) | none | `TableName`, `SuccessReply`, `ErrorReply` (as character sequences). |
| `RuleLoader` | `read_file_line` (`binder_client.cpp`); calls the service | `file`, `lineNo`, `pc`, `type`, `tmp`, `retryCount`; ghosts `submitted` (every call) and `failLog` | `ReadMarker` (a `strstr` marker anywhere in the line), `ReadRule` (`TrimLine`: the last two characters are dropped), `ReadShortLine` (an empty line: memcpy of `SIZE_MAX` faults), `ReadEOF`, `Submit` (one pass of the do/while: the call, the `"ERROR"` test skipped for `-D`, the count, the log at `retryCount == 3`, and the loop condition with its post-increment). The service's failure text is the constant `ErrText`, so the same loop is checked against this repository's service and against the reply the spec describes. |
| `MCRuleLoader` | inputs | | Every file of up to 3 lines drawn from the `nat`/`filter`/`mangle` markers, `-A x`, `-D x` and an empty line (CRLF line ends), and files containing an empty line. |
| `OemListenerRegistry` | `registerOemUnsolicitedEventListener(Internal)`, `DeathRecipient::binderDied`, `unregisterOemUnsolicitedEventListenerInternal` (`oemListener.cpp`) | `map` (`mOemUnsolicitedMap`: listener to recipient, keyed by client since a client has one proxy at a time), `proxy` (the client's `BpBinder`: none, live, or obituaries sent), `recips` (its obituary list), `pending` (a death notice queued), `obits` (recipients handed to `binderDied`), `held` (handlers holding the proxy); environment: `alive`, `sent`, `inflight` (register transactions not yet taken up) | `TakeUp` unparcels the listener (a new proxy if none exists). `Register` is one step under the mutex: create the recipient, `LinkToDeath` (`DEAD_OBJECT`, ignored, only on a proxy whose obituaries were sent; on a dead client's fresh proxy it links and the notice is queued at once), `MapInsert` (keeps an existing entry), then drop the handler's sp. `Obituary` is `sendObituary`; `BinderDied` calls `Unregister`. `Released` destroys a proxy nothing refers to. `SendRegister` and `Die` are the client. Two clients, two register calls each. |
| `Lifecycle` | `dns_client_init`, `Stop_And_Exit` (`dns_client.c`), `main` (`binder_client.cpp`), `LIST_DESTROY` (`queue.h`); EXTENDS `Pipeline` | Pipeline's state plus `hpc` (the handler's next call), `res` (each of searcher, regex, queue, log: live, unset or freed), `ub` (a use of a released resource; the process is dead from then on), ghost `released`, `llist` (the listener holds `list = g_queue` inside `BufferInQueue`) | `LInit` starts from `DnsClientInit(r)` for each result main may ignore. The handler is one step per call: `Signal`, `Ip2regionDeinit`, `DestroyRegex`, `BufferDestroy` (`LIST_DESTROY` with `g_queue` NULL afterwards), `LogDeinit`, `Exit`. The workers are Pipeline's steps while the process runs (`Unaffected`), plus what each does with a released resource: `EnqueueDestroyedQueue` (`BUF_EMPTY`). `BufferInQueue` is split at its `LOCK`: `EnqueueTakeList` copies `g_queue` into `list`, checks the length, and does the `malloc` and `memcpy`. `EnqueuePush` then does `LIST_RPUSH`, and `PushDestroyedQueue` is that push onto a list freed in between. Also `PopDestroyedQueue` (LPOP on the freed list), `ProcessFreedRegex` (no match, discard), `SearchFreedSearcher`, and a lost `log_write` in `LProcessorEmit`. |
| `Startup` | `NetdBinderInit`, `PraseCommandLine`, `main` up to `pthread_create` (`binder_client.cpp`) | `argv` (fixed at exec), `mpc` (main: bind, parse, init, running, exited), `mNetd` and `oemNetd` (the netd generation each proxy came from, 0 for nullptr), `conf` (option to value); environment: `netd` (down, registered without its OEM service, up) and `gen` (the netd process last started) | `BinderInit` is one pass of main's do/while. `NetdBinderInit` replaces `mNetd` only when `getService` answers a binder, so a proxy from an earlier attempt survives a nullptr answer, and `getOemNetd` succeeds only on the live netd with its OEM service up. `ParseArgs` runs `PraseCommandLine` (`ScanArgs` is its for loop: an option followed by a value, `-h`, or anything else) and the `set_*` calls. `StartThreads` covers `dns_client_init` and the thread creation. `NetdStart`, `NetdReady` and `NetdCrash` are netd, and they run only while main binds. The reference `Documented` / `DocumentedConf` is the usage of `PrintHelpInfo`: option/value pairs naming `-c`, `-d` and `-l`, where the last value of an option counts. |
| `Firewall` | `firewall_thread`, `main` (`binder_client.cpp`); EXTENDS `RuleLoader`, `Startup` | both | `FirewallThread` is RuleLoader's `Next`, once main has created the thread and `config_path` is set. Before that, only main and netd move. |
| `MCFirewall` | inputs | | MCRuleLoader's files, and nine argument lists, one for each branch of `PraseCommandLine`. They are the usage in two orders, a repeated `-c`, `-h` given as a value, `-h` after `-c p`, `-h` alone (argc < 4), a missing `-l`, a trailing `-r` with no value, and an unknown `-x`. |
| `MCLifecycle` | bounds | | Pipeline's bounds with two bodies (one that does not parse, one whose addresses cover all three lookups); `dns_client_init` returning 0, or 0 and 2 (log handle missing). |

Every definition that models code is listed with its lines in `PROJECT.json` ("map").

### Granularity and fairness

* Every queue call runs under the CAS spin lock, so it is one step. The code
  between two calls is a separate step. This lets the model interleave the
  listener and the processor at every point where the real threads can be
  preempted while holding no lock.
* The threads are preemptive OS threads. `WF` on the processor and on the
  listener's non-blocking steps is justified: a thread that can run is
  eventually scheduled. Receiving is not fair, because datagrams may stop
  arriving at any time.
* `Stop_And_Exit` runs on the main thread, which after startup only idles in
  `while (1) sleep(10)`.
  Each of its calls is one step, interleaved with the workers. The lifecycle
  runs check safety only, so `LSpec` carries no fairness. A worker's undefined
  behaviour (`ub`) is taken to end the process, so the lifecycle runs do not
  check deadlock: a process that exited or crashed has no next step.
* In the registry, `FairSpec` puts `WF` on taking up each queued register
  transaction, on running each taken-up handler, on each queued death notice
  and on each `binderDied`: netd's binder thread pool takes up whatever the
  driver has queued, and the mutex is held only briefly. Clients are not
  obliged to call or to die.
* The firewall thread only sleeps and calls binder, so `FairSpec` puts `WF`
  on it (the `rules_as_written` run). In `Firewall`, main gets `WF`: between
  attempts it only sleeps.
  netd gets none, because it may stay down. `StartupCompletes` therefore
  assumes `<>[](netd = "up")`. Its sleeps (1 s backoff, 10 ms throttle) only delay it and are not
  steps of their own.

### Bounds

* `MAX_PCK` = 2. The capacity off-by-one shows after capacity + 1 pushes, and
  with 4 datagrams every fill/drain order around that boundary is explored.
* Texts of up to 6 tokens. This covers octets of 1 to 3 digits, values over
  255, four dotted octets, and digits touching a literal on either side.
* Rule files of up to 3 lines. Every order of marker, rule, delete and empty
  line is covered, including two markers in a row and a rule before any
  marker. The `rules_as_written` run uses files of up to 2 lines of a CRLF
  rule, an empty line, an LF rule and a rule containing `nat`: each defect
  shows in a one-line file.
* Startup: netd may crash once (`MaxNetdCrashes` = 1). That is enough for
  an attempt to get the first netd's proxy, then find netd down, then find
  a new netd: the case that makes a retained proxy matter.
* Lifecycle: Pipeline's bounds with two message bodies. The signal can come
  at every point of both threads, including between a non-empty test and
  its pop, and between `BufferInQueue`'s copy of `g_queue` and its push. About 125k states. This run uses FOREIGN mode and the pipeline
  run uses DOMESTIC, so both policy modes are checked.

## 4. Runs

| Run | Config | Expect | What it shows |
|---|---|---|---|
| pipeline | `MCPipeline` / `Pipeline.cfg` | pass (about 39k states) | For every interleaving of the listener and the processor: the queue refines the abstract FIFO of capacity `MAX_PCK+1` (`QueueRefinement`); a pop after a non-empty test always finds a node (`ConsumerNeverPopsEmptyList`); emitted events follow the region policy, in arrival order, for parsed messages only (`EmittedFaithful`); every accepted datagram is processed (`AcceptedEventuallyProcessed`). |
| pipeline_capacity | `PipelineCapacity.cfg` | violation | `QueueWithinCapacity`: the listener tests `> MAX_PCK`, so the queue holds `MAX_PCK+1` packets (`dns_client.c:168`). |
| text_analysis | `MCIPExtractor` / `IPExtractor.cfg` | pass (about 49k texts) | PCRE2's backtracking scan equals the reference "leftmost, longest literal" scan on every token text and every notification (`ScanMatchesReference`). `PraseMessage` accepts each notification in the spec 4.6 grammar with its fields as written, whatever follows the `;`, so the parse never reads past a well-formed datagram. It rejects a notification with any key character missing (`ParseAsSpecified`). |
| ipx_spec_example | `IPExtractorSpecExample.cfg` | violation | `WholeLiteralsOnly`: with no word boundaries, `99.1.1.1` is cut out of `999.1.1.1`, and similar (`ip_resolver.c:4`). |
| message_buffers | `IPExtractorMatchCap.cfg` | violation | `MainLoopBuffersFit`: one 423-byte notification overruns two of `main_loop`'s buffers. `sscanf`'s `%[^,]` has no width, so the 130-character domain overruns `domain[128]` (`dns_client.c:244`). Its 33 addresses give 33 matches for the 32 slots of `match_results` (`ip_resolver.c:139`). |
| firewall_startup | `MCFirewall` / `RuleLoaderSpecSink.cfg` | pass (about 62k states) | main binds to netd, which may crash and restart in between. The threads start only for a documented argument list, with the values it names (`ThreadsStartConfigured`). Once netd stays up, main either starts the threads or, for an undocumented list, exits (`StartupCompletes`). A mutant that keeps the first `INetd` proxy retries forever against the dead netd. The firewall thread then reads every file of up to 3 lines, against a sink that reports `"ERROR"` as spec 4.8 describes, so that failures are retried at all: a rule is retried only after a failure, and a delete never (`RetryOnlyAfterFailure`). |
| rules_error_unnoticed | `RuleLoaderErrorUnnoticed.cfg` | violation | `FailedRulesLogged`: the service answers in lower case, so the `"ERROR"` test never matches. A rejected rule is neither retried nor logged (`binder_client.cpp:170`). Binder transactions may fail in this run too: the ignored `Status` leaves an empty reply, which also counts as success (`binder_client.cpp:163`). |
| rules_retry_count | `RuleLoaderRetryCount.cfg` | violation | `RetriesAsSpecified`: `retryCount` is incremented twice per failure, so a failing rule is logged after 2 attempts, not 3 (`binder_client.cpp:190`). |
| rules_as_written | `RuleLoaderAsWritten.cfg` | violation | `FileAppliedAsWritten` (spec 4.8: the thread gets through the file, and by then every rule line was submitted as written, with the table of the marker above it). TLC's trace is a file of one empty line: memcpy copies `SIZE_MAX` bytes and the thread faults (`binder_client.cpp:153`). The files of this run hold two more defects that fail the same property, each checked alone with the other lines CRLF rules and markers: an LF rule loses its last character to the two-character trim (`binder_client.cpp:153`), and a rule `-t nat` is taken for a marker and skipped, because markers are found anywhere in a line (`binder_client.cpp:133`). |
| lifecycle | `MCLifecycle` / `Lifecycle.cfg` | pass (about 125k states) | In FOREIGN mode (`Region = 1`; the pipeline run uses DOMESTIC), with the signal at any point and a log handle that may be missing: emitted events follow the policy (`EmittedFaithful`). At exit every accepted packet was processed, is held by the processor, or was freed by `LIST_DESTROY` (`NoPacketLostAtExit`). |
| lifecycle_teardown | `LifecycleTeardown.cfg` | violation | `NoUseAfterFree`: in the shortest trace, the listener has copied `g_queue` in `BufferInQueue` and has not yet taken the lock. `Stop_And_Exit` then frees the queue without the lock, and `LIST_RPUSH` writes the freed list (`queue.c:85`, `dns_client.c:467`). The same run also reaches the processor calling `search_ip_string` on the closed searcher, and `LIST_LPOP` on the freed list. |
| registry_dead_listener | `OemListenerRegistry` / `OemListenerRegistry.cfg` | violation | `DeadListenerRemoved`: a client sends two register calls, and binder threads take both up, each holding the client's one proxy. The client dies; one handler links and inserts, the death notice arrives and `binderDied` erases the entry. The other handler, still holding the proxy whose obituaries were sent, gets `DEAD_OBJECT` from `linkToDeath`, which is ignored, and inserts the listener. No obituary will come, so the entry stays in `mOemUnsolicitedMap` (`oemListener.cpp:70`). A call taken up after the proxy was dropped gets a fresh proxy, links, and is notified at once: the model has that case too, and it is removed. |

Each property of a passing run is also checked against a mutant: a plausible
slip in one mapped definition (listed in `PROJECT.json`, "mutants"). The
property must fail on the mutant.

## 5. Not modelled (yet)

* Lifecycle, in part. Exiting on a `Queue_Init` or `InitializeRegex`
  failure happens before any thread starts, and is not modelled. A
  `pcre2_match` already running when `destroy_regex` frees the pattern is
  below the model's granularity: each `found_ip_addresses` call is one step.
* The extractor's read past a datagram without a terminating NUL
  (`queue.c:110`). `found_ip_addresses` takes `strlen` of `node->data`, so a
  heap digit after the last address changes what it extracts. The parse side
  is checked by `ParseAsSpecified`; the extraction side has no property.
* `PraseMessage` accepts more than the grammar of spec 4.6. `sscanf` counts
  conversions, so the `;` is never tested; `%d` takes white space and a
  sign; anything may follow the PID digits. `ParseAsSpecified` checks only
  the direction that holds: grammar to acceptance.
* `get_pid_name` reads `/proc` when the message is processed, not when the
  name was resolved; the process table is outside the model.
* In `OemListenerRegistry`, `onRegistered` and `isAlive` change no registry
  state, so they are not steps of their own.
* The value of `-r`. `region` comes from `atoi`, narrowed to a `char`, so
  "2" or "257" is accepted and reports only failed lookups. `Startup` keeps
  the value as given; `Pipeline`'s `Region` is the value after conversion,
  and the runs use the two values the spec defines.
* `read_file_line`'s `fopen` failure: the thread logs and returns.
* The log sink (an external library) and the ip2region database
  format are also not modelled; the database is abstracted to a constant
  `Geo` map.
