----------------------------- MODULE Lifecycle -----------------------------
(***************************************************************************)
(* Startup and shutdown of the pipeline: main (binder_client.cpp) calls   *)
(* dns_client_init and ignores its result, starts the listener and the    *)
(* processor, and installs Stop_And_Exit (dns_client.c) for SIGINT and    *)
(* SIGTERM.  The handler runs on the main thread while both workers keep  *)
(* running, and releases the lookup handles, the regex, the queue and the *)
(* log one call after the other before exit(0).                           *)
(*                                                                         *)
(* res tells for each resource whether it is live, was never set up       *)
(* (dns_client_init returned early) or has been freed.  A worker step     *)
(* that uses a freed or never-created resource is undefined behaviour:    *)
(* ub records it, and the process is taken to be dead from then on.     *)
(***************************************************************************)
EXTENDS Pipeline

CONSTANT InitResults   \* values dns_client_init may return to main

VARIABLES
  hpc,       \* Stop_And_Exit: "idle" (no signal yet), the next call, or "exited"
  res,       \* res[r]: "live", "unset" or "freed"
  ub,        \* "none", or the resource a worker used after its release
  released,  \* ghost: the nodes LIST_DESTROY freed
  llist      \* the listener holds list = g_queue inside BufferInQueue

lvars == <<hpc, res, ub, released, llist>>
allvars == <<vars, lvars>>

Resources == {"searcher", "regex", "queue", "log"}

(* What dns_client_init leaves behind when it returns r: 1 when          *)
(* ip2region_init fails (nothing after it runs), 2 when log_init finds no *)
(* handle.  The regex and the queue exit the process on failure instead.  *)
DnsClientInit(r) ==
  [x \in Resources |->
     CASE x = "searcher" -> IF r = 1 THEN "unset" ELSE "live"
       [] x = "log"      -> IF r = 0 THEN "live" ELSE "unset"
       [] OTHER          -> "live"]

(* Variant of ListDestroy below, counting down with --size. *)
ListDestroyOneShort ==
  released' = released \cup {queue[i] : i \in 1 .. size - 1}

(* LIST_DESTROY: free size nodes from the head, then the list; g_queue    *)
(* is NULL afterwards, so GetQueueSize reads 0 and IsEmptyQueue TRUE.     *)
ListDestroy ==
  released' = released \cup {queue[i] : i \in 1 .. size}

LInit ==
  /\ Init
  /\ \E r \in InitResults : res = DnsClientInit(r)
  /\ hpc = "idle"
  /\ ub = "none"
  /\ released = {}
  /\ llist = FALSE

-----------------------------------------------------------------------------
(* The signal handler, one step per call. *)

Signal ==
  /\ hpc = "idle" /\ ub = "none"
  /\ hpc' = "ip2region"
  /\ UNCHANGED <<vars, res, ub, released, llist>>

(* Release step: res[r] freed (a never-created one stays unset), then    *)
(* go on to the next call.                                                *)
Release(r, at, next) ==
  /\ hpc = at /\ ub = "none"
  /\ res' = [res EXCEPT ![r] = IF @ = "live" THEN "freed" ELSE @]
  /\ hpc' = next

Ip2regionDeinit == Release("searcher", "ip2region", "regex") /\ UNCHANGED <<vars, ub, released, llist>>

DestroyRegex == Release("regex", "regex", "queue") /\ UNCHANGED <<vars, ub, released, llist>>

BufferDestroy ==
  /\ Release("queue", "queue", "log")
  /\ ListDestroy
  /\ queue' = <<>> /\ size' = 0 /\ len' = 0
  /\ UNCHANGED <<lpc, lbuf, nextId, cpc, cnode, emitted, accepted, processed, ub, llist>>

LogDeinit == Release("log", "log", "exit") /\ UNCHANGED <<vars, ub, released, llist>>

Exit ==
  /\ hpc = "exit" /\ ub = "none"
  /\ hpc' = "exited"
  /\ UNCHANGED <<vars, res, ub, released, llist>>

Handler == Signal \/ Ip2regionDeinit \/ DestroyRegex \/ BufferDestroy \/ LogDeinit \/ Exit

-----------------------------------------------------------------------------
(* The worker threads, as in Pipeline, while the process runs. *)

Running == ub = "none" /\ hpc # "exited"

Unaffected(A) == Running /\ A /\ UNCHANGED lvars

(* BufferInQueue with g_queue NULL returns BUF_EMPTY. *)
EnqueueDestroyedQueue ==
  /\ Running /\ lpc = "enq" /\ ~llist /\ res.queue = "freed"
  /\ lpc' = "recv"
  /\ UNCHANGED <<qvars, lbuf, nextId, cpc, cnode, emitted, accepted, processed, lvars>>

(* BufferInQueue up to its LOCK: list = g_queue is live, the length is    *)
(* valid, malloc and memcpy succeed.  A refusal returns as in Pipeline.   *)
EnqueueTakeList ==
  /\ Running /\ lpc = "enq" /\ ~llist /\ res.queue = "live"
  /\ LengthValid(lbuf.len)
  /\ llist' = TRUE
  /\ UNCHANGED <<vars, hpc, res, ub, released>>

(* LIST_RPUSH(list, pnew) under the lock, on the list taken before. *)
EnqueuePush ==
  /\ Running /\ llist /\ res.queue = "live"
  /\ ListenerEnqueue /\ queue' # queue
  /\ llist' = FALSE
  /\ UNCHANGED <<hpc, res, ub, released>>

(* bufferDestroy ran in between: LIST_RPUSH writes the freed list. *)
PushDestroyedQueue ==
  /\ Running /\ llist /\ res.queue = "freed"
  /\ ub' = "queue"
  /\ UNCHANGED <<vars, hpc, res, released, llist>>

(* BufferOutQueue took list = g_queue and saw it non-empty; LIST_LPOP    *)
(* now works on the freed list.                                           *)
PopDestroyedQueue ==
  /\ Running /\ cpc = "pop" /\ res.queue = "freed"
  /\ ub' = "queue"
  /\ UNCHANGED <<vars, hpc, res, released, llist>>

(* destroy_regex set matcher.re NULL but not initialized: pcre2_match   *)
(* returns an error, no address is found and no event is built.         *)
ProcessFreedRegex ==
  /\ Running /\ cpc = "process" /\ cnode.body.parses /\ res.regex = "freed"
  /\ processed' = processed \cup {cnode.id}
  /\ cpc' = "sleep"
  /\ cnode' = NoNode
  /\ UNCHANGED <<qvars, lpc, lbuf, nextId, emitted, accepted, lvars>>

(* search_ip_string on a searcher that was closed or never created. *)
SearchFreedSearcher ==
  /\ Running /\ cpc = "process" /\ cnode.body.parses /\ res.regex = "live"
  /\ cnode.body.ips # <<>> /\ res.searcher # "live"
  /\ ub' = "searcher"
  /\ UNCHANGED <<vars, hpc, res, released, llist>>

(* With the regex and searcher live, main_loop runs as in Pipeline; a    *)
(* log_write without a handle writes nothing.                           *)
Resolvable == cnode.body.parses => res.regex = "live" /\ (cnode.body.ips # <<>> => res.searcher = "live")

LProcessorEmit == Unaffected(ProcessorEmit /\ Resolvable /\ (res.log # "live" => emitted' = emitted))

LListener ==
  \/ Unaffected(ListenerRecv) \/ Unaffected(ListenerDropFull) \/ Unaffected(ListenerAdmit)
  \/ Unaffected(ListenerEnqueue /\ ~llist /\ res.queue = "live" /\ UNCHANGED qvars)
  \/ EnqueueDestroyedQueue \/ EnqueueTakeList \/ EnqueuePush \/ PushDestroyedQueue

LProcessor ==
  \/ Unaffected(ProcessorPollEmpty) \/ Unaffected(ProcessorPollNonEmpty)
  \/ Unaffected(ProcessorPop /\ res.queue = "live") \/ PopDestroyedQueue
  \/ LProcessorEmit \/ Unaffected(ProcessorDiscard /\ Resolvable)
  \/ ProcessFreedRegex \/ SearchFreedSearcher \/ Unaffected(ProcessorWake)

LNext == LListener \/ LProcessor \/ Handler

LSpec == LInit /\ [][LNext]_allvars
-----------------------------------------------------------------------------
(* Properties *)

(* Spec 5: the teardown releases resources no thread is still using.  No *)
(* worker touches the searcher, the regex, the queue or the log after     *)
(* Stop_And_Exit has released it, or when dns_client_init never set it up *)
(* and main started the threads anyway.                                   *)
NoUseAfterFree == ub = "none"

(* At exit(0) every packet the listener queued has been processed, is in *)
(* the processor's hands, or was freed by bufferDestroy: LIST_DESTROY,   *)
(* walking size nodes from the head, releases the whole list.            *)
NoPacketLostAtExit ==
  hpc = "exited" =>
    \A n \in accepted : n.id \in processed \/ n = cnode \/ n \in released
=============================================================================
