------------------------------ MODULE Pipeline ------------------------------
(***************************************************************************)
(* The event pipeline of dns_client.c: the listener thread                *)
(* udp_server_loop receives datagrams and puts them on g_queue, the       *)
(* processor thread main_loop takes them off, classifies the addresses    *)
(* each carries and emits a security event for those the region policy    *)
(* selects.  Each thread is a program counter; a step is either one       *)
(* locked queue call or the thread-local work between two such calls, so  *)
(* TLC explores every interleaving of the two threads around the lock.   *)
(*                                                                         *)
(* A datagram is a record: id (its arrival number), len (bytes returned   *)
(* by recvfrom) and body.  The body abstracts the text to what main_loop  *)
(* derives from it: parses (PraseMessage found all four fields) and ips   *)
(* (the addresses found_ip_addresses extracts, in order; IPExtractor      *)
(* checks the extraction itself).                                         *)
(***************************************************************************)
EXTENDS EventQueue, FiniteSets

CONSTANTS
  MaxPck,     \* MAX_PCK, the listener's size threshold (1000)
  MaxRecv,    \* bound on the datagrams received in one behaviour
  DgramLens,  \* byte counts recvfrom may return
  Bodies,     \* what a datagram's text may yield to main_loop
  IPs,        \* addresses that may appear in a text
  Geo,        \* Geo[ip]: outcome of search_ip_string, "china", "other" or "error"
  Region      \* the global region, set once by set_region

DOMESTIC == 0
FOREIGN == 1

ASSUME /\ MaxPck \in Nat /\ MaxRecv \in Nat
       /\ DgramLens \subseteq 0 .. MaxLen
       /\ Geo \in [IPs -> {"china", "other", "error"}]

VARIABLES
  lpc,        \* listener: "recv", "check", "enq" or "stopped"
  lbuf,       \* listener: the datagram in buffer
  nextId,     \* number of datagrams received so far
  cpc,        \* processor: "poll", "pop", "process" or "sleep"
  cnode,      \* processor: the node it holds
  emitted,    \* events handed to log_write, in order
  accepted,   \* ghost: every node ever linked into the queue
  processed   \* ghost: ids of nodes the processor has finished

vars == <<queue, size, len, lpc, lbuf, nextId, cpc, cnode, emitted,
          accepted, processed>>

NoNode == [id |-> 0, len |-> 0, body |-> [parses |-> FALSE, ips |-> <<>>]]

Nodes == [id : 1 .. MaxRecv, len : DgramLens, body : Bodies]

(* Spec 3: only a message of MinLen .. MaxLen bytes is ever queued. *)
QueuedNodes == [id : 1 .. MaxRecv, len : MinLen .. MaxLen, body : Bodies]

-----------------------------------------------------------------------------
(* The listener thread, udp_server_loop. *)

(* recvfrom returns a datagram of n bytes, or fails and ends the loop. *)
ListenerRecv ==
  /\ lpc = "recv"
  /\ nextId < MaxRecv
  /\ \/ /\ \E n \in DgramLens, b \in Bodies :
             lbuf' = [id |-> nextId + 1, len |-> n, body |-> b]
        /\ nextId' = nextId + 1
        /\ lpc' = "check"
     \/ /\ lpc' = "stopped"
        /\ UNCHANGED <<lbuf, nextId>>
  /\ UNCHANGED <<qvars, cpc, cnode, emitted, accepted, processed>>

(* GetQueueSize() > MAX_PCK: drop the datagram and receive the next. *)
ListenerDropFull ==
  /\ lpc = "check"
  /\ GetQueueSize > MaxPck
  /\ lpc' = "recv"
  /\ UNCHANGED <<qvars, lbuf, nextId, cpc, cnode, emitted, accepted, processed>>

(* Otherwise go on to BufferInQueue, after the lock has been released. *)
ListenerAdmit ==
  /\ lpc = "check"
  /\ ~(GetQueueSize > MaxPck)
  /\ lpc' = "enq"
  /\ UNCHANGED <<qvars, lbuf, nextId, cpc, cnode, emitted, accepted, processed>>

(* BufferInQueue(buffer, n): a bad length is refused (DATA_INVALID), a   *)
(* failed malloc refuses too (MEM_MALLOC_FAIL), otherwise the copy is    *)
(* linked at the tail under the lock.  Then usleep and receive again.    *)
ListenerEnqueue ==
  /\ lpc = "enq"
  /\ lpc' = "recv"
  /\ \/ /\ ~LengthValid(lbuf.len)
        /\ UNCHANGED <<qvars, accepted>>
     \/ /\ LengthValid(lbuf.len)
        /\ UNCHANGED <<qvars, accepted>>
     \/ /\ LengthValid(lbuf.len)
        /\ ListRPush(lbuf)
        /\ accepted' = accepted \cup {lbuf}
  /\ UNCHANGED <<lbuf, nextId, cpc, cnode, emitted, processed>>

-----------------------------------------------------------------------------
(* The processor thread, main_loop. *)

(* Variants of Kept below: a dropped branch, a swapped mode test. *)
KeptIgnoresError(ip) ==
  \/ Geo[ip] = "china" /\ Region = FOREIGN
  \/ Geo[ip] = "other" /\ ~(Region # DOMESTIC)

KeptChinaWhenDomestic(ip) ==
  \/ Geo[ip] = "error"
  \/ Geo[ip] = "china" /\ Region = DOMESTIC
  \/ Geo[ip] = "other" /\ ~(Region # DOMESTIC)

(* The filter of main_loop for one address: a China address is kept in  *)
(* FOREIGN mode, any other address only while region is DOMESTIC, and    *)
(* one whose lookup failed is always kept.                               *)
Kept(ip) ==
  \/ Geo[ip] = "error"
  \/ Geo[ip] = "china" /\ Region = FOREIGN
  \/ Geo[ip] = "other" /\ ~(Region # DOMESTIC)

(* found_index_array: the extracted addresses that pass, in order. *)
Selected(ips) == SelectSeq(ips, Kept)

(* BufferOutQueue, first half: IsEmptyQueue under the lock.  Empty means *)
(* BUF_EMPTY: usleep, then poll again.                                   *)
ProcessorPollEmpty ==
  /\ cpc = "poll"
  /\ IsEmptyQueue
  /\ cpc' = "sleep"
  /\ UNCHANGED <<qvars, lpc, lbuf, nextId, cnode, emitted, accepted, processed>>

ProcessorPollNonEmpty ==
  /\ cpc = "poll"
  /\ ~IsEmptyQueue
  /\ cpc' = "pop"
  /\ UNCHANGED <<qvars, lpc, lbuf, nextId, cnode, emitted, accepted, processed>>

(* BufferOutQueue, second half: LIST_LPOP under the lock again.  With    *)
(* size zero it leaves ppop NULL and BufferOutQueue returns BUF_EMPTY.   *)
ProcessorPop ==
  /\ cpc = "pop"
  /\ IF size # 0
       THEN /\ ListLPop
            /\ cnode' = Head(queue)
            /\ cpc' = "process"
       ELSE /\ cpc' = "poll"
            /\ UNCHANGED <<qvars, cnode>>
  /\ UNCHANGED <<lpc, lbuf, nextId, emitted, accepted, processed>>

(* The rest of one iteration: PraseMessage; on success extract, look up  *)
(* and filter the addresses and, if any is selected, build the JSON      *)
(* event and pass it to log_write (cJSON_Print may fail and then nothing *)
(* is written); free the node and usleep.                                *)
ProcessorEmit ==
  /\ cpc = "process"
  /\ cnode.body.parses
  /\ Selected(cnode.body.ips) # <<>>
  /\ \E printed \in BOOLEAN :
       emitted' = IF printed
                    THEN Append(emitted, [id |-> cnode.id,
                                          ips |-> Selected(cnode.body.ips)])
                    ELSE emitted
  /\ processed' = processed \cup {cnode.id}
  /\ cpc' = "sleep"
  /\ cnode' = NoNode
  /\ UNCHANGED <<qvars, lpc, lbuf, nextId, accepted>>

(* Parse failure, or no selected address: no event. *)
ProcessorDiscard ==
  /\ cpc = "process"
  /\ ~(cnode.body.parses /\ Selected(cnode.body.ips) # <<>>)
  /\ processed' = processed \cup {cnode.id}
  /\ cpc' = "sleep"
  /\ cnode' = NoNode
  /\ UNCHANGED <<qvars, lpc, lbuf, nextId, emitted, accepted>>

(* usleep(MAIN_FUNC_CYCLE) returns; the loop starts over. *)
ProcessorWake ==
  /\ cpc = "sleep"
  /\ cpc' = "poll"
  /\ UNCHANGED <<qvars, lpc, lbuf, nextId, cnode, emitted, accepted, processed>>

-----------------------------------------------------------------------------
Init ==
  /\ QueueInit
  /\ lpc = "recv"
  /\ lbuf = NoNode
  /\ nextId = 0
  /\ cpc = "poll"
  /\ cnode = NoNode
  /\ emitted = <<>>
  /\ accepted = {}
  /\ processed = {}

Listener ==
  \/ ListenerRecv
  \/ ListenerDropFull
  \/ ListenerAdmit
  \/ ListenerEnqueue

Processor ==
  \/ ProcessorPollEmpty
  \/ ProcessorPollNonEmpty
  \/ ProcessorPop
  \/ ProcessorEmit
  \/ ProcessorDiscard
  \/ ProcessorWake

Next == Listener \/ Processor

Spec == Init /\ [][Next]_vars

(* Both threads are always runnable OS threads: once a datagram is in    *)
(* hand the listener goes on, and the processor polls forever.  Only the *)
(* arrival of a datagram (ListenerRecv) is not assumed.                   *)
FairSpec ==
  /\ Spec
  /\ WF_vars(ListenerDropFull) /\ WF_vars(ListenerAdmit)
  /\ WF_vars(ListenerEnqueue)
  /\ WF_vars(Processor)

-----------------------------------------------------------------------------
(* Properties *)

TypeOK ==
  /\ queue \in Seq(QueuedNodes)
  /\ size \in Nat /\ len \in Nat
  /\ lpc \in {"recv", "check", "enq", "stopped"}
  /\ lbuf \in Nodes \cup {NoNode}
  /\ nextId \in 0 .. MaxRecv
  /\ cpc \in {"poll", "pop", "process", "sleep"}
  /\ cnode \in Nodes \cup {NoNode}
  /\ emitted \in Seq([id : 1 .. MaxRecv, ips : Seq(IPs)])
  /\ accepted \subseteq Nodes
  /\ processed \subseteq 1 .. MaxRecv

(* What spec 4.1 promises: g_queue never holds more than MAX_PCK         *)
(* packets, however the listener's size check and the processor's pops   *)
(* interleave.                                                            *)
QueueWithinCapacity == size <= MaxPck

(* The queue, as its two threads use it, is a FIFO that never holds more *)
(* than MAX_PCK + 1 packets: the listener admits a packet while size is  *)
(* still MAX_PCK (its check is "> MAX_PCK") and BufferInQueue does not   *)
(* check the size at all.                                                 *)
AbstractQueue == INSTANCE QueueSpec WITH
  q <- queue, Capacity <- MaxPck + 1, Items <- Nodes

QueueRefinement == AbstractQueue!Spec

(* BufferOutQueue tests IsEmptyQueue and pops in two separate critical   *)
(* sections.  Whatever the listener does in between, when the processor  *)
(* reaches LIST_LPOP the counter it tested and the list agree and a node *)
(* is there: the "dequeue failed after a non-empty test" path            *)
(* (queue.c:173) is never taken and the head is never a NULL link.       *)
ConsumerNeverPopsEmptyList ==
  cpc = "pop" => size > 0 /\ size = Len(queue)

(* Events are emitted in arrival order, at most one per datagram, each   *)
(* for a datagram the listener queued and PraseMessage accepted, and     *)
(* carrying exactly the addresses spec 4.5 selects: a failed lookup is   *)
(* always reported, DOMESTIC mode reports foreign addresses and FOREIGN  *)
(* mode domestic ones, in extraction order.                              *)
SpecRelevant(ip) ==
  CASE Geo[ip] = "error" -> TRUE
    [] Region = DOMESTIC -> Geo[ip] = "other"
    [] Region = FOREIGN  -> Geo[ip] = "china"

EmittedFaithful ==
  /\ \A k \in 1 .. Len(emitted) - 1 : emitted[k].id < emitted[k + 1].id
  /\ \A k \in 1 .. Len(emitted) :
       \E n \in accepted :
         /\ n.id = emitted[k].id
         /\ n.body.parses
         /\ emitted[k].ips = SelectSeq(n.body.ips, SpecRelevant)
         /\ emitted[k].ips # <<>>

(* Every packet linked into the queue is eventually taken off and       *)
(* processed by main_loop.                                                *)
AcceptedEventuallyProcessed ==
  \A i \in 1 .. MaxRecv :
    (\E n \in accepted : n.id = i) ~> (i \in processed)
=============================================================================
