----------------------------- MODULE EventQueue -----------------------------
(***************************************************************************)
(* The global packet queue g_queue of queue.c: a doubly linked FIFO of     *)
(* List_Node with two counters kept beside the list, size (packets) and    *)
(* len (bytes).  The links are abstracted to a sequence; the counters are  *)
(* kept as separate variables because the code keeps them separately and  *)
(* every test of the queue (LIST_LPOP, IsEmptyQueue, GetQueueSize) reads   *)
(* size, never the list.  Every operator below runs inside LOCK()/UNLOCK() *)
(* in the code, so it is one atomic step of the thread that calls it.     *)
(***************************************************************************)
EXTENDS Naturals, Sequences

CONSTANTS
  MinLen,   \* smallest packet BufferInQueue accepts (20)
  MaxLen    \* largest packet BufferInQueue accepts (1024)

VARIABLES
  queue,    \* the list from head to tail, one record per List_Node
  size,     \* g_queue->size
  len       \* g_queue->len

qvars == <<queue, size, len>>

(* QueueInit: an empty list, both counters zero. *)
QueueInit ==
  /\ queue = <<>>
  /\ size = 0
  /\ len = 0

(* Variants of the operators below, each a plausible slip in the macro   *)
(* or function it mirrors; the properties are checked to reject them.    *)
LengthValidNoMinimum(n) == n <= MaxLen

ListLPushAtHead(node) ==
  /\ queue' = <<node>> \o queue
  /\ size' = size + 1
  /\ len' = len + node.len

ListPushCountsLen(node) ==
  /\ queue' = Append(queue, node)
  /\ size' = size
  /\ len' = len + 1 + node.len

ListLPopKeepSize ==
  /\ queue' = Tail(queue)
  /\ size' = size
  /\ len' = len - Head(queue).len

(* The length test at the top of BufferInQueue (DATA_INVALID otherwise). *)
LengthValid(n) == n >= MinLen /\ n <= MaxLen

(* LIST_RPUSH: link the node at the tail, count it and its bytes. *)
ListRPush(node) ==
  /\ queue' = Append(queue, node)
  /\ size' = size + 1
  /\ len' = len + node.len

(* LIST_LPOP with size # 0: unlink the head, uncount it and its bytes. *)
ListLPop ==
  /\ queue' = Tail(queue)
  /\ size' = size - 1
  /\ len' = len - Head(queue).len

(* IsEmptyQueue and GetQueueSize read size under the lock. *)
IsEmptyQueue == size = 0

GetQueueSize == size
=============================================================================
