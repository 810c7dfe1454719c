------------------------- MODULE OemListenerRegistry -------------------------
(***************************************************************************)
(* The unsolicited-event listener registry of OemNetdListener            *)
(* (oemListener.cpp).  A client registers a listener over binder;         *)
(* registerOemUnsolicitedEventListenerInternal, under                    *)
(* mOemUnsolicitedMutex, creates a DeathRecipient (which holds an sp to   *)
(* the listener), links it to the listener's binder, ignoring the status, *)
(* and inserts (listener, recipient) into mOemUnsolicitedMap.  binderDied  *)
(* erases the listener from the map.                                      *)
(*                                                                         *)
(* The listener netd holds is its binder proxy (BpBinder) for the client. *)
(* While a proxy for a client exists, every transaction carrying that     *)
(* client's binder is given the same proxy, so the map, keyed by the sp,  *)
(* holds at most one key per client and is modelled keyed by client.  A   *)
(* proxy lives while something holds an sp to it: a handler running with *)
(* it, a map entry, or a recipient (held by the proxy's obituary list or   *)
(* by the map).  linkToDeath on it answers DEAD_OBJECT only once its      *)
(* obituaries have been sent; on a proxy whose client is already dead it  *)
(* links, and the driver queues the death notice at once.  When the notice *)
(* arrives, sendObituary marks the proxy, hands every linked recipient to *)
(* binderDied and clears the list.                                        *)
(*                                                                         *)
(* A register call is a transaction the client sent while alive; a binder *)
(* thread of netd takes it up (unparcels the listener) and runs the       *)
(* handler, which waits for the mutex, so it may run after the client has *)
(* died.  A recipient is named <<c, k>>: the one of client c's k-th call. *)
(***************************************************************************)
EXTENDS Naturals, Functions, TLC

CONSTANTS
  Clients,   \* listener binders (a restarted client is a new binder)
  MaxCalls   \* register calls a client sends at most

Recipients == Clients \X (1 .. MaxCalls)

VARIABLES
  alive,     \* alive[c]: the client process holding listener c runs
  sent,      \* sent[c]: register calls c has sent
  inflight,  \* register calls sent and not yet taken up by a binder thread
  held,      \* calls taken up whose handler has not yet run (holding the proxy)
  proxy,     \* proxy[c]: "none", "live", or "sent" (its obituaries sent)
  recips,    \* recips[c]: recipients on the proxy's obituary list
  pending,   \* pending[c]: the driver has queued the death notice of c's proxy
  map,       \* mOemUnsolicitedMap: listener -> its DeathRecipient
  obits      \* recipients handed to binderDied and not yet run

vars == <<alive, sent, inflight, held, proxy, recips, pending, map, obits>>

(* getListener creates the one OemNetdListener, with an empty map; no    *)
(* client has sent anything yet.                                          *)
Init ==
  /\ alive = [c \in Clients |-> TRUE]
  /\ sent = [c \in Clients |-> 0]
  /\ inflight = {} /\ held = {}
  /\ proxy = [c \in Clients |-> "none"]
  /\ recips = [c \in Clients |-> {}]
  /\ pending = [c \in Clients |-> FALSE]
  /\ map = <<>>
  /\ obits = {}

(* std::map::insert leaves an existing entry in place. *)
MapInsert(m, l, r) == IF l \in DOMAIN m THEN m ELSE m @@ (l :> r)

(* unregisterOemUnsolicitedEventListenerInternal: erase under the mutex. *)
Unregister(m, l) == Restrict(m, DOMAIN m \ {l})

(* The proxy of each client as the last sp to it is dropped: it is       *)
(* destroyed when no handler, map entry or recipient refers to it.        *)
Released(p, h, rc, m, o) ==
  [c \in Clients |->
     IF c \in DOMAIN m \/ rc[c] # {} \/ \E r \in h \cup o : r[1] = c
       THEN p[c] ELSE "none"]

(* The client sends registerOemUnsolicitedEventListener. *)
SendRegister(c) ==
  /\ alive[c] /\ sent[c] < MaxCalls
  /\ sent' = [sent EXCEPT ![c] = @ + 1]
  /\ inflight' = inflight \cup {<<c, sent[c] + 1>>}
  /\ UNCHANGED <<alive, held, proxy, recips, pending, map, obits>>

(* A binder thread takes the call up: the listener argument becomes the  *)
(* client's proxy, a new one if none exists.                              *)
TakeUp(r) ==
  /\ r \in inflight
  /\ inflight' = inflight \ {r}
  /\ held' = held \cup {r}
  /\ proxy' = [proxy EXCEPT ![r[1]] = IF @ = "none" THEN "live" ELSE @]
  /\ UNCHANGED <<alive, sent, recips, pending, map, obits>>

(* linkToDeath on the held proxy of client c: DEAD_OBJECT (nothing done) *)
(* once its obituaries were sent; otherwise r joins the obituary list,    *)
(* and on a dead client the driver queues the notice at once.             *)
LinkToDeath(r) ==
  LET c == r[1] IN
  IF proxy[c] = "sent"
    THEN [recips |-> recips, pending |-> pending]
    ELSE [recips |-> [recips EXCEPT ![c] = @ \cup {r}],
          pending |-> [pending EXCEPT ![c] = @ \/ ~alive[c]]]

(* registerOemUnsolicitedEventListener: the Internal part under the      *)
(* mutex (new recipient, linkToDeath, insert), then onRegistered, whose   *)
(* failure on a dead client is ignored; the handler then drops its sp.    *)
Register(r) ==
  /\ r \in held
  /\ LET l == LinkToDeath(r)
         h == held \ {r}
         m == MapInsert(map, r[1], r)
     IN  /\ recips' = l.recips /\ pending' = l.pending
         /\ held' = h /\ map' = m
         /\ proxy' = Released(proxy, h, l.recips, m, obits)
  /\ UNCHANGED <<alive, sent, inflight, obits>>

(* The client process dies: a proxy with recipients has asked for the    *)
(* death notice, which the driver now queues.                             *)
Die(c) ==
  /\ alive[c]
  /\ alive' = [alive EXCEPT ![c] = FALSE]
  /\ pending' = [pending EXCEPT ![c] = @ \/ recips[c] # {}]
  /\ UNCHANGED <<sent, inflight, held, proxy, recips, map, obits>>

(* BR_DEAD_BINDER reaches netd: sendObituary marks the proxy, takes its  *)
(* recipients for binderDied and clears the list.                         *)
Obituary(c) ==
  /\ pending[c]
  /\ pending' = [pending EXCEPT ![c] = FALSE]
  /\ proxy' = [proxy EXCEPT ![c] = "sent"]
  /\ obits' = obits \cup recips[c]
  /\ recips' = [recips EXCEPT ![c] = {}]
  /\ UNCHANGED <<alive, sent, inflight, held, map>>

(* DeathRecipient::binderDied: unregister the listener; the recipient,   *)
(* and with it an sp to the proxy, is then dropped.                       *)
BinderDied(r) ==
  /\ r \in obits
  /\ LET m == Unregister(map, r[1])
         o == obits \ {r}
     IN  /\ map' = m /\ obits' = o
         /\ proxy' = Released(proxy, held, recips, m, o)
  /\ UNCHANGED <<alive, sent, inflight, held, recips, pending>>

Next ==
  \/ \E c \in Clients : SendRegister(c) \/ Die(c) \/ Obituary(c)
  \/ \E r \in Recipients : TakeUp(r) \/ Register(r) \/ BinderDied(r)

Spec == Init /\ [][Next]_vars

(* netd's binder threads take up every queued transaction and death      *)
(* notice and run every handler; clients are not obliged to call or die. *)
FairSpec ==
  /\ Spec
  /\ \A c \in Clients : WF_vars(Obituary(c))
  /\ \A r \in Recipients :
       WF_vars(TakeUp(r)) /\ WF_vars(Register(r)) /\ WF_vars(BinderDied(r))
-----------------------------------------------------------------------------
(* Properties *)

(* The registry forgets a client that has died: once the process holding *)
(* a listener is gone, mOemUnsolicitedMap eventually has no entry for it *)
(* (the DeathRecipient linked by the register handler, whose linkToDeath  *)
(* status is ignored).                                                    *)
DeadListenerRemoved ==
  \A c \in Clients : ~alive[c] ~> c \notin DOMAIN map
=============================================================================
