------------------------------ MODULE Startup ------------------------------
(***************************************************************************)
(* The start of main (binder_client.cpp) up to the creation of the       *)
(* threads.  main calls NetdBinderInit until it returns 0, sleeping 10 s  *)
(* between attempts; then PraseCommandLine reads argv into config_path,  *)
(* db_path, log_path and region (or exits), the set_* calls hand them to *)
(* dns_client.c, dns_client_init runs and the threads are created.       *)
(*                                                                         *)
(* netd is the environment: it may be down (getService answers nullptr), *)
(* registered but without its OEM service (getOemNetd fails or gives a   *)
(* null binder), or up; it may crash and be restarted, each start a new  *)
(* binder, named by its generation.  mNetd and oemNetd hold the          *)
(* generation of the proxy they were set from, 0 for nullptr.  netd's    *)
(* life after startup is the BinderFaults of RuleLoader.                 *)
(*                                                                         *)
(* argv is fixed at exec; an argument is a token (a model string).  The  *)
(* value of -r is kept as given: atoi of it is Pipeline's Region.        *)
(***************************************************************************)
EXTENDS Naturals, Sequences, FiniteSetsExt

CONSTANTS
  Argvs,          \* argument lists main may be started with (argv[1..argc-1])
  MaxNetdCrashes  \* how often netd may crash while main is binding

VARIABLES
  argv,     \* the arguments of this process
  mpc,      \* main: "bind", "parse", "init", "running" or "exited"
  netd,     \* "down", "partial" (no OEM service yet) or "up"
  gen,      \* generation of the netd process last started, 0 before any
  mNetd,    \* generation of the INetd proxy in mNetd, 0 for nullptr
  oemNetd,  \* generation of the IOemNetd proxy in oemNetd, 0 for nullptr
  conf      \* option -> its value as PraseCommandLine left it

svars == <<argv, mpc, netd, gen, mNetd, oemNetd, conf>>

Options  == {"-c", "-d", "-l", "-r"}
Required == {"-c", "-d", "-l"}
NoArg    == "nullptr"
Unset    == [o \in Options |-> NoArg]

-----------------------------------------------------------------------------
(* NetdBinderInit *)

(* getService("netd"): the running netd's binder, nullptr while it is down. *)
ServiceBinder == IF netd = "down" THEN 0 ELSE gen

(* getOemNetd on proxy m succeeds only on the live netd with its OEM      *)
(* service up; a dead proxy answers DEAD_OBJECT.                          *)
OemReachable(m) == m = gen /\ netd = "up"

(* oemNetd after getOemNetd on proxy m: set from the answer when the call *)
(* succeeds; the live netd without its OEM service either fails the call  *)
(* (oemNetd kept) or answers a null binder (nullOem: the cast sets it to  *)
(* nullptr).                                                              *)
OemAfter(m, nullOem) ==
  CASE m # 0 /\ OemReachable(m)                     -> m
    [] m = gen /\ netd = "partial" /\ nullOem        -> 0
    [] OTHER                                         -> oemNetd

(* A variant of NetdBinderInit below that keeps the first INetd proxy it  *)
(* got (mNetd set only while nullptr).                                    *)
NetdBinderInitKeepsProxy(nullOem) ==
  LET m == IF mNetd = 0 THEN ServiceBinder ELSE mNetd
  IN  [ret |-> IF m # 0 /\ OemReachable(m) THEN 0 ELSE -1,
       mNetd |-> m, oemNetd |-> OemAfter(m, nullOem)]

(* One call: mNetd is replaced only when getService answered a binder, so *)
(* a nullptr answer leaves the proxy of an earlier attempt in place.       *)
NetdBinderInit(nullOem) ==
  LET m == IF ServiceBinder # 0 THEN ServiceBinder ELSE mNetd
  IN  [ret |-> IF m # 0 /\ OemReachable(m) THEN 0 ELSE -1,
       mNetd |-> m, oemNetd |-> OemAfter(m, nullOem)]

-----------------------------------------------------------------------------
(* PraseCommandLine *)

(* The for loop from argv[i]: an option with a value after it stores the *)
(* value and skips it; "-h" exits with success, anything else with       *)
(* failure.                                                               *)
RECURSIVE ScanArgs(_, _, _)
ScanArgs(a, i, v) ==
  IF i > Len(a) THEN [exit |-> "none", val |-> v]
  ELSE IF a[i] \in Options /\ i < Len(a)
       THEN ScanArgs(a, i + 2, [v EXCEPT ![a[i]] = a[i + 1]])
       ELSE [exit |-> IF a[i] = "-h" THEN "success" ELSE "failure", val |-> v]

(* A variant of PraseCommandLine below without the final nullptr check. *)
PraseCommandLineNoRequired(a) ==
  IF Len(a) + 1 < 4 THEN [exit |-> "failure", val |-> Unset]
  ELSE ScanArgs(a, 1, Unset)

(* argc < 4 exits at once; after the loop a missing -c, -d or -l exits.  *)
PraseCommandLine(a) ==
  IF Len(a) + 1 < 4 THEN [exit |-> "failure", val |-> Unset]
  ELSE LET r == ScanArgs(a, 1, Unset)
       IN  IF r.exit = "none" /\ \E o \in Required : r.val[o] = NoArg
             THEN [r EXCEPT !.exit = "failure"]
             ELSE r

-----------------------------------------------------------------------------
SInit ==
  /\ argv \in Argvs
  /\ mpc = "bind"
  /\ netd = "down" /\ gen = 0
  /\ mNetd = 0 /\ oemNetd = 0
  /\ conf = Unset

(* netd is started (a new binder), gets its OEM service, or crashes. *)
NetdStart ==
  /\ mpc = "bind" /\ netd = "down" /\ gen <= MaxNetdCrashes
  /\ netd' = "partial" /\ gen' = gen + 1
  /\ UNCHANGED <<argv, mpc, mNetd, oemNetd, conf>>

NetdReady ==
  /\ mpc = "bind" /\ netd = "partial"
  /\ netd' = "up"
  /\ UNCHANGED <<argv, mpc, gen, mNetd, oemNetd, conf>>

NetdCrash ==
  /\ mpc = "bind" /\ netd # "down" /\ gen <= MaxNetdCrashes
  /\ netd' = "down"
  /\ UNCHANGED <<argv, mpc, gen, mNetd, oemNetd, conf>>

(* One pass of main's do/while: NetdBinderInit, then on failure sleep(10) *)
(* and go round again.                                                     *)
BinderInit ==
  /\ mpc = "bind"
  /\ \E nullOem \in BOOLEAN :
     LET r == NetdBinderInit(nullOem)
     IN  /\ mNetd' = r.mNetd /\ oemNetd' = r.oemNetd
         /\ mpc' = IF r.ret = 0 THEN "parse" ELSE "bind"
  /\ UNCHANGED <<argv, netd, gen, conf>>

(* PraseCommandLine, then set_log_path, set_db_path and set_region. *)
ParseArgs ==
  /\ mpc = "parse"
  /\ LET r == PraseCommandLine(argv)
     IN  /\ conf' = r.val
         /\ mpc' = IF r.exit = "none" THEN "init" ELSE "exited"
  /\ UNCHANGED <<argv, netd, gen, mNetd, oemNetd>>

(* dns_client_init (its result ignored), the signal handlers and the     *)
(* pthread_create calls; main then only sleeps.                           *)
StartThreads ==
  /\ mpc = "init"
  /\ mpc' = "running"
  /\ UNCHANGED <<argv, netd, gen, mNetd, oemNetd, conf>>

Netd == NetdStart \/ NetdReady \/ NetdCrash

Main == BinderInit \/ ParseArgs \/ StartThreads

SNext == Netd \/ Main
-----------------------------------------------------------------------------
(* Reference, from PrintHelpInfo and spec 6 (the configuration surface):  *)
(* argv is a list of option/value pairs that names the rule file, the     *)
(* database and the log; a repeated option takes its last value.          *)

OptionAt(a) == {k \in 1 .. Len(a) : k % 2 = 1}

Given(a, o) == {k \in OptionAt(a) : a[k] = o}

Documented(a) ==
  /\ Len(a) % 2 = 0
  /\ \A k \in OptionAt(a) : a[k] \in Options
  /\ \A o \in Required : Given(a, o) # {}

DocumentedConf(a) ==
  [o \in Options |-> IF Given(a, o) = {} THEN NoArg ELSE a[Max(Given(a, o)) + 1]]

(* main creates the threads only for a documented argument list, and     *)
(* then with the configuration it names: PraseCommandLine's loop, its     *)
(* value test (i + 1 < argc) and its final check of -c, -d and -l.       *)
ThreadsStartConfigured ==
  mpc \in {"init", "running"} => Documented(argv) /\ conf = DocumentedConf(argv)

(* Once netd stays up, main's retry loop gets through: the threads start *)
(* when argv is documented, and the process exits otherwise (the         *)
(* NetdBinderInit retry loop of main, across netd crashes and restarts).  *)
StartupCompletes ==
  <>[](netd = "up") =>
    <>(mpc = IF Documented(argv) THEN "running" ELSE "exited")
=============================================================================
