----------------------------- MODULE MCPipeline -----------------------------
(***************************************************************************)
(* Pipeline instantiated for TLC.  MAX_PCK is scaled from 1000 to 2: the  *)
(* listener's threshold test behaves the same at every capacity, and 2    *)
(* already lets the processor pop between the listener's size check and  *)
(* its enqueue.  Four datagrams are enough to fill past the threshold.   *)
(* Three addresses cover the three lookup outcomes; the bodies cover a   *)
(* parse failure, an address list with nothing selected under either     *)
(* region, and lists whose selection differs by region.                  *)
(***************************************************************************)
EXTENDS Pipeline

MCMaxPck == 2
MCMaxRecv == 4
MCDgramLens == {12, 300}     \* one below MinLen (DATA_INVALID), one valid

MCIPs == {"cn", "us", "bad"}
MCGeo == [ip \in MCIPs |-> CASE ip = "cn" -> "china"
                             [] ip = "us" -> "other"
                             [] ip = "bad" -> "error"]

MCBodies ==
  { [parses |-> FALSE, ips |-> <<"us">>],
    [parses |-> TRUE,  ips |-> <<"cn", "bad", "us">>],
    [parses |-> TRUE,  ips |-> <<"us">>] }
=============================================================================
