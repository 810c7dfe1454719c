---------------------------- MODULE MCLifecycle ----------------------------
(***************************************************************************)
(* Lifecycle with the bounds of MCPipeline, but only two bodies (a parse  *)
(* failure, and a parsed one whose addresses cover all three lookups):   *)
(* the teardown multiplies the interleavings, and the region policy is    *)
(* checked by Pipeline's run.  InitResults are the                        *)
(* dns_client_init outcomes main is let to ignore.                        *)
(***************************************************************************)
EXTENDS Lifecycle, MCPipeline

MCLBodies ==
  { [parses |-> FALSE, ips |-> <<"us">>],
    [parses |-> TRUE,  ips |-> <<"cn", "bad", "us">>] }

MCInitOK == {0}
MCInitLogFails == {0, 2}
=============================================================================
