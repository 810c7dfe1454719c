----------------------------- MODULE MCFirewall -----------------------------
(***************************************************************************)
(* Firewall with the rule files of MCRuleLoader and argument lists that  *)
(* take every branch of PraseCommandLine: the usage in two orders, a      *)
(* repeated option, help, argc < 4, a missing -l, an option without its   *)
(* value, an unknown option, and a value that looks like an option.       *)
(***************************************************************************)
EXTENDS Firewall, MCRuleLoader

MCArgvs ==
  { <<"-c", "p", "-d", "p", "-l", "p">>,
    <<"-r", "1", "-l", "p", "-d", "p", "-c", "p">>,
    <<"-c", "q", "-d", "p", "-l", "p", "-c", "p">>,
    <<"-c", "-h", "-d", "p", "-l", "p">>,
    <<"-c", "p", "-h">>,
    <<"-h">>,
    <<"-c", "p", "-d", "p", "-r", "1">>,
    <<"-c", "p", "-d", "p", "-l", "p", "-r">>,
    <<"-c", "p", "-x", "p", "-d", "p", "-l", "p">> }
=============================================================================
