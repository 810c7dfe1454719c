------------------------------ MODULE Firewall ------------------------------
(***************************************************************************)
(* main's startup (Startup) composed with the firewall thread it creates *)
(* (RuleLoader): firewall_thread returns at once when config_path is      *)
(* nullptr, and otherwise runs read_file_line on the rule file, which is  *)
(* one of Files.  Before main has created the thread, only main and netd *)
(* move.                                                                  *)
(***************************************************************************)
EXTENDS RuleLoader, Startup

fvars == <<vars, svars>>

FInit == Init /\ SInit

(* firewall_thread: nothing to do without config_path. *)
FirewallThread == mpc = "running" /\ conf["-c"] # NoArg /\ Next /\ UNCHANGED svars

FNext == (SNext /\ UNCHANGED vars) \/ FirewallThread

FSpec == FInit /\ [][FNext]_fvars

(* main only sleeps between its attempts; netd is not obliged to come up. *)
FFairSpec == FSpec /\ WF_fvars(Main /\ UNCHANGED vars)
=============================================================================
