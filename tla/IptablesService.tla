--------------------------- MODULE IptablesService ---------------------------
(***************************************************************************)
(* set_iptables_rule / set_iptables_rules of oemListener.cpp, the netd    *)
(* OEM service the rule loader calls over binder.  It keeps no state: it  *)
(* wraps the rules into an iptables-restore command for the table that   *)
(* type selects, runs execIptablesRestore and answers with one of two     *)
(* fixed strings.  The strings are sequences of characters because the   *)
(* caller searches them for a substring.                                  *)
(***************************************************************************)
EXTENDS Sequences

(* The table of a type: 0 filter, 1 nat, anything else mangle. *)
TableName(type) ==
  CASE type = 0 -> "filter"
    [] type = 1 -> "nat"
    [] OTHER    -> "mangle"

(* "iptables_rules_set_successfully" *)
SuccessReply ==
  << "i", "p", "t", "a", "b", "l", "e", "s", "_", "r", "u", "l", "e", "s", "_",
     "s", "e", "t", "_", "s", "u", "c", "c", "e", "s", "s", "f", "u", "l", "l", "y" >>

(* "error_setting_iptables_rules" *)
ErrorReply ==
  << "e", "r", "r", "o", "r", "_", "s", "e", "t", "t", "i", "n", "g", "_",
     "i", "p", "t", "a", "b", "l", "e", "s", "_", "r", "u", "l", "e", "s" >>
=============================================================================
