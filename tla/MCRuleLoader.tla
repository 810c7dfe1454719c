---------------------------- MODULE MCRuleLoader ----------------------------
(***************************************************************************)
(* Rule files for RuleLoader.  A line is built from a few words and a     *)
(* terminator; the files are every short sequence of such lines, so that  *)
(* each order of markers, rules and deletes is tried.                     *)
(***************************************************************************)
EXTENDS RuleLoader

CRLF == <<"\r", "\n">>
LF   == <<"\n">>

NatLine    == NatWord \o CRLF
FilterLine == FilterWord \o CRLF
MangleLine == MangleWord \o CRLF
AddRule    == <<"-", "A", "x">> \o CRLF      \* "-A x"
DelRule    == <<"-", "D", "x">> \o CRLF      \* "-D x"
EmptyLine  == LF
LFRule     == <<"-", "A", "x">> \o LF        \* "-A x" saved with Unix endings
NatRule    == <<"-", "t", " ", "n", "a", "t">> \o CRLF  \* "-t nat"

(* All files of at most n lines drawn from ls. *)
FilesOf(ls, n) == UNION {[1 .. m -> ls] : m \in 0 .. n}

MCFiles        == FilesOf({NatLine, FilterLine, MangleLine, AddRule, DelRule, EmptyLine}, 3)
MCRetryFiles   == FilesOf({NatLine, AddRule, DelRule}, 3)
MCWrittenFiles == FilesOf({AddRule, EmptyLine, LFRule, NatRule}, 2)

(* The service of this repository, and a sink that reports "ERROR". *)
MCErrorReply   == Svc!ErrorReply
MCSpecError    == <<"E", "R", "R", "O", "R">>

MCNoFaults     == {FALSE}
MCFaults       == BOOLEAN
=============================================================================
