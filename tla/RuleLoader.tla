----------------------------- MODULE RuleLoader -----------------------------
(***************************************************************************)
(* read_file_line of binder_client.cpp, the firewall thread: it reads the *)
(* rule file line by line with fgets, switches the table type on marker   *)
(* lines, trims every other line and submits it to the OEM netd service   *)
(* (set_iptables_rules, module IptablesService), re-submitting it when    *)
(* the reply contains "ERROR" and logging it after the retries.           *)
(*                                                                         *)
(* A line is the sequence of characters fgets returns, its line          *)
(* terminator included.  One pass of the do/while body (the binder call, *)
(* the reply test and the loop condition) is one step: nothing else       *)
(* shares this thread's state, and the sleeps only delay it.  The        *)
(* service's reply text on failure is the constant ErrText, so that the   *)
(* loop can be checked against this repository's service and against a   *)
(* sink that reports "ERROR" as spec 4.8 describes.                       *)
(***************************************************************************)
EXTENDS Naturals, Sequences, SequencesExt

CONSTANTS
  Files,        \* the rule files the thread may be given
  ErrText,      \* what the service answers when iptables-restore fails
  BinderFaults  \* whether a binder transaction may fail ({FALSE} or BOOLEAN)

Svc == INSTANCE IptablesService

VARIABLES
  file,        \* the lines of the file being read
  lineNo,      \* the index of the next line fgets returns
  pc,          \* "read", "call" (inside the do/while), "done", "crashed"
  type,        \* the table type selector
  tmp,         \* the trimmed rule of the current line
  retryCount,  \* retryCount of the do/while
  submitted,   \* every set_iptables_rules call: line, rule, type, applied, reply
  failLog      \* the lines whose failure log_write recorded

vars == <<file, lineNo, pc, type, tmp, retryCount, submitted, failLog>>

(* strstr(hay, needle) # NULL, and std::string::find # npos. *)
StrStr(hay, needle) ==
  \E i \in 0 .. Len(hay) - Len(needle) : SubSeq(hay, i + 1, i + Len(needle)) = needle

MangleWord == <<"m", "a", "n", "g", "l", "e">>
FilterWord == <<"f", "i", "l", "t", "e", "r">>
NatWord == <<"n", "a", "t">>
DashD  == <<"-", "D">>
Error  == <<"E", "R", "R", "O", "R">>

(* A line the marker tests take, wherever the word occurs in it. *)
IsMarker(line) == StrStr(line, MangleWord) \/ StrStr(line, FilterWord) \/ StrStr(line, NatWord)

(* Variants of the definitions below, each a plausible slip in the code  *)
(* it mirrors; the properties are checked to reject them.                *)
FailedIgnoringDelete(rule, reply) == StrStr(reply, Error)

RetriesUnbounded(success, rc) == ~success

(* The type a marker line selects, tested in the order of the code.     *)
MarkerType(line) ==
  CASE StrStr(line, MangleWord) -> 2
    [] StrStr(line, FilterWord) -> 0
    [] OTHER                -> 1

(* line[strlen(line) - 1] = '\0'; memcpy(tmp, line, strlen(line) - 1):  *)
(* the last two characters are dropped, whatever they are.              *)
TrimLine(line) == SubSeq(line, 1, Len(line) - 2)

(* The reply test: a rule without "-D" whose reply contains "ERROR".    *)
Failed(rule, reply) == ~StrStr(rule, DashD) /\ StrStr(reply, Error)

(* if (retryCount == 3) log_write(...) *)
LoggedAt(rc) == rc = 3

(* while (success == false && retryCount++ < 3): whether to go round   *)
(* again; the increment happens whenever success is false.              *)
Retries(success, rc) == ~success /\ rc < 3

(* set_iptables_rule's answer, given whether execIptablesRestore        *)
(* returned 0.                                                           *)
ServiceReply(applied) == IF applied THEN Svc!SuccessReply ELSE ErrText

Init ==
  /\ file \in Files
  /\ lineNo = 1
  /\ pc = "read"
  /\ type = 0
  /\ tmp = <<>>
  /\ retryCount = 0
  /\ submitted = <<>>
  /\ failLog = <<>>

(* A marker line: set the type and skip the line. *)
ReadMarker ==
  /\ pc = "read"
  /\ lineNo <= Len(file)
  /\ IsMarker(file[lineNo])
  /\ type' = MarkerType(file[lineNo])
  /\ lineNo' = lineNo + 1
  /\ UNCHANGED <<file, pc, tmp, retryCount, submitted, failLog>>

(* Any other line: trim it and enter the do/while with retryCount = 0. *)
ReadRule ==
  /\ pc = "read"
  /\ lineNo <= Len(file)
  /\ ~IsMarker(file[lineNo])
  /\ Len(file[lineNo]) >= 2
  /\ tmp' = TrimLine(file[lineNo])
  /\ retryCount' = 0
  /\ pc' = "call"
  /\ lineNo' = lineNo + 1
  /\ UNCHANGED <<file, type, submitted, failLog>>

(* A line of one character (an empty line "\n"): strlen(line) - 1 is   *)
(* SIZE_MAX in the memcpy, which faults and ends the process.           *)
ReadShortLine ==
  /\ pc = "read"
  /\ lineNo <= Len(file)
  /\ ~IsMarker(file[lineNo])
  /\ Len(file[lineNo]) = 1
  /\ pc' = "crashed"
  /\ UNCHANGED <<file, lineNo, type, tmp, retryCount, submitted, failLog>>

(* fgets returns NULL at the end of the file: the thread returns. *)
ReadEOF ==
  /\ pc = "read"
  /\ lineNo > Len(file)
  /\ pc' = "done"
  /\ UNCHANGED <<file, lineNo, type, tmp, retryCount, submitted, failLog>>

(* One pass of the do/while: call the service, test the reply, count and *)
(* log a failure, and evaluate the loop condition with its increment.    *)
Submit ==
  /\ pc = "call"
  /\ \E applied \in BOOLEAN, transport \in BinderFaults :
       \* a failed transaction returns a bad Status, which is ignored, and
       \* leaves *res the empty String16
       LET reply   == IF transport THEN <<>> ELSE ServiceReply(applied)
           failed  == Failed(tmp, reply)
           rc      == IF failed THEN retryCount + 1 ELSE retryCount
           again   == Retries(~failed, rc)
       IN  /\ submitted' = Append(submitted, [line |-> lineNo - 1, rule |-> tmp, type |-> type,
                                               applied |-> applied /\ ~transport, reply |-> reply])
           /\ failLog' = IF failed /\ LoggedAt(rc) THEN Append(failLog, lineNo - 1) ELSE failLog
           /\ retryCount' = IF failed THEN rc + 1 ELSE rc
           /\ pc' = IF again THEN "call" ELSE "read"
  /\ UNCHANGED <<file, lineNo, type, tmp>>

Next == ReadMarker \/ ReadRule \/ ReadShortLine \/ ReadEOF \/ Submit

Spec == Init /\ [][Next]_vars

(* The firewall thread is an OS thread that only waits in sleeps. *)
FairSpec == Spec /\ WF_vars(Next)
-----------------------------------------------------------------------------
(* Reference definitions, from spec 4.8: a line that begins with a table  *)
(* marker selects the table of the lines after it (filter before any);    *)
(* every other non-empty line, without its line terminator, is a rule.   *)

LineText(line) ==
  CASE IsSuffix(<<"\r", "\n">>, line) -> SubSeq(line, 1, Len(line) - 2)
    [] IsSuffix(<<"\n">>, line)       -> Front(line)
    [] OTHER                          -> line

IsTableLine(line) == \E w \in {MangleWord, FilterWord, NatWord} : IsPrefix(w, line)

TableOf(line) ==
  CASE IsPrefix(MangleWord, line) -> "mangle"
    [] IsPrefix(FilterWord, line) -> "filter"
    [] OTHER                      -> "nat"

(* The table in force at line k of f. *)
TableAt(f, k) ==
  LET markers == {j \in 1 .. k - 1 : IsTableLine(f[j])}
  IN  IF markers = {} THEN "filter" ELSE TableOf(f[Max(markers)])

RuleLines(f) == {k \in 1 .. Len(f) : ~IsTableLine(f[k]) /\ LineText(f[k]) # <<>>}

(* The calls made for line k, in order. *)
Attempts(k) == SelectSeq(submitted, LAMBDA c : c.line = k)

(* Line k has had its last call: the loop has moved past it. *)
Settled(k) == Attempts(k) # <<>> /\ ~(pc = "call" /\ k = lineNo - 1)

Chars == UNION {Range(l) : l \in Range(file)}

TypeOK ==
  /\ file \in Files
  /\ lineNo \in 1 .. Len(file) + 1
  /\ pc \in {"read", "call", "done", "crashed"}
  /\ type \in 0 .. 2
  /\ tmp \in Seq(Chars)
  /\ retryCount \in 0 .. 4
  /\ \A i \in 1 .. Len(submitted) : submitted[i].line \in 1 .. lineNo - 1
  /\ \A i \in 1 .. Len(failLog) : failLog[i] \in 1 .. lineNo - 1

(* A rule is submitted again only after the service failed to apply it,  *)
(* and a delete rule ("-D") only once (the reply test and the loop       *)
(* condition of the do/while).                                           *)
RetryOnlyAfterFailure ==
  \A k \in 1 .. Len(file) :
    LET a == Attempts(k)
    IN  /\ \A j \in 1 .. Len(a) - 1 : ~a[j].applied
        /\ StrStr(LineText(file[k]), DashD) => Len(a) <= 1

(* A rule the service failed to apply on its last attempt is recorded by  *)
(* log_write (the reply test and the retryCount == 3 branch).            *)
FailedRulesLogged ==
  \A k \in 1 .. Len(file) :
    Settled(k) /\ ~Last(Attempts(k)).applied /\ ~StrStr(LineText(file[k]), DashD)
      => k \in Range(failLog)

(* Spec 8: a rule logged as a permanent failure was attempted three times *)
(* (the bound of the retry loop).                                         *)
RetriesAsSpecified == \A k \in Range(failLog) : Len(Attempts(k)) >= 3

(* Spec 4.8: the thread gets through the whole file, and by then every  *)
(* rule line has been submitted, each call carrying the rule as its line *)
(* has it and the table of the last marker line above it (fgets, the     *)
(* strstr marker tests, the trimming and memcpy of read_file_line).      *)
FileAppliedAsWritten ==
  <>(/\ pc = "done"
     /\ {submitted[i].line : i \in 1 .. Len(submitted)} = RuleLines(file)
     /\ \A i \in 1 .. Len(submitted) :
          LET k == submitted[i].line
          IN  /\ submitted[i].rule = LineText(file[k])
              /\ Svc!TableName(submitted[i].type) = TableAt(file, k))
=============================================================================
