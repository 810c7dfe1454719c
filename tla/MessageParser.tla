---------------------------- MODULE MessageParser ----------------------------
(***************************************************************************)
(* PraseMessage of dns_client.c: main_loop parses each dequeued datagram *)
(* with                                                                    *)
(*                                                                         *)
(*   sscanf(message, "DnsRet:%[^,],domain:%[^,],UID:%d,PID:%d;", ...)     *)
(*                                                                         *)
(* and accepts it when the four conversions succeed.  The format is a    *)
(* sequence of directives and Scan runs them the way sscanf does: a      *)
(* literal must match character for character, %[^,] takes the longest   *)
(* non-empty run without a comma, %d skips white space, takes an optional *)
(* sign and the longest non-empty run of digits.  The first directive    *)
(* that fails ends the scan; the result counts the conversions made, so  *)
(* the ";" after the last one is never tested.  A text is the C string   *)
(* sscanf reads, up to (not including) its NUL.                          *)
(*                                                                         *)
(* Like found_ip_addresses, PraseMessage runs on the raw payload, so     *)
(* the module extends IPExtractor for its character helpers.              *)
(***************************************************************************)
EXTENDS IPExtractor, FiniteSetsExt

Space == {" ", "\t", "\n", "\r"}

(* The format string, one directive per literal run or conversion. *)
KeyDnsRet == <<"D", "n", "s", "R", "e", "t", ":">>
KeyDomain == <<",", "d", "o", "m", "a", "i", "n", ":">>
KeyUID    == <<",", "U", "I", "D", ":">>
KeyPID    == <<",", "P", "I", "D", ":">>
Semicolon == <<";">>

Format ==
  << [kind |-> "lit", text |-> KeyDnsRet], [kind |-> "set"],
     [kind |-> "lit", text |-> KeyDomain], [kind |-> "set"],
     [kind |-> "lit", text |-> KeyUID],    [kind |-> "int"],
     [kind |-> "lit", text |-> KeyPID],    [kind |-> "int"],
     [kind |-> "lit", text |-> Semicolon] >>

(* The first position at or after p whose character is in X, or the end *)
(* of the text (its NUL).                                                 *)
SpanUntil(s, p, X) ==
  LET stops == {i \in p .. Len(s) : s[i] \in X}
  IN  IF stops = {} THEN Len(s) + 1 ELSE Min(stops)

(* The first position at or after p whose character is not in C. *)
SpanWhile(s, p, C) ==
  LET stops == {i \in p .. Len(s) : s[i] \notin C}
  IN  IF stops = {} THEN Len(s) + 1 ELSE Min(stops)

(* A variant of ScanSet below that reads like %s: up to white space. *)
ScanSetAsString(s, p) == SpanUntil(s, p, Space)

(* %[^,]: the end of the run of non-comma characters from p. *)
ScanSet(s, p) == SpanUntil(s, p, {","})

(* %d: [ws][sign]digits from p, as <<end, value>>, or <<p, 0>> when no  *)
(* digit follows.                                                         *)
ScanInt(s, p) ==
  LET q1   == SpanWhile(s, p, Space)
      q2   == IF At(s, q1) \in {"+", "-"} THEN q1 + 1 ELSE q1
      q3   == SpanWhile(s, q2, Digits)
      mag  == Value(SubSeq(s, q2, q3 - 1))   \* the texts keep it far below INT_MAX
  IN  IF q3 = q2 THEN <<p, 0>>
      ELSE <<q3, IF At(s, q1) = "-" THEN 0 - mag ELSE mag>>

(* Directive k of Format on the text from p; out holds the values        *)
(* converted so far.                                                      *)
RECURSIVE Scan(_, _, _, _)
Scan(s, p, k, out) ==
  IF k > Len(Format) THEN out
  ELSE LET d == Format[k] IN
       CASE d.kind = "lit" ->
              IF p + Len(d.text) - 1 <= Len(s) /\ SubSeq(s, p, p + Len(d.text) - 1) = d.text
                THEN Scan(s, p + Len(d.text), k + 1, out) ELSE out
         [] d.kind = "set" ->
              LET e == ScanSet(s, p)
              IN  IF e > p THEN Scan(s, e, k + 1, Append(out, SubSeq(s, p, e - 1)))
                  ELSE out
         [] d.kind = "int" ->
              LET r == ScanInt(s, p)
              IN  IF r[1] > p THEN Scan(s, r[1], k + 1, Append(out, r[2])) ELSE out

(* The fields sscanf has stored, in order, before it stopped. *)
Converted(s) == Scan(s, 1, 1, <<>>)

(* The buffers main_loop hands to PraseMessage: char dnsRet[64] and      *)
(* char domain[128]; a stored field takes its length plus a NUL.          *)
DnsRetSize == 64
DomainSize == 128

(* PraseMessage: 0 and the four fields when sscanf returns 4, else 1.    *)
(* (sscanf's EOF result before the first conversion is also not 4.)      *)
PraseMessage(s) ==
  LET out == Converted(s)
  IN  IF Len(out) = 4
        THEN [ret |-> 0, dnsRet |-> out[1], domain |-> out[2], uid |-> out[3], pid |-> out[4]]
        ELSE [ret |-> 1]
=============================================================================
