----------------------------- MODULE IPExtractor -----------------------------
(***************************************************************************)
(* found_ip_addresses / regex_find_all of ip_resolver.c.  A text is a     *)
(* sequence of one-character strings (the C string up to its NUL); a      *)
(* match is the sub-sequence PCRE2 reports.  The pattern MATCH_IPV4 is    *)
(*                                                                         *)
(*   octet (\. octet){3}   with   octet = 2(5[0-5]|[0-4]\d) | [0-1]?\d{1,2} *)
(*                                                                         *)
(* and PCRE2 tries its choices depth first in the written order: the     *)
(* first alternative before the second, "?" and "{1,2}" greedily.         *)
(* OctetEnds lists where one octet may end, in that order; QuadEnd takes  *)
(* the first choice whose continuation matches, which is what             *)
(* backtracking returns.  Positions are 1-based; an end is the position   *)
(* after the last character matched.                                      *)
(***************************************************************************)
EXTENDS Naturals, Sequences, SequencesExt

Digits == {"0", "1", "2", "3", "4", "5", "6", "7", "8", "9"}

(* The character at i, or "" past the end of the subject. *)
At(s, i) == IF i \in 1 .. Len(s) THEN s[i] ELSE ""

IsDigit(s, i) == At(s, i) \in Digits

(* A variant with the quantifier made lazy, \d{1,2}?, to test the       *)
(* properties against.                                                    *)
DigitRunLazy(s, i) == SelectSeq(<<i + 1, i + 2>>, LAMBDA e : \A k \in i .. e - 1 : IsDigit(s, k))

(* \d{1,2} from i, greedy: two digits, else one. *)
DigitRun(s, i) == SelectSeq(<<i + 2, i + 1>>, LAMBDA e : \A k \in i .. e - 1 : IsDigit(s, k))

(* 2(5[0-5]|[0-4]\d): "25" and a digit 0-5, or "2", a digit 0-4 and a digit. *)
TwoHundreds(s, p) ==
  /\ At(s, p) = "2"
  /\ \/ At(s, p + 1) = "5" /\ At(s, p + 2) \in {"0", "1", "2", "3", "4", "5"}
     \/ At(s, p + 1) \in {"0", "1", "2", "3", "4"} /\ IsDigit(s, p + 2)

(* The ends of one octet starting at p, in the order PCRE2 tries them:   *)
(* the first alternative, then [0-1]? taken, then [0-1]? skipped.        *)
OctetEnds(s, p) ==
  SelectSeq(<<p + 3>>, LAMBDA e : TwoHundreds(s, p))
  \o (IF At(s, p) \in {"0", "1"} THEN DigitRun(s, p + 1) ELSE <<>>)
  \o DigitRun(s, p)

(* The end of the match of k more octets starting at p (the first one    *)
(* not preceded by a dot), or 0 when there is none.                      *)
RECURSIVE QuadEnd(_, _, _)
QuadEnd(s, p, k) ==
  LET Continues(e) == k = 1 \/ (At(s, e) = "." /\ QuadEnd(s, e + 1, k - 1) # 0)
      choices == SelectSeq(OctetEnds(s, p), Continues)
  IN  CASE choices = <<>> -> 0
        [] k = 1          -> Head(choices)
        [] OTHER          -> QuadEnd(s, Head(choices) + 1, k - 1)

MatchEnd(s, p) == QuadEnd(s, p, 4)

(* regex_find_all: from offset, pcre2_match finds the leftmost start     *)
(* that matches and reports it in ovector; the search restarts at the    *)
(* match's end while the offset is inside the subject.  No bound on the  *)
(* number of matches.                                                     *)
RECURSIVE MatchSpans(_, _)
MatchSpans(s, offset) ==
  LET starts == {p \in offset .. Len(s) : MatchEnd(s, p) # 0}
  IN  IF starts = {}
        THEN <<>>
        ELSE LET p == Min(starts)
             IN  <<[start |-> p, end |-> MatchEnd(s, p)]>> \o MatchSpans(s, MatchEnd(s, p))

(* found_ip_addresses, once the regex is initialized: match_results[i] is *)
(* strndup of the i-th span.                                              *)
FoundIPAddresses(s) ==
  LET spans == MatchSpans(s, 1)
  IN  [i \in 1 .. Len(spans) |-> SubSeq(s, spans[i].start, spans[i].end - 1)]

-----------------------------------------------------------------------------
(* Reference definitions, from spec 4.3: an address literal is four      *)
(* decimal octets of one to three digits, each at most 255, joined by    *)
(* dots.                                                                  *)

DigitValue(c) == CHOOSE v \in 0 .. 9 : <<"0", "1", "2", "3", "4", "5", "6", "7", "8", "9">>[v + 1] = c

RECURSIVE Value(_)
Value(o) == IF o = <<>> THEN 0 ELSE Value(Front(o)) * 10 + DigitValue(Last(o))

IsOctet(o) ==
  /\ Len(o) \in 1 .. 3
  /\ \A i \in 1 .. Len(o) : o[i] \in Digits
  /\ Value(o) <= 255

(* t is o1.o2.o3.o4 with every oi an octet. *)
IsAddress(t) ==
  LET dots == SetToSortSeq({i \in 1 .. Len(t) : t[i] = "."}, <)
  IN  /\ Len(dots) = 3
      /\ IsOctet(SubSeq(t, 1, dots[1] - 1))
      /\ IsOctet(SubSeq(t, dots[1] + 1, dots[2] - 1))
      /\ IsOctet(SubSeq(t, dots[2] + 1, dots[3] - 1))
      /\ IsOctet(SubSeq(t, dots[3] + 1, Len(t)))

(* The longest address literal starting at p, or 0. *)
RefMatchEnd(s, p) ==
  LET ends == {e \in p + 7 .. Min({p + 15, Len(s) + 1}) : IsAddress(SubSeq(s, p, e - 1))}
  IN  IF ends = {} THEN 0 ELSE Max(ends)

(* Left to right, each literal taken whole at the leftmost place one     *)
(* starts, the scan restarting right after it.                            *)
RECURSIVE RefScan(_, _)
RefScan(s, offset) ==
  LET starts == {p \in offset .. Len(s) : RefMatchEnd(s, p) # 0}
  IN  IF starts = {}
        THEN <<>>
        ELSE LET p == Min(starts)
             IN  <<SubSeq(s, p, RefMatchEnd(s, p) - 1)>> \o RefScan(s, RefMatchEnd(s, p))
=============================================================================
