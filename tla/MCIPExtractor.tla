---------------------------- MODULE MCIPExtractor ----------------------------
(***************************************************************************)
(* IPExtractor checked over sets of texts.  The state is the text handed *)
(* to found_ip_addresses; every text of Texts is an initial state and    *)
(* nothing changes after, so an invariant is checked once per text.      *)
(***************************************************************************)
EXTENDS MessageParser

CONSTANT Texts

VARIABLE text

Init == text \in Texts
Next == UNCHANGED text
Spec == Init /\ [][Next]_text

(* Texts of up to MaxTokens tokens: digit runs on both sides of 255, dots *)
(* and a letter.  They contain one, two and three digit octets, 256 and  *)
(* runs of four or more digits next to an address, and addresses that    *)
(* touch.                                                                 *)
Tokens == { <<"1", ".">>, <<"1">>, <<"2", "5">>, <<"2", "5", "6">>, <<".">>, <<"x">> }
MaxTokens == 6
TokenTexts == { FlattenSeq(ts) : ts \in UNION {[1 .. n -> Tokens] : n \in 0 .. MaxTokens} }

(* The example of spec section 8: "a 10.0.0.1 b 999.1.1.1 c 255.255.255.255". *)
SpecExample ==
  << "a", " ", "1", "0", ".", "0", ".", "0", ".", "1", " ",
     "b", " ", "9", "9", "9", ".", "1", ".", "1", ".", "1", " ",
     "c", " ", "2", "5", "5", ".", "2", "5", "5", ".", "2", "5", "5", ".", "2", "5", "5" >>
SpecExampleTexts == {SpecExample}

(* One notification of 423 bytes, well inside a datagram: a domain of   *)
(* 130 characters and 33 addresses ("1.1.1.1," each).                     *)
LongDomain == [i \in 1 .. 130 |-> "a"]
ManyAddresses == FlattenSeq([i \in 1 .. 33 |-> <<"1", ".", "1", ".", "1", ".", "1", ",">>])
LongMessageTexts ==
  {FlattenSeq(<< KeyDnsRet, <<"0">>, KeyDomain, LongDomain, KeyUID, <<"1">>,
                 KeyPID, <<"7">>, Semicolon, ManyAddresses >>)}

(* Notifications in the grammar of spec 4.6,                              *)
(*   DnsRet:<v>,domain:<v>,UID:<n>,PID:<n>;<addresses>                     *)
(* built from a few values.  The domain may hold digits and dots, as the *)
(* extractor reads the whole payload.  What follows the ";" is the        *)
(* address list, and then, since BufferInQueue copies the datagram       *)
(* without a NUL (queue.c:110), whatever heap bytes follow it up to a    *)
(* zero byte: here a digit that extends the last address.                 *)
IPText   == <<"1", ".", "2", ".", "3", ".", "4">>
Messages ==
  [dnsRet : {<<"0">>, <<"o", "k">>}, domain : {<<"a">>, <<"a", ".", "1", "2">>},
   uid : {<<"0">>, <<"1", "2">>}, pid : {<<"7">>},
   rest : {<<>>, IPText, IPText \o <<"5">>}]

(* The pieces of a notification; the odd ones are the keys of the format. *)
Pieces(m) == << KeyDnsRet, m.dnsRet, KeyDomain, m.domain, KeyUID, m.uid, KeyPID, m.pid, Semicolon \o m.rest >>
MessageText(m) == FlattenSeq(Pieces(m))

(* The positions of the keys' characters in the text. *)
KeyPositions(m) ==
  LET off(j) == FoldLeft(LAMBDA a, x : a + Len(x), 0, SubSeq(Pieces(m), 1, j - 1))
  IN  UNION {off(j) + 1 .. off(j) + Len(Pieces(m)[j]) : j \in {1, 3, 5, 7}}

(* A notification with one character of a key missing. *)
KeyDropped == UNION {{RemoveAt(MessageText(m), i) : i \in KeyPositions(m)} : m \in Messages}

(* What spec 4.6 says the parse of each notification yields. *)
SpecParse ==
  [t \in {MessageText(m) : m \in Messages} |->
     LET m == CHOOSE m \in Messages : MessageText(m) = t
     IN  [ret |-> 0, dnsRet |-> m.dnsRet, domain |-> m.domain, uid |-> Value(m.uid), pid |-> Value(m.pid)]]

MessageTexts == DOMAIN SpecParse \cup KeyDropped
AllTexts == TokenTexts \cup MessageTexts

(* match_results and found_index_array in main_loop have 32 slots. *)
MaxMatches == 32

-----------------------------------------------------------------------------
(* The translation of MATCH_IPV4's backtracking and of the scan loop     *)
(* returns exactly the literals of the reference scan: at the leftmost   *)
(* place a literal starts, the longest one, then on from its end.        *)
ScanMatchesReference == FoundIPAddresses(text) = RefScan(text, 1)

(* Spec 4.3 and its example: a number that is not an octet (999) is not *)
(* an address; no literal is cut out of a longer digit run, so no match *)
(* has a digit right before or right after it.                           *)
WholeLiteralsOnly ==
  \A k \in 1 .. Len(MatchSpans(text, 1)) :
    LET sp == MatchSpans(text, 1)[k]
    IN  ~IsDigit(text, sp.start - 1) /\ ~IsDigit(text, sp.end)

(* One datagram's analysis fits main_loop's buffers: sscanf stores no    *)
(* field longer than dnsRet[64] or domain[128] hold, and found_ip_        *)
(* addresses returns at most 32 addresses for match_results[32] (spec     *)
(* 4.3 caps the output at 32).                                            *)
MainLoopBuffersFit ==
  LET out == Converted(text)
  IN  /\ Len(out) >= 1 => Len(out[1]) < DnsRetSize
      /\ Len(out) >= 2 => Len(out[2]) < DomainSize
      /\ Len(FoundIPAddresses(text)) <= MaxMatches

(* Spec 4.6: PraseMessage accepts a notification in the grammar with the *)
(* fields as written, whatever follows its ";" (the address list and any *)
(* heap bytes read past an unterminated datagram), and rejects one with  *)
(* a character of a field key missing (the literals of sscanf's format). *)
ParseAsSpecified ==
  /\ text \in DOMAIN SpecParse => PraseMessage(text) = SpecParse[text]
  /\ text \in KeyDropped => PraseMessage(text).ret = 1
=============================================================================
