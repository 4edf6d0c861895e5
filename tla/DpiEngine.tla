------------------------------ MODULE DpiEngine ------------------------------
(***************************************************************************)
(* DpiEngine (src/engine/dpi_engine.rs): which signatures a payload is     *)
(* reported for, and the percent-decoding done before they are matched.    *)
(* It keeps no state.                                                      *)
(*                                                                         *)
(* A text is known by the signatures whose expressions its normalised form *)
(* matches.  A match is reported with twenty bytes of context on either    *)
(* side, cut out by byte positions; text.cut holds the signatures for      *)
(* which such a position falls inside a character of several bytes, where  *)
(* the slice (:608) panics.                                                *)
(***************************************************************************)
EXTENDS Naturals, SequencesExt

CONSTANTS EnabledCategories,  \* the categories the configuration switches on
          CustomPatterns      \* custom_patterns that compile, by number

SqlPatterns == 1001 .. 1013
XssPatterns == 2001 .. 2013
PathTraversalPatterns == 3001 .. 3006
CommandInjectionPatterns == 4001 .. 4009
XxePatterns == 5001 .. 5005
SsrfPatterns == 6001 .. 6007

\* ALL_PATTERNS, :474-483, by category.
AllPatterns ==
  [sql_injection |-> SqlPatterns, xss |-> XssPatterns,
   path_traversal |-> PathTraversalPatterns,
   command_injection |-> CommandInjectionPatterns,
   xxe |-> XxePatterns, ssrf |-> SsrfPatterns]

PayloadSize == 0

\* :498-536; custom patterns are matched whatever is switched on.
Searched ==
  UNION {AllPatterns[c] : c \in EnabledCategories} \cup {9000 + n : n \in CustomPatterns}

ScanText(text) == text.hits \cap Searched

\* Faulty variant: the size is compared and the payload scanned all the same.
ScanPayloadWhole(text) ==
  IF text.over THEN {PayloadSize} \cup ScanText(text) ELSE ScanText(text)

\* :538-556.  A payload over max_payload_size is reported for its size alone.
ScanPayload(text) == IF text.over THEN {PayloadSize} ELSE ScanText(text)

\* :602-630; custom patterns report just the match.
ScanPanics(text) ==
  ~text.over /\ ScanText(text) \cap text.cut \cap UNION {AllPatterns[c] : c \in DOMAIN AllPatterns} # {}

----------------------------------------------------------------------------
(* Percent-decoding, over an alphabet with three hexadecimal digits.  An    *)
(* escape stands for "%", for "+", for another character, or for "raw", a   *)
(* byte that is no UTF-8 by itself.                                         *)

Bytes == {"%", "+", " ", "2", "5", "b", "z"}

\* from_str_radix(.., 16), which also takes a plus sign before the digit.
IsHex(high, low) == high \in {"2", "5", "b", "+"} /\ low \in {"2", "5", "b"}

FromHex(high, low) ==
  CASE <<high, low>> = <<"2", "5">> -> "%"
    [] <<high, low>> = <<"2", "b">> -> "+"
    [] high = "b" -> "raw"
    [] OTHER -> "other"

\* Faulty variant: an escape at the very end is not decoded.
PercentDecodeShort(s) ==
  LET Decode[i \in 1 .. Len(s) + 1] ==
        IF i > Len(s) THEN <<>>
        ELSE IF s[i] = "%" /\ i + 2 < Len(s) /\ IsHex(s[i + 1], s[i + 2])
             THEN <<FromHex(s[i + 1], s[i + 2])>> \o Decode[i + 3]
        ELSE <<IF s[i] = "+" THEN " " ELSE s[i]>> \o Decode[i + 1]
  IN  Decode[1]

\* :709-734.
PercentDecode(s) ==
  LET Decode[i \in 1 .. Len(s) + 1] ==
        IF i > Len(s) THEN <<>>
        ELSE IF s[i] = "%" /\ i + 2 <= Len(s) /\ IsHex(s[i + 1], s[i + 2])
             THEN <<FromHex(s[i + 1], s[i + 2])>> \o Decode[i + 3]
        ELSE <<IF s[i] = "+" THEN " " ELSE s[i]>> \o Decode[i + 1]
  IN  Decode[1]

\* urlencoding_maybe_decode, :697-707.
MaybeDecode(s) ==
  IF Contains(s, "%") /\ ~Contains(PercentDecode(s), "raw") THEN PercentDecode(s) ELSE s

\* Where the first question mark of a URL that has one is, counted from 0.
QueryStart(url) == SelectInSeq(url, LAMBDA c : c = "?") - 1

\* scan_url, :570-584.  The position is that of the URL as it came, and the slice
\* is taken of the decoded one, where it may lie behind the end.
ScanUrlPanics(url) ==
  Contains(url, "?") /\ QueryStart(url) > Len(MaybeDecode(url))

\* The text scanned beside the URL itself.
UrlText(url) ==
  IF ~Contains(url, "?") THEN MaybeDecode(url)
  ELSE SubSeq(url, 1, QueryStart(url))
         \o SubSeq(MaybeDecode(url), QueryStart(url) + 1, Len(MaybeDecode(url)))
=============================================================================
