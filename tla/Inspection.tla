------------------------------ MODULE Inspection ------------------------------
(***************************************************************************)
(* The two engines that keep no state, ProtocolValidator and DpiEngine,    *)
(* given one input each: the requests of Heads, and the texts of TextsSent *)
(* as a client form-encodes them.                                          *)
(***************************************************************************)
EXTENDS ProtocolValidator, DpiEngine

CONSTANTS Heads, TextsSent

\* What httparse makes of the bytes, see ProtocolValidator; a value has a token at
\* least, which may be empty.
ASSUME InspectionAssumption ==
  /\ \A h \in Heads :
       /\ h.parse \in {"empty", "error", "partial", "partial, over 8192", "complete"}
       /\ h.headers \in Seq([name : STRING, value : Seq(STRING) \ {<<>>}])
  /\ TextsSent \subseteq Seq(Bytes)

VARIABLES head,   \* the request validated: empty or a set of one
          text    \* what the client wrote, before it was encoded

inspectionVars == <<head, text>>

InspectionInit == head = {} /\ text = <<>>

ValidateNext ==
  \E h \in Heads : head' = {h} /\ text' = <<>>

ScanNext ==
  \E t \in TextsSent : head' = {} /\ text' = t

InspectionNext == head = {} /\ text = <<>> /\ (ValidateNext \/ ScanNext)

InspectionSpec == InspectionInit /\ [][InspectionNext]_inspectionVars

----------------------------------------------------------------------------
(* Properties.                                                              *)

Named(request, name) == {h \in ToSet(request.headers) : h.name = name}

\* A request that passes has one way at most to tell where its body ends: never
\* a length and an encoding, and never two lengths (a length that cannot be
\* decoded counts as an empty one, protocol_validator.rs:412).
AcceptedFraming ==
  \A request \in head : ValidateHttpRequest(request).passed =>
    /\ Named(request, "content-length") = {} \/ Named(request, "transfer-encoding") = {}
    /\ \A g, h \in Named(request, "content-length") : Text(g.value) = Text(h.value)

\* The kinds of refusal that are for a header.
HeaderErrors ==
  {"InvalidHeaderName", "InvalidHeaderValue", "ContentLengthMismatch", "ConflictingContentLength",
   "TransferEncodingWithContentLength", "TransferEncodingInvalid", "HostHeaderMissing",
   "InvalidHost", "LineFoldingDetected"}

\* The tokens of the Transfer-Encoding header that is looked at.
Encodings(headers) ==
  IF Has(headers, "transfer-encoding") THEN ToSet(FirstValue(headers, "transfer-encoding")) ELSE {}

EncodingMissed(headers) ==
  /\ Has(headers, "transfer-encoding")
  /\ FirstValue(headers, "transfer-encoding") = Unreadable \/ "" \in Encodings(headers)

HostMissed(request) ==
  IF Has(request.headers, "host")
  THEN FirstValue(request.headers, "host") \in {<<"">>, <<"too long">>}
  ELSE request.version = 1

\* Where validate_headers does not look: at a length or an encoding it cannot read,
\* at the tokens of an encoding, at the host and at the names that are forbidden.
Missed(request) ==
  \/ \E h \in Named(request, "content-length") : h.value = Unreadable
  \/ EncodingMissed(request.headers)
  \/ HostMissed(request)
  \/ \E h \in ToSet(request.headers) : h.name \in InvalidHeaders

\* validate_headers and validate_http_request share no code for Content-Length and
\* look at different things besides.  Of a list the first passes, the second refuses
\* a header exactly where the first does not look; both report the same length, and
\* only the second tells that the body is chunked.
EntryPointsAgree ==
  \A request \in head :
    LET alone == ValidateHeaders(request.headers)
        whole == ValidateParsedRequest(request)
    IN  alone.passed =>
          /\ (\E e \in ToSet(whole.errors) : e[2] = "Reject" /\ e[1] \in HeaderErrors)
               <=> Missed(request)
          /\ alone.content_length = whole.content_length
          /\ ~alone.is_chunked
          /\ whole.is_chunked <=> "chunked" \in Encodings(request.headers)

\* What a client that form-encodes a text sends.
Code(c) ==
  CASE c = "%" -> <<"%", "2", "5">>
    [] c = "+" -> <<"%", "2", "b">>
    [] c = " " -> <<"+">>
    [] OTHER -> <<c>>

FormEncode(s) == FoldLeft(LAMBDA out, c : out \o Code(c), <<>>, s)

PlainUrl == <<"z", "?">> \o FormEncode(text)
EscapedUrl == <<"%", "2", "5", "?">> \o FormEncode(text)

\* Whatever a client form-encodes is scanned as it was before, down to an escape
\* at the very end, and so is the query of a URL, with one exception: in a text
\* without any escape a plus sign is left alone, so its spaces are not seen
\* (dpi_engine.rs:698).  An escape in the path moves the query two places to the
\* front, and scan_url panics when there are not two to spare (:578).
DecodesWhatWasSent ==
  LET unseen == Contains(text, " ") /\ ~Contains(text, "%") /\ ~Contains(text, "+")
  IN  /\ MaybeDecode(FormEncode(text)) # text <=> unseen
      /\ ~ScanUrlPanics(PlainUrl)
      /\ UrlText(PlainUrl) # <<"z", "?">> \o text <=> unseen
      /\ ScanUrlPanics(EscapedUrl) <=> text = <<>>
=============================================================================
