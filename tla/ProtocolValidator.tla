-------------------------- MODULE ProtocolValidator --------------------------
(***************************************************************************)
(* ProtocolValidator (src/engine/protocol_validator.rs): the verdict on    *)
(* one HTTP request, for the run_pipeline of src/io/network.rs, and on a   *)
(* list of headers alone.  It keeps no state.                              *)
(*                                                                         *)
(* A request is what httparse makes of the bytes: whether they parse, the  *)
(* parts of the request line by the class the code puts them in, and the   *)
(* headers in order.  A header value is the sequence of its tokens; a      *)
(* value that is not UTF-8 is Unreadable.  httparse fills method, path and *)
(* version of a complete request and holds no more than MAX_HEADERS_COUNT  *)
(* headers, so the branches for their absence are not modelled.            *)
(***************************************************************************)
EXTENDS Naturals, SequencesExt

CONSTANTS MaxHeadersCount,  \* 128
          HighHeaderCount   \* 50, worth a warning

Unreadable == <<"unreadable">>

\* The texts u64::from_str accepts, a leading plus sign among them.
Number == [text \in {"5", "+5", "6"} |-> IF text = "6" THEN 6 ELSE 5]
Signed == {"+five", "-5"}

\* INVALID_HEADER_PREFIXES, :15.
InvalidHeaders == {"proxy-connection", "x-forwarded-for", "x-real-ip"}

----------------------------------------------------------------------------
(* ProtocolValidResult.  An Option is the set of its value or empty.        *)

NewResult ==
  [passed |-> TRUE, severity |-> "Pass", errors |-> <<>>,
   content_length |-> {}, is_chunked |-> FALSE]

\* :90-107.  A Reject is never taken back by a later Warn.
AddError(r, kind, severity) ==
  [r EXCEPT !.passed = @ /\ severity # "Reject",
            !.severity = IF @ = "Reject" THEN @ ELSE severity,
            !.errors = Append(@, <<kind, severity>>)]

RejectIf(condition, r, kind) == IF condition THEN AddError(r, kind, "Reject") ELSE r
WarnIf(condition, r, kind) == IF condition THEN AddError(r, kind, "Warn") ELSE r

----------------------------------------------------------------------------
(* Headers.                                                                 *)

Positions(headers, name) == {i \in DOMAIN headers : headers[i].name = name}

Has(headers, name) == Positions(headers, name) # {}

\* find_header_value, :663-672: the first of that name.
FirstValue(headers, name) == headers[Min(Positions(headers, name))].value

\* :674-685, "-invalid" for a name that is empty, too long or begins with a mark.
IsValidHeaderName(name) == name # "-invalid"

\* :687-703, "invalid" for a value that is too long or holds NUL, CR or LF.
IsValidHeaderValue(value) == value # <<"invalid">>

\* :257-272.
ValidateHeader(r, header) ==
  RejectIf(~IsValidHeaderValue(header.value),
           RejectIf(~IsValidHeaderName(header.name), r, "InvalidHeaderName"),
           "InvalidHeaderValue")

\* What from_utf8(..).unwrap_or("") makes of a value.
Text(value) == IF value = Unreadable THEN "" ELSE value[1]

\* Faulty variant: the last is compared, and none between it and the first.
AllSameLast(headers, name) ==
  Text(headers[Max(Positions(headers, name))].value) = Text(FirstValue(headers, name))

\* :411-416.
AllSame(headers, name) ==
  \A i \in Positions(headers, name) : Text(headers[i].value) = Text(FirstValue(headers, name))

\* :433-464, of the first value.
ReadLength(r, value) ==
  IF value = Unreadable THEN AddError(r, "ContentLengthMismatch", "Reject")
  ELSE IF Text(value) \in DOMAIN Number
       THEN [r EXCEPT !.content_length = {Number[Text(value)]}]
  ELSE AddError(r, "ContentLengthMismatch",
                IF Text(value) \in Signed THEN "Reject" ELSE "Warn")

\* :400-465.
ValidateContentLength(r, headers) ==
  LET name == "content-length"
  IN  IF ~Has(headers, name) THEN r
      ELSE IF ~AllSame(headers, name) THEN AddError(r, "ConflictingContentLength", "Reject")
      ELSE ReadLength(WarnIf(Cardinality(Positions(headers, name)) > 1, r, "DoubleContentLength"),
                      FirstValue(headers, name))

\* :496-517, one token of the value.
ReadEncoding(r, token) ==
  IF token = "chunked" THEN [r EXCEPT !.is_chunked = TRUE]
  ELSE IF token \in {"gzip", "identity"} THEN r
  ELSE IF token = "" THEN AddError(r, "TransferEncodingInvalid", "Reject")
  ELSE AddError(r, "NonStandardEncoding", "Warn")

\* :467-532.  Only the first Transfer-Encoding header is looked at.
ValidateTransferEncoding(r, headers) ==
  IF ~Has(headers, "transfer-encoding") THEN r
  ELSE LET tokens == FirstValue(headers, "transfer-encoding")
           clash == RejectIf(Has(headers, "content-length"), r,
                             "TransferEncodingWithContentLength")
           chunkedInside == /\ Len(tokens) > 1
                            /\ \E i \in DOMAIN tokens : tokens[i] = "chunked"
                            /\ Last(tokens) # "chunked"
       IN  IF tokens = Unreadable THEN AddError(r, "TransferEncodingInvalid", "Reject")
           ELSE WarnIf(chunkedInside, FoldLeft(ReadEncoding, clash, tokens), "InvalidChunkSize")

\* :282-299.
ValidateHost(r, request) ==
  LET given == Has(request.headers, "host")
  IN  RejectIf(given /\ FirstValue(request.headers, "host") \in {<<"">>, <<"too long">>},
               RejectIf(~given /\ request.version = 1, r, "HostHeaderMissing"),
               "InvalidHost")

----------------------------------------------------------------------------
(* The request line.                                                        *)

\* :304-344.
ValidateMethod(r, method) ==
  LET fault == [m \in {"too long", "", "get?"} |->
                  IF m = "too long" THEN "MethodTooLong" ELSE "InvalidMethod"]
  IN  IF method \in DOMAIN fault THEN AddError(r, fault[method], "Reject")
      ELSE WarnIf(method \notin {"GET", "POST"}, r, "InvalidMethod")

\* :346-398.  length is the class of the path's length, marks what it contains.
ValidatePath(r, path) ==
  IF path.length = "over 2048" THEN AddError(r, "UrlTooLong", "Reject")
  ELSE IF path.length = "empty" THEN AddError(r, "InvalidUrl", "Reject")
  ELSE WarnIf("//" \in path.marks,
              RejectIf("CRLF" \in path.marks,
                       RejectIf("NUL" \in path.marks, r, "InvalidUrl"), "InvalidUrl"),
              "InvalidUrl")

\* :537-548.
Forbid(r, header) == RejectIf(header.name \in InvalidHeaders, r, "LineFoldingDetected")

\* :534-567.
DetectSlowAttacks(r, request) ==
  LET long == request.method \in {"GET", "HEAD"}
              /\ request.path.length \in {"over 1500", "over 2048"}
  IN  WarnIf(Len(request.headers) > HighHeaderCount,
             WarnIf(long, FoldLeft(Forbid, r, request.headers), "SlowlorisDetected"),
             "SlowlorisDetected")

\* :203-302, in the order of the checks.
ValidateParsedRequest(request) ==
  LET line == ValidatePath(ValidateMethod(NewResult, request.method), request.path)
      each == FoldLeft(ValidateHeader, line, request.headers)
      framing == ValidateTransferEncoding(ValidateContentLength(each, request.headers),
                                          request.headers)
  IN  DetectSlowAttacks(ValidateHost(framing, request), request)

\* :148-201.
ValidateHttpRequest(request) ==
  CASE request.parse = "empty" -> AddError(NewResult, "MalformedRequest", "Reject")
    [] request.parse = "error" -> AddError(NewResult, "MalformedRequest", "Reject")
    [] request.parse = "partial" -> AddError(NewResult, "IncompleteHeaders", "Reject")
    [] request.parse = "partial, over 8192" -> AddError(NewResult, "HeaderTooLarge", "Reject")
    [] request.parse = "complete" -> ValidateParsedRequest(request)

----------------------------------------------------------------------------
(* validate_headers, :569-642: the headers alone.                           *)

\* Faulty variant: a second Content-Length is let through, as in validate_http_request.
LengthHeaderLenient(r, headers, i) ==
  LET value == headers[i].value
  IN  IF value = Unreadable THEN r
      ELSE IF Text(value) \in DOMAIN Number
           THEN [r EXCEPT !.content_length = {Number[Text(value)]}]
      ELSE AddError(r, "ContentLengthMismatch", "Reject")

\* :605-627, for the i-th header; an unreadable value is passed over.
LengthHeader(r, headers, i) ==
  LET value == headers[i].value
      again == \E j \in 1 .. i - 1 : headers[j].name = "content-length"
      s == RejectIf(again, r, "DoubleContentLength")
  IN  IF value = Unreadable THEN s
      ELSE IF Text(value) \in DOMAIN Number
           THEN [s EXCEPT !.content_length = {Number[Text(value)]}]
      ELSE AddError(s, "ContentLengthMismatch", "Reject")

\* :589-632.
ReadHeader(r, headers, i) ==
  LET s == ValidateHeader(r, headers[i])
  IN  IF headers[i].name = "content-length" THEN LengthHeader(s, headers, i) ELSE s

ReadHeaders(r, headers) ==
  FoldLeft(LAMBDA s, i : ReadHeader(s, headers, i), r, [i \in DOMAIN headers |-> i])

ValidateHeaders(headers) ==
  LET start == RejectIf(Len(headers) > MaxHeadersCount, NewResult, "TooManyHeaders")
      each == ReadHeaders(start, headers)
  IN  RejectIf(Has(headers, "content-length") /\ Has(headers, "transfer-encoding"), each,
               "TransferEncodingWithContentLength")
=============================================================================
