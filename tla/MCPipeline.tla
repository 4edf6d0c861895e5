------------------------------ MODULE MCPipeline ------------------------------
(***************************************************************************)
(* A finite instance of Pipeline: which bodies are sent and which scores   *)
(* come back.                                                              *)
(***************************************************************************)
EXTENDS Pipeline

RequestHead(parse, method, path, headers) ==
  [parse |-> parse, method |-> method, path |-> path, version |-> 1, headers |-> headers]

Short == [length |-> "short", marks |-> {}]
Get == RequestHead("complete", "GET", Short, <<[name |-> "host", value |-> <<"h">>]>>)

Txt(hits, over, cut) == [hits |-> hits, over |-> over, cut |-> cut]
Clean == Txt({}, FALSE, {})

\* A body is only let past the validator when it reads like a request itself.
MCBodies ==
  {[head |-> RequestHead("empty", "GET", Short, <<>>), text |-> Clean],
   [head |-> Get, text |-> Clean],
   [head |-> Get, text |-> Txt({1001, 1003, 2001, 3001, 9001}, FALSE, {})],
   [head |-> Get, text |-> Txt({1001, 9001}, TRUE, {})],
   [head |-> Get, text |-> Txt({4001}, FALSE, {4001})]}

MCScores ==
  {[bot |-> 0, threat_intel |-> 0, anomaly |-> 0], [bot |-> 2, threat_intel |-> 0, anomaly |-> 1]}

MCCategories == DOMAIN AllPatterns
=============================================================================
