-------------------------------- MODULE MCEdge --------------------------------
(***************************************************************************)
(* A finite instance of the filters that share nothing with one another:   *)
(* each is explored by itself, from one of the initial states.             *)
(***************************************************************************)
EXTENDS Inspection, IngressFilter, DistributedRateLimiter, BotDetector,
        TrafficBaseline

CONSTANTS t1, t2, a, a1, a2, c1, c2, ipKey, globKey, scopedKey

VARIABLE part   \* the component whose steps are explored

(* Inspection                                                               *)

RequestHead(parse, method, path, headers) ==
  [parse |-> parse, method |-> method, path |-> path, version |-> 1, headers |-> headers]

Short == [length |-> "short", marks |-> {}]

Header(name, value) == [name |-> name, value |-> value]

MCHeaders ==
  {Header("content-length", v) : v \in {<<"5">>, <<"+5">>, <<"6">>, <<"-5">>, <<"five">>,
                                        <<"">>, Unreadable}}
  \cup {Header("transfer-encoding", v) : v \in {<<"chunked">>, <<"gzip", "chunked">>,
                                                <<"chunked", "gzip">>, <<"">>, Unreadable}}
  \cup {Header("host", <<"h">>), Header("host", <<"">>), Header("x-real-ip", <<"h">>),
        Header("-invalid", <<"h">>), Header("accept", <<"invalid">>)}

\* Up to three headers in any order, and each fault of a request line.
MCHeads ==
  {[RequestHead("complete", "POST", Short, hs) EXCEPT !.version = v] :
      hs \in BoundedSeq(MCHeaders, 3), v \in 0 .. 1}
  \cup {RequestHead("complete", m, [length |-> l, marks |-> ms], <<Header("host", <<"">>)>>) :
          m \in {"GET", "SPLICE", "get?", ""}, ms \in SUBSET {"NUL", "CRLF", "//"},
          l \in {"short", "empty", "over 1500", "over 2048"}}
  \cup {RequestHead(p, "GET", Short, <<>>) : p \in {"empty", "error", "partial", "partial, over 8192"}}


MCTexts == BoundedSeq(Bytes, 3)

(* IngressFilter: two tasks, two connections of one IP.                     *)

MCSource == [k \in {a1, a2} |-> a]
MCHostRange == [i \in {a} |-> {a}]
MCPackets == {[flags |-> {"syn"}, size |-> "empty"], [flags |-> {"rst"}, size |-> "fits"],
              [flags |-> {"ack"}, size |-> "over"]}

(* DistributedRateLimiter: two callers, an IP, the global bucket and a key   *)
(* of check_rate_with_scope.                                                *)

MCKeyPrefix == [k \in {ipKey, globKey, scopedKey} |-> IF k = ipKey THEN "ip" ELSE "other"]
MCRequests == {[keys |-> <<ipKey, globKey>>, cost |-> 1, tidies |-> TRUE],
               [keys |-> <<scopedKey>>, cost |-> 1, tidies |-> FALSE]}

(* BotDetector: browsers, and the names added to them.  A name comes with    *)
(* every name it contains.                                                  *)

Browsers == {{}, {"mozilla"}, {"mozilla", "firefox", "zh-cn"},
             {"mozilla", "mozilla/5.0 (x11; linux x86_64)", "chrome"}}
BotNames == {{}, {"claudebot", "claude", "bot"}, {"copilot"}, {"bytespider", "spider"}, {"curl"},
             {"selenium"}, {"headlesschrome", "headless", "chrome"}, {"phantomjs", "phantom"},
             {"puppeteer", "playwright", "selenium", "chatgpt", "claude", "perplexity-user",
              "bingpreview"}}
MCUserAgents == {b \cup n : b \in Browsers, n \in BotNames}
MCHeaderSets == {{}, {"accept-language", "lang-en"}, {"sec-ch-ua"},
                 {"accept-language", "accept", "accept-encoding", "gzip", "sec-ch-ua",
                  "HeadlessChrome", "sec-fetch-site"}}
MCQuestions == {[operation |-> o, a |-> p[1], b |-> p[2], c |-> 2] :
                  o \in 0 .. 3, p \in {<<3, 5>>, <<5, 3>>}}

(* TrafficBaseline: one sample of a night hour, two of the day; 0 and 33 are *)
(* only asked about.                                                        *)

MCSamples == {[value |-> 10, hour |-> 3], [value |-> 11, hour |-> 12], [value |-> 40, hour |-> 12]}

----------------------------------------------------------------------------
edgeVars == <<part, inspectionVars, ingressVars, limiterVars, botVars, baselineVars>>

EdgeInit ==
  /\ part \in {"inspection", "ingress", "limiter", "clients", "sessions", "baseline"}
  /\ InspectionInit /\ IngressInit /\ LimiterInit /\ BotInit /\ BaselineInit

EdgeNext ==
  /\ UNCHANGED part
  /\ \/ /\ part = "inspection" /\ InspectionNext
        /\ UNCHANGED <<ingressVars, limiterVars, botVars, baselineVars>>
     \/ /\ part = "ingress" /\ IngressNext
        /\ UNCHANGED <<inspectionVars, limiterVars, botVars, baselineVars>>
     \/ /\ part = "limiter" /\ LimiterNext
        /\ UNCHANGED <<inspectionVars, ingressVars, botVars, baselineVars>>
     \/ /\ part = "clients" /\ ClientNext
        /\ UNCHANGED <<inspectionVars, ingressVars, limiterVars, baselineVars>>
     \/ /\ part = "sessions" /\ SessionNext
        /\ UNCHANGED <<inspectionVars, ingressVars, limiterVars, baselineVars>>
     \/ /\ part = "baseline" /\ RecordSample
        /\ UNCHANGED <<inspectionVars, ingressVars, limiterVars, botVars>>

EdgeSpec == EdgeInit /\ [][EdgeNext]_edgeVars

\* Tasks, connections of one IP and callers may trade places.
MCSymmetry == Permutations({t1, t2}) \cup Permutations({a1, a2}) \cup Permutations({c1, c2})
=============================================================================
