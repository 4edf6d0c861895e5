----------------------------- MODULE BotDetector -----------------------------
(***************************************************************************)
(* BotDetector (src/engine/bot_detector.rs): the score of a client, the    *)
(* challenges, the velocity of an IP and the cookies of a session.         *)
(*                                                                         *)
(* A user agent is the set of the (lower-case) names it contains, and the  *)
(* headers are the set of what the code asks of them: the name of a header *)
(* that is not empty, "gzip" for an accept-encoding that holds it,         *)
(* "lang-zh" for an accept-language that begins with it, and               *)
(* "HeadlessChrome" for a sec-ch-ua that holds it.  Scores are counted in  *)
(* thousandths, times in units of 10 ms.  Every operation is one critical  *)
(* section.                                                                *)
(***************************************************************************)
EXTENDS Integers, Sequences, FiniteSets, SequencesExt

CONSTANTS UserAgents, HeaderSets,   \* the clients that are scored
          Sessions, Cookies,
          CookieLimit, CookieDrain, \* 50, 10
          Questions,                \* [operation, a, b, c] that challenges ask
          WordSize,                 \* 2^64
          ChallengeTtl,             \* 300 s
          VelocityWindow,           \* 10 s
          ManySamples, SomeSamples, FewSamples,   \* 100, 50, 20
          Pauses,                   \* how far the clock moves at once
          BotHorizon, MaxScored, MaxChallenges    \* bounds on the behaviours

\* Times are whole numbers; a and b are from 1000 to 99999 and c from 100 to 9999,
\* :193-195, far below 2^64 and with c below their product.
ASSUME BotAssumption ==
  /\ ChallengeTtl \in Nat /\ Pauses \subseteq Nat /\ WordSize \in Nat
  /\ \A q \in Questions :
       /\ q.operation \in 0 .. 3
       /\ q.a \in Nat /\ q.b \in Nat /\ q.c \in Nat \ {0}
       /\ q.a * q.b + q.c < WordSize /\ (q.a + q.b) * q.c < WordSize
       /\ q.c <= q.a * q.b
  \* a name comes with every name it contains
  /\ \A ua \in UserAgents :
       ua \cap {"googleother-image", "googleother-video"} # {} => "googleother" \in ua

VARIABLES hour,               \* the clock
          challenges,         \* in order of their making
          active_challenges,  \* by session, 0 for none
          request_history,    \* the times of the requests of one IP
          cookie_registry,    \* by session
          scored              \* the client just scored: empty or a set of one

botVars == <<hour, challenges, active_challenges, request_history, cookie_registry, scored>>

BotInit ==
  /\ hour = 0
  /\ challenges = <<>>
  /\ active_challenges = [s \in Sessions |-> 0]
  /\ request_history = <<>>
  /\ cookie_registry = [s \in Sessions |-> <<>>]
  /\ scored = {}

----------------------------------------------------------------------------
(* What a client looks like.                                                *)

NavigatorProperties ==
  {"webdriver", "__webdriver_evaluate", "__selenium_evaluate", "__driver_evaluate",
   "__fxdriver_evaluate", "__webdriverfunc", "_selenium_ide_recorder", "_selenium",
   "callselenium", "calledselenium"}

\* is_headless_browser, :344-376.
IsHeadless(ua, headers) ==
  \/ "headless" \in ua
  \/ ua \cap NavigatorProperties # {}
  \/ "mozilla" \in ua /\ headers \cap {"accept-language", "sec-ch-ua"} = {}

AiNames ==
  {"chatgpt-user", "gptbot", "oai-searchbot", "claudebot", "claude-web", "anthropic-ai",
   "gemini", "google-extended", "googleother", "perplexitybot", "copilot", "ccbot",
   "facebookexternalhit", "bytespider", "omgili", "panscient", "peer39", "grapeshot",
   "semrush", "ahrefsbot", "dotbot", "rogerbot", "petalbot", "mj12bot"}

ToolNames ==
  {"selenium", "webdriver", "puppeteer", "playwright", "phantomjs", "phantom", "nightmare",
   "cypress", "electron", "curl", "wget", "libwww", "zgrab", "masscan", "nmap",
   "go-http-client", "python-requests", "python-urllib", "okhttp"}

\* detect_ai_bot, :378-415, and detect_automation_tool, :417-465.
IsAiBot(ua) == ua \cap AiNames # {}
IsTool(ua, headers) == ua \cap ToolNames # {} \/ "HeadlessChrome" \in headers

Pattern(names, confidence, category) ==
  [names |-> names, confidence |-> confidence, category |-> category]

\* KNOWN_PATTERNS, :87-160; the confidence in percent.
KnownPatterns ==
  <<Pattern({"headlesschrome", "headless", "puppeteer"}, 95, "headless_browser"),
    Pattern({"playwright", "com.microsoft.playwright"}, 95, "headless_browser"),
    Pattern({"selenium", "webdriver"}, 92, "automation_tool"),
    Pattern({"chatgpt-user", "gptbot", "chatgpt", "oai-searchbot"}, 97, "ai_bot"),
    Pattern({"claude-web", "claudebot", "anthropic-ai", "claude"}, 97, "ai_bot"),
    Pattern({"gemini", "google-extended", "googleother-image", "googleother-video"},
            94, "ai_bot"),
    Pattern({"perplexitybot", "perplexity-user"}, 95, "ai_bot"),
    Pattern({"copilot", "bingpreview", "bingbot"}, 90, "ai_bot"),
    Pattern({"mozilla/5.0 (x11; linux x86_64)", "mozilla/5.0 (windows nt 10.0; win64; x64)"},
            15, "headless_browser"),
    Pattern({"missing_accept_language", "missing_accept_encoding", "missing_sec_fetch"},
            70, "automation_tool")>>

Points(condition, points) == IF condition THEN points ELSE 0

\* detect_browser_inconsistency, :467-559.
Inconsistency(ua, headers) ==
  LET lacks(h) == h \notin headers
      browser == "mozilla" \in ua /\ ua \cap {"bot", "spider"} = {}
      chrome == ua \cap {"chrome", "chromium", "edg"} # {}
      foreign(name, lang) == name \in ua /\ ~lacks("accept-language") /\ lacks(lang)
      missing == Points(lacks("accept-language"), 300) + Points(lacks("accept-encoding"), 150)
                   + Points(lacks("accept"), 100)
                   + Points(chrome /\ lacks("sec-ch-ua"), 200)
                   + Points(chrome /\ headers \cap {"sec-fetch-site", "sec-fetch-mode",
                                                    "sec-fetch-dest"} = {}, 250)
                   + Points("firefox" \in ua /\ lacks("gzip"), 100)
      total == Points(browser, missing) + Points(foreign("zh-cn", "lang-zh"), 100)
                 + Points(foreign("ja", "lang-ja"), 100) + Points(foreign("ko", "lang-ko"), 100)
  IN  IF total > 1000 THEN 1000 ELSE total

----------------------------------------------------------------------------
(* analyze_request_velocity, :561-617.                                      *)

Recent(history) == SelectSeq(history, LAMBDA s : hour - s < VelocityWindow)
Sampled(history) == Append(Recent(history), hour)

\* The bands of the mean interval: below 10, 50, 100 and 500 ms.
Velocity(times) ==
  LET count == Len(times)
      spread == times[count] - times[1]   \* the sum of the intervals
      below(interval) == spread < interval * (count - 1)
  IN  CASE count < 3 -> 0
        [] count > ManySamples -> 1000
        [] count \in 3 .. ManySamples /\ below(50) ->
             IF below(1) THEN 1000 ELSE IF below(5) THEN 900 ELSE IF below(10) THEN 700 ELSE 400
        [] OTHER -> IF count > SomeSamples THEN 600 ELSE IF count > FewSamples THEN 300 ELSE 0

----------------------------------------------------------------------------
(* calculate_bot_score, :269-342.                                           *)

\* The weight of every indicator, in thousandths, and 0 for one that is not found.
Weights(client) ==
  LET ua == client.ua
      inconsistency == Inconsistency(ua, client.headers)
      pattern(i) == Points(ua \cap KnownPatterns[i].names # {}, 5 * KnownPatterns[i].confidence)
  IN  <<Points(IsHeadless(ua, client.headers), 850),
        Points(IsAiBot(ua), 900),
        Points(IsTool(ua, client.headers), 880),
        Points(inconsistency > 500, (inconsistency * 6) \div 10),
        Points(client.velocity > 600, (client.velocity * 4) \div 10),
        pattern(1), pattern(2), pattern(3), pattern(4), pattern(5),
        pattern(6), pattern(7), pattern(8), pattern(9), pattern(10)>>

Sum(weights) == FoldLeft(LAMBDA total, w : total + w, 0, weights)
Found(weights) == Sum([i \in DOMAIN weights |-> Points(weights[i] > 0, 1)])

\* Faulty variant: the weakest indicators are left out of the sum but counted.
IsBotUnweighted(client) ==
  LET weights == Weights(client)
  IN  Sum([i \in DOMAIN weights |-> Points(weights[i] > 500, weights[i])]) > 500 * Found(weights)

\* The probability, which is a mean, and is_bot, :327 and :28-32.
IsBot(client) == Sum(Weights(client)) > 500 * Found(Weights(client))

CalculateBotScore(ua, headers) ==
  /\ Len(request_history) < MaxScored
  /\ request_history' = Sampled(request_history)
  /\ scored' = {[ua |-> ua, headers |-> headers, velocity |-> Velocity(request_history')]}
  /\ UNCHANGED <<hour, challenges, active_challenges, cookie_registry>>

----------------------------------------------------------------------------
(* The challenges, :190-267.                                                *)

\* What a browser finds that evaluates the question.
Value(q) ==
  CASE q.operation = 0 -> q.a * q.b + q.c
    [] q.operation = 1 -> (q.a + q.b) * q.c
    [] q.operation = 2 -> q.a * q.b - q.c
    [] q.operation = 3 -> (q.a - q.b) * q.c

\* Faulty variant: the operations are taken in another order.
SolutionReordered(q) ==
  IF q.operation = 0 THEN (q.a * (q.b + q.c)) % WordSize ELSE Value(q) % WordSize

\* The solution kept, in unsigned words, :197-215.
Solution(q) ==
  CASE q.operation = 0 -> (((q.a * q.b) % WordSize) + q.c) % WordSize
    [] q.operation = 1 -> (((q.a + q.b) % WordSize) * q.c) % WordSize
    [] q.operation = 2 -> (((q.a * q.b) % WordSize) - q.c) % WordSize
    [] q.operation = 3 -> (((q.a - q.b) % WordSize) * q.c) % WordSize

\* :190-244; a challenge is known by its place, as its id is drawn at random.
GenerateChallenge(session, q) ==
  /\ Len(challenges) < MaxChallenges
  /\ challenges' = Append(challenges, [question |-> q, solution |-> Solution(q),
                                       issued_at |-> hour, expires_at |-> hour + ChallengeTtl])
  /\ active_challenges' = [active_challenges EXCEPT ![session] = Len(challenges) + 1]
  /\ scored' = {}
  /\ UNCHANGED <<hour, request_history, cookie_registry>>

\* validate_challenge, :246-267; nothing is removed, not even what has expired.
ValidateChallenge(id, answer) ==
  hour <= challenges[id].expires_at /\ challenges[id].solution = answer

----------------------------------------------------------------------------
(* The cookies, :619-637.                                                   *)

TrackCookie(session, cookie) ==
  /\ LET known == cookie_registry[session]
         grown == IF cookie \in ToSet(known) THEN known ELSE Append(known, cookie)
     IN  cookie_registry' = [cookie_registry EXCEPT ![session] =
           IF Len(grown) > CookieLimit THEN SubSeq(grown, CookieDrain + 1, Len(grown)) ELSE grown]
  /\ scored' = {}
  /\ UNCHANGED <<hour, challenges, active_challenges, request_history>>

Pause(length) ==
  /\ hour + length <= BotHorizon
  /\ hour' = hour + length
  /\ scored' = {}
  /\ UNCHANGED <<challenges, active_challenges, request_history, cookie_registry>>

(* The clients and the sessions share no table, and no operation reads both.  *)
ClientNext ==
  \/ \E ua \in UserAgents, headers \in HeaderSets : CalculateBotScore(ua, headers)
  \/ \E length \in Pauses : Pause(length)

SessionNext ==
  \/ \E session \in Sessions : \/ \E q \in Questions : GenerateChallenge(session, q)
                               \/ \E cookie \in Cookies : TrackCookie(session, cookie)
  \/ \E length \in Pauses : Pause(length)

BotNext == ClientNext \/ SessionNext

BotSpec == BotInit /\ [][BotNext]_botVars

----------------------------------------------------------------------------
(* Properties.                                                              *)

\* The score is a mean, so that a weak indicator lowers it.  Whatever else it names,
\* a client that names an AI bot or a tool is still taken for a bot, with three
\* exceptions: a name of "generic_headless" (:142) or "missing_headers" (:151), a
\* hurry together with headers that do not fit, and a hurry together with the
\* names of more than four known patterns.
NamedBotsFound ==
  \A client \in scored :
    LET matched == {i \in DOMAIN KnownPatterns : client.ua \cap KnownPatterns[i].names # {}}
    IN  IsAiBot(client.ua) \/ IsTool(client.ua, client.headers) =>
          \/ IsBot(client)
          \/ matched \cap {9, 10} # {}
          \/ /\ client.velocity > 600
             /\ Inconsistency(client.ua, client.headers) > 500 \/ Cardinality(matched) > 4

\* A browser that evaluates the question is believed until the challenge expires,
\* with one exception: a difference below zero wraps around (:213), and no browser
\* finds the same.
ChallengeAnswered ==
  \A id \in DOMAIN challenges :
    LET q == challenges[id].question
    IN  ValidateChallenge(id, Value(q))
          <=> hour <= challenges[id].issued_at + ChallengeTtl /\ ~(q.operation = 3 /\ q.a < q.b)
=============================================================================
