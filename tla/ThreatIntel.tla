----------------------------- MODULE ThreatIntel -----------------------------
(***************************************************************************)
(* ThreatIntelligence (src/engine/threat_intel.rs): the feeds, the cache   *)
(* of scores with its time to live, and the rules made from the scores.    *)
(*                                                                         *)
(* Checks, changes of the feeds and synchronous updates are calls of tasks *)
(* on Workers threads.  The locks block the thread: whoever waits for the  *)
(* feeds, to read or to write, keeps its worker.  An asynchronous update   *)
(* keeps the feeds while it awaits fetches that need a worker (:127-161);  *)
(* the guard it holds cannot be sent to another thread, so it is no task   *)
(* of the workers and is driven by a thread that blocks on it.             *)
(*                                                                         *)
(* A subject is an IP or a domain; scores are in hundredths.  Of a domain  *)
(* a check may take the entry itself or its parent's (at 0.7), whichever   *)
(* the hash map yields first (:266-282).                                   *)
(***************************************************************************)
EXTENDS Integers, Sequences, FiniteSets, FiniteSetsExt, SequencesExt

CONSTANTS Feeds,            \* names
          Subjects,         \* IPs and domains that are asked for
          Parent,           \* the last two labels of a domain, NoEntry for an IP
          Documents,        \* what is at a URL: sequences of lines, an entry and its score
          UrlScheme,        \* of a feed: "file", "stub" or another
          Checkers,
          Writers,          \* the tasks that change or update the feeds
          Workers,
          CacheTtl,         \* DEFAULT_CACHE_TTL
          RuleThreshold,
          MaxRules, RulesDrained,                  \* 10000, 5000
          ThreatHorizon, MaxChecks, MaxUpdates, MaxFeedChanges,  \* bounds on the behaviours
          NoFeed, NoScore, NoCheck, NoWrite, NoEntry, Unparsed

\* DEFAULT_CACHE_TTL is not zero, :9.
ASSUME ThreatAssumption == CacheTtl \in Nat \ {0} /\ ThreatHorizon \in Nat

VARIABLES second,
          feeds,            \* the content of a feed, NoFeed for a name not there
          score_cache,      \* by subject
          generated_rules,
          check,            \* what a checker is at, or NoCheck
          waiting,          \* what a writer waits for the feeds to do, or NoWrite
          update,           \* [state, todo, fetched] of the update under way
          checks, updates, feedChanges,   \* so far
          means,            \* history: the scores the feeds gave a subject at a time
          answered          \* the last answer: empty or a set of one

threatVars == <<second, feeds, score_cache, generated_rules, check, waiting, update, checks,
                updates, feedChanges, means, answered>>
tally == <<checks, updates, feedChanges>>

Idle == [state |-> "idle", todo |-> {}, fetched |-> {}]

----------------------------------------------------------------------------
(* A document, :413-447: comments and lines without a comma name no entry.  *)

Entries == Subjects \cup (Range(Parent) \ {NoEntry})

\* A number is clamped to 0.0 .. 1.0 (NaN is left out), and what is none counts 0.8.
LineScore(line) ==
  CASE line.score = Unparsed -> 80
    [] line.score > 100 -> 100
    [] line.score < 0 -> 0
    [] OTHER -> line.score

\* The score of every entry, empty or a set of one; the last line of an entry counts.
ParseFeedContent(lines) ==
  [e \in Entries |-> LET own == {i \in DOMAIN lines : lines[i].entry = e}
                     IN  IF own = {} THEN {} ELSE {LineScore(lines[Max(own)])}]

Empty == ParseFeedContent(<<>>)

\* :163-179 and :449-461: what a fetch may return.  There is no client for other
\* schemes, whose feeds come back empty; a file may not be readable.
Fetched(f) ==
  IF UrlScheme[f] \in {"file", "stub"} THEN {ParseFeedContent(d) : d \in Documents} ELSE {Empty}
FetchFails(f) == UrlScheme[f] = "file"

----------------------------------------------------------------------------
(* The score of a subject, :199-215 and :262-289: the mean over the feeds   *)
(* that know it, kept as the sum and the count.                             *)

ScoresOf(content, s) ==
  content[s] \cup (IF Parent[s] = NoEntry THEN {} ELSE {(7 * x) \div 10 : x \in content[Parent[s]]})

Knowing(fs, s) == {f \in Feeds : fs[f] # NoFeed /\ ScoresOf(fs[f], s) # {}}

Means(fs, s) ==
  LET known == Knowing(fs, s)
      picks == {p \in [known -> UNION {ScoresOf(fs[f], s) : f \in known}] :
                  \A f \in known : p[f] \in ScoresOf(fs[f], s)}
  IN  IF known = {} THEN {}
      ELSE {[sum |-> MapThenSumSet(LAMBDA f : p[f], known), count |-> Cardinality(known)] : p \in picks}

Noted(fs, time) == [means EXCEPT ![time] = [s \in Subjects |-> @[s] \cup Means(fs, s)]]

ThreatInit ==
  /\ second = 0
  /\ feeds = [f \in Feeds |-> NoFeed]
  /\ score_cache = [s \in Subjects |-> NoScore]
  /\ generated_rules = <<>>
  /\ check = [c \in Checkers |-> NoCheck]
  /\ waiting = [w \in Writers |-> NoWrite]
  /\ update = Idle
  /\ checks = 0 /\ updates = 0 /\ feedChanges = 0
  /\ means = [u \in 0 .. ThreatHorizon |-> [s \in Subjects |-> {}]]
  /\ answered = {}

----------------------------------------------------------------------------
(* Locks and workers.                                                       *)

\* Faulty variant: the feeds are let go before the score is stored.
ReadersReleased == {}

Readers == {c \in Checkers : check[c] # NoCheck /\ check[c].at = "store"}
Writing == update.state \in {"sync", "async"}
FeedsFree == Readers = {} /\ ~Writing

Busy == {c \in Checkers : check[c] # NoCheck}
Waiting == {w \in Writers : waiting[w] # NoWrite}
Occupied == Cardinality(Busy) + Cardinality(Waiting) + (IF update.state = "sync" THEN 1 ELSE 0)
WorkerFree == Occupied < Workers

----------------------------------------------------------------------------
(* check_ip, :181-239, check_domain, :241-314, and, with makesRule,         *)
(* generate_rules_from_detections, :364-392.                                *)

BeginCheck(c, s, makesRule) ==
  /\ makesRule => Parent[s] = NoEntry
  /\ check[c] = NoCheck /\ WorkerFree /\ checks < MaxChecks
  /\ checks' = checks + 1
  /\ check' = [check EXCEPT ![c] = [at |-> "cache", subject |-> s, makesRule |-> makesRule,
                                    score |-> NoScore]]
  /\ answered' = {}
  /\ UNCHANGED <<second, feeds, score_cache, generated_rules, waiting, update, updates,
                 feedChanges, means>>

Fresh(entry) == second - entry.cached_at < CacheTtl

Concluded(ck, score) ==
  IF ck.makesRule THEN [ck EXCEPT !.at = "rules", !.score = score] ELSE NoCheck

\* The answer goes to the caller, or on to the rules.
Return(c, score) ==
  /\ check' = [check EXCEPT ![c] = Concluded(@, score)]
  /\ answered' = {[subject |-> check[c].subject, score |-> score]}

\* :184-192.
ReadCache(c) ==
  /\ check[c] # NoCheck /\ check[c].at = "cache"
  /\ LET entry == score_cache[check[c].subject]
         hit == entry # NoScore /\ Fresh(entry)
     IN  \/ hit /\ Return(c, entry.score)
         \/ /\ ~hit
            /\ check' = [check EXCEPT ![c].at = "feeds"]
            /\ answered' = {}
  /\ UNCHANGED <<second, feeds, score_cache, generated_rules, waiting, update, tally, means>>

\* :194-215; the read lock of the feeds is kept to the end, and no score is no entry.
ReadFeeds(c) ==
  /\ check[c] # NoCheck /\ check[c].at = "feeds"
  /\ ~Writing
  /\ LET scores == Means(feeds, check[c].subject)
     IN  \/ scores = {} /\ Return(c, NoScore)
         \/ /\ \E score \in scores :
                 check' = [check EXCEPT ![c].at = "store", ![c].score = score]
            /\ answered' = {}
  /\ UNCHANGED <<second, feeds, score_cache, generated_rules, waiting, update, tally, means>>

\* :228-238.
StoreScore(c) ==
  /\ check[c] # NoCheck /\ check[c].at = "store"
  /\ score_cache' = [score_cache EXCEPT
       ![check[c].subject] = [score |-> check[c].score, cached_at |-> second]]
  /\ Return(c, check[c].score)
  /\ UNCHANGED <<second, feeds, generated_rules, waiting, update, tally, means>>

\* :366-391; a rule is known by its subject and its score.
MakeRule(c) ==
  /\ check[c] # NoCheck /\ check[c].at = "rules"
  /\ LET score == check[c].score
         rule == <<check[c].subject, score>>
         wanted == score # NoScore /\ score.sum >= RuleThreshold * score.count
         grown == IF wanted /\ ~Contains(generated_rules, rule)
                  THEN Append(generated_rules, rule) ELSE generated_rules
     IN  generated_rules' = IF Len(grown) > MaxRules
                            THEN SubSeq(grown, RulesDrained + 1, Len(grown)) ELSE grown
  /\ check' = [check EXCEPT ![c] = NoCheck]
  /\ answered' = {}
  /\ UNCHANGED <<second, feeds, score_cache, waiting, update, tally, means>>

----------------------------------------------------------------------------
(* The feeds are changed or updated: add_feed, :61-83, remove_feed, :85-94, *)
(* update_feeds, :96-124, and update_feeds_async, :127-161.                 *)

Added(f) == [op |-> "add", feed |-> f]
Removed(f) == [op |-> "remove", feed |-> f]
Updated == [op |-> "sync"]

\* :62, :86, :98: the worker is kept until the feeds are free.
BeginWrite(w, request) ==
  /\ waiting[w] = NoWrite /\ WorkerFree
  /\ IF request = Updated
     THEN updates < MaxUpdates /\ updates' = updates + 1 /\ UNCHANGED feedChanges
     ELSE feedChanges < MaxFeedChanges /\ feedChanges' = feedChanges + 1 /\ UNCHANGED updates
  /\ waiting' = [waiting EXCEPT ![w] = request]
  /\ answered' = {}
  /\ UNCHANGED <<second, feeds, score_cache, generated_rules, check, update, checks, means>>

\* The writer that asked for the write has the feeds.
Granted(w, request) ==
  /\ waiting[w] = request /\ FeedsFree
  /\ waiting' = [waiting EXCEPT ![w] = NoWrite]
  /\ answered' = {}

ChangeFeed(w, request, f, content) ==
  /\ Granted(w, request)
  /\ feeds' = [feeds EXCEPT ![f] = content]
  /\ means' = Noted(feeds', second)
  /\ UNCHANGED <<second, score_cache, generated_rules, check, update, tally>>

\* A feed that is there already is left as it is, :63-68.
AddFeed(w, f) == ChangeFeed(w, Added(f), f, IF feeds[f] = NoFeed THEN Empty ELSE feeds[f])

\* The scores computed from the feed stay in the cache.
RemoveFeed(w, f) == ChangeFeed(w, Removed(f), f, NoFeed)

Started(state) == [state |-> state, todo |-> {f \in Feeds : feeds[f] # NoFeed}, fetched |-> {}]

BeginUpdate(w) ==
  /\ Granted(w, Updated)
  /\ update' = Started("sync")
  /\ UNCHANGED <<second, feeds, score_cache, generated_rules, check, tally, means>>

\* :129-147, on a thread of its own.
BeginUpdateAsync ==
  /\ FeedsFree /\ updates < MaxUpdates
  /\ updates' = updates + 1
  /\ update' = Started("async")
  /\ answered' = {}
  /\ UNCHANGED <<second, feeds, score_cache, generated_rules, check, waiting, checks, feedChanges,
                 means>>

\* Faulty variant: a fetch looks its feed up in the table that the update has locked.
FetchSyncLocking(f) ==
  /\ update.state = "sync" /\ f \in update.todo /\ FeedsFree
  /\ update' = [update EXCEPT !.todo = @ \ {f}]
  /\ \E content \in Fetched(f) : feeds' = [feeds EXCEPT ![f] = content]
  /\ means' = Noted(feeds', second)
  /\ answered' = {}
  /\ UNCHANGED <<second, score_cache, generated_rules, check, waiting, tally>>

\* :105-120 and :163-179.  A fetch that fails leaves the feed as it is.
FetchSync(f) ==
  /\ update.state = "sync" /\ f \in update.todo
  /\ update' = [update EXCEPT !.todo = @ \ {f}]
  /\ \/ \E content \in Fetched(f) : feeds' = [feeds EXCEPT ![f] = content]
     \/ FetchFails(f) /\ UNCHANGED feeds
  /\ means' = Noted(feeds', second)
  /\ answered' = {}
  /\ UNCHANGED <<second, score_cache, generated_rules, check, waiting, tally>>

\* The task spawned at :137 needs a worker.
FetchAsync(f) ==
  /\ update.state = "async" /\ f \in update.todo /\ WorkerFree
  /\ update' = [update EXCEPT !.todo = @ \ {f}, !.fetched = @ \cup {f}]
  /\ answered' = {}
  /\ UNCHANGED <<second, feeds, score_cache, generated_rules, check, waiting, tally, means>>

\* :149-158, when the update is woken.
JoinFetch(f) ==
  /\ update.state = "async" /\ f \in update.fetched
  /\ update' = [update EXCEPT !.fetched = @ \ {f}]
  /\ \/ \E content \in Fetched(f) : feeds' = [feeds EXCEPT ![f] = content]
     \/ FetchFails(f) /\ UNCHANGED feeds
  /\ means' = Noted(feeds', second)
  /\ answered' = {}
  /\ UNCHANGED <<second, score_cache, generated_rules, check, waiting, tally>>

\* :123 and :160.
EndUpdate ==
  /\ Writing /\ update.todo = {} /\ update.fetched = {}
  /\ update' = Idle
  /\ answered' = {}
  /\ UNCHANGED <<second, feeds, score_cache, generated_rules, check, waiting, tally, means>>

----------------------------------------------------------------------------
(* The other operations.                                                    *)

\* :398-400.
ClearScores ==
  /\ \E s \in Subjects : score_cache[s] # NoScore
  /\ score_cache' = [s \in Subjects |-> NoScore]
  /\ answered' = {}
  /\ UNCHANGED <<second, feeds, generated_rules, check, waiting, update, tally, means>>

ThreatTick ==
  /\ second < ThreatHorizon
  /\ second' = second + 1
  /\ means' = Noted(feeds, second + 1)
  /\ answered' = {}
  /\ UNCHANGED <<feeds, score_cache, generated_rules, check, waiting, update, tally>>

CheckStep(c) == ReadCache(c) \/ ReadFeeds(c) \/ StoreScore(c) \/ MakeRule(c)
SomeFetched == \E f \in Feeds : FetchAsync(f)
UpdateStep == \E f \in Feeds : FetchSync(f) \/ JoinFetch(f)
WriterStep(w) ==
  \/ \E f \in Feeds : BeginWrite(w, Added(f)) \/ BeginWrite(w, Removed(f))
  \/ \E f \in Feeds : AddFeed(w, f) \/ RemoveFeed(w, f)
  \/ BeginWrite(w, Updated) \/ BeginUpdate(w)

ThreatNext ==
  \/ \E c \in Checkers : CheckStep(c) \/ \E s \in Subjects, r \in BOOLEAN : BeginCheck(c, s, r)
  \/ \E w \in Writers : WriterStep(w)
  \/ BeginUpdateAsync \/ SomeFetched \/ UpdateStep \/ EndUpdate
  \/ ClearScores \/ ThreatTick

ThreatSpec == ThreatInit /\ [][ThreatNext]_threatVars

\* A task on a worker runs on, and so does the thread of an asynchronous update.  A
\* worker that is free takes a task that is ready in the order of a queue, so that
\* a fetch has its turn although workers are free only from time to time.
ThreatFairness ==
  /\ \A c \in Checkers : WF_threatVars(CheckStep(c))
  /\ SF_threatVars(SomeFetched)
  /\ WF_threatVars(UpdateStep)
  /\ WF_threatVars(EndUpdate)

----------------------------------------------------------------------------
(* Properties.                                                              *)

\* An answer is a score that the feeds gave at some moment of the last CacheTtl
\* seconds, however checks, updates and removals of feeds fall: the feeds stay
\* locked from the reading of the scores until they are in the cache (:228).
AnswersFresh ==
  \A a \in answered : a.score # NoScore =>
    \E u \in 0 .. second : second - u < CacheTtl /\ a.score \in means[u][a.subject]

\* Fetches are left to an asynchronous update, and every worker is taken by a task
\* that waits for the feeds: a check to read them, the others to write them.
Starved ==
  /\ update.state = "async" /\ update.todo # {}
  /\ Occupied = Workers
  /\ \A c \in Busy : check[c].at = "feeds"

\* An update lets go of the feeds in the end, with one exception: an asynchronous
\* one does not when tasks that wait for the feeds hold all the workers (:127).
UpdateEnds == Writing ~> ~Writing \/ Starved
=============================================================================
