# A TLA+ verification of AEGIS-WAF

AEGIS-WAF (`src/`) is a web application firewall in Rust: a tokio accept loop in
front of a pipeline of detection engines, each with its own lock-protected
tables. This directory models its concurrent and stateful parts in TLA+, checks
them on small instances with TLC and proves the central properties for every
instance with TLAPS. Paths below are relative to `src/src/` unless they start
with `docs/`.

    tlc -workers 2 -config MCNetworkServer.cfg MCNetworkServer
    tlapm NetworkServer_proof.tla        # and the other *_proof modules

## 1. Inventory

| Part | State | Operations | What makes it hard |
|---|---|---|---|
| `ConnectionTracker` (`io/network.rs:59-121`) | map `active`, atomic `count` | `try_add`, `remove`, `active_count` | the counter is read outside the lock of the map; one lock taken twice |
| `NetworkStack::start_server` (`:178-271`) | a `select!` of accept, `Notify`, OS signal | accept and spawn, backoff, signal, drain | lost notifications; handlers a timeout cuts off, or cannot |
| Pipeline (`:325-527`) | none of its own | one request through all engines | other requests run between any two engines; a panic takes everybody down |
| `ResponseEngine` (`engine/response_engine.rs`) | escalation state per client, recent decisions | `evaluate_threat`, `escalate_response`, `reset_escalation` | windows and blocks that expire; a clock read before the lock |
| `RateLimiter` (`engine/rate_limiter.rs:448-681`) | a bucket for the server, each IP, session, endpoint | `check_rate`, `check_rate_with_scope`, refills, thresholds, reset | one check spans four locks and undoes part of its work |
| `DistributedRateLimiter` (`:178-446`) | a table of buckets, adaptive thresholds | as above, and eviction | several buckets without undo; eviction of idle buckets |
| `IngressFilter` (`engine/ingress_filter.rs`) | connection table, per-IP counts, block list | `validate_packet`, `is_connection_allowed`, register, remove, clean-up | a count kept apart from the table it counts; fixed windows |
| `BehavioralAnalyzer` (`engine/behavioral_analyzer.rs`) | path sequence, transitions, history; samples, baseline, hours | `track_request_sequence`, `check_pattern_deviation`; `record_sample`, `score_anomaly` | locks taken in two orders; a sample recorded before it is scored |
| `ThreatIntelligence` (`engine/threat_intel.rs`) | feeds, score cache, rules | add, remove, update feeds; `check_ip`, `check_domain` | a cache that outlives its source; a lock held across an await |
| `BotDetector` (`engine/bot_detector.rs`) | challenges, request history, cookies | score, challenge, validate, velocity | a mean over indicators; wrapping arithmetic; expiry |
| `ProtocolValidator` (`engine/protocol_validator.rs`) | none | validate a request, or headers alone | two implementations of one rule |
| `DpiEngine` (`engine/dpi_engine.rs`) | none | scan a payload, a URL; decode | slices at byte positions |
| `SecretManager` (`security/secrets.rs`) | master key, key versions, secrets | load, store, rotate, remove | three locks in different orders; versions |
| `AuditLogger` (`security/audit.rs`) | id counter, open file, files of other days | log, rotate, query | restart, order of ids, retention against the open file |
| `QuicHandler` (`io/quic_handler.rs`) | handshake counter, connections | accept loop, handshake, shutdown | the limit ends the loop; closing races handshakes |
| `TlsHandler`, `metrics`, `config`, `error`, `cli`, `analytics`, `main` | counters, settings | certificates, printing, parsing | pure I/O |

The engines do not call each other: the pipeline calls them one after the other
and hands what they found to `ResponseEngine::evaluate_threat`. All connections
share one `AppState`, so any two requests interleave at every lock. The process
keeps nothing on disk but the audit log. The release profile aborts on panic
(`Cargo.toml`), so a panic in one request ends all of them (`InspectPanics`).

What makes each part correct:

* tracker: the counter equals the map, no slot is leaked, never more than
  `max_connections` admitted; every connection is disposed of;
* pipeline: what is served stays within the limits whatever else is found, a
  block reaches requests already under way, every request gets through the locks on
  its way and is answered;
* response engine: a block stands until it ends, is earned, and is not given
  twice for the same violations;
* rate limiters: no bucket ever pays for more than its rate and one bucketful, and
  eviction does not change that;
* ingress filter: an IP overshoots its limit by the packets under way at most;
* validator: what passes is framed in one way only; where its two entry points differ;
* DPI: a text is scanned as it was before the client encoded it;
* bot detector: a client that names a bot is found, an honest answer believed;
* threat intelligence: a score reflects feeds as they were within the cache's life;
* analyzer, secrets, updates of feeds: every call returns;
* secrets: what is stored can be read again, the master key is the latest version;
* audit: no event logged with success is lost, and no id a restart can see is given
  again;
* QUIC: the handshake counter is exact, closing empties the table.

`PROJECT.json` lists every part, and under `hazards` the lines where a test
would hardly reach what can go wrong.

## 2. Plan

1. **Done.** `ConnectionAdmission` (abstract), `ConnectionTracker`,
   `NetworkServer` (extends the tracker with the accept loop), their refinement
   and proofs; `ResponseEngine` and its proofs; `RateLimiter` and its proofs;
   `BehavioralAnalyzer` (path tables and lock order) and its proofs.
2. **Done.** `IngressFilter`, `DistributedRateLimiter`, `BotDetector`,
   `ProtocolValidator`, `DpiEngine` and `TrafficBaseline` (`MCEdge`); `SecretManager`,
   `ThreatIntel`, `AuditLogger`, `QuicHandler` (`MCServices`).
3. **Done.** `Pipeline`: the composition of validator, DPI engine, limiter,
   analyzer and response engine, step by step for several requests.
4. **Done.** Proofs: the pipeline implements the limiter and the response engine,
   and with them `ServedWithinRate` and `BlockReachesAll`; the ingress filter's
   `SynBudget` and `TableWithinLimit`; the distributed limiter's `BucketBudget` and
   `CreditConserved`; QUIC handler, secret manager, audit logger and threat
   intelligence (`Services_proof`).
5. **Done.** Proofs about what is computed over lists of any length, by lemmas on
   the folds: the two validations (`AcceptedFraming`, `EntryPointsAgree`), the
   percent-decoding (`DecodesWhatWasSent`), the mean of the bot detector
   (`NamedBotsFound`), the statistics of the traffic baseline (`OutliersReported`).
   With these every invariant and action property a passing run checks is proved.
6. **Left.** Type correctness of the variables the invariants of `Services_proof`
   leave open (updates of feeds, tracked addresses, files condemned); an abstract
   log that `AuditLogger` implements between two restarts.

## 3. Modules

| Module | Models |
|---|---|
| `ConnectionAdmission` | the promise: a set of at most `MaxConnections` connections |
| `ConnectionTracker` | `try_add`/`remove` under the spawned tasks |
| `NetworkServer` | accept loop, signal, notification, drain |
| `NetworkServer_proof` | proofs of both, and of the refinement |
| `ResponseEngine`, `ResponseEngine_proof` | escalation and blocks |
| `RateLimiter`, `RateLimiter_proof` | token buckets |
| `BehavioralAnalyzer`, `BehavioralAnalyzer_proof` | path sequence, transitions and their locks |
| `TrafficBaseline` | samples, their baseline and hours, the scores drawn from them |
| `Pipeline`, `Pipeline_proof` | a request through `ProtocolValidator`, `RateLimiter`, `DpiEngine`, `BehavioralAnalyzer`, `ResponseEngine` |
| `ProtocolValidator`, `DpiEngine` | the two engines without state, as operators |
| `Inspection`, `Inspection_proof` | these two, given one input each; lemmas on folds |
| `IngressFilter` | packets through both checks, the table and the counts |
| `DistributedRateLimiter` | the table of buckets, with eviction |
| `BotDetector` | scores, challenges, velocity, cookies |
| `ThreatIntel` | feeds, cache, rules, workers |
| `SecretManager` | keys, versions, secrets and their three locks |
| `AuditLogger` | ids, files of the days, restart |
| `QuicHandler` | accept loop, handshakes, table of connections |
| `Edge_proof` | proofs of `IngressFilter`, `DistributedRateLimiter`, `BotDetector` and `TrafficBaseline` |
| `Services_proof` | proofs of `QuicHandler`, `SecretManager`, `AuditLogger` and `ThreatIntel` |
| `MC*` | finite instances; `MCEdge` and `MCServices` explore several independent components, one from each initial state |

Definitions commented "Faulty variant" are used by no specification: each is a
plausible bug in one definition, kept to confirm that a property notices it.

**ConnectionTracker.** `active` holds the keys of the map, `count` the atomic,
`lock` the task that is inside a critical section at rest, `pc` and `tuple` the
stage and connection of each spawned task. A step is what a task does between
two points at which another can see it: the unlocked load of `count`
(`RejectAtCheck`, `PassCheck`) and one critical section (`AlreadyTracked`,
`TrackNew`, `TrackOverLimit`, `Remove`). Critical sections that end are one
step; the one that does not is `TrackOverLimit`, which calls `remove` under its
own guard. `Accept` lets a 5-tuple come back once its socket is closed, even if
its first task has not called `remove` yet. Two live sockets never share a tuple;
a second one may therefore find the first one's entry, is then served untracked
(`AlreadyTracked`, as the code does), and `remove` runs twice. So
`max_connections` bounds the *tracked* connections, which is all that
`ImplementsAdmission` says.

**NetworkServer.** `loop` is where `start_server` is, `waiters` and `notified`
the one `Notified` future a `select!` holds, `signalled` the OS. `select!` drops
its other futures before a branch runs (`DropFutures`) and makes new ones on the
next iteration (`NewFutures`); `notify_waiters` reaches registered futures only.
`start_server` makes its `NetworkStack` itself and hands it to nobody, so its own
`notify_waiters` is the only one, and it comes when no future of the loop is
registered: no step sets `notified`, and the drain never begins. `BeginDrain` and
`Stop` are modelled all the same, in `DrainSpec`, for what the documentation says of
the drain and for `DrainNeverBegins`; `ServerSpec` has the steps that can happen.

A handler returns or fails, or its timeout finds it at an await (`Finish`). A thread
blocked in a `parking_lot` lock reaches no await: two handlers that hold the locks of
the analyzer crosswise are `"stuck"` (`Crosswise`), and so is whoever asks for these
locks later (`WaitsBehind`). They keep their slots and their threads for ever.

**ResponseEngine.** One call is one step, because each holds the write lock of
`escalation_states` throughout; the time `t` it uses was read before it waited
for the lock and may be up to `Lag` seconds older than `now`. The assumption
`Window + Lag < BlockSeconds` (300 s and 3600 s in the code) is the only one on
times. Wall-clock time is assumed not to go backwards. Scores are bands, reasons
are a signal and its band: the code's strings differ in just these, and only
distinct strings count as violations.

**RateLimiter.** `check_rate` is one step per lock: global, IP, session,
endpoint, then refund or second look. Tokens are counted in parts so that a tick
refills whole numbers; the rounding of `f64` is not modelled. `admitted` and
`given` are history variables: requests answered Allowed and tokens put in by
`refill_bucket` and `reset_ip`. Burst classification, counters and the moving
average are left out, since no decision reads them.

**BehavioralAnalyzer.** Each request runs `track_request_sequence`, then
`check_pattern_deviation`. A method that waits for a second lock keeps the first
across a step: `writer` is the request that has `path_sequence` and waits for
`path_transitions` (`"transition"`), `readers` those that have
`path_transitions` and wait for `path_sequence` (`"novelty"`). `previous` is the
`last_path` read under the lock. The history's own lock is always taken last and
is left out, as are the scores, of which nothing is stored.

**TrafficBaseline.** The statistics of the same struct, which share nothing with its
paths. `record_sample` takes its locks in two steps, `UpdateBaseline` and
`CountHour`; a baseline is kept as exact sums, and the shares of a score in
hundredths, rounded down. `recorded` is the history of all samples.

**Pipeline.** A request is `"reading"` while its body is awaited, then at the
`"rate"`, `"inspect"`, `"behave"` and `"decide"` stage; each is a step, so that other
requests, of the same client too, run in between. The limiter, the analyzer and the
response engine are instances of their modules over the pipeline's variables;
validator and DPI engine are operators. In `"behave"` a request takes the steps of the
analyzer (`Behave`), one lock each, and waits in it for others. Its path is any of
`Paths`. The bands of the bot, threat and anomaly scores come from the environment;
the locks behind the first two keep nobody waiting while the server runs (nothing calls
an update of the feeds), so both are part of `Score`. The decision of the ingress filter is thrown away
(`io/network.rs:451`), so nothing of it is left. What is validated is the *body*
(`:454`), which is a finding. The request timeout can fire only while the body is
awaited, because `run_pipeline` awaits nothing. A DPI slice that panics takes
the process down, `up = FALSE`.

**ProtocolValidator.** Operators named after the methods: `ValidateHttpRequest`
is what `httparse` makes of the bytes (the field `parse`, the only external part)
followed by every check in the order of the code, `ValidateHeaders` the other
entry point. A request is a record whose text is abstracted to what the checks
ask: length bands, the marks a path contains, header values as lists of codings.
Errors are pairs of kind and severity, the first `Reject` decides.

**DpiEngine.** A signature is known by its id, category and severity; which
texts match it is given with the text (`hits`), as is where the context of a match
cuts a character (`cut`). Percent-decoding is modelled character by character,
since a property is about it, and `scan_url` with the slice by the wrong position.

**IngressFilter.** A task sends a packet through `validate_packet` and then
`is_connection_allowed`; a step is one lock. `beside` counts the calls that part
the count from the table (register without check, removal of a missing key).

**DistributedRateLimiter.** A request runs through its keys one lock at a time;
`MaybeTidy` and `Evict` are the two locks of the clean-up. `taken` and `gifts`
are histories: units charged at each tick and put in by hand. `Deficit` is what
a bucket lacks of being full, 0 for one that is not there.

**BotDetector.** A user agent is the set of names it contains; scores are exact in
thousandths. `generate_challenge` keeps the question, so that a property can ask
what a browser that evaluates it would answer.

**ThreatIntel.** Checks, changes of the feeds and synchronous updates are calls of
tasks on `Workers` threads, because the locks block the thread: who waits for the feeds
keeps its worker, a reader (`"feeds"`) as well as a writer (`waiting`, from `BeginWrite`
to `Granted`). The asynchronous update holds a guard that is not `Send` across its
awaits, so it is no spawned task but runs on a thread that blocks on it; what it
needs workers for are its fetches, which are spawned. A feed's content is what
`parse_feed_content` makes of a document. `means` is the history of scores the
feeds gave.

**SecretManager.** A step is one lock; `holds` says who has which. A key is a
version and the rotation that made it. `Encrypted` labels every secret version 1,
as `security/crypto.rs:159` does.

**AuditLogger.** An id is drawn, the text written and the line ended in separate
steps; a write may fail between them and the process may end anywhere
(`Restart`). `LockFree` is the write lock of the file. The open file stays the
one of the day it was opened until it is too large (`RotateIfNeeded`). A write that
fails leaves nothing, a part of the text (`Half`), or one cut inside a character
(`Broken`): a line that is not UTF-8, at which `query_logs` fails (`QueryFails`, `:294`)
and `load_last_event_id` stops reading the file (`Before`, `:146`). `Found` is what a
query returns, `Seen` what a restart takes the largest id from. `acked` are the
events the callers were told of, until their file loses its name (`current.named`,
`RemoveFile`).

**QuicHandler.** The loop, one task per connection, and whoever closes the
endpoint. The `?` of `try_acquire` is `GiveUp`: the loop ends in error.

## 4. Runs

| Run | Instance | Shows |
|---|---|---|
| `server` | 3 tasks, 3 tuples, limit 2 | counter and map agree, no leaked slot, refinement, tasks end but for two ways to be blocked |
| `signal` | 2 tasks, limit 2, with the drain | violated: a signal never starts the drain |
| `overlimit` | 2 tasks, limit 1 | violated: the over-limit task never returns |
| `response` | 1 client, 5 contexts, threshold 3, window 1, block 3, lag 1, clock to 7 | blocks stand, are earned, are not repeated |
| `rate` | 2 checks, one key of each kind, burst 2, clock to 2 | buckets within burst, admissions within budget |
| `refund` | 1 check, limits 4 and 1, burst 5, clock to 2 | violated: a refund takes saved-up tokens |
| `analyzer` | 4 requests, 2 paths, sequence of 2, history of 2 | sequence, transitions and history agree; only crosswise locks keep a request |
| `crosswise` | 3 requests, 1 path | violated: two requests hold the locks crosswise |
| `pipeline` | 2 connections of 1 client, 3 requests, 5 bodies, 1 path, 2 scores, bucket of 1, threshold 1, clock to 1 | served within rate, a block reaches what is under way, only crosswise locks or an abort keep a request |
| `bodiless` | 1 connection, 3 requests | violated: a request without a body is answered 400 |
| `edge` | all requests of up to 3 of 16 headers and each fault of a request line; all texts of up to 3 bytes; 2 tasks with 3 packets, SYN threshold and limit 1; 2 callers, 3 keys, limits 1 and 2; 32 user agents with 4 header sets, 8 questions over words of 8 bits; 7 samples of 3 values, a window of 6 | one framing, where the entry points differ, decoding inverts encoding, SYN and connection limits, bucket budget, eviction unseen, named bots found, challenges answered, outliers reported |
| `services` | 3 QUIC connections, 2 handshakes; 1 feed, 3 documents, 2 checkers and 1 writer on 2 workers, 2 updates, 2 changes; 2 threads, 4 calls, 2 names; 2 loggers, 4 events, 2 failures or restarts, 2 days of which one is kept, files full with a line | handshakes counted, closing drains, answers fresh, updates end, secrets readable, master latest, calls end, events kept, which numbers are unique |

Why the bounds are enough to be interesting: three tasks for two slots are the
fewest for which two race for the last slot while a third removes, and with
which a tuple is removed twice. Clients do not share state in the response
engine, so one is enough; the clock lets a block end and a second begin, the
contexts reach every verdict, and a window is shorter than a block as in the
code. Two checks are enough for every pair of bucket operations to interleave;
two ticks fill a bucket to a burst of twice its capacity. Four requests make
three transitions, one more than the history of two keeps, and the sequence of
two overflows at the third path; one drained record at a time stands for the
code's 1000 of 10 000. The bounds `MaxClock`,
`MaxGift`, `MaxNow` only stop the clock and the gifts; the proofs do not depend
on their values.

In `pipeline` three requests of one client on two connections are the fewest for
which one is blocked while another is past the limiter and a third follows; a
threshold of 1 lets one body with several findings block. Framing faults need
two headers in a particular order, a third shows that a valid one in between hides
nothing; an escape is three bytes, so texts of three bytes hold a whole one and every
truncated one. Two tasks in the ingress filter are enough to pass a limit of 1
together. A limit of 2 units per tick and a horizon as long as `EvictAfter` lets a
bucket be emptied, evicted and made anew. Six samples are the fewest that count as a
range, a seventh lets the first leave the window. 8-bit words wrap where 64-bit words
do. Two rotations can overlap, and a load can meet one, with two threads; four
calls reach rotate, store, rotate, load. Two days with a retention of one day
let a file be removed while it is open; two failures let a restart find the
half or broken line of a failed write; a fourth event can get the number of one that
the restart did not see. Two workers are enough for two checks, or a check and a
writer, to starve an update. One path is enough in `pipeline`: the second request finds
the first one's and asks for both locks. The bounds on requests, packets, calls, events, changes and horizons only
stop the behaviours, which is why those runs do not check for deadlock.

**Fairness.** `server` and its two violation runs assume weak fairness of the steps the
runtime owes *while it runs*: a ready task is polled, a handler that waits at an await
ends at `request_timeout_ms` at the latest (`io/network.rs:232-244`), sleeps end, and a
ready branch of `select!` runs. Nothing is owed by clients, signals or accept errors.
Nothing is owed to anybody once a thread is blocked for ever (`Running`): it takes its
worker, the tasks queued there and perhaps the driver of timers and sockets with it.
`TasksEnd` therefore makes two exceptions, `OverLimitDeadlock` and `HandlersStuck`,
which are the findings of `overlimit` and `crosswise`.

`analyzer` and `crosswise` assume strong fairness of each request: parking_lot hands a
lock that is released again and again to everyone who waits for it. `RequestsPass`
makes the exception `LockCycle`, which is the finding of `crosswise`.

`pipeline` assumes weak fairness of the next step of each request and strong fairness
of its steps in the analyzer, for the same reason, as long as no `LockCycle` is there;
the body arrives or the timeout fires, and nothing else is awaited. `AnsweredOrAborted`
is thus about the locks a request meets: that only a cycle of two keeps it.

`services` assumes weak
fairness of every task of the QUIC handler that is ready, of checks that have a worker,
of the thread of an update, and of threads whose lock is free; and strong fairness of
the fetches, which are queued and have their turn when workers are free from time to time; nothing is owed by callers,
by those who close the endpoint or change feeds, or by the clock. Where a call can
really be kept for ever the property names that case: an asynchronous update
whose workers all wait for it, to read or to write the feeds (`Starved`), a rotation that asks for a lock it holds
(`SelfLocked`, `security/secrets.rs:237`) or meets a load
that has the lock it needs (`CrossLocked`). In the initial states that explore one
component no fair action of the others is enabled, so the fairness of a component
not explored constrains nothing.

### Findings

* `SignalStartsDrain` (`docs/CLI_GUIDE.md:230-231`): SIGINT and SIGTERM do not
  start the drain, and the drain is dead code (`io/network.rs:257-268`).
* `OverLimitAnswered`: `try_add` over the limit deadlocks on its own lock
  (`io/network.rs:101`); every later `try_add` and `remove` waits behind it.
* `RefundNeverTakes` (`docs/ARCHITECTURE.md:195`): the refund of the global token
  is capped at the capacity, not at the burst (`engine/rate_limiter.rs:138`).
* `RequestsAnswered` (`io/network.rs:241`): the two methods of the analyzer take
  two locks in opposite orders (`engine/behavioral_analyzer.rs:238`, `:283`); the
  timeout cannot end a request whose thread is blocked.
* `BodilessNotMalformed` (`tests/compliance_tests/owasp_top10.yaml:33-42`): the body
  of a request is validated as if it were the request (`io/network.rs:454`), so one
  without a body is answered 400.

Exceptions that properties spell out, because the code behaves so and we know of no
sentence in the repository that promises otherwise. Several are defects all the same,
and each is listed as a hazard:

* `SecretsReadable`: a secret stored after a rotation cannot be read back
  (`security/crypto.rs:159` labels it version 1).
* `MasterIsLatest`: two rotations that overlap may draw one version number.
* `CallsEnd`: a rotation that finds a secret waits for a lock it holds.
* `UpdateEnds`: an asynchronous update can starve (`engine/threat_intel.rs:127`).
* `EventsKept`: the event behind a part of a line is lost; one line that cannot be read
  makes every query fail (`security/audit.rs:294`); a file can be removed while it is
  still written to, and what is written to it then is lost.
* `NumbersUnique`: numbers on lines a restart cannot see are given again: those that
  do not parse, those behind one that cannot be read in their file
  (`security/audit.rs:146`), and those of files that are gone.
* `EntryPointsAgree`: `validate_headers` passes what the other entry point refuses for
  the value of a Transfer-Encoding, for the host or for a forbidden name, and never
  notes a chunked body.
* `OutliersReported`: steady traffic hides every outlier, and no drop is anomalous.
* `TableWithinLimit` bounds the table from above only: the count can run ahead of it
  (`engine/ingress_filter.rs:261`) and is not released with expired connections (`:426`).
* `CreditConserved`: `refill_bucket` forgets the time since the last check
  (`engine/rate_limiter.rs:263`).
* `NamedBotsFound`: the score is a mean, so weak indicators can bring a named bot below
  the threshold: a name of the two weakest patterns, or a hurry together with
  headers that do not fit or with more than four patterns.
* `ChallengeAnswered`: a difference below zero wraps, no browser finds the same.
* `DecodesWhatWasSent`: a text with a plus sign and no escape is not decoded, and
  `scan_url` panics on an escape before an empty query.
* `TasksEnd`: handlers blocked in the analyzer keep their slots and their workers; the
  timeout cannot end them.
* `AnsweredOrAborted`: a match next to a character of several bytes aborts the process.

## 5. Proofs

All proofs are checked by TLAPS for arbitrary constants that satisfy the
assumptions named in the modules. They say of the constants what types and
defaults of the code say, and TLC evaluates each on a run:

| Assumption | Of | Says |
|---|---|---|
| `TrackerAssumption` | tracker, server | a limit that is a natural, sentinels are not elements |
| `ContextAssumption`, `EngineAssumption` | response engine | shape of the contexts, `Window + Lag < BlockSeconds` |
| `KeysAssumption`, `LimitsAssumption` | rate limiter | keys of different kinds differ, finitely many tasks, limits are naturals |
| `AnalyzerAssumption` | analyzer | a drain takes at least one record and at most what fits |
| `InputsAssumption`, `AnalysisAssumption`, `SettingsAssumption` | pipeline | finitely many connections and matches, scores in their bands, a drain of the analyzer's history takes what is there, the engine built with `Block` as the highest action |
| `IngressAssumption` | ingress filter | finitely many tasks and keys, a window and a connection limit of at least 1 |
| `LimiterAssumption` | distributed limiter | an idle bucket is kept for at least a second |
| `QuicAssumption`, `SecretAssumption`, `AuditAssumption`, `ThreatAssumption` | services | naturals, sentinels, a cache that lives at all |
| `BotAssumption` | bot detector | the ranges of `generate_challenge` (`engine/bot_detector.rs:193-195`), which no operation but the difference can wrap; a user agent that contains a name contains the names in it |
| `BaselineAssumption`, `OutlierAssumption` | traffic baseline | samples are naturals, a window of at least 1, `ema_alpha` inside 0 and 1, a threshold of 0.84 to 0.99 (the default is 0.85, `config.rs:385-389`) |
| `InspectionAssumption` | validator and DPI engine | what `httparse` can answer; a header value has a token at least, which may be empty |

Where a run of several components is explored one component at a time (`edge`,
`services`), the theorems are about the component's own specification
(`IngressSpec`, `LimiterSpec`, `QuicSpec` and so on), without fairness, of which
safety needs none. The horizons that stop the runs are any natural numbers.

* **Tracker.** `TrackerInv` adds to the type invariant that the counter equals
  the map and that each entry belongs to a task that will remove it. The hard step
  is `Remove` by two tasks of one tuple: the counter moves only if the entry was
  there. `TrackerImplementsAdmission` maps the abstract set to the map without the
  entries about to be rolled back; the late check of `try_add` is what makes the
  step an `Admit`, and the unlocked check plays no part in it.
  `ServerImplementsTracker` carries the theorems to the server: every server step
  is a tracker step or leaves it alone. `DrainNeverBegins` needs only that `notified`
  is false and that futures are registered in `select!` alone.
* **Response engine.** `EngineInv` relates level, deadline and violations of a
  client: level 4 exactly with a deadline; a deadline lies beyond the window of
  the violations that led to it even if the clock was read late; while the window
  is open the level is at least what the violations call for. Blocks are earned
  and stand follow as action properties from the invariant.
* **Rate limiter.** The budget alone is not inductive: between charging the
  first bucket and answering, a request is paid for but not counted, and a refund
  undoes a charge. `Ledger` counts both: tokens left, plus requests counted, plus
  charges *held* by checks under way, never exceed the budget up to the last
  refill. A refill adds what the elapsed time is worth (`RefilledHolds`), a charge
  moves a token into the held ones (`ChargePays`), an answer moves held into
  counted (`ProceedKeeps`), a refund gives back at most what was held
  (`RefundKeeps`).
* **Behavioural analyzer.** `StepsAreCounted` needs `PreviousIsLast`: what a
  request has read stays the last path until it pushes its own, since it keeps the
  lock. `HistoryFollows` is inductive by itself: `AppendTold` shows that one more
  counted record is either new for its pair or continues the newest one, and
  `DrainTold` that leaving out the oldest records cuts no later link.

* **Pipeline.** `Pipeline_proof` instantiates the proof modules of the two stateful
  engines over the pipeline's variables. `PipelineImplementsEngine` and
  `PipelineImplementsLimiter` show that every step of the server is a step of the
  engine or leaves it alone; what was proved about an engine by itself then holds
  behind the server, after `EngineAssumptionsHold` and `LimiterAssumptionsHold` have
  discharged what it assumes. `SameEngine` and `SameLimiter` are needed because the
  model and the proof instantiate the engines each for itself. `PipelineInv` counts
  the requests *in flight*: charged and not answered yet. With the answers 200
  of the client they are within what the limiter has admitted, from which
  `ServedWithinRate` follows by the limiter's own budget. `BlockReachesAll` needs
  `EngineInv` in the state in which a request is decided.
* **Ingress filter.** `SynBudget` speaks of any stretch as long as a window, the code
  of windows that begin with a packet. `synPassed` is cumulative, so what passed
  in a stretch is a difference. `Windowed` says of the open window that it has let
  through no more than counted and than allowed, and that neither has any stretch
  that ends where it begins: a stretch of one window's length meets two windows at
  most. `TableWithinLimit` is two invariants. `Overshoot` is that a packet passes the
  limit only below it, so that count and packets past the limit stay below limit and
  tasks together. `Behind` is that the count falls behind the table by no more
  than the operations noted in `beside`.
* **Distributed limiter.** Everything is said in terms of the *deficit* of a key: what
  its bucket lacks of being full, 0 if it has none. Each step makes the
  deficit of a key stay, grow by what a caller took, shrink with the time, or
  change by hand (`Moves`); eviction is among those where it stays, as a bucket
  idle for `EvictAfter` has filled up. `CreditConserved` follows at once. `Balanced`
  is inductive over the same four kinds of step: what was taken since a time is
  missing, has flowed back since, or was given. In it the rate is the largest that the key can ever have, because
  a threshold changes the rate of a bucket that is already there.
* **QUIC handler.** `QuicInv` adds that connections to come have no task, and that the
  table holds exactly the serving ones (`QuicTableExact`): that is why closing can
  empty it.
* **Secret manager.** `SecretInv`: versions are `1 .. Latest` without gaps and the first
  is never replaced (`Drawn`), since a number is drawn from the versions there.
  So version 1 opens what was stored under the first key, through any number of
  overlapping rotations, and nothing else. `OneRotation` carries the
  master key from where it is replaced to where its version is inserted. From
  `KeysHeld` follows `RotationReEncryptsNothing`: a rotation returns only if the
  store is empty, so the loop at `security/secrets.rs:234` never re-encrypts.
* **Audit logger.** `NumbersApart` is the strengthening for uniqueness: numbers a restart
  can see, drawn ones and the counter are apart, also after a restart takes the
  counter from what it sees. A number is given again only if it is neither there
  nor known to a logger. `Sees` says of a line that it is seen, without the sets that
  `Seen` is made of; a line that is written can only hide what follows it.
  `TextLast` is that nobody comes between the text of a line and its end;
  `AckedEnded`, that a line its caller was told of is ended, so that nothing is
  appended to it.
* **Threat intelligence.** `StoreHeld` is the point: a score on its way into the cache is
  what the feeds say *now*, because the reader's lock keeps every update out
  (`engine/threat_intel.rs:194-236`). With `CacheSaid` a score read from the cache was
  said when it was put there, less than `CacheTtl` ago.
* **Bot detector.** The solution kept with a challenge is `Solution` of its question;
  `SolutionIsValue` shows that it is what a browser computes unless the difference is
  negative, by arithmetic modulo any word size. For the score, `IsBotByExcess` turns
  the mean into a sum: a client is a bot exactly if what its weights exceed a half by
  adds up to more than zero. `IsBotIff` gives that sum for the fifteen indicators,
  and `NamedIsBot` bounds it by cases: the name contributes at least 380, which only
  the exceptions can use up. `ClientsKept` says that whoever was scored has one of the
  seven velocities.
* **Folds.** The provers cannot use the library's induction theorems, which take an
  operator, but induction over a *set* of numbers follows from well-foundedness
  (`NatSetInduction`). With it `FoldExists` shows that the function behind
  `MapThenFoldSet` exists, so that the `CHOOSE` in its definition finds one, and a lemma
  named *Trail* for each fold of the modules gives its values step by step. What
  follows about a list of any length is then an invariant along its trail.
* **Validator.** A result *keeps* the framing errors of another, or says more
  (`Keeps`, `Framing`). `ParsedFraming` goes through the checks in the order of the code: after
  `ValidateContentLength` all lengths are the same or the request is refused,
  and no later check takes an error back. For `EntryPointsAgree` each check says exactly
  when it refuses a header and what it leaves as it was; `PassedAlone` says what
  `ValidateHeaders` has seen in a list it passes: at most one length, which is a
  number if it can be read, and no encoding beside it. `WholeAgrees` runs the other
  validation on such a list and finds the refusals to be those of `Missed`.
* **DPI engine.** `DecodedBehind` is the induction: what is decoded from where the code
  of the k-th character is placed, is the text from that character on. It counts down from
  the end, as the decoding does, while `EncodedFirst` says that the code of the first k
  characters is what the whole begins with. A text without an escape is decoded only
  if something else brings an escape, so `PlainOther` compares its code with itself.
* **Traffic baseline.** `WindowInv` ties the samples to the history, and the baseline to
  the samples; `HoursInv` ties the counted hours to the history and to the recorders that are not
  done. `Summarises` is what the scores need to know of a baseline: its extremes, that
  the sum of squares is within them and that the variance is positive unless all
  samples are the same (`Moments`), and that the moving average is within them (`EmaBounds`).
  `AnomalousIs` then bounds the three shares: a drop earns at most 100, 50 and
  100 hundredths, less than three times a threshold of 0.84, and a value three
  times the largest sample earns all three in full.

Only model-checked:

* the liveness properties `TasksEnd`, `RequestsPass`,
  `AnsweredOrAborted`, `CloseDrains`, `UpdateEnds` and `CallsEnd`: liveness under
  fairness is out of this prover's reach;
* the five violations, which are counterexamples.

## 6. Not modelled

* Data rather than behaviour: which texts match which regular expression, the
  parsing of HTTP by `httparse`, the fingerprints of the behavioural analyzer, the
  rounding of floating-point numbers and the moving averages of the limiters,
  cryptography, checksums, anonymisation of addresses.
* Operations that change nothing or that only their tests call: counters, bucket
  views, `classify_burst`, `detect_slowloris`, `scan_headers`, `is_valid_mime`,
  `check_both` and `calculate_threat_score` (two checks one after the other),
  exports of the audit log. The ingress filter's allowed ranges.
* QUIC streams, whose tasks share nothing with the rest; the building of its
  endpoint; `TlsHandler`, which loads certificates and calls its library; `Drop` of
  the secret manager.
* `metrics` (no decision reads a counter; the gauge of open connections, `io/network.rs:114`,
  is raised by `with_label_values` where it should be lowered), `config` (structures, defaults and four
  range checks), the command line and `analytics`, which print and format: `service
  start` and `service stop` (`cli/service_cmd.rs`) start and stop nothing.

`main.rs` never calls `start_server`; the server is modelled as the library offers
it.
