-------------------------- MODULE BehavioralAnalyzer --------------------------
(***************************************************************************)
(* BehavioralAnalyzer (src/engine/behavioral_analyzer.rs:233-305): the     *)
(* sequence of requested paths and the counts of transitions between them. *)
(* The pipeline calls track_request_sequence and then                      *)
(* check_pattern_deviation for every request (src/io/network.rs:480-484).  *)
(*                                                                         *)
(* Both methods take parking_lot locks one inside the other.  A critical   *)
(* section that waits for nothing is one step; a method that waits for a   *)
(* second lock keeps the first across a step.  The lock of                 *)
(* transition_history is only taken inside the other two and is left out,  *)
(* and so are the scores of check_pattern_deviation: nothing is stored of  *)
(* them.                                                                   *)
(***************************************************************************)
EXTENDS Naturals, Sequences

CONSTANTS Requests,     \* the requests of one behaviour
          Paths,
          MaxSequence,  \* 1000
          MaxHistory,   \* 10 000
          Drained,      \* 1000, what a full history loses at once
          NoRequest, NoPath

ASSUME AnalyzerAssumption ==
  /\ MaxSequence \in Nat \ {0} /\ MaxHistory \in Nat
  /\ Drained \in 1 .. MaxHistory
  /\ NoRequest \notin Requests /\ NoPath \notin Paths

VARIABLES sequence,     \* path_sequence
          transitions,  \* path_transitions: 0 for a pair not in the map
          history,      \* transition_history
          writer,       \* who keeps the write lock of path_sequence
          readers,      \* who keep a read lock of path_transitions
          pc,
          path,         \* the path argument, while track_request_sequence needs it
          previous      \* the last_path it works with

vars == <<sequence, transitions, history, writer, readers, pc, path, previous>>

(* "new"          not arrived                                               *)
(* "track"        about to write-lock path_sequence (:234)                  *)
(* "transition"   keeps it, about to write-lock path_transitions (:238)     *)
(* "repetition"   about to read-lock path_sequence (:263)                   *)
(* "transitions"  about to read-lock path_transitions (:282)                *)
(* "novelty"      keeps it, about to read-lock path_sequence (:283)         *)
Stages == {"new", "track", "transition", "repetition", "transitions", "novelty", "done"}

Record == [from_path : Paths, to_path : Paths, count : Nat]

TypeOK ==
  /\ sequence \in Seq(Paths) /\ Len(sequence) <= MaxSequence
  /\ transitions \in [Paths \X Paths -> Nat]
  /\ history \in Seq(Record) /\ Len(history) <= MaxHistory
  /\ writer \in Requests \cup {NoRequest}
  /\ readers \subseteq Requests
  /\ pc \in [Requests -> Stages]
  /\ path \in [Requests -> Paths \cup {NoPath}]
  /\ previous \in [Requests -> Paths \cup {NoPath}]
  /\ \A r \in Requests : /\ path[r] # NoPath <=> pc[r] \in {"track", "transition"}
                         /\ previous[r] # NoPath <=> pc[r] = "transition"
                         /\ pc[r] = "transition" <=> writer = r
                         /\ pc[r] = "novelty" <=> r \in readers

Init ==
  /\ sequence = <<>>
  /\ transitions = [pair \in Paths \X Paths |-> 0]
  /\ history = <<>>
  /\ writer = NoRequest
  /\ readers = {}
  /\ pc = [r \in Requests |-> "new"]
  /\ path = [r \in Requests |-> NoPath]
  /\ previous = [r \in Requests |-> NoPath]

----------------------------------------------------------------------------
Goto(r, stage) == pc' = [pc EXCEPT ![r] = stage]

\* Faulty variant: the read lock, which any number of requests may have.
SequenceShared == TRUE

SequenceFree == writer = NoRequest
TransitionsFree == readers = {}

Last(s) == s[Len(s)]

\* Faulty variant: nothing is popped.
PushUnbounded(p) == sequence' = Append(sequence, p)

\* :255-258.
Push(p) ==
  LET longer == Append(sequence, p)
  IN  sequence' = IF Len(longer) > MaxSequence THEN Tail(longer) ELSE longer

\* Faulty variant: what is drained are the newest records.
DrainNewest(h) ==
  IF Len(h) > MaxHistory THEN SubSeq(h, 1, Len(h) - Drained) ELSE h

\* :250-252.
Drain(h) ==
  IF Len(h) > MaxHistory THEN SubSeq(h, Drained + 1, Len(h)) ELSE h

----------------------------------------------------------------------------
(* One request: track_request_sequence, then check_pattern_deviation.       *)

\* src/io/network.rs:480-481.
Arrive(r, p) ==
  /\ pc[r] = "new"
  /\ Goto(r, "track")
  /\ path' = [path EXCEPT ![r] = p]
  /\ UNCHANGED <<sequence, transitions, history, writer, readers, previous>>

\* track_request_sequence ends, and its variables with it.
Return(r) ==
  /\ Goto(r, "repetition")
  /\ path' = [path EXCEPT ![r] = NoPath]
  /\ previous' = [previous EXCEPT ![r] = NoPath]

\* The first path of all has no transition to it.
TrackFirst(r) ==
  /\ pc[r] = "track"
  /\ SequenceFree
  /\ sequence = <<>>
  /\ Push(path[r])
  /\ Return(r)
  /\ UNCHANGED <<transitions, history, writer, readers>>

\* :234-237.
LockSequence(r) ==
  /\ pc[r] = "track"
  /\ SequenceFree
  /\ sequence # <<>>
  /\ writer' = r
  /\ previous' = [previous EXCEPT ![r] = Last(sequence)]
  /\ Goto(r, "transition")
  /\ UNCHANGED <<sequence, transitions, history, readers, path>>

Count(r) ==
  LET pair == <<previous[r], path[r]>>
      n == transitions[pair] + 1
  IN  /\ transitions' = [transitions EXCEPT ![pair] = n]
      /\ history' = Drain(Append(history, [from_path |-> previous[r], to_path |-> path[r],
                                           count |-> n]))

\* Faulty variant: the guard of path_sequence is not dropped on return.
TrackKeepingLock(r) ==
  /\ pc[r] = "transition"
  /\ TransitionsFree
  /\ Count(r)
  /\ Push(path[r])
  /\ Return(r)
  /\ UNCHANGED <<writer, readers>>

\* :238-258; all three guards are dropped on return.
TrackTransition(r) ==
  /\ pc[r] = "transition"
  /\ TransitionsFree
  /\ Count(r)
  /\ Push(path[r])
  /\ writer' = NoRequest
  /\ Return(r)
  /\ UNCHANGED readers

\* :263-280.
CheckRepetition(r) ==
  /\ pc[r] = "repetition"
  /\ SequenceFree
  /\ Goto(r, "transitions")
  /\ UNCHANGED <<sequence, transitions, history, writer, readers, path, previous>>

\* :282; the write lock of path_transitions is never kept across a step.  That a
\* writer which already waits may keep new readers out is left open.
ReadTransitions(r) ==
  /\ pc[r] = "transitions"
  /\ readers' = readers \cup {r}
  /\ Goto(r, "novelty")
  /\ UNCHANGED <<sequence, transitions, history, writer, path, previous>>

\* :283-304.
CheckNovelty(r) ==
  /\ pc[r] = "novelty"
  /\ SequenceFree
  /\ readers' = readers \ {r}
  /\ Goto(r, "done")
  /\ UNCHANGED <<sequence, transitions, history, writer, path, previous>>

----------------------------------------------------------------------------
Track(r) == TrackFirst(r) \/ LockSequence(r) \/ TrackTransition(r)

Check(r) == CheckRepetition(r) \/ ReadTransitions(r) \/ CheckNovelty(r)

Next == \E r \in Requests : (\E p \in Paths : Arrive(r, p)) \/ Track(r) \/ Check(r)

\* A thread that can go on goes on, and the locks are fair: a request that finds
\* a lock free again and again gets it.
Fairness == \A r \in Requests : SF_vars(Track(r) \/ Check(r))

Spec == Init /\ [][Next]_vars /\ Fairness

----------------------------------------------------------------------------
(* Properties.                                                              *)

\* Every step the sequence shows has been counted as a transition: no request
\* slips its path in between the last_path another one has read and its push.
StepsAreCounted ==
  \A i \in 1 .. Len(sequence) - 1 : transitions[<<sequence[i], sequence[i + 1]>>] > 0

SamePair(a, b) == a.from_path = b.from_path /\ a.to_path = b.to_path

\* The history tells the counts in the order they were reached, with none left
\* out between two of its records, and ends where path_transitions stands: the
\* two tables agree after any interleaving, also when the oldest are drained.
HistoryFollows ==
  \A i \in DOMAIN history :
    LET h == history[i]
        later == {j \in DOMAIN history : j > i /\ SamePair(history[j], h)}
    IN  IF later = {} THEN h.count = transitions[<<h.from_path, h.to_path>>]
        ELSE \E j \in later : history[j].count = h.count + 1

\* track_request_sequence holds path_sequence and waits for path_transitions,
\* check_pattern_deviation holds path_transitions and waits for path_sequence.
LockCycle == writer # NoRequest /\ readers # {}

\* Every request gets through both methods, unless two of them hold the locks
\* crosswise: nothing else in the analyzer can keep a request for ever.
RequestsPass == \A r \in Requests : pc[r] = "track" ~> pc[r] = "done" \/ LockCycle

\* The pipeline answers every request or times it out ("Connection handler timed
\* out after {}ms", src/io/network.rs:241).
RequestsAnswered == \A r \in Requests : pc[r] = "track" ~> pc[r] = "done"
=============================================================================
