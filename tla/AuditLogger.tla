----------------------------- MODULE AuditLogger -----------------------------
(***************************************************************************)
(* AuditLogger (src/security/audit.rs): the numbering of the events, the   *)
(* files of the days, and what a restart finds in them.                    *)
(*                                                                         *)
(* A file is a sequence of lines, a line the sequence of what was written  *)
(* to it: event ids, Half an event, or a Broken one, cut inside a          *)
(* character.  writeln! hands the text and the end of the line to the      *)
(* system separately, and either may fail or be the last thing the process *)
(* does.  A line with a broken event is not UTF-8 and cannot be read.      *)
(* Checksums, anonymisation and what the events say are left out.          *)
(***************************************************************************)
EXTENDS Integers, Sequences, FiniteSets, FiniteSetsExt, SequencesExt

CONSTANTS Loggers,       \* the threads that log
          RetentionDays,
          MaxLines,      \* max_file_size, in lines
          MaxDay, MaxEvents, MaxFailures,   \* bounds on the behaviours
          NoFile

\* A file that is missing is no file.
ASSUME AuditAssumption ==
  /\ RetentionDays \in Nat /\ MaxLines \in Nat /\ MaxDay \in Nat
  /\ NoFile \notin [lines : Seq(Seq(Int)), modified : Nat]

Half == 0
Broken == -1
Days == 0 .. MaxDay

VARIABLES today,
          files,          \* the lines of a day and when they were written, or NoFile
          ended,          \* the days whose last line is ended
          current,        \* the day whose file is open, and whether it still has its name
          event_counter,
          logger,         \* [at, id] of a thread
          condemned,      \* the days rotate_logs is about to remove
          events, failures,
          acked           \* history: the events log_event has returned Ok for, as long
                          \* as the file they were written to keeps its name

auditVars == <<today, files, ended, current, event_counter, logger, condemned, events, failures,
               acked>>

Ready == [at |-> "idle", id |-> 0, torn |-> FALSE]

----------------------------------------------------------------------------
(* The files.                                                               *)

\* A line parses when it is one whole event.
Parses(line) == Len(line) = 1 /\ line[1] > 0
Unreadable(line) == Broken \in ToSet(line)

Present == {d \in Days : files[d] # NoFile}
LinesOf(d) == DOMAIN files[d].lines
EventsOn(d, numbers) == {files[d].lines[i][1] : i \in {i \in numbers : Parses(files[d].lines[i])}}

\* What query_logs finds, :257-324, before the filter and the sorting by id; it finds
\* nothing when it comes to a line that cannot be read, :294.
Found == UNION {EventsOn(d, LinesOf(d)) : d \in Present}
QueryFails == \E d \in Present : \E i \in LinesOf(d) : Unreadable(files[d].lines[i])

\* The lines before the first that cannot be read, where map_while stops, :146.
Before(d) == {i \in LinesOf(d) : \A j \in 1 .. i : ~Unreadable(files[d].lines[j])}
Seen == UNION {EventsOn(d, Before(d)) : d \in Present}

\* Faulty variant: the events of today are looked at alone.
LastEventIdToday ==
  IF files[today] = NoFile THEN 0 ELSE Max({0} \cup EventsOn(today, Before(today)))

\* load_last_event_id, :132-164.
LastEventId == Max({0} \cup Seen)

\* open_current_log, :171-188: created when it is missing.
Opened(d) == IF files[d] = NoFile
             THEN [files EXCEPT ![d] = [lines |-> <<>>, modified |-> today]] ELSE files

Lengthened(lines, what) == [lines EXCEPT ![Len(lines)] = Append(@, what)]

\* The file of the open day with something more on its last line, or on a new one.
Written(what) ==
  LET d == current.day
      lines == files[d].lines
  IN  IF ~current.named THEN files
      ELSE [files EXCEPT ![d] =
              [lines |-> IF d \in ended THEN Append(lines, <<what>>)
                         ELSE Lengthened(lines, what),
               modified |-> today]]

AuditInit ==
  /\ today = 0
  /\ files = [d \in Days |-> IF d = 0 THEN [lines |-> <<>>, modified |-> 0] ELSE NoFile]
  /\ ended = Days
  /\ current = [day |-> 0, named |-> TRUE]
  /\ event_counter = 0
  /\ logger = [t \in Loggers |-> Ready]
  /\ condemned = {}
  /\ events = 0 /\ failures = 0
  /\ acked = {}

----------------------------------------------------------------------------
(* log_with_details, :246-255, and log_event, :213-244.                     *)

\* :252, and next_event_id, :437-439: before any lock is taken.
DrawId(t) ==
  /\ logger[t].at = "idle" /\ events < MaxEvents
  /\ events' = events + 1
  /\ event_counter' = event_counter + 1
  /\ logger' = [logger EXCEPT ![t] = [at |-> "drawn", id |-> event_counter + 1, torn |-> FALSE]]
  /\ UNCHANGED <<today, files, ended, current, condemned, failures, acked>>

\* Faulty variant: the lock is not kept between the text and the end of the line.
LockFreeAlways == TRUE

\* current_log_file is locked from the text to the end of the line.
LockFree == \A t \in Loggers : logger[t].at # "text"

\* needs_rotation, :190-197, asks for the file of today, whichever is open.
NeedsRotation == files[today] # NoFile /\ Len(files[today].lines) >= MaxLines

\* :199-211.  The rotation opens the file of today, which may be the open one.
RotateIfNeeded(t) ==
  /\ logger[t].at = "drawn"
  /\ logger' = [logger EXCEPT ![t].at = "ready"]
  /\ \/ ~NeedsRotation /\ UNCHANGED <<files, current>>
     \/ NeedsRotation /\ LockFree /\ files' = Opened(today)
          /\ current' = [day |-> today, named |-> TRUE]
  /\ UNCHANGED <<today, ended, event_counter, condemned, events, failures, acked>>

\* :233-235, up to the end of the line.
WriteText(t) ==
  /\ logger[t].at = "ready" /\ LockFree
  /\ files' = Written(logger[t].id)
  /\ ended' = IF current.named THEN ended \ {current.day} ELSE ended
  /\ logger' = [logger EXCEPT ![t].at = "text",
                              ![t].torn = current.named /\ current.day \notin ended]
  /\ UNCHANGED <<today, current, event_counter, condemned, events, failures, acked>>

\* :235-243; the line is ended, and the caller told, even if the file has lost its name.
EndLine(t) ==
  /\ logger[t].at = "text"
  /\ ended' = IF current.named THEN ended \cup {current.day} ELSE ended
  /\ acked' = IF ~current.named THEN acked
              ELSE acked \cup {[id |-> logger[t].id, day |-> current.day,
                                torn |-> logger[t].torn]}
  /\ logger' = [logger EXCEPT ![t] = Ready]
  /\ UNCHANGED <<today, files, current, event_counter, condemned, events, failures>>

\* :235-236: the write fails with nothing or a part of the text written, which nothing
\* takes back.
WriteFails(t) ==
  /\ logger[t].at = "ready" /\ LockFree /\ failures < MaxFailures
  /\ failures' = failures + 1
  /\ \/ UNCHANGED <<files, ended>>
     \/ /\ \E what \in {Half, Broken} : files' = Written(what)
        /\ ended' = IF current.named THEN ended \ {current.day} ELSE ended
  /\ logger' = [logger EXCEPT ![t] = Ready]
  /\ UNCHANGED <<today, current, event_counter, condemned, events, acked>>

\* :235-236: the text is written, and the end of the line fails.
LineEndFails(t) ==
  /\ logger[t].at = "text" /\ failures < MaxFailures
  /\ failures' = failures + 1
  /\ logger' = [logger EXCEPT ![t] = Ready]
  /\ UNCHANGED <<today, files, ended, current, event_counter, condemned, events, acked>>

----------------------------------------------------------------------------
(* rotate_logs, :357-400: a file is looked at, then removed.                *)

\* :358-382; of two times RetentionDays days apart, the first may lie before the cutoff.
Condemn(d) ==
  /\ d \in Present \ condemned /\ files[d].modified <= today - RetentionDays
  /\ condemned' = condemned \cup {d}
  /\ UNCHANGED <<today, files, ended, current, event_counter, logger, events, failures,
                 acked>>

\* :382; the open file loses its name, and is written to all the same.
RemoveFile(d) ==
  /\ d \in condemned
  /\ condemned' = condemned \ {d}
  /\ files' = [files EXCEPT ![d] = NoFile]
  /\ acked' = {e \in acked : e.day # d}
  /\ ended' = ended \cup {d}
  /\ current' = IF current.day = d THEN [current EXCEPT !.named = FALSE] ELSE current
  /\ UNCHANGED <<today, event_counter, logger, events, failures>>

----------------------------------------------------------------------------
\* The process ends wherever it is, and is started again: new, :103-130.
Restart ==
  /\ failures < MaxFailures
  /\ failures' = failures + 1
  /\ event_counter' = LastEventId
  /\ files' = Opened(today)
  /\ current' = [day |-> today, named |-> TRUE]
  /\ logger' = [t \in Loggers |-> Ready]
  /\ condemned' = {}
  /\ UNCHANGED <<today, ended, events, acked>>

Midnight ==
  /\ today < MaxDay
  /\ today' = today + 1
  /\ UNCHANGED <<files, ended, current, event_counter, logger, condemned, events, failures,
                 acked>>

AuditNext ==
  \/ \E t \in Loggers :
       DrawId(t) \/ RotateIfNeeded(t) \/ WriteText(t) \/ EndLine(t)
       \/ WriteFails(t) \/ LineEndFails(t)
  \/ \E d \in Days : Condemn(d) \/ RemoveFile(d)
  \/ Restart \/ Midnight

AuditSpec == AuditInit /\ [][AuditNext]_auditVars

----------------------------------------------------------------------------
(* Properties.                                                              *)

\* query_logs finds every event that was logged with Ok to a file that has kept its
\* name, with two exceptions: the first to follow a part of a line, left by a write that
\* failed or a process that ended in it, shares that line and does not parse; and one
\* line that cannot be read, in any file, makes the whole query fail (:294).
EventsKept == ~QueryFails => \A e \in acked : e.id \in Found \/ e.torn

Occurrences(id) == UNION {{<<d, i>> : i \in {i \in Before(d) : files[d].lines[i] = <<id>>}} :
                            d \in Present}

\* Of the events that stand on a line of their own before any line of their file that
\* cannot be read, no two have one number, across restarts, days and removals; these
\* are all that a query that does not fail returns.  A number that was never written,
\* was written to a line that does not parse, behind one that cannot be read or to a
\* file that is gone may be given again after a restart.
NumbersUnique == \A id \in Seen : Cardinality(Occurrences(id)) = 1
=============================================================================
