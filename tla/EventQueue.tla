----------------------------- MODULE EventQueue -----------------------------
(***************************************************************************)
(* The rows of system_events and everything that runs their handlers: the  *)
(* retry loop of each process, whose ticks PeriodicTask starts, and the    *)
(* replays an admin asks for (backend/src/events, EventsService and        *)
(* EventProcessorService).  What a handler does is PaymentCollection's and *)
(* PayoutSettlement's subject; here it returns or throws.                  *)
(***************************************************************************)
EXTENDS PeriodicTask, FiniteSets, Sequences

CONSTANTS
  Events,      \* how many events are emitted: 1..Events, in order of creation
  Replay,      \* replayById requests in flight
  Batch,       \* rows fetchUnprocessed returns at most: 100 in the code
  MaxReplays,  \* bound on replay requests
  QueueFaults  \* bound on killed processes and on failed unchecked queries

ASSUME QueueBounds ==
  /\ Events \in Nat \ {0} /\ Batch \in Nat \ {0}
  /\ MaxReplays \in Nat /\ QueueFaults \in Nat
ASSUME ReplaysAreNotTicks == Replay \cap Ticks = {}

MaxRetries == 3
Event  == 1..Events
Runner == Ticks \cup Replay

VARIABLES
  queue,   \* the rows: saved, processed, retry_count, dead_letter, within 24 h
  run,     \* each runner: its step, the events left to it, the count it read
  tally,   \* history: failures recorded since the last reset
  unsure,  \* history: events whose tally was upset by a race or a blind read
  replays, \* how many replays were requested
  lapses   \* how many faults have happened

counts == <<tally, unsure>>
queueVars == <<taskVars, queue, run, counts, replays, lapses>>

RunPlace == {"idle", "fetch", "reset", "dispatch", "mark", "count", "fail"}

QueueTypeOK ==
  /\ TaskTypeOK
  /\ queue \in [Event -> [saved : BOOLEAN, processed : BOOLEAN, retry : Nat,
                          dead : BOOLEAN, recent : BOOLEAN]]
  /\ run \in [Runner -> [at : RunPlace, todo : Seq(Event), seen : Nat]]
  /\ tally \in [Event -> Nat] /\ unsure \subseteq Event
  /\ replays \in 0..MaxReplays /\ lapses \in 0..QueueFaults

Unstarted == [saved |-> FALSE, processed |-> FALSE, retry |-> 0,
              dead |-> FALSE, recent |-> TRUE]
NoRun == [at |-> "idle", todo |-> <<>>, seen |-> 0]

QueueInit ==
  /\ TaskInit
  /\ queue = [e \in Event |-> Unstarted]
  /\ run = [r \in Runner |-> NoRun]
  /\ tally = [e \in Event |-> 0] /\ unsure = {}
  /\ replays = 0 /\ lapses = 0

-----------------------------------------------------------------------------
(* Helpers.                                                                *)

RunAt(r, place) == run[r].at = place
Current(r)      == Head(run[r].todo)
RunGoes(r, place) == run' = [run EXCEPT ![r] = [@ EXCEPT !.at = place]]
Lapse == lapses < QueueFaults /\ lapses' = lapses + 1

\* On to the next event of the list, or the end of the tick or request.
NextOrEnd(r) ==
  LET rest == Tail(run[r].todo) IN
  IF rest # <<>>
  THEN /\ run' = [run EXCEPT ![r] = [at |-> "dispatch", todo |-> rest,
                                     seen |-> 0]]
       /\ UNCHANGED taskVars
  ELSE /\ run' = [run EXCEPT ![r] = NoRun]
       /\ IF r \in Ticks THEN TickEnds(r) ELSE UNCHANGED taskVars

\* Runners of another process, or requests, between reading a row's count and
\* writing it back.
Amid(r, e) ==
  \E s \in Runner \ {r} :
    /\ RunAt(s, "fail") /\ Current(s) = e
    /\ ~ (r \in Ticks /\ s \in Ticks /\ r[1] = s[1])

Unsettles(e, upset) == unsure' = unsure \cup IF upset THEN {e} ELSE {}

-----------------------------------------------------------------------------
\* emit: inserted, in the order of the numbers, or lost with a logged error.
Emit(e) ==
  /\ ~ queue[e].saved
  /\ \A d \in Event : d < e => queue[d].saved
  /\ queue' = [queue EXCEPT ![e] = [@ EXCEPT !.saved = TRUE]]
  /\ UNCHANGED <<taskVars, run, counts, replays, lapses>>

\* Mutant: the query's limit and maxRetries disagree.
EligibleTwice == {e \in Event : /\ queue[e].saved /\ ~ queue[e].processed
                                /\ ~ queue[e].dead /\ queue[e].retry < 2
                                /\ queue[e].recent}

Eligible == {e \in Event : /\ queue[e].saved /\ ~ queue[e].processed
                           /\ ~ queue[e].dead /\ queue[e].retry < MaxRetries
                           /\ queue[e].recent}

\* The oldest rows first, up to the limit.
Oldest(S) ==
  LET rank(e) == Cardinality({d \in S : d <= e})
      n == IF Cardinality(S) < Batch THEN Cardinality(S) ELSE Batch
  IN [i \in 1..n |-> CHOOSE e \in S : rank(e) = i]

LoopTick(p) ==
  \E k \in Slot :
    /\ Tick(p, k)
    /\ run' = [run EXCEPT ![<<p, k>>] = [@ EXCEPT !.at = "fetch"]]
    /\ UNCHANGED <<queue, counts, replays, lapses>>

\* retryUnprocessed: one list for the whole tick.
Fetch(t) ==
  LET list == Oldest(Eligible) IN
  /\ RunAt(t, "fetch")
  /\ IF list = <<>>
     THEN run' = [run EXCEPT ![t] = NoRun] /\ TickEnds(t)
     ELSE /\ run' = [run EXCEPT ![t] = [@ EXCEPT !.at = "dispatch",
                                                 !.todo = list]]
          /\ UNCHANGED taskVars
  /\ UNCHANGED <<queue, counts, replays, lapses>>

\* replayById: any saved event, a processed one included.
ReplayRead(r, e) ==
  /\ RunAt(r, "idle") /\ queue[e].saved
  /\ replays < MaxReplays /\ replays' = replays + 1
  /\ run' = [run EXCEPT ![r] =
               [at |-> IF queue[e].dead \/ queue[e].retry >= MaxRetries
                       THEN "reset" ELSE "dispatch",
                todo |-> <<e>>, seen |-> 0]]
  /\ UNCHANGED <<taskVars, queue, counts, lapses>>

ResetForReplay(r) ==
  LET e == Current(r) IN
  /\ RunAt(r, "reset")
  /\ RunGoes(r, "dispatch")
  /\ \/ /\ queue' = [queue EXCEPT ![e] = [@ EXCEPT !.dead = FALSE,
                                          !.retry = 0, !.processed = FALSE]]
        /\ tally' = [tally EXCEPT ![e] = 0]
        /\ Unsettles(e, Amid(r, e))
        /\ UNCHANGED lapses
     \/ UNCHANGED <<queue, counts>> /\ Lapse
  /\ UNCHANGED <<taskVars, replays>>

\* runHandler: the handler returns or throws.
Dispatch(r) ==
  /\ RunAt(r, "dispatch")
  /\ \E outcome \in {"mark", "count"} : RunGoes(r, outcome)
  /\ UNCHANGED <<taskVars, queue, counts, replays, lapses>>

MarkEventProcessed(r) ==
  LET e == Current(r) IN
  /\ RunAt(r, "mark")
  /\ \/ /\ queue' = [queue EXCEPT ![e] = [@ EXCEPT !.processed = TRUE]]
        /\ UNCHANGED lapses
     \/ UNCHANGED queue /\ Lapse
  /\ NextOrEnd(r)
  /\ UNCHANGED <<counts, replays>>

\* markFailed: the count is read, a failed read counting as 0 ...
CountRead(r) ==
  LET e == Current(r) IN
  /\ RunAt(r, "count")
  /\ \/ /\ run' = [run EXCEPT ![r] = [@ EXCEPT !.at = "fail",
                                              !.seen = queue[e].retry]]
        /\ Unsettles(e, Amid(r, e))
        /\ UNCHANGED lapses
     \/ /\ run' = [run EXCEPT ![r] = [@ EXCEPT !.at = "fail", !.seen = 0]]
        /\ Unsettles(e, TRUE)
        /\ Lapse
  /\ UNCHANGED <<taskVars, queue, tally, replays>>

\* ... and written back plus one, with the verdict that follows from it.
CountWrite(r) ==
  LET e == Current(r)
      next == run[r].seen + 1 IN
  /\ RunAt(r, "fail")
  /\ \/ /\ queue' = [queue EXCEPT ![e] = [@ EXCEPT !.retry = next,
                                          !.dead = next >= MaxRetries]]
        /\ tally' = [tally EXCEPT ![e] = IF e \in unsure THEN 0 ELSE @ + 1]
        /\ UNCHANGED lapses
     \/ UNCHANGED <<queue, tally>> /\ Lapse
  /\ NextOrEnd(r)
  /\ UNCHANGED <<unsure, replays>>

-----------------------------------------------------------------------------
(* The process, and time.                                                  *)

Forget(S) == run' = [r \in Runner |-> IF r \in S THEN NoRun ELSE run[r]]

LoopStarts(p) ==
  /\ TaskStart(p) /\ UNCHANGED <<queue, run, counts, replays, lapses>>
LoopStops(p) ==
  /\ Stop(p) /\ UNCHANGED <<queue, run, counts, replays, lapses>>
LoopStopped(p) ==
  /\ Stopped(p) /\ Forget(TicksOf(p))
  /\ UNCHANGED <<queue, counts, replays, lapses>>
LoopKilled(p) ==
  /\ ProcessKilled(p) /\ Forget(TicksOf(p)) /\ Lapse
  /\ UNCHANGED <<queue, counts, replays>>

ReplayCut(r) ==
  /\ ~ RunAt(r, "idle") /\ Forget({r}) /\ Lapse
  /\ UNCHANGED <<taskVars, queue, counts, replays>>

EventAges(e) ==
  /\ queue[e].saved /\ queue[e].recent
  /\ queue' = [queue EXCEPT ![e] = [@ EXCEPT !.recent = FALSE]]
  /\ UNCHANGED <<taskVars, run, counts, replays, lapses>>

RunStep(r) ==
  \/ Fetch(r) \/ ResetForReplay(r) \/ Dispatch(r) \/ MarkEventProcessed(r)
  \/ CountRead(r) \/ CountWrite(r)

LoopStep(p) ==
  LoopTick(p) \/ \E k \in Slot : RunStep(<<p, k>>)

QueueNext ==
  \/ \E e \in Event : Emit(e) \/ EventAges(e)
  \/ \E p \in Process : \/ LoopStep(p) \/ LoopStarts(p) \/ LoopStops(p)
                        \/ LoopStopped(p) \/ LoopKilled(p)
  \/ \E r \in Replay : \/ \E e \in Event : ReplayRead(r, e)
                       \/ RunStep(r) \/ ReplayCut(r)

QueueSpec == QueueInit /\ [][QueueNext]_queueVars

\* The interval timer of a running process fires for ever, and deploys leave a
\* process up for a minute now and then; every handler returns, stop() does,
\* and the platform restarts what stopped.
LoopRuns ==
  \A p \in Process :
    /\ SF_queueVars(LoopTick(p))
    /\ WF_queueVars(\E k \in Slot : RunStep(<<p, k>>))
    /\ WF_queueVars(LoopStopped(p))
    /\ WF_queueVars(LoopStarts(p))

-----------------------------------------------------------------------------
(* Properties.                                                             *)

\* An event is retried as often as maxRetries says: its count is the number of
\* failures recorded since the last reset, and it is a dead letter from the
\* third on, unless two processes or a replay were inside markFailed at once
\* or its read failed.  One process's own ticks never cause that.
RetriesCounted ==
  \A e \in Event \ unsure :
    queue[e].retry = tally[e] /\ queue[e].dead = (tally[e] >= MaxRetries)

\* "start a tick ... await the in-flight tick": a shutdown that is not forced
\* cuts no handler short; a run leaves an event only by marking it processed
\* or failed.
ShutdownCutsNothing ==
  [][ lapses' = lapses =>
        \A r \in Runner :
          run[r].at \in {"reset", "dispatch", "mark", "count", "fail"}
          /\ run'[r].at \notin {"reset", "dispatch", "mark", "count", "fail"}
            => run[r].at \in {"mark", "fail"} ]_queueVars

\* A saved event is handled, becomes a dead letter an admin can see, or is
\* older than a day: nothing that fails ahead of it in the queue holds it up,
\* nor do restarts.
EventEnds ==
  \A e \in Event :
    queue[e].saved ~> queue[e].processed \/ queue[e].dead \/ ~ queue[e].recent
=============================================================================
