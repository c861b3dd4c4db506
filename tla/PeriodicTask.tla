---------------------------- MODULE PeriodicTask ----------------------------
(***************************************************************************)
(* The background loop of backend/src/common/periodic-task.ts, one in each *)
(* process, with the process around it: NestJS starts the loop, and on a   *)
(* shutdown signal awaits stop() before it exits.  The module that extends *)
(* this one says what a tick does.                                         *)
(***************************************************************************)
EXTENDS Naturals

CONSTANTS
  Process, \* processes of the backend, each replaced by a new one of its name
  Slot     \* room to tell apart ticks of one process that ran at once

ASSUME SlotNumbers == Slot \subseteq Nat

Ticks == Process \X Slot

VARIABLES
  up,       \* processes running
  stopping, \* those whose stop() has cleared the interval
  inFlight  \* ticks running

taskVars == <<up, stopping, inFlight>>

TaskTypeOK ==
  /\ up \subseteq Process
  /\ stopping \subseteq up
  /\ inFlight \subseteq up \X Slot

TaskInit == up = Process /\ stopping = {} /\ inFlight = {}

TicksOf(p) == {t \in inFlight : t[1] = p}

\* start, when the process comes up.
TaskStart(p) ==
  /\ p \notin up
  /\ up' = up \cup {p}
  /\ UNCHANGED <<stopping, inFlight>>

FirstFree(p, k) ==
  /\ <<p, k>> \notin inFlight
  /\ \A j \in Slot : j < k => <<p, j>> \in inFlight

\* Mutant: a slow tick does not keep the next one from starting.
TickOverlapping(p, k) ==
  /\ p \in up \ stopping
  /\ FirstFree(p, k)
  /\ inFlight' = inFlight \cup {<<p, k>>}
  /\ UNCHANGED <<up, stopping>>

\* tick: skipped while stopping or while the previous one runs.
Tick(p, k) ==
  /\ p \in up \ stopping
  /\ TicksOf(p) = {} /\ FirstFree(p, k)
  /\ inFlight' = inFlight \cup {<<p, k>>}
  /\ UNCHANGED <<up, stopping>>

TickEnds(t) ==
  /\ inFlight' = inFlight \ {t}
  /\ UNCHANGED <<up, stopping>>

Stop(p) ==
  /\ p \in up \ stopping
  /\ stopping' = stopping \cup {p}
  /\ UNCHANGED <<up, inFlight>>

\* The process is gone, and whatever it was doing with it.
ProcessGone(p) ==
  /\ up' = up \ {p} /\ stopping' = stopping \ {p}
  /\ inFlight' = inFlight \ TicksOf(p)

\* Mutant: the hook is a plain clearInterval, which nothing waits for.
StoppedAtOnce(p) ==
  /\ p \in stopping
  /\ ProcessGone(p)

\* stop() has nothing to wait for, or what it waited for is done.
Stopped(p) ==
  /\ p \in stopping
  /\ TicksOf(p) = {}
  /\ ProcessGone(p)

\* The tick outlasts the bound, or the process is killed.
ProcessKilled(p) ==
  /\ p \in up /\ TicksOf(p) # {}
  /\ ProcessGone(p)
=============================================================================
