------------------------- MODULE EventQueue_proofs --------------------------
(***************************************************************************)
(* The invariants of EventQueue hold for any number of events, processes   *)
(* and replays.                                                            *)
(***************************************************************************)
EXTENDS EventQueue, FiniteSetTheorems, SequenceTheorems, TLAPS

-----------------------------------------------------------------------------
(* The list a tick works through.                                          *)

\* No two members of a finite set of numbers have as many members up to them,
\* so that every place of the list is taken.
LEMMA RankTaken ==
  ASSUME NEW S \in SUBSET Event, NEW i \in 1..Cardinality(S)
  PROVE  \E e \in S : Cardinality({d \in S : d <= e}) = i
<1> DEFINE n == Cardinality(S)
<1> DEFINE rank == [e \in S |-> Cardinality({d \in S : d <= e})]
<1>1. IsFiniteSet(S) /\ n \in Nat /\ S \subseteq Nat
  <2>1. IsFiniteSet(Event) /\ Event \subseteq Nat
    BY QueueBounds, FS_Interval DEF Event
  <2> QED BY <2>1, FS_Subset, FS_CardinalityType
<1>2. ASSUME NEW e \in S
      PROVE  /\ {d \in S : d <= e} \subseteq S /\ e \in {d \in S : d <= e}
             /\ IsFiniteSet({d \in S : d <= e})
             /\ rank[e] \in 1..n
  <2> DEFINE T == {d \in S : d <= e}
  <2>1. T \in SUBSET S /\ e \in T
    BY <1>1
  <2>2. IsFiniteSet(T) /\ Cardinality(T) <= n /\ Cardinality(T) \in Nat
    BY <1>1, <2>1, FS_Subset, FS_CardinalityType
  <2>3. Cardinality(T) # 0
    BY <2>1, <2>2, FS_EmptySet
  <2>4. rank[e] = Cardinality(T)
    OBVIOUS
  <2> HIDE DEF rank, n
  <2> QED BY <1>1, <2>1, <2>2, <2>3, <2>4
<1>3. ASSUME NEW d \in S, NEW e \in S, d < e PROVE rank[d] # rank[e]
  <2> DEFINE D == {x \in S : x <= d}
  <2> DEFINE E == {x \in S : x <= e}
  <2>1. D \in SUBSET E /\ e \in E /\ e \notin D
    <3>1. d \in Nat /\ e \in Nat /\ \A x \in S : x \in Nat
      BY <1>1
    <3>2. \A x \in S : x <= d => x <= e
      BY <1>3, <3>1
    <3>3. e <= e /\ ~ (e <= d)
      BY <1>3, <3>1
    <3> QED BY <3>2, <3>3
  <2>2. IsFiniteSet(E)
    BY <1>2
  <2>3. Cardinality(D) # Cardinality(E)
    BY <2>1, <2>2, FS_Subset
  <2> QED BY <2>3
<1>4. rank \in Injection(S, 1..n)
  <2>1. rank \in [S -> 1..n]
    BY <1>2
  <2>2. ASSUME NEW d \in S, NEW e \in S, rank[d] = rank[e] PROVE d = e
    <3>1. d < e \/ e < d \/ d = e
      BY <1>1
    <3> QED BY <1>3, <2>2, <3>1
  <2> HIDE DEF rank
  <2>3. DOMAIN rank = S
    BY <2>1
  <2> QED BY <2>1, <2>2, <2>3 DEF Injection, IsInjective
<1>5. IsFiniteSet(1..n) /\ Cardinality(1..n) = n
  BY <1>1, FS_Interval
<1>6. rank \in Surjection(S, 1..n)
  BY <1>4, <1>5, FS_Injection
<1>7. \E e \in S : rank[e] = i
  <2> HIDE DEF rank
  <2> QED BY <1>6 DEF Surjection
<1> QED BY <1>7

\* The list holds events of the set it was made from.
LEMMA OldestList ==
  ASSUME NEW S \in SUBSET Event
  PROVE  Oldest(S) \in Seq(Event)
<1> DEFINE n == IF Cardinality(S) < Batch THEN Cardinality(S) ELSE Batch
<1> DEFINE f == [i \in 1..n |-> CHOOSE e \in S : Cardinality({d \in S : d <= e}) = i]
<1>1. Cardinality(S) \in Nat /\ Batch \in Nat
  <2>1. IsFiniteSet(Event)
    BY QueueBounds, FS_Interval DEF Event
  <2> QED BY <2>1, FS_Subset, FS_CardinalityType, QueueBounds
<1>2. n \in Nat /\ n <= Cardinality(S)
  BY <1>1
<1>3. Oldest(S) = f
  BY DEF Oldest
<1>4. ASSUME NEW i \in 1..n PROVE f[i] \in Event
  <2>1. i \in 1..Cardinality(S)
    BY <1>1, <1>2
  <2>2. \E e \in S : Cardinality({d \in S : d <= e}) = i
    BY <2>1, RankTaken
  <2>3. f[i] = CHOOSE e \in S : Cardinality({d \in S : d <= e}) = i
    OBVIOUS
  <2> QED BY <2>2, <2>3
<1> HIDE DEF n
<1>5. f \in [1..n -> Event]
  BY <1>4
<1> HIDE DEF f
<1> QED BY <1>2, <1>3, <1>5, IsASeq

-----------------------------------------------------------------------------
(* What the steps do to runners and rows.                                  *)

RunRow == [at : RunPlace, todo : Seq(Event), seen : Nat]
QueueRow == [saved : BOOLEAN, processed : BOOLEAN, retry : Nat, dead : BOOLEAN,
             recent : BOOLEAN]
Busy == {"reset", "dispatch", "mark", "count", "fail"}

OnlyRun(r) ==
  /\ run' \in [Runner -> RunRow]
  /\ \A s \in Runner \ {r} : run'[s] = run[s]

\* A runner goes to a place, with what it had.
LEMMA GoesEffect ==
  ASSUME run \in [Runner -> RunRow], NEW r \in Runner, NEW place \in RunPlace,
         RunGoes(r, place)
  PROVE  /\ OnlyRun(r) /\ run'[r].at = place
         /\ run'[r].todo = run[r].todo /\ run'[r].seen = run[r].seen
<1> DEFINE v == [run[r] EXCEPT !.at = place]
<1>1. run[r] \in RunRow
  OBVIOUS
<1>2. /\ v \in RunRow /\ v.at = place /\ v.todo = run[r].todo
      /\ v.seen = run[r].seen
  BY <1>1 DEF RunRow
<1>3. run' = [run EXCEPT ![r] = v]
  BY DEF RunGoes
<1> HIDE DEF v
<1>4. OnlyRun(r) /\ run'[r] = v
  BY <1>2, <1>3 DEF OnlyRun
<1> QED BY <1>2, <1>4

\* A runner is at a place with a list and a count.
LEMMA RowEffect ==
  ASSUME run \in [Runner -> RunRow], NEW r \in Runner, NEW place \in RunPlace,
         NEW list \in Seq(Event), NEW n \in Nat,
         run' = [run EXCEPT ![r] = [at |-> place, todo |-> list, seen |-> n]]
  PROVE  /\ OnlyRun(r) /\ run'[r].at = place
         /\ run'[r].todo = list /\ run'[r].seen = n
<1> DEFINE v == [at |-> place, todo |-> list, seen |-> n]
<1>1. v \in RunRow
  BY DEF RunRow
<1> HIDE DEF v
<1>2. OnlyRun(r) /\ run'[r] = v
  BY <1>1 DEF OnlyRun, v
<1> QED BY <1>2 DEF v

\* A runner gets a list.
LEMMA ListEffect ==
  ASSUME run \in [Runner -> RunRow], NEW r \in Runner, NEW list \in Seq(Event),
         run' = [run EXCEPT ![r] = [@ EXCEPT !.at = "dispatch", !.todo = list]]
  PROVE  OnlyRun(r) /\ run'[r].at = "dispatch" /\ run'[r].todo = list
<1> DEFINE v == [run[r] EXCEPT !.at = "dispatch", !.todo = list]
<1>1. run[r] \in RunRow /\ "dispatch" \in RunPlace
  BY DEF RunPlace
<1>2. v \in RunRow /\ v.at = "dispatch" /\ v.todo = list
  BY <1>1 DEF RunRow
<1>3. run' = [run EXCEPT ![r] = v]
  OBVIOUS
<1> HIDE DEF v
<1>4. OnlyRun(r) /\ run'[r] = v
  BY <1>2, <1>3 DEF OnlyRun
<1> QED BY <1>2, <1>4

\* A runner reads a count.
LEMMA SeenEffect ==
  ASSUME run \in [Runner -> RunRow], NEW r \in Runner, NEW n \in Nat,
         run' = [run EXCEPT ![r] = [@ EXCEPT !.at = "fail", !.seen = n]]
  PROVE  /\ OnlyRun(r) /\ run'[r].at = "fail" /\ run'[r].todo = run[r].todo
         /\ run'[r].seen = n
<1> DEFINE v == [run[r] EXCEPT !.at = "fail", !.seen = n]
<1>1. run[r] \in RunRow /\ "fail" \in RunPlace
  BY DEF RunPlace
<1>2. v \in RunRow /\ v.at = "fail" /\ v.todo = run[r].todo /\ v.seen = n
  BY <1>1 DEF RunRow
<1>3. run' = [run EXCEPT ![r] = v]
  OBVIOUS
<1> HIDE DEF v
<1>4. OnlyRun(r) /\ run'[r] = v
  BY <1>2, <1>3 DEF OnlyRun
<1> QED BY <1>2, <1>4

\* A runner that rests has nothing to do.
LEMMA RestType == NoRun \in RunRow /\ NoRun.at = "idle"
BY DEF NoRun, RunRow, RunPlace

\* A runner comes to the end of one event: it has another, or rests, and then
\* its tick is over.
LEMMA NextEffect ==
  ASSUME run \in [Runner -> RunRow], NEW r \in Runner, run[r].todo # <<>>,
         NextOrEnd(r)
  PROVE  /\ OnlyRun(r)
         /\ \/ /\ run'[r].at = "dispatch" /\ run'[r].todo # <<>>
               /\ UNCHANGED taskVars
            \/ /\ run'[r].at = "idle"
               /\ IF r \in Ticks THEN TickEnds(r) ELSE UNCHANGED taskVars
<1> DEFINE rest == Tail(run[r].todo)
<1>1. rest \in Seq(Event)
  <2>1. run[r] \in RunRow
    OBVIOUS
  <2>2. run[r].todo \in Seq(Event)
    BY <2>1 DEF RunRow
  <2> QED BY <2>2, HeadTailProperties
<1>2. "dispatch" \in RunPlace /\ 0 \in Nat
  BY DEF RunPlace
<1>3. CASE rest # <<>>
  <2>1. /\ run' = [run EXCEPT ![r] = [at |-> "dispatch", todo |-> rest, seen |-> 0]]
        /\ UNCHANGED taskVars
    BY <1>3 DEF NextOrEnd
  <2> HIDE DEF rest
  <2> QED BY <1>1, <1>2, <1>3, <2>1, RowEffect
<1>4. CASE rest = <<>>
  <2>1. /\ run' = [run EXCEPT ![r] = NoRun]
        /\ IF r \in Ticks THEN TickEnds(r) ELSE UNCHANGED taskVars
    BY <1>4 DEF NextOrEnd
  <2> QED BY <2>1, RestType DEF OnlyRun
<1> QED BY <1>3, <1>4

OnlyRow(e) ==
  /\ queue' \in [Event -> QueueRow]
  /\ \A d \in Event \ {e} : queue'[d] = queue[d]

\* Emitting, handling and ageing leave an event's count and verdict alone.
LEMMA FlagEffect ==
  ASSUME queue \in [Event -> QueueRow], NEW e \in Event,
         \/ queue' = [queue EXCEPT ![e] = [@ EXCEPT !.saved = TRUE]]
         \/ queue' = [queue EXCEPT ![e] = [@ EXCEPT !.processed = TRUE]]
         \/ queue' = [queue EXCEPT ![e] = [@ EXCEPT !.recent = FALSE]]
  PROVE  OnlyRow(e) /\ queue'[e].retry = queue[e].retry /\ queue'[e].dead = queue[e].dead
<1>1. queue[e] \in QueueRow
  OBVIOUS
<1>2. PICK v \in QueueRow :
        /\ v.retry = queue[e].retry /\ v.dead = queue[e].dead
        /\ queue' = [queue EXCEPT ![e] = v]
  <2>1. /\ [queue[e] EXCEPT !.saved = TRUE] \in QueueRow
        /\ [queue[e] EXCEPT !.saved = TRUE].retry = queue[e].retry
        /\ [queue[e] EXCEPT !.saved = TRUE].dead = queue[e].dead
    BY <1>1 DEF QueueRow
  <2>2. /\ [queue[e] EXCEPT !.processed = TRUE] \in QueueRow
        /\ [queue[e] EXCEPT !.processed = TRUE].retry = queue[e].retry
        /\ [queue[e] EXCEPT !.processed = TRUE].dead = queue[e].dead
    BY <1>1 DEF QueueRow
  <2>3. /\ [queue[e] EXCEPT !.recent = FALSE] \in QueueRow
        /\ [queue[e] EXCEPT !.recent = FALSE].retry = queue[e].retry
        /\ [queue[e] EXCEPT !.recent = FALSE].dead = queue[e].dead
    BY <1>1 DEF QueueRow
  <2> QED BY <2>1, <2>2, <2>3
<1> QED BY <1>2 DEF OnlyRow

\* A reset forgets the count and the verdict.
LEMMA ResetEffect ==
  ASSUME queue \in [Event -> QueueRow], NEW e \in Event,
         queue' = [queue EXCEPT ![e] = [@ EXCEPT !.dead = FALSE, !.retry = 0,
                                                 !.processed = FALSE]]
  PROVE  OnlyRow(e) /\ queue'[e].retry = 0 /\ queue'[e].dead = FALSE
<1> DEFINE v == [queue[e] EXCEPT !.dead = FALSE, !.retry = 0, !.processed = FALSE]
<1>1. queue[e] \in QueueRow
  OBVIOUS
<1>2. v \in QueueRow /\ v.retry = 0 /\ v.dead = FALSE
  BY <1>1 DEF QueueRow
<1>3. queue' = [queue EXCEPT ![e] = v]
  OBVIOUS
<1> HIDE DEF v
<1>4. OnlyRow(e) /\ queue'[e] = v
  BY <1>2, <1>3 DEF OnlyRow
<1> QED BY <1>2, <1>4

\* A failure writes a count and the verdict that follows.
LEMMA FailEffect ==
  ASSUME queue \in [Event -> QueueRow], NEW e \in Event, NEW n \in Nat, NEW b \in BOOLEAN,
         queue' = [queue EXCEPT ![e] = [@ EXCEPT !.retry = n, !.dead = b]]
  PROVE  OnlyRow(e) /\ queue'[e].retry = n /\ queue'[e].dead = b
<1> DEFINE v == [queue[e] EXCEPT !.retry = n, !.dead = b]
<1>1. queue[e] \in QueueRow
  OBVIOUS
<1>2. v \in QueueRow /\ v.retry = n /\ v.dead = b
  BY <1>1 DEF QueueRow
<1>3. queue' = [queue EXCEPT ![e] = v]
  OBVIOUS
<1> HIDE DEF v
<1>4. OnlyRow(e) /\ queue'[e] = v
  BY <1>2, <1>3 DEF OnlyRow
<1> QED BY <1>2, <1>4

-----------------------------------------------------------------------------
(* The loop of a process.                                                  *)

\* A process has one tick at a time.
OneTick == \A t, u \in inFlight : t[1] = u[1] => t = u

\* A tick starts alone, ...
LEMMA TickEffect ==
  ASSUME TaskTypeOK, OneTick, NEW p \in Process, NEW k \in Slot, Tick(p, k)
  PROVE  /\ TaskTypeOK' /\ OneTick'
         /\ <<p, k>> \notin inFlight /\ inFlight' = inFlight \cup {<<p, k>>}
<1>1. /\ inFlight' = inFlight \cup {<<p, k>>} /\ UNCHANGED <<up, stopping>>
      /\ p \in up /\ TicksOf(p) = {} /\ <<p, k>> \notin inFlight
  BY DEF Tick, FirstFree
<1>2. \A t \in inFlight : t[1] # p
  BY <1>1 DEF TicksOf
<1>3. <<p, k>>[1] = p /\ <<p, k>> \in up \X Slot
  BY <1>1
<1>4. TaskTypeOK'
  BY <1>1, <1>3 DEF TaskTypeOK
<1>5. OneTick'
  BY <1>1, <1>2, <1>3 DEF OneTick
<1> QED BY <1>1, <1>4, <1>5

\* ... ends alone, ...
LEMMA TickEndEffect ==
  ASSUME TaskTypeOK, OneTick, NEW t, TickEnds(t)
  PROVE  TaskTypeOK' /\ OneTick' /\ inFlight' = inFlight \ {t}
BY DEF TaskTypeOK, OneTick, TickEnds

\* ... or goes with its process.
LEMMA GoneEffect ==
  ASSUME TaskTypeOK, OneTick, NEW p \in Process, ProcessGone(p)
  PROVE  TaskTypeOK' /\ OneTick' /\ inFlight' = inFlight \ TicksOf(p)
<1>1. /\ up' = up \ {p} /\ stopping' = stopping \ {p}
      /\ inFlight' = inFlight \ TicksOf(p)
  BY DEF ProcessGone
<1>2. inFlight' \subseteq up' \X Slot
  <2>1. ASSUME NEW t \in inFlight, t[1] # p PROVE t \in up' \X Slot
    <3>1. PICK q \in up, k \in Slot : t = <<q, k>>
      BY DEF TaskTypeOK
    <3>2. q # p
      BY <2>1, <3>1
    <3> QED BY <1>1, <3>1, <3>2
  <2> QED BY <1>1, <2>1 DEF TicksOf
<1> QED BY <1>1, <1>2 DEF TaskTypeOK, OneTick

LEMMA StartStopEffect ==
  ASSUME TaskTypeOK, OneTick, NEW p \in Process, TaskStart(p) \/ Stop(p)
  PROVE  TaskTypeOK' /\ OneTick' /\ inFlight' = inFlight
<1>1. inFlight' = inFlight /\ OneTick'
  BY DEF TaskStart, Stop, OneTick
<1>2. CASE TaskStart(p)
  <2>1. up' = up \cup {p} /\ UNCHANGED <<stopping, inFlight>>
    BY <1>2 DEF TaskStart
  <2>2. inFlight' \subseteq up' \X Slot
    BY <2>1 DEF TaskTypeOK
  <2> QED BY <1>1, <2>1, <2>2 DEF TaskTypeOK
<1>3. CASE Stop(p)
  BY <1>1, <1>3 DEF Stop, TaskTypeOK
<1> QED BY <1>2, <1>3

-----------------------------------------------------------------------------
(* Type correctness, and who is at work.                                   *)

\* A runner that handles an event has one, and a tick that is at work is in
\* flight, the only one of its process.
RunnersInv ==
  /\ \A r \in Runner : run[r].at \in Busy => run[r].todo # <<>>
  /\ \A t \in Ticks : run[t].at # "idle" => t \in inFlight
  /\ OneTick

\* The columns that are neither loops nor runners.
LedgerOK ==
  /\ queue \in [Event -> QueueRow]
  /\ tally \in [Event -> Nat] /\ unsure \subseteq Event
  /\ replays \in 0..MaxReplays /\ lapses \in 0..QueueFaults

LEMMA TypeParts ==
  QueueTypeOK <=> TaskTypeOK /\ LedgerOK /\ run \in [Runner -> RunRow]
BY DEF QueueTypeOK, LedgerOK, QueueRow, RunRow

LEMMA RunPlaces == RunPlace = Busy \cup {"idle", "fetch"}
BY DEF RunPlace, Busy

\* The event a busy runner handles.
LEMMA CurrentEvent ==
  ASSUME run \in [Runner -> RunRow], RunnersInv, NEW r \in Runner, run[r].at \in Busy
  PROVE  Current(r) \in Event /\ run[r].todo # <<>>
<1>1. run[r] \in RunRow
  OBVIOUS
<1>2. run[r].todo \in Seq(Event) /\ run[r].todo # <<>>
  BY <1>1 DEF RunRow, RunnersInv
<1> QED BY <1>2, HeadTailProperties DEF Current

\* Forgetting runners leaves the others.
LEMMA ForgetEffect ==
  ASSUME run \in [Runner -> RunRow], NEW S, Forget(S)
  PROVE  /\ run' \in [Runner -> RunRow]
         /\ \A r \in Runner : IF r \in S THEN run'[r].at = "idle" ELSE run'[r] = run[r]
BY RestType DEF Forget

\* What a runner's step does to loops and runners.
LEMMA RunnerStep ==
  ASSUME QueueTypeOK, RunnersInv, NEW r \in Runner, RunStep(r)
  PROVE  TaskTypeOK' /\ RunnersInv' /\ OnlyRun(r)
<1>1. TaskTypeOK /\ OneTick /\ run \in [Runner -> RunRow]
  BY TypeParts DEF RunnersInv
<1>2. ASSUME OnlyRun(r), UNCHANGED taskVars, run[r].at # "idle",
             run'[r].at \in Busy => run'[r].todo # <<>>
      PROVE  TaskTypeOK' /\ RunnersInv'
  <2>1. UNCHANGED <<up, stopping, inFlight>>
    BY <1>2 DEF taskVars
  <2>2. TaskTypeOK' /\ OneTick'
    BY <1>1, <2>1 DEF TaskTypeOK, OneTick
  <2>3. \A s \in Runner : run'[s].at \in Busy => run'[s].todo # <<>>
    BY <1>2 DEF RunnersInv, OnlyRun
  <2>4. Ticks \subseteq Runner
    BY DEF Runner
  <2>5. ASSUME NEW t \in Ticks, run'[t].at # "idle" PROVE t \in inFlight'
    <3>1. run[t].at # "idle"
      BY <1>2, <2>4, <2>5 DEF OnlyRun
    <3> QED BY <2>1, <3>1 DEF RunnersInv
  <2> QED BY <2>2, <2>3, <2>5 DEF RunnersInv
<1>3. ASSUME OnlyRun(r), run'[r].at = "idle",
             TickEnds(r) \/ (r \notin Ticks /\ UNCHANGED taskVars)
      PROVE  TaskTypeOK' /\ RunnersInv'
  <2>1. /\ TaskTypeOK' /\ OneTick'
        /\ inFlight \ {r} \subseteq inFlight'
    <3>1. CASE TickEnds(r)
      BY <1>1, <3>1, TickEndEffect
    <3>2. CASE UNCHANGED taskVars
      BY <1>1, <3>2 DEF TaskTypeOK, OneTick, taskVars
    <3> QED BY <1>3, <3>1, <3>2
  <2>2. Ticks \subseteq Runner /\ "idle" \notin Busy
    BY DEF Runner, Busy
  <2>3. \A s \in Runner : run'[s].at \in Busy => run'[s].todo # <<>>
    BY <1>3, <2>2 DEF RunnersInv, OnlyRun
  <2>4. \A t \in Ticks : run'[t].at # "idle" => t \in inFlight'
    BY <1>3, <2>1, <2>2 DEF RunnersInv, OnlyRun
  <2> QED BY <2>1, <2>3, <2>4 DEF RunnersInv
<1>4. ASSUME run[r].todo # <<>>, run[r].at # "idle", NextOrEnd(r)
      PROVE  TaskTypeOK' /\ RunnersInv' /\ OnlyRun(r)
  <2>1. CASE UNCHANGED taskVars /\ run'[r].at = "dispatch" /\ run'[r].todo # <<>>
    BY <1>1, <1>2, <1>4, <2>1, NextEffect
  <2>2. CASE /\ run'[r].at = "idle"
             /\ IF r \in Ticks THEN TickEnds(r) ELSE UNCHANGED taskVars
    BY <1>1, <1>3, <1>4, <2>2, NextEffect
  <2> QED BY <1>1, <1>4, <2>1, <2>2, NextEffect
<1>5. {"dispatch", "mark", "count"} \subseteq RunPlace
      /\ {"reset", "dispatch", "mark", "count", "fail"} = Busy
  BY DEF RunPlace, Busy
<1>6. CASE Fetch(r)
  <2> DEFINE list == Oldest(Eligible)
  <2>1. Eligible \in SUBSET Event
    BY DEF Eligible
  <2>2. list \in Seq(Event)
    BY <2>1, OldestList
  <2>3. run[r].at = "fetch"
    BY <1>6 DEF Fetch, RunAt
  <2>4. CASE list # <<>>
    <3>1. /\ run' = [run EXCEPT ![r] = [@ EXCEPT !.at = "dispatch", !.todo = list]]
          /\ UNCHANGED taskVars
      BY <1>6, <2>4 DEF Fetch
    <3> HIDE DEF list
    <3> QED BY <1>1, <1>2, <2>2, <2>3, <2>4, <3>1, ListEffect
  <2>5. CASE list = <<>>
    <3>1. run' = [run EXCEPT ![r] = NoRun] /\ TickEnds(r)
      BY <1>6, <2>5 DEF Fetch
    <3>2. OnlyRun(r) /\ run'[r].at = "idle"
      BY <1>1, <3>1, RestType DEF OnlyRun
    <3> QED BY <1>3, <3>1, <3>2
  <2> QED BY <2>4, <2>5
<1>7. CASE ResetForReplay(r)
  <2>1. RunGoes(r, "dispatch") /\ UNCHANGED taskVars /\ run[r].at = "reset"
    BY <1>7 DEF ResetForReplay, RunAt
  <2> QED BY <1>1, <1>2, <1>5, <2>1, GoesEffect DEF RunnersInv
<1>8. CASE Dispatch(r)
  <2>1. PICK place \in {"mark", "count"} : RunGoes(r, place)
    BY <1>8 DEF Dispatch
  <2>2. UNCHANGED taskVars /\ run[r].at = "dispatch"
    BY <1>8 DEF Dispatch, RunAt
  <2> QED BY <1>1, <1>2, <1>5, <2>1, <2>2, GoesEffect DEF RunnersInv
<1>9. CASE MarkEventProcessed(r)
  <2>1. run[r].at = "mark" /\ NextOrEnd(r)
    BY <1>9 DEF MarkEventProcessed, RunAt
  <2> QED BY <1>1, <1>4, <1>5, <2>1 DEF RunnersInv
<1>10. CASE CountRead(r)
  <2>1. run[r].at = "count" /\ UNCHANGED taskVars
    BY <1>10 DEF CountRead, RunAt
  <2>2. Current(r) \in Event
    BY <1>1, <1>5, <2>1, CurrentEvent
  <2>3. queue[Current(r)].retry \in Nat
    <3>1. queue[Current(r)] \in QueueRow
      BY <2>2, TypeParts DEF LedgerOK
    <3> QED BY <3>1 DEF QueueRow
  <2>4. PICK n \in Nat : run' = [run EXCEPT ![r] = [@ EXCEPT !.at = "fail", !.seen = n]]
    BY <1>10, <2>3 DEF CountRead
  <2>5. OnlyRun(r) /\ run'[r].at = "fail" /\ run'[r].todo = run[r].todo
    BY <1>1, <2>4, SeenEffect
  <2>6. run[r].todo # <<>> /\ run[r].at # "idle"
    BY <1>5, <2>1 DEF RunnersInv
  <2> QED BY <1>2, <2>1, <2>5, <2>6
<1>11. CASE CountWrite(r)
  <2>1. run[r].at = "fail" /\ NextOrEnd(r)
    BY <1>11 DEF CountWrite, RunAt
  <2> QED BY <1>1, <1>4, <1>5, <2>1 DEF RunnersInv
<1> QED BY <1>6, <1>7, <1>8, <1>9, <1>10, <1>11 DEF RunStep

\* Every step keeps the types, and who is at work.
LEMMA TypeStep ==
  QueueTypeOK /\ RunnersInv /\ [QueueNext]_queueVars => QueueTypeOK' /\ RunnersInv'
<1> SUFFICES ASSUME QueueTypeOK, RunnersInv, [QueueNext]_queueVars
             PROVE  QueueTypeOK' /\ RunnersInv'
  OBVIOUS
<1>1. /\ TaskTypeOK /\ OneTick /\ LedgerOK /\ run \in [Runner -> RunRow]
      /\ queue \in [Event -> QueueRow]
  BY TypeParts DEF RunnersInv, LedgerOK
<1> DEFINE Works == TaskTypeOK' /\ RunnersInv' /\ run' \in [Runner -> RunRow]
<1>2. ASSUME Works, LedgerOK' PROVE QueueTypeOK' /\ RunnersInv'
  BY <1>2 DEF QueueTypeOK, LedgerOK, QueueRow, RunRow
<1>3. ASSUME UNCHANGED <<taskVars, run>> PROVE Works
  BY <1>1, <1>3 DEF taskVars, TaskTypeOK, RunnersInv, OneTick
<1>4. ASSUME UNCHANGED <<queue, counts, replays>>, lapses' = lapses \/ Lapse PROVE LedgerOK'
  BY <1>1, <1>4, QueueBounds DEF LedgerOK, counts, Lapse
<1>5. CASE UNCHANGED queueVars
  BY <1>2, <1>3, <1>4, <1>5 DEF queueVars
<1>6. ASSUME NEW e \in Event, Emit(e) \/ EventAges(e) PROVE Works /\ LedgerOK'
  <2>1. UNCHANGED <<taskVars, run, counts, replays, lapses>>
    BY <1>6 DEF Emit, EventAges
  <2>2. queue' \in [Event -> QueueRow]
    BY <1>1, <1>6, FlagEffect DEF Emit, EventAges, OnlyRow
  <2> QED BY <1>1, <1>3, <2>1, <2>2 DEF LedgerOK, counts
<1>7. ASSUME NEW r \in Runner, RunStep(r) PROVE Works /\ LedgerOK'
  <2>1. Works
    BY <1>7, RunnerStep DEF OnlyRun
  <2>2. ASSUME run[r].at \in Busy PROVE Current(r) \in Event
    BY <1>1, <2>2, CurrentEvent
  <2>3. {"reset", "mark", "count", "fail"} \subseteq Busy
    BY DEF Busy
  <2>4. CASE Fetch(r) \/ Dispatch(r)
    BY <1>4, <2>1, <2>4 DEF Fetch, Dispatch
  <2>5. CASE ResetForReplay(r)
    <3>1. Current(r) \in Event
      BY <2>2, <2>3, <2>5 DEF ResetForReplay, RunAt
    <3>2. CASE UNCHANGED <<queue, counts>> /\ Lapse
      BY <1>4, <2>1, <2>5, <3>2 DEF ResetForReplay
    <3>3. CASE /\ queue' = [queue EXCEPT ![Current(r)] =
                              [@ EXCEPT !.dead = FALSE, !.retry = 0, !.processed = FALSE]]
               /\ tally' = [tally EXCEPT ![Current(r)] = 0]
               /\ Unsettles(Current(r), Amid(r, Current(r)))
               /\ UNCHANGED lapses
      <4>1. queue' \in [Event -> QueueRow]
        BY <1>1, <3>1, <3>3, ResetEffect DEF OnlyRow
      <4>2. tally' \in [Event -> Nat] /\ unsure' \subseteq Event
        BY <1>1, <3>1, <3>3 DEF LedgerOK, Unsettles
      <4> QED BY <1>1, <2>1, <2>5, <3>3, <4>1, <4>2 DEF LedgerOK, ResetForReplay
    <3> QED BY <2>5, <3>2, <3>3 DEF ResetForReplay
  <2>6. CASE MarkEventProcessed(r)
    <3>1. Current(r) \in Event
      BY <2>2, <2>3, <2>6 DEF MarkEventProcessed, RunAt
    <3>2. queue' \in [Event -> QueueRow]
      BY <1>1, <2>6, <3>1, FlagEffect DEF MarkEventProcessed, OnlyRow
    <3>3. lapses' \in 0..QueueFaults
      BY <1>1, <2>6, QueueBounds DEF MarkEventProcessed, Lapse, LedgerOK
    <3> QED BY <1>1, <2>1, <2>6, <3>2, <3>3 DEF LedgerOK, MarkEventProcessed, counts
  <2>7. CASE CountRead(r)
    <3>1. Current(r) \in Event
      BY <2>2, <2>3, <2>7 DEF CountRead, RunAt
    <3>2. unsure' \subseteq Event
      BY <1>1, <2>7, <3>1 DEF CountRead, Unsettles, LedgerOK
    <3>3. lapses' \in 0..QueueFaults
      <4>1. lapses' = lapses \/ Lapse
        BY <2>7 DEF CountRead
      <4> QED BY <1>1, <4>1, QueueBounds DEF Lapse, LedgerOK
    <3> QED BY <1>1, <2>1, <2>7, <3>2, <3>3 DEF LedgerOK, CountRead
  <2>8. CASE CountWrite(r)
    <3>1. Current(r) \in Event /\ run[r] \in RunRow
      BY <1>1, <2>2, <2>3, <2>8 DEF CountWrite, RunAt
    <3>2. run[r].seen + 1 \in Nat /\ (run[r].seen + 1 >= MaxRetries) \in BOOLEAN
      BY <3>1 DEF RunRow
    <3>3. CASE UNCHANGED <<queue, tally>> /\ Lapse
      BY <1>4, <2>1, <2>8, <3>3 DEF CountWrite, counts
    <3>4. CASE /\ queue' = [queue EXCEPT ![Current(r)] =
                              [@ EXCEPT !.retry = run[r].seen + 1,
                                        !.dead = run[r].seen + 1 >= MaxRetries]]
               /\ tally' = [tally EXCEPT ![Current(r)] =
                              IF Current(r) \in unsure THEN 0 ELSE @ + 1]
               /\ UNCHANGED lapses
      <4>1. queue' \in [Event -> QueueRow]
        BY <1>1, <3>1, <3>2, <3>4, FailEffect DEF OnlyRow
      <4>2. tally' \in [Event -> Nat]
        BY <1>1, <3>1, <3>4 DEF LedgerOK
      <4> QED BY <1>1, <2>1, <2>8, <3>4, <4>1, <4>2 DEF LedgerOK, CountWrite
    <3> QED BY <2>8, <3>3, <3>4 DEF CountWrite
  <2> QED BY <1>7, <2>1, <2>4, <2>5, <2>6, <2>7, <2>8 DEF RunStep
<1>8. ASSUME NEW p \in Process, LoopTick(p) PROVE Works /\ LedgerOK'
  <2>1. PICK k \in Slot : /\ Tick(p, k)
                         /\ run' = [run EXCEPT ![<<p, k>>] = [@ EXCEPT !.at = "fetch"]]
    BY <1>8 DEF LoopTick
  <2>2. LedgerOK'
    BY <1>4, <1>8 DEF LoopTick
  <2> DEFINE t == <<p, k>>
  <2>3. t \in Ticks /\ t \in Runner /\ "fetch" \in RunPlace /\ "fetch" \notin Busy
    BY DEF Ticks, Runner, RunPlace, Busy
  <2>4. /\ TaskTypeOK' /\ OneTick' /\ inFlight' = inFlight \cup {t}
    BY <1>1, <2>1, TickEffect
  <2>5. RunGoes(t, "fetch")
    BY <2>1 DEF RunGoes
  <2> HIDE DEF t
  <2>6. OnlyRun(t) /\ run'[t].at = "fetch"
    BY <1>1, <2>3, <2>5, GoesEffect
  <2>7. RunnersInv'
    <3>1. \A r \in Runner : run'[r].at \in Busy => run'[r].todo # <<>>
      BY <2>3, <2>6 DEF RunnersInv, OnlyRun
    <3>2. \A u \in Ticks : run'[u].at # "idle" => u \in inFlight'
      BY <2>4, <2>6 DEF RunnersInv, OnlyRun, Runner
    <3> QED BY <2>4, <3>1, <3>2 DEF RunnersInv
  <2> QED BY <2>2, <2>4, <2>6, <2>7 DEF OnlyRun
<1>9. ASSUME NEW p \in Process, LoopStarts(p) \/ LoopStops(p) PROVE Works /\ LedgerOK'
  <2>1. UNCHANGED <<queue, run, counts, replays, lapses>>
    BY <1>9 DEF LoopStarts, LoopStops
  <2>2. TaskTypeOK' /\ OneTick' /\ inFlight' = inFlight
    BY <1>1, <1>9, StartStopEffect DEF LoopStarts, LoopStops
  <2> QED BY <1>1, <1>4, <2>1, <2>2 DEF RunnersInv
<1>10. ASSUME NEW p \in Process, LoopStopped(p) \/ LoopKilled(p) PROVE Works /\ LedgerOK'
  <2>1. ProcessGone(p) /\ Forget(TicksOf(p))
    BY <1>10 DEF LoopStopped, LoopKilled, Stopped, ProcessKilled
  <2>2. LedgerOK'
    BY <1>4, <1>10 DEF LoopStopped, LoopKilled
  <2>3. TaskTypeOK' /\ OneTick' /\ inFlight' = inFlight \ TicksOf(p)
    BY <1>1, <2>1, GoneEffect
  <2>4. /\ run' \in [Runner -> RunRow]
        /\ \A r \in Runner : IF r \in TicksOf(p) THEN run'[r].at = "idle"
                             ELSE run'[r] = run[r]
    BY <1>1, <2>1, ForgetEffect
  <2>5. "idle" \notin Busy /\ Ticks \subseteq Runner
    BY DEF Busy, Runner
  <2>6. RunnersInv'
    BY <2>3, <2>4, <2>5 DEF RunnersInv
  <2> QED BY <2>2, <2>3, <2>4, <2>6
<1>11. ASSUME NEW r \in Replay, NEW e \in Event, ReplayRead(r, e) PROVE Works /\ LedgerOK'
  <2>1. r \in Runner /\ r \notin Ticks /\ <<e>> \in Seq(Event) /\ <<e>> # <<>>
    BY ReplaysAreNotTicks DEF Runner
  <2>2. PICK place \in {"reset", "dispatch"} :
          run' = [run EXCEPT ![r] = [at |-> place, todo |-> <<e>>, seen |-> 0]]
    BY <1>11 DEF ReplayRead
  <2>3. place \in RunPlace /\ 0 \in Nat
    BY DEF RunPlace
  <2>4. OnlyRun(r) /\ run'[r].todo = <<e>>
    BY <1>1, <2>1, <2>2, <2>3, RowEffect
  <2>5. UNCHANGED <<taskVars, queue, counts, lapses>> /\ replays' \in 0..MaxReplays
    BY <1>1, <1>11, QueueBounds DEF ReplayRead, LedgerOK
  <2>6. TaskTypeOK' /\ OneTick' /\ inFlight' = inFlight
    BY <1>1, <2>5 DEF taskVars, TaskTypeOK, OneTick
  <2>7. RunnersInv'
    <3>1. \A s \in Runner : run'[s].at \in Busy => run'[s].todo # <<>>
      BY <2>1, <2>4 DEF RunnersInv, OnlyRun
    <3>2. \A u \in Ticks : run'[u].at # "idle" => u \in inFlight'
      BY <2>1, <2>4, <2>6 DEF RunnersInv, OnlyRun, Runner
    <3> QED BY <2>6, <3>1, <3>2 DEF RunnersInv
  <2>8. LedgerOK'
    BY <1>1, <2>5 DEF LedgerOK, counts
  <2> QED BY <2>4, <2>6, <2>7, <2>8 DEF OnlyRun
<1>12. ASSUME NEW r \in Replay, ReplayCut(r) PROVE Works /\ LedgerOK'
  <2>1. r \notin Ticks /\ "idle" \notin Busy /\ Ticks \subseteq Runner
    BY ReplaysAreNotTicks DEF Busy, Runner
  <2>2. UNCHANGED taskVars /\ Forget({r})
    BY <1>12 DEF ReplayCut
  <2>3. /\ run' \in [Runner -> RunRow]
        /\ \A s \in Runner : IF s \in {r} THEN run'[s].at = "idle" ELSE run'[s] = run[s]
    BY <1>1, <2>2, ForgetEffect
  <2>4. TaskTypeOK' /\ OneTick' /\ inFlight' = inFlight
    BY <1>1, <2>2 DEF taskVars, TaskTypeOK, OneTick
  <2>5. RunnersInv'
    BY <2>1, <2>3, <2>4 DEF RunnersInv
  <2>6. LedgerOK'
    BY <1>4, <1>12 DEF ReplayCut
  <2> QED BY <2>3, <2>4, <2>5, <2>6
<1>13. \A p \in Process, k \in Slot : <<p, k>> \in Runner
  BY DEF Runner, Ticks
<1>14. Replay \subseteq Runner
  BY DEF Runner
<1> HIDE DEF Works
<1> QED BY <1>2, <1>5, <1>6, <1>7, <1>8, <1>9, <1>10, <1>11, <1>12, <1>13, <1>14
        DEF QueueNext, LoopStep

\* An empty queue has the types.
LEMMA TypeInit == QueueInit => QueueTypeOK /\ RunnersInv
<1> SUFFICES ASSUME QueueInit PROVE QueueTypeOK /\ RunnersInv
  OBVIOUS
<1>1. Unstarted \in QueueRow
  BY DEF Unstarted, QueueRow
<1>2. queue \in [Event -> QueueRow] /\ run \in [Runner -> RunRow]
  BY <1>1, RestType DEF QueueInit
<1>3. TaskTypeOK /\ OneTick
  BY DEF QueueInit, TaskInit, TaskTypeOK, OneTick
<1>4. LedgerOK
  BY <1>2, QueueBounds DEF QueueInit, LedgerOK
<1>5. \A r \in Runner : run[r].at = "idle"
  BY RestType DEF QueueInit
<1>6. RunnersInv
  BY <1>3, <1>5 DEF RunnersInv, Busy, Runner
<1> QED BY <1>2, <1>3, <1>4, <1>6, TypeParts

\* Every reachable state of the queue and its loops is well-typed.
THEOREM QueueTypeCorrect == QueueSpec => []QueueTypeOK
BY TypeInit, TypeStep, PTL DEF QueueSpec

\* The retry loop handles one event at a time in a process: while a tick is at
\* work no other tick of that process is, however slow it is and however often
\* the process is stopped, killed and started again meanwhile.
THEOREM OneTickAtWork ==
  QueueSpec => [](\A t, u \in Ticks :
                    t[1] = u[1] /\ run[t].at # "idle" /\ run[u].at # "idle" => t = u)
<1>1. RunnersInv => \A t, u \in Ticks :
                      t[1] = u[1] /\ run[t].at # "idle" /\ run[u].at # "idle" => t = u
  BY DEF RunnersInv, OneTick
<1> QED BY <1>1, TypeInit, TypeStep, PTL DEF QueueSpec

-----------------------------------------------------------------------------
(* Retries.                                                                *)

\* Unless an event's tally is known to be upset: one runner at most is between
\* reading its count and writing it, with the count that is still there.
CountInv ==
  /\ \A r \in Runner : run[r].at = "fail" /\ Current(r) \notin unsure =>
       /\ run[r].seen = queue[Current(r)].retry
       /\ \A s \in Runner : run[s].at = "fail" /\ Current(s) = Current(r) => s = r
  /\ RetriesCounted

\* A runner that is neither counting before nor after leaves the counts alone.
LEMMA CountStep ==
  ASSUME QueueTypeOK, RunnersInv, CountInv, [QueueNext]_queueVars
  PROVE  CountInv'
<1>1. /\ LedgerOK /\ run \in [Runner -> RunRow] /\ queue \in [Event -> QueueRow]
      /\ tally \in [Event -> Nat]
  BY TypeParts DEF LedgerOK
<1> DEFINE CountsSame == /\ UNCHANGED counts
                         /\ \A e \in Event : /\ queue'[e].retry = queue[e].retry
                                             /\ queue'[e].dead = queue[e].dead
<1>2. \A r \in Runner : run[r].at = "fail" => Current(r) \in Event
  BY <1>1, CurrentEvent DEF Busy
<1>3. ASSUME CountsSame,
             \A r \in Runner : run'[r].at = "fail" => run'[r] = run[r]
      PROVE  CountInv'
  <2>1. RetriesCounted'
    BY <1>3 DEF CountInv, RetriesCounted, counts
  <2>2. \A r \in Runner : run'[r].at = "fail" =>
          run[r].at = "fail" /\ Current(r)' = Current(r) /\ run'[r].seen = run[r].seen
    BY <1>3 DEF Current
  <2> QED BY <1>2, <1>3, <2>1, <2>2 DEF CountInv, counts
<1>4. UNCHANGED queue => \A e \in Event : /\ queue'[e].retry = queue[e].retry
                                         /\ queue'[e].dead = queue[e].dead
  OBVIOUS
<1>5. ASSUME NEW r \in Runner, OnlyRun(r), run'[r].at # "fail"
      PROVE  \A s \in Runner : run'[s].at = "fail" => run'[s] = run[s]
  BY <1>5 DEF OnlyRun
<1>6. CASE UNCHANGED queueVars
  BY <1>3, <1>6 DEF queueVars
<1>7. ASSUME NEW e \in Event, Emit(e) \/ EventAges(e) PROVE CountInv'
  <2>1. UNCHANGED <<run, counts>>
    BY <1>7 DEF Emit, EventAges
  <2>2. /\ OnlyRow(e) /\ queue'[e].retry = queue[e].retry
        /\ queue'[e].dead = queue[e].dead
    BY <1>1, <1>7, FlagEffect DEF Emit, EventAges
  <2> QED BY <1>3, <2>1, <2>2 DEF OnlyRow
<1>8. ASSUME NEW r \in Runner, Fetch(r) \/ Dispatch(r) PROVE CountInv'
  <2>1. UNCHANGED <<queue, counts>> /\ OnlyRun(r)
    BY <1>8, RunnerStep DEF Fetch, Dispatch, RunStep
  <2>2. run'[r].at # "fail"
    <3>1. run[r] \in RunRow /\ r \in DOMAIN run
      BY <1>1
    <3>2. CASE Fetch(r)
      BY <3>1, <3>2, RestType DEF Fetch, RunRow
    <3>3. CASE Dispatch(r)
      BY <3>1, <3>3 DEF Dispatch, RunGoes, RunRow
    <3> QED BY <1>8, <3>2, <3>3
  <2> QED BY <1>3, <1>4, <1>5, <2>1, <2>2
<1>9. ASSUME NEW r \in Runner, NEW s \in Runner, s # r,
             run[r].at # "idle", run[s].at = "fail", ~ Amid(r, Current(s))
      PROVE  FALSE
  <2>1. r \in Ticks /\ s \in Ticks /\ r[1] = s[1]
    BY <1>9 DEF Amid, RunAt
  <2> QED BY <1>9, <2>1 DEF RunnersInv, OneTick
<1>10. ASSUME NEW r \in Runner, OnlyRun(r), run'[r].todo = run[r].todo,
              \A e \in Event \ {Current(r)} : /\ queue'[e].retry = queue[e].retry
                                              /\ queue'[e].dead = queue[e].dead
                                              /\ tally'[e] = tally[e],
              run[r].at # "idle", Unsettles(Current(r), Amid(r, Current(r)))
       PROVE  /\ \A s \in Runner \ {r} :
                   run'[s].at = "fail" /\ Current(s)' \notin unsure' =>
                     /\ run[s].at = "fail" /\ Current(s)' = Current(s)
                     /\ Current(s) # Current(r) /\ Current(s) \notin unsure
                     /\ run'[s].seen = queue'[Current(s)].retry
              /\ \A e \in Event \ unsure' : e # Current(r) =>
                   queue'[e].retry = tally'[e] /\ queue'[e].dead = (tally'[e] >= MaxRetries)
              /\ Current(r)' = Current(r)
  <2>1. unsure \subseteq unsure' /\ (Amid(r, Current(r)) => Current(r) \in unsure')
    BY <1>10 DEF Unsettles
  <2>2. ASSUME NEW s \in Runner \ {r}, run'[s].at = "fail", Current(s)' \notin unsure'
        PROVE  /\ run[s].at = "fail" /\ Current(s)' = Current(s)
               /\ Current(s) # Current(r) /\ Current(s) \notin unsure
               /\ run'[s].seen = queue'[Current(s)].retry
    <3>1. run'[s] = run[s]
      BY <1>10 DEF OnlyRun
    <3>2. run[s].at = "fail" /\ Current(s)' = Current(s) /\ Current(s) \in Event
      BY <1>2, <2>2, <3>1 DEF Current
    <3>3. Current(s) # Current(r)
      BY <1>9, <1>10, <2>1, <2>2, <3>2
    <3>4. run[s].seen = queue[Current(s)].retry
      BY <2>1, <2>2, <3>2 DEF CountInv
    <3> QED BY <1>10, <2>1, <2>2, <3>1, <3>2, <3>3, <3>4
  <2>3. Current(r)' = Current(r)
    BY <1>10 DEF Current
  <2> QED BY <1>10, <2>1, <2>2, <2>3 DEF CountInv, RetriesCounted
<1>11. ASSUME NEW r \in Runner, ResetForReplay(r) PROVE CountInv'
  <2> DEFINE e == Current(r)
  <2>1. run[r].at = "reset" /\ RunGoes(r, "dispatch")
    BY <1>11 DEF ResetForReplay, RunAt
  <2>2. /\ OnlyRun(r) /\ run'[r].at = "dispatch" /\ run'[r].todo = run[r].todo
    BY <1>1, <2>1, GoesEffect DEF RunPlace
  <2>3. e \in Event
    BY <1>1, <2>1, CurrentEvent DEF Busy
  <2>4. CASE UNCHANGED <<queue, counts>>
    BY <1>3, <1>4, <1>5, <2>2, <2>4
  <2>5. CASE /\ queue' = [queue EXCEPT ![e] = [@ EXCEPT !.dead = FALSE, !.retry = 0,
                                                       !.processed = FALSE]]
             /\ tally' = [tally EXCEPT ![e] = 0]
             /\ Unsettles(e, Amid(r, e))
    <3>1. OnlyRow(e) /\ queue'[e].retry = 0 /\ queue'[e].dead = FALSE
      BY <1>1, <2>3, <2>5, ResetEffect
    <3>2. tally'[e] = 0 /\ \A d \in Event \ {e} : tally'[d] = tally[d]
      BY <1>1, <2>3, <2>5
    <3>3. \A d \in Event \ {e} : /\ queue'[d].retry = queue[d].retry
                                  /\ queue'[d].dead = queue[d].dead
      BY <3>1 DEF OnlyRow
    <3>4. /\ \A s \in Runner \ {r} :
               run'[s].at = "fail" /\ Current(s)' \notin unsure' =>
                 /\ run[s].at = "fail" /\ Current(s)' = Current(s)
                 /\ Current(s) \notin unsure
                 /\ run'[s].seen = queue'[Current(s)].retry
          /\ \A d \in Event \ unsure' : d # e =>
               queue'[d].retry = tally'[d] /\ queue'[d].dead = (tally'[d] >= MaxRetries)
      BY <1>10, <2>1, <2>2, <2>5, <3>2, <3>3
    <3>5. (0 >= MaxRetries) = FALSE
      BY DEF MaxRetries
    <3>6. RetriesCounted'
      <4>1. queue'[e].retry = tally'[e] /\ queue'[e].dead = (tally'[e] >= MaxRetries)
        BY <3>1, <3>2, <3>5
      <4> HIDE DEF e
      <4> QED BY <3>4, <4>1 DEF RetriesCounted
    <3>7. \A s \in Runner : run'[s].at = "fail" => s # r
      BY <2>2
    <3>8. ASSUME NEW s \in Runner, run'[s].at = "fail", Current(s)' \notin unsure',
                 NEW u \in Runner, run'[u].at = "fail", Current(u)' = Current(s)'
          PROVE  u = s
      <4>1. /\ run[s].at = "fail" /\ run[u].at = "fail" /\ Current(u) = Current(s)
            /\ Current(s) \notin unsure
        BY <3>4, <3>7, <3>8
      <4> QED BY <4>1 DEF CountInv
    <3> HIDE DEF e
    <3> QED BY <3>4, <3>6, <3>7, <3>8 DEF CountInv
  <2> QED BY <1>11, <2>4, <2>5 DEF ResetForReplay
<1>12. ASSUME NEW r \in Runner, MarkEventProcessed(r) PROVE CountInv'
  <2>1. run[r].at = "mark" /\ NextOrEnd(r) /\ UNCHANGED counts
    BY <1>12 DEF MarkEventProcessed, RunAt
  <2>2. Current(r) \in Event /\ run[r].todo # <<>>
    BY <1>1, <2>1, CurrentEvent DEF Busy
  <2>3. OnlyRun(r) /\ run'[r].at # "fail"
    BY <1>1, <2>1, <2>2, NextEffect
  <2>4. CASE UNCHANGED queue
    BY <1>3, <1>4, <1>5, <2>1, <2>3, <2>4
  <2>5. CASE queue' = [queue EXCEPT ![Current(r)] = [@ EXCEPT !.processed = TRUE]]
    <3>1. /\ OnlyRow(Current(r)) /\ queue'[Current(r)].retry = queue[Current(r)].retry
          /\ queue'[Current(r)].dead = queue[Current(r)].dead
      BY <1>1, <2>2, <2>5, FlagEffect
    <3> QED BY <1>3, <1>5, <2>1, <2>3, <3>1 DEF OnlyRow
  <2> QED BY <1>12, <2>4, <2>5 DEF MarkEventProcessed
<1>13. ASSUME NEW r \in Runner, CountRead(r) PROVE CountInv'
  <2> DEFINE e == Current(r)
  <2>1. run[r].at = "count" /\ UNCHANGED <<queue, tally>>
    BY <1>13 DEF CountRead, RunAt
  <2>2. e \in Event
    BY <1>1, <2>1, CurrentEvent DEF Busy
  <2>3. queue[e].retry \in Nat
    <3>1. queue[e] \in QueueRow
      BY <1>1, <2>2
    <3> QED BY <3>1 DEF QueueRow
  <2>4. CASE /\ run' = [run EXCEPT ![r] = [@ EXCEPT !.at = "fail", !.seen = queue[e].retry]]
             /\ Unsettles(e, Amid(r, e))
    <3>1. /\ OnlyRun(r) /\ run'[r].at = "fail" /\ run'[r].todo = run[r].todo
          /\ run'[r].seen = queue[e].retry
      BY <1>1, <2>3, <2>4, SeenEffect
    <3>2. RetriesCounted'
      BY <2>1, <2>4 DEF CountInv, RetriesCounted, Unsettles
    <3>3. e \notin unsure' => \A s \in Runner : run'[s].at = "fail" /\ Current(s)' = e => s = r
      <4>1. ASSUME e \notin unsure', NEW s \in Runner, s # r, run'[s].at = "fail",
                   Current(s)' = e
            PROVE  FALSE
        <5>1. run[s].at = "fail" /\ Current(s) = e
          BY <3>1, <4>1 DEF OnlyRun, Current
        <5>2. ~ Amid(r, Current(s))
          BY <2>4, <4>1, <5>1 DEF Unsettles
        <5> QED BY <1>9, <2>1, <4>1, <5>1, <5>2
      <4> QED BY <4>1
    <3>4. Current(r)' = e
      BY <3>1 DEF Current
    <3>5. \A s \in Runner \ {r} :
            run'[s].at = "fail" /\ Current(s)' \notin unsure' =>
              /\ run[s].at = "fail" /\ Current(s)' = Current(s)
              /\ Current(s) # e /\ Current(s) \notin unsure
              /\ run'[s].seen = queue'[Current(s)].retry
      BY <1>10, <2>1, <2>4, <3>1
    <3>6. ASSUME NEW s \in Runner \ {r}, run'[s].at = "fail", Current(s)' \notin unsure',
                 NEW u \in Runner, run'[u].at = "fail", Current(u)' = Current(s)'
          PROVE  u = s
      <4>1. u # r /\ Current(u)' \notin unsure'
        BY <3>4, <3>5, <3>6
      <4>2. /\ run[s].at = "fail" /\ run[u].at = "fail" /\ Current(u) = Current(s)
            /\ Current(s) \notin unsure
        BY <3>5, <3>6, <4>1
      <4> QED BY <4>2 DEF CountInv
    <3> HIDE DEF e
    <3> QED BY <2>1, <3>1, <3>2, <3>3, <3>4, <3>5, <3>6 DEF CountInv
  <2>5. CASE /\ run' = [run EXCEPT ![r] = [@ EXCEPT !.at = "fail", !.seen = 0]]
             /\ Unsettles(e, TRUE)
    <3>1. /\ OnlyRun(r) /\ run'[r].todo = run[r].todo
      BY <1>1, <2>5, SeenEffect
    <3>2. unsure' = unsure \cup {e}
      BY <2>5 DEF Unsettles
    <3>3. RetriesCounted'
      BY <2>1, <3>2 DEF CountInv, RetriesCounted
    <3>4. Current(r)' = e /\ \A s \in Runner \ {r} : Current(s)' = Current(s) /\ run'[s] = run[s]
      BY <3>1 DEF Current, OnlyRun
    <3> HIDE DEF e
    <3> QED BY <2>1, <3>2, <3>3, <3>4 DEF CountInv
  <2> QED BY <1>13, <2>4, <2>5 DEF CountRead
<1>14. ASSUME NEW r \in Runner, CountWrite(r) PROVE CountInv'
  <2> DEFINE e == Current(r)
  <2> DEFINE n == run[r].seen + 1
  <2>1. run[r].at = "fail" /\ NextOrEnd(r) /\ UNCHANGED unsure
    BY <1>14 DEF CountWrite, RunAt
  <2>2. e \in Event /\ run[r].todo # <<>>
    BY <1>1, <2>1, CurrentEvent DEF Busy
  <2>3. OnlyRun(r) /\ run'[r].at # "fail"
    BY <1>1, <2>1, <2>2, NextEffect
  <2>4. CASE UNCHANGED <<queue, tally>>
    BY <1>3, <1>4, <1>5, <2>1, <2>3, <2>4 DEF counts
  <2>5. CASE /\ queue' = [queue EXCEPT ![e] = [@ EXCEPT !.retry = n, !.dead = n >= MaxRetries]]
             /\ tally' = [tally EXCEPT ![e] = IF e \in unsure THEN 0 ELSE @ + 1]
    <3>1. run[r].seen \in Nat
      <4>1. run[r] \in RunRow
        BY <1>1
      <4> QED BY <4>1 DEF RunRow
    <3>2. n \in Nat /\ (n >= MaxRetries) \in BOOLEAN
      BY <3>1
    <3>3. OnlyRow(e) /\ queue'[e].retry = n /\ queue'[e].dead = (n >= MaxRetries)
      BY <1>1, <2>2, <2>5, <3>2, FailEffect
    <3>4. \A d \in Event \ {e} : tally'[d] = tally[d] /\ queue'[d] = queue[d]
      BY <1>1, <2>2, <2>5, <3>3 DEF OnlyRow
    <3>5. e \notin unsure => tally'[e] = n
      <4>1. ASSUME e \notin unsure PROVE run[r].seen = tally[e]
        BY <2>1, <2>2, <4>1 DEF CountInv, RetriesCounted
      <4>2. e \notin unsure => tally'[e] = tally[e] + 1
        BY <1>1, <2>2, <2>5
      <4> QED BY <4>1, <4>2
    <3>6. RetriesCounted'
      BY <2>1, <3>3, <3>4, <3>5 DEF CountInv, RetriesCounted
    <3>7. \A s \in Runner : run'[s].at = "fail" =>
            s # r /\ run'[s] = run[s] /\ Current(s)' = Current(s) /\ Current(s) \in Event
      BY <1>2, <2>3 DEF OnlyRun, Current
    <3>8. ASSUME NEW s \in Runner, run'[s].at = "fail", Current(s)' \notin unsure'
          PROVE  run'[s].seen = queue'[Current(s)'].retry
      <4>1. run[s].at = "fail" /\ Current(s) \notin unsure /\ s # r
        BY <2>1, <3>7, <3>8
      <4>2. Current(s) # e
        BY <2>1, <4>1 DEF CountInv
      <4> QED BY <3>4, <3>7, <3>8, <4>1, <4>2 DEF CountInv
    <3>9. ASSUME NEW s \in Runner, run'[s].at = "fail", Current(s)' \notin unsure',
                 NEW u \in Runner, run'[u].at = "fail", Current(u)' = Current(s)'
          PROVE  u = s
      <4>1. /\ run[s].at = "fail" /\ run[u].at = "fail" /\ Current(u) = Current(s)
            /\ Current(s) \notin unsure
        BY <2>1, <3>7, <3>9
      <4> QED BY <4>1 DEF CountInv
    <3> HIDE DEF e, n
    <3> QED BY <3>6, <3>8, <3>9 DEF CountInv
  <2> QED BY <1>14, <2>4, <2>5 DEF CountWrite
<1>15. ASSUME NEW p \in Process, LoopTick(p) PROVE CountInv'
  <2>1. PICK k \in Slot : run' = [run EXCEPT ![<<p, k>>] = [@ EXCEPT !.at = "fetch"]]
    BY <1>15 DEF LoopTick
  <2> DEFINE t == <<p, k>>
  <2>2. t \in Runner /\ "fetch" \in RunPlace /\ UNCHANGED <<queue, counts>>
    BY <1>15 DEF Ticks, Runner, RunPlace, LoopTick
  <2>3. RunGoes(t, "fetch")
    BY <2>1 DEF RunGoes
  <2> HIDE DEF t
  <2>4. OnlyRun(t) /\ run'[t].at = "fetch"
    BY <1>1, <2>2, <2>3, GoesEffect
  <2> QED BY <1>3, <1>4, <1>5, <2>2, <2>4
<1>16. ASSUME NEW p \in Process, LoopStarts(p) \/ LoopStops(p) PROVE CountInv'
  BY <1>3, <1>4, <1>16 DEF LoopStarts, LoopStops
<1>17. ASSUME NEW S, Forget(S), UNCHANGED <<queue, counts>> PROVE CountInv'
  BY <1>1, <1>3, <1>4, <1>17, ForgetEffect
<1>18. ASSUME NEW p \in Process, LoopStopped(p) \/ LoopKilled(p) PROVE CountInv'
  BY <1>17, <1>18 DEF LoopStopped, LoopKilled
<1>19. ASSUME NEW r \in Replay, ReplayCut(r) PROVE CountInv'
  BY <1>17, <1>19 DEF ReplayCut
<1>20. ASSUME NEW r \in Replay, NEW e \in Event, ReplayRead(r, e) PROVE CountInv'
  <2>1. PICK place \in {"reset", "dispatch"} :
          run' = [run EXCEPT ![r] = [at |-> place, todo |-> <<e>>, seen |-> 0]]
    BY <1>20 DEF ReplayRead
  <2>2. r \in Runner /\ place \in RunPlace /\ 0 \in Nat /\ <<e>> \in Seq(Event)
    BY DEF Runner, RunPlace
  <2>3. OnlyRun(r) /\ run'[r].at = place
    BY <1>1, <2>1, <2>2, RowEffect
  <2>4. UNCHANGED <<queue, counts>>
    BY <1>20 DEF ReplayRead
  <2>5. run'[r].at # "fail"
    BY <2>3
  <2> QED BY <1>3, <1>4, <1>5, <2>2, <2>3, <2>4, <2>5
<1>21. \A p \in Process, k \in Slot : <<p, k>> \in Runner
  BY DEF Runner, Ticks
<1>22. Replay \subseteq Runner
  BY DEF Runner
<1> QED BY <1>6, <1>7, <1>8, <1>11, <1>12, <1>13, <1>14, <1>15, <1>16, <1>18, <1>19,
          <1>20, <1>21, <1>22 DEF QueueNext, LoopStep, RunStep

\* An event's count is the number of its failures, for any number of events,
\* processes and replays, unless the history says what upset it.
THEOREM RetriesCountedCorrect == QueueSpec => []RetriesCounted
<1>1. QueueInit => CountInv
  <2> SUFFICES ASSUME QueueInit PROVE CountInv
    OBVIOUS
  <2>1. \A r \in Runner : run[r].at = "idle"
    BY RestType DEF QueueInit
  <2>2. RetriesCounted
    <3>1. Unstarted.retry = 0 /\ Unstarted.dead = FALSE /\ (0 >= MaxRetries) = FALSE
      BY DEF Unstarted, MaxRetries
    <3> QED BY <3>1 DEF QueueInit, RetriesCounted
  <2> QED BY <2>1, <2>2 DEF CountInv
<1>2. CountInv => RetriesCounted
  BY DEF CountInv
<1>3. QueueTypeOK /\ RunnersInv /\ CountInv /\ [QueueNext]_queueVars => CountInv'
  BY CountStep
<1> QED BY <1>1, <1>2, <1>3, TypeInit, TypeStep, PTL DEF QueueSpec

\* A shutdown that is not forced cuts no handler short, whatever is running
\* when it comes.
THEOREM ShutdownCutsNothingCorrect == QueueSpec => ShutdownCutsNothing
<1> DEFINE Whole(r) == run[r].at \in Busy /\ run'[r].at \notin Busy
                         => run[r].at \in {"mark", "fail"}
<1>1. ASSUME QueueTypeOK, RunnersInv, [QueueNext]_queueVars, lapses' = lapses,
             NEW r \in Runner
      PROVE  Whole(r)
  <2>1. run \in [Runner -> RunRow] /\ LedgerOK /\ ~ Lapse
    <3>1. run \in [Runner -> RunRow] /\ LedgerOK
      BY <1>1, TypeParts
    <3>2. lapses \in Nat
      BY <3>1, QueueBounds DEF LedgerOK
    <3> QED BY <1>1, <3>1, <3>2 DEF Lapse
  <2>2. CASE run' = run
    BY <2>2
  <2>3. ASSUME NEW s \in Runner, RunStep(s) PROVE Whole(r)
    <3>1. OnlyRun(s)
      BY <1>1, <2>3, RunnerStep
    <3>2. CASE r # s
      BY <3>1, <3>2 DEF OnlyRun
    <3>3. CASE Fetch(s) \/ MarkEventProcessed(s) \/ CountWrite(s)
      BY <3>2, <3>3 DEF Fetch, MarkEventProcessed, CountWrite, RunAt, Busy
    <3>4. CASE ResetForReplay(s) \/ Dispatch(s)
      <4>1. PICK place \in {"dispatch", "mark", "count"} : RunGoes(s, place)
        BY <3>4 DEF ResetForReplay, Dispatch
      <4>2. run'[s].at = place
        BY <2>1, <4>1, GoesEffect DEF RunPlace
      <4> QED BY <3>2, <4>2 DEF Busy
    <3>5. CASE CountRead(s)
      <4>1. PICK n : run' = [run EXCEPT ![s] = [@ EXCEPT !.at = "fail", !.seen = n]]
        BY <3>5 DEF CountRead
      <4>2. run[s] \in RunRow
        BY <2>1
      <4>3. run'[s].at = "fail"
        BY <2>1, <4>1, <4>2 DEF RunRow
      <4> QED BY <3>2, <4>3 DEF Busy
    <3> QED BY <2>3, <3>3, <3>4, <3>5 DEF RunStep
  <2>4. ASSUME NEW p \in Process, LoopTick(p) PROVE Whole(r)
    <3>1. PICK k \in Slot : /\ Tick(p, k)
                           /\ run' = [run EXCEPT ![<<p, k>>] = [@ EXCEPT !.at = "fetch"]]
      BY <2>4 DEF LoopTick
    <3>2. <<p, k>> \in Ticks /\ <<p, k>> \notin inFlight
      BY <3>1 DEF Ticks, Tick, FirstFree
    <3>3. run[<<p, k>>].at = "idle"
      BY <1>1, <3>2 DEF RunnersInv
    <3> QED BY <2>1, <3>1, <3>3 DEF Busy
  <2>5. ASSUME NEW p \in Process, LoopStopped(p) PROVE Whole(r)
    <3>1. TicksOf(p) = {} /\ Forget(TicksOf(p))
      BY <2>5 DEF LoopStopped, Stopped
    <3>2. run'[r] = run[r]
      BY <2>1, <3>1, ForgetEffect
    <3> QED BY <3>2
  <2>6. ASSUME NEW q \in Replay, NEW e \in Event, ReplayRead(q, e) PROVE Whole(r)
    <3>1. run[q].at = "idle" /\ \A s \in Runner \ {q} : run'[s] = run[s]
      BY <2>1, <2>6 DEF ReplayRead, RunAt
    <3> QED BY <3>1 DEF Busy
  <2>7. \A p \in Process, k \in Slot : <<p, k>> \in Runner
    BY DEF Runner, Ticks
  <2>8. Replay \subseteq Runner
    BY DEF Runner
  <2>9. CASE UNCHANGED queueVars
    BY <2>2, <2>9 DEF queueVars
  <2>10. CASE \/ \E e \in Event : Emit(e) \/ EventAges(e)
              \/ \E p \in Process : LoopStarts(p) \/ LoopStops(p)
    BY <2>2, <2>10 DEF Emit, EventAges, LoopStarts, LoopStops
  <2>11. CASE \/ \E p \in Process : LoopKilled(p)
              \/ \E q \in Replay : ReplayCut(q)
    BY <2>1, <2>11 DEF LoopKilled, ReplayCut
  <2> HIDE DEF Whole
  <2> QED BY <1>1, <2>3, <2>4, <2>5, <2>6, <2>7, <2>8, <2>9, <2>10, <2>11
          DEF QueueNext, LoopStep
<1>2. QueueTypeOK /\ RunnersInv /\ [QueueNext]_queueVars =>
        (lapses' = lapses =>
          \A r \in Runner :
            run[r].at \in {"reset", "dispatch", "mark", "count", "fail"}
            /\ run'[r].at \notin {"reset", "dispatch", "mark", "count", "fail"}
              => run[r].at \in {"mark", "fail"})
  BY <1>1 DEF Busy
<1> QED BY <1>2, TypeInit, TypeStep, PTL DEF QueueSpec, ShutdownCutsNothing
=============================================================================
